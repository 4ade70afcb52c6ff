------------------------- MODULE ApprovalGateProofs -------------------------
(***************************************************************************)
(* Proofs about module ApprovalGate and the trail of module AuditChain,    *)
(* for any processes, operations, roles and workflows, and any number of   *)
(* calls, exits, days and lost entries.                                    *)
(***************************************************************************)
EXTENDS ApprovalGate, AuditChainProofs

Facts == Verdict \cup {Other}

-----------------------------------------------------------------------------
(* Types.                                                                  *)

(* The initial state is well typed.                                        *)
LEMMA InitTypeOK == Init => TypeOK
BY GateAssumption, AuditAssumption
   DEF Init, AuditInit, TypeOK, AuditTypeOK, PCs, NoJob, Job

(* Recording a fact keeps the trail well typed.                            *)
LEMMA RecordType ==
  ASSUME AuditTypeOK(Facts), NEW p \in Proc, NEW what \in Facts, record(p, what)
  PROVE  AuditTypeOK(Facts)'
<1> USE DEF AuditTypeOK
<1>1. PICK ok \in Kept : trail' = Append(trail, Entry(p, what, ok)) /\ Torn(ok)
  BY DEF record
<1>6. torn' \subseteq 1..MaxDays
  BY <1>1 DEF Torn
<1>2. ok \in BOOLEAN
  BY DEF Kept
<1>3. Entry(p, what, ok) \in AuditEntry(Facts)
  BY <1>2 DEF Entry, AuditEntry
<1>4. trail' \in Seq(AuditEntry(Facts)) /\ Len(trail') = Len(trail) + 1
  BY <1>1, <1>3
<1>5. Len(trail) \in Nat
  OBVIOUS
<1> QED
  BY <1>4, <1>5, <1>6 DEF record

(* A restart and midnight keep the trail well typed.                       *)
LEMMA RestartType ==
  ASSUME AuditTypeOK(Facts), NEW p \in Proc, Restart(p)
  PROVE  AuditTypeOK(Facts)'
BY DEF AuditTypeOK, Restart

LEMMA MidnightType ==
  ASSUME AuditTypeOK(Facts), Midnight
  PROVE  AuditTypeOK(Facts)'
BY AuditAssumption DEF AuditTypeOK, Midnight

(* A new request is a request, and a decided one is.                       *)
LEMMA NewRequestType ==
  ASSUME now \in 0..MaxNow, NEW o \in Op, NEW n \in Nat,
         NEW votes \in [Role -> Decisions \cup {"pending", "none"}]
  PROVE  NewRequest(o, votes, n) \in Request
BY DEF NewRequest, Request

LEMMA DecidedType ==
  ASSUME NEW r \in Request, NEW d \in Decisions, NEW by
  PROVE  [r EXCEPT !.status = d, !.votes = Votes(@, by, d)] \in Request
<1>1. Votes(r.votes, by, d) \in [Role -> Decisions \cup {"pending", "none"}]
  BY DEF Votes, Request
<1> QED
  BY <1>1 DEF Request

(* A process without a call has a job, of no operation.                    *)
LEMMA NoJobType == NoJob \in Job /\ NoJob.op = NoOp
BY DEF NoJob, Job

(* Every step keeps the types.                                             *)
LEMMA NextTypeOK == TypeOK /\ [Next]_vars => TypeOK'
<1> SUFFICES ASSUME TypeOK, [Next]_vars PROVE TypeOK'
  OBVIOUS
<1>a. AuditTypeOK(Facts)
  BY DEF TypeOK, Facts
<1>u. UNCHANGED audit => AuditTypeOK(Facts)'
  BY <1>a DEF AuditTypeOK, audit
<1> DEFINE Rest == /\ requests \in Seq(Request) /\ grants \subseteq Op
                   /\ now \in 0..MaxNow /\ calls \in 0..MaxCalls /\ exits \in 0..MaxExits
                   /\ approved \subseteq DOMAIN requests
           JobsOK == /\ pc \in [Proc -> PCs] /\ job \in [Proc -> Job]
                     /\ \A p \in Proc :
                          /\ pc[p] \in {"write", "decide"} => job[p].copy \in Request
                          /\ pc[p] \in {"load", "decide"} => job[p].id \in DOMAIN requests
                          /\ pc[p] = "list" => job[p].left \subseteq DOMAIN requests
                          /\ pc[p] \in {"list", "note", "grant", "save"} => job[p].op \in Op
<1>t. TypeOK <=> AuditTypeOK(Facts) /\ Rest /\ JobsOK
  BY DEF TypeOK, Facts
<1>t2. TypeOK' <=> AuditTypeOK(Facts)' /\ Rest' /\ JobsOK'
  BY DEF TypeOK, Facts
<1>r. Rest /\ JobsOK
  BY <1>t
<1>s. UNCHANGED <<store, calls, exits>> => Rest'
  BY <1>r DEF store
<1>s2. ASSUME UNCHANGED store, NEW p \in Proc, Call(p) PROVE Rest'
  BY <1>r, <1>s2, GateAssumption DEF store, Call
\* A process goes on with a job that suits the place; requests do not disappear.
<1>g. ASSUME NEW p \in Proc, NEW there \in PCs, NEW j \in Job, Goto(p, there, j),
             DOMAIN requests \subseteq DOMAIN requests',
             there \in {"write", "decide"} => j.copy \in Request,
             there \in {"load", "decide"} => j.id \in DOMAIN requests,
             there = "list" => j.left \subseteq DOMAIN requests,
             there \in {"list", "note", "grant", "save"} => j.op \in Op
      PROVE JobsOK'
  BY <1>g, <1>r DEF Goto
<1>n. NoJob \in Job
  BY NoJobType
<1> HIDE DEF JobsOK
<1>1. CASE UNCHANGED vars
  BY <1>1, <1>u, <1>s, <1>r, <1>t2 DEF vars, store, JobsOK
<1>2. CASE Tick
  BY <1>2, <1>u, <1>r, <1>t2, GateAssumption DEF Tick, JobsOK
<1>3. CASE NewDay
  BY <1>3, <1>a, MidnightType, <1>s, <1>r, <1>t2 DEF NewDay, JobsOK, store
<1>4. ASSUME NEW p \in Proc, Ask(p) PROVE TypeOK'
  <2>1. PICK o \in Gated : Goto(p, "list", [NoJob EXCEPT !.op = o, !.left = Of(o),
                                                         !.seen = Len(requests)])
    BY <1>4 DEF Ask
  <2>2. Of(o) \subseteq DOMAIN requests /\ Len(requests) \in Nat /\ o \in Op
    BY <1>r, GateAssumption DEF Of
  <2>5. DOMAIN requests \subseteq Nat
    BY <1>r
  <2>3. [NoJob EXCEPT !.op = o, !.left = Of(o), !.seen = Len(requests)] \in Job
    BY <2>2, <2>5, <1>n DEF Job, NoJob
  <2>4. JobsOK'
    BY <1>4, <2>1, <2>2, <2>3, <1>g DEF Ask, PCs, NoJob, store
  <2> QED
    BY <1>4, <2>4, <1>u, <1>s2, <1>t2 DEF Ask
<1>5. ASSUME NEW p \in Proc, AskFree(p) PROVE TypeOK'
  <2>1. PICK o \in Op \ Gated : record(p, [op |-> o, request |-> 0, result |-> "allowed"])
    BY <1>5 DEF AskFree
  <2>2. [op |-> o, request |-> 0, result |-> "allowed"] \in Facts
    BY DEF Facts, Verdict, Results
  <2>3. JobsOK'
    BY <1>5, <1>r DEF AskFree, JobsOK, store
  <2> QED
    BY <1>5, <2>1, <2>2, <2>3, RecordType, <1>a, <1>s2, <1>t2 DEF AskFree
<1>6. ASSUME NEW p \in Proc, LoadOne(p) PROVE TypeOK'
  <2>0. job[p] \in Job /\ job[p].op \in Op /\ job[p].left \subseteq DOMAIN requests
    BY <1>r, <1>6 DEF LoadOne, JobsOK
  <2>1. PICK i, j :
           /\ i \in job[p].left
           /\ Continue(p, "list", j)
           /\ \/ j = [job[p] EXCEPT !.left = @ \ {i}, !.id = i, !.copy = requests[i]]
              \/ j = [job[p] EXCEPT !.left = @ \ {i}]
    BY <1>6, <2>0 DEF LoadOne, Job
  <2>2. i \in Nat /\ requests[i] \in Request
    BY <2>0, <2>1, <1>r
  <2>3. j \in Job /\ j.op = job[p].op /\ j.left \subseteq DOMAIN requests
    BY <2>0, <2>1, <2>2 DEF Job
  <2>4. JobsOK'
    BY <1>6, <2>0, <2>1, <2>3, <1>g DEF LoadOne, Continue, PCs, store
  <2> QED
    BY <1>6, <2>1, <2>4, <1>u, <1>s, <1>t2 DEF LoadOne, Continue
\* The jobs whose process goes on with what it has, and records its verdict or not.
<1>v. ASSUME NEW p \in Proc, NEW r \in Results, job[p].op \in Op
      PROVE [op |-> job[p].op, request |-> job[p].id, result |-> r] \in Facts
  <2>1. job[p] \in Job
    BY <1>r DEF JobsOK
  <2> QED
    BY <2>1, <1>v DEF Facts, Verdict, Job
<1>7. ASSUME NEW p \in Proc, Allow(p) \/ Deny(p) \/ NoteRequest(p) PROVE TypeOK'
  <2>0. job[p] \in Job /\ job[p].op \in Op
    BY <1>r, <1>7 DEF Allow, Deny, NoteRequest, Listed, JobsOK
  <2>1. PICK r \in Results :
           record(p, [op |-> job[p].op, request |-> job[p].id, result |-> r])
    BY <1>7 DEF Allow, Deny, NoteRequest, Results
  <2>2. AuditTypeOK(Facts)'
    BY <2>0, <2>1, <1>v, <1>a, RecordType
  <2>3. JobsOK'
    BY <1>7, <2>0, <1>n, <1>g DEF Allow, Deny, NoteRequest, Continue, PCs, store
  <2> QED
    BY <1>7, <2>2, <2>3, <1>s, <1>t2 DEF Allow, Deny, NoteRequest, Continue
<1>8. ASSUME NEW p \in Proc, Create(p) PROVE TypeOK'
  <2>0. job[p] \in Job /\ job[p].op \in Op
    BY <1>r, <1>8 DEF Create, Listed, JobsOK
  <2> DEFINE c == NewRequest(job[p].op, [r \in Role |-> "none"], job[p].seen)
  <2>1. c \in Request
    BY <2>0, <1>r, NewRequestType DEF Job
  <2>2. Goto(p, "write", [job[p] EXCEPT !.copy = c])
    BY <1>8 DEF Create, Continue
  <2> HIDE DEF c
  <2>3. [job[p] EXCEPT !.copy = c] \in Job /\ [job[p] EXCEPT !.copy = c].copy = c
    BY <2>0, <2>1 DEF Job
  <2>4. JobsOK'
    BY <1>8, <2>1, <2>2, <2>3, <1>g DEF Create, PCs, store
  <2> QED
    BY <1>8, <2>4, <1>u, <1>s, <1>t2 DEF Create, Continue
<1>9. ASSUME NEW p \in Proc, Propose(p) PROVE TypeOK'
  <2>1. PICK o \in Gated, asked \in Workflows :
          Goto(p, "write", [NoJob EXCEPT !.copy =
              NewRequest(o, [r \in Role |-> IF r \in asked THEN "pending" ELSE "none"], 0)])
    BY <1>9 DEF Propose
  <2> DEFINE c == NewRequest(o, [r \in Role |-> IF r \in asked THEN "pending" ELSE "none"], 0)
  <2>2. c \in Request
    BY <1>r, GateAssumption, NewRequestType
  <2>3. Goto(p, "write", [NoJob EXCEPT !.copy = c])
    BY <2>1
  <2> HIDE DEF c
  <2>4. [NoJob EXCEPT !.copy = c] \in Job /\ [NoJob EXCEPT !.copy = c].copy = c
    BY <1>n, <2>2 DEF Job, NoJob
  <2>5. JobsOK'
    BY <1>9, <2>2, <2>3, <2>4, <1>g DEF Propose, PCs, store
  <2> QED
    BY <1>9, <2>5, <1>u, <1>s2, <1>t2 DEF Propose
<1>10. ASSUME NEW p \in Proc, WriteRequest(p) PROVE TypeOK'
  <2>0. job[p] \in Job /\ job[p].copy \in Request
    BY <1>r, <1>10 DEF WriteRequest, JobsOK
  <2>1. /\ requests' = Append(requests, job[p].copy) /\ requests' \in Seq(Request)
        /\ DOMAIN requests \subseteq DOMAIN requests' /\ Len(requests) + 1 \in Nat
    BY <2>0, <1>r, <1>10 DEF WriteRequest
  <2>4. JobsOK'
    <3>1. CASE job[p].op = NoOp
      <4>1. Goto(p, "idle", NoJob)
        BY <1>10, <3>1 DEF WriteRequest, Continue
      <4> QED
        BY <2>1, <4>1, <1>n, <1>g DEF PCs
    <3>2. CASE job[p].op # NoOp
      <4>1. [job[p] EXCEPT !.id = Len(requests) + 1] \in Job
        BY <2>0, <2>1 DEF Job
      <4>2. job[p].op \in Op /\ [job[p] EXCEPT !.id = Len(requests) + 1].op = job[p].op
        BY <2>0, <3>2 DEF Job
      <4>3. Goto(p, "note", [job[p] EXCEPT !.id = Len(requests) + 1])
        BY <1>10, <3>2 DEF WriteRequest, Continue
      <4> QED
        BY <2>1, <4>1, <4>2, <4>3, <1>g DEF PCs
    <3> QED
      BY <3>1, <3>2
  <2>5. Rest'
    BY <1>10, <2>1, <1>r DEF WriteRequest, Continue
  <2> QED
    BY <1>10, <2>4, <2>5, <1>u, <1>t2 DEF WriteRequest
<1>11. ASSUME NEW p \in Proc, LoadGrants(p) PROVE TypeOK'
  <2>0. job[p] \in Job /\ job[p].op \in Op
    BY <1>r, <1>11 DEF LoadGrants, JobsOK
  <2>1. \A held \in {grants, {}} : /\ [job[p] EXCEPT !.held = held] \in Job
                                   /\ [job[p] EXCEPT !.held = held].op = job[p].op
    BY <2>0, <1>r DEF Job
  <2>2. JobsOK'
    BY <1>11, <2>0, <2>1, <1>g DEF LoadGrants, Continue, PCs, store
  <2> QED
    BY <1>11, <2>2, <1>u, <1>s, <1>t2 DEF LoadGrants, Continue
<1>18. ASSUME NEW p \in Proc, GrantDirect(p) PROVE TypeOK'
  <2>1. PICK o \in Direct : Goto(p, "grant", [NoJob EXCEPT !.op = o])
    BY <1>18 DEF GrantDirect
  <2>2. [NoJob EXCEPT !.op = o] \in Job /\ [NoJob EXCEPT !.op = o].op \in Op
    BY <1>n, GateAssumption DEF Job, NoJob
  <2>3. JobsOK'
    BY <1>18, <2>1, <2>2, <1>g DEF GrantDirect, PCs, store
  <2> QED
    BY <1>18, <2>3, <1>u, <1>s2, <1>t2 DEF GrantDirect
<1>12. ASSUME NEW p \in Proc, SaveGrants(p) PROVE TypeOK'
  <2>0. job[p] \in Job /\ job[p].op \in Op
    BY <1>r, <1>12 DEF SaveGrants, JobsOK
  <2>1. grants' \subseteq Op
    BY <2>0, <1>12 DEF SaveGrants, Job
  <2>2. JobsOK'
    BY <1>12, <1>n, <1>g DEF SaveGrants, Continue, PCs
  <2> QED
    BY <1>12, <2>1, <2>2, <1>u, <1>r, <1>t2 DEF SaveGrants, Continue
<1>13. ASSUME NEW p \in Proc, CheckPending(p) \/ DecideAny(p) PROVE TypeOK'
  <2>1. PICK i \in DOMAIN requests :
           \/ Goto(p, "load", [NoJob EXCEPT !.id = i])
           \/ Goto(p, "decide", [NoJob EXCEPT !.id = i, !.copy = requests[i]])
    BY <1>13 DEF CheckPending, DecideAny
  <2>2. i \in Nat /\ requests[i] \in Request
    BY <1>r
  <2>3. /\ [NoJob EXCEPT !.id = i] \in Job
        /\ [NoJob EXCEPT !.id = i].id = i
        /\ [NoJob EXCEPT !.id = i, !.copy = requests[i]] \in Job
        /\ [NoJob EXCEPT !.id = i, !.copy = requests[i]].id = i
        /\ [NoJob EXCEPT !.id = i, !.copy = requests[i]].copy = requests[i]
    BY <2>2, <1>n DEF Job, NoJob
  <2>4. UNCHANGED <<store, audit>> /\ Call(p)
    BY <1>13 DEF CheckPending, DecideAny
  <2>5. JobsOK'
    BY <2>1, <2>2, <2>3, <2>4, <1>g DEF PCs, store
  <2> QED
    BY <2>4, <2>5, <1>u, <1>s2, <1>t2
<1>14. ASSUME NEW p \in Proc, DecideLoad(p) PROVE TypeOK'
  <2>0. job[p] \in Job /\ job[p].id \in DOMAIN requests
    BY <1>r, <1>14 DEF DecideLoad, JobsOK
  <2>1. requests[job[p].id] \in Request
    BY <2>0, <1>r
  <2>2. /\ [job[p] EXCEPT !.copy = requests[job[p].id]] \in Job
        /\ [job[p] EXCEPT !.copy = requests[job[p].id]].id = job[p].id
        /\ [job[p] EXCEPT !.copy = requests[job[p].id]].copy = requests[job[p].id]
    BY <2>0, <2>1 DEF Job
  <2>3. JobsOK'
    BY <1>14, <2>0, <2>1, <2>2, <1>g DEF DecideLoad, Continue, PCs, store
  <2> QED
    BY <1>14, <2>3, <1>u, <1>s, <1>t2 DEF DecideLoad, Continue
<1>15. ASSUME NEW p \in Proc, DecideSave(p) PROVE TypeOK'
  <2>0. job[p].copy \in Request /\ job[p].id \in DOMAIN requests
    BY <1>r, <1>15 DEF DecideSave, JobsOK
  <2>1. PICK d \in Decisions, by \in Role \cup {NoRole} :
          /\ requests' = [requests EXCEPT ![job[p].id] =
                 [job[p].copy EXCEPT !.status = d, !.votes = Votes(@, by, d)]]
          /\ approved' = IF d = "approved" THEN approved \cup {job[p].id} ELSE approved
    BY <1>15 DEF DecideSave
  <2>2. [job[p].copy EXCEPT !.status = d, !.votes = Votes(@, by, d)] \in Request
    BY <2>0, DecidedType
  <2>3. requests' \in Seq(Request) /\ DOMAIN requests' = DOMAIN requests
    BY <2>0, <2>1, <2>2, <1>r
  <2>4. approved' \subseteq DOMAIN requests'
    BY <2>0, <2>1, <2>3, <1>r
  <2>5. JobsOK'
    BY <1>15, <2>3, <1>n, <1>g DEF DecideSave, Continue, PCs
  <2> QED
    BY <1>15, <2>3, <2>4, <2>5, <1>u, <1>r, <1>t2 DEF DecideSave, Continue
<1>16. ASSUME NEW p \in Proc, RecordOther(p) PROVE TypeOK'
  <2>1. Other \in Facts
    BY DEF Facts
  <2> QED
    BY <1>16, <2>1, <1>a, RecordType, <1>s2, <1>r, <1>t2 DEF RecordOther, JobsOK, store
<1>17. ASSUME NEW p \in Proc, Exit(p) PROVE TypeOK'
  <2>1. JobsOK'
    BY <1>17, <1>n, <1>g DEF Exit, PCs, store
  <2> QED
    BY <1>17, <2>1, <1>a, RestartType, <1>r, <1>t2, GateAssumption DEF Exit, store
<1> QED
  BY <1>1, <1>2, <1>3, <1>4, <1>5, <1>6, <1>7, <1>8, <1>9, <1>10, <1>11, <1>12, <1>13,
     <1>14, <1>15, <1>16, <1>17, <1>18 DEF Next, Gate, Decide

-----------------------------------------------------------------------------
(* What the gate and the deciders rely on.                                 *)

\* Operation o was approved, and the gate recorded that it let it through.
Earned(o) == \E i \in approved \cap Of(o) : LetThrough(o, i)

\* The requests for o among the first n.
First(o, n) == Of(o) \cap 1..n

(* What is approved now was approved some day.                             *)
StoreInv == \A i \in DOMAIN requests : requests[i].status = "approved" => i \in approved

(* The newest of the requests that a gate has loaded is the one it holds;  *)
(* a gate that makes a request had found none; one that goes on to grant   *)
(* has earned it; and a decision works on the request it will overwrite.   *)
GateInv(p) ==
    /\ pc[p] \in {"list", "grant", "save"} => job[p].seen \in 0..Len(requests)
    /\ pc[p] = "list" => job[p].left \subseteq Of(job[p].op)
    /\ pc[p] = "list" /\ job[p].id = 0 =>
          First(job[p].op, job[p].seen) \subseteq job[p].left
    /\ pc[p] = "list" /\ job[p].id # 0 =>
          /\ job[p].copy \in Request /\ job[p].id \in Of(job[p].op)
          /\ job[p].copy.status = "approved" => job[p].id \in approved
          /\ \A i \in First(job[p].op, job[p].seen) \ job[p].left :
                requests[i].at <= job[p].copy.at
    /\ pc[p] = "write" => /\ job[p].copy.after \in 0..Len(requests)
                          /\ job[p].copy.status = "pending"
                          /\ First(job[p].copy.op, job[p].copy.after) = {}
    /\ pc[p] \in {"grant", "save"} /\ job[p].op \in Gated =>
          /\ job[p].op \notin Direct => Earned(job[p].op)
          /\ \A i \in First(job[p].op, job[p].seen) : requests[i].at <= job[p].copy.at
    /\ pc[p] = "save" => \A o \in (job[p].held \cap Gated) \ Direct : Earned(o)
    /\ pc[p] = "decide" => /\ job[p].copy.op = requests[job[p].id].op
                           /\ job[p].copy.at = requests[job[p].id].at
                           /\ job[p].copy.after = requests[job[p].id].after

IInv == /\ TypeOK /\ StoreInv /\ \A p \in Proc : GateInv(p)
        /\ AuthorityWasApproved /\ OneRequestEach

(* Requests keep what they were made with, approvals and entries stay.     *)
Grown ==
    /\ Len(requests) <= Len(requests')
    /\ \A i \in DOMAIN requests : /\ requests'[i].op = requests[i].op
                                  /\ requests'[i].at = requests[i].at
                                  /\ requests'[i].after = requests[i].after
    /\ approved \subseteq approved'
    /\ Len(trail) <= Len(trail')
    /\ \A n \in DOMAIN trail : trail'[n] = trail[n]

(* Recording a fact appends an entry with it.                              *)
LEMMA RecordGrows ==
  ASSUME TypeOK, NEW p \in Proc, NEW what, record(p, what)
  PROVE  /\ Len(trail') = Len(trail) + 1
         /\ \A n \in DOMAIN trail : trail'[n] = trail[n]
         /\ trail'[Len(trail) + 1].what = what
<1>1. PICK ok \in Kept : trail' = Append(trail, Entry(p, what, ok))
  BY DEF record
<1>2. trail \in Seq(AuditEntry(Facts)) /\ Len(trail) \in Nat
  BY DEF TypeOK, AuditTypeOK, Facts
<1> QED
  BY <1>1, <1>2 DEF Entry

(* Requests, approvals and the trail only grow.                            *)
LEMMA NextGrown ==
  ASSUME TypeOK, \A p \in Proc : GateInv(p), [Next]_vars
  PROVE  Grown
<1>t. trail \in Seq(AuditEntry(Facts)) /\ Len(trail) \in Nat
  BY DEF TypeOK, AuditTypeOK, Facts
<1>r. requests \in Seq(Request) /\ Len(requests) \in Nat
  BY DEF TypeOK
<1>0. UNCHANGED trail => Len(trail) <= Len(trail') /\ \A n \in DOMAIN trail : trail'[n] = trail[n]
  BY <1>t
<1>1. UNCHANGED <<requests, approved, trail>> => Grown
  BY <1>r, <1>t DEF Grown
<1>2. ASSUME NEW p \in Proc, NEW what, record(p, what), UNCHANGED <<requests, approved>>
      PROVE Grown
  BY <1>2, <1>r, <1>t, RecordGrows DEF Grown
<1>3. CASE UNCHANGED vars \/ Tick \/ NewDay
  BY <1>1, <1>3 DEF vars, audit, store, Tick, NewDay, Midnight
<1>4. ASSUME NEW p \in Proc, \/ Ask(p) \/ LoadOne(p) \/ Create(p) \/ LoadGrants(p)
                             \/ SaveGrants(p) \/ GrantDirect(p) \/ Propose(p) \/ CheckPending(p)
                             \/ DecideAny(p) \/ DecideLoad(p) \/ Exit(p)
      PROVE Grown
  BY <1>1, <1>4 DEF Ask, LoadOne, Create, GrantDirect, LoadGrants, SaveGrants, Propose, CheckPending,
                    DecideAny, DecideLoad, Exit, Restart, audit, store
<1>5. ASSUME NEW p \in Proc, \/ AskFree(p) \/ Allow(p) \/ Deny(p) \/ NoteRequest(p)
                             \/ RecordOther(p)
      PROVE Grown
  BY <1>2, <1>5 DEF AskFree, Allow, Deny, NoteRequest, RecordOther, store
<1>6. ASSUME NEW p \in Proc, WriteRequest(p) PROVE Grown
  <2>1. job[p].copy \in Request
    BY <1>6 DEF WriteRequest, TypeOK
  <2>2. requests' = Append(requests, job[p].copy) /\ UNCHANGED <<approved, trail>>
    BY <1>6 DEF WriteRequest, audit
  <2> QED
    BY <2>1, <2>2, <1>0, <1>r DEF Grown
<1>7. ASSUME NEW p \in Proc, DecideSave(p) PROVE Grown
  <2>1. /\ job[p].id \in DOMAIN requests /\ job[p].copy \in Request
        /\ job[p].copy.op = requests[job[p].id].op
        /\ job[p].copy.at = requests[job[p].id].at
        /\ job[p].copy.after = requests[job[p].id].after
    BY <1>7 DEF DecideSave, TypeOK, GateInv
  <2>2. PICK d \in Decisions, by \in Role \cup {NoRole} :
          /\ requests' = [requests EXCEPT ![job[p].id] =
                 [job[p].copy EXCEPT !.status = d, !.votes = Votes(@, by, d)]]
          /\ approved' = IF d = "approved" THEN approved \cup {job[p].id} ELSE approved
    BY <1>7 DEF DecideSave
  <2> DEFINE new == [job[p].copy EXCEPT !.status = d, !.votes = Votes(@, by, d)]
  <2>3. new.op = job[p].copy.op /\ new.at = job[p].copy.at /\ new.after = job[p].copy.after
    BY <2>1 DEF Request
  <2>4. requests' = [requests EXCEPT ![job[p].id] = new]
    BY <2>2
  <2> HIDE DEF new
  <2>5. UNCHANGED trail
    BY <1>7 DEF DecideSave, audit
  <2> QED
    BY <2>1, <2>2, <2>3, <2>4, <2>5, <1>0, <1>r DEF Grown
<1> QED
  BY <1>3, <1>4, <1>5, <1>6, <1>7 DEF Next, Gate, Decide

(* What has been earned stays earned.                                      *)
LEMMA EarnedGrown ==
  ASSUME TypeOK, TypeOK', Grown, NEW o, Earned(o)
  PROVE  Earned(o)'
<1>1. /\ requests \in Seq(Request) /\ requests' \in Seq(Request)
      /\ trail \in Seq(AuditEntry(Facts)) /\ trail' \in Seq(AuditEntry(Facts))
  BY DEF TypeOK, AuditTypeOK, Facts
<1>2. PICK i \in approved \cap Of(o) : LetThrough(o, i)
  BY DEF Earned
<1>3. i \in approved' /\ i \in Of(o)'
  BY <1>1, <1>2 DEF Grown, Of
<1>4. LetThrough(o, i)'
  BY <1>1, <1>2 DEF Grown, LetThrough
<1> QED
  BY <1>3, <1>4 DEF Earned

(* What a gate had before it stays what it was.                            *)
LEMMA FirstGrown ==
  ASSUME TypeOK, TypeOK', Grown, NEW o, NEW n \in 0..Len(requests)
  PROVE  /\ n \in 0..Len(requests') /\ Of(o) \subseteq Of(o)'
         /\ Of(o)' \cap 1..n = First(o, n)
         /\ \A i \in Of(o) : requests'[i].at = requests[i].at
<1>1. /\ requests \in Seq(Request) /\ requests' \in Seq(Request)
      /\ Len(requests) \in Nat /\ Len(requests') \in Nat
  BY DEF TypeOK
<1> QED
  BY <1>1 DEF Grown, Of, First

(* Nothing that another process does disturbs a process that waits.        *)
LEMMA KeepGateInv ==
  ASSUME TypeOK, TypeOK', Grown, NEW q \in Proc, GateInv(q),
         pc'[q] = pc[q], job'[q] = job[q]
  PROVE  GateInv(q)'
<1>1. CASE pc[q] \in {"list", "grant", "save"}
  <2>1. job[q].seen \in 0..Len(requests)
    BY <1>1 DEF GateInv
  <2>2. /\ job[q].seen \in 0..Len(requests') /\ Of(job[q].op) \subseteq Of(job[q].op)'
        /\ First(job[q].op, job[q].seen)' = First(job[q].op, job[q].seen)
        /\ \A i \in Of(job[q].op) : requests'[i].at = requests[i].at
    BY <2>1, FirstGrown DEF First
  <2>3. \A i \in First(job[q].op, job[q].seen) : requests'[i].at = requests[i].at
    BY <2>2 DEF First
  <2>4. \A o : Earned(o) => Earned(o)'
    BY EarnedGrown
  <2> HIDE DEF First, Of, Earned
  <2> QED
    BY <1>1, <2>2, <2>3, <2>4 DEF GateInv, Grown
<1>2. CASE pc[q] = "write"
  <2>1. job[q].copy.after \in 0..Len(requests) /\ First(job[q].copy.op, job[q].copy.after) = {}
    BY <1>2 DEF GateInv
  <2>2. /\ job[q].copy.after \in 0..Len(requests')
        /\ First(job[q].copy.op, job[q].copy.after)' = {}
    BY <2>1, FirstGrown DEF First
  <2> QED
    BY <1>2, <2>2 DEF GateInv
<1>3. CASE pc[q] = "decide"
  BY <1>3 DEF GateInv, Grown, TypeOK
<1>4. CASE pc[q] \notin {"list", "grant", "save", "write", "decide"}
  BY <1>4 DEF GateInv
<1> QED
  BY <1>1, <1>2, <1>3, <1>4

(* The process that takes the step.                                        *)
LEMMA StepGateInv ==
  ASSUME TypeOK, TypeOK', StoreInv, Grown, NEW p \in Proc, GateInv(p),
         AuthorityWasApproved,
         Gate(p) \/ Decide(p) \/ RecordOther(p) \/ Exit(p)
  PROVE  GateInv(p)'
<1>t. /\ requests \in Seq(Request) /\ Len(requests) \in Nat
      /\ pc \in [Proc -> PCs] /\ job \in [Proc -> Job] /\ job[p] \in Job
      /\ trail \in Seq(AuditEntry(Facts)) /\ Len(trail) \in Nat
  BY DEF TypeOK, AuditTypeOK, Facts
<1>0. ASSUME pc'[p] \in {"idle", "note", "load"} PROVE GateInv(p)'
  BY <1>0 DEF GateInv
<1>1. CASE Ask(p)
  <2>1. PICK o \in Gated : Goto(p, "list", [NoJob EXCEPT !.op = o, !.left = Of(o),
                                                         !.seen = Len(requests)])
    BY <1>1 DEF Ask
  <2>2. /\ pc'[p] = "list" /\ job'[p].op = o /\ job'[p].left = Of(o)
        /\ job'[p].seen = Len(requests) /\ job'[p].id = 0
    BY <2>1, <1>t DEF Goto, NoJob
  <2>3. requests' = requests
    BY <1>1 DEF Ask, store
  <2> QED
    BY <2>2, <2>3, <1>t DEF GateInv, First, Of
<1>2. CASE AskFree(p)
  <2>1. pc[p] = "idle" /\ pc' = pc
    BY <1>2 DEF AskFree, Call
  <2> QED
    BY <2>1, <1>0
<1>3. CASE LoadOne(p)
  <2>0. /\ pc[p] = "list" /\ job[p].seen \in 0..Len(requests)
        /\ job[p].left \subseteq Of(job[p].op)
    BY <1>3 DEF LoadOne, GateInv
  <2> DEFINE known == First(job[p].op, job[p].seen)
  <2>1. PICK i, j :
           /\ i \in job[p].left
           /\ Goto(p, "list", j)
           /\ \/ /\ job[p].id # 0 => requests[i].at >= job[p].copy.at
                 /\ j = [job[p] EXCEPT !.left = @ \ {i}, !.id = i, !.copy = requests[i]]
              \/ /\ job[p].id # 0 /\ requests[i].at <= job[p].copy.at
                 /\ j = [job[p] EXCEPT !.left = @ \ {i}]
    BY <1>3, <1>t DEF LoadOne, Continue, Job
  <2>2. /\ j.op = job[p].op /\ j.seen = job[p].seen /\ j.left = job[p].left \ {i}
        /\ pc'[p] = "list" /\ job'[p] = j
    BY <2>1, <1>t DEF Goto, Job
  <2>3. UNCHANGED <<requests, approved>>
    BY <1>3 DEF LoadOne, store
  <2>4. i \in Of(job[p].op) /\ i \in DOMAIN requests /\ i # 0
    BY <2>0, <2>1, <1>t DEF Of
  <2>a. requests[i] \in Request
    BY <2>4, <1>t
  <2>5. requests[i] \in Request /\ requests[i].at \in 0..MaxNow
    BY <2>a DEF Request
  <2>6. /\ j.left \subseteq Of(job[p].op)
        /\ First(job[p].op, job[p].seen)' = known /\ Of(job[p].op)' = Of(job[p].op)
    <3>1. job'[p].op = job[p].op /\ job'[p].seen = job[p].seen
      BY <2>2
    <3>2. Of(job[p].op)' = Of(job[p].op)
      BY <3>1, <2>3 DEF Of
    <3>3. First(job[p].op, job[p].seen)' = known
      BY <3>1, <3>2 DEF First
    <3> QED
      BY <2>0, <2>2, <3>2, <3>3
  <2>7. known \subseteq DOMAIN requests
    BY DEF First, Of
  <2>8. ASSUME NEW k \in known PROVE requests[k].at \in 0..MaxNow
    <3>1. requests[k] \in Request
      BY <2>7, <1>t
    <3> QED
      BY <3>1 DEF Request
  <2>9. CASE j = [job[p] EXCEPT !.left = @ \ {i}, !.id = i, !.copy = requests[i]]
             /\ (job[p].id # 0 => requests[i].at >= job[p].copy.at)
    <3>1. j.id = i /\ j.copy = requests[i]
      BY <2>9, <1>t DEF Job
    <3>2. ASSUME NEW k \in known \ j.left PROVE requests[k].at <= j.copy.at
      <4>1. CASE k = i
        BY <4>1, <3>1, <2>5
      <4>2. CASE k # i
        <5>1. k \notin job[p].left
          BY <4>2, <3>2, <2>2
        <5>2. job[p].id # 0 /\ job[p].copy \in Request /\ requests[k].at <= job[p].copy.at
          BY <5>1, <3>2, <2>0 DEF GateInv
        <5> QED
          BY <5>2, <2>9, <3>1, <2>5, <2>8, <3>2 DEF Request
      <4> QED
        BY <4>1, <4>2
    <3>3. requests[i].status = "approved" => i \in approved
      BY <2>4 DEF StoreInv
    <3> HIDE DEF known
    <3> QED
      BY <2>0, <2>2, <2>3, <2>4, <2>5, <2>6, <3>1, <3>2, <3>3 DEF GateInv
  <2>10. CASE j = [job[p] EXCEPT !.left = @ \ {i}]
              /\ job[p].id # 0 /\ requests[i].at <= job[p].copy.at
    <3>1. j.id = job[p].id /\ j.copy = job[p].copy
      BY <2>10, <1>t DEF Job
    <3>2. /\ job[p].copy \in Request /\ job[p].id \in Of(job[p].op)
          /\ job[p].copy.status = "approved" => job[p].id \in approved
          /\ \A k \in known \ job[p].left : requests[k].at <= job[p].copy.at
      BY <2>0, <2>10 DEF GateInv
    <3>3. \A k \in known \ j.left : requests[k].at <= j.copy.at
      BY <3>1, <3>2, <2>2, <2>10
    <3> HIDE DEF known
    <3> QED
      BY <2>0, <2>2, <2>3, <2>6, <2>10, <3>1, <3>2, <3>3 DEF GateInv
  <2> QED
    BY <2>1, <2>9, <2>10
<1>4. CASE Allow(p)
  <2>0. /\ pc[p] = "list" /\ job[p].left = {} /\ job[p].id # 0
        /\ job[p].copy.status = "approved"
    BY <1>4 DEF Allow, Listed
  <2>1. /\ pc'[p] = "grant" /\ job'[p] = job[p] /\ UNCHANGED <<requests, approved>>
    BY <1>4, <1>t DEF Allow, Continue, Goto, store
  <2>2. /\ job[p].seen \in 0..Len(requests)
        /\ job[p].id \in approved \cap Of(job[p].op)
        /\ \A i \in First(job[p].op, job[p].seen) : requests[i].at <= job[p].copy.at
    BY <2>0 DEF GateInv
  <2>3. LetThrough(job[p].op, job[p].id)'
    <3>1. record(p, [op |-> job[p].op, request |-> job[p].id, result |-> "allowed"])
      BY <1>4 DEF Allow
    <3>2. /\ Len(trail') = Len(trail) + 1
          /\ trail'[Len(trail) + 1].what = [op |-> job[p].op, request |-> job[p].id,
                                            result |-> "allowed"]
      BY <3>1, RecordGrows
    <3>3. trail' \in Seq(AuditEntry(Facts))
      BY DEF TypeOK, AuditTypeOK, Facts
    <3>4. Len(trail) + 1 \in DOMAIN trail'
      BY <3>2, <3>3, <1>t
    <3> QED
      BY <3>2, <3>4, <2>1 DEF LetThrough
  <2>4. Earned(job[p].op)'
    BY <2>1, <2>2, <2>3 DEF Earned, Of
  <2> QED
    BY <2>1, <2>2, <2>4 DEF GateInv, First, Of
<1>5. CASE Deny(p) \/ NoteRequest(p) \/ SaveGrants(p) \/ DecideSave(p) \/ Exit(p)
  BY <1>5, <1>0, <1>t DEF Deny, NoteRequest, SaveGrants, DecideSave, Exit, Continue, Goto
<1>6. CASE Create(p)
  <2>0. pc[p] = "list" /\ job[p].left = {} /\ job[p].id = 0
    BY <1>6 DEF Create, Listed
  <2>1. job[p].seen \in 0..Len(requests) /\ First(job[p].op, job[p].seen) = {}
    BY <2>0 DEF GateInv
  <2>2. /\ pc'[p] = "write" /\ job'[p].copy.after = job[p].seen
        /\ job'[p].copy.status = "pending"
        /\ job'[p].copy.op = job[p].op /\ requests' = requests
    BY <1>6, <1>t DEF Create, Continue, Goto, NewRequest, store, Job
  <2> QED
    BY <2>1, <2>2 DEF GateInv, First, Of
<1>7. CASE Propose(p)
  <2>1. /\ pc'[p] = "write" /\ job'[p].copy.after = 0 /\ requests' = requests
        /\ job'[p].copy.status = "pending"
    BY <1>7, <1>t DEF Propose, Goto, NewRequest, store, NoJob
  <2> QED
    BY <2>1, <1>t DEF GateInv, First
<1>8. CASE WriteRequest(p)
  <2>1. pc'[p] \in {"idle", "note"}
    BY <1>8, <1>t DEF WriteRequest, Continue, Goto
  <2> QED
    BY <2>1, <1>0
<1>9. CASE LoadGrants(p)
  <2>1. /\ pc[p] = "grant" /\ pc'[p] = "save" /\ job'[p].held \in {grants, {}}
        /\ job'[p].op = job[p].op /\ job'[p].seen = job[p].seen /\ job'[p].copy = job[p].copy
        /\ UNCHANGED <<requests, approved, trail>>
    BY <1>9, <1>t DEF LoadGrants, Continue, Goto, store, audit, Job
  <2>2. \A o \in (grants \cap Gated) \ Direct : Earned(o)
    BY DEF AuthorityWasApproved, Earned
  <2>3. \A o : Earned(o)' <=> Earned(o)
    BY <2>1 DEF Earned, Of, LetThrough
  <2> HIDE DEF Earned
  <2> QED
    BY <2>1, <2>2, <2>3 DEF GateInv, First, Of
<1>10. CASE CheckPending(p)
  <2>1. pc'[p] = "load"
    BY <1>10, <1>t DEF CheckPending, Goto
  <2> QED
    BY <2>1, <1>0
<1>11. CASE DecideAny(p)
  <2>1. PICK i \in DOMAIN requests :
           Goto(p, "decide", [NoJob EXCEPT !.id = i, !.copy = requests[i]])
    BY <1>11 DEF DecideAny
  <2>2. /\ pc'[p] = "decide" /\ job'[p].id = i /\ job'[p].copy = requests[i]
        /\ requests' = requests
    BY <1>11, <2>1, <1>t DEF DecideAny, Goto, NoJob, store
  <2> QED
    BY <2>2 DEF GateInv
<1>12. CASE DecideLoad(p)
  <2>1. /\ pc'[p] = "decide" /\ job'[p].id = job[p].id
        /\ job'[p].copy = requests[job[p].id] /\ requests' = requests
    BY <1>12, <1>t DEF DecideLoad, Continue, Goto, Job, store
  <2> QED
    BY <2>1 DEF GateInv
<1>14. CASE GrantDirect(p)
  <2>1. PICK o \in Direct : Goto(p, "grant", [NoJob EXCEPT !.op = o])
    BY <1>14 DEF GrantDirect
  <2>2. pc'[p] = "grant" /\ job'[p].op = o /\ job'[p].seen = 0
    BY <2>1, <1>t DEF Goto, NoJob
  <2>3. requests' = requests
    BY <1>14 DEF GrantDirect, store
  <2>4. First(o, 0)' = {}
    BY DEF First
  <2> QED
    BY <2>2, <2>3, <2>4, <1>t DEF GateInv
<1>13. CASE RecordOther(p)
  <2>1. pc[p] = "idle" /\ pc' = pc
    BY <1>13 DEF RecordOther, Call
  <2> QED
    BY <2>1, <1>0
<1> QED
  BY <1>1, <1>2, <1>3, <1>4, <1>5, <1>6, <1>7, <1>8, <1>9, <1>10, <1>11, <1>12, <1>13,
     <1>14 DEF Gate, Decide

(* Every process is as GateInv says after a step of any.                   *)
LEMMA NextGateInv ==
  ASSUME IInv, TypeOK', Grown, [Next]_vars
  PROVE  \A q \in Proc : GateInv(q)'
<1> SUFFICES ASSUME NEW q \in Proc PROVE GateInv(q)'
  OBVIOUS
<1>0. GateInv(q)
  BY DEF IInv
<1>1. CASE UNCHANGED <<pc, job>>
  BY <1>0, <1>1, KeepGateInv DEF IInv
<1>2. ASSUME NEW p \in Proc, Gate(p) \/ Decide(p) \/ RecordOther(p) \/ Exit(p)
      PROVE GateInv(q)'
  <2>1. CASE p = q
    BY <1>0, <1>2, <2>1, StepGateInv DEF IInv
  <2>2. CASE p # q
    <3>1. pc \in [Proc -> PCs] /\ job \in [Proc -> Job]
      BY DEF IInv, TypeOK
    <3>2. pc'[q] = pc[q] /\ job'[q] = job[q]
      BY <1>2, <2>2, <3>1
         DEF Gate, Decide, Ask, AskFree, LoadOne, Allow, Deny, Create, WriteRequest,
             NoteRequest, GrantDirect, LoadGrants, SaveGrants, Propose, CheckPending, DecideAny,
             DecideLoad, DecideSave, RecordOther, Exit, Goto, Continue
    <3> QED
      BY <1>0, <3>2, KeepGateInv DEF IInv
  <2> QED
    BY <2>1, <2>2
<1>3. CASE Tick \/ NewDay \/ UNCHANGED vars
  BY <1>1, <1>3 DEF Tick, NewDay, vars
<1> QED
  BY <1>2, <1>3 DEF Next

(* A request gets approved by a decision only.                             *)
LEMMA NextStoreInv == IInv /\ [Next]_vars => StoreInv'
<1> SUFFICES ASSUME IInv, [Next]_vars PROVE StoreInv'
  OBVIOUS
<1> USE DEF StoreInv
<1>t. requests \in Seq(Request) /\ Len(requests) \in Nat /\ StoreInv
  BY DEF IInv, TypeOK
<1>1. CASE UNCHANGED <<requests, approved>>
  BY <1>1, <1>t
<1>2. ASSUME NEW p \in Proc, WriteRequest(p) PROVE StoreInv'
  <2>1. requests' = Append(requests, job[p].copy) /\ approved' = approved /\ pc[p] = "write"
    BY <1>2 DEF WriteRequest
  <2>2. job[p].copy \in Request
    BY <2>1 DEF IInv, TypeOK
  <2>3. job[p].copy.status = "pending"
    BY <2>1 DEF IInv, GateInv
  <2> QED
    BY <2>1, <2>2, <2>3, <1>t
<1>3. ASSUME NEW p \in Proc, DecideSave(p) PROVE StoreInv'
  <2>1. job[p].copy \in Request /\ job[p].id \in DOMAIN requests
    BY <1>3 DEF DecideSave, IInv, TypeOK
  <2>2. PICK d \in Decisions, by \in Role \cup {NoRole} :
          /\ requests' = [requests EXCEPT ![job[p].id] =
                 [job[p].copy EXCEPT !.status = d, !.votes = Votes(@, by, d)]]
          /\ approved' = IF d = "approved" THEN approved \cup {job[p].id} ELSE approved
    BY <1>3 DEF DecideSave
  <2> DEFINE new == [job[p].copy EXCEPT !.status = d, !.votes = Votes(@, by, d)]
  <2>3. new.status = d
    BY <2>1 DEF Request
  <2>4. requests' = [requests EXCEPT ![job[p].id] = new]
    BY <2>2
  <2> HIDE DEF new
  <2> QED
    BY <2>1, <2>2, <2>3, <2>4, <1>t
<1>4. ASSUME NEW p \in Proc, Gate(p) \/ Decide(p) \/ RecordOther(p) \/ Exit(p),
             ~WriteRequest(p), ~DecideSave(p)
      PROVE UNCHANGED <<requests, approved>>
  BY <1>4 DEF Gate, Decide, Ask, AskFree, LoadOne, Allow, Deny, Create, NoteRequest,
              GrantDirect, LoadGrants, SaveGrants, Propose, CheckPending, DecideAny, DecideLoad,
              RecordOther, Exit, store
<1>5. CASE Tick \/ NewDay \/ UNCHANGED vars
  BY <1>1, <1>5 DEF Tick, NewDay, vars, store
<1> QED
  BY <1>1, <1>2, <1>3, <1>4, <1>5 DEF Next

(* A grant is saved by a process that has earned it, with those it read.   *)
LEMMA NextGranted == IInv /\ TypeOK' /\ Grown /\ [Next]_vars => AuthorityWasApproved'
<1> SUFFICES ASSUME IInv, TypeOK', Grown, [Next]_vars PROVE AuthorityWasApproved'
  OBVIOUS
<1>0. \A o \in (grants \cap Gated) \ Direct : Earned(o)
  BY DEF IInv, AuthorityWasApproved, Earned
<1>1. \A o : Earned(o) => Earned(o)'
  BY EarnedGrown DEF IInv
<1>2. ASSUME \A o \in (grants' \cap Gated) \ Direct : Earned(o) PROVE AuthorityWasApproved'
  BY <1>1, <1>2 DEF AuthorityWasApproved, Earned
<1>3. ASSUME NEW p \in Proc, SaveGrants(p) PROVE AuthorityWasApproved'
  <2>1. pc[p] = "save" /\ grants' = job[p].held \cup {job[p].op}
    BY <1>3 DEF SaveGrants
  <2>2. /\ job[p].op \in Gated \ Direct => Earned(job[p].op)
        /\ \A o \in (job[p].held \cap Gated) \ Direct : Earned(o)
    BY <2>1 DEF IInv, GateInv
  <2> QED
    BY <1>2, <2>1, <2>2
<1>4. ASSUME NEW p \in Proc, Gate(p) \/ Decide(p) \/ RecordOther(p) \/ Exit(p),
             ~SaveGrants(p)
      PROVE grants' = grants
  BY <1>4 DEF Gate, Decide, Ask, AskFree, LoadOne, Allow, Deny, Create, WriteRequest,
              NoteRequest, GrantDirect, LoadGrants, Propose, CheckPending, DecideAny, DecideLoad,
              DecideSave, RecordOther, Exit, store
<1>5. CASE Tick \/ NewDay \/ UNCHANGED vars
  BY <1>0, <1>2, <1>5 DEF Tick, NewDay, vars, store
<1> QED
  BY <1>0, <1>2, <1>3, <1>4, <1>5 DEF Next

(* A request is added after those that its gate had not found.             *)
LEMMA NextOneRequest == IInv /\ TypeOK' /\ Grown /\ [Next]_vars => OneRequestEach'
<1> SUFFICES ASSUME IInv, TypeOK', Grown, [Next]_vars PROVE OneRequestEach'
  OBVIOUS
<1>t. requests \in Seq(Request) /\ Len(requests) \in Nat /\ OneRequestEach
  BY DEF IInv, TypeOK
<1>0. ASSUME DOMAIN requests' = DOMAIN requests PROVE OneRequestEach'
  BY <1>0, <1>t DEF OneRequestEach, Grown
<1>1. ASSUME NEW p \in Proc, WriteRequest(p) PROVE OneRequestEach'
  <2>1. pc[p] = "write" /\ requests' = Append(requests, job[p].copy)
    BY <1>1 DEF WriteRequest
  <2>2. /\ job[p].copy.after \in 0..Len(requests) /\ job[p].copy \in Request
        /\ First(job[p].copy.op, job[p].copy.after) = {}
    BY <2>1 DEF IInv, GateInv, TypeOK
  <2>3. ASSUME NEW i \in DOMAIN requests, requests[i].op = job[p].copy.op
        PROVE job[p].copy.after < i
    BY <2>2, <2>3, <1>t DEF First, Of
  <2> QED
    BY <2>1, <2>2, <2>3, <1>t DEF OneRequestEach
<1>2. ASSUME NEW p \in Proc, DecideSave(p) PROVE DOMAIN requests' = DOMAIN requests
  BY <1>2, <1>t DEF DecideSave
<1>3. ASSUME NEW p \in Proc, Gate(p) \/ Decide(p) \/ RecordOther(p) \/ Exit(p),
             ~WriteRequest(p), ~DecideSave(p)
      PROVE requests' = requests
  BY <1>3 DEF Gate, Decide, Ask, AskFree, LoadOne, Allow, Deny, Create, NoteRequest,
              GrantDirect, LoadGrants, SaveGrants, Propose, CheckPending, DecideAny, DecideLoad,
              RecordOther, Exit, store
<1>4. CASE Tick \/ NewDay \/ UNCHANGED vars
  BY <1>0, <1>4 DEF Tick, NewDay, vars, store
<1> QED
  BY <1>0, <1>1, <1>2, <1>3, <1>4 DEF Next

LEMMA InitInv == Init => IInv
<1> SUFFICES ASSUME Init PROVE IInv
  OBVIOUS
<1>1. \A p \in Proc : pc[p] = "idle"
  BY DEF Init
<1> QED
  BY <1>1, InitTypeOK DEF Init, IInv, StoreInv, GateInv, AuthorityWasApproved, OneRequestEach

(* The invariant is inductive.                                             *)
LEMMA NextInv == IInv /\ [Next]_vars => IInv'
<1> SUFFICES ASSUME IInv, [Next]_vars PROVE IInv'
  OBVIOUS
<1>1. TypeOK'
  BY NextTypeOK DEF IInv
<1>2. Grown
  BY NextGrown DEF IInv
<1> QED
  BY <1>1, <1>2, NextGateInv, NextStoreInv, NextGranted, NextOneRequest DEF IInv

LEMMA Invariance == Spec => []IInv
BY InitInv, NextInv, PTL DEF Spec

(* The requests, jobs and audit entries have the shape of the code's.      *)
THEOREM TypeCorrect == Spec => []TypeOK
<1>1. IInv => TypeOK
  BY DEF IInv
<1> QED
  BY <1>1, Invariance, PTL

(* No gated authority is granted that nobody has approved, and none whose  *)
(* way through the gate was not recorded, for any number of processes,     *)
(* requests, deaths and ungated grants of services beside them             *)
(* (secret-guard.ts:105 and 133, approval-gate.ts:52).                     *)
THEOREM AuthoritiesWereApproved == Spec => []AuthorityWasApproved
<1>1. IInv => AuthorityWasApproved
  BY DEF IInv
<1> QED
  BY <1>1, Invariance, PTL

(* A newer request that the gate could see outranks an older approval.     *)
THEOREM NewestRequestDecides == Spec => []NewestDecides
<1>1. IInv => NewestDecides
  BY DEF IInv, GateInv, NewestDecides, First
<1> QED
  BY <1>1, Invariance, PTL

(* Two requests for one operation come from gates that overlapped, or from *)
(* the actuator.                                                           *)
THEOREM RequestsAreShared == Spec => []OneRequestEach
<1>1. IInv => OneRequestEach
  BY DEF IInv
<1> QED
  BY <1>1, Invariance, PTL

(* Whoever decides, dies or fails to write: a request stays one for its    *)
(* operation and of its time, although a decision rewrites it from what it *)
(* has read, and the trail is only appended to (approval-store.ts:289,     *)
(* audit-chain.ts:202).                                                    *)
THEOREM HistoryKept == Spec => [][Grown]_vars
<1>1. IInv /\ [Next]_vars => Grown
  BY NextGrown DEF IInv
<1> QED
  BY <1>1, Invariance, PTL DEF Spec

-----------------------------------------------------------------------------
(* What the trail says was allowed.                                        *)

\* A gated operation that a fact calls allowed was approved, by the request it names.
Holds(w) == w.op \in Gated /\ w.result = "allowed" => w.request \in approved \cap Of(w.op)

VerdictsTrue == \A n \in DOMAIN trail : Holds(trail[n].what)

LEMMA RecordTrue ==
  ASSUME TypeOK, TypeOK', Grown, VerdictsTrue, NEW p \in Proc, NEW what, Holds(what),
         record(p, what)
  PROVE  VerdictsTrue'
<1>1. /\ Len(trail) \in Nat /\ DOMAIN trail = 1..Len(trail)
      /\ DOMAIN trail' = 1..Len(trail')
  BY DEF TypeOK, AuditTypeOK
<1>2. ASSUME NEW w, Holds(w) PROVE Holds(w)'
  BY <1>2 DEF Holds, Grown, Of, TypeOK
<1>3. /\ Len(trail') = Len(trail) + 1 /\ trail'[Len(trail) + 1].what = what
      /\ \A n \in DOMAIN trail : trail'[n] = trail[n]
  BY RecordGrows
<1>4. ASSUME NEW n \in DOMAIN trail', NEW w, w = trail'[n].what PROVE Holds(w)'
  <2>1. CASE n \in DOMAIN trail
    BY <1>2, <1>3, <1>4, <2>1 DEF VerdictsTrue
  <2>2. CASE n = Len(trail) + 1
    BY <1>2, <1>3, <1>4, <2>2
  <2> QED
    BY <1>1, <1>3, <1>4, <2>1, <2>2
<1> QED
  BY <1>4 DEF VerdictsTrue, Holds, Of

LEMMA SameTrailTrue ==
  ASSUME TypeOK, Grown, VerdictsTrue, UNCHANGED trail
  PROVE  VerdictsTrue'
BY DEF VerdictsTrue, Holds, Grown, Of, TypeOK

LEMMA NextTrue == IInv /\ TypeOK' /\ VerdictsTrue /\ [Next]_vars => VerdictsTrue'
<1> SUFFICES ASSUME IInv, TypeOK', VerdictsTrue, [Next]_vars PROVE VerdictsTrue'
  OBVIOUS
<1>g. Grown /\ TypeOK
  BY NextGrown DEF IInv
<1>1. ASSUME NEW p \in Proc, Allow(p) PROVE VerdictsTrue'
  <2>1. /\ record(p, [op |-> job[p].op, request |-> job[p].id, result |-> "allowed"])
        /\ job[p].id \in approved \cap Of(job[p].op)
    BY <1>1 DEF Allow, Listed, IInv, GateInv
  <2>2. Holds([op |-> job[p].op, request |-> job[p].id, result |-> "allowed"])
    BY <2>1 DEF Holds
  <2> QED
    BY <2>1, <2>2, <1>g, RecordTrue
<1>2. ASSUME NEW p \in Proc, AskFree(p) PROVE VerdictsTrue'
  <2>1. PICK o \in Op \ Gated : record(p, [op |-> o, request |-> 0, result |-> "allowed"])
    BY <1>2 DEF AskFree
  <2>2. Holds([op |-> o, request |-> 0, result |-> "allowed"])
    BY DEF Holds
  <2> QED
    BY <2>1, <2>2, <1>g, RecordTrue
<1>3. ASSUME NEW p \in Proc, Deny(p) \/ NoteRequest(p) PROVE VerdictsTrue'
  <2>1. record(p, [op |-> job[p].op, request |-> job[p].id, result |-> "denied"])
    BY <1>3 DEF Deny, NoteRequest
  <2>2. Holds([op |-> job[p].op, request |-> job[p].id, result |-> "denied"])
    BY DEF Holds
  <2> QED
    BY <2>1, <2>2, <1>g, RecordTrue
<1>4. ASSUME NEW p \in Proc, RecordOther(p) PROVE VerdictsTrue'
  <2>1. record(p, Other) /\ Holds(Other)
    BY <1>4 DEF RecordOther, Holds, Other
  <2> QED
    BY <2>1, <1>g, RecordTrue
<1>5. ASSUME NEW p \in Proc, Gate(p) \/ Decide(p) \/ RecordOther(p) \/ Exit(p),
             ~Allow(p), ~AskFree(p), ~Deny(p), ~NoteRequest(p), ~RecordOther(p)
      PROVE UNCHANGED trail
  BY <1>5 DEF Gate, Decide, Ask, LoadOne, Create, WriteRequest, GrantDirect, LoadGrants, SaveGrants, Propose,
              CheckPending, DecideAny, DecideLoad, DecideSave, Exit, Restart, audit
<1>6. CASE Tick \/ NewDay \/ UNCHANGED vars
  BY <1>6, <1>g, SameTrailTrue DEF Tick, NewDay, Midnight, vars, audit
<1> QED
  BY <1>g, <1>1, <1>2, <1>3, <1>4, <1>5, <1>6, SameTrailTrue DEF Next

(* Every verdict that let a gated operation through names a request for    *)
(* this operation which was approved, whether or not a grant came of it,   *)
(* for any processes, decisions and deaths (approval-gate.ts:80).          *)
THEOREM VerdictsWereTrue == Spec => []VerdictsTrue
<1>1. Init => VerdictsTrue
  BY DEF Init, AuditInit, VerdictsTrue
<1>2. IInv => TypeOK
  BY DEF IInv
<1> QED
  BY <1>1, <1>2, NextTrue, Invariance, PTL DEF Spec

-----------------------------------------------------------------------------
(* What a step may take away.                                              *)

KeepsGrants == \/ grants \subseteq grants'
               \/ \E p \in Proc : pc[p] = "save" /\ job[p].held # grants

\* Of the votes for request i a step changes those of one role, or of all that
\* had not voted.
KeepsVotes(i) ==
    \/ \E r \in Role \cup {NoRole} : \A s \in Role \ {r} :
          requests'[i].votes[s] # requests[i].votes[s] => requests[i].votes[s] = "pending"
    \/ \E p \in Proc : pc[p] = "decide" /\ job[p].id = i /\ job[p].copy # requests[i]

(* Only SaveGrants writes the grants.                                      *)
LEMMA NextKeepsGrants == [Next]_vars => KeepsGrants
<1> SUFFICES ASSUME [Next]_vars PROVE KeepsGrants
  OBVIOUS
<1>1. ASSUME NEW p \in Proc, SaveGrants(p) PROVE KeepsGrants
  BY <1>1 DEF SaveGrants, KeepsGrants
<1>2. ASSUME NEW p \in Proc, Gate(p) \/ Decide(p) \/ RecordOther(p) \/ Exit(p),
             ~SaveGrants(p)
      PROVE grants' = grants
  BY <1>2 DEF Gate, Decide, Ask, AskFree, LoadOne, Allow, Deny, Create, WriteRequest,
              NoteRequest, GrantDirect, LoadGrants, Propose, CheckPending, DecideAny, DecideLoad,
              DecideSave, RecordOther, Exit, store
<1>3. CASE Tick \/ NewDay \/ UNCHANGED vars
  BY <1>3 DEF Tick, NewDay, vars, store, KeepsGrants
<1> QED
  BY <1>1, <1>2, <1>3 DEF Next, KeepsGrants

(* Only DecideSave changes a request that is there.                        *)
LEMMA NextKeepsVotes ==
  ASSUME TypeOK, [Next]_vars
  PROVE  \A i \in DOMAIN requests : KeepsVotes(i)
<1> SUFFICES ASSUME NEW i \in DOMAIN requests PROVE KeepsVotes(i)
  OBVIOUS
<1>t. requests \in Seq(Request) /\ Len(requests) \in Nat
  BY DEF TypeOK
<1>0. ASSUME requests'[i] = requests[i] PROVE KeepsVotes(i)
  BY <1>0 DEF KeepsVotes
<1>1. ASSUME NEW p \in Proc, WriteRequest(p) PROVE requests'[i] = requests[i]
  <2>1. requests' = Append(requests, job[p].copy) /\ job[p].copy \in Request
    BY <1>1 DEF WriteRequest, TypeOK
  <2> QED
    BY <2>1, <1>t
<1>2. ASSUME NEW p \in Proc, DecideSave(p) PROVE KeepsVotes(i)
  <2>1. /\ pc[p] = "decide" /\ job[p].copy \in Request /\ job[p].id \in DOMAIN requests
    BY <1>2 DEF DecideSave, TypeOK
  <2>2. PICK d \in Decisions, by \in Role \cup {NoRole} :
          requests' = [requests EXCEPT ![job[p].id] =
              [job[p].copy EXCEPT !.status = d, !.votes = Votes(@, by, d)]]
    BY <1>2 DEF DecideSave
  <2> DEFINE new == [job[p].copy EXCEPT !.status = d, !.votes = Votes(@, by, d)]
  <2>3. new.votes = Votes(job[p].copy.votes, by, d)
    BY <2>1 DEF Request
  <2>4. requests' = [requests EXCEPT ![job[p].id] = new]
    BY <2>2
  <2> HIDE DEF new
  <2>5. CASE job[p].id # i
    BY <2>4, <2>5, <1>0, <1>t
  <2>6. CASE job[p].id = i /\ job[p].copy # requests[i]
    BY <2>1, <2>6 DEF KeepsVotes
  <2>7. CASE job[p].id = i /\ job[p].copy = requests[i]
    <3>1. requests'[i].votes = Votes(requests[i].votes, by, d)
      BY <2>3, <2>4, <2>7, <1>t
    <3>2. ASSUME NEW s \in Role \ {by}, requests'[i].votes[s] # requests[i].votes[s]
          PROVE requests[i].votes[s] = "pending"
      BY <3>1, <3>2 DEF Votes
    <3> QED
      BY <3>2 DEF KeepsVotes
  <2> QED
    BY <2>5, <2>6, <2>7
<1>3. ASSUME NEW p \in Proc, Gate(p) \/ Decide(p) \/ RecordOther(p) \/ Exit(p),
             ~WriteRequest(p), ~DecideSave(p)
      PROVE requests' = requests
  BY <1>3 DEF Gate, Decide, Ask, AskFree, LoadOne, Allow, Deny, Create, NoteRequest,
              GrantDirect, LoadGrants, SaveGrants, Propose, CheckPending, DecideAny, DecideLoad,
              RecordOther, Exit, store
<1>4. CASE Tick \/ NewDay \/ UNCHANGED vars
  BY <1>0, <1>4 DEF Tick, NewDay, vars, store
<1> QED
  BY <1>0, <1>1, <1>2, <1>3, <1>4 DEF Next

(* Grants and votes are lost only to a call whose copy is not what the     *)
(* file has, for any processes and calls: a write came in between, or the  *)
(* grants could not be read (secret-guard.ts:106 and 290,                  *)
(* approval-store.ts:261).                                                 *)
THEOREM LossesNeedStaleCopy == Spec => LostOnlyToStaleCopy
<1>1. TypeOK /\ [Next]_vars => KeepsGrants /\ \A i \in DOMAIN requests : KeepsVotes(i)
  BY NextKeepsGrants, NextKeepsVotes
<1>2. TypeOK /\ [Next]_vars =>
        [/\ grants \subseteq grants' \/ \E p \in Proc : pc[p] = "save" /\ job[p].held # grants
         /\ \A i \in DOMAIN requests :
               \/ \E r \in Role \cup {NoRole} : \A s \in Role \ {r} :
                     requests'[i].votes[s] # requests[i].votes[s] =>
                         requests[i].votes[s] = "pending"
               \/ \E p \in Proc : pc[p] = "decide" /\ job[p].id = i
                                  /\ job[p].copy # requests[i]]_vars
  BY <1>1 DEF KeepsGrants, KeepsVotes
<1> QED
  BY <1>2, TypeCorrect, PTL DEF Spec, LostOnlyToStaleCopy

-----------------------------------------------------------------------------
(* The trail.                                                              *)

(* Every step does to the trail what module AuditChain allows.             *)
LEMMA NextAudit == [Next]_vars => AuditNext
<1> SUFFICES ASSUME [Next]_vars PROVE AuditNext
  OBVIOUS
<1>1. ASSUME NEW p \in Proc, \/ AskFree(p) \/ Allow(p) \/ Deny(p) \/ NoteRequest(p)
                             \/ RecordOther(p)
      PROVE AuditNext
  BY <1>1 DEF AskFree, Allow, Deny, NoteRequest, RecordOther, AuditNext
<1>2. ASSUME NEW p \in Proc, \/ Ask(p) \/ LoadOne(p) \/ Create(p) \/ WriteRequest(p)
                             \/ GrantDirect(p) \/ LoadGrants(p) \/ SaveGrants(p) \/ Decide(p)
      PROVE UNCHANGED audit
  BY <1>2 DEF Ask, LoadOne, Create, WriteRequest, GrantDirect, LoadGrants, SaveGrants, Decide, Propose,
              CheckPending, DecideAny, DecideLoad, DecideSave
<1>3. ASSUME NEW p \in Proc, Exit(p) PROVE AuditNext
  BY <1>3 DEF Exit, AuditNext
<1>4. CASE Tick \/ UNCHANGED vars
  BY <1>4 DEF Tick, vars, AuditNext
<1>5. CASE NewDay
  BY <1>5 DEF NewDay, AuditNext
<1> QED
  BY <1>1, <1>2, <1>3, <1>4, <1>5 DEF Next, Gate, AuditNext

(* So the trail keeps its invariant.                                       *)
LEMMA TrailInvariance == Spec => [](AuditTypeOK(Facts) /\ TrailInv)
<1>1. Init => TypeOK /\ TrailInv
  BY InitTypeOK, InitTrailInv DEF Init
<1>2. TypeOK /\ TrailInv /\ [Next]_vars => (TypeOK /\ TrailInv)'
  <2> SUFFICES ASSUME TypeOK, TrailInv, [Next]_vars PROVE TypeOK' /\ TrailInv'
    OBVIOUS
  <2>1. TypeOK'
    BY NextTypeOK
  <2>2. AuditTypeOK(Facts) /\ AuditTypeOK(Facts)'
    BY <2>1 DEF TypeOK, Facts
  <2>3. AuditNext
    BY NextAudit
  <2> QED
    BY <2>1, <2>2, <2>3, NextTrailInv
<1>3. TypeOK => AuditTypeOK(Facts)
  BY DEF TypeOK, Facts
<1> QED
  BY <1>1, <1>2, <1>3, PTL DEF Spec

(* When verify finds nothing wrong, what it has read is the beginning of   *)
(* one life without a gap, however many processes record, end and run past *)
(* midnight, and whichever appends fail or tear a line (audit-chain.ts:151 *)
(* and 208): a failed append is noticed once its process has a later entry *)
(* in the file, and only then.                                             *)
THEOREM IntactTrailIsUnbroken == Spec => []IntactIsUnbroken
<1>1. AuditTypeOK(Facts) /\ TrailInv => IntactIsUnbroken
  BY Intact
<1> QED
  BY <1>1, TrailInvariance, PTL

(* What verify reports has a cause other than the entries of the process   *)
(* that opened the file of the day (audit-chain.ts:157).                   *)
THEOREM AlarmsHaveCauses == Spec => []AlarmHasCause
<1>1. AuditTypeOK(Facts) /\ TrailInv => AlarmHasCause
  BY Alarm
<1> QED
  BY <1>1, TrailInvariance, PTL
=============================================================================
