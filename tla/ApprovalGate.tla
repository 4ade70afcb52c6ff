---------------------------- MODULE ApprovalGate ----------------------------
(***************************************************************************)
(* Approvals: enforceApprovalGate (libs/core/approval-gate.ts) in front of *)
(* the grants of libs/core/secret-guard.ts, the request files of           *)
(* libs/core/approval-store.ts, and those who decide: the command line,    *)
(* the surfaces and the approval actuator.  Every answer of the gate goes  *)
(* into the audit trail of module AuditChain.                              *)
(*                                                                         *)
(* The code is synchronous in each process, so processes interleave        *)
(* between their reads and writes of files; a file is written by rename.   *)
(* Left out: grants that expire and the event logs.                        *)
(***************************************************************************)
EXTENDS AuditChain

CONSTANTS
    Op,             \* operations, named by their correlation ids
    NoOp,
    Gated,          \* the operations for which the policy requires approval
    Direct,         \* the grants of a service, which a mission or the Nexus daemon gets
                    \* without the gate; those of an authority are not among them
    Role,           \* the roles a workflow may ask
    Workflows,      \* the sets of roles that workflows ask
    NoRole,         \* a decision without decidedByRole
    NoRequest,
    MaxCalls,       \* bound on the calls, and so on the requests and entries
    MaxExits,       \* bound on the processes that end
    MaxNow          \* bound on the clock

Results == {"allowed", "denied"}

\* What the gate records: the request that decided, or 0 where none did.
Verdict == [op : Op, request : Nat, result : Results]

\* What anyone else records.
Other == [op |-> NoOp, request |-> 0, result |-> "denied"]

ASSUME GateAssumption ==
    /\ NoOp \notin Op /\ Gated \subseteq Op /\ Direct \subseteq Op
    /\ NoRole \notin Role /\ Workflows \subseteq SUBSET Role
    /\ MaxCalls \in Nat /\ MaxExits \in Nat /\ MaxNow \in Nat

Decisions == {"approved", "rejected"}

\* votes has the approvals of the workflow, "none" for a role that is not asked.
\* after is no field of the file: the gate that made the request had listed the
\* requests 1..after before; 0 where no gate made it.
Request == [op : Op, at : 0..MaxNow, status : Decisions \cup {"pending"},
            votes : [Role -> Decisions \cup {"pending", "none"}], after : Nat]

ASSUME NoRequestAssumption == NoRequest \notin Request

VARIABLES
    requests,   \* the request files, in the order in which they appear
    grants,     \* auth-grants.json
    now,        \* the clock that dates the requests
    calls,      \* the calls made so far
    exits,      \* the processes that have ended so far
    pc,         \* where each process is
    job,        \* and what it works on
    approved    \* the requests that ever were approved; nothing reads it

vars == <<requests, grants, now, approved, calls, exits, pc, job, audit>>
store == <<requests, grants, now, approved>>

PCs == {"idle", "list", "write", "note", "grant", "save", "load", "decide"}

\* op asked for; left to load of the seen requests; id and copy of a request, which
\* may be the newest yet, the one being made or the one being decided; held, the
\* grants it has read.
Job == [op : Op \cup {NoOp}, left : SUBSET Nat, seen : Nat, id : Nat,
        copy : Request \cup {NoRequest}, held : SUBSET Op]

NoJob == [op |-> NoOp, left |-> {}, seen |-> 0, id |-> 0, copy |-> NoRequest, held |-> {}]

(* Requests, jobs and entries have the shape the code gives them, and who  *)
(* is about to write or to decide has a request in hand.                   *)
TypeOK ==
    /\ AuditTypeOK(Verdict \cup {Other})
    /\ requests \in Seq(Request)
    /\ grants \subseteq Op
    /\ now \in 0..MaxNow
    /\ calls \in 0..MaxCalls /\ exits \in 0..MaxExits
    /\ pc \in [Proc -> PCs]
    /\ job \in [Proc -> Job]
    /\ approved \subseteq DOMAIN requests
    /\ \A p \in Proc :
          /\ pc[p] \in {"write", "decide"} => job[p].copy \in Request
          /\ pc[p] \in {"load", "decide"} => job[p].id \in DOMAIN requests
          /\ pc[p] = "list" => job[p].left \subseteq DOMAIN requests
          /\ pc[p] \in {"list", "note", "grant", "save"} => job[p].op \in Op

Init ==
    /\ AuditInit
    /\ requests = <<>> /\ grants = {} /\ now = 0 /\ approved = {}
    /\ calls = 0 /\ exits = 0
    /\ pc = [p \in Proc |-> "idle"]
    /\ job = [p \in Proc |-> NoJob]

\* Process p goes on at there, with job j.
Goto(p, there, j) ==
    /\ pc' = [pc EXCEPT ![p] = there]
    /\ job' = [job EXCEPT ![p] = j]

\* An idle process is called.
Call(p) ==
    /\ pc[p] = "idle"
    /\ calls < MaxCalls /\ calls' = calls + 1
    /\ UNCHANGED exits

\* Process p goes on with its call, at there.
Continue(p, there, j) == Goto(p, there, j) /\ UNCHANGED <<calls, exits>>

-----------------------------------------------------------------------------
(* The gate.                                                               *)

Of(o) == {i \in DOMAIN requests : requests[i].op = o}

\* The policy asks for approval, and the names of the request files are listed.
\* Requests with another correlation id are loaded to be dropped: left out.
Ask(p) ==
    /\ Call(p)
    /\ \E o \in Gated : Goto(p, "list", [NoJob EXCEPT !.op = o, !.left = Of(o),
                                                      !.seen = Len(requests)])
    /\ UNCHANGED <<store, audit>>

\* The policy does not ask for approval. It does for every grant that comes to the
\* gate; what other operations go on to do is left out.
AskFree(p) ==
    /\ Call(p)
    /\ \E o \in Op \ Gated : record(p, [op |-> o, request |-> 0, result |-> "allowed"])
    /\ UNCHANGED <<store, pc, job>>

\* Variant: the oldest comes first.
Mutant_OldestFirst(p) ==
    /\ pc[p] = "list"
    /\ \E i \in job[p].left :
          LET j == [job[p] EXCEPT !.left = @ \ {i}] IN
          \/ /\ job[p].id # 0 => requests[i].at <= job[p].copy.at
             /\ Continue(p, "list", [j EXCEPT !.id = i, !.copy = requests[i]])
          \/ /\ job[p].id # 0 /\ requests[i].at >= job[p].copy.at
             /\ Continue(p, "list", j)
    /\ UNCHANGED <<store, audit>>

\* The newest comes first; of two made in the same millisecond either may.
LoadOne(p) ==
    /\ pc[p] = "list"
    /\ \E i \in job[p].left :
          LET j == [job[p] EXCEPT !.left = @ \ {i}] IN
          \/ /\ job[p].id # 0 => requests[i].at >= job[p].copy.at
             /\ Continue(p, "list", [j EXCEPT !.id = i, !.copy = requests[i]])
          \/ /\ job[p].id # 0 /\ requests[i].at <= job[p].copy.at
             /\ Continue(p, "list", j)
    /\ UNCHANGED <<store, audit>>

Listed(p) == pc[p] = "list" /\ job[p].left = {}

\* Variant: whatever is not rejected lets the operation through.
Mutant_PendingAllows(p) ==
    /\ Listed(p) /\ job[p].id # 0 /\ job[p].copy.status # "rejected"
    /\ record(p, [op |-> job[p].op, request |-> job[p].id, result |-> "allowed"])
    /\ Continue(p, "grant", job[p])
    /\ UNCHANGED store

Allow(p) ==
    /\ Listed(p) /\ job[p].id # 0 /\ job[p].copy.status = "approved"
    /\ record(p, [op |-> job[p].op, request |-> job[p].id, result |-> "allowed"])
    /\ Continue(p, "grant", job[p])
    /\ UNCHANGED store

Deny(p) ==
    /\ Listed(p) /\ job[p].id # 0 /\ job[p].copy.status # "approved"
    /\ record(p, [op |-> job[p].op, request |-> job[p].id, result |-> "denied"])
    /\ Continue(p, "idle", NoJob)
    /\ UNCHANGED store

NewRequest(o, votes, after) ==
    [op |-> o, at |-> now, status |-> "pending", votes |-> votes, after |-> after]

\* Variant: a rejected request is not taken for an existing one.
Mutant_AskAgain(p) ==
    /\ Listed(p) /\ (job[p].id # 0 => job[p].copy.status = "rejected")
    /\ Continue(p, "write", [job[p] EXCEPT !.copy = NewRequest(job[p].op, [r \in Role |-> "none"],
                                                           job[p].seen)])
    /\ UNCHANGED <<store, audit>>

\* There is no request: one is built, and dated.
Create(p) ==
    /\ Listed(p) /\ job[p].id = 0
    /\ Continue(p, "write", [job[p] EXCEPT !.copy = NewRequest(job[p].op, [r \in Role |-> "none"],
                                                           job[p].seen)])
    /\ UNCHANGED <<store, audit>>

\* The actuator makes a request with a workflow, and any correlation id; one that
\* no gate asks about decides nothing and is left out.
Propose(p) ==
    /\ Call(p)
    /\ \E o \in Gated, asked \in Workflows :
          Goto(p, "write", [NoJob EXCEPT !.copy =
              NewRequest(o, [r \in Role |-> IF r \in asked THEN "pending" ELSE "none"],
                         0)])
    /\ UNCHANGED <<store, audit>>

WriteRequest(p) ==
    /\ pc[p] = "write"
    /\ requests' = Append(requests, job[p].copy)
    /\ IF job[p].op = NoOp THEN Continue(p, "idle", NoJob)
       ELSE Continue(p, "note", [job[p] EXCEPT !.id = Len(requests) + 1])
    /\ UNCHANGED <<grants, now, approved, audit>>

NoteRequest(p) ==
    /\ pc[p] = "note"
    /\ record(p, [op |-> job[p].op, request |-> job[p].id, result |-> "denied"])
    /\ Continue(p, "idle", NoJob)
    /\ UNCHANGED store

-----------------------------------------------------------------------------
(* grantAccess, behind the gate or called directly.                        *)

\* grantMissionAccess and the Nexus daemon ask nobody.
GrantDirect(p) ==
    /\ Call(p)
    /\ \E o \in Direct : Goto(p, "grant", [NoJob EXCEPT !.op = o])
    /\ UNCHANGED <<store, audit>>

\* A file that cannot be read or parsed is taken for an empty one.
LoadGrants(p) ==
    /\ pc[p] = "grant"
    /\ \E held \in {grants, {}} : Continue(p, "save", [job[p] EXCEPT !.held = held])
    /\ UNCHANGED <<store, audit>>

\* Variant: the grant replaces what was granted before.
Mutant_GrantReplaces(p) ==
    /\ pc[p] = "save"
    /\ grants' = {job[p].op}
    /\ Continue(p, "idle", NoJob)
    /\ UNCHANGED <<requests, now, approved, audit>>

SaveGrants(p) ==
    /\ pc[p] = "save"
    /\ grants' = job[p].held \cup {job[p].op}
    /\ Continue(p, "idle", NoJob)
    /\ UNCHANGED <<requests, now, approved, audit>>

-----------------------------------------------------------------------------
(* Decisions.                                                              *)

\* The command line and Presence Studio look for a pending request first.
CheckPending(p) ==
    /\ Call(p)
    /\ \E i \in DOMAIN requests :
          /\ requests[i].status = "pending"
          /\ Goto(p, "load", [NoJob EXCEPT !.id = i])
    /\ UNCHANGED <<store, audit>>

\* Chronos, Slack and the actuator do not.
DecideAny(p) ==
    /\ Call(p)
    /\ \E i \in DOMAIN requests :
          Goto(p, "decide", [NoJob EXCEPT !.id = i, !.copy = requests[i]])
    /\ UNCHANGED <<store, audit>>

\* Variant: the record is taken before it is loaded.
Mutant_DecideUnloaded(p) ==
    /\ pc[p] = "load"
    /\ Continue(p, "decide", job[p])
    /\ UNCHANGED <<store, audit>>

\* decideApprovalRequest reads the request.
DecideLoad(p) ==
    /\ pc[p] = "load"
    /\ Continue(p, "decide", [job[p] EXCEPT !.copy = requests[job[p].id]])
    /\ UNCHANGED <<store, audit>>

\* Without a role, the decision counts for all that have not decided.
Votes(votes, by, decision) ==
    [r \in Role |-> IF votes[r] # "none" /\ (by = r \/ (by = NoRole /\ votes[r] = "pending"))
                    THEN decision ELSE votes[r]]

\* Whatever the workflow asks for, the decision becomes that of the request.
DecideSave(p) ==
    /\ pc[p] = "decide"
    /\ \E d \in Decisions, by \in Role \cup {NoRole} :
          /\ requests' = [requests EXCEPT ![job[p].id] =
                 [job[p].copy EXCEPT !.status = d, !.votes = Votes(@, by, d)]]
          /\ approved' = IF d = "approved" THEN approved \cup {job[p].id} ELSE approved
    /\ Continue(p, "idle", NoJob)
    /\ UNCHANGED <<grants, now, audit>>

-----------------------------------------------------------------------------
\* A process records something else: a policy decision, a trust change, a lifecycle event.
RecordOther(p) ==
    /\ Call(p)
    /\ record(p, Other)
    /\ UNCHANGED <<store, pc, job>>

\* The process ends, at any step, and the next command runs in a new one.
Exit(p) ==
    /\ pc[p] # "idle" \/ lastHash[p] # 0
    /\ exits < MaxExits /\ exits' = exits + 1
    /\ Restart(p)
    /\ Goto(p, "idle", NoJob) /\ UNCHANGED calls
    /\ UNCHANGED store

Tick ==
    /\ now < MaxNow /\ now' = now + 1
    /\ UNCHANGED <<requests, grants, approved, calls, exits, pc, job, audit>>

NewDay == Midnight /\ UNCHANGED <<store, calls, exits, pc, job>>

Gate(p) == \/ Ask(p) \/ AskFree(p) \/ LoadOne(p) \/ Allow(p) \/ Deny(p)
           \/ Create(p) \/ WriteRequest(p) \/ NoteRequest(p)
           \/ GrantDirect(p) \/ LoadGrants(p) \/ SaveGrants(p)

Decide(p) == Propose(p) \/ CheckPending(p) \/ DecideAny(p) \/ DecideLoad(p) \/ DecideSave(p)

Next ==
    \/ Tick \/ NewDay
    \/ \E p \in Proc : Gate(p) \/ Decide(p) \/ RecordOther(p) \/ Exit(p)

Spec == Init /\ [][Next]_vars

-----------------------------------------------------------------------------
\* The entry of the trail in which the gate let o through because of request i.
LetThrough(o, i) == \E n \in DOMAIN trail :
    trail[n].what = [op |-> o, request |-> i, result |-> "allowed"]

(* The file also takes the grants of services that nobody was asked about  *)
(* (mission-lifecycle.ts:366).  But a gated authority is in it only if the *)
(* gate recorded that it let the operation through, and named a request    *)
(* for this very operation which somebody had approved, however calls,     *)
(* decisions, deaths and those other grants interleave                     *)
(* (secret-guard.ts:170, approval-gate.ts:80).                             *)
AuthorityWasApproved ==
    \A o \in (grants \cap Gated) \ Direct : \E i \in approved \cap Of(o) : LetThrough(o, i)

(* approval-store.ts:244 sorts the newest request first: what lets an      *)
(* operation through is never an older approval than a request that was    *)
(* there when the gate began, so a newer pending or rejected one stops it. *)
NewestDecides ==
    \A p \in Proc : pc[p] \in {"grant", "save"} =>
        \A i \in Of(job[p].op) \cap 1..job[p].seen :
            job[p].op \in Gated => requests[i].at <= job[p].copy.at

(* The gate makes a request only where it found none in any status: of two *)
(* requests for one operation the gate that made the later one had listed  *)
(* the directory before the earlier one was there (approval-gate.ts:74).   *)
OneRequestEach ==
    \A i, j \in DOMAIN requests :
        i < j /\ requests[i].op = requests[j].op => requests[j].after < i

(* A write takes away a grant, or changes what another role has voted,     *)
(* only where the file is not what the same call has read: it changed in   *)
(* between, for no lock protects it (secret-guard.ts:106 and 119,          *)
(* approval-store.ts:261 and 289), or the grants could not be read and     *)
(* were taken for none (secret-guard.ts:290).                              *)
LostOnlyToStaleCopy ==
    [][/\ grants \subseteq grants' \/ \E p \in Proc : pc[p] = "save" /\ job[p].held # grants
       /\ \A i \in DOMAIN requests :
             \/ \E r \in Role \cup {NoRole} : \A s \in Role \ {r} :
                   requests'[i].votes[s] # requests[i].votes[s] =>
                       requests[i].votes[s] = "pending"
             \/ \E p \in Proc : pc[p] = "decide" /\ job[p].id = i /\ job[p].copy # requests[i]]_vars
=============================================================================
