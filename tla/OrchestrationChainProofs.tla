---------------------- MODULE OrchestrationChainProofs ----------------------
(***************************************************************************)
(* Proofs about module OrchestrationChain, for any number of chains, tasks *)
(* and workers that die.                                                   *)
(***************************************************************************)
EXTENDS OrchestrationChain, TLAPS

(* The kickoff of c has not written its plan.                              *)
Before(c) == \/ stage[c] \in {"issue", "prewarm"}
             \/ stage[c] = "kickoff" /\ at[c] \in {"idle", "written", "run", "await"}

(* The follow-up of c has not read the tasks.                              *)
Unread(c) == \/ stage[c] \in {"issue", "prewarm", "kickoff"}
             \/ stage[c] = "followup" /\ at[c] \in {"idle", "written", "run"}

(* Dispatchers have a copy, and still to delegate what it calls planned.   *)
CopyInv ==
    \A c \in Chain : IF Dispatching(c) THEN /\ copy[c] # NoTasks
                                            /\ todo[c] \subseteq Planned(copy[c])
                                       ELSE copy[c] = NoTasks

(* Two workers that have the files in hand at the same time have met.      *)
MetInv == \A c, d \in Chain : c # d /\ InHand(c) /\ InHand(d) =>
                                 c \in overlapped /\ d \in overlapped

(* Before it is written, nobody has, asks for, or reports to a plan.       *)
FreshInv ==
    \A c \in Chain : Before(c) =>
        /\ tasks # NoTasks => tasks.by # c
        /\ \A d \in Chain : copy[d] # NoTasks => copy[d].by # c
        /\ \A d \in Chain, t \in Task : <<d, c, t>> \notin sent
        /\ \A t \in Task : <<c, t>> \notin kept

(* What a plan calls requested was asked of an agent.                      *)
PlanSent(plan) == \A t \in Task : plan.st[t] = "requested" =>
                     \E c \in Chain : <<c, plan.by, t>> \in sent

SentFirstInv == /\ tasks # NoTasks => PlanSent(tasks)
                /\ \A c \in Chain : copy[c] # NoTasks => PlanSent(copy[c])

(* What was reported while no dispatch was under way is in every plan.     *)
PlanKept(plan) == \A t \in Task : <<plan.by, t>> \in kept => plan.st[t] \in Outcomes

KeptInv == /\ tasks # NoTasks => PlanKept(tasks)
           /\ \A c \in Chain : copy[c] # NoTasks => PlanKept(copy[c])

(* A task of plan a is not planned any more, in the file or in a copy.     *)
Recorded(a, t) ==
    /\ tasks # NoTasks /\ tasks.by = a => tasks.st[t] # "planned"
    /\ \A d \in Chain : copy[d] # NoTasks /\ copy[d].by = a => copy[d].st[t] # "planned"

(* A dispatcher has the tasks it asked for in its copy: marked, or one it  *)
(* awaits.  After it they are recorded, or there is a cause.               *)
SentInv ==
    \A c, a \in Chain, t \in Task : <<c, a, t>> \in sent =>
        /\ ~Unread(c)
        /\ Dispatching(c) =>
              /\ copy[c].by = a
              /\ \/ copy[c].st[t] = "requested"
                 \/ /\ at[c] = "await" /\ t \in todo[c]
                    /\ \A u \in todo[c] : <<c, a, u>> \in sent => u = t
        /\ ~Dispatching(c) => c \in gaveUp \/ c \in overlapped \/ Recorded(a, t)

(* What a reconciliation is going to append is new, unless it has met one. *)
UntoldInv == \A c \in Chain : at[c] = "tell" => c \in overlapped \/ untold[c] \cap log = {}

(* Whoever finishes has distilled, or tried to before it was verified.     *)
KnowledgeInv ==
    /\ \A c \in Chain : /\ distilled[c] = "done" => wisdom
                        /\ stage[c] = "completion" <=> distilled[c] # "no"
                        /\ distilled[c] = "refused" /\ mission = "distilling" => c \in late
    /\ mission \in {"completed", "archived"} /\ ~wisdom =>
          \/ finisher \in late \cup {ByHand}
          \/ finisher \in Chain /\ distilled[finisher] = "failed"
-----------------------------------------------------------------------------
(* Types.                                                                  *)

(* The initial state is well typed.                                        *)
LEMMA InitTypeOK == Init => TypeOK
<1> SUFFICES ASSUME Init PROVE TypeOK
  OBVIOUS
<1>1. deaths \in 0..MaxDeaths
  BY ChainAssumption DEF Init
<1>2. \A c \in Chain : at[c] = "idle" /\ at[c] # "tell" /\ at[c] \notin {"route", "await"}
  BY DEF Init
<1>3. stage \in [Chain -> Stages] /\ at \in [Chain -> Points]
  BY DEF Init, Stages, Points
<1>4. /\ mission \in Statuses /\ wisdom \in BOOLEAN
      /\ finisher \in Chain \cup {ByHand, Nobody} /\ late \subseteq Chain
      /\ distilled \in [Chain -> {"no", "done", "refused", "failed"}]
  BY DEF Init, Statuses
<1>5. /\ board \in BOOLEAN /\ tasks \in Plans \cup {NoTasks}
      /\ copy \in [Chain -> Plans \cup {NoTasks}]
      /\ todo \in [Chain -> SUBSET Task] /\ log \subseteq Task \X Outcomes
      /\ untold \in [Chain -> SUBSET (Task \X Outcomes)]
  BY DEF Init
<1>6. /\ sent \subseteq Chain \X Chain \X Task /\ kept \subseteq Chain \X Task
      /\ gaveUp \subseteq Chain /\ twice \subseteq Chain /\ overlapped \subseteq Chain
  BY DEF Init
<1> QED
  BY <1>1, <1>2, <1>3, <1>4, <1>5, <1>6 DEF TypeOK

(* The commands of the controller keep the status a status.                *)
LEMMA StartType == mission \in Statuses /\ Start => mission' \in Statuses
BY DEF Start, Statuses

LEMMA FinishType ==
  ASSUME TypeOK, NEW who \in Chain \cup {ByHand}, Finish(who)
  PROVE  /\ mission' \in Statuses /\ finisher' \in Chain \cup {ByHand, Nobody}
         /\ board' \in BOOLEAN
         /\ tasks' \in Plans \cup {NoTasks} /\ log' \subseteq Task \X Outcomes
         /\ tasks' = tasks \/ tasks' = NoTasks
         /\ log' = log \/ log' = {}
BY DEF Finish, TypeOK, Statuses, files

LEMMA DistillType ==
  ASSUME TypeOK, NEW result, DistillMission(result)
  PROVE  mission' \in Statuses /\ wisdom' \in BOOLEAN
BY DEF DistillMission, TypeOK, Statuses

(* A plan with one task set to a status is a plan of the same chain.       *)
LEMMA MarkedPlan ==
  ASSUME NEW p \in Plans, NEW t \in Task, NEW s \in TaskStatus
  PROVE  /\ [p EXCEPT !.st[t] = s] \in Plans
         /\ [p EXCEPT !.st[t] = s].by = p.by
         /\ \A u \in Task : [p EXCEPT !.st[t] = s].st[u] = IF u = t THEN s ELSE p.st[u]
BY DEF Plans

Marks(c, t, s) == copy' = [copy EXCEPT ![c].st[t] = s]

(* The same of a copy in the hands of a dispatcher.                        *)
LEMMA MarkedCopy ==
  ASSUME TypeOK, NEW c \in Chain, copy[c] # NoTasks, NEW t \in Task, NEW s \in TaskStatus,
         Marks(c, t, s)
  PROVE  /\ copy'[c] \in Plans /\ copy'[c] # NoTasks
         /\ copy'[c].by = copy[c].by
         /\ \A u \in Task : copy'[c].st[u] = IF u = t THEN s ELSE copy[c].st[u]
         /\ \A d \in Chain \ {c} : copy'[d] = copy[d]
         /\ copy' \in [Chain -> Plans \cup {NoTasks}]
<1>1. copy[c] \in Plans /\ copy \in [Chain -> Plans \cup {NoTasks}]
  BY DEF TypeOK
<1>2. /\ copy'[c] = [copy[c] EXCEPT !.st[t] = s]
      /\ \A d \in Chain \ {c} : copy'[d] = copy[d]
      /\ copy' = [copy EXCEPT ![c] = copy'[c]]
  BY <1>1 DEF Marks
<1>3. /\ copy'[c] \in Plans /\ copy'[c].by = copy[c].by
      /\ \A u \in Task : copy'[c].st[u] = IF u = t THEN s ELSE copy[c].st[u]
  BY <1>1, <1>2, MarkedPlan
<1>5. copy' \in [Chain -> Plans \cup {NoTasks}]
  BY <1>1, <1>2, <1>3
<1>6. copy'[c] # NoTasks
  BY <1>3, ChainAssumption
<1> QED
  BY <1>2, <1>3, <1>5, <1>6

(* Every step keeps the types.                                             *)
LEMMA NextTypeOK == TypeOK /\ [Next]_vars => TypeOK'
<1> SUFFICES ASSUME TypeOK, [Next]_vars PROVE TypeOK'
  OBVIOUS
<1>o. /\ "requested" \in TaskStatus /\ "blocked" \in TaskStatus
      /\ Outcomes \subseteq TaskStatus
  BY DEF TaskStatus
<1>1. ASSUME NEW c \in Chain, Confirm(c) \/ IssueMission(c) PROVE TypeOK'
  BY <1>1, StartType DEF TypeOK, Confirm, IssueMission, Handles, Goto, Enqueue, Following,
     Stages, Points, files, hands, history
<1>2. ASSUME NEW c \in Chain, Launch(c) \/ Prewarm(c) \/ AskPlanner(c) PROVE TypeOK'
  BY <1>2 DEF TypeOK, Launch, Prewarm, AskPlanner, Handles, Goto, Enqueue, Following,
     Stages, Points, files, hands, history, life
<1>3. ASSUME NEW c \in Chain, Die(c) \/ Fail(c) PROVE TypeOK'
  BY <1>3, ChainAssumption DEF TypeOK, Die, Fail, Handles, Goto, Drop, Abandon, Dispatching,
     Points, files, history, life
<1>4. ASSUME NEW c \in Chain, PersistPlan(c) PROVE TypeOK'
  <2>1. tasks' \in Plans
    BY <1>4 DEF PersistPlan, Plans, TaskStatus
  <2> QED
    BY <1>4, <2>1 DEF TypeOK, PersistPlan, Handles, Goto, Points, hands, history, life
<1>5. ASSUME NEW c \in Chain, DispatchRead(c) PROVE TypeOK'
  BY <1>5 DEF TypeOK, DispatchRead, Handles, Goto, Enqueue, Following, Stages, Meet, Planned,
     Points, files, life
<1>6. ASSUME NEW c \in Chain, NEW t \in Task, PassOver(c, t) PROVE TypeOK'
  <2>1. copy[c] # NoTasks
    BY <1>6 DEF PassOver, Handles, TypeOK
  <2>2. copy' \in [Chain -> Plans \cup {NoTasks}] /\ copy'[c] # NoTasks
        /\ \A d \in Chain \ {c} : copy'[d] = copy[d]
    <3>1. UNCHANGED copy \/ Marks(c, t, "blocked")
      BY <1>6 DEF PassOver, Marks
    <3> QED
      BY <1>o, <2>1, <3>1, MarkedCopy DEF TypeOK
  <2> QED
    BY <1>6, <2>2 DEF TypeOK, PassOver, files, history, life
<1>7. ASSUME NEW c \in Chain, NEW t \in Task, Route(c, t) PROVE TypeOK'
  <2>1. copy[c] \in Plans
    BY <1>7 DEF Route, Handles, TypeOK
  <2>2. sent' \subseteq Chain \X Chain \X Task
    BY <1>7, <2>1 DEF Route, TypeOK, Plans
  <2> QED
    BY <1>7, <2>2 DEF TypeOK, Route, Handles, Goto, Points, files, hands, life
<1>8. ASSUME NEW c \in Chain, NEW t \in Task, Answered(c, t) PROVE TypeOK'
  <2>1. copy[c] # NoTasks
    BY <1>8 DEF Answered, Handles, TypeOK
  <2>2. copy' \in [Chain -> Plans \cup {NoTasks}] /\ copy'[c] # NoTasks
        /\ \A d \in Chain \ {c} : copy'[d] = copy[d]
    <3>1. Marks(c, t, "requested")
      BY <1>8 DEF Answered, Marks
    <3> QED
      BY <1>o, <2>1, <3>1, MarkedCopy
  <2> QED
    BY <1>8, <2>2 DEF TypeOK, Answered, Handles, Goto, Points, files, history, life
<1>9. ASSUME NEW c \in Chain, DispatchWrite(c) PROVE TypeOK'
  BY <1>9 DEF TypeOK, DispatchWrite, Handles, Goto, Drop, Points, history, life
<1>10. ASSUME NEW c \in Chain, ReconcileRead(c) \/ Reconciled(c) PROVE TypeOK'
  <2> DEFINE P == Task \X Outcomes
  <2>1. \A plan : Reported(plan) \ log \in SUBSET P
    BY DEF Reported
  <2>2. untold \in [Chain -> SUBSET P]
    BY DEF TypeOK
  <2> HIDE DEF P
  <2>3. untold' \in [Chain -> SUBSET P]
    BY <1>10, <2>1, <2>2 DEF ReconcileRead, Reconciled, hands
  <2>4. overlapped' \subseteq Chain
    BY <1>10 DEF ReconcileRead, Reconciled, history, Meet, TypeOK
  <2>5. /\ stage' \in [Chain -> Stages] /\ at' \in [Chain -> Points]
        /\ \A d \in Chain :
              /\ stage'[d] = "followup" /\ at'[d] \in {"route", "await"} =>
                    stage[d] = "followup" /\ at[d] \in {"route", "await"}
              /\ at'[d] = "tell" => stage'[d] \in {"kickoff", "followup", "reconciliation"}
    BY <1>10 DEF TypeOK, ReconcileRead, Reconciled, Handles, Goto, Enqueue, Following,
       Stages, Points
  <2>6. UNCHANGED <<mission, wisdom, finisher, late, distilled, board, tasks, copy, todo,
                    log, deaths, sent, gaveUp, kept, twice>>
    BY <1>10 DEF ReconcileRead, Reconciled, files, hands, history, life
  <2> QED
    BY <2>3, <2>4, <2>5, <2>6 DEF TypeOK, P
<1>11. ASSUME NEW c \in Chain, NEW x \in Task \X Outcomes, Tell(c, x) PROVE TypeOK'
  <2> DEFINE P == Task \X Outcomes
  <2>1. x \in P /\ log \subseteq P /\ untold \in [Chain -> SUBSET P]
    BY DEF TypeOK
  <2> HIDE DEF P
  <2>2. log' \subseteq P /\ untold' \in [Chain -> SUBSET P]
    BY <1>11, <2>1 DEF Tell
  <2>3. twice' \subseteq Chain
    BY <1>11 DEF Tell, TypeOK
  <2>4. UNCHANGED <<stage, at, mission, wisdom, finisher, late, distilled, board, tasks,
                    copy, todo, deaths, sent, gaveUp, kept, overlapped>>
    BY <1>11 DEF Tell, life
  <2> QED
    BY <2>2, <2>3, <2>4 DEF TypeOK, P
<1>12. ASSUME NEW c \in Chain, Distill(c) PROVE TypeOK'
  <2>1. /\ stage' \in [Chain -> Stages] /\ at' \in [Chain -> Points]
        /\ \A d \in Chain :
              /\ stage'[d] = "followup" /\ at'[d] \in {"route", "await"} =>
                    stage[d] = "followup" /\ at[d] \in {"route", "await"}
              /\ at'[d] = "tell" => stage'[d] \in {"kickoff", "followup", "reconciliation"}
    BY <1>12 DEF TypeOK, Distill, Handles, Enqueue, Following, Stages, Points
  <2>2. /\ mission' \in Statuses /\ wisdom' \in BOOLEAN
        /\ distilled' \in [Chain -> {"no", "done", "refused", "failed"}]
    BY <1>12, DistillType DEF TypeOK, Distill
  <2> QED
    BY <1>12, <2>1, <2>2 DEF TypeOK, Distill, files, hands, history
<1>13. ASSUME NEW c \in Chain, Complete(c) \/ Report(c) PROVE TypeOK'
  BY <1>13, FinishType DEF TypeOK, Complete, Report, Handles, Goto, Points,
     files, hands, history, life
<1>14. ASSUME NEW t \in Task, NEW o \in Outcomes, AgentReports(t, o) PROVE TypeOK'
  <2>1. tasks \in Plans
    BY <1>14 DEF AgentReports, TypeOK
  <2>2. tasks' \in Plans /\ tasks.by \in Chain
    BY <1>14, <1>o, <2>1, MarkedPlan DEF AgentReports, Plans
  <2> QED
    BY <1>14, <2>2 DEF TypeOK, AgentReports, hands, life
<1>15. ASSUME ByHandCommand PROVE TypeOK'
  <2>1. /\ mission' \in Statuses /\ wisdom' \in BOOLEAN
        /\ finisher' \in Chain \cup {ByHand, Nobody} /\ late' \subseteq Chain
        /\ board' \in BOOLEAN /\ tasks' \in Plans \cup {NoTasks}
        /\ log' \subseteq Task \X Outcomes
    BY <1>15, StartType, FinishType, DistillType DEF TypeOK, ByHandCommand, Verify, Import,
       Delegate, Statuses, files
  <2> QED
    BY <1>15, <2>1 DEF TypeOK, ByHandCommand, hands, history
<1>16. ASSUME UNCHANGED vars PROVE TypeOK'
  BY <1>16 DEF TypeOK, vars
<1> QED
  BY <1>1, <1>2, <1>3, <1>4, <1>5, <1>6, <1>7, <1>8, <1>9, <1>10, <1>11, <1>12, <1>13,
     <1>14, <1>15, <1>16 DEF Next, Worker, Answer

(* The files, the copies and the histories are well typed.                 *)
THEOREM TypeCorrect == Spec => []TypeOK
BY InitTypeOK, NextTypeOK, PTL DEF Spec
-----------------------------------------------------------------------------
(* Where the chains are.                                                   *)

(* What a step of c leaves to the others.                                  *)
Elsewhere(c) == \A d \in Chain \ {c} : stage'[d] = stage[d] /\ at'[d] = at[d]

(* A chain goes on, and never back.                                        *)
Onward == \A d \in Chain : /\ Before(d)' => Before(d)
                           /\ Unread(d)' => Unread(d)
                           /\ d \in gaveUp => d \in gaveUp'

(* A step that neither begins nor ends a dispatch or a reconciliation, and *)
(* leaves the tasks alone or takes them away.                              *)
Quiet == /\ tasks' = tasks \/ tasks' = NoTasks
         /\ UNCHANGED <<copy, todo, sent, gaveUp, kept, overlapped>>
         /\ \A d \in Chain : /\ Dispatching(d)' <=> Dispatching(d)
                             /\ Dispatching(d) => at'[d] = at[d]
                             /\ InHand(d)' => InHand(d)

(* A worker that stops drops what it had.                                  *)
Stop(c) == /\ at[c] \notin {"end", "failed", "dead"} /\ at'[c] \in {"failed", "dead"}
           /\ stage'[c] = stage[c]
           /\ Elsewhere(c) /\ Drop(c)
           /\ gaveUp' = IF Dispatching(c) THEN gaveUp \cup {c} ELSE gaveUp
           /\ UNCHANGED <<tasks, sent, kept, overlapped>>

LEMMA QuietWorker ==
  ASSUME TypeOK, NEW c \in Chain,
         \/ Confirm(c) \/ Launch(c) \/ IssueMission(c) \/ Prewarm(c) \/ AskPlanner(c)
         \/ Reconciled(c) \/ Distill(c) \/ Complete(c) \/ Report(c)
         \/ (DispatchRead(c) \/ ReconcileRead(c)) /\ Enqueue(c)
  PROVE  Quiet /\ Onward
<1>1. /\ at[c] \notin {"route", "await", "failed", "dead"}
      /\ at'[c] \notin {"tell", "route"}
      /\ at'[c] = "await" => stage'[c] = "kickoff"
      /\ Elsewhere(c)
  BY DEF Confirm, Launch, IssueMission, Prewarm, AskPlanner, Reconciled, Distill, Complete,
     Report, DispatchRead, ReconcileRead, Handles, Goto, Enqueue, Elsewhere, TypeOK, Points,
     Stages
<1>2. UNCHANGED <<copy, todo, sent, gaveUp, kept, overlapped>>
  BY DEF Confirm, Launch, IssueMission, Prewarm, AskPlanner, Reconciled, Distill, Complete,
     Report, DispatchRead, ReconcileRead, Handles, Goto, Enqueue, hands, history, TypeOK, Points,
     Stages
<1>3. tasks' = tasks \/ tasks' = NoTasks
  BY DEF Confirm, Launch, IssueMission, Prewarm, AskPlanner, Reconciled, Distill, Complete,
     Report, DispatchRead, ReconcileRead, Finish, files
<1>4. Quiet
  BY <1>1, <1>2, <1>3 DEF Quiet, Dispatching, InHand, Elsewhere
<1>5. (Before(c)' => Before(c)) /\ (Unread(c)' => Unread(c))
  BY DEF Confirm, Launch, IssueMission, Prewarm, AskPlanner, Reconciled, Distill, Complete,
     Report, DispatchRead, ReconcileRead, Handles, Goto, Enqueue, Following, TypeOK, Points,
     Stages, Before, Unread
<1> QED
  BY <1>1, <1>2, <1>4, <1>5 DEF Onward, Elsewhere, Before, Unread

LEMMA QuietOthers ==
  ASSUME TypeOK, \/ ByHandCommand \/ UNCHANGED vars
                 \/ \E c \in Chain, x \in Task \X Outcomes : Tell(c, x)
  PROVE  Quiet /\ Onward
<1>1. UNCHANGED <<stage, at, copy, todo, sent, gaveUp, kept, overlapped>>
  BY DEF ByHandCommand, vars, Tell, hands, history
<1>2. tasks' = tasks \/ tasks' = NoTasks
  BY DEF ByHandCommand, Verify, Import, Delegate, vars, Tell, Finish, files
<1> QED
  BY <1>1, <1>2 DEF Quiet, Onward, Dispatching, InHand, Before, Unread

LEMMA StopSteps ==
  ASSUME TypeOK, NEW c \in Chain, Die(c) \/ Fail(c)
  PROVE  Stop(c) /\ Onward
<1>1. at[c] \notin {"end", "failed", "dead"} /\ at'[c] \in {"failed", "dead"}
      /\ UNCHANGED stage /\ Elsewhere(c)
  BY DEF TypeOK, Die, Fail, Goto, Elsewhere
<1>2. Stop(c)
  BY <1>1 DEF Stop, Die, Fail, Abandon, files
<1> QED
  BY <1>1, <1>2 DEF Stop, Onward, Elsewhere, Before, Unread

(* A worker that reads the files, or writes to them, goes on.              *)
LEMMA FileSteps ==
  ASSUME TypeOK, NEW c \in Chain,
         \/ PersistPlan(c) \/ DispatchWrite(c)
         \/ DispatchRead(c) /\ Goto(c, "route")
         \/ ReconcileRead(c) /\ Goto(c, "tell")
         \/ \E t \in Task : PassOver(c, t) \/ Route(c, t) \/ Answered(c, t)
  PROVE  Onward /\ Elsewhere(c) /\ UNCHANGED stage
<1>1. Elsewhere(c) /\ UNCHANGED stage
  BY DEF PersistPlan, DispatchWrite, PassOver, Route, Answered, Goto, TypeOK, Elsewhere
<1>2. (Before(c)' => Before(c)) /\ (Unread(c)' => Unread(c))
      /\ UNCHANGED gaveUp
  BY <1>1 DEF PersistPlan, DispatchWrite, DispatchRead, ReconcileRead, PassOver, Route, Answered,
     Goto, TypeOK, Handles, Before, Unread, hands, history
<1> QED
  BY <1>1, <1>2 DEF Onward, Elsewhere, Before, Unread

(* A report moves no chain.                                                *)
LEMMA ReportOnward ==
  ASSUME NEW t \in Task, NEW o \in Outcomes, AgentReports(t, o)
  PROVE  Onward
BY DEF AgentReports, Onward, Before, Unread

(* What a step can be.                                                     *)
LEMMA Steps ==
  ASSUME TypeOK, [Next]_vars
  PROVE  \/ Quiet /\ Onward
         \/ \E c \in Chain :
               \/ Stop(c) /\ Onward
               \/ ReconcileRead(c) /\ Goto(c, "tell")
               \/ PersistPlan(c)
               \/ DispatchRead(c) /\ Goto(c, "route")
               \/ DispatchWrite(c)
               \/ \E t \in Task : PassOver(c, t) \/ Route(c, t) \/ Answered(c, t)
         \/ \E t \in Task, o \in Outcomes : AgentReports(t, o)
<1>1. ASSUME NEW c \in Chain, DispatchRead(c)
      PROVE  Enqueue(c) \/ Goto(c, "route")
  BY <1>1 DEF DispatchRead
<1>2. ASSUME NEW c \in Chain, ReconcileRead(c)
      PROVE  Enqueue(c) \/ Goto(c, "tell")
  BY <1>2 DEF ReconcileRead
<1>3. CASE \E c \in Chain : Confirm(c) \/ Worker(c) \/ Answer(c) \/ Die(c)
  BY <1>1, <1>2, <1>3, QuietWorker, QuietOthers, StopSteps DEF Worker, Answer
<1>4. CASE ByHandCommand \/ UNCHANGED vars
  BY <1>4, QuietOthers
<1> QED
  BY <1>3, <1>4 DEF Next
-----------------------------------------------------------------------------
(* The invariant, step by step.                                            *)

Core == /\ TypeOK /\ CopyInv /\ MetInv /\ FreshInv /\ SentFirstInv /\ KeptInv /\ SentInv
        /\ RepeatsHaveCause

LEMMA InitCore == Init => Core
BY InitTypeOK DEF Init, Core, CopyInv, MetInv, FreshInv, SentFirstInv, KeptInv, SentInv,
   RepeatsHaveCause, InHand, Dispatching

LEMMA QuietCore ==
  ASSUME Core, TypeOK', Quiet, Onward
  PROVE  Core'
<1>1. CopyInv'
  BY DEF Core, Quiet, CopyInv
<1>2. MetInv'
  BY DEF Core, Quiet, MetInv
<1>3. FreshInv'
  BY DEF Core, Quiet, Onward, FreshInv
<1>4. SentFirstInv' /\ KeptInv'
  BY DEF Core, Quiet, SentFirstInv, KeptInv, PlanSent, PlanKept
<1>5. SentInv'
  BY DEF Core, Quiet, Onward, SentInv, Recorded
<1>6. RepeatsHaveCause'
  BY DEF Core, Quiet, Onward, RepeatsHaveCause
<1> QED
  BY <1>1, <1>2, <1>3, <1>4, <1>5, <1>6 DEF Core

LEMMA StopCore ==
  ASSUME Core, TypeOK', NEW c \in Chain, Stop(c), Onward
  PROVE  Core'
<1>1. /\ ~Dispatching(c)' /\ ~InHand(c)'
      /\ Dispatching(c) => c \in gaveUp'
      /\ \A d \in Chain \ {c} : /\ Dispatching(d)' <=> Dispatching(d)
                                /\ InHand(d)' <=> InHand(d)
                                /\ at'[d] = at[d]
  BY DEF Stop, Elsewhere, Dispatching, InHand
<1>2. /\ copy'[c] = NoTasks
      /\ \A d \in Chain \ {c} : copy'[d] = copy[d] /\ todo'[d] = todo[d]
  BY DEF Stop, Drop, Core, TypeOK
<1>3. UNCHANGED <<tasks, sent, kept, overlapped>>
  BY DEF Stop
<1>4. CopyInv'
  BY <1>1, <1>2 DEF Core, CopyInv
<1>5. MetInv'
  BY <1>1, <1>3 DEF Core, MetInv
<1>6. FreshInv'
  BY <1>2, <1>3 DEF Core, Onward, FreshInv
<1>7. SentFirstInv' /\ KeptInv'
  BY <1>2, <1>3 DEF Core, SentFirstInv, KeptInv, PlanSent, PlanKept
<1>8. SentInv'
  BY <1>1, <1>2, <1>3 DEF Core, Onward, SentInv, Recorded
<1>9. RepeatsHaveCause'
  BY <1>3 DEF Core, Onward, RepeatsHaveCause
<1> QED
  BY <1>4, <1>5, <1>6, <1>7, <1>8, <1>9 DEF Core

(* c, which had nothing in hand, begins to work on the files.              *)
LEMMA MeetMet ==
  ASSUME Core, NEW c \in Chain, Meet(c), \A d \in Chain \ {c} : InHand(d)' <=> InHand(d)
  PROVE  MetInv' /\ overlapped \subseteq overlapped'
BY DEF Core, MetInv, Meet

LEMMA ReconcileCore ==
  ASSUME Core, TypeOK', NEW c \in Chain, ReconcileRead(c), Goto(c, "tell")
  PROVE  Core'
<1>1. Onward /\ Elsewhere(c) /\ UNCHANGED stage
  BY FileSteps DEF Core
<1>2. /\ ~Dispatching(c) /\ ~Dispatching(c)' /\ Meet(c)
      /\ \A d \in Chain \ {c} : /\ Dispatching(d)' <=> Dispatching(d)
                                /\ InHand(d)' <=> InHand(d)
                                /\ at'[d] = at[d]
  BY <1>1 DEF ReconcileRead, Goto, Enqueue, Handles, Dispatching, InHand, Elsewhere, Core, TypeOK
<1>3. UNCHANGED <<tasks, copy, todo, sent, kept>>
  BY DEF ReconcileRead, files
<1>4. MetInv' /\ overlapped \subseteq overlapped'
  BY <1>2, MeetMet DEF InHand, Dispatching
<1>5. CopyInv'
  BY <1>2, <1>3 DEF Core, CopyInv
<1>6. FreshInv'
  BY <1>1, <1>3 DEF Core, Onward, FreshInv
<1>7. SentFirstInv' /\ KeptInv'
  BY <1>3 DEF Core, SentFirstInv, KeptInv, PlanSent, PlanKept
<1>8. SentInv'
  BY <1>1, <1>2, <1>3, <1>4 DEF Core, Onward, SentInv, Recorded
<1>9. RepeatsHaveCause'
  BY <1>1, <1>3, <1>4 DEF Core, Onward, RepeatsHaveCause
<1> QED
  BY <1>4, <1>5, <1>6, <1>7, <1>8, <1>9 DEF Core

(* Nothing is known yet of the plan of a kickoff.                          *)
LEMMA PersistCore ==
  ASSUME Core, TypeOK', NEW c \in Chain, PersistPlan(c)
  PROVE  Core'
<1>1. Onward /\ Elsewhere(c) /\ UNCHANGED stage
  BY FileSteps DEF Core
<1>2. /\ Before(c) /\ ~Before(c)'
      /\ \A d \in Chain : /\ Dispatching(d)' <=> Dispatching(d)
                          /\ InHand(d)' <=> InHand(d)
                          /\ Dispatching(d) => at'[d] = at[d]
  BY <1>1 DEF PersistPlan, Goto, Handles, Dispatching, InHand, Elsewhere, Core, TypeOK, Before
<1>3. UNCHANGED <<copy, todo, sent, gaveUp, kept, overlapped>>
  BY DEF PersistPlan, hands, history
<1>4. /\ tasks'.by = c
      /\ \A t \in Task : tasks'.st[t] \in {"planned", "none"}
  BY DEF PersistPlan
<1>5. CopyInv' /\ MetInv'
  BY <1>2, <1>3 DEF Core, CopyInv, MetInv
<1>6. FreshInv'
  BY <1>1, <1>2, <1>3, <1>4 DEF Core, Onward, FreshInv
<1>7. SentFirstInv' /\ KeptInv'
  BY <1>2, <1>3, <1>4 DEF Core, SentFirstInv, KeptInv, PlanSent, PlanKept, FreshInv
<1>8. SentInv'
  BY <1>1, <1>2, <1>3, <1>4 DEF Core, Onward, SentInv, Recorded, FreshInv
<1>9. RepeatsHaveCause'
  BY <1>1, <1>3 DEF Core, Onward, RepeatsHaveCause
<1> QED
  BY <1>5, <1>6, <1>7, <1>8, <1>9 DEF Core

(* A dispatcher that reads the tasks has asked nobody yet.                 *)
LEMMA ReadCore ==
  ASSUME Core, TypeOK', NEW c \in Chain, DispatchRead(c), Goto(c, "route")
  PROVE  Core'
<1>1. Onward /\ Elsewhere(c) /\ UNCHANGED stage
  BY FileSteps DEF Core
<1>2. /\ Unread(c) /\ ~Dispatching(c) /\ Dispatching(c)'
      /\ \A d \in Chain \ {c} : /\ Dispatching(d)' <=> Dispatching(d)
                                /\ InHand(d)' <=> InHand(d)
                                /\ at'[d] = at[d]
  BY <1>1 DEF DispatchRead, Goto, Handles, Dispatching, InHand, Elsewhere, Core, TypeOK, Unread
<1>3. /\ tasks # NoTasks /\ copy'[c] = tasks /\ todo'[c] = Planned(tasks)
      /\ \A d \in Chain \ {c} : copy'[d] = copy[d] /\ todo'[d] = todo[d]
      /\ Meet(c)
  BY DEF DispatchRead, Goto, Enqueue, Handles, Core, TypeOK
<1>4. UNCHANGED <<tasks, sent, kept>>
  BY DEF DispatchRead, files
<1>5. MetInv' /\ overlapped \subseteq overlapped'
  BY <1>2, <1>3, MeetMet DEF InHand, Dispatching
<1>6. CopyInv'
  BY <1>2, <1>3 DEF Core, CopyInv, Planned
<1>7. FreshInv'
  BY <1>1, <1>3, <1>4 DEF Core, Onward, FreshInv
<1>8. SentFirstInv' /\ KeptInv'
  BY <1>3, <1>4 DEF Core, SentFirstInv, KeptInv, PlanSent, PlanKept
<1>9. SentInv'
  BY <1>1, <1>2, <1>3, <1>4, <1>5 DEF Core, Onward, SentInv, Recorded
<1>10. RepeatsHaveCause'
  BY <1>1, <1>4, <1>5 DEF Core, Onward, RepeatsHaveCause
<1> QED
  BY <1>5, <1>6, <1>7, <1>8, <1>9, <1>10 DEF Core

(* A dispatcher that writes leaves no task it asked for planned, unless it *)
(* has met another.                                                        *)
LEMMA WriteCore ==
  ASSUME Core, TypeOK', NEW c \in Chain, DispatchWrite(c)
  PROVE  Core'
<1>1. Onward /\ Elsewhere(c) /\ UNCHANGED stage
  BY FileSteps DEF Core
<1>2. /\ Dispatching(c) /\ ~Dispatching(c)' /\ ~InHand(c)'
      /\ \A d \in Chain \ {c} : /\ Dispatching(d)' <=> Dispatching(d)
                                /\ InHand(d)' <=> InHand(d)
                                /\ at'[d] = at[d]
  BY <1>1 DEF DispatchWrite, Goto, Handles, Dispatching, InHand, Elsewhere, Core, TypeOK
<1>3. /\ copy[c] # NoTasks /\ tasks' = copy[c] /\ copy'[c] = NoTasks
      /\ \A d \in Chain \ {c} : copy'[d] = copy[d] /\ todo'[d] = todo[d]
      /\ todo[c] = {}
  BY <1>2 DEF DispatchWrite, Drop, Core, TypeOK, CopyInv
<1>4. UNCHANGED <<sent, kept, overlapped>>
  BY DEF DispatchWrite, history
<1>5. CopyInv'
  BY <1>2, <1>3 DEF Core, CopyInv
<1>6. MetInv'
  BY <1>2, <1>4 DEF Core, MetInv
<1>7. FreshInv'
  BY <1>1, <1>3, <1>4 DEF Core, Onward, FreshInv
<1>8. SentFirstInv' /\ KeptInv'
  BY <1>3, <1>4 DEF Core, SentFirstInv, KeptInv, PlanSent, PlanKept
<1>9. ASSUME NEW d \in Chain, NEW a \in Chain, NEW t \in Task, <<d, a, t>> \in sent, d # c,
             ~Dispatching(d)
      PROVE  d \in gaveUp' \/ d \in overlapped \/ Recorded(a, t)'
  BY <1>1, <1>3, <1>4, <1>9 DEF Core, Onward, SentInv, Recorded
<1>10. ASSUME NEW a \in Chain, NEW t \in Task, <<c, a, t>> \in sent, c \notin overlapped
       PROVE  Recorded(a, t)'
  <2>1. copy[c].st[t] = "requested"
    BY <1>2, <1>3, <1>10 DEF Core, SentInv
  <2>2. \A d \in Chain : copy'[d] = NoTasks
    BY <1>2, <1>3, <1>10 DEF Core, MetInv, CopyInv, InHand
  <2> QED
    BY <1>3, <2>1, <2>2 DEF Recorded
<1>11. SentInv'
  BY <1>1, <1>2, <1>3, <1>4, <1>9, <1>10 DEF Core, Onward, SentInv
<1>12. RepeatsHaveCause'
  BY <1>1, <1>4 DEF Core, Onward, RepeatsHaveCause
<1> QED
  BY <1>5, <1>6, <1>7, <1>8, <1>11, <1>12 DEF Core

(* The dispatcher at work stays one.                                       *)
LEMMA DispatcherStays ==
  ASSUME Core, NEW c \in Chain, NEW t \in Task, PassOver(c, t) \/ Route(c, t) \/ Answered(c, t)
  PROVE  /\ Onward /\ Dispatching(c) /\ copy[c] \in Plans /\ copy[c] # NoTasks
         /\ copy[c].st[t] = "planned" /\ t \in todo[c]
         /\ \A d \in Chain : /\ Dispatching(d)' <=> Dispatching(d)
                             /\ InHand(d)' <=> InHand(d)
         /\ \A d \in Chain \ {c} : at'[d] = at[d]
         /\ UNCHANGED <<tasks, kept, overlapped>>
<1>1. Onward /\ Elsewhere(c) /\ UNCHANGED stage
  BY FileSteps DEF Core
<1>2. /\ Dispatching(c) /\ t \in todo[c]
      /\ at'[c] \in {"route", "await"} /\ UNCHANGED <<tasks, kept, overlapped>>
  BY DEF PassOver, Route, Answered, Goto, Handles, Dispatching, Core, TypeOK, files, history
<1>3. copy[c] \in Plans /\ copy[c] # NoTasks /\ copy[c].st[t] = "planned"
  BY <1>2 DEF Core, CopyInv, TypeOK, Planned
<1> QED
  BY <1>1, <1>2, <1>3 DEF Dispatching, InHand, Elsewhere

LEMMA RouteCore ==
  ASSUME Core, TypeOK', NEW c \in Chain, NEW t \in Task, Route(c, t)
  PROVE  Core'
<1>1. /\ Onward /\ Dispatching(c) /\ copy[c] \in Plans /\ copy[c] # NoTasks
      /\ copy[c].st[t] = "planned" /\ t \in todo[c]
      /\ \A d \in Chain : /\ Dispatching(d)' <=> Dispatching(d)
                          /\ InHand(d)' <=> InHand(d)
      /\ \A d \in Chain \ {c} : at'[d] = at[d]
      /\ UNCHANGED <<tasks, kept, overlapped>>
  BY DispatcherStays
<1>2. /\ at[c] = "route" /\ at'[c] = "await" /\ stage'[c] = "followup"
      /\ UNCHANGED <<copy, todo>> /\ sent' = sent \cup {<<c, copy[c].by, t>>}
  BY DEF Route, Handles, Goto, hands, Core, TypeOK
<1>3. copy[c].by \in Chain
  BY <1>1 DEF Plans
<1>4. CopyInv' /\ MetInv'
  BY <1>1, <1>2 DEF Core, CopyInv, MetInv
<1>5. FreshInv'
  BY <1>1, <1>2 DEF Core, Onward, FreshInv
<1>6. SentFirstInv' /\ KeptInv'
  BY <1>1, <1>2 DEF Core, SentFirstInv, KeptInv, PlanSent, PlanKept
<1>7. SentInv'
  <2> SUFFICES ASSUME NEW d \in Chain, NEW a \in Chain, NEW u \in Task, <<d, a, u>> \in sent'
               PROVE  /\ ~Unread(d)'
                      /\ Dispatching(d)' =>
                            /\ copy'[d].by = a
                            /\ \/ copy'[d].st[u] = "requested"
                               \/ /\ at'[d] = "await" /\ u \in todo'[d]
                                  /\ \A v \in todo'[d] : <<d, a, v>> \in sent' => v = u
                      /\ ~Dispatching(d)' => d \in gaveUp' \/ d \in overlapped' \/ Recorded(a, u)'
    BY DEF SentInv
  <2>1. CASE d # c
    <3>1. \A v : <<d, a, v>> \in sent' <=> <<d, a, v>> \in sent
      BY <1>2, <2>1
    <3>2. ~Dispatching(d)' => d \in gaveUp' \/ d \in overlapped' \/ Recorded(a, u)'
      BY <1>1, <1>2, <3>1 DEF Core, Onward, SentInv, Recorded
    <3> QED
      BY <1>1, <1>2, <2>1, <3>1, <3>2 DEF Core, Onward, SentInv
  <2>2. CASE d = c
    <3>1. \A v \in todo[c] : <<c, a, v>> \notin sent
      <4>1. \A v \in todo[c] : v \in Task /\ copy[c].st[v] = "planned"
        BY <1>1 DEF Core, CopyInv, Planned
      <4> QED
        BY <1>1, <1>2, <4>1 DEF Core, SentInv
    <3>2. ~Unread(c)'
      BY <1>2 DEF Unread
    <3>3. CASE <<c, a, u>> \in sent
      BY <1>1, <1>2, <2>2, <3>2, <3>3 DEF Core, SentInv
    <3>4. CASE <<c, a, u>> \notin sent
      BY <1>1, <1>2, <2>2, <3>1, <3>2, <3>4
    <3> QED
      BY <3>3, <3>4
  <2> QED
    BY <2>1, <2>2
<1>8. RepeatsHaveCause'
  <2>1. ASSUME NEW d \in Chain, d # c, <<d, copy[c].by, t>> \in sent
        PROVE  d \in gaveUp' \/ d \in overlapped \/ c \in overlapped
    <3>1. CASE Dispatching(d)
      BY <1>1, <2>1, <3>1 DEF Core, MetInv, InHand
    <3>2. CASE ~Dispatching(d)
      BY <1>1, <1>3, <2>1, <3>2 DEF Core, Onward, SentInv, Recorded
    <3> QED
      BY <3>1, <3>2
  <2> SUFFICES ASSUME NEW d \in Chain, NEW e \in Chain, NEW a \in Chain, NEW u \in Task,
                      d # e, <<d, a, u>> \in sent', <<e, a, u>> \in sent'
               PROVE  \E x \in {d, e} : x \in gaveUp' \/ x \in overlapped'
    BY DEF RepeatsHaveCause
  <2>2. CASE <<d, a, u>> \in sent /\ <<e, a, u>> \in sent
    BY <1>1, <2>2 DEF Core, Onward, RepeatsHaveCause
  <2>3. CASE <<d, a, u>> \notin sent
    <3>1. d = c /\ a = copy[c].by /\ u = t /\ <<e, a, u>> \in sent
      BY <1>2, <2>3
    <3> QED
      BY <1>1, <2>1, <3>1
  <2>4. CASE <<e, a, u>> \notin sent
    <3>1. e = c /\ a = copy[c].by /\ u = t /\ <<d, a, u>> \in sent
      BY <1>2, <2>4
    <3> QED
      BY <1>1, <2>1, <3>1
  <2> QED
    BY <2>2, <2>3, <2>4
<1> QED
  BY <1>4, <1>5, <1>6, <1>7, <1>8 DEF Core

(* A task in the hands of the dispatcher is set to what is neither planned *)
(* nor an outcome; it is marked as requested only when it was asked for.   *)
LEMMA MarkCore ==
  ASSUME Core, TypeOK', NEW c \in Chain, NEW t \in Task,
         PassOver(c, t) \/ Answered(c, t), NEW s \in {"blocked", "requested"},
         Marks(c, t, s),
         s = "requested" => <<c, copy[c].by, t>> \in sent
  PROVE  CopyInv' /\ FreshInv' /\ SentFirstInv' /\ KeptInv'
<1>1. /\ Onward /\ Dispatching(c) /\ copy[c] \in Plans /\ copy[c] # NoTasks
      /\ copy[c].st[t] = "planned" /\ t \in todo[c]
      /\ \A d \in Chain : Dispatching(d)' <=> Dispatching(d)
      /\ UNCHANGED <<tasks, kept, overlapped>>
  BY DispatcherStays
<1>2. todo' = [todo EXCEPT ![c] = @ \ {t}] /\ UNCHANGED sent
  BY DEF PassOver, Answered, history
<1>3. /\ copy'[c] # NoTasks /\ copy'[c].by = copy[c].by
      /\ \A u \in Task : copy'[c].st[u] = IF u = t THEN s ELSE copy[c].st[u]
      /\ \A d \in Chain \ {c} : copy'[d] = copy[d]
  <2>1. TypeOK /\ s \in TaskStatus
    BY DEF Core, TaskStatus
  <2> QED
    BY <1>1, <2>1, MarkedCopy
<1>4. CopyInv'
  <2>1. /\ todo'[c] = todo[c] \ {t} /\ todo[c] \subseteq Task
        /\ \A d \in Chain \ {c} : todo'[d] = todo[d]
    BY <1>2 DEF Core, TypeOK
  <2>2. todo'[c] \subseteq Planned(copy'[c])
    BY <1>1, <1>3, <2>1 DEF Core, CopyInv, Planned
  <2> QED
    BY <1>1, <1>3, <2>1, <2>2 DEF Core, CopyInv, Planned
<1>5. FreshInv'
  BY <1>1, <1>2, <1>3 DEF Core, Onward, FreshInv
<1>6. SentFirstInv'
  BY <1>1, <1>2, <1>3 DEF Core, SentFirstInv, PlanSent
<1>7. KeptInv'
  <2>1. <<copy[c].by, t>> \notin kept
    BY <1>1, ChainAssumption DEF Core, KeptInv, PlanKept
  <2> QED
    BY <1>1, <1>3, <2>1 DEF Core, KeptInv, PlanKept
<1> QED
  BY <1>4, <1>5, <1>6, <1>7

LEMMA PassOverCore ==
  ASSUME Core, TypeOK', NEW c \in Chain, NEW t \in Task, PassOver(c, t)
  PROVE  Core'
<1>1. /\ Onward /\ Dispatching(c) /\ copy[c] \in Plans /\ copy[c] # NoTasks
      /\ copy[c].st[t] = "planned" /\ t \in todo[c]
      /\ \A d \in Chain : /\ Dispatching(d)' <=> Dispatching(d)
                          /\ InHand(d)' <=> InHand(d)
      /\ \A d \in Chain \ {c} : at'[d] = at[d]
      /\ UNCHANGED <<tasks, kept, overlapped>>
  BY DispatcherStays
<1>2. /\ at[c] = "route" /\ at'[c] = "route" /\ UNCHANGED <<sent, stage>>
      /\ todo' = [todo EXCEPT ![c] = @ \ {t}]
      /\ UNCHANGED copy \/ Marks(c, t, "blocked")
  BY DEF PassOver, Handles, history, Marks
<1>3. /\ todo'[c] \subseteq todo[c]
      /\ \A d \in Chain \ {c} : todo'[d] = todo[d]
  BY <1>2 DEF Core, TypeOK
<1>4. CopyInv' /\ FreshInv' /\ SentFirstInv' /\ KeptInv'
  <2>1. CASE UNCHANGED copy
    <3>1. CopyInv'
      BY <1>1, <1>3, <2>1 DEF Core, CopyInv, Planned
    <3>2. FreshInv'
      BY <1>1, <1>2, <2>1 DEF Core, Onward, FreshInv
    <3>3. SentFirstInv' /\ KeptInv'
      BY <1>1, <1>2, <2>1 DEF Core, SentFirstInv, KeptInv, PlanSent, PlanKept
    <3> QED
      BY <3>1, <3>2, <3>3
  <2>2. CASE Marks(c, t, "blocked")
    BY <2>2, MarkCore
  <2> QED
    BY <1>2, <2>1, <2>2
<1>5. /\ copy'[c].by = copy[c].by /\ copy'[c] # NoTasks
      /\ \A u \in Task \ {t} : copy'[c].st[u] = copy[c].st[u]
      /\ copy'[c].st[t] \in {"planned", "blocked"}
      /\ \A d \in Chain \ {c} : copy'[d] = copy[d]
  <2>1. CASE UNCHANGED copy
    BY <1>1, <2>1
  <2>2. CASE Marks(c, t, "blocked")
    <3>1. TypeOK /\ "blocked" \in TaskStatus
      BY DEF Core, TaskStatus
    <3>2. /\ copy'[c].by = copy[c].by /\ copy'[c] # NoTasks
          /\ \A u \in Task : copy'[c].st[u] = IF u = t THEN "blocked" ELSE copy[c].st[u]
          /\ \A d \in Chain \ {c} : copy'[d] = copy[d]
      BY <1>1, <2>2, <3>1, MarkedCopy
    <3> QED
      BY <3>2
  <2> QED
    BY <1>2, <2>1, <2>2
<1>6. MetInv'
  BY <1>1 DEF Core, MetInv
<1>7. SentInv'
  <2>1. ASSUME NEW a \in Chain, NEW u \in Task, <<c, a, u>> \in sent
        PROVE  /\ ~Unread(c)' /\ copy'[c].by = a /\ copy'[c].st[u] = "requested"
    BY <1>1, <1>2, <1>5, <2>1 DEF Core, Onward, SentInv
  <2>2. ASSUME NEW a \in Chain, NEW u \in Task, Recorded(a, u)
        PROVE  Recorded(a, u)'
    BY <1>1, <1>5, <2>2 DEF Recorded
  <2> QED
    BY <1>1, <1>2, <1>3, <1>5, <2>1, <2>2 DEF Core, Onward, SentInv
<1>8. RepeatsHaveCause'
  BY <1>1, <1>2 DEF Core, Onward, RepeatsHaveCause
<1> QED
  BY <1>4, <1>6, <1>7, <1>8 DEF Core

LEMMA AnsweredCore ==
  ASSUME Core, TypeOK', NEW c \in Chain, NEW t \in Task, Answered(c, t)
  PROVE  Core'
<1>1. /\ Onward /\ Dispatching(c) /\ copy[c] \in Plans /\ copy[c] # NoTasks
      /\ copy[c].st[t] = "planned" /\ t \in todo[c]
      /\ \A d \in Chain : /\ Dispatching(d)' <=> Dispatching(d)
                          /\ InHand(d)' <=> InHand(d)
      /\ \A d \in Chain \ {c} : at'[d] = at[d]
      /\ UNCHANGED <<tasks, kept, overlapped>>
  BY DispatcherStays
<1>2. /\ UNCHANGED sent /\ <<c, copy[c].by, t>> \in sent
      /\ todo' = [todo EXCEPT ![c] = @ \ {t}]
      /\ Marks(c, t, "requested")
  BY DEF Answered, history, Marks
<1>3. \A d \in Chain \ {c} : todo'[d] = todo[d]
  BY <1>2 DEF Core, TypeOK
<1>4. CopyInv' /\ FreshInv' /\ SentFirstInv' /\ KeptInv'
  BY <1>2, MarkCore
<1>5. /\ copy'[c].by = copy[c].by /\ copy'[c] # NoTasks
      /\ \A u \in Task : copy'[c].st[u] = IF u = t THEN "requested" ELSE copy[c].st[u]
      /\ \A d \in Chain \ {c} : copy'[d] = copy[d]
  <2>1. TypeOK /\ "requested" \in TaskStatus
    BY DEF Core, TaskStatus
  <2> QED
    BY <1>1, <1>2, <2>1, MarkedCopy
<1>6. MetInv'
  BY <1>1 DEF Core, MetInv
<1>7. SentInv'
  <2>1. ASSUME NEW a \in Chain, NEW u \in Task, <<c, a, u>> \in sent
        PROVE  /\ ~Unread(c)' /\ copy'[c].by = a /\ copy'[c].st[u] = "requested"
    BY <1>1, <1>2, <1>5, <2>1 DEF Core, Onward, SentInv
  <2>2. ASSUME NEW a \in Chain, NEW u \in Task, Recorded(a, u)
        PROVE  Recorded(a, u)'
    BY <1>1, <1>5, <2>2 DEF Recorded
  <2> QED
    BY <1>1, <1>2, <1>3, <1>5, <2>1, <2>2 DEF Core, Onward, SentInv
<1>8. RepeatsHaveCause'
  BY <1>1, <1>2 DEF Core, Onward, RepeatsHaveCause
<1> QED
  BY <1>4, <1>6, <1>7, <1>8 DEF Core

(* A report is of a task that was asked for.                               *)
LEMMA ReportsCore ==
  ASSUME Core, TypeOK', NEW t \in Task, NEW o \in Outcomes, AgentReports(t, o)
  PROVE  Core'
<1>1. /\ UNCHANGED <<stage, at, copy, todo, sent, overlapped>>
      /\ \E c \in Chain : <<c, tasks.by, t>> \in sent
      /\ \/ kept' = kept
         \/ /\ kept' = kept \cup {<<tasks.by, t>>}
            /\ \A c \in Chain : ~Dispatching(c)
  BY DEF AgentReports, hands
<1>2. tasks \in Plans /\ tasks # NoTasks /\ tasks' = [tasks EXCEPT !.st[t] = o]
  BY DEF AgentReports, Core, TypeOK
<1>3. /\ tasks'.by = tasks.by
      /\ \A u \in Task : tasks'.st[u] = IF u = t THEN o ELSE tasks.st[u]
  BY <1>2, MarkedPlan DEF TaskStatus
<1>4. o \notin {"planned", "requested"} /\ tasks.by \in Chain
  BY <1>2, ChainAssumption DEF Plans
<1>5. Onward
  BY ReportOnward
<1>6. CopyInv' /\ MetInv'
  BY <1>1 DEF Core, CopyInv, MetInv, Dispatching, InHand, Planned
<1>7. FreshInv'
  BY <1>1, <1>2, <1>3, <1>4, <1>5 DEF Core, Onward, FreshInv
<1>8. SentFirstInv'
  BY <1>1, <1>2, <1>3, <1>4 DEF Core, SentFirstInv, PlanSent
<1>9. KeptInv'
  <2>1. ASSUME NEW c \in Chain, copy[c] # NoTasks PROVE UNCHANGED kept
    BY <1>1, <2>1 DEF Core, CopyInv
  <2>2. tasks' # NoTasks => PlanKept(tasks)'
    BY <1>1, <1>2, <1>3 DEF Core, KeptInv, PlanKept
  <2> QED
    BY <1>1, <2>1, <2>2 DEF Core, KeptInv, PlanKept
<1>10. SentInv'
  <2>1. ASSUME NEW a \in Chain, NEW u \in Task, Recorded(a, u)
        PROVE  Recorded(a, u)'
    BY <1>1, <1>2, <1>3, <1>4, <2>1 DEF Recorded
  <2>2. \A c \in Chain : Dispatching(c)' <=> Dispatching(c)
    BY <1>1 DEF Dispatching
  <2> QED
    BY <1>1, <1>5, <2>1, <2>2 DEF Core, Onward, SentInv
<1>11. RepeatsHaveCause'
  BY <1>1, <1>5 DEF Core, Onward, RepeatsHaveCause
<1> QED
  BY <1>6, <1>7, <1>8, <1>9, <1>10, <1>11 DEF Core

LEMMA NextCore == Core /\ [Next]_vars => Core'
<1> SUFFICES ASSUME Core, [Next]_vars PROVE Core'
  OBVIOUS
<1>1. TypeOK /\ TypeOK'
  BY NextTypeOK DEF Core
<1> QED
  BY <1>1, Steps, QuietCore, StopCore, ReconcileCore, PersistCore, ReadCore, WriteCore,
     PassOverCore, RouteCore, AnsweredCore, ReportsCore

LEMMA CoreAlways == Spec => []Core
BY InitCore, NextCore, PTL DEF Spec

(* A task that NEXT_TASKS.json calls requested was asked of an agent, by a *)
(* dispatcher that had read it as planned.                                 *)
RequestedWasSent ==
    tasks # NoTasks =>
        \A t \in Task : tasks.st[t] = "requested" =>
            \E c \in Chain : <<c, tasks.by, t>> \in sent

(* Every task that is marked as requested was asked of an agent first.     *)
THEOREM RequestedSent == Spec => []RequestedWasSent
<1>1. Core => RequestedWasSent
  BY DEF Core, SentFirstInv, PlanSent, RequestedWasSent
<1> QED
  BY <1>1, CoreAlways, PTL

(* A task goes to agents twice only for one of the two causes.             *)
THEOREM RepeatsCaused == Spec => []RepeatsHaveCause
<1>1. Core => RepeatsHaveCause
  BY DEF Core
<1> QED
  BY <1>1, CoreAlways, PTL

(* No dispatch takes back an outcome that was reported before it began or  *)
(* after it ended.                                                         *)
THEOREM OutcomesKept == Spec => []OutcomeKept
<1>1. Core => OutcomeKept
  BY DEF Core, KeptInv, PlanKept, OutcomeKept
<1> QED
  BY <1>1, CoreAlways, PTL

-----------------------------------------------------------------------------
(* The task events.                                                        *)

LEMMA InitTold == Init => UntoldInv /\ ToldOnce
BY DEF Init, UntoldInv, ToldOnce

(* Workers that have met stay marked.                                      *)
LEMMA OverlapsStay == TypeOK /\ Core /\ [Next]_vars => overlapped \subseteq overlapped'
<1> SUFFICES ASSUME TypeOK, Core, [Next]_vars PROVE overlapped \subseteq overlapped'
  OBVIOUS
<1>1. ASSUME NEW c \in Chain, Meet(c) PROVE overlapped \subseteq overlapped'
  BY <1>1 DEF Meet
<1> QED
  BY <1>1, Steps DEF Quiet, Stop, ReconcileRead, Goto, Enqueue, PersistPlan, DispatchRead,
     DispatchWrite, PassOver, Route, Answered, AgentReports, history

(* What is about to be appended is not there, as long as nobody else is    *)
(* about to append.                                                        *)
LEMMA NextTold ==
  ASSUME Core, [Next]_vars, UntoldInv, ToldOnce
  PROVE  UntoldInv' /\ ToldOnce'
<1>1. TypeOK /\ overlapped \subseteq overlapped'
  BY OverlapsStay DEF Core
<1>2. CASE \E c \in Chain, x \in Task \X Outcomes : Tell(c, x)
  <2>1. PICK c \in Chain, x \in Task \X Outcomes : Tell(c, x)
    BY <1>2
  <2>2. /\ at[c] = "tell" /\ x \in untold[c] /\ log' = log \cup {x}
        /\ twice' = IF x \in log THEN twice \cup {c} ELSE twice
        /\ untold'[c] = untold[c] \ {x} /\ UNCHANGED <<at, overlapped>>
        /\ \A d \in Chain \ {c} : untold'[d] = untold[d]
    BY <1>1, <2>1 DEF Tell, TypeOK
  <2>3. \A d \in Chain \ {c} : at[d] = "tell" => d \in overlapped
    BY <2>2 DEF Core, MetInv, InHand
  <2>4. UntoldInv'
    BY <2>2, <2>3 DEF UntoldInv
  <2>5. ToldOnce'
    BY <2>2 DEF UntoldInv, ToldOnce
  <2> QED
    BY <2>4, <2>5
<1>3. CASE \E c \in Chain : ReconcileRead(c) /\ Goto(c, "tell")
  <2>1. PICK c \in Chain : ReconcileRead(c) /\ Goto(c, "tell")
    BY <1>3
  <2>2. /\ untold'[c] = Reported(tasks) \ log
        /\ \A d \in Chain \ {c} : untold'[d] = untold[d] /\ at'[d] = at[d]
        /\ UNCHANGED <<log, twice>>
    BY <1>1, <2>1 DEF ReconcileRead, Enqueue, Goto, TypeOK, files
  <2> QED
    BY <1>1, <2>2 DEF UntoldInv, ToldOnce
<1>4. CASE /\ log' = log \/ log' = {}
           /\ UNCHANGED twice
           /\ \A d \in Chain : at'[d] = "tell" => at[d] = "tell" /\ untold'[d] = untold[d]
  BY <1>1, <1>4 DEF UntoldInv, ToldOnce
<1>5. ASSUME NEW c \in Chain,
             \/ Confirm(c) \/ Launch(c) \/ IssueMission(c) \/ Prewarm(c) \/ AskPlanner(c)
             \/ PersistPlan(c) \/ DispatchRead(c)
             \/ Reconciled(c) \/ Distill(c) \/ Complete(c) \/ Report(c)
      PROVE  /\ log' = log \/ log' = {}
             /\ UNCHANGED twice
             /\ \A d \in Chain : at'[d] = "tell" => at[d] = "tell" /\ untold'[d] = untold[d]
  <2>1. (log' = log \/ log' = {}) /\ UNCHANGED <<twice, untold>>
    BY <1>5 DEF Confirm, Launch, IssueMission, Prewarm, AskPlanner, PersistPlan, DispatchRead,
       Reconciled, Distill, Complete, Report, Finish, files, hands, history
  <2>2. at'[c] # "tell" /\ \A d \in Chain \ {c} : at'[d] = at[d]
    BY <1>1, <1>5 DEF Confirm, Launch, IssueMission, Prewarm, AskPlanner, PersistPlan, DispatchRead,
       Reconciled, Distill, Complete, Report, Goto, Enqueue, TypeOK
  <2> QED
    BY <2>1, <2>2
<1>6. ASSUME NEW c \in Chain, Die(c) \/ Fail(c) \/ DispatchWrite(c)
      PROVE  /\ log' = log
             /\ UNCHANGED twice
             /\ \A d \in Chain : at'[d] = "tell" => at[d] = "tell" /\ untold'[d] = untold[d]
  <2>1. log' = log /\ UNCHANGED twice /\ Drop(c)
    BY <1>6 DEF Die, Fail, DispatchWrite, files, history
  <2>2. at'[c] # "tell" /\ \A d \in Chain \ {c} : at'[d] = at[d]
    BY <1>1, <1>6 DEF Die, Fail, DispatchWrite, Goto, TypeOK
  <2> QED
    BY <1>1, <2>1, <2>2 DEF Drop, TypeOK
<1>7. ASSUME NEW c \in Chain, NEW t \in Task, PassOver(c, t) \/ Route(c, t) \/ Answered(c, t)
      PROVE  /\ log' = log
             /\ UNCHANGED twice
             /\ \A d \in Chain : at'[d] = "tell" => at[d] = "tell" /\ untold'[d] = untold[d]
  <2>1. UNCHANGED <<log, twice, untold>>
    BY <1>7 DEF PassOver, Route, Answered, files, hands, history
  <2>2. \A d \in Chain : at'[d] = "tell" => at[d] = "tell"
    BY <1>1, <1>7 DEF PassOver, Route, Answered, Goto, TypeOK
  <2> QED
    BY <2>1, <2>2
<1>8. CASE \/ ByHandCommand \/ UNCHANGED vars
           \/ \E t \in Task, o \in Outcomes : AgentReports(t, o)
  <2>1. (log' = log \/ log' = {}) /\ UNCHANGED <<at, twice, untold>>
    BY <1>8 DEF ByHandCommand, Verify, Import, Delegate, vars, AgentReports, Finish, files,
       hands, history
  <2> QED
    BY <1>4, <2>1
<1>9. ASSUME NEW c \in Chain, ReconcileRead(c) PROVE UntoldInv' /\ ToldOnce'
  <2>1. CASE Goto(c, "tell")
    BY <1>3, <1>9, <2>1
  <2>2. CASE Enqueue(c) /\ UNCHANGED untold
    BY <1>1, <1>4, <1>9, <2>2 DEF ReconcileRead, Enqueue, TypeOK, files
  <2> QED
    BY <1>9, <2>1, <2>2 DEF ReconcileRead
<1> QED
  BY <1>2, <1>4, <1>5, <1>6, <1>7, <1>8, <1>9 DEF Next, Worker, Answer

(* No outcome is appended twice unless workers have overlapped.            *)
THEOREM ToldOnlyOnce == Spec => []ToldOnce
<1>1. Init => Core /\ UntoldInv /\ ToldOnce
  BY InitCore, InitTold
<1>2. Core /\ UntoldInv /\ ToldOnce /\ [Next]_vars => (Core /\ UntoldInv /\ ToldOnce)'
  BY NextCore, NextTold
<1> QED
  BY <1>1, <1>2, PTL DEF Spec
-----------------------------------------------------------------------------
(* The archive and the knowledge.                                          *)

LEMMA InitKnowledge == Init => KnowledgeInv
BY DEF Init, KnowledgeInv

\* Nothing that counts for the knowledge happens to a chain.
NoChainMoves == /\ UNCHANGED <<distilled>> /\ late \subseteq late'
                /\ \A c \in Chain : stage'[c] = "completion" <=> stage[c] = "completion"

(* Only finish takes a mission out of distilling without its knowledge,    *)
(* and only verify takes one there.                                        *)
LEMMA SettledKnowledge ==
  ASSUME KnowledgeInv, NoChainMoves, UNCHANGED finisher, wisdom => wisdom',
         \/ mission' = mission
         \/ mission' \in {"active", "validating"}
         \/ mission' = "completed" /\ wisdom'
  PROVE  KnowledgeInv'
BY DEF KnowledgeInv, NoChainMoves

LEMMA StartSettles ==
  Start => mission' = mission \/ mission' \in {"active", "validating"}
BY DEF Start

LEMMA FinishKnowledge ==
  ASSUME TypeOK, KnowledgeInv, NoChainMoves, UNCHANGED <<late, wisdom>>,
         NEW who \in Chain \cup {ByHand}, Finish(who), who \in Chain => stage[who] = "completion"
  PROVE  KnowledgeInv'
<1>1. CASE UNCHANGED <<mission, finisher>>
  BY <1>1, SettledKnowledge
<1>2. CASE /\ mission \in {"distilling", "completed"} /\ mission' \in {"completed", "archived"}
           /\ finisher' = IF mission = "distilling" THEN who ELSE finisher
  <2>1. \A c \in Chain : /\ distilled'[c] = "done" => wisdom'
                         /\ stage'[c] = "completion" <=> distilled'[c] # "no"
    BY DEF KnowledgeInv, NoChainMoves
  <2>2. CASE mission = "completed"
    BY <1>2, <2>1, <2>2 DEF KnowledgeInv, NoChainMoves
  <2>3. CASE mission = "distilling" /\ who = ByHand
    BY <1>2, <2>1, <2>3 DEF KnowledgeInv
  <2>4. CASE mission = "distilling" /\ who \in Chain
    <3>1. distilled[who] \in {"done", "refused", "failed"}
      BY <2>4 DEF KnowledgeInv, TypeOK
    <3> QED
      BY <1>2, <2>1, <2>4, <3>1 DEF KnowledgeInv, NoChainMoves
  <2> QED
    BY <1>2, <2>2, <2>3, <2>4
<1> QED
  BY <1>1, <1>2 DEF Finish

LEMMA NextKnowledge ==
  ASSUME TypeOK, [Next]_vars, KnowledgeInv
  PROVE  KnowledgeInv'
<1>1. ASSUME NEW c \in Chain, Confirm(c) \/ IssueMission(c) PROVE KnowledgeInv'
  <2>1. Start /\ UNCHANGED <<wisdom, finisher>> /\ NoChainMoves
    BY <1>1 DEF Confirm, IssueMission, Goto, Enqueue, Handles, Following, TypeOK, NoChainMoves
  <2> QED
    BY <2>1, StartSettles, SettledKnowledge
<1>2. ASSUME NEW c \in Chain,
             \/ Launch(c) \/ Die(c) \/ Fail(c) \/ Prewarm(c) \/ AskPlanner(c) \/ PersistPlan(c)
             \/ DispatchRead(c) \/ DispatchWrite(c) \/ ReconcileRead(c) \/ Reconciled(c)
             \/ Report(c)
      PROVE  KnowledgeInv'
  <2>1. UNCHANGED <<mission, wisdom, finisher, late, distilled>>
    BY <1>2 DEF Launch, Die, Fail, Prewarm, AskPlanner, PersistPlan, DispatchRead, DispatchWrite,
       ReconcileRead, Reconciled, Report, life
  <2>2. \A d \in Chain : stage'[d] = "completion" <=> stage[d] = "completion"
    BY <1>2 DEF Launch, Die, Fail, Prewarm, AskPlanner, PersistPlan, DispatchRead, DispatchWrite,
       ReconcileRead, Reconciled, Report, Goto, Enqueue, Handles, Following, TypeOK
  <2> QED
    BY <2>1, <2>2, SettledKnowledge DEF NoChainMoves
<1>3. CASE \/ \E c \in Chain, t \in Task : PassOver(c, t) \/ Route(c, t) \/ Answered(c, t)
           \/ \E c \in Chain, x \in Task \X Outcomes : Tell(c, x)
           \/ \E t \in Task, o \in Outcomes : AgentReports(t, o)
           \/ UNCHANGED vars
  <2>1. UNCHANGED <<stage, mission, wisdom, finisher, late, distilled>>
    BY <1>3 DEF PassOver, Route, Answered, Tell, AgentReports, vars, Goto, life
  <2> QED
    BY <2>1, SettledKnowledge DEF NoChainMoves
<1>4. ASSUME NEW c \in Chain, Distill(c) PROVE KnowledgeInv'
  <2>1. PICK result \in {"done", "refused", "failed"} :
           DistillMission(result) /\ distilled' = [distilled EXCEPT ![c] = result]
    BY <1>4 DEF Distill
  <2>2. /\ distilled'[c] = result
        /\ \A d \in Chain \ {c} : distilled'[d] = distilled[d] /\ stage'[d] = stage[d]
        /\ UNCHANGED <<finisher, late>>
        /\ stage[c] = "distillation"
    BY <1>4, <2>1 DEF Distill, Enqueue, Handles, TypeOK
  <2>3. /\ wisdom => wisdom'
        /\ result = "done" => wisdom'
        /\ result = "refused" => mission' # "distilling"
        /\ mission' = mission \/ (wisdom' /\ mission' = "completed")
    BY <2>1 DEF DistillMission, TypeOK
  <2>4. \A d \in Chain : /\ distilled'[d] = "done" => wisdom'
                         /\ stage'[d] = "completion" <=> distilled'[d] # "no"
                         /\ distilled'[d] = "refused" /\ mission' = "distilling" => d \in late'
    BY <1>4, <2>2, <2>3 DEF KnowledgeInv, Distill, Enqueue, Following, TypeOK
  <2>5. mission' \in {"completed", "archived"} /\ ~wisdom' =>
           \/ finisher' \in late' \cup {ByHand}
           \/ finisher' \in Chain /\ distilled'[finisher'] = "failed"
    <3> SUFFICES ASSUME mission' \in {"completed", "archived"}, ~wisdom',
                        finisher \notin late \cup {ByHand}
                 PROVE  finisher \in Chain /\ distilled'[finisher] = "failed"
      BY <2>2
    <3>1. finisher \in Chain /\ distilled[finisher] = "failed"
      BY <2>3 DEF KnowledgeInv
    <3>2. distilled[c] = "no"
      BY <2>2 DEF KnowledgeInv
    <3> QED
      BY <2>2, <3>1, <3>2
  <2> QED
    BY <2>4, <2>5 DEF KnowledgeInv
<1>5. ASSUME NEW c \in Chain, Complete(c) PROVE KnowledgeInv'
  <2>1. /\ stage[c] = "completion" /\ UNCHANGED <<late, wisdom>> /\ Finish(c) /\ NoChainMoves
    BY <1>5 DEF Complete, Handles, Goto, NoChainMoves
  <2> QED
    BY <2>1, FinishKnowledge
<1>6. CASE ByHandCommand
  <2>1. UNCHANGED <<stage, distilled>>
    BY <1>6 DEF ByHandCommand
  <2>2. CASE Verify
    BY <2>1, <2>2 DEF Verify, KnowledgeInv
  <2>3. CASE Import \/ Delegate
    <3>1. NoChainMoves /\ UNCHANGED <<finisher, wisdom>> /\ mission' \in {"active", "validating"}
      BY <2>1, <2>3 DEF Import, Delegate, NoChainMoves
    <3> QED
      BY <3>1, SettledKnowledge
  <2>4. CASE /\ \E result \in {"done", "refused", "failed"} : DistillMission(result)
             /\ UNCHANGED <<finisher, late, files>>
    <3>1. (mission' = mission \/ (mission' = "completed" /\ wisdom')) /\ (wisdom => wisdom')
      BY <2>4 DEF DistillMission
    <3> QED
      BY <2>1, <2>4, <3>1, SettledKnowledge DEF NoChainMoves
  <2>5. CASE Start /\ UNCHANGED <<wisdom, finisher, late, files>>
    BY <2>1, <2>5, StartSettles, SettledKnowledge DEF NoChainMoves
  <2>6. CASE Finish(ByHand) /\ UNCHANGED <<wisdom, late>>
    BY <2>1, <2>6, FinishKnowledge, ChainAssumption DEF NoChainMoves
  <2> QED
    BY <1>6, <2>2, <2>3, <2>4, <2>5, <2>6 DEF ByHandCommand
<1> QED
  BY <1>1, <1>2, <1>3, <1>4, <1>5, <1>6 DEF Next, Worker, Answer

(* A mission is finished without ever having been distilled only by hand,  *)
(* or by a chain whose own distillation failed or came before verify.      *)
THEOREM KnowledgeKept == Spec => []FinishedHasKnowledge
<1>1. TypeOK /\ KnowledgeInv => FinishedHasKnowledge
  BY DEF TypeOK, KnowledgeInv, FinishedHasKnowledge
<1>2. TypeOK /\ KnowledgeInv /\ [Next]_vars => KnowledgeInv'
  BY NextKnowledge
<1> QED
  BY <1>1, <1>2, InitKnowledge, TypeCorrect, PTL DEF Spec
-----------------------------------------------------------------------------
(* Chains go on.  Every step of a chain takes it further in a well-founded *)
(* order, and a live worker takes its next step: what is left of ChainEnds *)
(* is an induction on that order.                                          *)

Position(c) == <<stage[c], at[c], todo[c], untold[c]>>

After == [issue          |-> Stages \ {"issue"},
          prewarm        |-> Stages \ {"issue", "prewarm"},
          kickoff        |-> {"followup", "reconciliation", "distillation", "completion"},
          followup       |-> {"reconciliation", "distillation", "completion"},
          reconciliation |-> {"distillation", "completion"},
          distillation   |-> {"completion"},
          completion     |-> {}]

\* Within a stage; a dispatcher is at await for each of its tasks.
Phase == [idle |-> 0, written |-> 1, run |-> 2, route |-> 3, await |-> 3, read |-> 4,
          tell |-> 5, report |-> 6, end |-> 7, failed |-> 7, dead |-> 7]

Less(S, T) == S \subseteq T /\ S # T

Further(c) ==
    \/ stage'[c] \in After[stage[c]]
    \/ /\ stage'[c] = stage[c]
       /\ \/ Phase[at'[c]] > Phase[at[c]]
          \/ at[c] = "tell" /\ at'[c] = "tell" /\ Less(untold'[c], untold[c])
          \/ /\ {at[c], at'[c]} \subseteq {"route", "await"}
             /\ \/ Less(todo'[c], todo[c])
                \/ at[c] = "route" /\ at'[c] = "await" /\ todo'[c] = todo[c]

\* A chain whose worker has something to do that depends on nobody else.
Working(c) == /\ at[c] \notin {"idle", "await", "end", "failed", "dead"}
              /\ ~Handles(c, "issue", "written")

LEMMA OwnFurther ==
  ASSUME TypeOK, NEW c \in Chain, Confirm(c) \/ Worker(c) \/ Answer(c) \/ Die(c)
  PROVE  Further(c)
<1> USE DEF TypeOK, Further, Goto, Enqueue, Handles
<1>1. CASE Confirm(c) \/ Launch(c) \/ IssueMission(c) \/ Prewarm(c) \/ AskPlanner(c)
  BY <1>1 DEF Confirm, Launch, IssueMission, Prewarm, AskPlanner, Following, After, Phase, Stages
<1>2. CASE PersistPlan(c) \/ Reconciled(c) \/ Distill(c) \/ Complete(c) \/ Report(c)
  BY <1>2 DEF PersistPlan, Reconciled, Distill, Complete, Report, Following, After, Phase, Stages
<1>3. CASE Die(c) \/ Fail(c)
  BY <1>3 DEF Die, Fail, Dispatching, Phase, Points
<1>4. CASE DispatchRead(c) \/ DispatchWrite(c) \/ ReconcileRead(c)
  BY <1>4 DEF DispatchRead, DispatchWrite, ReconcileRead, Following, After, Phase, Stages
<1>5. CASE \E t \in Task : PassOver(c, t) \/ Route(c, t) \/ Answered(c, t)
  BY <1>5 DEF PassOver, Route, Answered, Less, hands
<1>6. CASE \E x \in Task \X Outcomes : Tell(c, x)
  BY <1>6 DEF Tell, Less
<1> QED
  BY <1>1, <1>2, <1>3, <1>4, <1>5, <1>6 DEF Worker, Answer

\* Nobody moves a chain but its own worker, who may fail or die, and its owner.
LEMMA OthersLeaveIt ==
  ASSUME TypeOK, NEW c \in Chain, [Next]_vars
  PROVE  Confirm(c) \/ Worker(c) \/ Answer(c) \/ Die(c) \/ Position(c)' = Position(c)
<1> USE DEF TypeOK, Position, Goto, Enqueue, Drop
<1>1. ASSUME NEW d \in Chain, d # c, Confirm(d) \/ Worker(d) \/ Answer(d) \/ Die(d)
      PROVE  Position(c)' = Position(c)
  <2>1. stage'[c] = stage[c] /\ at'[c] = at[c]
    BY <1>1 DEF Worker, Answer, Confirm, Launch, IssueMission, Prewarm, AskPlanner, PersistPlan,
       Reconciled, Distill, Complete, Report, Die, Fail, DispatchRead, DispatchWrite,
       ReconcileRead, PassOver, Route, Answered, Tell
  <2>2. todo'[c] = todo[c] /\ untold'[c] = untold[c]
    BY <1>1 DEF Worker, Answer, Confirm, Launch, IssueMission, Prewarm, AskPlanner, PersistPlan,
       Reconciled, Distill, Complete, Report, Die, Fail, DispatchRead, DispatchWrite,
       ReconcileRead, PassOver, Route, Answered, Tell, hands
  <2> QED
    BY <2>1, <2>2
<1>2. ASSUME NEW t \in Task, NEW o \in Outcomes, AgentReports(t, o)
      PROVE  Position(c)' = Position(c)
  BY <1>2 DEF AgentReports, hands
<1>3. CASE ByHandCommand \/ UNCHANGED vars
  BY <1>3 DEF ByHandCommand, vars, hands
<1> QED
  BY <1>1, <1>2, <1>3 DEF Next

(* A chain never goes back, whoever fails or dies: its stages come in      *)
(* their order, and a dispatch or a reconciliation only has less to do.    *)
ChainsGoOn == \A c \in Chain : Position(c)' = Position(c) \/ Further(c)

THEOREM ChainsOnlyGoOn == Spec => [][ChainsGoOn]_vars
<1>1. TypeOK /\ [Next]_vars => [ChainsGoOn]_vars
  BY OwnFurther, OthersLeaveIt DEF ChainsGoOn
<1> QED
  BY <1>1, TypeCorrect, PTL DEF Spec

\* ENABLED is out of the provers' reach.
Able == \A c \in Chain : [](Working(c) => ENABLED <<Worker(c)>>_vars)

Live(c) == /\ []TypeOK /\ [][Next]_vars
           /\ Fair(c) /\ [](Working(c) => ENABLED <<Worker(c)>>_vars)

LEMMA ChainLives ==
  ASSUME NEW c \in Chain
  PROVE  FairSpec /\ Able => Live(c)
<1>1. FairSpec => Fair(c)
  BY DEF FairSpec
<1>2. Able => [](Working(c) => ENABLED <<Worker(c)>>_vars)
  BY DEF Able
<1> QED
  BY <1>1, <1>2, TypeCorrect, PTL DEF FairSpec, Spec, Live

LEMMA FurtherIsElsewhere ==
  ASSUME TypeOK, NEW c \in Chain, Further(c)
  PROVE  Position(c)' # Position(c)
BY DEF Further, Position, Less, TypeOK, After, Phase, Stages, Points

(* A worker that waits for nobody takes its next step, or dies.            *)
THEOREM WorkersMove ==
  ASSUME NEW c \in Chain, NEW x
  PROVE  FairSpec /\ Able => (Working(c) /\ Position(c) = x ~> Position(c) # x)
<1> DEFINE Here == Position(c) = x
<1>1. TypeOK /\ Here /\ <<Worker(c)>>_vars => ~Here'
  BY OwnFurther, FurtherIsElsewhere
<1>2. Here /\ Working(c) => (Here' => Working(c)')
  BY DEF Position, Working, Handles
<1>3. Here <=> ~(Position(c) # x)
  OBVIOUS
<1> HIDE DEF Here
<1>4. Live(c) => (Working(c) /\ Here ~> ~Here)
  BY <1>1, <1>2, PTL DEF Live, Fair
<1> QED
  BY <1>3, <1>4, ChainLives, PTL

\* The tail of a chain, point by point.
At(c, s, here) == stage[c] = s /\ at[c] = here

Dead(c) == at[c] = "dead"

TailInv ==
    \A c \in Chain :
        /\ stage[c] = "distillation" => at[c] \in {"written", "run", "dead"}
        /\ stage[c] = "completion" => at[c] \in {"written", "run", "report", "end", "dead"}

LEMMA TailStep ==
  ASSUME TypeOK, TailInv, NEW c \in Chain, Confirm(c) \/ Worker(c) \/ Answer(c) \/ Die(c)
  PROVE  /\ stage'[c] = "distillation" => at'[c] \in {"written", "run", "dead"}
         /\ stage'[c] = "completion" => at'[c] \in {"written", "run", "report", "end", "dead"}
BY DEF TailInv, TypeOK, Goto, Enqueue, Handles, Worker, Answer, Confirm, Launch, IssueMission,
   Prewarm, AskPlanner, PersistPlan, Reconciled, Distill, Complete, Report, Die, Fail,
   Dispatching, DispatchRead, DispatchWrite, ReconcileRead, PassOver, Route, Answered, Tell,
   Following, Stages

LEMMA TailAlways == Spec => []TailInv
<1>1. Init => TailInv
  BY DEF Init, TailInv
<1>2. TypeOK /\ TailInv /\ [Next]_vars => TailInv'
  <2> SUFFICES ASSUME TypeOK, TailInv, [Next]_vars, NEW c \in Chain
               PROVE  /\ stage'[c] = "distillation" => at'[c] \in {"written", "run", "dead"}
                      /\ stage'[c] = "completion" =>
                            at'[c] \in {"written", "run", "report", "end", "dead"}
    BY DEF TailInv
  <2>1. CASE Position(c)' = Position(c)
    BY <2>1 DEF Position, TailInv
  <2> QED
    BY <2>1, TailStep, OthersLeaveIt
<1> QED
  BY <1>1, <1>2, TypeCorrect, PTL DEF Spec

\* The next point of a chain that has its own way to go.
LEMMA TailMoves ==
  ASSUME TypeOK, TailInv, NEW c \in Chain, Confirm(c) \/ Worker(c) \/ Answer(c) \/ Die(c)
  PROVE  /\ At(c, "distillation", "written") => At(c, "distillation", "run")' \/ Dead(c)'
         /\ At(c, "distillation", "run") => At(c, "completion", "written")' \/ Dead(c)'
         /\ At(c, "completion", "written") => At(c, "completion", "run")' \/ Dead(c)'
         /\ At(c, "completion", "run") => At(c, "completion", "report")' \/ Dead(c)'
         /\ At(c, "completion", "report") => At(c, "completion", "end")' \/ Dead(c)'
<1>1. ASSUME NEW s \in {"distillation", "completion"}, NEW here, At(c, s, here)
      PROVE  Launch(c) \/ Distill(c) \/ Complete(c) \/ Report(c) \/ Die(c)
  BY <1>1 DEF At, TailInv, TypeOK, Handles, Worker, Answer, Confirm, IssueMission, Prewarm,
     AskPlanner, PersistPlan, Reconciled, Fail, Dispatching, DispatchRead, DispatchWrite,
     ReconcileRead, PassOver, Route, Answered, Tell
<1>2. CASE Launch(c) \/ Die(c)
  BY <1>2 DEF At, Dead, TypeOK, Goto, Launch, Die
<1>3. CASE Distill(c) \/ Complete(c) \/ Report(c)
  BY <1>3 DEF At, TypeOK, Goto, Enqueue, Handles, Distill, Complete, Report, Following
<1> QED
  BY <1>1, <1>2, <1>3

(* A chain that has come to distillation ends with its report, if nobody   *)
(* kills its worker: neither a distillation nor a finish that is refused   *)
(* or fails stops it.                                                      *)
THEOREM DistillingEnds ==
  ASSUME NEW c \in Chain
  PROVE  FairSpec /\ Able =>
            (stage[c] = "distillation" ~> at[c] = "end" \/ at[c] = "dead")
<1> DEFINE P1 == At(c, "distillation", "written")
           P2 == At(c, "distillation", "run")
           P3 == At(c, "completion", "written")
           P4 == At(c, "completion", "run")
           P5 == At(c, "completion", "report")
           P6 == At(c, "completion", "end")
           Mine == Confirm(c) \/ Worker(c) \/ Answer(c) \/ Die(c)
           Inv == TypeOK /\ TailInv
<1>1. /\ Inv /\ P1 /\ Mine => P2' \/ Dead(c)'
      /\ Inv /\ P2 /\ Mine => P3' \/ Dead(c)'
      /\ Inv /\ P3 /\ Mine => P4' \/ Dead(c)'
      /\ Inv /\ P4 /\ Mine => P5' \/ Dead(c)'
      /\ Inv /\ P5 /\ Mine => P6' \/ Dead(c)'
  BY TailMoves
<1>2. Inv /\ [Next]_vars =>
         \/ Mine
         \/ /\ (P1 => P1') /\ (P2 => P2') /\ (P3 => P3') /\ (P4 => P4') /\ (P5 => P5')
  BY OthersLeaveIt DEF Position, At
<1>3. P1 \/ P2 \/ P3 \/ P4 \/ P5 => Working(c)
  BY DEF At, Working, Handles
<1>4. Worker(c) => Mine
  OBVIOUS
<1>5. Inv /\ stage[c] = "distillation" => P1 \/ P2 \/ Dead(c)
  BY DEF TailInv, At, Dead
<1>6. (P6 => at[c] = "end") /\ (Dead(c) => at[c] = "dead")
  BY DEF At, Dead
<1>7. FairSpec => []Inv
  BY TypeCorrect, TailAlways, PTL DEF FairSpec
<1> HIDE DEF P1, P2, P3, P4, P5, P6, Mine, Inv
<1> QED
  BY <1>1, <1>2, <1>3, <1>4, <1>5, <1>6, <1>7, ChainLives, PTL DEF Live, Fair
=============================================================================
