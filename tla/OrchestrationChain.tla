------------------------- MODULE OrchestrationChain -------------------------
(***************************************************************************)
(* The orchestration of one mission: libs/core/mission-orchestration-      *)
(* events.ts and mission-orchestration-worker.ts.                          *)
(*                                                                         *)
(* A confirmed proposal starts a chain of events.  Each event is a file,   *)
(* and a detached process of its own, started once, that handles it, writes*)
(* the next event and starts its worker.  A mission id is built from the   *)
(* thread and the proposal, so a proposal confirmed again, or a surface    *)
(* that dies before it clears it, makes a second chain for the mission.    *)
(*                                                                         *)
(* The workers share NEXT_TASKS.json and task-events.jsonl in the mission  *)
(* directory with each other and with the agents, and no lock: follow-up   *)
(* reads the tasks, awaits an agent for each of them, and writes all of    *)
(* them back; a reconciliation reads both files and then appends.          *)
(*                                                                         *)
(* mission_controller is a child process; its commands are one step here   *)
(* and module MissionLifecycle looks into them.                            *)
(***************************************************************************)
EXTENDS MissionStatus, Naturals

CONSTANTS
    Chain,          \* confirmations of a proposal for the mission
    Task,           \* the task ids the planner gives; plans use the same ones
    Outcomes,       \* the statuses with which agents report a task
    Commands,       \* the commands people give by hand
    MaxDeaths,      \* bound on the workers that die
    NoTasks,        \* there is no NEXT_TASKS.json
    ByHand, Nobody  \* who finished the mission, other than a chain

Stages == {"issue", "prewarm", "kickoff", "followup", "reconciliation",
           "distillation", "completion"}

\* Variant: reconciliation goes on to completion.
Mutant_FollowingSkips == [issue          |-> "prewarm",
                          prewarm        |-> "kickoff",
                          kickoff        |-> "followup",
                          followup       |-> "reconciliation",
                          reconciliation |-> "completion",
                          distillation   |-> "completion"]

\* The event each handler enqueues when it is through.
Following == [issue          |-> "prewarm",
              prewarm        |-> "kickoff",
              kickoff        |-> "followup",
              followup       |-> "reconciliation",
              reconciliation |-> "distillation",
              distillation   |-> "completion"]

TaskStatus == {"none", "planned", "blocked", "requested"} \cup Outcomes

\* by is history: the chain whose kickoff has written the plan.
Plans == [by : Chain, st : [Task -> TaskStatus]]

ASSUME ChainAssumption ==
    /\ Outcomes \subseteq {"reviewed", "completed", "accepted"}
    /\ Commands \subseteq {"start", "verify", "import", "delegate", "distill", "finish"}
    /\ MaxDeaths \in Nat
    /\ NoTasks \notin Plans
    /\ ByHand \notin Chain /\ Nobody \notin Chain /\ ByHand # Nobody

VARIABLES
    stage, at,      \* the last event of each chain, and how far it is
    mission,        \* the status of the mission
    wisdom,         \* its knowledge was distilled into a file
    finisher,       \* who last took it out of distilling without distilling it
    late,           \* history: chains that had done their distillation when the
                    \* mission was verified
    distilled,      \* how the distillation of a chain went
    board,          \* TASK_BOARD.md is there
    tasks,          \* NEXT_TASKS.json
    copy, todo,     \* what a dispatcher has read of it, and has yet to delegate
    log,            \* the outcomes in task-events.jsonl
    untold,         \* the outcomes a reconciliation is going to append
    deaths,         \* workers that have died
    sent,           \* history: the tasks asked of agents: dispatcher, plan, task
    gaveUp,         \* history: dispatchers that stopped before they wrote their marks
    kept,           \* history: outcomes reported while no dispatcher held a copy
    twice,          \* history: chains that appended what was there already
    overlapped      \* history: chains that worked on the files at the same time

files == <<board, tasks, log>>
life == <<mission, wisdom, finisher, late>>
hands == <<copy, todo, untold>>
history == <<sent, gaveUp, kept, twice, overlapped>>
vars == <<stage, at, mission, wisdom, finisher, late, distilled, board, tasks, copy, todo,
          log, untold, deaths, sent, gaveUp, kept, twice, overlapped>>

\* idle: not confirmed; written: the event is in its file, its worker not started.
Points == {"idle", "written", "run", "route", "await", "read", "tell",
           "report", "end", "failed", "dead"}

(* Files, chains and histories are what the code can make of them; a       *)
(* dispatcher that awaits an agent has a plan in hand, and three stages    *)
(* reconcile.                                                              *)
TypeOK ==
    /\ stage \in [Chain -> Stages] /\ at \in [Chain -> Points]
    /\ mission \in Statuses /\ wisdom \in BOOLEAN
    /\ finisher \in Chain \cup {ByHand, Nobody} /\ late \subseteq Chain
    /\ distilled \in [Chain -> {"no", "done", "refused", "failed"}]
    /\ board \in BOOLEAN /\ tasks \in Plans \cup {NoTasks}
    /\ copy \in [Chain -> Plans \cup {NoTasks}]
    /\ todo \in [Chain -> SUBSET Task]
    /\ log \subseteq Task \X Outcomes
    /\ untold \in [Chain -> SUBSET (Task \X Outcomes)]
    /\ deaths \in 0..MaxDeaths
    /\ sent \subseteq Chain \X Chain \X Task
    /\ kept \subseteq Chain \X Task
    /\ gaveUp \subseteq Chain /\ twice \subseteq Chain /\ overlapped \subseteq Chain
    /\ \A c \in Chain :
          /\ stage[c] = "followup" /\ at[c] \in {"route", "await"} => copy[c] # NoTasks
          /\ at[c] = "tell" => stage[c] \in {"kickoff", "followup", "reconciliation"}

Init ==
    /\ stage = [c \in Chain |-> "issue"] /\ at = [c \in Chain |-> "idle"]
    /\ mission = "planned" /\ wisdom = FALSE /\ finisher = Nobody /\ late = {}
    /\ distilled = [c \in Chain |-> "no"]
    /\ board = TRUE /\ tasks = NoTasks /\ log = {}
    /\ copy = [c \in Chain |-> NoTasks]
    /\ todo = [c \in Chain |-> {}] /\ untold = [c \in Chain |-> {}]
    /\ deaths = 0
    /\ sent = {} /\ gaveUp = {} /\ kept = {} /\ twice = {} /\ overlapped = {}
-----------------------------------------------------------------------------
Goto(c, there) == at' = [at EXCEPT ![c] = there] /\ UNCHANGED stage

\* What a worker has read is gone, or of no further use.
Drop(c) == /\ copy' = [copy EXCEPT ![c] = NoTasks]
           /\ todo' = [todo EXCEPT ![c] = {}]
           /\ untold' = [untold EXCEPT ![c] = {}]

\* The handler is through and has written the next event.
Enqueue(c) == /\ stage' = [stage EXCEPT ![c] = Following[stage[c]]]
              /\ at' = [at EXCEPT ![c] = "written"]

Handles(c, s, here) == stage[c] = s /\ at[c] = here

Dispatching(c) == stage[c] = "followup" /\ at[c] \in {"route", "await"}

\* Between a read of the shared files and what is written because of it.
InHand(c) == Dispatching(c) \/ at[c] = "tell"

\* c begins to work on the files.
Meet(c) == LET others == {d \in Chain \ {c} : InHand(d)} IN
           overlapped' = IF others = {} THEN overlapped
                         ELSE overlapped \cup others \cup {c}

\* mission_controller start: an invalid transition is only logged.
Start == mission' = IF isValidTransition(mission, "active") THEN "active" ELSE mission

\* mission_controller finish by who: it refuses, stops on its way, or archives, which
\* takes the directory with its files away.
Finish(who) ==
    \/ UNCHANGED <<mission, finisher, files>>
    \/ /\ mission \in {"distilling", "completed"} /\ mission' \in {"completed", "archived"}
       /\ finisher' = IF mission = "distilling" THEN who ELSE finisher
       /\ IF mission' = "archived" THEN board' = FALSE /\ tasks' = NoTasks /\ log' = {}
          ELSE UNCHANGED files

\* mission_controller distill.  From validating the file is written and the transition
\* fails; any other status but distilling is refused, which the caller does not notice;
\* and it may fail before the file, after it, or when the state is saved.
DistillMission(result) ==
    \/ /\ result \in {"done", "failed"} /\ mission = "distilling"
       /\ wisdom' = TRUE /\ mission' = "completed"
    \/ /\ result = "refused" /\ mission \notin {"distilling", "validating"}
       /\ UNCHANGED <<wisdom, mission>>
    \/ /\ result = "failed" /\ UNCHANGED mission
       /\ \/ UNCHANGED wisdom
          \/ mission \in {"distilling", "validating"} /\ wisdom' = TRUE
-----------------------------------------------------------------------------
(* Events and workers.                                                     *)

\* A surface starts the mission, writes the first event and starts its worker.
Confirm(c) ==
    /\ at[c] = "idle"
    /\ Start
    /\ \E there \in {"written", "run"} : Goto(c, there)
    /\ UNCHANGED <<wisdom, finisher, late, distilled, files, hands, deaths, history>>

\* The worker that wrote the event starts the next; what it does after that, ending
\* the runtimes of its own process, changes nothing here.
Launch(c) ==
    /\ at[c] = "written" /\ stage[c] # "issue"
    /\ Goto(c, "run")
    /\ UNCHANGED <<life, distilled, files, hands, deaths, history>>

\* A dispatcher that stops loses the marks it has not written.
Abandon(c) == gaveUp' = IF Dispatching(c) THEN gaveUp \cup {c} ELSE gaveUp

\* A worker dies, and nobody looks at its event again.
Die(c) ==
    /\ at[c] \notin {"idle", "end", "failed", "dead"} /\ deaths < MaxDeaths
    /\ ~Handles(c, "issue", "written")
    /\ deaths' = deaths + 1
    /\ Goto(c, "dead") /\ Drop(c) /\ Abandon(c)
    /\ UNCHANGED <<life, distilled, files, sent, kept, twice, overlapped>>

\* An error: the event is reported as failed, and not retried.  A command, an agent or
\* the mediator fails; or a file is gone that was there a moment ago, or half written.
Fail(c) ==
    /\ stage[c] \notin {"distillation", "completion"}
    /\ at[c] \in {"run", "route", "await", "read", "tell"}
    /\ Goto(c, "failed") /\ Drop(c) /\ Abandon(c)
    /\ UNCHANGED <<life, distilled, files, deaths, sent, kept, twice, overlapped>>
-----------------------------------------------------------------------------
(* issue, prewarm, kickoff.                                                *)

IssueMission(c) ==
    /\ Handles(c, "issue", "run")
    /\ Start
    /\ Enqueue(c)
    /\ UNCHANGED <<wisdom, finisher, late, distilled, files, hands, deaths, history>>

Prewarm(c) ==
    /\ Handles(c, "prewarm", "run")
    /\ Enqueue(c)
    /\ UNCHANGED <<life, distilled, files, hands, deaths, history>>

AskPlanner(c) ==
    /\ Handles(c, "kickoff", "run")
    /\ Goto(c, "await")
    /\ UNCHANGED <<life, distilled, files, hands, deaths, history>>

\* persistPlanningPacket: whatever tasks there were are overwritten.
PersistPlan(c) ==
    /\ Handles(c, "kickoff", "await")
    /\ \E S \in SUBSET Task \ {{}} :
          tasks' = [by |-> c, st |-> [t \in Task |-> IF t \in S THEN "planned" ELSE "none"]]
    /\ Goto(c, "read")
    /\ UNCHANGED <<life, distilled, board, log, hands, deaths, history>>
-----------------------------------------------------------------------------
(* dispatchMissionNextTasks.                                               *)

\* Variant: requested tasks are taken again.
Mutant_PlannedAgain(plan) == {t \in Task : plan.st[t] \in {"planned", "requested"}}

\* Variant: only blocked tasks are left out.
Mutant_PlannedAll(plan) == {t \in Task : plan.st[t] \notin {"none", "blocked"}}

Planned(plan) == {t \in Task : plan.st[t] = "planned"}

DispatchRead(c) ==
    /\ Handles(c, "followup", "run")
    /\ IF tasks = NoTasks \/ (tasks # NoTasks /\ Planned(tasks) = {})
       THEN Enqueue(c) /\ UNCHANGED <<copy, todo, overlapped>>
       ELSE /\ copy' = [copy EXCEPT ![c] = tasks]
            /\ todo' = [todo EXCEPT ![c] = Planned(tasks)]
            /\ Meet(c)
            /\ Goto(c, "route")
    /\ UNCHANGED <<life, distilled, files, untold, deaths, sent, gaveUp, kept, twice>>

\* Variant: a task that is passed over gets a status of its own.
Mutant_PassOverStatus(c, t) ==
    /\ Handles(c, "followup", "route") /\ t \in todo[c]
    /\ todo' = [todo EXCEPT ![c] = @ \ {t}]
    /\ copy' = [copy EXCEPT ![c].st[t] = "skipped"]
    /\ UNCHANGED <<stage, at, life, distilled, files, untold, deaths, history>>

\* No role or no receiver: left as it is.  The preflight blocks it: marked.
PassOver(c, t) ==
    /\ Handles(c, "followup", "route") /\ t \in todo[c]
    /\ todo' = [todo EXCEPT ![c] = @ \ {t}]
    /\ copy' \in {copy, [copy EXCEPT ![c].st[t] = "blocked"]}
    /\ UNCHANGED <<stage, at, life, distilled, files, untold, deaths, history>>

Route(c, t) ==
    /\ Handles(c, "followup", "route") /\ t \in todo[c]
    /\ sent' = sent \cup {<<c, copy[c].by, t>>}
    /\ Goto(c, "await")
    /\ UNCHANGED <<life, distilled, files, hands, deaths, gaveUp, kept, twice, overlapped>>

\* The agent has answered, and the task is marked.
Answered(c, t) ==
    /\ Handles(c, "followup", "await")
    /\ t \in todo[c] /\ <<c, copy[c].by, t>> \in sent
    /\ todo' = [todo EXCEPT ![c] = @ \ {t}]
    /\ copy' = [copy EXCEPT ![c].st[t] = "requested"]
    /\ Goto(c, "route")
    /\ UNCHANGED <<life, distilled, files, untold, deaths, history>>

\* writeNextTasks writes all that was read, with the marks.
DispatchWrite(c) ==
    /\ Handles(c, "followup", "route") /\ todo[c] = {}
    /\ tasks' = copy[c]
    /\ Goto(c, "read") /\ Drop(c)
    /\ UNCHANGED <<life, distilled, board, log, deaths, history>>
-----------------------------------------------------------------------------
(* reconcileMissionProgress, at the end of kickoff and follow-up and in    *)
(* reconciliation, whose reports to the owner only read.                   *)

Reported(plan) == {x \in Task \X Outcomes : plan.st[x[1]] = x[2]}

\* Variant: what the log has already is not left out.
Mutant_ReconcileAll(c) ==
    /\ \/ stage[c] \in {"kickoff", "followup"} /\ at[c] = "read"
       \/ Handles(c, "reconciliation", "run")
    /\ IF ~board \/ tasks = NoTasks
       THEN Enqueue(c) /\ UNCHANGED <<untold, overlapped>>
       ELSE /\ untold' = [untold EXCEPT ![c] = Reported(tasks)]
            /\ Meet(c)
            /\ Goto(c, "tell")
    /\ UNCHANGED <<life, distilled, files, copy, todo, deaths, sent, gaveUp, kept, twice>>

\* Without a task board, as after the mission was archived, there is nothing to do.
ReconcileRead(c) ==
    /\ \/ stage[c] \in {"kickoff", "followup"} /\ at[c] = "read"
       \/ Handles(c, "reconciliation", "run")
    /\ IF ~board \/ tasks = NoTasks
       THEN Enqueue(c) /\ UNCHANGED <<untold, overlapped>>
       ELSE /\ untold' = [untold EXCEPT ![c] = Reported(tasks) \ log]
            /\ Meet(c)
            /\ Goto(c, "tell")
    /\ UNCHANGED <<life, distilled, files, copy, todo, deaths, sent, gaveUp, kept, twice>>

\* emitMissionTaskEvent appends one outcome.
Tell(c, x) ==
    /\ at[c] = "tell" /\ x \in untold[c]
    /\ log' = log \cup {x}
    /\ twice' = IF x \in log THEN twice \cup {c} ELSE twice
    /\ untold' = [untold EXCEPT ![c] = @ \ {x}]
    /\ UNCHANGED <<stage, at, life, distilled, board, tasks, copy, todo, deaths, sent, gaveUp,
                   kept, overlapped>>

Reconciled(c) ==
    /\ at[c] = "tell" /\ untold[c] = {}
    /\ Enqueue(c)
    /\ UNCHANGED <<life, distilled, files, hands, deaths, history>>
-----------------------------------------------------------------------------
(* distillation and completion: errors of the command are reported, and    *)
(* the chain goes on.                                                      *)

\* Variant: an error of the command fails the event.
Mutant_DistillThrows(c) ==
    /\ Handles(c, "distillation", "run")
    /\ \E result \in {"done", "refused", "failed"} :
          /\ DistillMission(result)
          /\ distilled' = [distilled EXCEPT ![c] = result]
          /\ IF result = "failed" THEN Goto(c, "failed") ELSE Enqueue(c)
    /\ UNCHANGED <<finisher, late, files, hands, deaths, history>>

Distill(c) ==
    /\ Handles(c, "distillation", "run")
    /\ \E result \in {"done", "refused", "failed"} :
          /\ DistillMission(result)
          /\ distilled' = [distilled EXCEPT ![c] = result]
    /\ Enqueue(c)
    /\ UNCHANGED <<finisher, late, files, hands, deaths, history>>

Complete(c) ==
    /\ Handles(c, "completion", "run")
    /\ Finish(c)
    /\ Goto(c, "report")
    /\ UNCHANGED <<wisdom, late, distilled, hands, deaths, history>>

\* "Mission ... lifecycle completed." goes to the outboxes in any case.
Report(c) ==
    /\ at[c] = "report"
    /\ Goto(c, "end")
    /\ UNCHANGED <<life, distilled, files, hands, deaths, history>>
-----------------------------------------------------------------------------
(* Agents, people and Chronos.                                             *)

\* An agent that was asked reports its task in NEXT_TASKS.json.
AgentReports(t, o) ==
    /\ tasks # NoTasks
    /\ \E c \in Chain : <<c, tasks.by, t>> \in sent
    /\ tasks.st[t] # o
    /\ tasks' = [tasks EXCEPT !.st[t] = o]
    /\ kept' = IF \E c \in Chain : Dispatching(c) THEN kept
               ELSE kept \cup {<<tasks.by, t>>}
    /\ UNCHANGED <<stage, at, life, distilled, board, log, hands, deaths, sent, gaveUp, twice,
                   overlapped>>

\* The mission goes to distilling, or back to work.
Verify ==
    /\ mission \in {"active", "validating"}
    /\ \/ /\ mission' = "distilling"
          /\ late' = late \cup {c \in Chain : stage[c] = "completion"}
       \/ mission' = "active" /\ UNCHANGED late
    /\ UNCHANGED <<wisdom, finisher, files>>

\* An invalid transition is swallowed.
Import ==
    /\ isValidTransition(mission, "validating") /\ mission' = "validating"
    /\ UNCHANGED <<wisdom, finisher, late, files>>

\* Any mission there is, whatever the table says.
Delegate ==
    /\ mission # "planned" /\ mission' = "active"
    /\ UNCHANGED <<wisdom, finisher, late, files>>

\* The owner of the mission types a command; start and finish are also asked for in
\* Chronos, and mission_control_requested has a worker of its own.
ByHandCommand ==
    /\ \/ "verify" \in Commands /\ Verify
       \/ "import" \in Commands /\ Import
       \/ "delegate" \in Commands /\ Delegate
       \/ /\ "distill" \in Commands
          /\ \E result \in {"done", "refused", "failed"} : DistillMission(result)
          /\ UNCHANGED <<finisher, late, files>>
       \/ "start" \in Commands /\ Start /\ UNCHANGED <<wisdom, finisher, late, files>>
       \/ "finish" \in Commands /\ Finish(ByHand) /\ UNCHANGED <<wisdom, late>>
    /\ UNCHANGED <<stage, at, distilled, hands, deaths, history>>

Worker(c) ==
    \/ Launch(c)
    \/ IssueMission(c) \/ Prewarm(c) \/ AskPlanner(c)
    \/ DispatchRead(c) \/ DispatchWrite(c)
    \/ \E t \in Task : PassOver(c, t) \/ Route(c, t)
    \/ ReconcileRead(c) \/ Reconciled(c)
    \/ \E x \in Task \X Outcomes : Tell(c, x)
    \/ Distill(c) \/ Complete(c) \/ Report(c)

\* What a worker gets from agents and from what else can fail.
Answer(c) == \/ PersistPlan(c) \/ Fail(c)
             \/ \E t \in Task : Answered(c, t)

Next == \/ \E c \in Chain : Confirm(c) \/ Worker(c) \/ Answer(c) \/ Die(c)
        \/ \E t \in Task, o \in Outcomes : AgentReports(t, o)
        \/ ByHandCommand

Spec == Init /\ [][Next]_vars

\* A live worker goes on; nothing is assumed of agents, surfaces and people.
Fair(c) == WF_vars(Worker(c))

FairSpec == Spec /\ \A c \in Chain : Fair(c)
-----------------------------------------------------------------------------
(* A task of a plan is asked of agents twice only when a dispatcher gave   *)
(* up, or two workers had the files in hand at the same time.              *)
RepeatsHaveCause ==
    \A c, d, a \in Chain, t \in Task :
        c # d /\ <<c, a, t>> \in sent /\ <<d, a, t>> \in sent =>
            \E e \in {c, d} : e \in gaveUp \/ e \in overlapped

(* An outcome that an agent reported while no dispatch was under way stays *)
(* in the file as long as its plan does.                                   *)
OutcomeKept ==
    tasks # NoTasks =>
        \A t \in Task : <<tasks.by, t>> \in kept => tasks.st[t] \in Outcomes

(* An outcome is appended to the task events once, unless two workers had  *)
(* the files in hand at the same time.                                     *)
ToldOnce == twice \subseteq overlapped

(* A mission is completed or archived without ever having been distilled   *)
(* only when somebody finished it by hand, or a chain did whose own        *)
(* distillation had failed, or was over when the mission was verified.     *)
FinishedHasKnowledge ==
    mission \in {"completed", "archived"} /\ ~wisdom =>
        \/ finisher = ByHand
        \/ finisher \in late
        \/ finisher \in Chain /\ distilled[finisher] = "failed"

Stuck(c) == \/ at[c] = "dead"
            \/ Handles(c, "issue", "written")
            \/ at[c] = "failed" /\ stage[c] \notin {"distillation", "completion"}

(* A confirmed proposal comes to its report, unless a worker dies, one of  *)
(* the first five fails, or an agent never answers: no failure of distill  *)
(* or finish stops it.                                                     *)
ChainEnds ==
    \A c \in Chain :
        at[c] # "idle" ~> \/ at[c] = "end" \/ Stuck(c)
                          \/ <>[](at[c] = "await")
=============================================================================
