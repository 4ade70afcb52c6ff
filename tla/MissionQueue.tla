---------------------------- MODULE MissionQueue ----------------------------
(***************************************************************************)
(* The dispatch queue of scripts/refactor/mission-queue.ts: a JSONL file   *)
(* that enqueue appends to and dispatch rewrites, both under the lock      *)
(* "mission-queue".  dispatch marks an entry and only then, still inside   *)
(* the lock, calls startMission, whose errors are logged and swallowed.    *)
(* start and create are also issued by hand, without the queue lock.       *)
(*                                                                         *)
(* The lock is that of module FileLock: after a death it may stay blank,   *)
(* and two processes may get in.  Missions have a status and what they     *)
(* need; module MissionLifecycle says more about how they move.            *)
(***************************************************************************)
EXTENDS FileLock, Naturals, Sequences

CONSTANTS
    Mission,
    Prereq,         \* the prerequisites a mission is given by hand
    NoJob,          \* a process that starts or creates no mission
    Priorities,     \* the priorities given to enqueue
    Deps,           \* the dependency lists given to enqueue
    InitStatus,     \* the statuses missions have when the model starts
    ByHand,         \* what is done by hand beside the queue
    MaxEntries,     \* bound on the entries enqueued
    MaxCrashes      \* bound on the processes that die

\* A call of startMission or, with only, of createMission: the prerequisites it
\* was given or has read, and whether --force is on the command line.
Jobs == [mission : Mission, rel : SUBSET Mission, force : BOOLEAN, only : BOOLEAN]

ASSUME QueueAssumption ==
    /\ Prereq \in [Mission -> SUBSET Mission]
    /\ Priorities \subseteq Nat
    /\ Deps \subseteq SUBSET Mission
    /\ InitStatus \subseteq {"none", "planned"}
    /\ ByHand \subseteq {"start", "create", "force", "delegate"}
    /\ MaxEntries \in Nat /\ MaxCrashes \in Nat
    /\ NoJob \notin Jobs

\* MissionQueueEntry; at orders the enqueued_at times.
Entries == [mission : Mission, priority : Priorities, deps : Deps, at : 1..MaxEntries,
            status : {"pending", "dispatched"}]

\* The command line of a process may say --force.
Forces == IF "force" \in ByHand THEN BOOLEAN ELSE {FALSE}

MissionStatuses == {"none", "planned", "active", "completed", "archived"}

VARIABLES
    queue,      \* mission_queue.jsonl
    pc,         \* where each process is
    work,       \* by process: the entry to append, the queue it has read, or the
                \* entry it has marked; nothing when it works by hand
    job,        \* by process: the mission it starts or creates
    clock,      \* entries built so far
    status,     \* the status of each mission
    needs,      \* relationships.prerequisites of each mission
    done,       \* history: missions that have been completed
    irregular,  \* history: missions activated by --force or delegate, or that two
                \* commands were starting or creating at a time
    crashes

vars == <<queue, lockVars, pc, work, job, clock, status, needs, done, irregular, crashes>>
missions == <<status, needs, done, irregular>>

\* Inside startMission or createMission, from its first read of the mission on.
Middle == {"create", "write", "reload", "save"}

PCs == {"idle", "enqueue", "append", "dispatch", "read", "scan", "load", "make"} \cup Middle

(* Entries are pending or dispatched, nothing else; a process that enqueues *)
(* has exactly one entry in hand.                                          *)
TypeOK ==
    /\ queue \in Seq(Entries)
    /\ LockOK
    /\ pc \in [Proc -> PCs]
    /\ work \in [Proc -> Seq(Entries)]
    /\ \A p \in Proc : pc[p] \in {"enqueue", "append"} => Len(work[p]) = 1
    /\ job \in [Proc -> Jobs \cup {NoJob}]
    /\ \A p \in Proc : pc[p] \in Middle \cup {"load", "make"} => job[p] \in Jobs
    /\ clock \in 0..MaxEntries
    /\ status \in [Mission -> MissionStatuses]
    /\ needs \in [Mission -> SUBSET Mission]
    /\ done \subseteq Mission /\ irregular \subseteq Mission
    /\ crashes \in 0..MaxCrashes

Init ==
    /\ queue = <<>> /\ clock = 0 /\ crashes = 0
    /\ LockInit
    /\ pc = [p \in Proc |-> "idle"]
    /\ work = [p \in Proc |-> <<>>]
    /\ job = [p \in Proc |-> NoJob]
    /\ status \in [Mission -> InitStatus]
    /\ needs = [m \in Mission |-> IF status[m] = "none" THEN {} ELSE Prereq[m]]
    /\ done = {} /\ irregular = {}

\* Process p goes on at there, with w to work on.
Goto(p, there, w) ==
    /\ pc' = [pc EXCEPT ![p] = there]
    /\ work' = [work EXCEPT ![p] = w]

\* The command ends, outside the lock or before it was taken.
Return(p) == Goto(p, "idle", <<>>) /\ job' = [job EXCEPT ![p] = NoJob]

\* The command ends and withLock releases the lock.
Leave(p) == Return(p) /\ LetGo(p)

-----------------------------------------------------------------------------
(* enqueueMission.                                                         *)

\* The entry is built, and dated, before the lock is taken.
Enqueue(p) ==
    /\ pc[p] = "idle" /\ clock < MaxEntries
    /\ clock' = clock + 1
    /\ \E m \in Mission, n \in Priorities, d \in Deps :
          Goto(p, "enqueue", <<[mission |-> m, priority |-> n, deps |-> d,
                                at |-> clock + 1, status |-> "pending"]>>)
    /\ UNCHANGED <<queue, lockVars, job, missions, crashes>>

AppendEntry(p) ==
    /\ pc[p] = "append"
    /\ queue' = queue \o work[p]
    /\ Leave(p)
    /\ UNCHANGED <<clock, missions, crashes>>

-----------------------------------------------------------------------------
(* The lock.                                                               *)

\* Variant: dispatch works without the lock.
Mutant_DispatchWithoutLock(p) ==
    /\ pc[p] \in {"enqueue", "dispatch"}
    /\ IF pc[p] = "enqueue" THEN Take(p) ELSE UNCHANGED lockVars
    /\ Goto(p, IF pc[p] = "enqueue" THEN "append" ELSE "read", work[p])
    /\ UNCHANGED <<queue, job, clock, missions, crashes>>

Acquire(p) ==
    /\ pc[p] \in {"enqueue", "dispatch"}
    /\ Take(p)
    /\ Goto(p, IF pc[p] = "enqueue" THEN "append" ELSE "read", work[p])
    /\ UNCHANGED <<queue, job, clock, missions, crashes>>

PurgeStale(p) ==
    /\ pc[p] \in {"enqueue", "dispatch"}
    /\ Purge
    /\ UNCHANGED <<queue, pc, work, job, clock, missions, crashes>>

\* withLock throws LOCK_TIMEOUT, or the error of the unlink.
LockTimeout(p) ==
    /\ pc[p] \in {"enqueue", "dispatch"}
    /\ GiveUp
    /\ Return(p)
    /\ UNCHANGED <<queue, clock, missions, crashes>>

PurgeError(p) ==
    /\ pc[p] \in {"enqueue", "dispatch"}
    /\ LosePurge
    /\ Return(p)
    /\ UNCHANGED <<queue, clock, missions, crashes>>

-----------------------------------------------------------------------------
(* dispatchNextQueuedMission.                                              *)

Dispatch(p) ==
    /\ pc[p] = "idle"
    /\ Goto(p, "dispatch", <<>>)
    /\ UNCHANGED <<queue, lockVars, job, clock, missions, crashes>>

\* Nothing to do when no entry is pending.
DispatchRead(p) ==
    /\ pc[p] = "read"
    /\ IF \E i \in DOMAIN queue : queue[i].status = "pending"
       THEN Goto(p, "scan", queue) /\ UNCHANGED <<lockVars, job>>
       ELSE Leave(p)
    /\ UNCHANGED <<queue, clock, missions, crashes>>

\* The prerequisites of a created mission; nothing is known of one that is not
\* created, and the dependencies of the entry are not looked at.
Met(s) == \A q \in s : status[q] = "completed"
PrerequisitesMet(m) == Met(needs[m])

\* Higher priority first, then older first.
Before(e, f) == \/ e.priority > f.priority
                \/ e.priority = f.priority /\ e.at < f.at

\* Variant: the first pending entry, or nothing.
Mutant_HeadOfLine(q) ==
    {i \in DOMAIN q :
        /\ q[i].status = "pending" /\ PrerequisitesMet(q[i].mission)
        /\ \A j \in DOMAIN q \ {i} : q[j].status = "pending" => Before(q[i], q[j])}

\* The first pending entry in that order whose prerequisites are met.
Choices(q) ==
    LET ready == {i \in DOMAIN q : q[i].status = "pending"
                                   /\ PrerequisitesMet(q[i].mission)}
    IN {i \in ready : \A j \in ready \ {i} : Before(q[i], q[j])}

\* Variant: a status that dispatch does not know.
Mutant_MarkRunning(p) ==
    /\ pc[p] = "scan"
    /\ \/ Choices(work[p]) = {} /\ Leave(p) /\ UNCHANGED queue
       \/ \E i \in Choices(work[p]) :
             /\ queue' = [work[p] EXCEPT ![i].status = "running"]
             /\ Leave(p)
    /\ UNCHANGED <<clock, missions, crashes>>

\* The file is rewritten before the mission is started, without relationships.
DispatchMark(p) ==
    /\ pc[p] = "scan"
    /\ \/ Choices(work[p]) = {} /\ Leave(p) /\ UNCHANGED queue
       \/ \E i \in Choices(work[p]), f \in Forces :
             /\ queue' = [work[p] EXCEPT ![i].status = "dispatched"]
             /\ Goto(p, "load", <<queue'[i]>>)
             /\ job' = [job EXCEPT ![p] = [mission |-> work[p][i].mission, rel |-> {},
                                            force |-> f, only |-> FALSE]]
             /\ UNCHANGED lockVars
    /\ UNCHANGED <<clock, missions, crashes>>

-----------------------------------------------------------------------------
(* startMission, as the callback of dispatch or by hand, and createMission. *)
(* Errors end either; dispatch then releases its lock.                     *)

Begin(p, there) ==
    /\ pc[p] = "idle"
    /\ \E m \in Mission, f \in Forces :
          job' = [job EXCEPT ![p] = [mission |-> m, rel |-> Prereq[m], force |-> f,
                                     only |-> there = "make"]]
    /\ Goto(p, there, <<>>)
    /\ UNCHANGED <<queue, lockVars, clock, missions, crashes>>

StartByHand(p) == "start" \in ByHand /\ Begin(p, "load")
CreateByHand(p) == "create" \in ByHand /\ Begin(p, "make")

Finish(p) == IF work[p] = <<>> THEN Return(p) /\ UNCHANGED lockVars ELSE Leave(p)

\* The same, with what is now known of the relationships.
On(p, there, r) ==
    /\ pc' = [pc EXCEPT ![p] = there]
    /\ job' = [job EXCEPT ![p].rel = r]
    /\ UNCHANGED <<lockVars, work>>

\* p comes to a mission that another process is starting or creating.
Meet(p) ==
    LET m == job[p].mission IN
    irregular' = IF \E q \in Proc \ {p} : pc[q] \in Middle /\ job[q].mission = m
                 THEN irregular \cup {m} ELSE irregular

\* Variant: the check is made only where the mission exists.
Mutant_Asked(p) == LET m == job[p].mission IN
                   IF status[m] # "none" THEN {} ELSE job[p].rel

\* The prerequisites that start looks at: the mission's own, else the given ones.
Asked(p) == LET m == job[p].mission IN
            IF status[m] # "none" /\ needs[m] # {} THEN needs[m] ELSE job[p].rel

\* loadState, the check of the prerequisites, and the transition of the copy.
StartLoad(p) ==
    LET m == job[p].mission IN
    /\ pc[p] = "load"
    /\ \/ Finish(p)
       \/ /\ job[p].force \/ Met(Asked(p))
          /\ \/ status[m] = "none" /\ On(p, "create", job[p].rel)
             \/ status[m] = "planned" /\ On(p, "save", needs[m])
    /\ Meet(p)
    /\ UNCHANGED <<queue, clock, status, needs, done, crashes>>

\* createMission leaves a mission alone that exists by now.
CreateTest(p) ==
    /\ pc[p] \in {"make", "create"}
    /\ IF status[job[p].mission] = "none" THEN On(p, "write", job[p].rel)
       ELSE IF job[p].only THEN Finish(p)
       ELSE On(p, "reload", job[p].rel)
    /\ Meet(p)
    /\ UNCHANGED <<queue, clock, status, needs, done, crashes>>

CreateSave(p) ==
    LET m == job[p].mission IN
    /\ pc[p] = "write"
    /\ \/ Finish(p) /\ UNCHANGED <<status, needs>>
       \/ /\ status' = [status EXCEPT ![m] = "planned"]
          /\ needs' = [needs EXCEPT ![m] = job[p].rel]
          /\ IF job[p].only THEN Finish(p) ELSE On(p, "reload", job[p].rel)
    /\ UNCHANGED <<queue, clock, done, irregular, crashes>>

\* The state again, without another look at the prerequisites.
StartReload(p) ==
    LET m == job[p].mission IN
    /\ pc[p] = "reload"
    /\ IF status[m] = "planned" THEN On(p, "save", needs[m]) ELSE Finish(p)
    /\ UNCHANGED <<queue, clock, missions, crashes>>

\* The copy is written over whatever is there by now.
StartSave(p) ==
    LET m == job[p].mission IN
    /\ pc[p] = "save"
    /\ \/ UNCHANGED missions
       \/ /\ status' = [status EXCEPT ![m] = "active"]
          /\ needs' = [needs EXCEPT ![m] = job[p].rel]
          /\ irregular' = IF job[p].force THEN irregular \cup {m} ELSE irregular
          /\ UNCHANGED done
    /\ Finish(p)
    /\ UNCHANGED <<queue, clock, crashes>>

-----------------------------------------------------------------------------
(* The missions, moved by other commands.                                  *)

\* delegate activates a mission in whatever status it is.
Delegate(m) ==
    /\ "delegate" \in ByHand /\ status[m] # "none"
    /\ status' = [status EXCEPT ![m] = "active"]
    /\ irregular' = irregular \cup {m}
    /\ UNCHANGED <<needs, done>>

\* verify and distill, then finish.
Advance(m) ==
    /\ \/ /\ status[m] = "active" /\ status' = [status EXCEPT ![m] = "completed"]
          /\ done' = done \cup {m}
       \/ /\ status[m] = "completed" /\ status' = [status EXCEPT ![m] = "archived"]
          /\ UNCHANGED done
    /\ UNCHANGED <<needs, irregular>>

Owner ==
    /\ \E m \in Mission : Delegate(m) \/ Advance(m)
    /\ UNCHANGED <<queue, lockVars, pc, work, job, clock, crashes>>

-----------------------------------------------------------------------------
\* What p does is done in the lock; by hand, start and create take none.
Holding(p) == \/ pc[p] \in {"append", "read", "scan"}
              \/ pc[p] \in Middle \cup {"load", "make"} /\ work[p] # <<>>

\* The process dies, in the lock or not.
Crash(p) ==
    /\ pc[p] # "idle" /\ crashes < MaxCrashes
    /\ crashes' = crashes + 1
    /\ Return(p)
    /\ IF pc[p] \in {"enqueue", "dispatch"} THEN DieTrying(p)
       ELSE IF Holding(p) THEN DieInside(p)
       ELSE UNCHANGED lockVars
    /\ UNCHANGED <<queue, clock, missions>>

Wait(p) == Acquire(p) \/ LockTimeout(p)

Step(p) ==
    \/ AppendEntry(p) \/ DispatchRead(p) \/ DispatchMark(p)
    \/ StartLoad(p) \/ CreateTest(p) \/ CreateSave(p) \/ StartReload(p) \/ StartSave(p)

Call(p) == Enqueue(p) \/ Dispatch(p) \/ StartByHand(p) \/ CreateByHand(p)

Next ==
    \/ Owner
    \/ \E p \in Proc : Call(p) \/ Wait(p) \/ PurgeStale(p) \/ PurgeError(p) \/ Step(p) \/ Crash(p)

Spec == Init /\ [][Next]_vars

\* A process that lives goes on: inside the lock it comes to an end, and while it
\* waits it looks again and again, and in time gets the lock or gives up.
Fair(p) == WF_vars(Step(p)) /\ WF_vars(PurgeStale(p)) /\ SF_vars(Wait(p))

\* dispatch is called again and again, whatever is done by hand in between.
Repeats(p) == SF_vars(Dispatch(p))

FairSpec == Spec /\ \A p \in Proc : Fair(p) /\ Repeats(p)

-----------------------------------------------------------------------------
(* What is in the file stays there until a live process's lock is stolen:  *)
(* a write appends an entry, or marks one entry that is still pending on   *)
(* disk as dispatched, and changes nothing else of what is on disk         *)
(* (mission-queue.ts:70 writes back all it read).                          *)
QueueIsKept ==
    [][queue' # queue =>
          \/ stolen
          \/ \E e \in Entries : queue' = Append(queue, e)
          \/ \E i \in DOMAIN queue :
                /\ queue[i].status = "pending"
                /\ queue' = [queue EXCEPT ![i].status = "dispatched"]]_vars

(* startMission: an active mission has prerequisites that have been        *)
(* completed, unless it was activated by --force or delegate or by two     *)
(* commands at a time, of which one had checked what the other wrote over. *)
PrerequisitesFirst ==
    \A m \in Mission : status[m] \in {"active", "completed", "archived"} =>
        m \in irregular \/ needs[m] \subseteq done

(* An entry whose mission has no prerequisites is dispatched some day,     *)
(* whatever waits in front of it (mission-queue.ts:63 skips what is not    *)
(* ready), unless a process dies between creating and writing the lock     *)
(* file or a lock is stolen.                                               *)
NoHeadOfLineBlocking ==
    \A i \in 1..MaxEntries :
        (\E e \in {queue[j] : j \in DOMAIN queue \cap {i}} :
            e.status = "pending" /\ needs[e.mission] = {})
        ~> \/ lock = Blank \/ stolen
           \/ \E e \in {queue[j] : j \in DOMAIN queue \cap {i}} :
                 e.status = "dispatched" \/ needs[e.mission] # {}
=============================================================================
