------------------------- MODULE MissionQueueProofs -------------------------
(***************************************************************************)
(* Proofs about module MissionQueue, for any processes, missions,          *)
(* prerequisites and any number of entries and crashes.                    *)
(***************************************************************************)
EXTENDS MissionQueue, FiniteSetTheorems, WellFoundedInduction, TLAPS

(* Until a live process's lock file is unlinked by a contender, only the   *)
(* process whose file it is works in the lock, and the queue a dispatch    *)
(* has read is the queue on disk until it writes.                          *)
LockInv == ~stolen =>
    \A p \in Proc : /\ Holding(p) => lock = p
                    /\ pc[p] = "scan" => work[p] = queue

\* Where a command works in the lock, or starts or creates a mission.
Starts == Middle \cup {"load", "make"}

LEMMA InitInv == Init => TypeOK /\ LockInv
<1> SUFFICES ASSUME Init PROVE TypeOK /\ LockInv
  OBVIOUS
<1>1. queue \in Seq(Entries) /\ work \in [Proc -> Seq(Entries)]
  BY DEF Init
<1>2. pc \in [Proc -> PCs] /\ \A p \in Proc : pc[p] = "idle"
  BY DEF Init, PCs
<1>3. LockOK /\ job \in [Proc -> Jobs \cup {NoJob}]
  BY DEF Init, LockInit, LockOK
<1>4. status \in [Mission -> MissionStatuses] /\ needs \in [Mission -> SUBSET Mission]
  BY QueueAssumption DEF Init, MissionStatuses
<1>5. clock \in 0..MaxEntries /\ crashes \in 0..MaxCrashes
  BY QueueAssumption DEF Init
<1> QED
  BY <1>1, <1>2, <1>3, <1>4, <1>5 DEF Init, TypeOK, LockInv, Holding, Middle

(* A choice is a pending entry of the queue.                               *)
LEMMA ChoicesLemma ==
  ASSUME NEW q, NEW i \in Choices(q)
  PROVE  i \in DOMAIN q /\ q[i].status = "pending"
BY DEF Choices

(* Marking an entry leaves a queue of entries.                             *)
LEMMA MarkLemma ==
  ASSUME NEW q \in Seq(Entries), NEW i \in DOMAIN q
  PROVE  /\ [q EXCEPT ![i].status = "dispatched"] \in Seq(Entries)
         /\ <<[q EXCEPT ![i].status = "dispatched"][i]>> \in Seq(Entries)
<1>1. q[i] \in Entries
  OBVIOUS
<1>2. [q[i] EXCEPT !.status = "dispatched"] \in Entries
  BY <1>1 DEF Entries
<1> QED
  BY <1>2

(* A process that appends an entry has the entry.                          *)
LEMMA WorkLemma ==
  ASSUME TypeOK, NEW p \in Proc, pc[p] \in {"enqueue", "append"}
  PROVE  work[p][1] \in Entries
<1>1. work[p] \in Seq(Entries) /\ Len(work[p]) = 1
  BY DEF TypeOK
<1> QED
  BY <1>1

(* How a command ends or goes on: nobody else moves.                       *)
Moves(p, there) == /\ pc' = [pc EXCEPT ![p] = there] /\ there \in PCs
                   /\ \A r \in Proc \ {p} : work'[r] = work[r] /\ job'[r] = job[r]

LEMMA EndOfCommand ==
  ASSUME TypeOK, NEW p \in Proc, Return(p)
  PROVE  /\ Moves(p, "idle")
         /\ work' \in [Proc -> Seq(Entries)] /\ work'[p] = <<>>
         /\ job' \in [Proc -> Jobs \cup {NoJob}]
<1>1. <<>> \in Seq(Entries)
  OBVIOUS
<1> QED
  BY <1>1 DEF TypeOK, Return, Goto, Moves, PCs

LEMMA EndOfStart ==
  ASSUME TypeOK, NEW p \in Proc, Finish(p)
  PROVE  Return(p) /\ LockOK' /\ stolen' = stolen
BY DEF Finish, Leave, LetGo, LockOK, TypeOK, lockVars

LEMMA GoingOn ==
  ASSUME TypeOK, NEW p \in Proc, pc[p] \in Starts, NEW there \in PCs,
         NEW r \in SUBSET Mission, On(p, there, r)
  PROVE  /\ Moves(p, there)
         /\ UNCHANGED <<lockVars, work>>
         /\ job' \in [Proc -> Jobs \cup {NoJob}] /\ job'[p] \in Jobs
         /\ job'[p] = [job[p] EXCEPT !.rel = r]
         /\ job'[p].mission = job[p].mission /\ job'[p].rel = r
         /\ job'[p].force = job[p].force /\ job'[p].only = job[p].only
<1>1. job[p] \in Jobs
  BY DEF TypeOK, Starts
<1>2. [job[p] EXCEPT !.rel = r] \in Jobs
  BY <1>1 DEF Jobs
<1> QED
  BY <1>1, <1>2 DEF TypeOK, On, Moves, Jobs

(* Every step of startMission and createMission ends the command or goes   *)
(* on, and meets what it may meet.                                         *)
StartSteps(p) == \/ StartLoad(p) \/ CreateTest(p) \/ CreateSave(p) \/ StartReload(p)
                 \/ StartSave(p)

LEMMA StartStepCases ==
  ASSUME TypeOK, NEW p \in Proc, StartSteps(p)
  PROVE  /\ pc[p] \in Starts /\ job[p] \in Jobs /\ job[p].mission \in Mission
         /\ job[p].rel \in SUBSET Mission /\ needs[job[p].mission] \in SUBSET Mission
         /\ \/ Finish(p)
            \/ \E there \in Middle, r \in SUBSET Mission : On(p, there, r)
         /\ UNCHANGED <<queue, clock, crashes>>
<1>1. pc[p] \in Starts
  BY DEF StartSteps, StartLoad, CreateTest, CreateSave, StartReload, StartSave, Starts, Middle
<1>2. job[p] \in Jobs
  BY <1>1 DEF TypeOK, Starts
<1>3. /\ job[p].mission \in Mission /\ job[p].rel \in SUBSET Mission
      /\ needs[job[p].mission] \in SUBSET Mission
  BY <1>2 DEF Jobs, TypeOK
<1>4. CASE StartLoad(p)
  BY <1>1, <1>2, <1>3, <1>4 DEF StartLoad, Middle
<1>5. CASE CreateTest(p)
  BY <1>1, <1>2, <1>3, <1>5 DEF CreateTest, Middle
<1>6. CASE CreateSave(p)
  BY <1>1, <1>2, <1>3, <1>6 DEF CreateSave, Middle
<1>7. CASE StartReload(p)
  BY <1>1, <1>2, <1>3, <1>7 DEF StartReload, Middle
<1>8. CASE StartSave(p)
  BY <1>1, <1>2, <1>3, <1>8 DEF StartSave, Middle
<1> QED
  BY <1>4, <1>5, <1>6, <1>7, <1>8 DEF StartSteps

LEMMA MissionTypes ==
  ASSUME TypeOK, [Next]_vars
  PROVE  /\ status' \in [Mission -> MissionStatuses] /\ needs' \in [Mission -> SUBSET Mission]
         /\ done' \subseteq Mission /\ irregular' \subseteq Mission
<1> USE DEF TypeOK, missions, MissionStatuses
<1>1. CASE UNCHANGED missions
  BY <1>1
<1>2. CASE Owner
  BY <1>2 DEF Owner, Delegate, Advance
<1>3. ASSUME NEW p \in Proc, StartSteps(p)
      PROVE  /\ status' \in [Mission -> MissionStatuses] /\ needs' \in [Mission -> SUBSET Mission]
             /\ done' \subseteq Mission /\ irregular' \subseteq Mission
  <2>1. job[p].mission \in Mission /\ job[p].rel \in SUBSET Mission
    BY <1>3, StartStepCases
  <2> QED
    BY <1>3, <2>1 DEF StartSteps, StartLoad, CreateTest, CreateSave, StartReload, StartSave, Meet
<1> QED
  BY <1>1, <1>2, <1>3 DEF Next, Step, Call, Wait, Enqueue, Dispatch, StartByHand, CreateByHand,
     Begin, Acquire, LockTimeout, PurgeStale, PurgeError, AppendEntry, DispatchRead,
     DispatchMark, Crash, StartSteps, vars

LEMMA LockTypes ==
  ASSUME TypeOK, [Next]_vars
  PROVE  LockOK'
<1> USE DEF TypeOK, LockOK, lockVars
<1>1. ASSUME NEW p \in Proc, StartSteps(p) PROVE LockOK'
  BY <1>1, StartStepCases DEF On, Finish, Leave, LetGo
<1>2. ASSUME NEW p \in Proc,
             \/ Call(p) \/ Wait(p) \/ PurgeStale(p) \/ PurgeError(p) \/ AppendEntry(p)
             \/ DispatchRead(p) \/ DispatchMark(p) \/ Crash(p)
      PROVE  LockOK'
  BY <1>2 DEF Call, Wait, Enqueue, Dispatch, StartByHand, CreateByHand, Begin, Acquire,
     LockTimeout, PurgeStale, PurgeError, AppendEntry, DispatchRead, DispatchMark, Crash,
     Leave, LetGo, Take, Purge, GiveUp, LosePurge, DieInside, DieTrying
<1> QED
  BY <1>1, <1>2 DEF Next, Owner, Step, StartSteps, vars

LEMMA NextTypeOK == TypeOK /\ [Next]_vars => TypeOK'
<1> SUFFICES ASSUME TypeOK, [Next]_vars PROVE TypeOK'
  OBVIOUS
<1> DEFINE Places ==
      /\ queue \in Seq(Entries)
      /\ pc \in [Proc -> PCs]
      /\ work \in [Proc -> Seq(Entries)]
      /\ \A p \in Proc : pc[p] \in {"enqueue", "append"} => Len(work[p]) = 1
      /\ job \in [Proc -> Jobs \cup {NoJob}]
      /\ \A p \in Proc : pc[p] \in Starts => job[p] \in Jobs
      /\ clock \in 0..MaxEntries /\ crashes \in 0..MaxCrashes
<1>p. Places
  BY DEF TypeOK, Starts
<1>0. ASSUME Places' PROVE TypeOK'
  BY <1>0, MissionTypes, LockTypes DEF TypeOK, Starts
<1> SUFFICES Places'
  BY <1>0
<1>w. \A p \in Proc : work[p] \in Seq(Entries) /\ <<>> \in Seq(Entries)
  BY <1>p
<1> USE DEF Goto, PCs, Starts, Middle
<1>1. CASE UNCHANGED vars
  BY <1>1, <1>p DEF vars
<1>2. CASE Owner
  BY <1>2, <1>p DEF Owner
<1>3. ASSUME NEW p \in Proc, Enqueue(p) PROVE Places'
  <2>1. PICK m \in Mission, n \in Priorities, d \in Deps :
           Goto(p, "enqueue", <<[mission |-> m, priority |-> n, deps |-> d,
                                 at |-> clock + 1, status |-> "pending"]>>)
    BY <1>3 DEF Enqueue
  <2> DEFINE e == [mission |-> m, priority |-> n, deps |-> d,
                   at |-> clock + 1, status |-> "pending"]
  <2>2. clock + 1 \in 1..MaxEntries /\ clock' = clock + 1
    BY <1>3, <1>p, QueueAssumption DEF Enqueue
  <2>3. e \in Entries
    BY <2>2, QueueAssumption DEF Entries
  <2>4. Goto(p, "enqueue", <<e>>)
    BY <2>1
  <2> HIDE DEF e
  <2>5. <<e>> \in Seq(Entries) /\ Len(<<e>>) = 1
    BY <2>3
  <2> QED
    BY <1>3, <1>p, <2>2, <2>4, <2>5 DEF Enqueue
<1>4. ASSUME NEW p \in Proc, StartByHand(p) \/ CreateByHand(p) PROVE Places'
  <2>1. PICK there \in {"load", "make"} : Begin(p, there)
    BY <1>4 DEF StartByHand, CreateByHand
  <2>2. PICK m \in Mission, f \in Forces :
           job' = [job EXCEPT ![p] = [mission |-> m, rel |-> Prereq[m], force |-> f,
                                      only |-> there = "make"]]
    BY <2>1 DEF Begin
  <2>3. [mission |-> m, rel |-> Prereq[m], force |-> f, only |-> there = "make"] \in Jobs
    BY QueueAssumption DEF Jobs, Forces
  <2> QED
    BY <1>p, <1>w, <2>1, <2>2, <2>3 DEF Begin
<1>5. ASSUME NEW p \in Proc, Dispatch(p) \/ Acquire(p) \/ PurgeStale(p) PROVE Places'
  BY <1>5, <1>p, <1>w DEF Dispatch, Acquire, PurgeStale
<1>6. ASSUME NEW p \in Proc, Return(p), queue' \in Seq(Entries), UNCHANGED clock,
             crashes' \in 0..MaxCrashes
      PROVE  Places'
  <2>1. /\ work' \in [Proc -> Seq(Entries)] /\ job' \in [Proc -> Jobs \cup {NoJob}]
        /\ Moves(p, "idle")
    BY <1>6, EndOfCommand
  <2>2. \A r \in Proc : pc'[r] = "idle" \/ (pc'[r] = pc[r] /\ work'[r] = work[r] /\ job'[r] = job[r])
    BY <1>p, <2>1 DEF Moves
  <2> QED
    BY <1>p, <1>6, <2>1, <2>2 DEF Moves
<1>7. ASSUME NEW p \in Proc, AppendEntry(p) PROVE Places'
  <2>1. queue \o work[p] \in Seq(Entries)
    BY <1>p, <1>w
  <2> QED
    BY <1>6, <1>7, <1>p, <2>1 DEF AppendEntry, Leave
<1>8. ASSUME NEW p \in Proc, LockTimeout(p) \/ PurgeError(p) PROVE Places'
  BY <1>6, <1>8, <1>p DEF LockTimeout, PurgeError
<1>9. ASSUME NEW p \in Proc, Crash(p) PROVE Places'
  <2>1. crashes' \in 0..MaxCrashes
    BY <1>9, <1>p, QueueAssumption DEF Crash
  <2> QED
    BY <1>6, <1>9, <1>p, <2>1 DEF Crash
<1>10. ASSUME NEW p \in Proc, DispatchRead(p) PROVE Places'
  <2>1. CASE Leave(p)
    BY <1>6, <1>10, <1>p, <2>1 DEF DispatchRead, Leave
  <2>2. CASE Goto(p, "scan", queue) /\ UNCHANGED job
    BY <1>10, <1>p, <2>2 DEF DispatchRead
  <2> QED
    BY <1>10, <2>1, <2>2 DEF DispatchRead
<1>11. ASSUME NEW p \in Proc, DispatchMark(p) PROVE Places'
  <2>1. CASE Leave(p) /\ UNCHANGED queue
    BY <1>6, <1>11, <1>p, <2>1 DEF DispatchMark, Leave
  <2>2. CASE ~(Leave(p) /\ UNCHANGED queue)
    <3>1. PICK i \in Choices(work[p]), f \in Forces :
             /\ queue' = [work[p] EXCEPT ![i].status = "dispatched"]
             /\ Goto(p, "load", <<queue'[i]>>)
             /\ job' = [job EXCEPT ![p] = [mission |-> work[p][i].mission, rel |-> {},
                                            force |-> f, only |-> FALSE]]
      BY <1>11, <2>2 DEF DispatchMark
    <3>2. queue' \in Seq(Entries) /\ <<queue'[i]>> \in Seq(Entries)
      BY <1>w, <3>1, ChoicesLemma, MarkLemma
    <3>3. work[p][i].mission \in Mission
      <4>1. work[p][i] \in Entries
        BY <1>w, ChoicesLemma
      <4> QED
        BY <4>1 DEF Entries
    <3>4. [mission |-> work[p][i].mission, rel |-> {}, force |-> f, only |-> FALSE] \in Jobs
      BY <3>3 DEF Jobs, Forces
    <3> HIDE DEF Choices
    <3> QED
      BY <1>11, <1>p, <3>1, <3>2, <3>4 DEF DispatchMark
  <2> QED
    BY <2>1, <2>2
<1>12. ASSUME NEW p \in Proc, StartSteps(p) PROVE Places'
  <2>1. UNCHANGED <<queue, clock, crashes>>
    BY <1>12, StartStepCases
  <2>2. CASE Finish(p)
    BY <1>6, <1>p, <2>1, <2>2, EndOfStart
  <2>3. ASSUME NEW there \in Middle, NEW r \in SUBSET Mission, On(p, there, r) PROVE Places'
    <3>1. pc[p] \in Starts /\ there \in PCs
      BY <1>12, StartStepCases
    <3>2. /\ Moves(p, there) /\ work' = work
          /\ job' \in [Proc -> Jobs \cup {NoJob}] /\ job'[p] \in Jobs
      BY <2>3, <3>1, GoingOn
    <3>3. \A q \in Proc : pc'[q] \in Middle \/ (pc'[q] = pc[q] /\ job'[q] = job[q])
      BY <1>p, <3>2 DEF Moves
    <3> QED
      BY <1>p, <2>1, <3>2, <3>3 DEF Moves
  <2> QED
    BY <1>12, <2>2, <2>3, StartStepCases
<1> QED
  BY <1>1, <1>2, <1>3, <1>4, <1>5, <1>7, <1>8, <1>9, <1>10, <1>11, <1>12
     DEF Next, Call, Wait, Step, StartSteps

(* Who works in the lock has taken it, or worked in it before.             *)
LEMMA HoldingStep ==
  ASSUME TypeOK, [Next]_vars, NEW p \in Proc, Holding(p)'
  PROVE  \/ Holding(p)
         \/ Acquire(p)
<1> USE DEF TypeOK, Holding, Middle
<1>1. CASE Owner \/ UNCHANGED vars
  BY <1>1 DEF Owner, vars
<1>2. ASSUME NEW r \in Proc, NEW there \in PCs, Moves(r, there), r # p PROVE Holding(p)
  BY <1>2 DEF Moves
<1>3. ASSUME NEW r \in Proc, Return(r) PROVE Holding(p)
  <2>1. r # p
    BY <1>3 DEF Return, Goto
  <2> QED
    BY <1>2, <1>3, <2>1, EndOfCommand DEF PCs
<1>4. ASSUME NEW r \in Proc, StartSteps(r) PROVE Holding(p)
  <2>1. CASE Finish(r)
    BY <1>3, <2>1, EndOfStart
  <2>2. ASSUME NEW there \in Middle, NEW s \in SUBSET Mission, On(r, there, s)
        PROVE  Holding(p)
    <3>1. pc[r] \in Starts /\ there \in PCs
      BY <1>4, StartStepCases DEF PCs
    <3>2. Moves(r, there) /\ work' = work
      BY <2>2, <3>1, GoingOn
    <3> QED
      BY <3>1, <3>2 DEF Moves, Starts
  <2> QED
    BY <1>4, <2>1, <2>2, StartStepCases
<1>5. ASSUME NEW r \in Proc, Call(r) \/ PurgeStale(r) PROVE Holding(p)
  BY <1>5 DEF Call, Enqueue, Dispatch, StartByHand, CreateByHand, Begin, Goto, PurgeStale
<1>6. ASSUME NEW r \in Proc, LockTimeout(r) \/ PurgeError(r) \/ AppendEntry(r) \/ Crash(r)
      PROVE  Holding(p)
  BY <1>3, <1>6 DEF LockTimeout, PurgeError, AppendEntry, Crash, Leave
<1>7. ASSUME NEW r \in Proc, DispatchRead(r) \/ DispatchMark(r) PROVE Holding(p)
  <2>1. CASE Leave(r)
    BY <1>3, <2>1 DEF Leave
  <2>2. CASE ~Leave(r)
    BY <1>7, <2>2 DEF DispatchRead, DispatchMark, Goto
  <2> QED
    BY <2>1, <2>2
<1>8. ASSUME NEW r \in Proc, Acquire(r), r # p PROVE Holding(p)
  BY <1>8 DEF Acquire, Goto
<1> QED
  BY <1>1, <1>4, <1>5, <1>6, <1>7, <1>8 DEF Next, Wait, Step, StartSteps

(* A lock that is not stolen stays with its holder while he works in it,   *)
(* and only its holder may let go of it.                                   *)
LEMMA LockStep ==
  ASSUME TypeOK, LockInv, [Next]_vars, ~stolen', NEW p \in Proc, Holding(p), Holding(p)'
  PROVE  lock' = p
<1>0. ~stolen
  BY LockTypes DEF Next, Owner, Call, Wait, Step, vars, lockVars, Enqueue, Dispatch, StartByHand,
     CreateByHand, Begin, Acquire, Take, LockTimeout, GiveUp, PurgeStale, Purge, PurgeError,
     LosePurge, AppendEntry, DispatchRead, DispatchMark, Crash, DieInside, DieTrying, Leave,
     LetGo, StartLoad, CreateTest, CreateSave, StartReload, StartSave, On, Finish
<1>1. lock = p /\ lock \notin {NoProc, Dead, Blank}
  BY <1>0, LockAssumption DEF LockInv
<1>2. ASSUME NEW r \in Proc, Holding(r) PROVE r = p
  BY <1>0, <1>1, <1>2 DEF LockInv
<1>3. ASSUME NEW r \in Proc, Return(r) PROVE r # p
  BY <1>3, EndOfCommand DEF Holding, Moves, Middle, TypeOK
<1>4. ASSUME NEW r \in Proc, Return(r), LetGo(r) PROVE lock' = p
  BY <1>1, <1>3, <1>4 DEF LetGo
<1>5. ASSUME NEW r \in Proc, StartSteps(r) PROVE lock' = p
  <2>1. CASE Finish(r)
    <3>1. Return(r) /\ (UNCHANGED lock \/ LetGo(r))
      BY <2>1 DEF Finish, Leave, lockVars
    <3> QED
      BY <1>1, <1>4, <3>1
  <2>2. CASE ~Finish(r)
    BY <1>1, <1>5, <2>2, StartStepCases DEF On, lockVars
  <2> QED
    BY <2>1, <2>2
<1>6. ASSUME NEW r \in Proc,
             \/ Call(r) \/ Wait(r) \/ PurgeStale(r) \/ PurgeError(r)
      PROVE  lock' = p
  BY <1>1, <1>6 DEF Call, Wait, Enqueue, Dispatch, StartByHand, CreateByHand, Begin, Acquire,
     Take, LockTimeout, GiveUp, PurgeStale, Purge, PurgeError, LosePurge, lockVars
<1>7. ASSUME NEW r \in Proc, AppendEntry(r) \/ DispatchRead(r) \/ DispatchMark(r)
      PROVE  lock' = p
  BY <1>1, <1>4, <1>7 DEF AppendEntry, DispatchRead, DispatchMark, Leave, lockVars
<1>8. ASSUME NEW r \in Proc, Crash(r) PROVE lock' = p
  BY <1>1, <1>3, <1>8 DEF Crash, DieTrying, DieInside, lockVars
<1> QED
  BY <1>1, <1>5, <1>6, <1>7, <1>8 DEF Next, Owner, Step, StartSteps, vars, lockVars

(* Nothing gives a stolen lock back.                                       *)
LEMMA StolenStays == TypeOK /\ [Next]_vars /\ ~stolen' => ~stolen
BY LockTypes DEF Next, Owner, Call, Wait, Step, vars, lockVars, Enqueue, Dispatch, StartByHand,
   CreateByHand, Begin, Acquire, Take, LockTimeout, GiveUp, PurgeStale, Purge, PurgeError,
   LosePurge, AppendEntry, DispatchRead, DispatchMark, Crash, DieInside, DieTrying, Leave,
   LetGo, StartLoad, CreateTest, CreateSave, StartReload, StartSave, On, Finish

(* The file changes in two steps only, and both are done in the lock.      *)
LEMMA Writers ==
  ASSUME [Next]_vars, queue' # queue
  PROVE  \E p \in Proc : AppendEntry(p) \/ DispatchMark(p)
BY DEF Next, Owner, Call, Wait, Step, vars, Enqueue, Dispatch, StartByHand, CreateByHand, Begin,
   Acquire, LockTimeout, PurgeStale, PurgeError, DispatchRead, Crash, StartLoad, CreateTest,
   CreateSave, StartReload, StartSave

(* What p has read is what it had read, unless it has just read the file.  *)
LEMMA ScanStep ==
  ASSUME TypeOK, [Next]_vars, NEW p \in Proc, pc'[p] = "scan"
  PROVE  \/ pc[p] = "scan" /\ work'[p] = work[p]
         \/ work'[p] = queue /\ queue' = queue
<1> USE DEF TypeOK
<1>1. CASE Owner \/ UNCHANGED vars
  BY <1>1 DEF Owner, vars
<1>2. ASSUME NEW r \in Proc, Return(r) PROVE pc[p] = "scan" /\ work'[p] = work[p]
  BY <1>2, EndOfCommand DEF Moves
<1>3. ASSUME NEW r \in Proc, StartSteps(r) PROVE pc[p] = "scan" /\ work'[p] = work[p]
  <2>1. ASSUME NEW there \in Middle, NEW s \in SUBSET Mission, On(r, there, s)
        PROVE  pc[p] = "scan" /\ work'[p] = work[p]
    BY <2>1 DEF On, Middle
  <2> QED
    BY <1>2, <1>3, <2>1, StartStepCases, EndOfStart
<1>4. ASSUME NEW r \in Proc, Call(r) \/ Acquire(r) \/ PurgeStale(r)
      PROVE  pc[p] = "scan" /\ work'[p] = work[p]
  BY <1>4 DEF Call, Enqueue, Dispatch, StartByHand, CreateByHand, Begin, Goto, Acquire, PurgeStale
<1>5. ASSUME NEW r \in Proc, LockTimeout(r) \/ PurgeError(r) \/ AppendEntry(r) \/ Crash(r)
      PROVE  pc[p] = "scan" /\ work'[p] = work[p]
  BY <1>2, <1>5 DEF LockTimeout, PurgeError, AppendEntry, Crash, Leave
<1>6. ASSUME NEW r \in Proc, DispatchMark(r) PROVE pc[p] = "scan" /\ work'[p] = work[p]
  BY <1>2, <1>6 DEF DispatchMark, Leave, Goto
<1>7. ASSUME NEW r \in Proc, DispatchRead(r)
      PROVE  \/ pc[p] = "scan" /\ work'[p] = work[p]
             \/ work'[p] = queue /\ queue' = queue
  BY <1>2, <1>7 DEF DispatchRead, Leave, Goto
<1> QED
  BY <1>1, <1>3, <1>4, <1>5, <1>6, <1>7 DEF Next, Wait, Step, StartSteps

LEMMA NextLockInv == TypeOK /\ LockInv /\ [Next]_vars => LockInv'
<1> SUFFICES ASSUME TypeOK, LockInv, [Next]_vars, ~stolen', NEW p \in Proc
             PROVE  /\ Holding(p)' => lock' = p
                    /\ pc'[p] = "scan" => work'[p] = queue'
  BY DEF LockInv
<1>0. ~stolen
  BY StolenStays
<1>1. ASSUME Holding(p)' PROVE lock' = p
  <2>1. CASE Acquire(p)
    BY <2>1 DEF Acquire, Take
  <2> QED
    BY <1>1, <2>1, HoldingStep, LockStep
<1>2. ASSUME pc'[p] = "scan", pc[p] = "scan", work'[p] = work[p] PROVE work'[p] = queue'
  <2>1. work[p] = queue /\ Holding(p)
    BY <1>0, <1>2 DEF LockInv, Holding
  <2>2. ASSUME queue' # queue PROVE FALSE
    <3>1. PICK r \in Proc : AppendEntry(r) \/ DispatchMark(r)
      BY <2>2, Writers
    <3>2. Holding(r)
      BY <3>1 DEF AppendEntry, DispatchMark, Holding
    <3>3. r = p
      BY <1>0, <2>1, <3>2 DEF LockInv
    <3> QED
      BY <1>2, <3>1, <3>3 DEF AppendEntry, DispatchMark, Leave, Return, Goto, TypeOK
  <2> QED
    BY <1>2, <2>1, <2>2
<1> QED
  BY <1>1, <1>2, ScanStep

(* The queue holds entries that are pending or dispatched, for ever.       *)
THEOREM TypeCorrect == Spec => []TypeOK
BY InitInv, NextTypeOK, PTL DEF Spec

(* No entry of the queue is ever lost or dispatched twice, as long as the  *)
(* lock of a live process is not stolen.                                   *)
THEOREM QueueKept == Spec => QueueIsKept
<1>1. TypeOK /\ LockInv /\ [Next]_vars =>
        [queue' # queue =>
            \/ stolen
            \/ \E e \in Entries : queue' = Append(queue, e)
            \/ \E i \in DOMAIN queue :
                  /\ queue[i].status = "pending"
                  /\ queue' = [queue EXCEPT ![i].status = "dispatched"]]_vars
  <2> SUFFICES ASSUME TypeOK, LockInv, [Next]_vars, queue' # queue, ~stolen
               PROVE  \/ \E e \in Entries : queue' = Append(queue, e)
                      \/ \E i \in DOMAIN queue :
                            /\ queue[i].status = "pending"
                            /\ queue' = [queue EXCEPT ![i].status = "dispatched"]
    OBVIOUS
  <2>1. PICK p \in Proc : AppendEntry(p) \/ DispatchMark(p)
    BY Writers
  <2>2. CASE AppendEntry(p)
    <3>1. work[p] \in Seq(Entries) /\ Len(work[p]) = 1 /\ queue' = queue \o work[p]
      BY <2>2 DEF AppendEntry, TypeOK
    <3> DEFINE e == work[p][1]
    <3>2. work[p] = <<e>> /\ e \in Entries
      BY <3>1
    <3> HIDE DEF e
    <3>3. queue \o <<e>> = Append(queue, e)
      BY <3>2 DEF TypeOK
    <3> QED
      BY <3>1, <3>2, <3>3
  <2>3. CASE DispatchMark(p)
    <3>1. PICK i \in Choices(work[p]) :
             queue' = [work[p] EXCEPT ![i].status = "dispatched"]
      BY <2>3 DEF DispatchMark
    <3>2. work[p] = queue
      BY <2>3 DEF DispatchMark, LockInv
    <3> QED
      BY <3>1, <3>2, ChoicesLemma
  <2> QED
    BY <2>1, <2>2, <2>3
<1> QED
  BY <1>1, InitInv, NextTypeOK, NextLockInv, PTL DEF Spec, QueueIsKept
-----------------------------------------------------------------------------
(* The prerequisites.                                                      *)

\* What a process has checked of the mission that it alone starts or creates.
Checked(p) ==
    /\ pc[p] \in {"create", "write"} =>
          /\ status[job[p].mission] = "none"
          /\ job[p].only \/ job[p].force \/ job[p].rel \subseteq done
    /\ pc[p] = "reload" => job[p].force \/ needs[job[p].mission] \subseteq done
    /\ pc[p] = "save" => job[p].force \/ job[p].rel \subseteq done

(* A mission that is not irregular is started or created by one process at *)
(* a time, and what that one has checked holds until it writes: nobody     *)
(* takes a completion back, and nobody else touches the mission before.    *)
StartsInv ==
    /\ \A m \in Mission : status[m] = "completed" => m \in done
    /\ \A p \in Proc : /\ pc[p] = "make" => job[p].only
                       /\ pc[p] \in {"load", "create", "reload", "save"} => ~job[p].only
    /\ \A p, q \in Proc : p # q /\ pc[p] \in Middle /\ pc[q] \in Middle
          /\ job[p].mission = job[q].mission => job[p].mission \in irregular
    /\ \A p \in Proc : pc[p] \in Middle /\ job[p].mission \notin irregular => Checked(p)

LEMMA MetMeansDone ==
  ASSUME StartsInv, NEW s \in SUBSET Mission, Met(s)
  PROVE  s \subseteq done
BY DEF StartsInv, Met

\* Steps that start and create nothing change nothing of this.
LEMMA OtherSteps ==
  ASSUME TypeOK, StartsInv, PrerequisitesFirst, [Next]_vars, ~Owner,
         \A p \in Proc : ~StartSteps(p)
  PROVE  StartsInv' /\ PrerequisitesFirst'
<1>1. UNCHANGED missions
  BY DEF Next, Call, Wait, Step, StartSteps, vars, missions, Enqueue, Dispatch, StartByHand,
     CreateByHand, Begin, Acquire, LockTimeout, PurgeStale, PurgeError, AppendEntry,
     DispatchRead, DispatchMark, Crash
<1>2. PrerequisitesFirst'
  BY <1>1 DEF missions, PrerequisitesFirst
<1>3. \A p \in Proc : \/ pc'[p] = pc[p] /\ job'[p] = job[p]
                      \/ pc'[p] \notin Starts
                      \/ pc'[p] = "load" /\ ~job'[p].only
                      \/ pc'[p] = "make" /\ job'[p].only
  <2> SUFFICES ASSUME NEW p \in Proc,
                      ~(pc'[p] = pc[p] /\ job'[p] = job[p]), pc'[p] \in Starts
               PROVE  \/ pc'[p] = "load" /\ ~job'[p].only
                      \/ pc'[p] = "make" /\ job'[p].only
    OBVIOUS
  <2> USE DEF TypeOK
  <2>1. ASSUME NEW r \in Proc, Return(r) PROVE FALSE
    BY <2>1, EndOfCommand DEF Moves, Starts, Middle
  <2>2. ASSUME NEW r \in Proc, AppendEntry(r) \/ LockTimeout(r) \/ PurgeError(r) \/ Crash(r)
        PROVE  FALSE
    BY <2>1, <2>2 DEF AppendEntry, LockTimeout, PurgeError, Crash, Leave
  <2>3. ASSUME NEW r \in Proc,
               Enqueue(r) \/ Dispatch(r) \/ Acquire(r) \/ PurgeStale(r) \/ DispatchRead(r)
        PROVE  FALSE
    BY <2>1, <2>3 DEF Enqueue, Dispatch, Acquire, PurgeStale, DispatchRead, Goto, Starts,
       Middle, Leave
  <2>4. ASSUME NEW r \in Proc, StartByHand(r) \/ CreateByHand(r) \/ DispatchMark(r)
        PROVE  \/ pc'[p] = "load" /\ ~job'[p].only
               \/ pc'[p] = "make" /\ job'[p].only
    <3> DEFINE Given(m, s, f, o) == [mission |-> m, rel |-> s, force |-> f, only |-> o]
    <3>1. ASSUME NEW m, NEW s, NEW f, NEW o, NEW there,
                 pc' = [pc EXCEPT ![r] = there], job' = [job EXCEPT ![r] = Given(m, s, f, o)]
          PROVE  pc'[p] = there /\ job'[p].only = o
      BY <3>1
    <3>2. CASE StartByHand(r) \/ CreateByHand(r)
      <4>1. PICK there \in {"load", "make"} : Begin(r, there)
        BY <3>2 DEF StartByHand, CreateByHand
      <4>2. PICK m \in Mission, f \in Forces :
               job' = [job EXCEPT ![r] = Given(m, Prereq[m], f, there = "make")]
        BY <4>1 DEF Begin
      <4>3. pc' = [pc EXCEPT ![r] = there]
        BY <4>1 DEF Begin, Goto
      <4> HIDE DEF Given
      <4>4. pc'[p] = there /\ job'[p].only = (there = "make")
        BY <3>1, <4>2, <4>3
      <4> QED
        BY <4>4
    <3>3. CASE DispatchMark(r)
      <4>1. PICK i \in Choices(work[r]), f \in Forces :
               /\ job' = [job EXCEPT ![r] = Given(work[r][i].mission, {}, f, FALSE)]
               /\ Goto(r, "load", <<queue'[i]>>)
        BY <2>1, <3>3 DEF DispatchMark, Leave
      <4>2. pc' = [pc EXCEPT ![r] = "load"]
        BY <4>1 DEF Goto
      <4> HIDE DEF Given
      <4> QED
        BY <3>1, <4>1, <4>2
    <3> QED
      BY <2>4, <3>2, <3>3
  <2> QED
    BY <2>2, <2>3, <2>4 DEF Next, Call, Wait, Step, StartSteps, vars
<1>4. \A p \in Proc : pc'[p] \in Middle => pc[p] = pc'[p] /\ job'[p] = job[p]
  BY <1>3 DEF Starts, Middle
<1>5. \A p \in Proc : pc[p] = pc'[p] /\ job'[p] = job[p] /\ Checked(p) => Checked(p)'
  BY <1>1 DEF Checked, missions
<1>6. \A p \in Proc : /\ pc'[p] = "make" => job'[p].only
                      /\ pc'[p] \in {"load", "create", "reload", "save"} => ~job'[p].only
  BY <1>3 DEF StartsInv, Starts, Middle
<1> QED
  BY <1>1, <1>2, <1>4, <1>5, <1>6 DEF StartsInv, missions

\* delegate, and the way to completion.
LEMMA OwnerSteps ==
  ASSUME TypeOK, StartsInv, PrerequisitesFirst, Owner
  PROVE  StartsInv' /\ PrerequisitesFirst'
<1>1. PICK m \in Mission : Delegate(m) \/ Advance(m)
  BY DEF Owner
<1>2. /\ UNCHANGED <<pc, job, needs>> /\ done \subseteq done' /\ irregular \subseteq irregular'
      /\ status[m] # "none" /\ (m \in irregular' \/ status[m] \in {"active", "completed"})
      /\ status' = [status EXCEPT ![m] = status'[m]]
      /\ status'[m] = "completed" => m \in done'
      /\ status'[m] = "active" => m \in irregular'
  BY <1>1 DEF Owner, Delegate, Advance, TypeOK
<1>3. status[m] # "none" /\ \A n \in Mission \ {m} : status'[n] = status[n]
  BY <1>2 DEF TypeOK
<1>4. PrerequisitesFirst'
  BY <1>1, <1>2, <1>3 DEF PrerequisitesFirst, Delegate, Advance, TypeOK
<1>5. ASSUME NEW p \in Proc, pc[p] \in Middle, job[p].mission \notin irregular' PROVE Checked(p)'
  <2>1. Checked(p) /\ job[p].mission \in Mission
    BY <1>2, <1>5 DEF StartsInv, TypeOK, Jobs
  <2> QED
    BY <1>2, <1>3, <2>1 DEF Checked
<1> QED
  BY <1>2, <1>3, <1>4, <1>5 DEF StartsInv

\* startMission and createMission: what the process p comes to is its own.
LEMMA StartsSteps ==
  ASSUME TypeOK, StartsInv, PrerequisitesFirst, NEW p \in Proc, StartSteps(p)
  PROVE  StartsInv' /\ PrerequisitesFirst'
<1> DEFINE m == job[p].mission
<1>1. /\ pc[p] \in Starts /\ job[p] \in Jobs /\ m \in Mission
      /\ job[p].rel \in SUBSET Mission /\ needs[m] \in SUBSET Mission
  BY StartStepCases
<1>2. /\ pc \in [Proc -> PCs] /\ job \in [Proc -> Jobs \cup {NoJob}]
      /\ status \in [Mission -> MissionStatuses] /\ needs \in [Mission -> SUBSET Mission]
  BY DEF TypeOK
<1>3. ASSUME Finish(p)
      PROVE  pc'[p] = "idle" /\ \A q \in Proc \ {p} : pc'[q] = pc[q] /\ job'[q] = job[q]
  BY <1>2, <1>3, EndOfStart, EndOfCommand DEF Moves
<1>4. ASSUME NEW there \in Middle, NEW r \in SUBSET Mission, On(p, there, r)
      PROVE  /\ pc'[p] = there /\ \A q \in Proc \ {p} : pc'[q] = pc[q] /\ job'[q] = job[q]
             /\ job'[p].mission = m /\ job'[p].rel = r
             /\ job'[p].force = job[p].force /\ job'[p].only = job[p].only
  <2>1. there \in PCs
    BY DEF PCs
  <2>2. /\ Moves(p, there) /\ job'[p].mission = m /\ job'[p].rel = r
        /\ job'[p].force = job[p].force /\ job'[p].only = job[p].only
    BY <1>1, <1>4, <2>1, GoingOn
  <2> QED
    BY <1>2, <2>2 DEF Moves
<1>5. \/ pc'[p] = "idle"
      \/ pc'[p] \in Middle /\ job'[p].mission = m /\ job'[p].only = job[p].only
         /\ job'[p].force = job[p].force
  BY <1>3, <1>4, StartStepCases
<1>6. \A q \in Proc \ {p} : pc'[q] = pc[q] /\ job'[q] = job[q]
  BY <1>3, <1>4, StartStepCases
<1>7. done' = done /\ irregular \subseteq irregular'
  BY DEF StartSteps, StartLoad, CreateTest, CreateSave, StartReload, StartSave, Meet, missions
<1>8. \A n \in Mission \ {m} : status'[n] = status[n] /\ needs'[n] = needs[n]
  BY <1>2 DEF StartSteps, StartLoad, CreateTest, CreateSave, StartReload, StartSave, missions
<1>9. \A q \in Proc \ {p} : pc[q] \in Middle /\ job[q].mission = m /\ pc'[p] \in Middle
         => m \in irregular'
  <2> SUFFICES ASSUME NEW q \in Proc \ {p}, pc[q] \in Middle, job[q].mission = m
               PROVE  m \in irregular'
    OBVIOUS
  <2>1. CASE pc[p] \in Middle
    BY <1>7, <2>1 DEF StartsInv
  <2>2. CASE pc[p] \notin Middle
    <3>1. Meet(p)
      BY <2>2 DEF StartSteps, StartLoad, CreateTest, CreateSave, StartReload, StartSave, Middle
    <3> QED
      BY <3>1 DEF Meet
  <2> QED
    BY <2>1, <2>2
\* Others at work on the mission are met by then, or were met before.
<1>10. ASSUME NEW q \in Proc \ {p}, pc'[q] \in Middle, job'[q].mission \notin irregular'
       PROVE  Checked(q)'
  <2>1. pc[q] \in Middle /\ job[q].mission \notin irregular /\ job[q].mission \in Mission
    BY <1>6, <1>7, <1>10 DEF TypeOK, Jobs
  <2>2. Checked(q)
    BY <2>1 DEF StartsInv
  <2>3. CASE job[q].mission # m
    BY <1>6, <1>7, <1>8, <2>1, <2>2, <2>3 DEF Checked
  <2>4. CASE job[q].mission = m
    <3>1. pc[p] \notin Middle
      BY <2>1, <2>4 DEF StartsInv
    <3>2. UNCHANGED <<status, needs>>
      BY <3>1 DEF StartSteps, StartLoad, CreateTest, CreateSave, StartReload, StartSave, Middle
    <3> QED
      BY <1>6, <1>7, <2>1, <2>2, <3>2 DEF Checked
  <2> QED
    BY <2>3, <2>4
<1>11. \A q \in Proc : /\ pc'[q] = "make" => job'[q].only
                       /\ pc'[q] \in {"load", "create", "reload", "save"} => ~job'[q].only
  <2>1. ASSUME pc'[p] \in {"create", "reload", "save"} PROVE ~job'[p].only
    <3>1. CASE pc[p] \in {"load", "create", "reload", "save"}
      BY <1>5, <2>1, <3>1 DEF StartsInv
    <3>2. CASE pc[p] \in {"make", "write"}
      BY <1>1, <1>3, <1>4, <2>1, <3>2 DEF StartSteps, StartLoad, CreateTest, CreateSave,
         StartReload, StartSave, Middle, StartsInv
    <3> QED
      BY <1>1, <3>1, <3>2 DEF Starts, Middle
  <2> QED
    BY <1>5, <1>6, <2>1 DEF StartsInv, Middle
<1>12. \A n \in Mission : status'[n] = "completed" => n \in done'
  BY <1>1, <1>2, <1>7 DEF StartsInv, StartSteps, StartLoad, CreateTest, CreateSave, StartReload,
     StartSave, missions
<1>13. ASSUME pc'[p] \in Middle, m \notin irregular' PROVE Checked(p)'
  <2>0. m \notin irregular
    BY <1>7, <1>13
  <2>1. CASE StartLoad(p)
    <3>1. UNCHANGED <<status, needs>> /\ ~job[p].only
      BY <2>1 DEF StartLoad, StartsInv
    <3>2. job[p].force \/ Asked(p) \subseteq done
      BY <1>1, <1>3, <1>13, <2>1, MetMeansDone DEF StartLoad, Asked, Middle
    <3>3. CASE status[m] = "none" /\ On(p, "create", job[p].rel)
      BY <1>1, <1>4, <1>7, <3>1, <3>2, <3>3 DEF Asked, Checked, Middle
    <3>4. CASE status[m] = "planned" /\ On(p, "save", needs[m])
      <4>1. job[p].force \/ needs[m] \subseteq done
        BY <3>2, <3>4 DEF Asked
      <4> QED
        BY <1>1, <1>4, <1>7, <3>1, <3>4, <4>1 DEF Checked, Middle
    <3> QED
      BY <1>3, <1>13, <2>1, <3>3, <3>4 DEF StartLoad, Middle
  <2>2. CASE CreateTest(p)
    <3>1. UNCHANGED <<status, needs>>
      BY <2>2 DEF CreateTest
    <3>2. pc[p] = "create" => Checked(p)
      BY <2>0 DEF StartsInv, Middle
    <3>3. CASE status[m] = "none"
      <4>1. On(p, "write", job[p].rel)
        BY <2>2, <3>3 DEF CreateTest
      <4>2. job[p].only \/ job[p].force \/ job[p].rel \subseteq done
        BY <2>2, <3>2 DEF CreateTest, Checked, StartsInv
      <4> QED
        BY <1>1, <1>4, <1>7, <3>1, <3>3, <4>1, <4>2 DEF Checked, Middle
    <3>4. CASE status[m] # "none"
      BY <1>3, <1>13, <2>2, <3>2, <3>4 DEF CreateTest, Checked, StartsInv, Middle
    <3> QED
      BY <3>3, <3>4
  <2>3. CASE CreateSave(p)
    <3>1. ~Finish(p)
      BY <1>3, <1>13 DEF Middle
    <3>2. On(p, "reload", job[p].rel) /\ needs'[m] = job[p].rel /\ ~job[p].only
      BY <1>1, <1>2, <2>3, <3>1 DEF CreateSave
    <3>3. job[p].force \/ job[p].rel \subseteq done
      BY <2>0, <2>3, <3>2 DEF StartsInv, Checked, CreateSave, Middle
    <3> QED
      BY <1>1, <1>4, <1>7, <3>2, <3>3 DEF Checked, Middle
  <2>4. CASE StartReload(p)
    <3>1. On(p, "save", needs[m]) /\ UNCHANGED missions
      BY <1>3, <1>13, <2>4 DEF StartReload, Middle
    <3>2. job[p].force \/ needs[m] \subseteq done
      BY <2>0, <2>4 DEF StartsInv, Checked, StartReload, Middle
    <3> QED
      BY <1>1, <1>4, <1>7, <3>1, <3>2 DEF Checked, Middle
  <2>5. CASE StartSave(p)
    BY <1>3, <1>13, <2>5 DEF StartSave, Middle
  <2> QED
    BY <2>1, <2>2, <2>3, <2>4, <2>5 DEF StartSteps
<1>14. PrerequisitesFirst'
  <2>1. CASE StartLoad(p) \/ CreateTest(p) \/ StartReload(p)
    <3>1. UNCHANGED <<status, needs>>
      BY <2>1 DEF StartLoad, CreateTest, StartReload, missions
    <3> QED
      BY <1>7, <3>1 DEF PrerequisitesFirst
  <2>2. CASE CreateSave(p)
    <3>1. m \in irregular \/ status[m] = "none"
      BY <2>2 DEF StartsInv, Checked, CreateSave, Middle
    <3>2. \/ UNCHANGED <<status, needs>>
          \/ status'[m] = "planned"
      BY <1>1, <1>2, <2>2 DEF CreateSave
    <3> QED
      BY <1>7, <1>8, <3>1, <3>2 DEF PrerequisitesFirst
  <2>3. CASE StartSave(p)
    <3>1. m \in irregular \/ job[p].force \/ job[p].rel \subseteq done
      BY <2>3 DEF StartsInv, Checked, StartSave, Middle
    <3>2. \/ UNCHANGED <<status, needs>>
          \/ needs'[m] = job[p].rel /\ (job[p].force => m \in irregular')
      BY <1>1, <1>2, <2>3 DEF StartSave, missions
    <3> QED
      BY <1>7, <1>8, <3>1, <3>2 DEF PrerequisitesFirst
  <2> QED
    BY <2>1, <2>2, <2>3 DEF StartSteps
<1>15. \A q, r \in Proc : q # r /\ pc'[q] \in Middle /\ pc'[r] \in Middle
          /\ job'[q].mission = job'[r].mission => job'[q].mission \in irregular'
  <2> SUFFICES ASSUME NEW q \in Proc, NEW r \in Proc, q # r, pc'[q] \in Middle,
                      pc'[r] \in Middle, job'[q].mission = job'[r].mission
               PROVE  job'[q].mission \in irregular'
    OBVIOUS
  <2> HIDE DEF m
  <2>1. CASE q # p /\ r # p
    BY <1>6, <1>7, <2>1 DEF StartsInv
  <2>2. CASE q = p
    BY <1>5, <1>6, <1>9, <2>2 DEF Middle
  <2>3. CASE r = p
    BY <1>5, <1>6, <1>9, <2>3 DEF Middle
  <2> QED
    BY <2>1, <2>2, <2>3
<1>16. \A q \in Proc : pc'[q] \in Middle /\ job'[q].mission \notin irregular' => Checked(q)'
  <2>1. pc'[p] \in Middle => job'[p].mission = m
    BY <1>5 DEF Middle
  <2> QED
    BY <1>10, <1>13, <2>1
<1> QED
  BY <1>11, <1>12, <1>14, <1>15, <1>16 DEF StartsInv

(* No mission is activated before its prerequisites have completed, unless *)
(* by --force, by delegate, or by two commands at work on it at a time.    *)
THEOREM PrerequisitesHold == Spec => []PrerequisitesFirst
<1>1. Init => StartsInv /\ PrerequisitesFirst
  BY QueueAssumption DEF Init, StartsInv, PrerequisitesFirst, Middle
<1>2. TypeOK /\ StartsInv /\ PrerequisitesFirst /\ [Next]_vars => StartsInv' /\ PrerequisitesFirst'
  BY OtherSteps, OwnerSteps, StartsSteps
<1> QED
  BY <1>1, <1>2, InitInv, NextTypeOK, PTL DEF Spec
-----------------------------------------------------------------------------
(* The lock, and what a dispatch does for the entry it takes.              *)

M == INSTANCE Mutex WITH Task <- Proc, inside <- {p \in Proc : Holding(p)},
                         broken <- stolen

ImplementsMutex == M!MutexSpec

(* One process at a time appends to the queue or dispatches from it, as    *)
(* long as the lock of a live process is not stolen.                       *)
THEOREM Exclusive == Spec => ImplementsMutex
<1> DEFINE In == {p \in Proc : Holding(p)}
<1>1. Init => M!MutexInit
  BY DEF Init, LockInit, M!MutexInit, Holding, Middle
<1>2. ASSUME TypeOK, LockInv, LockInv', [Next]_vars, ~stolen'
      PROVE  (\E p \in Proc : M!Enter(p) \/ M!Exit(p)) \/ (In' = In /\ stolen' = stolen)
  <2>0. ~stolen /\ stolen' = stolen
    <3>1. ~stolen
      BY <1>2, StolenStays
    <3>2. stolen \in BOOLEAN /\ stolen' \in BOOLEAN
      BY <1>2, LockTypes DEF TypeOK, LockOK
    <3> QED
      BY <1>2, <3>1, <3>2
  <2>1. \A p \in Proc : Holding(p)' => Holding(p) \/ Acquire(p)
    BY <1>2, HoldingStep
  <2>2. \A p \in Proc : Holding(p) => lock = p
    BY <1>2, <2>0 DEF LockInv
  <2>3. \A p \in Proc : Holding(p)' => lock' = p
    BY <1>2 DEF LockInv
  <2>4. CASE \E p \in Proc : Holding(p)
    <3>1. PICK p \in Proc : Holding(p)
      BY <2>4
    <3>2. \A q \in Proc : Holding(q) => q = p
      BY <2>2, <3>1
    <3>3. \A q \in Proc : Holding(q)' => q = p
      BY <2>1, <2>2, <3>1, <3>2, LockAssumption DEF Acquire, Take
    <3>4. In = {p} /\ (In' = {p} \/ In' = {})
      BY <3>1, <3>2, <3>3
    <3> QED
      BY <2>0, <3>4 DEF M!Exit
  <2>5. CASE ~\E p \in Proc : Holding(p)
    <3>1. In = {}
      BY <2>5
    <3>2. CASE \E p \in Proc : Holding(p)'
      <4>1. PICK p \in Proc : Holding(p)'
        BY <3>2
      <4>2. In' = {p}
        BY <2>3, <4>1
      <4> QED
        BY <3>1, <4>2 DEF M!Enter
    <3>3. CASE ~\E p \in Proc : Holding(p)'
      BY <2>0, <3>1, <3>3
    <3> QED
      BY <3>2, <3>3
  <2> QED
    BY <2>4, <2>5
<1>3. TypeOK /\ LockInv /\ LockInv' /\ [Next]_vars => [M!MutexNext]_<<In, stolen>>
  BY <1>2 DEF M!MutexNext
<1> QED
  BY <1>1, <1>3, InitInv, NextTypeOK, NextLockInv, PTL
     DEF Spec, ImplementsMutex, M!MutexSpec

(* What every step may do to the queue, and what a process has in hand     *)
(* afterwards.                                                             *)
Appends(p) == /\ pc[p] = "append" /\ pc'[p] = "idle"
              /\ queue' = Append(queue, work[p][1])

Marks(p, i) == /\ pc[p] = "scan" /\ pc'[p] = "load"
               /\ i \in Choices(queue)
               /\ queue' = [queue EXCEPT ![i].status = "dispatched"]
               /\ work'[p] = <<queue'[i]>>

LEMMA QueueStep ==
  ASSUME TypeOK, LockInv, ~stolen, [Next]_vars
  PROVE  \/ UNCHANGED queue
         \/ \E p \in Proc : Appends(p) /\ AppendEntry(p)
         \/ \E p \in Proc : DispatchMark(p) /\ \E i \in DOMAIN queue : Marks(p, i)
<1> SUFFICES ASSUME queue' # queue
             PROVE  \/ \E p \in Proc : Appends(p) /\ AppendEntry(p)
                    \/ \E p \in Proc : DispatchMark(p) /\ \E i \in DOMAIN queue : Marks(p, i)
  OBVIOUS
<1>1. PICK p \in Proc : AppendEntry(p) \/ DispatchMark(p)
  BY Writers
<1>2. CASE AppendEntry(p)
  <2>1. work[p] \in Seq(Entries) /\ Len(work[p]) = 1 /\ queue' = queue \o work[p]
    BY <1>2 DEF AppendEntry, TypeOK
  <2> DEFINE e == work[p][1]
  <2>2. work[p] = <<e>> /\ e \in Entries
    BY <2>1
  <2>3. queue \o <<e>> = Append(queue, e)
    <3> HIDE DEF e
    <3> QED BY <2>2 DEF TypeOK
  <2> QED
    BY <1>2, <2>1, <2>2, <2>3 DEF AppendEntry, Leave, Return, Goto, TypeOK, Appends
<1>3. CASE DispatchMark(p)
  <2>1. work[p] = queue /\ pc[p] = "scan"
    BY <1>3 DEF DispatchMark, LockInv
  <2>2. PICK i \in Choices(queue) :
           /\ queue' = [queue EXCEPT ![i].status = "dispatched"]
           /\ Goto(p, "load", <<queue'[i]>>)
    BY <1>3, <2>1 DEF DispatchMark
  <2>3. pc'[p] = "load" /\ work'[p] = <<queue'[i]>>
    BY <2>2 DEF Goto, TypeOK
  <2>4. Marks(p, i)
    BY <2>1, <2>2, <2>3 DEF Marks
  <2> QED
    BY <1>3, <2>4, ChoicesLemma
<1> QED
  BY <1>1, <1>2, <1>3
-----------------------------------------------------------------------------
(* The order of the dispatches.                                            *)

Building(p) == pc[p] \in {"enqueue", "append"}

(* The entries of the file and the ones about to be appended have each a   *)
(* time of their own.                                                      *)
DatesInv ==
    /\ \A i \in DOMAIN queue : queue[i].at <= clock
    /\ \A i, j \in DOMAIN queue : queue[i].at = queue[j].at => i = j
    /\ \A p \in Proc : Building(p) =>
          /\ work[p][1].at <= clock
          /\ \A i \in DOMAIN queue : queue[i].at # work[p][1].at
    /\ \A p, r \in Proc : Building(p) /\ Building(r) /\ work[p][1].at = work[r][1].at
          => p = r

(* A process builds an entry only when it has just dated it.               *)
LEMMA BuildStep ==
  ASSUME TypeOK, [Next]_vars
  PROVE  /\ \/ /\ clock' = clock
               /\ \A p \in Proc : Building(p)' => Building(p) /\ work'[p] = work[p]
            \/ /\ queue' = queue /\ clock' = clock + 1
               /\ \E p \in Proc :
                     /\ work'[p][1].at = clock + 1
                     /\ \A r \in Proc \ {p} :
                           Building(r)' => Building(r) /\ work'[r] = work[r]
         /\ clock \in Nat
<1> USE DEF TypeOK, Building
<1>1. ASSUME NEW p \in Proc, Enqueue(p)
      PROVE  /\ queue' = queue /\ clock' = clock + 1
             /\ work'[p][1].at = clock + 1
             /\ \A r \in Proc \ {p} : Building(r)' => Building(r) /\ work'[r] = work[r]
  BY <1>1 DEF Enqueue, Goto
<1>2. CASE Owner \/ UNCHANGED vars
  BY <1>2 DEF Owner, vars
<1>3. ASSUME NEW p \in Proc, Return(p), clock' = clock
      PROVE  /\ clock' = clock
             /\ \A r \in Proc : Building(r)' => Building(r) /\ work'[r] = work[r]
  BY <1>3, EndOfCommand DEF Moves
<1>4. ASSUME NEW p \in Proc, StartSteps(p)
      PROVE  /\ clock' = clock
             /\ \A r \in Proc : Building(r)' => Building(r) /\ work'[r] = work[r]
  <2>1. ASSUME NEW there \in Middle, NEW s \in SUBSET Mission, On(p, there, s)
        PROVE  \A r \in Proc : Building(r)' => Building(r) /\ work'[r] = work[r]
    BY <2>1 DEF On, Middle
  <2> QED
    BY <1>3, <1>4, <2>1, StartStepCases, EndOfStart
<1>5. ASSUME NEW p \in Proc,
             \/ LockTimeout(p) \/ PurgeError(p) \/ AppendEntry(p) \/ Crash(p) \/ PurgeStale(p)
      PROVE  /\ clock' = clock
             /\ \A r \in Proc : Building(r)' => Building(r) /\ work'[r] = work[r]
  BY <1>3, <1>5 DEF LockTimeout, PurgeError, AppendEntry, Crash, PurgeStale, Leave
<1>6. ASSUME NEW p \in Proc,
             \/ Acquire(p) \/ Dispatch(p) \/ StartByHand(p) \/ CreateByHand(p)
             \/ DispatchRead(p) \/ DispatchMark(p)
      PROVE  /\ clock' = clock
             /\ \A r \in Proc : Building(r)' => Building(r) /\ work'[r] = work[r]
  BY <1>3, <1>6 DEF Acquire, Dispatch, StartByHand, CreateByHand, Begin, DispatchRead,
     DispatchMark, Goto, Leave
<1>7. clock \in Nat
  BY QueueAssumption
<1> QED
  BY <1>1, <1>2, <1>4, <1>5, <1>6, <1>7 DEF Next, Call, Wait, Step, StartSteps

(* An entry that is appended keeps its time, one that is marked too.       *)
LEMMA AppendedEntry ==
  ASSUME TypeOK, NEW e
  PROVE  /\ DOMAIN Append(queue, e) = 1..(Len(queue) + 1)
         /\ DOMAIN queue = 1..Len(queue) /\ Len(queue) \in Nat
         /\ \A i \in DOMAIN queue : i \in DOMAIN Append(queue, e) /\ Append(queue, e)[i] = queue[i]
         /\ \A i \in DOMAIN Append(queue, e) :
               i \notin DOMAIN queue => i = Len(queue) + 1 /\ Append(queue, e)[i] = e
<1> DEFINE n == Len(queue)
<1>1. queue \in Seq(Entries) /\ DOMAIN queue = 1..n /\ n \in Nat
  BY DEF TypeOK
<1>2. /\ DOMAIN Append(queue, e) = 1..(n + 1)
      /\ \A i \in 1..n : Append(queue, e)[i] = queue[i]
      /\ Append(queue, e)[n + 1] = e
  BY <1>1
<1> HIDE DEF n
<1>3. \A i \in 1..(n + 1) : i \notin 1..n => i = n + 1
  BY <1>1
<1>4. \A i \in 1..n : i \in 1..(n + 1)
  BY <1>1
<1> QED
  BY <1>1, <1>2, <1>3, <1>4 DEF n

LEMMA MarkedEntry ==
  ASSUME TypeOK, NEW i \in DOMAIN queue, queue' = [queue EXCEPT ![i].status = "dispatched"]
  PROVE  /\ DOMAIN queue' = DOMAIN queue
         /\ \A j \in DOMAIN queue : /\ queue'[j].at = queue[j].at
                                    /\ queue'[j].mission = queue[j].mission
                                    /\ j # i => queue'[j] = queue[j]
         /\ queue'[i].status = "dispatched"
<1>1. \A j \in DOMAIN queue : queue[j] \in Entries
  BY DEF TypeOK
<1> QED
  BY <1>1 DEF Entries

LEMMA NextDates == TypeOK /\ LockInv /\ ~stolen /\ DatesInv /\ [Next]_vars => DatesInv'
<1> SUFFICES ASSUME TypeOK, LockInv, ~stolen, DatesInv, [Next]_vars PROVE DatesInv'
  OBVIOUS
<1> DEFINE Keeps == /\ clock' = clock
                    /\ \A p \in Proc : Building(p)' => Building(p) /\ work'[p] = work[p]
<1>1. CASE UNCHANGED queue /\ Keeps
  BY <1>1 DEF DatesInv
<1>2. ASSUME NEW p \in Proc, queue' = queue, clock' = clock + 1,
             work'[p][1].at = clock + 1,
             \A r \in Proc \ {p} : Building(r)' => Building(r) /\ work'[r] = work[r]
      PROVE  DatesInv'
  <2>a. \A e \in Entries : e.at \in Nat
    BY DEF Entries
  <2>b. \A i \in DOMAIN queue : queue[i] \in Entries
    BY DEF TypeOK
  <2>1. clock \in Nat /\ \A i \in DOMAIN queue : queue[i].at \in Nat
    BY <2>a, <2>b, BuildStep
  <2>2. \A r \in Proc : Building(r) => work[r][1].at \in Nat
    BY <2>a, WorkLemma DEF Building
  <2> HIDE DEF Keeps
  <2>3. \A i \in DOMAIN queue : queue[i].at <= clock + 1 /\ queue[i].at # clock + 1
    BY <2>1 DEF DatesInv
  <2>4. \A r \in Proc \ {p} : Building(r)' =>
           work'[r][1].at <= clock + 1 /\ work'[r][1].at # clock + 1
    BY <1>2, <2>1, <2>2 DEF DatesInv
  <2> QED
    BY <1>2, <2>1, <2>3, <2>4 DEF DatesInv
<1>3. ASSUME NEW p \in Proc, Appends(p), Keeps PROVE DatesInv'
  <2>1. /\ Building(p) /\ ~Building(p)' /\ queue' = Append(queue, work[p][1])
    BY <1>3 DEF Appends, Building
  <2>2. /\ DOMAIN queue' = 1..(Len(queue) + 1)
        /\ DOMAIN queue = 1..Len(queue) /\ Len(queue) \in Nat
        /\ \A i \in DOMAIN queue : queue'[i] = queue[i]
        /\ \A i \in DOMAIN queue' :
              i \notin DOMAIN queue => i = Len(queue) + 1 /\ queue'[i] = work[p][1]
    BY <2>1, AppendedEntry
  <2> QED
    BY <1>3, <2>1, <2>2 DEF DatesInv
<1>4. ASSUME NEW p \in Proc, NEW i \in DOMAIN queue, Marks(p, i), Keeps PROVE DatesInv'
  <2>1. /\ DOMAIN queue' = DOMAIN queue
        /\ \A j \in DOMAIN queue : queue'[j].at = queue[j].at
    BY <1>4, MarkedEntry DEF Marks
  <2> QED
    BY <1>4, <2>1 DEF DatesInv
<1> HIDE DEF Keeps
<1>5. Keeps \/ \E p \in Proc : /\ queue' = queue /\ clock' = clock + 1
                               /\ work'[p][1].at = clock + 1
                               /\ \A r \in Proc \ {p} :
                                     Building(r)' => Building(r) /\ work'[r] = work[r]
  BY BuildStep DEF Keeps
<1>6. CASE Keeps
  BY <1>1, <1>3, <1>4, <1>6, QueueStep
<1> QED
  BY <1>2, <1>5, <1>6

(* Every entry has a time of its own.                                      *)
LEMMA DatesAlways == Spec => [](TypeOK /\ LockInv /\ (stolen \/ DatesInv))
<1>1. Init => DatesInv
  BY DEF Init, DatesInv, Building
<1>2. TypeOK /\ [Next]_vars /\ stolen => stolen'
  BY LockTypes DEF Next, Owner, Call, Wait, Step, vars, lockVars, Enqueue, Dispatch,
     StartByHand, CreateByHand, Begin, Acquire, Take, LockTimeout, GiveUp, PurgeStale, Purge,
     PurgeError, LosePurge, AppendEntry, DispatchRead, DispatchMark, Crash, DieInside, DieTrying,
     Leave, LetGo, StartLoad, CreateTest, CreateSave, StartReload, StartSave, On, Finish
<1> QED
  BY <1>1, <1>2, InitInv, NextTypeOK, NextLockInv, NextDates, PTL DEF Spec

\* An entry that dispatch may take.
Ready(i) == /\ i \in DOMAIN queue /\ queue[i].status = "pending"
            /\ PrerequisitesMet(queue[i].mission)

(* The order of Before is one: no entry comes before itself, what comes    *)
(* before something comes before what follows it, and of two entries with  *)
(* times of their own one comes first.                                     *)
LEMMA BeforeOrder ==
  ASSUME NEW e \in Entries, NEW f \in Entries, NEW g \in Entries
  PROVE  /\ ~Before(e, e)
         /\ Before(e, f) /\ Before(f, g) => Before(e, g)
         /\ e.at # f.at => Before(e, f) \/ Before(f, e)
<1>1. \A x \in Entries : x.priority \in Nat /\ x.at \in Nat
  <2>1. Priorities \subseteq Nat
    BY QueueAssumption
  <2>2. \A x \in Entries : x.priority \in Priorities /\ x.at \in 1..MaxEntries
    BY DEF Entries
  <2>3. \A n \in 1..MaxEntries : n \in Nat
    OBVIOUS
  <2> QED
    BY <2>1, <2>2, <2>3
<1> QED
  BY <1>1 DEF Before

(* As long as an entry is ready there is one to take: the sets of what is  *)
(* before a ready entry are finite, and one that contains no other of them *)
(* is empty.                                                               *)
LEMMA SomethingToTake ==
  ASSUME TypeOK, DatesInv, NEW k, Ready(k)
  PROVE  Choices(queue) # {}
<1> DEFINE R == {i \in DOMAIN queue : queue[i].status = "pending"
                                      /\ PrerequisitesMet(queue[i].mission)}
           Above(i) == {j \in R : Before(queue[j], queue[i])}
           Aboves == {Above(i) : i \in R}
<1>1. R \subseteq DOMAIN queue /\ \A i \in DOMAIN queue : queue[i] \in Entries
  BY DEF TypeOK
<1>2. IsFiniteSet(R)
  <2>1. DOMAIN queue = 1..Len(queue) /\ 1 \in Int /\ Len(queue) \in Int
    BY DEF TypeOK
  <2>2. IsFiniteSet(DOMAIN queue)
    BY <2>1, FS_Interval
  <2> QED
    BY <1>1, <2>2, FS_Subset
<1>3. k \in R
  BY DEF Ready
<1>4. PICK i \in R : \A j \in R : ~(Above(j) \subseteq Above(i) /\ Above(j) # Above(i))
  <2>1. \A j : Above(j) \in SUBSET R
    OBVIOUS
  <2>2. Aboves \subseteq SUBSET R /\ Aboves # {}
    BY <1>3, <2>1
  <2> HIDE DEF R, Above
  <2>3. PICK x \in Aboves : \A y \in Aboves : ~(<<y, x>> \in StrictSubsetOrdering(R))
    <3> HIDE DEF Aboves
    <3>1. IsWellFoundedOn(StrictSubsetOrdering(R), SUBSET R)
      BY <1>2, FS_StrictSubsetOrderingWellFounded, FS_FiniteSubsetsOfFinite
    <3> QED
      BY <2>2, <3>1, WFMin
  <2>4. \A y \in Aboves : ~(y \subseteq x /\ y # x)
    BY <2>2, <2>3 DEF StrictSubsetOrdering
  <2> QED
    BY <2>3, <2>4
<1>5. ASSUME NEW j \in Above(i) PROVE FALSE
  <2>1. j \in R /\ Before(queue[j], queue[i])
    OBVIOUS
  <2>2. Above(j) \subseteq Above(i)
    BY <1>1, <2>1, BeforeOrder
  <2>3. j \in Above(i) /\ j \notin Above(j)
    BY <1>1, <2>1, BeforeOrder
  <2> QED
    BY <1>4, <2>1, <2>2, <2>3
<1>6. \A j \in R \ {i} : Before(queue[i], queue[j])
  <2> SUFFICES ASSUME NEW j \in R, j # i PROVE Before(queue[i], queue[j])
    OBVIOUS
  <2>1. queue[i].at # queue[j].at
    BY <1>1 DEF DatesInv
  <2>2. ~Before(queue[j], queue[i])
    BY <1>5
  <2> QED
    BY <1>1, <2>1, <2>2, BeforeOrder
<1>7. i \in Choices(queue)
  BY <1>6 DEF Choices
<1> QED
  BY <1>7

\* Entry i goes out in this step.
Dispatched(i) == /\ i \in DOMAIN queue /\ queue[i].status = "pending"
                 /\ i \in DOMAIN queue' /\ queue'[i].status = "dispatched"

(* What goes out is ready, and comes before all else that is ready, in the *)
(* file as it is when it goes out (mission-queue.ts:52-62), until a live   *)
(* process's lock is stolen.                                               *)
BestFirst == ~stolen =>
    \A i \in DOMAIN queue : Dispatched(i) =>
        Ready(i) /\ \A j \in DOMAIN queue \ {i} : Ready(j) => Before(queue[i], queue[j])

DispatchOrder == [][BestFirst]_vars

THEOREM DispatchInOrder == Spec => DispatchOrder
<1>1. TypeOK /\ LockInv /\ [Next]_vars => [BestFirst]_vars
  <2> SUFFICES ASSUME TypeOK, LockInv, ~stolen, [Next]_vars, NEW i \in DOMAIN queue,
                      Dispatched(i)
               PROVE  /\ Ready(i)
                      /\ \A j \in DOMAIN queue \ {i} : Ready(j) => Before(queue[i], queue[j])
    BY DEF BestFirst
  <2>1. CASE UNCHANGED queue
    BY <2>1 DEF Dispatched
  <2>2. ASSUME NEW p \in Proc, Appends(p) PROVE FALSE
    <3>1. queue'[i] = queue[i]
      BY <2>2, AppendedEntry DEF Appends
    <3> QED
      BY <3>1 DEF Dispatched
  <2>3. ASSUME NEW p \in Proc, NEW k \in DOMAIN queue, Marks(p, k)
        PROVE  /\ Ready(i)
               /\ \A j \in DOMAIN queue \ {i} : Ready(j) => Before(queue[i], queue[j])
    <3>1. i = k
      BY <2>3, MarkedEntry DEF Marks, Dispatched
    <3>2. i \in Choices(queue)
      BY <2>3, <3>1 DEF Marks
    <3> QED
      BY <3>2 DEF Choices, Ready
  <2> QED
    BY <2>1, <2>2, <2>3, QueueStep
<1> QED
  BY <1>1, InitInv, NextTypeOK, NextLockInv, PTL DEF Spec, DispatchOrder

(* A dispatch that has read the file takes an entry whenever one is ready: *)
(* only a dispatch that dies comes back without (mission-queue.ts:63), or  *)
(* one that is not alone in the lock.                                      *)
TakesWhatIsReady == ~stolen =>
    \A p \in Proc : pc[p] = "scan" /\ pc'[p] # "scan" /\ crashes' = crashes
                    /\ (\E i \in DOMAIN queue : Ready(i))
        => \E i \in DOMAIN queue : Dispatched(i)

NoReadyEntryPassed == [][TakesWhatIsReady]_vars

(* From "scan" a process goes on by DispatchMark, or dies.                 *)
LEMMA ScanEnds ==
  ASSUME TypeOK, [Next]_vars, NEW p \in Proc, pc[p] = "scan", pc'[p] # "scan",
         crashes' = crashes
  PROVE  DispatchMark(p)
<1> USE DEF TypeOK
<1>1. CASE Owner \/ UNCHANGED vars
  BY <1>1 DEF Owner, vars
<1>2. ASSUME NEW r \in Proc, r # p, Return(r) PROVE FALSE
  BY <1>2, EndOfCommand DEF Moves
<1>3. ASSUME NEW r \in Proc, StartSteps(r) PROVE FALSE
  <2>1. r # p
    BY <1>3, StartStepCases DEF Starts, Middle
  <2>2. ASSUME NEW there \in Middle, NEW s \in SUBSET Mission, On(r, there, s) PROVE FALSE
    BY <2>1, <2>2 DEF On
  <2> QED
    BY <1>2, <1>3, <2>1, <2>2, StartStepCases, EndOfStart
<1>4. ASSUME NEW r \in Proc, Call(r) \/ Acquire(r) \/ PurgeStale(r) PROVE FALSE
  BY <1>4 DEF Call, Enqueue, Dispatch, StartByHand, CreateByHand, Begin, Goto, Acquire, PurgeStale
<1>5. ASSUME NEW r \in Proc, LockTimeout(r) \/ PurgeError(r) \/ AppendEntry(r) PROVE FALSE
  BY <1>2, <1>5 DEF LockTimeout, PurgeError, AppendEntry, Leave
<1>6. ASSUME NEW r \in Proc, DispatchRead(r) PROVE FALSE
  BY <1>2, <1>6 DEF DispatchRead, Leave, Goto
<1>7. ASSUME NEW r \in Proc, r # p, DispatchMark(r) PROVE FALSE
  BY <1>2, <1>7 DEF DispatchMark, Leave, Goto
<1>8. ASSUME NEW r \in Proc, Crash(r) PROVE FALSE
  BY <1>8, QueueAssumption DEF Crash
<1> QED
  BY <1>1, <1>3, <1>4, <1>5, <1>6, <1>7, <1>8 DEF Next, Wait, Step, StartSteps

THEOREM ReadyIsTaken == Spec => NoReadyEntryPassed
<1>1. TypeOK /\ LockInv /\ (stolen \/ DatesInv) /\ [Next]_vars => [TakesWhatIsReady]_vars
  <2> SUFFICES ASSUME TypeOK, LockInv, DatesInv, ~stolen, [Next]_vars, NEW p \in Proc,
                      pc[p] = "scan", pc'[p] # "scan", crashes' = crashes,
                      NEW k, Ready(k)
               PROVE  \E i \in DOMAIN queue : Dispatched(i)
    BY DEF TakesWhatIsReady
  <2>1. DispatchMark(p)
    BY ScanEnds
  <2>2. work[p] = queue /\ Choices(queue) # {}
    BY <2>1, SomethingToTake DEF DispatchMark, LockInv
  <2>3. PICK i \in Choices(queue) : queue' = [queue EXCEPT ![i].status = "dispatched"]
    BY <2>1, <2>2 DEF DispatchMark
  <2> QED
    BY <2>3, ChoicesLemma, MarkedEntry DEF Dispatched
<1> QED
  BY <1>1, DatesAlways, PTL DEF Spec, NoReadyEntryPassed
-----------------------------------------------------------------------------
(* Marked before started.                                                  *)

\* p is about to call startMission for an entry.
Starting(p) == pc[p] = "load" /\ work[p] # <<>>

(* What a process starts is in the file, and marked.                       *)
StartInv == ~stolen =>
    \A p \in Proc : Starting(p) => \E i \in DOMAIN queue : /\ queue[i] = work[p][1]
                                                          /\ queue[i].status = "dispatched"

\* p goes on to startMission with an entry that it has marked in this very step.
StartsMarked == ~stolen =>
    \A p \in Proc : ~Starting(p) /\ Starting(p)' =>
        \E i \in DOMAIN queue : Dispatched(i) /\ work'[p] = <<queue'[i]>>

LEMMA StartStep ==
  ASSUME TypeOK, LockInv, ~stolen, [Next]_vars, NEW p \in Proc, Starting(p)'
  PROVE  \/ Starting(p) /\ work'[p] = work[p]
         \/ \E i \in DOMAIN queue : Marks(p, i)
<1> USE DEF TypeOK, Starting
<1>1. CASE Owner \/ UNCHANGED vars
  BY <1>1 DEF Owner, vars
<1>2. ASSUME NEW r \in Proc, Return(r) PROVE Starting(p) /\ work'[p] = work[p]
  BY <1>2, EndOfCommand DEF Moves
<1>3. ASSUME NEW r \in Proc, StartSteps(r) PROVE Starting(p) /\ work'[p] = work[p]
  <2>1. ASSUME NEW there \in Middle, NEW s \in SUBSET Mission, On(r, there, s)
        PROVE  Starting(p) /\ work'[p] = work[p]
    BY <2>1 DEF On, Middle
  <2> QED
    BY <1>2, <1>3, <2>1, StartStepCases, EndOfStart
<1>4. ASSUME NEW r \in Proc, Call(r) \/ Acquire(r) \/ PurgeStale(r)
      PROVE  Starting(p) /\ work'[p] = work[p]
  BY <1>4 DEF Call, Enqueue, Dispatch, StartByHand, CreateByHand, Begin, Goto, Acquire, PurgeStale
<1>5. ASSUME NEW r \in Proc, LockTimeout(r) \/ PurgeError(r) \/ AppendEntry(r) \/ Crash(r)
      PROVE  Starting(p) /\ work'[p] = work[p]
  BY <1>2, <1>5 DEF LockTimeout, PurgeError, AppendEntry, Crash, Leave
<1>6. ASSUME NEW r \in Proc, DispatchRead(r) \/ (DispatchMark(r) /\ r # p)
      PROVE  Starting(p) /\ work'[p] = work[p]
  BY <1>2, <1>6 DEF DispatchRead, DispatchMark, Leave, Goto
<1>7. ASSUME DispatchMark(p) PROVE \E i \in DOMAIN queue : Marks(p, i)
  <2>1. ~Leave(p)
    BY <1>2, <1>7 DEF DispatchMark, Leave
  <2>2. work[p] = queue /\ pc[p] = "scan"
    BY <1>7 DEF DispatchMark, LockInv
  <2>3. PICK i \in Choices(queue) :
           /\ queue' = [queue EXCEPT ![i].status = "dispatched"]
           /\ Goto(p, "load", <<queue'[i]>>)
    BY <1>7, <2>1, <2>2 DEF DispatchMark
  <2>4. Marks(p, i)
    BY <2>2, <2>3 DEF Marks, Goto
  <2> QED
    BY <2>4, ChoicesLemma
<1> QED
  BY <1>1, <1>3, <1>4, <1>5, <1>6, <1>7 DEF Next, Wait, Step, StartSteps

LEMMA NextStart ==
  ASSUME TypeOK, LockInv, StartInv, [Next]_vars
  PROVE  StartInv' /\ StartsMarked
<1> SUFFICES ASSUME ~stolen PROVE StartInv' /\ StartsMarked
  BY StolenStays DEF StartInv, StartsMarked
<1>1. ASSUME NEW p \in Proc, NEW i \in DOMAIN queue, Marks(p, i)
      PROVE  /\ Dispatched(i) /\ work'[p] = <<queue'[i]>>
             /\ i \in DOMAIN queue' /\ queue'[i] = work'[p][1]
             /\ queue'[i].status = "dispatched"
  <2>1. queue[i].status = "pending" /\ work'[p] = <<queue'[i]>>
    BY <1>1, ChoicesLemma DEF Marks
  <2>2. DOMAIN queue' = DOMAIN queue /\ queue'[i].status = "dispatched"
    BY <1>1, MarkedEntry DEF Marks
  <2> QED
    BY <2>1, <2>2 DEF Dispatched
<1>2. ASSUME NEW i \in DOMAIN queue, queue[i].status = "dispatched"
      PROVE  i \in DOMAIN queue' /\ queue'[i] = queue[i]
  <2>1. ASSUME NEW p \in Proc, Appends(p) PROVE i \in DOMAIN queue' /\ queue'[i] = queue[i]
    BY <2>1, AppendedEntry DEF Appends
  <2>2. ASSUME NEW p \in Proc, NEW k \in DOMAIN queue, Marks(p, k)
        PROVE  i \in DOMAIN queue' /\ queue'[i] = queue[i]
    <3>1. queue[k].status = "pending"
      BY <2>2, ChoicesLemma DEF Marks
    <3> QED
      BY <1>2, <2>2, <3>1, MarkedEntry DEF Marks
  <2> QED
    BY <2>1, <2>2, QueueStep
<1>3. StartInv'
  <2> SUFFICES ASSUME NEW p \in Proc, Starting(p)'
               PROVE  \E i \in DOMAIN queue' : /\ queue'[i] = work'[p][1]
                                               /\ queue'[i].status = "dispatched"
    BY DEF StartInv
  <2>1. CASE Starting(p) /\ work'[p] = work[p]
    BY <1>2, <2>1 DEF StartInv
  <2>2. CASE \E i \in DOMAIN queue : Marks(p, i)
    BY <1>1, <2>2
  <2> QED
    BY <2>1, <2>2, StartStep
<1>4. StartsMarked
  BY <1>1, StartStep DEF StartsMarked
<1> QED
  BY <1>3, <1>4

(* An entry is marked in the file before startMission is called for it,    *)
(* and each call has a mark of its own.  As no mark is taken back          *)
(* (QueueKept), no entry is started twice, whoever dies in between, until  *)
(* the lock of a live process is stolen.                                   *)
THEOREM StartedAtMostOnce == Spec => []StartInv /\ [][StartsMarked]_vars
<1>1. Init => StartInv
  BY DEF Init, StartInv, Starting
<1>2. TypeOK /\ LockInv /\ StartInv /\ [Next]_vars => StartInv' /\ [StartsMarked]_vars
  BY NextStart
<1> QED
  BY <1>1, <1>2, InitInv, NextTypeOK, NextLockInv, PTL DEF Spec

-----------------------------------------------------------------------------
(* Commands end.  That a process can take a step when it is inside a       *)
(* command, and while it waits for the lock can look at it again, is a     *)
(* hypothesis: ENABLED is out of the provers' reach.                       *)

At(p, here) == pc[p] = here

Waiting(p) == pc[p] \in {"enqueue", "dispatch"}

AbleAt(p) == /\ ~Waiting(p) /\ pc[p] # "idle" => ENABLED <<Step(p)>>_vars
             /\ Waiting(p) /\ lock = Dead => ENABLED <<PurgeStale(p)>>_vars
             /\ Waiting(p) /\ lock # Dead => ENABLED <<Wait(p)>>_vars

Able == \A p \in Proc : []AbleAt(p)

\* Nobody but p moves p, except that it may die, or wait and give up.
LEMMA OthersLeaveIt ==
  ASSUME TypeOK, [Next]_vars, NEW p \in Proc, pc[p] # "idle", ~Step(p), ~Wait(p)
  PROVE  pc'[p] \in {pc[p], "idle"}
<1> USE DEF TypeOK
<1>1. CASE Owner \/ UNCHANGED vars
  BY <1>1 DEF Owner, vars
<1>2. ASSUME NEW r \in Proc, Return(r) PROVE pc'[p] \in {pc[p], "idle"}
  BY <1>2, EndOfCommand DEF Moves
<1>3. ASSUME NEW r \in Proc, StartSteps(r) PROVE pc'[p] \in {pc[p], "idle"}
  <2>1. r # p
    BY <1>3 DEF StartSteps, Step
  <2>2. ASSUME NEW there \in Middle, NEW s \in SUBSET Mission, On(r, there, s)
        PROVE  pc'[p] = pc[p]
    BY <2>1, <2>2 DEF On
  <2> QED
    BY <1>2, <1>3, <2>2, StartStepCases, EndOfStart
<1>4. ASSUME NEW r \in Proc, Call(r) \/ PurgeStale(r) PROVE pc'[p] = pc[p]
  BY <1>4 DEF Call, Enqueue, Dispatch, StartByHand, CreateByHand, Begin, Goto, PurgeStale
<1>5. ASSUME NEW r \in Proc, LockTimeout(r) \/ PurgeError(r) \/ AppendEntry(r) \/ Crash(r)
      PROVE  pc'[p] \in {pc[p], "idle"}
  BY <1>2, <1>5 DEF LockTimeout, PurgeError, AppendEntry, Crash, Leave
<1>6. ASSUME NEW r \in Proc, r # p, Acquire(r) \/ DispatchRead(r) \/ DispatchMark(r)
      PROVE  pc'[p] \in {pc[p], "idle"}
  BY <1>2, <1>6 DEF Acquire, DispatchRead, DispatchMark, Leave, Goto
<1> QED
  BY <1>1, <1>3, <1>4, <1>5, <1>6 DEF Next, Wait, Step, StartSteps

\* Where p is after a step of its own.
LEMMA OwnStep ==
  ASSUME TypeOK, NEW p \in Proc, Step(p)
  PROVE  /\ ~Waiting(p)
         /\ At(p, "read") => At(p, "scan")' \/ At(p, "idle")'
         /\ At(p, "scan") => At(p, "load")' \/ At(p, "idle")'
         /\ At(p, "append") => At(p, "idle")'
         /\ At(p, "load") => At(p, "create")' \/ At(p, "save")' \/ At(p, "idle")'
         /\ At(p, "make") => At(p, "write")' \/ At(p, "reload")' \/ At(p, "idle")'
         /\ At(p, "create") => At(p, "write")' \/ At(p, "reload")' \/ At(p, "idle")'
         /\ At(p, "write") => At(p, "reload")' \/ At(p, "idle")'
         /\ At(p, "reload") => At(p, "save")' \/ At(p, "idle")'
         /\ At(p, "save") => At(p, "idle")'
BY DEF At, Waiting, TypeOK, Goto, Return, Leave, Finish, On, Step, AppendEntry, DispatchRead,
       DispatchMark, StartLoad, CreateTest, CreateSave, StartReload, StartSave

\* While it waits it gets in or gives up; what it unlinks is gone.
LEMMA WaitStep ==
  ASSUME TypeOK, NEW p \in Proc
  PROVE  /\ Wait(p) => Waiting(p) /\ (At(p, "append")' \/ At(p, "read")' \/ At(p, "idle")')
         /\ PurgeStale(p) => lock' # Dead
BY LockAssumption DEF At, Waiting, TypeOK, Goto, Return, Wait, Acquire, LockTimeout, PurgeStale,
   Purge

Live(p) == []TypeOK /\ [][Next]_vars /\ Fair(p) /\ []AbleAt(p)

LEMMA ProcessLives ==
  ASSUME NEW p \in Proc
  PROVE  FairSpec /\ Able => Live(p)
<1>1. FairSpec => Fair(p)
  BY DEF FairSpec
<1>2. Able => []AbleAt(p)
  BY DEF Able
<1> QED
  BY <1>1, <1>2, TypeCorrect, PTL DEF FairSpec, Spec, Live

(* Every enqueue, dispatch, start and create ends, however many processes  *)
(* contend for the lock, whoever dies and whatever is stolen: nobody waits *)
(* for the lock for ever, and whoever holds it lets go of it.              *)
THEOREM CommandsEnd ==
  ASSUME NEW p \in Proc
  PROVE  FairSpec /\ Able => (pc[p] # "idle" ~> pc[p] = "idle")
<1>1. ASSUME NEW here \in PCs \ {"idle"}
      PROVE  TypeOK /\ At(p, here) /\ [Next]_vars
                => At(p, here)' \/ At(p, "idle")' \/ Step(p) \/ Wait(p)
  BY <1>1, OthersLeaveIt DEF At
<1>2. /\ TypeOK /\ At(p, "read") /\ [Next]_vars => At(p, "read")' \/ At(p, "idle")' \/ Step(p)
      /\ TypeOK /\ At(p, "scan") /\ [Next]_vars => At(p, "scan")' \/ At(p, "idle")' \/ Step(p)
      /\ TypeOK /\ At(p, "append") /\ [Next]_vars => At(p, "append")' \/ At(p, "idle")' \/ Step(p)
      /\ TypeOK /\ At(p, "load") /\ [Next]_vars => At(p, "load")' \/ At(p, "idle")' \/ Step(p)
      /\ TypeOK /\ At(p, "make") /\ [Next]_vars => At(p, "make")' \/ At(p, "idle")' \/ Step(p)
      /\ TypeOK /\ At(p, "create") /\ [Next]_vars => At(p, "create")' \/ At(p, "idle")' \/ Step(p)
      /\ TypeOK /\ At(p, "write") /\ [Next]_vars => At(p, "write")' \/ At(p, "idle")' \/ Step(p)
      /\ TypeOK /\ At(p, "reload") /\ [Next]_vars => At(p, "reload")' \/ At(p, "idle")' \/ Step(p)
      /\ TypeOK /\ At(p, "save") /\ [Next]_vars => At(p, "save")' \/ At(p, "idle")' \/ Step(p)
  BY <1>1, WaitStep DEF At, Waiting, PCs, Middle
<1>3. TypeOK /\ Waiting(p) /\ [Next]_vars => Waiting(p)' \/ At(p, "idle")' \/ Wait(p)
  BY <1>1, OwnStep DEF At, Waiting, PCs
<1>4. /\ TypeOK /\ At(p, "read") /\ Step(p) => At(p, "scan")' \/ At(p, "idle")'
      /\ TypeOK /\ At(p, "scan") /\ Step(p) => At(p, "load")' \/ At(p, "idle")'
      /\ TypeOK /\ At(p, "append") /\ Step(p) => At(p, "idle")'
      /\ TypeOK /\ At(p, "load") /\ Step(p) => At(p, "create")' \/ At(p, "save")' \/ At(p, "idle")'
      /\ TypeOK /\ At(p, "make") /\ Step(p) => At(p, "write")' \/ At(p, "reload")' \/ At(p, "idle")'
      /\ TypeOK /\ At(p, "create") /\ Step(p) => At(p, "write")' \/ At(p, "reload")' \/ At(p, "idle")'
      /\ TypeOK /\ At(p, "write") /\ Step(p) => At(p, "reload")' \/ At(p, "idle")'
      /\ TypeOK /\ At(p, "reload") /\ Step(p) => At(p, "save")' \/ At(p, "idle")'
      /\ TypeOK /\ At(p, "save") /\ Step(p) => At(p, "idle")'
  BY OwnStep
<1>5. /\ TypeOK /\ Wait(p) => Waiting(p) /\ (At(p, "append")' \/ At(p, "read")' \/ At(p, "idle")')
      /\ TypeOK /\ PurgeStale(p) => ~(lock = Dead)'
  BY WaitStep
<1>6. /\ At(p, "idle") <=> pc[p] = "idle"
      /\ Waiting(p) => ~At(p, "idle")
      /\ At(p, "read") => ~At(p, "idle") /\ ~Waiting(p)
      /\ At(p, "scan") => ~At(p, "idle") /\ ~Waiting(p)
      /\ At(p, "append") => ~At(p, "idle") /\ ~Waiting(p)
      /\ At(p, "load") => ~At(p, "idle") /\ ~Waiting(p)
      /\ At(p, "make") => ~At(p, "idle") /\ ~Waiting(p)
      /\ At(p, "create") => ~At(p, "idle") /\ ~Waiting(p)
      /\ At(p, "write") => ~At(p, "idle") /\ ~Waiting(p)
      /\ At(p, "reload") => ~At(p, "idle") /\ ~Waiting(p)
      /\ At(p, "save") => ~At(p, "idle") /\ ~Waiting(p)
  BY DEF At, Waiting
<1>7. TypeOK => \/ Waiting(p) \/ At(p, "idle")
                \/ At(p, "read") \/ At(p, "scan") \/ At(p, "append") \/ At(p, "load")
                \/ At(p, "make") \/ At(p, "create") \/ At(p, "write") \/ At(p, "reload") \/ At(p, "save")
  BY DEF TypeOK, PCs, Middle, At, Waiting
<1>8. AbleAt(p) => /\ ~Waiting(p) /\ ~At(p, "idle") => ENABLED <<Step(p)>>_vars
                   /\ Waiting(p) /\ lock = Dead => ENABLED <<PurgeStale(p)>>_vars
                   /\ Waiting(p) /\ ~(lock = Dead) => ENABLED <<Wait(p)>>_vars
  BY DEF AbleAt, At
\* A lock that is waited for does not stay dead, and so the wait ends.
<1>9. Live(p) => (Waiting(p) ~> At(p, "append") \/ At(p, "read") \/ At(p, "idle"))
  BY <1>3, <1>5, <1>6, <1>8, PTL DEF Live, Fair
<1>10. Live(p) => (At(p, "save") ~> At(p, "idle"))
  BY <1>2, <1>4, <1>6, <1>8, PTL DEF Live, Fair
<1>11. Live(p) => (At(p, "reload") ~> At(p, "idle"))
  BY <1>2, <1>4, <1>6, <1>8, <1>10, PTL DEF Live, Fair
<1>12. Live(p) => (At(p, "write") ~> At(p, "idle"))
  BY <1>2, <1>4, <1>6, <1>8, <1>11, PTL DEF Live, Fair
<1>13. Live(p) => (At(p, "create") \/ At(p, "make") ~> At(p, "idle"))
  BY <1>2, <1>4, <1>6, <1>8, <1>11, <1>12, PTL DEF Live, Fair
<1>14. Live(p) => (At(p, "load") ~> At(p, "idle"))
  BY <1>2, <1>4, <1>6, <1>8, <1>10, <1>13, PTL DEF Live, Fair
<1>15. Live(p) => (At(p, "read") \/ At(p, "scan") \/ At(p, "append") ~> At(p, "idle"))
  BY <1>2, <1>4, <1>6, <1>8, <1>14, PTL DEF Live, Fair
<1>16. Live(p) => (pc[p] # "idle" ~> pc[p] = "idle")
  BY <1>6, <1>7, <1>9, <1>10, <1>11, <1>12, <1>13, <1>14, <1>15, PTL DEF Live
<1> QED
  BY <1>16, ProcessLives, PTL
=============================================================================
