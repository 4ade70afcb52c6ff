-------------------------- MODULE LockUtilsProofs --------------------------
(***************************************************************************)
(* Proofs about module LockUtils, for any set of tasks, any assignment of  *)
(* tasks to processes and any set of processes that may die.               *)
(***************************************************************************)
EXTENDS LockUtils, TLAPS

(* A task between create and release owns the file at the lock's path, as  *)
(* long as nobody has judged a lock stale.                                 *)
Owns(t) == /\ file # NoFile
           /\ file.by = t
           /\ pc[t] # "opened" => file.pid = PidOf[t]

OwnershipInv == ~purged => \A t \in Task : pc[t] \in Owning => Owns(t)

\* Only a task that judged a lock stale is about to unlink somebody's file.
PurgerInv == \A t \in Task : pc[t] \in {"stale", "unlink"} => purged

IInv == TypeOK /\ OwnershipInv /\ PurgerInv /\ LockFileHasOwner

LEMMA InitIInv == Init => IInv
  BY DEF Init, IInv, TypeOK, OwnershipInv, PurgerInv, LockFileHasOwner, PCs,
         Synchronous, Owning

LEMMA NextTypeOK == TypeOK /\ [Next]_vars => TypeOK'
<1> SUFFICES ASSUME TypeOK, [Next]_vars PROVE TypeOK'
  OBVIOUS
<1> USE LockAssumption DEF TypeOK, LockFiles, PCs, Synchronous, At, Goto
<1>1. ASSUME NEW t \in Task, Begin(t) PROVE TypeOK'
  BY <1>1 DEF Begin
<1>2. ASSUME NEW t \in Task, Create(t) PROVE TypeOK'
  BY <1>2 DEF Create
<1>3. ASSUME NEW t \in Task, WritePid(t) PROVE TypeOK'
  BY <1>3 DEF WritePid
<1>4. ASSUME NEW t \in Task, ReadHolder(t) PROVE TypeOK'
  BY <1>4 DEF ReadHolder, Content
<1>5. ASSUME NEW t \in Task, Probe(t) PROVE TypeOK'
  BY <1>5 DEF Probe
<1>6. ASSUME NEW t \in Task, PurgeTest(t) \/ PurgeUnlink(t) PROVE TypeOK'
  BY <1>6 DEF PurgeTest, PurgeUnlink
<1>7. ASSUME NEW t \in Task, Retry(t) \/ TimeOut(t) \/ Leave(t) PROVE TypeOK'
  BY <1>7 DEF Retry, TimeOut, Leave
<1>8. ASSUME NEW t \in Task, ReleaseTest(t) \/ ReleaseRead(t) \/ ReleaseUnlink(t)
      PROVE TypeOK'
  BY <1>8 DEF ReleaseTest, ReleaseRead, ReleaseUnlink
<1>9. ASSUME NEW q \in Pid, Die(q) PROVE TypeOK'
  BY <1>9 DEF Die
<1>10. CASE UNCHANGED vars
  BY <1>10 DEF vars
<1> QED
  BY <1>1, <1>2, <1>3, <1>4, <1>5, <1>6, <1>7, <1>8, <1>9, <1>10
     DEF Next, Step, Acquire, Release

(* One case per action: who owns the file after it.                        *)
LEMMA NextIInv == IInv /\ [Next]_vars => IInv'
<1> SUFFICES ASSUME IInv, [Next]_vars PROVE IInv'
  OBVIOUS
<1>t. TypeOK'
  BY NextTypeOK DEF IInv
<1> DEFINE Rest == OwnershipInv /\ PurgerInv /\ LockFileHasOwner
<1> USE LockAssumption
    DEF IInv, TypeOK, LockFiles, OwnershipInv, PurgerInv, LockFileHasOwner, Owns,
        Owning, Synchronous, PCs, At, Goto
<1>1. ASSUME NEW t \in Task, Begin(t) PROVE Rest'
  BY <1>1 DEF Begin
<1>2. ASSUME NEW t \in Task, Create(t) PROVE Rest'
  <2>1. CASE file = NoFile
    BY <1>2, <2>1 DEF Create
  <2>2. CASE file # NoFile
    BY <1>2, <2>2 DEF Create
  <2> QED
    BY <2>1, <2>2
<1>3. ASSUME NEW t \in Task, WritePid(t) PROVE Rest'
  BY <1>3 DEF WritePid
<1>4. ASSUME NEW t \in Task, ReadHolder(t) PROVE Rest'
  BY <1>4 DEF ReadHolder
<1>5. ASSUME NEW t \in Task, Probe(t) PROVE Rest'
  BY <1>5 DEF Probe
<1>6. ASSUME NEW t \in Task, PurgeTest(t) \/ PurgeUnlink(t) PROVE Rest'
  BY <1>6 DEF PurgeTest, PurgeUnlink
<1>7. ASSUME NEW t \in Task, Retry(t) \/ TimeOut(t) \/ Leave(t) PROVE Rest'
  BY <1>7 DEF Retry, TimeOut, Leave
<1>8. ASSUME NEW t \in Task, ReleaseTest(t) PROVE Rest'
  BY <1>8 DEF ReleaseTest
<1>9. ASSUME NEW t \in Task, ReleaseRead(t) PROVE Rest'
  BY <1>9 DEF ReleaseRead, Content
<1>10. ASSUME NEW t \in Task, ReleaseUnlink(t) PROVE Rest'
  BY <1>10 DEF ReleaseUnlink
<1>11. ASSUME NEW q \in Pid, Die(q) PROVE Rest'
  BY <1>11 DEF Die
<1>12. CASE UNCHANGED vars
  BY <1>12 DEF vars
<1> QED
  BY <1>t, <1>1, <1>2, <1>3, <1>4, <1>5, <1>6, <1>7, <1>8, <1>9, <1>10, <1>11,
     <1>12 DEF Next, Step, Acquire, Release

LEMMA Invariance == Spec => []IInv
  BY InitIInv, NextIInv, PTL DEF Spec

(* The state of withLock keeps its types, whoever contends and dies.       *)
THEOREM TypeCorrect == Spec => []TypeOK
<1>1. IInv => TypeOK
  BY DEF IInv
<1> QED
  BY <1>1, Invariance, PTL

(* withLock excludes until some contender judges a lock stale, whichever   *)
(* processes die and wherever they do.                                     *)
THEOREM Exclusion == Spec => []ExclusiveUntilPurge
<1>1. IInv => ExclusiveUntilPurge
  BY DEF IInv, OwnershipInv, Owns, Owning, ExclusiveUntilPurge, MutualExclusion
<1> QED
  BY <1>1, Invariance, PTL

(* No lock file is left by a task that runs releaseLock to its end.        *)
THEOREM NoLeakedLock == Spec => []LockFileHasOwner
<1>1. IInv => LockFileHasOwner
  BY DEF IInv
<1> QED
  BY <1>1, Invariance, PTL

\* purged never becomes false again.
LEMMA PurgedStays == purged /\ [Next]_vars => purged'
  BY DEF Next, vars, Step, Acquire, Release, At, Goto, Begin, Create, WritePid,
         ReadHolder, Probe, PurgeTest, PurgeUnlink, Retry, TimeOut, Leave,
         ReleaseTest, ReleaseRead, ReleaseUnlink, Die

(* A step that leaves every lock unjudged is a step of the mutex, or       *)
(* changes nothing its callers see.                                        *)
LEMMA StepRefines ==
  IInv /\ ~purged' /\ [Next]_vars => M!MutexNext \/ UNCHANGED Inside
<1> SUFFICES ASSUME IInv, ~purged, ~purged', [Next]_vars
             PROVE  M!MutexNext \/ UNCHANGED Inside
  BY PurgedStays
<1> USE DEF IInv, TypeOK, OwnershipInv, Owns, Owning, At, Goto, Inside
<1>1. ASSUME NEW t \in Task, pc' = [pc EXCEPT ![t] = pc'[t]],
             pc[t] # "locked", pc'[t] # "locked"
      PROVE  UNCHANGED Inside
  BY <1>1
<1>2. ASSUME NEW t \in Task, WritePid(t) PROVE M!Enter(t)
  <2>1. /\ pc[t] = "opened"
        /\ pc' = [pc EXCEPT ![t] = "locked"]
    BY <1>2 DEF WritePid
  <2>2. Inside = {}
    BY <2>1
  <2>3. Inside' = {t}
    BY <2>1, <2>2
  <2> QED
    BY <2>2, <2>3 DEF M!Enter
<1>3. ASSUME NEW t \in Task, Leave(t) PROVE M!Exit(t)
  BY <1>3 DEF Leave, M!Exit
<1>4. ASSUME NEW q \in Pid, Die(q) PROVE M!MutexNext \/ UNCHANGED Inside
  <2>1. CASE \E t \in Task : pc[t] = "locked" /\ PidOf[t] = q
    <3>1. PICK t \in Task : pc[t] = "locked" /\ PidOf[t] = q
      BY <2>1
    <3>2. Inside = {t}
      BY <3>1
    <3>3. Inside' = {}
      BY <1>4, <3>1, <3>2 DEF Die
    <3>4. M!Exit(t)
      BY <3>2, <3>3 DEF M!Exit
    <3> QED
      BY <3>4 DEF M!MutexNext
  <2>2. CASE ~ \E t \in Task : pc[t] = "locked" /\ PidOf[t] = q
    BY <1>4, <2>2 DEF Die
  <2> QED
    BY <2>1, <2>2
<1>5. ASSUME NEW t \in Task,
             \/ Begin(t) \/ Create(t) \/ ReadHolder(t) \/ Probe(t)
             \/ PurgeTest(t) \/ PurgeUnlink(t) \/ Retry(t) \/ TimeOut(t)
             \/ ReleaseTest(t) \/ ReleaseRead(t) \/ ReleaseUnlink(t)
      PROVE  UNCHANGED Inside
  BY <1>1, <1>5 DEF Begin, Create, ReadHolder, Probe, PurgeTest, PurgeUnlink,
                    Retry, TimeOut, ReleaseTest, ReleaseRead, ReleaseUnlink
<1>6. CASE UNCHANGED vars
  BY <1>6 DEF vars
<1> QED
  BY <1>2, <1>3, <1>4, <1>5, <1>6 DEF Next, Step, Acquire, Release, M!MutexNext

(* withLock is the mutex its callers take it for, whoever dies and         *)
(* wherever, until a contender judges a lock stale.                        *)
THEOREM Refinement == Spec => ImplementsMutex
<1>1. Init => M!MutexInit
  BY DEF Init, M!MutexInit, Inside
<1>2. IInv /\ [Next]_vars => [M!MutexNext]_<<Inside, purged>>
  <2>1. purged' => M!MutexNext
    BY DEF M!MutexNext
  <2>2. IInv /\ ~purged' /\ [Next]_vars => [M!MutexNext]_<<Inside, purged>>
    BY StepRefines, PurgedStays, NextTypeOK DEF IInv, TypeOK
  <2> QED
    BY <2>1, <2>2
<1> QED
  BY <1>1, <1>2, Invariance, PTL DEF Spec, ImplementsMutex, M!MutexSpec

(* No contender judges a lock stale if no process dies.                    *)
LEMMA NoDeathNoPurge == ASSUME Mortal = {} PROVE Spec => []~purged
<1> DEFINE Inv == /\ alive = Pid
                  /\ ~purged
                  /\ \A t \in Task : pc[t] = "probe" => seen[t] \in Pid
<1>1. Init => Inv
  BY DEF Init
<1>2. TypeOK /\ Inv /\ [Next]_vars => Inv'
  BY LockAssumption
     DEF TypeOK, LockFiles, Next, vars, Step, Acquire, Release, At, Goto, Content,
         Begin, Create, WritePid, ReadHolder, Probe, PurgeTest, PurgeUnlink, Retry,
         TimeOut, Leave, ReleaseTest, ReleaseRead, ReleaseUnlink, Die
<1> QED
  BY <1>1, <1>2, TypeCorrect, PTL DEF Spec

(* Where no process dies, no two tasks are ever inside fn.                 *)
THEOREM ExclusionWithoutDeath ==
  ASSUME Mortal = {} PROVE Spec => []MutualExclusion
<1>1. ~purged /\ ExclusiveUntilPurge => MutualExclusion
  BY DEF ExclusiveUntilPurge
<1> QED
  BY <1>1, NoDeathNoPurge, Exclusion, PTL
-----------------------------------------------------------------------------
(* The lock of a dead process goes away.                                   *)

\* The guard of Step(t).
Ready(t) == /\ pc[t] # "dead"
            /\ \A u \in Task \ {t} : PidOf[u] = PidOf[t] => pc[u] \notin Synchronous

\* A task that is left to try: its process lives on and makes one call at a time.
Survivor(t) == /\ PidOf[t] \notin Mortal
               /\ \A u \in Task \ {t} : PidOf[u] # PidOf[t]

Lives(t) == PidOf[t] \in alive /\ pc[t] # "dead"

\* t is at here while the lock of q waits for it.
Waits(t, q, here) == Orphaned(q) /\ pc[t] = here

\* t has read the pid of q and is going to probe it.
Found(t, q) == Waits(t, q, "probe") /\ seen[t] = q

LEMMA SurvivorLives ==
  ASSUME NEW t \in Task, Survivor(t) PROVE Spec => []Lives(t)
<1>1. Init => Lives(t)
  BY LockAssumption DEF Init, Lives
<1>2. TypeOK /\ Lives(t) /\ [Next]_vars => Lives(t)'
  BY LockAssumption
     DEF TypeOK, Lives, Survivor, Next, vars, Step, Acquire, Release, At, Goto, Begin,
         Create, WritePid, ReadHolder, Probe, PurgeTest, PurgeUnlink, Retry, TimeOut,
         Leave, ReleaseTest, ReleaseRead, ReleaseUnlink, Die
<1> QED
  BY <1>1, <1>2, TypeCorrect, PTL DEF Spec

\* A dead process stays dead, and only its own tasks write its pid.
LEMMA OrphanedStays ==
  ASSUME NEW q \in Pid, TypeOK, Orphaned(q), [Next]_vars
  PROVE  Orphaned(q)' \/ Gone(q)'
  BY DEF Orphaned, Gone, Next, vars, Step, Acquire, Release, Begin, Create, WritePid,
         ReadHolder, Probe, PurgeTest, PurgeUnlink, Retry, TimeOut, Leave,
         ReleaseTest, ReleaseRead, ReleaseUnlink, Die

\* The others do not move a survivor.
LEMMA OthersLeaveIt ==
  ASSUME NEW t \in Task, Survivor(t), TypeOK, [Next]_vars, ~Step(t)
  PROVE  pc'[t] = pc[t] /\ seen'[t] = seen[t]
<1> USE DEF TypeOK, At, Goto
<1>1. ASSUME NEW u \in Task, u # t, Step(u) PROVE pc'[t] = pc[t] /\ seen'[t] = seen[t]
  BY <1>1 DEF Step, Acquire, Release, Begin, Create, WritePid, ReadHolder, Probe,
              PurgeTest, PurgeUnlink, Retry, TimeOut, Leave, ReleaseTest,
              ReleaseRead, ReleaseUnlink
<1>2. ASSUME NEW q \in Pid, Die(q) PROVE pc'[t] = pc[t] /\ seen'[t] = seen[t]
  BY <1>2 DEF Die, Survivor
<1>3. CASE UNCHANGED vars
  BY <1>3 DEF vars
<1> QED
  BY <1>1, <1>2, <1>3 DEF Next

\* Where a survivor goes in one step while a dead process's file is there.
Onward(t, q, here) ==
    CASE here = "idle"   -> Waits(t, q, "try")
      [] here = "try"    -> Waits(t, q, "read")
      [] here = "read"   -> Found(t, q)
      [] here = "probe"  -> Waits(t, q, "loop") \/ Waits(t, q, "stale")
      [] here = "loop"   -> Waits(t, q, "try") \/ Waits(t, q, "idle")
      [] here = "stale"  -> Waits(t, q, "unlink")
      [] here = "opened" -> Waits(t, q, "locked")
      [] here = "locked" -> Waits(t, q, "rel")
      [] here = "rel"    -> Waits(t, q, "relRead")
      [] here = "relRead" -> Waits(t, q, "idle")
      [] OTHER           -> FALSE

LEMMA SurvivorSteps ==
  ASSUME NEW t \in Task, NEW q \in Pid, NEW here \in PCs,
         TypeOK, Lives(t), Waits(t, q, here), Step(t)
  PROVE  Gone(q)' \/ Onward(t, q, here)'
<1> USE LockAssumption DEF TypeOK, LockFiles, Lives, Orphaned, Gone, At, Goto, Waits, Found, Onward
<1>1. CASE Begin(t)
  BY <1>1 DEF Begin
<1>2. CASE Create(t)
  BY <1>2 DEF Create
<1>3. CASE WritePid(t)
  BY <1>3 DEF WritePid
<1>4. CASE ReadHolder(t)
  BY <1>4 DEF ReadHolder, Content
<1>5. CASE Probe(t)
  BY <1>5 DEF Probe
<1>6. CASE PurgeTest(t) \/ PurgeUnlink(t)
  BY <1>6 DEF PurgeTest, PurgeUnlink
<1>7. CASE Retry(t) \/ TimeOut(t) \/ Leave(t)
  BY <1>7 DEF Retry, TimeOut, Leave
<1>8. CASE ReleaseTest(t) \/ ReleaseRead(t) \/ ReleaseUnlink(t)
  BY <1>8 DEF ReleaseTest, ReleaseRead, ReleaseUnlink, Content
<1> QED
  BY <1>1, <1>2, <1>3, <1>4, <1>5, <1>6, <1>7, <1>8 DEF Step, Acquire, Release

\* What it has read of the file of a dead process makes it call the lock stale.
LEMMA FinderSteps ==
  ASSUME NEW t \in Task, NEW q \in Pid, TypeOK, Found(t, q), Step(t)
  PROVE  Gone(q)' \/ Waits(t, q, "stale")'
  BY DEF TypeOK, Found, Waits, Orphaned, Gone, Step, Acquire, Release, At, Goto, Begin,
         Create, WritePid, ReadHolder, Probe, PurgeTest, PurgeUnlink, Retry, TimeOut,
         Leave, ReleaseTest, ReleaseRead, ReleaseUnlink

\* The process of t keeps running, and t can move when its guard holds.
Runs(t) == Spec /\ Fair(t) /\ [](Ready(t) => ENABLED <<Step(t)>>_vars)

Hops(t, q, here) == Waits(t, q, here) ~> Gone(q) \/ Onward(t, q, here)

LEMMA Hop ==
  ASSUME NEW t \in Task, Survivor(t), NEW q \in Pid, NEW here \in PCs
  PROVE  Runs(t) => Hops(t, q, here)
<1>1. TypeOK /\ Lives(t) /\ Waits(t, q, here) /\ [Next]_vars
        => Waits(t, q, here)' \/ Gone(q)' \/ Onward(t, q, here)'
  BY OrphanedStays, OthersLeaveIt, SurvivorSteps DEF Waits
<1>2. TypeOK /\ Lives(t) /\ Waits(t, q, here) /\ <<Step(t)>>_vars
        => Gone(q)' \/ Onward(t, q, here)'
  BY SurvivorSteps
<1>3. Lives(t) => Ready(t)
  BY DEF Lives, Ready, Survivor
<1> QED
  BY <1>1, <1>2, <1>3, TypeCorrect, SurvivorLives, PTL DEF Runs, Spec, Fair, Hops

LEMMA FoundHop ==
  ASSUME NEW t \in Task, Survivor(t), NEW q \in Pid
  PROVE  Runs(t) => (Found(t, q) ~> Gone(q) \/ Waits(t, q, "stale"))
<1>1. TypeOK /\ Lives(t) /\ Found(t, q) /\ [Next]_vars
        => Found(t, q)' \/ Gone(q)' \/ Waits(t, q, "stale")'
  BY OrphanedStays, OthersLeaveIt, FinderSteps DEF Found, Waits
<1>2. TypeOK /\ Lives(t) /\ Found(t, q) /\ <<Step(t)>>_vars
        => Gone(q)' \/ Waits(t, q, "stale")'
  BY FinderSteps
<1>3. Lives(t) => Ready(t)
  BY DEF Lives, Ready, Survivor
<1> QED
  BY <1>1, <1>2, <1>3, TypeCorrect, SurvivorLives, PTL DEF Runs, Spec, Fair

(* Wherever a survivor is, it comes to read the file, to judge the lock    *)
(* stale and to remove it, unless somebody else does it before.            *)
LEMMA Recovers ==
  ASSUME NEW t \in Task, Survivor(t), NEW q \in Pid
  PROVE  Runs(t) => (Orphaned(q) ~> Gone(q))
<1>1. /\ Onward(t, q, "idle") => Waits(t, q, "try")
      /\ Onward(t, q, "try") => Waits(t, q, "read")
      /\ Onward(t, q, "read") => Found(t, q)
      /\ Onward(t, q, "probe") => Waits(t, q, "loop") \/ Waits(t, q, "stale")
      /\ Onward(t, q, "loop") => Waits(t, q, "try") \/ Waits(t, q, "idle")
      /\ Onward(t, q, "stale") => Waits(t, q, "unlink")
      /\ ~Onward(t, q, "unlink")
      /\ Onward(t, q, "opened") => Waits(t, q, "locked")
      /\ Onward(t, q, "locked") => Waits(t, q, "rel")
      /\ Onward(t, q, "rel") => Waits(t, q, "relRead")
      /\ Onward(t, q, "relRead") => Waits(t, q, "idle")
      /\ ~Onward(t, q, "relUnlink")
  BY DEF Onward
<1>2. TypeOK /\ Lives(t) /\ Orphaned(q) =>
         \/ Waits(t, q, "idle") \/ Waits(t, q, "try") \/ Waits(t, q, "read")
         \/ Waits(t, q, "probe") \/ Waits(t, q, "loop") \/ Waits(t, q, "stale")
         \/ Waits(t, q, "unlink") \/ Waits(t, q, "opened") \/ Waits(t, q, "locked")
         \/ Waits(t, q, "rel") \/ Waits(t, q, "relRead")
         \/ Waits(t, q, "relUnlink")
  BY DEF TypeOK, PCs, Synchronous, Lives, Waits
<1>h. Runs(t) =>
         /\ Hops(t, q, "idle")
         /\ Hops(t, q, "try")
         /\ Hops(t, q, "read")
         /\ Hops(t, q, "probe")
         /\ Hops(t, q, "loop")
         /\ Hops(t, q, "stale")
         /\ Hops(t, q, "unlink")
         /\ Hops(t, q, "opened")
         /\ Hops(t, q, "locked")
         /\ Hops(t, q, "rel")
         /\ Hops(t, q, "relRead")
         /\ Hops(t, q, "relUnlink")
  BY Hop DEF PCs, Synchronous
<1> QED
  BY <1>1, <1>2, <1>h, FoundHop, TypeCorrect, SurvivorLives, PTL DEF Runs, Hops

(* The lock of a dead process is removed once its pid is written, for any  *)
(* number of contenders and however many of them die, as long as one       *)
(* process lives on that makes one call at a time and keeps running.       *)
THEOREM Recovery ==
  ASSUME NEW t \in Task, Survivor(t)
  PROVE  FairSpec /\ [](Ready(t) => ENABLED <<Step(t)>>_vars) => WrittenLockRecovered
<1> DEFINE Hyp == FairSpec /\ [](Ready(t) => ENABLED <<Step(t)>>_vars)
<1>1. FairSpec => Fair(t)
  BY DEF FairSpec
<1>2. Hyp => Runs(t)
  BY <1>1, PTL DEF FairSpec, Runs
<1>3. ASSUME NEW q \in Pid PROVE Hyp => (Orphaned(q) ~> Gone(q))
  BY <1>2, Recovers, PTL
<1> HIDE DEF Hyp
<1>4. Hyp => WrittenLockRecovered
  BY <1>3 DEF WrittenLockRecovered
<1> QED
  BY <1>4, PTL DEF Hyp
=============================================================================
