----------------------------- MODULE LockUtils -----------------------------
(***************************************************************************)
(* The file lock of libs/core/src/lock-utils.ts, one system call a step.   *)
(*                                                                         *)
(* A task is one call of withLock(resourceId, fn); PidOf names the process *)
(* that runs it, and several tasks may share a process.  The lock is a     *)
(* file created with O_EXCL whose content is the creator's pid.  Creating  *)
(* and writing are two system calls, so another process can read the file  *)
(* while it is still blank.  A contender that finds the file reads the pid,*)
(* probes it with signal 0, and unlinks the file when no such process      *)
(* exists; these too are separate calls.                                   *)
(***************************************************************************)
EXTENDS Naturals

CONSTANTS
    Task,       \* the calls of withLock on one resource
    Pid,        \* process ids
    PidOf,      \* the process that runs a task
    Mortal,     \* the processes that may die or exit
    MayCrash,   \* TRUE: they may die anywhere; FALSE: only between calls
    NoFile,     \* there is no lock file
    Blank       \* the lock file was created and its content not yet written

LockFiles == [by : Task, pid : Pid \cup {Blank}]

ASSUME LockAssumption ==
    /\ PidOf \in [Task -> Pid]
    /\ Mortal \subseteq Pid
    /\ MayCrash \in BOOLEAN
    /\ Blank \notin Pid
    /\ NoFile \notin LockFiles

VARIABLES
    file,       \* the lock file: its creator and its content
    pc,         \* where each task is in withLock
    seen,       \* the pid a task last read from the lock file
    alive,      \* the processes that exist
    purged      \* history: some task has judged a lock file stale

vars == <<file, pc, seen, alive, purged>>

\* Steps between which Node's event loop runs nothing else of the process.
Synchronous == {"opened", "read", "probe", "stale", "unlink", "relRead", "relUnlink"}

\* From the successful exclusive create to the end of releaseLock.
Owning == {"opened", "locked", "rel", "relRead", "relUnlink"}

PCs == Synchronous \cup {"idle", "try", "loop", "locked", "rel", "dead"}

(* The lock file, if any, names its creator and holds a pid or nothing yet; *)
(* every task is at one of the points of withLock.                         *)
TypeOK ==
    /\ file \in LockFiles \cup {NoFile}
    /\ pc \in [Task -> PCs]
    /\ seen \in [Task -> Pid \cup {Blank}]
    /\ alive \subseteq Pid
    /\ purged \in BOOLEAN

Init ==
    /\ file = NoFile
    /\ pc = [t \in Task |-> "idle"]
    /\ seen = [t \in Task |-> Blank]
    /\ alive = Pid
    /\ purged = FALSE

-----------------------------------------------------------------------------
\* A task moves when no other task of its process is inside synchronous code.
At(t, here) ==
    /\ pc[t] = here
    /\ \A u \in Task \ {t} : PidOf[u] = PidOf[t] => pc[u] \notin Synchronous

Goto(t, there) == pc' = [pc EXCEPT ![t] = there]

\* withLock is called; the first test of the deadline always passes.
Begin(t) ==
    /\ At(t, "idle")
    /\ Goto(t, "try")
    /\ UNCHANGED <<file, seen, alive, purged>>

\* Variants with a plausible mistake, to see that the properties can fail.
Mutant_CreateOverwrites(t) ==       \* flag 'w' instead of 'wx'
    /\ At(t, "try")
    /\ file' = [by |-> t, pid |-> Blank]
    /\ Goto(t, "opened")
    /\ UNCHANGED <<seen, alive, purged>>
Mutant_WriteWrongField(t) ==        \* the id is written where the pid belongs
    /\ At(t, "opened")
    /\ file' = IF file = NoFile THEN file ELSE [file EXCEPT !.pid = t]
    /\ Goto(t, "locked")
    /\ UNCHANGED <<seen, alive, purged>>

\* open(path, 'wx') succeeds exactly when there is no file.
Create(t) ==
    /\ At(t, "try")
    /\ \/ /\ file = NoFile
          /\ file' = [by |-> t, pid |-> Blank]
          /\ Goto(t, "opened")
       \/ /\ file # NoFile
          /\ Goto(t, "read")
          /\ UNCHANGED file
    /\ UNCHANGED <<seen, alive, purged>>

\* The pid is written through the descriptor: an unlinked file stays unlinked.
WritePid(t) ==
    /\ At(t, "opened")
    /\ file' = IF file # NoFile /\ file.by = t
               THEN [file EXCEPT !.pid = PidOf[t]] ELSE file
    /\ Goto(t, "locked")
    /\ UNCHANGED <<seen, alive, purged>>

\* What a reader gets; Blank stands for an error too (ENOENT, not JSON).
Content == IF file = NoFile THEN Blank ELSE file.pid

Mutant_BlankIsStale(t) ==           \* unreadable content counts as stale
    /\ At(t, "read")
    /\ seen' = [seen EXCEPT ![t] = Content]
    /\ Goto(t, IF Content = Blank THEN "stale" ELSE "probe")
    /\ UNCHANGED <<file, alive, purged>>
Mutant_NeverStale(t) ==             \* the ESRCH test is lost
    /\ At(t, "probe")
    /\ Goto(t, "loop")
    /\ seen' = [seen EXCEPT ![t] = Blank]
    /\ UNCHANGED <<file, alive, purged>>

\* A missing or a blank file is no reason to call the lock stale.
ReadHolder(t) ==
    /\ At(t, "read")
    /\ seen' = [seen EXCEPT ![t] = Content]
    /\ Goto(t, IF Content = Blank THEN "loop" ELSE "probe")
    /\ UNCHANGED <<file, alive, purged>>

\* process.kill(pid, 0) fails with ESRCH when the process is gone.
Probe(t) ==
    /\ At(t, "probe")
    /\ \/ seen[t] \in alive /\ Goto(t, "loop") /\ UNCHANGED purged
       \/ seen[t] \notin alive /\ Goto(t, "stale") /\ purged' = TRUE
    /\ seen' = [seen EXCEPT ![t] = Blank]      \* out of scope
    /\ UNCHANGED <<file, alive>>

\* safeUnlinkSync tests for the file before it unlinks.
PurgeTest(t) ==
    /\ At(t, "stale")
    /\ Goto(t, IF file = NoFile THEN "loop" ELSE "unlink")
    /\ UNCHANGED <<file, seen, alive, purged>>

\* unlink takes whatever file is there now; if none is, acquireLock throws.
PurgeUnlink(t) ==
    /\ At(t, "unlink")
    /\ file' = NoFile
    /\ Goto(t, IF file = NoFile THEN "idle" ELSE "loop")
    /\ UNCHANGED <<seen, alive, purged>>

\* The loop's deadline: another attempt, or withLock throws LOCK_TIMEOUT.
Retry(t) ==
    /\ At(t, "loop")
    /\ Goto(t, "try")
    /\ UNCHANGED <<file, seen, alive, purged>>

TimeOut(t) ==
    /\ At(t, "loop")
    /\ Goto(t, "idle")
    /\ UNCHANGED <<file, seen, alive, purged>>

\* fn settles and the finally block calls releaseLock.
Leave(t) ==
    /\ At(t, "locked")
    /\ Goto(t, "rel")
    /\ UNCHANGED <<file, seen, alive, purged>>

ReleaseTest(t) ==
    /\ At(t, "rel")
    /\ Goto(t, IF file = NoFile THEN "idle" ELSE "relRead")
    /\ UNCHANGED <<file, seen, alive, purged>>

Mutant_ReleaseComparesText(t) ==    \* the pid never compares equal
    /\ At(t, "relRead")
    /\ Goto(t, IF Content = Blank THEN "relUnlink" ELSE "idle")
    /\ UNCHANGED <<file, seen, alive, purged>>

\* Own pid: unlink.  Unreadable content: unlink too.  Otherwise leave it.
ReleaseRead(t) ==
    /\ At(t, "relRead")
    /\ Goto(t, IF Content \in {PidOf[t], Blank} THEN "relUnlink" ELSE "idle")
    /\ UNCHANGED <<file, seen, alive, purged>>

ReleaseUnlink(t) ==
    /\ At(t, "relUnlink")
    /\ file' = NoFile
    /\ Goto(t, "idle")
    /\ UNCHANGED <<seen, alive, purged>>

\* A process is gone: it exits between its calls, or dies anywhere.
Die(q) ==
    /\ q \in Mortal \cap alive
    /\ MayCrash \/ \A t \in Task : PidOf[t] = q => pc[t] = "idle"
    /\ alive' = alive \ {q}
    /\ pc' = [t \in Task |-> IF PidOf[t] = q THEN "dead" ELSE pc[t]]
    /\ UNCHANGED <<file, seen, purged>>

Acquire(t) == Create(t) \/ WritePid(t) \/ ReadHolder(t) \/ Probe(t)
              \/ PurgeTest(t) \/ PurgeUnlink(t) \/ Retry(t) \/ TimeOut(t)
Release(t) == Leave(t) \/ ReleaseTest(t) \/ ReleaseRead(t) \/ ReleaseUnlink(t)
Step(t) == Begin(t) \/ Acquire(t) \/ Release(t)

Next == (\E t \in Task : Step(t)) \/ (\E q \in Pid : Die(q))

Spec == Init /\ [][Next]_vars

\* Commands keep being issued, and a live process keeps running.
Fair(t) == WF_vars(Step(t))

FairSpec == Spec /\ \A t \in Task : Fair(t)

-----------------------------------------------------------------------------
\* The lock as its callers see it: the tasks that are inside fn.
Inside == {t \in Task : pc[t] = "locked"}
M == INSTANCE Mutex WITH inside <- Inside, broken <- purged

(* lock-utils.ts:89, "Executes a function with an exclusive lock": no two  *)
(* tasks are inside fn at a time.                                          *)
MutualExclusion ==
    \A t, u \in Task : pc[t] = "locked" /\ pc[u] = "locked" => t = u

(* As long as no contender has judged a lock stale, at most one task is    *)
(* inside fn, whoever dies and wherever.                                   *)
ExclusiveUntilPurge == ~purged => MutualExclusion

(* Until a purge, no lock file is left behind: its creator is between      *)
(* acquire and release, or died there.                                     *)
LockFileHasOwner ==
    ~purged /\ file # NoFile =>
        pc[file.by] \in Owning \cup {"dead"}

(* withLock implements the mutex of module Mutex, whoever dies and         *)
(* wherever: until a lock is judged stale, fn is entered when nobody is    *)
(* inside and left by the task inside.                                     *)
ImplementsMutex == M!MutexSpec

\* The pid of a dead process is in the lock file, and it no longer is.
Orphaned(q) == file # NoFile /\ file.pid = q /\ q \notin alive
Gone(q) == file = NoFile \/ file.pid # q

(* A dead process's lock does not stay: once its pid is written, a live    *)
(* contender removes it, as long as some process is left to try.           *)
WrittenLockRecovered == \A q \in Pid : Orphaned(q) ~> Gone(q)

(* docs/operator/DEPLOYMENT.md:320, "Lock has PID-based stale detection;   *)
(* next command auto-recovers": any lock file of a dead process goes away. *)
DeadLockRecovered ==
    \A t \in Task :
        (file # NoFile /\ file.by = t /\ PidOf[t] \notin alive)
            ~> (file = NoFile \/ file.by # t)
=============================================================================
