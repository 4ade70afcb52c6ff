------------------------------ MODULE FileLock ------------------------------
(***************************************************************************)
(* What the callers of withLock meet when they wait for a lock, hold it or *)
(* die, in steps large enough to build on.  Module LockUtils has the same  *)
(* protocol one system call at a time.                                     *)
(*                                                                         *)
(* A process that dies inside leaves its file, and the next contender      *)
(* removes it; one that dies between creating and writing leaves a blank   *)
(* file that nobody removes.  A contender that has read the pid of a       *)
(* holder which is gone by now unlinks whatever file it finds then, that   *)
(* of a live process too; which contender has read what is left open.      *)
(***************************************************************************)
CONSTANTS
    Proc,           \* the processes that use the lock
    NoProc,         \* there is no lock file
    Dead,           \* a lock file with the pid of a process that is gone
    Blank           \* a lock file that was created and never written

ASSUME LockAssumption ==
    /\ NoProc \notin Proc /\ Dead \notin Proc /\ Blank \notin Proc
    /\ NoProc # Dead /\ NoProc # Blank /\ Dead # Blank

VARIABLES
    lock,       \* the lock file: who created it, or what is left of it
    left,       \* history: a holder of the lock has let go of it or died
    stolen      \* history: the file of a live process was unlinked by a contender

lockVars == <<lock, left, stolen>>

LockOK == lock \in Proc \cup {NoProc, Dead, Blank} /\ left \in BOOLEAN /\ stolen \in BOOLEAN

LockInit == lock = NoProc /\ left = FALSE /\ stolen = FALSE

\* acquireLock creates the file and writes its pid.
Take(p) == lock = NoProc /\ lock' = p /\ UNCHANGED <<left, stolen>>

\* releaseLock: the file goes if it is this process's or cannot be read.
LetGo(p) == /\ lock' = IF lock \in {p, Blank} THEN NoProc ELSE lock
            /\ left' = TRUE /\ UNCHANGED stolen

\* A contender has judged the lock stale and unlinks the file that is there now.
Purge == /\ \/ lock = Dead /\ UNCHANGED stolen
            \/ lock = Blank /\ left /\ UNCHANGED stolen
            \/ lock \in Proc /\ left /\ stolen' = TRUE
         /\ lock' = NoProc /\ UNCHANGED left

\* acquireLock gives up: after its time there is a file that is not stale, or
\* the stale one it unlinks has been unlinked by another contender.
GiveUp == lock \in Proc \cup {Blank} /\ UNCHANGED lockVars
LosePurge == lock = NoProc /\ left /\ UNCHANGED lockVars

\* The process dies inside.
DieInside(p) == /\ lock' = IF lock = p THEN Dead ELSE lock
                /\ left' = TRUE /\ UNCHANGED stolen

\* The process dies while it tries, at worst when it has just created the file.
DieTrying(p) == /\ \/ lock = NoProc /\ lock' = Blank
                   \/ UNCHANGED lock
                /\ UNCHANGED <<left, stolen>>
=============================================================================
