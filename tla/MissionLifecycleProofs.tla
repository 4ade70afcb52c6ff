----------------------- MODULE MissionLifecycleProofs -----------------------
(***************************************************************************)
(* Proofs about module MissionLifecycle, for any processes, any set of     *)
(* commands and any bound on their number.                                 *)
(***************************************************************************)
EXTENDS MissionLifecycle, TLAPS

\* Where a command has a copy of the state it will write or work on.
Copied == {"save", "write", "merge", "llm", "finCommit", "rmArchive", "copy",
           "copying", "rmDir", "removing"}

(* A command that works on a copy has one.                                 *)
CopyInv == \A p \in Proc : pc[p] \in Copied => snap[p] \in States

\* Where a write leads.
AfterWrite == {"idle", "reload", "init", "rmArchive", "save"}

(* A write does not lead back into the lock.                               *)
ThenInv == \A p \in Proc : then[p] \in AfterWrite

(* Inside the lock is its holder only, as long as no lock is stolen.       *)
LockInv == ~stolen => \A p \in Proc : pc[p] \in Locked => lock = p

(* A locked command keeps to its path, and ends with its write.            *)
PathInv ==
    \A p \in Proc : cmd[p].name \in LockedCommands =>
        /\ pc[p] \in {"idle", "load", "lock", "commit", "reread", "write"}
        /\ pc[p] = "write" => then[p] = "idle"

(* What a locked command is about to write holds every record on disk, as  *)
(* long as no lock is stolen.                                              *)
FreshInv ==
    ~stolen => \A p \in Proc : pc[p] = "write" /\ cmd[p].name \in LockedCommands =>
        RecordsOf(state) \subseteq RecordsOf(snap[p])

LEMMA InitInv == Init => TypeOK /\ CopyInv /\ ThenInv /\ LockInv /\ PathInv /\ FreshInv
<1> SUFFICES ASSUME Init PROVE TypeOK /\ CopyInv /\ ThenInv /\ LockInv /\ PathInv /\ FreshInv
  OBVIOUS
<1>1. PICK s \in InitStatus :
         state = [status |-> s, last |-> InitLast[s], latest |-> 1,
                  recs |-> [id : {0}, event : InitEvents[s]]]
  BY DEF Init
<1>2. s \in {"planned", "active", "distilling", "completed"}
  BY MissionAssumption
<1>3. state \in States
  BY <1>1, <1>2, MissionAssumption
     DEF States, Statuses, Events, Records, InitLast, InitEvents
<1>4. 0 \in 0..MaxCmds
  BY MissionAssumption
<1> QED
  BY <1>3, <1>4, MissionAssumption
     DEF Init, TypeOK, CopyInv, ThenInv, LockInv, PathInv, FreshInv, PCs, CommandNames,
         LockedCommands, Copied, Locked, AfterWrite, LockInit, LockOK

(* history.push returns a state with the record added and nothing else     *)
(* lost.                                                                   *)
LEMMA AppendLemma ==
  ASSUME TypeOK, NEW s \in States, NEW p \in Proc, NEW e \in Events,
         NEW st \in Statuses
  PROVE  /\ Append(s, p, e, st) \in States
         /\ Append(s, p, e, st).status = st
         /\ Append(s, p, e, st).recs = s.recs \cup {[id |-> cmd[p].id, event |-> e]}
<1> DEFINE r == [id |-> cmd[p].id, event |-> e]
<1>1. r \in Records
  BY DEF TypeOK, Records
<1>2. s.recs \cup {r} \in SUBSET Records
  BY <1>1 DEF States
<1>3. Append(s, p, e, st) =
        [s EXCEPT !.status = st, !.last = e, !.recs = s.recs \cup {r}]
  BY DEF Append
<1> HIDE DEF r
<1>4. s = [status |-> s.status, recs |-> s.recs, last |-> s.last, latest |-> s.latest]
  BY DEF States
<1>5. Append(s, p, e, st) =
        [status |-> st, recs |-> s.recs \cup {r}, last |-> e, latest |-> s.latest]
  BY <1>3, <1>4
<1>6. s.latest \in Nat
  BY DEF States
<1>7. Append(s, p, e, st) \in States
  BY <1>2, <1>5, <1>6 DEF States
<1> QED
  BY <1>5, <1>7 DEF r

LEMMA LockedRecordLemma ==
  ASSUME TypeOK, state # NoState, NEW p \in Proc
  PROVE  /\ LockedRecord(p) \in States
         /\ LockedRecord(p).status = state.status
         /\ state.recs \subseteq LockedRecord(p).recs
<1>1. state \in States /\ state.status \in Statuses /\ head \in Nat
  BY DEF TypeOK, States
<1>2. CASE cmd[p].name = "checkpoint"
  <2>1. LockedRecord(p) =
          [state EXCEPT !.latest = head,
                        !.recs = @ \cup {[id |-> cmd[p].id, event |-> "CHECKPOINT"]}]
    BY <1>2 DEF LockedRecord
  <2>2. [id |-> cmd[p].id, event |-> "CHECKPOINT"] \in Records
    BY DEF TypeOK, Records, Events
  <2> QED
    BY <1>1, <2>1, <2>2 DEF States
<1>3. CASE cmd[p].name = "evidence"
  <2> DEFINE a == Append(state, p, "EVIDENCE", state.status)
  <2>1. LockedRecord(p) = [a EXCEPT !.latest = head]
    BY <1>3 DEF LockedRecord
  <2>2. /\ a \in States
        /\ a.status = state.status
        /\ state.recs \subseteq a.recs
    <3>1. "EVIDENCE" \in Events
      BY DEF Events
    <3> QED
      BY <1>1, <3>1, AppendLemma
  <2> HIDE DEF a
  <2> QED
    BY <1>1, <2>1, <2>2 DEF States
<1>4. CASE cmd[p].name \notin {"checkpoint", "evidence"}
  <2>1. LockedRecord(p) = Append(state, p, "RESUME", state.status)
    BY <1>4 DEF LockedRecord
  <2>2. "RESUME" \in Events
    BY DEF Events
  <2> QED
    BY <1>1, <2>1, <2>2, AppendLemma
<1> QED
  BY <1>2, <1>3, <1>4

-----------------------------------------------------------------------------
(* Types.  The control of a process is typed apart from the disk.          *)
ControlOK == /\ pc \in [Proc -> PCs]
             /\ snap \in [Proc -> States \cup {NoState}]
             /\ then \in [Proc -> PCs]
             /\ CopyInv

DiskOK == /\ state \in States \cup {NoState}
          /\ dir \in {"none", "part", "whole"} /\ wisdom \in BOOLEAN
          /\ head \in Nat /\ commits \in Nat /\ roots \in Nat
          /\ archive \in Archives \cup {NoArchive}
          /\ mishap \in {"none", "halfway", "overwritten"}

RestOK == /\ LockOK
          /\ cmd \in [Proc -> [name : CommandNames, id : 0..MaxCmds]]
          /\ issued \in 0..MaxCmds

LEMMA TypeSplit == TypeOK /\ CopyInv <=> DiskOK /\ ControlOK /\ RestOK
  BY DEF TypeOK, DiskOK, ControlOK, RestOK

LEMMA SaveLemma ==
  ASSUME ControlOK, NEW p \in Proc, NEW s \in States, NEW k \in PCs,
         SaveState(p, s, k)
  PROVE  ControlOK'
  BY DEF ControlOK, CopyInv, Copied, PCs, SaveState, Goto

LEMMA StopLemma ==
  ASSUME ControlOK, NEW p \in Proc, Stop(p)
  PROVE  ControlOK'
  BY DEF ControlOK, CopyInv, Copied, PCs, Stop, Goto

LEMMA GotoLemma ==
  ASSUME ControlOK, NEW p \in Proc, NEW k \in PCs, Goto(p, k),
         UNCHANGED <<snap, then>>, k \in Copied => snap[p] \in States
  PROVE  ControlOK'
  BY DEF ControlOK, CopyInv, Goto

LEMMA CopyLemma ==
  ASSUME ControlOK, NEW p \in Proc, NEW k \in PCs, Copy(p, k), state \in States
  PROVE  ControlOK'
  BY DEF ControlOK, CopyInv, Copy, Goto

(* The steps of the lock keep its type.                                    *)
LEMMA LockTypes ==
  ASSUME LockOK, NEW p \in Proc,
         \/ UNCHANGED lockVars \/ Take(p) \/ Purge \/ LetGo(p)
         \/ GiveUp \/ LosePurge \/ DieInside(p) \/ DieTrying(p)
  PROVE  LockOK'
BY DEF LockOK, lockVars, Take, Purge, LetGo, GiveUp, LosePurge, DieInside, DieTrying

LEMMA NextTypeOK == TypeOK /\ CopyInv /\ [Next]_vars => TypeOK' /\ CopyInv'
<1> SUFFICES ASSUME TypeOK, CopyInv, [Next]_vars PROVE DiskOK' /\ ControlOK' /\ RestOK'
  <2>1. DiskOK' /\ ControlOK' /\ RestOK' => TypeOK' /\ CopyInv'
    BY DEF TypeOK, DiskOK, ControlOK, RestOK
  <2> QED
    BY <2>1
<1> DEFINE Goal == DiskOK' /\ ControlOK' /\ RestOK'
<1>0. DiskOK /\ ControlOK /\ RestOK
  BY TypeSplit
<1>k. /\ "idle" \in PCs /\ "load" \in PCs /\ "create" \in PCs /\ "reload" \in PCs
      /\ "init" \in PCs /\ "save" \in PCs /\ "lock" \in PCs /\ "commit" \in PCs
      /\ "reread" \in PCs /\ "write" \in PCs /\ "merge" \in PCs /\ "llm" \in PCs
      /\ "gate" \in PCs /\ "pickup" \in PCs /\ "finCommit" \in PCs
      /\ "rmArchive" \in PCs /\ "copy" \in PCs /\ "copying" \in PCs /\ "rmDir" \in PCs
      /\ "removing" \in PCs
  BY DEF PCs
<1>e. /\ "ACTIVATE" \in Events /\ "RESUME" \in Events /\ "DELEGATE" \in Events
      /\ "IMPORT" \in Events /\ "VERIFIED" \in Events /\ "REJECTED" \in Events
      /\ "HANDOFF" \in Events /\ "DISTILL" \in Events /\ "FINISH" \in Events
      /\ "ARCHIVE" \in Events /\ "CREATE" \in Events
  BY DEF Events
<1>s. /\ "active" \in Statuses /\ "validating" \in Statuses /\ "planned" \in Statuses
      /\ "distilling" \in Statuses /\ "completed" \in Statuses /\ "archived" \in Statuses
  BY DEF Statuses
<1>st. /\ state # NoState => state \in States /\ state.status \in Statuses
       /\ \A q \in Proc : snap[q] \in States => snap[q].status \in Statuses
  BY <1>0 DEF DiskOK, States
<1>g. GitCommit \/ GitInit => head' \in Nat /\ commits' \in Nat /\ roots' \in Nat
  BY <1>0 DEF DiskOK, GitCommit, GitInit, repo
<1>d. MakeDir => dir' \in {"none", "part", "whole"}
  BY <1>0 DEF DiskOK, MakeDir
<1>l. ASSUME NEW p \in Proc,
             \/ UNCHANGED lockVars \/ Take(p) \/ Purge \/ LetGo(p)
             \/ GiveUp \/ LosePurge \/ DieInside(p) \/ DieTrying(p)
      PROVE  LockOK'
  BY <1>0, <1>l, LockTypes DEF RestOK
<1>1. ASSUME NEW p \in Proc, Issue(p) PROVE Goal
  <2>1. ControlOK'
    BY <1>0, <1>1, <1>k, GotoLemma DEF Issue, Copied
  <2>2. RestOK'
    BY <1>0, <1>1, MissionAssumption DEF Issue, RestOK, lockVars, LockOK
  <2> QED
    BY <1>0, <1>1, <2>1, <2>2 DEF Issue, DiskOK, disk, repo
<1>2. ASSUME NEW p \in Proc, Acquire(p) PROVE Goal
  <2>1. ControlOK'
    BY <1>0, <1>2, <1>k DEF Acquire, ControlOK, CopyInv, Copied, Goto
  <2> QED
    BY <1>0, <1>2, <1>l, <2>1 DEF Acquire, DiskOK, RestOK, disk, repo
<1>3. ASSUME NEW p \in Proc, LockTimeout(p) PROVE Goal
  BY <1>0, <1>3, <1>l, StopLemma DEF LockTimeout, FinishStops, DiskOK, RestOK, repo
<1>25. ASSUME NEW p \in Proc, PurgeStale(p) PROVE Goal
  BY <1>0, <1>25, <1>l DEF PurgeStale, ControlOK, CopyInv, DiskOK, RestOK, disk, repo,
           lockVars, LockOK
<1>4. ASSUME NEW p \in Proc, Write(p) PROVE Goal
  <2>1. snap[p] \in States
    BY <1>0, <1>4 DEF Write, ControlOK, CopyInv, Copied
  <2>2. ControlOK'
    <3>1. CASE then[p] = "save"
      BY <1>0, <1>4, <1>k, <2>1, <3>1, SaveLemma DEF Write
    <3>2. CASE then[p] # "save"
      <4>1. then[p] \in PCs
        BY <1>0 DEF ControlOK
      <4> QED
        BY <1>0, <1>4, <2>1, <3>2, <4>1, GotoLemma DEF Write
    <3> QED
      BY <3>1, <3>2
  <2> QED
    BY <1>0, <1>4, <1>l, <1>d, <2>1, <2>2 DEF Write, DiskOK, RestOK, repo
<1>5. ASSUME NEW p \in Proc, CheckpointLoad(p) \/ EvidenceLoad(p) \/ ResumeLoad(p)
                             \/ FinishLoad(p) \/ FinishGate(p)
      PROVE Goal
  <2>1. ControlOK'
    BY <1>0, <1>5, <1>k, GotoLemma
       DEF CheckpointLoad, EvidenceLoad, ResumeLoad, FinishLoad, FinishGate, Copied
  <2> QED
    BY <1>0, <1>5, <2>1
       DEF CheckpointLoad, EvidenceLoad, ResumeLoad, FinishLoad, FinishGate,
           DiskOK, RestOK, disk, repo,
           lockVars, LockOK
<1>6. ASSUME NEW p \in Proc, LockedCommit(p) PROVE Goal
  <2>1. ControlOK'
    BY <1>0, <1>6, <1>k, GotoLemma, StopLemma DEF LockedCommit, Unlock, Copied
  <2> QED
    BY <1>0, <1>6, <1>g, <1>d, <1>l, <2>1 DEF LockedCommit, Unlock, DiskOK, RestOK, repo
<1>7. ASSUME NEW p \in Proc, LockedGiveUp(p) PROVE Goal
  BY <1>0, <1>7, <1>l, StopLemma DEF LockedGiveUp, Unlock, DiskOK, RestOK, disk, repo
<1>8. ASSUME NEW p \in Proc, LockedReread(p) PROVE Goal
  <2>1. LockedRecord(p) \in States
    BY <1>8, LockedRecordLemma DEF LockedReread
  <2>2. ControlOK'
    BY <1>0, <1>8, <1>k, <2>1 DEF LockedReread, ControlOK, CopyInv, Goto
  <2> QED
    BY <1>0, <1>8, <2>2 DEF LockedReread, DiskOK, RestOK, disk, repo,
           lockVars, LockOK
<1>9. ASSUME NEW p \in Proc, StartLoad(p) PROVE Goal
  <2>1. ControlOK'
    <3>1. CASE state = NoState
      BY <1>0, <1>9, <1>k, <3>1, GotoLemma DEF StartLoad, Copied
    <3>2. CASE state # NoState
      <4>1. Append(state, p, "RESUME", "active") \in States
        BY <3>2, <1>st, <1>e, <1>s, AppendLemma
      <4> QED
        BY <1>0, <1>9, <1>k, <3>2, <4>1, SaveLemma, StopLemma DEF StartLoad
    <3> QED
      BY <3>1, <3>2
  <2> QED
    BY <1>0, <1>9, <2>1 DEF StartLoad, DiskOK, RestOK, disk, repo,
           lockVars, LockOK
<1>10. ASSUME NEW p \in Proc, Create(p) PROVE Goal
  <2>1. head' \in Nat /\ commits' \in Nat /\ roots' \in Nat
    BY <1>0, <1>10, <1>g DEF Create, DiskOK, repo
  <2>2. ControlOK'
    <3>1. CASE state # NoState
      BY <1>0, <1>10, <1>k, <3>1, GotoLemma DEF Create, Copied
    <3>2. CASE state = NoState
      <4> DEFINE s == [status |-> "planned", last |-> "CREATE", latest |-> head',
                       recs |-> {[id |-> cmd[p].id, event |-> "CREATE"]}]
      <4>1. s \in States
        BY <1>0, <1>e, <1>s, <2>1 DEF States, Records, RestOK
      <4>2. SaveState(p, s, "reload")
        BY <1>10, <3>2 DEF Create
      <4> HIDE DEF s
      <4> QED
        BY <1>0, <1>k, <4>1, <4>2 DEF ControlOK, CopyInv, SaveState, Goto
    <3> QED
      BY <3>1, <3>2
  <2> QED
    BY <1>0, <1>10, <1>d, <1>l, <2>1, <2>2 DEF Create, DiskOK, RestOK
<1>11. ASSUME NEW p \in Proc, StartReload(p) PROVE Goal
  <2>1. state # NoState => Append(state, p, "ACTIVATE", "active") \in States
    BY <1>st, <1>e, <1>s, AppendLemma
  <2>2. ControlOK'
    BY <1>0, <1>11, <1>k, <2>1, SaveLemma, StopLemma DEF StartReload, StateIn
  <2> QED
    BY <1>0, <1>11, <2>2 DEF StartReload, DiskOK, RestOK, disk, repo,
           lockVars, LockOK
<1>12. ASSUME NEW p \in Proc, StartInit(p) PROVE Goal
  BY <1>0, <1>12, <1>g, <1>l, StopLemma DEF StartInit, DiskOK, RestOK, repo
<1>13. ASSUME NEW p \in Proc, Delegate(p) PROVE Goal
  <2>1. state # NoState => Append(state, p, "DELEGATE", "active") \in States
    BY <1>st, <1>e, <1>s, AppendLemma
  <2>2. ControlOK'
    BY <1>0, <1>13, <1>k, <2>1, SaveLemma, StopLemma DEF Delegate
  <2> QED
    BY <1>0, <1>13, <2>2 DEF Delegate, DiskOK, RestOK, disk, repo,
           lockVars, LockOK
<1>14. ASSUME NEW p \in Proc, Handoff(p) PROVE Goal
  <2>1. state # NoState => Append(state, p, "HANDOFF", state.status) \in States
    BY <1>st, <1>e, <1>s, AppendLemma
  <2>2. ControlOK'
    BY <1>0, <1>14, <1>k, <2>1, SaveLemma, StopLemma DEF Handoff
  <2> QED
    BY <1>0, <1>14, <2>2 DEF Handoff, DiskOK, RestOK, disk, repo,
           lockVars, LockOK
<1>15. ASSUME NEW p \in Proc, Verify(p) PROVE Goal
  <2>1. state # NoState => /\ Append(state, p, "VERIFIED", "distilling") \in States
                           /\ Append(state, p, "REJECTED", "active") \in States
    BY <1>st, <1>e, <1>s, AppendLemma
  <2>2. ControlOK'
    BY <1>0, <1>15, <1>k, <2>1, SaveLemma, StopLemma DEF Verify, StateIn
  <2> QED
    BY <1>0, <1>15, <2>2 DEF Verify, DiskOK, RestOK, disk, repo,
           lockVars, LockOK
<1>16. ASSUME NEW p \in Proc, ImportLoad(p) \/ DistillLoad(p) \/ FinishPickup(p)
       PROVE Goal
  <2>1. ControlOK'
    BY <1>0, <1>16, <1>k, <1>st, CopyLemma, StopLemma
       DEF ImportLoad, DistillLoad, FinishPickup, StateIn
  <2> QED
    BY <1>0, <1>16, <2>1 DEF ImportLoad, DistillLoad, FinishPickup, DiskOK, RestOK, disk, repo,
           lockVars, LockOK
<1>17. ASSUME NEW p \in Proc, ImportMerge(p) PROVE Goal
  <2>1. snap[p] \in States
    BY <1>0, <1>17 DEF ImportMerge, ControlOK, CopyInv, Copied
  <2>2. Append(snap[p], p, "IMPORT", "validating") \in States
    BY <2>1, <1>e, <1>s, AppendLemma
  <2>3. ControlOK'
    BY <1>0, <1>17, <1>k, <2>2, SaveLemma, StopLemma DEF ImportMerge
  <2> QED
    BY <1>0, <1>17, <1>g, <1>l, <2>3 DEF ImportMerge, DiskOK, RestOK, repo
<1>18. ASSUME NEW p \in Proc, DistillAnswer(p) PROVE Goal
  <2>1. snap[p] \in States
    BY <1>0, <1>18 DEF DistillAnswer, ControlOK, CopyInv, Copied
  <2>2. Append(snap[p], p, "DISTILL", "completed") \in States
    BY <2>1, <1>e, <1>s, AppendLemma
  <2>3. ControlOK'
    BY <1>0, <1>18, <1>k, <2>2, SaveLemma, StopLemma DEF DistillAnswer
  <2> QED
    BY <1>0, <1>18, <1>l, <2>3 DEF DistillAnswer, DiskOK, RestOK, repo
<1>19. ASSUME NEW p \in Proc, FinishCommit(p) PROVE Goal
  <2> DEFINE s == IF head' = head THEN snap[p] ELSE [snap[p] EXCEPT !.latest = head']
  <2>1. snap[p] \in States
    BY <1>0, <1>19 DEF FinishCommit, ControlOK, CopyInv, Copied
  <2>2. head' \in Nat /\ commits' \in Nat
    BY <1>19, <1>g DEF FinishCommit
  <2>3. s \in States
    BY <2>1, <2>2 DEF States
  <2>4. \/ SaveState(p, s, "rmArchive")
        \/ SaveState(p, Append(s, p, "FINISH", "completed"), "rmArchive")
        \/ Stop(p)
    BY <1>19 DEF FinishCommit
  <2> HIDE DEF s
  <2>5. Append(s, p, "FINISH", "completed") \in States
    BY <2>3, <1>e, <1>s, AppendLemma
  <2>6. ControlOK'
    BY <1>0, <1>k, <2>3, <2>4, <2>5, StopLemma DEF ControlOK, CopyInv, SaveState, Goto
  <2> QED
    BY <1>0, <1>19, <1>g, <1>l, <2>6 DEF FinishCommit, DiskOK, RestOK
<1>20. ASSUME NEW p \in Proc, RmArchive(p) \/ CopyBegin(p) \/ CopyEnd(p) PROVE Goal
  <2>1. snap[p] \in States
    BY <1>0, <1>20 DEF RmArchive, CopyBegin, CopyEnd, ControlOK, CopyInv, Copied
  <2>2. ControlOK'
    <3>1. CASE UNCHANGED <<pc, snap, then>>
      BY <1>0, <3>1 DEF ControlOK, CopyInv
    <3>2. CASE ~UNCHANGED <<pc, snap, then>>
      BY <1>0, <1>20, <1>k, <2>1, <3>2, GotoLemma DEF RmArchive, CopyBegin, CopyEnd
    <3> QED
      BY <3>1, <3>2
  <2>3. archive' \in Archives \cup {NoArchive}
    <3>1. CASE RmArchive(p)
      BY <1>0, <3>1 DEF RmArchive, DiskOK, Archives
    <3>2. CASE CopyBegin(p)
      <4>1. [whole |-> FALSE, st |-> state, head |-> head, root |-> roots] \in Archives
        BY <1>0 DEF DiskOK, Archives
      <4> QED
        BY <1>0, <3>2, <4>1 DEF CopyBegin, DiskOK
    <3>3. CASE CopyEnd(p)
      <4>1. archive \in Archives => [archive EXCEPT !.whole = (dir = "whole")] \in Archives
        BY DEF Archives
      <4> QED
        BY <1>0, <3>3, <4>1 DEF CopyEnd, DiskOK
    <3> QED
      BY <1>20, <3>1, <3>2, <3>3
  <2> QED
    BY <1>0, <1>20, <1>l, <2>2, <2>3 DEF RmArchive, CopyBegin, CopyEnd, DiskOK, RestOK, repo
<1>21. ASSUME NEW p \in Proc, RmDir(p) \/ Removing(p) PROVE Goal
  <2>1. ControlOK'
    BY <1>0, <1>21, <1>k, GotoLemma DEF RmDir, Removing, ControlOK, CopyInv, Copied
  <2> QED
    BY <1>0, <1>21, <1>l, <2>1 DEF RmDir, Removing, DiskOK, RestOK, repo
<1>26. ASSUME NEW p \in Proc, Removed(p) PROVE Goal
  <2>1. snap[p] \in States
    BY <1>0, <1>26 DEF Removed, ControlOK, CopyInv, Copied
  <2>2. Append(snap[p], p, "ARCHIVE", "archived") \in States
    BY <2>1, <1>e, <1>s, AppendLemma
  <2>3. ControlOK'
    BY <1>0, <1>26, <1>k, <2>2, SaveLemma, StopLemma DEF Removed
  <2> QED
    BY <1>0, <1>26, <1>l, <2>3 DEF Removed, FinishStops, DiskOK, RestOK
<1>22. ASSUME NEW p \in Proc, Crash(p) PROVE Goal
  BY <1>0, <1>22, <1>l, StopLemma DEF Crash, FinishStops, DiskOK, RestOK, repo
<1>23. CASE UNCHANGED vars
  BY <1>0, <1>23 DEF vars, disk, repo, lockVars, DiskOK, ControlOK, RestOK, CopyInv, LockOK
<1>24. ASSUME NEW p \in Proc, Step(p) PROVE Goal
  <2> HIDE DEF Goal
  <2> QED
    BY <1>1, <1>2, <1>3, <1>4, <1>5, <1>6, <1>7, <1>8, <1>9, <1>10, <1>11, <1>12, <1>13,
       <1>14, <1>15, <1>16, <1>17, <1>18, <1>19, <1>20, <1>21, <1>22, <1>24, <1>25,
       <1>26, Zenon
       DEF Step
<1> QED
  BY <1>23, <1>24 DEF Next

LEMMA StepLockOK == ASSUME TypeOK, CopyInv, NEW p \in Proc, Step(p) PROVE LockOK'
BY NextTypeOK DEF Next, TypeOK

(* State file, archive and copies keep their types, whatever the commands. *)
THEOREM TypeCorrect == Spec => []TypeOK
<1>1. Init => TypeOK /\ CopyInv
  BY InitInv
<1> QED
  BY <1>1, NextTypeOK, PTL DEF Spec

-----------------------------------------------------------------------------
(* The locked commands.                                                    *)

(* A step of one process leaves the control of the others alone.           *)
LEMMA FrameLemma ==
  ASSUME TypeOK, NEW p \in Proc, Step(p), NEW q \in Proc, q # p
  PROVE  pc'[q] = pc[q] /\ cmd'[q] = cmd[q] /\ snap'[q] = snap[q] /\ then'[q] = then[q]
<1> USE DEF TypeOK, Goto, Stop, SaveState, Copy, Unlock
<1>1. CASE Issue(p) \/ Acquire(p) \/ PurgeStale(p) \/ LockTimeout(p) \/ Write(p)
           \/ CheckpointLoad(p) \/ EvidenceLoad(p) \/ ResumeLoad(p) \/ LockedCommit(p) \/ LockedGiveUp(p)
           \/ LockedReread(p)
  BY <1>1 DEF Issue, Acquire, PurgeStale, LockTimeout, Write, CheckpointLoad,
              EvidenceLoad, ResumeLoad, LockedCommit, LockedGiveUp, LockedReread
<1>2. CASE StartLoad(p) \/ Create(p) \/ StartReload(p) \/ StartInit(p) \/ Delegate(p)
           \/ Handoff(p) \/ Verify(p)
  BY <1>2 DEF StartLoad, Create, StartReload, StartInit, Delegate, Handoff, Verify
<1>3. CASE ImportLoad(p) \/ ImportMerge(p) \/ DistillLoad(p) \/ DistillAnswer(p)
           \/ FinishLoad(p) \/ FinishGate(p) \/ FinishPickup(p)
  BY <1>3 DEF ImportLoad, ImportMerge, DistillLoad, DistillAnswer, FinishLoad,
              FinishGate, FinishPickup
<1>4. CASE FinishCommit(p) \/ RmArchive(p) \/ CopyBegin(p) \/ CopyEnd(p) \/ RmDir(p)
           \/ Removing(p) \/ Removed(p) \/ Crash(p)
  BY <1>4 DEF FinishCommit, RmArchive, CopyBegin, CopyEnd, RmDir, Removing, Removed, Crash
<1> QED
  BY <1>1, <1>2, <1>3, <1>4 DEF Step

(* What a step does to the lock and to the place of its own process.       *)
LEMMA ControlLemma ==
  ASSUME TypeOK, ThenInv, LockInv, NEW p \in Proc, Step(p)
  PROVE  /\ ~stolen' => ~stolen
         /\ ~stolen' /\ pc'[p] \in Locked => lock' = p
         /\ then'[p] \in AfterWrite
         /\ ~stolen' /\ lock' # lock => lock \notin Proc \ {p}
<1> USE DEF TypeOK, ThenInv, LockInv, Locked, AfterWrite, Goto, Stop, SaveState, Copy, Unlock,
            lockVars, LockOK, Take, Purge, LetGo, GiveUp, LosePurge, DieInside, DieTrying
<1> USE LockAssumption
<1>1. CASE Issue(p) \/ Acquire(p) \/ PurgeStale(p) \/ LockTimeout(p) \/ Write(p)
           \/ CheckpointLoad(p) \/ EvidenceLoad(p) \/ ResumeLoad(p) \/ LockedCommit(p) \/ LockedGiveUp(p)
           \/ LockedReread(p)
  BY <1>1 DEF Issue, Acquire, PurgeStale, LockTimeout, Write, CheckpointLoad,
              EvidenceLoad, ResumeLoad, LockedCommit, LockedGiveUp, LockedReread
<1>2. CASE StartLoad(p) \/ Create(p) \/ StartReload(p) \/ StartInit(p) \/ Delegate(p)
           \/ Handoff(p) \/ Verify(p)
  BY <1>2 DEF StartLoad, Create, StartReload, StartInit, Delegate, Handoff, Verify
<1>3. CASE ImportLoad(p) \/ ImportMerge(p) \/ DistillLoad(p) \/ DistillAnswer(p)
           \/ FinishLoad(p) \/ FinishGate(p) \/ FinishPickup(p)
  BY <1>3 DEF ImportLoad, ImportMerge, DistillLoad, DistillAnswer, FinishLoad,
              FinishGate, FinishPickup
<1>4. CASE FinishCommit(p) \/ RmArchive(p) \/ CopyBegin(p) \/ CopyEnd(p) \/ RmDir(p)
           \/ Removing(p) \/ Removed(p) \/ Crash(p)
  BY <1>4 DEF FinishCommit, RmArchive, CopyBegin, CopyEnd, RmDir, Removing, Removed, Crash
<1> QED
  BY <1>1, <1>2, <1>3, <1>4 DEF Step

LEMMA PathLemma ==
  ASSUME TypeOK, PathInv, NEW p \in Proc, Step(p), cmd'[p].name \in LockedCommands
  PROVE  /\ pc'[p] \in {"idle", "load", "lock", "commit", "reread", "write"}
         /\ pc'[p] = "write" => then'[p] = "idle"
<1> USE DEF TypeOK, PathInv, LockedCommands, Running, Goto, Stop, SaveState, Copy, Unlock
<1>1. CASE Issue(p) \/ Acquire(p) \/ PurgeStale(p) \/ LockTimeout(p) \/ Write(p)
           \/ CheckpointLoad(p) \/ EvidenceLoad(p) \/ ResumeLoad(p) \/ LockedCommit(p) \/ LockedGiveUp(p)
           \/ LockedReread(p)
  BY <1>1 DEF Issue, Acquire, PurgeStale, LockTimeout, Write, CheckpointLoad,
              EvidenceLoad, ResumeLoad, LockedCommit, LockedGiveUp, LockedReread
<1>2. CASE StartLoad(p) \/ Create(p) \/ StartReload(p) \/ StartInit(p) \/ Delegate(p)
           \/ Handoff(p) \/ Verify(p)
  BY <1>2 DEF StartLoad, Create, StartReload, StartInit, Delegate, Handoff, Verify
<1>3. CASE ImportLoad(p) \/ ImportMerge(p) \/ DistillLoad(p) \/ DistillAnswer(p)
           \/ FinishLoad(p) \/ FinishGate(p) \/ FinishPickup(p)
  BY <1>3 DEF ImportLoad, ImportMerge, DistillLoad, DistillAnswer, FinishLoad,
              FinishGate, FinishPickup
<1>4. CASE FinishCommit(p) \/ RmArchive(p) \/ CopyBegin(p) \/ CopyEnd(p) \/ RmDir(p)
           \/ Removing(p) \/ Removed(p) \/ Crash(p)
  BY <1>4 DEF FinishCommit, RmArchive, CopyBegin, CopyEnd, RmDir, Removing, Removed, Crash
<1> QED
  BY <1>1, <1>2, <1>3, <1>4 DEF Step

(* Only a write and the removal of the directory touch mission-state.json. *)
LEMMA StateLemma ==
  ASSUME NEW p \in Proc, Step(p)
  PROVE  \/ state' = state
         \/ Write(p)
         \/ (Removing(p) \/ Removed(p)) /\ state' = NoState
BY DEF Step, disk, repo, Issue, Acquire, PurgeStale, LockTimeout, CheckpointLoad, EvidenceLoad, ResumeLoad,
   LockedCommit, LockedGiveUp, LockedReread, StartLoad, Create, StartReload, StartInit,
   Delegate, Handoff, Verify, ImportLoad, ImportMerge, DistillLoad, DistillAnswer,
   FinishLoad, FinishGate, FinishPickup, FinishCommit, RmArchive, CopyBegin, CopyEnd,
   RmDir, Removing, Removed, Crash

(* A locked command comes to its write from its read inside the lock only. *)
LEMMA FreshLemma ==
  ASSUME TypeOK, PathInv, NEW p \in Proc, Step(p),
         cmd'[p].name \in LockedCommands, pc'[p] = "write"
  PROVE  LockedReread(p)
<1> USE DEF TypeOK, PathInv, LockedCommands, Running, Goto, Stop, SaveState, Copy, Unlock
<1>1. CASE Issue(p) \/ Acquire(p) \/ PurgeStale(p) \/ LockTimeout(p) \/ Write(p)
           \/ CheckpointLoad(p) \/ EvidenceLoad(p) \/ ResumeLoad(p) \/ LockedCommit(p) \/ LockedGiveUp(p)
           \/ LockedReread(p)
  BY <1>1 DEF Issue, Acquire, PurgeStale, LockTimeout, Write, CheckpointLoad,
              EvidenceLoad, ResumeLoad, LockedCommit, LockedGiveUp, LockedReread
<1>2. CASE StartLoad(p) \/ Create(p) \/ StartReload(p) \/ StartInit(p) \/ Delegate(p)
           \/ Handoff(p) \/ Verify(p)
  BY <1>2 DEF StartLoad, Create, StartReload, StartInit, Delegate, Handoff, Verify
<1>3. CASE ImportLoad(p) \/ ImportMerge(p) \/ DistillLoad(p) \/ DistillAnswer(p)
           \/ FinishLoad(p) \/ FinishGate(p) \/ FinishPickup(p)
  BY <1>3 DEF ImportLoad, ImportMerge, DistillLoad, DistillAnswer, FinishLoad,
              FinishGate, FinishPickup
<1>4. CASE FinishCommit(p) \/ RmArchive(p) \/ CopyBegin(p) \/ CopyEnd(p) \/ RmDir(p)
           \/ Removing(p) \/ Removed(p) \/ Crash(p)
  BY <1>4 DEF FinishCommit, RmArchive, CopyBegin, CopyEnd, RmDir, Removing, Removed, Crash
<1> QED
  BY <1>1, <1>2, <1>3, <1>4 DEF Step

LEMMA NextThen == TypeOK /\ ThenInv /\ LockInv /\ [Next]_vars => ThenInv'
<1> SUFFICES ASSUME TypeOK, ThenInv, LockInv, [Next]_vars, NEW q \in Proc
             PROVE  then'[q] \in AfterWrite
  BY DEF ThenInv
<1>1. CASE UNCHANGED vars
  BY <1>1 DEF vars, ThenInv
<1>2. ASSUME NEW p \in Proc, Step(p) PROVE then'[q] \in AfterWrite
  BY <1>2, FrameLemma, ControlLemma DEF ThenInv
<1> QED
  BY <1>1, <1>2 DEF Next

LEMMA NextLocked ==
  TypeOK /\ ThenInv /\ PathInv /\ ThenInv /\ LockInv /\ FreshInv /\ [Next]_vars
    => ThenInv' /\ PathInv' /\ LockInv' /\ FreshInv'
<1> SUFFICES ASSUME TypeOK, ThenInv, PathInv, LockInv, FreshInv, [Next]_vars
             PROVE  PathInv' /\ LockInv' /\ FreshInv'
  BY NextThen
<1>1. CASE UNCHANGED vars
  BY <1>1 DEF vars, lockVars, disk, PathInv, LockInv, FreshInv
<1>2. ASSUME NEW p \in Proc, Step(p) PROVE PathInv' /\ LockInv' /\ FreshInv'
  <2>1. PathInv'
    BY <1>2, FrameLemma, PathLemma DEF PathInv
  <2>2. LockInv'
    <3> SUFFICES ASSUME ~stolen', NEW q \in Proc, pc'[q] \in Locked PROVE lock' = q
      BY DEF LockInv
    <3>1. CASE q = p
      BY <1>2, <3>1, ControlLemma
    <3>2. CASE q # p
      <4>1. ~stolen /\ pc[q] \in Locked
        BY <1>2, <3>2, FrameLemma, ControlLemma
      <4>2. lock = q
        BY <4>1 DEF LockInv
      <4> QED
        BY <1>2, <3>2, <4>2, ControlLemma
    <3> QED
      BY <3>1, <3>2
  <2>3. FreshInv'
    <3> SUFFICES ASSUME ~stolen', NEW q \in Proc, pc'[q] = "write",
                        cmd'[q].name \in LockedCommands
                 PROVE  RecordsOf(state') \subseteq RecordsOf(snap'[q])
      BY DEF FreshInv
    <3>0. ~stolen
      BY <1>2, ControlLemma
    <3>1. CASE q = p
      <4>1. LockedReread(p)
        BY <1>2, <3>1, FreshLemma
      <4>2. state' = state /\ state # NoState /\ snap'[p] = LockedRecord(p)
        BY <4>1 DEF LockedReread, disk, TypeOK
      <4> QED
        BY <3>1, <4>2, LockedRecordLemma, MissionAssumption DEF RecordsOf
    <3>2. CASE q # p
      <4>1. pc[q] = "write" /\ cmd[q].name \in LockedCommands /\ snap'[q] = snap[q]
        BY <1>2, <3>2, FrameLemma
      <4>2. ~Write(p)
        BY <3>0, <3>2, <4>1 DEF Write, LockInv, Locked
      <4> QED
        BY <1>2, <3>0, <4>1, <4>2, StateLemma DEF FreshInv, RecordsOf
    <3> QED
      BY <3>1, <3>2
  <2> QED
    BY <2>1, <2>2, <2>3
<1> QED
  BY <1>1, <1>2 DEF Next

(* checkpoint, evidence and resume never drop a record, whatever the other *)
(* commands do around them, as long as the lock of no live process is      *)
(* stolen.                                                                 *)
THEOREM LockedWrites == Spec => LockedWritesKeepRecords
<1>1. Init => TypeOK /\ CopyInv /\ PathInv /\ ThenInv /\ LockInv /\ FreshInv
  BY InitInv
<1>2. TypeOK /\ FreshInv /\ [Next]_vars =>
        [\A p \in Proc : Write(p) /\ cmd[p].name \in LockedCommands =>
            stolen \/ RecordsOf(state) \subseteq RecordsOf(state')]_vars
  BY DEF Write, FreshInv
<1> QED
  BY <1>1, <1>2, NextTypeOK, NextLocked, PTL DEF Spec, LockedWritesKeepRecords

(* Who enters the lock has taken it.                                       *)
LEMMA EnterLemma ==
  ASSUME TypeOK, ThenInv, NEW p \in Proc, Step(p), pc'[p] \in Locked, pc[p] \notin Locked
  PROVE  lock = NoProc
<1> USE DEF TypeOK, ThenInv, Locked, AfterWrite, Goto, Stop, SaveState, Copy, Unlock
<1>1. CASE Issue(p) \/ Acquire(p) \/ PurgeStale(p) \/ LockTimeout(p) \/ Write(p)
           \/ CheckpointLoad(p) \/ EvidenceLoad(p) \/ ResumeLoad(p) \/ LockedCommit(p)
           \/ LockedGiveUp(p) \/ LockedReread(p)
  BY <1>1 DEF Issue, Acquire, Take, PurgeStale, LockTimeout, Write, CheckpointLoad,
              EvidenceLoad, ResumeLoad, LockedCommit, LockedGiveUp, LockedReread
<1>2. CASE StartLoad(p) \/ Create(p) \/ StartReload(p) \/ StartInit(p) \/ Delegate(p)
           \/ Handoff(p) \/ Verify(p)
  BY <1>2 DEF StartLoad, Create, StartReload, StartInit, Delegate, Handoff, Verify
<1>3. CASE ImportLoad(p) \/ ImportMerge(p) \/ DistillLoad(p) \/ DistillAnswer(p)
           \/ FinishLoad(p) \/ FinishGate(p) \/ FinishPickup(p)
  BY <1>3 DEF ImportLoad, ImportMerge, DistillLoad, DistillAnswer, FinishLoad,
              FinishGate, FinishPickup
<1>4. CASE FinishCommit(p) \/ RmArchive(p) \/ CopyBegin(p) \/ CopyEnd(p) \/ RmDir(p)
           \/ Removing(p) \/ Removed(p) \/ Crash(p)
  BY <1>4 DEF FinishCommit, RmArchive, CopyBegin, CopyEnd, RmDir, Removing, Removed, Crash
<1> QED
  BY <1>1, <1>2, <1>3, <1>4 DEF Step

M == INSTANCE Mutex WITH Task <- Proc, inside <- {p \in Proc : pc[p] \in Locked},
                         broken <- stolen

ImplementsMutex == M!MutexSpec

(* Whatever the commands and wherever they die, one process at a time is   *)
(* inside the lock of the mission, and one that enters finds it empty, as  *)
(* long as no contender has unlinked the file of a live process.           *)
THEOREM Exclusive == Spec => ImplementsMutex
<1> DEFINE In == {p \in Proc : pc[p] \in Locked}
<1>1. Init => M!MutexInit
  <2>1. Init => /\ ~stolen
                /\ \A p \in Proc : ~(pc[p] \in Locked)
    BY DEF Init, LockInit, Locked
  <2> QED
    BY <2>1 DEF M!MutexInit
<1>2. ASSUME TypeOK, CopyInv, ThenInv, LockInv, NEW p \in Proc, Step(p), ~stolen'
      PROVE  M!Enter(p) \/ M!Exit(p) \/ (In' = In /\ stolen' = stolen)
  <2>0. ~stolen /\ stolen' = stolen
    <3>1. ~stolen
      BY <1>2, ControlLemma
    <3>2. stolen \in BOOLEAN /\ stolen' \in BOOLEAN
      BY <1>2, StepLockOK DEF TypeOK, LockOK
    <3> QED
      BY <1>2, <3>1, <3>2
  <2>1. /\ \A q \in Proc \ {p} : pc'[q] = pc[q]
        /\ \A q \in Proc : pc[q] \in Locked => lock = q
    BY <1>2, <2>0, FrameLemma DEF LockInv
  <2>2. CASE pc'[p] \in Locked /\ pc[p] \notin Locked
    <3>1. lock = NoProc
      BY <1>2, <2>2, EnterLemma
    <3>2. \A q \in Proc : ~(pc[q] \in Locked)
      BY <2>1, <3>1, LockAssumption
    <3>3. \A q \in Proc : pc'[q] \in Locked <=> q = p
      BY <2>1, <2>2, <3>2
    <3>4. In = {} /\ In' = {p}
      BY <3>2, <3>3
    <3> QED
      BY <3>4 DEF M!Enter
  <2>3. CASE pc'[p] \notin Locked /\ pc[p] \in Locked
    <3>1. \A q \in Proc : pc[q] \in Locked <=> q = p
      BY <2>1, <2>3
    <3>2. \A q \in Proc : ~(pc'[q] \in Locked)
      BY <2>1, <2>3, <3>1
    <3>3. In = {p} /\ In' = {}
      BY <3>1, <3>2
    <3> QED
      BY <3>3 DEF M!Exit
  <2>4. CASE pc'[p] \in Locked <=> pc[p] \in Locked
    <3>1. \A q \in Proc : pc'[q] \in Locked <=> pc[q] \in Locked
      BY <2>1, <2>4
    <3> QED
      BY <2>0, <3>1
  <2> QED
    BY <2>2, <2>3, <2>4
<1>3. TypeOK /\ CopyInv /\ ThenInv /\ LockInv /\ [Next]_vars => [M!MutexNext]_<<In, stolen>>
  <2>1. UNCHANGED vars => In' = In /\ stolen' = stolen
    BY DEF vars, lockVars
  <2> QED
    BY <1>2, <2>1 DEF Next, M!MutexNext
<1> QED
  BY <1>1, <1>3, InitInv, NextTypeOK, NextLocked, PTL DEF Spec, ImplementsMutex, M!MutexSpec

LEMMA OnlyIssue ==
  ASSUME NEW p \in Proc, Step(p), ~Issue(p)
  PROVE  cmd' = cmd
BY DEF Step, Acquire, PurgeStale, LockTimeout, Write, CheckpointLoad, EvidenceLoad, ResumeLoad,
   LockedCommit, LockedGiveUp, LockedReread, StartLoad, Create, StartReload,
   StartInit, Delegate, Handoff, Verify, ImportLoad, ImportMerge, DistillLoad,
   DistillAnswer, FinishLoad, FinishGate, FinishPickup, FinishCommit, RmArchive,
   CopyBegin, CopyEnd, RmDir, Removing, Removed, Crash

(* Only the commands issued run.                                           *)
CmdInv == \A p \in Proc : cmd[p].name \in LockedCommands

LEMMA NextCmd ==
  ASSUME Commands \subseteq LockedCommands
  PROVE  TypeOK /\ CmdInv /\ [Next]_vars => CmdInv'
<1> SUFFICES ASSUME TypeOK, CmdInv, [Next]_vars, NEW q \in Proc
             PROVE  cmd'[q].name \in LockedCommands
  BY DEF CmdInv
<1>1. CASE UNCHANGED vars
  BY <1>1 DEF vars, CmdInv
<1>2. ASSUME NEW p \in Proc, Step(p) PROVE cmd'[q].name \in LockedCommands
  <2>1. CASE Issue(p)
    BY <2>1 DEF Issue, CmdInv, TypeOK
  <2>2. CASE ~Issue(p)
    BY <1>2, <2>2, OnlyIssue DEF CmdInv
  <2> QED
    BY <2>1, <2>2
<1> QED
  BY <1>1, <1>2 DEF Next

(* With checkpoint, record-evidence and resume alone no record is lost, as *)
(* long as the lock of no live process is stolen.                          *)
THEOREM RecordsGrow ==
  ASSUME Commands \subseteq LockedCommands
  PROVE  Spec => RecordsOnlyGrow
<1>1. Init => TypeOK /\ CopyInv /\ PathInv /\ ThenInv /\ LockInv /\ FreshInv /\ CmdInv
  <2>1. Init => cmd = [p \in Proc |-> [name |-> "resume", id |-> 0]]
    BY DEF Init
  <2>2. Init => CmdInv
    <3> SUFFICES ASSUME Init, NEW p \in Proc PROVE cmd[p].name \in LockedCommands
      BY DEF CmdInv
    <3>1. cmd[p] = [name |-> "resume", id |-> 0]
      BY <2>1
    <3> QED
      BY <3>1 DEF LockedCommands
  <2> QED
    BY <2>2, InitInv
<1>2. TypeOK /\ CmdInv /\ [Next]_vars => CmdInv'
  BY NextCmd
<1>3. TypeOK /\ PathInv /\ FreshInv /\ CmdInv /\ [Next]_vars =>
        [stolen \/ RecordsOf(state) \subseteq RecordsOf(state')]_vars
  <2> SUFFICES ASSUME TypeOK, PathInv, FreshInv, CmdInv, NEW p \in Proc, Step(p), ~stolen
               PROVE  RecordsOf(state) \subseteq RecordsOf(state')
    BY Zenon DEF Next
  <2>1. ~Removing(p) /\ ~Removed(p)
    <3>1. pc[p] # "removing"
      BY DEF PathInv, CmdInv
    <3> QED
      BY <3>1 DEF Removing, Removed
  <2>2. CASE Write(p)
    BY <2>2 DEF Write, FreshInv, CmdInv
  <2> QED
    BY <2>1, <2>2, StateLemma
<1> QED
  BY <1>1, <1>2, <1>3, NextTypeOK, NextLocked, PTL DEF Spec, RecordsOnlyGrow

-----------------------------------------------------------------------------
(* Nothing is completed without a verification on record.                  *)

Done == {"distilling", "completed", "archived"}

Verified(s) == StateIn(s, Done) => \E r \in s.recs : r.event = "VERIFIED"

\* Where finish has checked that its copy is completed.
Finishing(p) == \/ pc[p] \in {"rmArchive", "copy", "copying", "rmDir", "removing"}
                \/ pc[p] \in {"save", "write"} /\ then[p] = "rmArchive"

(* The state and every copy of it are verified, and what finish archives   *)
(* was completed.                                                          *)
VerifiedInv ==
    /\ Verified(state)
    /\ \A p \in Proc : /\ Verified(snap[p])
                       /\ Finishing(p) => StateIn(snap[p], {"completed"})

LEMMA AppendVerified ==
  ASSUME TypeOK, NEW s \in States, Verified(s), NEW p \in Proc, NEW e \in Events,
         NEW st \in Statuses, st \in Done => s.status \in Done \/ e = "VERIFIED"
  PROVE  Verified(Append(s, p, e, st))
<1>1. /\ Append(s, p, e, st).status = st
      /\ Append(s, p, e, st).recs = s.recs \cup {[id |-> cmd[p].id, event |-> e]}
  BY AppendLemma
<1>2. s # NoState
  BY MissionAssumption
<1> DEFINE a == Append(s, p, e, st)
           new == [id |-> cmd[p].id, event |-> e]
<1>3. new \in a.recs /\ new.event = e /\ s.recs \subseteq a.recs
  BY <1>1
<1>4. a.status = st
  BY <1>1
<1> HIDE DEF a, new
<1>5. s.status \in Done => Verified(a)
  BY <1>2, <1>3 DEF Verified, StateIn
<1>6. e = "VERIFIED" => Verified(a)
  BY <1>3 DEF Verified
<1>7. st \notin Done => Verified(a)
  BY <1>4 DEF Verified, StateIn
<1> QED
  BY <1>5, <1>6, <1>7 DEF a

(* One process moves on with a verified copy.                              *)
LEMMA MoveLemma ==
  ASSUME TypeOK, VerifiedInv, NEW p \in Proc, Verified(state'),
         \A q \in Proc \ {p} : /\ pc'[q] = pc[q] /\ then'[q] = then[q]
                                /\ snap'[q] = snap[q],
         Verified(snap'[p]), Finishing(p)' => StateIn(snap'[p], {"completed"})
  PROVE  VerifiedInv'
<1>1. ASSUME NEW q \in Proc PROVE Verified(snap'[q])
  BY <1>1 DEF VerifiedInv
<1>2. ASSUME NEW q \in Proc PROVE Finishing(q)' => StateIn(snap'[q], {"completed"})
  BY <1>2 DEF VerifiedInv, Finishing
<1> QED
  BY <1>1, <1>2 DEF VerifiedInv

LEMMA InitVerified == Init => VerifiedInv
<1> SUFFICES ASSUME Init PROVE VerifiedInv
  OBVIOUS
<1>1. PICK s \in InitStatus :
         state = [status |-> s, last |-> InitLast[s], latest |-> 1,
                  recs |-> [id : {0}, event : InitEvents[s]]]
  BY DEF Init
<1>2. s \in {"planned", "active", "distilling", "completed"}
  BY MissionAssumption
<1>3. Verified(state)
  <2>1. state.status \in Done => "VERIFIED" \in InitEvents[s]
    BY <1>1, <1>2 DEF Done, InitEvents
  <2>2. state.status \in Done => [id |-> 0, event |-> "VERIFIED"] \in state.recs
    BY <1>1, <2>1
  <2>3. state \in States
    BY <1>1, <1>2, MissionAssumption
       DEF States, Statuses, Events, Records, InitLast, InitEvents
  <2>4. state # NoState
    BY <2>3, MissionAssumption
  <2> QED
    BY <2>2, <2>4 DEF Verified, StateIn
<1>4. \A p \in Proc : snap[p] = NoState /\ pc[p] = "idle"
  BY DEF Init
<1> QED
  BY <1>3, <1>4 DEF VerifiedInv, Verified, StateIn, Finishing

(* A copy saved for another purpose than to archive it.                    *)
LEMMA SaveVerified ==
  ASSUME TypeOK, VerifiedInv, NEW p \in Proc, NEW s \in States, Verified(s), NEW k,
         k # "rmArchive" \/ s.status = "completed", SaveState(p, s, k)
  PROVE  Verified(snap'[p]) /\ (Finishing(p)' => StateIn(snap'[p], {"completed"}))
<1>1. snap'[p] = s /\ then'[p] = k /\ pc'[p] = "save"
  BY DEF SaveState, Goto, TypeOK
<1>2. s # NoState
  BY MissionAssumption
<1> QED
  BY <1>1, <1>2 DEF Finishing, StateIn

LEMMA StopVerified ==
  ASSUME TypeOK, VerifiedInv, NEW p \in Proc, Stop(p)
  PROVE  Verified(snap'[p]) /\ (Finishing(p)' => StateIn(snap'[p], {"completed"}))
BY DEF Stop, Goto, TypeOK, Finishing, VerifiedInv

LEMMA VerifiedStep ==
  ASSUME TypeOK, CopyInv, ThenInv, VerifiedInv, NEW p \in Proc, Step(p)
  PROVE  /\ Verified(state') /\ Verified(snap'[p])
         /\ Finishing(p)' => StateIn(snap'[p], {"completed"})
<1> DEFINE Mine == /\ Verified(snap'[p])
                   /\ Finishing(p)' => StateIn(snap'[p], {"completed"})
<1>v. Verified(state) /\ Verified(snap[p])
  BY DEF VerifiedInv
<1>e. /\ "ACTIVATE" \in Events /\ "RESUME" \in Events /\ "DELEGATE" \in Events
      /\ "IMPORT" \in Events /\ "VERIFIED" \in Events /\ "REJECTED" \in Events
      /\ "HANDOFF" \in Events /\ "DISTILL" \in Events /\ "FINISH" \in Events
      /\ "ARCHIVE" \in Events /\ "CREATE" \in Events
  BY DEF Events
<1>s. /\ "active" \in Statuses /\ "validating" \in Statuses /\ "planned" \in Statuses
      /\ "distilling" \in Statuses /\ "completed" \in Statuses /\ "archived" \in Statuses
      /\ "active" \notin Done /\ "validating" \notin Done /\ "planned" \notin Done
      /\ "distilling" \in Done /\ "completed" \in Done
  BY DEF Statuses, Done
<1>t. state # NoState => state \in States /\ state.status \in Statuses
  BY DEF TypeOK, States
<1>r. Verified(NoState)
  BY DEF Verified, StateIn
<1>1. CASE \/ Issue(p) \/ LockTimeout(p) \/ CheckpointLoad(p) \/ EvidenceLoad(p)
           \/ ResumeLoad(p) \/ LockedCommit(p) \/ LockedGiveUp(p) \/ StartInit(p)
           \/ FinishLoad(p) \/ FinishGate(p) \/ Crash(p) \/ Acquire(p) \/ PurgeStale(p)
  <2>1. state' = state /\ snap' = snap /\ then' = then
    BY <1>1 DEF Issue, LockTimeout, CheckpointLoad, EvidenceLoad, ResumeLoad, LockedCommit,
       LockedGiveUp, StartInit, FinishLoad, FinishGate, Crash, Acquire, PurgeStale, Stop,
       Unlock, disk
  <2>2. \/ pc'[p] \notin {"rmArchive", "copy", "copying", "rmDir", "removing", "save", "write"}
        \/ pc[p] = "save" /\ pc'[p] \in {"save", "write"}
    BY <1>1 DEF Issue, LockTimeout, CheckpointLoad, EvidenceLoad, ResumeLoad, LockedCommit,
       LockedGiveUp, StartInit, FinishLoad, FinishGate, Crash, Acquire, PurgeStale, Stop, Unlock, Goto,
       TypeOK
  <2> QED
    BY <1>v, <2>1, <2>2 DEF Finishing, VerifiedInv
<1>2. CASE Write(p)
  <2>1. state' = snap[p] /\ snap'[p] = snap[p]
    BY <1>2 DEF Write, SaveState, TypeOK
  <2>2. Finishing(p)' => Finishing(p)
    BY <1>2 DEF Write, SaveState, Goto, Finishing, TypeOK, ThenInv, AfterWrite
  <2> QED
    BY <1>v, <2>1, <2>2 DEF VerifiedInv
<1>3. CASE LockedReread(p)
  <2>1. /\ state' = state /\ snap'[p] = LockedRecord(p)
        /\ pc'[p] = "write" /\ then'[p] = "idle" /\ state # NoState
    BY <1>3 DEF LockedReread, disk, Goto, TypeOK
  <2>2. LockedRecord(p).status = state.status /\ state.recs \subseteq LockedRecord(p).recs
    BY <2>1, LockedRecordLemma
  <2> QED
    BY <1>v, <2>1, <2>2 DEF Verified, StateIn, Finishing
<1>4. CASE StartLoad(p) \/ StartReload(p) \/ Delegate(p) \/ Handoff(p) \/ Verify(p)
  <2>1. state' = state
    BY <1>4 DEF StartLoad, StartReload, Delegate, Handoff, Verify, disk
  <2>2. CASE state = NoState
    <3>1. snap' = snap /\ then' = then /\ pc'[p] \in {"create", "idle"}
      BY <1>4, <2>2 DEF StartLoad, StartReload, Delegate, Handoff, Verify, Stop, Goto,
         StateIn, TypeOK
    <3> QED
      BY <1>v, <2>1, <3>1 DEF Finishing, VerifiedInv
  <2>3. CASE state # NoState
    <3>1. \/ Stop(p)
          \/ SaveState(p, Append(state, p, "RESUME", "active"), "init")
          \/ SaveState(p, Append(state, p, "ACTIVATE", "active"), "init")
          \/ SaveState(p, Append(state, p, "DELEGATE", "active"), "idle")
          \/ SaveState(p, Append(state, p, "HANDOFF", state.status), "idle")
          \/ SaveState(p, Append(state, p, "VERIFIED", "distilling"), "idle")
          \/ SaveState(p, Append(state, p, "REJECTED", "active"), "idle")
      BY <1>4, <2>3 DEF StartLoad, StartReload, Delegate, Handoff, Verify
    <3>2. ASSUME NEW e \in Events, NEW st \in Statuses, NEW k, k # "rmArchive",
                 st \in Done => state.status \in Done \/ e = "VERIFIED",
                 SaveState(p, Append(state, p, e, st), k)
          PROVE  Mine
      <4>1. Append(state, p, e, st) \in States /\ Verified(Append(state, p, e, st))
        BY <1>v, <1>t, <2>3, <3>2, AppendLemma, AppendVerified
      <4> QED
        BY <3>2, <4>1, SaveVerified
    <3>3. Mine
      BY <1>e, <1>s, <1>t, <2>3, <3>1, <3>2, StopVerified
    <3> QED
      BY <1>v, <2>1, <3>3
  <2> QED
    BY <2>2, <2>3
<1>5. CASE Create(p)
  <2>1. state' = state
    BY <1>5 DEF Create
  <2>2. CASE state # NoState
    BY <1>5, <1>v, <2>1, <2>2 DEF Create, Finishing, Goto, TypeOK, VerifiedInv
  <2>3. CASE state = NoState
    <3>1. /\ snap'[p] = [status |-> "planned", last |-> "CREATE", latest |-> head',
                         recs |-> {[id |-> cmd[p].id, event |-> "CREATE"]}]
          /\ then'[p] = "reload" /\ pc'[p] = "save"
      BY <1>5, <2>3 DEF Create, SaveState, Goto, TypeOK
    <3> QED
      BY <1>v, <1>s, <2>1, <3>1 DEF Verified, StateIn, Finishing
  <2> QED
    BY <2>2, <2>3
<1>6. CASE ImportLoad(p) \/ DistillLoad(p) \/ FinishPickup(p)
  <2>1. /\ state' = state /\ snap'[p] \in {state, snap[p]}
        /\ pc'[p] \in {"idle", "merge", "llm", "finCommit"}
    BY <1>6 DEF ImportLoad, DistillLoad, FinishPickup, Copy, Stop, Goto, disk, TypeOK
  <2> QED
    BY <1>v, <2>1 DEF Finishing
<1>7. CASE ImportMerge(p) \/ DistillAnswer(p)
  <2>1. state' = state /\ snap[p] \in States
    BY <1>7 DEF ImportMerge, DistillAnswer, CopyInv, Copied
  <2>2. \/ Stop(p)
        \/ SaveState(p, Append(snap[p], p, "IMPORT", "validating"), "idle")
        \/ /\ isValidTransition(snap[p].status, "completed")
           /\ SaveState(p, Append(snap[p], p, "DISTILL", "completed"), "idle")
    BY <1>7 DEF ImportMerge, DistillAnswer
  <2>3. /\ Append(snap[p], p, "IMPORT", "validating") \in States
        /\ Verified(Append(snap[p], p, "IMPORT", "validating"))
    BY <1>v, <1>e, <1>s, <2>1, AppendLemma, AppendVerified
  <2>4. isValidTransition(snap[p].status, "completed") =>
          /\ Append(snap[p], p, "DISTILL", "completed") \in States
          /\ Verified(Append(snap[p], p, "DISTILL", "completed"))
    <3>1. isValidTransition(snap[p].status, "completed") => snap[p].status \in Done
      BY DEF isValidTransition, Allowed, Done
    <3> QED
      BY <1>v, <1>e, <1>s, <2>1, <3>1, AppendLemma, AppendVerified
  <2>5. Mine
    BY <2>2, <2>3, <2>4, StopVerified, SaveVerified
  <2> QED
    BY <1>v, <2>1, <2>5
<1>8. CASE FinishCommit(p)
  <2> DEFINE s == IF head' = head THEN snap[p] ELSE [snap[p] EXCEPT !.latest = head']
  <2>1. state' = state /\ snap[p] \in States /\ head' \in Nat
    BY <1>8 DEF FinishCommit, GitCommit, CopyInv, Copied, TypeOK
  <2>2. /\ s \in States /\ s.status = snap[p].status /\ s.recs = snap[p].recs
    BY <2>1 DEF States
  <2>3. Verified(s)
    <3>1. s # NoState /\ snap[p] # NoState
      BY <2>1, <2>2, MissionAssumption
    <3> HIDE DEF s
    <3> QED
      BY <1>v, <2>2, <3>1 DEF Verified, StateIn
  <2>4. \/ Stop(p)
        \/ s.status = "completed" /\ SaveState(p, s, "rmArchive")
        \/ /\ isValidTransition(s.status, "completed")
           /\ SaveState(p, Append(s, p, "FINISH", "completed"), "rmArchive")
    BY <1>8 DEF FinishCommit
  <2> HIDE DEF s
  <2>5. isValidTransition(s.status, "completed") =>
          /\ Append(s, p, "FINISH", "completed") \in States
          /\ Append(s, p, "FINISH", "completed").status = "completed"
          /\ Verified(Append(s, p, "FINISH", "completed"))
    <3>1. isValidTransition(s.status, "completed") => s.status \in Done
      BY DEF isValidTransition, Allowed, Done
    <3>2. /\ Append(s, p, "FINISH", "completed") \in States
          /\ Append(s, p, "FINISH", "completed").status = "completed"
      BY <1>e, <1>s, <2>2, AppendLemma
    <3>3. s.status \in Done => Verified(Append(s, p, "FINISH", "completed"))
      BY <1>e, <1>s, <2>2, <2>3, AppendVerified
    <3> QED
      BY <3>1, <3>2, <3>3
  <2>6. Mine
    BY <2>2, <2>3, <2>4, <2>5, StopVerified, SaveVerified
  <2> QED
    BY <1>v, <2>1, <2>6
<1>9. CASE RmArchive(p) \/ CopyBegin(p) \/ CopyEnd(p) \/ RmDir(p) \/ Removing(p)
  <2>1. /\ state' \in {state, NoState} /\ snap' = snap
        /\ pc[p] \in {"rmArchive", "copy", "copying", "rmDir", "removing"}
    BY <1>9 DEF RmArchive, CopyBegin, CopyEnd, RmDir, Removing
  <2> QED
    BY <1>v, <1>r, <2>1 DEF Finishing, VerifiedInv
<1>10. CASE Removed(p)
  <2>1. /\ state' \in {state, NoState} /\ pc[p] = "removing" /\ snap[p] \in States
        /\ \/ Stop(p)
           \/ SaveState(p, Append(snap[p], p, "ARCHIVE", "archived"), "save")
    BY <1>10 DEF Removed, CopyInv, Copied
  <2>2. snap[p].status \in Done
    BY <1>s, <2>1 DEF VerifiedInv, Finishing, StateIn
  <2>3. /\ Append(snap[p], p, "ARCHIVE", "archived") \in States
        /\ Verified(Append(snap[p], p, "ARCHIVE", "archived"))
    BY <1>v, <1>e, <1>s, <2>1, <2>2, AppendLemma, AppendVerified
  <2>4. Mine
    BY <2>1, <2>3, SaveVerified, StopVerified
  <2> QED
    BY <1>r, <1>v, <2>1, <2>4
<1> QED
  BY <1>1, <1>2, <1>3, <1>4, <1>5, <1>6, <1>7, <1>8, <1>9, <1>10, Zenon DEF Step

LEMMA NextVerified ==
  TypeOK /\ CopyInv /\ ThenInv /\ VerifiedInv /\ [Next]_vars => VerifiedInv'
<1> SUFFICES ASSUME TypeOK, CopyInv, ThenInv, VerifiedInv, [Next]_vars PROVE VerifiedInv'
  OBVIOUS
<1>1. CASE UNCHANGED vars
  BY <1>1 DEF vars, disk, VerifiedInv, Verified, StateIn, Finishing
<1>2. ASSUME NEW p \in Proc, Step(p) PROVE VerifiedInv'
  <2>1. \A q \in Proc \ {p} : /\ pc'[q] = pc[q] /\ then'[q] = then[q]
                              /\ snap'[q] = snap[q]
    BY <1>2, FrameLemma
  <2> QED
    BY <1>2, <2>1, MoveLemma, VerifiedStep
<1> QED
  BY <1>1, <1>2 DEF Next

(* No mission is distilling, completed or archived without a verification, *)
(* for any processes, commands and crashes.                                *)
THEOREM CompletedVerified == Spec => []CompletedWasVerified
<1>1. Init => TypeOK /\ CopyInv /\ PathInv /\ ThenInv /\ LockInv /\ FreshInv /\ VerifiedInv
  BY InitInv, InitVerified
<1>2. VerifiedInv => CompletedWasVerified
  BY DEF VerifiedInv, Verified, Done, CompletedWasVerified
<1> QED
  BY <1>1, <1>2, NextTypeOK, NextLocked, NextVerified, PTL DEF Spec
-----------------------------------------------------------------------------
(* What a history says was distilled has its knowledge in a file: the file *)
(* is written first, and no other command makes such an entry.             *)

Distilled(s) == \E r \in RecordsOf(s) : r.event = "DISTILL"

DistilledHasWisdom ==
    /\ Distilled(state) => wisdom
    /\ archive # NoArchive /\ Distilled(archive.st) => wisdom

WisdomInv == DistilledHasWisdom /\ \A p \in Proc : Distilled(snap[p]) => wisdom

\* A record is new to p, and says that p has distilled.
LEMMA AppendDistilled ==
  ASSUME TypeOK, NEW s \in States, NEW p \in Proc, NEW e \in Events, NEW st \in Statuses,
         e # "DISTILL"
  PROVE  /\ Append(s, p, e, st) \in States
         /\ Distilled(Append(s, p, e, st)) => Distilled(s)
<1>1. /\ Append(s, p, e, st).recs = s.recs \cup {[id |-> cmd[p].id, event |-> e]}
      /\ Append(s, p, e, st) \in States
  BY AppendLemma
<1>2. Append(s, p, e, st) # NoState /\ s # NoState
  BY <1>1, MissionAssumption
<1> QED
  BY <1>1, <1>2 DEF Distilled, RecordsOf

(* A copy or a state that is distilled was so before, but for the answer   *)
(* of the model, and knowledge is never taken back.                        *)
LEMMA DistilledStep ==
  ASSUME TypeOK, CopyInv, NEW p \in Proc, Step(p)
  PROVE  /\ Distilled(state') => Distilled(state) \/ Distilled(snap[p])
         /\ Distilled(snap'[p]) => wisdom' \/ Distilled(state) \/ Distilled(snap[p])
         /\ archive' # NoArchive => \/ archive'.st = state
                                   \/ (archive # NoArchive /\ archive'.st = archive.st)
         /\ wisdom => wisdom'
<1> DEFINE Mine == Distilled(snap'[p]) => Distilled(state) \/ Distilled(snap[p])
<1>e. /\ {"ACTIVATE", "RESUME", "DELEGATE", "IMPORT", "VERIFIED", "REJECTED", "HANDOFF",
          "FINISH", "ARCHIVE", "EVIDENCE"} \subseteq Events
      /\ {"active", "validating", "distilling", "completed", "archived"} \subseteq Statuses
  BY DEF Events, Statuses
<1>t. /\ state # NoState => state \in States /\ state.status \in Statuses
      /\ state \in States \cup {NoState} /\ ~Distilled(NoState)
  BY DEF TypeOK, States, Distilled, RecordsOf
<1>w. (wisdom' = wisdom) \/ wisdom'
  BY DEF Step, Issue, Acquire, PurgeStale, LockTimeout, Write, CheckpointLoad, EvidenceLoad, ResumeLoad,
     LockedCommit, LockedGiveUp, LockedReread, StartLoad, Create, StartReload, StartInit,
     Delegate, Handoff, Verify, ImportLoad, ImportMerge, DistillLoad, DistillAnswer,
     FinishLoad, FinishGate, FinishPickup, FinishCommit, RmArchive, CopyBegin, CopyEnd,
     RmDir, Removing, Removed, Crash, disk
<1>s. Distilled(state') => Distilled(state) \/ Distilled(snap[p])
  BY <1>t, StateLemma DEF Write
<1>x. ASSUME NEW s \in States, Distilled(s) => Distilled(state) \/ Distilled(snap[p]),
             NEW e \in Events, e # "DISTILL", NEW st \in Statuses, NEW k,
             SaveState(p, Append(s, p, e, st), k)
      PROVE  Mine
  BY <1>x, AppendDistilled DEF SaveState, TypeOK
<1>1. ASSUME \/ Issue(p) \/ LockTimeout(p) \/ CheckpointLoad(p) \/ EvidenceLoad(p)
             \/ ResumeLoad(p) \/ LockedCommit(p) \/ LockedGiveUp(p) \/ StartInit(p)
             \/ FinishLoad(p) \/ FinishGate(p) \/ Crash(p) \/ Acquire(p) \/ Write(p)
             \/ PurgeStale(p) \/ RmArchive(p) \/ CopyBegin(p) \/ CopyEnd(p)
             \/ RmDir(p) \/ Removing(p)
      PROVE  Mine
  <2>1. snap'[p] = snap[p]
    BY <1>1 DEF Issue, LockTimeout, CheckpointLoad, EvidenceLoad, ResumeLoad, LockedCommit,
       LockedGiveUp, StartInit, FinishLoad, FinishGate, Crash, Acquire, PurgeStale, Write,
       RmArchive, CopyBegin, CopyEnd, RmDir, Removing, Stop, Unlock, SaveState, disk, TypeOK
  <2> QED
    BY <2>1
<1>2. ASSUME LockedReread(p) PROVE Mine
  <2>1. snap'[p] = LockedRecord(p) /\ state \in States
    BY <1>2 DEF LockedReread, TypeOK
  <2>2. CASE cmd[p].name = "checkpoint"
    <3>1. LockedRecord(p).recs = state.recs \cup {[id |-> cmd[p].id, event |-> "CHECKPOINT"]}
      BY <2>1, <2>2 DEF LockedRecord, States
    <3>2. LockedRecord(p) \in States /\ LockedRecord(p) # NoState /\ state # NoState
      BY <1>2, LockedRecordLemma, MissionAssumption DEF LockedReread
    <3> QED
      BY <2>1, <3>1, <3>2 DEF Distilled, RecordsOf
  <2>3. CASE cmd[p].name = "evidence"
    <3> DEFINE a == Append(state, p, "EVIDENCE", state.status)
    <3>1. a \in States /\ (Distilled(a) => Distilled(state))
      BY <1>e, <1>t, <2>1, AppendDistilled, MissionAssumption
    <3>2. LockedRecord(p) = [a EXCEPT !.latest = head]
      BY <2>3 DEF LockedRecord
    <3>3. LockedRecord(p) \in States /\ LockedRecord(p) # NoState
      BY <1>2, LockedRecordLemma, MissionAssumption DEF LockedReread
    <3>4. a # NoState
      BY <3>1, MissionAssumption
    <3> HIDE DEF a
    <3>5. LockedRecord(p).recs = a.recs
      BY <3>1, <3>2 DEF States
    <3> QED
      BY <2>1, <3>1, <3>3, <3>4, <3>5 DEF Distilled, RecordsOf
  <2>4. CASE cmd[p].name \notin {"checkpoint", "evidence"}
    <3>1. LockedRecord(p) = Append(state, p, "RESUME", state.status)
      BY <2>4 DEF LockedRecord
    <3> QED
      BY <1>e, <1>t, <2>1, <3>1, AppendDistilled, MissionAssumption
  <2> QED
    BY <2>2, <2>3, <2>4
<1>3. ASSUME StartLoad(p) \/ StartReload(p) \/ Delegate(p) \/ Handoff(p) \/ Verify(p) PROVE Mine
  <2>1. CASE snap'[p] = snap[p]
    BY <2>1
  <2>2. CASE snap'[p] # snap[p]
    <3>1. /\ state \in States /\ state.status \in Statuses
          /\ \/ SaveState(p, Append(state, p, "RESUME", "active"), "init")
             \/ SaveState(p, Append(state, p, "ACTIVATE", "active"), "init")
             \/ SaveState(p, Append(state, p, "DELEGATE", "active"), "idle")
             \/ SaveState(p, Append(state, p, "HANDOFF", state.status), "idle")
             \/ SaveState(p, Append(state, p, "VERIFIED", "distilling"), "idle")
             \/ SaveState(p, Append(state, p, "REJECTED", "active"), "idle")
      BY <1>3, <1>t, <2>2 DEF StartLoad, StartReload, Delegate, Handoff, Verify, Stop, StateIn
    <3> QED
      BY <1>e, <1>x, <3>1
  <2> QED
    BY <2>1, <2>2
<1>4. ASSUME Create(p) PROVE Mine
  <2>1. CASE snap'[p] = snap[p]
    BY <2>1
  <2>2. CASE snap'[p] # snap[p]
    <3>1. snap'[p].recs = {[id |-> cmd[p].id, event |-> "CREATE"]}
      BY <1>4, <2>2 DEF Create, SaveState, TypeOK
    <3> QED
      BY <3>1 DEF Distilled, RecordsOf
  <2> QED
    BY <2>1, <2>2
<1>5. ASSUME ImportLoad(p) \/ DistillLoad(p) \/ FinishPickup(p) PROVE Mine
  <2>1. snap'[p] \in {state, snap[p]}
    BY <1>5 DEF ImportLoad, DistillLoad, FinishPickup, Copy, Stop, TypeOK
  <2> QED
    BY <2>1
<1>6. ASSUME ImportMerge(p) PROVE Mine
  <2>1. /\ snap[p] \in States
        /\ \/ Stop(p)
           \/ SaveState(p, Append(snap[p], p, "IMPORT", "validating"), "idle")
    BY <1>6 DEF ImportMerge, CopyInv, Copied
  <2>2. Stop(p) => Mine
    BY DEF Stop
  <2> QED
    BY <1>e, <1>x, <2>1, <2>2
<1>7. ASSUME FinishCommit(p) PROVE Mine
  <2> DEFINE s == IF head' = head THEN snap[p] ELSE [snap[p] EXCEPT !.latest = head']
  <2>1. snap[p] \in States /\ head' \in Nat
    BY <1>7 DEF FinishCommit, GitCommit, CopyInv, Copied, TypeOK
  <2>2. s \in States /\ s.recs = snap[p].recs
    BY <2>1 DEF States
  <2>3. \/ Stop(p)
        \/ SaveState(p, s, "rmArchive")
        \/ SaveState(p, Append(s, p, "FINISH", "completed"), "rmArchive")
    BY <1>7 DEF FinishCommit
  <2> HIDE DEF s
  <2>4. Distilled(s) => Distilled(snap[p])
    BY <2>1, <2>2, MissionAssumption DEF Distilled, RecordsOf
  <2>5. Stop(p) => Mine
    BY DEF Stop
  <2>6. SaveState(p, s, "rmArchive") => Mine
    BY <2>4 DEF SaveState, TypeOK
  <2> QED
    BY <1>e, <1>x, <2>2, <2>3, <2>4, <2>5, <2>6
<1>8. ASSUME Removed(p) PROVE Mine
  <2>1. /\ snap[p] \in States
        /\ \/ Stop(p)
           \/ SaveState(p, Append(snap[p], p, "ARCHIVE", "archived"), "save")
    BY <1>8 DEF Removed, CopyInv, Copied
  <2>2. Stop(p) => Mine
    BY DEF Stop
  <2> QED
    BY <1>e, <1>x, <2>1, <2>2
<1>9. ASSUME DistillAnswer(p) PROVE wisdom'
  BY <1>9 DEF DistillAnswer
<1>a. archive' # NoArchive => \/ archive'.st = state
                              \/ (archive # NoArchive /\ archive'.st = archive.st)
  BY DEF Step, Issue, Acquire, PurgeStale, LockTimeout, Write, CheckpointLoad, EvidenceLoad, ResumeLoad,
     LockedCommit, LockedGiveUp, LockedReread, StartLoad, Create, StartReload, StartInit,
     Delegate, Handoff, Verify, ImportLoad, ImportMerge, DistillLoad, DistillAnswer,
     FinishLoad, FinishGate, FinishPickup, FinishCommit, RmArchive, CopyBegin, CopyEnd,
     RmDir, Removing, Removed, Crash, disk, TypeOK, Archives
<1>b. Mine \/ wisdom'
  BY <1>1, <1>2, <1>3, <1>4, <1>5, <1>6, <1>7, <1>8, <1>9, Zenon DEF Step
<1> QED
  BY <1>a, <1>b, <1>s, <1>w

(* A mission whose history says DISTILL, in its directory or archived, has *)
(* its knowledge in a file, whatever the commands and wherever they die.   *)
THEOREM WisdomKept == Spec => []DistilledHasWisdom
<1>1. Init => WisdomInv
  <2> SUFFICES ASSUME Init PROVE WisdomInv
    OBVIOUS
  <2>1. PICK s \in InitStatus :
           state = [status |-> s, last |-> InitLast[s], latest |-> 1,
                    recs |-> [id : {0}, event : InitEvents[s]]]
    BY DEF Init
  <2>2. s \in {"planned", "active", "distilling", "completed"}
    BY MissionAssumption
  <2>3. "DISTILL" \in InitEvents[s] => InitLast[s] = "DISTILL"
    BY <2>2 DEF InitEvents, InitLast
  <2>4. Distilled(state) => wisdom
    BY <2>1, <2>3 DEF Init, Distilled, RecordsOf
  <2>5. archive = NoArchive /\ \A p \in Proc : ~Distilled(snap[p])
    BY DEF Init, Distilled, RecordsOf
  <2> QED
    BY <2>4, <2>5 DEF WisdomInv, DistilledHasWisdom
<1>2. TypeOK /\ CopyInv /\ WisdomInv /\ [Next]_vars => WisdomInv'
  <2> SUFFICES ASSUME TypeOK, CopyInv, WisdomInv, [Next]_vars PROVE WisdomInv'
    OBVIOUS
  <2>1. CASE UNCHANGED vars
    BY <2>1 DEF vars, disk, WisdomInv, DistilledHasWisdom, Distilled, RecordsOf
  <2>2. ASSUME NEW p \in Proc, Step(p) PROVE WisdomInv'
    <3>1. \A q \in Proc \ {p} : snap'[q] = snap[q]
      BY <2>2, FrameLemma
    <3> QED
      BY <2>2, <3>1, DistilledStep DEF WisdomInv, DistilledHasWisdom
  <2> QED
    BY <2>1, <2>2 DEF Next
<1>3. WisdomInv => DistilledHasWisdom
  BY DEF WisdomInv
<1> QED
  BY <1>1, <1>2, <1>3, InitInv, NextTypeOK, PTL DEF Spec
-----------------------------------------------------------------------------
(***************************************************************************)
(* A mission with one owner: the commands are any number and may die at    *)
(* any step, but come one at a time (mission-conflict-avoidance.md,        *)
(* "Single-Owner, Multi-Worker").                                          *)
(***************************************************************************)
OneOwner == \A p, q \in Proc : p = q

Kept(s) == s # NoState => s.latest # 0

(* A state never names 0 as its latest commit, so a gate that compares it  *)
(* with HEAD lets finish through only where there is a repository.         *)
LatestInv == /\ Kept(state)
             /\ \A p \in Proc : Kept(snap[p])

\* delegate, where it is issued, does not look at the table.
Follows(s, t) == \/ t.status = s.status \/ isValidTransition(s.status, t.status)
                 \/ "delegate" \in Commands

(* Only the commands that are issued run.                                  *)
IssuedInv == \A p \in Proc : cmd[p].name \in Commands \cup {"resume"}

\* A copy a command works on is still the state, and what it writes may follow it.
Current(p) ==
    /\ pc[p] \in {"merge", "llm", "finCommit"} => snap[p] = state
    /\ pc[p] \in {"save", "write"} /\ state # NoState => Follows(state, snap[p])

\* What finish knows on its way from the gate to the removal of the directory.
Archiving(p) ==
    /\ pc[p] = "pickup" => state # NoState /\ state.latest = head
    /\ pc[p] = "finCommit" => snap[p].latest = head
    /\ Finishing(p) /\ pc[p] # "removing" => snap[p].latest = head
    /\ pc[p] \in {"rmArchive", "copy", "copying", "rmDir"} => state = snap[p]
    /\ pc[p] \in {"copying", "rmDir"} =>
          /\ archive # NoArchive
          /\ archive.st = state /\ archive.head = head /\ archive.root = roots

(* What the owner has in hand is what is on disk, until it writes.         *)
OwnerInv == /\ LatestInv
            /\ ArchiveIsConsistent
            /\ \A p \in Proc : Current(p) /\ Archiving(p)
-----------------------------------------------------------------------------
LEMMA AppendLatest ==
  ASSUME NEW s \in States, NEW p \in Proc, NEW e, NEW st
  PROVE  Append(s, p, e, st).latest = s.latest
BY DEF Append, States

LEMMA InitOwner == Init => OwnerInv
<1> SUFFICES ASSUME Init PROVE OwnerInv
  OBVIOUS
<1>1. PICK s \in InitStatus :
         state = [status |-> s, last |-> InitLast[s], latest |-> 1,
                  recs |-> [id : {0}, event : InitEvents[s]]]
  BY DEF Init
<1>2. state.latest = 1
  BY <1>1
<1>3. /\ head = 1 /\ archive = NoArchive
      /\ \A p \in Proc : pc[p] = "idle" /\ snap[p] = NoState
  BY DEF Init
<1> QED
  BY <1>2, <1>3 DEF OwnerInv, LatestInv, Kept, ArchiveIsConsistent, Current,
     Archiving, Finishing

(* What a step of the owner leaves on disk and in hand.                    *)
Owned(p) == /\ Kept(state) /\ Kept(snap[p])
            /\ ArchiveIsConsistent
            /\ Current(p) /\ Archiving(p)

LEMMA StopOwned ==
  ASSUME TypeOK, NEW p \in Proc, Owned(p), Stop(p), Kept(state'), ArchiveIsConsistent'
  PROVE  Owned(p)'
BY DEF Stop, Goto, TypeOK, Owned, Current, Archiving, Finishing

(* A copy is about to be saved, by another command than finish.            *)
LEMMA SaveOwned ==
  ASSUME TypeOK, NEW p \in Proc, Owned(p), NEW s \in States, NEW k, k # "rmArchive",
         SaveState(p, s, k), s.latest # 0, state' = state,
         state # NoState => Follows(state, s), ArchiveIsConsistent'
  PROVE  Owned(p)'
<1>1. snap'[p] = s /\ then'[p] = k /\ pc'[p] = "save"
  BY DEF SaveState, Goto, TypeOK
<1> QED
  BY <1>1 DEF Owned, Kept, Current, Archiving, Finishing, Follows

LEMMA OwnerStep ==
  ASSUME TypeOK, CopyInv, ThenInv, VerifiedInv, NEW p \in Proc, Owned(p), Step(p),
         IssuedInv
  PROVE  Owned(p)'
<1> USE DEF Owned
<1>e. /\ "ACTIVATE" \in Events /\ "RESUME" \in Events
      /\ "IMPORT" \in Events /\ "DELEGATE" \in Events /\ "VERIFIED" \in Events /\ "REJECTED" \in Events
      /\ "HANDOFF" \in Events /\ "DISTILL" \in Events /\ "FINISH" \in Events
      /\ "ARCHIVE" \in Events /\ "CREATE" \in Events
  BY DEF Events
<1>s. /\ "active" \in Statuses /\ "validating" \in Statuses /\ "planned" \in Statuses
      /\ "distilling" \in Statuses /\ "completed" \in Statuses /\ "archived" \in Statuses
  BY DEF Statuses
<1>t. /\ state # NoState => state \in States /\ state.status \in Statuses
      /\ head \in Nat /\ commits \in Nat
  BY DEF TypeOK, States
<1>w. state' = state /\ archive' = archive => Kept(state') /\ ArchiveIsConsistent'
  BY DEF ArchiveIsConsistent
<1>g. GitCommit => head' \in Nat /\ (head # 0 => head' # 0)
  BY <1>t DEF GitCommit
<1>1. CASE \/ Issue(p) \/ LockTimeout(p) \/ CheckpointLoad(p) \/ EvidenceLoad(p)
           \/ ResumeLoad(p) \/ LockedGiveUp(p) \/ FinishLoad(p) \/ Crash(p)
           \/ LockedCommit(p) \/ StartInit(p)
  <2>1. state' = state /\ archive' = archive /\ snap' = snap /\ then' = then
    BY <1>1 DEF Issue, LockTimeout, CheckpointLoad, EvidenceLoad, ResumeLoad, LockedCommit,
       LockedGiveUp, StartInit, FinishLoad, Crash, Stop, Unlock, disk
  <2>2. pc'[p] \in {"idle", "load", "lock", "gate", "reread"}
    BY <1>1 DEF Issue, LockTimeout, CheckpointLoad, EvidenceLoad, ResumeLoad, LockedCommit,
       LockedGiveUp, StartInit, FinishLoad, Crash, Stop, Unlock, Goto, TypeOK
  <2> QED
    BY <1>w, <2>1, <2>2 DEF Current, Archiving, Finishing
<1>13. CASE PurgeStale(p)
  <2>1. /\ state' = state /\ archive' = archive /\ snap' = snap /\ then' = then
        /\ pc' = pc /\ head' = head
    BY <1>13 DEF PurgeStale, disk, repo
  <2>2. pc[p] \in {"save", "lock"}
    BY <1>13 DEF PurgeStale
  <2> QED
    BY <1>w, <2>1, <2>2 DEF Current, Archiving, Finishing, Follows
<1>2. CASE Acquire(p)
  <2>1. /\ state' = state /\ archive' = archive /\ head' = head /\ snap' = snap
        /\ then' = then
    BY <1>2 DEF Acquire, disk, repo
  <2>2. \/ pc'[p] \in {"commit", "reread"}
        \/ pc[p] = "save" /\ pc'[p] = "write"
    BY <1>2 DEF Acquire, Goto, TypeOK
  <2> QED
    BY <1>w, <2>1, <2>2 DEF Current, Archiving, Finishing, Follows
<1>3. CASE Write(p)
  <2>1. /\ state' = snap[p] /\ snap'[p] = snap[p] /\ head' = head /\ archive' = archive
        /\ pc[p] = "write"
    BY <1>3 DEF Write, SaveState, TypeOK, repo
  <2>2. \/ pc'[p] = "save" /\ then'[p] = "idle"
        \/ pc'[p] = then[p] /\ then'[p] = then[p] /\ pc'[p] # "save"
    BY <1>3 DEF Write, SaveState, Goto, TypeOK
  <2>3. then[p] \in {"idle", "reload", "init", "rmArchive", "save"}
    BY DEF ThenInv, AfterWrite
  <2>4. Kept(state') /\ ArchiveIsConsistent'
    BY <2>1 DEF ArchiveIsConsistent
  <2>5. Current(p)'
    BY <2>1, <2>2, <2>3 DEF Current, Follows
  <2>6. Archiving(p)'
    BY <2>1, <2>2, <2>3 DEF Archiving, Finishing
  <2> QED
    BY <2>1, <2>4, <2>5, <2>6
<1>4. CASE LockedReread(p)
  <2>1. /\ state' = state /\ head' = head /\ archive' = archive
        /\ snap'[p] = LockedRecord(p)
        /\ pc'[p] = "write" /\ then'[p] = "idle" /\ state # NoState
        /\ cmd[p].name # "resume" => head # 0
    BY <1>4 DEF LockedReread, disk, repo, Goto, TypeOK
  <2>2. LockedRecord(p).status = state.status
    BY <2>1, LockedRecordLemma
  <2>3. LockedRecord(p).latest # 0
    <3>1. CASE cmd[p].name = "checkpoint"
      BY <1>t, <2>1, <3>1 DEF LockedRecord, States
    <3>2. CASE cmd[p].name = "evidence"
      <4>1. "EVIDENCE" \in Events
        BY DEF Events
      <4>2. Append(state, p, "EVIDENCE", state.status) \in States
        BY <1>t, <2>1, <4>1, AppendLemma
      <4> QED
        BY <2>1, <3>2, <4>2 DEF LockedRecord, States
    <3>3. CASE cmd[p].name \notin {"checkpoint", "evidence"}
      BY <1>t, <2>1, <3>3, AppendLatest DEF LockedRecord, Kept
    <3> QED
      BY <3>1, <3>2, <3>3
  <2> QED
    BY <1>w, <2>1, <2>2, <2>3 DEF Kept, Current, Archiving, Finishing, Follows
<1>5. CASE StartLoad(p) \/ StartReload(p) \/ Delegate(p) \/ Handoff(p) \/ Verify(p)
  <2>1. state' = state /\ archive' = archive /\ head' = head
    BY <1>5 DEF StartLoad, StartReload, Delegate, Handoff, Verify, disk, repo
  <2>2. CASE state = NoState
    <3>1. snap' = snap /\ then' = then /\ pc'[p] \in {"create", "idle"}
      BY <1>5, <2>2 DEF StartLoad, StartReload, Delegate, Handoff, Verify, Stop, Goto, StateIn, TypeOK
    <3> QED
      BY <1>w, <2>1, <3>1 DEF Current, Archiving, Finishing
  <2>3. CASE state # NoState
    <3>1. \/ Stop(p)
          \/ /\ isValidTransition(state.status, "active")
             /\ SaveState(p, Append(state, p, "RESUME", "active"), "init")
          \/ /\ isValidTransition(state.status, "active")
             /\ SaveState(p, Append(state, p, "ACTIVATE", "active"), "init")
          \/ SaveState(p, Append(state, p, "HANDOFF", state.status), "idle")
          \/ /\ "delegate" \in Commands
             /\ SaveState(p, Append(state, p, "DELEGATE", "active"), "idle")
          \/ /\ state.status \in {"active", "validating"}
             /\ SaveState(p, Append(state, p, "VERIFIED", "distilling"), "idle")
          \/ /\ state.status \in {"active", "validating"}
             /\ SaveState(p, Append(state, p, "REJECTED", "active"), "idle")
      BY <1>5, <2>3 DEF StartLoad, StartReload, Delegate, Handoff, Verify, StateIn,
         IssuedInv, Running
    <3>2. ASSUME NEW e \in Events, NEW st \in Statuses, NEW k, k # "rmArchive",
                 \/ st = state.status \/ isValidTransition(state.status, st)
                 \/ "delegate" \in Commands,
                 SaveState(p, Append(state, p, e, st), k)
          PROVE  Owned(p)'
      <4>1. /\ Append(state, p, e, st) \in States
            /\ Append(state, p, e, st).status = st
            /\ Append(state, p, e, st).latest # 0
        BY <1>t, <2>3, AppendLemma, AppendLatest DEF Kept
      <4>2. Follows(state, Append(state, p, e, st))
        BY <3>2, <4>1 DEF Follows
      <4> HIDE DEF Owned
      <4> QED
        BY <1>w, <2>1, <3>2, <4>1, <4>2, SaveOwned DEF Owned
    <3>3. state.status \in {"active", "validating"} =>
            /\ isValidTransition(state.status, "distilling")
            /\ state.status = "active" \/ isValidTransition(state.status, "active")
      BY DEF isValidTransition, Allowed
    <3> HIDE DEF Owned
    <3>4. Stop(p) => Owned(p)'
      BY <1>w, <2>1, StopOwned
    <3> QED
      BY <1>e, <1>s, <1>t, <2>3, <3>1, <3>2, <3>3, <3>4
  <2> QED
    BY <2>2, <2>3
<1>6. CASE Create(p)
  <2>1. state' = state /\ archive' = archive
    BY <1>6 DEF Create
  <2>2. CASE state # NoState
    BY <1>6, <1>w, <2>1, <2>2 DEF Create, Goto, TypeOK, Current, Archiving, Finishing
  <2>3. CASE state = NoState
    <3>1. /\ snap'[p] = [status |-> "planned", last |-> "CREATE", latest |-> head',
                         recs |-> {[id |-> cmd[p].id, event |-> "CREATE"]}]
          /\ then'[p] = "reload" /\ pc'[p] = "save" /\ head' # 0
      BY <1>6, <1>t, <2>3 DEF Create, GitInit, repo, SaveState, Goto, TypeOK
    <3> QED
      BY <1>w, <2>1, <2>3, <3>1 DEF Kept, Current, Archiving, Finishing
  <2> QED
    BY <2>2, <2>3
<1>7. CASE ImportLoad(p) \/ DistillLoad(p) \/ FinishPickup(p)
  <2>1. state' = state /\ archive' = archive /\ head' = head
    BY <1>7 DEF ImportLoad, DistillLoad, FinishPickup, disk, repo
  <2>2. \/ pc'[p] = "idle" /\ snap' = snap
        \/ pc'[p] \in {"merge", "llm"} /\ snap'[p] = state
        \/ pc'[p] = "finCommit" /\ pc[p] = "pickup" /\ snap'[p] = state
    BY <1>7 DEF ImportLoad, DistillLoad, FinishPickup, Copy, Stop, Goto, TypeOK
  <2> QED
    BY <1>w, <2>1, <2>2 DEF Kept, Current, Archiving, Finishing
<1>8. CASE FinishGate(p)
  <2>1. /\ state' = state /\ archive' = archive /\ head' = head /\ snap' = snap
        /\ \/ pc'[p] = "idle"
           \/ pc'[p] = "pickup" /\ QualityOk
    BY <1>8 DEF FinishGate, Goto, disk, repo, TypeOK
  <2> QED
    BY <1>w, <2>1 DEF QualityOk, StateIn, Current, Archiving, Finishing
<1>9. CASE ImportMerge(p) \/ DistillAnswer(p)
  <2>1. /\ state' = state /\ archive' = archive
        /\ snap[p] \in States /\ snap[p] = state
    BY <1>9 DEF ImportMerge, DistillAnswer, CopyInv, Copied, Current
  <2>2. \/ Stop(p)
        \/ /\ isValidTransition(snap[p].status, "validating")
           /\ SaveState(p, Append(snap[p], p, "IMPORT", "validating"), "idle")
        \/ /\ isValidTransition(snap[p].status, "completed")
           /\ SaveState(p, Append(snap[p], p, "DISTILL", "completed"), "idle")
    BY <1>9 DEF ImportMerge, DistillAnswer
  <2>3. ASSUME NEW e \in Events, NEW st \in Statuses,
               isValidTransition(snap[p].status, st),
               SaveState(p, Append(snap[p], p, e, st), "idle")
        PROVE  Owned(p)'
    <3>1. /\ Append(snap[p], p, e, st) \in States
          /\ Append(snap[p], p, e, st).status = st
          /\ Append(snap[p], p, e, st).latest # 0
      BY <2>1, AppendLemma, AppendLatest, MissionAssumption DEF Kept
    <3>2. Follows(state, Append(snap[p], p, e, st))
      BY <2>1, <2>3, <3>1 DEF Follows
    <3> HIDE DEF Owned
    <3> QED
      BY <1>w, <2>1, <2>3, <3>1, <3>2, SaveOwned DEF Owned
  <2> HIDE DEF Owned
  <2>4. Stop(p) => Owned(p)'
    BY <1>w, <2>1, StopOwned DEF Owned
  <2> QED
    BY <1>e, <1>s, <2>2, <2>3, <2>4
<1>10. CASE FinishCommit(p)
  <2> DEFINE s == IF head' = head THEN snap[p] ELSE [snap[p] EXCEPT !.latest = head']
  <2>1. /\ state' = state /\ archive' = archive /\ head' \in Nat /\ (head # 0 => head' # 0)
        /\ snap[p] \in States /\ snap[p] = state /\ snap[p].latest = head
    BY <1>10, <1>g DEF FinishCommit, CopyInv, Copied, Current, Archiving
  <2>2. /\ s \in States /\ s.status = state.status /\ s.latest = head' /\ head' # 0
    BY <2>1, MissionAssumption DEF States, Kept
  <2>3. \/ Stop(p)
        \/ s.status = "completed" /\ SaveState(p, s, "rmArchive")
        \/ /\ isValidTransition(s.status, "completed")
           /\ SaveState(p, Append(s, p, "FINISH", "completed"), "rmArchive")
    BY <1>10 DEF FinishCommit
  <2> HIDE DEF s
  <2>4. /\ Append(s, p, "FINISH", "completed") \in States
        /\ Append(s, p, "FINISH", "completed").status = "completed"
        /\ Append(s, p, "FINISH", "completed").latest = head'
    <3>1. s \in States /\ "FINISH" \in Events /\ "completed" \in Statuses
      BY <1>e, <1>s, <2>2
    <3>2. Append(s, p, "FINISH", "completed").latest = s.latest
      BY <3>1, AppendLatest
    <3> QED
      BY <2>2, <3>1, <3>2, AppendLemma
  <2>5. ASSUME NEW u \in States, SaveState(p, u, "rmArchive"), u.latest = head',
               Follows(state, u)
        PROVE  Owned(p)'
    <3>1. snap'[p] = u /\ then'[p] = "rmArchive" /\ pc'[p] = "save"
      BY <2>5 DEF SaveState, Goto, TypeOK
    <3> QED
      BY <1>w, <2>1, <2>2, <2>5, <3>1 DEF Kept, Current, Archiving, Finishing, Follows
  <2> HIDE DEF Owned
  <2>6. Stop(p) => Owned(p)'
    BY <1>w, <2>1, StopOwned DEF Owned
  <2> QED
    BY <2>2, <2>3, <2>4, <2>5, <2>6 DEF Follows
<1>11. CASE RmArchive(p) \/ CopyBegin(p) \/ CopyEnd(p)
  <2>1. /\ state' = state /\ snap' = snap /\ head' = head /\ then' = then /\ roots' = roots
        /\ pc[p] \in {"rmArchive", "copy", "copying"}
    BY <1>11 DEF RmArchive, CopyBegin, CopyEnd, repo
  <2>2. /\ snap[p] \in States /\ snap[p] # NoState /\ state = snap[p]
        /\ snap[p].latest = head /\ snap[p].status = "completed" /\ head # 0
    BY <2>1, MissionAssumption
       DEF CopyInv, Copied, Archiving, Finishing, VerifiedInv, StateIn, Kept
  <2>4. CASE RmArchive(p)
    <3>1. archive # NoArchive => [archive EXCEPT !.whole = FALSE].whole = FALSE
      BY DEF TypeOK, Archives
    <3>2. \/ archive' = NoArchive /\ pc'[p] = "copy"
          \/ /\ archive # NoArchive /\ archive' = [archive EXCEPT !.whole = FALSE]
             /\ pc'[p] = "rmArchive"
      BY <2>4 DEF RmArchive, Goto, TypeOK
    <3> QED
      BY <2>1, <2>2, <3>1, <3>2 DEF ArchiveIsConsistent, Current, Archiving, Finishing
  <2>5. CASE CopyBegin(p)
    <3> DEFINE a == [whole |-> FALSE, st |-> state, head |-> head, root |-> roots]
    <3>1. \/ archive' = archive /\ pc'[p] = "idle"
          \/ archive' = a /\ pc'[p] = "copying"
      BY <2>5 DEF CopyBegin, Goto, TypeOK
    <3>2. a # NoArchive /\ ~a.whole /\ a.st = state /\ a.head = head /\ a.root = roots
      <4>1. a \in Archives
        BY <1>t, <2>2 DEF Archives, TypeOK
      <4> QED
        BY <4>1, MissionAssumption
    <3> HIDE DEF a
    <3> QED
      BY <2>1, <2>2, <3>1, <3>2 DEF ArchiveIsConsistent, Current, Archiving, Finishing
  <2>6. CASE CopyEnd(p)
    <3> DEFINE a == [archive EXCEPT !.whole = (dir = "whole")]
    <3>1. /\ pc[p] = "copying"
          /\ \/ archive' = archive /\ pc'[p] = "idle"
             \/ archive # NoArchive /\ archive' = a /\ pc'[p] = "rmDir"
      BY <2>6 DEF CopyEnd, Goto, TypeOK
    <3>2. archive # NoArchive =>
            /\ a \in Archives
            /\ a.st = archive.st /\ a.head = archive.head /\ a.root = archive.root
      BY DEF TypeOK, Archives
    <3>3. archive.st = state /\ archive.head = head /\ archive.root = roots
      BY <3>1 DEF Archiving
    <3> HIDE DEF a
    <3> QED
      BY <2>1, <2>2, <3>1, <3>2, <3>3, MissionAssumption
         DEF ArchiveIsConsistent, Current, Archiving, Finishing
  <2> QED
    BY <1>11, <2>4, <2>5, <2>6
<1>12. CASE RmDir(p) \/ Removing(p)
  <2>1. /\ state' \in {state, NoState} /\ archive' = archive /\ snap' = snap
        /\ pc'[p] = "removing"
    BY <1>12 DEF RmDir, Removing, Goto, TypeOK
  <2> QED
    BY <2>1 DEF Kept, ArchiveIsConsistent, Current, Archiving
<1>14. CASE Removed(p)
  <2>1. /\ archive' = archive /\ pc[p] = "removing" /\ snap[p] \in States
        /\ \/ Stop(p) /\ state' = state
           \/ /\ state' = NoState
              /\ SaveState(p, Append(snap[p], p, "ARCHIVE", "archived"), "save")
    BY <1>14 DEF Removed, CopyInv, Copied
  <2>2. CASE Stop(p) /\ state' = state
    <3> HIDE DEF Owned
    <3> QED
      BY <1>w, <2>1, <2>2, StopOwned
  <2>3. CASE /\ state' = NoState
             /\ SaveState(p, Append(snap[p], p, "ARCHIVE", "archived"), "save")
    <3>1. /\ snap'[p] = Append(snap[p], p, "ARCHIVE", "archived")
          /\ then'[p] = "save" /\ pc'[p] = "save"
      BY <2>3 DEF SaveState, Goto, TypeOK
    <3>2. snap'[p].latest # 0
      BY <2>1, <3>1, AppendLatest, MissionAssumption DEF Kept
    <3> QED
      BY <2>1, <2>3, <3>1, <3>2 DEF Kept, ArchiveIsConsistent, Current, Archiving, Finishing
  <2> QED
    BY <2>1, <2>2, <2>3
<1> HIDE DEF Owned
<1> QED
  BY <1>1, <1>2, <1>3, <1>4, <1>5, <1>6, <1>7, <1>8, <1>9, <1>10, <1>11, <1>12,
     <1>13, <1>14, Zenon DEF Step

LEMMA NextIssued == TypeOK /\ IssuedInv /\ [Next]_vars => IssuedInv'
<1> SUFFICES ASSUME TypeOK, IssuedInv, [Next]_vars, NEW q \in Proc
             PROVE  cmd'[q].name \in Commands \cup {"resume"}
  BY DEF IssuedInv
<1>1. CASE UNCHANGED vars
  BY <1>1 DEF vars, IssuedInv
<1>2. ASSUME NEW p \in Proc, Step(p) PROVE cmd'[q].name \in Commands \cup {"resume"}
  <2>1. CASE Issue(p)
    BY <2>1 DEF Issue, IssuedInv, TypeOK
  <2>2. CASE ~Issue(p)
    BY <1>2, <2>2, OnlyIssue DEF IssuedInv
  <2> QED
    BY <2>1, <2>2
<1> QED
  BY <1>1, <1>2 DEF Next

LEMMA NextOwner ==
  ASSUME OneOwner
  PROVE  TypeOK /\ CopyInv /\ ThenInv /\ VerifiedInv /\ IssuedInv /\ OwnerInv /\ [Next]_vars
           => OwnerInv'
<1> SUFFICES ASSUME TypeOK, CopyInv, ThenInv, VerifiedInv, IssuedInv, OwnerInv, [Next]_vars
             PROVE  OwnerInv'
  OBVIOUS
<1>1. CASE UNCHANGED vars
  BY <1>1 DEF vars, disk, repo, OwnerInv, LatestInv, Kept, ArchiveIsConsistent, Current,
     Archiving, Finishing, Follows
<1>2. ASSUME NEW p \in Proc, Step(p) PROVE OwnerInv'
  <2>1. Owned(p)
    BY DEF OwnerInv, LatestInv, Owned
  <2>2. Owned(p)'
    BY <1>2, <2>1, OwnerStep
  <2>3. \A q \in Proc : q = p
    BY DEF OneOwner
  <2> QED
    BY <2>2, <2>3 DEF OwnerInv, LatestInv, Owned
<1> QED
  BY <1>1, <1>2 DEF Next

LEMMA InitAll ==
  Init => /\ TypeOK /\ CopyInv /\ PathInv /\ ThenInv /\ LockInv /\ FreshInv /\ VerifiedInv
          /\ IssuedInv /\ OwnerInv
<1>1. Init => IssuedInv
  <2> SUFFICES ASSUME Init, NEW p \in Proc PROVE cmd[p].name = "resume"
    BY DEF IssuedInv
  <2>1. cmd[p] = [name |-> "resume", id |-> 0]
    BY DEF Init
  <2> QED
    BY <2>1
<1> QED
  BY <1>1, InitInv, InitVerified, InitOwner

(* What finish archives was completed, and its latest_commit is the HEAD   *)
(* that was archived with it.                                              *)
THEOREM ArchiveConsistent ==
  ASSUME OneOwner
  PROVE  Spec => []ArchiveIsConsistent
<1>1. TypeOK /\ CopyInv /\ ThenInv /\ VerifiedInv /\ IssuedInv /\ OwnerInv /\ [Next]_vars
        => OwnerInv'
  BY NextOwner
<1>2. OwnerInv => ArchiveIsConsistent
  BY DEF OwnerInv
<1> QED
  BY <1>1, <1>2, InitAll, NextTypeOK, NextLocked, NextVerified, NextIssued, PTL DEF Spec

(* The statuses of a mission with one owner follow the transition table,   *)
(* except for delegate.                                                    *)
THEOREM TableFollowed ==
  ASSUME OneOwner, "delegate" \notin Commands
  PROVE  Spec => StatusFollowsTable
<1>1. TypeOK /\ CopyInv /\ ThenInv /\ VerifiedInv /\ IssuedInv /\ OwnerInv /\ [Next]_vars
        => OwnerInv'
  BY NextOwner
<1>2. OwnerInv /\ [Next]_vars =>
        [state # NoState /\ state' # NoState =>
           \/ state'.status = state.status
           \/ isValidTransition(state.status, state'.status)]_vars
  <2> SUFFICES ASSUME OwnerInv, NEW p \in Proc, Step(p), state # NoState, state' # NoState
               PROVE  \/ state'.status = state.status
                      \/ isValidTransition(state.status, state'.status)
    BY Zenon DEF Next
  <2>1. CASE Write(p)
    <3>1. pc[p] = "write" /\ state' = snap[p]
      BY <2>1 DEF Write
    <3>2. Follows(state, snap[p])
      BY <3>1 DEF OwnerInv, Current
    <3> QED
      BY <3>1, <3>2 DEF Follows
  <2> QED
    BY <2>1, StateLemma
<1> QED
  BY <1>1, <1>2, InitAll, NextTypeOK, NextLocked, NextVerified, NextIssued, PTL
     DEF Spec, StatusFollowsTable
-----------------------------------------------------------------------------
(* The repositories of a mission whose owner does not delegate it.  One    *)
(* that is archived stays so; without a mishap there is only the first.    *)

\* The first repository is whole in the archive.
Filed == archive # NoArchive /\ archive.whole /\ archive.root = 1

\* Every repository is whole somewhere.
Work == \A r \in 1..roots :
           \/ r = roots /\ head # 0 /\ dir = "whole"
           \/ archive # NoArchive /\ archive.whole /\ archive.root = r

\* Where finish must not stop.
Leaving(p) == pc[p] = "removing" \/ (pc[p] \in {"save", "write"} /\ then[p] = "save")

(* What a command is about to make of the status.                          *)
Bound(p) == /\ pc[p] \in {"save", "write"} /\ then[p] = "save" => StateIn(snap[p], {"archived"})
            /\ pc[p] \in {"save", "write"} /\ then[p] = "init" => StateIn(snap[p], {"active"})
            /\ pc[p] = "init" => StateIn(state, {"active"})

\* The directory is whole, or the mission has been archived.
Settled(p) == \/ head # 0 /\ dir = "whole" /\ (pc[p] = "rmDir" => Filed)
              \/ Filed /\ StateIn(state, {"archived"})

KeptInv(p) ==
    /\ Bound(p)
    /\ mishap = "none" => roots = 1 /\ IF Leaving(p) THEN Filed ELSE Settled(p)
    /\ mishap = "halfway" =>
          /\ archive # NoArchive /\ archive.whole /\ Work
          /\ pc[p] \notin {"copy", "copying", "rmDir"} /\ ~Leaving(p)

LEMMA InitKept == Init => \A p \in Proc : KeptInv(p)
<1> SUFFICES ASSUME Init, NEW p \in Proc PROVE KeptInv(p)
  OBVIOUS
<1>1. pc[p] = "idle" /\ roots = 1 /\ head = 1 /\ dir = "whole" /\ mishap = "none"
  BY DEF Init
<1> QED
  BY <1>1 DEF KeptInv, Bound, Settled, Leaving

(* A step that leaves repositories, archive and state as they are.         *)
LEMMA CalmStep ==
  ASSUME TypeOK, NEW p \in Proc, KeptInv(p), Bound(p)',
         state' = state, dir' = dir, roots' = roots, archive' = archive, mishap' = mishap,
         head # 0 => head' # 0,
         Leaving(p)' <=> Leaving(p),
         pc'[p] \notin {"copy", "copying", "rmDir"}
  PROVE  KeptInv(p)'
BY DEF KeptInv, Settled, Filed, Work

(* A step that ends a command, here or by its death.                       *)
LEMMA StopKept ==
  ASSUME TypeOK, NEW p \in Proc, KeptInv(p), Stop(p), FinishStops(p),
         state' = state, dir' = dir, roots' = roots, archive' = archive, head' = head
  PROVE  KeptInv(p)'
<1>1. pc'[p] = "idle"
  BY DEF Stop, Goto, TypeOK
<1>2. Bound(p)' /\ ~Leaving(p)'
  BY <1>1 DEF Bound, Leaving
<1>3. mishap' = IF mishap = "none" /\ Leaving(p) THEN "halfway" ELSE mishap
  BY DEF FinishStops, Leaving
<1>4. mishap = "none" /\ Leaving(p) => KeptInv(p)'
  <2> SUFFICES ASSUME mishap = "none", Leaving(p) PROVE KeptInv(p)'
    OBVIOUS
  <2>1. roots = 1 /\ Filed /\ mishap' = "halfway"
    BY <1>3 DEF KeptInv
  <2> QED
    BY <1>1, <1>2, <2>1 DEF KeptInv, Filed, Work
<1>5. ~(mishap = "none" /\ Leaving(p)) => KeptInv(p)'
  BY <1>1, <1>2, <1>3 DEF KeptInv, Settled, Filed, Work
<1> QED
  BY <1>4, <1>5

(* A repository is made where there is none, and the directory with it.    *)
LEMMA GitInitKept ==
  ASSUME TypeOK, Work, archive' = archive, GitInit,
         head = 0 => dir' = "whole", dir = "whole" => dir' = "whole"
  PROVE  Work'
<1>1. CASE head # 0
  BY <1>1 DEF Work, GitInit, repo
<1>2. CASE head = 0
  <2>1. \A r \in 1..roots : archive # NoArchive /\ archive.whole /\ archive.root = r
    BY <1>2 DEF Work
  <2>2. roots' = roots + 1 /\ head' # 0 /\ dir' = "whole"
    BY <1>2 DEF GitInit, TypeOK
  <2>3. roots \in Nat
    BY DEF TypeOK
  <2> QED
    BY <2>1, <2>2, <2>3 DEF Work
<1> QED
  BY <1>1, <1>2

LEMMA KeptStep ==
  ASSUME TypeOK, CopyInv, ThenInv, VerifiedInv, IssuedInv, "delegate" \notin Commands,
         NEW p \in Proc, Owned(p), KeptInv(p), Step(p)
  PROVE  KeptInv(p)'
<1>a. /\ "active" \in Statuses /\ "archived" \in Statuses
      /\ {"RESUME", "ACTIVATE", "ARCHIVE"} \subseteq Events
  BY DEF Statuses, Events
<1>b. ASSUME NEW s \in States, NEW e \in Events, NEW st \in Statuses
      PROVE  StateIn(Append(s, p, e, st), {st})
  BY <1>b, AppendLemma, MissionAssumption DEF StateIn
<1>f. pc[p] \in {"rmArchive", "copy", "copying", "rmDir"} =>
        ~StateIn(state, {"archived"}) /\ ~Leaving(p)
  BY DEF Owned, Archiving, VerifiedInv, Finishing, StateIn, Leaving
<1>1. CASE \/ Issue(p) \/ Acquire(p) \/ PurgeStale(p) \/ CheckpointLoad(p)
           \/ EvidenceLoad(p) \/ ResumeLoad(p) \/ LockedGiveUp(p) \/ LockedReread(p)
           \/ FinishLoad(p) \/ FinishGate(p) \/ FinishPickup(p)
           \/ ImportLoad(p) \/ DistillLoad(p)
  <2>1. /\ state' = state /\ dir' = dir /\ roots' = roots /\ archive' = archive
        /\ mishap' = mishap /\ head' = head
    BY <1>1 DEF Issue, Acquire, PurgeStale, CheckpointLoad, EvidenceLoad, ResumeLoad,
       LockedGiveUp, LockedReread, FinishLoad, FinishGate, FinishPickup, ImportLoad,
       DistillLoad, disk, repo
  <2>2. \/ /\ pc'[p] \in {"idle", "load", "lock", "commit", "reread", "gate", "pickup",
                          "finCommit", "merge", "llm"}
           /\ ~Leaving(p)
        \/ pc'[p] = "write" /\ then'[p] = "idle" /\ ~Leaving(p)
        \/ /\ pc[p] = "save" /\ pc'[p] \in {"save", "write"}
           /\ snap' = snap /\ then' = then
    BY <1>1 DEF Issue, Acquire, PurgeStale, CheckpointLoad, EvidenceLoad, ResumeLoad,
       LockedGiveUp, LockedReread, FinishLoad, FinishGate, FinishPickup, ImportLoad,
       DistillLoad, Running, Goto, Stop, Copy, Unlock, TypeOK, Leaving
  <2>3. Bound(p)' /\ (Leaving(p)' <=> Leaving(p))
    BY <2>1, <2>2 DEF KeptInv, Bound, Leaving
  <2> QED
    BY <2>1, <2>2, <2>3, CalmStep
<1>2. CASE \/ StartLoad(p) \/ StartReload(p) \/ Handoff(p) \/ Verify(p)
           \/ ImportMerge(p) \/ DistillAnswer(p) \/ FinishCommit(p)
  <2>1. /\ state' = state /\ dir' = dir /\ roots' = roots /\ archive' = archive
        /\ mishap' = mishap /\ (head # 0 => head' # 0) /\ ~Leaving(p)
    BY <1>2 DEF StartLoad, StartReload, Handoff, Verify, ImportMerge, DistillAnswer,
       FinishCommit, GitCommit, disk, repo, Running, Leaving, TypeOK
  <2>2. \/ pc'[p] \in {"idle", "create"}
        \/ pc'[p] = "save" /\ then'[p] \in {"idle", "rmArchive"}
        \/ /\ pc'[p] = "save" /\ then'[p] = "init" /\ state # NoState
           /\ \/ snap'[p] = Append(state, p, "RESUME", "active")
              \/ snap'[p] = Append(state, p, "ACTIVATE", "active")
    BY <1>2 DEF StartLoad, StartReload, Handoff, Verify, ImportMerge, DistillAnswer,
       FinishCommit, Goto, Stop, SaveState, StateIn, TypeOK
  <2>3. Bound(p)' /\ ~Leaving(p)'
    BY <1>a, <1>b, <2>2 DEF Bound, Leaving, TypeOK
  <2> QED
    BY <2>1, <2>2, <2>3, CalmStep
<1>3. CASE Write(p)
  <2>1. /\ state' = snap[p] /\ roots' = roots /\ archive' = archive /\ head' = head
        /\ mishap' = mishap /\ (dir = "whole" => dir' = "whole") /\ pc[p] = "write"
    BY <1>3 DEF Write, MakeDir, repo
  <2>2. \/ then[p] = "save" /\ pc'[p] = "save" /\ then'[p] = "idle"
        \/ /\ then[p] # "save" /\ then' = then
           /\ pc'[p] = then[p] /\ then[p] \in {"idle", "reload", "init", "rmArchive"}
    BY <1>3 DEF Write, SaveState, Goto, TypeOK, ThenInv, AfterWrite
  <2>3. Bound(p)' /\ ~Leaving(p)'
    BY <2>1, <2>2 DEF KeptInv, Bound, Leaving
  <2>4. CASE then[p] = "save"
    <3>1. Leaving(p) /\ StateIn(state', {"archived"})
      BY <2>1, <2>4 DEF Leaving, KeptInv, Bound
    <3> QED
      BY <2>1, <2>3, <3>1 DEF KeptInv, Settled, Filed
  <2>5. CASE then[p] # "save"
    <3>1. ~Leaving(p)
      BY <2>1, <2>5 DEF Leaving
    <3>2. StateIn(state, {"archived"}) => StateIn(state', {"archived"})
      <4> SUFFICES ASSUME StateIn(state, {"archived"}) PROVE StateIn(state', {"archived"})
        OBVIOUS
      <4>1. state # NoState /\ state.status = "archived"
        BY DEF StateIn
      <4>2. Follows(state, snap[p])
        BY <2>1, <4>1 DEF Owned, Current
      <4>3. snap[p].status = "archived"
        BY <4>1, <4>2 DEF Follows, isValidTransition, Allowed
      <4>4. snap[p] # NoState
        BY <2>1, MissionAssumption DEF CopyInv, Copied
      <4> QED
        BY <2>1, <4>3, <4>4 DEF StateIn
    <3> QED
      BY <2>1, <2>2, <2>3, <2>5, <3>1, <3>2 DEF KeptInv, Settled, Filed, Work
  <2> QED
    BY <2>4, <2>5
<1>4. CASE LockTimeout(p) \/ Crash(p)
  BY <1>4, StopKept DEF LockTimeout, Crash, repo
<1>5. CASE LockedCommit(p)
  <2>1. /\ state' = state /\ roots' = roots /\ archive' = archive /\ mishap' = mishap
        /\ (dir = "whole" => dir' = "whole") /\ (head # 0 => head' # 0)
        /\ pc[p] = "commit" /\ pc'[p] \in {"idle", "reread"}
    BY <1>5 DEF LockedCommit, Unlock, Stop, Goto, MakeDir, GitCommit, repo, TypeOK
  <2>2. Bound(p)' /\ ~Leaving(p)' /\ ~Leaving(p)
    BY <2>1 DEF Bound, Leaving
  <2> QED
    BY <2>1, <2>2 DEF KeptInv, Settled, Filed, Work
<1>6. CASE Create(p)
  <2>1. /\ state' = state /\ archive' = archive /\ mishap' = mishap
        /\ pc[p] = "create" /\ pc'[p] \in {"reload", "save"}
        /\ pc'[p] = "save" => then'[p] = "reload"
        /\ (dir = "whole" => dir' = "whole")
    BY <1>6 DEF Create, SaveState, Goto, MakeDir, TypeOK
  <2>2. Bound(p)' /\ ~Leaving(p)' /\ ~Leaving(p)
    BY <2>1 DEF Bound, Leaving
  <2>3. CASE state # NoState
    <3>1. roots' = roots /\ head' = head
      BY <1>6, <2>3 DEF Create, repo
    <3> QED
      BY <2>1, <2>2, <3>1 DEF KeptInv, Settled, Filed, Work
  <2>4. CASE state = NoState
    <3>1. GitInit /\ (head = 0 => dir' = "whole")
      BY <1>6, <2>4 DEF Create
    <3>2. mishap = "none" => head # 0 /\ dir = "whole" /\ roots = 1
      BY <2>2, <2>4 DEF KeptInv, Settled, StateIn
    <3>3. mishap = "none" => head' = head /\ roots' = roots
      BY <3>1, <3>2 DEF GitInit, repo
    <3>4. mishap = "none" => KeptInv(p)'
      BY <2>1, <2>2, <3>2, <3>3 DEF KeptInv, Settled
    <3>5. mishap = "halfway" => Work'
      BY <2>1, <3>1, GitInitKept DEF KeptInv
    <3>6. mishap # "none" => KeptInv(p)'
      BY <2>1, <2>2, <3>5 DEF KeptInv
    <3> QED
      BY <3>4, <3>6
  <2> QED
    BY <2>3, <2>4
<1>7. CASE StartInit(p)
  <2>1. /\ state' = state /\ archive' = archive /\ mishap' = mishap
        /\ pc[p] = "init" /\ pc'[p] = "idle"
        /\ (dir = "whole" => dir' = "whole")
    BY <1>7 DEF StartInit, Stop, Goto, TypeOK
  <2>2. Bound(p)' /\ ~Leaving(p)' /\ ~Leaving(p)
    BY <2>1 DEF Bound, Leaving
  <2>3. mishap = "none" => head # 0 /\ dir = "whole" /\ roots = 1
    BY <2>1, <2>2 DEF KeptInv, Bound, Settled, StateIn
  <2>4. mishap = "none" => head' = head /\ roots' = roots
    BY <1>7, <2>3 DEF StartInit, GitInit, repo
  <2>5. mishap = "none" => KeptInv(p)'
    BY <2>1, <2>2, <2>3, <2>4 DEF KeptInv, Settled
  <2>6. mishap = "halfway" => Work'
    <3>1. CASE dir = "none"
      BY <1>7, <2>1, <3>1 DEF StartInit, repo, KeptInv, Work
    <3>2. CASE dir # "none"
      <4>1. GitInit /\ (head = 0 => dir' = "whole")
        BY <1>7, <3>2 DEF StartInit
      <4> QED
        BY <2>1, <4>1, GitInitKept DEF KeptInv
    <3> QED
      BY <3>1, <3>2
  <2>7. mishap # "none" => KeptInv(p)'
    BY <2>1, <2>2, <2>6 DEF KeptInv
  <2> QED
    BY <2>5, <2>7
<1>8. CASE Delegate(p)
  BY <1>8 DEF Delegate, Running, IssuedInv
<1>9. CASE RmArchive(p)
  <2>1. /\ state' = state /\ dir' = dir /\ roots' = roots /\ head' = head
        /\ pc[p] = "rmArchive" /\ pc'[p] \in {"rmArchive", "copy"}
    BY <1>9 DEF RmArchive, Goto, repo, TypeOK
  <2>2. Bound(p)' /\ ~Leaving(p)' /\ ~Leaving(p)
    BY <2>1 DEF Bound, Leaving
  <2>3. CASE mishap = "none"
    <3>1. head # 0 /\ dir = "whole" /\ roots = 1
      BY <1>f, <2>1, <2>2, <2>3 DEF KeptInv, Settled
    <3>2. mishap' = "none"
      BY <1>9, <2>3 DEF RmArchive
    <3> QED
      BY <2>1, <2>2, <3>1, <3>2 DEF KeptInv, Settled
  <2>4. CASE mishap = "halfway"
    <3>1. mishap' = "overwritten"
      BY <1>9, <2>4 DEF RmArchive, KeptInv
    <3> QED
      BY <2>2, <3>1 DEF KeptInv
  <2>5. CASE mishap = "overwritten"
    <3>1. mishap' = "overwritten"
      BY <1>9, <2>5 DEF RmArchive
    <3> QED
      BY <2>2, <3>1 DEF KeptInv
  <2> QED
    BY <2>3, <2>4, <2>5 DEF TypeOK
<1>10. CASE CopyBegin(p) \/ CopyEnd(p)
  <2>1. /\ state' = state /\ dir' = dir /\ roots' = roots /\ head' = head
        /\ mishap' = mishap /\ pc[p] \in {"copy", "copying"}
        /\ pc'[p] \in {"idle", "copying", "rmDir"}
    BY <1>10 DEF CopyBegin, CopyEnd, Goto, repo, TypeOK
  <2>2. Bound(p)' /\ ~Leaving(p)' /\ ~Leaving(p)
    BY <2>1 DEF Bound, Leaving
  <2>3. mishap # "halfway"
    BY <2>1 DEF KeptInv
  <2>4. mishap = "none" => head # 0 /\ dir = "whole" /\ roots = 1
    BY <1>f, <2>1, <2>2 DEF KeptInv, Settled
  <2>5. mishap = "none" /\ pc'[p] = "rmDir" => Filed'
    <3> SUFFICES ASSUME mishap = "none", pc'[p] = "rmDir" PROVE Filed'
      OBVIOUS
    <3> DEFINE a == [archive EXCEPT !.whole = (dir = "whole")]
    <3>1. pc[p] = "copying" /\ archive # NoArchive /\ archive' = a
      BY <1>10 DEF CopyBegin, CopyEnd, Goto, TypeOK
    <3>2. archive.root = 1
      BY <2>4, <3>1 DEF Owned, Archiving
    <3>3. a \in Archives /\ a.whole /\ a.root = 1
      BY <2>4, <3>1, <3>2 DEF TypeOK, Archives
    <3> QED
      BY <3>1, <3>3, MissionAssumption DEF Filed
  <2> QED
    BY <2>1, <2>2, <2>3, <2>4, <2>5 DEF KeptInv, Settled
<1>11. CASE RmDir(p) \/ Removing(p)
  <2>1. /\ roots' = roots /\ archive' = archive /\ mishap' = mishap
        /\ pc[p] \in {"rmDir", "removing"} /\ pc'[p] = "removing"
    BY <1>11 DEF RmDir, Removing, Goto, repo, TypeOK
  <2>2. Bound(p)' /\ Leaving(p)'
    BY <2>1 DEF Bound, Leaving
  <2>3. mishap # "halfway"
    BY <2>1 DEF KeptInv, Leaving
  <2>4. mishap = "none" => Filed /\ roots = 1
    BY <1>f, <2>1 DEF KeptInv, Settled, Leaving
  <2> QED
    BY <2>1, <2>2, <2>3, <2>4 DEF KeptInv, Filed
<1>12. CASE Removed(p)
  <2>1. CASE Stop(p) /\ FinishStops(p) /\ UNCHANGED <<state, dir, head>>
    BY <1>12, <2>1, StopKept DEF Removed
  <2>2. CASE SaveState(p, Append(snap[p], p, "ARCHIVE", "archived"), "save") /\ mishap' = mishap
    <3>1. /\ roots' = roots /\ archive' = archive /\ pc[p] = "removing" /\ snap[p] \in States
          /\ pc'[p] = "save" /\ then'[p] = "save"
          /\ snap'[p] = Append(snap[p], p, "ARCHIVE", "archived")
      BY <1>12, <2>2 DEF Removed, CopyInv, Copied, SaveState, Goto, TypeOK
    <3>2. Bound(p)' /\ Leaving(p)' /\ Leaving(p)
      BY <1>a, <1>b, <3>1 DEF Bound, Leaving
    <3> QED
      BY <2>2, <3>1, <3>2 DEF KeptInv, Filed
  <2> QED
    BY <1>12, <2>1, <2>2 DEF Removed
<1> QED
  BY <1>1, <1>2, <1>3, <1>4, <1>5, <1>6, <1>7, <1>8, <1>9, <1>10, <1>11, <1>12, Zenon
     DEF Step

(* However many commands the owner issues, and wherever they die, in the   *)
(* removal of the directory too: every repository the mission ever had is  *)
(* whole in the directory or in the archive, until a finish replaces the   *)
(* archive after another one had stopped between the removal and the       *)
(* archived state.                                                         *)
THEOREM WorkKept ==
  ASSUME OneOwner, "delegate" \notin Commands
  PROVE  Spec => []WorkIsKept
<1> DEFINE AllKept == \A p \in Proc : KeptInv(p)
<1>1. Init => AllKept /\ WorkIsKept
  <2>1. Init => roots = 1 /\ head = 1 /\ dir = "whole"
    BY DEF Init
  <2>2. Init => WorkIsKept
    BY <2>1 DEF WorkIsKept
  <2> QED
    BY <2>2, InitKept
<1>2. TypeOK /\ CopyInv /\ ThenInv /\ VerifiedInv /\ IssuedInv /\ OwnerInv /\ AllKept
        /\ [Next]_vars => AllKept'
  <2> SUFFICES ASSUME TypeOK, CopyInv, ThenInv, VerifiedInv, IssuedInv, OwnerInv, AllKept,
                      [Next]_vars
               PROVE  AllKept'
    OBVIOUS
  <2>1. CASE UNCHANGED vars
    BY <2>1 DEF vars, disk, repo, KeptInv, Bound, Settled, Filed, Work, Leaving, StateIn
  <2>2. ASSUME NEW p \in Proc, Step(p) PROVE AllKept'
    <3>1. Owned(p) /\ KeptInv(p)
      BY DEF OwnerInv, LatestInv, Owned
    <3>2. KeptInv(p)'
      BY <2>2, <3>1, KeptStep
    <3>3. \A q \in Proc : q = p
      BY DEF OneOwner
    <3> QED
      BY <3>2, <3>3
  <2> QED
    BY <2>1, <2>2 DEF Next
<1>3. TypeOK /\ CopyInv /\ ThenInv /\ VerifiedInv /\ IssuedInv /\ OwnerInv /\ [Next]_vars
        => OwnerInv'
  BY NextOwner
<1>4. TypeOK /\ AllKept /\ WorkIsKept /\ [Next]_vars /\ TypeOK' /\ AllKept' => WorkIsKept'
  <2> SUFFICES ASSUME TypeOK, WorkIsKept, [Next]_vars, TypeOK', AllKept' PROVE WorkIsKept'
    OBVIOUS
  <2>1. CASE UNCHANGED vars
    BY <2>1 DEF vars, disk, repo, WorkIsKept
  <2>2. ASSUME NEW p \in Proc, Step(p) PROVE WorkIsKept'
    <3>1. KeptInv(p)'
      OBVIOUS
    <3> QED
      BY <3>1 DEF KeptInv, Settled, Filed, Work, WorkIsKept, TypeOK
  <2> QED
    BY <2>1, <2>2 DEF Next
<1> HIDE DEF AllKept
<1> QED
  BY <1>1, <1>2, <1>3, <1>4, InitAll, NextTypeOK, NextLocked, NextVerified, NextIssued, PTL
     DEF Spec
=============================================================================
