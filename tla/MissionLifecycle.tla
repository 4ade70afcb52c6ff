-------------------------- MODULE MissionLifecycle --------------------------
(***************************************************************************)
(* The mission commands of scripts/refactor/mission-*.ts, run against one  *)
(* mission by several controller processes.                                *)
(*                                                                         *)
(* On disk there are the mission directory, its mission-state.json, its    *)
(* git repository and the archived copy.  checkpoint, record-evidence and  *)
(* resume read and write the state inside withLock("mission-<id>").  Every *)
(* other command reads the state, works on that copy (for minutes, when an *)
(* LLM distils), and takes the lock only for the final write.  finish also *)
(* commits, copies and removes the directory outside the lock, file by     *)
(* file.                                                                   *)
(*                                                                         *)
(* The lock is that of module FileLock: after a death it may stay blank,   *)
(* and two processes may get in.                                           *)
(***************************************************************************)
EXTENDS FileLock, Naturals, MissionStatus

CONSTANTS
    Commands,       \* the commands that are issued
    InitStatus,     \* how far the mission has come when the model starts
    MaxCmds,        \* bound on the commands issued
    NoState,        \* there is no readable mission-state.json
    NoArchive       \* there is no archived copy

\* Read and write the state inside the lock.
LockedCommands == {"checkpoint", "evidence", "resume"}

CommandNames == LockedCommands \cup
    {"start", "delegate", "import", "verified", "rejected", "handoff", "distill",
     "finish"}

\* The entries of a mission's history, and its checkpoints.
Events == {"CREATE", "ACTIVATE", "RESUME", "CHECKPOINT", "EVIDENCE", "DELEGATE",
           "IMPORT", "VERIFIED", "REJECTED", "HANDOFF", "DISTILL", "FINISH", "ARCHIVE"}

Records == [id : 0..MaxCmds, event : Events]

\* recs: checkpoints and history entries; last: the last history entry;
\* latest: git.latest_commit.
States == [status : Statuses, recs : SUBSET Records, last : Events, latest : Nat]

\* whole: the copy has come to its end, and what it was made of was whole.
Archives == [whole : BOOLEAN, st : States \cup {NoState}, head : Nat, root : Nat]

\* The history a mission has once it has come to a status one command at a time.
InitEvents == [planned    |-> {"CREATE"},
               active     |-> {"CREATE", "ACTIVATE"},
               distilling |-> {"CREATE", "ACTIVATE", "VERIFIED"},
               completed  |-> {"CREATE", "ACTIVATE", "VERIFIED", "DISTILL"}]

InitLast == [planned |-> "CREATE", active |-> "ACTIVATE",
             distilling |-> "VERIFIED", completed |-> "DISTILL"]

ASSUME MissionAssumption ==
    /\ Commands \subseteq CommandNames
    /\ InitStatus \subseteq {"planned", "active", "distilling", "completed"}
    /\ MaxCmds \in Nat
    /\ NoState \notin States
    /\ NoArchive \notin Archives

VARIABLES
    state,      \* mission-state.json
    dir,        \* the mission directory: "none", "whole", or a "part" of it is left
    head,       \* HEAD of the mission repository, 0 when there is none
    commits,    \* commits made so far, to number new ones
    roots,      \* repositories made so far for the mission; head is of the last
    archive,    \* archive/<id>
    wisdom,     \* a distilled knowledge file was written for the mission
    mishap,     \* history: a finish has stopped while it removed the directory, or
                \* before the state was back; and a later one replaced the archive
    pc, cmd,    \* where each process is, and the command it runs
    snap,       \* the copy of the state a command works on
    then,       \* where the command goes on after its next write
    issued      \* commands issued so far

repo == <<head, commits, roots>>
disk == <<state, dir, repo, archive, wisdom, mishap>>
vars == <<disk, lockVars, pc, cmd, snap, then, issued>>

PCs == {"idle", "load", "create", "reload", "init", "save", "lock", "commit",
        "reread", "write", "merge", "llm", "gate", "pickup", "finCommit",
        "rmArchive", "copy", "copying", "rmDir", "removing"}

\* Where a process works in the lock.
Locked == {"commit", "reread", "write"}

(* mission-state.json holds one of the statuses of mission-status.ts, and  *)
(* every command is at one of its points, with a copy or without.          *)
TypeOK ==
    /\ state \in States \cup {NoState}
    /\ dir \in {"none", "part", "whole"} /\ wisdom \in BOOLEAN
    /\ head \in Nat /\ commits \in Nat /\ roots \in Nat
    /\ archive \in Archives \cup {NoArchive}
    /\ mishap \in {"none", "halfway", "overwritten"}
    /\ LockOK
    /\ pc \in [Proc -> PCs]
    /\ cmd \in [Proc -> [name : CommandNames, id : 0..MaxCmds]]
    /\ snap \in [Proc -> States \cup {NoState}]
    /\ then \in [Proc -> PCs]
    /\ issued \in 0..MaxCmds

Init ==
    /\ \E s \in InitStatus :
          state = [status |-> s, last |-> InitLast[s], latest |-> 1,
                   recs |-> [id : {0}, event : InitEvents[s]]]
    /\ dir = "whole" /\ head = 1 /\ commits = 1 /\ roots = 1
    /\ archive = NoArchive /\ wisdom = (state.last = "DISTILL")
    /\ mishap = "none"
    /\ LockInit
    /\ pc = [p \in Proc |-> "idle"]
    /\ cmd = [p \in Proc |-> [name |-> "resume", id |-> 0]]
    /\ snap = [p \in Proc |-> NoState]
    /\ then = [p \in Proc |-> "idle"]
    /\ issued = 0

-----------------------------------------------------------------------------
Goto(p, there) == pc' = [pc EXCEPT ![p] = there]

\* The command returns, reports an error, or its exception is caught.
Stop(p) == Goto(p, "idle") /\ UNCHANGED <<snap, then>>

\* history.push, and the status it goes with.
Append(s, p, event, status) ==
    [s EXCEPT !.status = status, !.last = event,
              !.recs = @ \cup {[id |-> cmd[p].id, event |-> event]}]

\* saveState(id, s), which locks; the command goes on at k.
SaveState(p, s, k) ==
    /\ snap' = [snap EXCEPT ![p] = s]
    /\ then' = [then EXCEPT ![p] = k]
    /\ Goto(p, "save")

Running(p, name, here) == cmd[p].name = name /\ pc[p] = here

\* loadState found a state whose status is one of these.
StateIn(s, statuses) == IF s = NoState THEN FALSE ELSE s.status \in statuses

\* A git commit: a new HEAD, or nothing to commit.
GitCommit ==
    /\ \/ head' = commits + 1 /\ commits' = commits + 1
       \/ UNCHANGED <<head, commits>>
    /\ UNCHANGED roots

\* git init, the files of a mission and a first commit, where there is no repository.
GitInit ==
    IF head # 0 THEN UNCHANGED repo
    ELSE head' = commits + 1 /\ commits' = commits + 1 /\ roots' = roots + 1

\* A file is written into the directory, which is made when it is gone.
MakeDir == dir' = IF dir = "none" THEN "whole" ELSE dir

Issue(p) ==
    /\ pc[p] = "idle" /\ issued < MaxCmds
    /\ issued' = issued + 1
    /\ \E c \in Commands : cmd' = [cmd EXCEPT ![p] = [name |-> c, id |-> issued + 1]]
    /\ Goto(p, "load")
    /\ UNCHANGED <<disk, lockVars, snap, then>>

-----------------------------------------------------------------------------
(* The lock and the write.                                                 *)

Acquire(p) ==
    /\ pc[p] \in {"save", "lock"}
    /\ Take(p)
    /\ Goto(p, IF pc[p] = "save" THEN "write"
               ELSE IF cmd[p].name = "resume" THEN "reread" ELSE "commit")
    /\ UNCHANGED <<disk, cmd, snap, then, issued>>

PurgeStale(p) ==
    /\ pc[p] \in {"save", "lock"}
    /\ Purge
    /\ UNCHANGED <<disk, pc, cmd, snap, then, issued>>

\* finish stops without having put the state back after the directory is gone.
FinishStops(p) ==
    mishap' = IF mishap = "none"
                 /\ (pc[p] = "removing" \/ (pc[p] \in {"save", "write"} /\ then[p] = "save"))
              THEN "halfway" ELSE mishap

\* withLock throws LOCK_TIMEOUT, or the error of the unlink.
LockTimeout(p) ==
    /\ pc[p] \in {"save", "lock"}
    /\ GiveUp \/ LosePurge
    /\ Stop(p) /\ FinishStops(p)
    /\ UNCHANGED <<state, dir, repo, archive, wisdom, cmd, issued>>

\* An atomic write of the copy.
Write(p) ==
    /\ pc[p] = "write"
    /\ state' = snap[p] /\ MakeDir
    /\ LetGo(p)
    /\ IF then[p] = "save" THEN SaveState(p, snap[p], "idle")
       ELSE Goto(p, then[p]) /\ UNCHANGED <<snap, then>>
    /\ UNCHANGED <<repo, archive, wisdom, mishap, cmd, issued>>

\* Leave the locked section on an error, or with nothing to write.
Unlock(p) == Stop(p) /\ LetGo(p)

-----------------------------------------------------------------------------
(* checkpoint, record-evidence, resume: read and write inside the lock.    *)

CheckpointLoad(p) ==
    /\ Running(p, "checkpoint", "load")
    /\ IF StateIn(state, {"active"}) THEN Goto(p, "lock") ELSE Goto(p, "idle")
    /\ UNCHANGED <<disk, lockVars, cmd, snap, then, issued>>

EvidenceLoad(p) ==
    /\ Running(p, "evidence", "load")
    /\ IF StateIn(state, Statuses \ {"archived"})
       THEN Goto(p, "lock") ELSE Goto(p, "idle")
    /\ UNCHANGED <<disk, lockVars, cmd, snap, then, issued>>

\* Variant: the read-modify-write is not inside the lock.
Mutant_ResumeOutsideLock(p) ==
    /\ Running(p, "resume", "load")
    /\ IF state = NoState THEN Stop(p)
       ELSE SaveState(p, Append(state, p, "RESUME", state.status), "idle")
    /\ UNCHANGED <<disk, lockVars, cmd, issued>>

\* Checking out the mission's branch fails where there is no repository.
ResumeLoad(p) ==
    /\ Running(p, "resume", "load")
    /\ IF state # NoState /\ head # 0 THEN Goto(p, "lock") ELSE Goto(p, "idle")
    /\ UNCHANGED <<disk, lockVars, cmd, snap, then, issued>>

\* git add, git commit; evidence first appends to a ledger in the directory.
LockedCommit(p) ==
    /\ pc[p] = "commit"
    /\ IF cmd[p].name = "evidence" THEN MakeDir ELSE UNCHANGED dir
    /\ \/ head = 0 /\ Unlock(p) /\ UNCHANGED repo
       \/ head # 0 /\ GitCommit /\ Goto(p, "reread") /\ UNCHANGED <<lockVars, snap, then>>
    /\ UNCHANGED <<state, archive, wisdom, mishap, cmd, issued>>

\* The record a locked command adds to the state it has just read.
LockedRecord(p) ==
    LET id == cmd[p].id IN
    CASE cmd[p].name = "checkpoint" ->
            [state EXCEPT !.latest = head,
                          !.recs = @ \cup {[id |-> id, event |-> "CHECKPOINT"]}]
      [] cmd[p].name = "evidence" ->
            [Append(state, p, "EVIDENCE", state.status) EXCEPT !.latest = head]
      [] OTHER -> Append(state, p, "RESUME", state.status)

\* The state, or the HEAD to record, is gone; or a RESUME is recent enough.
LockedGiveUp(p) ==
    /\ pc[p] = "reread"
    /\ \/ state = NoState
       \/ cmd[p].name # "resume" /\ head = 0
       \/ cmd[p].name = "resume" /\ state # NoState /\ state.last = "RESUME"
    /\ Unlock(p)
    /\ UNCHANGED <<disk, cmd, issued>>

LockedReread(p) ==
    /\ pc[p] = "reread"
    /\ state # NoState
    /\ cmd[p].name # "resume" => head # 0
    /\ snap' = [snap EXCEPT ![p] = LockedRecord(p)]
    /\ then' = [then EXCEPT ![p] = "idle"]
    /\ Goto(p, "write")
    /\ UNCHANGED <<disk, lockVars, cmd, issued>>

-----------------------------------------------------------------------------
(* start, which also creates the mission.                                  *)

\* Variant: the transition guard is forgotten.
Mutant_StartUnguarded(p) ==
    /\ Running(p, "start", "load")
    /\ IF state = NoState THEN Goto(p, "create") /\ UNCHANGED <<snap, then>>
       ELSE SaveState(p, Append(state, p, "RESUME", "active"), "init")
    /\ UNCHANGED <<disk, lockVars, cmd, issued>>

StartLoad(p) ==
    /\ Running(p, "start", "load")
    /\ \/ /\ state = NoState
          /\ Goto(p, "create") /\ UNCHANGED <<snap, then>>
       \/ /\ state # NoState
          /\ IF isValidTransition(state.status, "active")
             THEN SaveState(p, Append(state, p, "RESUME", "active"), "init")
             ELSE Stop(p)
    /\ UNCHANGED <<disk, lockVars, cmd, issued>>

\* createMission: nothing if a state is there by now, else directory, files,
\* repository, and a planned state to save.
Create(p) ==
    /\ pc[p] = "create"
    /\ \/ /\ state # NoState
          /\ Goto(p, "reload")
          /\ MakeDir
          /\ UNCHANGED <<repo, snap, then>>
       \/ /\ state = NoState
          /\ GitInit
          /\ dir' = IF head = 0 \/ dir = "none" THEN "whole" ELSE dir
          /\ SaveState(p, [status |-> "planned", last |-> "CREATE", latest |-> head',
                           recs |-> {[id |-> cmd[p].id, event |-> "CREATE"]}], "reload")
    /\ UNCHANGED <<state, archive, wisdom, mishap, lockVars, cmd, issued>>

StartReload(p) ==
    /\ pc[p] = "reload"
    /\ IF StateIn(state, {s \in Statuses : isValidTransition(s, "active")})
       THEN SaveState(p, Append(state, p, "ACTIVATE", "active"), "init")
       ELSE Stop(p)
    /\ UNCHANGED <<disk, lockVars, cmd, issued>>

\* initMissionRepo: git init when the directory has no repository.
StartInit(p) ==
    /\ pc[p] = "init"
    /\ IF dir # "none" THEN GitInit ELSE UNCHANGED repo
    /\ dir' = IF dir # "none" /\ head = 0 THEN "whole" ELSE dir
    /\ Stop(p)
    /\ UNCHANGED <<state, archive, wisdom, mishap, lockVars, cmd, issued>>

-----------------------------------------------------------------------------
(* delegate, import, verify, handoff, distill: copy, work, save.           *)

\* An agent that is not trusted enough is refused.
Delegate(p) ==
    /\ Running(p, "delegate", "load")
    /\ \/ Stop(p)
       \/ /\ state # NoState
          /\ SaveState(p, Append(state, p, "DELEGATE", "active"), "idle")
    /\ UNCHANGED <<disk, lockVars, cmd, issued>>

\* Variant: a status the schema does not know.
Mutant_HandoffStatus(p) ==
    /\ Running(p, "handoff", "load")
    /\ IF state = NoState THEN Stop(p)
       ELSE SaveState(p, Append(state, p, "HANDOFF", "handed_off"), "idle")
    /\ UNCHANGED <<disk, lockVars, cmd, issued>>

Handoff(p) ==
    /\ Running(p, "handoff", "load")
    /\ IF state = NoState THEN Stop(p)
       ELSE SaveState(p, Append(state, p, "HANDOFF", state.status), "idle")
    /\ UNCHANGED <<disk, lockVars, cmd, issued>>

\* Variant: the result of the verification is not looked at.
Mutant_VerifyIgnoresResult(p) ==
    /\ cmd[p].name \in {"verified", "rejected"} /\ pc[p] = "load"
    /\ IF ~StateIn(state, {"active", "validating"}) THEN Stop(p)
       ELSE SaveState(p, Append(state, p, IF cmd[p].name = "verified" THEN "VERIFIED"
                                          ELSE "REJECTED", "distilling"), "idle")
    /\ UNCHANGED <<disk, lockVars, cmd, issued>>

Verify(p) ==
    /\ cmd[p].name \in {"verified", "rejected"} /\ pc[p] = "load"
    /\ IF ~StateIn(state, {"active", "validating"}) THEN Stop(p)
       ELSE IF cmd[p].name = "verified"
       THEN SaveState(p, Append(state, p, "VERIFIED", "distilling"), "idle")
       ELSE SaveState(p, Append(state, p, "REJECTED", "active"), "idle")
    /\ UNCHANGED <<disk, lockVars, cmd, issued>>

\* Copy the state and go on working on the copy.
Copy(p, there) ==
    /\ snap' = [snap EXCEPT ![p] = state]
    /\ Goto(p, there)
    /\ UNCHANGED then

ImportLoad(p) ==
    /\ Running(p, "import", "load")
    /\ IF state = NoState THEN Stop(p) ELSE Copy(p, "merge")
    /\ UNCHANGED <<disk, lockVars, cmd, issued>>

\* fetch and merge, and only then the transition; every error is swallowed.
ImportMerge(p) ==
    /\ pc[p] = "merge"
    /\ \/ UNCHANGED repo /\ Stop(p)
       \/ /\ head = 0 => UNCHANGED <<head, commits>>
          /\ GitCommit
          /\ IF isValidTransition(snap[p].status, "validating")
             THEN SaveState(p, Append(snap[p], p, "IMPORT", "validating"), "idle")
             ELSE Stop(p)
    /\ UNCHANGED <<state, dir, archive, wisdom, mishap, lockVars, cmd, issued>>

DistillLoad(p) ==
    /\ Running(p, "distill", "load")
    /\ IF StateIn(state, {"distilling", "validating"}) THEN Copy(p, "llm") ELSE Stop(p)
    /\ UNCHANGED <<disk, lockVars, cmd, issued>>

\* The model answers, the wisdom file is written, and then the transition.
DistillAnswer(p) ==
    /\ pc[p] = "llm"
    /\ wisdom' = TRUE
    /\ IF isValidTransition(snap[p].status, "completed")
       THEN SaveState(p, Append(snap[p], p, "DISTILL", "completed"), "idle")
       ELSE Stop(p)
    /\ UNCHANGED <<state, dir, repo, archive, mishap, lockVars, cmd, issued>>

-----------------------------------------------------------------------------
(* finish: gates, commit, complete, archive.                               *)

FinishLoad(p) ==
    /\ Running(p, "finish", "load")
    /\ IF StateIn(state, {"completed", "distilling"}) THEN Goto(p, "gate")
       ELSE Goto(p, "idle")
    /\ UNCHANGED <<disk, lockVars, cmd, snap, then, issued>>

\* validateMissionQuality reads the state again.
QualityOk == /\ StateIn(state, {"distilling", "validating", "completed"})
             /\ state.latest = head

\* Intent drift or an unmet outcome contract may block it too.
FinishGate(p) ==
    /\ pc[p] = "gate"
    /\ \/ Goto(p, "idle")
       \/ QualityOk /\ Goto(p, "pickup")
    /\ UNCHANGED <<disk, lockVars, cmd, snap, then, issued>>

FinishPickup(p) ==
    /\ pc[p] = "pickup"
    /\ IF state = NoState THEN Stop(p) ELSE Copy(p, "finCommit")
    /\ UNCHANGED <<disk, lockVars, cmd, issued>>

\* Variant: latest_commit is not updated after the commit.
Mutant_FinishForgetsHash(p) ==
    /\ pc[p] = "finCommit"
    /\ head = 0 => UNCHANGED <<head, commits>>
    /\ GitCommit
    /\ IF snap[p].status = "completed" THEN SaveState(p, snap[p], "rmArchive")
       ELSE IF isValidTransition(snap[p].status, "completed")
       THEN SaveState(p, Append(snap[p], p, "FINISH", "completed"), "rmArchive")
       ELSE Stop(p)
    /\ UNCHANGED <<state, dir, archive, wisdom, mishap, lockVars, cmd, issued>>

\* A commit outside the lock; latest_commit is set when there was one.
FinishCommit(p) ==
    /\ pc[p] = "finCommit"
    /\ head = 0 => UNCHANGED <<head, commits>>
    /\ GitCommit
    /\ LET s == IF head' = head THEN snap[p] ELSE [snap[p] EXCEPT !.latest = head']
       IN IF s.status = "completed" THEN SaveState(p, s, "rmArchive")
          ELSE IF isValidTransition(s.status, "completed")
          THEN SaveState(p, Append(s, p, "FINISH", "completed"), "rmArchive")
          ELSE Stop(p)
    /\ UNCHANGED <<state, dir, archive, wisdom, mishap, lockVars, cmd, issued>>

\* rm -rf of the archived copy there is.
RmArchive(p) ==
    /\ pc[p] = "rmArchive"
    /\ IF archive # NoArchive /\ archive.whole
       THEN /\ archive' = [archive EXCEPT !.whole = FALSE]
            /\ mishap' = IF mishap = "halfway" THEN "overwritten" ELSE mishap
            /\ UNCHANGED pc
       ELSE archive' = NoArchive /\ Goto(p, "copy") /\ UNCHANGED mishap
    /\ UNCHANGED <<state, dir, repo, wisdom, lockVars, cmd, snap, then, issued>>

\* Variant: the directory is removed without waiting for the copy.
Mutant_CopyNotAwaited(p) ==
    /\ pc[p] = "copy"
    /\ IF dir # "none"
       THEN /\ archive' = [whole |-> FALSE, st |-> state, head |-> head, root |-> roots]
            /\ Goto(p, "rmDir")
       ELSE Goto(p, "idle") /\ UNCHANGED archive
    /\ UNCHANGED <<state, dir, repo, wisdom, mishap, lockVars, cmd, snap, then, issued>>

\* cp -r begins; it fails when the directory is gone.
CopyBegin(p) ==
    /\ pc[p] = "copy"
    /\ IF dir # "none"
       THEN /\ archive' = [whole |-> FALSE, st |-> state, head |-> head, root |-> roots]
            /\ Goto(p, "copying")
       ELSE Goto(p, "idle") /\ UNCHANGED archive
    /\ UNCHANGED <<state, dir, repo, wisdom, mishap, lockVars, cmd, snap, then, issued>>

\* cp -r ends; it fails when source or target went away under it.
CopyEnd(p) ==
    /\ pc[p] = "copying"
    /\ IF dir # "none" /\ archive # NoArchive
       THEN archive' = [archive EXCEPT !.whole = (dir = "whole")] /\ Goto(p, "rmDir")
       ELSE Goto(p, "idle") /\ UNCHANGED archive
    /\ UNCHANGED <<state, dir, repo, wisdom, mishap, lockVars, cmd, snap, then, issued>>

\* rm -rf of the directory, outside the lock, begins.
RmDir(p) ==
    /\ pc[p] = "rmDir"
    /\ dir' = IF dir = "none" THEN dir ELSE "part"
    /\ Goto(p, "removing")
    /\ UNCHANGED <<state, repo, archive, wisdom, mishap, lockVars, cmd, snap, then, issued>>

\* State file and repository go in any order.
Removing(p) ==
    /\ pc[p] = "removing"
    /\ \/ state' = NoState /\ UNCHANGED head
       \/ head' = 0 /\ UNCHANGED state
    /\ UNCHANGED <<dir, commits, roots, archive, wisdom, mishap, lockVars, pc, cmd, snap, then, issued>>

\* All is gone, and the state is written back, twice (saveState, then saveState
\* with the trace summary); or rm fails.
Removed(p) ==
    /\ pc[p] = "removing"
    /\ \/ /\ state' = NoState /\ dir' = "none" /\ head' = 0
          /\ SaveState(p, Append(snap[p], p, "ARCHIVE", "archived"), "save")
          /\ UNCHANGED mishap
       \/ Stop(p) /\ FinishStops(p) /\ UNCHANGED <<state, dir, head>>
    /\ UNCHANGED <<commits, roots, archive, wisdom, lockVars, cmd, issued>>

-----------------------------------------------------------------------------
\* The process dies, in the lock or not.
Crash(p) ==
    /\ pc[p] # "idle"
    /\ Stop(p) /\ FinishStops(p)
    /\ IF pc[p] \in {"save", "lock"} THEN DieTrying(p)
       ELSE IF pc[p] \in Locked THEN DieInside(p)
       ELSE UNCHANGED lockVars
    /\ UNCHANGED <<state, dir, repo, archive, wisdom, cmd, issued>>

Step(p) ==
    \/ Issue(p) \/ Acquire(p) \/ PurgeStale(p) \/ LockTimeout(p) \/ Write(p)
    \/ CheckpointLoad(p) \/ EvidenceLoad(p) \/ ResumeLoad(p)
    \/ LockedCommit(p) \/ LockedGiveUp(p) \/ LockedReread(p)
    \/ StartLoad(p) \/ Create(p) \/ StartReload(p) \/ StartInit(p)
    \/ Delegate(p) \/ Handoff(p) \/ Verify(p)
    \/ ImportLoad(p) \/ ImportMerge(p) \/ DistillLoad(p) \/ DistillAnswer(p)
    \/ FinishLoad(p) \/ FinishGate(p) \/ FinishPickup(p) \/ FinishCommit(p)
    \/ RmArchive(p) \/ CopyBegin(p) \/ CopyEnd(p) \/ RmDir(p) \/ Removing(p) \/ Removed(p)
    \/ Crash(p)

Next == \E p \in Proc : Step(p)

Spec == Init /\ [][Next]_vars

-----------------------------------------------------------------------------
RecordsOf(s) == IF s = NoState THEN {} ELSE s.recs

(* A mission is distilling, completed or archived only with a verification *)
(* on record, however commands interleave, crash or overwrite each other.  *)
CompletedWasVerified ==
    StateIn(state, {"distilling", "completed", "archived"}) =>
        \E r \in state.recs : r.event = "VERIFIED"

(* mission-maintenance.ts:275: checkpoint, evidence and resume read the    *)
(* state inside the lock, so what they write drops no record, until the    *)
(* lock of a live process is stolen.                                       *)
LockedWritesKeepRecords ==
    [][\A p \in Proc : Write(p) /\ cmd[p].name \in LockedCommands =>
          stolen \/ RecordsOf(state) \subseteq RecordsOf(state')]_vars

(* MISSION_LIFECYCLE_AUDIT.md, AC2: with checkpoint, evidence and resume   *)
(* alone, no record is lost until the lock of a live process is stolen.    *)
RecordsOnlyGrow ==
    [][stolen \/ RecordsOf(state) \subseteq RecordsOf(state')]_vars

(* mission-status.ts:5, "Enforces valid state transitions in the mission   *)
(* lifecycle": whatever is written over a state is allowed after it.       *)
StatusFollowsTable ==
    [][state # NoState /\ state' # NoState =>
          \/ state'.status = state.status
          \/ isValidTransition(state.status, state'.status)]_vars

(* One command at a time, none a delegate, a crash anywhere: each of the   *)
(* mission's repositories is whole in its directory or in the archive,     *)
(* unless a finish has died in the removal of the directory, or before it  *)
(* had written the archived state back, and a later finish has replaced    *)
(* the archive by what it found (mission-lifecycle.ts:343-345).            *)
WorkIsKept ==
    \/ mishap = "overwritten"
    \/ \A r \in 1..roots :
          \/ r = roots /\ head # 0 /\ dir = "whole"
          \/ archive # NoArchive /\ archive.whole /\ archive.root = r

(* A whole archive holds a completed state whose latest commit is the HEAD *)
(* that was archived with it.                                              *)
ArchiveIsConsistent ==
    archive # NoArchive /\ archive.whole =>
        /\ archive.st # NoState
        /\ archive.st.status = "completed"
        /\ archive.st.latest = archive.head
=============================================================================
