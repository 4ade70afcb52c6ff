# Kyberion: verification of the mission and job machinery

Kyberion is a file-based agent system. Missions are directories with a git
repository and a `mission-state.json`; commands of `scripts/mission_controller.ts`
move them through a lifecycle; agents, jobs and schedules run around them, partly
in one Node process with many awaits, partly in several processes that share
nothing but files. This directory holds TLA+ modules of the parts where order,
concurrency and crashes decide whether the system is right, the configurations
that check them with TLC, and proofs that TLAPS checks.

Contents: [the system](#the-system), [modules](#the-modules),
[runs](#what-the-runs-show), [bounds](#bounds), [fairness](#fairness),
[proofs](#what-is-proved), [observations](#observations-without-a-run),
[not modelled](#what-is-not-modelled), [plan](#plan).

## The system

| part | state | operations | talks to | what is hard |
| --- | --- | --- | --- | --- |
| File lock, `libs/core/src/lock-utils.ts` | one lock file per resource | `acquireLock`, `releaseLock`, `withLock` | every writer of mission state and of the queue | several processes, a system call at a time; processes that die; stale detection |
| Mission commands, `scripts/refactor/mission-*.ts` | `mission-state.json`, mission repository, archive, distilled wisdom | start, create, delegate, import, verify, handoff, checkpoint, record-evidence, resume, distill, finish | the file lock; git; a language model | most commands read the state, work for a long time and overwrite it; finish removes and copies directories; a crash anywhere |
| Dispatch queue, `scripts/refactor/mission-queue.ts` | `mission_queue.jsonl` | `enqueueMission`, `dispatchNextQueuedMission`, `startMission`, `createMission` | the file lock, mission state (prerequisites), `startMission` as a callback | read everything, write everything back; mark first, start later; prerequisites are looked at once, before the mission is created and read again |
| Video render runtime, `libs/core/video-render-runtime.ts` and its jobs in `video-composition-actuator` | `queue`, `running`, `packets` | `enqueue`, `cancel`, `pump`, `execute`, `report` | the policy file, the render backend (a child process with a timeout) | cancellation at any await; outcomes that must not be revised; places in line |
| Semaphore and voice runtime | active count, line | `run`; as above | language model calls, speech engines | the same promise with other code |
| Agent lifecycle, registry, runtime supervisor, `libs/core/agent-lifecycle.ts` | maps from agent ids to adapters, handles, pending spawns, records, resources | spawn, ask, shutdown, restart, reapIdle, health check | provider processes | every method awaits and then works with the id again |
| Agent runtime supervisor (requests, daemon) | request and result files | ensure, ask, refresh, stop | agent lifecycle | deadlines racing late answers |
| Approval gate, store and grants, `libs/core/approval-gate.ts`, `approval-store.ts`, `secret-guard.ts` | one file per request, `auth-grants.json` | ask the gate, grant through it or beside it, propose, decide | command line, surfaces, actuator; the audit chain | read and write back without a lock; search, then create; whoever decides last |
| Audit chain, `libs/core/audit-chain.ts` (and ledger, evidence chain) | a file per day, its entries linked by hashes; the last hash in the memory of each process | record, verify | everything governed | several processes, restarts, midnight, an append that fails silently |
| Tenant rate limiter | token buckets in a file, its own lock | consume | governed operations | a second, different lock protocol |
| Schedules | one file per schedule | due test, submit, mark | media generation | a crash or a second ticker between submit and mark |
| Mission orchestration, `libs/core/mission-orchestration-worker.ts` and `-events.ts` | event files, one detached worker each; `NEXT_TASKS.json`, `task-events.jsonl` | issue, prewarm, kickoff, follow-up, reconcile, distill, complete | mission commands by process, agents, surfaces | a chain whose links are started and forgotten; files shared with agents and other chains, without a lock |
| Memory promotion, surface coordination, task sessions, trust engine, kill switch | records in files or in memory | read, patch, write | surfaces, agents | lost updates; timers that overlap |

What makes them correct, part by part:

- the lock admits one holder, is never left behind by a live process, and a dead
  holder's lock goes away;
- a mission changes status only along the table of `mission-status.ts`, is
  completed only with a verification on record, keeps its history, and its work
  is at any time in the mission directory or whole in the archive;
- the queue loses no entry, dispatches none twice, respects prerequisites, and an
  entry that is not ready holds up nobody;
- a job runtime uses its slots, keeps the order of arrival, and tells every
  caller a place in line and an outcome that are true and stay true;
- an agent has one provider process at a time, callers that spawn it share it, and
  an agent that is gone leaves no process, adapter, handle or lease behind;
- no authority that the policy gates is granted without an approval of its own, a newer
  request is not overridden by an older one, and one operation makes one request;
- the audit trail shows a gap before what was kept, and does not blame what is whole;
- a task of a mission is asked of an agent once, its outcome is neither overwritten nor
  told twice, knowledge is distilled before the chain archives the mission, and a confirmed
  proposal comes to its report;
- for the parts that are not modelled yet, `PROJECT.json` lists under `hazards`
  what can go wrong, at its line.

## The modules

```
Mutex  <- implemented by - LockUtils          - LockUtilsProofs
                             | in larger steps
                             v
                          FileLock
                             ^ extended by
                             |
Mutex  <- implemented by - MissionLifecycle, MissionQueue
                                              - MissionLifecycleProofs, MissionQueueProofs
Mutex  <- implemented by - AgentLifecycle     - AgentLifecycleProofs
Slots  <- implemented by - VideoRenderRuntime - VideoRenderRuntimeProofs
AuditChain <- extended by - ApprovalGate      - ApprovalGateProofs
     - AuditChainProofs  <- extended by -------'
MissionStatus <- extended by - MissionLifecycle, OrchestrationChain
                               OrchestrationChain - OrchestrationChainProofs
```

Each `MC...` module extends the module it checks and names the model values and
the constant functions that a configuration needs.

**LockUtils** models one resource. A task is one call of `withLock`, `PidOf`
says which process runs it. Every system call is a step of its own (exclusive
create, write of the pid, read, signal 0, existence test, unlink), because
another process can come in between; within a process, tasks take turns only
where the code awaits, which is what `At` and `Synchronous` say. `file` holds the
creator as well as the content: a pid that is written after the file was unlinked
goes to the unlinked file. A blank or unreadable file is never stale, a missing
one neither. `purged` is a history variable: some contender has judged a file
stale. **Mutex** is what callers expect: one task inside, until the promise is
broken. `ImplementsMutex` maps the tasks inside `fn` to it, and `purged` to the
break.

**FileLock** is what the callers of `withLock` meet, in steps large enough to build
`MissionLifecycle` and `MissionQueue` on: `lock` is the file, which belongs to a process,
to one that is gone (`Dead`), or was never written (`Blank`). A death inside leaves `Dead`
and the next contender removes it; a death while trying may leave `Blank`, which stays. A
contender that has read the pid of a holder that has ended since may unlink whatever
file it finds (`Purge`), that of a live process too: then `stolen` is true for ever, and
two processes may be inside. So both findings about the lock (`lock_exclusive`,
`lock_dead_blank`) are possible in the modules that use it, and each of their properties
says whether it stands them. Which contender has read which pid is left open: `Purge` of a
live process's file asks only that some holder has let go or died (`left`).

**MissionLifecycle** models one mission and several controller processes. Each
command is a sequence of steps split where another process can interfere: the
read of the state, git commits, model calls, the lock, the write. `snap` is the
copy a command works on, `then` where it goes on after `saveState`. checkpoint,
record-evidence and resume read and write inside the lock; every other command
takes it only for the write, and that difference is in the model. Abstractions:

- the lock is that of `FileLock`;
- the state file is its status, the set of its history entries and checkpoints
  (`recs`, tagged with the command that wrote them), the last entry and
  `latest_commit`. Reads and writes of it are atomic (`secure-io.ts` writes a
  temporary file and renames it);
- a git commit makes a new HEAD or none, nondeterministically; `head = 0` means
  that there is no mission repository;
- intent drift and the outcome contract may refuse a finish at any time; trust
  may refuse a delegation at any time; the model may answer what it likes;
- `finish` removes the old archive, copies, removes the directory, and writes the
  state twice. The recursive removals and the copy take time: `archive.whole` is false
  while the archive is being removed or copied or was copied from a part, `dir` is
  "part" while the directory is going, and state file and repository go in any order
  (`Removing`). A death, or an error, in the middle leaves that on disk, and whatever
  command comes next finds it. `roots` counts the repositories the mission has had, so
  that a property can ask for each. `mishap` is history: a finish has stopped between
  the removal and the state it writes back, and a later one has replaced the archive.

**MissionQueue** models the queue file and two missions. Reading, choosing,
marking and starting are separate steps of `dispatchNextQueuedMission`, all
under the lock; errors of `startMission` are swallowed, as in the code. `startMission`
and `createMission` are the same steps by hand, without the queue lock: the read and the
check of the prerequisites (`StartLoad`), the test whether the mission exists
(`CreateTest`), its first state (`CreateSave`), the second read (`StartReload`), which
does not look at the prerequisites again, and the write of the copy (`StartSave`).
`--force` skips the check, `delegate` activates without one; other commands bring a
mission on. `irregular` is history: missions that --force or delegate activated, or that
two commands were starting or creating at a time. `Choices` is the first pending entry,
by priority and then age, whose prerequisites (those of the mission's state, not of the
entry) are completed.

**VideoRenderRuntime** models the in-process queue. A synchronous method is one
action, with the refresh of all queued packets that it ends in. `run` is the body
of a job: the bundle, then the backend where the policy enables it; after `run`
has settled, `execute` continues one microtask later, and a cancellation can come
in between. The reported stages are one status, `working`; the queue data of a
packet is modelled while the job is queued. `policy` is chosen in the initial
state: it is read once. **Slots** is the abstract bounded queue.

**AgentLifecycle** models the manager in one Node process and one agent, whose maps hold
a runtime or nothing. A runtime is one provider process, numbered by its boot. `Call` is
an async call of the manager or of what stands in front of it (`ensure`, `ask`, `stop`
and `restart` of `agent-runtime-supervisor.ts`, a sweep of `reapIdle`); an action is
what a call does from one await to the next, and `pc` says at which await it is. There
are two kinds of boot, because the code treats them differently: an ACP mediator is in
its map before the handshake, an exec adapter only after it. `boot` is the promise that
joining callers wait for; an ACP boot has its session (`SessionUp`) before it asks for a
model, and a failure of the latter is swallowed, so such a boot ends well even when its
process was stopped. A process may exit at any time, and an ask or a boot may fail at
any time. `lost` is a history variable that names the mishaps after which the code no
longer keeps its promise: a shutdown that overlapped a boot, a boot or an ask that
failed and left its process, a shutdown that cut into the end of a boot ("cut").
**Mutex** is again the abstract specification, with the live processes as the tasks
inside and a mishap as the break.

**AuditChain** models `audit-chain.ts` over several processes: the trail of all entries
ever made, whether each reached the file, the remembered last hash of each process,
restarts and days. An append that fails may leave a part of its line (`torn`); of a day
with such a line `loadAll` returns nothing. A number stands for a hash, so SHA-256 is
taken to be injective; nobody tampers with the file. `prevHash` is the loop of `verify`.
**ApprovalGate** extends it with the gate, the grants behind it, the request files and
those who decide. The code is synchronous within a process, so a process stands for one
that does one thing at a time, and others come in between its reads and writes of files:
listing the directory and loading each request are separate steps, as are reading and
writing a request or the grants. An entry of the trail is made in one step, since
computing it reads nothing that others write. A request keeps, as history, how many
requests the gate that made it had seen; `approved` collects the requests that ever were
approved. Operations are named by their correlation ids and are gated or not, once for
all. The command line and Presence Studio look for a pending request first
(`CheckPending`); Chronos, Slack and the actuator decide any request (`DecideAny`).
`mission_controller grant` and the Nexus daemon call `grantAccess` without the gate
(`GrantDirect`): they put services into the same `auth-grants.json`, which is why it is
part of the model, and no gated authority. A grants file that cannot be read counts as
empty (`LoadGrants`).

**MissionStatus** holds the statuses and the table of `mission-status.ts`.
**OrchestrationChain** is one mission and the chains of workers that bring it from a
confirmed proposal to its end. A chain is one confirmation: the mission id is built
from the thread and the proposal, so a second confirmation, or a surface that dies
between starting the first worker and clearing the proposal, makes a second chain for
the same mission. Of a chain only its last event counts, since a worker writes the next
event as the last thing it does; `stage` is the type of that event and `at` how far its
worker is. The steps are what workers do between two accesses to what they share: the
read of `NEXT_TASKS.json` by follow-up, each agent it asks and awaits, its write of all
it has read; the read of a reconciliation and each outcome it appends. Agents report
outcomes in the same file at any time once they were asked (`AgentReports`); the owner
and Chronos run mission commands beside the chains (`ByHandCommand`: start, verify,
import, delegate, distill, finish). Those commands, which `MissionLifecycle` looks into,
are one step here that succeeds, is refused, or stops on its way. Of the task board only
its existence matters (`board`): it goes with the directory when the mission is archived.
Up to reconciliation an event may fail at any point (`Fail`): a command or an agent
fails, the task board is gone between the test and the read, `NEXT_TASKS.json` is half
written. `sent`, `gaveUp`, `kept`, `twice`, `overlapped`, `finisher` (who took the mission
out of distilling without distilling it) and `late` (chains that were past their
distillation when it was verified) are history.

The `map` of `PROJECT.json` gives the source lines of every definition. Definitions
called `Mutant_...` are variants with a plausible mistake; each stands before the
definition it replaces and no specification uses it. They show that the
properties can fail.

## What the runs show

| run | constants | shows |
| --- | --- | --- |
| `lock_crash` | 4 tasks in 3 processes, one of which runs two; the others may die at any system call | `withLock` implements `Mutex` (`ImplementsMutex`): `fn` excludes until a contender judges a lock stale (`ExclusiveUntilPurge`); until then a lock file belongs to a task between acquire and release or to a dead process (`LockFileHasOwner`); a dead process's written lock is removed as long as someone tries (`WrittenLockRecovered`) |
| `lock_exclusive` (violation) | 3 processes, 1 may die | after a death two contenders judge the same lock stale and the slower one unlinks the lock the faster one has just created: two tasks are inside `fn` |
| `lock_dead_blank` (violation) | 2 processes, 1 may die | a process that dies between create and write leaves a blank file that no contender ever removes |
| `mission_concurrent` | 2 processes that may die at any step, 3 commands of any kind, from a planned, an active or a completed mission | no overwrite makes a mission distilling, completed or archived without a verification on record (`CompletedWasVerified`); what the locked commands write drops nothing others wrote, until a live lock is stolen (`LockedWritesKeepRecords`) |
| `mission_owner` | 1 process that may die at any step, 6 commands from a planned mission, no delegate | each repository of the mission is whole in the directory or in the archive, unless a finish has replaced the archive after another had stopped halfway (`WorkIsKept`); a whole archive was completed and its `latest_commit` is the archived HEAD (`ArchiveIsConsistent`); statuses follow the table (`StatusFollowsTable`) |
| `mission_queue` | 2 processes, 2 entries, 2 priorities, 1 crash anywhere | a write appends one entry or marks one pending entry, until a live lock is stolen (`QueueIsKept`); an entry that needs nothing is dispatched in the end, unless the lock is blank or was stolen (`NoHeadOfLineBlocking`) |
| `queue_start` | 2 processes, 1 entry, start, create and delegate by hand, with and without --force, missions that exist or not | no mission is active before its prerequisites have completed, but by --force, by delegate, or by two commands at work on it at a time (`PrerequisitesFirst`) |
| `video_jobs` | 4 jobs, 2 slots, all policies | the runtime implements `Slots`; a waiting job's packet tells its true place (`QueueDataFresh`); no slot idles while a job waits (`SlotsAreUsed`); an outcome a caller was told is never revised (`OutcomeIsFinal`); every job ends (`EveryJobEnds`) |
| `agents` | 3 calls, 2 provider processes of either kind | callers that spawn at a time share one boot (`OneBoot`); the manager implements `Mutex`, one process at a time (`ImplementsSingleProvider`); an agent that is not registered has left nothing behind (`GoneMeansGone`), these three until a mishap; a handle never leads to a runtime that a shutdown has stopped, until one has cut into the end of a boot (`NoStoppedHandle`), and who joined a boot gets its answer (`JoinedBootIsRun`), even after a mishap |
| `approvals` | 2 processes, 1 of which may end at any step, 4 calls, a gated authority and a service that is granted directly, 2 roles, 2 days, 2 instants, 1 failed append | a gated authority was let through by the gate because of a request for it that was approved (`AuthorityWasApproved`); no older approval overrides a newer request that was there (`NewestDecides`); two requests come only from gates that overlap (`OneRequestEach`); grants and votes are lost only to a copy that is stale or could not be read (`LostOnlyToStaleCopy`); when `verify` is content, what it has read is the beginning of one life without a gap (`IntactIsUnbroken`), and what it reports has one of two causes (`AlarmHasCause`) |
| `orchestration` | 2 chains for one mission, 1 task in each plan, 1 worker may die at any step, verify by hand | a task goes to agents twice only after a dispatcher gave up or when two workers had the files at once (`RepeatsHaveCause`); no dispatch takes back an outcome reported before or after it (`OutcomeKept`); an outcome is appended twice only by workers that overlapped (`ToldOnce`); a confirmed proposal comes to its report, or stops for a named reason (`ChainEnds`) |
| `orchestration_by_hand` | 2 chains, no outcomes, 1 death, all six commands by hand | a mission is completed or archived without ever having been distilled only when it was finished by hand, or by a chain whose distillation had failed, or was over when the mission was verified (`FinishedHasKnowledge`) |

Each module has a type invariant, which one of its runs checks. `mission_owner` leaves out
delegate, which disregards the table (see the observations below), and
has a single process because the repository asks for that
(`knowledge/public/architecture/mission-conflict-avoidance.md`:29, "Single-Owner,
Multi-Worker"). With two owners `WorkIsKept` is false: one finish removes the
archive another has just completed.

The orchestration is checked in two runs because the commands by hand and the outcomes
multiply each other's states, and no property relates them: what happens to tasks and
outcomes depends on the commands only through the archive, which finish by the chains
themselves makes; knowledge does not depend on outcomes at all. The proofs have both.

Some properties have exceptions. Each exception is what the code really does, is listed
under `hazards`, and is there because TLC finds the property false without it:

- `stolen`: a contender has unlinked the lock file of a live process (`lock_exclusive`);
- a blank lock, in `NoHeadOfLineBlocking` (`lock_dead_blank`);
- `mishap = "overwritten"` in `WorkIsKept`: a finish that dies in `rm -rf` of the
  directory (mission-lifecycle.ts:345), or before the state is back, leaves a part with a
  state that may read completed; the next finish removes the archive (343) and copies that;
- `irregular` in `PrerequisitesFirst`; `lost` in the properties of agents;
- `finisher` and `late` in `FinishedHasKnowledge`.

The two violations are disagreements between the code and what the repository
says of it; `findings` quotes the sentences and gives the lines.

## Bounds

- Lock: two contenders are needed to race for a stale lock and a third process to
  have died; two tasks in one process cover the case in which the pid does not tell
  tasks apart. Hence four tasks in three processes. Tasks call `withLock` again and again.
- `MaxCmds` bounds commands. Two processes and three commands, from a planned, an active
  and a completed mission, let one command's copy be overtaken by two complete commands
  of the other; six commands take one owner from a planned mission to an archive and
  beyond it (start, verify, distill, finish and two more). Retries are new commands.
- `MaxEntries = 2`, `MaxCrashes = 1`: one entry is read while another is appended,
  a ready entry waits behind one that is not, and a process dies at any step, also
  between the mark and the start, or with a lock file just created. A crashed process may
  issue commands again. `queue_start` has one entry and no crash: two processes by hand or
  by dispatch are what it takes to come between two reads of a mission, and a death can only
  keep a mission from being activated. The proof has any number of everything.
- Four jobs and two slots: two run, two wait, so that a job can leave the line from
  its head and from behind another, and both slots can become free in any order.
- Three calls: one boots, one joins or stops it, and one comes after the stop. A
  call that has returned is used again, so the number of calls over time is bounded
  only by `MaxBoots = 2`, which lets one process take the place of another.
- Four calls of the gate, of deciders and of others: two gates that race, a decision and
  another on the same request, or a request, a decision, a second look and a grant.
  `Direct` is the service that is granted without the gate. Two instants date requests
  as equal or as one after the other; two days put midnight between any two entries;
  with one append lost, the gap lies before, between or after what was kept. Processes
  and roles are symmetric.
- Two chains are what it takes for one worker to overwrite what another has read. One
  task in a plan makes a dispatcher that awaits while another reads, plans, writes or
  reports the same task; `orchestration_by_hand` drops the outcomes and takes all
  commands. With two tasks the state space is beyond a run, and what one dispatcher does
  to another task of its own copy is covered by the proofs, which hold for any number of
  chains, tasks, outcomes and deaths.
- Deadlock is checked except where the modelled sequence ends by itself: mission
  commands, provider processes, calls of the gate and calls by hand are bounded, a job id
  is used once, and in `orchestration` a chain whose event was written and whose worker was
  never started stops there (with the commands of `orchestration_by_hand` something can
  always be done).

## Fairness

- `LockUtils!FairSpec`: weak fairness of each task's steps. A live process keeps
  running, and commands keep being issued; nothing is assumed of processes that
  die. `WrittenLockRecovered` needs no more, because any contender that looks at
  the file removes it.
- `MissionQueue!FairSpec`: weak fairness of each process's steps and of the purge of a
  lock it finds stale, for a live process goes on. Strong fairness of `Wait`: a contender
  tries or gives up after five seconds at the latest, whatever others do with the lock in
  between, so waiting is not for ever even if the lock is never free when it looks. Strong
  fairness of the call of dispatch (`Repeats`): an operator or a scheduler calls it again
  and again, whatever the process does by hand in between; enqueue, start and create by
  hand, the commands on missions and crashes are not fair.
- `VideoRenderRuntime!FairSpec`: weak fairness of each job's `run` and `execute`.
  Writing the bundle has bounded retries and the backend command is killed after
  `command_timeout_ms`, so what a job awaits settles. Calls of enqueue and cancel
  are not fair.
- `OrchestrationChain!FairSpec`: weak fairness of each worker's own steps: a detached
  process that lives goes on. `mission_controller` and the supervisor are called with
  timeouts. Nothing is assumed of agents: `a2aBridge.route` may never return, so
  `ChainEnds` excuses a chain that waits for ever (`<>[](at[c] = "await")`), as it does
  one that has died or failed. Confirmations, reports and commands are not fair.

`MissionLifecycle`, `AgentLifecycle` and `ApprovalGate` claim no liveness: a command
that stops in the middle, a provider that never answers (an ACP request has no
deadline of its own) and a request that nobody decides are behaviours of the system.

## What is proved

The theorems hold for all values of the constants that satisfy the named
assumptions (`LockAssumption`, `MissionAssumption`, `QueueAssumption`,
`VideoAssumption`, `AgentAssumption`, `AuditAssumption`, `GateAssumption`,
`NoRequestAssumption`, `ChainAssumption`): any number of tasks, processes, commands,
entries, jobs, slots, calls, provider processes, operations, requests and chains. The
assumptions only say that special values differ from ordinary ones, that functions have
their domains, and, for jobs, that there are finitely many ids and at least one slot.

- **LockUtilsProofs**: `TypeCorrect`, `Exclusion`, `NoLeakedLock`, `Refinement`,
  `ExclusionWithoutDeath`. The invariant adds to the properties that, until a
  purge, a task between acquire and release owns the file (`OwnershipInv`), and that
  only a task that has judged a lock stale is about to unlink somebody's file
  (`PurgerInv`). Mutual exclusion alone is not inductive: it says nothing of the
  file. `Refinement` needs no hypothesis, because the abstract mutex is free once a
  lock was judged stale; that only a death leads there is `NoDeathNoPurge`, from which
  `ExclusionWithoutDeath` follows. `Recovery` proves `WrittenLockRecovered`, a liveness
  property: the file of a dead process changes only by going away (`OrphanedStays`), and
  a task of a process that lives on comes, point by point, to where it reads the file,
  finds its owner dead and unlinks it. The theorem asks for one such process that makes
  one call at a time (`Survivor`); `lock_crash` has one that makes two.
- **MissionLifecycleProofs**: `TypeCorrect`; `LockedWrites`, from the invariant
  that a process at a locked step holds the lock as long as no live lock was stolen
  (`LockInv`), so that between its read and its write nobody else writes;
  `RecordsGrow`, that under the same condition nothing is lost where only the locked
  commands run (the case of acceptance criterion AC2 in
  `docs/developer/MISSION_LIFECYCLE_AUDIT.md`:132); `CompletedVerified`. For the
  last one the state is not enough: every copy in the hands of a command must have
  a verification on record when its status is late (`VerifiedInv`), because any
  copy may be written at any time.
  A second part proves `WorkKept`, `ArchiveConsistent` and `TableFollowed`, for one
  owner who does not delegate and any number of commands, each of which may die at any
  step, inside a recursive copy or removal too; `WorkKept` speaks of every repository the
  mission has had, up to the one mishap that loses one. They need to
  know what the owner has in hand: until it writes, its copy is the state on disk and
  may follow it (`Current`), and from the gate to the removal of the directory that
  state names HEAD as its latest commit (`Archiving`). A state never names 0
  (`LatestInv`), so the gate lets finish through only where there is a repository.
  `Exclusive` shows that the locked sections of the commands implement `Mutex` with
  `stolen` as its break, whoever dies. `LockUtils` implements `Mutex` with `purged` as its
  break, which comes earlier, when a lock is judged stale: until then callers may rely on
  either, and from a purge of a dead lock to the theft of a live one `Exclusive` is about
  `FileLock`, which has the purge as one step.
  `WisdomKept` says that a history with a DISTILL entry, in place or archived, has its
  knowledge in a file, for any number of owners; the copies in hand must have it too.
- **MissionQueueProofs**: `TypeCorrect`, `QueueKept` (the queue in the hands of a
  dispatcher equals the file, because it holds the lock, until a live lock is stolen),
  `PrerequisitesHold` (what a process between the check and the write has in hand was
  met when it looked and stays so, since `done` only grows, or it has met another at
  work on the same mission, or --force was given). `Exclusive` is the same refinement of
  `Mutex` as for the mission commands. `DispatchInOrder`: what is marked is ready, and
  before all else that is, by priority and age. `ReadyIsTaken`: a dispatch that looks at
  a queue with a ready entry marks one; it rests on dates being different (`DatesInv`),
  so that among the ready entries, a finite set, one comes first. `StartedAtMostOnce`: a
  mark in the file precedes each start, and with `QueueKept` none is made twice; like
  `DispatchInOrder` it holds until a live lock is stolen. `CommandsEnd`, under fairness:
  every enqueue, dispatch, start and create ends, with a timeout at worst, and whatever
  becomes of the lock.
- **VideoRenderRuntimeProofs**: `TypeCorrect`, `SlotsUsed`, `DataFresh`,
  `OutcomeFinal`, `Refinement`. The invariant is the type invariant, `SlotsAreUsed`
  and `LineInv`: the line has no duplicates, is disjoint from the running jobs, and
  the packets match it. `PumpNothing`, `PumpOne` and `PumpEffect` show that from a
  state of the invariant the loop of `pump` admits at most one job, which is where
  the step of `Slots` comes from. Under fairness, `RunningJobsEnd`: a running job gets
  its outcome and frees its slot; and `LineMoves`: the job in any place of the line comes
  nearer, gets a slot or is cancelled, because while it waits some job runs
  (`SlotsAreUsed`), whichever that is. Together they are `EveryJobEnds` but for an
  induction on the place in line.
- **AgentLifecycleProofs**: `TypeCorrect`, `SpawnsShareBoot`, `GoneIsGone`,
  `HandlesUsable` (up to a shutdown that cuts into the end of a boot), `JoinsSettle`,
  `Refinement`. The invariant says, for each place
  where a call can be, which runtime it holds, in what state its boot is and which
  maps have it; the properties alone do not know whose process a call that awaits is
  going to register or to stop. `JoinersReturn` draws the conclusion from `JoinsSettle`:
  if the boots under way come to an end, everyone who joined one returns, whichever
  call carries it out and whatever shutdowns come in between.
- **ApprovalGateProofs**: `TypeCorrect`, `AuthoritiesWereApproved`,
  `NewestRequestDecides`, `RequestsAreShared`, `LossesNeedStaleCopy`,
  `IntactTrailIsUnbroken`, `AlarmsHaveCauses`. Requests only grow and a verdict stays in
  the trail (`NextGrown`), so what a gate has seen remains true while others work; the
  invariant says of each process between its steps what the copy in its hand is: the
  newest of those already loaded (`StoreInv`, `GateInv`). The last two theorems rest on
  AuditChainProofs. `VerdictsWereTrue` says of every verdict in the trail what
  `AuthoritiesWereApproved` says of the grants in the file; `HistoryKept`, that a
  request stays one for its operation and of its time, although a decision rewrites the
  whole file, and that the trail is only appended to.
- **AuditChainProofs**: lemmas about the trail. `verify` is a recursion over the file,
  and its result is proved not by an induction over the entries but along the steps
  that append them: for each day there is exactly one function that walks through the
  file as `verify` does (`WalkInv`), an append extends it by one value, and what it
  has found so far is carried along (`Found`); that every entry is linked to the one
  before it in the same life of its process is `LifeInv`.
- **OrchestrationChainProofs**: `TypeCorrect`, `RepeatsCaused`, `OutcomesKept`,
  `ToldOnlyOnce`, `KnowledgeKept`, and `RequestedSent`: what the file calls requested
  was asked of an agent. None of the properties is inductive,
  because any copy may become the file: the invariant says of every copy what the
  property says of the file (`SentFirstInv`, `KeptInv`), that nothing is known of a plan
  that is not written yet (`FreshInv`), that workers with the files in hand at the same
  time have met (`MetInv`), and, of a task that was asked for, that its dispatcher still
  has it in hand, or has recorded it in every copy of its plan, or has met another, or
  gave up (`SentInv`). `KnowledgeKept` needs to know who took the mission out of
  distilling: a chain that reaches completion has its own distillation behind it, done,
  refused, or failed, and one that was refused before the mission was verified is in `late`
  (`KnowledgeInv`). `Steps` sorts the steps by what they do to these; a `Quiet` one
  does nothing. `ChainsOnlyGoOn`: each step of a chain takes it further in an order of
  stages, of points within a stage, and of the tasks and outcomes it has left
  (`Further`). `WorkersMove`, under fairness: a worker that waits for nobody leaves the
  position it is in. Together they are `ChainEnds` but for an induction on that order.
  `DistillingEnds` needs none: a chain that has come to distillation ends with its report
  unless its worker dies.

The theorems about liveness (`Recovery`, `CommandsEnd`, `RunningJobsEnd`, `LineMoves`,
`JoinersReturn`, `WorkersMove`, `DistillingEnds`) assume the fairness of their module,
written `Fair`, and that the fair step can be taken where its guard holds: ENABLED is
out of the provers' reach. Their hypotheses say so in the form
`[](guard => ENABLED <<step>>_vars)`, and with the constants of small instances TLC has
found each of these guards to imply ENABLED in every reachable state. Without them the
theorems would hold of a system that is stuck. `JoinersReturn` assumes moreover that
boots end, which the code does not bound (an ACP handshake has no deadline).

Only model-checked: `NoHeadOfLineBlocking`, `EveryJobEnds` and `ChainEnds`. Each needs an
induction inside a temporal formula: on the entries still pending, on the place in line,
on the way a chain has left. The provers do the steps (see `DispatchInOrder`,
`LineMoves`, `WorkersMove`) and cannot do the induction.

## Observations without a run

What the code does in these places is in the model, and no document says that it
should be otherwise; they are listed with the hazards.

- A finish that dies inside the removal of the directory leaves a part of it. If its
  state file is there and says completed, the next finish removes the whole archive and
  copies the part; so does one after delegate, import and start have built a new
  repository for an archived mission: the first archive is replaced.
- A process that dies in finish between the removal of the directory and the write
  leaves the archive, with state `completed`, and no state file in place.
- dispatch marks an entry before it starts the mission and swallows the failure:
  such an entry stays `dispatched` and is never looked at again.
- A prerequisite that is archived does not count as completed, so a mission whose
  prerequisite was finished in the meantime stays in the queue for ever.
- `startMission` looks at the prerequisites it knows of before it creates the mission,
  and not after it has read the state again: what was created meanwhile with
  prerequisites of its own is activated all the same.
- A backend that times out is reported as `cancelled`, and `failed` follows at once.
- A shutdown during a boot removes the pending spawn and the maps, and the boot goes
  on: a second spawn then starts a second provider process, and the first boot
  registers its runtime, or, if it fails, removes the mediator of the other.
- `acp-mediator.ts`:126 swallows the failure of the last request of a boot, so a boot
  whose process a shutdown has stopped may end well and leave a handle.
- An ask that fails marks the agent as in error, and spawn takes that for not in use:
  the next spawn puts a new process in the place of one that may live. A boot that
  fails leaves its process as well.
- `agent-lifecycle.ts`:436 says "Check if child process is still alive"; the code
  below it returns the recorded status.
- A boot or an ask of an ACP agent whose process dies waits for ever.
- One decision decides the whole request, whatever its workflow asks for, and may be
  revised by the next; an approval lets its correlation id through again and again.
  `approval-policy.json` asks `dual_key_confirmation` for secret access and for
  authorities; the gate does not look at it, and one vote decides.
- `approval-policy.json` has a rule for `secret:grant_access`; `mission_controller grant`
  (mission-lifecycle.ts:366) and the Nexus daemon call `grantAccess` without the gate, which
  the comments of `secret-guard.ts` leave open to them.
- Two gates that race make two requests. The newer one is pending, and blocks the
  operation after the older one has been approved.
- `auth-grants.json` is read and written back without a lock: of two grants at a time
  one is lost. A file that cannot be read counts as empty, and the next grant replaces all.
- What was not kept at the end of a life of a process leaves no gap for `verify` to see.
- `verify` reports the entries of a second process, of a process that was started
  later that day, and of one that has run past midnight as corrupted, so on most days
  it is not content; `AlarmHasCause` says that it reports no others.
- import moves HEAD without `latest_commit`; finish refuses until a checkpoint.
- delegate (mission-lifecycle.ts:60) makes a completed or an archived mission active
  again; `mission-status.ts`:5 says that the table is enforced.
- finish advises a validating mission to run distill first (mission-lifecycle.ts:214). That
  distill asks the model, writes the wisdom file and then throws (mission-distill.ts:283),
  as the table has no step from validating to completed.
- A line of the day that does not parse makes `loadAll` return no entry
  (audit-chain.ts:197): `verify` then reads nothing of the day and reports nothing,
  though line 149 promises the corrupted entries.
- `mission_controller.ts`:718 offers `enqueue <ID> <tier> [priority] [deps]`; the
  dependencies are stored with the entry and nothing reads them. Dispatch asks the
  prerequisites of the mission's own state.
- No step of the chain verifies the mission. distill and finish refuse a mission that is
  still active, and only log it; the worker reports `mission_distillation_completed` and
  "Mission lifecycle completed." all the same, and the mission stays active.
- A second kickoff overwrites the tasks of the first, and no worker looks at the status
  of the mission: a chain goes on, and asks agents, in an archived mission.
- A finish beside a chain removes the directory its workers read: an event that has
  looked for `TASK_BOARD.md` (312) fails when it reads it (322), and the chain stops there.
- Follow-up overwrites outcomes that agents report while it awaits the next agent.
- Outcomes are told once for each task id: that of a task planned anew under the same id
  is not told.

## What is not modelled

- Of the mission commands: record-task (writes a file of its own), seal, purge,
  staffing, trust scores, the project ledger, tier and tenant checks. They touch none of
  the modelled state. Access grants write `auth-grants.json`, which `ApprovalGate` has.
- Of the lock: pids that are used again for another process, by which a dead holder would
  seem alive.
- Of the render runtime: listeners and their throttling (they only read), progress
  numbers, artifact lists, and `waitForRenderJob`, which polls.
- Of the agent lifecycle: metrics and logs, the soft refresh, adapters that keep no
  process, the turns inside an adapter, `handle.shutdown` (nobody calls it for an exec
  agent), `cleanupAll` at the exit of the process, the detached worker and the socket
  daemon of the runtime supervisor.
- Of approvals: grants that expire, event logs, the surfaces' cards, the rules of the
  policy (an operation is gated or not), what an approval is asked to confirm, and
  system-actuator's own look-up of a request by id. Of the audit trail: tampering (the
  hash is injective and files are only appended to), the forwarder, the ledger and the
  evidence chain.
- Of the orchestration: surface control, what the task board says, the outboxes and the
  runtimes of a worker, failures to write events and outbox messages. The worker reads its
  files in the public tier only, and so does the model; agents are taken to edit
  `NEXT_TASKS.json` in one step.
- Semaphore, voice runtime, rate limiter, schedules, memory promotion, surface
  coordination, task sessions, trust engine and kill switch; see the plan.
- Pipelines (sequential interpreters), the coordination bus and A2A bridge (nothing
  concurrent), compilers and document engines (pure transformations), actuators,
  surfaces, satellites and meeting sessions (I/O around devices and services),
  path, tier and policy checks, and the knowledge base (data).

## Plan

Done, in this order, the most shared mechanism first: Mutex and LockUtils, FileLock;
MissionLifecycle; MissionQueue; Slots and VideoRenderRuntime; AgentLifecycle; AuditChain
and ApprovalGate; OrchestrationChain; their proofs.

Next, by what depends on order and concurrency most:

1. **Semaphore** and **VoiceGenerationRuntime**, both as refinements of `Slots`, the
   second with a mapping that leaves cancelled entries out of the line.
2. **GenerationSchedule**, **RateLimitLock** as a variant of LockUtils, the memory
   promotion queue.

Smaller hazards to take along with these modules, besides those in `PROJECT.json`
(file names under `libs/core/`):

- `managed-process.ts`:53, the exit of an old process marks a new registration;
- `semaphore.ts`:35, the hand-over of a slot must not be overtaken;
  `voice-generation-runtime.ts`:138, cancelled entries stay in the line;
- `ledger.ts`:64 and `evidence-chain.ts`:63, read and append in two steps;
- `tenant-rate-limiter.ts`:186, a clock that goes back takes tokens away;
- `trust-engine.ts`:114, decay is reckoned from the last event each time it is
  applied; `kill-switch.ts`:149, monitor ticks overlap;
- `surface-coordination-store.ts`:83 and `task-session.ts`:668, read and write back;
- `scripts/refactor/mission-lifecycle.ts`:163, verify changes the trust score before
  it saves the state, which may fail with a lock timeout.

Each of these modules gets one run that checks all its properties together where one set of
constants can show them; violations are recorded only where a document disagrees
with the code.
