--------------------------- MODULE AgentLifecycle ---------------------------
(***************************************************************************)
(* The life of one agent in libs/core/agent-lifecycle.ts, with its record  *)
(* in agent-registry.ts and its lease in runtime-supervisor.ts.            *)
(*                                                                         *)
(* All of it runs in one Node process.  A call is one async call of the    *)
(* manager; an action is what it does between two awaits.  A runtime is    *)
(* one provider process, started by one boot: those in acp are driven by   *)
(* an ACPMediator, the others by an exec adapter that keeps a process      *)
(* (CodexAppServerAdapter).  The maps of the manager are keyed by agent    *)
(* id, so each is here the runtime it holds for the agent, or None.        *)
(***************************************************************************)
EXTENDS Naturals

CONSTANTS
    Call,       \* calls of the manager; a call that has returned is used again
    MaxBoots,   \* bound: provider processes are numbered in the order of their boots
    None        \* no runtime

ASSUME AgentAssumption ==
    /\ MaxBoots \in Nat
    /\ None \notin Nat

Runtime == 1 .. MaxBoots

VARIABLES
    record,     \* status of the agent in agentRegistry, or "none"
    mediator,   \* mediators.get(agentId)
    exec,       \* execAdapters.get(agentId)
    handle,     \* handles.get(agentId): the runtime it asks
    pending,    \* pendingSpawns.get(agentId): the runtime being booted
    leased,     \* runtimeSupervisor has a resource of the agent
    proc,       \* the provider processes
    acp,        \* those that speak ACP
    boot,       \* how far the promise of each boot is
    pc,         \* where each call is
    mine,       \* the runtime a call boots, waits for or asks
    then,       \* what a call does after its shutdown
    lost        \* history: what has happened that may lose a process

maps == <<record, mediator, exec, handle, pending, leased>>
vars == <<maps, proc, acp, boot, pc, mine, then, lost>>

Statuses == {"none", "booting", "ready", "busy", "error"}
Stopping == {"mediatorStopped", "execStopped"}
PCs == Stopping \cup {"idle", "boot", "settle", "join", "ask", "respawn", "drop"}
Thens == {"idle", "respawn", "drop"}

(* Maps hold runtimes, calls are at one of their awaits, and only a call   *)
(* that boots, joins or asks has a runtime.                                *)
TypeOK ==
    /\ record \in Statuses
    /\ {mediator, exec, handle, pending} \subseteq Runtime \cup {None}
    /\ leased \in BOOLEAN
    /\ proc \in [Runtime -> {"unused", "alive", "exited", "stopped"}]
    /\ acp \subseteq Runtime
    /\ boot \in [Runtime -> {"none", "pending", "answered", "settled"}]
    /\ pc \in [Call -> PCs]
    /\ mine \in [Call -> Runtime \cup {None}]
    /\ \A c \in Call : pc[c] \in {"boot", "join", "ask"} <=> mine[c] # None
    /\ then \in [Call -> Thens]
    /\ lost \subseteq {"overlap", "stray", "cut"}

Init ==
    /\ record = "none" /\ leased = FALSE
    /\ mediator = None /\ exec = None /\ handle = None /\ pending = None
    /\ proc = [r \in Runtime |-> "unused"]
    /\ acp = {}
    /\ boot = [r \in Runtime |-> "none"]
    /\ pc = [c \in Call |-> "idle"]
    /\ mine = [c \in Call |-> None]
    /\ then = [c \in Call |-> "idle"]
    /\ lost = {}

-----------------------------------------------------------------------------
Move(c, here, there, r) ==
    /\ pc[c] = here
    /\ pc' = [pc EXCEPT ![c] = there]
    /\ mine' = [mine EXCEPT ![c] = r]

Alive(r) == r # None /\ proc[r] = "alive"

\* agentRegistry.updateStatus does nothing for an agent it does not know.
Status(s) == record' = IF record = "none" THEN "none" ELSE s

\* A shutdown and a boot overlap; a process is left behind; a shutdown stops a
\* process whose boot is about to return.
Note(overlap, stray, cut) ==
    lost' = lost \cup (IF overlap THEN {"overlap"} ELSE {})
                 \cup (IF stray THEN {"stray"} ELSE {})
                 \cup (IF cut THEN {"cut"} ELSE {})

Busy(here) == \E c \in Call : pc[c] \in here

\* What spawn takes for a runtime in use, even while the record says booting.
InUse == handle # None /\ record \in {"ready", "busy", "booting"}

SpawnKnown(c, from) ==
    /\ InUse
    /\ Move(c, from, "idle", None)
    /\ UNCHANGED <<maps, proc, acp, boot, then, lost>>

SpawnJoin(c, from) ==
    /\ ~InUse /\ pending # None
    /\ Move(c, from, "join", pending)
    /\ UNCHANGED <<maps, proc, acp, boot, then, lost>>

\* The requirement or the trust gate refuses, or no such provider is known.
SpawnRefused(c, from) ==
    /\ ~InUse /\ pending = None
    /\ Move(c, from, "idle", None)
    /\ record' \in {record, "error"}
    /\ UNCHANGED <<mediator, exec, handle, pending, leased, proc, acp, boot, then, lost>>

\* The process is started; a mediator is in its map before it has booted, an
\* exec adapter is not.
Start(c, from, r) ==
    /\ ~InUse
    /\ proc[r] = "unused" /\ \A q \in 1 .. r - 1 : proc[q] # "unused"
    /\ acp' \in {acp, acp \cup {r}}
    /\ Move(c, from, "boot", r)
    /\ record' = "booting"
    /\ pending' = r
    /\ mediator' = IF r \in acp' THEN r ELSE mediator
    /\ proc' = [proc EXCEPT ![r] = "alive"]
    /\ boot' = [boot EXCEPT ![r] = "pending"]
    /\ Note(Busy(Stopping), Alive(mediator) \/ Alive(exec), FALSE)
    /\ UNCHANGED <<exec, handle, leased, then>>

Mutant_SpawnNotShared(c, from, r) == Start(c, from, r)

SpawnInternal(c, from, r) == pending = None /\ Start(c, from, r)

Spawn(c, from) ==
    SpawnKnown(c, from) \/ SpawnJoin(c, from) \/ SpawnRefused(c, from)
    \/ \E r \in Runtime : SpawnInternal(c, from, r)

\* The provider has opened its session or thread, which a process that is gone
\* does not.
SessionUp(r) ==
    /\ boot[r] = "pending" /\ proc[r] = "alive"
    /\ boot' = [boot EXCEPT ![r] = "answered"]
    /\ UNCHANGED <<maps, proc, acp, pc, mine, then, lost>>

\* Whatever has become of the process by now: the ACP path still asks for its
\* model, and swallows the error.
BootDone(c) ==
    /\ Move(c, "boot", "settle", None)
    /\ boot[mine[c]] = "answered"
    /\ exec' = IF mine[c] \in acp THEN exec ELSE mine[c]
    /\ handle' = mine[c]
    /\ leased' = TRUE
    /\ Status("ready")
    /\ boot' = [boot EXCEPT ![mine[c]] = "settled"]
    /\ UNCHANGED <<mediator, pending, proc, acp, then, lost>>

Mutant_FailureUnsettled(c) ==       \* the promise is left as it is
    /\ Move(c, "boot", "settle", None)
    /\ UNCHANGED <<maps, proc, acp, boot, then, lost>>

\* Only the ACP path catches the error.  Nobody stops the process.
BootFails(c) ==
    /\ Move(c, "boot", "settle", None)
    /\ boot[mine[c]] = "pending"
    /\ IF mine[c] \in acp THEN Status("error") /\ mediator' = None
                          ELSE UNCHANGED <<record, mediator>>
    /\ boot' = [boot EXCEPT ![mine[c]] = "settled"]
    /\ Note(FALSE, Alive(mine[c]), FALSE)
    /\ UNCHANGED <<exec, handle, pending, leased, proc, acp, then>>

\* The finally block of spawn.
Settle(c) ==
    /\ Move(c, "settle", "idle", None)
    /\ pending' = None
    /\ UNCHANGED <<record, mediator, exec, handle, leased, proc, acp, boot, then, lost>>

Joined(c) ==
    /\ Move(c, "join", "idle", None)
    /\ boot[mine[c]] = "settled"
    /\ UNCHANGED <<maps, proc, acp, boot, then, lost>>

-----------------------------------------------------------------------------
\* askAgentRuntime looks the handle up; what it touches once is idle again
\* after a while, however long the answer takes.
Ask(c) ==
    /\ handle # None
    /\ Move(c, "idle", "ask", handle)
    /\ Status("busy")
    /\ UNCHANGED <<mediator, exec, handle, pending, leased, proc, acp, boot, then, lost>>

Answered(c) ==
    /\ Move(c, "ask", "idle", None)
    /\ proc[mine[c]] = "alive"
    /\ Status("ready")
    /\ UNCHANGED <<mediator, exec, handle, pending, leased, proc, acp, boot, then, lost>>

AskFails(c) ==
    /\ Move(c, "ask", "idle", None)
    /\ Status("error")
    /\ UNCHANGED <<mediator, exec, handle, pending, leased, proc, acp, boot, then, lost>>

-----------------------------------------------------------------------------
Kill(r) == proc' = [proc EXCEPT ![r] = "stopped"]

Mutant_StaysRegistered(c, from, t) ==   \* the record is marked and not removed
    /\ Move(c, from, t, None)
    /\ then' = [then EXCEPT ![c] = "idle"]
    /\ record' = "shutdown" /\ handle' = None /\ pending' = None /\ leased' = FALSE
    /\ UNCHANGED proc

Mutant_LeaseKept(c, from, t) ==         \* the resource is not unregistered
    /\ Move(c, from, t, None)
    /\ then' = [then EXCEPT ![c] = "idle"]
    /\ record' = "none" /\ handle' = None /\ pending' = None
    /\ UNCHANGED <<proc, leased>>

Mutant_HandleKept(c, from, t) ==        \* the handle stays in its map
    /\ Move(c, from, t, None)
    /\ then' = [then EXCEPT ![c] = "idle"]
    /\ record' = "none" /\ pending' = None /\ leased' = FALSE
    /\ UNCHANGED <<proc, handle>>

\* The synchronous end of shutdown.
Forget(c, from, t) ==
    /\ Move(c, from, t, None)
    /\ then' = [then EXCEPT ![c] = "idle"]
    /\ record' = "none" /\ handle' = None /\ pending' = None /\ leased' = FALSE
    /\ UNCHANGED proc

Mutant_ExecLeftRunning(c, from, t) ==   \* the adapter is dropped, not shut down
    \/ /\ exec # None
       /\ Move(c, from, "execStopped", None)
       /\ then' = [then EXCEPT ![c] = t]
       /\ UNCHANGED <<record, handle, pending, leased, proc>>
    \/ exec = None /\ Forget(c, from, t)

StopExec(c, from, t) ==
    \/ /\ exec # None
       /\ Kill(exec)
       /\ Move(c, from, "execStopped", None)
       /\ then' = [then EXCEPT ![c] = t]
       /\ UNCHANGED <<record, handle, pending, leased>>
    \/ exec = None /\ Forget(c, from, t)

\* shutdown up to its first await; t is what the call does afterwards.
BeginShutdown(c, from, t) ==
    /\ \/ /\ mediator # None
          /\ Kill(mediator)
          /\ Move(c, from, "mediatorStopped", None)
          /\ then' = [then EXCEPT ![c] = t]
          /\ UNCHANGED maps
       \/ mediator = None /\ StopExec(c, from, t) /\ UNCHANGED <<mediator, exec>>
    /\ Note(Busy({"boot", "settle"}), FALSE, mediator # None /\ boot[mediator] = "answered")
    /\ UNCHANGED <<acp, boot>>

\* After each await, what the maps hold now is forgotten, by id.
EndShutdown(c) ==
    /\ \/ /\ StopExec(c, "mediatorStopped", then[c])
          /\ mediator' = None
          /\ UNCHANGED exec
       \/ /\ Forget(c, "execStopped", then[c])
          /\ exec' = None
          /\ UNCHANGED mediator
    /\ UNCHANGED <<acp, boot, lost>>

\* restart needs the options of an earlier spawn; without, a caller does the same
\* by a shutdown and a spawn.
Shutdown(c) == BeginShutdown(c, "idle", "idle")
Restart(c) == BeginShutdown(c, "idle", "respawn")

\* A sweep of reapIdle comes to this agent.  The lease may have been touched since
\* the sweep made its list, and the idle timeout runs during an ask.
Reap(c) == leased /\ BeginShutdown(c, "idle", "drop")

\* The finally block of cleanup deletes whatever lease the agent has now.
Drop(c) ==
    /\ Move(c, "drop", "idle", None)
    /\ leased' = FALSE
    /\ UNCHANGED <<record, mediator, exec, handle, pending, proc, acp, boot, then, lost>>

\* An agent that is in neither map is marked, also one whose adapter is booting.
HealthCheck ==
    /\ record \notin {"none", "error"} /\ mediator = None /\ exec = None
    /\ record' = "error"
    /\ UNCHANGED <<mediator, exec, handle, pending, leased, proc, acp, boot, pc, mine, then,
                   lost>>

\* A provider process ends by itself; nothing of the above is told.
Exit(r) ==
    /\ proc[r] = "alive"
    /\ proc' = [proc EXCEPT ![r] = "exited"]
    /\ UNCHANGED <<maps, acp, boot, pc, mine, then, lost>>

Step(c) == \/ Spawn(c, "idle") \/ Spawn(c, "respawn")
           \/ BootDone(c) \/ BootFails(c) \/ Settle(c) \/ Joined(c)
           \/ Ask(c) \/ Answered(c) \/ AskFails(c)
           \/ Shutdown(c) \/ Restart(c) \/ Reap(c) \/ EndShutdown(c) \/ Drop(c)

Next == (\E c \in Call : Step(c)) \/ HealthCheck
        \/ (\E r \in Runtime : SessionUp(r) \/ Exit(r))

Spec == Init /\ [][Next]_vars

-----------------------------------------------------------------------------
Live == {r \in Runtime : proc[r] = "alive"}
P == INSTANCE Mutex WITH Task <- Runtime, inside <- Live, broken <- (lost # {})

(* However many callers spawn the agent, they share one boot, until a      *)
(* shutdown and a boot have been under way together.                       *)
OneBoot ==
    "overlap" \notin lost =>
        \A c, d \in Call : pc[c] = "boot" /\ pc[d] = "boot" => c = d

(* The daemon's document has the supervisor reuse an existing runtime if    *)
(* healthy, and otherwise spawn one: one provider process of the agent      *)
(* lives at a time, until a boot has failed and left its process, an agent  *)
(* in error was spawned again while its process lived, or a shutdown and a  *)
(* boot have overlapped.                                                    *)
ImplementsSingleProvider == P!MutexSpec

(* An agent that is not in the registry has nothing left: no map, no lease *)
(* and no process, until something has happened that loses one.            *)
GoneMeansGone ==
    record = "none" /\ lost = {} /\ ~Busy(Stopping) =>
        /\ {mediator, exec, handle, pending} = {None}
        /\ ~leased
        /\ Live = {}

(* Except while a shutdown is under way, spawn and ask never find a handle *)
(* whose provider the manager has stopped, whatever overlapped before,     *)
(* until a shutdown has stopped a provider between its session and the end *)
(* of its boot (acp-mediator.ts:126-135): that boot returns a handle.      *)
NoStoppedHandle ==
    handle # None /\ ~Busy(Stopping) /\ proc[handle] = "stopped" => "cut" \in lost

(* A caller of spawn that joined a boot waits for one that some call is     *)
(* carrying out or that has settled: no shutdown, failure or second boot    *)
(* leaves it with a promise nobody holds.                                   *)
JoinedBootIsRun ==
    \A c \in Call : pc[c] = "join" =>
        \/ boot[mine[c]] = "settled"
        \/ \E d \in Call : pc[d] = "boot" /\ mine[d] = mine[c]
=============================================================================
