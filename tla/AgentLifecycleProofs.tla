------------------------ MODULE AgentLifecycleProofs ------------------------
(***************************************************************************)
(* Proofs about module AgentLifecycle, for any set of calls and any number *)
(* of boots.                                                               *)
(***************************************************************************)
EXTENDS AgentLifecycle, TLAPS

AtBoot(c) == pc[c] \in {"boot", "settle"}

BootsKnown ==
    /\ \A r \in Runtime : boot[r] # "none" => proc[r] # "unused"
    /\ \A c \in Call : pc[c] = "boot" => proc[mine[c]] # "unused"

\* The boot of r has settled, or some call carries it out.
Held(r) == boot[r] = "settled" \/ \E d \in Call : pc[d] = "boot" /\ mine[d] = r

PendingHeld == pending # None => Held(pending)

\* A call that boots is the only one and owns the pending spawn; no shutdown is
\* under way.
OneOwner ==
    "overlap" \notin lost =>
        \A c \in Call : AtBoot(c) =>
            /\ pending # None
            /\ pc[c] = "boot" => pending = mine[c]
            /\ ~Busy(Stopping)
            /\ \A d \in Call : AtBoot(d) => d = c

\* A process that lives is the only one, and in a map or being booted; what a
\* shutdown has stopped is gone, and nothing has taken its place.
Alone ==
    /\ \A r \in Live : r = mediator \/ r = exec \/ \E c \in Call : pc[c] = "boot" /\ mine[c] = r
    /\ \A q, r \in Live : q = r
    /\ \A c \in Call : pc[c] = "boot" => Live \subseteq {mine[c]}
    /\ \A c \in Call : pc[c] = "boot" /\ mine[c] \in acp => mediator = mine[c]
    /\ \A c \in Call : pc[c] = "mediatorStopped" => ~Alive(mediator)
    /\ \A c \in Call : pc[c] = "execStopped" => mediator = None /\ ~Alive(exec)

AloneInv == lost = {} => Alone

Waiting == {"boot", "join", "ask"}
CallsOK ==
    /\ pc \in [Call -> PCs]
    /\ mine \in [Call -> Runtime \cup {None}]
    /\ \A c \in Call : pc[c] \in Waiting <=> mine[c] # None

LEMMA MoveKeepsCalls ==
    ASSUME CallsOK, NEW c \in Call, NEW here, NEW there \in PCs, NEW r \in Runtime \cup {None},
           Move(c, here, there, r), there \in Waiting <=> r # None
    PROVE  CallsOK'
<1>1. pc' \in [Call -> PCs] /\ mine' \in [Call -> Runtime \cup {None}]
  BY DEF CallsOK, Move
<1>2. \A d \in Call : pc'[d] = (IF d = c THEN there ELSE pc[d])
  BY DEF CallsOK, Move
<1>3. \A d \in Call : mine'[d] = (IF d = c THEN r ELSE mine[d])
  BY DEF CallsOK, Move
<1> QED
  BY <1>1, <1>2, <1>3 DEF CallsOK

MapsOK ==
    /\ record \in Statuses
    /\ mediator \in Runtime \cup {None}
    /\ exec \in Runtime \cup {None}
    /\ handle \in Runtime \cup {None}
    /\ pending \in Runtime \cup {None}
    /\ leased \in BOOLEAN
    /\ proc \in [Runtime -> {"unused", "alive", "exited", "stopped"}]
    /\ acp \subseteq Runtime
    /\ boot \in [Runtime -> {"none", "pending", "answered", "settled"}]
    /\ then \in [Call -> Thens]
    /\ lost \subseteq {"overlap", "stray", "cut"}

LEMMA TypeSplit == TypeOK <=> MapsOK /\ CallsOK
  BY DEF TypeOK, MapsOK, CallsOK, Waiting

LEMMA TypeStep == TypeOK /\ [Next]_vars => TypeOK'
<1> SUFFICES ASSUME MapsOK, CallsOK, [Next]_vars PROVE MapsOK' /\ CallsOK'
  BY TypeSplit, PTL
<1>0. None \notin Runtime
  BY AgentAssumption DEF Runtime
<1>p. /\ {"idle", "boot", "settle", "join", "ask", "respawn", "drop"} \subseteq PCs
      /\ {"mediatorStopped", "execStopped"} \subseteq PCs
      /\ Thens \subseteq PCs \ Waiting
  BY DEF PCs, Thens, Stopping, Waiting
<1>m. \A c \in Call : pc[c] \in Waiting => mine[c] \in Runtime
  BY DEF CallsOK
<1>1. ASSUME NEW c \in Call, NEW from \in {"idle", "respawn"}, NEW r \in Runtime,
             SpawnInternal(c, from, r)
      PROVE MapsOK' /\ CallsOK'
  <2>1. CallsOK'
    BY <1>0, <1>1, <1>p, MoveKeepsCalls DEF SpawnInternal, Start, Waiting
  <2>2. MapsOK'
    BY <1>1 DEF SpawnInternal, Start, Note, MapsOK, Statuses
  <2> QED
    BY <2>1, <2>2
<1>2. ASSUME NEW c \in Call, NEW from \in {"idle", "respawn"},
             SpawnKnown(c, from) \/ SpawnJoin(c, from) \/ SpawnRefused(c, from)
      PROVE MapsOK' /\ CallsOK'
  <2>1. CallsOK'
    BY <1>0, <1>2, <1>p, MoveKeepsCalls
       DEF SpawnKnown, SpawnJoin, SpawnRefused, MapsOK, Waiting
  <2>2. MapsOK'
    BY <1>2 DEF SpawnKnown, SpawnJoin, SpawnRefused, maps, MapsOK, Statuses
  <2> QED
    BY <2>1, <2>2
<1>3. ASSUME NEW c \in Call, BootDone(c) PROVE MapsOK' /\ CallsOK'
  <2>1. CallsOK'
    BY <1>0, <1>3, <1>p, MoveKeepsCalls DEF BootDone, Waiting
  <2>2. mine[c] \in Runtime
    BY <1>3, <1>m DEF BootDone, Move, Waiting
  <2>3. MapsOK'
    BY <1>3, <2>2 DEF BootDone, Status, MapsOK, Statuses
  <2> QED
    BY <2>1, <2>3
<1>4. ASSUME NEW c \in Call, BootFails(c) PROVE MapsOK' /\ CallsOK'
  <2>1. CallsOK'
    BY <1>0, <1>4, <1>p, MoveKeepsCalls DEF BootFails, Waiting
  <2>2. mine[c] \in Runtime
    BY <1>4, <1>m DEF BootFails, Move, Waiting
  <2>3. MapsOK'
    BY <1>4, <2>2 DEF BootFails, Status, Note, MapsOK, Statuses
  <2> QED
    BY <2>1, <2>3
<1>5. ASSUME NEW c \in Call, Settle(c) \/ Joined(c) \/ Drop(c) PROVE MapsOK' /\ CallsOK'
  <2>1. CallsOK'
    BY <1>0, <1>5, <1>p, MoveKeepsCalls DEF Settle, Joined, Drop, Waiting
  <2>2. MapsOK'
    BY <1>5 DEF Settle, Joined, Drop, maps, MapsOK
  <2> QED
    BY <2>1, <2>2
<1>6. ASSUME NEW c \in Call, Ask(c) \/ Answered(c) \/ AskFails(c)
      PROVE MapsOK' /\ CallsOK'
  <2>1. CallsOK'
    BY <1>0, <1>6, <1>p, MoveKeepsCalls DEF Ask, Answered, AskFails, MapsOK, Waiting
  <2>2. MapsOK'
    BY <1>6 DEF Ask, Answered, AskFails, Status, MapsOK, Statuses
  <2> QED
    BY <2>1, <2>2
<1>7. ASSUME NEW c \in Call, NEW t \in Thens, BeginShutdown(c, "idle", t)
      PROVE MapsOK' /\ CallsOK'
  <2>1. CallsOK'
    BY <1>0, <1>7, <1>p, MoveKeepsCalls DEF BeginShutdown, StopExec, Forget, Waiting
  <2>2. MapsOK'
    BY <1>7 DEF BeginShutdown, StopExec, Forget, Kill, Note, maps, MapsOK, Statuses, Thens
  <2> QED
    BY <2>1, <2>2
<1>8. ASSUME NEW c \in Call, EndShutdown(c) PROVE MapsOK' /\ CallsOK'
  <2>0. then[c] \in Thens
    BY DEF MapsOK
  <2>1. CallsOK'
    BY <1>0, <1>8, <1>p, <2>0, MoveKeepsCalls DEF EndShutdown, StopExec, Forget, Waiting
  <2>2. MapsOK'
    BY <1>8, <2>0 DEF EndShutdown, StopExec, Forget, Kill, MapsOK, Statuses, Thens
  <2> QED
    BY <2>1, <2>2
<1>9. CASE HealthCheck \/ \E r \in Runtime : SessionUp(r) \/ Exit(r)
  <2>1. CallsOK'
    BY <1>9 DEF HealthCheck, SessionUp, Exit, CallsOK
  <2>2. MapsOK'
    BY <1>9 DEF HealthCheck, SessionUp, Exit, maps, MapsOK, Statuses
  <2> QED
    BY <2>1, <2>2
<1>10. CASE UNCHANGED vars
  BY <1>10 DEF vars, maps, MapsOK, CallsOK
<1> QED
  BY <1>1, <1>2, <1>3, <1>4, <1>5, <1>6, <1>7, <1>8, <1>9, <1>10
     DEF Next, Step, Spawn, Shutdown, Restart, Reap, Thens

-----------------------------------------------------------------------------
LEMMA MoveResult ==
    ASSUME TypeOK, NEW c \in Call, NEW here, NEW there, NEW r, Move(c, here, there, r)
    PROVE  /\ pc[c] = here
           /\ \A d \in Call : pc'[d] = IF d = c THEN there ELSE pc[d]
           /\ \A d \in Call : mine'[d] = IF d = c THEN r ELSE mine[d]
  BY DEF TypeOK, Move

Quiet == PCs \ Stopping

LEMMA QuietPCs ==
    {"idle", "boot", "settle", "join", "ask", "respawn", "drop"} \subseteq Quiet
  BY DEF Quiet, PCs, Stopping

LEMMA QuietMove ==
    ASSUME TypeOK, NEW c \in Call, NEW here \in Quiet, NEW there \in Quiet, NEW r,
           Move(c, here, there, r)
    PROVE  Busy(Stopping)' <=> Busy(Stopping)
  BY MoveResult DEF Busy, Quiet

\* The steps that neither begin nor end a shutdown.
QuietStep(c) ==
    \/ \E from \in {"idle", "respawn"} : Spawn(c, from)
    \/ BootDone(c) \/ BootFails(c) \/ Settle(c) \/ Joined(c) \/ Drop(c)
    \/ Ask(c) \/ Answered(c) \/ AskFails(c)

LEMMA QuietStepKeepsBusy ==
    ASSUME TypeOK, NEW c \in Call, QuietStep(c)
    PROVE  Busy(Stopping)' <=> Busy(Stopping)
<1>1. ASSUME NEW from \in {"idle", "respawn"}, Spawn(c, from)
      PROVE Busy(Stopping)' <=> Busy(Stopping)
  <2>1. PICK there, r : there \in {"idle", "join", "boot"} /\ Move(c, from, there, r)
    <3>1. CASE SpawnKnown(c, from) \/ SpawnJoin(c, from) \/ SpawnRefused(c, from)
      BY <3>1 DEF SpawnKnown, SpawnJoin, SpawnRefused
    <3>2. CASE \E r \in Runtime : SpawnInternal(c, from, r)
      BY <3>2 DEF SpawnInternal, Start
    <3> QED
      BY <1>1, <3>1, <3>2 DEF Spawn
  <2> QED
    BY <2>1, QuietMove, QuietPCs
<1>2. CASE BootDone(c) \/ BootFails(c)
  BY <1>2, QuietMove, QuietPCs DEF BootDone, BootFails
<1>3. CASE Settle(c) \/ Joined(c) \/ Drop(c)
  BY <1>3, QuietMove, QuietPCs DEF Settle, Joined, Drop
<1>4. CASE Ask(c) \/ Answered(c) \/ AskFails(c)
  BY <1>4, QuietMove, QuietPCs DEF Ask, Answered, AskFails
<1> QED
  BY <1>1, <1>2, <1>3, <1>4 DEF QuietStep

\* A shutdown stops a process and waits, or has nothing left to stop and forgets.
Stops(c) ==
    /\ \E s \in Stopping : Move(c, pc[c], s, None)
    /\ \E r \in Runtime : Kill(r)
    /\ UNCHANGED <<record, handle, pending, leased>>

Forgets(c) ==
    /\ \E t \in Thens : Move(c, pc[c], t, None)
    /\ record' = "none" /\ handle' = None /\ pending' = None /\ leased' = FALSE
    /\ UNCHANGED proc

ShutdownStep(c) ==
    /\ pc[c] \in Stopping \cup {"idle"}
    /\ Stops(c) \/ Forgets(c)
    /\ UNCHANGED <<acp, boot>>

LEMMA BeginShape ==
    ASSUME TypeOK, NEW c \in Call, NEW t \in Thens, BeginShutdown(c, "idle", t)
    PROVE  ShutdownStep(c)
<1>1. pc[c] = "idle"
  BY DEF BeginShutdown, StopExec, Forget, Move
<1>2. /\ mediator # None => mediator \in Runtime
      /\ exec # None => exec \in Runtime
  BY DEF TypeOK
<1> QED
  BY <1>1, <1>2
     DEF BeginShutdown, StopExec, Forget, ShutdownStep, Stops, Forgets, Stopping, maps

LEMMA EndShape ==
    ASSUME TypeOK, NEW c \in Call, EndShutdown(c)
    PROVE  ShutdownStep(c)
<1>1. then[c] \in Thens
  BY DEF TypeOK
<1>2. pc[c] \in Stopping
  BY DEF EndShutdown, StopExec, Forget, Move, Stopping
<1>3. exec # None => exec \in Runtime
  BY DEF TypeOK
<1>4. CASE StopExec(c, "mediatorStopped", then[c])
  <2>1. pc[c] = "mediatorStopped"
    BY <1>4 DEF StopExec, Forget, Move
  <2> QED
    BY <1>1, <1>3, <1>4, <2>1
       DEF EndShutdown, StopExec, Forget, ShutdownStep, Stops, Forgets, Stopping, Kill
<1>5. CASE Forget(c, "execStopped", then[c])
  <2>1. pc[c] = "execStopped"
    BY <1>5 DEF Forget, Move
  <2> QED
    BY <1>1, <1>5, <2>1 DEF EndShutdown, Forget, ShutdownStep, Forgets, Stopping
<1> QED
  BY <1>4, <1>5 DEF EndShutdown

-----------------------------------------------------------------------------
\* What every step but the end of a boot does: boots go on, settled ones stay so.
BootsGoOn ==
    /\ \A r \in Runtime : boot[r] = "settled" => boot'[r] = "settled"
    /\ \A d \in Call : pc[d] = "boot" => pc'[d] = "boot" /\ mine'[d] = mine[d]

BootEnds(c) ==
    /\ pc[c] = "boot" /\ mine[c] \in Runtime
    /\ \A r \in Runtime : boot'[r] = IF r = mine[c] THEN "settled" ELSE boot[r]
    /\ \A d \in Call : d # c => pc'[d] = pc[d] /\ mine'[d] = mine[d]

LEMMA BootSteps ==
    ASSUME TypeOK, BootsKnown, [Next]_vars
    PROVE  BootsGoOn \/ \E c \in Call : BootEnds(c)
<1>1. ASSUME NEW c \in Call, NEW from \in {"idle", "respawn"}, Spawn(c, from)
      PROVE BootsGoOn
  <2>1. CASE SpawnKnown(c, from) \/ SpawnJoin(c, from) \/ SpawnRefused(c, from)
    BY <2>1, MoveResult DEF SpawnKnown, SpawnJoin, SpawnRefused, BootsGoOn
  <2>2. ASSUME NEW r \in Runtime, SpawnInternal(c, from, r) PROVE BootsGoOn
    <3>1. \A d \in Call : pc[d] = "boot" => pc'[d] = "boot" /\ mine'[d] = mine[d]
      BY <2>2, MoveResult DEF SpawnInternal, Start
    <3>2. boot[r] = "none"
      BY <2>2 DEF SpawnInternal, Start, BootsKnown
    <3>3. \A q \in Runtime : boot[q] = "settled" => boot'[q] = "settled"
      BY <2>2, <3>2 DEF SpawnInternal, Start, TypeOK
    <3> QED
      BY <3>1, <3>3 DEF BootsGoOn
  <2> QED
    BY <1>1, <2>1, <2>2 DEF Spawn
<1>2. ASSUME NEW c \in Call, BootDone(c) \/ BootFails(c) PROVE BootEnds(c)
  <2>1. Move(c, "boot", "settle", None)
    BY <1>2 DEF BootDone, BootFails
  <2>2. pc[c] = "boot" /\ mine[c] \in Runtime
    BY <2>1 DEF Move, TypeOK
  <2>3. \A r \in Runtime : boot'[r] = IF r = mine[c] THEN "settled" ELSE boot[r]
    BY <1>2, <2>2 DEF BootDone, BootFails, TypeOK
  <2> QED
    BY <2>1, <2>2, <2>3, MoveResult DEF BootEnds
<1>3. ASSUME NEW c \in Call, Settle(c) \/ Joined(c) \/ Drop(c) PROVE BootsGoOn
  BY <1>3, MoveResult DEF Settle, Joined, Drop, BootsGoOn
<1>4. ASSUME NEW c \in Call, Ask(c) \/ Answered(c) \/ AskFails(c) PROVE BootsGoOn
  BY <1>4, MoveResult DEF Ask, Answered, AskFails, BootsGoOn
<1>5. ASSUME NEW c \in Call, ShutdownStep(c) PROVE BootsGoOn
  <2>1. pc[c] # "boot"
    BY <1>5 DEF ShutdownStep, Stopping
  <2>2. PICK there : Move(c, pc[c], there, None)
    BY <1>5 DEF ShutdownStep, Stops, Forgets
  <2> QED
    BY <1>5, <2>1, <2>2, MoveResult DEF ShutdownStep, BootsGoOn
<1>6. CASE HealthCheck \/ \E r \in Runtime : SessionUp(r) \/ Exit(r)
  BY <1>6 DEF HealthCheck, SessionUp, Exit, BootsGoOn, TypeOK
<1>7. CASE UNCHANGED vars
  BY <1>7 DEF vars, BootsGoOn
<1> QED
  BY <1>1, <1>2, <1>3, <1>4, <1>5, <1>6, <1>7, BeginShape, EndShape
     DEF Next, Step, Shutdown, Restart, Reap, Thens

LEMMA HeldStep ==
    ASSUME TypeOK, BootsKnown, [Next]_vars, NEW r \in Runtime, Held(r)
    PROVE  Held(r)'
<1>1. CASE BootsGoOn
  BY <1>1 DEF BootsGoOn, Held
<1>2. ASSUME NEW c \in Call, BootEnds(c) PROVE Held(r)'
  BY <1>2 DEF BootEnds, Held
<1> QED
  BY <1>1, <1>2, BootSteps

LEMMA BootsKnownStep == TypeOK /\ BootsKnown /\ [Next]_vars => BootsKnown'
<1> SUFFICES ASSUME TypeOK, BootsKnown, [Next]_vars PROVE BootsKnown'
  OBVIOUS
<1>m. \A c \in Call : pc[c] = "boot" => mine[c] \in Runtime
  BY DEF TypeOK
<1>1. ASSUME NEW c \in Call, NEW from \in {"idle", "respawn"}, NEW r \in Runtime,
             SpawnInternal(c, from, r)
      PROVE BootsKnown'
  <2>1. /\ \A d \in Call : pc'[d] = IF d = c THEN "boot" ELSE pc[d]
        /\ \A d \in Call : mine'[d] = IF d = c THEN r ELSE mine[d]
    BY <1>1, MoveResult DEF SpawnInternal, Start
  <2>2. /\ \A q \in Runtime : proc'[q] = IF q = r THEN "alive" ELSE proc[q]
        /\ \A q \in Runtime : boot'[q] = IF q = r THEN "pending" ELSE boot[q]
    BY <1>1 DEF SpawnInternal, Start, TypeOK
  <2> QED
    BY <1>m, <2>1, <2>2 DEF BootsKnown
<1>2. ASSUME NEW c \in Call, BootDone(c) \/ BootFails(c) PROVE BootsKnown'
  <2>1. Move(c, "boot", "settle", None) /\ proc' = proc
    BY <1>2 DEF BootDone, BootFails
  <2>2. /\ pc[c] = "boot"
        /\ \A d \in Call : pc'[d] = IF d = c THEN "settle" ELSE pc[d]
        /\ \A d \in Call : mine'[d] = IF d = c THEN None ELSE mine[d]
    BY <2>1, MoveResult
  <2>3. \A r \in Runtime : boot'[r] = IF r = mine[c] THEN "settled" ELSE boot[r]
    BY <1>2, <2>2, <1>m DEF BootDone, BootFails, TypeOK
  <2> QED
    BY <1>m, <2>1, <2>2, <2>3 DEF BootsKnown
<1>3. ASSUME boot' = boot,
             \A r \in Runtime : proc[r] # "unused" => proc'[r] # "unused",
             \A d \in Call : pc'[d] = "boot" => pc[d] = "boot" /\ mine'[d] = mine[d]
      PROVE BootsKnown'
  BY <1>3, <1>m DEF BootsKnown
<1>4. ASSUME NEW c \in Call, NEW from \in {"idle", "respawn"},
             SpawnKnown(c, from) \/ SpawnJoin(c, from) \/ SpawnRefused(c, from)
      PROVE BootsKnown'
  BY <1>3, <1>4, MoveResult DEF SpawnKnown, SpawnJoin, SpawnRefused
<1>5. ASSUME NEW c \in Call, Settle(c) \/ Joined(c) \/ Drop(c) PROVE BootsKnown'
  BY <1>3, <1>5, MoveResult DEF Settle, Joined, Drop
<1>6. ASSUME NEW c \in Call, Ask(c) \/ Answered(c) \/ AskFails(c) PROVE BootsKnown'
  BY <1>3, <1>6, MoveResult DEF Ask, Answered, AskFails
<1>7. ASSUME NEW c \in Call, ShutdownStep(c) PROVE BootsKnown'
  <2>1. PICK there \in Stopping \cup Thens : Move(c, pc[c], there, None)
    BY <1>7 DEF ShutdownStep, Stops, Forgets
  <2>2. there # "boot"
    BY DEF Stopping, Thens
  <2>3. \A r \in Runtime : proc[r] # "unused" => proc'[r] # "unused"
    BY <1>7 DEF ShutdownStep, Stops, Forgets, Kill, TypeOK
  <2> QED
    BY <1>3, <1>7, <2>1, <2>2, <2>3, MoveResult DEF ShutdownStep
<1>8. CASE HealthCheck \/ \E r \in Runtime : Exit(r)
  BY <1>3, <1>8 DEF HealthCheck, Exit, TypeOK
<1>10. ASSUME NEW r \in Runtime, SessionUp(r) PROVE BootsKnown'
  BY <1>10 DEF SessionUp, BootsKnown, TypeOK
<1>9. CASE UNCHANGED vars
  BY <1>3, <1>9 DEF vars
<1> QED
  BY <1>1, <1>2, <1>4, <1>5, <1>6, <1>7, <1>8, <1>9, <1>10, BeginShape, EndShape
     DEF Next, Step, Spawn, Shutdown, Restart, Reap, Thens

\* A promise comes into the map with its boot, and into a call from the map.
Waited(c) == pc[c] = "join" => Held(mine[c])
PromiseInv == PendingHeld /\ \A c \in Call : Waited(c)

LEMMA PromiseStep ==
    TypeOK /\ BootsKnown /\ PromiseInv /\ [Next]_vars => PromiseInv'
<1> SUFFICES ASSUME TypeOK, BootsKnown, PromiseInv, [Next]_vars PROVE PromiseInv'
  OBVIOUS
<1>h. \A r \in Runtime : Held(r) => Held(r)'
  BY HeldStep
<1>t. /\ pending \in Runtime \cup {None}
      /\ \A c \in Call : pc[c] = "join" => mine[c] \in Runtime
  BY DEF TypeOK
<1>1. ASSUME NEW c \in Call, NEW from \in {"idle", "respawn"}, NEW r \in Runtime,
             SpawnInternal(c, from, r)
      PROVE PromiseInv'
  <2>1. /\ \A d \in Call : pc'[d] = IF d = c THEN "boot" ELSE pc[d]
        /\ \A d \in Call : mine'[d] = IF d = c THEN r ELSE mine[d]
        /\ pending' = r
    BY <1>1, MoveResult DEF SpawnInternal, Start
  <2>2. Held(r)'
    BY <2>1 DEF Held
  <2> QED
    BY <1>h, <1>t, <2>1, <2>2 DEF PromiseInv, PendingHeld, Waited
<1>2. ASSUME NEW c \in Call, NEW from \in {"idle", "respawn"}, SpawnJoin(c, from)
      PROVE PromiseInv'
  <2>1. /\ \A d \in Call : pc'[d] = IF d = c THEN "join" ELSE pc[d]
        /\ \A d \in Call : mine'[d] = IF d = c THEN pending ELSE mine[d]
        /\ pending' = pending /\ pending # None
    BY <1>2, MoveResult DEF SpawnJoin, maps
  <2> QED
    BY <1>h, <1>t, <2>1 DEF PromiseInv, PendingHeld, Waited
<1>3. ASSUME pending' \in {pending, None},
             \A d \in Call : pc'[d] = "join" => pc[d] = "join" /\ mine'[d] = mine[d]
      PROVE PromiseInv'
  BY <1>h, <1>t, <1>3 DEF PromiseInv, PendingHeld, Waited
<1>4. ASSUME NEW c \in Call, NEW from \in {"idle", "respawn"},
             SpawnKnown(c, from) \/ SpawnRefused(c, from)
      PROVE PromiseInv'
  BY <1>3, <1>4, MoveResult DEF SpawnKnown, SpawnRefused, maps
<1>5. ASSUME NEW c \in Call, BootDone(c) \/ BootFails(c) PROVE PromiseInv'
  <2>1. Move(c, "boot", "settle", None) /\ pending' = pending
    BY <1>5 DEF BootDone, BootFails
  <2> QED
    BY <1>3, <2>1, MoveResult
<1>6. ASSUME NEW c \in Call, Settle(c) \/ Joined(c) \/ Drop(c) PROVE PromiseInv'
  BY <1>3, <1>6, MoveResult DEF Settle, Joined, Drop, maps
<1>7. ASSUME NEW c \in Call, Ask(c) \/ Answered(c) \/ AskFails(c) PROVE PromiseInv'
  BY <1>3, <1>7, MoveResult DEF Ask, Answered, AskFails
<1>8. ASSUME NEW c \in Call, ShutdownStep(c) PROVE PromiseInv'
  <2>1. pending' \in {pending, None}
    BY <1>8 DEF ShutdownStep, Stops, Forgets
  <2>2. PICK there \in Stopping \cup Thens : Move(c, pc[c], there, None)
    BY <1>8 DEF ShutdownStep, Stops, Forgets
  <2>3. there # "join"
    BY DEF Stopping, Thens
  <2> QED
    BY <1>3, <2>1, <2>2, <2>3, MoveResult
<1>9. CASE HealthCheck \/ \E r \in Runtime : SessionUp(r) \/ Exit(r)
  BY <1>3, <1>9 DEF HealthCheck, SessionUp, Exit, maps
<1>10. CASE UNCHANGED vars
  BY <1>3, <1>10 DEF vars, maps
<1> QED
  BY <1>1, <1>2, <1>4, <1>5, <1>6, <1>7, <1>8, <1>9, <1>10, BeginShape, EndShape
     DEF Next, Step, Spawn, Shutdown, Restart, Reap, Thens

-----------------------------------------------------------------------------
LEMMA NextCases ==
    ASSUME TypeOK, [Next]_vars
    PROVE  \/ \E c \in Call : QuietStep(c)
           \/ \E c \in Call, t \in Thens : BeginShutdown(c, "idle", t)
           \/ \E c \in Call : EndShutdown(c)
           \/ HealthCheck
           \/ \E r \in Runtime : SessionUp(r) \/ Exit(r)
           \/ UNCHANGED vars
  BY DEF Next, Step, QuietStep, Shutdown, Restart, Reap, Thens

LEMMA LostGrows == ASSUME TypeOK, [Next]_vars PROVE lost \subseteq lost'
<1>1. ASSUME NEW c \in Call, QuietStep(c) PROVE lost \subseteq lost'
  BY <1>1 DEF QuietStep, Spawn, SpawnKnown, SpawnJoin, SpawnRefused, SpawnInternal, Start,
              BootDone, BootFails, Settle, Joined, Drop, Ask, Answered, AskFails, Note
<1>2. ASSUME NEW c \in Call, NEW t \in Thens, BeginShutdown(c, "idle", t)
      PROVE lost \subseteq lost'
  BY <1>2 DEF BeginShutdown, Note
<1> QED
  BY <1>1, <1>2, NextCases DEF EndShutdown, HealthCheck, SessionUp, Exit, vars

\* A step after which no call boots, and one that leaves the booting call alone.
NobodyBoots == \A d \in Call : ~AtBoot(d)
BootsAsBefore ==
    /\ pending' = pending
    /\ Busy(Stopping)' <=> Busy(Stopping)
    /\ \A d \in Call : AtBoot(d)' => AtBoot(d) /\ (pc'[d] = "boot" => mine'[d] = mine[d])
    /\ \A d \in Call : pc'[d] = "boot" => pc[d] = "boot"

LEMMA ShutdownStepBoots ==
    ASSUME TypeOK, NEW c \in Call, ShutdownStep(c), NobodyBoots
    PROVE  NobodyBoots'
<1>1. PICK there \in Stopping \cup Thens : Move(c, pc[c], there, None)
  BY DEF ShutdownStep, Stops, Forgets
<1>2. there \notin {"boot", "settle"}
  BY DEF Stopping, Thens
<1> QED
  BY <1>1, <1>2, MoveResult DEF NobodyBoots, AtBoot

LEMMA OwnerStep == TypeOK /\ OneOwner /\ [Next]_vars => OneOwner'
<1> SUFFICES ASSUME TypeOK, OneOwner, [Next]_vars, "overlap" \notin lost' PROVE OneOwner'
  BY DEF OneOwner
<1>0. "overlap" \notin lost
  BY LostGrows
<1>1. ASSUME NobodyBoots' PROVE OneOwner'
  BY <1>1 DEF NobodyBoots, OneOwner
<1>2. ASSUME BootsAsBefore PROVE OneOwner'
  BY <1>0, <1>2 DEF BootsAsBefore, OneOwner
<1>3. ASSUME NEW c \in Call, NEW from \in {"idle", "respawn"}, NEW r \in Runtime,
             SpawnInternal(c, from, r)
      PROVE OneOwner'
  <2>1. /\ \A d \in Call : pc'[d] = IF d = c THEN "boot" ELSE pc[d]
        /\ \A d \in Call : mine'[d] = IF d = c THEN r ELSE mine[d]
        /\ pending' = r /\ pending = None
    BY <1>3, MoveResult DEF SpawnInternal, Start
  <2>2. \A d \in Call : ~AtBoot(d)
    BY <1>0, <2>1 DEF OneOwner
  <2>3. ~Busy(Stopping)
    BY <1>3 DEF SpawnInternal, Start, Note
  <2>4. ~Busy(Stopping)'
    BY <1>3, <2>3, QuietStepKeepsBusy DEF QuietStep, Spawn
  <2>5. r # None
    BY AgentAssumption DEF Runtime
  <2> QED
    BY <2>1, <2>2, <2>4, <2>5 DEF OneOwner, AtBoot
<1>4. ASSUME NEW c \in Call, NEW from \in {"idle", "respawn"},
             SpawnKnown(c, from) \/ SpawnJoin(c, from) \/ SpawnRefused(c, from)
      PROVE OneOwner'
  <2>1. Busy(Stopping)' <=> Busy(Stopping)
    BY <1>4, QuietStepKeepsBusy DEF QuietStep, Spawn
  <2> QED
    BY <1>2, <1>4, <2>1, MoveResult
       DEF SpawnKnown, SpawnJoin, SpawnRefused, maps, BootsAsBefore, AtBoot
<1>5. ASSUME NEW c \in Call, BootDone(c) \/ BootFails(c) PROVE OneOwner'
  <2>1. Busy(Stopping)' <=> Busy(Stopping)
    BY <1>5, QuietStepKeepsBusy DEF QuietStep
  <2>2. Move(c, "boot", "settle", None) /\ pending' = pending
    BY <1>5 DEF BootDone, BootFails
  <2> QED
    BY <1>2, <2>1, <2>2, MoveResult DEF BootsAsBefore, AtBoot
<1>6. ASSUME NEW c \in Call, Settle(c) PROVE OneOwner'
  <2>1. /\ \A d \in Call : pc'[d] = IF d = c THEN "idle" ELSE pc[d]
        /\ AtBoot(c)
    BY <1>6, MoveResult DEF Settle, AtBoot
  <2> QED
    BY <1>0, <1>1, <2>1 DEF NobodyBoots, OneOwner, AtBoot
<1>7. ASSUME NEW c \in Call, Joined(c) \/ Drop(c) \/ Ask(c) \/ Answered(c) \/ AskFails(c)
      PROVE OneOwner'
  <2>1. Busy(Stopping)' <=> Busy(Stopping)
    BY <1>7, QuietStepKeepsBusy DEF QuietStep
  <2> QED
    BY <1>2, <1>7, <2>1, MoveResult
       DEF Joined, Drop, Ask, Answered, AskFails, maps, BootsAsBefore, AtBoot
<1>8. ASSUME NEW c \in Call, NEW t \in Thens, BeginShutdown(c, "idle", t) PROVE OneOwner'
  <2>1. NobodyBoots
    BY <1>8 DEF BeginShutdown, Note, NobodyBoots, AtBoot, Busy
  <2> QED
    BY <1>1, <1>8, <2>1, BeginShape, ShutdownStepBoots
<1>9. ASSUME NEW c \in Call, EndShutdown(c) PROVE OneOwner'
  <2>1. pc[c] \in Stopping
    BY <1>9 DEF EndShutdown, StopExec, Forget, Move, Stopping
  <2>2. NobodyBoots
    BY <1>0, <2>1 DEF OneOwner, NobodyBoots, Busy
  <2> QED
    BY <1>1, <1>9, <2>2, EndShape, ShutdownStepBoots
<1>10. CASE HealthCheck \/ (\E r \in Runtime : SessionUp(r) \/ Exit(r)) \/ UNCHANGED vars
  BY <1>2, <1>10 DEF HealthCheck, SessionUp, Exit, vars, maps, BootsAsBefore, AtBoot, Busy
<1> QED
  BY <1>3, <1>4, <1>5, <1>6, <1>7, <1>8, <1>9, <1>10, NextCases DEF QuietStep, Spawn

-----------------------------------------------------------------------------
\* Nothing comes to life, no boot and no shutdown begins or ends.
LivesOn ==
    /\ UNCHANGED <<mediator, exec, acp>>
    /\ \A r \in Runtime : proc'[r] = "alive" => proc[r] = "alive"
    /\ \A d \in Call : pc[d] = "boot" <=> pc'[d] = "boot"
    /\ \A d \in Call : pc[d] = "boot" => mine'[d] = mine[d]
    /\ \A d \in Call : pc'[d] \in Stopping => pc'[d] = pc[d]

LEMMA Others ==
    ASSUME TypeOK, NEW c \in Call, NEW here, NEW there, NEW r, Move(c, here, there, r),
           here \notin {"boot"} \cup Stopping, there \notin {"boot"} \cup Stopping
    PROVE  /\ \A d \in Call : pc[d] = "boot" <=> pc'[d] = "boot"
           /\ \A d \in Call : pc[d] = "boot" => mine'[d] = mine[d]
           /\ \A d \in Call : pc'[d] \in Stopping => pc'[d] = pc[d]
  BY MoveResult

LEMMA LivesOnKeeps == ASSUME TypeOK, Alone, LivesOn PROVE Alone'
<1>1. Live' \subseteq Live
  BY DEF LivesOn, Live
<1>2. /\ mediator # None => mediator \in Runtime
      /\ exec # None => exec \in Runtime
  BY DEF TypeOK
<1>3. /\ Alive(mediator)' => Alive(mediator)
      /\ Alive(exec)' => Alive(exec)
  BY <1>2 DEF Alive, LivesOn
<1> QED
  BY <1>1, <1>3 DEF Alone, LivesOn, Stopping

LEMMA QuietLivesOn ==
    ASSUME TypeOK, NEW c \in Call,
           \/ \E from \in {"idle", "respawn"} :
                 SpawnKnown(c, from) \/ SpawnJoin(c, from) \/ SpawnRefused(c, from)
           \/ Settle(c) \/ Joined(c) \/ Drop(c) \/ Ask(c) \/ Answered(c) \/ AskFails(c)
    PROVE  LivesOn
<1>0. {"idle", "respawn", "join", "settle", "drop", "ask"} \cap ({"boot"} \cup Stopping) = {}
  BY DEF Stopping
<1>1. ASSUME NEW from \in {"idle", "respawn"},
             SpawnKnown(c, from) \/ SpawnJoin(c, from) \/ SpawnRefused(c, from)
      PROVE LivesOn
  <2>1. PICK there, r : there \in {"idle", "join"} /\ Move(c, from, there, r)
    BY <1>1 DEF SpawnKnown, SpawnJoin, SpawnRefused
  <2> QED
    BY <1>0, <1>1, <2>1, Others DEF SpawnKnown, SpawnJoin, SpawnRefused, maps, LivesOn
<1>2. CASE Settle(c) \/ Joined(c) \/ Drop(c)
  <2>1. PICK here \in {"settle", "join", "drop"} : Move(c, here, "idle", None)
    BY <1>2 DEF Settle, Joined, Drop
  <2> QED
    BY <1>0, <1>2, <2>1, Others DEF Settle, Joined, Drop, maps, LivesOn
<1>3. CASE Ask(c) \/ Answered(c) \/ AskFails(c)
  <2>1. PICK here, there, r : /\ here \in {"idle", "ask"} /\ there \in {"idle", "ask"}
                               /\ Move(c, here, there, r)
    BY <1>3 DEF Ask, Answered, AskFails
  <2> QED
    BY <1>0, <1>3, <2>1, Others DEF Ask, Answered, AskFails, LivesOn
<1> QED
  BY <1>1, <1>2, <1>3

LEMMA OtherLivesOn ==
    ASSUME TypeOK, HealthCheck \/ (\E r \in Runtime : SessionUp(r) \/ Exit(r)) \/ UNCHANGED vars
    PROVE  LivesOn
  BY DEF HealthCheck, SessionUp, Exit, vars, maps, LivesOn, TypeOK

\* The step of a spawn that starts a process while nothing has been lost.
LEMMA StartAlone ==
    ASSUME TypeOK, OneOwner, AloneInv, lost = {}, lost' = {},
           NEW c \in Call, NEW from \in {"idle", "respawn"}, NEW r \in Runtime,
           SpawnInternal(c, from, r)
    PROVE  Live = {} /\ Live' = {r} /\ Alone'
<1>1. /\ \A d \in Call : pc'[d] = IF d = c THEN "boot" ELSE pc[d]
      /\ \A d \in Call : mine'[d] = IF d = c THEN r ELSE mine[d]
      /\ pending = None
  BY MoveResult DEF SpawnInternal, Start
<1>2. \A d \in Call : ~AtBoot(d)
  BY <1>1 DEF OneOwner
<1>3. ~Busy(Stopping) /\ ~Alive(mediator) /\ ~Alive(exec)
  BY DEF SpawnInternal, Start, Note
<1>4. None \notin Runtime
  BY AgentAssumption DEF Runtime
<1>5. Live = {}
  <2>1. ASSUME NEW q \in Live PROVE FALSE
    <3>1. q = mediator \/ q = exec
      BY <1>2, <2>1 DEF AloneInv, Alone, AtBoot
    <3> QED
      BY <1>3, <1>4, <2>1, <3>1 DEF Alive, Live
  <2> QED
    BY <2>1
<1>6. \A q \in Runtime : proc'[q] = IF q = r THEN "alive" ELSE proc[q]
  BY DEF SpawnInternal, Start, TypeOK
<1>7. Live' = {r}
  BY <1>5, <1>6 DEF Live
<1>8. r \in acp' => mediator' = r
  BY DEF SpawnInternal, Start
<1>9. \A d \in Call : pc'[d] = "boot" => d = c
  BY <1>1, <1>2 DEF AtBoot
<1>10. \A d \in Call : pc'[d] \notin Stopping
  BY <1>1, <1>3 DEF Busy, Stopping
<1> QED
  BY <1>1, <1>5, <1>7, <1>8, <1>9, <1>10 DEF Alone, Stopping

LEMMA AloneStep ==
    TypeOK /\ OneOwner /\ AloneInv /\ [Next]_vars => AloneInv'
<1> SUFFICES ASSUME TypeOK, OneOwner, AloneInv, [Next]_vars, lost' = {} PROVE Alone'
  BY DEF AloneInv
<1>0. lost = {} /\ Alone
  BY LostGrows DEF AloneInv
<1>n. None \notin Runtime
  BY AgentAssumption DEF Runtime
<1>t. /\ mediator # None => mediator \in Runtime
      /\ exec # None => exec \in Runtime
      /\ proc \in [Runtime -> {"unused", "alive", "exited", "stopped"}]
      /\ \A d \in Call : pc[d] = "boot" => mine[d] \in Runtime
  BY DEF TypeOK
<1>1. ASSUME NEW c \in Call, NEW from \in {"idle", "respawn"}, NEW r \in Runtime,
             SpawnInternal(c, from, r)
      PROVE Alone'
  BY <1>0, <1>1, StartAlone
<1>2. ASSUME NEW c \in Call, BootDone(c) \/ BootFails(c)
      PROVE /\ \A d \in Call : pc'[d] # "boot" /\ pc'[d] \notin Stopping
            /\ \A d \in Call : pc[d] = "boot" => d = c
            /\ UNCHANGED <<proc, acp>>
  <2>1. Move(c, "boot", "settle", None)
    BY <1>2 DEF BootDone, BootFails
  <2>2. pc[c] = "boot" /\ \A d \in Call : pc'[d] = IF d = c THEN "settle" ELSE pc[d]
    BY <2>1, MoveResult
  <2>3. (\A d \in Call : AtBoot(d) => d = c) /\ ~Busy(Stopping)
    BY <1>0, <2>2 DEF OneOwner, AtBoot
  <2>4. UNCHANGED <<proc, acp>>
    BY <1>2 DEF BootDone, BootFails
  <2> QED
    BY <2>2, <2>3, <2>4 DEF AtBoot, Busy, Stopping
<1>3. ASSUME NEW c \in Call, BootDone(c) PROVE Alone'
  <2>1. pc[c] = "boot"
    BY <1>3 DEF BootDone, Move
  <2>2. \A r \in Live : r = mine[c]
    BY <1>0, <2>1 DEF Alone
  <2>3. mine[c] = mediator' \/ mine[c] = exec'
    BY <1>0, <1>3, <2>1 DEF BootDone, Alone
  <2>4. Live' = Live
    BY <1>2, <1>3 DEF Live
  <2> QED
    BY <1>2, <1>3, <2>2, <2>3, <2>4 DEF Alone, Stopping
<1>4. ASSUME NEW c \in Call, BootFails(c) PROVE Alone'
  <2>1. pc[c] = "boot"
    BY <1>4 DEF BootFails, Move
  <2>2. mine[c] \notin Live
    BY <1>4, <1>n, <1>t, <2>1 DEF BootFails, Note, Alive, Live
  <2>3. Live' = Live /\ exec' = exec
    BY <1>2, <1>4 DEF Live, BootFails
  <2>4. \A r \in Live : r = mediator' \/ r = exec
    BY <1>0, <1>2, <1>4, <2>1, <2>2 DEF Alone, BootFails
  <2> QED
    BY <1>0, <1>2, <1>4, <2>3, <2>4 DEF Alone, Stopping
<1>5. ASSUME NEW c \in Call, NEW t \in Thens, BeginShutdown(c, "idle", t) PROVE Alone'
  <2>1. NobodyBoots
    BY <1>5 DEF BeginShutdown, Note, NobodyBoots, AtBoot, Busy
  <2>2. NobodyBoots'
    BY <1>5, <2>1, BeginShape, ShutdownStepBoots
  <2>3. UNCHANGED <<mediator, exec, acp>>
    BY <1>5 DEF BeginShutdown, maps
  <2>4. CASE mediator # None /\ Kill(mediator) /\ Move(c, "idle", "mediatorStopped", None)
    <3>1. \A r \in Runtime : proc'[r] = IF r = mediator THEN "stopped" ELSE proc[r]
      BY <1>t, <2>4 DEF Kill
    <3>2. Live' \subseteq Live /\ ~Alive(mediator)' /\ (Alive(exec)' => Alive(exec))
      BY <1>t, <2>3, <2>4, <3>1 DEF Live, Alive
    <3>3. \A d \in Call : pc'[d] = IF d = c THEN "mediatorStopped" ELSE pc[d]
      BY <2>4, MoveResult
    <3> QED
      BY <1>0, <2>1, <2>2, <2>3, <3>2, <3>3 DEF Alone, NobodyBoots, AtBoot
  <2>5. CASE mediator = None /\ StopExec(c, "idle", t)
    <3>1. CASE exec # None /\ Kill(exec) /\ Move(c, "idle", "execStopped", None)
      <4>1. \A r \in Runtime : proc'[r] = IF r = exec THEN "stopped" ELSE proc[r]
        BY <1>t, <3>1 DEF Kill
      <4>2. Live' \subseteq Live /\ ~Alive(exec)' /\ ~Alive(mediator)'
        BY <1>t, <2>3, <2>5, <3>1, <4>1 DEF Live, Alive
      <4>3. \A d \in Call : pc'[d] = IF d = c THEN "execStopped" ELSE pc[d]
        BY <3>1, MoveResult
      <4> QED
        BY <1>0, <2>1, <2>2, <2>3, <2>5, <4>2, <4>3 DEF Alone, NobodyBoots, AtBoot
    <3>2. CASE Forget(c, "idle", t)
      <4>1. t \notin {"boot"} \cup Stopping /\ "idle" \notin {"boot"} \cup Stopping
        BY DEF Thens, Stopping
      <4>2. LivesOn
        BY <2>3, <3>2, <4>1, Others DEF Forget, LivesOn
      <4> QED
        BY <1>0, <4>2, LivesOnKeeps
    <3> QED
      BY <2>5, <3>1, <3>2 DEF StopExec
  <2> QED
    BY <1>5, <2>4, <2>5 DEF BeginShutdown
<1>6. ASSUME NEW c \in Call, EndShutdown(c) PROVE Alone'
  <2>1. pc[c] \in Stopping
    BY <1>6 DEF EndShutdown, StopExec, Forget, Move, Stopping
  <2>2. NobodyBoots
    BY <1>0, <2>1 DEF OneOwner, NobodyBoots, Busy
  <2>3. NobodyBoots' /\ acp' = acp
    BY <1>6, <2>2, EndShape, ShutdownStepBoots DEF EndShutdown
  <2>4. then[c] \notin Stopping
    BY DEF TypeOK, Thens, Stopping
  <2>5. CASE StopExec(c, "mediatorStopped", then[c]) /\ mediator' = None /\ exec' = exec
    <3>1. pc[c] = "mediatorStopped"
      BY <2>5 DEF StopExec, Forget, Move
    <3>2. ~Alive(mediator)
      BY <1>0, <3>1 DEF Alone
    <3>3. \A r \in Live : r = exec
      BY <1>0, <1>n, <2>2, <3>2 DEF Alone, NobodyBoots, AtBoot, Alive, Live
    <3>4. CASE exec # None /\ Kill(exec) /\ Move(c, "mediatorStopped", "execStopped", None)
      <4>1. \A r \in Runtime : proc'[r] = IF r = exec THEN "stopped" ELSE proc[r]
        BY <1>t, <3>4 DEF Kill
      <4>2. Live' \subseteq Live /\ ~Alive(exec)' /\ ~Alive(mediator)'
        BY <1>t, <2>5, <3>4, <4>1 DEF Live, Alive
      <4>3. \A d \in Call : pc'[d] = IF d = c THEN "execStopped" ELSE pc[d]
        BY <3>4, MoveResult
      <4> QED
        BY <1>0, <2>3, <2>5, <3>3, <4>2, <4>3 DEF Alone, NobodyBoots, AtBoot
    <3>5. CASE exec = None /\ Forget(c, "mediatorStopped", then[c])
      <4>1. Live' = Live
        BY <3>5 DEF Forget, Live
      <4>2. \A d \in Call : pc'[d] = IF d = c THEN then[c] ELSE pc[d]
        BY <3>5, MoveResult DEF Forget
      <4>3. ~Alive(mediator)' /\ ~Alive(exec)'
        BY <2>5, <3>5 DEF Alive
      <4> QED
        BY <1>0, <2>3, <2>4, <2>5, <3>3, <4>1, <4>2, <4>3
           DEF Alone, NobodyBoots, AtBoot, Stopping
    <3> QED
      BY <2>5, <3>4, <3>5 DEF StopExec
  <2>6. CASE Forget(c, "execStopped", then[c]) /\ exec' = None /\ mediator' = mediator
    <3>1. pc[c] = "execStopped"
      BY <2>6 DEF Forget, Move
    <3>2. mediator = None /\ ~Alive(exec)
      BY <1>0, <3>1 DEF Alone
    <3>3. Live = {}
      BY <1>0, <1>n, <2>2, <3>2 DEF Alone, NobodyBoots, AtBoot, Alive, Live
    <3>4. Live' = Live
      BY <2>6 DEF Forget, Live
    <3>5. \A d \in Call : pc'[d] = IF d = c THEN then[c] ELSE pc[d]
      BY <2>6, MoveResult DEF Forget
    <3>6. ~Alive(mediator)' /\ ~Alive(exec)'
      BY <2>6, <3>2 DEF Alive
    <3> QED
      BY <1>0, <2>3, <2>4, <2>6, <3>2, <3>3, <3>4, <3>5, <3>6
         DEF Alone, NobodyBoots, AtBoot, Stopping
  <2> QED
    BY <1>6, <2>5, <2>6 DEF EndShutdown
<1> QED
  BY <1>0, <1>1, <1>3, <1>4, <1>5, <1>6, NextCases, QuietLivesOn, OtherLivesOn, LivesOnKeeps
     DEF QuietStep, Spawn

-----------------------------------------------------------------------------
\* Once a shutdown has forgotten the agent, everything is gone.
LEMMA ForgetsAll ==
    ASSUME TypeOK, OneOwner, AloneInv, [Next]_vars, lost' = {}, Alone',
           NEW c \in Call, ShutdownStep(c), ~Busy(Stopping)',
           \/ \E t \in Thens : BeginShutdown(c, "idle", t)
           \/ EndShutdown(c)
    PROVE  {mediator, exec, handle, pending}' = {None} /\ ~leased' /\ Live' = {}
<1>0. lost = {} /\ Alone /\ None \notin Runtime
  BY LostGrows, AgentAssumption DEF AloneInv, Runtime
<1>1. ~Stops(c)
  <2>1. SUFFICES ASSUME NEW s \in Stopping, Move(c, pc[c], s, None) PROVE FALSE
    BY DEF Stops
  <2>2. pc'[c] \in Stopping
    BY <2>1, MoveResult
  <2> QED
    BY <2>2 DEF Busy
<1>2. handle' = None /\ pending' = None /\ ~leased' /\ proc' = proc
  BY <1>1 DEF ShutdownStep, Forgets
<1>3. NobodyBoots
  <2>1. CASE \E t \in Thens : BeginShutdown(c, "idle", t)
    BY <2>1 DEF BeginShutdown, Note, NobodyBoots, AtBoot, Busy
  <2>2. CASE EndShutdown(c)
    <3>1. pc[c] \in Stopping
      BY <2>2 DEF EndShutdown, StopExec, Forget, Move, Stopping
    <3> QED
      BY <1>0, <3>1 DEF OneOwner, NobodyBoots, Busy
  <2> QED
    BY <2>1, <2>2
<1>4. mediator' = None /\ exec' = None
  <2>1. ASSUME NEW s \in Stopping, NEW from PROVE ~Move(c, from, s, None)
    <3>1. ASSUME Move(c, from, s, None) PROVE FALSE
      <4>1. pc'[c] \in Stopping
        BY <3>1, MoveResult
      <4> QED
        BY <4>1 DEF Busy
    <3> QED
      BY <3>1
  <2>2. ASSUME NEW t \in Thens, BeginShutdown(c, "idle", t)
        PROVE  mediator' = None /\ exec' = None
    BY <2>1, <2>2 DEF BeginShutdown, StopExec, Stopping
  <2>3. CASE EndShutdown(c)
    <3>1. CASE pc[c] = "execStopped"
      BY <1>0, <2>3, <3>1 DEF EndShutdown, StopExec, Forget, Move, Alone
    <3>2. CASE pc[c] # "execStopped"
      BY <2>1, <2>3, <3>2 DEF EndShutdown, StopExec, Forget, Move, Stopping
    <3> QED
      BY <3>1, <3>2
  <2> QED
    BY <2>2, <2>3
<1>5. NobodyBoots'
  BY <1>3, ShutdownStepBoots
<1>6. Live' = {}
  BY <1>0, <1>4, <1>5 DEF Alone, NobodyBoots, AtBoot, Live
<1> QED
  BY <1>2, <1>4, <1>6

LEMMA GoneStep ==
    TypeOK /\ OneOwner /\ AloneInv /\ GoneMeansGone /\ [Next]_vars => GoneMeansGone'
<1> SUFFICES ASSUME TypeOK, OneOwner, AloneInv, GoneMeansGone, [Next]_vars,
                    record' = "none", lost' = {}, ~Busy(Stopping)'
             PROVE  {mediator, exec, handle, pending}' = {None} /\ ~leased' /\ Live' = {}
  BY DEF GoneMeansGone
<1> DEFINE Gone == {mediator, exec, handle, pending} = {None} /\ ~leased /\ Live = {}
<1>0. lost = {} /\ Alone'
  BY LostGrows, AloneStep DEF AloneInv
<1>1. ASSUME record = "none", ~Busy(Stopping) PROVE Gone
  BY <1>0, <1>1 DEF GoneMeansGone
<1>2. ASSUME NEW c \in Call, QuietStep(c) PROVE Gone'
  <2>1. ~Busy(Stopping)
    BY <1>2, QuietStepKeepsBusy
  <2>2. \A from, r : ~SpawnInternal(c, from, r)
    BY DEF SpawnInternal, Start
  <2>3. record = "none"
    BY <1>2, <2>2
       DEF QuietStep, Spawn, SpawnKnown, SpawnJoin, SpawnRefused, BootDone, BootFails,
           Settle, Joined, Drop, Ask, Answered, AskFails, Status, maps
  <2>4. Gone
    BY <1>1, <2>1, <2>3
  <2>5. ~BootDone(c)
    <3>1. ASSUME BootDone(c) PROVE FALSE
      <4>1. AtBoot(c)
        BY <3>1 DEF BootDone, Move, AtBoot
      <4> QED
        BY <1>0, <2>4, <4>1 DEF OneOwner
    <3> QED
      BY <3>1
  <2>6. proc' = proc
    BY <1>2, <2>2
       DEF QuietStep, Spawn, SpawnKnown, SpawnJoin, SpawnRefused, BootDone, BootFails,
           Settle, Joined, Drop, Ask, Answered, AskFails
  <2>7. /\ UNCHANGED <<exec, handle>>
        /\ mediator' \in {mediator, None}
        /\ pending' \in {pending, None}
        /\ leased' = leased \/ leased' = FALSE
    BY <1>2, <2>2, <2>5
       DEF QuietStep, Spawn, SpawnKnown, SpawnJoin, SpawnRefused, BootFails,
           Settle, Joined, Drop, Ask, Answered, AskFails, maps
  <2> QED
    BY <2>4, <2>6, <2>7 DEF Live
<1>3. ASSUME NEW c \in Call, NEW t \in Thens, BeginShutdown(c, "idle", t) PROVE Gone'
  BY <1>0, <1>3, BeginShape, ForgetsAll
<1>4. ASSUME NEW c \in Call, EndShutdown(c) PROVE Gone'
  BY <1>0, <1>4, EndShape, ForgetsAll
<1>5. CASE HealthCheck \/ (\E r \in Runtime : SessionUp(r) \/ Exit(r)) \/ UNCHANGED vars
  <2>1. record = "none" /\ ~Busy(Stopping)
    BY <1>5 DEF HealthCheck, SessionUp, Exit, vars, maps, Busy
  <2>2. UNCHANGED <<mediator, exec, handle, pending, leased>> /\ Live' \subseteq Live
    BY <1>5 DEF HealthCheck, SessionUp, Exit, vars, maps, Live, TypeOK
  <2> QED
    BY <1>1, <2>1, <2>2
<1> QED
  BY <1>2, <1>3, <1>4, <1>5, NextCases

-----------------------------------------------------------------------------
\* What a boot that is about to return may hand out, and what an exec map holds.
HandleInv ==
    /\ NoStoppedHandle
    /\ "cut" \notin lost => \A r \in Runtime : proc[r] = "stopped" => boot[r] # "answered"
    /\ exec # None => boot[exec] = "settled"

LEMMA HandleStep ==
    TypeOK /\ BootsKnown /\ HandleInv /\ [Next]_vars => HandleInv'
<1> SUFFICES ASSUME TypeOK, BootsKnown, HandleInv, [Next]_vars PROVE HandleInv'
  OBVIOUS
<1> USE DEF HandleInv, NoStoppedHandle
<1>0. None \notin Runtime
  BY AgentAssumption DEF Runtime
<1>t. /\ handle \in Runtime \cup {None}
      /\ exec \in Runtime \cup {None}
      /\ mediator \in Runtime \cup {None}
      /\ proc \in [Runtime -> {"unused", "alive", "exited", "stopped"}]
      /\ boot \in [Runtime -> {"none", "pending", "answered", "settled"}]
      /\ \A c \in Call : pc[c] = "boot" => mine[c] \in Runtime
  BY DEF TypeOK
<1>1. ASSUME NEW c \in Call, NEW from \in {"idle", "respawn"}, NEW r \in Runtime,
             SpawnInternal(c, from, r)
      PROVE HandleInv'
  <2>1. Busy(Stopping)' <=> Busy(Stopping)
    BY <1>1, QuietStepKeepsBusy DEF QuietStep, Spawn
  <2>2. handle' = handle /\ exec' = exec /\ lost \subseteq lost'
    BY <1>1 DEF SpawnInternal, Start, Note
  <2>3. \A q \in Runtime : proc'[q] = IF q = r THEN "alive" ELSE proc[q]
    BY <1>1, <1>t DEF SpawnInternal, Start
  <2>4. \A q \in Runtime : boot'[q] = IF q = r THEN "pending" ELSE boot[q]
    BY <1>1, <1>t DEF SpawnInternal, Start
  <2>5. boot[r] = "none"
    BY <1>1 DEF SpawnInternal, Start, BootsKnown
  <2>6. NoStoppedHandle'
    BY <1>t, <2>1, <2>2, <2>3
  <2> QED
    BY <1>t, <2>2, <2>3, <2>4, <2>5, <2>6
<1>2. ASSUME NEW c \in Call,
             \/ \E from \in {"idle", "respawn"} :
                   SpawnKnown(c, from) \/ SpawnJoin(c, from) \/ SpawnRefused(c, from)
             \/ Settle(c) \/ Joined(c) \/ Drop(c) \/ Ask(c) \/ Answered(c) \/ AskFails(c)
      PROVE HandleInv'
  <2>1. Busy(Stopping)' <=> Busy(Stopping)
    BY <1>2, QuietStepKeepsBusy DEF QuietStep, Spawn
  <2>2. UNCHANGED <<handle, exec, proc, boot, lost>>
    BY <1>2
       DEF SpawnKnown, SpawnJoin, SpawnRefused, Settle, Joined, Drop, Ask, Answered,
           AskFails, maps
  <2> QED
    BY <2>1, <2>2
<1>3. ASSUME NEW c \in Call, BootDone(c) PROVE HandleInv'
  <2>1. mine[c] \in Runtime /\ boot[mine[c]] = "answered"
    BY <1>3, <1>t DEF BootDone, Move
  <2>2. \A q \in Runtime : boot'[q] = IF q = mine[c] THEN "settled" ELSE boot[q]
    BY <1>3, <1>t DEF BootDone
  <2>3. handle' = mine[c] /\ exec' \in {exec, mine[c]} /\ proc' = proc /\ lost' = lost
    BY <1>3 DEF BootDone
  <2> QED
    BY <1>t, <2>1, <2>2, <2>3
<1>4. ASSUME NEW c \in Call, BootFails(c) PROVE HandleInv'
  <2>1. Busy(Stopping)' <=> Busy(Stopping)
    BY <1>4, QuietStepKeepsBusy DEF QuietStep
  <2>2. mine[c] \in Runtime
    BY <1>4, <1>t DEF BootFails, Move
  <2>3. \A q \in Runtime : boot'[q] = IF q = mine[c] THEN "settled" ELSE boot[q]
    BY <1>4, <1>t, <2>2 DEF BootFails
  <2>4. UNCHANGED <<handle, exec, proc>> /\ lost \subseteq lost'
    BY <1>4 DEF BootFails, Note
  <2> QED
    BY <1>t, <2>1, <2>3, <2>4
<1>5. ASSUME NEW c \in Call, ShutdownStep(c) PROVE NoStoppedHandle'
  <2>1. CASE Stops(c)
    <3>1. PICK s \in Stopping : Move(c, pc[c], s, None)
      BY <2>1 DEF Stops
    <3>2. pc'[c] \in Stopping
      BY <3>1, MoveResult
    <3> QED
      BY <3>2 DEF Busy
  <2>2. CASE Forgets(c)
    BY <2>2 DEF Forgets
  <2> QED
    BY <1>5, <2>1, <2>2 DEF ShutdownStep
<1>6. ASSUME NEW c \in Call, NEW t \in Thens, BeginShutdown(c, "idle", t) PROVE HandleInv'
  <2>1. NoStoppedHandle'
    BY <1>5, <1>6, BeginShape
  <2>2. exec' = exec /\ boot' = boot /\ lost \subseteq lost'
    BY <1>6 DEF BeginShutdown, maps, Note
  <2>3. \/ proc' = proc
        \/ exec # None /\ Kill(exec)
        \/ mediator # None /\ Kill(mediator) /\ (boot[mediator] = "answered" => "cut" \in lost')
    BY <1>6 DEF BeginShutdown, StopExec, Forget, Note
  <2> QED
    BY <1>t, <2>1, <2>2, <2>3 DEF Kill
<1>7. ASSUME NEW c \in Call, EndShutdown(c) PROVE HandleInv'
  <2>1. NoStoppedHandle'
    BY <1>5, <1>7, EndShape
  <2>2. exec' \in {exec, None} /\ boot' = boot /\ lost' = lost
    BY <1>7 DEF EndShutdown
  <2>3. proc' = proc \/ (exec # None /\ Kill(exec))
    BY <1>7 DEF EndShutdown, StopExec, Forget
  <2> QED
    BY <1>t, <2>1, <2>2, <2>3 DEF Kill
<1>8. ASSUME NEW r \in Runtime, SessionUp(r) PROVE HandleInv'
  BY <1>t, <1>8 DEF SessionUp, maps, Busy
<1>9. ASSUME NEW r \in Runtime, Exit(r) PROVE HandleInv'
  BY <1>t, <1>9 DEF Exit, maps, Busy
<1>10. CASE HealthCheck \/ UNCHANGED vars
  BY <1>10 DEF HealthCheck, vars, maps, Busy
<1> QED
  BY <1>1, <1>2, <1>3, <1>4, <1>6, <1>7, <1>8, <1>9, <1>10, NextCases
     DEF QuietStep, Spawn

-----------------------------------------------------------------------------
IInv ==
    /\ TypeOK
    /\ BootsKnown
    /\ PromiseInv
    /\ OneOwner
    /\ AloneInv
    /\ GoneMeansGone
    /\ HandleInv

LEMMA InitIInv == Init => IInv
<1> SUFFICES ASSUME Init PROVE IInv
  OBVIOUS
<1>0. None \notin Runtime
  BY AgentAssumption DEF Runtime
<1>1. Live = {}
  BY DEF Init, Live
<1>2. TypeOK
  BY <1>0 DEF Init, TypeOK, Statuses, PCs, Thens
<1>3. BootsKnown /\ PromiseInv /\ OneOwner
  BY DEF Init, BootsKnown, PromiseInv, PendingHeld, Waited, OneOwner, AtBoot
<1>4. AloneInv /\ GoneMeansGone /\ HandleInv
  BY <1>1 DEF Init, AloneInv, Alone, GoneMeansGone, HandleInv, NoStoppedHandle
<1> QED
  BY <1>2, <1>3, <1>4 DEF IInv

LEMMA NextIInv == IInv /\ [Next]_vars => IInv'
  BY TypeStep, BootsKnownStep, PromiseStep, OwnerStep, AloneStep, GoneStep, HandleStep
     DEF IInv

LEMMA Invariance == Spec => []IInv
  BY InitIInv, NextIInv, PTL DEF Spec

(* The maps, calls and processes of the manager are well typed.             *)
THEOREM TypeCorrect == Spec => []TypeOK
  BY Invariance, PTL DEF IInv

(* Calls of spawn share one boot, for any number of callers, until a        *)
(* shutdown and a boot have overlapped.                                     *)
THEOREM SpawnsShareBoot == Spec => []OneBoot
<1>1. IInv => OneBoot
  BY DEF IInv, OneOwner, OneBoot, AtBoot
<1> QED
  BY <1>1, Invariance, PTL

(* An agent that is not registered has no map entry, lease or process.      *)
THEOREM GoneIsGone == Spec => []GoneMeansGone
  BY Invariance, PTL DEF IInv

(* No handle is left whose provider a shutdown has stopped, until one has   *)
(* stopped a provider between its session and the end of its boot.          *)
THEOREM HandlesUsable == Spec => []NoStoppedHandle
  BY Invariance, PTL DEF IInv, HandleInv

(* A joined boot is carried out by some call or has settled.                *)
THEOREM JoinsSettle == Spec => []JoinedBootIsRun
<1>1. IInv => JoinedBootIsRun
  BY DEF IInv, PromiseInv, Waited, Held, JoinedBootIsRun
<1> QED
  BY <1>1, Invariance, PTL

\* A step that starts no process ends at most the one that lives.
LEMMA StepRefines == IInv /\ [Next]_vars => [P!MutexNext]_<<Live, lost # {}>>
<1> SUFFICES ASSUME IInv, [Next]_vars, lost' = {}
             PROVE  \/ Live' = Live
                    \/ \E r \in Runtime : P!Enter(r) \/ P!Exit(r)
  BY LostGrows DEF IInv, P!MutexNext
<1>0. lost = {} /\ TypeOK /\ Alone
  BY LostGrows DEF IInv, AloneInv
<1>1. ASSUME NEW c \in Call, NEW from \in {"idle", "respawn"}, NEW r \in Runtime,
             SpawnInternal(c, from, r)
      PROVE P!Enter(r)
  BY <1>0, <1>1, StartAlone DEF IInv, P!Enter
<1>2. ASSUME Live' \subseteq Live
      PROVE Live' = Live \/ \E r \in Runtime : P!Exit(r)
  <2>1. \A q, r \in Live : q = r
    BY <1>0 DEF Alone
  <2>2. CASE Live = {}
    BY <1>2, <2>2
  <2>3. ASSUME NEW r \in Live PROVE Live' = Live \/ P!Exit(r)
    BY <1>2, <2>1, <2>3 DEF P!Exit
  <2> QED
    BY <2>2, <2>3 DEF Live
<1>3. ASSUME NEW c \in Call, QuietStep(c),
             \A from \in {"idle", "respawn"}, r \in Runtime : ~SpawnInternal(c, from, r)
      PROVE Live' = Live
  BY <1>3
     DEF QuietStep, Spawn, SpawnKnown, SpawnJoin, SpawnRefused, BootDone, BootFails,
         Settle, Joined, Drop, Ask, Answered, AskFails, Live
<1>4. ASSUME NEW c \in Call, ShutdownStep(c) PROVE Live' \subseteq Live
  BY <1>0, <1>4 DEF ShutdownStep, Stops, Forgets, Kill, Live, TypeOK
<1>5. CASE HealthCheck \/ (\E r \in Runtime : SessionUp(r) \/ Exit(r)) \/ UNCHANGED vars
  BY <1>0, <1>2, <1>5 DEF HealthCheck, SessionUp, Exit, vars, Live, TypeOK
<1> QED
  BY <1>0, <1>1, <1>2, <1>3, <1>4, <1>5, NextCases, BeginShape, EndShape

(* One provider process of the agent lives at a time, until one of the      *)
(* three mishaps noted in lost: the manager implements module Mutex.        *)
THEOREM Refinement == Spec => ImplementsSingleProvider
<1>1. Init => P!MutexInit
  BY DEF Init, Live, P!MutexInit
<1> QED
  BY <1>1, Invariance, StepRefines, PTL
     DEF Spec, ImplementsSingleProvider, P!MutexSpec
-----------------------------------------------------------------------------
(* Callers that joined a boot return.  How long a provider boots is its own *)
(* affair, so that every boot comes to an end is a hypothesis; so is that a *)
(* call whose promise has settled can go on, for ENABLED is out of the      *)
(* provers' reach.                                                          *)

BootEnded(d) == pc[d] = "boot" ~> pc[d] # "boot"
BootsEnd == \A d \in Call : BootEnded(d)

\* The event loop runs what awaited a promise that has settled.
Resumes(c) == WF_vars(Joined(c))

Due(c) == pc[c] = "join" /\ boot[mine[c]] = "settled"

Scheduled(c) == Spec /\ Resumes(c) /\ [](Due(c) => ENABLED <<Joined(c)>>_vars)

Joins(c, r) == pc[c] = "join" /\ mine[c] = r
Boots(d, r) == pc[d] = "boot" /\ mine[d] = r
Settled(r) == boot[r] = "settled"
Returned(c) == pc[c] # "join"

Settles(d, r) == [](Boots(d, r) => <>Settled(r))
Arrives(c, r) == [](Joins(c, r) => <>Settled(r))

\* A call waits for one boot.
LEMMA JoinStep ==
    ASSUME TypeOK, [Next]_vars, NEW c \in Call, NEW r, Joins(c, r)
    PROVE  Joins(c, r)' \/ pc'[c] # "join"
<1>1. ASSUME NEW d \in Call, NEW here, NEW there, NEW q, Move(d, here, there, q),
             here # "join" \/ there # "join"
      PROVE  Joins(c, r)' \/ pc'[c] # "join"
  BY <1>1, MoveResult DEF Joins
<1>2. ASSUME NEW d \in Call, NEW from \in {"idle", "respawn"}, Spawn(d, from)
      PROVE  \E there, q : Move(d, from, there, q)
  BY <1>2 DEF Spawn, SpawnKnown, SpawnJoin, SpawnRefused, SpawnInternal, Start
<1>3. ASSUME NEW d \in Call, BootDone(d) \/ BootFails(d)
      PROVE  Move(d, "boot", "settle", None)
  BY <1>3 DEF BootDone, BootFails
<1>4. ASSUME NEW d \in Call, Settle(d) \/ Joined(d) \/ Drop(d) \/ Answered(d) \/ AskFails(d)
      PROVE  \E here : Move(d, here, "idle", None)
  BY <1>4 DEF Settle, Joined, Drop, Answered, AskFails
<1>5. ASSUME NEW d \in Call, Ask(d) PROVE Move(d, "idle", "ask", handle)
  BY <1>5 DEF Ask
<1>6. ASSUME NEW d \in Call, ShutdownStep(d)
      PROVE  pc[d] # "join" /\ \E there : Move(d, pc[d], there, None)
  BY <1>6 DEF ShutdownStep, Stops, Forgets, Stopping
<1>7. CASE HealthCheck \/ (\E q \in Runtime : SessionUp(q) \/ Exit(q)) \/ UNCHANGED vars
  BY <1>7 DEF HealthCheck, SessionUp, Exit, vars, Joins
<1>8. ASSUME NEW d \in Call, QuietStep(d) PROVE Joins(c, r)' \/ pc'[c] # "join"
  <2>1. CASE \E from \in {"idle", "respawn"} : Spawn(d, from)
    BY <1>1, <1>2, <2>1
  <2>2. CASE BootDone(d) \/ BootFails(d) \/ Ask(d)
    BY <1>1, <1>3, <1>5, <2>2
  <2>3. CASE Settle(d) \/ Joined(d) \/ Drop(d) \/ Answered(d) \/ AskFails(d)
    BY <1>1, <1>4, <2>3
  <2> QED
    BY <1>8, <2>1, <2>2, <2>3 DEF QuietStep
<1>9. ASSUME NEW d \in Call, ShutdownStep(d) PROVE Joins(c, r)' \/ pc'[c] # "join"
  BY <1>1, <1>6, <1>9
<1> QED
  BY <1>7, <1>8, <1>9, NextCases, BeginShape, EndShape

\* A boot goes on or settles, and what has settled stays so.
LEMMA BootStep ==
    ASSUME TypeOK, BootsKnown, [Next]_vars, NEW d \in Call, NEW r \in Runtime
    PROVE  /\ Boots(d, r) => Boots(d, r)' \/ Settled(r)'
           /\ Settled(r) => Settled(r)'
<1>1. CASE BootsGoOn
  BY <1>1 DEF BootsGoOn, Boots, Settled
<1>2. ASSUME NEW e \in Call, BootEnds(e)
      PROVE  /\ Boots(d, r) => Boots(d, r)' \/ Settled(r)'
             /\ Settled(r) => Settled(r)'
  BY <1>2 DEF BootEnds, Boots, Settled
<1> QED
  BY <1>1, <1>2, BootSteps

\* A call whose boot has settled goes on.
LEMMA SettledReturns ==
    ASSUME NEW c \in Call, NEW r \in Runtime
    PROVE  Scheduled(c) => (Joins(c, r) /\ Settled(r) ~> Returned(c))
<1>1. IInv /\ Joins(c, r) /\ Settled(r) /\ [Next]_vars =>
         Returned(c)' \/ (Joins(c, r)' /\ Settled(r)')
  BY JoinStep, BootStep DEF IInv, Returned
<1>2. IInv /\ <<Joined(c)>>_vars => Returned(c)'
  BY MoveResult DEF IInv, Joined, Returned
<1>3. Joins(c, r) /\ Settled(r) => Due(c)
  BY DEF Joins, Settled, Due
<1> QED
  BY <1>1, <1>2, <1>3, Invariance, PTL DEF Spec, Resumes, Scheduled

\* A boot that some call carries out settles.
LEMMA BootSettles ==
    ASSUME NEW d \in Call, NEW r \in Runtime
    PROVE  Spec /\ BootsEnd => Settles(d, r)
<1>1. IInv /\ Boots(d, r) /\ [Next]_vars => Boots(d, r)' \/ Settled(r)'
  BY BootStep DEF IInv
<1>2. Boots(d, r) => pc[d] = "boot"
  BY DEF Boots
<1>3. BootsEnd => BootEnded(d)
  BY DEF BootsEnd
<1>4. pc[d] # "boot" <=> ~(pc[d] = "boot")
  OBVIOUS
<1> QED
  BY <1>1, <1>2, <1>3, <1>4, Invariance, PTL DEF Spec, Settles, BootEnded

\* A call waits for a boot that settles.
LEMMA JoinedSettles ==
    ASSUME NEW c \in Call, NEW r \in Runtime
    PROVE  Spec /\ BootsEnd => Arrives(c, r)
<1> DEFINE Soon == <>Settled(r)
           For(d) == Boots(d, r) => Soon
           Any == \A d \in Call : For(d)
<1>1. ASSUME NEW d \in Call PROVE Settles(d, r) => []For(d)
  BY PTL DEF Settles
<1>2. (\A d \in Call : []For(d)) => []Any
  <2> HIDE DEF For
  <2> QED
    OBVIOUS
<1>3. IInv /\ Joins(c, r) => Settled(r) \/ \E d \in Call : Boots(d, r)
  BY DEF IInv, PromiseInv, Waited, Held, Joins, Settled, Boots
<1> HIDE DEF Soon
<1>4. IInv /\ Any /\ Joins(c, r) => Settled(r) \/ Soon
  BY <1>3
<1> HIDE DEF For
<1>5. Spec /\ BootsEnd => \A d \in Call : []For(d)
  BY <1>1, BootSettles
<1> HIDE DEF Any
<1> QED
  BY <1>2, <1>4, <1>5, Invariance, PTL DEF Soon, Arrives

(* Every caller that joined a boot returns once the boots that are under    *)
(* way come to an end, be it by success, failure or a shutdown beside them: *)
(* no promise is left behind unsettled (agent-lifecycle.ts:164).            *)
THEOREM JoinersReturn ==
    ASSUME NEW c \in Call
    PROVE  Scheduled(c) /\ BootsEnd => (pc[c] = "join" ~> pc[c] # "join")
<1> DEFINE Soon == <>Returned(c)
           For(r) == Joins(c, r) => Soon
           Any == \A r \in Runtime : For(r)
<1>1. ASSUME NEW r \in Runtime PROVE Scheduled(c) /\ BootsEnd => []For(r)
  <2>1. Scheduled(c) => (Joins(c, r) /\ Settled(r) ~> Returned(c))
    BY <1>1, SettledReturns
  <2>2. Spec /\ BootsEnd => Arrives(c, r)
    BY <1>1, JoinedSettles
  <2>3. IInv /\ Joins(c, r) /\ [Next]_vars => Joins(c, r)' \/ Returned(c)'
    BY JoinStep DEF IInv, Returned
  <2> QED
    BY <2>1, <2>2, <2>3, Invariance, PTL DEF Spec, Scheduled, Arrives
<1>2. (\A r \in Runtime : []For(r)) => []Any
  <2> HIDE DEF For
  <2> QED
    OBVIOUS
<1>3. IInv /\ pc[c] = "join" => \E r \in Runtime : Joins(c, r)
  BY DEF IInv, TypeOK, Joins
<1> HIDE DEF Soon
<1>4. IInv /\ Any /\ pc[c] = "join" => Soon
  BY <1>3
<1> HIDE DEF For
<1>5. Scheduled(c) /\ BootsEnd => \A r \in Runtime : []For(r)
  BY <1>1
<1> HIDE DEF Any
<1>6. Returned(c) <=> pc[c] # "join"
  BY DEF Returned
<1> QED
  BY <1>2, <1>4, <1>5, <1>6, Invariance, PTL DEF Soon, Scheduled
=============================================================================
