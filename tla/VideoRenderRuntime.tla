------------------------- MODULE VideoRenderRuntime -------------------------
(***************************************************************************)
(* The job queue of libs/core/video-render-runtime.ts with the jobs that   *)
(* video-composition-actuator gives it.  The methods are synchronous; run, *)
(* the body of a job, awaits the bundle and then, where the policy enables *)
(* it, the render backend.  Its result reaches execute one microtask after *)
(* run has settled, and other calls may come in between.                   *)
(*                                                                         *)
(* The stages that run reports (validating to encoding) are one status,    *)
(* "working".  Queue data is modelled for queued packets only: a later     *)
(* packet carries the last value along and nothing reads it.               *)
(***************************************************************************)
EXTENDS Naturals, SequencesExt

CONSTANTS
    Job,        \* job ids
    Limit,      \* policy.queue.concurrency
    NoData      \* a packet without queue data

\* The packet's queue data: queued_ahead is position - 1.
QueueData == [position : 1..Cardinality(Job), total : 1..Cardinality(Job), running : 0..Limit]

ASSUME VideoAssumption ==
    /\ IsFiniteSet(Job)
    /\ Limit \in Nat \ {0}
    /\ NoData \notin QueueData

VARIABLES
    policy,     \* what the policy file allows, read once
    queue,      \* queue, the waiting jobs
    running,    \* running, the jobs that hold a slot
    flagged,    \* the running jobs whose cancelled flag is set
    packet,     \* packets; status "none" where there is no entry
    stage       \* where run is: awaiting the bundle or the backend, or settled

vars == <<policy, queue, running, flagged, packet, stage>>

Statuses == {"none", "queued", "working", "completed", "failed", "cancelled"}
Policies == [cancelRunning : BOOLEAN, backend : BOOLEAN]
Stages == {"none", "bundle", "backend", "returned", "threw"}

(* Packets and queue data have the shape the packet contract gives them;   *)
(* only running jobs can be flagged, and a job has a stage while it runs.  *)
TypeOK ==
    /\ policy \in Policies
    /\ queue \in Seq(Job)
    /\ running \subseteq Job
    /\ flagged \subseteq running
    /\ packet \in [Job -> [status : Statuses, data : QueueData \cup {NoData}]]
    /\ stage \in [Job -> Stages]
    /\ \A j \in Job : stage[j] = "none" <=> j \notin running

Init ==
    /\ policy \in Policies
    /\ queue = <<>>
    /\ running = {}
    /\ flagged = {}
    /\ packet = [j \in Job |-> [status |-> "none", data |-> NoData]]
    /\ stage = [j \in Job |-> "none"]

-----------------------------------------------------------------------------
Packet(s) == [status |-> s, data |-> NoData]

Mutant_PositionFromZero(q, r, pk) ==    \* the index instead of the position
    [j \in Job |->
        IF pk[j].status = "queued" /\ \E i \in DOMAIN q : q[i] = j
        THEN [pk[j] EXCEPT !.data = [position |-> (CHOOSE i \in DOMAIN q : q[i] = j) - 1,
                                     total |-> Len(q), running |-> Cardinality(r)]]
        ELSE pk[j]]

\* Every queued job gets its position in line q beside the running jobs r.
refreshQueuedPackets(q, r, pk) ==
    [j \in Job |->
        IF pk[j].status = "queued" /\ \E i \in DOMAIN q : q[i] = j
        THEN [pk[j] EXCEPT !.data = [position |-> CHOOSE i \in DOMAIN q : q[i] = j,
                                     total |-> Len(q), running |-> Cardinality(r)]]
        ELSE pk[j]]

Mutant_ReportRevives(current, s) == [current EXCEPT !.status = s]

\* A report does not bring a cancelled packet back.
Reported(current, s) ==
    IF current.status = "cancelled" /\ s # "cancelled" THEN current
    ELSE [current EXCEPT !.status = s]

Mutant_PumpTakesOneMore(q, r) ==        \* <= instead of < in the loop of pump
    LET free == Limit + 1 - Cardinality(r)
    IN  SubSeq(q, 1, IF free < Len(q) THEN free ELSE Len(q))

\* pump takes jobs from line q while r leaves a slot free.
Admitted(q, r) ==
    LET free == Limit - Cardinality(r)
    IN  SubSeq(q, 1, IF free < Len(q) THEN free ELSE Len(q))

\* Admitted jobs run up to their first await: they report, and ask for the bundle.
\* Both callers of pump have refreshed the packets, whether or not it admits any.
pump(q, r, pk) ==
    LET started == Range(Admitted(q, r))
        rest    == SubSeq(q, Len(Admitted(q, r)) + 1, Len(q))
        begun   == [j \in Job |-> IF j \in started
                                  THEN [Reported(pk[j], "working") EXCEPT !.data = NoData]
                                  ELSE pk[j]]
    IN  /\ queue' = rest
        /\ running' = r \cup started
        /\ packet' = refreshQueuedPackets(rest, r \cup started, begun)
        /\ stage' = [j \in Job |-> IF j \in started THEN "bundle"
                                   ELSE IF j \in r THEN stage[j] ELSE "none"]

-----------------------------------------------------------------------------
\* A job id is accepted once.
enqueue(j) ==
    /\ packet[j].status = "none"
    /\ pump(Append(queue, j), running, [packet EXCEPT ![j] = Packet("queued")])
    /\ UNCHANGED <<policy, flagged>>

Mutant_CancelWithoutRefresh(j) ==
    \E i \in DOMAIN queue :
        /\ queue[i] = j
        /\ queue' = RemoveAt(queue, i)
        /\ packet' = [packet EXCEPT ![j] = Packet("cancelled")]
        /\ UNCHANGED <<policy, running, flagged, stage>>

cancelQueued(j) ==
    \E i \in DOMAIN queue :
        /\ queue[i] = j
        /\ queue' = RemoveAt(queue, i)
        /\ packet' = refreshQueuedPackets(queue', running,
                                          [packet EXCEPT ![j] = Packet("cancelled")])
        /\ UNCHANGED <<policy, running, flagged, stage>>

\* A running job keeps its slot: it is only asked to stop.
cancelRunning(j) ==
    /\ j \in running
    /\ policy.cancelRunning
    /\ flagged' = flagged \cup {j}
    /\ packet' = refreshQueuedPackets(queue, running,
                                      [packet EXCEPT ![j] = Packet("cancelled")])
    /\ UNCHANGED <<policy, queue, running, stage>>

-----------------------------------------------------------------------------
\* run goes on from stage at: it reports s, and is now at stage next.
Proceed(j, at, s, next) ==
    /\ stage[j] = at
    /\ packet' = [packet EXCEPT ![j] = Reported(@, s)]
    /\ stage' = [stage EXCEPT ![j] = next]
    /\ UNCHANGED <<policy, queue, running, flagged>>

Throw(j, at) ==
    /\ stage[j] = at
    /\ stage' = [stage EXCEPT ![j] = "threw"]
    /\ UNCHANGED <<policy, queue, running, flagged, packet>>

\* The bundle is written; the flag is looked at only on the way to the backend.
BundleWritten(j) ==
    IF ~policy.backend THEN Proceed(j, "bundle", "working", "returned")
    ELSE IF j \in flagged THEN Throw(j, "bundle")
    ELSE Proceed(j, "bundle", "working", "backend")

BundleFailed(j) == Throw(j, "bundle")

BackendEnded(j) ==
    IF j \in flagged THEN Throw(j, "backend")
    ELSE Proceed(j, "backend", "working", "returned")

\* The backend calls a command that it timed out cancelled, too.
BackendFailed(j) ==
    \E timedOut \in BOOLEAN :
        IF j \in flagged \/ timedOut THEN Proceed(j, "backend", "cancelled", "threw")
        ELSE Throw(j, "backend")

\* execute: a job that was asked to stop keeps its packet.
Outcome(j) ==
    IF j \in flagged THEN packet[j]
    ELSE Packet(IF stage[j] = "returned" THEN "completed" ELSE "failed")

Mutant_SlotNotFreed(j) ==               \* a failed job stays in running
    /\ stage[j] \in {"returned", "threw"}
    /\ IF stage[j] = "threw"
       THEN /\ packet' = [packet EXCEPT ![j] = Outcome(j)]
            /\ UNCHANGED <<queue, running, stage>>
       ELSE pump(queue, running \ {j}, [packet EXCEPT ![j] = Outcome(j)])
    /\ flagged' = flagged \ {j}
    /\ UNCHANGED policy

Mutant_NextNotPumped(j) ==              \* the slot is free and nobody takes it
    /\ stage[j] \in {"returned", "threw"}
    /\ running' = running \ {j}
    /\ packet' = refreshQueuedPackets(queue, running', [packet EXCEPT ![j] = Outcome(j)])
    /\ stage' = [stage EXCEPT ![j] = "none"]
    /\ flagged' = flagged \ {j}
    /\ UNCHANGED <<policy, queue>>

\* The continuation of execute: the outcome, the slot, the next job.
execute(j) ==
    /\ stage[j] \in {"returned", "threw"}
    /\ pump(queue, running \ {j}, [packet EXCEPT ![j] = Outcome(j)])
    /\ flagged' = flagged \ {j}
    /\ UNCHANGED policy

run(j) == BundleWritten(j) \/ BundleFailed(j) \/ BackendEnded(j) \/ BackendFailed(j)

Next == \E j \in Job : enqueue(j) \/ cancelQueued(j) \/ cancelRunning(j)
                       \/ run(j) \/ execute(j)

Spec == Init /\ [][Next]_vars

\* What a job awaits ends: the backend is killed when its time is up.
Fair(j) == WF_vars(run(j) \/ execute(j))

FairSpec == Spec /\ \A j \in Job : Fair(j)

-----------------------------------------------------------------------------
Ended == {"completed", "failed", "cancelled"}

(* getPacket of a waiting job tells its true place in line, the length of  *)
(* the line and the number of running jobs, whatever happened since it was *)
(* enqueued (compose-video-from-adf.md:80).                                *)
QueueDataFresh ==
    \A i \in DOMAIN queue :
        packet[queue[i]] = [status |-> "queued",
                            data |-> [position |-> i, total |-> Len(queue),
                                      running |-> Cardinality(running)]]

(* No slot is idle while a job waits, and no more jobs run than the policy *)
(* allows, although a cancelled job holds its slot until run has settled.  *)
SlotsAreUsed ==
    /\ Cardinality(running) <= Limit
    /\ queue # <<>> => Cardinality(running) = Limit

(* The runtime implements the bounded queue of module Slots: jobs start in *)
(* the order they came, cancelled ones apart, as soon as a slot is free.   *)
S == INSTANCE Slots WITH waiting <- queue
ImplementsSlots == S!SlotsSpec

(* What cancel, getPacket and waitForRenderJob have told a caller stays    *)
(* true: a completed, failed or cancelled job keeps its packet and, unless *)
(* it is running, never runs.  The "cancelled" that run reports of a       *)
(* backend that timed out is not such an answer: failed follows at once.   *)
Told(j) ==
    \/ packet[j].status \in {"completed", "failed"}
    \/ packet[j].status = "cancelled" /\ (j \in flagged \/ j \notin running)
OutcomeIsFinal ==
    [][\A j \in Job : Told(j) =>
          /\ packet'[j].status = packet[j].status
          /\ j \in running' => j \in running]_vars

(* Every job that is accepted ends: it gets an outcome and gives its slot  *)
(* back, however many jobs before it fail or are cancelled.                *)
EveryJobEnds ==
    \A j \in Job :
        packet[j].status = "queued"
            ~> packet[j].status \in Ended /\ j \notin running
=============================================================================
