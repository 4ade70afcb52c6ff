------------------------------- MODULE Slots -------------------------------
(***************************************************************************)
(* What a bounded job queue promises: a job that arrives starts at once    *)
(* when a slot is free and else waits at the end of the line; a slot that  *)
(* becomes free goes to the head of the line in the same instant.          *)
(***************************************************************************)
EXTENDS Naturals, Sequences, FiniteSets

CONSTANTS Job, Limit

VARIABLES waiting, running

slots == <<waiting, running>>

Init == waiting = <<>> /\ running = {}

Waits(j) == \E i \in DOMAIN waiting : waiting[i] = j

Arrive(j) ==
    /\ ~Waits(j) /\ j \notin running
    /\ IF Cardinality(running) < Limit
       THEN running' = running \cup {j} /\ UNCHANGED waiting
       ELSE waiting' = Append(waiting, j) /\ UNCHANGED running

End(j) ==
    /\ j \in running
    /\ IF waiting = <<>>
       THEN running' = running \ {j} /\ UNCHANGED waiting
       ELSE /\ running' = (running \ {j}) \cup {Head(waiting)}
            /\ waiting' = Tail(waiting)

\* A job leaves the line without having had a slot.
Withdraw(j) ==
    \E i \in DOMAIN waiting :
        /\ waiting[i] = j
        /\ waiting' = SubSeq(waiting, 1, i - 1)
                      \o SubSeq(waiting, i + 1, Len(waiting))
        /\ UNCHANGED running

Next == \E j \in Job : Arrive(j) \/ End(j) \/ Withdraw(j)

SlotsSpec == Init /\ [][Next]_slots
=============================================================================
