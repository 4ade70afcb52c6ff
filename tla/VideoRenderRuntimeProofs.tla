---------------------- MODULE VideoRenderRuntimeProofs ----------------------
(***************************************************************************)
(* Proofs about the video render runtime.  The inductive invariant is      *)
(*   TypeOK       the state is well typed,                                 *)
(*   SlotsAreUsed no slot is idle while a job waits,                       *)
(*   LineInv      how packets, flags and the line belong together.         *)
(* Since a slot is idle only when nobody waits, pump admits one job or     *)
(* none (PumpNothing, PumpOne); PumpEffect sums up what callers rely on.   *)
(***************************************************************************)
EXTENDS VideoRenderRuntime, FiniteSetTheorems, SequenceTheorems, TLAPS

JobPackets == [Job -> [status : Statuses, data : QueueData \cup {NoData}]]

Distinct(q) == \A i, k \in DOMAIN q : q[i] = q[k] => i = k

Fresh(q, r, pk) ==
    \A i \in DOMAIN q :
        pk[q[i]] = [status |-> "queued",
                    data |-> [position |-> i, total |-> Len(q),
                              running |-> Cardinality(r)]]

LineInv ==
    /\ Distinct(queue)
    /\ Fresh(queue, running, packet)
    /\ \A j \in running : packet[j].status \in {"working", "cancelled"}
    /\ \A j \in flagged : packet[j].status = "cancelled"

IInv == TypeOK /\ SlotsAreUsed /\ LineInv

-----------------------------------------------------------------------------
(* Sets of running jobs can be counted.                                    *)
LEMMA RunningFinite ==
  ASSUME NEW r \in SUBSET Job
  PROVE  IsFiniteSet(r) /\ Cardinality(r) \in Nat
  BY VideoAssumption, FS_Subset, FS_CardinalityType

(* A line without repetitions is no longer than there are jobs.            *)
LEMMA LineBound ==
  ASSUME NEW q \in Seq(Job), Distinct(q)
  PROVE  Len(q) <= Cardinality(Job)
  <1>1. Len(q) \in Nat /\ DOMAIN q = 1..Len(q) /\ q \in [1..Len(q) -> Job]
    BY LenProperties
  <1>2. q \in Injection(1..Len(q), Job)
    BY <1>1 DEF Distinct, Injection, IsInjective
  <1>3. Cardinality(1..Len(q)) <= Cardinality(Job)
    BY <1>2, VideoAssumption, FS_Injection
  <1>4. Cardinality(1..Len(q)) = Len(q)
    BY <1>1, FS_Interval
  <1> QED BY <1>3, <1>4

(* refreshQueuedPackets changes no status and gives the waiting jobs their *)
(* place.                                                                  *)
LEMMA RefreshEffect ==
  ASSUME NEW q \in Seq(Job), Distinct(q),
         NEW r \in SUBSET Job, Cardinality(r) <= Limit,
         NEW pk \in JobPackets,
         \A i \in DOMAIN q : pk[q[i]].status = "queued"
  PROVE  /\ refreshQueuedPackets(q, r, pk) \in JobPackets
         /\ \A j \in Job : refreshQueuedPackets(q, r, pk)[j].status = pk[j].status
         /\ Fresh(q, r, refreshQueuedPackets(q, r, pk))
  <1> DEFINE new == refreshQueuedPackets(q, r, pk)
             Data(i) == [position |-> i, total |-> Len(q), running |-> Cardinality(r)]
  <1>0. Len(q) \in Nat /\ DOMAIN q = 1..Len(q) /\ Len(q) <= Cardinality(Job)
        /\ Cardinality(r) \in 0..Limit /\ Cardinality(Job) \in Nat
    BY LineBound, RunningFinite, LenProperties, VideoAssumption
  <1>1. \A i \in DOMAIN q : Data(i) \in QueueData
    BY <1>0 DEF QueueData
  <1>2. ASSUME NEW i \in DOMAIN q
        PROVE  new[q[i]] = [status |-> "queued", data |-> Data(i)]
    <2>1. q[i] \in Job
      BY <1>0, ElementOfSeq
    <2>2. i = CHOOSE k \in DOMAIN q : q[k] = q[i]
      BY DEF Distinct
    <2>3. new[q[i]] = [pk[q[i]] EXCEPT !.data = Data(i)]
      BY <2>1, <2>2 DEF refreshQueuedPackets
    <2> QED BY <2>1, <2>3 DEF JobPackets
  <1>3. ASSUME NEW j \in Job, \A i \in DOMAIN q : q[i] # j
        PROVE  new[j] = pk[j]
    BY <1>3 DEF refreshQueuedPackets
  <1>4. ASSUME NEW j \in Job
        PROVE  /\ new[j] \in [status : Statuses, data : QueueData \cup {NoData}]
               /\ new[j].status = pk[j].status
    <2>1. CASE \E i \in DOMAIN q : q[i] = j
      <3>1. PICK i \in DOMAIN q : q[i] = j
        BY <2>1
      <3>2. new[j] = [status |-> "queued", data |-> Data(i)] /\ Data(i) \in QueueData
        BY <3>1, <1>1, <1>2
      <3> HIDE DEF Data
      <3> QED BY <3>1, <3>2 DEF Statuses
    <2>2. CASE \A i \in DOMAIN q : q[i] # j
      BY <2>2, <1>3 DEF JobPackets
    <2> QED BY <2>1, <2>2
  <1>5. new \in JobPackets
    BY <1>4 DEF JobPackets, refreshQueuedPackets
  <1> QED BY <1>2, <1>4, <1>5 DEF Fresh

-----------------------------------------------------------------------------
(* Where no slot is free, or nobody waits, pump admits nobody.             *)
LEMMA PumpNothing ==
  ASSUME NEW q \in Seq(Job), NEW r \in SUBSET Job, NEW pk \in JobPackets,
         Cardinality(r) = Limit \/ q = <<>>, Cardinality(r) <= Limit,
         pump(q, r, pk)
  PROVE  /\ queue' = q /\ running' = r
         /\ packet' = refreshQueuedPackets(q, r, pk)
         /\ stage' = [j \in Job |-> IF j \in r THEN stage[j] ELSE "none"]
  <1>1. Cardinality(r) \in Nat /\ Limit \in Nat /\ Len(q) \in Nat
    BY RunningFinite, VideoAssumption, LenProperties
  <1>2. Admitted(q, r) = <<>>
    BY <1>1, EmptySeq, SubSeqEmpty DEF Admitted
  <1>3. Range(Admitted(q, r)) = {} /\ Len(Admitted(q, r)) = 0
    BY <1>2 DEF Range
  <1>4. SubSeq(q, 1, Len(q)) = q
    BY SubSeqFull
  <1>5. [j \in Job |-> IF j \in {} THEN [Reported(pk[j], "working") EXCEPT !.data = NoData]
                       ELSE pk[j]] = pk
    BY DEF JobPackets
  <1>6. Len(Admitted(q, r)) + 1 = 1 /\ r \cup {} = r
    BY <1>3
  <1>7. /\ queue' = SubSeq(q, 1, Len(q))
        /\ running' = r
        /\ packet' = refreshQueuedPackets(SubSeq(q, 1, Len(q)), r,
                        [j \in Job |-> IF j \in {}
                                       THEN [Reported(pk[j], "working") EXCEPT !.data = NoData]
                                       ELSE pk[j]])
        /\ stage' = [j \in Job |-> IF j \in {} THEN "bundle"
                                   ELSE IF j \in r THEN stage[j] ELSE "none"]
    BY <1>3, <1>6, Zenon DEF pump
  <1>8. stage' = [j \in Job |-> IF j \in r THEN stage[j] ELSE "none"]
    BY <1>7
  <1> QED BY <1>4, <1>5, <1>7, <1>8, Zenon

(* Where one slot is free, or one job waits, pump admits the head.         *)
LEMMA PumpOne ==
  ASSUME NEW q \in Seq(Job), NEW r \in SUBSET Job, NEW pk \in JobPackets,
         q # <<>>, Cardinality(r) < Limit,
         Cardinality(r) + 1 = Limit \/ Len(q) = 1,
         pump(q, r, pk)
  PROVE  /\ queue' = Tail(q) /\ running' = r \cup {Head(q)}
         /\ packet' = refreshQueuedPackets(Tail(q), r \cup {Head(q)},
                        [pk EXCEPT ![Head(q)] =
                            [Reported(pk[Head(q)], "working") EXCEPT !.data = NoData]])
         /\ stage' = [j \in Job |-> IF j = Head(q) THEN "bundle"
                                    ELSE IF j \in r THEN stage[j] ELSE "none"]
  <1>1. /\ Cardinality(r) \in Nat /\ Limit \in Nat /\ Len(q) \in Nat /\ Len(q) >= 1
        /\ Head(q) \in Job /\ Head(q) = q[1]
    BY RunningFinite, VideoAssumption, LenProperties, EmptySeq, HeadTailProperties
  <1>2. Admitted(q, r) = SubSeq(q, 1, 1)
    <2>1. (IF Limit - Cardinality(r) < Len(q) THEN Limit - Cardinality(r) ELSE Len(q)) = 1
      <3> DEFINE c == Cardinality(r)
                 n == Len(q)
      <3>1. c \in Nat /\ n \in Nat /\ n >= 1 /\ Limit \in Nat /\ c < Limit
            /\ (c + 1 = Limit \/ n = 1)
        BY <1>1
      <3> HIDE DEF c, n
      <3>2. (IF Limit - c < n THEN Limit - c ELSE n) = 1
        BY <3>1
      <3> QED BY <3>2 DEF c, n
    <2> QED BY <2>1, Zenon DEF Admitted
  <1>3. Range(Admitted(q, r)) = {Head(q)} /\ Len(Admitted(q, r)) = 1
    <2>1. /\ Len(SubSeq(q, 1, 1)) = 1 /\ SubSeq(q, 1, 1)[1] = Head(q)
          /\ SubSeq(q, 1, 1) \in Seq(Job)
      <3>1. \A i \in 1..1 : q[i] \in Job
        BY <1>1
      <3> QED BY <1>1, <3>1, SubSeqProperties, 1 \in Int
    <2>2. DOMAIN SubSeq(q, 1, 1) = {1}
      BY <2>1, LenProperties
    <2> QED BY <1>2, <2>1, <2>2 DEF Range
  <1>4. SubSeq(q, 2, Len(q)) = Tail(q)
    BY TailIsSubSeq
  <1>5. [j \in Job |-> IF j \in {Head(q)}
                       THEN [Reported(pk[j], "working") EXCEPT !.data = NoData]
                       ELSE pk[j]]
        = [pk EXCEPT ![Head(q)] = [Reported(pk[Head(q)], "working") EXCEPT !.data = NoData]]
    BY <1>1 DEF JobPackets
  <1>6. [j \in Job |-> IF j \in {Head(q)} THEN "bundle"
                       ELSE IF j \in r THEN stage[j] ELSE "none"]
        = [j \in Job |-> IF j = Head(q) THEN "bundle"
                         ELSE IF j \in r THEN stage[j] ELSE "none"]
    OBVIOUS
  <1>7. Len(Admitted(q, r)) + 1 = 2
    BY <1>3
  <1> QED BY <1>3, <1>4, <1>5, <1>6, <1>7 DEF pump

(* The line q loses its head or stays, and what is left of it is distinct. *)
LEMMA TailDistinct ==
  ASSUME NEW q \in Seq(Job), Distinct(q), q # <<>>
  PROVE  /\ Tail(q) \in Seq(Job) /\ Len(Tail(q)) = Len(q) - 1
         /\ DOMAIN Tail(q) = 1..(Len(q) - 1)
         /\ \A i \in DOMAIN Tail(q) : i + 1 \in DOMAIN q /\ Tail(q)[i] = q[i + 1]
         /\ Distinct(Tail(q))
         /\ Head(q) \in Job /\ 1 \in DOMAIN q /\ Head(q) = q[1]
         /\ \A i \in DOMAIN Tail(q) : Tail(q)[i] # Head(q)
  <1>1. /\ Tail(q) \in Seq(Job) /\ Len(Tail(q)) = Len(q) - 1
        /\ \A i \in 1..Len(Tail(q)) : Tail(q)[i] = q[i + 1]
        /\ DOMAIN Tail(q) = 1..Len(Tail(q))
        /\ DOMAIN q = 1..Len(q) /\ Len(q) \in Nat \ {0}
        /\ Head(q) \in Job /\ Head(q) = q[1]
    BY HeadTailProperties, LenProperties, EmptySeq
  <1>2. \A i \in DOMAIN Tail(q) : i + 1 \in DOMAIN q /\ i + 1 # 1
    BY <1>1
  <1>3. Distinct(Tail(q))
    BY <1>1, <1>2 DEF Distinct
  <1>4. \A i \in DOMAIN Tail(q) : Tail(q)[i] # Head(q)
    BY <1>1, <1>2 DEF Distinct
  <1> QED BY <1>1, <1>2, <1>3, <1>4

(* What the callers of pump rely on: the slots are filled in the order of  *)
(* the line, statuses change for the admitted job only, and whoever still  *)
(* waits has a fresh packet.                                               *)
LEMMA PumpEffect ==
  ASSUME NEW q \in Seq(Job), Distinct(q),
         NEW r \in SUBSET Job, Cardinality(r) <= Limit,
         NEW pk \in JobPackets,
         \A i \in DOMAIN q : pk[q[i]].status = "queued" /\ q[i] \notin r,
         q = <<>> \/ Cardinality(r) = Limit \/ Cardinality(r) + 1 = Limit
                  \/ (Len(q) = 1 /\ Cardinality(r) < Limit),
         stage \in [Job -> Stages], \A j \in r : stage[j] # "none",
         pump(q, r, pk)
  PROVE  /\ \/ /\ q = <<>> \/ Cardinality(r) = Limit
               /\ queue' = q /\ running' = r
            \/ /\ q # <<>> /\ Cardinality(r) < Limit
               /\ queue' = Tail(q) /\ running' = r \cup {Head(q)}
         /\ queue' \in Seq(Job) /\ Distinct(queue')
         /\ running' \subseteq Job
         /\ Cardinality(running') <= Limit
         /\ queue' # <<>> => Cardinality(running') = Limit
         /\ packet' \in JobPackets
         /\ \A j \in Job : \/ packet'[j].status = pk[j].status
                           \/ /\ pk[j].status = "queued" /\ j \in running' \ r
                              /\ packet'[j].status = "working"
         /\ \A j \in running' \ r : packet'[j].status = "working"
         /\ Fresh(queue', running', packet')
         /\ stage' \in [Job -> Stages]
         /\ \A j \in Job : stage'[j] = "none" <=> j \notin running'
         /\ \A j \in r : stage'[j] = stage[j]
  <1>0. Cardinality(r) \in Nat /\ Limit \in Nat \ {0} /\ IsFiniteSet(r) /\ Len(q) \in Nat
        /\ (q # <<>> => Len(q) >= 1)
    BY RunningFinite, VideoAssumption, LenProperties, EmptySeq
  <1>1. CASE q = <<>> \/ Cardinality(r) = Limit
    <2>1. /\ queue' = q /\ running' = r
          /\ packet' = refreshQueuedPackets(q, r, pk)
          /\ stage' = [j \in Job |-> IF j \in r THEN stage[j] ELSE "none"]
      BY <1>1, PumpNothing
    <2>2. /\ packet' \in JobPackets
          /\ \A j \in Job : packet'[j].status = pk[j].status
          /\ Fresh(queue', running', packet')
      BY <2>1, RefreshEffect
    <2>3. /\ stage' \in [Job -> Stages]
          /\ \A j \in Job : stage'[j] = "none" <=> j \notin running'
          /\ \A j \in r : stage'[j] = stage[j]
      BY <2>1 DEF Stages
    <2> QED BY <1>0, <1>1, <2>1, <2>2, <2>3
  <1>2. CASE q # <<>> /\ Cardinality(r) < Limit
    <2> DEFINE h == Head(q)
               new == [pk EXCEPT ![h] = [Reported(pk[h], "working") EXCEPT !.data = NoData]]
    <2>1. /\ queue' = Tail(q) /\ running' = r \cup {h}
          /\ packet' = refreshQueuedPackets(Tail(q), r \cup {h}, new)
          /\ stage' = [j \in Job |-> IF j = h THEN "bundle"
                                     ELSE IF j \in r THEN stage[j] ELSE "none"]
      <3>1. Cardinality(r) + 1 = Limit \/ Len(q) = 1
        BY <1>0, <1>2
      <3> QED BY <1>2, <3>1, PumpOne
    <2>2. h \in Job /\ h \notin r /\ pk[h].status = "queued"
      BY <1>2, TailDistinct
    <2>3. Cardinality(r \cup {h}) = Cardinality(r) + 1
      BY <1>0, <2>2, FS_AddElement
    <2>4. Reported(pk[h], "working") = [pk[h] EXCEPT !.status = "working"]
      BY <2>2 DEF Reported
    <2>5. /\ new \in JobPackets /\ new[h].status = "working"
          /\ \A j \in Job \ {h} : new[j] = pk[j]
      BY <2>2, <2>4 DEF JobPackets, Statuses
    <2>6. Tail(q) \in Seq(Job) /\ Distinct(Tail(q)) /\ r \cup {h} \in SUBSET Job
          /\ Len(Tail(q)) = Len(q) - 1
      BY <1>2, <2>2, TailDistinct
    <2>7. \A i \in DOMAIN Tail(q) : new[Tail(q)[i]].status = "queued"
      <3>1. SUFFICES ASSUME NEW i \in DOMAIN Tail(q)
                     PROVE  new[Tail(q)[i]].status = "queued"
        OBVIOUS
      <3>2. i + 1 \in DOMAIN q /\ Tail(q)[i] = q[i + 1] /\ Tail(q)[i] # h
        BY <1>2, TailDistinct
      <3>3. q[i + 1] \in Job
        BY <3>2, ElementOfSeq, LenProperties
      <3> QED BY <2>5, <3>2, <3>3
    <2>8. Cardinality(r \cup {h}) <= Limit
      BY <1>0, <1>2, <2>3
    <2> HIDE DEF new
    <2>9. /\ packet' \in JobPackets
          /\ \A j \in Job : packet'[j].status = new[j].status
          /\ Fresh(queue', running', packet')
      BY <2>1, <2>5, <2>6, <2>7, <2>8, RefreshEffect
    <2>10. /\ stage' \in [Job -> Stages]
           /\ \A j \in Job : stage'[j] = "none" <=> j \notin running'
           /\ \A j \in r : stage'[j] = stage[j]
      BY <2>1, <2>2 DEF Stages
    <2>11. queue' # <<>> => Cardinality(running') = Limit
      <3>1. CASE Len(q) = 1
        BY <2>1, <2>6, <3>1, EmptySeq
      <3>2. CASE Cardinality(r) + 1 = Limit
        BY <2>1, <2>3, <3>2
      <3> QED BY <1>0, <1>2, <3>1, <3>2
    <2>12. \A j \in Job : j # h => packet'[j].status = pk[j].status
      BY <2>5, <2>9
    <2>13. packet'[h].status = "working"
      BY <2>2, <2>5, <2>9
    <2>14. running' \ r = {h}
      BY <2>1, <2>2
    <2> HIDE DEF h
    <2>15. \A j \in Job : \/ packet'[j].status = pk[j].status
                          \/ /\ pk[j].status = "queued" /\ j \in running' \ r
                             /\ packet'[j].status = "working"
      BY <2>2, <2>12, <2>13, <2>14
    <2>16. \A j \in running' \ r : packet'[j].status = "working"
      BY <2>13, <2>14
    <2> QED BY <1>2, <2>1, <2>6, <2>8, <2>9, <2>10, <2>11, <2>15, <2>16 DEF h
  <1> QED BY <1>0, <1>1, <1>2

-----------------------------------------------------------------------------
(* A line stays distinct when a new job joins it or a job leaves it.       *)
LEMMA AppendDistinct ==
  ASSUME NEW q \in Seq(Job), Distinct(q), NEW j \in Job, \A i \in DOMAIN q : q[i] # j
  PROVE  /\ Append(q, j) \in Seq(Job) /\ Distinct(Append(q, j))
         /\ Append(q, j) # <<>> /\ Len(Append(q, j)) = Len(q) + 1
         /\ \A i \in DOMAIN Append(q, j) :
                \/ i \in DOMAIN q /\ Append(q, j)[i] = q[i]
                \/ Append(q, j)[i] = j
  <1>1. /\ Append(q, j) \in Seq(Job) /\ Append(q, j) # <<>>
        /\ Len(Append(q, j)) = Len(q) + 1 /\ Len(q) \in Nat
        /\ DOMAIN q = 1..Len(q) /\ DOMAIN Append(q, j) = 1..(Len(q) + 1)
        /\ \A i \in 1..Len(q) : Append(q, j)[i] = q[i]
        /\ Append(q, j)[Len(q) + 1] = j
    BY AppendProperties, LenProperties
  <1>2. \A i \in DOMAIN Append(q, j) :
            \/ i \in DOMAIN q /\ Append(q, j)[i] = q[i]
            \/ i = Len(q) + 1 /\ Append(q, j)[i] = j
    BY <1>1
  <1>3. Distinct(Append(q, j))
    BY <1>2 DEF Distinct
  <1> QED BY <1>1, <1>2, <1>3

LEMMA RemoveDistinct ==
  ASSUME NEW q \in Seq(Job), Distinct(q), NEW i \in DOMAIN q
  PROVE  /\ RemoveAt(q, i) \in Seq(Job) /\ Distinct(RemoveAt(q, i))
         /\ \A k \in DOMAIN RemoveAt(q, i) :
                \E m \in DOMAIN q : m # i /\ RemoveAt(q, i)[k] = q[m]
         /\ DOMAIN RemoveAt(q, i) = 1..(Len(q) - 1)
         /\ \A k \in DOMAIN RemoveAt(q, i) :
                RemoveAt(q, i)[k] = IF k < i THEN q[k] ELSE q[k + 1]
         /\ q # <<>>
  <1> DEFINE a == SubSeq(q, 1, i - 1)
             b == SubSeq(q, i + 1, Len(q))
             n == Len(q)
  <1>1. n \in Nat /\ DOMAIN q = 1..n /\ i \in 1..n /\ \A k \in 1..n : q[k] \in Job
    BY LenProperties, ElementOfSeq
  <1>2. /\ a \in Seq(Job) /\ Len(a) = i - 1
        /\ \A k \in 1..(i - 1) : a[k] = q[k]
    <2>1. \A k \in 1..(i - 1) : q[k] \in Job
      BY <1>1
    <2>2. /\ a \in Seq(Job) /\ Len(a) = (IF 1 <= i - 1 THEN i - 1 - 1 + 1 ELSE 0)
          /\ \A k \in 1..(i - 1 - 1 + 1) : a[k] = q[1 + k - 1]
      BY <1>1, <2>1, SubSeqProperties, 1 \in Int, i - 1 \in Int
    <2> HIDE DEF a
    <2> QED BY <1>1, <2>2
  <1>3. /\ b \in Seq(Job) /\ Len(b) = n - i
        /\ \A k \in 1..(n - i) : b[k] = q[i + k]
    <2>1. \A k \in (i + 1)..n : q[k] \in Job
      BY <1>1
    <2>2. /\ b \in Seq(Job) /\ Len(b) = (IF i + 1 <= n THEN n - (i + 1) + 1 ELSE 0)
          /\ \A k \in 1..(n - (i + 1) + 1) : b[k] = q[i + 1 + k - 1]
      BY <1>1, <2>1, SubSeqProperties, i + 1 \in Int, n \in Int
    <2> HIDE DEF b
    <2>3. (IF i + 1 <= n THEN n - (i + 1) + 1 ELSE 0) = n - i /\ n - (i + 1) + 1 = n - i
      BY <1>1
    <2>4. \A k \in 1..(n - i) : i + 1 + k - 1 = i + k
      BY <1>1
    <2>5. \A k \in 1..(n - i) : b[k] = q[i + 1 + k - 1]
      BY <2>2, <2>3
    <2>6. \A k \in 1..(n - i) : b[k] = q[i + k]
      BY <2>4, <2>5
    <2> QED BY <2>2, <2>3, <2>6
  <1>4. RemoveAt(q, i) = a \o b
    BY DEF RemoveAt
  <1> HIDE DEF a, b
  <1>5. /\ RemoveAt(q, i) \in Seq(Job) /\ Len(RemoveAt(q, i)) = n - 1
        /\ \A k \in 1..(n - 1) : RemoveAt(q, i)[k] = IF k <= i - 1 THEN a[k] ELSE b[k - (i - 1)]
    <2>1. Len(a) + Len(b) = n - 1
      BY <1>1, <1>2, <1>3
    <2>2. /\ a \o b \in Seq(Job) /\ Len(a \o b) = Len(a) + Len(b)
          /\ \A k \in 1..(Len(a) + Len(b)) :
                 (a \o b)[k] = IF k <= Len(a) THEN a[k] ELSE b[k - Len(a)]
      BY <1>2, <1>3, ConcatProperties
    <2> QED BY <1>2, <1>4, <2>1, <2>2
  <1>6. DOMAIN RemoveAt(q, i) = 1..(n - 1)
    BY <1>5, LenProperties
  <1>7. \A k \in 1..(n - 1) : RemoveAt(q, i)[k] = IF k < i THEN q[k] ELSE q[k + 1]
    <2> SUFFICES ASSUME NEW k \in 1..(n - 1)
                 PROVE  RemoveAt(q, i)[k] = IF k < i THEN q[k] ELSE q[k + 1]
      OBVIOUS
    <2>1. CASE k < i
      <3>1. k <= i - 1 /\ k \in 1..(i - 1)
        BY <1>1, <2>1
      <3> QED BY <1>2, <1>5, <2>1, <3>1
    <2>2. CASE ~(k < i)
      <3>1. ~(k <= i - 1) /\ k - (i - 1) \in 1..(n - i) /\ i + (k - (i - 1)) = k + 1
        BY <1>1, <2>2
      <3> QED BY <1>3, <1>5, <2>2, <3>1
    <2> QED BY <2>1, <2>2
  <1>8. Distinct(RemoveAt(q, i))
    <2> SUFFICES ASSUME NEW k \in 1..(n - 1), NEW m \in 1..(n - 1),
                        RemoveAt(q, i)[k] = RemoveAt(q, i)[m]
                 PROVE  k = m
      BY <1>6 DEF Distinct
    <2> DEFINE up(x) == IF x < i THEN x ELSE x + 1
    <2>1. up(k) \in 1..n /\ up(m) \in 1..n
      BY <1>1
    <2>2. q[up(k)] = q[up(m)]
      BY <1>7
    <2>3. up(k) = up(m)
      BY <1>1, <2>1, <2>2 DEF Distinct
    <2> QED BY <1>1, <2>3
  <1>9. \A k \in 1..(n - 1) : \E m \in DOMAIN q : m # i /\ RemoveAt(q, i)[k] = q[m]
    <2> SUFFICES ASSUME NEW k \in 1..(n - 1)
                 PROVE  \E m \in DOMAIN q : m # i /\ RemoveAt(q, i)[k] = q[m]
      OBVIOUS
    <2>1. CASE k < i
      <3>1. k \in DOMAIN q /\ k # i /\ RemoveAt(q, i)[k] = q[k]
        BY <1>1, <1>7, <2>1
      <3> QED BY <3>1
    <2>2. CASE ~(k < i)
      <3>1. k + 1 \in DOMAIN q /\ k + 1 # i /\ RemoveAt(q, i)[k] = q[k + 1]
        BY <1>1, <1>7, <2>2
      <3> QED BY <3>1
    <2> QED BY <2>1, <2>2
  <1>10. n = Len(q) /\ DOMAIN RemoveAt(q, i) = 1..(Len(q) - 1)
    BY <1>6
  <1>11. \A k \in DOMAIN RemoveAt(q, i) :
             RemoveAt(q, i)[k] = IF k < i THEN q[k] ELSE q[k + 1]
    BY <1>6, <1>7
  <1>12. \A k \in DOMAIN RemoveAt(q, i) : \E m \in DOMAIN q : m # i /\ RemoveAt(q, i)[k] = q[m]
    BY <1>6, <1>9
  <1> HIDE DEF n
  <1> QED BY <1>1, <1>5, <1>8, <1>10, <1>11, <1>12, EmptySeq

-----------------------------------------------------------------------------
\* One step of OutcomeIsFinal, and one step of the bounded queue.
FinalStep ==
    \A j \in Job : Told(j) =>
        /\ packet'[j].status = packet[j].status
        /\ j \in running' => j \in running

SlotsStep == S!Next \/ (queue' = queue /\ running' = running)

\* A step of j leaves the other running jobs where they are.
Elsewhere(j) == \A k \in running \ {j} : k \in running' /\ stage'[k] = stage[k]

\* With an end comes an outcome, and the line moves up.
EndStep(j) == /\ j \notin running' /\ packet'[j].status \in Ended
              /\ queue # <<>> => queue' = Tail(queue) /\ Head(queue) \in running'

\* With a job in front of it, a job that arrives joins the end of the line.
ArriveStep(j) == queue # <<>> => queue' = Append(queue, j)

(* What the invariant says of waiting and of running jobs.                 *)
LEMMA LineFacts ==
  ASSUME IInv
  PROVE  /\ queue \in Seq(Job) /\ Distinct(queue) /\ packet \in JobPackets
         /\ running \in SUBSET Job /\ flagged \subseteq running
         /\ IsFiniteSet(running) /\ Cardinality(running) \in Nat
         /\ Limit \in Nat \ {0} /\ Cardinality(running) <= Limit
         /\ \A i \in DOMAIN queue : /\ queue[i] \in Job
                                    /\ packet[queue[i]].status = "queued"
                                    /\ queue[i] \notin running
  <1>1. queue \in Seq(Job) /\ running \in SUBSET Job /\ packet \in JobPackets
        /\ flagged \subseteq running /\ Distinct(queue) /\ Cardinality(running) <= Limit
    BY DEF IInv, TypeOK, LineInv, SlotsAreUsed, JobPackets
  <1>2. \A i \in DOMAIN queue : queue[i] \in Job /\ packet[queue[i]].status = "queued"
    <2> SUFFICES ASSUME NEW i \in DOMAIN queue
                 PROVE  queue[i] \in Job /\ packet[queue[i]].status = "queued"
      OBVIOUS
    <2>1. queue[i] \in Job
      BY <1>1, LenProperties, ElementOfSeq
    <2>2. packet[queue[i]] = [status |-> "queued",
                              data |-> [position |-> i, total |-> Len(queue),
                                        running |-> Cardinality(running)]]
      BY DEF IInv, LineInv, Fresh
    <2> QED BY <2>1, <2>2
  <1>3. \A i \in DOMAIN queue : queue[i] \notin running
    BY <1>2 DEF IInv, LineInv
  <1> QED BY <1>1, <1>2, <1>3, RunningFinite, VideoAssumption

(* Module Slots counts as this module does.                                *)
LEMMA SameCount ==
  ASSUME NEW r
  PROVE  S!Cardinality(r) = Cardinality(r)
  BY Zenon DEF S!Cardinality, Cardinality, S!IsFiniteSet, IsFiniteSet

LEMMA EnqueueStep ==
  ASSUME IInv, NEW j \in Job, enqueue(j)
  PROVE  IInv' /\ FinalStep /\ SlotsStep /\ Elsewhere(j) /\ ArriveStep(j)
  <1> DEFINE q == Append(queue, j)
             pk == [packet EXCEPT ![j] = Packet("queued")]
  <1> USE LineFacts
  <1>1. /\ packet[j].status = "none" /\ pump(q, running, pk)
        /\ policy' = policy /\ flagged' = flagged
    BY DEF enqueue
  <1>2. j \notin running /\ \A i \in DOMAIN queue : queue[i] # j
    BY <1>1 DEF IInv, LineInv
  <1>3. /\ q \in Seq(Job) /\ Distinct(q) /\ q # <<>> /\ Len(q) = Len(queue) + 1
        /\ \A i \in DOMAIN q : (i \in DOMAIN queue /\ q[i] = queue[i]) \/ q[i] = j
    BY <1>2, AppendDistinct
  <1>4. /\ pk \in JobPackets /\ pk[j].status = "queued"
        /\ \A k \in Job \ {j} : pk[k] = packet[k]
    BY DEF JobPackets, Packet, Statuses
  <1> HIDE DEF pk
  <1>5. \A i \in DOMAIN q : pk[q[i]].status = "queued" /\ q[i] \notin running
    BY <1>2, <1>3, <1>4
  <1>6. Cardinality(running) = Limit \/ (Len(q) = 1 /\ Cardinality(running) < Limit)
    <2>1. CASE queue = <<>>
      BY <1>3, <2>1, EmptySeq
    <2>2. CASE queue # <<>>
      BY <2>2 DEF IInv, SlotsAreUsed
    <2> QED BY <2>1, <2>2
  <1>7. stage \in [Job -> Stages] /\ \A k \in running : stage[k] # "none"
    BY DEF IInv, TypeOK
  <1> HIDE DEF q
  <1>8. /\ \/ /\ q = <<>> \/ Cardinality(running) = Limit
              /\ queue' = q /\ running' = running
           \/ /\ q # <<>> /\ Cardinality(running) < Limit
              /\ queue' = Tail(q) /\ running' = running \cup {Head(q)}
        /\ queue' \in Seq(Job) /\ Distinct(queue')
        /\ running' \subseteq Job
        /\ Cardinality(running') <= Limit
        /\ queue' # <<>> => Cardinality(running') = Limit
        /\ packet' \in JobPackets
        /\ \A k \in Job : \/ packet'[k].status = pk[k].status
                          \/ /\ pk[k].status = "queued" /\ k \in running' \ running
                             /\ packet'[k].status = "working"
        /\ \A k \in running' \ running : packet'[k].status = "working"
        /\ Fresh(queue', running', packet')
        /\ stage' \in [Job -> Stages]
        /\ \A k \in Job : stage'[k] = "none" <=> k \notin running'
        /\ \A k \in running : stage'[k] = stage[k]
    BY <1>1, <1>3, <1>4, <1>5, <1>6, <1>7, PumpEffect
  <1>9. \A k \in running : packet'[k].status = packet[k].status
    BY <1>2, <1>4, <1>8
  <1>10. running \subseteq running'
    BY <1>8
  <1>11. IInv'
    <2>1. TypeOK'
      BY <1>1, <1>8, <1>10 DEF IInv, TypeOK, JobPackets
    <2>2. SlotsAreUsed'
      BY <1>8 DEF SlotsAreUsed
    <2>3. LineInv'
      BY <1>1, <1>8, <1>9 DEF IInv, LineInv
    <2> QED BY <2>1, <2>2, <2>3 DEF IInv
  <1>12. FinalStep
    BY <1>1, <1>2, <1>4, <1>8 DEF FinalStep, Told
  <1>13. SlotsStep
    <2>0. ~S!Waits(j) /\ j \notin running
      BY <1>2 DEF S!Waits
    <2>1. CASE Cardinality(running) = Limit
      <3>0. queue' = Append(queue, j) /\ running' = running /\ ~(Cardinality(running) < Limit)
        BY <1>3, <1>8, <2>1 DEF q
      <3>1. S!Arrive(j)
        BY <2>0, <3>0, SameCount DEF S!Arrive
      <3> QED BY <3>1 DEF SlotsStep, S!Next
    <2>2. CASE Cardinality(running) < Limit
      <3>1. queue = <<>>
        BY <2>2 DEF IInv, SlotsAreUsed
      <3>2. Head(q) = j /\ Tail(q) = <<>>
        BY <3>1, HeadTailAppend DEF q
      <3>3. queue' = queue /\ running' = running \cup {j}
        BY <1>3, <1>8, <2>2, <3>1, <3>2
      <3>4. S!Arrive(j)
        BY <2>0, <2>2, <3>3, SameCount DEF S!Arrive
      <3> QED BY <3>4 DEF SlotsStep, S!Next
    <2> QED BY <2>1, <2>2
  <1>14. Elsewhere(j)
    BY <1>8, <1>10 DEF Elsewhere
  <1>15. ArriveStep(j)
    BY <1>8 DEF IInv, SlotsAreUsed, ArriveStep, q
  <1> QED BY <1>11, <1>12, <1>13, <1>14, <1>15

LEMMA ExecuteStep ==
  ASSUME IInv, NEW j \in Job, execute(j)
  PROVE  IInv' /\ FinalStep /\ SlotsStep /\ Elsewhere(j) /\ EndStep(j)
  <1> DEFINE r == running \ {j}
             pk == [packet EXCEPT ![j] = Outcome(j)]
  <1> USE LineFacts
  <1>1. /\ stage[j] \in {"returned", "threw"} /\ pump(queue, r, pk)
        /\ policy' = policy /\ flagged' = flagged \ {j}
    BY DEF execute
  <1>2. j \in running /\ packet[j].status \in {"working", "cancelled"}
    BY <1>1 DEF IInv, TypeOK, LineInv
  <1>3. /\ pk \in JobPackets /\ \A k \in Job \ {j} : pk[k] = packet[k]
        /\ pk[j].status \in {"completed", "failed", "cancelled"}
        /\ j \in flagged => pk[j].status = packet[j].status
    <2>1. CASE j \in flagged
      BY <2>1 DEF JobPackets, Outcome, IInv, LineInv
    <2>2. CASE j \notin flagged
      BY <2>2 DEF JobPackets, Outcome, Packet, Statuses
    <2> QED BY <2>1, <2>2
  <1> HIDE DEF pk
  <1>4. \A i \in DOMAIN queue : pk[queue[i]].status = "queued" /\ queue[i] \notin r
    BY <1>2, <1>3
  <1>5. r \in SUBSET Job /\ Cardinality(r) = Cardinality(running) - 1
    BY <1>2, FS_RemoveElement
  <1>6. queue = <<>> \/ Cardinality(r) + 1 = Limit
    BY <1>5 DEF IInv, SlotsAreUsed
  <1>7. stage \in [Job -> Stages] /\ \A k \in r : stage[k] # "none"
    BY DEF IInv, TypeOK
  <1>8. Cardinality(r) \in Nat /\ Cardinality(r) < Limit /\ Cardinality(r) <= Limit
    BY <1>5, RunningFinite
  <1>9. /\ \/ /\ queue = <<>> \/ Cardinality(r) = Limit
              /\ queue' = queue /\ running' = r
           \/ /\ queue # <<>> /\ Cardinality(r) < Limit
              /\ queue' = Tail(queue) /\ running' = r \cup {Head(queue)}
        /\ queue' \in Seq(Job) /\ Distinct(queue')
        /\ running' \subseteq Job
        /\ Cardinality(running') <= Limit
        /\ queue' # <<>> => Cardinality(running') = Limit
        /\ packet' \in JobPackets
        /\ \A k \in Job : \/ packet'[k].status = pk[k].status
                          \/ /\ pk[k].status = "queued" /\ k \in running' \ r
                             /\ packet'[k].status = "working"
        /\ \A k \in running' \ r : packet'[k].status = "working"
        /\ Fresh(queue', running', packet')
        /\ stage' \in [Job -> Stages]
        /\ \A k \in Job : stage'[k] = "none" <=> k \notin running'
        /\ \A k \in r : stage'[k] = stage[k]
    <2> HIDE DEF r
    <2> QED BY <1>1, <1>3, <1>4, <1>5, <1>6, <1>7, <1>8, PumpEffect
  <1>10. \A k \in r : packet'[k].status = packet[k].status
    BY <1>3, <1>9
  <1>11. r \subseteq running'
    BY <1>9
  <1>12. IInv'
    <2>1. TypeOK'
      BY <1>1, <1>9, <1>11 DEF IInv, TypeOK, JobPackets
    <2>2. SlotsAreUsed'
      BY <1>9 DEF SlotsAreUsed
    <2>3. \A k \in running' : packet'[k].status \in {"working", "cancelled"}
      BY <1>9, <1>10 DEF IInv, LineInv
    <2>4. \A k \in flagged' : packet'[k].status = "cancelled"
      BY <1>1, <1>10 DEF IInv, LineInv
    <2> QED BY <1>9, <2>1, <2>2, <2>3, <2>4 DEF IInv, LineInv
  <1>13. FinalStep
    <2> SUFFICES ASSUME NEW k \in Job, Told(k)
                 PROVE  packet'[k].status = packet[k].status /\ (k \in running' => k \in running)
      BY DEF FinalStep
    <2>1. packet[k].status \in {"completed", "failed", "cancelled"}
      BY DEF Told
    <2>2. pk[k].status = packet[k].status
      BY <1>2, <1>3 DEF Told
    <2> QED BY <1>9, <2>1, <2>2
  <1>14. SlotsStep
    <2>1. CASE queue = <<>>
      <3>1. S!End(j)
        BY <1>2, <1>9, <2>1 DEF S!End
      <3> QED BY <3>1 DEF SlotsStep, S!Next
    <2>2. CASE queue # <<>>
      <3>1. S!End(j)
        BY <1>2, <1>8, <1>9, <2>2 DEF S!End
      <3> QED BY <3>1 DEF SlotsStep, S!Next
    <2> QED BY <2>1, <2>2
  <1>15. Elsewhere(j)
    BY <1>9, <1>11 DEF Elsewhere
  <1>16. EndStep(j)
    <2>1. j \notin running'
      BY <1>2, <1>9, EmptySeq, HeadTailProperties
    <2>2. packet'[j].status \in Ended
      BY <1>2, <1>3, <1>9 DEF Ended
    <2>3. queue # <<>> => queue' = Tail(queue) /\ Head(queue) \in running'
      BY <1>8, <1>9
    <2> QED BY <2>1, <2>2, <2>3 DEF EndStep
  <1> QED BY <1>12, <1>13, <1>14, <1>15, <1>16

LEMMA CancelQueuedStep ==
  ASSUME IInv, NEW j \in Job, cancelQueued(j)
  PROVE  /\ IInv' /\ FinalStep /\ SlotsStep /\ Elsewhere(j)
         /\ packet'[j].status = "cancelled"
  <1> DEFINE pk == [packet EXCEPT ![j] = Packet("cancelled")]
  <1> USE LineFacts
  <1>1. PICK i \in DOMAIN queue :
            /\ queue[i] = j /\ queue' = RemoveAt(queue, i)
            /\ packet' = refreshQueuedPackets(queue', running, pk)
            /\ policy' = policy /\ running' = running /\ flagged' = flagged /\ stage' = stage
    BY DEF cancelQueued
  <1>2. /\ queue' \in Seq(Job) /\ Distinct(queue') /\ queue # <<>>
        /\ \A k \in DOMAIN queue' : \E m \in DOMAIN queue : m # i /\ queue'[k] = queue[m]
    BY <1>1, RemoveDistinct
  <1>3. /\ pk \in JobPackets /\ pk[j].status = "cancelled"
        /\ \A k \in Job \ {j} : pk[k] = packet[k]
    BY DEF JobPackets, Packet, Statuses
  <1> HIDE DEF pk
  <1>4. packet[j].status = "queued" /\ j \notin running
    BY <1>1
  <1>5. \A k \in DOMAIN queue' : pk[queue'[k]].status = "queued"
    <2> SUFFICES ASSUME NEW k \in DOMAIN queue'
                 PROVE  pk[queue'[k]].status = "queued"
      OBVIOUS
    <2>1. PICK m \in DOMAIN queue : m # i /\ queue'[k] = queue[m]
      BY <1>2
    <2>2. queue[m] # j /\ queue[m] \in Job
      BY <1>1, <2>1 DEF Distinct
    <2> QED BY <1>3, <2>1, <2>2
  <1>6. /\ packet' \in JobPackets
        /\ \A k \in Job : packet'[k].status = pk[k].status
        /\ Fresh(queue', running, packet')
    <2> DEFINE q == RemoveAt(queue, i)
    <2>1. /\ q \in Seq(Job) /\ Distinct(q) /\ queue' = q
          /\ \A k \in DOMAIN q : pk[q[k]].status = "queued"
      BY <1>1, <1>2, <1>5
    <2>2. packet' = refreshQueuedPackets(q, running, pk)
      BY <1>1, <2>1
    <2> HIDE DEF q
    <2>3. /\ packet' \in JobPackets
          /\ \A k \in Job : packet'[k].status = pk[k].status
          /\ Fresh(q, running, packet')
      BY <1>3, <2>1, <2>2, RefreshEffect
    <2> QED BY <2>1, <2>3
  <1>7. \A k \in Job \ {j} : packet'[k].status = packet[k].status
    BY <1>3, <1>6
  <1>8. IInv'
    <2>1. TypeOK'
      BY <1>1, <1>2, <1>6 DEF IInv, TypeOK, JobPackets
    <2>2. SlotsAreUsed'
      BY <1>1, <1>2 DEF IInv, SlotsAreUsed
    <2>3. LineInv'
      BY <1>1, <1>2, <1>4, <1>6, <1>7 DEF IInv, LineInv
    <2> QED BY <2>1, <2>2, <2>3 DEF IInv
  <1>9. FinalStep
    BY <1>1, <1>4, <1>7 DEF FinalStep, Told
  <1>10. S!Withdraw(j)
    BY <1>1 DEF S!Withdraw, RemoveAt
  <1>11. Elsewhere(j)
    BY <1>1 DEF Elsewhere
  <1> QED BY <1>3, <1>6, <1>8, <1>9, <1>10, <1>11 DEF SlotsStep, S!Next

LEMMA CancelRunningStep ==
  ASSUME IInv, NEW j \in Job, cancelRunning(j)
  PROVE  IInv' /\ FinalStep /\ SlotsStep /\ Elsewhere(j)
  <1> DEFINE pk == [packet EXCEPT ![j] = Packet("cancelled")]
  <1> USE LineFacts
  <1>1. /\ j \in running /\ flagged' = flagged \cup {j}
        /\ packet' = refreshQueuedPackets(queue, running, pk)
        /\ policy' = policy /\ queue' = queue /\ running' = running /\ stage' = stage
    BY DEF cancelRunning
  <1>2. /\ pk \in JobPackets /\ pk[j].status = "cancelled"
        /\ \A k \in Job \ {j} : pk[k] = packet[k]
    BY DEF JobPackets, Packet, Statuses
  <1> HIDE DEF pk
  <1>3. \A i \in DOMAIN queue : pk[queue[i]].status = "queued"
    BY <1>1, <1>2
  <1>4. /\ packet' \in JobPackets
        /\ \A k \in Job : packet'[k].status = pk[k].status
        /\ Fresh(queue, running, packet')
    BY <1>1, <1>2, <1>3, RefreshEffect
  <1>5. /\ packet'[j].status = "cancelled"
        /\ \A k \in Job \ {j} : packet'[k].status = packet[k].status
    BY <1>2, <1>4
  <1>6. IInv'
    <2>1. TypeOK'
      BY <1>1, <1>4 DEF IInv, TypeOK, JobPackets
    <2>2. SlotsAreUsed'
      BY <1>1 DEF IInv, SlotsAreUsed
    <2>3. LineInv'
      BY <1>1, <1>4, <1>5 DEF IInv, LineInv
    <2> QED BY <2>1, <2>2, <2>3 DEF IInv
  <1>7. FinalStep
    BY <1>1, <1>5 DEF FinalStep, Told, IInv, LineInv
  <1> QED BY <1>1, <1>6, <1>7 DEF SlotsStep, Elsewhere

LEMMA RunStep ==
  ASSUME IInv, NEW j \in Job, run(j)
  PROVE  IInv' /\ FinalStep /\ SlotsStep /\ Elsewhere(j)
  <1> USE LineFacts
  <1>1. /\ policy' = policy /\ queue' = queue /\ running' = running /\ flagged' = flagged
        /\ stage[j] \in {"bundle", "backend"}
        /\ \E next \in {"backend", "returned", "threw"} : stage' = [stage EXCEPT ![j] = next]
        /\ \/ packet' = packet
           \/ packet' = [packet EXCEPT ![j] = Reported(@, "working")]
           \/ packet' = [packet EXCEPT ![j] = Reported(@, "cancelled")]
    BY DEF run, BundleWritten, BundleFailed, BackendEnded, BackendFailed, Proceed, Throw
  <1>2. stage \in [Job -> Stages] /\ j \in running /\ packet[j].status \in {"working", "cancelled"}
    BY <1>1 DEF IInv, TypeOK, LineInv
  <1>3. /\ stage' \in [Job -> Stages]
        /\ \A k \in Job : stage'[k] = "none" <=> k \notin running
    BY <1>1, <1>2 DEF IInv, TypeOK, Stages
  <1>4. /\ packet' \in JobPackets
        /\ \A k \in Job \ {j} : packet'[k] = packet[k]
        /\ packet'[j].status \in {"working", "cancelled"}
        /\ packet[j].status = "cancelled" => packet'[j].status = "cancelled"
    BY <1>1, <1>2 DEF Reported, JobPackets, Statuses
  <1>5. \A i \in DOMAIN queue : queue[i] # j
    BY <1>2
  <1>6. Fresh(queue', running', packet')
    BY <1>1, <1>4, <1>5 DEF IInv, LineInv, Fresh
  <1>7. IInv'
    <2>1. TypeOK'
      BY <1>1, <1>3, <1>4 DEF IInv, TypeOK, JobPackets
    <2>2. SlotsAreUsed'
      BY <1>1 DEF IInv, SlotsAreUsed
    <2>3. LineInv'
      BY <1>1, <1>4, <1>6 DEF IInv, LineInv
    <2> QED BY <2>1, <2>2, <2>3 DEF IInv
  <1>8. FinalStep
    BY <1>1, <1>2, <1>4 DEF FinalStep, Told
  <1>9. Elsewhere(j)
    BY <1>1, <1>2 DEF Elsewhere
  <1> QED BY <1>1, <1>7, <1>8, <1>9 DEF SlotsStep

LEMMA InitInv == Init => IInv
  <1> SUFFICES ASSUME Init PROVE IInv
    OBVIOUS
  <1>1. Cardinality({}) = 0
    BY FS_EmptySet
  <1>2. TypeOK
    BY EmptySeq DEF Init, TypeOK, Statuses, Stages
  <1>3. SlotsAreUsed
    BY <1>1, VideoAssumption DEF Init, SlotsAreUsed
  <1>4. LineInv
    BY DEF Init, LineInv, Distinct, Fresh
  <1> QED BY <1>2, <1>3, <1>4 DEF IInv

(* One step of the runtime keeps the invariant, what callers were told,    *)
(* and is a step of the bounded queue or none.                             *)
LEMMA OneStep ==
  ASSUME IInv, [Next]_vars
  PROVE  IInv' /\ FinalStep /\ SlotsStep
  <1>1. CASE Next
    BY <1>1, EnqueueStep, ExecuteStep, CancelQueuedStep, CancelRunningStep, RunStep DEF Next
  <1>2. CASE UNCHANGED vars
    <2>1. IInv'
      BY <1>2 DEF vars, IInv, TypeOK, SlotsAreUsed, LineInv
    <2> QED BY <1>2, <2>1 DEF vars, FinalStep, SlotsStep
  <1> QED BY <1>1, <1>2

(* The inductive invariant: types, slots, and packets that match the line. *)
THEOREM Invariant == Spec => []IInv
  BY InitInv, OneStep, PTL DEF Spec

-----------------------------------------------------------------------------
(* The state of the runtime is well typed.                                 *)
THEOREM TypeCorrect == Spec => []TypeOK
  <1>1. IInv => TypeOK
    BY DEF IInv
  <1> QED BY <1>1, Invariant, PTL

(* No slot is idle while a job waits, and never more jobs run than the     *)
(* policy allows.                                                          *)
THEOREM SlotsUsed == Spec => []SlotsAreUsed
  <1>1. IInv => SlotsAreUsed
    BY DEF IInv
  <1> QED BY <1>1, Invariant, PTL

(* A waiting job's packet always tells its place in line.                  *)
THEOREM DataFresh == Spec => []QueueDataFresh
  <1>1. IInv => QueueDataFresh
    BY DEF IInv, LineInv, Fresh, QueueDataFresh
  <1> QED BY <1>1, Invariant, PTL

(* What a caller was told of a job's outcome stays true.                   *)
THEOREM OutcomeFinal == Spec => OutcomeIsFinal
  <1>1. IInv /\ [Next]_vars => [FinalStep]_vars
    BY OneStep
  <1>2. [FinalStep]_vars <=> [\A j \in Job : Told(j) =>
                                /\ packet'[j].status = packet[j].status
                                /\ j \in running' => j \in running]_vars
    BY DEF FinalStep
  <1> QED BY <1>1, <1>2, Invariant, PTL DEF Spec, OutcomeIsFinal

(* The runtime implements the bounded queue.                               *)
THEOREM Refinement == Spec => ImplementsSlots
  <1>1. Init => S!Init
    BY DEF Init, S!Init
  <1>2. IInv /\ [Next]_vars => [S!Next]_(S!slots)
    BY OneStep DEF SlotsStep, S!slots
  <1> QED BY <1>1, <1>2, Invariant, PTL DEF Spec, ImplementsSlots, S!SlotsSpec

-----------------------------------------------------------------------------
(* Running jobs end, and the line moves.  The guard of run and execute is  *)
(* that the job runs; that they can then take a step is a hypothesis, for  *)
(* ENABLED is out of the provers' reach.                                   *)

Moves(j) == run(j) \/ execute(j)

Able == \A j \in Job : [](j \in running => ENABLED <<Moves(j)>>_vars)

\* j is in its run at this stage.
Runs(j, here) == j \in running /\ stage[j] = here

\* The next stages of run.
Past(j, here) ==
    IF here = "bundle"
    THEN Runs(j, "backend") \/ Runs(j, "returned") \/ Runs(j, "threw")
    ELSE Runs(j, "returned") \/ Runs(j, "threw")

Over(j) == j \notin running /\ packet[j].status \in Ended

\* A running job is moved by nobody else.
LEMMA StaysOrMoves ==
  ASSUME IInv, [Next]_vars, NEW j \in Job, j \in running, ~Moves(j)
  PROVE  j \in running' /\ stage'[j] = stage[j]
<1>1. ASSUME NEW k \in Job, k # j,
             enqueue(k) \/ cancelQueued(k) \/ cancelRunning(k) \/ run(k) \/ execute(k)
      PROVE  j \in running' /\ stage'[j] = stage[j]
  BY <1>1, EnqueueStep, CancelQueuedStep, CancelRunningStep, RunStep, ExecuteStep
     DEF Elsewhere
<1>2. ASSUME enqueue(j) PROVE FALSE
  BY <1>2 DEF enqueue, IInv, LineInv
<1>3. CASE cancelQueued(j) \/ cancelRunning(j)
  BY <1>3 DEF cancelQueued, cancelRunning
<1>4. CASE UNCHANGED vars
  BY <1>4 DEF vars
<1> QED
  BY <1>1, <1>2, <1>3, <1>4 DEF Next, Moves

\* run goes from stage to stage.
LEMMA RunMoves ==
  ASSUME IInv, NEW j \in Job, NEW here \in {"bundle", "backend"}, Runs(j, here), Moves(j)
  PROVE  Past(j, here)'
  BY DEF IInv, TypeOK, Runs, Past, Moves, run, execute, BundleWritten, BundleFailed,
         BackendEnded, BackendFailed, Proceed, Throw

\* execute ends it.
LEMMA ExecuteEnds ==
  ASSUME IInv, NEW j \in Job, NEW here \in {"returned", "threw"}, Runs(j, here), Moves(j)
  PROVE  Over(j)' /\ (queue # <<>> => queue' = Tail(queue))
<1>1. execute(j)
  BY DEF Runs, Moves, run, BundleWritten, BundleFailed, BackendEnded, BackendFailed,
         Proceed, Throw
<1> QED
  BY <1>1, ExecuteStep DEF EndStep, Over

Live(j) == /\ []IInv /\ [][Next]_vars
           /\ Fair(j) /\ [](j \in running => ENABLED <<Moves(j)>>_vars)

LEMMA JobLives ==
  ASSUME NEW j \in Job
  PROVE  FairSpec /\ Able => Live(j)
<1>1. FairSpec => Fair(j)
  BY DEF FairSpec
<1>2. Able => [](j \in running => ENABLED <<Moves(j)>>_vars)
  BY DEF Able
<1> QED
  BY <1>1, <1>2, Invariant, PTL DEF FairSpec, Spec, Live

(* A running job gets an outcome and gives its slot back, whatever is      *)
(* enqueued, cancelled or ends beside it.                                  *)
THEOREM RunningJobsEnd ==
  ASSUME NEW j \in Job
  PROVE  FairSpec /\ Able => (j \in running ~> Over(j))
<1>1. ASSUME NEW here \in {"bundle", "backend"}
      PROVE  /\ IInv /\ Runs(j, here) /\ [Next]_vars => Runs(j, here)' \/ Past(j, here)'
             /\ IInv /\ Runs(j, here) /\ <<Moves(j)>>_vars => Past(j, here)'
  BY <1>1, StaysOrMoves, RunMoves DEF Runs
<1>2. ASSUME NEW here \in {"returned", "threw"}
      PROVE  /\ IInv /\ Runs(j, here) /\ [Next]_vars => Runs(j, here)' \/ Over(j)'
             /\ IInv /\ Runs(j, here) /\ <<Moves(j)>>_vars => Over(j)'
  BY <1>2, StaysOrMoves, ExecuteEnds DEF Runs
<1>3. /\ IInv /\ Runs(j, "bundle") /\ [Next]_vars => Runs(j, "bundle")' \/ Past(j, "bundle")'
      /\ IInv /\ Runs(j, "bundle") /\ <<Moves(j)>>_vars => Past(j, "bundle")'
      /\ IInv /\ Runs(j, "backend") /\ [Next]_vars => Runs(j, "backend")' \/ Past(j, "backend")'
      /\ IInv /\ Runs(j, "backend") /\ <<Moves(j)>>_vars => Past(j, "backend")'
      /\ IInv /\ Runs(j, "returned") /\ [Next]_vars => Runs(j, "returned")' \/ Over(j)'
      /\ IInv /\ Runs(j, "returned") /\ <<Moves(j)>>_vars => Over(j)'
      /\ IInv /\ Runs(j, "threw") /\ [Next]_vars => Runs(j, "threw")' \/ Over(j)'
      /\ IInv /\ Runs(j, "threw") /\ <<Moves(j)>>_vars => Over(j)'
  BY <1>1, <1>2
<1>4. /\ Past(j, "bundle") => Runs(j, "backend") \/ Runs(j, "returned") \/ Runs(j, "threw")
      /\ Past(j, "backend") => Runs(j, "returned") \/ Runs(j, "threw")
  BY DEF Past, Runs
<1>5. IInv /\ j \in running =>
         Runs(j, "bundle") \/ Runs(j, "backend") \/ Runs(j, "returned") \/ Runs(j, "threw")
  BY DEF IInv, TypeOK, Stages, Runs
<1>6. /\ Runs(j, "bundle") => j \in running
      /\ Runs(j, "backend") => j \in running
      /\ Runs(j, "returned") => j \in running
      /\ Runs(j, "threw") => j \in running
  BY DEF Runs
<1>7. Live(j) => (j \in running ~> Over(j))
  BY <1>3, <1>4, <1>5, <1>6, PTL DEF Live, Fair, Moves
<1> QED
  BY <1>7, JobLives, PTL

\* j is the n-th in line.
Place(n, j) == n \in DOMAIN queue /\ queue[n] = j

\* k, in its run at this stage, holds a slot that j waits for.
Before(n, j, k, here) == Place(n, j) /\ Runs(k, here)

\* The line moves when k ends.
LEMMA LineMovesUp ==
  ASSUME IInv, NEW n, NEW j \in Job, NEW k \in Job, NEW here \in {"returned", "threw"},
         Before(n, j, k, here), Moves(k)
  PROVE  ~Place(n, j)'
<1> USE LineFacts
<1>1. queue # <<>> /\ queue' = Tail(queue)
  BY ExecuteEnds, EmptySeq DEF Before, Place
<1>2. ASSUME n \in DOMAIN queue', queue'[n] = j PROVE FALSE
  <2>1. n + 1 \in DOMAIN queue /\ queue'[n] = queue[n + 1] /\ n \in Nat
    BY <1>1, <1>2, TailDistinct
  <2>2. n + 1 = n
    BY <1>2, <2>1 DEF Before, Place, Distinct
  <2> QED
    BY <2>1, <2>2
<1> QED
  BY <1>2 DEF Place

LEMMA WaitsForOne ==
  ASSUME NEW n, NEW j \in Job, NEW k \in Job
  PROVE  Live(k) => (Place(n, j) /\ k \in running ~> ~Place(n, j))
<1> DEFINE B(here) == Before(n, j, k, here)
<1>1. /\ IInv /\ B("bundle") /\ [Next]_vars
           => B("bundle")' \/ B("backend")' \/ B("returned")' \/ B("threw")' \/ ~Place(n, j)'
      /\ IInv /\ B("bundle") /\ <<Moves(k)>>_vars
           => B("backend")' \/ B("returned")' \/ B("threw")' \/ ~Place(n, j)'
      /\ IInv /\ B("backend") /\ [Next]_vars
           => B("backend")' \/ B("returned")' \/ B("threw")' \/ ~Place(n, j)'
      /\ IInv /\ B("backend") /\ <<Moves(k)>>_vars
           => B("returned")' \/ B("threw")' \/ ~Place(n, j)'
  BY StaysOrMoves, RunMoves DEF Before, Runs, Past
<1>2. /\ IInv /\ B("returned") /\ [Next]_vars => B("returned")' \/ ~Place(n, j)'
      /\ IInv /\ B("returned") /\ <<Moves(k)>>_vars => ~Place(n, j)'
      /\ IInv /\ B("threw") /\ [Next]_vars => B("threw")' \/ ~Place(n, j)'
      /\ IInv /\ B("threw") /\ <<Moves(k)>>_vars => ~Place(n, j)'
  BY StaysOrMoves, LineMovesUp DEF Before, Runs
<1>3. IInv /\ Place(n, j) /\ k \in running =>
         B("bundle") \/ B("backend") \/ B("returned") \/ B("threw")
  BY DEF IInv, TypeOK, Stages, Runs, Before
<1>4. /\ B("bundle") => k \in running
      /\ B("backend") => k \in running
      /\ B("returned") => k \in running
      /\ B("threw") => k \in running
  BY DEF Runs, Before
<1> HIDE DEF B
<1> QED
  BY <1>1, <1>2, <1>3, <1>4, PTL DEF Live, Fair, Moves

\* j is further ahead than n, has a slot, or is cancelled.
Closer(n, j) == \/ \E m \in 1..(n - 1) : Place(m, j)
                \/ j \in running
                \/ packet[j].status = "cancelled"

(* A place in line is only ever left towards the front, for a slot, or     *)
(* because the job is cancelled.                                           *)
LEMMA PlaceStep ==
  ASSUME IInv, [Next]_vars, NEW n, NEW j \in Job, Place(n, j)
  PROVE  Place(n, j)' \/ Closer(n, j)'
<1> USE LineFacts DEF Place
<1>1. n \in 1..Len(queue) /\ Len(queue) \in Nat /\ queue # <<>>
  BY LenProperties, EmptySeq
<1>2. ASSUME NEW k \in Job, enqueue(k) PROVE Place(n, j)'
  BY <1>1, <1>2, EnqueueStep, AppendProperties DEF ArriveStep
<1>3. ASSUME NEW k \in Job, cancelQueued(k) PROVE Place(n, j)' \/ Closer(n, j)'
  <2>1. CASE k = j
    BY <1>3, <2>1, CancelQueuedStep DEF Closer
  <2>2. CASE k # j
    <3>1. PICK i \in DOMAIN queue : queue[i] = k /\ queue' = RemoveAt(queue, i)
      BY <1>3 DEF cancelQueued
    <3>2. i # n /\ i \in 1..Len(queue)
      BY <2>2, <3>1, LenProperties
    <3>3. CASE n < i
      BY <1>1, <3>1, <3>2, <3>3, RemoveDistinct
    <3>4. CASE i < n
      <4> DEFINE m == n - 1
      <4>1. m \in 1..(Len(queue) - 1) /\ m \in 1..(n - 1) /\ m + 1 = n /\ ~(m < i)
        BY <1>1, <3>2, <3>4
      <4>2. m \in DOMAIN queue' /\ queue'[m] = queue[m + 1]
        <5>1. /\ DOMAIN queue' = 1..(Len(queue) - 1)
              /\ \A x \in DOMAIN queue' :
                     queue'[x] = IF x < i THEN queue[x] ELSE queue[x + 1]
          <6>1. queue \in Seq(Job) /\ Distinct(queue)
            OBVIOUS
          <6> HIDE LineFacts
          <6>2. /\ DOMAIN RemoveAt(queue, i) = 1..(Len(queue) - 1)
                /\ \A x \in DOMAIN RemoveAt(queue, i) : RemoveAt(queue, i)[x] =
                       IF x < i THEN queue[x] ELSE queue[x + 1]
            BY <6>1, RemoveDistinct
          <6> QED BY <3>1, <6>2
        <5> HIDE DEF m
        <5> QED BY <4>1, <5>1
      <4> QED
        BY <4>1, <4>2 DEF Closer
    <3> QED
      BY <1>1, <3>2, <3>3, <3>4
  <2> QED
    BY <2>1, <2>2
<1>4. ASSUME NEW k \in Job, cancelRunning(k) \/ run(k) PROVE Place(n, j)'
  BY <1>4 DEF cancelRunning, run, BundleWritten, BundleFailed, BackendEnded,
              BackendFailed, Proceed, Throw
<1>5. ASSUME NEW k \in Job, execute(k) PROVE Closer(n, j)'
  <2>1. queue' = Tail(queue) /\ Head(queue) \in running'
    BY <1>1, <1>5, ExecuteStep DEF EndStep
  <2>2. CASE n = 1
    BY <2>1, <2>2, <1>1, HeadTailProperties DEF Closer
  <2>3. CASE n # 1
    <3>1. /\ DOMAIN queue' = 1..(Len(queue) - 1)
          /\ \A i \in DOMAIN queue' : queue'[i] = queue[i + 1]
      BY <1>1, <2>1, TailDistinct
    <3> DEFINE m == n - 1
    <3>2. m \in 1..(Len(queue) - 1) /\ m \in 1..(n - 1) /\ m + 1 = n
      BY <1>1, <2>3
    <3>3. m \in DOMAIN queue' /\ queue'[m] = queue[m + 1] /\ m + 1 = n
      <4> HIDE DEF m
      <4> QED BY <3>1, <3>2
    <3> QED
      BY <3>2, <3>3, <1>1 DEF Closer
  <2> QED
    BY <2>2, <2>3
<1>6. CASE UNCHANGED vars
  BY <1>6 DEF vars
<1> QED
  BY <1>2, <1>3, <1>4, <1>5, <1>6 DEF Next

(* The line moves: whatever is in front of it, the n-th job in line comes  *)
(* nearer, gets a slot or is cancelled.                                    *)
THEOREM LineMoves ==
  ASSUME NEW n, NEW j \in Job
  PROVE  FairSpec /\ Able => (Place(n, j) ~> Closer(n, j))
<1> DEFINE Leaves == <>~Place(n, j)
           For(k) == Place(n, j) /\ k \in running => Leaves
           Always(k) == []For(k)
           AnyJob == \A k \in Job : For(k)
<1>1. ASSUME NEW k \in Job PROVE FairSpec /\ Able => Always(k)
  <2>1. FairSpec /\ Able => Live(k)
    BY <1>1, JobLives
  <2>2. Live(k) => (Place(n, j) /\ k \in running ~> ~Place(n, j))
    BY <1>1, WaitsForOne
  <2> QED
    BY <2>1, <2>2, PTL
<1>2. (\A k \in Job : Always(k)) => []AnyJob
  <2> HIDE DEF For
  <2> QED
    OBVIOUS
<1>3. IInv /\ Place(n, j) => \E k \in Job : k \in running
  <2> SUFFICES ASSUME IInv, Place(n, j), running = {} PROVE FALSE
    BY DEF IInv, TypeOK
  <2>1. queue # <<>> /\ Cardinality(running) = Limit /\ Limit # 0
    BY LineFacts, EmptySeq DEF IInv, SlotsAreUsed, Place
  <2> QED
    BY <2>1, FS_EmptySet
<1> HIDE DEF Leaves
<1>4. IInv /\ AnyJob /\ Place(n, j) => Leaves
  BY <1>3
<1> HIDE DEF Always
<1>5. FairSpec /\ Able => \A k \in Job : Always(k)
  BY <1>1
<1> HIDE DEF AnyJob
<1>6. IInv /\ Place(n, j) /\ [Next]_vars => Place(n, j)' \/ Closer(n, j)'
  BY PlaceStep
<1> QED
  BY <1>2, <1>4, <1>5, <1>6, Invariant, PTL DEF FairSpec, Spec, Leaves
=============================================================================
