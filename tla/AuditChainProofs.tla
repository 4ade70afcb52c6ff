-------------------------- MODULE AuditChainProofs --------------------------
(***************************************************************************)
(* Proofs about the audit trail.  verify is a recursion over the file, and *)
(* instead of an induction over the entries the proof goes along the steps *)
(* that append them: for each day there is exactly one function that walks *)
(* through its file as verify does (WalkInv), an append extends it by one  *)
(* value, and what verify would find is carried along with it (Found).     *)
(***************************************************************************)
EXTENDS AuditChain, TLAPS

\* What may happen to the trail.
AuditNext == \/ \E p \in Proc : Restart(p) \/ \E what : record(p, what)
             \/ Midnight
             \/ UNCHANGED audit

DayFile(d) == {i \in DOMAIN trail : trail[i].day = d /\ trail[i].kept}

\* prev is the last entry before i of the life that made i, or 0.
LinkedInLife(i) ==
    /\ trail[i].prev # 0 => trail[i].prev \in 1..(i - 1) /\ SameLife(trail[i].prev, i)
    /\ \A k \in 1..(i - 1) : SameLife(k, i) => k <= trail[i].prev

\* lastHash is the last entry of the life that p is in, or 0.
LastInLife(p) ==
    /\ lastHash[p] # 0 => /\ trail[lastHash[p]].by = p
                          /\ trail[lastHash[p]].life = life[p]
    /\ \A k \in DOMAIN trail :
          trail[k].by = p /\ trail[k].life = life[p] => k <= lastHash[p]

LifeInv ==
    /\ \A i \in DOMAIN trail : trail[i].life <= life[trail[i].by] /\ LinkedInLife(i)
    /\ \A p \in Proc : LastInLife(p)

\* f goes through the file of day d as verify does.
Walk(d, f) ==
    /\ f = [i \in 0..Len(trail) |-> f[i]]
    /\ f[0] = 0
    /\ \A i \in 1..Len(trail) :
          f[i] = IF i \in DayFile(d) /\ trail[i].prev = f[i - 1] THEN i ELSE f[i - 1]

Accepts(d, f) == \A j \in DayFile(d) : trail[j].prev = f[j - 1]

WholeDay(d) == \A i \in DayFile(d) : /\ \A j \in DayFile(d) : SameLife(i, j)
                                     /\ Earlier(i) \subseteq DayFile(d)

Opens(d, e) == e \in DayFile(d) /\ \A j \in DayFile(d) : e <= j

\* What is known of the walk: where it stands; that it stands at the last entry and
\* the file is whole if it accepts all; that some entry opens the file; and that it
\* follows the life that opened it while all its entries are in the file.
Found(d, f) ==
    /\ f[Len(trail)] \in DayFile(d) \cup {0}
    /\ Accepts(d, f) => WholeDay(d) /\ \A j \in DayFile(d) : j <= f[Len(trail)]
    /\ DayFile(d) # {} => \E e \in DayFile(d) : Opens(d, e)
    /\ \A e \in DayFile(d) :
          /\ Opens(d, e)
          /\ \A k \in DOMAIN trail : SameLife(k, e) => k \in DayFile(d)
          => /\ f[Len(trail)] # 0 /\ SameLife(f[Len(trail)], e)
             /\ \A k \in DOMAIN trail : SameLife(k, e) => k <= f[Len(trail)]
    /\ \A e, i \in DayFile(d) :
          Opens(d, e) /\ SameLife(e, i) /\ Earlier(i) \subseteq DayFile(d)
          => trail[i].prev = f[i - 1]

WalkInv(d) == \E f : /\ Walk(d, f) /\ Found(d, f)
                     /\ \A g : Walk(d, g) => g = f

TrailInv == LifeInv /\ \A d \in 1..MaxDays : WalkInv(d)

-----------------------------------------------------------------------------
(* The earlier entries of a life, before and after a step.                 *)
LEMMA EarlierLife ==
  \A i, j : /\ j \in Earlier(i) <=> j \in 1..i /\ SameLife(j, i)
            /\ j \in Earlier(i)' <=> j \in 1..i /\ SameLife(j, i)'
BY DEF Earlier, SameLife

(* What record does to the trail.                                          *)
LEMMA RecordEffect ==
  ASSUME NEW Fact, AuditTypeOK(Fact), NEW p \in Proc, NEW what, record(p, what)
  PROVE  /\ Len(trail) \in Nat /\ Len(trail') = Len(trail) + 1
         /\ DOMAIN trail = 1..Len(trail) /\ DOMAIN trail' = 1..(Len(trail) + 1)
         /\ \A i \in 1..Len(trail) : trail'[i] = trail[i]
         /\ trail'[Len(trail) + 1].by = p
         /\ trail'[Len(trail) + 1].life = life[p]
         /\ trail'[Len(trail) + 1].prev = lastHash[p]
         /\ lastHash' = [lastHash EXCEPT ![p] = Len(trail) + 1]
         /\ UNCHANGED <<life, today>>
<1>1. PICK ok \in Kept : trail' = Append(trail, Entry(p, what, ok))
  BY DEF record
<1>2. trail \in Seq(AuditEntry(Fact)) /\ Len(trail) \in Nat
  BY DEF AuditTypeOK
<1>3. /\ Len(trail') = Len(trail) + 1 /\ trail'[Len(trail) + 1] = Entry(p, what, ok)
      /\ DOMAIN trail = 1..Len(trail) /\ DOMAIN trail' = 1..(Len(trail) + 1)
      /\ \A i \in 1..Len(trail) : trail'[i] = trail[i]
  BY <1>1, <1>2
<1> QED
  BY <1>2, <1>3 DEF record, Entry

(* Entries are linked to the one before of the same life, whatever happens.*)
LEMMA NextLifeInv ==
  ASSUME NEW Fact, AuditTypeOK(Fact), LifeInv, AuditNext
  PROVE  LifeInv'
<1>t. /\ trail \in Seq(AuditEntry(Fact)) /\ Len(trail) \in Nat
      /\ lastHash \in [Proc -> 0..Len(trail)] /\ life \in [Proc -> Nat]
      /\ DOMAIN trail = 1..Len(trail)
      /\ \A i \in DOMAIN trail : trail[i].by \in Proc /\ trail[i].life \in Nat
                                 /\ trail[i].prev \in Nat
  <2>1. trail \in Seq(AuditEntry(Fact))
    BY DEF AuditTypeOK
  <2>2. \A i \in DOMAIN trail : trail[i] \in AuditEntry(Fact)
    BY <2>1
  <2>3. Len(trail) \in Nat /\ DOMAIN trail = 1..Len(trail)
    BY <2>1
  <2> QED
    BY <2>1, <2>2, <2>3 DEF AuditTypeOK, AuditEntry
<1>1. CASE UNCHANGED <<trail, lastHash, life>>
  BY <1>1 DEF LifeInv, LinkedInLife, LastInLife, SameLife
<1>2. ASSUME NEW p \in Proc, Restart(p) PROVE LifeInv'
  <2>1. /\ trail' = trail /\ lastHash' = [lastHash EXCEPT ![p] = 0]
        /\ life' = IF lastHash[p] = 0 THEN life ELSE [life EXCEPT ![p] = @ + 1]
    BY <1>2 DEF Restart
  <2>2. \A q \in Proc : life[q] <= life'[q]
    BY <2>1, <1>t
  <2>3. ASSUME NEW i \in DOMAIN trail
        PROVE trail[i].life <= life'[trail[i].by] /\ LinkedInLife(i)'
    <3>1. trail[i].life <= life[trail[i].by] /\ LinkedInLife(i)
      BY DEF LifeInv
    <3>2. LinkedInLife(i)'
      BY <2>1, <3>1 DEF LinkedInLife, SameLife
    <3>3. life' \in [Proc -> Nat]
      BY <2>1, <1>t
    <3> QED
      BY <1>t, <2>2, <3>1, <3>2, <3>3
  <2>4. ASSUME NEW q \in Proc, q # p PROVE LastInLife(q)'
    BY <2>1, <2>4, <1>t DEF LifeInv, LastInLife
  <2>5. LastInLife(p)'
    <3>1. lastHash'[p] = 0
      BY <2>1, <1>t
    <3>2. ASSUME NEW k \in DOMAIN trail, trail[k].by = p PROVE trail[k].life # life'[p]
      <4>1. CASE lastHash[p] = 0
        BY <2>1, <3>2, <4>1, <1>t DEF LifeInv, LastInLife
      <4>2. CASE lastHash[p] # 0
        <5>1. trail[k].life <= life[p] /\ life'[p] = life[p] + 1
          BY <2>1, <3>2, <4>2, <1>t DEF LifeInv
        <5> QED BY <5>1, <1>t
      <4> QED BY <4>1, <4>2
    <3> QED
      BY <2>1, <3>1, <3>2 DEF LastInLife
  <2> QED
    BY <2>1, <2>3, <2>4, <2>5 DEF LifeInv
<1>3. ASSUME NEW p \in Proc, NEW what, record(p, what) PROVE LifeInv'
  <2>0. PICK n \in Nat : n = Len(trail)
    BY <1>t
  <2>1. /\ DOMAIN trail' = 1..(n + 1) /\ \A i \in 1..n : trail'[i] = trail[i]
        /\ trail'[n + 1].by = p /\ trail'[n + 1].life = life[p]
        /\ trail'[n + 1].prev = lastHash[p]
        /\ lastHash' = [lastHash EXCEPT ![p] = n + 1] /\ life' = life
    BY <1>3, <2>0, RecordEffect
  <2>2. n \in Nat /\ DOMAIN trail = 1..n
    BY <1>t, <2>0
  <2>3. ASSUME NEW i \in 1..n
        PROVE trail'[i].life <= life'[trail'[i].by] /\ LinkedInLife(i)'
    <3>1. trail[i].life <= life[trail[i].by] /\ LinkedInLife(i)
      BY <2>2 DEF LifeInv
    <3>2. \A k \in 1..i : k \in 1..n /\ trail'[k] = trail[k]
      BY <2>1, <2>2
    <3>3. LinkedInLife(i)'
      BY <3>1, <3>2, <2>1, <2>2 DEF LinkedInLife, SameLife
    <3> QED
      BY <2>1, <3>1, <3>3
  <2>4. trail'[n + 1].life <= life'[trail'[n + 1].by] /\ LinkedInLife(n + 1)'
    <3>0. PICK h \in 0..n : h = lastHash[p]
      BY <1>t, <2>0
    <3>1. LastInLife(p) /\ trail'[n + 1].prev = h
      BY <3>0, <2>1 DEF LifeInv
    <3>2. h # 0 => SameLife(h, n + 1)'
      BY <3>0, <3>1, <2>1, <2>2 DEF LastInLife, SameLife
    <3>3. ASSUME NEW k \in 1..n, SameLife(k, n + 1)' PROVE k <= h
      BY <3>0, <3>1, <3>3, <2>1, <2>2 DEF LastInLife, SameLife
    <3>4. (n + 1) - 1 = n
      BY <2>2
    <3>5. LinkedInLife(n + 1)'
      BY <3>1, <3>2, <3>3, <3>4, <2>2 DEF LinkedInLife
    <3> QED
      BY <3>5, <2>1, <1>t
  <2>5. ASSUME NEW q \in Proc PROVE LastInLife(q)'
    <3>1. LastInLife(q) /\ lastHash[q] \in 0..n
      BY <1>t, <2>0 DEF LifeInv
    <3>2. CASE q = p
      <4>1. lastHash'[q] = n + 1
        BY <3>2, <2>1, <1>t
      <4> QED
        BY <4>1, <3>2, <2>1, <2>2 DEF LastInLife
    <3>3. CASE q # p
      <4>1. lastHash'[q] = lastHash[q]
        BY <3>3, <2>1, <1>t
      <4>2. lastHash[q] # 0 => trail'[lastHash[q]] = trail[lastHash[q]]
        BY <3>1, <2>1, <2>2
      <4> QED
        BY <4>1, <4>2, <3>1, <3>3, <2>1, <2>2 DEF LastInLife
    <3> QED BY <3>2, <3>3
  <2>6. \A i \in 1..(n + 1) : i \in 1..n \/ i = n + 1
    BY <2>2
  <2> QED
    BY <2>1, <2>3, <2>4, <2>5, <2>6 DEF LifeInv
<1> QED
  BY <1>1, <1>2, <1>3 DEF AuditNext, Midnight, audit

-----------------------------------------------------------------------------
(* An append that leads from n to n + 1 entries: the file of a day has the *)
(* new entry more or is as it was.                                         *)
Appended(n) ==
    /\ n \in Nat
    /\ Len(trail) = n /\ DOMAIN trail = 1..n
    /\ Len(trail') = n + 1 /\ DOMAIN trail' = 1..(n + 1)
    /\ \A i \in 1..n : trail'[i] = trail[i]

LEMMA DayFileGrows ==
  ASSUME NEW n, Appended(n), NEW d
  PROVE  /\ DayFile(d) \subseteq 1..n
         /\ DayFile(d)' \in {DayFile(d), DayFile(d) \cup {n + 1}}
         /\ \A i, j \in 1..n : SameLife(i, j)' <=> SameLife(i, j)
         /\ \A i \in 1..n : Earlier(i)' = Earlier(i)
         /\ \A e \in 1..n : Opens(d, e)' <=> Opens(d, e)
         /\ \A i \in DayFile(d) : i \in DayFile(d)'
<1>1. DayFile(d) \subseteq 1..n
  BY DEF DayFile, Appended
<1>2. ASSUME NEW i \in 1..n PROVE i \in DayFile(d)' <=> i \in DayFile(d)
  BY DEF DayFile, Appended
<1>3. DayFile(d)' \subseteq 1..(n + 1) /\ n \in Nat
  BY DEF DayFile, Appended
<1>4. \A i \in 1..(n + 1) : i \in 1..n \/ i = n + 1
  BY <1>3
<1>5. DayFile(d)' \in {DayFile(d), DayFile(d) \cup {n + 1}}
  BY <1>1, <1>2, <1>3, <1>4
<1>6. \A i, j \in 1..n : SameLife(i, j)' <=> SameLife(i, j)
  BY DEF SameLife, Appended
<1>7. ASSUME NEW i \in 1..n PROVE Earlier(i)' = Earlier(i)
  <2>1. \A j \in 1..i : j \in 1..n
    BY <1>3
  <2> QED
    BY <1>6, <2>1 DEF Earlier
<1>8. ASSUME NEW e \in 1..n PROVE Opens(d, e)' <=> Opens(d, e)
  BY <1>1, <1>2, <1>3, <1>5 DEF Opens
<1> QED
  BY <1>1, <1>2, <1>5, <1>6, <1>7, <1>8

(* One walk, extended by one value, is the only one through the new file.  *)
LEMMA WalkGrows ==
  ASSUME NEW n, Appended(n), NEW d, NEW f, Walk(d, f), \A g : Walk(d, g) => g = f
  PROVE  \E h : /\ Walk(d, h)'
                /\ \A i \in 0..n : h[i] = f[i]
                /\ \A g : Walk(d, g)' => g = h
<1> DEFINE last == IF n + 1 \in DayFile(d)' /\ trail'[n + 1].prev = f[n]
                   THEN n + 1 ELSE f[n]
<1>h. PICK h : h = [i \in 0..(n + 1) |-> IF i = n + 1 THEN last ELSE f[i]]
  OBVIOUS
<1>0. /\ n \in Nat /\ Len(trail) = n /\ Len(trail') = n + 1
      /\ \A i \in 1..n : trail'[i] = trail[i]
      /\ \A i \in 1..n : i \in DayFile(d)' <=> i \in DayFile(d)
  BY DEF Appended, DayFile
<1>1. /\ h = [i \in 0..(n + 1) |-> h[i]] /\ h[n + 1] = last
      /\ \A i \in 0..n : h[i] = f[i]
  BY <1>0, <1>h
<1>2. \A i \in 1..(n + 1) : i \in 1..n \/ i = n + 1
  BY <1>0
<1>3. \A i \in 1..n : i - 1 \in 0..n /\ i \in 0..n
  BY <1>0
<1>4. /\ f = [i \in 0..n |-> f[i]] /\ f[0] = 0
      /\ \A i \in 1..n : f[i] = IF i \in DayFile(d) /\ trail[i].prev = f[i - 1]
                                THEN i ELSE f[i - 1]
  BY <1>0 DEF Walk
<1>5. (n + 1) - 1 = n /\ n \in 0..n /\ 0 \in 0..n
  BY <1>0
<1>6. ASSUME NEW i \in 1..(n + 1)
      PROVE h[i] = IF i \in DayFile(d)' /\ trail'[i].prev = h[i - 1] THEN i ELSE h[i - 1]
  <2>1. CASE i \in 1..n
    BY <2>1, <1>0, <1>1, <1>3, <1>4
  <2>2. CASE i = n + 1
    BY <2>2, <1>1, <1>5
  <2> QED
    BY <2>1, <2>2, <1>2
<1>7. ASSUME NEW g,
             /\ g = [i \in 0..(n + 1) |-> g[i]]
             /\ g[0] = 0
             /\ \A i \in 1..(n + 1) :
                   g[i] = IF i \in DayFile(d)' /\ trail'[i].prev = g[i - 1]
                          THEN i ELSE g[i - 1]
      PROVE g = h
  <2> DEFINE r == [i \in 0..n |-> g[i]]
  <2>1. \A i \in 0..n : r[i] = g[i]
    OBVIOUS
  <2>2. r = [i \in 0..n |-> r[i]]
    OBVIOUS
  <2> HIDE DEF r
  <2>3. ASSUME NEW i \in 1..n
        PROVE r[i] = IF i \in DayFile(d) /\ trail[i].prev = r[i - 1] THEN i ELSE r[i - 1]
    <3>1. i \in 1..(n + 1)
      BY <1>0
    <3>2. g[i] = IF i \in DayFile(d)' /\ trail'[i].prev = g[i - 1] THEN i ELSE g[i - 1]
      BY <1>7, <3>1
    <3> QED
      BY <3>2, <2>1, <1>0, <1>3
  <2>4. r[0] = 0
    BY <1>5, <1>7, <2>1
  <2>5. Walk(d, r)
    BY <1>0, <2>2, <2>3, <2>4 DEF Walk
  <2>6. \A i \in 0..n : g[i] = f[i]
    BY <2>1, <2>5
  <2>7. n + 1 \in 1..(n + 1)
    BY <1>0
  <2>8. g[n + 1] = last
    BY <1>5, <1>7, <2>6, <2>7
  <2>9. \A i \in 0..(n + 1) : i \in 0..n \/ i = n + 1
    BY <1>0
  <2>10. \A i \in 0..(n + 1) : g[i] = h[i]
    BY <2>6, <2>8, <2>9, <1>1
  <2>11. [i \in 0..(n + 1) |-> g[i]] = [i \in 0..(n + 1) |-> h[i]]
    BY <2>10
  <2> HIDE DEF last
  <2> QED
    BY <2>11, <1>1, <1>7
<1>8. h[0] = 0
  BY <1>1, <1>4, <1>5
<1>9. Walk(d, h)'
  BY <1>0, <1>1, <1>6, <1>8 DEF Walk
<1>10. ASSUME NEW g, Walk(d, g)' PROVE g = h
  BY <1>0, <1>7, <1>10 DEF Walk
<1> QED
  BY <1>1, <1>9, <1>10

(* What was found of the walk is found of the one that goes one entry on.  *)
LEMMA FoundGrows ==
  ASSUME NEW n, Appended(n), NEW d, NEW f, Walk(d, f), Found(d, f),
         LinkedInLife(n + 1)', trail'[n + 1].prev \in Nat,
         NEW h, Walk(d, h)', \A i \in 0..n : h[i] = f[i]
  PROVE  Found(d, h)'
<1>0. /\ n \in Nat /\ Len(trail) = n /\ Len(trail') = n + 1
      /\ DOMAIN trail = 1..n /\ DOMAIN trail' = 1..(n + 1)
      /\ \A i \in 1..n : trail'[i] = trail[i]
      /\ (n + 1) - 1 = n /\ n \in 0..n /\ n + 1 \in 1..(n + 1)
      /\ \A i \in 1..(n + 1) : i \in 1..n \/ i = n + 1
      /\ \A i \in 1..n : i - 1 \in 0..n /\ i # n + 1
  BY DEF Appended
<1>m. PICK m : m = f[n]
  OBVIOUS
<1>p. PICK pv \in Nat : pv = trail'[n + 1].prev
  OBVIOUS
<1>1. /\ DayFile(d) \subseteq 1..n
      /\ DayFile(d)' \in {DayFile(d), DayFile(d) \cup {n + 1}}
      /\ \A i, j \in 1..n : SameLife(i, j)' <=> SameLife(i, j)
      /\ \A i \in 1..n : Earlier(i)' = Earlier(i)
      /\ \A e \in 1..n : Opens(d, e)' <=> Opens(d, e)
      /\ \A i \in DayFile(d) : i \in DayFile(d)'
  BY DayFileGrows
<1>2. \A i, j, k : /\ SameLife(i, j)' => SameLife(j, i)'
                   /\ SameLife(i, j)' /\ SameLife(j, k)' => SameLife(i, k)'
                   /\ SameLife(i, i)'
  BY DEF SameLife
<1>3. /\ pv # 0 => pv \in 1..n /\ SameLife(pv, n + 1)'
      /\ \A k \in 1..n : SameLife(k, n + 1)' => k <= pv
  BY <1>0, <1>p DEF LinkedInLife
<1>4. /\ h[n] = m
      /\ h[n + 1] = IF n + 1 \in DayFile(d)' /\ pv = m THEN n + 1 ELSE m
  <2>1. h[n] = m
    BY <1>0, <1>m
  <2>2. \A i \in 1..Len(trail') :
           h[i] = IF i \in DayFile(d)' /\ trail'[i].prev = h[i - 1] THEN i ELSE h[i - 1]
    BY DEF Walk
  <2>3. h[n + 1] = IF n + 1 \in DayFile(d)' /\ trail'[n + 1].prev = h[(n + 1) - 1]
                   THEN n + 1 ELSE h[(n + 1) - 1]
    BY <1>0, <2>2
  <2> QED
    BY <1>0, <1>p, <2>1, <2>3
<1>5. /\ m \in DayFile(d) \cup {0}
      /\ Accepts(d, f) => WholeDay(d) /\ \A j \in DayFile(d) : j <= m
      /\ DayFile(d) # {} => \E e \in DayFile(d) : Opens(d, e)
      /\ \A e \in DayFile(d) :
            /\ Opens(d, e)
            /\ \A k \in 1..n : SameLife(k, e) => k \in DayFile(d)
            => m # 0 /\ SameLife(m, e) /\ \A k \in 1..n : SameLife(k, e) => k <= m
      /\ \A e, i \in DayFile(d) :
            Opens(d, e) /\ SameLife(e, i) /\ Earlier(i) \subseteq DayFile(d)
            => trail[i].prev = f[i - 1]
  BY <1>0, <1>m DEF Found
<1>6. h[n + 1] \in DayFile(d)' \cup {0}
  BY <1>1, <1>4, <1>5
<1>7. ASSUME Accepts(d, h)'
      PROVE  WholeDay(d)' /\ \A j \in DayFile(d)' : j <= h[n + 1]
  <2>1. \A j \in DayFile(d)' : trail'[j].prev = h[j - 1]
    BY <1>7 DEF Accepts
  <2>2. Accepts(d, f)
    BY <2>1, <1>0, <1>1 DEF Accepts
  <2>3. /\ \A j \in DayFile(d) : j <= m
        /\ \A i, j \in DayFile(d) : SameLife(i, j)'
        /\ \A i \in DayFile(d) : Earlier(i)' \subseteq DayFile(d)
    BY <2>2, <1>1, <1>5 DEF WholeDay
  <2>4. CASE DayFile(d)' = DayFile(d)
    <3>1. h[n + 1] = m
      BY <2>4, <1>0, <1>1, <1>4
    <3> QED
      BY <2>3, <2>4, <3>1 DEF WholeDay
  <2>5. CASE DayFile(d)' = DayFile(d) \cup {n + 1}
    <3>1. pv = m /\ h[n + 1] = n + 1
      BY <2>1, <2>5, <1>0, <1>4, <1>p
    <3>2. \A j \in DayFile(d)' : j <= n + 1
      BY <2>5, <1>0, <1>1
    <3>3. ASSUME NEW i \in DayFile(d) PROVE SameLife(i, n + 1)' /\ SameLife(n + 1, i)'
      <4>1. i \in 1..n /\ i <= m
        BY <1>1, <2>3
      <4>2. m # 0 /\ m \in DayFile(d)
        BY <4>1, <1>0, <1>5
      <4> QED
        BY <3>1, <4>2, <2>3, <1>2, <1>3
    <3>4. ASSUME NEW k \in Earlier(n + 1)' PROVE k \in DayFile(d)'
      <4>1. k \in 1..(n + 1) /\ SameLife(k, n + 1)'
        BY <3>4, EarlierLife
      <4>2. CASE k \in 1..n
        <5>1. k <= m /\ m # 0
          BY <4>1, <4>2, <3>1, <1>0, <1>3
        <5>2. m \in DayFile(d) /\ SameLife(k, m)'
          BY <5>1, <4>1, <3>3, <1>2, <1>5
        <5>3. k \in 1..m
          BY <5>1, <5>2, <4>2, <1>0, <1>1
        <5>4. k \in Earlier(m)'
          BY <5>2, <5>3, EarlierLife
        <5> QED
          BY <5>2, <5>4, <2>3, <2>5
      <4> QED
        BY <4>1, <4>2, <1>0, <2>5
    <3> QED
      BY <2>3, <2>5, <3>1, <3>2, <3>3, <3>4, <1>2 DEF WholeDay
  <2> QED
    BY <2>4, <2>5, <1>1
\* Only an entry before all others opens the file.
<1>8. ASSUME Opens(d, n + 1)' PROVE DayFile(d) = {} /\ DayFile(d)' = {n + 1} /\ m = 0
  <2>1. \A j \in DayFile(d) : n + 1 <= j
    BY <1>8, <1>1 DEF Opens
  <2>2. DayFile(d) = {}
    BY <2>1, <1>0, <1>1
  <2>3. n + 1 \in DayFile(d)'
    BY <1>8 DEF Opens
  <2> QED
    BY <2>2, <2>3, <1>1, <1>5
<1>9. ASSUME DayFile(d)' # {} PROVE \E e \in DayFile(d)' : Opens(d, e)'
  <2>1. CASE DayFile(d) = {}
    <3>1. DayFile(d)' = {n + 1}
      BY <2>1, <1>9, <1>1
    <3> QED
      BY <3>1, <1>0 DEF Opens
  <2>2. CASE DayFile(d) # {}
    <3>1. PICK e \in DayFile(d) : Opens(d, e)
      BY <2>2, <1>5
    <3> QED
      BY <3>1, <1>1
  <2> QED
    BY <2>1, <2>2
\* The new entry follows the last of the life that opened the file, if it is of it.
<1>10. ASSUME NEW e \in DayFile(d), Opens(d, e)',
              \A k \in 1..n : SameLife(k, e)' => k \in DayFile(d)'
       PROVE  /\ m \in 1..n /\ SameLife(m, e)' /\ \A k \in 1..n : SameLife(k, e)' => k <= m
              /\ SameLife(n + 1, e)' <=> pv = m
  <2>1. e \in 1..n /\ Opens(d, e)
    BY <1>1, <1>10
  <2>2. \A k \in 1..n : SameLife(k, e) => k \in DayFile(d)
    BY <2>1, <1>0, <1>1, <1>10
  <2>3. m # 0 /\ SameLife(m, e) /\ \A k \in 1..n : SameLife(k, e) => k <= m
    BY <2>1, <2>2, <1>5
  <2>4. m \in 1..n
    BY <2>3, <1>1, <1>5
  <2>5. SameLife(m, e)' /\ \A k \in 1..n : SameLife(k, e)' => k <= m
    BY <2>1, <2>3, <2>4, <1>1
  <2>6. ASSUME SameLife(n + 1, e)' PROVE pv = m
    <3>1. SameLife(m, n + 1)'
      BY <2>5, <2>6, <1>2
    <3>2. m <= pv
      BY <3>1, <2>4, <1>3
    <3>3. pv \in 1..n /\ SameLife(pv, n + 1)'
      BY <3>2, <2>4, <1>0, <1>3
    <3>4. SameLife(pv, e)'
      BY <3>3, <2>6, <1>2
    <3>5. pv <= m
      BY <3>3, <3>4, <2>5
    <3> QED
      BY <3>2, <3>3, <3>5, <2>4, <1>0
  <2>7. ASSUME pv = m PROVE SameLife(n + 1, e)'
    <3>1. SameLife(pv, n + 1)'
      BY <2>4, <2>7, <1>0, <1>3
    <3> QED
      BY <3>1, <2>5, <2>7, <1>2
  <2> QED
    BY <2>4, <2>5, <2>6, <2>7
<1>11. ASSUME NEW e \in DayFile(d)', Opens(d, e)',
              \A k \in 1..(n + 1) : SameLife(k, e)' => k \in DayFile(d)'
       PROVE  /\ h[n + 1] # 0 /\ SameLife(h[n + 1], e)'
              /\ \A k \in 1..(n + 1) : SameLife(k, e)' => k <= h[n + 1]
  <2>1. CASE e = n + 1
    <3>1. DayFile(d)' = {n + 1} /\ m = 0
      BY <2>1, <1>8, <1>11
    <3>2. \A k \in 1..(n + 1) : SameLife(k, e)' => k = n + 1
      BY <3>1, <1>11
    <3>3. pv = 0
      BY <3>2, <2>1, <1>0, <1>3
    <3>4. h[n + 1] = n + 1
      BY <3>1, <3>3, <1>4
    <3> QED
      BY <3>4, <2>1, <1>0, <1>2
  <2>2. CASE e \in DayFile(d)
    <3>1. \A k \in 1..n : SameLife(k, e)' => k \in DayFile(d)'
      BY <1>0, <1>11
    <3>2. /\ m \in 1..n /\ SameLife(m, e)' /\ \A k \in 1..n : SameLife(k, e)' => k <= m
          /\ SameLife(n + 1, e)' <=> pv = m
      BY <3>1, <2>2, <1>10, <1>11
    <3>3. CASE SameLife(n + 1, e)'
      <4>1. h[n + 1] = n + 1
        BY <3>2, <3>3, <1>0, <1>4, <1>11
      <4> QED
        BY <4>1, <3>3, <1>0
    <3>4. CASE ~SameLife(n + 1, e)'
      <4>1. h[n + 1] = m
        BY <3>2, <3>4, <1>4
      <4> QED
        BY <4>1, <3>2, <3>4, <1>0
    <3> QED
      BY <3>3, <3>4
  <2> QED
    BY <2>1, <2>2, <1>1, <1>11
<1>12. ASSUME NEW e \in DayFile(d)', NEW i \in DayFile(d)', Opens(d, e)', SameLife(e, i)',
              Earlier(i)' \subseteq DayFile(d)'
       PROVE  trail'[i].prev = h[i - 1]
  <2>1. CASE i \in DayFile(d)
    <3>1. e \in DayFile(d)
      BY <2>1, <1>1, <1>8, <1>12
    <3>2. i \in 1..n /\ e \in 1..n
      BY <2>1, <3>1, <1>1
    <3>3. Opens(d, e) /\ SameLife(e, i) /\ Earlier(i) \subseteq DayFile(d)'
      BY <3>2, <1>1, <1>12
    <3>4. Earlier(i) \subseteq 1..n
      BY <3>2, <1>0 DEF Earlier
    <3>5. Earlier(i) \subseteq DayFile(d)
      BY <3>3, <3>4, <1>0, <1>1
    <3>6. trail[i].prev = f[i - 1]
      BY <2>1, <3>1, <3>3, <3>5, <1>5
    <3> QED
      BY <3>2, <3>6, <1>0
  <2>2. CASE i = n + 1
    <3>0. \A k \in 1..n : k \in 1..(n + 1)
      BY <1>0
    <3>1. \A k \in 1..n : SameLife(k, n + 1)' => k \in DayFile(d)'
      <4>1. \A k \in 1..(n + 1) : SameLife(k, n + 1)' => k \in Earlier(n + 1)'
        BY EarlierLife
      <4> QED
        BY <2>2, <3>0, <4>1, <1>12
    <3>2. CASE e = n + 1
      <4>1. DayFile(d)' = {n + 1} /\ m = 0
        BY <3>2, <1>8, <1>12
      <4>2. pv = 0
        BY <4>1, <3>1, <1>0, <1>3
      <4> QED
        BY <2>2, <4>1, <4>2, <1>0, <1>4, <1>p
    <3>3. CASE e \in DayFile(d)
      <4>1. SameLife(n + 1, e)' /\ \A k \in 1..n : SameLife(k, e)' => k \in DayFile(d)'
        BY <2>2, <3>1, <1>2, <1>12
      <4>2. pv = m
        BY <4>1, <3>3, <1>10, <1>12
      <4> QED
        BY <2>2, <4>2, <1>0, <1>4, <1>p
    <3> QED
      BY <3>2, <3>3, <1>1, <1>12
  <2> QED
    BY <2>1, <2>2, <1>1, <1>12
<1> QED
  BY <1>0, <1>6, <1>7, <1>9, <1>11, <1>12 DEF Found

-----------------------------------------------------------------------------
(* At the start nothing was recorded, and the walk stands at 0.            *)
LEMMA InitTrailInv == AuditInit => TrailInv
<1> SUFFICES ASSUME AuditInit PROVE TrailInv
  OBVIOUS
<1>1. /\ Len(trail) = 0 /\ DOMAIN trail = {} /\ 1..0 = {} /\ 0..0 = {0}
      /\ \A p \in Proc : lastHash[p] = 0
  BY DEF AuditInit
<1>2. LifeInv
  BY <1>1 DEF LifeInv, LastInLife
<1>3. ASSUME NEW d PROVE WalkInv(d)
  <2>1. PICK f : f = [i \in 0..0 |-> 0]
    OBVIOUS
  <2>2. f[0] = 0 /\ f = [i \in 0..0 |-> f[i]]
    BY <2>1, <1>1
  <2>3. DayFile(d) = {}
    BY <1>1 DEF DayFile
  <2>4. Walk(d, f)
    BY <2>2, <1>1 DEF Walk
  <2>5. Found(d, f)
    BY <2>2, <2>3, <1>1 DEF Found, WholeDay
  <2>6. ASSUME NEW g, Walk(d, g) PROVE g = f
    <3>1. g = [i \in 0..0 |-> g[i]] /\ g[0] = 0
      BY <2>6, <1>1 DEF Walk
    <3>2. [i \in 0..0 |-> g[i]] = [i \in 0..0 |-> f[i]]
      BY <3>1, <2>2, <1>1
    <3> QED
      BY <3>1, <3>2, <2>2
  <2> QED
    BY <2>4, <2>5, <2>6 DEF WalkInv
<1> QED
  BY <1>2, <1>3 DEF TrailInv

(* Whatever happens to the trail keeps its invariant.                      *)
LEMMA NextTrailInv ==
  ASSUME NEW Fact, AuditTypeOK(Fact), AuditTypeOK(Fact)', TrailInv, AuditNext
  PROVE  TrailInv'
<1>1. LifeInv'
  BY NextLifeInv DEF TrailInv
<1>2. ASSUME NEW d \in 1..MaxDays PROVE WalkInv(d)'
  <2>0. WalkInv(d)
    BY DEF TrailInv
  <2>1. CASE UNCHANGED trail
    <3>1. DayFile(d)' = DayFile(d) /\ Len(trail') = Len(trail) /\ DOMAIN trail' = DOMAIN trail
      BY <2>1 DEF DayFile
    <3>2. /\ \A i, j : SameLife(i, j)' <=> SameLife(i, j)
          /\ \A i : Earlier(i)' = Earlier(i)
          /\ \A e : Opens(d, e)' <=> Opens(d, e)
      BY <2>1, <3>1 DEF SameLife, Earlier, Opens
    <3>3. WholeDay(d)' <=> WholeDay(d)
      BY <3>1, <3>2 DEF WholeDay
    <3>4. ASSUME NEW f
          PROVE  (Walk(d, f)' <=> Walk(d, f)) /\ (Accepts(d, f)' <=> Accepts(d, f))
      BY <2>1, <3>1 DEF Walk, Accepts
    <3>5. ASSUME NEW f, Found(d, f) PROVE Found(d, f)'
      BY <2>1, <3>1, <3>2, <3>3, <3>4, <3>5 DEF Found
    <3> QED
      BY <2>0, <3>4, <3>5 DEF WalkInv
  <2>2. ASSUME NEW p \in Proc, NEW what, record(p, what) PROVE WalkInv(d)'
    <3>1. PICK n \in Nat : n = Len(trail)
      BY DEF AuditTypeOK
    <3>2. Appended(n)
      BY <2>2, <3>1, RecordEffect DEF Appended
    <3>3. LinkedInLife(n + 1)' /\ trail'[n + 1].prev \in Nat
      <4>1. n + 1 \in DOMAIN trail'
        BY <3>1, <3>2 DEF Appended
      <4>2. trail' \in Seq(AuditEntry(Fact))
        BY DEF AuditTypeOK
      <4>3. trail'[n + 1] \in AuditEntry(Fact)
        BY <4>1, <4>2
      <4> QED
        BY <4>1, <4>3, <1>1 DEF LifeInv, AuditEntry
    <3>4. PICK f : Walk(d, f) /\ Found(d, f) /\ \A g : Walk(d, g) => g = f
      BY <2>0 DEF WalkInv
    <3>5. PICK h : /\ Walk(d, h)' /\ \A i \in 0..n : h[i] = f[i]
                   /\ \A g : Walk(d, g)' => g = h
      BY <3>2, <3>4, WalkGrows
    <3>6. Found(d, h)'
      BY <3>2, <3>3, <3>4, <3>5, FoundGrows
    <3> QED
      BY <3>5, <3>6 DEF WalkInv
  <2> QED
    BY <2>1, <2>2 DEF AuditNext, Restart, Midnight, audit
<1> QED
  BY <1>1, <1>2 DEF TrailInv

(* Of a day with a torn line verify reads nothing.                         *)
LEMMA TornUnread == today \in torn => File = {}
BY DEF File

(* verify is the one walk through the file of today.                       *)
LEMMA VerifyWalks ==
  ASSUME NEW Fact, AuditTypeOK(Fact), TrailInv, today \notin torn
  PROVE  Walk(today, prevHash) /\ Found(today, prevHash) /\ File = DayFile(today)
<1>0. today \in 1..MaxDays /\ trail \in Seq(AuditEntry(Fact)) /\ Len(trail) \in Nat
  BY DEF AuditTypeOK
<1>1. File = DayFile(today)
  BY DEF File, DayFile
<1>2. PICK f : Walk(today, f) /\ Found(today, f)
  BY <1>0 DEF TrailInv, WalkInv
<1>3. f = [i \in 0..Len(trail) |->
             IF i = 0 THEN 0
             ELSE IF i \in File /\ trail[i].prev = f[i - 1] THEN i ELSE f[i - 1]]
  <2>1. \A i \in 0..Len(trail) : i = 0 \/ i \in 1..Len(trail)
    BY <1>0
  <2>2. \A i \in 0..Len(trail) :
           f[i] = IF i = 0 THEN 0
                  ELSE IF i \in File /\ trail[i].prev = f[i - 1] THEN i ELSE f[i - 1]
    BY <2>1, <1>1, <1>2 DEF Walk
  <2> QED
    BY <2>2, <1>2 DEF Walk
<1>4. prevHash = [i \in 0..Len(trail) |->
             IF i = 0 THEN 0
             ELSE IF i \in File /\ trail[i].prev = prevHash[i - 1] THEN i ELSE prevHash[i - 1]]
  BY <1>3, Zenon DEF prevHash
<1>5. Walk(today, prevHash)
  BY <1>0, <1>1, <1>4 DEF Walk
<1> QED
  BY <1>0, <1>1, <1>5 DEF TrailInv, WalkInv

(* When verify finds nothing wrong, the entries it has read are those of   *)
(* one life from its first on.                                             *)
LEMMA Intact ==
  ASSUME NEW Fact, AuditTypeOK(Fact), TrailInv
  PROVE  IntactIsUnbroken
<1> SUFFICES ASSUME Corrupted = {}, today \notin torn PROVE Unbroken
  BY TornUnread DEF IntactIsUnbroken, Unbroken
<1>1. Found(today, prevHash) /\ File = DayFile(today)
  BY VerifyWalks
<1>2. Accepts(today, prevHash)
  BY <1>1 DEF Corrupted, Accepts
<1>3. WholeDay(today)
  BY <1>1, <1>2 DEF Found
<1> QED
  BY <1>1, <1>3 DEF WholeDay, Unbroken

(* What verify reports either lacks an earlier entry of its life, or is of *)
(* a life that did not open the file.                                      *)
LEMMA Alarm ==
  ASSUME NEW Fact, AuditTypeOK(Fact), TrailInv
  PROVE  AlarmHasCause
<1> SUFFICES ASSUME NEW i \in Corrupted, Earlier(i) \subseteq File, today \notin torn
             PROVE  \E j \in File : \A k \in Earlier(i) : j < k
  BY TornUnread DEF AlarmHasCause, Corrupted
<1>1. Found(today, prevHash) /\ File = DayFile(today)
  BY VerifyWalks
<1>2. i \in File /\ trail[i].prev # prevHash[i - 1]
  BY DEF Corrupted
<1>3. PICK e \in File : Opens(today, e)
  BY <1>1, <1>2 DEF Found
<1>4. ~SameLife(e, i)
  BY <1>1, <1>2, <1>3 DEF Found
<1>5. ASSUME NEW k \in Earlier(i) PROVE e < k
  <2>1. k \in File /\ SameLife(k, i)
    BY <1>5, EarlierLife
  <2>2. e <= k /\ e # k
    BY <2>1, <1>1, <1>3, <1>4 DEF Opens
  <2>3. e \in Nat /\ k \in Nat
    <3>1. trail \in Seq(AuditEntry(Fact))
      BY DEF AuditTypeOK
    <3> QED
      BY <2>1, <3>1 DEF File
  <2> QED
    BY <2>2, <2>3
<1> QED
  BY <1>3, <1>5
=============================================================================
