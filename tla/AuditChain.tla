----------------------------- MODULE AuditChain -----------------------------
(***************************************************************************)
(* The audit trail of libs/core/audit-chain.ts.  Every process keeps the   *)
(* hash of the last entry it has made, from zero at its start, puts it     *)
(* into the next entry, and appends that to the file of the day; verify    *)
(* walks through the file of the day.                                      *)
(*                                                                         *)
(* An entry is its number in the order in which all entries were made, and *)
(* that number stands for its hash (SHA-256 is taken to be injective); the *)
(* zero hash is 0.  record is synchronous: computing the entry depends on  *)
(* the memory of its process only, so it is one step with the append.      *)
(***************************************************************************)
EXTENDS Naturals, Sequences, FiniteSets

CONSTANTS
    Proc,       \* the processes that record
    MaxDays,    \* bound on the days
    MaxLost     \* bound on the appends that fail

ASSUME AuditAssumption == MaxDays \in Nat \ {0} /\ MaxLost \in Nat

VARIABLES
    trail,      \* all entries ever made; kept, if the append succeeded
    torn,       \* the days whose file has a line that is not an entry
    lastHash,   \* by process: lastHash
    life,       \* by process: how often it was started before
    today

audit == <<trail, torn, lastHash, life, today>>

AuditEntry(Fact) == [what : Fact, by : Proc, life : Nat, day : 1..MaxDays,
                     prev : Nat, kept : BOOLEAN]

\* The part of the type invariant that is about the trail.
AuditTypeOK(Fact) ==
    /\ trail \in Seq(AuditEntry(Fact))
    /\ torn \subseteq 1..MaxDays
    /\ lastHash \in [Proc -> 0..Len(trail)]
    /\ life \in [Proc -> Nat]
    /\ today \in 1..MaxDays

AuditInit ==
    /\ trail = <<>> /\ torn = {} /\ today = 1
    /\ lastHash = [p \in Proc |-> 0]
    /\ life = [p \in Proc |-> 0]

-----------------------------------------------------------------------------
Entry(p, what, ok) == [what |-> what, by |-> p, life |-> life[p], day |-> today,
                       prev |-> lastHash[p], kept |-> ok]

\* Whether an append succeeds.
Kept == {TRUE} \cup {lost \in {FALSE} :
            Cardinality({i \in DOMAIN trail : ~trail[i].kept}) < MaxLost}

\* An append that fails may leave a part of its line behind.
Torn(ok) == torn' \in IF ok THEN {torn} ELSE {torn, torn \cup {today}}

\* Variant: the hash goes on only when the entry is in the file.
Mutant_HashAfterAppend(p, what) ==
    /\ \E ok \in Kept :
          /\ trail' = Append(trail, Entry(p, what, ok)) /\ Torn(ok)
          /\ lastHash' = IF ok THEN [lastHash EXCEPT ![p] = Len(trail) + 1] ELSE lastHash
    /\ UNCHANGED <<life, today>>

\* appendToFile swallows its error; lastHash has moved on by then.
record(p, what) ==
    /\ \E ok \in Kept : trail' = Append(trail, Entry(p, what, ok)) /\ Torn(ok)
    /\ lastHash' = [lastHash EXCEPT ![p] = Len(trail) + 1]
    /\ UNCHANGED <<life, today>>

\* The process ends, and another takes its place. One that has recorded nothing
\* is as good as new.
Restart(p) ==
    /\ lastHash' = [lastHash EXCEPT ![p] = 0]
    /\ life' = IF lastHash[p] = 0 THEN life ELSE [life EXCEPT ![p] = @ + 1]
    /\ UNCHANGED <<trail, torn, today>>

\* At midnight getFilePath names another file.
Midnight ==
    /\ today < MaxDays /\ today' = today + 1
    /\ UNCHANGED <<trail, torn, lastHash, life>>

-----------------------------------------------------------------------------
\* What loadAll reads: nothing, when a line of the day does not parse.
File == {i \in DOMAIN trail : trail[i].day = today /\ trail[i].kept /\ today \notin torn}

\* Variant: an entry that does not fit becomes the one to go on from.
Mutant_GoOnFromBreak ==
    LET hash[i \in 0..Len(trail)] ==
            IF i = 0 THEN 0 ELSE IF i \in File THEN i ELSE hash[i - 1]
    IN  hash

\* prevHash of verify after the entries up to i: one that does not fit is passed over.
prevHash ==
    LET hash[i \in 0..Len(trail)] ==
            IF i = 0 THEN 0
            ELSE IF i \in File /\ trail[i].prev = hash[i - 1] THEN i ELSE hash[i - 1]
    IN  hash

\* The entries that verify reports as corrupted.
Corrupted == {i \in File : trail[i].prev # prevHash[i - 1]}

-----------------------------------------------------------------------------
\* Entries i and j were made by one process in one life.
SameLife(i, j) == trail[i].by = trail[j].by /\ trail[i].life = trail[j].life

\* The entries up to i of the life that made i.
Earlier(i) == {j \in 1..i : SameLife(i, j)}

\* The entries are those of one life, from its first one on without a gap.
Unbroken == \A i \in File : /\ \A j \in File : SameLife(i, j)
                            /\ Earlier(i) \subseteq File

(* audit-chain.ts:148, "Verify the integrity of the audit chain": when     *)
(* verify finds nothing wrong, what it has read is the beginning of one    *)
(* life without a gap.  So an append that failed (line 208 only logs it)   *)
(* is noticed as soon as its process has a later entry in the file.  It is *)
(* no claim that nothing is missing: entries after the last that was kept, *)
(* and lives none of whose entries was, leave no trace, and of a day with  *)
(* a torn line verify reads nothing.                                       *)
IntactIsUnbroken == Corrupted = {} => Unbroken

(* And it does not cry wolf: what it reports was made by a process an      *)
(* earlier entry of which is not in the file (the append failed, or it was *)
(* made before midnight), or by one whose first entry of the day came      *)
(* after that of another process.  So the entries of the process that      *)
(* opens the day's file are accepted however many others write into it.    *)
AlarmHasCause ==
    \A i \in Corrupted :
        \/ ~(Earlier(i) \subseteq File)
        \/ \E j \in File : \A k \in Earlier(i) : j < k
=============================================================================
