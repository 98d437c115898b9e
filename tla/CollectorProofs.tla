-------------------------- MODULE CollectorProofs ---------------------------
(***************************************************************************)
(* Proofs about Collector for every batch, registry and set of principals. *)
(***************************************************************************)
EXTENDS Collector, SequenceTheorems, FiniteSetTheorems, TLAPS

\* The conditional upsert keeps every booking, and a solved reuse as it is.
LEMMA BookedKeeps ==
  ASSUME NEW w, NEW k \in DOMAIN ledger
  PROVE  /\ k \in DOMAIN Booked(w)
         /\ ledger[k] = "solved_reuse" => Booked(w)[k] = "solved_reuse"
<1>1. CASE Booked(w) = ledger
  BY <1>1
<1>2. CASE Booked(w) # ledger
  <2>1. Booked(w) = With(ledger, w.key, w.mode)
    BY <1>2 DEF Booked
  <2>2. ~(w.key \in DOMAIN ledger /\ ~(ledger[w.key] = "live_duplication" /\ w.mode = "solved_reuse"))
    BY <1>2 DEF Booked
  <2>3. /\ DOMAIN Booked(w) = {w.key} \cup DOMAIN ledger
        /\ Booked(w)[k] = IF k = w.key THEN w.mode ELSE ledger[k]
    BY <2>1 DEF With
  <2>4. k = w.key => w.mode = "solved_reuse"
    BY <2>2
  <2> QED BY <2>3, <2>4
<1> QED BY <1>1, <1>2

\* Nothing booked is ever forgotten, and a solved reuse is never downgraded,
\* in whatever order matches, redeliveries, failures and restarts come.
THEOREM NeverDowngraded == Spec => LedgerNeverDowngrades
<1> DEFINE Kept == \A k \in DOMAIN ledger :
                     /\ k \in DOMAIN ledger'
                     /\ ledger[k] = "solved_reuse" => ledger'[k] = "solved_reuse"
<1>1. Next => Kept \/ UNCHANGED ledger
  <2>1. Write => Kept \/ UNCHANGED ledger
    <3>1. Write => UNCHANGED ledger \/ \E w : ledger' = Booked(w)
      BY DEF Write
    <3> QED BY <3>1, BookedKeeps
  <2>2. Next => Write \/ UNCHANGED ledger
    BY DEF Next, Receive, RejectItem, Admit, AdmitFails, SkipMatching, Submit, WriteFails,
           Reply, Crash, Register, stores
  <2> QED BY <2>1, <2>2
<1>2. [Next]_vars => [Kept]_ledger
  BY <1>1 DEF vars
<1> QED BY <1>2, PTL DEF Spec, LedgerNeverDowngrades

-----------------------------------------------------------------------------
(* What the broker's list comprehensions return.                           *)

\* A list comprehension keeps the elements at the positions P and no others,
\* each once and in their order.
LEMMA OrderedIs ==
  ASSUME NEW S, NEW s \in Seq(S), NEW P \in SUBSET DOMAIN s
  PROVE  /\ Cardinality(P) \in Nat /\ Cardinality(P) <= Len(s)
         /\ Ordered(s, P) \in Seq(S)
         /\ Len(Ordered(s, P)) = Cardinality(P)
         /\ \E at \in [1..Cardinality(P) -> P] :
              /\ \A k \in 1..Cardinality(P) : Ordered(s, P)[k] = s[at[k]]
              /\ \A j, k \in 1..Cardinality(P) : j < k => at[j] < at[k]
<1> DEFINE Up(n) == {m \in P : m <= n}
           Rank(n) == Cardinality(Up(n))
           size == Cardinality(P)
           f == [n \in P |-> Rank(n)]
           at == [k \in 1..size |-> CHOOSE n \in P : Rank(n) = k]
<1>1. /\ DOMAIN s = 1..Len(s) /\ Len(s) \in Nat
      /\ IsFiniteSet(DOMAIN s) /\ Cardinality(DOMAIN s) = Len(s)
  <2>1. DOMAIN s = 1..Len(s) /\ Len(s) \in Nat
    OBVIOUS
  <2> DEFINE n == Len(s)
  <2> HIDE DEF n
  <2>2. n \in Nat => IsFiniteSet(1..n) /\ Cardinality(1..n) = n
    <3> SUFFICES ASSUME n \in Nat PROVE IsFiniteSet(1..n) /\ Cardinality(1..n) = n
      OBVIOUS
    <3>1. 1 \in Int /\ n \in Int
      OBVIOUS
    <3>2. IsFiniteSet(1..n) /\ Cardinality(1..n) = IF 1 > n THEN 0 ELSE n - 1 + 1
      BY <3>1, FS_Interval
    <3> QED BY <3>2
  <2> QED BY <2>1, <2>2 DEF n
<1>2. IsFiniteSet(P) /\ size \in Nat /\ size <= Len(s)
  BY <1>1, FS_Subset, FS_CardinalityType
<1>3. ASSUME NEW n \in P
      PROVE  IsFiniteSet(Up(n)) /\ Rank(n) \in 1..size
  <2>1. Up(n) \in SUBSET P /\ n \in Up(n)
    BY <1>1
  <2> HIDE DEF Up
  <2>2. IsFiniteSet(Up(n)) /\ Cardinality(Up(n)) <= size
    BY <1>2, <2>1, FS_Subset
  <2>3. Cardinality(Up(n)) \in Nat /\ Cardinality(Up(n)) # 0
    BY <2>1, <2>2, FS_CardinalityType, FS_EmptySet
  <2>4. Rank(n) = Cardinality(Up(n))
    OBVIOUS
  <2> HIDE DEF size, Rank, Up
  <2> QED BY <1>2, <2>2, <2>3, <2>4
<1>4. ASSUME NEW m \in P, NEW n \in P, m < n PROVE Rank(m) < Rank(n)
  <2>1. Up(m) \in SUBSET Up(n) /\ n \in Up(n) /\ n \notin Up(m)
    BY <1>1, <1>4
  <2>2. Rank(m) <= Rank(n) /\ Rank(m) # Rank(n)
    BY <1>3, <2>1, FS_Subset
  <2> HIDE DEF size, Rank, Up
  <2> QED BY <1>2, <1>3, <2>2
<1> HIDE DEF size, Rank, Up
<1>5. f \in Injection(P, 1..size)
  <2>1. \A m, n \in P : f[m] = f[n] => m = n
    <3> SUFFICES ASSUME NEW m \in P, NEW n \in P, m # n PROVE Rank(m) # Rank(n)
      OBVIOUS
    <3>1. m < n \/ n < m
      BY <1>1
    <3>2. Rank(m) \in Nat /\ Rank(n) \in Nat
      BY <1>2, <1>3
    <3>3. Rank(m) < Rank(n) \/ Rank(n) < Rank(m)
      BY <1>4, <3>1
    <3> QED BY <3>2, <3>3
  <2>2. f \in [P -> 1..size]
    BY <1>3
  <2> QED BY <2>1, <2>2 DEF Injection, IsInjective
<1>6. f \in Surjection(P, 1..size)
  <2>1. IsFiniteSet(1..size) /\ Cardinality(1..size) = size
    <3>1. 1 \in Int /\ size \in Int
      BY <1>2
    <3>2. IsFiniteSet(1..size) /\ Cardinality(1..size) = IF 1 > size THEN 0 ELSE size - 1 + 1
      BY <3>1, FS_Interval
    <3> QED BY <1>2, <3>2
  <2> QED BY <1>5, <2>1, FS_Injection DEF size
<1>7. \A k \in 1..size : \E n \in P : Rank(n) = k
  BY <1>6 DEF Surjection
<1>8. at \in [1..size -> P] /\ \A k \in 1..size : Rank(at[k]) = k
  BY <1>7
<1> HIDE DEF at
<1>9. ASSUME NEW j \in 1..size, NEW k \in 1..size, j < k PROVE at[j] < at[k]
  <2>1. at[j] \in P /\ at[k] \in P /\ Rank(at[j]) = j /\ Rank(at[k]) = k
    BY <1>8
  <2> DEFINE x == at[j]
             y == at[k]
  <2> HIDE DEF x, y
  <2>2. CASE x < y
    BY <2>2 DEF x, y
  <2>3. CASE x = y
    BY <1>2, <1>9, <2>1, <2>3 DEF x, y
  <2>4. CASE y < x
    <3>1. Rank(y) < Rank(x)
      BY <1>4, <2>1, <2>4 DEF x, y
    <3> QED BY <1>2, <1>9, <2>1, <3>1 DEF x, y
  <2>5. x \in Int /\ y \in Int
    BY <1>1, <2>1 DEF x, y
  <2> QED BY <2>2, <2>3, <2>4, <2>5
<1>10. Ordered(s, P) = [k \in 1..size |-> s[at[k]]]
  BY DEF Ordered, at, size, Rank, Up
<1>11. \A k \in 1..size : s[at[k]] \in S
  BY <1>1, <1>8
<1>12. Ordered(s, P) \in Seq(S) /\ Len(Ordered(s, P)) = size
  BY <1>2, <1>10, <1>11
<1> QED BY <1>2, <1>8, <1>9, <1>10, <1>12 DEF size

OnePerActor(s) == \A m, n \in DOMAIN s : s[m].actor = s[n].actor => m = n

\* What the broker keeps: the new signal and signals it had, one per actor and
\* max_signals at most.
LEMMA RetainedIs ==
  ASSUME NEW S, NEW s \in Seq(S), NEW sig \in S, OnePerActor(s)
  PROVE  /\ Retained(s, sig) \in Seq(S)
         /\ Len(Retained(s, sig)) <= MaxSignals
         /\ OnePerActor(Retained(s, sig))
         /\ \A k \in DOMAIN Retained(s, sig) :
              \/ Retained(s, sig)[k] = sig
              \/ \E n \in DOMAIN s : Retained(s, sig)[k] = s[n]
<1> DEFINE P == {n \in DOMAIN s : s[n].actor # sig.actor}
           others == Others(s, sig)
           latest == Append(others, sig)
           from == IF Len(latest) > MaxSignals THEN Len(latest) - MaxSignals + 1 ELSE 1
           kept == SubSeq(latest, from, Len(latest))
<1>1. others = Ordered(s, P) /\ P \in SUBSET DOMAIN s
  BY DEF Others
<1> HIDE DEF others, P
<1>2. others \in Seq(S) /\ Len(others) = Cardinality(P)
  BY <1>1, OrderedIs
<1>3. PICK at \in [1..Len(others) -> P] :
        /\ \A k \in 1..Len(others) : others[k] = s[at[k]]
        /\ \A j, k \in 1..Len(others) : j < k => at[j] < at[k]
  BY <1>1, <1>2, OrderedIs
<1>4. /\ Len(others) \in Nat /\ DOMAIN others = 1..Len(others)
      /\ latest \in Seq(S) /\ Len(latest) = Len(others) + 1
      /\ DOMAIN latest = 1..(Len(others) + 1)
      /\ latest[Len(others) + 1] = sig
      /\ \A k \in 1..Len(others) : latest[k] = others[k]
  BY <1>2, AppendProperties
<1>5. \A n \in P : n \in DOMAIN s /\ s[n].actor # sig.actor /\ n \in Int
  BY DEF P
<1>6. OnePerActor(latest)
  <2> SUFFICES ASSUME NEW m \in DOMAIN latest, NEW n \in DOMAIN latest,
                      latest[m].actor = latest[n].actor, m < n
               PROVE  FALSE
    <3>1. \A m, n \in DOMAIN latest : m < n \/ n < m \/ m = n
      BY <1>4
    <3> QED BY <3>1 DEF OnePerActor
  <2>1. m \in 1..Len(others) /\ latest[m] = s[at[m]] /\ at[m] \in P
    BY <1>3, <1>4
  <2>2. CASE n = Len(others) + 1
    BY <1>4, <1>5, <2>1, <2>2
  <2>3. CASE n # Len(others) + 1
    <3>1. n \in 1..Len(others) /\ latest[n] = s[at[n]] /\ at[n] \in P
      BY <1>3, <1>4, <2>3
    <3>2. at[m] # at[n]
      BY <1>3, <1>5, <2>1, <3>1
    <3> QED BY <1>5, <2>1, <3>1, <3>2 DEF OnePerActor
  <2> QED BY <2>2, <2>3
<1>7. \A k \in DOMAIN latest : latest[k] = sig \/ \E n \in DOMAIN s : latest[k] = s[n]
  BY <1>3, <1>4, <1>5
<1> HIDE DEF latest
<1>8. /\ from \in 1..Len(latest) /\ Len(latest) - from + 1 <= MaxSignals
      /\ Len(latest) \in Nat
  BY <1>4, BrokerAssumption
<1> HIDE DEF from
<1>9. /\ kept \in Seq(S) /\ Len(kept) = Len(latest) - from + 1
      /\ \A k \in 1..(Len(latest) - from + 1) : kept[k] = latest[from + k - 1]
  BY <1>4, <1>8, SubSeqProperties
<1>10. \A k \in DOMAIN kept : k \in Int /\ from + k - 1 \in DOMAIN latest /\ kept[k] = latest[from + k - 1]
  BY <1>4, <1>8, <1>9
<1>11. Retained(s, sig) = kept
  BY DEF Retained, latest, others, from
<1> HIDE DEF kept
<1>12. OnePerActor(kept)
  <2> SUFFICES ASSUME NEW m \in DOMAIN kept, NEW n \in DOMAIN kept,
                      kept[m].actor = kept[n].actor
               PROVE  m = n
    BY DEF OnePerActor
  <2>1. from + m - 1 = from + n - 1
    BY <1>6, <1>10 DEF OnePerActor
  <2> QED BY <1>8, <1>10, <2>1
<1> QED BY <1>7, <1>8, <1>9, <1>10, <1>11, <1>12

\* Every match found is with a signal that passes the walls and the bar.
LEMMA MatchesAre ==
  ASSUME NEW S, NEW s \in Seq(S), NEW sig
  PROVE  \A k \in DOMAIN Matches(s, sig) : \E n \in DOMAIN s :
           /\ Matched(sig, s[n])
           /\ Matches(s, sig)[k] = [a |-> sig.actor, b |-> s[n].actor, topic |-> s[n].topic,
                                    mode |-> Mode(sig, s[n])]
<1> DEFINE P == {n \in DOMAIN s : Matched(sig, s[n])}
           hits == Ordered(s, P)
<1>1. P \in SUBSET DOMAIN s
  OBVIOUS
<1> HIDE DEF P
<1>2. PICK at \in [1..Cardinality(P) -> P] :
        \A k \in 1..Cardinality(P) : hits[k] = s[at[k]]
  BY <1>1, OrderedIs
<1>3. \A k \in 1..Len(hits) : \E n \in P : hits[k] = s[n]
  BY <1>1, <1>2, OrderedIs
<1>4. Matches(s, sig) = [n \in 1..Len(hits) |->
                           [a |-> sig.actor, b |-> hits[n].actor, topic |-> hits[n].topic,
                            mode |-> Mode(sig, hits[n])]]
  BY DEF Matches, P
<1> HIDE DEF hits
<1> QED BY <1>3, <1>4 DEF P
-----------------------------------------------------------------------------
(* BoundTenant and StampedByTeammate.  The commits of a match happen       *)
(* several steps after the record was accepted, so the invariant carries   *)
(* along that the record at hand was accepted and that the matches being   *)
(* written are its author's.  Rows and entries are in the tenant of their  *)
(* record, with principals configured or without.                          *)

Shape ==
  /\ req = [stage |-> req.stage, items |-> req.items, cache |-> req.cache,
            found |-> req.found, at |-> req.at, done |-> req.done]
  /\ req.items \in Seq(Items)
  /\ \A t \in DOMAIN memory : memory[t] \in Seq(Items)

\* How many commits a match of the record calls for.
DueCount(i) == IF DOMAIN Client # {} /\ ~Known(Fact[i].objective) THEN 2 ELSE 3

AtHand ==
  /\ req.stage \in {"match", "write"} => req.items # <<>> /\ Accepted(Current)
  /\ req.stage # "write" => req.at = 1 /\ req.done = 0
  /\ req.stage = "write" =>
       /\ req.at \in DOMAIN req.found
       /\ req.done \in Nat /\ req.done < DueCount(Current)
       /\ \A n \in DOMAIN req.found : req.found[n].a = Fact[Current].actor

DerivedBound == \A i \in DOMAIN derived : derived[i].tenant = TenantOf(i)
MemoryBound == \A t \in DOMAIN memory : \A n \in DOMAIN memory[t] : TenantOf(memory[t][n]) = t
GoodStamp(i, tenant, stamp) ==
  stamp # NoMatch =>
    LET e == stamp[2]
    IN /\ Fact[e].actor # Fact[i].actor
       /\ TenantOf(e) = tenant
       /\ Closeness(i, e) >= (IF stamp[1] = "serve" THEN Serve ELSE Warm)
StampsBound == \A i \in DOMAIN derived : GoodStamp(i, derived[i].tenant, derived[i].stamp)
LedgerBound ==
  identity => \A k \in DOMAIN ledger : \E a \in k[2] : Principal[a] = k[1]

Inv == Shape /\ AtHand /\ DerivedBound /\ StampsBound /\ MemoryBound /\ LedgerBound

\* The commits of a match: its two rows and at most one booking, which is in
\* the tenant of the record and about the match's first developer.
LEMMA WritesShape ==
  ASSUME NEW i, NEW m
  PROVE  LET due == WritesFor(i, m)
         IN /\ Len(due) = DueCount(i)
            /\ \A n \in 1..Len(due) : due[n].op # "row" =>
                 /\ due[n].key[1] = TenantOf(i)
                 /\ m.a \in due[n].key[2]
<1> DEFINE r1 == Row(m.a, m.b, m.topic, m.mode)
           r2 == Row(m.b, m.a, m.topic, m.mode)
           o == Opportunity(i, m)
           T == {r1, r2, o}
           both == <<r1, r2>>
           b == Books(i, m)
<1>1. /\ r1.op = "row" /\ r2.op = "row"
      /\ o.key[1] = TenantOf(i) /\ m.a \in o.key[2]
  BY DEF Row, Opportunity
<1> HIDE DEF r1, r2, o
<1>2. both \in Seq(T) /\ Len(both) = 2
  OBVIOUS
<1>3. b \in Seq(T) /\ Len(b) = DueCount(i) - 2
  <2>1. CASE DOMAIN Client # {} /\ ~Known(Fact[i].objective)
    <3>1. b = <<>> /\ DueCount(i) = 2
      BY <2>1 DEF Books, DueCount
    <3> QED BY <3>1
  <2>2. CASE ~(DOMAIN Client # {} /\ ~Known(Fact[i].objective))
    <3>1. b = <<o>> /\ DueCount(i) = 3
      BY <2>2 DEF Books, DueCount, o
    <3> QED BY <3>1
  <2> QED BY <2>1, <2>2
<1>4. WritesFor(i, m) = both \o b
  BY DEF WritesFor, Rows, r1, r2
<1> HIDE DEF T, both, b
<1>5. both \o b \in Seq(T) /\ Len(both \o b) = Len(both) + Len(b)
  BY <1>2, <1>3, ConcatProperties
<1>6. Len(WritesFor(i, m)) = DueCount(i)
  BY <1>2, <1>3, <1>4, <1>5 DEF DueCount
<1>7. \A n \in 1..Len(WritesFor(i, m)) : WritesFor(i, m)[n] \in T
  BY <1>4, <1>5, ElementOfSeq
<1> QED BY <1>1, <1>6, <1>7 DEF T

\* Accepted and TenantOf depend on the configuration only.
LEMMA TenantOfAccepted ==
  ASSUME NEW i, identity
  PROVE  TenantOf(i) = Principal[Fact[i].actor]
BY DEF TenantOf

\* Team memory gets the accepted record under its own tenant.
LEMMA RememberedBound ==
  ASSUME Inv, NEW i \in Items, memory' = Remembered(i), identity' = identity
  PROVE  /\ \A t \in DOMAIN memory' : memory'[t] \in Seq(Items)
         /\ MemoryBound'
<1> DEFINE t == TenantOf(i)
           old == IF t \in DOMAIN memory THEN memory[t] ELSE <<>>
           longer == Append(old, i)
           new == IF Len(longer) > Cap THEN Tail(longer) ELSE longer
<1>1. CASE memory' = memory
  BY <1>1 DEF Inv, Shape, MemoryBound, TenantOf
<1>2. CASE memory' # memory
  <2>1. memory' = With(memory, t, new)
    BY <1>2 DEF Remembered
  <2>2. /\ DOMAIN memory' = DOMAIN memory \cup {t}
        /\ memory'[t] = new
        /\ \A u \in DOMAIN memory \ {t} : memory'[u] = memory[u]
    BY <2>1 DEF With
  <2>3. old \in Seq(Items)
    BY DEF Inv, Shape
  <2>4. \A n \in DOMAIN old : TenantOf(old[n]) = t
    BY DEF Inv, MemoryBound
  <2>5. TenantOf(i) = t
    OBVIOUS
  <2> HIDE DEF old, t
  <2>6. /\ longer \in Seq(Items) /\ Len(longer) = Len(old) + 1 /\ Len(old) \in Nat
        /\ DOMAIN old = 1..Len(old) /\ DOMAIN longer = 1..Len(longer)
        /\ longer[Len(old) + 1] = i
        /\ \A n \in 1..Len(old) : longer[n] = old[n]
    BY <2>3, AppendProperties, LenProperties
  <2>7. \A n \in DOMAIN longer : TenantOf(longer[n]) = t
    BY <2>4, <2>5, <2>6
  <2>8. longer # <<>>
    BY <2>3, AppendProperties
  <2> HIDE DEF longer
  <2>9. /\ Tail(longer) \in Seq(Items)
        /\ \A n \in DOMAIN Tail(longer) : n + 1 \in DOMAIN longer /\ Tail(longer)[n] = longer[n + 1]
    BY <2>6, <2>8
  <2>10. /\ new \in Seq(Items)
         /\ \A n \in DOMAIN new : TenantOf(new[n]) = t
    BY <2>6, <2>7, <2>9
  <2> HIDE DEF new
  <2> QED BY <2>2, <2>10 DEF Inv, Shape, MemoryBound, TenantOf
<1> QED BY <1>1, <1>2

\* The stamp of a record comes from an entry of its tenant by somebody else.
LEMMA StampIsGood ==
  ASSUME Inv, NEW i
  PROVE  GoodStamp(i, TenantOf(i), Stamp(i))
<1> DEFINE known == IF TenantOf(i) \in DOMAIN memory THEN memory[TenantOf(i)] ELSE <<>>
           e == known[CHOOSE n \in Closest(i, known) : TRUE]
<1>1. CASE Stamp(i) = NoMatch
  BY <1>1 DEF GoodStamp
<1>2. CASE Stamp(i) # NoMatch
  <2>1. Closest(i, known) # {} /\ Stamp(i) = TierOf(i, e)
    BY <1>2 DEF Stamp
  <2>2. PICK n \in DOMAIN known : e = known[n] /\ Fact[e].actor # Fact[i].actor
    BY <2>1 DEF Closest, Teammates
  <2>3. TenantOf(e) = TenantOf(i)
    BY <2>2 DEF Inv, MemoryBound
  <2> HIDE DEF e, known
  <2>4. /\ Stamp(i)[2] = e
        /\ Closeness(i, e) >= (IF Stamp(i)[1] = "serve" THEN Serve ELSE Warm)
    BY <1>2, <2>1 DEF TierOf
  <2> QED BY <2>2, <2>3, <2>4 DEF GoodStamp
<1> QED BY <1>1, <1>2

\* An item at hand is one of the items, and so are those that follow.
LEMMA HandIsItem ==
  ASSUME Inv, req.items # <<>>
  PROVE  Current \in Items /\ Tail(req.items) \in Seq(Items)
BY DEF Inv, Shape, Current

\* Where rows and entries stay as they are.
LEMMA SameRows ==
  ASSUME Inv, UNCHANGED <<identity, derived>>
  PROVE  /\ DerivedBound' /\ StampsBound'
         /\ UNCHANGED memory => MemoryBound'
BY DEF Inv, DerivedBound, StampsBound, GoodStamp, MemoryBound, TenantOf, Closeness

LEMMA AdmitInv == Inv /\ Admit => Inv'
<1> SUFFICES ASSUME Inv, Admit PROVE Inv'
  OBVIOUS
<1>1. Current \in Items /\ req.items # <<>> /\ Accepted(Current)
  BY HandIsItem DEF Admit
<1>2. identity' = identity /\ ledger' = ledger /\ memory' = Remembered(Current)
  BY DEF Admit
<1>3. req' = [stage |-> "match", items |-> req.items, cache |-> req.cache,
              found |-> req.found, at |-> req.at, done |-> req.done]
  BY DEF Admit, Inv, Shape
<1>4. Shape' /\ MemoryBound'
  BY <1>1, <1>2, <1>3, RememberedBound DEF Inv, Shape
<1>5. AtHand'
  BY <1>1, <1>2, <1>3 DEF Admit, Inv, AtHand, Current, Accepted
<1>6. DerivedBound' /\ StampsBound'
  <2>1. derived' = With(derived, Current, [tenant |-> TenantOf(Current), stamp |-> Stamp(Current)])
    BY DEF Admit
  <2>2. /\ DOMAIN derived' = DOMAIN derived \cup {Current}
        /\ derived'[Current].tenant = TenantOf(Current)
        /\ derived'[Current].stamp = Stamp(Current)
        /\ \A i \in DOMAIN derived \ {Current} : derived'[i] = derived[i]
    BY <2>1 DEF With
  <2>3. DerivedBound'
    BY <1>2, <2>2 DEF DerivedBound, TenantOf, Inv
  <2>4. StampsBound'
    <3>1. \A i \in DOMAIN derived' : GoodStamp(i, derived'[i].tenant, derived'[i].stamp)
      BY <2>2, StampIsGood DEF StampsBound, Inv
    <3> QED BY <1>2, <3>1 DEF StampsBound, GoodStamp, TenantOf, Closeness
  <2> QED BY <2>3, <2>4
<1> QED BY <1>2, <1>4, <1>5, <1>6 DEF Inv, LedgerBound

\* Going on to the next item leaves nothing to rely on.
LEMMA NextItemInv ==
  ASSUME Inv, req.items # <<>>, NEW c, req' = NextItem(c), memory' = memory
  PROVE  AtHand' /\ Shape'
<1>1. req' = [stage |-> "next", items |-> Tail(req.items), cache |-> c,
              found |-> <<>>, at |-> 1, done |-> 0]
  BY DEF NextItem
<1>2. Tail(req.items) \in Seq(Items)
  BY HandIsItem
<1> QED BY <1>1, <1>2 DEF AtHand, Inv, Shape

LEMMA SubmitInv == Inv /\ Submit => Inv'
<1> SUFFICES ASSUME Inv, Submit PROVE Inv'
  OBVIOUS
<1> DEFINE found == Matches(signals, Signal(Current))
<1>1. req.items # <<>> /\ Accepted(Current) /\ req.at = 1 /\ req.done = 0
  BY DEF Submit, Inv, AtHand
<1>2. UNCHANGED <<identity, memory, derived, ledger>>
  BY DEF Submit
<1>3. \A n \in DOMAIN found : found[n].a = Fact[Current].actor
  BY DEF Matches, Signal
<1>4. req' = IF 1 \in DOMAIN found
             THEN [req EXCEPT !.stage = "write", !.found = found, !.cache = CachePlace]
             ELSE NextItem(CachePlace)
  BY DEF Submit
<1> HIDE DEF found
<1>5. DerivedBound' /\ StampsBound' /\ MemoryBound' /\ LedgerBound'
  BY <1>2, SameRows DEF Inv, LedgerBound
<1>6. CASE 1 \in DOMAIN found
  <2>1. req' = [stage |-> "write", items |-> req.items, cache |-> CachePlace,
                found |-> found, at |-> 1, done |-> 0]
    BY <1>1, <1>4, <1>6 DEF Inv, Shape
  <2>2. Shape'
    BY <1>2, <2>1 DEF Inv, Shape
  <2>3. Current' = Current /\ Accepted(Current)'
    BY <1>1, <1>2, <2>1 DEF Current, Accepted
  <2>4. \A n \in DOMAIN req'.found : req'.found[n].a = Fact[Current'].actor
    BY <1>3, <2>1, <2>3
  <2>5. AtHand'
    BY <1>1, <1>6, <2>1, <2>3, <2>4 DEF AtHand, DueCount
  <2> QED BY <1>5, <2>2, <2>5 DEF Inv
<1>7. CASE 1 \notin DOMAIN found
  BY <1>1, <1>2, <1>4, <1>5, <1>7, NextItemInv DEF Inv
<1> QED BY <1>6, <1>7

\* A booking is made in the tenant of the record at hand, for its author.
LEMMA WriteInv == Inv /\ Write => Inv'
<1> SUFFICES ASSUME Inv, Write PROVE Inv'
  OBVIOUS
<1> DEFINE m == req.found[req.at]
           due == WritesFor(Current, m)
           w == due[req.done + 1]
<1>1. /\ req.stage = "write" /\ req.items # <<>> /\ Accepted(Current)
      /\ req.at \in DOMAIN req.found /\ req.done \in Nat /\ req.done < DueCount(Current)
      /\ \A n \in DOMAIN req.found : req.found[n].a = Fact[Current].actor
  BY DEF Write, Inv, AtHand
<1>2. UNCHANGED <<identity, memory, derived>>
  BY DEF Write
<1>3. Len(due) = DueCount(Current) /\ DueCount(Current) \in Nat
  BY WritesShape DEF DueCount
<1>4. w.op # "row" => w.key[1] = TenantOf(Current) /\ m.a \in w.key[2]
  <2>1. req.done + 1 \in 1..Len(due)
    BY <1>1, <1>3
  <2> QED BY <2>1, WritesShape
<1>5. (w.op = "row" /\ ledger' = ledger) \/ (w.op # "row" /\ ledger' = Booked(w))
  BY DEF Write
<1>6. req' = IF req.done + 1 < Len(due) THEN [req EXCEPT !.done = @ + 1]
             ELSE IF req.at + 1 \in DOMAIN req.found
             THEN [req EXCEPT !.at = @ + 1, !.done = 0]
             ELSE NextItem(req.cache)
  BY DEF Write
<1>7. m.a = Fact[Current].actor
  BY <1>1
<1> HIDE DEF m, due, w
<1>8. LedgerBound'
  <2>1. CASE ledger' = ledger
    BY <1>2, <2>1 DEF Inv, LedgerBound
  <2>2. CASE w.op # "row" /\ ledger' = Booked(w)
    <3>1. DOMAIN ledger' \subseteq DOMAIN ledger \cup {w.key}
      BY <2>2 DEF Booked, With
    <3>2. identity => m.a \in w.key[2] /\ Principal[m.a] = w.key[1]
      BY <1>4, <1>7, <2>2, TenantOfAccepted
    <3> QED BY <1>2, <3>1, <3>2 DEF Inv, LedgerBound
  <2> QED BY <1>5, <2>1, <2>2
<1>9. Shape' /\ AtHand'
  <2>1. CASE req.done + 1 < Len(due)
    <3>1. req' = [stage |-> req.stage, items |-> req.items, cache |-> req.cache,
                  found |-> req.found, at |-> req.at, done |-> req.done + 1]
      BY <1>6, <2>1 DEF Inv, Shape
    <3>2. Current' = Current /\ Accepted(Current)'
      BY <1>1, <1>2, <3>1 DEF Current, Accepted
    <3>3. Shape'
      BY <1>2, <3>1 DEF Inv, Shape
    <3>4. req.done + 1 \in Nat /\ req.done + 1 < DueCount(Current)
      BY <1>1, <1>3, <2>1
    <3>6. /\ req'.stage = "write" /\ req'.items = req.items /\ req'.found = req.found
          /\ req'.at = req.at /\ req'.done = req.done + 1
      BY <1>1, <3>1
    <3>7. req'.at \in DOMAIN req'.found /\ req'.items # <<>>
      BY <1>1, <3>6
    <3>8. req'.done \in Nat /\ req'.done < DueCount(Current')
      BY <3>2, <3>4, <3>6
    <3>9. \A n \in DOMAIN req'.found : req'.found[n].a = Fact[Current'].actor
      BY <1>1, <3>2, <3>6
    <3>10. AtHand'
      BY <3>2, <3>6, <3>7, <3>8, <3>9 DEF AtHand, DueCount
    <3> QED BY <3>3, <3>10
  <2>2. CASE ~(req.done + 1 < Len(due)) /\ req.at + 1 \in DOMAIN req.found
    <3>1. req' = [stage |-> req.stage, items |-> req.items, cache |-> req.cache,
                  found |-> req.found, at |-> req.at + 1, done |-> 0]
      BY <1>6, <2>2 DEF Inv, Shape
    <3>2. Current' = Current /\ Accepted(Current)'
      BY <1>1, <1>2, <3>1 DEF Current, Accepted
    <3> QED BY <1>1, <1>2, <1>3, <2>2, <3>1, <3>2 DEF Write, Inv, Shape, AtHand, DueCount
  <2>3. CASE ~(req.done + 1 < Len(due)) /\ req.at + 1 \notin DOMAIN req.found
    BY <1>1, <1>2, <1>6, <2>3, NextItemInv
  <2> QED BY <2>1, <2>2, <2>3
<1>10. DerivedBound' /\ StampsBound' /\ MemoryBound'
  BY <1>2, SameRows
<1> QED BY <1>8, <1>9, <1>10 DEF Inv

-----------------------------------------------------------------------------
LEMMA InitInv == Init => Inv
<1> SUFFICES ASSUME Init PROVE Inv
  OBVIOUS
<1>1. req = [stage |-> "idle", items |-> <<>>, cache |-> <<>>, found |-> <<>>, at |-> 1, done |-> 0]
  BY DEF Init, Idle
<1>2. memory = <<>> /\ derived = <<>> /\ ledger = <<>> /\ DOMAIN <<>> = {}
  BY DEF Init
<1>3. Shape /\ AtHand
  BY <1>1, <1>2 DEF Shape, AtHand
<1>4. DerivedBound /\ StampsBound /\ MemoryBound /\ LedgerBound
  BY <1>2 DEF DerivedBound, StampsBound, MemoryBound, LedgerBound
<1> QED BY <1>3, <1>4 DEF Inv

LEMMA NextInv == Inv /\ [Next]_vars => Inv'
<1> SUFFICES ASSUME Inv, [Next]_vars PROVE Inv'
  OBVIOUS
<1> DEFINE Idled == req' = [stage |-> "idle", items |-> <<>>, cache |-> <<>>,
                            found |-> <<>>, at |-> 1, done |-> 0]
           Kept == UNCHANGED <<identity, memory, derived, ledger>>
<1>1. ASSUME Kept PROVE DerivedBound' /\ StampsBound' /\ MemoryBound' /\ LedgerBound'
  BY <1>1, SameRows DEF Inv, LedgerBound
<1>2. ASSUME NEW b \in Batches, Receive(b) PROVE Inv'
  <2>1. b \in Seq(Items)
    BY CollectorAssumption
  <2>2. req' = [stage |-> "next", items |-> b, cache |-> <<>>, found |-> <<>>, at |-> 1, done |-> 0]
    BY <1>2 DEF Receive, Idle
  <2>3. Kept
    BY <1>2 DEF Receive, stores
  <2>4. Shape' /\ AtHand'
    BY <2>1, <2>2, <2>3 DEF Inv, Shape, AtHand
  <2> QED BY <1>1, <2>3, <2>4 DEF Inv
<1>3. CASE RejectItem
  BY <1>1, <1>3, NextItemInv DEF RejectItem, stores, Inv
<1>4. CASE Admit
  BY <1>4, AdmitInv
<1>5. CASE AdmitFails
  <2>1. /\ req.items # <<>> /\ req' = NextItem(req.cache) /\ memory' = Remembered(Current)
        /\ UNCHANGED <<identity, derived, ledger>>
    BY <1>5 DEF AdmitFails, stores
  <2>2. (\A t \in DOMAIN memory' : memory'[t] \in Seq(Items)) /\ MemoryBound'
    BY <2>1, HandIsItem, RememberedBound
  <2>3. /\ req' = [stage |-> "next", items |-> Tail(req.items), cache |-> req.cache,
                   found |-> <<>>, at |-> 1, done |-> 0]
        /\ Tail(req.items) \in Seq(Items)
    BY <2>1, HandIsItem DEF NextItem
  <2>4. Shape' /\ AtHand'
    BY <2>2, <2>3 DEF Shape, AtHand
  <2> QED BY <2>1, <2>2, <2>4, SameRows DEF Inv, LedgerBound
<1>6. CASE SkipMatching
  <2>1. req.items # <<>>
    BY <1>6 DEF SkipMatching, Inv, AtHand
  <2> QED BY <1>1, <1>6, <2>1, NextItemInv DEF SkipMatching, stores, Inv
<1>7. CASE Submit
  BY <1>7, SubmitInv
<1>8. CASE Write
  BY <1>8, WriteInv
<1>9. CASE WriteFails
  <2>1. req.items # <<>>
    BY <1>9 DEF WriteFails, Inv, AtHand
  <2> QED BY <1>1, <1>9, <2>1, NextItemInv DEF WriteFails, stores, Inv
<1>10. CASE Reply
  <2>1. Idled /\ Kept
    BY <1>10 DEF Reply, Idle, stores
  <2>2. Shape' /\ AtHand'
    BY <2>1 DEF Inv, Shape, AtHand
  <2> QED BY <1>1, <2>1, <2>2 DEF Inv
<1>11. CASE Crash
  <2>1. /\ Idled /\ UNCHANGED <<identity, derived, ledger>>
        /\ memory' = <<>> /\ DOMAIN memory' = {}
    BY <1>11 DEF Crash, Idle, stores
  <2>2. Shape' /\ AtHand'
    BY <2>1 DEF Shape, AtHand
  <2>3. DerivedBound' /\ StampsBound' /\ MemoryBound' /\ LedgerBound'
    BY <2>1, SameRows DEF Inv, MemoryBound, LedgerBound
  <2> QED BY <2>2, <2>3 DEF Inv
<1>12. CASE \E r \in Registrations : Register(r)
  <2>1. Kept /\ req' = req
    BY <1>12 DEF Register, stores
  <2>2. Current' = Current /\ Accepted(Current)' = Accepted(Current)
    BY <2>1 DEF Current, Accepted
  <2>3. Shape' /\ AtHand'
    BY <2>1, <2>2 DEF Inv, Shape, AtHand, DueCount
  <2> QED BY <1>1, <2>1, <2>3 DEF Inv
<1>13. CASE UNCHANGED vars
  <2>1. Kept /\ req' = req
    BY <1>13 DEF vars, stores
  <2>2. Current' = Current /\ Accepted(Current)' = Accepted(Current)
    BY <2>1 DEF Current, Accepted
  <2>3. Shape' /\ AtHand'
    BY <2>1, <2>2 DEF Inv, Shape, AtHand, DueCount
  <2> QED BY <1>1, <2>1, <2>3 DEF Inv
<1> QED BY <1>2, <1>3, <1>4, <1>5, <1>6, <1>7, <1>8, <1>9, <1>10, <1>11, <1>12, <1>13 DEF Next

\* With principals configured, no stored row, team-memory entry or booked
\* saving is in a tenant other than its authenticated developer's.
THEOREM BoundToDeveloper == Spec => []BoundTenant
<1>1. Inv => BoundTenant
  BY DEF Inv, DerivedBound, MemoryBound, LedgerBound, BoundTenant, TenantOf
<1> QED BY <1>1, InitInv, NextInv, PTL DEF Spec

\* A stamp points to a record of another developer of the row's tenant, close
\* enough for its tier.
THEOREM StampsAreTeammates == Spec => []StampedByTeammate
<1>1. Inv => StampedByTeammate
  BY DEF Inv, DerivedBound, StampsBound, GoodStamp, StampedByTeammate, TenantOf
<1> QED BY <1>1, InitInv, NextInv, PTL DEF Spec

-----------------------------------------------------------------------------
(* TypeOK, MatchHasWitness and BookedAreMatched.  A row of the match store *)
(* is written several steps after the signal it came from was kept, and    *)
(* that signal may be of a record stored long before, placed by a registry *)
(* that has grown since.  The invariant follows the evidence: what is      *)
(* cached of the registry is still true of it, every signal is of a stored *)
(* record, every match being written has a reason among stored records,    *)
(* and the rows of a match are there before it is booked.                  *)

Modes == {"live_duplication", "solved_reuse"}
Topics == {Fact[i].topic : i \in Items}

\* o is an org of tenant t: its registered one, or its own while it had none.
OrgOf(t, o) ==
  \/ o = <<"unreg", t>>
  \/ t \in DOMAIN registry /\ o = <<"org", registry[t].org>>

\* The objective a signal carries, and the bar two records have to reach.
ObjectiveOf(i) == IF Known(Fact[i].objective) THEN Fact[i].objective ELSE NoTag
Terms(i) == [objective |-> ObjectiveOf(i), topic |-> Fact[i].topic, solved |-> Fact[i].solved]

\* The signal s is the one record j sent, whenever that was.
Says(s, j) ==
  /\ s.actor = Fact[j].actor /\ s.emb = Fact[j].emb
  /\ s.topic = Fact[j].topic /\ s.solved = Fact[j].solved
  /\ s.client = ClientOf(j) /\ s.objective = ObjectiveOf(j)
  /\ OrgOf(TenantOf(j), s.org)

\* Two records match for a reason that holds from then on.
Together(t, u) ==
  t = u \/ ({t, u} \subseteq DOMAIN registry /\ registry[t].org = registry[u].org)
Reason(i, j) ==
  /\ Fact[i].actor # Fact[j].actor
  /\ Together(TenantOf(i), TenantOf(j))
  /\ ClientOf(i) = ClientOf(j)
  /\ Similarity[<<Fact[i].emb, Fact[j].emb>>] >= Bar(Terms(i), Terms(j))

Kept ==
  /\ \A t \in DOMAIN registry : registry[t] \in [org : STRING, residency : STRING]
  /\ identity \in BOOLEAN
  /\ arrived \in 0..MaxArrivals
  /\ req.stage \in {"idle", "next", "match", "write"}
  /\ \A t \in DOMAIN memory : Len(memory[t]) <= Cap
  /\ DOMAIN derived \subseteq Items
  /\ capsules \subseteq Actors \X Topics

CacheTrue == \A t \in DOMAIN req.cache : OrgOf(t, req.cache[t].org)

SignalsBacked ==
  /\ signals \in Seq({signals[n] : n \in DOMAIN signals})
  /\ Len(signals) <= MaxSignals
  /\ OnePerActor(signals)
  /\ \A n \in DOMAIN signals : \E j \in DOMAIN derived : Matchable(j) /\ Says(signals[n], j)

HandBacked ==
  /\ req.stage \in {"match", "write"} => Current \in DOMAIN derived
  /\ req.stage = "write" => Matchable(Current)

FoundFor(i, m) ==
  /\ m.mode \in Modes
  /\ \E j \in DOMAIN derived :
       /\ Matchable(j) /\ Reason(i, j)
       /\ m.b = Fact[j].actor /\ m.topic = Fact[j].topic
FoundBacked ==
  req.stage = "write" => \A n \in DOMAIN req.found : FoundFor(Current, req.found[n])

WrittenSoFar ==
  req.stage = "write" =>
    LET m == req.found[req.at]
    IN /\ req.done >= 1 => <<m.a, m.b, m.topic>> \in DOMAIN matches
       /\ req.done >= 2 => <<m.b, m.a, m.topic>> \in DOMAIN matches

RowsBacked ==
  \A k \in DOMAIN matches : \E i, j \in DOMAIN derived :
    /\ Matchable(i) /\ Matchable(j) /\ Reason(i, j)
    /\ \E t \in {Fact[i].topic, Fact[j].topic} : k = <<Fact[i].actor, Fact[j].actor, t>>

Booking ==
  /\ BookedAreMatched
  /\ \A k \in DOMAIN ledger : ledger[k] \in Modes

Evidence ==
  /\ Kept /\ CacheTrue /\ SignalsBacked /\ HandBacked /\ FoundBacked /\ WrittenSoFar
  /\ RowsBacked /\ Booking

\* What no step of the collector or of an administrator takes back.
Grows ==
  /\ identity' = identity
  /\ \A t \in DOMAIN registry : t \in DOMAIN registry' /\ registry'[t].org = registry[t].org
  /\ DOMAIN derived \subseteq DOMAIN derived'
  /\ DOMAIN matches \subseteq DOMAIN matches'

LEMMA NextGrows == [Next]_vars => Grows
<1> SUFFICES ASSUME [Next]_vars PROVE Grows
  OBVIOUS
<1>1. CASE Admit
  BY <1>1 DEF Admit, Grows, With
<1>2. CASE Write
  BY <1>2 DEF Write, Grows, Recorded, With
<1>3. ASSUME NEW r \in Registrations, Register(r) PROVE Grows
  BY <1>3 DEF Register, Grows, With, stores
<1>4. CASE /\ ~Admit /\ ~Write /\ ~(\E r \in Registrations : Register(r))
  <2>1. UNCHANGED <<registry, identity, derived, matches>>
    BY <1>4 DEF Next, vars, Receive, RejectItem, AdmitFails, SkipMatching, Submit, WriteFails,
               Reply, Crash, stores
  <2> QED BY <2>1 DEF Grows
<1> QED BY <1>1, <1>2, <1>3, <1>4

\* The evidence of a match outlives every step.
LEMMA EvidenceStays ==
  ASSUME Grows
  PROVE  /\ \A t, o : OrgOf(t, o) => OrgOf(t, o)'
         /\ \A i : TenantOf(i)' = TenantOf(i)
         /\ \A s, j : Says(s, j) => Says(s, j)'
         /\ \A i, j : Reason(i, j) => Reason(i, j)'
         /\ \A i, m : FoundFor(i, m) => FoundFor(i, m)'
<1>1. \A i : TenantOf(i)' = TenantOf(i)
  BY DEF Grows, TenantOf
<1>2. \A t, o : OrgOf(t, o) => OrgOf(t, o)'
  BY DEF Grows, OrgOf
<1>3. \A s, j : Says(s, j) => Says(s, j)'
  BY <1>1, <1>2 DEF Says
<1>4. \A t, u : Together(t, u) => Together(t, u)'
  BY DEF Grows, Together
<1>5. \A i, j : Reason(i, j) => Reason(i, j)'
  BY <1>1, <1>4 DEF Reason
<1>6. \A i, m : FoundFor(i, m) => FoundFor(i, m)'
  BY <1>5 DEF Grows, FoundFor
<1> QED BY <1>1, <1>2, <1>3, <1>5, <1>6

\* A record is placed in an org of its tenant, from the cache or not.
LEMMA PlacedInOrg ==
  ASSUME CacheTrue, NEW i
  PROVE  OrgOf(TenantOf(i), Place(i).org)
<1>1. CASE TenantOf(i) \in DOMAIN req.cache
  BY <1>1 DEF CacheTrue, Place
<1>2. CASE TenantOf(i) \notin DOMAIN req.cache
  BY <1>2 DEF Place, Registered, OrgOf
<1> QED BY <1>1, <1>2

LEMMA SignalSays ==
  ASSUME CacheTrue, NEW i
  PROVE  Says(Signal(i), i)
BY PlacedInOrg DEF Says, Signal, ObjectiveOf, ClientOf

\* Two signals the broker matches give a reason to their records.
LEMMA MatchedHasReason ==
  ASSUME NEW x, NEW y, NEW i \in Items, NEW j \in Items, Matchable(i), Matchable(j),
         Says(x, i), Says(y, j), Matched(x, y)
  PROVE  Reason(i, j)
<1>1. Fact[i].actor # Fact[j].actor /\ ClientOf(i) = ClientOf(j) /\ x.org = y.org
  BY DEF Matched, WallOk, Says
<1>2. Together(TenantOf(i), TenantOf(j))
  BY <1>1 DEF Says, OrgOf, Together
<1>3. Bar(x, y) = Bar(Terms(i), Terms(j))
  BY DEF Says, Terms, Bar, SameObjective, EitherSolved
<1>4. Similarity[<<Fact[i].emb, Fact[j].emb>>] >= Bar(x, y)
  BY DEF Matched, Says
<1> QED BY <1>1, <1>2, <1>3, <1>4 DEF Reason

LEMMA ReasonIsSymmetric ==
  ASSUME NEW i \in Items, NEW j \in Items, Matchable(i), Matchable(j), Reason(i, j)
  PROVE  Reason(j, i)
<1>1. Bar(Terms(i), Terms(j)) = Bar(Terms(j), Terms(i))
  BY DEF Terms, Bar, SameObjective, EitherSolved
<1>2. Fact[i].emb \in Embeddings /\ Fact[j].emb \in Embeddings
  BY CollectorAssumption DEF Matchable
<1>3. Similarity[<<Fact[i].emb, Fact[j].emb>>] = Similarity[<<Fact[j].emb, Fact[i].emb>>]
  BY <1>2, BrokerAssumption
<1>4. Together(TenantOf(j), TenantOf(i))
  BY DEF Reason, Together
<1> QED BY <1>1, <1>3, <1>4 DEF Reason

\* The two rows of a match come first, its booking third.
LEMMA WritesAre ==
  ASSUME NEW i, NEW m
  PROVE  LET due == WritesFor(i, m)
         IN /\ due[1] = Row(m.a, m.b, m.topic, m.mode)
            /\ due[2] = Row(m.b, m.a, m.topic, m.mode)
            /\ Len(due) = DueCount(i)
            /\ DueCount(i) \in {2, 3}
            /\ DueCount(i) = 3 => due[3] = Opportunity(i, m)
<1> DEFINE r1 == Row(m.a, m.b, m.topic, m.mode)
           r2 == Row(m.b, m.a, m.topic, m.mode)
           o == Opportunity(i, m)
<1> HIDE DEF r1, r2, o
<1>1. WritesFor(i, m) = <<r1, r2>> \o Books(i, m)
  BY DEF WritesFor, Rows, r1, r2
<1>2. CASE DOMAIN Client # {} /\ ~Known(Fact[i].objective)
  <2>1. Books(i, m) = <<>> /\ DueCount(i) = 2
    BY <1>2 DEF Books, DueCount
  <2>2. <<r1, r2>> \in Seq({r1, r2})
    OBVIOUS
  <2>3. <<r1, r2>> \o <<>> = <<r1, r2>>
    BY <2>2, ConcatEmptySeq
  <2> QED BY <1>1, <2>1, <2>3 DEF r1, r2
<1>3. CASE ~(DOMAIN Client # {} /\ ~Known(Fact[i].objective))
  <2>1. Books(i, m) = <<o>> /\ DueCount(i) = 3
    BY <1>3 DEF Books, DueCount, o
  <2> DEFINE both == <<r1, r2>>
             one == <<o>>
             T == {r1, r2, o}
  <2>2. both \in Seq(T) /\ Len(both) = 2 /\ both[1] = r1 /\ both[2] = r2
    OBVIOUS
  <2>3. one \in Seq(T) /\ Len(one) = 1 /\ one[1] = o
    OBVIOUS
  <2>4. WritesFor(i, m) = both \o one
    BY <1>1, <2>1
  <2> HIDE DEF both, one, T
  <2>5. /\ Len(both \o one) = Len(both) + Len(one)
        /\ \A n \in 1..Len(both) + Len(one) :
             (both \o one)[n] = IF n <= Len(both) THEN both[n] ELSE one[n - Len(both)]
    BY <2>2, <2>3, ConcatProperties
  <2>6. 1 \in 1..2 + 1 /\ 2 \in 1..2 + 1 /\ 3 \in 1..2 + 1
    OBVIOUS
  <2>7. /\ Len(both \o one) = 3
        /\ (both \o one)[1] = r1 /\ (both \o one)[2] = r2 /\ (both \o one)[3] = o
    BY <2>2, <2>3, <2>5, <2>6
  <2> QED BY <2>1, <2>4, <2>7 DEF r1, r2, o
<1> QED BY <1>2, <1>3

-----------------------------------------------------------------------------
(* Each part of the evidence, over every step.                             *)

LEMMA RememberedCap ==
  ASSUME Inv, Kept, NEW i \in Items
  PROVE  \A t \in DOMAIN Remembered(i) : Len(Remembered(i)[t]) <= Cap
<1> DEFINE t == TenantOf(i)
           old == IF t \in DOMAIN memory THEN memory[t] ELSE <<>>
           longer == Append(old, i)
           new == IF Len(longer) > Cap THEN Tail(longer) ELSE longer
<1>1. CASE Remembered(i) = memory
  BY <1>1 DEF Kept
<1>2. CASE Remembered(i) # memory
  <2>1. Remembered(i) = With(memory, t, new)
    BY <1>2 DEF Remembered
  <2>2. old \in Seq(Items) /\ Len(old) <= Cap
    <3>1. CASE t \in DOMAIN memory
      BY <3>1 DEF Inv, Shape, Kept
    <3>2. CASE t \notin DOMAIN memory
      <4>1. old = <<>>
        BY <3>2
      <4>2. <<>> \in Seq(Items) /\ Len(<<>>) = 0
        BY EmptySeq
      <4>3. Cap \in Nat
        BY CollectorAssumption
      <4> HIDE DEF old
      <4> QED BY <4>1, <4>2, <4>3
    <3> QED BY <3>1, <3>2
  <2> HIDE DEF old, t
  <2>3. longer \in Seq(Items) /\ Len(longer) = Len(old) + 1 /\ longer # <<>>
    BY <2>2, AppendProperties
  <2> HIDE DEF longer
  <2>4. Len(Tail(longer)) = Len(longer) - 1 /\ Len(old) \in Nat
    BY <2>2, <2>3
  <2>5. Len(new) <= Cap
    BY <2>2, <2>3, <2>4, CollectorAssumption
  <2> HIDE DEF new
  <2> QED BY <2>1, <2>5 DEF With, Kept
<1> QED BY <1>1, <1>2

LEMMA KeptNext == Inv /\ Kept /\ [Next]_vars => Kept'
<1> SUFFICES ASSUME Inv, Kept, [Next]_vars PROVE Kept'
  OBVIOUS
<1>1. \A t \in DOMAIN registry' : registry'[t] \in [org : STRING, residency : STRING]
  <2>1. CASE \E r \in Registrations : Register(r)
    <3>1. PICK r \in Registrations :
            registry' = With(registry, r.tenant, [org |-> r.org, residency |-> r.residency])
      BY <2>1 DEF Register
    <3>2. [org |-> r.org, residency |-> r.residency] \in [org : STRING, residency : STRING]
      BY CollectorAssumption
    <3> QED BY <3>1, <3>2 DEF With, Kept
  <2>2. CASE ~(\E r \in Registrations : Register(r))
    <3>1. registry' = registry
      BY <2>2 DEF Next, vars, Receive, RejectItem, Admit, AdmitFails, SkipMatching, Submit,
                 Write, WriteFails, Reply, Crash, stores
    <3> QED BY <3>1 DEF Kept
  <2> QED BY <2>1, <2>2
<1>2. identity' \in BOOLEAN
  BY NextGrows DEF Grows, Kept
<1>3. arrived' \in 0..MaxArrivals
  <2>1. arrived' = arrived \/ (arrived < MaxArrivals /\ arrived' = arrived + 1)
    BY DEF Next, vars, Receive, RejectItem, Admit, AdmitFails, SkipMatching, Submit,
           Write, WriteFails, Reply, Crash, Register, stores
  <2> QED BY <2>1, CollectorAssumption DEF Kept
<1>4. req'.stage \in {"idle", "next", "match", "write"}
  <2> DEFINE r == [stage |-> req.stage, items |-> req.items, cache |-> req.cache,
                   found |-> req.found, at |-> req.at, done |-> req.done]
  <2>1. req = r /\ req.stage \in {"idle", "next", "match", "write"}
    BY DEF Inv, Shape, Kept
  <2>2. CASE UNCHANGED vars \/ \E x \in Registrations : Register(x)
    BY <2>1, <2>2 DEF vars, Register
  <2>3. CASE \E b \in Batches : Receive(b)
    BY <2>3 DEF Receive, Idle
  <2>4. CASE RejectItem \/ AdmitFails \/ SkipMatching \/ WriteFails
    BY <2>4 DEF RejectItem, AdmitFails, SkipMatching, WriteFails, NextItem
  <2>5. CASE Admit
    BY <2>1, <2>5 DEF Admit
  <2>6. CASE Submit
    BY <2>1, <2>6 DEF Submit, NextItem
  <2>7. CASE Write
    BY <2>1, <2>7 DEF Write, NextItem
  <2>8. CASE Reply \/ Crash
    BY <2>8 DEF Reply, Crash, Idle
  <2> QED BY <2>2, <2>3, <2>4, <2>5, <2>6, <2>7, <2>8 DEF Next
<1>5. \A t \in DOMAIN memory' : Len(memory'[t]) <= Cap
  <2>1. CASE Admit \/ AdmitFails
    <3>1. memory' = Remembered(Current) /\ Current \in Items
      BY <2>1, HandIsItem DEF Admit, AdmitFails
    <3> QED BY <3>1, RememberedCap
  <2>2. CASE Crash
    BY <2>2 DEF Crash
  <2>3. CASE ~Admit /\ ~AdmitFails /\ ~Crash
    <3>1. memory' = memory
      BY <2>3 DEF Next, vars, Receive, RejectItem, SkipMatching, Submit,
                 Write, WriteFails, Reply, Register, stores
    <3> QED BY <3>1 DEF Kept
  <2> QED BY <2>1, <2>2, <2>3
<1>6. DOMAIN derived' \subseteq Items
  <2>1. CASE Admit
    BY <2>1, HandIsItem DEF Admit, With, Kept
  <2>2. CASE ~Admit
    <3>1. derived' = derived
      BY <2>2 DEF Next, vars, Receive, RejectItem, AdmitFails, SkipMatching, Submit,
                 Write, WriteFails, Reply, Crash, Register, stores
    <3> QED BY <3>1 DEF Kept
  <2> QED BY <2>1, <2>2
<1>7. capsules' \subseteq Actors \X Topics
  <2>1. CASE Submit
    <3>1. Current \in Items
      BY <2>1, HandIsItem DEF Submit, Inv, AtHand
    <3> QED BY <2>1, <3>1 DEF Submit, WithCapsule, Actors, Topics, Kept
  <2>2. CASE ~Submit
    <3>1. capsules' = capsules
      BY <2>2 DEF Next, vars, Receive, RejectItem, Admit, AdmitFails, SkipMatching,
                 Write, WriteFails, Reply, Crash, Register, stores
    <3> QED BY <3>1 DEF Kept
  <2> QED BY <2>1, <2>2
<1> QED BY <1>1, <1>2, <1>3, <1>4, <1>5, <1>6, <1>7 DEF Kept

LEMMA CacheNext == Inv /\ CacheTrue /\ [Next]_vars => CacheTrue'
<1> SUFFICES ASSUME Inv, CacheTrue, [Next]_vars PROVE CacheTrue'
  OBVIOUS
<1>1. Grows
  BY NextGrows
<1>2. req'.cache = req.cache \/ req'.cache = <<>> \/ req'.cache = CachePlace
  <2>1. req = [stage |-> req.stage, items |-> req.items, cache |-> req.cache,
               found |-> req.found, at |-> req.at, done |-> req.done]
    BY DEF Inv, Shape
  <2>2. CASE UNCHANGED vars \/ \E x \in Registrations : Register(x)
    BY <2>2 DEF vars, Register
  <2>3. CASE \E b \in Batches : Receive(b)
    BY <2>3 DEF Receive, Idle
  <2>4. CASE RejectItem \/ AdmitFails \/ SkipMatching \/ WriteFails
    BY <2>4 DEF RejectItem, AdmitFails, SkipMatching, WriteFails, NextItem
  <2>5. CASE Admit
    BY <2>1, <2>5 DEF Admit
  <2>6. CASE Submit
    BY <2>1, <2>6 DEF Submit, NextItem
  <2>7. CASE Write
    BY <2>1, <2>7 DEF Write, NextItem
  <2>8. CASE Reply \/ Crash
    BY <2>8 DEF Reply, Crash, Idle
  <2> QED BY <2>2, <2>3, <2>4, <2>5, <2>6, <2>7, <2>8 DEF Next
<1>3. \A t \in DOMAIN CachePlace : OrgOf(t, CachePlace[t].org)
  BY PlacedInOrg DEF CachePlace, With, CacheTrue
<1>4. \A t \in DOMAIN req'.cache : OrgOf(t, req'.cache[t].org)
  BY <1>2, <1>3 DEF CacheTrue
<1> QED BY <1>1, <1>4, EvidenceStays DEF CacheTrue

\* A signal is kept only of the record at hand, which is stored by then.
LEMMA SignalsNext == Inv /\ Evidence /\ [Next]_vars => SignalsBacked'
<1> SUFFICES ASSUME Inv, Evidence, [Next]_vars PROVE SignalsBacked'
  OBVIOUS
<1>1. Grows /\ SignalsBacked /\ HandBacked /\ CacheTrue
  BY NextGrows DEF Evidence
<1>2. CASE Submit
  <2> DEFINE sig == Signal(Current)
             S == {signals[n] : n \in DOMAIN signals} \cup {sig}
             kept == Retained(signals, sig)
  <2>1. signals' = kept /\ Matchable(Current) /\ Current \in DOMAIN derived
    BY <1>1, <1>2 DEF Submit, HandBacked
  <2>2. Says(sig, Current)
    BY <1>1, SignalSays
  <2> HIDE DEF sig
  <2>3. signals \in Seq(S) /\ sig \in S /\ OnePerActor(signals)
    BY <1>1 DEF SignalsBacked
  <2>4. /\ kept \in Seq(S) /\ Len(kept) <= MaxSignals /\ OnePerActor(kept)
        /\ \A k \in DOMAIN kept : kept[k] = sig \/ \E n \in DOMAIN signals : kept[k] = signals[n]
    BY <2>3, RetainedIs
  <2> HIDE DEF kept, S
  <2>5. \A k \in DOMAIN kept : \E j \in DOMAIN derived : Matchable(j) /\ Says(kept[k], j)
    BY <1>1, <2>1, <2>2, <2>4 DEF SignalsBacked
  <2>6. \A k \in DOMAIN signals' : \E j \in DOMAIN derived :
          Matchable(j) /\ Says(signals'[k], j)
    BY <2>1, <2>5
  <2>7. signals' \in Seq({signals'[n] : n \in DOMAIN signals'})
    BY <2>1, <2>4
  <2>8. \A k \in DOMAIN signals' : \E j \in DOMAIN derived' :
          Matchable(j) /\ (\E s : s = signals'[k] /\ Says(s, j)')
    BY <1>1, <2>6, EvidenceStays DEF Grows
  <2> QED BY <2>1, <2>4, <2>7, <2>8 DEF SignalsBacked, OnePerActor, Matchable
<1>3. CASE Crash
  <2>1. signals' = <<>> /\ DOMAIN <<>> = {}
    BY <1>3 DEF Crash
  <2>2. <<>> \in Seq({}) /\ Len(<<>>) = 0
    BY EmptySeq
  <2>3. <<>> \in Seq({<<>>[n] : n \in DOMAIN <<>>}) /\ Len(<<>>) <= MaxSignals
    BY <2>1, <2>2, BrokerAssumption, EmptySeq
  <2> QED BY <2>1, <2>3 DEF SignalsBacked, OnePerActor
<1>4. CASE ~Submit /\ ~Crash
  <2>1. signals' = signals
    BY <1>4 DEF Next, vars, Receive, RejectItem, Admit, AdmitFails, SkipMatching,
               Write, WriteFails, Reply, Register, stores
  <2>2. \A k \in DOMAIN signals' : \E j \in DOMAIN derived' :
          Matchable(j) /\ (\E s : s = signals'[k] /\ Says(s, j)')
    BY <1>1, <2>1, EvidenceStays DEF Grows, SignalsBacked
  <2> QED BY <1>1, <2>1, <2>2 DEF SignalsBacked, OnePerActor, Matchable
<1> QED BY <1>2, <1>3, <1>4

\* Where a write leads: to the next commit of the match, to the next match, or
\* away from the record.
LEMMA WriteLeads ==
  ASSUME Inv, Write
  PROVE  \/ /\ req'.stage = "write" /\ req'.items = req.items /\ req'.found = req.found
            /\ req'.at = req.at /\ req'.done = req.done + 1
         \/ /\ req'.stage = "write" /\ req'.items = req.items /\ req'.found = req.found
            /\ req'.done = 0
         \/ req'.stage = "next"
<1>1. req = [stage |-> req.stage, items |-> req.items, cache |-> req.cache,
             found |-> req.found, at |-> req.at, done |-> req.done]
  BY DEF Inv, Shape
<1>2. \/ req' = [req EXCEPT !.done = @ + 1]
      \/ req' = [req EXCEPT !.at = @ + 1, !.done = 0]
      \/ req' = NextItem(req.cache)
  BY DEF Write
<1>3. req.stage = "write"
  BY DEF Write
<1>4. CASE req' = [req EXCEPT !.done = @ + 1]
  BY <1>1, <1>3, <1>4
<1>5. CASE req' = [req EXCEPT !.at = @ + 1, !.done = 0]
  BY <1>1, <1>3, <1>5
<1>6. CASE req' = NextItem(req.cache)
  BY <1>6 DEF NextItem
<1> QED BY <1>2, <1>4, <1>5, <1>6

\* Where a submission leads.
LEMMA SubmitLeads ==
  ASSUME Inv, Submit
  PROVE  \/ /\ req'.stage = "write" /\ req'.items = req.items
            /\ req'.found = Matches(signals, Signal(Current)) /\ req'.done = 0
         \/ req'.stage = "next"
<1>1. /\ req = [stage |-> req.stage, items |-> req.items, cache |-> req.cache,
                found |-> req.found, at |-> req.at, done |-> req.done]
      /\ req.done = 0
  BY DEF Inv, Shape, AtHand, Submit
<1> DEFINE found == Matches(signals, Signal(Current))
<1>2. \/ req' = [req EXCEPT !.stage = "write", !.found = found, !.cache = CachePlace]
      \/ req' = NextItem(CachePlace)
  BY DEF Submit
<1> HIDE DEF found
<1>3. CASE req' = [req EXCEPT !.stage = "write", !.found = found, !.cache = CachePlace]
  <2>1. req' = [stage |-> "write", items |-> req.items, cache |-> CachePlace,
                found |-> found, at |-> req.at, done |-> req.done]
    BY <1>1, <1>3
  <2> QED BY <1>1, <2>1 DEF found
<1>4. CASE req' = NextItem(CachePlace)
  BY <1>4 DEF NextItem
<1> QED BY <1>2, <1>3, <1>4

\* The other steps reach or keep a record at hand only by admitting it or by
\* leaving the request alone.
LEMMA OthersLead ==
  ASSUME Inv, [Next]_vars, ~Write, ~Submit
  PROVE  \/ req' = req
         \/ Admit /\ req'.stage = "match" /\ req'.items = req.items
         \/ req'.stage \in {"idle", "next"}
<1>1. req = [stage |-> req.stage, items |-> req.items, cache |-> req.cache,
             found |-> req.found, at |-> req.at, done |-> req.done]
  BY DEF Inv, Shape
<1>2. CASE UNCHANGED vars \/ \E x \in Registrations : Register(x)
  BY <1>2 DEF vars, Register
<1>3. CASE \E b \in Batches : Receive(b)
  BY <1>3 DEF Receive, Idle
<1>4. CASE RejectItem \/ AdmitFails \/ SkipMatching \/ WriteFails
  BY <1>4 DEF RejectItem, AdmitFails, SkipMatching, WriteFails, NextItem
<1>5. CASE Admit
  BY <1>1, <1>5 DEF Admit
<1>6. CASE Reply \/ Crash
  BY <1>6 DEF Reply, Crash, Idle
<1> QED BY <1>2, <1>3, <1>4, <1>5, <1>6 DEF Next

LEMMA HandNext == Inv /\ Evidence /\ [Next]_vars => HandBacked'
<1> SUFFICES ASSUME Inv, Evidence, [Next]_vars PROVE HandBacked'
  OBVIOUS
<1>1. Grows /\ HandBacked
  BY NextGrows DEF Evidence
<1>2. CASE Submit
  <2>1. Matchable(Current) /\ req.stage = "match"
    BY <1>2 DEF Submit
  <2> QED BY <1>1, <1>2, <2>1, SubmitLeads DEF HandBacked, Grows, Current, Matchable
<1>3. CASE Write
  <2>1. req.stage = "write"
    BY <1>3 DEF Write
  <2> QED BY <1>1, <1>3, <2>1, WriteLeads DEF HandBacked, Grows, Current, Matchable
<1>4. CASE Admit
  <2>1. Current \in DOMAIN derived' /\ ~Write /\ ~Submit /\ req.stage = "next"
    BY <1>4 DEF Admit, With, Write, Submit
  <2>2. req'.stage = "match" => req'.items = req.items
    BY <2>1, OthersLead
  <2>3. req'.stage # "write"
    BY <2>1, OthersLead
  <2> QED BY <2>1, <2>2, <2>3, OthersLead DEF HandBacked, Current
<1>5. CASE ~Submit /\ ~Write /\ ~Admit
  BY <1>1, <1>5, OthersLead DEF HandBacked, Grows, Current, Matchable
<1> QED BY <1>2, <1>3, <1>4, <1>5

\* Every match the broker finds has a reason among the stored records.
LEMMA FoundHasReason ==
  ASSUME Inv, Evidence, Submit
  PROVE  \A n \in DOMAIN Matches(signals, Signal(Current)) :
           FoundFor(Current, Matches(signals, Signal(Current))[n])
<1> DEFINE sig == Signal(Current)
           found == Matches(signals, sig)
<1>1. /\ Matchable(Current) /\ Current \in DOMAIN derived /\ Current \in Items
      /\ DOMAIN derived \subseteq Items
  BY DEF Submit, Evidence, HandBacked, Kept
<1>2. Says(sig, Current)
  BY SignalSays DEF Evidence
<1> HIDE DEF sig
<1>3. SUFFICES ASSUME NEW k \in DOMAIN found PROVE FoundFor(Current, found[k])
  BY DEF sig
<1>4. PICK n \in DOMAIN signals :
        /\ Matched(sig, signals[n])
        /\ found[k] = [a |-> sig.actor, b |-> signals[n].actor, topic |-> signals[n].topic,
                       mode |-> Mode(sig, signals[n])]
  <2>1. signals \in Seq({signals[n] : n \in DOMAIN signals})
    BY DEF Evidence, SignalsBacked
  <2> QED BY <2>1, MatchesAre
<1>5. PICK j \in DOMAIN derived : Matchable(j) /\ Says(signals[n], j)
  BY DEF Evidence, SignalsBacked
<1>6. Reason(Current, j)
  BY <1>1, <1>2, <1>4, <1>5, MatchedHasReason
<1>7. found[k].b = Fact[j].actor /\ found[k].topic = Fact[j].topic /\ found[k].mode \in Modes
  BY <1>4, <1>5 DEF Says, Mode, Modes
<1> QED BY <1>5, <1>6, <1>7 DEF FoundFor

LEMMA FoundNext == Inv /\ Evidence /\ [Next]_vars => FoundBacked'
<1> SUFFICES ASSUME Inv, Evidence, [Next]_vars PROVE FoundBacked'
  OBVIOUS
<1>1. Grows /\ FoundBacked
  BY NextGrows DEF Evidence
<1>2. CASE Submit
  <2>1. CASE req'.stage # "write"
    BY <2>1 DEF FoundBacked
  <2>2. CASE req'.stage = "write"
    <3>1. req'.found = Matches(signals, Signal(Current)) /\ Current' = Current
      BY <1>2, <2>2, SubmitLeads DEF Current
    <3>2. \A n \in DOMAIN req'.found : FoundFor(Current', req'.found[n])
      BY <1>2, <3>1, FoundHasReason
    <3> QED BY <1>1, <3>2, EvidenceStays DEF FoundBacked
  <2> QED BY <2>1, <2>2
<1>3. CASE Write
  <2>1. req.stage = "write"
    BY <1>3 DEF Write
  <2>2. CASE req'.stage = "write"
    <3>1. req'.found = req.found /\ Current' = Current
      BY <1>3, <2>2, WriteLeads DEF Current
    <3>2. \A n \in DOMAIN req'.found : FoundFor(Current', req'.found[n])
      BY <1>1, <2>1, <3>1 DEF FoundBacked
    <3> QED BY <1>1, <3>2, EvidenceStays DEF FoundBacked
  <2> QED BY <2>2 DEF FoundBacked
<1>4. CASE ~Submit /\ ~Write
  <2>1. CASE req' = req
    <3>1. req.stage = "write" => \A n \in DOMAIN req'.found : FoundFor(Current', req'.found[n])
      BY <1>1, <2>1 DEF FoundBacked, Current
    <3> QED BY <1>1, <2>1, <3>1, EvidenceStays DEF FoundBacked
  <2>2. CASE req'.stage # "write"
    BY <2>2 DEF FoundBacked
  <2> QED BY <1>4, <2>1, <2>2, OthersLead
<1> QED BY <1>2, <1>3, <1>4

\* The commit a write makes: a row of the match at hand in either direction, or
\* its booking, for which the rows are there.
LEMMA WriteMakes ==
  ASSUME Inv, Evidence, Write
  PROVE  LET m == req.found[req.at]
         IN /\ Current \in DOMAIN derived /\ Matchable(Current)
            /\ m.a = Fact[Current].actor /\ FoundFor(Current, m)
            /\ \/ /\ req.done = 0
                  /\ matches' = Recorded(Row(m.a, m.b, m.topic, m.mode)) /\ ledger' = ledger
               \/ /\ req.done = 1
                  /\ matches' = Recorded(Row(m.b, m.a, m.topic, m.mode)) /\ ledger' = ledger
               \/ /\ req.done = 2
                  /\ {<<m.a, m.b, m.topic>>, <<m.b, m.a, m.topic>>} \subseteq DOMAIN matches
                  /\ matches' = matches /\ ledger' = Booked(Opportunity(Current, m))
<1> DEFINE m == req.found[req.at]
           due == WritesFor(Current, m)
           w == due[req.done + 1]
<1>1. /\ req.stage = "write" /\ req.at \in DOMAIN req.found
      /\ req.done \in Nat /\ req.done < DueCount(Current)
      /\ m.a = Fact[Current].actor
  BY DEF Write, Inv, AtHand
<1>2. Current \in DOMAIN derived /\ Matchable(Current) /\ FoundFor(Current, m)
  BY <1>1 DEF Evidence, HandBacked, FoundBacked
<1>3. /\ due[1] = Row(m.a, m.b, m.topic, m.mode)
      /\ due[2] = Row(m.b, m.a, m.topic, m.mode)
      /\ DueCount(Current) \in {2, 3}
      /\ DueCount(Current) = 3 => due[3] = Opportunity(Current, m)
  BY WritesAre
<1>4. IF w.op = "row" THEN matches' = Recorded(w) /\ ledger' = ledger
                      ELSE ledger' = Booked(w) /\ matches' = matches
  BY DEF Write
<1>5. req.done \in {0, 1} \/ (req.done = 2 /\ DueCount(Current) = 3)
  BY <1>1, <1>3
<1>6. req.done >= 2 => {<<m.a, m.b, m.topic>>, <<m.b, m.a, m.topic>>} \subseteq DOMAIN matches
  BY <1>1 DEF Evidence, WrittenSoFar
<1> HIDE DEF m, due
<1>7. CASE req.done = 0
  BY <1>1, <1>2, <1>3, <1>4, <1>7 DEF Row, m
<1>8. CASE req.done = 1
  BY <1>1, <1>2, <1>3, <1>4, <1>8 DEF Row, m
<1>9. CASE req.done = 2 /\ DueCount(Current) = 3
  <2>1. w = Opportunity(Current, m) /\ w.op # "row"
    BY <1>3, <1>9 DEF Opportunity
  <2> QED BY <1>1, <1>2, <1>4, <1>6, <1>9, <2>1 DEF m
<1> QED BY <1>5, <1>7, <1>8, <1>9

LEMMA WrittenNext == Inv /\ Evidence /\ [Next]_vars => WrittenSoFar'
<1> SUFFICES ASSUME Inv, Evidence, [Next]_vars PROVE WrittenSoFar'
  OBVIOUS
<1>1. Grows /\ WrittenSoFar
  BY NextGrows DEF Evidence
<1>2. CASE Submit
  BY <1>2, SubmitLeads DEF WrittenSoFar
<1>3. CASE Write
  <2> DEFINE m == req.found[req.at]
             to == <<m.a, m.b, m.topic>>
             fro == <<m.b, m.a, m.topic>>
  <2>1. /\ req.done = 0 => to \in DOMAIN matches'
        /\ req.done = 1 => to \in DOMAIN matches' /\ fro \in DOMAIN matches'
        /\ req.done = 2 => to \in DOMAIN matches' /\ fro \in DOMAIN matches'
        /\ req.done \in {0, 1, 2}
    <3>1. req.done >= 1 => to \in DOMAIN matches
      BY <1>1, <1>3 DEF WrittenSoFar, Write
    <3> QED BY <1>3, <3>1, WriteMakes DEF Recorded, With, Row
  <2>2. CASE req'.done = req.done + 1 /\ req'.found = req.found /\ req'.at = req.at
    BY <2>1, <2>2 DEF WrittenSoFar
  <2>3. CASE req'.done = 0 \/ req'.stage # "write"
    BY <2>3 DEF WrittenSoFar
  <2> QED BY <1>3, <2>2, <2>3, WriteLeads
<1>4. CASE ~Submit /\ ~Write
  BY <1>1, <1>4, OthersLead DEF WrittenSoFar, Grows
<1> QED BY <1>2, <1>3, <1>4

LEMMA RowsNext == Inv /\ Evidence /\ [Next]_vars => RowsBacked'
<1> SUFFICES ASSUME Inv, Evidence, [Next]_vars PROVE RowsBacked'
  OBVIOUS
<1> DEFINE Because(i, j, k) ==
             /\ Matchable(i) /\ Matchable(j) /\ Reason(i, j)
             /\ \E t \in {Fact[i].topic, Fact[j].topic} : k = <<Fact[i].actor, Fact[j].actor, t>>
<1>1. Grows /\ \A k \in DOMAIN matches : \E i, j \in DOMAIN derived : Because(i, j, k)
  BY NextGrows DEF Evidence, RowsBacked
<1>2. \A k \in DOMAIN matches' : \E i, j \in DOMAIN derived : Because(i, j, k)
  <2>1. CASE Write
    <3> DEFINE m == req.found[req.at]
               to == <<m.a, m.b, m.topic>>
               fro == <<m.b, m.a, m.topic>>
    <3>1. DOMAIN matches' \subseteq DOMAIN matches \cup {to, fro}
      BY <2>1, WriteMakes DEF Recorded, With, Row
    <3>2. PICK j \in DOMAIN derived :
            /\ Matchable(j) /\ Reason(Current, j)
            /\ m.b = Fact[j].actor /\ m.topic = Fact[j].topic
      BY <2>1, WriteMakes DEF FoundFor
    <3>3. Current \in DOMAIN derived /\ Matchable(Current) /\ m.a = Fact[Current].actor
      BY <2>1, WriteMakes
    <3>4. Reason(j, Current)
      BY <3>2, <3>3, ReasonIsSymmetric DEF Evidence, Kept
    <3> HIDE DEF m
    <3>5. Because(Current, j, to) /\ Because(j, Current, fro)
      BY <3>2, <3>3, <3>4
    <3> HIDE DEF Because, to, fro
    <3> QED BY <1>1, <3>1, <3>2, <3>3, <3>5
  <2>2. CASE ~Write
    <3>1. matches' = matches
      BY <2>2 DEF Next, vars, Receive, RejectItem, Admit, AdmitFails, SkipMatching, Submit,
                 WriteFails, Reply, Crash, Register, stores
    <3> QED BY <1>1, <3>1
  <2> QED BY <2>1, <2>2
<1>3. \A i, j \in DOMAIN derived : i \in DOMAIN derived' /\ j \in DOMAIN derived'
  BY <1>1 DEF Grows
<1> QED BY <1>1, <1>2, <1>3, EvidenceStays DEF RowsBacked, Matchable

LEMMA BookingNext == Inv /\ Evidence /\ [Next]_vars => Booking'
<1> SUFFICES ASSUME Inv, Evidence, [Next]_vars PROVE Booking'
  OBVIOUS
<1> DEFINE Both(k, domain) ==
             \E a, b \in k[2] : \E t \in Topics :
               /\ a # b
               /\ {<<a, b, t>>, <<b, a, t>>} \subseteq domain
<1>1. /\ Grows
      /\ \A k \in DOMAIN ledger : Both(k, DOMAIN matches) /\ ledger[k] \in Modes
  BY NextGrows DEF Evidence, Booking, BookedAreMatched, Topics
<1>2. \A k : Both(k, DOMAIN matches) => Both(k, DOMAIN matches')
  BY <1>1 DEF Grows
<1>3. \A k \in DOMAIN ledger' : Both(k, DOMAIN matches') /\ ledger'[k] \in Modes
  <2>1. CASE ledger' = ledger
    <3> HIDE DEF Both
    <3> QED BY <1>1, <1>2, <2>1
  <2>2. CASE ledger' # ledger
    <3> DEFINE m == req.found[req.at]
               w == Opportunity(Current, m)
    <3>1. Write
      BY <2>2 DEF Next, vars, Receive, RejectItem, Admit, AdmitFails, SkipMatching, Submit,
                 WriteFails, Reply, Crash, Register, stores
    <3>2. /\ ledger' = Booked(w) /\ FoundFor(Current, m) /\ m.a = Fact[Current].actor
          /\ {<<m.a, m.b, m.topic>>, <<m.b, m.a, m.topic>>} \subseteq DOMAIN matches
      BY <2>2, <3>1, WriteMakes
    <3>3. w.key[2] = {m.a, m.b} /\ w.mode = m.mode
      BY DEF Opportunity
    <3>4. m.a # m.b /\ m.topic \in Topics /\ m.mode \in Modes
      BY <3>2 DEF FoundFor, Reason, Evidence, Kept, Topics
    <3> HIDE DEF m, w
    <3>5. Both(w.key, DOMAIN matches)
      BY <3>2, <3>3, <3>4
    <3>6. ledger' = With(ledger, w.key, w.mode)
      BY <2>2, <3>2 DEF Booked
    <3> HIDE DEF Both
    <3>7. /\ DOMAIN ledger' = DOMAIN ledger \cup {w.key}
          /\ \A k \in DOMAIN ledger' : ledger'[k] = IF k = w.key THEN w.mode ELSE ledger[k]
      BY <3>6 DEF With
    <3> QED BY <1>1, <1>2, <3>3, <3>4, <3>5, <3>7
  <2> QED BY <2>1, <2>2
<1> QED BY <1>3 DEF Booking, BookedAreMatched, Topics

LEMMA EvidenceNext == Inv /\ Evidence /\ [Next]_vars => Evidence'
BY KeptNext, CacheNext, SignalsNext, HandNext, FoundNext, WrittenNext, RowsNext, BookingNext
   DEF Evidence

LEMMA EvidenceInit == Init => Evidence
<1> SUFFICES ASSUME Init PROVE Evidence
  OBVIOUS
<1>1. req = [stage |-> "idle", items |-> <<>>, cache |-> <<>>, found |-> <<>>, at |-> 1, done |-> 0]
  BY DEF Init, Idle
<1>2. /\ DOMAIN <<>> = {} /\ capsules = {} /\ memory = <<>> /\ derived = <<>>
      /\ matches = <<>> /\ ledger = <<>> /\ signals = <<>>
  BY DEF Init
<1>3. Kept
  BY <1>1, <1>2, CollectorAssumption DEF Init, Kept
<1>4. CacheTrue /\ HandBacked /\ FoundBacked /\ WrittenSoFar
  BY <1>1, <1>2 DEF CacheTrue, HandBacked, FoundBacked, WrittenSoFar
<1>5. SignalsBacked
  <2>1. <<>> \in Seq({<<>>[n] : n \in DOMAIN <<>>}) /\ Len(<<>>) <= MaxSignals
    BY <1>2, BrokerAssumption, EmptySeq
  <2> QED BY <1>2, <2>1 DEF SignalsBacked, OnePerActor
<1>6. RowsBacked /\ Booking
  BY <1>2 DEF RowsBacked, Booking, BookedAreMatched
<1> QED BY <1>3, <1>4, <1>5, <1>6 DEF Evidence

LEMMA EvidenceHolds == Spec => [](Inv /\ Evidence)
<1>1. Init => Inv /\ Evidence
  BY InitInv, EvidenceInit
<1>2. Inv /\ Evidence /\ [Next]_vars => (Inv /\ Evidence)'
  BY NextInv, EvidenceNext
<1> QED BY <1>1, <1>2, PTL DEF Spec

\* The collector's types, the one signal per developer the broker holds, and
\* the bounds on its signals and on team memory.
THEOREM TypesAndBounds == Spec => []TypeOK
<1>1. Inv /\ Evidence => TypeOK
  <2> SUFFICES ASSUME Inv, Evidence PROVE TypeOK
    OBVIOUS
  <2>1. DOMAIN matches \subseteq Actors \X Actors \X Topics
    BY DEF Evidence, RowsBacked, Kept, Actors, Topics
  <2> QED BY <2>1 DEF Evidence, Kept, SignalsBacked, OnePerActor, Booking, Modes, Topics, TypeOK
<1> QED BY <1>1, EvidenceHolds, PTL

\* Whoever is told of a match was matched for a reason that is in the store, on
\* one side of the walls, however tenants were registered meanwhile.
THEOREM MatchesAreBacked == Spec => []MatchHasWitness
<1>1. Inv /\ Evidence => MatchHasWitness
  <2> SUFFICES ASSUME Inv, Evidence, NEW k \in DOMAIN matches
               PROVE  \E i, j \in {n \in DOMAIN derived : Matchable(n)} :
                        /\ <<Fact[i].actor, Fact[j].actor>> = <<k[1], k[2]>>
                        /\ k[1] # k[2]
                        /\ k[3] \in {Fact[i].topic, Fact[j].topic}
                        /\ SameOrg(i, j)
                        /\ ClientOf(i) = ClientOf(j)
                        /\ Similarity[<<Fact[i].emb, Fact[j].emb>>] >= Bar(Signal(i), Signal(j))
    BY DEF MatchHasWitness
  <2>1. PICK i \in DOMAIN derived, j \in DOMAIN derived :
          /\ Matchable(i) /\ Matchable(j) /\ Reason(i, j)
          /\ \E t \in {Fact[i].topic, Fact[j].topic} : k = <<Fact[i].actor, Fact[j].actor, t>>
    BY DEF Evidence, RowsBacked
  <2>2. derived[i].tenant = TenantOf(i) /\ derived[j].tenant = TenantOf(j)
    BY DEF Inv, DerivedBound
  <2>3. SameOrg(i, j)
    BY <2>1, <2>2 DEF Reason, Together, SameOrg
  <2>4. Bar(Signal(i), Signal(j)) = Bar(Terms(i), Terms(j))
    BY DEF Signal, Terms, ObjectiveOf, Bar, SameObjective, EitherSolved
  <2>5. /\ <<Fact[i].actor, Fact[j].actor>> = <<k[1], k[2]>> /\ k[1] # k[2]
        /\ k[3] \in {Fact[i].topic, Fact[j].topic}
    BY <2>1 DEF Reason
  <2> QED BY <2>1, <2>3, <2>4, <2>5 DEF Reason
<1> QED BY <1>1, EvidenceHolds, PTL

\* A saving is booked only for a pair both of whom were told.
THEOREM BookingsAreTold == Spec => []BookedAreMatched
<1>1. Evidence => BookedAreMatched
  BY DEF Evidence, Booking
<1> QED BY <1>1, EvidenceHolds, PTL
=============================================================================
