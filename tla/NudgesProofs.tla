---------------------------- MODULE NudgesProofs -----------------------------
(***************************************************************************)
(* Proofs about Nudges for any number of capture threads, every time to    *)
(* live and every answer of the collector.                                 *)
(*                                                                         *)
(* First the polls, from their clocks alone.  Then what is shown: a match  *)
(* is remembered from the turn of the locked loop that takes it, so that   *)
(* two workers never have the same one to show, nor one that was shown.    *)
(* That needs the loop turn by turn: a run of it exists for every answer   *)
(* (the least number of turns without one is none), and each turn keeps    *)
(* what the next one relies on.  No match is forgotten while the dedup set *)
(* has a place for each, by the pigeonhole principle.                      *)
(***************************************************************************)
EXTENDS Nudges, FiniteSetTheorems, WellFoundedInduction, TLAPS

\* The claim is what counts: the time that is kept is the time since the last
\* request began, whether it was answered, failed, or is still under way.
Inv ==
  /\ at \in [Workers -> Places]
  /\ age \in [Polls -> Nat]
  /\ since = age

Began(k, w) == at[w] # Request(k) /\ at'[w] = Request(k)

\* A worker is moved, and only to a place where no request is made.
Quiet(w, place) == at' = [at EXCEPT ![w] = place] /\ place \in Places \ {"ask", "fetch"}
SameAges == UNCHANGED <<age, since>>

LEMMA TtlIs == \A k \in Polls : Ttl[k] \in Nat \ {0}
BY NudgesAssumption

LEMMA PlacesOfPolls ==
  \A k \in Polls : /\ Request(k) \in {"ask", "fetch"} /\ Skip(k) \in {"budget", "warn"}
                   /\ \A j \in Polls : Request(j) = Request(k) => j = k
BY DEF Polls, Request, Skip

LEMMA QuietInv ==
  ASSUME Inv, NEW w \in Workers, NEW place, Quiet(w, place), SameAges
  PROVE  Inv' /\ \A k \in Polls, v \in Workers : ~Began(k, v)
<1>1. \A v \in Workers : at'[v] = IF v = w THEN place ELSE at[v]
  BY DEF Inv, Quiet
<1> QED BY <1>1, PlacesOfPolls DEF Inv, Quiet, SameAges, Began

LEMMA ClaimInv ==
  ASSUME Inv, NEW w \in Workers, NEW j \in Polls, Claim(w, j)
  PROVE  /\ Inv'
         /\ \A k \in Polls, v \in Workers : Began(k, v) => since[k] >= Ttl[k]
<1>1. CASE age[j] < Ttl[j]
  <2>1. Quiet(w, Skip(j)) /\ SameAges
    BY <1>1, PlacesOfPolls DEF Claim, Quiet, SameAges, Places
  <2> QED BY <2>1, QuietInv
<1>2. CASE ~(age[j] < Ttl[j])
  <2>1. /\ at' = [at EXCEPT ![w] = Request(j)]
        /\ age' = [age EXCEPT ![j] = 0] /\ since' = [since EXCEPT ![j] = 0]
    BY <1>2 DEF Claim, Claimed
  <2>2. Inv'
    BY <2>1, PlacesOfPolls DEF Inv, Places
  <2>3. ASSUME NEW k \in Polls, NEW v \in Workers, Began(k, v)
        PROVE  since[k] >= Ttl[k]
    <3>1. v = w /\ Request(k) = Request(j)
      BY <2>1, <2>3 DEF Inv, Began
    <3>2. k = j
      BY <3>1, PlacesOfPolls
    <3> QED BY <1>2, <3>2, TtlIs DEF Inv
  <2> QED BY <2>2, <2>3
<1> QED BY <1>1, <1>2

LEMMA InitInv == Init => Inv
BY TtlIs DEF Init, Inv, AllIdle, NoAges, Places

LEMMA StepInv ==
  ASSUME Inv, [Next]_vars
  PROVE  /\ Inv'
         /\ \A k \in Polls, v \in Workers : Began(k, v) => since[k] >= Ttl[k]
<1> DEFINE Calm == \A k \in Polls, v \in Workers : ~Began(k, v)
<1>1. ASSUME NEW w \in Workers, Begin(w) \/ ClaimBudget(w)
      PROVE  Inv' /\ \A k \in Polls, v \in Workers : Began(k, v) => since[k] >= Ttl[k]
  <2>1. Claim(w, "matches") \/ Claim(w, "budget")
    BY <1>1 DEF Begin, ClaimBudget
  <2> QED BY <2>1, ClaimInv DEF Polls
<1>2. ASSUME NEW w \in Workers, AppendFails(w) \/ NoObjective(w) \/ AskAnswered(w) \/ FetchAnswered(w)
                                  \/ Warn(w) \/ (\E k \in Polls : RequestFails(w, k))
      PROVE  Inv' /\ Calm
  <2>1. SameAges /\ \E place : Quiet(w, place)
    BY <1>2, PlacesOfPolls
       DEF AppendFails, NoObjective, AskAnswered, FetchAnswered, Warn, RequestFails, Quiet, SameAges, Places
  <2> QED BY <2>1, QuietInv
<1>3. ASSUME NEW w \in Workers, Mark(w) \/ Show(w)
      PROVE  Inv' /\ Calm
  <2>1. SameAges /\ \E place : Quiet(w, place)
    <3>1. CASE Mark(w)
      <4>1. PICK fresh : at' = [at EXCEPT ![w] = IF fresh = {} THEN "budget" ELSE "show"]
        BY <3>1 DEF Mark
      <4> QED BY <3>1, <4>1 DEF Mark, Quiet, SameAges, Places
    <3>2. CASE Show(w)
      <4>1. PICK i : at' = [at EXCEPT ![w] = IF got[w] = {i} THEN "budget" ELSE "show"]
        BY <3>2 DEF Show
      <4> QED BY <3>2, <4>1 DEF Show, Quiet, SameAges, Places
    <3> QED BY <1>3, <3>1, <3>2
  <2> QED BY <2>1, QuietInv
<1>4. ASSUME UNCHANGED <<at, age, since>> PROVE Inv' /\ Calm
  BY <1>4 DEF Inv, Began
<1>5. ASSUME Tick PROVE Inv' /\ Calm
  <2>1. at' = at /\ age' = Older(age) /\ since' = Older(since)
    BY <1>5 DEF Tick
  <2>2. Older(age) \in [Polls -> Nat]
    BY TtlIs DEF Inv, Older
  <2> QED BY <2>1, <2>2 DEF Inv, Began
<1>6. ASSUME Restart PROVE Inv' /\ Calm
  <2>1. at' = [w \in Workers |-> "idle"] /\ age' = NoAges /\ since' = NoAges
    BY <1>6 DEF Restart, AllIdle
  <2> QED BY <2>1, TtlIs, PlacesOfPolls DEF Inv, Began, NoAges, Places
<1>7. \/ \E w \in Workers : \/ Begin(w) \/ ClaimBudget(w) \/ Mark(w) \/ Show(w)
                            \/ AppendFails(w) \/ NoObjective(w) \/ AskAnswered(w) \/ FetchAnswered(w)
                            \/ Warn(w) \/ (\E k \in Polls : RequestFails(w, k))
      \/ UNCHANGED <<at, age, since>>
      \/ Tick
      \/ Restart
  BY DEF Next, Work, Offer, CollectorChanges, vars
<1> QED BY <1>1, <1>2, <1>3, <1>4, <1>5, <1>6, <1>7

\* Two requests of one poll begin at least its time to live apart, however
\* many threads there are and whatever became of the first one.
THEOREM PollsAreApart == Spec => NoStampede
<1> DEFINE Apart == \A k \in Polls, v \in Workers : Began(k, v) => since[k] >= Ttl[k]
<1>1. Inv /\ [Next]_vars => Inv' /\ [Apart]_vars
  BY StepInv
<1>2. [Apart]_vars => [\A k \in Polls, w \in Workers :
                         at[w] # Request(k) /\ at'[w] = Request(k) => since[k] >= Ttl[k]]_vars
  BY DEF Began
<1> QED BY <1>1, <1>2, InitInv, PTL DEF Spec, NoStampede

-----------------------------------------------------------------------------
(* The loop, the dedup set and the feed's file                             *)

\* Some naturals, a least one.
LEMMA LeastNatural ==
  ASSUME NEW S \in SUBSET Nat, S # {}
  PROVE  \E m \in S : \A k \in S : m <= k
<1>1. PICK m \in S : \A k \in S : ~(<<k, m>> \in OpToRel(<, Nat))
  BY NatLessThanWellFounded, WFMin
<1>2. \A k \in S : k \in Nat /\ m \in Nat /\ ~(k < m)
  BY <1>1 DEF OpToRel
<1> QED BY <1>2

\* The loop over an answer, turn by turn.
Turns(answer, run) ==
  /\ run[0] = [seen |-> seen, fresh |-> {}]
  /\ \A n \in 1..Len(answer) : run[n] = MarkOne(run[n - 1], answer[n])

\* There is a run of the loop, and it ends with what MarkAll is.
LEMMA LoopTurns ==
  ASSUME NEW answer, Len(answer) \in Nat
  PROVE  \E run : Turns(answer, run) /\ MarkAll(answer) = run[Len(answer)]
<1> DEFINE start == [seen |-> seen, fresh |-> {}]
           Upto(m, run) == run = [n \in 0..m |-> IF n = 0 THEN start ELSE MarkOne(run[n - 1], answer[n])]
           bad == {m \in Nat : ~\E run : Upto(m, run)}
<1>1. bad = {}
  <2> SUFFICES ASSUME bad # {} PROVE FALSE
    OBVIOUS
  <2>1. PICK m \in bad : \A k \in bad : m <= k
    BY LeastNatural
  <2>2. m \in Nat /\ ~\E run : Upto(m, run)
    BY <2>1
  <2>3. m # 0
    <3>1. Upto(0, [n \in 0..0 |-> start])
      OBVIOUS
    <3> QED BY <2>2, <3>1
  <2>4. m - 1 \in Nat /\ m - 1 \notin bad
    <3>1. m - 1 \in Nat
      BY <2>2, <2>3
    <3> HIDE DEF bad
    <3> QED BY <2>1, <2>2, <3>1
  <2>5. PICK q : Upto(m - 1, q)
    BY <2>4
  <2> DEFINE r == [n \in 0..m |-> IF n < m THEN q[n] ELSE MarkOne(q[m - 1], answer[m])]
  <2>6. \A n \in 0..(m - 1) : q[n] = IF n = 0 THEN start ELSE MarkOne(q[n - 1], answer[n])
    BY <2>4, <2>5
  <2>7. \A n \in 0..m : r[n] = IF n = 0 THEN start ELSE MarkOne(r[n - 1], answer[n])
    <3> SUFFICES ASSUME NEW n \in 0..m
                 PROVE  r[n] = IF n = 0 THEN start ELSE MarkOne(r[n - 1], answer[n])
      OBVIOUS
    <3> HIDE DEF start
    <3>1. CASE n = 0
      BY <2>3, <2>6, <2>2, <3>1
    <3>2. CASE n # 0 /\ n < m
      <4>1. n \in 0..(m - 1) /\ n - 1 \in 0..m /\ n - 1 < m
        BY <2>2, <3>2
      <4> QED BY <2>6, <3>2, <4>1
    <3>3. CASE n = m
      <4>1. m - 1 \in 0..m /\ m - 1 < m
        BY <2>2, <2>3
      <4> QED BY <2>3, <3>3, <4>1
    <3> QED BY <2>2, <3>1, <3>2, <3>3
  <2>8. Upto(m, r)
    <3>1. r = [n \in 0..m |-> r[n]]
      OBVIOUS
    <3> HIDE DEF r, start
    <3> QED BY <2>7, <3>1
  <2> QED BY <2>2, <2>8
<1> DEFINE after[n \in 0..Len(answer)] ==
             IF n = 0 THEN start ELSE MarkOne(after[n - 1], answer[n])
<1>2. MarkAll(answer) = after[Len(answer)]
  BY DEF MarkAll
<1>3. \E run : Upto(Len(answer), run)
  BY <1>1
<1>4. Upto(Len(answer), after)
  <2>1. after = CHOOSE run : Upto(Len(answer), run)
    OBVIOUS
  <2> HIDE DEF after, Upto
  <2> QED BY <1>3, <2>1
<1>5. \A n \in 0..Len(answer) : after[n] = IF n = 0 THEN start ELSE MarkOne(after[n - 1], answer[n])
  <2> HIDE DEF after, start
  <2> QED BY <1>4
<1> HIDE DEF after
<1>6. Turns(answer, after)
  <2>1. after[0] = start
    <3>1. 0 \in 0..Len(answer)
      OBVIOUS
    <3> HIDE DEF start
    <3> QED BY <1>5, <3>1
  <2>2. \A n \in 1..Len(answer) : n \in 0..Len(answer) /\ n # 0
    OBVIOUS
  <2>3. \A n \in 1..Len(answer) : after[n] = MarkOne(after[n - 1], answer[n])
    <3> HIDE DEF start
    <3> QED BY <1>5, <2>2
  <2> QED BY <2>1, <2>3 DEF Turns
<1> QED BY <1>2, <1>6

Distinct(s) == \A m, n \in DOMAIN s : s[m] = s[n] => m = n

\* As many places as the dedup set has, there are not more matches than that.
AllFit == Cardinality(Ids) <= SeenMax

\* No more entries than matches.
LEMMA DistinctIsShort ==
  ASSUME NEW s \in Seq(Ids), Distinct(s)
  PROVE  Len(s) <= Cardinality(Ids)
<1>1. Len(s) \in Nat /\ DOMAIN s = 1..Len(s) /\ s \in [1..Len(s) -> Ids]
  OBVIOUS
<1>2. s \in Injection(1..Len(s), Ids)
  BY <1>1 DEF Distinct, Injection, IsInjective
<1>3. Cardinality(1..Len(s)) <= Cardinality(Ids)
  BY <1>2, NudgesAssumption, FS_Injection
<1>4. Cardinality(1..Len(s)) = Len(s)
  <2>1. 1 \in Int /\ Len(s) \in Int /\ (1 <= Len(s) \/ Len(s) = 0)
    BY <1>1
  <2>2. Cardinality(1..Len(s)) = IF 1 > Len(s) THEN 0 ELSE Len(s) - 1 + 1
    BY <2>1, FS_Interval
  <2> QED BY <1>1, <2>2
<1> QED BY <1>3, <1>4

\* What the dedup set is.
Remembered(s) == s \in Seq(Ids) /\ Len(s) <= SeenMax

\* The youngest of it are as many as it may have.
LEMMA YoungestFits ==
  ASSUME NEW s \in Seq(Ids)
  PROVE  /\ Remembered(Youngest(s))
         /\ Len(s) <= SeenMax => Youngest(s) = s
<1>1. SeenMax \in Nat \ {0} /\ Len(s) \in Nat
  BY NudgesAssumption
<1>2. CASE Len(s) > SeenMax
  <2>1. Youngest(s) = SubSeq(s, Len(s) - SeenMax + 1, Len(s))
    BY <1>2 DEF Youngest
  <2> QED BY <1>1, <1>2, <2>1 DEF Remembered
<1>3. CASE ~(Len(s) > SeenMax)
  <2>1. Youngest(s) = SubSeq(s, 1, Len(s))
    BY <1>3 DEF Youngest
  <2>2. SubSeq(s, 1, Len(s)) = s
    OBVIOUS
  <2> QED BY <1>1, <1>3, <2>1, <2>2 DEF Remembered
<1> QED BY <1>2, <1>3

\* What a turn of the loop keeps: the dedup set is one, and without an eviction
\* it has what it had and what was new.
LoopInv(s, ids) ==
  /\ Remembered(s.seen)
  /\ s.fresh \subseteq ids
  /\ AllFit /\ Distinct(seen) =>
       /\ Distinct(s.seen)
       /\ ToSet(s.seen) = ToSet(seen) \cup s.fresh
       /\ ToSet(seen) \cap s.fresh = {}

LEMMA TurnKeeps ==
  ASSUME NEW s, NEW ids \in SUBSET Ids, LoopInv(s, ids), NEW i \in ids
  PROVE  LoopInv(MarkOne(s, i), ids)
<1>1. CASE i \in ToSet(s.seen)
  BY <1>1 DEF MarkOne
<1>2. CASE i \notin ToSet(s.seen)
  <2> DEFINE longer == Append(s.seen, i)
  <2>1. /\ MarkOne(s, i).seen = Youngest(longer)
        /\ MarkOne(s, i).fresh = s.fresh \cup {i}
    BY <1>2 DEF MarkOne
  <2>2. s.seen \in Seq(Ids) /\ longer \in Seq(Ids) /\ Len(s.seen) \in Nat
    BY DEF LoopInv, Remembered
  <2>3. ASSUME AllFit, Distinct(seen)
        PROVE  /\ Distinct(longer) /\ Youngest(longer) = longer
               /\ ToSet(longer) = ToSet(s.seen) \cup {i}
    <3>1. Distinct(s.seen)
      BY <2>3 DEF LoopInv
    <3>2. /\ Len(longer) = Len(s.seen) + 1 /\ DOMAIN longer = 1..(Len(s.seen) + 1)
          /\ \A n \in 1..Len(s.seen) : longer[n] = s.seen[n]
          /\ longer[Len(s.seen) + 1] = i /\ DOMAIN s.seen = 1..Len(s.seen)
      BY <2>2
    <3> HIDE DEF longer
    <3>3. Distinct(longer)
      BY <1>2, <2>2, <3>1, <3>2 DEF Distinct, ToSet
    <3>4. Len(longer) <= SeenMax
      <4>1. Len(longer) <= Cardinality(Ids)
        BY <2>2, <3>3, DistinctIsShort
      <4>2. Cardinality(Ids) \in Nat /\ SeenMax \in Nat /\ Len(longer) \in Nat
        BY <2>2, NudgesAssumption, FS_CardinalityType
      <4> QED BY <2>3, <4>1, <4>2 DEF AllFit
    <3>5. ToSet(longer) = ToSet(s.seen) \cup {i}
      BY <2>2, <3>2 DEF ToSet
    <3> QED BY <2>2, <3>3, <3>4, <3>5, YoungestFits
  <2> HIDE DEF longer
  <2>4. Remembered(Youngest(longer))
    BY <2>2, YoungestFits
  <2> QED BY <1>2, <2>1, <2>3, <2>4 DEF LoopInv
<1> QED BY <1>1, <1>2

\* Turn by turn, so at the end of the loop (gateway.py _poll_collab_matches).
LEMMA LoopKeeps ==
  ASSUME NEW answer, Len(answer) \in Nat, NEW ids \in SUBSET Ids,
         \A n \in 1..Len(answer) : answer[n] \in ids,
         Remembered(seen)
  PROVE  LoopInv(MarkAll(answer), ids)
<1>1. PICK run : Turns(answer, run) /\ MarkAll(answer) = run[Len(answer)]
  BY LoopTurns
<1> DEFINE bad == {n \in 0..Len(answer) : ~LoopInv(run[n], ids)}
<1>2. bad = {}
  <2> SUFFICES ASSUME bad # {} PROVE FALSE
    OBVIOUS
  <2>1. bad \in SUBSET Nat
    OBVIOUS
  <2>2. PICK n \in bad : \A k \in bad : n <= k
    <3> HIDE DEF bad
    <3> QED BY <2>1, LeastNatural
  <2>3. n \in 0..Len(answer) /\ ~LoopInv(run[n], ids)
    BY <2>2
  <2>4. LoopInv(run[0], ids)
    BY <1>1 DEF Turns, LoopInv
  <2>5. n \in 1..Len(answer) /\ n - 1 \in 0..Len(answer) /\ ~(n <= n - 1)
    BY <2>3, <2>4
  <2>6. LoopInv(run[n - 1], ids)
    BY <2>2, <2>5
  <2>7. run[n] = MarkOne(run[n - 1], answer[n]) /\ answer[n] \in ids
    BY <1>1, <2>5 DEF Turns
  <2> QED BY <2>3, <2>6, <2>7, TurnKeeps
<1>3. Len(answer) \in 0..Len(answer)
  OBVIOUS
<1> QED BY <1>1, <1>2, <1>3

\* What the feed's file has: at most what is trimmed to, and for each process that
\* was, what it appended after its last trim.
FeedInv ==
  /\ restarts \in 0..MaxRestarts
  /\ appends \in 0..(TrimInterval - 1)
  /\ lines \in Nat /\ lines <= MaxEntries + restarts * (TrimInterval - 1) + appends

\* The feed is trimmed now and then.
LEMMA IntervalIs == TrimInterval \in Nat \ {0} /\ MaxEntries \in Nat
<1> DEFINE q == MaxEntries \div 4
           m == Min({256, q})
<1>1. q \in Nat /\ MaxEntries \in Nat
  BY NudgesAssumption
<1> HIDE DEF q
<1>2. \E x \in {256, q} : \A y \in {256, q} : x =< y
  BY <1>1
<1>3. m \in {256, q}
  BY <1>2 DEF Min
<1>4. m \in Nat
  BY <1>1, <1>3
<1> HIDE DEF m
<1>5. \E x \in {1, m} : \A y \in {1, m} : x >= y
  BY <1>4
<1>6. Max({1, m}) \in {1, m} /\ Max({1, m}) >= 1
  BY <1>5 DEF Max
<1>7. TrimInterval = Max({1, m})
  BY DEF TrimInterval, m, q
<1> QED BY <1>1, <1>4, <1>6, <1>7

\* A trim leaves max_entries lines at most (feed.py _trim).
LEMMA TrimmedIs ==
  ASSUME NEW n \in Nat
  PROVE  Trimmed(n) \in Nat /\ Trimmed(n) <= MaxEntries
<1>1. MaxEntries \in Nat
  BY IntervalIs
<1>2. \E x \in {n, MaxEntries} : \A y \in {n, MaxEntries} : x =< y
  BY <1>1
<1>3. Trimmed(n) \in {n, MaxEntries} /\ Trimmed(n) =< MaxEntries
  BY <1>2 DEF Trimmed, Min
<1> QED BY <1>1, <1>3

\* A counter modulo t.
LEMMA CountsUp ==
  ASSUME NEW t \in Nat \ {0}, NEW a \in 0..(t - 1)
  PROVE  (a + 1) % t = IF a + 1 = t THEN 0 ELSE a + 1
OBVIOUS

\* An append, with the trim that it may bring (feed.py append).
LEMMA FeedKeeps ==
  ASSUME FeedInv, Append1 \/ UNCHANGED feed, UNCHANGED restarts
  PROVE  FeedInv'
<1>0. TrimInterval \in Nat \ {0} /\ MaxEntries \in Nat /\ MaxRestarts \in Nat
  BY IntervalIs, NudgesAssumption
<1> DEFINE past == restarts * (TrimInterval - 1)
<1>1. past \in Nat
  BY <1>0 DEF FeedInv
<1>2. CASE UNCHANGED feed
  BY <1>2 DEF FeedInv, feed
<1>3. CASE Append1
  <2>1. appends' = IF appends + 1 = TrimInterval THEN 0 ELSE appends + 1
    BY <1>0, <1>3, CountsUp DEF Append1, FeedInv
  <2>2. /\ lines' = IF appends' = 0 THEN Trimmed(lines + 1) ELSE lines + 1
        /\ Trimmed(lines + 1) \in Nat /\ Trimmed(lines + 1) <= MaxEntries
    BY <1>3, TrimmedIs DEF Append1, FeedInv
  <2>3. appends \in Nat /\ appends < TrimInterval /\ lines \in Nat /\ lines <= MaxEntries + past + appends
    BY <1>0 DEF FeedInv
  <2> HIDE DEF past
  <2>4. /\ appends' \in 0..(TrimInterval - 1) /\ lines' \in Nat
        /\ lines' <= MaxEntries + past + appends'
    BY <1>0, <1>1, <2>1, <2>2, <2>3
  <2> QED BY <2>4 DEF FeedInv, past
<1> QED BY <1>2, <1>3

\* The next process counts its appends from zero.
LEMMA FeedRestarts ==
  ASSUME FeedInv, Restart
  PROVE  FeedInv'
<1>0. TrimInterval \in Nat \ {0} /\ MaxEntries \in Nat /\ MaxRestarts \in Nat /\ restarts \in Nat
  BY IntervalIs, NudgesAssumption DEF FeedInv
<1> DEFINE past == restarts * (TrimInterval - 1)
           rest == (restarts + 1) * (TrimInterval - 1)
<1>1. past \in Nat /\ rest = past + (TrimInterval - 1)
  BY <1>0
<1>2. lines' = lines /\ appends' = 0 /\ restarts' = restarts + 1 /\ restarts < MaxRestarts
  BY DEF Restart
<1>3. appends < TrimInterval /\ appends \in Nat /\ lines \in Nat /\ lines <= MaxEntries + past + appends
  BY <1>0 DEF FeedInv
<1> HIDE DEF past, rest
<1>4. lines' <= MaxEntries + rest + 0
  BY <1>0, <1>1, <1>2, <1>3
<1> QED BY <1>0, <1>2, <1>3, <1>4 DEF FeedInv, rest

-----------------------------------------------------------------------------
(* The invariant                                                           *)

\* What has its type whatever a worker does: the outside, what is held and told.
HeldOK ==
  /\ got \in [Workers -> SUBSET Ids] /\ lost \subseteq Ids
  /\ told \in [Ids -> 0..2]
  /\ Remembered(seen)
  /\ up \in BOOLEAN /\ offered \in [Ids -> {"none", "open", "mutual"}]
AgesOK == \A k \in Polls : age[k] <= Ttl[k]

Typed == Inv /\ AgesOK /\ HeldOK /\ FeedInv

\* A match that was shown, or is about to be, is remembered and nobody else's to show.
Showing(w) == at[w] = "show"
Fresh ==
  AllFit =>
    /\ Distinct(seen)
    /\ \A w \in Workers : Showing(w) => got[w] \subseteq ToSet(seen)
    /\ \A v, w \in Workers : v # w /\ Showing(v) /\ Showing(w) => got[v] \cap got[w] = {}
    /\ \A i \in Ids : told[i] > 0 =>
         i \in ToSet(seen) /\ told[i] < 2 /\ \A w \in Workers : Showing(w) => i \notin got[w]

NudgeInv == Typed /\ Fresh

\* A process that starts has shown nothing and remembers nothing.
LEMMA NudgeInit == Init => NudgeInv
<1> SUFFICES ASSUME Init PROVE NudgeInv
  OBVIOUS
<1>1. Inv
  BY InitInv
<1>2. AgesOK
  BY TtlIs DEF Init, AgesOK, NoAges
<1>3. seen = <<>> /\ Remembered(seen) /\ Distinct(seen)
  <2>1. seen = <<>>
    BY DEF Init
  <2>2. <<>> \in Seq(Ids) /\ Len(<<>>) = 0 /\ DOMAIN <<>> = {}
    OBVIOUS
  <2> QED BY <2>1, <2>2, NudgesAssumption DEF Remembered, Distinct
<1>4. HeldOK
  BY <1>3 DEF Init, HeldOK, NoAnswers, NothingTold
<1>5. FeedInv
  BY IntervalIs, NudgesAssumption DEF Init, FeedInv
<1>6. Fresh
  BY <1>3 DEF Init, Fresh, Showing, AllIdle, NothingTold
<1> QED BY <1>1, <1>2, <1>4, <1>5, <1>6 DEF NudgeInv, Typed

\* A worker goes where it shows nothing, and has nothing new.
LEMMA IdleKeeps ==
  ASSUME Typed, Fresh, NEW w \in Workers, NEW place, place # "show",
         at' = [at EXCEPT ![w] = place], \A v \in Workers \ {w} : got'[v] = got[v],
         UNCHANGED <<seen, told>>
  PROVE  Fresh'
<1>1. \A v \in Workers : Showing(v)' => v # w /\ Showing(v) /\ got'[v] = got[v]
  BY DEF Typed, Inv, Showing
<1> QED BY <1>1 DEF Fresh, AllFit, Distinct, ToSet

\* What a worker takes to show is new to everybody.
LEMMA MarkKeeps ==
  ASSUME Typed, Fresh, NEW w \in Workers, Mark(w)
  PROVE  HeldOK' /\ Fresh'
<1> DEFINE ids == got[w]
<1>1. PICK answer \in SetToSeqs(got[w]) :
        LET end == MarkAll(answer)
        IN /\ seen' = end.seen
           /\ got' = [got EXCEPT ![w] = end.fresh]
           /\ at' = [at EXCEPT ![w] = IF end.fresh = {} THEN "budget" ELSE "show"]
  BY DEF Mark
<1> DEFINE end == MarkAll(answer)
<1>2. ids \in SUBSET Ids /\ IsFiniteSet(ids)
  BY NudgesAssumption, FS_Subset DEF Typed, HeldOK
<1>3. Cardinality(ids) \in Nat
  BY <1>2, FS_CardinalityType
<1>4. answer \in [1..Cardinality(ids) -> ids]
  BY DEF SetToSeqs
<1>5. Len(answer) \in Nat /\ \A n \in 1..Len(answer) : answer[n] \in ids
  <2> HIDE DEF ids
  <2> QED BY <1>3, <1>4
<1>6. LoopInv(end, ids)
  <2> HIDE DEF ids
  <2> QED BY <1>2, <1>5, LoopKeeps DEF Typed, HeldOK
<1> HIDE DEF end
<1>7. /\ seen' = end.seen /\ got' = [got EXCEPT ![w] = end.fresh] /\ told' = told
      /\ at' = [at EXCEPT ![w] = IF end.fresh = {} THEN "budget" ELSE "show"]
      /\ UNCHANGED <<lost, up, offered>>
  BY <1>1 DEF Mark, end, outside
<1>8. HeldOK'
  BY <1>2, <1>6, <1>7 DEF Typed, HeldOK, LoopInv, Remembered
<1>9. ASSUME AllFit
      PROVE  /\ Distinct(seen') /\ ToSet(seen') = ToSet(seen) \cup end.fresh
             /\ ToSet(seen) \cap end.fresh = {}
  BY <1>6, <1>7, <1>9 DEF Fresh, LoopInv
<1>10. /\ \A v \in Workers \ {w} : got'[v] = got[v] /\ (Showing(v)' <=> Showing(v))
       /\ got'[w] = end.fresh
  BY <1>7 DEF Typed, Inv, HeldOK, Showing
<1>11. Fresh'
  <2> SUFFICES ASSUME AllFit
               PROVE  /\ Distinct(seen')
                      /\ \A v \in Workers : Showing(v)' => got'[v] \subseteq ToSet(seen')
                      /\ \A u, v \in Workers : u # v /\ Showing(u)' /\ Showing(v)' => got'[u] \cap got'[v] = {}
                      /\ \A i \in Ids : told'[i] > 0 =>
                           i \in ToSet(seen') /\ told'[i] < 2 /\ \A v \in Workers : Showing(v)' => i \notin got'[v]
    BY DEF Fresh, AllFit, Distinct, ToSet
  <2>1. \A v \in Workers \ {w} : Showing(v) => got[v] \subseteq ToSet(seen)
    BY DEF Fresh
  <2>2. \A v \in Workers : Showing(v)' => got'[v] \subseteq ToSet(seen')
    BY <1>9, <1>10, <2>1
  <2>3. ASSUME NEW u \in Workers, NEW v \in Workers, u # v, Showing(u)', Showing(v)'
        PROVE  got'[u] \cap got'[v] = {}
    <3>1. CASE u # w /\ v # w
      BY <1>10, <2>3, <3>1 DEF Fresh
    <3>2. CASE u = w \/ v = w
      BY <1>9, <1>10, <2>1, <2>3, <3>2
    <3> QED BY <3>1, <3>2
  <2>4. ASSUME NEW i \in Ids, told'[i] > 0
        PROVE  i \in ToSet(seen') /\ told'[i] < 2 /\ \A v \in Workers : Showing(v)' => i \notin got'[v]
    <3>1. i \in ToSet(seen) /\ told[i] < 2 /\ \A v \in Workers : Showing(v) => i \notin got[v]
      BY <1>7, <2>4 DEF Fresh
    <3> QED BY <1>7, <1>9, <1>10, <3>1
  <2> QED BY <1>9, <2>2, <2>3, <2>4
<1> QED BY <1>8, <1>11

\* Showing a match takes it from the one worker that had it.
LEMMA ShowKeeps ==
  ASSUME Typed, Fresh, NEW w \in Workers, Show(w)
  PROVE  HeldOK' /\ Fresh'
<1>1. PICK i \in got[w] : /\ told' = [told EXCEPT ![i] = IF @ < 2 THEN @ + 1 ELSE @]
                          /\ got' = [got EXCEPT ![w] = @ \ {i}]
                          /\ at' = [at EXCEPT ![w] = IF got[w] = {i} THEN "budget" ELSE "show"]
  BY DEF Show
<1>2. at[w] = "show" /\ UNCHANGED <<seen, lost, up, offered>>
  BY DEF Show, outside
<1>3. i \in Ids /\ told[i] \in 0..2
  BY DEF Typed, HeldOK
<1>4. HeldOK'
  BY <1>1, <1>2, <1>3 DEF Typed, HeldOK, Remembered
<1>5. /\ \A v \in Workers : Showing(v)' => Showing(v)
      /\ \A v \in Workers : got'[v] = IF v = w THEN got[w] \ {i} ELSE got[v]
      /\ \A j \in Ids : told'[j] = IF j # i THEN told[j] ELSE IF told[i] < 2 THEN told[i] + 1 ELSE told[i]
  BY <1>1, <1>2, <1>3 DEF Typed, Inv, HeldOK, Showing
<1>6. Fresh'
  <2> SUFFICES ASSUME AllFit
               PROVE  /\ Distinct(seen)
                      /\ \A v \in Workers : Showing(v)' => got'[v] \subseteq ToSet(seen)
                      /\ \A u, v \in Workers : u # v /\ Showing(u)' /\ Showing(v)' => got'[u] \cap got'[v] = {}
                      /\ \A j \in Ids : told'[j] > 0 =>
                           j \in ToSet(seen) /\ told'[j] < 2 /\ \A v \in Workers : Showing(v)' => j \notin got'[v]
    BY <1>2 DEF Fresh, AllFit, Distinct, ToSet
  <2>1. Showing(w)
    BY <1>2 DEF Showing
  <2>2. told[i] = 0 /\ i \in ToSet(seen) /\ \A v \in Workers : v # w /\ Showing(v) => i \notin got[v]
    BY <1>3, <2>1 DEF Fresh
  <2>3. ASSUME NEW j \in Ids, told'[j] > 0
        PROVE  j \in ToSet(seen) /\ told'[j] < 2 /\ \A v \in Workers : Showing(v)' => j \notin got'[v]
    <3>1. CASE j = i
      BY <1>3, <1>5, <2>2, <3>1
    <3>2. CASE j # i
      <4>1. told[j] > 0
        BY <1>5, <2>3, <3>2
      <4> QED BY <1>5, <3>2, <4>1 DEF Fresh
    <3> QED BY <3>1, <3>2
  <2>4. \A v \in Workers : Showing(v)' => got'[v] \subseteq ToSet(seen)
    BY <1>5 DEF Fresh
  <2>5. \A u, v \in Workers : u # v /\ Showing(u)' /\ Showing(v)' => got'[u] \cap got'[v] = {}
    BY <1>5 DEF Fresh
  <2> QED BY <2>3, <2>4, <2>5 DEF Fresh
<1> QED BY <1>4, <1>6

\* Step by step; a claim, an answer and a failure leave what is shown alone.
LEMMA NudgeStep == NudgeInv /\ [Next]_vars => NudgeInv'
<1> SUFFICES ASSUME NudgeInv, [Next]_vars PROVE NudgeInv'
  OBVIOUS
<1>0. Typed /\ Fresh
  BY DEF NudgeInv
<1>a. Inv'
  BY <1>0, StepInv DEF Typed
<1> DEFINE Good == AgesOK' /\ HeldOK' /\ FeedInv' /\ Fresh'
<1>1. ASSUME NEW w \in Workers, NEW k \in Polls, Claim(w, k), Append1 \/ UNCHANGED feed
      PROVE  Good
  <2>1. UNCHANGED <<got, seen, told, lost, up, offered, restarts>>
    BY <1>1 DEF Claim, outside
  <2>2. \E place : place # "show" /\ at' = [at EXCEPT ![w] = place]
    BY <1>1, PlacesOfPolls DEF Claim
  <2>3. Fresh'
    BY <1>0, <2>1, <2>2, IdleKeeps
  <2>4. age' = age \/ age' = [age EXCEPT ![k] = 0]
    BY <1>1 DEF Claim, Claimed
  <2>5. AgesOK'
    BY <1>0, <2>4, TtlIs DEF Typed, Inv, AgesOK
  <2>6. HeldOK'
    BY <1>0, <2>1 DEF Typed, HeldOK, Remembered
  <2>7. FeedInv'
    BY <1>0, <1>1, <2>1, FeedKeeps DEF Typed
  <2> QED BY <2>3, <2>5, <2>6, <2>7
<1>2. ASSUME NEW w \in Workers, Begin(w) \/ ClaimBudget(w)
      PROVE  Good
  <2>1. Append1 \/ UNCHANGED feed
    BY <1>2 DEF Begin, ClaimBudget
  <2>2. Claim(w, "matches") \/ Claim(w, "budget")
    BY <1>2 DEF Begin, ClaimBudget
  <2> QED BY <1>1, <2>1, <2>2 DEF Polls
<1>3. ASSUME NEW w \in Workers,
             NoObjective(w) \/ FetchAnswered(w) \/ Warn(w) \/ (\E k \in Polls : RequestFails(w, k))
      PROVE  Good
  <2>1. UNCHANGED <<got, age, seen, told, lost, up, offered, restarts>>
    BY <1>3 DEF NoObjective, FetchAnswered, Warn, RequestFails, outside
  <2>2. \E place : place # "show" /\ at' = [at EXCEPT ![w] = place]
    BY <1>3, PlacesOfPolls DEF NoObjective, FetchAnswered, Warn, RequestFails
  <2>3. Append1 \/ UNCHANGED feed
    BY <1>3 DEF NoObjective, FetchAnswered, Warn, RequestFails
  <2>4. Fresh'
    BY <1>0, <2>1, <2>2, IdleKeeps
  <2>5. AgesOK' /\ HeldOK'
    BY <1>0, <2>1 DEF Typed, AgesOK, HeldOK, Remembered
  <2>6. FeedInv'
    BY <1>0, <2>1, <2>3, FeedKeeps DEF Typed
  <2> QED BY <2>4, <2>5, <2>6
<1>4. ASSUME NEW w \in Workers, AskAnswered(w)
      PROVE  Good
  <2>1. UNCHANGED <<age, seen, feed, told, lost, up, offered, restarts>>
    BY <1>4 DEF AskAnswered, outside
  <2>2. /\ at' = [at EXCEPT ![w] = "mark"]
        /\ got' = [got EXCEPT ![w] = {m.id : m \in {n \in Page : ~n.mutual}}]
    BY <1>4 DEF AskAnswered
  <2>3. {m.id : m \in {n \in Page : ~n.mutual}} \subseteq Ids
    BY DEF Page
  <2>4. got' \in [Workers -> SUBSET Ids] /\ \A v \in Workers \ {w} : got'[v] = got[v]
    BY <1>0, <2>2, <2>3 DEF Typed, HeldOK
  <2>5. Fresh'
    BY <1>0, <2>1, <2>2, <2>4, IdleKeeps
  <2>6. AgesOK' /\ HeldOK'
    BY <1>0, <2>1, <2>4 DEF Typed, AgesOK, HeldOK, Remembered
  <2>7. FeedInv'
    BY <1>0, <2>1, FeedKeeps DEF Typed
  <2> QED BY <2>5, <2>6, <2>7
<1>5. ASSUME NEW w \in Workers, AppendFails(w)
      PROVE  Good
  <2>1. UNCHANGED <<age, seen, feed, told, up, offered, restarts>>
    BY <1>5 DEF AppendFails, outside
  <2>2. /\ at' = [at EXCEPT ![w] = "idle"] /\ got' = [got EXCEPT ![w] = {}]
        /\ lost' = lost \cup got[w]
    BY <1>5 DEF AppendFails
  <2>3. /\ got' \in [Workers -> SUBSET Ids] /\ \A v \in Workers \ {w} : got'[v] = got[v]
        /\ lost' \subseteq Ids
    BY <1>0, <2>2 DEF Typed, HeldOK
  <2>4. Fresh'
    BY <1>0, <2>1, <2>2, <2>3, IdleKeeps
  <2>5. AgesOK' /\ HeldOK'
    BY <1>0, <2>1, <2>3 DEF Typed, AgesOK, HeldOK, Remembered
  <2>6. FeedInv'
    BY <1>0, <2>1, FeedKeeps DEF Typed
  <2> QED BY <2>4, <2>5, <2>6
<1>6. ASSUME NEW w \in Workers, Mark(w)
      PROVE  Good
  <2>1. UNCHANGED <<age, feed, restarts>>
    BY <1>6 DEF Mark, outside
  <2>2. HeldOK' /\ Fresh'
    BY <1>0, <1>6, MarkKeeps
  <2> QED BY <1>0, <2>1, <2>2, FeedKeeps DEF Typed, AgesOK
<1>7. ASSUME NEW w \in Workers, Show(w)
      PROVE  Good
  <2>1. UNCHANGED <<age, restarts>> /\ Append1
    BY <1>7 DEF Show, outside
  <2>2. HeldOK' /\ Fresh'
    BY <1>0, <1>7, ShowKeeps
  <2> QED BY <1>0, <2>1, <2>2, FeedKeeps DEF Typed, AgesOK
<1>8. ASSUME (\E i \in Ids : Offer(i)) \/ CollectorChanges \/ UNCHANGED vars
      PROVE  Good
  <2>1. UNCHANGED <<at, got, age, seen, feed, told, lost, restarts>>
    BY <1>8 DEF Offer, CollectorChanges, vars, feed, outside
  <2>2. up' \in BOOLEAN /\ offered' \in [Ids -> {"none", "open", "mutual"}]
    <3>1. CASE \E i \in Ids : Offer(i)
      BY <1>0, <3>1 DEF Offer, Typed, HeldOK
    <3>2. CASE CollectorChanges
      BY <1>0, <3>2 DEF CollectorChanges, Typed, HeldOK
    <3>3. CASE UNCHANGED vars
      BY <1>0, <3>3 DEF vars, outside, Typed, HeldOK
    <3> QED BY <1>8, <3>1, <3>2, <3>3
  <2>3. HeldOK' /\ AgesOK'
    BY <1>0, <2>1, <2>2 DEF Typed, HeldOK, AgesOK, Remembered
  <2>4. Fresh'
    BY <1>0, <2>1 DEF Fresh, AllFit, Distinct, ToSet, Showing
  <2> QED BY <1>0, <2>1, <2>3, <2>4, FeedKeeps DEF Typed
<1>9. ASSUME Tick
      PROVE  Good
  <2>1. UNCHANGED <<at, got, seen, feed, told, lost, up, offered, restarts>> /\ age' = Older(age)
    BY <1>9 DEF Tick, outside
  <2>2. AgesOK'
    BY <1>0, <2>1, TtlIs DEF Typed, Inv, AgesOK, Older
  <2>3. HeldOK'
    BY <1>0, <2>1 DEF Typed, HeldOK, Remembered
  <2>4. Fresh'
    BY <1>0, <2>1 DEF Fresh, AllFit, Distinct, ToSet, Showing
  <2> QED BY <1>0, <2>1, <2>2, <2>3, <2>4, FeedKeeps DEF Typed
<1>10. ASSUME Restart
       PROVE  Good
  <2>1. /\ at' = [w \in Workers |-> "idle"] /\ got' = [w \in Workers |-> {}]
        /\ age' = NoAges /\ seen' = <<>> /\ told' = [i \in Ids |-> 0] /\ lost' = {}
        /\ UNCHANGED <<up, offered>>
    BY <1>10 DEF Restart, AllIdle, NoAnswers, NothingTold
  <2>2. Remembered(seen') /\ Distinct(seen')
    <3>1. <<>> \in Seq(Ids) /\ Len(<<>>) = 0 /\ DOMAIN <<>> = {}
      OBVIOUS
    <3> QED BY <2>1, <3>1, NudgesAssumption DEF Remembered, Distinct
  <2>3. AgesOK'
    BY <2>1, TtlIs DEF AgesOK, NoAges
  <2>4. HeldOK'
    BY <1>0, <2>1, <2>2 DEF Typed, HeldOK, Remembered
  <2>5. Fresh'
    BY <2>1, <2>2 DEF Fresh, Showing, Distinct, AllFit
  <2> QED BY <1>0, <1>10, <2>3, <2>4, <2>5, FeedRestarts DEF Typed
<1>11. Good
  BY <1>2, <1>3, <1>4, <1>5, <1>6, <1>7, <1>8, <1>9, <1>10 DEF Next, Work
<1> QED BY <1>a, <1>11 DEF NudgeInv, Typed

\* So in every state.
LEMMA NudgeHolds == Spec => []NudgeInv
BY NudgeInit, NudgeStep, PTL DEF Spec

\* Everything has its type, the dedup set its bound (gateway.py 233), and the feed's
\* file at most max_entries lines and a trim interval for each process (feed.py).
THEOREM TypeCorrect == Spec => []TypeOK
<1>1. NudgeInv => TypeOK
  <2> SUFFICES ASSUME Typed PROVE TypeOK
    BY DEF NudgeInv
  <2> DEFINE past == restarts * (TrimInterval - 1)
             rest == (restarts + 1) * (TrimInterval - 1)
  <2>0. TrimInterval \in Nat \ {0} /\ MaxEntries \in Nat /\ restarts \in Nat
    BY IntervalIs, NudgesAssumption DEF Typed, FeedInv
  <2>1. past \in Nat /\ rest = past + (TrimInterval - 1)
    BY <2>0
  <2>2. appends \in 0..(TrimInterval - 1) /\ lines \in Nat /\ lines <= MaxEntries + past + appends
    BY DEF Typed, FeedInv
  <2>3. \A k \in Polls : {age[k], since[k]} \subseteq 0..Ttl[k]
    BY TtlIs DEF Typed, Inv, AgesOK
  <2> HIDE DEF past, rest
  <2>4. lines \in 0..(MaxEntries + rest)
    BY <2>0, <2>1, <2>2
  <2> QED BY <2>3, <2>4 DEF TypeOK, Typed, Inv, HeldOK, FeedInv, Remembered, rest
<1> QED BY <1>1, NudgeHolds, PTL

\* One process shows no match twice, for any number of threads and answers that
\* overlap, as long as the dedup set has a place for every match of the developer
\* (gateway.py 204: "return only NEW ones").
THEOREM NoneIsShownTwice ==
  ASSUME AllFit
  PROVE  Spec => []ShownOnce
<1>1. NudgeInv => ShownOnce
  BY AllFit DEF NudgeInv, Typed, HeldOK, Fresh, ShownOnce
<1> QED BY <1>1, NudgeHolds, PTL
==============================================================================
