---------------------------- MODULE GatewayProofs ----------------------------
(***************************************************************************)
(* Proofs about Gateway for every set of calls, any number of them at      *)
(* once, every time to live and every size of the caches.                  *)
(***************************************************************************)
EXTENDS Gateway, SequenceTheorems, TLAPS

\* One answer per key.
Distinct(stored) ==
  \A m, n \in DOMAIN stored : Key(stored[m].to) = Key(stored[n].to) => m = n

\* What is stored is good, and was given through this door.
Good(d, stored) == \A n \in DOMAIN stored : stored[n].ok /\ Ask[stored[n].to].door = d

Cache(d, stored) == stored \in Seq(Answers) /\ Distinct(stored) /\ Good(d, stored)

-----------------------------------------------------------------------------
(* The operations of a cache *)

\* Everything but one entry is left, in its order.
LEMMA RemoveAtIs ==
  ASSUME NEW S, NEW s \in Seq(S), NEW i \in DOMAIN s
  PROVE  /\ RemoveAt(s, i) \in Seq(S)
         /\ Len(RemoveAt(s, i)) = Len(s) - 1
         /\ \A n \in DOMAIN RemoveAt(s, i) : 
              LET m == IF n < i THEN n ELSE n + 1
              IN m \in DOMAIN s /\ m # i /\ RemoveAt(s, i)[n] = s[m]
<1> DEFINE left == SubSeq(s, 1, i - 1)
           right == SubSeq(s, i + 1, Len(s))
<1>1. i \in 1..Len(s) /\ Len(s) \in Nat
  OBVIOUS
<1>2. left \in Seq(S) /\ Len(left) = i - 1 /\ \A n \in 1..(i - 1) : left[n] = s[n]
  BY <1>1
<1>3. right \in Seq(S) /\ Len(right) = Len(s) - i /\ \A n \in 1..(Len(s) - i) : right[n] = s[n + i]
  BY <1>1
<1>4. RemoveAt(s, i) = left \o right
  BY DEF RemoveAt
<1> HIDE DEF left, right
<1>5. left \o right \in Seq(S) /\ Len(left \o right) = Len(s) - 1
  BY <1>1, <1>2, <1>3
<1>6. ASSUME NEW n \in DOMAIN (left \o right)
      PROVE  LET m == IF n < i THEN n ELSE n + 1
             IN m \in DOMAIN s /\ m # i /\ (left \o right)[n] = s[m]
  <2>1. n \in 1..(Len(s) - 1)
    BY <1>5
  <2>2. CASE n < i
    BY <1>1, <1>2, <1>3, <2>1, <2>2
  <2>3. CASE ~(n < i)
    <3>1. (left \o right)[n] = right[n - (i - 1)]
      BY <1>1, <1>2, <1>3, <2>1, <2>3
    <3>2. PICK k \in 1..(Len(s) - i) : k = n - (i - 1)
      BY <1>1, <2>1, <2>3
    <3>3. right[k] = s[k + i]
      BY <1>3
    <3>4. k + i = n + 1 /\ n + 1 \in 1..Len(s) /\ n + 1 # i
      BY <1>1, <2>1, <2>3, <3>2
    <3>5. (left \o right)[n] = s[n + 1]
      BY <3>1, <3>2, <3>3, <3>4
    <3> QED BY <1>1, <2>3, <3>4, <3>5
  <2> QED BY <2>2, <2>3
<1> QED BY <1>4, <1>5, <1>6

\* Without the entry of a key the cache is one still, and has none of that key.
LEMMA OtherIs ==
  ASSUME NEW d, NEW stored, Cache(d, stored), NEW a
  PROVE  /\ Cache(d, Other(stored, a))
         /\ Held(Other(stored, a), a) = {}
         /\ Len(Other(stored, a)) <= Len(stored)
         /\ Held(stored, a) # {} => Len(Other(stored, a)) = Len(stored) - 1
<1>1. CASE Held(stored, a) = {}
  BY <1>1 DEF Other, Cache
<1>2. CASE Held(stored, a) # {}
  <2> DEFINE i == CHOOSE n \in Held(stored, a) : TRUE
             rest == RemoveAt(stored, i)
             At(n) == IF n < i THEN n ELSE n + 1
  <2>1. i \in DOMAIN stored /\ Key(stored[i].to) = Key(a)
    BY <1>2 DEF Held
  <2>2. Other(stored, a) = rest
    BY <1>2 DEF Other
  <2> HIDE DEF i
  <2>3. /\ rest \in Seq(Answers)
        /\ Len(rest) = Len(stored) - 1
        /\ \A n \in DOMAIN rest : At(n) \in DOMAIN stored /\ At(n) # i /\ rest[n] = stored[At(n)]
    BY <2>1, RemoveAtIs DEF Cache
  <2> HIDE DEF rest
  <2>4. DOMAIN rest \subseteq Nat /\ i \in Nat /\ Len(stored) \in Nat
    BY <2>1, <2>3 DEF Cache
  <2>5. \A m, n \in DOMAIN rest : At(m) = At(n) => m = n
    BY <2>4
  <2> HIDE DEF At
  <2>6. Distinct(rest)
    BY <2>3, <2>5 DEF Distinct, Cache
  <2>7. Good(d, rest)
    BY <2>3 DEF Good, Cache
  <2>8. Held(rest, a) = {}
    BY <2>1, <2>3 DEF Held, Distinct, Cache
  <2> QED BY <1>2, <2>2, <2>3, <2>4, <2>6, <2>7, <2>8 DEF Cache
<1> QED BY <1>1, <1>2

\* A good answer of this door may follow what has none of its key.
LEMMA AppendIs ==
  ASSUME NEW d, NEW stored, Cache(d, stored), NEW answer \in Answers,
         answer.ok, Ask[answer.to].door = d, Held(stored, answer.to) = {}
  PROVE  Cache(d, Append(stored, answer)) /\ Len(Append(stored, answer)) = Len(stored) + 1
<1> DEFINE longer == Append(stored, answer)
<1>1. stored \in Seq(Answers) /\ Len(stored) \in Nat
  BY DEF Cache
<1>2. /\ longer \in Seq(Answers)
      /\ Len(longer) = Len(stored) + 1
      /\ \A n \in DOMAIN longer : IF n \in DOMAIN stored THEN longer[n] = stored[n]
                                  ELSE n = Len(stored) + 1 /\ longer[n] = answer
  BY <1>1
<1> HIDE DEF longer
<1>3. Distinct(longer)
  BY <1>2 DEF Distinct, Cache, Held
<1>4. Good(d, longer)
  BY <1>2 DEF Good, Cache
<1> QED BY <1>2, <1>3, <1>4 DEF Cache, longer

\* What is left when the oldest entries go.
LEMMA BoundedIs ==
  ASSUME NEW d \in Doors, NEW stored, Cache(d, stored)
  PROVE  Cache(d, Bounded(d, stored)) /\ Len(Bounded(d, stored)) <= CacheMax[d]
<1> DEFINE most == CacheMax[d]
           cut == Len(stored) - most
           last == SubSeq(stored, cut + 1, Len(stored))
<1>1. most \in Nat \ {0}
  BY GatewayAssumption
<1>2. stored \in Seq(Answers) /\ Len(stored) \in Nat
  BY DEF Cache
<1>3. CASE Len(stored) > most
  <2>1. cut \in Nat
    BY <1>1, <1>2, <1>3
  <2>2. /\ last \in Seq(Answers) /\ Len(last) = most
        /\ \A n \in DOMAIN last : n \in Nat /\ n + cut \in DOMAIN stored /\ last[n] = stored[n + cut]
    <3>1. /\ last \in Seq(Answers)
          /\ Len(last) = Len(stored) - cut
          /\ DOMAIN last = 1..(Len(stored) - cut)
          /\ \A n \in 1..(Len(stored) - cut) : last[n] = stored[cut + 1 + n - 1]
      BY <1>2, <2>1, <1>1, SubSeqProperties
    <3>2. Len(stored) - cut = most
      BY <1>1, <1>2
    <3>3. \A n \in 1..most : n \in Nat /\ n + cut \in 1..Len(stored) /\ cut + 1 + n - 1 = n + cut
      BY <1>1, <1>2, <2>1, <3>2
    <3> HIDE DEF last, cut
    <3>4. ASSUME NEW n \in DOMAIN last
          PROVE  n \in Nat /\ n + cut \in DOMAIN stored /\ last[n] = stored[n + cut]
      <4>1. n \in 1..most
        BY <3>1, <3>2
      <4>2. last[n] = stored[cut + 1 + n - 1]
        BY <3>1, <3>2, <4>1
      <4> QED BY <1>2, <3>3, <4>1, <4>2
    <3> QED BY <3>1, <3>2, <3>4
  <2> HIDE DEF last
  <2>3. Distinct(last)
    <3> SUFFICES ASSUME NEW m \in DOMAIN last, NEW n \in DOMAIN last,
                        Key(last[m].to) = Key(last[n].to)
                 PROVE  m = n
      BY DEF Distinct
    <3>1. m + cut = n + cut
      BY <2>2 DEF Distinct, Cache
    <3> QED BY <3>1, <2>1, <2>2
  <2>4. Good(d, last)
    BY <2>2 DEF Good, Cache
  <2>5. Bounded(d, stored) = last
    BY <1>3 DEF Bounded, last
  <2> QED BY <1>1, <2>2, <2>3, <2>4, <2>5 DEF Cache
<1>4. CASE ~(Len(stored) > most)
  BY <1>1, <1>2, <1>4 DEF Bounded
<1> QED BY <1>3, <1>4

-----------------------------------------------------------------------------
(* The invariant: the caches are in order, and an answer is that of the    *)
(* call it is held for.                                                    *)

CachesOK ==
  /\ cache \in [Doors -> Seq(Answers)]
  /\ \A d \in Doors : Cache(d, cache[d]) /\ Len(cache[d]) <= CacheMax[d]

OwnAnswer(c) == c.at \in {"streaming", "answered"} => c.answer.to = c.ask
OwnRepeat(c) ==
  c.at = "repeat" =>
    /\ Key(c.answer.to) = Key(c.ask) /\ Ask[c.answer.to].door = Ask[c.ask].door
    /\ c.answer.ok /\ c.answer.age <= Ttl
CallsOK == \A s \in Slots : call[s] \in Stages /\ OwnAnswer(call[s]) /\ OwnRepeat(call[s])

Inv == call \in [Slots -> Stages] /\ CachesOK /\ CallsOK

\* A step that changes the call of one slot and the cache of one door at most.
LEMMA CallStep ==
  ASSUME Inv, NEW s \in Slots, NEW c \in Stages, OwnAnswer(c), OwnRepeat(c),
         call' = [call EXCEPT ![s] = c]
  PROVE  call' \in [Slots -> Stages] /\ CallsOK'
<1>1. call' \in [Slots -> Stages]
  BY DEF Inv
<1>2. ASSUME NEW t \in Slots
      PROVE  (OwnAnswer(call[t]) /\ OwnRepeat(call[t]))'
  <2>1. call'[t] = IF t = s THEN c ELSE call[t]
    BY DEF Inv
  <2>2. OwnAnswer(call'[t]) /\ OwnRepeat(call'[t])
    BY <2>1 DEF Inv, CallsOK
  <2> QED BY <2>2 DEF OwnAnswer, OwnRepeat, Key
<1> QED BY <1>1, <1>2 DEF CallsOK

LEMMA CacheStep ==
  ASSUME Inv, NEW d \in Doors, NEW stored, Cache(d, stored), Len(stored) <= CacheMax[d],
         cache' = [cache EXCEPT ![d] = stored]
  PROVE  CachesOK'
<1>1. cache' \in [Doors -> Seq(Answers)]
  BY DEF Inv, CachesOK, Cache
<1>2. ASSUME NEW e \in Doors
      PROVE  Cache(e, cache'[e]) /\ Len(cache'[e]) <= CacheMax[e]
  BY DEF Inv, CachesOK
<1> QED BY <1>1, <1>2 DEF CachesOK, Cache, Distinct, Good, Key

LEMMA SameCache ==
  ASSUME Inv, UNCHANGED cache
  PROVE  CachesOK'
BY DEF Inv, CachesOK, Cache, Distinct, Good, Key

LEMMA ServeRepeatInv ==
  ASSUME Inv, NEW s \in Slots, NEW a \in Asks, ServeRepeat(s, a)
  PROVE  Inv'
<1> DEFINE d == Ask[a].door
           stored == cache[d]
<1>1. PICK n \in Lookup(stored, a) :
        /\ cache' = [cache EXCEPT ![d] = Append(Other(@, a), @[n])]
        /\ call' = [call EXCEPT ![s] = [at |-> "repeat", ask |-> a, answer |-> stored[n]]]
  BY DEF ServeRepeat
<1>2. d \in Doors /\ Cache(d, stored) /\ Len(stored) <= CacheMax[d] /\ cache \in [Doors -> Seq(Answers)]
  BY GatewayAssumption DEF Inv, CachesOK
<1> DEFINE e == stored[n]
           rest == Other(stored, a)
           c == [at |-> "repeat", ask |-> a, answer |-> e]
<1>3. n \in DOMAIN stored /\ Key(e.to) = Key(a) /\ n \in Held(stored, a) /\ e.age <= Ttl
  BY DEF Lookup, Held, Live
<1>4. e \in Answers /\ e.ok /\ Ask[e.to].door = d
  BY <1>2, <1>3 DEF Cache, Good
<1>5. /\ Cache(d, rest) /\ Held(rest, a) = {} /\ Len(rest) = Len(stored) - 1
  BY <1>2, <1>3, OtherIs
<1> HIDE DEF rest
<1>6. Held(rest, e.to) = {}
  BY <1>3, <1>5 DEF Held
<1>7. Cache(d, Append(rest, e)) /\ Len(Append(rest, e)) = Len(stored)
  <2>1. Cache(d, Append(rest, e)) /\ Len(Append(rest, e)) = Len(rest) + 1
    BY <1>4, <1>5, <1>6, AppendIs
  <2> QED BY <1>2, <1>5, <2>1 DEF Cache
<1>8. CachesOK'
  <2>1. cache' = [cache EXCEPT ![d] = Append(rest, e)]
    BY <1>1, <1>2 DEF rest
  <2> HIDE DEF d, e
  <2> QED BY <1>2, <1>7, <2>1, CacheStep
<1>9. call' \in [Slots -> Stages] /\ CallsOK'
  <2>1. c \in Stages /\ OwnAnswer(c)
    BY <1>4 DEF Stages, OwnAnswer
  <2>2. OwnRepeat(c)
    BY <1>3, <1>4 DEF OwnRepeat
  <2> HIDE DEF c
  <2>3. call' = [call EXCEPT ![s] = c]
    BY <1>1 DEF c
  <2> QED BY <2>1, <2>2, <2>3, CallStep
<1> QED BY <1>8, <1>9 DEF Inv

LEMMA SendOnInv ==
  ASSUME Inv, NEW s \in Slots, NEW a \in Asks, SendOn(s, a)
  PROVE  Inv'
<1> DEFINE d == Ask[a].door
           rest == Other(cache[d], a)
           c == [at |-> "waiting", ask |-> a]
<1>1. d \in Doors /\ Cache(d, cache[d]) /\ Len(cache[d]) <= CacheMax[d] /\ cache \in [Doors -> Seq(Answers)]
  BY GatewayAssumption DEF Inv, CachesOK
<1>2. Cache(d, rest) /\ Len(rest) <= CacheMax[d]
  <2>1. Cache(d, rest) /\ Len(rest) <= Len(cache[d])
    BY <1>1, OtherIs
  <2> HIDE DEF rest
  <2> QED BY <1>1, <2>1, GatewayAssumption DEF Cache
<1>3. CachesOK'
  <2>1. UNCHANGED cache \/ cache' = [cache EXCEPT ![d] = rest]
    BY <1>1 DEF SendOn
  <2> HIDE DEF d, rest
  <2> QED BY <1>1, <1>2, <2>1, CacheStep, SameCache
<1>4. call' = [call EXCEPT ![s] = c] /\ c \in Stages /\ OwnAnswer(c) /\ OwnRepeat(c)
  BY DEF SendOn, Stages, OwnAnswer, OwnRepeat
<1> HIDE DEF c
<1>5. call' \in [Slots -> Stages] /\ CallsOK'
  BY <1>4, CallStep
<1> QED BY <1>3, <1>5 DEF Inv

\* What a slot may hold, by its stage.
LEMMA StageIs ==
  ASSUME Inv, NEW s \in Slots
  PROVE  /\ call[s].at = "waiting" => call[s].ask \in Asks
         /\ call[s].at \in {"streaming", "answered"} =>
              /\ call[s] = [at |-> call[s].at, ask |-> call[s].ask, answer |-> call[s].answer]
              /\ call[s].ask \in Asks /\ call[s].answer \in Answers
              /\ call[s].answer.to = call[s].ask
BY DEF Inv, CallsOK, Stages, Free, OwnAnswer

\* A slot becomes free, and the caches stay as they are.
LEMMA FreedInv ==
  ASSUME Inv, NEW s \in Slots, call' = [call EXCEPT ![s] = Free], CachesOK'
  PROVE  Inv'
<1>1. Free \in Stages /\ OwnAnswer(Free) /\ OwnRepeat(Free)
  BY DEF Stages, Free, OwnAnswer, OwnRepeat
<1> QED BY <1>1, CallStep DEF Inv

LEMMA RespondInv ==
  ASSUME Inv, NEW s \in Slots, Respond(s)
  PROVE  Inv'
<1>1. PICK ok \in BOOLEAN, large \in BOOLEAN :
        call' = [call EXCEPT ![s] =
                   [at |-> "streaming", ask |-> @.ask,
                    answer |-> [to |-> @.ask, ok |-> ok, large |-> large, whole |-> ~large, age |-> 0]]]
  BY DEF Respond
<1> DEFINE a == call[s].ask
           answer == [to |-> a, ok |-> ok, large |-> large, whole |-> ~large, age |-> 0]
           c == [at |-> "streaming", ask |-> a, answer |-> answer]
<1>2. a \in Asks
  BY StageIs DEF Respond
<1>3. answer \in Answers
  BY <1>2, GatewayAssumption DEF Answers
<1>4. c \in Stages /\ OwnAnswer(c) /\ OwnRepeat(c)
  BY <1>2, <1>3 DEF Stages, OwnAnswer, OwnRepeat
<1>5. call' = [call EXCEPT ![s] = c]
  BY <1>1 DEF Inv
<1> HIDE DEF c
<1> QED BY <1>4, <1>5, CallStep, SameCache DEF Inv, Respond

LEMMA FinishInv ==
  ASSUME Inv, NEW s \in Slots, Finish(s)
  PROVE  Inv'
<1> DEFINE c == [call[s] EXCEPT !.at = "answered"]
           b == [at |-> "answered", ask |-> call[s].ask, answer |-> call[s].answer]
<1>0. /\ call[s] = [at |-> call[s].at, ask |-> call[s].ask, answer |-> call[s].answer]
      /\ call[s].ask \in Asks /\ call[s].answer \in Answers /\ call[s].answer.to = call[s].ask
  BY StageIs DEF Finish
<1>1. c \in Stages /\ OwnAnswer(c) /\ OwnRepeat(c)
  <2>1. c = b
    BY <1>0
  <2>2. b \in Stages /\ OwnAnswer(b) /\ OwnRepeat(b)
    BY <1>0 DEF Stages, OwnAnswer, OwnRepeat
  <2> QED BY <2>1, <2>2
<1>2. call' = [call EXCEPT ![s] = c]
  BY DEF Finish, Inv
<1> HIDE DEF c
<1> QED BY <1>1, <1>2, CallStep, SameCache DEF Inv, Finish

LEMMA HangUpInv ==
  ASSUME Inv, NEW s \in Slots, HangUp(s)
  PROVE  Inv'
<1> DEFINE cut == [call[s].answer EXCEPT !.whole = FALSE]
           c == [at |-> "answered", ask |-> call[s].ask, answer |-> cut]
<1>1. call[s].at = "streaming" /\ UNCHANGED cache
  BY DEF HangUp
<1>2. /\ call[s] = [at |-> "streaming", ask |-> call[s].ask, answer |-> call[s].answer]
      /\ call[s].ask \in Asks /\ call[s].answer \in Answers
      /\ call[s].answer.to = call[s].ask
  BY <1>1, StageIs
<1>3. cut \in Answers /\ cut.to = call[s].ask
  BY <1>2 DEF Answers
<1>4. c \in Stages /\ OwnAnswer(c) /\ OwnRepeat(c)
  BY <1>2, <1>3 DEF Stages, OwnAnswer, OwnRepeat
<1>5. CASE call' = [call EXCEPT ![s] = Free]
  BY <1>1, <1>5, FreedInv, SameCache
<1>6. CASE call' = [call EXCEPT ![s] =
                      [at |-> "answered", ask |-> @.ask, answer |-> [@.answer EXCEPT !.whole = FALSE]]]
  <2>1. call' = [call EXCEPT ![s] = c]
    BY <1>6 DEF Inv
  <2> HIDE DEF c
  <2> QED BY <1>1, <1>4, <2>1, CallStep, SameCache DEF Inv
<1> QED BY <1>5, <1>6 DEF HangUp

LEMMA StoreInv ==
  ASSUME Inv, NEW s \in Slots, Store(s)
  PROVE  Inv'
<1> DEFINE answer == call[s].answer
           d == Ask[call[s].ask].door
           rest == Other(cache[d], answer.to)
           full == Append(rest, answer)
<1>1. call[s].ask \in Asks /\ answer \in Answers /\ answer.to = call[s].ask
  BY StageIs DEF Store
<1>2. d \in Doors /\ Cache(d, cache[d]) /\ cache \in [Doors -> Seq(Answers)] /\ Ask[answer.to].door = d
  BY <1>1, GatewayAssumption DEF Inv, CachesOK
<1>3. CASE UNCHANGED cache
  BY <1>3, FreedInv, SameCache DEF Store
<1>4. CASE answer.ok /\ cache' = [cache EXCEPT ![d] = Bounded(d, full)]
  <2>1. Cache(d, rest) /\ Held(rest, answer.to) = {}
    BY <1>2, OtherIs
  <2> HIDE DEF rest, answer
  <2>2. Cache(d, full)
    BY <1>1, <1>2, <1>4, <2>1, AppendIs
  <2> HIDE DEF full
  <2>3. Cache(d, Bounded(d, full)) /\ Len(Bounded(d, full)) <= CacheMax[d]
    BY <1>2, <2>2, BoundedIs
  <2> HIDE DEF d
  <2>4. CachesOK'
    BY <1>2, <1>4, <2>3, CacheStep
  <2> QED BY <2>4, FreedInv DEF Store
<1>5. UNCHANGED cache \/ (answer.ok /\ cache' = [cache EXCEPT ![d] = Bounded(d, full)])
  BY <1>2 DEF Store, Put, Kept
<1> QED BY <1>3, <1>4, <1>5

LEMMA TickInv ==
  ASSUME Inv, Tick
  PROVE  Inv'
<1> DEFINE Older(e) == [e EXCEPT !.age = IF @ <= Ttl THEN @ + 1 ELSE @]
           after(d) == [n \in DOMAIN cache[d] |-> Older(cache[d][n])]
<1>1. ASSUME NEW e \in Answers
      PROVE  Older(e) \in Answers /\ Older(e).to = e.to /\ Older(e).ok = e.ok
  BY GatewayAssumption DEF Answers
<1> HIDE DEF Older
<1>2. ASSUME NEW d \in Doors
      PROVE  Cache(d, after(d)) /\ Len(after(d)) <= CacheMax[d]
  <2>1. cache[d] \in Seq(Answers) /\ Cache(d, cache[d]) /\ Len(cache[d]) <= CacheMax[d]
    BY DEF Inv, CachesOK
  <2>2. \A n \in DOMAIN cache[d] : /\ after(d)[n] \in Answers
                                   /\ after(d)[n].to = cache[d][n].to /\ after(d)[n].ok = cache[d][n].ok
    BY <1>1, <2>1
  <2>3. DOMAIN after(d) = 1..Len(cache[d]) /\ Len(cache[d]) \in Nat
    BY <2>1
  <2> HIDE DEF after
  <2>4. after(d) \in Seq(Answers) /\ Len(after(d)) = Len(cache[d])
    <3>1. after(d) \in [1..Len(cache[d]) -> Answers]
      BY <2>1, <2>2, <2>3 DEF after
    <3> QED BY <2>3, <3>1
  <2>5. Distinct(after(d)) /\ Good(d, after(d))
    BY <2>1, <2>2, <2>3 DEF Cache, Distinct, Good
  <2> QED BY <2>1, <2>4, <2>5 DEF Cache
<1>3. cache' = [d \in Doors |-> after(d)] /\ UNCHANGED call
  BY DEF Tick, Older
<1> HIDE DEF after
<1>4. CachesOK'
  <2>1. cache' \in [Doors -> Seq(Answers)]
    BY <1>2, <1>3 DEF Cache
  <2>2. ASSUME NEW d \in Doors
        PROVE  Cache(d, cache'[d]) /\ Len(cache'[d]) <= CacheMax[d]
    BY <1>2, <1>3
  <2> QED BY <2>1, <2>2 DEF CachesOK, Cache, Distinct, Good, Key
<1>5. CallsOK'
  BY <1>3 DEF Inv, CallsOK, OwnAnswer, OwnRepeat, Key
<1> QED BY <1>3, <1>4, <1>5 DEF Inv

LEMMA InitInv == Init => Inv
<1> SUFFICES ASSUME Init PROVE Inv
  OBVIOUS
<1>1. Free \in Stages /\ OwnAnswer(Free) /\ OwnRepeat(Free)
  BY DEF Stages, Free, OwnAnswer, OwnRepeat
<1>2. call \in [Slots -> Stages] /\ CallsOK
  BY <1>1 DEF Init, CallsOK
<1>3. CachesOK
  <2>1. ASSUME NEW d \in Doors
        PROVE  cache[d] = <<>> /\ Cache(d, <<>>) /\ Len(<<>>) <= CacheMax[d]
    BY GatewayAssumption DEF Init, Cache, Distinct, Good
  <2> QED BY <2>1 DEF Init, CachesOK
<1> QED BY <1>2, <1>3 DEF Inv

LEMMA NextInv == Inv /\ [Next]_vars => Inv'
<1> SUFFICES ASSUME Inv, [Next]_vars PROVE Inv'
  OBVIOUS
<1>1. ASSUME NEW s \in Slots, Fail(s) PROVE Inv'
  BY <1>1, FreedInv, SameCache DEF Fail
<1>2. ASSUME NEW s \in Slots, EndRepeat(s) PROVE Inv'
  BY <1>2, FreedInv, SameCache DEF EndRepeat
<1>3. CASE UNCHANGED vars
  BY <1>3, SameCache DEF Inv, CallsOK, OwnAnswer, OwnRepeat, Key, vars
<1> QED BY <1>1, <1>2, <1>3, ServeRepeatInv, SendOnInv, RespondInv, FinishInv, HangUpInv,
           StoreInv, TickInv DEF Next

LEMMA Invariance == Spec => []Inv
<1> QED BY InitInv, NextInv, PTL DEF Spec

\* The caches hold well-formed answers, one per call at most and no more than
\* their limit, whichever calls overlapped (gateway.py, forward_proxy.py).
THEOREM TypeCorrect == Spec => []TypeOK
<1>1. Inv => TypeOK
  BY DEF Inv, CachesOK, Cache, Distinct, TypeOK
<1> QED BY <1>1, Invariance, PTL

\* A stored answer is repeated only to the same developer's identical call
\* through the same door, and only when it was a good one.
THEOREM RepeatsAreOwn == Spec => []RepeatIsOwn
<1>1. Inv => RepeatIsOwn
  BY DEF Inv, CallsOK, OwnRepeat, RepeatIsOwn, Key
<1> QED BY <1>1, Invariance, PTL

\* No answer is repeated after its time to live.
THEOREM RepeatsAreFresh == Spec => []RepeatIsFresh
<1>1. Inv => RepeatIsFresh
  BY DEF Inv, CallsOK, OwnRepeat, RepeatIsFresh
<1> QED BY <1>1, Invariance, PTL
=============================================================================
