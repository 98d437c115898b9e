------------------------------ MODULE Gateway -------------------------------
(***************************************************************************)
(* The two doors through which a tool's calls reach the model providers,   *)
(* and their exact-match caches: the gateway (gateway.py, an asyncio       *)
(* server whose captures run in a thread pool) and the forward proxy       *)
(* (forward_proxy.py, a thread per connection).                            *)
(*                                                                         *)
(* A call waits for its provider, streams the answer to the tool and only  *)
(* then stores it, so that equal calls overlap, tools hang up and          *)
(* providers break off in between.  A step is what a handler does between  *)
(* two waits; the caches' own operations hold a lock.                      *)
(*                                                                         *)
(* The clock is the age of what is stored, in units of which Ttl make the  *)
(* time to live.  Contents are members of small sets; compression and      *)
(* model routing are in the body that Ask says is sent.                    *)
(***************************************************************************)
EXTENDS Naturals, Sequences, SequencesExt

CONSTANTS
  Slots,    \* bound: calls in flight at once
  Asks,     \* the calls a tool may make
  Ask,      \* ask -> [door, actor, route, body, streamed, model]
  Ttl,      \* exact_cache_ttl_s
  CacheMax  \* door -> _EXACT_MAX, _FP_CACHE_MAX

Doors == {"gateway", "proxy"}

ASSUME GatewayAssumption ==
  /\ \A a \in Asks : Ask[a].door \in Doors /\ {Ask[a].streamed, Ask[a].model} \subseteq BOOLEAN
  /\ Ttl \in Nat
  /\ CacheMax \in [Doors -> Nat \ {0}]

VARIABLES
  call,   \* slot -> the call it handles: [at, ask, answer]
  cache   \* door -> stored answers, least recently used first

vars == <<call, cache>>

\* An answer: the call it was given to, whether its status is below 300, whether
\* it was over the capture buffer, whether all of it was captured; its age.
Answers == [to : Asks, ok : BOOLEAN, large : BOOLEAN, whole : BOOLEAN, age : 0..(Ttl + 1)]

Free == [at |-> "free"]

Init ==
  /\ call = [s \in Slots |-> Free]
  /\ cache = [d \in Doors |-> <<>>]

-----------------------------------------------------------------------------
(* The cache *)

\* mutant: the URL is not part of the key
BodyKey(a) == <<Ask[a].actor, Ask[a].body>>
\* _exact_key, _fp_key.  The tenant is one per device; the provider is in the route.
Key(a) == <<Ask[a].actor, Ask[a].route, Ask[a].body>>

\* Streamed calls, and the proxy's calls that are not to a model, are not cached.
Cacheable(a) == ~Ask[a].streamed /\ (Ask[a].door = "proxy" => Ask[a].model)

\* mutant: an entry that is not evicted is served
Unexpired(e) == TRUE
\* `time.time() > expires` is the end of an entry.
Live(e) == e.age <= Ttl

\* Where the entry of the call's key is; there is at most one.
Held(stored, a) == {n \in DOMAIN stored : Key(stored[n].to) = Key(a)}
Other(stored, a) ==
  IF Held(stored, a) = {} THEN stored
  ELSE RemoveAt(stored, CHOOSE n \in Held(stored, a) : TRUE)
\* _exact_get, _fp_get: where the answer is.
Lookup(stored, a) == {n \in Held(stored, a) : Live(stored[n])}

\* mutant: no eviction
Unbounded(d, stored) == stored
\* `while len > max: popitem(last=False)`
Bounded(d, stored) ==
  IF Len(stored) > CacheMax[d] THEN SubSeq(stored, Len(stored) - CacheMax[d] + 1, Len(stored)) ELSE stored

Put(d, answer) ==
  cache' = [cache EXCEPT ![d] = Bounded(d, Append(Other(@, answer.to), answer))]

-----------------------------------------------------------------------------
(* A call *)

\* A live entry is served and becomes the most recently used one.
ServeRepeat(s, a) ==
  LET d == Ask[a].door
  IN /\ call[s] = Free
     /\ Cacheable(a)
     /\ \E n \in Lookup(cache[d], a) :
          /\ cache' = [cache EXCEPT ![d] = Append(Other(@, a), @[n])]
          /\ call' = [call EXCEPT ![s] = [at |-> "repeat", ask |-> a, answer |-> cache[d][n]]]

\* No entry, or a dead one, which goes: the call is sent on.
SendOn(s, a) ==
  LET d == Ask[a].door
  IN /\ call[s] = Free
     /\ \/ /\ ~Cacheable(a)
           /\ UNCHANGED cache
        \/ /\ Cacheable(a)
           /\ Lookup(cache[d], a) = {}
           /\ cache' = [cache EXCEPT ![d] = Other(@, a)]
     /\ call' = [call EXCEPT ![s] = [at |-> "waiting", ask |-> a]]

\* The provider cannot be reached, or breaks off while its answer is streamed:
\* 502 or 504, or a broken stream, and nothing is captured.
Fail(s) ==
  /\ call[s].at \in {"waiting", "streaming"}
  /\ call' = [call EXCEPT ![s] = Free]
  /\ UNCHANGED cache

\* The status and the headers are there; the answer is being streamed.
Respond(s) ==
  /\ call[s].at = "waiting"
  /\ \E ok, large \in BOOLEAN :
       call' = [call EXCEPT ![s] =
                  [at |-> "streaming", ask |-> @.ask,
                   answer |-> [to |-> @.ask, ok |-> ok, large |-> large, whole |-> ~large, age |-> 0]]]
  /\ UNCHANGED cache

\* The whole answer went to the tool; what fits in the buffer is captured.
Finish(s) ==
  /\ call[s].at = "streaming"
  /\ call' = [call EXCEPT ![s].at = "answered"]
  /\ UNCHANGED cache

\* The tool hangs up.  In the gateway the generator is cancelled and the
\* background task runs all the same on what was captured, or, with a server
\* of a later ASGI version, does not run; in the proxy the send raises.
HangUp(s) ==
  /\ call[s].at = "streaming"
  /\ \/ /\ Ask[call[s].ask].door = "gateway"
        /\ call' = [call EXCEPT ![s] =
                      [at |-> "answered", ask |-> @.ask, answer |-> [@.answer EXCEPT !.whole = FALSE]]]
     \/ call' = [call EXCEPT ![s] = Free]
  /\ UNCHANGED cache

\* The gateway does not keep what its buffer cut off.
Kept(answer) == answer.ok /\ ~(Ask[answer.to].door = "gateway" /\ answer.large)

\* after() in the gateway, the end of handle() in the proxy: the answer is
\* stored when it may be, and the capture, which is not modelled here, starts.
Store(s) ==
  LET answer == call[s].answer
  IN /\ call[s].at = "answered"
     /\ IF Cacheable(call[s].ask) /\ Kept(answer)
        THEN Put(Ask[call[s].ask].door, answer)
        ELSE UNCHANGED cache
     /\ call' = [call EXCEPT ![s] = Free]

\* The stored answer went to the tool.
EndRepeat(s) ==
  /\ call[s].at = "repeat"
  /\ call' = [call EXCEPT ![s] = Free]
  /\ UNCHANGED cache

Tick ==
  /\ \E d \in Doors : \E n \in DOMAIN cache[d] : cache[d][n].age <= Ttl
  /\ cache' = [d \in Doors |->
                 [n \in DOMAIN cache[d] |->
                    [cache[d][n] EXCEPT !.age = IF @ <= Ttl THEN @ + 1 ELSE @]]]
  /\ UNCHANGED call

Next ==
  \/ \E s \in Slots, a \in Asks : ServeRepeat(s, a) \/ SendOn(s, a)
  \/ \E s \in Slots : \/ Fail(s) \/ Respond(s) \/ Finish(s) \/ HangUp(s)
                      \/ Store(s) \/ EndRepeat(s)
  \/ Tick

Spec == Init /\ [][Next]_vars

-----------------------------------------------------------------------------
(* Properties *)

Stages == {Free}
            \cup [at : {"waiting"}, ask : Asks]
            \cup [at : {"streaming", "answered", "repeat"}, ask : Asks, answer : Answers]

\* Types, and the caches' bounds (gateway.py 93, forward_proxy.py 40), with at
\* most one answer per key whichever calls overlapped.
TypeOK ==
  /\ call \in [Slots -> Stages]
  /\ cache \in [Doors -> Seq(Answers)]
  /\ \A d \in Doors :
       /\ Len(cache[d]) <= CacheMax[d]
       /\ \A m, n \in DOMAIN cache[d] : Key(cache[d][m].to) = Key(cache[d][n].to) => m = n

\* "a hit only ever serves a developer their OWN identical repeat"
\* (gateway.py 97): the answer served was a good one, given through the same
\* door to the same developer's call of the same URL with the same body.
RepeatIsOwn ==
  \A s \in Slots : call[s].at = "repeat" =>
    LET asked == Ask[call[s].ask]
        given == Ask[call[s].answer.to]
    IN /\ <<given.door, given.actor, given.route, given.body>>
            = <<asked.door, asked.actor, asked.route, asked.body>>
       /\ call[s].answer.ok

\* No answer is repeated later than its time to live after it was stored
\* (gateway.py 89), however calls, refreshes of its recency and overwrites by
\* slower equal calls overlap.
RepeatIsFresh ==
  \A s \in Slots : call[s].at = "repeat" => call[s].answer.age <= Ttl

\* "(lossless - the same response - and the whole call is avoided)"
\* (gateway.py 90): what is served again is all of the provider's answer.
RepeatIsWhole == \A s \in Slots : call[s].at = "repeat" => call[s].answer.whole
=============================================================================
