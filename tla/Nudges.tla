------------------------------- MODULE Nudges -------------------------------
(***************************************************************************)
(* What a capture tells its developer once the record was handed to the    *)
(* sink: _surface_to_developer in gateway.py, with the feed it appends to. *)
(*                                                                         *)
(* Captures run in a thread pool.  An edge that forwards to a collector    *)
(* polls it for the developer's matches and for the state of the budgets,  *)
(* each on a time to live that is claimed under a lock before the request  *)
(* is made without it.  Appends to the feed may fail, which ends the       *)
(* capture.  The process may end and start again; only the feed is kept.   *)
(*                                                                         *)
(* Lines are counted, not kept; toasts, which repeat the lines, are left   *)
(* out.  So are the matches of the local broker: on an edge that forwards  *)
(* it knows one developer only.  Elapsed times stand for the clock, which  *)
(* does not advance between the reading of `now` and the lock: a thread    *)
(* would have to stall there for a time to live to be noticed.             *)
(***************************************************************************)
EXTENDS Naturals, Sequences, SequencesExt, FiniteSetsExt

CONSTANTS
  Workers,      \* threads of the capture pool
  Ids,          \* the ids of this developer's matches at the collector
  Ttl,          \* poll -> _COLLAB_TTL, _BUDGET_TTL
  SeenMax,      \* the 4096 of _poll_collab_matches
  MaxEntries,   \* the feed's max_entries
  MaxRestarts   \* bound: restarts of the process

Polls == {"matches", "budget"}

ASSUME NudgesAssumption ==
  /\ Ttl \in [Polls -> Nat \ {0}]
  /\ IsFiniteSet(Ids)
  /\ SeenMax \in Nat \ {0}
  /\ MaxEntries \in Nat \ {0}
  /\ MaxRestarts \in Nat

VARIABLES
  at,        \* worker -> where it is in _surface_to_developer
  got,       \* worker -> the answer it holds: ids, or those it has yet to show
  age,       \* poll -> time since `refreshed`, up to the time to live
  seen,      \* _collab_state["seen"], oldest first
  lines,     \* lines in the feed's file
  appends,   \* _appends, modulo the interval
  offered,   \* at the collector: id -> "none", "open" or "mutual"
  up,        \* the collector answers
  restarts,
  told,      \* bookkeeping: id -> how often this process showed it
  since,     \* bookkeeping: poll -> time since its last request began
  lost       \* bookkeeping: ids it marked as seen and then could not show

vars == <<at, got, age, seen, lines, appends, offered, up,
          restarts, told, since, lost>>
feed == <<lines, appends>>
outside == <<offered, up, restarts>>

\* max(1, min(256, max_entries // 4 or 1))
TrimInterval == Max({1, Min({256, MaxEntries \div 4})})

NoAges == [k \in Polls |-> Ttl[k]]
AllIdle == [w \in Workers |-> "idle"]
NoAnswers == [w \in Workers |-> {}]
NothingTold == [i \in Ids |-> 0]

Init ==
  /\ at = AllIdle
  /\ got = NoAnswers
  /\ age = NoAges /\ since = NoAges
  /\ seen = <<>>
  /\ lines = 0 /\ appends = 0
  /\ told = NothingTold
  /\ offered = [i \in Ids |-> "none"]
  /\ up \in BOOLEAN
  /\ restarts = 0
  /\ lost = {}

-----------------------------------------------------------------------------
(* The feed *)

\* _trim(): what is left of n lines.
Trimmed(n) == Min({n, MaxEntries})

\* append(), and every so often _trim().
Append1 ==
  /\ appends' = (appends + 1) % TrimInterval
  /\ lines' = IF appends' = 0 THEN Trimmed(lines + 1) ELSE lines + 1

\* The file cannot be written: the capture ends, the rest of it is not done.
AppendFails(w) ==
  /\ at[w] \in {"idle", "show", "warn"}
  /\ at' = [at EXCEPT ![w] = "idle"]
  /\ got' = [got EXCEPT ![w] = {}]
  /\ lost' = lost \cup got[w]
  /\ UNCHANGED <<age, seen, feed, outside, told, since>>

-----------------------------------------------------------------------------
(* One capture *)

\* Where a worker is when it has claimed a poll, and when it has not.
Request(k) == IF k = "matches" THEN "ask" ELSE "fetch"
Skip(k) == IF k = "matches" THEN "budget" ELSE "warn"

\* mutant: `refreshed` is stamped when the answer is there
ClaimedLater(k) == age
Claimed(k) == [age EXCEPT ![k] = 0]

\* `if now - refreshed < TTL: return`, otherwise claim it; in one locked region.
Claim(w, k) ==
  /\ IF age[k] < Ttl[k]
     THEN /\ at' = [at EXCEPT ![w] = Skip(k)]
          /\ UNCHANGED <<age, since>>
     ELSE /\ at' = [at EXCEPT ![w] = Request(k)]
          /\ age' = Claimed(k)
          /\ since' = [since EXCEPT ![k] = 0]
  /\ UNCHANGED <<got, seen, outside, told, lost>>

\* A capture gets here, and tells a saving or waste of its own, or has none.
Begin(w) ==
  /\ at[w] = "idle"
  /\ Append1 \/ UNCHANGED feed
  /\ Claim(w, "matches")

ClaimBudget(w) ==
  /\ at[w] = "budget"
  /\ Claim(w, "budget")
  /\ UNCHANGED feed

\* `if rec.objective_id`: a capture that was attributed to none has no budget.
NoObjective(w) ==
  /\ at[w] = "budget"
  /\ at' = [at EXCEPT ![w] = "idle"]
  /\ UNCHANGED <<got, age, seen, feed, outside, told, since, lost>>

\* No answer, or not a 200: the claim stays, and what was known.
RequestFails(w, k) ==
  /\ at[w] = Request(k)
  /\ ~up
  /\ at' = [at EXCEPT ![w] = Skip(k)]
  /\ UNCHANGED <<got, age, seen, feed, outside, told, since, lost>>

\* /v1/collab-status: the developer's matches, with whether both sides agreed.
Page == {[id |-> i, mutual |-> offered[i] = "mutual"] : i \in {j \in Ids : offered[j] # "none"}}

\* The page arrives; who has been introduced needs no nudge.
AskAnswered(w) ==
  /\ at[w] = "ask"
  /\ up
  /\ got' = [got EXCEPT ![w] = {m.id : m \in {n \in Page : ~n.mutual}}]
  /\ at' = [at EXCEPT ![w] = "mark"]
  /\ UNCHANGED <<age, seen, feed, outside, told, since, lost>>

\* `while len(seen) > 4096: seen.popitem(last=False)`
Youngest(s) == SubSeq(s, IF Len(s) > SeenMax THEN Len(s) - SeenMax + 1 ELSE 1, Len(s))

\* mutant: no look at what was seen
MarkAny(s, i) == [seen |-> Youngest(Append(s.seen, i)), fresh |-> s.fresh \cup {i}]
\* mutant: `not in seen` for `in seen`
MarkKnown(s, i) ==
  IF i \notin ToSet(s.seen) THEN s
  ELSE [seen |-> Youngest(Append(s.seen, i)), fresh |-> s.fresh \cup {i}]
MarkOne(s, i) ==
  IF i \in ToSet(s.seen) THEN s
  ELSE [seen |-> Youngest(Append(s.seen, i)), fresh |-> s.fresh \cup {i}]

\* The loop over the answer: what is new is marked as seen and kept.
MarkAll(answer) ==
  LET after[n \in 0..Len(answer)] ==
        IF n = 0 THEN [seen |-> seen, fresh |-> {}] ELSE MarkOne(after[n - 1], answer[n])
  IN after[Len(answer)]

\* All of it is one locked region; the new ones are returned.
Mark(w) ==
  /\ at[w] = "mark"
  /\ \E answer \in SetToSeqs(got[w]) :
       LET end == MarkAll(answer)
       IN /\ seen' = end.seen
          /\ got' = [got EXCEPT ![w] = end.fresh]
          /\ at' = [at EXCEPT ![w] = IF end.fresh = {} THEN "budget" ELSE "show"]
  /\ UNCHANGED <<age, feed, outside, told, since, lost>>

\* One of the new matches is appended to the feed.
Show(w) ==
  /\ at[w] = "show"
  /\ Append1
  /\ \E i \in got[w] :
       /\ told' = [told EXCEPT ![i] = IF @ < 2 THEN @ + 1 ELSE @]
       /\ got' = [got EXCEPT ![w] = @ \ {i}]
       /\ at' = [at EXCEPT ![w] = IF got[w] = {i} THEN "budget" ELSE "show"]
  /\ UNCHANGED <<age, seen, outside, since, lost>>

\* The snapshot itself is left out: any objective may be over its budget.
FetchAnswered(w) ==
  /\ at[w] = "fetch"
  /\ up
  /\ at' = [at EXCEPT ![w] = "warn"]
  /\ UNCHANGED <<got, age, seen, feed, outside, told, since, lost>>

\* guardrail_line: there is one for what is over its budget, or at risk.
Guardrail(status) == status \in {"over", "at_risk"}
\* What the snapshot has of the objective; nothing, if it has no budget.
Statuses == {"ok", "at_risk", "over", "no budget"}

Warn(w) ==
  /\ at[w] = "warn"
  /\ \E status \in Statuses : IF Guardrail(status) THEN Append1 ELSE UNCHANGED feed
  /\ at' = [at EXCEPT ![w] = "idle"]
  /\ UNCHANGED <<got, age, seen, outside, told, since, lost>>

-----------------------------------------------------------------------------
(* The environment *)

\* A match appears at the collector, or becomes a mutual introduction.
Offer(i) ==
  /\ \/ offered[i] = "none" /\ offered' = [offered EXCEPT ![i] = "open"]
     \/ offered[i] = "open" /\ offered' = [offered EXCEPT ![i] = "mutual"]
  /\ UNCHANGED <<at, got, age, seen, feed, up, restarts, told, since, lost>>

CollectorChanges ==
  /\ up' = ~up
  /\ UNCHANGED <<at, got, age, seen, feed, offered, restarts, told, since, lost>>

Older(t) == [k \in Polls |-> IF t[k] < Ttl[k] THEN t[k] + 1 ELSE t[k]]

Tick ==
  /\ <<age, since>> # <<Older(age), Older(since)>>
  /\ age' = Older(age)
  /\ since' = Older(since)
  /\ UNCHANGED <<at, got, seen, feed, outside, told, lost>>

\* The memory of the process is gone; the feed's file is not.
Restart ==
  /\ restarts < MaxRestarts
  /\ restarts' = restarts + 1
  /\ at' = AllIdle
  /\ got' = NoAnswers
  /\ age' = NoAges /\ since' = NoAges
  /\ seen' = <<>>
  /\ appends' = 0
  /\ told' = NothingTold
  /\ lost' = {}
  /\ UNCHANGED <<lines, offered, up>>

Work(w) ==
  \/ \E k \in Polls : RequestFails(w, k)
  \/ AskAnswered(w)
  \/ Mark(w)
  \/ Show(w)
  \/ ClaimBudget(w)
  \/ NoObjective(w)
  \/ FetchAnswered(w)
  \/ Warn(w)

Next ==
  \/ \E w \in Workers : Begin(w) \/ Work(w) \/ AppendFails(w)
  \/ \E i \in Ids : Offer(i)
  \/ CollectorChanges
  \/ Tick
  \/ Restart

Spec == Init /\ [][Next]_vars

\* Time passes, and a capture that began goes on: every request has a timeout.
\* That captures begin, and what happens at the collector, is left open.
Fairness == WF_vars(Tick) /\ \A w \in Workers : WF_vars(Work(w))

FairSpec == Spec /\ Fairness

-----------------------------------------------------------------------------
(* Properties *)

Places == {"idle", "ask", "mark", "show", "budget", "fetch", "warn"}

\* Types, and two bounds: of the dedup set (gateway.py 233), and of the feed,
\* which each process exceeds by at most what it appends before its first trim.
TypeOK ==
  /\ at \in [Workers -> Places]
  /\ got \in [Workers -> SUBSET Ids]
  /\ \A k \in Polls : {age[k], since[k]} \subseteq 0..Ttl[k]
  /\ seen \in Seq(Ids) /\ Len(seen) <= SeenMax
  /\ up \in BOOLEAN
  /\ appends \in 0..(TrimInterval - 1)
  /\ lines \in 0..(MaxEntries + (restarts + 1) * (TrimInterval - 1))
  /\ offered \in [Ids -> {"none", "open", "mutual"}]
  /\ restarts \in 0..MaxRestarts
  /\ lost \subseteq Ids
  /\ told \in [Ids -> 0..2]

\* "concurrent capture threads don't all stampede the collector at once when
\* the TTL elapses" (gateway.py 172-174): two requests of one poll begin at
\* least its time to live apart, also when the first one is slow or fails.
NoStampede ==
  [][\A k \in Polls, w \in Workers :
       at[w] # Request(k) /\ at'[w] = Request(k) => since[k] >= Ttl[k]]_vars

\* "return only NEW ones" (gateway.py 204): as long as the dedup set holds all
\* the developer's matches, none is shown twice by one process, though slow
\* polls overlap and the collector goes on answering with it.
ShownOnce == \A i \in Ids : told[i] < 2

\* "what makes 'a colleague is on the same problem' a live nudge" (gateway.py
\* 199): when the collector is up from some time on and captures go on, a match
\* is shown in the end, unless it became mutual or its own line could not be written.
MatchIsShown ==
  (<>[]up /\ []<>(\E w \in Workers : at[w] = "budget")) =>
     \A i \in Ids : (offered[i] = "open") ~> (told[i] > 0 \/ offered[i] = "mutual" \/ i \in lost)
=============================================================================
