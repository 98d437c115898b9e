------------------------------- MODULE Broker -------------------------------
(***************************************************************************)
(* The collaboration broker's decisions (broker.py): which of the signals  *)
(* it holds a new signal matches, and what it keeps.  The state they act   *)
(* on, the list `signals`, belongs to the collector (Collector.tla).       *)
(*                                                                         *)
(* A signal is a record with fields actor, emb, topic, client, residency,  *)
(* org, objective and solved.  NoTag stands for an absent client or        *)
(* objective.  Embeddings are members of a small set, and Similarity gives *)
(* the cosine of two of them in percent.                                   *)
(***************************************************************************)
EXTENDS Integers, Sequences, FiniteSets

CONSTANTS
  Embeddings,      \* the vectors records carry
  Similarity,      \* cosine() of two vectors, in percent
  Threshold,       \* threshold
  CrossThreshold,  \* cross_threshold
  MaxSignals,      \* max_signals
  NoTag            \* None

ASSUME BrokerAssumption ==
  /\ Similarity \in [Embeddings \X Embeddings -> 0..100]
  /\ \A e, f \in Embeddings : Similarity[<<e, f>>] = Similarity[<<f, e>>]
  /\ 0 < Threshold /\ Threshold <= CrossThreshold /\ CrossThreshold <= 100
  /\ MaxSignals \in Nat \ {0}

-----------------------------------------------------------------------------
\* mutant: only two different client tags are a wall
WallBetweenTags(x, y) ==
  /\ x.org = y.org
  /\ x.client = NoTag \/ y.client = NoTag \/ x.client = y.client
  /\ x.residency = y.residency

\* _wall_ok.  "Blocked when either is tagged and the tags differ" is equality
\* of the tags, NoTag included.
WallOk(x, y) ==
  /\ x.org = y.org
  /\ x.client = y.client
  /\ x.residency = y.residency

SameObjective(x, y) ==
  IF x.objective # NoTag /\ y.objective # NoTag
  THEN x.objective = y.objective
  ELSE x.topic = y.topic

EitherSolved(x, y) == x.solved \/ y.solved

Bar(x, y) ==
  IF SameObjective(x, y) \/ EitherSolved(x, y) THEN Threshold ELSE CrossThreshold

Matched(sig, other) ==
  /\ other.actor # sig.actor
  /\ WallOk(sig, other)
  /\ Similarity[<<sig.emb, other.emb>>] >= Bar(sig, other)

Mode(x, y) == IF EitherSolved(x, y) THEN "solved_reuse" ELSE "live_duplication"

\* The elements of s at the positions P, in their order: a list comprehension
\* whose condition holds at P.
Ordered(s, P) ==
  LET Rank(n) == Cardinality({m \in P : m <= n})
  IN [k \in 1..Cardinality(P) |-> s[CHOOSE n \in P : Rank(n) = k]]

\* The matches a new signal finds, in the order of the signals.
Matches(signals, sig) ==
  LET hits == Ordered(signals, {n \in DOMAIN signals : Matched(sig, signals[n])})
  IN [n \in 1..Len(hits) |->
        [a |-> sig.actor, b |-> hits[n].actor, topic |-> hits[n].topic,
         mode |-> Mode(sig, hits[n])]]

\* The signals of the other developers.
Others(signals, sig) ==
  Ordered(signals, {n \in DOMAIN signals : signals[n].actor # sig.actor})

\* mutant: the list grows with the number of developers
RetainedAll(signals, sig) == Append(Others(signals, sig), sig)

\* Only an actor's latest signal is kept, and the latest MaxSignals of all.
Retained(signals, sig) ==
  LET latest == Append(Others(signals, sig), sig)
  IN SubSeq(latest, IF Len(latest) > MaxSignals THEN Len(latest) - MaxSignals + 1 ELSE 1,
            Len(latest))
=============================================================================
