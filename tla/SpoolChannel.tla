---------------------------- MODULE SpoolChannel ----------------------------
(***************************************************************************)
(* What the edge agent's forwarding sink promises to the rest of the       *)
(* system, with no buffer, thread or batch in it: a channel from the edge  *)
(* to the collector's store.  A record that was handed over is held by the *)
(* edge until the collector has stored it or the edge has given it up; it  *)
(* may be stored while still held, because a reply can be lost, so the     *)
(* delivery is at least once.  Nothing is stored that was never sent, and  *)
(* nothing leaves the edge without being stored or given up.               *)
(***************************************************************************)
CONSTANT Records

VARIABLES sent,    \* records handed to the sink
          held,    \* records the edge still owes the collector
          stored,  \* records with a row in the collector's store
          lost     \* records the edge gave up

vars == <<sent, held, stored, lost>>

Init ==
  /\ sent = {}
  /\ held = {}
  /\ stored = {}
  /\ lost = {}

\* A new record is accepted; records of a full spool may be given up for it.
Send(r, given_up) ==
  /\ r \notin sent
  /\ sent' = sent \cup {r}
  /\ held' = (held \cup {r}) \ given_up
  /\ lost' = lost \cup given_up
  /\ UNCHANGED stored

\* The collector stores some held records; the edge hears of it or does not.
Deliver(S) ==
  /\ stored' = stored \cup S
  /\ held' \in {held, held \ S}
  /\ UNCHANGED <<sent, lost>>

GiveUp(S) ==
  /\ held' = held \ S
  /\ lost' = lost \cup S
  /\ UNCHANGED <<sent, stored>>

Next ==
  \/ \E r \in Records : \E S \in SUBSET (held \cup {r}) : Send(r, S)
  \/ \E S \in SUBSET held : Deliver(S) \/ GiveUp(S)

Spec == Init /\ [][Next]_vars

\* Every record that left the edge is in the store or was given up: the
\* promise of sink.py's "retained (a bounded spool) and retried".
NothingVanishes == sent \subseteq held \cup stored \cup lost
=============================================================================
