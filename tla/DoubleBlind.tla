---------------------------- MODULE DoubleBlind -----------------------------
(***************************************************************************)
(* What the collaboration feature promises to two developers: each side is *)
(* told of a match on a topic, each side may ask for an introduction, and  *)
(* nobody learns who the other is before both asked, on that topic.  A     *)
(* "side" is <<who, about whom, topic>>.                                   *)
(***************************************************************************)
CONSTANT Sides   \* the sides the walls of the broker allow

VARIABLES told,  \* sides that were told of the match
          asked, \* sides that asked for the introduction
          knows  \* sides that know who the other is

vars == <<told, asked, knows>>

Other(s) == <<s[2], s[1], s[3]>>

Init ==
  /\ told = {}
  /\ asked = {}
  /\ knows = {}

Tell(s) ==
  /\ told' = told \cup {s}
  /\ UNCHANGED <<asked, knows>>

\* A side that was told asks; it learns who the other is if that one asked.
AskFor(s) ==
  /\ s \in told
  /\ asked' = asked \cup {s}
  /\ knows' \in {knows} \cup (IF Other(s) \in asked THEN {knows \cup {s}} ELSE {})
  /\ UNCHANGED told

\* Somebody looks at the page and sees the introductions that are mutual.
Look(S) ==
  /\ \A s \in S : s \in asked /\ Other(s) \in asked
  /\ knows' = knows \cup S
  /\ UNCHANGED <<told, asked>>

Next ==
  \/ \E s \in Sides : Tell(s)
  \/ \E s \in Sides : AskFor(s)
  \/ \E S \in SUBSET asked : Look(S)

Spec == Init /\ [][Next]_vars
=============================================================================
