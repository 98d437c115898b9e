----------------------------- MODULE MCGateway ------------------------------
(***************************************************************************)
(* Calls of one developer with one body to two models, a colleague's equal *)
(* call, a streamed one, and one through the forward proxy.                *)
(***************************************************************************)
EXTENDS Gateway, TLC

CONSTANTS s1, s2

Via(door, actor, route) ==
  [door |-> door, actor |-> actor, route |-> route, body |-> "fix it",
   streamed |-> FALSE, model |-> TRUE]

Calls ==
  [flash  |-> Via("gateway", "ann", "/flash"),
   pro    |-> Via("gateway", "ann", "/pro"),
   bobs   |-> Via("gateway", "bob", "/pro"),
   stream |-> [Via("gateway", "ann", "/pro") EXCEPT !.streamed = TRUE],
   proxy  |-> Via("proxy", "ann", "/flash")]

Sizes == [gateway |-> 2, proxy |-> 1]

Symmetric == Permutations(Slots)
=============================================================================
