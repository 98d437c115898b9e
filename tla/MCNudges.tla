------------------------------ MODULE MCNudges ------------------------------
(***************************************************************************)
(* Two captures at once; both polls have a time to live of one tick.       *)
(***************************************************************************)
EXTENDS Nudges

CONSTANTS w1, w2

Times == [k \in Polls |-> 1]
=============================================================================
