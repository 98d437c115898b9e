------------------------------- MODULE MCSink -------------------------------
(***************************************************************************)
(* The threads of the instances of Sink: two capture threads of the        *)
(* gateway's pool are enough for two flushes that were started by inserts, *)
(* a third flush comes from the heartbeat and a fourth from the exit.      *)
(***************************************************************************)
EXTENDS Sink

CONSTANTS c1, c2, hb, main

TwoCapturers == {c1, c2}
=============================================================================
