------------------------------ MODULE MCIntro -------------------------------
(***************************************************************************)
(* ann may be introduced to bob; cid stands on the other side of a wall.   *)
(***************************************************************************)
EXTENDS Intro

CONSTANTS ann, bob, cid

AnnWithBob == {<<ann, bob>>, <<bob, ann>>}
=============================================================================
