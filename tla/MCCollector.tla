---------------------------- MODULE MCCollector -----------------------------
(***************************************************************************)
(* Instances of Collector.  Three developers: ann and bob in two tenants   *)
(* of one org, cid in a tenant of another.  The batches hold what the      *)
(* walls, the bars and the rejections tell apart:                          *)
(*   a1  ann, client objective "pay", in progress                          *)
(*   b1  bob, objective "pay", solved, claims another tenant than his own  *)
(*   b2  bob, an objective the knowledge graph does not know               *)
(*   b3  bob, objective "pay" again, in progress, less similar             *)
(*   n1  ann, a record without an embedding                                *)
(*   c1  cid, objective "pay", claims ann's tenant                         *)
(*   x1  an actor no principal has                                         *)
(*   bad an entry that is not a record                                     *)
(* Vectors p and q are almost the same, r is related to both.              *)
(***************************************************************************)
EXTENDS Collector

CONSTANTS NoTagMV, NoMatchMV

Vectors == {"p", "q", "r"}
Cosine ==
  [e \in Vectors \X Vectors |->
     IF e[1] = e[2] THEN 100 ELSE IF "r" \in {e[1], e[2]} THEN 45 ELSE 96]

Record(actor, tenant, objective, topic, emb, solved) ==
  [wellformed |-> TRUE, actor |-> actor, tenant |-> tenant, residency |-> "eu",
   objective |-> objective, topic |-> topic, emb |-> emb, solved |-> solved,
   work |-> "feature", stack |-> "py"]

Facts ==
  [a1  |-> Record("ann", "acme-eu", "pay", "checkout", "p", FALSE),
   b1  |-> Record("bob", "acme-eu", "pay", "checkout", "q", TRUE),
   b2  |-> Record("bob", "acme-us", "nowhere", "checkout", "q", FALSE),
   b3  |-> Record("bob", "acme-us", "pay", "checkout", "r", FALSE),
   c1  |-> Record("cid", "acme-eu", "pay", "checkout", "p", TRUE),
   n1  |-> Record("ann", "acme-eu", NoTagMV, "general", NoTagMV, FALSE),
   x1  |-> Record("eve", "acme-eu", "pay", "checkout", "p", TRUE),
   bad |-> [Record("ann", "acme-eu", "pay", "checkout", "p", TRUE)
              EXCEPT !.wellformed = FALSE]]

AllBatches == {<<"a1", "bad">>, <<"b1", "x1">>, <<"b2", "b3">>, <<"c1", "n1">>}
FewBatches == {<<"a1">>, <<"b1">>}
Developers == [ann |-> "acme-eu", bob |-> "acme-us", cid |-> "rival"]
Clients == [pay |-> "shop"]

Upsert(tenant, org, residency) == [tenant |-> tenant, org |-> org, residency |-> residency]
Upserts == {Upsert("acme-us", "acme", "eu"), Upsert("acme-us", "acme", "us")}
AnnsTenant == [t \in {"acme-eu"} |-> [org |-> "acme", residency |-> "eu"]]
=============================================================================
