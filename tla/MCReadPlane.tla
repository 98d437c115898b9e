----------------------------- MODULE MCReadPlane -----------------------------
(***************************************************************************)
(* Two developers make a crowd, and two tenants a comparison.  ann and bob  *)
(* share an objective of eu, bob and cat each have a row in us; orphans on *)
(* two close topics; a row from before there were tenants; two months.     *)
(***************************************************************************)
EXTENDS ReadPlane, TLC

Row(id, at, actor, tenant, objective, work, cost, topic) ==
  [id |-> id, at |-> at, actor |-> actor, tenant |-> tenant, objective |-> objective, work |-> work,
   model |-> IF actor = "cat" THEN "small" ELSE "large",
   provider |-> IF id = 2 THEN "p2" ELSE "p1", cost |-> cost, topic |-> topic,
   input |-> id + 1, output |-> 2, read |-> IF id \in {1, 5} THEN 2 ELSE 0, resent |-> 1, retry |-> id \in {1, 6}]

Rows == {Row(1, 0, "ann", "eu", "acme", "feature", 4, "x"),
         Row(2, 2, "bob", "eu", "acme", "feature", 4, "x"),
         Row(3, 4, "ann", "", "", "fix", 2, "z"),
         Row(4, 6, "cat", "eu", "", "", 1, "y"),
         Row(5, 8, "bob", "us", "zen", "feature", 3, "z"),
         Row(6, 8, "cat", "us", "zen", "fix", 5, "x")}

Opportunity(pair, mode) ==
  [tenant |-> "eu", pair |-> pair, objective |-> "acme", work |-> "feature", mode |-> mode]
Opportunities == {Opportunity({"ann", "bob"}, "live_duplication"),
                  Opportunity({"ann", "bob"}, "solved_reuse"),
                  Opportunity({"ann", "cat"}, "live_duplication")}

People == {[actor |-> "ann", role |-> "developer", tenant |-> "eu", org |-> "acme"],
           [actor |-> "mia", role |-> "manager", tenant |-> "eu", org |-> "acme"],
           [actor |-> "ada", role |-> "admin", tenant |-> "default", org |-> "default"]}
Registry == [eu |-> "acme", us |-> "acme"] @@ ("default" :> "default")
Ceilings == [acme |-> 8, zen |-> 5]
CloseTopics == {<<t, t>> : t \in {"x", "y", "z"}} \cup {<<"y", "z">>, <<"z", "y">>}
==============================================================================
