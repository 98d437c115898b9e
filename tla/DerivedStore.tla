---------------------------- MODULE DerivedStore -----------------------------
(***************************************************************************)
(* The queries of store.py over the rows of the table "derived".           *)
(*                                                                         *)
(* What a report shows is a sum over some rows, and what may be shown      *)
(* depends on which rows those are.  So an aggregate is the SET OF ROWS it *)
(* sums up; the sums themselves are taken where a decision depends on the  *)
(* amount.  A row is a record: id, at (ts, of the edge's clock), actor,    *)
(* tenant, objective, work (work_type), model, provider, cost, topic (the  *)
(* embedding), the tokens input, output, read and resent, retry.  "" stands *)
(* for NULL.                                                               *)
(***************************************************************************)
EXTENDS Integers, Sequences, FiniteSets, FiniteSetsExt

Null == ""
Everyone == "*"    \* tenant=None: the query is not scoped

\* _values, INSERT OR REPLACE and ON CONFLICT (event_id): a row has one event.
Inserted(rows, r) == {x \in rows : x.id # r.id} \cup {r}

\* _tenant_pred: rows from before the tenant column belong to the default one.
InTenant(r, t) == t = Everyone \/ r.tenant = t \/ (t = "default" /\ r.tenant = Null)
\* totals, the breakdowns, routing and team memory: sums over the whole scope.
Scoped(rows, t) == {r \in rows : InTenant(r, t)}

\* COUNT(DISTINCT actor_pseudonym) does not count NULL.
Actors(rows) == {r.actor : r \in rows} \ {Null}
Cost(rows) == MapThenSumSet(LAMBDA r : r.cost, rows)

\* GROUP BY one of the allowed columns (tool and tier are like provider); any
\* other is a ValueError.
Dimensions == {"objective", "model", "provider", "work"}
Grouped(rows, dim) == {[label |-> l, rows |-> {r \in rows : r[dim] = l}] : l \in {r[dim] : r \in rows}}
Rollup(rows, dim, t) == Grouped(Scoped(rows, t), dim)

Orphans(rows, t) == {r \in Scoped(rows, t) : r.objective = Null}

\* The rows that come first in an order, as many as LIMIT has; ties are the engine's.
FirstRows(rows, limit, by) ==
  {page \in SUBSET rows :
     /\ Cardinality(page) = IF Cardinality(rows) < limit THEN Cardinality(rows) ELSE limit
     /\ \A r \in page, s \in rows \ page : s[by] <= r[by]}
OrphanSamples(rows, t, limit) ==
  FirstRows({r \in Orphans(rows, t) : r.topic # Null}, limit, "at")

\* MIN(ts) and MAX(ts), 0 when there is no row.
TimeBounds(rows, t) ==
  LET ats == {r.at : r \in Scoped(rows, t)} \cup IF Scoped(rows, t) = {} THEN {0} ELSE {}
  IN [lo |-> Min(ats), hi |-> Max(ats)]

\* ts >= start AND ts < end
Window(rows, t, start, end) == {r \in Scoped(rows, t) : r.at >= start /\ r.at < end}
ObjectiveWindow(rows, o, start, end, t) == {r \in Window(rows, t, start, end) : r.objective = o}

\* The groups whose first row is not older than since.
NewObjectives(rows, since, t) ==
  {g \in Rollup(rows, "objective", t) :
     g.label # Null /\ \A r \in g.rows : r.at >= since}

\* What each developer spent on an objective and a kind of work, who spent
\* something: NULL and 'unknown' are one kind.
ActorCostsFor(rows, o, work, t) ==
  LET kinds == IF work \in {Null, "unknown"} THEN {Null, "unknown"} ELSE {work}
      their == {r \in Scoped(rows, t) : r.objective = o /\ r.work \in kinds}
      spent == [a \in {r.actor : r \in their} |-> Cost({r \in their : r.actor = a})]
  IN [a \in {b \in DOMAIN spent : spent[b] # 0} |-> spent[a]]

\* One developer's own rows, since a time.
Own(rows, actor, start) == {r \in rows : r.actor = actor /\ r.at >= start}
RecentRecords(rows, actor, start, o, byCost, n) ==
  LET mine == {r \in Own(rows, actor, start) : o = Null \/ r.objective = o}
  IN FirstRows(mine, n, IF byCost THEN "cost" ELSE "at")

\* An edge with a named tenant takes the rows from before there were tenants.
Claimed(rows, t) ==
  IF t = "default" THEN rows
  ELSE {IF r.tenant = Null THEN [r EXCEPT !.tenant = t] ELSE r : r \in rows}
==============================================================================
