------------------------------- MODULE Reports -------------------------------
(***************************************************************************)
(* What the analytics make of the derived rows: the k-anonymity gate, the  *)
(* parts of the management report, the trend, the budgets, the orphan      *)
(* proposals, the negotiation pack and the reuse yield.  Pure operators; a *)
(* figure is the set of rows it is about (see DerivedStore).  Times are in *)
(* half seconds and the rows' timestamps even, so that the middle of two   *)
(* of them is a time.                                                      *)
(***************************************************************************)
EXTENDS DerivedStore, SequencesExt

CONSTANTS
  K,            \* SETTINGS.k_anon
  Monthly,      \* objective -> its monthly budget, 0 for none
  Month,        \* length of a month
  NetNew,       \* kinds of work that are net new
  Maintenance,  \* kinds of work that are maintenance
  Similar,      \* pairs of topics over the threshold of recovery.py
  KTenants,     \* DEFAULT_K_TENANTS: tenants a comparison needs
  SampleLimit   \* orphan_samples(limit=2000)

ASSUME ReportsAssumption ==
  /\ K \in Nat \ {0} /\ Month \in Nat \ {0} /\ SampleLimit \in Nat /\ KTenants \in Nat
  /\ \A o \in DOMAIN Monthly : Monthly[o] \in Nat

Second == 2

\* mutant: rows are counted
AllowsCalls(rows) == Cardinality(rows) >= K
\* KAnonymityGate.allows: developers are counted, not rows.
Allows(rows) == Cardinality(Actors(rows)) >= K

\* _gate_rows: the figures of a group below k are blank.
Gated(groups) == {g.rows : g \in {h \in groups : Allows(h.rows)}}

\* Exact figures of the whole scope, or blanks (and a blurred total) below k.
OrgScalars(clears, rows) == IF clears THEN {rows} ELSE {}

\* developer_report, and the developer's own knowledge graph: of the store on the
\* device, which holds nobody else's rows.
DeveloperReport(rows, actor) == {Own(rows, actor, 0)}
OnDevice(rows, actor) == {r \in rows : r.actor = actor}
Graph(rows) == {rows} \cup UNION {{g.rows : g \in Rollup(rows, dim, Everyone)} : dim \in Dimensions}

\* The split of the spend into purposes leaves out what the gate hides.
Purposes == {"net_new", "maintenance", "unclassified"}
PurposeOf(work) ==
  IF work \in NetNew THEN "net_new" ELSE IF work \in Maintenance THEN "maintenance" ELSE "unclassified"
Investment(groups) ==
  {UNION {g.rows : g \in {h \in groups : Allows(h.rows) /\ PurposeOf(h.label) = p}} : p \in Purposes}

-----------------------------------------------------------------------------
(* drift.py: the recent half of the history against the prior one. *)

Middle(bounds) == (bounds.lo + bounds.hi) \div 2
Prior(rows, t, bounds) == Window(rows, t, bounds.lo, Middle(bounds))
\* mutant: the half-open window ends at the last row
RecentToLast(rows, t, bounds) == Window(rows, t, Middle(bounds), bounds.hi)
Recent(rows, t, bounds) == Window(rows, t, Middle(bounds), bounds.hi + Second)

\* Nothing to compare, or two windows that are shown or blank together.
TrendOf(prior, recent) ==
  IF prior = {} \/ recent = {} \/ ~Allows(prior) \/ ~Allows(recent) THEN {} ELSE {prior, recent}
SpendTrend(rows, t) ==
  LET bounds == TimeBounds(rows, t)
  IN IF bounds.hi <= bounds.lo THEN {}
     ELSE TrendOf(Prior(rows, t, bounds), Recent(rows, t, bounds))

-----------------------------------------------------------------------------
(* budget.py *)

Budgeted == {o \in DOMAIN Monthly : Monthly[o] # 0}
\* mutant: the last thirty days instead of the calendar month
LastThirtyDays(now) == now - Month
\* current_month_bounds
MonthStart(now) == (now \div Month) * Month

\* The second past now takes in a record of this very moment.
BudgetRows(rows, o, t, now) == ObjectiveWindow(rows, o, MonthStart(now), now + Second, t)

\* _status over integers; the run rate is spent over the elapsed fraction of
\* the month, at least 4% of it.
Status(spent, budget, elapsed) ==
  LET floored == Max({100 * elapsed, 4 * Month})
  IN IF spent >= budget THEN "over"
     ELSE IF 100 * spent >= 80 * budget THEN "at_risk"
     ELSE IF 100 * elapsed >= 15 * Month /\ 100 * spent * Month > budget * floored THEN "at_risk"
     ELSE "ok"
BudgetStatus(rows, t, now) ==
  [o \in Budgeted |-> Status(Cost(BudgetRows(rows, o, t, now)), Monthly[o], now - MonthStart(now))]

-----------------------------------------------------------------------------
(* recovery.py, negotiation.py *)

\* Greedy: a sample joins the first group whose first sample is close.  A proposal
\* is a group of samples that the gate allows.
Placed(groups, s) ==
  LET Close(g) == <<s.topic, g[1].topic>> \in Similar
      first == SelectInSeq(groups, Close)
  IN IF first = 0 THEN Append(groups, <<s>>) ELSE [groups EXCEPT ![first] = Append(@, s)]
Groups(samples) == FoldLeft(Placed, <<>>, SetToSortSeq(samples, LAMBDA r, s : r.at > s.at))
Proposals(samples) ==
  {g \in {ToSet(h) : h \in ToSet(Groups(samples))} : g \subseteq samples /\ Allows(g)}

\* mutant: the rows of the pack are not gated one by one
NegotiationUngated(rows, t) ==
  IF ~Allows(Scoped(rows, t)) THEN {}
  ELSE {Scoped(rows, t)} \cup UNION {{g.rows : g \in Rollup(rows, d, t)} : d \in {"provider", "model"}}
NegotiationPack(rows, t) ==
  IF ~Allows(Scoped(rows, t)) THEN {}
  ELSE {Scoped(rows, t)} \cup UNION {Gated(Rollup(rows, d, t)) : d \in {"provider", "model"}}

-----------------------------------------------------------------------------
(* benchmark.py: which tenants a comparison is about; Rankings has their   *)
(* ratios and ranks.                                                       *)

\* The focus is admitted to its own ratios, and the cohort to the comparison.
Qualifying(rows, cohort) == {t \in cohort : Allows(Scoped(rows, t))}
Ready(rows, cohort, focus) ==
  focus \in Qualifying(rows, cohort) /\ Cardinality(Qualifying(rows, cohort)) >= KTenants
\* A median or an extreme is the ratio of one tenant of the cohort.
BenchmarkFigures(rows, cohort, focus) ==
  {Scoped(rows, t) : t \in {u \in Qualifying(rows, cohort) : u = focus}}
  \cup IF Ready(rows, cohort, focus) THEN {Scoped(rows, t) : t \in Qualifying(rows, cohort)} ELSE {}

-----------------------------------------------------------------------------
(* ledger.py: the avoided re-solves, counted when they are read. *)

\* A row of the table: [tenant, pair, objective, work, mode]; its key is all but the mode.
Key(e) == [tenant |-> e.tenant, pair |-> e.pair, objective |-> e.objective, work |-> e.work]

\* mutant: the last mode wins
BookedLast(avoided, e) == {a \in avoided : Key(a) # Key(e)} \cup {e}
\* INSERT ... ON CONFLICT DO UPDATE only from live to solved.
Booked(avoided, e) ==
  IF \E a \in avoided : Key(a) = Key(e) /\ ~(a.mode = "live_duplication" /\ e.mode = "solved_reuse")
  THEN avoided
  ELSE {a \in avoided : Key(a) # Key(e)} \cup {e}

\* A cluster is credited one re-solve less than it has people.
ClustersOf(opportunities) ==
  {[tenant |-> e.tenant, objective |-> e.objective, work |-> e.work] : e \in opportunities}
InCluster(e, c) == e.tenant = c.tenant /\ e.objective = c.objective /\ e.work = c.work
Cohort(rows, c) == ActorCostsFor(rows, c.objective, c.work, c.tenant)
Credit(opportunities, c) ==
  LET its == {e \in opportunities : InCluster(e, c)}
  IN [cluster |-> c,
      avoided |-> Cardinality(UNION {e.pair : e \in its}) - 1,
      mode |-> IF \E e \in its : e.mode = "solved_reuse" THEN "solved_reuse" ELSE "live_duplication"]
Summary(avoided, rows, t) ==
  LET their == {e \in avoided : t = Everyone \/ e.tenant = t}
      credits == {Credit(their, c) : c \in ClustersOf(their)}
  IN {x \in credits : x.avoided > 0 /\ Cardinality(DOMAIN Cohort(rows, x.cluster)) >= K}

\* What a credit says something about: the spend of everyone in the cohort.
CohortRows(rows, c) ==
  {r \in Scoped(rows, c.tenant) :
     r.objective = c.objective /\ r.actor \in DOMAIN Cohort(rows, c)
     /\ (r.work = c.work \/ {r.work, c.work} \subseteq {Null, "unknown"})}
==============================================================================
