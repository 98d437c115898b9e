------------------------------ MODULE ReadPlane ------------------------------
(***************************************************************************)
(* Who is shown what of the derived rows while they change.                *)
(*                                                                         *)
(* An endpoint of the collector (server.py) runs in one piece between two  *)
(* writes of its own process: its answer is an operator on the state.  The *)
(* command "abenlux report" is another process on the same database.  Each *)
(* of its queries sees a state of its own, with records inserted, matches  *)
(* booked and rows claimed in between: it is a process here, one action    *)
(* per query that a later step depends on.                                 *)
(***************************************************************************)
EXTENDS Rankings

CONSTANTS
  Fact,        \* the records that arrive: rows of the table
  Events,      \* the re-solves that are booked, of any match and order
  Principals,  \* [actor, role, tenant, org]
  OrgOf,       \* the registry: tenant -> org
  Home,        \* SETTINGS.tenant_id of the process that claims and reports
  MaxNow       \* bound of the clock

\* The columns that reports count by.  event_id is a uuid of its record; the ingest
\* clamps tokens to numbers that are not negative (_harden_inbound); None is the
\* scope of nobody's report, and "" falls back to the own tenant.
Amounts == {"cost", "input", "output", "read", "resent"}
Columns == {"id", "at", "actor", "tenant", "objective", "work"} \cup Amounts
ASSUME ReadPlaneAssumption ==
  /\ \A r \in Fact : Columns \subseteq DOMAIN r
  /\ \A r \in Fact : r.at \in Nat /\ r.at % Second = 0
  /\ \A r \in Fact, a \in Amounts : r[a] \in Nat
  /\ \A r, s \in Fact : r.id = s.id => r = s
  /\ IsFiniteSet({r \in Fact : r.tenant = Null})
  /\ IsFiniteSet(DOMAIN OrgOf) /\ {Null, Everyone} \cap DOMAIN OrgOf = {}
  /\ \A who \in Principals : who.actor # Null
  /\ \A e \in Events : IsFiniteSet(e.pair) /\ e.mode \in {"live_duplication", "solved_reuse"}
  /\ Home \in DOMAIN OrgOf /\ Home # "default"
  /\ MaxNow \in Nat

VARIABLES
  derived,   \* the table
  avoided,   \* the ledger
  booked,    \* every event ever booked (history)
  now,       \* the clock
  draft,     \* the report of the command line: its next query and what it kept
  shown      \* the figures the last query put into the report

vars == <<derived, avoided, booked, now, draft, shown>>

NoDraft == [at |-> "none", scope |-> Home, clears |-> FALSE, kept |-> {},
            bounds |-> [lo |-> 0, hi |-> 0], prior |-> {}, asOf |-> 0]

\* Rows from before there was a tenant column: no record comes without one now.
Legacy == {r \in Fact : r.tenant = Null}

Init ==
  /\ derived = Legacy
  /\ avoided = {} /\ booked = {}
  /\ now = 0
  /\ draft = NoDraft
  /\ shown = {}

-----------------------------------------------------------------------------
(* The writers. *)

Insert(r) ==
  /\ derived' = Inserted(derived, r)
  /\ UNCHANGED <<avoided, booked, now, draft, shown>>

Book(e) ==
  /\ avoided' = Booked(avoided, e)
  /\ booked' = booked \cup {e}
  /\ UNCHANGED <<derived, now, draft, shown>>

\* An edge with a named tenant starts.
Claim ==
  /\ derived' = Claimed(derived, Home)
  /\ UNCHANGED <<avoided, booked, now, draft, shown>>

Tick ==
  /\ now < MaxNow
  /\ now' = now + Second
  /\ UNCHANGED <<derived, avoided, booked, draft, shown>>

-----------------------------------------------------------------------------
(* management_report, query by query. *)

\* The draft goes to its next query and keeps what that one needs; figures are shown.
Continue(from, to, keep, figures) ==
  /\ draft.at = from
  /\ draft' = [keep EXCEPT !.at = to]
  /\ shown' = figures
  /\ UNCHANGED <<derived, avoided, booked, now>>

\* totals: the org-wide figures of this report stand or fall with it.
StartReport(t) ==
  LET clears == Allows(Scoped(derived, t))
  IN Continue("none", "rollups", [NoDraft EXCEPT !.scope = t, !.clears = clears],
              OrgScalars(clears, Scoped(derived, t)))

Rollups ==
  Continue("rollups", "org_figures", draft,
           UNION {Gated(Rollup(derived, dim, draft.scope)) : dim \in Dimensions \ {"work"}})

\* Orphan share, compression, shadow, routing, team memory and value: each
\* about the whole scope, as it is when its own query runs.
OrgFigures ==
  Continue("org_figures", "bounds", draft,
           OrgScalars(draft.clears, Scoped(derived, draft.scope)))

Bounds ==
  LET bounds == TimeBounds(derived, draft.scope)
  IN Continue("bounds", IF bounds.hi <= bounds.lo THEN "spent" ELSE "prior",
              [draft EXCEPT !.bounds = bounds, !.kept = Scoped(derived, draft.scope)], {})

PriorWindow ==
  Continue("prior", "recent",
           [draft EXCEPT !.prior = Prior(derived, draft.scope, draft.bounds)], {})

RecentWindow ==
  Continue("recent", "spent", [draft EXCEPT !.kept = {}, !.prior = {}],
           TrendOf(draft.prior, Recent(derived, draft.scope, draft.bounds)))

\* budget_status sums the spend first ...
Spent ==
  Continue("spent", "period_actors",
           [draft EXCEPT !.asOf = now, !.bounds = NoDraft.bounds,
                         !.kept = UNION {BudgetRows(derived, o, draft.scope, now) : o \in Budgeted}], {})

\* ... and the developers of the period are counted afterwards.
Hidden(o) ==
  LET actors == Cardinality(Actors(BudgetRows(derived, o, draft.scope, draft.asOf)))
  IN 0 < actors /\ actors < K
Lines(kept) == {{r \in kept : r.objective = o} : o \in {b \in Budgeted : ~Hidden(b)}}
PeriodActors ==
  Continue("period_actors", "purposes", [draft EXCEPT !.kept = {}, !.asOf = 0], Lines(draft.kept))

WorkTypes ==
  LET groups == Rollup(derived, "work", draft.scope)
  IN Continue("purposes", "since", draft, Gated(groups) \cup Investment(groups))

Since == Continue("since", "initiatives", [draft EXCEPT !.bounds = TimeBounds(derived, draft.scope)], {})

NewInitiatives ==
  Continue("initiatives", "yield", [draft EXCEPT !.bounds = NoDraft.bounds],
           Gated(NewObjectives(derived, Middle(draft.bounds), draft.scope)))

\* The reuse yield beside the report, and the end of it.
ReuseYield ==
  Continue("yield", "none", NoDraft,
           {CohortRows(derived, x.cluster) : x \in Summary(avoided, derived, draft.scope)})

-----------------------------------------------------------------------------
(* The endpoints. *)

Permissions ==
  [developer |-> {"own"}, manager |-> {"own", "aggregates", "benchmark"},
   finance |-> {"own", "aggregates", "cost", "benchmark"},
   admin |-> {"own", "aggregates", "cost", "benchmark", "manage"}]
Can(who, permission) == permission \in Permissions[who.role]

\* _resolve_report_tenant: the caller's own tenant or one of its org, and not
\* the default bucket where another org is registered.
InScope(who, t) ==
  /\ t = who.tenant \/ (t \in DOMAIN OrgOf /\ OrgOf[t] = who.org)
  /\ t = "default" => \A u \in DOMAIN OrgOf : OrgOf[u] = "default"

\* /api/report is management_report and the yield, all in one state.
ReportFigures(t) ==
  OrgScalars(Allows(Scoped(derived, t)), Scoped(derived, t))
  \cup (UNION {Gated(Rollup(derived, dim, t)) : dim \in Dimensions})
  \cup SpendTrend(derived, t)
  \cup {BudgetRows(derived, o, t, now) : o \in {b \in Budgeted :
          LET period == BudgetRows(derived, b, t, now) IN period = {} \/ Allows(period)}}
  \cup Investment(Rollup(derived, "work", t))
  \cup Gated(NewObjectives(derived, Middle(TimeBounds(derived, t)), t))
SavingsFigures(t) == {CohortRows(derived, x.cluster) : x \in Summary(avoided, derived, t)}

\* /api/rollup blanks the groups below k, /api/export leaves them out.
RollupFigures(t) == UNION {Gated(Rollup(derived, dim, t)) : dim \in Dimensions}
ExportFigures(t) ==
  UNION {{g.rows : g \in {h \in Rollup(derived, dim, t) : Allows(h.rows)}} : dim \in Dimensions}
OrphanFigures(t) == UNION {Proposals(page) : page \in OrphanSamples(derived, t, SampleLimit)}

DriftFigures(t) == SpendTrend(derived, t)
NegotiationFigures(t) == NegotiationPack(derived, t)

\* The caller's own rows: /api/me, the my_spend tool on the caller's device,
\* "abenlux me --today" since a time, the pages of "abenlux calls" by time or by
\* cost, and the knowledge graph of the device.
MeFigures(who) == DeveloperReport(derived, who.actor)
MySpend(who) == DeveloperReport(OnDevice(derived, who.actor), who.actor)
TodayFigures(who) == {Own(derived, who.actor, start) : start \in 0..now}
CallPages(who) ==
  UNION {RecentRecords(derived, who.actor, 0, o, byCost, 1) :
           o \in Budgeted \cup {Null}, byCost \in BOOLEAN}
KnowledgeGraph(who) == Graph(OnDevice(derived, who.actor))

\* /api/benchmark: the registered tenants of the caller's org, and the focus.
CohortOf(who, t) == {u \in DOMAIN OrgOf : OrgOf[u] = who.org} \cup {t}
BenchmarkView(who, t) == BenchmarkFigures(derived, CohortOf(who, t), t)

\* /v1/budget-status, which edges poll, and /api/budgets: of the whole store.
EdgeSnapshot(rows, time) == BudgetStatus(rows, Everyone, time)

\* What a principal is shown who asks every endpoint that is gated.
Answers(who, t) ==
  (IF Can(who, "own")
   THEN MeFigures(who) \cup MySpend(who) \cup TodayFigures(who) \cup CallPages(who) \cup KnowledgeGraph(who)
   ELSE {})
  \cup (IF Can(who, "aggregates") /\ InScope(who, t)
        THEN ReportFigures(t) \cup SavingsFigures(t) \cup OrphanFigures(t)
             \cup NegotiationFigures(t) \cup DriftFigures(t) \cup RollupFigures(t)
        ELSE {})
  \cup (IF Can(who, "benchmark") /\ InScope(who, t) THEN BenchmarkView(who, t) ELSE {})
  \cup (IF Can(who, "cost") /\ InScope(who, t) THEN ExportFigures(t) ELSE {})
------------------------------------------------------------------------------
Next ==
  \/ \E r \in Fact \ Legacy : Insert(r)
  \/ \E e \in Events : Book(e)
  \/ Claim \/ Tick
  \/ \E t \in DOMAIN OrgOf \ {"default"} : StartReport(t)
  \/ Rollups \/ OrgFigures \/ Bounds \/ PriorWindow \/ RecentWindow
  \/ Spent \/ PeriodActors \/ WorkTypes \/ Since \/ NewInitiatives \/ ReuseYield

Spec == Init /\ [][Next]_vars

-----------------------------------------------------------------------------
(* Properties. *)

\* A figure is about k developers, or about nothing.
OfACrowd(rows) == rows = {} \/ Cardinality({r.actor : r \in rows}) >= K

\* The endpoints read none of the variables of the report of the command line:
\* what they answer beside it they answer without it.
Idle == draft.at = "none"

\* Whatever the gated endpoints tell a principal is about the caller's own rows or
\* about k developers at least (rbac.py, reports.py, server.py).  Not gated, and
\* not among the answers, are /api/budgets and four totals of the report: the
\* unpriced calls, the cache's tokens and its ratio, the resent history.
OthersOnlyInCrowds ==
  Idle => \A who \in Principals, t \in DOMAIN OrgOf :
    \A rows \in Answers(who, t) : OfACrowd(rows) \/ Actors(rows) = {who.actor}

\* The report of the command line, each of whose queries sees other rows than
\* the one its gate was decided on, shows figures of k developers only
\* (reports.py).  Not so the budget lines: their spend is summed before their
\* developers are counted, and a record of a second one may come in between.
TornReportIsGated ==
  draft.at # "purposes" => \A rows \in shown : OfACrowd(rows)

\* The two windows of the trend take every row that there was when the report
\* looked at the bounds, and none twice, whatever comes in between (drift.py).
WindowsPartition ==
  draft.at = "recent" =>
    LET recent == Recent(derived, draft.scope, draft.bounds)
    IN draft.prior \cap recent = {} /\ draft.kept \subseteq draft.prior \cup recent

\* The yield is what was ever booked makes it, in whatever order: who could
\* reuse, and whether somebody had solved it (ledger.py: "never depends on
\* ingest order").
SummaryIsOrderFree ==
  \A t \in DOMAIN OrgOf \cup {Everyone} :
    Summary(avoided, derived, t) = Summary(booked, derived, t)

\* Within a month a budget that is over stays over for the edges that poll
\* and for /api/budgets (budget.py: a spend only grows and its window does).
OverStaysOver ==
  [][ now \div Month = now' \div Month =>
        \A o \in Budgeted : EdgeSnapshot(derived, now)[o] = "over"
                            => EdgeSnapshot(derived', now')[o] = "over" ]_vars

\* The comparison takes from one what it gives to another: over the tenants
\* that are compared by a ratio the percentiles are one half in the mean, also
\* where some of them are tied, and who has the better ratio is ranked higher
\* (_percentile_in: "genuinely tied tenants all land near 0.5").
RankIsFair ==
  \A org \in {OrgOf[t] : t \in DOMAIN OrgOf} :
    LET cohort == {t \in DOMAIN OrgOf : OrgOf[t] = org}
        ready == {t \in cohort : Ready(derived, cohort, t)}
    IN Idle /\ ready # {} =>
         \A ratios \in {Ratios(derived, avoided, cohort)} :
         \A rank \in {[t \in ready |-> Comparison(ratios, t)]}, m \in Metrics :
           LET ranked == {t \in ready : m \in DOMAIN rank[t]}
               Better(t, u) == IF HigherIsBetter[m] THEN Below(ratios[m][u], ratios[m][t])
                                                    ELSE Below(ratios[m][t], ratios[m][u])
           IN /\ Total([t \in ranked |-> rank[t][m]])
                   = Cardinality(ranked) * (Cardinality(ranked) - 1)
              /\ \A t, u \in ranked : Better(t, u) => rank[t][m] > rank[u][m]
==============================================================================
