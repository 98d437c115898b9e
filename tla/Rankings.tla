------------------------------ MODULE Rankings ------------------------------
(***************************************************************************)
(* What a tenant is compared with others by: its ratios (benchmark.py), the *)
(* money that its reuse saves (ledger.py), and its rank among the tenants  *)
(* that may be compared.  Operators; a ratio is a pair of integers, <<>>   *)
(* when a tenant has none.                                                 *)
(***************************************************************************)
EXTENDS Reports

NotApplicable == <<>>

\* _ratio, which is 0 over nothing.
Ratio(num, den) == IF den = 0 THEN <<0, 1>> ELSE <<num, den>>
Below(a, b) == a[1] * b[2] < b[1] * a[2]
Same(a, b) == a[1] * b[2] = b[1] * a[2]

\* METRICS: whether more of it is better.
HigherIsBetter ==
  [cost_per_1k_tokens |-> FALSE, cache_hit_ratio |-> TRUE, cache_recoverable_share |-> FALSE,
   orphan_share |-> FALSE, net_new_share |-> TRUE, maintenance_share |-> FALSE,
   retry_rate |-> FALSE, reuse_share |-> TRUE]
Metrics == DOMAIN HigherIsBetter

-----------------------------------------------------------------------------
(* The yield in money *)

\* The sum of a function's values.
Total(w) == FoldFunction(+, 0, w)

\* cost_to_solve takes the mean of what each developer spent, without the extremes
\* when there are four of them or more.  How many at each cost are left: those who
\* in the order of the costs are not among the first, nor among the last.
Core(costs) ==
  LET n == Cardinality(DOMAIN costs)
      trim == IF n < 4 THEN 0 ELSE Max({1, n \div 10})
      Under(c) == Cardinality({a \in DOMAIN costs : costs[a] < c})
      UpTo(c) == Cardinality({a \in DOMAIN costs : costs[a] <= c})
      Left(c) == Min({UpTo(c), n - trim}) - Max({Under(c), trim})
  IN [c \in {costs[a] : a \in DOMAIN costs} |-> Max({0, Left(c)})]
CostToSolve(costs) ==
  LET core == Core(costs) IN Ratio(Total([c \in DOMAIN core |-> c * core[c]]), Total(core))

\* estimate_avoided, in cents: half of it for a duplication that is still going on.
EstimateAvoided(costs, mode) ==
  LET cost == CostToSolve(costs)
  IN (100 * cost[1]) \div (cost[2] * (IF mode = "solved_reuse" THEN 1 ELSE 2))

ReuseAvoided(avoided, rows, t) ==
  Total([x \in Summary(avoided, rows, t) |->
           x.avoided * EstimateAvoided(Cohort(rows, x.cluster), x.mode)])

-----------------------------------------------------------------------------
(* The ratios of one tenant *)

Input(rows) == Total([r \in rows |-> r.input])
Cached(rows) == Total([r \in rows |-> r.read])
Resent(rows) == Total([r \in rows |-> r.resent])
Tokens(rows) == Total([r \in rows |-> r.input + r.output])

\* tenant_vector: a tenant without priced spend has no ratio to cost.
TenantVector(rows, avoided, t) ==
  LET their == Scoped(rows, t)
      cost == Cost(their)
      saved == ReuseAvoided(avoided, rows, t)
      Spent(kinds) == Cost({r \in their : r.work \in kinds})
      OfCost(ratio) == IF cost = 0 THEN NotApplicable ELSE ratio
  IN [cost_per_1k_tokens |-> OfCost(Ratio(1000 * cost, Tokens(their))),
      cache_hit_ratio |-> Ratio(Cached(their), Cached(their) + Input(their)),
      cache_recoverable_share |->
        Ratio(Max({0, Resent(their) - Cached(their)}), Tokens(their)),
      orphan_share |-> Ratio(Tokens(Orphans(rows, t)), Tokens(their)),
      net_new_share |-> OfCost(Ratio(Spent(NetNew), cost)),
      maintenance_share |-> OfCost(Ratio(Spent(Maintenance), cost)),
      retry_rate |-> Ratio(Cardinality({r \in their : r.retry}), Cardinality(their)),
      reuse_share |-> OfCost(Ratio(saved, 100 * cost + saved))]

-----------------------------------------------------------------------------
(* The rank among those who have the ratio *)

\* mutant: everyone with the same ratio is left out with the tenant itself
OtherRatios(ratios, t) == {u \in DOMAIN ratios : ~Same(ratios[u], ratios[t])}
\* One occurrence of the tenant's own ratio is left out.
Rivals(ratios, t) == DOMAIN ratios \ {t}

\* _percentile_in, over twice the number of rivals: a win is two, a tie one.
Points(ratios, t, higher) ==
  LET rivals == Rivals(ratios, t)
      wins == {u \in rivals : IF higher THEN Below(ratios[u], ratios[t])
                                        ELSE Below(ratios[t], ratios[u])}
      ties == {u \in rivals : Same(ratios[u], ratios[t])}
  IN 2 * Cardinality(wins) + Cardinality(ties)

\* benchmark: every ratio of the qualifying tenants ...
Ratios(rows, avoided, cohort) ==
  LET vector == [t \in Qualifying(rows, cohort) |-> TenantVector(rows, avoided, t)]
      Having(m) == {t \in DOMAIN vector : vector[t][m] # NotApplicable}
  IN [m \in Metrics |-> [t \in Having(m) |-> vector[t][m]]]
\* ... and the rank of the focus by those that it has and is not alone with.
Comparison(ratios, focus) ==
  LET ranked == {m \in Metrics : focus \in DOMAIN ratios[m] /\ Cardinality(DOMAIN ratios[m]) > 1}
  IN [m \in ranked |-> Points(ratios[m], focus, HigherIsBetter[m])]
==============================================================================
