--------------------------- MODULE ReadPlaneProofs ---------------------------
(***************************************************************************)
(* What readers are shown, for any records, tenants and gate.              *)
(*                                                                         *)
(* The yield does not depend on the order in which events were booked.     *)
(* That is not inductive: what a summary says of the ledger alone does not *)
(* tell what the next booking makes of it.  The ledger COVERS the history: *)
(* it keeps, for each event, a row of the same key that is solved if the   *)
(* event was.  A summary reads keys and whether any row of a cluster is    *)
(* solved, so that it cannot tell a ledger from a history it covers.       *)
(*                                                                         *)
(* Nobody is shown less than a crowd, by an endpoint or by a report whose  *)
(* queries see different tables.  What the report has decided stays true   *)
(* because a scope only grows under it: inserts add rows with ids of their *)
(* own, and a claim only takes rows that no named tenant has.              *)
(*                                                                         *)
(* A budget that is over stays over for its month.  Each row of the spend  *)
(* is found again after a step, in a row of its own and at its cost; that  *)
(* this makes the sum no smaller is a theory of sums over finite sets.     *)
(*                                                                         *)
(* The ranks are fair.  Between two tenants two points are shared out, so  *)
(* that n of them have n * (n - 1) together; and whoever is ahead takes    *)
(* the points of the one behind and more, since being ahead is an order of *)
(* the ratios, which are fractions over more than nothing.                 *)
(***************************************************************************)
EXTENDS ReadPlane, FiniteSetTheorems, TLAPS

AsSolved(e, a) == e.mode = "solved_reuse" => a.mode = "solved_reuse"
Covers(ledger, events) ==
  /\ ledger \subseteq events
  /\ \A e \in events : \E a \in ledger : Key(a) = Key(e) /\ AsSolved(e, a)

YieldInv == booked \subseteq Events /\ Covers(avoided, booked)

Theirs(events, t) == {e \in events : t = Everyone \/ e.tenant = t}

\* A key is the four fields that a summary reads beside the mode.
LEMMA KeyFields ==
  ASSUME NEW a, NEW e, Key(a) = Key(e)
  PROVE  /\ a.tenant = e.tenant /\ a.pair = e.pair
         /\ a.objective = e.objective /\ a.work = e.work
  <1>1. /\ Key(a).tenant = a.tenant /\ Key(a).pair = a.pair
        /\ Key(a).objective = a.objective /\ Key(a).work = a.work
    BY DEF Key
  <1>2. /\ Key(e).tenant = e.tenant /\ Key(e).pair = e.pair
        /\ Key(e).objective = e.objective /\ Key(e).work = e.work
    BY DEF Key
  <1> QED BY <1>1, <1>2

\* Booking one more event keeps the ledger a cover of the history (ledger.py,
\* the upsert that only takes a row from live to solved).
LEMMA BookedCovers ==
  ASSUME NEW ledger, NEW events, events \subseteq Events, Covers(ledger, events),
         NEW e \in Events
  PROVE  Covers(Booked(ledger, e), events \cup {e})
  <1> DEFINE Settled(a) == /\ Key(a) = Key(e)
                           /\ ~(a.mode = "live_duplication" /\ e.mode = "solved_reuse")
  <1>1. CASE \E a \in ledger : Settled(a)
    <2>1. Booked(ledger, e) = ledger
      BY <1>1 DEF Booked
    <2>2. PICK a \in ledger : Settled(a)
      BY <1>1
    <2>3. a.mode \in {"live_duplication", "solved_reuse"}
      BY <2>2, ReadPlaneAssumption DEF Covers
    <2>4. Key(a) = Key(e) /\ AsSolved(e, a)
      BY <2>2, <2>3 DEF AsSolved
    <2> QED BY <2>1, <2>4 DEF Covers
  <1>2. CASE ~\E a \in ledger : Settled(a)
    <2> DEFINE kept == {a \in ledger : Key(a) # Key(e)}
    <2>1. Booked(ledger, e) = kept \cup {e}
      BY <1>2 DEF Booked
    <2>2. \A a \in ledger : Key(a) = Key(e) => e.mode = "solved_reuse"
      BY <1>2
    <2>3. ASSUME NEW f \in events
          PROVE  \E a \in kept \cup {e} : Key(a) = Key(f) /\ AsSolved(f, a)
      <3>1. PICK a \in ledger : Key(a) = Key(f) /\ AsSolved(f, a)
        BY DEF Covers
      <3>2. CASE Key(a) # Key(e)
        BY <3>1, <3>2
      <3>3. CASE Key(a) = Key(e)
        <4>1. AsSolved(f, e)
          BY <2>2, <3>3 DEF AsSolved
        <4> QED BY <3>1, <3>3, <4>1
      <3> QED BY <3>2, <3>3
    <2>4. AsSolved(e, e)
      BY DEF AsSolved
    <2> QED BY <2>1, <2>3, <2>4 DEF Covers
  <1> QED BY <1>1, <1>2

\* Of a cover and of what it covers a summary says the same (ledger.py summary:
\* a cluster's people and whether any of its rows is solved).
LEMMA CoverSumsUp ==
  ASSUME NEW ledger, NEW events, Covers(ledger, events), NEW rows, NEW t
  PROVE  Summary(ledger, rows, t) = Summary(events, rows, t)
  <1> DEFINE mine == Theirs(ledger, t)
             all == Theirs(events, t)
  <1>1. Covers(mine, all)
    <2>1. mine \subseteq all
      BY DEF Covers, Theirs
    <2>2. ASSUME NEW e \in all
          PROVE  \E a \in mine : Key(a) = Key(e) /\ AsSolved(e, a)
      <3>1. PICK a \in ledger : Key(a) = Key(e) /\ AsSolved(e, a)
        BY DEF Covers, Theirs
      <3>2. a.tenant = e.tenant
        BY <3>1, KeyFields
      <3> QED BY <3>1, <3>2 DEF Theirs
    <2> QED BY <2>1, <2>2 DEF Covers
  <1> DEFINE ClusterOf(e) == [tenant |-> e.tenant, objective |-> e.objective, work |-> e.work]
  <1>2. ClustersOf(mine) = ClustersOf(all)
    <2>1. ASSUME NEW e \in all
          PROVE  \E a \in mine : ClusterOf(a) = ClusterOf(e)
      <3>1. PICK a \in mine : Key(a) = Key(e)
        BY <1>1 DEF Covers
      <3> QED BY <3>1, KeyFields
    <2>2. /\ ClustersOf(mine) = {ClusterOf(e) : e \in mine}
          /\ ClustersOf(all) = {ClusterOf(e) : e \in all}
      BY DEF ClustersOf
    <2>3. mine \subseteq all
      BY <1>1 DEF Covers
    <2> HIDE DEF mine, all, ClusterOf
    <2> QED BY <2>1, <2>2, <2>3
  <1>3. ASSUME NEW c
        PROVE  Credit(mine, c) = Credit(all, c)
    <2> DEFINE its == {e \in mine : InCluster(e, c)}
               theirs == {e \in all : InCluster(e, c)}
    <2>1. its \subseteq theirs
      BY <1>1 DEF Covers
    <2>2. ASSUME NEW e \in theirs
          PROVE  \E a \in its : a.pair = e.pair /\ AsSolved(e, a)
      <3>1. PICK a \in mine : Key(a) = Key(e) /\ AsSolved(e, a)
        BY <1>1 DEF Covers
      <3>2. InCluster(a, c) /\ a.pair = e.pair
        BY <3>1, KeyFields DEF InCluster
      <3> QED BY <3>1, <3>2
    <2>3. UNION {e.pair : e \in its} = UNION {e.pair : e \in theirs}
      <3> HIDE DEF its, theirs
      <3> QED BY <2>1, <2>2
    <2>4. (\E e \in its : e.mode = "solved_reuse") <=> (\E e \in theirs : e.mode = "solved_reuse")
      <3> HIDE DEF its, theirs
      <3> QED BY <2>1, <2>2 DEF AsSolved
    <2> HIDE DEF mine, all
    <2> QED BY <2>3, <2>4 DEF Credit
  <1>4. /\ Summary(ledger, rows, t) =
             {x \in {Credit(mine, c) : c \in ClustersOf(mine)} :
                x.avoided > 0 /\ Cardinality(DOMAIN Cohort(rows, x.cluster)) >= K}
        /\ Summary(events, rows, t) =
             {x \in {Credit(all, c) : c \in ClustersOf(all)} :
                x.avoided > 0 /\ Cardinality(DOMAIN Cohort(rows, x.cluster)) >= K}
    BY DEF Summary, Theirs
  <1>5. {Credit(mine, c) : c \in ClustersOf(mine)} = {Credit(all, c) : c \in ClustersOf(all)}
    <2> HIDE DEF mine, all
    <2> QED BY <1>2, <1>3
  <1> HIDE DEF mine, all
  <1> QED BY <1>4, <1>5

\* The ledger covers what was ever booked: only a booking changes either.
LEMMA LedgerCovers == Spec => []YieldInv
  <1>1. Init => YieldInv
    BY DEF Init, YieldInv, Covers
  <1>2. ASSUME YieldInv, [Next]_vars
        PROVE  YieldInv'
    <2>1. CASE \E e \in Events : Book(e)
      <3>1. PICK e \in Events : Book(e)
        BY <2>1
      <3>2. avoided' = Booked(avoided, e) /\ booked' = booked \cup {e}
        BY <3>1 DEF Book
      <3>3. Covers(Booked(avoided, e), booked \cup {e})
        BY <1>2, BookedCovers DEF YieldInv
      <3> QED BY <1>2, <3>2, <3>3 DEF YieldInv
    <2>2. CASE UNCHANGED <<avoided, booked>>
      BY <1>2, <2>2 DEF YieldInv, Covers
    <2>3. [Next]_vars => (\E e \in Events : Book(e)) \/ UNCHANGED <<avoided, booked>>
      BY DEF Next, vars, Insert, Claim, Tick, StartReport, Rollups, OrgFigures, Bounds,
             PriorWindow, RecentWindow, Spent, PeriodActors, WorkTypes, Since,
             NewInitiatives, ReuseYield, Continue
    <2> QED BY <1>2, <2>1, <2>2, <2>3
  <1> QED BY <1>1, <1>2, PTL DEF Spec

\* The yield is what was ever booked makes it, in whatever order and however
\* often, for any records, events, tenants and gate (ledger.py).
THEOREM YieldIsOrderFree == Spec => []SummaryIsOrderFree
  <1>1. YieldInv => SummaryIsOrderFree
    BY CoverSumsUp DEF YieldInv, SummaryIsOrderFree
  <1> QED BY <1>1, LedgerCovers, PTL

-----------------------------------------------------------------------------
(* Crowds.  The gate counts developers of the rows it is given; what it    *)
(* lets through is about that many, and stays so when rows are added.      *)

\* A finite, nonempty set of times has a first and a last one.
LEMMA FirstAndLast ==
  ASSUME NEW S \in SUBSET Nat, IsFiniteSet(S), S # {}
  PROVE  /\ \E x \in S : \A y \in S : x <= y
         /\ \E x \in S : \A y \in S : x >= y
<1> DEFINE HasBoth(U) == /\ \E x \in U : \A y \in U : x <= y
                         /\ \E x \in U : \A y \in U : x >= y
           R == StrictSubsetOrdering(Nat)
           bad == {U \in FiniteSubsetsOf(Nat) : U # {} /\ ~HasBoth(U)}
<1>1. SUFFICES bad = {}
  BY DEF FiniteSubsetsOf
<1>2. SUFFICES ASSUME bad # {} PROVE FALSE
  OBVIOUS
<1>3. IsWellFoundedOn(R, FiniteSubsetsOf(Nat))
  BY FS_StrictSubsetOrderingWellFounded
<1>4. PICK U \in bad : \A V \in bad : ~(<<V, U>> \in R)
  <2>1. bad \subseteq FiniteSubsetsOf(Nat)
    OBVIOUS
  <2> HIDE DEF bad, R
  <2> QED BY <1>2, <1>3, <2>1, WFMin
<1>5. U \in SUBSET Nat /\ IsFiniteSet(U) /\ U # {} /\ ~HasBoth(U)
  BY DEF FiniteSubsetsOf
<1>6. PICK u \in U : TRUE
  BY <1>5
<1> DEFINE V == U \ {u}
<1>7. V \in SUBSET Nat /\ IsFiniteSet(V) /\ V # U /\ V \subseteq U
  BY <1>5, <1>6, FS_RemoveElement
<1>8. V = {} \/ HasBoth(V)
  <2>1. <<V, U>> \in R
    BY <1>5, <1>7 DEF StrictSubsetOrdering
  <2>2. V \notin bad
    BY <1>4, <2>1
  <2> QED BY <1>7, <2>2 DEF FiniteSubsetsOf
<1>9. u \in Nat /\ \A y \in U : y = u \/ y \in V
  BY <1>5, <1>6
<1>10. CASE V = {}
  <2>1. \A y \in U : y = u
    BY <1>9, <1>10
  <2> QED BY <1>5, <1>6, <1>9, <2>1
<1>11. CASE HasBoth(V)
  <2>1. PICK lo \in V : \A y \in V : lo <= y
    BY <1>11
  <2>2. PICK hi \in V : \A y \in V : hi >= y
    BY <1>11
  <2>3. lo \in Nat /\ hi \in Nat /\ lo \in U /\ hi \in U /\ V \in SUBSET Nat
    BY <1>7, <2>1, <2>2
  <2> HIDE DEF V
  <2>4. \E x \in U : \A y \in U : x <= y
    <3>1. CASE u <= lo
      BY <1>6, <1>9, <2>1, <2>3, <3>1
    <3>2. CASE ~(u <= lo)
      BY <1>6, <1>9, <2>1, <2>3, <3>2
    <3> QED BY <3>1, <3>2
  <2>5. \E x \in U : \A y \in U : x >= y
    <3>1. CASE u >= hi
      BY <1>6, <1>9, <2>2, <2>3, <3>1
    <3>2. CASE ~(u >= hi)
      BY <1>6, <1>9, <2>2, <2>3, <3>2
    <3> QED BY <3>1, <3>2
  <2> QED BY <1>5, <2>4, <2>5
<1> QED BY <1>8, <1>10, <1>11

\* The developers of finitely many rows are finitely many.
LEMMA FewDevelopers ==
  ASSUME NEW rows, IsFiniteSet(rows)
  PROVE  IsFiniteSet({r.actor : r \in rows}) /\ IsFiniteSet(Actors(rows))
<1> DEFINE A == {r.actor : r \in rows}
           f == [r \in rows |-> r.actor]
<1>1. f \in Surjection(rows, A)
  BY DEF Surjection
<1> HIDE DEF f, A
<1>2. IsFiniteSet(A)
  BY <1>1, FS_Surjection
<1>3. IsFiniteSet(A \ {Null})
  BY <1>2, FS_RemoveElement
<1> QED BY <1>2, <1>3 DEF A, Actors

\* The gate asks for somebody.
LEMMA KIs == K \in Nat \ {0}
BY ReportsAssumption

\* More rows, more developers.
LEMMA AllowsMore ==
  ASSUME NEW few, NEW many, few \subseteq many, IsFiniteSet(many), Allows(few)
  PROVE  Allows(many)
<1>1. Actors(few) \in SUBSET Actors(many)
  BY DEF Actors
<1>2. IsFiniteSet(Actors(many))
  BY FewDevelopers
<1>3. Cardinality(Actors(few)) <= Cardinality(Actors(many))
  BY <1>1, <1>2, FS_Subset
<1>4. Cardinality(Actors(few)) \in Nat /\ Cardinality(Actors(many)) \in Nat
  BY <1>1, <1>2, FS_Subset, FS_CardinalityType
<1> QED BY <1>3, <1>4, KIs DEF Allows

\* What the gate allows is about a crowd.
LEMMA AllowedIsACrowd ==
  ASSUME NEW rows, IsFiniteSet(rows), Allows(rows)
  PROVE  OfACrowd(rows)
<1> DEFINE A == {r.actor : r \in rows}
<1>1. IsFiniteSet(A) /\ Actors(rows) \in SUBSET A
  BY FewDevelopers DEF Actors
<1> HIDE DEF A
<1>2. Cardinality(Actors(rows)) <= Cardinality(A)
  BY <1>1, FS_Subset
<1>3. Cardinality(Actors(rows)) \in Nat /\ Cardinality(A) \in Nat
  BY <1>1, FS_Subset, FS_CardinalityType
<1> QED BY <1>2, <1>3, KIs DEF Allows, OfACrowd, A

\* The gated groups of a finite table, whatever they are grouped by.
LEMMA GatedIsCrowds ==
  ASSUME NEW table, IsFiniteSet(table), NEW groups, \A g \in groups : g.rows \subseteq table
  PROVE  \A rows \in Gated(groups) : OfACrowd(rows)
<1> SUFFICES ASSUME NEW g \in groups, Allows(g.rows) PROVE OfACrowd(g.rows)
  BY DEF Gated
<1>1. IsFiniteSet(g.rows)
  BY FS_Subset
<1> QED BY <1>1, AllowedIsACrowd

\* A group of a breakdown is rows of the table.
LEMMA RollupOfTable ==
  ASSUME NEW table, NEW dim, NEW t
  PROVE  \A g \in Rollup(table, dim, t) : g.rows \subseteq table
BY DEF Rollup, Grouped, Scoped

\* The purposes of the spend: unions of groups the gate allows.
LEMMA InvestmentIsCrowds ==
  ASSUME NEW table, IsFiniteSet(table), NEW groups, \A g \in groups : g.rows \subseteq table
  PROVE  \A rows \in Investment(groups) : OfACrowd(rows)
<1> SUFFICES ASSUME NEW p \in Purposes
             PROVE  OfACrowd(UNION {g.rows : g \in {h \in groups : Allows(h.rows) /\ PurposeOf(h.label) = p}})
  BY DEF Investment
<1> DEFINE some == {h \in groups : Allows(h.rows) /\ PurposeOf(h.label) = p}
           all == UNION {g.rows : g \in some}
<1>1. CASE some = {}
  <2>1. all = {}
    BY <1>1
  <2> QED BY <2>1 DEF OfACrowd
<1>2. CASE some # {}
  <2>1. PICK g \in some : Allows(g.rows)
    BY <1>2
  <2>2. g.rows \subseteq all /\ all \subseteq table
    BY <2>1
  <2>3. IsFiniteSet(all)
    BY <2>2, FS_Subset
  <2> HIDE DEF all, some
  <2>4. Allows(all)
    BY <2>1, <2>2, <2>3, AllowsMore
  <2> QED BY <2>3, <2>4, AllowedIsACrowd DEF all, some
<1> QED BY <1>1, <1>2

\* The windows of the trend are shown together, when both are crowds (drift.py).
LEMMA TrendIsCrowds ==
  ASSUME NEW prior, NEW recent, IsFiniteSet(prior), IsFiniteSet(recent)
  PROVE  \A rows \in TrendOf(prior, recent) : OfACrowd(rows)
BY AllowedIsACrowd DEF TrendOf

\* A credit is shown for a cohort of K, whose rows are the rows it is about.
LEMMA YieldIsCrowds ==
  ASSUME NEW table, IsFiniteSet(table), NEW ledger, NEW t, NEW x \in Summary(ledger, table, t)
  PROVE  OfACrowd(CohortRows(table, x.cluster))
<1> DEFINE c == x.cluster
           kinds == IF c.work \in {Null, "unknown"} THEN {Null, "unknown"} ELSE {c.work}
           their == {r \in Scoped(table, c.tenant) : r.objective = c.objective /\ r.work \in kinds}
           cohort == DOMAIN Cohort(table, c)
           rows == CohortRows(table, c)
           A == {r.actor : r \in rows}
<1>1. Cardinality(cohort) >= K
  BY DEF Summary
<1>2. cohort \subseteq {r.actor : r \in their}
  <2> DEFINE spent == [a \in {r.actor : r \in their} |-> Cost({r \in their : r.actor = a})]
  <2>1. Cohort(table, c) = [a \in {b \in DOMAIN spent : spent[b] # 0} |-> spent[a]]
    BY DEF Cohort, ActorCostsFor
  <2>2. DOMAIN spent = {r.actor : r \in their}
    OBVIOUS
  <2> HIDE DEF spent, their
  <2> QED BY <2>1, <2>2
<1>3. \A r \in their : r.actor \in cohort => r \in rows
  BY DEF CohortRows
<1>4. rows \subseteq table
  BY DEF CohortRows, Scoped
<1> HIDE DEF rows, their, cohort
<1>5. cohort \in SUBSET A
  BY <1>2, <1>3
<1>6. IsFiniteSet(A)
  BY <1>4, FS_Subset, FewDevelopers
<1> HIDE DEF A
<1>7. Cardinality(cohort) <= Cardinality(A)
  BY <1>5, <1>6, FS_Subset
<1>8. Cardinality(cohort) \in Nat /\ Cardinality(A) \in Nat
  BY <1>5, <1>6, FS_Subset, FS_CardinalityType
<1> QED BY <1>1, <1>7, <1>8, KIs DEF OfACrowd, A, rows

-----------------------------------------------------------------------------
(* The report of the command line.  What it keeps from one query to the    *)
(* next stays true of a table that only grows under it: a scope that       *)
(* cleared the gate still does, the rows there were at the bounds are      *)
(* still there, and on the side of the middle where they were.             *)

\* A row of the table is a record that arrived, or one that Claim gave a tenant,
\* and an event has one row.
Version(r, f) == r = f \/ (f \in Legacy /\ r = [f EXCEPT !.tenant = Home])
Table ==
  /\ IsFiniteSet(derived)
  /\ \A r \in derived : \E f \in Fact : Version(r, f)
  /\ \A r, s \in derived : r.id = s.id => r = s

\* What the figures of a report have passed.
Cleared ==
  /\ DOMAIN draft = DOMAIN NoDraft
  /\ draft.scope \in DOMAIN OrgOf \ {"default"}
  /\ draft.clears => Allows(Scoped(derived, draft.scope))
  /\ IsFiniteSet(draft.prior)
  /\ draft.at # "purposes" => \A rows \in shown : OfACrowd(rows)

\* Which rows the windows have taken.
Taken ==
  /\ draft.at \in {"prior", "recent"} =>
       /\ draft.bounds.lo \in Nat /\ draft.bounds.hi \in Nat
       /\ draft.kept \subseteq Scoped(derived, draft.scope)
       /\ \A r \in draft.kept : draft.bounds.lo <= r.at /\ r.at <= draft.bounds.hi
  /\ draft.at = "recent" =>
       /\ \A r \in draft.prior : r.at < Middle(draft.bounds)
       /\ \A r \in draft.kept : r.at < Middle(draft.bounds) => r \in draft.prior

ReadInv == now \in Nat /\ Table /\ Cleared /\ Taken

\* What a record has.
LEMMA FactFields ==
  ASSUME NEW f \in Fact
  PROVE  /\ {"id", "at", "actor", "tenant", "objective", "cost"} \subseteq DOMAIN f
         /\ f.at \in Nat /\ f.cost \in Nat
BY ReadPlaneAssumption DEF Columns, Amounts

\* Claiming a row changes its tenant and nothing else.
LEMMA VersionFields ==
  ASSUME NEW f \in Fact, NEW r, Version(r, f)
  PROVE  /\ r.id = f.id /\ r.at = f.at /\ r.actor = f.actor
         /\ r.objective = f.objective /\ r.cost = f.cost
BY FactFields DEF Version

\* A row's time is its record's.
LEMMA RowsAreTimed ==
  ASSUME Table, NEW r \in derived
  PROVE  r.at \in Nat /\ r.cost \in Nat
BY FactFields, VersionFields DEF Table

\* The process claims rows for a named tenant.
LEMMA HomeIs == Home \in DOMAIN OrgOf /\ Home # "default" /\ Home # Null /\ Home # Everyone
BY ReadPlaneAssumption

\* A scope other than the default one has the rows of its tenant.
LEMMA ScopeIs ==
  ASSUME NEW t \in DOMAIN OrgOf \ {"default"}, NEW rows
  PROVE  t # Null /\ Scoped(rows, t) = {r \in rows : r.tenant = t}
BY ReadPlaneAssumption DEF Scoped, InTenant

\* A scope is a part of the table.
LEMMA ScopeIsFinite ==
  ASSUME NEW rows, IsFiniteSet(rows), NEW t
  PROVE  IsFiniteSet(Scoped(rows, t)) /\ Scoped(rows, t) \subseteq rows
<1>1. Scoped(rows, t) \in SUBSET rows
  BY DEF Scoped
<1> QED BY <1>1, FS_Subset

\* An event is inserted once: a row of its id is the row it makes.
LEMMA InsertAdds ==
  ASSUME Table, NEW r \in Fact \ Legacy, Insert(r)
  PROVE  derived' = derived \cup {r} /\ \A x \in derived : x.id = r.id => x = r
<1>1. \A x \in derived : x.id = r.id => x = r
  <2> SUFFICES ASSUME NEW x \in derived, x.id = r.id PROVE x = r
    OBVIOUS
  <2>1. PICK f \in Fact : Version(x, f)
    BY DEF Table
  <2>2. f = r
    BY <2>1, VersionFields, ReadPlaneAssumption
  <2> QED BY <2>1, <2>2 DEF Version
<1>2. derived' = {x \in derived : x.id # r.id} \cup {r}
  BY DEF Insert, Inserted
<1> QED BY <1>1, <1>2

\* A claim gives the rows without a tenant to Home (store.py claim_null_tenant).
Moved(r) == IF r.tenant = Null THEN [r EXCEPT !.tenant = Home] ELSE r

LEMMA ClaimMoves ==
  ASSUME Claim
  PROVE  derived' = {Moved(r) : r \in derived}
BY HomeIs DEF Claim, Claimed, Moved

\* The rows without one are legacy records, and all else of them stays.
LEMMA MovedIs ==
  ASSUME Table, NEW r \in derived
  PROVE  /\ \E g \in Fact : Version(Moved(r), g)
         /\ Moved(r).id = r.id /\ Moved(r).at = r.at
         /\ Moved(r).objective = r.objective /\ Moved(r).cost = r.cost
<1>1. PICK g \in Fact : Version(r, g)
  BY DEF Table
<1>2. CASE r.tenant = Null
  <2>1. r = g
    BY <1>1, <1>2, FactFields, HomeIs DEF Version
  <2> QED BY <1>1, <1>2, <2>1, FactFields DEF Version, Legacy, Moved
<1>3. CASE r.tenant # Null
  BY <1>1, <1>3 DEF Moved
<1> QED BY <1>2, <1>3

\* No step takes a row out of a report's scope.
LEMMA ScopeGrows ==
  ASSUME Table, [Next]_vars, NEW t \in DOMAIN OrgOf \ {"default"}
  PROVE  Scoped(derived, t) \subseteq Scoped(derived', t)
<1>1. CASE \E r \in Fact \ Legacy : Insert(r)
  <2>1. derived \subseteq derived'
    BY <1>1, InsertAdds
  <2> QED BY <2>1, ScopeIs
<1>2. CASE Claim
  <2>1. \A r \in derived : r.tenant = t => r \in derived'
    BY <1>2, ClaimMoves, ScopeIs DEF Moved
  <2> QED BY <2>1, ScopeIs
<1>3. CASE UNCHANGED derived
  BY <1>3
<1>4. (\E r \in Fact \ Legacy : Insert(r)) \/ Claim \/ UNCHANGED derived
  BY DEF Next, vars, Book, Tick, StartReport, Rollups, OrgFigures, Bounds,
         PriorWindow, RecentWindow, Spent, PeriodActors, WorkTypes, Since,
         NewInitiatives, ReuseYield, Continue
<1> QED BY <1>1, <1>2, <1>3, <1>4

\* Every row goes back to a record, whatever happens.
LEMMA TableStays ==
  ASSUME Table, [Next]_vars
  PROVE  Table'
<1>1. CASE \E r \in Fact \ Legacy : Insert(r)
  <2>1. PICK r \in Fact \ Legacy : Insert(r)
    BY <1>1
  <2>2. derived' = derived \cup {r} /\ \A x \in derived : x.id = r.id => x = r
    BY <2>1, InsertAdds
  <2>3. IsFiniteSet(derived')
    BY <2>2, FS_AddElement DEF Table
  <2>4. Version(r, r)
    BY DEF Version
  <2> QED BY <2>2, <2>3, <2>4 DEF Table, Version
<1>2. CASE Claim
  <2> DEFINE f == [r \in derived |-> Moved(r)]
  <2>1. derived' = {Moved(r) : r \in derived}
    BY <1>2, ClaimMoves
  <2>2. f \in Surjection(derived, derived')
    BY <2>1 DEF Surjection
  <2>3. IsFiniteSet(derived')
    <3> HIDE DEF f
    <3> QED BY <2>2, FS_Surjection DEF Table
  <2>4. \A r, s \in derived : Moved(r).id = Moved(s).id => r = s
    BY MovedIs DEF Table
  <2>5. \A r \in derived : \E g \in Fact : Version(Moved(r), g)
    BY MovedIs
  <2> QED BY <2>1, <2>3, <2>4, <2>5 DEF Table, Version
<1>3. CASE UNCHANGED derived
  BY <1>3 DEF Table, Version
<1>4. (\E r \in Fact \ Legacy : Insert(r)) \/ Claim \/ UNCHANGED derived
  BY DEF Next, vars, Book, Tick, StartReport, Rollups, OrgFigures, Bounds,
         PriorWindow, RecentWindow, Spent, PeriodActors, WorkTypes, Since,
         NewInitiatives, ReuseYield, Continue
<1> QED BY <1>1, <1>2, <1>3, <1>4

\* The bounds of a scope are bounds of its rows (store.py time_bounds).
LEMMA BoundsAreBounds ==
  ASSUME Table, NEW t
  PROVE  LET bounds == TimeBounds(derived, t)
         IN /\ bounds.lo \in Nat /\ bounds.hi \in Nat
            /\ \A r \in Scoped(derived, t) : bounds.lo <= r.at /\ r.at <= bounds.hi
<1> DEFINE its == Scoped(derived, t)
           times == {r.at : r \in its}
           ats == times \cup IF its = {} THEN {0} ELSE {}
           f == [r \in its |-> r.at]
<1>1. IsFiniteSet(its) /\ its \subseteq derived
  BY ScopeIsFinite DEF Table
<1> HIDE DEF its
<1>2. f \in Surjection(its, times)
  BY DEF Surjection
<1>3. IsFiniteSet(times)
  <2> HIDE DEF f, times
  <2> QED BY <1>1, <1>2, FS_Surjection
<1>4. IsFiniteSet(ats)
  <2>1. ats = times \/ ats = times \cup {0}
    OBVIOUS
  <2> HIDE DEF ats, times
  <2> QED BY <1>3, <2>1, FS_AddElement
<1>5. ats \in SUBSET Nat /\ ats # {}
  BY <1>1, RowsAreTimed
<1>6. \A r \in its : r.at \in ats
  OBVIOUS
<1>7. TimeBounds(derived, t) = [lo |-> Min(ats), hi |-> Max(ats)]
  BY DEF TimeBounds, its
<1> HIDE DEF ats
<1>8. Min(ats) \in ats /\ \A y \in ats : Min(ats) <= y
  BY <1>4, <1>5, FirstAndLast DEF Min
<1>9. Max(ats) \in ats /\ \A y \in ats : Max(ats) >= y
  BY <1>4, <1>5, FirstAndLast DEF Max
<1>10. Min(ats) \in Nat /\ Max(ats) \in Nat
  BY <1>5, <1>8, <1>9
<1>11. \A r \in its : Min(ats) <= r.at /\ r.at <= Max(ats)
  BY <1>5, <1>6, <1>8, <1>9, <1>10
<1> QED BY <1>7, <1>10, <1>11 DEF its

\* The middle is a time.
LEMMA MiddleIs ==
  ASSUME NEW b, b.lo \in Nat, b.hi \in Nat
  PROVE  Middle(b) \in Int
BY DEF Middle

\* The windows of the trend from the rows as they are when each is asked for.
LEMMA WindowRows ==
  ASSUME NEW rows, NEW t, NEW b
  PROVE  /\ Prior(rows, t, b) = {r \in Scoped(rows, t) : r.at >= b.lo /\ r.at < Middle(b)}
         /\ Recent(rows, t, b) = {r \in Scoped(rows, t) : r.at >= Middle(b) /\ r.at < b.hi + 2}
BY DEF Prior, Recent, Window, Second

\* What a draft has.
LEMMA DraftFields ==
  DOMAIN NoDraft = {"at", "scope", "clears", "kept", "bounds", "prior", "asOf"}
BY DEF NoDraft

\* No query of the report: the rows may grow, what the report has is left alone.
LEMMA WriterKeeps ==
  ASSUME ReadInv, [Next]_vars, UNCHANGED <<draft, shown>>
  PROVE  Cleared' /\ Taken'
<1>1. draft.scope \in DOMAIN OrgOf \ {"default"}
  BY DEF ReadInv, Cleared
<1>2. Scoped(derived, draft.scope) \subseteq Scoped(derived', draft.scope)
  BY <1>1, ScopeGrows DEF ReadInv
<1>3. IsFiniteSet(Scoped(derived', draft.scope))
  BY TableStays, ScopeIsFinite DEF ReadInv, Table
<1>4. draft.clears => Allows(Scoped(derived', draft.scope))
  BY <1>2, <1>3, AllowsMore DEF ReadInv, Cleared
<1>5. Cleared'
  BY <1>4 DEF ReadInv, Cleared, OfACrowd
<1>6. Taken'
  BY <1>2 DEF ReadInv, Taken, Middle
<1> QED BY <1>5, <1>6

\* A query that takes no rows for the windows.
LEMMA QueryKeeps ==
  ASSUME NEW from, NEW to, NEW keep, NEW figures, Continue(from, to, keep, figures),
         DOMAIN keep = DOMAIN NoDraft,
         keep.scope \in DOMAIN OrgOf \ {"default"},
         keep.clears => Allows(Scoped(derived, keep.scope)),
         IsFiniteSet(keep.prior),
         to \notin {"prior", "recent"},
         to # "purposes" => \A rows \in figures : OfACrowd(rows)
  PROVE  Cleared' /\ Taken'
<1>1. draft' = [keep EXCEPT !.at = to] /\ shown' = figures /\ derived' = derived
  BY DEF Continue
<1>2. /\ DOMAIN draft' = DOMAIN NoDraft /\ draft'.at = to /\ draft'.scope = keep.scope
      /\ draft'.clears = keep.clears /\ draft'.prior = keep.prior
  BY <1>1, DraftFields
<1> QED BY <1>1, <1>2 DEF Cleared, Taken, OfACrowd

\* Nothing is finite.
LEMMA EmptyIsFinite == IsFiniteSet({})
BY FS_EmptySet

\* What a report has is true of its start.
LEMMA ReadInit == Init => ReadInv
<1> SUFFICES ASSUME Init PROVE ReadInv
  OBVIOUS
<1>1. derived \subseteq Fact /\ IsFiniteSet(derived)
  BY ReadPlaneAssumption DEF Init, Legacy
<1>2. Table
  <2>1. \A r, s \in derived : r.id = s.id => r = s
    BY <1>1, ReadPlaneAssumption
  <2> QED BY <1>1, <2>1 DEF Table, Version
<1>3. Cleared
  BY HomeIs, EmptyIsFinite DEF Init, Cleared, NoDraft
<1>4. Taken
  BY DEF Init, Taken, NoDraft
<1> QED BY <1>2, <1>3, <1>4 DEF ReadInv, Init

\* Writers grow the table; each query shows what passed the gate in its own state.
LEMMA ReadStep == ReadInv /\ [Next]_vars => ReadInv'
<1> SUFFICES ASSUME ReadInv, [Next]_vars PROVE ReadInv'
  OBVIOUS
<1>0. Table'
  BY TableStays DEF ReadInv
<1>n. now' \in Nat
  <2>1. Tick \/ UNCHANGED now
    BY DEF Next, vars, Insert, Book, Claim, StartReport, Rollups, OrgFigures, Bounds,
           PriorWindow, RecentWindow, Spent, PeriodActors, WorkTypes, Since,
           NewInitiatives, ReuseYield, Continue
  <2>2. now' = now + 2 \/ now' = now
    BY <2>1 DEF Tick, Second
  <2> QED BY <2>2 DEF ReadInv
<1>f. /\ IsFiniteSet(derived)
      /\ draft.scope \in DOMAIN OrgOf \ {"default"}
      /\ draft.clears => Allows(Scoped(derived, draft.scope))
      /\ DOMAIN draft = DOMAIN NoDraft
      /\ IsFiniteSet(draft.prior)
      /\ IsFiniteSet(Scoped(derived, draft.scope))
  BY ScopeIsFinite DEF ReadInv, Cleared, Table
<1>g. ASSUME NEW t, NEW dim
      PROVE  \A g \in Rollup(derived, dim, t) : g.rows \subseteq derived
  BY RollupOfTable
<1>1. ASSUME UNCHANGED <<draft, shown>> PROVE Cleared' /\ Taken'
  BY <1>1, WriterKeeps
<1>2. ASSUME NEW t \in DOMAIN OrgOf \ {"default"}, StartReport(t)
      PROVE  Cleared' /\ Taken'
  <2> DEFINE clears == Allows(Scoped(derived, t))
             keep == [NoDraft EXCEPT !.scope = t, !.clears = clears]
             figures == OrgScalars(clears, Scoped(derived, t))
  <2>1. Continue("none", "rollups", keep, figures)
    BY <1>2 DEF StartReport
  <2>2. /\ DOMAIN keep = DOMAIN NoDraft /\ keep.scope = t /\ keep.clears = clears
        /\ keep.prior = {}
    BY DEF NoDraft
  <2>3. \A rows \in figures : OfACrowd(rows)
    BY <1>f, ScopeIsFinite, AllowedIsACrowd DEF OrgScalars
  <2> HIDE DEF keep, figures
  <2> QED BY <2>1, <2>2, <2>3, QueryKeeps, EmptyIsFinite
<1>3. ASSUME Rollups PROVE Cleared' /\ Taken'
  <2> DEFINE figures == UNION {Gated(Rollup(derived, dim, draft.scope)) : dim \in Dimensions \ {"work"}}
  <2>1. Continue("rollups", "org_figures", draft, figures)
    BY <1>3 DEF Rollups
  <2>2. ASSUME NEW dim \in Dimensions
        PROVE  \A rows \in Gated(Rollup(derived, dim, draft.scope)) : OfACrowd(rows)
    BY <1>f, <1>g, GatedIsCrowds
  <2>3. \A rows \in figures : OfACrowd(rows)
    BY <2>2
  <2> HIDE DEF figures
  <2> QED BY <1>f, <2>1, <2>3, QueryKeeps
<1>4. ASSUME OrgFigures PROVE Cleared' /\ Taken'
  <2> DEFINE figures == OrgScalars(draft.clears, Scoped(derived, draft.scope))
  <2>1. Continue("org_figures", "bounds", draft, figures)
    BY <1>4 DEF OrgFigures
  <2>2. \A rows \in figures : OfACrowd(rows)
    BY <1>f, AllowedIsACrowd DEF OrgScalars
  <2> HIDE DEF figures
  <2> QED BY <1>f, <2>1, <2>2, QueryKeeps
<1>5. ASSUME Bounds PROVE Cleared' /\ Taken'
  <2> DEFINE bounds == TimeBounds(derived, draft.scope)
             its == Scoped(derived, draft.scope)
             to == IF bounds.hi <= bounds.lo THEN "spent" ELSE "prior"
  <2>1. /\ draft' = [[draft EXCEPT !.bounds = bounds, !.kept = its] EXCEPT !.at = to]
        /\ shown' = {} /\ derived' = derived
    BY <1>5 DEF Bounds, Continue
  <2>2. /\ bounds.lo \in Nat /\ bounds.hi \in Nat
        /\ \A r \in its : bounds.lo <= r.at /\ r.at <= bounds.hi
    BY BoundsAreBounds DEF ReadInv
  <2>3. to # "recent"
    OBVIOUS
  <2> HIDE DEF bounds, to
  <2>4. /\ DOMAIN draft' = DOMAIN NoDraft /\ draft'.at = to /\ draft'.scope = draft.scope
        /\ draft'.clears = draft.clears /\ draft'.prior = draft.prior
        /\ draft'.bounds = bounds /\ draft'.kept = its
    BY <1>f, <2>1, DraftFields
  <2>5. Cleared'
    BY <1>f, <2>1, <2>4 DEF Cleared
  <2> QED BY <2>1, <2>2, <2>3, <2>4, <2>5 DEF Taken
<1>6. ASSUME PriorWindow PROVE Cleared' /\ Taken'
  <2> DEFINE its == Scoped(derived, draft.scope)
             prior == Prior(derived, draft.scope, draft.bounds)
  <2>1. /\ draft.at = "prior"
        /\ draft' = [[draft EXCEPT !.prior = prior] EXCEPT !.at = "recent"]
        /\ shown' = {} /\ derived' = derived
    BY <1>6 DEF PriorWindow, Continue
  <2>2. prior = {r \in its : r.at >= draft.bounds.lo /\ r.at < Middle(draft.bounds)}
    BY WindowRows
  <2>3. prior \in SUBSET its
    BY <2>2
  <2>4. IsFiniteSet(prior)
    BY <1>f, <2>3, FS_Subset
  <2>5. /\ draft.bounds.lo \in Nat /\ draft.bounds.hi \in Nat /\ draft.kept \subseteq its
        /\ \A r \in draft.kept : draft.bounds.lo <= r.at /\ r.at <= draft.bounds.hi
    BY <2>1 DEF ReadInv, Taken
  <2>6. \A r \in draft.kept : r.at \in Nat
    BY <2>5, ScopeIsFinite, RowsAreTimed, <1>f DEF ReadInv
  <2>7. \A r \in draft.kept : r.at < Middle(draft.bounds) => r \in prior
    BY <2>2, <2>5, <2>6
  <2>8. \A r \in prior : r.at < Middle(draft.bounds)
    BY <2>2
  <2> HIDE DEF prior, its
  <2>9. /\ DOMAIN draft' = DOMAIN NoDraft /\ draft'.at = "recent" /\ draft'.scope = draft.scope
        /\ draft'.clears = draft.clears /\ draft'.prior = prior
        /\ draft'.bounds = draft.bounds /\ draft'.kept = draft.kept
    BY <1>f, <2>1, DraftFields
  <2>10. Cleared'
    BY <1>f, <2>1, <2>4, <2>9 DEF Cleared
  <2>11. Middle(draft.bounds)' = Middle(draft.bounds)
    BY <2>9 DEF Middle
  <2>12. Taken'
    BY <2>1, <2>5, <2>7, <2>8, <2>9, <2>11 DEF Taken, its
  <2> QED BY <2>10, <2>12
<1>7. ASSUME RecentWindow PROVE Cleared' /\ Taken'
  <2> DEFINE keep == [draft EXCEPT !.kept = {}, !.prior = {}]
             recent == Recent(derived, draft.scope, draft.bounds)
             figures == TrendOf(draft.prior, recent)
  <2>1. Continue("recent", "spent", keep, figures)
    BY <1>7 DEF RecentWindow
  <2>2. recent \in SUBSET Scoped(derived, draft.scope)
    BY WindowRows
  <2>3. IsFiniteSet(recent)
    BY <1>f, <2>2, FS_Subset
  <2>4. \A rows \in figures : OfACrowd(rows)
    BY <1>f, <2>3, TrendIsCrowds
  <2>5. /\ DOMAIN keep = DOMAIN NoDraft /\ keep.scope = draft.scope
        /\ keep.clears = draft.clears /\ keep.prior = {}
    BY <1>f, DraftFields
  <2> HIDE DEF keep, figures
  <2> QED BY <1>f, <2>1, <2>4, <2>5, QueryKeeps, EmptyIsFinite
<1>8. ASSUME Spent PROVE Cleared' /\ Taken'
  <2> DEFINE kept == UNION {BudgetRows(derived, o, draft.scope, now) : o \in Budgeted}
             keep == [draft EXCEPT !.asOf = now, !.bounds = NoDraft.bounds, !.kept = kept]
  <2>1. Continue("spent", "period_actors", keep, {})
    BY <1>8 DEF Spent
  <2>2. /\ DOMAIN keep = DOMAIN NoDraft /\ keep.scope = draft.scope
        /\ keep.clears = draft.clears /\ keep.prior = draft.prior
    BY <1>f, DraftFields
  <2> HIDE DEF keep
  <2> QED BY <1>f, <2>1, <2>2, QueryKeeps
<1>9. ASSUME PeriodActors PROVE Cleared' /\ Taken'
  <2> DEFINE keep == [draft EXCEPT !.kept = {}, !.asOf = 0]
  <2>1. Continue("period_actors", "purposes", keep, Lines(draft.kept))
    BY <1>9 DEF PeriodActors
  <2>2. /\ DOMAIN keep = DOMAIN NoDraft /\ keep.scope = draft.scope
        /\ keep.clears = draft.clears /\ keep.prior = draft.prior
    BY <1>f, DraftFields
  <2> HIDE DEF keep
  <2> QED BY <1>f, <2>1, <2>2, QueryKeeps
<1>10. ASSUME WorkTypes PROVE Cleared' /\ Taken'
  <2> DEFINE groups == Rollup(derived, "work", draft.scope)
             figures == Gated(groups) \cup Investment(groups)
  <2>1. Continue("purposes", "since", draft, figures)
    BY <1>10 DEF WorkTypes
  <2>2. \A rows \in figures : OfACrowd(rows)
    BY <1>f, <1>g, GatedIsCrowds, InvestmentIsCrowds
  <2> HIDE DEF figures
  <2> QED BY <1>f, <2>1, <2>2, QueryKeeps
<1>11. ASSUME Since PROVE Cleared' /\ Taken'
  <2> DEFINE keep == [draft EXCEPT !.bounds = TimeBounds(derived, draft.scope)]
  <2>1. Continue("since", "initiatives", keep, {})
    BY <1>11 DEF Since
  <2>2. /\ DOMAIN keep = DOMAIN NoDraft /\ keep.scope = draft.scope
        /\ keep.clears = draft.clears /\ keep.prior = draft.prior
    BY <1>f, DraftFields
  <2> HIDE DEF keep
  <2> QED BY <1>f, <2>1, <2>2, QueryKeeps
<1>12. ASSUME NewInitiatives PROVE Cleared' /\ Taken'
  <2> DEFINE keep == [draft EXCEPT !.bounds = NoDraft.bounds]
             news == NewObjectives(derived, Middle(draft.bounds), draft.scope)
  <2>1. Continue("initiatives", "yield", keep, Gated(news))
    BY <1>12 DEF NewInitiatives
  <2>2. /\ DOMAIN keep = DOMAIN NoDraft /\ keep.scope = draft.scope
        /\ keep.clears = draft.clears /\ keep.prior = draft.prior
    BY <1>f, DraftFields
  <2>3. \A g \in news : g.rows \subseteq derived
    BY <1>g DEF NewObjectives
  <2> HIDE DEF news
  <2>4. \A rows \in Gated(news) : OfACrowd(rows)
    BY <1>f, <2>3, GatedIsCrowds
  <2> HIDE DEF keep
  <2> QED BY <1>f, <2>1, <2>2, <2>4, QueryKeeps
<1>13. ASSUME ReuseYield PROVE Cleared' /\ Taken'
  <2> DEFINE figures == {CohortRows(derived, x.cluster) : x \in Summary(avoided, derived, draft.scope)}
  <2>1. Continue("yield", "none", NoDraft, figures)
    BY <1>13 DEF ReuseYield
  <2>2. \A rows \in figures : OfACrowd(rows)
    BY <1>f, YieldIsCrowds
  <2>3. NoDraft.scope = Home /\ NoDraft.clears = FALSE /\ NoDraft.prior = {}
    BY DEF NoDraft
  <2> HIDE DEF figures
  <2> QED BY <2>1, <2>2, <2>3, HomeIs, QueryKeeps, EmptyIsFinite
<1> QED
  BY <1>0, <1>n, <1>1, <1>2, <1>3, <1>4, <1>5, <1>6, <1>7, <1>8, <1>9, <1>10, <1>11, <1>12, <1>13
     DEF ReadInv, Next, vars, Insert, Book, Claim, Tick

\* So a report is right about the table, query after query.
LEMMA ReadHolds == Spec => []ReadInv
BY ReadInit, ReadStep, PTL DEF Spec

\* A report whose queries see different tables shows figures of k developers only,
\* the budget lines apart, whatever is inserted, booked or claimed in between
\* (reports.py management_report).
THEOREM TornReportsAreGated == Spec => []TornReportIsGated
<1>1. ReadInv => TornReportIsGated
  BY DEF ReadInv, Cleared, TornReportIsGated
<1> QED BY <1>1, ReadHolds, PTL

\* The two windows of the trend take every row there was at the bounds, and none
\* twice, for any records and interleaving (drift.py spend_trend).
THEOREM WindowsArePartitions == Spec => []WindowsPartition
<1>1. ReadInv => WindowsPartition
  <2> SUFFICES ASSUME ReadInv, draft.at = "recent"
               PROVE  LET recent == Recent(derived, draft.scope, draft.bounds)
                      IN draft.prior \cap recent = {} /\ draft.kept \subseteq draft.prior \cup recent
    BY DEF WindowsPartition
  <2> DEFINE recent == Recent(derived, draft.scope, draft.bounds)
             mid == Middle(draft.bounds)
             its == Scoped(derived, draft.scope)
  <2>1. /\ draft.bounds.lo \in Nat /\ draft.bounds.hi \in Nat /\ draft.kept \subseteq its
        /\ \A r \in draft.kept : draft.bounds.lo <= r.at /\ r.at <= draft.bounds.hi
        /\ \A r \in draft.prior : r.at < mid
        /\ \A r \in draft.kept : r.at < mid => r \in draft.prior
    BY DEF ReadInv, Taken
  <2>2. mid \in Int
    BY <2>1, MiddleIs
  <2>3. recent = {r \in its : r.at >= mid /\ r.at < draft.bounds.hi + 2}
    BY WindowRows
  <2>4. \A r \in its : r.at \in Nat
    BY RowsAreTimed, ScopeIsFinite DEF ReadInv, Table
  <2> HIDE DEF mid, its, recent
  <2>5. \A r \in draft.prior : r \notin recent
    BY <2>1, <2>2, <2>3, <2>4
  <2>6. \A r \in draft.kept : r \in draft.prior \/ r \in recent
    BY <2>1, <2>2, <2>3, <2>4
  <2> QED BY <2>5, <2>6 DEF recent
<1> QED BY <1>1, ReadHolds, PTL

-----------------------------------------------------------------------------
(* The endpoints.  Each answers from one state of a finite table.          *)

\* A caller's own rows, whichever of them.
LEMMA OwnRows ==
  ASSUME NEW a, a # Null, NEW rows, \A r \in rows : r.actor = a
  PROVE  OfACrowd(rows) \/ Actors(rows) = {a}
BY DEF OfACrowd, Actors

\* What every principal may ask for: own rows (server.py /api/me, cli.py me, calls).
LEMMA OwnAnswers ==
  ASSUME NEW who, who.actor # Null,
         NEW rows \in MeFigures(who) \cup MySpend(who) \cup TodayFigures(who)
                      \cup CallPages(who) \cup KnowledgeGraph(who)
  PROVE  OfACrowd(rows) \/ Actors(rows) = {who.actor}
<1> SUFFICES \A r \in rows : r.actor = who.actor
  BY OwnRows
<1>1. CASE rows \in MeFigures(who) \cup MySpend(who) \cup TodayFigures(who)
  BY <1>1 DEF MeFigures, MySpend, TodayFigures, DeveloperReport, OnDevice, Own
<1>2. CASE rows \in CallPages(who)
  <2>1. PICK o : \E byCost \in BOOLEAN : rows \in RecentRecords(derived, who.actor, 0, o, byCost, 1)
    BY <1>2 DEF CallPages
  <2>2. rows \subseteq Own(derived, who.actor, 0)
    BY <2>1 DEF RecentRecords, FirstRows
  <2> QED BY <2>2 DEF Own
<1>3. CASE rows \in KnowledgeGraph(who)
  <2> DEFINE device == OnDevice(derived, who.actor)
  <2>1. rows = device \/ \E dim \in Dimensions : \E g \in Rollup(device, dim, Everyone) : rows = g.rows
    BY <1>3 DEF KnowledgeGraph, Graph
  <2>2. rows \subseteq device
    <3> HIDE DEF device
    <3> QED BY <2>1, RollupOfTable
  <2> QED BY <2>2 DEF OnDevice
<1> QED BY <1>1, <1>2, <1>3

\* The trend of one state (drift.py spend_trend).
LEMMA TableTrendIsCrowds ==
  ASSUME NEW table, IsFiniteSet(table), NEW t
  PROVE  \A rows \in SpendTrend(table, t) : OfACrowd(rows)
<1> DEFINE b == TimeBounds(table, t)
           prior == Prior(table, t, b)
           recent == Recent(table, t, b)
<1>1. IsFiniteSet(Scoped(table, t))
  BY ScopeIsFinite
<1>2. prior \in SUBSET Scoped(table, t) /\ recent \in SUBSET Scoped(table, t)
  BY WindowRows
<1>3. SpendTrend(table, t) \subseteq TrendOf(prior, recent)
  BY DEF SpendTrend
<1> HIDE DEF prior, recent
<1>4. IsFiniteSet(prior) /\ IsFiniteSet(recent)
  BY <1>1, <1>2, FS_Subset
<1> QED BY <1>3, <1>4, TrendIsCrowds

\* /api/report, part by part (reports.py management_report).
LEMMA ReportIsCrowds ==
  ASSUME IsFiniteSet(derived), NEW t
  PROVE  \A rows \in ReportFigures(t) : OfACrowd(rows)
<1> DEFINE news == NewObjectives(derived, Middle(TimeBounds(derived, t)), t)
           Lined(b) == BudgetRows(derived, b, t, now)
           lines == {Lined(o) : o \in {b \in Budgeted : Lined(b) = {} \/ Allows(Lined(b))}}
           work == Rollup(derived, "work", t)
<1>1. \A rows \in OrgScalars(Allows(Scoped(derived, t)), Scoped(derived, t)) : OfACrowd(rows)
  BY ScopeIsFinite, AllowedIsACrowd DEF OrgScalars
<1>2. \A dim \in Dimensions : \A rows \in Gated(Rollup(derived, dim, t)) : OfACrowd(rows)
  BY RollupOfTable, GatedIsCrowds
<1>3. \A rows \in SpendTrend(derived, t) : OfACrowd(rows)
  BY TableTrendIsCrowds
<1>4. ASSUME NEW rows \in lines
      PROVE  OfACrowd(rows)
  <2>1. PICK o \in Budgeted : rows = Lined(o) /\ (Lined(o) = {} \/ Allows(Lined(o)))
    OBVIOUS
  <2>2. Lined(o) \in SUBSET derived
    BY DEF BudgetRows, ObjectiveWindow, Window, Scoped
  <2> HIDE DEF Lined
  <2>3. IsFiniteSet(Lined(o))
    BY <2>2, FS_Subset
  <2> QED BY <2>1, <2>3, AllowedIsACrowd DEF OfACrowd
<1>5. \A rows \in Investment(work) : OfACrowd(rows)
  BY RollupOfTable, InvestmentIsCrowds
<1>6. \A rows \in Gated(news) : OfACrowd(rows)
  <2>1. \A g \in news : g.rows \subseteq derived
    BY RollupOfTable DEF NewObjectives
  <2> HIDE DEF news
  <2> QED BY <2>1, GatedIsCrowds
<1> DEFINE scalars == OrgScalars(Allows(Scoped(derived, t)), Scoped(derived, t))
           groups == UNION {Gated(Rollup(derived, dim, t)) : dim \in Dimensions}
<1>7. ReportFigures(t) = scalars \cup groups \cup SpendTrend(derived, t) \cup lines
                         \cup Investment(work) \cup Gated(news)
  BY DEF ReportFigures
<1>8. \A rows \in groups : OfACrowd(rows)
  BY <1>2
<1> HIDE DEF news, lines, work, scalars, groups
<1>9. \A rows \in scalars \cup groups \cup SpendTrend(derived, t) \cup lines
                 \cup Investment(work) \cup Gated(news) : OfACrowd(rows)
  BY <1>1, <1>3, <1>4, <1>5, <1>6, <1>8 DEF scalars
<1> QED BY <1>7, <1>9

\* Parts of the table that the gate allows.
LEMMA AllowedPartIsACrowd ==
  ASSUME NEW table, IsFiniteSet(table), NEW rows \in SUBSET table, Allows(rows)
  PROVE  OfACrowd(rows)
BY FS_Subset, AllowedIsACrowd

\* The other endpoints that are gated, one case for each (server.py).
LEMMA OtherAnswers ==
  ASSUME IsFiniteSet(derived), NEW who, NEW t,
         NEW rows \in SavingsFigures(t) \cup OrphanFigures(t) \cup NegotiationFigures(t)
                      \cup DriftFigures(t) \cup RollupFigures(t) \cup ExportFigures(t)
                      \cup BenchmarkView(who, t)
  PROVE  OfACrowd(rows)
<1>1. CASE rows \in SavingsFigures(t)
  BY <1>1, YieldIsCrowds DEF SavingsFigures
<1>2. CASE rows \in OrphanFigures(t)
  <2>1. PICK page \in OrphanSamples(derived, t, SampleLimit) : rows \in Proposals(page)
    BY <1>2 DEF OrphanFigures
  <2>2. page \subseteq derived
    BY DEF OrphanSamples, FirstRows, Orphans, Scoped
  <2>3. rows \subseteq page /\ Allows(rows)
    BY <2>1 DEF Proposals
  <2> QED BY <2>2, <2>3, AllowedPartIsACrowd
<1>3. CASE rows \in NegotiationFigures(t)
  <2>1. Allows(Scoped(derived, t))
    BY <1>3 DEF NegotiationFigures, NegotiationPack
  <2>2. rows = Scoped(derived, t) \/ \E d \in {"provider", "model"} : rows \in Gated(Rollup(derived, d, t))
    BY <1>3, <2>1 DEF NegotiationFigures, NegotiationPack
  <2> QED BY <2>1, <2>2, ScopeIsFinite, AllowedPartIsACrowd, RollupOfTable, GatedIsCrowds
<1>4. CASE rows \in DriftFigures(t)
  BY <1>4, TableTrendIsCrowds DEF DriftFigures
<1>5. CASE rows \in RollupFigures(t)
  BY <1>5, RollupOfTable, GatedIsCrowds DEF RollupFigures
<1>6. CASE rows \in ExportFigures(t)
  BY <1>6, RollupOfTable, AllowedPartIsACrowd DEF ExportFigures
<1>7. CASE rows \in BenchmarkView(who, t)
  <2>1. PICK u : rows = Scoped(derived, u) /\ Allows(Scoped(derived, u))
    BY <1>7 DEF BenchmarkView, BenchmarkFigures, Qualifying
  <2> QED BY <2>1, ScopeIsFinite, AllowedPartIsACrowd
<1> QED BY <1>1, <1>2, <1>3, <1>4, <1>5, <1>6, <1>7

\* Every gated answer, to any principal about any tenant, is about the caller's own
\* rows or about k developers at least, in every state of the table (rbac.py,
\* reports.py, server.py).
THEOREM OthersAreCrowds == Spec => []OthersOnlyInCrowds
<1>1. ReadInv => OthersOnlyInCrowds
  <2> SUFFICES ASSUME ReadInv, NEW who \in Principals, NEW t \in DOMAIN OrgOf,
                      NEW rows \in Answers(who, t)
               PROVE  OfACrowd(rows) \/ Actors(rows) = {who.actor}
    BY DEF OthersOnlyInCrowds
  <2>1. IsFiniteSet(derived) /\ who.actor # Null
    BY ReadPlaneAssumption DEF ReadInv, Table
  <2>2. \/ rows \in MeFigures(who) \cup MySpend(who) \cup TodayFigures(who)
                    \cup CallPages(who) \cup KnowledgeGraph(who)
        \/ rows \in ReportFigures(t)
        \/ rows \in SavingsFigures(t) \cup OrphanFigures(t) \cup NegotiationFigures(t)
                    \cup DriftFigures(t) \cup RollupFigures(t) \cup ExportFigures(t)
                    \cup BenchmarkView(who, t)
    BY DEF Answers
  <2> QED BY <2>1, <2>2, OwnAnswers, ReportIsCrowds, OtherAnswers
<1> QED BY <1>1, ReadHolds, PTL

-----------------------------------------------------------------------------
(* Sums.  A fold over a set takes its elements in an order of its own; that *)
(* the order does not matter is what makes it a sum.  A MEASURE gives each *)
(* subset of S a number, such that an element adds its weight.  There is   *)
(* one, it is the only one, and every fold is it.                          *)

\* T is the measure of the subsets of S by the weights w.
Measure(T, w, S) ==
  /\ T \in [SUBSET S -> Nat]
  /\ T[{}] = 0
  /\ \A U \in SUBSET S : \A x \in U : T[U] = w[x] + T[U \ {x}]

\* That an element adds its weight, alone.
Adds(T, w, S) == \A U \in SUBSET S : \A x \in U : T[U] = w[x] + T[U \ {x}]

\* How the folds of the library go through a set.
Fold(T, w, S) ==
  \A U \in SUBSET S :
    T[U] = IF U = {} THEN 0 ELSE w[CHOOSE x \in U : TRUE] + T[U \ {CHOOSE x \in U : TRUE}]

\* A smallest one among some finite sets.
LEMMA SmallestSet ==
  ASSUME NEW S, IsFiniteSet(S), NEW bad \in SUBSET (SUBSET S), bad # {}
  PROVE  \E U \in bad : \A V : V \subseteq U /\ V # U => V \notin bad
<1> DEFINE R == StrictSubsetOrdering(S)
<1>1. IsWellFoundedOn(R, FiniteSubsetsOf(S))
  BY FS_StrictSubsetOrderingWellFounded
<1>2. bad \subseteq FiniteSubsetsOf(S)
  BY FS_Subset DEF FiniteSubsetsOf
<1>3. PICK U \in bad : \A V \in bad : ~(<<V, U>> \in R)
  <2> HIDE DEF R
  <2> QED BY <1>1, <1>2, WFMin
<1>0. U \subseteq S
  OBVIOUS
<1>4. \A V : V \subseteq U /\ V # U => <<V, U>> \in R
  BY <1>0 DEF StrictSubsetOrdering
<1> HIDE DEF R
<1>5. \A V : V \subseteq U /\ V # U => V \notin bad
  BY <1>3, <1>4
<1> QED BY <1>5

\* A fold is a measure: two elements can be taken out in either order.
LEMMA FoldIsMeasure ==
  ASSUME NEW S, IsFiniteSet(S), NEW w \in [S -> Nat], NEW T, Fold(T, w, S),
         T = [U \in SUBSET S |-> T[U]]
  PROVE  Measure(T, w, S)
<1> DEFINE Good(U) == T[U] \in Nat /\ \A x \in U : T[U] = w[x] + T[U \ {x}]
           bad == {U \in SUBSET S : ~Good(U)}
<1>1. bad = {}
  <2> SUFFICES ASSUME bad # {} PROVE FALSE
    OBVIOUS
  <2>0. bad \in SUBSET (SUBSET S)
    OBVIOUS
  <2>1. PICK U \in bad : \A V : V \subseteq U /\ V # U => V \notin bad
    <3> HIDE DEF bad
    <3> QED BY <2>0, SmallestSet
  <2>2. U \in SUBSET S /\ ~Good(U)
    BY <2>1
  <2>3. \A V : V \subseteq U /\ V # U => V \in SUBSET S /\ Good(V)
    BY <2>1, <2>2
  <2>4. U # {}
    <3>1. {} \in SUBSET S /\ T[{}] = 0
      BY DEF Fold
    <3>2. Good({})
      BY <3>1
    <3> HIDE DEF Good
    <3> QED BY <2>2, <3>2
  <2> DEFINE c == CHOOSE x \in U : TRUE
  <2>5. c \in U
    BY <2>4
  <2>6. T[U] = w[c] + T[U \ {c}]
    BY <2>2, <2>4 DEF Fold
  <2> HIDE DEF c
  <2>7. \A x \in U : w[x] \in Nat /\ T[U \ {x}] \in Nat
    BY <2>2, <2>3
  <2>8. T[U] \in Nat
    <3>1. w[c] \in Nat /\ T[U \ {c}] \in Nat
      BY <2>5, <2>7
    <3> QED BY <2>6, <3>1
  <2>9. ASSUME NEW x \in U PROVE T[U] = w[x] + T[U \ {x}]
    <3>1. CASE x = c
      BY <2>6, <3>1
    <3>2. CASE x # c
      <4> DEFINE rest == (U \ {c}) \ {x}
      <4>1. rest = (U \ {x}) \ {c} /\ c \in U \ {x} /\ x \in U \ {c}
        BY <2>5, <3>2
      <4>2. T[U \ {c}] = w[x] + T[rest]
        BY <2>3, <2>5, <4>1
      <4>3. T[U \ {x}] = w[c] + T[rest]
        <5>1. Good(U \ {x})
          BY <2>3
        <5> QED BY <4>1, <5>1
      <4>4. rest \subseteq U /\ rest # U
        BY <2>5
      <4>5. T[rest] \in Nat
        BY <2>3, <4>4
      <4> HIDE DEF rest
      <4> QED BY <2>5, <2>6, <2>7, <4>2, <4>3, <4>5
    <3> QED BY <3>1, <3>2
  <2> QED BY <2>2, <2>8, <2>9
<1>2. T[{}] = 0
  BY DEF Fold
<1>3. T \in [SUBSET S -> Nat]
  BY <1>1
<1> QED BY <1>1, <1>2, <1>3 DEF Measure

\* A measure is what a fold computes.
LEMMA MeasureIsFold ==
  ASSUME NEW S, NEW w, NEW T, Measure(T, w, S)
  PROVE  Fold(T, w, S)
BY DEF Fold, Measure

\* There is one: with one element more, the subsets that have it weigh so much more.
LEMMA MeasureExists ==
  ASSUME NEW S, IsFiniteSet(S), NEW w \in [S -> Nat]
  PROVE  \E T : Measure(T, w, S)
<1> DEFINE bad == {U \in SUBSET S : ~\E T : Measure(T, w, U)}
<1>1. bad = {}
  <2> SUFFICES ASSUME bad # {} PROVE FALSE
    OBVIOUS
  <2>0. bad \in SUBSET (SUBSET S)
    OBVIOUS
  <2>1. PICK U \in bad : \A V : V \subseteq U /\ V # U => V \notin bad
    <3> HIDE DEF bad
    <3> QED BY <2>0, SmallestSet
  <2>2. U \in SUBSET S /\ ~\E T : Measure(T, w, U)
    BY <2>1
  <2>3. U # {}
    <3>1. SUBSET {} = {{}}
      OBVIOUS
    <3>2. Measure([V \in {{}} |-> 0], w, {})
      BY <3>1 DEF Measure
    <3> QED BY <2>2, <3>2
  <2>4. PICK x \in U : TRUE
    BY <2>3
  <2> DEFINE V == U \ {x}
  <2>5. V \subseteq U /\ V # U /\ V \in SUBSET S
    BY <2>2, <2>4
  <2>6. PICK T : Measure(T, w, V)
    BY <2>1, <2>5
  <2> DEFINE T2 == [W \in SUBSET U |-> IF x \in W THEN w[x] + T[W \ {x}] ELSE T[W]]
  <2>7. \A W \in SUBSET U : W \ {x} \in SUBSET V /\ (x \notin W => W \in SUBSET V)
    OBVIOUS
  <2>8. w[x] \in Nat
    BY <2>2, <2>4
  <2>9. \A W \in SUBSET V : T[W] \in Nat /\ \A y \in W : T[W] = w[y] + T[W \ {y}]
    BY <2>6 DEF Measure
  <2> HIDE DEF V
  <2>10. T2 \in [SUBSET U -> Nat]
    BY <2>7, <2>8, <2>9
  <2>11. T2[{}] = 0
    BY <2>6 DEF Measure
  <2>12. ASSUME NEW W \in SUBSET U, NEW y \in W
         PROVE  T2[W] = w[y] + T2[W \ {y}]
    <3>1. CASE y = x
      <4>1. W \ {y} \in SUBSET U /\ x \notin W \ {y}
        BY <3>1
      <4> QED BY <3>1, <4>1
    <3>2. CASE y # x /\ x \in W
      <4>1. W \ {y} \in SUBSET U /\ x \in W \ {y}
        BY <3>2
      <4>2. T2[W] = w[x] + T[W \ {x}] /\ T2[W \ {y}] = w[x] + T[(W \ {y}) \ {x}]
        BY <3>2, <4>1
      <4>3. W \ {x} \in SUBSET V /\ y \in W \ {x} /\ (W \ {x}) \ {y} = (W \ {y}) \ {x}
        BY <2>7, <3>2
      <4>4. T[W \ {x}] = w[y] + T[(W \ {y}) \ {x}]
        BY <2>9, <4>3
      <4>5. (W \ {y}) \ {x} \in SUBSET V
        BY <2>7, <4>1
      <4>6. T[(W \ {y}) \ {x}] \in Nat /\ w[y] \in Nat
        BY <2>2, <2>9, <4>5
      <4> HIDE DEF T2
      <4> QED BY <2>8, <4>2, <4>4, <4>6
    <3>3. CASE x \notin W
      <4>1. W \in SUBSET V /\ W \ {y} \in SUBSET U /\ x \notin W \ {y}
        BY <2>7, <3>3
      <4>2. T2[W] = T[W] /\ T2[W \ {y}] = T[W \ {y}]
        BY <3>3, <4>1
      <4> QED BY <2>9, <4>1, <4>2
    <3> QED BY <3>1, <3>2, <3>3
  <2>13. Measure(T2, w, U)
    <3> HIDE DEF T2
    <3> QED BY <2>10, <2>11, <2>12 DEF Measure
  <2> QED BY <2>2, <2>13
<1> QED BY <1>1

\* Two measures by the same weights are one.
LEMMA MeasureIsUnique ==
  ASSUME NEW S, IsFiniteSet(S), NEW w,
         NEW T1, Adds(T1, w, S), NEW T2, Adds(T2, w, S), T1[{}] = T2[{}]
  PROVE  \A U \in SUBSET S : T1[U] = T2[U]
<1> DEFINE bad == {U \in SUBSET S : T1[U] # T2[U]}
<1> SUFFICES ASSUME bad # {} PROVE FALSE
  OBVIOUS
<1>0. bad \in SUBSET (SUBSET S)
  OBVIOUS
<1>1. PICK U \in bad : \A V : V \subseteq U /\ V # U => V \notin bad
  <2> HIDE DEF bad
  <2> QED BY <1>0, SmallestSet
<1>2. U \in SUBSET S /\ T1[U] # T2[U]
  BY <1>1
<1>3. PICK x \in U : TRUE
  BY <1>2
<1>4. U \ {x} \in SUBSET S /\ U \ {x} \subseteq U /\ U \ {x} # U
  BY <1>2, <1>3
<1>5. T1[U \ {x}] = T2[U \ {x}]
  BY <1>1, <1>4
<1> QED BY <1>2, <1>3, <1>5 DEF Adds

\* A sum over a finite set of rows is a measure of it.
LEMMA CostIsMeasure ==
  ASSUME NEW rows, IsFiniteSet(rows), \A r \in rows : r.cost \in Nat
  PROVE  \E T : Measure(T, [r \in rows |-> r.cost], rows) /\ Cost(rows) = T[rows]
<1> DEFINE w == [r \in rows |-> r.cost]
           Rec(T) == T = [s \in SUBSET rows |-> IF s = {} THEN 0
                            ELSE LET x == CHOOSE x \in s : TRUE IN x.cost + T[s \ {x}]]
           iter[s \in SUBSET rows] == IF s = {} THEN 0
                            ELSE LET x == CHOOSE x \in s : TRUE IN x.cost + iter[s \ {x}]
<1>1. Cost(rows) = iter[rows]
  BY DEF Cost, MapThenSumSet, MapThenFoldSet
<1>2. w \in [rows -> Nat]
  OBVIOUS
<1>3. PICK T : Measure(T, w, rows)
  <2> HIDE DEF w
  <2> QED BY <1>2, MeasureExists
<1>4. Fold(T, w, rows) /\ T = [s \in SUBSET rows |-> T[s]]
  <2> HIDE DEF w
  <2> QED BY <1>3, MeasureIsFold DEF Measure
<1>5. ASSUME NEW F, Fold(F, w, rows), F = [s \in SUBSET rows |-> F[s]]
      PROVE  Rec(F)
  <2>1. ASSUME NEW s \in SUBSET rows
        PROVE  F[s] = IF s = {} THEN 0 ELSE LET x == CHOOSE x \in s : TRUE IN x.cost + F[s \ {x}]
    <3> DEFINE c == CHOOSE x \in s : TRUE
    <3>1. s # {} => c \in rows
      OBVIOUS
    <3>2. F[s] = IF s = {} THEN 0 ELSE w[c] + F[s \ {c}]
      BY <1>5 DEF Fold
    <3> HIDE DEF c
    <3>3. F[s] = IF s = {} THEN 0 ELSE c.cost + F[s \ {c}]
      BY <3>1, <3>2
    <3> QED BY <3>3 DEF c
  <2> QED BY <1>5, <2>1
<1>6. Rec(iter)
  <2>1. iter = CHOOSE F : Rec(F)
    OBVIOUS
  <2>2. Rec(T)
    BY <1>4, <1>5
  <2> HIDE DEF iter, Rec
  <2> QED BY <2>1, <2>2
<1> HIDE DEF iter
<1>7. Fold(iter, w, rows)
  <2>1. ASSUME NEW s \in SUBSET rows
        PROVE  iter[s] = IF s = {} THEN 0 ELSE w[CHOOSE x \in s : TRUE] + iter[s \ {CHOOSE x \in s : TRUE}]
    <3> DEFINE c == CHOOSE x \in s : TRUE
    <3>1. s # {} => c \in rows
      OBVIOUS
    <3>2. iter[s] = IF s = {} THEN 0 ELSE c.cost + iter[s \ {c}]
      BY <1>6
    <3> HIDE DEF c
    <3>3. iter[s] = IF s = {} THEN 0 ELSE w[c] + iter[s \ {c}]
      BY <3>1, <3>2
    <3> QED BY <3>3 DEF c
  <2> QED BY <2>1 DEF Fold
<1>8. iter = [s \in SUBSET rows |-> iter[s]]
  BY <1>6
<1>9. Measure(iter, w, rows)
  <2> HIDE DEF w
  <2> QED BY <1>2, <1>7, <1>8, FoldIsMeasure
<1> QED BY <1>1, <1>9

\* More elements, more of the sum.
LEMMA MeasureGrows ==
  ASSUME NEW S, IsFiniteSet(S), NEW w \in [S -> Nat], NEW T, Measure(T, w, S), NEW U \in SUBSET S
  PROVE  T[U] <= T[S]
<1> DEFINE bad == {V \in SUBSET S : U \subseteq V /\ ~(T[U] <= T[V])}
<1>1. bad = {}
  <2> SUFFICES ASSUME bad # {} PROVE FALSE
    OBVIOUS
  <2>0. bad \in SUBSET (SUBSET S)
    OBVIOUS
  <2>1. PICK V \in bad : \A W : W \subseteq V /\ W # V => W \notin bad
    <3> HIDE DEF bad
    <3> QED BY <2>0, SmallestSet
  <2>2. V \in SUBSET S /\ U \subseteq V /\ ~(T[U] <= T[V])
    BY <2>1
  <2>3. T[U] \in Nat
    BY DEF Measure
  <2>4. PICK x \in V : x \notin U
    BY <2>2, <2>3
  <2>5. V \ {x} \subseteq V /\ V \ {x} # V /\ V \ {x} \in SUBSET S /\ U \subseteq V \ {x}
    BY <2>2, <2>4
  <2>6. T[U] <= T[V \ {x}]
    BY <2>1, <2>5
  <2>7. T[V] = w[x] + T[V \ {x}] /\ w[x] \in Nat /\ T[V \ {x}] \in Nat
    BY <2>2, <2>4, <2>5 DEF Measure
  <2> QED BY <2>2, <2>3, <2>6, <2>7
<1>2. S \in SUBSET S /\ S \notin bad
  BY <1>1
<1> QED BY <1>2

\* Each row's cost found again in a row of its own: the sum is not less.
LEMMA CostGrows ==
  ASSUME NEW few, IsFiniteSet(few), NEW many, IsFiniteSet(many),
         \A r \in few : r.cost \in Nat, \A r \in many : r.cost \in Nat,
         NEW f \in [few -> many], \A r, s \in few : f[r] = f[s] => r = s,
         \A r \in few : f[r].cost = r.cost
  PROVE  Cost(few) \in Nat /\ Cost(many) \in Nat /\ Cost(few) <= Cost(many)
<1> DEFINE w == [r \in few |-> r.cost]
           v == [r \in many |-> r.cost]
           img(U) == {f[r] : r \in U}
<1>1. PICK T1 : Measure(T1, w, few) /\ Cost(few) = T1[few]
  BY CostIsMeasure
<1>2. PICK T : Measure(T, v, many) /\ Cost(many) = T[many]
  BY CostIsMeasure
<1> DEFINE T2 == [U \in SUBSET few |-> T[img(U)]]
<1>3. w \in [few -> Nat] /\ v \in [many -> Nat] /\ \A r \in few : v[f[r]] = w[r]
  OBVIOUS
<1>4. \A U \in SUBSET few : img(U) \in SUBSET many
  OBVIOUS
<1>5. ASSUME NEW U \in SUBSET few, NEW r \in U
      PROVE  T2[U] = w[r] + T2[U \ {r}]
  <2>1. img(U \ {r}) = img(U) \ {f[r]} /\ f[r] \in img(U)
    OBVIOUS
  <2>2. U \ {r} \in SUBSET few /\ img(U) \in SUBSET many /\ r \in few
    OBVIOUS
  <2> HIDE DEF img, w, v
  <2>3. T[img(U)] = v[f[r]] + T[img(U) \ {f[r]}]
    BY <1>2, <2>1, <2>2 DEF Measure
  <2> QED BY <1>3, <2>1, <2>2, <2>3
<1>6. T2[{}] = T1[{}]
  <2>1. img({}) = {} /\ {} \in SUBSET few
    OBVIOUS
  <2> HIDE DEF img
  <2> QED BY <1>1, <1>2, <2>1 DEF Measure
<1>7. Adds(T1, w, few) /\ Adds(T2, w, few)
  <2> HIDE DEF T2, w
  <2> QED BY <1>1, <1>5 DEF Measure, Adds
<1> HIDE DEF T2, w, v, img
<1>8. \A U \in SUBSET few : T1[U] = T2[U]
  BY <1>6, <1>7, MeasureIsUnique
<1>9. T1[few] = T[img(few)]
  BY <1>8 DEF T2
<1>10. T[img(few)] <= T[many]
  BY <1>2, <1>3, <1>4, MeasureGrows
<1>11. T1[few] \in Nat /\ T[many] \in Nat
  BY <1>1, <1>2 DEF Measure
<1> QED BY <1>1, <1>2, <1>9, <1>10, <1>11

-----------------------------------------------------------------------------
(* The budgets: within a month the rows of a budget are found again, each  *)
(* with its cost, whatever is inserted and claimed.                        *)

\* The rows a budget's spend is the sum of (budget.py, budget_status).
LEMMA BudgetRowsAre ==
  ASSUME NEW rows, NEW o, NEW time
  PROVE  BudgetRows(rows, o, Everyone, time)
           = {r \in rows : r.at >= MonthStart(time) /\ r.at < time + 2 /\ r.objective = o}
BY DEF BudgetRows, ObjectiveWindow, Window, Scoped, InTenant, Second

\* When a budget is over (budget.py, budget_status).
LEMMA OverIs ==
  ASSUME NEW rows, NEW o \in Budgeted, NEW time
  PROVE  EdgeSnapshot(rows, time)[o] = "over"
           <=> Cost(BudgetRows(rows, o, Everyone, time)) >= Monthly[o]
BY DEF EdgeSnapshot, BudgetStatus, Status

\* No step takes from the spend of the month: an insert adds a row, and a claim
\* changes neither the cost, nor the time, nor the objective of one.
LEMMA SpendGrows ==
  ASSUME Table, Table', now \in Nat, now' \in Nat, [Next]_vars,
         now \div Month = now' \div Month, NEW o
  PROVE  LET few == BudgetRows(derived, o, Everyone, now)
             many == BudgetRows(derived', o, Everyone, now')
         IN Cost(few) \in Nat /\ Cost(many) \in Nat /\ Cost(few) <= Cost(many)
<1> DEFINE few == BudgetRows(derived, o, Everyone, now)
           many == BudgetRows(derived', o, Everyone, now')
           start == MonthStart(now)
<1>1. /\ few = {r \in derived : r.at >= start /\ r.at < now + 2 /\ r.objective = o}
      /\ many = {r \in derived' : r.at >= start /\ r.at < now' + 2 /\ r.objective = o}
  <2>1. MonthStart(now') = start
    BY DEF MonthStart
  <2> QED BY <2>1, BudgetRowsAre
<1>2. few \in SUBSET derived /\ many \in SUBSET derived'
  BY <1>1
<1>3. IsFiniteSet(few) /\ IsFiniteSet(many)
  BY <1>2, FS_Subset DEF Table
<1>4. \A r \in derived : r.at \in Nat /\ r.cost \in Nat
  BY RowsAreTimed
<1>5. \A r \in derived' : r.at \in Nat /\ r.cost \in Nat
  BY FactFields, VersionFields DEF Table, Version
<1>6. now <= now'
  <2>1. Tick \/ UNCHANGED now
    BY DEF Next, vars, Insert, Book, Claim, StartReport, Rollups, OrgFigures, Bounds,
           PriorWindow, RecentWindow, Spent, PeriodActors, WorkTypes, Since,
           NewInitiatives, ReuseYield, Continue
  <2>2. now' = now + 2 \/ now' = now
    BY <2>1 DEF Tick, Second
  <2> QED BY <2>2
<1>7. \E f \in [derived -> derived'] :
        \A r, s \in derived : /\ f[r] = f[s] => r = s
                              /\ f[r].at = r.at /\ f[r].cost = r.cost /\ f[r].objective = r.objective
  <2>1. CASE derived \subseteq derived'
    <3>1. [r \in derived |-> r] \in [derived -> derived']
      BY <2>1
    <3> QED BY <3>1
  <2>2. CASE Claim
    <3> DEFINE f == [r \in derived |-> Moved(r)]
    <3>1. f \in [derived -> derived']
      BY <2>2, ClaimMoves
    <3>2. \A r, s \in derived : f[r] = f[s] => r = s
      BY MovedIs DEF Table
    <3>3. \A r \in derived : f[r].at = r.at /\ f[r].cost = r.cost /\ f[r].objective = r.objective
      BY MovedIs
    <3> HIDE DEF f
    <3> QED BY <3>1, <3>2, <3>3
  <2>3. derived \subseteq derived' \/ Claim
    <3>1. (\E r \in Fact \ Legacy : Insert(r)) \/ Claim \/ UNCHANGED derived
      BY DEF Next, vars, Book, Tick, StartReport, Rollups, OrgFigures, Bounds,
             PriorWindow, RecentWindow, Spent, PeriodActors, WorkTypes, Since,
             NewInitiatives, ReuseYield, Continue
    <3>2. CASE \E r \in Fact \ Legacy : Insert(r)
      BY <3>2, InsertAdds
    <3> QED BY <3>1, <3>2
  <2> QED BY <2>1, <2>2, <2>3
<1>8. PICK f \in [derived -> derived'] :
        \A r, s \in derived : /\ f[r] = f[s] => r = s
                              /\ f[r].at = r.at /\ f[r].cost = r.cost /\ f[r].objective = r.objective
  BY <1>7
<1> DEFINE g == [r \in few |-> f[r]]
<1>9. \A r \in few : f[r] \in many
  <2> SUFFICES ASSUME NEW r \in few PROVE f[r] \in many
    OBVIOUS
  <2>1. r \in derived /\ r.at >= start /\ r.at < now + 2 /\ r.objective = o
    BY <1>1
  <2>2. f[r] \in derived' /\ f[r].at = r.at /\ f[r].objective = o
    BY <1>8, <2>1
  <2>3. r.at < now' + 2
    BY <1>4, <1>6, <2>1
  <2> QED BY <1>1, <2>1, <2>2, <2>3
<1> HIDE DEF few, many
<1>10. /\ g \in [few -> many]
       /\ \A r, s \in few : g[r] = g[s] => r = s
       /\ \A r \in few : g[r].cost = r.cost
  BY <1>2, <1>8, <1>9
<1>11. (\A r \in few : r.cost \in Nat) /\ (\A r \in many : r.cost \in Nat)
  BY <1>2, <1>4, <1>5
<1> HIDE DEF g
<1> QED BY <1>3, <1>10, <1>11, CostGrows DEF few, many

\* Within a month, an objective whose budget is over stays over (budget.py).
THEOREM OverBudgetsStayOver == Spec => OverStaysOver
<1> DEFINE Stays == now \div Month = now' \div Month =>
              \A o \in Budgeted : EdgeSnapshot(derived, now)[o] = "over"
                                  => EdgeSnapshot(derived', now')[o] = "over"
<1>1. ReadInv /\ ReadInv' /\ [Next]_vars => [Stays]_vars
  <2> SUFFICES ASSUME ReadInv, ReadInv', [Next]_vars, now \div Month = now' \div Month,
                      NEW o \in Budgeted, EdgeSnapshot(derived, now)[o] = "over"
               PROVE  EdgeSnapshot(derived', now')[o] = "over"
    OBVIOUS
  <2> DEFINE few == Cost(BudgetRows(derived, o, Everyone, now))
             many == Cost(BudgetRows(derived', o, Everyone, now'))
  <2>1. few \in Nat /\ many \in Nat /\ few <= many
    BY SpendGrows DEF ReadInv
  <2>2. Monthly[o] \in Nat /\ few >= Monthly[o]
    BY OverIs, ReportsAssumption DEF Budgeted
  <2>3. many >= Monthly[o]
    BY <2>1, <2>2
  <2> QED BY <2>3, OverIs
<1> QED BY <1>1, ReadHolds, PTL DEF Spec, OverStaysOver

-----------------------------------------------------------------------------
(* Totals over a finite set, and who takes what from whom in a round of    *)
(* comparisons: all of them together take what there is to take.           *)

\* The total of a function is a measure of its domain.
LEMMA TotalIsMeasure ==
  ASSUME NEW S, IsFiniteSet(S), NEW w \in [S -> Nat]
  PROVE  \E T : Measure(T, w, S) /\ Total(w) = T[S]
<1> DEFINE Rec(T) == T = [s \in SUBSET S |-> IF s = {} THEN 0
                            ELSE LET x == CHOOSE x \in s : TRUE IN w[x] + T[s \ {x}]]
           iter[s \in SUBSET S] == IF s = {} THEN 0
                            ELSE LET x == CHOOSE x \in s : TRUE IN w[x] + iter[s \ {x}]
<1>1. Total(w) = iter[S]
  <2>1. DOMAIN w = S
    OBVIOUS
  <2>2. Total(w) = MapThenFoldSet(+, 0, LAMBDA x : w[x], LAMBDA s : CHOOSE x \in s : TRUE, DOMAIN w)
    BY DEF Total, FoldFunction, FoldFunctionOnSet
  <2> QED BY <2>1, <2>2 DEF MapThenFoldSet
<1>2. PICK T : Measure(T, w, S)
  BY MeasureExists
<1>3. Fold(T, w, S) /\ T = [s \in SUBSET S |-> T[s]]
  BY <1>2, MeasureIsFold DEF Measure
<1>4. Rec(T)
  BY <1>3 DEF Fold
<1>5. Rec(iter)
  <2>1. iter = CHOOSE F : Rec(F)
    OBVIOUS
  <2> HIDE DEF iter, Rec
  <2> QED BY <2>1, <1>4
<1> HIDE DEF iter
<1>6. Fold(iter, w, S) /\ iter = [s \in SUBSET S |-> iter[s]]
  BY <1>5 DEF Fold
<1>7. Measure(iter, w, S)
  BY <1>6, FoldIsMeasure
<1> QED BY <1>1, <1>7

\* A total is any measure's by the same weights, and a number.
LEMMA TotalIs ==
  ASSUME NEW S, IsFiniteSet(S), NEW w \in [S -> Nat],
         NEW T, T[{}] = 0, \A U \in SUBSET S : \A x \in U : T[U] = w[x] + T[U \ {x}]
  PROVE  Total(w) = T[S] /\ Total(w) \in Nat
<1>1. PICK M : Measure(M, w, S) /\ Total(w) = M[S]
  BY TotalIsMeasure
<1>2. M[S] \in Nat
  BY <1>1 DEF Measure
<1>3. \A U \in SUBSET S : M[U] = T[U]
  <2>1. Adds(M, w, S) /\ Adds(T, w, S) /\ M[{}] = T[{}]
    BY <1>1 DEF Measure, Adds
  <2> QED BY <2>1, MeasureIsUnique
<1> QED BY <1>1, <1>2, <1>3

LEMMA TotalIsNat ==
  ASSUME NEW S, IsFiniteSet(S), NEW w \in [S -> Nat]
  PROVE  Total(w) \in Nat
<1>1. PICK M : Measure(M, w, S) /\ Total(w) = M[S]
  BY TotalIsMeasure
<1>2. M[S] \in Nat
  BY <1>1 DEF Measure
<1> QED BY <1>1, <1>2

\* One element taken out.
LEMMA TotalTakes ==
  ASSUME NEW S, IsFiniteSet(S), NEW w \in [S -> Nat], NEW x \in S
  PROVE  Total(w) = w[x] + Total([s \in S \ {x} |-> w[s]])
<1> DEFINE V == S \ {x}
           v == [s \in V |-> w[s]]
<1>1. PICK M : Measure(M, w, S) /\ Total(w) = M[S]
  BY TotalIsMeasure
<1>2. IsFiniteSet(V) /\ v \in [V -> Nat]
  BY FS_RemoveElement
<1>3. M[{}] = 0 /\ \A U \in SUBSET V : \A y \in U : M[U] = v[y] + M[U \ {y}]
  BY <1>1 DEF Measure
<1>4. Total(v) = M[V]
  <2> HIDE DEF V, v
  <2> QED BY <1>2, <1>3, TotalIs
<1>5. M[S] = w[x] + M[V]
  BY <1>1 DEF Measure
<1> QED BY <1>1, <1>4, <1>5

\* The total of nothing.
LEMMA TotalOfNothing ==
  ASSUME NEW w \in [{} -> Nat]
  PROVE  Total(w) = 0
BY TotalIsMeasure, FS_EmptySet DEF Measure

\* Totals add up.
LEMMA TotalsAdd ==
  ASSUME NEW S, IsFiniteSet(S), NEW w \in [S -> Nat], NEW v \in [S -> Nat]
  PROVE  Total([s \in S |-> w[s] + v[s]]) = Total(w) + Total(v)
<1>1. PICK M : Measure(M, w, S) /\ Total(w) = M[S]
  BY TotalIsMeasure
<1>2. PICK N : Measure(N, v, S) /\ Total(v) = N[S]
  BY TotalIsMeasure
<1> DEFINE both == [s \in S |-> w[s] + v[s]]
           T == [U \in SUBSET S |-> M[U] + N[U]]
<1>3. both \in [S -> Nat]
  OBVIOUS
<1>4. T[{}] = 0
  BY <1>1, <1>2 DEF Measure
<1>5. ASSUME NEW U \in SUBSET S, NEW x \in U
      PROVE  T[U] = both[x] + T[U \ {x}]
  <2>1. U \ {x} \in SUBSET S /\ both[x] = w[x] + v[x] /\ w[x] \in Nat /\ v[x] \in Nat
    OBVIOUS
  <2>2. M[U] = w[x] + M[U \ {x}] /\ N[U] = v[x] + N[U \ {x}]
    BY <1>1, <1>2 DEF Measure
  <2>3. M[U \ {x}] \in Nat /\ N[U \ {x}] \in Nat
    BY <1>1, <1>2, <2>1 DEF Measure
  <2>4. T[U] = M[U] + N[U] /\ T[U \ {x}] = M[U \ {x}] + N[U \ {x}]
    BY <2>1
  <2> HIDE DEF T, both
  <2> QED BY <2>1, <2>2, <2>3, <2>4
<1>6. Total(both) = T[S]
  <2>1. \A U \in SUBSET S : \A x \in U : T[U] = both[x] + T[U \ {x}]
    BY <1>5
  <2> HIDE DEF T, both
  <2>2. \A X : X[{}] = 0 /\ (\A U \in SUBSET S : \A x \in U : X[U] = both[x] + X[U \ {x}])
                => Total(both) = X[S]
    BY <1>3, TotalIs
  <2> QED BY <1>4, <2>1, <2>2
<1>7. T[S] = M[S] + N[S]
  OBVIOUS
<1> QED BY <1>1, <1>2, <1>6, <1>7

\* Two for each of some, and one for each of others.
LEMMA TotalCounts ==
  ASSUME NEW S, IsFiniteSet(S), NEW A \in SUBSET S, NEW B \in SUBSET S, A \cap B = {},
         NEW w \in [S -> Nat],
         \A s \in S : w[s] = IF s \in A THEN 2 ELSE IF s \in B THEN 1 ELSE 0
  PROVE  Total(w) = 2 * Cardinality(A) + Cardinality(B)
<1> DEFINE T == [U \in SUBSET S |-> 2 * Cardinality(U \cap A) + Cardinality(U \cap B)]
<1>1. T[{}] = 0
  BY FS_EmptySet
<1>2. ASSUME NEW U \in SUBSET S, NEW x \in U
      PROVE  T[U] = w[x] + T[U \ {x}]
  <2> DEFINE a == U \cap A
             b == U \cap B
  <2>1. /\ IsFiniteSet(a) /\ IsFiniteSet(b)
        /\ Cardinality(a) \in Nat /\ Cardinality(b) \in Nat
    BY FS_Subset, FS_CardinalityType
  <2>2. (U \ {x}) \cap A = a \ {x} /\ (U \ {x}) \cap B = b \ {x}
    OBVIOUS
  <2>3. /\ T[U] = 2 * Cardinality(a) + Cardinality(b)
        /\ T[U \ {x}] = 2 * Cardinality(a \ {x}) + Cardinality(b \ {x})
    BY <2>2
  <2>4. /\ x \in a <=> x \in A
        /\ x \in b <=> x \in B
    OBVIOUS
  <2>5. w[x] = IF x \in a THEN 2 ELSE IF x \in b THEN 1 ELSE 0
    BY <2>4
  <2>6. ~(x \in a /\ x \in b)
    BY <2>4
  <2> HIDE DEF T, a, b
  <2>7. /\ Cardinality(a \ {x}) = IF x \in a THEN Cardinality(a) - 1 ELSE Cardinality(a)
        /\ Cardinality(b \ {x}) = IF x \in b THEN Cardinality(b) - 1 ELSE Cardinality(b)
    BY <2>1, FS_RemoveElement
  <2> QED BY <2>1, <2>3, <2>5, <2>6, <2>7
<1>3. Total(w) = T[S]
  <2> HIDE DEF T
  <2>1. \A U \in SUBSET S : \A x \in U : T[U] = w[x] + T[U \ {x}]
    BY <1>2
  <2>2. \A X : X[{}] = 0 /\ (\A U \in SUBSET S : \A x \in U : X[U] = w[x] + X[U \ {x}])
                => Total(w) = X[S]
    BY TotalIs
  <2> QED BY <1>1, <2>1, <2>2
<1>4. S \cap A = A /\ S \cap B = B
  OBVIOUS
<1> QED BY <1>3, <1>4

\* What t takes from the others of U.
Takings(c, U) == [t \in U |-> Total([u \in U \ {t} |-> c[t][u]])]

\* In a round of comparisons in each of which two points are shared, n take
\* n (n - 1) points.
LEMMA PointsOfARound ==
  ASSUME NEW S, IsFiniteSet(S), NEW c \in [S -> [S -> Nat]],
         \A t, u \in S : t # u => c[t][u] + c[u][t] = 2
  PROVE  Total(Takings(c, S)) = Cardinality(S) * (Cardinality(S) - 1)
<1> DEFINE Fair(U) == Total(Takings(c, U)) = Cardinality(U) * (Cardinality(U) - 1)
           bad == {U \in SUBSET S : ~Fair(U)}
<1>0. ASSUME NEW U \in SUBSET S
      PROVE  /\ Takings(c, U) \in [U -> Nat]
             /\ \A t \in U : [u \in U \ {t} |-> c[t][u]] \in [U \ {t} -> Nat]
  <2>1. \A t \in U : [u \in U \ {t} |-> c[t][u]] \in [U \ {t} -> Nat] /\ IsFiniteSet(U \ {t})
    BY FS_Subset, FS_RemoveElement
  <2>2. \A t \in U : Total([u \in U \ {t} |-> c[t][u]]) \in Nat
    BY <2>1, TotalIsNat
  <2> QED BY <2>1, <2>2 DEF Takings
<1>1. bad = {}
  <2> SUFFICES ASSUME bad # {} PROVE FALSE
    OBVIOUS
  <2>0. bad \in SUBSET (SUBSET S)
    OBVIOUS
  <2>1. PICK U \in bad : \A V : V \subseteq U /\ V # U => V \notin bad
    <3> HIDE DEF bad
    <3> QED BY <2>0, SmallestSet
  <2>2. U \in SUBSET S /\ ~Fair(U) /\ IsFiniteSet(U)
    BY <2>1, FS_Subset
  <2>3. U # {}
    <3>1. Takings(c, {}) \in [{} -> Nat] /\ Cardinality({}) = 0
      BY <1>0, FS_EmptySet
    <3>2. Fair({})
      BY <3>1, TotalOfNothing
    <3> QED BY <2>2, <3>2
  <2>4. PICK x \in U : TRUE
    BY <2>3
  <2> DEFINE V == U \ {x}
             gives == [t \in V |-> c[t][x]]
             takes == [t \in V |-> c[x][t]]
             rest == Takings(c, V)
  <2>5. V \in SUBSET S /\ IsFiniteSet(V) /\ V \subseteq U /\ V # U
    BY <2>2, <2>4, FS_RemoveElement
  <2>6. Fair(V)
    BY <2>1, <2>5
  <2>7. gives \in [V -> Nat] /\ takes \in [V -> Nat] /\ rest \in [V -> Nat]
    BY <1>0, <2>2, <2>4, <2>5
  <2>8. \A t \in V : Takings(c, U)[t] = gives[t] + rest[t]
    <3> SUFFICES ASSUME NEW t \in V PROVE Takings(c, U)[t] = gives[t] + rest[t]
      OBVIOUS
    <3> DEFINE W == U \ {t}
               row == [u \in W |-> c[t][u]]
    <3>1. IsFiniteSet(W) /\ row \in [W -> Nat] /\ x \in W /\ t \in U
      BY <1>0, <2>2, <2>4, FS_RemoveElement
    <3>2. Total(row) = row[x] + Total([u \in W \ {x} |-> row[u]])
      <4> HIDE DEF row, W
      <4>1. \A y \in W : Total(row) = row[y] + Total([u \in W \ {y} |-> row[u]])
        BY <3>1, TotalTakes
      <4> QED BY <3>1, <4>1
    <3>3. W \ {x} = V \ {t} /\ row[x] = gives[t]
      BY <3>1
    <3>4. [u \in W \ {x} |-> row[u]] = [u \in V \ {t} |-> c[t][u]]
      BY <3>3
    <3>5. Takings(c, U)[t] = Total(row) /\ rest[t] = Total([u \in V \ {t} |-> c[t][u]])
      BY <3>1 DEF Takings
    <3> HIDE DEF row, W, V, gives, rest
    <3> QED BY <3>2, <3>3, <3>4, <3>5
  <2>9. Takings(c, U)[x] = Total(takes)
    BY <2>4 DEF Takings
  <2>10. Total(Takings(c, U)) = Total(takes) + Total([t \in V |-> gives[t] + rest[t]])
    <3>1. Total(Takings(c, U)) = Takings(c, U)[x] + Total([t \in V |-> Takings(c, U)[t]])
      <4> DEFINE p == Takings(c, U)
      <4>1. p \in [U -> Nat]
        BY <1>0, <2>2
      <4> HIDE DEF p
      <4>2. \A y \in U : Total(p) = p[y] + Total([t \in U \ {y} |-> p[t]])
        BY <2>2, <4>1, TotalTakes
      <4> QED BY <2>4, <4>2 DEF p
    <3>2. [t \in V |-> Takings(c, U)[t]] = [t \in V |-> gives[t] + rest[t]]
      BY <2>8
    <3> HIDE DEF takes, gives, rest, V
    <3> QED BY <2>9, <3>1, <3>2
  <2>11. Total([t \in V |-> gives[t] + rest[t]]) = Total(gives) + Total(rest)
    <3> HIDE DEF takes, gives, rest, V
    <3> QED BY <2>5, <2>7, TotalsAdd
  <2>12. Total(gives) + Total(takes) = 2 * Cardinality(V)
    <3> DEFINE both == [t \in V |-> gives[t] + takes[t]]
    <3>1. Total(both) = Total(gives) + Total(takes)
      <4> HIDE DEF takes, gives, V
      <4> QED BY <2>5, <2>7, TotalsAdd
    <3>2. both \in [V -> Nat] /\ \A t \in V : both[t] = 2
      BY <2>2, <2>4, <2>5
    <3>3. Total(both) = 2 * Cardinality(V) + Cardinality({})
      <4>1. /\ V \in SUBSET V /\ {} \in SUBSET V /\ V \cap {} = {}
            /\ \A t \in V : both[t] = IF t \in V THEN 2 ELSE IF t \in {} THEN 1 ELSE 0
        BY <3>2
      <4> HIDE DEF both, V
      <4> QED BY <2>5, <3>2, <4>1, TotalCounts
    <3>4. Cardinality({}) = 0 /\ Cardinality(V) \in Nat
      BY <2>5, FS_EmptySet, FS_CardinalityType
    <3> HIDE DEF both, V, gives, takes
    <3> QED BY <3>1, <3>3, <3>4
  <2>13. Total(gives) \in Nat /\ Total(takes) \in Nat /\ Total(rest) \in Nat
    <3> HIDE DEF takes, gives, rest, V
    <3> QED BY <2>5, <2>7, TotalIsNat
  <2>14. Cardinality(V) \in Nat /\ Cardinality(U) = Cardinality(V) + 1
    BY <2>2, <2>4, <2>5, FS_RemoveElement, FS_CardinalityType
  <2> DEFINE n == Cardinality(V)
  <2>15. Total(Takings(c, U)) = 2 * n + n * (n - 1)
    <3> HIDE DEF takes, gives, V
    <3> QED BY <2>6, <2>10, <2>11, <2>12, <2>13
  <2>16. ~(Total(Takings(c, U)) = Cardinality(U) * (Cardinality(U) - 1))
    BY <2>2
  <2>17. Cardinality(U) = n + 1 /\ n \in Nat
    BY <2>14
  <2> HIDE DEF n, V
  <2>18. (n + 1) * (n + 1 - 1) = 2 * n + n * (n - 1)
    BY <2>17
  <2> QED BY <2>15, <2>16, <2>17, <2>18
<1>2. S \in SUBSET S /\ S \notin bad
  BY <1>1
<1> QED BY <1>2

-----------------------------------------------------------------------------
(* The ranks.  A tenant's points are what it takes from its rivals by an   *)
(* order in which fractions may be tied.                                   *)

\* Fractions, which ratios are: nothing is divided by nothing.
Fractions == Nat \X (Nat \ {0})

\* Who is ahead of whom, by a ratio of which more or less is better.
Ahead(p, q, higher) == IF higher THEN Below(q, p) ELSE Below(p, q)

\* Being ahead is an order, and tied ones are alike in it.
LEMMA AheadIs ==
  ASSUME NEW p \in Fractions, NEW q \in Fractions, NEW r \in Fractions, NEW higher \in BOOLEAN
  PROVE  /\ ~(Ahead(p, q, higher) /\ Same(p, q))
         /\ ~(Ahead(p, q, higher) /\ Ahead(q, p, higher))
         /\ Ahead(p, q, higher) \/ Ahead(q, p, higher) \/ Same(p, q)
         /\ Same(p, q) <=> Same(q, p)
         /\ Same(p, p)
         /\ Ahead(p, q, higher) /\ (Ahead(q, r, higher) \/ Same(q, r)) => Ahead(p, r, higher)
<1>1. PICK a \in Nat, b \in Nat \ {0} : p = <<a, b>>
  BY DEF Fractions
<1>2. PICK c \in Nat, d \in Nat \ {0} : q = <<c, d>>
  BY DEF Fractions
<1>3. PICK e \in Nat, f \in Nat \ {0} : r = <<e, f>>
  BY DEF Fractions
<1> DEFINE ad == a * d  cb == c * b  cf == c * f  ed == e * d  af == a * f  eb == e * b
<1>4. /\ p[1] = a /\ p[2] = b /\ q[1] = c /\ q[2] = d /\ r[1] = e /\ r[2] = f
  BY <1>1, <1>2, <1>3
<1>5. /\ ad \in Nat /\ cb \in Nat /\ cf \in Nat /\ ed \in Nat /\ af \in Nat /\ eb \in Nat
  BY <1>1, <1>2, <1>3
<1>6. /\ Below(p, q) <=> ad < cb
      /\ Below(q, p) <=> cb < ad
      /\ Below(q, r) <=> cf < ed
      /\ Below(r, q) <=> ed < cf
      /\ Below(p, r) <=> af < eb
      /\ Below(r, p) <=> eb < af
      /\ Same(p, q) <=> ad = cb
      /\ Same(q, p) <=> cb = ad
      /\ Same(q, r) <=> cf = ed
      /\ Same(p, p)
  BY <1>4 DEF Below, Same
<1>7. /\ ad < cb => ad * f < cb * f
      /\ cb < ad => cb * f < ad * f
      /\ cf < ed => cf * b < ed * b
      /\ ed < cf => ed * b < cf * b
      /\ af < eb <=> af * d < eb * d
      /\ eb < af <=> eb * d < af * d
  <2>1. \A x, y \in Nat, z \in Nat \ {0} : x < y <=> x * z < y * z
    OBVIOUS
  <2> HIDE DEF ad, cb, cf, ed, af, eb
  <2> QED BY <1>1, <1>2, <1>3, <1>5, <2>1
<1>8. ad * f = af * d /\ cb * f = cf * b /\ ed * b = eb * d
  BY <1>1, <1>2, <1>3
<1>9. /\ ad * f \in Nat /\ cb * f \in Nat /\ ed * b \in Nat
  BY <1>1, <1>3, <1>5
<1> HIDE DEF ad, cb, cf, ed, af, eb
<1>10. ad < cb /\ (cf < ed \/ cf = ed) => af < eb
  BY <1>5, <1>7, <1>8, <1>9
<1>11. cb < ad /\ (ed < cf \/ cf = ed) => eb < af
  BY <1>5, <1>7, <1>8, <1>9
<1> QED BY <1>5, <1>6, <1>10, <1>11 DEF Ahead

\* What t takes from u in their comparison.
Comparisons(q, higher) ==
  [t \in DOMAIN q |-> [u \in DOMAIN q |->
     IF Ahead(q[t], q[u], higher) THEN 2 ELSE IF Same(q[u], q[t]) THEN 1 ELSE 0]]

\* The points of _percentile_in are what a tenant takes from its rivals.
LEMMA PointsAre ==
  ASSUME NEW D, IsFiniteSet(D), NEW q \in [D -> Fractions], NEW higher \in BOOLEAN, NEW t \in D
  PROVE  Points(q, t, higher) = Takings(Comparisons(q, higher), D)[t]
<1> DEFINE R == D \ {t}
           wins == {u \in R : Ahead(q[t], q[u], higher)}
           ties == {u \in R : Same(q[u], q[t])}
           row == [u \in R |-> Comparisons(q, higher)[t][u]]
<1>1. DOMAIN q = D
  OBVIOUS
<1>2. Points(q, t, higher) = 2 * Cardinality(wins) + Cardinality(ties)
  <2>1. wins = {u \in R : IF higher THEN Below(q[u], q[t]) ELSE Below(q[t], q[u])}
    BY DEF Ahead
  <2> QED BY <1>1, <2>1 DEF Points, Rivals
<1>3. \A u \in R : row[u] = IF u \in wins THEN 2 ELSE IF u \in ties THEN 1 ELSE 0
  BY <1>1 DEF Comparisons
<1>4. wins \in SUBSET R /\ ties \in SUBSET R
  OBVIOUS
<1>5. wins \cap ties = {}
  <2> SUFFICES ASSUME NEW u \in R, Ahead(q[t], q[u], higher), Same(q[u], q[t]) PROVE FALSE
    OBVIOUS
  <2>1. q[t] \in Fractions /\ q[u] \in Fractions
    OBVIOUS
  <2> QED BY <2>1, AheadIs
<1>6. row \in [R -> Nat] /\ IsFiniteSet(R)
  BY <1>3, FS_RemoveElement
<1>7. Takings(Comparisons(q, higher), D)[t] = Total(row)
  BY DEF Takings
<1> HIDE DEF R, wins, ties, row
<1>8. Total(row) = 2 * Cardinality(wins) + Cardinality(ties)
  BY <1>3, <1>4, <1>5, <1>6, TotalCounts
<1> QED BY <1>2, <1>7, <1>8

\* One takes what the other gives.
LEMMA PointsAddUp ==
  ASSUME NEW D, IsFiniteSet(D), NEW q \in [D -> Fractions], NEW higher \in BOOLEAN
  PROVE  Total([t \in D |-> Points(q, t, higher)]) = Cardinality(D) * (Cardinality(D) - 1)
<1> DEFINE c == Comparisons(q, higher)
<1>1. c \in [D -> [D -> Nat]]
  BY DEF Comparisons
<1>2. ASSUME NEW t \in D, NEW u \in D, t # u
      PROVE  c[t][u] + c[u][t] = 2
  <2>1. q[t] \in Fractions /\ q[u] \in Fractions
    OBVIOUS
  <2>2. /\ c[t][u] = IF Ahead(q[t], q[u], higher) THEN 2 ELSE IF Same(q[u], q[t]) THEN 1 ELSE 0
        /\ c[u][t] = IF Ahead(q[u], q[t], higher) THEN 2 ELSE IF Same(q[t], q[u]) THEN 1 ELSE 0
    BY DEF Comparisons
  <2> HIDE DEF c
  <2>3. /\ ~(Ahead(q[t], q[u], higher) /\ Same(q[t], q[u]))
        /\ ~(Ahead(q[u], q[t], higher) /\ Same(q[u], q[t]))
        /\ ~(Ahead(q[t], q[u], higher) /\ Ahead(q[u], q[t], higher))
        /\ Ahead(q[t], q[u], higher) \/ Ahead(q[u], q[t], higher) \/ Same(q[t], q[u])
        /\ Same(q[t], q[u]) <=> Same(q[u], q[t])
    BY <2>1, AheadIs
  <2> QED BY <2>2, <2>3
<1>3. [t \in D |-> Points(q, t, higher)] = Takings(c, D)
  <2>1. \A t \in D : Points(q, t, higher) = Takings(c, D)[t]
    BY PointsAre
  <2>2. Takings(c, D) = [t \in D |-> Takings(c, D)[t]]
    BY DEF Takings
  <2> HIDE DEF c
  <2> QED BY <2>1, <2>2
<1> HIDE DEF c
<1> QED BY <1>1, <1>2, <1>3, PointsOfARound

\* Whoever has the better ratio has more points.
LEMMA BetterHasMore ==
  ASSUME NEW D, IsFiniteSet(D), NEW q \in [D -> Fractions], NEW higher \in BOOLEAN,
         NEW t \in D, NEW u \in D, Ahead(q[t], q[u], higher)
  PROVE  Points(q, t, higher) > Points(q, u, higher)
<1> DEFINE W(x) == {v \in D : Ahead(q[x], q[v], higher)}
           N(x) == {v \in D : Ahead(q[x], q[v], higher) \/ Same(q[v], q[x])}
<1>1. ASSUME NEW x \in D
      PROVE  /\ IsFiniteSet(W(x)) /\ IsFiniteSet(N(x))
             /\ Cardinality(W(x)) \in Nat /\ Cardinality(N(x)) \in Nat
             /\ Points(q, x, higher) = Cardinality(W(x)) + Cardinality(N(x)) - 1
  <2> DEFINE wins == {v \in D \ {x} : IF higher THEN Below(q[v], q[x]) ELSE Below(q[x], q[v])}
             ties == {v \in D \ {x} : Same(q[v], q[x])}
  <2>1. Points(q, x, higher) = 2 * Cardinality(wins) + Cardinality(ties)
    BY DEF Points, Rivals
  <2>2. \A v \in D : q[v] \in Fractions
    OBVIOUS
  <2>3. wins = W(x)
    <3>1. ~Ahead(q[x], q[x], higher)
      BY <2>2, AheadIs
    <3> QED BY <3>1 DEF Ahead
  <2>11. Points(q, x, higher) = 2 * Cardinality(W(x)) + Cardinality(ties)
    BY <2>1, <2>3
  <2>4. W(x) \cap ties = {}
    <3> SUFFICES ASSUME NEW v \in D, Ahead(q[x], q[v], higher), Same(q[v], q[x]) PROVE FALSE
      OBVIOUS
    <3> QED BY <2>2, AheadIs
  <2>5. N(x) = (W(x) \cup ties) \cup {x} /\ x \notin W(x) \cup ties
    <3>1. Same(q[x], q[x]) /\ ~Ahead(q[x], q[x], higher)
      BY <2>2, AheadIs
    <3> QED BY <3>1
  <2>6. W(x) \in SUBSET D /\ N(x) \in SUBSET D /\ ties \in SUBSET D
    OBVIOUS
  <2> HIDE DEF W, N, ties, wins
  <2>7. IsFiniteSet(W(x)) /\ IsFiniteSet(N(x)) /\ IsFiniteSet(ties)
    BY <2>6, FS_Subset
  <2>8. /\ Cardinality(W(x)) \in Nat /\ Cardinality(N(x)) \in Nat /\ Cardinality(ties) \in Nat
    BY <2>7, FS_CardinalityType
  <2>9. /\ IsFiniteSet(W(x) \cup ties)
        /\ Cardinality(W(x) \cup ties) = Cardinality(W(x)) + Cardinality(ties)
    <3>1. Cardinality(W(x) \cap ties) = 0
      BY <2>4, FS_EmptySet
    <3>2. /\ IsFiniteSet(W(x) \cup ties)
          /\ Cardinality(W(x) \cup ties)
               = Cardinality(W(x)) + Cardinality(ties) - Cardinality(W(x) \cap ties)
      BY <2>7, FS_Union
    <3> QED BY <2>8, <3>1, <3>2
  <2>10. Cardinality(N(x)) = Cardinality(W(x) \cup ties) + 1
    BY <2>5, <2>9, FS_AddElement
  <2> QED BY <2>7, <2>8, <2>9, <2>10, <2>11
<1>2. \A v \in D : q[v] \in Fractions
  OBVIOUS
<1>3. N(u) \subseteq W(t)
  <2> SUFFICES ASSUME NEW v \in D, Ahead(q[u], q[v], higher) \/ Same(q[v], q[u])
               PROVE  Ahead(q[t], q[v], higher)
    OBVIOUS
  <2>1. q[t] \in Fractions /\ q[u] \in Fractions /\ q[v] \in Fractions
    BY <1>2
  <2>2. Same(q[v], q[u]) => Same(q[u], q[v])
    BY <2>1, AheadIs
  <2> QED BY <2>1, <2>2, AheadIs
<1>4. W(u) \subseteq N(u) /\ W(t) \subseteq N(t) /\ u \in N(u) /\ u \notin W(u)
  <2>1. Same(q[u], q[u]) /\ ~Ahead(q[u], q[u], higher)
    BY <1>2, AheadIs
  <2> QED BY <2>1
<1> HIDE DEF W, N
<1>5. /\ Cardinality(W(u)) <= Cardinality(N(u)) /\ Cardinality(W(u)) # Cardinality(N(u))
      /\ Cardinality(N(u)) <= Cardinality(W(t))
      /\ Cardinality(W(t)) <= Cardinality(N(t))
  BY <1>1, <1>3, <1>4, FS_Subset
<1> QED BY <1>1, <1>5

\* The larger and the smaller of two.
LEMMA OfTwo ==
  ASSUME NEW a \in Int, NEW b \in Int
  PROVE  /\ Max({a, b}) = IF a >= b THEN a ELSE b
         /\ Min({a, b}) = IF a <= b THEN a ELSE b
BY DEF Max, Min

\* What a function makes of a finite set is one.
LEMMA ImageIsFinite ==
  ASSUME NEW S, IsFiniteSet(S), NEW f, DOMAIN f = S
  PROVE  IsFiniteSet({f[x] : x \in S})
<1>1. [x \in S |-> f[x]] \in Surjection(S, {f[x] : x \in S})
  BY DEF Surjection
<1> QED BY <1>1, FS_Surjection

\* A ratio of amounts is a fraction.
LEMMA RatioIs ==
  ASSUME NEW num \in Nat, NEW den \in Nat
  PROVE  Ratio(num, den) \in Fractions
BY DEF Ratio, Fractions

\* A row tells amounts that are not negative.
Amounted(rows) ==
  /\ IsFiniteSet(rows)
  /\ \A r \in rows : r.cost \in Nat /\ r.input \in Nat /\ r.output \in Nat
                     /\ r.read \in Nat /\ r.resent \in Nat

LEMMA TableIsAmounted == Table => Amounted(derived)
<1> SUFFICES ASSUME Table, NEW r \in derived
             PROVE  r.cost \in Nat /\ r.input \in Nat /\ r.output \in Nat
                    /\ r.read \in Nat /\ r.resent \in Nat
  BY DEF Table, Amounted
<1>1. PICK f \in Fact : Version(r, f)
  BY DEF Table
<1>2. /\ {"cost", "input", "output", "read", "resent"} \subseteq DOMAIN f
      /\ f.cost \in Nat /\ f.input \in Nat /\ f.output \in Nat /\ f.read \in Nat /\ f.resent \in Nat
  BY ReadPlaneAssumption DEF Columns, Amounts
<1>3. /\ r.cost = f.cost /\ r.input = f.input /\ r.output = f.output
      /\ r.read = f.read /\ r.resent = f.resent
  BY <1>1, <1>2 DEF Version
<1> QED BY <1>2, <1>3

LEMMA PartIsAmounted ==
  ASSUME NEW rows, Amounted(rows), NEW part \in SUBSET rows
  PROVE  Amounted(part)
BY FS_Subset DEF Amounted

\* So are the sums over rows.
LEMMA SumsAre ==
  ASSUME NEW rows, Amounted(rows)
  PROVE  /\ Cost(rows) \in Nat /\ Input(rows) \in Nat /\ Cached(rows) \in Nat
         /\ Resent(rows) \in Nat /\ Tokens(rows) \in Nat /\ Cardinality(rows) \in Nat
<1>1. Cost(rows) \in Nat
  <2>1. PICK T : Measure(T, [r \in rows |-> r.cost], rows) /\ Cost(rows) = T[rows]
    BY CostIsMeasure DEF Amounted
  <2>2. T[rows] \in Nat
    BY <2>1 DEF Measure
  <2> QED BY <2>1, <2>2
<1>2. \A w \in [rows -> Nat] : Total(w) \in Nat
  BY TotalIsNat DEF Amounted
<1>3. /\ [r \in rows |-> r.input] \in [rows -> Nat]
      /\ [r \in rows |-> r.read] \in [rows -> Nat]
      /\ [r \in rows |-> r.resent] \in [rows -> Nat]
      /\ [r \in rows |-> r.input + r.output] \in [rows -> Nat]
  BY DEF Amounted
<1>4. Cardinality(rows) \in Nat
  BY FS_CardinalityType DEF Amounted
<1> QED BY <1>1, <1>2, <1>3, <1>4 DEF Input, Cached, Resent, Tokens

\* What remains of the costs without their extremes is a fraction.
LEMMA CostToSolveIs ==
  ASSUME NEW A, IsFiniteSet(A), NEW costs \in [A -> Nat]
  PROVE  CostToSolve(costs) \in Fractions
<1> DEFINE core == Core(costs)
           C == {costs[a] : a \in A}
<1>1. C \in SUBSET Nat /\ IsFiniteSet(C)
  <2>1. C \in SUBSET Nat
    OBVIOUS
  <2>2. IsFiniteSet(C)
    BY ImageIsFinite
  <2> QED BY <2>1, <2>2
<1>2. core \in [C -> Nat]
  <2> DEFINE n == Cardinality(DOMAIN costs)
             trim == IF n < 4 THEN 0 ELSE Max({1, n \div 10})
             Under(c) == Cardinality({a \in DOMAIN costs : costs[a] < c})
             UpTo(c) == Cardinality({a \in DOMAIN costs : costs[a] <= c})
             Left(c) == Min({UpTo(c), n - trim}) - Max({Under(c), trim})
  <2>1. n \in Nat
    BY FS_CardinalityType
  <2>2. trim \in Nat
    <3>1. n \div 10 \in Nat
      BY <2>1
    <3>2. Max({1, n \div 10}) \in Nat
      BY <3>1, OfTwo
    <3> QED BY <3>2
  <2>3. ASSUME NEW c \in C PROVE Left(c) \in Int
    <3>1. /\ {a \in DOMAIN costs : costs[a] < c} \in SUBSET A
          /\ {a \in DOMAIN costs : costs[a] <= c} \in SUBSET A
      OBVIOUS
    <3>2. Under(c) \in Nat /\ UpTo(c) \in Nat
      BY <3>1, FS_Subset, FS_CardinalityType
    <3> HIDE DEF Under, UpTo, n, trim
    <3>3. n - trim \in Int /\ UpTo(c) \in Int /\ Under(c) \in Int /\ trim \in Int
      BY <2>1, <2>2, <3>2
    <3>4. Min({UpTo(c), n - trim}) \in Int /\ Max({Under(c), trim}) \in Int
      BY <3>3, OfTwo
    <3> QED BY <3>4
  <2>4. core = [c \in C |-> Max({0, Left(c)})]
    BY DEF Core
  <2> HIDE DEF Left, core, C
  <2>5. \A c \in C : Max({0, Left(c)}) \in Nat
    BY <2>3, OfTwo
  <2> QED BY <2>4, <2>5
<1> DEFINE weighed == [c \in DOMAIN core |-> c * core[c]]
<1>3. DOMAIN core = C /\ weighed \in [C -> Nat]
  <2> HIDE DEF core, C
  <2>1. DOMAIN core = C /\ \A c \in C : c * core[c] \in Nat
    BY <1>1, <1>2
  <2> QED BY <2>1
<1>4. Total(weighed) \in Nat /\ Total(core) \in Nat
  <2> HIDE DEF core, C, weighed
  <2> QED BY <1>1, <1>2, <1>3, TotalIsNat
<1>5. CostToSolve(costs) = Ratio(Total(weighed), Total(core))
  BY DEF CostToSolve
<1> HIDE DEF weighed, core
<1> QED BY <1>4, <1>5, RatioIs

LEMMA EstimateIs ==
  ASSUME NEW A, IsFiniteSet(A), NEW costs \in [A -> Nat], NEW mode
  PROVE  EstimateAvoided(costs, mode) \in Nat
<1>1. PICK a \in Nat, b \in Nat \ {0} : CostToSolve(costs) = <<a, b>>
  BY CostToSolveIs DEF Fractions
<1>2. b * (IF mode = "solved_reuse" THEN 1 ELSE 2) \in Nat \ {0}
  BY <1>1
<1>3. EstimateAvoided(costs, mode) = (100 * a) \div (b * (IF mode = "solved_reuse" THEN 1 ELSE 2))
  BY <1>1 DEF EstimateAvoided
<1>4. \A x \in Nat, y \in Nat \ {0} : x \div y \in Nat
  OBVIOUS
<1> QED BY <1>1, <1>2, <1>3, <1>4

LEMMA CohortIs ==
  ASSUME NEW rows, Amounted(rows), NEW c
  PROVE  \E A : IsFiniteSet(A) /\ Cohort(rows, c) \in [A -> Nat]
<1> DEFINE kinds == IF c.work \in {Null, "unknown"} THEN {Null, "unknown"} ELSE {c.work}
           their == {r \in Scoped(rows, c.tenant) : r.objective = c.objective /\ r.work \in kinds}
           spent == [a \in {r.actor : r \in their} |-> Cost({r \in their : r.actor = a})]
           A == {b \in DOMAIN spent : spent[b] # 0}
<1>1. their \in SUBSET rows
  BY DEF Scoped
<1>2. IsFiniteSet(their)
  BY <1>1, FS_Subset DEF Amounted
<1>3. IsFiniteSet({r.actor : r \in their})
  <2> DEFINE f == [r \in their |-> r.actor]
  <2>1. DOMAIN f = their /\ {r.actor : r \in their} = {f[r] : r \in their}
    OBVIOUS
  <2> HIDE DEF f, their
  <2> QED BY <1>2, <2>1, ImageIsFinite
<1>4. IsFiniteSet(A)
  <2>1. A \in SUBSET {r.actor : r \in their}
    OBVIOUS
  <2> QED BY <1>3, <2>1, FS_Subset
<1>5. \A a : Cost({r \in their : r.actor = a}) \in Nat
  <2> SUFFICES ASSUME NEW a PROVE Cost({r \in their : r.actor = a}) \in Nat
    OBVIOUS
  <2>1. {r \in their : r.actor = a} \in SUBSET rows
    BY <1>1
  <2>2. Amounted({r \in their : r.actor = a})
    BY <2>1, PartIsAmounted
  <2> QED BY <2>2, SumsAre
<1>6. Cohort(rows, c) = [a \in A |-> spent[a]]
  BY DEF Cohort, ActorCostsFor
<1>7. \A a \in A : spent[a] \in Nat
  BY <1>5
<1> HIDE DEF A, spent
<1>8. Cohort(rows, c) \in [A -> Nat]
  BY <1>6, <1>7
<1> QED BY <1>4, <1>8

\* What was avoided is so much money.
LEMMA ReuseIs ==
  ASSUME NEW rows, Amounted(rows), NEW events, IsFiniteSet(events),
         \A e \in events : IsFiniteSet(e.pair), NEW t
  PROVE  ReuseAvoided(events, rows, t) \in Nat
<1> DEFINE their == {e \in events : t = Everyone \/ e.tenant = t}
           credits == {Credit(their, c) : c \in ClustersOf(their)}
           summary == Summary(events, rows, t)
           w == [x \in summary |-> x.avoided * EstimateAvoided(Cohort(rows, x.cluster), x.mode)]
<1>1. their \in SUBSET events /\ IsFiniteSet(their)
  BY FS_Subset
<1>2. IsFiniteSet(credits)
  <2>1. IsFiniteSet(ClustersOf(their))
    <3> DEFINE f == [e \in their |-> [tenant |-> e.tenant, objective |-> e.objective, work |-> e.work]]
    <3>1. DOMAIN f = their /\ ClustersOf(their) = {f[e] : e \in their}
      BY DEF ClustersOf
    <3> HIDE DEF f, their
    <3> QED BY <1>1, <3>1, ImageIsFinite
  <2> DEFINE g == [c \in ClustersOf(their) |-> Credit(their, c)]
  <2>2. DOMAIN g = ClustersOf(their) /\ credits = {g[c] : c \in ClustersOf(their)}
    OBVIOUS
  <2> HIDE DEF g, credits
  <2> QED BY <2>1, <2>2, ImageIsFinite
<1>3. summary \in SUBSET credits /\ \A x \in summary : x.avoided > 0
  BY DEF Summary
<1>4. IsFiniteSet(summary)
  <2> HIDE DEF credits, summary
  <2> QED BY <1>2, <1>3, FS_Subset
<1>5. ASSUME NEW x \in summary PROVE x.avoided \in Nat
  <2>1. PICK c \in ClustersOf(their) : x = Credit(their, c)
    BY <1>3
  <2> DEFINE its == {e \in their : InCluster(e, c)}
             pairs == {e.pair : e \in its}
  <2>2. its \in SUBSET events /\ IsFiniteSet(its)
    BY <1>1, FS_Subset
  <2>3. IsFiniteSet(pairs)
    <3> DEFINE f == [e \in its |-> e.pair]
    <3>1. DOMAIN f = its /\ pairs = {f[e] : e \in its}
      OBVIOUS
    <3> HIDE DEF f, its, pairs
    <3> QED BY <2>2, <3>1, ImageIsFinite
  <2>4. IsFiniteSet(UNION pairs)
    <3>1. \A p \in pairs : IsFiniteSet(p)
      BY <2>2
    <3> HIDE DEF pairs
    <3> QED BY <2>3, <3>1, FS_UNION
  <2>5. Cardinality(UNION pairs) \in Nat
    BY <2>4, FS_CardinalityType
  <2>6. x.avoided = Cardinality(UNION pairs) - 1
    BY <2>1 DEF Credit
  <2>7. x.avoided > 0
    BY <1>3
  <2> HIDE DEF pairs, summary, their
  <2> QED BY <2>5, <2>6, <2>7
<1>6. \A x \in summary : EstimateAvoided(Cohort(rows, x.cluster), x.mode) \in Nat
  <2> SUFFICES ASSUME NEW x \in summary PROVE EstimateAvoided(Cohort(rows, x.cluster), x.mode) \in Nat
    OBVIOUS
  <2>1. PICK A : IsFiniteSet(A) /\ Cohort(rows, x.cluster) \in [A -> Nat]
    BY CohortIs
  <2> QED BY <2>1, EstimateIs
<1> HIDE DEF summary
<1>7. w \in [summary -> Nat]
  <2>1. \A x \in summary : x.avoided * EstimateAvoided(Cohort(rows, x.cluster), x.mode) \in Nat
    <3>1. \A a, b \in Nat : a * b \in Nat
      OBVIOUS
    <3> QED BY <1>5, <1>6, <3>1
  <2> QED BY <2>1
<1>8. Total(w) \in Nat
  <2> HIDE DEF w
  <2> QED BY <1>4, <1>7, TotalIsNat
<1> QED BY <1>8 DEF ReuseAvoided, summary

\* The ledger is finite: each booking adds at most one row.
FiniteLedger == IsFiniteSet(avoided)
LEMMA LedgerIsFinite == Spec => []FiniteLedger
<1>1. Init => FiniteLedger
  BY EmptyIsFinite DEF Init, FiniteLedger
<1>2. ASSUME FiniteLedger, [Next]_vars
      PROVE  FiniteLedger'
  <2>1. CASE \E e \in Events : Book(e)
    <3>1. PICK e \in Events : avoided' = Booked(avoided, e)
      BY <2>1 DEF Book
    <3>2. {a \in avoided : Key(a) # Key(e)} \in SUBSET avoided
      OBVIOUS
    <3>3. IsFiniteSet({a \in avoided : Key(a) # Key(e)} \cup {e})
      BY <1>2, <3>2, FS_Subset, FS_AddElement DEF FiniteLedger
    <3> QED BY <1>2, <3>1, <3>3 DEF Booked, FiniteLedger
  <2>2. CASE UNCHANGED avoided
    BY <1>2, <2>2 DEF FiniteLedger
  <2>3. (\E e \in Events : Book(e)) \/ UNCHANGED avoided
    BY <1>2 DEF Next, vars, Insert, Claim, Tick, StartReport, Rollups, OrgFigures, Bounds,
           PriorWindow, RecentWindow, Spent, PeriodActors, WorkTypes, Since,
           NewInitiatives, ReuseYield, Continue
  <2> QED BY <2>1, <2>2, <2>3
<1> QED BY <1>1, <1>2, PTL DEF Spec

\* A tenant has each ratio as a fraction, or does not have it.
LEMMA VectorIs ==
  ASSUME NEW rows, Amounted(rows), NEW events, IsFiniteSet(events),
         \A e \in events : IsFiniteSet(e.pair), NEW t, NEW m \in Metrics
  PROVE  TenantVector(rows, events, t)[m] \in Fractions \cup {NotApplicable}
<1> DEFINE their == Scoped(rows, t)
           cost == Cost(their)
           saved == ReuseAvoided(events, rows, t)
           Spent1(kinds) == Cost({r \in their : r.work \in kinds})
           OfCost(ratio) == IF cost = 0 THEN NotApplicable ELSE ratio
           v == TenantVector(rows, events, t)
<1>1. /\ their \in SUBSET rows
      /\ Orphans(rows, t) \in SUBSET rows
      /\ {r \in their : r.retry} \in SUBSET rows
      /\ \A kinds : {r \in their : r.work \in kinds} \in SUBSET rows
  BY DEF Scoped, Orphans
<1>2. \A part \in SUBSET rows :
        /\ Cost(part) \in Nat /\ Input(part) \in Nat /\ Cached(part) \in Nat
        /\ Resent(part) \in Nat /\ Tokens(part) \in Nat /\ Cardinality(part) \in Nat
  BY PartIsAmounted, SumsAre
<1>3. /\ cost \in Nat /\ Input(their) \in Nat /\ Cached(their) \in Nat /\ Resent(their) \in Nat
      /\ Tokens(their) \in Nat /\ Cardinality(their) \in Nat
      /\ Tokens(Orphans(rows, t)) \in Nat
      /\ Cardinality({r \in their : r.retry}) \in Nat
      /\ \A kinds : Spent1(kinds) \in Nat
  <2> HIDE DEF their
  <2> QED BY <1>1, <1>2
<1>4. saved \in Nat
  BY ReuseIs
<1>5. Max({0, Resent(their) - Cached(their)}) \in Nat
  <2> HIDE DEF their
  <2>1. Resent(their) - Cached(their) \in Int
    BY <1>3
  <2> QED BY <2>1, OfTwo
<1>6. v = [cost_per_1k_tokens |-> OfCost(Ratio(1000 * cost, Tokens(their))),
           cache_hit_ratio |-> Ratio(Cached(their), Cached(their) + Input(their)),
           cache_recoverable_share |->
             Ratio(Max({0, Resent(their) - Cached(their)}), Tokens(their)),
           orphan_share |-> Ratio(Tokens(Orphans(rows, t)), Tokens(their)),
           net_new_share |-> OfCost(Ratio(Spent1(NetNew), cost)),
           maintenance_share |-> OfCost(Ratio(Spent1(Maintenance), cost)),
           retry_rate |-> Ratio(Cardinality({r \in their : r.retry}), Cardinality(their)),
           reuse_share |-> OfCost(Ratio(saved, 100 * cost + saved))]
  BY DEF TenantVector
<1>7. m \in {"cost_per_1k_tokens", "cache_hit_ratio", "cache_recoverable_share", "orphan_share",
             "net_new_share", "maintenance_share", "retry_rate", "reuse_share"}
  BY DEF Metrics, HigherIsBetter
<1> DEFINE retries == Cardinality({r \in their : r.retry})
           recoverable == Max({0, Resent(their) - Cached(their)})
<1> HIDE DEF their, cost, saved, Spent1, v
<1>8. /\ 1000 * cost \in Nat /\ 100 * cost + saved \in Nat
      /\ Cached(their) + Input(their) \in Nat
  BY <1>3, <1>4
<1>9. retries \in Nat /\ recoverable \in Nat
  BY <1>3, <1>5
<1>10. /\ v.cost_per_1k_tokens = OfCost(Ratio(1000 * cost, Tokens(their)))
       /\ v.cache_hit_ratio = Ratio(Cached(their), Cached(their) + Input(their))
       /\ v.cache_recoverable_share = Ratio(recoverable, Tokens(their))
       /\ v.orphan_share = Ratio(Tokens(Orphans(rows, t)), Tokens(their))
       /\ v.net_new_share = OfCost(Ratio(Spent1(NetNew), cost))
       /\ v.maintenance_share = OfCost(Ratio(Spent1(Maintenance), cost))
       /\ v.retry_rate = Ratio(retries, Cardinality(their))
       /\ v.reuse_share = OfCost(Ratio(saved, 100 * cost + saved))
  BY <1>6
<1> HIDE DEF retries, recoverable
<1>11. /\ Ratio(1000 * cost, Tokens(their)) \in Fractions
       /\ Ratio(Cached(their), Cached(their) + Input(their)) \in Fractions
       /\ Ratio(recoverable, Tokens(their)) \in Fractions
       /\ Ratio(Tokens(Orphans(rows, t)), Tokens(their)) \in Fractions
       /\ Ratio(Spent1(NetNew), cost) \in Fractions
       /\ Ratio(Spent1(Maintenance), cost) \in Fractions
       /\ Ratio(retries, Cardinality(their)) \in Fractions
       /\ Ratio(saved, 100 * cost + saved) \in Fractions
  BY <1>3, <1>4, <1>8, <1>9, RatioIs
<1>12. v[m] \in Fractions \cup {NotApplicable}
  BY <1>7, <1>10, <1>11
<1> QED BY <1>12 DEF v

\* The ratios of a cohort by one metric: fractions of some of its finitely many.
LEMMA RatiosAre ==
  ASSUME NEW rows, Amounted(rows), NEW events, IsFiniteSet(events),
         \A e \in events : IsFiniteSet(e.pair),
         NEW cohort, IsFiniteSet(cohort), NEW m \in Metrics
  PROVE  /\ DOMAIN Ratios(rows, events, cohort) = Metrics
         /\ \E D \in SUBSET Qualifying(rows, cohort) :
              IsFiniteSet(D) /\ Ratios(rows, events, cohort)[m] \in [D -> Fractions]
<1> DEFINE vector == [t \in Qualifying(rows, cohort) |-> TenantVector(rows, events, t)]
           Having(n) == {t \in DOMAIN vector : vector[t][n] # NotApplicable}
           D == Having(m)
<1>1. Ratios(rows, events, cohort) = [n \in Metrics |-> [t \in Having(n) |-> vector[t][n]]]
  BY DEF Ratios
<1>2. D \in SUBSET Qualifying(rows, cohort)
  OBVIOUS
<1>3. IsFiniteSet(D)
  <2>1. D \in SUBSET cohort
    BY <1>2 DEF Qualifying
  <2> HIDE DEF D
  <2> QED BY <2>1, FS_Subset
<1>4. \A t \in D : vector[t][m] \in Fractions
  BY VectorIs
<1>5. [t \in D |-> vector[t][m]] \in [D -> Fractions]
  <2> HIDE DEF D, vector
  <2> QED BY <1>4
<1>6. Ratios(rows, events, cohort)[m] = [t \in D |-> vector[t][m]]
  BY <1>1
<1>7. DOMAIN Ratios(rows, events, cohort) = Metrics
  BY <1>1
<1> HIDE DEF D, vector
<1> QED BY <1>2, <1>3, <1>5, <1>6, <1>7

\* Of a metric either more or less is better.
LEMMA MetricsAre ==
  ASSUME NEW m \in Metrics
  PROVE  HigherIsBetter[m] \in BOOLEAN
<1>1. HigherIsBetter \in
        [cost_per_1k_tokens : BOOLEAN, cache_hit_ratio : BOOLEAN, cache_recoverable_share : BOOLEAN,
         orphan_share : BOOLEAN, net_new_share : BOOLEAN, maintenance_share : BOOLEAN,
         retry_rate : BOOLEAN, reuse_share : BOOLEAN]
  BY DEF HigherIsBetter
<1>2. m \in {"cost_per_1k_tokens", "cache_hit_ratio", "cache_recoverable_share", "orphan_share",
             "net_new_share", "maintenance_share", "retry_rate", "reuse_share"}
  BY DEF Metrics, HigherIsBetter
<1>3. /\ HigherIsBetter["cost_per_1k_tokens"] \in BOOLEAN
      /\ HigherIsBetter["cache_hit_ratio"] \in BOOLEAN
      /\ HigherIsBetter["cache_recoverable_share"] \in BOOLEAN
      /\ HigherIsBetter["orphan_share"] \in BOOLEAN
      /\ HigherIsBetter["net_new_share"] \in BOOLEAN
      /\ HigherIsBetter["maintenance_share"] \in BOOLEAN
      /\ HigherIsBetter["retry_rate"] \in BOOLEAN
      /\ HigherIsBetter["reuse_share"] \in BOOLEAN
  BY <1>1
<1> QED BY <1>2, <1>3

\* The comparison takes from one what it gives to another, and ranks whoever has
\* the better ratio higher, for any tenants, rows and ties (benchmark.py
\* _percentile_in).
THEOREM RanksAreFair == Spec => []RankIsFair
<1>1. ASSUME ReadInv, YieldInv, FiniteLedger
      PROVE  RankIsFair
  <2> SUFFICES ASSUME NEW org,
                      {t \in {u \in DOMAIN OrgOf : OrgOf[u] = org} :
                         Ready(derived, {u \in DOMAIN OrgOf : OrgOf[u] = org}, t)} # {},
                      NEW m \in Metrics
               PROVE
      LET cohort == {t \in DOMAIN OrgOf : OrgOf[t] = org}
          ready == {t \in cohort : Ready(derived, cohort, t)}
          ratios == Ratios(derived, avoided, cohort)
          rank == [t \in ready |-> Comparison(ratios, t)]
          ranked == {t \in ready : m \in DOMAIN rank[t]}
          Better(t, u) == IF HigherIsBetter[m] THEN Below(ratios[m][u], ratios[m][t])
                                               ELSE Below(ratios[m][t], ratios[m][u])
      IN /\ Total([t \in ranked |-> rank[t][m]])
              = Cardinality(ranked) * (Cardinality(ranked) - 1)
         /\ \A t, u \in ranked : Better(t, u) => rank[t][m] > rank[u][m]
    BY DEF RankIsFair
  <2> DEFINE cohort == {t \in DOMAIN OrgOf : OrgOf[t] = org}
             ready == {t \in cohort : Ready(derived, cohort, t)}
             ratios == Ratios(derived, avoided, cohort)
             rank == [t \in ready |-> Comparison(ratios, t)]
             ranked == {t \in ready : m \in DOMAIN rank[t]}
             q == ratios[m]
             higher == HigherIsBetter[m]
  <2>1. Amounted(derived) /\ (\A e \in avoided : IsFiniteSet(e.pair)) /\ IsFiniteSet(cohort)
    <3>1. Amounted(derived)
      BY <1>1, TableIsAmounted DEF ReadInv
    <3>2. \A e \in avoided : IsFiniteSet(e.pair)
      BY <1>1, ReadPlaneAssumption DEF YieldInv, Covers
    <3>3. cohort \in SUBSET DOMAIN OrgOf
      OBVIOUS
    <3>4. IsFiniteSet(cohort)
      BY <3>3, ReadPlaneAssumption, FS_Subset
    <3> QED BY <3>1, <3>2, <3>4
  <2>2. DOMAIN ratios = Metrics /\ \E D \in SUBSET Qualifying(derived, cohort) :
          IsFiniteSet(D) /\ q \in [D -> Fractions]
    <3> HIDE DEF cohort
    <3> QED BY <1>1, <2>1, RatiosAre DEF FiniteLedger
  <2>3. PICK D \in SUBSET Qualifying(derived, cohort) : IsFiniteSet(D) /\ q \in [D -> Fractions]
    BY <2>2
  <2>4. ready = Qualifying(derived, cohort)
    BY DEF Ready, Qualifying
  <2>5. higher \in BOOLEAN
    BY MetricsAre
  <2>6. DOMAIN q = D /\ D \in SUBSET ready
    BY <2>3, <2>4
  <2>7. \A t : /\ m \in DOMAIN Comparison(ratios, t) <=> t \in DOMAIN q /\ Cardinality(DOMAIN q) > 1
               /\ m \in DOMAIN Comparison(ratios, t)
                    => Comparison(ratios, t)[m] = Points(q, t, higher)
    BY DEF Comparison
  <2> HIDE DEF cohort, ready, ratios, q, higher
  <2>8. ranked = IF Cardinality(D) > 1 THEN D ELSE {}
    BY <2>6, <2>7
  <2>9. \A t \in ranked : rank[t][m] = Points(q, t, higher)
    BY <2>6, <2>7
  <2>10. /\ Total([t \in ranked |-> rank[t][m]])
              = Cardinality(ranked) * (Cardinality(ranked) - 1)
         /\ \A t, u \in ranked : Ahead(q[t], q[u], higher) => rank[t][m] > rank[u][m]
    <3> DEFINE points == [t \in ranked |-> rank[t][m]]
    <3>1. CASE Cardinality(D) > 1
      <4>1. ranked = D
        BY <2>8, <3>1
      <4>2. points = [t \in D |-> Points(q, t, higher)]
        BY <2>9, <4>1
      <4>3. Total([t \in D |-> Points(q, t, higher)]) = Cardinality(D) * (Cardinality(D) - 1)
        BY <2>3, <2>5, PointsAddUp
      <4>4. \A t, u \in D : Ahead(q[t], q[u], higher) => Points(q, t, higher) > Points(q, u, higher)
        BY <2>3, <2>5, BetterHasMore
      <4> HIDE DEF ranked, rank
      <4> QED BY <2>9, <4>1, <4>2, <4>3, <4>4
    <3>2. CASE ~(Cardinality(D) > 1)
      <4>1. ranked = {}
        BY <2>8, <3>2
      <4>2. Cardinality(ranked) * (Cardinality(ranked) - 1) = 0
        <5> HIDE DEF ranked
        <5>1. Cardinality(ranked) = 0
          BY <4>1, FS_EmptySet
        <5> QED BY <5>1
      <4>3. points = [t \in {} |-> rank[t][m]]
        BY <4>1
      <4>4. Total(points) = 0
        <5> HIDE DEF rank, ranked
        <5>1. points \in [{} -> Nat] /\ DOMAIN points = {}
          BY <4>3
        <5> QED BY <5>1, TotalOfNothing
      <4> QED BY <4>1, <4>2, <4>4
    <3> QED BY <3>1, <3>2
  <2> QED BY <2>10 DEF Ahead, cohort, ready, ratios, q, higher
<1> QED BY <1>1, ReadHolds, LedgerCovers, LedgerIsFinite, PTL
==============================================================================
