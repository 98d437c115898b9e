-------------------------- MODULE ServicesProofs ---------------------------
(***************************************************************************)
(* Proofs about two services of the collector that share no state.         *)
(*                                                                         *)
(* Tenants, for every number of processes, tenants, orgs and principals:   *)
(* what a create relies on between its statements, and a report between    *)
(* its check and its query, is that a row stays with its org.              *)
(*                                                                         *)
(* Intro, for every set of people and topics, every symmetric relation of  *)
(* pairs the walls allow, and every limit: what an endpoint may show       *)
(* follows from consents that only their owner gives, about a match.       *)
(***************************************************************************)
EXTENDS Tenants, Intro, SequenceTheorems, TLAPS

-----------------------------------------------------------------------------
(* The registry of tenants. *)

\* What a create relies on: its row is there to be read back, and an answer
\* is true.
CallOK(p) ==
  /\ call[p].at # "none" => call[p].entry \in Entries
  /\ call[p].at = "read back" => registry[call[p].id] # None
  /\ call[p].at = "saved" => registry[call[p].id].org = call[p].entry.org
  /\ call[p].at = "refused" => registry[call[p].id].org \notin {None.org, call[p].entry.org}

InScope(who, t) == t = who.tenant \/ registry[t].org = who.org

\* A report that passed the org check still passes it.
QueryOK(p) ==
  query[p].at = "gate" =>
    /\ query[p].who \in Principals
    /\ InScope(query[p].who, query[p].scope)

Inv ==
  /\ TypeOK
  /\ \A p \in Procs : CallOK(p) /\ QueryOK(p)
  /\ ReportsInsideOrg

\* The registry after a step: rows stay with their org, and none goes away.
Kept ==
  \A t \in Ids : registry[t] # None => /\ registry'[t] # None
                                       /\ registry'[t].org = registry[t].org

-----------------------------------------------------------------------------
\* A row is told from no row by its org.
LEMMA EntryOrg ==
  /\ None \notin Entries
  /\ \A e \in Entries : e.org \in Orgs /\ e.org # None.org
<1>1. None.org = "" /\ \A e \in Entries : e.org \in Orgs
  BY DEF None, Entries
<1> QED BY <1>1, TenantsAssumption

LEMMA InitInv == Init => Inv
<1> SUFFICES ASSUME Init PROVE Inv
  OBVIOUS
<1>1. \A p \in Procs : call[p] = NoCall /\ query[p] = NoQuery
  BY DEF Init
<1>2. TypeOK
  BY TenantsAssumption DEF Init, TypeOK, NoCall, NoQuery, Calls, Queries
<1>3. (\A p \in Procs : CallOK(p) /\ QueryOK(p)) /\ ReportsInsideOrg
  BY <1>1 DEF Init, CallOK, QueryOK, ReportsInsideOrg, NoCall, NoQuery
<1> QED BY <1>2, <1>3 DEF Inv

LEMMA StepKeeps ==
  ASSUME Inv, NEW p \in Procs, Step(p)
  PROVE  Kept /\ registry' \in [Ids -> Entries \cup {None}]
<1>0. registry \in [Ids -> Entries \cup {None}]
  BY DEF Inv, TypeOK
<1>1. CASE Upsert(p)
  <2> DEFINE t == call[p].id
             e == call[p].entry
  <2>1. t \in Ids /\ e \in Entries
    BY <1>1 DEF Upsert, Inv, TypeOK, CallOK, Calls
  <2>2. registry' = Upserted(t, e)
    BY <1>1 DEF Upsert
  <2> HIDE DEF t, e
  <2>3. CASE registry[t].org \in {None.org, e.org}
    <3>1. registry' = [registry EXCEPT ![t] = e]
      BY <2>2, <2>3 DEF Upserted
    <3>2. registry'[t] = e /\ \A u \in Ids \ {t} : registry'[u] = registry[u]
      BY <1>0, <2>1, <3>1
    <3>3. e # None /\ (registry[t] # None => e.org = registry[t].org)
      BY <1>0, <2>1, <2>3, EntryOrg
    <3>4. registry' \in [Ids -> Entries \cup {None}]
      BY <1>0, <2>1, <3>1
    <3> QED BY <3>2, <3>3, <3>4 DEF Kept
  <2>4. CASE registry[t].org \notin {None.org, e.org}
    BY <1>0, <2>2, <2>4 DEF Upserted, Kept
  <2> QED BY <2>3, <2>4
<1>2. CASE UNCHANGED registry
  BY <1>0, <1>2 DEF Kept
<1>3. Upsert(p) \/ UNCHANGED registry
  BY DEF Step, ApiCreate, CliCreate, ReadBack, AskReport, Report, Die
<1> QED BY <1>1, <1>2, <1>3

\* A registry that is kept leaves true what a process relies on.
LEMMA SameCall ==
  ASSUME Inv, Kept, NEW q \in Procs, call'[q] = call[q]
  PROVE  CallOK(q)'
<1> DEFINE c == call[q]
<1>1. CallOK(q) /\ registry \in [Ids -> Entries \cup {None}] /\ c.id \in Ids
  BY DEF Inv, TypeOK, Calls
<1>2. registry[c.id] # None => registry'[c.id] # None /\ registry'[c.id].org = registry[c.id].org
  BY <1>1 DEF Kept
<1>3. c.at = "saved" => registry[c.id] # None
  BY <1>1, EntryOrg DEF CallOK
<1>4. c.at = "refused" => registry[c.id] # None
  BY <1>1 DEF CallOK
<1> QED BY <1>1, <1>2, <1>3, <1>4 DEF CallOK

LEMMA SameScope ==
  ASSUME Inv, Kept, NEW who \in Principals, NEW t \in Ids, InScope(who, t)
  PROVE  InScope(who, t)'
<1>1. who.org # None.org
  BY TenantsAssumption DEF None
<1>2. registry[t].org = who.org => registry[t] # None
  BY <1>1
<1> QED BY <1>2 DEF InScope, Kept

LEMMA SameQuery ==
  ASSUME Inv, Kept, NEW q \in Procs, query'[q] = query[q]
  PROVE  QueryOK(q)'
<1>1. query[q].scope \in Ids /\ QueryOK(q)
  BY DEF Inv, TypeOK, Queries
<1>2. ASSUME query[q].at = "gate" PROVE InScope(query[q].who, query[q].scope)'
  BY <1>1, <1>2, SameScope DEF QueryOK
<1> QED BY <1>1, <1>2 DEF QueryOK, InScope

LEMMA SameReports ==
  ASSUME Inv, Kept, reported' = reported
  PROVE  ReportsInsideOrg'
<1> SUFFICES ASSUME NEW r \in reported PROVE InScope(r.who, r.scope)'
  BY DEF ReportsInsideOrg, InScope
<1>1. r.who \in Principals /\ r.scope \in Ids /\ InScope(r.who, r.scope)
  BY DEF Inv, TypeOK, ReportsInsideOrg, InScope
<1> QED BY <1>1, SameScope

-----------------------------------------------------------------------------
\* The step of one process leaves the calls of the others alone.
LEMMA OthersAlone ==
  ASSUME Inv, NEW p \in Procs, Step(p)
  PROVE  \A q \in Procs \ {p} : call'[q] = call[q] /\ query'[q] = query[q]
BY DEF Inv, TypeOK, Step, ApiCreate, CliCreate, Upsert, ReadBack, AskReport, Report, Die

LEMMA StepType ==
  ASSUME Inv, NEW p \in Procs, Step(p)
  PROVE  TypeOK'
<1>0. /\ registry' \in [Ids -> Entries \cup {None}]
      /\ call \in [Procs -> Calls] /\ query \in [Procs -> Queries]
      /\ reported \subseteq [who : Principals, scope : Ids]
  BY StepKeeps DEF Inv, TypeOK
<1>1. \A c \in Calls : [call EXCEPT ![p] = c] \in [Procs -> Calls]
  BY <1>0
<1>2. \A c \in Queries : [query EXCEPT ![p] = c] \in [Procs -> Queries]
  BY <1>0
<1>3. NoCall \in Calls /\ NoQuery \in Queries
  BY TenantsAssumption DEF NoCall, NoQuery, Calls, Queries
<1>4. \A t \in Ids, e \in Entries, at \in {"upsert", "refused"} :
        [at |-> at, id |-> t, entry |-> e] \in Calls
  BY DEF Calls
<1>5. \A at \in {"read back", "saved", "refused"} : [call EXCEPT ![p].at = at] \in [Procs -> Calls]
  BY <1>0 DEF Calls
<1>6. \A who \in Principals, t \in Ids : [at |-> "gate", who |-> who, scope |-> t] \in Queries
  BY TenantsAssumption DEF Queries
<1>7. call' \in [Procs -> Calls]
  <2>1. ASSUME NEW t \in Ids, NEW e \in Entries, ApiCreate(p, t, e) PROVE call' \in [Procs -> Calls]
    <3>1. (IF registry[t].org \in {None.org, e.org} THEN "upsert" ELSE "refused") \in {"upsert", "refused"}
      OBVIOUS
    <3> QED BY <2>1, <3>1, <1>1, <1>4 DEF ApiCreate
  <2>2. ASSUME NEW t \in Ids, NEW e \in Entries, CliCreate(p, t, e) PROVE call' \in [Procs -> Calls]
    BY <2>2, <1>1, <1>4 DEF CliCreate
  <2>3. CASE Upsert(p)
    BY <2>3, <1>5 DEF Upsert
  <2>4. CASE ReadBack(p)
    BY <2>4, <1>5 DEF ReadBack
  <2>5. CASE Die(p)
    BY <2>5, <1>1, <1>3 DEF Die
  <2>6. (\E who \in Principals, t \in Ids : AskReport(p, who, t)) \/ Report(p) => call' = call
    BY DEF AskReport, Report
  <2> QED BY <1>0, <2>1, <2>2, <2>3, <2>4, <2>5, <2>6 DEF Step
<1>8. query' \in [Procs -> Queries]
  <2>1. ASSUME NEW who \in Principals, NEW t \in Ids, AskReport(p, who, t)
        PROVE  query' \in [Procs -> Queries]
    BY <2>1, <1>2, <1>6 DEF AskReport
  <2>2. CASE Report(p) \/ Die(p)
    BY <2>2, <1>2, <1>3 DEF Report, Die
  <2>3. (\E t \in Ids, e \in Entries : ApiCreate(p, t, e) \/ CliCreate(p, t, e))
          \/ Upsert(p) \/ ReadBack(p) => query' = query
    BY DEF ApiCreate, CliCreate, Upsert, ReadBack
  <2> QED BY <1>0, <2>1, <2>2, <2>3 DEF Step
<1>9. reported' \subseteq [who : Principals, scope : Ids]
  <2>1. CASE Report(p)
    <3>1. query[p].at = "gate" /\ query[p].scope \in Ids
      BY <1>0, <2>1 DEF Report, Queries
    <3>2. query[p].who \in Principals
      BY <3>1 DEF Inv, QueryOK
    <3> QED BY <1>0, <2>1, <3>1, <3>2 DEF Report
  <2>2. Report(p) \/ reported' = reported
    BY DEF Step, ApiCreate, CliCreate, Upsert, ReadBack, AskReport, Die
  <2> QED BY <1>0, <2>1, <2>2
<1> QED BY <1>0, <1>7, <1>8, <1>9 DEF TypeOK

\* The process that steps has what it relies on afterwards.
LEMMA StepCall ==
  ASSUME Inv, NEW p \in Procs, Step(p)
  PROVE  CallOK(p)'
<1>0. /\ Kept /\ CallOK(p)
      /\ registry \in [Ids -> Entries \cup {None}]
      /\ registry' \in [Ids -> Entries \cup {None}]
      /\ call[p].id \in Ids
      /\ p \in DOMAIN call
  BY StepKeeps DEF Inv, TypeOK, Calls
<1>1. ASSUME NEW t \in Ids, NEW e \in Entries, ApiCreate(p, t, e) PROVE CallOK(p)'
  <2>1. /\ registry' = registry
        /\ call'[p] = [at |-> IF registry[t].org \in {None.org, e.org} THEN "upsert" ELSE "refused",
                       id |-> t, entry |-> e]
    BY <1>0, <1>1 DEF ApiCreate
  <2> QED BY <2>1 DEF CallOK
<1>2. ASSUME NEW t \in Ids, NEW e \in Entries, CliCreate(p, t, e) PROVE CallOK(p)'
  <2>1. call'[p] = [at |-> "upsert", id |-> t, entry |-> e]
    BY <1>0, <1>2 DEF CliCreate
  <2> QED BY <2>1 DEF CallOK
<1>3. CASE Upsert(p)
  <2> DEFINE t == call[p].id
             e == call[p].entry
  <2>1. /\ call'[p] = [call[p] EXCEPT !.at = "read back"]
        /\ registry' = Upserted(t, e) /\ call[p].at = "upsert"
    BY <1>0, <1>3 DEF Upsert
  <2>2. e \in Entries
    BY <1>0, <2>1 DEF CallOK
  <2>3. registry'[t] # None
    BY <1>0, <2>1, <2>2, EntryOrg DEF Upserted, Kept
  <2>4. call'[p].at = "read back" /\ call'[p].id = t /\ call'[p].entry = e
    BY <2>1 DEF Inv, TypeOK, Calls
  <2> QED BY <2>2, <2>3, <2>4 DEF CallOK
<1>4. CASE ReadBack(p)
  <2> DEFINE t == call[p].id
             e == call[p].entry
  <2>1. /\ registry' = registry /\ call[p].at = "read back"
        /\ call'[p] = [call[p] EXCEPT !.at = IF IsOwner(t, e) THEN "saved" ELSE "refused"]
    BY <1>0, <1>4 DEF ReadBack
  <2>2. e \in Entries /\ registry[t] \in Entries
    BY <1>0, <2>1 DEF CallOK
  <2>3. /\ call'[p].id = t /\ call'[p].entry = e
        /\ call'[p].at = IF registry[t].org = e.org THEN "saved" ELSE "refused"
    BY <2>1 DEF IsOwner, Inv, TypeOK, Calls
  <2> QED BY <2>1, <2>2, <2>3, EntryOrg DEF CallOK
<1>5. CASE UNCHANGED call
  BY <1>0, <1>5, SameCall
<1>6. CASE Die(p)
  BY <1>0, <1>6 DEF Die, CallOK, NoCall
<1>7. (\E who \in Principals, t \in Ids : AskReport(p, who, t)) \/ Report(p) => UNCHANGED call
  BY DEF AskReport, Report
<1> QED BY <1>1, <1>2, <1>3, <1>4, <1>5, <1>6, <1>7 DEF Step

LEMMA StepQuery ==
  ASSUME Inv, NEW p \in Procs, Step(p)
  PROVE  QueryOK(p)' /\ ReportsInsideOrg'
<1>0. Kept /\ p \in DOMAIN query
  BY StepKeeps DEF Inv, TypeOK
<1>1. ASSUME NEW who \in Principals, NEW t \in Ids, AskReport(p, who, t)
      PROVE  QueryOK(p)' /\ reported' = reported
  <2>1. /\ query'[p] = [at |-> "gate", who |-> who, scope |-> t]
        /\ InScope(who, t) /\ UNCHANGED <<registry, reported>>
    BY <1>0, <1>1 DEF AskReport, InScope, SameOrg
  <2> QED BY <2>1 DEF QueryOK, InScope
<1>2. ASSUME Report(p) PROVE QueryOK(p)' /\ ReportsInsideOrg'
  <2>1. query[p].at = "gate" /\ query'[p] = NoQuery /\ registry' = registry
    BY <1>0, <1>2 DEF Report
  <2>2. reported' = reported \/ reported' = reported \cup {[who |-> query[p].who, scope |-> query[p].scope]}
    BY <1>2 DEF Report
  <2>3. InScope(query[p].who, query[p].scope)
    BY <2>1 DEF Inv, QueryOK
  <2> QED BY <2>1, <2>2, <2>3 DEF QueryOK, NoQuery, ReportsInsideOrg, InScope, Inv
<1>3. ASSUME Die(p) PROVE QueryOK(p)' /\ reported' = reported
  BY <1>0, <1>3 DEF Die, QueryOK, NoQuery
<1>4. CASE UNCHANGED <<query, reported>>
  BY <1>0, <1>4, SameQuery, SameReports
<1>5. \/ \E who \in Principals, t \in Ids : AskReport(p, who, t)
      \/ Report(p) \/ Die(p) \/ UNCHANGED <<query, reported>>
  BY DEF Step, ApiCreate, CliCreate, Upsert, ReadBack
<1> QED BY <1>0, <1>1, <1>2, <1>3, <1>4, <1>5, SameReports

LEMMA NextInv == Inv /\ [Next]_vars => Inv'
<1> SUFFICES ASSUME Inv, [Next]_vars PROVE Inv'
  OBVIOUS
<1>1. ASSUME NEW p \in Procs, Step(p) PROVE Inv'
  <2>1. TypeOK' /\ ReportsInsideOrg' /\ CallOK(p)' /\ QueryOK(p)'
    BY <1>1, StepType, StepCall, StepQuery
  <2>2. \A q \in Procs \ {p} : CallOK(q)' /\ QueryOK(q)'
    BY <1>1, StepKeeps, OthersAlone, SameCall, SameQuery
  <2> QED BY <2>1, <2>2 DEF Inv
<1>2. CASE UNCHANGED vars
  BY <1>2 DEF vars, Inv, TypeOK, CallOK, QueryOK, InScope, ReportsInsideOrg
<1> QED BY <1>1, <1>2 DEF Next

LEMMA Invariance == Spec => []Inv
<1> QED BY InitInv, NextInv, PTL DEF Spec

\* Every part of the state has its shape.
THEOREM TypeCorrect == Spec => []TypeOK
<1>1. Inv => TypeOK
  BY DEF Inv
<1> QED BY <1>1, Invariance, PTL

\* The answer to a create is true from then on, whoever raced for the id.
THEOREM AnswersStayTrue == Spec => []AnswerIsTrue
<1>1. Inv => AnswerIsTrue
  BY DEF Inv, CallOK, AnswerIsTrue
<1> QED BY <1>1, Invariance, PTL

\* A report that was given is on the caller's tenant or the caller's org's.
THEOREM ReportsStayInside == Spec => []ReportsInsideOrg
<1>1. Inv => ReportsInsideOrg
  BY DEF Inv
<1> QED BY <1>1, Invariance, PTL

\* A tenant never changes hands, and only a create of its org changes its row.
THEOREM OwnerIsForever == Spec => OnlyOwnerChanges
<1> DEFINE Kind == \A t \in Ids : registry[t] \notin {None, registry'[t]} =>
       /\ registry'[t].org = registry[t].org
       /\ \E p \in Procs : /\ call[p].at = "upsert" /\ call[p].id = t
                           /\ call[p].entry.org = registry[t].org
<1>1. Inv /\ [Next]_vars => [Kind]_vars
  <2> SUFFICES ASSUME Inv, NEW p \in Procs, Step(p), NEW t \in Ids,
                      registry[t] \notin {None, registry'[t]}
               PROVE  /\ registry'[t].org = registry[t].org
                      /\ \E q \in Procs : /\ call[q].at = "upsert" /\ call[q].id = t
                                          /\ call[q].entry.org = registry[t].org
    BY DEF Next
  <2>1. registry'[t].org = registry[t].org
    BY StepKeeps DEF Kept
  <2>2. Upsert(p)
    BY DEF Step, ApiCreate, CliCreate, ReadBack, AskReport, Report, Die
  <2>3. registry \in [Ids -> Entries \cup {None}] /\ registry[t] \in Entries
    BY DEF Inv, TypeOK
  <2>4. call[p].id = t /\ registry[t].org \in {None.org, call[p].entry.org}
    BY <2>2, <2>3 DEF Upsert, Upserted
  <2>5. call[p].at = "upsert" /\ call[p].entry.org = registry[t].org
    BY <2>2, <2>3, <2>4, EntryOrg DEF Upsert
  <2> QED BY <2>1, <2>4, <2>5
<1> QED BY <1>1, Invariance, PTL DEF Spec, OnlyOwnerChanges

-----------------------------------------------------------------------------
(* The introductions and the help relay. *)

IntroInv == IntroTypeOK /\ ShownToBothWhoAsked /\ ConsentsWereMatched
       /\ ThreadsAmongMatched /\ OneThreadPerPair

-----------------------------------------------------------------------------
(* The endpoints, in the form the proofs use. *)

\* A page holds rows of its owner only, and a row is the side of its owner.
LEMMA PageIsOwned ==
  ASSUME IntroTypeOK, NEW p \in People, NEW page \in ForOwner(p), NEW r \in page
  PROVE  /\ r \in rows /\ r \in Sides
         /\ r \in People \X People \X Topics
         /\ r = <<p, r[2], r[3]>>
         /\ r[2] \in People /\ r[3] \in Topics
<1>1. r \in rows /\ r[1] = p
  BY DEF ForOwner, OwnRows
<1>2. r \in Sides /\ r \in People \X People \X Topics
  BY <1>1 DEF IntroTypeOK, Sides
<1> QED BY <1>1, <1>2

\* Flipping a side twice gives the side.
LEMMA FlipFlip ==
  ASSUME NEW s \in People \X People \X Topics
  PROVE  Flip(s) \in People \X People \X Topics /\ Flip(Flip(s)) = s
BY DEF Flip

\* A function on an initial interval is a sequence.
LEMMA FunctionIsSeq ==
  ASSUME NEW T, NEW n \in Nat, NEW f \in [1..n -> T]
  PROVE  f \in Seq(T) /\ Len(f) = n
<1>1. [1..n -> T] \in {[1..m -> T] : m \in Nat}
  OBVIOUS
<1>2. f \in UNION {[1..m -> T] : m \in Nat}
  BY <1>1, Zenon
<1>3. f \in Seq(T)
  BY <1>2, SeqDef, Zenon
<1>4. Len(f) \in Nat /\ DOMAIN f = 1..Len(f)
  BY <1>3, LenProperties
<1>5. 1..Len(f) = 1..n
  BY <1>4
<1>6. Len(f) = n
  BY <1>4, <1>5
<1> QED BY <1>3, <1>6

LEMMA IntroInitInv == IntroInit => IntroInv
<1> SUFFICES ASSUME IntroInit PROVE IntroInv
  OBVIOUS
<1>1. threads = <<>> /\ messages = <<>>
  BY DEF IntroInit
<1>2. DOMAIN threads = {} /\ DOMAIN messages = {}
  BY <1>1
<1>3. messages \in [DOMAIN threads -> Seq(People)]
  BY <1>1, <1>2
<1>4. threads \in Seq([a : People, b : People, topic : Topics])
  BY <1>1
<1> QED BY <1>2, <1>3, <1>4
     DEF IntroInit, IntroInv, IntroTypeOK, ShownToBothWhoAsked, ConsentsWereMatched, ThreadsAmongMatched, OneThreadPerPair

LEMMA SurfaceInv ==
  ASSUME IntroInv, NEW s \in Sides, Surface(s)
  PROVE  IntroInv'
<1> USE DEF IntroInv, Surface
<1>1. IntroTypeOK'
  BY DEF IntroTypeOK
<1>2. ShownToBothWhoAsked' /\ ConsentsWereMatched'
  BY DEF ShownToBothWhoAsked, ConsentsWereMatched, Flip
<1>3. ThreadsAmongMatched'
  BY DEF ThreadsAmongMatched
<1>4. OneThreadPerPair'
  BY DEF OneThreadPerPair
<1> QED BY <1>1, <1>2, <1>3, <1>4

LEMMA MeInv ==
  ASSUME IntroInv, NEW p \in People, Me(p)
  PROVE  IntroInv'
<1>0. PICK page \in ForOwner(p) : \E fresh \in SUBSET page :
        /\ shown' = shown \cup {s \in fresh : MutuallyConsented(s)}
        /\ UNCHANGED <<rows, consents, threads, messages>>
  BY DEF Me
<1>1. PICK fresh \in SUBSET page :
        /\ shown' = shown \cup {s \in fresh : MutuallyConsented(s)}
        /\ UNCHANGED <<rows, consents, threads, messages>>
  BY <1>0
<1>2. \A s \in fresh : s \in People \X People \X Topics
  BY PageIsOwned DEF IntroInv
<1>3. IntroTypeOK'
  BY <1>1, <1>2 DEF IntroTypeOK, IntroInv
<1>4. ShownToBothWhoAsked'
  BY <1>1 DEF ShownToBothWhoAsked, MutuallyConsented, Flip, IntroInv
<1>5. ConsentsWereMatched' /\ ThreadsAmongMatched' /\ OneThreadPerPair'
  BY <1>1 DEF ConsentsWereMatched, ThreadsAmongMatched, OneThreadPerPair, IntroInv
<1> QED BY <1>3, <1>4, <1>5 DEF IntroInv

LEMMA ConsentInv ==
  ASSUME IntroInv, NEW r \in rows, Consent(r)
  PROVE  IntroInv'
<1>1. r \in People \X People \X Topics
  BY DEF IntroInv, IntroTypeOK, Sides
<1>2. IntroTypeOK'
  BY <1>1 DEF IntroInv, IntroTypeOK, Consent
<1>3. ShownToBothWhoAsked'
  BY DEF IntroInv, ShownToBothWhoAsked, Consent, MutuallyConsented, Flip
<1>4. ConsentsWereMatched'
  BY DEF IntroInv, ConsentsWereMatched, Consent
<1>5. ThreadsAmongMatched' /\ OneThreadPerPair'
  BY DEF IntroInv, ThreadsAmongMatched, OneThreadPerPair, Consent
<1> QED BY <1>2, <1>3, <1>4, <1>5 DEF IntroInv

\* Whoever opens a thread is the owner of a row for it.
LEMMA OpenInv ==
  ASSUME IntroInv, NEW p \in People, NEW r \in rows, r = <<p, r[2], r[3]>>, Open(p, r)
  PROVE  IntroInv'
<1> DEFINE th == [a |-> p, b |-> r[2], topic |-> r[3]]
           n == Len(threads)
           Thread == [a : People, b : People, topic : Topics]
<1>1. r[2] \in People /\ r[3] \in Topics
  BY DEF IntroInv, IntroTypeOK, Sides
<1>2. th \in Thread
  BY <1>1
<1>3. threads \in Seq(Thread) /\ n \in Nat /\ DOMAIN threads = 1..n
  BY DEF IntroInv, IntroTypeOK
<1>4. PICK first \in Seq(People) : messages' = Append(messages, first) /\ Range(first) \subseteq {p}
  <2>1. <<p>> \in Seq(People) /\ Range(<<p>>) \subseteq {p}
    BY DEF Range
  <2>2. <<>> \in Seq(People) /\ Range(<<>>) \subseteq {p}
    BY DEF Range
  <2> QED BY <2>1, <2>2 DEF Open
<1>5. /\ threads' = Append(threads, th)
      /\ UNCHANGED <<rows, consents, shown>>
  BY DEF Open
<1>6. /\ threads' \in Seq(Thread) /\ DOMAIN threads' = 1..(n + 1)
      /\ threads'[n + 1] = th
      /\ \A i \in 1..n : threads'[i] = threads[i]
  BY <1>2, <1>3, <1>5, AppendProperties
<1>7. messages \in Seq(Seq(People)) /\ Len(messages) = n
  BY <1>3, FunctionIsSeq DEF IntroInv, IntroTypeOK
<1>8. /\ messages' \in [1..(n + 1) -> Seq(People)]
      /\ messages'[n + 1] = first
      /\ \A i \in 1..n : messages'[i] = messages[i]
  <2> DEFINE T == Seq(People)
             new == Append(messages, first)
  <2>1. messages \in Seq(T) /\ first \in T
    BY <1>4, <1>7
  <2> HIDE DEF T
  <2>2. /\ new \in Seq(T) /\ Len(new) = n + 1
        /\ new[n + 1] = first
        /\ \A i \in 1..n : new[i] = messages[i]
    BY <2>1, <1>7, AppendProperties
  <2>3. new \in [1..(n + 1) -> T]
    BY <2>2, LenProperties
  <2> QED BY <2>2, <2>3, <1>4 DEF T
<1> HIDE DEF th, n, Thread
<1>9. IntroTypeOK'
  BY <1>5, <1>6, <1>8 DEF IntroInv, IntroTypeOK, Thread
<1>10. ShownToBothWhoAsked' /\ ConsentsWereMatched'
  BY <1>5 DEF IntroInv, ShownToBothWhoAsked, ConsentsWereMatched, Flip
<1>11. ThreadsAmongMatched'
  <2> SUFFICES ASSUME NEW i \in DOMAIN threads'
               PROVE  /\ <<threads'[i].a, threads'[i].b, threads'[i].topic>> \in rows
                      /\ Range(messages'[i]) \subseteq {threads'[i].a, threads'[i].b}
    BY <1>5 DEF ThreadsAmongMatched
  <2>1. CASE i = n + 1
    <3>1. threads'[i] = [a |-> p, b |-> r[2], topic |-> r[3]] /\ messages'[i] = first
      BY <2>1, <1>6, <1>8 DEF th
    <3>2. <<threads'[i].a, threads'[i].b, threads'[i].topic>> = r
      BY <3>1
    <3> QED BY <3>1, <3>2, <1>4
  <2>2. CASE i \in 1..n
    BY <2>2, <1>3, <1>6, <1>8 DEF IntroInv, ThreadsAmongMatched
  <2> QED BY <1>3, <1>6, <2>1, <2>2
<1>12. OneThreadPerPair'
  <2>1. \A i \in 1..n : ~(threads[i].topic = th.topic /\ {threads[i].a, threads[i].b} = {th.a, th.b})
    BY <1>3 DEF Open, ThreadBetween, th
  <2>2. \A i, j \in 1..n :
          (threads[i].topic = threads[j].topic
             /\ {threads[i].a, threads[i].b} = {threads[j].a, threads[j].b}) => i = j
    BY <1>3 DEF IntroInv, OneThreadPerPair
  <2>3. \A i \in 1..(n + 1) : i = n + 1 \/ i \in 1..n
    BY <1>3
  <2> QED BY <1>6, <2>1, <2>2, <2>3 DEF OneThreadPerPair
<1> QED BY <1>9, <1>10, <1>11, <1>12 DEF IntroInv

\* A message comes from one of the two people of the thread.
LEMMA PostInv ==
  ASSUME IntroInv, NEW p \in People, NEW n \in DOMAIN threads,
         p \in {threads[n].a, threads[n].b}, Post(p, n)
  PROVE  IntroInv'
<1>1. messages \in [DOMAIN threads -> Seq(People)]
  BY DEF IntroInv, IntroTypeOK
<1>2. messages[n] \in Seq(People)
  BY <1>1
<1>3. /\ Append(messages[n], p) \in Seq(People)
      /\ Range(Append(messages[n], p)) \subseteq Range(messages[n]) \cup {p}
  BY <1>2, AppendProperties, LenProperties DEF Range
<1>4. /\ messages' \in [DOMAIN threads -> Seq(People)]
      /\ messages'[n] = Append(messages[n], p)
      /\ \A i \in DOMAIN threads \ {n} : messages'[i] = messages[i]
  BY <1>1, <1>3 DEF Post
<1>5. UNCHANGED <<rows, consents, threads, shown>>
  BY DEF Post
<1>6. IntroTypeOK' /\ ShownToBothWhoAsked' /\ ConsentsWereMatched' /\ OneThreadPerPair'
  BY <1>4, <1>5 DEF IntroInv, IntroTypeOK, ShownToBothWhoAsked, ConsentsWereMatched, OneThreadPerPair, Flip
<1>7. ThreadsAmongMatched'
  BY <1>3, <1>4, <1>5 DEF IntroInv, ThreadsAmongMatched
<1> QED BY <1>6, <1>7 DEF IntroInv

\* A thread found for a row has the caller as one of its two people.
LEMMA AskInv ==
  ASSUME IntroInv, NEW p \in People, NEW r \in rows, r = <<p, r[2], r[3]>>, Ask(p, r)
  PROVE  IntroInv'
<1>1. CASE Open(p, r)
  BY <1>1, OpenInv
<1>2. CASE \E n \in ThreadBetween(p, r[2], r[3]) : Post(p, n)
  <2>1. PICK n \in ThreadBetween(p, r[2], r[3]) : Post(p, n)
    BY <1>2
  <2>2. n \in DOMAIN threads /\ p \in {threads[n].a, threads[n].b}
    BY DEF ThreadBetween
  <2> QED BY <2>1, <2>2, PostInv
<1> QED BY <1>1, <1>2 DEF Ask

-----------------------------------------------------------------------------
LEMMA IntroNextInv == IntroInv /\ [IntroNext]_introVars => IntroInv'
<1> SUFFICES ASSUME IntroInv, [IntroNext]_introVars PROVE IntroInv'
  OBVIOUS
<1>1. CASE \E s \in Sides : Surface(s)
  BY <1>1, SurfaceInv
<1>2. CASE \E p \in People : Me(p)
  BY <1>2, MeInv
<1>3. CASE \E p \in People : OnOwnRow(p)
  <2>1. PICK p \in People : OnOwnRow(p)
    BY <1>3
  <2>2. PICK page \in ForOwner(p) : \E r \in page : Consent(<<p, r[2], r[3]>>) \/ Ask(p, r)
    BY <2>1 DEF OnOwnRow
  <2>3. PICK r \in page : Consent(<<p, r[2], r[3]>>) \/ Ask(p, r)
    BY <2>2
  <2>4. r \in rows /\ r = <<p, r[2], r[3]>>
    BY PageIsOwned DEF IntroInv
  <2> QED BY <2>3, <2>4, ConsentInv, AskInv
<1>4. CASE \E p \in People, n \in DOMAIN threads : Reply(p, n)
  BY <1>4, PostInv DEF Reply, IsParticipant
<1>5. CASE UNCHANGED introVars
  BY <1>5 DEF introVars, IntroInv, IntroTypeOK, ShownToBothWhoAsked, ConsentsWereMatched,
              ThreadsAmongMatched, OneThreadPerPair, Flip
<1> QED BY <1>1, <1>2, <1>3, <1>4, <1>5 DEF IntroNext

LEMMA IntroInvariance == IntroSpec => []IntroInv
<1> QED BY IntroInitInv, IntroNextInv, PTL DEF IntroSpec

\* Every part of the state has its shape.
THEOREM IntroTypeCorrect == IntroSpec => []IntroTypeOK
<1>1. IntroInv => IntroTypeOK
  BY DEF IntroInv
<1> QED BY <1>1, IntroInvariance, PTL

\* An identity is shown only on a topic on which both asked for it.
THEOREM RevealNeedsBoth == IntroSpec => []ShownToBothWhoAsked
<1>1. IntroInv => ShownToBothWhoAsked
  BY DEF IntroInv
<1> QED BY <1>1, IntroInvariance, PTL

\* A consent is about a match its owner was told of.
THEOREM ConsentNeedsMatch == IntroSpec => []ConsentsWereMatched
<1>1. IntroInv => ConsentsWereMatched
  BY DEF IntroInv
<1> QED BY <1>1, IntroInvariance, PTL

\* Threads join the two people of a match and carry their messages only.
THEOREM ThreadNeedsMatch == IntroSpec => []ThreadsAmongMatched
<1>1. IntroInv => ThreadsAmongMatched
  BY DEF IntroInv
<1> QED BY <1>1, IntroInvariance, PTL

\* Two people have one thread per topic.
THEOREM ThreadIsUnique == IntroSpec => []OneThreadPerPair
<1>1. IntroInv => OneThreadPerPair
  BY DEF IntroInv
<1> QED BY <1>1, IntroInvariance, PTL

-----------------------------------------------------------------------------
(* The refinement. *)

LEMMA StepSimulates == IntroInv /\ [IntroNext]_introVars => [Blind!Next]_(Blind!vars)
<1> SUFFICES ASSUME IntroInv, [IntroNext]_introVars PROVE [Blind!Next]_(Blind!vars)
  OBVIOUS
<1> USE DEF Blind!vars
<1>1. ASSUME NEW s \in Sides, Surface(s) PROVE Blind!Next
  BY <1>1 DEF Surface, Blind!Next, Blind!Tell
<1>2. ASSUME NEW p \in People, Me(p) PROVE Blind!Next
  <2>1. PICK page \in ForOwner(p) : \E fresh \in SUBSET page :
          /\ shown' = shown \cup {s \in fresh : MutuallyConsented(s)}
          /\ UNCHANGED <<rows, consents, threads, messages>>
    BY <1>2 DEF Me
  <2>2. PICK fresh \in SUBSET page :
          /\ shown' = shown \cup {s \in fresh : MutuallyConsented(s)}
          /\ UNCHANGED <<rows, consents, threads, messages>>
    BY <2>1
  <2> DEFINE S == {s \in fresh : MutuallyConsented(s)}
  <2>3. \A s \in S : s \in consents /\ Blind!Other(s) \in consents
    BY DEF MutuallyConsented, Flip, Blind!Other
  <2>4. S \in SUBSET consents
    BY <2>3
  <2> HIDE DEF S
  <2>5. Blind!Look(S)
    BY <2>2, <2>3 DEF Blind!Look, S
  <2> QED BY <2>4, <2>5 DEF Blind!Next
<1>3. ASSUME NEW p \in People, OnOwnRow(p) PROVE [Blind!Next]_(Blind!vars)
  <2>2. PICK page \in ForOwner(p) : \E r \in page : Consent(<<p, r[2], r[3]>>) \/ Ask(p, r)
    BY <1>3 DEF OnOwnRow
  <2>3. PICK r \in page : Consent(<<p, r[2], r[3]>>) \/ Ask(p, r)
    BY <2>2
  <2>4. r \in rows /\ r \in Sides /\ r = <<p, r[2], r[3]>>
    BY PageIsOwned DEF IntroInv
  <2>5. CASE Consent(r)
    <3>1. Flip(r) = Blind!Other(r) /\ Flip(r) # r
      BY <2>4, IntroAssumption DEF Flip, Blind!Other, Sides
    <3>2. MutuallyConsented(r)' => Blind!Other(r) \in consents
      BY <2>5, <3>1 DEF MutuallyConsented, Consent, Flip
    <3>3. Blind!AskFor(r)
      BY <2>4, <2>5, <3>2 DEF Blind!AskFor, Consent
    <3> QED BY <2>4, <3>3 DEF Blind!Next
  <2>6. CASE Ask(p, r)
    BY <2>6 DEF Ask, Open, Post
  <2> QED BY <2>3, <2>4, <2>5, <2>6
<1>4. ASSUME NEW p \in People, NEW n \in DOMAIN threads, Reply(p, n) PROVE UNCHANGED Blind!vars
  BY <1>4 DEF Reply, Post
<1>5. CASE UNCHANGED introVars
  BY <1>5 DEF introVars
<1> QED BY <1>1, <1>2, <1>3, <1>4, <1>5 DEF IntroNext

\* The endpoints implement the double-blind introduction.
THEOREM Refinement == IntroSpec => ImplementsDoubleBlind
<1>1. IntroInit => Blind!Init
  BY DEF IntroInit, Blind!Init
<1> QED BY <1>1, IntroInvariance, StepSimulates, PTL DEF IntroSpec, ImplementsDoubleBlind, Blind!Spec
=============================================================================
