------------------------------ MODULE Tenants -------------------------------
(***************************************************************************)
(* The tenant registry (tenants.py) and the calls that create tenants and  *)
(* scope reports by it: POST /api/tenants and _resolve_report_tenant in    *)
(* server.py, "abenlux tenant create" in cli.py.                           *)
(*                                                                         *)
(* The collectors and the command line are processes on one database.      *)
(* Every SQL statement is atomic; a call is several of them, and the calls *)
(* of different processes interleave.  A tenant id is a global key.        *)
(***************************************************************************)
EXTENDS FiniteSets

CONSTANTS
  Procs,       \* processes that run one call at a time
  Ids,         \* tenant ids, "default" among them
  Orgs,        \* orgs, "default" among them
  Regions,     \* residencies
  Principals   \* who may ask for a report: [org, tenant]

None == [org |-> "", residency |-> ""]
Entries == [org : Orgs, residency : Regions]

ASSUME TenantsAssumption ==
  /\ "default" \in Ids
  /\ "default" \in Orgs /\ "" \notin Orgs
  /\ Principals \subseteq [org : Orgs, tenant : Ids]

VARIABLES
  registry,  \* the tenants table: id -> its row
  call,      \* process -> the create it runs: [at, id, entry]
  query,     \* process -> the report it runs: [at, who, scope]
  reported   \* reports that were given: [who, scope]

vars == <<registry, call, query, reported>>

NoCall == [at |-> "none", id |-> "default", entry |-> None]
NoQuery == [at |-> "none", who |-> [org |-> "default", tenant |-> "default"], scope |-> "default"]

Init ==
  /\ registry = [t \in Ids |-> None]
  /\ call = [p \in Procs |-> NoCall]
  /\ query = [p \in Procs |-> NoQuery]
  /\ reported = {}

Idle(p) == call[p].at \in {"none", "saved", "refused"} /\ query[p].at = "none"

-----------------------------------------------------------------------------
(* Creating a tenant. *)

\* POST /api/tenants: the row as it is now must not be another org's.
ApiCreate(p, t, e) ==
  /\ Idle(p)
  /\ call' = [call EXCEPT ![p] =
       [at |-> IF registry[t].org \in {None.org, e.org} THEN "upsert" ELSE "refused",
        id |-> t, entry |-> e]]
  /\ UNCHANGED <<registry, query, reported>>

\* The command line goes straight to the upsert.
CliCreate(p, t, e) ==
  /\ Idle(p)
  /\ call' = [call EXCEPT ![p] = [at |-> "upsert", id |-> t, entry |-> e]]
  /\ UNCHANGED <<registry, query, reported>>

\* mutant: ON CONFLICT ... DO UPDATE of every column, without the WHERE
Replaced(t, e) == [registry EXCEPT ![t] = e]
\* INSERT ... ON CONFLICT(tenant_id) DO UPDATE ... WHERE tenants.org = excluded.org
Upserted(t, e) ==
  IF registry[t].org \in {None.org, e.org} THEN [registry EXCEPT ![t] = e] ELSE registry

Upsert(p) ==
  /\ call[p].at = "upsert"
  /\ registry' = Upserted(call[p].id, call[p].entry)
  /\ call' = [call EXCEPT ![p].at = "read back"]
  /\ UNCHANGED <<query, reported>>

\* mutant: the outcome of the statement is taken on trust
Unread(t, e) == TRUE
IsOwner(t, e) == registry[t].org = e.org

\* The read after the write tells a lost race (ValueError, 409) from a success.
ReadBack(p) ==
  /\ call[p].at = "read back"
  /\ call' = [call EXCEPT ![p].at =
                IF IsOwner(call[p].id, call[p].entry) THEN "saved" ELSE "refused"]
  /\ UNCHANGED <<registry, query, reported>>

-----------------------------------------------------------------------------
(* Scoping a report. *)

\* mutant: any registered tenant will do
Registered(who, t) == registry[t] # None
SameOrg(who, t) == registry[t].org = who.org

\* The caller's own tenant, or one the registry has in the caller's org.
AskReport(p, who, t) ==
  /\ Idle(p)
  /\ t = who.tenant \/ SameOrg(who, t)
  /\ query' = [query EXCEPT ![p] = [at |-> "gate", who |-> who, scope |-> t]]
  /\ UNCHANGED <<registry, call, reported>>

\* _collector_orgs: the default bucket is refused when an org has registered.
SharedCollector == \E t \in Ids : registry[t].org \notin {None.org, "default"}

Report(p) ==
  LET q == query[p]
  IN /\ q.at = "gate"
     /\ query' = [query EXCEPT ![p] = NoQuery]
     /\ \/ /\ q.scope = "default" /\ SharedCollector
           /\ UNCHANGED reported
        \/ /\ ~(q.scope = "default" /\ SharedCollector)
           /\ reported' = reported \cup {[who |-> q.who, scope |-> q.scope]}
     /\ UNCHANGED <<registry, call>>

\* A process ends in the middle of a call; what is committed stays.
Die(p) ==
  /\ ~Idle(p)
  /\ call' = [call EXCEPT ![p] = NoCall]
  /\ query' = [query EXCEPT ![p] = NoQuery]
  /\ UNCHANGED <<registry, reported>>

Step(p) ==
  \/ \E t \in Ids, e \in Entries : ApiCreate(p, t, e) \/ CliCreate(p, t, e)
  \/ Upsert(p)
  \/ ReadBack(p)
  \/ \E who \in Principals, t \in Ids : AskReport(p, who, t)
  \/ Report(p)
  \/ Die(p)

Next == \E p \in Procs : Step(p)

Spec == Init /\ [][Next]_vars

-----------------------------------------------------------------------------
(* Properties *)

Calls == [at : {"none", "upsert", "read back", "saved", "refused"},
          id : Ids, entry : Entries \cup {None}]
Queries == [at : {"none", "gate"}, who : [org : Orgs, tenant : Ids], scope : Ids]

\* Every part of the state has its shape.
TypeOK ==
  /\ registry \in [Ids -> Entries \cup {None}]
  /\ call \in [Procs -> Calls]
  /\ query \in [Procs -> Queries]
  /\ reported \subseteq [who : Principals, scope : Ids]

\* "an id, once owned by an org, can never be reassigned to another org"
\* (tenants.py 53-54), and nobody else's create changes its metadata.
OnlyOwnerChanges ==
  [][\A t \in Ids : registry[t] \notin {None, registry'[t]} =>
       /\ registry'[t].org = registry[t].org
       /\ \E p \in Procs : /\ call[p].at = "upsert" /\ call[p].id = t
                           /\ call[p].entry.org = registry[t].org]_vars

\* A create that answered with success owns its tenant from then on, and one
\* that answered 409 had lost it to another org: of two racing orgs one wins.
AnswerIsTrue ==
  \A p \in Procs :
    /\ call[p].at = "saved" => registry[call[p].id].org = call[p].entry.org
    /\ call[p].at = "refused" => registry[call[p].id].org \notin {None.org, call[p].entry.org}

\* Whatever is registered after the check: a report that was given is on the
\* caller's own tenant or on one of the caller's org ("never another org's",
\* server.py 595).
ReportsInsideOrg ==
  \A r \in reported : r.scope = r.who.tenant \/ registry[r.scope].org = r.who.org
=============================================================================
