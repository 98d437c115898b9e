----------------------------- MODULE Collector ------------------------------
(***************************************************************************)
(* The collector's ingest endpoint (POST /v1/derived in server.py) and the *)
(* stores it writes: the derived store, the team memory, the broker, the   *)
(* match store, the capsules and the reuse-yield ledger.                   *)
(*                                                                         *)
(* One asyncio process handles the requests, and a handler does not await  *)
(* after it has read the body, so requests are handled one after another.  *)
(* What interleaves with a request is the tenant registry, which           *)
(* `abenlux tenant create` writes from another process, and the end of the *)
(* process between any two commits: every store commits by itself, and the *)
(* broker and the team memory live in memory only.                         *)
(*                                                                         *)
(* The edge delivers at least once (Sink.tla), so a batch arrives again    *)
(* after a lost answer.  Prices, token counts and the similarity a row     *)
(* displays are left out: no property here tells them apart.               *)
(***************************************************************************)
EXTENDS Broker, FiniteSets

CONSTANTS
  Items,          \* the entries of the batches
  Fact,           \* what each entry says, a record per item
  Batches,        \* the batches the edges send, sequences of items
  MaxArrivals,    \* bound: batches that arrive, the redelivered ones included
  Identities,     \* whether principals may be, or may not be, configured
  Principal,      \* ABEN_PRINCIPALS: known actor -> tenant
  Client,         \* the knowledge graph: known objective -> client or NoTag
  Provisioned,    \* the tenants table at the start
  Registrations,  \* bound: the tenants administrators create or update
  TeamMemoryOn,   \* ABEN_TM
  Serve, Warm,    \* the similarities of team memory's two tiers, in percent
  Cap,            \* ABEN_TM_CAP, entries kept per tenant
  NoMatch         \* a row team memory did not stamp

Tenants == {Fact[i].tenant : i \in Items} \cup {Principal[a] : a \in DOMAIN Principal}
Actors == {Fact[i].actor : i \in Items}

ASSUME CollectorAssumption ==
  /\ Batches \subseteq Seq(Items)
  /\ MaxArrivals \in Nat
  /\ Identities \subseteq BOOLEAN
  /\ Items \cap {NoMatch} = {}
  /\ Cap \in Nat \ {0}
  /\ \A i \in Items : Fact[i].emb \in Embeddings \cup {NoTag}
  /\ \A t \in DOMAIN Provisioned : Provisioned[t] \in [org : STRING, residency : STRING]
  /\ \A r \in Registrations : r.org \in STRING /\ r.residency \in STRING

VARIABLES
  registry,  \* the tenants table: tenant -> [org, residency]
  identity,  \* whether ABEN_PRINCIPALS is configured; never changes
  arrived,   \* how many batches have arrived
  req,       \* the request being handled
  signals,   \* _broker.signals
  memory,    \* _TEAM_MEMORY: tenant -> sequence of items
  derived,   \* the derived table: item -> [tenant, stamp]
  matches,   \* the matches table: <<owner, peer, topic>> -> mode
  capsules,  \* the capsules table: <<pseudonym, topic>>
  ledger     \* the avoided table: opportunity -> mode

vars == <<registry, identity, arrived, req, signals, memory, derived, matches,
          capsules, ledger>>
stores == <<derived, matches, capsules, ledger>>

\* A table or dictionary f with the entry of k inserted or replaced by v.
With(f, k, v) == [x \in DOMAIN f \cup {k} |-> IF x = k THEN v ELSE f[x]]

-----------------------------------------------------------------------------
(* Whom a record belongs to, and on which side of the walls it stands. *)

ClaimedTenant(i) == Fact[i].tenant                 \* mutant: the edge's claim

\* The tenant of the authenticated developer, when principals are configured.
TenantOf(i) == IF identity THEN Principal[Fact[i].actor] ELSE Fact[i].tenant

\* The malformed entries and the unknown actors are rejected.
Accepted(i) ==
  /\ Fact[i].wellformed
  /\ identity => Fact[i].actor \in DOMAIN Principal

\* _org_for and _residency_for without their cache.  An unregistered tenant is
\* an org of its own and stays where its edge says it is.
Registered(i) ==
  LET t == TenantOf(i)
  IN IF t \in DOMAIN registry
     THEN [org |-> <<"org", registry[t].org>>, residency |-> registry[t].residency]
     ELSE [org |-> <<"unreg", t>>, residency |-> Fact[i].residency]

\* org_cache: a tenant is looked up once per batch.
Place(i) ==
  IF TenantOf(i) \in DOMAIN req.cache THEN req.cache[TenantOf(i)] ELSE Registered(i)

Known(o) == o \in DOMAIN Client

Signal(i) ==
  [actor     |-> Fact[i].actor,
   emb       |-> Fact[i].emb,
   topic     |-> Fact[i].topic,
   client    |-> IF Known(Fact[i].objective) THEN Client[Fact[i].objective] ELSE NoTag,
   residency |-> Place(i).residency,
   org       |-> Place(i).org,
   objective |-> IF Known(Fact[i].objective) THEN Fact[i].objective ELSE NoTag,
   solved    |-> Fact[i].solved]

\* The early returns of _match_centrally.
Matchable(i) == Fact[i].emb # NoTag /\ Fact[i].objective # NoTag

-----------------------------------------------------------------------------
(* Team memory: the closest entry of another developer of the same tenant. *)

\* mutant: an own entry counts as a teammate's
AnyEntries(i, entries) == DOMAIN entries
\* Where the entries of others are.
Teammates(i, entries) == {n \in DOMAIN entries : Fact[entries[n]].actor # Fact[i].actor}

Closeness(i, e) == Similarity[<<Fact[i].emb, Fact[e].emb>>]

\* The first of the closest ones.
Closest(i, entries) ==
  LET Close(n) == Closeness(i, entries[n])
  IN {n \in Teammates(i, entries) : \A m \in Teammates(i, entries) :
        Close(m) < Close(n) \/ (Close(m) = Close(n) /\ n <= m)}

\* The two tiers; an answer is served only to the same stack.
TierOf(i, e) ==
  IF Closeness(i, e) >= Serve /\ Fact[i].stack # NoTag /\ Fact[i].stack = Fact[e].stack
  THEN <<"serve", e>>
  ELSE IF Closeness(i, e) >= Warm THEN <<"warm_start", e>> ELSE NoMatch

Stamp(i) ==
  LET known == IF TenantOf(i) \in DOMAIN memory THEN memory[TenantOf(i)] ELSE <<>>
      closest == Closest(i, known)
  IN IF ~TeamMemoryOn \/ Fact[i].emb = NoTag \/ closest = {}
     THEN NoMatch
     ELSE TierOf(i, known[CHOOSE n \in closest : TRUE])

\* add(): the entry goes to the end of its tenant's list, the first one goes
\* when the list is over its cap.
Remembered(i) ==
  LET t == TenantOf(i)
      longer == Append(IF t \in DOMAIN memory THEN memory[t] ELSE <<>>, i)
  IN IF ~TeamMemoryOn \/ Fact[i].emb = NoTag
     THEN memory
     ELSE With(memory, t, IF Len(longer) > Cap THEN Tail(longer) ELSE longer)

-----------------------------------------------------------------------------
(* The commits that follow a match, in the order of the code. *)

Row(owner, peer, topic, mode) ==
  [op |-> "row", key |-> <<owner, peer, topic>>, mode |-> mode]

\* _dedup_key: tenant, unordered pair, objective, work type.
Opportunity(i, m) ==
  [op |-> "book", key |-> <<TenantOf(i), {m.a, m.b}, Fact[i].objective, Fact[i].work>>,
   mode |-> m.mode]

\* _book_avoided books against a known objective, or any when there is none.
Books(i, m) ==
  IF DOMAIN Client # {} /\ ~Known(Fact[i].objective) THEN <<>> ELSE <<Opportunity(i, m)>>

Rows(m) == <<Row(m.a, m.b, m.topic, m.mode), Row(m.b, m.a, m.topic, m.mode)>>

BookFirst(i, m) == Books(i, m) \o Rows(m)          \* mutant: book, then tell
WritesFor(i, m) == Rows(m) \o Books(i, m)

BookedLast(w) == With(ledger, w.key, w.mode)       \* mutant: last one wins

\* The conditional upsert of LedgerStore.book: only live -> solved updates.
Booked(w) ==
  IF w.key \in DOMAIN ledger
     /\ ~(ledger[w.key] = "live_duplication" /\ w.mode = "solved_reuse")
  THEN ledger
  ELSE With(ledger, w.key, w.mode)

\* MatchStore.record: one row per owner, peer and topic, refreshed.
Recorded(w) == With(matches, w.key, w.mode)

\* CapsuleStore.record_solved: one capsule per solver and topic, refreshed.
WithCapsule(i) == capsules \cup {<<Fact[i].actor, Fact[i].topic>>}

-----------------------------------------------------------------------------
\* items: the entries to handle, the one at hand first; found: its matches;
\* at, done: the match whose commits are being made, and how many of them are.
Idle ==
  [stage |-> "idle", items |-> <<>>, cache |-> <<>>, found |-> <<>>, at |-> 1, done |-> 0]

Init ==
  /\ registry = Provisioned
  /\ identity \in Identities
  /\ arrived = 0
  /\ req = Idle
  /\ signals = <<>>
  /\ memory = <<>>
  /\ derived = <<>>
  /\ matches = <<>>
  /\ capsules = {}
  /\ ledger = <<>>

\* A batch arrives, for the first time or again, and the handler starts.
Receive(b) ==
  /\ req.stage = "idle"
  /\ arrived < MaxArrivals
  /\ arrived' = arrived + 1
  /\ req' = [Idle EXCEPT !.stage = "next", !.items = b]
  /\ UNCHANGED <<registry, identity, signals, memory, stores>>

Current == Head(req.items)

\* The request once the item at hand is handled, with what is cached by then.
NextItem(cache) ==
  [stage |-> "next", items |-> Tail(req.items), cache |-> cache,
   found |-> <<>>, at |-> 1, done |-> 0]

\* `rejected += 1; continue`
RejectItem ==
  /\ req.stage = "next" /\ req.items # <<>>
  /\ ~Accepted(Current)
  /\ req' = NextItem(req.cache)
  /\ UNCHANGED <<registry, identity, arrived, signals, memory, stores>>

\* Team memory looks the record up and adds it; the row is written or replaced.
Admit ==
  /\ req.stage = "next" /\ req.items # <<>>
  /\ Accepted(Current)
  /\ memory' = Remembered(Current)
  /\ derived' = With(derived, Current,
                     [tenant |-> TenantOf(Current), stamp |-> Stamp(Current)])
  /\ req' = [req EXCEPT !.stage = "match"]
  /\ UNCHANGED <<registry, identity, arrived, signals, matches, capsules, ledger>>

\* The insert raises (the database stays locked): the item is rejected, but
\* team memory already has it.
AdmitFails ==
  /\ req.stage = "next" /\ req.items # <<>>
  /\ Accepted(Current)
  /\ memory' = Remembered(Current)
  /\ req' = NextItem(req.cache)
  /\ UNCHANGED <<registry, identity, arrived, signals, stores>>

CachePlace == With(req.cache, TenantOf(Current), Place(Current))

\* No embedding or no objective: nothing to match on.
SkipMatching ==
  /\ req.stage = "match"
  /\ ~Matchable(Current)
  /\ req' = NextItem(CachePlace)
  /\ UNCHANGED <<registry, identity, arrived, signals, memory, stores>>

\* The capsule is kept (its own failure is swallowed), the broker matches and
\* keeps the signal, and the commits the matches call for are due.
Submit ==
  LET i == Current
      found == Matches(signals, Signal(i))
  IN /\ req.stage = "match"
     /\ Matchable(i)
     /\ \/ Fact[i].solved /\ Known(Fact[i].objective)
           /\ capsules' = WithCapsule(i)
        \/ UNCHANGED capsules
     /\ signals' = Retained(signals, Signal(i))
     /\ req' = IF 1 \in DOMAIN found
               THEN [req EXCEPT !.stage = "write", !.found = found, !.cache = CachePlace]
               ELSE NextItem(CachePlace)
     /\ UNCHANGED <<registry, identity, arrived, memory, derived, matches, ledger>>

\* One commit of the match at hand.
Write ==
  LET due == WritesFor(Current, req.found[req.at])
      w == due[req.done + 1]
  IN /\ req.stage = "write"
     /\ IF w.op = "row"
        THEN matches' = Recorded(w) /\ UNCHANGED ledger
        ELSE ledger' = Booked(w) /\ UNCHANGED matches
     /\ req' = IF req.done + 1 < Len(due) THEN [req EXCEPT !.done = @ + 1]
               ELSE IF req.at + 1 \in DOMAIN req.found
               THEN [req EXCEPT !.at = @ + 1, !.done = 0]
               ELSE NextItem(req.cache)
     /\ UNCHANGED <<registry, identity, arrived, signals, memory, derived, capsules>>

\* A commit raises: the item is rejected and the rest of its commits are not
\* made.
WriteFails ==
  /\ req.stage = "write"
  /\ req' = NextItem(req.cache)
  /\ UNCHANGED <<registry, identity, arrived, signals, memory, stores>>

\* The answer; the edge hears it or will send the batch again.
Reply ==
  /\ req.stage = "next" /\ req.items = <<>>
  /\ req' = Idle
  /\ UNCHANGED <<registry, identity, arrived, signals, memory, stores>>

\* The process ends and starts again with what was committed.
Crash ==
  /\ req' = Idle
  /\ signals' = <<>>
  /\ memory' = <<>>
  /\ UNCHANGED <<registry, identity, arrived, stores>>

\* TenantStore.upsert from another process: an owned tenant stays with its org.
Register(r) ==
  /\ r.tenant \in DOMAIN registry => registry[r.tenant].org = r.org
  /\ registry' = With(registry, r.tenant, [org |-> r.org, residency |-> r.residency])
  /\ UNCHANGED <<identity, arrived, req, signals, memory, stores>>

Next ==
  \/ \E b \in Batches : Receive(b)
  \/ RejectItem
  \/ Admit
  \/ AdmitFails
  \/ SkipMatching
  \/ Submit
  \/ Write
  \/ WriteFails
  \/ Reply
  \/ Crash
  \/ \E r \in Registrations : Register(r)

Spec == Init /\ [][Next]_vars

-----------------------------------------------------------------------------
(* Properties *)

\* Types, and the bounds of the two lists the collector keeps in memory: the
\* broker holds one signal per developer and at most max_signals (broker.py
\* 112-115), team memory at most ABEN_TM_CAP entries per tenant.
TypeOK ==
  /\ \A t \in DOMAIN registry : registry[t] \in [org : STRING, residency : STRING]
  /\ identity \in BOOLEAN
  /\ arrived \in 0..MaxArrivals
  /\ req.stage \in {"idle", "next", "match", "write"}
  /\ Len(signals) <= MaxSignals
  /\ \A m, n \in DOMAIN signals : signals[m].actor = signals[n].actor => m = n
  /\ \A t \in DOMAIN memory : Len(memory[t]) <= Cap
  /\ DOMAIN derived \subseteq Items
  /\ DOMAIN matches \subseteq Actors \X Actors \X {Fact[i].topic : i \in Items}
  /\ capsules \subseteq Actors \X {Fact[i].topic : i \in Items}
  /\ \A k \in DOMAIN ledger : ledger[k] \in {"live_duplication", "solved_reuse"}

\* With principals configured no row, no team-memory entry and no booked saving
\* is in a tenant other than that of an authenticated developer it is about,
\* whatever the edge claimed (server.py 265-271).
BoundTenant ==
  identity =>
    /\ \A i \in DOMAIN derived : derived[i].tenant = Principal[Fact[i].actor]
    /\ \A t \in DOMAIN memory : \A n \in DOMAIN memory[t] :
         Principal[Fact[memory[t][n]].actor] = t
    /\ \A k \in DOMAIN ledger : \E a \in k[2] : Principal[a] = k[1]

\* The tenants of two records are one, or belong to one registered org.
SameOrg(i, j) ==
  \/ derived[i].tenant = derived[j].tenant
  \/ /\ {derived[i].tenant, derived[j].tenant} \subseteq DOMAIN registry
     /\ registry[derived[i].tenant].org = registry[derived[j].tenant].org

ClientOf(i) == IF Known(Fact[i].objective) THEN Client[Fact[i].objective] ELSE NoTag

\* Whoever is told of a match was matched for a reason that is in the store:
\* two stored records of the two developers, in one org, under one client tag,
\* similar enough for their bar, one of which has the topic shown.  However
\* tenants are registered meanwhile, records are redelivered and the process is
\* restarted, no row crosses the org wall or the Chinese wall (broker.py 11-16).
MatchHasWitness ==
  \A k \in DOMAIN matches : \E i, j \in {n \in DOMAIN derived : Matchable(n)} :
    /\ <<Fact[i].actor, Fact[j].actor>> = <<k[1], k[2]>>
    /\ k[1] # k[2]
    /\ k[3] \in {Fact[i].topic, Fact[j].topic}
    /\ SameOrg(i, j)
    /\ ClientOf(i) = ClientOf(j)
    /\ Similarity[<<Fact[i].emb, Fact[j].emb>>] >= Bar(Signal(i), Signal(j))

\* A saving is booked only for a pair who were both told of their match, even
\* when commits fail or the process ends between them (server.py 417-423).
BookedAreMatched ==
  \A k \in DOMAIN ledger : \E a, b \in k[2] : \E t \in {Fact[i].topic : i \in Items} :
    /\ a # b
    /\ {<<a, b, t>>, <<b, a, t>>} \subseteq DOMAIN matches

\* "a concurrent live-duplication can never downgrade a confirmed solved-reuse"
\* (ledger.py 138-139), and nothing booked is ever forgotten.
LedgerNeverDowngrades ==
  [][\A k \in DOMAIN ledger :
       /\ k \in DOMAIN ledger'
       /\ ledger[k] = "solved_reuse" => ledger'[k] = "solved_reuse"]_ledger

\* A stamp points to a stored or once-admitted record of another developer of
\* the same tenant (teammemory.py 3-4), which is close enough for its tier,
\* through redeliveries and restarts.
StampedByTeammate ==
  \A i \in DOMAIN derived : derived[i].stamp # NoMatch =>
    LET e == derived[i].stamp[2]
    IN /\ Fact[e].actor # Fact[i].actor
       /\ (IF identity THEN Principal[Fact[e].actor] ELSE Fact[e].tenant)
            = derived[i].tenant
       /\ Closeness(i, e) >= (IF derived[i].stamp[1] = "serve" THEN Serve ELSE Warm)
=============================================================================
