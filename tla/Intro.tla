------------------------------- MODULE Intro --------------------------------
(***************************************************************************)
(* Double-blind introductions at the collector: the match store's rows and *)
(* consents (matches.py), the help relay's threads (relay.py) and the      *)
(* endpoints of server.py that use them.                                   *)
(*                                                                         *)
(* The rows are written by the ingest (Collector.tla), one side per        *)
(* commit, so that a developer may hold a match the other side was never   *)
(* told of.  After it has read its body, an endpoint runs in one piece.    *)
(* Rows are never deleted and there is one per owner, peer and topic, so   *)
(* that triple stands for the row's id.                                    *)
(***************************************************************************)
EXTENDS Naturals, Sequences, FiniteSets, Functions

CONSTANTS
  People,        \* pseudonyms
  Topics,        \* topic labels
  Introducible,  \* the pairs the broker's walls let match, symmetric
  Limit,         \* for_owner's limit
  MaxMessages    \* bound: messages per thread

Sides == {s \in People \X People \X Topics : <<s[1], s[2]>> \in Introducible}

ASSUME IntroAssumption ==
  /\ Introducible \subseteq {p \in People \X People : p[1] # p[2]}
  /\ \A p \in Introducible : <<p[2], p[1]>> \in Introducible
  /\ Limit \in Nat \ {0}
  /\ MaxMessages \in Nat

VARIABLES
  rows,      \* the matches table: <<owner, peer, topic>>
  consents,  \* the consents table: <<owner, peer, topic>>
  threads,   \* the threads table in order of id: [a, b, topic]
  messages,  \* the messages table: thread -> senders, oldest first
  shown      \* identities that were shown: <<to whom, whose, topic>>

introVars == <<rows, consents, threads, messages, shown>>

Flip(s) == <<s[2], s[1], s[3]>>

-----------------------------------------------------------------------------
AnyRow(p) == rows                                  \* mutant: no owner in WHERE
OwnRows(p) == {s \in rows : s[1] = p}

\* for_owner: all of the caller's rows, or the latest Limit of them.  A match
\* that is hit again refreshes its row, so that any of them may be the latest.
ForOwner(p) ==
  {page \in SUBSET OwnRows(p) :
    Cardinality(page) = Limit \/ (page = OwnRows(p) /\ Cardinality(page) < Limit)}

\* mutant: consent on one topic counts for every topic
ConsentedOnAny(s) ==
  /\ \E t \in Topics : <<s[1], s[2], t>> \in consents
  /\ \E t \in Topics : <<s[2], s[1], t>> \in consents
MutuallyConsented(s) == {s, Flip(s)} \subseteq consents

IntroInit ==
  /\ rows = {}
  /\ consents = {}
  /\ threads = <<>>
  /\ messages = <<>>
  /\ shown = {}

\* The ingest records one side of a match, or refreshes it.
Surface(s) ==
  /\ rows' = rows \cup {s}
  /\ UNCHANGED <<consents, threads, messages, shown>>

\* GET /api/me: the page's rows that are not stale (which of them are is the
\* clock's choice), with the peer's card where the introduction is mutual.
Me(p) ==
  \E page \in ForOwner(p) : \E fresh \in SUBSET page :
    /\ shown' = shown \cup {s \in fresh : MutuallyConsented(s)}
    /\ UNCHANGED <<rows, consents, threads, messages>>

\* POST /api/collab/{id}/consent.  The process may end before the answer is out.
Consent(r) ==
  /\ consents' = consents \cup {r}
  /\ \/ shown' = IF MutuallyConsented(r)' THEN shown \cup {r} ELSE shown
     \/ UNCHANGED shown
  /\ UNCHANGED <<rows, threads, messages>>

\* mutant: the thread is looked up in the asker's direction only
ThreadFrom(a, b, t) ==
  {n \in DOMAIN threads : threads[n] = [a |-> a, b |-> b, topic |-> t]}
ThreadBetween(a, b, t) ==
  {n \in DOMAIN threads : threads[n].topic = t /\ {threads[n].a, threads[n].b} = {a, b}}

Post(p, n) ==
  /\ Len(messages[n]) < MaxMessages
  /\ messages' = [messages EXCEPT ![n] = Append(@, p)]
  /\ UNCHANGED <<rows, consents, threads, shown>>

\* A new thread is committed before its first message, which a kill may lose.
Open(p, r) ==
  /\ ThreadBetween(p, r[2], r[3]) = {}
  /\ threads' = Append(threads, [a |-> p, b |-> r[2], topic |-> r[3]])
  /\ messages' \in {Append(messages, <<p>>), Append(messages, <<>>)}
  /\ UNCHANGED <<rows, consents, shown>>

\* POST /api/collab/{id}/ask: into the pair's thread on that topic, or a new one.
Ask(p, r) ==
  \/ Open(p, r)
  \/ \E n \in ThreadBetween(p, r[2], r[3]) : Post(p, n)

MayReply(p, n) == TRUE                             \* mutant: anybody may
IsParticipant(p, n) == p \in {threads[n].a, threads[n].b}

\* POST /api/thread/{id}/reply
Reply(p, n) ==
  /\ IsParticipant(p, n)
  /\ Post(p, n)

\* The caller's consent is recorded under the caller's own name.
OnOwnRow(p) ==
  \E page \in ForOwner(p) : \E r \in page : Consent(<<p, r[2], r[3]>>) \/ Ask(p, r)

IntroNext ==
  \/ \E s \in Sides : Surface(s)
  \/ \E p \in People : Me(p) \/ OnOwnRow(p)
  \/ \E p \in People, n \in DOMAIN threads : Reply(p, n)

IntroSpec == IntroInit /\ [][IntroNext]_introVars

-----------------------------------------------------------------------------
(* Properties *)

\* Every part of the state has its shape.
IntroTypeOK ==
  /\ rows \subseteq Sides
  /\ consents \subseteq People \X People \X Topics
  /\ threads \in Seq([a : People, b : People, topic : Topics])
  /\ messages \in [DOMAIN threads -> Seq(People)]
  /\ shown \subseteq People \X People \X Topics

\* Whoever is shown an identity has asked for it, and so has the one shown, on
\* that topic: "an intro granted on one shared problem never auto-reveals
\* identity on a different, later match" (server.py 467-468).
ShownToBothWhoAsked == \A s \in shown : {s, Flip(s)} \subseteq consents

\* A consent is about a match its owner was told of, so that an introduction
\* joins only people the broker's walls allow, each of whom holds the match.
ConsentsWereMatched == consents \subseteq rows

\* A thread was opened by someone who was told of the match on its topic, with
\* the peer of that match, and carries messages of those two only.
ThreadsAmongMatched ==
  \A n \in DOMAIN threads :
    LET th == threads[n]
    IN /\ <<th.a, th.b, th.topic>> \in rows
       /\ Range(messages[n]) \subseteq {th.a, th.b}

\* Two people have one thread per topic, whoever asks first and however often.
OneThreadPerPair ==
  \A m, n \in DOMAIN threads :
    (threads[m].topic = threads[n].topic
       /\ {threads[m].a, threads[m].b} = {threads[n].a, threads[n].b}) => m = n

\* The endpoints implement the double-blind introduction.
Blind == INSTANCE DoubleBlind WITH
  told <- rows, asked <- consents, knows <- shown

ImplementsDoubleBlind == Blind!Spec
=============================================================================
