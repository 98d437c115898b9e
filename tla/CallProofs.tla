------------------------------ MODULE CallProofs ------------------------------
(***************************************************************************)
(* What is put on record of a call, for any calls a tool may make, however *)
(* their bytes are cut, and for any buffer, prices and settings.           *)
(*                                                                         *)
(* The books agree.  A handler's record is the event of its own copy, a    *)
(* cost of its tokens by the price table on the model the decided route    *)
(* has put on the request; BooksInv says so at every place of the handler. *)
(*                                                                         *)
(* The request is whole.  What was received and what is still to come is   *)
(* what the tool sends, as long as it stays (WholeInv); so it is all there *)
(* when the end of the head, the length or the last chunk is seen, and     *)
(* none of these is seen before: the frame of a chunked body repeats after *)
(* four atoms, and its end fits nowhere but at its end.                    *)
(*                                                                         *)
(* The bill is right.  What ReadStream makes of an answer is the end of a  *)
(* run over its frames, one run for each API (ReadStreamIs, ARun).  A part *)
(* of an answer misses usage that a later frame tells, and is estimated; a *)
(* whole one misses none.  What was captured is a beginning of the answer  *)
(* (CapturedInv), all of it if it fits.  For a tool that tells its calls   *)
(* itself, one item of its exports is read as a call, and ToldInv follows  *)
(* it from the tool to the collector.                                      *)
(*                                                                         *)
(* The turns are kept.  Each strategy leaves the turns and parts where     *)
(* they are, and passes by what the model said: by its role, or because    *)
(* none of it is a tool's output (TurnsStay).  Of the tools one of each is *)
(* left, by a run over them like that over the frames (RunOver).           *)
(***************************************************************************)
EXTENDS Call, FiniteSetTheorems, WellFoundedInduction, TLAPS

\* A set of naturals that has a member has a least one.
LEMMA LeastNatural ==
  ASSUME NEW S \in SUBSET Nat, S # {}
  PROVE  \E m \in S : \A k \in S : m <= k
<1>1. PICK m \in S : \A k \in S : ~(<<k, m>> \in OpToRel(<, Nat))
  BY NatLessThanWellFounded, WFMin
<1>2. \A k \in S : k \in Nat /\ m \in Nat /\ ~(k < m)
  BY <1>1 DEF OpToRel
<1> QED BY <1>2

-----------------------------------------------------------------------------
(* Prices *)

\* The key a model is priced by is one of those its name starts with: among
\* finitely many of them one is the longest.
LEMMA PriceKeyIs ==
  ASSUME NEW m, Matching(m) # {}
  PROVE  PriceKey(m) \in Matching(m)
<1> DEFINE keys == Matching(m)
           Longer(k) == {j \in keys : KeyLength[j] > KeyLength[k]}
           counts == {Cardinality(Longer(k)) : k \in keys}
<1>1. IsFiniteSet(keys) /\ keys \subseteq DOMAIN Prices
  BY PricingAssumption DEF Matching
<1>2. \A k \in keys : KeyLength[k] \in Nat
  BY <1>1, PricingAssumption
<1>3. \A k \in keys : IsFiniteSet(Longer(k)) /\ Cardinality(Longer(k)) \in Nat
  <2> TAKE k \in keys
  <2>1. Longer(k) \subseteq keys
    OBVIOUS
  <2>2. IsFiniteSet(Longer(k))
    <3> HIDE DEF Longer, keys
    <3> QED BY <1>1, <2>1, FS_Subset
  <2> HIDE DEF Longer, keys
  <2> QED BY <2>2, FS_CardinalityType
<1>4. PICK least \in counts : \A n \in counts : least <= n
  <2>1. counts \in SUBSET Nat /\ counts # {}
    BY <1>3
  <2> HIDE DEF counts
  <2> QED BY <2>1, LeastNatural
<1>5. PICK k \in keys : least = Cardinality(Longer(k))
  BY <1>4
<1>6. \A j \in keys : KeyLength[j] <= KeyLength[k]
  <2> SUFFICES ASSUME NEW j \in keys, ~(KeyLength[j] <= KeyLength[k])
               PROVE  FALSE
    OBVIOUS
  <2>1. Longer(j) \subseteq Longer(k) /\ j \in Longer(k) /\ j \notin Longer(j)
    BY <1>2
  <2>2. Cardinality(Longer(j)) < Cardinality(Longer(k))
    <3>1. Longer(j) # Longer(k)
      BY <2>1
    <3>2. IsFiniteSet(Longer(k)) /\ Longer(j) \subseteq Longer(k)
      BY <1>3, <2>1
    <3>3. Cardinality(Longer(j)) <= Cardinality(Longer(k))
          /\ (Cardinality(Longer(k)) = Cardinality(Longer(j)) => Longer(k) = Longer(j))
      <4> HIDE DEF Longer
      <4> QED BY <3>2, FS_Subset
    <3>4. Cardinality(Longer(j)) \in Nat /\ Cardinality(Longer(k)) \in Nat
      BY <1>3
    <3> QED BY <3>1, <3>3, <3>4
  <2>3. Cardinality(Longer(k)) <= Cardinality(Longer(j))
    BY <1>4, <1>5
  <2>4. Cardinality(Longer(j)) \in Nat /\ Cardinality(Longer(k)) \in Nat
    BY <1>3
  <2> QED BY <2>2, <2>3, <2>4
<1> QED BY <1>6 DEF PriceKey

\* A call without tokens costs nothing.
LEMMA NothingIsFree == \A m : CostUsd(m, NoUsage).total = 0
<1> TAKE m
<1>1. CASE Matching(m) = {}
  BY <1>1 DEF CostUsd
<1>2. CASE Matching(m) # {}
  <2>1. PriceKey(m) \in DOMAIN Prices
    BY <1>2, PriceKeyIs, PricingAssumption DEF Matching
  <2>2. Prices[PriceKey(m)] \in [input : Nat, output : Nat, read : Nat, write : Nat]
    BY <2>1, PricingAssumption
  <2> DEFINE p == Prices[PriceKey(m)]
  <2>3. CostUsd(m, NoUsage).total = 0 * p.input + 0 * p.output + 0 * p.read + 0 * p.write
    BY <1>2 DEF CostUsd, NoUsage
  <2>4. p.input \in Nat /\ p.output \in Nat /\ p.read \in Nat /\ p.write \in Nat
    BY <2>2
  <2> QED BY <2>3, <2>4
<1> QED BY <1>1, <1>2

\* What is said once of a sequence and of one that follows it is said of both.
LEMMA Joined ==
  ASSUME NEW S, NEW s \in Seq(S), NEW t \in Seq(S)
  PROVE  /\ s \o t \in Seq(S)
         /\ \A i \in DOMAIN (s \o t) :
              \/ i \in DOMAIN s /\ (s \o t)[i] = s[i]
              \/ i - Len(s) \in DOMAIN t /\ (s \o t)[i] = t[i - Len(s)]
OBVIOUS

\* What a provider tells of a whole answer is read as what it charges.
LEMMA BodyIsBilled ==
  ASSUME NEW a \in Asks, IsACall(Ask[a]), NEW m, 
         Ask[a].bill \in [input : Nat, output : Nat, read : Nat, written : Nat]
  PROVE  ReadBody(Ask[a].body.api, Head(OneBody(Ask[a].body.api, m, Ask[a].bill, Ask[a].words))).usage
           = Ask[a].bill
<1> DEFINE api == Ask[a].body.api
           bill == Ask[a].bill
           frame == Frame("body", Ask[a].words, Reported(api, bill, bill.output), "stop", m)
<1>1. Head(OneBody(api, m, bill, Ask[a].words)) = frame
  BY DEF OneBody
<1>2. Reported(api, bill, bill.output) # None
  <2>1. bill.output \in 0..(bill.output + 1)
    OBVIOUS
  <2> QED BY <2>1 DEF IsACall
<1>3. frame.usage = Reported(api, bill, bill.output)
  BY DEF Frame
<1>4. bill = [input |-> bill.input, output |-> bill.output, read |-> bill.read, written |-> bill.written]
      /\ bill.input \in Nat /\ bill.output \in Nat /\ bill.read \in Nat /\ bill.written \in Nat
  OBVIOUS
<1>5. CASE api = "anthropic"
  <2>1. ReadBody(api, frame).usage = AsTold(frame.usage)
    BY <1>2, <1>3, <1>5 DEF ReadBody, AnthropicBody, InOnePiece
  <2>2. AsTold(frame.usage) = bill
    BY <1>3, <1>4, <1>5 DEF AsTold, Reported
  <2> QED BY <1>1, <2>1, <2>2
<1>6. CASE api # "anthropic"
  <2>1. ReadBody(api, frame).usage = Split(frame.usage)
    BY <1>2, <1>3, <1>6 DEF ReadBody, OpenAiBody, ResponsesBody, GeminiBody, InOnePiece
  <2>2. bill.written = 0
    BY <1>6 DEF IsACall
  <2>3. Less(bill.input + bill.read, bill.read) = bill.input
    BY <1>4 DEF Less
  <2>4. Split(frame.usage) = [input |-> Less(bill.input + bill.read, bill.read), output |-> bill.output,
                              read |-> bill.read, written |-> 0]
    BY <1>3, <1>6 DEF Split, Reported
  <2> QED BY <1>1, <1>4, <2>1, <2>2, <2>3, <2>4
<1> QED BY <1>5, <1>6

-----------------------------------------------------------------------------
(* The handler, as far as the books are concerned *)

\* A request that did not parse is nothing, and nothing rewrites it.
ParsedInv == data = Ask[ask].data \/ (body = Nobody /\ todo = <<>>)

\* Where the handler has no request yet.
BeforeParse == {"connecting", "head", "body", "broken", "tunnelled", "parsing"}

\* Before the router there is no route and no record of the answer; after it the
\* request has the model of the route.
RouteInv ==
  /\ stage \in BeforeParse \cup {"compressing"} => route = None
  /\ stage \in BeforeParse => body = Nobody /\ todo = <<>>
  /\ route # None =>
       /\ route.from \in Strong /\ route.from # None
       /\ route.to # None /\ route.to # route.from
       /\ model = IF mode = "on" THEN route.to ELSE route.from

\* A repeat is of a whole answer, of a request that parsed, and of no telemetry.
RepeatInv ==
  repeated => /\ stage \in {"capturing", "ended"}
              /\ captured = Answer(ask) /\ ~Streamed /\ body # Nobody

\* The collector books what the copy of the developer says.
Booked(own) ==
  LET booked == Hardened(own)
  IN booked.record.cost.total = own.record.cost.total /\ booked.route = own.route
IsRepeat(own, bill) == own.record.cost.total = 0 /\ own.saved = bill.input

\* What the books rest on, at every place of the handler.
BooksInv ==
  /\ ask \in Asks
  /\ stage \in {"telling", "told"} <=> Ask[ask].door = "telemetry"
  /\ repeated \in BOOLEAN
  /\ ParsedInv /\ RouteInv /\ RepeatInv
  /\ stage \notin {"ended", "telling", "told"} => records = <<>>
  /\ records \in Seq(ToSet(records))
  /\ stage = "telling" => frames \in Seq(ToSet(Ask[ask].exports))
  /\ \A i \in DOMAIN records : Booked(records[i])
  /\ repeated => \A i \in DOMAIN records : IsRepeat(records[i], Ask[ask].bill)

\* A record that costs what its tokens cost, and which route was decided, if one
\* was, as the model on it shows.
LEMMA RecordIsBooked ==
  ASSUME NEW own, NEW m, NEW usage, NEW words, NEW estimated, NEW cost, NEW tosave, NEW off, NEW way,
         own = [record |-> [model |-> m, usage |-> usage, words |-> words,
                            estimated |-> estimated, cost |-> cost],
                saved |-> tosave, shadow |-> off, route |-> way],
         cost.total = CostUsd(m, usage).total,
         \/ way = Unrouted
         \/ \E decision :
              /\ decision.from # None /\ decision.to # decision.from
              /\ m = IF mode = "on" THEN decision.to ELSE decision.from
              /\ way = Routed(decision, usage)
  PROVE  Booked(own)
<1>1. own.record.model = m /\ own.record.usage = usage /\ own.record.cost = cost
      /\ own.saved = tosave /\ own.route = way
  OBVIOUS
<1> DEFINE priced == CostUsd(m, usage)
           saves == SavingUsd(way.from, way.to, usage)
           realized == m = way.to
           real == IF way.from # None /\ realized THEN saves ELSE 0
           could == IF way.from # None /\ ~realized THEN saves ELSE 0
<1>2. Hardened(own) = [own EXCEPT !.record.cost = priced, !.route.realized = real, !.route.shadow = could]
  BY <1>1 DEF Hardened
<1>3. Hardened(own).record.cost = priced
  <2> HIDE DEF priced, real, could
  <2> DEFINE first == [own EXCEPT !.record.cost = priced]
  <2>1. first.record.cost = priced /\ "record" \in DOMAIN first
    BY <1>1
  <2>2. Hardened(own) = [first EXCEPT !.route.realized = real, !.route.shadow = could]
    BY <1>2
  <2>3. Hardened(own).record = first.record
    <3> HIDE DEF first
    <3> QED BY <2>1, <2>2
  <2> HIDE DEF first
  <2> QED BY <2>1, <2>3
<1>4. Hardened(own).route = [way EXCEPT !.realized = real, !.shadow = could]
  <2> HIDE DEF priced, real, could
  <2> DEFINE first == [own EXCEPT !.record.cost = priced]
             second == [first EXCEPT !.route.realized = real]
  <2>1. first.route = way /\ "route" \in DOMAIN first
    BY <1>1
  <2>2. second.route = [way EXCEPT !.realized = real] /\ "route" \in DOMAIN second
    <3> HIDE DEF first
    <3> QED BY <2>1
  <2>3. Hardened(own) = [second EXCEPT !.route.shadow = could]
    BY <1>2
  <2>4. Hardened(own).route = [second.route EXCEPT !.shadow = could]
    <3> HIDE DEF second
    <3> QED BY <2>2, <2>3
  <2> QED BY <2>2, <2>4
<1>5. way = [way EXCEPT !.realized = real, !.shadow = could]
  <2>1. CASE way = Unrouted
    <3>1. real = 0 /\ could = 0
      BY <2>1 DEF Unrouted
    <3>2. [Unrouted EXCEPT !.realized = 0] = Unrouted
      BY DEF Unrouted
    <3>3. [Unrouted EXCEPT !.shadow = 0] = Unrouted
      BY DEF Unrouted
    <3> HIDE DEF real, could
    <3> QED BY <2>1, <3>1, <3>2, <3>3
  <2>2. CASE way # Unrouted
    <3>1. PICK decision :
              /\ decision.from # None /\ decision.to # decision.from
              /\ m = IF mode = "on" THEN decision.to ELSE decision.from
              /\ way = Routed(decision, usage)
      BY <2>2
    <3>2. way = [from |-> decision.from, to |-> decision.to,
                 realized |-> IF mode = "on" THEN SavingUsd(decision.from, decision.to, usage) ELSE 0,
                 shadow |-> IF mode = "on" THEN 0 ELSE SavingUsd(decision.from, decision.to, usage)]
      BY <3>1 DEF Routed
    <3>3. way.from = decision.from /\ way.to = decision.to
      BY <3>2
    <3>4. realized <=> mode = "on"
      BY <3>1, <3>3
    <3>5. real = way.realized /\ could = way.shadow
      BY <3>1, <3>2, <3>3, <3>4
    <3> QED BY <3>2, <3>5
  <2> QED BY <2>1, <2>2
<1> QED BY <1>1, <1>3, <1>4, <1>5 DEF Booked

\* Whether an answer is streamed, and what it is, follows from what stays.
LEMMA SameAnswer ==
  ASSUME UNCHANGED <<ask, data, model>>
  PROVE  Streamed' = Streamed /\ Answer(ask)' = Answer(ask)
BY DEF Streamed, Answer, Answering

\* A step of the handler that changes no more than where it is, or what it has
\* received or passed on.
LEMMA OnlyMoves ==
  ASSUME BooksInv, UNCHANGED <<settings, data, request, repeated, records>>,
         repeated => captured' = captured,
         stage' \in BeforeParse => stage \in BeforeParse,
         stage' = "compressing" => stage = "compressing",
         stage' \in {"telling", "told"} <=> stage \in {"telling", "told"},
         stage' = "telling" => stage = "telling" /\ frames' = frames,
         repeated => stage' \in {"capturing", "ended"},
         stage' \notin {"ended", "telling", "told"} => records = <<>>
  PROVE  BooksInv'
<1>1. ask' = ask /\ mode' = mode /\ data' = data /\ model' = model /\ repeated' = repeated
      /\ body' = body /\ todo' = todo /\ route' = route /\ records' = records
  BY DEF settings, request
<1>2. Streamed' = Streamed /\ Answer(ask)' = Answer(ask)
  BY <1>1, SameAnswer
<1>3. RouteInv'
  BY <1>1 DEF BooksInv, RouteInv
<1>4. RepeatInv'
  BY <1>1, <1>2 DEF BooksInv, RepeatInv
<1>5. ParsedInv'
  BY <1>1 DEF BooksInv, ParsedInv
<1>6. /\ \A i \in DOMAIN records' : Booked(records'[i])
      /\ repeated' => \A i \in DOMAIN records' : IsRepeat(records'[i], Ask[ask'].bill)
  BY <1>1 DEF BooksInv
<1>7. stage' = "telling" => frames' \in Seq(ToSet(Ask[ask'].exports))
  BY <1>1 DEF BooksInv
<1>8. ToSet(records)' = ToSet(records)
  BY <1>1
<1> QED BY <1>1, <1>3, <1>4, <1>5, <1>6, <1>7, <1>8 DEF BooksInv

-----------------------------------------------------------------------------
(* The record of a call *)

\* The record that is made of a captured answer.
LEMMA CapturedIsBooked ==
  ASSUME BooksInv, stage = "capturing", Streamed \/ Read # <<>>,
         NEW event, event = BuildEvent(Ask[ask].body.api, body, model, Streamed, Read)
  PROVE  LET own == Facts(Record(event), event.usage)
         IN Booked(own) /\ (repeated => IsRepeat(own, Ask[ask].bill))
<1> DEFINE rec == Record(event)
           kept == IF repeated THEN Free(rec) ELSE rec
           own == Facts(rec, event.usage)
<1>1. rec = [model |-> event.model, usage |-> event.usage, words |-> event.words,
             estimated |-> event.estimated, cost |-> CostUsd(event.model, event.usage)]
  BY DEF Record
<1>2. kept = [model |-> kept.model, usage |-> kept.usage, words |-> kept.words,
              estimated |-> kept.estimated, cost |-> kept.cost]
      /\ kept.model = event.model
  <2>1. CASE repeated
    <3>1. Free(rec) = [rec EXCEPT !.usage = NoUsage, !.cost = [total |-> 0, priced |-> TRUE]]
      BY DEF Free
    <3>2. kept = [rec EXCEPT !.usage = NoUsage, !.cost = [total |-> 0, priced |-> TRUE]]
      BY <2>1, <3>1
    <3> HIDE DEF kept, rec
    <3> QED BY <1>1, <3>2
  <2>2. CASE ~repeated
    <3>1. kept = rec
      BY <2>2
    <3> HIDE DEF kept, rec
    <3> QED BY <1>1, <3>1
  <2> QED BY <2>1, <2>2
<1>3. kept.cost.total = CostUsd(kept.model, kept.usage).total
  <2>1. CASE repeated
    <3>1. kept.usage = NoUsage /\ kept.cost.total = 0
      BY <1>1, <2>1 DEF Free
    <3> QED BY <3>1, NothingIsFree
  <2>2. CASE ~repeated
    BY <1>1, <2>2
  <2> QED BY <2>1, <2>2
<1>4. route # None => kept.model = model
  <2>1. event.model = IF model = None THEN event.model ELSE model
    BY DEF BuildEvent
  <2> QED BY <1>2, <2>1 DEF BooksInv, RouteInv
<1>5. ASSUME repeated
      PROVE  kept.cost.total = 0 /\ event.usage.input = Ask[ask].bill.input
  <2>1. kept.cost.total = 0
    BY <1>1, <1>5 DEF Free
  <2>2. captured = Answer(ask) /\ ~Streamed /\ body # Nobody /\ data = Ask[ask].data
    BY <1>5 DEF BooksInv, RepeatInv, ParsedInv
  <2>3. ask \in Asks /\ Ask[ask].door # "telemetry"
    BY DEF BooksInv
  <2>4. /\ IsACall(Ask[ask])
        /\ Ask[ask].bill \in [input : Nat, output : Nat, read : Nat, written : Nat]
    BY <2>3, CallAssumption
  <2>5. ~Ask[ask].streamed
    BY <2>2, <2>4 DEF IsACall, Streamed
  <2>6. Read = Answer(ask)
    BY <2>2 DEF Read
  <2>7. Read = OneBody(Ask[ask].body.api, Answering, Ask[ask].bill, Ask[ask].words)
    BY <2>5, <2>6 DEF Answer
  <2>8. ReadBody(Ask[ask].body.api, Head(Read)).usage = Ask[ask].bill
    BY <2>3, <2>4, <2>7, BodyIsBilled
  <2>9. event.usage = Ask[ask].bill
    <3>1. Streamed = FALSE
      <4>1. CASE Ask[ask].body.api = "google"
        BY <2>2, <2>4, <4>1 DEF IsACall, Streamed
      <4>2. CASE Ask[ask].body.api # "google"
        BY <2>2, <4>2 DEF Streamed
      <4> QED BY <4>1, <4>2
    <3> DEFINE told == ReadBody(Ask[ask].body.api, Head(Read))
    <3>2. event.usage = [told.usage EXCEPT !.input = @, !.output = @]
      BY <3>1 DEF BuildEvent
    <3>3. told.usage = Ask[ask].bill
      BY <2>8
    <3> HIDE DEF told
    <3> QED BY <2>4, <3>2, <3>3
  <2> QED BY <2>1, <2>9
<1>6. own = [record |-> kept, saved |-> own.saved, shadow |-> own.shadow, route |-> own.route]
      /\ (repeated => own.saved = event.usage.input)
      /\ own.route = IF route = None \/ (repeated /\ Ask[ask].door = "gateway")
                     THEN Unrouted ELSE Routed(route, kept.usage)
  BY DEF Facts
<1>7. \/ own.route = Unrouted
      \/ \E decision :
           /\ decision.from # None /\ decision.to # decision.from
           /\ kept.model = IF mode = "on" THEN decision.to ELSE decision.from
           /\ own.route = Routed(decision, kept.usage)
  BY <1>4, <1>6 DEF BooksInv, RouteInv
<1> HIDE DEF kept, own, rec
<1> DEFINE made == [record |-> [model |-> kept.model, usage |-> kept.usage, words |-> kept.words,
                                estimated |-> kept.estimated, cost |-> kept.cost],
                    saved |-> own.saved, shadow |-> own.shadow, route |-> own.route]
<1>8. own = made
  BY <1>2, <1>6
<1>9. repeated => IsRepeat(own, Ask[ask].bill)
  BY <1>5, <1>6 DEF IsRepeat
<1>10. Booked(made)
  BY <1>3, <1>7, RecordIsBooked
<1> QED BY <1>8, <1>9, <1>10 DEF own, rec

\* The events of an export are a sequence: one for each item that is read.
LEMMA EventsAreASequence ==
  ASSUME NEW export, export.items \in Seq(ToSet(export.items))
  PROVE  \E k \in Nat : DOMAIN Events(export) = 1..k
<1> DEFINE Speaks(item) == GenAi(item) \/ (export.signal = "logs" /\ ClaudeCode(item))
           read == {i \in DOMAIN export.items : export.signal # "metrics" /\ Speaks(export.items[i])}
<1>1. DOMAIN Events(export) = 1..Cardinality(read)
  BY DEF Events
<1>2. DOMAIN export.items = 1..Len(export.items) /\ Len(export.items) \in Nat
  OBVIOUS
<1>3. IsFiniteSet(1..Len(export.items))
  BY <1>2, FS_Interval
<1>4. read \subseteq 1..Len(export.items)
  BY <1>2
<1>5. Cardinality(read) \in Nat
  <2> HIDE DEF read
  <2> QED BY <1>3, <1>4, FS_Subset, FS_CardinalityType
<1> QED BY <1>1, <1>5

\* Sequences of a tool's exports stay sequences when one is taken out.
LEMMA OneLess ==
  ASSUME NEW S, NEW s \in Seq(S), NEW i \in DOMAIN s
  PROVE  RemoveAt(s, i) \in Seq(S)
<1>1. SubSeq(s, 1, i - 1) \in Seq(S)
  OBVIOUS
<1>2. SubSeq(s, i + 1, Len(s)) \in Seq(S)
  OBVIOUS
<1> QED BY <1>1, <1>2 DEF RemoveAt

\* A sequence is one of its own elements.
LEMMA OwnElements ==
  ASSUME NEW S, NEW s \in Seq(S)
  PROVE  s \in Seq(ToSet(s))
BY DEF ToSet

\* An export that is ingested costs what its tokens cost.
LEMMA TellingInv ==
  ASSUME BooksInv, Ingest
  PROVE  BooksInv'
<1>1. stage = "telling" /\ Ask[ask].door = "telemetry" /\ ask \in Asks /\ ~repeated
  BY DEF BooksInv, RepeatInv, Ingest
<1>2. PICK i \in DOMAIN frames :
        LET events == Events(frames[i])
        IN /\ records' = records \o [n \in DOMAIN events |->
                [record |-> Record(events[n]), saved |-> 0, shadow |-> <<>>, route |-> Unrouted]]
           /\ frames' = RemoveAt(frames, i)
           /\ stage' = IF frames' = <<>> THEN "told" ELSE stage
  BY DEF Ingest
<1>3. TellsOnce(Ask[ask])
  BY <1>1, CallAssumption
<1> DEFINE exports == Ask[ask].exports
           events == Events(frames[i])
           new == [n \in DOMAIN events |->
                     [record |-> Record(events[n]), saved |-> 0, shadow |-> <<>>, route |-> Unrouted]]
<1>4. frames \in Seq(ToSet(exports))
  BY <1>1 DEF BooksInv
<1>5. frames' \in Seq(ToSet(exports))
  BY <1>2, <1>4, OneLess
<1>6. frames[i].items \in Seq(ToSet(frames[i].items))
  <2>1. \A e \in ToSet(exports) : e.items \in Seq(ToSet(e.items))
    BY <1>3 DEF TellsOnce
  <2> QED BY <1>4, <2>1
<1>7. PICK k \in Nat : DOMAIN events = 1..k
  BY <1>6, EventsAreASequence
<1>8. \A n \in DOMAIN new : Booked(new[n])
  <2> SUFFICES ASSUME NEW n \in DOMAIN events
               PROVE  Booked(new[n])
    OBVIOUS
  <2> DEFINE event == events[n]
             cost == CostUsd(event.model, event.usage)
             made == [record |-> [model |-> event.model, usage |-> event.usage, words |-> event.words,
                                  estimated |-> event.estimated, cost |-> cost],
                      saved |-> 0, shadow |-> <<>>, route |-> Unrouted]
  <2>1. new[n] = made
    BY DEF Record
  <2> HIDE DEF events
  <2>2. Booked(made)
    BY RecordIsBooked
  <2> HIDE DEF new, made
  <2> QED BY <2>1, <2>2
<1>9. records' = records \o new
  BY <1>2
<1> HIDE DEF new
<1> DEFINE all == ToSet(records) \cup ToSet(new)
<1>10. records \in Seq(ToSet(records)) /\ \A n \in DOMAIN records : Booked(records[n])
  BY DEF BooksInv
<1>11. new \in Seq(ToSet(new))
  <2> HIDE DEF events
  <2> QED BY <1>7 DEF new, ToSet
<1>12. records \in Seq(all) /\ new \in Seq(all)
  <2> HIDE DEF events
  <2>1. ToSet(records) \subseteq all /\ ToSet(new) \subseteq all
    OBVIOUS
  <2> HIDE DEF all
  <2> QED BY <1>10, <1>11, <2>1
<1>13. /\ records' \in Seq(ToSet(records'))
       /\ \A n \in DOMAIN records' : Booked(records'[n])
  <2> HIDE DEF all, events
  <2>1. records' \in Seq(all)
    BY <1>9, <1>12, Joined
  <2>2. records' \in Seq(ToSet(records'))
    BY <2>1, OwnElements
  <2> QED BY <1>8, <1>9, <1>10, <1>12, <2>2, Joined
<1>14. /\ ask' = ask /\ mode' = mode /\ data' = data /\ model' = model /\ repeated' = repeated
       /\ body' = body /\ todo' = todo /\ route' = route /\ captured' = captured
  BY DEF Ingest, settings, reading, request, answered
<1>15. stage' \in {"telling", "told"}
  BY <1>1, <1>2
<1>16. ParsedInv' /\ RouteInv' /\ RepeatInv'
  BY <1>1, <1>14, <1>15 DEF BooksInv, ParsedInv, RouteInv, RepeatInv, BeforeParse
<1>17. ToSet(records)' = ToSet(records')
  OBVIOUS
<1> QED BY <1>1, <1>5, <1>13, <1>14, <1>15, <1>16, <1>17 DEF BooksInv

\* Every step but those that change what the books rest on.
LEMMA HandlingInv ==
  ASSUME BooksInv,
         \/ Receive \/ Close \/ Intercept \/ Tunnel \/ NoRequest \/ ReadHead
         \/ Respond \/ Fail \/ Pass \/ HangUp \/ Finish \/ Uncaptured
  PROVE  BooksInv'
<1> USE DEF BooksInv, RepeatInv, RouteInv, BeforeParse, settings, reading, request, answering, answered, End
<1>0. repeated => stage \in {"capturing", "ended"}
  OBVIOUS
<1>1. CASE Receive
  BY <1>1, OnlyMoves DEF Receive, Waiting
<1>2. CASE Close
  BY <1>2, OnlyMoves DEF Close
<1>3. CASE Intercept
  BY <1>3, OnlyMoves DEF Intercept
<1>4. CASE Tunnel
  BY <1>4, OnlyMoves DEF Tunnel
<1>5. CASE NoRequest
  BY <1>5, OnlyMoves DEF NoRequest
<1>6. CASE ReadHead
  BY <1>6, OnlyMoves DEF ReadHead
<1>7. CASE Respond
  BY <1>7, OnlyMoves DEF Respond
<1>8. CASE Fail
  BY <1>8, OnlyMoves DEF Fail
<1>9. CASE Pass
  BY <1>9, OnlyMoves DEF Pass
<1>10. CASE HangUp
  BY <1>10, OnlyMoves DEF HangUp
<1>11. CASE Finish
  BY <1>11, OnlyMoves DEF Finish
<1>12. CASE Uncaptured
  BY <1>12, OnlyMoves DEF Uncaptured
<1> QED BY <1>1, <1>2, <1>3, <1>4, <1>5, <1>6, <1>7, <1>8, <1>9, <1>10, <1>11, <1>12

\* Until the router has decided, the request has no route.
LEMMA RequestInv ==
  ASSUME BooksInv, ReadBodyBytes \/ Parse \/ Compress1 \/ Route
  PROVE  BooksInv'
<1>1. /\ UNCHANGED <<ask, mode, repeated, records, captured>> /\ ~repeated /\ records = <<>>
      /\ stage \in {"body", "parsing", "compressing"} /\ route = None
      /\ stage' \in {"parsing", "compressing", "sending"}
  BY DEF BooksInv, RepeatInv, RouteInv, BeforeParse, ReadBodyBytes, Parse, Compress1, Route, settings,
         reading, request, answering, answered
<1>2. ParsedInv' /\ RouteInv'
  <2>1. CASE ReadBodyBytes
    BY <1>1, <2>1 DEF BooksInv, ParsedInv, RouteInv, BeforeParse, ReadBodyBytes, settings, request
  <2>2. CASE Parse
    BY <1>1, <2>2 DEF BooksInv, ParsedInv, RouteInv, BeforeParse, Parse, settings, reading
  <2>3. CASE Compress1
    BY <1>1, <2>3 DEF BooksInv, ParsedInv, RouteInv, BeforeParse, Compress1, settings, reading
  <2>4. CASE Route
    <3>1. body' = body /\ todo' = todo /\ data' = data /\ stage' = "sending"
      BY <2>4 DEF Route, settings, reading
    <3>2. ParsedInv'
      BY <1>1, <3>1 DEF BooksInv, ParsedInv
    <3> DEFINE target == IF mode # "off" /\ IsModelCall THEN Target(body, model, Ask[ask].hints) ELSE None
    <3>3. /\ route' = IF target = None THEN None ELSE [from |-> model, to |-> target]
          /\ model' = IF mode = "on" /\ target # None THEN target ELSE model
      BY <2>4 DEF Route
    <3>4. target # None => model \in Strong /\ target # model
      BY DEF Target
    <3>5. target # None => model # None
      BY <3>4, CallAssumption
    <3> HIDE DEF target
    <3>6. route' # None => /\ route' = [from |-> model, to |-> target] /\ target # None
                           /\ model' = IF mode = "on" THEN target ELSE model
      BY <3>3
    <3> QED BY <1>1, <3>1, <3>2, <3>4, <3>5, <3>6 DEF RouteInv, BeforeParse
  <2> QED BY <2>1, <2>2, <2>3, <2>4
<1>3. RepeatInv'
  BY <1>1 DEF RepeatInv
<1> QED BY <1>1, <1>2, <1>3 DEF BooksInv

\* An answer served from the cache is whole.
LEMMA RepeatedInv ==
  ASSUME BooksInv, ServeRepeat
  PROVE  BooksInv'
<1>1. /\ UNCHANGED <<ask, mode, data, model, body, todo, route, records>> /\ records = <<>>
      /\ stage = "sending" /\ stage' = "capturing" /\ repeated' = TRUE
      /\ ~Streamed /\ body # Nobody /\ captured' = Answer(ask)
  BY DEF BooksInv, ServeRepeat, settings, reading, request
<1>2. Streamed' = Streamed /\ Answer(ask)' = Answer(ask)
  BY <1>1, SameAnswer
<1>3. RepeatInv'
  BY <1>1, <1>2 DEF RepeatInv
<1>4. ParsedInv' /\ RouteInv'
  BY <1>1 DEF BooksInv, ParsedInv, RouteInv, BeforeParse
<1> QED BY <1>1, <1>3, <1>4 DEF BooksInv

\* The end of an answer puts the event of the developer's copy on record.
LEMMA CaptureInv ==
  ASSUME BooksInv, Capture
  PROVE  BooksInv'
<1>1. /\ UNCHANGED <<ask, mode, data, model, body, todo, route, captured, repeated>> /\ records = <<>>
      /\ stage = "capturing" /\ stage' = "ended" /\ (Streamed \/ Read # <<>>)
  BY DEF BooksInv, Capture, settings, reading, request, answered
<1> DEFINE event == BuildEvent(Ask[ask].body.api, body, model, Streamed, Read)
           own == Facts(Record(event), event.usage)
<1>2. records' = <<own>>
  BY <1>1 DEF Capture
<1>3. Booked(own) /\ (repeated => IsRepeat(own, Ask[ask].bill))
  BY <1>1, CapturedIsBooked
<1>4. Streamed' = Streamed /\ Answer(ask)' = Answer(ask)
  BY <1>1, SameAnswer
<1>5. ParsedInv' /\ RouteInv' /\ RepeatInv'
  BY <1>1, <1>4 DEF BooksInv, ParsedInv, RouteInv, RepeatInv, BeforeParse
<1> HIDE DEF own
<1>6. /\ records' \in Seq(ToSet(records'))
      /\ \A i \in DOMAIN records' : records'[i] = own
  BY <1>2 DEF ToSet
<1>7. ToSet(records)' = ToSet(records')
  OBVIOUS
<1> QED BY <1>1, <1>3, <1>5, <1>6, <1>7 DEF BooksInv

\* The books begin empty, whichever door the call comes through.
LEMMA BooksInit == Init => BooksInv
<1> SUFFICES ASSUME Init PROVE BooksInv
  OBVIOUS
<1>1. ask \in Asks /\ Ask[ask].door \in {"proxy", "gateway", "telemetry"}
  BY CallAssumption DEF Init
<1>2. /\ route = None /\ body = Nobody /\ todo = <<>> /\ records = <<>> /\ repeated = FALSE
      /\ frames = Ask[ask].exports
      /\ stage \in {"connecting", "parsing", "telling"}
      /\ stage = "telling" <=> Ask[ask].door = "telemetry"
  BY <1>1 DEF Init
<1>3. Ask[ask].door = "telemetry" => Ask[ask].exports \in Seq(ToSet(Ask[ask].exports))
  BY <1>1, CallAssumption DEF TellsOnce
<1>4. ToSet(records) = {} /\ records \in Seq(ToSet(records))
  BY <1>2 DEF ToSet
<1>5. ParsedInv /\ RepeatInv
  BY <1>2 DEF ParsedInv, RepeatInv
<1>6. RouteInv
  BY <1>2 DEF RouteInv
<1>7. stage \in {"telling", "told"} <=> Ask[ask].door = "telemetry"
  BY <1>2
<1>8. stage = "telling" => frames \in Seq(ToSet(Ask[ask].exports))
  BY <1>2, <1>3
<1>9. DOMAIN records = {}
  BY <1>2
<1>10. repeated \in BOOLEAN /\ ~repeated
  BY <1>2
<1> QED BY <1>1, <1>2, <1>4, <1>5, <1>6, <1>7, <1>8, <1>9, <1>10 DEF BooksInv

\* Every step keeps the books right.
LEMMA BooksNext == BooksInv /\ [Next]_vars => BooksInv'
<1> SUFFICES ASSUME BooksInv, [Next]_vars PROVE BooksInv'
  OBVIOUS
<1>1. CASE UNCHANGED vars
  <2>1. UNCHANGED <<settings, data, request, repeated, records, captured, stage, frames>>
    BY <1>1 DEF vars, reading, answering, answered
  <2> QED BY <2>1, OnlyMoves DEF BooksInv, RepeatInv
<1>2. CASE Next
  BY <1>2, HandlingInv, RequestInv, RepeatedInv, CaptureInv, TellingInv DEF Next
<1> QED BY <1>1, <1>2

\* So they are right in every behaviour.
LEMMA BooksInvariance == Spec => []BooksInv
BY BooksInit, BooksNext, PTL DEF Spec

\* The collector, which prices tokens again and trusts nothing else, books what the
\* developer's copy says of cost and routing, for every call; a repeat costs nothing
\* there and saves its input (_capture, build_event, cost_usd).
THEOREM TheBooksAgree == Spec => []BooksAgree
<1>1. BooksInv => BooksAgree
  BY DEF BooksInv, BooksAgree, Booked, IsRepeat
<1> QED BY <1>1, BooksInvariance, PTL

-----------------------------------------------------------------------------
(* The bytes of a request *)

\* What a body is made of, and what is put around it.
Atoms == STRING \cup {"0", "1", "crlf", "POST path", "headers", "CONNECT host", "Host: host"}

\* A number in fours.
LEMMA Mod4 ==
  ASSUME NEW q \in Nat, NEW r \in 0..3
  PROVE  (4 * q + r) % 4 = r /\ (4 * q + r) \div 4 = q
OBVIOUS

\* Every number is one in fours.
LEMMA InFours ==
  ASSUME NEW i \in Nat
  PROVE  i = (4 * (i \div 4)) + (i % 4) /\ i \div 4 \in Nat /\ i % 4 \in 0..3
OBVIOUS

\* Sequences
LEMMA SameSequence ==
  ASSUME NEW S, NEW s \in Seq(S), NEW t \in Seq(S), Len(s) = Len(t),
         \A i \in 1..Len(s) : s[i] = t[i]
  PROVE  s = t
OBVIOUS

\* Sequences over a set are sequences over a larger one.
LEMMA MoreMembers ==
  ASSUME NEW S, NEW T, S \subseteq T, NEW s \in Seq(S)
  PROVE  s \in Seq(T)
OBVIOUS

\* The first of two sequences is where it was.
LEMMA Concatenated ==
  ASSUME NEW S, NEW s \in Seq(S), NEW t \in Seq(S)
  PROVE  /\ s \o t \in Seq(S) /\ Len(s \o t) = Len(s) + Len(t)
         /\ \A i \in 1..Len(s) : (s \o t)[i] = s[i]
OBVIOUS

\* The second begins where the first ends.
LEMMA AfterIt ==
  ASSUME NEW s \in Seq(Atoms), NEW t \in Seq(Atoms), NEW i \in 1..Len(t)
  PROVE  (s \o t)[Len(s) + i] = t[i]
<1>1. Len(s) \in Nat /\ Len(t) \in Nat
  OBVIOUS
<1>2. Len(s) + i \in 1..(Len(s) + Len(t)) /\ ~(Len(s) + i <= Len(s)) /\ Len(s) + i - Len(s) = i
  BY <1>1
<1> QED BY <1>1, <1>2

\* A chunked body has a frame of four atoms for each atom of data, then its end.
LEMMA ChunkedIs ==
  ASSUME NEW d \in Seq(Atoms)
  PROVE  /\ Chunked(d) \in Seq(Atoms) /\ Len(Chunked(d)) = 4 * Len(d) + 3
         /\ \A i \in 1..(4 * Len(d)) :
              /\ i % 4 = 1 => Chunked(d)[i] = "1"
              /\ i % 4 = 3 => Chunked(d)[i] = d[(i + 1) \div 4]
              /\ i % 4 \in {0, 2} => Chunked(d)[i] = "crlf"
         /\ Chunked(d)[4 * Len(d) + 1] = "0"
         /\ Chunked(d)[4 * Len(d) + 2] = "crlf" /\ Chunked(d)[4 * Len(d) + 3] = "crlf"
<1> DEFINE size == 4 * Len(d)
           Atom(i) == CASE i % 4 = 1 -> "1"
                        [] i % 4 = 3 -> d[(i + 1) \div 4]
                        [] OTHER -> "crlf"
           chunks == [i \in 1..size |-> Atom(i)]
<1>1. Len(d) \in Nat /\ size \in Nat
  OBVIOUS
<1>2. \A i \in 1..size : Atom(i) \in Atoms
  <2> TAKE i \in 1..size
  <2>1. CASE i % 4 = 3
    <3>1. (i + 1) \div 4 \in 1..Len(d)
      BY <1>1, <2>1
    <3> QED BY <2>1, <3>1
  <2>2. CASE i % 4 # 3
    BY <2>2 DEF Atoms
  <2> QED BY <2>1, <2>2
<1>3. chunks \in Seq(Atoms) /\ Len(chunks) = size
  <2> HIDE DEF Atom, size
  <2> QED BY <1>1, <1>2
<1>4. LastChunk \in Seq(Atoms) /\ Len(LastChunk) = 3
      /\ LastChunk[1] = "0" /\ LastChunk[2] = "crlf" /\ LastChunk[3] = "crlf"
  <2>1. "0" \in Atoms /\ "crlf" \in Atoms
    BY DEF Atoms
  <2> QED BY <2>1 DEF LastChunk
<1>5. Chunked(d) = chunks \o LastChunk
  BY DEF Chunked
<1>6. \A i \in 1..size : chunks[i] = Atom(i)
  <2> HIDE DEF Atom, size
  <2> QED OBVIOUS
<1>7. \A i \in 1..size :
              /\ i % 4 = 1 => Atom(i) = "1"
              /\ i % 4 = 3 => Atom(i) = d[(i + 1) \div 4]
              /\ i % 4 \in {0, 2} => Atom(i) = "crlf"
  OBVIOUS
<1>8. /\ Chunked(d) \in Seq(Atoms) /\ Len(Chunked(d)) = size + 3
      /\ \A i \in 1..size : Chunked(d)[i] = Atom(i)
      /\ \A i \in 1..3 : Chunked(d)[size + i] = LastChunk[i]
  <2> HIDE DEF chunks, Atom, size
  <2>1. chunks \o LastChunk \in Seq(Atoms) /\ Len(chunks \o LastChunk) = Len(chunks) + Len(LastChunk)
    <3>1. chunks \in Seq(Atoms) /\ LastChunk \in Seq(Atoms)
      BY <1>3, <1>4
    <3> HIDE DEF LastChunk
    <3> QED BY <3>1
  <2>2. \A i \in 1..size : (chunks \o LastChunk)[i] = chunks[i]
    BY <1>1, <1>3, <1>4
  <2>3. \A i \in 1..3 : (chunks \o LastChunk)[size + i] = LastChunk[i]
    <3>1. chunks \in Seq(Atoms) /\ LastChunk \in Seq(Atoms) /\ Len(chunks) = size /\ Len(LastChunk) = 3
      BY <1>3, <1>4
    <3> HIDE DEF LastChunk
    <3> TAKE i \in 1..3
    <3>2. i \in 1..Len(LastChunk)
      BY <3>1
    <3>3. (chunks \o LastChunk)[Len(chunks) + i] = LastChunk[i]
      <4>1. chunks \in Seq(Atoms) /\ LastChunk \in Seq(Atoms)
        BY <3>1
      <4> DEFINE c == LastChunk
      <4>2. c \in Seq(Atoms) /\ i \in 1..Len(c)
        BY <3>2, <4>1
      <4> HIDE DEF c
      <4>3. (chunks \o c)[Len(chunks) + i] = c[i]
        BY <4>1, <4>2, AfterIt
      <4> QED BY <4>3 DEF c
    <3> QED BY <3>1, <3>3
  <2> QED BY <1>3, <1>4, <1>5, <1>6, <2>1, <2>2, <2>3
<1>9. Chunked(d)[size + 1] = "0" /\ Chunked(d)[size + 2] = "crlf" /\ Chunked(d)[size + 3] = "crlf"
  <2> HIDE DEF Atom, size
  <2> QED BY <1>4, <1>8
<1> QED BY <1>1, <1>7, <1>8, <1>9

\* The end of a chunked body is seen at its end and nowhere before, whatever is
\* in it.
LEMMA EndIsSeen ==
  ASSUME NEW d \in Seq(Atoms), NEW read \in Seq(Atoms), NEW rest \in Seq(Atoms),
         read \o rest = Chunked(d), Has(read, LastChunk)
  PROVE  read = Chunked(d)
<1> DEFINE size == 4 * Len(d)
<1>1. Len(d) \in Nat /\ size \in Nat /\ Len(read) \in Nat /\ Len(rest) \in Nat
  OBVIOUS
<1>2. PICK i \in DOMAIN read :
        i + Len(LastChunk) - 1 <= Len(read) /\ SubSeq(read, i, i + Len(LastChunk) - 1) = LastChunk
  BY DEF Has
<1>3. i \in 1..Len(read) /\ i + 2 <= Len(read)
  BY <1>1, <1>2 DEF LastChunk
<1>4. read[i] = "0" /\ read[i + 1] = "crlf" /\ read[i + 2] = "crlf"
  <2>1. SubSeq(read, i, i + 2) = <<"0", "crlf", "crlf">>
    BY <1>2 DEF LastChunk
  <2>2. \A j \in 1..3 : SubSeq(read, i, i + 2)[j] = read[i + j - 1]
    BY <1>3
  <2>3. SubSeq(read, i, i + 2)[1] = "0" /\ SubSeq(read, i, i + 2)[2] = "crlf"
        /\ SubSeq(read, i, i + 2)[3] = "crlf"
    <3> DEFINE t == SubSeq(read, i, i + 2)
    <3>1. t = <<"0", "crlf", "crlf">>
      BY <2>1
    <3> HIDE DEF t
    <3>2. t[1] = "0" /\ t[2] = "crlf" /\ t[3] = "crlf"
      BY <3>1
    <3> QED BY <3>2 DEF t
  <2> HIDE DEF size
  <2>4. SubSeq(read, i, i + 2)[1] = read[i + 1 - 1] /\ SubSeq(read, i, i + 2)[2] = read[i + 2 - 1]
        /\ SubSeq(read, i, i + 2)[3] = read[i + 3 - 1]
    BY <2>2
  <2>5. i + 1 - 1 = i /\ i + 2 - 1 = i + 1 /\ i + 3 - 1 = i + 2
    BY <1>3
  <2> QED BY <2>3, <2>4, <2>5
<1>5. Len(Chunked(d)) = size + 3 /\ Len(read) + Len(rest) = size + 3
  <2>1. Len(Chunked(d)) = size + 3
    BY ChunkedIs
  <2>2. Len(read \o rest) = Len(read) + Len(rest)
    OBVIOUS
  <2> QED BY <2>1, <2>2
<1>6. \A j \in 1..Len(read) : Chunked(d)[j] = read[j]
  <2>1. \A j \in 1..Len(read) : (read \o rest)[j] = read[j]
    OBVIOUS
  <2> QED BY <2>1
<1>7. Chunked(d)[i] = "0" /\ Chunked(d)[i + 1] = "crlf" /\ Chunked(d)[i + 2] = "crlf"
  BY <1>3, <1>4, <1>6
<1>8. ~(i <= size)
  <2> SUFFICES ASSUME i <= size PROVE FALSE
    OBVIOUS
  <2>1. i \in 1..(4 * Len(d))
    BY <1>1, <1>3
  <2>2. CASE i % 4 = 1
    BY <1>7, <2>1, <2>2, ChunkedIs
  <2>3. CASE i % 4 \in {0, 2}
    BY <1>7, <2>1, <2>3, ChunkedIs
  <2>4. CASE i % 4 = 3
    <3>1. CASE i + 2 <= size
      <4>1. i + 2 \in 1..(4 * Len(d)) /\ (i + 2) % 4 = 1
        <5>1. PICK p \in Nat : i = 4 * p + 3
          BY <2>1, <2>4, InFours
        <5>2. p + 1 \in Nat /\ i + 2 = 4 * (p + 1) + 1
          BY <5>1
        <5>3. (4 * (p + 1) + 1) % 4 = 1
          BY <5>2, Mod4
        <5>4. (i + 2) % 4 = 1
          BY <5>2, <5>3
        <5> QED BY <1>1, <1>3, <3>1, <5>4
      <4> QED BY <1>7, <4>1, ChunkedIs
    <3>2. CASE ~(i + 2 <= size)
      <4>1. i + 2 = 4 * Len(d) + 1
        <5>1. i \div 4 \in Nat /\ i = 4 * (i \div 4) + 3
          BY <2>1, <2>4, InFours
        <5> DEFINE q == i \div 4
        <5>2. q \in Nat /\ i = 4 * q + 3
          BY <5>1
        <5> HIDE DEF q
        <5> DEFINE l == Len(d)
        <5>3. l \in Nat /\ 4 * q + 3 <= 4 * l /\ ~(4 * q + 5 <= 4 * l)
          BY <1>1, <2>1, <3>2, <5>2
        <5> HIDE DEF l
        <5>4. 4 * q + 3 + 2 = 4 * l + 1
          BY <5>2, <5>3
        <5> QED BY <5>2, <5>4 DEF l
      <4> QED BY <1>7, <4>1, ChunkedIs
    <3> QED BY <3>1, <3>2
  <2>5. i % 4 \in 0..3
    BY <2>1
  <2> QED BY <2>2, <2>3, <2>4, <2>5
<1>9. Len(rest) = 0
  BY <1>1, <1>3, <1>5, <1>8
<1>10. read \o rest = read
  BY <1>9
<1> QED BY <1>10

\* What was cut in chunks is put together again.
LEMMA DechunkIs ==
  ASSUME NEW d \in Seq(Atoms)
  PROVE  Dechunk(Chunked(d)) = d
<1> DEFINE chunks == Chunked(d)
           Sized(n) == \A k \in 1..n : 4 * k - 1 <= Len(chunks) /\ chunks[4 * k - 3] = "1"
           sizes == {m \in 0..Len(chunks) : Sized(m)}
           n == Max(sizes)
<1>0. \A i \in 1..(4 * Len(d)) :
        (i % 4 = 1 => chunks[i] = "1") /\ (i % 4 = 3 => chunks[i] = d[(i + 1) \div 4])
  BY ChunkedIs
<1>1. Len(d) \in Nat /\ Len(chunks) = 4 * Len(d) + 3
  BY ChunkedIs
<1>2. Sized(Len(d))
  <2> SUFFICES ASSUME NEW k \in 1..Len(d)
               PROVE  4 * k - 1 <= Len(chunks) /\ chunks[4 * k - 3] = "1"
    OBVIOUS
  <2>1. 4 * k - 3 \in 1..(4 * Len(d)) /\ (4 * k - 3) % 4 = 1
    BY <1>1
  <2> HIDE DEF chunks
  <2> QED BY <1>0, <1>1, <2>1
<1>3. \A m \in sizes : m <= Len(d)
  <2> SUFFICES ASSUME NEW m \in sizes, ~(m <= Len(d))
               PROVE  FALSE
    OBVIOUS
  <2>1. Len(d) + 1 \in 1..m
    BY <1>1
  <2>2. chunks[4 * (Len(d) + 1) - 3] = "1"
    BY <2>1
  <2>3. 4 * (Len(d) + 1) - 3 = 4 * Len(d) + 1
    BY <1>1
  <2> QED BY <2>2, <2>3, ChunkedIs
<1>4. Len(d) \in sizes /\ \A m \in sizes : Len(d) >= m
  <2> HIDE DEF Sized, chunks
  <2>1. Len(d) \in sizes
    BY <1>1, <1>2
  <2>2. \A m \in sizes : m \in Nat
    BY <1>1
  <2> QED BY <1>1, <1>3, <2>1, <2>2
<1>5. n = Len(d)
  <2>1. sizes \subseteq Nat
    <3> HIDE DEF Sized, chunks
    <3> QED BY <1>1
  <2> HIDE DEF sizes
  <2>2. \A x \in sizes : (\A y \in sizes : x >= y) => x = Len(d)
    BY <1>1, <1>4, <2>1
  <2> QED BY <1>4, <2>2 DEF Max
<1>6. Dechunk(chunks) = [k \in 1..n |-> chunks[4 * k - 1]]
  BY DEF Dechunk
<1>7. \A k \in 1..Len(d) : chunks[4 * k - 1] = d[k]
  <2> TAKE k \in 1..Len(d)
  <2>1. 4 * k - 1 \in 1..(4 * Len(d)) /\ (4 * k - 1) % 4 = 3 /\ ((4 * k - 1) + 1) \div 4 = k
    BY <1>1
  <2> QED BY <2>1, ChunkedIs
<1> HIDE DEF n, chunks
<1>8. Dechunk(chunks) = [k \in 1..Len(d) |-> d[k]]
  BY <1>5, <1>6, <1>7
<1>9. d = [k \in 1..Len(d) |-> d[k]]
  OBVIOUS
<1> QED BY <1>8, <1>9 DEF chunks

\* As long as the tool stays, what was received of the request and what is still
\* to come of it is the request.
WholeInv ==
  /\ ask \in Asks
  /\ bytes \in Seq(Atoms) /\ inbox \in Seq(Atoms)
  /\ stage = "head" /\ ~gone => bytes \o inbox = HeadBytes \o BodyBytes(ask)
  /\ stage = "body" /\ ~gone => bytes \o inbox = BodyBytes(ask)
  /\ stage \notin {"connecting", "head", "body", "broken", "tunnelled"} /\ ~gone => data = Ask[ask].data

\* The body of a request is made of atoms.
LEMMA BodyBytesAre ==
  ASSUME NEW a \in Asks
  PROVE  BodyBytes(a) \in Seq(Atoms) /\ Ask[a].data \in Seq(Atoms)
<1>1. Ask[a].data \in Seq(STRING)
  BY CallAssumption
<1>2. Ask[a].data \in Seq(Atoms)
  <2>1. STRING \subseteq Atoms
    BY DEF Atoms
  <2> QED BY <1>1, <2>1, MoreMembers
<1> QED BY <1>2, ChunkedIs DEF BodyBytes

\* So is its head, which has no line end but its second and the last two.
LEMMA HeadBytesAre ==
  /\ HeadBytes \in Seq(Atoms) /\ Len(HeadBytes) = 5
  /\ HeadBytes[1] # "crlf" /\ HeadBytes[3] # "crlf"
<1>1. "POST path" \in Atoms /\ "crlf" \in Atoms /\ "headers" \in Atoms
  BY DEF Atoms
<1>2. HeadBytes \in Seq(Atoms)
  <2> DEFINE p == "POST path"
             c == "crlf"
             h == "headers"
  <2>1. p \in Atoms /\ c \in Atoms /\ h \in Atoms
    BY <1>1
  <2>2. HeadBytes = <<p, c, h, c, c>>
    BY DEF HeadBytes
  <2> HIDE DEF p, c, h
  <2> QED BY <2>1, <2>2
<1> QED BY <1>2 DEF HeadBytes

\* Pieces of a sequence.
LEMMA Pieces ==
  ASSUME NEW s \in Seq(Atoms), NEW n \in 1..Len(s)
  PROVE  /\ SubSeq(s, 1, n) \in Seq(Atoms) /\ SubSeq(s, n + 1, Len(s)) \in Seq(Atoms)
         /\ SubSeq(s, 1, n) \o SubSeq(s, n + 1, Len(s)) = s
<1>1. /\ SubSeq(s, 1, n) \in Seq(Atoms) /\ Len(SubSeq(s, 1, n)) = n
      /\ \A i \in 1..n : SubSeq(s, 1, n)[i] = s[i]
  OBVIOUS
<1>2. /\ SubSeq(s, n + 1, Len(s)) \in Seq(Atoms) /\ Len(SubSeq(s, n + 1, Len(s))) = Len(s) - n
      /\ \A i \in 1..(Len(s) - n) : SubSeq(s, n + 1, Len(s))[i] = s[n + i]
  OBVIOUS
<1> DEFINE a == SubSeq(s, 1, n)
           b == SubSeq(s, n + 1, Len(s))
<1>3. a \in Seq(Atoms) /\ Len(a) = n /\ \A i \in 1..n : a[i] = s[i]
  BY <1>1
<1>4. b \in Seq(Atoms) /\ Len(b) = Len(s) - n /\ \A i \in 1..(Len(s) - n) : b[i] = s[n + i]
  BY <1>2
<1> HIDE DEF a, b
<1>5. a \o b \in Seq(Atoms) /\ Len(a \o b) = Len(s)
  <2>1. a \o b \in Seq(Atoms) /\ Len(a \o b) = Len(a) + Len(b)
    BY <1>3, <1>4, Concatenated
  <2> QED BY <1>3, <1>4, <2>1
<1>6. \A i \in 1..Len(s) : (a \o b)[i] = s[i]
  <2> TAKE i \in 1..Len(s)
  <2>1. CASE i <= n
    BY <1>3, <1>4, <2>1
  <2>2. CASE ~(i <= n)
    <3>1. i - n \in 1..Len(b) /\ i = Len(a) + (i - n)
      BY <1>3, <1>4, <2>2
    <3>2. (a \o b)[Len(a) + (i - n)] = b[i - n]
      BY <1>3, <1>4, <3>1, AfterIt
    <3>3. b[i - n] = s[n + (i - n)]
      BY <1>3, <1>4, <3>1
    <3> QED BY <3>1, <3>2, <3>3
  <2> QED BY <2>1, <2>2
<1>7. a \o b = s
  BY <1>5, <1>6, SameSequence
<1> QED BY <1>3, <1>4, <1>7 DEF a, b

\* It does not matter which two of three sequences are put together first.
LEMMA Together ==
  ASSUME NEW s \in Seq(Atoms), NEW t \in Seq(Atoms), NEW u \in Seq(Atoms)
  PROVE  (s \o t) \o u = s \o (t \o u)
OBVIOUS

\* r is what is left of s when as much is taken off as h has.
Left(r, h, s) ==
  Len(s) >= Len(h) /\ Len(r) = Len(s) - Len(h) /\ \A i \in 1..Len(r) : r[i] = s[Len(h) + i]

\* Two pieces of a whole.
Joins(s, u, whole) == s \o u = whole

\* What follows a beginning that is the same.
LEMMA TheRest ==
  ASSUME NEW h \in Seq(Atoms), NEW t \in Seq(Atoms), NEW s \in Seq(Atoms), NEW u \in Seq(Atoms),
         NEW r \in Seq(Atoms), Joins(s, u, h \o t), Left(r, h, s)
  PROVE  Joins(r, u, t)
<1>0. Len(s) >= Len(h) /\ Len(r) = Len(s) - Len(h) /\ \A i \in 1..Len(r) : r[i] = s[Len(h) + i]
  BY DEF Left
<1>10. s \o u = h \o t
  BY DEF Joins
<1> DEFINE n == Len(h)
<1>1. n \in Nat /\ Len(s) \in Nat /\ Len(u) \in Nat /\ Len(t) \in Nat /\ n <= Len(s)
  BY <1>0
<1>2. r \in Seq(Atoms) /\ Len(r) = Len(s) - n /\ \A i \in 1..(Len(s) - n) : r[i] = s[n + i]
  BY <1>0
<1>3. Len(s) + Len(u) = n + Len(t)
  <2>1. Len(s \o u) = Len(s) + Len(u) /\ Len(h \o t) = n + Len(t)
    OBVIOUS
  <2> QED BY <1>10, <2>1
<1>4. r \o u \in Seq(Atoms) /\ Len(r \o u) = Len(t)
  BY <1>1, <1>2, <1>3
<1>5. \A i \in 1..Len(t) : (r \o u)[i] = t[i]
  <2> TAKE i \in 1..Len(t)
  <2>1. (h \o t)[n + i] = t[i]
    BY AfterIt
  <2>2. CASE i <= Len(s) - n
    <3>1. (r \o u)[i] = r[i] /\ r[i] = s[n + i]
      BY <1>1, <1>2, <2>2
    <3>2. n + i \in 1..Len(s)
      BY <1>1, <2>2
    <3>3. (s \o u)[n + i] = s[n + i]
      BY <3>2
    <3> QED BY <1>10, <2>1, <3>1, <3>3
  <2>3. CASE ~(i <= Len(s) - n)
    <3> DEFINE k == i - (Len(s) - n)
    <3>1. k \in 1..Len(u) /\ i = Len(r) + k /\ n + i = Len(s) + k
      BY <1>1, <1>2, <1>3, <2>3
    <3> HIDE DEF k
    <3>2. (r \o u)[Len(r) + k] = u[k]
      BY <1>2, <3>1, AfterIt
    <3>3. (s \o u)[Len(s) + k] = u[k]
      BY <3>1, AfterIt
    <3> QED BY <1>10, <2>1, <3>1, <3>2, <3>3
  <2> QED BY <2>2, <2>3
<1>6. r \o u = t
  BY <1>4, <1>5, SameSequence
<1> QED BY <1>2, <1>6 DEF Joins

\* The blank line is the end of the head, and was not seen before.
LEMMA HeadIsSeen ==
  ASSUME NEW read \in Seq(Atoms), NEW rest \in Seq(Atoms), NEW b \in Seq(Atoms),
         read \o rest = HeadBytes \o b, Has(read, BlankLine)
  PROVE  Len(read) >= Len(HeadBytes)
<1> SUFFICES ASSUME ~(Len(read) >= Len(HeadBytes)) PROVE FALSE
  OBVIOUS
<1>1. Len(read) \in Nat /\ Len(read) <= 4
  BY HeadBytesAre
<1>2. PICK i \in DOMAIN read :
        i + Len(BlankLine) - 1 <= Len(read) /\ SubSeq(read, i, i + Len(BlankLine) - 1) = BlankLine
  BY DEF Has
<1>3. i \in 1..3 /\ i + 1 <= Len(read)
  BY <1>1, <1>2 DEF BlankLine
<1>4. read[i] = "crlf" /\ read[i + 1] = "crlf"
  <2> DEFINE t == SubSeq(read, i, i + 1)
  <2>1. t = <<"crlf", "crlf">>
    BY <1>2 DEF BlankLine
  <2>2. t[1] = read[i + 1 - 1] /\ t[2] = read[i + 2 - 1]
    <3>1. \A j \in 1..2 : SubSeq(read, i, i + 1)[j] = read[i + j - 1]
      BY <1>3
    <3> QED BY <3>1
  <2> HIDE DEF t
  <2>3. t[1] = "crlf" /\ t[2] = "crlf"
    BY <2>1
  <2>4. i + 1 - 1 = i /\ i + 2 - 1 = i + 1
    BY <1>3
  <2> QED BY <2>2, <2>3, <2>4
<1>5. \A j \in 1..Len(read) : read[j] = HeadBytes[j]
  <2>1. \A j \in 1..Len(read) : (read \o rest)[j] = read[j]
    BY Concatenated
  <2>2. \A j \in 1..Len(HeadBytes) : (HeadBytes \o b)[j] = HeadBytes[j]
    BY HeadBytesAre, Concatenated
  <2> TAKE j \in 1..Len(read)
  <2>3. j \in 1..Len(HeadBytes)
    BY <1>1, HeadBytesAre
  <2>4. (read \o rest)[j] = read[j] /\ (HeadBytes \o b)[j] = HeadBytes[j]
    BY <2>1, <2>2, <2>3
  <2>5. (read \o rest)[j] = (HeadBytes \o b)[j]
    OBVIOUS
  <2> QED BY <2>4, <2>5
<1>6. HeadBytes[i] = "crlf" /\ HeadBytes[i + 1] = "crlf"
  BY <1>3, <1>4, <1>5
<1>7. i = 1 \/ i + 1 = 3 \/ i = 3
  BY <1>3
<1> QED BY <1>6, <1>7, HeadBytesAre

\* When a body is read of a tool that stays, it is all there, and read as it was.
LEMMA BodyIsSeen ==
  ASSUME WholeInv, stage = "body", BodyIsRead(ask), ~gone
  PROVE  Ask[ask].data = IF Ask[ask].framing = "chunked" THEN Dechunk(bytes) ELSE bytes
<1> DEFINE d == Ask[ask].data
<1>1. /\ ask \in Asks /\ bytes \in Seq(Atoms) /\ inbox \in Seq(Atoms)
      /\ bytes \o inbox = BodyBytes(ask) /\ d \in Seq(Atoms)
  BY BodyBytesAre DEF WholeInv
<1>2. Ask[ask].framing \in {"length", "chunked"}
  BY <1>1, CallAssumption
<1>3. CASE Ask[ask].framing = "chunked"
  <2>1. Has(bytes, LastChunk)
    BY <1>3 DEF BodyIsRead
  <2>2. bytes \o inbox = Chunked(d)
    BY <1>1, <1>3 DEF BodyBytes
  <2> HIDE DEF d
  <2>3. bytes = Chunked(d)
    BY <1>1, <2>1, <2>2, EndIsSeen
  <2>4. Dechunk(bytes) = d
    BY <1>1, <2>3, DechunkIs
  <2> QED BY <1>3, <2>4 DEF d
<1>4. CASE Ask[ask].framing = "length"
  <2>1. Len(bytes) >= Len(d) /\ bytes \o inbox = d
    BY <1>1, <1>4 DEF BodyIsRead, BodyBytes
  <2> HIDE DEF d
  <2>2. Len(bytes) + Len(inbox) = Len(d) /\ Len(bytes) \in Nat /\ Len(inbox) \in Nat
    BY <1>1, <2>1, Concatenated
  <2>3. Len(bytes) = Len(d)
    BY <2>1, <2>2
  <2>4. \A i \in 1..Len(bytes) : bytes[i] = d[i]
    BY <1>1, <2>1, Concatenated
  <2>5. bytes = d
    BY <1>1, <2>3, <2>4, SameSequence
  <2> QED BY <1>4, <2>5 DEF d
<1> QED BY <1>2, <1>3, <1>4

\* Nothing is received at first, all of it is to come.
LEMMA WholeInit == Init => WholeInv
<1> SUFFICES ASSUME Init PROVE WholeInv
  OBVIOUS
<1>1. ask \in Asks /\ Ask[ask].door \in {"proxy", "gateway", "telemetry"}
  BY CallAssumption DEF Init
<1>2. ConnectBytes \in Seq(Atoms)
  <2> DEFINE p == "CONNECT host"
             c == "crlf"
             h == "Host: host"
  <2>1. p \in Atoms /\ c \in Atoms /\ h \in Atoms
    BY DEF Atoms
  <2>2. ConnectBytes = <<p, c, h, c, c>>
    BY DEF ConnectBytes
  <2> HIDE DEF p, c, h
  <2> QED BY <2>1, <2>2
<1>3. bytes \in Seq(Atoms) /\ inbox \in Seq(Atoms)
  BY <1>2 DEF Init
<1>4. CASE Ask[ask].door = "proxy"
  <2>1. stage = "connecting"
    BY <1>4 DEF Init
  <2> QED BY <1>1, <1>3, <2>1 DEF WholeInv
<1>5. CASE Ask[ask].door # "proxy"
  <2>1. stage \in {"parsing", "telling"} /\ data = Ask[ask].data
    BY <1>1, <1>5 DEF Init
  <2> QED BY <1>1, <1>3, <2>1 DEF WholeInv
<1> QED BY <1>4, <1>5

\* Where the request is still read, or was given up.
Early == {"connecting", "head", "body", "broken", "tunnelled"}

\* A step that reads nothing.
LEMMA ReadsNothing ==
  ASSUME WholeInv, UNCHANGED <<ask, inbox, bytes, gone, data>>,
         stage' = stage \/ stage' \in {"broken", "tunnelled"} \/ (stage \notin Early /\ stage' \notin Early)
  PROVE  WholeInv'
<1>1. BodyBytes(ask)' = BodyBytes(ask)
  BY DEF BodyBytes
<1> QED BY <1>1 DEF WholeInv, Early

\* Every step keeps what was received and what is to come together.
LEMMA WholeNext == WholeInv /\ [Next]_vars => WholeInv'
<1> SUFFICES ASSUME WholeInv, [Next]_vars PROVE WholeInv'
  OBVIOUS
<1>0. ask \in Asks /\ bytes \in Seq(Atoms) /\ inbox \in Seq(Atoms)
  BY DEF WholeInv
<1>1. CASE Receive
  <2>1. PICK n \in 1..Len(inbox) :
          /\ bytes' = bytes \o SubSeq(inbox, 1, n)
          /\ inbox' = SubSeq(inbox, n + 1, Len(inbox))
    BY <1>1 DEF Receive
  <2>2. ask' = ask /\ stage' = stage /\ gone' = gone /\ data' = data
    BY <1>1 DEF Receive, settings
  <2>3. /\ SubSeq(inbox, 1, n) \in Seq(Atoms) /\ SubSeq(inbox, n + 1, Len(inbox)) \in Seq(Atoms)
        /\ SubSeq(inbox, 1, n) \o SubSeq(inbox, n + 1, Len(inbox)) = inbox
    BY <1>0, Pieces
  <2>4. bytes' \in Seq(Atoms) /\ inbox' \in Seq(Atoms) /\ bytes' \o inbox' = bytes \o inbox
    <3> DEFINE a == SubSeq(inbox, 1, n)
               b == SubSeq(inbox, n + 1, Len(inbox))
    <3> HIDE DEF a, b
    <3>1. a \in Seq(Atoms) /\ b \in Seq(Atoms) /\ a \o b = inbox /\ bytes' = bytes \o a /\ inbox' = b
      BY <2>1, <2>3 DEF a, b
    <3>2. bytes \o a \in Seq(Atoms)
      BY <1>0, <3>1, Concatenated
    <3>3. (bytes \o a) \o b = bytes \o (a \o b)
      <4>1. bytes \in Seq(Atoms) /\ a \in Seq(Atoms) /\ b \in Seq(Atoms)
        BY <1>0, <3>1
      <4> QED BY <4>1, Together
    <3>4. bytes' \o inbox' = (bytes \o a) \o b
      BY <3>1
    <3> QED BY <3>1, <3>2, <3>3, <3>4
  <2>5. BodyBytes(ask)' = BodyBytes(ask)
    BY <2>2 DEF BodyBytes
  <2> QED BY <1>0, <2>2, <2>4, <2>5 DEF WholeInv
<1>2. CASE Close
  <2>1. gone' = TRUE /\ inbox' = <<>> /\ ask' = ask /\ bytes' = bytes
    BY <1>2 DEF Close, settings
  <2>2. inbox' \in Seq(Atoms)
    BY <2>1
  <2> QED BY <1>0, <2>1, <2>2 DEF WholeInv
<1>3. CASE Intercept
  <2>1. CASE inbox # <<>>
    BY <1>3, <2>1, ReadsNothing DEF Intercept, End, settings, reading
  <2>2. CASE inbox = <<>>
    <3>1. stage' = "head" /\ bytes' = <<>> /\ inbox' = HeadBytes \o BodyBytes(ask) /\ ask' = ask
      BY <1>3, <2>2 DEF Intercept, settings
    <3>2. inbox' \in Seq(Atoms)
      BY <1>0, <3>1, HeadBytesAre, BodyBytesAre, Concatenated
    <3>3. bytes' \in Seq(Atoms) /\ bytes' \o inbox' = inbox'
      BY <3>1, <3>2
    <3>4. BodyBytes(ask)' = BodyBytes(ask)
      BY <3>1 DEF BodyBytes
    <3> QED BY <1>0, <3>1, <3>2, <3>3, <3>4 DEF WholeInv
  <2> QED BY <2>1, <2>2
<1>4. CASE Tunnel
  BY <1>4, ReadsNothing DEF Tunnel, End, settings, reading
<1>5. CASE NoRequest
  BY <1>5, ReadsNothing DEF NoRequest, End, settings, reading
<1>6. CASE ReadHead
  <2>1. /\ stage = "head" /\ Has(bytes, BlankLine) /\ stage' = "body"
        /\ bytes' = SubSeq(bytes, Len(HeadBytes) + 1, Len(bytes))
        /\ UNCHANGED <<ask, inbox, gone, data>>
    BY <1>6 DEF ReadHead, Waiting, settings
  <2>2. bytes' \in Seq(Atoms)
    BY <1>0, <2>1, HeadBytesAre
  <2>3. ASSUME ~gone PROVE bytes' \o inbox' = BodyBytes(ask)
    <3>1. bytes \o inbox = HeadBytes \o BodyBytes(ask)
      BY <2>1, <2>3 DEF WholeInv
    <3>2. Len(bytes) >= Len(HeadBytes)
      BY <1>0, <2>1, <3>1, HeadIsSeen, HeadBytesAre, BodyBytesAre
    <3>3. HeadBytes \in Seq(Atoms) /\ BodyBytes(ask) \in Seq(Atoms)
      BY <1>0, HeadBytesAre, BodyBytesAre
    <3> DEFINE h == HeadBytes
               b == BodyBytes(ask)
    <3>4. h \in Seq(Atoms) /\ b \in Seq(Atoms) /\ bytes \o inbox = h \o b /\ Len(bytes) >= Len(h)
      BY <3>1, <3>2, <3>3
    <3> HIDE DEF h, b
    <3>5. /\ bytes' \in Seq(Atoms) /\ Len(bytes') = Len(bytes) - Len(h)
          /\ \A i \in 1..Len(bytes') : bytes'[i] = bytes[Len(h) + i]
      <4>1. bytes' = SubSeq(bytes, Len(h) + 1, Len(bytes))
        BY <2>1 DEF h
      <4> QED BY <1>0, <3>4, <4>1
    <3>6. bytes' \o inbox = b
      <4>1. Left(bytes', h, bytes)
        BY <3>4, <3>5 DEF Left
      <4>2. Joins(bytes, inbox, h \o b)
        BY <3>4 DEF Joins
      <4>3. Joins(bytes', inbox, b)
        BY <1>0, <3>4, <3>5, <4>1, <4>2, TheRest
      <4> QED BY <2>1, <4>3 DEF Joins
    <3> QED BY <2>1, <3>6 DEF b
  <2>4. BodyBytes(ask)' = BodyBytes(ask)
    BY <2>1 DEF BodyBytes
  <2> QED BY <1>0, <2>1, <2>2, <2>3, <2>4 DEF WholeInv
<1>7. CASE ReadBodyBytes
  <2>1. /\ stage = "body" /\ stage' = "parsing" /\ (BodyIsRead(ask) \/ gone)
        /\ data' = IF Ask[ask].framing = "chunked" THEN Dechunk(bytes) ELSE bytes
        /\ UNCHANGED <<ask, inbox, bytes, gone>>
    BY <1>7 DEF ReadBodyBytes, Waiting, settings
  <2>2. ~gone => data' = Ask[ask].data
    BY <2>1, BodyIsSeen
  <2> QED BY <1>0, <2>1, <2>2 DEF WholeInv
<1>8. CASE Parse \/ Compress1 \/ Route \/ Respond \/ ServeRepeat
  BY <1>8, ReadsNothing DEF Parse, Compress1, Route, Respond, ServeRepeat, settings, reading, Early
<1>9. CASE Fail \/ Pass \/ HangUp \/ Finish \/ Uncaptured \/ Capture
  BY <1>9, ReadsNothing DEF Fail, Pass, HangUp, Finish, Uncaptured, Capture, End, settings, reading, Early
<1>10. CASE Ingest
  <2>1. stage = "telling" /\ UNCHANGED <<ask, inbox, bytes, gone, data>>
    BY <1>10 DEF Ingest, settings, reading
  <2>2. stage' \in {"telling", "told"}
    BY <1>10 DEF Ingest
  <2> QED BY <2>1, <2>2, ReadsNothing DEF Early
<1>11. CASE UNCHANGED vars
  BY <1>11, ReadsNothing DEF vars, settings, reading
<1> QED BY <1>1, <1>2, <1>3, <1>4, <1>5, <1>6, <1>7, <1>8, <1>9, <1>10, <1>11 DEF Next

\* So they are together in every behaviour.
LEMMA WholeInvariance == Spec => []WholeInv
BY WholeInit, WholeNext, PTL DEF Spec

\* However the bytes of a request are cut and however long it is, what a tool that
\* stays has sent is what is forwarded: nothing of a body that came with the head
\* is lost, and the last chunk is seen though it comes in pieces
\* (_read_http_request, _dechunk).
THEOREM RequestsAreWhole == Spec => []RequestIsWhole
<1>1. WholeInv => RequestIsWhole
  BY DEF WholeInv, RequestIsWhole
<1> QED BY <1>1, WholeInvariance, PTL

-----------------------------------------------------------------------------
(* Reading a stream, frame by frame *)

\* One step over a sequence: a frame of a stream is read, or a tool that was not
\* there yet is kept.
Base(of) == IF of = "stream" THEN Nothing ELSE <<>>
Step(of, api, so, item) ==
  IF of = "stream" THEN ReadFrame(api, so, item)
  ELSE IF item \in ToSet(so) THEN so ELSE Append(so, item)

\* What comes of every set of places, the last of them last.
Reads(of, api, answer, T, S) ==
  T = [s \in SUBSET S |->
         IF s = {} THEN Base(of) ELSE Step(of, api, T[s \ {Max(s)}], answer[Max(s)])]

\* A set of frames that has the last one ends with it.
LEMMA TheLast ==
  ASSUME NEW n \in Nat, NEW s \in SUBSET (1..(n + 1)), n + 1 \in s
  PROVE  Max(s) = n + 1
<1>1. \A x \in s : (\A y \in s : x >= y) => x = n + 1
  OBVIOUS
<1>2. \A y \in s : n + 1 >= y
  OBVIOUS
<1> QED BY <1>1, <1>2 DEF Max

\* The first places, and the last of them.
LEMMA FirstOnes ==
  ASSUME NEW n \in Nat, NEW i \in 1..n
  PROVE  /\ 1..i \in SUBSET (1..n) /\ 1..i # {}
         /\ (1..i) \ {i} = 1..(i - 1) /\ Max(1..i) = i
<1>1. i \in Nat /\ 1 <= i /\ i <= n
  OBVIOUS
<1>2. \A x : x \in (1..i) \ {i} <=> x \in 1..(i - 1)
  BY <1>1
<1>3. (1..i) \ {i} = 1..(i - 1)
  BY <1>2
<1>4. 1..i \subseteq 1..n
  BY <1>1
<1>5. i \in 1..i
  BY <1>1
<1>6. Max(1..i) = i
  <2> DEFINE s == 1..i
             k == i - 1
  <2>1. k \in Nat /\ k + 1 = i /\ s \in SUBSET (1..(k + 1)) /\ k + 1 \in s
    BY <1>1, <1>5
  <2> HIDE DEF s, k
  <2>2. Max(s) = k + 1
    BY <2>1, TheLast
  <2> QED BY <2>1, <2>2 DEF s
<1> QED BY <1>3, <1>4, <1>5, <1>6

\* What is read of the frames that are there extends to one more.
LEMMA OneMoreFrame ==
  ASSUME NEW of, NEW api, NEW answer, NEW n \in Nat, \E T : Reads(of, api, answer, T, 1..n)
  PROVE  \E T : Reads(of, api, answer, T, 1..(n + 1))
<1>1. PICK T : Reads(of, api, answer, T, 1..n)
  OBVIOUS
<1> DEFINE U == [s \in SUBSET (1..(n + 1)) |->
                   IF n + 1 \in s THEN Step(of, api, T[s \ {n + 1}], answer[n + 1]) ELSE T[s]]
<1>2. ASSUME NEW s \in SUBSET (1..(n + 1))
      PROVE  U[s] = IF s = {} THEN Base(of) ELSE Step(of, api, U[s \ {Max(s)}], answer[Max(s)])
  <2>1. CASE n + 1 \in s
    <3>1. Max(s) = n + 1
      BY <2>1, TheLast
    <3>2. s \ {n + 1} \in SUBSET (1..(n + 1)) /\ n + 1 \notin s \ {n + 1}
      OBVIOUS
    <3>3. U[s \ {n + 1}] = T[s \ {n + 1}]
      BY <3>2
    <3>4. U[s] = Step(of, api, T[s \ {n + 1}], answer[n + 1])
      BY <2>1
    <3> HIDE DEF U
    <3> QED BY <2>1, <3>1, <3>3, <3>4
  <2>2. CASE n + 1 \notin s
    <3>1. s \in SUBSET (1..n)
      BY <2>2
    <3>2. U[s] = T[s]
      BY <2>2
    <3>3. T[s] = IF s = {} THEN Base(of) ELSE Step(of, api, T[s \ {Max(s)}], answer[Max(s)])
      BY <1>1, <3>1 DEF Reads
    <3>4. s \ {Max(s)} \in SUBSET (1..(n + 1)) /\ n + 1 \notin s \ {Max(s)}
      BY <2>2
    <3>5. U[s \ {Max(s)}] = T[s \ {Max(s)}]
      BY <3>4
    <3> HIDE DEF U
    <3> QED BY <3>2, <3>3, <3>5
  <2> QED BY <2>1, <2>2
<1>3. U = [s \in SUBSET (1..(n + 1)) |-> U[s]]
  OBVIOUS
<1> HIDE DEF U
<1>4. Reads(of, api, answer, U, 1..(n + 1))
  BY <1>2, <1>3 DEF Reads
<1> QED BY <1>4

\* So it exists for any number of frames.
LEMMA ReadsExist ==
  ASSUME NEW of, NEW api, NEW answer, NEW n \in Nat
  PROVE  \E T : Reads(of, api, answer, T, 1..n)
<1> DEFINE bad == {m \in Nat : ~\E T : Reads(of, api, answer, T, 1..m)}
<1> SUFFICES ASSUME bad # {} PROVE FALSE
  OBVIOUS
<1>1. PICK m \in bad : \A k \in bad : m <= k
  <2>1. bad \in SUBSET Nat
    OBVIOUS
  <2> HIDE DEF bad
  <2> QED BY <2>1, LeastNatural
<1>2. CASE m = 0
  <2> DEFINE T == [s \in SUBSET (1..0) |-> Base(of)]
  <2>1. 1..0 = {}
    OBVIOUS
  <2>2. \A s \in SUBSET (1..0) : s = {}
    BY <2>1
  <2>3. Reads(of, api, answer, T, 1..0)
    BY <2>2 DEF Reads
  <2> QED BY <1>2, <2>3
<1>3. CASE m # 0
  <2>1. m - 1 \in Nat /\ (m - 1) + 1 = m /\ ~(m <= m - 1)
    BY <1>3
  <2>2. m - 1 \notin bad
    BY <1>1, <2>1
  <2>3. \E T : Reads(of, api, answer, T, 1..(m - 1))
    BY <2>1, <2>2
  <2>4. \E T : Reads(of, api, answer, T, 1..((m - 1) + 1))
    BY <2>1, <2>3, OneMoreFrame
  <2> QED BY <2>1, <2>4
<1> QED BY <1>2, <1>3

\* A run over the places, one after the other.
Runs(of, api, answer, n, run) ==
  run[0] = Base(of) /\ \A i \in 1..n : run[i] = Step(of, api, run[i - 1], answer[i])

\* It ends with what a run over the places ends with.
LEMMA RunOver ==
  ASSUME NEW of, NEW api, NEW answer, NEW n \in Nat,
         NEW iter, Reads(of, api, answer, iter, 1..n),
         NEW run, Runs(of, api, answer, n, run)
  PROVE  iter[1..n] = run[n]
<1>0. run[0] = Base(of) /\ \A i \in 1..n : run[i] = Step(of, api, run[i - 1], answer[i])
  BY DEF Runs
<1>1. \A i \in 0..n : iter[1..i] = run[i]
  <2> DEFINE bad == {i \in 0..n : iter[1..i] # run[i]}
  <2> SUFFICES ASSUME bad # {} PROVE FALSE
    OBVIOUS
  <2>1. PICK i \in bad : \A k \in bad : i <= k
    <3>1. bad \in SUBSET Nat
      OBVIOUS
    <3> HIDE DEF bad
    <3> QED BY <3>1, LeastNatural
  <2>2. \A s \in SUBSET (1..n) :
          iter[s] = IF s = {} THEN Base(of) ELSE Step(of, api, iter[s \ {Max(s)}], answer[Max(s)])
    BY DEF Reads
  <2>3. CASE i = 0
    <3>1. 1..i = {}
      BY <2>3
    <3> QED BY <1>0, <2>1, <2>2, <2>3, <3>1
  <2>4. CASE i # 0
    <3>1. i - 1 \in Nat /\ (i - 1) + 1 = i /\ i - 1 \in 0..n /\ i \in 1..n /\ ~(i <= i - 1)
      BY <2>4
    <3>2. iter[1..(i - 1)] = run[i - 1]
      BY <2>1, <3>1
    <3>3. 1..i \in SUBSET (1..n) /\ 1..i # {} /\ (1..i) \ {i} = 1..(i - 1) /\ Max(1..i) = i
      BY <3>1, FirstOnes
    <3>5. iter[1..i] = Step(of, api, iter[(1..i) \ {i}], answer[i])
      BY <2>2, <3>3
    <3>6. iter[1..i] = run[i]
      BY <1>0, <3>1, <3>2, <3>3, <3>5
    <3> QED BY <3>6
  <2> QED BY <2>3, <2>4
<1> QED BY <1>1

\* There is one.
LEMMA RunExists ==
  ASSUME NEW of, NEW api, NEW answer, NEW n \in Nat
  PROVE  \E run : Runs(of, api, answer, n, run)
<1>1. PICK T : Reads(of, api, answer, T, 1..n)
  BY ReadsExist
<1>2. \A s \in SUBSET (1..n) :
        T[s] = IF s = {} THEN Base(of) ELSE Step(of, api, T[s \ {Max(s)}], answer[Max(s)])
  BY <1>1 DEF Reads
<1> DEFINE run == [i \in 0..n |-> T[1..i]]
<1>3. run[0] = Base(of)
  <2>1. 1..0 = {} /\ 0 \in 0..n
    OBVIOUS
  <2> QED BY <1>2, <2>1
<1>4. ASSUME NEW i \in 1..n
      PROVE  run[i] = Step(of, api, run[i - 1], answer[i])
  <2>1. i \in 0..n /\ i - 1 \in 0..n
    OBVIOUS
  <2>2. run[i] = T[1..i] /\ run[i - 1] = T[1..(i - 1)]
    BY <2>1
  <2> HIDE DEF run
  <2> DEFINE s == 1..i
  <2>3. s \in SUBSET (1..n) /\ s # {} /\ s \ {i} = 1..(i - 1) /\ Max(s) = i
    BY FirstOnes
  <2> HIDE DEF s
  <2>4. T[s] = Step(of, api, T[s \ {Max(s)}], answer[Max(s)])
    BY <1>2, <2>3
  <2>5. T[s] = Step(of, api, T[1..(i - 1)], answer[i])
    BY <2>3, <2>4
  <2> QED BY <2>2, <2>5 DEF s
<1> HIDE DEF run
<1>5. Runs(of, api, answer, n, run)
  BY <1>3, <1>4 DEF Runs
<1> QED BY <1>5

\* What is read of an answer is what a run over its frames ends with.
LEMMA ReadStreamIs ==
  ASSUME NEW api, NEW answer, NEW n \in Nat, DOMAIN answer = 1..n,
         NEW run, run[0] = Nothing, \A i \in 1..n : run[i] = ReadFrame(api, run[i - 1], answer[i])
  PROVE  ReadStream(api, answer) = run[n]
<1> DEFINE iter[s \in SUBSET (1..n)] ==
             IF s = {} THEN Nothing ELSE LET x == Max(s) IN ReadFrame(api, iter[s \ {x}], answer[x])
<1>1. ReadStream(api, answer) = iter[1..n]
  BY DEF ReadStream, FoldLeft, MapThenFoldSet
<1>2. Reads("stream", api, answer, iter, 1..n)
  <2>1. iter = CHOOSE T : Reads("stream", api, answer, T, 1..n)
    BY DEF Reads, Base, Step
  <2> HIDE DEF iter
  <2> QED BY <2>1, ReadsExist
<1> HIDE DEF iter
<1>3. Runs("stream", api, answer, n, run)
  BY DEF Runs, Base, Step
<1>4. iter[1..n] = run[n]
  BY <1>2, <1>3, RunOver
<1> QED BY <1>1, <1>4

\* What is left of the tools is what a run over them ends with.
LEMMA DistinctIs ==
  ASSUME NEW tools, NEW n \in Nat, DOMAIN tools = 1..n,
         NEW run, run[0] = <<>>,
         \A i \in 1..n : run[i] = IF tools[i] \in ToSet(run[i - 1]) THEN run[i - 1]
                                  ELSE Append(run[i - 1], tools[i])
  PROVE  Distinct(tools) = run[n]
<1> DEFINE iter[s \in SUBSET (1..n)] ==
             IF s = {} THEN <<>>
             ELSE LET x == Max(s)
                  IN IF tools[x] \in ToSet(iter[s \ {x}]) THEN iter[s \ {x}]
                     ELSE Append(iter[s \ {x}], tools[x])
<1>1. Distinct(tools) = iter[1..n]
  BY DEF Distinct, FoldLeft, MapThenFoldSet
<1>2. Reads("tools", "tools", tools, iter, 1..n)
  <2>1. iter = CHOOSE T : Reads("tools", "tools", tools, T, 1..n)
    BY DEF Reads, Base, Step
  <2> HIDE DEF iter
  <2> QED BY <2>1, ReadsExist
<1> HIDE DEF iter
<1>3. Runs("tools", "tools", tools, n, run)
  BY DEF Runs, Base, Step
<1>4. iter[1..n] = run[n]
  BY <1>2, <1>3, RunOver
<1> QED BY <1>1, <1>4

-----------------------------------------------------------------------------
(* What is read of the beginning of a stream, and of all of it *)

\* A sequence with one more at its end, and with one in front as well.
LEMMA ThenOne ==
  ASSUME NEW k \in Nat, NEW t, t = [i \in 1..k |-> t[i]], NEW y
  PROVE  LET s == t \o <<y>>
         IN /\ Len(s) = k + 1 /\ DOMAIN s = 1..(k + 1) /\ s = [i \in 1..(k + 1) |-> s[i]]
            /\ \A i \in 1..k : s[i] = t[i]
            /\ s[k + 1] = y
<1> DEFINE S == {t[i] : i \in 1..k} \cup {y}
<1>1. t \in Seq(S) /\ Len(t) = k
  OBVIOUS
<1>2. <<y>> \in Seq(S) /\ Len(<<y>>) = 1 /\ <<y>>[1] = y
  OBVIOUS
<1> HIDE DEF S
<1> QED BY <1>1, <1>2

\* A sequence with one more in front.
LEMMA OneThen ==
  ASSUME NEW k \in Nat, NEW t, t = [i \in 1..k |-> t[i]], NEW x
  PROVE  LET s == <<x>> \o t
         IN /\ Len(s) = k + 1 /\ DOMAIN s = 1..(k + 1) /\ s = [i \in 1..(k + 1) |-> s[i]]
            /\ s[1] = x
            /\ \A i \in 1..k : s[i + 1] = t[i]
<1> DEFINE S == {t[i] : i \in 1..k} \cup {x}
<1>1. t \in Seq(S) /\ Len(t) = k
  OBVIOUS
<1>2. <<x>> \in Seq(S) /\ Len(<<x>>) = 1 /\ <<x>>[1] = x
  OBVIOUS
<1> HIDE DEF S
<1>3. <<x>> \o t \in Seq(S) /\ Len(<<x>> \o t) = k + 1
  BY <1>1, <1>2
<1>4. (<<x>> \o t)[1] = x
  BY <1>1, <1>2
<1>5. \A i \in 1..k : (<<x>> \o t)[i + 1] = t[i]
  BY <1>1, <1>2
<1> QED BY <1>3, <1>4, <1>5

\* The text that was read grows by one piece.
LEMMA OneMoreWord ==
  ASSUME NEW words \in Seq(Nat), NEW i \in 1..Len(words)
  PROVE  SubSeq(words, 1, i - 1) \o <<words[i]>> = SubSeq(words, 1, i)
<1> DEFINE s == SubSeq(words, 1, i - 1)
           t == SubSeq(words, 1, i)
<1>1. s \in Seq(Nat) /\ Len(s) = i - 1 /\ \A j \in 1..(i - 1) : s[j] = words[j]
  OBVIOUS
<1>2. t \in Seq(Nat) /\ Len(t) = i /\ \A j \in 1..i : t[j] = words[j]
  OBVIOUS
<1>3. words[i] \in Nat /\ i - 1 \in Nat /\ (i - 1) + 1 = i
  OBVIOUS
<1> HIDE DEF s, t
<1> DEFINE w == words[i]
<1>4. s = [j \in 1..(i - 1) |-> s[j]]
  BY <1>1
<1> DEFINE k == i - 1
<1>5. k \in Nat /\ k + 1 = i
  BY <1>3
<1> HIDE DEF w, k
<1>6. /\ DOMAIN (s \o <<w>>) = 1..(k + 1) /\ s \o <<w>> = [j \in 1..(k + 1) |-> (s \o <<w>>)[j]]
      /\ \A j \in 1..k : (s \o <<w>>)[j] = s[j]
      /\ (s \o <<w>>)[k + 1] = w
  <2>1. s = [j \in 1..k |-> s[j]]
    BY <1>4 DEF k
  <2> QED BY <1>5, <2>1, ThenOne
<1>7. \A j \in 1..i : (s \o <<w>>)[j] = t[j]
  <2> TAKE j \in 1..i
  <2>1. CASE j = i
    BY <1>2, <1>5, <1>6, <2>1 DEF w
  <2>2. CASE j # i
    <3>1. j \in 1..k /\ j \in 1..(i - 1)
      BY <1>5, <2>2
    <3> QED BY <1>1, <1>2, <1>6, <3>1
  <2> QED BY <2>1, <2>2
<1>8. t = [j \in 1..i |-> t[j]]
  BY <1>2
<1>9. s \o <<w>> = t
  BY <1>5, <1>6, <1>7, <1>8
<1> QED BY <1>9 DEF s, t, w

\* None of a text and all of it.
LEMMA NoWordsAllWords ==
  ASSUME NEW words \in Seq(Nat)
  PROVE  SubSeq(words, 1, 0) = <<>> /\ SubSeq(words, 1, Len(words)) = words
OBVIOUS

\* What a provider charges for.
Usages == [input : Nat, output : Nat, read : Nat, written : Nat]

\* A frame of a call's answer that has the i-th piece of its text.
TextOf(c, m, i) ==
  Frame("text", <<c.words[i]>>,
        IF c.body.api = "google" THEN Reported(c.body.api, c.bill, Min({i, c.bill.output})) ELSE None,
        None, IF c.body.api \in {"openai", "google"} THEN m ELSE None)
\* What a provider reports at the end, and the stream of frames it sends.
Total(c) == Reported(c.body.api, c.bill, c.bill.output)
StreamOf(c, m) == Stream(c.body.api, m, c.bill, c.words, c.asked)

\* Frame by frame, the streams of the four APIs.
LEMMA TextsAre ==
  ASSUME NEW c, NEW m
  PROVE  LET texts == [i \in DOMAIN c.words |-> TextOf(c, m, i)]
         IN /\ c.body.api = "anthropic" =>
                 StreamOf(c, m) = <<Frame("start", <<>>, Reported(c.body.api, c.bill, 1), None, m)>> \o texts
                                    \o <<Frame("end", <<>>, Total(c), "stop", None)>>
            /\ c.body.api = "responses" =>
                 StreamOf(c, m) = texts \o <<Frame("end", c.words, Total(c), "stop", m)>>
            /\ c.body.api = "openai" =>
                 StreamOf(c, m) = texts \o <<Frame("end", <<>>, None, "stop", m)>>
                              \o (IF c.asked THEN <<Frame("usage", <<>>, Total(c), None, m)>> ELSE <<>>)
            /\ c.body.api = "google" =>
                 StreamOf(c, m) = texts \o <<Frame("end", <<>>, Total(c), "stop", m)>>
BY DEF Stream, StreamOf, TextOf, Total

\* What is charged, as each provider tells it, and nothing is not told.
LEMMA ToldIs ==
  ASSUME NEW c, IsACall(c), c.bill \in Usages
  PROVE  /\ Total(c) # None
         /\ c.body.api = "anthropic" => AsTold(Total(c)) = c.bill
         /\ c.body.api # "anthropic" => Split(Total(c)) = c.bill
         /\ \A n \in 0..(c.bill.output + 1) : Reported(c.body.api, c.bill, n) # None
<1> DEFINE api == c.body.api
           bill == c.bill
<1>1. bill = [input |-> bill.input, output |-> bill.output, read |-> bill.read, written |-> bill.written]
      /\ bill.input \in Nat /\ bill.output \in Nat /\ bill.read \in Nat /\ bill.written \in Nat
  BY DEF Usages
<1>2. bill.output \in 0..(bill.output + 1)
  BY <1>1
<1>3. \A n \in 0..(bill.output + 1) : Reported(api, bill, n) # None
  BY DEF IsACall
<1>4. api = "anthropic" => AsTold(Total(c)) = bill
  BY <1>1 DEF AsTold, Reported, Total
<1>5. api # "anthropic" => Split(Total(c)) = bill
  <2> SUFFICES ASSUME api # "anthropic" PROVE Split(Total(c)) = bill
    OBVIOUS
  <2>1. bill.written = 0
    BY DEF IsACall
  <2>2. Less(bill.input + bill.read, bill.read) = bill.input
    BY <1>1 DEF Less
  <2>3. Split(Total(c)) = [input |-> Less(bill.input + bill.read, bill.read), output |-> bill.output,
                           read |-> bill.read, written |-> 0]
    BY DEF Split, Reported, Total
  <2> QED BY <1>1, <2>1, <2>2, <2>3
<1> QED BY <1>2, <1>3, <1>4, <1>5 DEF Total

\* Of what was read of a part of an answer, usage is missing that it would tell.
Unsure(c, s) ==
  s.usage \in Usages /\ (c.body.api # "google" => s.usage.output = 0 \/ (c.body.api = "openai" /\ ~s.told))

\* What is read of all of it.
ReadsAll(c, m, s) ==
  /\ s.text = c.words /\ s.model = m
  /\ IF c.body.api = "openai" /\ ~c.asked THEN s.usage = NoUsage /\ ~s.told
     ELSE s.usage = c.bill /\ (c.body.api = "openai" => s.told)

\* The frames of an answer, and what has been read after each of them.
RunOf(c, m, n, run) ==
  LET answer == StreamOf(c, m)
  IN /\ DOMAIN answer = 1..n /\ answer = [i \in 1..n |-> answer[i]]
     /\ run[0] = Nothing
     /\ \A i \in 1..n : run[i] = ReadFrame(c.body.api, run[i - 1], answer[i])
     /\ \A i \in 0..(n - 1) : Unsure(c, run[i])
     /\ ReadsAll(c, m, run[n])

\* Of what was not read at all usage is missing.
LEMMA NothingIsUnsure == \A c : Unsure(c, Nothing)
BY DEF Unsure, Nothing, NoUsage, Usages

\* The Messages API tells the input first and the output last.
LEMMA AnthropicRun ==
  ASSUME NEW c, IsACall(c), c.bill \in Usages, c.body.api = "anthropic", NEW m
  PROVE  \E n, run : n \in Nat /\ RunOf(c, m, n, run)
<1> DEFINE words == c.words
           k == Len(words)
           start == Frame("start", <<>>, Reported(c.body.api, c.bill, 1), None, m)
           texts == [i \in 1..k |-> TextOf(c, m, i)]
           end == Frame("end", <<>>, Total(c), "stop", None)
           answer == StreamOf(c, m)
           input == [AsTold(Reported(c.body.api, c.bill, 1)) EXCEPT !.output = 0]
           After(i) == [text |-> SubSeq(words, 1, i - 1), usage |-> input, stops |-> <<>>,
                        model |-> m, told |-> FALSE]
           All == [text |-> words, usage |-> [input EXCEPT !.output = end.usage.output],
                   stops |-> Stopped(<<>>, end), model |-> m, told |-> FALSE]
           run == [i \in 0..(k + 2) |-> IF i = 0 THEN Nothing ELSE IF i = k + 2 THEN All ELSE After(i)]
<1>1. words \in Seq(Nat) /\ k \in Nat /\ DOMAIN words = 1..k
  <2>1. c.words \in Seq(Nat)
    BY DEF IsACall
  <2> QED BY <2>1
<1>2. answer = (<<start>> \o texts) \o <<end>>
  BY <1>1, TextsAre
<1>3. /\ DOMAIN answer = 1..(k + 2) /\ answer = [i \in 1..(k + 2) |-> answer[i]]
      /\ answer[1] = start /\ answer[k + 2] = end
      /\ \A i \in 1..k : answer[i + 1] = texts[i]
  <2> HIDE DEF start, end, k, answer
  <2> DEFINE s == <<start>> \o texts
             l == k + 1
  <2>1. texts = [i \in 1..k |-> texts[i]]
    OBVIOUS
  <2> HIDE DEF texts
  <2>2. /\ DOMAIN s = 1..(k + 1) /\ s = [i \in 1..(k + 1) |-> s[i]] /\ s[1] = start
        /\ \A i \in 1..k : s[i + 1] = texts[i]
    BY <1>1, <2>1, OneThen
  <2>3. answer = s \o <<end>>
    BY <1>2
  <2>4. l \in Nat /\ s = [i \in 1..l |-> s[i]] /\ l + 1 = k + 2
    BY <1>1, <2>2
  <2> HIDE DEF s, l
  <2>5. /\ DOMAIN answer = 1..(l + 1) /\ answer = [i \in 1..(l + 1) |-> answer[i]]
        /\ \A i \in 1..l : answer[i] = s[i]
        /\ answer[l + 1] = end
    BY <2>3, <2>4, ThenOne
  <2>6. \A i \in 1..k : i + 1 \in 1..l /\ 1 \in 1..l
    BY <1>1 DEF l
  <2>7. 1 \in 1..l
    BY <1>1 DEF l
  <2> QED BY <2>2, <2>4, <2>5, <2>6, <2>7
<1>4. /\ \A i \in 1..k : answer[i + 1].is = "text" /\ answer[i + 1].text = <<words[i]>>
      /\ start.is = "start" /\ start.usage = Reported(c.body.api, c.bill, 1) /\ start.model = m
      /\ end.is = "end" /\ end.usage = Total(c)
  <2> HIDE DEF answer
  <2>1. \A i \in 1..k : answer[i + 1] = TextOf(c, m, i)
    BY <1>3
  <2>2. \A i \in 1..k : TextOf(c, m, i).is = "text" /\ TextOf(c, m, i).text = <<words[i]>>
    BY DEF TextOf, Frame
  <2>3. start.is = "start" /\ start.usage = Reported(c.body.api, c.bill, 1) /\ start.model = m
    BY DEF Frame
  <2>4. end.is = "end" /\ end.usage = Total(c)
    BY DEF Frame
  <2> HIDE DEF start, end, texts
  <2> QED BY <2>1, <2>2, <2>3, <2>4
<1>5. input \in Usages /\ input.output = 0 /\ [input EXCEPT !.output = c.bill.output] = c.bill
  <2> DEFINE bill == c.bill
  <2>1. bill = [input |-> bill.input, output |-> bill.output, read |-> bill.read, written |-> bill.written]
        /\ bill.input \in Nat /\ bill.output \in Nat /\ bill.read \in Nat /\ bill.written \in Nat
    BY DEF Usages
  <2>2. input = [input |-> bill.input, output |-> 0, read |-> bill.read, written |-> bill.written]
    BY <2>1 DEF AsTold, Reported
  <2> HIDE DEF bill, input
  <2>3. [input EXCEPT !.output = bill.output] = bill
    BY <2>1, <2>2
  <2> QED BY <2>1, <2>2, <2>3 DEF Usages, bill
<1>6. Total(c).output = c.bill.output
  BY DEF Total, Reported
<1> HIDE DEF input, start, end, answer, texts, words
<1>7. ReadFrame("anthropic", Nothing, start) = After(1)
  <2>1. SubSeq(words, 1, 1 - 1) = <<>>
    BY <1>1, NoWordsAllWords
  <2>2. ReadFrame("anthropic", Nothing, start) = AnthropicFrame(Nothing, start)
    BY DEF ReadFrame
  <2>3. AnthropicFrame(Nothing, start) = [Nothing EXCEPT !.usage = input, !.model = Model(None, start)]
    BY <1>4 DEF AnthropicFrame, Nothing, input
  <2>4. Model(None, start) = m
    BY <1>4 DEF Model
  <2> QED BY <2>1, <2>2, <2>3, <2>4 DEF Nothing
<1>8. ASSUME NEW i \in 1..k PROVE ReadFrame("anthropic", After(i), answer[i + 1]) = After(i + 1)
  <2>1. ReadFrame("anthropic", After(i), answer[i + 1]) = [After(i) EXCEPT !.text = @ \o <<words[i]>>]
    BY <1>4 DEF ReadFrame, AnthropicFrame
  <2>2. SubSeq(words, 1, i - 1) \o <<words[i]>> = SubSeq(words, 1, i)
    BY <1>1, OneMoreWord
  <2>3. (i + 1) - 1 = i
    OBVIOUS
  <2> QED BY <2>1, <2>2, <2>3
<1>9. ReadFrame("anthropic", After(k + 1), end) = All
  <2>1. SubSeq(words, 1, (k + 1) - 1) = words
    BY <1>1, NoWordsAllWords
  <2>2. ReadFrame("anthropic", After(k + 1), end)
          = [After(k + 1) EXCEPT !.usage.output = end.usage.output, !.stops = Stopped(<<>>, end)]
    BY <1>4 DEF ReadFrame, AnthropicFrame
  <2> QED BY <2>1, <2>2
<1>10. \A i \in 1..(k + 2) : run[i] = ReadFrame("anthropic", run[i - 1], answer[i])
  <2> HIDE DEF After, All
  <2> SUFFICES ASSUME NEW i \in 1..(k + 2) PROVE run[i] = ReadFrame("anthropic", run[i - 1], answer[i])
    OBVIOUS
  <2>1. CASE i = 1
    BY <1>1, <1>3, <1>7, <2>1
  <2>2. CASE i = k + 2
    <3>1. run[i] = All /\ run[i - 1] = After(k + 1) /\ answer[i] = end
      BY <1>1, <1>3, <2>2
    <3> QED BY <1>9, <3>1
  <2>3. CASE i \in 2..(k + 1)
    <3>1. i - 1 \in 1..k /\ (i - 1) + 1 = i
      BY <1>1, <2>3
    <3>2. run[i] = After(i) /\ run[i - 1] = After(i - 1)
      BY <1>1, <2>3
    <3> QED BY <1>8, <3>1, <3>2
  <2> QED BY <1>1, <2>1, <2>2, <2>3
<1>11. \A i \in 0..(k + 1) : Unsure(c, run[i])
  <2> SUFFICES ASSUME NEW i \in 0..(k + 1) PROVE Unsure(c, run[i])
    OBVIOUS
  <2>1. CASE i = 0
    BY <1>1, <2>1, NothingIsUnsure
  <2>2. CASE i # 0
    <3>1. run[i] = After(i)
      BY <1>1, <2>2
    <3> HIDE DEF run
    <3> QED BY <1>5, <3>1 DEF Unsure
  <2> QED BY <2>1, <2>2
<1>12. ReadsAll(c, m, run[k + 2])
  <2>1. run[k + 2] = All
    BY <1>1
  <2>2. All.usage = c.bill
    BY <1>4, <1>5, <1>6
  <2> HIDE DEF run
  <2> QED BY <2>1, <2>2 DEF ReadsAll, words
<1>13. k + 2 \in Nat /\ (k + 2) - 1 = k + 1 /\ run[0] = Nothing
  BY <1>1
<1> HIDE DEF run
<1>14. RunOf(c, m, k + 2, run)
  BY <1>3, <1>10, <1>11, <1>12, <1>13 DEF RunOf, answer
<1> QED BY <1>13, <1>14

\* The Responses API tells everything last.
LEMMA ResponsesRun ==
  ASSUME NEW c, IsACall(c), c.bill \in Usages, c.body.api = "responses", NEW m
  PROVE  \E n, run : n \in Nat /\ RunOf(c, m, n, run)
<1> DEFINE words == c.words
           k == Len(words)
           end == Frame("end", words, Total(c), "stop", m)
           answer == StreamOf(c, m)
           After(i) == [text |-> SubSeq(words, 1, i), usage |-> NoUsage, stops |-> <<>>,
                        model |-> None, told |-> FALSE]
           All == [text |-> words, usage |-> c.bill,
                   stops |-> Stopped(<<>>, end), model |-> m, told |-> FALSE]
           run == [i \in 0..(k + 1) |-> IF i = k + 1 THEN All ELSE After(i)]
<1>1. words \in Seq(Nat) /\ k \in Nat /\ DOMAIN words = 1..k
  <2>1. c.words \in Seq(Nat)
    BY DEF IsACall
  <2> QED BY <2>1
<1>2. /\ DOMAIN answer = 1..(k + 1) /\ answer = [i \in 1..(k + 1) |-> answer[i]]
      /\ \A i \in 1..k : answer[i] = TextOf(c, m, i)
      /\ answer[k + 1] = end
  <2>1. answer = [i \in DOMAIN words |-> TextOf(c, m, i)] \o <<end>>
    BY TextsAre
  <2> DEFINE texts == [i \in 1..k |-> TextOf(c, m, i)]
             s == texts \o <<end>>
             l == k
  <2>2. answer = s /\ k = l /\ l \in Nat
    BY <1>1, <2>1
  <2>3. texts = [i \in 1..l |-> texts[i]] /\ \A i \in 1..l : texts[i] = TextOf(c, m, i)
    OBVIOUS
  <2> HIDE DEF end, answer, texts, l
  <2>4. /\ DOMAIN s = 1..(l + 1) /\ s = [i \in 1..(l + 1) |-> s[i]]
        /\ \A i \in 1..l : s[i] = texts[i]
        /\ s[l + 1] = end
    BY <2>2, <2>3, ThenOne
  <2> HIDE DEF s, k
  <2> QED BY <2>2, <2>3, <2>4
<1>3. /\ \A i \in 1..k : answer[i].is = "text" /\ answer[i].text = <<words[i]>>
      /\ end.is = "end" /\ end.usage = Total(c) /\ end.text = words /\ end.model = m
  <2> HIDE DEF answer
  <2>1. \A i \in 1..k : TextOf(c, m, i).is = "text" /\ TextOf(c, m, i).text = <<words[i]>>
    BY DEF TextOf, Frame
  <2>2. end.is = "end" /\ end.usage = Total(c) /\ end.text = words /\ end.model = m
    BY DEF Frame
  <2> HIDE DEF end
  <2> QED BY <1>2, <2>1, <2>2
<1>4. Total(c) # None /\ Split(Total(c)) = c.bill
  BY ToldIs
<1> HIDE DEF end, answer, words
<1>5. After(0) = Nothing
  <2>1. SubSeq(words, 1, 0) = <<>>
    BY <1>1, NoWordsAllWords
  <2> QED BY <2>1 DEF Nothing
<1>6. ASSUME NEW i \in 1..k PROVE ReadFrame("responses", After(i - 1), answer[i]) = After(i)
  <2>1. ReadFrame("responses", After(i - 1), answer[i]) = [After(i - 1) EXCEPT !.text = @ \o <<words[i]>>]
    BY <1>3 DEF ReadFrame, ResponsesFrame
  <2>2. SubSeq(words, 1, i - 1) \o <<words[i]>> = SubSeq(words, 1, i)
    BY <1>1, OneMoreWord
  <2> QED BY <2>1, <2>2
<1>7. ReadFrame("responses", After(k), end) = All
  <2>1. SubSeq(words, 1, k) = words
    BY <1>1, NoWordsAllWords
  <2>2. ReadFrame("responses", After(k), end)
          = [After(k) EXCEPT !.text = IF @ = <<>> THEN end.text ELSE @,
                             !.usage = Split(end.usage),
                             !.stops = Stopped(@, end), !.model = Model(@, end)]
    BY <1>3, <1>4 DEF ReadFrame, ResponsesFrame
  <2>3. Model(None, end) = m
    BY <1>3 DEF Model
  <2> DEFINE s == After(k)
             stops == Stopped(<<>>, end)
  <2>4. s = [text |-> words, usage |-> NoUsage, stops |-> <<>>, model |-> None, told |-> FALSE]
    BY <2>1
  <2>5. ReadFrame("responses", s, end)
          = [s EXCEPT !.text = IF @ = <<>> THEN end.text ELSE @,
                      !.usage = Split(end.usage),
                      !.stops = Stopped(@, end), !.model = Model(@, end)]
    BY <2>2
  <2> HIDE DEF s
  <2>6. ReadFrame("responses", s, end)
          = [text |-> words, usage |-> Split(end.usage), stops |-> Stopped(<<>>, end),
             model |-> Model(None, end), told |-> FALSE]
    BY <1>3, <2>4, <2>5
  <2> QED BY <1>3, <1>4, <2>3, <2>6 DEF s
<1>8. \A i \in 1..(k + 1) : run[i] = ReadFrame("responses", run[i - 1], answer[i])
  <2> HIDE DEF After, All
  <2> SUFFICES ASSUME NEW i \in 1..(k + 1) PROVE run[i] = ReadFrame("responses", run[i - 1], answer[i])
    OBVIOUS
  <2>1. CASE i = k + 1
    <3>1. i - 1 = k /\ k \in 0..(k + 1) /\ k # k + 1
      <4>1. k \in Nat /\ i = k + 1
        BY <1>1, <2>1
      <4> HIDE DEF k
      <4> QED BY <4>1
    <3>2. run[i - 1] = After(k)
      BY <3>1
    <3>3. run[i] = All /\ answer[i] = end
      BY <1>1, <1>2, <2>1
    <3> QED BY <1>7, <3>2, <3>3
  <2>2. CASE i # k + 1
    <3>1. i \in 1..k /\ run[i] = After(i) /\ run[i - 1] = After(i - 1)
      BY <1>1, <2>2
    <3> QED BY <1>6, <3>1
  <2> QED BY <2>1, <2>2
<1>9. \A i \in 0..k : Unsure(c, run[i])
  <2> SUFFICES ASSUME NEW i \in 0..k PROVE Unsure(c, run[i])
    OBVIOUS
  <2>1. run[i] = After(i)
    BY <1>1
  <2>2. NoUsage \in Usages /\ NoUsage.output = 0
    BY DEF NoUsage, Usages
  <2>3. run[i].usage = NoUsage
    BY <2>1
  <2> HIDE DEF run
  <2> QED BY <2>2, <2>3 DEF Unsure
<1>10. ReadsAll(c, m, run[k + 1])
  <2>1. run[k + 1] = All
    BY <1>1
  <2> HIDE DEF run
  <2> QED BY <2>1 DEF ReadsAll, words
<1>11. k + 1 \in Nat /\ (k + 1) - 1 = k /\ run[0] = Nothing
  BY <1>1, <1>5
<1> HIDE DEF run
<1>12. RunOf(c, m, k + 1, run)
  BY <1>2, <1>8, <1>9, <1>10, <1>11 DEF RunOf, answer
<1> QED BY <1>11, <1>12

\* The Gemini API tells with every frame what was said so far.
LEMMA GoogleRun ==
  ASSUME NEW c, IsACall(c), c.bill \in Usages, c.body.api = "google", NEW m
  PROVE  \E n, run : n \in Nat /\ RunOf(c, m, n, run)
<1> DEFINE words == c.words
           k == Len(words)
           end == Frame("end", <<>>, Total(c), "stop", m)
           answer == StreamOf(c, m)
           far(i) == Split(Reported(c.body.api, c.bill, Min({i, c.bill.output})))
           After(i) == [text |-> SubSeq(words, 1, i), usage |-> far(i), stops |-> <<>>,
                        model |-> m, told |-> FALSE]
           All == [text |-> words, usage |-> c.bill,
                   stops |-> Stopped(<<>>, end), model |-> m, told |-> FALSE]
           run == [i \in 0..(k + 1) |-> IF i = 0 THEN Nothing ELSE IF i = k + 1 THEN All ELSE After(i)]
<1>1. words \in Seq(Nat) /\ k \in Nat /\ DOMAIN words = 1..k
  <2>1. c.words \in Seq(Nat)
    BY DEF IsACall
  <2> QED BY <2>1
<1>2. /\ DOMAIN answer = 1..(k + 1) /\ answer = [i \in 1..(k + 1) |-> answer[i]]
      /\ \A i \in 1..k : answer[i] = TextOf(c, m, i)
      /\ answer[k + 1] = end
  <2>1. answer = [i \in DOMAIN words |-> TextOf(c, m, i)] \o <<end>>
    BY TextsAre
  <2> DEFINE texts == [i \in 1..k |-> TextOf(c, m, i)]
             s == texts \o <<end>>
             l == k
  <2>2. answer = s /\ k = l /\ l \in Nat
    BY <1>1, <2>1
  <2>3. texts = [i \in 1..l |-> texts[i]] /\ \A i \in 1..l : texts[i] = TextOf(c, m, i)
    OBVIOUS
  <2> HIDE DEF end, answer, texts, l
  <2>4. /\ DOMAIN s = 1..(l + 1) /\ s = [i \in 1..(l + 1) |-> s[i]]
        /\ \A i \in 1..l : s[i] = texts[i]
        /\ s[l + 1] = end
    BY <2>2, <2>3, ThenOne
  <2> HIDE DEF s, k
  <2> QED BY <2>2, <2>3, <2>4
<1>3. /\ \A i \in 1..k : /\ answer[i].text = <<words[i]>> /\ answer[i].stop = None /\ answer[i].model = m
                         /\ answer[i].usage = Reported(c.body.api, c.bill, Min({i, c.bill.output}))
      /\ end.usage = Total(c) /\ end.text = <<>> /\ end.model = m
  <2> HIDE DEF answer
  <2>1. \A i \in 1..k :
          /\ TextOf(c, m, i).text = <<words[i]>> /\ TextOf(c, m, i).stop = None /\ TextOf(c, m, i).model = m
          /\ TextOf(c, m, i).usage = Reported(c.body.api, c.bill, Min({i, c.bill.output}))
    BY DEF TextOf, Frame
  <2>2. end.usage = Total(c) /\ end.text = <<>> /\ end.model = m
    BY DEF Frame
  <2> HIDE DEF end
  <2> QED BY <1>2, <2>1, <2>2
<1>4. Total(c) # None /\ Split(Total(c)) = c.bill
  BY ToldIs
<1>5. \A i \in 1..k : /\ Reported(c.body.api, c.bill, Min({i, c.bill.output})) # None
                      /\ far(i) \in Usages
  <2> TAKE i \in 1..k
  <2> DEFINE o == c.bill.output
             least == Min({i, o})
  <2>1. /\ o \in Nat /\ c.bill.input \in Nat /\ c.bill.read \in Nat /\ i \in Nat
    BY <1>1 DEF Usages
  <2>2. least \in 0..(o + 1)
    <3> HIDE DEF o
    <3>1. CASE i <= o
      <4>1. i \in {i, o} /\ \A y \in {i, o} : i <= y
        BY <2>1, <3>1
      <4>2. least \in {i, o} /\ \A y \in {i, o} : least <= y
        BY <4>1 DEF Min
      <4> QED BY <2>1, <4>2
    <3>2. CASE ~(i <= o)
      <4>1. o \in {i, o} /\ \A y \in {i, o} : o <= y
        BY <2>1, <3>2
      <4>2. least \in {i, o} /\ \A y \in {i, o} : least <= y
        BY <4>1 DEF Min
      <4> QED BY <2>1, <4>2
    <3> QED BY <3>1, <3>2
  <2>3. Reported(c.body.api, c.bill, least) # None
    BY <2>2, ToldIs
  <2>4. far(i) = [input |-> Less(c.bill.input + c.bill.read, c.bill.read), output |-> least,
                  read |-> c.bill.read, written |-> 0]
    BY DEF Split, Reported
  <2>5. Less(c.bill.input + c.bill.read, c.bill.read) \in Nat
    BY <2>1 DEF Less
  <2>6. least \in Nat
    BY <2>1, <2>2
  <2> HIDE DEF far, least
  <2> QED BY <2>1, <2>3, <2>4, <2>5, <2>6 DEF Usages, least
<1> HIDE DEF end, answer, words, far
<1>6. ASSUME NEW i \in 1..k, NEW s, s.text = SubSeq(words, 1, i - 1), s.stops = <<>>,
             s.model = None \/ s.model = m, s.told = FALSE,
             DOMAIN s = {"text", "usage", "stops", "model", "told"},
             s = [f \in DOMAIN s |-> s[f]]
      PROVE  ReadFrame("google", s, answer[i]) = After(i)
  <2>1. ReadFrame("google", s, answer[i]) = GeminiFrame(s, answer[i])
    BY DEF ReadFrame
  <2>2. GeminiFrame(s, answer[i]) =
          [s EXCEPT !.text = @ \o <<words[i]>>, !.stops = Stopped(@, answer[i]), !.model = Model(@, answer[i]),
                    !.usage = far(i)]
    BY <1>3, <1>5 DEF GeminiFrame, far
  <2>3. SubSeq(words, 1, i - 1) \o <<words[i]>> = SubSeq(words, 1, i)
    BY <1>1, OneMoreWord
  <2>4. Stopped(s.stops, answer[i]) = <<>>
    BY <1>3, <1>6 DEF Stopped
  <2>5. Model(s.model, answer[i]) = m
    BY <1>3, <1>6 DEF Model
  <2> QED BY <1>6, <2>1, <2>2, <2>3, <2>4, <2>5
<1>7. ReadFrame("google", IF k = 0 THEN Nothing ELSE After(k), end) = All
  <2> DEFINE s == IF k = 0 THEN Nothing ELSE After(k)
  <2>1. s.text = words /\ s.stops = <<>> /\ s.told = FALSE /\ (s.model = None \/ s.model = m)
        /\ s = [text |-> s.text, usage |-> s.usage, stops |-> s.stops, model |-> s.model, told |-> s.told]
    <3>1. SubSeq(words, 1, k) = words /\ (k = 0 => words = <<>>)
      BY <1>1, NoWordsAllWords
    <3> QED BY <3>1 DEF Nothing
  <2>2. ReadFrame("google", s, end) = GeminiFrame(s, end)
    BY DEF ReadFrame
  <2>3. GeminiFrame(s, end) = [s EXCEPT !.text = @ \o <<>>, !.stops = Stopped(@, end), !.model = Model(@, end),
                                        !.usage = c.bill]
    BY <1>3, <1>4 DEF GeminiFrame
  <2>4. words \o <<>> = words
    BY <1>1
  <2> HIDE DEF s
  <2>5. Model(s.model, end) = m
    BY <1>3, <2>1 DEF Model
  <2> DEFINE stops == Stopped(<<>>, end)
  <2> HIDE DEF All, After
  <2>6. GeminiFrame(s, end) = [text |-> words, usage |-> c.bill, stops |-> Stopped(<<>>, end), model |-> m,
                               told |-> FALSE]
    BY <2>1, <2>3, <2>4, <2>5
  <2>7. GeminiFrame(s, end) = All
    BY <2>6 DEF All
  <2> QED BY <2>2, <2>7 DEF s
<1>8. ASSUME NEW i \in 1..k
      PROVE  ReadFrame("google", IF i = 1 THEN Nothing ELSE After(i - 1), answer[i]) = After(i)
  <2> DEFINE s == IF i = 1 THEN Nothing ELSE After(i - 1)
  <2>1. s.text = SubSeq(words, 1, i - 1) /\ s.stops = <<>> /\ s.told = FALSE /\ (s.model = None \/ s.model = m)
        /\ DOMAIN s = {"text", "usage", "stops", "model", "told"} /\ s = [f \in DOMAIN s |-> s[f]]
    <3>1. SubSeq(words, 1, 0) = <<>>
      BY <1>1, NoWordsAllWords
    <3>2. CASE i = 1
      <4>1. s = Nothing /\ i - 1 = 0
        BY <3>2
      <4> QED BY <3>1, <4>1 DEF Nothing
    <3>3. CASE i # 1
      <4>1. s = After(i - 1)
        BY <3>3
      <4> HIDE DEF s
      <4> QED BY <4>1
    <3> QED BY <3>2, <3>3
  <2> HIDE DEF s, After
  <2>2. ReadFrame("google", s, answer[i]) = After(i)
    BY <1>6, <2>1
  <2> QED BY <2>2 DEF s
<1>9. \A i \in 1..(k + 1) : run[i] = ReadFrame("google", run[i - 1], answer[i])
  <2> HIDE DEF After, All
  <2> SUFFICES ASSUME NEW i \in 1..(k + 1) PROVE run[i] = ReadFrame("google", run[i - 1], answer[i])
    OBVIOUS
  <2>1. CASE i = k + 1
    <3>1. run[i] = All /\ answer[i] = end
      BY <1>1, <1>2, <2>1
    <3>2. run[i - 1] = IF k = 0 THEN Nothing ELSE After(k)
      <4>1. i - 1 = k /\ k \in 0..(k + 1) /\ k # k + 1
        <5>1. k \in Nat /\ i = k + 1
          BY <1>1, <2>1
        <5> HIDE DEF k
        <5> QED BY <5>1
      <4> QED BY <4>1
    <3> QED BY <1>7, <3>1, <3>2
  <2>2. CASE i # k + 1
    <3>1. i \in 1..k /\ run[i] = After(i)
      BY <1>1, <2>2
    <3>2. run[i - 1] = IF i = 1 THEN Nothing ELSE After(i - 1)
      BY <1>1, <2>2
    <3> QED BY <1>8, <3>1, <3>2
  <2> QED BY <2>1, <2>2
<1>10. \A i \in 0..k : Unsure(c, run[i])
  <2> SUFFICES ASSUME NEW i \in 0..k PROVE Unsure(c, run[i])
    OBVIOUS
  <2>1. CASE i = 0
    BY <1>1, <2>1, NothingIsUnsure
  <2>2. CASE i # 0
    <3>1. run[i] = After(i) /\ i \in 1..k
      BY <1>1, <2>2
    <3>2. After(i).usage = far(i)
      OBVIOUS
    <3>3. run[i].usage = far(i) /\ far(i) \in Usages
      <4> HIDE DEF run, After
      <4> QED BY <1>5, <3>1, <3>2
    <3> HIDE DEF run
    <3> QED BY <3>3 DEF Unsure
  <2> QED BY <2>1, <2>2
<1>11. ReadsAll(c, m, run[k + 1])
  <2>1. run[k + 1] = All
    BY <1>1
  <2> HIDE DEF run
  <2> QED BY <2>1 DEF ReadsAll, words
<1>12. k + 1 \in Nat /\ (k + 1) - 1 = k /\ run[0] = Nothing
  BY <1>1
<1> HIDE DEF run
<1>13. RunOf(c, m, k + 1, run)
  BY <1>2, <1>9, <1>10, <1>11, <1>12 DEF RunOf, answer
<1> QED BY <1>12, <1>13

\* A frame of an OpenAI chat that has text, or none, and no usage.
LEMMA OpenAiSteps ==
  ASSUME NEW s, NEW f, f.usage = None
  PROVE  ReadFrame("openai", s, f) =
           [text |-> s.text \o f.text, usage |-> s.usage, stops |-> Stopped(s.stops, f),
            model |-> Model(s.model, f), told |-> s.told \/ f.usage # None]
BY DEF ReadFrame, OpenAiFrame

\* Chat Completions tell in a frame of their own, if they were asked to.
LEMMA OpenAiRun ==
  ASSUME NEW c, IsACall(c), c.bill \in Usages, c.body.api = "openai", NEW m
  PROVE  \E n, run : n \in Nat /\ RunOf(c, m, n, run)
<1> DEFINE words == c.words
           k == Len(words)
           end == Frame("end", <<>>, None, "stop", m)
           last == Frame("usage", <<>>, Total(c), None, m)
           answer == StreamOf(c, m)
           After(i) == [text |-> SubSeq(words, 1, i), usage |-> NoUsage, stops |-> <<>>,
                        model |-> m, told |-> FALSE]
           ended == [text |-> words, usage |-> NoUsage, stops |-> Stopped(<<>>, end),
                     model |-> m, told |-> FALSE]
           All == [text |-> words, usage |-> c.bill, stops |-> Stopped(<<>>, end),
                   model |-> m, told |-> TRUE]
           run == [i \in 0..(k + 2) |-> IF i = 0 THEN Nothing ELSE IF i = k + 2 THEN All
                                        ELSE IF i = k + 1 THEN ended ELSE After(i)]
           texts == [i \in 1..k |-> TextOf(c, m, i)]
           s == texts \o <<end>>
           long == s \o <<last>>
<1>1. words \in Seq(Nat) /\ k \in Nat /\ DOMAIN words = 1..k
  <2>1. c.words \in Seq(Nat)
    BY DEF IsACall
  <2> QED BY <2>1
<1>2. /\ c.asked => answer = long
      /\ ~c.asked => answer = s \o <<>>
  BY <1>1, TextsAre
<1>3. /\ DOMAIN s = 1..(k + 1) /\ s = [i \in 1..(k + 1) |-> s[i]] /\ s \o <<>> = s
      /\ \A i \in 1..k : s[i] = TextOf(c, m, i)
      /\ s[k + 1] = end
  <2> DEFINE l == k
  <2>1. texts = [i \in 1..l |-> texts[i]] /\ (\A i \in 1..l : texts[i] = TextOf(c, m, i)) /\ l \in Nat
    BY <1>1
  <2>2. l = k
    OBVIOUS
  <2> HIDE DEF end, answer, texts, l
  <2>3. /\ DOMAIN s = 1..(l + 1) /\ s = [i \in 1..(l + 1) |-> s[i]]
        /\ \A i \in 1..l : s[i] = texts[i]
        /\ s[l + 1] = end
    BY <2>1, ThenOne
  <2> HIDE DEF s, k
  <2>4. s \o <<>> = s
    <3> DEFINE S == {s[i] : i \in 1..(l + 1)}
    <3>1. s \in Seq(S)
      BY <2>1, <2>3
    <3> HIDE DEF S
    <3> QED BY <3>1
  <2> QED BY <2>1, <2>2, <2>3, <2>4
<1>4. /\ DOMAIN long = 1..(k + 2) /\ long = [i \in 1..(k + 2) |-> long[i]]
      /\ \A i \in 1..(k + 1) : long[i] = s[i]
      /\ long[k + 2] = last
  <2> DEFINE l == k + 1
  <2>1. l \in Nat /\ s = [i \in 1..l |-> s[i]] /\ l + 1 = k + 2 /\ l = k + 1
    BY <1>1, <1>3
  <2> HIDE DEF last, s, l
  <2>2. /\ DOMAIN long = 1..(l + 1) /\ long = [i \in 1..(l + 1) |-> long[i]]
        /\ \A i \in 1..l : long[i] = s[i]
        /\ long[l + 1] = last
    BY <2>1, ThenOne
  <2> HIDE DEF long, k
  <2> QED BY <2>1, <2>2
<1>5. /\ \A i \in 1..k : /\ s[i].text = <<words[i]>> /\ s[i].usage = None
                         /\ s[i].stop = None /\ s[i].model = m
      /\ end.usage = None /\ end.text = <<>> /\ end.model = m
      /\ last.usage = Total(c) /\ last.text = <<>> /\ last.model = m /\ last.stop = None
  <2>1. \A i \in 1..k : /\ TextOf(c, m, i).text = <<words[i]>> /\ TextOf(c, m, i).usage = None
                        /\ TextOf(c, m, i).stop = None /\ TextOf(c, m, i).model = m
    BY DEF TextOf, Frame
  <2>2. end.usage = None /\ end.text = <<>> /\ end.model = m
    BY DEF Frame
  <2>3. last.usage = Total(c) /\ last.text = <<>> /\ last.model = m /\ last.stop = None
    BY DEF Frame
  <2> HIDE DEF s, end, last
  <2> QED BY <1>3, <2>1, <2>2, <2>3
<1>6. Total(c) # None /\ Split(Total(c)) = c.bill
  BY ToldIs
<1> HIDE DEF end, last, answer, words, texts, s, long
<1>7. SubSeq(words, 1, 0) = <<>> /\ SubSeq(words, 1, k) = words /\ words \o <<>> = words /\ (k = 0 => words = <<>>)
  BY <1>1, NoWordsAllWords
<1>8. ASSUME NEW i \in 1..k
      PROVE  ReadFrame("openai", IF i = 1 THEN Nothing ELSE After(i - 1), s[i]) = After(i)
  <2> DEFINE t == IF i = 1 THEN Nothing ELSE After(i - 1)
  <2>1. t.text = SubSeq(words, 1, i - 1) /\ t.usage = NoUsage /\ t.stops = <<>> /\ t.told = FALSE
        /\ (t.model = None \/ t.model = m)
    <3>1. CASE i = 1
      <4>1. t = Nothing /\ i - 1 = 0
        BY <3>1
      <4> QED BY <1>7, <4>1 DEF Nothing
    <3>2. CASE i # 1
      <4>1. t = After(i - 1)
        BY <3>2
      <4> HIDE DEF t
      <4> QED BY <4>1
    <3> QED BY <3>1, <3>2
  <2> HIDE DEF t
  <2>2. ReadFrame("openai", t, s[i]) =
          [text |-> t.text \o s[i].text, usage |-> t.usage, stops |-> Stopped(t.stops, s[i]),
            model |-> Model(t.model, s[i]), told |-> t.told \/ s[i].usage # None]
    BY <1>5, OpenAiSteps
  <2>3. t.text \o s[i].text = SubSeq(words, 1, i)
    <3>1. SubSeq(words, 1, i - 1) \o <<words[i]>> = SubSeq(words, 1, i)
      BY <1>1, OneMoreWord
    <3> QED BY <1>5, <2>1, <3>1
  <2>4. Stopped(t.stops, s[i]) = <<>> /\ Model(t.model, s[i]) = m
    BY <1>5, <2>1 DEF Stopped, Model
  <2>5. (t.told \/ s[i].usage # None) = FALSE
    BY <1>5, <2>1
  <2> QED BY <2>1, <2>2, <2>3, <2>4, <2>5 DEF t
<1>9. ReadFrame("openai", IF k = 0 THEN Nothing ELSE After(k), end) = ended
  <2> DEFINE t == IF k = 0 THEN Nothing ELSE After(k)
  <2>1. t.text = words /\ t.usage = NoUsage /\ t.stops = <<>> /\ t.told = FALSE
        /\ (t.model = None \/ t.model = m)
    <3>1. CASE k = 0
      <4>1. t = Nothing
        BY <3>1
      <4> QED BY <1>7, <3>1, <4>1 DEF Nothing
    <3>2. CASE k # 0
      <4>1. t = After(k)
        BY <3>2
      <4> HIDE DEF t
      <4> QED BY <1>7, <4>1
    <3> QED BY <3>1, <3>2
  <2> HIDE DEF t
  <2>2. ReadFrame("openai", t, end) =
          [text |-> t.text \o end.text, usage |-> t.usage, stops |-> Stopped(t.stops, end),
            model |-> Model(t.model, end), told |-> t.told \/ end.usage # None]
    BY <1>5, OpenAiSteps
  <2>3. t.text \o end.text = words /\ Model(t.model, end) = m
    BY <1>5, <1>7, <2>1 DEF Model
  <2>4. (t.told \/ end.usage # None) = FALSE
    BY <1>5, <2>1
  <2> QED BY <2>1, <2>2, <2>3, <2>4 DEF t
<1>10. ReadFrame("openai", ended, last) = All
  <2> DEFINE stops == Stopped(<<>>, end)
  <2> HIDE DEF stops
  <2>1. ended = [text |-> words, usage |-> NoUsage, stops |-> stops, model |-> m, told |-> FALSE]
    BY DEF stops
  <2>2. ended.text = words /\ ended.stops = stops /\ ended.model = m
    BY <2>1
  <2> HIDE DEF ended
  <2>3. ReadFrame("openai", ended, last) =
          [text |-> ended.text \o last.text, usage |-> c.bill, stops |-> Stopped(ended.stops, last),
            model |-> Model(ended.model, last), told |-> ended.told \/ last.usage # None]
    BY <1>5, <1>6 DEF ReadFrame, OpenAiFrame
  <2>4. ended.text \o last.text = words /\ Stopped(ended.stops, last) = stops /\ Model(ended.model, last) = m
    BY <1>5, <1>7, <2>2 DEF Stopped, Model
  <2>5. (ended.told \/ last.usage # None) = TRUE
    BY <1>5, <1>6
  <2> QED BY <2>3, <2>4, <2>5 DEF stops
<1>11. \A i \in 1..(k + 1) : run[i] = ReadFrame("openai", run[i - 1], s[i])
  <2>0. run[0] = Nothing
    BY <1>1
  <2>00. k \in Nat
    BY <1>1
  <2> HIDE DEF After, All, ended, k
  <2> SUFFICES ASSUME NEW i \in 1..(k + 1) PROVE run[i] = ReadFrame("openai", run[i - 1], s[i])
    OBVIOUS
  <2>1. CASE i = k + 1
    <3>1. i - 1 = k /\ k \in 0..(k + 2) /\ k # k + 1 /\ k # k + 2 /\ i \in 0..(k + 2) /\ i # k + 2 /\ i # 0
      BY <2>00, <2>1
    <3>2. run[i] = ended
      BY <2>1, <3>1
    <3>3. run[k] = IF k = 0 THEN Nothing ELSE After(k)
      BY <3>1
    <3>4. s[i] = end
      BY <1>3, <2>1
    <3> HIDE DEF run
    <3> QED BY <1>9, <3>1, <3>2, <3>3, <3>4
  <2>2. CASE i # k + 1
    <3>1. i \in 1..k /\ i \in 0..(k + 2) /\ i # 0 /\ i # k + 1 /\ i # k + 2
          /\ i - 1 \in 0..(k + 2) /\ i - 1 # k + 1 /\ i - 1 # k + 2 /\ (i - 1 = 0 <=> i = 1)
      BY <2>00, <2>2
    <3>2. run[i] = After(i)
      BY <3>1
    <3>3. run[i - 1] = IF i = 1 THEN Nothing ELSE After(i - 1)
      BY <3>1
    <3> HIDE DEF run
    <3> QED BY <1>8, <3>1, <3>2, <3>3
  <2> QED BY <2>1, <2>2
<1>12. \A i \in 0..(k + 1) : Unsure(c, run[i])
  <2>1. NoUsage \in Usages /\ NoUsage.output = 0
    BY DEF NoUsage, Usages
  <2> SUFFICES ASSUME NEW i \in 0..(k + 1) PROVE Unsure(c, run[i])
    OBVIOUS
  <2>2. run[i] = Nothing \/ run[i] = ended \/ run[i] = After(i)
    <3>1. k \in Nat
      BY <1>1
    <3> HIDE DEF After, All, ended, k
    <3>2. i \in 0..(k + 2) /\ i # k + 2
      BY <3>1
    <3> QED BY <3>2
  <2>3. run[i].usage = NoUsage
    <3>1. Nothing.usage = NoUsage
      BY DEF Nothing
    <3>2. ended.usage = NoUsage
      OBVIOUS
    <3>3. After(i).usage = NoUsage
      OBVIOUS
    <3> HIDE DEF run, ended, After
    <3> QED BY <2>2, <3>1, <3>2, <3>3
  <2> HIDE DEF run
  <2> QED BY <2>1, <2>3 DEF Unsure
<1>13. run[0] = Nothing /\ run[k + 1] = ended /\ run[k + 2] = All
  <2>1. k \in Nat
    BY <1>1
  <2> HIDE DEF After, All, ended, k
  <2>2. 0 \in 0..(k + 2) /\ k + 1 \in 0..(k + 2) /\ k + 2 \in 0..(k + 2) /\ k + 1 # 0 /\ k + 2 # 0 /\ k + 1 # k + 2
    BY <2>1
  <2> QED BY <2>2
<1>14. CASE c.asked
  <2>1. \A i \in 1..(k + 2) : run[i] = ReadFrame("openai", run[i - 1], answer[i])
    <3> HIDE DEF run, All, ended
    <3> SUFFICES ASSUME NEW i \in 1..(k + 2) PROVE run[i] = ReadFrame("openai", run[i - 1], answer[i])
      OBVIOUS
    <3>1. CASE i = k + 2
      <4>1. i - 1 = k + 1
        BY <1>1, <3>1
      <4> QED BY <1>2, <1>4, <1>10, <1>13, <1>14, <3>1, <4>1
    <3>2. CASE i # k + 2
      <4>1. i \in 1..(k + 1)
        BY <1>1, <3>2
      <4> QED BY <1>2, <1>4, <1>11, <1>14, <4>1
    <3> QED BY <3>1, <3>2
  <2>2. ReadsAll(c, m, run[k + 2])
    <3>1. All.text = words /\ All.model = m /\ All.usage = c.bill /\ All.told
      OBVIOUS
    <3> HIDE DEF run, All
    <3> QED BY <1>13, <1>14, <3>1 DEF ReadsAll, words
  <2>3. k + 2 \in Nat /\ (k + 2) - 1 = k + 1
    BY <1>1
  <2> HIDE DEF run
  <2>4. RunOf(c, m, k + 2, run)
    BY <1>2, <1>4, <1>12, <1>13, <1>14, <2>1, <2>2, <2>3 DEF RunOf, answer
  <2> QED BY <2>3, <2>4
<1>15. CASE ~c.asked
  <2>1. ReadsAll(c, m, run[k + 1])
    <3>1. ended.text = words /\ ended.model = m /\ ended.usage = NoUsage /\ ~ended.told
      OBVIOUS
    <3> HIDE DEF run, ended
    <3> QED BY <1>13, <1>15, <3>1 DEF ReadsAll, words
  <2>2. k + 1 \in Nat /\ (k + 1) - 1 = k /\ answer = s
    BY <1>1, <1>2, <1>3, <1>15
  <2> HIDE DEF run
  <2>3. \A i \in 0..((k + 1) - 1) : Unsure(c, run[i])
    BY <1>1, <1>12
  <2>4. RunOf(c, m, k + 1, run)
    BY <1>3, <1>11, <1>13, <2>1, <2>2, <2>3 DEF RunOf, answer
  <2> QED BY <2>2, <2>4
<1> QED BY <1>14, <1>15

\* Whatever the API, the frames of an answer are read one after the other: before
\* the last of them usage is missing that they will tell.
LEMMA ARun ==
  ASSUME NEW c, IsACall(c), c.bill \in Usages, NEW m
  PROVE  \E n, run : n \in Nat /\ RunOf(c, m, n, run)
<1>1. c.body.api \in {"anthropic", "openai", "responses", "google"}
  BY DEF IsACall
<1> QED BY <1>1, AnthropicRun, ResponsesRun, GoogleRun, OpenAiRun

-----------------------------------------------------------------------------
(* The prompt keeps its messages *)

\* As many turns, in the same API.
Shape(b, told) ==
  DOMAIN b = DOMAIN Nobody /\ b.api = told.api /\ DOMAIN b.turns = DOMAIN told.turns

\* Strategies leave the turns where they are.
LEMMA ShapeIsKept ==
  ASSUME NEW name, NEW b, NEW told, Shape(b, told)
  PROVE  Shape(Apply(name, b), told)
<1> DEFINE fields == {"api", "plain", "system", "turns", "tools"}
<1>1. DOMAIN b = fields
  BY DEF Shape, Nobody
<1>2. DOMAIN Nobody = fields
  BY DEF Nobody
<1>3. "api" \in DOMAIN b /\ "plain" \in DOMAIN b /\ "system" \in DOMAIN b /\ "turns" \in DOMAIN b
      /\ "tools" \in DOMAIN b
  BY <1>1
<1>4. Shape(Marked(b), told)
  <2>1. CASE Marked(b) = b
    BY <2>1
  <2>2. CASE Marked(b) # b
    <3> DEFINE texts == {i \in DOMAIN b.system : b.system[i].is = "text"}
    <3>1. Marked(b) = [b EXCEPT !.plain = FALSE, !.system[Max(texts)].marked = TRUE]
      BY <2>2 DEF Marked
    <3> HIDE DEF texts
    <3> DEFINE after == [b EXCEPT !.plain = FALSE, !.system[Max(texts)].marked = TRUE]
    <3>2. DOMAIN after = DOMAIN b /\ after.api = b.api /\ after.turns = b.turns
      BY <1>3
    <3> HIDE DEF after
    <3> QED BY <3>1, <3>2 DEF Shape, after
  <2> QED BY <2>1, <2>2
<1>5. ASSUME NEW turns, DOMAIN turns = DOMAIN b.turns, NEW system
      PROVE  Shape([b EXCEPT !.system = system, !.turns = turns], told)
  <2> DEFINE after == [b EXCEPT !.system = system, !.turns = turns]
  <2>1. DOMAIN after = DOMAIN b /\ after.api = b.api /\ after.turns = turns
    BY <1>3
  <2> HIDE DEF after
  <2>2. Shape(after, told)
    BY <1>5, <2>1 DEF Shape
  <2> QED BY <2>2 DEF after
<1>6. Shape([b EXCEPT !.turns = ToolOutput(b)], told)
  <2> DEFINE turns == ToolOutput(b)
  <2>1. DOMAIN turns = DOMAIN b.turns
    BY DEF ToolOutput
  <2> HIDE DEF turns
  <2> DEFINE after == [b EXCEPT !.turns = turns]
  <2>2. DOMAIN after = DOMAIN b /\ after.api = b.api /\ after.turns = turns
    BY <1>3
  <2> HIDE DEF after
  <2>3. Shape(after, told)
    BY <2>1, <2>2 DEF Shape
  <2> QED BY <2>3 DEF after, turns
<1>7. ASSUME NEW roles PROVE Shape(Rewrite(name, b, roles), told)
  <2>1. CASE b.api = "responses"
    <3>1. Rewrite(name, b, roles) = b
      BY <2>1 DEF Rewrite
    <3> QED BY <3>1
  <2>2. CASE b.api # "responses"
    <3> DEFINE turns == RewriteTurns(name, b, roles)
               system == IF "system" \in roles THEN RewriteParts(name, b.system, "text") ELSE b.system
    <3>1. DOMAIN turns = DOMAIN b.turns
      BY DEF RewriteTurns
    <3>2. Rewrite(name, b, roles) = [b EXCEPT !.system = system, !.turns = turns]
      <4>1. Rewrite(name, b, roles) =
              [b EXCEPT !.system = IF "system" \in roles THEN RewriteParts(name, @, "text") ELSE @,
                        !.turns = RewriteTurns(name, b, roles)]
        BY <2>2 DEF Rewrite
      <4> QED BY <4>1
    <3> HIDE DEF turns, system
    <3>3. Shape([b EXCEPT !.system = system, !.turns = turns], told)
      BY <1>5, <3>1
    <3> QED BY <3>2, <3>3
  <2> QED BY <2>1, <2>2
<1>8. Shape([b EXCEPT !.tools = Distinct(@)], told)
  <2> DEFINE tools == Distinct(b.tools)
             after == [b EXCEPT !.tools = tools]
  <2> HIDE DEF tools
  <2>1. DOMAIN after = DOMAIN b /\ after.api = b.api /\ after.turns = b.turns
    BY <1>3
  <2> HIDE DEF after
  <2>2. Shape(after, told)
    BY <2>1 DEF Shape
  <2>3. after = [b EXCEPT !.tools = Distinct(@)]
    BY DEF after, tools
  <2> QED BY <2>2, <2>3
<1>9. \/ Apply(name, b) = Marked(b)
      \/ Apply(name, b) = [b EXCEPT !.turns = ToolOutput(b)]
      \/ Apply(name, b) = Rewrite(name, b, Roles[name])
      \/ Apply(name, b) = [b EXCEPT !.tools = Distinct(@)]
  BY DEF Apply
<1> HIDE DEF fields
<1> QED BY <1>4, <1>6, <1>7, <1>8, <1>9

\* A request with a turn has a message in every API.
LEMMA HasMessages ==
  ASSUME NEW c, IsACall(c), NEW b, Shape(b, c.body)
  PROVE  Messages(b) # <<>>
<1>1. c.body.turns \in Seq(ToSet(c.body.turns)) /\ c.body.turns # <<>>
  BY DEF IsACall
<1> DEFINE k == Len(c.body.turns)
<1>2. k \in Nat /\ DOMAIN c.body.turns = 1..k /\ 1 \in 1..k
  <2> DEFINE t == c.body.turns
             S == ToSet(t)
  <2>1. t \in Seq(S) /\ t # <<>>
    BY <1>1
  <2> HIDE DEF t, S
  <2>2. Len(t) \in Nat /\ DOMAIN t = 1..Len(t) /\ Len(t) # 0
    BY <2>1
  <2>3. 1 \in 1..Len(t)
    BY <2>2
  <2> QED BY <2>2, <2>3 DEF t
<1> HIDE DEF k
<1>3. DOMAIN b.turns = 1..k
  BY <1>2 DEF Shape
<1>4. ASSUME NEW kinds
      PROVE  /\ Turns(b, kinds) = [i \in 1..k |-> Turns(b, kinds)[i]] /\ Turns(b, kinds) # <<>>
             /\ WithSystem(b, Turns(b, kinds)) # <<>>
  <2> DEFINE turns == Turns(b, kinds)
  <2>1. DOMAIN turns = 1..k /\ turns = [i \in 1..k |-> turns[i]]
    BY <1>3 DEF Turns
  <2> HIDE DEF turns
  <2>2. 1 \in DOMAIN turns /\ DOMAIN <<>> = {}
    BY <1>2, <2>1
  <2>3. turns # <<>>
    BY <2>2
  <2> DEFINE system == [role |-> "system", chars |-> Content(b.system, {"text"})]
  <2> HIDE DEF system
  <2>4. Len(<<system>> \o turns) = k + 1
    BY <1>2, <2>1, OneThen
  <2>5. <<system>> \o turns # <<>>
    BY <1>2, <2>4
  <2>6. WithSystem(b, turns) = turns \/ WithSystem(b, turns) = <<system>> \o turns
    BY DEF WithSystem, system
  <2>7. WithSystem(b, turns) # <<>>
    BY <2>3, <2>5, <2>6
  <2> QED BY <2>1, <2>3, <2>7 DEF turns
<1> QED BY <1>4 DEF Messages, OpenAiMessages, AnthropicMessages, ResponsesMessages, GeminiMessages

-----------------------------------------------------------------------------
(* The part of a sequence after one place and up to another *)

\* What a sequence has between two of its places.
Piece(s, w, from, to) == s = [i \in 1..(to - from) |-> w[from + i]]

\* The first of what is left is the next of all.
LEMMA TakenOff ==
  ASSUME NEW w, NEW n \in Nat, NEW k \in 0..n, NEW f, Piece(f, w, k, n), f # <<>>
  PROVE  k < n /\ Head(f) = w[k + 1] /\ Piece(Tail(f), w, k + 1, n)
<1> DEFINE S == {f[i] : i \in 1..(n - k)}
<1>1. f = [i \in 1..(n - k) |-> w[k + i]]
  BY DEF Piece
<1>2. n - k \in Nat
  OBVIOUS
<1>3. f \in Seq(S) /\ Len(f) = n - k
  <2> DEFINE l == n - k
  <2>1. l \in Nat /\ f = [i \in 1..l |-> f[i]] /\ \A i \in 1..l : f[i] \in S
    BY <1>1, <1>2
  <2>2. l = n - k
    OBVIOUS
  <2> HIDE DEF S, l
  <2> QED BY <2>1, <2>2
<1>4. \A i \in 1..(n - k) : f[i] = w[k + i]
  BY <1>1
<1> HIDE DEF S
<1>5. k < n
  <2>1. n - k # 0
    BY <1>3
  <2> QED BY <2>1
<1>6. Head(f) = w[k + 1]
  <2>1. Head(f) = f[1] /\ 1 \in 1..(n - k)
    BY <1>3, <1>5
  <2> QED BY <1>4, <2>1
<1>7. /\ Tail(f) \in Seq(S) /\ Len(Tail(f)) = n - (k + 1)
      /\ \A i \in 1..(n - (k + 1)) : Tail(f)[i] = f[i + 1]
  BY <1>3, <1>5
<1>8. \A i \in 1..(n - (k + 1)) : Tail(f)[i] = w[(k + 1) + i]
  <2> TAKE i \in 1..(n - (k + 1))
  <2>1. i + 1 \in 1..(n - k) /\ k + (i + 1) = (k + 1) + i
    BY <1>5
  <2> QED BY <1>4, <1>7, <2>1
<1> DEFINE t == Tail(f)
<1>9. t = [i \in 1..(n - (k + 1)) |-> t[i]]
  <2> DEFINE l == n - (k + 1)
  <2>1. t \in Seq(S) /\ Len(t) = l
    BY <1>7
  <2> HIDE DEF t, l
  <2>2. t = [i \in 1..l |-> t[i]]
    BY <2>1
  <2> QED BY <2>2 DEF l
<1>10. Piece(t, w, k + 1, n)
  <2> HIDE DEF t
  <2>1. \A i \in 1..(n - (k + 1)) : t[i] = w[(k + 1) + i]
    BY <1>8 DEF t
  <2> QED BY <1>9, <2>1 DEF Piece
<1> QED BY <1>5, <1>6, <1>10

\* Put behind what was taken, it makes a longer piece from the beginning.
LEMMA PutBehind ==
  ASSUME NEW w, NEW j \in Nat, NEW s, Piece(s, w, 0, j)
  PROVE  Len(s) = j /\ Piece(Append(s, w[j + 1]), w, 0, j + 1)
<1> DEFINE y == w[j + 1]
           S == {w[i] : i \in 1..(j + 1)}
<1>1. s = [i \in 1..j |-> w[i]]
  BY DEF Piece
<1>2. s \in Seq(S) /\ Len(s) = j /\ y \in S /\ \A i \in 1..j : s[i] = w[i]
  <2>1. \A i \in 1..j : w[i] \in S
    OBVIOUS
  <2>2. y \in S
    OBVIOUS
  <2> HIDE DEF S, y
  <2> QED BY <1>1, <2>1, <2>2
<1> HIDE DEF S, y
<1> DEFINE t == Append(s, y)
<1>3. t \in Seq(S) /\ Len(t) = j + 1 /\ (\A i \in 1..j : t[i] = s[i]) /\ t[j + 1] = y
  BY <1>2
<1>4. t = [i \in 1..(j + 1) |-> t[i]]
  <2>1. t \in Seq(S) /\ Len(t) = j + 1
    BY <1>3
  <2> HIDE DEF t
  <2> QED BY <2>1
<1> HIDE DEF t
<1>5. \A i \in 1..(j + 1) : t[i] = w[i]
  <2> TAKE i \in 1..(j + 1)
  <2>1. CASE i = j + 1
    BY <1>3, <2>1 DEF y
  <2>2. CASE i # j + 1
    <3>1. i \in 1..j
      BY <2>2
    <3> QED BY <1>2, <1>3, <3>1
  <2> QED BY <2>1, <2>2
<1>6. Piece(t, w, 0, j + 1)
  <2>1. (j + 1) - 0 = j + 1 /\ \A i \in 1..(j + 1) : 0 + i = i
    OBVIOUS
  <2> QED BY <1>4, <1>5, <2>1 DEF Piece
<1> QED BY <1>2, <1>6 DEF t, y

\* A whole is a piece of itself.
LEMMA AllOfIt ==
  ASSUME NEW w, NEW n \in Nat, w = [i \in 1..n |-> w[i]]
  PROVE  Piece(w, w, 0, n)
BY DEF Piece

\* Nothing is a piece of everything.
LEMMA NoneOfIt == \A w : Piece(<<>>, w, 0, 0)
BY DEF Piece

-----------------------------------------------------------------------------
(* What is captured of an answer *)

\* As long as it parses, the request has the turns of the tool's.
KeptInv ==
  \/ body = Nobody /\ todo = <<>>
  \/ data = Ask[ask].data /\ Shape(body, Ask[ask].body)

\* How many of k frames fit in the buffer.
Fits(k) == IF k <= MaxCaptured THEN k ELSE MaxCaptured

\* k frames of it have been passed on; those that fit were captured.
PassedOn(whole, n, k) ==
  /\ n \in Nat /\ k \in 0..n /\ DOMAIN whole = 1..n
  /\ Piece(captured, whole, 0, Fits(k))
  /\ stage = "streaming" => Piece(frames, whole, k, n)

\* What was captured is the beginning of the answer, or of a refusal, as far as it
\* was passed on and fits.
CapturedInv ==
  /\ ~repeated /\ stage \in BeforeParse \cup {"compressing", "sending"} => captured = <<>>
  /\ body # Nobody /\ ~repeated /\ stage \in {"streaming", "capturing", "ended"} =>
       \E whole, n, k : (whole = Refusal \/ whole = Answer(ask)) /\ PassedOn(whole, n, k)

\* The record is of what is read in what was captured.
RecordInv ==
  stage = "ended" /\ records # <<>> /\ ~repeated =>
    /\ records[1].record = Record(BuildEvent(Ask[ask].body.api, body, model, Streamed, Read))
    /\ Streamed \/ Read # <<>>

\* What the bill rests on.
BillInv == BooksInv /\ KeptInv /\ CapturedInv /\ RecordInv

\* Steps that neither touch the request nor what is captured.
LEMMA MovesOn ==
  ASSUME BillInv, BooksInv', UNCHANGED <<ask, data, body, todo, model, repeated, captured, coding, records>>,
         \/ stage' = stage /\ frames' = frames
         \/ stage \in BeforeParse /\ stage' \in BeforeParse
         \/ stage' \in {"failed", "told", "telling"}
         \/ stage = "streaming" /\ stage' = "capturing"
         \/ stage = "capturing" /\ stage' = "ended"
         \/ stage = "compressing" /\ stage' = "sending"
  PROVE  BillInv'
<1>1. Streamed' = Streamed /\ Answer(ask)' = Answer(ask)
  BY SameAnswer
<1>2. KeptInv'
  BY DEF BillInv, KeptInv
<1>3. stage \notin {"ended", "telling", "told"} => records = <<>>
  BY DEF BillInv, BooksInv
<1>4. CapturedInv'
  <2>1. ~repeated' /\ stage' \in BeforeParse \cup {"compressing", "sending"} => captured' = <<>>
    BY DEF BillInv, CapturedInv, BeforeParse
  <2>2. ASSUME body' # Nobody, ~repeated', stage' \in {"streaming", "capturing", "ended"}
        PROVE  \E whole, n, k : (whole = Refusal' \/ whole = Answer(ask)') /\ PassedOn(whole, n, k)'
    <3>1. stage \in {"streaming", "capturing", "ended"} /\ body # Nobody /\ ~repeated
          /\ (stage' = "streaming" => stage = "streaming" /\ frames' = frames)
      BY <2>2 DEF BeforeParse
    <3>2. PICK whole, n, k : (whole = Refusal \/ whole = Answer(ask)) /\ PassedOn(whole, n, k)
      BY <3>1 DEF BillInv, CapturedInv
    <3>3. PassedOn(whole, n, k)'
      BY <3>1, <3>2 DEF PassedOn, Fits
    <3>4. whole = Refusal' \/ whole = Answer(ask)'
      BY <1>1, <3>2 DEF Refusal
    <3> QED BY <3>3, <3>4
  <2> QED BY <2>1, <2>2 DEF CapturedInv
<1>5. RecordInv'
  <2> SUFFICES ASSUME stage' = "ended", records' # <<>>, ~repeated'
               PROVE  /\ records'[1].record
                           = Record(BuildEvent(Ask[ask].body.api, body, model, Streamed, Read))'
                      /\ Streamed' \/ Read' # <<>>
    BY DEF RecordInv
  <2>1. stage = "ended" /\ records # <<>> /\ ~repeated
    BY <1>3 DEF BeforeParse
  <2>2. Read' = Read
    BY DEF Read, Legible
  <2>3. Ask[ask]' = Ask[ask]
    OBVIOUS
  <2>4. /\ records[1].record = Record(BuildEvent(Ask[ask].body.api, body, model, Streamed, Read))
        /\ Streamed \/ Read # <<>>
    BY <2>1 DEF BillInv, RecordInv
  <2>5. BuildEvent(Ask[ask].body.api, body, model, Streamed, Read)'
          = BuildEvent(Ask[ask].body.api, body, model, Streamed, Read)
    BY <1>1, <2>2, <2>3
  <2> QED BY <1>1, <2>2, <2>4, <2>5 DEF Record
<1> QED BY <1>2, <1>4, <1>5 DEF BillInv

\* An answer is a sequence, streamed or not.
LEMMA AnswersAre ==
  ASSUME ask \in Asks, Ask[ask].door # "telemetry"
  PROVE  /\ IsACall(Ask[ask]) /\ Ask[ask].bill \in Usages
         /\ Ask[ask].streamed => Answer(ask) = StreamOf(Ask[ask], Answering)
         /\ \E n \in Nat : DOMAIN Answer(ask) = 1..n /\ Answer(ask) = [i \in 1..n |-> Answer(ask)[i]]
<1>1. IsACall(Ask[ask]) /\ Ask[ask].bill \in Usages
  BY CallAssumption DEF Usages
<1>2. CASE Ask[ask].streamed
  <2>1. Answer(ask) = StreamOf(Ask[ask], Answering)
    BY <1>2 DEF Answer, StreamOf
  <2> DEFINE c == Ask[ask]
             m == Answering
             answer == Answer(ask)
  <2>2. IsACall(c) /\ c.bill \in Usages /\ answer = StreamOf(c, m)
    BY <1>1, <2>1
  <2> HIDE DEF c, m, answer
  <2>3. PICK n \in Nat : \E run : RunOf(c, m, n, run)
    BY <2>2, ARun
  <2>4. DOMAIN answer = 1..n /\ answer = [i \in 1..n |-> answer[i]]
    BY <2>2, <2>3 DEF RunOf
  <2> QED BY <1>1, <2>1, <2>4 DEF answer
<1>3. CASE ~Ask[ask].streamed
  <2>1. Answer(ask) = OneBody(Ask[ask].body.api, Answering, Ask[ask].bill, Ask[ask].words)
    BY <1>3 DEF Answer
  <2> DEFINE answer == Answer(ask)
  <2>2. \E f : answer = <<f>>
    BY <2>1 DEF OneBody
  <2> HIDE DEF answer
  <2>3. DOMAIN answer = 1..1 /\ answer = [i \in 1..1 |-> answer[i]]
    BY <2>2
  <2> QED BY <1>1, <1>3, <2>3 DEF answer
<1> QED BY <1>2, <1>3

\* The request is read, parsed and compressed: its turns stay.
LEMMA RequestBill ==
  ASSUME BillInv, BooksInv', ReadBodyBytes \/ Parse \/ Compress1
  PROVE  BillInv'
<1>1. /\ UNCHANGED <<ask, repeated, captured, records>> /\ ~repeated /\ records = <<>> /\ captured = <<>>
      /\ stage \in {"body", "parsing", "compressing"} /\ stage' \in {"parsing", "compressing"}
  BY DEF BillInv, BooksInv, RepeatInv, CapturedInv, BeforeParse, ReadBodyBytes, Parse, Compress1, settings,
         reading, request, answering, answered
<1>2. ask \in Asks /\ IsACall(Ask[ask])
  <2>1. ask \in Asks /\ Ask[ask].door # "telemetry"
    BY <1>1 DEF BillInv, BooksInv
  <2> QED BY <2>1, AnswersAre
<1>3. KeptInv'
  <2>1. CASE ReadBodyBytes
    <3>1. body = Nobody /\ todo = <<>> /\ body' = body /\ todo' = todo
      BY <2>1 DEF BillInv, BooksInv, RouteInv, BeforeParse, ReadBodyBytes, request
    <3> QED BY <3>1 DEF KeptInv
  <2>2. CASE Parse
    <3>1. /\ data' = data
          /\ data # Ask[ask].data => body' = Nobody /\ todo' = <<>>
          /\ data = Ask[ask].data => body' = Ask[ask].body
      BY <2>2 DEF Parse, reading
    <3>2. Shape(Ask[ask].body, Ask[ask].body)
      BY <1>2 DEF IsACall, Shape
    <3> QED BY <1>1, <3>1, <3>2 DEF KeptInv
  <2>3. CASE Compress1
    <3>1. /\ data' = data /\ todo # <<>>
          /\ body' = body \/ body' = Apply(Head(todo), body)
      BY <2>3 DEF Compress1, reading
    <3>2. data = Ask[ask].data /\ Shape(body, Ask[ask].body)
      BY <3>1 DEF BillInv, KeptInv
    <3>3. Shape(Apply(Head(todo), body), Ask[ask].body)
      BY <3>2, ShapeIsKept
    <3>4. Shape(body', Ask[ask].body)
      BY <3>1, <3>2, <3>3
    <3> QED BY <1>1, <3>1, <3>2, <3>4 DEF KeptInv
  <2> QED BY <2>1, <2>2, <2>3
<1>4. CapturedInv' /\ RecordInv'
  BY <1>1 DEF CapturedInv, RecordInv
<1> QED BY <1>3, <1>4 DEF BillInv

\* The router touches the model only.
LEMMA RouteBill ==
  ASSUME BillInv, BooksInv', Route
  PROVE  BillInv'
<1>1. /\ UNCHANGED <<ask, data, body, todo, repeated, captured, records>>
      /\ stage = "compressing" /\ stage' = "sending"
  BY DEF Route, settings, reading, answering, answered
<1>2. KeptInv'
  BY <1>1 DEF BillInv, KeptInv
<1>3. CapturedInv' /\ RecordInv'
  BY <1>1 DEF BillInv, CapturedInv, RecordInv, BeforeParse
<1> QED BY <1>2, <1>3 DEF BillInv

\* An answer begins with nothing of it passed on.
LEMMA RespondBill ==
  ASSUME BillInv, BooksInv', Respond
  PROVE  BillInv'
<1>1. /\ UNCHANGED <<ask, data, body, todo, model, repeated, captured, records>>
      /\ stage = "sending" /\ stage' = "streaming"
      /\ frames' = Refusal \/ frames' = Answer(ask)
  BY DEF Respond, settings, reading, request
<1>2. KeptInv'
  BY <1>1 DEF BillInv, KeptInv
<1>3. RecordInv'
  BY <1>1 DEF RecordInv
<1>4. ~repeated /\ captured' = <<>> /\ ask \in Asks /\ Ask[ask].door # "telemetry"
  BY <1>1 DEF BillInv, BooksInv, RepeatInv, CapturedInv
<1>5. PICK n \in Nat : DOMAIN frames' = 1..n /\ frames' = [i \in 1..n |-> frames'[i]]
  <2>1. CASE frames' = Answer(ask)
    BY <1>4, <2>1, AnswersAre
  <2>2. CASE frames' = Refusal
    <3>1. PICK f : frames' = <<f>>
      BY <2>2 DEF Refusal
    <3>2. DOMAIN frames' = 1..1 /\ frames' = [i \in 1..1 |-> frames'[i]]
      BY <3>1
    <3> QED BY <3>2
  <2> QED BY <1>1, <2>1, <2>2
<1>6. Answer(ask)' = Answer(ask) /\ Refusal' = Refusal
  BY <1>1, SameAnswer DEF Refusal
<1>7. PICK whole : whole = frames'
  OBVIOUS
<1>8. PassedOn(whole, n, 0)'
  <2>1. Piece(frames', whole, 0, n)
    BY <1>5, <1>7, AllOfIt
  <2>2. Piece(captured', whole, 0, 0)
    BY <1>4, NoneOfIt
  <2>3. Fits(0)' = 0
    BY CallAssumption DEF Fits
  <2>4. n \in Nat /\ 0 \in 0..n /\ DOMAIN whole = 1..n
    BY <1>5, <1>7
  <2> QED BY <2>1, <2>2, <2>3, <2>4 DEF PassedOn
<1>9. whole = Refusal' \/ whole = Answer(ask)'
  BY <1>1, <1>6, <1>7
<1>10. CapturedInv'
  BY <1>1, <1>8, <1>9 DEF CapturedInv, BeforeParse
<1> QED BY <1>2, <1>3, <1>10 DEF BillInv

\* A frame is passed on, and captured if it fits.
LEMMA PassBill ==
  ASSUME BillInv, BooksInv', Pass
  PROVE  BillInv'
<1>1. /\ UNCHANGED <<ask, data, body, todo, model, repeated, records>>
      /\ stage = "streaming" /\ stage' = stage /\ frames # <<>> /\ frames' = Tail(frames)
      /\ captured' = IF Len(captured) < MaxCaptured THEN Append(captured, Head(frames)) ELSE captured
  BY DEF Pass, settings, reading, request, answered
<1>2. KeptInv'
  BY <1>1 DEF BillInv, KeptInv
<1>3. RecordInv'
  BY <1>1 DEF RecordInv
<1>4. Answer(ask)' = Answer(ask) /\ Refusal' = Refusal
  BY <1>1, SameAnswer DEF Refusal
<1>5. ASSUME body # Nobody, ~repeated
      PROVE  \E whole, n, k : (whole = Refusal \/ whole = Answer(ask)) /\ PassedOn(whole, n, k)'
  <2>1. PICK whole, n, k : (whole = Refusal \/ whole = Answer(ask)) /\ PassedOn(whole, n, k)
    BY <1>1, <1>5 DEF BillInv, CapturedInv
  <2>2. /\ n \in Nat /\ k \in 0..n /\ DOMAIN whole = 1..n
        /\ Piece(captured, whole, 0, Fits(k)) /\ Piece(frames, whole, k, n)
    BY <1>1, <2>1 DEF PassedOn
  <2>3. k < n /\ Head(frames) = whole[k + 1] /\ Piece(Tail(frames), whole, k + 1, n)
    BY <1>1, <2>2, TakenOff
  <2>4. Fits(k) \in Nat /\ MaxCaptured \in Nat
    BY <2>2, CallAssumption DEF Fits
  <2> DEFINE j == Fits(k)
  <2>5. Len(captured) = j /\ Piece(Append(captured, whole[j + 1]), whole, 0, j + 1)
    <3> HIDE DEF j
    <3>1. j \in Nat /\ Piece(captured, whole, 0, j)
      BY <2>2, <2>4 DEF j
    <3> QED BY <3>1, PutBehind
  <2>6. Piece(captured', whole, 0, Fits(k + 1))
    <3>1. CASE Len(captured) < MaxCaptured
      <4>1. j = k /\ Fits(k + 1) = j + 1
        BY <2>2, <2>4, <2>5, <3>1 DEF Fits
      <4>2. captured' = Append(captured, whole[j + 1])
        BY <1>1, <2>3, <3>1, <4>1
      <4> QED BY <2>5, <4>1, <4>2
    <3>2. CASE ~(Len(captured) < MaxCaptured)
      <4>1. Fits(k + 1) = Fits(k)
        BY <2>2, <2>4, <2>5, <3>2 DEF Fits
      <4> QED BY <1>1, <2>2, <3>2, <4>1
    <3> QED BY <3>1, <3>2
  <2>7. k + 1 \in 0..n
    BY <2>2, <2>3
  <2>8. Fits(k + 1)' = Fits(k + 1)
    BY DEF Fits
  <2>9. PassedOn(whole, n, k + 1)'
    BY <1>1, <2>2, <2>3, <2>6, <2>7, <2>8 DEF PassedOn, Fits
  <2> QED BY <2>1, <2>9
<1>6. CapturedInv'
  BY <1>1, <1>4, <1>5 DEF CapturedInv, BeforeParse
<1> QED BY <1>2, <1>3, <1>6 DEF BillInv

\* The answer is put on record as it was captured.
LEMMA CaptureBill ==
  ASSUME BillInv, BooksInv', Capture
  PROVE  BillInv'
<1>1. /\ UNCHANGED <<ask, data, body, todo, model, repeated, captured, coding, frames>> /\ records = <<>>
      /\ stage = "capturing" /\ stage' = "ended" /\ (Streamed \/ Read # <<>>)
  BY DEF BillInv, BooksInv, Capture, settings, reading, request, answered
<1>2. KeptInv'
  BY <1>1 DEF BillInv, KeptInv
<1>3. Streamed' = Streamed /\ Answer(ask)' = Answer(ask) /\ Refusal' = Refusal /\ Read' = Read
  BY <1>1, SameAnswer DEF Refusal, Read, Legible
<1>4. CapturedInv'
  <2> SUFFICES ASSUME body' # Nobody, ~repeated'
               PROVE  \E whole, n, k : (whole = Refusal' \/ whole = Answer(ask)') /\ PassedOn(whole, n, k)'
    BY <1>1 DEF CapturedInv, BeforeParse
  <2>1. PICK whole, n, k : (whole = Refusal \/ whole = Answer(ask)) /\ PassedOn(whole, n, k)
    BY <1>1 DEF BillInv, CapturedInv
  <2>2. PassedOn(whole, n, k)'
    BY <1>1, <2>1 DEF PassedOn, Fits
  <2> QED BY <1>3, <2>1, <2>2
<1>5. RecordInv'
  <2> SUFFICES ASSUME ~repeated
               PROVE  records'[1].record
                        = Record(BuildEvent(Ask[ask].body.api, body, model, Streamed, Read))'
    BY <1>1, <1>3 DEF RecordInv
  <2> DEFINE event == BuildEvent(Ask[ask].body.api, body, model, Streamed, Read)
             own == Facts(Record(event), event.usage)
  <2>1. records' = Append(<<>>, own)
    BY <1>1 DEF Capture
  <2>2. own.record = Record(event)
    BY DEF Facts
  <2>3. event' = event
    BY <1>1, <1>3
  <2>4. Record(event)' = Record(event)
    BY <2>3 DEF Record
  <2> HIDE DEF own, event
  <2>5. records'[1] = own
    BY <2>1
  <2> QED BY <2>2, <2>4, <2>5 DEF event
<1> QED BY <1>2, <1>4, <1>5 DEF BillInv

\* It holds of a call that has not begun,
LEMMA BillInit == Init => BillInv
<1> SUFFICES ASSUME Init PROVE BillInv
  OBVIOUS
<1>1. BooksInv
  BY BooksInit
<1>2. body = Nobody /\ todo = <<>> /\ captured = <<>> /\ records = <<>>
  BY DEF Init
<1>3. stage \notin {"streaming", "capturing", "ended"}
  BY <1>1, CallAssumption DEF Init
<1> QED BY <1>1, <1>2, <1>3 DEF BillInv, KeptInv, CapturedInv, RecordInv

\* and each step keeps it,
LEMMA BillNext == BillInv /\ [Next]_vars => BillInv'
<1> SUFFICES ASSUME BillInv, [Next]_vars PROVE BillInv'
  OBVIOUS
<1>0. BooksInv'
  BY BooksNext DEF BillInv
<1> USE DEF settings, reading, request, answering, answered, End
<1>1. CASE Receive
  BY <1>0, <1>1, MovesOn DEF Receive
<1>2. CASE Close
  BY <1>0, <1>2, MovesOn DEF Close
<1>3. CASE Intercept
  BY <1>0, <1>3, MovesOn DEF Intercept, BeforeParse
<1>4. CASE Tunnel
  BY <1>0, <1>4, MovesOn DEF Tunnel, BeforeParse
<1>5. CASE NoRequest
  BY <1>0, <1>5, MovesOn DEF NoRequest, BeforeParse
<1>6. CASE ReadHead
  BY <1>0, <1>6, MovesOn DEF ReadHead, BeforeParse
<1>7. CASE Fail
  BY <1>0, <1>7, MovesOn DEF Fail
<1>8. CASE HangUp
  BY <1>0, <1>8, MovesOn DEF HangUp
<1>9. CASE Finish
  BY <1>0, <1>9, MovesOn DEF Finish
<1>10. CASE Uncaptured
  BY <1>0, <1>10, MovesOn DEF Uncaptured
<1>11. CASE ServeRepeat
  <2>1. /\ UNCHANGED <<ask, data, body, todo, records>> /\ repeated' = TRUE
        /\ stage' = "capturing"
    BY <1>11 DEF ServeRepeat
  <2>2. KeptInv'
    BY <2>1 DEF BillInv, KeptInv
  <2> QED BY <1>0, <2>1, <2>2 DEF BillInv, CapturedInv, RecordInv
<1>12. CASE Ingest
  <2>1. /\ UNCHANGED <<ask, data, body, todo>> /\ stage' \in {"telling", "told"}
    BY <1>12 DEF Ingest
  <2>2. KeptInv'
    BY <2>1 DEF BillInv, KeptInv
  <2> QED BY <1>0, <2>1, <2>2 DEF BillInv, CapturedInv, RecordInv, BeforeParse
<1>13. CASE UNCHANGED vars
  BY <1>0, <1>13, MovesOn DEF vars
<1> QED BY <1>0, <1>1, <1>2, <1>3, <1>4, <1>5, <1>6, <1>7, <1>8, <1>9, <1>10, <1>11, <1>12, <1>13,
           RequestBill, RouteBill, RespondBill, PassBill, CaptureBill DEF Next

\* so that it holds in every behaviour.
LEMMA BillInvariance == Spec => []BillInv
BY BillInit, BillNext, PTL DEF Spec

-----------------------------------------------------------------------------
(* What is on record of an answer *)

\* How much a text says.
Volume(text) == FoldSeq(+, 0, text)

\* The beginning of an answer is read as its frames are.
LEMMA BeginningIsRead ==
  ASSUME NEW c, NEW m, NEW n \in Nat, NEW run, RunOf(c, m, n, run), NEW j \in 0..n,
         NEW part, DOMAIN part = 1..j, \A i \in 1..j : part[i] = StreamOf(c, m)[i]
  PROVE  ReadStream(c.body.api, part) = run[j]
<1> DEFINE api == c.body.api
<1>1. run[0] = Nothing /\ \A i \in 1..n : run[i] = ReadFrame(api, run[i - 1], StreamOf(c, m)[i])
  BY DEF RunOf
<1>2. j \in Nat /\ \A i \in 1..j : i \in 1..n
  OBVIOUS
<1>3. \A i \in 1..j : run[i] = ReadFrame(api, run[i - 1], part[i])
  BY <1>1, <1>2
<1> HIDE DEF api
<1>4. ReadStream(api, part) = run[j]
  BY <1>1, <1>2, <1>3, ReadStreamIs
<1> QED BY <1>4 DEF api

\* The event of a streamed answer, by what was read of it.
LEMMA StreamedEvent ==
  ASSUME Streamed = TRUE, Messages(body) # <<>>,
         NEW event, event = BuildEvent(Ask[ask].body.api, body, model, Streamed, Read),
         NEW s, s = ReadStream(Ask[ask].body.api, Read), s.usage \in Usages
  PROVE  /\ event.model = IF model = None THEN s.model ELSE model
         /\ event.words = Volume(s.text)
         /\ event.estimated <=> \/ Ask[ask].body.api = "openai" /\ ~s.told
                                \/ Volume(s.text) > 0 /\ s.usage.output = 0
                                \/ s.usage.input = 0 /\ s.usage.read = 0
         /\ ~event.estimated => event.usage = s.usage
<1> DEFINE api == Ask[ask].body.api
           words == Volume(s.text)
           noUsage == api = "openai" /\ ~s.told
           noOutput == words > 0 /\ s.usage.output = 0
           noInput == s.usage.input = 0 /\ s.usage.read = 0
           more == Estimate(InputChars(Messages(body)))
           most == Estimate(words)
<1>1. event = [model |-> IF model = None THEN s.model ELSE model,
               words |-> words,
               usage |-> [s.usage EXCEPT !.input = IF noInput THEN more ELSE @,
                                         !.output = IF noOutput THEN most ELSE @],
               estimated |-> noUsage \/ noOutput \/ noInput]
  BY DEF BuildEvent, Volume
<1>2. ASSUME ~noOutput, ~noInput
      PROVE  [s.usage EXCEPT !.input = IF noInput THEN more ELSE @,
                             !.output = IF noOutput THEN most ELSE @] = s.usage
  <2> DEFINE u == s.usage
  <2>1. [s.usage EXCEPT !.input = IF noInput THEN more ELSE @,
                        !.output = IF noOutput THEN most ELSE @]
          = [u EXCEPT !.input = u.input, !.output = u.output]
    BY <1>2
  <2>2. u = [input |-> u.input, output |-> u.output, read |-> u.read, written |-> u.written]
    BY DEF Usages
  <2> HIDE DEF u, noInput, noOutput
  <2>3. [u EXCEPT !.input = u.input, !.output = u.output] = u
    BY <2>2
  <2> QED BY <2>1, <2>3 DEF u
<1> HIDE DEF noUsage, noOutput, noInput, words, more, most
<1>3. /\ event.model = IF model = None THEN s.model ELSE model
      /\ event.words = words
      /\ event.usage = [s.usage EXCEPT !.input = IF noInput THEN more ELSE @,
                                       !.output = IF noOutput THEN most ELSE @]
      /\ event.estimated = (noUsage \/ noOutput \/ noInput)
  BY <1>1
<1>4. event.estimated <=> noUsage \/ noOutput \/ noInput
  BY <1>3
<1>5. ~event.estimated => event.usage = s.usage
  BY <1>2, <1>3, <1>4
<1> QED BY <1>3, <1>4, <1>5 DEF noUsage, noOutput, noInput, words

\* The bill is right, and known to be.
Charged(r, bill) == r.usage = bill /\ ~r.estimated

\* What the parts of SameBill say of an answer that was on its way.
Told(r, a) ==
  LET mayEstimate == (a.streamed /\ (a.bill.input + a.bill.read = 0 \/ ~a.asked)) \/ ~Legible
  IN /\ captured = Answer(ask) /\ Legible => r.model = Answering
     /\ captured = Answer(ask) => Charged(r, a.bill) \/ (mayEstimate /\ r.estimated)
     /\ r.words > 0 /\ a.body.api # "google" => Charged(r, a.bill) \/ r.estimated

\* An answer is on record as SameBill says.
LEMMA AnswerIsTold ==
  ASSUME BillInv, stage = "ended", records # <<>>, Ask[ask].door # "telemetry",
         captured # Refusal, body # Nobody, ~repeated
  PROVE  Told(records[1].record, Ask[ask])
<1> DEFINE a == Ask[ask]
           r == records[1].record
           event == BuildEvent(a.body.api, body, model, Streamed, Read)
<1>1. /\ ask \in Asks /\ IsACall(a) /\ a.bill \in Usages
      /\ a.streamed => Answer(ask) = StreamOf(a, Answering)
  <2>1. ask \in Asks
    BY DEF BillInv, BooksInv
  <2> QED BY <2>1, AnswersAre
<1>2. data = a.data /\ Messages(body) # <<>>
  <2>1. data = a.data /\ Shape(body, a.body)
    BY DEF BillInv, KeptInv
  <2> HIDE DEF a
  <2>2. Messages(body) # <<>>
    BY <1>1, <2>1, HasMessages
  <2> QED BY <2>1, <2>2
<1>3. Streamed <=> a.streamed
  <2>1. CASE a.body.api = "google"
    BY <2>1 DEF Streamed
  <2>2. CASE a.body.api # "google"
    <3>1. a.streamed <=> "stream" \in ToSet(a.data)
      BY <1>1, <2>2 DEF IsACall
    <3> QED BY <1>2, <2>2, <3>1 DEF Streamed
  <2> QED BY <2>1, <2>2
<1>4. Streamed \in BOOLEAN /\ a.streamed \in BOOLEAN
  <2>1. a.streamed \in BOOLEAN
    BY <1>1 DEF IsACall
  <2>2. CASE a.body.api = "google"
    BY <2>1, <2>2 DEF Streamed
  <2>3. CASE a.body.api # "google"
    <3>1. Streamed = ("stream" \in ToSet(data))
      BY <2>3 DEF Streamed
    <3> QED BY <2>1, <3>1
  <2> QED BY <2>2, <2>3
<1>5. r = Record(event) /\ (Streamed \/ Read # <<>>)
  BY DEF BillInv, RecordInv
<1>6. r.model = event.model /\ r.usage = event.usage /\ r.words = event.words /\ r.estimated = event.estimated
  <2> HIDE DEF event, r
  <2> QED BY <1>5 DEF Record
<1>7. PICK whole, n, k : (whole = Refusal \/ whole = Answer(ask)) /\ PassedOn(whole, n, k)
  BY DEF BillInv, CapturedInv
<1>8. /\ n \in Nat /\ k \in 0..n /\ DOMAIN whole = 1..n /\ Fits(k) \in 0..n
      /\ DOMAIN captured = 1..Fits(k) /\ captured = [i \in 1..Fits(k) |-> captured[i]]
      /\ \A i \in 1..Fits(k) : captured[i] = whole[i]
  <2>1. n \in Nat /\ k \in 0..n /\ DOMAIN whole = 1..n /\ Piece(captured, whole, 0, Fits(k))
    BY <1>7 DEF PassedOn
  <2>2. Fits(k) \in 0..n
    BY <2>1, CallAssumption DEF Fits
  <2> DEFINE j == Fits(k)
  <2>3. j \in Nat /\ captured = [i \in 1..(j - 0) |-> whole[0 + i]]
    BY <2>1, <2>2 DEF Piece
  <2> HIDE DEF j
  <2>4. captured = [i \in 1..j |-> whole[i]]
    BY <2>3
  <2>5. /\ DOMAIN captured = 1..j /\ captured = [i \in 1..j |-> captured[i]]
        /\ \A i \in 1..j : captured[i] = whole[i]
    BY <2>4
  <2> QED BY <2>1, <2>2, <2>5 DEF j
<1>9. whole = Refusal => Fits(k) = 0
  <2> SUFFICES ASSUME whole = Refusal, Fits(k) # 0 PROVE FALSE
    OBVIOUS
  <2>1. PICK f : whole = <<f>>
    BY DEF Refusal
  <2>2. DOMAIN whole = {1} /\ whole = [i \in 1..1 |-> whole[i]]
    BY <2>1
  <2>3. n = 1
    <3>1. 1 \in 1..n
      BY <1>8, <2>2
    <3>2. n \in 1..n
      BY <1>8, <3>1
    <3>3. n \in {1}
      BY <1>8, <2>2, <3>2
    <3> QED BY <3>3
  <2>4. Fits(k) = 1
    BY <1>8, <2>3
  <2>5. captured = whole
    BY <1>8, <2>2, <2>4
  <2> QED BY <2>5
<1>10. CASE ~a.streamed
  <2>1. ~Streamed /\ Streamed = FALSE /\ Read # <<>>
    BY <1>3, <1>4, <1>5, <1>10
  <2>2. Legible /\ Read = captured
    BY <2>1 DEF Read
  <2>3. Answer(ask) = OneBody(a.body.api, Answering, a.bill, a.words)
    BY <1>10 DEF Answer
  <2> DEFINE f == Frame("body", a.words, Reported(a.body.api, a.bill, a.bill.output), "stop", Answering)
  <2>4. Answer(ask) = <<f>>
    BY <2>3 DEF OneBody
  <2>5. Fits(k) # 0
    <3>1. captured # <<>>
      BY <2>1, <2>2
    <3>2. 1..0 = {}
      OBVIOUS
    <3> SUFFICES ASSUME Fits(k) = 0 PROVE FALSE
      OBVIOUS
    <3>3. captured = [i \in {} |-> captured[i]]
      BY <1>8, <3>2
    <3> QED BY <3>1, <3>3
  <2>6. whole = <<f>>
    BY <1>7, <1>9, <2>4, <2>5
  <2> HIDE DEF f
  <2>7. Head(Read) = f
    <3>1. 1 \in 1..Fits(k)
      BY <1>8, <2>5
    <3>2. captured[1] = f
      BY <1>8, <2>6, <3>1
    <3>3. Head(captured) = captured[1]
      OBVIOUS
    <3> QED BY <2>2, <3>2, <3>3
  <2>8. ReadBody(a.body.api, f).usage = a.bill
    <3>1. ReadBody(a.body.api, Head(OneBody(a.body.api, Answering, a.bill, a.words))).usage = a.bill
      BY <1>1, BodyIsBilled DEF Usages
    <3>2. Head(OneBody(a.body.api, Answering, a.bill, a.words)) = f
      BY <2>3, <2>4
    <3> QED BY <3>1, <3>2
  <2>9. ReadBody(a.body.api, f).model = Answering
    <3>1. f.model = Answering
      BY DEF f, Frame
    <3> QED BY <3>1 DEF ReadBody, AnthropicBody, OpenAiBody, ResponsesBody, GeminiBody, InOnePiece
  <2> DEFINE told == ReadBody(a.body.api, Head(Read))
  <2>10. event.usage = [told.usage EXCEPT !.input = @, !.output = @] /\ event.estimated = FALSE
         /\ event.model = IF model = None THEN told.model ELSE model
    BY <2>1 DEF BuildEvent
  <2>11. told.usage = a.bill /\ told.model = Answering
    BY <2>7, <2>8, <2>9
  <2> HIDE DEF told, event
  <2>12. event.usage = a.bill
    <3> DEFINE u == a.bill
    <3>1. u = [input |-> u.input, output |-> u.output, read |-> u.read, written |-> u.written]
      BY <1>1 DEF Usages
    <3> HIDE DEF u
    <3>2. event.usage = [u EXCEPT !.input = @, !.output = @]
      BY <2>10, <2>11 DEF u
    <3>3. event.usage = u
      BY <3>1, <3>2
    <3> QED BY <3>3 DEF u
  <2>13. event.model = Answering
    BY <2>10, <2>11 DEF Answering
  <2>14. Charged(r, a.bill)
    BY <1>6, <2>10, <2>12 DEF Charged
  <2> QED BY <1>6, <2>13, <2>14 DEF Told
<1>11. CASE a.streamed /\ ~Legible
  <2>1. Streamed = TRUE /\ Read = <<>>
    BY <1>3, <1>4, <1>11 DEF Read
  <2> DEFINE run == [i \in 0..0 |-> Nothing]
             s == ReadStream(a.body.api, Read)
  <2>2. run[0] = Nothing /\ 1..0 = {} /\ DOMAIN <<>> = 1..0
    OBVIOUS
  <2> HIDE DEF run
  <2>3. ReadStream(a.body.api, <<>>) = run[0]
    BY <2>2, ReadStreamIs
  <2>4. s = Nothing
    BY <2>1, <2>2, <2>3
  <2>5. s.usage = NoUsage /\ NoUsage \in Usages /\ NoUsage.input = 0 /\ NoUsage.read = 0
    BY <2>4 DEF Nothing, NoUsage, Usages
  <2> HIDE DEF s
  <2>6. event.estimated
    <3>1. s = ReadStream(Ask[ask].body.api, Read) /\ s.usage \in Usages
      BY <2>5 DEF s
    <3>2. event = BuildEvent(Ask[ask].body.api, body, model, Streamed, Read)
      OBVIOUS
    <3> HIDE DEF event
    <3> QED BY <1>2, <2>1, <2>5, <3>1, <3>2, StreamedEvent
  <2>7. r.estimated
    BY <1>6, <2>6
  <2> QED BY <1>11, <2>7 DEF Told
<1>12. CASE a.streamed /\ Legible
  <2> DEFINE m == Answering
  <2>1. Streamed = TRUE /\ Read = captured /\ Answer(ask) = StreamOf(a, m)
    BY <1>1, <1>3, <1>4, <1>12 DEF Read
  <2>0. PICK l \in Nat : \E run : RunOf(a, m, l, run)
    <3> HIDE DEF a, m
    <3> QED BY <1>1, ARun
  <2>2. PICK run : RunOf(a, m, l, run)
    BY <2>0
  <2>3. DOMAIN Answer(ask) = 1..l
    BY <2>1, <2>2 DEF RunOf
  <2>4. PICK j \in 0..l : DOMAIN captured = 1..j /\ \A i \in 1..j : captured[i] = StreamOf(a, m)[i]
    <3>1. CASE whole = Refusal
      <4>1. DOMAIN captured = 1..0 /\ 0 \in 0..l /\ \A i \in 1..0 : FALSE
        BY <1>8, <1>9, <3>1
      <4> QED BY <4>1
    <3>2. CASE whole = Answer(ask)
      <4>1. n = l
        <5>1. 1..n = 1..l
          BY <1>8, <2>3, <3>2
        <5>2. n \in 1..n \/ n = 0
          BY <1>8
        <5>3. l \in 1..l \/ l = 0
          OBVIOUS
        <5> QED BY <1>8, <5>1, <5>2, <5>3
      <4>2. Fits(k) \in 0..l
        BY <1>8, <4>1
      <4> QED BY <1>8, <2>1, <3>2, <4>2
    <3> QED BY <1>7, <3>1, <3>2
  <2>5. captured = Answer(ask) => j = l
    <3> SUFFICES ASSUME captured = Answer(ask) PROVE j = l
      OBVIOUS
    <3>1. 1..j = 1..l
      BY <2>3, <2>4
    <3>2. l \in 1..l \/ l = 0
      OBVIOUS
    <3> QED BY <2>4, <3>1, <3>2
  <2> DEFINE s == ReadStream(a.body.api, Read)
  <2>6. s = run[j]
    <3>1. ReadStream(a.body.api, captured) = run[j]
      <4> HIDE DEF a, m
      <4> QED BY <2>2, <2>4, BeginningIsRead
    <3> QED BY <2>1, <3>1
  <2>7. IF j = l THEN ReadsAll(a, m, s) ELSE Unsure(a, s)
    <3>1. ReadsAll(a, m, run[l]) /\ \A i \in 0..(l - 1) : Unsure(a, run[i])
      <4> HIDE DEF a, m
      <4> QED BY <2>2 DEF RunOf
    <3>2. j # l => j \in 0..(l - 1)
      OBVIOUS
    <3> HIDE DEF s, a, m
    <3> QED BY <2>6, <3>1, <3>2
  <2>8. s.usage \in Usages
    <3>1. NoUsage \in Usages
      BY DEF NoUsage, Usages
    <3> HIDE DEF s, a, m
    <3> QED BY <1>1, <2>7, <3>1 DEF ReadsAll, Unsure
  <2>9. /\ event.model = IF model = None THEN s.model ELSE model
        /\ event.words = Volume(s.text)
        /\ event.estimated <=> \/ a.body.api = "openai" /\ ~s.told
                               \/ Volume(s.text) > 0 /\ s.usage.output = 0
                               \/ s.usage.input = 0 /\ s.usage.read = 0
        /\ ~event.estimated => event.usage = s.usage
    <3>1. s = ReadStream(Ask[ask].body.api, Read) /\ event = BuildEvent(Ask[ask].body.api, body, model, Streamed, Read)
      OBVIOUS
    <3> HIDE DEF event, s
    <3> QED BY <1>2, <2>1, <2>8, <3>1, StreamedEvent
  <2> HIDE DEF s, event, r
  <2>10. CASE j # l
    <3>1. captured # Answer(ask) /\ Unsure(a, s)
      BY <2>5, <2>7, <2>10
    <3>2. r.words > 0 /\ a.body.api # "google" => r.estimated
      BY <1>6, <2>9, <3>1 DEF Unsure
    <3> HIDE DEF a
    <3> QED BY <3>1, <3>2 DEF Told, a, r
  <2>11. CASE j = l
    <3>1. ReadsAll(a, m, s)
      BY <2>7, <2>11
    <3>2. r.model = Answering
      BY <1>6, <2>9, <3>1 DEF ReadsAll, Answering
    <3>3. CASE a.body.api = "openai" /\ ~a.asked
      <4>1. r.estimated
        BY <1>6, <2>9, <3>1, <3>3 DEF ReadsAll
      <4> QED BY <1>12, <3>2, <3>3, <4>1 DEF Told, r
    <3>4. CASE ~(a.body.api = "openai" /\ ~a.asked)
      <4>1. s.usage = a.bill /\ s.text = a.words /\ (a.body.api = "openai" => s.told)
        BY <3>1, <3>4 DEF ReadsAll
      <4>2. ~(Volume(s.text) > 0 /\ s.usage.output = 0)
        <5>1. a.bill.output = 0 => Volume(a.words) = 0
          BY <1>1 DEF IsACall, Volume
        <5> QED BY <4>1, <5>1
      <4>3. event.estimated <=> a.bill.input = 0 /\ a.bill.read = 0
        BY <2>9, <4>1, <4>2
      <4>4. ~event.estimated => Charged(r, a.bill)
        BY <1>6, <2>9, <4>1 DEF Charged
      <4>5. event.estimated => a.streamed /\ a.bill.input + a.bill.read = 0
        BY <1>12, <4>3
      <4> QED BY <1>6, <3>2, <4>4, <4>5 DEF Told, r
    <3> QED BY <3>3, <3>4
  <2> QED BY <2>10, <2>11
<1> QED BY <1>10, <1>11, <1>12

-----------------------------------------------------------------------------
(* What a tool tells of itself *)

\* The items of an export that are read as calls.
Heard(export) ==
  {i \in DOMAIN export.items :
     /\ export.signal # "metrics"
     /\ GenAi(export.items[i]) \/ (export.signal = "logs" /\ ClaudeCode(export.items[i]))}

\* An export that tells of no call, and one that tells of one.
Silent(export) == Events(export) = <<>>
TellsOf(export, bill) == DOMAIN Events(export) = 1..1 /\ Events(export)[1].usage = bill

\* Without an item that is read as a call there is no event,
LEMMA NothingHeard ==
  ASSUME NEW export, Heard(export) = {}
  PROVE  Silent(export)
<1> DEFINE heard == Heard(export)
           Nth(n) == CHOOSE i \in heard : Cardinality({j \in heard : j <= i}) = n
           k == Cardinality(heard)
           E(n) == Event(export.items[Nth(n)])
<1>1. Events(export) = [n \in 1..k |-> E(n)]
  BY DEF Events, Heard
<1>2. k = 0
  <2>1. Cardinality({}) = 0
    BY FS_EmptySet
  <2> QED BY <2>1
<1> HIDE DEF k, E
<1>3. 1..k = {}
  BY <1>2
<1> QED BY <1>1, <1>3 DEF Silent

\* with one there is one event.
LEMMA OneHeard ==
  ASSUME NEW export, NEW i \in Int, Heard(export) = {i}
  PROVE  DOMAIN Events(export) = 1..1 /\ Events(export)[1] = Event(export.items[i])
<1> DEFINE heard == Heard(export)
           Nth(n) == CHOOSE x \in heard : Cardinality({j \in heard : j <= x}) = n
           k == Cardinality(heard)
           E(n) == Event(export.items[Nth(n)])
<1>1. Events(export) = [n \in 1..k |-> E(n)]
  BY DEF Events, Heard
<1>2. Cardinality({i}) = 1
  BY FS_Singleton
<1>3. k = 1
  BY <1>2
<1>4. Nth(1) = i
  <2>1. {j \in heard : j <= i} = {i}
    OBVIOUS
  <2>2. i \in heard /\ Cardinality({j \in heard : j <= i}) = 1
    BY <1>2, <2>1
  <2>3. Nth(1) \in heard
    BY <2>2
  <2> QED BY <2>3
<1>5. E(1) = Event(export.items[i])
  BY <1>4
<1> HIDE DEF k, E
<1>6. 1 \in 1..k
  BY <1>3
<1> QED BY <1>1, <1>3, <1>5, <1>6

\* A tool that tells of its call once does so in one of its exports.
LEMMA OneExportTells ==
  ASSUME NEW c, TellsOnce(c)
  PROVE  \E i \in DOMAIN c.exports :
           /\ TellsOf(c.exports[i], c.bill)
           /\ \A j \in DOMAIN c.exports \ {i} : Silent(c.exports[j])
<1> DEFINE Item(k) == c.exports[k[1]].items[k[2]]
           places == UNION {{i} \X DOMAIN c.exports[i].items : i \in DOMAIN c.exports}
           ofCalls == {k \in places :
             /\ c.exports[k[1]].signal # "metrics"
             /\ \/ Item(k).speaks = "gen_ai"
                \/ Item(k).speaks = "claude_code" /\ Item(k).event = "api_request"}
<1>1. PICK k \in places :
        /\ ofCalls = {k}
        /\ Item(k).speaks = "claude_code" => c.exports[k[1]].signal = "logs"
        /\ Item(k).usage # None /\ AsTold(Item(k).usage) = c.bill
  BY DEF TellsOnce
<1>2. PICK i \in DOMAIN c.exports : k \in {i} \X DOMAIN c.exports[i].items
  OBVIOUS
<1>3. PICK x \in DOMAIN c.exports[i].items : k = <<i, x>>
  BY <1>2
<1>4. k[1] = i /\ k[2] = x
  BY <1>3
<1>5. k \in ofCalls
  BY <1>1
<1>6. c.exports[i].signal # "metrics"
  BY <1>4, <1>5
<1>7. \/ c.exports[i].items[x].speaks = "gen_ai"
      \/ c.exports[i].items[x].speaks = "claude_code" /\ c.exports[i].items[x].event = "api_request"
  BY <1>4, <1>5
<1>8. /\ c.exports[i].items[x].speaks = "claude_code" => c.exports[i].signal = "logs"
      /\ c.exports[i].items[x].usage # None /\ AsTold(c.exports[i].items[x].usage) = c.bill
  BY <1>1, <1>4
<1>9. x \in Heard(c.exports[i])
  BY <1>6, <1>7, <1>8 DEF Heard, GenAi, ClaudeCode
<1>10. ASSUME NEW j \in DOMAIN c.exports, NEW y \in Heard(c.exports[j])
       PROVE  j = i /\ y = x
  <2>1. y \in DOMAIN c.exports[j].items /\ c.exports[j].signal # "metrics"
        /\ \/ c.exports[j].items[y].speaks = "gen_ai"
           \/ c.exports[j].items[y].speaks = "claude_code" /\ c.exports[j].items[y].event = "api_request"
    BY DEF Heard, GenAi, ClaudeCode
  <2> DEFINE p == <<j, y>>
  <2>2. p[1] = j /\ p[2] = y
    OBVIOUS
  <2>3. p \in {j} \X DOMAIN c.exports[j].items
    BY <2>1
  <2>4. p \in places
    BY <2>3
  <2> HIDE DEF places, p
  <2>5. p \in ofCalls
    BY <2>1, <2>2, <2>4
  <2>6. p = k
    BY <1>1, <2>5
  <2> QED BY <1>4, <2>2, <2>6
<1>11. Heard(c.exports[i]) = {x}
  BY <1>9, <1>10
<1>12. TellsOf(c.exports[i], c.bill)
  <2> DEFINE e == c.exports[i]
  <2>1. x \in Int
    <3>1. c.exports \in Seq(ToSet(c.exports)) /\ \A d \in ToSet(c.exports) : d.items \in Seq(ToSet(d.items))
      BY DEF TellsOnce
    <3>2. e \in ToSet(c.exports)
      BY DEF ToSet
    <3>3. e.items \in Seq(ToSet(e.items))
      BY <3>1, <3>2
    <3> DEFINE t == e.items
               S == ToSet(t)
    <3>4. t \in Seq(S) /\ x \in DOMAIN t
      BY <3>3
    <3> HIDE DEF t, S
    <3> QED BY <3>4
  <2> HIDE DEF e
  <2>2. Heard(e) = {x}
    BY <1>11 DEF e
  <2>3. DOMAIN Events(e) = 1..1 /\ Events(e)[1] = Event(e.items[x])
    BY <2>1, <2>2, OneHeard
  <2>4. Event(e.items[x]).usage = c.bill
    <3>1. e.items[x].usage # None /\ AsTold(e.items[x].usage) = c.bill
      BY <1>8 DEF e
    <3> QED BY <3>1 DEF Event
  <2> QED BY <2>3, <2>4 DEF TellsOf, e
<1>13. \A j \in DOMAIN c.exports \ {i} : Silent(c.exports[j])
  <2> TAKE j \in DOMAIN c.exports \ {i}
  <2>1. Heard(c.exports[j]) = {}
    BY <1>10
  <2> QED BY <2>1, NothingHeard
<1> QED BY <1>12, <1>13

\* Where an element comes from when one is taken out.
LEMMA WhatIsLeft ==
  ASSUME NEW S, NEW s \in Seq(S), NEW i \in DOMAIN s
  PROVE  /\ DOMAIN RemoveAt(s, i) = 1..(Len(s) - 1) /\ DOMAIN s = 1..Len(s) /\ Len(s) \in Nat
         /\ \A j \in 1..(Len(s) - 1) : RemoveAt(s, i)[j] = s[IF j < i THEN j ELSE j + 1]
<1> DEFINE a == SubSeq(s, 1, i - 1)
           b == SubSeq(s, i + 1, Len(s))
<1>1. Len(s) \in Nat /\ DOMAIN s = 1..Len(s) /\ i \in 1..Len(s)
  OBVIOUS
<1>2. a \in Seq(S) /\ Len(a) = i - 1 /\ \A j \in 1..(i - 1) : a[j] = s[j]
  BY <1>1
<1>3. b \in Seq(S) /\ Len(b) = Len(s) - i /\ \A j \in 1..(Len(s) - i) : b[j] = s[i + j]
  BY <1>1
<1>4. RemoveAt(s, i) = a \o b
  BY DEF RemoveAt
<1> HIDE DEF a, b
<1>5. DOMAIN (a \o b) = 1..(Len(s) - 1)
  <2>1. a \o b \in Seq(S) /\ Len(a \o b) = Len(a) + Len(b)
    BY <1>2, <1>3, Concatenated
  <2>2. Len(a) + Len(b) = Len(s) - 1
    BY <1>1, <1>2, <1>3
  <2> QED BY <2>1, <2>2
<1>6. ASSUME NEW j \in 1..(Len(s) - 1)
      PROVE  (a \o b)[j] = s[IF j < i THEN j ELSE j + 1]
  <2>1. CASE j < i
    <3>1. j \in 1..Len(a)
      BY <1>1, <1>2, <2>1
    <3> QED BY <1>2, <1>3, <2>1, <3>1
  <2>2. CASE ~(j < i)
    <3>1. j - (i - 1) \in 1..(Len(s) - i) /\ i + (j - (i - 1)) = j + 1 /\ ~(j <= i - 1)
          /\ j \in 1..(Len(a) + Len(b))
      BY <1>1, <1>2, <1>3, <2>2
    <3>2. (a \o b)[j] = b[j - Len(a)]
      BY <1>2, <1>3, <3>1
    <3> QED BY <1>2, <1>3, <2>2, <3>1, <3>2
  <2> QED BY <2>1, <2>2
<1> QED BY <1>1, <1>4, <1>5, <1>6

\* What was told once is not told by an export that is still to come.
ToldInv ==
  Ask[ask].door = "telemetry" =>
    \/ /\ records = <<>> /\ stage = "telling"
       /\ \E i \in DOMAIN frames :
            /\ TellsOf(frames[i], Ask[ask].bill)
            /\ \A j \in DOMAIN frames \ {i} : Silent(frames[j])
    \/ /\ Len(records) = 1 /\ records[1].record.usage = Ask[ask].bill
       /\ stage = "telling" => \A j \in DOMAIN frames : Silent(frames[j])

\* At first the export that tells is to come.
LEMMA ToldInit == Init => ToldInv
<1> SUFFICES ASSUME Init, Ask[ask].door = "telemetry"
             PROVE  /\ records = <<>> /\ stage = "telling"
                    /\ \E i \in DOMAIN frames :
                         /\ TellsOf(frames[i], Ask[ask].bill)
                         /\ \A j \in DOMAIN frames \ {i} : Silent(frames[j])
  BY DEF ToldInv
<1>1. records = <<>> /\ stage = "telling" /\ frames = Ask[ask].exports /\ ask \in Asks
  BY DEF Init
<1>2. TellsOnce(Ask[ask])
  BY <1>1, CallAssumption
<1> QED BY <1>1, <1>2, OneExportTells

\* It is ingested, or one that tells nothing is.
LEMMA IngestTells ==
  ASSUME BooksInv, ToldInv, Ingest
  PROVE  ToldInv'
<1>1. stage = "telling" /\ Ask[ask].door = "telemetry" /\ ask' = ask /\ ask \in Asks
  BY DEF BooksInv, Ingest, settings
<1>2. PICK i \in DOMAIN frames :
        LET events == Events(frames[i])
        IN /\ records' = records \o [n \in DOMAIN events |->
                [record |-> Record(events[n]), saved |-> 0, shadow |-> <<>>, route |-> Unrouted]]
           /\ frames' = RemoveAt(frames, i)
           /\ stage' = IF frames' = <<>> THEN "told" ELSE stage
  BY DEF Ingest
<1> DEFINE events == Events(frames[i])
           new == [n \in DOMAIN events |->
                     [record |-> Record(events[n]), saved |-> 0, shadow |-> <<>>, route |-> Unrouted]]
           bill == Ask[ask].bill
<1>3. records' = records \o new /\ frames' = RemoveAt(frames, i)
      /\ stage' = IF frames' = <<>> THEN "told" ELSE stage
  BY <1>2
<1>4. frames \in Seq(ToSet(Ask[ask].exports)) /\ records \in Seq(ToSet(records))
  BY <1>1 DEF BooksInv
<1> DEFINE l == Len(frames)
           From(j) == IF j < i THEN j ELSE j + 1
<1>5. /\ DOMAIN frames' = 1..(l - 1) /\ DOMAIN frames = 1..l /\ l \in Nat /\ i \in 1..l
      /\ \A j \in 1..(l - 1) : frames'[j] = frames[From(j)]
  <2> DEFINE S == ToSet(Ask[ask].exports)
  <2> HIDE DEF S
  <2>1. frames \in Seq(S)
    BY <1>4 DEF S
  <2> QED BY <1>3, <2>1, WhatIsLeft
<1>6. ASSUME NEW j \in 1..(l - 1)
      PROVE  From(j) \in DOMAIN frames \ {i}
  BY <1>5
<1>7. Silent(frames[i]) => records' = records
  <2> SUFFICES ASSUME Silent(frames[i]) PROVE records' = records
    OBVIOUS
  <2>1. events = <<>>
    BY DEF Silent
  <2>2. DOMAIN events = {}
    BY <2>1
  <2>3. new = <<>>
    <3> HIDE DEF events
    <3> QED BY <2>2
  <2> HIDE DEF new
  <2> DEFINE S == ToSet(records)
  <2> HIDE DEF S
  <2>4. records \in Seq(S)
    BY <1>4 DEF S
  <2> QED BY <1>3, <2>3, <2>4
<1>8. CASE records = <<>> /\ \E x \in DOMAIN frames :
                               /\ TellsOf(frames[x], bill)
                               /\ \A j \in DOMAIN frames \ {x} : Silent(frames[j])
  <2>1. PICK x \in DOMAIN frames : TellsOf(frames[x], bill) /\ \A j \in DOMAIN frames \ {x} : Silent(frames[j])
    BY <1>8
  <2>2. CASE x = i
    <3>1. DOMAIN events = 1..1 /\ events[1].usage = bill
      BY <2>1, <2>2 DEF TellsOf
    <3>2. new = [n \in 1..1 |-> [record |-> Record(events[n]), saved |-> 0, shadow |-> <<>>, route |-> Unrouted]]
      BY <3>1
    <3>3. Record(events[1]).usage = bill
      BY <3>1 DEF Record
    <3> DEFINE one == [record |-> Record(events[1]), saved |-> 0, shadow |-> <<>>, route |-> Unrouted]
    <3>4. one.record.usage = bill
      BY <3>3
    <3> HIDE DEF events
    <3>5. new = <<one>>
      BY <3>2
    <3> HIDE DEF new, one
    <3>6. records' = <<one>>
      BY <1>3, <1>8, <3>5
    <3>7. Len(records') = 1 /\ records'[1] = one
      BY <3>6
    <3>8. \A j \in DOMAIN frames' : Silent(frames'[j])
      <4> TAKE j \in DOMAIN frames'
      <4>1. From(j) \in DOMAIN frames \ {x} /\ frames'[j] = frames[From(j)]
        BY <1>5, <1>6, <2>2
      <4> HIDE DEF From
      <4> QED BY <2>1, <4>1
    <3> QED BY <1>1, <3>4, <3>7, <3>8 DEF ToldInv
  <2>3. CASE x # i
    <3>1. records' = <<>>
      BY <1>7, <1>8, <2>1, <2>3
    <3> DEFINE y == IF x < i THEN x ELSE x - 1
    <3>2. y \in 1..(l - 1) /\ From(y) = x
      BY <1>5, <2>3
    <3>3. frames'[y] = frames[x] /\ y \in DOMAIN frames'
      BY <1>5, <3>2
    <3>4. \A j \in DOMAIN frames' \ {y} : From(j) \in DOMAIN frames \ {x} /\ frames'[j] = frames[From(j)]
      <4> TAKE j \in DOMAIN frames' \ {y}
      <4>1. j \in 1..(l - 1) /\ j # y
        BY <1>5
      <4>2. From(j) # x
        BY <1>5, <2>3, <4>1
      <4>3. From(j) \in DOMAIN frames
        BY <1>6, <4>1
      <4> HIDE DEF From, y
      <4> QED BY <1>5, <4>1, <4>2, <4>3
    <3> HIDE DEF From, y
    <3>5. \A j \in DOMAIN frames' \ {y} : Silent(frames'[j])
      BY <2>1, <3>4
    <3>6. TellsOf(frames'[y], bill)
      BY <2>1, <3>3
    <3>7. stage' = "telling"
      <4>1. frames' # <<>>
        BY <3>3
      <4> QED BY <1>1, <1>3, <4>1
    <3> QED BY <1>1, <3>1, <3>3, <3>5, <3>6, <3>7 DEF ToldInv
  <2> QED BY <2>2, <2>3
<1>9. CASE Len(records) = 1 /\ records[1].record.usage = bill /\ \A j \in DOMAIN frames : Silent(frames[j])
  <2>1. records' = records
    BY <1>7, <1>9
  <2>2. \A j \in DOMAIN frames' : Silent(frames'[j])
    <3> TAKE j \in DOMAIN frames'
    <3>1. From(j) \in DOMAIN frames /\ frames'[j] = frames[From(j)]
      BY <1>5, <1>6
    <3> HIDE DEF From
    <3> QED BY <1>9, <3>1
  <2>3. Len(records') = 1 /\ records'[1].record.usage = bill
    BY <1>9, <2>1
  <2> QED BY <1>1, <2>2, <2>3 DEF ToldInv
<1> QED BY <1>1, <1>8, <1>9 DEF ToldInv

\* No other step is one of such a tool.
LEMMA ToldNext == BooksInv /\ ToldInv /\ [Next]_vars => ToldInv'
<1> SUFFICES ASSUME BooksInv, ToldInv, [Next]_vars PROVE ToldInv'
  OBVIOUS
<1>1. CASE Ask[ask].door = "telemetry" /\ Next
  <2>1. stage \in {"telling", "told"}
    BY <1>1 DEF BooksInv
  <2>2. CASE Ingest
    BY <2>2, IngestTells
  <2>3. CASE ~Ingest
    BY <1>1, <2>1, <2>3 DEF Next, Receive, Waiting, Close, Intercept, Tunnel, NoRequest, ReadHead, ReadBodyBytes,
                            Parse, Compress1, Route, Respond, ServeRepeat, Fail, Pass, HangUp, Finish,
                            Uncaptured, Capture
  <2> QED BY <2>2, <2>3
<1>2. CASE Ask[ask].door # "telemetry" /\ Next
  <2>1. ask' = ask
    BY <1>2 DEF Next, Receive, Close, Intercept, Tunnel, NoRequest, ReadHead, ReadBodyBytes,
                Parse, Compress1, Route, Respond, ServeRepeat, Fail, Pass, HangUp, Finish,
                Uncaptured, Capture, Ingest, End, settings
  <2> QED BY <1>2, <2>1 DEF ToldInv
<1>3. CASE UNCHANGED vars
  BY <1>3 DEF vars, settings, answering, ToldInv
<1> QED BY <1>1, <1>2, <1>3

\* So it is told once in every behaviour.
LEMMA ToldInvariance == Spec => [](BooksInv /\ ToldInv)
<1>1. Init => BooksInv /\ ToldInv
  BY BooksInit, ToldInit
<1>2. BooksInv /\ ToldInv /\ [Next]_vars => (BooksInv /\ ToldInv)'
  BY BooksNext, ToldNext
<1> QED BY <1>1, <1>2, PTL DEF Spec

\* Whatever API and however cut: of an answer captured whole the record has what the
\* provider charged for, or says it is estimated where the provider was not asked
\* to tell or cannot be decoded; of a part of one, too, but in the Gemini API.
\* Telemetry of a tool puts its call on record once, in whatever order its exports
\* come (build_event, the adapters' stream readers, ingest_otlp).
THEOREM TheBillIsRight == Spec => []SameBill
<1>1. ASSUME BillInv, ToldInv PROVE SameBill
  <2> DEFINE a == Ask[ask]
             r == records[1].record
  <2>1. stage = "told" => Len(records) = 1 /\ r.usage = a.bill
    BY <1>1 DEF BillInv, BooksInv, ToldInv
  <2>2. stage = "ended" /\ records # <<>> /\ a.door # "telemetry" /\ captured # Refusal /\ body # Nobody
        /\ ~repeated => Told(r, a)
    BY <1>1, AnswerIsTold
  <2> QED BY <2>1, <2>2 DEF SameBill, Told, Charged
<1> QED BY <1>1, BillInvariance, ToldInvariance, PTL

-----------------------------------------------------------------------------
(* What no strategy touches *)

\* One more member.
LEMMA AppendedSet ==
  ASSUME NEW S, NEW s \in Seq(S), NEW x \in S
  PROVE  Append(s, x) \in Seq(S) /\ ToSet(Append(s, x)) = ToSet(s) \cup {x}
<1>1. Append(s, x) \in Seq(S) /\ Len(s) \in Nat /\ DOMAIN s = 1..Len(s)
      /\ DOMAIN Append(s, x) = 1..(Len(s) + 1)
      /\ Append(s, x)[Len(s) + 1] = x /\ \A i \in 1..Len(s) : Append(s, x)[i] = s[i]
  OBVIOUS
<1>2. \A i : i \in 1..(Len(s) + 1) <=> i \in 1..Len(s) \/ i = Len(s) + 1
  BY <1>1
<1> DEFINE after == Append(s, x)
<1> HIDE DEF after
<1>3. {after[i] : i \in DOMAIN after} = {s[i] : i \in DOMAIN s} \cup {x}
  BY <1>1, <1>2 DEF after
<1> QED BY <1>1, <1>3 DEF after, ToSet

\* Of tools that are defined twice one is left.
LEMMA DistinctKeeps ==
  ASSUME NEW tools, NEW S, tools \in Seq(S)
  PROVE  Distinct(tools) \in Seq(S) /\ ToSet(Distinct(tools)) = ToSet(tools)
<1> DEFINE n == Len(tools)
<1>1. n \in Nat /\ DOMAIN tools = 1..n /\ \A i \in 1..n : tools[i] \in S
  OBVIOUS
<1> HIDE DEF n
<1>2. PICK run : Runs("tools", "tools", tools, n, run)
  BY <1>1, RunExists
<1>3. /\ run[0] = <<>>
      /\ \A i \in 1..n : run[i] = IF tools[i] \in ToSet(run[i - 1]) THEN run[i - 1]
                                  ELSE Append(run[i - 1], tools[i])
  BY <1>2 DEF Runs, Base, Step
<1>4. Distinct(tools) = run[n]
  BY <1>1, <1>3, DistinctIs
<1> DEFINE Good(i) == run[i] \in Seq(S) /\ ToSet(run[i]) = {tools[j] : j \in 1..i}
           bad == {i \in 0..n : ~Good(i)}
<1>5. bad = {}
  <2> SUFFICES ASSUME bad # {} PROVE FALSE
    OBVIOUS
  <2>1. PICK i \in bad : \A k \in bad : i <= k
    <3>1. bad \in SUBSET Nat
      OBVIOUS
    <3> HIDE DEF bad
    <3> QED BY <3>1, LeastNatural
  <2>2. CASE i = 0
    <3>1. run[i] = <<>> /\ <<>> \in Seq(S) /\ ToSet(<<>>) = {}
      BY <1>3, <2>2 DEF ToSet
    <3>2. {tools[j] : j \in 1..i} = {}
      BY <2>2
    <3> QED BY <2>1, <3>1, <3>2
  <2>3. CASE i # 0
    <3>1. i - 1 \in 0..n /\ i \in 1..n /\ ~(i <= i - 1)
      BY <1>1, <2>3
    <3>2. Good(i - 1)
      BY <2>1, <3>1
    <3> DEFINE before == run[i - 1]
               x == tools[i]
    <3>3. before \in Seq(S) /\ x \in S /\ ToSet(before) = {tools[j] : j \in 1..(i - 1)}
      BY <1>1, <3>1, <3>2
    <3>4. run[i] = IF x \in ToSet(before) THEN before ELSE Append(before, x)
      BY <1>3, <3>1
    <3>5. {tools[j] : j \in 1..i} = {tools[j] : j \in 1..(i - 1)} \cup {x}
      <4>1. \A j : j \in 1..i <=> j \in 1..(i - 1) \/ j = i
        BY <3>1
      <4> QED BY <4>1
    <3> HIDE DEF before, x
    <3>6. Append(before, x) \in Seq(S) /\ ToSet(Append(before, x)) = ToSet(before) \cup {x}
      BY <3>3, AppendedSet
    <3>7. run[i] \in Seq(S) /\ ToSet(run[i]) = ToSet(before) \cup {x}
      BY <3>3, <3>4, <3>6
    <3> QED BY <2>1, <3>3, <3>5, <3>7
  <2> QED BY <2>2, <2>3
<1>6. Good(n)
  <2>1. n \in 0..n
    BY <1>1
  <2> HIDE DEF Good
  <2> QED BY <1>5, <2>1
<1>7. {tools[j] : j \in 1..n} = ToSet(tools)
  BY <1>1 DEF ToSet
<1> QED BY <1>4, <1>6, <1>7

\* A part of a message, and a message without a tool's output.
IsPart(part) == DOMAIN part = {"is", "text", "marked"}

NoOutput(turn) == \A j \in DOMAIN turn.parts : turn.parts[j].is # "tool_result"

\* What strategies leave of a turn.
SameTurn(told, before, after) ==
  /\ DOMAIN after = {"role", "parts"} /\ after.role = before.role
  /\ DOMAIN after.parts = DOMAIN before.parts
  /\ \A j \in DOMAIN before.parts :
       IsPart(after.parts[j]) /\ after.parts[j].is = before.parts[j].is
  /\ RoleIn(told, before) = "assistant" => after = before
\* And of a request.
SameTurns(b, told) ==
  /\ Shape(b, told)
  /\ \A i \in DOMAIN told.turns : SameTurn(told, told.turns[i], b.turns[i])
\* And of the tools.
SameTools(b, told) ==
  b.tools \in Seq(ToSet(told.tools)) /\ ToSet(b.tools) = ToSet(told.tools)

\* What the turns of a call are made of.
LEMMA TurnsOfACall ==
  ASSUME NEW c, IsACall(c), NEW i \in DOMAIN c.body.turns
  PROVE  LET turn == c.body.turns[i]
         IN /\ turn = [role |-> turn.role, parts |-> turn.parts] /\ DOMAIN turn = {"role", "parts"}
            /\ turn.parts = [j \in DOMAIN turn.parts |-> turn.parts[j]]
            /\ \A j \in DOMAIN turn.parts : IsPart(turn.parts[j])
            /\ RoleIn(c.body, turn) = "assistant" => NoOutput(turn)
<1> DEFINE turn == c.body.turns[i]
<1>1. turn \in ToSet(c.body.turns)
  BY DEF ToSet
<1>2. /\ turn \in [role : STRING, parts : Seq(ToSet(turn.parts))]
      /\ \A part \in ToSet(turn.parts) :
           /\ part \in [is : STRING, text : {part.text}, marked : BOOLEAN]
           /\ RoleIn(c.body, turn) = "assistant" => part.is # "tool_result"
  BY <1>1 DEF IsACall
<1> HIDE DEF turn
<1>3. turn = [role |-> turn.role, parts |-> turn.parts] /\ DOMAIN turn = {"role", "parts"}
      /\ turn.parts \in Seq(ToSet(turn.parts))
  BY <1>2
<1>4. turn.parts = [j \in DOMAIN turn.parts |-> turn.parts[j]]
  BY <1>3
<1>5. ASSUME NEW j \in DOMAIN turn.parts
      PROVE  /\ IsPart(turn.parts[j])
             /\ RoleIn(c.body, turn) = "assistant" => turn.parts[j].is # "tool_result"
  <2> DEFINE part == turn.parts[j]
  <2>1. part \in ToSet(turn.parts)
    BY DEF ToSet
  <2>2. part \in [is : STRING, text : {part.text}, marked : BOOLEAN]
        /\ (RoleIn(c.body, turn) = "assistant" => part.is # "tool_result")
    BY <1>2, <2>1
  <2> HIDE DEF part
  <2>3. IsPart(part)
    BY <2>2 DEF IsPart
  <2> QED BY <2>2, <2>3 DEF part
<1> QED BY <1>3, <1>4, <1>5 DEF turn, NoOutput

\* Texts are rewritten where they are.
LEMMA PartsStay ==
  ASSUME NEW name, NEW is, NEW told, NEW before, NEW after, SameTurn(told, before, after),
         RoleIn(told, before) # "assistant"
  PROVE  SameTurn(told, before, [after EXCEPT !.parts = RewriteParts(name, @, is)])
<1> DEFINE parts == RewriteParts(name, after.parts, is)
           turn == [after EXCEPT !.parts = parts]
<1>1. DOMAIN after = {"role", "parts"} /\ after.role = before.role
      /\ DOMAIN after.parts = DOMAIN before.parts
      /\ \A j \in DOMAIN before.parts :
           IsPart(after.parts[j]) /\ after.parts[j].is = before.parts[j].is
  BY DEF SameTurn
<1>2. DOMAIN parts = DOMAIN before.parts
  BY <1>1 DEF RewriteParts
<1>3. ASSUME NEW j \in DOMAIN before.parts
      PROVE  IsPart(parts[j]) /\ parts[j].is = before.parts[j].is
  <2> DEFINE part == after.parts[j]
             text == Transform(name, part.text)
  <2>1. DOMAIN part = {"is", "text", "marked"} /\ part.is = before.parts[j].is
    BY <1>1 DEF IsPart
  <2>2. parts[j] = IF part.is = is THEN [part EXCEPT !.text = text] ELSE part
    BY <1>1 DEF RewriteParts
  <2> HIDE DEF part, text, parts
  <2>3. DOMAIN [part EXCEPT !.text = text] = DOMAIN part /\ [part EXCEPT !.text = text].is = part.is
    BY <2>1
  <2> QED BY <2>1, <2>2, <2>3 DEF IsPart
<1> HIDE DEF parts
<1>4. DOMAIN turn = {"role", "parts"} /\ turn.role = before.role /\ turn.parts = parts
  BY <1>1
<1> HIDE DEF turn
<1>5. SameTurn(told, before, turn)
  BY <1>2, <1>3, <1>4 DEF SameTurn
<1>6. turn = [after EXCEPT !.parts = RewriteParts(name, @, is)]
  BY DEF turn, parts
<1> QED BY <1>5, <1>6

\* A request has its own turns and tools.
LEMMA ItsOwn ==
  ASSUME NEW c, IsACall(c)
  PROVE  SameTurns(c.body, c.body) /\ SameTools(c.body, c.body)
<1>1. Shape(c.body, c.body) /\ c.body.tools \in Seq(ToSet(c.body.tools))
  BY DEF IsACall, Shape
<1>2. ASSUME NEW i \in DOMAIN c.body.turns
      PROVE  SameTurn(c.body, c.body.turns[i], c.body.turns[i])
  <2> DEFINE turn == c.body.turns[i]
  <2>0. DOMAIN turn = {"role", "parts"}
    BY TurnsOfACall
  <2>1. \A j \in DOMAIN turn.parts : IsPart(turn.parts[j])
    BY TurnsOfACall
  <2> HIDE DEF turn
  <2>2. SameTurn(c.body, turn, turn)
    BY <2>0, <2>1 DEF SameTurn
  <2> QED BY <2>2 DEF turn
<1> QED BY <1>1, <1>2 DEF SameTurns, SameTools

\* A strategy keeps the turns and the tools.
LEMMA TurnsStay ==
  ASSUME NEW name, NEW b, NEW c, IsACall(c), SameTurns(b, c.body), SameTools(b, c.body)
  PROVE  SameTurns(Apply(name, b), c.body) /\ SameTools(Apply(name, b), c.body)
<1> DEFINE told == c.body
           Kept(x) == (\A i \in DOMAIN told.turns : SameTurn(told, told.turns[i], x.turns[i]))
                      /\ SameTools(x, told)
<1>1. Shape(b, told) /\ Kept(b)
  BY DEF SameTurns
<1>2. /\ DOMAIN b.turns = DOMAIN told.turns /\ b.api = told.api
      /\ DOMAIN b = {"api", "plain", "system", "turns", "tools"}
  BY <1>1 DEF Shape, Nobody
<1>3. \A i \in DOMAIN told.turns :
        RoleIn(b, b.turns[i]) = RoleIn(told, told.turns[i])
        /\ SameTurn(told, told.turns[i], b.turns[i])
  BY <1>1, <1>2 DEF SameTurn, RoleIn
<1>4. Kept(Marked(b))
  <2>1. CASE Marked(b) = b
    BY <1>1, <2>1
  <2>2. CASE Marked(b) # b
    <3> DEFINE texts == {i \in DOMAIN b.system : b.system[i].is = "text"}
    <3>1. Marked(b) = [b EXCEPT !.plain = FALSE, !.system[Max(texts)].marked = TRUE]
      BY <2>2 DEF Marked
    <3> HIDE DEF texts
    <3> DEFINE after == [b EXCEPT !.plain = FALSE, !.system[Max(texts)].marked = TRUE]
    <3>2. after.turns = b.turns /\ after.tools = b.tools
      BY <1>2
    <3> HIDE DEF after
    <3>3. Kept(after)
      BY <1>1, <3>2 DEF SameTools
    <3> QED BY <3>1, <3>3 DEF after
  <2> QED BY <2>1, <2>2
<1>5. ASSUME NEW turns, NEW system,
             \A i \in DOMAIN told.turns : SameTurn(told, told.turns[i], turns[i])
      PROVE  Kept([b EXCEPT !.system = system, !.turns = turns])
             /\ Kept([b EXCEPT !.turns = turns])
  <2> DEFINE one == [b EXCEPT !.system = system, !.turns = turns]
             two == [b EXCEPT !.turns = turns]
  <2>1. one.turns = turns /\ one.tools = b.tools /\ two.turns = turns /\ two.tools = b.tools
    BY <1>2
  <2> HIDE DEF one, two
  <2>2. Kept(one) /\ Kept(two)
    BY <1>1, <1>5, <2>1 DEF SameTools
  <2> QED BY <2>2 DEF one, two
<1>6. Kept([b EXCEPT !.turns = ToolOutput(b)])
  <2> DEFINE turns == ToolOutput(b)
  <2>1. ASSUME NEW i \in DOMAIN told.turns
        PROVE  SameTurn(told, told.turns[i], turns[i])
    <3> DEFINE before == told.turns[i]
               after == b.turns[i]
    <3>1. turns[i] = IF b.api = "responses" THEN after
                     ELSE [after EXCEPT !.parts = RewriteParts("tool_result_trim", @, "tool_result")]
      BY <1>2 DEF ToolOutput
    <3>2. SameTurn(told, before, after)
      BY <1>3
    <3>3. CASE RoleIn(told, before) # "assistant"
      <4> HIDE DEF before, after, turns
      <4> QED BY <3>1, <3>2, <3>3, PartsStay DEF before
    <3>4. CASE RoleIn(told, before) = "assistant"
      <4>1. after = before
        BY <3>2, <3>4 DEF SameTurn
      <4>2. /\ before = [role |-> before.role, parts |-> before.parts]
            /\ before.parts = [j \in DOMAIN before.parts |-> before.parts[j]]
        BY TurnsOfACall
      <4>3. RoleIn(told, before) = "assistant" => NoOutput(before)
        BY TurnsOfACall
      <4> HIDE DEF before, after, turns
      <4>4. RewriteParts("tool_result_trim", before.parts, "tool_result") = before.parts
        BY <3>4, <4>2, <4>3 DEF RewriteParts, NoOutput
      <4>5. [before EXCEPT !.parts = RewriteParts("tool_result_trim", @, "tool_result")] = before
        <5>1. [before EXCEPT !.parts = before.parts] = before
          BY <4>2
        <5> QED BY <4>4, <5>1
      <4>6. turns[i] = after
        BY <3>1, <4>1, <4>5
      <4> QED BY <3>2, <4>6 DEF before
    <3> QED BY <3>3, <3>4
  <2> HIDE DEF turns
  <2>2. Kept([b EXCEPT !.turns = turns])
    BY <1>5, <2>1
  <2> QED BY <2>2 DEF turns
<1>7. ASSUME name \in DOMAIN Roles PROVE Kept(Rewrite(name, b, Roles[name]))
  <2> DEFINE roles == Roles[name]
  <2>1. "assistant" \notin roles
    BY <1>7 DEF Roles
  <2> HIDE DEF roles
  <2>2. CASE b.api = "responses"
    <3>1. Rewrite(name, b, roles) = b
      BY <2>2 DEF Rewrite
    <3> QED BY <1>1, <3>1 DEF roles
  <2>3. CASE b.api # "responses"
    <3> DEFINE turns == RewriteTurns(name, b, roles)
               system == IF "system" \in roles THEN RewriteParts(name, b.system, "text") ELSE b.system
    <3>1. ASSUME NEW i \in DOMAIN told.turns
          PROVE  SameTurn(told, told.turns[i], turns[i])
      <4> DEFINE before == told.turns[i]
                 after == b.turns[i]
      <4>1. turns[i] = IF RoleIn(b, after) \in roles
                       THEN [after EXCEPT !.parts = RewriteParts(name, @, "text")] ELSE after
        BY <1>2 DEF RewriteTurns
      <4>2. SameTurn(told, before, after) /\ RoleIn(b, after) = RoleIn(told, before)
        BY <1>3
      <4> HIDE DEF before, after, turns
      <4>3. CASE RoleIn(b, after) \in roles
        BY <2>1, <4>1, <4>2, <4>3, PartsStay DEF before
      <4>4. CASE RoleIn(b, after) \notin roles
        BY <4>1, <4>2, <4>4 DEF before
      <4> QED BY <4>3, <4>4
    <3>2. Rewrite(name, b, roles) = [b EXCEPT !.system = system, !.turns = turns]
      <4>1. Rewrite(name, b, roles) =
              [b EXCEPT !.system = IF "system" \in roles THEN RewriteParts(name, @, "text") ELSE @,
                        !.turns = RewriteTurns(name, b, roles)]
        BY <2>3 DEF Rewrite
      <4> QED BY <4>1
    <3> HIDE DEF turns, system
    <3>3. Kept([b EXCEPT !.system = system, !.turns = turns])
      BY <1>5, <3>1
    <3> QED BY <3>2, <3>3 DEF roles
  <2> QED BY <2>2, <2>3
<1>8. Kept([b EXCEPT !.tools = Distinct(@)])
  <2> DEFINE tools == Distinct(b.tools)
             after == [b EXCEPT !.tools = tools]
             S == ToSet(told.tools)
  <2>1. b.tools \in Seq(S) /\ ToSet(b.tools) = S
    BY <1>1 DEF SameTools
  <2> HIDE DEF S
  <2>2. tools \in Seq(S) /\ ToSet(tools) = S
    BY <2>1, DistinctKeeps
  <2> HIDE DEF tools
  <2>3. after.turns = b.turns /\ after.tools = tools
    BY <1>2
  <2> HIDE DEF after
  <2>4. Kept(after)
    BY <1>1, <2>2, <2>3 DEF SameTools, S
  <2>5. after = [b EXCEPT !.tools = Distinct(@)]
    BY DEF after, tools
  <2> QED BY <2>4, <2>5
<1>9. \/ Apply(name, b) = Marked(b)
      \/ Apply(name, b) = [b EXCEPT !.turns = ToolOutput(b)]
      \/ name \in DOMAIN Roles /\ Apply(name, b) = Rewrite(name, b, Roles[name])
      \/ Apply(name, b) = [b EXCEPT !.tools = Distinct(@)]
  BY DEF Apply
<1>10. Kept(Apply(name, b))
  <2> HIDE DEF Kept
  <2> QED BY <1>4, <1>6, <1>7, <1>8, <1>9
<1>11. Shape(Apply(name, b), told)
  BY <1>1, ShapeIsKept
<1> QED BY <1>10, <1>11 DEF SameTurns

-----------------------------------------------------------------------------
(* And no handler *)

\* As long as it parses, the request has the turns and the tools of the tool's.
TurnsInv ==
  \/ body = Nobody /\ todo = <<>>
  \/ SameTurns(body, Ask[ask].body) /\ SameTools(body, Ask[ask].body)

\* Every step keeps them; only reading and compressing change the request.
LEMMA TurnsNext == BooksInv /\ TurnsInv /\ [Next]_vars => TurnsInv'
<1> SUFFICES ASSUME BooksInv, TurnsInv, [Next]_vars PROVE TurnsInv'
  OBVIOUS
<1>1. CASE Parse
  <2>1. /\ ask' = ask /\ stage = "parsing" /\ ask \in Asks
        /\ data # Ask[ask].data => body' = Nobody /\ todo' = <<>>
        /\ data = Ask[ask].data => body' = Ask[ask].body
    BY <1>1 DEF BooksInv, Parse, settings
  <2>2. IsACall(Ask[ask])
    <3>1. Ask[ask].door # "telemetry"
      BY <2>1 DEF BooksInv
    <3> QED BY <2>1, <3>1, AnswersAre
  <2> DEFINE c == Ask[ask]
  <2>3. SameTurns(c.body, c.body) /\ SameTools(c.body, c.body)
    BY <2>2, ItsOwn
  <2> QED BY <2>1, <2>3 DEF TurnsInv
<1>2. CASE Compress1
  <2>1. /\ ask' = ask /\ stage = "compressing" /\ ask \in Asks /\ todo # <<>>
        /\ body' = body \/ body' = Apply(Head(todo), body)
    BY <1>2 DEF BooksInv, Compress1, settings
  <2>2. IsACall(Ask[ask])
    <3>1. Ask[ask].door # "telemetry"
      BY <2>1 DEF BooksInv
    <3> QED BY <2>1, <3>1, AnswersAre
  <2> DEFINE c == Ask[ask]
  <2>3. SameTurns(body, c.body) /\ SameTools(body, c.body)
    BY <2>1 DEF TurnsInv
  <2>4. SameTurns(Apply(Head(todo), body), c.body) /\ SameTools(Apply(Head(todo), body), c.body)
    BY <2>2, <2>3, TurnsStay
  <2> QED BY <2>1, <2>3, <2>4 DEF TurnsInv
<1>3. CASE UNCHANGED <<ask, body, todo>>
  BY <1>3 DEF TurnsInv
<1>4. CASE Receive \/ Close \/ Intercept \/ Tunnel \/ NoRequest \/ ReadHead \/ ReadBodyBytes
  <2>1. UNCHANGED <<ask, body, todo>>
    BY <1>4 DEF Receive, Close, Intercept, Tunnel, NoRequest, ReadHead, ReadBodyBytes, settings, request, End
  <2> QED BY <1>3, <2>1
<1>5. CASE Route \/ Respond \/ ServeRepeat \/ Fail \/ Pass
  <2>1. UNCHANGED <<ask, body, todo>>
    BY <1>5 DEF Route, Respond, ServeRepeat, Fail, Pass, settings, request, End
  <2> QED BY <1>3, <2>1
<1>6. CASE HangUp \/ Finish \/ Uncaptured \/ Capture \/ Ingest \/ UNCHANGED vars
  <2>1. UNCHANGED <<ask, body, todo>>
    BY <1>6 DEF HangUp, Finish, Uncaptured, Capture, Ingest, settings, request, vars, End
  <2> QED BY <1>3, <2>1
<1> QED BY <1>1, <1>2, <1>4, <1>5, <1>6 DEF Next

\* So they are kept in every behaviour.
LEMMA TurnsInvariance == Spec => [](BooksInv /\ TurnsInv)
<1>1. Init => BooksInv /\ TurnsInv
  BY BooksInit DEF Init, TurnsInv
<1>2. BooksInv /\ TurnsInv /\ [Next]_vars => (BooksInv /\ TurnsInv)'
  BY BooksNext, TurnsNext
<1> QED BY <1>1, <1>2, PTL DEF Spec

\* Whatever strategies are on, in whichever order and whichever of them raise, none
\* loses, adds or swaps a message or a part of one, takes a tool away, or touches a
\* word that the model said before (_rewrite, _tool_result_trim: "it never touches
\* the instructions or the answer", _slim_tools).
THEOREM TurnsAreAlwaysKept == Spec => []TurnsAreKept
<1>1. TurnsInv => TurnsAreKept
  BY DEF TurnsInv, TurnsAreKept, SameTurns, SameTurn, SameTools, Shape
<1> QED BY <1>1, TurnsInvariance, PTL
==============================================================================
