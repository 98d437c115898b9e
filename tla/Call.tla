-------------------------------- MODULE Call --------------------------------
(***************************************************************************)
(* One call of a tool, from the bytes the tool sends to the usage that is  *)
(* recorded: _Handler and _Forwarder in forward_proxy.py, _proxy in        *)
(* gateway.py, and what they use: the compression, the router, the         *)
(* adapters and the price table.  Or telemetry of a tool that reports its  *)
(* calls itself.  The exact-match cache, where calls meet, is in Gateway;  *)
(* what becomes of a captured call is in Edge.                             *)
(*                                                                         *)
(* Bytes are atoms: "crlf" is a line end, a digit the last one of a size   *)
(* (data has no sizes), everything else is content.  TCP delivers them in  *)
(* any pieces.  The gateway's server reads requests whole.                 *)
(***************************************************************************)
EXTENDS Pricing, TLC

CONSTANTS
  Asks,         \* the calls, one of which is made
  Ask,          \* call -> [door, host, path, framing, data, body, model, hints,
                \*          streamed, asked, answers, bill, words, exports]
  Specs,        \* what ABEN_COMPRESS may be
  Modes,        \* what ABEN_ROUTE may be: "off", "shadow", "on"
  MaxCaptured,  \* frames that fit in the capture buffer
  AiHosts,      \* AI_HOSTS
  Codings,      \* content codings a provider may use though it is asked not to
  Codecs        \* those the gateway can decode: brotli is optional

Nobody == [api |-> "none", plain |-> TRUE, system |-> <<>>, turns |-> <<>>, tools |-> <<>>]

\* What a call of a model is: it has a message; a tool's output is in no message of
\* the model's own (compress: "in a user message"); whether the answer is streamed
\* is in the body, but in the Gemini API; and the provider charges for what it says.
IsACall(c) ==
  /\ c.body.api \in DOMAIN CheapModel \cap {"anthropic", "openai", "responses", "google"}
  /\ DOMAIN c.body = DOMAIN Nobody
  /\ c.body.turns # <<>> /\ c.body.turns \in Seq(ToSet(c.body.turns))
  /\ c.body.tools \in Seq(ToSet(c.body.tools))
  /\ \A turn \in ToSet(c.body.turns) :
       /\ turn \in [role : STRING, parts : Seq(ToSet(turn.parts))]
       /\ \A part \in ToSet(turn.parts) :
            /\ part \in [is : STRING, text : {part.text}, marked : BOOLEAN]
            /\ RoleIn(c.body, turn) = "assistant" => part.is # "tool_result"
  /\ c.streamed \in BOOLEAN /\ c.asked \in BOOLEAN
  /\ c.body.api # "google" => (c.streamed <=> "stream" \in ToSet(c.data))
  /\ c.words \in Seq(Nat)
  /\ c.bill.output = 0 => FoldSeq(+, 0, c.words) = 0
  /\ c.body.api # "anthropic" => c.bill.written = 0
  /\ \A n \in 0..(c.bill.output + 1) : Reported(c.body.api, c.bill, n) # None

\* What a tool tells itself: one item of one of its exports is of a call.
TellsOnce(c) ==
  LET Item(k) == c.exports[k[1]].items[k[2]]
      places == UNION {{i} \X DOMAIN c.exports[i].items : i \in DOMAIN c.exports}
      ofCalls == {k \in places :
        /\ c.exports[k[1]].signal # "metrics"
        /\ \/ Item(k).speaks = "gen_ai"
           \/ Item(k).speaks = "claude_code" /\ Item(k).event = "api_request"}
  IN /\ c.exports \in Seq(ToSet(c.exports))
     /\ \A e \in ToSet(c.exports) : e.items \in Seq(ToSet(e.items))
     /\ \E k \in places :
          /\ ofCalls = {k}
          /\ Item(k).speaks = "claude_code" => c.exports[k[1]].signal = "logs"
          /\ Item(k).usage # None /\ AsTold(Item(k).usage) = c.bill

ASSUME CallAssumption ==
  /\ MaxCaptured \in Nat
  /\ None \notin Strong /\ \A api \in DOMAIN CheapModel : CheapModel[api] # None
  /\ \A a \in Asks :
       /\ Ask[a].data \in Seq(STRING) /\ Ask[a].framing \in {"length", "chunked"}
       /\ Ask[a].bill \in [input : Nat, output : Nat, read : Nat, written : Nat]
       /\ \/ Ask[a].door \in {"proxy", "gateway"} /\ IsACall(Ask[a])
          \/ Ask[a].door = "telemetry" /\ TellsOnce(Ask[a])

VARIABLES
  ask,       \* the call
  spec,      \* of the compression
  mode,      \* of the router
  stage,     \* what the handler is about to do, or how the call ended
  inbox,     \* bytes the tool sent that were not received
  bytes,     \* bytes that were received of what is being read
  gone,      \* the tool has closed the connection
  data,      \* the body of the request, as it was read
  body,      \* the parsed request, as it will be sent
  todo,      \* strategies still to run
  saved,     \* strategy -> input tokens it removed; those that were applied
  model,     \* the model that will be asked
  route,     \* what the router decided: [from, to], or None
  frames,    \* frames the provider has still to send
  captured,  \* those that were captured
  coding,    \* the content coding of what was captured
  repeated,  \* the answer came from the exact-match cache
  records    \* what is recorded of the call

settings == <<ask, spec, mode>>
request == <<body, todo, saved, model, route>>
reading == <<inbox, bytes, gone, data>>
answered == <<coding, repeated>>
answering == <<frames, captured, answered, records>>
vars == <<settings, stage, reading, request, answering>>

\* The bytes of the two heads, and of a body; a chunked one in chunks of one atom.
ConnectBytes == <<"CONNECT host", "crlf", "Host: host", "crlf", "crlf">>
HeadBytes == <<"POST path", "crlf", "headers", "crlf", "crlf">>
LastChunk == <<"0", "crlf", "crlf">>
Chunked(d) ==
  [i \in 1..(4 * Len(d)) |-> CASE i % 4 = 1 -> "1"
                               [] i % 4 = 3 -> d[(i + 1) \div 4]
                               [] OTHER -> "crlf"] \o LastChunk
BodyBytes(a) == IF Ask[a].framing = "chunked" THEN Chunked(Ask[a].data) ELSE Ask[a].data

Init ==
  /\ ask \in Asks
  /\ spec \in Specs
  /\ mode \in Modes
  /\ stage = CASE Ask[ask].door = "proxy" -> "connecting"
              [] Ask[ask].door = "gateway" -> "parsing"
              [] Ask[ask].door = "telemetry" -> "telling"
  /\ inbox = IF Ask[ask].door = "proxy" THEN ConnectBytes ELSE <<>>
  /\ data = IF Ask[ask].door = "proxy" THEN <<>> ELSE Ask[ask].data
  /\ bytes = <<>>
  /\ gone = FALSE
  /\ body = Nobody
  /\ todo = <<>>
  /\ saved = [s \in {} |-> 0]
  /\ model = None
  /\ route = None
  /\ frames = Ask[ask].exports
  /\ captured = <<>>
  /\ coding = "identity" /\ repeated = FALSE
  /\ records = <<>>

-----------------------------------------------------------------------------
(* Reading, in the forward proxy *)

Has(sequence, pattern) ==
  \E i \in DOMAIN sequence :
    i + Len(pattern) - 1 <= Len(sequence) /\ SubSeq(sequence, i, i + Len(pattern) - 1) = pattern

BlankLine == <<"crlf", "crlf">>

\* mutant: what one recv returned is all there is
SomeBytes(a) == bytes # <<>>
\* Whether the body has been read, as its framing tells.
BodyIsRead(a) ==
  CASE Ask[a].framing = "length" -> Len(bytes) >= Len(Ask[a].data)
    [] Ask[a].framing = "chunked" -> Has(bytes, LastChunk)

\* The condition of the loop that calls recv.
Waiting ==
  \/ stage = "connecting" /\ ~Has(bytes, <<"crlf">>)
  \/ stage = "head" /\ ~Has(bytes, BlankLine)
  \/ stage = "body" /\ ~BodyIsRead(ask)

\* recv
Receive ==
  /\ Waiting
  /\ \E n \in 1..Len(inbox) :
       /\ bytes' = bytes \o SubSeq(inbox, 1, n)
       /\ inbox' = SubSeq(inbox, n + 1, Len(inbox))
  /\ UNCHANGED <<settings, stage, gone, data, request, answering>>

\* The tool closes the connection; what it had not sent yet will not come.
Close ==
  /\ stage \in {"head", "body"}
  /\ ~gone
  /\ gone' = TRUE
  /\ inbox' = <<>>
  /\ UNCHANGED <<settings, stage, bytes, data, request, answering>>

End(how) ==
  /\ stage' = how
  /\ UNCHANGED <<settings, reading, request, answering>>

\* _Handler.handle: the first line was read.  What is left of the head is read as
\* the beginning of the tool's TLS, which fails.
Intercept ==
  /\ stage = "connecting" /\ ~Waiting
  /\ Ask[ask].host \in AiHosts
  /\ IF inbox # <<>> THEN End("broken")
     ELSE /\ stage' = "head"
          /\ bytes' = <<>>
          /\ inbox' = HeadBytes \o BodyBytes(ask)
          /\ UNCHANGED <<settings, gone, data, request, answering>>

\* Every other host is tunnelled, unread.
Tunnel ==
  /\ stage = "connecting" /\ ~Waiting
  /\ Ask[ask].host \notin AiHosts
  /\ End("tunnelled")

\* recv returned nothing: without a head there is no request.
NoRequest == stage = "head" /\ Waiting /\ gone /\ End("broken")

\* The head is there, and what came with it is the beginning of the body.
ReadHead ==
  /\ stage = "head" /\ ~Waiting
  /\ stage' = "body"
  /\ bytes' = SubSeq(bytes, Len(HeadBytes) + 1, Len(bytes))
  /\ UNCHANGED <<settings, inbox, gone, data, request, answering>>

\* _dechunk: what comes before a size of zero, or one that is not there or no number.
Dechunk(chunks) ==
  LET Sized(n) == \A k \in 1..n : 4 * k - 1 <= Len(chunks) /\ chunks[4 * k - 3] = "1"
      n == Max({m \in 0..Len(chunks) : Sized(m)})
  IN [k \in 1..n |-> chunks[4 * k - 1]]

\* The body was read, or the tool has gone and what there is of it is the body.
ReadBodyBytes ==
  /\ stage = "body"
  /\ ~Waiting \/ gone
  /\ stage' = "parsing"
  /\ data' = IF Ask[ask].framing = "chunked" THEN Dechunk(bytes) ELSE bytes
  /\ UNCHANGED <<settings, inbox, bytes, gone, request, answering>>

-----------------------------------------------------------------------------
(* The request *)

\* _is_model_path; every route of the gateway is one.
IsModelCall == Ask[ask].path = "model"

\* What does not parse is forwarded as it is, and is empty for everything else.
Parse ==
  /\ stage = "parsing"
  /\ LET parses == data = Ask[ask].data
     IN /\ body' = IF parses THEN Ask[ask].body ELSE Nobody
        /\ model' = IF parses THEN Ask[ask].model ELSE None
        /\ todo' = IF parses /\ IsModelCall THEN Enabled(spec) ELSE <<>>
  /\ stage' = "compressing"
  /\ UNCHANGED <<settings, reading, saved, route, answering>>

\* compress_request: one strategy; one that raises is skipped.
Compress1 ==
  /\ stage = "compressing"
  /\ todo # <<>>
  /\ todo' = Tail(todo)
  /\ \/ UNCHANGED <<body, saved>>
     \/ LET after == Apply(Head(todo), body)
        IN /\ after # body
           /\ body' = after
           /\ saved' = (Head(todo) :> Less(Tokens(body), Tokens(after))) @@ saved
  /\ UNCHANGED <<settings, stage, reading, model, route, answering>>

\* The router: an easy call goes to the cheaper model, or would.
Route ==
  /\ stage = "compressing"
  /\ todo = <<>>
  /\ LET target == IF mode # "off" /\ IsModelCall
                   THEN Target(body, model, Ask[ask].hints) ELSE None
     IN /\ route' = IF target = None THEN None ELSE [from |-> model, to |-> target]
        /\ model' = IF mode = "on" /\ target # None THEN target ELSE model
  /\ stage' = "sending"
  /\ UNCHANGED <<settings, reading, body, todo, saved, answering>>

-----------------------------------------------------------------------------
(* The answer *)

\* The Gemini API has it in the path that the answer is streamed.
Streamed == IF Ask[ask].body.api = "google" THEN Ask[ask].streamed ELSE "stream" \in ToSet(data)

\* The model that answers, which the body names but in the Gemini API.
Answering == IF model = None THEN Ask[ask].answers ELSE model

\* external: the whole answer, or a refusal, as of every body that does not parse.
Answer(a) ==
  IF Ask[a].streamed
  THEN Stream(Ask[a].body.api, Answering, Ask[a].bill, Ask[a].words, Ask[a].asked)
  ELSE OneBody(Ask[a].body.api, Answering, Ask[a].bill, Ask[a].words)
Refusal == <<Frame("error", <<>>, None, None, None)>>

Respond ==
  /\ stage = "sending"
  /\ stage' = "streaming"
  /\ coding' \in Codings
  /\ \/ frames' = Refusal
     \/ body # Nobody /\ frames' = Answer(ask)
  /\ UNCHANGED <<settings, reading, request, captured, repeated, records>>

\* The same was asked, and answered whole, before: Gateway has when it counts as
\* the same.  The gateway stored the answer decoded, the proxy as it came.
ServeRepeat ==
  /\ stage = "sending"
  /\ ~Streamed /\ IsModelCall /\ body # Nobody
  /\ stage' = "capturing"
  /\ captured' = Answer(ask)
  /\ coding' \in IF Ask[ask].door = "gateway" THEN (Codings \ Codecs) \cup {"identity"} ELSE Codings
  /\ repeated' = TRUE
  /\ UNCHANGED <<settings, reading, request, frames, records>>

\* It cannot be reached, or breaks off: 502 or 504, and nothing is captured.
Fail == stage \in {"sending", "streaming"} /\ End("failed")

\* A frame goes to the tool, and into the buffer as long as there is room.
Pass ==
  /\ stage = "streaming"
  /\ frames # <<>>
  /\ frames' = Tail(frames)
  /\ captured' = IF Len(captured) < MaxCaptured THEN Append(captured, Head(frames)) ELSE captured
  /\ UNCHANGED <<settings, stage, reading, request, answered, records>>

\* The tool hangs up: the proxy forgets the call, the gateway captures what
\* there is, or does not, with a server of a later ASGI version.
HangUp ==
  /\ stage = "streaming"
  /\ \/ End("failed")
     \/ Ask[ask].door = "gateway" /\ End("capturing")

Finish == stage = "streaming" /\ frames = <<>> /\ End("capturing")

\* _decode_body, of an answer that fits in the buffer.  The proxy does not call it.
Legible ==
  \/ coding = "identity"
  \/ Ask[ask].door = "gateway" /\ coding \in Codecs /\ Len(captured) < MaxCaptured
Read == IF Legible THEN captured ELSE <<>>

\* A call of the proxy that is not to a model is not captured, and a capture of
\* which there is no body to parse is lost.
Uncaptured ==
  /\ stage = "capturing"
  /\ ~IsModelCall \/ (~Streamed /\ Read = <<>>)
  /\ End("ended")

\* What the strategies that are off would save of the request that was sent.
Shadow ==
  LET Saves(s) == Less(Tokens(body), Tokens(Apply(s, body)))
      off == {s \in RewritesPrompt \ ToSet(Enabled(spec)) : Saves(s) > 0}
  IN [s \in off |-> Saves(s)]

Record(event) ==
  [model |-> event.model, usage |-> event.usage, words |-> event.words,
   estimated |-> event.estimated, cost |-> CostUsd(event.model, event.usage)]

\* Nothing is billed for a repeat: what it would have read is saved.
Free(record) ==
  [record EXCEPT !.usage = NoUsage, !.cost = [total |-> 0, priced |-> TRUE]]

\* Which model was to be asked, which one was or could have been, and what that
\* saves or would.
Unrouted == [from |-> None, to |-> None, realized |-> 0, shadow |-> 0]
Routed(decision, usage) ==
  LET saves == SavingUsd(decision.from, decision.to, usage)
  IN [from |-> decision.from, to |-> decision.to,
      realized |-> IF mode = "on" THEN saves ELSE 0,
      shadow |-> IF mode = "on" THEN 0 ELSE saves]

\* mutant: a repeat is put on the record with the usage that it repeats
Counted(record, tokens) ==
  [record |-> record,
   saved |-> IF repeated THEN tokens.input ELSE FoldFunction(+, 0, saved),
   shadow |-> IF repeated THEN <<>> ELSE Shadow,
   route |-> IF route = None THEN Unrouted ELSE Routed(route, record.usage)]
\* The facts of compression and routing are put on the record.  The gateway
\* leaves out the decision of a repeat.
Facts(record, tokens) ==
  LET kept == IF repeated THEN Free(record) ELSE record
  IN [record |-> kept,
      saved |-> IF repeated THEN tokens.input ELSE FoldFunction(+, 0, saved),
      shadow |-> IF repeated THEN <<>> ELSE Shadow,
      route |-> IF route = None \/ (repeated /\ Ask[ask].door = "gateway")
                THEN Unrouted ELSE Routed(route, kept.usage)]

\* _capture
Capture ==
  /\ stage = "capturing" /\ IsModelCall
  /\ Streamed \/ Read # <<>>
  /\ LET event == BuildEvent(Ask[ask].body.api, body, model, Streamed, Read)
     IN records' = Append(records, Facts(Record(event), event.usage))
  /\ stage' = "ended"
  /\ UNCHANGED <<settings, reading, request, frames, captured, answered>>

\* _ingest_otlp: one of the exports of a tool that reports its calls itself.
Ingest ==
  /\ stage = "telling"
  /\ \E i \in DOMAIN frames :
       LET events == Events(frames[i])
       IN /\ records' = records \o [n \in DOMAIN events |->
             [record |-> Record(events[n]), saved |-> 0, shadow |-> <<>>, route |-> Unrouted]]
          /\ frames' = RemoveAt(frames, i)
          /\ stage' = IF frames' = <<>> THEN "told" ELSE stage
  /\ UNCHANGED <<settings, reading, request, captured, answered>>

\* _harden_inbound, at the collector: whatever the edge says, the cost and what
\* routing saves follow from the tokens and the names of the models.
Hardened(r) ==
  LET cost == CostUsd(r.record.model, r.record.usage)
      saves == SavingUsd(r.route.from, r.route.to, r.record.usage)
      realized == r.record.model = r.route.to
  IN [r EXCEPT !.record.cost = cost,
               !.route.realized = IF r.route.from # None /\ realized THEN saves ELSE 0,
               !.route.shadow = IF r.route.from # None /\ ~realized THEN saves ELSE 0]

Next ==
  \/ Receive \/ Close \/ Intercept \/ Tunnel \/ NoRequest \/ ReadHead \/ ReadBodyBytes
  \/ Parse \/ Compress1 \/ Route
  \/ Respond \/ ServeRepeat \/ Fail \/ Pass \/ HangUp \/ Finish \/ Uncaptured \/ Capture
  \/ Ingest

Spec == Init /\ [][Next]_vars

-----------------------------------------------------------------------------
(* Properties *)

\* However TCP cuts a request in pieces, a tool that stays gets the whole body of
\* it forwarded (_read_http_request: the body that came with the head, and the
\* last chunk that comes in two pieces).
RequestIsWhole ==
  stage \notin {"connecting", "head", "body", "broken", "tunnelled"} /\ ~gone
    => data = Ask[ask].data

\* What a text says: each word as often as a note tells; of the equal rows that
\* follow each other in a table, one.
Words(text) ==
  LET Said(line) ==
        IF line.form \in {"row", "cells"} THEN <<[row |-> line.says]>>
        ELSE IF line.form \in {"table", "between", "endtable", "otsl", "endotsl"} THEN <<>>
        ELSE FlattenSeq([n \in 1..line.times |-> [i \in DOMAIN line.says |-> [word |-> line.says[i]]]])
      Next1(out, said) == IF "row" \in DOMAIN said /\ out # <<>> /\ Last(out) = said
                          THEN out ELSE Append(out, said)
  IN FoldLeft(Next1, <<>>, FlattenSeq([i \in DOMAIN text |-> Said(text[i])]))

\* The text that is sent says what the tool's says, but for a middle that the text
\* says was cut.
SameText(told, sent) ==
  LET cuts == {i \in DOMAIN sent : sent[i].form = "cut"}
      cut == Min(cuts)
  IN IF cuts = {} THEN Words(sent) = Words(told)
     ELSE /\ IsPrefix(Words(SubSeq(sent, 1, cut - 1)), Words(told))
          /\ IsSuffix(Words(SubSeq(sent, cut + 1, Len(sent))), Words(told))

SameTexts(told, sent) == \A i \in DOMAIN told : SameText(told[i].text, sent[i].text)

Stamps(text) == SelectSeq(text, LAMBDA line : line.form = "stamp")
Unstamped(text) == SelectSeq(text, LAMBDA line : line.form # "stamp")

\* The same, but for the place of the stamp.
SameSystem(told, sent) ==
  /\ DOMAIN told = DOMAIN sent
  /\ \A i \in DOMAIN told :
       /\ SameText(Unstamped(told[i].text), Unstamped(sent[i].text))
       /\ Stamps(told[i].text) = Stamps(sent[i].text)

\* The parts of a request that no strategy may touch: the turns and their roles, the
\* parts of a turn and what they are, all that the model said before, and which
\* tools there are.
TurnsAreKept ==
  body # Nobody =>
    LET told == Ask[ask].body
    IN /\ ToSet(body.tools) = ToSet(told.tools)
       /\ DOMAIN body.turns = DOMAIN told.turns
       /\ \A i \in DOMAIN told.turns :
            LET before == told.turns[i]
                after == body.turns[i]
            IN /\ after.role = before.role
               /\ DOMAIN after.parts = DOMAIN before.parts
               /\ \A j \in DOMAIN before.parts : after.parts[j].is = before.parts[j].is
               /\ RoleIn(told, before) = "assistant" => after = before

\* Whatever strategies run, and whichever of them raise, the request says to the
\* model what the tool said: the same turns of the same roles, nothing that the
\* model said before changed, every user's text and tool's output with the same
\* words and counts, the same system prompt but for the place of its stamp, the
\* same tools (compress: "lossless", "the meaning is kept").  Not so: a table that
\* command_trim cut the middle of, where otsl_tables drops the note that says so.
PromptIsKept ==
  /\ TurnsAreKept
  /\ body # Nobody =>
       LET told == Ask[ask].body
       IN /\ SameSystem(told.system, body.system)
          /\ \A i \in DOMAIN told.turns :
               LET before == told.turns[i]
                   after == body.turns[i]
               IN /\ RoleIn(told, before) = "system" => SameSystem(before.parts, after.parts)
                  /\ RoleIn(told, before) \notin {"assistant", "system"} =>
                       SameTexts(before.parts, after.parts)

\* A call is on record with what the provider charges for it, priced for the
\* model that answered, in whichever API and whether streamed or not, or says
\* that its numbers are estimated (build_event: "rather than silently reporting
\* 0").  Not so: a stream of Gemini, which tells its usage as it goes, that was
\* cut off.  An answer that cannot be decoded is no exception.  What a tool tells
\* of itself, in several exports, is on record once.
SameBill ==
  LET a == Ask[ask]
      r == records[1].record
      wasAnswered == a.door # "telemetry" /\ captured # Refusal /\ body # Nobody /\ ~repeated
      charged == r.usage = a.bill /\ ~r.estimated
      mayEstimate == (a.streamed /\ (a.bill.input + a.bill.read = 0 \/ ~a.asked)) \/ ~Legible
  IN /\ stage = "ended" /\ records # <<>> /\ wasAnswered =>
          /\ captured = Answer(ask) /\ Legible => r.model = Answering
          /\ captured = Answer(ask) => charged \/ (mayEstimate /\ r.estimated)
          /\ r.words > 0 /\ a.body.api # "google" => charged \/ r.estimated
     /\ stage = "told" => Len(records) = 1 /\ r.usage = a.bill

\* The collector, which trusts the numbers of tokens and nothing else, books what
\* the developer's own copy says: the cost, and what routing saved or would have;
\* a repeat costs nothing there and saves what it would have read, and a call
\* counts as routed when the cheaper model was asked (_capture: "the collector
\* re-prices from tokens, so this costs $0 without a trusted flag").
BooksAgree ==
  \A i \in DOMAIN records :
    LET own == records[i]
        booked == Hardened(own)
    IN /\ booked.record.cost.total = own.record.cost.total
       /\ booked.route = own.route
       /\ repeated => booked.record.cost.total = 0 /\ own.saved = Ask[ask].bill.input
=============================================================================
