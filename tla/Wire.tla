-------------------------------- MODULE Wire --------------------------------
(***************************************************************************)
(* How the providers tell what they answered and what it cost, and how     *)
(* adapters.py and otel_ingest.py read it.  Everything here is an operator.*)
(*                                                                         *)
(* A frame is one decoded data line of a stream: [is, text, usage, stop,   *)
(* model], with None for what it does not tell; a body that is not         *)
(* streamed is one frame.  A piece of text is its number of characters.    *)
(* A frame that was cut in two does not decode and is skipped, which is as *)
(* if it had not come.                                                     *)
(***************************************************************************)
EXTENDS Compress

CONSTANT None

NoUsage == [input |-> 0, output |-> 0, read |-> 0, written |-> 0]

-----------------------------------------------------------------------------
(* Requests *)

\* What is read of some parts: the characters of those of these kinds.
Content(parts, kinds) ==
  FoldSeq(LAMBDA p, n : Chars(p.text) + n, 0, SelectSeq(parts, LAMBDA p : p.is \in kinds))
Turns(body, kinds) ==
  [i \in DOMAIN body.turns |->
     [role |-> RoleIn(body, body.turns[i]), chars |-> Content(body.turns[i].parts, kinds)]]
\* The system prompt is a message in front of the others, if there is one.
WithSystem(body, turns) ==
  LET system == [role |-> "system", chars |-> Content(body.system, {"text"})]
  IN IF system.chars = 0 THEN turns ELSE <<system>> \o turns

\* parse_*_request: what a tool answered is the content of a message in OpenAI's
\* chats alone.
AnthropicMessages(body) == WithSystem(body, Turns(body, {"text"}))
OpenAiMessages(body) == Turns(body, {"text", "tool_result"})
ResponsesMessages(body) == WithSystem(body, Turns(body, {"text"}))
GeminiMessages(body) == WithSystem(body, Turns(body, {"text"}))

Messages(body) ==
  CASE body.api = "openai" -> OpenAiMessages(body)
    [] body.api = "responses" -> ResponsesMessages(body)
    [] body.api = "google" -> GeminiMessages(body)
    [] OTHER -> AnthropicMessages(body)

\* input_text(), joined by new lines
InputChars(messages) ==
  LET said == SelectSeq(messages, LAMBDA m : m.chars > 0)
  IN Less(FoldSeq(LAMBDA m, n : m.chars + 1 + n, 0, said), 1)

-----------------------------------------------------------------------------
(* Answers *)

\* mutant: the cached part of the prompt is counted with the rest of it
Whole(u) == [input |-> u.prompt, output |-> u.output, read |-> u.cached, written |-> 0]
\* OpenAI, Responses and Gemini count cached tokens in the prompt.
Split(u) == [input |-> Less(u.prompt, u.cached), output |-> u.output, read |-> u.cached, written |-> 0]
\* Anthropic does not.
AsTold(u) == [input |-> u.prompt, output |-> u.output, read |-> u.cached, written |-> u.written]

Nothing == [text |-> <<>>, usage |-> NoUsage, stops |-> <<>>, model |-> None, told |-> FALSE]

Stopped(stops, f) == IF f.stop = None THEN stops ELSE Append(stops, f.stop)
Model(model, f) == IF f.model = None THEN model ELSE f.model

\* parse_anthropic_stream: the input from the first frame, the output, which is
\* cumulative, from the last.
AnthropicFrame(s, f) ==
  CASE f.is = "start" -> [s EXCEPT !.usage = [AsTold(f.usage) EXCEPT !.output = 0],
                                   !.model = Model(@, f)]
    [] f.is = "text" -> [s EXCEPT !.text = @ \o f.text]
    [] f.is = "end" -> [s EXCEPT !.usage.output = f.usage.output, !.stops = Stopped(@, f)]
    [] OTHER -> s

\* parse_openai_stream: any frame may have any of it, the usage its last one if at all.
OpenAiFrame(s, f) ==
  [text |-> s.text \o f.text,
   usage |-> IF f.usage = None THEN s.usage ELSE Split(f.usage),
   stops |-> Stopped(s.stops, f),
   model |-> Model(s.model, f),
   told |-> s.told \/ f.usage # None]

\* parse_gemini_stream: so may they here, and the last usage wins.
GeminiFrame(s, f) ==
  [s EXCEPT !.text = @ \o f.text, !.stops = Stopped(@, f), !.model = Model(@, f),
            !.usage = IF f.usage = None THEN @ ELSE Split(f.usage)]

\* parse_responses_stream: the deltas, and the whole answer at the end, whose
\* text counts when there were no deltas.
ResponsesFrame(s, f) ==
  CASE f.is = "text" -> [s EXCEPT !.text = @ \o f.text]
    [] f.is = "end" ->
         [s EXCEPT !.text = IF @ = <<>> THEN f.text ELSE @,
                   !.usage = IF f.usage = None THEN @ ELSE Split(f.usage),
                   !.stops = Stopped(@, f), !.model = Model(@, f)]
    [] OTHER -> s

ReadFrame(api, s, f) ==
  CASE api = "anthropic" -> AnthropicFrame(s, f)
    [] api = "responses" -> ResponsesFrame(s, f)
    [] api = "google" -> GeminiFrame(s, f)
    [] OTHER -> OpenAiFrame(s, f)
ReadStream(api, frames) == FoldLeft(LAMBDA s, f : ReadFrame(api, s, f), Nothing, frames)

\* parse_*_body: an answer in one piece; a refusal has no usage.
InOnePiece(f, usage) ==
  [text |-> f.text, told |-> TRUE, usage |-> usage, stops |-> Stopped(<<>>, f), model |-> f.model]
AnthropicBody(f) == InOnePiece(f, IF f.usage = None THEN NoUsage ELSE AsTold(f.usage))
OpenAiBody(f) == InOnePiece(f, IF f.usage = None THEN NoUsage ELSE Split(f.usage))
ResponsesBody(f) == InOnePiece(f, IF f.usage = None THEN NoUsage ELSE Split(f.usage))
GeminiBody(f) == InOnePiece(f, IF f.usage = None THEN NoUsage ELSE Split(f.usage))

ReadBody(api, f) ==
  CASE api = "anthropic" -> AnthropicBody(f)
    [] api = "responses" -> ResponsesBody(f)
    [] api = "google" -> GeminiBody(f)
    [] OTHER -> OpenAiBody(f)

\* build_event: what was not told is estimated and flagged.
BuildEvent(api, body, model, streamed, frames) ==
  LET messages == Messages(body)
      answer == IF streamed THEN ReadStream(api, frames) ELSE ReadBody(api, Head(frames))
      words == FoldSeq(+, 0, answer.text)
      usage == answer.usage
      noUsage == streamed /\ api = "openai" /\ ~answer.told
      noOutput == streamed /\ words > 0 /\ usage.output = 0
      noInput == streamed /\ usage.input = 0 /\ usage.read = 0 /\ messages # <<>>
  IN [model |-> IF model = None THEN answer.model ELSE model,
      words |-> words,
      usage |-> [usage EXCEPT !.input = IF noInput THEN Estimate(InputChars(messages)) ELSE @,
                              !.output = IF noOutput THEN Estimate(words) ELSE @],
      estimated |-> noUsage \/ noOutput \/ noInput]

-----------------------------------------------------------------------------
(* The same exchange as the providers tell it.  bill is what is charged:   *)
(* [input, output, read, written]; words are the pieces of the answer.     *)

Frame(is, text, usage, stop, model) ==
  [is |-> is, text |-> text, usage |-> usage, stop |-> stop, model |-> model]

\* The usage that an API reports of a bill, with so much output so far.
Reported(api, bill, output) ==
  [prompt |-> bill.input + (IF api = "anthropic" THEN 0 ELSE bill.read),
   cached |-> bill.read, written |-> bill.written, output |-> output]

\* A streamed answer; asked says whether include_usage was set.
Stream(api, model, bill, words, asked) ==
  LET Text(i) == Frame("text", <<words[i]>>,
                       IF api = "google" THEN Reported(api, bill, Min({i, bill.output})) ELSE None,
                       None, IF api \in {"openai", "google"} THEN model ELSE None)
      texts == [i \in DOMAIN words |-> Text(i)]
      total == Reported(api, bill, bill.output)
  IN CASE api = "anthropic" -> <<Frame("start", <<>>, Reported(api, bill, 1), None, model)>> \o texts
                                 \o <<Frame("end", <<>>, total, "stop", None)>>
       [] api = "responses" -> texts \o <<Frame("end", words, total, "stop", model)>>
       [] api = "openai" -> texts \o <<Frame("end", <<>>, None, "stop", model)>>
                              \o (IF asked THEN <<Frame("usage", <<>>, total, None, model)>> ELSE <<>>)
       [] api = "google" -> texts \o <<Frame("end", <<>>, total, "stop", model)>>

OneBody(api, model, bill, words) ==
  <<Frame("body", words, Reported(api, bill, bill.output), "stop", model)>>

-----------------------------------------------------------------------------
(* Telemetry *)

\* events_from_otlp.  An export carries one signal: traces, or logs.  An item
\* has the attributes of the GenAI conventions, or those of Claude Code, whose
\* api_request events alone are read; its metric repeats the numbers.
GenAi(item) == item.speaks = "gen_ai"
ClaudeCode(item) == item.speaks = "claude_code" /\ item.event = "api_request" /\ item.usage # None

Event(item) ==
  [model |-> item.model, words |-> item.words, estimated |-> FALSE,
   usage |-> IF item.usage = None THEN NoUsage ELSE AsTold(item.usage)]
Events(export) ==
  LET Speaks(item) == GenAi(item) \/ (export.signal = "logs" /\ ClaudeCode(item))
      read == {i \in DOMAIN export.items : export.signal # "metrics" /\ Speaks(export.items[i])}
      Nth(n) == CHOOSE i \in read : Cardinality({j \in read : j <= i}) = n
  IN [n \in 1..Cardinality(read) |-> Event(export.items[Nth(n)])]
=============================================================================
