------------------------------ MODULE Compress ------------------------------
(***************************************************************************)
(* The compression layer (compress/__init__.py): strategies that rewrite   *)
(* the body of a request before it is forwarded.  Everything here is an    *)
(* operator; Call runs the strategies.                                     *)
(*                                                                         *)
(* A body is [api, plain, system, turns, tools].  The system prompt is a   *)
(* sequence of parts; plain when it is a single string.  A turn is [role,  *)
(* parts], a part [is, text, marked] with marked for its cache_control, a  *)
(* tool [name, marked].  The output of a tool is a part that is            *)
(* "tool_result" in every API.  A text is a sequence of lines, a line      *)
(* [form, says, times], times being more than one when a note says so.  A  *)
(* "stamp" is what the pattern of injected markers matches at the start of *)
(* a text; a date that starts a sentence is one too.                       *)
(***************************************************************************)
EXTENDS Naturals, Sequences, SequencesExt, FiniteSets, FiniteSetsExt

CONSTANTS
  Width,                            \* form of a line -> characters
  MostLines, HeadLines, TailLines,  \* 200, 120 and 40 in _trim_text
  MaxRegexInput,                    \* _MAX_REGEX_INPUT
  MinMarked,                        \* 2000 in _cache_breakpoints
  MaxCacheBreakpoints               \* _MAX_CACHE_BREAKPOINTS

ASSUME CompressAssumption ==
  /\ {MostLines, HeadLines, TailLines, MaxRegexInput, MinMarked, MaxCacheBreakpoints} \subseteq Nat
  /\ HeadLines + TailLines < MostLines

-----------------------------------------------------------------------------
(* Texts *)

Line(form, says) == [form |-> form, says |-> says, times |-> 1]

\* A note on how often a line was repeated takes nine characters.
LineChars(line) == Width[line.form] * Len(line.says) + (IF line.times > 1 THEN 9 ELSE 0)
Chars(text) ==
  IF text = <<>> THEN 0
  ELSE FoldSeq(LAMBDA line, n : LineChars(line) + n, 0, text) + Len(text) - 1

\* estimate_tokens: round(len / 4), halves to the even side, at least one.
Estimate(chars) ==
  LET quarter == chars \div 4
      up == chars % 4 = 3 \/ (chars % 4 = 2 /\ quarter % 2 = 1)
  IN IF chars = 0 THEN 0 ELSE Max({1, quarter + (IF up THEN 1 ELSE 0)})
TextTokens(text) == Estimate(Chars(text))

Solid(text) == {i \in DOMAIN text : text[i].form # "blank"}
\* strip()
Bare(text) == IF Solid(text) = {} THEN <<>> ELSE SubSeq(text, Min(Solid(text)), Max(Solid(text)))

\* _prefix_stabilize: a leading stamp goes to the end.
Stabilized(text) ==
  LET first == Min(Solid(text))
      rest == Bare(SubSeq(text, first + 1, Len(text)))
  IN IF Solid(text) = {} THEN text
     ELSE IF text[first].form # "stamp" \/ rest = <<>> THEN text
     ELSE rest \o <<Line("blank", <<>>), text[first]>>

Uncolored(text) ==
  [i \in DOMAIN text |-> [text[i] EXCEPT !.form = IF @ = "colored" THEN "prose" ELSE @]]

\* mutant: equal lines are one line, wherever they are
FoldAll(text) ==
  LET Same(a, b) == a.form = b.form /\ a.says = b.says
      Next1(out, line) == IF \E i \in DOMAIN out : Same(out[i], line) THEN out ELSE Append(out, line)
  IN FoldLeft(Next1, <<>>, text)
\* A run of identical lines is one line and a count.
Folded(text) ==
  LET Same(a, b) == a.form = b.form /\ a.says = b.says
      Next1(out, line) ==
        IF out # <<>> /\ Same(Last(out), line)
        THEN [out EXCEPT ![Len(out)].times = @ + line.times]
        ELSE Append(out, line)
  IN FoldLeft(Next1, <<>>, text)

\* A block that is still huge loses its middle.
Cut(text) ==
  LET tail == SubSeq(text, Len(text) - TailLines + 1, Len(text))
  IN IF Len(text) <= MostLines THEN text
     ELSE SubSeq(text, 1, HeadLines) \o <<Line("cut", <<"lines">>)>> \o tail

TrimText(text) == Cut(Folded(Uncolored(text)))

\* What sub() looks at: the regions from an opening line to the next closing one,
\* and the lines outside of them.
Segments(text, open, close) ==
  LET Next1(s, line) ==
        LET region == Append(s.region, line)
        IN IF (s.region = <<>> /\ line.form # open) \/ line.form = close
           THEN [out |-> Append(s.out, region), region |-> <<>>]
           ELSE [s EXCEPT !.region = region]
      end == FoldLeft(Next1, [out |-> <<>>, region |-> <<>>], text)
  IN Append(end.out, end.region)
IsRegion(segment, close) == Len(segment) > 1 /\ Last(segment).form = close

\* _otsl_table: the rows, without what is between them; unless cells are merged
\* or nothing is gained.
OtslTable(region) ==
  LET rows == SelectSeq(region, LAMBDA line : line.form = "row")
      cells == [i \in DOMAIN rows |-> Line("cells", rows[i].says)]
      compact == <<Line("otsl", <<"">>)>> \o cells \o <<Line("endotsl", <<"">>)>>
  IN IF \/ \E i \in DOMAIN region : region[i].form = "merged"
        \/ rows = <<>>
        \/ Chars(compact) >= Chars(region)
     THEN region ELSE compact

\* minify(): what does not parse, as with a note on repeats in it, stays.
Minify(region) ==
  LET items == SubSeq(region, 2, Len(region) - 1)
      data == FlattenSeq([i \in DOMAIN items |-> items[i].says])
  IN IF \E i \in DOMAIN items : items[i].times > 1 \/ items[i].form \notin {"item", "minified"}
     THEN region
     ELSE <<Head(region), Line("minified", data), Last(region)>>

Transcoded(text) ==
  LET parts == Segments(text, "table", "endtable")
  IN IF Chars(text) > MaxRegexInput THEN text
     ELSE FlattenSeq([i \in DOMAIN parts |->
            IF IsRegion(parts[i], "endtable") THEN OtslTable(parts[i]) ELSE parts[i]])
Minified(text) ==
  LET parts == Segments(text, "fence", "endfence")
  IN IF Chars(text) > MaxRegexInput THEN text
     ELSE FlattenSeq([i \in DOMAIN parts |->
            IF IsRegion(parts[i], "endfence") THEN Minify(parts[i]) ELSE parts[i]])

\* What a strategy makes of one text.
Transform(name, text) ==
  CASE name = "prefix_stabilize" -> Stabilized(text)
    [] name = "otsl_tables" -> Transcoded(text)
    [] name = "compress_json" -> Minified(text)
    [] name \in {"command_trim", "tool_result_trim"} -> TrimText(text)

-----------------------------------------------------------------------------
(* Bodies *)

\* In the Gemini API the model is "model", and every other role is taken for the
\* user's.
RoleIn(body, turn) ==
  IF body.api # "google" \/ turn.role = "system" THEN turn.role
  ELSE IF turn.role = "model" THEN "assistant" ELSE "user"

RewriteParts(name, parts, is) ==
  [i \in DOMAIN parts |->
     IF parts[i].is = is THEN [parts[i] EXCEPT !.text = Transform(name, @)] ELSE parts[i]]

RewriteTurns(name, body, roles) ==
  [i \in DOMAIN body.turns |->
     IF RoleIn(body, body.turns[i]) \in roles
     THEN [body.turns[i] EXCEPT !.parts = RewriteParts(name, @, "text")]
     ELSE body.turns[i]]

\* _rewrite over _slots, which do not know where the Responses API has its texts.
Rewrite(name, body, roles) ==
  IF body.api = "responses" THEN body
  ELSE [body EXCEPT
     !.system = IF "system" \in roles THEN RewriteParts(name, @, "text") ELSE @,
     !.turns = RewriteTurns(name, body, roles)]

\* _slim_tools
Distinct(tools) ==
  FoldLeft(LAMBDA out, t : IF t \in ToSet(out) THEN out ELSE Append(out, t), <<>>, tools)

Texts(parts, is) == SelectSeq(parts, LAMBDA p : p.is = is)
AllParts(body) == FlattenSeq([i \in DOMAIN body.turns |-> body.turns[i].parts])

\* _count_cache_control: not those of the tools.
Marks(body) == Len(SelectSeq(body.system \o AllParts(body), LAMBDA p : p.marked))

\* _cache_breakpoints: the last text of a long system prompt is marked.
Marked(body) ==
  LET texts == {i \in DOMAIN body.system : body.system[i].is = "text"}
      chars == FoldSeq(LAMBDA p, n : Chars(p.text) + n, 0, Texts(body.system, "text"))
  IN IF \/ body.api # "anthropic"
        \/ texts = {}
        \/ chars < MinMarked
        \/ Marks(body) >= MaxCacheBreakpoints
        \/ body.plain /\ Bare(body.system[1].text) = <<>>
        \/ \E i \in DOMAIN body.system : body.system[i].marked
     THEN body
     ELSE [body EXCEPT !.plain = FALSE, !.system[Max(texts)].marked = TRUE]

\* _tool_result_trim
ToolOutput(body) ==
  [i \in DOMAIN body.turns |->
     IF body.api = "responses" THEN body.turns[i]
     ELSE [body.turns[i] EXCEPT !.parts = RewriteParts("tool_result_trim", @, "tool_result")]]

\* Whose texts a strategy looks at that rewrites one text after the other.
Roles == [prefix_stabilize |-> {"system"}, command_trim |-> {"user"},
          otsl_tables |-> {"user", "system"}, compress_json |-> {"user", "system"}]

\* What the strategy makes of the body; the same body stands for None.
Apply(name, body) ==
  CASE name = "cache_breakpoints" -> Marked(body)
    [] name = "tool_result_trim" ->
         [body EXCEPT !.turns = ToolOutput(body)]
    [] name \in DOMAIN Roles -> Rewrite(name, body, Roles[name])
    [] OTHER -> [body EXCEPT !.tools = Distinct(@)]

Registry == <<"cache_breakpoints", "tool_result_trim", "prefix_stabilize", "command_trim",
              "otsl_tables", "compress_json", "slim_tools">>
DefaultOn == {"cache_breakpoints", "prefix_stabilize"}
RewritesPrompt == ToSet(Registry) \ DefaultOn

\* enabled_strategies: nothing, "off", "all", or names.
Enabled(spec) ==
  CASE spec = <<"off">> -> <<>>
    [] spec = <<"all">> -> Registry
    [] spec = <<>> -> SelectSeq(Registry, LAMBDA s : s \in DefaultOn)
    [] OTHER -> SelectSeq(spec, LAMBDA s : s \in ToSet(Registry))

\* _body_tokens
Tokens(body) ==
  LET Sum(parts) == FoldSeq(LAMBDA p, n : TextTokens(p.text) + n, 0, parts)
      Slots(turn) == IF RoleIn(body, turn) \in {"system", "user", "assistant"}
                     THEN Texts(turn.parts, "text") ELSE <<>>
      texts == FlattenSeq([i \in DOMAIN body.turns |-> Slots(body.turns[i])])
                 \o Texts(body.system \o AllParts(body), "tool_result")
                 \o Texts(body.system, "text")
  IN (IF body.api = "responses" THEN 0 ELSE Sum(texts)) + Len(body.tools) * Estimate(Width["tool"])

Less(a, b) == IF a > b THEN a - b ELSE 0
=============================================================================
