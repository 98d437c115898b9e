------------------------------- MODULE MCCall -------------------------------
(***************************************************************************)
(* Eleven calls: an agent's with everything that can be compressed, easy  *)
(* ones that are routed, one of each API, some that are no calls of a      *)
(* model, and tools that report theirs themselves.                         *)
(***************************************************************************)
EXTENDS Call

CONSTANTS agent, easy, whole, silent, codex, gemini, cached, oauth, other, reports, spans

MCWidth == [prose |-> 5, colored |-> 9, stamp |-> 12, blank |-> 0, table |-> 8, row |-> 20,
            between |-> 6, endtable |-> 9, merged |-> 20, otsl |-> 6, cells |-> 5, endotsl |-> 7,
            fence |-> 7, item |-> 8, minified |-> 2, endfence |-> 3, cut |-> 40, tool |-> 20]

P(w) == Line("prose", <<w>>)
Part(is, text) == [is |-> is, text |-> text, marked |-> FALSE]
Turn(role, parts) == [role |-> role, parts |-> parts]

Stamped == <<Line("stamp", <<"today">>), P("s1"), P("s2"), P("s1")>>
Table == <<Line("table", <<"">>), Line("row", <<"r">>), Line("row", <<"r">>), Line("between", <<"">>),
           Line("row", <<"t">>), Line("endtable", <<"">>)>>
Json == <<Line("fence", <<"">>), Line("item", <<"a">>), Line("item", <<"b">>), Line("endfence", <<"">>)>>
Log == <<P("x"), P("x"), Line("colored", <<"x">>), P("y"), P("x"), P("z"), P("y"), P("w")>>
Short == <<P("rename")>>

Body(api, plain, system, turns, tools) ==
  [api |-> api, plain |-> plain, system |-> system, turns |-> turns, tools |-> tools]
User(text) == Turn("user", <<Part("text", text)>>)
Tool(n) == [name |-> n, marked |-> FALSE]

Base == [door |-> "gateway", host |-> "ai", path |-> "model", framing |-> "length",
         data |-> <<"body", "stream">>, body |-> Nobody, model |-> "opus", hints |-> {},
         streamed |-> TRUE, asked |-> TRUE, answers |-> None,
         bill |-> [input |-> 5, output |-> 2, read |-> 3, written |-> 0],
         words |-> <<8, 9>>, exports |-> <<>>]

AgentBody ==
  Body("anthropic", TRUE, <<Part("text", Stamped)>>,
       <<User(Log \o Table), Turn("assistant", <<Part("text", <<P("a"), P("a")>>), Part("image", <<>>)>>),
         Turn("user", <<Part("tool_result", Log), Part("text", Json)>>)>>,
       <<Tool("t"), Tool("u"), Tool("t")>>)
CachedBody ==
  Body("anthropic", FALSE, <<Part("text", <<P("s1"), P("s2")>>), Part("text", Stamped)>>,
       <<User(<<P("x")>>)>>, <<>>)
EasyBody == Body("openai", FALSE, <<>>,
                 <<Turn("system", <<Part("text", Stamped)>>), User(Short),
                   Turn("tool", <<Part("tool_result", Log)>>)>>, <<>>)
GeminiChat ==
  Body("google", FALSE, <<Part("text", <<P("s1")>>)>>,
       <<User(Json), Turn("model", <<Part("text", <<P("a"), P("a")>>)>>),
         Turn("function", <<Part("tool_result", <<P("x"), P("x"), P("x"), P("x")>>)>>)>>, <<>>)

Report(speaks, event, usage) == [speaks |-> speaks, event |-> event, usage |-> usage,
                                 model |-> "opus", words |-> 0]
Told == [prompt |-> 5, output |-> 2, cached |-> 3, written |-> 0]

MCAsk ==
  (agent :> [Base EXCEPT !.door = "proxy", !.framing = "chunked", !.body = AgentBody])
  @@ (easy :> [Base EXCEPT !.body = EasyBody, !.model = "gpt-5", !.hints = {"easy"}])
  @@ (whole :> [Base EXCEPT !.body = EasyBody, !.model = "gpt-5", !.hints = {"easy"},
                            !.data = <<"body", "more">>, !.streamed = FALSE])
  @@ (silent :> [Base EXCEPT !.body = EasyBody, !.model = "gpt-5", !.asked = FALSE])
  @@ (codex :> [Base EXCEPT !.door = "proxy", !.body = [EasyBody EXCEPT !.api = "responses"],
                            !.data = <<"body", "more">>, !.streamed = FALSE, !.model = "gpt-5",
                            !.hints = {"small"}])
  @@ (gemini :> [Base EXCEPT !.body = GeminiChat, !.model = None, !.answers = "gemini-pro"])
  @@ (cached :> [Base EXCEPT !.body = CachedBody, !.hints = {"easy"},
                             !.words = <<8, 9, 7>>, !.bill = [input |-> 0, output |-> 2, read |-> 0, written |-> 9]])
  @@ (oauth :> [Base EXCEPT !.door = "proxy", !.path = "oauth", !.body = CachedBody])
  @@ (other :> [Base EXCEPT !.door = "proxy", !.host = "other", !.body = CachedBody])
  @@ (reports :> [Base EXCEPT !.door = "telemetry", !.exports =
        <<[signal |-> "metrics", items |-> <<Report("claude_code", "usage", Told)>>],
          [signal |-> "logs", items |-> <<Report("claude_code", "user_prompt", None),
                                          Report("claude_code", "api_request", Told)>>]>>])
  @@ (spans :> [Base EXCEPT !.door = "telemetry", !.exports =
        <<[signal |-> "traces", items |-> <<Report("other", "http", None), Report("gen_ai", "chat", Told)>>]>>])

MCAsks == DOMAIN MCAsk
MCSpecs == {<<>>, <<"all">>, <<"off">>, <<"compress_json", "otsl_tables", "command_trim">>}
MCModes == {"off", "shadow", "on"}
MCAiHosts == {"ai"}

MCPrices == [opus |-> [input |-> 1500, output |-> 7500, read |-> 150, write |-> 1875],
             gpt |-> [input |-> 100, output |-> 200, read |-> 50, write |-> 100],
             gpt_mini |-> [input |-> 10, output |-> 20, read |-> 5, write |-> 10]]
MCKeyLength == [opus |-> 4, gpt |-> 5, gpt_mini |-> 10]
MCKeysOf == ("opus" :> {"opus"}) @@ ("gpt-5" :> {"gpt"}) @@ ("gpt-5-mini" :> {"gpt", "gpt_mini"})
MCCheapModel == [anthropic |-> "haiku", openai |-> "gpt-5-mini", responses |-> "gpt-5-mini",
                 google |-> "gemini-flash"]
MCStrong == {"opus", "gpt-5"}
=============================================================================
