-------------------------------- MODULE MCEdge --------------------------------
(***************************************************************************)
(* Four scenes.  history: the turns of one conversation, one of which was  *)
(* edited, and of another, two captures at a time and room for one         *)
(* baseline.  learning: branches teach terms to the gateway and the proxy, *)
(* which share the file and have room for two; a prompt without a branch   *)
(* uses them.  fallback: prompts that only the LLM can tell, with room for *)
(* one label.  toasts: retries, two at a time.                             *)
(***************************************************************************)
EXTENDS Edge

CONSTANTS w1, w2

Prompt(name, terms) == [name |-> name, hits |-> [l \in Labels |-> 0], terms |-> terms]
Plain == Prompt("plain", {})
On(head) == [branch |-> [head |-> head, ticket |-> None], ticket |-> None, repo |-> "site"]
NoWork == [branch |-> None, ticket |-> None, repo |-> None]

Base == [process |-> "gateway", actor |-> "ann", work |-> NoWork, messages |-> <<"hello">>,
         prompt |-> Plain, answered |-> TRUE, input |-> 4, read |-> 2, cached |-> FALSE,
         parses |-> TRUE]
Turn(name, messages) == [Base EXCEPT !.prompt = Prompt(name, {}), !.messages = messages]
Lesson(process, head, terms) ==
  [Base EXCEPT !.process = process, !.work = On(head), !.prompt = Prompt(head, terms),
               !.actor = process]
Puzzle(name) == [Base EXCEPT !.prompt = Prompt(name, {}), !.actor = name]
Retry == [Base EXCEPT !.cached = TRUE, !.read = 0, !.messages = <<"why", "how">>]

Exchanges ==
  [h1 |-> Turn("h1", <<"u">>), h2 |-> Turn("h2", <<"u", "x">>),
   h3 |-> Turn("h3", <<"u", "y", "x">>), h4 |-> Turn("h4", <<"v">>),
   h5 |-> [Base EXCEPT !.parses = FALSE],
   l1 |-> Lesson("gateway", "fix", {"a", "b"}), l2 |-> Lesson("gateway", "bug", {"a"}),
   l3 |-> Lesson("proxy", "feat", {"a"}), l4 |-> Lesson("proxy", "docs", {"c"}),
   l5 |-> [Base EXCEPT !.process = "proxy", !.prompt = Prompt("free", {"a", "b"}), !.actor = "l5"],
   f1 |-> Puzzle("q"), f2 |-> Puzzle("q"), f3 |-> Puzzle("r"),
   t1 |-> Retry, t2 |-> Retry, t3 |-> Retry]

Both == (w1 :> "gateway") @@ (w2 :> "gateway")
OneEach == {(w1 :> "gateway") @@ (w2 :> "proxy"), (w2 :> "gateway") @@ (w1 :> "proxy")}
Scene(calls, workers, most) == [calls |-> calls, workers |-> workers, restarts |-> most]
History == Scene({"h1", "h2", "h3", "h4", "h5"}, Both, 0)
Learning == {Scene({"l1", "l2", "l3", "l4", "l5"}, each, 1) : each \in OneEach}
Fallback == Scene({"f1", "f2", "f3"}, Both, 0)
Retries == Scene({"t1", "t2", "t3"}, Both, 0)
AllScenes == {History, Fallback, Retries} \cup Learning
Symmetry == Permutations({w1, w2})

Characters1 == [m \in UNION {ToSet(Exchanges[c].messages) : c \in DOMAIN Exchanges} |-> 1]
Answers == [p \in {Exchanges[c].prompt : c \in DOMAIN Exchanges} |->
              IF p.name = "q" THEN {"fix"} ELSE IF p.name = "r" THEN {"test"} ELSE {}]
Near == {{Plain, Prompt("h1", {})}}
Prefixes1 == "AC-1" :> "acme"
Goals == <<"acme", "zen">>
Repos == "site" :> "acme"
Similarities ==
  [po \in {Exchanges[c].prompt : c \in DOMAIN Exchanges} \X {"acme", "zen"} |->
     IF po[2] = "zen" THEN 55 ELSE 10]
==============================================================================
