------------------------------- MODULE Onboard -------------------------------
(***************************************************************************)
(* How a tool is captured (tiers.py), what its developer is told to set    *)
(* (onboard.py), and whose call it is taken for (detect.py, context.py).   *)
(* Everything here is an operator.  An environment is the set of the       *)
(* variables that are set; their values are the address of the agent.      *)
(***************************************************************************)
EXTENDS Naturals, Sequences, FiniteSets

CONSTANTS
  Capability,  \* tool -> [tier, protocol]; the table _TOOLS
  Alias,       \* other name -> tool
  Speaks       \* tool -> the protocol of its model calls, "none" if they do not leave the device

Tools == DOMAIN Capability
Nobody == "nobody"

ASSUME OnboardAssumption ==
  /\ \A t \in Tools : Capability[t].tier \in {"otel", "gateway", "vendor"}
  /\ \A n \in DOMAIN Alias : Alias[n] \in Tools
  /\ Nobody \notin Tools
  /\ DOMAIN Speaks = Tools
  \* tiers.py: the prompts of such a tool are put together at its vendor's
  /\ \A t \in Tools : Capability[t].tier = "vendor" => Speaks[t] = "none"

\* get: by the tool's name or another one; nothing for an unknown one.
Named(name) == (IF name \in Tools THEN {name} ELSE {})
               \cup (IF name \in DOMAIN Alias THEN {Alias[name]} ELSE {})

BaseUrl == [anthropic |-> "ANTHROPIC_BASE_URL", openai |-> "OPENAI_BASE_URL",
            gemini |-> "GOOGLE_GEMINI_BASE_URL"]
\* _gateway_env: both, when the protocol is none of the three.
GatewayEnv(protocol) ==
  IF protocol \in DOMAIN BaseUrl THEN {BaseUrl[protocol]} ELSE {BaseUrl.anthropic, BaseUrl.openai}

OtelEndpoint == "OTEL_EXPORTER_OTLP_ENDPOINT"
\* generate: the registry decides the recipe.
Recipe(tool) ==
  CASE Capability[tool].tier = "otel" -> {OtelEndpoint}
    [] Capability[tool].tier = "vendor" -> {"ABEN_CURSOR_API_KEY"}
    [] OTHER -> GatewayEnv(Capability[tool].protocol)

\* Where the calls of a tool go that runs with these variables set.
ThroughGateway(tool, env) == Speaks[tool] \in DOMAIN BaseUrl /\ BaseUrl[Speaks[tool]] \in env
Exports(tool, env) == Capability[tool].tier = "otel" /\ OtelEndpoint \in env

-----------------------------------------------------------------------------
(* Whose call: of the process that captures it, not of the one that made it. *)

\* _ENV_MARKERS: what tools leave in the environment of their shells, in the
\* order in which it is looked for, after the name of the terminal.
EnvMarkers ==
  <<<<"TERM_PROGRAM", "cursor-agent">>,
    <<"CLAUDECODE", "claude-code">>, <<"CLAUDE_CODE_ENTRYPOINT", "claude-code">>,
    <<"CURSOR_TRACE_ID", "cursor-agent">>,
    <<"CODEX_SANDBOX", "openai-codex">>, <<"CODEX_HOME", "openai-codex">>,
    <<"AIDER_MODEL", "aider">>, <<"GEMINI_CLI", "gemini-cli">>,
    <<"CLINE_API_KEY", "cline">>, <<"CONTINUE_GLOBAL_DIR", "continue">>>>
FromEnv(marks) ==
  LET found == SelectSeq(EnvMarkers, LAMBDA m : m[1] \in marks)
  IN IF found = <<>> THEN Nobody ELSE Head(found)[2]

\* detect: ABEN_TOOL, then the marks.  What a manager or the login starts has no
\* ancestor that is a tool (_from_process).
Detect(process) == IF process.told # Nobody THEN process.told ELSE FromEnv(process.marks)

\* _work_overrides in _capture, the tool of an export in _ingest_otlp.
ToolOf(tag, process) == IF tag # Nobody THEN tag ELSE Detect(process)
==============================================================================
