------------------------------- MODULE MCAgent -------------------------------
(***************************************************************************)
(* One tool of each tier: one that reports its own calls, one that honours *)
(* a base URL and speaks the same protocol, one whose prompts are put      *)
(* together at its vendor's.                                               *)
(***************************************************************************)
EXTENDS Agent, TLC

Registry ==
  "claude-code" :> [tier |-> "otel", protocol |-> ""]
  @@ "droid" :> [tier |-> "gateway", protocol |-> "anthropic"]
  @@ "cursor-agent" :> [tier |-> "vendor", protocol |-> ""]
Names == "factory-droid" :> "droid"
Protocols == "claude-code" :> "anthropic" @@ "droid" :> "anthropic" @@ "cursor-agent" :> "none"

\* A plain terminal, or one in which two tools left their marks.
Shells == {{}, {"CURSOR_TRACE_ID", "CLAUDECODE"}}
==============================================================================
