\* Every platform; two supervisors at once, one call.
SPECIFICATION AgentSpec
CONSTANTS
  Capability <- Registry
  Alias <- Names
  Speaks <- Protocols
  Platforms = {"Linux", "Darwin", "Windows"}
  Slots = {1, 2}
  Settings = {"nobody", "droid"}
  Terminals <- Shells
  MaxCalls = 1
INVARIANTS
  RecordedOnce
PROPERTIES
  AgentComesBack
