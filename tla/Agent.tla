-------------------------------- MODULE Agent --------------------------------
(***************************************************************************)
(* The capture agent on a developer's machine: what installs it            *)
(* (service.py), what keeps it going (the supervisor of "abenlux agent     *)
(* run" and the service manager of each platform), and the calls of tools  *)
(* that were set up to be captured by it.                                  *)
(*                                                                         *)
(* The supervisor runs the gateway as its child.  A slot of `agent` is one *)
(* pair of them: on Windows, which has no manager, there may be more than  *)
(* one.  Only one process can listen on the port.  The time a supervisor   *)
(* waits before it tries again, doubled up to a minute, is not modelled:   *)
(* it ends.  A configuration stands for the ABEN_ and OTEL_ variables, as  *)
(* far as they differ: the tool that ABEN_TOOL names.                      *)
(***************************************************************************)
EXTENDS Onboard

CONSTANTS
  Platforms,  \* platform.system(): "Linux", "Darwin", "Windows"
  Slots,      \* bound: supervisors at once
  Settings,   \* the configurations a developer's shell or agent.env may hold
  Terminals,  \* what the terminal may hold in which the developer types a command
  MaxCalls    \* bound: calls

ASSUME AgentAssumption ==
  /\ Platforms \subseteq {"Linux", "Darwin", "Windows"}
  /\ Settings \subseteq Tools \cup {Nobody} /\ Nobody \in Settings
  /\ MaxCalls \in Nat

VARIABLES
  platform,  \* of this machine
  session,   \* the developer is logged in
  envFile,   \* agent.env
  unit,      \* what starts the agent at login: [there, enabled, env]
  agent,     \* slot -> [at, env]: a supervisor and its gateway
  shell,     \* the variables of the shell the tools are started from
  calls,     \* the tools that made a call, in order
  vendor,    \* the calls that the vendor's usage API reports
  records,   \* the derived records
  wanted     \* bookkeeping: an agent was started and nobody asked it to stop

agentVars == <<platform, session, envFile, unit, agent, shell, calls, vendor, records, wanted>>
machine == <<platform, session, envFile, unit>>
use == <<shell, calls, vendor, records>>

\* told: ABEN_TOOL; marks: what the terminal of a tool leaves in the environment.
Bare == [told |-> Nobody, marks |-> {}]
Away == [at |-> "away", env |-> Bare]
NoUnit == [there |-> FALSE, enabled |-> FALSE, env |-> Nobody]

AgentInit ==
  /\ platform \in Platforms
  /\ session = TRUE
  /\ envFile = Nobody
  /\ unit = NoUnit
  /\ agent = [s \in Slots |-> Away]
  /\ shell = {} /\ calls = <<>>
  /\ vendor = {} /\ records = {}
  /\ wanted = FALSE

-----------------------------------------------------------------------------
(* One supervisor and its gateway *)

Managed == platform \in {"Linux", "Darwin"}
Vacant == {s \in Slots : agent[s].at = "away"}
Running == Slots \ Vacant
\* agent_alive: who listens on the port
Serving == {s \in Slots : agent[s].at \in {"serving", "orphan"}}

\* load_env_file: a variable that is set already wins over the file.
WithFile(env) == IF env.told # Nobody THEN env ELSE [env EXCEPT !.told = envFile']
Started(env) == [at |-> "starting", env |-> WithFile(env)]

\* What a manager, or the login, starts the supervisor with: systemd reads
\* agent.env, launchd has the values in the plist, Windows has neither.
Given(u) == CASE platform = "Linux" -> [Bare EXCEPT !.told = envFile']
              [] platform = "Darwin" -> [Bare EXCEPT !.told = u.env]
              [] OTHER -> Bare

Becomes(s, at) ==
  /\ agent' = [agent EXCEPT ![s] = IF at = "away" THEN Away ELSE [@ EXCEPT !.at = at]]
  /\ UNCHANGED <<machine, use>>

\* The gateway takes the port; without it, it ends with an error.
Listen(s) ==
  /\ agent[s].at = "starting"
  /\ Becomes(s, IF Serving = {} THEN "serving" ELSE "waiting")
  /\ UNCHANGED wanted

\* mutant: the loop ends at an error
EndOfLoop == "away"
\* subprocess.run returned an error: it is logged, and tried again after a while.
AfterCrash == "waiting"
Crash(s) ==
  /\ agent[s].at = "serving"
  /\ Becomes(s, AfterCrash)
  /\ UNCHANGED wanted

TryAgain(s) ==
  /\ agent[s].at = "waiting"
  /\ Becomes(s, "starting")
  /\ UNCHANGED wanted

\* The gateway was asked to stop: the supervisor ends without an error, which
\* is good enough for systemd; launchd keeps it alive.
Stop(s) ==
  /\ agent[s].at = "serving"
  /\ Becomes(s, IF platform = "Darwin" THEN "owed" ELSE "away")
  /\ wanted' = (wanted /\ platform = "Darwin")

\* The supervisor is killed: a manager ends the gateway with it and owes a
\* restart; on Windows the gateway goes on alone.
Kill(s) ==
  /\ agent[s].at \in {"starting", "serving", "waiting"}
  /\ Becomes(s, IF Managed THEN "owed" ELSE IF agent[s].at = "serving" THEN "orphan" ELSE "away")
  /\ wanted' = (wanted /\ Managed)

OrphanEnds(s) ==
  /\ agent[s].at = "orphan"
  /\ Becomes(s, "away")
  /\ UNCHANGED wanted

\* Restart=on-failure, KeepAlive
ManagerRestarts(s) ==
  /\ agent[s].at = "owed"
  /\ envFile' = envFile
  /\ agent' = [agent EXCEPT ![s] = Started(Given(unit))]
  /\ UNCHANGED <<platform, session, unit, use, wanted>>

-----------------------------------------------------------------------------
(* The developer *)

AllAway == [s \in Slots |-> Away]
\* One supervisor is started, in any slot.
Alone(env) == [AllAway EXCEPT ![CHOOSE s \in Slots : TRUE] = Started(env)]

Login ==
  /\ ~session /\ session' = TRUE
  /\ envFile' = envFile
  /\ IF unit.enabled
     THEN agent' = Alone(Given(unit))
     ELSE agent' = AllAway
  /\ wanted' = unit.enabled
  /\ UNCHANGED <<platform, unit, use>>

\* What a user started ends with the session.
Logout ==
  /\ session /\ session' = FALSE
  /\ agent' = AllAway
  /\ wanted' = FALSE
  /\ UNCHANGED <<platform, envFile, unit, use>>

\* systemd starts what is not running; without it, or when it fails, the unit
\* is only written.
InstallLinux(works) ==
  /\ unit' = [there |-> TRUE, enabled |-> works \/ unit.enabled, env |-> Nobody]
  /\ agent' = IF works /\ Running = {} THEN Alone(Given(unit')) ELSE agent
  /\ wanted' = (wanted \/ works)

\* launchd ends what it ran before it loads the new plist.
InstallMac(works) ==
  /\ unit' = [there |-> TRUE, enabled |-> TRUE, env |-> envFile']
  /\ agent' = IF works THEN Alone(Given(unit')) ELSE agent
  /\ wanted' = (wanted \/ works)

\* One more is started, with the environment of the terminal.
InstallWindows(marks, works) ==
  /\ unit' = [there |-> TRUE, enabled |-> TRUE, env |-> Nobody]
  /\ works => Vacant # {}
  /\ agent' = IF works
              THEN [agent EXCEPT ![CHOOSE s \in Vacant : TRUE] = Started([told |-> envFile', marks |-> marks])]
              ELSE agent
  /\ wanted' = (wanted \/ works)

\* "abenlux agent install" in a shell with this configuration, which is
\* written over the file, in the terminal of a tool or not.  The command of
\* the manager may be missing or fail, which is let pass (_run).
Install(told, marks, works) ==
  /\ session
  /\ envFile' = told
  /\ CASE platform = "Linux" -> InstallLinux(works)
       [] platform = "Darwin" -> InstallMac(works)
       [] OTHER -> InstallWindows(marks, works)
  /\ UNCHANGED <<platform, session, use>>

\* What runs on Windows is not ended.
Uninstall(works) ==
  /\ session
  /\ unit' = NoUnit
  /\ agent' = IF Managed /\ works THEN AllAway ELSE agent
  /\ wanted' = FALSE
  /\ UNCHANGED <<platform, session, envFile, use>>

EditFile(told) ==
  /\ session
  /\ envFile' = told
  /\ UNCHANGED <<platform, session, unit, agent, use, wanted>>

-----------------------------------------------------------------------------
(* Tools and their calls *)

\* "abenlux onboard <name>": the variables it prints are set in the shell.
SetUp(name) ==
  /\ \E tool \in Named(name) : shell' = shell \cup Recipe(tool)
  /\ UNCHANGED <<machine, agent, calls, vendor, records, wanted>>

NewShell ==
  /\ shell # {} /\ shell' = {}
  /\ UNCHANGED <<machine, agent, calls, vendor, records, wanted>>

\* DerivedRecord by its event_id
Record(id, n, tool) == [id |-> id, call |-> n, tool |-> tool]
Inserted(new) == {r \in records : \A x \in new : x.id # r.id} \cup new

\* A call that is sent to the gateway needs it; an export is lost without it.
\* Once there, it is captured: Gateway, Edge and Call have how.
MakeCall(tool, tagged) ==
  LET n == Len(calls) + 1
      proxied == ThroughGateway(tool, shell)
      process == agent[CHOOSE s \in Serving : TRUE].env
      captured == (IF proxied THEN {Record(<<"gateway", n>>, n, ToolOf(IF tagged THEN tool ELSE Nobody, process))} ELSE {})
                  \cup (IF Exports(tool, shell) THEN {Record(<<"export", n>>, n, ToolOf(tool, process))} ELSE {})
  IN /\ session /\ n <= MaxCalls
     /\ proxied => Serving # {}
     /\ calls' = Append(calls, tool)
     /\ vendor' = IF Capability[tool].tier = "vendor" THEN vendor \cup {n} ELSE vendor
     /\ records' = IF Serving = {} THEN records ELSE Inserted(captured)
     /\ UNCHANGED <<machine, agent, shell, wanted>>

\* mutant: an id of its own for every event that is fetched
FreshId(n) == <<"vendor", n, Cardinality(records)>>
\* cursor_event_to_derived: the vendor's id, or the developer and the time.
EventId(n) == <<"vendor", n>>
\* "abenlux sync-cursor": a page of usage events, most of them not for the first time.
SyncCursor ==
  /\ "ABEN_CURSOR_API_KEY" \in shell
  /\ records' = Inserted({Record(EventId(n), n, calls[n]) : n \in vendor})
  /\ UNCHANGED <<machine, agent, shell, calls, vendor, wanted>>
-----------------------------------------------------------------------------
AgentNext ==
  \/ \E s \in Slots : Listen(s) \/ Crash(s) \/ TryAgain(s) \/ Stop(s) \/ Kill(s) \/ OrphanEnds(s) \/ ManagerRestarts(s)
  \/ Login \/ Logout
  \/ \E told \in Settings, marks \in Terminals, works \in BOOLEAN : Install(told, marks, works)
  \/ \E works \in BOOLEAN : Uninstall(works)
  \/ \E told \in Settings : EditFile(told)
  \/ \E name \in Tools \cup DOMAIN Alias : SetUp(name)
  \/ NewShell
  \/ \E tool \in Tools, tagged \in BOOLEAN : MakeCall(tool, tagged)
  \/ SyncCursor

\* A gateway that was started gets to its port, a supervisor's wait ends, and
\* a manager restarts what it owes.
Fairness == \A s \in Slots : WF_agentVars(Listen(s)) /\ WF_agentVars(TryAgain(s)) /\ WF_agentVars(ManagerRestarts(s))
AgentSpec == AgentInit /\ [][AgentNext]_agentVars /\ Fairness

-----------------------------------------------------------------------------
(* Properties *)

RecordsOf(n) == {r \in records : r.call = n}

\* A call makes one record, whatever restarts and however often the vendor's
\* events are fetched.  Only a tool that reports its own calls may have two:
\* one that was started from a shell in which another one of its protocol was
\* set up (onboard.py, vendor_admin.py).
RecordedOnce ==
  \A n \in DOMAIN calls : \A one, other \in RecordsOf(n) :
    one # other =>
      Capability[calls[n]].tier = "otel" /\ {r.id[1] : r \in RecordsOf(n)} = {"gateway", "export"}

\* A gateway that is starting is left to take the port.
LetStart ==
  \A s \in Slots : agent[s].at = "starting" => agent'[s].at \in {"starting", "serving", "waiting"}

\* An agent that was started and not asked to stop serves its tools again,
\* whatever crashed or was killed, unless it is ended before it has started
\* time and again (cli.py: "the supervisor restarts the child on a crash";
\* service.py).
AgentComesBack == (<>[][LetStart]_agentVars) => (wanted ~> (Serving # {} \/ ~wanted))
==============================================================================
