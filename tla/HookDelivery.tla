------------------------------ MODULE HookDelivery ------------------------------
(* From an agent's hook to the daemon's slots: the adapters (claude, codex,    *)
(* grok and cursor/hook.sh) translate and filter what the agents report, each  *)
(* event travels on a connection of its own, and the daemon may die, come back *)
(* and look for the sessions it missed.                                        *)
(*                                                                             *)
(* A handler is one step here: how its accesses interleave with the reader     *)
(* thread's is MacropadDaemon's matter.                                        *)
EXTENDS SlotManager, HookEvents, Sequences, FiniteSets

CONSTANTS
    MayRun,      \* session -> the agents that may run it
    Keys,        \* the slots whose key the user holds
    Backlog,     \* at most this many connections wait at once
    MaxDeaths,   \* the daemon dies at most this often
    NoAgent      \* a session whose agent is not known

Agent == {"claude", "codex", "grok", "cursor"}

ASSUME MayRunAssumption == MayRun \in [Session -> SUBSET Agent]
ASSUME DeliveryKeysAssumption == Keys \subseteq Slots
ASSUME BoundsAssumption == Backlog \in Nat /\ MaxDeaths \in Nat
ASSUME NoAgentAssumption == NoAgent \notin Agent

VARIABLES
    agent,            \* session -> the agent that really runs it
    ran,              \* session -> hooks its agent has run so far
    killed,           \* sessions whose process died before its last hook
    connections,      \* lines that wait to be read
    daemon,           \* "down", serve()'s steps up to the socket, "listening"
    discovered,       \* sessions discovery found, not seeded yet
    session_agents,   \* session -> agent, as the payloads told
    shown,            \* slot -> the state sent last
    deaths,           \* how often the daemon has died
    current,          \* history: sessions whose last hook this daemon process has read
    ended,            \* history: sessions whose end it has read
    overtaken,        \* history: sessions of which it read a hook before an earlier one
    overBefore,       \* history: sessions that were over when the daemon started
    reused            \* history: sessions whose pid another process has taken

worldVars == <<agent, ran, killed>>
daemonVars == <<slotVars, session_agents, shown>>
historyVars == <<current, ended, overtaken>>
startVars == <<discovered, deaths, overBefore, reused>>
vars == <<worldVars, connections, daemon, daemonVars, historyVars, startVars>>

--------------------------------------------------------------------------------
(* The hooks an agent runs in a session: fake_hooks.py's simulators, in the    *)
(* shared vocabulary.                                                          *)
ToolCall(tool) == <<ToolEvent("PreToolUse", tool), ToolEvent("PostToolUse", tool)>>

Opening == <<Plain("SessionStart"), Plain("UserPromptSubmit")>>

Closing == <<Plain("Stop"), Plain("SessionEnd")>>

Work ==
    [claude |-> ToolCall("Read") \o ToolCall("AskUserQuestion") \o ToolCall("ExitPlanMode")
                \o <<Plain("PermissionRequest"), Notify("idle_prompt")>>,
     codex |-> ToolCall("Bash")
               \o <<ToolEvent("PreToolUse", "apply_patch"), Plain("PermissionRequest"),
                    ToolEvent("PostToolUse", "apply_patch")>>,
     grok |-> <<ToolEvent("PreToolUse", "run_terminal_command"), Notify("permission_prompt"),
                ToolEvent("PostToolUse", "run_terminal_command"), Notify("idle_prompt")>>,
     cursor |-> ToolCall("Shell")]

Simulated == [a \in Agent |-> Opening \o Work[a] \o Closing]

(* What the agent itself calls these events.  Grok also names the fields its   *)
(* own way, and runs one more hook at the teardown.                            *)
GrokNames ==
    <<"session_start", "user_prompt_submit", "pre_tool_use", "notification", "post_tool_use",
      "notification", "stop", "session_end", "stop">>

CursorNames ==
    <<"sessionStart", "beforeSubmitPrompt", "beforeShellExecution", "afterShellExecution",
      "stop", "sessionEnd">>

Hooks(agent_name) == Len(IF agent_name = "grok" THEN GrokNames ELSE Simulated[agent_name])

(* The k-th hook's payload as the agent writes it.                             *)
Native(agent_name, k) ==
    LET event == IF k > Len(Simulated[agent_name]) THEN Plain("Stop") ELSE Simulated[agent_name][k]
        name == CASE agent_name = "grok" -> GrokNames[k]
                  [] agent_name = "cursor" -> CursorNames[k]
                  [] OTHER -> event.name
    IN [event |-> [event EXCEPT !.name = name],
        fields |-> IF agent_name = "grok" THEN "camelCase" ELSE "snake_case",
        reason |-> IF k > Len(Simulated[agent_name]) THEN "channel_closed" ELSE "end_turn"]

--------------------------------------------------------------------------------
(* The adapters.  A line is what an adapter writes to the socket.              *)

(* EVENT_MAP of grok/hook.sh and of cursor/hook.sh.                            *)
GrokEventMap ==
    [session_start |-> "SessionStart", user_prompt_submit |-> "UserPromptSubmit",
     pre_tool_use |-> "PreToolUse", post_tool_use |-> "PostToolUse",
     post_tool_use_failure |-> "PostToolUseFailure", permission_denied |-> "PermissionDenied",
     notification |-> "Notification", stop |-> "Stop", stop_failure |-> "StopFailure",
     stop_cancelled |-> "StopCancelled", subagent_start |-> "SubagentStart",
     subagent_stop |-> "SubagentStop", pre_compact |-> "PreCompact",
     post_compact |-> "PostCompact", session_end |-> "SessionEnd"]

(* Mutant: only the generic events are known, not those of the shell.          *)
GenericEventMap ==
    [sessionStart |-> "SessionStart", sessionEnd |-> "SessionEnd",
     beforeSubmitPrompt |-> "UserPromptSubmit", preToolUse |-> "PreToolUse",
     postToolUse |-> "PostToolUse", postToolUseFailure |-> "PostToolUseFailure",
     stop |-> "Stop"]

CursorEventMap ==
    [sessionStart |-> "SessionStart", sessionEnd |-> "SessionEnd",
     beforeSubmitPrompt |-> "UserPromptSubmit", preToolUse |-> "PreToolUse",
     postToolUse |-> "PostToolUse", postToolUseFailure |-> "PostToolUseFailure",
     beforeShellExecution |-> "PreToolUse", afterShellExecution |-> "PostToolUse",
     beforeMCPExecution |-> "PreToolUse", afterMCPExecution |-> "PostToolUse",
     beforeReadFile |-> "PreToolUse", afterFileEdit |-> "PostToolUse", stop |-> "Stop",
     subagentStart |-> "SubagentStart", subagentStop |-> "SubagentStop",
     preCompact |-> "PreCompact"]

Forwarded(tag, event) == {[agent |-> tag, event |-> event]}

Translated(event, map) ==
    IF event.name \in DOMAIN map THEN [event EXCEPT !.name = map[event.name]] ELSE event

PascalCase ==
    {event.name : event \in UNION {{Simulated[a][k] : k \in 1 .. Len(Simulated[a])} : a \in Agent}}

(* claude/hook.sh, which Grok and Cursor run as well: a foreign payload lacks  *)
(* the fields it reads or has a name in lower case.                            *)
(* Mutant: no look at the name's case.                                         *)
ForwardsAnyCase(native) ==
    IF native.fields = "snake_case" THEN Forwarded("claude", native.event) ELSE {}

ClaudeHook(native) ==
    IF native.fields = "snake_case" /\ native.event.name \in PascalCase
    THEN Forwarded("claude", native.event) ELSE {}

CodexHook(native) == Forwarded("codex", native.event)

(* Mutant: every stop is forwarded.                                            *)
ForwardsEveryStop(native) == Forwarded("grok", Translated(native.event, GrokEventMap))

GrokHook(native) ==
    IF native.event.name = "stop" /\ native.reason # "end_turn" THEN {}
    ELSE Forwarded("grok", Translated(native.event, GrokEventMap))

CursorHook(native) == Forwarded("cursor", Translated(native.event, CursorEventMap))

(* The adapters an agent runs for one event.                                   *)
Lines(agent_name, k) ==
    LET native == Native(agent_name, k) IN
    CASE agent_name = "claude" -> ClaudeHook(native)
      [] agent_name = "codex" -> CodexHook(native)
      [] agent_name = "grok" -> ClaudeHook(native) \cup GrokHook(native)
      [] agent_name = "cursor" -> ClaudeHook(native) \cup CursorHook(native)

--------------------------------------------------------------------------------
Started(s) == ran[s] > 0

Finished(s) == Started(s) /\ ran[s] = Hooks(agent[s])

Over(s) == Finished(s) \/ s \in killed

Running(s) == Started(s) /\ ~ Over(s)

Forget ==
    /\ slot_to_session' = [i \in Slots |-> NoSession]
    /\ session_to_slot' = [s \in Session |-> NoSlot]
    /\ session_agents' = [s \in Session |-> NoAgent]
    /\ shown' = [i \in Slots |-> "off"]
    /\ current' = {}
    /\ ended' = {}
    /\ overtaken' = {}

(* A daemon that was started when no session was open; one started later is    *)
(* one that died before.                                                       *)
Init ==
    /\ SlotInit
    /\ agent = [s \in Session |-> NoAgent]
    /\ ran = [s \in Session |-> 0]
    /\ killed = {}
    /\ connections = {}
    /\ daemon = "listening"
    /\ discovered = {}
    /\ session_agents = [s \in Session |-> NoAgent]
    /\ shown = [i \in Slots |-> "off"]
    /\ deaths = 0
    /\ current = {}
    /\ ended = {}
    /\ overtaken = {}
    /\ overBefore = {}
    /\ reused = {}

--------------------------------------------------------------------------------
(* The agents.  A hook gives up after one second, so it may connect while      *)
(* earlier lines of its session wait; with no daemon its line is lost.         *)

HookRuns(s) ==
    /\ ~ Over(s)
    /\ \E a \in IF Started(s) THEN {agent[s]} ELSE MayRun[s] :
          LET lines == {[session |-> s, hook |-> ran[s] + 1, line |-> l] : l \in Lines(a, ran[s] + 1)}
          IN /\ agent' = [agent EXCEPT ![s] = a]
             /\ connections' = IF daemon = "listening" THEN connections \cup lines ELSE connections
             /\ Cardinality(connections') <= Backlog
    /\ ran' = [ran EXCEPT ![s] = @ + 1]
    /\ current' = current \ {s}
    /\ UNCHANGED <<killed, daemon, daemonVars, ended, overtaken, startVars>>

SessionDies(s) ==
    /\ Running(s)
    /\ killed' = killed \cup {s}
    /\ UNCHANGED <<agent, ran, connections, daemon, daemonVars, historyVars, startVars>>

--------------------------------------------------------------------------------
(* handle_hook_event() for the line of a connection.                           *)

Show(i, state) == shown' = IF i = NoSlot \/ state = NoState THEN shown ELSE [shown EXCEPT ![i] = state]

HandleStart(s, tag) ==
    \E i \in Slots \cup {NoSlot} :
        /\ Allocate(s, i)
        /\ session_agents' = [session_agents EXCEPT ![s] = tag]
        /\ Show(i, "idle")

HandleEnd(s) ==
    \E i \in Slots \cup {NoSlot} :
        /\ Free(s, i)
        /\ session_agents' = [session_agents EXCEPT ![s] = NoAgent]
        /\ Show(i, "off")

HandleOther(s, tag, event) ==
    \E i \in Slots \cup {NoSlot} :
        /\ Allocate(s, i)
        /\ session_agents' = IF Mapped(s) \/ i = NoSlot THEN session_agents
                             ELSE [session_agents EXCEPT ![s] = tag]
        /\ Show(i, hook_to_state(event))

handle_hook_event(s, line) ==
    CASE line.event.name = "SessionStart" -> HandleStart(s, line.agent)
      [] line.event.name = "SessionEnd" -> HandleEnd(s)
      [] OTHER -> HandleOther(s, line.agent, line.event)

(* handle_connection(): nothing orders one connection after another.           *)
ConnectionRead(c) ==
    /\ daemon = "listening"
    /\ handle_hook_event(c.session, c.line)
    /\ connections' = connections \ {c}
    /\ current' = IF c.hook = ran[c.session] THEN current \cup {c.session} ELSE current
    /\ ended' = IF c.line.event.name = "SessionEnd" THEN ended \cup {c.session} ELSE ended
    /\ overtaken' = IF \E d \in connections : d.session = c.session /\ d.hook < c.hook
                    THEN overtaken \cup {c.session} ELSE overtaken
    /\ UNCHANGED <<worldVars, daemon, startVars>>

(* A line longer than SOCKET_READ_LIMIT ends its connection: those of a tool   *)
(* carry the tool's input or output.                                           *)
ConnectionDropped(c) ==
    /\ daemon = "listening"
    /\ c.line.event.name \in {"PreToolUse", "PostToolUse"}
    /\ connections' = connections \ {c}
    /\ UNCHANGED <<worldVars, daemon, daemonVars, historyVars, startVars>>

(* _evict_slot() on the reader thread.                                         *)
KeyHeld(i) ==
    /\ daemon = "listening"
    /\ \E s \in Session :
          /\ Evict(i, s)
          /\ session_agents' = [session_agents EXCEPT ![s] = NoAgent]
    /\ Show(i, "off")
    /\ UNCHANGED <<worldVars, connections, daemon, historyVars, startVars>>

--------------------------------------------------------------------------------
(* The daemon's life.                                                          *)

DaemonDies ==
    /\ daemon # "down"
    /\ deaths < MaxDeaths
    /\ deaths' = deaths + 1
    /\ daemon' = "down"
    /\ connections' = {}
    /\ discovered' = {}
    /\ Forget
    /\ UNCHANGED <<worldVars, overBefore, reused>>

DaemonStarts ==
    /\ daemon = "down"
    /\ daemon' = "query"
    /\ overBefore' = {s \in Session : Over(s)}
    /\ UNCHANGED <<worldVars, connections, daemonVars, historyVars, discovered, deaths, reused>>

Sessions(agent_name) == {s \in Session : Started(s) /\ agent[s] = agent_name}

(* discover_running_sessions(): `claude agents --json` knows the running ones, *)
(* if it answers at all.                                                       *)
DiscoverClaude ==
    /\ daemon = "query"
    /\ daemon' = "registry"
    /\ discovered' \in {{}, {s \in Sessions("claude") : Running(s)}}
    /\ UNCHANGED <<worldVars, connections, daemonVars, historyVars, deaths, overBefore, reused>>

(* discover_running_grok_sessions(): the registry keeps the entry of a session *)
(* that was killed; another process may have its pid by now.                   *)
(* Mutant: no look at the pid.                                                 *)
TakesEveryEntry ==
    /\ daemon = "registry"
    /\ daemon' = "seed"
    /\ discovered' = discovered \cup {s \in Sessions("grok") : ~ Finished(s)}
    /\ UNCHANGED <<worldVars, connections, daemonVars, historyVars, deaths, overBefore, reused>>

DiscoverGrok ==
    /\ daemon = "registry"
    /\ daemon' = "seed"
    /\ \E taken \in SUBSET (killed \cap Sessions("grok")) :
          /\ discovered' = discovered \cup taken \cup {s \in Sessions("grok") : Running(s)}
          /\ reused' = reused \cup taken
    /\ UNCHANGED <<worldVars, connections, daemonVars, historyVars, deaths, overBefore>>

(* seed_existing_sessions(): those of Claude Code first.                       *)
Seed(s) ==
    /\ daemon = "seed"
    /\ s \in discovered
    /\ agent[s] # "claude" => Sessions("claude") \cap discovered = {}
    /\ discovered' = discovered \ {s}
    /\ \E i \in Slots \cup {NoSlot} :
          /\ Allocate(s, i)
          /\ session_agents' = IF i = NoSlot THEN session_agents
                               ELSE [session_agents EXCEPT ![s] = agent[s]]
          /\ Show(i, "idle")
    /\ UNCHANGED <<worldVars, connections, daemon, historyVars, deaths, overBefore, reused>>

Listen ==
    /\ daemon = "seed"
    /\ discovered = {}
    /\ daemon' = "listening"
    /\ UNCHANGED <<worldVars, connections, daemonVars, historyVars, startVars>>

--------------------------------------------------------------------------------
Next ==
    \/ \E s \in Session : HookRuns(s) \/ SessionDies(s) \/ Seed(s)
    \/ \E c \in connections : ConnectionRead(c) \/ ConnectionDropped(c)
    \/ \E i \in Keys : KeyHeld(i)
    \/ DaemonDies
    \/ DaemonStarts
    \/ DiscoverClaude
    \/ DiscoverGrok
    \/ Listen

Spec == Init /\ [][Next]_vars

--------------------------------------------------------------------------------
AllRead(s) == \A c \in connections : c.session # s

(* A session that is over holds no slot once its lines are read, if the daemon *)
(* has read its end and none of its hooks after a later one: no adapter, and   *)
(* no second adapter the agent runs as well, sends anything behind the end.    *)
NoPhantom ==
    \A s \in Session :
        s \in ended \ overtaken /\ AllRead(s) => ~ Mapped(s)

(* A session that was over when the daemon started never gets a slot, however  *)
(* it ended and whatever the agents' own records still say of it, unless       *)
(* another process has its pid: restarting the daemon clears the pad of the    *)
(* dead.                                                                       *)
NoGhostSeed == \A s \in overBefore \ reused : ~ Mapped(s)

(* A session that owns a slot is known under the agent that runs it, whichever *)
(* adapter's line came first.                                                  *)
AgentIsItsOwn == \A s \in Session : Mapped(s) => session_agents[s] = agent[s]

(* A slot shows what its session's last hook asks for once the daemon has read *)
(* it, in the vocabulary of fake_hooks.py's simulators: whatever was lost      *)
(* before, be it a start, a restart or a line too long, and whichever agent's  *)
(* own words it was in.                                                        *)
ShowsLastHook ==
    \A s \in Session :
        s \in current \ overtaken /\ AllRead(s) /\ Mapped(s)
            => shown[session_to_slot[s]] = hook_to_state(Simulated[agent[s]][ran[s]])
================================================================================
