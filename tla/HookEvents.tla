------------------------------- MODULE HookEvents -------------------------------
(* The hook vocabulary the agents share and daemon.py's hook_to_state(), the   *)
(* pad state an event asks for.  A payload is a record of the three fields     *)
(* hook_to_state() reads; the other fields never affect the pad's state.       *)

(* Pad states of hid_protocol.py.  "off" is what a cleared slot is packed as.  *)
PadStates ==
    {"idle", "working", "tool_running", "tool_stalled", "question", "waiting",
     "done", "error", "off"}

(* hook_to_state() answering None: the event changes no display.               *)
NoState == "none"

ATTENTION_TOOLS == {"AskUserQuestion", "ExitPlanMode"}

BlockedNotifications == {"agent_needs_input", "permission_prompt"}

(* The table at the end of hook_to_state().                                    *)
StateTable ==
    [SessionStart       |-> "idle",
     UserPromptSubmit   |-> "working",
     PreToolUse         |-> "tool_running",
     PostToolUse        |-> "working",
     PostToolUseFailure |-> "error",
     Stop               |-> "done",
     StopFailure        |-> "error",
     StopCancelled      |-> "done"]

(* Mutant: a question reported by a name the pad protocol does not know.       *)
AsksUnknownState(event) ==
    IF event.name = "PermissionRequest" THEN "needs_input"
    ELSE IF event.name \in DOMAIN StateTable THEN StateTable[event.name] ELSE NoState

hook_to_state(event) ==
    CASE event.name = "PreToolUse" /\ event.tool \in ATTENTION_TOOLS -> "question"
      [] event.name = "PermissionRequest" -> "question"
      [] event.name = "Notification" ->
            IF event.ntype \in BlockedNotifications THEN "question"
            ELSE IF event.ntype = "idle_prompt" THEN "waiting" ELSE NoState
      [] OTHER ->
            IF event.name \in DOMAIN StateTable THEN StateTable[event.name] ELSE NoState

(* Payloads, by the field that matters to each event.                          *)
ToolEvent(name, tool) == [name |-> name, tool |-> tool, ntype |-> "none"]
Plain(name) == ToolEvent(name, "Bash")
Notify(ntype) == [name |-> "Notification", tool |-> "none", ntype |-> ntype]

(* Every event an adapter forwards: it drops what has no name or no session    *)
(* and what is not in the shared vocabulary's spelling.  SubagentStop stands   *)
(* for the ones hook_to_state() does not know, two plain tools for all.        *)
HookEvent ==
    {Plain(name) : name \in DOMAIN StateTable
                        \cup {"SessionEnd", "PermissionRequest", "SubagentStop"}}
    \cup {ToolEvent(name, tool) :
              name \in {"PreToolUse", "PostToolUse", "PostToolUseFailure"},
              tool \in ATTENTION_TOOLS \cup {"Bash", "Read"}}
    \cup {Notify(ntype) : ntype \in BlockedNotifications \cup {"idle_prompt", "auth_success"}}
=================================================================================
