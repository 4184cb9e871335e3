---------------------------- MODULE MCMacropadDaemon ----------------------------
(* MacropadDaemon on small instances.                                          *)
EXTENDS MacropadDaemon, TLC

(* The least that lets the threads meet: a lazy allocation, a tracked call and *)
(* the end of the session.                                                     *)
MCRaceEvents == {Plain("PreToolUse"), Plain("SubagentStop"), Plain("SessionEnd")}

(* Each thing a handler can do: start, end, start a call, end it well or not,  *)
(* ask (as a tool or not), just show a state, show nothing.  Of the events     *)
(* that differ from one of these in a colour only, none.                       *)
MCAllEvents ==
    {Plain(name) : name \in {"SessionStart", "SessionEnd", "PreToolUse", "PostToolUse",
                             "PostToolUseFailure", "PermissionRequest", "UserPromptSubmit",
                             "Stop", "SubagentStop"}}
    \cup {ToolEvent("PreToolUse", "AskUserQuestion")}

MCStartEndEvents == {Plain("SessionStart"), Plain("SessionEnd")}

MCSymmetry == Permutations(Session)

MCOneSlot == {0}
=================================================================================
