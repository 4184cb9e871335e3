------------------------------ MODULE ParallelCalls ------------------------------
(* MacropadDaemon with one more history variable: the tool calls a session has *)
(* started and not yet finished, which the daemon does not keep.  It keeps one *)
(* record per session, so a session that runs two tools at once is the case in *)
(* which pending_calls and the calls that are really open part ways.           *)
EXTENDS MacropadDaemon

VARIABLE openCalls   \* session -> tools with a PreToolUse and no PostToolUse yet

parallelVars == <<vars, openCalls>>

(* The loop takes up an event exactly when it leaves "idle" with a session.    *)
EventTaken == loop.pc = "idle" /\ loop'.event # NoEvent

OpenAfter(event, open) ==
    CASE event.name = "PreToolUse" -> open \cup {event.tool}
      [] event.name \in {"PostToolUse", "PostToolUseFailure"} -> open \ {event.tool}
      [] OTHER -> open

ParallelInit == Init /\ openCalls = [s \in Session |-> {}]

ParallelNext ==
    /\ Next
    /\ openCalls' = IF EventTaken
                    THEN [openCalls EXCEPT ![loop'.session] = OpenAfter(loop'.event, @)]
                    ELSE openCalls

ParallelSpec == ParallelInit /\ [][ParallelNext]_parallelVars

(* "A PreToolUse with no matching PostToolUse/PostToolUseFailure ... is        *)
(* escalated": a call that is still open is still tracked.  The PostToolUse of *)
(* one tool drops the session's record though another tool is running.         *)
OpenCallIsTracked ==
    Quiet => \A s \in Session : openCalls[s] # {} => Tracked(s)
==================================================================================
