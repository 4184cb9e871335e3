---------------------------- MODULE MCParallelCalls ----------------------------
(* ParallelCalls on a small instance: two tools that start and end.            *)
EXTENDS ParallelCalls

MCToolEvents ==
    {ToolEvent(name, tool) : name \in {"PreToolUse", "PostToolUse"}, tool \in {"Bash", "Read"}}
================================================================================
