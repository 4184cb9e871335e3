--------------------------- MODULE HookDeliveryProofs ---------------------------
(* That restarting the daemon clears the pad of the dead, and that a session   *)
(* is shown by its own last hook, under its own agent and not past its end,    *)
(* for any sessions, slots, keys and bounds, and whichever agents may run it.  *)
EXTENDS HookDelivery, SlotManagerProofs

(* What the daemon is told, by a line or by discovery, is never of a session   *)
(* that was over when it started, unless its pid was taken.                    *)
NobodyReturns ==
    /\ \A s \in overBefore : s \in Session /\ Over(s)
    /\ discovered \subseteq Session
    /\ discovered \cap overBefore \subseteq reused
    /\ \A c \in connections : c.session \in Session \ overBefore

(* A dead daemon's memory, and what was on its way to it, is gone.             *)
DeadForget ==
    daemon = "down" =>
        connections \cup discovered = {} /\ \A s \in Session : ~ Mapped(s)

WorldOK ==
    /\ agent \in [Session -> Agent \cup {NoAgent}]
    /\ ran \in [Session -> Nat]

(* NoGhostSeed is not inductive: the slot of a dead session could come from a  *)
(* line that is still on its way or from what an earlier start discovered.     *)
GhostInv == SlotInv /\ WorldOK /\ NobodyReturns /\ DeadForget /\ NoGhostSeed

(* It holds before any session is open.                                        *)
LEMMA GhostInit == Init => GhostInv
  <1> SUFFICES ASSUME Init PROVE GhostInv
    OBVIOUS
  <1>1. SlotInv
    BY SlotInitInv DEF Init
  <1> QED
    BY <1>1 DEF Init, GhostInv, WorldOK, NobodyReturns, DeadForget, NoGhostSeed

(* A session that is over runs no hook, so it stays over.                      *)
LEMMA OverStays ==
    ASSUME WorldOK, NEW s \in Session, Over(s),
           \/ UNCHANGED worldVars
           \/ \E t \in Session : HookRuns(t) \/ SessionDies(t)
    PROVE  Over(s)'
  <1>1. CASE UNCHANGED worldVars
    BY <1>1 DEF worldVars, Over, Finished, Started
  <1>2. ASSUME NEW t \in Session, HookRuns(t) PROVE Over(s)'
    <2>1. s # t
      BY <1>2 DEF HookRuns
    <2>2. agent'[s] = agent[s] /\ ran'[s] = ran[s] /\ killed' = killed
      BY <1>2, <2>1 DEF HookRuns, WorldOK
    <2> QED
      BY <2>2 DEF Over, Finished, Started
  <1>3. ASSUME NEW t \in Session, SessionDies(t) PROVE Over(s)'
    BY <1>3 DEF SessionDies, Over, Finished, Started
  <1> QED
    BY <1>1, <1>2, <1>3

(* What the agents do.                                                         *)
LEMMA AgentsKeepInv ==
    ASSUME GhostInv, NEW s \in Session, HookRuns(s) \/ SessionDies(s)
    PROVE  GhostInv'
  <1> USE DEF GhostInv
  <1>1. UNCHANGED <<slot_to_session, session_to_slot, daemon, discovered, overBefore, reused>>
    BY DEF HookRuns, SessionDies, daemonVars, slotVars, startVars
  <1>2. SlotInv'
    BY <1>1 DEF SlotInv, SlotTypeOK, TablesAgree
  <1>3. WorldOK'
    <2>1. CASE HookRuns(s)
      <3>1. PICK a \in IF Started(s) THEN {agent[s]} ELSE MayRun[s] :
                agent' = [agent EXCEPT ![s] = a]
        BY <2>1 DEF HookRuns
      <3>2. a \in Agent \cup {NoAgent}
        BY <3>1, MayRunAssumption DEF WorldOK
      <3> QED
        BY <2>1, <3>1, <3>2 DEF HookRuns, WorldOK
    <2>2. CASE SessionDies(s)
      BY <2>2 DEF SessionDies, WorldOK
    <2> QED
      BY <2>1, <2>2
  <1>4. \A r \in overBefore' : r \in Session /\ Over(r)'
    BY <1>1, OverStays DEF NobodyReturns
  <1>5. \A c \in connections' : c.session \in Session \ overBefore'
    <2>1. CASE HookRuns(s)
      <3>1. ~ Over(s)
        BY <2>1 DEF HookRuns
      <3>2. s \notin overBefore
        BY <3>1 DEF NobodyReturns
      <3>3. \A c \in connections' : c \in connections \/ c.session = s
        BY <2>1 DEF HookRuns
      <3> QED
        BY <1>1, <3>2, <3>3 DEF NobodyReturns
    <2>2. CASE SessionDies(s)
      BY <1>1, <2>2 DEF SessionDies, NobodyReturns
    <2> QED
      BY <2>1, <2>2
  <1>6. DeadForget'
    <2> SUFFICES ASSUME daemon = "down"
                 PROVE  connections' = {} /\ discovered = {} /\ \A r \in Session : ~ Mapped(r)'
      BY <1>1 DEF DeadForget
    <2>1. connections' = connections
      BY DEF HookRuns, SessionDies
    <2> QED
      BY <1>1, <2>1 DEF DeadForget, Mapped
  <1>7. NoGhostSeed'
    BY <1>1 DEF NoGhostSeed, Mapped
  <1> QED
    BY <1>1, <1>2, <1>3, <1>4, <1>5, <1>6, <1>7 DEF NobodyReturns

(* Only the session an operation is for can come by a slot.                    *)
LEMMA AllocateMapsOne ==
    ASSUME SlotInv, NEW s \in Session, NEW i \in Slots \cup {NoSlot}, Allocate(s, i)
    PROVE  \A r \in Session : Mapped(r)' => r = s \/ Mapped(r)
  BY DEF SlotInv, SlotTypeOK, Allocate, AllocateExisting, AllocateFirstFit, AllocateFull,
         Mapped, slotVars

(* free() and evict() give nobody a slot.                                      *)
LEMMA FreeMapsNone ==
    ASSUME SlotInv, NEW s \in Session, NEW i \in Slots \cup {NoSlot}, Free(s, i)
    PROVE  \A r \in Session : Mapped(r)' => Mapped(r)
  BY DEF SlotInv, SlotTypeOK, Free, Mapped

(* Nor does a held key.                                                        *)
LEMMA EvictMapsNone ==
    ASSUME SlotInv, NEW i \in Slots, NEW s \in Session, Evict(i, s)
    PROVE  \A r \in Session : Mapped(r)' => Mapped(r)
  BY NoSessionAssumption DEF SlotInv, SlotTypeOK, Evict, Mapped

(* The lines a listening daemon reads, drops, or is spared by an eviction.     *)
LEMMA ListeningKeepsInv ==
    ASSUME GhostInv,
           \/ \E c \in connections : ConnectionRead(c) \/ ConnectionDropped(c)
           \/ \E i \in Keys : KeyHeld(i)
    PROVE  GhostInv'
  <1> USE DEF GhostInv
  <1>1. /\ UNCHANGED <<agent, ran, killed, daemon, discovered, overBefore, reused>>
        /\ daemon = "listening"
        /\ connections' \subseteq connections
    BY DEF ConnectionRead, ConnectionDropped, KeyHeld, worldVars, startVars
  <1>2. WorldOK' /\ DeadForget'
    BY <1>1 DEF WorldOK, DeadForget
  <1>3. NobodyReturns'
    BY <1>1, OverStays DEF NobodyReturns, worldVars
  <1>4. SlotInv' /\ NoGhostSeed'
    <2>1. ASSUME NEW c \in connections, ConnectionRead(c) PROVE SlotInv' /\ NoGhostSeed'
      <3>1. c.session \in Session \ overBefore
        BY DEF NobodyReturns
      <3>2. PICK i \in Slots \cup {NoSlot} : Allocate(c.session, i) \/ Free(c.session, i)
        BY <2>1 DEF ConnectionRead, handle_hook_event, HandleStart, HandleEnd, HandleOther
      <3>3. SlotInv'
        BY <3>1, <3>2, AllocatePreserves, FreePreserves
      <3>4. \A r \in Session : Mapped(r)' => r = c.session \/ Mapped(r)
        BY <3>1, <3>2, AllocateMapsOne, FreeMapsNone
      <3> QED
        BY <1>1, <3>1, <3>3, <3>4 DEF NoGhostSeed, NobodyReturns
    <2>2. ASSUME NEW c \in connections, ConnectionDropped(c) PROVE SlotInv' /\ NoGhostSeed'
      <3>1. UNCHANGED slotVars
        BY <2>2 DEF ConnectionDropped, daemonVars
      <3> QED
        BY <1>1, <3>1 DEF slotVars, SlotInv, SlotTypeOK, TablesAgree, NoGhostSeed, Mapped
    <2>3. ASSUME NEW i \in Keys, KeyHeld(i) PROVE SlotInv' /\ NoGhostSeed'
      <3>1. i \in Slots
        BY DeliveryKeysAssumption
      <3>2. PICK s \in Session : Evict(i, s)
        BY <2>3 DEF KeyHeld
      <3>3. SlotInv'
        BY <3>1, <3>2, EvictPreserves
      <3>4. \A r \in Session : Mapped(r)' => Mapped(r)
        BY <3>1, <3>2, EvictMapsNone
      <3> QED
        BY <1>1, <3>3, <3>4 DEF NoGhostSeed, NobodyReturns
    <2> QED
      BY <2>1, <2>2, <2>3
  <1> QED
    BY <1>2, <1>3, <1>4

(* The daemon's death and its way back to the socket.                          *)
LEMMA RestartKeepsInv ==
    ASSUME GhostInv, DaemonDies \/ DaemonStarts \/ DiscoverClaude \/ DiscoverGrok \/ Listen
    PROVE  GhostInv'
  <1> USE DEF GhostInv
  <1>1. UNCHANGED worldVars
    BY DEF DaemonDies, DaemonStarts, DiscoverClaude, DiscoverGrok, Listen
  <1>2. WorldOK'
    BY <1>1 DEF WorldOK, worldVars
  <1>3. CASE DaemonDies
    <2>1. SlotInv'
      BY <1>3, SlotIsNotNoSlot, NoSessionAssumption
      DEF DaemonDies, Forget, SlotInv, SlotTypeOK, TablesAgree
    <2>2. \A r \in Session : ~ Mapped(r)'
      BY <1>3 DEF DaemonDies, Forget, Mapped
    <2>3. NobodyReturns'
      BY <1>1, <1>3, OverStays DEF DaemonDies, NobodyReturns
    <2> QED
      BY <1>2, <1>3, <2>1, <2>2, <2>3 DEF DaemonDies, DeadForget, NoGhostSeed, NobodyReturns
  <1>4. CASE ~ DaemonDies
    <2>1. SlotInv'
      BY <1>4 DEF DaemonStarts, DiscoverClaude, DiscoverGrok, Listen, daemonVars, slotVars,
                  SlotInv, SlotTypeOK, TablesAgree
    <2>2. \A r \in Session : Mapped(r)' = Mapped(r)
      BY <1>4 DEF DaemonStarts, DiscoverClaude, DiscoverGrok, Listen, daemonVars, slotVars, Mapped
    <2>3. \A r \in Session : Over(r) => Over(r)'
      BY <1>1, OverStays
    <2>4. CASE DaemonStarts
      BY <1>2, <2>1, <2>2, <2>3, <2>4 DEF DaemonStarts, DeadForget, NoGhostSeed, NobodyReturns
    <2>5. CASE DiscoverClaude
      <3>1. \A s \in discovered' : s \in Session /\ ~ Over(s)
        BY <2>5 DEF DiscoverClaude, Sessions, Running
      <3> QED
        BY <1>2, <2>1, <2>2, <2>3, <2>5, <3>1
        DEF DiscoverClaude, DeadForget, NoGhostSeed, NobodyReturns
    <2>6. CASE DiscoverGrok
      <3>1. PICK taken \in SUBSET (killed \cap Sessions("grok")) :
                /\ discovered' = discovered \cup taken \cup {s \in Sessions("grok") : Running(s)}
                /\ reused' = reused \cup taken
        BY <2>6 DEF DiscoverGrok
      <3>2. \A s \in discovered' : s \in Session /\ (s \in discovered \/ s \in taken \/ ~ Over(s))
        BY <3>1 DEF Sessions, Running, NobodyReturns
      <3>3. NobodyReturns'
        BY <2>3, <2>6, <3>1, <3>2 DEF DiscoverGrok, NobodyReturns
      <3> QED
        BY <1>2, <2>1, <2>2, <2>6, <3>1, <3>3
        DEF DiscoverGrok, DeadForget, NoGhostSeed, NobodyReturns
    <2>7. CASE Listen
      BY <1>2, <2>1, <2>2, <2>3, <2>7 DEF Listen, startVars, DeadForget, NoGhostSeed, NobodyReturns
    <2> QED
      BY <1>4, <2>4, <2>5, <2>6, <2>7
  <1> QED
    BY <1>3, <1>4

(* What discovery found is seeded.                                             *)
LEMMA SeedKeepsInv ==
    ASSUME GhostInv, NEW s \in Session, Seed(s)
    PROVE  GhostInv'
  <1> USE DEF GhostInv
  <1>1. /\ UNCHANGED <<agent, ran, killed, connections, daemon, overBefore, reused>>
        /\ discovered' = discovered \ {s}
        /\ s \in discovered
        /\ daemon = "seed"
    BY DEF Seed, worldVars
  <1>2. PICK i \in Slots \cup {NoSlot} : Allocate(s, i)
    BY DEF Seed
  <1>3. SlotInv'
    BY <1>2, AllocatePreserves
  <1>4. \A r \in Session : Mapped(r)' => r = s \/ Mapped(r)
    BY <1>2, AllocateMapsOne
  <1>5. WorldOK' /\ DeadForget'
    BY <1>1 DEF WorldOK, DeadForget
  <1>6. NobodyReturns'
    BY <1>1, OverStays DEF NobodyReturns, worldVars
  <1>7. NoGhostSeed'
    BY <1>1, <1>4 DEF NoGhostSeed, NobodyReturns
  <1> QED
    BY <1>3, <1>5, <1>6, <1>7

(* So every step keeps it.                                                     *)
LEMMA GhostNext == GhostInv /\ [Next]_vars => GhostInv'
  <1> SUFFICES ASSUME GhostInv, [Next]_vars PROVE GhostInv'
    OBVIOUS
  <1>1. CASE UNCHANGED vars
    BY <1>1 DEF vars, worldVars, daemonVars, slotVars, startVars, GhostInv, SlotInv, SlotTypeOK,
                TablesAgree, WorldOK, NobodyReturns, DeadForget, NoGhostSeed, Mapped, Over,
                Finished, Started
  <1>2. CASE Next
    BY <1>2, AgentsKeepInv, ListeningKeepsInv, RestartKeepsInv, SeedKeepsInv DEF Next
  <1> QED
    BY <1>1, <1>2

(* No session that was over when the daemon started gets a slot from it.       *)
THEOREM NoGhosts == Spec => []NoGhostSeed
  <1>1. GhostInv => NoGhostSeed
    BY DEF GhostInv
  <1> QED
    BY <1>1, GhostInit, GhostNext, PTL DEF Spec

(* The slot tables agree, also across the daemon's deaths.                     *)
THEOREM DeliveryTablesAgree == Spec => []TablesAgree
  <1>1. GhostInv => TablesAgree
    BY DEF GhostInv, SlotInv
  <1> QED
    BY <1>1, GhostInit, GhostNext, PTL DEF Spec

--------------------------------------------------------------------------------
(* The adapters: what reaches the socket of an agent's hook, for every agent.  *)

(* The events the simulators use, and those of them that can come between the  *)
(* prompt and the stop.                                                        *)
MidEvents ==
    {ToolEvent(name, tool) : name \in {"PreToolUse", "PostToolUse"},
        tool \in {"Read", "AskUserQuestion", "ExitPlanMode", "Bash", "apply_patch",
                  "run_terminal_command", "Shell"}}
    \cup {Plain("PermissionRequest"), Notify("idle_prompt"), Notify("permission_prompt")}

(* Every agent's work is a sequence of these.                                  *)
LEMMA WorkIsMid ==
  ASSUME NEW a \in Agent
  PROVE  Work[a] \in Seq(MidEvents)
  <1>1. ASSUME NEW tool \in {"Read", "AskUserQuestion", "ExitPlanMode", "Bash", "apply_patch",
                             "run_terminal_command", "Shell"},
               NEW name \in {"PreToolUse", "PostToolUse"}
        PROVE  ToolEvent(name, tool) \in MidEvents
    BY DEF MidEvents
  <1>2. /\ Plain("PermissionRequest") \in MidEvents
        /\ Notify("idle_prompt") \in MidEvents
        /\ Notify("permission_prompt") \in MidEvents
    BY DEF MidEvents
  <1> HIDE DEF MidEvents
  <1>3. ASSUME NEW tool \in {"Read", "AskUserQuestion", "ExitPlanMode", "Bash", "Shell"}
        PROVE  ToolCall(tool) \in Seq(MidEvents)
    BY <1>1 DEF ToolCall
  <1>4. CASE a = "claude"
    <2>1. <<Plain("PermissionRequest"), Notify("idle_prompt")>> \in Seq(MidEvents)
      BY <1>2
    <2>2. Work[a] = ToolCall("Read") \o ToolCall("AskUserQuestion") \o ToolCall("ExitPlanMode")
                    \o <<Plain("PermissionRequest"), Notify("idle_prompt")>>
      BY <1>4 DEF Work
    <2>3. QED BY <1>3, <2>1, <2>2
  <1>5. CASE a = "codex"
    <2>1. <<ToolEvent("PreToolUse", "apply_patch"), Plain("PermissionRequest"),
            ToolEvent("PostToolUse", "apply_patch")>> \in Seq(MidEvents)
      BY <1>1, <1>2
    <2>2. QED BY <1>3, <1>5, <2>1 DEF Work
  <1>6. CASE a = "grok"
    <2>1. <<ToolEvent("PreToolUse", "run_terminal_command"), Notify("permission_prompt"),
            ToolEvent("PostToolUse", "run_terminal_command"), Notify("idle_prompt")>> \in Seq(MidEvents)
      BY <1>1, <1>2
    <2>2. QED BY <1>6, <2>1 DEF Work
  <1>7. CASE a = "cursor"
    BY <1>3, <1>7 DEF Work
  <1>8. QED BY <1>4, <1>5, <1>6, <1>7 DEF Agent

(* Where the parts of a joined sequence are.                                   *)
LEMMA Joined ==
  ASSUME NEW S, NEW s \in Seq(S), NEW t \in Seq(S)
  PROVE  /\ s \o t \in Seq(S)
         /\ Len(s \o t) = Len(s) + Len(t)
         /\ \A k \in 1 .. (Len(s) + Len(t)) :
               (s \o t)[k] = IF k <= Len(s) THEN s[k] ELSE t[k - Len(s)]
  OBVIOUS

(* An agent opens, works and closes; its closing ends with the end.            *)
LEMMA SimulatedParts ==
  ASSUME NEW a \in Agent
  PROVE  /\ Len(Work[a]) \in Nat
         /\ Len(Simulated[a]) = Len(Work[a]) + 4
         /\ Simulated[a][1] = Plain("SessionStart")
         /\ Simulated[a][2] = Plain("UserPromptSubmit")
         /\ \A k \in 3 .. (Len(Work[a]) + 2) :
               Simulated[a][k] = Work[a][k - 2] /\ Work[a][k - 2] \in MidEvents
         /\ Simulated[a][Len(Work[a]) + 3] = Plain("Stop")
         /\ Simulated[a][Len(Work[a]) + 4] = Plain("SessionEnd")
  <1> DEFINE w == Work[a]
             All == MidEvents \cup {Plain("SessionStart"), Plain("UserPromptSubmit"),
                                    Plain("Stop"), Plain("SessionEnd")}
             x == Opening \o w
             y == x \o Closing
  <1>1. w \in Seq(MidEvents)
    BY WorkIsMid
  <1>2. Opening \in Seq(All) /\ Len(Opening) = 2 /\ Closing \in Seq(All) /\ Len(Closing) = 2
    BY DEF Opening, Closing
  <1>3. /\ Opening[1] = Plain("SessionStart") /\ Opening[2] = Plain("UserPromptSubmit")
        /\ Closing[1] = Plain("Stop") /\ Closing[2] = Plain("SessionEnd")
    BY DEF Opening, Closing
  <1>4. Simulated[a] = y
    BY DEF Simulated
  <1> HIDE DEF w, All
  <1>5. w \in Seq(All) /\ Len(w) \in Nat /\ \A k \in 1 .. Len(w) : w[k] \in MidEvents
    BY <1>1 DEF All
  <1>6. /\ x \in Seq(All) /\ Len(x) = Len(w) + 2
        /\ \A k \in 1 .. (2 + Len(w)) : x[k] = IF k <= 2 THEN Opening[k] ELSE w[k - 2]
    <2>1. Opening \in Seq(All) /\ Len(Opening) = 2
      BY <1>2
    <2>2. /\ x \in Seq(All) /\ Len(x) = Len(Opening) + Len(w)
          /\ \A k \in 1 .. (Len(Opening) + Len(w)) :
                x[k] = IF k <= Len(Opening) THEN Opening[k] ELSE w[k - Len(Opening)]
      BY <1>5, <2>1, Joined
    <2> HIDE DEF x
    <2>3. QED BY <1>5, <2>1, <2>2
  <1> HIDE DEF x
  <1>7. /\ Len(y) = Len(w) + 4
        /\ \A k \in 1 .. (Len(w) + 4) : y[k] = IF k <= Len(w) + 2 THEN x[k] ELSE Closing[k - (Len(w) + 2)]
    <2>1. Closing \in Seq(All) /\ Len(Closing) = 2
      BY <1>2
    <2>2. /\ Len(y) = Len(x) + Len(Closing)
          /\ \A k \in 1 .. (Len(x) + Len(Closing)) :
                y[k] = IF k <= Len(x) THEN x[k] ELSE Closing[k - Len(x)]
      BY <1>6, <2>1, Joined
    <2> HIDE DEF y
    <2>3. QED BY <1>5, <1>6, <2>1, <2>2
  <1> HIDE DEF y
  <1>8. /\ y[1] = Opening[1] /\ y[2] = Opening[2]
        /\ \A k \in 3 .. (Len(w) + 2) : y[k] = w[k - 2] /\ w[k - 2] \in MidEvents
        /\ y[Len(w) + 3] = Closing[1] /\ y[Len(w) + 4] = Closing[2]
    BY <1>5, <1>6, <1>7
  <1>9. QED
    BY <1>3, <1>4, <1>5, <1>7, <1>8 DEF w

(* The names of these, and of those before and after.                          *)
Names ==
    {"SessionStart", "UserPromptSubmit", "Stop", "SessionEnd", "PreToolUse", "PostToolUse",
     "PermissionRequest", "Notification"}

(* A payload of a name of the vocabulary, with the fields that matter.         *)
IsEvent(e) == e.name \in Names /\ e = [name |-> e.name, tool |-> e.tool, ntype |-> e.ntype]

(* Every event has a name of the vocabulary, and a state unless it is the end. *)
LEMMA EventsKnown ==
  ASSUME NEW a \in Agent, NEW k \in 1 .. Len(Simulated[a])
  PROVE  /\ IsEvent(Simulated[a][k])
         /\ (Simulated[a][k].name = "SessionEnd") <=> (k = Len(Simulated[a]))
         /\ (Simulated[a][k].name = "SessionStart") <=> (k = 1)
         /\ Simulated[a][k].name # "SessionEnd" => hook_to_state(Simulated[a][k]) # NoState
         /\ Simulated[a][k].name = "SessionStart" => hook_to_state(Simulated[a][k]) = "idle"
  <1> DEFINE e == Simulated[a][k]
  <1>1. ASSUME NEW m \in MidEvents
        PROVE  /\ IsEvent(m)
               /\ m.name \notin {"SessionEnd", "SessionStart"}
               /\ hook_to_state(m) # NoState
    <2>1. ASSUME NEW name \in {"PreToolUse", "PostToolUse"}, NEW tool,
                 m = ToolEvent(name, tool)
          PROVE  IsEvent(m) /\ m.name = name /\ hook_to_state(m) # NoState
      <3>1. m = [name |-> name, tool |-> tool, ntype |-> "none"]
        BY <2>1 DEF ToolEvent
      <3>2. IsEvent(m) /\ m.name = name
        BY <3>1 DEF IsEvent, Names
      <3>3. StateTable["PreToolUse"] = "tool_running" /\ StateTable["PostToolUse"] = "working"
            /\ {"PreToolUse", "PostToolUse"} \subseteq DOMAIN StateTable
        BY DEF StateTable
      <3>4. hook_to_state(m) \in {"question", "tool_running", "working"}
        BY <3>2, <3>3 DEF hook_to_state
      <3>5. QED BY <3>2, <3>4 DEF NoState
    <2>2. CASE m = Plain("PermissionRequest")
      BY <2>2 DEF Plain, ToolEvent, IsEvent, Names, hook_to_state, NoState
    <2>3. CASE m \in {Notify("idle_prompt"), Notify("permission_prompt")}
      BY <2>3 DEF Notify, IsEvent, Names, hook_to_state, NoState, BlockedNotifications
    <2>4. QED BY <1>1, <2>1, <2>2, <2>3 DEF MidEvents
  <1>2. ASSUME NEW n \in {"SessionStart", "UserPromptSubmit", "Stop", "SessionEnd"}
        PROVE  IsEvent(Plain(n)) /\ Plain(n).name = n
    <2>1. Plain(n) = [name |-> n, tool |-> "Bash", ntype |-> "none"]
      BY DEF Plain, ToolEvent
    <2>2. QED BY <2>1 DEF IsEvent, Names
  <1>3. /\ hook_to_state(Plain("SessionStart")) = "idle"
        /\ hook_to_state(Plain("UserPromptSubmit")) = "working"
        /\ hook_to_state(Plain("Stop")) = "done"
    BY DEF Plain, ToolEvent, hook_to_state, StateTable
  <1> DEFINE n == Len(Work[a])
  <1>4. n \in Nat /\ k \in 1 .. (n + 4) /\ Len(Simulated[a]) = n + 4
    BY SimulatedParts
  <1>5. /\ Simulated[a][1] = Plain("SessionStart")
        /\ Simulated[a][2] = Plain("UserPromptSubmit")
        /\ \A j \in 3 .. (n + 2) : Simulated[a][j] \in MidEvents
        /\ Simulated[a][n + 3] = Plain("Stop")
        /\ Simulated[a][n + 4] = Plain("SessionEnd")
    BY SimulatedParts
  <1> HIDE DEF e, n
  <1>6. CASE k = 1
    <2>1. e = Plain("SessionStart")
      BY <1>5, <1>6 DEF e
    <2>2. IsEvent(e) /\ e.name = "SessionStart" /\ hook_to_state(e) = "idle"
      BY <1>2, <1>3, <2>1
    <2>3. QED BY <1>4, <1>6, <2>2 DEF e, NoState
  <1>7. CASE k = 2
    <2>1. e = Plain("UserPromptSubmit")
      BY <1>5, <1>7 DEF e
    <2>2. IsEvent(e) /\ e.name = "UserPromptSubmit" /\ hook_to_state(e) = "working"
      BY <1>2, <1>3, <2>1
    <2>3. QED BY <1>4, <1>7, <2>2 DEF e, NoState
  <1>8. CASE k \in 3 .. (n + 2)
    <2>1. e \in MidEvents
      BY <1>5, <1>8 DEF e
    <2>2. QED BY <1>1, <1>4, <1>8, <2>1 DEF e
  <1>9. CASE k = n + 3
    <2>1. e = Plain("Stop")
      BY <1>5, <1>9 DEF e
    <2>2. IsEvent(e) /\ e.name = "Stop" /\ hook_to_state(e) = "done"
      BY <1>2, <1>3, <2>1
    <2>3. QED BY <1>4, <1>9, <2>2 DEF e, NoState
  <1>10. CASE k = n + 4
    <2>1. e = Plain("SessionEnd")
      BY <1>5, <1>10 DEF e
    <2>2. IsEvent(e) /\ e.name = "SessionEnd"
      BY <1>2, <2>1
    <2>3. QED BY <1>4, <1>10, <2>2 DEF e
  <1>11. QED
    BY <1>4, <1>6, <1>7, <1>8, <1>9, <1>10

(* What is in PascalCase is one of these, and every name of an event is.       *)
LEMMA PascalCaseKnown ==
  /\ PascalCase \subseteq Names
  /\ \A a \in Agent : \A k \in 1 .. Len(Simulated[a]) : Simulated[a][k].name \in PascalCase
  <1>1. ASSUME NEW a \in Agent, NEW k \in 1 .. Len(Simulated[a])
        PROVE  Simulated[a][k].name \in Names
    BY EventsKnown DEF IsEvent
  <1> DEFINE Of(a) == {Simulated[a][k] : k \in 1 .. Len(Simulated[a])}
             events == UNION {Of(a) : a \in Agent}
  <1>2. ASSUME NEW e \in events PROVE e.name \in Names
    <2>1. PICK a \in Agent : e \in Of(a)
      OBVIOUS
    <2>2. PICK k \in 1 .. Len(Simulated[a]) : e = Simulated[a][k]
      BY <2>1
    <2>3. QED BY <1>1, <2>2
  <1>3. ASSUME NEW a \in Agent, NEW k \in 1 .. Len(Simulated[a])
        PROVE  Simulated[a][k] \in events
    OBVIOUS
  <1>4. PascalCase = {e.name : e \in events}
    BY DEF PascalCase
  <1> HIDE DEF events
  <1>5. QED BY <1>2, <1>3, <1>4

(* Grok's and Cursor's simulated sessions.                                     *)
LEMMA GrokSimulated ==
  /\ Len(Simulated["grok"]) = 8 /\ Len(GrokNames) = 9
  /\ \A k \in 1 .. 8 : GrokEventMap[GrokNames[k]] = Simulated["grok"][k].name
                       /\ GrokNames[k] \in DOMAIN GrokEventMap
  /\ GrokNames[9] = "stop"
  <1> DEFINE w == Work["grok"]
  <1>1. Len(w) = 4 /\ w[1].name = "PreToolUse" /\ w[2].name = "Notification"
        /\ w[3].name = "PostToolUse" /\ w[4].name = "Notification"
    BY DEF Work, ToolEvent, Notify
  <1>2. Len(GrokNames) = 9 /\ GrokNames[9] = "stop"
    BY DEF GrokNames
  <1>3. "grok" \in Agent
    BY DEF Agent
  <1> DEFINE e(k) == Simulated["grok"][k].name
  <1>4. Len(Simulated["grok"]) = Len(w) + 4
        /\ e(1) = Plain("SessionStart").name /\ e(2) = Plain("UserPromptSubmit").name
        /\ \A k \in 3 .. (Len(w) + 2) : e(k) = w[k - 2].name
        /\ e(Len(w) + 3) = Plain("Stop").name /\ e(Len(w) + 4) = Plain("SessionEnd").name
    BY <1>3, SimulatedParts
  <1>5. \A n : Plain(n).name = n
    BY DEF Plain, ToolEvent
  <1> HIDE DEF w, e
  <1>6. /\ Len(Simulated["grok"]) = 8
        /\ e(1) = "SessionStart" /\ e(2) = "UserPromptSubmit"
        /\ e(7) = "Stop" /\ e(8) = "SessionEnd"
        /\ \A k \in 3 .. 6 : e(k) = w[k - 2].name
    BY <1>1, <1>4, <1>5
  <1>7. /\ e(3) = "PreToolUse" /\ e(4) = "Notification" /\ e(5) = "PostToolUse"
        /\ e(6) = "Notification"
    BY <1>1, <1>6
  <1>8. ASSUME NEW k \in 1 .. 8
        PROVE  GrokEventMap[GrokNames[k]] = e(k) /\ GrokNames[k] \in DOMAIN GrokEventMap
    <2>1. k \in {1, 2, 3, 4, 5, 6, 7, 8}
      BY <1>8
    <2>2. QED BY <1>6, <1>7, <2>1 DEF GrokEventMap, GrokNames
  <1>9. QED BY <1>2, <1>6, <1>8 DEF e

(* Cursor has one name for each of its events, none in the shared spelling.    *)
LEMMA CursorSimulated ==
  /\ Len(Simulated["cursor"]) = 6
  /\ \A k \in 1 .. 6 : /\ CursorEventMap[CursorNames[k]] = Simulated["cursor"][k].name
                       /\ CursorNames[k] \in DOMAIN CursorEventMap
                       /\ CursorNames[k] \notin Names
  <1> DEFINE w == Work["cursor"]
  <1>1. Len(w) = 2 /\ w[1].name = "PreToolUse" /\ w[2].name = "PostToolUse"
    BY DEF Work, ToolCall, ToolEvent
  <1>2. "cursor" \in Agent
    BY DEF Agent
  <1> DEFINE e(k) == Simulated["cursor"][k].name
  <1>3. Len(Simulated["cursor"]) = Len(w) + 4
        /\ e(1) = Plain("SessionStart").name /\ e(2) = Plain("UserPromptSubmit").name
        /\ \A k \in 3 .. (Len(w) + 2) : e(k) = w[k - 2].name
        /\ e(Len(w) + 3) = Plain("Stop").name /\ e(Len(w) + 4) = Plain("SessionEnd").name
    BY <1>2, SimulatedParts
  <1>4. \A n : Plain(n).name = n
    BY DEF Plain, ToolEvent
  <1> HIDE DEF w, e
  <1>5. /\ Len(Simulated["cursor"]) = 6
        /\ e(1) = "SessionStart" /\ e(2) = "UserPromptSubmit"
        /\ e(5) = "Stop" /\ e(6) = "SessionEnd"
        /\ \A k \in 3 .. 4 : e(k) = w[k - 2].name
    BY <1>1, <1>3, <1>4
  <1>6. e(3) = "PreToolUse" /\ e(4) = "PostToolUse"
    BY <1>1, <1>5
  <1>7. ASSUME NEW k \in 1 .. 6
        PROVE  /\ CursorEventMap[CursorNames[k]] = e(k)
               /\ CursorNames[k] \in DOMAIN CursorEventMap
               /\ CursorNames[k] \notin Names
    <2>1. k \in {1, 2, 3, 4, 5, 6}
      BY <1>7
    <2>2. QED BY <1>5, <1>6, <2>1 DEF CursorEventMap, CursorNames, Names
  <1>8. QED BY <1>5, <1>7 DEF e

(* One line reaches the socket of each hook up to the end, under the agent     *)
(* that ran it and as the event that its own words stand for; none after it,   *)
(* and none from an adapter of another agent.                                  *)
LEMMA LinesTell ==
  ASSUME NEW a \in Agent, NEW k \in 1 .. Hooks(a)
  PROVE  Lines(a, k) = IF k <= Len(Simulated[a])
                       THEN {[agent |-> a, event |-> Simulated[a][k]]} ELSE {}
  <1> DEFINE e == Simulated[a][k]
             native == Native(a, k)
             last == Len(Simulated[a])
  <1>1. ASSUME k <= last
        PROVE  /\ IsEvent(e)
               /\ e.name \in PascalCase
               /\ [e EXCEPT !.name = e.name] = e
    <2>1. k \in 1 .. Len(Simulated[a])
      BY <1>1, SimulatedParts
    <2>2. IsEvent(e) /\ e.name \in PascalCase
      BY <2>1, EventsKnown, PascalCaseKnown
    <2> HIDE DEF e
    <2>3. QED BY <2>2 DEF IsEvent
  <1>2. CASE a \in {"claude", "codex"}
    <2>1. k <= last
      BY <1>2 DEF Hooks
    <2>2. native = [event |-> e, fields |-> "snake_case", reason |-> "end_turn"]
      BY <1>1, <1>2, <2>1 DEF Native
    <2> HIDE DEF native, e, last
    <2>3. QED BY <1>1, <1>2, <2>1, <2>2 DEF Lines, ClaudeHook, CodexHook, Forwarded, native, e, last
  <1>3. CASE a = "grok" /\ k <= 8
    <2>1. k <= last /\ k \in 1 .. 8
      BY <1>3, GrokSimulated
    <2>2. native = [event |-> [e EXCEPT !.name = GrokNames[k]], fields |-> "camelCase",
                    reason |-> "end_turn"]
      BY <1>3, <2>1 DEF Native
    <2>3. Translated(native.event, GrokEventMap) = e
      BY <1>1, <1>3, <2>1, <2>2, GrokSimulated DEF Translated
    <2>4. native.fields = "camelCase" /\ native.reason = "end_turn"
      BY <2>2
    <2> HIDE DEF native, e, last
    <2>5. ClaudeHook(native) = {} /\ GrokHook(native) = {[agent |-> a, event |-> e]}
      BY <1>3, <2>3, <2>4 DEF ClaudeHook, GrokHook, Forwarded
    <2>6. QED BY <1>3, <2>1, <2>5 DEF Lines, native, e, last
  <1>4. CASE a = "grok" /\ k > 8
    <2>0. Hooks("grok") = 9 /\ Len(Simulated["grok"]) = 8
      BY GrokSimulated DEF Hooks
    <2>1. k = 9 /\ ~(k <= last) /\ k > last
      BY <1>4, <2>0
    <2>2. native.event.name = "stop" /\ native.fields = "camelCase" /\ native.reason = "channel_closed"
      BY <1>4, <2>1, GrokSimulated DEF Native, Plain, ToolEvent
    <2> HIDE DEF native, e, last
    <2>3. ClaudeHook(native) = {} /\ GrokHook(native) = {}
      BY <2>2 DEF ClaudeHook, GrokHook
    <2>4. QED BY <1>4, <2>1, <2>3 DEF Lines, native, last
  <1>5. CASE a = "cursor"
    <2>0. Hooks("cursor") = 6 /\ Len(Simulated["cursor"]) = 6
      BY CursorSimulated DEF Hooks
    <2>1. k <= last /\ k \in 1 .. 6
      BY <1>5, <2>0
    <2>2. native = [event |-> [e EXCEPT !.name = CursorNames[k]], fields |-> "snake_case",
                    reason |-> "end_turn"]
      BY <1>5, <2>1 DEF Native
    <2>3. Translated(native.event, CursorEventMap) = e
      BY <1>1, <1>5, <2>1, <2>2, CursorSimulated DEF Translated
    <2>4. native.event.name \notin PascalCase
      <3>1. IsEvent(e)
        BY <1>1, <2>1
      <3> HIDE DEF e
      <3>2. [e EXCEPT !.name = CursorNames[k]].name = CursorNames[k]
        BY <3>1 DEF IsEvent
      <3> HIDE DEF native
      <3>3. native.event.name = CursorNames[k]
        BY <2>2, <3>2
      <3>4. QED BY <2>1, <3>3, CursorSimulated, PascalCaseKnown
    <2> HIDE DEF native, e, last
    <2>5. ClaudeHook(native) = {} /\ CursorHook(native) = {[agent |-> a, event |-> e]}
      BY <1>5, <2>3, <2>4 DEF ClaudeHook, CursorHook, Forwarded
    <2>6. QED BY <1>5, <2>1, <2>5 DEF Lines, native, e, last
  <1>6. QED BY <1>2, <1>3, <1>4, <1>5 DEF Agent, Hooks

(* What the daemon has in its memory of the sessions and what is on its way to *)
(* it: a line is what an adapter of the session's agent writes for that hook.  *)
LinesTrue ==
    \A c \in connections :
        /\ c = [session |-> c.session, hook |-> c.hook, line |-> c.line]
        /\ c.session \in Session
        /\ c.hook \in 1 .. ran[c.session]
        /\ c.line = [agent |-> agent[c.session],
                     event |-> Simulated[agent[c.session]][c.hook]]
        /\ c.hook <= Len(Simulated[agent[c.session]])

HooksCounted ==
    /\ agent \in [Session -> Agent \cup {NoAgent}]
    /\ ran \in [Session -> Nat]
    /\ \A s \in Session :
          Started(s) => agent[s] \in Agent /\ ran[s] <= Hooks(agent[s])

(* A daemon that is not listening has read nothing yet.                        *)
NothingReadYet == daemon # "listening" => current \cup ended \cup overtaken = {}

(* AgentIsItsOwn, and that only a session some hook of which has run is known. *)
OnlyTheStarted ==
    /\ \A s \in discovered : s \in Session /\ Started(s)
    /\ session_agents \in [Session -> Agent \cup {NoAgent}]
    /\ \A s \in Session : Mapped(s) => Started(s) /\ session_agents[s] = agent[s]

(* Nothing of a session is on its way behind its end.                          *)
EndIsTheEnd ==
    \A s \in ended \ overtaken :
        /\ s \in Session
        /\ AllRead(s)
        /\ ran[s] >= Len(Simulated[agent[s]])
        /\ Started(s)
        /\ ~ Mapped(s)

(* Nothing of a session is on its way whose last hook was read.                *)
LastIsShown ==
    /\ shown = [i \in Slots |-> shown[i]]
    /\ \A s \in current \ overtaken :
          /\ s \in Session
          /\ Started(s)
          /\ AllRead(s)
          /\ Mapped(s) => shown[session_to_slot[s]] = hook_to_state(Simulated[agent[s]][ran[s]])

(* None of NoPhantom, AgentIsItsOwn and ShowsLastHook is inductive: each rests *)
(* on what is still on its way and on what the daemon forgot when it died.     *)
DeliveryInv ==
    SlotInv /\ LinesTrue /\ HooksCounted /\ NothingReadYet /\ OnlyTheStarted /\ EndIsTheEnd /\ LastIsShown

(* An agent has as many hooks as events, and Grok one more.                    *)
LEMMA HooksKnown ==
  ASSUME NEW a \in Agent
  PROVE  /\ Hooks(a) \in Nat /\ Len(Simulated[a]) \in Nat
         /\ 1 <= Len(Simulated[a]) /\ Len(Simulated[a]) <= Hooks(a)
  <1>1. Len(Simulated[a]) \in Nat /\ 1 <= Len(Simulated[a])
    BY SimulatedParts
  <1>2. CASE a = "grok"
    <2>1. Hooks("grok") = 9 /\ Len(Simulated["grok"]) = 8
      BY GrokSimulated DEF Hooks
    <2>2. QED BY <1>2, <2>1
  <1>3. CASE a # "grok"
    <2>1. Hooks(a) = Len(Simulated[a])
      BY <1>3 DEF Hooks
    <2>2. QED BY <1>1, <2>1
  <1>4. QED BY <1>2, <1>3

(* What an operation on the slots does to the sessions' slots.                 *)
LEMMA AllocateGives ==
  ASSUME SlotInv, NEW s \in Session, NEW i \in Slots \cup {NoSlot}, Allocate(s, i)
  PROVE  /\ SlotInv'
         /\ i = session_to_slot'[s]
         /\ Mapped(s) => i = session_to_slot[s]
         /\ \A r \in Session \ {s} : session_to_slot'[r] = session_to_slot[r]
  <1>1. SlotInv'
    BY AllocatePreserves
  <1>2. QED
    BY <1>1 DEF SlotInv, SlotTypeOK, Allocate, AllocateExisting, AllocateFirstFit, AllocateFull,
                Mapped, slotVars

(* A freed session has none.                                                   *)
LEMMA FreeTakes ==
  ASSUME SlotInv, NEW s \in Session, NEW i \in Slots \cup {NoSlot}, Free(s, i)
  PROVE  /\ SlotInv'
         /\ i = session_to_slot[s] /\ session_to_slot'[s] = NoSlot
         /\ \A r \in Session \ {s} : session_to_slot'[r] = session_to_slot[r]
  <1>1. SlotInv'
    BY FreePreserves
  <1>2. QED
    BY <1>1 DEF SlotInv, SlotTypeOK, Free

(* Neither has the one whose key was held.                                     *)
LEMMA EvictTakes ==
  ASSUME SlotInv, NEW s \in Session, NEW i \in Slots, Evict(i, s)
  PROVE  /\ SlotInv'
         /\ i = session_to_slot[s] /\ session_to_slot'[s] = NoSlot
         /\ \A r \in Session \ {s} : session_to_slot'[r] = session_to_slot[r]
  <1>1. SlotInv'
    BY EvictPreserves
  <1>2. QED
    BY <1>1, NoSessionAssumption DEF SlotInv, SlotTypeOK, TablesAgree, Evict

(* Two sessions have two slots.                                                *)
LEMMA SlotsApart ==
  ASSUME SlotInv, NEW r \in Session, NEW s \in Session, r # s, Mapped(r)
  PROVE  session_to_slot[r] \in Slots /\ session_to_slot[r] # session_to_slot[s]
  BY DEF SlotInv, SlotTypeOK, TablesAgree, Mapped

(* A display is changed at its own slot only.                                  *)
LEMMA ShowSets ==
  ASSUME shown = [j \in Slots |-> shown[j]], NEW i \in Slots \cup {NoSlot}, NEW state, Show(i, state)
  PROVE  /\ shown' = [j \in Slots |-> shown'[j]]
         /\ \A j \in Slots : shown'[j] = IF j = i /\ state # NoState THEN state ELSE shown[j]
  <1>1. NoSlot \notin Slots
    BY SlotIsNotNoSlot
  <1>2. CASE i = NoSlot \/ state = NoState
    BY <1>1, <1>2 DEF Show
  <1>3. CASE i \in Slots /\ state # NoState
    BY <1>1, <1>3 DEF Show
  <1>4. QED BY <1>2, <1>3

(* It holds before any session is open.                                        *)
LEMMA DeliveryInit == Init => DeliveryInv
  <1> SUFFICES ASSUME Init PROVE DeliveryInv
    OBVIOUS
  <1>1. SlotInv
    BY SlotInitInv DEF Init
  <1>2. \A s \in Session : ~ Mapped(s)
    BY DEF Init, SlotInit, Mapped
  <1>3. QED
    BY <1>1, <1>2 DEF Init, DeliveryInv, LinesTrue, HooksCounted, NothingReadYet, OnlyTheStarted,
                      EndIsTheEnd, LastIsShown, Started

(* A hook's lines are the ones the daemon may be told of it.                   *)
LEMMA HookKeeps ==
  ASSUME DeliveryInv, NEW s \in Session, HookRuns(s)
  PROVE  DeliveryInv'
  <1> USE DEF DeliveryInv
  <1>1. PICK a \in IF Started(s) THEN {agent[s]} ELSE MayRun[s] :
           LET lines == {[session |-> s, hook |-> ran[s] + 1, line |-> l] : l \in Lines(a, ran[s] + 1)}
           IN /\ agent' = [agent EXCEPT ![s] = a]
              /\ connections' = IF daemon = "listening" THEN connections \cup lines ELSE connections
    BY DEF HookRuns
  <1>2. a \in Agent /\ (Started(s) => a = agent[s])
    BY <1>1, MayRunAssumption DEF HooksCounted
  <1>3. /\ UNCHANGED <<slot_to_session, session_to_slot, session_agents, shown, daemon, discovered,
                       ended, overtaken>>
        /\ current' = current \ {s}
        /\ ran' = [ran EXCEPT ![s] = @ + 1]
    BY DEF HookRuns, daemonVars, slotVars, startVars
  <1>4. /\ ran[s] \in Nat /\ ran'[s] = ran[s] + 1 /\ agent'[s] = a
        /\ \A r \in Session \ {s} : ran'[r] = ran[r] /\ agent'[r] = agent[r]
    BY <1>1, <1>3 DEF HooksCounted
  <1>5. ran[s] + 1 \in 1 .. Hooks(a)
    <2>1. ~ Finished(s)
      BY DEF HookRuns, Over
    <2>2. CASE Started(s)
      BY <1>2, <1>4, <2>1, <2>2, HooksKnown DEF Finished, HooksCounted
    <2>3. CASE ~ Started(s)
      BY <1>2, <1>4, <2>3, HooksKnown DEF Started
    <2>4. QED BY <2>2, <2>3
  <1>6. ASSUME NEW c \in connections', c \notin connections
        PROVE  /\ c = [session |-> s, hook |-> ran[s] + 1,
                       line |-> [agent |-> a, event |-> Simulated[a][ran[s] + 1]]]
               /\ ran[s] + 1 <= Len(Simulated[a])
    <2>1. PICK l \in Lines(a, ran[s] + 1) : c = [session |-> s, hook |-> ran[s] + 1, line |-> l]
      BY <1>1, <1>6
    <2>2. ran[s] + 1 <= Len(Simulated[a]) /\ l = [agent |-> a, event |-> Simulated[a][ran[s] + 1]]
      BY <1>2, <1>5, <2>1, LinesTell
    <2>3. QED BY <2>1, <2>2
  <1>7. SlotInv' /\ \A r \in Session : Mapped(r)' <=> Mapped(r)
    BY <1>3 DEF SlotInv, SlotTypeOK, TablesAgree, Mapped
  <1>8. HooksCounted'
    <2>1. agent' \in [Session -> Agent \cup {NoAgent}] /\ ran' \in [Session -> Nat]
      BY <1>1, <1>2, <1>3 DEF HooksCounted
    <2>2. QED BY <1>2, <1>4, <1>5, <2>1 DEF HooksCounted, Started
  <1>9. LinesTrue'
    <2>1. ASSUME NEW c \in connections
          PROVE  /\ c = [session |-> c.session, hook |-> c.hook, line |-> c.line]
                 /\ c.session \in Session
                 /\ c.hook \in 1 .. ran'[c.session]
                 /\ c.line = [agent |-> agent'[c.session],
                              event |-> Simulated[agent'[c.session]][c.hook]]
                 /\ c.hook <= Len(Simulated[agent'[c.session]])
      <3>1. /\ c = [session |-> c.session, hook |-> c.hook, line |-> c.line]
            /\ c.session \in Session
            /\ c.hook \in 1 .. ran[c.session]
            /\ c.line = [agent |-> agent[c.session],
                         event |-> Simulated[agent[c.session]][c.hook]]
            /\ c.hook <= Len(Simulated[agent[c.session]])
        BY DEF LinesTrue
      <3>2. c.session = s => Started(s)
        BY <1>4, <3>1 DEF Started
      <3>3. agent'[c.session] = agent[c.session]
        BY <1>2, <1>4, <3>1, <3>2
      <3>4. ran[c.session] \in Nat /\ ran'[c.session] \in {ran[c.session], ran[c.session] + 1}
        BY <1>4, <3>1 DEF HooksCounted
      <3>5. c.hook \in 1 .. ran'[c.session]
        BY <3>1, <3>4
      <3>6. QED BY <3>1, <3>3, <3>5
    <2>2. ASSUME NEW c \in connections', c \notin connections
          PROVE  /\ c = [session |-> c.session, hook |-> c.hook, line |-> c.line]
                 /\ c.session \in Session
                 /\ c.hook \in 1 .. ran'[c.session]
                 /\ c.line = [agent |-> agent'[c.session],
                              event |-> Simulated[agent'[c.session]][c.hook]]
                 /\ c.hook <= Len(Simulated[agent'[c.session]])
      BY <1>4, <1>6, <2>2
    <2>3. QED BY <2>1, <2>2 DEF LinesTrue
  <1>10. NothingReadYet'
    BY <1>3 DEF NothingReadYet
  <1>11. OnlyTheStarted'
    BY <1>2, <1>3, <1>4, <1>7 DEF OnlyTheStarted, Started
  <1>12. \A r \in Session \ {s} : AllRead(r) => AllRead(r)'
    BY <1>6 DEF AllRead
  <1>13. EndIsTheEnd'
    <2>1. ASSUME NEW r \in ended \ overtaken
          PROVE  /\ r \in Session
                 /\ AllRead(r)'
                 /\ ran'[r] >= Len(Simulated[agent'[r]])
                 /\ Started(r)'
                 /\ ~ Mapped(r)'
      <3>1. /\ r \in Session /\ AllRead(r) /\ ran[r] >= Len(Simulated[agent[r]]) /\ Started(r)
            /\ ~ Mapped(r)
        BY DEF EndIsTheEnd
      <3>2. CASE r # s
        BY <1>4, <1>7, <1>12, <3>1, <3>2 DEF Started
      <3>3. CASE r = s
        <4>1. Len(Simulated[a]) \in Nat /\ a = agent[s] /\ ran[s] >= Len(Simulated[a])
          BY <1>2, <3>1, <3>3, HooksKnown
        <4>2. connections' \subseteq connections
          BY <1>4, <1>6, <4>1
        <4>3. AllRead(r)'
          BY <3>1, <4>2 DEF AllRead
        <4>4. QED BY <1>4, <1>7, <3>1, <3>3, <4>1, <4>3 DEF Started
      <3>4. QED BY <3>2, <3>3
    <2>2. QED BY <1>3, <2>1 DEF EndIsTheEnd
  <1>14. LastIsShown'
    BY <1>3, <1>4, <1>7, <1>12 DEF LastIsShown, Started
  <1>15. QED BY <1>7, <1>8, <1>9, <1>10, <1>11, <1>13, <1>14

(* Reading a line: what the slots, the tags and the displays become of it.     *)
LEMMA ReadEffect ==
  ASSUME DeliveryInv, NEW c \in connections, ConnectionRead(c)
  PROVE  \E i \in Slots \cup {NoSlot} :
           LET s == c.session
               e == Simulated[agent[s]][c.hook]
           IN /\ SlotInv'
              /\ \A r \in Session \ {s} : session_to_slot'[r] = session_to_slot[r]
              /\ IF e.name = "SessionEnd"
                 THEN i = session_to_slot[s] /\ ~ Mapped(s)'
                 ELSE /\ i = session_to_slot'[s]
                      /\ Mapped(s) => i = session_to_slot[s]
              /\ session_agents' \in [Session -> Agent \cup {NoAgent}]
              /\ \A r \in Session \ {s} : session_agents'[r] = session_agents[r]
              /\ Mapped(s)' => session_agents'[s] \in {session_agents[s], agent[s]}
              /\ Mapped(s)' /\ ~ Mapped(s) => session_agents'[s] = agent[s]
              /\ \E state : /\ Show(i, state)
                            /\ e.name # "SessionEnd" => state = hook_to_state(e) /\ state # NoState
  <1> DEFINE s == c.session
             e == Simulated[agent[s]][c.hook]
             a == agent[s]
  <1>1. s \in Session /\ Started(s) /\ c.line = [agent |-> a, event |-> e]
        /\ a \in Agent /\ c.hook \in 1 .. Len(Simulated[a])
    <2>1. /\ s \in Session /\ c.hook \in 1 .. ran[s] /\ c.line = [agent |-> a, event |-> e]
          /\ c.hook <= Len(Simulated[a])
      BY DEF DeliveryInv, LinesTrue
    <2>2. ran[s] \in Nat /\ Started(s)
      BY <2>1 DEF DeliveryInv, HooksCounted, Started
    <2>3. a \in Agent
      BY <2>1, <2>2 DEF DeliveryInv, HooksCounted
    <2>4. Len(Simulated[a]) \in Nat
      BY <2>3, HooksKnown
    <2>5. QED BY <2>1, <2>2, <2>3, <2>4
  <1>2. /\ e.name # "SessionEnd" => hook_to_state(e) # NoState
        /\ e.name = "SessionStart" => hook_to_state(e) = "idle"
    BY <1>1, EventsKnown
  <1>3. handle_hook_event(s, c.line)
    BY DEF ConnectionRead
  <1>4. SlotInv /\ session_agents \in [Session -> Agent \cup {NoAgent}]
    BY DEF DeliveryInv, OnlyTheStarted
  <1> HIDE DEF s, e, a
  <1>5. CASE e.name = "SessionStart"
    <2>1. PICK i \in Slots \cup {NoSlot} :
             /\ Allocate(s, i)
             /\ session_agents' = [session_agents EXCEPT ![s] = a]
             /\ Show(i, "idle")
      BY <1>1, <1>3, <1>5 DEF handle_hook_event, HandleStart
    <2>2. /\ SlotInv' /\ i = session_to_slot'[s] /\ (Mapped(s) => i = session_to_slot[s])
          /\ \A r \in Session \ {s} : session_to_slot'[r] = session_to_slot[r]
      BY <1>1, <1>4, <2>1, AllocateGives
    <2>3. QED BY <1>1, <1>2, <1>4, <1>5, <2>1, <2>2 DEF s, e, a
  <1>6. CASE e.name = "SessionEnd"
    <2>1. PICK i \in Slots \cup {NoSlot} :
             /\ Free(s, i)
             /\ session_agents' = [session_agents EXCEPT ![s] = NoAgent]
             /\ Show(i, "off")
      BY <1>1, <1>3, <1>6 DEF handle_hook_event, HandleEnd
    <2>2. /\ SlotInv' /\ i = session_to_slot[s] /\ session_to_slot'[s] = NoSlot
          /\ \A r \in Session \ {s} : session_to_slot'[r] = session_to_slot[r]
      BY <1>1, <1>4, <2>1, FreeTakes
    <2>3. ~ Mapped(s)'
      BY <2>2 DEF Mapped
    <2>4. QED BY <1>1, <1>4, <1>6, <2>1, <2>2, <2>3 DEF s, e, a
  <1>7. CASE e.name \notin {"SessionStart", "SessionEnd"}
    <2>1. PICK i \in Slots \cup {NoSlot} :
             /\ Allocate(s, i)
             /\ session_agents' = IF Mapped(s) \/ i = NoSlot THEN session_agents
                                  ELSE [session_agents EXCEPT ![s] = a]
             /\ Show(i, hook_to_state(e))
      BY <1>1, <1>3, <1>7 DEF handle_hook_event, HandleOther
    <2>2. /\ SlotInv' /\ i = session_to_slot'[s] /\ (Mapped(s) => i = session_to_slot[s])
          /\ \A r \in Session \ {s} : session_to_slot'[r] = session_to_slot[r]
      BY <1>1, <1>4, <2>1, AllocateGives
    <2>3. /\ session_agents' \in [Session -> Agent \cup {NoAgent}]
          /\ \A r \in Session \ {s} : session_agents'[r] = session_agents[r]
          /\ Mapped(s)' => session_agents'[s] \in {session_agents[s], a}
          /\ Mapped(s)' /\ ~ Mapped(s) => session_agents'[s] = a
      BY <1>1, <1>4, <2>1, <2>2 DEF Mapped
    <2>4. QED BY <1>2, <1>7, <2>1, <2>2, <2>3 DEF s, e, a
  <1>8. QED BY <1>5, <1>6, <1>7

(* So a session is known and shown by its own lines alone.                     *)
LEMMA ReadKeeps ==
  ASSUME DeliveryInv, NEW c \in connections, ConnectionRead(c)
  PROVE  DeliveryInv'
  <1> DEFINE s == c.session
             e == Simulated[agent[s]][c.hook]
  <1> USE DEF DeliveryInv
  <1>1. /\ UNCHANGED <<agent, ran, daemon, discovered>>
        /\ daemon = "listening"
        /\ connections' = connections \ {c}
        /\ current' = IF c.hook = ran[s] THEN current \cup {s} ELSE current
        /\ ended' = IF c.line.event.name = "SessionEnd" THEN ended \cup {s} ELSE ended
        /\ overtaken' = IF \E d \in connections : d.session = s /\ d.hook < c.hook
                        THEN overtaken \cup {s} ELSE overtaken
    BY DEF ConnectionRead, worldVars, startVars
  <1>2. PICK i \in Slots \cup {NoSlot} :
           /\ SlotInv'
           /\ \A r \in Session \ {s} : session_to_slot'[r] = session_to_slot[r]
           /\ IF e.name = "SessionEnd"
              THEN i = session_to_slot[s] /\ ~ Mapped(s)'
              ELSE /\ i = session_to_slot'[s]
                   /\ Mapped(s) => i = session_to_slot[s]
           /\ session_agents' \in [Session -> Agent \cup {NoAgent}]
           /\ \A r \in Session \ {s} : session_agents'[r] = session_agents[r]
           /\ Mapped(s)' => session_agents'[s] \in {session_agents[s], agent[s]}
           /\ Mapped(s)' /\ ~ Mapped(s) => session_agents'[s] = agent[s]
           /\ \E state : /\ Show(i, state)
                         /\ e.name # "SessionEnd" => state = hook_to_state(e) /\ state # NoState
    BY ReadEffect
  <1>3. PICK state : /\ Show(i, state)
                     /\ e.name # "SessionEnd" => state = hook_to_state(e) /\ state # NoState
    BY <1>2
  <1>4. /\ s \in Session /\ Started(s) /\ agent[s] \in Agent /\ ran[s] \in Nat
        /\ c.hook \in 1 .. ran[s] /\ c.hook <= Len(Simulated[agent[s]])
        /\ c.line.event = e /\ c \in connections
        /\ Len(Simulated[agent[s]]) \in Nat
        /\ e.name = "SessionEnd" => c.hook = Len(Simulated[agent[s]])
    <2>0. /\ s \in Session /\ c.hook \in 1 .. ran[s] /\ c.hook <= Len(Simulated[agent[s]])
          /\ c.line = [agent |-> agent[s], event |-> e]
      BY DEF LinesTrue
    <2> HIDE DEF e
    <2>1. /\ s \in Session /\ c.hook \in 1 .. ran[s] /\ c.hook <= Len(Simulated[agent[s]])
          /\ c.line.event = e
      BY <2>0
    <2> USE DEF e
    <2>2. Started(s) /\ ran[s] \in Nat /\ agent[s] \in Agent
      BY <2>1 DEF HooksCounted, Started
    <2>3. Len(Simulated[agent[s]]) \in Nat
      BY <2>2, HooksKnown
    <2>4. e.name = "SessionEnd" => c.hook = Len(Simulated[agent[s]])
      BY <2>1, <2>2, <2>3, EventsKnown
    <2>5. QED BY <2>1, <2>2, <2>3, <2>4
  <1>5. ASSUME NEW d \in connections, d.session = s
        PROVE  /\ d.hook \in 1 .. ran[s] /\ d.hook <= Len(Simulated[agent[s]])
               /\ d.hook = c.hook => d = c
    <2>1. /\ d = [session |-> d.session, hook |-> d.hook, line |-> d.line]
          /\ d.hook \in 1 .. ran[s] /\ d.hook <= Len(Simulated[agent[s]])
          /\ d.line = [agent |-> agent[s], event |-> Simulated[agent[s]][d.hook]]
      BY <1>5 DEF LinesTrue
    <2>2. /\ c = [session |-> s, hook |-> c.hook, line |-> c.line]
          /\ c.line = [agent |-> agent[s], event |-> Simulated[agent[s]][c.hook]]
      BY DEF LinesTrue
    <2>3. d.hook = c.hook => d = c
      <3> SUFFICES ASSUME d.hook = c.hook PROVE d = c
        OBVIOUS
      <3>1. d.line = c.line
        BY <2>1, <2>2
      <3>2. QED BY <1>5, <2>1, <2>2, <3>1
    <2>4. QED BY <2>1, <2>3
  <1> HIDE DEF s, e
  <1>6. ASSUME s \notin overtaken', c.hook = ran[s] \/ e.name = "SessionEnd"
        PROVE  AllRead(s)'
    <2>1. ASSUME NEW d \in connections, d.session = s PROVE d = c
      <3>1. d.hook \in Nat /\ c.hook \in Nat /\ ~ (d.hook < c.hook)
        BY <1>1, <1>4, <1>5, <1>6, <2>1
      <3>2. d.hook <= c.hook
        BY <1>4, <1>5, <1>6, <2>1
      <3>3. QED BY <1>5, <2>1, <3>1, <3>2
    <2>2. QED BY <1>1, <2>1 DEF AllRead
  <1>7. ASSUME NEW r \in Session, AllRead(r) PROVE r # s /\ AllRead(r)'
    BY <1>1, <1>4, <1>7 DEF AllRead, s
  <1>8. overtaken \subseteq overtaken'
    BY <1>1
  <1>9. \A r \in Session \ {s} : Mapped(r)' <=> Mapped(r)
    BY <1>2 DEF Mapped
  <1>10. LinesTrue'
    BY <1>1 DEF LinesTrue
  <1>11. HooksCounted' /\ NothingReadYet'
    BY <1>1 DEF HooksCounted, NothingReadYet, Started
  <1>12. OnlyTheStarted'
    <2>1. ASSUME NEW r \in Session, Mapped(r)' PROVE Started(r) /\ session_agents'[r] = agent[r]
      <3>1. CASE r = s
        BY <1>2, <1>4, <2>1, <3>1 DEF OnlyTheStarted
      <3>2. CASE r # s
        BY <1>2, <1>9, <2>1, <3>2 DEF OnlyTheStarted
      <3>3. QED BY <3>1, <3>2
    <2>2. QED BY <1>1, <1>2, <2>1 DEF OnlyTheStarted, Started
  <1>13. EndIsTheEnd'
    <2>1. ASSUME NEW r \in ended' \ overtaken'
          PROVE  /\ r \in Session /\ AllRead(r)' /\ ran[r] >= Len(Simulated[agent[r]])
                 /\ Started(r) /\ ~ Mapped(r)'
      <3>1. CASE r \in ended
        <4>1. r \in Session /\ AllRead(r) /\ ran[r] >= Len(Simulated[agent[r]]) /\ Started(r)
              /\ ~ Mapped(r)
          BY <1>8, <3>1 DEF EndIsTheEnd
        <4>2. QED BY <1>7, <1>9, <4>1
      <3>2. CASE r \notin ended
        <4>1. r = s /\ e.name = "SessionEnd"
          BY <1>1, <1>4, <3>2
        <4>2. ran[s] >= Len(Simulated[agent[s]])
          BY <1>4, <4>1
        <4>3. QED BY <1>2, <1>4, <1>6, <4>1, <4>2
      <3>3. QED BY <3>1, <3>2
    <2>2. QED BY <1>1, <2>1 DEF EndIsTheEnd, Started
  <1>14. shown' = [j \in Slots |-> shown'[j]]
         /\ \A j \in Slots : shown'[j] = IF j = i /\ state # NoState THEN state ELSE shown[j]
    BY <1>3, ShowSets DEF LastIsShown
  <1>15. LastIsShown'
    <2>1. ASSUME NEW r \in current' \ overtaken'
          PROVE  /\ r \in Session /\ Started(r) /\ AllRead(r)'
                 /\ Mapped(r)' => shown'[session_to_slot'[r]] = hook_to_state(Simulated[agent[r]][ran[r]])
      <3>1. CASE r \in current
        <4>1. /\ r \in Session /\ Started(r) /\ AllRead(r)
              /\ Mapped(r) => shown[session_to_slot[r]] = hook_to_state(Simulated[agent[r]][ran[r]])
          BY <1>8, <3>1 DEF LastIsShown
        <4>2. r # s /\ AllRead(r)'
          BY <1>7, <4>1
        <4>3. ASSUME Mapped(r)
              PROVE  /\ session_to_slot[r] \in Slots /\ session_to_slot'[r] = session_to_slot[r]
                     /\ session_to_slot[r] # i
          <5>1. session_to_slot'[r] = session_to_slot[r] /\ Mapped(r)'
            BY <1>2, <1>9, <4>1, <4>2, <4>3
          <5>2. session_to_slot[r] \in Slots /\ session_to_slot[r] # session_to_slot[s]
            BY <1>4, <4>1, <4>2, <4>3, SlotsApart
          <5>3. session_to_slot'[r] # session_to_slot'[s]
            <6>1. \A x, y \in Session : x # y /\ Mapped(x)' => session_to_slot'[x] # session_to_slot'[y]
              BY <1>2 DEF SlotInv, SlotTypeOK, TablesAgree, Mapped
            <6>2. QED BY <1>4, <4>1, <4>2, <5>1, <6>1
          <5>4. QED BY <1>2, <5>1, <5>2, <5>3
        <4>4. QED BY <1>9, <1>14, <4>1, <4>2, <4>3
      <3>2. CASE r \notin current
        <4>1. r = s /\ c.hook = ran[s]
          BY <1>1, <3>2
        <4>2. AllRead(s)'
          BY <1>6, <4>1
        <4>3. ASSUME Mapped(s)' PROVE shown'[session_to_slot'[s]] = hook_to_state(e)
          <5>1. e.name # "SessionEnd" /\ i = session_to_slot'[s]
            BY <1>2, <4>3
          <5>2. i \in Slots
            BY <1>2, <4>3, <5>1 DEF Mapped
          <5>3. QED BY <1>3, <1>14, <5>1, <5>2
        <4>4. e = Simulated[agent[s]][ran[s]]
          BY <4>1 DEF e
        <4>5. QED BY <1>4, <4>1, <4>2, <4>3, <4>4
      <3>3. QED BY <3>1, <3>2
    <2>2. QED BY <1>1, <1>14, <2>1 DEF LastIsShown, Started
  <1>16. QED BY <1>2, <1>10, <1>11, <1>12, <1>13, <1>15

(* A line too long, and an eviction.                                           *)
LEMMA DroppedKeeps ==
  ASSUME DeliveryInv, NEW c \in connections, ConnectionDropped(c)
  PROVE  DeliveryInv'
  <1> USE DEF DeliveryInv
  <1>1. /\ connections' = connections \ {c}
        /\ UNCHANGED <<agent, ran, daemon, discovered, session_agents, shown, slot_to_session,
                       session_to_slot, current, ended, overtaken>>
    BY DEF ConnectionDropped, worldVars, daemonVars, slotVars, historyVars, startVars
  <1>2. SlotInv' /\ \A r \in Session : (Mapped(r)' <=> Mapped(r)) /\ (AllRead(r) => AllRead(r)')
    BY <1>1 DEF SlotInv, SlotTypeOK, TablesAgree, Mapped, AllRead
  <1>3. LinesTrue' /\ HooksCounted' /\ NothingReadYet'
    BY <1>1 DEF LinesTrue, HooksCounted, NothingReadYet, Started
  <1>4. OnlyTheStarted' /\ EndIsTheEnd' /\ LastIsShown'
    BY <1>1, <1>2 DEF OnlyTheStarted, EndIsTheEnd, LastIsShown, Started
  <1>5. QED BY <1>2, <1>3, <1>4

(* An evicted session stays without a slot until a hook of its own is read.    *)
LEMMA HeldKeeps ==
  ASSUME DeliveryInv, NEW i \in Keys, KeyHeld(i)
  PROVE  DeliveryInv'
  <1> USE DEF DeliveryInv
  <1>1. PICK s \in Session : Evict(i, s) /\ session_agents' = [session_agents EXCEPT ![s] = NoAgent]
    BY DEF KeyHeld
  <1>2. /\ UNCHANGED <<agent, ran, connections, daemon, discovered, current, ended, overtaken>>
        /\ Show(i, "off")
    BY DEF KeyHeld, worldVars, historyVars, startVars
  <1>3. i \in Slots
    BY DeliveryKeysAssumption
  <1>4. /\ SlotInv' /\ i = session_to_slot[s] /\ session_to_slot'[s] = NoSlot
        /\ \A r \in Session \ {s} : session_to_slot'[r] = session_to_slot[r]
    BY <1>1, <1>3, EvictTakes
  <1>5. \A r \in Session : Mapped(r)' <=> Mapped(r) /\ r # s
    BY <1>4 DEF Mapped
  <1>6. shown' = [j \in Slots |-> shown'[j]] /\ \A j \in Slots \ {i} : shown'[j] = shown[j]
    BY <1>2, <1>3, ShowSets DEF LastIsShown
  <1>7. LinesTrue' /\ HooksCounted' /\ NothingReadYet'
    BY <1>2 DEF LinesTrue, HooksCounted, NothingReadYet, Started
  <1>8. OnlyTheStarted'
    BY <1>1, <1>2, <1>5 DEF OnlyTheStarted, Started
  <1>9. EndIsTheEnd'
    BY <1>2, <1>5 DEF EndIsTheEnd, Started, AllRead
  <1>10. LastIsShown'
    <2>1. ASSUME NEW r \in current \ overtaken
          PROVE  /\ r \in Session /\ Started(r) /\ AllRead(r)'
                 /\ Mapped(r)' => shown'[session_to_slot'[r]] = hook_to_state(Simulated[agent[r]][ran[r]])
      <3>1. /\ r \in Session /\ Started(r) /\ AllRead(r)'
            /\ Mapped(r) => shown[session_to_slot[r]] = hook_to_state(Simulated[agent[r]][ran[r]])
        BY <1>2 DEF LastIsShown, AllRead
      <3>2. ASSUME Mapped(r)'
            PROVE  /\ Mapped(r) /\ session_to_slot'[r] = session_to_slot[r]
                   /\ session_to_slot[r] \in Slots \ {i}
        BY <1>4, <1>5, <3>1, <3>2, SlotsApart
      <3>3. QED BY <1>6, <3>1, <3>2
    <2>2. QED BY <1>2, <1>6, <2>1 DEF LastIsShown, Started
  <1>11. QED BY <1>4, <1>7, <1>8, <1>9, <1>10

(* The daemon's death and its way back, with the sessions it discovers.        *)
LEMMA RestartKeeps ==
  ASSUME DeliveryInv, DaemonDies \/ DaemonStarts \/ DiscoverClaude \/ DiscoverGrok \/ Listen
  PROVE  DeliveryInv'
  <1> USE DEF DeliveryInv
  <1>1. UNCHANGED <<agent, ran>>
    BY DEF DaemonDies, DaemonStarts, DiscoverClaude, DiscoverGrok, Listen, worldVars
  <1>2. HooksCounted'
    BY <1>1 DEF HooksCounted, Started
  <1>3. CASE DaemonDies
    <2>1. SlotInv'
      BY <1>3, SlotIsNotNoSlot, NoSessionAssumption
      DEF DaemonDies, Forget, SlotInv, SlotTypeOK, TablesAgree
    <2>2. \A r \in Session : ~ Mapped(r)'
      BY <1>3 DEF DaemonDies, Forget, Mapped
    <2>3. OnlyTheStarted'
      BY <1>3, <2>2 DEF DaemonDies, Forget, OnlyTheStarted
    <2>4. LinesTrue' /\ NothingReadYet' /\ EndIsTheEnd' /\ LastIsShown'
      BY <1>3 DEF DaemonDies, Forget, LinesTrue, NothingReadYet, EndIsTheEnd, LastIsShown
    <2>5. QED BY <1>2, <2>1, <2>3, <2>4
  <1>4. CASE DaemonStarts \/ DiscoverClaude \/ DiscoverGrok \/ Listen
    <2>1. UNCHANGED <<connections, session_agents, shown, slot_to_session, session_to_slot, current,
                      ended, overtaken>>
      BY <1>4 DEF DaemonStarts, DiscoverClaude, DiscoverGrok, Listen, daemonVars, slotVars, historyVars
    <2>2. current \cup ended \cup overtaken = {}
      BY <1>4 DEF DaemonStarts, DiscoverClaude, DiscoverGrok, Listen, NothingReadYet
    <2>3. SlotInv' /\ \A r \in Session : Mapped(r)' <=> Mapped(r)
      BY <2>1 DEF SlotInv, SlotTypeOK, TablesAgree, Mapped
    <2>4. LinesTrue' /\ NothingReadYet' /\ EndIsTheEnd' /\ LastIsShown'
      BY <1>1, <2>1, <2>2 DEF LinesTrue, NothingReadYet, EndIsTheEnd, LastIsShown
    <2>5. \A s \in discovered' : s \in Session /\ Started(s)
      BY <1>4 DEF DaemonStarts, DiscoverClaude, DiscoverGrok, Listen, Sessions, OnlyTheStarted, startVars
    <2>6. OnlyTheStarted'
      BY <1>1, <2>1, <2>3, <2>5 DEF OnlyTheStarted, Started
    <2>7. QED BY <1>2, <2>3, <2>4, <2>6
  <1>5. QED BY <1>3, <1>4

(* A discovered session is seeded under the agent that discovery found it by.  *)
LEMMA SeedKeeps ==
  ASSUME DeliveryInv, NEW s \in Session, Seed(s)
  PROVE  DeliveryInv'
  <1> USE DEF DeliveryInv
  <1>1. /\ UNCHANGED <<agent, ran, connections, daemon, current, ended, overtaken>>
        /\ daemon = "seed" /\ s \in discovered /\ discovered' = discovered \ {s}
    BY DEF Seed, worldVars, historyVars
  <1>2. PICK i \in Slots \cup {NoSlot} :
           /\ Allocate(s, i)
           /\ session_agents' = IF i = NoSlot THEN session_agents
                                ELSE [session_agents EXCEPT ![s] = agent[s]]
           /\ Show(i, "idle")
    BY DEF Seed
  <1>3. current \cup ended \cup overtaken = {}
    BY <1>1 DEF NothingReadYet
  <1>4. /\ SlotInv' /\ i = session_to_slot'[s]
        /\ \A r \in Session \ {s} : session_to_slot'[r] = session_to_slot[r]
    BY <1>2, AllocateGives
  <1>5. shown' = [j \in Slots |-> shown'[j]]
    BY <1>2, ShowSets DEF LastIsShown
  <1>6. LinesTrue' /\ HooksCounted' /\ NothingReadYet' /\ EndIsTheEnd' /\ LastIsShown'
    BY <1>1, <1>3, <1>5
    DEF LinesTrue, HooksCounted, NothingReadYet, EndIsTheEnd, LastIsShown, Started
  <1>7. OnlyTheStarted'
    <2>1. Started(s) /\ agent[s] \in Agent \cup {NoAgent}
      BY <1>1 DEF OnlyTheStarted, HooksCounted
    <2>2. session_agents' \in [Session -> Agent \cup {NoAgent}]
      BY <1>2, <2>1 DEF OnlyTheStarted
    <2>3. ASSUME NEW r \in Session, Mapped(r)' PROVE Started(r) /\ session_agents'[r] = agent[r]
      BY <1>2, <1>4, <2>1, <2>3 DEF OnlyTheStarted, Mapped
    <2>4. QED BY <1>1, <2>2, <2>3 DEF OnlyTheStarted, Started
  <1>8. QED BY <1>4, <1>6, <1>7

(* No step breaks it.                                                          *)
LEMMA DeliveryNext == DeliveryInv /\ [Next]_vars => DeliveryInv'
  <1> SUFFICES ASSUME DeliveryInv, [Next]_vars PROVE DeliveryInv'
    OBVIOUS
  <1>1. ASSUME NEW s \in Session, SessionDies(s) PROVE DeliveryInv'
    BY <1>1 DEF SessionDies, daemonVars, slotVars, historyVars, startVars, DeliveryInv, SlotInv,
                SlotTypeOK, TablesAgree, LinesTrue, HooksCounted, NothingReadYet, OnlyTheStarted,
                EndIsTheEnd, LastIsShown, Started, Mapped, AllRead
  <1>2. CASE UNCHANGED vars
    BY <1>2 DEF vars, worldVars, daemonVars, slotVars, historyVars, startVars, DeliveryInv, SlotInv,
                SlotTypeOK, TablesAgree, LinesTrue, HooksCounted, NothingReadYet, OnlyTheStarted,
                EndIsTheEnd, LastIsShown, Started, Mapped, AllRead
  <1>3. QED
    BY <1>1, <1>2, HookKeeps, ReadKeeps, DroppedKeeps, HeldKeeps, RestartKeeps, SeedKeeps DEF Next

(* So it is an invariant.                                                      *)
LEMMA DeliveryInvariant == Spec => []DeliveryInv
  BY DeliveryInit, DeliveryNext, PTL DEF Spec

(* Whichever agent runs a session, the daemon has it under that one, also when *)
(* the agent runs another agent's adapter too: AgentIsItsOwn.                  *)
THEOREM DeliveredUnderItsAgent == Spec => []AgentIsItsOwn
  <1>1. DeliveryInv => AgentIsItsOwn
    BY DEF DeliveryInv, OnlyTheStarted, AgentIsItsOwn
  <1>2. QED BY <1>1, DeliveryInvariant, PTL

(* Nothing an agent sends behind a session's end brings it back: NoPhantom.    *)
THEOREM DeliveredEndIsTheEnd == Spec => []NoPhantom
  <1>1. DeliveryInv => NoPhantom
    BY DEF DeliveryInv, EndIsTheEnd, NoPhantom
  <1>2. QED BY <1>1, DeliveryInvariant, PTL

(* Once the last hook is read its state is on the slot, in the words of any    *)
(* agent: ShowsLastHook.                                                       *)
THEOREM DeliveredHookIsShown == Spec => []ShowsLastHook
  <1>1. DeliveryInv => ShowsLastHook
    BY DEF DeliveryInv, LastIsShown, ShowsLastHook
  <1>2. QED BY <1>1, DeliveryInvariant, PTL

================================================================================
