-------------------------- MODULE MacropadDaemonProofs --------------------------
(* Proofs about the daemon, for any sessions, slots, keys and threshold.       *)
EXTENDS MacropadDaemon, SlotManagerProofs

(* A state some hook event asks for is never "tool_stalled" or "off": only the *)
(* watcher stalls a call, only a clear darkens a slot.                         *)
LEMMA EventStates ==
  ASSUME NEW event
  PROVE  hook_to_state(event) \in (PadStates \ {"tool_stalled", "off"}) \cup {NoState}
  <1>1. ASSUME NEW name \in DOMAIN StateTable
        PROVE  StateTable[name] \in PadStates \ {"tool_stalled", "off"}
    BY DEF StateTable, PadStates
  <1>2. QED BY <1>1 DEF hook_to_state, PadStates, NoState

--------------------------------------------------------------------------------
(* The daemon only touches the slot tables through the slot manager.           *)

(* Every step of the daemon is a step of the slot manager or leaves it alone.  *)
LEMMA DaemonStepIsSlotStep == [Next]_vars => [SlotNext]_slotVars
  <1> SUFFICES ASSUME [Next]_vars PROVE SlotNext \/ UNCHANGED slotVars
    OBVIOUS
  <1>1. CASE UNCHANGED vars
    BY <1>1 DEF vars, tableVars, slotVars
  <1>2. ASSUME NEW s \in Session, HookSessionStart(s) PROVE SlotNext
    BY <1>2 DEF HookSessionStart, SlotNext
  <1>3. ASSUME NEW s \in Session, HookSessionEnd(s) PROVE SlotNext
    BY <1>3 DEF HookSessionEnd, SlotNext
  <1>4. ASSUME NEW s \in Session, NEW event \in Events, HookOther(s, event) PROVE SlotNext
    BY <1>4 DEF HookOther, SlotNext
  <1>5. ASSUME NEW i \in Keys, KeyHeld(i) PROVE SlotNext
    BY <1>5, KeysAssumption DEF KeyHeld, SlotNext
  <1>6. CASE LoopRecord \/ LoopTrack \/ LoopCleanup \/ LoopCache \/ LoopWrite \/ LoopWriteRaises
    BY <1>6 DEF LoopRecord, LoopTrack, LoopCleanup, LoopCache, LoopWrite, LoopWriteRaises, tableVars,
                slotVars
  <1>7. CASE WatchWake \/ Tick \/ LinkDrop \/ LinkReattach
    BY <1>7 DEF WatchWake, Tick, LinkDrop, LinkReattach, tableVars, slotVars
  <1>8. ASSUME NEW call \in watch, WatchEscalate(call) PROVE UNCHANGED slotVars
    BY <1>8 DEF WatchEscalate, slotVars
  <1>9. ASSUME NEW i \in Keys, KeyTap(i) PROVE UNCHANGED slotVars
    BY <1>9 DEF KeyTap, tableVars, slotVars
  <1>10. CASE ReaderDispatch \/ ReaderUntrack \/ ReaderForget \/ ReaderCache \/ ReaderWrite
    BY <1>10 DEF ReaderDispatch, ReaderUntrack, ReaderForget, ReaderCache, ReaderWrite,
                 tableVars, slotVars
  <1>11. ASSUME NEW i \in Slots, ResyncPack(i) PROVE UNCHANGED slotVars
    BY <1>11 DEF ResyncPack, tableVars, slotVars
  <1>12. CASE ResyncWrite \/ ResyncDone
    BY <1>12 DEF ResyncWrite, ResyncDone, tableVars, slotVars
  <1>13. QED
    BY <1>1, <1>2, <1>3, <1>4, <1>5, <1>6, <1>7, <1>8, <1>9, <1>10, <1>11, <1>12
    DEF Next, LoopStep, ReaderStep

(* The daemon, whatever its threads do, implements the slot manager.           *)
THEOREM DaemonImplementsSlots == Spec => SlotSpec
  <1>1. Init => SlotInit
    BY DEF Init
  <1>2. QED BY <1>1, DaemonStepIsSlotStep, PTL DEF Spec, SlotSpec

(* And with it the directory: ImplementsDirectory, whatever the threads do.    *)
THEOREM DaemonImplementsDirectory == Spec => ImplementsDirectory
  BY DaemonImplementsSlots, SlotManagerImplementsDirectory

(* So its two tables are inverse to each other in every interleaving.          *)
THEOREM DaemonSlotInvariant == Spec => []SlotInv
  BY DaemonImplementsSlots, SlotInvariant, PTL

--------------------------------------------------------------------------------
(* What the shared parts of the actions do to the types.                       *)

(* Only slots are ever marked as raced.                                        *)
LEMMA RacedStaysTyped ==
  ASSUME raced \subseteq Slots, Interference
  PROVE  raced' \subseteq Slots
  BY DEF Interference

(* Caching a pad state keeps the cache and the replay snapshot typed.          *)
LEMMA CacheStaysTyped ==
  ASSUME PadOK, NEW i \in Slots, NEW msg \in PadStates, CacheMsg(i, msg),
         UNCHANGED <<led, link>>
  PROVE  PadOK'
  BY DEF PadOK, CacheMsg

(* Writing a pad state keeps the display typed.                                *)
LEMMA WriteStaysTyped ==
  ASSUME PadOK, NEW i \in Slots, NEW msg \in PadStates, WriteMsg(i, msg),
         UNCHANGED <<pad_state, link, replay>>
  PROVE  PadOK'
  BY DEF PadOK, WriteMsg

(* The history of intentions holds pad states.                                 *)
LEMMA IntendStaysTyped ==
  ASSUME HistoryOK, NEW s \in Session, NEW i, NEW state \in PadStates,
         Intend(s, i, state), Interference
  PROVE  HistoryOK'
  BY RacedStaysTyped DEF HistoryOK, Intend

(* An event leaves a session with a fresh call, none, or the one it had.       *)
LEMMA TrackedCallTyped ==
  ASSUME TablesOK, NEW event, NEW s \in Session, NEW i \in Slots
  PROVE  TrackedCall(event, s, i) \in Call \cup {NoCall}
  BY StallThresholdAssumption DEF TablesOK, TrackedCall, Call

(* The two idle records are typed.                                             *)
LEMMA IdleRecords ==
  /\ LoopIdle \in [pc : {"idle"}, event : {NoEvent}, session : {NoSession},
                   slot : {NoSlot}, msg : PadStates]
  /\ ReaderIdle \in [pc : {"idle"}, session : {NoSession}, slot : {NoSlot}, msg : PadStates]
  BY DEF LoopIdle, ReaderIdle, PadStates

--------------------------------------------------------------------------------
(* The initial state is typed.                                                 *)
LEMMA DaemonInitTyped == Init => DaemonTypeOK
  <1> SUFFICES ASSUME Init PROVE DaemonTypeOK
    OBVIOUS
  <1>1. SlotTypeOK
    BY SlotInitInv DEF Init, SlotInv
  <1>2. TablesOK
    BY DEF Init, TablesOK
  <1>3. PadOK
    BY DEF Init, PadOK, PadStates
  <1>4. LoopOK
    BY DEF Init, LoopOK, LoopIdle, PadStates
  <1>5. ReaderOK
    BY DEF Init, ReaderOK, ReaderIdle, PadStates
  <1>6. HistoryOK
    BY DEF Init, HistoryOK, PadStates
  <1>7. QED BY <1>1, <1>2, <1>3, <1>4, <1>5, <1>6 DEF DaemonTypeOK

(* Every step keeps the state typed.  The slot tables' part comes from the slot *)
(* manager's invariant, before and after the step.                             *)
LEMMA DaemonStepTyped == DaemonTypeOK /\ SlotInv /\ SlotInv' /\ [Next]_vars => DaemonTypeOK'
  <1> SUFFICES ASSUME SlotTypeOK, TablesOK, PadOK, LoopOK, ReaderOK, HistoryOK,
                      SlotInv, SlotInv', [Next]_vars
               PROVE  DaemonTypeOK'
    BY DEF DaemonTypeOK
  <1>1. CASE UNCHANGED vars
    BY <1>1 DEF vars, tableVars, slotVars, padVars, historyVars, DaemonTypeOK, SlotTypeOK,
                TablesOK, PadOK, LoopOK, ReaderOK, HistoryOK
  <1>2. ASSUME NEW s \in Session, HookSessionStart(s)
        PROVE  DaemonTypeOK'
    <2>1. TablesOK'
      BY <1>2 DEF HookSessionStart, TablesOK, tableVars
    <2>2. PadOK'
      BY <1>2 DEF HookSessionStart, PadOK, padVars
    <2>3. LoopOK'
      <3>1. Plain("SessionStart").name = "SessionStart"
        BY DEF Plain, ToolEvent
      <3>2. Plain("SessionStart") \in HookEvent
        BY <1>2, EventsAssumption DEF HookSessionStart
      <3>3. QED BY <1>2, <3>1, <3>2, IdleRecords DEF HookSessionStart, LoopOK
    <2>4. ReaderOK'
      BY <1>2 DEF HookSessionStart, ReaderOK
    <2>5. HistoryOK'
      BY <1>2, RacedStaysTyped DEF HookSessionStart, HistoryOK, historyVars
    <2>6. QED BY <2>1, <2>2, <2>3, <2>4, <2>5, SlotInv' DEF SlotInv, DaemonTypeOK
  <1>3. ASSUME NEW s \in Session, HookSessionEnd(s)
        PROVE  DaemonTypeOK'
    <2>1. TablesOK'
      BY <1>3 DEF HookSessionEnd, TablesOK, tableVars
    <2>2. PadOK'
      BY <1>3 DEF HookSessionEnd, PadOK, padVars
    <2>3. LoopOK'
      BY <1>3, IdleRecords DEF HookSessionEnd, LoopOK
    <2>4. ReaderOK'
      BY <1>3 DEF HookSessionEnd, ReaderOK
    <2>5. HistoryOK'
      BY <1>3, RacedStaysTyped DEF HookSessionEnd, HistoryOK, historyVars
    <2>6. QED BY <2>1, <2>2, <2>3, <2>4, <2>5, SlotInv' DEF SlotInv, DaemonTypeOK
  <1>4. ASSUME NEW s \in Session, NEW event \in Events, HookOther(s, event)
        PROVE  DaemonTypeOK'
    <2>1. TablesOK'
      BY <1>4 DEF HookOther, TablesOK, tableVars
    <2>2. PadOK'
      BY <1>4 DEF HookOther, PadOK, padVars
    <2>3. LoopOK'
      <3>1. PICK i \in Slots \cup {NoSlot} :
                loop' = IF i = NoSlot THEN loop
                        ELSE [LoopIdle EXCEPT !.pc = IF Mapped(s) THEN "track" ELSE "record",
                                              !.event = event, !.session = s, !.slot = i]
        BY <1>4 DEF HookOther
      <3>2. event \in HookEvent /\ watch' = watch /\ watcher_task' = watcher_task
        BY <1>4, EventsAssumption DEF HookOther
      <3>3. CASE i = NoSlot
        BY <3>1, <3>2, <3>3 DEF LoopOK
      <3>4. CASE i # NoSlot
        <4>1. PICK pc \in {"track", "record"} :
                  loop' = [LoopIdle EXCEPT !.pc = pc, !.event = event, !.session = s, !.slot = i]
          BY <3>1, <3>4
        <4> QED
          BY <3>2, <3>4, <4>1, IdleRecords DEF LoopOK
      <3> QED
        BY <3>3, <3>4
    <2>4. ReaderOK'
      BY <1>4 DEF HookOther, ReaderOK
    <2>5. HistoryOK'
      BY <1>4, RacedStaysTyped DEF HookOther, HistoryOK, historyVars
    <2>6. QED BY <2>1, <2>2, <2>3, <2>4, <2>5, SlotInv' DEF SlotInv, DaemonTypeOK
  <1>5. CASE LoopRecord
    <2>1. TablesOK'
      BY <1>5 DEF LoopRecord, TablesOK, LoopOK, TargetsAfter
    <2>2. PadOK'
      BY <1>5 DEF LoopRecord, PadOK, padVars
    <2>3. LoopOK'
      BY <1>5, IdleRecords DEF LoopRecord, LoopOK, PadStates
    <2>4. ReaderOK'
      BY <1>5 DEF LoopRecord, ReaderOK
    <2>5. HistoryOK'
      BY <1>5, IntendStaysTyped, RacedStaysTyped DEF LoopRecord, LoopOK, HistoryOK, PadStates
    <2>6. QED BY <2>1, <2>2, <2>3, <2>4, <2>5, SlotInv' DEF SlotInv, DaemonTypeOK
  <1>6. CASE LoopTrack
    <2>1. TablesOK'
      BY <1>6, TrackedCallTyped DEF LoopTrack, TablesOK, LoopOK
    <2>2. PadOK'
      BY <1>6 DEF LoopTrack, PadOK, padVars
    <2>3. LoopOK'
      BY <1>6, IdleRecords, EventStates DEF LoopTrack, LoopOK
    <2>4. ReaderOK'
      BY <1>6 DEF LoopTrack, ReaderOK
    <2>5. HistoryOK'
      BY <1>6, IntendStaysTyped, RacedStaysTyped, EventStates DEF LoopTrack, LoopOK, HistoryOK
    <2>6. QED BY <2>1, <2>2, <2>3, <2>4, <2>5, SlotInv' DEF SlotInv, DaemonTypeOK
  <1>7. CASE LoopCleanup
    <2>1. TablesOK'
      BY <1>7 DEF LoopCleanup, TablesOK
    <2>2. PadOK'
      BY <1>7 DEF LoopCleanup, PadOK, padVars
    <2>3. LoopOK'
      BY <1>7, IdleRecords DEF LoopCleanup, LoopOK
    <2>4. ReaderOK'
      BY <1>7 DEF LoopCleanup, ReaderOK
    <2>5. HistoryOK'
      BY <1>7, RacedStaysTyped DEF LoopCleanup, HistoryOK, PadStates
    <2>6. QED BY <2>1, <2>2, <2>3, <2>4, <2>5, SlotInv' DEF SlotInv, DaemonTypeOK
  <1>8. CASE LoopCache
    <2>1. TablesOK'
      BY <1>8 DEF LoopCache, TablesOK, tableVars
    <2>2. PadOK'
      BY <1>8, CacheStaysTyped DEF LoopCache, LoopOK
    <2>3. LoopOK'
      BY <1>8 DEF LoopCache, LoopOK
    <2>4. ReaderOK'
      BY <1>8 DEF LoopCache, ReaderOK
    <2>5. HistoryOK'
      BY <1>8, RacedStaysTyped DEF LoopCache, HistoryOK, historyVars
    <2>6. QED BY <2>1, <2>2, <2>3, <2>4, <2>5, SlotInv' DEF SlotInv, DaemonTypeOK
  <1>9. CASE LoopWrite
    <2>1. TablesOK'
      BY <1>9 DEF LoopWrite, TablesOK, tableVars
    <2>2. PadOK'
      BY <1>9, WriteStaysTyped DEF LoopWrite, LoopOK
    <2>3. LoopOK'
      BY <1>9, IdleRecords DEF LoopWrite, LoopOK
    <2>4. ReaderOK'
      BY <1>9 DEF LoopWrite, ReaderOK
    <2>5. HistoryOK'
      BY <1>9, RacedStaysTyped DEF LoopWrite, HistoryOK, historyVars
    <2>6. QED BY <2>1, <2>2, <2>3, <2>4, <2>5, SlotInv' DEF SlotInv, DaemonTypeOK
  <1>10. CASE WatchWake
    <2>1. TablesOK'
      BY <1>10 DEF WatchWake, TablesOK, tableVars
    <2>2. PadOK'
      BY <1>10 DEF WatchWake, PadOK, padVars
    <2>3. LoopOK'
      BY <1>10, IdleRecords DEF WatchWake, LoopOK, TablesOK, Call, Overdue, Tracked
    <2>4. ReaderOK'
      BY <1>10 DEF WatchWake, ReaderOK
    <2>5. HistoryOK'
      BY <1>10, RacedStaysTyped DEF WatchWake, HistoryOK, historyVars
    <2>6. QED BY <2>1, <2>2, <2>3, <2>4, <2>5, SlotInv' DEF SlotInv, DaemonTypeOK
  <1>11. ASSUME NEW call \in watch, WatchEscalate(call)
        PROVE  DaemonTypeOK'
    <2>1. TablesOK'
      BY <1>11 DEF WatchEscalate, TablesOK, Call, Tracked
    <2>2. PadOK'
      BY <1>11 DEF WatchEscalate, PadOK, padVars
    <2>3. LoopOK'
      BY <1>11, IdleRecords DEF WatchEscalate, LoopOK, PadStates
    <2>4. ReaderOK'
      BY <1>11 DEF WatchEscalate, ReaderOK
    <2>5. HistoryOK'
      BY <1>11, IntendStaysTyped DEF WatchEscalate, LoopOK, PadStates
    <2>6. QED BY <2>1, <2>2, <2>3, <2>4, <2>5, SlotInv' DEF SlotInv, DaemonTypeOK
  <1>12. CASE Tick
    <2>1. TablesOK'
      <3>1. ASSUME NEW s \in Session, Aging(s)
            PROVE  [pending_calls[s] EXCEPT !.age = @ + 1] \in Call
        BY <3>1, StallThresholdAssumption DEF Aging, Tracked, TablesOK, Call
      <3>2. QED BY <1>12, <3>1 DEF Tick, TablesOK
    <2>2. PadOK'
      BY <1>12 DEF Tick, PadOK, padVars
    <2>3. LoopOK'
      BY <1>12 DEF Tick, LoopOK
    <2>4. ReaderOK'
      BY <1>12 DEF Tick, ReaderOK
    <2>5. HistoryOK'
      BY <1>12, RacedStaysTyped DEF Tick, HistoryOK, historyVars
    <2>6. QED BY <2>1, <2>2, <2>3, <2>4, <2>5, SlotInv' DEF SlotInv, DaemonTypeOK
  <1>13. ASSUME NEW i \in Keys, KeyTap(i)
        PROVE  DaemonTypeOK'
    <2>1. TablesOK'
      BY <1>13 DEF KeyTap, TablesOK, tableVars
    <2>2. PadOK'
      BY <1>13 DEF KeyTap, PadOK, padVars
    <2>3. LoopOK'
      BY <1>13 DEF KeyTap, LoopOK
    <2>4. ReaderOK'
      BY <1>13, IdleRecords, KeysAssumption DEF KeyTap, ReaderOK, SlotInv, SlotTypeOK
    <2>5. HistoryOK'
      BY <1>13, RacedStaysTyped DEF KeyTap, HistoryOK, historyVars
    <2>6. QED BY <2>1, <2>2, <2>3, <2>4, <2>5, SlotInv' DEF SlotInv, DaemonTypeOK
  <1>14. CASE ReaderDispatch
    <2>1. TablesOK'
      BY <1>14 DEF ReaderDispatch, TablesOK, tableVars
    <2>2. PadOK'
      BY <1>14 DEF ReaderDispatch, PadOK, padVars
    <2>3. LoopOK'
      BY <1>14 DEF ReaderDispatch, LoopOK
    <2>4. ReaderOK'
      BY <1>14, IdleRecords DEF ReaderDispatch, ReaderOK
    <2>5. HistoryOK'
      BY <1>14, RacedStaysTyped DEF ReaderDispatch, HistoryOK, historyVars
    <2>6. QED BY <2>1, <2>2, <2>3, <2>4, <2>5, SlotInv' DEF SlotInv, DaemonTypeOK
  <1>15. ASSUME NEW i \in Keys, KeyHeld(i)
        PROVE  DaemonTypeOK'
    <2>1. TablesOK'
      BY <1>15 DEF KeyHeld, TablesOK, tableVars
    <2>2. PadOK'
      BY <1>15 DEF KeyHeld, PadOK, padVars
    <2>3. LoopOK'
      BY <1>15 DEF KeyHeld, LoopOK
    <2>4. ReaderOK'
      BY <1>15, IdleRecords, KeysAssumption DEF KeyHeld, ReaderOK
    <2>5. HistoryOK'
      BY <1>15, RacedStaysTyped DEF KeyHeld, HistoryOK, PadStates
    <2>6. QED BY <2>1, <2>2, <2>3, <2>4, <2>5, SlotInv' DEF SlotInv, DaemonTypeOK
  <1>16. CASE ReaderUntrack
    <2>1. TablesOK'
      BY <1>16 DEF ReaderUntrack, TablesOK
    <2>2. PadOK'
      BY <1>16 DEF ReaderUntrack, PadOK, padVars
    <2>3. LoopOK'
      BY <1>16 DEF ReaderUntrack, LoopOK
    <2>4. ReaderOK'
      BY <1>16 DEF ReaderUntrack, ReaderOK
    <2>5. HistoryOK'
      BY <1>16, RacedStaysTyped DEF ReaderUntrack, HistoryOK, historyVars
    <2>6. QED BY <2>1, <2>2, <2>3, <2>4, <2>5, SlotInv' DEF SlotInv, DaemonTypeOK
  <1>17. CASE ReaderForget
    <2>1. TablesOK'
      BY <1>17 DEF ReaderForget, TablesOK
    <2>2. PadOK'
      BY <1>17 DEF ReaderForget, PadOK, padVars
    <2>3. LoopOK'
      BY <1>17 DEF ReaderForget, LoopOK
    <2>4. ReaderOK'
      BY <1>17 DEF ReaderForget, ReaderOK
    <2>5. HistoryOK'
      BY <1>17, RacedStaysTyped DEF ReaderForget, HistoryOK, historyVars
    <2>6. QED BY <2>1, <2>2, <2>3, <2>4, <2>5, SlotInv' DEF SlotInv, DaemonTypeOK
  <1>18. CASE ReaderCache
    <2>1. TablesOK'
      BY <1>18 DEF ReaderCache, TablesOK, tableVars
    <2>2. PadOK'
      BY <1>18, CacheStaysTyped DEF ReaderCache, ReaderOK, PadStates
    <2>3. LoopOK'
      BY <1>18 DEF ReaderCache, LoopOK
    <2>4. ReaderOK'
      BY <1>18 DEF ReaderCache, ReaderOK
    <2>5. HistoryOK'
      BY <1>18, RacedStaysTyped DEF ReaderCache, HistoryOK, historyVars
    <2>6. QED BY <2>1, <2>2, <2>3, <2>4, <2>5, SlotInv' DEF SlotInv, DaemonTypeOK
  <1>19. CASE ReaderWrite
    <2>1. TablesOK'
      BY <1>19 DEF ReaderWrite, TablesOK, tableVars
    <2>2. PadOK'
      BY <1>19, WriteStaysTyped DEF ReaderWrite, ReaderOK, PadStates
    <2>3. LoopOK'
      BY <1>19 DEF ReaderWrite, LoopOK
    <2>4. ReaderOK'
      BY <1>19, IdleRecords DEF ReaderWrite, ReaderOK
    <2>5. HistoryOK'
      BY <1>19, RacedStaysTyped DEF ReaderWrite, HistoryOK, historyVars
    <2>6. QED BY <2>1, <2>2, <2>3, <2>4, <2>5, SlotInv' DEF SlotInv, DaemonTypeOK
  <1>20. CASE LinkDrop
    <2>1. TablesOK'
      BY <1>20 DEF LinkDrop, TablesOK, tableVars
    <2>2. PadOK'
      BY <1>20 DEF LinkDrop, PadOK, padVars
    <2>3. LoopOK'
      BY <1>20 DEF LinkDrop, LoopOK
    <2>4. ReaderOK'
      BY <1>20 DEF LinkDrop, ReaderOK
    <2>5. HistoryOK'
      BY <1>20, RacedStaysTyped DEF LinkDrop, HistoryOK, historyVars
    <2>6. QED BY <2>1, <2>2, <2>3, <2>4, <2>5, SlotInv' DEF SlotInv, DaemonTypeOK
  <1>21. CASE LinkReattach
    <2>1. TablesOK'
      BY <1>21 DEF LinkReattach, TablesOK, tableVars
    <2>2. PadOK'
      BY <1>21 DEF LinkReattach, PadOK, PadStates
    <2>3. LoopOK'
      BY <1>21 DEF LinkReattach, LoopOK
    <2>4. ReaderOK'
      BY <1>21, IdleRecords DEF LinkReattach, ReaderOK
    <2>5. HistoryOK'
      BY <1>21, RacedStaysTyped DEF LinkReattach, HistoryOK, historyVars
    <2>6. QED BY <2>1, <2>2, <2>3, <2>4, <2>5, SlotInv' DEF SlotInv, DaemonTypeOK
  <1>22. ASSUME NEW i \in Slots, ResyncPack(i)
        PROVE  DaemonTypeOK'
    <2>1. TablesOK'
      BY <1>22 DEF ResyncPack, TablesOK, tableVars
    <2>2. PadOK'
      BY <1>22 DEF ResyncPack, PadOK, padVars
    <2>3. LoopOK'
      BY <1>22 DEF ResyncPack, LoopOK
    <2>4. ReaderOK'
      BY <1>22 DEF ResyncPack, ReaderOK, PadOK
    <2>5. HistoryOK'
      BY <1>22, RacedStaysTyped DEF ResyncPack, HistoryOK, historyVars
    <2>6. QED BY <2>1, <2>2, <2>3, <2>4, <2>5, SlotInv' DEF SlotInv, DaemonTypeOK
  <1>23. CASE ResyncWrite
    <2>1. TablesOK'
      BY <1>23 DEF ResyncWrite, TablesOK, tableVars
    <2>2. PadOK'
      BY <1>23, WriteStaysTyped DEF ResyncWrite, ReaderOK
    <2>3. LoopOK'
      BY <1>23 DEF ResyncWrite, LoopOK
    <2>4. ReaderOK'
      BY <1>23, IdleRecords DEF ResyncWrite, ReaderOK
    <2>5. HistoryOK'
      BY <1>23, RacedStaysTyped DEF ResyncWrite, HistoryOK, historyVars
    <2>6. QED BY <2>1, <2>2, <2>3, <2>4, <2>5, SlotInv' DEF SlotInv, DaemonTypeOK
  <1>24. CASE ResyncDone
    <2>1. TablesOK'
      BY <1>24 DEF ResyncDone, TablesOK, tableVars
    <2>2. PadOK'
      BY <1>24 DEF ResyncDone, PadOK, padVars
    <2>3. LoopOK'
      BY <1>24 DEF ResyncDone, LoopOK
    <2>4. ReaderOK'
      BY <1>24, IdleRecords DEF ResyncDone, ReaderOK
    <2>5. HistoryOK'
      BY <1>24, RacedStaysTyped DEF ResyncDone, HistoryOK, historyVars
    <2>6. QED BY <2>1, <2>2, <2>3, <2>4, <2>5, SlotInv' DEF SlotInv, DaemonTypeOK
  <1>25. CASE LoopWriteRaises
    <2>1. TablesOK'
      BY <1>25 DEF LoopWriteRaises, TablesOK, tableVars
    <2>2. PadOK'
      BY <1>25 DEF LoopWriteRaises, PadOK, padVars
    <2>3. LoopOK'
      BY <1>25, IdleRecords DEF LoopWriteRaises, LoopOK
    <2>4. ReaderOK'
      BY <1>25 DEF LoopWriteRaises, ReaderOK
    <2>5. HistoryOK'
      BY <1>25, RacedStaysTyped DEF LoopWriteRaises, HistoryOK, historyVars
    <2>6. QED BY <2>1, <2>2, <2>3, <2>4, <2>5, SlotInv' DEF SlotInv, DaemonTypeOK
  <1>26. QED
    BY <1>1, <1>2, <1>3, <1>4, <1>5, <1>6, <1>7, <1>8, <1>9, <1>10, <1>11, <1>12, <1>13, <1>14, <1>15,
       <1>16, <1>17, <1>18, <1>19, <1>20, <1>21, <1>22, <1>23, <1>24, <1>25
    DEF Next, LoopStep, ReaderStep

(* Every table, the display and both threads' records stay well typed, and a   *)
(* thread only writes a slot the pad has: DaemonTypeOK.                        *)
THEOREM DaemonTypeCorrect == Spec => []DaemonTypeOK
  BY DaemonInitTyped, DaemonStepTyped, DaemonSlotInvariant, PTL DEF Spec

(* The tables agree in every state of the daemon: TablesAgree.                 *)
THEOREM DaemonTablesAgree == Spec => []TablesAgree
  BY DaemonImplementsSlots, SlotTablesAgree, PTL

(* A mapped session keeps its slot through every handler: OwnershipStable.     *)
THEOREM DaemonOwnershipStable == Spec => OwnershipStable
  BY DaemonImplementsSlots, SlotOwnershipStable, PTL

--------------------------------------------------------------------------------
(* A question is never replaced by a guess.  The invariant QuestionUntracked   *)
(* is needed because the watcher's step looks neither at the session's state   *)
(* nor at its events: that a session showing "question" has nothing to         *)
(* escalate rests on what the handlers did before.                             *)

(* No call is tracked before the first event.                                  *)
LEMMA QuestionInit == Init => QuestionUntracked
  BY DEF Init, QuestionUntracked, Tracked, LoopIdle

(* What is typed in the four parts of the invariant.                           *)
QuestionTyped ==
  /\ intended \in [Session -> PadStates]
  /\ pending_calls \in [Session -> Call \cup {NoCall}]
  /\ slot_to_session \in [Slots -> Session \cup {NoSession}]
  /\ LoopOK

(* An allocation answers with a slot the session then owns, or with none.      *)
LEMMA AllocatedIsOwned ==
  ASSUME SlotInv, NEW s \in Session, NEW i \in Slots \cup {NoSlot}, Allocate(s, i)
  PROVE  i = NoSlot \/ slot_to_session'[i] = s
  BY DEF SlotInv, SlotTypeOK, TablesAgree, Allocate, AllocateExisting, AllocateFirstFit,
         AllocateFull, FreeSlots, Mapped, slotVars

(* The steps that touch nothing the invariant speaks of.                       *)
KeyTouch ==
  \/ \E i \in Keys : KeyTap(i)
  \/ ReaderDispatch \/ ReaderForget \/ ReaderCache \/ ReaderWrite

LinkStep ==
  \/ LinkDrop \/ LinkReattach \/ ResyncWrite \/ ResyncDone
  \/ \E i \in Slots : ResyncPack(i)

(* Every step preserves it.                                                    *)
LEMMA QuestionStep ==
  DaemonTypeOK /\ SlotInv /\ QuestionUntracked /\ [Next]_vars => QuestionUntracked'
  <1> SUFFICES ASSUME DaemonTypeOK, SlotInv, QuestionUntracked, [Next]_vars
               PROVE  QuestionUntracked'
    OBVIOUS
  <1> QuestionTyped
    BY DEF QuestionTyped, DaemonTypeOK, TablesOK, HistoryOK, SlotTypeOK
  <1>1. CASE UNCHANGED <<slot_to_session, pending_calls, intended, watch, loop>>
    BY <1>1 DEF QuestionUntracked, Tracked
  <1>2. ASSUME NEW s \in Session, HookSessionStart(s)
        PROVE  QuestionUntracked'
    BY <1>2, AllocatedIsOwned, IdleRecords
    DEF HookSessionStart, QuestionUntracked, Tracked, QuestionTyped, historyVars
  <1>3. ASSUME NEW s \in Session, HookSessionEnd(s)
        PROVE  QuestionUntracked'
    BY <1>3, IdleRecords DEF HookSessionEnd, QuestionUntracked, Tracked, QuestionTyped, historyVars
  <1>4. ASSUME NEW s \in Session, NEW event \in Events, HookOther(s, event)
        PROVE  QuestionUntracked'
    BY <1>4, AllocatedIsOwned, IdleRecords
    DEF HookOther, QuestionUntracked, Tracked, QuestionTyped, historyVars
  <1>5. CASE LoopRecord
    BY <1>5, IdleRecords
    DEF LoopRecord, Intend, QuestionUntracked, Tracked, QuestionTyped, LoopOK, slotVars
  <1>6. CASE LoopTrack
    <2> DEFINE s == loop.session
    <2>1. watch = {} /\ watch' = {}
      BY <1>6 DEF LoopTrack, QuestionUntracked
    <2>2. loop'.pc \in {"idle", "cache"}
      BY <1>6, IdleRecords DEF LoopTrack, QuestionTyped, LoopOK
    <2>3. s \in Session /\ loop.slot \in Slots
      BY <1>6 DEF LoopTrack, QuestionTyped, LoopOK
    <2>4. pending_calls' = [pending_calls EXCEPT ![s] = TrackedCall(loop.event, s, loop.slot)]
      BY <1>6 DEF LoopTrack
    <2>5. \A t \in Session \ {s} : intended'[t] = intended[t] /\ pending_calls'[t] = pending_calls[t]
      BY <1>6, <2>3, <2>4 DEF LoopTrack, Intend, QuestionTyped
    <2>6. ASSUME intended'[s] = "question" PROVE pending_calls'[s] = NoCall
      <3>1. CASE hook_to_state(loop.event) = "question"
        BY <2>3, <2>4, <3>1 DEF TrackedCall, QuestionTyped
      <3>2. CASE hook_to_state(loop.event) # "question"
        <4>1. intended[s] = "question"
          BY <1>6, <2>3, <2>6, <3>2 DEF LoopTrack, Intend, QuestionTyped
        <4>2. slot_to_session[loop.slot] = s /\ pending_calls[s] = NoCall
          BY <1>6, <2>3, <4>1, SlotIsNotNoSlot DEF LoopTrack, QuestionUntracked, Tracked
        <4>3. hook_to_state(loop.event) = NoState
          BY <1>6, <2>3, <2>6, <3>2, <4>2 DEF LoopTrack, Intend, QuestionTyped
        <4>4. QED BY <2>3, <2>4, <4>2, <4>3 DEF TrackedCall, QuestionTyped, NoState
      <3>3. QED BY <3>1, <3>2
    <2>7. QED BY <2>1, <2>2, <2>3, <2>5, <2>6 DEF QuestionUntracked, Tracked
  <1>7. CASE LoopCleanup
    BY <1>7, IdleRecords DEF LoopCleanup, QuestionUntracked, Tracked, QuestionTyped, LoopOK, slotVars
  <1>8. CASE LoopCache
    BY <1>8 DEF LoopCache, QuestionUntracked, Tracked, QuestionTyped, LoopOK, tableVars, slotVars, historyVars
  <1>9. CASE LoopWrite
    BY <1>9, IdleRecords
    DEF LoopWrite, QuestionUntracked, Tracked, QuestionTyped, tableVars, slotVars, historyVars
  <1>10. CASE WatchWake
    BY <1>10, IdleRecords
    DEF WatchWake, Overdue, QuestionUntracked, Tracked, QuestionTyped, tableVars, slotVars, historyVars
  <1>11. ASSUME NEW call \in watch, WatchEscalate(call)
         PROVE  QuestionUntracked'
    BY <1>11, IdleRecords
    DEF WatchEscalate, Intend, QuestionUntracked, Tracked, QuestionTyped, LoopOK, slotVars
  <1>12. CASE Tick
    BY <1>12 DEF Tick, Aging, QuestionUntracked, Tracked, QuestionTyped, slotVars, historyVars
  <1>13. ASSUME NEW i \in Keys, KeyHeld(i)
         PROVE  QuestionUntracked'
    BY <1>13, KeysAssumption, NoSessionAssumption
    DEF KeyHeld, Evict, QuestionUntracked, Tracked, QuestionTyped, LoopOK
  <1>14. CASE ReaderUntrack
    BY <1>14 DEF ReaderUntrack, QuestionUntracked, Tracked, QuestionTyped, slotVars, historyVars
  <1>15. CASE KeyTouch \/ LinkStep
    <2>1. CASE KeyTouch
      BY <2>1, <1>1 DEF KeyTouch, KeyTap, ReaderDispatch, ReaderForget, ReaderCache, ReaderWrite,
                        tableVars, slotVars, historyVars
    <2>2. CASE LinkStep
      BY <2>2, <1>1 DEF LinkStep, LinkDrop, LinkReattach, ResyncPack, ResyncWrite, ResyncDone,
                        tableVars, slotVars, historyVars
    <2>3. QED BY <1>15, <2>1, <2>2
  <1>16. CASE LoopWriteRaises
    BY <1>16, IdleRecords
    DEF LoopWriteRaises, QuestionUntracked, Tracked, QuestionTyped, tableVars, slotVars, historyVars
  <1>17. QED
    BY <1>1, <1>2, <1>3, <1>4, <1>5, <1>6, <1>7, <1>8, <1>9, <1>10, <1>11, <1>12, <1>13,
       <1>14, <1>15, <1>16
    DEF Next, LoopStep, ReaderStep, KeyTouch, LinkStep, vars, tableVars, slotVars, historyVars

(* One step of QuestionIsKept, to be boxed below.                              *)
KeepsQuestions == \A s \in Session : intended[s] = "question" => intended'[s] # "tool_stalled"

(* The invariant makes every step keep a question.                             *)
LEMMA QuestionStepKept ==
  DaemonTypeOK /\ QuestionUntracked /\ [Next]_vars => [KeepsQuestions]_vars
  <1> SUFFICES ASSUME DaemonTypeOK, QuestionUntracked, Next
               PROVE  KeepsQuestions
    OBVIOUS
  <1> QuestionTyped
    BY DEF QuestionTyped, DaemonTypeOK, TablesOK, HistoryOK, SlotTypeOK
  <1>1. CASE UNCHANGED intended
    BY <1>1 DEF KeepsQuestions
  <1>2. CASE LoopRecord
    BY <1>2 DEF LoopRecord, Intend, KeepsQuestions, QuestionTyped
  <1>3. CASE LoopTrack
    BY <1>3, EventStates DEF LoopTrack, Intend, KeepsQuestions, QuestionTyped
  <1>4. CASE LoopCleanup
    BY <1>4 DEF LoopCleanup, KeepsQuestions, QuestionTyped
  <1>5. ASSUME NEW call \in watch, WatchEscalate(call)
        PROVE  KeepsQuestions
    BY <1>5 DEF WatchEscalate, Intend, KeepsQuestions, QuestionUntracked, QuestionTyped
  <1>6. ASSUME NEW i \in Keys, KeyHeld(i)
        PROVE  KeepsQuestions
    BY <1>6 DEF KeyHeld, KeepsQuestions, QuestionTyped
  <1>7. CASE KeyTouch \/ LinkStep
    BY <1>1, <1>7 DEF KeyTouch, KeyTap, ReaderDispatch, ReaderForget, ReaderCache, ReaderWrite,
                      LinkStep, LinkDrop, LinkReattach, ResyncPack, ResyncWrite, ResyncDone,
                      historyVars
  <1>8. CASE (\E s \in Session : HookSessionStart(s) \/ HookSessionEnd(s))
             \/ (\E s \in Session, event \in Events : HookOther(s, event))
    BY <1>1, <1>8 DEF HookSessionStart, HookSessionEnd, HookOther, historyVars
  <1>9. CASE LoopCache \/ LoopWrite \/ LoopWriteRaises \/ WatchWake \/ Tick \/ ReaderUntrack
    BY <1>1, <1>9 DEF LoopCache, LoopWrite, LoopWriteRaises, WatchWake, Tick, ReaderUntrack, historyVars
  <1>10. QED
    BY <1>2, <1>3, <1>4, <1>5, <1>6, <1>7, <1>8, <1>9
    DEF Next, LoopStep, ReaderStep, KeyTouch, LinkStep

(* The invariant behind it holds in every state.                               *)
THEOREM QuestionInvariant == Spec => []QuestionUntracked
  BY QuestionInit, QuestionStep, DaemonTypeCorrect, DaemonSlotInvariant, PTL DEF Spec

(* A session waiting for the user is never repainted as stalled:               *)
(* QuestionIsKept, whichever way the two threads interleave.                   *)
THEOREM QuestionKept == Spec => QuestionIsKept
  <1>1. Spec => [][KeepsQuestions]_vars
    BY QuestionInvariant, DaemonTypeCorrect, QuestionStepKept, PTL DEF Spec
  <1>2. QED BY <1>1 DEF QuestionIsKept, KeepsQuestions
=================================================================================
