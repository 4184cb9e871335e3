--------------------------- MODULE DaemonDisplayProofs ---------------------------
(* That the pad mirrors the sessions, that a tracked call belongs to the owner *)
(* of its slot and that a pressed key finds a target, for any sessions, slots, *)
(* events, keys and threshold, with or without a link that fails; that the     *)
(* daemon implements the board where it promises to; and that a handler and a  *)
(* round of the watcher come to their end and show every call they took.       *)
EXTENDS MacropadDaemonProofs, FiniteSetTheorems

(* Where the two threads are, and what that leaves to others.                  *)
ThreadsPlaced ==
  /\ loop.pc \in {"idle", "watch"} => loop.slot = NoSlot
  /\ loop.pc = "cleanup" => loop.msg = "off" /\ ~ Mapped(loop.session)
  /\ watch # {} => loop.pc \in {"watch", "cache", "write"}
  /\ reader.pc \in {"idle", "resync"} => reader.slot = NoSlot
  /\ reader.pc \notin {"dispatch", "untrack", "forget"} => reader.session = NoSession
  /\ reader.pc # "rewrite" => reader.msg = "off"
  /\ reader.pc \notin {"resync", "rewrite"} => \A i \in Slots : replay[i] = NotReplayed

(* A session without a slot has asked for nothing that is still to be shown.   *)
UnmappedIsSilent ==
  \A s \in Session :
    ~ Mapped(s) /\ ~ (loop.pc = "cleanup" /\ loop.session = s) => intended[s] = "off"

(* What holds of a slot that is not raced.                                     *)

OneThread(i) == ~ (LoopHolds(i) /\ ReaderHolds(i))

(* Nobody takes the slot away from a handler or a round of the watcher, nor    *)
(* gives it away while it is being cleared.                                    *)
OwnerKept(i) ==
  /\ loop.slot = i /\ loop.pc \in {"record", "track"} => slot_to_session[i] = loop.session
  /\ loop.slot = i /\ loop.pc = "cleanup" => slot_to_session[i] = NoSession
  /\ \A call \in watch : call.slot = i => slot_to_session[i] = call.session
  /\ reader.slot = i /\ reader.pc \in {"untrack", "forget", "cache", "write"} =>
        slot_to_session[i] = NoSession
  /\ reader.pc \in {"untrack", "forget"} => slot_to_session[i] # reader.session

(* What is about to be sent is what the slot should show.                      *)
MsgRight(i) ==
  /\ loop.slot = i /\ loop.pc \in {"cache", "write"} => loop.msg = Expected(i)
  /\ replay[i] \in {NotReplayed, Live}
  /\ replay[i] = Live => pad_state[i] # "off"
  /\ reader.slot = i /\ reader.pc = "rewrite" => reader.msg = pad_state[i] /\ pad_state[i] # "off"

(* The cache is right, or is about to be.                                      *)
CacheRight(i) ==
  \/ loop.slot = i /\ loop.pc \in {"cleanup", "cache"}
  \/ reader.slot = i /\ reader.pc \in {"untrack", "forget", "cache"}
  \/ pad_state[i] = Expected(i)

(* The pad shows the cache, or is about to, or will when the link is back.     *)
LedRight(i) ==
  \/ loop.slot = i /\ loop.pc = "write"
  \/ reader.slot = i /\ reader.pc \in {"write", "rewrite"}
  \/ replay[i] = Live
  \/ led[i] = pad_state[i]
  \/ link = "down" /\ pad_state[i] # "off"

TargetKnown(i) ==
  slot_to_session[i] # NoSession =>
    slot_to_session[i] \in session_projects \/ (loop.slot = i /\ loop.pc = "record")

SlotRight(i) ==
  OneThread(i) /\ OwnerKept(i) /\ MsgRight(i) /\ CacheRight(i) /\ LedRight(i) /\ TargetKnown(i)

SlotsRight == \A i \in Slots \ raced : SlotRight(i)

CallsOwned ==
  \A s \in Session :
    Tracked(s) /\ pending_calls[s].slot \notin raced =>
      \/ slot_to_session[pending_calls[s].slot] = s
      \/ loop.pc = "cleanup" /\ loop.session = s
      \/ reader.pc = "untrack" /\ reader.session = s /\ reader.slot = pending_calls[s].slot

(* The inductive invariant: four parts, each of which needs the others.        *)
DisplayInv == ThreadsPlaced /\ UnmappedIsSilent /\ SlotsRight /\ CallsOwned

--------------------------------------------------------------------------------
(* Nothing is shown, tracked or under way before the first event.              *)
LEMMA DisplayInit == Init => DisplayInv
  <1> SUFFICES ASSUME Init PROVE DisplayInv
    OBVIOUS
  <1> USE DEF Init, SlotInit, LoopIdle, ReaderIdle
  <1>1. ThreadsPlaced
    BY DEF ThreadsPlaced
  <1>2. UnmappedIsSilent
    BY DEF UnmappedIsSilent
  <1>3. ASSUME NEW i \in Slots PROVE SlotRight(i)
    <2>1. i # NoSlot
      BY SlotIsNotNoSlot
    <2>2. OneThread(i)
      BY <2>1 DEF OneThread, LoopHolds
    <2>3. OwnerKept(i) /\ MsgRight(i)
      BY <2>1 DEF OwnerKept, MsgRight, Live, NotReplayed
    <2>4. CacheRight(i) /\ LedRight(i) /\ TargetKnown(i)
      BY DEF CacheRight, Expected, LedRight, TargetKnown
    <2>5. QED BY <2>2, <2>3, <2>4 DEF SlotRight
  <1>4. CallsOwned
    BY DEF CallsOwned, Tracked
  <1>5. QED BY <1>1, <1>2, <1>3, <1>4 DEF DisplayInv, SlotsRight

--------------------------------------------------------------------------------
(* Where the threads are after a step.                                         *)
LEMMA ThreadsStep == DaemonTypeOK /\ SlotInv /\ ThreadsPlaced /\ [Next]_vars => ThreadsPlaced'
  <1> SUFFICES ASSUME DaemonTypeOK, SlotInv, ThreadsPlaced, [Next]_vars
               PROVE  ThreadsPlaced'
    OBVIOUS
  <1> LoopOK /\ ReaderOK /\ SlotTypeOK /\ PadOK
    BY DEF DaemonTypeOK
  <1> USE DEF LoopIdle, ReaderIdle
  <1>1. CASE UNCHANGED <<loop, watch, reader, replay, session_to_slot>>
    BY <1>1 DEF ThreadsPlaced, Mapped
  <1>2. ASSUME NEW s \in Session, HookSessionStart(s)
        PROVE  ThreadsPlaced'
    BY <1>2 DEF HookSessionStart, ThreadsPlaced, padVars
  <1>3. ASSUME NEW s \in Session, HookSessionEnd(s)
        PROVE  ThreadsPlaced'
    BY <1>3 DEF HookSessionEnd, Free, Mapped, SlotTypeOK, ThreadsPlaced, padVars
  <1>4. ASSUME NEW s \in Session, NEW event \in Events, HookOther(s, event)
        PROVE  ThreadsPlaced'
    BY <1>4 DEF HookOther, ThreadsPlaced, padVars
  <1>5. CASE LoopRecord
    <2>1. loop'.pc \in {"track", "cache"} \/ loop' = LoopIdle
      BY <1>5 DEF LoopRecord, LoopOK
    <2>2. QED BY <1>5, <2>1 DEF LoopRecord, ThreadsPlaced, padVars
  <1>6. CASE LoopTrack
    <2>1. loop'.pc = "cache" \/ loop' = LoopIdle
      BY <1>6 DEF LoopTrack, LoopOK
    <2>2. QED BY <1>6, <2>1 DEF LoopTrack, ThreadsPlaced, padVars
  <1>7. CASE LoopCleanup
    BY <1>7 DEF LoopCleanup, LoopOK, ThreadsPlaced, padVars
  <1>8. CASE LoopCache
    BY <1>8 DEF LoopCache, CacheMsg, LoopOK, PadOK, ThreadsPlaced, NotReplayed, Live
  <1>9. CASE LoopWrite
    BY <1>9 DEF LoopWrite, ThreadsPlaced
  <1>10. CASE WatchWake
    BY <1>10 DEF WatchWake, ThreadsPlaced, padVars
  <1>11. ASSUME NEW call \in watch, WatchEscalate(call)
         PROVE  ThreadsPlaced'
    BY <1>11 DEF WatchEscalate, ThreadsPlaced, padVars
  <1>12. ASSUME NEW i \in Keys, KeyTap(i) \/ KeyHeld(i)
         PROVE  ThreadsPlaced'
    <2>1. \A s \in Session : ~ Mapped(s) => ~ Mapped(s)'
      BY <1>12, KeysAssumption DEF KeyTap, KeyHeld, Evict, Mapped, SlotTypeOK, tableVars, slotVars
    <2>2. reader'.pc \in {"cache", "dispatch", "untrack"} /\ reader'.msg = "off"
      BY <1>12 DEF KeyTap, KeyHeld
    <2>3. reader'.pc = "cache" => reader'.session = NoSession
      BY <1>12 DEF KeyTap, KeyHeld
    <2>4. UNCHANGED <<loop, watch, replay>> /\ reader.pc = "idle"
      BY <1>12 DEF KeyTap, KeyHeld, padVars
    <2>5. \A j \in Slots : replay[j] = NotReplayed
      BY <2>4 DEF ThreadsPlaced
    <2>6. loop.pc = "cleanup" => ~ Mapped(loop.session)'
      BY <2>1, <2>4 DEF LoopOK, ThreadsPlaced
    <2> QED
      BY <2>2, <2>3, <2>4, <2>5, <2>6 DEF ThreadsPlaced, Mapped
  <1>13. CASE ReaderDispatch \/ ReaderUntrack \/ ReaderForget
    <2>1. \/ reader'.pc = "forget" /\ reader'.msg = reader.msg
          \/ reader'.pc = "cache" /\ reader'.session = NoSession /\ reader'.msg = reader.msg
          \/ reader' = ReaderIdle
      BY <1>13 DEF ReaderDispatch, ReaderUntrack, ReaderForget, ReaderOK
    <2>2. UNCHANGED <<loop, watch, replay, session_to_slot>> /\ reader.pc \in {"dispatch", "untrack", "forget"}
      BY <1>13 DEF ReaderDispatch, ReaderUntrack, ReaderForget, padVars, tableVars, slotVars
    <2>3. QED BY <2>1, <2>2 DEF ThreadsPlaced, Mapped
  <1>14. CASE ReaderCache
    BY <1>14 DEF ReaderCache, CacheMsg, ReaderOK, PadOK, ThreadsPlaced, NotReplayed, Live, Mapped, tableVars, slotVars
  <1>15. CASE ReaderWrite \/ ResyncWrite \/ ResyncDone
    BY <1>15 DEF ReaderWrite, ResyncWrite, ResyncDone, ReaderOK, ThreadsPlaced, Mapped, padVars, tableVars, slotVars
  <1>16. CASE LinkReattach
    BY <1>16 DEF LinkReattach, ThreadsPlaced, Mapped, tableVars, slotVars
  <1>17. ASSUME NEW i \in Slots, ResyncPack(i)
         PROVE  ThreadsPlaced'
    BY <1>17 DEF ResyncPack, ReaderOK, ThreadsPlaced, Mapped, tableVars, slotVars
  <1>18. CASE Tick \/ LinkDrop
    BY <1>1, <1>18 DEF Tick, LinkDrop, padVars, tableVars, slotVars
  <1>19. CASE UNCHANGED vars
    BY <1>1, <1>19 DEF vars, padVars, tableVars, slotVars
  <1>20. CASE LoopWriteRaises
    BY <1>20 DEF LoopWriteRaises, ThreadsPlaced, padVars
  <1>21. QED
    BY <1>2, <1>3, <1>4, <1>5, <1>6, <1>7, <1>8, <1>9, <1>10, <1>11, <1>12, <1>13, <1>14, <1>15,
       <1>16, <1>17, <1>18, <1>19, <1>20
    DEF Next, LoopStep, ReaderStep

(* A session gets a state to show only while it owns the slot of its handler.  *)
LEMMA SilentStep ==
  DaemonTypeOK /\ SlotInv /\ ThreadsPlaced /\ UnmappedIsSilent /\ [Next]_vars => UnmappedIsSilent'
  <1> SUFFICES ASSUME DaemonTypeOK, SlotInv, ThreadsPlaced, UnmappedIsSilent, [Next]_vars
               PROVE  UnmappedIsSilent'
    OBVIOUS
  <1> LoopOK /\ SlotTypeOK /\ HistoryOK /\ TablesAgree
    BY DEF DaemonTypeOK, SlotInv
  <1> USE DEF LoopIdle
  <1>1. CASE UNCHANGED <<session_to_slot, intended>>
             /\ ((loop.pc = "cleanup" /\ loop.session \in Session) => UNCHANGED <<loop.pc, loop.session>>)
    BY <1>1 DEF UnmappedIsSilent, Mapped
  <1>2. ASSUME NEW s \in Session, HookSessionStart(s)
        PROVE  UnmappedIsSilent'
    BY <1>2 DEF HookSessionStart, Allocate, AllocateExisting, AllocateFirstFit, AllocateFull,
                FreeSlots, SlotTypeOK, UnmappedIsSilent, Mapped, historyVars, slotVars
  <1>3. ASSUME NEW s \in Session, HookSessionEnd(s)
        PROVE  UnmappedIsSilent'
    BY <1>3 DEF HookSessionEnd, Free, SlotTypeOK, UnmappedIsSilent, Mapped, historyVars
  <1>4. ASSUME NEW s \in Session, NEW event \in Events, HookOther(s, event)
        PROVE  UnmappedIsSilent'
    BY <1>4 DEF HookOther, Allocate, AllocateExisting, AllocateFirstFit, AllocateFull,
                FreeSlots, SlotTypeOK, UnmappedIsSilent, Mapped, historyVars, slotVars
  <1>5. ASSUME NEW s \in Session, NEW i \in Slots, NEW state, Intend(s, i, state),
               UNCHANGED slotVars, loop.pc # "cleanup", loop'.pc # "cleanup"
        PROVE  UnmappedIsSilent'
    BY <1>5, SlotIsNotNoSlot DEF Intend, HistoryOK, TablesAgree, UnmappedIsSilent, Mapped, slotVars
  <1>6. CASE LoopRecord
    BY <1>1, <1>5, <1>6 DEF LoopRecord, LoopOK, slotVars
  <1>7. CASE LoopTrack
    BY <1>1, <1>5, <1>7 DEF LoopTrack, LoopOK, slotVars
  <1>8. CASE LoopCleanup
    BY <1>8 DEF LoopCleanup, LoopOK, HistoryOK, UnmappedIsSilent, Mapped, slotVars
  <1>9. ASSUME NEW call \in watch, WatchEscalate(call)
        PROVE  UnmappedIsSilent'
    BY <1>5, <1>9 DEF WatchEscalate, LoopOK
  <1>10. ASSUME NEW i \in Keys, KeyHeld(i)
         PROVE  UnmappedIsSilent'
    BY <1>10, KeysAssumption DEF KeyHeld, Evict, SlotTypeOK, HistoryOK, UnmappedIsSilent, Mapped
  <1>11. CASE LoopCache \/ LoopWrite \/ LoopWriteRaises \/ WatchWake \/ Tick \/ ReaderUntrack
    BY <1>1, <1>11 DEF LoopCache, LoopWrite, LoopWriteRaises, WatchWake, Tick, ReaderUntrack,
                       historyVars, tableVars, slotVars
  <1>12. CASE KeyTouch \/ LinkStep
    BY <1>1, <1>12 DEF KeyTouch, KeyTap, ReaderDispatch, ReaderForget, ReaderCache, ReaderWrite,
                       LinkStep, LinkDrop, LinkReattach, ResyncPack, ResyncWrite, ResyncDone,
                       historyVars, tableVars, slotVars
  <1>13. CASE UNCHANGED vars
    BY <1>1, <1>13 DEF vars, historyVars, tableVars, slotVars
  <1>14. QED
    BY <1>2, <1>3, <1>4, <1>6, <1>7, <1>8, <1>9, <1>10, <1>11, <1>12, <1>13
    DEF Next, LoopStep, ReaderStep, KeyTouch, LinkStep

(* What the per-slot steps read off the other parts.                           *)

(* An unraced slot was not raced before and is held by one thread at most; no  *)
(* clear for it was lost.                                                      *)
LEMMA NotRaced ==
  ASSUME Interference, NEW i \in Slots \ raced'
  PROVE  /\ i \notin raced
         /\ OneThread(i)'
         /\ LosesClear(loop) /\ loop.slot = i => loop'.pc = "write"
         /\ LosesClear(reader) /\ reader.slot = i => reader'.pc = "write"
  BY DEF Interference, OneThread

(* Every step records interference.                                            *)
LEMMA StepsRecord == Next => Interference
  <1> USE DEF Interference
  <1>1. LoopStep => Interference
    BY DEF LoopStep, HookSessionStart, HookSessionEnd, HookOther, LoopRecord, LoopTrack, LoopCleanup,
           LoopCache, LoopWrite, LoopWriteRaises, WatchWake, WatchEscalate
  <1>2. ReaderStep => Interference
    BY DEF ReaderStep, KeyTap, KeyHeld, ReaderDispatch, ReaderUntrack, ReaderForget, ReaderCache,
           ReaderWrite, LinkReattach, ResyncPack, ResyncWrite, ResyncDone
  <1>3. Tick \/ LinkDrop => Interference
    BY DEF Tick, LinkDrop
  <1>4. QED BY <1>1, <1>2, <1>3 DEF Next

(* An allocation gives the session a free slot and changes no other slot.      *)
LEMMA AllocateAt ==
  ASSUME SlotInv, NEW s \in Session, NEW k \in Slots \cup {NoSlot}, Allocate(s, k), NEW i \in Slots
  PROVE  \/ slot_to_session'[i] = slot_to_session[i]
         \/ slot_to_session[i] = NoSession /\ slot_to_session'[i] = s /\ k = i /\ ~ Mapped(s)
  BY DEF SlotInv, SlotTypeOK, Allocate, AllocateExisting, AllocateFirstFit, AllocateFull, FreeSlots, slotVars

(* A release takes the slot from this session alone.                           *)
LEMMA FreeAt ==
  ASSUME SlotInv, NEW s \in Session, NEW k \in Slots \cup {NoSlot}, Free(s, k), NEW i \in Slots
  PROVE  IF k = i THEN slot_to_session'[i] = NoSession
         ELSE slot_to_session'[i] = slot_to_session[i] /\ slot_to_session[i] # s
  BY SlotIsNotNoSlot DEF SlotInv, SlotTypeOK, TablesAgree, Free

(* An eviction takes the slot from its owner and no other slot from anybody.   *)
LEMMA EvictAt ==
  ASSUME SlotInv, NEW j \in Slots, NEW s \in Session \cup {NoSession}, Evict(j, s), NEW i \in Slots
  PROVE  IF i = j THEN slot_to_session[i] = s /\ slot_to_session'[i] = NoSession
         ELSE slot_to_session'[i] = slot_to_session[i] /\ (s # NoSession => slot_to_session[i] # s)
  BY SlotIsNotNoSlot DEF SlotInv, SlotTypeOK, TablesAgree, Evict

(* Two slots have different owners.                                            *)
LEMMA OneSlotEach ==
  ASSUME SlotInv, NEW s \in Session, NEW i \in Slots, NEW j \in Slots,
         slot_to_session[i] = s, slot_to_session[j] = s
  PROVE  i = j
  BY DEF SlotInv, SlotTypeOK, TablesAgree

(* A state is intended for the owner of its slot: nobody else's slot shows it. *)
LEMMA IntendAt ==
  ASSUME SlotInv, HistoryOK, NEW s \in Session, NEW k \in Slots, NEW state, Intend(s, k, state),
         UNCHANGED slotVars, NEW i \in Slots
  PROVE  Expected(i)' = IF k = i /\ slot_to_session[i] = s THEN state ELSE Expected(i)
  <1>1. slot_to_session'[i] = slot_to_session[i] /\ slot_to_session[i] \in Session \cup {NoSession}
    BY DEF slotVars, SlotInv, SlotTypeOK
  <1>2. CASE slot_to_session[k] = s /\ slot_to_session[i] = s
    BY <1>1, <1>2, OneSlotEach, NoSessionAssumption DEF Intend, HistoryOK, Expected
  <1>3. CASE slot_to_session[k] = s /\ slot_to_session[i] # s
    BY <1>1, <1>3 DEF Intend, HistoryOK, Expected
  <1>4. CASE slot_to_session[k] # s
    BY <1>1, <1>4 DEF Intend, Expected
  <1>5. QED BY <1>2, <1>3, <1>4

(* The steps after which a slot is expected to show what it was.               *)
LEMMA SameExpected ==
  ASSUME UNCHANGED <<tableVars, historyVars>>, NEW i \in Slots
  PROVE  Expected(i)' = Expected(i) /\ slot_to_session'[i] = slot_to_session[i]
  BY DEF tableVars, historyVars, Expected

--------------------------------------------------------------------------------
(* One unraced slot through each step.                                         *)

(* The context of each of the lemmas below.                                    *)
SlotContext(i) ==
  /\ DaemonTypeOK /\ SlotInv /\ ThreadsPlaced /\ UnmappedIsSilent /\ CallsOwned
  /\ i \in Slots /\ i # NoSlot
  /\ i \notin raced /\ SlotRight(i)
  /\ slot_to_session[i] \in Session \cup {NoSession}

(* The hooks: a slot found, allocated or freed for the session.                *)
LEMMA HookSlotStep ==
  ASSUME NEW i, SlotContext(i), OneThread(i)', loop.pc = "idle",
         NEW s \in Session, NEW k \in Slots \cup {NoSlot},
         UNCHANGED <<pending_calls, session_projects, padVars, historyVars, watch, reader>>,
         \/ /\ Allocate(s, k)
            /\ loop'.pc \in {"record", "track"} /\ (~ Mapped(s) => loop'.pc = "record")
            /\ loop'.session = s /\ loop'.slot = k
         \/ /\ Free(s, k)
            /\ loop'.pc = "cleanup" /\ loop'.session = s /\ loop'.slot = k
  PROVE  SlotRight(i)'
  <1> USE DEF SlotContext, SlotRight
  <1>1. LoopOK /\ ReaderOK /\ HistoryOK /\ watch = {} /\ watch' = {} /\ loop.slot # i
    BY DEF DaemonTypeOK, ThreadsPlaced
  <1>2. \/ slot_to_session'[i] = slot_to_session[i] /\ (k = i => loop'.pc # "cleanup" \/ slot_to_session'[i] = NoSession)
        \/ slot_to_session[i] = NoSession /\ slot_to_session'[i] = s /\ k = i /\ ~ Mapped(s)
           /\ loop'.pc = "record"
        \/ k = i /\ slot_to_session'[i] = NoSession /\ loop'.pc = "cleanup"
    BY AllocateAt, FreeAt
  <1>3. k = i /\ loop'.pc # "cleanup" => slot_to_session'[i] = s
    BY AllocatedIsOwned
  <1>4. k = i /\ loop'.pc = "cleanup" => slot_to_session'[i] = NoSession
    BY FreeAt
  <1>5. k = i => reader'.slot # i /\ replay'[i] = NotReplayed
                 /\ (reader'.session # NoSession => reader'.session # s)
    BY DEF OneThread, LoopHolds, ReaderHolds
  <1>6. OwnerKept(i)'
    BY <1>1, <1>2, <1>3, <1>4, <1>5, NoSessionAssumption DEF OwnerKept, ReaderOK
  <1>7. Expected(i)' = Expected(i) \/ (k = i /\ loop'.pc = "cleanup")
    BY <1>1, <1>2, NoSessionAssumption DEF Expected, UnmappedIsSilent, HistoryOK, historyVars
  <1>8. MsgRight(i)'
    BY <1>1 DEF MsgRight, padVars
  <1>9. CacheRight(i)' /\ LedRight(i)' /\ TargetKnown(i)'
    BY <1>1, <1>2, <1>3, <1>7 DEF CacheRight, LedRight, TargetKnown, padVars
  <1>10. QED BY <1>6, <1>8, <1>9

(* record and track: the handler asks for a state on the slot it found.        *)
LEMMA HandlerSlotStep ==
  ASSUME NEW i, SlotContext(i), OneThread(i)', LoopRecord \/ LoopTrack
  PROVE  SlotRight(i)'
  <1> USE DEF SlotContext, SlotRight, LoopIdle
  <1> DEFINE s == loop.session
  <1>1. LoopOK /\ ReaderOK /\ HistoryOK /\ watch = {} /\ watch' = {} /\ s \in Session
    BY DEF DaemonTypeOK, ThreadsPlaced, LoopRecord, LoopTrack, LoopOK
  <1>2. UNCHANGED <<slotVars, padVars, reader>> /\ loop.pc \in {"record", "track"}
    BY DEF LoopRecord, LoopTrack
  <1>3. loop.slot = i => slot_to_session[i] = s
    BY <1>2 DEF OwnerKept
  <1>4. \/ loop'.pc = "track" /\ loop.pc = "record" /\ loop'.slot = loop.slot /\ loop'.session = s
           /\ UNCHANGED intended
        \/ loop' = LoopIdle /\ UNCHANGED intended /\ (loop.pc = "record" => loop.slot = NoSlot)
        \/ loop'.pc = "cache" /\ loop'.slot = loop.slot /\ loop.slot \in Slots
           /\ Intend(s, loop.slot, loop'.msg)
    BY <1>1, SlotIsNotNoSlot DEF LoopRecord, LoopTrack, LoopOK
  <1>5. IF loop'.pc = "cache" /\ loop.slot = i THEN Expected(i)' = loop'.msg
        ELSE Expected(i)' = Expected(i)
    <2>1. CASE loop'.pc # "cache"
      BY <1>2, <1>4, <2>1 DEF Expected, slotVars
    <2>2. CASE loop'.pc = "cache" /\ loop.slot \in Slots /\ Intend(s, loop.slot, loop'.msg)
      BY <1>1, <1>2, <1>3, <2>2, IntendAt
    <2>3. QED BY <1>4, <2>1, <2>2
  <1>6. OwnerKept(i)'
    BY <1>1, <1>2, <1>3, <1>4 DEF OwnerKept, slotVars
  <1>7. MsgRight(i)'
    BY <1>2, <1>4, <1>5 DEF MsgRight, padVars
  <1>8. CacheRight(i)' /\ LedRight(i)'
    BY <1>2, <1>4, <1>5 DEF CacheRight, LedRight, padVars
  <1>9. session_projects \subseteq session_projects' /\ (loop.pc = "record" => s \in session_projects')
    BY DEF LoopRecord, LoopTrack, TargetsAfter
  <1>10. TargetKnown(i)'
    BY <1>2, <1>3, <1>9 DEF TargetKnown, slotVars
  <1>11. QED BY <1>6, <1>7, <1>8, <1>10

(* The end of a session, whose slot is already free.                           *)
LEMMA CleanupSlotStep ==
  ASSUME NEW i, SlotContext(i), OneThread(i)', LoopCleanup
  PROVE  SlotRight(i)'
  <1> USE DEF SlotContext, SlotRight, LoopIdle
  <1>1. LoopOK /\ ReaderOK /\ HistoryOK /\ watch = {} /\ watch' = {} /\ loop.session \in Session
        /\ loop.msg = "off" /\ ~ Mapped(loop.session)
    BY DEF DaemonTypeOK, ThreadsPlaced, LoopCleanup, LoopOK
  <1>2. UNCHANGED <<slotVars, padVars, reader>> /\ loop.pc = "cleanup"
    BY DEF LoopCleanup
  <1>3. slot_to_session[i] # loop.session
    BY <1>1 DEF SlotInv, TablesAgree, Mapped
  <1>4. Expected(i)' = Expected(i) /\ slot_to_session'[i] = slot_to_session[i]
    BY <1>1, <1>2, <1>3 DEF LoopCleanup, Expected, HistoryOK, slotVars
  <1>5. loop.slot = i => Expected(i) = "off"
    BY <1>2 DEF OwnerKept, Expected
  <1>6. IF loop.slot = NoSlot THEN loop' = LoopIdle
        ELSE loop'.pc = "cache" /\ loop'.slot = loop.slot /\ loop'.msg = "off"
    BY <1>1 DEF LoopCleanup, LoopOK
  <1>7. OwnerKept(i)' /\ MsgRight(i)'
    BY <1>1, <1>2, <1>4, <1>5, <1>6 DEF OwnerKept, MsgRight, padVars
  <1>8. CacheRight(i)' /\ LedRight(i)'
    BY <1>2, <1>4, <1>5, <1>6 DEF CacheRight, LedRight, padVars
  <1>9. TargetKnown(i)'
    BY <1>2, <1>3, <1>4 DEF TargetKnown, LoopCleanup
  <1>10. QED BY <1>7, <1>8, <1>9

(* The loop's half of _send_pad() that fills the cache.                        *)
LEMMA LoopCacheSlotStep ==
  ASSUME NEW i, SlotContext(i), OneThread(i)', LoopCache
  PROVE  SlotRight(i)'
  <1> USE DEF SlotContext, SlotRight
  <1>1. LoopOK /\ PadOK /\ loop.slot \in Slots /\ loop.pc = "cache"
    BY DEF DaemonTypeOK, LoopCache, LoopOK
  <1>2. Expected(i)' = Expected(i) /\ slot_to_session'[i] = slot_to_session[i]
    BY SameExpected DEF LoopCache
  <1>3. loop'.pc = "write" /\ loop'.slot = loop.slot /\ loop'.msg = loop.msg
        /\ loop'.session = loop.session
        /\ UNCHANGED <<led, link, watch, reader, session_projects>>
    BY <1>1 DEF LoopCache, LoopOK, tableVars
  <1>4. IF loop.slot = i
        THEN /\ pad_state'[i] = loop.msg
             /\ reader.slot # i /\ replay[i] = NotReplayed /\ replay'[i] = NotReplayed
        ELSE pad_state'[i] = pad_state[i] /\ replay'[i] = replay[i]
    BY <1>1 DEF LoopCache, CacheMsg, PadOK, OneThread, LoopHolds, ReaderHolds, NotReplayed, Live
  <1>5. OwnerKept(i)'
    BY <1>1, <1>2, <1>3 DEF OwnerKept
  <1>6. MsgRight(i)'
    BY <1>1, <1>2, <1>3, <1>4 DEF MsgRight, NotReplayed, Live
  <1>7. CacheRight(i)'
    BY <1>1, <1>2, <1>3, <1>4 DEF CacheRight, MsgRight
  <1>8. LedRight(i)' /\ TargetKnown(i)'
    BY <1>1, <1>2, <1>3, <1>4 DEF LedRight, TargetKnown
  <1>9. QED BY <1>5, <1>6, <1>7, <1>8

(* The loop's half that writes: a clear must reach the pad, a state need not.  *)
LEMMA LoopWriteSlotStep ==
  ASSUME NEW i, SlotContext(i), OneThread(i)', LoopWrite,
         LosesClear(loop) /\ loop.slot = i => loop'.pc = "write"
  PROVE  SlotRight(i)'
  <1> USE DEF SlotContext, SlotRight, LoopIdle
  <1>1. LoopOK /\ PadOK /\ loop.slot \in Slots /\ loop.pc = "write"
    BY DEF DaemonTypeOK, LoopWrite, LoopOK
  <1>2. Expected(i)' = Expected(i) /\ slot_to_session'[i] = slot_to_session[i]
    BY SameExpected DEF LoopWrite
  <1>3. loop'.pc \in {"idle", "watch"} /\ loop'.slot = NoSlot
        /\ UNCHANGED <<pad_state, link, replay, watch, reader, session_projects>>
    BY <1>1 DEF LoopWrite, tableVars
  <1>4. loop.slot = i => pad_state[i] = loop.msg /\ reader.slot # i
    BY <1>1 DEF OneThread, LoopHolds, ReaderHolds, CacheRight, MsgRight
  <1>5. IF loop.slot = i /\ link = "up" THEN led'[i] = loop.msg ELSE led'[i] = led[i]
    BY <1>1 DEF LoopWrite, WriteMsg, PadOK
  <1>6. loop.slot = i /\ link = "down" => loop.msg # "off"
    BY <1>1, <1>3 DEF LosesClear
  <1>7. OwnerKept(i)' /\ MsgRight(i)'
    BY <1>2, <1>3 DEF OwnerKept, MsgRight
  <1>8. CacheRight(i)' /\ TargetKnown(i)'
    BY <1>1, <1>2, <1>3 DEF CacheRight, TargetKnown
  <1>9. LedRight(i)'
    BY <1>1, <1>3, <1>4, <1>5, <1>6 DEF LedRight, PadOK
  <1>10. QED BY <1>7, <1>8, <1>9

(* A write that raises is one that the dead link would have dropped.           *)
LEMMA LoopRaiseSlotStep ==
  ASSUME NEW i, SlotContext(i), OneThread(i)', LoopWriteRaises,
         LosesClear(loop) /\ loop.slot = i => loop'.pc = "write"
  PROVE  SlotRight(i)'
  <1> USE DEF SlotContext, SlotRight, LoopIdle
  <1>1. PadOK /\ loop.slot \in Slots /\ loop.pc = "write" /\ link = "down"
    BY DEF DaemonTypeOK, LoopWriteRaises, LoopOK
  <1>2. Expected(i)' = Expected(i) /\ slot_to_session'[i] = slot_to_session[i]
    BY SameExpected DEF LoopWriteRaises
  <1>3. /\ loop'.pc = "idle" /\ loop'.slot = NoSlot /\ watch' = {}
        /\ UNCHANGED <<pad_state, led, link, replay, reader, session_projects>>
    BY DEF LoopWriteRaises, tableVars, padVars
  <1>4. loop.slot = i => pad_state[i] = loop.msg /\ reader.slot # i
    BY <1>1 DEF OneThread, LoopHolds, ReaderHolds, CacheRight, MsgRight
  <1>5. loop.slot = i => loop.msg # "off"
    BY <1>1, <1>3 DEF LosesClear
  <1>6. OwnerKept(i)' /\ MsgRight(i)'
    BY <1>2, <1>3 DEF OwnerKept, MsgRight
  <1>7. CacheRight(i)' /\ TargetKnown(i)'
    BY <1>1, <1>2, <1>3 DEF CacheRight, TargetKnown
  <1>8. LedRight(i)'
    BY <1>1, <1>3, <1>4, <1>5 DEF LedRight, PadOK
  <1>9. QED BY <1>6, <1>7, <1>8

(* The watcher takes the overdue calls of sessions that own their slots.       *)
LEMMA WakeSlotStep ==
  ASSUME NEW i, SlotContext(i), OneThread(i)', WatchWake
  PROVE  SlotRight(i)'
  <1> USE DEF SlotContext, SlotRight, LoopIdle
  <1>1. LoopOK /\ TablesOK /\ loop.pc = "idle" /\ loop.slot = NoSlot
    BY DEF DaemonTypeOK, ThreadsPlaced, WatchWake
  <1>2. Expected(i)' = Expected(i) /\ slot_to_session'[i] = slot_to_session[i]
    BY SameExpected DEF WatchWake
  <1>3. loop'.pc = "watch" /\ loop'.slot = NoSlot /\ UNCHANGED <<padVars, reader, session_projects>>
    BY DEF WatchWake, tableVars
  <1>4. ASSUME NEW call \in watch', call.slot = i
        PROVE  slot_to_session[i] = call.session
    <2>1. call.session \in Session /\ Tracked(call.session) /\ pending_calls[call.session].slot = i
      BY <1>4 DEF WatchWake, Overdue
    <2>2. reader.slot # i
      BY <1>3, <1>4 DEF OneThread, LoopHolds, ReaderHolds
    <2>3. QED BY <1>1, <2>1, <2>2 DEF CallsOwned
  <1>5. OwnerKept(i)' /\ MsgRight(i)'
    BY <1>2, <1>3, <1>4 DEF OwnerKept, MsgRight, padVars
  <1>6. CacheRight(i)' /\ LedRight(i)' /\ TargetKnown(i)'
    BY <1>1, <1>2, <1>3 DEF CacheRight, LedRight, TargetKnown, padVars
  <1>7. QED BY <1>5, <1>6

(* A call of the round is escalated on the slot its session still owns.        *)
LEMMA EscalateSlotStep ==
  ASSUME NEW i, SlotContext(i), OneThread(i)', NEW call \in watch, WatchEscalate(call)
  PROVE  SlotRight(i)'
  <1> USE DEF SlotContext, SlotRight, LoopIdle
  <1>1. LoopOK /\ HistoryOK /\ loop.pc = "watch" /\ loop.slot = NoSlot
        /\ call.session \in Session /\ call.slot \in Slots
    BY DEF DaemonTypeOK, ThreadsPlaced, WatchEscalate, LoopOK
  <1>2. UNCHANGED <<slotVars, session_projects, padVars, reader>> /\ watch' \subseteq watch
        /\ loop'.pc = "cache" /\ loop'.slot = call.slot /\ loop'.msg = "tool_stalled"
    BY DEF WatchEscalate
  <1>3. IF call.slot = i THEN Expected(i)' = "tool_stalled" ELSE Expected(i)' = Expected(i)
    <2>1. Intend(call.session, call.slot, "tool_stalled")
      BY DEF WatchEscalate
    <2>2. call.slot = i => slot_to_session[i] = call.session
      BY DEF OwnerKept
    <2>3. QED BY <1>1, <1>2, <2>1, <2>2, IntendAt
  <1>4. OwnerKept(i)' /\ MsgRight(i)'
    BY <1>2, <1>3 DEF OwnerKept, MsgRight, padVars, slotVars
  <1>5. CacheRight(i)' /\ LedRight(i)' /\ TargetKnown(i)'
    BY <1>1, <1>2, <1>3 DEF CacheRight, LedRight, TargetKnown, padVars, slotVars
  <1>6. QED BY <1>4, <1>5

(* A key of a slot: a tap finds its session or clears it, a hold evicts.       *)
LEMMA KeySlotStep ==
  ASSUME NEW i, SlotContext(i), OneThread(i)', NEW j \in Keys, KeyTap(j) \/ KeyHeld(j)
  PROVE  SlotRight(i)'
  <1> USE DEF SlotContext, SlotRight, ReaderIdle
  <1>1. ReaderOK /\ HistoryOK /\ reader.pc = "idle" /\ reader.slot = NoSlot /\ j \in Slots
    BY KeysAssumption DEF DaemonTypeOK, ThreadsPlaced, KeyTap, KeyHeld
  <1>2. UNCHANGED <<session_projects, padVars, loop, watch>>
        /\ reader'.pc \in {"cache", "dispatch", "untrack"} /\ reader'.slot = j
    BY DEF KeyTap, KeyHeld, tableVars
  <1>3. j = i => ~ LoopHolds(i)
    BY <1>2 DEF OneThread, LoopHolds, ReaderHolds
  <1>4. \/ UNCHANGED <<slot_to_session, intended>> /\ reader'.pc \in {"dispatch", "cache"}
           /\ (reader'.pc = "cache" /\ j = i => slot_to_session[i] = NoSession)
        \/ reader'.pc = "untrack" /\ reader'.session \in Session
           /\ intended' = [intended EXCEPT ![reader'.session] = "off"]
           /\ IF i = j THEN slot_to_session[i] = reader'.session /\ slot_to_session'[i] = NoSession
              ELSE slot_to_session'[i] = slot_to_session[i] /\ slot_to_session[i] # reader'.session
    <2>1. CASE KeyTap(j)
      BY <2>1 DEF KeyTap, tableVars, slotVars, historyVars
    <2>2. CASE KeyHeld(j)
      <3>1. PICK s \in Session \cup {NoSession} :
              /\ Evict(j, s)
              /\ reader' = [ReaderIdle EXCEPT !.pc = IF s = NoSession THEN "cache" ELSE "untrack",
                                              !.slot = j, !.session = s]
              /\ intended' = IF s = NoSession THEN intended ELSE [intended EXCEPT ![s] = "off"]
        BY <2>2 DEF KeyHeld
      <3>2. CASE s = NoSession
        <4>1. slot_to_session' = slot_to_session
          BY <1>1, <3>1, <3>2 DEF Evict, SlotInv, SlotTypeOK
        <4>2. QED BY <3>1, <3>2, <4>1 DEF Evict
      <3>3. CASE s \in Session
        BY <1>1, <3>1, <3>3, EvictAt, NoSessionAssumption
      <3>4. QED BY <3>2, <3>3
    <2>3. QED BY <2>1, <2>2
  <1>5. Expected(i)' = Expected(i) \/ (reader'.pc = "untrack" /\ j = i)
    <2>1. CASE UNCHANGED <<slot_to_session, intended>>
      BY <2>1 DEF Expected
    <2>2. CASE j # i /\ slot_to_session'[i] = slot_to_session[i] /\ slot_to_session[i] # reader'.session
               /\ intended' = [intended EXCEPT ![reader'.session] = "off"]
      BY <1>1, <2>2 DEF Expected, HistoryOK
    <2>3. QED BY <1>4, <2>1, <2>2
  <1>6. OwnerKept(i)'
    BY <1>2, <1>3, <1>4, NoSessionAssumption DEF OwnerKept, LoopHolds
  <1>7. MsgRight(i)'
    BY <1>1, <1>2, <1>3, <1>5 DEF MsgRight, LoopHolds, padVars
  <1>8. CacheRight(i)' /\ LedRight(i)' /\ TargetKnown(i)'
    BY <1>1, <1>2, <1>4, <1>5 DEF CacheRight, LedRight, TargetKnown, padVars
  <1>9. QED BY <1>6, <1>7, <1>8

(* The reader's steps that change no table of the slot: a dispatch, an         *)
(* eviction's pop of the call, and one of the target of a session without it.  *)
LEMMA ReaderPopSlotStep ==
  ASSUME NEW i, SlotContext(i), OneThread(i)', ReaderDispatch \/ ReaderUntrack \/ ReaderForget
  PROVE  SlotRight(i)'
  <1> USE DEF SlotContext, SlotRight, ReaderIdle
  <1>1. ReaderOK /\ reader.pc \in {"dispatch", "untrack", "forget"}
    BY DEF DaemonTypeOK, ReaderDispatch, ReaderUntrack, ReaderForget
  <1>2. UNCHANGED <<slotVars, padVars, intended, loop, watch>>
    BY DEF ReaderDispatch, ReaderUntrack, ReaderForget, tableVars, slotVars, historyVars
  <1>3. \/ reader' = ReaderIdle /\ reader.pc = "dispatch" /\ UNCHANGED session_projects
        \/ reader'.pc = "forget" /\ reader.pc = "untrack" /\ reader'.slot = reader.slot
           /\ reader'.session = reader.session /\ UNCHANGED session_projects
        \/ reader'.pc = "cache" /\ reader.pc = "forget" /\ reader'.slot = reader.slot
           /\ session_projects' = session_projects \ {reader.session}
    BY <1>1 DEF ReaderDispatch, ReaderUntrack, ReaderForget, ReaderOK, tableVars
  <1>4. Expected(i)' = Expected(i) /\ slot_to_session'[i] = slot_to_session[i]
    BY <1>2 DEF Expected, slotVars
  <1>5. OwnerKept(i)' /\ MsgRight(i)'
    BY <1>2, <1>3, <1>4 DEF OwnerKept, MsgRight, padVars
  <1>6. CacheRight(i)' /\ LedRight(i)'
    BY <1>2, <1>3, <1>4 DEF CacheRight, LedRight, padVars
  <1>7. TargetKnown(i)'
    BY <1>2, <1>3, <1>4 DEF TargetKnown, OwnerKept
  <1>8. QED BY <1>5, <1>6, <1>7

(* The reader's clear of a slot that lost its session: the cache.              *)
LEMMA ReaderCacheSlotStep ==
  ASSUME NEW i, SlotContext(i), OneThread(i)', ReaderCache
  PROVE  SlotRight(i)'
  <1> USE DEF SlotContext, SlotRight
  <1>1. ReaderOK /\ PadOK /\ reader.slot \in Slots /\ reader.pc = "cache" /\ replay[i] = NotReplayed
    BY DEF DaemonTypeOK, ReaderCache, ReaderOK, ThreadsPlaced
  <1>2. Expected(i)' = Expected(i) /\ slot_to_session'[i] = slot_to_session[i]
    BY SameExpected DEF ReaderCache
  <1>3. reader'.pc = "write" /\ reader'.slot = reader.slot
        /\ UNCHANGED <<led, link, loop, watch, session_projects>>
    BY <1>1 DEF ReaderCache, ReaderOK, tableVars
  <1>4. replay'[i] = NotReplayed
        /\ IF reader.slot = i THEN pad_state'[i] = "off" ELSE pad_state'[i] = pad_state[i]
    BY <1>1 DEF ReaderCache, CacheMsg, PadOK, NotReplayed, Live
  <1>5. reader.slot = i => Expected(i) = "off" /\ ~ LoopHolds(i)
    BY <1>1 DEF OwnerKept, Expected, OneThread, ReaderHolds
  <1>6. OwnerKept(i)'
    BY <1>1, <1>2, <1>3 DEF OwnerKept
  <1>7. MsgRight(i)'
    BY <1>2, <1>3, <1>4 DEF MsgRight, NotReplayed, Live
  <1>8. CacheRight(i)'
    BY <1>1, <1>2, <1>3, <1>4, <1>5 DEF CacheRight
  <1>9. LedRight(i)' /\ TargetKnown(i)'
    BY <1>1, <1>2, <1>3, <1>4 DEF LedRight, TargetKnown
  <1>10. QED BY <1>6, <1>7, <1>8, <1>9

(* The same clear on the wire, which is lost only in a raced slot.             *)
LEMMA ReaderWriteSlotStep ==
  ASSUME NEW i, SlotContext(i), OneThread(i)', ReaderWrite,
         LosesClear(reader) /\ reader.slot = i => reader'.pc = "write"
  PROVE  SlotRight(i)'
  <1> USE DEF SlotContext, SlotRight, ReaderIdle
  <1>1. ReaderOK /\ PadOK /\ reader.slot \in Slots /\ reader.pc = "write" /\ reader.msg = "off"
    BY DEF DaemonTypeOK, ReaderWrite, ReaderOK, ThreadsPlaced
  <1>2. Expected(i)' = Expected(i) /\ slot_to_session'[i] = slot_to_session[i]
    BY SameExpected DEF ReaderWrite
  <1>3. reader' = ReaderIdle /\ UNCHANGED <<pad_state, link, replay, loop, watch, session_projects>>
    BY DEF ReaderWrite, tableVars
  <1>4. reader.slot = i => pad_state[i] = "off" /\ loop.slot # i
    BY <1>1 DEF OneThread, LoopHolds, ReaderHolds, CacheRight, OwnerKept, Expected
  <1>5. IF reader.slot = i /\ link = "up" THEN led'[i] = "off" ELSE led'[i] = led[i]
    BY <1>1 DEF ReaderWrite, WriteMsg, PadOK
  <1>6. OwnerKept(i)' /\ MsgRight(i)'
    BY <1>2, <1>3 DEF OwnerKept, MsgRight
  <1>7. CacheRight(i)' /\ TargetKnown(i)'
    BY <1>1, <1>2, <1>3 DEF CacheRight, TargetKnown
  <1>8. LedRight(i)'
    BY <1>1, <1>3, <1>4, <1>5 DEF LedRight, PadOK, LosesClear
  <1>9. QED BY <1>6, <1>7, <1>8

(* The link drops, or comes back and finds every cached slot to replay.        *)
LEMMA LinkSlotStep ==
  ASSUME NEW i, SlotContext(i), OneThread(i)', LinkDrop \/ LinkReattach
  PROVE  SlotRight(i)'
  <1> USE DEF SlotContext, SlotRight, ReaderIdle
  <1>1. PadOK /\ ReaderOK
    BY DEF DaemonTypeOK
  <1>2. Expected(i)' = Expected(i) /\ slot_to_session'[i] = slot_to_session[i]
    BY SameExpected DEF LinkDrop, LinkReattach
  <1>3. UNCHANGED <<pad_state, loop, watch, session_projects>>
    BY DEF LinkDrop, LinkReattach, tableVars
  <1>4. \/ UNCHANGED <<led, replay, reader>> /\ link = "up" /\ link' = "down"
        \/ /\ reader.pc = "idle" /\ reader.slot = NoSlot /\ replay[i] = NotReplayed
           /\ reader'.pc = "resync" /\ reader'.slot = NoSlot
           /\ IF pad_state[i] = "off" THEN replay'[i] = NotReplayed ELSE replay'[i] = Live
           /\ led'[i] = led[i] \/ led'[i] = "off"
    BY DEF LinkDrop, LinkReattach, ThreadsPlaced
  <1>5. OwnerKept(i)'
    BY <1>2, <1>3, <1>4 DEF OwnerKept
  <1>6. MsgRight(i)'
    BY <1>2, <1>3, <1>4 DEF MsgRight, NotReplayed, Live
  <1>7. CacheRight(i)' /\ TargetKnown(i)'
    BY <1>2, <1>3, <1>4 DEF CacheRight, TargetKnown
  <1>8. LedRight(i)'
    BY <1>2, <1>3, <1>4 DEF LedRight, NotReplayed, Live
  <1>9. QED BY <1>5, <1>6, <1>7, <1>8

(* The replay of the cache, one slot packed and written at a time.             *)
LEMMA ResyncSlotStep ==
  ASSUME NEW i, SlotContext(i), OneThread(i)',
         (\E j \in Slots : ResyncPack(j)) \/ ResyncWrite \/ ResyncDone
  PROVE  SlotRight(i)'
  <1> USE DEF SlotContext, SlotRight, ReaderIdle
  <1>1. PadOK /\ ReaderOK
    BY DEF DaemonTypeOK
  <1>2. Expected(i)' = Expected(i) /\ slot_to_session'[i] = slot_to_session[i]
    BY SameExpected DEF ResyncPack, ResyncWrite, ResyncDone
  <1>3. UNCHANGED <<pad_state, link, loop, watch, session_projects>>
    BY DEF ResyncPack, ResyncWrite, ResyncDone, tableVars, padVars
  <1>4. OwnerKept(i)'
    <2>1. ASSUME NEW j \in Slots, ResyncPack(j) PROVE reader'.pc = "rewrite"
      BY <1>1, <2>1 DEF ResyncPack, ReaderOK
    <2>2. ResyncWrite \/ ResyncDone => reader'.pc \in {"idle", "resync"}
      BY DEF ResyncWrite, ResyncDone
    <2>3. reader'.pc \in {"idle", "resync", "rewrite"}
      BY <2>1, <2>2
    <2>4. QED BY <1>2, <1>3, <2>3 DEF OwnerKept
  <1>5. ASSUME NEW j \in Slots, ResyncPack(j) PROVE SlotRight(i)'
    <2>1. reader.slot = NoSlot /\ reader.pc = "resync" /\ reader'.pc = "rewrite" /\ reader'.slot = j
          /\ led' = led
      BY <1>1, <1>5 DEF ResyncPack, ReaderOK, ThreadsPlaced
    <2>2. IF j = i THEN replay[i] = Live /\ replay'[i] = NotReplayed /\ reader'.msg = pad_state[i]
          ELSE replay'[i] = replay[i]
      BY <1>1, <1>5 DEF ResyncPack, ReaderOK, PadOK, MsgRight
    <2>3. MsgRight(i)'
      BY <1>2, <1>3, <2>1, <2>2 DEF MsgRight, NotReplayed, Live
    <2>4. CacheRight(i)' /\ TargetKnown(i)' /\ LedRight(i)'
      BY <1>2, <1>3, <2>1, <2>2 DEF CacheRight, TargetKnown, LedRight
    <2>5. QED BY <1>4, <2>3, <2>4
  <1>6. CASE ResyncWrite \/ ResyncDone
    <2>1. reader'.slot = NoSlot /\ reader'.pc \in {"idle", "resync"} /\ replay' = replay
          /\ reader.pc \in {"resync", "rewrite"} /\ (reader.pc = "resync" => reader.slot = NoSlot)
      BY <1>6 DEF ResyncWrite, ResyncDone, padVars, ThreadsPlaced
    <2>2. IF reader.slot = i /\ link = "up" THEN led'[i] = pad_state[i] ELSE led'[i] = led[i]
      BY <1>1, <1>6 DEF ResyncWrite, ResyncDone, WriteMsg, ThreadsPlaced, MsgRight, PadOK, padVars
    <2>3. reader.slot = i => pad_state[i] # "off"
      BY <2>1 DEF MsgRight
    <2>4. MsgRight(i)'
      BY <1>2, <1>3, <2>1 DEF MsgRight
    <2>5. CacheRight(i)' /\ TargetKnown(i)'
      BY <1>2, <1>3, <2>1 DEF CacheRight, TargetKnown
    <2>6. LedRight(i)'
      BY <1>1, <1>3, <2>1, <2>2, <2>3 DEF LedRight, PadOK
    <2>7. QED BY <1>4, <2>4, <2>5, <2>6
  <1>7. QED BY <1>5, <1>6

(* All of them: an unraced slot stays right.                                   *)
LEMMA SlotsStep ==
  ASSUME DaemonTypeOK, SlotInv, DisplayInv, [Next]_vars
  PROVE  SlotsRight'
  <1> USE DEF DisplayInv
  <1>1. CASE UNCHANGED vars
    BY <1>1 DEF SlotsRight, SlotRight, OneThread, LoopHolds, ReaderHolds, OwnerKept, MsgRight, CacheRight,
                LedRight, TargetKnown, Expected, vars, padVars, historyVars, tableVars, slotVars, Slots
  <1>2. ASSUME Next, NEW i \in Slots \ raced' PROVE SlotRight(i)'
    <2>1. /\ i \notin raced /\ OneThread(i)'
          /\ LosesClear(loop) /\ loop.slot = i => loop'.pc = "write"
          /\ LosesClear(reader) /\ reader.slot = i => reader'.pc = "write"
      BY <1>2, NotRaced, StepsRecord
    <2>2. SlotContext(i)
      BY <2>1, SlotIsNotNoSlot DEF SlotContext, SlotsRight, SlotInv, SlotTypeOK
    <2>3. ASSUME NEW s \in Session, HookSessionStart(s) PROVE SlotRight(i)'
      BY <2>1, <2>2, <2>3, HookSlotStep DEF HookSessionStart, LoopIdle
    <2>4. ASSUME NEW s \in Session, HookSessionEnd(s) PROVE SlotRight(i)'
      BY <2>1, <2>2, <2>4, HookSlotStep DEF HookSessionEnd, LoopIdle
    <2>5. ASSUME NEW s \in Session, NEW event \in Events, HookOther(s, event) PROVE SlotRight(i)'
      <3>1. PICK k \in Slots \cup {NoSlot} :
              /\ Allocate(s, k)
              /\ loop' = IF k = NoSlot THEN loop
                         ELSE [LoopIdle EXCEPT !.pc = IF Mapped(s) THEN "track" ELSE "record",
                                               !.event = event, !.session = s, !.slot = k]
        BY <2>5 DEF HookOther
      <3>2. CASE k = NoSlot
        <4>1. UNCHANGED slotVars
          BY <3>1, <3>2, SlotIsNotNoSlot DEF Allocate, AllocateExisting, AllocateFirstFit, AllocateFull, FreeSlots
        <4>2. QED
          BY <2>2, <2>5, <3>1, <3>2, <4>1
          DEF HookOther, SlotContext, SlotRight, OneThread, LoopHolds, ReaderHolds, OwnerKept,
              MsgRight, CacheRight, LedRight, TargetKnown, Expected, padVars, historyVars, slotVars
      <3>3. CASE k \in Slots
        BY <2>1, <2>2, <2>5, <3>1, <3>3, SlotIsNotNoSlot, HookSlotStep DEF HookOther, LoopIdle
      <3>4. QED BY <3>2, <3>3
    <2>6. CASE LoopRecord \/ LoopTrack
      BY <2>1, <2>2, <2>6, HandlerSlotStep
    <2>7. CASE LoopCleanup
      BY <2>1, <2>2, <2>7, CleanupSlotStep
    <2>8. CASE LoopCache
      BY <2>1, <2>2, <2>8, LoopCacheSlotStep
    <2>9. CASE LoopWrite
      BY <2>1, <2>2, <2>9, LoopWriteSlotStep
    <2>10. CASE WatchWake
      BY <2>1, <2>2, <2>10, WakeSlotStep
    <2>11. ASSUME NEW call \in watch, WatchEscalate(call) PROVE SlotRight(i)'
      BY <2>1, <2>2, <2>11, EscalateSlotStep
    <2>12. ASSUME NEW j \in Keys, KeyTap(j) \/ KeyHeld(j) PROVE SlotRight(i)'
      BY <2>1, <2>2, <2>12, KeySlotStep
    <2>13. CASE ReaderDispatch \/ ReaderUntrack \/ ReaderForget
      BY <2>1, <2>2, <2>13, ReaderPopSlotStep
    <2>14. CASE ReaderCache
      BY <2>1, <2>2, <2>14, ReaderCacheSlotStep
    <2>15. CASE ReaderWrite
      BY <2>1, <2>2, <2>15, ReaderWriteSlotStep
    <2>16. CASE LinkDrop \/ LinkReattach
      BY <2>1, <2>2, <2>16, LinkSlotStep
    <2>17. CASE (\E j \in Slots : ResyncPack(j)) \/ ResyncWrite \/ ResyncDone
      BY <2>1, <2>2, <2>17, ResyncSlotStep
    <2>18. CASE Tick
      BY <2>1, <2>2, <2>18
      DEF Tick, SlotContext, SlotRight, OwnerKept, MsgRight, CacheRight, LedRight, TargetKnown,
          Expected, padVars, historyVars, slotVars
    <2>19. CASE LoopWriteRaises
      BY <2>1, <2>2, <2>19, LoopRaiseSlotStep
    <2>20. QED
      BY <1>2, <2>3, <2>4, <2>5, <2>6, <2>7, <2>8, <2>9, <2>10, <2>11, <2>12, <2>13, <2>14, <2>15,
         <2>16, <2>17, <2>18, <2>19
      DEF Next, LoopStep, ReaderStep
  <1>3. QED BY <1>1, <1>2 DEF SlotsRight, Slots

--------------------------------------------------------------------------------
(* A tracked call stays with the owner of its slot.                            *)
LEMMA CallsStep ==
  ASSUME DaemonTypeOK, SlotInv, DisplayInv, [Next]_vars
  PROVE  CallsOwned'
  <1> USE DEF DisplayInv
  <1>1. LoopOK /\ ReaderOK /\ TablesOK /\ SlotTypeOK /\ TablesAgree
    BY DEF DaemonTypeOK, SlotInv
  <1>2. raced \subseteq raced'
    BY StepsRecord DEF Interference, vars
  <1>3. ASSUME NEW s \in Session, Tracked(s)', pending_calls'[s].slot \notin raced',
               UNCHANGED pending_calls[s] \/ (Tracked(s) /\ pending_calls'[s].slot = pending_calls[s].slot)
        PROVE  /\ Tracked(s) /\ pending_calls'[s].slot = pending_calls[s].slot
               /\ pending_calls[s].slot \in Slots \ raced
               /\ \/ slot_to_session[pending_calls[s].slot] = s
                  \/ loop.pc = "cleanup" /\ loop.session = s
                  \/ reader.pc = "untrack" /\ reader.session = s /\ reader.slot = pending_calls[s].slot
    BY <1>1, <1>2, <1>3 DEF CallsOwned, Tracked, TablesOK, Call
  <1>4. CASE /\ UNCHANGED <<slot_to_session, pending_calls>>
             /\ loop.pc # "cleanup" \/ UNCHANGED <<loop.pc, loop.session>>
             /\ reader.pc # "untrack" \/ UNCHANGED <<reader.pc, reader.session, reader.slot>>
    BY <1>3, <1>4 DEF CallsOwned
  <1>5. ASSUME NEW s \in Session, HookSessionStart(s) \/ (\E event \in Events : HookOther(s, event))
        PROVE  CallsOwned'
    <2>1. PICK k \in Slots \cup {NoSlot} : Allocate(s, k)
      BY <1>5 DEF HookSessionStart, HookOther
    <2>2. \A i \in Slots : slot_to_session[i] # NoSession => slot_to_session'[i] = slot_to_session[i]
      BY <2>1, AllocateAt
    <2>3. UNCHANGED <<pending_calls, reader>> /\ loop.pc = "idle"
      BY <1>5 DEF HookSessionStart, HookOther
    <2>4. QED BY <1>3, <2>2, <2>3, NoSessionAssumption DEF CallsOwned
  <1>6. ASSUME NEW s \in Session, HookSessionEnd(s)
        PROVE  CallsOwned'
    <2>1. PICK k \in Slots \cup {NoSlot} : Free(s, k)
      BY <1>6 DEF HookSessionEnd
    <2>2. \A i \in Slots : slot_to_session[i] # s => slot_to_session'[i] = slot_to_session[i]
      BY <2>1, FreeAt, NoSessionAssumption DEF TablesAgree, Free, SlotInv, SlotTypeOK
    <2>3. UNCHANGED <<pending_calls, reader>> /\ loop.pc = "idle"
          /\ loop'.pc = "cleanup" /\ loop'.session = s
      BY <1>6 DEF HookSessionEnd, LoopIdle
    <2>4. QED BY <1>3, <2>2, <2>3 DEF CallsOwned
  <1>7. CASE LoopTrack
    <2> DEFINE s == loop.session
    <2>1. s \in Session /\ loop.slot \in Slots /\ UNCHANGED <<slot_to_session, reader>>
          /\ loop.pc = "track"
          /\ pending_calls' = [pending_calls EXCEPT ![s] = TrackedCall(loop.event, s, loop.slot)]
      BY <1>1, <1>7 DEF LoopTrack, LoopOK, slotVars
    <2>2. ASSUME NEW t \in Session, Tracked(t)', pending_calls'[t].slot \notin raced',
                 pending_calls'[t] # pending_calls[t]
          PROVE  slot_to_session[pending_calls'[t].slot] = t
      <3>1. t = s /\ pending_calls'[t].slot = loop.slot
        BY <1>1, <2>1, <2>2 DEF TrackedCall, Tracked, TablesOK
      <3>2. loop.slot \in Slots \ raced
        BY <1>2, <2>1, <2>2, <3>1
      <3>3. QED BY <2>1, <3>1, <3>2 DEF SlotsRight, SlotRight, OwnerKept
    <2>3. QED BY <1>3, <2>1, <2>2 DEF CallsOwned
  <1>8. CASE LoopCleanup
    <2>1. loop.session \in Session /\ UNCHANGED <<slot_to_session, reader>>
          /\ pending_calls' = [pending_calls EXCEPT ![loop.session] = NoCall]
      BY <1>1, <1>8 DEF LoopCleanup, LoopOK, slotVars
    <2>2. QED BY <1>1, <1>3, <2>1 DEF CallsOwned, Tracked, TablesOK
  <1>9. ASSUME NEW call \in watch, WatchEscalate(call)
        PROVE  CallsOwned'
    <2>1. UNCHANGED <<slot_to_session, reader>> /\ loop.pc = "watch"
      BY <1>9 DEF WatchEscalate, slotVars
    <2>2. \A s \in Session : pending_calls'[s] = pending_calls[s]
                             \/ (Tracked(s) /\ pending_calls'[s].slot = pending_calls[s].slot)
      BY <1>1, <1>9 DEF WatchEscalate, TablesOK, Call
    <2>3. QED BY <1>3, <2>1, <2>2 DEF CallsOwned
  <1>10. CASE Tick
    <2>1. UNCHANGED <<slot_to_session, loop, reader>>
      BY <1>10 DEF Tick, slotVars
    <2>2. \A s \in Session : pending_calls'[s] = pending_calls[s]
                             \/ (Tracked(s) /\ pending_calls'[s].slot = pending_calls[s].slot)
      BY <1>1, <1>10 DEF Tick, Aging, TablesOK, Call
    <2>3. QED BY <1>3, <2>1, <2>2 DEF CallsOwned
  <1>11. ASSUME NEW j \in Keys, KeyHeld(j)
         PROVE  CallsOwned'
    <2>1. PICK s \in Session \cup {NoSession} :
            /\ Evict(j, s)
            /\ reader' = [ReaderIdle EXCEPT !.pc = IF s = NoSession THEN "cache" ELSE "untrack",
                                            !.slot = j, !.session = s]
      BY <1>11 DEF KeyHeld
    <2>2. \A i \in Slots : i # j => slot_to_session'[i] = slot_to_session[i]
      BY <2>1, EvictAt, KeysAssumption
    <2>3. slot_to_session[j] = s
      BY <2>1 DEF Evict
    <2>4. UNCHANGED <<pending_calls, loop>> /\ reader.pc = "idle"
      BY <1>11 DEF KeyHeld
    <2>5. s \in Session => reader'.pc = "untrack" /\ reader'.session = s /\ reader'.slot = j
      BY <2>1, NoSessionAssumption DEF ReaderIdle
    <2>6. QED BY <1>3, <2>2, <2>3, <2>4, <2>5, NoSessionAssumption DEF CallsOwned
  <1>12. CASE ReaderUntrack
    <2>1. reader.session \in Session /\ UNCHANGED <<slot_to_session, loop>>
          /\ pending_calls' = [pending_calls EXCEPT ![reader.session] = NoCall]
      BY <1>1, <1>12 DEF ReaderUntrack, ReaderOK, slotVars
    <2>2. QED BY <1>1, <1>3, <2>1 DEF CallsOwned, Tracked, TablesOK
  <1>13. CASE LoopRecord \/ LoopCache \/ LoopWrite \/ LoopWriteRaises \/ WatchWake
    BY <1>4, <1>13 DEF LoopRecord, LoopCache, LoopWrite, LoopWriteRaises, LoopIdle, WatchWake,
                       tableVars, slotVars
  <1>14. CASE KeyTouch \/ LinkStep
    BY <1>4, <1>14 DEF KeyTouch, KeyTap, ReaderDispatch, ReaderForget, ReaderCache, ReaderWrite,
                       LinkStep, LinkDrop, LinkReattach, ResyncPack, ResyncWrite, ResyncDone,
                       tableVars, slotVars
  <1>15. CASE UNCHANGED vars
    BY <1>4, <1>15 DEF vars, tableVars, slotVars
  <1>16. QED
    BY <1>5, <1>6, <1>7, <1>8, <1>9, <1>10, <1>11, <1>12, <1>13, <1>14, <1>15
    DEF Next, LoopStep, ReaderStep, KeyTouch, LinkStep

--------------------------------------------------------------------------------
(* The invariant of the display holds in every state of every interleaving.    *)
THEOREM DisplayInvariant == Spec => []DisplayInv
  <1>1. DaemonTypeOK /\ SlotInv /\ DisplayInv /\ [Next]_vars => DisplayInv'
    BY ThreadsStep, SilentStep, SlotsStep, CallsStep DEF DisplayInv
  <1>2. QED BY <1>1, DisplayInit, DaemonTypeCorrect, DaemonSlotInvariant, PTL DEF Spec

(* Between handlers the pad mirrors the sessions, however the two threads and  *)
(* the link interleaved, on every slot they did not fight for: DisplayMirrors. *)
THEOREM DaemonDisplayMirrors == Spec => []DisplayMirrors
  <1>1. DaemonTypeOK /\ DisplayInv => DisplayMirrors
    BY SlotIsNotNoSlot DEF DisplayInv, DaemonTypeOK, ThreadsPlaced, SlotsRight, SlotRight, CacheRight,
           LedRight, DisplayMirrors, Quiet, NotReplayed, Live
  <1>2. QED BY <1>1, DisplayInvariant, DaemonTypeCorrect, PTL

(* A call the watcher may escalate belongs to the session that owns the slot   *)
(* it would paint: TrackedCallOwnsSlot.                                        *)
THEOREM DaemonTrackedCallOwnsSlot == Spec => []TrackedCallOwnsSlot
  <1>1. DisplayInv => TrackedCallOwnsSlot
    BY DEF DisplayInv, CallsOwned, TrackedCallOwnsSlot, Quiet
  <1>2. QED BY <1>1, DisplayInvariant, PTL

(* The key of a mapped session finds a target to bring to the front:           *)
(* MappedSessionHasTarget.                                                     *)
THEOREM DaemonMappedSessionHasTarget == Spec => []MappedSessionHasTarget
  <1>1. DisplayInv => MappedSessionHasTarget
    BY DEF DisplayInv, SlotsRight, SlotRight, TargetKnown, MappedSessionHasTarget, Quiet
  <1>2. QED BY <1>1, DisplayInvariant, PTL

--------------------------------------------------------------------------------
(* No key, no failing link: the loop is alone and nothing is raced.          *)
LoopAlone == link = "up" /\ reader = ReaderIdle /\ raced = {}

(* It starts that way, with the reader idle.                                 *)
LEMMA AloneInit == Init => LoopAlone
  BY DEF Init, LoopAlone

(* It stays that way: without keys the reader only wakes for a failing link, *)
(* and one thread alone races nobody.                                        *)
LEMMA AloneStep ==
  ASSUME Keys = {}, ~ LinkFaults, LoopAlone, ThreadsPlaced', [Next]_vars
  PROVE  LoopAlone'
  <1> USE DEF LoopAlone
  <1>1. CASE UNCHANGED vars
    BY <1>1 DEF vars, padVars
  <1>2. CASE Next
    <2>1. link' = link /\ reader' = reader
      <3>1. CASE LoopStep \/ Tick
        BY <3>1 DEF LoopStep, Tick, HookSessionStart, HookSessionEnd, HookOther, LoopRecord, LoopTrack,
           LoopCleanup, LoopCache, LoopWrite, LoopWriteRaises, WatchWake, WatchEscalate, padVars
      <3>2. ~ LinkDrop
        BY DEF LinkDrop
      <3>3. ~ ReaderStep
        BY DEF ReaderStep, ReaderIdle, ReaderDispatch, ReaderUntrack, ReaderForget, ReaderCache, ReaderWrite,
           LinkReattach, ResyncPack, ResyncWrite, ResyncDone
      <3>4. QED BY <1>2, <3>1, <3>2, <3>3 DEF Next
    <2>2. \A i \in Slots : ~ ReaderHolds(i)'
      BY <2>1, SlotIsNotNoSlot DEF ReaderHolds, ReaderIdle, ThreadsPlaced
    <2>3. ~ LosesClear(loop) /\ ~ LosesClear(reader)
      BY DEF LosesClear
    <2>4. raced' = {}
      BY <1>2, <2>2, <2>3, StepsRecord DEF Interference
    <2>5. QED BY <2>1, <2>4
  <1>3. QED BY <1>1, <1>2

(* Nothing is shown before the first event: an empty board.                  *)
LEMMA BoardStart == Init => Board!BoardInit
  BY DEF Init, SlotInit, Board!BoardInit, Board!Init, Board!DirectorySlots, Slots

(* One step of the board, to be boxed below.                                 *)
BoardStep == Board!BoardNext \/ UNCHANGED <<slot_to_session, intended, led>>

(* The slot manager's steps are the board's: an owner comes or goes.         *)
LEMMA OwnershipOnBoard ==
  ASSUME SlotInv, [SlotNext]_slotVars, UNCHANGED <<intended, led>>
  PROVE  BoardStep
  <1>1. [Directory!Next]_slot_to_session
    BY SlotStepRefines
  <1>2. Directory!Next => Board!Next
    BY DEF Directory!Next, Board!Next, Directory!Claim, Board!Claim, Directory!Release, Board!Release,
           Directory!Owns, Board!Owns, Directory!DirectorySlots, Board!DirectorySlots
  <1>3. QED BY <1>1, <1>2 DEF BoardStep, Board!BoardNext, Board!Own

(* A handler that asks for a state speaks for the owner of its slot, or for  *)
(* nobody.                                                                   *)
LEMMA IntendOnBoard ==
  ASSUME NEW s \in Session, NEW k \in Slots, NEW state \in PadStates, Intend(s, k, state),
         UNCHANGED <<slot_to_session, led>>
  PROVE  BoardStep
  <1>1. CASE slot_to_session[k] = s
    <2>1. Board!Owns(s)
      BY <1>1 DEF Board!Owns, Board!DirectorySlots, Slots
    <2>2. Board!Say(s, state)
      BY <1>1, <2>1 DEF Intend, Board!Say
    <2>3. QED BY <2>2 DEF BoardStep, Board!BoardNext
  <1>2. CASE slot_to_session[k] # s
    BY <1>2 DEF Intend, BoardStep
  <1>3. QED BY <1>1, <1>2

(* Every step of the loop is a step of the board or changes nothing on it.   *)
(* The write is the one that needs the invariant: what it sends was decided  *)
(* two steps ago and must still be what the owner said last.                 *)
LEMMA StepOnBoard ==
  ASSUME DaemonTypeOK, SlotInv, DisplayInv, LoopAlone, Keys = {}, ~ LinkFaults, [Next]_vars
  PROVE  BoardStep
  <1>1. LoopOK /\ PadOK /\ HistoryOK
    BY DEF DaemonTypeOK
  <1>2. CASE UNCHANGED vars
    BY <1>2 DEF BoardStep, vars, tableVars, slotVars, historyVars, padVars
  <1>3. ASSUME NEW s \in Session,
               HookSessionStart(s) \/ HookSessionEnd(s) \/ \E event \in Events : HookOther(s, event)
        PROVE  BoardStep
    <2>1. UNCHANGED <<intended, led>>
      BY <1>3 DEF HookSessionStart, HookSessionEnd, HookOther, historyVars, padVars
    <2>2. [SlotNext]_slotVars
      BY <1>3 DEF HookSessionStart, HookSessionEnd, HookOther, SlotNext
    <2>3. QED BY <2>1, <2>2, OwnershipOnBoard
  <1>4. CASE LoopRecord
    <2>1. loop.session \in Session /\ UNCHANGED <<slot_to_session, led>>
      BY <1>1, <1>4 DEF LoopRecord, LoopOK, slotVars, padVars
    <2>2. UNCHANGED intended \/ (loop.slot \in Slots /\ Intend(loop.session, loop.slot, "idle"))
      BY <1>1, <1>4 DEF LoopRecord, LoopOK
    <2>3. QED BY <2>1, <2>2, IntendOnBoard DEF BoardStep, PadStates
  <1>5. CASE LoopTrack
    <2> DEFINE state == hook_to_state(loop.event)
    <2>1. loop.session \in Session /\ loop.slot \in Slots /\ UNCHANGED <<slot_to_session, led>>
      BY <1>1, <1>5 DEF LoopTrack, LoopOK, slotVars, padVars
    <2>2. UNCHANGED intended \/ (state # NoState /\ Intend(loop.session, loop.slot, state))
      BY <1>5 DEF LoopTrack
    <2>3. state \in PadStates \cup {NoState}
      BY EventStates
    <2> HIDE DEF state
    <2>4. QED BY <2>1, <2>2, <2>3, IntendOnBoard DEF BoardStep
  <1>6. CASE LoopCleanup
    <2>1. loop.session \in Session /\ UNCHANGED <<slot_to_session, led>>
          /\ intended' = [intended EXCEPT ![loop.session] = "off"]
      BY <1>1, <1>6 DEF LoopCleanup, LoopOK, slotVars, padVars
    <2>2. Board!Say(loop.session, "off")
      BY <2>1 DEF Board!Say
    <2>3. "off" \in PadStates
      BY DEF PadStates
    <2>4. QED BY <2>1, <2>2, <2>3 DEF BoardStep, Board!BoardNext
  <1>7. CASE LoopWrite
    <2>1. loop.slot \in Slots \ raced /\ loop.pc = "write" /\ UNCHANGED <<slot_to_session, intended>>
          /\ led' = [led EXCEPT ![loop.slot] = loop.msg]
      BY <1>1, <1>7 DEF LoopWrite, LoopOK, LoopAlone, WriteMsg, tableVars, slotVars, historyVars
    <2>2. loop.msg = Expected(loop.slot)
      BY <2>1 DEF DisplayInv, SlotsRight, SlotRight, MsgRight
    <2>3. Board!CatchUp(loop.slot)
      BY <2>1, <2>2 DEF Board!CatchUp, Board!Expects, Expected
    <2>4. QED BY <2>1, <2>3 DEF BoardStep, Board!BoardNext, Board!DirectorySlots, Slots
  <1>8. CASE LoopCache \/ WatchWake \/ Tick
    BY <1>8 DEF LoopCache, WatchWake, Tick, BoardStep, tableVars, slotVars, historyVars, padVars
  <1>9. ASSUME NEW call \in watch, WatchEscalate(call) PROVE BoardStep
    <2>1. call.session \in Session /\ call.slot \in Slots
      BY <1>1 DEF LoopOK
    <2>2. UNCHANGED <<slot_to_session, led>> /\ Intend(call.session, call.slot, "tool_stalled")
      BY <1>9 DEF WatchEscalate, slotVars, padVars
    <2>3. "tool_stalled" \in PadStates
      BY DEF PadStates
    <2>4. QED BY <2>1, <2>2, <2>3, IntendOnBoard
  <1>10. ~ LinkDrop /\ ~ ReaderStep
    BY DEF LoopAlone, LinkDrop, ReaderStep, ReaderIdle, ReaderDispatch, ReaderUntrack, ReaderForget,
           ReaderCache, ReaderWrite, LinkReattach, ResyncPack, ResyncWrite, ResyncDone
  <1>11. ~ LoopWriteRaises
    BY DEF LoopAlone, LoopWriteRaises
  <1>12. QED
    BY <1>2, <1>3, <1>4, <1>5, <1>6, <1>7, <1>8, <1>9, <1>10, <1>11 DEF Next, LoopStep

(* While nobody presses a key and the link is up the daemon implements the   *)
(* board, step by step: the pad never shows an older state or another        *)
(* session's.  This is ImplementsBoard without its fairness, which is a      *)
(* matter of liveness.                                                       *)
THEOREM DaemonShowsBoard ==
  ASSUME Keys = {}, ~ LinkFaults
  PROVE  Spec => Board!BoardInit /\ [][Board!BoardNext]_(Board!boardVars)
  <1>1. Init => LoopAlone /\ Board!BoardInit
    BY AloneInit, BoardStart
  <1>2. LoopAlone /\ DisplayInv' /\ [Next]_vars => LoopAlone'
    BY AloneStep DEF DisplayInv
  <1>3. DaemonTypeOK /\ SlotInv /\ DisplayInv /\ LoopAlone /\ [Next]_vars
        => [Board!BoardNext]_(Board!boardVars)
    BY StepOnBoard DEF BoardStep, Board!boardVars
  <1>4. QED
    BY <1>1, <1>2, <1>3, DisplayInvariant, DaemonTypeCorrect, DaemonSlotInvariant, PTL DEF Spec

--------------------------------------------------------------------------------
(* Nothing holds the loop up for good.  While it is at a handler or at a round *)
(* of the watcher, no event and no wake-up comes in between, and every step of *)
(* it leaves less to do.                                                       *)

(* A round has one call of a session in it, overdue until its turn comes or    *)
(* the session's key is held, and ends with its last call.                     *)
RoundInv ==
    /\ \A c, d \in watch : c.session = d.session => c = d
    /\ \A c \in watch : Tracked(c.session) =>
          Overdue(c.session) /\ pending_calls[c.session].slot = c.slot
    /\ loop.pc = "watch" => watch # {}

(* Each call of the round is three steps: it is marked, cached and written.    *)
StepsAt ==
    [idle |-> 0, watch |-> 0, write |-> 1, cache |-> 2, cleanup |-> 3, track |-> 3, record |-> 4]

LoopLeft == 3 * Cardinality(watch) + StepsAt[loop.pc]

LoopNearlyIdle == LoopLeft \in Nat /\ (LoopLeft = 0 <=> loop.pc = "idle")

LoopGetsNearer ==
    [][loop.pc # "idle" =>
          IF LoopStep THEN LoopLeft' < LoopLeft ELSE UNCHANGED <<loop, watch>>]_vars

(* A call stays overdue until it ends, another call takes its place, or the    *)
(* watcher is about to show it, on the key of its session unless the two       *)
(* threads fought for that one.                                                *)
ShowsStalled(s) ==
    LET i == pending_calls[s].slot IN
    /\ loop'.pc = "cache" /\ loop'.slot = i /\ loop'.msg = "tool_stalled"
    /\ i \notin raced => slot_to_session[i] = s

OverdueIsEscalated ==
    [][\A s \in Session : Overdue(s) /\ ~ Overdue(s)' =>
          ~ Tracked(s)' \/ pending_calls'[s].age < StallThreshold \/ ShowsStalled(s)]_vars

(* What the loop has cached it writes while there is a link to write to,       *)
(* whatever the other thread caches.                                           *)
SendsWhatItCached ==
    [][loop.pc \in {"cache", "write"} =>
          \/ loop' = loop
          \/ loop.pc = "cache" /\ loop' = [loop EXCEPT !.pc = "write"]
          \/ loop.pc = "write" /\ (link = "up" => led'[loop.slot] = loop.msg)]_vars

(* Only the loop's own steps change where it is and what the round has left.   *)
LEMMA OthersLeaveLoop ==
    ASSUME [Next]_vars, ~ LoopStep
    PROVE  UNCHANGED <<loop, watch>>
  BY DEF Next, ReaderStep, vars, Tick, LinkDrop, KeyTap, KeyHeld, ReaderDispatch, ReaderUntrack,
         ReaderForget, ReaderCache, ReaderWrite, LinkReattach, ResyncPack, ResyncWrite, ResyncDone

(* No call becomes tracked but by the loop, and the reader only drops calls.   *)
LEMMA OthersTrackNothing ==
    ASSUME DaemonTypeOK, [Next]_vars, ~ LoopStep, NEW s \in Session
    PROVE  \/ ~ Tracked(s)'
           \/ /\ Tracked(s) /\ (Overdue(s) => Overdue(s)')
              /\ pending_calls'[s].slot = pending_calls[s].slot
  <1>1. pending_calls \in [Session -> Call \cup {NoCall}]
    BY DEF DaemonTypeOK, TablesOK
  <1>2. CASE UNCHANGED pending_calls
    BY <1>2 DEF Tracked, Overdue
  <1>3. CASE ReaderUntrack
    BY <1>1, <1>3 DEF ReaderUntrack, Tracked, Overdue
  <1>4. CASE Tick
    <2>1. CASE ~ Aging(s)
      BY <1>4, <2>1 DEF Tick, Tracked, Overdue
    <2>2. CASE Aging(s)
      <3>1. pending_calls'[s].slot = pending_calls[s].slot /\ Tracked(s)
        BY <1>1, <1>4, <2>2 DEF Tick, Aging, Call
      <3>2. ~ Overdue(s)
        BY <1>1, <2>2, StallThresholdAssumption DEF Overdue, Aging, Call, Tracked
      <3> QED
        BY <3>1, <3>2
    <2> QED
      BY <2>1, <2>2
  <1> QED
    BY <1>2, <1>3, <1>4
    DEF Next, ReaderStep, vars, tableVars, LinkDrop, KeyTap, KeyHeld, ReaderDispatch,
        ReaderForget, ReaderCache, ReaderWrite, LinkReattach, ResyncPack, ResyncWrite, ResyncDone

(* Where a handler goes from where it is.                                      *)
LEMMA HandlerMoves ==
    ASSUME DaemonTypeOK
    PROVE  /\ LoopRecord => loop.pc = "record" /\ loop'.pc \in {"track", "idle", "cache"}
           /\ LoopTrack => loop.pc = "track" /\ loop'.pc \in {"idle", "cache"}
           /\ LoopCleanup => loop.pc = "cleanup" /\ loop'.pc \in {"idle", "cache"}
           /\ LoopCache => loop.pc = "cache" /\ loop'.pc = "write"
           /\ LoopWrite => loop.pc = "write" /\ loop'.pc \in {"idle", "watch"}
           /\ LoopWriteRaises => loop.pc = "write" /\ loop'.pc = "idle"
  <1> LoopOK
    BY DEF DaemonTypeOK
  <1> USE IdleRecords DEF LoopOK
  <1>1. LoopRecord => loop.pc = "record" /\ loop'.pc \in {"track", "idle", "cache"}
    BY DEF LoopRecord
  <1>2. LoopTrack => loop.pc = "track" /\ loop'.pc \in {"idle", "cache"}
    BY DEF LoopTrack
  <1>3. LoopCleanup => loop.pc = "cleanup" /\ loop'.pc \in {"idle", "cache"}
    BY DEF LoopCleanup
  <1>4. LoopCache => loop.pc = "cache" /\ loop'.pc = "write"
    BY DEF LoopCache
  <1>5. LoopWrite => loop.pc = "write" /\ loop'.pc \in {"idle", "watch"}
    BY DEF LoopWrite
  <1>6. LoopWriteRaises => loop.pc = "write" /\ loop'.pc = "idle"
    BY DEF LoopWriteRaises
  <1> QED
    BY <1>1, <1>2, <1>3, <1>4, <1>5, <1>6

(* What the watcher is at, step by step.                                       *)
LEMMA RoundStep ==
    ASSUME DaemonTypeOK, QuestionUntracked, RoundInv, [Next]_vars
    PROVE  RoundInv'
  <1>1. /\ pending_calls \in [Session -> Call \cup {NoCall}]
        /\ watch \subseteq [session : Session, slot : Slots]
    BY DEF DaemonTypeOK, TablesOK, LoopOK
  <1>2. CASE ~ LoopStep
    <2>1. UNCHANGED <<loop, watch>>
      BY <1>2, OthersLeaveLoop
    <2>2. ASSUME NEW c \in watch
          PROVE  Tracked(c.session)' =>
                    Overdue(c.session)' /\ pending_calls'[c.session].slot = c.slot
      <3>1. c.session \in Session
        BY <1>1
      <3> QED
        BY <1>2, <3>1, OthersTrackNothing DEF RoundInv
    <2>3. /\ \A c, d \in watch' : c.session = d.session => c = d
          /\ loop'.pc = "watch" => watch' # {}
      BY <2>1 DEF RoundInv
    <2>4. \A c \in watch' : Tracked(c.session)' =>
              Overdue(c.session)' /\ pending_calls'[c.session].slot = c.slot
      BY <2>1, <2>2
    <2> QED
      BY <2>3, <2>4 DEF RoundInv, Tracked, Overdue
  <1>3. CASE WatchWake
    <2>1. watch' = {[session |-> s, slot |-> pending_calls[s].slot] : s \in {t \in Session : Overdue(t)}}
          /\ UNCHANGED pending_calls
      BY <1>3 DEF WatchWake, tableVars
    <2>2. watch' # {}
      BY <1>3, <2>1 DEF WatchWake
    <2>3. \A c \in watch' : /\ c.session \in Session /\ Overdue(c.session)
                            /\ c = [session |-> c.session, slot |-> pending_calls[c.session].slot]
      BY <2>1
    <2>4. \A c \in watch' : pending_calls'[c.session].slot = c.slot
      BY <2>1, <2>3
    <2>5. \A c, d \in watch' : c.session = d.session => c = d
      BY <2>3
    <2> QED
      BY <2>1, <2>2, <2>3, <2>4, <2>5 DEF RoundInv, Overdue, Tracked
  <1>4. ASSUME NEW call \in watch, WatchEscalate(call) PROVE RoundInv'
    <2>1. watch' = watch \ {call} /\ loop'.pc = "cache"
      BY <1>4 DEF WatchEscalate, LoopIdle
    <2>2. call.session \in Session
      BY <1>1
    <2>3. \A c \in watch' : c.session \in Session /\ c.session # call.session
      BY <1>1, <2>1 DEF RoundInv
    <2>4. \A c \in watch' : pending_calls'[c.session] = pending_calls[c.session]
      BY <1>1, <1>4, <2>2, <2>3 DEF WatchEscalate
    <2> QED
      BY <2>1, <2>4 DEF RoundInv, Overdue, Tracked
  <1>5. CASE LoopWrite
    <2>1. UNCHANGED <<pending_calls, watch>> /\ (loop'.pc = "watch" => watch # {})
      BY <1>5 DEF LoopWrite, tableVars, LoopIdle
    <2> QED
      BY <2>1 DEF RoundInv, Overdue, Tracked
  <1>6. CASE LoopCache
    <2>1. UNCHANGED <<pending_calls, watch>> /\ loop'.pc # "watch"
      BY <1>6 DEF LoopCache, tableVars, DaemonTypeOK, LoopOK
    <2> QED
      BY <2>1 DEF RoundInv, Overdue, Tracked
  <1>7. CASE \/ \E s \in Session : HookSessionStart(s) \/ HookSessionEnd(s)
             \/ \E s \in Session, event \in Events : HookOther(s, event)
             \/ LoopRecord \/ LoopTrack \/ LoopCleanup
    <2>1. watch = {} /\ watch' = {}
      BY <1>7
      DEF HookSessionStart, HookSessionEnd, HookOther, LoopRecord, LoopTrack, LoopCleanup,
          QuestionUntracked
    <2>2. loop'.pc # "watch"
      <3>1. CASE \/ \E s \in Session : HookSessionStart(s) \/ HookSessionEnd(s)
                 \/ \E s \in Session, event \in Events : HookOther(s, event)
        BY <3>1 DEF HookSessionStart, HookSessionEnd, HookOther, LoopIdle
      <3>2. CASE LoopRecord \/ LoopTrack \/ LoopCleanup
        BY <3>2, HandlerMoves
      <3> QED
        BY <1>7, <3>1, <3>2
    <2> QED
      BY <2>1, <2>2 DEF RoundInv
  <1>8. CASE LoopWriteRaises
    BY <1>8 DEF LoopWriteRaises, LoopIdle, RoundInv
  <1> QED
    BY <1>2, <1>3, <1>4, <1>5, <1>6, <1>7, <1>8 DEF LoopStep

(* The round is as finite as the sessions are.                                 *)
LEMMA RoundCounted ==
    ASSUME IsFiniteSet(Session), DaemonTypeOK, RoundInv
    PROVE  /\ IsFiniteSet(watch) /\ Cardinality(watch) \in Nat
           /\ Cardinality(watch) = 0 <=> watch = {}
  <1> DEFINE f == [c \in watch |-> c.session]
  <1>1. watch \subseteq [session : Session, slot : Slots]
    BY DEF DaemonTypeOK, LoopOK
  <1>2. f \in Injection(watch, Session)
    BY <1>1 DEF RoundInv, Injection, IsInjective
  <1> HIDE DEF f
  <1>3. IsFiniteSet(watch)
    BY <1>2, FS_Injection
  <1> QED
    BY <1>3, FS_CardinalityType, FS_EmptySet

(* A busy loop's own step leaves it less to do.                                *)
LEMMA LoopStepLess ==
    ASSUME IsFiniteSet(Session), DaemonTypeOK, QuestionUntracked, RoundInv,
           loop.pc # "idle", LoopStep
    PROVE  LoopLeft' < LoopLeft
  <1>1. PICK n \in Nat : n = Cardinality(watch)
    BY RoundCounted
  <1>2. ASSUME NEW call \in watch, WatchEscalate(call) PROVE LoopLeft' < LoopLeft
    <2>1. loop.pc = "watch" /\ loop'.pc = "cache" /\ watch' = watch \ {call}
      BY <1>2 DEF WatchEscalate, LoopIdle
    <2>2. Cardinality(watch') = n - 1
      BY <1>1, <2>1, RoundCounted, FS_RemoveElement
    <2>3. LoopLeft = 3 * n + 0 /\ LoopLeft' = 3 * (n - 1) + 2
      BY <1>1, <2>1, <2>2 DEF LoopLeft, StepsAt
    <2> QED
      BY <2>3
  <1>3. CASE LoopRecord \/ LoopTrack \/ LoopCleanup \/ LoopCache \/ LoopWrite
    <2>1. \/ loop.pc = "record" /\ loop'.pc \in {"track", "idle", "cache"}
          \/ loop.pc \in {"track", "cleanup"} /\ loop'.pc \in {"idle", "cache"}
          \/ loop.pc = "cache" /\ loop'.pc = "write"
          \/ loop.pc = "write" /\ loop'.pc \in {"idle", "watch"}
      BY <1>3, HandlerMoves
    <2>2. watch' = watch
      BY <1>3 DEF LoopRecord, LoopTrack, LoopCleanup, LoopCache, LoopWrite
    <2>3. StepsAt[loop.pc] \in Nat /\ StepsAt[loop'.pc] \in Nat /\ StepsAt[loop'.pc] < StepsAt[loop.pc]
      BY <2>1 DEF StepsAt
    <2>4. LoopLeft = 3 * n + StepsAt[loop.pc] /\ LoopLeft' = 3 * n + StepsAt[loop'.pc]
      BY <1>1, <2>2 DEF LoopLeft
    <2> QED
      BY <2>3, <2>4
  <1>4. CASE LoopWriteRaises
    <2>1. loop.pc = "write" /\ loop'.pc = "idle" /\ watch' = {}
      BY <1>4, HandlerMoves DEF LoopWriteRaises
    <2>2. LoopLeft = 3 * n + 1 /\ LoopLeft' = 0
      BY <1>1, <2>1, FS_EmptySet DEF LoopLeft, StepsAt
    <2> QED
      BY <1>1, <2>2
  <1> QED
    BY <1>2, <1>3, <1>4 DEF LoopStep, HookSessionStart, HookSessionEnd, HookOther, WatchWake

(* The round's invariant holds in every state.                                 *)
LEMMA RoundInvariant == Spec => []RoundInv
  <1>1. Init => RoundInv
    BY DEF Init, RoundInv, LoopIdle
  <1> QED
    BY <1>1, RoundStep, QuestionInvariant, DaemonTypeCorrect, PTL DEF Spec

(* With as many sessions as there may be, a handler or a round of the watcher  *)
(* is over after a bounded number of the loop's steps, an exception in one of  *)
(* its writes included, and nothing comes in between.                          *)
THEOREM LoopComesBack ==
    ASSUME IsFiniteSet(Session)
    PROVE  Spec => []LoopNearlyIdle /\ LoopGetsNearer
  <1>1. DaemonTypeOK /\ QuestionUntracked /\ RoundInv => LoopNearlyIdle
    <2> SUFFICES ASSUME DaemonTypeOK, QuestionUntracked, RoundInv PROVE LoopNearlyIdle
      OBVIOUS
    <2>1. PICK n \in Nat : n = Cardinality(watch)
      BY RoundCounted
    <2>2. n = 0 <=> watch = {}
      BY <2>1, RoundCounted
    <2>3. PICK k \in 0 .. 4 : k = StepsAt[loop.pc]
      BY DEF StepsAt, DaemonTypeOK, LoopOK
    <2>4. k = 0 <=> loop.pc \in {"idle", "watch"}
      BY <2>3 DEF StepsAt, DaemonTypeOK, LoopOK
    <2>5. LoopLeft = 3 * n + k
      BY <2>1, <2>3 DEF LoopLeft
    <2>6. n = 0 /\ k = 0 <=> loop.pc = "idle"
      BY <2>2, <2>4 DEF RoundInv, QuestionUntracked
    <2> QED
      BY <2>5, <2>6 DEF LoopNearlyIdle
  <1>2. DaemonTypeOK /\ QuestionUntracked /\ RoundInv /\ [Next]_vars =>
            [loop.pc # "idle" =>
                IF LoopStep THEN LoopLeft' < LoopLeft ELSE UNCHANGED <<loop, watch>>]_vars
    BY LoopStepLess, OthersLeaveLoop
  <1> QED
    BY <1>1, <1>2, RoundInvariant, QuestionInvariant, DaemonTypeCorrect, PTL
    DEF Spec, LoopGetsNearer

(* Only the watcher marks a call as escalated.                                 *)
LEMMA OthersMarkNothing ==
    ASSUME DaemonTypeOK, DaemonTypeOK', [Next]_vars, ~ (\E call \in watch : WatchEscalate(call)),
           NEW s \in Session, Overdue(s), ~ Overdue(s)', Tracked(s)'
    PROVE  pending_calls'[s].age < StallThreshold
  <1>1. /\ pending_calls \in [Session -> Call \cup {NoCall}]
        /\ pending_calls' \in [Session -> Call \cup {NoCall}]
    BY DEF DaemonTypeOK, TablesOK
  <1>2. pending_calls[s].escalated = FALSE
    BY <1>1 DEF Overdue, Tracked, Call
  <1>3. CASE ~ LoopStep
    BY <1>3, OthersTrackNothing
  <1>4. CASE LoopTrack
    <2>1. loop.session \in Session /\ loop.slot \in Slots
      BY <1>4 DEF LoopTrack, DaemonTypeOK, LoopOK
    <2>2. pending_calls' = [pending_calls EXCEPT
              ![loop.session] = TrackedCall(loop.event, loop.session, loop.slot)]
      BY <1>4 DEF LoopTrack
    <2>3. CASE s # loop.session
      BY <1>1, <2>1, <2>2, <2>3 DEF Overdue, Tracked
    <2>4. CASE s = loop.session
      <3>1. pending_calls'[s] = TrackedCall(loop.event, s, loop.slot)
        BY <1>1, <2>1, <2>2, <2>4
      <3>2. \/ pending_calls'[s] = NoCall
            \/ pending_calls'[s] = pending_calls[s]
            \/ pending_calls'[s] = [slot |-> loop.slot, age |-> 0, escalated |-> FALSE]
        BY <3>1 DEF TrackedCall
      <3>3. pending_calls'[s].escalated = FALSE
        BY <1>2, <3>2 DEF NoCall
      <3>4. ~ (pending_calls'[s].age >= StallThreshold)
        BY <3>3 DEF Overdue, Tracked
      <3>5. pending_calls'[s].age \in Nat
        BY <1>1, StallThresholdAssumption DEF Call, Tracked
      <3> QED
        BY <3>4, <3>5, StallThresholdAssumption
    <2> QED
      BY <2>3, <2>4
  <1>5. CASE LoopCleanup
    <2>1. pending_calls'[s] \in {NoCall, pending_calls[s]}
      BY <1>1, <1>5 DEF LoopCleanup, DaemonTypeOK, LoopOK
    <2> QED
      BY <2>1 DEF Overdue, Tracked
  <1>6. CASE UNCHANGED pending_calls
    BY <1>6 DEF Overdue, Tracked
  <1> QED
    BY <1>3, <1>4, <1>5, <1>6
    DEF LoopStep, HookSessionStart, HookSessionEnd, HookOther, LoopRecord, LoopCache, LoopWrite,
        LoopWriteRaises, WatchWake, tableVars

(* An overdue call stays overdue until the watcher shows it, and shows it on   *)
(* the key of its own session; what is under way to the pad arrives there if   *)
(* the link is up.  StalledCallsSurface is this and that the loop, the timer,  *)
(* the clock and the watcher go on, which no link error has to end.            *)
THEOREM StalledCallGoesOut == Spec => OverdueIsEscalated /\ SendsWhatItCached
  <1>1. DaemonTypeOK /\ DaemonTypeOK' /\ RoundInv /\ DisplayInv /\ [Next]_vars =>
            [\A s \in Session : Overdue(s) /\ ~ Overdue(s)' =>
                ~ Tracked(s)' \/ pending_calls'[s].age < StallThreshold \/ ShowsStalled(s)]_vars
    <2> SUFFICES ASSUME DaemonTypeOK, DaemonTypeOK', RoundInv, DisplayInv, [Next]_vars,
                        NEW s \in Session, Overdue(s), ~ Overdue(s)', Tracked(s)'
                 PROVE  pending_calls'[s].age < StallThreshold \/ ShowsStalled(s)
      OBVIOUS
    <2>1. ASSUME NEW call \in watch, WatchEscalate(call)
          PROVE  ShowsStalled(s)
      <3>1. /\ pending_calls \in [Session -> Call \cup {NoCall}]
            /\ call.session \in Session /\ call.slot \in Slots
        BY DEF DaemonTypeOK, TablesOK, LoopOK
      <3>2. call.session = s
        BY <2>1, <3>1 DEF WatchEscalate, Overdue, Tracked
      <3>3. call.slot = pending_calls[s].slot
        BY <3>2 DEF RoundInv, Overdue
      <3>4. loop'.pc = "cache" /\ loop'.slot = call.slot /\ loop'.msg = "tool_stalled"
        BY <2>1, IdleRecords DEF WatchEscalate
      <3>5. call.slot \notin raced => slot_to_session[call.slot] = s
        BY <3>1, <3>2 DEF DisplayInv, SlotsRight, SlotRight, OwnerKept
      <3> QED
        BY <3>3, <3>4, <3>5 DEF ShowsStalled
    <2> QED
      BY <2>1, OthersMarkNothing
  <1>2. DaemonTypeOK /\ [Next]_vars =>
            [loop.pc \in {"cache", "write"} =>
                \/ loop' = loop
                \/ loop.pc = "cache" /\ loop' = [loop EXCEPT !.pc = "write"]
                \/ loop.pc = "write" /\ (link = "up" => led'[loop.slot] = loop.msg)]_vars
    <2> SUFFICES ASSUME DaemonTypeOK, [Next]_vars, loop.pc \in {"cache", "write"}
                 PROVE  \/ loop' = loop
                        \/ loop.pc = "cache" /\ loop' = [loop EXCEPT !.pc = "write"]
                        \/ loop.pc = "write" /\ (link = "up" => led'[loop.slot] = loop.msg)
      OBVIOUS
    <2>1. CASE LoopWrite
      <3>1. loop.slot \in Slots /\ led \in [Slots -> PadStates]
        BY DEF DaemonTypeOK, LoopOK, PadOK
      <3> QED
        BY <2>1, <3>1 DEF LoopWrite, WriteMsg
    <2>2. CASE ~ LoopStep
      BY <2>2, OthersLeaveLoop
    <2>3. CASE LoopWriteRaises
      BY <2>3 DEF LoopWriteRaises
    <2> QED
      BY <2>1, <2>2, <2>3
      DEF LoopStep, HookSessionStart, HookSessionEnd, HookOther, LoopRecord, LoopTrack, LoopCleanup,
          LoopCache, WatchWake, WatchEscalate
  <1>3. Spec => [](DaemonTypeOK /\ RoundInv /\ DisplayInv)
    BY DaemonTypeCorrect, RoundInvariant, DisplayInvariant, PTL
  <1> QED
    BY <1>1, <1>2, <1>3, PTL DEF Spec, OverdueIsEscalated, SendsWhatItCached
=================================================================================
