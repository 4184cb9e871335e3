----------------------------- MODULE MacropadDaemon -----------------------------
(* daemon.py's Daemon: hook events in, one display state per pad slot out.     *)
(*                                                                             *)
(* Two threads share the daemon's tables.  The asyncio loop runs               *)
(* handle_hook_event() and watch_stalled_calls(), which never overlap each     *)
(* other.  The pad's reader thread runs on_device_event() and, after a lost    *)
(* link, resync_pad().  Only SlotManager takes a lock, so every access to      *)
(* another shared table is a step of its own and the threads interleave        *)
(* between any two of them.                                                    *)
(*                                                                             *)
(* The per-session tables that only dispatching reads (panes, ttys, agents,    *)
(* the cached method) are written and popped next to session_projects, which   *)
(* stands for all of them.                                                     *)
EXTENDS SlotManager, HookEvents

CONSTANTS
    Events,          \* the hook events the sessions send (a subset of HookEvent)
    Keys,            \* the slots whose key the user taps and holds
    LinkFaults,      \* may the HID link drop?
    StallThreshold   \* STALL_THRESHOLD_SECONDS, in ticks

ASSUME EventsAssumption == Events \subseteq HookEvent
ASSUME KeysAssumption == Keys \subseteq Slots
ASSUME LinkFaultsAssumption == LinkFaults \in BOOLEAN
ASSUME StallThresholdAssumption == StallThreshold \in Nat

VARIABLES
    pending_calls,     \* session -> its tracked tool call, or NoCall
    session_projects,  \* sessions with a dispatch target recorded
    pad_state,         \* slot -> last state sent, "off" when nothing is cached
    led,               \* slot -> what the pad shows
    link,              \* "up" while a write reaches the pad
    loop,              \* the asyncio thread
    watch,             \* calls watch_stalled_calls() has yet to escalate in this round
    watcher_task,      \* "running", or "failed" once an exception has ended it
    reader,            \* the reader thread
    replay,            \* resync_pad()'s snapshot, see below
    intended,          \* history: the state each mapped session last asked for
    raced              \* history: slots on which the threads overlapped or a clear was lost

tableVars == <<slot_to_session, session_to_slot, pending_calls, session_projects>>
padVars == <<pad_state, led, link, replay>>
historyVars == <<intended>>
vars == <<tableVars, padVars, historyVars, loop, watch, watcher_task, reader, raced>>

NoCall == [slot |-> NoSlot, age |-> 0, escalated |-> FALSE]

Tracked(s) == pending_calls[s] # NoCall

NoEvent == [name |-> "none", tool |-> "none", ntype |-> "none"]

LoopIdle ==
    [pc |-> "idle", event |-> NoEvent, session |-> NoSession, slot |-> NoSlot, msg |-> "off"]

ReaderIdle == [pc |-> "idle", session |-> NoSession, slot |-> NoSlot, msg |-> "off"]

(* resync_pad() snapshots references to the cached dicts, not copies: an entry *)
(* is "live" while its dict is still the cached one, and keeps its last state  *)
(* once a clear has popped that dict from the cache.                           *)
NotReplayed == "none"
Live == "live"

Init ==
    /\ SlotInit
    /\ pending_calls = [s \in Session |-> NoCall]
    /\ session_projects = {}
    /\ pad_state = [i \in Slots |-> "off"]
    /\ led = [i \in Slots |-> "off"]
    /\ link = "up"
    /\ loop = LoopIdle
    /\ watch = {}
    /\ watcher_task = "running"
    /\ reader = ReaderIdle
    /\ replay = [i \in Slots |-> NotReplayed]
    /\ intended = [s \in Session |-> "off"]
    /\ raced = {}

--------------------------------------------------------------------------------
(* _send_pad(), in its two halves: the cache first, then the wire.  A write    *)
(* that finds no handle, or a dead one, is dropped.                            *)

CacheMsg(i, msg) ==
    /\ pad_state' = [pad_state EXCEPT ![i] = msg]
    /\ replay' = IF msg = "off" /\ replay[i] = Live
                 THEN [replay EXCEPT ![i] = pad_state[i]] ELSE replay

WriteMsg(i, msg) ==
    led' = IF link = "up" THEN [led EXCEPT ![i] = msg] ELSE led

Intend(s, i, state) ==
    intended' = IF slot_to_session[i] = s THEN [intended EXCEPT ![s] = state] ELSE intended

--------------------------------------------------------------------------------
(* History of interference.  A thread holds a slot from the lookup that found  *)
(* it to the write that shows it.  An eviction also holds the evicted session: *)
(* re-allocated meanwhile, it may have moved to another slot.                  *)

LoopHolds(i) == loop.slot = i \/ \E call \in watch : call.slot = i

ReaderHolds(i) ==
    \/ reader.slot = i
    \/ replay[i] # NotReplayed
    \/ reader.session # NoSession /\ loop.slot = i /\ loop.session = reader.session

LosesClear(thread) == thread.pc = "write" /\ thread.msg = "off" /\ link = "down"

Interference ==
    raced' = raced
        \cup {i \in Slots : (LoopHolds(i) /\ ReaderHolds(i))'}
        \cup {i \in Slots : LosesClear(loop) /\ loop.slot = i /\ loop'.pc # "write"}
        \cup {i \in Slots : LosesClear(reader) /\ reader.slot = i /\ reader'.pc # "write"}

--------------------------------------------------------------------------------
(* handle_hook_event() on the loop thread.                                     *)

HookSessionStart(s) ==
    /\ loop.pc = "idle"
    /\ Plain("SessionStart") \in Events
    /\ \E i \in Slots \cup {NoSlot} :
          /\ Allocate(s, i)
          /\ loop' = [LoopIdle EXCEPT !.pc = "record", !.event = Plain("SessionStart"),
                                      !.session = s, !.slot = i]
    /\ UNCHANGED <<pending_calls, session_projects, padVars, historyVars, watch, watcher_task, reader>>
    /\ Interference

HookSessionEnd(s) ==
    /\ loop.pc = "idle"
    /\ Plain("SessionEnd") \in Events
    /\ \E i \in Slots \cup {NoSlot} :
          /\ Free(s, i)
          /\ loop' = [LoopIdle EXCEPT !.pc = "cleanup", !.session = s, !.slot = i]
    /\ UNCHANGED <<pending_calls, session_projects, padVars, historyVars, watch, watcher_task, reader>>
    /\ Interference

(* Any other event: the session's slot, allocated lazily if it has none; with  *)
(* the pad full the event is dropped.                                          *)
HookOther(s, event) ==
    /\ loop.pc = "idle"
    /\ event.name \notin {"SessionStart", "SessionEnd"}
    /\ \E i \in Slots \cup {NoSlot} :
          /\ Allocate(s, i)
          /\ loop' = IF i = NoSlot THEN loop
                     ELSE [LoopIdle EXCEPT !.pc = IF Mapped(s) THEN "track" ELSE "record",
                                           !.event = event, !.session = s, !.slot = i]
    /\ UNCHANGED <<pending_calls, session_projects, padVars, historyVars, watch, watcher_task, reader>>
    /\ Interference

(* The dispatch target, recorded by SessionStart and by a lazy allocation.     *)
(* Mutant: recorded by SessionStart alone.                                     *)
TargetsFromStartOnly(event, s) ==
    IF event.name = "SessionStart" THEN session_projects \cup {s} ELSE session_projects

TargetsAfter(event, s) == session_projects \cup {s}

LoopRecord ==
    /\ loop.pc = "record"
    /\ session_projects' = TargetsAfter(loop.event, loop.session)
    /\ IF loop.event.name # "SessionStart"
       THEN /\ loop' = [loop EXCEPT !.pc = "track"]
            /\ UNCHANGED intended
       ELSE IF loop.slot = NoSlot
       THEN /\ loop' = LoopIdle
            /\ UNCHANGED intended
       ELSE /\ loop' = [loop EXCEPT !.pc = "cache", !.msg = "idle", !.event = NoEvent]
            /\ Intend(loop.session, loop.slot, "idle")
    /\ UNCHANGED <<slotVars, pending_calls, padVars, watch, watcher_task, reader>>
    /\ Interference

(* pending_calls after an event: a plain tool call replaces the session's      *)
(* record, the end of a call or a definite question drops it.                  *)
(* Mutant: no branch for the question.                                         *)
TracksQuestions(event, s, i) ==
    IF event.name = "PreToolUse" /\ hook_to_state(event) = "tool_running"
    THEN [slot |-> i, age |-> 0, escalated |-> FALSE]
    ELSE IF event.name \in {"PostToolUse", "PostToolUseFailure"} THEN NoCall
    ELSE pending_calls[s]

TrackedCall(event, s, i) ==
    LET state == hook_to_state(event) IN
    IF event.name = "PreToolUse" /\ state = "tool_running"
    THEN [slot |-> i, age |-> 0, escalated |-> FALSE]
    ELSE IF event.name \in {"PostToolUse", "PostToolUseFailure"} \/ state = "question"
    THEN NoCall
    ELSE pending_calls[s]

LoopTrack ==
    LET s == loop.session
        state == hook_to_state(loop.event)
    IN
    /\ loop.pc = "track"
    /\ pending_calls' = [pending_calls EXCEPT ![s] = TrackedCall(loop.event, s, loop.slot)]
    /\ IF state = NoState
       THEN /\ loop' = LoopIdle
            /\ UNCHANGED intended
       ELSE /\ loop' = [loop EXCEPT !.pc = "cache", !.msg = state, !.event = NoEvent]
            /\ Intend(s, loop.slot, state)
    /\ UNCHANGED <<slotVars, session_projects, padVars, watch, watcher_task, reader>>
    /\ Interference

(* SessionEnd's cleanup.  The pops are steps of the same session's entries,    *)
(* which nobody else writes while the session is unmapped and the loop busy.   *)
(* Mutant: a session's end that leaves its slot as it is.                      *)
CleanupWithoutClear ==
    /\ loop.pc = "cleanup"
    /\ pending_calls' = [pending_calls EXCEPT ![loop.session] = NoCall]
    /\ session_projects' = session_projects \ {loop.session}
    /\ intended' = [intended EXCEPT ![loop.session] = "off"]
    /\ loop' = LoopIdle
    /\ UNCHANGED <<slotVars, padVars, watch, watcher_task, reader>>
    /\ Interference

LoopCleanup ==
    /\ loop.pc = "cleanup"
    /\ pending_calls' = [pending_calls EXCEPT ![loop.session] = NoCall]
    /\ session_projects' = session_projects \ {loop.session}
    /\ intended' = [intended EXCEPT ![loop.session] = "off"]
    /\ loop' = IF loop.slot = NoSlot THEN LoopIdle ELSE [loop EXCEPT !.pc = "cache"]
    /\ UNCHANGED <<slotVars, padVars, watch, watcher_task, reader>>
    /\ Interference

LoopCache ==
    /\ loop.pc = "cache"
    /\ CacheMsg(loop.slot, loop.msg)
    /\ loop' = [loop EXCEPT !.pc = "write"]
    /\ UNCHANGED <<tableVars, led, link, historyVars, watch, watcher_task, reader>>
    /\ Interference

LoopWrite ==
    /\ loop.pc = "write"
    /\ WriteMsg(loop.slot, loop.msg)
    /\ loop' = IF watch = {} THEN LoopIdle ELSE [LoopIdle EXCEPT !.pc = "watch"]
    /\ UNCHANGED <<tableVars, pad_state, link, replay, historyVars, watch, watcher_task, reader>>
    /\ Interference

(* A write that saw a handle when it checked and finds None when it uses it,   *)
(* since the reader got into _reconnect() in between: the AttributeError ends  *)
(* the connection's handler, or watch_stalled_calls() in the midst of a round. *)
ByWatcher == loop.session = NoSession

LoopWriteRaises ==
    /\ loop.pc = "write"
    /\ link = "down"
    /\ reader.pc = "idle"
    /\ watch' = {}
    /\ watcher_task' = IF ByWatcher THEN "failed" ELSE watcher_task
    /\ loop' = LoopIdle
    /\ UNCHANGED <<tableVars, padVars, historyVars, reader>>
    /\ Interference

--------------------------------------------------------------------------------
(* watch_stalled_calls(): a round over a snapshot of the overdue calls.        *)

Overdue(s) ==
    /\ Tracked(s)
    /\ ~ pending_calls[s].escalated
    /\ pending_calls[s].age >= StallThreshold

WatchWake ==
    /\ watcher_task = "running"
    /\ loop.pc = "idle"
    /\ \E s \in Session : Overdue(s)
    /\ watch' = {[session |-> s, slot |-> pending_calls[s].slot] : s \in {t \in Session : Overdue(t)}}
    /\ loop' = [LoopIdle EXCEPT !.pc = "watch"]
    /\ UNCHANGED <<tableVars, padVars, historyVars, reader, watcher_task>>
    /\ Interference

(* Mutant: the call is marked and nothing is sent.                             *)
EscalateSilently(call) ==
    /\ loop.pc = "watch"
    /\ call \in watch
    /\ watch' = watch \ {call}
    /\ pending_calls' = IF Tracked(call.session)
                        THEN [pending_calls EXCEPT ![call.session].escalated = TRUE]
                        ELSE pending_calls
    /\ loop' = IF watch' = {} THEN LoopIdle ELSE loop
    /\ UNCHANGED <<slotVars, session_projects, padVars, historyVars, reader, watcher_task>>
    /\ Interference

WatchEscalate(call) ==
    /\ loop.pc = "watch"
    /\ call \in watch
    /\ watch' = watch \ {call}
    /\ pending_calls' = IF Tracked(call.session)
                        THEN [pending_calls EXCEPT ![call.session].escalated = TRUE]
                        ELSE pending_calls
    /\ Intend(call.session, call.slot, "tool_stalled")
    /\ loop' = [LoopIdle EXCEPT !.pc = "cache", !.slot = call.slot, !.msg = "tool_stalled"]
    /\ UNCHANGED <<slotVars, session_projects, padVars, reader, watcher_task>>
    /\ Interference

(* Time passes.  The age of a call is only read until it is escalated, and     *)
(* only compared with the threshold, so it stops there.                        *)
Aging(s) == Tracked(s) /\ ~ pending_calls[s].escalated /\ pending_calls[s].age < StallThreshold

Tick ==
    /\ \E s \in Session : Aging(s)
    /\ pending_calls' = [s \in Session |-> IF Aging(s)
                                           THEN [pending_calls[s] EXCEPT !.age = @ + 1]
                                           ELSE pending_calls[s]]
    /\ UNCHANGED <<slotVars, session_projects, padVars, historyVars, loop, watch, watcher_task, reader>>
    /\ Interference

--------------------------------------------------------------------------------
(* on_device_event() on the reader thread: a tap dispatches to the session of  *)
(* the slot, or clears a slot that shows no session; a hold evicts.            *)

KeyTap(i) ==
    /\ reader.pc = "idle"
    /\ link = "up"
    /\ reader' = IF slot_to_session[i] = NoSession
                 THEN [ReaderIdle EXCEPT !.pc = "cache", !.slot = i]
                 ELSE [ReaderIdle EXCEPT !.pc = "dispatch", !.slot = i,
                                         !.session = slot_to_session[i]]
    /\ UNCHANGED <<tableVars, padVars, historyVars, loop, watch, watcher_task>>
    /\ Interference

(* dispatch_bring_to_front() blocks the reader and changes no table here.      *)
ReaderDispatch ==
    /\ reader.pc = "dispatch"
    /\ reader' = ReaderIdle
    /\ UNCHANGED <<tableVars, padVars, historyVars, loop, watch, watcher_task>>
    /\ Interference

KeyHeld(i) ==
    /\ reader.pc = "idle"
    /\ link = "up"
    /\ \E s \in Session \cup {NoSession} :
          /\ Evict(i, s)
          /\ reader' = [ReaderIdle EXCEPT !.pc = IF s = NoSession THEN "cache" ELSE "untrack",
                                          !.slot = i, !.session = s]
          /\ intended' = IF s = NoSession THEN intended ELSE [intended EXCEPT ![s] = "off"]
    /\ UNCHANGED <<pending_calls, session_projects, padVars, loop, watch, watcher_task>>
    /\ Interference

(* Mutant: an eviction that forgets pending_calls.                             *)
UntrackNothing ==
    /\ reader.pc = "untrack"
    /\ reader' = [reader EXCEPT !.pc = "forget"]
    /\ UNCHANGED <<tableVars, padVars, historyVars, loop, watch, watcher_task>>
    /\ Interference

ReaderUntrack ==
    /\ reader.pc = "untrack"
    /\ pending_calls' = [pending_calls EXCEPT ![reader.session] = NoCall]
    /\ reader' = [reader EXCEPT !.pc = "forget"]
    /\ UNCHANGED <<slotVars, session_projects, padVars, historyVars, loop, watch, watcher_task>>
    /\ Interference

(* Mutant: an eviction that never clears the slot.                             *)
ForgetWithoutClear ==
    /\ reader.pc = "forget"
    /\ session_projects' = session_projects \ {reader.session}
    /\ reader' = ReaderIdle
    /\ UNCHANGED <<slotVars, pending_calls, padVars, historyVars, loop, watch, watcher_task>>
    /\ Interference

ReaderForget ==
    /\ reader.pc = "forget"
    /\ session_projects' = session_projects \ {reader.session}
    /\ reader' = [reader EXCEPT !.pc = "cache", !.session = NoSession]
    /\ UNCHANGED <<slotVars, pending_calls, padVars, historyVars, loop, watch, watcher_task>>
    /\ Interference

ReaderCache ==
    /\ reader.pc = "cache"
    /\ CacheMsg(reader.slot, "off")
    /\ reader' = [reader EXCEPT !.pc = "write"]
    /\ UNCHANGED <<tableVars, led, link, historyVars, loop, watch, watcher_task>>
    /\ Interference

ReaderWrite ==
    /\ reader.pc = "write"
    /\ WriteMsg(reader.slot, "off")
    /\ reader' = ReaderIdle
    /\ UNCHANGED <<tableVars, pad_state, link, replay, historyVars, loop, watch, watcher_task>>
    /\ Interference

--------------------------------------------------------------------------------
(* The link.  While it is down a write is dropped.  The reader notices when it *)
(* next reads, reopens the handle and replays the cache.  A pad that lost its  *)
(* power comes back dark, one that only slept comes back as it was.            *)

LinkDrop ==
    /\ LinkFaults
    /\ link = "up"
    /\ link' = "down"
    /\ UNCHANGED <<tableVars, pad_state, led, replay, historyVars, loop, watch, watcher_task, reader>>
    /\ Interference

LinkReattach ==
    /\ link = "down"
    /\ reader.pc = "idle"
    /\ link' = "up"
    /\ led' \in {led, [i \in Slots |-> "off"]}
    /\ replay' = [i \in Slots |-> IF pad_state[i] = "off" THEN NotReplayed ELSE Live]
    /\ reader' = [ReaderIdle EXCEPT !.pc = "resync"]
    /\ UNCHANGED <<tableVars, pad_state, historyVars, loop, watch, watcher_task>>
    /\ Interference

(* write_json() packs the dict's state of this moment, then writes it.         *)
ResyncPack(i) ==
    /\ reader.pc = "resync"
    /\ replay[i] # NotReplayed
    /\ reader' = [reader EXCEPT !.pc = "rewrite", !.slot = i,
                                !.msg = IF replay[i] = Live THEN pad_state[i] ELSE replay[i]]
    /\ replay' = [replay EXCEPT ![i] = NotReplayed]
    /\ UNCHANGED <<tableVars, pad_state, led, link, historyVars, loop, watch, watcher_task>>
    /\ Interference

ResyncWrite ==
    /\ reader.pc = "rewrite"
    /\ WriteMsg(reader.slot, reader.msg)
    /\ reader' = [ReaderIdle EXCEPT !.pc = "resync"]
    /\ UNCHANGED <<tableVars, pad_state, link, replay, historyVars, loop, watch, watcher_task>>
    /\ Interference

ResyncDone ==
    /\ reader.pc = "resync"
    /\ \A i \in Slots : replay[i] = NotReplayed
    /\ reader' = ReaderIdle
    /\ UNCHANGED <<tableVars, padVars, historyVars, loop, watch, watcher_task>>
    /\ Interference

--------------------------------------------------------------------------------
LoopStep ==
    \/ \E s \in Session : HookSessionStart(s)
    \/ \E s \in Session : HookSessionEnd(s)
    \/ \E s \in Session, event \in Events : HookOther(s, event)
    \/ LoopRecord
    \/ LoopTrack
    \/ LoopCleanup
    \/ LoopCache
    \/ LoopWrite
    \/ LoopWriteRaises
    \/ WatchWake
    \/ \E call \in watch : WatchEscalate(call)

ReaderStep ==
    \/ \E i \in Keys : KeyTap(i)
    \/ \E i \in Keys : KeyHeld(i)
    \/ ReaderDispatch
    \/ ReaderUntrack
    \/ ReaderForget
    \/ ReaderCache
    \/ ReaderWrite
    \/ LinkReattach
    \/ \E i \in Slots : ResyncPack(i)
    \/ ResyncWrite
    \/ ResyncDone

Next ==
    \/ LoopStep
    \/ ReaderStep
    \/ Tick
    \/ LinkDrop

(* asyncio runs a callback that is ready, time passes, and the timer of a      *)
(* sleeping watcher is served between the hook events, however many arrive.    *)
Fairness ==
    /\ WF_vars(LoopRecord \/ LoopTrack \/ LoopCleanup \/ LoopCache \/ LoopWrite)
    /\ WF_vars(\E call \in watch : WatchEscalate(call))
    /\ SF_vars(WatchWake)
    /\ WF_vars(Tick)

Spec == Init /\ [][Next]_vars

FairSpec == Spec /\ Fairness

--------------------------------------------------------------------------------
(* Types.  Each thread's record also says what its program counter implies:    *)
(* whom a handler works for and which slot it is about to write.               *)
Call == [slot : Slots, age : 0 .. StallThreshold, escalated : BOOLEAN]

TablesOK ==
    /\ pending_calls \in [Session -> Call \cup {NoCall}]
    /\ session_projects \subseteq Session

PadOK ==
    /\ pad_state \in [Slots -> PadStates]
    /\ led \in [Slots -> PadStates]
    /\ link \in {"up", "down"}
    /\ replay \in [Slots -> PadStates \cup {NotReplayed, Live}]

LoopOK ==
    /\ loop \in [pc : {"idle", "record", "track", "cleanup", "cache", "write", "watch"},
                 event : HookEvent \cup {NoEvent}, session : Session \cup {NoSession},
                 slot : Slots \cup {NoSlot}, msg : PadStates]
    /\ loop.pc \in {"record", "track", "cleanup"} => loop.session \in Session
    /\ loop.pc \in {"track", "cache", "write"} => loop.slot \in Slots
    /\ loop.pc = "record" /\ loop.slot = NoSlot => loop.event.name = "SessionStart"
    /\ watch \subseteq [session : Session, slot : Slots]
    /\ watcher_task \in {"running", "failed"}

ReaderOK ==
    /\ reader \in [pc : {"idle", "dispatch", "untrack", "forget", "cache", "write",
                         "resync", "rewrite"},
                   session : Session \cup {NoSession}, slot : Slots \cup {NoSlot},
                   msg : PadStates]
    /\ reader.pc \in {"dispatch", "untrack", "forget"} => reader.session \in Session
    /\ reader.pc \in {"untrack", "forget", "cache", "write", "rewrite"} => reader.slot \in Slots

HistoryOK ==
    /\ intended \in [Session -> PadStates]
    /\ raced \subseteq Slots

DaemonTypeOK == SlotTypeOK /\ TablesOK /\ PadOK /\ LoopOK /\ ReaderOK /\ HistoryOK

(* No handler is under way and the pad is listening.                           *)
Quiet == loop.pc = "idle" /\ reader.pc = "idle" /\ link = "up"

(* What a slot should show: its session's last state, dark without a session.  *)
Expected(i) ==
    IF slot_to_session[i] = NoSession THEN "off" ELSE intended[slot_to_session[i]]

(* Between handlers the cache and the pad show what each session last asked    *)
(* for and every other slot is dark.  A slot may differ only after the two     *)
(* threads held it at once or a clear for it fell into a dead link: those are  *)
(* the only two ways the daemon loses the display, reattachment included.      *)
DisplayMirrors ==
    Quiet => \A i \in Slots \ raced : pad_state[i] = Expected(i) /\ led[i] = Expected(i)

(* A tracked tool call belongs to the session that owns the slot it would      *)
(* escalate, so watch_stalled_calls() never paints another session's key.      *)
TrackedCallOwnsSlot ==
    Quiet => \A s \in Session :
        Tracked(s) /\ pending_calls[s].slot \notin raced =>
            slot_to_session[pending_calls[s].slot] = s

(* A mapped session can be brought to the front: pressing its key finds a      *)
(* target, also when it was discovered lazily or got its slot late.            *)
MappedSessionHasTarget ==
    Quiet => \A i \in Slots \ raced :
        slot_to_session[i] # NoSession => slot_to_session[i] \in session_projects

(* "question" is a certainty and "tool_stalled" a guess: the watcher never     *)
(* replaces the one by the other (the third branch of the stall bookkeeping).  *)
QuestionIsKept ==
    [][\A s \in Session : intended[s] = "question" => intended'[s] # "tool_stalled"]_vars

(* Why it holds: a session showing "question" has no tracked call, nor one in  *)
(* the watcher's round; and a handler that lost its slot to an eviction after  *)
(* the lookup works for a session whose state that eviction has reset.         *)
QuestionUntracked ==
    /\ \A s \in Session : intended[s] = "question" => ~ Tracked(s)
    /\ \A call \in watch : intended[call.session] # "question"
    /\ watch # {} => loop.pc \in {"watch", "cache", "write"}
    /\ loop.pc \in {"record", "track"} /\ loop.slot # NoSlot =>
          \/ slot_to_session[loop.slot] = loop.session
          \/ intended[loop.session] # "question"

(* A call that stays pending past the threshold lights its session's key as    *)
(* stalled, unless it ends or another call takes its place first.              *)
StalledCallsSurface ==
    \A s \in Session :
        Overdue(s) ~> \/ \E i \in Slots : slot_to_session[i] = s /\ led[i] = "tool_stalled"
                      \/ ~ Tracked(s)
                      \/ pending_calls[s].age < StallThreshold

(* While nobody holds a key and the link is up the daemon implements the       *)
(* board: every write to the pad, of whatever handler or watcher, shows what   *)
(* the slot's owner said last at that very step, never an older state or       *)
(* another session's, and no state is left unshown for good.                   *)
Board == INSTANCE SessionBoard WITH
    owner <- slot_to_session, said <- intended, shown <- led, Said <- PadStates

ImplementsBoard == Board!BoardSpec

--------------------------------------------------------------------------------
(* What a comment of the code promises and its behaviours break: checked by a  *)
(* run of its own that finds the counterexample.                               *)

(* resync_pad() exists so that a pad does not come back "showing whatever it   *)
(* last displayed".  Only cached slots are replayed: a slot freed while the    *)
(* link was down is no longer cached and keeps its old colour.                 *)
FreedSlotIsDark ==
    Quiet => \A i \in Slots : slot_to_session[i] = NoSession => led[i] = "off"
=================================================================================
