# TLA+ models of the AI agent macropad

The repository drives a hardware pad: AI coding agents report what they do
through hook scripts, a daemon turns the reports into one display state per
pad slot, and the pad's firmware lights a key per slot and reports taps and
holds back. This directory holds TLA+ models of the way from an agent's hook to
a lit key and from a pressed key to a window: the hook adapters, the daemon and
its restarts, dispatching, the HID link, the wire and the firmware. With them
come the TLC configurations that check them on small instances, and TLAPS proofs
of the safety properties for every size.

Line numbers below refer to `src/`. `PROJECT.json` maps every definition to
the lines it models and lists the runs, the mutants that each property
catches, the hazards and the theorems.

## The system

### Components

| component | code | state | operations |
|---|---|---|---|
| Slot manager | `daemon.py` 244-298 | `slot_to_session`, `session_to_slot` (one lock) | `allocate`, `free`, `evict`, `slot_for` |
| Hook handling | `daemon.py` 153-241, 1403-1565 | `pending_calls`, dispatch targets, display cache `pad_state` | one handler per hook event |
| Stall watcher | `daemon.py` 1567-1602 | reads and marks `pending_calls` | one round a second |
| Key events | `daemon.py` 716-867 | all of the above | tap: dispatch or clear; hold: evict |
| Pad link | `pad_link.py` 132-330, `daemon.py` 647-714 | `_dev`, `attached`, `_stop`, `_thread` | `open`, `close`, read loop, `_reconnect`, reconcile |
| Firmware | `qmk-userspace/users/ai_agent_macropad/` | slot and wire tables, hold timers | key press and release, scan, host messages, VIA remaps |
| Startup | `daemon.py` 1645-1809 | slot count, seeded sessions | handshake, seeding, serve, shutdown |
| Dispatching | `daemon.py` 464-550, 779-1401 | pane, tty, project and cached method per session | record, press, warm up, forget |
| Session discovery | `daemon.py` 300-463, 1674-1703 | none | query Claude Code, read Grok's registry, look up tty and pane |
| Socket server | `daemon.py` 1604-1643 | open connections | read a line, drop an oversized one |
| Hook adapters | `claude/`, `codex/`, `grok/`, `cursor/` | none | translate and filter one agent event |
| Wire protocol | `hid_protocol.py`, firmware 234-282 | none | pack, parse, receive |
| Development tools | `fake_hooks.py`, `hid_bringup_test.py` | none | simulated sessions, board probe |

### How they interact

An adapter opens the daemon's socket and writes one line per event. The asyncio
loop runs `handle_hook_event()` for each line without awaiting inside it, so
handlers and the watcher's rounds never overlap one another. The pad's reader
thread calls `on_device_event()` for each report, and, after it reattached a
lost link, `resync_pad()`. These two threads share the daemon's tables; only
the slot manager takes a lock. A tap goes on to dispatch on the reader thread
itself, and background threads try the methods beforehand to learn which will
work. Reconcile tasks, started by the handlers on the
loop, hold `_pad_lock` and run `open()` and `close()` in worker threads. The
reader takes no lock, so it meets both. The firmware is a single loop that runs
each callback to its end; the host and the firmware exchange fixed-size reports,
and a report that cannot be delivered is dropped.

### Where it is hard, and what makes it right

* **Slot manager**: eviction on one thread against allocation on the other. The
  two tables are inverse to each other, a session never changes its slot, and
  the first free slot is given out.
* **Hook handling and watcher**: a handler keeps using the slot that it looked
  up although an eviction may have taken it away; the watcher works on a
  snapshot. The pad mirrors the sessions, a tracked call belongs to the owner of
  its slot, a guess ("stalled") never replaces a certainty ("question"), and a
  call that hangs is eventually shown.
* **Pad link**: three kinds of threads over four shared variables, a bounded
  join, other software that wants the same interface, a pad that sleeps. No
  leaked handle, one reader, no "attached" link without a handle, a pad that
  has caught up with the cache, a handle that is released when nobody works.
* **Firmware**: a remap renumbers the wire indices under which colours, timers
  and holds are stored. The wire table stays a numbering of the lit slots, the
  incrementally updated table is what a scan would build, a colour never jumps
  to another key, a hold is reported exactly of held keys, across timer wraps.
* **Startup**: the reader thread delivers keys and the handshake's answer while
  the main thread replaces the slot manager and seeds it; the pad may answer
  late, never, or drop off. Nothing an earlier daemon left on the pad survives,
  no mapping is lost to the resize, no key meets a table without its index, and
  the startup ends: at the socket, unless the link dropped between a write's check
  of the handle and its use.
* **Dispatching**: four tables that the loop writes entry by entry, that an
  eviction pops entry by entry, and into which a press or a warm-up thread stores
  what it found out seconds ago. What is recorded is where the session is, nothing
  of a session that is over is left behind, a press finds what can be found
  however stale its cached method, raises one window at most, and ends.
* **Delivery**: one connection per event, adapters that run for events of other
  agents, an agent that runs a hook after its end, a daemon that dies and comes
  back. A slot shows the last hook of its session, under the agent that runs it,
  and no session that is over comes back.
* **Wire**: bytes that share an interface with VIA. Every message means the same
  on both sides and none is taken for another.

The hazards list of `PROJECT.json` gives each of these at its line.

## Modules

| module | models |
|---|---|
| `SlotDirectory` | abstract specification: a session claims the first free slot and keeps it until it is released |
| `SlotManager` | the two tables and the four operations; implements `SlotDirectory` |
| `SlotManagerProofs` | theorems about `SlotManager` |
| `HookEvents` | the hook vocabulary and `hook_to_state()` |
| `MacropadDaemon` | hook handling, watcher, key events and replay on their two threads; extends `SlotManager` and `HookEvents` |
| `MacropadDaemonProofs` | theorems about `MacropadDaemon`, among them that it implements `SlotManager` |
| `DaemonDisplayProofs` | theorems about what `MacropadDaemon` shows, among them that its steps are those of `SessionBoard` |
| `SessionBoard` | abstract specification of the pad: owners speak, every slot gets to show what its owner said last |
| `ParallelCalls` | the daemon next to the tool calls that really run, several per session |
| `ProcessTree` | the walk from a process to its GUI application, next to a reference definition |
| `Dispatch` | the dispatch tables on the loop, the reader and the warm-up threads; extends `SlotManager` and `ProcessTree` |
| `DispatchProofs` | theorems about `Dispatch` |
| `HookDelivery` | agents, adapters, connections, the daemon's deaths, discovery and seeding; extends `SlotManager` and `HookEvents` |
| `HookDeliveryProofs` | theorems about `HookDelivery` |
| `PadLink` | the handle's life: worker, readers, reconcile tasks, VIA and the pad as environment |
| `PadLinkProofs` | theorems about `PadLink` |
| `WireProtocol` | the reports, byte by byte, on both sides |
| `PadFirmware` | slot tables, remaps, keys, holds, host messages |
| `PadFirmwareProofs` | theorems about `PadFirmware` and `PadOnWire` |
| `PadOnWire` | the firmware next to the bytes it exchanges; extends `PadFirmware` and `WireProtocol` |
| `Startup` | the main thread up to the socket, next to the reader thread and the pad |
| `StartupProofs` | theorems about `Startup` |
| `MC*` | constants for TLC |

### Correspondence

*`SlotManager`.* Each operation is one step since each holds the lock
throughout. An operation returns its slot (or session) as a parameter that the
action constrains: `Allocate(s, i)` is "`allocate(s)` returns i".

*`MacropadDaemon`.* The loop thread is the record `loop` with a program counter:
lookup/allocation, `record` (dispatch target), `track` (`pending_calls`),
`cleanup` (SessionEnd), `cache` and `write` (the two halves of `_send_pad()`).
`HookOther` is any event other than a session's start or end. The reader thread
is the record `reader` with the steps of `_evict_slot()`, of a tap, and of
`resync_pad()`. `watch` is the set of calls a watcher round has yet to
escalate. The four tables that only dispatching reads are written and popped
next to `session_projects`, which stands for them. `resync_pad()` snapshots
references to cached dictionaries, not copies: `replay` records per slot
whether the reference still is the cached entry (`Live`) or the state it had
when a clear popped it. A write checks `_dev` and uses it later, and the reader sets
it to None without a lock: `LoopWriteRaises` is the AttributeError that comes of it. It
ends the connection's handler, whose write is its last step; in a round of the
watcher it ends `watcher_task`, and with it every later round.

`intended` is a history variable: the state each session last asked for, as
long as it owned its slot when it asked. `raced` records the slots on which
both threads were at work at the same time, or for which a clear was written
into a dead link. It exists to say exactly how far the display is right: the
code has no lock there, so the invariants claim nothing of a slot in `raced`
and everything of any other. Once in, a slot stays in `raced`; the runs
without keys and without link faults never put one there, so they check the
plain statement. `SessionBoard` is that statement as a specification of its own:
`ImplementsBoard` maps `owner` to `slot_to_session`, `said` to `intended` and
`shown` to what the pad shows. A slot may change only to what its owner said last,
and weak fairness makes it do so in the end.

*`Dispatch`.* `known` holds the four tables `session_tmux_pane`, `session_tty`,
`session_projects` and `session_dispatch_method` as one record per session. `loop`
(the main thread, which seeds first and runs the handlers then) and each of
`thread` (the reader, the warm-up threads) is a record of a program counter, a
session, a record of values and a sequence of what it has yet to store or to try;
each access to a table is a step. `place` is where the session really runs,
`windows` what the desktop shows; a method finds a window of its application by its
argument or does not, and may fail although the window is there. Two histories
serve the properties: `press` (what this press raised, whether a method failed) and
`heard` (which sessions are owed a record, which spoke, moved or were learned of
too late). An eviction while a handler is at work for the very session leaves it
owed: the handler remembers it again, and no property calls that a leak. The
lookups of a press are one step: they are independent, and handlers write one
entry at a time. `ProcessTree` is the walk that the generic method relies on; its
reference definition is over all process tables of three processes, and the table
of the run, whose terminal is an application that launchd started.

*`HookDelivery`.* A hook is a step of its agent: it runs the adapters of all
agents whose hooks this agent runs, and each line that they forward is a connection.
The agents' sequences are those of `fake_hooks.py`, in the agents' own
names; an adapter gives a set of lines, empty when it drops the event. A
connection is read at any time, so lines overtake one another; lines of tools may be
too long. A handler is one step here. The daemon dies at any time, with the
connections of that moment, and starts again through discovery and seeding.
`overtaken` and `reused` name the two things that the code cannot notice, lines
read out of order and a pid that another process took; the properties say nothing
of such sessions.

*`WireProtocol`.* A report is a sequence of bytes. Reports are shorter than in the
code (`Size`): nobody looks past the fourth byte. The module has no state:
`MessagesMean` and `ReportsAreToldApart` range over its inputs. `PadOnWire` joins them
to the firmware: in every state, with the slots the pad has then, a message is stored
as `PadFirmware`'s `MsgSlot` stores it, and what the pad reports is what the daemon
reads.

*`PadLink`.* A reader has a program counter per statement of `_read_loop()`
and `_reconnect()` that reads or writes shared state; the worker likewise.
`holder` says who has the interface open, `dev` is what `_dev` refers to.
`WriteRaises` ends a reader whose own write finds None when it uses the handle.
`stale` abstracts the display: it becomes true when a state is cached that
the pad did not get, false when a replay reaches it, or when no session is left
(then nothing is cached). Discovery finds the pad if it is on the bus and
nobody holds the interface.

*`PadFirmware`.* QMK's main loop runs one callback at a time, so each callback
is a step. A LED is named by its position. `HoldThreshold` and `TimerRange` are
in scans: one scan passes per timer tick, which is the finest grain the timer
can tell apart. QMK's habit to look a key's code up again at its release
(layer cache aside) and VIA's keymap commands are external: they are modelled
as `src/` relies on them.

*`Startup`.* The main thread's program counter is the place in `serve()`:
open, ask and wait (`handshake()`), `resize` or `default` (`apply_handshake()`),
`seed` to `write` for each discovered session, `sweep` and `clear` for the
other slots, `done` once the socket opens. A write is two steps, the check of `_dev`
and its use (`ping` and `pinging`, `write` and `writing`, `clear` and `clearing`);
when the reader's reconnection empties the handle between them, the exception leaves
`serve()` (`failed`). The reader reads `self.slots` twice
per key, as `on_device_event()` does, so it may check an index against one slot
manager and use it with the next; a missing index ends the thread (`dead`). The
slot manager is its directory: the single table that `SlotManager` is shown to
implement. `Init` lets the pad show anything: a daemon that was killed cleared
nothing. `disturbed` collects the slots a key was pressed for meanwhile and
those whose clear went into a dead link; `StartsClean` claims nothing of them.

## Runs

Nine runs pass:

| run | question | bounds |
|---|---|---|
| `hooks` | every event of the sessions with the watcher, no keys: the pad implements the board, stalled calls surface, questions stay | 3 sessions, 2 slots, one event for each thing that a handler can do, threshold 1 |
| `races` | a key tapped and held, and the link lost and replayed, between any two steps of the handlers | 2 sessions, 2 slots, one key, three events, threshold 0 (any call may be overdue) |
| `dispatch` | recording, pressing, warming up, evicting and window changes between any two table accesses | 1 session, 1 slot, 1 warm-up thread, two places, windows of tmux, Terminal and an editor |
| `delivery` | hooks through the adapters while lines overtake one another or are lost and the daemon restarts | 2 sessions of two possible agents each, 1 slot, 2 connections, 1 death |
| `link_calm` | sessions come and go, VIA competes | 2 sessions, 3 waiting tasks, 2 readers |
| `link_faults` | the pad sleeps, readers are slow, keys evict | 1 session, 2 waiting tasks, 3 readers |
| `firmware_hold` | presses and releases while the timer wraps; the wire | 3 keys, 2 slots of 3, threshold 3, timer mod 5, reports of 5 bytes |
| `firmware_remap` | every remap, reset and import from every initial keymap | 3 keys, 2 lit, 2 slots |
| `startup` | answers, drops and keys between any two steps of the startup | 2 sessions, pads of 0, 1 and 3 slots, default of 2, keys 0 and 2 |

*Why the bounds are enough.* In `hooks` three sessions contend for two slots: the
pad is full, a slot is freed and goes to the session that waited. Its events start and
end a session, start a call, end it, ask a question (as a tool or not), show a state or
show nothing; an event that differs from one of these only in its state takes the
same steps. In `races` two
sessions on two slots give a freed slot to another session and re-allocate an evicted
one elsewhere; with a threshold of 0 a round of the watcher may meet every tracked
call, however young; a full pad with keys adds no table access, and the tables' properties
are proved for all sizes. The three events of `races` are the ones that reach each kind
of handler: lazy allocation with a tracked call, an event that only paints or
nothing at all, the end of the session. `SessionStart` differs from a lazy allocation
by its order of steps only; it is in `hooks`. In `dispatch` no table access of one
session touches another's entries, so one session shows every interleaving; its two
places differ in all that the methods read, one window can close, and a warm-up is as
late as it may be. The branch of a full pad is not reached there (`hooks` and `delivery`
have it). In `delivery` a session of Claude Code or Cursor (which discovery can or cannot
find) meets one of Grok or Codex (which leaves a registry entry when killed, or
nothing), with one slot for both; two connections are enough for one to overtake the
other, one death for every restart. Three readers let a slow one survive and a new one
start while a third is on its way out. The firmware's three positions give a swap,
a keycode on two keys and an unlit key. A timer range of 5 with a threshold of 3 makes
every press wrap within a few scans. `startup` has pads that are smaller and larger
than the default, one without keys, more sessions than the smallest pad has slots,
and a key that only the larger pad has.

*What is bounded.* `MaxKicks` caps waiting reconcile tasks (they are fungible:
each reads the state when it gets the lock), `Readers` caps readers alive at once,
`Warmer` the warm-up threads, `Backlog` the connections that wait, `MaxDeaths` the
restarts, `MaxSessions` the active sessions of the link. A call's age stops at the
threshold (it is only compared with it), `down` stops at the hold threshold. A session
of `HookDelivery` runs its agent's hooks once: a session that is resumed is not in it.

Deadlock is not checked where the system may come to rest: no session sends
anything, no key is pressed, startup is over.

### What the code does otherwise than it says

Three runs end in a violation. Each checks a sentence of the repository:

* `lost_clear` (658): the replay holds what is cached and a clear is not, so a
  slot freed while the link is down keeps its colour.
* `parallel_calls` (1526): one entry per session, so the end of one tool stops
  the tracking of another that still runs.
* `evict_held` (766): an eviction schedules no reconcile, so evicting the last
  session leaves the HID handle open.

A fourth sentence is as wrong, and the properties are stated so that they tell how far:
the comment at `pad_link.py` 316 says that `write_json()` and `_send_ping()` "already
no-op on None". They do when they find None at their check (226, 239). When the
reader's `_reconnect()` sets it after that check, the use (234, 242) raises an
AttributeError, and `except hid.HIDException` (235, 243) lets it pass. In `serve()` the
daemon's start fails (`MainRaises`; `StartupEnds` claims the socket only of behaviours in which no
handle was snatched). In a handler the connection is dropped after its last
step; in a reader its thread ends and the link stays up without one
(`WriteRaises`). In the watcher's round the task ends for good: no call is shown as
stalled until the daemon is restarted (`LoopWriteRaises`; `StalledCallsSurface` is checked of a
link that stays up).

Other differences are visible in the models and left out of the properties
that pass, which say so: a tracked call recorded by a handler whose
slot was just evicted (762-764 says the eviction mirrors SessionEnd's
cleanup "exactly"), the target of a session re-allocated during its eviction,
a tap that darkens a session starting on that slot (all three: `raced`); a tool
call left over from an interrupted turn, which the watcher escalates ten seconds
after its session was shown as done (`Stop` leaves `pending_calls` alone,
1517-1565: `src/README.md` promises the escalation of any unmatched call, so no
property forbids it);
`_reconnect()` reopening the pad after its last session ended, two readers after
a join that timed out, and "attached" without a handle (these three are why
`link_faults` checks `PadCaughtUp` only); in the firmware, a remap while a key
is down (`firmware_hold` runs without VIA), a slot keycode on two keys
(`doubled`) and a bulk import (`imported`); in dispatching, a session that starts
again elsewhere without an end, which keeps a pane or tty it no longer has when the new
one is empty (`moved`), and a method that a thread stores after its session's end
(`late`), which costs a later session of the same identifier one failed try.

## Fairness

`FairSpec` of `MacropadDaemon` assumes weak fairness of a handler's steps
(asyncio runs a callback to its end once started), of the watcher's round and
of time, and strong fairness of `WatchWake`: the watcher's timer is served
between hook events however many arrive, as asyncio queues expired timers in
the same ready queue as the connections' callbacks. It assumes nothing of
agents, keys, the link or the reader. `FairSpec` of `PadLink` assumes that a waiting
reconcile task eventually gets the lock, that a worker runs to its end, and that a
reader makes the steps that depend on itself; nothing of reports, of VIA, or
of the pad. `FairSpec` of `Dispatch` assumes weak fairness of the reader's steps:
every method is a subprocess call with a timeout of two or three seconds, so a step
comes to an end. `SessionBoard` states weak fairness of a slot catching up, as part
of what is promised; `MacropadDaemon` has to provide it. `FairSpec` of `Startup` assumes that the main thread runs: it
never blocks except in `handshake()`, whose wait times out. It may fail. The other runs check
safety only.

## Proofs

`tlapm` checks them in the eight modules named `*Proofs`. They hold for every set
of sessions, every number of slots, any set of events and keys, any size of pad,
keymap, timer and report, any windows, places and threads, with or without faults,
from the ASSUMEs in the modules alone, unless the theorem states a condition: of
the link's theorems the three steady ones need a pad that stays on the bus, one of
them that no held key evicts a session, the calm one also readers that answer a join in
time; two about holds need a keymap that is not remapped, the one about the board no keys
and a link that stays up, and two that count work finitely many sessions. Each run that
checks one of these properties takes place under these conditions or stronger ones.

1. *Slot tables.* `SlotTypeOK /\ TablesAgree` is inductive. From it follow
   `SlotTypeCorrect`, `SlotTablesAgree`, `SlotOwnershipStable`, and, as a step
   simulation, `SlotManagerImplementsDirectory`.
2. *The daemon implements the slot manager.* Every step of the daemon is an
   operation of the slot manager or leaves both tables alone
   (`DaemonImplementsSlots`). So `TablesAgree`, `OwnershipStable` and
   `ImplementsDirectory` hold in the daemon in every interleaving
   (`DaemonTablesAgree`, `DaemonOwnershipStable`, `DaemonImplementsDirectory`)
   and the rest of the proofs can use them. The same goes for dispatching
   (`DispatchImplementsDirectory`), with seeding, presses and warm-ups.
3. *Types.* `DaemonTypeOK` is inductive given the slot invariant. Its parts
   about the two threads say what each program counter implies; without them
   one cannot show that a thread only writes a slot that exists.
4. *A question is never repainted.* `QuestionIsKept` is an action property that
   fails to be provable from the types: the watcher writes from a snapshot.
   The strengthening `QuestionUntracked` says that a session that shows a
   question is neither tracked nor in a snapshot, that a snapshot exists only
   while the watcher is at work (so no handler runs meanwhile), and that a
   handler past its lookup still owns its slot or works for a session whose
   state the eviction has reset. It is inductive (`QuestionInvariant`), and
   `QuestionKept` follows.
5. *The display.* `DisplayMirrors` only speaks of moments between handlers, so it
   says nothing of what leads there. `DisplayInv` follows both threads from lookup to
   write. Of every slot that is not raced it says: one thread holds it (`OneThread`);
   its owner stays while a handler or a round is at work for it, and it has none while
   it is cleared (`OwnerKept`); what is about to be sent, or is replayed, is what it
   should show (`MsgRight`); cache and pad show that, or a step that is named will make
   them (`CacheRight`, `LedRight`). `UnmappedIsSilent` makes a slot dark for its next
   owner, `ThreadsPlaced` says where the threads are. A lemma per kind of step follows
   one slot; `SlotsStep` puts them together. Since every step adds to `raced` what it
   races, a slot that is not raced after a step was held by one thread after it.
   `DaemonDisplayMirrors`, `DaemonTrackedCallOwnsSlot` (with `CallsOwned`: a tracked
   call is the slot owner's, or about to be forgotten by a step that is named) and
   `DaemonMappedSessionHasTarget` (with `TargetKnown`) follow from the one invariant.
6. *The board.* Without keys and with the link up nothing is raced (`LoopAlone`), so
   the display invariant covers every slot, and every step is one of `SessionBoard`: an
   allocation or a release is `Own`, a handler that asks for a state is `Say`, a
   write is `CatchUp`, since by `MsgRight` what it sends is what the owner said last;
   the rest changes nothing on the board (`DaemonShowsBoard`). This is
   `ImplementsBoard` without its fairness.
7. *Startup.* `StartupTypeOK` is not inductive: a key could pass the check
   of its index in one slot manager and meet a smaller one, and a cached slot
   could outlive the resize. `SizedOnce` is why neither happens: up to
   the resize nothing is mapped, cached or waits to be replayed, and a key that
   passed the check is one of the pad and of the current table, so of the next
   one too. Their conjunction is inductive (`StartupInvariant`);
   `StartupTypeCorrect`, `ReaderNeverDies` and `MappingsKept` follow.
   `StartsClean` and `SeededSessionHasTarget` say nothing before startup is over:
   `CleanInv` is what leads up to them, slot by slot, from a pad that shows anything,
   with a replay of a dropped link at any point (`PadStartsClean`,
   `SeededHaveTargets`). An exception that ends the startup
   changes neither tables nor pad (`RaisingKeepsClean`).
8. *Restarts.* `NoGhostSeed` is not inductive: a slot could come from a line on its
   way, from what an earlier start discovered, or from memory. `NobodyReturns` says
   that no waiting line and no discovered session is of one that was over at the
   start, `DeadForget` that a dead daemon has neither slots nor lines; that a
   session that is over stays so (`OverStays`) closes the argument (`NoGhosts`). The
   slot tables agree through every restart (`DeliveryTablesAgree`).
9. *Delivery.* `AgentIsItsOwn`, `NoPhantom` and `ShowsLastHook` rest on what is still on
   its way and on what was forgotten at a death. `DeliveryInv` says that every line
   that waits is one that an adapter sends for a hook its agent ran (`LinesTrue`), that
   none waits of a session whose end or last hook was read in order (`EndIsTheEnd`,
   `LastIsShown`), and that only a session that has started is known at all (`OnlyTheStarted`). What an
   adapter forwards of each hook is a lemma of its own, so the argument is one for all
   four agents (`DeliveredUnderItsAgent`, `DeliveredEndIsTheEnd`, `DeliveredHookIsShown`).
10. *The handle.* `LinkTypeCorrect` holds without conditions. The properties only
    speak of settled states, so they are not inductive: `SteadyInv` says what the handle
    and the flags are at each step of `open()` and `close()`. With a pad that stays on
    the bus it is inductive, since no reader ever reconnects, however late one
    answers its join, and `SteadyHasNoLeak` and `SteadyHasHandle` follow.
    `SteadyLetsGo` adds `ClosesAfterLast`: once the last session is gone a reconcile
    waits, a close is under way, or the link is shut; a held key that evicts the last
    session breaks that (`evict_held`). That there is one reader also needs the joins
    to succeed: `HandleFollowsWorker` says which threads run at each step, and
    `CalmHasOneReader` follows from `CalmInv`. Without these conditions none of
    them is claimed (TLC finds each one violated). `LinkCatchesUp` needs none:
    `MissedIsReplayed` says that whenever a pad that can be written has missed a
    state, the worker or some reader is on its way to a replay or to take the handle
    away, however many readers a slow join has left; a replay
    that raises does so because the handle is gone, and whoever opens the next one
    replays again.
11. *Dispatching.* `Shape` says that tables and threads remain records.
    `PressRaisesOne`: between two methods of a press nothing is raised yet.
    `NothingIsLeftBehind`: of a session that is over, each entry is gone, excused as
    learned too late, or still in the sequence that the handler of its end or the
    eviction has yet to pop (`Cleared`); and a handler at work for such a session is
    the handler of its end (`LoopOwes`). `DispatchReaches`: until a method fails, each
    one that would find a window that stays open is still to be tried
    (`StillReached`); the cached method only moves to the front. `DispatchKnowsPlace`:
    the values a handler carries are those of the session's place, too (`LoopReal`), and
    a session takes a new place only with an empty slate or as one that `moved`.
    `DispatchLearnsPane`: the pane of a session that has spoken is recorded or among
    what its handler has yet to store, and no eviction at work is of such a session
    (`PaneKnown`, `EvictedIsSilent`). `PressTriesOnce`: the candidates are built
    without a repetition, the cached method included (`CandidatesOnce`), and each failed
    try takes its method off.
    *The walk.* `WalkFindsNearest` is about any process table that `ps` may tell of:
    finite and without a cycle (`ProcessTable`, which `ProcessesAssumption` states of the
    constant). The walk is a recursive function over the chain of parents, and nothing
    can be instantiated that does induction over it; the proof takes the least step that
    goes wrong instead, from the well-foundedness of the naturals (`SmallestExists`).
    Up to the first application the chain stays below every application above the start
    (`Climbing`), so the one it meets first is below all others, and if it meets none
    within its depth that many processes lie below each (`PassedBelow`).
    `DispatchOwnerIsNearest` is `AncestorIsNearest` in every state.
12. *The firmware.* `FirmwareInv` says of the tables that they are a numbering of the
    lit slots (`WireView`), and carries `LedsFollowKeymap` and `ColourStaysOnItsKey`,
    with the history of doubled keycodes. It holds under every remap, reset and import
    (`FirmwareTypeCorrect`, `FirmwareDenseAgrees`, `FirmwareLedsFollowKeymap`,
    `FirmwareColourStays`). `HoldsPending` relates a pending hold to the key that is
    down, modulo the timer's range: the subtraction that finds the elapsed time
    survives the wrap as the threshold is below that range. So
    `HoldsWhileNumberingStays` holds of every behaviour that does not renumber the
    slots, and `FirmwareHoldNeedsKey` and `FirmwareHoldIsReported` of every keymap
    built without VIA.
13. *The wire.* The bytes of each message are a lemma per message, for any size of
    report. With what the firmware ever reports (`ReportsKnown`) they give
    `FirmwareMessagesArrive` and `FirmwareNothingIsMistaken`.
14. *What liveness comes down to.* Of each liveness property the part without
    fairness is proved: what is left to do is counted by a natural number, or by a stage
    and a number, which every step of the thread in question lowers, which no other
    step raises, and which is zero only when the work is done. For a press and a hold
    that is `ReaderComesBack` (ten steps at most, whatever is cached and however many
    windows there are); for a handler and a round of the watcher `LoopComesBack` (three
    steps for each call that the round has left, since it has one call per session,
    `RoundInv`; an exception ends either at once); for the startup `ServeAdvances` (the
    sessions to seed, then the slots to sweep, while the reader thread empties slots and
    the link drops). What `ServeAdvances` counts ends at the socket or in an exception,
    and only a handle emptied between its check and its use raises one.
    `StalledCallGoesOut` says what the loop's steps lead to: an overdue call ends, is
    replaced, or is cached and written for its own session's slot, as long as the
    watcher's task runs. `SteadyLetsGo` says
    where the link comes to rest. What TLC adds to these is that, under the
    fairness stated, the steps are taken.

Only model-checked: the liveness properties themselves (`StalledCallsSurface`,
`HandleReleased`, `DispatchEnds`, `StartupEnds`) and the fairness of `ImplementsBoard`,
since neither liveness under fairness nor ENABLED is within the prover's reach. What the
three runs that end in a violation check is false: `OpenCallIsTracked`,
`FreedSlotIsDark`, and `HandleReleased` of a link whose held keys evict.

## Not modelled

* The shutdown signal handler: it closes the link and leaves the process; what
  it leaves on the pad is an initial state of `Startup`.
* Labels, logging, brightness and blinking: no property is about them.
* JSON, lines without a session and several lines on one connection: the adapters
  send one well-formed line per connection.
* What a dispatch method does inside: AppleScript, `tmux` and `ps`. A method finds a
  window, does not, or fails.
* A method that stays cached although a better one works again (814): the code
  calls the cache a hint and ranks nothing beyond it.
* The slot count of a pad that is remapped or plugged in while the daemon runs: it is
  asked once (1753), and the documentation has the user restart.
* A session that ends between its discovery and the opening of the socket (1777):
  its end is lost, as any event sent while no daemon listens.
* The watcher in `HookDelivery`: it is in `MacropadDaemon`, where its races are.
* The firmware's per-board LED override: nothing calls it. The bring-up test keeps no
  state.

## Plan

In the order of their weight:

1. **Startup and firmware** (`StartupOnPad`): `Startup` composed with the
   firmware's slot count and with a pad that is attached after a headless start.
2. **Sessions that are resumed** in `HookDelivery`, with the old entries that
   `Dispatch` keeps of them.
3. Proofs: what remains right of a slot in `raced`, for which the model needs a history
   of what was repaired (the next event repaints the slot, but a call that was tracked
   in the race stays tracked), and what a hold needs when the keymap is remapped
   under a key that is down.
