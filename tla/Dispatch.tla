-------------------------------- MODULE Dispatch --------------------------------
(* daemon.py's dispatching: a tapped key brings its session's window to the    *)
(* front by the first of six methods that finds it.                            *)
(*                                                                             *)
(* The asyncio loop records where a session runs, the reader thread tries the  *)
(* methods, and background threads try them beforehand without raising         *)
(* anything, to learn which one will work.  No lock guards the tables they     *)
(* share, so each access to one is a step of its own.  Displays are left to    *)
(* MacropadDaemon; the two share SlotManager.                                  *)
EXTENDS SlotManager, ProcessTree, Sequences, FiniteSets

CONSTANTS
    Place,      \* where a session may run: [pane, tty, project], None for what it lacks
    None,       \* an absent entry, an empty field
    Window,     \* the windows that may be open: [app, holds]
    Staying,    \* those that stay open
    Processes,  \* the process table gui_app_ancestor_pid() walks
    OnTty,      \* tty -> the process attached to it while its window is open
    Warmer,     \* at most this many warm-up threads at once
    Seeded      \* sessions that seed_existing_sessions() discovers

ASSUME PlaceAssumption ==
    \A p \in Place : DOMAIN p = {"pane", "tty", "project"} /\ p.project # None
ASSUME StayingAssumption == Staying \subseteq Window
ASSUME ProcessesAssumption ==
    ProcessTable(Processes) /\ \A tty \in DOMAIN OnTty : OnTty[tty] \in DOMAIN Processes.parent
ASSUME SeededAssumption == Seeded \subseteq Session
ASSUME WarmerAssumption == "reader" \notin Warmer

VARIABLES
    known,      \* session -> [pane, tty, project, method]: the daemon's four tables
    unseeded,   \* discovered sessions the main thread has yet to seed
    loop,       \* the main thread: seeding first, then the hook handlers
    thread,     \* the reader and the warm-up threads
    place,      \* session -> where it really runs
    windows,    \* the windows that are open
    press,      \* history: what the last press met, see Try
    heard       \* history: who reported what, see Heard

daemonVars == <<slotVars, known, unseeded, loop, thread>>
vars == <<daemonVars, place, windows, press, heard>>

(* What SessionEnd and an eviction pop, in this order.                         *)
(* Mutant: session_tmux_pane is left behind.                                 *)
EntriesButPane == <<"tty", "project", "method">>

Entries == <<"pane", "tty", "project", "method">>

Nothing == [pane |-> None, tty |-> None, project |-> None, method |-> None]

(* _dispatch_candidates(): the methods in their fallback order, each with the  *)
(* entry that it takes for an argument.                                        *)
Chain == <<"tmux", "terminal", "iterm", "generic_gui", "vscode", "intellij">>
Method == {Chain[k] : k \in 1 .. Len(Chain)}

Argument ==
    [tmux |-> "pane", terminal |-> "tty", iterm |-> "tty", generic_gui |-> "tty",
     vscode |-> "project", intellij |-> "project"]

Threads == {"reader"} \cup Warmer

reader == thread["reader"]

(* A thread works for a session through a sequence: entries to read or to      *)
(* write, or methods to try.                                                   *)
Work(pc, session, values, todo) ==
    [pc |-> pc, session |-> session, values |-> values, todo |-> todo]

Idle == Work("idle", NoSession, Nothing, <<>>)

NoPress == [raised |-> {}, faulty |-> FALSE]

(* owed: sessions the daemon has reason to remember.  spoke: those that sent   *)
(* an ordinary event since they got their slot.  moved: those that started     *)
(* again elsewhere without an end.  late: those a thread stored a method for   *)
(* when they were owed nothing any more.                                       *)
NobodyHeard == [owed |-> {}, spoke |-> {}, moved |-> {}, late |-> {}]

Forgotten(s) ==
    [owed |-> heard.owed \ {s}, spoke |-> heard.spoke \ {s}, moved |-> heard.moved \ {s},
     late |-> heard.late \ {s}]

Init ==
    /\ SlotInit
    /\ known = [s \in Session |-> Nothing]
    /\ unseeded = Seeded
    /\ loop = Idle
    /\ thread = [t \in Threads |-> Idle]
    /\ place \in [Session -> Place]
    /\ windows = Window
    /\ press = NoPress
    /\ heard = NobodyHeard

--------------------------------------------------------------------------------
(* What the six methods find among the windows that are open.                  *)

Holds(open, app, what) == \E w \in open : w.app = app /\ what \in w.holds

dispatch_tmux(open, pane) == Holds(open, "tmux", pane)

dispatch_terminal(open, tty) == Holds(open, "Terminal", tty)

dispatch_iterm(open, tty) == Holds(open, "iTerm2", tty)

(* Coarse: any window of the application that owns the process on the tty.     *)
OwnerOf == [tty \in DOMAIN OnTty |-> gui_app_ancestor_pid(Processes, OnTty[tty])]

dispatch_generic_gui(open, tty) ==
    OwnerOf[tty] # NoPid /\ \E w \in open : tty \in w.holds

(* By a title that contains the project's name.                                *)
dispatch_vscode(open, project) == Holds(open, "Code", project)

dispatch_intellij(open, project) == Holds(open, "idea", project)

FindsAmong(open, method, arg) ==
    /\ arg # None
    /\ CASE method = "tmux" -> dispatch_tmux(open, arg)
         [] method = "terminal" -> dispatch_terminal(open, arg)
         [] method = "iterm" -> dispatch_iterm(open, arg)
         [] method = "generic_gui" -> dispatch_generic_gui(open, arg)
         [] method = "vscode" -> dispatch_vscode(open, arg)
         [] method = "intellij" -> dispatch_intellij(open, arg)

Finds(method, entries) == FindsAmong(windows, method, entries[Argument[method]])

--------------------------------------------------------------------------------
(* The main thread.  pc: "write" stores entries, "backfill" decides about the  *)
(* pane once the lazy entries are stored, "warm" starts a warm-up when done.   *)

(* The entry e, unless p has nothing for it.                                   *)
Given(p, e) == IF p[e] = None THEN <<>> ELSE <<e>>

Stored(p) == [pane |-> p.pane, tty |-> p.tty, project |-> p.project, method |-> None]

Working(s) == loop.pc # "idle" /\ loop.session = s

Handler(s, pc, p, entries) ==
    loop' = Work(pc, s, Stored(p), entries)

(* seed_existing_sessions(): the project, then what ps and tmux tell of the    *)
(* session's process, as far as they answer.                                   *)
Seed(s) ==
    /\ loop.pc = "idle"
    /\ s \in unseeded
    /\ unseeded' = unseeded \ {s}
    /\ \E i \in Slots \cup {NoSlot}, tty \in {None, place[s].tty}, pane \in {None, place[s].pane} :
          /\ Allocate(s, i)
          /\ tty = None => pane = None
          /\ IF i = NoSlot THEN UNCHANGED <<loop, heard>>
             ELSE /\ Handler(s, "warm", [pane |-> pane, tty |-> tty, project |-> place[s].project],
                             <<"project">> \o Given([tty |-> tty], "tty")
                                           \o Given([pane |-> pane], "pane"))
                  /\ heard' = [heard EXCEPT !.owed = @ \cup {s}]
    /\ UNCHANGED <<known, thread, place, windows, press>>

HookSessionStart(s) ==
    /\ loop.pc = "idle"
    /\ unseeded = {}
    /\ \E i \in Slots \cup {NoSlot}, p \in Place :
          /\ Allocate(s, i)
          /\ Handler(s, IF i = NoSlot THEN "write" ELSE "warm", p,
                     Given(p, "pane") \o Given(p, "tty") \o Given(p, "project"))
          /\ place' = [place EXCEPT ![s] = p]
          /\ heard' = [owed |-> heard.owed \cup {s}, spoke |-> heard.spoke, late |-> heard.late,
                       moved |-> IF s \in heard.owed /\ p # place[s]
                                 THEN heard.moved \cup {s} ELSE heard.moved]
    /\ UNCHANGED <<known, unseeded, thread, windows, press>>

HookSessionEnd(s) ==
    /\ loop.pc = "idle"
    /\ unseeded = {}
    /\ \E i \in Slots \cup {NoSlot} : Free(s, i)
    /\ loop' = Work("write", s, Nothing, Entries)
    /\ heard' = Forgotten(s)
    /\ UNCHANGED <<known, unseeded, thread, place, windows, press>>

(* Any other event; it carries the pane and the project, never the tty.        *)
HookOther(s) ==
    /\ loop.pc = "idle"
    /\ unseeded = {}
    /\ \E i \in Slots :
          /\ Allocate(s, i)
          /\ Handler(s, IF Mapped(s) THEN "backfill" ELSE "lazy", place[s],
                     IF Mapped(s) THEN <<>> ELSE <<"project">>)
    /\ heard' = [owed |-> heard.owed \cup {s}, moved |-> heard.moved, late |-> heard.late,
                 spoke |-> IF reader.session = s /\ reader.pc = "forget"
                           THEN heard.spoke ELSE heard.spoke \cup {s}]
    /\ UNCHANGED <<known, unseeded, thread, place, windows, press>>

LoopStore ==
    /\ loop.todo # <<>>
    /\ known' = [known EXCEPT ![loop.session][Head(loop.todo)] = loop.values[Head(loop.todo)]]
    /\ loop' = IF loop.pc = "write" /\ Len(loop.todo) = 1 THEN Idle
               ELSE [loop EXCEPT !.todo = Tail(@)]
    /\ UNCHANGED <<slotVars, unseeded, thread, place, windows, press, heard>>

(* The pane of the first event that has one, also for a session that got its   *)
(* slot without.                                                               *)
(* Mutant: only for a session just discovered.                                 *)
PaneIfNew ==
    IF loop.pc = "lazy" /\ known[loop.session].pane = None THEN Given(loop.values, "pane")
    ELSE <<>>

MissingPane ==
    IF known[loop.session].pane = None THEN Given(loop.values, "pane") ELSE <<>>

LoopBackfill ==
    /\ loop.pc \in {"lazy", "backfill"}
    /\ loop.todo = <<>>
    /\ loop' = CASE loop.pc = "lazy" -> Work("warm", loop.session, loop.values, MissingPane)
                 [] loop.pc = "backfill" /\ MissingPane # <<>> ->
                        Work("write", loop.session, loop.values, MissingPane)
                 [] OTHER -> Idle
    /\ UNCHANGED <<slotVars, known, unseeded, thread, place, windows, press, heard>>

Becomes(t, record) == thread' = [thread EXCEPT ![t] = record]

(* _spawn_dispatch_cache_warmup().                                             *)
LoopSpawn ==
    /\ loop.pc = "warm"
    /\ loop.todo = <<>>
    /\ \E t \in Warmer :
          /\ thread[t].pc = "idle"
          /\ Becomes(t, Work("probe", loop.session, Nothing, <<>>))
    /\ loop' = Idle
    /\ UNCHANGED <<slotVars, known, unseeded, place, windows, press, heard>>

--------------------------------------------------------------------------------
(* dispatch_bring_to_front() on the reader.  The lookups are one step: they    *)
(* are independent of one another, and handlers write one entry at a time, so  *)
(* a press still meets every half-written record.                              *)

KeyTap(i) ==
    /\ reader.pc = "idle"
    /\ slot_to_session[i] # NoSession
    /\ Becomes("reader", Work("read", slot_to_session[i], Nothing, <<>>))
    /\ UNCHANGED <<slotVars, known, unseeded, loop, place, windows, press, heard>>

(* The method that worked last goes first, the others keep their order, and    *)
(* those without an argument are passed over.                                  *)
(* Mutant: the cached method is tried alone.                                   *)
CachedOnly(entries) ==
    IF entries.method = None THEN SelectSeq(Chain, LAMBDA m : entries[Argument[m]] # None)
    ELSE <<entries.method>>

Candidates(entries) ==
    LET Takes(m) == entries[Argument[m]] # None
        first == IF entries.method \in Method /\ Takes(entries.method) THEN <<entries.method>>
                 ELSE <<>>
        Then(m) == IF m # entries.method /\ Takes(m) THEN <<m>> ELSE <<>>
    IN first \o Then("tmux") \o Then("terminal") \o Then("iterm")
             \o Then("generic_gui") \o Then("vscode") \o Then("intellij")

PressReads ==
    /\ reader.pc = "read"
    /\ LET entries == known[reader.session]
       IN Becomes("reader", Work("try", reader.session, [entries EXCEPT !.method = None],
                                 Candidates(entries)))
    /\ UNCHANGED <<slotVars, known, unseeded, loop, place, windows, press, heard>>

Trying == reader.pc = "try" /\ reader.todo # <<>>

Tried == Head(reader.todo)

TriedFinds == Finds(Tried, reader.values)

(* Mutant: a method that succeeded does not end the press.                     *)
RaisesAndGoesOn ==
    /\ Trying
    /\ TriedFinds
    /\ Becomes("reader", IF Len(reader.todo) = 1 THEN [reader EXCEPT !.pc = "learn"]
                         ELSE [reader EXCEPT !.todo = Tail(@)])
    /\ press' = [press EXCEPT !.raised = @ \cup {Tried}]
    /\ UNCHANGED <<slotVars, known, unseeded, loop, place, windows, heard>>

TriedRaises ==
    /\ Trying
    /\ TriedFinds
    /\ Becomes("reader", Work("learn", reader.session, Nothing, <<Tried>>))
    /\ press' = [raised |-> press.raised \cup {Tried}, faulty |-> FALSE]
    /\ UNCHANGED <<slotVars, known, unseeded, loop, place, windows, heard>>

TriedMisses ==
    /\ Trying
    /\ ~ TriedFinds
    /\ Becomes("reader", [reader EXCEPT !.todo = Tail(@)])
    /\ UNCHANGED <<slotVars, known, unseeded, loop, place, windows, press, heard>>

(* A subprocess that times out, is refused a permission or is missing fails    *)
(* although the window is there.                                               *)
(* Mutant: the failed method is tried again after the others.                  *)
FailsAndRetries ==
    /\ Trying
    /\ TriedFinds
    /\ Becomes("reader", [reader EXCEPT !.todo = Append(Tail(@), Tried)])
    /\ press' = [press EXCEPT !.faulty = TRUE]
    /\ UNCHANGED <<slotVars, known, unseeded, loop, place, windows, heard>>

TriedFails ==
    /\ Trying
    /\ TriedFinds
    /\ Becomes("reader", [reader EXCEPT !.todo = Tail(@)])
    /\ press' = [press EXCEPT !.faulty = TRUE]
    /\ UNCHANGED <<slotVars, known, unseeded, loop, place, windows, heard>>

PressGivesUp ==
    /\ reader.pc = "try"
    /\ reader.todo = <<>>
    /\ Becomes("reader", Idle)
    /\ press' = NoPress
    /\ UNCHANGED <<slotVars, known, unseeded, loop, place, windows, heard>>

(* What worked is stored, for a session that may be gone by now.               *)
Learns(t, method) ==
    /\ known' = [known EXCEPT ![thread[t].session].method = method]
    /\ Becomes(t, Idle)
    /\ heard' = IF thread[t].session \in heard.owed THEN heard
                ELSE [heard EXCEPT !.late = @ \cup {thread[t].session}]

PressLearns ==
    /\ reader.pc = "learn"
    /\ Learns("reader", Tried)
    /\ press' = NoPress
    /\ UNCHANGED <<slotVars, unseeded, loop, place, windows>>

--------------------------------------------------------------------------------
(* warm_dispatch_cache() on a thread t of its own.  The methods it probes      *)
(* before the one that answers leave no trace, whether they miss or fail, so   *)
(* one step stands for them all; the answer may be stored long after.          *)

ProbeFinds(t) ==
    /\ thread[t].pc = "probe"
    /\ \E m \in Method :
          /\ Finds(m, known[thread[t].session])
          /\ Becomes(t, Work("learn", thread[t].session, Nothing, <<m>>))
    /\ UNCHANGED <<slotVars, known, unseeded, loop, place, windows, press, heard>>

ProbeGivesUp(t) ==
    /\ thread[t].pc = "probe"
    /\ Becomes(t, Idle)
    /\ UNCHANGED <<slotVars, known, unseeded, loop, place, windows, press, heard>>

WarmLearns(t) ==
    /\ thread[t].pc = "learn"
    /\ Learns(t, Head(thread[t].todo))
    /\ UNCHANGED <<slotVars, unseeded, loop, place, windows, press>>

--------------------------------------------------------------------------------
(* _evict_slot().                                                              *)
KeyHeld(i) ==
    /\ reader.pc = "idle"
    /\ \E s \in Session :
          /\ Evict(i, s)
          /\ Becomes("reader", Work("forget", s, Nothing, Entries))
          /\ heard' = IF Working(s) THEN [heard EXCEPT !.spoke = @ \ {s}] ELSE Forgotten(s)
    /\ UNCHANGED <<known, unseeded, loop, place, windows, press>>

ReaderForgets ==
    /\ reader.pc = "forget"
    /\ known' = [known EXCEPT ![reader.session][Head(reader.todo)] = None]
    /\ Becomes("reader", IF Len(reader.todo) = 1 THEN Idle ELSE [reader EXCEPT !.todo = Tail(@)])
    /\ UNCHANGED <<slotVars, unseeded, loop, place, windows, press, heard>>

(* The user opens and closes windows.                                          *)
DesktopChanges(w) ==
    /\ windows' = IF w \in windows THEN windows \ {w} ELSE windows \cup {w}
    /\ UNCHANGED <<daemonVars, place, press, heard>>

--------------------------------------------------------------------------------
LoopStep ==
    \/ \E s \in Session : Seed(s) \/ HookSessionStart(s) \/ HookSessionEnd(s) \/ HookOther(s)
    \/ LoopStore
    \/ LoopBackfill
    \/ LoopSpawn

ReaderStep ==
    \/ PressReads
    \/ TriedRaises
    \/ TriedMisses
    \/ TriedFails
    \/ PressGivesUp
    \/ PressLearns
    \/ ReaderForgets

WarmerStep(t) ==
    \/ ProbeFinds(t)
    \/ ProbeGivesUp(t)
    \/ WarmLearns(t)

Next ==
    \/ LoopStep
    \/ ReaderStep
    \/ \E t \in Warmer : WarmerStep(t)
    \/ \E i \in Slots : KeyTap(i) \/ KeyHeld(i)
    \/ \E w \in Window \ Staying : DesktopChanges(w)

(* Every subprocess is given two or three seconds, then it is abandoned.       *)
Spec == Init /\ [][Next]_vars

FairSpec == Spec /\ WF_vars(ReaderStep)

--------------------------------------------------------------------------------
(* While no handler and no eviction is under way the four tables hold nothing  *)
(* of a session that is over, be it ended or evicted: what they hold would be  *)
(* served to a later session of the same identifier.  Only a warm-up or a      *)
(* press that was still looking may add its method afterwards.                 *)
Settled == loop.pc = "idle" /\ reader.pc # "forget"

NothingLingers ==
    Settled => \A s \in Session \ heard.owed :
        known[s] = [Nothing EXCEPT !.method = IF s \in heard.late THEN known[s].method ELSE None]

(* The recorded pane and tty are where the session is, in every interleaving   *)
(* of handlers, evictions and threads.  The exception is a session that starts *)
(* again elsewhere without having ended: an empty pane or tty does not replace *)
(* an old one.                                                                 *)
KnownPlaceIsReal ==
    Settled => \A s \in Session \ heard.moved :
        /\ known[s].pane \in {None, place[s].pane}
        /\ known[s].tty \in {None, place[s].tty}

(* A session that owns a slot and has spoken is known by its pane, also when   *)
(* it was seeded without one.                                                  *)
PaneIsLearned ==
    Settled => \A s \in heard.spoke : Mapped(s) => (place[s].pane # None => known[s].pane # None)

(* A press gives up only when a method failed or nothing it knew of could be   *)
(* reached: a window that stays open is found, however stale the cached method *)
(* is and whatever other threads store and the user closes meanwhile.          *)
ReachableIsRaised ==
    reader.pc = "try" /\ reader.todo = <<>> /\ ~ press.faulty =>
        \A m \in Method : ~ FindsAmong(Staying, m, reader.values[Argument[m]])

(* The methods that succeed bring one window to the front per press, and none  *)
(* without a press: a warm-up only looks.                                      *)
OneWindowPerPress ==
    /\ Cardinality(press.raised) <= 1
    /\ reader.pc = "idle" => press.raised = {}

OwnerIsNearest == [tty \in DOMAIN OnTty |-> IsNearest(Processes, OnTty[tty], OwnerOf[tty])]

(* The application a known terminal is taken to belong to is the nearest one   *)
(* above its process, however close to launchd it is: a terminal started from  *)
(* another one's window is not taken for that other one.  The walk finds it in *)
(* the table of processes a press meets as in any other one.                   *)
AncestorIsNearest ==
    /\ \A s \in Session : known[s].tty \in DOMAIN OnTty => OwnerIsNearest[known[s].tty]
    /\ WalkIsNearest

(* A press does not keep the reader from reading the pad for good, whatever    *)
(* handlers, warm-ups and the user do to what it looks at meanwhile: the       *)
(* reader always gets back to it.                                              *)
DispatchEnds == []<>(reader.pc = "idle")

================================================================================
