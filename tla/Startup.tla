--------------------------------- MODULE Startup ---------------------------------
(* The daemon's first seconds: serve() opens the pad, asks how many slots it   *)
(* has, seeds the sessions that are already running and clears the rest, all   *)
(* before the socket accepts a hook event.  The reader thread that open()      *)
(* started runs meanwhile: it delivers the pad's answer, obeys its keys, and   *)
(* reattaches it.                                                              *)
(*                                                                             *)
(* The slot manager is its directory here (which SlotManager implements): one  *)
(* table from the slots it was built with to their owners.                     *)
EXTENDS Integers

CONSTANTS
    Session,    \* sessions that may be running when the daemon starts
    NoSession,
    PadSizes,   \* slot counts of the pads that may be plugged in
    NUM_SLOTS,  \* the slot count assumed of a pad that does not answer
    Keys,       \* slots whose keys the user presses during the startup
    LinkFaults  \* may the HID link drop during the startup?

ASSUME StartupSessions == NoSession \notin Session
ASSUME StartupSizes == PadSizes \subseteq Nat /\ NUM_SLOTS \in Nat
ASSUME StartupInputs == Keys \subseteq Nat /\ LinkFaults \in BOOLEAN

VARIABLES
    pad_slots,         \* external: the slots of the pad
    led,               \* external: what the pad shows
    link,              \* "none" before open() and headless, "up", "down", "lost"
    hello,             \* external: an answer is on its way to the host
    main,              \* serve() on the main thread
    hello_event,       \* _hello_event, set with _last_hello
    running,           \* discovered sessions that have yet to be seeded
    slots,             \* the SlotManager
    session_projects,  \* sessions with a dispatch target recorded
    pad_state,         \* slots with a cached entry, all of them "idle"
    reader,            \* the reader thread
    replay,            \* slots resync_pad() has yet to replay
    disturbed          \* history: slots keyed meanwhile, or whose clear was lost

padVars == <<pad_slots, led, link, hello>>
tableVars == <<slots, session_projects, pad_state>>
mainVars == <<main, hello_event, running>>
readerVars == <<reader, replay>>
vars == <<padVars, tableVars, mainVars, readerVars, disturbed>>

States == {"off", "idle", "working"}

NoSlot == -1

FreshSlots(n) == [i \in 0 .. (n - 1) |-> NoSession]

At(pc) == [pc |-> pc, i |-> NoSlot, session |-> NoSession]

(* An earlier daemon, ended or killed, may have left any display behind.       *)
Init ==
    /\ pad_slots \in PadSizes
    /\ led \in [0 .. (pad_slots - 1) -> States]
    /\ link = "none"
    /\ hello = FALSE
    /\ main = At("open")
    /\ hello_event = FALSE
    /\ running \in SUBSET Session
    /\ slots = FreshSlots(NUM_SLOTS)
    /\ session_projects = {}
    /\ pad_state = {}
    /\ reader = At("off")
    /\ replay = {}
    /\ disturbed = {}

(* _dev is not None: from open() until _reconnect() empties it.                *)
HasDev == link \in {"up", "down"}

(* _dev.write(): a dead handle raises HIDException, which is caught, and the   *)
(* firmware drops the report when the pad has no such slot.                    *)
Write(i, state) ==
    led' = IF link = "up" /\ i \in DOMAIN led THEN [led EXCEPT ![i] = state] ELSE led

--------------------------------------------------------------------------------
(* serve() up to the socket, on the main thread.                               *)

MainOpen ==
    /\ main.pc = "open"
    /\ \/ link' = "up" /\ reader' = At("idle")
       \/ UNCHANGED <<link, reader>>
    /\ main' = At("ask")
    /\ UNCHANGED <<pad_slots, led, hello, tableVars, hello_event, running, replay, disturbed>>

(* handshake(): nothing to ask when headless or reconnecting.                  *)
MainAsk ==
    /\ main.pc = "ask"
    /\ main' = IF link \in {"up", "down"} THEN At("ping") ELSE At("default")
    /\ hello_event' = FALSE
    /\ UNCHANGED <<padVars, tableVars, running, readerVars, disturbed>>

(* _send_ping() and write_json() look at _dev twice, to see whether it is None *)
(* and to write to it, and the reader's _reconnect() takes no lock in between. *)
MainPing ==
    /\ main.pc = "ping"
    /\ main' = At(IF HasDev THEN "pinging" ELSE "wait")
    /\ UNCHANGED <<padVars, tableVars, hello_event, running, readerVars, disturbed>>

MainPinging ==
    /\ main.pc = "pinging"
    /\ HasDev
    /\ hello' = (link = "up")
    /\ main' = At("wait")
    /\ UNCHANGED <<pad_slots, led, link, tableVars, hello_event, running, readerVars, disturbed>>

(* A _dev that was emptied meanwhile: the AttributeError is no HIDException,   *)
(* leaves serve() and ends the process, with its reader and its handle.        *)
Using == main.pc \in {"pinging", "writing", "clearing"}

MainRaises ==
    /\ Using
    /\ ~ HasDev
    /\ main' = At("failed")
    /\ link' = "none"
    /\ hello' = FALSE
    /\ reader' = At("off")
    /\ replay' = {}
    /\ UNCHANGED <<pad_slots, led, tableVars, hello_event, running, disturbed>>

(* Mutant: a wait without a timeout.                                           *)
WaitForever ==
    /\ main.pc = "wait"
    /\ hello_event
    /\ main' = At("resize")
    /\ UNCHANGED <<padVars, tableVars, hello_event, running, readerVars, disturbed>>

MainWait ==
    /\ main.pc = "wait"
    /\ main' = IF hello_event THEN At("resize") ELSE At("default")
    /\ UNCHANGED <<padVars, tableVars, hello_event, running, readerVars, disturbed>>

(* apply_handshake(): a slot count of zero counts as no answer.                *)
MainResize ==
    /\ main.pc = "resize"
    /\ slots' = IF pad_slots > 0 THEN FreshSlots(pad_slots) ELSE slots
    /\ main' = At("seed")
    /\ UNCHANGED <<padVars, session_projects, pad_state, hello_event, running, readerVars, disturbed>>

MainDefault ==
    /\ main.pc = "default"
    /\ main' = At("seed")
    /\ UNCHANGED <<padVars, tableVars, hello_event, running, readerVars, disturbed>>

(* seed_existing_sessions(), one session at a time: the first free slot, the   *)
(* target, the cache, the pad.                                                 *)
Unowned == {i \in DOMAIN slots : slots[i] = NoSession}

MainSeed(s) ==
    /\ main.pc = "seed"
    /\ s \in running
    /\ running' = running \ {s}
    /\ IF Unowned = {}
       THEN UNCHANGED <<slots, main>>
       ELSE \E i \in Unowned :
               /\ \A j \in Unowned : i <= j
               /\ slots' = [slots EXCEPT ![i] = s]
               /\ main' = [pc |-> "record", i |-> i, session |-> s]
    /\ UNCHANGED <<padVars, session_projects, pad_state, hello_event, readerVars, disturbed>>

(* Mutant: a seeded session without a target.                                  *)
SeedWithoutTarget ==
    /\ main.pc = "record"
    /\ main' = [main EXCEPT !.pc = "cache"]
    /\ UNCHANGED <<padVars, tableVars, hello_event, running, readerVars, disturbed>>

MainRecord ==
    /\ main.pc = "record"
    /\ session_projects' = session_projects \cup {main.session}
    /\ main' = [main EXCEPT !.pc = "cache"]
    /\ UNCHANGED <<padVars, slots, pad_state, hello_event, running, readerVars, disturbed>>

MainCache ==
    /\ main.pc = "cache"
    /\ pad_state' = pad_state \cup {main.i}
    /\ main' = [main EXCEPT !.pc = "write"]
    /\ UNCHANGED <<padVars, slots, session_projects, hello_event, running, readerVars, disturbed>>

MainWrite ==
    /\ main.pc = "write"
    /\ main' = IF HasDev THEN [main EXCEPT !.pc = "writing"] ELSE At("seed")
    /\ UNCHANGED <<padVars, tableVars, hello_event, running, readerVars, disturbed>>

MainWriting ==
    /\ main.pc = "writing"
    /\ HasDev
    /\ Write(main.i, "idle")
    /\ main' = At("seed")
    /\ UNCHANGED <<pad_slots, link, hello, tableVars, hello_event, running, readerVars, disturbed>>

(* Mutant: the seeding without its final loop over the unclaimed slots.        *)
SeededLeavesRest ==
    /\ main.pc = "seed"
    /\ running = {}
    /\ main' = At("done")
    /\ UNCHANGED <<padVars, tableVars, hello_event, running, readerVars, disturbed>>

MainSeeded ==
    /\ main.pc = "seed"
    /\ running = {}
    /\ main' = [At("sweep") EXCEPT !.i = 0]
    /\ UNCHANGED <<padVars, tableVars, hello_event, running, readerVars, disturbed>>

(* The loop over the other slots clears each that has no owner.                *)
MainSweep ==
    /\ main.pc = "sweep"
    /\ main.i \in DOMAIN slots
    /\ IF slots[main.i] = NoSession
       THEN /\ pad_state' = pad_state \ {main.i}
            /\ main' = [main EXCEPT !.pc = "clear"]
       ELSE /\ main' = [main EXCEPT !.i = @ + 1]
            /\ UNCHANGED pad_state
    /\ UNCHANGED <<padVars, slots, session_projects, hello_event, running, readerVars, disturbed>>

MainClear ==
    /\ main.pc = "clear"
    /\ IF HasDev
       THEN /\ main' = [main EXCEPT !.pc = "clearing"]
            /\ UNCHANGED disturbed
       ELSE /\ main' = [main EXCEPT !.pc = "sweep", !.i = @ + 1]
            /\ disturbed' = disturbed \cup {main.i}
    /\ UNCHANGED <<padVars, tableVars, hello_event, running, readerVars>>

MainClearing ==
    /\ main.pc = "clearing"
    /\ HasDev
    /\ Write(main.i, "off")
    /\ disturbed' = IF link = "up" THEN disturbed ELSE disturbed \cup {main.i}
    /\ main' = [main EXCEPT !.pc = "sweep", !.i = @ + 1]
    /\ UNCHANGED <<pad_slots, link, hello, tableVars, hello_event, running, readerVars>>

(* Mutant: another handshake once the sessions are seeded.                     *)
ServeAsksAgain ==
    /\ main.pc = "sweep"
    /\ main.i \notin DOMAIN slots
    /\ main' = At("ask")
    /\ UNCHANGED <<padVars, tableVars, hello_event, running, readerVars, disturbed>>

MainServe ==
    /\ main.pc = "sweep"
    /\ main.i \notin DOMAIN slots
    /\ main' = At("done")
    /\ UNCHANGED <<padVars, tableVars, hello_event, running, readerVars, disturbed>>

--------------------------------------------------------------------------------
(* The reader thread: the pad's answer, a tap, a hold.  on_device_event()      *)
(* looks at self.slots twice, and the main thread may replace it in between.   *)

ReaderHello ==
    /\ reader.pc = "idle"
    /\ link = "up"
    /\ hello
    /\ hello' = FALSE
    /\ hello_event' = TRUE
    /\ UNCHANGED <<pad_slots, led, link, tableVars, main, running, readerVars, disturbed>>

(* Mutant: an index compared with one slot too many.                           *)
KeyAlmostInRange(i, then) ==
    /\ reader.pc = "idle"
    /\ link = "up"
    /\ i < pad_slots
    /\ disturbed' = disturbed \cup {i}
    /\ reader' = IF i - 1 \in {-1} \cup DOMAIN slots THEN [At(then) EXCEPT !.i = i] ELSE reader
    /\ UNCHANGED <<padVars, tableVars, mainVars, replay>>

KeyInRange(i, then) ==
    /\ reader.pc = "idle"
    /\ link = "up"
    /\ i < pad_slots
    /\ disturbed' = disturbed \cup {i}
    /\ reader' = IF i \in DOMAIN slots THEN [At(then) EXCEPT !.i = i] ELSE reader
    /\ UNCHANGED <<padVars, tableVars, mainVars, replay>>

(* An index the list does not have is an IndexError that ends the thread.      *)
ReaderTapped ==
    /\ reader.pc = "tapped"
    /\ reader' = IF reader.i \notin DOMAIN slots THEN At("dead")
                 ELSE [reader EXCEPT !.pc = IF slots[reader.i] = NoSession THEN "cache" ELSE "dispatch"]
    /\ UNCHANGED <<padVars, tableVars, mainVars, replay, disturbed>>

ReaderDispatch ==
    /\ reader.pc = "dispatch"
    /\ reader' = At("idle")
    /\ UNCHANGED <<padVars, tableVars, mainVars, replay, disturbed>>

ReaderHeld ==
    /\ reader.pc = "held"
    /\ IF reader.i \notin DOMAIN slots
       THEN /\ reader' = At("dead")
            /\ UNCHANGED slots
       ELSE /\ slots' = [slots EXCEPT ![reader.i] = NoSession]
            /\ reader' = [reader EXCEPT !.pc = "forget", !.session = slots[reader.i]]
    /\ UNCHANGED <<padVars, session_projects, pad_state, mainVars, replay, disturbed>>

ReaderForget ==
    /\ reader.pc = "forget"
    /\ session_projects' = session_projects \ {reader.session}
    /\ reader' = [reader EXCEPT !.pc = "cache"]
    /\ UNCHANGED <<padVars, slots, pad_state, mainVars, replay, disturbed>>

ReaderCache ==
    /\ reader.pc = "cache"
    /\ pad_state' = pad_state \ {reader.i}
    /\ reader' = [reader EXCEPT !.pc = "write"]
    /\ UNCHANGED <<padVars, slots, session_projects, mainVars, replay, disturbed>>

ReaderWrite ==
    /\ reader.pc = "write"
    /\ Write(reader.i, "off")
    /\ reader' = At("idle")
    /\ UNCHANGED <<pad_slots, link, hello, tableVars, mainVars, replay, disturbed>>

--------------------------------------------------------------------------------
(* The link drops; the reader notices, and replays the cache once the pad is   *)
(* back.  An answer under way is lost, and so may be the display.              *)

LinkDrop ==
    /\ LinkFaults
    /\ link = "up"
    /\ link' = "down"
    /\ hello' = FALSE
    /\ UNCHANGED <<pad_slots, led, tableVars, mainVars, readerVars, disturbed>>

ReaderLoses ==
    /\ reader.pc = "idle"
    /\ link = "down"
    /\ link' = "lost"
    /\ UNCHANGED <<pad_slots, led, hello, tableVars, mainVars, readerVars, disturbed>>

ReaderReattaches ==
    /\ reader.pc = "idle"
    /\ link = "lost"
    /\ link' = "up"
    /\ led' \in {led, [i \in DOMAIN led |-> "off"]}
    /\ reader' = At("resync")
    /\ replay' = pad_state
    /\ UNCHANGED <<pad_slots, hello, tableVars, mainVars, disturbed>>

ReaderReplays(i) ==
    /\ reader.pc = "resync"
    /\ i \in replay
    /\ Write(i, "idle")
    /\ replay' = replay \ {i}
    /\ UNCHANGED <<pad_slots, link, hello, tableVars, mainVars, reader, disturbed>>

ReaderResynced ==
    /\ reader.pc = "resync"
    /\ replay = {}
    /\ reader' = At("idle")
    /\ UNCHANGED <<padVars, tableVars, mainVars, replay, disturbed>>

--------------------------------------------------------------------------------
MainStep ==
    \/ MainOpen \/ MainAsk \/ MainPing \/ MainPinging \/ MainWait \/ MainResize \/ MainDefault
    \/ \E s \in Session : MainSeed(s)
    \/ MainRecord \/ MainCache \/ MainWrite \/ MainWriting \/ MainSeeded
    \/ MainSweep \/ MainClear \/ MainClearing \/ MainServe
    \/ MainRaises

ReaderStep ==
    \/ ReaderHello
    \/ \E i \in Keys, then \in {"tapped", "held"} : KeyInRange(i, then)
    \/ ReaderTapped \/ ReaderDispatch
    \/ ReaderHeld \/ ReaderForget \/ ReaderCache \/ ReaderWrite
    \/ ReaderLoses \/ ReaderReattaches \/ ReaderResynced
    \/ \E i \in replay : ReaderReplays(i)

Next == MainStep \/ ReaderStep \/ LinkDrop

Spec == Init /\ [][Next]_vars

(* The main thread runs, and its wait for the answer times out.                *)
FairSpec == Spec /\ WF_vars(MainStep)

--------------------------------------------------------------------------------
PadOK ==
    /\ pad_slots \in PadSizes
    /\ led \in [0 .. (pad_slots - 1) -> States]
    /\ link \in {"none", "up", "down", "lost"}
    /\ hello \in BOOLEAN

TablesOK ==
    /\ DOMAIN slots \in {0 .. (n - 1) : n \in {pad_slots, NUM_SLOTS}}
    /\ slots \in [DOMAIN slots -> Session \cup {NoSession}]
    /\ session_projects \subseteq Session
    /\ pad_state \subseteq DOMAIN slots

MainOK ==
    /\ main \in [pc : {"open", "ask", "ping", "pinging", "wait", "resize", "default", "seed",
                        "record", "cache", "write", "writing", "sweep", "clear", "clearing",
                        "done", "failed"},
                  i : Nat \cup {NoSlot}, session : Session \cup {NoSession}]
    /\ main.pc = "record" => main.session \in Session
    /\ main.pc \in {"record", "cache", "write", "writing", "clear", "clearing"} =>
          main.i \in DOMAIN slots
    /\ main.pc = "sweep" => main.i \in Nat
    /\ hello_event \in BOOLEAN
    /\ running \subseteq Session

ReaderOK ==
    /\ reader \in [pc : {"off", "idle", "tapped", "dispatch", "held", "forget", "cache",
                          "write", "resync", "dead"},
                    i : Nat \cup {NoSlot}, session : Session \cup {NoSession}]
    /\ replay \subseteq DOMAIN slots

StartupTypeOK == PadOK /\ TablesOK /\ MainOK /\ ReaderOK /\ disturbed \subseteq Nat

(* Startup is over, and so is what the reader was doing on a listening pad.    *)
Started == main.pc = "done" /\ reader.pc = "idle" /\ link = "up"

(* Whatever an earlier daemon left on the pad, when the socket opens each slot *)
(* of the pad the daemon knows shows idle for its session and is dark without  *)
(* one, also when the link dropped on the way or the pad did not answer.       *)
(* Slots the user keyed meanwhile, or whose clear the dead link swallowed, are *)
(* excepted.                                                                   *)
StartsClean ==
    Started => \A i \in (DOMAIN led \cap DOMAIN slots) \ disturbed :
        led[i] = IF slots[i] = NoSession THEN "off" ELSE "idle"

(* A seeded session can be brought to the front before its first hook event.   *)
SeededSessionHasTarget ==
    Started => \A i \in DOMAIN slots \ disturbed :
        slots[i] # NoSession => slots[i] \in session_projects

(* The resize of the slot manager "intentionally" discards its mappings since  *)
(* "there aren't any yet": no mapping is ever lost except to a held key.       *)
SeededMappingsKept ==
    [][\A i \in DOMAIN slots : slots[i] # NoSession =>
          \/ i \in DOMAIN slots' /\ slots'[i] = slots[i]
          \/ reader.pc = "held" /\ reader.i = i]_vars

(* No key ends the reader thread, although the check of its index and the use  *)
(* of it may see two slot managers of different sizes.                         *)
ReaderSurvives == reader.pc # "dead"

(* Why both hold: until the slot manager has its final size nothing is mapped, *)
(* cached or replayed, and a key the reader has let pass is one the pad has.   *)
Sizing == main.pc \in {"open", "ask", "ping", "pinging", "wait", "resize", "default"}

SizedOnce ==
    /\ Sizing => /\ slots = FreshSlots(NUM_SLOTS)
                 /\ pad_state = {}
                 /\ replay = {}
    /\ reader.pc \in {"tapped", "held"} => reader.i \in DOMAIN slots \cap DOMAIN led

(* The reader empties the handle that the main thread has checked and is about *)
(* to use.                                                                     *)
HandleSnatched == Using /\ ~ HasDev

(* serve() never hangs, whether the pad answers late, never, or goes away: it  *)
(* comes to the socket or fails, and the only way to fail is a handle that the *)
(* reader empties between a write's check of _dev and its use.                 *)
StartupEnds ==
    /\ <>(main.pc \in {"done", "failed"})
    /\ []~ HandleSnatched => <>(main.pc = "done")
==================================================================================
