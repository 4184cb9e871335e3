------------------------------ MODULE StartupProofs ------------------------------
(* The startup, for any pad and any default slot count: its types, that no key *)
(* ends the reader thread, that a seeded session keeps its slot and has its    *)
(* target, that the pad is clean when the socket opens, and that each step of  *)
(* the main thread brings the socket nearer.                                   *)
EXTENDS Startup, FiniteSetTheorems, TLAPS

StartupInv == StartupTypeOK /\ SizedOnce

(* What a write to the pad leaves of the display: one entry per slot.          *)
LEMMA WriteStaysTyped ==
    ASSUME PadOK, NEW i, NEW state \in States, Write(i, state)
    PROVE  led' \in [0 .. (pad_slots - 1) -> States]
  BY DEF PadOK, Write

(* The invariant holds before the daemon has done anything.                    *)
LEMMA StartupInit == Init => StartupInv
  <1> SUFFICES ASSUME Init PROVE StartupInv
    OBVIOUS
  <1> USE StartupSizes, StartupSessions DEF Init
  <1>1. PadOK
    BY DEF PadOK
  <1>2. TablesOK
    BY DEF TablesOK, FreshSlots
  <1>3. MainOK
    BY DEF MainOK, At
  <1>4. ReaderOK
    BY DEF ReaderOK, At
  <1>5. SizedOnce
    BY DEF SizedOnce, At
  <1> QED
    BY <1>1, <1>2, <1>3, <1>4, <1>5 DEF StartupInv, StartupTypeOK

(* The main thread, up to the final size of the slot manager.                  *)
LEMMA AskingKeepsInv ==
    ASSUME StartupInv,
           \/ MainOpen \/ MainAsk \/ MainPing \/ MainPinging \/ MainWait
           \/ MainResize \/ MainDefault \/ MainRaises
    PROVE  StartupInv'
  <1> USE StartupSizes, StartupSessions, StartupInputs
  <1> USE DEF StartupInv, StartupTypeOK, SizedOnce, Sizing, PadOK, TablesOK, MainOK, ReaderOK
  <1>1. CASE MainOpen
    BY <1>1 DEF MainOpen, tableVars, At
  <1>2. CASE MainAsk
    BY <1>2 DEF MainAsk, padVars, tableVars, readerVars, At
  <1>3. CASE MainPing
    BY <1>3 DEF MainPing, padVars, tableVars, readerVars, At
  <1>4. CASE MainWait
    BY <1>4 DEF MainWait, padVars, tableVars, readerVars, At
  <1>5. CASE MainResize
    <2>1. slots' \in [DOMAIN slots' -> Session \cup {NoSession}]
      BY <1>5 DEF MainResize, FreshSlots
    <2>2. DOMAIN slots' \in {0 .. (n - 1) : n \in {pad_slots, NUM_SLOTS}}
      BY <1>5 DEF MainResize, FreshSlots
    <2>3. reader.pc \in {"tapped", "held"} => reader.i \in DOMAIN slots' \cap DOMAIN led
      BY <1>5 DEF MainResize, FreshSlots
    <2> QED
      BY <1>5, <2>1, <2>2, <2>3 DEF MainResize, padVars, readerVars, At
  <1>6. CASE MainDefault
    BY <1>6 DEF MainDefault, padVars, tableVars, readerVars, At
  <1>7. CASE MainPinging
    BY <1>7 DEF MainPinging, tableVars, readerVars, At
  <1>8. CASE MainRaises
    <2>1. /\ main' = At("failed") /\ reader' = At("off") /\ replay' = {} /\ link' = "none"
          /\ hello' = FALSE
          /\ UNCHANGED <<pad_slots, led, tableVars, hello_event, running, disturbed>>
      BY <1>8 DEF MainRaises
    <2> QED
      BY <2>1 DEF tableVars, At
  <1> QED
    BY <1>1, <1>2, <1>3, <1>4, <1>5, <1>6, <1>7, <1>8

(* The main thread, seeding the sessions and clearing the other slots.         *)
LEMMA SeedingKeepsInv ==
    ASSUME StartupInv,
           \/ \E s \in Session : MainSeed(s)
           \/ MainRecord \/ MainCache \/ MainWrite \/ MainWriting \/ MainSeeded
           \/ MainSweep \/ MainClear \/ MainClearing \/ MainServe
    PROVE  StartupInv'
  <1> USE StartupSizes, StartupSessions, StartupInputs
  <1> USE DEF StartupInv, StartupTypeOK, SizedOnce, Sizing, PadOK, TablesOK, MainOK, ReaderOK
  <1>0. DOMAIN slots \subseteq Nat
    OBVIOUS
  <1>1. CASE \E s \in Session : MainSeed(s)
    BY <1>0, <1>1 DEF MainSeed, Unowned, padVars, readerVars
  <1>2. CASE MainRecord
    BY <1>2 DEF MainRecord, padVars, readerVars
  <1>3. CASE MainCache
    BY <1>3 DEF MainCache, padVars, readerVars
  <1>4. CASE MainWrite
    BY <1>4 DEF MainWrite, padVars, tableVars, readerVars, At
  <1>9. CASE MainWriting
    <2>1. led' \in [0 .. (pad_slots - 1) -> States]
      BY <1>9, WriteStaysTyped DEF MainWriting, States
    <2> QED
      BY <1>9, <2>1 DEF MainWriting, tableVars, readerVars, At
  <1>5. CASE MainSeeded
    BY <1>5 DEF MainSeeded, padVars, tableVars, readerVars, At
  <1>6. CASE MainSweep
    <2>0. main.i \in Nat /\ main.i + 1 \in Nat
      BY <1>6 DEF MainSweep
    <2>1. /\ main' \in [pc : {"sweep", "clear"}, i : Nat, session : Session \cup {NoSession}]
          /\ main'.pc = "clear" => main'.i \in DOMAIN slots
          /\ pad_state' \subseteq pad_state
      <3> HIDE DEF PadOK, TablesOK, ReaderOK, SizedOnce
      <3>1. CASE slots[main.i] = NoSession
        BY <1>6, <2>0, <3>1 DEF MainSweep
      <3>2. CASE slots[main.i] # NoSession
        BY <1>6, <2>0, <3>2 DEF MainSweep
      <3> QED
        BY <3>1, <3>2
    <2>2. MainOK'
      BY <1>6, <2>1 DEF MainSweep
    <2>3. PadOK' /\ TablesOK' /\ ReaderOK' /\ disturbed' \subseteq Nat
      BY <1>6, <2>1 DEF MainSweep, padVars, readerVars
    <2>4. SizedOnce'
      BY <1>6, <2>1 DEF MainSweep, padVars, readerVars
    <2> QED
      BY <2>2, <2>3, <2>4
  <1>7. CASE MainClear
    <2>0. main.i \in Nat /\ main.i + 1 \in Nat
      BY <1>0, <1>7 DEF MainClear
    <2>2. /\ main' \in [pc : {"clearing", "sweep"}, i : Nat, session : Session \cup {NoSession}]
          /\ main'.pc = "clearing" => main'.i = main.i
          /\ disturbed' \subseteq Nat
      <3> HIDE DEF PadOK, TablesOK, ReaderOK, SizedOnce
      <3>1. CASE HasDev
        BY <1>7, <2>0, <3>1 DEF MainClear
      <3>2. CASE ~ HasDev
        BY <1>7, <2>0, <3>2 DEF MainClear
      <3> QED
        BY <3>1, <3>2
    <2>3. MainOK'
      BY <1>7, <2>2 DEF MainClear, tableVars
    <2>4. PadOK' /\ TablesOK' /\ ReaderOK' /\ disturbed' \subseteq Nat
      BY <1>7, <2>2 DEF MainClear, padVars, tableVars, readerVars
    <2>5. SizedOnce'
      BY <1>7, <2>2 DEF MainClear, padVars, tableVars, readerVars
    <2> QED
      BY <2>3, <2>4, <2>5
  <1>10. CASE MainClearing
    <2>1. led' \in [0 .. (pad_slots - 1) -> States]
      BY <1>10, WriteStaysTyped DEF MainClearing, States
    <2>0. main.i \in Nat /\ main.i + 1 \in Nat
      BY <1>0, <1>10 DEF MainClearing
    <2>2. /\ main' \in [pc : {"sweep"}, i : Nat, session : Session \cup {NoSession}]
          /\ disturbed' \subseteq Nat
      <3> HIDE DEF PadOK, TablesOK, ReaderOK, SizedOnce
      <3> QED
        BY <1>10, <2>0 DEF MainClearing
    <2>3. MainOK'
      BY <1>10, <2>2 DEF MainClearing, tableVars
    <2>4. PadOK' /\ TablesOK' /\ ReaderOK' /\ disturbed' \subseteq Nat
      BY <1>10, <2>1, <2>2 DEF MainClearing, tableVars, readerVars
    <2>5. SizedOnce'
      BY <1>10, <2>1, <2>2 DEF MainClearing, tableVars, readerVars
    <2> QED
      BY <2>3, <2>4, <2>5
  <1>8. CASE MainServe
    BY <1>8 DEF MainServe, padVars, tableVars, readerVars, At
  <1> QED
    BY <1>1, <1>2, <1>3, <1>4, <1>5, <1>6, <1>7, <1>8, <1>9, <1>10

(* The reader thread and the link.                                             *)
LEMMA ReaderKeepsInv ==
    ASSUME StartupInv, ReaderStep \/ LinkDrop
    PROVE  StartupInv'
  <1> USE StartupSizes, StartupSessions, StartupInputs
  <1> USE DEF StartupInv, StartupTypeOK, SizedOnce, Sizing, PadOK, TablesOK, MainOK, ReaderOK
  <1>1. CASE ReaderHello
    BY <1>1 DEF ReaderHello, tableVars, readerVars
  <1>2. ASSUME NEW i \in Keys, NEW then \in {"tapped", "held"}, KeyInRange(i, then)
        PROVE  StartupInv'
    BY <1>2 DEF KeyInRange, padVars, tableVars, mainVars, At
  <1>3. CASE ReaderTapped
    BY <1>3 DEF ReaderTapped, padVars, tableVars, mainVars, At
  <1>4. CASE ReaderDispatch
    BY <1>4 DEF ReaderDispatch, padVars, tableVars, mainVars, At
  <1>5. CASE ReaderHeld
    <2>1. /\ slots' \in [DOMAIN slots -> Session \cup {NoSession}]
          /\ DOMAIN slots' = DOMAIN slots
          /\ Sizing => slots' = FreshSlots(NUM_SLOTS)
      BY <1>5 DEF ReaderHeld, FreshSlots
    <2>2. reader' \in [pc : {"dead", "forget"}, i : Nat \cup {NoSlot},
                       session : Session \cup {NoSession}]
      BY <1>5 DEF ReaderHeld, At
    <2> QED
      BY <1>5, <2>1, <2>2 DEF ReaderHeld, padVars, mainVars
  <1>6. CASE ReaderForget
    BY <1>6 DEF ReaderForget, padVars, mainVars
  <1>7. CASE ReaderCache
    BY <1>7 DEF ReaderCache, padVars, mainVars
  <1>8. CASE ReaderWrite
    <2>1. led' \in [0 .. (pad_slots - 1) -> States]
      BY <1>8, WriteStaysTyped DEF ReaderWrite, States
    <2> QED
      BY <1>8, <2>1 DEF ReaderWrite, tableVars, mainVars, At
  <1>9. CASE ReaderLoses
    BY <1>9 DEF ReaderLoses, tableVars, mainVars, readerVars
  <1>10. CASE ReaderReattaches
    BY <1>10 DEF ReaderReattaches, tableVars, mainVars, At, States
  <1>11. CASE ReaderResynced
    BY <1>11 DEF ReaderResynced, padVars, tableVars, mainVars, At
  <1>12. ASSUME NEW i \in replay, ReaderReplays(i)
         PROVE  StartupInv'
    <2>1. led' \in [0 .. (pad_slots - 1) -> States]
      BY <1>12, WriteStaysTyped DEF ReaderReplays, States
    <2> QED
      BY <1>12, <2>1 DEF ReaderReplays, tableVars, mainVars
  <1>13. CASE LinkDrop
    <2>1. PadOK'
      BY <1>13 DEF LinkDrop
    <2> HIDE DEF PadOK
    <2> QED
      BY <1>13, <2>1 DEF LinkDrop, tableVars, mainVars, readerVars
  <1> HIDE DEF StartupInv
  <1> QED
    BY <1>1, <1>2, <1>3, <1>4, <1>5, <1>6, <1>7, <1>8, <1>9, <1>10, <1>11, <1>12, <1>13
       DEF ReaderStep

(* Every step keeps it.                                                        *)
LEMMA StartupStep == StartupInv /\ [Next]_vars => StartupInv'
  <1> SUFFICES ASSUME StartupInv, [Next]_vars PROVE StartupInv'
    OBVIOUS
  <1>1. CASE MainStep
    BY <1>1, AskingKeepsInv, SeedingKeepsInv DEF MainStep
  <1>2. CASE ReaderStep \/ LinkDrop
    BY <1>2, ReaderKeepsInv
  <1>3. CASE UNCHANGED vars
    BY <1>3 DEF vars, padVars, tableVars, mainVars, readerVars, StartupInv, StartupTypeOK,
                SizedOnce, Sizing, PadOK, TablesOK, MainOK, ReaderOK
  <1> QED
    BY <1>1, <1>2, <1>3 DEF Next

(* So it holds in every state.                                                 *)
THEOREM StartupInvariant == Spec => []StartupInv
  BY StartupInit, StartupStep, PTL DEF Spec

(* The startup's tables and threads stay well typed: StartupTypeOK.            *)
THEOREM StartupTypeCorrect == Spec => []StartupTypeOK
  <1>1. StartupInv => StartupTypeOK
    BY DEF StartupInv
  <1> QED
    BY <1>1, StartupInvariant, PTL

(* A key that passed the check of its index exists in whichever slot manager   *)
(* the reader meets next, so it never dies of it: ReaderSurvives.              *)
THEOREM ReaderNeverDies == Spec => []ReaderSurvives
  <1>1. Init => ReaderSurvives
    BY DEF Init, ReaderSurvives, At
  <1>2. StartupInv /\ ReaderSurvives /\ [Next]_vars => ReaderSurvives'
    <2> SUFFICES ASSUME StartupInv, ReaderSurvives, [Next]_vars
                 PROVE  ReaderSurvives'
      OBVIOUS
    <2> USE DEF ReaderSurvives
    <2>1. CASE reader.pc \in {"tapped", "held"}
      <3>1. reader.i \in DOMAIN slots
        BY <2>1 DEF StartupInv, SizedOnce
      <3>2. CASE ReaderTapped
        BY <3>1, <3>2 DEF ReaderTapped, StartupInv, StartupTypeOK, ReaderOK
      <3>3. CASE ReaderHeld
        BY <3>1, <3>3 DEF ReaderHeld, StartupInv, StartupTypeOK, ReaderOK
      <3>4. CASE UNCHANGED reader
        BY <3>4
      <3>5. CASE MainOpen \/ MainRaises
        BY <3>5 DEF MainOpen, MainRaises, At
      <3> QED
        BY <2>1, <3>2, <3>3, <3>4, <3>5 DEF Next, MainStep, ReaderStep, vars, readerVars,
           MainAsk, MainPing, MainPinging, MainWait, MainResize, MainDefault, MainSeed,
           MainRecord, MainCache, MainWrite, MainWriting, MainSeeded, MainSweep, MainClear,
           MainClearing, MainServe, ReaderHello,
           KeyInRange, ReaderDispatch, ReaderForget, ReaderCache, ReaderWrite, ReaderLoses,
           ReaderReattaches, ReaderReplays, ReaderResynced, LinkDrop
    <2>2. CASE reader.pc \notin {"tapped", "held"}
      BY <2>2 DEF StartupInv, StartupTypeOK, ReaderOK, Next, MainStep, ReaderStep, vars,
           readerVars, MainOpen, MainAsk, MainPing, MainPinging, MainWait, MainResize,
           MainDefault, MainSeed, MainRecord, MainCache, MainWrite, MainWriting, MainSeeded,
           MainSweep, MainClear, MainClearing, MainServe, MainRaises,
           ReaderHello, KeyInRange, ReaderTapped, ReaderDispatch, ReaderHeld, ReaderForget,
           ReaderCache, ReaderWrite, ReaderLoses, ReaderReattaches, ReaderReplays,
           ReaderResynced, LinkDrop, At
    <2> QED
      BY <2>1, <2>2
  <1> QED
    BY <1>1, <1>2, StartupInvariant, PTL DEF Spec

(* The one resize meets an empty slot manager, seeding only takes free slots,  *)
(* and nothing but a held key frees one: SeededMappingsKept.                   *)
THEOREM MappingsKept == Spec => SeededMappingsKept
  <1> DEFINE Kept == \A i \in DOMAIN slots : slots[i] # NoSession =>
                        \/ i \in DOMAIN slots' /\ slots'[i] = slots[i]
                        \/ reader.pc = "held" /\ reader.i = i
  <1>1. StartupInv /\ [Next]_vars => [Kept]_vars
    <2> SUFFICES ASSUME StartupInv, Next PROVE Kept
      OBVIOUS
    <2>1. CASE MainResize
      BY <2>1 DEF MainResize, StartupInv, SizedOnce, Sizing, FreshSlots
    <2>2. ASSUME NEW s \in Session, MainSeed(s) PROVE Kept
      BY <2>2 DEF MainSeed, Unowned
    <2>3. CASE ReaderHeld
      BY <2>3 DEF ReaderHeld
    <2>4. CASE UNCHANGED slots
      BY <2>4
    <2> QED
      BY <2>1, <2>2, <2>3, <2>4 DEF Next, MainStep, ReaderStep, tableVars, MainOpen, MainAsk,
         MainPing, MainPinging, MainWait, MainDefault, MainRecord, MainCache, MainWrite,
         MainWriting, MainSeeded, MainSweep, MainClear, MainClearing, MainServe, MainRaises,
         ReaderHello, KeyInRange, ReaderTapped,
         ReaderDispatch, ReaderForget, ReaderCache, ReaderWrite, ReaderLoses,
         ReaderReattaches, ReaderReplays, ReaderResynced, LinkDrop
  <1> QED
    BY <1>1, StartupInvariant, PTL DEF Spec, SeededMappingsKept

--------------------------------------------------------------------------------
Owned(i) == slots[i] # NoSession

(* The main thread is between taking a slot for a session and showing it.      *)
Seeding(i) == main.pc \in {"record", "cache", "write", "writing"} /\ main.i = i

(* The sweep has been at this slot.                                            *)
Swept(i) == main.pc = "done" \/ (main.pc \in {"sweep", "clear", "clearing"} /\ i < main.i)

(* A session has one slot, and never gets another one.                         *)
OneSlotEach ==
    /\ \A i, j \in DOMAIN slots : slots[i] = slots[j] /\ Owned(i) => i = j
    /\ \A i \in DOMAIN slots : slots[i] \notin running
    /\ reader.pc = "forget" =>
          /\ reader.session \notin running
          /\ \A i \in DOMAIN slots : Owned(i) => slots[i] # reader.session

(* What either thread has in its hands.                                        *)
InHand ==
    /\ reader.pc \in {"tapped", "dispatch", "held", "forget", "cache", "write"} =>
          reader.i \in disturbed
    /\ reader.pc # "resync" => replay = {}
    /\ main.pc \in {"record", "cache", "write", "writing"} /\ main.i \notin disturbed =>
          Owned(main.i)
    /\ main.pc = "record" /\ main.i \notin disturbed => slots[main.i] = main.session
    /\ main.pc \in {"clear", "clearing"} => ~ Owned(main.i)

(* The target, the cache and the display of a slot nobody has keyed.           *)
TargetKnown(i) ==
    Owned(i) => slots[i] \in session_projects \/ (main.pc = "record" /\ main.i = i)

CacheTrue(i) ==
    /\ i \in pad_state \cup replay => Owned(i)
    /\ Owned(i) => i \in pad_state \/ (main.pc \in {"record", "cache"} /\ main.i = i)

DisplayTrue(i) ==
    i \in DOMAIN led =>
        /\ Owned(i) /\ link = "up" => led[i] = "idle" \/ i \in replay \/ Seeding(i)
        /\ ~ Owned(i) /\ Swept(i) => led[i] = "off"

Undisturbed == DOMAIN slots \ disturbed

(* Neither StartsClean nor SeededSessionHasTarget says anything before startup *)
(* is over: this is what it leads up to.                                       *)
CleanInv ==
    /\ OneSlotEach
    /\ InHand
    /\ \A i \in Undisturbed : TargetKnown(i) /\ CacheTrue(i) /\ DisplayTrue(i)

(* It holds when the daemon starts.                                            *)
LEMMA CleanInit == Init => CleanInv
  <1> SUFFICES ASSUME Init PROVE CleanInv
    OBVIOUS
  <1>1. \A i \in DOMAIN slots : slots[i] = NoSession
    BY DEF Init, FreshSlots
  <1>2. /\ main.pc = "open" /\ reader.pc = "off" /\ running \subseteq Session
        /\ pad_state = {} /\ replay = {}
    BY DEF Init, At
  <1>3. OneSlotEach
    BY <1>1, <1>2, StartupSessions DEF OneSlotEach, Owned
  <1>4. InHand
    BY <1>2 DEF InHand
  <1>5. \A i \in Undisturbed : TargetKnown(i) /\ CacheTrue(i) /\ DisplayTrue(i)
    BY <1>1, <1>2 DEF Undisturbed, TargetKnown, CacheTrue, DisplayTrue, Owned, Swept
  <1>6. QED BY <1>3, <1>4, <1>5 DEF CleanInv

(* Up to the final size nothing is mapped, so there is nothing to be wrong.    *)
LEMMA AskingKeepsClean ==
  ASSUME StartupInv, CleanInv,
         \/ MainOpen \/ MainAsk \/ MainPing \/ MainPinging \/ MainWait
         \/ MainResize \/ MainDefault
  PROVE  CleanInv'
  <1>1. main.pc \in {"open", "ask", "ping", "pinging", "wait", "resize", "default"}
    BY DEF MainOpen, MainAsk, MainPing, MainPinging, MainWait, MainResize, MainDefault
  <1>2. slots = FreshSlots(NUM_SLOTS) /\ pad_state = {} /\ replay = {}
    BY <1>1 DEF StartupInv, SizedOnce, Sizing
  <1>3. /\ main'.pc \in {"ask", "ping", "pinging", "wait", "resize", "default", "seed"}
        /\ UNCHANGED <<pad_state, replay, disturbed, running>>
        /\ \E n \in Nat : slots' = FreshSlots(n)
    BY <1>2, StartupSizes
    DEF MainOpen, MainAsk, MainPing, MainPinging, MainWait, MainResize, MainDefault, At, tableVars, readerVars,
        StartupInv, StartupTypeOK, PadOK
  <1>4. UNCHANGED <<reader, replay>> \/ (reader' = At("idle") /\ replay' = {})
    BY <1>2 DEF MainOpen, MainAsk, MainPing, MainPinging, MainWait, MainResize, MainDefault, readerVars
  <1>5. \A i \in DOMAIN slots' : ~ Owned(i)'
    BY <1>3 DEF FreshSlots, Owned
  <1>6. OneSlotEach'
    <2>1. \A i \in DOMAIN slots' : slots'[i] \notin running'
      BY <1>3, StartupSessions DEF FreshSlots, StartupInv, StartupTypeOK, MainOK
    <2>2. reader'.pc = "forget" => reader'.session \notin running'
      BY <1>3, <1>4 DEF CleanInv, OneSlotEach, At
    <2>3. QED BY <1>5, <2>1, <2>2 DEF OneSlotEach
  <1>7. InHand'
    BY <1>2, <1>3, <1>4 DEF CleanInv, InHand, At
  <1>8. \A i \in Undisturbed' : TargetKnown(i)' /\ CacheTrue(i)' /\ DisplayTrue(i)'
    BY <1>2, <1>3, <1>5 DEF Undisturbed, TargetKnown, CacheTrue, DisplayTrue, Swept
  <1>9. QED BY <1>6, <1>7, <1>8 DEF CleanInv

(* The steps that change no slot, no cache and no display.                     *)
LEMMA CalmKeepsClean ==
  ASSUME StartupInv, CleanInv,
         \/ MainSeeded \/ MainServe \/ ReaderHello \/ ReaderTapped \/ ReaderDispatch
         \/ ReaderLoses \/ ReaderResynced \/ LinkDrop
         \/ \E i \in Keys, then \in {"tapped", "held"} : KeyInRange(i, then)
  PROVE  CleanInv'
  <1> USE DEF CleanInv
  <1>1. UNCHANGED <<slots, pad_state, session_projects, led, running, replay>>
    BY DEF MainSeeded, MainServe, ReaderHello, ReaderTapped, ReaderDispatch, ReaderLoses,
           ReaderResynced, LinkDrop, KeyInRange, padVars, tableVars, mainVars, readerVars
  <1>2. disturbed \subseteq disturbed' /\ (link' = "up" => link = "up")
    BY DEF MainSeeded, MainServe, ReaderHello, ReaderTapped, ReaderDispatch, ReaderLoses,
           ReaderResynced, LinkDrop, KeyInRange, padVars, tableVars, mainVars, readerVars
  <1>3. /\ reader' = reader \/ reader'.pc # "forget"
        /\ reader'.pc \in {"tapped", "dispatch", "held", "forget", "cache", "write"} =>
              reader'.i \in disturbed'
        /\ reader'.pc # "resync" => replay' = {}
    BY DEF MainSeeded, MainServe, ReaderHello, ReaderTapped, ReaderDispatch, ReaderLoses,
           ReaderResynced, LinkDrop, KeyInRange, padVars, tableVars, mainVars, readerVars, At,
           InHand, StartupInv, StartupTypeOK, ReaderOK
  <1>4. \/ UNCHANGED main
        \/ main.pc = "seed" /\ main'.pc = "sweep" /\ main'.i = 0
        \/ main.pc = "sweep" /\ main.i \notin DOMAIN slots /\ main'.pc = "done"
    BY DEF MainSeeded, MainServe, ReaderHello, ReaderTapped, ReaderDispatch, ReaderLoses,
           ReaderResynced, LinkDrop, KeyInRange, mainVars, At, StartupInv, StartupTypeOK, MainOK
  <1>5. \A i \in DOMAIN slots : Owned(i)' <=> Owned(i)
    BY <1>1 DEF Owned
  <1>6. OneSlotEach'
    BY <1>1, <1>3 DEF OneSlotEach, Owned
  <1>7. InHand'
    BY <1>1, <1>2, <1>3, <1>4 DEF InHand, Owned
  <1>8. ASSUME NEW i \in Undisturbed'
        PROVE  TargetKnown(i)' /\ CacheTrue(i)' /\ DisplayTrue(i)'
    <2>1. i \in Undisturbed /\ i \in DOMAIN slots
      BY <1>1, <1>2 DEF Undisturbed
    <2>2. TargetKnown(i)'
      BY <1>1, <1>4, <1>5, <2>1 DEF TargetKnown
    <2>3. CacheTrue(i)'
      BY <1>1, <1>4, <1>5, <2>1 DEF CacheTrue
    <2>4. Seeding(i)' <=> Seeding(i)
      BY <1>4 DEF Seeding
    <2>5. Swept(i)' => Swept(i)
      <3>1. /\ DOMAIN slots \in {0 .. (n - 1) : n \in {pad_slots, NUM_SLOTS}}
            /\ pad_slots \in Nat /\ NUM_SLOTS \in Nat
            /\ main.pc = "sweep" => main.i \in Nat
        BY StartupSizes DEF StartupInv, StartupTypeOK, PadOK, TablesOK, MainOK
      <3>2. main.pc = "sweep" /\ main.i \notin DOMAIN slots => i < main.i
        BY <2>1, <3>1
      <3>3. ~ (i < 0)
        BY <2>1, <3>1
      <3>4. QED BY <1>4, <3>2, <3>3 DEF Swept
    <2>6. DisplayTrue(i)'
      BY <1>1, <1>2, <1>5, <2>1, <2>4, <2>5 DEF DisplayTrue
    <2>7. QED BY <2>2, <2>3, <2>6
  <1>9. QED BY <1>6, <1>7, <1>8

(* A session takes a free slot.                                                *)
LEMMA SeedKeepsClean ==
  ASSUME StartupInv, CleanInv, NEW s \in Session, MainSeed(s)
  PROVE  CleanInv'
  <1> USE DEF CleanInv
  <1>1. /\ main.pc = "seed" /\ s \in running /\ running' = running \ {s} /\ s # NoSession
        /\ UNCHANGED <<pad_state, session_projects, led, link, reader, replay, disturbed>>
    BY StartupSessions DEF MainSeed, padVars, readerVars
  <1>2. CASE UNCHANGED <<slots, main>>
    BY <1>1, <1>2 DEF OneSlotEach, InHand, Undisturbed, TargetKnown, CacheTrue, DisplayTrue, Owned,
                      Seeding, Swept
  <1>3. ASSUME NEW i \in Unowned,
               slots' = [slots EXCEPT ![i] = s], main' = [pc |-> "record", i |-> i, session |-> s]
        PROVE  CleanInv'
    <2>1. /\ i \in DOMAIN slots /\ ~ Owned(i) /\ DOMAIN slots' = DOMAIN slots
          /\ slots'[i] = s /\ Owned(i)'
          /\ \A j \in DOMAIN slots \ {i} : slots'[j] = slots[j] /\ (Owned(j)' <=> Owned(j))
      BY <1>1, <1>3 DEF Unowned, Owned
    <2>2. main'.pc = "record" /\ main'.i = i /\ main'.session = s
      BY <1>3
    <2>3. OneSlotEach'
      BY <1>1, <2>1 DEF OneSlotEach
    <2>4. InHand'
      BY <1>1, <2>1, <2>2 DEF InHand
    <2>5. ASSUME NEW j \in Undisturbed'
          PROVE  TargetKnown(j)' /\ CacheTrue(j)' /\ DisplayTrue(j)'
      <3>1. j \in Undisturbed /\ j \in DOMAIN slots
        BY <1>1, <2>1 DEF Undisturbed
      <3>2. CASE j = i
        BY <1>1, <2>1, <2>2, <3>1, <3>2 DEF TargetKnown, CacheTrue, DisplayTrue, Seeding
      <3>3. CASE j # i
        BY <1>1, <2>1, <2>2, <3>1, <3>3 DEF TargetKnown, CacheTrue, DisplayTrue, Seeding, Swept
      <3>4. QED BY <3>2, <3>3
    <2>6. QED BY <2>3, <2>4, <2>5
  <1>4. QED BY <1>2, <1>3 DEF MainSeed

(* The seeding of a slot: target, cache, pad; then the sweep.                  *)
LEMMA SeedingKeepsClean ==
  ASSUME StartupInv, CleanInv,
         \/ MainRecord \/ MainCache \/ MainWrite \/ MainWriting
         \/ MainSweep \/ MainClear \/ MainClearing
  PROVE  CleanInv'
  <1> USE DEF CleanInv
  <1>1. /\ UNCHANGED <<slots, link, reader, replay, running>>
        /\ disturbed \subseteq disturbed'
    BY DEF MainRecord, MainCache, MainWrite, MainWriting, MainSweep, MainClear, MainClearing,
           padVars, tableVars, readerVars
  <1>2. \A i \in DOMAIN slots : Owned(i)' <=> Owned(i)
    BY <1>1 DEF Owned
  <1>3. OneSlotEach'
    BY <1>1 DEF OneSlotEach, Owned
  <1>4. \A i \in Undisturbed' : i \in Undisturbed /\ i \in DOMAIN slots /\ i \in Nat
    BY <1>1, StartupSizes DEF Undisturbed, StartupInv, StartupTypeOK, TablesOK, PadOK
  <1>5. CASE MainRecord
    <2>1. /\ session_projects' = session_projects \cup {main.session}
          /\ UNCHANGED <<pad_state, led, disturbed>> /\ main.pc = "record"
          /\ main'.pc = "cache" /\ main'.i = main.i
      BY <1>5 DEF MainRecord, padVars, StartupInv, StartupTypeOK, MainOK
    <2>2. InHand'
      BY <1>1, <2>1 DEF InHand, Owned
    <2>3. ASSUME NEW i \in Undisturbed'
          PROVE  TargetKnown(i)' /\ CacheTrue(i)' /\ DisplayTrue(i)'
      <3>1. TargetKnown(i)'
        BY <1>1, <1>2, <1>4, <2>1 DEF TargetKnown, InHand, Undisturbed
      <3>2. CacheTrue(i)' /\ DisplayTrue(i)'
        BY <1>1, <1>2, <1>4, <2>1 DEF CacheTrue, DisplayTrue, Seeding, Swept
      <3>3. QED BY <3>1, <3>2
    <2>4. QED BY <1>3, <2>2, <2>3
  <1>6. CASE MainCache
    <2>1. /\ pad_state' = pad_state \cup {main.i}
          /\ UNCHANGED <<session_projects, led, disturbed>> /\ main.pc = "cache"
          /\ main'.pc = "write" /\ main'.i = main.i
      BY <1>6 DEF MainCache, padVars, StartupInv, StartupTypeOK, MainOK
    <2>2. InHand'
      BY <1>1, <2>1 DEF InHand, Owned
    <2>3. ASSUME NEW i \in Undisturbed'
          PROVE  TargetKnown(i)' /\ CacheTrue(i)' /\ DisplayTrue(i)'
      <3>1. TargetKnown(i)' /\ DisplayTrue(i)'
        BY <1>1, <1>2, <1>4, <2>1 DEF TargetKnown, DisplayTrue, Seeding, Swept
      <3>2. CacheTrue(i)'
        BY <1>1, <1>2, <1>4, <2>1 DEF CacheTrue, InHand, Undisturbed
      <3>3. QED BY <3>1, <3>2
    <2>4. QED BY <1>3, <2>2, <2>3
  <1>7. CASE MainWriting
    <2>1. /\ UNCHANGED <<pad_state, session_projects, disturbed>>
          /\ main.pc = "writing" /\ main'.pc = "seed"
          /\ led' = IF link = "up" /\ main.i \in DOMAIN led THEN [led EXCEPT ![main.i] = "idle"] ELSE led
      BY <1>7 DEF MainWriting, Write, tableVars, At
    <2>2. InHand'
      BY <1>1, <2>1 DEF InHand, Owned
    <2>3. DOMAIN led' = DOMAIN led
      BY <2>1
    <2>4. ASSUME NEW i \in Undisturbed'
          PROVE  TargetKnown(i)' /\ CacheTrue(i)' /\ DisplayTrue(i)'
      <3>1. TargetKnown(i)' /\ CacheTrue(i)'
        BY <1>1, <1>2, <1>4, <2>1 DEF TargetKnown, CacheTrue
      <3>2. DisplayTrue(i)'
        BY <1>1, <1>2, <1>4, <2>1, <2>3 DEF DisplayTrue, Seeding, Swept
      <3>3. QED BY <3>1, <3>2
    <2>5. QED BY <1>3, <2>2, <2>4
  <1>8. CASE MainSweep
    <2>1. /\ UNCHANGED <<session_projects, led, disturbed>>
          /\ main.pc = "sweep" /\ main.i \in Nat /\ main.i \in DOMAIN slots
          /\ IF ~ Owned(main.i)
             THEN pad_state' = pad_state \ {main.i} /\ main'.pc = "clear" /\ main'.i = main.i
             ELSE UNCHANGED pad_state /\ main'.pc = "sweep" /\ main'.i = main.i + 1
      BY <1>8 DEF MainSweep, padVars, StartupInv, StartupTypeOK, MainOK, Owned
    <2>2. InHand'
      BY <1>1, <1>2, <2>1 DEF InHand
    <2>3. ASSUME NEW i \in Undisturbed'
          PROVE  TargetKnown(i)' /\ CacheTrue(i)' /\ DisplayTrue(i)'
      <3>1. TargetKnown(i)' /\ CacheTrue(i)'
        BY <1>1, <1>2, <1>4, <2>1 DEF TargetKnown, CacheTrue
      <3>2. DisplayTrue(i)'
        BY <1>1, <1>2, <1>4, <2>1 DEF DisplayTrue, Seeding, Swept
      <3>3. QED BY <3>1, <3>2
    <2>4. QED BY <1>3, <2>2, <2>3
  <1>9. CASE MainClearing
    <2>1. /\ UNCHANGED <<session_projects, pad_state>>
          /\ main.pc = "clearing" /\ main.i \in Nat /\ main'.pc = "sweep" /\ main'.i = main.i + 1
          /\ led' = IF link = "up" /\ main.i \in DOMAIN led THEN [led EXCEPT ![main.i] = "off"] ELSE led
          /\ link # "up" => main.i \in disturbed'
      BY <1>9, StartupSizes
      DEF MainClearing, Write, tableVars, StartupInv, StartupTypeOK, MainOK, TablesOK, PadOK
    <2>2. InHand'
      BY <1>1, <2>1 DEF InHand
    <2>3. DOMAIN led' = DOMAIN led /\ ~ Owned(main.i)
      BY <2>1 DEF InHand
    <2>4. ASSUME NEW i \in Undisturbed'
          PROVE  TargetKnown(i)' /\ CacheTrue(i)' /\ DisplayTrue(i)'
      <3>1. TargetKnown(i)' /\ CacheTrue(i)'
        BY <1>1, <1>2, <1>4, <2>1 DEF TargetKnown, CacheTrue
      <3>2. DisplayTrue(i)'
        BY <1>1, <1>2, <1>4, <2>1, <2>3 DEF DisplayTrue, Seeding, Swept, Undisturbed
      <3>3. QED BY <3>1, <3>2
    <2>5. QED BY <1>3, <2>2, <2>4
  <1>10. CASE MainWrite
    <2>1. /\ UNCHANGED <<pad_state, session_projects, led, disturbed>> /\ main.pc = "write"
          /\ \/ main'.pc = "writing" /\ main'.i = main.i
             \/ main'.pc = "seed" /\ link # "up"
      BY <1>10 DEF MainWrite, HasDev, padVars, tableVars, At, StartupInv, StartupTypeOK, MainOK
    <2>2. InHand'
      BY <1>1, <2>1 DEF InHand, Owned
    <2>3. \A i \in Undisturbed' : TargetKnown(i)' /\ CacheTrue(i)' /\ DisplayTrue(i)'
      BY <1>1, <1>2, <1>4, <2>1 DEF TargetKnown, CacheTrue, DisplayTrue, Seeding, Swept
    <2>4. QED BY <1>3, <2>2, <2>3
  <1>11. CASE MainClear
    <2>1. /\ main.pc = "clear" /\ main.i \in DOMAIN slots /\ main.i \in Nat
          /\ UNCHANGED <<session_projects, pad_state, led>>
      BY <1>11, StartupSizes
      DEF MainClear, padVars, tableVars, StartupInv, StartupTypeOK, MainOK, TablesOK, PadOK
    <2>2. \/ main'.pc = "clearing" /\ main'.i = main.i
          \/ main'.pc = "sweep" /\ main'.i = main.i + 1 /\ main.i \in disturbed'
      BY <1>11 DEF MainClear, HasDev, StartupInv, StartupTypeOK, MainOK
    <2>3. ~ Owned(main.i)
      BY <2>1 DEF InHand
    <2>4. InHand'
      BY <1>1, <2>1, <2>2, <2>3 DEF InHand, Owned
    <2>5. \A i \in Undisturbed' : TargetKnown(i)' /\ CacheTrue(i)' /\ DisplayTrue(i)'
      BY <1>1, <1>2, <1>4, <2>1, <2>2
      DEF TargetKnown, CacheTrue, DisplayTrue, Seeding, Swept, Undisturbed
    <2>6. QED BY <1>3, <2>4, <2>5
  <1>12. QED BY <1>5, <1>6, <1>7, <1>8, <1>9, <1>10, <1>11

(* A startup that fails leaves the tables and the display as they are.         *)
LEMMA RaisingKeepsClean ==
  ASSUME StartupInv, CleanInv, MainRaises
  PROVE  CleanInv'
  <1> USE DEF CleanInv
  <1>1. /\ UNCHANGED <<slots, pad_state, session_projects, led, running, disturbed>>
        /\ main'.pc = "failed" /\ reader'.pc = "off" /\ replay' = {} /\ link' = "none"
        /\ main.pc \notin {"record", "cache"}
    BY DEF MainRaises, Using, tableVars, At
  <1>2. \A i \in DOMAIN slots : Owned(i)' <=> Owned(i)
    BY <1>1 DEF Owned
  <1>3. OneSlotEach' /\ InHand'
    BY <1>1 DEF OneSlotEach, InHand, Owned
  <1>4. \A i \in Undisturbed' : i \in Undisturbed /\ i \in DOMAIN slots
    BY <1>1 DEF Undisturbed
  <1>5. \A i \in Undisturbed' : TargetKnown(i)' /\ CacheTrue(i)' /\ DisplayTrue(i)'
    BY <1>1, <1>2, <1>4 DEF TargetKnown, CacheTrue, DisplayTrue, Swept
  <1>6. QED BY <1>3, <1>5

(* What a key or a resync does.  Its slot is disturbed, or the pad shows what  *)
(* the cache says.                                                             *)
LEMMA ReaderKeepsClean ==
  ASSUME StartupInv, CleanInv,
         \/ ReaderHeld \/ ReaderForget \/ ReaderCache \/ ReaderWrite \/ ReaderReattaches
         \/ \E i \in replay : ReaderReplays(i)
  PROVE  CleanInv'
  <1> USE DEF CleanInv
  <1>1. UNCHANGED <<main, running, disturbed>>
    BY DEF ReaderHeld, ReaderForget, ReaderCache, ReaderWrite, ReaderReattaches, ReaderReplays,
           mainVars
  <1>2. \A i \in Undisturbed : i \in DOMAIN slots /\ i \notin disturbed
    BY DEF Undisturbed
  <1>3. CASE ReaderHeld
    <2>1. /\ UNCHANGED <<led, link, pad_state, session_projects, replay>>
          /\ reader.pc = "held" /\ reader.i \in disturbed /\ reader.i \in DOMAIN slots
      BY <1>3 DEF ReaderHeld, padVars, InHand, StartupInv, SizedOnce
    <2>2. /\ slots' = [slots EXCEPT ![reader.i] = NoSession]
          /\ reader'.pc = "forget" /\ reader'.session = slots[reader.i] /\ reader'.i = reader.i
      BY <1>3, <2>1 DEF ReaderHeld, StartupInv, StartupTypeOK, ReaderOK
    <2>3. /\ DOMAIN slots' = DOMAIN slots
          /\ \A i \in DOMAIN slots : Owned(i)' <=> Owned(i) /\ i # reader.i
          /\ \A i \in DOMAIN slots \ {reader.i} : slots'[i] = slots[i]
      BY <2>1, <2>2 DEF Owned
    <2>4. OneSlotEach'
      BY <1>1, <2>1, <2>2, <2>3, StartupSessions
      DEF OneSlotEach, Owned, StartupInv, StartupTypeOK, MainOK
    <2>5. InHand'
      BY <1>1, <2>1, <2>2, <2>3 DEF InHand, StartupInv, StartupTypeOK, MainOK
    <2>6. \A i \in Undisturbed' : TargetKnown(i)' /\ CacheTrue(i)' /\ DisplayTrue(i)'
      BY <1>1, <1>2, <2>1, <2>3
      DEF Undisturbed, TargetKnown, CacheTrue, DisplayTrue, Seeding, Swept
    <2>7. QED BY <2>4, <2>5, <2>6
  <1>4. CASE ~ ReaderHeld
    <2>1. UNCHANGED slots
      BY <1>4 DEF ReaderForget, ReaderCache, ReaderWrite, ReaderReattaches, ReaderReplays, tableVars
    <2>2. /\ reader' = reader \/ reader'.pc # "forget"
          /\ reader'.pc \in {"tapped", "dispatch", "held", "forget", "cache", "write"} =>
                reader'.i \in disturbed'
          /\ reader'.pc # "resync" => replay' = {}
      BY <1>1, <1>4 DEF ReaderForget, ReaderCache, ReaderWrite, ReaderReattaches, ReaderReplays, At,
                        InHand, StartupInv, StartupTypeOK, ReaderOK
    <2>3. OneSlotEach' /\ InHand'
      BY <1>1, <2>1, <2>2 DEF OneSlotEach, InHand, Owned
    <2>4. \A i \in DOMAIN slots : Owned(i)' <=> Owned(i)
      BY <2>1 DEF Owned
    <2>5. ASSUME NEW i \in Undisturbed'
          PROVE  TargetKnown(i)' /\ CacheTrue(i)' /\ DisplayTrue(i)'
      <3>1. i \in Undisturbed /\ i \in DOMAIN slots /\ i \notin disturbed
        BY <1>1, <2>1 DEF Undisturbed
      <3>2. CASE ReaderForget
        <4>1. /\ UNCHANGED <<led, link, pad_state, replay>> /\ reader.pc = "forget"
              /\ session_projects' = session_projects \ {reader.session}
          BY <3>2 DEF ReaderForget, padVars
        <4>2. Owned(i) => slots[i] # reader.session
          BY <3>1, <4>1 DEF OneSlotEach
        <4>3. QED
          BY <1>1, <2>1, <2>4, <3>1, <4>1, <4>2
          DEF TargetKnown, CacheTrue, DisplayTrue, Seeding, Swept
      <3>3. CASE ReaderCache \/ ReaderWrite
        <4>1. UNCHANGED <<link, session_projects, replay>> /\ reader.i \in disturbed
          BY <3>3 DEF ReaderCache, ReaderWrite, padVars, tableVars, InHand
        <4>2. pad_state' \in {pad_state, pad_state \ {reader.i}}
          BY <3>3 DEF ReaderCache, ReaderWrite, tableVars
        <4>3. /\ DOMAIN led' = DOMAIN led
              /\ i \in DOMAIN led => led'[i] = led[i]
          BY <3>1, <3>3, <4>1 DEF ReaderCache, ReaderWrite, Write, padVars
        <4>4. QED
          BY <1>1, <2>1, <2>4, <3>1, <4>1, <4>2, <4>3
          DEF TargetKnown, CacheTrue, DisplayTrue, Seeding, Swept
      <3>4. CASE ReaderReattaches
        <4>1. UNCHANGED <<pad_state, session_projects>> /\ replay' = pad_state
              /\ led' \in {led, [j \in DOMAIN led |-> "off"]}
          BY <3>4 DEF ReaderReattaches, tableVars
        <4>2. DOMAIN led' = DOMAIN led /\ (i \in DOMAIN led => led'[i] \in {led[i], "off"})
          BY <4>1
        <4>3. TargetKnown(i)' /\ CacheTrue(i)'
          BY <1>1, <2>1, <2>4, <3>1, <4>1 DEF TargetKnown, CacheTrue
        <4>4. Owned(i) => i \in replay' \/ Seeding(i)'
          BY <1>1, <3>1, <4>1 DEF CacheTrue, Seeding
        <4>5. DisplayTrue(i)'
          BY <1>1, <2>1, <2>4, <3>1, <4>2, <4>4 DEF DisplayTrue, Swept
        <4>6. QED BY <4>3, <4>5
      <3>5. ASSUME NEW k \in replay, ReaderReplays(k)
            PROVE  TargetKnown(i)' /\ CacheTrue(i)' /\ DisplayTrue(i)'
        <4>1. UNCHANGED <<link, pad_state, session_projects>> /\ replay' = replay \ {k}
              /\ led' = IF link = "up" /\ k \in DOMAIN led THEN [led EXCEPT ![k] = "idle"] ELSE led
          BY <3>5 DEF ReaderReplays, Write, tableVars
        <4>2. k = i => Owned(i)
          BY <3>1, <3>5 DEF CacheTrue
        <4>3. /\ DOMAIN led' = DOMAIN led
              /\ i \in DOMAIN led =>
                    led'[i] = IF link = "up" /\ k = i THEN "idle" ELSE led[i]
          BY <4>1
        <4>4. TargetKnown(i)' /\ CacheTrue(i)'
          BY <1>1, <2>1, <2>4, <3>1, <4>1 DEF TargetKnown, CacheTrue
        <4>5. DisplayTrue(i)'
          BY <1>1, <2>1, <2>4, <3>1, <4>1, <4>2, <4>3 DEF DisplayTrue, Seeding, Swept
        <4>6. QED BY <4>4, <4>5
      <3>6. QED BY <1>4, <3>2, <3>3, <3>4, <3>5
    <2>6. QED BY <2>3, <2>5
  <1>5. QED BY <1>3, <1>4

(* Every step keeps it.                                                        *)
LEMMA CleanStep == StartupInv /\ CleanInv /\ [Next]_vars => CleanInv'
  <1> SUFFICES ASSUME StartupInv, CleanInv, [Next]_vars PROVE CleanInv'
    OBVIOUS
  <1>1. CASE UNCHANGED vars
    BY <1>1 DEF vars, padVars, tableVars, mainVars, readerVars, CleanInv, OneSlotEach, InHand,
                Undisturbed, TargetKnown, CacheTrue, DisplayTrue, Owned, Seeding, Swept
  <1>2. QED
    BY <1>1, AskingKeepsClean, CalmKeepsClean, SeedKeepsClean, SeedingKeepsClean,
       RaisingKeepsClean, ReaderKeepsClean
    DEF Next, MainStep, ReaderStep

(* So it holds in every state.                                                 *)
LEMMA CleanInvariant == Spec => []CleanInv
  BY CleanInit, CleanStep, StartupInvariant, PTL DEF Spec

(* When the socket opens the pad is clean, whatever was on it and whatever the *)
(* link did: StartsClean.                                                      *)
THEOREM PadStartsClean == Spec => []StartsClean
  <1>1. StartupInv /\ CleanInv => StartsClean
    <2> SUFFICES ASSUME StartupInv, CleanInv, Started,
                        NEW i \in (DOMAIN led \cap DOMAIN slots) \ disturbed
                 PROVE  led[i] = IF slots[i] = NoSession THEN "off" ELSE "idle"
      BY DEF StartsClean
    <2>1. main.pc = "done" /\ reader.pc = "idle" /\ link = "up"
      BY DEF Started
    <2>2. replay = {} /\ DisplayTrue(i)
      BY <2>1 DEF CleanInv, InHand, Undisturbed
    <2>3. QED BY <2>1, <2>2 DEF DisplayTrue, Owned, Seeding, Swept
  <1>2. QED BY <1>1, StartupInvariant, CleanInvariant, PTL

(* And a key already has a target for each seeded session.                     *)
THEOREM SeededHaveTargets == Spec => []SeededSessionHasTarget
  <1>1. CleanInv => SeededSessionHasTarget
    BY DEF CleanInv, Undisturbed, TargetKnown, SeededSessionHasTarget, Started, Owned
  <1>2. QED BY <1>1, CleanInvariant, PTL

--------------------------------------------------------------------------------
(* How far serve() has come, and what it has yet to do there: the sessions to  *)
(* seed, four more steps for the one at hand, three for each slot to sweep.    *)
StageOf ==
    [open |-> 8, ask |-> 7, ping |-> 6, pinging |-> 5, wait |-> 4, resize |-> 3, default |-> 3,
     seed |-> 2, record |-> 2, cache |-> 2, write |-> 2, writing |-> 2,
     sweep |-> 1, clear |-> 1, clearing |-> 1, done |-> 0, failed |-> 0]

StepsAt ==
    [seed |-> 0, record |-> 4, cache |-> 3, write |-> 2, writing |-> 1,
     sweep |-> 2, clear |-> 1, clearing |-> 0]

Stage == StageOf[main.pc]

ToSeed == 5 * Cardinality(running) + StepsAt[main.pc]

ToSweep == 3 * (Cardinality(DOMAIN slots) - main.i) + StepsAt[main.pc]

(* Every step of the main thread is one towards the socket, or ends a startup  *)
(* whose handle the reader has emptied between the check of a write and its    *)
(* use; and nothing that the reader or the link does gives it more to do.      *)
MainAdvances ==
    \/ Stage' < Stage
    \/ Stage = 2 /\ Stage' = 2 /\ ToSeed' < ToSeed
    \/ Stage = 1 /\ Stage' = 1 /\ ToSweep' < ToSweep

FailsOnlySnatched == main'.pc = "failed" => HandleSnatched

StartupAdvances ==
    [][IF MainStep THEN MainAdvances /\ FailsOnlySnatched
       ELSE UNCHANGED <<main, running, DOMAIN slots>>]_vars

(* The work left is a number, and none is left only when startup is over.      *)
WorkCounted ==
    /\ Stage \in 0 .. 8 /\ (Stage = 0 <=> main.pc \in {"done", "failed"})
    /\ Stage = 2 => ToSeed \in Nat
    /\ Stage = 1 => ToSweep \in Nat

(* The sweep is at a slot, or past the last one.                               *)
SweepInRange == main.pc = "sweep" => main.i <= Cardinality(DOMAIN slots)

(* The slots are numbered from zero without a gap.                             *)
LEMMA SlotCount ==
    ASSUME StartupInv
    PROVE  Cardinality(DOMAIN slots) \in Nat
           /\ DOMAIN slots = 0 .. (Cardinality(DOMAIN slots) - 1)
  <1>1. PICK n \in Nat : DOMAIN slots = 0 .. (n - 1)
    BY StartupSizes DEF StartupInv, StartupTypeOK, TablesOK, PadOK
  <1>2. Cardinality(DOMAIN slots) = n
    BY <1>1, FS_Interval
  <1> QED
    BY <1>1, <1>2

(* Only the resize changes how many slots there are, and nothing but the main  *)
(* thread where it is.                                                         *)
LEMMA OthersLeaveMain ==
    ASSUME StartupInv, [Next]_vars, ~ MainStep
    PROVE  UNCHANGED <<main, running, DOMAIN slots>>
  BY DEF Next, ReaderStep, vars, mainVars, tableVars, ReaderHello, KeyInRange, ReaderTapped,
         ReaderDispatch, ReaderHeld, ReaderForget, ReaderCache, ReaderWrite, ReaderLoses,
         ReaderReattaches, ReaderReplays, ReaderResynced, LinkDrop

(* Seeding a session leaves one less to seed, whether it got a slot or not.    *)
LEMMA SeedingAdvances ==
    ASSUME IsFiniteSet(Session), StartupInv, \E s \in Session : MainSeed(s)
    PROVE  Stage = 2 /\ Stage' = 2 /\ ToSeed' < ToSeed
  <1>1. PICK s \in Session : MainSeed(s)
    OBVIOUS
  <1>2. IsFiniteSet(running)
    BY FS_Subset DEF StartupInv, StartupTypeOK, MainOK
  <1>3. PICK n \in Nat : n = Cardinality(running)
    BY <1>2, FS_CardinalityType
  <1>4. Cardinality(running') = n - 1
    BY <1>1, <1>2, <1>3, FS_RemoveElement DEF MainSeed
  <1>5. main.pc = "seed" /\ main'.pc \in {"seed", "record"}
    BY <1>1 DEF MainSeed
  <1>6. Stage = 2 /\ Stage' = 2 /\ StepsAt[main.pc] = 0 /\ StepsAt[main'.pc] \in {0, 4}
    BY <1>5 DEF Stage, StageOf, StepsAt
  <1>7. ToSeed = 5 * n /\ ToSeed' \in {5 * (n - 1), 5 * (n - 1) + 4}
    BY <1>3, <1>4, <1>6 DEF ToSeed
  <1> QED
    BY <1>6, <1>7

(* Recording, caching and showing it are the four steps that it takes.         *)
LEMMA SeededAdvances ==
    ASSUME IsFiniteSet(Session), StartupInv, MainRecord \/ MainCache \/ MainWrite \/ MainWriting
    PROVE  Stage = 2 /\ Stage' = 2 /\ ToSeed' < ToSeed
  <1>1. IsFiniteSet(running)
    BY FS_Subset DEF StartupInv, StartupTypeOK, MainOK
  <1>2. PICK n \in Nat : n = Cardinality(running)
    BY <1>1, FS_CardinalityType
  <1>3. \/ main.pc = "record" /\ main'.pc = "cache"
        \/ main.pc = "cache" /\ main'.pc = "write"
        \/ main.pc = "write" /\ main'.pc \in {"writing", "seed"}
        \/ main.pc = "writing" /\ main'.pc = "seed"
    BY DEF MainRecord, MainCache, MainWrite, MainWriting, At, StartupInv, StartupTypeOK, MainOK
  <1>4. running' = running
    BY DEF MainRecord, MainCache, MainWrite, MainWriting
  <1>5. Stage = 2 /\ Stage' = 2 /\ StepsAt[main.pc] \in 1 .. 4
        /\ StepsAt[main'.pc] \in 0 .. (StepsAt[main.pc] - 1)
    BY <1>3 DEF Stage, StageOf, StepsAt
  <1>6. ToSeed = 5 * n + StepsAt[main.pc] /\ ToSeed' = 5 * n + StepsAt[main'.pc]
    BY <1>2, <1>4 DEF ToSeed
  <1> QED
    BY <1>5, <1>6

(* The sweep goes on by one slot, in at most three steps.                      *)
LEMMA SweepAdvances ==
    ASSUME StartupInv, MainSweep \/ MainClear \/ MainClearing
    PROVE  /\ Stage = 1 /\ Stage' = 1 /\ ToSweep' < ToSweep
           /\ SweepInRange'
  <1>1. PICK n \in Nat : n = Cardinality(DOMAIN slots) /\ DOMAIN slots = 0 .. (n - 1)
    BY SlotCount
  <1>2. DOMAIN slots' = DOMAIN slots
    BY DEF MainSweep, MainClear, MainClearing, tableVars
  <1>3. PICK i \in 0 .. (n - 1) : i = main.i
    BY <1>1 DEF MainSweep, MainClear, MainClearing, StartupInv, StartupTypeOK, MainOK
  <1>4. \/ main.pc = "sweep" /\ main'.pc = "clear" /\ main'.i = i
        \/ main.pc = "clear" /\ main'.pc = "clearing" /\ main'.i = i
        \/ main.pc \in {"sweep", "clear", "clearing"} /\ main'.pc = "sweep" /\ main'.i = i + 1
    BY <1>3 DEF MainSweep, MainClear, MainClearing, StartupInv, StartupTypeOK, MainOK
  <1>5. /\ ToSweep = 3 * (n - i) + StepsAt[main.pc]
        /\ ToSweep' = 3 * (n - main'.i) + StepsAt[main'.pc]
    BY <1>1, <1>2, <1>3 DEF ToSweep
  <1>6. StepsAt["sweep"] = 2 /\ StepsAt["clear"] = 1 /\ StepsAt["clearing"] = 0
    BY DEF StepsAt
  <1>7. ToSweep' < ToSweep
    BY <1>4, <1>5, <1>6
  <1>8. Stage = 1 /\ Stage' = 1
    BY <1>4 DEF Stage, StageOf
  <1>9. SweepInRange'
    BY <1>1, <1>2, <1>4 DEF SweepInRange
  <1> QED
    BY <1>7, <1>8, <1>9

(* The other steps of the main thread end a stage.                             *)
LEMMA OnwardAdvances ==
    ASSUME StartupInv,
           \/ MainOpen \/ MainAsk \/ MainPing \/ MainPinging \/ MainWait \/ MainResize
           \/ MainDefault \/ MainSeeded \/ MainServe \/ MainRaises
    PROVE  Stage' < Stage /\ (main'.pc = "sweep" => main'.i = 0)
  <1>1. \/ main.pc = "open" /\ main'.pc = "ask"
        \/ main.pc = "ask" /\ main'.pc \in {"ping", "default"}
        \/ main.pc = "ping" /\ main'.pc \in {"pinging", "wait"}
        \/ main.pc = "pinging" /\ main'.pc = "wait"
        \/ main.pc = "wait" /\ main'.pc \in {"resize", "default"}
        \/ main.pc \in {"resize", "default"} /\ main'.pc = "seed"
        \/ main.pc = "seed" /\ main'.pc = "sweep" /\ main'.i = 0
        \/ main.pc = "sweep" /\ main'.pc = "done"
        \/ main.pc \in {"pinging", "writing", "clearing"} /\ main'.pc = "failed"
    BY DEF MainOpen, MainAsk, MainPing, MainPinging, MainWait, MainResize, MainDefault, MainSeeded,
           MainServe, MainRaises, Using, At
  <1> QED
    BY <1>1 DEF Stage, StageOf

(* Only a snatched handle fails a startup.                                     *)
LEMMA RaisingFails ==
    ASSUME StartupInv, MainStep
    PROVE  FailsOnlySnatched
  <1>1. main \in [pc : {"open", "ask", "ping", "pinging", "wait", "resize", "default", "seed",
                         "record", "cache", "write", "writing", "sweep", "clear", "clearing",
                         "done", "failed"},
                   i : Nat \cup {NoSlot}, session : Session \cup {NoSession}]
    BY DEF StartupInv, StartupTypeOK, MainOK
  <1>2. CASE MainRaises
    BY <1>2 DEF MainRaises, HandleSnatched, FailsOnlySnatched
  <1>3. CASE \/ MainOpen \/ MainAsk \/ MainPing \/ MainPinging \/ MainWait \/ MainResize
             \/ MainDefault \/ MainSeeded \/ MainServe
    BY <1>3
    DEF MainOpen, MainAsk, MainPing, MainPinging, MainWait, MainResize, MainDefault, MainSeeded,
        MainServe, At, FailsOnlySnatched
  <1>4. CASE \/ \E s \in Session : MainSeed(s)
             \/ MainRecord \/ MainCache \/ MainWrite \/ MainWriting
    BY <1>1, <1>4
    DEF MainSeed, MainRecord, MainCache, MainWrite, MainWriting, At, FailsOnlySnatched
  <1>5. CASE MainSweep \/ MainClear \/ MainClearing
    BY <1>1, <1>5 DEF MainSweep, MainClear, MainClearing, FailsOnlySnatched
  <1> QED
    BY <1>2, <1>3, <1>4, <1>5 DEF MainStep

(* So the sweep never gets past the slot after the last one.                   *)
LEMMA SweepStaysInRange == StartupInv /\ SweepInRange /\ [Next]_vars => SweepInRange'
  <1> SUFFICES ASSUME StartupInv, SweepInRange, [Next]_vars PROVE SweepInRange'
    OBVIOUS
  <1>1. CASE MainSweep \/ MainClear \/ MainClearing
    BY <1>1, SweepAdvances
  <1>2. CASE \/ MainOpen \/ MainAsk \/ MainPing \/ MainPinging \/ MainWait \/ MainResize
             \/ MainDefault \/ MainSeeded \/ MainServe \/ MainRaises
    <2>1. main'.pc = "sweep" => main'.i = 0 /\ slots' = slots
      BY <1>2, OnwardAdvances
      DEF MainOpen, MainAsk, MainPing, MainPinging, MainWait, MainResize, MainDefault, MainSeeded,
          MainServe, MainRaises, tableVars, At
    <2> QED
      BY <2>1, SlotCount DEF SweepInRange
  <1>3. CASE \/ \E s \in Session : MainSeed(s)
             \/ MainRecord \/ MainCache \/ MainWrite \/ MainWriting
    <2>1. main'.pc # "sweep"
      BY <1>3 DEF MainSeed, MainRecord, MainCache, MainWrite, MainWriting, At, StartupInv,
                  StartupTypeOK, MainOK
    <2> QED
      BY <2>1 DEF SweepInRange
  <1>4. CASE ~ MainStep
    BY <1>4, OthersLeaveMain DEF SweepInRange
  <1> QED
    BY <1>1, <1>2, <1>3, <1>4 DEF MainStep

(* With as many sessions as there may be and any pad, serve() comes to an end  *)
(* in a bounded number of steps of its own, whatever the reader and the link   *)
(* do: it reaches the socket, or it fails on a handle that the reader's        *)
(* _reconnect() emptied between the check of a write and its use, and on       *)
(* nothing else.  StartupEnds is this and that the main thread takes its steps.*)
THEOREM ServeAdvances ==
    ASSUME IsFiniteSet(Session)
    PROVE  Spec => []WorkCounted /\ StartupAdvances
  <1>1. Init => SweepInRange
    BY DEF Init, SweepInRange, At
  <1>2. StartupInv /\ SweepInRange => WorkCounted
    <2> SUFFICES ASSUME StartupInv, SweepInRange PROVE WorkCounted
      OBVIOUS
    <2>1. Stage \in 0 .. 8 /\ (Stage = 0 <=> main.pc \in {"done", "failed"})
      BY DEF Stage, StageOf, StartupInv, StartupTypeOK, MainOK
    <2>2. Stage = 2 => ToSeed \in Nat
      <3> SUFFICES ASSUME Stage = 2 PROVE ToSeed \in Nat
        OBVIOUS
      <3>1. PICK n \in Nat : n = Cardinality(running)
        BY FS_Subset, FS_CardinalityType DEF StartupInv, StartupTypeOK, MainOK
      <3>2. StepsAt[main.pc] \in 0 .. 4
        BY DEF Stage, StageOf, StepsAt, StartupInv, StartupTypeOK, MainOK
      <3> QED
        BY <3>1, <3>2 DEF ToSeed
    <2>3. Stage = 1 => ToSweep \in Nat
      <3> SUFFICES ASSUME Stage = 1 PROVE ToSweep \in Nat
        OBVIOUS
      <3>1. PICK n \in Nat : n = Cardinality(DOMAIN slots) /\ DOMAIN slots = 0 .. (n - 1)
        BY SlotCount
      <3>2. main.pc \in {"sweep", "clear", "clearing"}
        BY DEF Stage, StageOf, StartupInv, StartupTypeOK, MainOK
      <3>3. PICK i \in 0 .. n : i = main.i
        <4>1. CASE main.pc = "sweep"
          <5>1. main.i \in Nat
            BY <4>1 DEF StartupInv, StartupTypeOK, MainOK
          <5>2. main.i <= n
            BY <3>1, <4>1 DEF SweepInRange
          <5> QED
            BY <5>1, <5>2
        <4>2. CASE main.pc \in {"clear", "clearing"}
          <5>1. main.i \in DOMAIN slots
            BY <4>2 DEF StartupInv, StartupTypeOK, MainOK
          <5>2. main.i \in 0 .. (n - 1)
            BY <3>1, <5>1
          <5> QED
            BY <5>2
        <4> QED
          BY <3>2, <4>1, <4>2
      <3>4. StepsAt[main.pc] \in 0 .. 2
        BY <3>2 DEF StepsAt
      <3> QED
        BY <3>1, <3>3, <3>4 DEF ToSweep
    <2> QED
      BY <2>1, <2>2, <2>3 DEF WorkCounted
  <1>3. StartupInv /\ [Next]_vars =>
            [IF MainStep THEN MainAdvances /\ FailsOnlySnatched
             ELSE UNCHANGED <<main, running, DOMAIN slots>>]_vars
    <2> SUFFICES ASSUME StartupInv, [Next]_vars
                 PROVE  IF MainStep THEN MainAdvances /\ FailsOnlySnatched
                        ELSE UNCHANGED <<main, running, DOMAIN slots>>
      OBVIOUS
    <2>1. CASE MainStep
      <3>1. MainAdvances
        BY <2>1, SeedingAdvances, SeededAdvances, SweepAdvances, OnwardAdvances
        DEF MainStep, MainAdvances
      <3>2. FailsOnlySnatched
        BY <2>1, RaisingFails
      <3> QED
        BY <2>1, <3>1, <3>2
    <2> QED
      BY <2>1, OthersLeaveMain
  <1> QED
    BY <1>1, <1>2, <1>3, SweepStaysInRange, StartupInvariant, PTL DEF Spec, StartupAdvances
==================================================================================
