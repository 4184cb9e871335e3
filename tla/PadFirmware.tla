------------------------------- MODULE PadFirmware -------------------------------
(* The pad's side: ai_agent_macropad.c as the two keymaps wire it into QMK.    *)
(* QMK's main loop calls each hook to its end, so each is one step.            *)
(*                                                                             *)
(* A slot has a keycode index (which AI_AGENT_KEY_* it is) and, while a lit    *)
(* key carries that keycode, a wire index (what the daemon addresses): the     *)
(* rank of the keycode among those in use, renumbered by every remapping.      *)
EXTENDS Integers, FiniteSetsExt

CONSTANTS
    NumKeys,        \* matrix positions, in the order rescan_slots() visits them
    Lit,            \* the positions that have an RGB LED
    MaxSlots,       \* AI_AGENT_MACROPAD_MAX_SLOTS
    static_keymap,  \* layer 0 as compiled in
    ViaEnable,      \* VIA_ENABLE: can the user remap keys?
    BulkImports,    \* does the user import whole keymaps with VIA?
    Pressed,        \* the positions the user presses
    HoldThreshold,  \* AI_AGENT_MACROPAD_HOLD_THRESHOLD_MS, in scans
    TimerRange      \* timer_read() counts modulo this (2^16)

Position == 1 .. NumKeys
SlotKey == 0 .. (MaxSlots - 1)
OtherKey == -1      \* every keycode outside AI_AGENT_KEY_*
Keycode == SlotKey \cup {OtherKey}
NO_LED == 0
AI_AGENT_NO_SLOT == -1
States == {"off", "working"}

ASSUME FirmwareSizes == {NumKeys, MaxSlots, HoldThreshold, TimerRange} \subseteq Nat \ {0}
ASSUME TimerOutlastsHold == HoldThreshold < TimerRange
ASSUME FirmwareKeys == Lit \cup Pressed \subseteq Position /\ static_keymap \in [Position -> Keycode]
ASSUME FirmwareFlags == {ViaEnable, BulkImports} \subseteq BOOLEAN

VARIABLES
    keymap,            \* external: layer 0 as VIA keeps it in EEPROM
    slot_led,          \* keycode index -> LED, which stands for its position, or NO_LED
    dense_of,          \* keycode index -> wire index or AI_AGENT_NO_SLOT
    dense_led,         \* wire index -> LED
    slot_states,       \* wire index -> displayed state
    key_down_time,     \* wire index -> timer at its last press
    key_hold_pending,  \* wire index -> may a hold still be reported for it?
    now,               \* timer_read()
    reports,           \* what the last step sent to the host
    down,              \* history: position -> scans since it was pressed, or Up
    aimed,             \* history: wire index -> the LED its state was sent for
    doubled,           \* history: keycode indices two keys carried at once
    imported           \* history: was a keymap imported since the last full scan?

tableVars == <<slot_led, dense_of, dense_led, slot_states>>
holdVars == <<key_down_time, key_hold_pending, now>>
historyVars == <<aimed, doubled, imported>>
vars == <<keymap, tableVars, holdVars, reports, down, historyVars>>

Up == -1

Led(p) == IF p \in Lit THEN p ELSE NO_LED

Carriers(map, k) == {p \in Position : map[p] = k}

Doubled(map) == {k \in SlotKey : Cardinality(Carriers(map, k)) > 1}

dense_count == Cardinality(DOMAIN slot_states)

--------------------------------------------------------------------------------
(* rescan_slots(): each position takes its slot over, so the last one counts.  *)
ScannedLeds(map) ==
    [k \in SlotKey |-> IF Carriers(map, k) = {} THEN NO_LED ELSE Led(Max(Carriers(map, k)))]

(* Mutant: a key that is remapped away keeps lighting its old slot.            *)
KeepsOldLed(leds, p, keycode) ==
    [k \in SlotKey |-> IF k = keycode THEN Led(p) ELSE leds[k]]

set_slot_led_for_keycode(leds, p, keycode) ==
    [k \in SlotKey |-> IF k = keycode THEN Led(p)
                       ELSE IF leds[k] = Led(p) THEN NO_LED ELSE leds[k]]

(* rebuild_dense(): the wire view of the LED table, every slot dark.           *)
Assigned(leds) == {k \in SlotKey : leds[k] # NO_LED}

Wires(leds) == 0 .. (Cardinality(Assigned(leds)) - 1)

WireIndex(leds, k) == Cardinality({j \in Assigned(leds) : j < k})

(* Mutants: a rebuild that keeps the colours, one that is forgotten.           *)
RebuildKeepsStates(leds) ==
    /\ slot_led' = leds
    /\ dense_of' = [k \in SlotKey |-> IF k \in Assigned(leds) THEN WireIndex(leds, k)
                                      ELSE AI_AGENT_NO_SLOT]
    /\ dense_led' = [w \in Wires(leds) |->
                        leds[CHOOSE k \in Assigned(leds) : WireIndex(leds, k) = w]]
    /\ slot_states' = [w \in Wires(leds) |-> IF w < dense_count THEN slot_states[w] ELSE "off"]

RebuildForgotten(leds) ==
    /\ slot_led' = leds
    /\ UNCHANGED <<dense_of, dense_led, slot_states>>

rebuild_dense(leds) ==
    /\ slot_led' = leds
    /\ dense_of' = [k \in SlotKey |-> IF k \in Assigned(leds) THEN WireIndex(leds, k)
                                      ELSE AI_AGENT_NO_SLOT]
    /\ dense_led' = [w \in Wires(leds) |->
                        leds[CHOOSE k \in Assigned(leds) : WireIndex(leds, k) = w]]
    /\ slot_states' = [w \in Wires(leds) |-> "off"]

(* keyboard_post_init_user(): the user may have remapped keys in earlier runs. *)
Init ==
    /\ keymap \in IF ViaEnable THEN [Position -> Keycode] ELSE {static_keymap}
    /\ slot_led = ScannedLeds(keymap)
    /\ dense_of = [k \in SlotKey |-> IF k \in Assigned(slot_led) THEN WireIndex(slot_led, k)
                                     ELSE AI_AGENT_NO_SLOT]
    /\ dense_led = [w \in Wires(slot_led) |->
                        slot_led[CHOOSE k \in Assigned(slot_led) : WireIndex(slot_led, k) = w]]
    /\ slot_states = [w \in Wires(slot_led) |-> "off"]
    /\ key_down_time = [w \in SlotKey |-> 0]
    /\ key_hold_pending = [w \in SlotKey |-> FALSE]
    /\ now = 0
    /\ reports = {}
    /\ down = [p \in Position |-> Up]
    /\ aimed = [w \in SlotKey |-> NO_LED]
    /\ doubled = Doubled(keymap)
    /\ imported = FALSE

--------------------------------------------------------------------------------
(* process_record_user().  QMK looks the keycode up again at the release.      *)

Wire(p) == IF keymap[p] \in SlotKey THEN dense_of[keymap[p]] ELSE AI_AGENT_NO_SLOT

Press(p) ==
    /\ down[p] = Up
    /\ down' = [down EXCEPT ![p] = 0]
    /\ IF Wire(p) = AI_AGENT_NO_SLOT
       THEN /\ reports' = {}
            /\ UNCHANGED holdVars
       ELSE /\ reports' = {[t |-> "key", i |-> Wire(p)]}
            /\ key_down_time' = [key_down_time EXCEPT ![Wire(p)] = now]
            /\ key_hold_pending' = [key_hold_pending EXCEPT ![Wire(p)] = TRUE]
            /\ UNCHANGED now
    /\ UNCHANGED <<keymap, tableVars, historyVars>>

(* Mutant: a release that leaves the hold pending.                             *)
ReleaseKeepsPending(p) ==
    /\ down[p] # Up
    /\ down' = [down EXCEPT ![p] = Up]
    /\ reports' = {}
    /\ UNCHANGED <<keymap, tableVars, holdVars, historyVars>>

Release(p) ==
    /\ down[p] # Up
    /\ down' = [down EXCEPT ![p] = Up]
    /\ reports' = {}
    /\ key_hold_pending' = [w \in SlotKey |-> key_hold_pending[w] /\ w # Wire(p)]
    /\ UNCHANGED <<keymap, tableVars, key_down_time, now, historyVars>>

(* timer_elapsed(), 16 bits wide in the firmware.                              *)
Elapsed(w, time) == (time - key_down_time[w]) % TimerRange

(* Mutant: a threshold that must be exceeded.                                  *)
HoldIsPast(time) ==
    {w \in DOMAIN slot_states : key_hold_pending[w] /\ Elapsed(w, time) > HoldThreshold}

HoldIsDue(time) ==
    {w \in DOMAIN slot_states : key_hold_pending[w] /\ Elapsed(w, time) >= HoldThreshold}

(* ai_agent_macropad_task(), called from every scan of the matrix.             *)
Scan ==
    /\ now' = (now + 1) % TimerRange
    /\ down' = [p \in Position |-> IF down[p] \in {Up, HoldThreshold} THEN down[p] ELSE down[p] + 1]
    /\ key_hold_pending' = [w \in SlotKey |-> key_hold_pending[w] /\ w \notin HoldIsDue(now')]
    /\ reports' = {[t |-> "key_held", i |-> w] : w \in HoldIsDue(now')}
    /\ UNCHANGED <<keymap, tableVars, key_down_time, historyVars>>

--------------------------------------------------------------------------------
(* ai_agent_macropad_raw_hid_receive(): what the host sends.                   *)

MsgPing ==
    /\ reports' = {[t |-> "hello", slots |-> dense_count]}
    /\ UNCHANGED <<keymap, tableVars, holdVars, down, historyVars>>

(* Mutant: a state stored without comparing the index with the count.          *)
MsgSlotUnchecked(w, state) ==
    /\ reports' = {}
    /\ slot_states' = [x \in DOMAIN slot_states \cup {w} |-> IF x = w THEN state ELSE slot_states[x]]
    /\ UNCHANGED <<keymap, slot_led, dense_of, dense_led, holdVars, down, historyVars>>

MsgSlot(w, state) ==
    /\ reports' = {}
    /\ IF w \in DOMAIN slot_states
       THEN /\ slot_states' = [slot_states EXCEPT ![w] = state]
            /\ aimed' = [aimed EXCEPT ![w] = dense_led[w]]
       ELSE UNCHANGED <<slot_states, aimed>>
    /\ UNCHANGED <<keymap, slot_led, dense_of, dense_led, holdVars, down, doubled, imported>>

(* ai_agent_macropad_track_via_remap(), then VIA's own handling of the same    *)
(* command, which writes the keymap.                                           *)
SetKeycode(p, keycode) ==
    /\ ViaEnable
    /\ rebuild_dense(set_slot_led_for_keycode(slot_led, p, keycode))
    /\ keymap' = [keymap EXCEPT ![p] = keycode]
    /\ reports' = {}
    /\ doubled' = doubled \cup Doubled(keymap')
    /\ UNCHANGED <<holdVars, down, aimed, imported>>

ResetKeymap ==
    /\ ViaEnable
    /\ rebuild_dense(ScannedLeds(static_keymap))
    /\ keymap' = static_keymap
    /\ reports' = {}
    /\ doubled' = Doubled(static_keymap)
    /\ imported' = FALSE
    /\ UNCHANGED <<holdVars, down, aimed>>

(* External: VIA's keymap buffer command, which is none of those tracked.      *)
ImportKeymap(map) ==
    /\ ViaEnable
    /\ BulkImports
    /\ keymap' = map
    /\ reports' = {}
    /\ doubled' = doubled \cup Doubled(map)
    /\ imported' = TRUE
    /\ UNCHANGED <<tableVars, holdVars, down, aimed>>

(* The hooks through which a keymap hands keys, scans and reports over; a      *)
(* report VIA owns is only peeked at, and one of ours goes no further.         *)
Next ==
    \/ \E p \in Pressed : Press(p)
    \/ \E p \in Pressed : Release(p)
    \/ Scan
    \/ MsgPing
    \/ \E w \in SlotKey, state \in States : MsgSlot(w, state)
    \/ \E p \in Position, keycode \in Keycode : SetKeycode(p, keycode)
    \/ ResetKeymap
    \/ \E map \in [Position -> Keycode] : ImportKeymap(map)

Spec == Init /\ [][Next]_vars

--------------------------------------------------------------------------------
FirmwareTypeOK ==
    /\ keymap \in [Position -> Keycode]
    /\ slot_led \in [SlotKey -> Lit \cup {NO_LED}]
    /\ dense_of \in [SlotKey -> SlotKey \cup {AI_AGENT_NO_SLOT}]
    /\ dense_led \in [Wires(slot_led) -> Lit]
    /\ slot_states \in [Wires(slot_led) -> States]
    /\ key_down_time \in [SlotKey -> 0 .. (TimerRange - 1)]
    /\ key_hold_pending \in [SlotKey -> BOOLEAN]
    /\ now \in 0 .. (TimerRange - 1)
    /\ down \in [Position -> 0 .. HoldThreshold \cup {Up}]
    /\ aimed \in [SlotKey -> Lit \cup {NO_LED}]
    /\ doubled \subseteq SlotKey
    /\ imported \in BOOLEAN

(* "Every key [the daemon] can address lights something", and something of its *)
(* own: the wire indices below the count hello reports lead to as many         *)
(* distinct LEDs, each the LED of the keycode that reports this wire index.    *)
DenseAgrees ==
    /\ \A w \in DOMAIN dense_led : \E k \in SlotKey : dense_of[k] = w /\ slot_led[k] = dense_led[w]
    /\ \A v, w \in DOMAIN dense_led : dense_led[v] = dense_led[w] => v = w
    /\ DOMAIN dense_led = DOMAIN slot_states

(* The LED table updated by single remaps is the one a scan of the keymap      *)
(* would build, whatever keys were moved, swapped or reset.  Except for a slot *)
(* whose keycode was on two keys at once, and after a bulk import.             *)
LedsFollowKeymap ==
    ~ imported => \A k \in SlotKey \ doubled : slot_led[k] = ScannedLeds(keymap)[k]

(* A colour never shows on a key other than the one it was sent for: a remap   *)
(* renumbers the slots, and none carries its state to another key.             *)
ColourStaysOnItsKey ==
    \A w \in DOMAIN slot_states : slot_states[w] # "off" => aimed[w] = dense_led[w]

(* A hold is reported only of a slot whose key is down, and has been for the   *)
(* whole threshold: releasing a key in time cancels the eviction.              *)
HoldNeedsKey ==
    \A report \in reports : report.t = "key_held" =>
        \E p \in Position : down[p] >= HoldThreshold /\ Wire(p) = report.i

(* A key held for the whole threshold has had its hold reported, also when the *)
(* 16-bit timer wraps around meanwhile.                                        *)
HoldIsReported ==
    \A p \in Position :
        down[p] >= HoldThreshold /\ Carriers(keymap, keymap[p]) = {p} /\ Wire(p) # AI_AGENT_NO_SLOT
            => ~ key_hold_pending[Wire(p)]
==================================================================================
