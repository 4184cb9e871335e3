---------------------------- MODULE PadFirmwareProofs ----------------------------
(* The firmware, for any board and keymaps: its types, that the wire indices   *)
(* fit the lit keys, that no remap moves a colour or loses track of a key, and *)
(* that a hold is reported of a key held, no sooner and no later.              *)
EXTENDS PadOnWire, FiniteSetTheorems, TLAPS

--------------------------------------------------------------------------------
(* The rank of an element of a finite set of integers, which is what the wire  *)
(* index of a keycode is among those in use.                                   *)

Below(S, k) == {j \in S : j < k}

(* Ranks are the numbers below the size of the set.                            *)
LEMMA RankInRange ==
  ASSUME NEW S \in SUBSET Int, IsFiniteSet(S), NEW k \in S
  PROVE  /\ IsFiniteSet(Below(S, k))
         /\ Cardinality(S) \in Nat \ {0}
         /\ Cardinality(Below(S, k)) \in 0 .. (Cardinality(S) - 1)
  <1>1. IsFiniteSet(Below(S, k)) /\ Cardinality(Below(S, k)) \in Nat
    BY FS_Subset, FS_CardinalityType DEF Below
  <1>2. Below(S, k) \subseteq S \ {k}
    BY DEF Below
  <1>3. IsFiniteSet(S \ {k}) /\ Cardinality(S \ {k}) = Cardinality(S) - 1
    BY FS_RemoveElement
  <1>4. Cardinality(Below(S, k)) <= Cardinality(S \ {k})
    BY <1>2, <1>3, FS_Subset
  <1>5. Cardinality(S) \in Nat
    BY FS_CardinalityType
  <1>6. QED BY <1>1, <1>3, <1>4, <1>5

(* A larger element has a larger rank.                                         *)
LEMMA RankGrows ==
  ASSUME NEW S \in SUBSET Int, IsFiniteSet(S), NEW j \in S, NEW k \in S, j < k
  PROVE  Cardinality(Below(S, j)) < Cardinality(Below(S, k))
  <1>1. IsFiniteSet(Below(S, k))
    BY RankInRange
  <1>2. Below(S, j) \in SUBSET Below(S, k) /\ j \in Below(S, k) /\ j \notin Below(S, j)
    <2>1. \A i \in S : i < j => i < k
      OBVIOUS
    <2>2. ~ (j < j)
      OBVIOUS
    <2>3. QED BY <2>1, <2>2 DEF Below
  <1> DEFINE B == Below(S, k)
             A == Below(S, j)
  <1>3. Cardinality(A) <= Cardinality(B) /\ (Cardinality(B) = Cardinality(A) => B = A)
    <2> HIDE DEF A, B
    <2>1. IsFiniteSet(B) /\ A \in SUBSET B
      BY <1>1, <1>2 DEF A, B
    <2>2. QED BY <2>1, FS_Subset
  <1>4. Cardinality(Below(S, j)) \in Nat /\ Cardinality(Below(S, k)) \in Nat
    BY RankInRange
  <1>5. Below(S, k) # Below(S, j)
    BY <1>2
  <1>6. QED BY <1>3, <1>4, <1>5

(* Every number below the size is the rank of an element.                      *)
LEMMA RankOnto ==
  ASSUME NEW S \in SUBSET Int, IsFiniteSet(S), NEW w \in 0 .. (Cardinality(S) - 1)
  PROVE  \E k \in S : Cardinality(Below(S, k)) = w
  <1> DEFINE T == 0 .. (Cardinality(S) - 1)
             f == [k \in S |-> Cardinality(Below(S, k))]
  <1>1. Cardinality(S) \in Nat
    BY FS_CardinalityType
  <1>2. IsFiniteSet(T) /\ Cardinality(T) = Cardinality(S)
    BY <1>1, FS_Interval
  <1>3. f \in [S -> T]
    BY RankInRange
  <1>4. \A j, k \in S : f[j] = f[k] => j = k
    <2>1. SUFFICES ASSUME NEW j \in S, NEW k \in S, j < k PROVE f[j] # f[k]
      OBVIOUS
    <2>2. f[j] < f[k] /\ f[j] \in Int /\ f[k] \in Int
      BY <2>1, <1>3, RankGrows
    <2>3. QED BY <2>2
  <1>5. f \in Injection(S, T)
    BY <1>3, <1>4 DEF Injection, IsInjective
  <1>6. f \in Surjection(S, T)
    BY <1>2, <1>5, FS_Injection
  <1>7. QED BY <1>6 DEF Surjection

(* A finite set of integers that is not empty has a largest element.           *)
LEMMA MaxIsLargest ==
  ASSUME NEW S \in SUBSET Int, IsFiniteSet(S), S # {}
  PROVE  Max(S) \in S /\ \A y \in S : Max(S) >= y
  <1>1. Cardinality(S) \in Nat \ {0}
    BY RankInRange
  <1>2. PICK k \in S : Cardinality(Below(S, k)) = Cardinality(S) - 1
    BY <1>1, RankOnto
  <1>3. IsFiniteSet(S \ {k}) /\ Cardinality(S \ {k}) = Cardinality(S) - 1
    BY FS_RemoveElement
  <1>4. Below(S, k) \in SUBSET (S \ {k})
    BY DEF Below
  <1>5. Below(S, k) = S \ {k}
    BY <1>2, <1>3, <1>4, FS_Subset
  <1>6. \A y \in S : k >= y
    BY <1>5 DEF Below
  <1>7. QED BY <1>6 DEF Max

--------------------------------------------------------------------------------
(* What rescan_slots(), a single remap and rebuild_dense() compute.            *)

(* The LED tables a remap or a scan may build: no LED serves two keycodes.     *)
LedTables ==
  {leds \in [SlotKey -> Lit \cup {NO_LED}] :
     \A j, k \in SlotKey : leds[j] = leds[k] /\ leds[j] # NO_LED => j = k}

Keymaps == [Position -> Keycode]

(* The positions that carry a keycode are finitely many.                       *)
LEMMA CarriersTyped ==
  ASSUME NEW map \in Keymaps, NEW k \in SlotKey
  PROVE  /\ Carriers(map, k) \in SUBSET Position
         /\ Carriers(map, k) \in SUBSET Int
         /\ IsFiniteSet(Carriers(map, k))
  <1>1. Carriers(map, k) \in SUBSET Position /\ Position \in SUBSET Int
    BY DEF Carriers, Position
  <1>2. IsFiniteSet(Position)
    BY FirmwareSizes, FS_Interval DEF Position
  <1>3. QED BY <1>1, <1>2, FS_Subset

(* NO_LED is not a position.                                                   *)
LEMMA LedTyped ==
  ASSUME NEW p \in Position
  PROVE  /\ Led(p) \in Lit \cup {NO_LED}
         /\ Led(p) # NO_LED => Led(p) = p
         /\ NO_LED \notin Lit
  BY FirmwareKeys DEF Led, NO_LED, Position

(* A scan lights each keycode at the last position that carries it.            *)
LEMMA ScanIsTable ==
  ASSUME NEW map \in Keymaps
  PROVE  ScannedLeds(map) \in LedTables
  <1>1. ASSUME NEW k \in SlotKey
        PROVE  \/ ScannedLeds(map)[k] = NO_LED
               \/ \E p \in Carriers(map, k) : ScannedLeds(map)[k] = Led(p)
    BY CarriersTyped, MaxIsLargest DEF ScannedLeds
  <1>2. ASSUME NEW k \in SlotKey
        PROVE  /\ ScannedLeds(map)[k] \in Lit \cup {NO_LED}
               /\ ScannedLeds(map)[k] # NO_LED => map[ScannedLeds(map)[k]] = k
    BY <1>1, CarriersTyped, LedTyped DEF Carriers
  <1>3. ScannedLeds(map) \in [SlotKey -> Lit \cup {NO_LED}]
    BY <1>2 DEF ScannedLeds
  <1>4. QED BY <1>2, <1>3 DEF LedTables

(* A remap takes the LED of the position away from every other keycode.        *)
LEMMA RemapIsTable ==
  ASSUME NEW leds \in LedTables, NEW p \in Position, NEW keycode \in Keycode
  PROVE  set_slot_led_for_keycode(leds, p, keycode) \in LedTables
  BY LedTyped DEF LedTables, set_slot_led_for_keycode

(* The keycodes in use, and how their wire indices number them.                *)
LEMMA WiresTyped ==
  ASSUME NEW leds \in LedTables
  PROVE  /\ Assigned(leds) \in SUBSET SlotKey
         /\ Assigned(leds) \in SUBSET Int
         /\ IsFiniteSet(Assigned(leds))
         /\ Wires(leds) \in SUBSET SlotKey
         /\ \A k \in Assigned(leds) : WireIndex(leds, k) \in Wires(leds)
  <1>1. Assigned(leds) \in SUBSET SlotKey /\ SlotKey \in SUBSET Int
    BY DEF Assigned, SlotKey
  <1>2. IsFiniteSet(SlotKey) /\ Cardinality(SlotKey) = MaxSlots
    <2>1. MaxSlots \in Nat \ {0} /\ MaxSlots - 1 \in Int
      BY FirmwareSizes
    <2>2. QED BY <2>1, FS_Interval DEF SlotKey
  <1>3. IsFiniteSet(Assigned(leds)) /\ Cardinality(Assigned(leds)) <= MaxSlots
    BY <1>1, <1>2, FS_Subset
  <1>4. Cardinality(Assigned(leds)) \in Nat
    BY <1>3, FS_CardinalityType
  <1>5. Wires(leds) \in SUBSET SlotKey
    <2>1. MaxSlots \in Int
      BY FirmwareSizes
    <2>2. QED BY <1>3, <1>4, <2>1 DEF Wires, SlotKey
  <1>6. ASSUME NEW k \in Assigned(leds) PROVE WireIndex(leds, k) \in Wires(leds)
    BY <1>1, <1>3, RankInRange DEF WireIndex, Wires, Below
  <1>7. QED BY <1>1, <1>3, <1>5, <1>6

(* Each wire index belongs to one keycode, each keycode in use has its own.    *)
LEMMA WiresNumberKeys ==
  ASSUME NEW leds \in LedTables
  PROVE  /\ \A w \in Wires(leds) : \E k \in Assigned(leds) : WireIndex(leds, k) = w
         /\ \A j, k \in Assigned(leds) : WireIndex(leds, j) = WireIndex(leds, k) => j = k
  <1> DEFINE S == Assigned(leds)
  <1>1. S \in SUBSET Int /\ IsFiniteSet(S)
    BY WiresTyped
  <1>2. \A k \in S : WireIndex(leds, k) = Cardinality(Below(S, k))
    BY DEF WireIndex, Below
  <1>3. ASSUME NEW w \in Wires(leds) PROVE \E k \in S : WireIndex(leds, k) = w
    BY <1>1, <1>2, <1>3, RankOnto DEF Wires
  <1>4. ASSUME NEW j \in S, NEW k \in S, j < k PROVE WireIndex(leds, j) # WireIndex(leds, k)
    <2>1. Cardinality(Below(S, j)) < Cardinality(Below(S, k))
      BY <1>1, <1>4, RankGrows
    <2>2. Cardinality(Below(S, j)) \in Int /\ Cardinality(Below(S, k)) \in Int
      BY <1>1, RankInRange
    <2>3. QED BY <1>2, <2>1, <2>2
  <1>5. QED BY <1>1, <1>3, <1>4

(* The keycode whose wire index is w, as rebuild_dense() finds it.             *)
KeyOfWire(leds, w) == CHOOSE k \in Assigned(leds) : WireIndex(leds, k) = w

(* The key of a wire index has a slot.                                         *)
LEMMA KeyOfWireTyped ==
  ASSUME NEW leds \in LedTables, NEW w \in Wires(leds)
  PROVE  /\ KeyOfWire(leds, w) \in Assigned(leds)
         /\ KeyOfWire(leds, w) \in SlotKey
         /\ WireIndex(leds, KeyOfWire(leds, w)) = w
         /\ leds[KeyOfWire(leds, w)] \in Lit
  <1>1. KeyOfWire(leds, w) \in Assigned(leds) /\ WireIndex(leds, KeyOfWire(leds, w)) = w
    BY WiresNumberKeys DEF KeyOfWire
  <1>2. QED BY <1>1, WiresTyped DEF Assigned, LedTables

(* The wire view in force is the one rebuild_dense() makes of the LED table.   *)
WireView ==
  /\ slot_led \in LedTables
  /\ dense_of = [k \in SlotKey |-> IF k \in Assigned(slot_led) THEN WireIndex(slot_led, k)
                                   ELSE AI_AGENT_NO_SLOT]
  /\ dense_led = [w \in Wires(slot_led) |-> slot_led[KeyOfWire(slot_led, w)]]
  /\ slot_states \in [Wires(slot_led) -> States]

(* The wire view agrees with the LED table: DenseAgrees, from its making.      *)
LEMMA ViewAgrees == WireView => DenseAgrees
  <1> SUFFICES ASSUME WireView PROVE DenseAgrees
    OBVIOUS
  <1> USE DEF WireView
  <1>1. DOMAIN dense_led = Wires(slot_led) /\ DOMAIN slot_states = Wires(slot_led)
    OBVIOUS
  <1>2. ASSUME NEW w \in Wires(slot_led)
        PROVE  \E k \in SlotKey : dense_of[k] = w /\ slot_led[k] = dense_led[w]
    <2>1. /\ KeyOfWire(slot_led, w) \in SlotKey
          /\ dense_of[KeyOfWire(slot_led, w)] = w
          /\ slot_led[KeyOfWire(slot_led, w)] = dense_led[w]
      BY <1>2, KeyOfWireTyped
    <2>2. QED BY <2>1
  <1>3. ASSUME NEW v \in Wires(slot_led), NEW w \in Wires(slot_led), dense_led[v] = dense_led[w]
        PROVE  v = w
    <2>1. KeyOfWire(slot_led, v) = KeyOfWire(slot_led, w)
      BY <1>3, KeyOfWireTyped, LedTyped DEF LedTables, Assigned
    <2>2. QED BY <2>1, KeyOfWireTyped
  <1>4. QED BY <1>1, <1>2, <1>3 DEF DenseAgrees

(* It types the tables the hooks read.                                         *)
LEMMA ViewTyped ==
  WireView => /\ slot_led \in [SlotKey -> Lit \cup {NO_LED}]
              /\ dense_of \in [SlotKey -> SlotKey \cup {AI_AGENT_NO_SLOT}]
              /\ dense_led \in [Wires(slot_led) -> Lit]
              /\ slot_states \in [Wires(slot_led) -> States]
  <1> SUFFICES ASSUME WireView
               PROVE  /\ dense_of \in [SlotKey -> SlotKey \cup {AI_AGENT_NO_SLOT}]
                      /\ dense_led \in [Wires(slot_led) -> Lit]
    BY DEF WireView, LedTables
  <1> USE DEF WireView
  <1>1. \A k \in Assigned(slot_led) : WireIndex(slot_led, k) \in SlotKey
    BY WiresTyped
  <1>2. \A w \in Wires(slot_led) : slot_led[KeyOfWire(slot_led, w)] \in Lit
    BY KeyOfWireTyped
  <1>3. QED BY <1>1, <1>2

(* A rebuild for a possible LED table makes the view of it.                    *)
LEMMA RebuildMakesView ==
  ASSUME NEW leds \in LedTables, rebuild_dense(leds)
  PROVE  WireView' /\ \A w \in DOMAIN slot_states' : slot_states'[w] = "off"
  BY DEF rebuild_dense, WireView, KeyOfWire, States

(* So do the tables the firmware starts with.                                  *)
LEMMA InitMakesView == Init => WireView /\ \A w \in DOMAIN slot_states : slot_states[w] = "off"
  <1> SUFFICES ASSUME Init
               PROVE  WireView /\ \A w \in DOMAIN slot_states : slot_states[w] = "off"
    OBVIOUS
  <1>1. keymap \in Keymaps
    BY FirmwareKeys DEF Init, Keymaps
  <1>2. slot_led \in LedTables
    BY <1>1, ScanIsTable DEF Init
  <1>3. QED BY <1>2 DEF Init, WireView, KeyOfWire, States

--------------------------------------------------------------------------------
(* The keymap and the LED table.                                               *)

(* A keycode on one key at most is lit at that key.                            *)
LEMMA ScannedAtOnlyKey ==
  ASSUME NEW map \in Keymaps, NEW k \in SlotKey \ Doubled(map)
  PROVE  \/ Carriers(map, k) = {} /\ ScannedLeds(map)[k] = NO_LED
         \/ \E p \in Position : Carriers(map, k) = {p} /\ ScannedLeds(map)[k] = Led(p)
  <1> DEFINE C == Carriers(map, k)
  <1>1. IsFiniteSet(C) /\ C \in SUBSET Position /\ C \in SUBSET Int
    BY CarriersTyped
  <1>2. Cardinality(C) \in Nat /\ ~ (Cardinality(C) > 1)
    BY <1>1, FS_CardinalityType DEF Doubled
  <1>3. CASE Cardinality(C) = 0
    <2>1. C = {}
      BY <1>1, <1>3, FS_EmptySet
    <2>2. QED BY <2>1 DEF ScannedLeds
  <1>4. CASE Cardinality(C) = 1
    <2>1. PICK p : C = {p}
      BY <1>1, <1>4, FS_Singleton
    <2>2. p \in Position /\ Max(C) = p
      BY <1>1, <2>1, MaxIsLargest
    <2>3. QED BY <2>1, <2>2 DEF ScannedLeds
  <1>5. QED BY <1>2, <1>3, <1>4

(* A single remap of the LED table follows the keymap, except on doubled keys. *)
LEMMA RemapFollows ==
  ASSUME NEW map \in Keymaps, NEW leds \in LedTables, NEW p \in Position, NEW keycode \in Keycode,
         NEW k \in SlotKey, k \notin Doubled(map), k \notin Doubled([map EXCEPT ![p] = keycode]),
         leds[k] = ScannedLeds(map)[k]
  PROVE  set_slot_led_for_keycode(leds, p, keycode)[k] = ScannedLeds([map EXCEPT ![p] = keycode])[k]
  <1> DEFINE new == [map EXCEPT ![p] = keycode]
  <1>1. new \in Keymaps
    BY DEF Keymaps
  <1>2. Carriers(new, k) = IF k = keycode THEN Carriers(map, k) \cup {p} ELSE Carriers(map, k) \ {p}
    BY DEF Carriers, Keymaps
  <1>3. \/ Carriers(new, k) = {} /\ ScannedLeds(new)[k] = NO_LED
        \/ \E q \in Position : Carriers(new, k) = {q} /\ ScannedLeds(new)[k] = Led(q)
    BY <1>1, ScannedAtOnlyKey
  <1>4. \/ Carriers(map, k) = {} /\ ScannedLeds(map)[k] = NO_LED
        \/ \E q \in Position : Carriers(map, k) = {q} /\ ScannedLeds(map)[k] = Led(q)
    BY ScannedAtOnlyKey
  <1>5. set_slot_led_for_keycode(leds, p, keycode)[k] =
           IF k = keycode THEN Led(p) ELSE IF leds[k] = Led(p) THEN NO_LED ELSE leds[k]
    BY DEF set_slot_led_for_keycode
  <1>6. CASE k = keycode
    BY <1>2, <1>3, <1>5, <1>6
  <1>7. CASE k # keycode
    BY <1>2, <1>3, <1>4, <1>5, <1>7, LedTyped
  <1>8. QED BY <1>6, <1>7

--------------------------------------------------------------------------------
(* The invariant.                                                              *)

HoldTyped ==
  /\ key_down_time \in [SlotKey -> 0 .. (TimerRange - 1)]
  /\ key_hold_pending \in [SlotKey -> BOOLEAN]
  /\ now \in 0 .. (TimerRange - 1)
  /\ down \in [Position -> 0 .. HoldThreshold \cup {Up}]

HistoryTyped ==
  /\ aimed \in [SlotKey -> Lit \cup {NO_LED}]
  /\ doubled \subseteq SlotKey
  /\ imported \in BOOLEAN

(* The history knows of every keycode that is doubled now.                     *)
DoubledKnown == Doubled(keymap) \subseteq doubled

FirmwareInv ==
  /\ keymap \in Keymaps
  /\ WireView
  /\ HoldTyped
  /\ HistoryTyped
  /\ DoubledKnown
  /\ LedsFollowKeymap
  /\ ColourStaysOnItsKey

(* It holds before the first key is pressed.                                   *)
LEMMA FirmwareInit == Init => FirmwareInv
  <1> SUFFICES ASSUME Init PROVE FirmwareInv
    OBVIOUS
  <1>1. keymap \in Keymaps
    BY FirmwareKeys DEF Init, Keymaps
  <1>2. WireView /\ ColourStaysOnItsKey
    BY InitMakesView DEF ColourStaysOnItsKey
  <1>3. {MaxSlots, NumKeys, HoldThreshold, TimerRange} \subseteq Nat \ {0}
    BY FirmwareSizes
  <1>4. HoldTyped
    BY <1>3 DEF Init, HoldTyped, Up
  <1>5. HistoryTyped
    BY DEF Init, HistoryTyped, Doubled
  <1>6. DoubledKnown /\ LedsFollowKeymap
    BY DEF Init, DoubledKnown, LedsFollowKeymap
  <1>7. QED BY <1>1, <1>2, <1>4, <1>5, <1>6 DEF FirmwareInv

(* The timer counts modulo its range.                                          *)
LEMMA TimerWraps ==
  ASSUME NEW t \in 0 .. (TimerRange - 1)
  PROVE  (t + 1) % TimerRange \in 0 .. (TimerRange - 1)
  <1>1. TimerRange \in Nat \ {0}
    BY FirmwareSizes
  <1>2. QED BY <1>1

(* A remap, a reset or an import: what each does to the keymap's own part.     *)
LEMMA RemapStep ==
  ASSUME FirmwareInv,
         NEW p \in Position, NEW keycode \in Keycode, SetKeycode(p, keycode)
  PROVE  FirmwareInv'
  <1> USE DEF FirmwareInv
  <1> DEFINE leds == set_slot_led_for_keycode(slot_led, p, keycode)
  <1>1. keymap' \in Keymaps
    BY DEF SetKeycode, Keymaps
  <1>2. leds \in LedTables
    BY RemapIsTable DEF WireView
  <1>3. WireView' /\ \A w \in DOMAIN slot_states' : slot_states'[w] = "off"
    BY <1>2, RebuildMakesView DEF SetKeycode
  <1>4. HoldTyped'
    BY DEF SetKeycode, HoldTyped, holdVars
  <1>5. HistoryTyped' /\ DoubledKnown'
    BY DEF SetKeycode, HistoryTyped, DoubledKnown, Doubled
  <1>6. LedsFollowKeymap'
    <2>1. SUFFICES ASSUME ~ imported, NEW k \in SlotKey, k \notin doubled'
                   PROVE  slot_led'[k] = ScannedLeds(keymap')[k]
      BY DEF SetKeycode, LedsFollowKeymap
    <2>2. k \notin Doubled(keymap) /\ k \notin Doubled(keymap') /\ k \notin doubled
      BY <2>1 DEF SetKeycode, DoubledKnown
    <2>3. slot_led[k] = ScannedLeds(keymap)[k]
      BY <2>1, <2>2 DEF LedsFollowKeymap
    <2>4. slot_led' = leds /\ keymap' = [keymap EXCEPT ![p] = keycode]
      BY DEF SetKeycode, rebuild_dense
    <2>5. k \notin Doubled([keymap EXCEPT ![p] = keycode]) /\ slot_led \in LedTables
      BY <2>2, <2>4 DEF WireView
    <2>6. leds[k] = ScannedLeds([keymap EXCEPT ![p] = keycode])[k]
      BY <2>1, <2>2, <2>3, <2>5, RemapFollows
    <2>7. QED BY <2>4, <2>6
  <1>7. ColourStaysOnItsKey'
    BY <1>3 DEF ColourStaysOnItsKey
  <1>8. QED BY <1>1, <1>3, <1>4, <1>5, <1>6, <1>7

(* A reset of the keymap keeps the two tables in step.                         *)
LEMMA ResetStep ==
  ASSUME FirmwareInv, ResetKeymap
  PROVE  FirmwareInv'
  <1> USE DEF FirmwareInv
  <1>1. keymap' \in Keymaps /\ static_keymap \in Keymaps
    BY FirmwareKeys DEF ResetKeymap, Keymaps
  <1>2. WireView' /\ \A w \in DOMAIN slot_states' : slot_states'[w] = "off"
    BY <1>1, ScanIsTable, RebuildMakesView DEF ResetKeymap
  <1>3. HoldTyped'
    BY DEF ResetKeymap, HoldTyped, holdVars
  <1>4. HistoryTyped' /\ DoubledKnown'
    BY DEF ResetKeymap, HistoryTyped, DoubledKnown, Doubled
  <1>5. LedsFollowKeymap' /\ ColourStaysOnItsKey'
    BY <1>2 DEF ResetKeymap, rebuild_dense, LedsFollowKeymap, ColourStaysOnItsKey
  <1>6. QED BY <1>1, <1>2, <1>3, <1>4, <1>5

(* So does an import, refreshed at each key or once at its end.                *)
LEMMA ImportStep ==
  ASSUME FirmwareInv, NEW map \in [Position -> Keycode], ImportKeymap(map)
  PROVE  FirmwareInv'
  <1> USE DEF FirmwareInv
  <1>1. keymap' \in Keymaps
    BY DEF ImportKeymap, Keymaps
  <1>2. WireView' /\ ColourStaysOnItsKey' /\ LedsFollowKeymap'
    BY DEF ImportKeymap, WireView, ColourStaysOnItsKey, LedsFollowKeymap, tableVars
  <1>3. HoldTyped'
    BY DEF ImportKeymap, HoldTyped, holdVars
  <1>4. HistoryTyped' /\ DoubledKnown'
    BY DEF ImportKeymap, HistoryTyped, DoubledKnown, Doubled
  <1>5. QED BY <1>1, <1>2, <1>3, <1>4

(* A message of the host stores a state for the LED the slot has now.          *)
LEMMA MsgSlotStep ==
  ASSUME FirmwareInv, NEW w \in SlotKey, NEW state \in States, MsgSlot(w, state)
  PROVE  FirmwareInv'
  <1> USE DEF FirmwareInv
  <1>1. UNCHANGED <<keymap, slot_led, dense_of, dense_led, holdVars, down, doubled, imported>>
    BY DEF MsgSlot
  <1>2. dense_led \in [Wires(slot_led) -> Lit] /\ slot_states \in [Wires(slot_led) -> States]
        /\ aimed \in [SlotKey -> Lit \cup {NO_LED}]
    BY ViewTyped DEF HistoryTyped
  <1>3. CASE w \in DOMAIN slot_states
    <2>1. slot_states' = [slot_states EXCEPT ![w] = state] /\ aimed' = [aimed EXCEPT ![w] = dense_led[w]]
          /\ dense_led[w] \in Lit
      BY <1>2, <1>3 DEF MsgSlot
    <2>2. slot_states' \in [Wires(slot_led) -> States] /\ aimed' \in [SlotKey -> Lit \cup {NO_LED}]
      BY <1>2, <2>1
    <2>3. WireView' /\ HistoryTyped'
      BY <1>1, <2>2 DEF WireView, HistoryTyped
    <2>4. ColourStaysOnItsKey'
      BY <1>1, <1>2, <2>1 DEF ColourStaysOnItsKey
    <2>5. QED BY <1>1, <2>3, <2>4 DEF HoldTyped, DoubledKnown, LedsFollowKeymap, holdVars
  <1>4. CASE w \notin DOMAIN slot_states
    <2>1. UNCHANGED <<slot_states, aimed>>
      BY <1>4 DEF MsgSlot
    <2>2. QED
      BY <1>1, <2>1 DEF WireView, HistoryTyped, ColourStaysOnItsKey, HoldTyped, DoubledKnown,
                        LedsFollowKeymap, holdVars
  <1>5. QED BY <1>3, <1>4

(* Keys, scans and pings leave the tables alone.                               *)
LEMMA KeysStep ==
  ASSUME FirmwareInv,
         \/ \E p \in Pressed : Press(p) \/ Release(p)
         \/ Scan \/ MsgPing \/ UNCHANGED vars
  PROVE  FirmwareInv'
  <1> USE DEF FirmwareInv
  <1>1. UNCHANGED <<keymap, tableVars, historyVars>>
    BY DEF Press, Release, Scan, MsgPing, vars
  <1>2. keymap' \in Keymaps /\ WireView' /\ ColourStaysOnItsKey' /\ LedsFollowKeymap'
        /\ HistoryTyped' /\ DoubledKnown'
    BY <1>1 DEF WireView, ColourStaysOnItsKey, LedsFollowKeymap, HistoryTyped, DoubledKnown,
                tableVars, historyVars
  <1>3. ASSUME NEW p \in Pressed, Press(p) PROVE HoldTyped'
    <2>1. p \in Position /\ 0 \in 0 .. HoldThreshold
      BY FirmwareKeys, FirmwareSizes
    <2>2. Wire(p) # AI_AGENT_NO_SLOT => Wire(p) \in SlotKey
      BY ViewTyped DEF Wire
    <2>3. QED BY <1>3, <2>1, <2>2 DEF Press, HoldTyped, holdVars
  <1>4. ASSUME NEW p \in Pressed, Release(p) PROVE HoldTyped'
    BY <1>4, FirmwareKeys DEF Release, HoldTyped
  <1>5. ASSUME Scan PROVE HoldTyped'
    <2>1. HoldThreshold \in Nat
      BY FirmwareSizes
    <2>2. now' \in 0 .. (TimerRange - 1)
      BY <1>5, TimerWraps DEF Scan, HoldTyped
    <2>3. down' \in [Position -> 0 .. HoldThreshold \cup {Up}]
      BY <1>5, <2>1 DEF Scan, HoldTyped, Up
    <2>4. QED BY <1>5, <2>2, <2>3 DEF Scan, HoldTyped
  <1>6. ASSUME MsgPing \/ UNCHANGED vars PROVE HoldTyped'
    BY <1>6 DEF MsgPing, vars, HoldTyped, holdVars
  <1>7. QED BY <1>2, <1>3, <1>4, <1>5, <1>6

(* The invariant holds in every state of the firmware.                         *)
THEOREM FirmwareInvariant == Spec => []FirmwareInv
  <1>1. FirmwareInv /\ [Next]_vars => FirmwareInv'
    BY RemapStep, ResetStep, ImportStep, MsgSlotStep, KeysStep DEF Next
  <1>2. QED BY <1>1, FirmwareInit, PTL DEF Spec

(* The tables, timers and displays stay in range on every board:               *)
(* FirmwareTypeOK.                                                             *)
THEOREM FirmwareTypeCorrect == Spec => []FirmwareTypeOK
  <1>1. FirmwareInv => FirmwareTypeOK
    BY ViewTyped DEF FirmwareInv, FirmwareTypeOK, HoldTyped, HistoryTyped, Keymaps
  <1>2. QED BY <1>1, FirmwareInvariant, PTL

(* Every wire index lights a key of its own, the one that reports it, after    *)
(* any remapping: DenseAgrees.                                                 *)
THEOREM FirmwareDenseAgrees == Spec => []DenseAgrees
  <1>1. FirmwareInv => DenseAgrees
    BY ViewAgrees DEF FirmwareInv
  <1>2. QED BY <1>1, FirmwareInvariant, PTL

(* Single remaps and resets keep the LED table a scan would build, but for the *)
(* keycodes once on two keys and for imports: LedsFollowKeymap.                *)
THEOREM FirmwareLedsFollowKeymap == Spec => []LedsFollowKeymap
  <1>1. FirmwareInv => LedsFollowKeymap
    BY DEF FirmwareInv
  <1>2. QED BY <1>1, FirmwareInvariant, PTL

(* No remap carries a colour to another key: ColourStaysOnItsKey.              *)
THEOREM FirmwareColourStays == Spec => []ColourStaysOnItsKey
  <1>1. FirmwareInv => ColourStaysOnItsKey
    BY DEF FirmwareInv
  <1>2. QED BY <1>1, FirmwareInvariant, PTL

--------------------------------------------------------------------------------
(* Holds.  A pending hold is that of a key that has been down ever since, and  *)
(* not yet for the whole threshold; so it is reported when the threshold is    *)
(* reached and the timer, however often it wrapped, is past the press by just  *)
(* as much.  A remap renumbers the wire indices under a held key, so this is   *)
(* of the time in which the numbering stays.                                   *)

(* The scans since w was pressed, were the timer at time.                      *)
TimerPast(w, time, d) ==
  time = key_down_time[w] + d \/ time = key_down_time[w] + d - TimerRange

HoldsPending ==
  \A w \in SlotKey : key_hold_pending[w] =>
    \E p \in Position :
      Wire(p) = w /\ down[p] \in 0 .. (HoldThreshold - 1) /\ TimerPast(w, now, down[p])

NumberingStays == UNCHANGED <<keymap, dense_of>>

(* The subtraction in timer_elapsed() survives a wrap.                         *)
LEMMA ElapsedIsPast ==
  ASSUME HoldTyped, NEW w \in SlotKey, NEW time \in 0 .. (TimerRange - 1),
         NEW d \in 0 .. HoldThreshold, TimerPast(w, time, d)
  PROVE  Elapsed(w, time) = d
  <1> DEFINE k == key_down_time[w]
  <1>1. TimerRange \in Nat \ {0} /\ d \in 0 .. (TimerRange - 1) /\ k \in 0 .. (TimerRange - 1)
    BY FirmwareSizes, TimerOutlastsHold DEF HoldTyped
  <1> HIDE DEF k
  <1>2. CASE time = k + d
    <2>1. time - k = d
      BY <1>1, <1>2
    <2>2. (time - k) % TimerRange = d
      BY <1>1, <2>1
    <2>3. QED BY <2>2 DEF Elapsed, k
  <1>3. CASE time = k + d - TimerRange
    <2>1. time - k = d - TimerRange
      BY <1>1, <1>3
    <2>2. (d - TimerRange) % TimerRange = d
      BY <1>1
    <2>3. QED BY <2>1, <2>2 DEF Elapsed, k
  <1>4. QED BY <1>2, <1>3 DEF TimerPast, k

(* One more scan is one more on the timer.                                     *)
LEMMA ScanCounts ==
  ASSUME HoldTyped, NEW w \in SlotKey, NEW d \in 0 .. (HoldThreshold - 1), TimerPast(w, now, d)
  PROVE  TimerPast(w, (now + 1) % TimerRange, d + 1)
  <1>1. /\ TimerRange \in Nat \ {0} /\ HoldThreshold \in Nat /\ HoldThreshold < TimerRange
        /\ now \in 0 .. (TimerRange - 1) /\ key_down_time[w] \in 0 .. (TimerRange - 1)
    BY FirmwareSizes, TimerOutlastsHold DEF HoldTyped
  <1>2. CASE now + 1 = TimerRange
    <2>1. (now + 1) % TimerRange = 0
      BY <1>1, <1>2
    <2>2. QED BY <1>1, <1>2, <2>1 DEF TimerPast
  <1>3. CASE now + 1 \in 0 .. (TimerRange - 1)
    <2>1. (now + 1) % TimerRange = now + 1
      BY <1>1, <1>3
    <2>2. QED BY <1>1, <2>1 DEF TimerPast
  <1>4. QED BY <1>1, <1>2, <1>3

(* A key with a wire index is one of those the pad has now.                    *)
LEMMA WireTyped ==
  ASSUME FirmwareInv, NEW p \in Position
  PROVE  /\ Wire(p) # AI_AGENT_NO_SLOT => keymap[p] \in SlotKey /\ Wire(p) \in DOMAIN slot_states
         /\ Wire(p) # AI_AGENT_NO_SLOT => Wire(p) \in SlotKey
         /\ \A q \in Position : Wire(p) # AI_AGENT_NO_SLOT /\ Wire(q) = Wire(p) => keymap[q] = keymap[p]
  <1>1. slot_led \in LedTables /\ DOMAIN slot_states = Wires(slot_led)
        /\ dense_of = [k \in SlotKey |-> IF k \in Assigned(slot_led) THEN WireIndex(slot_led, k)
                                         ELSE AI_AGENT_NO_SLOT]
    BY DEF FirmwareInv, WireView
  <1>2. ASSUME NEW q \in Position, Wire(q) # AI_AGENT_NO_SLOT
        PROVE  keymap[q] \in Assigned(slot_led) /\ Wire(q) = WireIndex(slot_led, keymap[q])
    BY <1>1, <1>2 DEF Wire
  <1>3. QED BY <1>1, <1>2, WiresTyped, WiresNumberKeys

(* A scan reports the holds that are due, of keys that are down.               *)
LEMMA ScanHolds ==
  ASSUME FirmwareInv, HoldsPending, Scan
  PROVE  HoldsPending' /\ HoldNeedsKey'
  <1>1. HoldTyped /\ HoldThreshold \in Nat \ {0} /\ now' = (now + 1) % TimerRange
        /\ now' \in 0 .. (TimerRange - 1)
    BY FirmwareSizes, TimerWraps DEF FirmwareInv, HoldTyped, Scan
  <1>2. UNCHANGED <<keymap, dense_of, key_down_time, slot_states>>
    BY DEF Scan, tableVars
  <1>3. ASSUME NEW w \in SlotKey, key_hold_pending[w]
        PROVE  \E p \in Position :
                 /\ Wire(p) = w /\ Wire(p)' = w /\ w \in DOMAIN slot_states
                 /\ down'[p] \in 1 .. HoldThreshold
                 /\ TimerPast(w, now, down[p])'
                 /\ Elapsed(w, now') = down'[p]
    <2>1. PICK p \in Position :
             Wire(p) = w /\ down[p] \in 0 .. (HoldThreshold - 1) /\ TimerPast(w, now, down[p])
      BY <1>3 DEF HoldsPending
    <2>2. w \in DOMAIN slot_states
      BY <2>1, WireTyped DEF SlotKey, AI_AGENT_NO_SLOT
    <2>3. down'[p] = down[p] + 1
      BY <1>1, <2>1 DEF Scan, Up
    <2>4. TimerPast(w, now', down'[p])
      BY <1>1, <2>1, <2>3, ScanCounts
    <2>5. Elapsed(w, now') = down'[p] /\ down'[p] \in 1 .. HoldThreshold
      BY <1>1, <2>1, <2>3, <2>4, ElapsedIsPast
    <2>6. TimerPast(w, now, down[p])' /\ Wire(p)' = w
      BY <1>2, <2>1, <2>4 DEF TimerPast, Wire
    <2>7. QED BY <2>1, <2>2, <2>5, <2>6
  <1>4. HoldsPending'
    <2>1. SUFFICES ASSUME NEW w \in SlotKey, key_hold_pending'[w]
                   PROVE  \E p \in Position : /\ Wire(p)' = w /\ down'[p] \in 0 .. (HoldThreshold - 1)
                                              /\ TimerPast(w, now, down[p])'
      BY DEF HoldsPending
    <2>2. key_hold_pending[w] /\ w \notin HoldIsDue(now')
      BY <2>1 DEF Scan
    <2>3. PICK p \in Position :
                 /\ Wire(p)' = w /\ w \in DOMAIN slot_states
                 /\ down'[p] \in 1 .. HoldThreshold
                 /\ TimerPast(w, now, down[p])'
                 /\ Elapsed(w, now') = down'[p]
      BY <1>3, <2>2
    <2>4. down'[p] < HoldThreshold
      BY <1>1, <2>2, <2>3 DEF HoldIsDue
    <2>5. QED BY <1>1, <2>3, <2>4 DEF TimerPast
  <1>5. HoldNeedsKey'
    <2>1. SUFFICES ASSUME NEW w \in HoldIsDue(now')
                   PROVE  \E p \in Position : down'[p] >= HoldThreshold /\ Wire(p)' = w
      BY DEF HoldNeedsKey, Scan
    <2>2. w \in SlotKey /\ key_hold_pending[w] /\ Elapsed(w, now') >= HoldThreshold
      BY WiresTyped DEF HoldIsDue, FirmwareInv, WireView
    <2>3. QED BY <1>3, <2>2
  <1>6. QED BY <1>4, <1>5

(* Every step keeps the invariant while the numbering stays.                   *)
LEMMA HoldsStep ==
  ASSUME FirmwareInv, HoldsPending, [Next]_vars, HoldNeedsKey, NumberingStays
  PROVE  HoldsPending' /\ HoldNeedsKey'
  <1> USE DEF NumberingStays
  <1>1. HoldTyped /\ HoldThreshold \in Nat \ {0}
    BY FirmwareSizes DEF FirmwareInv
  <1>2. \A p \in Position : Wire(p)' = Wire(p)
    BY DEF Wire
  <1>3. ASSUME UNCHANGED <<holdVars, down>> PROVE HoldsPending'
    BY <1>2, <1>3 DEF HoldsPending, TimerPast, holdVars
  <1>4. ASSUME \A report \in reports' : report.t # "key_held" PROVE HoldNeedsKey'
    BY <1>4 DEF HoldNeedsKey
  <1>5. CASE UNCHANGED vars
    BY <1>2, <1>3, <1>5 DEF vars, HoldNeedsKey
  <1>6. ASSUME NEW p \in Pressed, Press(p) PROVE HoldsPending' /\ HoldNeedsKey'
    <2>1. p \in Position /\ down[p] = Up /\ down' = [down EXCEPT ![p] = 0] /\ now' = now
      BY <1>6, FirmwareKeys DEF Press, holdVars
    <2>2. \A q \in Position : q # p => down'[q] = down[q]
      BY <1>1, <2>1 DEF HoldTyped
    <2>3. HoldNeedsKey'
      BY <1>4, <1>6 DEF Press
    <2>4. CASE Wire(p) = AI_AGENT_NO_SLOT
      <3>1. UNCHANGED holdVars
        BY <1>6, <2>4 DEF Press
      <3>2. \A q \in Position : down[q] \in 0 .. (HoldThreshold - 1) => q # p
        BY <2>1 DEF Up
      <3>3. HoldsPending'
        BY <1>2, <2>2, <3>1, <3>2 DEF HoldsPending, TimerPast, holdVars
      <3>4. QED BY <2>3, <3>3
    <2>5. CASE Wire(p) # AI_AGENT_NO_SLOT
      <3>1. Wire(p) \in SlotKey
        BY <2>1, <2>5, WireTyped
      <3>2. /\ key_down_time' = [key_down_time EXCEPT ![Wire(p)] = now]
            /\ key_hold_pending' = [key_hold_pending EXCEPT ![Wire(p)] = TRUE]
        BY <1>6, <2>5 DEF Press
      <3>3. SUFFICES ASSUME NEW w \in SlotKey, key_hold_pending'[w]
                     PROVE  \E q \in Position : /\ Wire(q)' = w /\ down'[q] \in 0 .. (HoldThreshold - 1)
                                                /\ TimerPast(w, now, down[q])'
        BY <2>3 DEF HoldsPending
      <3>4. CASE w = Wire(p)
        <4>1. down'[p] = 0 /\ key_down_time'[w] = now /\ now \in Int /\ key_down_time'[w] \in Int
          BY <1>1, <2>1, <3>1, <3>2, <3>4 DEF HoldTyped
        <4>2. TimerPast(w, now, down[p])'
          BY <2>1, <4>1 DEF TimerPast
        <4>3. QED BY <1>1, <1>2, <2>1, <3>4, <4>1, <4>2
      <3>5. CASE w # Wire(p)
        <4>1. key_hold_pending[w] /\ key_down_time'[w] = key_down_time[w]
          BY <1>1, <3>2, <3>3, <3>5 DEF HoldTyped
        <4>2. PICK q \in Position :
                 Wire(q) = w /\ down[q] \in 0 .. (HoldThreshold - 1) /\ TimerPast(w, now, down[q])
          BY <4>1 DEF HoldsPending
        <4>3. q # p
          BY <3>5, <4>2
        <4>4. QED BY <1>2, <2>1, <2>2, <4>1, <4>2, <4>3 DEF TimerPast
      <3>6. QED BY <3>4, <3>5
    <2>6. QED BY <2>4, <2>5
  <1>7. ASSUME NEW p \in Pressed, Release(p) PROVE HoldsPending' /\ HoldNeedsKey'
    <2>1. p \in Position /\ down' = [down EXCEPT ![p] = Up] /\ UNCHANGED <<now, key_down_time>>
      BY <1>7, FirmwareKeys DEF Release
    <2>2. \A q \in Position : q # p => down'[q] = down[q]
      BY <1>1, <2>1 DEF HoldTyped
    <2>3. \A w \in SlotKey : key_hold_pending'[w] => key_hold_pending[w] /\ w # Wire(p)
      BY <1>7 DEF Release
    <2>4. HoldsPending'
      BY <1>2, <2>1, <2>2, <2>3 DEF HoldsPending, TimerPast
    <2>5. QED BY <1>4, <1>7, <2>4 DEF Release
  <1>8. CASE Scan
    BY <1>8, ScanHolds
  <1>9. CASE MsgPing \/ (\E w \in SlotKey, state \in States : MsgSlot(w, state))
    BY <1>3, <1>4, <1>9 DEF MsgPing, MsgSlot
  <1>10. CASE \/ \E p \in Position, keycode \in Keycode : SetKeycode(p, keycode)
              \/ ResetKeymap
              \/ \E map \in [Position -> Keycode] : ImportKeymap(map)
    BY <1>3, <1>4, <1>10 DEF SetKeycode, ResetKeymap, ImportKeymap
  <1>11. QED BY <1>5, <1>6, <1>7, <1>8, <1>9, <1>10 DEF Next

(* No key is down in the initial state.                                        *)
LEMMA HoldsInit == Init => HoldsPending /\ HoldNeedsKey
  BY DEF Init, HoldsPending, HoldNeedsKey

(* A key down for the whole threshold has no hold pending: nobody else's key   *)
(* keeps it alive.                                                             *)
LEMMA HoldsReported ==
  ASSUME FirmwareInv, HoldsPending
  PROVE  HoldIsReported
  <1>1. SUFFICES ASSUME NEW p \in Position, down[p] >= HoldThreshold,
                        Carriers(keymap, keymap[p]) = {p}, Wire(p) # AI_AGENT_NO_SLOT,
                        key_hold_pending[Wire(p)]
                 PROVE  FALSE
    BY DEF HoldIsReported
  <1>2. Wire(p) \in SlotKey
    BY <1>1, WireTyped
  <1>3. PICK q \in Position : Wire(q) = Wire(p) /\ down[q] \in 0 .. (HoldThreshold - 1)
    BY <1>1, <1>2 DEF HoldsPending
  <1>4. keymap[q] = keymap[p]
    BY <1>1, <1>3, WireTyped
  <1>5. q = p
    BY <1>1, <1>4 DEF Carriers
  <1>6. HoldThreshold \in Nat
    BY FirmwareSizes
  <1>7. QED BY <1>1, <1>3, <1>5, <1>6

(* As long as the numbering stays, holds are reported of keys that are down    *)
(* for the threshold, and of all of them.                                      *)
THEOREM HoldsWhileNumberingStays ==
  Spec /\ [][NumberingStays]_vars => [](HoldNeedsKey /\ HoldIsReported)
  <1>1. FirmwareInv /\ HoldsPending /\ HoldNeedsKey /\ [Next]_vars /\ [NumberingStays]_vars
          => HoldsPending' /\ HoldNeedsKey'
    <2>1. UNCHANGED vars => NumberingStays
      BY DEF vars, tableVars, NumberingStays
    <2>2. QED BY <2>1, HoldsStep
  <1>2. FirmwareInv /\ HoldsPending => HoldIsReported
    BY HoldsReported
  <1>3. QED BY <1>1, <1>2, HoldsInit, FirmwareInvariant, PTL DEF Spec

(* A keymap built without VIA cannot be remapped at all.                       *)
LEMMA FixedNumbering ==
  ASSUME ~ ViaEnable
  PROVE  [Next]_vars => [NumberingStays]_vars
  BY DEF Next, Press, Release, Scan, MsgPing, MsgSlot, SetKeycode, ResetKeymap, ImportKeymap,
         tableVars, NumberingStays

(* There a hold is only ever reported of a key that is down, for as long as    *)
(* the threshold: HoldNeedsKey.                                                *)
THEOREM FirmwareHoldNeedsKey ==
  ASSUME ~ ViaEnable
  PROVE  Spec => []HoldNeedsKey
  BY FixedNumbering, HoldsWhileNumberingStays, PTL DEF Spec

(* And a key held that long has had its hold reported: HoldIsReported.         *)
THEOREM FirmwareHoldIsReported ==
  ASSUME ~ ViaEnable
  PROVE  Spec => []HoldIsReported
  BY FixedNumbering, HoldsWhileNumberingStays, PTL DEF Spec

--------------------------------------------------------------------------------
(* The bytes: PadOnWire's properties.                                          *)

(* A padded report has Size bytes, and its first four are those given or 0.    *)
LEMMA PaddedReport ==
  ASSUME NEW bytes \in Seq(Byte), Len(bytes) <= 4
  PROVE  /\ Padded(bytes) \in Seq(Byte)
         /\ Len(Padded(bytes)) = Size
         /\ Padded(bytes) # <<>>
         /\ \A k \in 1 .. 4 : Padded(bytes)[k] = IF k <= Len(bytes) THEN bytes[k] ELSE 0
  <1>1. Size \in Nat /\ Size >= 4
    BY SizeAssumption
  <1>2. ASSUME NEW k \in 1 .. Size, k <= Len(bytes) PROVE bytes[k] \in Byte
    BY <1>1, <1>2
  <1>3. 0 \in Byte
    BY DEF Byte
  <1>4. Padded(bytes) \in [1 .. Size -> Byte]
    BY <1>2, <1>3 DEF Padded
  <1>5. Padded(bytes) \in Seq(Byte) /\ Len(Padded(bytes)) = Size
    BY <1>1, <1>4
  <1>6. Padded(bytes) # <<>>
    BY <1>1, <1>5
  <1>7. QED BY <1>1, <1>5, <1>6 DEF Padded

(* Every state the daemon sends has a code of its own, that of "off" the last. *)
LEMMA StatesHaveCodes ==
  /\ \A state \in SlotStates \cup {"off"} :
        state \in DOMAIN STATE_TO_CODE /\ STATE_TO_CODE[state] \in 0 .. STATE_OFF
  /\ \A a, b \in DOMAIN STATE_TO_CODE : STATE_TO_CODE[a] = STATE_TO_CODE[b] => a = b
  /\ "off" \notin SlotStates
  <1>1. ASSUME NEW name \in DOMAIN StateTable
        PROVE  StateTable[name] \in (DOMAIN STATE_TO_CODE) \ {"off"}
    BY DEF StateTable, STATE_TO_CODE
  <1>2. ASSUME NEW event
        PROVE  hook_to_state(event) \in ((DOMAIN STATE_TO_CODE) \ {"off"}) \cup {NoState}
    BY <1>1 DEF hook_to_state, STATE_TO_CODE, NoState
  <1>3. SlotStates \in SUBSET ((DOMAIN STATE_TO_CODE) \ {"off"})
    BY <1>2 DEF SlotStates, STATE_TO_CODE
  <1>4. \A state \in DOMAIN STATE_TO_CODE : STATE_TO_CODE[state] \in 0 .. STATE_OFF
    BY DEF STATE_TO_CODE, STATE_OFF
  <1>5. \A a, b \in DOMAIN STATE_TO_CODE : STATE_TO_CODE[a] = STATE_TO_CODE[b] => a = b
    BY DEF STATE_TO_CODE, STATE_OFF
  <1>6. "off" \in DOMAIN STATE_TO_CODE
    BY DEF STATE_TO_CODE
  <1>7. QED BY <1>3, <1>4, <1>5, <1>6

(* What a message to a slot looks like on the wire.                            *)
LEMMA SlotPacked ==
  ASSUME NEW i \in Byte, NEW state \in SlotStates \cup {"off"}
  PROVE  LET data == pack_for_hid(SentTo(i, state)) IN
         /\ data \in Seq(Byte) /\ Len(data) = Size
         /\ data # <<>> /\ data[1] = MSG_SLOT /\ data[2] = i /\ data[3] = STATE_TO_CODE[state]
  <1> DEFINE bytes == <<MSG_SLOT, i, STATE_TO_CODE[state]>>
  <1>1. STATE_TO_CODE[state] \in Byte /\ MSG_SLOT \in Byte
    BY StatesHaveCodes DEF Byte, STATE_OFF, MSG_SLOT
  <1>2. pack_for_hid(SentTo(i, state)) = Padded(bytes)
    BY DEF pack_for_hid, SentTo, pack_slot
  <1>3. bytes \in Seq(Byte) /\ 3 <= Len(bytes) /\ Len(bytes) <= 4
    BY <1>1
  <1>4. bytes[1] = MSG_SLOT /\ bytes[2] = i /\ bytes[3] = STATE_TO_CODE[state]
    OBVIOUS
  <1> HIDE DEF bytes
  <1>5. /\ Padded(bytes) \in Seq(Byte) /\ Len(Padded(bytes)) = Size /\ Padded(bytes) # <<>>
        /\ \A k \in 1 .. 3 : Padded(bytes)[k] = bytes[k]
    BY <1>3, PaddedReport
  <1>6. QED BY <1>2, <1>4, <1>5

(* What the pad reports looks like.                                            *)
LEMMA ReportsPacked ==
  ASSUME NEW i \in Byte
  PROVE  /\ KeyReport(i) \in Seq(Byte) /\ Len(KeyReport(i)) = Size /\ KeyReport(i) # <<>>
         /\ KeyReport(i)[1] = MSG_KEY /\ KeyReport(i)[2] = i
         /\ KeyHeldReport(i) \in Seq(Byte) /\ Len(KeyHeldReport(i)) = Size /\ KeyHeldReport(i) # <<>>
         /\ KeyHeldReport(i)[1] = MSG_KEY_HELD /\ KeyHeldReport(i)[2] = i
  <1>1. MSG_KEY \in Byte /\ MSG_KEY_HELD \in Byte
    BY DEF Byte, MSG_KEY, MSG_KEY_HELD
  <1>2. ASSUME NEW id \in Byte
        PROVE  LET data == Padded(<<id, i>>) IN
               data \in Seq(Byte) /\ Len(data) = Size /\ data # <<>> /\ data[1] = id /\ data[2] = i
    <2> DEFINE bytes == <<id, i>>
    <2>1. bytes \in Seq(Byte) /\ 2 <= Len(bytes) /\ Len(bytes) <= 4 /\ bytes[1] = id /\ bytes[2] = i
      OBVIOUS
    <2> HIDE DEF bytes
    <2>2. /\ Padded(bytes) \in Seq(Byte) /\ Len(Padded(bytes)) = Size /\ Padded(bytes) # <<>>
          /\ \A k \in 1 .. 2 : Padded(bytes)[k] = bytes[k]
      BY <2>1, PaddedReport
    <2>3. /\ Padded(bytes) \in Seq(Byte) /\ Len(Padded(bytes)) = Size /\ Padded(bytes) # <<>>
          /\ Padded(bytes)[1] = id /\ Padded(bytes)[2] = i
      BY <2>1, <2>2
    <2>4. QED BY <2>3 DEF bytes
  <1>3. QED BY <1>1, <1>2 DEF KeyReport, KeyHeldReport

(* What its hello looks like.                                                  *)
LEMMA HelloPacked ==
  ASSUME NEW device \in Devices, NEW n \in Byte
  PROVE  LET data == HelloReport(device, n) IN
         /\ data \in Seq(Byte) /\ Len(data) = Size /\ data # <<>>
         /\ data[1] = MSG_HELLO /\ data[2] = device /\ data[3] = n /\ data[4] = PROTOCOL_VERSION
  <1> DEFINE bytes == <<MSG_HELLO, device, n, PROTOCOL_VERSION>>
  <1>1. device \in Byte /\ MSG_HELLO \in Byte /\ PROTOCOL_VERSION \in Byte
    BY DEF Devices, Byte, MSG_HELLO, PROTOCOL_VERSION
  <1>2. bytes \in Seq(Byte) /\ 4 <= Len(bytes) /\ Len(bytes) <= 4
    BY <1>1
  <1>3. bytes[1] = MSG_HELLO /\ bytes[2] = device /\ bytes[3] = n /\ bytes[4] = PROTOCOL_VERSION
    OBVIOUS
  <1>4. HelloReport(device, n) = Padded(bytes)
    BY DEF HelloReport
  <1> HIDE DEF bytes
  <1>5. /\ Padded(bytes) \in Seq(Byte) /\ Len(Padded(bytes)) = Size /\ Padded(bytes) # <<>>
        /\ \A k \in 1 .. 4 : Padded(bytes)[k] = bytes[k]
    BY <1>2, PaddedReport
  <1>6. QED BY <1>3, <1>4, <1>5

(* The ping.                                                                   *)
LEMMA PingPacked ==
  /\ pack_ping \in Seq(Byte) /\ Len(pack_ping) = Size /\ pack_ping # <<>>
  /\ pack_ping[1] = MSG_PING
  <1> DEFINE bytes == <<MSG_PING, PROTOCOL_VERSION>>
  <1>1. bytes \in Seq(Byte) /\ 1 <= Len(bytes) /\ Len(bytes) <= 4 /\ bytes[1] = MSG_PING
    BY DEF Byte, MSG_PING, PROTOCOL_VERSION
  <1>2. pack_ping = Padded(bytes)
    BY DEF pack_ping
  <1> HIDE DEF bytes
  <1>3. /\ Padded(bytes) \in Seq(Byte) /\ Len(Padded(bytes)) = Size /\ Padded(bytes) # <<>>
        /\ Padded(bytes)[1] = bytes[1]
    BY <1>1, PaddedReport
  <1>4. QED BY <1>1, <1>2, <1>3

--------------------------------------------------------------------------------
(* What either side reads in what the other sent, for every index and state.   *)

(* The pad stores the slot and the state, for an index below its count.        *)
LEMMA SlotArrives ==
  ASSUME NEW i \in Byte, NEW state \in SlotStates \cup {"off"}, NEW count \in Nat
  PROVE  ai_agent_macropad_raw_hid_receive(pack_for_hid(SentTo(i, state)), count) =
           IF i < count THEN [t |-> "store", i |-> i, code |-> STATE_TO_CODE[state]] ELSE Ignored
  <1> DEFINE data == pack_for_hid(SentTo(i, state))
  <1>1. data # <<>> /\ data[1] = MSG_SLOT /\ data[2] = i /\ data[3] = STATE_TO_CODE[state] /\ Len(data) >= 3
    BY SlotPacked, SizeAssumption
  <1>2. STATE_TO_CODE[state] <= STATE_OFF
    BY StatesHaveCodes DEF STATE_OFF
  <1> HIDE DEF data
  <1>3. ai_agent_macropad_raw_hid_receive(data, count) =
           IF i < count THEN [t |-> "store", i |-> i, code |-> STATE_TO_CODE[state]] ELSE Ignored
    BY <1>1, <1>2 DEF ai_agent_macropad_raw_hid_receive, MSG_SLOT, MSG_PING
  <1>4. QED BY <1>3 DEF data

(* The daemon reads the key that was pressed or held.                          *)
LEMMA KeyArrives ==
  ASSUME NEW i \in Byte
  PROVE  /\ parse_report(KeyReport(i)) = [t |-> "key", i |-> i]
         /\ parse_report(KeyHeldReport(i)) = [t |-> "key_held", i |-> i]
  <1> DEFINE a == KeyReport(i)
             b == KeyHeldReport(i)
  <1>1. a[1] = MSG_KEY /\ a[2] = i /\ Len(a) = Size /\ b[1] = MSG_KEY_HELD /\ b[2] = i /\ Len(b) = Size
    BY ReportsPacked
  <1> HIDE DEF a, b
  <1>2. parse_report(a) = [t |-> "key", i |-> i] /\ parse_report(b) = [t |-> "key_held", i |-> i]
    BY <1>1, SizeAssumption DEF parse_report, MSG_KEY, MSG_KEY_HELD, MSG_HELLO
  <1>3. QED BY <1>2 DEF a, b

(* The daemon reads the device, its number of slots and the protocol.          *)
LEMMA HelloArrives ==
  ASSUME NEW device \in Devices, NEW n \in Byte
  PROVE  parse_report(HelloReport(device, n)) =
           [t |-> "hello", device |-> device, slots |-> n, protocol |-> PROTOCOL_VERSION]
  <1> DEFINE a == HelloReport(device, n)
  <1>1. a[1] = MSG_HELLO /\ a[2] = device /\ a[3] = n /\ a[4] = PROTOCOL_VERSION /\ Len(a) = Size
    BY HelloPacked
  <1> HIDE DEF a
  <1>2. parse_report(a) = [t |-> "hello", device |-> device, slots |-> n, protocol |-> PROTOCOL_VERSION]
    BY <1>1, SizeAssumption DEF parse_report, MSG_KEY, MSG_KEY_HELD, MSG_HELLO
  <1>3. QED BY <1>2 DEF a

--------------------------------------------------------------------------------
(* The constants of the wire format: MessagesMean and ReportsAreToldApart.     *)

(* Every message has its meaning, for every index and every state.             *)
LEMMA MessagesHaveMeaning == MessagesMean
  <1>1. ASSUME NEW count \in Counts, NEW state \in SlotStates \cup {"off"}, NEW index \in 0 .. 255
        PROVE  LET got == ai_agent_macropad_raw_hid_receive(pack_for_hid(SentTo(index, state)), count)
               IN /\ Packable(index, state)
                  /\ IF index < count
                     THEN got = [t |-> "store", i |-> index, code |-> STATE_TO_CODE[state]]
                     ELSE got = Ignored
    <2>1. index \in Byte /\ count \in Nat
      BY DEF Byte, Counts
    <2>2. Packable(index, state)
      BY <2>1, StatesHaveCodes DEF Packable
    <2>3. QED BY <2>1, <2>2, SlotArrives
  <1>2. ai_agent_macropad_raw_hid_receive(pack_ping, 0) = [t |-> "answer"]
    <2> DEFINE data == pack_ping
    <2>1. data # <<>> /\ data[1] = MSG_PING /\ ~(Len(data) < 2)
      BY PingPacked, SizeAssumption
    <2> HIDE DEF data
    <2>2. ai_agent_macropad_raw_hid_receive(data, 0) = [t |-> "answer"]
      BY <2>1 DEF ai_agent_macropad_raw_hid_receive, MSG_PING, MSG_SLOT
    <2>3. QED BY <2>2 DEF data
  <1>3. QED BY <1>1, <1>2, StatesHaveCodes, KeyArrives, HelloArrives DEF MessagesMean

(* A report is the pad's or VIA's, the daemon's or VIA's, by its first byte.   *)
LEMMA NotForThePad ==
  ASSUME NEW data \in Seq(Byte), data # <<>>, data[1] \notin {MSG_PING, MSG_SLOT}, NEW count
  PROVE  ai_agent_macropad_raw_hid_receive(data, count) = Foreign
  BY DEF ai_agent_macropad_raw_hid_receive

(* What begins with none of the three ids of the pad, the daemon drops.        *)
LEMMA NotForTheDaemon ==
  ASSUME NEW data \in Seq(Byte), data[1] \notin {MSG_HELLO, MSG_KEY, MSG_KEY_HELD}
  PROVE  parse_report(data) = Unread
  BY DEF parse_report

(* Nothing is read out of a report that was cut short.                         *)
LEMMA CutShort ==
  ASSUME NEW data \in Seq(Byte), Len(data) >= 4, NEW k \in 0 .. 3
  PROVE  LET cut == SubSeq(data, 1, k)
             fields == IF k = 0 THEN 4 ELSE IF data[1] = MSG_HELLO THEN 4 ELSE 2
         IN  /\ k < fields => parse_report(cut) = Unread
             /\ k < 3 => ai_agent_macropad_raw_hid_receive(cut, 12).t # "store"
  <1> DEFINE cut == SubSeq(data, 1, k)
  <1>0. cut \in Seq(Byte) /\ Len(cut) = k
    OBVIOUS
  <1>4. k # 0 => cut[1] = data[1]
    OBVIOUS
  <1>1. cut \in Seq(Byte) /\ Len(cut) = k /\ (k # 0 => cut[1] = data[1] /\ cut # <<>>)
        /\ (k = 0 => cut = <<>>)
    <2> HIDE DEF cut
    <2>1. QED BY <1>0, <1>4, SMT
  <1> HIDE DEF cut
  <1>2. ASSUME k < 4, k = 0 \/ data[1] = MSG_HELLO \/ k < 2 PROVE parse_report(cut) = Unread
    BY <1>1, <1>2 DEF parse_report, MSG_HELLO, MSG_KEY, MSG_KEY_HELD
  <1>3. ASSUME k < 3 PROVE ai_agent_macropad_raw_hid_receive(cut, 12).t # "store"
    BY <1>1, <1>3 DEF ai_agent_macropad_raw_hid_receive, Foreign, Ignored, MSG_PING, MSG_SLOT
  <1>5. QED BY <1>2, <1>3 DEF cut

(* The reports of the pad, of the daemon and of VIA, whole or cut short.       *)
LEMMA ToldApart == ReportsAreToldApart
  <1> DEFINE own == {pack_ping} \cup {pack_slot(i, state) : i \in {0, 34, 161}, state \in {"idle", "off"}}
             pads == {HelloReport(d, 12) : d \in Devices} \cup {KeyReport(33), KeyHeldReport(161)}
             vias == {ViaReport(id, a, b) : id \in ViaCommandIds \cup {255}, a \in {32, 34}, b \in {0, 35}}
  <1>1. ASSUME NEW report \in own
        PROVE  report \in Seq(Byte) /\ Len(report) >= 4 /\ report # <<>>
               /\ report[1] \in {MSG_PING, MSG_SLOT}
    <2>1. CASE report = pack_ping
      BY <2>1, PingPacked, SizeAssumption
    <2>2. ASSUME NEW i \in {0, 34, 161}, NEW state \in {"idle", "off"}, report = pack_slot(i, state)
          PROVE  report \in Seq(Byte) /\ Len(report) >= 4 /\ report # <<>> /\ report[1] = MSG_SLOT
      <3> DEFINE bytes == <<MSG_SLOT, i, STATE_TO_CODE[state]>>
      <3>1. STATE_TO_CODE[state] \in Byte /\ i \in Byte /\ MSG_SLOT \in Byte
        BY DEF STATE_TO_CODE, STATE_OFF, Byte, MSG_SLOT
      <3>2. bytes \in Seq(Byte) /\ 1 <= Len(bytes) /\ Len(bytes) <= 4 /\ bytes[1] = MSG_SLOT
        BY <3>1
      <3>3. report = Padded(bytes)
        BY <2>2 DEF pack_slot
      <3> HIDE DEF bytes
      <3>4. QED BY <3>2, <3>3, PaddedReport, SizeAssumption
    <2>3. QED BY <2>1, <2>2
  <1>2. ASSUME NEW report \in pads
        PROVE  report \in Seq(Byte) /\ Len(report) >= 4 /\ report # <<>>
               /\ report[1] \in {MSG_HELLO, MSG_KEY, MSG_KEY_HELD}
    <2>1. {12, 33, 161} \subseteq Byte
      BY DEF Byte
    <2>2. ASSUME NEW device \in Devices, report = HelloReport(device, 12)
          PROVE  report \in Seq(Byte) /\ Len(report) >= 4 /\ report # <<>> /\ report[1] = MSG_HELLO
      <3> HIDE DEF pads
      <3>1. QED BY <2>1, <2>2, HelloPacked, SizeAssumption
    <2>3. ASSUME NEW i \in {33, 161}, report = KeyReport(i) \/ report = KeyHeldReport(i)
          PROVE  report \in Seq(Byte) /\ Len(report) >= 4 /\ report # <<>>
                 /\ report[1] \in {MSG_KEY, MSG_KEY_HELD}
      <3> HIDE DEF pads
      <3>0. i \in Byte
        BY <2>1
      <3>1. CASE report = KeyReport(i)
        BY <3>0, <3>1, ReportsPacked, SizeAssumption
      <3>2. CASE report = KeyHeldReport(i)
        BY <3>0, <3>2, ReportsPacked, SizeAssumption
      <3>3. QED BY <2>3, <3>1, <3>2
    <2>4. QED BY <1>2, <2>2, <2>3
  <1>3. ASSUME NEW report \in vias
        PROVE  report \in Seq(Byte) /\ report # <<>> /\ report[1] \in ViaCommandIds \cup {255}
    <2>1. ASSUME NEW id \in ViaCommandIds \cup {255}, NEW a \in {32, 34}, NEW b \in {0, 35},
                 report = ViaReport(id, a, b)
          PROVE  report \in Seq(Byte) /\ report # <<>> /\ report[1] \in ViaCommandIds \cup {255}
      <3> HIDE DEF vias
      <3> DEFINE bytes == <<id, a, b>>
      <3>1. id \in Byte /\ a \in Byte /\ b \in Byte
        BY <2>1 DEF Byte, ViaCommandIds
      <3>2. bytes \in Seq(Byte) /\ 1 <= Len(bytes) /\ Len(bytes) <= 4 /\ bytes[1] = id
        BY <3>1
      <3>3. report = Padded(bytes)
        BY <2>1 DEF ViaReport
      <3> HIDE DEF bytes
      <3>4. QED BY <3>2, <3>3, PaddedReport
    <2> DEFINE ids == ViaCommandIds \cup {255}
    <2> HIDE DEF ids
    <2>2. \E id \in ids, a \in {32, 34}, b \in {0, 35} : report = ViaReport(id, a, b)
      BY <1>3, SMT DEF ids
    <2>3. QED BY <2>1, <2>2 DEF ids
  <1> HIDE DEF own, pads, vias
  <1>10. ASSUME NEW report \in vias
         PROVE  report[1] \notin {MSG_PING, MSG_SLOT, MSG_HELLO, MSG_KEY, MSG_KEY_HELD}
    <2>1. report[1] \in 1 .. 21 \cup {255}
      BY <1>3 DEF ViaCommandIds
    <2> QED
      BY <2>1 DEF MSG_PING, MSG_SLOT, MSG_HELLO, MSG_KEY, MSG_KEY_HELD
  <1>11. ASSUME NEW report \in own PROVE report[1] \notin {MSG_HELLO, MSG_KEY, MSG_KEY_HELD}
    BY <1>1 DEF MSG_PING, MSG_SLOT, MSG_HELLO, MSG_KEY, MSG_KEY_HELD
  <1>12. ASSUME NEW report \in pads PROVE report[1] \notin {MSG_PING, MSG_SLOT}
    BY <1>2 DEF MSG_PING, MSG_SLOT, MSG_HELLO, MSG_KEY, MSG_KEY_HELD
  <1>4. \A report \in own \cup vias : parse_report(report) = Unread
    <2>1. ASSUME NEW report \in own PROVE parse_report(report) = Unread
      BY <1>1, <1>11, NotForTheDaemon
    <2>2. ASSUME NEW report \in vias PROVE parse_report(report) = Unread
      BY <1>3, <1>10, NotForTheDaemon
    <2>3. QED BY <2>1, <2>2
  <1>5. \A report \in pads \cup vias : ai_agent_macropad_raw_hid_receive(report, 12) = Foreign
    <2>1. ASSUME NEW report \in pads PROVE ai_agent_macropad_raw_hid_receive(report, 12) = Foreign
      BY <1>2, <1>12, NotForThePad
    <2>2. ASSUME NEW report \in vias PROVE ai_agent_macropad_raw_hid_receive(report, 12) = Foreign
      BY <1>3, <1>10, NotForThePad
    <2>3. QED BY <2>1, <2>2
  <1> USE DEF MSG_PING, MSG_SLOT, MSG_HELLO, MSG_KEY, MSG_KEY_HELD
  <1>6. \A report \in own : ai_agent_macropad_raw_hid_receive(report, 12) # Foreign
    BY <1>1 DEF ai_agent_macropad_raw_hid_receive, Foreign, Ignored
  <1>7. \A report \in own \cup pads : report \in Seq(Byte) /\ Len(report) >= 4
    BY <1>1, <1>2
  <1>8. \A report \in own \cup pads, k \in 0 .. 3 :
           LET cut == SubSeq(report, 1, k)
               fields == IF k = 0 THEN 4 ELSE IF report[1] = MSG_HELLO THEN 4 ELSE 2
           IN /\ k < fields => parse_report(cut) = Unread
              /\ k < 3 => ai_agent_macropad_raw_hid_receive(cut, 12).t # "store"
    BY <1>7, CutShort
  <1> USE DEF own, pads, vias
  <1>9. QED
    <2>1. ReportsAreToldApart <=>
            /\ \A report \in own \cup vias : parse_report(report) = Unread
            /\ \A report \in pads \cup vias : ai_agent_macropad_raw_hid_receive(report, 12) = Foreign
            /\ \A report \in own : ai_agent_macropad_raw_hid_receive(report, 12) # Foreign
            /\ \A report \in own \cup pads, k \in 0 .. 3 :
                 LET cut == SubSeq(report, 1, k)
                     fields == IF k = 0 THEN 4 ELSE IF report[1] = MSG_HELLO THEN 4 ELSE 2
                 IN /\ k < fields => parse_report(cut) = Unread
                    /\ k < 3 => ai_agent_macropad_raw_hid_receive(cut, 12).t # "store"
      BY DEF ReportsAreToldApart
    <2> HIDE DEF own, pads, vias
    <2>2. QED BY <1>4, <1>5, <1>6, <1>8, <2>1

--------------------------------------------------------------------------------
(* The firmware's own part.                                                    *)

(* The count that hello reports is the number of wire indices, and fits.       *)
LEMMA DenseCount ==
  ASSUME WireView
  PROVE  dense_count \in Byte /\ dense_count \in Nat /\ DOMAIN slot_states = 0 .. (dense_count - 1)
  <1> DEFINE n == Cardinality(Assigned(slot_led))
  <1>1. IsFiniteSet(Assigned(slot_led)) /\ Assigned(slot_led) \in SUBSET SlotKey
    BY WiresTyped DEF WireView
  <1>2. MaxSlots \in Nat \ {0} /\ MaxSlots <= 255
    BY FirmwareSizes, IndexFitsByte DEF Byte
  <1>3. IsFiniteSet(SlotKey) /\ Cardinality(SlotKey) = MaxSlots
    BY <1>2, FS_Interval DEF SlotKey
  <1>4. n \in Nat /\ n <= MaxSlots
    BY <1>1, <1>3, FS_Subset, FS_CardinalityType
  <1>5. DOMAIN slot_states = 0 .. (n - 1)
    BY DEF WireView, Wires
  <1>6. Cardinality(0 .. (n - 1)) = n
    BY <1>4, FS_Interval
  <1>7. dense_count = n
    BY <1>5, <1>6 DEF dense_count
  <1>8. n \in Byte
    BY <1>2, <1>4 DEF Byte
  <1> HIDE DEF n
  <1>9. QED BY <1>4, <1>5, <1>7, <1>8

(* What the firmware ever reports.                                             *)
ReportsKnown ==
  \A report \in reports :
    \/ \E i \in Byte : report = [t |-> "key", i |-> i] \/ report = [t |-> "key_held", i |-> i]
    \/ \E n \in Byte : report = [t |-> "hello", slots |-> n]

(* Every step of the firmware reports bytes that fit.                          *)
LEMMA ReportsStep ==
  ASSUME FirmwareInv, ReportsKnown, [Next]_vars
  PROVE  ReportsKnown'
  <1>1. SlotKey \in SUBSET Byte
    BY FirmwareSizes, IndexFitsByte DEF SlotKey, Byte
  <1>2. CASE reports' = {} \/ reports' = reports
    BY <1>2 DEF ReportsKnown
  <1>3. ASSUME NEW p \in Pressed, Press(p) PROVE ReportsKnown'
    <2>1. Wire(p) # AI_AGENT_NO_SLOT => Wire(p) \in Byte
      BY <1>1, FirmwareKeys, WireTyped
    <2>2. QED BY <1>2, <1>3, <2>1 DEF Press, ReportsKnown
  <1>4. CASE Scan
    <2>1. HoldIsDue(now') \in SUBSET Byte
      BY <1>1, WiresTyped DEF HoldIsDue, FirmwareInv, WireView
    <2>2. QED BY <1>4, <2>1 DEF Scan, ReportsKnown
  <1>5. CASE MsgPing
    BY <1>5, DenseCount DEF MsgPing, ReportsKnown, FirmwareInv
  <1>6. QED
    BY <1>2, <1>3, <1>4, <1>5
    DEF Next, Release, MsgSlot, SetKeycode, ResetKeymap, ImportKeymap, vars

(* So it does in every state.                                                  *)
LEMMA ReportsInvariant == Spec => []ReportsKnown
  <1>1. Init => ReportsKnown
    BY DEF Init, ReportsKnown
  <1>2. QED BY <1>1, ReportsStep, FirmwareInvariant, PTL DEF Spec

(* Whatever the keymap made of the wire indices, a message arrives as what it  *)
(* was sent for, or at nothing, and so do the pad's reports: MessagesArrive.   *)
THEOREM FirmwareMessagesArrive == Spec => []MessagesArrive
  <1>1. ASSUME FirmwareInv, ReportsKnown PROVE MessagesArrive
    <2>1. ASSUME NEW w \in 0 .. MaxSlots, NEW state \in SlotStates \cup {"off"}
          PROVE  LET got == ai_agent_macropad_raw_hid_receive(pack_for_hid(SentTo(w, state)), dense_count)
                 IN IF w \in DOMAIN slot_states
                    THEN got = [t |-> "store", i |-> w, code |-> STATE_TO_CODE[state]]
                    ELSE got = Ignored
      <3>1. w \in Byte
        BY FirmwareSizes, IndexFitsByte DEF Byte
      <3>2. dense_count \in Nat /\ DOMAIN slot_states = 0 .. (dense_count - 1)
        BY <1>1, DenseCount DEF FirmwareInv
      <3>3. w \in DOMAIN slot_states <=> w < dense_count
        BY <3>1, <3>2 DEF Byte
      <3>4. QED BY <3>1, <3>2, <3>3, SlotArrives
    <2>2. ASSUME NEW report \in reports, NEW device \in Devices, NEW field \in DOMAIN report
          PROVE  parse_report(Sent(report, device))[field] = report[field]
      <3>1. ASSUME NEW i \in Byte, report = [t |-> "key", i |-> i]
            PROVE  parse_report(Sent(report, device))[field] = report[field]
        BY <3>1, KeyArrives DEF Sent
      <3>2. ASSUME NEW i \in Byte, report = [t |-> "key_held", i |-> i]
            PROVE  parse_report(Sent(report, device))[field] = report[field]
        BY <3>2, KeyArrives DEF Sent
      <3>3. ASSUME NEW n \in Byte, report = [t |-> "hello", slots |-> n]
            PROVE  parse_report(Sent(report, device))[field] = report[field]
        <4>1. Sent(report, device) = HelloReport(device, n)
          BY <3>3 DEF Sent
        <4>2. field \in {"t", "slots"} /\ report["t"] = "hello" /\ report["slots"] = n
          BY <3>3
        <4>3. QED BY <4>1, <4>2, HelloArrives
      <3>4. QED BY <1>1, <3>1, <3>2, <3>3 DEF ReportsKnown
    <2>3. QED BY <2>1, <2>2, MessagesHaveMeaning DEF MessagesArrive
  <1>2. QED BY <1>1, FirmwareInvariant, ReportsInvariant, PTL

(* Neither side mistakes its own messages, VIA's or part of one for a message  *)
(* of the other: NothingIsMistaken.                                            *)
THEOREM FirmwareNothingIsMistaken == Spec => []NothingIsMistaken
  <1>1. ASSUME FirmwareInv, ReportsKnown PROVE NothingIsMistaken
    <2>1. ASSUME NEW report \in reports, NEW device \in Devices
          PROVE  ai_agent_macropad_raw_hid_receive(Sent(report, device), dense_count) = Foreign
      <3> DEFINE data == Sent(report, device)
      <3>1. data \in Seq(Byte) /\ data # <<>> /\ data[1] \in {MSG_HELLO, MSG_KEY, MSG_KEY_HELD}
        <4>1. ASSUME NEW i \in Byte, report = [t |-> "key", i |-> i] \/ report = [t |-> "key_held", i |-> i]
              PROVE  data = KeyReport(i) \/ data = KeyHeldReport(i)
          BY <4>1 DEF Sent
        <4>2. ASSUME NEW n \in Byte, report = [t |-> "hello", slots |-> n]
              PROVE  data = HelloReport(device, n)
          BY <4>2 DEF Sent
        <4> HIDE DEF data
        <4>3. CASE \E i \in Byte : data = KeyReport(i) \/ data = KeyHeldReport(i)
          BY <4>3, ReportsPacked
        <4>4. CASE \E n \in Byte : data = HelloReport(device, n)
          BY <4>4, HelloPacked
        <4>5. QED BY <1>1, <4>1, <4>2, <4>3, <4>4 DEF ReportsKnown
      <3> HIDE DEF data
      <3>2. ai_agent_macropad_raw_hid_receive(data, dense_count) = Foreign
        BY <3>1, NotForThePad DEF MSG_PING, MSG_SLOT, MSG_HELLO, MSG_KEY, MSG_KEY_HELD
      <3>3. QED BY <3>2 DEF data
    <2>2. ASSUME NEW w \in DOMAIN slot_states, NEW state \in SlotStates \cup {"off"}
          PROVE  parse_report(pack_for_hid(SentTo(w, state))) = Unread
      <3>1. w \in Byte
        <4>1. SlotKey \in SUBSET Byte
          BY FirmwareSizes, IndexFitsByte DEF SlotKey, Byte
        <4>2. DOMAIN slot_states \in SUBSET SlotKey
          BY <1>1, WiresTyped DEF FirmwareInv, WireView
        <4>3. QED BY <4>1, <4>2
      <3>2. QED
        BY <3>1, SlotPacked, NotForTheDaemon DEF MSG_SLOT, MSG_HELLO, MSG_KEY, MSG_KEY_HELD
    <2>3. QED BY <2>1, <2>2, ToldApart DEF NothingIsMistaken
  <1>2. QED BY <1>1, FirmwareInvariant, ReportsInvariant, PTL
================================================================================
