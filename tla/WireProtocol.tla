------------------------------ MODULE WireProtocol ------------------------------
(* hid_protocol.py's reports, the pad link's use of them, and how the firmware *)
(* reads and writes the same bytes.  A report is a sequence of bytes, the      *)
(* first one at 1; nothing looks past the fourth, so Size may stand for 32.    *)
EXTENDS HookEvents, Integers, Sequences

CONSTANT Size       \* REPORT_SIZE

ASSUME SizeAssumption == Size \in Nat /\ Size >= 4

MSG_HELLO == 161
MSG_SLOT == 32
MSG_PING == 33
MSG_KEY == 34
MSG_KEY_HELD == 35

PROTOCOL_VERSION == 1

Byte == 0 .. 255

STATE_OFF == 31

STATE_TO_CODE ==
    [idle |-> 0, working |-> 1, waiting |-> 2, done |-> 3, error |-> 4, question |-> 5,
     tool_running |-> 6, tool_stalled |-> 7, off |-> STATE_OFF]

NoReport == <<>>     \* None

Padded(bytes) == [k \in 1 .. Size |-> IF k <= Len(bytes) THEN bytes[k] ELSE 0]

--------------------------------------------------------------------------------
(* The daemon's side.                                                          *)

pack_ping == Padded(<<MSG_PING, PROTOCOL_VERSION>>)

(* Defined where it does not raise.                                            *)
Packable(index, state) == index \in Byte /\ state \in DOMAIN STATE_TO_CODE

pack_slot(index, state) == Padded(<<MSG_SLOT, index, STATE_TO_CODE[state]>>)

(* Mutant: a cleared slot is an idle one.                                      *)
ClearIsIdle(obj) ==
    CASE obj.t = "slot" -> pack_slot(obj.i, obj.state)
      [] obj.t = "clear" -> pack_slot(obj.i, "idle")
      [] OTHER -> NoReport

pack_for_hid(obj) ==
    CASE obj.t = "slot" -> pack_slot(obj.i, obj.state)
      [] obj.t = "clear" -> pack_slot(obj.i, "off")
      [] OTHER -> NoReport

Unread == [t |-> "none"]

(* Mutant: a slot message is taken for a key.                                  *)
SlotIsKey(report) ==
    IF report # <<>> /\ report[1] \in {MSG_KEY, MSG_SLOT} /\ Len(report) >= 2
    THEN [t |-> "key", i |-> report[2]] ELSE Unread

parse_report(report) ==
    CASE Len(report) >= 4 /\ report[1] = MSG_HELLO ->
            [t |-> "hello", device |-> report[2], slots |-> report[3], protocol |-> report[4]]
      [] Len(report) >= 2 /\ report[1] = MSG_KEY -> [t |-> "key", i |-> report[2]]
      [] Len(report) >= 2 /\ report[1] = MSG_KEY_HELD -> [t |-> "key_held", i |-> report[2]]
      [] OTHER -> Unread

--------------------------------------------------------------------------------
(* The firmware's side.  VIA has the command ids below: a report the firmware  *)
(* does not claim is VIA's to read.                                            *)
ViaCommandIds == 1 .. 21

(* A report of VIA, whose answers repeat the id.                               *)
ViaReport(id, a, b) == Padded(<<id, a, b>>)

Foreign == [t |-> "foreign"]
Ignored == [t |-> "ignored"]

ai_agent_macropad_raw_hid_receive(data, count) ==
    CASE data = <<>> -> Foreign
      [] data # <<>> /\ data[1] = MSG_PING -> IF Len(data) < 2 THEN Ignored ELSE [t |-> "answer"]
      [] data # <<>> /\ data[1] = MSG_SLOT ->
            IF Len(data) >= 3 /\ data[2] < count /\ data[3] <= STATE_OFF
            THEN [t |-> "store", i |-> data[2], code |-> data[3]] ELSE Ignored
      [] OTHER -> Foreign

HelloReport(device, count) == Padded(<<MSG_HELLO, device, count, PROTOCOL_VERSION>>)

KeyReport(i) == Padded(<<MSG_KEY, i>>)

KeyHeldReport(i) == Padded(<<MSG_KEY_HELD, i>>)

SentTo(i, state) ==
    IF state = "off" THEN [t |-> "clear", i |-> i] ELSE [t |-> "slot", i |-> i, state |-> state]

--------------------------------------------------------------------------------
Devices == {167, 192}       \* DEVICE_ID_AIR75_V2, DEVICE_ID_K0_MAX
Counts == {0, 1, 12, 255}

(* What the daemon ever sends of a slot: any state an event asks for, the      *)
(* watcher's, and a clear.                                                     *)
SlotStates == ({hook_to_state(event) : event \in HookEvent} \cup {"tool_stalled"}) \ {NoState}

(* A message to one of the pad's slots is stored for it, as a code that means  *)
(* its state; one beyond them changes nothing.  No byte means two states.      *)
(* What the firmware reports is what the daemon reads.                         *)
MessagesMean ==
    /\ \A count \in Counts, state \in SlotStates \cup {"off"}, index \in 0 .. 255 :
          LET got == ai_agent_macropad_raw_hid_receive(pack_for_hid(SentTo(index, state)), count)
          IN /\ Packable(index, state)
             /\ IF index < count
                THEN got = [t |-> "store", i |-> index, code |-> STATE_TO_CODE[state]]
                ELSE got = Ignored
    /\ \A a, b \in DOMAIN STATE_TO_CODE : STATE_TO_CODE[a] = STATE_TO_CODE[b] => a = b
    /\ "off" \notin SlotStates
    /\ \A i \in Byte :
          /\ parse_report(KeyReport(i)) = [t |-> "key", i |-> i]
          /\ parse_report(KeyHeldReport(i)) = [t |-> "key_held", i |-> i]
          /\ \A device \in Devices :
                parse_report(HelloReport(device, i)) =
                    [t |-> "hello", device |-> device, slots |-> i, protocol |-> PROTOCOL_VERSION]
    /\ ai_agent_macropad_raw_hid_receive(pack_ping, 0) = [t |-> "answer"]

(* A report cut short is dropped, neither side reads its own messages, VIA's   *)
(* commands reach VIA, and its answers, which repeat their id, reach nobody.   *)
ReportsAreToldApart ==
    LET own == {pack_ping} \cup {pack_slot(i, state) : i \in {0, 34, 161}, state \in {"idle", "off"}}
        pads == {HelloReport(d, 12) : d \in Devices} \cup {KeyReport(33), KeyHeldReport(161)}
        vias == {ViaReport(id, a, b) : id \in ViaCommandIds \cup {255}, a \in {32, 34}, b \in {0, 35}}
    IN /\ \A report \in own \cup vias : parse_report(report) = Unread
       /\ \A report \in pads \cup vias : ai_agent_macropad_raw_hid_receive(report, 12) = Foreign
       /\ \A report \in own : ai_agent_macropad_raw_hid_receive(report, 12) # Foreign
       /\ \A report \in own \cup pads, k \in 0 .. 3 :
             LET cut == SubSeq(report, 1, k)
                 fields == IF k = 0 THEN 4 ELSE IF report[1] = MSG_HELLO THEN 4 ELSE 2
             IN /\ k < fields => parse_report(cut) = Unread
                /\ k < 3 => ai_agent_macropad_raw_hid_receive(cut, 12).t # "store"
================================================================================
