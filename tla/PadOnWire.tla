------------------------------- MODULE PadOnWire -------------------------------
(* The firmware next to the bytes it exchanges: what PadFirmware does with an  *)
(* index and a state, and what it reports, is what the wire makes of it.       *)
EXTENDS PadFirmware, WireProtocol

ASSUME IndexFitsByte == MaxSlots \in Byte

(* The bytes of a report.                                                      *)
Sent(report, device) ==
    CASE report.t = "key" -> KeyReport(report.i)
      [] report.t = "key_held" -> KeyHeldReport(report.i)
      [] report.t = "hello" -> HelloReport(device, report.slots)

--------------------------------------------------------------------------------
(* A message of the daemon is stored by the firmware, for the slot and as the  *)
(* state it was sent for, exactly if the pad has that slot now, whatever       *)
(* number of slots its keymap gives it; what the pad reports of a key or of    *)
(* its slots is what the daemon reads.  So with every count, index and state.  *)
MessagesArrive ==
    /\ \A w \in 0 .. MaxSlots, state \in SlotStates \cup {"off"} :
          LET got == ai_agent_macropad_raw_hid_receive(pack_for_hid(SentTo(w, state)), dense_count)
          IN IF w \in DOMAIN slot_states
             THEN got = [t |-> "store", i |-> w, code |-> STATE_TO_CODE[state]]
             ELSE got = Ignored
    /\ \A report \in reports, device \in Devices :
          LET read == parse_report(Sent(report, device))
          IN \A field \in DOMAIN report : read[field] = report[field]
    /\ MessagesMean

(* Nothing is mistaken for something else: the pad does not take what it       *)
(* reports for a message, nor the daemon what it sends to a slot for a key     *)
(* that was pressed; and so with reports cut short and with VIA's.             *)
NothingIsMistaken ==
    /\ \A report \in reports, device \in Devices :
          ai_agent_macropad_raw_hid_receive(Sent(report, device), dense_count) = Foreign
    /\ \A w \in DOMAIN slot_states, state \in SlotStates \cup {"off"} :
          parse_report(pack_for_hid(SentTo(w, state))) = Unread
    /\ ReportsAreToldApart
================================================================================
