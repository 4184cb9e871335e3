------------------------------ MODULE MCPadFirmware ------------------------------
(* PadFirmware on a board of three keys, next to the reports it exchanges.     *)
EXTENDS PadOnWire

(* Two slots against keycode order next to a plain key, and two out of three.  *)
MCSwapped == <<1, 0, OtherKey>>
MCSparse == <<2, OtherKey, 0>>

MCTwoLit == {1, 2}
MCThreeLit == {1, 2, 3}
==================================================================================
