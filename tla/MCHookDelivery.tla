----------------------------- MODULE MCHookDelivery -----------------------------
(* HookDelivery on a small instance.                                           *)
EXTENDS HookDelivery, TLC

MCOneSlot == {0}

CONSTANTS s1, s2

(* s1 runs an agent whose sessions discovery can find (claude) or cannot       *)
(* (cursor); s2 one whose record survives a kill (grok) or that has none.      *)
MCMayRun == s1 :> {"claude", "cursor"} @@ s2 :> {"grok", "codex"}
=================================================================================
