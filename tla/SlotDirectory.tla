----------------------------- MODULE SlotDirectory -----------------------------
(* What the daemon promises about slot ownership, free of the two tables that *)
(* implement it: a slot has at most one owner, a session owns at most one     *)
(* slot, a claim takes the lowest free slot, and a slot passes from one       *)
(* session to another only through being free.                                *)
EXTENDS Integers

CONSTANTS
    Session,    \* session identifiers
    NumSlots,   \* slots the pad reported
    NoSession   \* the owner of a free slot

VARIABLE owner

DirectorySlots == 0 .. (NumSlots - 1)

Owns(s) == \E i \in DirectorySlots : owner[i] = s

Init == owner = [i \in DirectorySlots |-> NoSession]

Claim(s, i) ==
    /\ ~ Owns(s)
    /\ owner[i] = NoSession
    /\ \A j \in DirectorySlots : j < i => owner[j] # NoSession
    /\ owner' = [owner EXCEPT ![i] = s]

Release(i) ==
    /\ owner[i] # NoSession
    /\ owner' = [owner EXCEPT ![i] = NoSession]

Next ==
    \E i \in DirectorySlots :
        \/ \E s \in Session : Claim(s, i)
        \/ Release(i)

Spec == Init /\ [][Next]_owner
================================================================================
