------------------------------ MODULE SessionBoard ------------------------------
(* What the daemon promises about the pad, free of handlers, caches and writes:*)
(* sessions own slots as in SlotDirectory, an owner says what it is doing, and *)
(* every slot gets to show what its owner said last, or nothing.  A slot shows *)
(* something new only by catching up with its owner.                           *)
EXTENDS SlotDirectory

CONSTANT Said       \* what a session may say of itself; "off" is saying nothing

VARIABLES
    said,   \* session -> what it said last
    shown   \* slot -> what it shows

boardVars == <<owner, said, shown>>

BoardInit ==
    /\ Init
    /\ said = [s \in Session |-> "off"]
    /\ shown = [i \in DirectorySlots |-> "off"]

Expects(i) == IF owner[i] = NoSession THEN "off" ELSE said[owner[i]]

Own ==
    /\ Next
    /\ UNCHANGED <<said, shown>>

Say(s, state) ==
    /\ Owns(s) \/ state = "off"
    /\ said' = [said EXCEPT ![s] = state]
    /\ UNCHANGED <<owner, shown>>

CatchUp(i) ==
    /\ shown' = [shown EXCEPT ![i] = Expects(i)]
    /\ UNCHANGED <<owner, said>>

BoardNext ==
    \/ Own
    \/ \E s \in Session, state \in Said : Say(s, state)
    \/ \E i \in DirectorySlots : CatchUp(i)

BoardSpec ==
    /\ BoardInit
    /\ [][BoardNext]_boardVars
    /\ \A i \in DirectorySlots : WF_boardVars(CatchUp(i))
=================================================================================
