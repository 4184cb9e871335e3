------------------------------ MODULE SlotManager ------------------------------
(* daemon.py's SlotManager: session ids mapped to pad slots by two tables that *)
(* each operation updates under one lock, so each operation is one step.       *)
EXTENDS Integers

CONSTANTS
    Session,    \* session identifiers the agents may report
    NumSlots,   \* slots the pad reported (or the default)
    NoSession   \* None, in slot_to_session

ASSUME NumSlotsAssumption == NumSlots \in Nat
ASSUME NoSessionAssumption == NoSession \notin Session

VARIABLES
    slot_to_session,   \* slot -> session or NoSession
    session_to_slot    \* session -> slot or NoSlot (the key is absent)

slotVars == <<slot_to_session, session_to_slot>>

Slots == 0 .. (NumSlots - 1)

NoSlot == -1

FreeSlots == {i \in Slots : slot_to_session[i] = NoSession}

Mapped(s) == session_to_slot[s] # NoSlot

SlotInit ==
    /\ slot_to_session = [i \in Slots |-> NoSession]
    /\ session_to_slot = [s \in Session |-> NoSlot]

--------------------------------------------------------------------------------
(* allocate(session_id) returns the slot i, or NoSlot when the pad is full.    *)

AllocateExisting(s, i) ==
    /\ Mapped(s)
    /\ i = session_to_slot[s]
    /\ UNCHANGED slotVars

(* Mutants: allocate() that skips its lookup, or searches from the top.        *)
AllocateAgain(s, i) ==
    /\ i \in FreeSlots
    /\ \A j \in FreeSlots : i <= j
    /\ slot_to_session' = [slot_to_session EXCEPT ![i] = s]
    /\ session_to_slot' = [session_to_slot EXCEPT ![s] = i]

AllocateLastFit(s, i) ==
    /\ ~ Mapped(s)
    /\ i \in FreeSlots
    /\ \A j \in FreeSlots : i >= j
    /\ slot_to_session' = [slot_to_session EXCEPT ![i] = s]
    /\ session_to_slot' = [session_to_slot EXCEPT ![s] = i]

AllocateFirstFit(s, i) ==
    /\ ~ Mapped(s)
    /\ i \in FreeSlots
    /\ \A j \in FreeSlots : i <= j
    /\ slot_to_session' = [slot_to_session EXCEPT ![i] = s]
    /\ session_to_slot' = [session_to_slot EXCEPT ![s] = i]

AllocateFull(s, i) ==
    /\ ~ Mapped(s)
    /\ FreeSlots = {}
    /\ i = NoSlot
    /\ UNCHANGED slotVars

Allocate(s, i) ==
    \/ AllocateExisting(s, i)
    \/ AllocateFirstFit(s, i)
    \/ AllocateFull(s, i)

(* Mutant: free() that leaves the slot to its owner.                           *)
FreeKeepsOwner(s, i) ==
    /\ i = session_to_slot[s]
    /\ session_to_slot' = [session_to_slot EXCEPT ![s] = NoSlot]
    /\ UNCHANGED slot_to_session

(* free(session_id) returns the slot i the session had, or NoSlot.             *)
Free(s, i) ==
    /\ i = session_to_slot[s]
    /\ session_to_slot' = [session_to_slot EXCEPT ![s] = NoSlot]
    /\ slot_to_session' = IF i = NoSlot THEN slot_to_session
                          ELSE [slot_to_session EXCEPT ![i] = NoSession]

(* evict(index) returns the session s that had the slot, or NoSession.         *)
Evict(i, s) ==
    /\ s = slot_to_session[i]
    /\ slot_to_session' = [slot_to_session EXCEPT ![i] = NoSession]
    /\ session_to_slot' = IF s = NoSession THEN session_to_slot
                          ELSE [session_to_slot EXCEPT ![s] = NoSlot]

SlotNext ==
    \/ \E s \in Session, i \in Slots \cup {NoSlot} : Allocate(s, i)
    \/ \E s \in Session, i \in Slots \cup {NoSlot} : Free(s, i)
    \/ \E i \in Slots, s \in Session \cup {NoSession} : Evict(i, s)

SlotSpec == SlotInit /\ [][SlotNext]_slotVars

--------------------------------------------------------------------------------
(* The two tables hold slots and sessions, never a stray value.                *)
SlotTypeOK ==
    /\ slot_to_session \in [Slots -> Session \cup {NoSession}]
    /\ session_to_slot \in [Session -> Slots \cup {NoSlot}]

(* The tables are inverse to each other: free() finds the slot through one     *)
(* table and clears the other, evict() goes the opposite way, so any           *)
(* disagreement would leave a slot nobody can reclaim or two sessions on one.  *)
TablesAgree ==
    \A s \in Session, i \in Slots :
        session_to_slot[s] = i <=> slot_to_session[i] = s

(* No operation moves a mapped session to another slot or hands an owned slot  *)
(* to another session: the key a user learned for a session stays its key.     *)
OwnershipStable ==
    [][/\ \A s \in Session : Mapped(s) => session_to_slot'[s] \in {session_to_slot[s], NoSlot}
       /\ \A i \in Slots : slot_to_session[i] # NoSession =>
              slot_to_session'[i] \in {slot_to_session[i], NoSession}]_slotVars

(* The abstract directory, its owner read off slot_to_session alone.           *)
Directory == INSTANCE SlotDirectory WITH owner <- slot_to_session

(* The two-table implementation implements the one-table promise.              *)
ImplementsDirectory == Directory!Spec
================================================================================
