--------------------------- MODULE SlotManagerProofs ---------------------------
(* Proofs, for any set of sessions and any number of slots, that the two       *)
(* tables of SlotManager stay well typed and inverse to each other, that       *)
(* ownership is stable, and that they implement the abstract directory.        *)
EXTENDS SlotManager, TLAPS

(* The inductive invariant: well typed tables that agree.  Agreement is not    *)
(* inductive by itself (what EXCEPT does to a table is known only of a         *)
(* function), and typing says nothing of free(), which clears the slot named   *)
(* by session_to_slot: the session's own slot only if the tables agree.        *)
SlotInv == SlotTypeOK /\ TablesAgree

(* A slot index is a natural number, so it is never NoSlot (-1).               *)
LEMMA SlotIsNotNoSlot == NoSlot \notin Slots
  BY NumSlotsAssumption DEF NoSlot, Slots

(* The empty tables agree: no session has a slot, no slot has a session.       *)
LEMMA SlotInitInv == SlotInit => SlotInv
  BY SlotIsNotNoSlot, NoSessionAssumption
  DEF SlotInit, SlotInv, SlotTypeOK, TablesAgree

(* allocate() preserves the invariant: the first-fit branch writes a pair that *)
(* was absent from both tables.                                                *)
LEMMA AllocatePreserves ==
  ASSUME SlotInv, NEW s \in Session, NEW i \in Slots \cup {NoSlot}, Allocate(s, i)
  PROVE  SlotInv'
  <1>1. CASE UNCHANGED slotVars
    BY <1>1 DEF SlotInv, SlotTypeOK, TablesAgree, slotVars
  <1>2. CASE AllocateFirstFit(s, i)
    <2>1. i \in Slots /\ slot_to_session[i] = NoSession
      BY <1>2 DEF AllocateFirstFit, FreeSlots
    <2>2. SlotTypeOK'
      BY <1>2, <2>1 DEF SlotInv, SlotTypeOK, AllocateFirstFit
    <2>3. TablesAgree'
      BY <1>2, <2>1, SlotIsNotNoSlot, NoSessionAssumption
      DEF SlotInv, SlotTypeOK, TablesAgree, AllocateFirstFit, Mapped
    <2>4. QED BY <2>2, <2>3 DEF SlotInv
  <1>3. QED BY <1>1, <1>2 DEF Allocate, AllocateExisting, AllocateFull

(* free() preserves the invariant: it removes one pair from both tables.       *)
LEMMA FreePreserves ==
  ASSUME SlotInv, NEW s \in Session, NEW i \in Slots \cup {NoSlot}, Free(s, i)
  PROVE  SlotInv'
  <1>1. SlotTypeOK'
    BY DEF SlotInv, SlotTypeOK, Free
  <1>2. TablesAgree'
    <2>1. CASE i = NoSlot
      <3>1. session_to_slot' = session_to_slot
        BY <2>1 DEF SlotInv, SlotTypeOK, Free
      <3>2. slot_to_session' = slot_to_session
        BY <2>1 DEF Free
      <3>3. QED BY <3>1, <3>2 DEF SlotInv, TablesAgree
    <2>2. CASE i # NoSlot
      BY <2>2, SlotIsNotNoSlot, NoSessionAssumption
      DEF SlotInv, SlotTypeOK, TablesAgree, Free
    <2>3. QED BY <2>1, <2>2
  <1>3. QED BY <1>1, <1>2 DEF SlotInv

(* evict() preserves the invariant: the same removal, found from the slot.     *)
LEMMA EvictPreserves ==
  ASSUME SlotInv, NEW i \in Slots, NEW s \in Session \cup {NoSession}, Evict(i, s)
  PROVE  SlotInv'
  <1>1. SlotTypeOK'
    BY DEF SlotInv, SlotTypeOK, Evict
  <1>2. TablesAgree'
    <2>1. CASE s = NoSession
      BY <2>1, NoSessionAssumption DEF SlotInv, SlotTypeOK, TablesAgree, Evict
    <2>2. CASE s # NoSession
      BY <2>2, SlotIsNotNoSlot, NoSessionAssumption
      DEF SlotInv, SlotTypeOK, TablesAgree, Evict
    <2>3. QED BY <2>1, <2>2
  <1>3. QED BY <1>1, <1>2 DEF SlotInv

(* Every step, or none, preserves the invariant.                               *)
LEMMA SlotNextPreserves == SlotInv /\ [SlotNext]_slotVars => SlotInv'
  <1> SUFFICES ASSUME SlotInv, [SlotNext]_slotVars PROVE SlotInv'
    OBVIOUS
  <1>1. CASE UNCHANGED slotVars
    BY <1>1 DEF SlotInv, SlotTypeOK, TablesAgree, slotVars
  <1>2. CASE SlotNext
    BY <1>2, AllocatePreserves, FreePreserves, EvictPreserves DEF SlotNext
  <1>3. QED BY <1>1, <1>2

(* The inductive invariant holds in every reachable state.                     *)
THEOREM SlotInvariant == SlotSpec => []SlotInv
  BY SlotInitInv, SlotNextPreserves, PTL DEF SlotSpec

(* The tables are well typed: SlotTypeOK.                                      *)
THEOREM SlotTypeCorrect == SlotSpec => []SlotTypeOK
  <1>1. SlotInv => SlotTypeOK
    BY DEF SlotInv
  <1>2. QED BY <1>1, SlotInvariant, PTL

(* The tables are inverse to each other: TablesAgree.                          *)
THEOREM SlotTablesAgree == SlotSpec => []TablesAgree
  <1>1. SlotInv => TablesAgree
    BY DEF SlotInv
  <1>2. QED BY <1>1, SlotInvariant, PTL

--------------------------------------------------------------------------------
(* One step of OwnershipStable, to be boxed below.                             *)
StableStep ==
  /\ \A s \in Session : Mapped(s) => session_to_slot'[s] \in {session_to_slot[s], NoSlot}
  /\ \A i \in Slots : slot_to_session[i] # NoSession =>
        slot_to_session'[i] \in {slot_to_session[i], NoSession}

(* allocate(), free() and evict() never move a session or hand a slot over:    *)
(* a claim needs a free slot and an unmapped session, the others only remove.  *)
LEMMA SlotStepStable == SlotInv /\ [SlotNext]_slotVars => [StableStep]_slotVars
  <1> SUFFICES ASSUME SlotInv, SlotNext PROVE StableStep
    BY DEF slotVars
  <1>1. ASSUME NEW s \in Session, NEW i \in Slots \cup {NoSlot}, Allocate(s, i)
        PROVE  StableStep
    BY <1>1 DEF SlotInv, SlotTypeOK, StableStep, Allocate, AllocateExisting,
                AllocateFirstFit, AllocateFull, FreeSlots, Mapped, slotVars
  <1>2. ASSUME NEW s \in Session, NEW i \in Slots \cup {NoSlot}, Free(s, i)
        PROVE  StableStep
    BY <1>2 DEF SlotInv, SlotTypeOK, StableStep, Free, Mapped
  <1>3. ASSUME NEW i \in Slots, NEW s \in Session \cup {NoSession}, Evict(i, s)
        PROVE  StableStep
    BY <1>3 DEF SlotInv, SlotTypeOK, StableStep, Evict, Mapped
  <1>4. QED BY <1>1, <1>2, <1>3 DEF SlotNext

(* A session keeps its slot, and a slot its session, until it is freed.        *)
THEOREM SlotOwnershipStable == SlotSpec => OwnershipStable
  <1>1. SlotSpec => [][StableStep]_slotVars
    BY SlotInvariant, SlotStepStable, PTL DEF SlotSpec
  <1>2. QED BY <1>1 DEF OwnershipStable, StableStep

--------------------------------------------------------------------------------
(* The concrete tables, read through slot_to_session, are the directory.       *)

(* The empty tables are the empty directory.                                   *)
LEMMA SlotInitRefines == SlotInit => Directory!Init
  BY DEF SlotInit, Directory!Init, Directory!DirectorySlots, Slots

(* Under the invariant a session is unmapped exactly when it owns no slot: the *)
(* lookup allocate() makes in one table answers for the other.                 *)
LEMMA UnmappedOwnsNothing ==
  ASSUME SlotInv, NEW s \in Session, ~ Mapped(s)
  PROVE  ~ Directory!Owns(s)
  BY SlotIsNotNoSlot
  DEF SlotInv, SlotTypeOK, TablesAgree, Mapped, Directory!Owns,
      Directory!DirectorySlots, Slots

(* Every step of the tables is a step of the directory or leaves it unchanged. *)
LEMMA SlotStepRefines ==
  SlotInv /\ [SlotNext]_slotVars => [Directory!Next]_slot_to_session
  <1> SUFFICES ASSUME SlotInv, SlotNext
               PROVE  Directory!Next \/ UNCHANGED slot_to_session
    BY DEF slotVars
  <1>1. ASSUME NEW s \in Session, NEW i \in Slots \cup {NoSlot}, Allocate(s, i)
        PROVE  Directory!Next \/ UNCHANGED slot_to_session
    <2>1. CASE UNCHANGED slotVars
      BY <2>1 DEF slotVars
    <2>2. CASE AllocateFirstFit(s, i)
      <3>1. ~ Directory!Owns(s)
        BY <2>2, UnmappedOwnsNothing DEF AllocateFirstFit
      <3>2. i \in Slots /\ slot_to_session[i] = NoSession
        BY <2>2 DEF AllocateFirstFit, FreeSlots
      <3>3. \A j \in Slots : j < i => slot_to_session[j] # NoSession
        BY <2>2, <3>2, NumSlotsAssumption DEF AllocateFirstFit, FreeSlots, Slots
      <3>4. Directory!Claim(s, i)
        BY <2>2, <3>1, <3>2, <3>3
        DEF AllocateFirstFit, Directory!Claim, Directory!DirectorySlots, Slots
      <3>5. QED BY <3>2, <3>4 DEF Directory!Next, Directory!DirectorySlots, Slots
    <2>3. QED BY <1>1, <2>1, <2>2 DEF Allocate, AllocateExisting, AllocateFull
  <1>2. ASSUME NEW s \in Session, NEW i \in Slots \cup {NoSlot}, Free(s, i)
        PROVE  Directory!Next \/ UNCHANGED slot_to_session
    <2>1. CASE i = NoSlot
      BY <1>2, <2>1 DEF Free
    <2>2. CASE i # NoSlot
      <3>1. i \in Slots /\ slot_to_session[i] = s
        BY <1>2, <2>2 DEF SlotInv, SlotTypeOK, TablesAgree, Free
      <3>2. Directory!Release(i)
        BY <1>2, <2>2, <3>1, NoSessionAssumption DEF Free, Directory!Release
      <3>3. QED BY <3>1, <3>2 DEF Directory!Next, Directory!DirectorySlots, Slots
    <2>3. QED BY <2>1, <2>2
  <1>3. ASSUME NEW i \in Slots, NEW s \in Session \cup {NoSession}, Evict(i, s)
        PROVE  Directory!Next \/ UNCHANGED slot_to_session
    <2>1. CASE s = NoSession
      BY <1>3, <2>1 DEF SlotInv, SlotTypeOK, Evict
    <2>2. CASE s # NoSession
      <3>1. Directory!Release(i)
        BY <1>3, <2>2 DEF Evict, Directory!Release
      <3>2. QED BY <3>1 DEF Directory!Next, Directory!DirectorySlots, Slots
    <2>3. QED BY <2>1, <2>2
  <1>4. QED BY <1>1, <1>2, <1>3 DEF SlotNext

(* The two tables implement the one-table directory: ImplementsDirectory.      *)
THEOREM SlotManagerImplementsDirectory == SlotSpec => ImplementsDirectory
  <1>1. SlotSpec => Directory!Init /\ [][Directory!Next]_slot_to_session
    BY SlotInitRefines, SlotStepRefines, SlotInvariant, PTL DEF SlotSpec
  <1>2. QED BY <1>1 DEF ImplementsDirectory, Directory!Spec
================================================================================
