----------------------- MODULE SourceResourcesProofs ------------------------
(***************************************************************************)
(* Proofs about SourceResources for any number of profiles and TXD slots.  *)
(***************************************************************************)
EXTENDS SourceResources, TLAPS

\* What the call under way knows of its own slot.
SlotOfCall ==
  /\ pc \in {"path", "open", "read", "prepare", "remove"} =>
       dictionary[slot] = "held"
  /\ pc \in {"txd", "path", "open", "read", "remove"} => ~ clump[slot]
  /\ pc = "prepare" => clump[slot]
  /\ pc \in {"txd", "path", "open", "read", "prepare"} =>
       \A p \in Profiles : resources[p] # slot
  /\ pc = "remove" => resources[profile] = slot

\* Which TXD is current at each step.
CurrentOfCall ==
  /\ pc \in {"open", "read"} => saved = Game
  /\ pc \notin {"open", "read"} => current = Game /\ saved = None
  /\ stream => pc = "read"

\* NoLeakedSlot at each step: the slot of the call under way may be nobody's.
SlotsHaveOwners ==
  \A s \in Slots :
    dictionary[s] # None =>
      \/ clump[s]
      \/ \E p \in Profiles : resources[p] = s
      \/ pc # "idle" /\ s = slot

IInv ==
  /\ TypeOK
  /\ SlotOfCall
  /\ CurrentOfCall
  /\ NoDanglingTextures
  /\ SourcesAreWhole
  /\ SlotsHaveOwners

LEMMA InitIInv == Init => IInv
  BY ResourcesAssumption
  DEF ResourcesAssumption, Init, IInv, TypeOK, SlotOfCall, CurrentOfCall,
      NoDanglingTextures, SourcesAreWhole, SlotsHaveOwners

LEMMA NextIInv == IInv /\ [Next]_vars => IInv'
<1> SUFFICES ASSUME IInv, [Next]_vars PROVE IInv'
  OBVIOUS
<1> USE ResourcesAssumption
    DEF ResourcesAssumption, IInv, TypeOK, SlotOfCall, CurrentOfCall,
        NoDanglingTextures, SourcesAreWhole, SlotsHaveOwners, callVars,
        engineVars
<1>1. CASE AddTxdSlot
  <2>1. TypeOK'
    BY <1>1 DEF AddTxdSlot
  <2>2. SlotOfCall'
    BY <1>1 DEF AddTxdSlot
  <2>3. CurrentOfCall'
    BY <1>1 DEF AddTxdSlot
  <2>4. NoDanglingTextures'
    BY <1>1 DEF AddTxdSlot
  <2>5. SourcesAreWhole'
    BY <1>1 DEF AddTxdSlot
  <2>6. SlotsHaveOwners'
    BY <1>1 DEF AddTxdSlot
  <2> QED
    BY <2>1, <2>2, <2>3, <2>4, <2>5, <2>6
<1>2. CASE LoadTxdFails
  BY <1>2 DEF LoadTxdFails, RemoveTxdSlot, WithoutSlot, Return
<1>3. CASE LoadTxd
  BY <1>3 DEF LoadTxd
<1>4. CASE PathRefused
  BY <1>4 DEF PathRefused, RemoveTxdSlot, WithoutSlot, Return
<1>5. CASE SetCurrentTxd
  BY <1>5 DEF SetCurrentTxd, PushAndSetCurrent
<1>6. CASE OpenStreamFails
  BY <1>6 DEF OpenStreamFails, PopCurrent, RemoveTxdSlot, WithoutSlot, Return
<1>7. CASE OpenStream
  BY <1>7 DEF OpenStream
<1>8. CASE ReadClumpFails
  <2>1. TypeOK'
    BY <1>8
    DEF ReadClumpFails, CloseStream, PopCurrent, RemoveTxdSlot, WithoutSlot,
        Return
  <2>2. SlotOfCall'
    BY <1>8
    DEF ReadClumpFails, CloseStream, PopCurrent, RemoveTxdSlot, WithoutSlot,
        Return
  <2>3. CurrentOfCall'
    BY <1>8
    DEF ReadClumpFails, CloseStream, PopCurrent, RemoveTxdSlot, WithoutSlot,
        Return
  <2>4. NoDanglingTextures'
    BY <1>8
    DEF ReadClumpFails, CloseStream, PopCurrent, RemoveTxdSlot, WithoutSlot,
        Return
  <2>5. SourcesAreWhole'
    BY <1>8
    DEF ReadClumpFails, CloseStream, PopCurrent, RemoveTxdSlot, WithoutSlot,
        Return
  <2>6. SlotsHaveOwners'
    BY <1>8
    DEF ReadClumpFails, CloseStream, PopCurrent, RemoveTxdSlot, WithoutSlot,
        Return
  <2> QED
    BY <2>1, <2>2, <2>3, <2>4, <2>5, <2>6
<1>9. CASE ReadClump
  <2>1. TypeOK'
    BY <1>9 DEF ReadClump, CloseStream, PopCurrent
  <2>2. SlotOfCall'
    BY <1>9 DEF ReadClump, CloseStream, PopCurrent
  <2>3. CurrentOfCall'
    BY <1>9 DEF ReadClump, CloseStream, PopCurrent
  <2>4. NoDanglingTextures'
    BY <1>9 DEF ReadClump, CloseStream, PopCurrent
  <2>5. SourcesAreWhole'
    BY <1>9 DEF ReadClump, CloseStream, PopCurrent
  <2>6. SlotsHaveOwners'
    BY <1>9 DEF ReadClump, CloseStream, PopCurrent
  <2> QED
    BY <2>1, <2>2, <2>3, <2>4, <2>5, <2>6
<1>10. CASE Reject
  <2>1. TypeOK'
    <3>1. clump' \in [Slots -> BOOLEAN]
      BY <1>10 DEF Reject
    <3>2. dictionary' \in [Slots -> {None, "empty", "held"}]
      BY <1>10 DEF Reject, RemoveTxdSlot, WithoutSlot
    <3> QED
      BY <1>10, <3>1, <3>2 DEF Reject, Return
  <2>2. SlotOfCall'
    BY <1>10 DEF Reject, RemoveTxdSlot, WithoutSlot, Return
  <2>3. CurrentOfCall'
    BY <1>10 DEF Reject, RemoveTxdSlot, WithoutSlot, Return
  <2>4. NoDanglingTextures'
    BY <1>10 DEF Reject, RemoveTxdSlot, WithoutSlot, Return
  <2>5. SourcesAreWhole'
    BY <1>10 DEF Reject, RemoveTxdSlot, WithoutSlot, Return
  <2>6. SlotsHaveOwners'
    BY <1>10 DEF Reject, RemoveTxdSlot, WithoutSlot, Return
  <2> QED
    BY <2>1, <2>2, <2>3, <2>4, <2>5, <2>6
<1>11. CASE Prepare
  BY <1>11 DEF Prepare, Return
<1>12. CASE DestroySource
  BY <1>12 DEF DestroySource
<1>13. CASE RemoveSlot
  BY <1>13 DEF RemoveSlot, RemoveTxdSlot, WithoutSlot, Return
<1>14. CASE UNCHANGED vars
  BY <1>14 DEF vars
<1> QED
  BY <1>1, <1>2, <1>3, <1>4, <1>5, <1>6, <1>7, <1>8, <1>9, <1>10, <1>11,
     <1>12, <1>13, <1>14
  DEF Next, Load, Release, LoadDffClump

LEMMA AlwaysIInv == Spec => []IInv
  BY InitIInv, NextIInv, PTL DEF Spec

\* The pool, the current TXD and the locals of a call keep their types.
THEOREM TypeCorrect == Spec => []TypeOK
<1>1. IInv => TypeOK
  BY DEF IInv
<1> QED
  BY <1>1, AlwaysIInv, PTL

\* No clump outlives the dictionary it draws with.
THEOREM TexturesNeverDangle == Spec => []NoDanglingTextures
<1>1. IInv => NoDanglingTextures
  BY DEF IInv
<1> QED
  BY <1>1, AlwaysIInv, PTL

\* load returns with the game's own TXD current, on every path.
THEOREM CurrentTxdAlwaysRestored == Spec => []CurrentTxdRestored
<1>1. IInv => CurrentTxdRestored
  BY DEF IInv, CurrentOfCall, CurrentTxdRestored
<1> QED
  BY <1>1, AlwaysIInv, PTL

\* A slot that no source holds and no clump needs is free between two calls.
THEOREM SlotsNeverLeak == Spec => []NoLeakedSlot
<1>1. IInv => NoLeakedSlot
  BY DEF IInv, SlotsHaveOwners, NoLeakedSlot
<1> QED
  BY <1>1, AlwaysIInv, PTL

\* What the cache holds is whole, and in a slot of its own.
THEOREM SourcesAlwaysWhole == Spec => []SourcesAreWhole
<1>1. IInv => SourcesAreWhole
  BY DEF IInv
<1> QED
  BY <1>1, AlwaysIInv, PTL
=============================================================================
