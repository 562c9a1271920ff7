-------------------------- MODULE ClumpSwapProofs ---------------------------
(***************************************************************************)
(* Through every way out of apply, restore and the recovery, with any      *)
(* number of clumps: the ped wears a live one, its animation associations  *)
(* have a live owner, nothing is left behind, and the caller is told what  *)
(* SwapOutcomes says.  Any read that follows a change may fail; what such  *)
(* a failure costs is an exception that the property itself names.         *)
(***************************************************************************)
EXTENDS ClumpSwap, TLAPS

USE SwapAssumption

-----------------------------------------------------------------------------
(***************************************************************************)
(* The invariant says, for each point of a call, what the ped wears, who   *)
(* has its associations, what became of the old clump, and what the caller *)
(* has been told.                                                          *)
(***************************************************************************)
BeforeDelete == {"clone", "prepare", "abort", "delete"}
AfterDelete == {"create", "position", "install", "recover", "rebuild"}
Swapping == BeforeDelete \cup AfterDelete
Wearing == {"verify", "restore", "remove"}
Restoring == {"restore", "remove", "renew"}

\* The prepared clone waits beside what the ped wears, until it is worn itself.
ClumpsOfCall ==
  /\ pc \in Swapping =>
       prepared \in Addresses /\ clump[prepared] = "clone" /\ ped # prepared
  /\ pc \in BeforeDelete => ped \in Addresses /\ old = ped
  /\ pc \in {"create", "renew"} => ped = Null
  /\ pc \in {"position", "install"} => ped \in Addresses
  /\ pc \in Wearing =>
       prepared \in Addresses /\ clump[prepared] = "clone" /\ ped = prepared
  /\ IF pc = "install" THEN clump[ped] = "free"
     ELSE ped # Null => clump[ped] # "free"

\* Associations that no clump has any more: two reads of restore failed.
Excused == anims = "lost" /\ unread \cap {"animations", "rebuild"} # {}

\* The clone has the associations from their transfer until a recovery or a
\* restore takes them in hand.
AnimsOfCall ==
  /\ anims \in Addresses => clump[anims] # "free"
  /\ anims = "dangling" => "delete" \in unread /\ ped = Null
  /\ pc \in {"idle", "restore"} /\ ped # Null =>
       anims \in Addresses \/ Excused
  /\ pc \in {"clone", "prepare"} =>
       anims \in Addresses \ {prepared} \/ Excused
  /\ pc \in {"abort", "delete", "create", "position", "install", "verify",
             "recover"} => anims = prepared
  /\ pc = "rebuild" => anims = "held"
  /\ pc \in {"remove", "renew"} =>
       \/ anims \in {"held"} \cup (Addresses \ {prepared})
       \/ pc = "remove" /\ anims = prepared /\ "animations" \in unread
       \/ Excused

\* Once the ordinary clump is deleted nothing lives at its address, but what
\* the call itself has put there.
OldOfCall ==
  /\ pc \in AfterDelete \cup {"verify"} =>
       /\ old \in Addresses \ {prepared}
       /\ clump[old] \in {"free", "stuck"} \/ old = ped
  /\ pc \in Restoring =>
       /\ prepared \in Addresses
       /\ old # Null => old # prepared /\ clump[old] \in {"free", "stuck"}
  /\ pc = "renew" => clump[prepared] = "free"
  /\ pc \in {"position", "recover", "rebuild"} /\ ped # Null =>
       clump[ped] \in {"ordinary", "stuck"}

\* What the caller knows is what the ped wears when a call begins and ends; a
\* clone that it does not know of is one that an undo has left.
ToldOfCall ==
  /\ pc \in Swapping \cup {"verify"} => installed = Null
  /\ pc \in Restoring => installed \in {prepared, Null}
  /\ pc \in BeforeDelete \cup {"idle"} =>
       /\ before = Worn(ped, clump)
       /\ before = "clone" => installed \in {ped, Null}

IInv == TypeOK /\ ClumpsOfCall /\ AnimsOfCall /\ OldOfCall /\ ToldOfCall

-----------------------------------------------------------------------------
(***************************************************************************)
(* Every action keeps it.                                                  *)
(***************************************************************************)
\* Between the calls: the game, and Runtime.
LEMMA GameKeeps == IInv /\ (Rebuild \/ Drop \/ Forget) => IInv'
<1>. SUFFICES ASSUME IInv, Rebuild \/ Drop \/ Forget PROVE IInv'
  OBVIOUS
<1>. USE DEF IInv, TypeOK, ClumpsOfCall, AnimsOfCall, Excused, OldOfCall,
             ToldOfCall, Reads, ReadFails, BeforeDelete, AfterDelete,
             Swapping, Wearing, Restoring, Worn
<1>1. CASE Rebuild
  BY <1>1 DEF Rebuild, Between, Free
<1>2. CASE Drop
  BY <1>2 DEF Drop, Between, Deleted, Freed, Without
<1>3. CASE Forget
  BY <1>3 DEF Forget, Between, Remembered
<1>. QED
  BY <1>1, <1>2, <1>3

\* The apply, up to the last call.
LEMMA ApplyKeeps == IInv /\ Apply => IInv'
<1>. SUFFICES ASSUME IInv, Apply PROVE IInv'
  OBVIOUS
<1>. USE DEF IInv, TypeOK, ClumpsOfCall, AnimsOfCall, Excused, OldOfCall,
             ToldOfCall, Reads, ReadFails, BeforeDelete, AfterDelete,
             Swapping, Wearing, Restoring, Worn
<1>1. CASE ApplyRefused
  BY <1>1 DEF ApplyRefused, Fail, Return
<1>2. CASE CloneSource
  BY <1>2 DEF CloneSource, Free
<1>3. CASE PrepareClone
  BY <1>3 DEF PrepareClone, callVars
<1>4. CASE PrepareFails
  BY <1>4 DEF PrepareFails, Destroy, Without, Fail, Return
<1>5. CASE TakeAnims
  BY <1>5 DEF TakeAnims, Given, Extracted, callVars
<1>6. CASE AbortFails
  BY <1>6 DEF AbortFails, Destroy, Without, Given, Extracted, Fail, Return
<1>7. CASE Abort
  BY <1>7 DEF Abort, callVars
<1>8. CASE DeleteOrdinary
  BY <1>8 DEF DeleteOrdinary, Deleted, Freed, Without, callVars
<1>9. CASE DeleteOrdinaryFails
  BY <1>9 DEF DeleteOrdinaryFails, Freed, Destroy, Without, Given, Extracted,
           Fail, Return
<1>10. CASE CreateTemporary
  BY <1>10 DEF CreateTemporary, Free, callVars
<1>11. CASE CreateFails
  BY <1>11 DEF CreateFails, callVars
<1>12. CASE PositionFails
  BY <1>12 DEF PositionFails, callVars
<1>13. CASE DestroyTemporary
  BY <1>13 DEF DestroyTemporary, Freed, callVars
<1>14. CASE Install
  BY <1>14 DEF Install, callVars
<1>15. CASE Verified
  BY <1>15 DEF Verified, Return
<1>16. CASE Unverified
  BY <1>16 DEF Unverified, callVars
<1>. QED
  BY <1>1, <1>2, <1>3, <1>4, <1>5, <1>6, <1>7, <1>8, <1>9, <1>10, <1>11,
           <1>12, <1>13, <1>14, <1>15, <1>16 DEF Apply

\* The recovery of a swap that failed.
LEMMA RecoverKeeps == IInv /\ Recover => IInv'
<1>. SUFFICES ASSUME IInv, Recover PROVE IInv'
  OBVIOUS
<1>. USE DEF IInv, TypeOK, ClumpsOfCall, AnimsOfCall, Excused, OldOfCall,
             ToldOfCall, Reads, ReadFails, BeforeDelete, AfterDelete,
             Swapping, Wearing, Restoring, Worn
<1>1. CASE RecoverWithoutDelete
  BY <1>1 DEF RecoverWithoutDelete, Extracted, callVars
<1>2. CASE RecoverDelete
  BY <1>2 DEF RecoverDelete, Deleted, Freed, Extracted, callVars
<1>3. CASE RecoverDeleteFails
  BY <1>3 DEF RecoverDeleteFails, DeleteRefused, DeletedUnseen, Deleted,
              Freed, Given, Extracted, Fail, Return
<1>4. CASE RecoverRebuild
  BY <1>4 DEF RecoverRebuild, Free, Destroy, Without, Given, Fail, Return
<1>5. CASE RecoverRebuildFails
  BY <1>5 DEF RecoverRebuildFails, Free, Given, Fail, Return
<1>. QED
  BY <1>1, <1>2, <1>3, <1>4, <1>5 DEF Recover

\* The restore.
LEMMA RestoreKeeps == IInv /\ Restore => IInv'
<1>. SUFFICES ASSUME IInv, Restore PROVE IInv'
  OBVIOUS
<1>. USE DEF IInv, TypeOK, ClumpsOfCall, AnimsOfCall, Excused, OldOfCall,
             ToldOfCall, Reads, ReadFails, BeforeDelete, AfterDelete,
             Swapping, Wearing, Restoring, Worn
<1>1. CASE StartRestore
  BY <1>1 DEF StartRestore, Remembered
<1>2. CASE RestoreRefused
  BY <1>2 DEF RestoreRefused, Fail, Return
<1>3. CASE RestoreExtract
  BY <1>3 DEF RestoreExtract, Extracted, localVars
<1>4. CASE Remove
  BY <1>4 DEF Remove, Deleted, Freed, Without, callVars
<1>5. CASE RemoveFails
  BY <1>5 DEF RemoveFails, DeleteRefused, DeletedUnseen, Deleted, Freed,
              Without, Given, Fail, Return
<1>6. CASE Renew
  BY <1>6 DEF Renew, Free, Given, Return
<1>7. CASE RenewFails
  BY <1>7 DEF RenewFails, Free, Given, Fail, Return
<1>. QED
  BY <1>1, <1>2, <1>3, <1>4, <1>5, <1>6, <1>7 DEF Restore

\* A ped in its ordinary clump, and no call.
LEMMA StartKeeps == Init => IInv
  BY DEF Init, IInv, TypeOK, ClumpsOfCall, AnimsOfCall, OldOfCall, ToldOfCall,
         Worn, BeforeDelete, AfterDelete, Swapping, Wearing, Restoring

\* The groups together.
LEMMA StepKeeps == IInv /\ [Next]_vars => IInv'
<1>. SUFFICES ASSUME IInv, [Next]_vars PROVE IInv'
  OBVIOUS
<1>1. CASE Next
  BY <1>1, GameKeeps, ApplyKeeps, RecoverKeeps, RestoreKeeps DEF Next
<1>2. CASE UNCHANGED vars
  BY <1>2 DEF IInv, TypeOK, ClumpsOfCall, AnimsOfCall, OldOfCall, ToldOfCall,
              Excused, Worn, BeforeDelete, AfterDelete, Swapping, Wearing,
              Restoring, vars
<1>. QED
  BY <1>1, <1>2

\* The invariant holds throughout: it is what every theorem below rests on.
THEOREM Inductive == Spec => []IInv
  BY StartKeeps, StepKeeps, PTL DEF Spec

-----------------------------------------------------------------------------
\* Every variable keeps its type, and between two calls the locals are gone.
THEOREM TypeCorrect == Spec => []TypeOK
<1>1. IInv => TypeOK
  BY DEF IInv
<1>. QED
  BY <1>1, Inductive, PTL

\* The live associations never stay on a clump that apply, restore or the
\* recovery frees, and are given to a freed one only after a delete that could
\* not be verified, which leaves the ped without a clump.
THEOREM AnimsNeverDangle == Spec => []NoDanglingAnims
<1>1. IInv => NoDanglingAnims
  BY DEF IInv, AnimsOfCall, NoDanglingAnims
<1>. QED
  BY <1>1, Inductive, PTL

\* After every call, successful or not, a ped with a clump has its live
\* associations on a clump that is alive, unless restore could not read the
\* clone's animation data or the rebuilt clump.
THEOREM AnimationsAlwaysKept == Spec => []AnimationsKept
<1>1. IInv => AnimationsKept
  BY DEF IInv, AnimsOfCall, Excused, AnimationsKept
<1>. QED
  BY <1>1, Inductive, PTL

\* Between two calls the raw pointer of the ped never points to a freed clump,
\* whichever calls and reads have failed.
THEOREM PedAlwaysWearsLiveClump == Spec => []PedWearsLiveClump
<1>1. IInv => PedWearsLiveClump
  BY DEF IInv, ClumpsOfCall, PedWearsLiveClump
<1>. QED
  BY <1>1, Inductive, PTL

\* No way out of apply, restore or the recovery leaves a clump behind that no
\* one owns, but one that RpClumpDestroy refused and the temporary clump of a
\* recovery that could not read the ped.
THEOREM NothingLeaks == Spec => NoLeakedClump
<1>. DEFINE Leaves == \A a \in {ped, old, prepared} \ {Null} :
                        clump'[a] \in {"ordinary", "clone"} =>
                          \/ a \in {ped', anims'}
                          \/ pc = "rebuild" /\ a = ped
<1>1. IInv /\ [Next]_vars => (pc # "idle" /\ pc' = "idle" => Leaves)
  <2>. SUFFICES ASSUME IInv, Next, pc # "idle", pc' = "idle"
                PROVE  Leaves
    BY DEF vars
  <2>. USE DEF IInv, TypeOK, ClumpsOfCall, AnimsOfCall, OldOfCall, ToldOfCall,
               Excused, Worn, BeforeDelete, AfterDelete, Swapping, Wearing,
               Restoring, Fail, Return, Given, Extracted, Without, Destroy,
               Freed, Free
  <2>1. CASE PrepareFails
    BY <2>1 DEF PrepareFails
  <2>2. CASE AbortFails
    BY <2>2 DEF AbortFails
  <2>3. CASE DeleteOrdinaryFails
    BY <2>3 DEF DeleteOrdinaryFails
  <2>4. CASE Verified
    BY <2>4 DEF Verified
  <2>5. CASE RecoverDeleteFails
    BY <2>5 DEF RecoverDeleteFails, DeleteRefused, DeletedUnseen, Deleted
  <2>6. CASE RecoverRebuild
    BY <2>6 DEF RecoverRebuild
  <2>7. CASE RecoverRebuildFails
    BY <2>7 DEF RecoverRebuildFails
  <2>8. CASE RestoreRefused
    BY <2>8 DEF RestoreRefused
  <2>9. CASE RemoveFails
    BY <2>9 DEF RemoveFails, DeleteRefused, DeletedUnseen, Deleted
  <2>10. CASE Renew
    BY <2>10 DEF Renew
  <2>11. CASE RenewFails
    BY <2>11 DEF RenewFails
  <2>12. \/ PrepareFails \/ AbortFails \/ DeleteOrdinaryFails \/ Verified
         \/ RecoverDeleteFails \/ RecoverRebuild \/ RecoverRebuildFails
         \/ RestoreRefused \/ RemoveFails \/ Renew \/ RenewFails
    BY DEF Next, Apply, Recover, Restore, Rebuild, Drop, Forget, Between,
           ApplyRefused, CloneSource, PrepareClone, TakeAnims, Abort,
           DeleteOrdinary, CreateTemporary, CreateFails, PositionFails,
           DestroyTemporary, Install, Unverified, RecoverWithoutDelete,
           RecoverDelete, StartRestore, RestoreExtract, Remove, callVars,
           localVars
  <2>. QED
    BY <2>1, <2>2, <2>3, <2>4, <2>5, <2>6, <2>7, <2>8, <2>9, <2>10, <2>11,
       <2>12
<1>. QED
  BY <1>1, Inductive, PTL DEF Spec, NoLeakedClump

\* For its caller each swap is one step with an outcome of SwapOutcomes, over
\* all failures: a clone is on unreported only after an apply that could not
\* read back what it had installed.
THEOREM CallerIsTold == Spec => SwapImplementsOutcomes
<1>1. Init => Outcomes!Init
  BY DEF Init, Outcomes!Init
<1>2. IInv /\ [Next]_vars => [Outcomes!Next]_(Outcomes!outcomeVars)
  <2>. USE DEF Outcomes!Next, Outcomes!outcomeVars, Outcomes!Begin,
               Outcomes!ApplySucceeds, Outcomes!ApplyFails,
               Outcomes!NotReadBack, Outcomes!Undone,
               Outcomes!RestoreSucceeds, Outcomes!RestoreFails,
               Outcomes!Replaced, Outcomes!Forgotten
  <2>. SUFFICES ASSUME IInv, [Next]_vars
                PROVE  [Outcomes!Next]_(Outcomes!outcomeVars)
    OBVIOUS
  <2>. USE DEF IInv, TypeOK, ClumpsOfCall, AnimsOfCall, OldOfCall, ToldOfCall,
               Excused, Worn, BeforeDelete, AfterDelete, Swapping, Wearing,
               Restoring
  <2>1. CASE UNCHANGED vars
    BY <2>1 DEF vars
  <2>2. CASE Rebuild \/ Drop
    BY <2>2 DEF Rebuild, Drop, Between
  <2>3. CASE Forget
    BY <2>3 DEF Forget, Between, Remembered
  <2>4. CASE ApplyRefused
    BY <2>4 DEF ApplyRefused, Fail, Return
  <2>5. CASE CloneSource
    BY <2>5 DEF CloneSource
  <2>6. CASE StartRestore
    BY <2>6 DEF StartRestore, Remembered
  <2>7. CASE \/ PrepareClone \/ TakeAnims \/ Abort \/ DeleteOrdinary
             \/ CreateTemporary \/ CreateFails \/ PositionFails
             \/ DestroyTemporary \/ Install \/ Unverified
    BY <2>7
       DEF PrepareClone, TakeAnims, Abort, DeleteOrdinary, CreateTemporary,
           CreateFails, PositionFails, DestroyTemporary, Install, Unverified,
           callVars
  <2>8. CASE \/ RecoverWithoutDelete \/ RecoverDelete \/ RestoreExtract
             \/ Remove
    BY <2>8
       DEF RecoverWithoutDelete, RecoverDelete, RestoreExtract, Remove,
           callVars, localVars
  <2>9. CASE PrepareFails \/ AbortFails \/ DeleteOrdinaryFails
    BY <2>9
       DEF PrepareFails, AbortFails, DeleteOrdinaryFails, Destroy, Fail,
           Return
  <2>10. CASE RecoverDeleteFails \/ RecoverRebuild \/ RecoverRebuildFails
    BY <2>10
       DEF RecoverDeleteFails, RecoverRebuild, RecoverRebuildFails,
           DeleteRefused, DeletedUnseen, Deleted, Destroy, Free, Fail, Return
  <2>11. CASE Verified
    BY <2>11 DEF Verified, Return
  <2>12. CASE Renew
    BY <2>12 DEF Renew, Free, Return
  <2>13. CASE RestoreRefused \/ RemoveFails \/ RenewFails
    BY <2>13
       DEF RestoreRefused, RemoveFails, RenewFails, DeleteRefused,
           DeletedUnseen, Deleted, Free, Fail, Return
  <2>. QED
    BY <2>1, <2>2, <2>3, <2>4, <2>5, <2>6, <2>7, <2>8, <2>9, <2>10, <2>11,
       <2>12, <2>13 DEF Next, Apply, Recover, Restore
<1>. QED
  BY <1>1, <1>2, Inductive, PTL DEF Spec, SwapImplementsOutcomes, Outcomes!Spec
=============================================================================
