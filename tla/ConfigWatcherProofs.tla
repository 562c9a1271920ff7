------------------------ MODULE ConfigWatcherProofs -------------------------
(***************************************************************************)
(* What is active was always accepted; and where every write leaves a      *)
(* later modification time and a file that is there can be read, no valid  *)
(* edit is lost on the watcher.                                            *)
(***************************************************************************)
EXTENDS ConfigWatcher, TLAPS

\* The watcher has seen no revision of the future, and none at all before the
\* runtime exists.
ObservedIsPast ==
  /\ phase \in Starting => observed = None
  /\ observed \in PresentRevision => observed.modified <= modified

IInv == TypeOK /\ ObservedIsPast /\ NoLostEdit

USE WatcherAssumption

\* The revision of a file that is there.
LEMMA RevisionOfFile ==
  ASSUME TypeOK, content # Absent
  PROVE  /\ Revision \in PresentRevision
         /\ Revision.modified = modified
  BY DEF TypeOK, Revision, Present, PresentRevision

\* The plugin starts in the invariant.
LEMMA InitHolds ==
  ASSUME Init
  PROVE  IInv
<1>1. TypeOK
  BY DEF Init, TypeOK, Starting, Running
<1>2. ObservedIsPast
  BY DEF Init, ObservedIsPast
<1>3. NoLostEdit
  BY DEF Init, NoLostEdit
<1> QED
  BY <1>1, <1>2, <1>3 DEF IInv

\* A write has a later time than any revision the watcher has seen.
LEMMA WriteKeeps ==
  ASSUME IInv, Write, FreshStamps
  PROVE  IInv'
<1>1. modified' = modified + 1 /\ content' \in Contents
  BY DEF Write, Stamps
<1>2. TypeOK'
  BY <1>1 DEF IInv, TypeOK, Write, watcherVars, Starting, Running
<1>3. ObservedIsPast'
  BY <1>1 DEF IInv, TypeOK, ObservedIsPast, Write, watcherVars, PresentRevision
<1>4. observed' # Revision'
  <2>1. Revision' \in PresentRevision /\ Revision.modified' = modified + 1
    BY <1>1, <1>2 DEF TypeOK, Revision, Present, PresentRevision
  <2>2. observed \in PresentRevision => observed.modified <= modified
    BY DEF IInv, ObservedIsPast
  <2>3. modified \in Nat
    BY DEF IInv, TypeOK
  <2>4. observed' = observed
    BY DEF Write, watcherVars
  <2> QED
    BY <2>1, <2>2, <2>3, <2>4 DEF PresentRevision
<1> QED
  BY <1>2, <1>3, <1>4 DEF IInv, NoLostEdit

\* A removed file holds nothing to lose.
LEMMA RemoveKeeps ==
  ASSUME IInv, Remove
  PROVE  IInv'
  BY DEF IInv, TypeOK, ObservedIsPast, NoLostEdit, Remove, watcherVars,
         Starting, Running

\* The startup thread reads, or creates, the file before the watcher exists.
LEMMA LoadKeeps ==
  ASSUME IInv, Load
  PROVE  IInv'
<1>1. CASE LoadInitial
  BY <1>1 DEF IInv, TypeOK, ObservedIsPast, NoLostEdit, LoadInitial, Loaded,
              fileVars, Starting, Running
<1>2. CASE LoadInitialFails
  BY <1>2 DEF IInv, TypeOK, ObservedIsPast, NoLostEdit, LoadInitialFails,
              fileVars, Starting, Running
<1>3. CASE Diagnose
  BY <1>3 DEF IInv, TypeOK, ObservedIsPast, NoLostEdit, Diagnose, fileVars,
              Starting, Running
<1>4. CASE CreateEmpty
  <2>1. modified' \in Nat
    BY <1>4 DEF IInv, TypeOK, CreateEmpty, Stamps
  <2>2. observed' = None
    BY <1>4 DEF IInv, ObservedIsPast, CreateEmpty, Starting
  <2> QED
    BY <1>4, <2>1, <2>2 DEF IInv, TypeOK, ObservedIsPast, NoLostEdit,
       CreateEmpty, Loaded, Starting, Running
<1>5. CASE CreateFails
  BY <1>5 DEF IInv, TypeOK, ObservedIsPast, NoLostEdit, CreateFails, fileVars,
              Starting, Running
<1> QED
  BY <1>1, <1>2, <1>3, <1>4, <1>5 DEF Load

\* An inspection that finds a new revision of a file that is there goes on to
\* read it; one that finds the revision it knows changes nothing.
LEMMA InspectKeeps ==
  ASSUME IInv, NEW revision \in {Revision, Unreadable}, Inspect(revision)
  PROVE  IInv'
<1>1. UNCHANGED <<content, modified, active>> /\ phase = "idle" /\ recent' = TRUE
  BY DEF Inspect, fileVars
<1>2. CASE revision = observed /\ UNCHANGED <<observed, phase>>
  <2>1. Revision' = Revision
    BY <1>1 DEF Revision
  <2> QED
    BY <1>1, <1>2, <2>1 DEF IInv, TypeOK, ObservedIsPast, NoLostEdit
<1>3. CASE Observe(revision)
  <2>1. revision = Missing \/ revision = Unreadable \/ revision \in PresentRevision
    BY RevisionOfFile DEF IInv, Revision
  <2>2. revision \in PresentRevision => revision.modified = modified
    BY RevisionOfFile DEF IInv, Revision, Missing, Unreadable, PresentRevision
  <2>3. TypeOK'
    BY <1>1, <1>3, <2>1 DEF IInv, TypeOK, Observe, Starting, Running
  <2>4. ObservedIsPast'
    BY <1>1, <1>3, <2>2 DEF IInv, TypeOK, ObservedIsPast, Observe, Starting
  <2>5. ASSUME phase' = "idle", content' \in Valid
        PROVE  observed' # Revision'
    <3>1. content # Absent /\ Revision' = Revision
      BY <1>1, <2>5 DEF Revision
    <3>2. Revision.kind = "Present"
      BY <3>1, RevisionOfFile DEF IInv, PresentRevision
    <3>3. observed' = revision /\ revision.kind # "Present"
      BY <1>3, <2>5 DEF Observe
    <3> QED
      BY <3>1, <3>2, <3>3
  <2> QED
    BY <2>3, <2>4, <2>5 DEF IInv, NoLostEdit
<1> QED
  BY <1>2, <1>3 DEF Inspect

\* The changed file is read: what is acceptable becomes active, and what is not
\* is not there to be lost.
LEMMA PollKeeps ==
  ASSUME IInv, Poll, ~ ReadsFail
  PROVE  IInv'
<1>1. CASE IntervalPasses
  BY <1>1 DEF IInv, TypeOK, ObservedIsPast, NoLostEdit, IntervalPasses,
              fileVars, Revision
<1>2. CASE Inspect(Revision)
  BY <1>2, InspectKeeps
<1>3. CASE Inspect(Unreadable)
  BY <1>3, InspectKeeps
<1>4. CASE ReadChanged
  BY <1>4 DEF IInv, TypeOK, ObservedIsPast, NoLostEdit, ReadChanged, Loaded,
              fileVars, Starting, Running
<1>5. CASE ReadChangedFails
  BY <1>5 DEF IInv, TypeOK, ObservedIsPast, NoLostEdit, ReadChangedFails,
              fileVars, Starting, Running
<1> QED
  BY <1>1, <1>2, <1>3, <1>4, <1>5 DEF Poll

\* Whoever writes the file, and whether or not it can be read: what is active
\* was accepted by parse, and is there as soon as the runtime is.
THEOREM TypeCorrect == Spec => []TypeOK
<1>1. Init => TypeOK
  BY InitHolds DEF IInv
<1>2. TypeOK /\ [Next]_vars => TypeOK'
  <2> SUFFICES ASSUME TypeOK, [Next]_vars PROVE TypeOK'
    OBVIOUS
  <2> USE DEF TypeOK, fileVars, watcherVars, Starting, Running
  <2>1. CASE UNCHANGED vars
    BY <2>1 DEF vars
  <2>2. CASE Write \/ Remove
    BY <2>2 DEF Write, Remove, Stamps
  <2>3. CASE Load
    BY <2>3 DEF Load, LoadInitial, LoadInitialFails, Diagnose, CreateEmpty,
                CreateFails, Loaded, Stamps
  <2>4. ASSUME NEW revision \in {Revision, Unreadable}, Inspect(revision)
        PROVE  TypeOK'
    <3>1. revision \in {Missing, Unreadable} \/ revision \in PresentRevision
      BY RevisionOfFile DEF Revision
    <3> QED
      BY <2>4, <3>1 DEF Inspect, Observe
  <2>5. CASE Poll
    BY <2>4, <2>5 DEF Poll, IntervalPasses, ReadChanged, ReadChangedFails, Loaded
  <2> QED
    BY <2>1, <2>2, <2>3, <2>5 DEF Next
<1> QED
  BY <1>1, <1>2, PTL DEF Spec

\* No valid edit is lost on the watcher, for any contents and any number of
\* writes, if every write gets a later time and a file that is there can be
\* read (poll_change, load_initial).
THEOREM NoEditEverLost ==
  ASSUME FreshStamps, ~ ReadsFail
  PROVE  Spec => []NoLostEdit
<1>1. IInv /\ [Next]_vars => IInv'
  <2> SUFFICES ASSUME IInv, [Next]_vars
               PROVE  IInv'
    OBVIOUS
  <2>1. CASE UNCHANGED vars
    BY <2>1 DEF vars, IInv, TypeOK, ObservedIsPast, NoLostEdit, Revision
  <2> QED
    BY <2>1, WriteKeeps, RemoveKeeps, LoadKeeps, PollKeeps DEF Next
<1>2. IInv => NoLostEdit
  BY DEF IInv
<1>3. Init => IInv
  BY InitHolds
<1> QED
  BY <1>1, <1>2, <1>3, PTL DEF Spec
=============================================================================
