--------------------------- MODULE ConfigWatcher ----------------------------
(***************************************************************************)
(* The configuration file and its two readers (config.rs): load_initial on *)
(* the startup thread, and poll_change in every frame of the game.         *)
(*                                                                         *)
(* The file belongs to others (the editor in the game, a text editor, ...) *)
(* who write and remove it between any two of the readers' system calls: a *)
(* poll inspects the file and reads it in two steps, and load_initial      *)
(* reads it, asks why that failed, and creates it in three.                *)
(*                                                                         *)
(* Abstracted: what the text says.  A content is accepted by parse, or it  *)
(* is not, as half-written text is not; time is the stamp of the latest    *)
(* write.                                                                  *)
(***************************************************************************)
EXTENDS Naturals

CONSTANTS
  Contents,     \* what the file may hold
  Valid,        \* the contents that read and parse accept
  EmptyConfig,  \* "{}\n"
  Absent,       \* no file
  None,         \* Rust's None
  Length,       \* the number of bytes of a content
  MaxTime,      \* bound: the file is not written after this time
  FreshStamps,  \* does every write get a later modification time?
  ReadsFail     \* may the text of a file that is there be unreadable?

\* FileRevision
Missing == [kind |-> "Missing"]
Unreadable == [kind |-> "Unreadable"]
Present(time, length) ==
  [kind |-> "Present", modified |-> time, length |-> length]
PresentRevision == [kind : {"Present"}, modified : Nat, length : Nat]

ASSUME WatcherAssumption ==
  /\ Valid \subseteq Contents
  /\ EmptyConfig \in Valid
  /\ Absent \notin Contents
  /\ None \notin Contents \cup PresentRevision
  /\ Length \in [Contents -> Nat]
  /\ MaxTime \in Nat
  /\ FreshStamps \in BOOLEAN
  /\ ReadsFail \in BOOLEAN

VARIABLES
  content,   \* what wardrobe.json holds
  modified,  \* its modification time
  phase,     \* what the plugin is at
  active,    \* the active configuration: Runtime::config
  observed,  \* ConfigWatcher::observed_revision
  recent     \* is last_check less than CONFIG_RELOAD_INTERVAL ago?

fileVars == <<content, modified>>
watcherVars == <<phase, active, observed, recent>>
vars == <<content, modified, phase, active, observed, recent>>

\* Mutant: a change of the length alone counts.
LengthRevision ==
  IF content = Absent THEN Missing ELSE Present(0, Length[content])

\* file_revision, when the file can be inspected.
Revision ==
  IF content = Absent THEN Missing ELSE Present(modified, Length[content])

\* plugin_thread: load_initial fails before the runtime exists, or the new
\* runtime begins with a watcher that has seen nothing.
Starting == {"read", "diagnose", "create"}
Running == {"idle", "changed"}

Init ==
  /\ content \in Contents \cup {Absent}
  /\ modified = 0
  /\ phase = "read"
  /\ active = None
  /\ observed = None
  /\ recent = FALSE

(***************************************************************************)
(* Others write and remove the file.                                       *)
(***************************************************************************)
Stamps == IF FreshStamps THEN {modified + 1} ELSE {modified, modified + 1}

Write ==
  /\ \E c \in Contents, t \in Stamps :
       /\ t <= MaxTime
       /\ content' = c
       /\ modified' = t
  /\ UNCHANGED watcherVars

Remove ==
  /\ content # Absent
  /\ content' = Absent
  /\ UNCHANGED <<modified, watcherVars>>

(***************************************************************************)
(* load_initial                                                            *)
(***************************************************************************)
Loaded(c) ==
  /\ phase' = "idle"
  /\ active' = c

LoadInitial ==
  /\ phase = "read"
  /\ content \in Valid
  /\ Loaded(content)
  /\ UNCHANGED <<fileVars, observed, recent>>

LoadInitialFails ==
  /\ phase = "read"
  /\ content \notin Valid \/ ReadsFail
  /\ phase' = "diagnose"
  /\ UNCHANGED <<fileVars, active, observed, recent>>

\* fs::metadata tells a missing file from any other error.
Diagnose ==
  /\ phase = "diagnose"
  /\ phase' = IF content = Absent THEN "create" ELSE "stopped"
  /\ UNCHANGED <<fileVars, active, observed, recent>>

\* fs::write creates the file, or replaces one that has appeared since.
CreateEmpty ==
  /\ phase = "create"
  /\ content' = EmptyConfig
  /\ modified' \in Stamps
  /\ Loaded(EmptyConfig)
  /\ UNCHANGED <<observed, recent>>

CreateFails ==
  /\ phase = "create"
  /\ phase' = "stopped"
  /\ UNCHANGED <<fileVars, active, observed, recent>>

(***************************************************************************)
(* poll_change                                                             *)
(***************************************************************************)
IntervalPasses ==
  /\ recent
  /\ recent' = FALSE
  /\ UNCHANGED <<fileVars, phase, active, observed>>

Observe(revision) ==
  /\ revision # observed
  /\ observed' = revision
  /\ phase' = IF revision.kind = "Present" THEN "changed" ELSE "idle"

\* Mutant: the revision is remembered before the throttle is looked at.
InspectThenThrottle(revision) ==
  /\ phase = "idle"
  /\ observed' = revision
  /\ recent' = TRUE
  /\ phase' = IF ~ recent /\ revision # observed /\ revision.kind = "Present"
              THEN "changed" ELSE "idle"
  /\ UNCHANGED <<fileVars, active>>

Inspect(revision) ==
  /\ phase = "idle"
  /\ ~ recent
  /\ recent' = TRUE
  /\ \/ Observe(revision)
     \/ revision = observed /\ UNCHANGED <<observed, phase>>
  /\ UNCHANGED <<fileVars, active>>

\* Mutant: parse accepts anything.
ReadAnything ==
  /\ phase = "changed"
  /\ content # Absent
  /\ Loaded(content)
  /\ UNCHANGED <<fileVars, observed, recent>>

ReadChanged ==
  /\ phase = "changed"
  /\ content \in Valid
  /\ Loaded(content)
  /\ UNCHANGED <<fileVars, observed, recent>>

\* Invalid, gone again, or unreadable: the active configuration stays.
ReadChangedFails ==
  /\ phase = "changed"
  /\ content \notin Valid \/ ReadsFail
  /\ phase' = "idle"
  /\ UNCHANGED <<fileVars, active, observed, recent>>

Load ==
  \/ LoadInitial
  \/ LoadInitialFails
  \/ Diagnose
  \/ CreateEmpty
  \/ CreateFails

Poll ==
  \/ IntervalPasses
  \/ Inspect(Revision)
  \/ Inspect(Unreadable)
  \/ ReadChanged
  \/ ReadChangedFails

Next == Write \/ Remove \/ Load \/ Poll

Spec == Init /\ [][Next]_vars

(***************************************************************************)
(* Fairness.  The startup thread and the frames go on, time passes, and    *)
(* the file can be inspected, and read, again and again; nobody has to     *)
(* write it.                                                               *)
(***************************************************************************)
Fairness ==
  /\ WF_vars(Load)
  /\ WF_vars(IntervalPasses)
  /\ SF_vars(Inspect(Revision))
  /\ WF_vars(ReadChanged \/ ReadChangedFails)
  /\ SF_vars(ReadChanged)

FairSpec == Spec /\ Fairness
-----------------------------------------------------------------------------
(***************************************************************************)
(* Properties                                                              *)
(***************************************************************************)

\* Every variable has its type; what is active was accepted by parse, and it
\* is there as soon as the runtime is (invalid edits "deliberately leave the
\* active configuration untouched").
TypeOK ==
  /\ content \in Contents \cup {Absent}
  /\ modified \in Nat
  /\ phase \in Starting \cup Running \cup {"stopped"}
  /\ active \in Valid \cup {None}
  /\ phase \in Running => active \in Valid
  /\ \/ observed \in {None, Missing, Unreadable}
     \/ observed \in PresentRevision
  /\ recent \in BOOLEAN

\* No valid edit hides behind its own revision: while the watcher waits, having
\* seen the revision the file has now, an acceptable content of the file is
\* the active configuration, whenever the file was written between a poll's
\* inspection and its read, between polls, or during startup.
NoLostEdit ==
  phase = "idle" /\ content \in Valid /\ observed = Revision
    => active = content

\* A valid configuration that stays in the file becomes and stays active
\* ("Valid configuration and skin-file changes are picked up while GTA is
\* running").
EditPickedUp ==
  \A c \in Valid :
    <>[](content = c /\ phase # "stopped") => <>[](active = c)
=============================================================================
