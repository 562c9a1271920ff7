---------------------------- MODULE AssetReload -----------------------------
(***************************************************************************)
(* load_or_status of the source cache, one system call at a time, against  *)
(* writers of the two asset files of one profile.                          *)
(*                                                                         *)
(* A check inspects the TXD and then the DFF; a load reads the TXD and then *)
(* the DFF.  Writers come between any two of these.  A frame is one call   *)
(* for the profile; its clones are left to SkinRuntime, which has the call *)
(* as one step: LoadOrStatus of SourceCache, for any revision it may find. *)
(*                                                                         *)
(* Assumed: a file that is there can be inspected and read, every write    *)
(* gives it a later modification time, and a load fails only for what is   *)
(* in the files.                                                           *)
(***************************************************************************)
EXTENDS SourceCache

CONSTANTS
  Profile,    \* the profile that is asked for
  MaxWrites   \* bound: the writes to the files

ASSUME AssetAssumption ==
  /\ Profile \in Skins
  /\ MaxWrites \in Nat
  /\ [txd : 0 .. MaxWrites, dff : 0 .. MaxWrites] \subseteq FileRevisions

VARIABLES
  cache,    \* SourceCache
  wanted,   \* the definition the configuration has for the profile
  disk,     \* the files of each pair of paths: the last write, is it good?
  writes,   \* the writes so far: the clock of the file system
  recent,   \* the last check is less than ASSET_RELOAD_INTERVAL ago
  at,       \* the next system call of the call in progress
  seen,     \* the revisions the check has inspected
  read,     \* the write of the TXD that the load has read
  content,  \* history: the paths and writes the loaded source was read from
  answer    \* the kind and generation of the last answer

call == <<at, seen, read>>
vars == <<cache, wanted, disk, writes, recent, call, content, answer>>

\* A profile is asked for while it is enabled.
Definition == [enabled : {TRUE}, paths : Paths]

Revision == 0 .. MaxWrites
Parts == {"txd", "dff"}

\* A file that is missing has a revision of its own, here 0.
File == [write : Revision, good : BOOLEAN]
MissingFile == [write |-> 0, good |-> FALSE]

NoAnswer == [kind |-> "None", generation |-> 0]

Init ==
  /\ cache = EmptyCache
  /\ wanted \in Definition
  /\ disk = [paths \in Paths |-> [part \in Parts |-> MissingFile]]
  /\ writes = 0
  /\ recent = FALSE
  /\ at = "idle"
  /\ seen = [txd |-> 0, dff |-> 0]
  /\ read = 0
  /\ content = [paths |-> wanted.paths, txd |-> 0, dff |-> 0]
  /\ answer = NoAnswer

-----------------------------------------------------------------------------
(***************************************************************************)
(* What happens outside: the files, the clock, and between two calls the   *)
(* configuration and the release of retired sources.                       *)
(***************************************************************************)
Write(paths, part) ==
  /\ writes < MaxWrites
  /\ writes' = writes + 1
  /\ \E file \in {MissingFile} \cup [write : {writes'}, good : BOOLEAN] :
       disk' = [disk EXCEPT ![paths][part] = file]
  /\ UNCHANGED <<cache, wanted, recent, call, content, answer>>

IntervalPasses ==
  /\ recent
  /\ recent' = FALSE
  /\ UNCHANGED <<cache, wanted, disk, writes, call, content, answer>>

BetweenCalls ==
  /\ at = "idle"
  /\ UNCHANGED <<disk, writes, recent, call, content, answer>>

Redefine ==
  /\ wanted' \in Definition
  /\ cache' = cache
  /\ BetweenCalls

\* No rule needs the profile any longer.
Unreference ==
  /\ cache' = RetireUnreferenced(cache, Skins \ {Profile})
  /\ wanted' = wanted
  /\ BetweenCalls

Release ==
  /\ cache.retired # {}
  /\ cache' = CleanupRetired(cache, {}, {})
  /\ wanted' = wanted
  /\ BetweenCalls

-----------------------------------------------------------------------------
(***************************************************************************)
(* load_or_status                                                          *)
(***************************************************************************)
Outside == UNCHANGED <<wanted, disk, writes>>

Answer(kind, generation) ==
  /\ answer' = [kind |-> kind, generation |-> generation]
  /\ at' = "idle"
  /\ UNCHANGED <<seen, read>>

Loaded == Profile \in DOMAIN cache.loaded
HasFailed == Profile \in DOMAIN cache.failed

WaitForRestore ==
  /\ RestoreStillNeeded(cache, Profile)
  /\ Answer("RestoreRequired", 0)
  /\ UNCHANGED <<cache, recent, content>>

ReadyRecently ==
  Loaded /\ cache.loaded[Profile].source.definition = wanted /\ recent

FailedRecently ==
  recent /\ HasFailed /\ cache.failed[Profile].definition = wanted

AnswerRecent ==
  /\ ~ RestoreStillNeeded(cache, Profile)
  /\ \/ ReadyRecently /\ Answer("Ready", cache.loaded[Profile].generation)
     \/ ~ ReadyRecently /\ FailedRecently /\ Answer("Unavailable", 0)
  /\ UNCHANGED <<cache, recent, content>>

StartCheck ==
  /\ ~ RestoreStillNeeded(cache, Profile)
  /\ ~ ReadyRecently /\ ~ FailedRecently
  /\ at' = "txd_revision"
  /\ UNCHANGED <<cache, recent, seen, read, content, answer>>

\* skin_source_revision
InspectTxd ==
  /\ at = "txd_revision"
  /\ seen' = [seen EXCEPT !.txd = disk[wanted.paths]["txd"].write]
  /\ at' = "dff_revision"
  /\ UNCHANGED <<cache, recent, read, content, answer>>

InspectDff ==
  /\ at = "dff_revision"
  /\ seen' = [seen EXCEPT !.dff = disk[wanted.paths]["dff"].write]
  /\ at' = "compare"
  /\ recent' = TRUE
  /\ UNCHANGED <<cache, read, content, answer>>

\* Mutant: what is loaded is taken for the source of its definition.
SameDefinition(revision) == revision.definition = wanted

IsSource(revision) == revision = [definition |-> wanted, files |-> seen]

StillLoaded ==
  /\ Loaded /\ IsSource(cache.loaded[Profile].source)
  /\ Answer("Ready", cache.loaded[Profile].generation)
  /\ UNCHANGED cache

\* Mutant: the replacement is loaded at once.
RetireAndLoad ==
  /\ Loaded /\ ~ IsSource(cache.loaded[Profile].source)
  /\ cache' = RetireUnreferenced(cache, Skins \ {Profile})
  /\ at' = "load_txd"
  /\ UNCHANGED <<seen, read, answer>>

RetireChanged ==
  /\ Loaded /\ ~ IsSource(cache.loaded[Profile].source)
  /\ cache' = LET retiring == RetireUnreferenced(cache, Skins \ {Profile})
              IN  CacheOf(retiring.loaded, retiring.retired,
                          Without(cache.failed, Profile), cache.generation)
  /\ Answer("RestoreRequired", 0)

StillUnavailable ==
  /\ ~ Loaded /\ HasFailed /\ IsSource(cache.failed[Profile])
  /\ Answer("Unavailable", 0)
  /\ UNCHANGED cache

StartLoad ==
  /\ ~ Loaded /\ ~ (HasFailed /\ IsSource(cache.failed[Profile]))
  /\ at' = "load_txd"
  /\ UNCHANGED <<cache, seen, read, answer>>

Compare ==
  /\ at = "compare"
  /\ StillLoaded \/ RetireChanged \/ StillUnavailable \/ StartLoad
  /\ UNCHANGED <<recent, content>>

\* Mutant: the revision is the one the files have when they are loaded.
RevisionAfterwards ==
  [ definition |-> wanted,
    files      |-> [ txd |-> disk[wanted.paths]["txd"].write,
                     dff |-> disk[wanted.paths]["dff"].write ] ]

SourceRevisionSeen == [definition |-> wanted, files |-> seen]

FailToLoad ==
  /\ cache' = CacheOf(cache.loaded, cache.retired,
                      Put(cache.failed, Profile, SourceRevisionSeen),
                      cache.generation)
  /\ Answer("Unavailable", 0)
  /\ UNCHANGED content

LoadTxd ==
  /\ at = "load_txd"
  /\ \/ /\ disk[wanted.paths]["txd"].good
        /\ read' = disk[wanted.paths]["txd"].write
        /\ at' = "load_dff"
        /\ UNCHANGED <<cache, seen, content, answer>>
     \/ ~ disk[wanted.paths]["txd"].good /\ FailToLoad
  /\ UNCHANGED recent

Load(geometry, generation) ==
  /\ cache' = CacheOf(Put(cache.loaded, Profile,
                          NewSource(geometry, SourceRevisionSeen, generation)),
                      cache.retired,
                      Without(cache.failed, Profile),
                      generation)
  /\ content' = [ paths |-> wanted.paths,
                  txd   |-> read,
                  dff   |-> disk[wanted.paths]["dff"].write ]
  /\ Answer("Ready", generation)

LoadDff ==
  /\ at = "load_dff"
  /\ \/ /\ disk[wanted.paths]["dff"].good
        /\ \E geometry \in Geometries \ OwnedGeometries(cache) :
             Load(geometry, NextGeneration(cache.generation))
     \/ ~ disk[wanted.paths]["dff"].good /\ FailToLoad
  /\ UNCHANGED recent

Call ==
  /\ \/ at = "idle" /\ (WaitForRestore \/ AnswerRecent \/ StartCheck)
     \/ InspectTxd \/ InspectDff \/ Compare \/ LoadTxd \/ LoadDff
  /\ Outside

Next ==
  \/ \E paths \in Paths, part \in Parts : Write(paths, part)
  \/ IntervalPasses
  \/ Redefine
  \/ Unreference
  \/ Release
  \/ Call

Spec == Init /\ [][Next]_vars

(***************************************************************************)
(* Fairness.  The profile is asked for in every scan, a call runs to its   *)
(* end, time passes and retired sources are released.  Nobody has to write. *)
(***************************************************************************)
Fairness == WF_vars(Call) /\ WF_vars(IntervalPasses) /\ WF_vars(Release)

FairSpec == Spec /\ Fairness
-----------------------------------------------------------------------------
(***************************************************************************)
(* Properties                                                              *)
(***************************************************************************)

\* Every variable has the type of the field or local it stands for.
TypeOK ==
  /\ IsCache(cache)
  /\ wanted \in Definition
  /\ disk \in [Paths -> [Parts -> File]]
  /\ writes \in 0 .. MaxWrites
  /\ recent \in BOOLEAN
  /\ at \in {"idle", "txd_revision", "dff_revision", "compare",
             "load_txd", "load_dff"}
  /\ seen \in [txd : Revision, dff : Revision]
  /\ read \in Revision
  /\ content \in [paths : Paths, txd : Revision, dff : Revision]
  /\ answer \in [ kind       : {"None", "Ready", "RestoreRequired", "Unavailable"},
                  generation : 0 .. MaxGeneration ]

Revisions(paths) == [ txd |-> disk[paths]["txd"].write,
                      dff |-> disk[paths]["dff"].write ]

Contents(paths) == [ paths |-> paths,
                     txd   |-> disk[paths]["txd"].write,
                     dff   |-> disk[paths]["dff"].write ]

There(paths) == 0 \notin {disk[paths]["txd"].write, disk[paths]["dff"].write}

Good(paths) == disk[paths]["txd"].good /\ disk[paths]["dff"].good

\* No change of the assets hides behind the revision that is remembered: a
\* source that is taken for the files that are there was read from them, and a
\* profile that is taken to be broken still is.  The revision is read before
\* the files, so what changes in between is newer than what is remembered; only
\* that a file is missing can be true again.
NoHiddenChange ==
  \A paths \in Paths :
    /\ Loaded /\ cache.loaded[Profile].source.definition.paths = paths
         /\ cache.loaded[Profile].source.files = Revisions(paths)
         /\ There(paths)
       => content = Contents(paths)
    /\ HasFailed /\ cache.failed[Profile].definition.paths = paths
         /\ cache.failed[Profile].files = Revisions(paths)
       => ~ Good(paths)

\* However its system calls interleave with writers, a call answers and leaves
\* the cache as LoadOrStatus does in one step, for some revision of the files
\* (the operator that SkinRuntime is built on).
CallIsLoadOrStatus ==
  [][Call /\ at' = "idle" =>
       \E files \in FileRevisions, recently \in BOOLEAN :
         Lookup(answer'.kind, answer'.generation, cache')
           \in LoadOrStatus(cache, Profile, wanted, files, recently, Geometries)]_vars

\* Good assets that stay are on in the end, whatever was written while they
\* were checked or loaded ("Valid configuration and skin-file changes are
\* picked up while GTA is running").
AssetsPickedUp ==
  \A w1, w2 \in 1 .. MaxWrites :
    LET Current == /\ Good(wanted.paths)
                   /\ Contents(wanted.paths)
                        = [paths |-> wanted.paths, txd |-> w1, dff |-> w2]
    IN  Current ~> \/ ~ Current
                   \/ Loaded /\ content = Contents(wanted.paths)
=============================================================================
