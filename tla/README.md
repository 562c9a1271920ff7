# Wardrobe in TLA+

Wardrobe is an ASI plugin for GTA San Andreas with SA-MP. It gives peds custom
skins: a rule of `wardrobe.json` matches a player's name, server model, or
both, and the ped then wears a clone of the profile's prepared RenderWare clump
while its server model stays what the server set. This directory models the
parts of it that are hard to get right. At the centre is the reconciliation of
what is *applied* with what is *configured* and with what the *game* does
meanwhile, over skin sources that peds share and that must not be freed under any
of them. Around it are the watcher of the configuration file, the threads that
decide when to reconcile, the engine calls of which one swap and one load consist,
the asset files a source is loaded from, and the MoonLoader editor that writes the
configuration.

## The system

| Part | Files | State | Operations |
| --- | --- | --- | --- |
| Startup | `src/lib.rs`, `src/game_frame.rs`, `runtime::install` | hook and runtime cells | load the configuration, wait for SA-MP and GTA, install the detour |
| Configuration | `src/config.rs` | active `SkinConfig`; the watcher's last check and observed revision | `load_initial`, `poll_change`, `parse`, `matching_rule` |
| Scheduling | `src/rak_samp.rs`, `complete_scan_due` | atomic refresh bits, `last_complete_scan` | RPC callback, `take_refresh_request` |
| Reconciliation runtime | `src/runtime.rs`, `src/runtime/lifecycle.rs` | `applied_players`, `failed_applications`, `matched_players` | `process_game_frame` and what it calls |
| SA-MP access | `src/samp.rs`, `src/samp/layout.rs`, `src/memory.rs` | none | `player_pool`, `streamed_peds`, `all_peds`, the reads on the way to a ped |
| Skin resources | `src/skin_loader.rs`, `src/skin_loader/source_cache.rs` | loaded, retired and failed sources, generations | `load_or_status`, `retire_unreferenced`, `record_clone`, `cleanup_retired` |
| GTA bridge | `src/gta.rs`, `src/gta/skin_source.rs` | none of its own; it mutates the peds | `load`, `apply`, `restore`, `release` |
| MoonLoader UI | `moonloader/wardrobe_ui/wardrobe_ui.lua` | a staged copy of the configuration and its settings, selections, forms, presets | load, edit, select, toggle, validate, save |

How they interact. The detour runs the game's own `CGame::Process` and then, on
the same thread and under the runtime's mutex, `process_game_frame`. That one
call reloads a changed configuration (which retires sources no enabled rule
needs), decides whether a scan is due, lists the streamed peds, and visits them
one after the other: it notices that the server has reset a ped, matches a rule,
restores, asks the shared cache for a source, applies. When the cache answers
`RestoreRequired`, all streamed users of the source are restored within the
same visit. At the end it retires what is neither desired nor applied, prunes
players that have streamed out, and asks the cache to release the retired
sources whose clones are absent from a complete liveness scan. Three other
threads exist: the network thread, whose callback sets an atomic bit before SA-MP
handles the RPC; the startup thread, which loads the configuration and installs
the detour; and the listener thread, which waits for the optional host.

What is hard about it:

- sources are *shared*, borrowed by clumps that the game destroys and replaces
  as it likes, and identified by addresses that are reused;
- between two frames anything may happen to a ped, so every record Wardrobe
  keeps may be stale when it is read;
- every operation on a ped or a source may fail half-way, and every read may
  fail, transiently;
- a configuration may change at any frame, also back to what it was before the
  consequences of the first change have been carried out;
- the configuration file and the assets are written by others between the
  inspection of a revision and the read of what it stands for;
- the editor keeps the same facts several times over (what is staged, what the
  forms show, what the presets say), under keys that change while one types;
- editor and plugin read and check one JSON file in two languages, whose empty tables
  do not mean the same;
- the request for a scan is taken, and the scan stamped, before anything has been
  read.

What makes each part correct:

| Part | Correct when |
| --- | --- |
| Configuration | no valid edit is passed over; what is active was accepted by `parse` |
| Scheduling, startup | no frame finds half an installation; no request is lost; a change waits a bounded time |
| Runtime | every worn clone is remembered; a scan never alters a server model, nor an ordinary clump without a rule |
| Skin resources | no source is released under a ped; one source per profile; a retired source goes in the end |
| `apply`, `restore` | animation associations and clumps have one live owner, whatever fails; the caller learns what the ped wears |
| `load`, `release` | no clump outlives its textures; no TXD slot leaks; the game's current TXD comes back |
| SA-MP access | an enumeration has every ped or is none: a partial list would release sources and prune records |
| MoonLoader UI | no form is out of date when it is written back; presets speak of what exists, and the selected one says what is staged; the plugin accepts what was saved, as far as the editor can know |

## Modules

| Module | What it is |
| --- | --- |
| `WardrobeConfig` | The configuration: what `parse` accepts of profiles and rules, `matching_rule`, the profiles `apply_config` keeps. Operators only. |
| `ConfigFile` | `wardrobe.json` as a document with missing and mistyped fields: how the plugin reads it (serde, `parse`), how the editor does (`ensure_schema`, `validate_config`) and how the editor writes it (`encodeJson`). Extends `WardrobeConfig`. Operators only. |
| `SampPeds` | The enumeration of SA-MP's peds, any read of which may fail. Operators only. |
| `SourceCache` | `SourceCache` as operators over a cache value, and the render-object identity by which clones are known. Operators only. |
| `SkinRuntime` | The runtime's records, the cache, the peds and the progress of a scan; the game's actions between frames. Extends the three above. |
| `SourceLifecycle` | What the peds that share sources rely on, without records, identities and scans. `SkinRuntime` implements it. |
| `AssetReload` | `load_or_status`, system call by system call, against writers of the two asset files. Extends `SourceCache`, whose one-step operator it implements. |
| `ClumpSwap` | `apply`, `restore` and the recovery of the GTA bridge, call by call: clumps and animation associations. |
| `SwapOutcomes` | What a caller of `apply` and `restore` may rely on, one step each. `ClumpSwap` implements it. |
| `SourceResources` | `load` and `release` of the GTA bridge, call by call: TXD slots, references, the current TXD, the stream. |
| `ConfigWatcher` | `load_initial` and `poll_change` against writers of the file. |
| `RefreshScheduler` | Startup, listener, network and frame threads: the installation of the detour, the refresh bits, the scan clock. |
| `WardrobeUi` | The MoonLoader editor: the staged configuration and settings, selections, forms and presets. Extends `ConfigFile`, whose `Parses` is what the plugin makes of a saved file. |
| `MCSkinRuntime`, `MCClumpSwap`, `MCConfigWatcher`, `MCRefreshScheduler`, `MCAssetReload`, `MCWardrobeUi` | Constants and symmetry for TLC. |
| `SourceCacheProofs` | Lemmas on the operators of `SourceCache`, for `SkinRuntimeProofs` and `AssetReloadProofs`. |
| `SkinRuntimeProofs`, `AssetReloadProofs`, `ClumpSwapProofs`, `ConfigWatcherProofs`, `RefreshSchedulerProofs`, `SourceResourcesProofs`, `WardrobeUiProofs` | Theorems. |

Definitions marked *Mutant* are plausible mistakes; none is part of a
specification. Each shows that the property beside it can fail.

### `SkinRuntime`

| In the model | In the code |
| --- | --- |
| `applied`, `failed` | `applied_players`, `failed_applications` |
| `cache.loaded`, `.retired`, `.failed`, `.generation` | the fields of `SourceCache`; `last_asset_check` is the choice `recently` |
| `peds[p].model`, `.object` | `m_nModelIndex` and `m_pRwObject` of the ped, read by `ped_model_id` and `ped_render_object` |
| `peds[p].name` | the player's name in SA-MP's pool; a read may give `None` |
| `phase` | between frames / after a reload, when a scan must follow / inside a scan |
| `todo`, `restoring` | the rest of the loop over `streamed_peds`, and of the one in `restore_profile_users` |
| `desired`, `attempted` | `desired_sources`, `restoration_attempted_sources` |
| `Reload` | `reload_config_if_changed` with a valid new file |
| `ScanNothingToDo`, `ScanUnreadable`, `BeginScan` | the three ways a due scan can start |
| `VisitUnreadable` ... `VisitUnavailable` | the ways through the body of the loop for one ped |
| `RestoreUser` | one turn of `restore_profile_users` |
| `EndScan` | what follows the loop |
| `StreamIn`, `StreamOut`, `ServerReset`, `DropObject`, `ChangeModelInPlace` | SA-MP and GTA between two frames (external) |

A scan is one call in the code, and nothing interleaves with it. It is many
steps here because each ped may take another way through the loop and a property
should hold after each of them; the game's actions are enabled between scans
only.

A render object is an address and a geometry, as in `PedRenderObject`. The
geometry of an ordinary clump is that of its model; the geometry of a clone is
that of its source, and that is what makes freeing a source dangerous. A freed
address may be given out again at once, also to the ped whose clump was freed;
the geometry of a released source may be given to the next source loaded, once no
streamed ped draws with it.

Where the runtime lists peds, it gets what `SampPeds` allows. A `PoolRead` says which
reads fail: of the pool, of the local player's id, of a pointer on the way to some
players' peds. The difference that matters is between "this player has no ped" and
"this player's ped cannot be told": the second makes the whole enumeration `None`.

`apply` and `restore` are one step each, with every outcome their error paths can
leave on the ped: untouched, bare, an ordinary clump rebuilt, or the clone. A
failed `apply` leaves the clone only under `UnverifiedInstalls` (see the findings).

### `SourceLifecycle`

An abstract source is a profile and a geometry. It is prepared for a profile that
has none, lends its geometry to any number of peds, is retired, and is released once
no ped draws with it. `SkinRuntime` implements it with `loaded` and `retired` read
off the cache (`LoadedSources`, `RetiredSources`) and `worn` off the peds
(`WornGeometries`). A frame's retirements and releases, and a lookup that answers
`RestoreRequired`, map to `Retire`; a visit that loads, applies or restores, and what
the game does to a ped, map to `Visit`.

### `ClumpSwap` and `SwapOutcomes`

`pc` is the next call of `apply`, `restore` or
`recover_server_clump_after_failed_swap`; `clump` is the heap, `ped` the ped's
`m_pRwObject`, `anims` the clump that owns the live animation associations (or
"held" by a local, "lost", or "dangling" on a freed clump); `old` and `prepared`
are the locals `old_clump` and `prepared.address`; `installed` is the caller's
record. An action is one call into GTA or RenderWare with what Rust does around
it, and each has its failure as an action of its own. Between calls the game may
rebuild or drop the clump (`Rebuild`, `Drop`) and Runtime forgets the clone it sees
replaced (`Forget`).

Every failure may happen at every step, also of a read that follows a change, so that
a step that has been done is reported as failed. `unread` is history: which of the
three reads of `Reads` have failed since the game last built the ped's clump. They are
the ones that cost the ped something, and a property that makes an exception for one
names it and says what it costs; nothing else is excused:

| Read that fails | What the code then does | Property with the exception |
| --- | --- | --- |
| `delete`: the ped's pointer after `delete_entity_rw_object` has deleted | gives the associations back to the clump that is gone (`skin_source.rs:178`, `:304`) | `NoDanglingAnims`: only then, and the ped is bare |
| `animations`: the clone's animation data in `restore` | takes the clone to have none (`:290`) | `AnimationsKept` |
| `rebuild`: the pointer after `SetModelIndex` in `restore` | drops the local that holds them (`:310`) | `AnimationsKept` |
| the ped's pointer in the recovery (`gta.rs:1108`) | takes the ped to be bare and lets `SetModelIndex` build beside its clump | `NoLeakedClump` |

The fourth needs no history, being the guard of `RecoverDelete`.

`ClumpSwap` implements `SwapOutcomes`, over all these failures (`worn <- before`: what
the ped wears is seen by others when a call has returned). An `apply` that cannot read
back what it installed becomes an "undo" there (`NotReadBack`, `Undone`), of which the
caller is told a failure whatever the ped wears. The outcomes are the ones that
`SkinRuntime` gives `apply` and `restore`, those of an undo being its
`UnverifiedInstalls`, which is what connects the two models.

### `SourceResources`

`dictionary[s]` and `clump[s]` are a slot of GTA's TXD pool and the source clump
that draws with it; `current`, `saved` and `stream` are what `PushCurrentTxd`,
`SetCurrentTxd`, `PopCurrentTxd` and `RwStreamOpen/Close` change; `resources` is the
slot in the `SkinSourceResources` of a profile. `AddTxdSlot` ... `Prepare` are
`load` with `load_dff_clump`, `DestroySource` and `RemoveSlot` are `release`. A
failure before there is a slot, and a release whose clump cannot be destroyed,
change nothing and are not steps. `SkinRuntime` has the order in which the cache
calls the two; here any order is allowed.

### `ConfigWatcher`

`content` and `modified` are the file; `active` is the configuration in use,
`observed` is `observed_revision`, `recent` the throttle of one second. A poll is two
steps: `Inspect` (`file_revision`, and remember it) and `ReadChanged` or
`ReadChangedFails`; `load_initial` is three (read, ask why that failed, create).
`Write` and `Remove` happen between any two of them. `ReadsFail` allows a file
that is there to be unreadable, `FreshStamps` gives every write a later
modification time.

### `AssetReload`

One profile, and no peds: its clones are `SkinRuntime`'s subject. `at` is the next
system call of `load_or_status`: the two inspections of a check, the two reads of a
load, and `Compare`, which decides between them on what was seen. `seen` and `read`
are its locals, `recent` is `last_asset_check` within `ASSET_RELOAD_INTERVAL`,
`wanted` the definition it is called with. Writers (`Write`) come between any two of
these calls; between two calls of `load_or_status` the definition may change, the
profile may become unreferenced and retired sources are released. `content`
is history: which writes the loaded source was made from.

### `ConfigFile`

A document is what a JSON decoder makes of the file. A field holds a value, a value of
another type (`Junk`), or is missing (`None`); a name or an id may be empty
(`EmptyText`); numbers are integers of any size. The profiles and the rules keep the
shape they have in the text ("map", "list", "missing", "other"). `Parses` is
`serde_json::from_str` (`Deserializes`: the types, `u64`, `i16` and the shapes), the
defaults (`Deserialized`) and `parse`; `StagedOf`, `SettingsOf` and `Validates` are
`ensure_schema` and `validate_config`.

`Encoded` is the document `encodeJson` writes. It is MoonLoader's, so of it the model
says only what Lua implies: an empty table is one value, written in one shape
(`emptyTable`) wherever it stands. serde wants a map of profiles and a list of rules, so
a configuration with no profiles *and* no rules cannot be saved in a form the plugin
takes, though the editor reports the save as done and loads the file again without
complaint. Profiles without rules are accepted or refused with MoonLoader's choice of
shape; rules without profiles `validate_config` refuses itself.

Not modelled: `null`, an integer written with a fraction (`2000.0`), profiles in a list
and rules in an object that are not empty, and fields that neither reader knows.

### `WardrobeUi`

The variables are the fields of `state` in the script, `state.config` being `config`
(profiles, rules, presets) and `settings` (scan interval, log level); an action is one
widget used in one frame, and a text field is written back with every key typed, which is how two
rules can have the same conditions for a moment. `profile_form` and `rule_form` are
the input buffers of the selected profile and rule. A profile is identified by a
string that can be edited (`SyncProfileId`), a rule by its index in a list, and its
entry in a preset by its conditions (`Key`). `crossed` is history: two rules have had
the same conditions, so that their entries in the presets are one from then on.
`Files` is what any program may have written to `wardrobe.json`: `LoadConfig` takes the
documents that `Validates` lets through, as `StagedOf` and `SettingsOf` complete them.
`DrawRuntimeSettings` stages whatever interval is typed, in range or not; only saving
looks at it.

Left out of the forms is the profile a rule's picker shows: after a rename it shows the
old name, but it is only written back when another profile is picked.

### `RefreshScheduler`

`loader` is the position of `plugin_thread`; `installed` the parts `install`
has put in place (`RUNTIME`, `GAME_PROCESS_HOOK`, the live detour); `listener` the
listener thread; `rpc` the RPC the network thread is at, before or after
`on_incoming_rpc`; `reasons` is `REFRESH_REASONS`; `frame` and `age` are the frame
thread and `last_complete_scan`. `unseen`, `lag`, `fails` and `owed` are history: is
there a change no scan has seen, for how long, how many scans have failed since,
and was one handled by SA-MP while its request was pending. A scan here sees
everything or fails as a whole.

## Runs

| Run | Instance | What it shows |
| --- | --- | --- |
| `shared` | two peds, one profile, three configurations (no rule; a rule by model; the same with other asset paths), two models, three addresses, two geometries, reads that fail | The state invariants, the two action properties on what a scan may touch, and that `SkinRuntime` implements `SourceLifecycle`. Two users of a source are what it takes for one to be restored and the other not. |
| `switch` | one ped, two profiles, two names, a rule by name over a rule by model, asset files that change, a model id that may change under its clump | The record of a clone never crosses profiles; no dangling clone when a source retires because its files changed; in `skin_clone_reset_kind`'s last case the record goes, the clone stays, its source stays, and the newer model is kept. |
| `release` | one ped, two profiles, four configurations (no rule; a rule by model; its profile disabled; a rule by name for the other profile over it), under fairness, no in-place model changes | A retired source is released; a worn skin that is granted no longer goes, whether its rule went, its profile was disabled or another rule outranks it. |
| `unverified` | as `shared`, with installs that may fail verification *and* recovery | Expected violation of `NoDanglingClone`. |
| `assets` | one profile with two pairs of paths, up to three writes, under fairness | No change of the assets hides behind a revision already seen; a call is one step of `LoadOrStatus`; good assets that stay are loaded. |
| `swap` | one ped, four addresses, every read may fail | Associations and clumps through every error path, with the exceptions above; no pointer to a freed clump; `ClumpSwap` implements `SwapOutcomes`. |
| `recovery` | the same instance | Expected violation of `FailedApplyRecovers`. |
| `slots` | three profiles, three TXD slots | Textures, slots and the current TXD through every path of `load` and `release`. |
| `edits` | two valid contents of the same length, the empty one, a torn one, five modification times | No valid edit hides behind a revision already seen; one that stays becomes active. |
| `unreadable` | the same with `ReadsFail`, three times | Expected violation of `EditPickedUp`. |
| `schedule` | two kinds of RPC, intervals 1 and 3, up to three failed scans, under fairness | Installation order, no lost request, the bound on a change's wait; every change is seen, with or without the listener. |
| `editor` | two profiles, two rules by name, two preset ids of which one is used at a time, an interval in range and one below it; the files are none, those with one profile, two rules and a preset that disables the first, in every choice of names, and each of these with one of ten faults | Selections, forms and presets through every order of edits; what is saved is accepted exactly when the empty tables have the right shape. 412,126 states. |

Deadlock is checked except in `edits` and `unreadable`, where the plugin may have
stopped and the file's time run out, and in `slots`, where the pool may have filled
up with rejected clumps.

The bounds. In `SkinRuntime` two generations suffice for a generation to be reused
(`MaxGeneration` wraps as the code's `u64` does); two geometries for an old and
a new source to exist together; three addresses for two clumps and the one being
allocated beside them; two models and two names for a reset and for a rule to
match or not. There is no step counter and no state constraint: the instances are
finite and explored to the end. Four addresses in `ClumpSwap` hold the ped's clump,
a clone, a temporary clump and one that was left behind. Three slots for three
profiles let a source, a load and a rejected clump coexist. In `ConfigWatcher`,
`MaxTime` bounds the writes: two before, between and after the two steps of a poll
are what the hazards need. In `AssetReload`, `MaxWrites` bounds the writes of both
files together: two make an asset, one more changes it behind a check or
a load, or breaks it; one generation suffices for the counter to wrap. In
`WardrobeUi`, `MaxRules` and `MaxPresets` cap the lists: two rules are what it takes for
conditions to cross and for an index to shift, one preset for its entries to go
stale (presets meet only in `DeleteSelectedPreset`, hence two ids). Each faulty file is
refused by the check of one field. There are no rules by model here: a model would be a
second kind of name. In `RefreshScheduler`, `MaxInterval`, `MaxFails` and
`MaxLag` cap the clocks where no property tells larger values apart: `age` beyond
the longest interval, failures beyond those `LagBounded` speaks of, a lag that
already exceeds its bound for the failures allowed.

Addresses, geometries, (in `shared` and `unverified`) players and (in `editor`)
presets, names and profiles are interchangeable, and declared symmetric. No run with a
liveness property declares symmetry; `release` has one player, two being more than TLC
can do in minutes without it.

### Properties

`SkinRuntime`:

- `TypeOK`; among the types, the users still to be restored are streamed and
  recorded.
- `CloneIsRecorded`: the source a worn clone borrows from knows that clone.
- `NoDanglingClone`: no streamed ped wears a clone of a released source.
- `OneSourcePerProfile`: no replacement is loaded while the old source waits.
- `WornCloneIsRemembered`: a worn clone is the one Runtime remembers for that
  player, under the right profile. Where a model id may change in place the record
  is dropped by design, and the property asks nothing of a clone without one.
- `ServerModelPreserved`: a scan never changes a ped's server model.
- `OrdinaryClumpKept`: a scan touches an ordinary clump only when a rule matches.
- `SourcesHaveLifecycle`: the refinement of `SourceLifecycle`.
- `RetiredIsReleased`, `UngrantedSkinGoes`: the two liveness properties. The second is
  about the clone the ped wears, not about its record: a restore that fails must not
  forget it. Neither is promised, nor claimed, where a model changes under its clump
  (`skin_clone_reset_kind`'s last case): the record goes, so no scan restores the clone
  that stays on, its retired source waits for it, and the profile answers
  `RestoreRequired` until the game replaces the clump.

`AssetReload`: `NoHiddenChange` (a source or a failure that is taken for the files
that are there was read from them: the revision is read *before* the files);
`CallIsLoadOrStatus` (the system calls of one call, whatever comes between them, amount
to one step of the operator that `SkinRuntime` uses); `AssetsPickedUp` (liveness).

`WardrobeUi`: `EditorShowsSelection`, `PresetsNameTheLiving`, `SelectedPresetMirrors`,
`SavedIsAccepted`; its `TypeOK` includes that a selection exists. `SavedIsAccepted` is an
equivalence: a save is one the plugin accepts if and only if no empty table in it has
the wrong shape, so the ranges, types and names `validate_config` checks are enough, and
the empty tables are not.

`ClumpSwap`: `NoDanglingAnims` (the associations are given to a freed clump only after a
delete that could not be verified, and then the ped is bare); `AnimationsKept` (after a
call, the associations of a ped that wears a clump have a live owner, but for two reads);
`NoLeakedClump` (what a call made or took over is worn, destroyed, or kept because it
owns the associations, but for one read); `PedWearsLiveClump`; `SwapImplementsOutcomes`;
`FailedApplyRecovers` (violated).

`SourceResources`: `NoDanglingTextures`, `CurrentTxdRestored`, `NoLeakedSlot`,
`SourcesAreWhole`. Its `TypeOK` is proved instead of run.

`ConfigWatcher`: `NoLostEdit`, `EditPickedUp`.

`RefreshScheduler`: `DetourFindsRuntime`, `NoRefreshLost`, `LagBounded`,
`Reconciled`. `LagBounded` says exactly what the code's order costs: the scan is
stamped and the request consumed before the peds are read, so a scan that fails
costs one interval, and no more.

### Fairness

`SkinRuntime!FairSpec` assumes that frames keep coming and that a scan, being one
call, runs to its end (weak fairness of its steps); that a scan begins again and
again (the fallback interval) with readable peds, whatever reloads and failed reads
there are in between; and that what is attempted again and again succeeds in the
end: a restore, a visit that asks for its source, a complete liveness scan with a
release that works. The last three are strong fairness. They stand for the code's
reliance on retries: the failures it tolerates are reads of memory that another
module is changing, which last a frame, not for ever. Nothing is assumed of the
game: no reset, stream-out or reload ever has to happen, and any of them may
happen for ever.

`ConfigWatcher!FairSpec`: the startup thread goes on and time passes (weak
fairness of `Load` and `IntervalPasses`); a poll that is tried again and again
inspects the file in the end, since frames poll for ever and an inspection is
repeated at the next; a file that was seen to have changed is read (weak), and a
read that is possible again and again succeeds once (strong). Nobody has to
write the file.

`AssetReload!FairSpec`: the profile is asked for in every scan and a call runs to its
end, time passes, and retired sources are released (weak fairness of each; the release
itself is `RetiredIsReleased`). Nobody has to write a file. A file that is there can be
inspected and read, and a load fails only for what is in the files.

`RefreshScheduler!FairSpec`: frames keep coming (weak fairness of `Frame`), time
passes between them and the peds can be listed again and again (strong: other
steps may disable either for a while). Nothing is assumed of startup, of the
listener or of the network.

### Findings

- `unverified`: `skin_source::apply` discards the result of the `restore` that
  should undo an installation it could not verify (`src/gta/skin_source.rs:259`,
  `:263`). If that restore fails as well, the clone stays on the ped, Runtime
  records a failed application and no clone, and the profile's source is released
  under the ped once it retires. `CORE.md:24-33` promises the record "for every
  installed clone" and that a source "still used by a streamed ped" is not freed.
  It takes two failures in a row; every other run of `SkinRuntime`, and the theorems
  that need it, assume that they do not come together.
- `recovery`: when `delete_entity_rw_object` has called the virtual function and
  cannot verify it (`src/gta.rs:1188`), `apply` gives the associations back to the
  old clump, destroys the clone and returns without the recovery
  (`src/gta/skin_source.rs:177`): the ped has no clump. The comment on `apply`
  (`:99`) says that failures leave the original clump untouched or recover GTA's
  normal one.
- `unreadable`: `poll_change` remembers a revision (`src/config.rs:152`) before it
  reads the file (`:168`). If that one read fails, the valid edit is ignored until
  the file is written again. `README.md:61` and `CORE.md:19` say that valid changes
  are picked up.

## Proofs

Proved by TLAPS for every value of the constants that satisfies the named
assumptions (`ConfigAssumption`, `CacheAssumption`, `RuntimeAssumption`,
`WatcherAssumption`, `SchedulerAssumption`, `ResourcesAssumption`, `AssetAssumption`,
`SwapAssumption`, `FileAssumption`, `EditorAssumption`). These say that
the model's special values are distinct from its data (null is no address, a
source's geometry is not a model's, `None` is no revision), that every
configuration the file may hold is one `parse` accepts, that every pair of asset
revisions is one a check may find, that intervals are positive and bounded by the
longest, that model ids are integers, and that what the editor may find in the file is
none or a document, in which the models that are in range are among `Models`.

`SkinRuntime`, for any number of players, profiles, models, names, addresses and
geometries:

- `TypeCorrect` (`SkinRuntimeProofs`): `Spec => []TypeOK`. The type invariant is
  inductive as it stands because it includes what the scan's locals rely on: the
  peds still to visit are streamed, and the users still to restore are streamed
  and recorded. It rests on `EnumerationIsComplete`: whichever reads fail, an
  enumeration has every ped or is none.
- `ServerModelAlwaysPreserved` and `OrdinaryClumpAlwaysKept`: the two action
  properties. A restore rebuilds a ped with the recorded model only where that is the
  model it has; and it leaves an ordinary clump alone because only clones are ever
  recorded (`CloneRecords`, an invariant of its own).
- `RuleOrderIsIrrelevant`: two accepted configurations with the same profiles and the
  same rules, in any order, give every ped the same profile. `matching_rule` searches the
  list from its start, so this rests on what `parse` refuses: two rules of one priority
  that match one ped would be duplicates (`OneRulePerPriority`).
- `MatchingRuleIsFound`: in any configuration, accepted or not, `matching_rule` finds a
  rule exactly when one applies, no other that applies has a higher priority or stands
  before it, and the profile it leads to is one `apply_config` keeps loaded.
- `OneSourceAlways`: `Spec => []OneSourcePerProfile`. Its
  argument: only `load_or_status` adds a loaded source, and only when no source of
  that profile is retired *or* loaded; only a retirement adds a retired one, and
  it takes it from the loaded. The invariant (`OneSource`) also says that no two
  sources own one geometry: a load gets a free one.
- `CloneIsRecordedAlways`: `Spec => []CloneIsRecorded`, assuming
  `~ UnverifiedInstalls`. It is the strengthening of the next one: that a source
  still has an owner is not inductive, since a clean-up looks at the recorded
  identities. That the *identity* is recorded is: recording adds it, retirement
  carries it over, and a clean-up drops only identities that no streamed ped wears.
- `NoDanglingCloneEver`: `Spec => []NoDanglingClone`, with the same assumption,
  from the previous one.
- `RuntimeImplementsLifecycle`: `Spec => SourcesHaveLifecycle`, with the same
  assumption. Each step maps to a `Retire`, a `Visit` or a stutter. The one hard step is
  a clean-up: a released source is idle because a worn clone of it would be recorded
  (`CloneIsRecorded`) by a source that is kept, and that source would have its geometry,
  which is the released one's (`OneSource`).
- `WornCloneAlwaysRemembered`: `Spec => []WornCloneIsRemembered`, with the same
  assumption. The invariant (`RememberedAs`) adds that the recorded model is the ped's,
  unless models change in place: so the record of a worn clone is never mistaken for a
  server reset. The source it names stays, by the argument of the previous theorem.

`AssetReload`, for any paths, revisions and number of writes: `TypeCorrect`;
`NoChangeEverHidden`, `Spec => []NoHiddenChange`, whose invariant adds
that no stamp seen or remembered is later than the file system's clock
(`StampsArePast`), and that a load has read a TXD that still has the revision it saw
(`ReadIsSeen`); and `CallIsOneStep`, `Spec => CallIsLoadOrStatus`, which also needs that
nothing makes a call superfluous while it runs (`CallStillNeeded`).

`ClumpSwap`, for any number of clumps and every failure, from one invariant that says for
each point of a call which clumps are there (`ClumpsOfCall`), who has the associations
and which failed reads there were if nobody has (`AnimsOfCall`), what became of the old
clump (`OldOfCall`) and what the caller knows (`ToldOfCall`): `TypeCorrect`,
`AnimsNeverDangle`, `AnimationsAlwaysKept` and `NothingLeaks`, each with the exceptions its
property names and no others, `PedAlwaysWearsLiveClump`, and `CallerIsTold`, the
refinement of `SwapOutcomes`, with the undo.

`ConfigWatcher`, for any contents, lengths and number of writes: `NoEditEverLost`,
`Spec => []NoLostEdit`, assuming `FreshStamps` and `~ ReadsFail` (without the first a
rewrite within one stamp goes unseen, without the second the finding above). Its
invariant adds `ObservedIsPast`: what the watcher has seen is not later than the
file's stamp, so that a write makes a revision nobody has seen. `TypeCorrect` includes
that what is active was accepted by `parse`.

`RefreshScheduler`, for any RPCs, intervals and caps: `TypeCorrect`;
`DetourAlwaysFindsRuntime` from `InstallOrder`, which ties each position of the
startup thread to the parts already in place; `RefreshNeverLost`, whose invariant is
inductive as it stands; and `LagAlwaysBounded` from `Clocks`, which relates the lag to
the age of the last scan: a change is at most `fails` intervals and that age old.

`SourceResources`, for any profiles and pool: `TypeCorrect`, `TexturesNeverDangle`,
`CurrentTxdAlwaysRestored`, `SlotsNeverLeak`, `SourcesAlwaysWhole`, from one invariant
that says for each step of a call what its slot holds (`SlotOfCall`), which TXD is
current (`CurrentOfCall`), and who owns each slot that is taken (`SlotsHaveOwners`).

`WardrobeUi`, for any profiles, rules, presets, names, models and files:

- `TypeCorrect` and `FormsShowSelection`: `Spec => []TypeOK`, `Spec => []EditorShowsSelection`.
  Neither is inductive alone. A widget stages its whole form, so the staged profile or
  rule has its type only because the form is that of the selection; and the form shows
  the selection only because the selection is there. `FormsInv` is both, and has one
  lemma per widget. The lists are the hard part: `RulesLeftType` (what remains when a
  profile takes its rules along) rests on `OrderExists`, that any positions of a list
  can be put in order, for which the prover needs induction. It is done by the least
  counterexample (`LeastNumber`, from the library's theorem on well-founded relations),
  which needs no operator as a parameter.
- `EditsForgetTheDead`: no edit gives a preset an entry for a profile or for conditions
  that are gone, if none had one. Hence `PresetsForgetTheDead`,
  `Spec => []PresetsNameTheLiving`, assuming `FilesNameTheLiving`: that the files that
  are loaded have no such entries either. Files the editor saved have none, by this very
  theorem; one that was edited by hand may, and `load_config` keeps its entries until a
  profile or a rule of that name comes back.
- `SelectedPresetIsStaged`: `Spec => []SelectedPresetMirrors`, with the same assumption: an
  entry of something gone would be the entry of the next profile of that name, which is
  added enabled. The invariant also says that rules with the same conditions are
  noticed (`CrossingNoticed`), since `validate_config` refuses a file that has some.
- `NewPresetChangesNothing`: selecting a preset right after it was added from what is staged
  changes nothing, unless two rules have had the same conditions.
- `ValidatorsAgree`: of any document, the editor loads it and its profiles and rules have
  shapes serde takes (`HasShapes`), exactly when the plugin accepts it and no profile has
  the empty name (`HasNames`). The two conditions are the two differences: `ensure_schema`
  takes what is no table for an empty one, and `parse` lets a profile without a name
  through. The lemmas go field by field (`SettingsAgree`, `SkinsAgree`, `RulesAgree`):
  types and defaults on one side are the `type(...)` checks on the other, and
  `ModelIdsFit` is where `i16` and the range meet.
- `SavesAreAccepted`: `Spec => SavedIsAccepted`. What is staged encodes to a document that
  reads back as itself (`EncodedParses`), which leaves of `Parses` only the shapes of the
  empty tables.

Only model-checked: the liveness properties (`RetiredIsReleased`, `UngrantedSkinGoes`,
`EditPickedUp`, `AssetsPickedUp`, `Reconciled`), since liveness under fairness and
`ENABLED` are beyond the prover. Every invariant and every action property the runs check,
and the three refinements, are proved. The theorems that assume `~ UnverifiedInstalls`
fail without it, as the run `unverified` shows.

## Not modelled

- `matched_players`, messages, log levels: they have no effect on the peds.
- SA-MP's and GTA's memory layout (`src/samp/layout.rs`), the PE header and
  `ReadProcessMemory` (`src/memory.rs`): a failed read is an outcome, and nothing is
  kept between two reads.
- What `prepare_skin_source` and `prepare_skin_clone` check and normalise: each
  succeeds or fails. Transform, bones and the hierarchy update of a swap likewise.
- The list of associations `SetModelIndex` gives a rebuilt clump; only the ped's own
  walk, weapon and task animations are followed.
- The text of the configuration: `ConfigFile` begins with the decoded document, and in
  `ConfigWatcher` a content is accepted by `parse` or it is not. Which shape MoonLoader's
  `encodeJson` gives an empty table is left open.
- A load that fails for a passing reason and is then remembered as a fault of the files
  (`source_cache.rs:141`, as its message says): `AssetReload` assumes that loads fail for
  what is in the files. In `SkinRuntime` they may fail for any reason.
- Of the MoonLoader UI: the status line, the search fields and the list of online players,
  none of which touches what is staged, and the lengths and the trimming of text fields. A
  save replaces whatever has been written to the file since it was loaded, and a
  failure of `file:close` to flush goes unnoticed: the first is the behaviour nobody
  promises otherwise, the second is outside the script.

## Plan

Done, in the order of importance: `SkinRuntime` with its cache, configuration and ped
enumeration, and its refinement of `SourceLifecycle`; `ConfigWatcher`; `ClumpSwap` and its
refinement of `SwapOutcomes`; `RefreshScheduler` with startup; `SourceResources`;
`AssetReload`; `WardrobeUi`; the proofs of
every safety property, action property and refinement the passing runs check. Next:

1. A save over a newer file: `WardrobeUi` composed with `ConfigWatcher`.
