------------------------- MODULE RefreshScheduler ---------------------------
(***************************************************************************)
(* When Wardrobe scans: the threads around process_game_frame.             *)
(*                                                                         *)
(*   - the startup thread (lib.rs, runtime::install) waits for SA-MP and   *)
(*     GTA, starts the listener and installs the detour in three steps;    *)
(*   - the listener thread (rak_samp.rs) waits for the optional host;      *)
(*   - the network thread runs on_incoming_rpc before SA-MP handles the    *)
(*     RPC;                                                                *)
(*   - the frame thread runs the detour, takes the refresh request and     *)
(*     decides whether a complete scan is due.                             *)
(*                                                                         *)
(* Abstracted: what a scan does (SkinRuntime) and what the watcher reads   *)
(* (ConfigWatcher): a reload is a choice, a scan sees every change there   *)
(* is or fails as a whole.  A change is anything a scan would react to.    *)
(***************************************************************************)
EXTENDS Integers

CONSTANTS
  Reasons,      \* the RPCs that request a refresh
  StreamIn,     \* the one whose payload is not decoded
  Intervals,    \* the poll intervals a configuration may have, in ticks
  None,         \* Rust's None
  MaxInterval,  \* the longest of Intervals; older scans are not told apart
  MaxFails,     \* bound: more failed scans in a row are not told apart
  MaxLag        \* bound: older changes are not told apart

ASSUME SchedulerAssumption ==
  /\ StreamIn \in Reasons
  /\ MaxInterval \in Nat \cap Intervals
  /\ Intervals \subseteq 1 .. MaxInterval
  /\ None \notin Nat
  /\ None \notin [stage : {"arrived", "called"}, reason : Reasons]
  /\ MaxFails \in Nat
  /\ MaxLag \in Nat

VARIABLES
  loader,     \* what the startup thread does next
  listener,   \* "off", "waiting" for the host, "ready" or "unavailable"
  installed,  \* which of RUNTIME, GAME_PROCESS_HOOK and the hook are there
  rpc,        \* the RPC the network thread is at, or None
  reasons,    \* REFRESH_REASONS
  frame,      \* the frame thread: "idle", in the detour, or in a scan
  interval,   \* Runtime::config.poll_interval()
  age,        \* ticks since last_complete_scan, or None
  ran,        \* has a frame ended since the last tick?
  unseen,     \* is there a change that no scan has seen?
  lag,        \* ticks since the oldest unseen change
  fails,      \* failed scans since then
  owed        \* was an unseen change handled while its request was pending?

startVars == <<loader, installed>>
netVars == <<rpc, reasons>>
scanVars == <<frame, interval, age, ran>>
worldVars == <<unseen, lag, fails, owed>>
vars == <<loader, listener, installed, rpc, reasons, frame, interval, age, ran,
          unseen, lag, fails, owed>>

Capped(n, bound) == IF n > bound THEN bound ELSE n

Init ==
  /\ loader = "samp"
  /\ listener = "off"
  /\ installed = {}
  /\ rpc = None
  /\ reasons = {}
  /\ frame = "idle"
  /\ interval \in Intervals
  /\ age = None
  /\ ran = FALSE
  /\ unseen = TRUE
  /\ lag = 0
  /\ fails = 0
  /\ owed = FALSE

(***************************************************************************)
(* The startup thread.                                                     *)
(***************************************************************************)
LoaderStep(from, to, parts) ==
  /\ loader = from
  /\ loader' = to
  /\ installed' = installed \cup parts
  /\ UNCHANGED <<netVars, scanVars, worldVars>>

\* Samp::wait_for_load has found a supported samp.dll.
SampLoaded == LoaderStep("samp", "listen", {}) /\ UNCHANGED listener

\* The thread that waits for the host may fail to start.
StartListener ==
  /\ LoaderStep("listen", "validate", {})
  /\ listener' \in {"waiting", "unavailable"}

Validated == LoaderStep("validate", "ready", {}) /\ UNCHANGED listener

GtaReady == LoaderStep("ready", "prepare", {}) /\ UNCHANGED listener

\* Mutant: the hook is live as soon as it exists.
PrepareEnabledHook ==
  LoaderStep("prepare", "runtime", {"hook", "enabled"}) /\ UNCHANGED listener

PrepareHook == LoaderStep("prepare", "runtime", {}) /\ UNCHANGED listener

SetRuntime == LoaderStep("runtime", "hook", {"runtime"}) /\ UNCHANGED listener

SetHook == LoaderStep("hook", "enable", {"hook"}) /\ UNCHANGED listener

EnableHook == LoaderStep("enable", "done", {"enabled"}) /\ UNCHANGED listener

\* An unsupported samp.dll or executable, or a hook that cannot be prepared or
\* enabled.
Stop ==
  /\ \E from \in {"samp", "validate", "prepare", "enable"} :
       LoaderStep(from, "stopped", {})
  /\ UNCHANGED listener

Start ==
  \/ SampLoaded
  \/ StartListener
  \/ Validated
  \/ GtaReady
  \/ PrepareHook
  \/ SetRuntime
  \/ SetHook
  \/ EnableHook

(***************************************************************************)
(* The listener thread.                                                    *)
(***************************************************************************)
\* The host is there and the subscription accepted, or neither ever will be.
RegisterListener ==
  /\ listener = "waiting"
  /\ listener' \in {"ready", "unavailable"}
  /\ UNCHANGED <<startVars, netVars, scanVars, worldVars>>

(***************************************************************************)
(* The network thread, and the world.                                      *)
(***************************************************************************)
\* Something a scan would react to has changed.
Changed ==
  /\ unseen' = TRUE
  /\ lag' = IF unseen THEN lag ELSE 0
  /\ fails' = IF unseen THEN fails ELSE 0

Receive ==
  /\ rpc = None
  /\ \E r \in Reasons : rpc' = [stage |-> "arrived", reason |-> r]
  /\ UNCHANGED <<startVars, listener, reasons, scanVars, worldVars>>

\* Mutant: a bit that is none of the reasons.
UnknownRefresh(r) == reasons \cup {0}

\* request_refresh
RequestRefresh(r) == reasons \cup {r}

\* on_incoming_rpc: a payload that the typed helper rejects requests nothing.
OnIncomingRpc ==
  /\ rpc # None
  /\ rpc.stage = "arrived"
  /\ rpc' = [rpc EXCEPT !.stage = "called"]
  /\ \/ listener = "ready" /\ reasons' = RequestRefresh(rpc.reason)
     \/ listener = "ready" /\ rpc.reason # StreamIn /\ UNCHANGED reasons
     \/ listener # "ready" /\ UNCHANGED reasons
  /\ UNCHANGED <<startVars, listener, scanVars, worldVars>>

\* SA-MP handles the RPC after every callback has returned Continue.
HandleRpc ==
  /\ rpc # None
  /\ rpc.stage = "called"
  /\ rpc' = None
  /\ Changed
  /\ owed' = (owed \/ rpc.reason \in reasons)
  /\ UNCHANGED <<startVars, listener, reasons, scanVars>>

\* A change that no RPC of Reasons announces.
OtherChange ==
  /\ Changed
  /\ UNCHANGED <<startVars, listener, netVars, scanVars, owed>>

(***************************************************************************)
(* The frame thread.                                                       *)
(***************************************************************************)
\* game_process_detour, up to the return of the trampoline.
EnterDetour ==
  /\ "enabled" \in installed
  /\ frame = "idle"
  /\ frame' = "detour"
  /\ UNCHANGED <<startVars, listener, netVars, interval, age, ran, worldVars>>

\* Mutant: only the clock counts.
DueByClock(reloaded, requested, scanInterval) ==
  reloaded \/ age = None \/ age >= scanInterval

\* Mutant: the interval must have been exceeded.
DueLater(reloaded, requested, scanInterval) ==
  reloaded \/ requested \/ age = None \/ age > scanInterval

\* Mutant: no fallback once a scan has been made.
DueByEvent(reloaded, requested, scanInterval) ==
  reloaded \/ requested \/ age = None

\* complete_scan_due
CompleteScanDue(reloaded, requested, scanInterval) ==
  \/ reloaded
  \/ requested
  \/ age = None
  \/ age >= scanInterval

\* process_game_frame up to the scan: reload, swap the bits, decide, stamp.
BeginFrame ==
  /\ frame = "detour"
  /\ \E reloaded \in BOOLEAN, i \in Intervals :
       /\ reloaded \/ i = interval
       /\ interval' = i
       /\ \/ reloaded /\ Changed
          \/ ~ reloaded /\ UNCHANGED <<unseen, lag, fails>>
       /\ IF CompleteScanDue(reloaded, reasons # {}, i)
          THEN /\ frame' = "scan"
               /\ age' = 0
               /\ UNCHANGED ran
          ELSE /\ frame' = "idle"
               /\ ran' = TRUE
               /\ UNCHANGED age
  /\ reasons' = {}
  /\ UNCHANGED <<startVars, listener, rpc, owed>>

EndFrame ==
  /\ frame = "scan"
  /\ frame' = "idle"
  /\ ran' = TRUE
  /\ owed' = FALSE
  /\ UNCHANGED <<startVars, listener, netVars, interval, age>>

\* streamed_peds has listed every ped, or there is nothing to reconcile.
ScanSees ==
  /\ EndFrame
  /\ unseen' = FALSE
  /\ lag' = 0
  /\ fails' = 0

\* streamed_peds gives None.  The stamp and the request are not given back.
ScanFails ==
  /\ EndFrame
  /\ fails' = IF unseen THEN Capped(fails + 1, MaxFails) ELSE 0
  /\ UNCHANGED <<unseen, lag>>

(***************************************************************************)
(* Time.  A tick is not shorter than a frame.                              *)
(***************************************************************************)
Tick ==
  /\ frame = "idle"
  /\ ran
  /\ ran' = FALSE
  /\ age' = IF age = None THEN None ELSE Capped(age + 1, MaxInterval + 1)
  /\ lag' = IF unseen THEN Capped(lag + 1, MaxLag) ELSE 0
  /\ UNCHANGED <<startVars, listener, netVars, frame, interval, unseen, fails,
                 owed>>

Network == Receive \/ OnIncomingRpc \/ HandleRpc

Frame == EnterDetour \/ BeginFrame \/ ScanSees \/ ScanFails

Next ==
  Start \/ Stop \/ RegisterListener \/ Network \/ OtherChange \/ Frame \/ Tick

Spec == Init /\ [][Next]_vars

(***************************************************************************)
(* Fairness.  Frames keep coming, time passes between them, and the peds   *)
(* can be listed again and again.                                          *)
(***************************************************************************)
Fairness ==
  /\ WF_vars(Frame)
  /\ SF_vars(Tick)
  /\ SF_vars(ScanSees)

FairSpec == Spec /\ Fairness
-----------------------------------------------------------------------------
(***************************************************************************)
(* Properties                                                              *)
(***************************************************************************)

\* The types of the threads' states and of the clocks.
TypeOK ==
  /\ loader \in {"samp", "listen", "validate", "ready", "prepare", "runtime",
                 "hook", "enable", "done", "stopped"}
  /\ listener \in {"off", "waiting", "ready", "unavailable"}
  /\ installed \subseteq {"runtime", "hook", "enabled"}
  /\ rpc \in {None} \cup [stage : {"arrived", "called"}, reason : Reasons]
  /\ reasons \subseteq Reasons
  /\ frame \in {"idle", "detour", "scan"}
  /\ interval \in Intervals
  /\ age \in {None} \cup 0 .. MaxInterval + 1
  /\ ran \in BOOLEAN
  /\ unseen \in BOOLEAN
  /\ lag \in 0 .. MaxLag
  /\ fails \in 0 .. MaxFails
  /\ owed \in BOOLEAN

\* A frame that is in the detour finds the hook and the runtime, whichever step
\* of install the startup thread is at ("CGame::Process hook was enabled before
\* it was stored", "runtime was initialized before the CGame::Process hook").
DetourFindsRuntime ==
  frame # "idle" => {"runtime", "hook"} \subseteq installed

\* A change that SA-MP had made before its request was taken is scanned for: the
\* request is still pending, or the frame that has taken it is scanning.
NoRefreshLost == owed => reasons # {} \/ frame = "scan"

\* With or without the listener no change waits longer than the interval, and
\* each scan that fails meanwhile costs one interval more, since the scan is
\* stamped and the request consumed before the peds are read.
LagBounded ==
  fails < MaxFails => lag <= (fails + 1) * MaxInterval

\* Once the detour is installed every change is seen in the end.
Reconciled == (unseen /\ "enabled" \in installed) ~> ~ unseen
=============================================================================
