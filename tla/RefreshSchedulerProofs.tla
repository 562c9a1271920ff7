---------------------- MODULE RefreshSchedulerProofs ------------------------
(***************************************************************************)
(* Proofs about RefreshScheduler for any set of RPCs and of intervals.     *)
(***************************************************************************)
EXTENDS RefreshScheduler, TLAPS

\* The parts of install are there in their order, and a frame is in the detour
\* only through the enabled hook.
InstallOrder ==
  /\ loader \in {"hook", "enable", "done"} => "runtime" \in installed
  /\ loader \in {"enable", "done"} => "hook" \in installed
  /\ "enabled" \in installed => {"runtime", "hook"} \subseteq installed
  /\ frame # "idle" => "enabled" \in installed

\* What the clocks owe to each other: a frame that has ended since the last tick
\* leaves a scan younger than the interval, so that a tick makes it at most as
\* old, and a change is as old as the scans that failed on it and the last of
\* them allow.
Waited ==
  IF frame = "scan" \/ age = None
  THEN lag <= (fails + 1) * MaxInterval
  ELSE lag <= fails * MaxInterval + age

Clocks ==
  /\ ~ unseen => lag = 0
  /\ age = None => lag = 0
  /\ frame = "scan" => age = 0
  /\ age # None => age <= interval
  /\ ran => age # None /\ age < interval
  /\ fails < MaxFails => Waited

\* TypeOK in two halves: the provers that know numbers do not know flags.
Flags ==
  /\ ran \in BOOLEAN
  /\ unseen \in BOOLEAN
  /\ owed \in BOOLEAN

Types ==
  /\ loader \in {"samp", "listen", "validate", "ready", "prepare", "runtime",
                 "hook", "enable", "done", "stopped"}
  /\ listener \in {"off", "waiting", "ready", "unavailable"}
  /\ installed \subseteq {"runtime", "hook", "enabled"}
  /\ rpc \in {None} \cup [stage : {"arrived", "called"}, reason : Reasons]
  /\ reasons \subseteq Reasons
  /\ frame \in {"idle", "detour", "scan"}
  /\ interval \in Intervals
  /\ age \in {None} \cup 0 .. MaxInterval + 1
  /\ lag \in 0 .. MaxLag
  /\ fails \in 0 .. MaxFails

LEMMA FlagsStep == Flags /\ [Next]_vars => Flags'
<1> SUFFICES ASSUME Flags, [Next]_vars PROVE Flags'
  OBVIOUS
<1> USE DEF Flags, scanVars, worldVars
<1>1. CASE Start \/ Stop
  BY <1>1 DEF Start, Stop, LoaderStep, SampLoaded, StartListener, Validated,
              GtaReady, PrepareHook, SetRuntime, SetHook, EnableHook
<1>2. CASE RegisterListener
  BY <1>2 DEF RegisterListener
<1>3. CASE Receive \/ OnIncomingRpc
  BY <1>3 DEF Receive, OnIncomingRpc
<1>4. CASE HandleRpc
  BY <1>4, Zenon DEF HandleRpc, Changed
<1>5. CASE OtherChange
  BY <1>5 DEF OtherChange, Changed
<1>6. CASE EnterDetour
  BY <1>6 DEF EnterDetour
<1>7. CASE BeginFrame
  BY <1>7, Zenon DEF BeginFrame, Changed
<1>8. CASE ScanSees \/ ScanFails
  BY <1>8, Zenon DEF ScanSees, ScanFails, EndFrame
<1>9. CASE Tick
  BY <1>9, Zenon DEF Tick
<1>10. CASE UNCHANGED vars
  BY <1>10 DEF vars
<1> QED
  BY <1>1, <1>2, <1>3, <1>4, <1>5, <1>6, <1>7, <1>8, <1>9, <1>10
  DEF Next, Network, Frame

LEMMA TypesStep == Types /\ [Next]_vars => Types'
<1> USE SchedulerAssumption DEF SchedulerAssumption
<1> SUFFICES ASSUME Types, [Next]_vars PROVE Types'
  OBVIOUS
<1> USE DEF Types, netVars, scanVars, worldVars, startVars
<1>1. CASE Start \/ Stop
  BY <1>1 DEF Start, Stop, LoaderStep, SampLoaded, StartListener, Validated,
              GtaReady, PrepareHook, SetRuntime, SetHook, EnableHook
<1>2. CASE RegisterListener
  BY <1>2 DEF RegisterListener
<1>3. CASE Receive \/ OnIncomingRpc
  BY <1>3 DEF Receive, OnIncomingRpc, RequestRefresh
<1>4. CASE HandleRpc
  BY <1>4 DEF HandleRpc, Changed
<1>5. CASE OtherChange
  BY <1>5 DEF OtherChange, Changed
<1>6. CASE EnterDetour
  BY <1>6 DEF EnterDetour
<1>7. CASE BeginFrame
  BY <1>7 DEF BeginFrame, Changed
<1>8. CASE ScanSees
  BY <1>8 DEF ScanSees, EndFrame
<1>9. CASE ScanFails
  <2>1. fails' \in 0 .. MaxFails
    BY <1>9 DEF ScanFails, Capped
  <2> QED
    BY <1>9, <2>1 DEF ScanFails, EndFrame
<1>10. CASE Tick
  BY <1>10 DEF Tick, Capped
<1>11. CASE UNCHANGED vars
  BY <1>11 DEF vars
<1> QED
  BY <1>1, <1>2, <1>3, <1>4, <1>5, <1>6, <1>7, <1>8, <1>9, <1>10, <1>11
  DEF Next, Network, Frame

\* Every variable keeps its type, for any set of RPCs and of poll intervals.
THEOREM TypeCorrect == Spec => []TypeOK
<1>1. Init => Flags
  BY Zenon DEF Init, Flags
<1>2. Init => Types
  BY SchedulerAssumption DEF SchedulerAssumption, Init, Types
<1>3. Flags /\ Types => TypeOK
  BY DEF Flags, Types, TypeOK
<1> QED
  BY <1>1, <1>2, <1>3, FlagsStep, TypesStep, PTL DEF Spec

\* Whatever step of install the startup thread is at, a frame in the detour
\* finds the stored hook and the runtime.
THEOREM DetourAlwaysFindsRuntime == Spec => []DetourFindsRuntime
<1>1. Init => InstallOrder
  BY DEF Init, InstallOrder
<1>2. InstallOrder /\ [Next]_vars => InstallOrder'
  <2> SUFFICES ASSUME InstallOrder, [Next]_vars PROVE InstallOrder'
    OBVIOUS
  <2> USE DEF InstallOrder, startVars, scanVars
  <2>1. CASE Start
    BY <2>1 DEF Start, LoaderStep, SampLoaded, StartListener, Validated,
                GtaReady, PrepareHook, SetRuntime, SetHook, EnableHook
  <2>2. CASE Stop
    BY <2>2 DEF Stop, LoaderStep
  <2>3. CASE RegisterListener \/ Network \/ OtherChange
    BY <2>3 DEF RegisterListener, Network, Receive, OnIncomingRpc, HandleRpc,
                OtherChange
  <2>4. CASE EnterDetour
    BY <2>4 DEF EnterDetour
  <2>5. CASE BeginFrame \/ ScanSees \/ ScanFails \/ Tick
    BY <2>5 DEF BeginFrame, ScanSees, ScanFails, EndFrame, Tick
  <2>6. CASE UNCHANGED vars
    BY <2>6 DEF vars
  <2> QED
    BY <2>1, <2>2, <2>3, <2>4, <2>5, <2>6 DEF Next, Frame
<1>3. InstallOrder => DetourFindsRuntime
  BY DEF InstallOrder, DetourFindsRuntime
<1> QED
  BY <1>1, <1>2, <1>3, PTL DEF Spec

\* A change made before its request was taken keeps the request or gets a scan.
THEOREM RefreshNeverLost == Spec => []NoRefreshLost
<1>1. Init => NoRefreshLost
  BY DEF Init, NoRefreshLost
<1>2. NoRefreshLost /\ [Next]_vars => NoRefreshLost'
  <2> SUFFICES ASSUME NoRefreshLost, [Next]_vars PROVE NoRefreshLost'
    OBVIOUS
  <2> USE DEF NoRefreshLost, netVars, scanVars, worldVars
  <2>1. CASE Start \/ Stop
    BY <2>1 DEF Start, Stop, LoaderStep, SampLoaded, StartListener, Validated,
                GtaReady, PrepareHook, SetRuntime, SetHook, EnableHook
  <2>2. CASE RegisterListener
    BY <2>2 DEF RegisterListener
  <2>3. CASE Network
    BY <2>3 DEF Network, Receive, OnIncomingRpc, HandleRpc, RequestRefresh
  <2>4. CASE OtherChange \/ EnterDetour \/ Tick
    BY <2>4 DEF OtherChange, EnterDetour, Tick
  <2>5. CASE BeginFrame
    BY <2>5 DEF BeginFrame, CompleteScanDue
  <2>6. CASE ScanSees \/ ScanFails
    BY <2>6 DEF ScanSees, ScanFails, EndFrame
  <2>7. CASE UNCHANGED vars
    BY <2>7 DEF vars
  <2> QED
    BY <2>1, <2>2, <2>3, <2>4, <2>5, <2>6, <2>7 DEF Next, Frame
<1> QED
  BY <1>1, <1>2, PTL DEF Spec

(***************************************************************************)
(* The wait of a change.                                                   *)
(***************************************************************************)
LEMMA ClocksStep == TypeOK /\ Clocks /\ [Next]_vars => Clocks'
<1> SUFFICES ASSUME TypeOK, Clocks, [Next]_vars PROVE Clocks'
  OBVIOUS
<1> USE DEF Clocks, Waited, scanVars, worldVars
<1>a. /\ MaxInterval \in Nat
      /\ interval \in 1 .. MaxInterval
      /\ lag \in Nat
      /\ fails \in 0 .. MaxFails
      /\ age = None \/ age \in Nat
      /\ MaxFails \in Nat
      /\ None \notin Nat
      /\ fails * MaxInterval \in Nat
  BY SchedulerAssumption DEF SchedulerAssumption, TypeOK
<1>1. CASE Start \/ Stop
  BY <1>1 DEF Start, Stop, LoaderStep, SampLoaded, StartListener, Validated,
              GtaReady, PrepareHook, SetRuntime, SetHook, EnableHook
<1>2. CASE RegisterListener \/ Receive \/ OnIncomingRpc
  BY <1>2 DEF RegisterListener, Receive, OnIncomingRpc
<1>3. CASE HandleRpc \/ OtherChange
  BY <1>3, <1>a DEF HandleRpc, OtherChange, Changed
<1>4. CASE EnterDetour
  BY <1>4, <1>a DEF EnterDetour
<1>5. CASE BeginFrame
  BY <1>5, <1>a, SchedulerAssumption
  DEF BeginFrame, Changed, CompleteScanDue, SchedulerAssumption
<1>6. CASE ScanSees
  BY <1>6, <1>a DEF ScanSees, EndFrame
<1>7. CASE ScanFails
  BY <1>7, <1>a DEF ScanFails, EndFrame, Capped
<1>8. CASE Tick
  <2>1. /\ frame = "idle" /\ frame' = "idle"
        /\ interval' = interval /\ fails' = fails /\ unseen' = unseen
        /\ ran' = FALSE
    BY <1>8 DEF Tick
  <2>2. age \in Nat /\ age < interval /\ age' = age + 1
    BY <1>8, <1>a DEF Tick, Capped
  <2>3. lag' <= lag + 1
    BY <1>8, <1>a, SchedulerAssumption DEF Tick, Capped, SchedulerAssumption
  <2>4. lag' \in Int
    BY <1>8, <1>a, SchedulerAssumption DEF Tick, Capped, SchedulerAssumption
  <2>5. ~ unseen => lag' = 0
    BY <1>8 DEF Tick
  <2> QED
    BY <2>1, <2>2, <2>3, <2>4, <2>5, <1>a
<1>9. CASE UNCHANGED vars
  BY <1>9 DEF vars
<1> QED
  BY <1>1, <1>2, <1>3, <1>4, <1>5, <1>6, <1>7, <1>8, <1>9
  DEF Next, Network, Frame

\* No change waits longer than the longest interval for each scan that failed on
\* it and one more.
THEOREM LagAlwaysBounded == Spec => []LagBounded
<1>1. Init => Clocks
  BY SchedulerAssumption DEF SchedulerAssumption, Init, Clocks, Waited
<1>2. TypeOK /\ Clocks => LagBounded
  <2> SUFFICES ASSUME TypeOK, Clocks, fails < MaxFails
               PROVE  lag <= (fails + 1) * MaxInterval
    BY DEF LagBounded
  <2>1. /\ MaxInterval \in Nat
        /\ interval \in 1 .. MaxInterval
        /\ lag \in Nat
        /\ fails \in Nat
        /\ age = None \/ age \in Nat
        /\ fails * MaxInterval \in Nat
    BY SchedulerAssumption DEF SchedulerAssumption, TypeOK
  <2>2. (fails + 1) * MaxInterval = fails * MaxInterval + MaxInterval
    BY <2>1
  <2> QED
    BY <2>1, <2>2 DEF Clocks, Waited
<1> QED
  BY <1>1, <1>2, TypeCorrect, ClocksStep, PTL DEF Spec
=============================================================================
