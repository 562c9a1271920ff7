\* Startup, RPCs, reloads, failed scans and the fallback interval, interleaved.
SPECIFICATION FairSpec
CONSTANTS
  streamIn = streamIn
  setSkin = setSkin
  Reasons = {streamIn, setSkin}
  StreamIn = streamIn
  Intervals = {1, 3}
  None = None
  MaxInterval = 3
  MaxFails = 3
  MaxLag = 10
INVARIANTS TypeOK DetourFindsRuntime NoRefreshLost LagBounded
PROPERTIES Reconciled
