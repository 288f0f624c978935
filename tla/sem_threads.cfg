\* Every operation on one semaphore by two threads of one process, with and
\* without undo and timeouts; waits and the drawing of keys come to an end.
SPECIFICATION FairSpec
CONSTANTS
  p1 = p1
  p2 = p2
  t1 = t1
  t2 = t2
  private = private
  k1 = k1
  k2 = k2
  Procs = {p1}
  Threads = {t1, t2}
  ProcOf <- Shared
  Keys = {private, k1, k2}
  IPC_PRIVATE = private
  None = None
  MaxSems = 1
  SEMVMX = 1
  SHRT_MAX = 1
  INT_MAX = 3
  FreshValues = {0}
  Values = {1}
  Deltas <- MCDeltas
  Timeouts = {"positive"}
  Settable = {"block", "undo", "mode", "owner"}
  SEMTIMEDOP_EXISTS = TRUE
INVARIANT TypeOK
INVARIANT OneProcessKeepsModes
PROPERTY BusyOnlyWhenAsked
PROPERTY ImplementsPermits
PROPERTY TimedCallsReturn
PROPERTY KeyDrawEnds
