\* IPC_CREAT alone sets the initial value of a semaphore that exists.
SPECIFICATION Spec
CONSTANTS
  p1 = p1
  p2 = p2
  t1 = t1
  t2 = t2
  private = private
  k1 = k1
  k2 = k2
  Procs = {p1, p2}
  Threads = {p1, p2}
  ProcOf <- Alone
  Keys = {private, k1}
  IPC_PRIVATE = private
  None = None
  MaxSems = 1
  SEMVMX = 1
  SHRT_MAX = 1
  INT_MAX = 3
  FreshValues = {0}
  Values = {1}
  Deltas <- MCDeltas
  Timeouts = {"none", "zero", "positive"}
  Settable = {"block", "undo"}
  SEMTIMEDOP_EXISTS = TRUE
PROPERTY InitialValueNeedsBothFlags
