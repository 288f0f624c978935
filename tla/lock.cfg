\* The recipe and the lock: four processes that crash and are interrupted, and
\* the kernel gives back what they hold. Where nobody crashes, all get through.
SPECIFICATION FairLockSpec
CONSTANTS
  p1 = p1
  p2 = p2
  p3 = p3
  p4 = p4
  private = private
  k1 = k1
  Procs = {p1, p2, p3, p4}
  Threads = {p1, p2, p3, p4}
  ProcOf <- Alone
  Keys = {private, k1}
  IPC_PRIVATE = private
  None = None
  MaxSems = 1
  SEMVMX = 1
  SHRT_MAX = 1
  INT_MAX = 3
  FreshValues = {0, 1}
  Values = {0}
  Deltas = {1}
  Timeouts = {"none"}
  Settable = {"undo"}
  SEMTIMEDOP_EXISTS = TRUE
  Key = k1
  UsesUndo = TRUE
  Faults = {"crash", "signal"}
INVARIANT MutualExclusion
INVARIANT OnePermit
PROPERTY ImplementsLock
PROPERTY RecipeEnds
PROPERTY EveryoneEnters
