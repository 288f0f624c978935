\* The key of an object made by attach().
SPECIFICATION Spec
CONSTANTS
  p1 = p1
  p2 = p2
  o1 = o1
  o2 = o2
  private = private
  k1 = k1
  a1 = a1
  a2 = a2
  Procs = {p1, p2}
  Objects = {o1, o2}
  ProcOf <- OneEach
  Keys = {private, k1}
  IPC_PRIVATE = private
  None = None
  MaxSegs = 2
  SHMMAX = 1
  PAGE_SIZE = 1
  RoundsUp = FALSE
  Addresses = {a1, a2}
  NULL = NULL
  ULONG_MAX = 3
  LONG_MAX = 1
  PY_STRING_LENGTH_MAX = 1
  Sizes = {0}
  Offsets = {0}
  ByteCounts = {0}
  Lengths = {1}
  Modes <- ReadWrite
  AttachFlags <- NoFlags
  Settable = {}
  Careful = {}
INVARIANT AttachSetsKey
