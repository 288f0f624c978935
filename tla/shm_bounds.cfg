\* Constructor, read and write on a kernel that rounds sizes up, with counts that
\* are too large and offsets that wrap; another process writes, removes and
\* changes permissions in between.
SPECIFICATION Spec
CONSTANTS
  p1 = p1
  p2 = p2
  o1 = o1
  o2 = o2
  private = private
  k1 = k1
  a1 = a1
  a2 = a2
  Procs = {p1, p2}
  Objects = {o1, o2}
  ProcOf <- OneEach
  Keys = {private, k1}
  IPC_PRIVATE = private
  None = None
  MaxSegs = 1
  SHMMAX = 2
  PAGE_SIZE = 1
  RoundsUp = TRUE
  Addresses = {a1}
  NULL = NULL
  ULONG_MAX = 5
  LONG_MAX = 2
  PY_STRING_LENGTH_MAX = 1
  Sizes = {0}
  Offsets <- MCOffsets
  ByteCounts <- MCByteCounts
  Lengths = {1}
  Modes <- MayLock
  AttachFlags <- NoFlags
  Settable = {"mode"}
  Careful = {p1, p2}
SYMMETRY ProcsWithObjects
INVARIANT TypeOK
INVARIANT CopiesInBounds
PROPERTY InitCharacterFills
PROPERTY FillKeepsOwnData
