\* Every operation of two processes on a queue and on the one that is made
\* after it, under the same key or another: objects with different
\* max_message_size, types received out of order, signals, memory that runs
\* out, a capacity that shrinks.
SPECIFICATION Spec
CONSTANTS
  p1 = p1
  p2 = p2
  a = a
  bb = bb
  None = None
  SHRT_MAX = 2
  INT_MAX = 3
  LONG_MAX = 15
  Procs = {p1, p2}
  Threads = {p1, p2}
  ProcOf <- Alone
  KeyArgs = {None, 9}
  MaxQueues = 2
  Texts = {a, bb}
  Size <- Lengths
  Types <- MCTypes
  Wants <- MCWants
  MaxSizes = {1, 2}
  QUEUE_MESSAGE_SIZE_MAX = 2
  MSGMAX = 2
  MSGMNB = 2
  Capacities <- MCCapacities
  Modes <- ReadWrite
  Settable = {"max_size"}
  Faults = {"memory", "signal"}
SYMMETRY Perms
VIEW Ahead
INVARIANT TypeOK
INVARIANT ObjectNamesItsQueue
PROPERTY StuckOnlyBehindLargerObject
PROPERTY ImplementsMailbox
