\* The assertion that ends conclusion.py, without signals or faults.
SPECIFICATION DemoSpec
CONSTANTS
  Premise = Premise
  Conclusion = Conclusion
  Cleanup = Cleanup
  KEY = 1
  ITERATIONS = {2}
  None = None
  SHRT_MAX = 2
  INT_MAX = 2
  LONG_MAX = 2
  Procs = {Premise, Conclusion, Cleanup}
  Threads = {Premise, Conclusion, Cleanup}
  ProcOf <- Alone
  KeyArgs = {1}
  MaxQueues = 1
  Texts <- MCTexts
  Size <- Alike
  Types = {1}
  Wants = {0}
  MaxSizes = {1}
  QUEUE_MESSAGE_SIZE_MAX = 1
  MSGMAX = 1
  MSGMNB = 1
  Capacities = {1}
  Modes <- ReadWrite
  Settable = {}
  Faults = {}
CHECK_DEADLOCK FALSE
INVARIANT NoCorruption
