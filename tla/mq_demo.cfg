\* The three programs of the message queue demo, with signals, over a queue
\* that holds one message, up to the assertion that ends conclusion.py.  All three
\* may end.
SPECIFICATION FairDemoSpec
CONSTANTS
  Premise = Premise
  Conclusion = Conclusion
  Cleanup = Cleanup
  KEY = 1
  ITERATIONS = {1, 2}
  None = None
  SHRT_MAX = 2
  INT_MAX = 2
  LONG_MAX = 2
  Procs = {Premise, Conclusion, Cleanup}
  Threads = {Premise, Conclusion, Cleanup}
  ProcOf <- Alone
  KeyArgs = {1}
  MaxQueues = 1
  Texts <- MCTexts
  Size <- Alike
  Types = {1}
  Wants = {0}
  MaxSizes = {1}
  QUEUE_MESSAGE_SIZE_MAX = 1
  MSGMAX = 1
  MSGMNB = 1
  Capacities = {1}
  Modes <- ReadWrite
  Settable = {}
  Faults = {"memory", "signal"}
CHECK_DEADLOCK FALSE
INVARIANT NobodyWaitsToSend
INVARIANT OneMessage
PROPERTY ImplementsConversation
PROPERTY RemovalEndsPrograms
PROPERTY ConversationGoesOn
