\* The conversation through shared memory, in the four combinations of
\* languages; signals end the Python programs.
SPECIFICATION FairSpec
CONSTANTS
  Premise = Premise
  Conclusion = Conclusion
  ITERATIONS = {1, 2, 3}
  LIVE_DANGEROUSLY = {TRUE, FALSE}
  Interrupted = {"Python"}
CHECK_DEADLOCK FALSE
INVARIANT NoCorruption
INVARIANT RemovedOnlyAtTheEnd
INVARIANT TakeTurns
PROPERTY ImplementsConversation
PROPERTY ConversationEnds
