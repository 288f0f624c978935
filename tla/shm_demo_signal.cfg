\* The same when signals interrupt the C programs too.
SPECIFICATION Spec
CONSTANTS
  Premise = Premise
  Conclusion = Conclusion
  ITERATIONS = {1, 2}
  LIVE_DANGEROUSLY = {FALSE}
  Interrupted = {"C", "Python"}
CHECK_DEADLOCK FALSE
INVARIANT NoCorruption
