CONSTANTS
  t1 = t1  t2 = t2  t3 = t3
  x1 = x1  x2 = x2
  c1 = c1  c2 = c2
  w1 = w1  w2 = w2
  e1 = e1  e2 = e2
  Task <- TwoTasks
  Call <- TwoCalls
  Client <- OneClient
  Write <- OneWrite
  Effect <- OneEffect
  NoTask = NoTask  NoCall = NoCall  NoClient = NoClient  NoQuery = NoQuery
  ResolvesAfter <- Documented
  MaxAttempts = 1
  MaxNesting = 1
  Structured = TRUE
SPECIFICATION Spec
INVARIANT EffectsFollowCommit
