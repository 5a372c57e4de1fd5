SPECIFICATION FairSpec
CONSTANTS
  v1 = v1
  v2 = v2
  p1 = p1
  p2 = p2
  w1 = w1
  w2 = w2
  NoEvent = NoEvent
  Event = {v1, v2}
  Endpoint = {p1}
  Subscribed <- MCSubscribed
  Worker = {w1, w2}
  BatchSize = 2
  MaxAttempts = 3
  FailureThreshold = 2
  Lease = 3
  RequestTimeout = 2
  Backoff = {0, 1}
  MaxCrashes = 1
INVARIANTS SharedOnceLapsed BreakerOpens AttemptsAreBounded
PROPERTIES FinalAnswersStand DeliveriesEnd
CHECK_DEADLOCK FALSE
