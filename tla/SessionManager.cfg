SPECIFICATION FairSpec
CONSTANTS
  Sockets = {a1, a2}
  Requests = {}
  Timers = {t1, t2}
  a1 = a1
  a2 = a2
  t1 = t1
  t2 = t2
  Creator = Creator
  Forwarder = Forwarder
  NoTimer = NoTimer
  Fallible <- ClientSteps
  MaxFaults = 1
  MaxCrashes = 0
INVARIANTS
  PtyOwned
  CloseIsFinal
  TimersTracked
PROPERTY
  ReapedAfterLastClient
