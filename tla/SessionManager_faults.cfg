SPECIFICATION Spec
CONSTANTS
  Sockets = {a1}
  Requests = {k1}
  Timers = {t1}
  a1 = a1
  k1 = k1
  t1 = t1
  Creator = Creator
  Forwarder = Forwarder
  NoTimer = NoTimer
  Fallible <- AllSteps
  MaxFaults = 2
  MaxCrashes = 1
SYMMETRY Interchangeable
INVARIANTS
  DetachedOnce
  RestartEndsSession
  SessionInv
