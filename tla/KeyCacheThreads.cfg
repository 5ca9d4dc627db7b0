CONSTANTS
  t1 = t1  t2 = t2  k1 = k1  k2 = k2  f1 = f1
  Probe = Probe
  None = None
  Threads = {t1, t2}
  Keys = {k1, k2}
  ForeignKeys = {f1}
  FirstKey = k1
  Urls = 2
SPECIFICATION Spec
INVARIANTS IInv OwedCallsAccepted
PROPERTIES EveryCallEnds
