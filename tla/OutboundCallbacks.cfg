CONSTANTS
  Threads = {t1, t2, t3}
  States = {s1, s2, s3}
  None = None
  MaxRestarts = 1
SPECIFICATION Spec
SYMMETRY Interchangeable
CHECK_DEADLOCK FALSE
INVARIANTS IInv WaitingRequestsCompletable RejectedTokenLeaves
PROPERTIES LedgerSpec
