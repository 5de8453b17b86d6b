\* Every method, by three threads: a push may notify one of several sleepers, and
\* tryPop may take the value that a woken thread comes for.  setMaxSize may lower
\* the bound below the size (to 0, where no push succeeds) and raise it again.
CONSTANTS
  Thread = {t1, t2, t3}
  Value = {7, 8}
  MaxSize = {0, 1, 2}
  Call <- EveryCall
  NoThread = NoThread
  NoCall = NoCall
  NoValue = NoValue
SYMMETRY ThreadSymmetry
SPECIFICATION Spec
INVARIANTS TypeOK NoLostWakeup OwnersAndSleepers
PROPERTY ImplementsFifo
