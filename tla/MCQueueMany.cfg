\* Two producers and two consumers over a queue of two: pushers spin, poppers sleep,
\* pushes notify several sleepers, and all compete for the mutex.
CONSTANTS
  Producer = {p1, p2}
  Consumer = {c1, c2}
  Items = 3
  Quota = 3
  Thread <- MCThread
  Value <- MCValue
  MaxSize = {2}
  Call <- MCCall
  NoThread = NoThread
  NoCall = NoCall
  NoValue = NoValue
SPECIFICATION FairProgramSpec
INVARIANTS EveryValueOnce ProducerOrder
PROPERTIES Terminates SleepersServed
