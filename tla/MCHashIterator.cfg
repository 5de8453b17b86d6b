\* Scaled-down constants: two growths (2 -> 4 -> 8 buckets, at three and five
\* entries) and a shrink (8 -> 4, below four) with only six entries, two of
\* each key, so that equal keys meet in every way the tables allow, and a
\* misplaced node needs few of them.  begin() on an empty table never returns:
\* the model stops there.
CONSTANTS
  Key = {0, 1, 4}
  Value = {v1, v2}
  NoValue = NoValue
  Hasher <- MCHasher
  MIN_BUCKETS_SIZE = 2
  BucketSizes = {2, 4, 8}
  mLoadFactor = 1
  mShrinkDivisor = 2
SPECIFICATION IterSpec
INVARIANTS TypeOK Structure SizesCount ChainsAreLists IndexInBounds AtMostOnce MissOnlyBehindMisplaced
PROPERTIES MissOnlyWhenStale ImplementsMultiMap LoopEnds
CHECK_DEADLOCK FALSE
