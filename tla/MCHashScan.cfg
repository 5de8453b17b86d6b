\* Two buckets at first: five entries grow the table to eight buckets, and
\* erases bring it back to four, while a scan is under way.
CONSTANTS
  Key = {0, 1, 2, 4, 6}
  Value = {v1}
  NoValue = NoValue
  Hasher <- MCHasher
  MIN_BUCKETS_SIZE = 2
  BucketSizes = {2, 4, 8}
  Bit = {1, 2, 4, 8}
  mLoadFactor = 1
  mShrinkDivisor = 2
SPECIFICATION ScanSpec
INVARIANTS ScanMissesNothing
PROPERTY ScanEnds
