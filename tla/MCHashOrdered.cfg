\* The code's constants on a history long enough to shrink: 33 entries bring
\* 64 buckets, of which fewer than 7 entries give back all but 8.
CONSTANTS
  Key = {0,1,2,3,4,5,6,7,8,9,10,11,12,13,14,15,16,17,18,19,20,21,22,23,24,25,26,27,28,29,30,31,32}
  Value = {1}
  NoValue = NoValue
  Hasher <- MCHasher
  MIN_BUCKETS_SIZE = 4
  BucketSizes = {4, 8, 16, 32, 64}
  mLoadFactor = 1
  mShrinkDivisor = 10
SPECIFICATION OrderedSpec
INVARIANTS LoadBounded NeverEmpty AtMostOneMisplaced
PROPERTIES ImplementsMultiMap
