\* Two buckets at first, so that a table that has grown and holds a misplaced
\* node needs few entries; two of the keys meet in every table.  begin() on an
\* empty table never returns: the model stops there.
CONSTANTS
  Key = {0, 1, 2, 4, 8}
  Value = {v1}
  NoValue = NoValue
  Hasher <- MCHasher
  MIN_BUCKETS_SIZE = 2
  BucketSizes = {2, 4, 8}
  mLoadFactor = 1
  mShrinkDivisor = 2
SPECIFICATION IterSpec
INVARIANT RehashDoesNotBreakLoop
CHECK_DEADLOCK FALSE
