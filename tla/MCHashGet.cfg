\* The code's constants; six keys are enough for the first growth.
CONSTANTS
  Key = {0, 1, 3, 4, 5, 7}
  Value = {v1}
  NoValue = NoValue
  Hasher <- MCHasher
  MIN_BUCKETS_SIZE = 4
  BucketSizes = {4, 8}
  mLoadFactor = 1
  mShrinkDivisor = 10
SPECIFICATION Spec
PROPERTY GetFindsLiveKey
