SPECIFICATION Spec
CONSTANTS
  Keys = {k1, k2, k3, k4}
  Burst = 4
  Rate = 1
  SweepEvery = 10
  BucketTTL = 20
  ForcedTTL = 2
  MaxBuckets = 3
SYMMETRY Symmetric
INVARIANTS
  LimitKept
  RefusedForCause
