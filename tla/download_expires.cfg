SPECIFICATION Spec
CONSTANTS
  BlobCount = 2
  Workers = {w1, w2}
INVARIANT NilMeansComplete
