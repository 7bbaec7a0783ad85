SPECIFICATION FairSpec
CONSTANTS
  BlobCount = 4
  Workers = {w1, w2, w3}
INVARIANT TypeOK
INVARIANT AnswersTheCause
INVARIANT PoolInv
PROPERTY DownloadsAllInTime
PROPERTY Answers
