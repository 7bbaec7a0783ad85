SPECIFICATION Spec
CONSTANTS
  daemon = daemon
  cli = cli
  t1 = t1
  t2 = t2
  t3 = t3
  h1 = h1
  h2 = h2
  NoThread = NoThread
  NoHolder = NoHolder
  Procs = {daemon}
  Threads = {t1, t2, t3}
  Holders = {h1, h2}
  LosesBlobs = FALSE
  IOErrors = FALSE
  ReleaseUnheld = FALSE
  ProcOf <- OneProcess
SYMMETRY ThreadsAndHolders
INVARIANT TypeOK
INVARIANT GrantedModelStays
INVARIANT GrantedModelReadsReady
INVARIANT ReadyIsPublished
INVARIANT CommittedIsPublished
INVARIANT OrphanIsBenign
