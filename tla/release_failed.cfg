SPECIFICATION Spec
CONSTANTS
  daemon = daemon
  cli = cli
  t1 = t1
  t2 = t2
  t3 = t3
  h1 = h1
  h2 = h2
  NoThread = NoThread
  NoHolder = NoHolder
  Procs = {daemon}
  Threads = {t1, t2}
  Holders = {h1, h2}
  LosesBlobs = FALSE
  IOErrors = FALSE
  ReleaseUnheld = TRUE
  ProcOf <- OneProcess
INVARIANT ReadyIsPublished
