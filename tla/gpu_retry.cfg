SPECIFICATION Spec
CONSTANTS
  NoThread = NoThread
  Unused = Unused
  Gone = Gone
  NoClient = NoClient
  t1 = t1
  t2 = t2
  Threads = {t1, t2}
  a1 = a1
  a2 = a2
  Allocs = {a1, a2}
  h1 = h1
  h2 = h2
  Holders = {h1, h2}
  c1 = c1
  Clients = {c1}
  NumShards = 2
  LoadSlots = 1
  AttachSlots = 2
  Careful = FALSE
  MaxRefs = 2
SYMMETRY Symmetry
INVARIANT LoadedForProcessLifetime
