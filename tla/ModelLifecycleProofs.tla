------------------------ MODULE ModelLifecycleProofs ------------------------
(***************************************************************************)
(* Theorems about ModelLifecycle for every set of processes, threads and   *)
(* holders.                                                                *)
(***************************************************************************)
EXTENDS ModelLifecycle, TLAPS

(* The constant records are of their types.                                *)
LEMMA ConstantTypes ==
  /\ NoRecord \in Records
  /\ Released \in Records
  /\ Idle \in Handlers
  /\ Down \in Boots
  /\ Up \in Boots
BY DEF NoRecord, Released, Records, States, Transient, Idle, Handlers, Critical,
       Ops, Content, Down, Up, Boots, Markers

(* A record keeps its type when its status or its leases are replaced.     *)
LEMMA RecordUpdates ==
  ASSUME NEW r \in Records, NEW s \in States, NEW l \in SUBSET Holders
  PROVE  /\ [r EXCEPT !.status = s] \in Records
         /\ [r EXCEPT !.leases = l] \in Records
         /\ [status |-> s, path |-> TRUE, leases |-> l] \in Records
         /\ ReleasedTo(r, l) \in Records
BY DEF Records, ReleasedTo, States

(* The lease helpers stay within the holders.                              *)
LEMMA LeaseTypes ==
  ASSUME NEW l \in SUBSET Holders, NEW h \in Holders \cup {NoHolder}
  PROVE  /\ AcquireLease(l, h) \in SUBSET Holders
         /\ ReleaseLease(l, h) \in SUBSET Holders
BY DEF AcquireLease, ReleaseLease

(* Every handler and recovery step keeps the types.                        *)
LEMMA TypeStep == TypeOK /\ [Next]_vars => TypeOK'
<1> SUFFICES ASSUME TypeOK, [Next]_vars PROVE TypeOK'
  OBVIOUS
<1> USE LifecycleAssumption, ConstantTypes DEF TypeOK
<1>1. CASE UNCHANGED vars
  BY <1>1 DEF vars
<1>2. ASSUME NEW t \in Threads, RequestStep(t) PROVE TypeOK'
  <2>1. ASSUME NEW h \in Holders \cup {NoHolder}, StartEnsure(t, h) PROVE TypeOK'
    BY <2>1 DEF StartEnsure, Arrive, store, Idle, Handlers, Ops
  <2>2. ASSUME NEW h \in Holders, NEW o \in {"release", "cleanup"},
               StartRelease(t, h, o)
        PROVE  TypeOK'
    BY <2>2 DEF StartRelease, Arrive, store, Idle, Handlers, Ops
  <2>3. CASE StartGC(t)
    BY <2>3 DEF StartGC, Arrive, store, Idle, Handlers, Ops
  <2>4. CASE Acquire(t)
    BY <2>4 DEF Acquire, Goto, store, Handlers, Critical
  <2>5. CASE GiveUp(t)
    BY <2>5 DEF GiveUp, Return, store
  <2> QED BY <1>2, <2>1, <2>2, <2>3, <2>4, <2>5 DEF RequestStep
<1>3. ASSUME NEW t \in Threads, EnsureStep(t) PROVE TypeOK'
  <2> DEFINE c == req[t].copy
  <2>0. /\ req[t] \in Handlers
        /\ c \in Records
        /\ req[t].who \in Holders \cup {NoHolder}
        /\ req[t].stage \in Content
        /\ AcquireLease(rec.leases, req[t].who) \in SUBSET Holders
    BY LeaseTypes DEF Handlers, Records
  <2>1. CASE EnsureGet(t)
    <3> DEFINE l == AcquireLease(rec.leases, req[t].who)
    <3>1. /\ [rec EXCEPT !.leases = l] \in Records
          /\ [status |-> "RESOLVING", path |-> TRUE, leases |-> l] \in Records
      BY <2>0, RecordUpdates DEF States, Transient
    <3> HIDE DEF l
    <3> QED BY <2>1, <3>1 DEF EnsureGet, store, Handlers, Critical, l
  <2>2. ASSUME NEW from, NEW to \in Critical, NEW s \in States,
               PutStatus(t, from, to, s)
        PROVE  TypeOK'
    <3>1. [c EXCEPT !.status = s] \in Records
      BY <2>0, RecordUpdates
    <3> QED BY <2>2, <2>0, <3>1 DEF PutStatus, Handlers
  <2>3. ASSUME NEW from, NEW to \in Critical, NEW m \in Markers,
               Log(t, from, to, m)
        PROVE  TypeOK'
    BY <2>3 DEF Log, Goto, Handlers
  <2>4. CASE EnsureDownload(t)
    <3>1. PICK d \in {"whole", "gutted"} :
            req' = [req EXCEPT ![t].pc = "verified", ![t].stage = d]
      BY <2>4 DEF EnsureDownload
    <3>2. "verified" \in Critical /\ d \in Content /\ "OPEN" \in Markers
      BY DEF Critical, Content, Markers
    <3>3. req' \in [Threads -> Handlers]
      BY <3>1, <3>2, <2>0 DEF Handlers
    <3> QED BY <2>4, <3>2, <3>3 DEF EnsureDownload
  <2>5. CASE EnsurePublish(t)
    BY <2>5, <2>0 DEF EnsurePublish, Goto, Handlers, Critical
  <2>6. CASE EnsureClean(t)
    BY <2>6 DEF EnsureClean, Goto, DropJournal, Handlers, Critical
  <2>7. CASE Grant(t)
    BY <2>7, <2>0, LeaseTypes DEF Grant, Return, store
  <2>8. CASE EnsureFail(t)
    <3>1. [c EXCEPT !.status = "FAILED"] \in Records
      BY <2>0, RecordUpdates DEF States
    <3> QED BY <2>8, <2>0, <3>1 DEF EnsureFail, Goto, Handlers, Critical
  <2> QED
    BY <1>3, <2>1, <2>2, <2>3, <2>4, <2>5, <2>6, <2>7, <2>8
    DEF EnsureStep, EnsureTouch, EnsureResolve, EnsureBegin, EnsureFetch,
        EnsureVerified, EnsureVerifying, EnsurePublishing, EnsureMetadata,
        EnsureReady, EnsureCommit, EnsurePutReady, Critical, States, Transient,
        Markers
<1>4. ASSUME NEW t \in Threads, RemovalStep(t) PROVE TypeOK'
  <2>0. /\ req[t] \in Handlers
        /\ req[t].copy \in Records
        /\ ReleaseLease(rec.leases, req[t].who) \in SUBSET Holders
    BY LeaseTypes DEF Handlers, Records
  <2>1. CASE ReleaseGet(t)
    <3> DEFINE l == ReleaseLease(rec.leases, req[t].who)
    <3>1. ReleasedTo(rec, l) \in Records
      BY <2>0, RecordUpdates DEF States
    <3> HIDE DEF l
    <3> QED BY <2>1, <3>1 DEF ReleaseGet, Goto, store, Handlers, Critical, l
  <2>2. CASE GCGet(t)
    BY <2>2 DEF GCGet, Goto, store, Handlers, Critical
  <2>3. CASE Remove(t)
    BY <2>3 DEF Remove, Goto, Handlers, Critical, Content
  <2>4. CASE Removed(t)
    BY <2>4 DEF Removed, Goto, Handlers, Critical, Content
  <2>5. CASE PutReleased(t)
    BY <2>5, <2>0 DEF PutReleased, Goto, Handlers, Critical
  <2>6. CASE GCDrop(t)
    BY <2>6 DEF GCDrop, Goto, DropJournal, Handlers, Critical
  <2> QED BY <1>4, <2>1, <2>2, <2>3, <2>4, <2>5, <2>6 DEF RemovalStep
<1>5. ASSUME NEW t \in Threads, Abort(t) \/ Unlock(t) PROVE TypeOK'
  BY <1>5 DEF Abort, Unlock, Goto, Return, store, Handlers, Critical
<1>6. ASSUME NEW p \in Procs, RecoverStep(p) PROVE TypeOK'
  <2>0. proc[p] \in Boots /\ proc[p].snap \in Records
    BY DEF Boots
  <2>1. CASE BootList(p)
    BY <2>1 DEF BootList, BootAt, BootDone, store, Boots
  <2>2. CASE BootMarkers(p)
    BY <2>2 DEF BootMarkers, store, Boots
  <2>3. CASE BootDecide(p)
    <3> DEFINE v == Verdict(proc[p].seen, proc[p].snap.path, disk)
    <3>1. [proc[p].snap EXCEPT !.status = v] \in Records
      BY <2>0, RecordUpdates DEF States, Verdict
    <3> HIDE DEF v
    <3> QED BY <2>3, <2>0, <3>1
            DEF BootDecide, BootGoto, DropJournal, Boots, v
  <2>4. CASE BootPut(p)
    BY <2>4, <2>0 DEF BootPut, BootGoto, Boots
  <2>5. CASE BootMark(p)
    BY <2>5 DEF BootMark, BootGoto, Boots, Markers
  <2>6. CASE BootClose(p)
    BY <2>6 DEF BootClose, BootDone, DropJournal
  <2>7. CASE BootCheck(p)
    <3>1. [proc[p].snap EXCEPT !.status = "FAILED"] \in Records
      BY <2>0, RecordUpdates DEF States
    <3> QED BY <2>7, <2>0, <3>1 DEF BootCheck, BootDone, store, Boots
  <2>8. CASE BootPutOnly(p)
    BY <2>8, <2>0 DEF BootPutOnly, BootDone
  <2> QED BY <1>6, <2>1, <2>2, <2>3, <2>4, <2>5, <2>6, <2>7, <2>8 DEF RecoverStep
<1>7. ASSUME NEW p \in Procs, BootStart(p) \/ Crash(p) PROVE TypeOK'
  BY <1>7 DEF BootStart, Crash, BootGoto, store, Boots
<1> QED
  BY <1>1, <1>2, <1>3, <1>4, <1>5, <1>6, <1>7 DEF Next, HandlerStep

(* The initial states have the types.                                      *)
LEMMA InitTypes == Init => TypeOK
<1> SUFFICES ASSUME Init PROVE TypeOK
  OBVIOUS
<1>1. [status |-> "READY", path |-> TRUE, leases |-> {}] \in Records
  BY DEF Records, States
<1>2. rec \in Records /\ disk \in Content
  BY <1>1, ConstantTypes DEF Init, Content
<1> QED BY <1>2, LifecycleAssumption, ConstantTypes DEF Init, TypeOK

(* The variables keep the types the handlers rely on.                      *)
THEOREM TypeCorrect == Spec => []TypeOK
BY InitTypes, TypeStep, PTL DEF Spec

-----------------------------------------------------------------------------
(* What every step of a kind leaves alone.                                 *)
LEMMA HandlerFrame ==
  ASSUME TypeOK, NEW t \in Threads, HandlerStep(t)
  PROVE  /\ req[t].pc \in Critical
         /\ proc' = proc
         /\ \A u \in Threads \ {t} : req'[u] = req[u]
<1> USE DEF TypeOK
<1>1. req[t].pc \in Critical
  BY DEF HandlerStep, EnsureStep, RemovalStep, EnsureGet, EnsureTouch,
     EnsureResolve, EnsureBegin, EnsureFetch, EnsureDownload, EnsureVerified,
     EnsureVerifying, EnsurePublishing, EnsureMetadata, EnsureReady,
     EnsurePublish, EnsureCommit, EnsurePutReady, EnsureClean, Grant,
     EnsureFail, MayFail, ReleaseGet, GCGet, Remove, Removed, PutReleased,
     GCDrop, Abort, Unlock, PutStatus, Log, At, Critical
<1>2. proc' = proc /\ \A u \in Threads \ {t} : req'[u] = req[u]
  BY DEF HandlerStep, EnsureStep, RemovalStep, EnsureGet, EnsureTouch,
     EnsureResolve, EnsureBegin, EnsureFetch, EnsureDownload, EnsureVerified,
     EnsureVerifying, EnsurePublishing, EnsureMetadata, EnsureReady,
     EnsurePublish, EnsureCommit, EnsurePutReady, EnsureClean, Grant,
     EnsureFail, ReleaseGet, GCGet, Remove, Removed, PutReleased, GCDrop,
     Abort, Unlock, PutStatus, Log, Goto, Return
<1> QED BY <1>1, <1>2

LEMMA RequestFrame ==
  ASSUME TypeOK, NEW t \in Threads, RequestStep(t)
  PROVE  /\ req[t].pc \in {"idle", "lock", "trylock"}
         /\ UNCHANGED <<rec, journal, disk, proc>>
         /\ \A u \in Threads \ {t} : req'[u] = req[u]
         /\ granted' \subseteq granted
         /\ \/ lock' = lock /\ req'[t].pc \in {"idle", "lock", "trylock"}
            \/ /\ Acquire(t) /\ lock = NoThread /\ lock' = t
               /\ req'[t].pc \in {"get", "relget", "gcget"}
<1> USE DEF TypeOK, store, At
<1>1. ASSUME NEW h \in Holders \cup {NoHolder}, StartEnsure(t, h)
      PROVE  /\ req[t].pc = "idle" /\ req'[t].pc = "lock"
             /\ UNCHANGED <<rec, journal, disk, lock, proc, granted>>
             /\ \A u \in Threads \ {t} : req'[u] = req[u]
  BY <1>1 DEF StartEnsure, Arrive, Idle
<1>2. ASSUME NEW h \in Holders, NEW o \in {"release", "cleanup"},
             StartRelease(t, h, o)
      PROVE  /\ req[t].pc = "idle" /\ req'[t].pc = "lock"
             /\ UNCHANGED <<rec, journal, disk, lock, proc>>
             /\ granted' \subseteq granted
             /\ \A u \in Threads \ {t} : req'[u] = req[u]
  BY <1>2 DEF StartRelease, Arrive, Idle
<1>3. ASSUME StartGC(t)
      PROVE  /\ req[t].pc = "idle" /\ req'[t].pc = "trylock"
             /\ UNCHANGED <<rec, journal, disk, lock, proc, granted>>
             /\ \A u \in Threads \ {t} : req'[u] = req[u]
  BY <1>3 DEF StartGC, Arrive, Idle
<1>4. ASSUME Acquire(t)
      PROVE  /\ req[t].pc \in {"lock", "trylock"}
             /\ req'[t].pc \in {"get", "relget", "gcget"}
             /\ lock = NoThread /\ lock' = t
             /\ UNCHANGED <<rec, journal, disk, proc, granted>>
             /\ \A u \in Threads \ {t} : req'[u] = req[u]
  BY <1>4 DEF Acquire, Goto, Handlers
<1>5. ASSUME GiveUp(t)
      PROVE  /\ req[t].pc \in {"lock", "trylock"} /\ req'[t].pc = "idle"
             /\ UNCHANGED <<rec, journal, disk, lock, proc, granted>>
             /\ \A u \in Threads \ {t} : req'[u] = req[u]
  BY <1>5 DEF GiveUp, Return, Idle
<1> QED BY <1>1, <1>2, <1>3, <1>4, <1>5 DEF RequestStep

LEMMA BootFrame ==
  ASSUME TypeOK, NEW p \in Procs, RecoverStep(p) \/ BootStart(p)
  PROVE  /\ proc[p].pc # "up"
         /\ UNCHANGED <<disk, lock, req, granted>>
         /\ \A q \in Procs \ {p} : proc'[q] = proc[q]
BY DEF TypeOK, RecoverStep, BootStart, BootList, BootMarkers, BootDecide,
   BootPut, BootMark, BootClose, BootCheck, BootPutOnly, BootAt, BootGoto,
   BootDone, store

(* Only Ensure's publish step, a release and GC touch the directory.       *)
LEMMA DiskFrame ==
  ASSUME TypeOK, NEW t \in Threads, HandlerStep(t), disk' # disk
  PROVE  \/ EnsurePublish(t) /\ disk = "absent" /\ disk' = req[t].stage
         \/ EnsureFail(t) /\ disk = "absent"
         \/ Remove(t) \/ Removed(t)
BY DEF HandlerStep, EnsureStep, RemovalStep, EnsureGet, EnsureTouch,
   EnsureResolve, EnsureBegin, EnsureFetch, EnsureDownload, EnsureVerified,
   EnsureVerifying, EnsurePublishing, EnsureMetadata, EnsureReady,
   EnsurePublish, EnsureCommit, EnsurePutReady, EnsureClean, Grant, EnsureFail,
   ReleaseGet, GCGet, PutReleased, GCDrop, Abort, Unlock, PutStatus, Log, store

(* The flock excludes, whatever the processes do.                          *)
LEMMA LockedStep == TypeOK /\ Locked /\ [Next]_vars => Locked'
<1> SUFFICES ASSUME TypeOK, Locked, [Next]_vars, NEW u \in Threads,
                    req'[u].pc \in Critical
             PROVE  lock' = u
  BY DEF Locked
<1>0. /\ req[u].pc \in Critical => lock = u
      /\ "idle" \notin Critical /\ "lock" \notin Critical
      /\ "trylock" \notin Critical
  BY DEF Locked, Critical
<1>1. CASE UNCHANGED vars
  BY <1>1, <1>0 DEF vars
<1>2. ASSUME NEW t \in Threads, RequestStep(t) PROVE lock' = u
  BY <1>2, <1>0, RequestFrame, LifecycleAssumption
<1>3. ASSUME NEW t \in Threads, HandlerStep(t) PROVE lock' = u
  <2>1. lock = t /\ (u # t => req'[u] = req[u])
    BY <1>3, HandlerFrame DEF Locked
  <2>2. CASE Grant(t) \/ Unlock(t)
    BY <1>0, <2>1, <2>2 DEF Grant, Unlock, Return, Idle, TypeOK
  <2>3. CASE ~(Grant(t) \/ Unlock(t))
    <3>1. lock' = lock
      BY <1>3, <2>3 DEF HandlerStep, EnsureStep, RemovalStep, EnsureGet,
         EnsureTouch, EnsureResolve, EnsureBegin, EnsureFetch, EnsureDownload,
         EnsureVerified, EnsureVerifying, EnsurePublishing, EnsureMetadata,
         EnsureReady, EnsurePublish, EnsureCommit, EnsurePutReady, EnsureClean,
         EnsureFail, ReleaseGet, GCGet, Remove, Removed, PutReleased,
         GCDrop, Abort, PutStatus, Log
    <3> QED BY <1>0, <2>1, <3>1
  <2> QED BY <2>2, <2>3
<1>4. ASSUME NEW p \in Procs, RecoverStep(p) \/ BootStart(p) PROVE lock' = u
  BY <1>4, <1>0, BootFrame
<1>5. ASSUME NEW p \in Procs, Crash(p) PROVE lock' = u
  BY <1>5, <1>0 DEF Crash, Idle, TypeOK
<1> QED BY <1>1, <1>2, <1>3, <1>4, <1>5 DEF Next

(* No step takes the directory from a handler that is about to answer      *)
(* READY, in a download that delivers every blob.                          *)
LEMMA ServeStep ==
  ASSUME ~LosesBlobs
  PROVE  TypeOK /\ ServeInv /\ [Next]_vars => ServeInv'
<1> SUFFICES ASSUME TypeOK, ServeInv, [Next]_vars PROVE ServeInv'
  OBVIOUS
<1>a. Locked'
  BY LockedStep DEF ServeInv
<1> DEFINE Staged(u) ==
             req[u].pc \in {"verified", "verifying", "publishing", "metadata",
                           "ready", "publish"} => req[u].stage = "whole"
           Placed(u) ==
             req[u].pc \in {"touch", "commit", "putready", "clean", "grant"}
               => disk = "whole"
<1>b. SUFFICES ASSUME NEW u \in Threads PROVE Staged(u)' /\ Placed(u)'
  BY <1>a DEF ServeInv, StagedWhole, PlacedWhole
<1>0. Staged(u) /\ Placed(u) /\ Locked
  BY DEF ServeInv, StagedWhole, PlacedWhole
<1>1. CASE UNCHANGED vars
  BY <1>1, <1>0 DEF vars
<1>2. ASSUME NEW t \in Threads, RequestStep(t) PROVE Staged(u)' /\ Placed(u)'
  BY <1>2, <1>0, RequestFrame
<1>3. ASSUME NEW t \in Threads, HandlerStep(t) PROVE Staged(u)' /\ Placed(u)'
  <2>0. /\ req[t].pc \in Critical /\ lock = t
        /\ u # t => req'[u] = req[u]
        /\ {"touch", "commit", "putready", "clean", "grant"} \subseteq Critical
    BY <1>3, <1>0, HandlerFrame DEF Locked, Critical
  <2>1. CASE u # t
    BY <2>0, <2>1, <1>0 DEF Locked
  <2>2. CASE u = t
    <3> USE <2>2 DEF TypeOK, Goto, At, Handlers
    <3>1. CASE EnsureGet(t)
      BY <3>1 DEF EnsureGet, FullVerify, store
    <3>2. CASE EnsureTouch(t) \/ EnsureResolve(t) \/ EnsureFetch(t)
                 \/ EnsureVerifying(t) \/ EnsurePublishing(t)
                 \/ EnsurePutReady(t)
      BY <3>2, <1>0 DEF PutStatus, EnsureTouch, EnsureResolve, EnsureFetch,
         EnsureVerifying, EnsurePublishing, EnsurePutReady
    <3>3. CASE EnsureBegin(t) \/ EnsureVerified(t) \/ EnsureMetadata(t)
                 \/ EnsureReady(t) \/ EnsureCommit(t)
      BY <3>3, <1>0 DEF Log, EnsureBegin, EnsureVerified, EnsureMetadata,
         EnsureReady, EnsureCommit
    <3>4. CASE EnsureDownload(t)
      BY <3>4 DEF EnsureDownload
    <3>5. CASE EnsurePublish(t)
      BY <3>5, <1>0 DEF EnsurePublish, FullVerify
    <3>6. CASE EnsureClean(t)
      BY <3>6, <1>0 DEF EnsureClean
    <3>7. CASE Grant(t) \/ Unlock(t)
      BY <3>7 DEF Grant, Unlock, Return, Idle
    <3>8. CASE EnsureFail(t) \/ RemovalStep(t) \/ Abort(t)
      BY <3>8 DEF EnsureFail, RemovalStep, ReleaseGet, GCGet, Remove, Removed,
         PutReleased, GCDrop, Abort
    <3> QED BY <1>3, <3>1, <3>2, <3>3, <3>4, <3>5, <3>6, <3>7, <3>8
            DEF HandlerStep, EnsureStep
  <2> QED BY <2>1, <2>2
<1>4. ASSUME NEW p \in Procs, RecoverStep(p) \/ BootStart(p)
      PROVE  Staged(u)' /\ Placed(u)'
  BY <1>4, <1>0, BootFrame
<1>5. ASSUME NEW p \in Procs, Crash(p) PROVE Staged(u)' /\ Placed(u)'
  BY <1>5, <1>0 DEF Crash, Idle, TypeOK, store
<1> QED BY <1>1, <1>2, <1>3, <1>4, <1>5 DEF Next

(* The flock excludes, what passed the digest checks is what is published,  *)
(* and what was published or verified stays until the handler answers: for *)
(* any number of processes, threads and clients, with crashes, I/O errors  *)
(* and stray releases, provided the download delivers every blob.          *)
THEOREM ServeInvHolds ==
  ASSUME ~LosesBlobs
  PROVE  Spec => []ServeInv
<1>1. Init => ServeInv
  BY DEF Init, ServeInv, Locked, StagedWhole, PlacedWhole, Idle, Critical
<1>2. TypeOK /\ ServeInv /\ [Next]_vars => ServeInv'
  BY ServeStep
<1> QED BY <1>1, <1>2, TypeCorrect, PTL DEF Spec

(* Ensure answers READY only over a directory that is whole, in the same   *)
(* generality.                                                             *)
THEOREM GrantsServeWhole ==
  ASSUME ~LosesBlobs
  PROVE  Spec => []GrantServesWhole
<1>1. ServeInv => GrantServesWhole
  BY DEF ServeInv, PlacedWhole, GrantServesWhole, At
<1> QED BY <1>1, ServeInvHolds, PTL

-----------------------------------------------------------------------------
(* The rest is about one process that has the cache root to itself.        *)
OneProcessOnly == \A p, q \in Procs : p = q

(* A handler step keeps its request or returns, and only Grant grants.     *)
LEMMA HandlerRequest ==
  ASSUME TypeOK, NEW t \in Threads, HandlerStep(t)
  PROVE  /\ \/ req'[t].who = req[t].who /\ req'[t].op = req[t].op
               /\ req'[t].pc \notin {"idle", "lock", "trylock", "relget"}
            \/ req'[t] = Idle
         /\ \/ granted' = granted
            \/ Grant(t) /\ granted' = AcquireLease(granted, req[t].who)
               /\ req'[t] = Idle
<1> USE DEF TypeOK, Handlers, Goto
<1>1. ASSUME EnsureGet(t) \/ EnsureDownload(t) \/ EnsurePublish(t)
               \/ EnsureClean(t)
      PROVE  /\ req'[t].who = req[t].who /\ req'[t].op = req[t].op
             /\ req'[t].pc \notin {"idle", "lock", "trylock", "relget"}
             /\ granted' = granted
  <2>1. CASE EnsureGet(t)
    BY <2>1 DEF EnsureGet
  <2>2. CASE EnsureDownload(t)
    <3>1. PICK d : req' = [req EXCEPT ![t].pc = "verified", ![t].stage = d]
      BY <2>2 DEF EnsureDownload
    <3> QED BY <2>2, <3>1 DEF EnsureDownload
  <2>3. CASE EnsurePublish(t)
    BY <2>3 DEF EnsurePublish
  <2>4. CASE EnsureClean(t)
    BY <2>4 DEF EnsureClean
  <2> QED BY <1>1, <2>1, <2>2, <2>3, <2>4
<1>2. ASSUME NEW from, NEW to, NEW s, PutStatus(t, from, to, s),
             to \notin {"idle", "lock", "trylock", "relget"}
      PROVE  /\ req'[t].who = req[t].who /\ req'[t].op = req[t].op
             /\ req'[t].pc \notin {"idle", "lock", "trylock", "relget"}
             /\ granted' = granted
  BY <1>2 DEF PutStatus
<1>3. ASSUME NEW from, NEW to, NEW m, Log(t, from, to, m),
             to \notin {"idle", "lock", "trylock", "relget"}
      PROVE  /\ req'[t].who = req[t].who /\ req'[t].op = req[t].op
             /\ req'[t].pc \notin {"idle", "lock", "trylock", "relget"}
             /\ granted' = granted
  BY <1>3 DEF Log
<1>4. ASSUME EnsureFail(t) \/ RemovalStep(t) \/ Abort(t)
      PROVE  /\ req'[t].who = req[t].who /\ req'[t].op = req[t].op
             /\ req'[t].pc \notin {"idle", "lock", "trylock", "relget"}
             /\ granted' = granted
  BY <1>4 DEF EnsureFail, RemovalStep, ReleaseGet, GCGet, Remove, Removed,
     PutReleased, GCDrop, Abort
<1>5. ASSUME Unlock(t) PROVE req'[t] = Idle /\ granted' = granted
  BY <1>5 DEF Unlock, Return
<1>6. ASSUME Grant(t)
      PROVE  req'[t] = Idle /\ granted' = AcquireLease(granted, req[t].who)
  BY <1>6 DEF Grant, Return
<1>7. CASE EnsureTouch(t) \/ EnsureResolve(t) \/ EnsureFetch(t)
             \/ EnsureVerifying(t) \/ EnsurePublishing(t) \/ EnsurePutReady(t)
  BY <1>7, <1>2 DEF EnsureTouch, EnsureResolve, EnsureFetch, EnsureVerifying,
     EnsurePublishing, EnsurePutReady
<1>8. CASE EnsureBegin(t) \/ EnsureVerified(t) \/ EnsureMetadata(t)
             \/ EnsureReady(t) \/ EnsureCommit(t)
  BY <1>8, <1>3 DEF EnsureBegin, EnsureVerified, EnsureMetadata, EnsureReady,
     EnsureCommit
<1> QED BY <1>1, <1>4, <1>5, <1>6, <1>7, <1>8 DEF HandlerStep, EnsureStep

(* Requests are served by processes that finished Recover.                 *)
LEMMA ServedStep == TypeOK /\ ServedWhenUp /\ [Next]_vars => ServedWhenUp'
<1> SUFFICES ASSUME TypeOK, ServedWhenUp, [Next]_vars, NEW u \in Threads,
                    req'[u].pc # "idle"
             PROVE  proc'[ProcOf[u]].pc = "up"
  BY DEF ServedWhenUp
<1>0. ProcOf[u] \in Procs /\ (req[u].pc # "idle" => proc[ProcOf[u]].pc = "up")
  BY LifecycleAssumption DEF ServedWhenUp
<1>1. CASE UNCHANGED vars
  BY <1>1, <1>0 DEF vars
<1>2. ASSUME NEW t \in Threads, RequestStep(t) PROVE proc'[ProcOf[u]].pc = "up"
  <2>1. proc' = proc /\ (u # t => req'[u] = req[u])
    BY <1>2, RequestFrame
  <2>2. req[t].pc = "idle" => proc[ProcOf[t]].pc = "up"
    BY <1>2 DEF RequestStep, StartEnsure, StartRelease, StartGC, Arrive,
       Acquire, GiveUp, At
  <2> QED BY <2>1, <2>2, <1>0
<1>3. ASSUME NEW t \in Threads, HandlerStep(t) PROVE proc'[ProcOf[u]].pc = "up"
  BY <1>3, <1>0, HandlerFrame DEF ServedWhenUp, Critical
<1>4. ASSUME NEW p \in Procs, RecoverStep(p) \/ BootStart(p)
      PROVE  proc'[ProcOf[u]].pc = "up"
  BY <1>4, <1>0, BootFrame
<1>5. ASSUME NEW p \in Procs, Crash(p) PROVE proc'[ProcOf[u]].pc = "up"
  BY <1>5, <1>0 DEF Crash, Idle, TypeOK
<1> QED BY <1>1, <1>2, <1>3, <1>4, <1>5 DEF Next

(* When the one process is not up, every thread is idle.                   *)
LEMMA NobodyServed ==
  ASSUME OneProcessOnly, ServedWhenUp, NEW p \in Procs, proc[p].pc # "up",
         NEW u \in Threads
  PROVE  req[u].pc = "idle"
BY LifecycleAssumption DEF OneProcessOnly, ServedWhenUp

(* A holder has one request in flight.                                     *)
LEMMA HolderStep ==
  TypeOK /\ OneRequestPerHolder /\ [Next]_vars => OneRequestPerHolder'
<1> SUFFICES ASSUME TypeOK, OneRequestPerHolder, [Next]_vars
             PROVE  OneRequestPerHolder'
  OBVIOUS
<1>1. CASE UNCHANGED vars
  BY <1>1 DEF vars, OneRequestPerHolder
<1>2. ASSUME NEW t \in Threads,
             \A u \in Threads \ {t} : req'[u] = req[u],
             \/ req'[t].who \in {req[t].who, NoHolder}
             \/ \A u \in Threads : req'[t].who # req[u].who
      PROVE  OneRequestPerHolder'
  BY <1>2 DEF OneRequestPerHolder
<1>3. ASSUME NEW t \in Threads, RequestStep(t) PROVE OneRequestPerHolder'
  <2>1. \/ req'[t].who \in {req[t].who, NoHolder}
        \/ \A u \in Threads : req'[t].who # req[u].who
    <3> USE DEF TypeOK, Handlers, Arrive, Sequential, Idle
    <3>1. ASSUME NEW h \in Holders \cup {NoHolder}, StartEnsure(t, h)
          PROVE  \/ req'[t].who = NoHolder
                 \/ \A u \in Threads : req'[t].who # req[u].who
      BY <3>1 DEF StartEnsure
    <3>2. ASSUME NEW h \in Holders, NEW o \in {"release", "cleanup"},
                 StartRelease(t, h, o)
          PROVE  \A u \in Threads : req'[t].who # req[u].who
      BY <3>2 DEF StartRelease
    <3>3. CASE StartGC(t)
      BY <3>3 DEF StartGC
    <3>4. CASE Acquire(t)
      BY <3>4 DEF Acquire, Goto
    <3>5. CASE GiveUp(t)
      BY <3>5 DEF GiveUp, Return
    <3> QED BY <1>3, <3>1, <3>2, <3>3, <3>4, <3>5 DEF RequestStep
  <2> QED BY <1>2, <1>3, <2>1, RequestFrame
<1>4. ASSUME NEW t \in Threads, HandlerStep(t) PROVE OneRequestPerHolder'
  <2>1. req'[t].who \in {req[t].who, NoHolder}
    BY <1>4, HandlerRequest DEF Idle
  <2> QED BY <1>2, <1>4, <2>1, HandlerFrame
<1>5. ASSUME NEW p \in Procs, RecoverStep(p) \/ BootStart(p)
      PROVE  OneRequestPerHolder'
  BY <1>5, BootFrame DEF OneRequestPerHolder
<1>6. ASSUME NEW p \in Procs, Crash(p) PROVE OneRequestPerHolder'
  BY <1>6 DEF Crash, Idle, TypeOK, OneRequestPerHolder
<1> QED BY <1>1, <1>3, <1>4, <1>5, <1>6 DEF Next

(* A holder that is releasing does not count as granted.                   *)
LEMMA ReleasingStep ==
  TypeOK /\ OneRequestPerHolder /\ ReleasingIsUngranted /\ [Next]_vars
    => ReleasingIsUngranted'
<1> SUFFICES ASSUME TypeOK, OneRequestPerHolder, ReleasingIsUngranted,
                    [Next]_vars, NEW u \in Threads
             PROVE  /\ req'[u].op \in {"release", "cleanup"}
                         => req'[u].who \notin granted'
                    /\ req'[u].pc \in {"lock", "trylock"} => req'[u].op # "none"
                    /\ req'[u].pc = "relget"
                         => req'[u].op \in {"release", "cleanup"}
  BY DEF ReleasingIsUngranted
<1> DEFINE Ungranted == req[u].op \in {"release", "cleanup"}
                          => req[u].who \notin granted
           HasOp == req[u].pc \in {"lock", "trylock"} => req[u].op # "none"
           Releases == req[u].pc = "relget" => req[u].op \in {"release", "cleanup"}
           Goal == Ungranted /\ HasOp /\ Releases
<1> SUFFICES Goal'
  OBVIOUS
<1>0. Goal
  BY DEF ReleasingIsUngranted
<1>i. /\ Idle.pc = "idle" /\ Idle.op = "none" /\ Idle.who = NoHolder
      /\ NoHolder \notin granted
  BY LifecycleAssumption DEF Idle, TypeOK
<1>1. CASE UNCHANGED vars
  BY <1>1, <1>0 DEF vars
<1>2. ASSUME NEW t \in Threads, RequestStep(t) PROVE Goal'
  <2>1. CASE u # t
    BY <1>2, <2>1, <1>0, RequestFrame
  <2>2. CASE u = t
    <3> USE <2>2 DEF TypeOK, Handlers, Arrive, Idle
    <3>1. ASSUME NEW h \in Holders \cup {NoHolder}, StartEnsure(t, h) PROVE Goal'
      BY <3>1 DEF StartEnsure
    <3>2. ASSUME NEW h \in Holders, NEW o \in {"release", "cleanup"},
                 StartRelease(t, h, o)
          PROVE  Goal'
      BY <3>2 DEF StartRelease
    <3>3. CASE StartGC(t)
      BY <3>3 DEF StartGC
    <3>4. CASE Acquire(t)
      BY <3>4, <1>0 DEF Acquire, Goto, At, Ops
    <3>5. CASE GiveUp(t)
      BY <3>5 DEF GiveUp, Return
    <3> QED BY <1>2, <3>1, <3>2, <3>3, <3>4, <3>5 DEF RequestStep
  <2> QED BY <2>1, <2>2
<1>3. ASSUME NEW t \in Threads, HandlerStep(t) PROVE Goal'
  <2>1. CASE u # t
    <3>1. req'[u] = req[u]
      BY <1>3, <2>1, HandlerFrame
    <3>2. req[u].who = req[t].who => req[u].who = NoHolder
      BY <2>1 DEF OneRequestPerHolder
    <3>3. req[u].who \in granted' => req[u].who \in granted
      BY <1>3, <1>i, <3>2, HandlerRequest DEF AcquireLease
    <3> QED BY <3>1, <3>3, <1>0
  <2>2. CASE u = t
    BY <2>2, <1>3, <1>0, <1>i, HandlerRequest
  <2> QED BY <2>1, <2>2
<1>4. ASSUME NEW p \in Procs, RecoverStep(p) \/ BootStart(p) PROVE Goal'
  BY <1>4, <1>0, BootFrame
<1>5. ASSUME NEW p \in Procs, Crash(p) PROVE Goal'
  BY <1>5, <1>0, <1>i DEF Crash, TypeOK
<1> QED BY <1>1, <1>2, <1>3, <1>4, <1>5 DEF Next

(* Recover's listing of the record stays true while nobody else runs.      *)
LEMMA SnapStep ==
  ASSUME OneProcessOnly
  PROVE  TypeOK /\ ServedWhenUp /\ SnapIsCurrent /\ [Next]_vars => SnapIsCurrent'
<1> SUFFICES ASSUME TypeOK, ServedWhenUp, SnapIsCurrent, [Next]_vars,
                    NEW q \in Procs, proc'[q].pc \notin {"down", "list", "up"}
             PROVE  /\ proc'[q].snap.leases = rec'.leases
                    /\ proc'[q].snap.path = rec'.path
  BY DEF SnapIsCurrent
<1> DEFINE Current == proc[q].snap.leases = rec.leases
                        /\ proc[q].snap.path = rec.path
<1> SUFFICES Current'
  OBVIOUS
<1>0. proc[q].pc \notin {"down", "list", "up"} => Current
  BY DEF SnapIsCurrent
<1>1. CASE UNCHANGED vars
  BY <1>1, <1>0 DEF vars
<1>2. ASSUME NEW t \in Threads, RequestStep(t) PROVE Current'
  BY <1>2, <1>0, RequestFrame
<1>3. ASSUME NEW t \in Threads, HandlerStep(t) PROVE Current'
  <2>1. req[t].pc # "idle" /\ proc' = proc
    BY <1>3, HandlerFrame DEF Critical
  <2>2. proc[q].pc = "up"
    BY <2>1, NobodyServed
  <2> QED BY <2>1, <2>2
<1>4. ASSUME NEW p \in Procs, RecoverStep(p) \/ BootStart(p) PROVE Current'
  <2>1. p = q
    BY DEF OneProcessOnly
  <2> USE <2>1 DEF TypeOK, Boots, Records, BootAt, BootGoto, BootDone, store
  <2>2. CASE BootStart(p)
    BY <2>2, <1>0 DEF BootStart
  <2>3. CASE BootList(p)
    BY <2>3, <1>0 DEF BootList, Up, Down
  <2>4. CASE BootMarkers(p)
    BY <2>4, <1>0 DEF BootMarkers
  <2>5. CASE BootDecide(p)
    BY <2>5, <1>0 DEF BootDecide
  <2>6. CASE BootPut(p)
    BY <2>6, <1>0 DEF BootPut
  <2>7. CASE BootMark(p)
    BY <2>7, <1>0 DEF BootMark
  <2>8. CASE BootClose(p) \/ BootPutOnly(p)
    BY <2>8 DEF BootClose, BootPutOnly, Up, Down
  <2>9. CASE BootCheck(p)
    BY <2>9, <1>0 DEF BootCheck, Up, Down
  <2> QED BY <1>4, <2>2, <2>3, <2>4, <2>5, <2>6, <2>7, <2>8, <2>9 DEF RecoverStep
<1>5. ASSUME NEW p \in Procs, Crash(p) PROVE Current'
  BY <1>5 DEF Crash, TypeOK, Down, OneProcessOnly
<1> QED BY <1>1, <1>2, <1>3, <1>4, <1>5 DEF Next

(* Nothing but a handler or Recover changes the record.                    *)
LEMMA RecKeepsPathAndLeases ==
  ASSUME TypeOK, SnapIsCurrent, NEW p \in Procs, RecoverStep(p) \/ BootStart(p)
  PROVE  rec'.leases = rec.leases /\ rec'.path = rec.path
<1>1. CASE BootPut(p) \/ BootPutOnly(p)
  BY <1>1 DEF BootPut, BootPutOnly, BootAt, SnapIsCurrent
<1>2. CASE ~(BootPut(p) \/ BootPutOnly(p))
  BY <1>2 DEF RecoverStep, BootStart, BootList, BootMarkers, BootDecide,
     BootMark, BootClose, BootCheck, store
<1> QED BY <1>1, <1>2

-----------------------------------------------------------------------------
(* EnsureKeepsLeases and RemovalIsUnleased for one thread.                 *)
Writing == {"touch", "resolve", "begin", "fetch", "download", "verified",
            "verifying", "publishing", "metadata", "ready", "publish",
            "commit", "putready"}
CopyKeeps(t) ==
  req[t].pc \in Writing =>
    req[t].copy.path /\ Keeps(req[t].copy, AcquireLease(granted, req[t].who))
RecKeeps(t) ==
  req[t].pc \in {"clean", "grant"} =>
    rec.path /\ Keeps(rec, AcquireLease(granted, req[t].who))
Unleased(t) ==
  /\ req[t].pc \in {"remove", "removing"} =>
       granted = {} /\ ReleaseLease(rec.leases, req[t].who) = {}
  /\ req[t].pc = "removing" => disk \in {"unmarked", "gutted"}
  /\ req[t].pc = "put" => Keeps(req[t].copy, granted)
Careful(t) == CopyKeeps(t) /\ RecKeeps(t) /\ Unleased(t)

(* The per-thread form is the invariant.                                   *)
LEMMA CarefulThreads ==
  EnsureKeepsLeases /\ RemovalIsUnleased <=> \A t \in Threads : Careful(t)
BY DEF EnsureKeepsLeases, RemovalIsUnleased, Careful, CopyKeeps, RecKeeps,
   Unleased, Writing

(* A record that keeps some holders keeps fewer, whatever its status.      *)
LEMMA KeepsFewer ==
  ASSUME NEW r \in Records, NEW few, NEW many, few \subseteq many, Keeps(r, many)
  PROVE  Keeps(r, few)
BY DEF Keeps

LEMMA KeepsStatus ==
  ASSUME NEW r \in Records, NEW s \in States, NEW holders, Keeps(r, holders)
  PROVE  Keeps([r EXCEPT !.status = s], holders)
BY DEF Keeps, Records

(* The handler that holds the lock stays careful in every step.            *)
LEMMA CarefulHandler ==
  ASSUME TypeOK, PlacedWhole, ReleasingIsUngranted, GrantedModelStays,
         NEW t \in Threads, Careful(t), HandlerStep(t)
  PROVE  Careful(t)'
<1> USE DEF TypeOK, Goto, At, Handlers, Records, Careful, CopyKeeps, RecKeeps,
            Unleased, Writing
<1>0. /\ req[t].copy \in Records /\ rec \in Records
      /\ granted \subseteq rec.leases /\ (granted # {} => rec.path)
  BY DEF GrantedModelStays
<1>1. CASE EnsureGet(t)
  <2> DEFINE l == AcquireLease(rec.leases, req[t].who)
  <2>1. AcquireLease(granted, req[t].who) \subseteq l
    BY <1>0 DEF AcquireLease
  <2>2. CASE req' = [req EXCEPT ![t].pc = "touch",
                                ![t].copy = [rec EXCEPT !.leases = l]]
             /\ FullVerify(rec.path, disk)
    <3>1. req'[t].pc = "touch" /\ req'[t].who = req[t].who
          /\ req'[t].copy = [rec EXCEPT !.leases = l]
      BY <2>2
    <3>2. req'[t].copy.leases = l /\ req'[t].copy.path /\ granted' = granted
      BY <3>1, <2>2, <1>1, <1>0 DEF EnsureGet, FullVerify
    <3> QED BY <3>1, <3>2, <2>1 DEF Keeps
  <2>3. CASE req' = [req EXCEPT ![t].pc = "resolve",
                                ![t].copy = [status |-> "RESOLVING",
                                             path   |-> TRUE,
                                             leases |-> l]]
    <3>1. /\ req'[t].pc = "resolve" /\ req'[t].who = req[t].who
          /\ req'[t].copy.path /\ req'[t].copy.leases = l
          /\ granted' = granted
      BY <2>3, <1>1 DEF EnsureGet
    <3> QED BY <3>1, <2>1 DEF Keeps
  <2> QED BY <1>1, <2>2, <2>3 DEF EnsureGet
<1>2. ASSUME NEW from \in Writing, NEW to \in Writing \cup {"clean", "grant"},
             NEW s \in States, PutStatus(t, from, to, s)
      PROVE  Careful(t)'
  <2>1. /\ req'[t].pc = to /\ req'[t].who = req[t].who /\ granted' = granted
        /\ req'[t].copy = [req[t].copy EXCEPT !.status = s]
        /\ rec' = [req[t].copy EXCEPT !.status = s]
    BY <1>2 DEF PutStatus
  <2>2. /\ req[t].copy.path
        /\ Keeps(req[t].copy, AcquireLease(granted, req[t].who))
    BY <1>2 DEF PutStatus
  <2>3. [req[t].copy EXCEPT !.status = s].path
    BY <2>2, <1>0
  <2> QED BY <2>1, <2>2, <2>3, <1>0, <1>2, KeepsStatus
<1>3. ASSUME NEW from \in Writing, NEW to \in Writing, NEW m, Log(t, from, to, m)
      PROVE  Careful(t)'
  BY <1>3 DEF Log
<1>4. CASE EnsureDownload(t)
  <2>1. PICK d : req' = [req EXCEPT ![t].pc = "verified", ![t].stage = d]
    BY <1>4 DEF EnsureDownload
  <2> QED BY <1>4, <2>1 DEF EnsureDownload
<1>5. CASE EnsurePublish(t)
  BY <1>5 DEF EnsurePublish
<1>6. CASE EnsureClean(t)
  BY <1>6 DEF EnsureClean
<1>7. CASE Grant(t) \/ Unlock(t)
  BY <1>7 DEF Grant, Unlock, Return, Idle
<1>8. CASE EnsureFail(t) \/ Abort(t)
  BY <1>8 DEF EnsureFail, Abort
<1>9. CASE ReleaseGet(t)
  <2> DEFINE left == ReleaseLease(rec.leases, req[t].who)
  <2>1. granted \subseteq left /\ granted' = granted /\ rec' = rec
    BY <1>9, <1>0 DEF ReleaseGet, ReleasingIsUngranted, ReleaseLease, store
  <2>2. CASE Goto(t, "unlock")
    BY <2>2
  <2>3. CASE /\ left = {}
             /\ req' = [req EXCEPT ![t].copy = Released,
                          ![t].pc = IF rec.path /\ disk # "absent"
                                    THEN "remove" ELSE "put"]
    <3>1. /\ req'[t].pc \in {"remove", "put"} /\ req'[t].who = req[t].who
      BY <2>3
    <3>2. granted = {}
      BY <2>1, <2>3
    <3> QED BY <3>1, <3>2, <2>1, <2>3 DEF Keeps
  <2>4. CASE req' = [req EXCEPT ![t].copy = ReleasedTo(rec, left),
                                ![t].pc = "put"]
    <3>1. req'[t].pc = "put" /\ req'[t].copy = ReleasedTo(rec, left)
      BY <2>4
    <3>2. Keeps(ReleasedTo(rec, left), granted)
      BY <2>1, <1>0 DEF Keeps, ReleasedTo
    <3> QED BY <3>1, <3>2, <2>1
  <2> QED BY <1>9, <2>2, <2>3, <2>4 DEF ReleaseGet
<1>10. CASE GCGet(t)
  <2>1. CASE Goto(t, "unlock")
    BY <2>1
  <2>2. CASE /\ GCable(rec, disk)
             /\ req' = [req EXCEPT ![t].copy = Released,
                          ![t].pc = IF disk = "absent" THEN "put" ELSE "remove"]
    <3>1. rec.leases = {} /\ granted = {} /\ granted' = granted /\ rec' = rec
      BY <2>2, <1>10, <1>0 DEF GCable, GCGet, store
    <3>2. req'[t].pc \in {"remove", "put"}
      BY <2>2
    <3> QED BY <3>1, <3>2 DEF Keeps, ReleaseLease
  <2> QED BY <1>10, <2>1, <2>2 DEF GCGet
<1>11. CASE Remove(t)
  BY <1>11 DEF Remove
<1>12. CASE Removed(t)
  BY <1>12 DEF Removed, Keeps
<1>13. CASE PutReleased(t) \/ GCDrop(t)
  BY <1>13 DEF PutReleased, GCDrop
<1>14. CASE EnsureTouch(t) \/ EnsureResolve(t) \/ EnsureFetch(t)
              \/ EnsureVerifying(t) \/ EnsurePublishing(t) \/ EnsurePutReady(t)
  BY <1>14, <1>2 DEF EnsureTouch, EnsureResolve, EnsureFetch, EnsureVerifying,
     EnsurePublishing, EnsurePutReady, States, Transient
<1>15. CASE EnsureBegin(t) \/ EnsureVerified(t) \/ EnsureMetadata(t)
              \/ EnsureReady(t) \/ EnsureCommit(t)
  BY <1>15, <1>3 DEF EnsureBegin, EnsureVerified, EnsureMetadata, EnsureReady,
     EnsureCommit
<1> QED BY <1>1, <1>4, <1>5, <1>6, <1>7, <1>8, <1>9, <1>10, <1>11, <1>12,
           <1>13, <1>14, <1>15 DEF HandlerStep, EnsureStep, RemovalStep

(* So does every other thread, whoever takes the step.                     *)
LEMMA CarefulStep ==
  ASSUME OneProcessOnly, TypeOK, ServeInv, LeaseInv, [Next]_vars,
         NEW u \in Threads
  PROVE  Careful(u)'
<1>0. /\ Careful(u) /\ Locked /\ PlacedWhole /\ ReleasingIsUngranted
      /\ ServedWhenUp /\ SnapIsCurrent /\ GrantedModelStays
  BY CarefulThreads DEF LeaseInv, ServeInv
<1>a. (req[u].pc \in Writing \cup {"clean", "grant", "remove", "removing", "put"})
        => req[u].pc \in Critical
  BY DEF Writing, Critical
<1>1. CASE UNCHANGED vars
  BY <1>1, <1>0 DEF vars, Careful, CopyKeeps, RecKeeps, Unleased
<1>2. ASSUME req'[u].pc \notin
               Writing \cup {"clean", "grant", "remove", "removing", "put"}
      PROVE  Careful(u)'
  BY <1>2 DEF Careful, CopyKeeps, RecKeeps, Unleased
<1>3. ASSUME NEW t \in Threads, RequestStep(t) PROVE Careful(u)'
  <2>1. CASE u # t
    <3>1. /\ UNCHANGED <<rec, disk>> /\ req'[u] = req[u]
          /\ granted' \subseteq granted
          /\ AcquireLease(granted', req[u].who)
               \subseteq AcquireLease(granted, req[u].who)
      BY <1>3, <2>1, RequestFrame DEF AcquireLease
    <3>2. CopyKeeps(u)'
      BY <1>0, <3>1 DEF Careful, CopyKeeps, Keeps
    <3>3. RecKeeps(u)'
      BY <1>0, <3>1 DEF Careful, RecKeeps, Keeps
    <3>4. Unleased(u)'
      BY <1>0, <3>1 DEF Careful, Unleased, Keeps
    <3> QED BY <3>2, <3>3, <3>4 DEF Careful
  <2>2. CASE u = t
    BY <1>2, <1>3, <2>2, RequestFrame DEF Writing
  <2> QED BY <2>1, <2>2
<1>4. ASSUME NEW t \in Threads, HandlerStep(t) PROVE Careful(u)'
  <2>1. CASE u # t
    BY <1>0, <1>2, <1>4, <1>a, <2>1, HandlerFrame DEF Locked
  <2>2. CASE u = t
    BY <1>0, <1>4, <2>2, CarefulHandler
  <2> QED BY <2>1, <2>2
<1>5. ASSUME NEW p \in Procs, RecoverStep(p) \/ BootStart(p) PROVE Careful(u)'
  <2>1. proc[p].pc # "up" /\ req' = req
    BY <1>5, BootFrame
  <2>2. req'[u].pc = "idle"
    BY <1>0, <2>1, NobodyServed
  <2> QED BY <1>2, <2>2 DEF Writing
<1>6. ASSUME NEW p \in Procs, Crash(p) PROVE Careful(u)'
  <2>1. req'[u].pc = "idle"
    BY <1>6, LifecycleAssumption DEF Crash, Idle, OneProcessOnly
  <2> QED BY <1>2, <2>1 DEF Writing
<1> QED BY <1>1, <1>3, <1>4, <1>5, <1>6 DEF Next

(* What the lock holder does to the record keeps the granted leases.       *)
LEMMA GrantedHandler ==
  ASSUME TypeOK, PlacedWhole, GrantedModelStays, NEW t \in Threads, Careful(t),
         HandlerStep(t)
  PROVE  GrantedModelStays'
<1> USE DEF TypeOK, At, Handlers, Records, GrantedModelStays
<1>1. ASSUME NEW from \in Writing, NEW to, NEW s \in States,
             PutStatus(t, from, to, s)
      PROVE  GrantedModelStays'
  <2>1. /\ Keeps(req[t].copy, AcquireLease(granted, req[t].who))
        /\ req[t].copy \in Records
    BY <1>1 DEF PutStatus, Careful, CopyKeeps
  <2>2. /\ rec' = [req[t].copy EXCEPT !.status = s]
        /\ UNCHANGED <<disk, granted>>
    BY <1>1 DEF PutStatus
  <2>3. Keeps(rec', AcquireLease(granted, req[t].who))
    BY <2>1, <2>2, KeepsStatus
  <2> QED BY <2>2, <2>3 DEF Keeps, AcquireLease
<1>2. CASE EnsureTouch(t) \/ EnsureResolve(t) \/ EnsureFetch(t)
             \/ EnsureVerifying(t) \/ EnsurePublishing(t) \/ EnsurePutReady(t)
  BY <1>1, <1>2 DEF EnsureTouch, EnsureResolve, EnsureFetch, EnsureVerifying,
     EnsurePublishing, EnsurePutReady, Writing, States, Transient
<1>3. CASE EnsureFail(t)
  <2>1. req[t].pc \in Writing
    BY <1>3 DEF EnsureFail, MayFail, Writing
  <2>2. /\ Keeps(req[t].copy, AcquireLease(granted, req[t].who))
        /\ req[t].copy \in Records
    BY <2>1 DEF Careful, CopyKeeps
  <2>3. /\ rec' = [req[t].copy EXCEPT !.status = "FAILED"] /\ granted' = granted
        /\ disk' = disk \/ disk = "absent"
    BY <1>3 DEF EnsureFail
  <2>4. Keeps(rec', AcquireLease(granted, req[t].who))
    BY <2>2, <2>3, KeepsStatus DEF States
  <2> QED BY <2>3, <2>4 DEF Keeps, AcquireLease
<1>4. CASE PutReleased(t)
  <2>1. rec' = req[t].copy /\ Keeps(rec', granted) /\ UNCHANGED <<disk, granted>>
    BY <1>4 DEF PutReleased, Careful, Unleased
  <2> QED BY <2>1 DEF Keeps
<1>5. CASE Grant(t)
  <2>1. /\ rec' = rec /\ disk' = disk /\ disk = "whole"
        /\ granted' = AcquireLease(granted, req[t].who)
        /\ Keeps(rec, AcquireLease(granted, req[t].who))
    BY <1>5 DEF Grant, store, PlacedWhole, Careful, RecKeeps
  <2> QED BY <2>1 DEF Keeps
<1>6. CASE Remove(t) \/ Removed(t)
  BY <1>6 DEF Remove, Removed, Careful, Unleased
<1>7. CASE EnsurePublish(t)
  BY <1>7 DEF EnsurePublish
<1>8. CASE EnsureGet(t) \/ Abort(t) \/ Unlock(t) \/ ReleaseGet(t) \/ GCGet(t)
  BY <1>8 DEF EnsureGet, Abort, Unlock, ReleaseGet, GCGet, store
<1>9. CASE EnsureBegin(t) \/ EnsureVerified(t) \/ EnsureMetadata(t)
             \/ EnsureReady(t) \/ EnsureCommit(t) \/ EnsureDownload(t)
             \/ EnsureClean(t) \/ GCDrop(t)
  BY <1>9 DEF EnsureBegin, EnsureVerified, EnsureMetadata, EnsureReady,
     EnsureCommit, EnsureDownload, EnsureClean, GCDrop, Log
<1> QED BY <1>2, <1>3, <1>4, <1>5, <1>6, <1>7, <1>8, <1>9
        DEF HandlerStep, EnsureStep, RemovalStep

(* Every step of a single process keeps LeaseInv.                          *)
LEMMA LeaseStep ==
  ASSUME OneProcessOnly
  PROVE  TypeOK /\ ServeInv /\ LeaseInv /\ [Next]_vars => LeaseInv'
<1> SUFFICES ASSUME TypeOK, ServeInv, LeaseInv, [Next]_vars PROVE LeaseInv'
  OBVIOUS
<1>1. ServedWhenUp' /\ SnapIsCurrent' /\ OneRequestPerHolder'
        /\ ReleasingIsUngranted'
  BY ServedStep, SnapStep, HolderStep, ReleasingStep DEF LeaseInv
<1>2. EnsureKeepsLeases' /\ RemovalIsUnleased'
  <2>1. \A u \in Threads : Careful(u)'
    BY CarefulStep
  <2> QED BY <2>1, CarefulThreads DEF EnsureKeepsLeases, RemovalIsUnleased,
             Careful, CopyKeeps, RecKeeps, Unleased, Writing
<1>3. GrantedModelStays'
  <2>0. GrantedModelStays /\ PlacedWhole /\ SnapIsCurrent
        /\ \A t \in Threads : Careful(t)
    BY CarefulThreads DEF LeaseInv, ServeInv
  <2>1. CASE UNCHANGED vars
    BY <2>0, <2>1 DEF vars, GrantedModelStays
  <2>2. ASSUME NEW t \in Threads, RequestStep(t) PROVE GrantedModelStays'
    BY <2>0, <2>2, RequestFrame DEF GrantedModelStays
  <2>3. ASSUME NEW t \in Threads, HandlerStep(t) PROVE GrantedModelStays'
    BY <2>0, <2>3, GrantedHandler
  <2>4. ASSUME NEW p \in Procs, RecoverStep(p) \/ BootStart(p)
        PROVE  GrantedModelStays'
    BY <2>0, <2>4, BootFrame, RecKeepsPathAndLeases DEF GrantedModelStays
  <2>5. ASSUME NEW p \in Procs, Crash(p) PROVE GrantedModelStays'
    BY <2>0, <2>5 DEF Crash, store, GrantedModelStays
  <2> QED BY <2>1, <2>2, <2>3, <2>4, <2>5 DEF Next
<1> QED BY <1>1, <1>2, <1>3 DEF LeaseInv

(* The invariant holds of a cache root that one process owns.              *)
THEOREM LeaseInvHolds ==
  ASSUME OneProcessOnly, ~LosesBlobs
  PROVE  Spec => [](TypeOK /\ ServeInv /\ LeaseInv)
<1>1. Init => TypeOK
  BY InitTypes
<1>2. Init => ServeInv
  BY DEF Init, ServeInv, Locked, StagedWhole, PlacedWhole, Idle, Critical
<1>3. Init => LeaseInv
  BY DEF Init, LeaseInv, ServedWhenUp, SnapIsCurrent, OneRequestPerHolder,
     ReleasingIsUngranted, EnsureKeepsLeases, RemovalIsUnleased,
     GrantedModelStays, Idle, Down
<1>4. TypeOK /\ ServeInv /\ LeaseInv /\ [Next]_vars
        => (TypeOK /\ ServeInv /\ LeaseInv)'
  BY TypeStep, ServeStep, LeaseStep
<1> QED BY <1>1, <1>2, <1>3, <1>4, PTL DEF Spec

(* A model that a client was granted keeps its lease, its path and its     *)
(* directory until that client releases it, in a cache root that one       *)
(* process owns, with crashes, I/O errors and stray releases.              *)
THEOREM GrantedModelsStay ==
  ASSUME OneProcessOnly, ~LosesBlobs
  PROVE  Spec => []GrantedModelStays
<1>1. LeaseInv => GrantedModelStays
  BY DEF LeaseInv
<1> QED BY <1>1, LeaseInvHolds, PTL

(* A deletion spares a directory that anybody but the releasing holder     *)
(* leases, in a cache root that one process owns.                          *)
THEOREM DeletionsSpareLeases ==
  ASSUME OneProcessOnly, ~LosesBlobs
  PROVE  Spec => DeletionSparesLeases
<1> DEFINE Spares == disk \in {"whole", "rotten"} /\ disk' # disk =>
                       /\ lock \in Threads
                       /\ ReleaseLease(rec.leases, req[lock].who) = {}
<1>1. ASSUME TypeOK, ServeInv, LeaseInv, [Next]_vars PROVE [Spares]_vars
  <2> SUFFICES ASSUME disk \in {"whole", "rotten"}, disk' # disk
               PROVE  /\ lock \in Threads
                      /\ ReleaseLease(rec.leases, req[lock].who) = {}
    OBVIOUS
  <2>1. PICK t \in Threads : HandlerStep(t)
    BY <1>1, RequestFrame, BootFrame DEF Next, vars, Crash, store
  <2>2. Remove(t) \/ Removed(t)
    BY <1>1, <2>1, DiskFrame
  <2>3. lock = t
    BY <1>1, <2>1, HandlerFrame DEF ServeInv, Locked
  <2>4. ReleaseLease(rec.leases, req[t].who) = {}
    BY <1>1, <2>2 DEF LeaseInv, RemovalIsUnleased, Remove, Removed, At
  <2> QED BY <2>3, <2>4
<1> QED BY <1>1, LeaseInvHolds, PTL DEF Spec, DeletionSparesLeases

=============================================================================
