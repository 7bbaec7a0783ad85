------------------------ MODULE ModelRecoveryProofs ------------------------
(***************************************************************************)
(* What Recover finds and leaves, for every set of threads and holders:    *)
(* theorems about ModelLifecycle when one process has the cache root to    *)
(* itself, the download delivers every blob and clients release what they  *)
(* were granted.  Where a theorem says so, no file-system operation fails. *)
(***************************************************************************)
EXTENDS ModelLifecycleProofs

(* What the holder of the flock is doing, and the record it will store.    *)
Doing == IF lock \in Threads THEN req[lock].pc ELSE "idle"
Copy  == IF lock \in Threads THEN req[lock].copy ELSE NoRecord

(* Who relies on the record: the granted, and those whose Release has not  *)
(* read it yet.                                                            *)
Releasing(t) ==
  /\ req[t].op \in {"release", "cleanup"}
  /\ req[t].pc \in {"lock", "trylock", "relget"}
Users == granted \cup {req[t].who : t \in {u \in Threads : Releasing(u)}}

Publishing == {"metadata", "ready", "publish", "commit", "putready"}
Pending == {"begin", "fetch", "download", "verified", "verifying", "publishing"}
             \cup Publishing

(* No journal is left that Recover would complete or fail.                 *)
Closed == journal = {} \/ "COMMITTED" \in journal

(* A record that somebody relies on is READY, whole and has no open        *)
(* journal.                                                                *)
UsersAreServed ==
  Users # {} => /\ Users \subseteq rec.leases
                /\ rec.path /\ disk = "whole"
                /\ rec.status = "READY" /\ Closed

(* Ensure's record and journal at each of its places.                      *)
EnsurePlaces ==
  /\ Doing \in {"resolve"} \cup Pending => Users = {}
  /\ Doing \in Pending => rec.status \in Transient
  /\ Doing \in Publishing => rec.status = "PUBLISHING"
  /\ Doing \in Pending \ {"begin"} => journal # {}
  /\ Doing \in {"touch", "grant"} => Closed
  /\ Doing \in {"putready", "clean"} => "COMMITTED" \in journal
  /\ Doing \in {"clean", "grant"} => rec.status = "READY"
  /\ Doing = "touch" => rec.leases \subseteq Copy.leases

(* Release's and GC's.                                                     *)
RemovalPlaces ==
  /\ Doing \in {"remove", "removing"} => Users = {} /\ Copy = Released
  /\ Doing \in {"remove", "removing", "put", "drop"} => rec.status \notin Transient
  /\ Doing = "put" =>
       /\ Copy.status \in {"READY", "RELEASED"}
       /\ Copy.status = "READY" => Copy.path /\ disk = "whole" /\ Closed
       /\ Users # {} => Copy.status = "READY" /\ Users \subseteq Copy.leases

(* Recover at each of its places.  It alone meets a READY record with an   *)
(* open journal, and it alone makes one.                                   *)
RecoverPlaces(p) ==
  LET r == proc[p].snap
  IN  /\ rec.status = "READY" /\ ~Closed =>
           proc[p].pc \in {"down", "list", "markers", "decide", "put", "mark"}
      /\ proc[p].pc \in {"markers", "decide", "check"} => r = rec
      /\ proc[p].pc = "decide" => proc[p].seen = journal
      /\ proc[p].pc = "put" => ~Closed
      /\ proc[p].pc \in {"put", "mark", "close"} =>
           /\ journal # {} /\ r.status \in {"READY", "FAILED"}
           /\ r.status = "READY" => QuickVerify(r.path, disk)
      /\ proc[p].pc \in {"mark", "close"} => r = rec
      /\ proc[p].pc = "mark" => r.status = "READY"
      /\ proc[p].pc = "putonly" => r.status = "FAILED" /\ granted = {}

(* What a record and its journal say of the directory when no file-system  *)
(* operation fails, but for what the holder of the flock, or Recover, is   *)
(* about to put right.                                                     *)
RecordAndJournal(p) ==
  /\ rec.status = "NEW" => journal = {}
  /\ Doing \in {"touch", "grant"} => journal = {}
  /\ Doing = "put" /\ Copy.status = "READY" => journal = {}
  /\ proc[p].pc \in {"check", "putonly"} => journal = {}
  /\ "COMMITTED" \in journal =>
       /\ disk \in {"whole", "rotten"}
       /\ Doing \in {"putready", "clean"} \/ proc[p].pc # "up"
  /\ rec.status = "READY" /\ ~QuickVerify(rec.path, disk) =>
       \/ Doing \in {"removing", "put"}
       \/ proc[p].pc \in {"down", "list", "markers", "decide", "check", "put",
                          "putonly"}
  /\ rec.status = "READY" /\ journal # {} =>
       Doing = "clean" \/ proc[p].pc # "up"
  /\ rec.status \in Transient /\ journal = {} =>
       rec.status = "RESOLVING" \/ (rec.status = "PUBLISHING" /\ disk = "whole")
  /\ rec.status \in Transient /\ "COMMITTED" \in journal =>
       rec.status = "PUBLISHING" /\ disk = "whole"
  /\ rec.status \in Transient /\ journal # {} =>
       \/ Doing \in Pending
       \/ proc[p].pc \in {"down", "list", "markers", "decide", "put"}

RecoveryInv(p) ==
  /\ UsersAreServed /\ EnsurePlaces /\ RemovalPlaces /\ RecoverPlaces(p)
  /\ ~IOErrors => RecordAndJournal(p)

-----------------------------------------------------------------------------
(* An empty cache, or a published model that rotted.                       *)
LEMMA RecoveryInit ==
  ASSUME NEW p \in Procs, Init
  PROVE  RecoveryInv(p)
<1>1. Doing = "idle" /\ Users = {}
  BY DEF Init, Doing, Users, Releasing, Idle
<1>2. rec.status \notin Transient /\ proc[p] = Down
        /\ (rec.status = "READY" => QuickVerify(rec.path, disk))
  BY DEF Init, NoRecord, Transient, QuickVerify
<1>3. journal = {}
  BY DEF Init
<1> QED BY <1>1, <1>2, <1>3 DEF RecoveryInv, UsersAreServed, EnsurePlaces,
        RemovalPlaces, RecordAndJournal, RecoverPlaces, Pending, Publishing, Down,
        Closed

(* When no handler is at work and nobody is new among the users, a step    *)
(* that leaves the rest alone keeps the invariant.                         *)
Quiet == {"idle", "lock", "trylock", "get", "relget", "gcget", "unlock"}

LEMMA QuietStep ==
  ASSUME NEW p \in Procs, RecoveryInv(p),
         UNCHANGED <<rec, journal, disk, proc>>,
         Users' \subseteq Users, granted' \subseteq granted,
         \/ Doing' = Doing /\ Copy' = Copy
         \/ Doing \in Quiet /\ Doing' \in Quiet
  PROVE  RecoveryInv(p)'
<1> USE DEF RecoveryInv, Quiet, Pending, Publishing, Closed
<1>1. UsersAreServed'
  BY DEF UsersAreServed
<1>2. EnsurePlaces'
  BY DEF EnsurePlaces
<1>3. RemovalPlaces'
  BY DEF RemovalPlaces
<1>4. ~IOErrors => RecordAndJournal(p)'
  BY DEF RecordAndJournal
<1>5. RecoverPlaces(p)'
  BY DEF RecoverPlaces
<1> QED BY <1>1, <1>2, <1>3, <1>4, <1>5

(* A user is a holder.                                                     *)
LEMMA UsersAreHolders ==
  ASSUME TypeOK, UsersAreServed
  PROVE  Users \subseteq Holders
BY DEF TypeOK, UsersAreServed, Records

(* Arrivals, waiting and giving up bring no users.                         *)
LEMMA RequestUsers ==
  ASSUME TypeOK, ~ReleaseUnheld, NEW t \in Threads, RequestStep(t)
  PROVE  Users' \subseteq Users
<1> USE DEF TypeOK
<1>0. /\ \A u \in Threads \ {t} : req'[u] = req[u]
      /\ granted' \subseteq granted
  BY RequestFrame
<1>1. ASSUME Releasing(t)' => req'[t].who \in Users
      PROVE  Users' \subseteq Users
  BY <1>0, <1>1 DEF Users, Releasing
<1>2. ASSUME NEW h \in Holders \cup {NoHolder}, StartEnsure(t, h)
      PROVE  ~Releasing(t)'
  BY <1>2 DEF StartEnsure, Arrive, Idle, Releasing
<1>3. ASSUME NEW h \in Holders, NEW o \in {"release", "cleanup"},
             StartRelease(t, h, o)
      PROVE  req'[t].who \in granted
  BY <1>3 DEF StartRelease, Arrive, Idle
<1>4. CASE StartGC(t)
  BY <1>1, <1>4 DEF StartGC, Arrive, Idle, Releasing
<1>5. CASE Acquire(t)
  <2>1. req'[t].op = req[t].op /\ req'[t].who = req[t].who
        /\ req[t].pc \in {"lock", "trylock"}
    BY <1>5 DEF Acquire, Goto, Handlers, At
  <2>2. Releasing(t)' => Releasing(t)
    BY <2>1 DEF Releasing
  <2> QED BY <1>1, <1>5, <2>1, <2>2 DEF Users
<1>6. CASE GiveUp(t)
  BY <1>1, <1>6 DEF GiveUp, Return, Idle, Releasing
<1> QED BY <1>1, <1>2, <1>3, <1>4, <1>5, <1>6 DEF RequestStep, Users

(* A step of a request leaves the holder of the flock where it is, or      *)
(* takes the flock, or is outside it.                                      *)
LEMMA RequestKeeps ==
  ASSUME TypeOK, ~ReleaseUnheld, NEW p \in Procs, RecoveryInv(p),
         NEW t \in Threads, RequestStep(t)
  PROVE  RecoveryInv(p)'
<1>0. /\ req[t].pc \in {"idle", "lock", "trylock"}
      /\ UNCHANGED <<rec, journal, disk, proc>>
      /\ \A u \in Threads \ {t} : req'[u] = req[u]
      /\ granted' \subseteq granted
      /\ \/ lock' = lock /\ req'[t].pc \in {"idle", "lock", "trylock"}
         \/ /\ lock = NoThread /\ lock' = t
            /\ req'[t].pc \in {"get", "relget", "gcget"}
  BY RequestFrame
<1>1. Users' \subseteq Users
  BY RequestUsers
<1>2. \/ Doing' = Doing /\ Copy' = Copy
      \/ Doing \in Quiet /\ Doing' \in Quiet
  <2>1. CASE lock' = lock /\ lock # t
    BY <1>0, <2>1 DEF Doing, Copy, TypeOK
  <2>2. CASE lock' = lock /\ lock = t
    BY <1>0, <2>2 DEF Doing, Quiet, Handlers
  <2>3. CASE lock = NoThread /\ lock' = t
    BY <1>0, <2>3, LifecycleAssumption DEF Doing, Quiet
  <2> QED BY <1>0, <2>1, <2>2, <2>3
<1> QED BY <1>0, <1>1, <1>2, QuietStep

-----------------------------------------------------------------------------
(* Recover runs while nobody is served.                                    *)
LEMMA BootUsers ==
  ASSUME NEW p, Procs = {p}, ServedWhenUp, proc[p].pc # "up"
  PROVE  Doing = "idle" /\ Users = granted
<1>1. \A u \in Threads : req[u].pc = "idle"
  BY NobodyServed DEF OneProcessOnly
<1> QED BY <1>1 DEF Doing, Users, Releasing

LEMMA BootKeeps ==
  ASSUME NEW p, Procs = {p}, TypeOK, ServedWhenUp, RecoveryInv(p),
         RecoverStep(p) \/ BootStart(p)
  PROVE  RecoveryInv(p)'
<1>0. /\ proc[p].pc # "up" /\ UNCHANGED <<disk, lock, req, granted>>
      /\ proc[p] \in Boots /\ p \in Procs
  BY BootFrame DEF TypeOK
<1>1. /\ Doing = "idle" /\ Doing' = "idle" /\ Copy' = Copy
      /\ Users = granted /\ Users' = Users
  BY <1>0, BootUsers DEF Doing, Copy, Users, Releasing
<1>2. EnsurePlaces' /\ RemovalPlaces'
  BY <1>1 DEF EnsurePlaces, RemovalPlaces, Pending, Publishing
<1>3. SUFFICES /\ UsersAreServed' /\ RecoverPlaces(p)'
               /\ ~IOErrors => RecordAndJournal(p)'
  BY <1>2 DEF RecoveryInv
<1> DEFINE r == proc[p].snap
<1>4. /\ rec \in Records /\ r \in Records /\ journal \subseteq Markers
      /\ DropJournal <=> journal' = {} \/ (IOErrors /\ journal' = journal)
      /\ UsersAreServed /\ RecoverPlaces(p)
      /\ ~IOErrors => RecordAndJournal(p)
  BY <1>0 DEF Boots, TypeOK, DropJournal, RecoveryInv
<1> USE DEF Closed
<1>5. ASSUME NEW place, BootGoto(p, place)
      PROVE  proc'[p] = [proc[p] EXCEPT !.pc = place]
  BY <1>5, <1>0 DEF BootGoto, TypeOK
<1>6. BootDone(p) => proc'[p] = Up /\ Up.pc = "up"
  BY <1>0 DEF BootDone, TypeOK, Up, Down
<1>a. CASE BootStart(p)
  <2>1. UNCHANGED store /\ proc[p].pc = "down" /\ proc'[p].pc = "list"
    BY <1>a, <1>0, <1>5 DEF BootStart, BootAt, Boots
  <2> QED BY <1>0, <1>1, <1>4, <2>1
          DEF store, UsersAreServed, RecordAndJournal, RecoverPlaces
<1>b. CASE BootList(p)
  <2>1. /\ UNCHANGED store /\ proc[p].pc = "list"
        /\ \/ rec.status = "NEW" /\ proc'[p].pc = "up"
           \/ proc'[p].pc = "markers" /\ proc'[p].snap = rec
    <3>1. CASE rec = NoRecord /\ BootDone(p)
      BY <1>b, <1>6, <3>1 DEF BootList, BootAt, NoRecord
    <3>2. CASE proc' = [proc EXCEPT ![p].pc = "markers", ![p].snap = rec]
      BY <1>b, <1>0, <3>2 DEF BootList, BootAt, TypeOK, Boots
    <3> QED BY <1>b, <3>1, <3>2 DEF BootList
  <2> QED BY <1>0, <1>1, <1>4, <2>1 DEF store, UsersAreServed,
          RecordAndJournal, RecoverPlaces, Transient
<1>c. CASE BootMarkers(p)
  <2>1. /\ UNCHANGED store /\ proc[p].pc = "markers" /\ proc'[p].pc = "decide"
        /\ proc'[p].snap = r /\ proc'[p].seen = journal
    BY <1>c, <1>0 DEF BootMarkers, BootAt, TypeOK
  <2> QED BY <1>0, <1>1, <1>4, <2>1
          DEF store, UsersAreServed, RecordAndJournal, RecoverPlaces
<1>d. CASE BootDecide(p)
  <2>0. proc[p].pc = "decide" /\ proc[p].seen = journal /\ r = rec /\ rec' = rec
    BY <1>d, <1>4 DEF BootDecide, BootAt, RecoverPlaces
  <2>1. CASE /\ BootGoto(p, "check") /\ Closed
             /\ journal' = {} \/ (IOErrors /\ journal' = journal)
    <3>1. proc'[p].pc = "check" /\ proc'[p].snap = r
      BY <1>0, <1>5, <2>1 DEF Boots
    <3> QED BY <1>0, <1>1, <1>4, <2>0, <2>1, <3>1
            DEF UsersAreServed, RecordAndJournal, RecoverPlaces
  <2>2. CASE /\ journal # {} /\ "COMMITTED" \notin journal
             /\ proc' = [proc EXCEPT ![p].pc = "put",
                  ![p].snap.status = Verdict(journal, r.path, disk)]
             /\ journal' = journal
    <3>1. /\ proc'[p].pc = "put"
          /\ proc'[p].snap.status = Verdict(journal, r.path, disk)
          /\ proc'[p].snap.path = r.path
      BY <1>0, <1>4, <2>2 DEF TypeOK, Boots, Records
    <3>2. /\ proc'[p].snap.status \in {"READY", "FAILED"}
          /\ proc'[p].snap.status = "READY" => QuickVerify(proc'[p].snap.path, disk)
      BY <3>1 DEF Verdict
    <3> QED BY <1>0, <1>1, <1>4, <2>0, <2>2, <3>1, <3>2
            DEF UsersAreServed, RecordAndJournal, RecoverPlaces
  <2> QED BY <1>d, <1>4, <2>0, <2>1, <2>2 DEF BootDecide
<1>e. CASE BootPut(p)
  <2>1. /\ proc[p].pc = "put" /\ proc'[p].snap = r /\ rec' = r
        /\ proc'[p].pc = IF r.status = "READY" THEN "mark" ELSE "close"
        /\ journal' = journal
    <3> DEFINE place == IF r.status = "READY" THEN "mark" ELSE "close"
    <3>1. proc'[p] = [proc[p] EXCEPT !.pc = place]
      BY <1>e, <1>5 DEF BootPut
    <3> QED BY <1>e, <1>0, <3>1 DEF BootPut, BootAt, Boots
  <2>2. journal # {} /\ Users = {}
    BY <1>4, <2>1 DEF RecoverPlaces, UsersAreServed
  <2> QED BY <1>0, <1>1, <1>4, <2>1, <2>2 DEF UsersAreServed,
          RecordAndJournal, RecoverPlaces, Transient
<1>f. CASE BootMark(p)
  <2>1. /\ proc[p].pc = "mark" /\ proc'[p].snap = r /\ rec' = rec
        /\ proc'[p].pc = "close" /\ journal' = journal \cup {"COMMITTED"}
    BY <1>f, <1>0, <1>5 DEF BootMark, BootAt, Boots
  <2> QED BY <1>0, <1>1, <1>4, <2>1 DEF UsersAreServed,
          RecordAndJournal, RecoverPlaces, Transient, QuickVerify
<1>g. CASE BootClose(p)
  <2>1. /\ proc[p].pc = "close" /\ rec' = rec
        /\ proc'[p].pc = "up"
        /\ journal' = {} \/ (IOErrors /\ journal' = journal)
    BY <1>g, <1>0, <1>4, <1>6 DEF BootClose, BootAt
  <2> QED BY <1>0, <1>1, <1>4, <2>1 DEF UsersAreServed,
          RecordAndJournal, RecoverPlaces, Transient
<1>h. CASE BootCheck(p)
  <2>1. /\ proc[p].pc = "check" /\ UNCHANGED store
        /\ \/ /\ ~(r.status = "READY" /\ ~QuickVerify(r.path, disk))
              /\ proc'[p].pc = "up"
           \/ /\ r.status = "READY" /\ ~QuickVerify(r.path, disk)
              /\ proc'[p].pc = "putonly" /\ proc'[p].snap.status = "FAILED"
    BY <1>h, <1>0, <1>4, <1>6 DEF BootCheck, BootAt, TypeOK, Boots, Records
  <2>2. r = rec /\ (~IOErrors => journal = {})
    BY <1>4, <2>1 DEF RecoverPlaces, RecordAndJournal
  <2>3. ~QuickVerify(rec.path, disk) => Users = {}
    BY <1>4 DEF UsersAreServed, QuickVerify
  <2> QED BY <1>0, <1>1, <1>4, <2>1, <2>2, <2>3
          DEF store, UsersAreServed, RecordAndJournal, RecoverPlaces
<1>i. CASE BootPutOnly(p)
  <2>1. /\ proc[p].pc = "putonly" /\ rec' = r
        /\ proc'[p].pc = "up" /\ journal' = journal
    BY <1>i, <1>0, <1>6 DEF BootPutOnly, BootAt
  <2> QED BY <1>0, <1>1, <1>4, <2>1 DEF UsersAreServed,
          RecordAndJournal, RecoverPlaces, Transient
<1> QED BY <1>a, <1>b, <1>c, <1>d, <1>e, <1>f, <1>g, <1>h, <1>i DEF RecoverStep

(* A crash leaves the store as it is, for Recover to settle.               *)
LEMMA CrashKeeps ==
  ASSUME NEW p, Procs = {p}, TypeOK, RecoveryInv(p), Crash(p)
  PROVE  RecoveryInv(p)'
<1>1. /\ UNCHANGED <<rec, journal, disk, granted>> /\ proc'[p] = Down
      /\ \A u \in Threads : req'[u] = Idle
  BY LifecycleAssumption DEF Crash, store, TypeOK
<1>2. Doing' = "idle" /\ Users' = granted /\ Users' \subseteq Users
  BY <1>1 DEF Doing, Users, Releasing, Idle
<1> QED BY <1>1, <1>2 DEF RecoveryInv, UsersAreServed, EnsurePlaces,
        RemovalPlaces, RecordAndJournal, RecoverPlaces, Pending, Publishing, Down,
        Closed

-----------------------------------------------------------------------------
(* Only Grant brings a user, and a Release that reads the record leaves.   *)
LEMMA HandlerUsers ==
  ASSUME TypeOK, OneRequestPerHolder, ReleasingIsUngranted, UsersAreServed,
         NEW t \in Threads, HandlerStep(t)
  PROVE  /\ ~Grant(t) => Users' \subseteq Users
         /\ Grant(t) => Users' \subseteq AcquireLease(Users, req[t].who)
         /\ ReleaseGet(t) => req[t].who \in Users /\ req[t].who \notin Users'
<1>1. /\ \A u \in Threads \ {t} : req'[u] = req[u]
      /\ ~Releasing(t)'
      /\ \/ granted' = granted
         \/ Grant(t) /\ granted' = AcquireLease(granted, req[t].who)
  BY HandlerFrame, HandlerRequest DEF Releasing, Idle
<1>2. \A u \in Threads \ {t} : Releasing(u)' => Releasing(u)
  BY <1>1 DEF Releasing
<1>3. /\ ~Grant(t) => Users' \subseteq Users
      /\ Grant(t) => Users' \subseteq AcquireLease(Users, req[t].who)
  BY <1>1, <1>2 DEF Users, AcquireLease
<1>4. ASSUME ReleaseGet(t)
      PROVE  req[t].who \in Users /\ req[t].who \notin Users'
  <2>1. /\ Releasing(t) /\ req[t].who \notin granted /\ granted' = granted
    BY <1>4 DEF ReleaseGet, At, Releasing, ReleasingIsUngranted
  <2>2. req[t].who \in Users /\ req[t].who # NoHolder
    BY <2>1, UsersAreHolders, LifecycleAssumption DEF Users
  <2>3. \A u \in Threads \ {t} : req'[u].who # req[t].who
    BY <1>1, <2>2 DEF OneRequestPerHolder
  <2> QED BY <1>1, <2>1, <2>2, <2>3 DEF Users
<1> QED BY <1>3, <1>4

(* The holder of the flock, at its place, in a process that is up.         *)
LEMMA HandlerPlace ==
  ASSUME NEW p, Procs = {p}, TypeOK, Locked, ServedWhenUp,
         NEW t \in Threads, HandlerStep(t)
  PROVE  /\ lock = t /\ Doing = req[t].pc /\ Copy = req[t].copy
         /\ proc[p].pc = "up" /\ proc' = proc
         /\ lock' = t => Doing' = req'[t].pc /\ Copy' = req'[t].copy
         /\ lock' = NoThread => Doing' = "idle"
         /\ req[t].copy \in Records /\ rec \in Records
<1>1. req[t].pc \in Critical /\ proc' = proc
  BY HandlerFrame
<1>2. lock = t /\ Doing = req[t].pc /\ Copy = req[t].copy
  BY <1>1 DEF Locked, Doing, Copy
<1>3. proc[p].pc = "up"
  BY <1>1, LifecycleAssumption DEF ServedWhenUp, Critical
<1>4. /\ lock' = t => Doing' = req'[t].pc /\ Copy' = req'[t].copy
      /\ lock' = NoThread => Doing' = "idle"
  BY LifecycleAssumption DEF Doing, Copy
<1>5. req[t].copy \in Records /\ rec \in Records
  BY DEF TypeOK, Handlers
<1> QED BY <1>1, <1>2, <1>3, <1>4, <1>5

(* What a handler that holds the flock does keeps the invariant.           *)
LEMMA HandlerKeeps ==
  ASSUME NEW p, Procs = {p}, TypeOK, ServeInv, LeaseInv, RecoveryInv(p),
         NEW t \in Threads, HandlerStep(t)
  PROVE  RecoveryInv(p)'
<1>0. /\ Locked /\ PlacedWhole /\ ServedWhenUp /\ OneRequestPerHolder
      /\ ReleasingIsUngranted /\ EnsureKeepsLeases
      /\ UsersAreServed /\ EnsurePlaces /\ RemovalPlaces
      /\ RecoverPlaces(p) /\ (~IOErrors => RecordAndJournal(p))
  BY DEF ServeInv, LeaseInv, RecoveryInv
<1>1. /\ lock = t /\ Doing = req[t].pc /\ Copy = req[t].copy
      /\ proc[p].pc = "up" /\ proc' = proc
      /\ lock' = t => Doing' = req'[t].pc /\ Copy' = req'[t].copy
      /\ lock' = NoThread => Doing' = "idle"
      /\ req[t].copy \in Records /\ rec \in Records
  BY <1>0, HandlerPlace
<1>2. /\ ~Grant(t) => Users' \subseteq Users
      /\ Grant(t) => Users' \subseteq AcquireLease(Users, req[t].who)
      /\ ReleaseGet(t) => req[t].who \in Users /\ req[t].who \notin Users'
  BY <1>0, HandlerUsers
<1>3. rec.status = "READY" => Closed
  BY <1>0, <1>1 DEF RecoverPlaces
<1>4. (rec.status = "READY" => Closed)' => RecoverPlaces(p)'
  BY <1>1 DEF RecoverPlaces
<1> SUFFICES /\ UsersAreServed' /\ EnsurePlaces' /\ RemovalPlaces'
             /\ (rec.status = "READY" => Closed)'
             /\ ~IOErrors => RecordAndJournal(p)'
  BY <1>4 DEF RecoveryInv
<1> USE <1>3 DEF UsersAreServed, EnsurePlaces, RemovalPlaces, RecordAndJournal,
                 Pending, Publishing, Closed
<1>5. ASSUME NEW from, NEW to, NEW s \in States, PutStatus(t, from, to, s)
      PROVE  /\ Doing = from /\ Doing' = to /\ UNCHANGED <<journal, disk>>
             /\ rec' = [Copy EXCEPT !.status = s] /\ Copy' = rec'
             /\ rec'.status = s /\ rec'.path = Copy.path
             /\ rec'.leases = Copy.leases
  BY <1>1, <1>5 DEF PutStatus, At, TypeOK, Handlers, Records
<1>6. ASSUME NEW from, NEW to, NEW m, Log(t, from, to, m)
      PROVE  /\ Doing = from /\ Doing' = to /\ Copy' = Copy
             /\ UNCHANGED <<rec, disk>> /\ journal' = journal \cup {m}
  BY <1>1, <1>6 DEF Log, At, Goto, TypeOK, Handlers
<1>a. CASE EnsureGet(t)
  <2>1. Doing = "get" /\ UNCHANGED store
    BY <1>a, <1>1 DEF EnsureGet, At
  <2>2. CASE /\ rec.status = "READY" /\ FullVerify(rec.path, disk)
             /\ req' = [req EXCEPT ![t].pc = "touch",
                          ![t].copy = [rec EXCEPT !.leases =
                             AcquireLease(rec.leases, req[t].who)]]
    <3>1. /\ Doing' = "touch"
          /\ Copy'.leases = AcquireLease(rec.leases, req[t].who)
      BY <1>a, <1>1, <2>2 DEF EnsureGet, TypeOK, Handlers, Records
    <3>2. rec.leases \subseteq Copy'.leases
      BY <3>1 DEF AcquireLease
    <3> QED BY <1>0, <1>1, <1>2, <1>a, <2>1, <2>2, <3>1, <3>2
            DEF store, Grant, EnsureGet, At, FullVerify, QuickVerify, Transient
  <2>3. CASE /\ ~(rec.status = "READY" /\ FullVerify(rec.path, disk))
             /\ req' = [req EXCEPT ![t].pc = "resolve",
                          ![t].copy = [status |-> "RESOLVING",
                                       path   |-> TRUE,
                                       leases |-> AcquireLease(rec.leases,
                                                               req[t].who)]]
    <3>1. Doing' = "resolve"
      BY <1>a, <1>1, <2>3 DEF EnsureGet, TypeOK, Handlers
    <3>2. Users = {}
      BY <1>0, <2>3 DEF FullVerify
    <3> QED BY <1>0, <1>1, <1>2, <1>a, <2>1, <3>1, <3>2
            DEF store, Grant, EnsureGet, At
  <2> QED BY <1>a, <2>2, <2>3 DEF EnsureGet
<1>b. CASE EnsureTouch(t)
  <2>1. /\ Doing = "touch" /\ Doing' = "grant" /\ UNCHANGED <<journal, disk>>
        /\ rec'.status = "READY" /\ rec'.path = Copy.path
        /\ rec'.leases = Copy.leases
    BY <1>b, <1>5 DEF EnsureTouch, States
  <2>2. Copy.path /\ disk = "whole" /\ ~Grant(t)
    BY <1>0, <1>1, <2>1 DEF EnsureKeepsLeases, PlacedWhole, Grant, At
  <2> QED BY <1>0, <1>1, <1>2, <2>1, <2>2 DEF QuickVerify, Transient
<1>c. CASE EnsureResolve(t)
  <2>1. /\ Doing = "resolve" /\ Doing' = "begin" /\ UNCHANGED <<journal, disk>>
        /\ rec'.status = "RESOLVING"
    BY <1>c, <1>5 DEF EnsureResolve, States, Transient
  <2> QED BY <1>0, <1>1, <1>2, <2>1 DEF Grant, At, Transient
<1>d. CASE EnsureBegin(t)
  <2>1. /\ Doing = "begin" /\ Doing' = "fetch" /\ UNCHANGED <<rec, disk>>
        /\ journal' = journal \cup {"OPEN"}
    BY <1>d, <1>6 DEF EnsureBegin
  <2> QED BY <1>0, <1>1, <1>2, <2>1 DEF Grant, At, Transient
<1>e. CASE EnsureFetch(t)
  <2>1. /\ Doing = "fetch" /\ Doing' = "download" /\ UNCHANGED <<journal, disk>>
        /\ rec'.status = "DOWNLOADING"
    BY <1>e, <1>5 DEF EnsureFetch, States, Transient
  <2> QED BY <1>0, <1>1, <1>2, <2>1 DEF Grant, At, Transient
<1>f. CASE EnsureDownload(t)
  <2>1. PICK c : req' = [req EXCEPT ![t].pc = "verified", ![t].stage = c]
    BY <1>f DEF EnsureDownload
  <2>2. /\ Doing = "download" /\ Doing' = "verified" /\ UNCHANGED <<rec, disk>>
        /\ journal' = journal \cup {"OPEN"}
    BY <1>f, <1>1, <2>1 DEF EnsureDownload, At, TypeOK, Handlers
  <2> QED BY <1>0, <1>1, <1>2, <2>2 DEF Grant, At, Transient
<1>g. CASE EnsureVerified(t)
  <2>1. /\ Doing = "verified" /\ Doing' = "verifying" /\ UNCHANGED <<rec, disk>>
        /\ journal' = journal \cup {"OPEN"}
    BY <1>g, <1>6 DEF EnsureVerified
  <2> QED BY <1>0, <1>1, <1>2, <2>1 DEF Grant, At, Transient
<1>h. CASE EnsureVerifying(t)
  <2>1. /\ Doing = "verifying" /\ Doing' = "publishing"
        /\ UNCHANGED <<journal, disk>> /\ rec'.status = "VERIFYING"
    BY <1>h, <1>5 DEF EnsureVerifying, States, Transient
  <2> QED BY <1>0, <1>1, <1>2, <2>1 DEF Grant, At, Transient
<1>i. CASE EnsurePublishing(t)
  <2>1. /\ Doing = "publishing" /\ Doing' = "metadata"
        /\ UNCHANGED <<journal, disk>> /\ rec'.status = "PUBLISHING"
    BY <1>i, <1>5 DEF EnsurePublishing, States, Transient
  <2> QED BY <1>0, <1>1, <1>2, <2>1 DEF Grant, At, Transient
<1>j. CASE EnsureMetadata(t)
  <2>1. /\ Doing = "metadata" /\ Doing' = "ready" /\ UNCHANGED <<rec, disk>>
        /\ journal' = journal \cup {"OPEN"}
    BY <1>j, <1>6 DEF EnsureMetadata
  <2> QED BY <1>0, <1>1, <1>2, <2>1 DEF Grant, At, Transient
<1>k. CASE EnsureReady(t)
  <2>1. /\ Doing = "ready" /\ Doing' = "publish" /\ UNCHANGED <<rec, disk>>
        /\ journal' = journal \cup {"READY_WRITTEN"}
    BY <1>k, <1>6 DEF EnsureReady
  <2> QED BY <1>0, <1>1, <1>2, <2>1 DEF Grant, At, Transient
<1>l. CASE EnsurePublish(t)
  <2>1. /\ Doing = "publish" /\ Doing' = "commit" /\ UNCHANGED <<rec, journal>>
    BY <1>l, <1>1 DEF EnsurePublish, Goto, At, TypeOK, Handlers
  <2> QED BY <1>0, <1>1, <1>2, <2>1 DEF Grant, At, Transient
<1>m. CASE EnsureCommit(t)
  <2>1. /\ Doing = "commit" /\ Doing' = "putready" /\ UNCHANGED <<rec, disk>>
        /\ journal' = journal \cup {"COMMITTED"}
    BY <1>m, <1>6 DEF EnsureCommit
  <2>2. disk = "whole"
    BY <1>0, <1>1, <2>1 DEF PlacedWhole
  <2> QED BY <1>0, <1>1, <1>2, <2>1, <2>2 DEF Grant, At, Transient
<1>n. CASE EnsurePutReady(t)
  <2>1. /\ Doing = "putready" /\ Doing' = "clean" /\ UNCHANGED <<journal, disk>>
        /\ rec'.status = "READY" /\ rec'.path = Copy.path
    BY <1>n, <1>5 DEF EnsurePutReady, States
  <2>2. Copy.path /\ disk = "whole"
    BY <1>0, <1>1, <2>1 DEF EnsureKeepsLeases, PlacedWhole
  <2> QED BY <1>0, <1>1, <1>2, <2>1, <2>2 DEF Grant, At, QuickVerify, Transient
<1>o. CASE EnsureClean(t)
  <2>1. /\ Doing = "clean" /\ Doing' = "grant" /\ UNCHANGED <<rec, disk>>
        /\ journal' = {} \/ (IOErrors /\ journal' = journal)
    BY <1>o, <1>1
       DEF EnsureClean, DropJournal, Goto, At, TypeOK, Handlers
  <2>2. rec.path /\ disk = "whole"
    BY <1>0, <1>1, <2>1 DEF EnsureKeepsLeases, PlacedWhole
  <2> QED BY <1>0, <1>1, <1>2, <2>1, <2>2 DEF Grant, At, QuickVerify, Transient
<1>p. CASE Grant(t)
  <2>1. Doing = "grant" /\ Doing' = "idle" /\ UNCHANGED <<rec, journal, disk>>
    BY <1>p, <1>1 DEF Grant, At, store
  <2>2. /\ rec.path /\ disk = "whole"
        /\ req[t].who = NoHolder \/ req[t].who \in rec.leases
    BY <1>0, <1>1, <2>1 DEF EnsureKeepsLeases, PlacedWhole, Keeps, AcquireLease
  <2>3. Users' \subseteq rec.leases
    BY <1>0, <1>2, <1>p, <2>2 DEF AcquireLease
  <2> QED BY <1>0, <1>1, <2>1, <2>2, <2>3 DEF QuickVerify, Transient
<1>q. CASE EnsureFail(t)
  <2>1. /\ Doing \in Pending \ {"putready"} /\ Doing' = "unlock"
        /\ rec'.status = "FAILED" /\ journal' = journal
        /\ disk' = disk \/ IOErrors
    BY <1>q, <1>1 DEF EnsureFail, MayFail, Goto, At, TypeOK, Handlers,
       Records
  <2> QED BY <1>0, <1>1, <1>2, <2>1 DEF Grant, At, Transient
<1>r. CASE ReleaseGet(t)
  <2> DEFINE left == ReleaseLease(rec.leases, req[t].who)
  <2>1. Doing = "relget" /\ UNCHANGED store /\ ~Grant(t)
    BY <1>r, <1>1 DEF ReleaseGet, Grant, At
  <2>2. /\ Users # {} /\ Users' \subseteq left
        /\ rec.path /\ disk = "whole" /\ rec.status = "READY"
        /\ ~IOErrors => journal = {}
    BY <1>0, <1>1, <1>2, <1>r, <2>1 DEF ReleaseLease
  <2>3. CASE Goto(t, "unlock")
    <3>1. Doing' = "unlock"
      BY <1>r, <1>1, <2>3 DEF ReleaseGet, Goto, TypeOK, Handlers
    <3> QED BY <1>0, <1>1, <1>2, <2>1, <2>2, <3>1
            DEF store, QuickVerify, Transient
  <2>4. CASE /\ left = {}
             /\ req' = [req EXCEPT ![t].copy = Released,
                          ![t].pc = IF rec.path /\ disk # "absent"
                                    THEN "remove" ELSE "put"]
    <3>1. Doing' = "remove" /\ Copy' = Released
      BY <1>r, <1>1, <2>2, <2>4 DEF ReleaseGet, TypeOK, Handlers
    <3> QED BY <1>0, <1>1, <1>2, <2>1, <2>2, <2>4, <3>1
            DEF store, QuickVerify, Transient
  <2>5. CASE req' = [req EXCEPT ![t].copy = ReleasedTo(rec, left),
                                ![t].pc = "put"]
    <3>1. Doing' = "put" /\ Copy' = ReleasedTo(rec, left)
      BY <1>r, <1>1, <2>5 DEF ReleaseGet, TypeOK, Handlers
    <3>2. Copy'.status = "READY" /\ Copy'.leases = left /\ Copy'.path
      BY <1>1, <2>2, <3>1 DEF ReleasedTo, Records
    <3> QED BY <1>0, <1>1, <1>2, <2>1, <2>2, <3>1, <3>2
            DEF store, QuickVerify, Transient
  <2> QED BY <1>r, <2>3, <2>4, <2>5 DEF ReleaseGet
<1>s. CASE GCGet(t)
  <2>1. Doing = "gcget" /\ UNCHANGED store /\ ~Grant(t)
    BY <1>s, <1>1 DEF GCGet, Grant, At
  <2>2. CASE Goto(t, "unlock")
    <3>1. Doing' = "unlock"
      BY <1>s, <1>1, <2>2 DEF GCGet, Goto, TypeOK, Handlers
    <3> QED BY <1>0, <1>1, <1>2, <2>1, <3>1 DEF store
  <2>3. CASE /\ GCable(rec, disk)
             /\ req' = [req EXCEPT ![t].copy = Released,
                          ![t].pc = IF disk = "absent" THEN "put" ELSE "remove"]
    <3>1. Doing' \in {"put", "remove"} /\ Copy' = Released
      BY <1>s, <1>1, <2>3 DEF GCGet, TypeOK, Handlers
    <3>2. Users = {} /\ rec.status \notin Transient
      BY <1>0, <2>3 DEF GCable, Transient
    <3> QED BY <1>0, <1>1, <1>2, <2>1, <3>1, <3>2 DEF store, Released
  <2> QED BY <1>s, <2>2, <2>3 DEF GCGet
<1>t. CASE Remove(t) \/ Removed(t)
  <2>1. /\ Doing \in {"remove", "removing"} /\ UNCHANGED <<rec, journal>>
        /\ Doing' \in {"removing", "put"} /\ Copy' = Copy /\ ~Grant(t)
    BY <1>t, <1>1 DEF Remove, Removed, Grant, Goto, At, TypeOK, Handlers
  <2> QED BY <1>0, <1>1, <1>2, <2>1 DEF Released
<1>u. CASE PutReleased(t)
  <2>1. /\ Doing = "put" /\ Doing' \in {"drop", "unlock"} /\ ~Grant(t)
        /\ rec' = Copy /\ UNCHANGED <<journal, disk>>
    BY <1>u, <1>1 DEF PutReleased, Grant, Goto, At, TypeOK, Handlers
  <2> QED BY <1>0, <1>1, <1>2, <2>1 DEF QuickVerify, Transient
<1>v. CASE GCDrop(t)
  <2>1. /\ Doing = "drop" /\ Doing' = "unlock" /\ ~Grant(t)
        /\ UNCHANGED <<rec, disk>>
        /\ journal' = {} \/ (IOErrors /\ journal' = journal)
    BY <1>v, <1>1
       DEF GCDrop, DropJournal, Grant, Goto, At, TypeOK, Handlers
  <2> QED BY <1>0, <1>1, <1>2, <2>1
<1>w. CASE Unlock(t)
  <2>1. /\ Doing = "unlock" /\ Doing' = "idle" /\ ~Grant(t)
        /\ UNCHANGED <<rec, journal, disk>>
    BY <1>w, <1>1 DEF Unlock, Grant, At, store
  <2> QED BY <1>0, <1>1, <1>2, <2>1
<1>x. CASE Abort(t)
  <2>1. /\ Doing' = "unlock" /\ UNCHANGED <<rec, journal, disk>> /\ IOErrors
    BY <1>x, <1>1 DEF Abort, Goto, store, TypeOK, Handlers
  <2>2. Users' \subseteq Users
    BY <1>2, <1>x, <2>1, <1>1 DEF Abort, Grant, Return, Idle, Goto, TypeOK, Handlers
  <2> QED BY <1>0, <1>1, <2>1, <2>2
<1> QED BY <1>a, <1>b, <1>c, <1>d, <1>e, <1>f, <1>g, <1>h, <1>i, <1>j, <1>k,
           <1>l, <1>m, <1>n, <1>o, <1>p, <1>q, <1>r, <1>s, <1>t, <1>u, <1>v,
           <1>w, <1>x
        DEF HandlerStep, EnsureStep, RemovalStep

-----------------------------------------------------------------------------
(* The invariant holds of every cache root of this kind.                   *)
THEOREM RecoveryInvHolds ==
  ASSUME NEW p, Procs = {p}, ~LosesBlobs, ~ReleaseUnheld
  PROVE  Spec => []RecoveryInv(p)
<1>1. Spec => [](TypeOK /\ ServeInv /\ LeaseInv)
  BY LeaseInvHolds DEF OneProcessOnly
<1>2. Init => RecoveryInv(p)
  BY RecoveryInit
<1>3. TypeOK /\ ServeInv /\ LeaseInv /\ RecoveryInv(p) /\ [Next]_vars
        => RecoveryInv(p)'
  <2> SUFFICES ASSUME TypeOK, ServeInv, LeaseInv, RecoveryInv(p), [Next]_vars
               PROVE  RecoveryInv(p)'
    OBVIOUS
  <2>1. CASE UNCHANGED vars
    <3>1. /\ UNCHANGED <<rec, journal, disk, proc, granted>>
          /\ Doing' = Doing /\ Copy' = Copy /\ Users' = Users
      BY <2>1 DEF vars, Doing, Copy, Users, Releasing
    <3> QED BY <3>1, QuietStep
  <2>2. ASSUME NEW t \in Threads, HandlerStep(t) PROVE RecoveryInv(p)'
    BY <2>2, HandlerKeeps
  <2>3. ASSUME NEW t \in Threads, RequestStep(t) PROVE RecoveryInv(p)'
    BY <2>3, RequestKeeps
  <2>4. CASE RecoverStep(p) \/ BootStart(p)
    BY <2>4, BootKeeps DEF LeaseInv
  <2>5. CASE Crash(p)
    BY <2>5, CrashKeeps
  <2> QED BY <2>1, <2>2, <2>3, <2>4, <2>5 DEF Next
<1> QED BY <1>1, <1>2, <1>3, PTL DEF Spec

(* While a client uses the model its stored status is READY: no other      *)
(* request, no crash, no I/O error and no recovery makes it a failed or a  *)
(* pending one.                                                            *)
THEOREM GrantedModelsReadReady ==
  ASSUME NEW p, Procs = {p}, ~LosesBlobs, ~ReleaseUnheld
  PROVE  Spec => []GrantedModelReadsReady
<1>1. RecoveryInv(p) => GrantedModelReadsReady
  BY DEF RecoveryInv, UsersAreServed, Users, GrantedModelReadsReady
<1> QED BY <1>1, RecoveryInvHolds, PTL

(* Nobody holds the flock and the process is up.                           *)
LEMMA WhenSettled ==
  ASSUME NEW p, Procs = {p}, Settled
  PROVE  Doing = "idle" /\ proc[p].pc = "up"
BY LifecycleAssumption DEF Settled, Doing

(* Once recovery is done and no handler is at work, a READY record has a   *)
(* directory that passes the quick check, whatever step a crash hit.       *)
THEOREM ReadyModelsArePublished ==
  ASSUME NEW p, Procs = {p}, ~LosesBlobs, ~ReleaseUnheld, ~IOErrors
  PROVE  Spec => []ReadyIsPublished
<1>1. RecoveryInv(p) => ReadyIsPublished
  BY WhenSettled DEF RecoveryInv, RecordAndJournal, ReadyIsPublished
<1> QED BY <1>1, RecoveryInvHolds, PTL

(* The journal says TXN_COMMITTED only of a directory that is in place.    *)
THEOREM CommittedModelsArePublished ==
  ASSUME NEW p, Procs = {p}, ~LosesBlobs, ~ReleaseUnheld, ~IOErrors
  PROVE  Spec => []CommittedIsPublished
<1>1. RecoveryInv(p) => CommittedIsPublished
  BY DEF RecoveryInv, RecordAndJournal, CommittedIsPublished, QuickVerify
<1> QED BY <1>1, RecoveryInvHolds, PTL

(* A record that recovery leaves pending never got a journal, or is over a *)
(* complete directory.                                                     *)
THEOREM OrphansAreBenign ==
  ASSUME NEW p, Procs = {p}, ~LosesBlobs, ~ReleaseUnheld, ~IOErrors
  PROVE  Spec => []OrphanIsBenign
<1>1. RecoveryInv(p) => OrphanIsBenign
  BY WhenSettled
     DEF RecoveryInv, RecordAndJournal, OrphanIsBenign, Pending, Publishing
<1> QED BY <1>1, RecoveryInvHolds, PTL
=============================================================================
