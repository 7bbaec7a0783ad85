--------------------------- MODULE ModelLifecycle ---------------------------
(***************************************************************************)
(* The life of one model (one model id and manifest digest) in a cache     *)
(* root that one or more oci2gdsd processes share: Ensure, Release, GC and *)
(* start-up recovery over the state store's record, the journal, the       *)
(* published directory and the per-model flock.                            *)
(*                                                                         *)
(* A thread is a request being served (an HTTP handler of the daemon, or a *)
(* CLI command); a process runs Recover before it serves any.  Every step  *)
(* of a handler that touches shared state is an action, so a crash or      *)
(* another process may come between any two of them.                       *)
(***************************************************************************)
EXTENDS FiniteSets

CONSTANTS
  Procs,          \* operating-system processes on the same cache root
  Threads,        \* requests in flight, over all processes
  ProcOf,         \* the process each thread belongs to
  Holders,        \* lease holders: the clients of the cache
  NoHolder,       \* a request without --lease-holder
  NoThread,       \* nobody holds the model's flock
  LosesBlobs,     \* TRUE: downloadBlobs may return nil with shards missing
  IOErrors,       \* TRUE: file-system operations may fail
  ReleaseUnheld   \* TRUE: clients may release what they were not granted

ASSUME LifecycleAssumption ==
  /\ ProcOf \in [Threads -> Procs]
  /\ NoThread \notin Threads
  /\ NoHolder \notin Holders
  /\ LosesBlobs \in BOOLEAN
  /\ IOErrors \in BOOLEAN
  /\ ReleaseUnheld \in BOOLEAN

VARIABLES
  rec,      \* the model's record in the state store
  journal,  \* the markers in the model's journal file; {} when it is deleted
  disk,     \* what is at the model's final path
  lock,     \* the thread that holds the model's flock
  req,      \* each thread's handler: its place, request and local variables
  proc,     \* each process in NewService: its place and Recover's variables
  granted   \* history: the holders that were told READY and did not release

store == <<rec, journal, disk>>
vars  == <<rec, journal, disk, lock, req, proc, granted>>

-----------------------------------------------------------------------------
(* "NEW" is StateNew: no record.  The code never stores it.                *)
Transient == {"RESOLVING", "DOWNLOADING", "VERIFYING", "PUBLISHING"}
States    == {"NEW", "READY", "FAILED", "RELEASED"} \cup Transient
Records   == [status : States, path : BOOLEAN, leases : SUBSET Holders]
NoRecord  == [status |-> "NEW", path |-> FALSE, leases |-> {}]

(* Recover tells three markers apart: TXN_READY_WRITTEN, TXN_COMMITTED and  *)
(* OPEN, which stands for TXN_STARTED and the three that follow it.        *)
Markers == {"OPEN", "READY_WRITTEN", "COMMITTED"}

(* A directory is whole when READY, the metadata and every shard are as    *)
(* the manifest says; rotten when a shard has the right size and wrong     *)
(* bytes; gutted when READY is there and something else is missing;        *)
(* unmarked when READY is missing.                                         *)
Content == {"absent", "whole", "rotten", "gutted", "unmarked"}
HasMarker(d) == d \in {"whole", "rotten", "gutted"}

Ops == {"none", "ensure", "release", "cleanup", "gc"}

Critical ==
  {"get", "touch", "resolve", "begin", "fetch", "download", "verified",
   "verifying", "publishing", "metadata", "ready", "publish", "commit",
   "putready", "clean", "grant", "relget", "gcget", "remove", "removing",
   "put", "drop", "unlock"}

(* copy is the handler's private record, stage its staging directory.      *)
Handlers == [pc    : Critical \cup {"idle", "lock", "trylock"},
             op    : Ops,
             who   : Holders \cup {NoHolder},
             copy  : Records,
             stage : Content]
Idle == [pc |-> "idle", op |-> "none", who |-> NoHolder, copy |-> NoRecord,
         stage |-> "absent"]

(* snap is the record as Recover listed it, seen the markers it read.      *)
Boots == [pc   : {"down", "list", "markers", "decide", "check", "put", "mark",
                  "close", "putonly", "up"},
          snap : Records,
          seen : SUBSET Markers]
Down == [pc |-> "down", snap |-> NoRecord, seen |-> {}]
Up   == [Down EXCEPT !.pc = "up"]

TypeOK ==
  /\ rec \in Records
  /\ journal \in SUBSET Markers
  /\ disk \in Content
  /\ lock \in Threads \cup {NoThread}
  /\ req \in [Threads -> Handlers]
  /\ proc \in [Procs -> Boots]
  /\ granted \in SUBSET Holders

(* An empty cache, or a model published earlier that rotted while no       *)
(* process was up.                                                         *)
Init ==
  /\ \/ rec = NoRecord /\ disk = "absent"
     \/ rec = [status |-> "READY", path |-> TRUE, leases |-> {}]
        /\ disk = "rotten"
  /\ journal = {}
  /\ lock = NoThread
  /\ req = [t \in Threads |-> Idle]
  /\ proc = [p \in Procs |-> Down]
  /\ granted = {}

-----------------------------------------------------------------------------
(* verifyPublishedPath hashes every shard; verifyPublishedPathQuick        *)
(* compares sizes only.                                                    *)
QuickVerify(path, d) == path /\ d \in {"whole", "rotten"}
VerifySizesOnly(path, d) == QuickVerify(path, d)            \* mutant
FullVerify(path, d)  == path /\ d = "whole"

LastLeaseWins(leases, h) == IF h = NoHolder THEN leases ELSE {h}  \* mutant
AcquireLease(leases, h) == IF h = NoHolder THEN leases ELSE leases \cup {h}
ReleaseLease(leases, h) == leases \ {h}

GCableLeased(r, d) ==                                       \* mutant
  r.path /\ r.status \in {"READY", "RELEASED", "FAILED"}

(* What GC may delete: a settled record with no lease whose directory has  *)
(* a READY marker, or a failed one.                                        *)
GCable(r, d) ==
  /\ r.leases = {}
  /\ r.path
  /\ r.status \in {"READY", "RELEASED", "FAILED"}
  /\ r.status # "FAILED" => HasMarker(d)

(* journal.Delete, whose error every caller ignores.                       *)
DropJournal == journal' = {} \/ (IOErrors /\ journal' = journal)

At(t, place) == req[t].pc = place
Goto(t, place) == req' = [req EXCEPT ![t].pc = place]

-----------------------------------------------------------------------------
(* Requests arrive.  A client is sequential: it has one request in flight  *)
(* under its holder name.                                                  *)

Arrive(t, place, o, h) ==
  /\ proc[ProcOf[t]].pc = "up"
  /\ At(t, "idle")
  /\ req' = [req EXCEPT ![t] = [Idle EXCEPT !.pc = place, !.op = o, !.who = h]]

Sequential(h) == \A t \in Threads : req[t].who # h

StartEnsure(t, h) ==
  /\ h = NoHolder \/ Sequential(h)
  /\ Arrive(t, "lock", "ensure", h)
  /\ UNCHANGED <<store, lock, proc, granted>>

StartRelease(t, h, o) ==
  /\ Sequential(h)
  /\ ReleaseUnheld \/ h \in granted
  /\ Arrive(t, "lock", o, h)
  /\ granted' = granted \ {h}
  /\ UNCHANGED <<store, lock, proc>>

(* GC lists the store without the lock and goes on for a candidate.        *)
StartGC(t) ==
  /\ GCable(rec, disk)
  /\ Arrive(t, "trylock", "gc", NoHolder)
  /\ UNCHANGED <<store, lock, proc, granted>>

(* LockManager.Acquire succeeds.                                           *)
Acquire(t) ==
  /\ At(t, "lock") \/ At(t, "trylock")
  /\ lock = NoThread
  /\ lock' = t
  /\ Goto(t, CASE req[t].op = "ensure" -> "get"
               [] req[t].op = "gc"     -> "gcget"
               [] OTHER                -> "relget")
  /\ UNCHANGED <<store, proc, granted>>

(* The handler returns; its local variables are gone.                      *)
Return(t) == req' = [req EXCEPT ![t] = Idle]

(* Acquire returns without the lock: GC, which does not wait, finds it     *)
(* busy; so does Ensure without --wait, which answers PENDING; or the      *)
(* context of a waiting Ensure or Release ends.                            *)
GiveUp(t) ==
  /\ At(t, "lock") \/ At(t, "trylock")
  /\ lock # NoThread
  /\ Return(t)
  /\ UNCHANGED <<store, lock, proc, granted>>

KeepLock(t) ==                                              \* mutant
  /\ At(t, "unlock")
  /\ Return(t)
  /\ UNCHANGED <<store, lock, proc, granted>>
Unlock(t) ==
  /\ At(t, "unlock")
  /\ lock' = NoThread
  /\ Return(t)
  /\ UNCHANGED <<store, proc, granted>>

-----------------------------------------------------------------------------
(* Ensure.                                                                 *)

(* The record is read and its directory verified in full; a miss starts    *)
(* over with a new record that keeps the leases.                           *)
EnsureGet(t) ==
  LET leases == AcquireLease(rec.leases, req[t].who)
  IN  /\ At(t, "get")
      /\ \/ /\ rec.status = "READY" /\ FullVerify(rec.path, disk)
            /\ req' = [req EXCEPT ![t].pc = "touch",
                                  ![t].copy = [rec EXCEPT !.leases = leases]]
         \/ /\ ~(rec.status = "READY" /\ FullVerify(rec.path, disk))
            /\ req' = [req EXCEPT ![t].pc = "resolve",
                                  ![t].copy = [status |-> "RESOLVING",
                                               path   |-> TRUE,
                                               leases |-> leases]]
      /\ UNCHANGED <<store, lock, proc, granted>>

(* A step that stores the handler's copy with a new status.                *)
PutStatus(t, from, to, s) ==
  /\ At(t, from)
  /\ req' = [req EXCEPT ![t].pc = to, ![t].copy.status = s]
  /\ rec' = [req[t].copy EXCEPT !.status = s]
  /\ UNCHANGED <<journal, disk, lock, proc, granted>>

(* A step that appends a marker to the journal.                            *)
Log(t, from, to, m) ==
  /\ At(t, from)
  /\ Goto(t, to)
  /\ journal' = journal \cup {m}
  /\ UNCHANGED <<rec, disk, lock, proc, granted>>

EnsureTouch(t)   == PutStatus(t, "touch", "grant", "READY")
EnsureResolve(t) == PutStatus(t, "resolve", "begin", "RESOLVING")
EnsureBegin(t)   == Log(t, "begin", "fetch", "OPEN")
EnsureFetch(t)   == PutStatus(t, "fetch", "download", "DOWNLOADING")

(* downloadBlobs returns nil.  The staging directory is private to the     *)
(* handler; whether it then holds every shard is DownloadPool's question.  *)
EnsureDownload(t) ==
  /\ At(t, "download")
  /\ \E c \in {"whole", "gutted"} :
       /\ c = "gutted" => LosesBlobs
       /\ req' = [req EXCEPT ![t].pc = "verified", ![t].stage = c]
  /\ journal' = journal \cup {"OPEN"}
  /\ UNCHANGED <<rec, disk, lock, proc, granted>>

EnsureVerified(t)   == Log(t, "verified", "verifying", "OPEN")
EnsureVerifying(t)  == PutStatus(t, "verifying", "publishing", "VERIFYING")
EnsurePublishing(t) == PutStatus(t, "publishing", "metadata", "PUBLISHING")
EnsureMetadata(t)   == Log(t, "metadata", "ready", "OPEN")
CommitEarly(t)      == Log(t, "ready", "publish", "COMMITTED")  \* mutant
EnsureReady(t)      == Log(t, "ready", "publish", "READY_WRITTEN")

PublishUnverified(t) ==                                     \* mutant
  /\ At(t, "publish")
  /\ disk' = IF disk = "absent" THEN req[t].stage ELSE disk
  /\ Goto(t, "commit")
  /\ UNCHANGED <<rec, journal, lock, proc, granted>>

(* The staging directory is renamed to the final path, or found useless    *)
(* because the final path holds valid content.                             *)
EnsurePublish(t) ==
  /\ At(t, "publish")
  /\ \/ disk = "absent" /\ disk' = req[t].stage
     \/ FullVerify(TRUE, disk) /\ disk' = disk
  /\ Goto(t, "commit")
  /\ UNCHANGED <<rec, journal, lock, proc, granted>>

EnsureCommit(t)   == Log(t, "commit", "putready", "COMMITTED")
EnsurePutReady(t) == PutStatus(t, "putready", "clean", "READY")

EnsureClean(t) ==
  /\ At(t, "clean")
  /\ Goto(t, "grant")
  /\ DropJournal
  /\ UNCHANGED <<rec, disk, lock, proc, granted>>

(* The handler unlocks and answers READY.                                  *)
Grant(t) ==
  /\ At(t, "grant")
  /\ lock' = NoThread
  /\ granted' = AcquireLease(granted, req[t].who)
  /\ Return(t)
  /\ UNCHANGED <<store, proc>>

(* Where Ensure's fail closure is reached: the registry, the profile lint, *)
(* the free-space check or a blob fails; the final path holds something    *)
(* invalid; or a write to the staging directory or the rename fails.       *)
MayFail(t) ==
  \/ At(t, "fetch") \/ At(t, "download")
  \/ At(t, "publish") /\ disk # "absent" /\ ~FullVerify(TRUE, disk)
  \/ IOErrors /\ req[t].pc \in {"metadata", "ready", "publish"}

(* fail stores FAILED and keeps the lease and the journal.  Only the       *)
(* fsync of the final path's parent fails after the rename was done.       *)
EnsureFail(t) ==
  /\ MayFail(t)
  /\ Goto(t, "unlock")
  /\ rec' = [req[t].copy EXCEPT !.status = "FAILED"]
  /\ \/ disk' = disk
     \/ /\ IOErrors /\ At(t, "publish") /\ disk = "absent"
        /\ disk' = req[t].stage
  /\ UNCHANGED <<journal, lock, proc, granted>>

(* A store, journal or removal error ends any handler at once.  The failed *)
(* write may have taken effect: that is an abort at the next place.        *)
Abort(t) ==
  /\ IOErrors
  /\ req[t].pc \in Critical \ {"unlock"}
  /\ Goto(t, "unlock")
  /\ UNCHANGED <<store, lock, proc, granted>>

-----------------------------------------------------------------------------
(* Release and GC.                                                         *)

Released == [status |-> "RELEASED", path |-> FALSE, leases |-> {}]

StaysReleasing(r, leases) ==                                \* mutant
  [r EXCEPT !.status = "RELEASING", !.leases = leases]

ReleasedAnyway(r, leases) ==                                \* mutant
  [r EXCEPT !.status = "RELEASED", !.leases = leases]

(* The record after a release that does not clean up.                      *)
ReleasedTo(r, leases) == [r EXCEPT !.status = "READY", !.leases = leases]

(* Release of the last lease with --cleanup deletes the directory; any     *)
(* other release stores READY.                                             *)
ReleaseGet(t) ==
  LET left == ReleaseLease(rec.leases, req[t].who)
  IN  /\ At(t, "relget")
      /\ \/ rec = NoRecord /\ Goto(t, "unlock")
         \/ /\ rec # NoRecord
            /\ req[t].op = "cleanup" /\ left = {}
            /\ req' = [req EXCEPT ![t].copy = Released,
                         ![t].pc = IF rec.path /\ disk # "absent"
                                   THEN "remove" ELSE "put"]
         \/ /\ rec # NoRecord
            /\ req[t].op = "release" \/ left # {}
            /\ req' = [req EXCEPT ![t].copy = ReleasedTo(rec, left),
                                  ![t].pc = "put"]
      /\ UNCHANGED <<store, lock, proc, granted>>

GCTrustsList(t) ==                                          \* mutant
  /\ At(t, "gcget")
  /\ rec.path
  /\ req' = [req EXCEPT ![t].copy = Released, ![t].pc = "remove"]
  /\ UNCHANGED <<store, lock, proc, granted>>

(* GC reads the record again under the lock; a dry run stops here.         *)
GCGet(t) ==
  /\ At(t, "gcget")
  /\ \/ /\ GCable(rec, disk)
        /\ req' = [req EXCEPT ![t].copy = Released,
                     ![t].pc = IF disk = "absent" THEN "put" ELSE "remove"]
     \/ Goto(t, "unlock")
  /\ UNCHANGED <<store, lock, proc, granted>>

(* os.RemoveAll deletes the entries one by one, in no order to rely on.    *)
Remove(t) ==
  /\ At(t, "remove")
  /\ Goto(t, "removing")
  /\ \/ disk' = "unmarked"
     \/ HasMarker(disk) /\ disk' = "gutted"
  /\ UNCHANGED <<rec, journal, lock, proc, granted>>

Removed(t) ==
  /\ At(t, "removing")
  /\ Goto(t, "put")
  /\ disk' = "absent"
  /\ UNCHANGED <<rec, journal, lock, proc, granted>>

PutReleased(t) ==
  /\ At(t, "put")
  /\ Goto(t, IF req[t].op = "gc" THEN "drop" ELSE "unlock")
  /\ rec' = req[t].copy
  /\ UNCHANGED <<journal, disk, lock, proc, granted>>

GCDrop(t) ==
  /\ At(t, "drop")
  /\ Goto(t, "unlock")
  /\ DropJournal
  /\ UNCHANGED <<rec, disk, lock, proc, granted>>

-----------------------------------------------------------------------------
(* NewService: Recover runs in every process before it serves, the CLI's   *)
(* included, and takes no model lock.                                      *)

BootAt(p, place) == proc[p].pc = place
BootGoto(p, place) == proc' = [proc EXCEPT ![p].pc = place]
BootDone(p) == proc' = [proc EXCEPT ![p] = Up]

BootStart(p) ==
  /\ BootAt(p, "down")
  /\ BootGoto(p, "list")
  /\ UNCHANGED <<store, lock, req, granted>>

BootList(p) ==
  /\ BootAt(p, "list")
  /\ \/ rec = NoRecord /\ BootDone(p)
     \/ /\ rec # NoRecord
        /\ proc' = [proc EXCEPT ![p].pc = "markers", ![p].snap = rec]
  /\ UNCHANGED <<store, lock, req, granted>>

BootMarkers(p) ==
  /\ BootAt(p, "markers")
  /\ proc' = [proc EXCEPT ![p].pc = "decide", ![p].seen = journal]
  /\ UNCHANGED <<store, lock, req, granted>>

TrustReadyMarker(markers, path, d) ==                       \* mutant
  IF "READY_WRITTEN" \in markers THEN "READY" ELSE "FAILED"

(* An open transaction is completed when it got as far as the READY file   *)
(* and the directory looks right, and failed otherwise.                    *)
Verdict(markers, path, d) ==
  IF "READY_WRITTEN" \in markers /\ QuickVerify(path, d)
  THEN "READY" ELSE "FAILED"

BootDecide(p) ==
  /\ BootAt(p, "decide")
  /\ \/ proc[p].seen = {} /\ BootGoto(p, "check") /\ journal' = journal
     \/ "COMMITTED" \in proc[p].seen /\ BootGoto(p, "check") /\ DropJournal
     \/ /\ proc[p].seen # {} /\ "COMMITTED" \notin proc[p].seen
        /\ proc' = [proc EXCEPT ![p].pc = "put",
             ![p].snap.status = Verdict(proc[p].seen, proc[p].snap.path, disk)]
        /\ journal' = journal
  /\ UNCHANGED <<rec, disk, lock, req, granted>>

BootPut(p) ==
  /\ BootAt(p, "put")
  /\ BootGoto(p, IF proc[p].snap.status = "READY" THEN "mark" ELSE "close")
  /\ rec' = proc[p].snap
  /\ UNCHANGED <<journal, disk, lock, req, granted>>

BootMark(p) ==
  /\ BootAt(p, "mark")
  /\ BootGoto(p, "close")
  /\ journal' = journal \cup {"COMMITTED"}
  /\ UNCHANGED <<rec, disk, lock, req, granted>>

BootClose(p) ==
  /\ BootAt(p, "close")
  /\ BootDone(p)
  /\ DropJournal
  /\ UNCHANGED <<rec, disk, lock, req, granted>>

(* With no open transaction only a READY record is checked.                *)
BootCheck(p) ==
  LET bad == /\ proc[p].snap.status = "READY"
             /\ ~QuickVerify(proc[p].snap.path, disk)
  IN  /\ BootAt(p, "check")
      /\ \/ ~bad /\ BootDone(p)
         \/ /\ bad
            /\ proc' = [proc EXCEPT ![p].pc = "putonly",
                                    ![p].snap.status = "FAILED"]
      /\ UNCHANGED <<store, lock, req, granted>>

BootPutOnly(p) ==
  /\ BootAt(p, "putonly")
  /\ BootDone(p)
  /\ rec' = proc[p].snap
  /\ UNCHANGED <<journal, disk, lock, req, granted>>

(* The process exits or dies: its requests end and the kernel releases     *)
(* their flocks.                                                           *)
Crash(p) ==
  /\ ~BootAt(p, "down")
  /\ proc' = [proc EXCEPT ![p] = Down]
  /\ req' = [t \in Threads |-> IF ProcOf[t] = p THEN Idle ELSE req[t]]
  /\ lock' = IF lock \in Threads /\ ProcOf[lock] = p THEN NoThread ELSE lock
  /\ UNCHANGED <<store, granted>>

-----------------------------------------------------------------------------
EnsureStep(t) ==
  \/ EnsureGet(t) \/ EnsureTouch(t) \/ EnsureResolve(t) \/ EnsureBegin(t)
  \/ EnsureFetch(t) \/ EnsureDownload(t) \/ EnsureVerified(t)
  \/ EnsureVerifying(t) \/ EnsurePublishing(t) \/ EnsureMetadata(t)
  \/ EnsureReady(t) \/ EnsurePublish(t) \/ EnsureCommit(t)
  \/ EnsurePutReady(t) \/ EnsureClean(t) \/ Grant(t) \/ EnsureFail(t)

RemovalStep(t) ==
  \/ ReleaseGet(t) \/ GCGet(t) \/ Remove(t) \/ Removed(t) \/ PutReleased(t)
  \/ GCDrop(t)

(* A handler that holds the lock.                                          *)
HandlerStep(t) == EnsureStep(t) \/ RemovalStep(t) \/ Abort(t) \/ Unlock(t)

RequestStep(t) ==
  \/ \E h \in Holders \cup {NoHolder} : StartEnsure(t, h)
  \/ \E h \in Holders, o \in {"release", "cleanup"} : StartRelease(t, h, o)
  \/ StartGC(t) \/ Acquire(t) \/ GiveUp(t)

RecoverStep(p) ==
  \/ BootList(p) \/ BootMarkers(p) \/ BootDecide(p) \/ BootPut(p)
  \/ BootMark(p) \/ BootClose(p) \/ BootCheck(p) \/ BootPutOnly(p)

Next ==
  \/ \E t \in Threads : HandlerStep(t) \/ RequestStep(t)
  \/ \E p \in Procs : RecoverStep(p) \/ BootStart(p) \/ Crash(p)

Spec == Init /\ [][Next]_vars

(* The Go scheduler keeps running a handler that is not blocked and        *)
(* Recover; the flock is polled, so acquiring it is not fair, and nothing  *)
(* obliges requests to arrive or processes to start or crash.              *)
Fairness ==
  /\ \A t \in Threads : WF_vars(HandlerStep(t))
  /\ \A p \in Procs : WF_vars(RecoverStep(p))

FairSpec == Spec /\ Fairness
-----------------------------------------------------------------------------
(* Properties.                                                             *)

(* No request holds the lock and every process has finished Recover.       *)
Settled == lock = NoThread /\ \A p \in Procs : proc[p].pc = "up"

(* When Ensure is about to answer READY (service.go:407-426, 641-663) the  *)
(* directory holds every shard with the right bytes, whichever processes   *)
(* recover, release or collect meanwhile.                                  *)
GrantServesWhole == \A t \in Threads : At(t, "grant") => disk = "whole"

(* From the moment Ensure answered READY until the client calls Release,   *)
(* the record keeps its lease and its path and the directory stays whole:  *)
(* neither GC, nor the release of another holder, nor a crash and Recover  *)
(* takes the model away.                                                   *)
GrantedModelStays ==
  granted # {} => granted \subseteq rec.leases /\ rec.path /\ disk = "whole"

(* While a client uses the model, the stored status is READY: no other     *)
(* client's request and no recovery turns a model in use into a failed or  *)
(* pending one.                                                            *)
GrantedModelReadsReady == granted # {} => rec.status = "READY"

(* With no handler at work and recovery done, a READY record has a path    *)
(* that passes the quick check: consumers never see a directory with       *)
(* shards, the metadata or the marker missing, whatever step a crash hit.  *)
ReadyIsPublished ==
  Settled /\ rec.status = "READY" => QuickVerify(rec.path, disk)

(* The journal says TXN_COMMITTED only of a directory that is in place.    *)
CommittedIsPublished ==
  "COMMITTED" \in journal => QuickVerify(TRUE, disk)

(* What recovery can leave of an interrupted Ensure: a record that never   *)
(* got a journal, or a complete directory whose record still says          *)
(* PUBLISHING; never a pending record over a torn directory.               *)
OrphanIsBenign ==
  Settled /\ rec.status \in Transient =>
    \/ rec.status = "RESOLVING" /\ journal = {}
    \/ rec.status = "PUBLISHING" /\ disk = "whole"

(* A deletion (Release with cleanup, GC) hits a directory that is in place *)
(* only when nobody but the releasing holder leases the model.             *)
DeletionSparesLeases ==
  [][(disk \in {"whole", "rotten"}) /\ disk' # disk =>
       lock \in Threads /\ ReleaseLease(rec.leases, req[lock].who) = {}]_vars

(* Every handler that takes the model lock releases it again, on success,  *)
(* on failure and when its process dies, so the model is never blocked     *)
(* for good.                                                               *)
LockIsReleased == \A t \in Threads : lock = t ~> lock # t

(* The invariant behind GrantServesWhole, for any number of processes: the *)
(* flock excludes, what passed the digest checks is what gets published,   *)
(* and what was published or verified stays until the handler answers.     *)
Locked == \A t \in Threads : req[t].pc \in Critical => lock = t
StagedWhole ==
  \A t \in Threads :
    req[t].pc \in {"verified", "verifying", "publishing", "metadata", "ready",
                  "publish"} => req[t].stage = "whole"
PlacedWhole ==
  \A t \in Threads :
    req[t].pc \in {"touch", "commit", "putready", "clean", "grant"}
      => disk = "whole"
ServeInv == Locked /\ StagedWhole /\ PlacedWhole

(* What a lease protects, beyond ServeInv, when one process owns the cache *)
(* root: Recover has the store to itself, and each handler's copy of the   *)
(* record keeps the leases of everybody the model was granted to.          *)
ServedWhenUp ==
  \A t \in Threads : req[t].pc # "idle" => proc[ProcOf[t]].pc = "up"
SnapIsCurrent ==
  \A p \in Procs : proc[p].pc \notin {"down", "list", "up"} =>
    proc[p].snap.leases = rec.leases /\ proc[p].snap.path = rec.path
OneRequestPerHolder ==
  \A t, u \in Threads : req[t].who = req[u].who =>
    t = u \/ req[t].who = NoHolder
ReleasingIsUngranted ==
  \A t \in Threads :
    /\ req[t].op \in {"release", "cleanup"} => req[t].who \notin granted
    /\ req[t].pc \in {"lock", "trylock"} => req[t].op # "none"
    /\ req[t].pc = "relget" => req[t].op \in {"release", "cleanup"}
Keeps(r, holders) == holders \subseteq r.leases /\ (holders # {} => r.path)
EnsureKeepsLeases ==
  \A t \in Threads :
    LET holders == AcquireLease(granted, req[t].who)
    IN  /\ req[t].pc \in {"touch", "resolve", "begin", "fetch", "download",
             "verified", "verifying", "publishing", "metadata", "ready",
             "publish", "commit", "putready"} =>
             req[t].copy.path /\ Keeps(req[t].copy, holders)
        /\ req[t].pc \in {"clean", "grant"} => rec.path /\ Keeps(rec, holders)
RemovalIsUnleased ==
  \A t \in Threads :
    /\ req[t].pc \in {"remove", "removing"} =>
         granted = {} /\ ReleaseLease(rec.leases, req[t].who) = {}
    /\ req[t].pc = "removing" => disk \in {"unmarked", "gutted"}
    /\ req[t].pc = "put" => Keeps(req[t].copy, granted)
LeaseInv ==
  /\ ServedWhenUp /\ SnapIsCurrent /\ OneRequestPerHolder
  /\ ReleasingIsUngranted /\ EnsureKeepsLeases /\ RemovalIsUnleased
  /\ GrantedModelStays

(* After a restart no transaction is left half-way: every record is READY, *)
(* FAILED or RELEASED once Recover is done.                                *)
RecoverySettlesTransactions ==
  Settled => rec.status \notin Transient
=============================================================================
