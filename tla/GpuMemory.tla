------------------------------ MODULE GpuMemory ------------------------------
(***************************************************************************)
(* Device memory of one model on one GPU: the handlers of the daemon       *)
(* (GPUAllocate, GPULoad, GPUUnload, GPUAttach, GPUHeartbeat, GPUDetach)   *)
(* over the loader's tables.  Two layers count users of the same memory:   *)
(* the service by leases, allocation records and attachment sessions, the  *)
(* loader by load and importer references on every shard.  GPULoad and     *)
(* GPUUnload hold the model's flock; the attachment handlers do not.       *)
(*                                                                         *)
(* A call of the loader is one step (it holds the loader's mutex; two      *)
(* loads of one shard cannot meet, both hold the flock), and so is a read  *)
(* or a write of the store, which does not fail.  Ensure, Release and GC,  *)
(* modelled step by step in ModelLifecycle, are one step each here.        *)
(***************************************************************************)
EXTENDS Naturals, FiniteSets

CONSTANTS
  Threads,      \* requests in flight
  Allocs,       \* allocation ids that may be handed out
  Holders,      \* lease holders
  Clients,      \* client ids of attachments
  NumShards,    \* weight shards of the model
  LoadSlots,    \* max_concurrent_persistent_loads_per_device
  AttachSlots,  \* max_concurrent_attachments_per_device
  Careful,      \* TRUE: clients use a holder for one allocation at a time,
                \* allocate every shard and ask for an unload once
  MaxRefs,      \* bound: references of one kind to one shard
  NoThread, Unused, Gone, NoClient

ASSUME GpuAssumption ==
  /\ NumShards \in Nat \ {0} /\ MaxRefs \in Nat
  /\ LoadSlots \in Nat \ {0} /\ AttachSlots \in Nat \ {0}
  /\ IsFiniteSet(Threads)
  /\ NoThread \notin Threads /\ NoClient \notin Clients /\ Careful \in BOOLEAN
  /\ Unused \notin Holders /\ Gone \notin Holders /\ Unused # Gone

Shards == 1..NumShards

VARIABLES
  published,  \* the model's record is READY and its directory whole
  leases,     \* the holders in the model's record
  allocs,     \* each allocation's record: its holder, or not there
  loads,      \* loader: load references to each shard; 0: not resident
  imports,    \* loader: importer references to each shard, by client
  sessions,   \* attachMap: how many shards a client attached, and its TTL
  lock,       \* the thread that holds the model's flock
  req,        \* each thread's handler
  told,       \* history: allocations that were answered READY
  promised    \* history: those of them that nobody asked to unload

table == <<published, leases, allocs>>
memory == <<loads, imports>>
vars == <<published, leases, allocs, loads, imports, sessions, lock, req, told,
          promised>>
history == <<told, promised>>

-----------------------------------------------------------------------------
NoSession == [n |-> 0, expired |-> FALSE]

(* alloc and who are the request's allocation and its holder, client its   *)
(* client id; n shards are asked for and the first i are done; had says    *)
(* that the holder had a lease before; todo are the detaches that          *)
(* pruneExpiredAttachments still has to make.                              *)
Idle == [op |-> "none", pc |-> "idle", alloc |-> Unused, who |-> Unused,
         client |-> NoClient, n |-> 0, i |-> 0, had |-> FALSE, todo |-> {}]

Places == {"idle", "ensure", "put", "resolve", "slot", "lock", "lease", "load",
           "undo", "delete", "release", "check", "prune", "pruning", "count",
           "unload", "drop", "attach", "retract", "beat", "take", "detach"}
Ops == {"none", "allocate", "load", "unload", "attach", "heartbeat", "detach"}

TypeOK ==
  /\ published \in BOOLEAN
  /\ leases \in SUBSET Holders
  /\ allocs \in [Allocs -> Holders \cup {Unused, Gone}]
  /\ loads \in [Shards -> 0..MaxRefs]
  /\ imports \in [Shards -> [Clients -> 0..MaxRefs]]
  /\ sessions \in [Clients -> [n : 0..NumShards, expired : BOOLEAN]]
  /\ lock \in Threads \cup {NoThread}
  /\ req \in [Threads ->
       [op : Ops, pc : Places, alloc : Allocs \cup {Unused},
        who : Holders \cup {Unused}, client : Clients \cup {NoClient},
        n : 0..NumShards, i : 0..NumShards, had : BOOLEAN,
        todo : SUBSET (Shards \X Clients)]]
  /\ told \in SUBSET Allocs
  /\ promised \in SUBSET told

Init ==
  /\ published \in BOOLEAN
  /\ leases = {}
  /\ allocs = [a \in Allocs |-> Unused]
  /\ loads = [s \in Shards |-> 0]
  /\ imports = [s \in Shards |-> [c \in Clients |-> 0]]
  /\ sessions = [c \in Clients |-> NoSession]
  /\ lock = NoThread
  /\ req = [t \in Threads |-> Idle]
  /\ told = {}
  /\ promised = {}

At(t, place) == req[t].pc = place
Goto(t, place) == req' = [req EXCEPT ![t].pc = place]
Advance(t, i) == req' = [req EXCEPT ![t].i = i]
Return(t) == req' = [req EXCEPT ![t] = Idle]
Unlock == lock' = NoThread

(* A failed GPULoad inside GPUAllocate makes that delete the allocation;   *)
(* any other handler answers the error.                                    *)
Fail(t) == IF req[t].op = "allocate" THEN Goto(t, "delete") ELSE Return(t)

Loading(t) == req[t].op \in {"allocate", "load"}
            /\ req[t].pc \in {"lock", "lease", "load", "undo"}
Attaching(t) == req[t].op = "attach"
            /\ req[t].pc \in {"prune", "pruning", "attach", "retract"}

-----------------------------------------------------------------------------
(* Requests arrive.                                                        *)
Arrive(t, r) == At(t, "idle") /\ req' = [req EXCEPT ![t] = r]

(* Leases are kept by holder name, so a holder should have one allocation  *)
(* at a time.                                                              *)
InUse(h) ==
  \/ \E a \in Allocs : allocs[a] = h
  \/ \E t \in Threads : req[t].who = h

(* With a ref GPUAllocate ensures the model; otherwise it has to be there. *)
(* n is max_shards.                                                        *)
StartAllocate(t, a, h, n) ==
  /\ allocs[a] = Unused /\ \A u \in Threads : req[u].alloc # a
  /\ Careful => ~InUse(h) /\ n = NumShards
  /\ \E place \in {"ensure", "put"} :
       Arrive(t, [Idle EXCEPT !.op = "allocate", !.pc = place, !.alloc = a,
                              !.who = h, !.n = n])
  /\ UNCHANGED <<table, memory, sessions, lock, history>>

(* The other requests name an allocation that the caller was told of.      *)
StartLoad(t, a, n) ==
  /\ a \in told
  /\ Arrive(t, [Idle EXCEPT !.op = "load", !.pc = "resolve", !.alloc = a,
                            !.n = n])
  /\ UNCHANGED <<table, memory, sessions, lock, history>>

StartUnload(t, a) ==
  /\ a \in told /\ (Careful => a \in promised)
  /\ Arrive(t, [Idle EXCEPT !.op = "unload", !.pc = "resolve", !.alloc = a,
                            !.n = NumShards])
  /\ promised' = promised \ {a}
  /\ UNCHANGED <<table, memory, sessions, lock, told>>

StartAttach(t, a, c, n) ==
  /\ a \in told
  /\ Arrive(t, [Idle EXCEPT !.op = "attach", !.pc = "resolve", !.alloc = a,
                            !.client = c, !.n = n])
  /\ UNCHANGED <<table, memory, sessions, lock, history>>

StartClient(t, a, c, o) ==
  /\ a \in told
  /\ Arrive(t, [Idle EXCEPT !.op = o, !.pc = "resolve", !.alloc = a,
                            !.client = c])
  /\ UNCHANGED <<table, memory, sessions, lock, history>>

-----------------------------------------------------------------------------
(* GPUAllocate before and after its GPULoad.                               *)

(* Ensure publishes the model and takes a lease, or fails: a model that is *)
(* not published then keeps the lease all the same.                        *)
AllocateEnsure(t) ==
  /\ At(t, "ensure") /\ lock = NoThread
  /\ \/ published' = TRUE /\ leases' = leases \cup {req[t].who}
        /\ Goto(t, "put")
     \/ published' = published /\ Return(t)
        /\ leases' \in {leases, leases \cup {req[t].who}}
  /\ UNCHANGED <<allocs, memory, sessions, lock, history>>

AllocatePut(t) ==
  /\ At(t, "put")
  /\ \/ published /\ allocs' = [allocs EXCEPT ![req[t].alloc] = req[t].who]
        /\ Goto(t, "resolve")
     \/ ~published /\ allocs' = allocs /\ Goto(t, "release")
  /\ UNCHANGED <<published, leases, memory, sessions, lock, history>>

AllocateDelete(t) ==
  /\ At(t, "delete")
  /\ allocs' = [allocs EXCEPT ![req[t].alloc] = Gone]
  /\ Goto(t, "release")
  /\ UNCHANGED <<published, leases, memory, sessions, lock, history>>

(* Release without clean-up, which takes and gives back the model's lock.  *)
AllocateRelease(t) ==
  /\ At(t, "release") /\ lock = NoThread
  /\ leases' = leases \ {req[t].who}
  /\ Return(t)
  /\ UNCHANGED <<published, allocs, memory, sessions, lock, history>>

-----------------------------------------------------------------------------
(* What the handlers have in common.                                       *)

(* resolveAllocationTarget finds the allocation and a whole directory.     *)
Resolve(t) ==
  /\ At(t, "resolve")
  /\ allocs[req[t].alloc] \in Holders /\ published
  /\ req' = [req EXCEPT ![t].who = allocs[req[t].alloc],
               ![t].pc = CASE req[t].op \in {"allocate", "load", "attach"} -> "slot"
                           [] req[t].op = "unload" -> "lock"
                           [] OTHER -> "prune"]
  /\ UNCHANGED <<table, memory, sessions, lock, history>>

(* It does not, or no device answers the probe, or the context ends while  *)
(* the handler waits for a slot or for the lock.                           *)
GiveUp(t) ==
  /\ req[t].pc \in {"resolve", "slot", "lock"}
  /\ Fail(t)
  /\ UNCHANGED <<table, memory, sessions, lock, history>>

(* acquireDeviceSlot: a slot of the device, kept until the handler ends.   *)
TakeLoadSlot(t) ==
  /\ At(t, "slot") /\ req[t].op # "attach"
  /\ Cardinality({u \in Threads : Loading(u)}) < LoadSlots
  /\ Goto(t, "lock")
  /\ UNCHANGED <<table, memory, sessions, lock, history>>

TakeAttachSlot(t) ==
  /\ At(t, "slot") /\ req[t].op = "attach"
  /\ Cardinality({u \in Threads : Attaching(u)}) < AttachSlots
  /\ Goto(t, "prune")
  /\ UNCHANGED <<table, memory, sessions, lock, history>>

Acquire(t) ==
  /\ At(t, "lock") /\ lock = NoThread
  /\ lock' = t
  /\ Goto(t, IF req[t].op = "unload" THEN "check" ELSE "lease")
  /\ UNCHANGED <<table, memory, sessions, history>>

(* DetachPersistent: a client that has no reference is not an error.       *)
Detached(s, c) ==
  [imports EXCEPT ![s][c] = IF imports[s][c] > 0 THEN imports[s][c] - 1 ELSE 0]

\* Mutant: the last reference frees the memory although a client imports it.
FreeImported(s) == loads[s] > 0

(* UnloadPersistent gives a reference back; the last one frees the memory, *)
(* unless a client imports it.                                             *)
Unloadable(s) ==
  \/ loads[s] > 1
  \/ loads[s] = 1 /\ \A c \in Clients : imports[s][c] = 0

Unloaded(s) == [loads EXCEPT ![s] = loads[s] - 1]

-----------------------------------------------------------------------------
(* GPULoad in persistent mode, with the slot and the lock.                 *)

(* The record must be READY; the lease is stored before anything is loaded. *)
LoadLease(t) ==
  /\ At(t, "lease")
  /\ \/ /\ published
        /\ leases' = leases \cup {req[t].who}
        /\ req' = [req EXCEPT ![t].pc = "load", ![t].had = req[t].who \in leases]
        /\ lock' = lock
     \/ ~published /\ leases' = leases /\ Unlock /\ Fail(t)
  /\ UNCHANGED <<published, allocs, memory, sessions, history>>

LoadShard(t) ==
  LET s == req[t].i + 1
  IN  /\ At(t, "load") /\ s <= req[t].n
      /\ loads[s] < MaxRefs
      /\ loads' = [loads EXCEPT ![s] = loads[s] + 1]
      /\ Advance(t, s)
      /\ UNCHANGED <<table, imports, sessions, lock, history>>

(* The device is full, a read fails or the context ends.                   *)
LoadBreaks(t) ==
  /\ At(t, "load") /\ req[t].i < req[t].n
  /\ Goto(t, "undo")
  /\ UNCHANGED <<table, memory, sessions, lock, history>>

(* The roll-back unloads what was loaded, last shard first, and goes on    *)
(* when that fails.                                                        *)
LoadUndo(t) ==
  LET s == req[t].i
  IN  /\ At(t, "undo") /\ s > 0
      /\ \/ Unloadable(s) /\ loads' = Unloaded(s)
         \/ loads[s] = 1 /\ loads' = loads
      /\ Advance(t, s - 1)
      /\ UNCHANGED <<table, imports, sessions, lock, history>>

\* Mutant: the roll-back gives up a lease that an earlier load took.
UndoneUnleased(t) ==
  /\ At(t, "undo") /\ req[t].i = 0
  /\ leases' = leases \ {req[t].who}
  /\ Unlock /\ Fail(t)
  /\ UNCHANGED <<published, allocs, memory, sessions, history>>

LoadUndone(t) ==
  /\ At(t, "undo") /\ req[t].i = 0
  /\ leases' = IF req[t].had THEN leases ELSE leases \ {req[t].who}
  /\ Unlock /\ Fail(t)
  /\ UNCHANGED <<published, allocs, memory, sessions, history>>

(* READY: for GPUAllocate the caller now knows the allocation.             *)
LoadReady(t) ==
  /\ At(t, "load") /\ req[t].i = req[t].n
  /\ IF req[t].op = "allocate"
     THEN told' = told \cup {req[t].alloc}
          /\ promised' = promised \cup {req[t].alloc}
     ELSE UNCHANGED <<told, promised>>
  /\ Unlock /\ Return(t)
  /\ UNCHANGED <<table, memory, sessions>>

-----------------------------------------------------------------------------
(* GPUUnload, with the lock.                                               *)

UnloadCheck(t) ==
  /\ At(t, "check")
  /\ \/ req[t].who \in leases /\ Goto(t, "prune") /\ lock' = lock
     \/ req[t].who \notin leases /\ Return(t) /\ Unlock
  /\ UNCHANGED <<table, memory, sessions, history>>

(* countActiveAttachmentsForModel: any session on the model will do.       *)
UnloadCount(t) ==
  /\ At(t, "count")
  /\ \/ /\ \A c \in Clients : sessions[c] = NoSession
        /\ Goto(t, "unload") /\ lock' = lock
     \/ /\ \E c \in Clients : sessions[c] # NoSession
        /\ Return(t) /\ Unlock
  /\ UNCHANGED <<table, memory, sessions, history>>

UnloadShard(t) ==
  LET s == req[t].i + 1
  IN  /\ At(t, "unload") /\ s <= req[t].n
      /\ Unloadable(s)
      /\ loads' = Unloaded(s)
      /\ Advance(t, s)
      /\ UNCHANGED <<table, imports, sessions, lock, history>>

(* The shard is not resident or is imported, the device fails to free it   *)
(* or the context ends: what was unloaded stays unloaded.                  *)
UnloadBreaks(t) ==
  /\ At(t, "unload") /\ req[t].i < req[t].n
  /\ Return(t) /\ Unlock
  /\ UNCHANGED <<table, memory, sessions, history>>

UnloadLease(t) ==
  /\ At(t, "unload") /\ req[t].i = req[t].n
  /\ leases' = leases \ {req[t].who}
  /\ Goto(t, "drop")
  /\ UNCHANGED <<published, allocs, memory, sessions, lock, history>>

UnloadDrop(t) ==
  /\ At(t, "drop")
  /\ allocs' = [allocs EXCEPT ![req[t].alloc] = Gone]
  /\ Return(t) /\ Unlock
  /\ UNCHANGED <<published, leases, memory, sessions, history>>

-----------------------------------------------------------------------------
(* pruneExpiredAttachments: the expired sessions leave attachMap at once,  *)
(* and then every shard of each is detached, without the mutex and         *)
(* whatever the loader answers.                                            *)
Expired == {c \in Clients : sessions[c].expired}

Prune(t) ==
  /\ At(t, "prune")
  /\ sessions' = [c \in Clients |-> IF c \in Expired THEN NoSession ELSE sessions[c]]
  /\ req' = [req EXCEPT ![t].pc = "pruning",
       ![t].todo = {d \in Shards \X Expired : d[1] <= sessions[d[2]].n}]
  /\ UNCHANGED <<table, memory, lock, history>>

PruneDetach(t) ==
  /\ At(t, "pruning")
  /\ \E d \in req[t].todo :
       /\ imports' = Detached(d[1], d[2])
       /\ req' = [req EXCEPT ![t].todo = @ \ {d}]
  /\ UNCHANGED <<table, loads, sessions, lock, history>>

Pruned(t) ==
  /\ At(t, "pruning") /\ req[t].todo = {}
  /\ Goto(t, CASE req[t].op = "unload"    -> "count"
               [] req[t].op = "attach"    -> "attach"
               [] req[t].op = "heartbeat" -> "beat"
               [] OTHER                   -> "take")
  /\ UNCHANGED <<table, memory, sessions, lock, history>>

-----------------------------------------------------------------------------
(* GPUAttach, GPUHeartbeat and GPUDetach.                                  *)

AttachShard(t) ==
  LET s == req[t].i + 1
      c == req[t].client
  IN  /\ At(t, "attach") /\ s <= req[t].n
      /\ loads[s] > 0 /\ imports[s][c] < MaxRefs
      /\ imports' = [imports EXCEPT ![s][c] = @ + 1]
      /\ Advance(t, s)
      /\ UNCHANGED <<table, loads, sessions, lock, history>>

(* The shard is not resident, or the context ends.                         *)
AttachBreaks(t) ==
  /\ At(t, "attach") /\ req[t].i < req[t].n
  /\ Goto(t, "retract")
  /\ UNCHANGED <<table, memory, sessions, lock, history>>

AttachUndo(t) ==
  LET s == req[t].i
  IN  /\ At(t, "retract") /\ s > 0
      /\ imports' = Detached(s, req[t].client)
      /\ Advance(t, s - 1)
      /\ UNCHANGED <<table, loads, sessions, lock, history>>

AttachUndone(t) ==
  /\ At(t, "retract") /\ req[t].i = 0
  /\ Return(t)
  /\ UNCHANGED <<table, memory, sessions, lock, history>>

\* Mutant: the shards are appended to those of the client's last session.
AppendSession(t) ==
  /\ At(t, "attach") /\ req[t].i = req[t].n
  /\ sessions' = [sessions EXCEPT ![req[t].client] =
                    [n |-> @.n + req[t].n, expired |-> FALSE]]
  /\ Return(t)
  /\ UNCHANGED <<table, memory, lock, history>>

(* A session the client already had is replaced.                           *)
AttachReady(t) ==
  /\ At(t, "attach") /\ req[t].i = req[t].n
  /\ sessions' = [sessions EXCEPT ![req[t].client] =
                    [n |-> req[t].n, expired |-> FALSE]]
  /\ Return(t)
  /\ UNCHANGED <<table, memory, lock, history>>

Heartbeat(t) ==
  /\ At(t, "beat")
  /\ sessions' = [sessions EXCEPT ![req[t].client].expired = FALSE]
  /\ Return(t)
  /\ UNCHANGED <<table, memory, lock, history>>

(* GPUDetach deletes the session first and detaches its shards then.       *)
DetachTake(t) ==
  LET c == req[t].client
  IN  /\ At(t, "take")
      /\ sessions' = [sessions EXCEPT ![c] = NoSession]
      /\ req' = [req EXCEPT ![t].pc = "detach", ![t].n = sessions[c].n]
      /\ UNCHANGED <<table, memory, lock, history>>

DetachShard(t) ==
  LET s == req[t].i + 1
  IN  /\ At(t, "detach") /\ s <= req[t].n
      /\ imports' = Detached(s, req[t].client)
      /\ Advance(t, s)
      /\ UNCHANGED <<table, loads, sessions, lock, history>>

(* All shards are detached, or the context ended before that.              *)
DetachEnd(t) ==
  /\ At(t, "detach")
  /\ Return(t)
  /\ UNCHANGED <<table, memory, sessions, lock, history>>

-----------------------------------------------------------------------------
(* The time to live of a session passes without a heartbeat.               *)
Expire(c) ==
  /\ sessions[c] # NoSession /\ ~sessions[c].expired
  /\ sessions' = [sessions EXCEPT ![c].expired = TRUE]
  /\ UNCHANGED <<table, memory, lock, req, history>>

(* GC removes a model that nobody leases.                                  *)
Collect ==
  /\ published /\ leases = {} /\ lock = NoThread
  /\ published' = FALSE
  /\ UNCHANGED <<leases, allocs, memory, sessions, lock, req, history>>

(* The daemon dies and starts again: device memory and sessions go with    *)
(* the process, Recover clears the allocations, the leases stay.           *)
Restart ==
  /\ allocs' = [a \in Allocs |-> IF allocs[a] = Unused THEN Unused ELSE Gone]
  /\ loads' = [s \in Shards |-> 0]
  /\ imports' = [s \in Shards |-> [c \in Clients |-> 0]]
  /\ sessions' = [c \in Clients |-> NoSession]
  /\ lock' = NoThread
  /\ req' = [t \in Threads |-> Idle]
  /\ told' = {} /\ promised' = {}
  /\ UNCHANGED <<published, leases>>

-----------------------------------------------------------------------------
RequestStep(t) ==
  \/ \E a \in Allocs, h \in Holders, n \in Shards : StartAllocate(t, a, h, n)
  \/ \E a \in Allocs, n \in Shards : StartLoad(t, a, n)
  \/ \E a \in Allocs : StartUnload(t, a)
  \/ \E a \in Allocs, c \in Clients, n \in Shards : StartAttach(t, a, c, n)
  \/ \E a \in Allocs, c \in Clients, o \in {"heartbeat", "detach"} :
       StartClient(t, a, c, o)
  \/ Resolve(t) \/ GiveUp(t) \/ TakeLoadSlot(t) \/ TakeAttachSlot(t) \/ Acquire(t)

LoadStep(t) ==
  \/ AllocateEnsure(t) \/ AllocatePut(t) \/ AllocateDelete(t) \/ AllocateRelease(t)
  \/ LoadLease(t) \/ LoadShard(t) \/ LoadBreaks(t) \/ LoadUndo(t)
  \/ LoadUndone(t) \/ LoadReady(t)

UnloadStep(t) ==
  \/ UnloadCheck(t) \/ UnloadCount(t) \/ UnloadShard(t) \/ UnloadBreaks(t)
  \/ UnloadLease(t) \/ UnloadDrop(t)

ClientStep(t) ==
  \/ Prune(t) \/ PruneDetach(t) \/ Pruned(t)
  \/ AttachShard(t) \/ AttachBreaks(t) \/ AttachUndo(t) \/ AttachUndone(t)
  \/ AttachReady(t) \/ Heartbeat(t)
  \/ DetachTake(t) \/ DetachShard(t) \/ DetachEnd(t)

Next ==
  \/ \E t \in Threads : RequestStep(t) \/ LoadStep(t) \/ UnloadStep(t) \/ ClientStep(t)
  \/ \E c \in Clients : Expire(c)
  \/ Collect \/ Restart

Spec == Init /\ [][Next]_vars
-----------------------------------------------------------------------------
(* Properties.                                                             *)

(* While attachMap has a client's session (gpu.go:1108-1126), the shards   *)
(* it attached are resident and the loader counts the client as an         *)
(* importer, whoever unloads, expires or detaches meanwhile: no client     *)
(* maps memory that was freed.                                             *)
SessionIsResident ==
  \A c \in Clients : \A s \in 1..sessions[c].n :
    loads[s] > 0 /\ imports[s][c] > 0

(* An allocation that was answered READY (gpu.go:450-469) and that nobody  *)
(* asked to unload is resident on every shard, and its holder's lease      *)
(* keeps the model from GC, whatever happens to other allocations.         *)
AllocatedMemoryStays ==
  \A a \in promised :
    /\ published /\ allocs[a] \in leases
    /\ \A s \in Shards : loads[s] > 0

(* An allocation that was answered READY keeps at least its first shard,   *)
(* which every load loads, until somebody asks to unload it: whatever      *)
(* other clients do, and how often they repeat a failed request.           *)
LoadedForProcessLifetime == \A a \in promised : loads[1] > 0

(* With no request in flight and no session, the loader counts no          *)
(* importer: detach, or the end of the time to live, lets an unload free   *)
(* the memory.                                                             *)
DetachedIsUnpinned ==
  (\A t \in Threads : At(t, "idle")) /\ (\A c \in Clients : sessions[c].n = 0)
    => \A s \in Shards, c \in Clients : imports[s][c] = 0
=============================================================================
