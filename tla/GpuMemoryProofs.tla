-------------------------- MODULE GpuMemoryProofs --------------------------
(***************************************************************************)
(* The safety of device memory under the daemon's handlers, for any number *)
(* of requests, allocations, holders, clients and shards.                  *)
(***************************************************************************)
EXTENDS GpuMemory, FiniteSetTheorems, TLAPS

Requests ==
  [op : Ops, pc : Places, alloc : Allocs \cup {Unused},
   who : Holders \cup {Unused}, client : Clients \cup {NoClient},
   n : 0..NumShards, i : 0..NumShards, had : BOOLEAN,
   todo : SUBSET (Shards \X Clients)]

(* The places a handler goes through.                                      *)
OnTheWay(op, pc) ==
  /\ op = "none" => pc = "idle"
  /\ op = "allocate" => pc \in {"ensure", "put", "resolve", "slot", "lock", "lease",
                                "load", "undo", "delete", "release"}
  /\ op = "load" => pc \in {"resolve", "slot", "lock", "lease", "load", "undo"}
  /\ op = "unload" => pc \in {"resolve", "lock", "check", "prune", "pruning",
                              "count", "unload", "drop"}
  /\ op = "attach" => pc \in {"resolve", "slot", "prune", "pruning", "attach",
                              "retract"}
  /\ op = "heartbeat" => pc \in {"resolve", "prune", "pruning", "beat"}
  /\ op = "detach" => pc \in {"resolve", "prune", "pruning", "take", "detach"}

Counting == {"load", "undo", "unload", "drop", "attach", "retract", "detach"}

(* A request is at a place of its handler, with what that place needs: an  *)
(* allocation and, once that is resolved, its holder; a client to attach   *)
(* or detach; a count of the shards that are done; and detaches to make    *)
(* only where it prunes.                                                   *)
Consistent(r) ==
  /\ OnTheWay(r.op, r.pc)
  /\ r.op \in {"attach", "heartbeat", "detach"} => r.client \in Clients
  /\ r.op # "none" => r.alloc \in Allocs
  /\ \/ r.who \in Holders \/ r.op = "none"
     \/ r.pc = "resolve" /\ r.op # "allocate"
  /\ r.todo = {} \/ r.pc = "pruning"
  /\ r.i = 0 \/ r.pc \in Counting
  /\ r.i <= r.n

RequestsOK ==
  /\ req \in [Threads -> Requests]
  /\ \A t \in Threads : Consistent(req[t])

TablesOK ==
  /\ published \in BOOLEAN
  /\ leases \in SUBSET Holders
  /\ allocs \in [Allocs -> Holders \cup {Unused, Gone}]
  /\ loads \in [Shards -> 0..MaxRefs]
  /\ imports \in [Shards -> [Clients -> 0..MaxRefs]]
  /\ sessions \in [Clients -> [n : 0..NumShards, expired : BOOLEAN]]
  /\ lock \in Threads \cup {NoThread}
  /\ told \in SUBSET Allocs
  /\ promised \in SUBSET told

(* A request r owes client c's reference to shard s: it took it and has    *)
(* not filed the session yet, or it took the session away and has not      *)
(* given the reference back yet.                                           *)
Owes(r, s, c) ==
  \/ r.client = c /\ r.op = "attach" /\ r.pc \in {"attach", "retract"} /\ s <= r.i
  \/ r.client = c /\ r.op = "detach" /\ r.pc = "detach" /\ r.i < s /\ s <= r.n
  \/ <<s, c>> \in r.todo

Importers(s, c) ==
  {t \in Threads : Owes(req[t], s, c)}
    \cup (IF s <= sessions[c].n THEN {NoThread} ELSE {})

(* Every owner of a reference is counted by the loader, and a shard with   *)
(* an importer is resident.                                                *)
Counted == \A s \in Shards, c \in Clients : Cardinality(Importers(s, c)) <= imports[s][c]

Resident == \A s \in Shards, c \in Clients : imports[s][c] > 0 => loads[s] > 0

AttachInv == Counted /\ Resident

(* The flock is held from the acquisition to the end of the handler.       *)
HoldsLock(r) ==
  \/ r.pc \in {"lease", "load", "undo", "check", "count", "unload", "drop"}
  \/ r.op = "unload" /\ r.pc \in {"prune", "pruning"}

LockHeld == \A t \in Threads : HoldsLock(req[t]) => lock = t

Unstored == {"ensure", "put"}

Stored == {"resolve", "slot", "lock", "lease", "load", "undo"}

(* Careful clients: a holder belongs to one allocation, and an allocation  *)
(* that GPUAllocate is at is nobody else's and not told yet.               *)
OneAllocation ==
  /\ \A a, b \in Allocs : allocs[a] \in Holders /\ allocs[a] = allocs[b] => a = b
  /\ \A t \in Threads, a \in Allocs :
       req[t].who \in Holders /\ allocs[a] = req[t].who => a = req[t].alloc
  /\ \A t, u \in Threads :
       req[t].who \in Holders /\ req[t].who = req[u].who => req[t].alloc = req[u].alloc

Allocating ==
  /\ \A t, u \in Threads : req[t].op = "allocate" /\ u # t /\ req[u].op # "none"
                            => req[u].alloc # req[t].alloc
  /\ \A t \in Threads : req[t].op = "allocate" =>
       /\ req[t].alloc \notin told /\ req[t].n = NumShards
       /\ req[t].pc \in Unstored => allocs[req[t].alloc] = Unused
       /\ req[t].pc \in Stored => allocs[req[t].alloc] = req[t].who
  /\ \A a \in told : allocs[a] # Unused

Unloading == \A t \in Threads : req[t].op = "unload" =>
               req[t].alloc \notin promised /\ req[t].n = NumShards

(* The lease of a promised allocation is in the record, and no load that   *)
(* stored its own lease and may give it back shares it.                    *)
Leased ==
  /\ \A a \in promised : allocs[a] \in leases
  /\ promised # {} => published
  /\ \A t \in Threads : req[t].pc = "load" => req[t].who \in leases /\ published
  /\ \A t \in Threads : req[t].pc \in {"load", "undo"} /\ ~req[t].had
                         => \A a \in promised : allocs[a] # req[t].who

(* A handler owns a load reference to shard s: it loaded the shard and has *)
(* neither answered nor rolled back, or it unloads the allocation and has  *)
(* not come to s.                                                          *)
Takes(r, s) ==
  \/ r.pc \in {"load", "undo"} /\ s <= r.i
  \/ r.op = "unload" /\ r.pc # "drop" /\ r.i < s

Takers(s) == {t \in Threads : Takes(req[t], s)}

(* The loader counts the promised allocations and those handlers.          *)
References ==
  /\ IsFiniteSet(promised)
  /\ \A s \in Shards : Cardinality(promised) + Cardinality(Takers(s)) <= loads[s]

MemoryInv ==
  LockHeld /\ OneAllocation /\ Allocating /\ Unloading /\ Leased /\ References

-----------------------------------------------------------------------------
(* Types.                                                                  *)

LEMMA TypeParts == TypeOK <=> TablesOK /\ req \in [Threads -> Requests]
  BY DEF TypeOK, TablesOK, Requests

LEMMA IdleIsRequest ==
  /\ Idle \in Requests /\ Consistent(Idle)
  /\ Idle.op = "none" /\ Idle.pc = "idle" /\ Idle.i = 0 /\ Idle.todo = {}
  /\ Idle.who = Unused
  BY GpuAssumption DEF Idle, Requests, Places, Ops, Consistent, OnTheWay

LEMMA TypesInit == Init => TablesOK /\ RequestsOK
  <1> SUFFICES ASSUME Init PROVE TablesOK /\ RequestsOK
    OBVIOUS
  <1>1. RequestsOK
    BY IdleIsRequest DEF Init, RequestsOK
  <1>2. sessions \in [Clients -> [n : 0..NumShards, expired : BOOLEAN]]
    BY GpuAssumption DEF Init, NoSession
  <1>3. imports \in [Shards -> [Clients -> 0..MaxRefs]] /\ loads \in [Shards -> 0..MaxRefs]
    BY GpuAssumption DEF Init
  <1> QED
    BY <1>1, <1>2, <1>3 DEF Init, TablesOK

(* What the ways to change a request leave of it.                          *)
Others(t) == \A u \in Threads \ {t} : req'[u] = req[u]

Became(t, r) == req' = [req EXCEPT ![t] = r]

LEMMA RequestKept ==
  ASSUME NEW t \in Threads, NEW r, RequestsOK, Became(t, r), r \in Requests, Consistent(r)
  PROVE  RequestsOK' /\ Others(t) /\ req'[t] = r
  BY DEF RequestsOK, Others, Became

LEMMA GotoKept ==
  ASSUME NEW t \in Threads, NEW x \in Places, RequestsOK, Goto(t, x),
         OnTheWay(req[t].op, x), x # "pruning" => req[t].todo = {},
         x \in Counting \/ req[t].i = 0, req[t].who \in Holders
  PROVE  /\ RequestsOK' /\ Others(t)
         /\ req'[t] = [req[t] EXCEPT !.pc = x]
  <1> DEFINE r == [req[t] EXCEPT !.pc = x]
  <1>1. req[t] \in Requests /\ Consistent(req[t])
    BY DEF RequestsOK
  <1>2. r \in Requests
    BY <1>1 DEF Requests
  <1>3. Consistent(r)
    BY <1>1 DEF Requests, Consistent
  <1>4. Became(t, r)
    BY <1>1 DEF Goto, RequestsOK, Became
  <1> QED
    BY <1>2, <1>3, <1>4, RequestKept

LEMMA AdvanceKept ==
  ASSUME NEW t \in Threads, NEW i \in 0..req[t].n, RequestsOK, Advance(t, i),
         req[t].pc \in Counting
  PROVE  /\ RequestsOK' /\ Others(t)
         /\ req'[t] = [req[t] EXCEPT !.i = i]
  <1> DEFINE r == [req[t] EXCEPT !.i = i]
  <1>1. req[t] \in Requests /\ Consistent(req[t])
    BY DEF RequestsOK
  <1>2. req[t].n \in 0..NumShards
    BY <1>1 DEF Requests
  <1>3. r \in Requests
    BY <1>1, <1>2, GpuAssumption DEF Requests
  <1>4. Consistent(r)
    BY <1>1, <1>2, GpuAssumption DEF Requests, Consistent
  <1>5. Became(t, r)
    BY <1>1 DEF Advance, RequestsOK, Became
  <1> QED
    BY <1>3, <1>4, <1>5, RequestKept

LEMMA ReturnKept ==
  ASSUME NEW t \in Threads, RequestsOK, Return(t)
  PROVE  RequestsOK' /\ Others(t) /\ req'[t] = Idle
  BY IdleIsRequest, RequestKept DEF Return, Became

LEMMA RequestFields ==
  ASSUME NEW t \in Threads, RequestsOK
  PROVE  /\ req[t].op \in Ops /\ req[t].pc \in Places
         /\ req[t].alloc \in Allocs \cup {Unused}
         /\ req[t].who \in Holders \cup {Unused}
         /\ req[t].client \in Clients \cup {NoClient}
         /\ req[t].n \in 0..NumShards /\ req[t].i \in 0..NumShards
         /\ req[t].had \in BOOLEAN /\ req[t].todo \in SUBSET (Shards \X Clients)
         /\ Consistent(req[t])
  BY DEF RequestsOK, Requests

(* What a place tells of the request that is there.                        *)
LEMMA AtPlace ==
  ASSUME NEW t \in Threads, RequestsOK
  PROVE  /\ req[t].pc \notin {"idle", "resolve"} => req[t].who \in Holders
         /\ req[t].pc \in {"attach", "retract", "beat", "take", "detach"}
              => req[t].client \in Clients
         /\ req[t].pc # "idle" => req[t].alloc \in Allocs
  BY RequestFields DEF Consistent, OnTheWay, Ops

LEMMA FailKept ==
  ASSUME NEW t \in Threads, RequestsOK, Fail(t), req[t].i = 0, req[t].todo = {}
  PROVE  /\ RequestsOK' /\ Others(t)
         /\ \/ req'[t] = Idle
            \/ req[t].op = "allocate" /\ req'[t] = [req[t] EXCEPT !.pc = "delete"]
  <1>1. CASE req[t].op = "allocate"
    BY <1>1, GotoKept, RequestFields DEF Fail, OnTheWay, Places, Consistent
  <1>2. CASE req[t].op # "allocate"
    BY <1>2, ReturnKept DEF Fail
  <1> QED
    BY <1>1, <1>2



LEMMA RequestsNext == RequestsOK /\ TablesOK /\ [Next]_vars => RequestsOK'
  <1> SUFFICES ASSUME RequestsOK, TablesOK, [Next]_vars PROVE RequestsOK'
    OBVIOUS
  <1> USE GpuAssumption DEF At
  <1>1. ASSUME NEW t \in Threads, NEW a \in Allocs, NEW h \in Holders, NEW k \in Shards, StartAllocate(t, a, h, k)
        PROVE  RequestsOK'
    <2>1. PICK x \in {"ensure", "put"} : Became(t, [Idle EXCEPT !.op = "allocate", !.pc = x, !.alloc = a, !.who = h, !.n = k])
      BY <1>1 DEF StartAllocate, Arrive, Became
    <2> DEFINE r == [Idle EXCEPT !.op = "allocate", !.pc = x, !.alloc = a, !.who = h, !.n = k]
    <2>2. "allocate" \in Ops /\ x \in Places /\ k \in 0..NumShards
      BY DEF Ops, Places, Shards
    <2>3. r \in Requests
      BY <2>2, IdleIsRequest DEF Requests
    <2>4. Consistent(r)
      BY <2>3, IdleIsRequest DEF Requests, OnTheWay, Consistent, Shards
    <2> QED
      BY <2>1, <2>3, <2>4, RequestKept
  <1>2. ASSUME NEW t \in Threads, NEW a \in Allocs, NEW k \in Shards, StartLoad(t, a, k)
        PROVE  RequestsOK'
    <2>1. Became(t, [Idle EXCEPT !.op = "load", !.pc = "resolve", !.alloc = a, !.n = k])
      BY <1>2 DEF StartLoad, Arrive, Became
    <2> DEFINE r == [Idle EXCEPT !.op = "load", !.pc = "resolve", !.alloc = a, !.n = k]
    <2>2. "load" \in Ops /\ "resolve" \in Places /\ k \in 0..NumShards
      BY DEF Ops, Places, Shards
    <2>3. r \in Requests
      BY <2>2, IdleIsRequest DEF Requests
    <2>4. Consistent(r)
      BY <2>3, IdleIsRequest DEF Requests, OnTheWay, Consistent, Shards
    <2> QED
      BY <2>1, <2>3, <2>4, RequestKept
  <1>3. ASSUME NEW t \in Threads, NEW a \in Allocs, StartUnload(t, a)
        PROVE  RequestsOK'
    <2>1. Became(t, [Idle EXCEPT !.op = "unload", !.pc = "resolve", !.alloc = a, !.n = NumShards])
      BY <1>3 DEF StartUnload, Arrive, Became
    <2> DEFINE r == [Idle EXCEPT !.op = "unload", !.pc = "resolve", !.alloc = a, !.n = NumShards]
    <2>2. "unload" \in Ops /\ "resolve" \in Places /\ NumShards \in 0..NumShards
      BY DEF Ops, Places, Shards
    <2>3. r \in Requests
      BY <2>2, IdleIsRequest DEF Requests
    <2>4. Consistent(r)
      BY <2>3, IdleIsRequest DEF Requests, OnTheWay, Consistent, Shards
    <2> QED
      BY <2>1, <2>3, <2>4, RequestKept
  <1>4. ASSUME NEW t \in Threads, NEW a \in Allocs, NEW c \in Clients, NEW k \in Shards, StartAttach(t, a, c, k)
        PROVE  RequestsOK'
    <2>1. Became(t, [Idle EXCEPT !.op = "attach", !.pc = "resolve", !.alloc = a, !.client = c, !.n = k])
      BY <1>4 DEF StartAttach, Arrive, Became
    <2> DEFINE r == [Idle EXCEPT !.op = "attach", !.pc = "resolve", !.alloc = a, !.client = c, !.n = k]
    <2>2. "attach" \in Ops /\ "resolve" \in Places /\ k \in 0..NumShards
      BY DEF Ops, Places, Shards
    <2>3. r \in Requests
      BY <2>2, IdleIsRequest DEF Requests
    <2>4. Consistent(r)
      BY <2>3, IdleIsRequest DEF Requests, OnTheWay, Consistent, Shards
    <2> QED
      BY <2>1, <2>3, <2>4, RequestKept
  <1>5. ASSUME NEW t \in Threads, NEW a \in Allocs, NEW c \in Clients, NEW o \in {"heartbeat", "detach"}, StartClient(t, a, c, o)
        PROVE  RequestsOK'
    <2>1. Became(t, [Idle EXCEPT !.op = o, !.pc = "resolve", !.alloc = a, !.client = c])
      BY <1>5 DEF StartClient, Arrive, Became
    <2> DEFINE r == [Idle EXCEPT !.op = o, !.pc = "resolve", !.alloc = a, !.client = c]
    <2>2. o \in Ops /\ "resolve" \in Places
      BY DEF Ops, Places, Shards
    <2>3. r \in Requests
      BY <2>2, IdleIsRequest DEF Requests
    <2>4. Consistent(r)
      BY <2>3, IdleIsRequest DEF Requests, OnTheWay, Consistent, Shards
    <2> QED
      BY <2>1, <2>3, <2>4, RequestKept
  <1>6. ASSUME NEW t \in Threads, AllocateDelete(t)
        PROVE  RequestsOK'
    BY <1>6, GotoKept, RequestFields DEF AllocateDelete, OnTheWay, Consistent, Places, Counting, Ops
  <1>7. ASSUME NEW t \in Threads, TakeLoadSlot(t)
        PROVE  RequestsOK'
    BY <1>7, GotoKept, RequestFields DEF TakeLoadSlot, OnTheWay, Consistent, Places, Counting, Ops
  <1>8. ASSUME NEW t \in Threads, TakeAttachSlot(t)
        PROVE  RequestsOK'
    BY <1>8, GotoKept, RequestFields DEF TakeAttachSlot, OnTheWay, Consistent, Places, Counting, Ops
  <1>9. ASSUME NEW t \in Threads, Acquire(t)
        PROVE  RequestsOK'
    BY <1>9, GotoKept, RequestFields DEF Acquire, OnTheWay, Consistent, Places, Counting, Ops
  <1>10. ASSUME NEW t \in Threads, LoadBreaks(t)
        PROVE  RequestsOK'
    BY <1>10, GotoKept, RequestFields DEF LoadBreaks, OnTheWay, Consistent, Places, Counting, Ops
  <1>11. ASSUME NEW t \in Threads, UnloadLease(t)
        PROVE  RequestsOK'
    BY <1>11, GotoKept, RequestFields DEF UnloadLease, OnTheWay, Consistent, Places, Counting, Ops
  <1>12. ASSUME NEW t \in Threads, Pruned(t)
        PROVE  RequestsOK'
    BY <1>12, GotoKept, RequestFields DEF Pruned, OnTheWay, Consistent, Places, Counting, Ops
  <1>13. ASSUME NEW t \in Threads, AttachBreaks(t)
        PROVE  RequestsOK'
    BY <1>13, GotoKept, RequestFields DEF AttachBreaks, OnTheWay, Consistent, Places, Counting, Ops
  <1>14. ASSUME NEW t \in Threads, AllocateEnsure(t)
        PROVE  RequestsOK'
    BY <1>14, GotoKept, ReturnKept, RequestFields
    DEF AllocateEnsure, OnTheWay, Consistent, Places, Counting, Ops
  <1>15. ASSUME NEW t \in Threads, AllocatePut(t)
        PROVE  RequestsOK'
    BY <1>15, GotoKept, ReturnKept, RequestFields
    DEF AllocatePut, OnTheWay, Consistent, Places, Counting, Ops
  <1>16. ASSUME NEW t \in Threads, UnloadCheck(t)
        PROVE  RequestsOK'
    BY <1>16, GotoKept, ReturnKept, RequestFields
    DEF UnloadCheck, OnTheWay, Consistent, Places, Counting, Ops
  <1>17. ASSUME NEW t \in Threads, UnloadCount(t)
        PROVE  RequestsOK'
    BY <1>17, GotoKept, ReturnKept, RequestFields
    DEF UnloadCount, OnTheWay, Consistent, Places, Counting, Ops
  <1>18. ASSUME NEW t \in Threads, AllocateRelease(t)
        PROVE  RequestsOK'
    BY <1>18, ReturnKept DEF AllocateRelease
  <1>19. ASSUME NEW t \in Threads, LoadReady(t)
        PROVE  RequestsOK'
    BY <1>19, ReturnKept DEF LoadReady
  <1>20. ASSUME NEW t \in Threads, UnloadBreaks(t)
        PROVE  RequestsOK'
    BY <1>20, ReturnKept DEF UnloadBreaks
  <1>21. ASSUME NEW t \in Threads, UnloadDrop(t)
        PROVE  RequestsOK'
    BY <1>21, ReturnKept DEF UnloadDrop
  <1>22. ASSUME NEW t \in Threads, AttachUndone(t)
        PROVE  RequestsOK'
    BY <1>22, ReturnKept DEF AttachUndone
  <1>23. ASSUME NEW t \in Threads, AttachReady(t)
        PROVE  RequestsOK'
    BY <1>23, ReturnKept DEF AttachReady
  <1>24. ASSUME NEW t \in Threads, Heartbeat(t)
        PROVE  RequestsOK'
    BY <1>24, ReturnKept DEF Heartbeat
  <1>25. ASSUME NEW t \in Threads, DetachEnd(t)
        PROVE  RequestsOK'
    BY <1>25, ReturnKept DEF DetachEnd
  <1>26. ASSUME NEW t \in Threads, GiveUp(t)
        PROVE  RequestsOK'
    BY <1>26, FailKept, RequestFields DEF GiveUp, Consistent, Counting
  <1>27. ASSUME NEW t \in Threads, LoadUndone(t)
        PROVE  RequestsOK'
    BY <1>27, FailKept, RequestFields DEF LoadUndone, Consistent, Counting
  <1>28. ASSUME NEW t \in Threads, LoadShard(t)
        PROVE  RequestsOK'
    <2>1. Advance(t, req[t].i + 1) /\ req[t].pc \in Counting
      BY <1>28 DEF LoadShard, Counting
    <2>2. req[t].i + 1 \in 0..req[t].n
      BY <1>28, RequestFields DEF LoadShard, Consistent
    <2> QED
      BY <2>1, <2>2, AdvanceKept
  <1>29. ASSUME NEW t \in Threads, LoadUndo(t)
        PROVE  RequestsOK'
    <2>1. Advance(t, req[t].i - 1) /\ req[t].pc \in Counting
      BY <1>29 DEF LoadUndo, Counting
    <2>2. req[t].i - 1 \in 0..req[t].n
      BY <1>29, RequestFields DEF LoadUndo, Consistent
    <2> QED
      BY <2>1, <2>2, AdvanceKept
  <1>30. ASSUME NEW t \in Threads, UnloadShard(t)
        PROVE  RequestsOK'
    <2>1. Advance(t, req[t].i + 1) /\ req[t].pc \in Counting
      BY <1>30 DEF UnloadShard, Counting
    <2>2. req[t].i + 1 \in 0..req[t].n
      BY <1>30, RequestFields DEF UnloadShard, Consistent
    <2> QED
      BY <2>1, <2>2, AdvanceKept
  <1>31. ASSUME NEW t \in Threads, AttachShard(t)
        PROVE  RequestsOK'
    <2>1. Advance(t, req[t].i + 1) /\ req[t].pc \in Counting
      BY <1>31 DEF AttachShard, Counting
    <2>2. req[t].i + 1 \in 0..req[t].n
      BY <1>31, RequestFields DEF AttachShard, Consistent
    <2> QED
      BY <2>1, <2>2, AdvanceKept
  <1>32. ASSUME NEW t \in Threads, AttachUndo(t)
        PROVE  RequestsOK'
    <2>1. Advance(t, req[t].i - 1) /\ req[t].pc \in Counting
      BY <1>32 DEF AttachUndo, Counting
    <2>2. req[t].i - 1 \in 0..req[t].n
      BY <1>32, RequestFields DEF AttachUndo, Consistent
    <2> QED
      BY <2>1, <2>2, AdvanceKept
  <1>33. ASSUME NEW t \in Threads, DetachShard(t)
        PROVE  RequestsOK'
    <2>1. Advance(t, req[t].i + 1) /\ req[t].pc \in Counting
      BY <1>33 DEF DetachShard, Counting
    <2>2. req[t].i + 1 \in 0..req[t].n
      BY <1>33, RequestFields DEF DetachShard, Consistent
    <2> QED
      BY <2>1, <2>2, AdvanceKept
  <1>34. ASSUME NEW t \in Threads, LoadLease(t)
        PROVE  RequestsOK'
    <2>1. CASE ~published
      BY <1>34, <2>1, FailKept, RequestFields DEF LoadLease, Consistent, Counting
    <2>2. CASE published
      <3> DEFINE had == req[t].who \in leases
                 r == [req[t] EXCEPT !.pc = "load", !.had = had]
      <3>1. req[t].pc = "lease" /\ req' = [req EXCEPT ![t].pc = "load", ![t].had = had]
        BY <1>34, <2>2 DEF LoadLease
      <3>2. req[t] \in Requests /\ Consistent(req[t])
        BY DEF RequestsOK
      <3>6. had \in BOOLEAN
        BY SMT
      <3> HIDE DEF had
      <3>3. r \in Requests
        BY <3>2, <3>6 DEF Requests, Places
      <3>4. Consistent(r)
        BY <3>1, <3>2 DEF Requests, OnTheWay, Consistent, Places, Counting
      <3>5. Became(t, r)
        BY <3>1, <3>2 DEF RequestsOK, Requests, Became
      <3> QED
        BY <3>3, <3>4, <3>5, RequestKept
    <2> QED
      BY <2>1, <2>2
  <1>35. ASSUME NEW t \in Threads, Resolve(t)
        PROVE  RequestsOK'
    <2> DEFINE r == [req[t] EXCEPT !.who = allocs[req[t].alloc],
             !.pc = CASE req[t].op \in {"allocate", "load", "attach"} -> "slot"
                      [] req[t].op = "unload" -> "lock"
                      [] OTHER -> "prune"]
    <2>1. req[t] \in Requests /\ Consistent(req[t])
      BY DEF RequestsOK
    <2>2. r \in Requests
      BY <1>35, <2>1 DEF Resolve, Requests, Places
    <2>3. Consistent(r)
      BY <1>35, <2>1 DEF Resolve, Requests, OnTheWay, Consistent, Places, Counting
    <2>4. Became(t, r)
      BY <1>35, <2>1 DEF Resolve, RequestsOK, Requests, Became
    <2> QED
      BY <2>2, <2>3, <2>4, RequestKept
  <1>36. ASSUME NEW t \in Threads, Prune(t)
        PROVE  RequestsOK'
    <2> DEFINE r == [req[t] EXCEPT !.pc = "pruning",
             !.todo = {d \in Shards \X Expired : d[1] <= sessions[d[2]].n}]
    <2>1. req[t] \in Requests /\ Consistent(req[t])
      BY DEF RequestsOK
    <2>2. r \in Requests
      BY <1>36, <2>1 DEF Prune, Requests, Places, Expired
    <2>3. Consistent(r)
      BY <1>36, <2>1 DEF Prune, Requests, OnTheWay, Consistent, Places, Counting, Expired
    <2>4. Became(t, r)
      BY <1>36, <2>1 DEF Prune, RequestsOK, Requests, Became
    <2> QED
      BY <2>2, <2>3, <2>4, RequestKept
  <1>37. ASSUME NEW t \in Threads, DetachTake(t)
        PROVE  RequestsOK'
    <2> DEFINE n == sessions[req[t].client].n
               r == [req[t] EXCEPT !.pc = "detach", !.n = n]
    <2>1. req[t] \in Requests /\ Consistent(req[t])
      BY DEF RequestsOK
    <2>2. req[t].op = "detach" /\ req[t].pc = "take"
      BY <1>37, <2>1 DEF DetachTake, Requests, Ops, Consistent, OnTheWay
    <2>3. n \in 0..NumShards
      BY <2>1, <2>2 DEF TablesOK, Consistent
    <2>4. Became(t, r)
      BY <1>37, <2>1 DEF DetachTake, RequestsOK, Requests, Became
    <2> HIDE DEF n
    <2>5. r \in Requests
      BY <2>1, <2>2, <2>3 DEF Requests, Places
    <2>6. Consistent(r)
      BY <2>1, <2>2, <2>3 DEF Requests, OnTheWay, Consistent, Places, Counting
    <2> QED
      BY <2>4, <2>5, <2>6, RequestKept
  <1>38. ASSUME NEW t \in Threads, PruneDetach(t)
        PROVE  RequestsOK'
    <2>1. PICK d \in req[t].todo : req' = [req EXCEPT ![t].todo = @ \ {d}]
      BY <1>38 DEF PruneDetach
    <2> DEFINE r == [req[t] EXCEPT !.todo = @ \ {d}]
    <2>2. req[t] \in Requests /\ Consistent(req[t]) /\ req[t].pc = "pruning"
      BY <1>38 DEF RequestsOK, PruneDetach
    <2>3. r \in Requests
      BY <2>2 DEF Requests
    <2>4. Consistent(r)
      BY <2>2 DEF Requests, Consistent
    <2>5. Became(t, r)
      BY <2>1, <2>2 DEF RequestsOK, Requests, Became
    <2> QED
      BY <2>3, <2>4, <2>5, RequestKept
  <1>39. ASSUME UNCHANGED req
        PROVE  RequestsOK'
    BY <1>39 DEF RequestsOK
  <1>40. ASSUME Restart
        PROVE  RequestsOK'
    BY <1>40, IdleIsRequest DEF Restart, RequestsOK
  <1> QED
    BY <1>1, <1>2, <1>3, <1>4, <1>5, <1>6, <1>7, <1>8, <1>9, <1>10, <1>11, <1>12, <1>13, <1>14,
       <1>15, <1>16, <1>17, <1>18, <1>19, <1>20, <1>21, <1>22, <1>23, <1>24, <1>25, <1>26, <1>27,
       <1>28, <1>29, <1>30, <1>31, <1>32, <1>33, <1>34, <1>35, <1>36, <1>37, <1>38, <1>39, <1>40
    DEF Next, vars, RequestStep, LoadStep, UnloadStep, ClientStep, Expire, Collect


LEMMA TablesNext == RequestsOK /\ TablesOK /\ [Next]_vars => TablesOK'
  <1> SUFFICES ASSUME RequestsOK, TablesOK, [Next]_vars PROVE TablesOK'
    OBVIOUS
  <1> USE GpuAssumption DEF TablesOK, At, table, memory, history
  <1>1. ASSUME NEW t \in Threads, NEW a \in Allocs, NEW h \in Holders, NEW k \in Shards, StartAllocate(t, a, h, k)
        PROVE  TablesOK'
    BY <1>1 DEF StartAllocate
  <1>2. ASSUME NEW t \in Threads, NEW a \in Allocs, NEW k \in Shards, StartLoad(t, a, k)
        PROVE  TablesOK'
    BY <1>2 DEF StartLoad
  <1>3. ASSUME NEW t \in Threads, NEW a \in Allocs, StartUnload(t, a)
        PROVE  TablesOK'
    BY <1>3 DEF StartUnload
  <1>4. ASSUME NEW t \in Threads, NEW a \in Allocs, NEW c \in Clients, NEW k \in Shards, StartAttach(t, a, c, k)
        PROVE  TablesOK'
    BY <1>4 DEF StartAttach
  <1>5. ASSUME NEW t \in Threads, NEW a \in Allocs, NEW c \in Clients, NEW o \in {"heartbeat", "detach"}, StartClient(t, a, c, o)
        PROVE  TablesOK'
    BY <1>5 DEF StartClient
  <1>6. ASSUME NEW t \in Threads, Resolve(t)
        PROVE  TablesOK'
    BY <1>6, RequestFields DEF Resolve, Consistent
  <1>7. ASSUME NEW t \in Threads, GiveUp(t)
        PROVE  TablesOK'
    BY <1>7, RequestFields DEF GiveUp, Consistent
  <1>8. ASSUME NEW t \in Threads, TakeLoadSlot(t)
        PROVE  TablesOK'
    BY <1>8, RequestFields DEF TakeLoadSlot, Consistent
  <1>9. ASSUME NEW t \in Threads, TakeAttachSlot(t)
        PROVE  TablesOK'
    BY <1>9, RequestFields DEF TakeAttachSlot, Consistent
  <1>10. ASSUME NEW t \in Threads, Acquire(t)
        PROVE  TablesOK'
    BY <1>10, RequestFields DEF Acquire, Consistent
  <1>11. ASSUME NEW t \in Threads, AllocateEnsure(t)
        PROVE  TablesOK'
    <2>1. req[t].who \in Holders
      BY <1>11, AtPlace DEF AllocateEnsure
    <2> QED
      BY <1>11, <2>1 DEF AllocateEnsure
  <1>12. ASSUME NEW t \in Threads, AllocatePut(t)
        PROVE  TablesOK'
    BY <1>12, RequestFields DEF AllocatePut, Consistent
  <1>13. ASSUME NEW t \in Threads, AllocateDelete(t)
        PROVE  TablesOK'
    BY <1>13, RequestFields DEF AllocateDelete, Consistent
  <1>14. ASSUME NEW t \in Threads, AllocateRelease(t)
        PROVE  TablesOK'
    BY <1>14, RequestFields DEF AllocateRelease, Consistent
  <1>15. ASSUME NEW t \in Threads, LoadLease(t)
        PROVE  TablesOK'
    <2>1. req[t].who \in Holders
      BY <1>15, AtPlace DEF LoadLease
    <2> QED
      BY <1>15, <2>1 DEF LoadLease, Unlock
  <1>16. ASSUME NEW t \in Threads, LoadShard(t)
        PROVE  TablesOK'
    <2> DEFINE s == req[t].i + 1
    <2>1. s \in Shards
      BY <1>16, RequestFields, AtPlace DEF LoadShard, Shards, Consistent
    <2> HIDE DEF s
    <2>2. loads' \in [Shards -> 0..MaxRefs]
      BY <1>16, <2>1 DEF LoadShard, s
    <2> QED
      BY <1>16, <2>2 DEF LoadShard
  <1>17. ASSUME NEW t \in Threads, LoadBreaks(t)
        PROVE  TablesOK'
    BY <1>17, RequestFields DEF LoadBreaks, Consistent
  <1>18. ASSUME NEW t \in Threads, LoadUndo(t)
        PROVE  TablesOK'
    BY <1>18, RequestFields DEF LoadUndo, Unloadable, Unloaded, Consistent
  <1>19. ASSUME NEW t \in Threads, LoadUndone(t)
        PROVE  TablesOK'
    BY <1>19, RequestFields DEF LoadUndone, Unlock, Consistent
  <1>20. ASSUME NEW t \in Threads, LoadReady(t)
        PROVE  TablesOK'
    BY <1>20, RequestFields DEF LoadReady, Unlock, Consistent
  <1>21. ASSUME NEW t \in Threads, UnloadCheck(t)
        PROVE  TablesOK'
    BY <1>21, RequestFields DEF UnloadCheck, Unlock, Consistent
  <1>22. ASSUME NEW t \in Threads, UnloadCount(t)
        PROVE  TablesOK'
    BY <1>22, RequestFields DEF UnloadCount, Unlock, Consistent
  <1>23. ASSUME NEW t \in Threads, UnloadShard(t)
        PROVE  TablesOK'
    <2> DEFINE s == req[t].i + 1
    <2>1. s \in Shards
      BY <1>23, RequestFields, AtPlace DEF UnloadShard, Shards, Consistent
    <2> HIDE DEF s
    <2>2. loads' \in [Shards -> 0..MaxRefs]
      BY <1>23, <2>1 DEF UnloadShard, Unloadable, Unloaded, s
    <2> QED
      BY <1>23, <2>2 DEF UnloadShard
  <1>24. ASSUME NEW t \in Threads, UnloadBreaks(t)
        PROVE  TablesOK'
    BY <1>24, RequestFields DEF UnloadBreaks, Unlock, Consistent
  <1>25. ASSUME NEW t \in Threads, UnloadLease(t)
        PROVE  TablesOK'
    BY <1>25, RequestFields DEF UnloadLease, Consistent
  <1>26. ASSUME NEW t \in Threads, UnloadDrop(t)
        PROVE  TablesOK'
    BY <1>26, RequestFields DEF UnloadDrop, Unlock, Consistent
  <1>27. ASSUME NEW t \in Threads, Prune(t)
        PROVE  TablesOK'
    BY <1>27, RequestFields DEF Prune, NoSession, Consistent
  <1>28. ASSUME NEW t \in Threads, PruneDetach(t)
        PROVE  TablesOK'
    BY <1>28, RequestFields DEF PruneDetach, Detached, Consistent
  <1>29. ASSUME NEW t \in Threads, Pruned(t)
        PROVE  TablesOK'
    BY <1>29, RequestFields DEF Pruned, Consistent
  <1>30. ASSUME NEW t \in Threads, AttachShard(t)
        PROVE  TablesOK'
    <2> DEFINE s == req[t].i + 1
    <2>1. s \in Shards /\ req[t].client \in Clients
      BY <1>30, RequestFields, AtPlace DEF AttachShard, Shards, Consistent
    <2> HIDE DEF s
    <2>2. imports' \in [Shards -> [Clients -> 0..MaxRefs]]
      BY <1>30, <2>1 DEF AttachShard, s
    <2> QED
      BY <1>30, <2>2 DEF AttachShard
  <1>31. ASSUME NEW t \in Threads, AttachBreaks(t)
        PROVE  TablesOK'
    BY <1>31, RequestFields DEF AttachBreaks, Consistent
  <1>32. ASSUME NEW t \in Threads, AttachUndo(t)
        PROVE  TablesOK'
    <2> DEFINE s == req[t].i
    <2>1. s \in Shards /\ req[t].client \in Clients
      BY <1>32, RequestFields, AtPlace DEF AttachUndo, Shards, Consistent
    <2> HIDE DEF s
    <2>2. imports' \in [Shards -> [Clients -> 0..MaxRefs]]
      BY <1>32, <2>1 DEF AttachUndo, Detached, s
    <2> QED
      BY <1>32, <2>2 DEF AttachUndo
  <1>33. ASSUME NEW t \in Threads, AttachUndone(t)
        PROVE  TablesOK'
    BY <1>33, RequestFields DEF AttachUndone, Consistent
  <1>34. ASSUME NEW t \in Threads, AttachReady(t)
        PROVE  TablesOK'
    BY <1>34, RequestFields DEF AttachReady, Consistent
  <1>35. ASSUME NEW t \in Threads, Heartbeat(t)
        PROVE  TablesOK'
    BY <1>35, RequestFields DEF Heartbeat, Consistent
  <1>36. ASSUME NEW t \in Threads, DetachTake(t)
        PROVE  TablesOK'
    <2>1. sessions' = [sessions EXCEPT ![req[t].client] = NoSession]
      BY <1>36 DEF DetachTake
    <2>2. NoSession \in [n : 0..NumShards, expired : BOOLEAN]
      BY DEF NoSession
    <2>3. sessions' \in [Clients -> [n : 0..NumShards, expired : BOOLEAN]]
      BY <2>1, <2>2
    <2> QED
      BY <1>36, <2>3 DEF DetachTake
  <1>37. ASSUME NEW t \in Threads, DetachShard(t)
        PROVE  TablesOK'
    <2> DEFINE s == req[t].i + 1
    <2>1. s \in Shards /\ req[t].client \in Clients
      BY <1>37, RequestFields, AtPlace DEF DetachShard, Shards, Consistent
    <2> HIDE DEF s
    <2>2. imports' \in [Shards -> [Clients -> 0..MaxRefs]]
      BY <1>37, <2>1 DEF DetachShard, Detached, s
    <2> QED
      BY <1>37, <2>2 DEF DetachShard
  <1>38. ASSUME NEW t \in Threads, DetachEnd(t)
        PROVE  TablesOK'
    BY <1>38, RequestFields DEF DetachEnd, Consistent
  <1>39. ASSUME NEW c \in Clients, Expire(c)
        PROVE  TablesOK'
    BY <1>39 DEF Expire
  <1>40. ASSUME Collect
        PROVE  TablesOK'
    BY <1>40 DEF Collect
  <1>41. ASSUME Restart
        PROVE  TablesOK'
    BY <1>41 DEF Restart, NoSession
  <1>42. ASSUME UNCHANGED vars
        PROVE  TablesOK'
    BY <1>42 DEF vars
  <1> QED
    BY <1>1, <1>2, <1>3, <1>4, <1>5, <1>6, <1>7, <1>8, <1>9, <1>10, <1>11, <1>12, <1>13, <1>14,
       <1>15, <1>16, <1>17, <1>18, <1>19, <1>20, <1>21, <1>22, <1>23, <1>24, <1>25, <1>26, <1>27,
       <1>28, <1>29, <1>30, <1>31, <1>32, <1>33, <1>34, <1>35, <1>36, <1>37, <1>38, <1>39, <1>40,
       <1>41, <1>42
    DEF Next, RequestStep, LoadStep, UnloadStep, ClientStep


LEMMA TypesInductive == Spec => [](TablesOK /\ RequestsOK)
  BY TypesInit, RequestsNext, TablesNext, PTL DEF Spec

(* Every variable keeps its type (the records of gpu.go and the tables of  *)
(* gds_linux.go), for any number of requests, allocations and shards.      *)
THEOREM TypeCorrect == Spec => []TypeOK
  <1>1. TablesOK /\ RequestsOK => TypeOK
    BY TypeParts DEF RequestsOK
  <1> QED
    BY <1>1, TypesInductive, PTL

-----------------------------------------------------------------------------
(* Counting owners: a set that grows or shrinks by one element.            *)

LEMMA CountKept ==
  ASSUME NEW S, NEW T, IsFiniteSet(S), T \subseteq S
  PROVE  IsFiniteSet(T) /\ Cardinality(T) \in Nat /\ Cardinality(S) \in Nat
         /\ Cardinality(T) <= Cardinality(S)
  BY FS_Subset, FS_CardinalityType

LEMMA CountAdded ==
  ASSUME NEW S, NEW T, NEW x, IsFiniteSet(S), T \subseteq S \cup {x}
  PROVE  Cardinality(T) \in Nat /\ Cardinality(S) \in Nat
         /\ Cardinality(T) <= Cardinality(S) + 1
  <1>1. IsFiniteSet(S \cup {x})
        /\ Cardinality(S \cup {x}) = IF x \in S THEN Cardinality(S) ELSE Cardinality(S) + 1
    BY FS_AddElement
  <1>2. Cardinality(S) \in Nat
    BY FS_CardinalityType
  <1>3. Cardinality(S \cup {x}) <= Cardinality(S) + 1
    BY <1>1, <1>2
  <1>4. Cardinality(T) \in Nat /\ Cardinality(T) <= Cardinality(S \cup {x})
    BY <1>1, CountKept
  <1>5. Cardinality(S \cup {x}) \in Nat
    BY <1>1, FS_CardinalityType
  <1> QED
    BY <1>2, <1>3, <1>4, <1>5

LEMMA CountRemoved ==
  ASSUME NEW S, NEW T, NEW x \in S, IsFiniteSet(S), T \subseteq S \ {x}
  PROVE  Cardinality(T) \in Nat /\ Cardinality(S) \in Nat
         /\ Cardinality(T) + 1 <= Cardinality(S)
  <1>1. IsFiniteSet(S \ {x}) /\ Cardinality(S \ {x}) = Cardinality(S) - 1
    BY FS_RemoveElement
  <1>2. Cardinality(S) \in Nat
    BY FS_CardinalityType
  <1>3. Cardinality(T) \in Nat /\ Cardinality(T) <= Cardinality(S \ {x})
    BY <1>1, CountKept
  <1> QED
    BY <1>1, <1>2, <1>3

LEMMA CountMoved ==
  ASSUME NEW S, NEW T, NEW x \in S, NEW y, IsFiniteSet(S), T \subseteq (S \ {x}) \cup {y}
  PROVE  Cardinality(T) \in Nat /\ Cardinality(S) \in Nat
         /\ Cardinality(T) <= Cardinality(S)
  <1>1. IsFiniteSet(S \ {x}) /\ Cardinality(S) \in Nat
        /\ Cardinality(S \ {x}) + 1 <= Cardinality(S) /\ Cardinality(S \ {x}) \in Nat
    BY FS_RemoveElement, CountRemoved
  <1>2. Cardinality(T) \in Nat /\ Cardinality(T) <= Cardinality(S \ {x}) + 1
    BY <1>1, CountAdded
  <1> QED
    BY <1>1, <1>2

LEMMA ImportersFinite ==
  ASSUME NEW s, NEW c
  PROVE  IsFiniteSet(Importers(s, c))
  <1>1. IsFiniteSet(Threads \cup {NoThread})
    BY GpuAssumption, FS_AddElement
  <1>2. Importers(s, c) \subseteq Threads \cup {NoThread}
    BY DEF Importers
  <1> QED
    BY <1>1, <1>2, CountKept

-----------------------------------------------------------------------------
(* Sessions.                                                               *)

Owing == {"attach", "retract", "detach", "pruning"}

LEMMA NotOwing ==
  ASSUME NEW r, Consistent(r), r.pc \notin Owing, NEW s, NEW c
  PROVE  ~Owes(r, s, c)
  BY DEF Owes, Consistent, Owing

(* A step of thread t that leaves the references and the sessions alone    *)
(* and after which t owes no more than before.                             *)
Quiet(t) ==
  /\ Others(t)
  /\ imports' = imports /\ \A c \in Clients : sessions'[c].n = sessions[c].n
  /\ \A s \in Shards, c \in Clients : Owes(req'[t], s, c) => Owes(req[t], s, c)

LEMMA QuietKeepsCount ==
  ASSUME NEW t \in Threads, Quiet(t), Counted, TablesOK
  PROVE  Counted'
  <1> SUFFICES ASSUME NEW s \in Shards, NEW c \in Clients
               PROVE  Cardinality(Importers(s, c)') <= imports'[s][c]
    BY DEF Counted
  <1>1. Importers(s, c)' \subseteq Importers(s, c)
    BY DEF Importers, Quiet, Others
  <1>2. imports[s][c] \in Nat /\ Cardinality(Importers(s, c)) <= imports[s][c]
    BY GpuAssumption DEF TablesOK, Counted
  <1> QED
    BY <1>1, <1>2, ImportersFinite, CountKept DEF Quiet

LEMMA AttachInvInit == Init => AttachInv
  <1> SUFFICES ASSUME Init PROVE AttachInv
    OBVIOUS
  <1>1. \A s \in Shards, c \in Clients : Importers(s, c) = {}
    BY NotOwing, IdleIsRequest, GpuAssumption DEF Init, Importers, NoSession, Shards, Owing
  <1> QED
    BY <1>1, FS_EmptySet DEF Init, AttachInv, Counted, Resident

(* The steps that are quiet: the thread is then at a place that owes       *)
(* nothing, or owes what it owed.                                          *)
LEMMA QuietSteps ==
  ASSUME NEW t \in Threads, RequestsOK, RequestsOK', TablesOK,
         \/ RequestStep(t) \/ LoadStep(t) \/ UnloadStep(t)
         \/ Pruned(t) \/ AttachBreaks(t) \/ AttachUndone(t) \/ Heartbeat(t) \/ DetachEnd(t)
  PROVE  Quiet(t)
  <1> USE IdleIsRequest, GpuAssumption DEF At, table, memory, Others
  <1>a. req[t] \in Requests /\ req \in [Threads -> Requests] /\ Consistent(req[t])
    BY DEF RequestsOK
  <1>b. ASSUME Others(t), req'[t].pc \notin Owing, UNCHANGED <<imports, sessions>>
        PROVE  Quiet(t)
    BY <1>b, NotOwing DEF Quiet, RequestsOK
  <1>1. ASSUME NEW a \in Allocs, NEW h \in Holders, NEW k \in Shards, StartAllocate(t, a, h, k)
        PROVE  Quiet(t)
    BY <1>1, <1>a, <1>b DEF StartAllocate, Arrive, Requests, Owing
  <1>2. ASSUME NEW a \in Allocs, NEW k \in Shards, StartLoad(t, a, k)
        PROVE  Quiet(t)
    BY <1>2, <1>a, <1>b DEF StartLoad, Arrive, Requests, Owing
  <1>3. ASSUME NEW a \in Allocs, StartUnload(t, a)
        PROVE  Quiet(t)
    BY <1>3, <1>a, <1>b DEF StartUnload, Arrive, Requests, Owing
  <1>4. ASSUME NEW a \in Allocs, NEW c \in Clients, NEW k \in Shards, StartAttach(t, a, c, k)
        PROVE  Quiet(t)
    BY <1>4, <1>a, <1>b DEF StartAttach, Arrive, Requests, Owing
  <1>5. ASSUME NEW a \in Allocs, NEW c \in Clients, NEW o \in {"heartbeat", "detach"}, StartClient(t, a, c, o)
        PROVE  Quiet(t)
    BY <1>5, <1>a, <1>b DEF StartClient, Arrive, Requests, Owing
  <1>6. ASSUME Resolve(t)
        PROVE  Quiet(t)
    BY <1>6, <1>a, <1>b DEF Resolve, Requests, Owing
  <1>7. ASSUME GiveUp(t)
        PROVE  Quiet(t)
    BY <1>7, <1>a, <1>b DEF GiveUp, Fail, Goto, Return, Requests, Owing
  <1>8. ASSUME TakeLoadSlot(t)
        PROVE  Quiet(t)
    BY <1>8, <1>a, <1>b DEF TakeLoadSlot, Goto, Requests, Owing
  <1>9. ASSUME TakeAttachSlot(t)
        PROVE  Quiet(t)
    BY <1>9, <1>a, <1>b DEF TakeAttachSlot, Goto, Requests, Owing
  <1>10. ASSUME Acquire(t)
        PROVE  Quiet(t)
    BY <1>10, <1>a, <1>b DEF Acquire, Goto, Requests, Owing
  <1>11. ASSUME AllocateEnsure(t)
        PROVE  Quiet(t)
    BY <1>11, <1>a, <1>b DEF AllocateEnsure, Goto, Return, Requests, Owing
  <1>12. ASSUME AllocatePut(t)
        PROVE  Quiet(t)
    BY <1>12, <1>a, <1>b DEF AllocatePut, Goto, Requests, Owing
  <1>13. ASSUME AllocateDelete(t)
        PROVE  Quiet(t)
    BY <1>13, <1>a, <1>b DEF AllocateDelete, Goto, Requests, Owing
  <1>14. ASSUME AllocateRelease(t)
        PROVE  Quiet(t)
    BY <1>14, <1>a, <1>b DEF AllocateRelease, Return, Requests, Owing
  <1>15. ASSUME LoadLease(t)
        PROVE  Quiet(t)
    BY <1>15, <1>a, <1>b DEF LoadLease, Fail, Goto, Return, Requests, Owing
  <1>16. ASSUME LoadShard(t)
        PROVE  Quiet(t)
    BY <1>16, <1>a, <1>b DEF LoadShard, Advance, Requests, Owing
  <1>17. ASSUME LoadBreaks(t)
        PROVE  Quiet(t)
    BY <1>17, <1>a, <1>b DEF LoadBreaks, Goto, Requests, Owing
  <1>18. ASSUME LoadUndo(t)
        PROVE  Quiet(t)
    BY <1>18, <1>a, <1>b DEF LoadUndo, Advance, Requests, Owing
  <1>19. ASSUME LoadUndone(t)
        PROVE  Quiet(t)
    BY <1>19, <1>a, <1>b DEF LoadUndone, Fail, Goto, Return, Requests, Owing
  <1>20. ASSUME LoadReady(t)
        PROVE  Quiet(t)
    BY <1>20, <1>a, <1>b DEF LoadReady, Return, Requests, Owing
  <1>21. ASSUME UnloadCheck(t)
        PROVE  Quiet(t)
    BY <1>21, <1>a, <1>b DEF UnloadCheck, Goto, Return, Requests, Owing
  <1>22. ASSUME UnloadCount(t)
        PROVE  Quiet(t)
    BY <1>22, <1>a, <1>b DEF UnloadCount, Goto, Return, Requests, Owing
  <1>23. ASSUME UnloadShard(t)
        PROVE  Quiet(t)
    BY <1>23, <1>a, <1>b DEF UnloadShard, Advance, Requests, Owing
  <1>24. ASSUME UnloadBreaks(t)
        PROVE  Quiet(t)
    BY <1>24, <1>a, <1>b DEF UnloadBreaks, Return, Requests, Owing
  <1>25. ASSUME UnloadLease(t)
        PROVE  Quiet(t)
    BY <1>25, <1>a, <1>b DEF UnloadLease, Goto, Requests, Owing
  <1>26. ASSUME UnloadDrop(t)
        PROVE  Quiet(t)
    BY <1>26, <1>a, <1>b DEF UnloadDrop, Return, Requests, Owing
  <1>27. ASSUME AttachUndone(t)
        PROVE  Quiet(t)
    BY <1>27, <1>a, <1>b DEF AttachUndone, Return, Requests, Owing
  <1>28. ASSUME DetachEnd(t)
        PROVE  Quiet(t)
    BY <1>28, <1>a, <1>b DEF DetachEnd, Return, Requests, Owing
  <1>29. ASSUME Heartbeat(t)
        PROVE  Quiet(t)
    <2>1. Others(t) /\ req'[t].pc = "idle"
      BY <1>29, <1>a DEF Heartbeat, Return
    <2>2. imports' = imports /\ \A c \in Clients : sessions'[c].n = sessions[c].n
      BY <1>29 DEF Heartbeat, TablesOK
    <2> QED
      BY <2>1, <2>2, NotOwing DEF Quiet, RequestsOK, Owing
  <1>30. ASSUME Pruned(t)
        PROVE  Quiet(t)
    <2>1. Others(t) /\ UNCHANGED <<imports, sessions>> /\ req[t].i = 0 /\ req[t].todo = {}
      BY <1>30, <1>a DEF Pruned, Goto, Consistent, Counting
    <2>2. \E x \in {"count", "attach", "beat", "take"} : req'[t] = [req[t] EXCEPT !.pc = x]
      BY <1>30, <1>a DEF Pruned, Goto
    <2> QED
      BY <1>a, <2>1, <2>2 DEF Quiet, Owes, Shards, Requests
  <1>31. ASSUME AttachBreaks(t)
        PROVE  Quiet(t)
    <2>1. Others(t) /\ UNCHANGED <<imports, sessions>> /\ req[t].pc = "attach"
          /\ req'[t] = [req[t] EXCEPT !.pc = "retract"]
      BY <1>31, <1>a DEF AttachBreaks, Goto
    <2> QED
      BY <1>a, <2>1 DEF Quiet, Owes, Requests
  <1> QED
    BY <1>1, <1>2, <1>3, <1>4, <1>5, <1>6, <1>7, <1>8, <1>9, <1>10, <1>11, <1>12, <1>13, <1>14,
       <1>15, <1>16, <1>17, <1>18, <1>19, <1>20, <1>21, <1>22, <1>23, <1>24, <1>25, <1>26, <1>27,
       <1>28, <1>29, <1>30, <1>31
    DEF RequestStep, LoadStep, UnloadStep


(* The steps that are not.                                                 *)
LEMMA CountedNext == RequestsOK /\ TablesOK /\ RequestsOK' /\ Counted /\ [Next]_vars => Counted'
  <1> SUFFICES ASSUME RequestsOK, TablesOK, RequestsOK', Counted, [Next]_vars
               PROVE  Counted'
    OBVIOUS
  <1> USE GpuAssumption DEF At
  <1>a. \A s \in Shards, c \in Clients :
          /\ imports[s][c] \in Nat /\ Cardinality(Importers(s, c)) \in Nat
          /\ Cardinality(Importers(s, c)) <= imports[s][c]
    BY ImportersFinite, FS_CardinalityType DEF TablesOK, Counted
  <1>1. ASSUME NEW t \in Threads, Prune(t)
        PROVE  Counted'
    <2>1. /\ imports' = imports /\ Others(t) /\ ~Owes(req[t], 0, 0)
          /\ sessions' = [c \in Clients |-> IF c \in Expired THEN NoSession ELSE sessions[c]]
          /\ req'[t].todo = {d \in Shards \X Expired : d[1] <= sessions[d[2]].n}
          /\ req'[t].pc = "pruning"
      BY <1>1, NotOwing DEF Prune, memory, Others, RequestsOK, Requests, Owing
    <2> SUFFICES ASSUME NEW s \in Shards, NEW c \in Clients
                 PROVE  Cardinality(Importers(s, c)') <= imports'[s][c]
      BY DEF Counted
    <2>2. CASE c \in Expired /\ s <= sessions[c].n
      <3>1. NoThread \in Importers(s, c)
        BY <2>2 DEF Importers
      <3>2. Importers(s, c)' \subseteq (Importers(s, c) \ {NoThread}) \cup {t}
        BY <2>1, <2>2 DEF Importers, Others, NoSession, Shards
      <3>3. Cardinality(Importers(s, c)') \in Nat
            /\ Cardinality(Importers(s, c)') <= Cardinality(Importers(s, c))
        <4> DEFINE old == Importers(s, c)
                   new == Importers(s, c)'
        <4>1. IsFiniteSet(old)
          BY ImportersFinite
        <4> HIDE DEF old, new
        <4>2. Cardinality(new) \in Nat /\ Cardinality(new) <= Cardinality(old)
          BY <3>1, <3>2, <4>1, CountMoved DEF old, new
        <4> QED
          BY <4>2 DEF old, new
      <3> QED
        BY <1>a, <2>1, <3>3
    <2>3. CASE ~(c \in Expired /\ s <= sessions[c].n)
      <3>1. <<s, c>> \notin req'[t].todo
        BY <2>1, <2>3
      <3>2. ~Owes(req'[t], s, c)
        BY <2>1, <3>1 DEF Owes
      <3>3. s <= sessions'[c].n => s <= sessions[c].n
        BY <2>1, <2>3 DEF NoSession, Shards
      <3>4. Importers(s, c)' \subseteq Importers(s, c)
        BY <2>1, <3>2, <3>3 DEF Importers, Others
      <3> QED
        BY <1>a, <2>1, <3>4, CountKept, ImportersFinite
    <2> QED
      BY <2>2, <2>3
  <1>2. ASSUME NEW t \in Threads, PruneDetach(t)
        PROVE  Counted'
    <2>1. PICK d \in req[t].todo : /\ imports' = Detached(d[1], d[2])
                                   /\ req' = [req EXCEPT ![t].todo = @ \ {d}]
      BY <1>2 DEF PruneDetach
    <2>2. /\ d[1] \in Shards /\ d[2] \in Clients /\ d = <<d[1], d[2]>> /\ sessions' = sessions
          /\ req[t].pc = "pruning" /\ req \in [Threads -> Requests] /\ req[t] \in Requests
      BY <1>2 DEF PruneDetach, RequestsOK, Requests
    <2>3. req'[t] = [req[t] EXCEPT !.todo = @ \ {d}] /\ Others(t)
      BY <2>1, <2>2 DEF Others
    <2> SUFFICES ASSUME NEW s \in Shards, NEW c \in Clients
                 PROVE  Cardinality(Importers(s, c)') <= imports'[s][c]
      BY DEF Counted
    <2>4. Owes(req'[t], s, c) => Owes(req[t], s, c) /\ <<s, c>> # d
      BY <2>2, <2>3 DEF Owes, Requests
    <2>5. CASE <<s, c>> = d
      <3>1. t \in Importers(s, c)
        BY <2>5 DEF Importers, Owes
      <3>2. Importers(s, c)' \subseteq Importers(s, c) \ {t}
        BY <2>2, <2>3, <2>4, <2>5 DEF Importers, Others
      <3>3. Cardinality(Importers(s, c)') \in Nat
            /\ Cardinality(Importers(s, c)') + 1 <= Cardinality(Importers(s, c))
        BY <3>1, <3>2, CountRemoved, ImportersFinite
      <3>4. imports'[s][c] = IF imports[s][c] > 0 THEN imports[s][c] - 1 ELSE 0
        BY <2>1, <2>2, <2>5 DEF Detached, TablesOK
      <3> QED
        BY <1>a, <3>3, <3>4
    <2>6. CASE <<s, c>> # d
      <3>1. Importers(s, c)' \subseteq Importers(s, c)
        BY <2>2, <2>3, <2>4 DEF Importers, Others
      <3>2. imports'[s][c] = imports[s][c]
        BY <2>1, <2>2, <2>6 DEF Detached, TablesOK
      <3> QED
        BY <1>a, <3>1, <3>2, CountKept, ImportersFinite
    <2> QED
      BY <2>5, <2>6
  <1>3. ASSUME NEW t \in Threads, AttachShard(t)
        PROVE  Counted'
    <2> DEFINE k == req[t].i + 1
               e == req[t].client
    <2>1. /\ k \in Shards /\ e \in Clients /\ sessions' = sessions
          /\ req[t].i \in Nat /\ req[t].n \in Nat
          /\ req[t].op = "attach" /\ req[t].pc = "attach" /\ req[t].todo = {}
      BY <1>3, RequestFields, AtPlace
      DEF AttachShard, Shards, Consistent, OnTheWay, Ops
    <2>2. Others(t) /\ req'[t] = [req[t] EXCEPT !.i = k]
      BY <1>3 DEF AttachShard, Advance, RequestsOK, Requests, Others
    <2>3. imports' = [imports EXCEPT ![k][e] = @ + 1]
      BY <1>3 DEF AttachShard
    <2> SUFFICES ASSUME NEW s \in Shards, NEW c \in Clients
                 PROVE  Cardinality(Importers(s, c)') <= imports'[s][c]
      BY DEF Counted
    <2>4. CASE s = k /\ c = e
      <3>1. Importers(s, c)' \subseteq Importers(s, c) \cup {t}
        BY <2>1, <2>2 DEF Importers, Others
      <3>2. imports'[s][c] = imports[s][c] + 1
        BY <2>1, <2>3, <2>4 DEF TablesOK
      <3>3. Cardinality(Importers(s, c)') \in Nat
            /\ Cardinality(Importers(s, c)') <= Cardinality(Importers(s, c)) + 1
        BY <3>1, CountAdded, ImportersFinite
      <3> QED
        BY <1>a, <3>2, <3>3
    <2>5. CASE ~(s = k /\ c = e)
      <3>1. Owes(req'[t], s, c) => Owes(req[t], s, c)
        <4> HIDE DEF e
        <4>1. req'[t].i = k /\ req'[t].client = e /\ req'[t].todo = {} /\ req'[t].pc = "attach"
              /\ req'[t].op = "attach"
          BY <2>1, <2>2 DEF e, RequestsOK, Requests
        <4>2. Owes(req'[t], s, c) => e = c /\ s <= k
          BY <4>1 DEF Owes
        <4>3. s <= k /\ s # k => s <= req[t].i
          BY <2>1 DEF Shards
        <4> QED
          BY <2>1, <2>5, <4>2, <4>3 DEF Owes, e
      <3>2. Importers(s, c)' \subseteq Importers(s, c)
        BY <2>1, <2>2, <3>1 DEF Importers, Others
      <3>3. imports'[s][c] = imports[s][c]
        BY <2>1, <2>3, <2>5 DEF TablesOK
      <3> QED
        BY <1>a, <3>2, <3>3, CountKept, ImportersFinite
    <2> QED
      BY <2>4, <2>5
  <1>4. ASSUME NEW t \in Threads, AttachUndo(t)
        PROVE  Counted'
    <2> DEFINE k == req[t].i
               i == req[t].i - 1
               e == req[t].client
    <2>1. /\ k \in Shards /\ e \in Clients /\ sessions' = sessions
          /\ req[t].i \in Nat /\ req[t].n \in Nat /\ i \in Nat /\ k <= req[t].n
          /\ req[t].op = "attach" /\ req[t].pc = "retract" /\ req[t].todo = {}
      BY <1>4, RequestFields, AtPlace
      DEF AttachUndo, Shards, Consistent, OnTheWay, Ops
    <2>2. Others(t) /\ req'[t] = [req[t] EXCEPT !.i = i]
      BY <1>4 DEF AttachUndo, Advance, RequestsOK, Requests, Others
    <2>3. imports' = Detached(k, e)
      BY <1>4 DEF AttachUndo
    <2> SUFFICES ASSUME NEW s \in Shards, NEW c \in Clients
                 PROVE  Cardinality(Importers(s, c)') <= imports'[s][c]
      BY DEF Counted
    <2>4. Owes(req'[t], s, c) => Owes(req[t], s, c) /\ ~(s = k /\ c = e)
      <3>1. req'[t].i = i /\ req'[t].todo = {} /\ req'[t].pc = req[t].pc
            /\ req'[t].op = req[t].op /\ req'[t].client = e /\ req'[t].n = req[t].n
        BY <2>1, <2>2 DEF RequestsOK, Requests
      <3> QED
        BY <2>1, <3>1 DEF Owes, Shards
    <2>5. Importers(s, c)' \subseteq Importers(s, c)
      BY <2>1, <2>2, <2>4 DEF Importers, Others
    <2>6. CASE s = k /\ c = e
      <3>1. Owes(req[t], s, c)
        BY <2>1, <2>6, RequestFields DEF Owes, Shards, Consistent
      <3>2. t \in Importers(s, c)
        BY <3>1 DEF Importers
      <3>3. Importers(s, c)' \subseteq Importers(s, c) \ {t}
        BY <2>1, <2>4, <2>5, <2>6 DEF Importers
      <3>4. Cardinality(Importers(s, c)') \in Nat
            /\ Cardinality(Importers(s, c)') + 1 <= Cardinality(Importers(s, c))
        BY <3>2, <3>3, CountRemoved, ImportersFinite
      <3>5. imports'[s][c] = IF imports[s][c] > 0 THEN imports[s][c] - 1 ELSE 0
        BY <2>1, <2>3, <2>6 DEF Detached, TablesOK
      <3> QED
        BY <1>a, <3>4, <3>5
    <2>7. CASE ~(s = k /\ c = e)
      <3>1. imports'[s][c] = imports[s][c]
        BY <2>1, <2>3, <2>7 DEF Detached, TablesOK
      <3> QED
        BY <1>a, <2>5, <3>1, CountKept, ImportersFinite
    <2> QED
      BY <2>6, <2>7
  <1>5. ASSUME NEW t \in Threads, DetachShard(t)
        PROVE  Counted'
    <2> DEFINE k == req[t].i + 1
               i == req[t].i + 1
               e == req[t].client
    <2>1. /\ k \in Shards /\ e \in Clients /\ sessions' = sessions
          /\ req[t].i \in Nat /\ req[t].n \in Nat /\ i \in Nat /\ k <= req[t].n
          /\ req[t].op = "detach" /\ req[t].pc = "detach" /\ req[t].todo = {}
      BY <1>5, RequestFields, AtPlace
      DEF DetachShard, Shards, Consistent, OnTheWay, Ops
    <2>2. Others(t) /\ req'[t] = [req[t] EXCEPT !.i = i]
      BY <1>5 DEF DetachShard, Advance, RequestsOK, Requests, Others
    <2>3. imports' = Detached(k, e)
      BY <1>5 DEF DetachShard
    <2> SUFFICES ASSUME NEW s \in Shards, NEW c \in Clients
                 PROVE  Cardinality(Importers(s, c)') <= imports'[s][c]
      BY DEF Counted
    <2>4. Owes(req'[t], s, c) => Owes(req[t], s, c) /\ ~(s = k /\ c = e)
      <3>1. req'[t].i = i /\ req'[t].todo = {} /\ req'[t].pc = req[t].pc
            /\ req'[t].op = req[t].op /\ req'[t].client = e /\ req'[t].n = req[t].n
        BY <2>1, <2>2 DEF RequestsOK, Requests
      <3> QED
        BY <2>1, <3>1 DEF Owes, Shards
    <2>5. Importers(s, c)' \subseteq Importers(s, c)
      BY <2>1, <2>2, <2>4 DEF Importers, Others
    <2>6. CASE s = k /\ c = e
      <3>1. Owes(req[t], s, c)
        BY <2>1, <2>6, RequestFields DEF Owes, Shards, Consistent
      <3>2. t \in Importers(s, c)
        BY <3>1 DEF Importers
      <3>3. Importers(s, c)' \subseteq Importers(s, c) \ {t}
        BY <2>1, <2>4, <2>5, <2>6 DEF Importers
      <3>4. Cardinality(Importers(s, c)') \in Nat
            /\ Cardinality(Importers(s, c)') + 1 <= Cardinality(Importers(s, c))
        BY <3>2, <3>3, CountRemoved, ImportersFinite
      <3>5. imports'[s][c] = IF imports[s][c] > 0 THEN imports[s][c] - 1 ELSE 0
        BY <2>1, <2>3, <2>6 DEF Detached, TablesOK
      <3> QED
        BY <1>a, <3>4, <3>5
    <2>7. CASE ~(s = k /\ c = e)
      <3>1. imports'[s][c] = imports[s][c]
        BY <2>1, <2>3, <2>7 DEF Detached, TablesOK
      <3> QED
        BY <1>a, <2>5, <3>1, CountKept, ImportersFinite
    <2> QED
      BY <2>6, <2>7
  <1>6. ASSUME NEW t \in Threads, AttachReady(t)
        PROVE  Counted'
    <2> DEFINE e == req[t].client
    <2>1. /\ e \in Clients /\ imports' = imports
          /\ req[t].i \in Nat /\ req[t].n \in Nat /\ req[t].i = req[t].n
          /\ req[t].op = "attach" /\ req[t].pc = "attach"
      BY <1>6, RequestFields, AtPlace DEF AttachReady, memory, Consistent, OnTheWay, Ops
    <2>2. Others(t) /\ req'[t] = Idle
      BY <1>6, ReturnKept DEF AttachReady
    <2>3. sessions' = [sessions EXCEPT ![e] = [n |-> req[t].n, expired |-> FALSE]]
      BY <1>6 DEF AttachReady
    <2> SUFFICES ASSUME NEW s \in Shards, NEW c \in Clients
                 PROVE  Cardinality(Importers(s, c)') <= imports'[s][c]
      BY DEF Counted
    <2>4. ~Owes(req'[t], s, c)
      BY <2>2, IdleIsRequest, NotOwing DEF Owing
    <2>5. CASE c = e /\ s <= req[t].n
      <3>1. t \in Importers(s, c)
        BY <2>1, <2>5 DEF Importers, Owes
      <3>2. Importers(s, c)' \subseteq (Importers(s, c) \ {t}) \cup {NoThread}
        BY <2>2, <2>4 DEF Importers, Others
      <3>3. Cardinality(Importers(s, c)') \in Nat
            /\ Cardinality(Importers(s, c)') <= Cardinality(Importers(s, c))
        <4> DEFINE old == Importers(s, c)
                   new == Importers(s, c)'
        <4>1. IsFiniteSet(old)
          BY ImportersFinite
        <4> HIDE DEF old, new
        <4>2. Cardinality(new) \in Nat /\ Cardinality(new) <= Cardinality(old)
          BY <3>1, <3>2, <4>1, CountMoved DEF old, new
        <4> QED
          BY <4>2 DEF old, new
      <3> QED
        BY <1>a, <2>1, <3>3
    <2>6. CASE ~(c = e /\ s <= req[t].n)
      <3>1. s <= sessions'[c].n => s <= sessions[c].n
        BY <2>1, <2>3, <2>6 DEF TablesOK
      <3>2. Importers(s, c)' \subseteq Importers(s, c)
        BY <2>2, <2>4, <3>1 DEF Importers, Others
      <3> QED
        BY <1>a, <2>1, <3>2, CountKept, ImportersFinite
    <2> QED
      BY <2>5, <2>6
  <1>7. ASSUME NEW t \in Threads, DetachTake(t)
        PROVE  Counted'
    <2> DEFINE e == req[t].client
               n == sessions[e].n
    <2>1. /\ e \in Clients /\ imports' = imports /\ n \in Nat
          /\ req[t].op = "detach" /\ req[t].pc = "take" /\ req[t].i = 0 /\ req[t].todo = {}
      BY <1>7, RequestFields, AtPlace
      DEF DetachTake, memory, Consistent, OnTheWay, Ops, Counting, TablesOK
    <2>2. /\ Others(t) /\ req'[t].pc = "detach" /\ req'[t].n = n /\ req'[t].i = 0
          /\ req'[t].client = e /\ req'[t].todo = {}
      BY <1>7, <2>1 DEF DetachTake, RequestsOK, Requests, Others
    <2>3. sessions' = [sessions EXCEPT ![e] = NoSession]
      BY <1>7 DEF DetachTake
    <2> HIDE DEF n
    <2> SUFFICES ASSUME NEW s \in Shards, NEW c \in Clients
                 PROVE  Cardinality(Importers(s, c)') <= imports'[s][c]
      BY DEF Counted
    <2>4. Owes(req'[t], s, c) => c = e /\ s <= n
      BY <2>2 DEF Owes
    <2>5. c = e => ~(s <= sessions'[c].n)
      BY <2>1, <2>3 DEF TablesOK, NoSession, Shards
    <2>6. c # e => sessions'[c] = sessions[c]
      BY <2>1, <2>3 DEF TablesOK
    <2>7. CASE c = e /\ s <= n
      <3>1. NoThread \in Importers(s, c)
        BY <2>7 DEF Importers, n
      <3>2. Importers(s, c)' \subseteq (Importers(s, c) \ {NoThread}) \cup {t}
        BY <2>2, <2>5, <2>7 DEF Importers, Others
      <3>3. Cardinality(Importers(s, c)') \in Nat
            /\ Cardinality(Importers(s, c)') <= Cardinality(Importers(s, c))
        <4> DEFINE old == Importers(s, c)
                   new == Importers(s, c)'
        <4>1. IsFiniteSet(old)
          BY ImportersFinite
        <4> HIDE DEF old, new
        <4>2. Cardinality(new) \in Nat /\ Cardinality(new) <= Cardinality(old)
          BY <3>1, <3>2, <4>1, CountMoved DEF old, new
        <4> QED
          BY <4>2 DEF old, new
      <3> QED
        BY <1>a, <2>1, <3>3
    <2>8. CASE ~(c = e /\ s <= n)
      <3>1. Importers(s, c)' \subseteq Importers(s, c)
        BY <2>2, <2>4, <2>5, <2>6, <2>8 DEF Importers, Others
      <3> QED
        BY <1>a, <2>1, <3>1, CountKept, ImportersFinite
    <2> QED
      BY <2>7, <2>8
  <1>8. ASSUME imports' = imports, req' = req,
               \A c \in Clients : sessions'[c].n = sessions[c].n
        PROVE  Counted'
    <2> SUFFICES ASSUME NEW s \in Shards, NEW c \in Clients
                 PROVE  Cardinality(Importers(s, c)') <= imports'[s][c]
      BY DEF Counted
    <2>1. Importers(s, c)' = Importers(s, c)
      BY <1>8 DEF Importers
    <2> QED
      BY <1>a, <1>8, <2>1
  <1>9. CASE Restart
    <2> SUFFICES ASSUME NEW s \in Shards, NEW c \in Clients
                 PROVE  Cardinality(Importers(s, c)') <= imports'[s][c]
      BY DEF Counted
    <2>1. Importers(s, c)' = {}
      BY <1>9, IdleIsRequest, NotOwing DEF Restart, Importers, NoSession, Shards, Owing
    <2> QED
      BY <1>9, <2>1, FS_EmptySet DEF Restart
  <1>10. ASSUME NEW c \in Clients, Expire(c)
         PROVE  Counted'
    <2>1. \A d \in Clients : sessions'[d].n = sessions[d].n
      BY <1>10 DEF Expire, TablesOK
    <2> QED
      BY <1>8, <1>10, <2>1 DEF Expire, memory
  <1>11. CASE Collect
    BY <1>8, <1>11 DEF Collect, memory
  <1>12. CASE UNCHANGED vars
    BY <1>8, <1>12 DEF vars
  <1>13. ASSUME NEW t \in Threads,
                RequestStep(t) \/ LoadStep(t) \/ UnloadStep(t) \/ ClientStep(t)
         PROVE  Counted'
    <2>1. ASSUME Quiet(t)
          PROVE  Counted'
      BY <2>1, QuietKeepsCount
    <2> QED
      BY <1>1, <1>2, <1>3, <1>4, <1>5, <1>6, <1>7, <1>13, <2>1, QuietSteps DEF ClientStep
  <1> QED
    BY <1>9, <1>10, <1>11, <1>12, <1>13 DEF Next

(* A shard that a client imports is resident: UnloadPersistent refuses to  *)
(* free it, and AttachPersistent refuses a shard that is not.              *)
LEMMA ResidentNext == RequestsOK /\ TablesOK /\ Resident /\ [Next]_vars => Resident'
  <1> SUFFICES ASSUME RequestsOK, TablesOK, Resident, [Next]_vars,
                      NEW s \in Shards, NEW c \in Clients, imports'[s][c] > 0
               PROVE  loads'[s] > 0
    BY DEF Resident
  <1> USE GpuAssumption DEF At, table, memory
  <1>a. loads[s] \in Nat /\ imports[s][c] \in Nat /\ (imports[s][c] > 0 => loads[s] > 0)
    BY DEF TablesOK, Resident
  <1>1. ASSUME UNCHANGED <<loads, imports>>
        PROVE  loads'[s] > 0
    BY <1>a, <1>1
  <1>2. ASSUME imports' = imports, NEW k \in Shards,
               \/ loads' = [loads EXCEPT ![k] = loads[k] + 1]
               \/ Unloadable(k) /\ loads' = Unloaded(k)
        PROVE  loads'[s] > 0
    <2>1. CASE loads' = [loads EXCEPT ![k] = loads[k] + 1]
      BY <1>2, <2>1, <1>a DEF TablesOK
    <2>2. CASE Unloadable(k) /\ loads' = Unloaded(k) /\ k = s
      BY <1>2, <2>2, <1>a DEF TablesOK, Unloadable, Unloaded
    <2>3. CASE Unloadable(k) /\ loads' = Unloaded(k) /\ k # s
      BY <1>2, <2>3, <1>a DEF TablesOK, Unloaded
    <2> QED
      BY <1>2, <2>1, <2>2, <2>3
  <1>3. ASSUME loads' = loads, NEW k, NEW e, imports' = Detached(k, e)
        PROVE  loads'[s] > 0
    <2>1. imports'[s][c] = imports[s][c]
          \/ imports'[s][c] = IF imports[s][c] > 0 THEN imports[s][c] - 1 ELSE 0
      BY <1>3 DEF Detached, TablesOK
    <2> QED
      BY <1>a, <1>3, <2>1
  <1>4. ASSUME NEW t \in Threads, LoadShard(t) \/ UnloadShard(t) \/ LoadUndo(t)
        PROVE  loads'[s] > 0
    <2>1. req[t].i \in Nat /\ req[t].n \in Nat /\ req[t].n <= NumShards /\ req[t].i <= NumShards
      BY RequestFields
    <2>2. CASE LoadShard(t)
      <3>1. req[t].i + 1 \in Shards /\ imports' = imports
            /\ loads' = [loads EXCEPT ![req[t].i + 1] = loads[req[t].i + 1] + 1]
        BY <2>1, <2>2 DEF LoadShard, Shards
      <3> QED
        BY <1>2, <3>1
    <2>3. CASE UnloadShard(t)
      <3>1. req[t].i + 1 \in Shards /\ imports' = imports
            /\ Unloadable(req[t].i + 1) /\ loads' = Unloaded(req[t].i + 1)
        BY <2>1, <2>3 DEF UnloadShard, Shards
      <3> QED
        BY <1>2, <3>1
    <2>4. CASE LoadUndo(t)
      BY <1>1, <1>2, <2>1, <2>4 DEF LoadUndo, Shards
    <2> QED
      BY <1>4, <2>2, <2>3, <2>4
  <1>5. ASSUME NEW t \in Threads, AttachShard(t)
        PROVE  loads'[s] > 0
    <2>1. req[t].i + 1 \in Shards /\ loads' = loads /\ loads[req[t].i + 1] > 0
          /\ imports' = [imports EXCEPT ![req[t].i + 1][req[t].client] = @ + 1]
      BY <1>5, RequestFields DEF AttachShard, Shards
    <2>2. CASE s = req[t].i + 1
      BY <2>1, <2>2
    <2>3. CASE s # req[t].i + 1
      BY <1>a, <2>1, <2>3 DEF TablesOK
    <2> QED
      BY <2>2, <2>3
  <1>6. ASSUME NEW t \in Threads, RequestStep(t)
        PROVE  loads'[s] > 0
    BY <1>1, <1>6
    DEF RequestStep, StartAllocate, StartLoad, StartUnload, StartAttach, StartClient,
        Resolve, GiveUp, TakeLoadSlot, TakeAttachSlot, Acquire
  <1>7. ASSUME NEW t \in Threads, LoadStep(t)
        PROVE  loads'[s] > 0
    BY <1>1, <1>4, <1>7
    DEF LoadStep, AllocateEnsure, AllocatePut, AllocateDelete, AllocateRelease,
        LoadLease, LoadBreaks, LoadUndone, LoadReady
  <1>8. ASSUME NEW t \in Threads, UnloadStep(t)
        PROVE  loads'[s] > 0
    BY <1>1, <1>4, <1>8
    DEF UnloadStep, UnloadCheck, UnloadCount, UnloadBreaks, UnloadLease, UnloadDrop
  <1>9. ASSUME NEW t \in Threads, ClientStep(t)
        PROVE  loads'[s] > 0
    <2>1. CASE PruneDetach(t) \/ AttachUndo(t) \/ DetachShard(t)
      BY <1>3, <2>1 DEF PruneDetach, AttachUndo, DetachShard
    <2>2. CASE Prune(t) \/ Pruned(t) \/ AttachBreaks(t) \/ AttachUndone(t) \/ AttachReady(t)
               \/ Heartbeat(t) \/ DetachTake(t) \/ DetachEnd(t)
      BY <1>1, <2>2
      DEF Prune, Pruned, AttachBreaks, AttachUndone, AttachReady, Heartbeat, DetachTake,
          DetachEnd
    <2> QED
      BY <1>5, <1>9, <2>1, <2>2 DEF ClientStep
  <1>10. CASE Restart
    BY <1>10 DEF Restart
  <1>11. CASE Collect \/ (\E d \in Clients : Expire(d)) \/ UNCHANGED vars
    BY <1>1, <1>11 DEF Collect, Expire, vars
  <1> QED
    BY <1>6, <1>7, <1>8, <1>9, <1>10, <1>11 DEF Next

(* While attachMap has a client's session (gpu.go:1108-1126), every shard  *)
(* it attached is resident and the loader counts the client among its      *)
(* importers: whoever prunes, detaches, replaces a session, unloads or     *)
(* rolls back meanwhile, with well-behaved clients or not.                 *)
THEOREM SessionsStayResident == Spec => []SessionIsResident
  <1>1. Init => AttachInv
    BY AttachInvInit
  <1>2. RequestsOK /\ TablesOK /\ RequestsOK' /\ AttachInv /\ [Next]_vars => AttachInv'
    BY CountedNext, ResidentNext DEF AttachInv
  <1>3. TablesOK /\ AttachInv => SessionIsResident
    <2> SUFFICES ASSUME TablesOK, AttachInv, NEW c \in Clients, NEW s \in 1..sessions[c].n
                 PROVE  loads[s] > 0 /\ imports[s][c] > 0
      BY DEF SessionIsResident
    <2>1. s \in Shards /\ s <= sessions[c].n /\ imports[s][c] \in Nat
      BY GpuAssumption DEF TablesOK, Shards
    <2>2. NoThread \in Importers(s, c)
      BY <2>1 DEF Importers
    <2>3. Cardinality(Importers(s, c)) \in Nat /\ Cardinality(Importers(s, c)) # 0
      BY <2>2, ImportersFinite, FS_CardinalityType, FS_EmptySet
    <2>4. Cardinality(Importers(s, c)) <= imports[s][c]
      BY <2>1 DEF AttachInv, Counted
    <2> QED
      BY <2>1, <2>3, <2>4 DEF AttachInv, Resident
  <1> QED
    BY <1>1, <1>2, <1>3, TypesInductive, PTL DEF Spec

-----------------------------------------------------------------------------
(* Allocations.                                                            *)

LEMMA LockNext == RequestsOK /\ RequestsOK' /\ LockHeld /\ [Next]_vars => LockHeld'
  <1> SUFFICES ASSUME RequestsOK, RequestsOK', LockHeld, [Next]_vars PROVE LockHeld'
    OBVIOUS
  <1> USE GpuAssumption, IdleIsRequest DEF At, table, memory, history, Others
  <1>a. ASSUME NEW t \in Threads
        PROVE  req[t] \in Requests /\ req \in [Threads -> Requests] /\ Consistent(req[t])
    BY DEF RequestsOK
  <1>b. ASSUME NEW t \in Threads, Others(t), HoldsLock(req'[t]) => HoldsLock(req[t]), lock' = lock
        PROVE  LockHeld'
    BY <1>b DEF LockHeld
  <1>c. ASSUME NEW t \in Threads, Others(t), ~HoldsLock(req'[t]), HoldsLock(req[t]), lock' = NoThread
        PROVE  LockHeld'
    BY <1>c DEF LockHeld
  <1>1. ASSUME NEW t \in Threads, NEW a \in Allocs, NEW h \in Holders, NEW k \in Shards, StartAllocate(t, a, h, k)
        PROVE  LockHeld'
    BY <1>1, <1>a, <1>b DEF StartAllocate, Arrive, HoldsLock, Requests, Consistent, OnTheWay
  <1>2. ASSUME NEW t \in Threads, NEW a \in Allocs, NEW k \in Shards, StartLoad(t, a, k)
        PROVE  LockHeld'
    BY <1>2, <1>a, <1>b DEF StartLoad, Arrive, HoldsLock, Requests, Consistent, OnTheWay
  <1>3. ASSUME NEW t \in Threads, NEW a \in Allocs, StartUnload(t, a)
        PROVE  LockHeld'
    BY <1>3, <1>a, <1>b DEF StartUnload, Arrive, HoldsLock, Requests, Consistent, OnTheWay
  <1>4. ASSUME NEW t \in Threads, NEW a \in Allocs, NEW c \in Clients, NEW k \in Shards, StartAttach(t, a, c, k)
        PROVE  LockHeld'
    BY <1>4, <1>a, <1>b DEF StartAttach, Arrive, HoldsLock, Requests, Consistent, OnTheWay
  <1>5. ASSUME NEW t \in Threads, NEW a \in Allocs, NEW c \in Clients, NEW o \in {"heartbeat", "detach"}, StartClient(t, a, c, o)
        PROVE  LockHeld'
    BY <1>5, <1>a, <1>b DEF StartClient, Arrive, HoldsLock, Requests, Consistent, OnTheWay
  <1>6. ASSUME NEW t \in Threads, Resolve(t)
        PROVE  LockHeld'
    BY <1>6, <1>a, <1>b DEF Resolve, HoldsLock, Requests, Consistent, OnTheWay
  <1>7. ASSUME NEW t \in Threads, GiveUp(t)
        PROVE  LockHeld'
    BY <1>7, <1>a, <1>b DEF GiveUp, Fail, Goto, Return, HoldsLock, Requests, Consistent, OnTheWay
  <1>8. ASSUME NEW t \in Threads, TakeLoadSlot(t)
        PROVE  LockHeld'
    BY <1>8, <1>a, <1>b DEF TakeLoadSlot, Goto, HoldsLock, Requests, Consistent, OnTheWay
  <1>9. ASSUME NEW t \in Threads, TakeAttachSlot(t)
        PROVE  LockHeld'
    BY <1>9, <1>a, <1>b DEF TakeAttachSlot, Goto, HoldsLock, Requests, Consistent, OnTheWay
  <1>10. ASSUME NEW t \in Threads, Acquire(t)
        PROVE  LockHeld'
    BY <1>10, <1>a DEF Acquire, Goto, LockHeld, Requests
  <1>11. ASSUME NEW t \in Threads, AllocateEnsure(t)
        PROVE  LockHeld'
    BY <1>11, <1>a, <1>b DEF AllocateEnsure, Goto, Return, HoldsLock, Requests, Consistent, OnTheWay
  <1>12. ASSUME NEW t \in Threads, AllocatePut(t)
        PROVE  LockHeld'
    BY <1>12, <1>a, <1>b DEF AllocatePut, Goto, HoldsLock, Requests, Consistent, OnTheWay
  <1>13. ASSUME NEW t \in Threads, AllocateDelete(t)
        PROVE  LockHeld'
    BY <1>13, <1>a, <1>b DEF AllocateDelete, Goto, HoldsLock, Requests, Consistent, OnTheWay
  <1>14. ASSUME NEW t \in Threads, AllocateRelease(t)
        PROVE  LockHeld'
    BY <1>14, <1>a, <1>b DEF AllocateRelease, Return, HoldsLock, Requests, Consistent, OnTheWay
  <1>15. ASSUME NEW t \in Threads, LoadLease(t)
        PROVE  LockHeld'
    <2>1. Others(t)
      BY <1>15, <1>a DEF LoadLease, Fail, Goto, Return, Unlock
    <2>2. CASE lock' = lock
      BY <1>15, <2>1, <2>2, <1>a, <1>b
      DEF LoadLease, Fail, Goto, Return, Unlock, HoldsLock, Requests
    <2>3. CASE lock' # lock
      BY <1>15, <2>1, <2>3, <1>a, <1>c
      DEF LoadLease, Fail, Goto, Return, Unlock, HoldsLock, Requests
    <2> QED
      BY <2>2, <2>3
  <1>16. ASSUME NEW t \in Threads, LoadShard(t)
        PROVE  LockHeld'
    BY <1>16, <1>a, <1>b DEF LoadShard, Advance, HoldsLock, Requests, Consistent, OnTheWay
  <1>17. ASSUME NEW t \in Threads, LoadBreaks(t)
        PROVE  LockHeld'
    BY <1>17, <1>a, <1>b DEF LoadBreaks, Goto, HoldsLock, Requests, Consistent, OnTheWay
  <1>18. ASSUME NEW t \in Threads, LoadUndo(t)
        PROVE  LockHeld'
    BY <1>18, <1>a, <1>b DEF LoadUndo, Advance, HoldsLock, Requests, Consistent, OnTheWay
  <1>19. ASSUME NEW t \in Threads, LoadUndone(t)
        PROVE  LockHeld'
    BY <1>19, <1>a, <1>c
    DEF LoadUndone, Fail, Goto, Return, Unlock, HoldsLock, Requests, Consistent, OnTheWay
  <1>20. ASSUME NEW t \in Threads, LoadReady(t)
        PROVE  LockHeld'
    BY <1>20, <1>a, <1>c DEF LoadReady, Return, Unlock, HoldsLock, Requests, Consistent, OnTheWay
  <1>21. ASSUME NEW t \in Threads, UnloadCheck(t)
        PROVE  LockHeld'
    <2>1. Others(t)
      BY <1>21, <1>a DEF UnloadCheck, Goto, Return, Unlock
    <2>2. CASE lock' = lock
      BY <1>21, <2>1, <2>2, <1>a, <1>b DEF UnloadCheck, Goto, Return, Unlock, HoldsLock, Requests
    <2>3. CASE lock' # lock
      BY <1>21, <2>1, <2>3, <1>a, <1>c DEF UnloadCheck, Goto, Return, Unlock, HoldsLock, Requests
    <2> QED
      BY <2>2, <2>3
  <1>22. ASSUME NEW t \in Threads, UnloadCount(t)
        PROVE  LockHeld'
    <2>1. Others(t)
      BY <1>22, <1>a DEF UnloadCount, Goto, Return, Unlock
    <2>2. CASE lock' = lock
      BY <1>22, <2>1, <2>2, <1>a, <1>b DEF UnloadCount, Goto, Return, Unlock, HoldsLock, Requests
    <2>3. CASE lock' # lock
      BY <1>22, <2>1, <2>3, <1>a, <1>c DEF UnloadCount, Goto, Return, Unlock, HoldsLock, Requests
    <2> QED
      BY <2>2, <2>3
  <1>23. ASSUME NEW t \in Threads, UnloadShard(t)
        PROVE  LockHeld'
    BY <1>23, <1>a, <1>b DEF UnloadShard, Advance, HoldsLock, Requests, Consistent, OnTheWay
  <1>24. ASSUME NEW t \in Threads, UnloadBreaks(t)
        PROVE  LockHeld'
    BY <1>24, <1>a, <1>c DEF UnloadBreaks, Return, Unlock, HoldsLock, Requests, Consistent, OnTheWay
  <1>25. ASSUME NEW t \in Threads, UnloadLease(t)
        PROVE  LockHeld'
    BY <1>25, <1>a, <1>b DEF UnloadLease, Goto, HoldsLock, Requests, Consistent, OnTheWay
  <1>26. ASSUME NEW t \in Threads, UnloadDrop(t)
        PROVE  LockHeld'
    BY <1>26, <1>a, <1>c DEF UnloadDrop, Return, Unlock, HoldsLock, Requests, Consistent, OnTheWay
  <1>27. ASSUME NEW t \in Threads, Prune(t)
        PROVE  LockHeld'
    BY <1>27, <1>a, <1>b DEF Prune, HoldsLock, Requests, Consistent, OnTheWay
  <1>28. ASSUME NEW t \in Threads, PruneDetach(t)
        PROVE  LockHeld'
    BY <1>28, <1>a, <1>b DEF PruneDetach, HoldsLock, Requests, Consistent, OnTheWay
  <1>29. ASSUME NEW t \in Threads, Pruned(t)
        PROVE  LockHeld'
    BY <1>29, <1>a, <1>b DEF Pruned, Goto, HoldsLock, Requests, Consistent, OnTheWay
  <1>30. ASSUME NEW t \in Threads, AttachShard(t)
        PROVE  LockHeld'
    BY <1>30, <1>a, <1>b DEF AttachShard, Advance, HoldsLock, Requests, Consistent, OnTheWay
  <1>31. ASSUME NEW t \in Threads, AttachBreaks(t)
        PROVE  LockHeld'
    BY <1>31, <1>a, <1>b DEF AttachBreaks, Goto, HoldsLock, Requests, Consistent, OnTheWay
  <1>32. ASSUME NEW t \in Threads, AttachUndo(t)
        PROVE  LockHeld'
    BY <1>32, <1>a, <1>b DEF AttachUndo, Advance, HoldsLock, Requests, Consistent, OnTheWay
  <1>33. ASSUME NEW t \in Threads, AttachUndone(t)
        PROVE  LockHeld'
    BY <1>33, <1>a, <1>b DEF AttachUndone, Return, HoldsLock, Requests, Consistent, OnTheWay
  <1>34. ASSUME NEW t \in Threads, AttachReady(t)
        PROVE  LockHeld'
    BY <1>34, <1>a, <1>b DEF AttachReady, Return, HoldsLock, Requests, Consistent, OnTheWay
  <1>35. ASSUME NEW t \in Threads, Heartbeat(t)
        PROVE  LockHeld'
    BY <1>35, <1>a, <1>b DEF Heartbeat, Return, HoldsLock, Requests, Consistent, OnTheWay
  <1>36. ASSUME NEW t \in Threads, DetachTake(t)
        PROVE  LockHeld'
    BY <1>36, <1>a, <1>b DEF DetachTake, HoldsLock, Requests, Consistent, OnTheWay
  <1>37. ASSUME NEW t \in Threads, DetachShard(t)
        PROVE  LockHeld'
    BY <1>37, <1>a, <1>b DEF DetachShard, Advance, HoldsLock, Requests, Consistent, OnTheWay
  <1>38. ASSUME NEW t \in Threads, DetachEnd(t)
        PROVE  LockHeld'
    BY <1>38, <1>a, <1>b DEF DetachEnd, Return, HoldsLock, Requests, Consistent, OnTheWay
  <1>39. ASSUME Restart
        PROVE  LockHeld'
    BY <1>39 DEF Restart, LockHeld, HoldsLock
  <1>40. ASSUME UNCHANGED <<req, lock>>
        PROVE  LockHeld'
    BY <1>40 DEF LockHeld
  <1> QED
    BY <1>1, <1>2, <1>3, <1>4, <1>5, <1>6, <1>7, <1>8, <1>9, <1>10, <1>11, <1>12, <1>13, <1>14,
       <1>15, <1>16, <1>17, <1>18, <1>19, <1>20, <1>21, <1>22, <1>23, <1>24, <1>25, <1>26, <1>27,
       <1>28, <1>29, <1>30, <1>31, <1>32, <1>33, <1>34, <1>35, <1>36, <1>37, <1>38, <1>39, <1>40
    DEF Next, RequestStep, LoadStep, UnloadStep, ClientStep, Expire, Collect, vars

LEMMA OneAllocationNext == Careful /\ RequestsOK /\ TablesOK /\ OneAllocation /\ [Next]_vars => OneAllocation'
  <1> SUFFICES ASSUME Careful, RequestsOK, TablesOK, OneAllocation, [Next]_vars
               PROVE  OneAllocation'
    OBVIOUS
  <1> USE GpuAssumption, IdleIsRequest DEF At, table, memory, history, Others
  <1>a. ASSUME NEW t \in Threads
        PROVE  req[t] \in Requests /\ req \in [Threads -> Requests] /\ Consistent(req[t])
    BY DEF RequestsOK
  <1>b. ASSUME NEW t \in Threads, Others(t), allocs' = allocs,
               \/ req'[t].who \notin Holders
               \/ req'[t].who = req[t].who /\ req'[t].alloc = req[t].alloc
        PROVE  OneAllocation'
    BY <1>b DEF OneAllocation
  <1>c. ASSUME NEW t \in Threads, Others(t), NEW h,
               \/ req'[t].who = req[t].who /\ req'[t].alloc = req[t].alloc
               \/ req'[t].who \notin Holders,
               req[t].alloc \in Allocs, allocs' = [allocs EXCEPT ![req[t].alloc] = h],
               h \notin Holders \/ h = req[t].who
        PROVE  OneAllocation'
    <2>1. \A a \in Allocs : allocs'[a] = IF a = req[t].alloc THEN h ELSE allocs[a]
      BY <1>c DEF TablesOK
    <2> QED
      BY <1>c, <2>1 DEF OneAllocation
  <1>1. ASSUME NEW t \in Threads, NEW a \in Allocs, NEW h \in Holders, NEW k \in Shards, StartAllocate(t, a, h, k)
        PROVE  OneAllocation'
    <2>1. ~InUse(h) /\ allocs' = allocs /\ Others(t) /\ req'[t].who = h
      BY <1>1, <1>a DEF StartAllocate, Arrive, Requests
    <2> QED
      BY <2>1 DEF OneAllocation, InUse
  <1>2. ASSUME NEW t \in Threads, NEW a \in Allocs, NEW k \in Shards, StartLoad(t, a, k)
        PROVE  OneAllocation'
    BY <1>2, <1>a, <1>b DEF StartLoad, Arrive, Requests
  <1>3. ASSUME NEW t \in Threads, NEW a \in Allocs, StartUnload(t, a)
        PROVE  OneAllocation'
    BY <1>3, <1>a, <1>b DEF StartUnload, Arrive, Requests
  <1>4. ASSUME NEW t \in Threads, NEW a \in Allocs, NEW c \in Clients, NEW k \in Shards, StartAttach(t, a, c, k)
        PROVE  OneAllocation'
    BY <1>4, <1>a, <1>b DEF StartAttach, Arrive, Requests
  <1>5. ASSUME NEW t \in Threads, NEW a \in Allocs, NEW c \in Clients, NEW o \in {"heartbeat", "detach"}, StartClient(t, a, c, o)
        PROVE  OneAllocation'
    BY <1>5, <1>a, <1>b DEF StartClient, Arrive, Requests
  <1>6. ASSUME NEW t \in Threads, Resolve(t)
        PROVE  OneAllocation'
    <2>1. /\ Others(t) /\ allocs' = allocs /\ req'[t].alloc = req[t].alloc
          /\ req'[t].who = allocs[req[t].alloc] /\ req[t].alloc \in Allocs
      BY <1>6, <1>a, AtPlace DEF Resolve, Requests
    <2> QED
      BY <2>1 DEF OneAllocation
  <1>7. ASSUME NEW t \in Threads, GiveUp(t)
        PROVE  OneAllocation'
    BY <1>7, <1>a, <1>b DEF GiveUp, Fail, Goto, Return, Requests
  <1>8. ASSUME NEW t \in Threads, TakeLoadSlot(t)
        PROVE  OneAllocation'
    BY <1>8, <1>a, <1>b DEF TakeLoadSlot, Goto, Requests
  <1>9. ASSUME NEW t \in Threads, TakeAttachSlot(t)
        PROVE  OneAllocation'
    BY <1>9, <1>a, <1>b DEF TakeAttachSlot, Goto, Requests
  <1>10. ASSUME NEW t \in Threads, Acquire(t)
        PROVE  OneAllocation'
    BY <1>10, <1>a, <1>b DEF Acquire, Goto, Requests
  <1>11. ASSUME NEW t \in Threads, AllocateEnsure(t)
        PROVE  OneAllocation'
    BY <1>11, <1>a, <1>b DEF AllocateEnsure, Goto, Return, Requests
  <1>12. ASSUME NEW t \in Threads, AllocatePut(t)
        PROVE  OneAllocation'
    <2>1. req[t].alloc \in Allocs
      BY <1>12, AtPlace DEF AllocatePut
    <2> QED
      BY <1>12, <1>a, <1>b, <1>c, <2>1 DEF AllocatePut, Goto, Requests
  <1>13. ASSUME NEW t \in Threads, AllocateDelete(t)
        PROVE  OneAllocation'
    <2>1. req[t].alloc \in Allocs
      BY <1>13, AtPlace DEF AllocateDelete
    <2> QED
      BY <1>13, <1>a, <1>b, <1>c, <2>1 DEF AllocateDelete, Goto, Requests
  <1>14. ASSUME NEW t \in Threads, AllocateRelease(t)
        PROVE  OneAllocation'
    BY <1>14, <1>a, <1>b DEF AllocateRelease, Return, Requests
  <1>15. ASSUME NEW t \in Threads, LoadLease(t)
        PROVE  OneAllocation'
    BY <1>15, <1>a, <1>b DEF LoadLease, Fail, Goto, Return, Unlock, Requests
  <1>16. ASSUME NEW t \in Threads, LoadShard(t)
        PROVE  OneAllocation'
    BY <1>16, <1>a, <1>b DEF LoadShard, Advance, Requests
  <1>17. ASSUME NEW t \in Threads, LoadBreaks(t)
        PROVE  OneAllocation'
    BY <1>17, <1>a, <1>b DEF LoadBreaks, Goto, Requests
  <1>18. ASSUME NEW t \in Threads, LoadUndo(t)
        PROVE  OneAllocation'
    BY <1>18, <1>a, <1>b DEF LoadUndo, Advance, Requests
  <1>19. ASSUME NEW t \in Threads, LoadUndone(t)
        PROVE  OneAllocation'
    BY <1>19, <1>a, <1>b DEF LoadUndone, Fail, Goto, Return, Unlock, Requests
  <1>20. ASSUME NEW t \in Threads, LoadReady(t)
        PROVE  OneAllocation'
    BY <1>20, <1>a, <1>b DEF LoadReady, Return, Unlock, Requests
  <1>21. ASSUME NEW t \in Threads, UnloadCheck(t)
        PROVE  OneAllocation'
    BY <1>21, <1>a, <1>b DEF UnloadCheck, Goto, Return, Unlock, Requests
  <1>22. ASSUME NEW t \in Threads, UnloadCount(t)
        PROVE  OneAllocation'
    BY <1>22, <1>a, <1>b DEF UnloadCount, Goto, Return, Unlock, Requests
  <1>23. ASSUME NEW t \in Threads, UnloadShard(t)
        PROVE  OneAllocation'
    BY <1>23, <1>a, <1>b DEF UnloadShard, Advance, Requests
  <1>24. ASSUME NEW t \in Threads, UnloadBreaks(t)
        PROVE  OneAllocation'
    BY <1>24, <1>a, <1>b DEF UnloadBreaks, Return, Unlock, Requests
  <1>25. ASSUME NEW t \in Threads, UnloadLease(t)
        PROVE  OneAllocation'
    BY <1>25, <1>a, <1>b DEF UnloadLease, Goto, Requests
  <1>26. ASSUME NEW t \in Threads, UnloadDrop(t)
        PROVE  OneAllocation'
    <2>1. req[t].alloc \in Allocs
      BY <1>26, AtPlace DEF UnloadDrop
    <2> QED
      BY <1>26, <1>a, <1>b, <1>c, <2>1 DEF UnloadDrop, Return, Unlock, Requests
  <1>27. ASSUME NEW t \in Threads, Prune(t)
        PROVE  OneAllocation'
    BY <1>27, <1>a, <1>b DEF Prune, Requests
  <1>28. ASSUME NEW t \in Threads, PruneDetach(t)
        PROVE  OneAllocation'
    BY <1>28, <1>a, <1>b DEF PruneDetach, Requests
  <1>29. ASSUME NEW t \in Threads, Pruned(t)
        PROVE  OneAllocation'
    BY <1>29, <1>a, <1>b DEF Pruned, Goto, Requests
  <1>30. ASSUME NEW t \in Threads, AttachShard(t)
        PROVE  OneAllocation'
    BY <1>30, <1>a, <1>b DEF AttachShard, Advance, Requests
  <1>31. ASSUME NEW t \in Threads, AttachBreaks(t)
        PROVE  OneAllocation'
    BY <1>31, <1>a, <1>b DEF AttachBreaks, Goto, Requests
  <1>32. ASSUME NEW t \in Threads, AttachUndo(t)
        PROVE  OneAllocation'
    BY <1>32, <1>a, <1>b DEF AttachUndo, Advance, Requests
  <1>33. ASSUME NEW t \in Threads, AttachUndone(t)
        PROVE  OneAllocation'
    BY <1>33, <1>a, <1>b DEF AttachUndone, Return, Requests
  <1>34. ASSUME NEW t \in Threads, AttachReady(t)
        PROVE  OneAllocation'
    BY <1>34, <1>a, <1>b DEF AttachReady, Return, Requests
  <1>35. ASSUME NEW t \in Threads, Heartbeat(t)
        PROVE  OneAllocation'
    BY <1>35, <1>a, <1>b DEF Heartbeat, Return, Requests
  <1>36. ASSUME NEW t \in Threads, DetachTake(t)
        PROVE  OneAllocation'
    BY <1>36, <1>a, <1>b DEF DetachTake, Requests
  <1>37. ASSUME NEW t \in Threads, DetachShard(t)
        PROVE  OneAllocation'
    BY <1>37, <1>a, <1>b DEF DetachShard, Advance, Requests
  <1>38. ASSUME NEW t \in Threads, DetachEnd(t)
        PROVE  OneAllocation'
    BY <1>38, <1>a, <1>b DEF DetachEnd, Return, Requests
  <1>39. ASSUME Restart
        PROVE  OneAllocation'
    BY <1>39 DEF Restart, OneAllocation
  <1>40. ASSUME UNCHANGED <<req, allocs>>
        PROVE  OneAllocation'
    BY <1>40 DEF OneAllocation
  <1> QED
    BY <1>1, <1>2, <1>3, <1>4, <1>5, <1>6, <1>7, <1>8, <1>9, <1>10, <1>11, <1>12, <1>13, <1>14,
       <1>15, <1>16, <1>17, <1>18, <1>19, <1>20, <1>21, <1>22, <1>23, <1>24, <1>25, <1>26, <1>27,
       <1>28, <1>29, <1>30, <1>31, <1>32, <1>33, <1>34, <1>35, <1>36, <1>37, <1>38, <1>39, <1>40
    DEF Next, RequestStep, LoadStep, UnloadStep, ClientStep, Expire, Collect, vars

LEMMA AllocatingNext == Careful /\ RequestsOK /\ TablesOK /\ Allocating /\ [Next]_vars => Allocating'
  <1> SUFFICES ASSUME Careful, RequestsOK, TablesOK, Allocating, [Next]_vars
               PROVE  Allocating'
    OBVIOUS
  <1> USE GpuAssumption, IdleIsRequest DEF At, table, memory, history, Others
  <1>a. ASSUME NEW t \in Threads
        PROVE  req[t] \in Requests /\ req \in [Threads -> Requests] /\ Consistent(req[t])
    BY DEF RequestsOK
  <1>b. ASSUME NEW t \in Threads, Others(t), allocs' = allocs, told' = told,
               \/ req'[t].op = "none"
               \/ /\ req'[t].op = req[t].op /\ req'[t].alloc = req[t].alloc
                  /\ req'[t].n = req[t].n /\ req'[t].who = req[t].who
                  /\ req'[t].op = "allocate" => /\ req'[t].pc \in Unstored => req[t].pc \in Unstored
                                                /\ req'[t].pc \in Stored => req[t].pc \in Stored
        PROVE  Allocating'
    <2>1. ASSUME NEW u \in Threads, req'[u].op # "none"
          PROVE  req[u].op # "none" /\ req'[u].op = req[u].op /\ req'[u].alloc = req[u].alloc
                 /\ req'[u].n = req[u].n /\ req'[u].who = req[u].who
      BY <1>b, <2>1
    <2>2. \A u, v \in Threads : req'[u].op = "allocate" /\ v # u /\ req'[v].op # "none"
                               => req'[v].alloc # req'[u].alloc
      BY <2>1 DEF Allocating
    <2>3. ASSUME NEW u \in Threads, req'[u].op = "allocate"
          PROVE  /\ req'[u].alloc \notin told /\ req'[u].n = NumShards
                 /\ req'[u].pc \in Unstored => allocs[req'[u].alloc] = Unused
                 /\ req'[u].pc \in Stored => allocs[req'[u].alloc] = req'[u].who
      <3>1. /\ req'[u].pc \in Unstored => req[u].pc \in Unstored
            /\ req'[u].pc \in Stored => req[u].pc \in Stored
        BY <1>b, <2>1, <2>3
      <3>2. req[u].op = "allocate" /\ req'[u].alloc = req[u].alloc
            /\ req'[u].n = req[u].n /\ req'[u].who = req[u].who
        BY <2>1, <2>3
      <3> QED
        BY <3>1, <3>2 DEF Allocating
    <2> QED
      BY <1>b, <2>2, <2>3 DEF Allocating
  <1>c. ASSUME NEW t \in Threads, Others(t), allocs' = allocs, told' = told,
               req'[t].op # "allocate", req'[t].alloc \in told
        PROVE  Allocating'
    BY <1>c DEF Allocating
  <1>d. ASSUME NEW t \in Threads, Others(t), told' = told, NEW h, h # Unused,
               allocs' = [allocs EXCEPT ![req[t].alloc] = h], req[t].op # "none",
               \/ req'[t].op = "none"
               \/ /\ req'[t].op = req[t].op /\ req'[t].alloc = req[t].alloc
                  /\ req'[t].n = req[t].n /\ req'[t].who = req[t].who
                  /\ req'[t].pc \notin Unstored
                  /\ req'[t].pc \in Stored => h = req[t].who
        PROVE  Allocating'
    <2>1. req[t].alloc \in Allocs
      BY <1>a, <1>d DEF Consistent
    <2>2. \A a \in Allocs : allocs'[a] = IF a = req[t].alloc THEN h ELSE allocs[a]
      BY <1>d, <2>1 DEF TablesOK
    <2>3. \A u \in Threads : req[u].op = "allocate" => req[u].alloc \in Allocs
      BY <1>a DEF Consistent
    <2>4. told \subseteq Allocs
      BY DEF TablesOK
    <2> QED
      BY <1>d, <2>1, <2>2, <2>3, <2>4 DEF Allocating
  <1>1. ASSUME NEW t \in Threads, NEW a \in Allocs, NEW h \in Holders, NEW k \in Shards, StartAllocate(t, a, h, k)
        PROVE  Allocating'
    <2>1. /\ Others(t) /\ allocs' = allocs /\ told' = told
          /\ req'[t].op = "allocate" /\ req'[t].alloc = a /\ req'[t].pc \in Unstored
          /\ \A u \in Threads : req[u].alloc # a
      BY <1>1, <1>a DEF StartAllocate, Arrive, Requests, Unstored
    <2>2. /\ allocs[a] = Unused /\ a \notin told
          /\ req'[t].n = NumShards /\ req'[t].pc \notin Stored
      BY <1>1, <1>a DEF StartAllocate, Arrive, Requests, Allocating, Stored
    <2>3. \A u, v \in Threads : req'[u].op = "allocate" /\ v # u /\ req'[v].op # "none"
                               => req'[v].alloc # req'[u].alloc
      BY <2>1 DEF Allocating
    <2>4. ASSUME NEW u \in Threads, req'[u].op = "allocate"
          PROVE  /\ req'[u].alloc \notin told /\ req'[u].n = NumShards
                 /\ req'[u].pc \in Unstored => allocs[req'[u].alloc] = Unused
                 /\ req'[u].pc \in Stored => allocs[req'[u].alloc] = req'[u].who
      BY <2>1, <2>2, <2>4 DEF Allocating
    <2> QED
      BY <2>1, <2>3, <2>4 DEF Allocating
  <1>2. ASSUME NEW t \in Threads, NEW a \in Allocs, NEW k \in Shards, StartLoad(t, a, k)
        PROVE  Allocating'
    BY <1>2, <1>a, <1>c DEF StartLoad, Arrive, Requests
  <1>3. ASSUME NEW t \in Threads, NEW a \in Allocs, StartUnload(t, a)
        PROVE  Allocating'
    BY <1>3, <1>a, <1>c DEF StartUnload, Arrive, Requests
  <1>4. ASSUME NEW t \in Threads, NEW a \in Allocs, NEW c \in Clients, NEW k \in Shards, StartAttach(t, a, c, k)
        PROVE  Allocating'
    BY <1>4, <1>a, <1>c DEF StartAttach, Arrive, Requests
  <1>5. ASSUME NEW t \in Threads, NEW a \in Allocs, NEW c \in Clients, NEW o \in {"heartbeat", "detach"}, StartClient(t, a, c, o)
        PROVE  Allocating'
    BY <1>5, <1>a, <1>c DEF StartClient, Arrive, Requests
  <1>6. ASSUME NEW t \in Threads, Resolve(t)
        PROVE  Allocating'
    <2>1. /\ Others(t) /\ allocs' = allocs /\ told' = told /\ req[t].pc = "resolve"
          /\ req'[t].alloc = req[t].alloc /\ req'[t].op = req[t].op /\ req'[t].n = req[t].n
          /\ req'[t].who = allocs[req[t].alloc] /\ req[t].alloc \in Allocs
          /\ req'[t].pc \in {"slot", "lock", "prune"}
      BY <1>6, <1>a, AtPlace DEF Resolve, Requests
    <2>2. req[t].op = "allocate" => req'[t].who = req[t].who
      BY <2>1 DEF Allocating, Stored
    <2>3. CASE req[t].op = "allocate"
      BY <1>b, <2>1, <2>2, <2>3 DEF Unstored, Stored
    <2>4. CASE req[t].op # "allocate"
      BY <2>1, <2>4 DEF Allocating
    <2> QED
      BY <2>3, <2>4
  <1>7. ASSUME NEW t \in Threads, GiveUp(t)
        PROVE  Allocating'
    BY <1>7, <1>a, <1>b
    DEF GiveUp, Fail, Goto, Return, Requests, Unstored, Stored, Consistent, OnTheWay
  <1>8. ASSUME NEW t \in Threads, TakeLoadSlot(t)
        PROVE  Allocating'
    BY <1>8, <1>a, <1>b DEF TakeLoadSlot, Goto, Requests, Unstored, Stored, Consistent, OnTheWay
  <1>9. ASSUME NEW t \in Threads, TakeAttachSlot(t)
        PROVE  Allocating'
    BY <1>9, <1>a, <1>b DEF TakeAttachSlot, Goto, Requests, Unstored, Stored, Consistent, OnTheWay
  <1>10. ASSUME NEW t \in Threads, Acquire(t)
        PROVE  Allocating'
    BY <1>10, <1>a, <1>b DEF Acquire, Goto, Requests, Unstored, Stored, Consistent, OnTheWay
  <1>11. ASSUME NEW t \in Threads, AllocateEnsure(t)
        PROVE  Allocating'
    BY <1>11, <1>a, <1>b
    DEF AllocateEnsure, Goto, Return, Requests, Unstored, Stored, Consistent, OnTheWay
  <1>12. ASSUME NEW t \in Threads, AllocatePut(t)
        PROVE  Allocating'
    <2>1. req[t].op = "allocate" /\ Others(t) /\ req[t].who \in Holders
      BY <1>12, <1>a, AtPlace DEF AllocatePut, Goto, Consistent, OnTheWay, Requests, Ops
    <2>2. CASE published
      <3>1. /\ allocs' = [allocs EXCEPT ![req[t].alloc] = req[t].who] /\ told' = told
            /\ req'[t].op = req[t].op /\ req'[t].alloc = req[t].alloc
            /\ req'[t].n = req[t].n /\ req'[t].who = req[t].who
            /\ req'[t].pc = "resolve"
        BY <1>12, <1>a, <2>2 DEF AllocatePut, Goto, Requests
      <3>2. req[t].who # Unused
        BY <2>1
      <3> QED
        BY <1>d, <2>1, <3>1, <3>2 DEF Unstored
    <2>3. CASE ~published
      BY <1>12, <1>a, <1>b, <2>1, <2>3 DEF AllocatePut, Goto, Requests, Unstored, Stored
    <2> QED
      BY <2>2, <2>3
  <1>13. ASSUME NEW t \in Threads, AllocateDelete(t)
        PROVE  Allocating'
    BY <1>13, <1>a, <1>d DEF AllocateDelete, Goto, Requests, Consistent, OnTheWay, Unstored, Stored
  <1>14. ASSUME NEW t \in Threads, AllocateRelease(t)
        PROVE  Allocating'
    BY <1>14, <1>a, <1>b
    DEF AllocateRelease, Return, Requests, Unstored, Stored, Consistent, OnTheWay
  <1>15. ASSUME NEW t \in Threads, LoadLease(t)
        PROVE  Allocating'
    BY <1>15, <1>a, <1>b
    DEF LoadLease, Fail, Goto, Return, Unlock, Requests, Unstored, Stored, Consistent, OnTheWay
  <1>16. ASSUME NEW t \in Threads, LoadShard(t)
        PROVE  Allocating'
    BY <1>16, <1>a, <1>b DEF LoadShard, Advance, Requests, Unstored, Stored, Consistent, OnTheWay
  <1>17. ASSUME NEW t \in Threads, LoadBreaks(t)
        PROVE  Allocating'
    BY <1>17, <1>a, <1>b DEF LoadBreaks, Goto, Requests, Unstored, Stored, Consistent, OnTheWay
  <1>18. ASSUME NEW t \in Threads, LoadUndo(t)
        PROVE  Allocating'
    BY <1>18, <1>a, <1>b DEF LoadUndo, Advance, Requests, Unstored, Stored, Consistent, OnTheWay
  <1>19. ASSUME NEW t \in Threads, LoadUndone(t)
        PROVE  Allocating'
    BY <1>19, <1>a, <1>b
    DEF LoadUndone, Fail, Goto, Return, Unlock, Requests, Unstored, Stored, Consistent, OnTheWay
  <1>20. ASSUME NEW t \in Threads, LoadReady(t)
        PROVE  Allocating'
    <2>1. Others(t) /\ req'[t].op = "none" /\ allocs' = allocs
      BY <1>20, <1>a DEF LoadReady, Return
    <2>2. CASE req[t].op = "allocate"
      <3>1. told' = told \cup {req[t].alloc} /\ req[t].pc \in Stored /\ req[t].who \in Holders
        BY <1>20, <2>2, AtPlace DEF LoadReady, Stored
      <3>2. \A u \in Threads \ {t} : req[u].op = "allocate" => req[u].alloc # req[t].alloc
        BY <2>2 DEF Allocating
      <3> QED
        BY <2>1, <2>2, <3>1, <3>2 DEF Allocating
    <2>3. CASE req[t].op # "allocate"
      BY <1>b, <1>20, <2>1, <2>3 DEF LoadReady
    <2> QED
      BY <2>2, <2>3
  <1>21. ASSUME NEW t \in Threads, UnloadCheck(t)
        PROVE  Allocating'
    BY <1>21, <1>a, <1>b
    DEF UnloadCheck, Goto, Return, Unlock, Requests, Unstored, Stored, Consistent, OnTheWay
  <1>22. ASSUME NEW t \in Threads, UnloadCount(t)
        PROVE  Allocating'
    BY <1>22, <1>a, <1>b
    DEF UnloadCount, Goto, Return, Unlock, Requests, Unstored, Stored, Consistent, OnTheWay
  <1>23. ASSUME NEW t \in Threads, UnloadShard(t)
        PROVE  Allocating'
    BY <1>23, <1>a, <1>b DEF UnloadShard, Advance, Requests, Unstored, Stored, Consistent, OnTheWay
  <1>24. ASSUME NEW t \in Threads, UnloadBreaks(t)
        PROVE  Allocating'
    BY <1>24, <1>a, <1>b
    DEF UnloadBreaks, Return, Unlock, Requests, Unstored, Stored, Consistent, OnTheWay
  <1>25. ASSUME NEW t \in Threads, UnloadLease(t)
        PROVE  Allocating'
    BY <1>25, <1>a, <1>b DEF UnloadLease, Goto, Requests, Unstored, Stored, Consistent, OnTheWay
  <1>26. ASSUME NEW t \in Threads, UnloadDrop(t)
        PROVE  Allocating'
    BY <1>26, <1>a, <1>d DEF UnloadDrop, Return, Unlock, Requests, Consistent, OnTheWay
  <1>27. ASSUME NEW t \in Threads, Prune(t)
        PROVE  Allocating'
    BY <1>27, <1>a, <1>b DEF Prune, Requests, Unstored, Stored, Consistent, OnTheWay
  <1>28. ASSUME NEW t \in Threads, PruneDetach(t)
        PROVE  Allocating'
    BY <1>28, <1>a, <1>b DEF PruneDetach, Requests, Unstored, Stored, Consistent, OnTheWay
  <1>29. ASSUME NEW t \in Threads, Pruned(t)
        PROVE  Allocating'
    BY <1>29, <1>a, <1>b DEF Pruned, Goto, Requests, Unstored, Stored, Consistent, OnTheWay
  <1>30. ASSUME NEW t \in Threads, AttachShard(t)
        PROVE  Allocating'
    BY <1>30, <1>a, <1>b DEF AttachShard, Advance, Requests, Unstored, Stored, Consistent, OnTheWay
  <1>31. ASSUME NEW t \in Threads, AttachBreaks(t)
        PROVE  Allocating'
    BY <1>31, <1>a, <1>b DEF AttachBreaks, Goto, Requests, Unstored, Stored, Consistent, OnTheWay
  <1>32. ASSUME NEW t \in Threads, AttachUndo(t)
        PROVE  Allocating'
    BY <1>32, <1>a, <1>b DEF AttachUndo, Advance, Requests, Unstored, Stored, Consistent, OnTheWay
  <1>33. ASSUME NEW t \in Threads, AttachUndone(t)
        PROVE  Allocating'
    BY <1>33, <1>a, <1>b DEF AttachUndone, Return, Requests, Unstored, Stored, Consistent, OnTheWay
  <1>34. ASSUME NEW t \in Threads, AttachReady(t)
        PROVE  Allocating'
    BY <1>34, <1>a, <1>b DEF AttachReady, Return, Requests, Unstored, Stored, Consistent, OnTheWay
  <1>35. ASSUME NEW t \in Threads, Heartbeat(t)
        PROVE  Allocating'
    BY <1>35, <1>a, <1>b DEF Heartbeat, Return, Requests, Unstored, Stored, Consistent, OnTheWay
  <1>36. ASSUME NEW t \in Threads, DetachTake(t)
        PROVE  Allocating'
    BY <1>36, <1>a, <1>b DEF DetachTake, Requests, Unstored, Stored, Consistent, OnTheWay
  <1>37. ASSUME NEW t \in Threads, DetachShard(t)
        PROVE  Allocating'
    BY <1>37, <1>a, <1>b DEF DetachShard, Advance, Requests, Unstored, Stored, Consistent, OnTheWay
  <1>38. ASSUME NEW t \in Threads, DetachEnd(t)
        PROVE  Allocating'
    BY <1>38, <1>a, <1>b DEF DetachEnd, Return, Requests, Unstored, Stored, Consistent, OnTheWay
  <1>39. ASSUME Restart
        PROVE  Allocating'
    BY <1>39 DEF Restart, Allocating
  <1>40. ASSUME UNCHANGED <<req, allocs, told>>
        PROVE  Allocating'
    BY <1>40 DEF Allocating
  <1> QED
    BY <1>1, <1>2, <1>3, <1>4, <1>5, <1>6, <1>7, <1>8, <1>9, <1>10, <1>11, <1>12, <1>13, <1>14,
       <1>15, <1>16, <1>17, <1>18, <1>19, <1>20, <1>21, <1>22, <1>23, <1>24, <1>25, <1>26, <1>27,
       <1>28, <1>29, <1>30, <1>31, <1>32, <1>33, <1>34, <1>35, <1>36, <1>37, <1>38, <1>39, <1>40
    DEF Next, RequestStep, LoadStep, UnloadStep, ClientStep, Expire, Collect, vars

LEMMA UnloadingNext == Careful /\ RequestsOK /\ TablesOK /\ Allocating /\ Unloading /\ [Next]_vars => Unloading'
  <1> SUFFICES ASSUME Careful, RequestsOK, TablesOK, Allocating, Unloading, [Next]_vars
               PROVE  Unloading'
    OBVIOUS
  <1> USE GpuAssumption, IdleIsRequest DEF At, table, memory, history, Others
  <1>a. ASSUME NEW t \in Threads
        PROVE  req[t] \in Requests /\ req \in [Threads -> Requests] /\ Consistent(req[t])
    BY DEF RequestsOK
  <1>b. ASSUME NEW t \in Threads, Others(t), promised' \subseteq promised,
               \/ req'[t].op # "unload"
               \/ /\ req[t].op = "unload" /\ req'[t].alloc = req[t].alloc
                  /\ req'[t].n = req[t].n
        PROVE  Unloading'
    BY <1>b DEF Unloading
  <1>1. ASSUME NEW t \in Threads, NEW a \in Allocs, NEW h \in Holders, NEW k \in Shards, StartAllocate(t, a, h, k)
        PROVE  Unloading'
    BY <1>1, <1>a, <1>b DEF StartAllocate, Arrive, Requests
  <1>2. ASSUME NEW t \in Threads, NEW a \in Allocs, NEW k \in Shards, StartLoad(t, a, k)
        PROVE  Unloading'
    BY <1>2, <1>a, <1>b DEF StartLoad, Arrive, Requests
  <1>3. ASSUME NEW t \in Threads, NEW a \in Allocs, StartUnload(t, a)
        PROVE  Unloading'
    BY <1>3, <1>a DEF StartUnload, Arrive, Requests, Unloading
  <1>4. ASSUME NEW t \in Threads, NEW a \in Allocs, NEW c \in Clients, NEW k \in Shards, StartAttach(t, a, c, k)
        PROVE  Unloading'
    BY <1>4, <1>a, <1>b DEF StartAttach, Arrive, Requests
  <1>5. ASSUME NEW t \in Threads, NEW a \in Allocs, NEW c \in Clients, NEW o \in {"heartbeat", "detach"}, StartClient(t, a, c, o)
        PROVE  Unloading'
    BY <1>5, <1>a, <1>b DEF StartClient, Arrive, Requests
  <1>6. ASSUME NEW t \in Threads, Resolve(t)
        PROVE  Unloading'
    BY <1>6, <1>a, <1>b DEF Resolve, Requests
  <1>7. ASSUME NEW t \in Threads, GiveUp(t)
        PROVE  Unloading'
    BY <1>7, <1>a, <1>b DEF GiveUp, Fail, Goto, Return, Requests
  <1>8. ASSUME NEW t \in Threads, TakeLoadSlot(t)
        PROVE  Unloading'
    BY <1>8, <1>a, <1>b DEF TakeLoadSlot, Goto, Requests
  <1>9. ASSUME NEW t \in Threads, TakeAttachSlot(t)
        PROVE  Unloading'
    BY <1>9, <1>a, <1>b DEF TakeAttachSlot, Goto, Requests
  <1>10. ASSUME NEW t \in Threads, Acquire(t)
        PROVE  Unloading'
    BY <1>10, <1>a, <1>b DEF Acquire, Goto, Requests
  <1>11. ASSUME NEW t \in Threads, AllocateEnsure(t)
        PROVE  Unloading'
    BY <1>11, <1>a, <1>b DEF AllocateEnsure, Goto, Return, Requests
  <1>12. ASSUME NEW t \in Threads, AllocatePut(t)
        PROVE  Unloading'
    BY <1>12, <1>a, <1>b DEF AllocatePut, Goto, Requests
  <1>13. ASSUME NEW t \in Threads, AllocateDelete(t)
        PROVE  Unloading'
    BY <1>13, <1>a, <1>b DEF AllocateDelete, Goto, Requests
  <1>14. ASSUME NEW t \in Threads, AllocateRelease(t)
        PROVE  Unloading'
    BY <1>14, <1>a, <1>b DEF AllocateRelease, Return, Requests
  <1>15. ASSUME NEW t \in Threads, LoadLease(t)
        PROVE  Unloading'
    BY <1>15, <1>a, <1>b DEF LoadLease, Fail, Goto, Return, Unlock, Requests
  <1>16. ASSUME NEW t \in Threads, LoadShard(t)
        PROVE  Unloading'
    BY <1>16, <1>a, <1>b DEF LoadShard, Advance, Requests
  <1>17. ASSUME NEW t \in Threads, LoadBreaks(t)
        PROVE  Unloading'
    BY <1>17, <1>a, <1>b DEF LoadBreaks, Goto, Requests
  <1>18. ASSUME NEW t \in Threads, LoadUndo(t)
        PROVE  Unloading'
    BY <1>18, <1>a, <1>b DEF LoadUndo, Advance, Requests
  <1>19. ASSUME NEW t \in Threads, LoadUndone(t)
        PROVE  Unloading'
    BY <1>19, <1>a, <1>b DEF LoadUndone, Fail, Goto, Return, Unlock, Requests
  <1>20. ASSUME NEW t \in Threads, LoadReady(t)
        PROVE  Unloading'
    <2>1. Others(t) /\ req'[t].op = "none"
      BY <1>20, <1>a DEF LoadReady, Return
    <2>2. CASE req[t].op = "allocate"
      <3>1. promised' = promised \cup {req[t].alloc}
        BY <1>20, <2>2 DEF LoadReady
      <3>2. \A u \in Threads \ {t} : req[u].op = "unload" => req[u].alloc # req[t].alloc
        BY <2>2 DEF Allocating
      <3> QED
        BY <2>1, <3>1, <3>2 DEF Unloading
    <2>3. CASE req[t].op # "allocate"
      BY <1>b, <1>20, <2>1, <2>3 DEF LoadReady
    <2> QED
      BY <2>2, <2>3
  <1>21. ASSUME NEW t \in Threads, UnloadCheck(t)
        PROVE  Unloading'
    BY <1>21, <1>a, <1>b DEF UnloadCheck, Goto, Return, Unlock, Requests
  <1>22. ASSUME NEW t \in Threads, UnloadCount(t)
        PROVE  Unloading'
    BY <1>22, <1>a, <1>b DEF UnloadCount, Goto, Return, Unlock, Requests
  <1>23. ASSUME NEW t \in Threads, UnloadShard(t)
        PROVE  Unloading'
    BY <1>23, <1>a, <1>b DEF UnloadShard, Advance, Requests
  <1>24. ASSUME NEW t \in Threads, UnloadBreaks(t)
        PROVE  Unloading'
    BY <1>24, <1>a, <1>b DEF UnloadBreaks, Return, Unlock, Requests
  <1>25. ASSUME NEW t \in Threads, UnloadLease(t)
        PROVE  Unloading'
    BY <1>25, <1>a, <1>b DEF UnloadLease, Goto, Requests
  <1>26. ASSUME NEW t \in Threads, UnloadDrop(t)
        PROVE  Unloading'
    BY <1>26, <1>a, <1>b DEF UnloadDrop, Return, Unlock, Requests
  <1>27. ASSUME NEW t \in Threads, Prune(t)
        PROVE  Unloading'
    BY <1>27, <1>a, <1>b DEF Prune, Requests
  <1>28. ASSUME NEW t \in Threads, PruneDetach(t)
        PROVE  Unloading'
    BY <1>28, <1>a, <1>b DEF PruneDetach, Requests
  <1>29. ASSUME NEW t \in Threads, Pruned(t)
        PROVE  Unloading'
    BY <1>29, <1>a, <1>b DEF Pruned, Goto, Requests
  <1>30. ASSUME NEW t \in Threads, AttachShard(t)
        PROVE  Unloading'
    BY <1>30, <1>a, <1>b DEF AttachShard, Advance, Requests
  <1>31. ASSUME NEW t \in Threads, AttachBreaks(t)
        PROVE  Unloading'
    BY <1>31, <1>a, <1>b DEF AttachBreaks, Goto, Requests
  <1>32. ASSUME NEW t \in Threads, AttachUndo(t)
        PROVE  Unloading'
    BY <1>32, <1>a, <1>b DEF AttachUndo, Advance, Requests
  <1>33. ASSUME NEW t \in Threads, AttachUndone(t)
        PROVE  Unloading'
    BY <1>33, <1>a, <1>b DEF AttachUndone, Return, Requests
  <1>34. ASSUME NEW t \in Threads, AttachReady(t)
        PROVE  Unloading'
    BY <1>34, <1>a, <1>b DEF AttachReady, Return, Requests
  <1>35. ASSUME NEW t \in Threads, Heartbeat(t)
        PROVE  Unloading'
    BY <1>35, <1>a, <1>b DEF Heartbeat, Return, Requests
  <1>36. ASSUME NEW t \in Threads, DetachTake(t)
        PROVE  Unloading'
    BY <1>36, <1>a, <1>b DEF DetachTake, Requests, Consistent, OnTheWay
  <1>37. ASSUME NEW t \in Threads, DetachShard(t)
        PROVE  Unloading'
    BY <1>37, <1>a, <1>b DEF DetachShard, Advance, Requests
  <1>38. ASSUME NEW t \in Threads, DetachEnd(t)
        PROVE  Unloading'
    BY <1>38, <1>a, <1>b DEF DetachEnd, Return, Requests
  <1>39. ASSUME Restart
        PROVE  Unloading'
    BY <1>39 DEF Restart, Unloading
  <1>40. ASSUME UNCHANGED <<req, promised>>
        PROVE  Unloading'
    BY <1>40 DEF Unloading
  <1> QED
    BY <1>1, <1>2, <1>3, <1>4, <1>5, <1>6, <1>7, <1>8, <1>9, <1>10, <1>11, <1>12, <1>13, <1>14,
       <1>15, <1>16, <1>17, <1>18, <1>19, <1>20, <1>21, <1>22, <1>23, <1>24, <1>25, <1>26, <1>27,
       <1>28, <1>29, <1>30, <1>31, <1>32, <1>33, <1>34, <1>35, <1>36, <1>37, <1>38, <1>39, <1>40
    DEF Next, RequestStep, LoadStep, UnloadStep, ClientStep, Expire, Collect, vars

LEMMA LeasedNext ==
  RequestsOK /\ TablesOK /\ LockHeld /\ OneAllocation /\ Allocating /\ Unloading /\ Leased
    /\ [Next]_vars => Leased'
  <1> SUFFICES ASSUME RequestsOK, TablesOK, LockHeld, OneAllocation,
                      Allocating, Unloading, Leased, [Next]_vars
               PROVE  Leased'
    OBVIOUS
  <1> USE GpuAssumption, IdleIsRequest DEF At, table, memory, history, Others
  <1>a. ASSUME NEW t \in Threads
        PROVE  req[t] \in Requests /\ req \in [Threads -> Requests] /\ Consistent(req[t])
    BY DEF RequestsOK
  <1>b. ASSUME NEW t \in Threads, Others(t), published => published', leases \subseteq leases',
               promised' \subseteq promised, \A a \in promised : allocs'[a] = allocs[a],
               \/ req'[t].pc \notin {"load", "undo"}
               \/ /\ req[t].pc \in {"load", "undo"} /\ (req'[t].pc = "load" => req[t].pc = "load")
                  /\ req'[t].who = req[t].who /\ req'[t].had = req[t].had
        PROVE  Leased'
    <2>1. /\ \A a \in promised' : allocs'[a] \in leases'
          /\ promised' # {} => published'
      BY <1>b DEF Leased
    <2>2. ASSUME NEW u \in Threads, req'[u].pc = "load"
          PROVE  req'[u].who \in leases' /\ published'
      BY <1>b, <2>2 DEF Leased
    <2>3. ASSUME NEW u \in Threads, req'[u].pc \in {"load", "undo"}, ~req'[u].had
          PROVE  \A a \in promised' : allocs'[a] # req'[u].who
      BY <1>b, <2>3 DEF Leased
    <2> QED
      BY <2>1, <2>2, <2>3 DEF Leased
  <1>c. ASSUME NEW t \in Threads, NEW h, Others(t), published => published',
               req'[t].pc \notin {"load", "undo"},
               \A u \in Threads \ {t} : req[u].pc \notin {"load", "undo"},
               promised' \subseteq promised, leases' = leases \ {h},
               \A a \in promised : allocs[a] # h /\ allocs'[a] = allocs[a]
        PROVE  Leased'
    BY <1>c DEF Leased
  <1>d. ASSUME NEW t \in Threads, lock = t \/ lock = NoThread
        PROVE  \A u \in Threads \ {t} : req[u].pc \notin {"load", "undo"}
    BY <1>d DEF LockHeld, HoldsLock
  <1>1. ASSUME NEW t \in Threads, NEW a \in Allocs, NEW h \in Holders, NEW k \in Shards, StartAllocate(t, a, h, k)
        PROVE  Leased'
    BY <1>1, <1>a, <1>b DEF StartAllocate, Arrive, Requests
  <1>2. ASSUME NEW t \in Threads, NEW a \in Allocs, NEW k \in Shards, StartLoad(t, a, k)
        PROVE  Leased'
    BY <1>2, <1>a, <1>b DEF StartLoad, Arrive, Requests
  <1>3. ASSUME NEW t \in Threads, NEW a \in Allocs, StartUnload(t, a)
        PROVE  Leased'
    BY <1>3, <1>a, <1>b DEF StartUnload, Arrive, Requests
  <1>4. ASSUME NEW t \in Threads, NEW a \in Allocs, NEW c \in Clients, NEW k \in Shards, StartAttach(t, a, c, k)
        PROVE  Leased'
    BY <1>4, <1>a, <1>b DEF StartAttach, Arrive, Requests
  <1>5. ASSUME NEW t \in Threads, NEW a \in Allocs, NEW c \in Clients, NEW o \in {"heartbeat", "detach"}, StartClient(t, a, c, o)
        PROVE  Leased'
    BY <1>5, <1>a, <1>b DEF StartClient, Arrive, Requests
  <1>6. ASSUME NEW t \in Threads, Resolve(t)
        PROVE  Leased'
    BY <1>6, <1>a, <1>b DEF Resolve, Requests
  <1>7. ASSUME NEW t \in Threads, GiveUp(t)
        PROVE  Leased'
    BY <1>7, <1>a, <1>b DEF GiveUp, Fail, Goto, Return, Requests
  <1>8. ASSUME NEW t \in Threads, TakeLoadSlot(t)
        PROVE  Leased'
    BY <1>8, <1>a, <1>b DEF TakeLoadSlot, Goto, Requests
  <1>9. ASSUME NEW t \in Threads, TakeAttachSlot(t)
        PROVE  Leased'
    BY <1>9, <1>a, <1>b DEF TakeAttachSlot, Goto, Requests
  <1>10. ASSUME NEW t \in Threads, Acquire(t)
        PROVE  Leased'
    BY <1>10, <1>a, <1>b DEF Acquire, Goto, Requests
  <1>11. ASSUME NEW t \in Threads, AllocateEnsure(t)
        PROVE  Leased'
    BY <1>11, <1>a, <1>b DEF AllocateEnsure, Goto, Return, Requests
  <1>12. ASSUME NEW t \in Threads, AllocatePut(t)
        PROVE  Leased'
    <2>1. Others(t) /\ UNCHANGED <<published, leases, promised>>
          /\ req'[t].pc \notin {"load", "undo"} /\ req[t].alloc \in Allocs
      BY <1>12, <1>a, AtPlace DEF AllocatePut, Goto, Requests
    <2>2. req[t].alloc \notin promised
      BY <1>12, <1>a DEF AllocatePut, Consistent, OnTheWay, Requests, Ops, TablesOK, Allocating
    <2>3. \A a \in promised : allocs'[a] = allocs[a]
      BY <1>12, <2>1, <2>2 DEF AllocatePut, TablesOK
    <2> QED
      BY <1>b, <2>1, <2>3
  <1>13. ASSUME NEW t \in Threads, AllocateDelete(t)
        PROVE  Leased'
    <2>1. Others(t) /\ UNCHANGED <<published, leases, promised>>
          /\ req'[t].pc \notin {"load", "undo"} /\ req[t].alloc \in Allocs
      BY <1>13, <1>a, AtPlace DEF AllocateDelete, Goto, Requests
    <2>2. req[t].alloc \notin promised
      BY <1>13, <1>a DEF AllocateDelete, Consistent, OnTheWay, Requests, Ops, TablesOK, Allocating
    <2>3. \A a \in promised : allocs'[a] = allocs[a]
      BY <1>13, <2>1, <2>2 DEF AllocateDelete, TablesOK
    <2> QED
      BY <1>b, <2>1, <2>3
  <1>14. ASSUME NEW t \in Threads, AllocateRelease(t)
        PROVE  Leased'
    <2>1. Others(t) /\ UNCHANGED <<published, allocs, promised>> /\ leases' = leases \ {req[t].who}
          /\ req'[t].pc = "idle" /\ lock = NoThread
      BY <1>14, <1>a DEF AllocateRelease, Return
    <2>2. req[t].op = "allocate" /\ req[t].who \in Holders
      BY <1>14, <1>a, AtPlace DEF AllocateRelease, Consistent, OnTheWay, Requests, Ops
    <2>3. \A a \in promised : allocs[a] # req[t].who
      BY <2>2 DEF OneAllocation, Allocating, TablesOK
    <2> QED
      BY <1>c, <1>d, <2>1, <2>3
  <1>15. ASSUME NEW t \in Threads, LoadLease(t)
        PROVE  Leased'
    <2>1. Others(t) /\ UNCHANGED <<published, allocs, promised>> /\ leases \subseteq leases'
      BY <1>15, <1>a DEF LoadLease, Fail, Goto, Return, Unlock
    <2>2. CASE published
      <3>1. /\ req'[t].pc = "load" /\ req'[t].who = req[t].who /\ leases' = leases \cup {req[t].who}
            /\ req'[t].had = (req[t].who \in leases)
        BY <1>15, <1>a, <2>2 DEF LoadLease, Requests
      <3>2. /\ \A a \in promised' : allocs'[a] \in leases'
            /\ promised' # {} => published'
        BY <2>1 DEF Leased
      <3>3. ASSUME NEW u \in Threads, req'[u].pc = "load"
            PROVE  req'[u].who \in leases' /\ published'
        BY <2>1, <2>2, <3>1, <3>3 DEF Leased
      <3>4. ASSUME NEW u \in Threads, req'[u].pc \in {"load", "undo"}, ~req'[u].had
            PROVE  \A a \in promised' : allocs'[a] # req'[u].who
        BY <2>1, <3>1, <3>4 DEF Leased
      <3> QED
        BY <3>2, <3>3, <3>4 DEF Leased
    <2>3. CASE ~published
      <3>1. req'[t].pc \notin {"load", "undo"}
        BY <1>15, <1>a, <2>3 DEF LoadLease, Fail, Goto, Return, Unlock, Requests
      <3> QED
        BY <1>b, <2>1, <3>1
    <2> QED
      BY <2>2, <2>3
  <1>16. ASSUME NEW t \in Threads, LoadShard(t)
        PROVE  Leased'
    BY <1>16, <1>a, <1>b DEF LoadShard, Advance, Requests
  <1>17. ASSUME NEW t \in Threads, LoadBreaks(t)
        PROVE  Leased'
    BY <1>17, <1>a, <1>b DEF LoadBreaks, Goto, Requests
  <1>18. ASSUME NEW t \in Threads, LoadUndo(t)
        PROVE  Leased'
    BY <1>18, <1>a, <1>b DEF LoadUndo, Advance, Requests
  <1>19. ASSUME NEW t \in Threads, LoadUndone(t)
        PROVE  Leased'
    <2>1. Others(t) /\ UNCHANGED <<published, allocs, promised>> /\ req[t].pc = "undo"
          /\ req'[t].pc \notin {"load", "undo"}
      BY <1>19, <1>a DEF LoadUndone, Fail, Goto, Return, Unlock, Requests
    <2>2. CASE req[t].had
      BY <1>19, <1>b, <2>1, <2>2 DEF LoadUndone
    <2>3. CASE ~req[t].had
      <3>1. leases' = leases \ {req[t].who}
        BY <1>19, <2>3 DEF LoadUndone
      <3>2. \A a \in promised : allocs[a] # req[t].who
        BY <2>1, <2>3 DEF Leased
      <3>3. lock = t
        BY <2>1 DEF LockHeld, HoldsLock
      <3> QED
        BY <1>c, <1>d, <2>1, <3>1, <3>2, <3>3
    <2> QED
      BY <2>2, <2>3
  <1>20. ASSUME NEW t \in Threads, LoadReady(t)
        PROVE  Leased'
    <2>1. Others(t) /\ UNCHANGED <<published, leases, allocs>> /\ req[t].pc = "load"
          /\ req'[t].pc = "idle"
      BY <1>20, <1>a DEF LoadReady, Return, Unlock
    <2>2. CASE req[t].op = "allocate"
      <3>1. promised' = promised \cup {req[t].alloc}
        BY <1>20, <2>2 DEF LoadReady
      <3>2. allocs[req[t].alloc] \in leases /\ published
        BY <2>1, <2>2 DEF Allocating, Stored, Leased
      <3>3. \A u \in Threads : req'[u].pc \notin {"load", "undo"}
        BY <1>d, <2>1 DEF LockHeld, HoldsLock
      <3> QED
        BY <2>1, <3>1, <3>2, <3>3 DEF Leased
    <2>3. CASE req[t].op # "allocate"
      BY <1>b, <1>20, <2>1, <2>3 DEF LoadReady
    <2> QED
      BY <2>2, <2>3
  <1>21. ASSUME NEW t \in Threads, UnloadCheck(t)
        PROVE  Leased'
    BY <1>21, <1>a, <1>b DEF UnloadCheck, Goto, Return, Unlock, Requests
  <1>22. ASSUME NEW t \in Threads, UnloadCount(t)
        PROVE  Leased'
    BY <1>22, <1>a, <1>b DEF UnloadCount, Goto, Return, Unlock, Requests
  <1>23. ASSUME NEW t \in Threads, UnloadShard(t)
        PROVE  Leased'
    BY <1>23, <1>a, <1>b DEF UnloadShard, Advance, Requests
  <1>24. ASSUME NEW t \in Threads, UnloadBreaks(t)
        PROVE  Leased'
    BY <1>24, <1>a, <1>b DEF UnloadBreaks, Return, Unlock, Requests
  <1>25. ASSUME NEW t \in Threads, UnloadLease(t)
        PROVE  Leased'
    <2>1. Others(t) /\ UNCHANGED <<published, allocs, promised>> /\ leases' = leases \ {req[t].who}
          /\ req'[t].pc = "drop" /\ req[t].pc = "unload"
      BY <1>25, <1>a DEF UnloadLease, Goto, Requests
    <2>2. req[t].op = "unload" /\ req[t].who \in Holders
      BY <1>25, <1>a, AtPlace DEF UnloadLease, Consistent, OnTheWay, Requests, Ops
    <2>3. \A a \in promised : allocs[a] # req[t].who
      BY <2>2 DEF OneAllocation, Unloading, TablesOK
    <2>4. lock = t
      BY <2>1 DEF LockHeld, HoldsLock
    <2> QED
      BY <1>c, <1>d, <2>1, <2>3, <2>4
  <1>26. ASSUME NEW t \in Threads, UnloadDrop(t)
        PROVE  Leased'
    <2>1. Others(t) /\ UNCHANGED <<published, leases, promised>>
          /\ req'[t].pc \notin {"load", "undo"} /\ req[t].alloc \in Allocs
      BY <1>26, <1>a, AtPlace DEF UnloadDrop, Return, Unlock, Requests
    <2>2. req[t].alloc \notin promised
      BY <1>26, <1>a DEF UnloadDrop, Consistent, OnTheWay, Requests, Ops, TablesOK, Unloading
    <2>3. \A a \in promised : allocs'[a] = allocs[a]
      BY <1>26, <2>1, <2>2 DEF UnloadDrop, TablesOK
    <2> QED
      BY <1>b, <2>1, <2>3
  <1>27. ASSUME NEW t \in Threads, Prune(t)
        PROVE  Leased'
    BY <1>27, <1>a, <1>b DEF Prune, Requests
  <1>28. ASSUME NEW t \in Threads, PruneDetach(t)
        PROVE  Leased'
    BY <1>28, <1>a, <1>b DEF PruneDetach, Requests
  <1>29. ASSUME NEW t \in Threads, Pruned(t)
        PROVE  Leased'
    BY <1>29, <1>a, <1>b DEF Pruned, Goto, Requests
  <1>30. ASSUME NEW t \in Threads, AttachShard(t)
        PROVE  Leased'
    BY <1>30, <1>a, <1>b DEF AttachShard, Advance, Requests
  <1>31. ASSUME NEW t \in Threads, AttachBreaks(t)
        PROVE  Leased'
    BY <1>31, <1>a, <1>b DEF AttachBreaks, Goto, Requests
  <1>32. ASSUME NEW t \in Threads, AttachUndo(t)
        PROVE  Leased'
    BY <1>32, <1>a, <1>b DEF AttachUndo, Advance, Requests
  <1>33. ASSUME NEW t \in Threads, AttachUndone(t)
        PROVE  Leased'
    BY <1>33, <1>a, <1>b DEF AttachUndone, Return, Requests
  <1>34. ASSUME NEW t \in Threads, AttachReady(t)
        PROVE  Leased'
    BY <1>34, <1>a, <1>b DEF AttachReady, Return, Requests
  <1>35. ASSUME NEW t \in Threads, Heartbeat(t)
        PROVE  Leased'
    BY <1>35, <1>a, <1>b DEF Heartbeat, Return, Requests
  <1>36. ASSUME NEW t \in Threads, DetachTake(t)
        PROVE  Leased'
    BY <1>36, <1>a, <1>b DEF DetachTake, Requests
  <1>37. ASSUME NEW t \in Threads, DetachShard(t)
        PROVE  Leased'
    BY <1>37, <1>a, <1>b DEF DetachShard, Advance, Requests
  <1>38. ASSUME NEW t \in Threads, DetachEnd(t)
        PROVE  Leased'
    BY <1>38, <1>a, <1>b DEF DetachEnd, Return, Requests
  <1>39. ASSUME NEW c \in Clients, Expire(c)
        PROVE  Leased'
    BY <1>39 DEF Expire, Leased
  <1>40. ASSUME Collect
        PROVE  Leased'
    <2>1. leases = {} /\ lock = NoThread /\ UNCHANGED <<leases, allocs, req, promised>>
      BY <1>40 DEF Collect
    <2>2. promised = {}
      BY <2>1 DEF Leased
    <2>3. \A t \in Threads : req[t].pc \notin {"load", "undo"}
      BY <2>1 DEF LockHeld, HoldsLock
    <2> QED
      BY <2>1, <2>2, <2>3 DEF Leased
  <1>41. ASSUME Restart
        PROVE  Leased'
    BY <1>41 DEF Restart, Leased
  <1>42. ASSUME UNCHANGED vars
        PROVE  Leased'
    BY <1>42 DEF Leased, vars
  <1> QED
    BY <1>1, <1>2, <1>3, <1>4, <1>5, <1>6, <1>7, <1>8, <1>9, <1>10, <1>11, <1>12, <1>13, <1>14,
       <1>15, <1>16, <1>17, <1>18, <1>19, <1>20, <1>21, <1>22, <1>23, <1>24, <1>25, <1>26, <1>27,
       <1>28, <1>29, <1>30, <1>31, <1>32, <1>33, <1>34, <1>35, <1>36, <1>37, <1>38, <1>39, <1>40,
       <1>41, <1>42
    DEF Next, RequestStep, LoadStep, UnloadStep, ClientStep

LEMMA TakersFinite ==
  ASSUME NEW s
  PROVE  IsFiniteSet(Takers(s)) /\ Cardinality(Takers(s)) \in Nat
  <1>1. Takers(s) \subseteq Threads
    BY DEF Takers
  <1> QED
    BY <1>1, CountKept, FS_CardinalityType, GpuAssumption

LEMMA ReferencesNext ==
  Careful /\ RequestsOK /\ RequestsOK' /\ TablesOK /\ Allocating /\ References /\ [Next]_vars
    => References'
  <1> SUFFICES ASSUME Careful, RequestsOK, RequestsOK', TablesOK,
                      Allocating, References, [Next]_vars
               PROVE  References'
    OBVIOUS
  <1> USE GpuAssumption, IdleIsRequest DEF At, table, memory, history, Others
  <1>a. ASSUME NEW t \in Threads
        PROVE  req[t] \in Requests /\ req \in [Threads -> Requests] /\ Consistent(req[t])
    BY DEF RequestsOK
  <1>f. /\ IsFiniteSet(promised) /\ Cardinality(promised) \in Nat
        /\ \A s \in Shards : /\ Cardinality(Takers(s)) \in Nat /\ loads[s] \in Nat
                           /\ Cardinality(promised) + Cardinality(Takers(s)) <= loads[s]
    BY TakersFinite, FS_CardinalityType DEF References, TablesOK
  <1>g. ASSUME NEW t \in Threads, Others(t), NEW s, Takes(req'[t], s) => Takes(req[t], s)
        PROVE  /\ Cardinality(Takers(s)') \in Nat
               /\ Cardinality(Takers(s)') <= Cardinality(Takers(s))
    <2>1. Takers(s)' \subseteq Takers(s)
      BY <1>g DEF Takers
    <2> QED
      BY <2>1, TakersFinite, CountKept
  <1>h. ASSUME NEW t \in Threads, Others(t), NEW s, ~Takes(req'[t], s), Takes(req[t], s)
        PROVE  /\ Cardinality(Takers(s)') \in Nat
               /\ Cardinality(Takers(s)') + 1 <= Cardinality(Takers(s))
    <2>1. t \in Takers(s) /\ Takers(s)' \subseteq Takers(s) \ {t}
      BY <1>h DEF Takers
    <2>2. IsFiniteSet(Takers(s) \ {t}) /\ Cardinality(Takers(s) \ {t}) \in Nat
          /\ Cardinality(Takers(s) \ {t}) + 1 <= Cardinality(Takers(s))
      <3> DEFINE old == Takers(s)
      <3>1. IsFiniteSet(old) /\ t \in old
        BY <2>1, TakersFinite
      <3> HIDE DEF old
      <3>2. IsFiniteSet(old \ {t}) /\ Cardinality(old \ {t}) \in Nat
        BY <3>1, FS_RemoveElement, FS_CardinalityType
      <3>3. Cardinality(old \ {t}) + 1 <= Cardinality(old)
        BY <3>1, CountRemoved
      <3> QED
        BY <3>2, <3>3 DEF old
    <2>3. Cardinality(Takers(s)') \in Nat /\ Cardinality(Takers(s)') <= Cardinality(Takers(s) \ {t})
      BY <2>1, <2>2, CountKept
    <2> QED
      BY <2>2, <2>3, TakersFinite
  <1>i. ASSUME NEW t \in Threads, Others(t), NEW s
        PROVE  /\ Cardinality(Takers(s)') \in Nat
               /\ Cardinality(Takers(s)') <= Cardinality(Takers(s)) + 1
    <2> DEFINE old == Takers(s)
               new == Takers(s)'
    <2>1. new \subseteq old \cup {t} /\ IsFiniteSet(old)
      BY <1>i, TakersFinite DEF Takers
    <2> HIDE DEF old, new
    <2>2. Cardinality(new) \in Nat /\ Cardinality(new) <= Cardinality(old) + 1
      BY <2>1, CountAdded
    <2> QED
      BY <2>2 DEF old, new
  <1>b. ASSUME NEW t \in Threads, Others(t), loads' = loads, promised' \subseteq promised,
               \A s \in Shards : Takes(req'[t], s) => Takes(req[t], s)
        PROVE  References'
    <2>1. IsFiniteSet(promised') /\ Cardinality(promised') \in Nat
          /\ Cardinality(promised') <= Cardinality(promised)
      BY <1>b, <1>f, CountKept
    <2>2. ASSUME NEW s \in Shards
          PROVE  Cardinality(promised') + Cardinality(Takers(s)') <= loads'[s]
      <3>1. /\ Cardinality(Takers(s)') \in Nat
            /\ Cardinality(Takers(s)') <= Cardinality(Takers(s))
        BY <1>b, <1>g
      <3> QED
        BY <1>b, <1>f, <2>1, <3>1
    <2> QED
      BY <2>1, <2>2 DEF References
  <1>1. ASSUME NEW t \in Threads, NEW a \in Allocs, NEW h \in Holders, NEW k \in Shards, StartAllocate(t, a, h, k)
        PROVE  References'
    BY <1>1, <1>a, <1>b
    DEF StartAllocate, Arrive, Requests, Consistent, OnTheWay, Counting, Takes, Shards, Ops
  <1>2. ASSUME NEW t \in Threads, NEW a \in Allocs, NEW k \in Shards, StartLoad(t, a, k)
        PROVE  References'
    BY <1>2, <1>a, <1>b
    DEF StartLoad, Arrive, Requests, Consistent, OnTheWay, Counting, Takes, Shards, Ops
  <1>3. ASSUME NEW t \in Threads, NEW a \in Allocs, StartUnload(t, a)
        PROVE  References'
    <2>1. /\ Others(t) /\ loads' = loads /\ a \in promised /\ promised' = promised \ { a }
      BY <1>3, <1>a DEF StartUnload, Arrive
    <2>2. IsFiniteSet(promised') /\ Cardinality(promised') \in Nat
          /\ Cardinality(promised') + 1 <= Cardinality(promised)
      BY <2>1, <1>f, FS_RemoveElement, FS_CardinalityType, CountRemoved
    <2>3. ASSUME NEW s \in Shards
          PROVE  Cardinality(promised') + Cardinality(Takers(s)') <= loads'[s]
      <3>1. /\ Cardinality(Takers(s)') \in Nat
            /\ Cardinality(Takers(s)') <= Cardinality(Takers(s)) + 1
        BY <2>1, <1>i
      <3> QED
        BY <1>f, <2>1, <2>2, <3>1
    <2> QED
      BY <2>2, <2>3 DEF References
  <1>4. ASSUME NEW t \in Threads, NEW a \in Allocs, NEW c \in Clients, NEW k \in Shards, StartAttach(t, a, c, k)
        PROVE  References'
    BY <1>4, <1>a, <1>b
    DEF StartAttach, Arrive, Requests, Consistent, OnTheWay, Counting, Takes, Shards, Ops
  <1>5. ASSUME NEW t \in Threads, NEW a \in Allocs, NEW c \in Clients, NEW o \in {"heartbeat", "detach"}, StartClient(t, a, c, o)
        PROVE  References'
    BY <1>5, <1>a, <1>b
    DEF StartClient, Arrive, Requests, Consistent, OnTheWay, Counting, Takes, Shards, Ops
  <1>6. ASSUME NEW t \in Threads, Resolve(t)
        PROVE  References'
    BY <1>6, <1>a, <1>b DEF Resolve, Requests, Consistent, OnTheWay, Counting, Takes, Shards, Ops
  <1>7. ASSUME NEW t \in Threads, GiveUp(t)
        PROVE  References'
    BY <1>7, <1>a, <1>b
    DEF GiveUp, Fail, Goto, Return, Requests, Consistent, OnTheWay, Counting, Takes, Shards, Ops
  <1>8. ASSUME NEW t \in Threads, TakeLoadSlot(t)
        PROVE  References'
    BY <1>8, <1>a, <1>b
    DEF TakeLoadSlot, Goto, Requests, Consistent, OnTheWay, Counting, Takes, Shards, Ops
  <1>9. ASSUME NEW t \in Threads, TakeAttachSlot(t)
        PROVE  References'
    BY <1>9, <1>a, <1>b
    DEF TakeAttachSlot, Goto, Requests, Consistent, OnTheWay, Counting, Takes, Shards, Ops
  <1>10. ASSUME NEW t \in Threads, Acquire(t)
        PROVE  References'
    BY <1>10, <1>a, <1>b
    DEF Acquire, Goto, Requests, Consistent, OnTheWay, Counting, Takes, Shards, Ops
  <1>11. ASSUME NEW t \in Threads, AllocateEnsure(t)
        PROVE  References'
    BY <1>11, <1>a, <1>b
    DEF AllocateEnsure, Goto, Return, Requests, Consistent, OnTheWay, Counting, Takes, Shards, Ops
  <1>12. ASSUME NEW t \in Threads, AllocatePut(t)
        PROVE  References'
    BY <1>12, <1>a, <1>b
    DEF AllocatePut, Goto, Requests, Consistent, OnTheWay, Counting, Takes, Shards, Ops
  <1>13. ASSUME NEW t \in Threads, AllocateDelete(t)
        PROVE  References'
    BY <1>13, <1>a, <1>b
    DEF AllocateDelete, Goto, Requests, Consistent, OnTheWay, Counting, Takes, Shards, Ops
  <1>14. ASSUME NEW t \in Threads, AllocateRelease(t)
        PROVE  References'
    BY <1>14, <1>a, <1>b
    DEF AllocateRelease, Return, Requests, Consistent, OnTheWay, Counting, Takes, Shards, Ops
  <1>15. ASSUME NEW t \in Threads, LoadLease(t)
        PROVE  References'
    BY <1>15, <1>a, <1>b
    DEF LoadLease, Fail, Goto, Return, Unlock, Requests, Consistent, OnTheWay, Counting, Takes,
        Shards, Ops
  <1>16. ASSUME NEW t \in Threads, LoadShard(t)
        PROVE  References'
    <2> DEFINE k == req[t].i + 1
    <2>1. /\ Others(t) /\ promised' = promised /\ k \in Shards
          /\ req'[t] = [req[t] EXCEPT !.i = k] /\ loads' = [loads EXCEPT ![k] = loads[k] + 1]
      BY <1>16, <1>a DEF LoadShard, Advance, Requests, Shards
    <2>2. req'[t].i = req[t].i + 1 /\ req'[t].pc = req[t].pc /\ req'[t].op = req[t].op
          /\ req[t].op # "unload" /\ req[t].i \in Nat
      BY <1>16, <1>a, <2>1 DEF LoadShard, Requests, Consistent, OnTheWay
    <2>3. ASSUME NEW s \in Shards
          PROVE  Cardinality(promised') + Cardinality(Takers(s)') <= loads'[s]
      <3>1. CASE s = k
        <4>1. loads'[s] = loads[s] + 1
          BY <2>1, <3>1 DEF TablesOK
        <4>2. /\ Cardinality(Takers(s)') \in Nat
              /\ Cardinality(Takers(s)') <= Cardinality(Takers(s)) + 1
          BY <2>1, <1>i
        <4> QED
          BY <1>f, <2>1, <4>1, <4>2
      <3>2. CASE s # k
        <4>1. loads'[s] = loads[s]
          BY <2>1, <3>2 DEF TablesOK
        <4>2. Takes(req'[t], s) => Takes(req[t], s)
          BY <2>2, <3>2 DEF Takes, Shards
        <4>3. /\ Cardinality(Takers(s)') \in Nat
              /\ Cardinality(Takers(s)') <= Cardinality(Takers(s))
          BY <2>1, <4>2, <1>g
        <4> QED
          BY <1>f, <2>1, <4>1, <4>3
      <3> QED
        BY <3>1, <3>2
    <2> QED
      BY <1>f, <2>1, <2>3 DEF References
  <1>17. ASSUME NEW t \in Threads, LoadBreaks(t)
        PROVE  References'
    BY <1>17, <1>a, <1>b
    DEF LoadBreaks, Goto, Requests, Consistent, OnTheWay, Counting, Takes, Shards, Ops
  <1>18. ASSUME NEW t \in Threads, LoadUndo(t)
        PROVE  References'
    <2> DEFINE k == req[t].i
    <2>1. /\ Others(t) /\ promised' = promised /\ k \in Shards
          /\ req'[t] = [req[t] EXCEPT !.i = k - 1] /\ req[t].pc = "undo"
          /\ loads' = loads \/ loads' = [loads EXCEPT ![k] = loads[k] - 1]
      BY <1>18, <1>a DEF LoadUndo, Advance, Unloaded, Requests, Shards
    <2>2. req'[t].i = req[t].i - 1 /\ req'[t].pc = req[t].pc /\ req'[t].op = req[t].op
          /\ req[t].op # "unload" /\ req[t].i \in Nat
      BY <1>18, <1>a, <2>1 DEF LoadUndo, Requests, Consistent, OnTheWay
    <2>3. ASSUME NEW s \in Shards
          PROVE  Cardinality(promised') + Cardinality(Takers(s)') <= loads'[s]
      <3>1. CASE s = k
        <4>1. loads'[s] = loads[s] \/ loads'[s] = loads[s] - 1
          BY <2>1, <3>1 DEF TablesOK
        <4>2. Takes(req[t], s) /\ ~Takes(req'[t], s)
          BY <2>1, <2>2, <3>1 DEF Takes
        <4>3. /\ Cardinality(Takers(s)') \in Nat
              /\ Cardinality(Takers(s)') + 1 <= Cardinality(Takers(s))
          BY <2>1, <4>2, <1>h
        <4> QED
          BY <1>f, <2>1, <4>1, <4>3
      <3>2. CASE s # k
        <4>1. loads'[s] = loads[s]
          BY <2>1, <3>2 DEF TablesOK
        <4>2. Takes(req'[t], s) => Takes(req[t], s)
          BY <2>2, <3>2 DEF Takes, Shards
        <4>3. /\ Cardinality(Takers(s)') \in Nat
              /\ Cardinality(Takers(s)') <= Cardinality(Takers(s))
          BY <2>1, <4>2, <1>g
        <4> QED
          BY <1>f, <2>1, <4>1, <4>3
      <3> QED
        BY <3>1, <3>2
    <2> QED
      BY <1>f, <2>1, <2>3 DEF References
  <1>19. ASSUME NEW t \in Threads, LoadUndone(t)
        PROVE  References'
    BY <1>19, <1>a, <1>b
    DEF LoadUndone, Fail, Goto, Return, Unlock, Requests, Consistent, OnTheWay, Counting, Takes,
        Shards, Ops
  <1>20. ASSUME NEW t \in Threads, LoadReady(t)
        PROVE  References'
    <2>1. /\ Others(t) /\ loads' = loads /\ req'[t].op = "none" /\ req'[t].pc = "idle"
          /\ req[t].pc = "load" /\ req[t].i = req[t].n
      BY <1>20, <1>a DEF LoadReady, Return, Unlock
    <2>2. CASE req[t].op = "allocate"
      <3>1. promised' = promised \cup {req[t].alloc} /\ req[t].i = NumShards
        BY <1>20, <2>1, <2>2 DEF LoadReady, Allocating
      <3>2. IsFiniteSet(promised')
        BY <1>f, <3>1, FS_AddElement
      <3>3. Cardinality(promised') \in Nat /\ Cardinality(promised') <= Cardinality(promised) + 1
        BY <1>f, <3>1, CountAdded
      <3>4. ASSUME NEW s \in Shards
            PROVE  Cardinality(promised') + Cardinality(Takers(s)') <= loads'[s]
        <4>1. Takes(req[t], s) /\ ~Takes(req'[t], s)
          BY <2>1, <3>1 DEF Takes, Shards
        <4>2. /\ Cardinality(Takers(s)') \in Nat
              /\ Cardinality(Takers(s)') + 1 <= Cardinality(Takers(s))
          BY <2>1, <4>1, <1>h
        <4> QED
          BY <1>f, <2>1, <3>3, <4>2
      <3> QED
        BY <3>2, <3>4 DEF References
    <2>3. CASE req[t].op # "allocate"
      <3>1. promised' = promised
        BY <1>20, <2>3 DEF LoadReady
      <3>2. \A s \in Shards : ~Takes(req'[t], s)
        BY <2>1 DEF Takes
      <3> QED
        BY <1>b, <2>1, <3>1, <3>2
    <2> QED
      BY <2>2, <2>3
  <1>21. ASSUME NEW t \in Threads, UnloadCheck(t)
        PROVE  References'
    BY <1>21, <1>a, <1>b
    DEF UnloadCheck, Goto, Return, Unlock, Requests, Consistent, OnTheWay, Counting, Takes, Shards,
        Ops
  <1>22. ASSUME NEW t \in Threads, UnloadCount(t)
        PROVE  References'
    BY <1>22, <1>a, <1>b
    DEF UnloadCount, Goto, Return, Unlock, Requests, Consistent, OnTheWay, Counting, Takes, Shards,
        Ops
  <1>23. ASSUME NEW t \in Threads, UnloadShard(t)
        PROVE  References'
    <2> DEFINE k == req[t].i + 1
    <2>1. /\ Others(t) /\ promised' = promised /\ k \in Shards
          /\ req'[t] = [req[t] EXCEPT !.i = k] /\ loads' = [loads EXCEPT ![k] = loads[k] - 1]
      BY <1>23, <1>a DEF UnloadShard, Advance, Unloaded, Requests, Shards
    <2>2. req'[t].i = req[t].i + 1 /\ req'[t].pc = "unload" /\ req'[t].op = "unload"
          /\ req[t].op = "unload" /\ req[t].pc = "unload" /\ req[t].i \in Nat
      BY <1>23, <1>a, <2>1 DEF UnloadShard, Requests, Consistent, OnTheWay, Ops
    <2>3. ASSUME NEW s \in Shards
          PROVE  Cardinality(promised') + Cardinality(Takers(s)') <= loads'[s]
      <3>1. CASE s = k
        <4>1. loads'[s] = loads[s] - 1
          BY <2>1, <3>1 DEF TablesOK
        <4>2. Takes(req[t], s) /\ ~Takes(req'[t], s)
          BY <2>1, <2>2, <3>1 DEF Takes
        <4>3. /\ Cardinality(Takers(s)') \in Nat
              /\ Cardinality(Takers(s)') + 1 <= Cardinality(Takers(s))
          BY <2>1, <4>2, <1>h
        <4> QED
          BY <1>f, <2>1, <4>1, <4>3
      <3>2. CASE s # k
        <4>1. loads'[s] = loads[s]
          BY <2>1, <3>2 DEF TablesOK
        <4>2. Takes(req'[t], s) => Takes(req[t], s)
          BY <2>2, <3>2 DEF Takes, Shards
        <4>3. /\ Cardinality(Takers(s)') \in Nat
              /\ Cardinality(Takers(s)') <= Cardinality(Takers(s))
          BY <2>1, <4>2, <1>g
        <4> QED
          BY <1>f, <2>1, <4>1, <4>3
      <3> QED
        BY <3>1, <3>2
    <2> QED
      BY <1>f, <2>1, <2>3 DEF References
  <1>24. ASSUME NEW t \in Threads, UnloadBreaks(t)
        PROVE  References'
    BY <1>24, <1>a, <1>b
    DEF UnloadBreaks, Return, Unlock, Requests, Consistent, OnTheWay, Counting, Takes, Shards, Ops
  <1>25. ASSUME NEW t \in Threads, UnloadLease(t)
        PROVE  References'
    BY <1>25, <1>a, <1>b
    DEF UnloadLease, Goto, Requests, Consistent, OnTheWay, Counting, Takes, Shards, Ops
  <1>26. ASSUME NEW t \in Threads, UnloadDrop(t)
        PROVE  References'
    BY <1>26, <1>a, <1>b
    DEF UnloadDrop, Return, Unlock, Requests, Consistent, OnTheWay, Counting, Takes, Shards, Ops
  <1>27. ASSUME NEW t \in Threads, Prune(t)
        PROVE  References'
    BY <1>27, <1>a, <1>b DEF Prune, Requests, Consistent, OnTheWay, Counting, Takes, Shards, Ops
  <1>28. ASSUME NEW t \in Threads, PruneDetach(t)
        PROVE  References'
    BY <1>28, <1>a, <1>b
    DEF PruneDetach, Requests, Consistent, OnTheWay, Counting, Takes, Shards, Ops
  <1>29. ASSUME NEW t \in Threads, Pruned(t)
        PROVE  References'
    BY <1>29, <1>a, <1>b
    DEF Pruned, Goto, Requests, Consistent, OnTheWay, Counting, Takes, Shards, Ops
  <1>30. ASSUME NEW t \in Threads, AttachShard(t)
        PROVE  References'
    BY <1>30, <1>a, <1>b
    DEF AttachShard, Advance, Requests, Consistent, OnTheWay, Counting, Takes, Shards, Ops
  <1>31. ASSUME NEW t \in Threads, AttachBreaks(t)
        PROVE  References'
    BY <1>31, <1>a, <1>b
    DEF AttachBreaks, Goto, Requests, Consistent, OnTheWay, Counting, Takes, Shards, Ops
  <1>32. ASSUME NEW t \in Threads, AttachUndo(t)
        PROVE  References'
    BY <1>32, <1>a, <1>b
    DEF AttachUndo, Advance, Requests, Consistent, OnTheWay, Counting, Takes, Shards, Ops
  <1>33. ASSUME NEW t \in Threads, AttachUndone(t)
        PROVE  References'
    BY <1>33, <1>a, <1>b
    DEF AttachUndone, Return, Requests, Consistent, OnTheWay, Counting, Takes, Shards, Ops
  <1>34. ASSUME NEW t \in Threads, AttachReady(t)
        PROVE  References'
    BY <1>34, <1>a, <1>b
    DEF AttachReady, Return, Requests, Consistent, OnTheWay, Counting, Takes, Shards, Ops
  <1>35. ASSUME NEW t \in Threads, Heartbeat(t)
        PROVE  References'
    BY <1>35, <1>a, <1>b
    DEF Heartbeat, Return, Requests, Consistent, OnTheWay, Counting, Takes, Shards, Ops
  <1>36. ASSUME NEW t \in Threads, DetachTake(t)
        PROVE  References'
    BY <1>36, <1>a, <1>b
    DEF DetachTake, Requests, Consistent, OnTheWay, Counting, Takes, Shards, Ops
  <1>37. ASSUME NEW t \in Threads, DetachShard(t)
        PROVE  References'
    BY <1>37, <1>a, <1>b
    DEF DetachShard, Advance, Requests, Consistent, OnTheWay, Counting, Takes, Shards, Ops
  <1>38. ASSUME NEW t \in Threads, DetachEnd(t)
        PROVE  References'
    BY <1>38, <1>a, <1>b
    DEF DetachEnd, Return, Requests, Consistent, OnTheWay, Counting, Takes, Shards, Ops
  <1>39. ASSUME NEW c \in Clients, Expire(c)
        PROVE  References'
    BY <1>39 DEF Expire, References, Takers
  <1>40. ASSUME Collect
        PROVE  References'
    BY <1>40 DEF Collect, References, Takers
  <1>41. ASSUME Restart
        PROVE  References'
    <2>1. promised' = {} /\ \A s \in Shards : loads'[s] = 0 /\ Takers(s)' = {}
      BY <1>41 DEF Restart, Takers, Takes
    <2>2. IsFiniteSet({}) /\ Cardinality({}) = 0
      BY FS_EmptySet
    <2> QED
      BY <2>1, <2>2 DEF References
  <1>42. ASSUME UNCHANGED vars
        PROVE  References'
    BY <1>42 DEF References, Takers, vars
  <1> QED
    BY <1>1, <1>2, <1>3, <1>4, <1>5, <1>6, <1>7, <1>8, <1>9, <1>10, <1>11, <1>12, <1>13, <1>14,
       <1>15, <1>16, <1>17, <1>18, <1>19, <1>20, <1>21, <1>22, <1>23, <1>24, <1>25, <1>26, <1>27,
       <1>28, <1>29, <1>30, <1>31, <1>32, <1>33, <1>34, <1>35, <1>36, <1>37, <1>38, <1>39, <1>40,
       <1>41, <1>42
    DEF Next, RequestStep, LoadStep, UnloadStep, ClientStep

LEMMA MemoryInvInit == Init => MemoryInv
  <1> SUFFICES ASSUME Init PROVE MemoryInv
    OBVIOUS
  <1> USE GpuAssumption, IdleIsRequest
  <1>1. LockHeld /\ OneAllocation /\ Allocating /\ Unloading /\ Leased
    BY DEF Init, LockHeld, HoldsLock, OneAllocation, Allocating, Unloading, Leased
  <1>2. promised = {} /\ \A s \in Shards : loads[s] = 0 /\ Takers(s) = {}
    BY DEF Init, Takers, Takes
  <1>3. IsFiniteSet({}) /\ Cardinality({}) = 0
    BY FS_EmptySet
  <1>4. References
    BY <1>2, <1>3 DEF References
  <1> QED
    BY <1>1, <1>4 DEF MemoryInv

(* With clients that use a holder for one allocation and unload it once,   *)
(* memory that was allocated and answered READY (gpu.go:450-469) stays     *)
(* resident, and leased, until somebody asks to unload it, whatever loads, *)
(* failed loads, roll-backs and unloads of other allocations meanwhile.    *)
THEOREM AllocatedStays == ASSUME Careful PROVE Spec => []AllocatedMemoryStays
  <1>1. Init => TablesOK /\ RequestsOK /\ MemoryInv
    BY TypesInit, MemoryInvInit
  <1>2. TablesOK /\ RequestsOK /\ MemoryInv /\ [Next]_vars => (TablesOK /\ RequestsOK /\ MemoryInv)'
    BY RequestsNext, TablesNext, LockNext, OneAllocationNext, AllocatingNext, UnloadingNext,
       LeasedNext,
       ReferencesNext DEF MemoryInv
  <1>3. TablesOK /\ RequestsOK /\ MemoryInv => AllocatedMemoryStays
    <2> SUFFICES ASSUME TablesOK, MemoryInv, NEW a \in promised
                 PROVE  /\ published /\ allocs[a] \in leases
                        /\ \A s \in Shards : loads[s] > 0
      BY DEF AllocatedMemoryStays
    <2>1. published /\ allocs[a] \in leases
      BY DEF MemoryInv, Leased
    <2>2. Cardinality(promised) \in Nat /\ Cardinality(promised) # 0
      BY FS_CardinalityType, FS_EmptySet DEF MemoryInv, References
    <2>3. ASSUME NEW s \in Shards PROVE loads[s] > 0
      <3>1. loads[s] \in Nat /\ Cardinality(Takers(s)) \in Nat
        BY TakersFinite DEF TablesOK
      <3>2. Cardinality(promised) + Cardinality(Takers(s)) <= loads[s]
        BY DEF MemoryInv, References
      <3> QED
        BY <2>2, <3>1, <3>2
    <2> QED
      BY <2>1, <2>3
  <1> QED
    BY <1>1, <1>2, <1>3, PTL DEF Spec
=============================================================================
