----------------------------- MODULE GpuLoader -----------------------------
(***************************************************************************)
(* gpu/gds_linux.go over gpu/gds_linux_bridge.c: sessions by device, the   *)
(* table of persistent allocations, the cuFile driver and the CUDA primary *)
(* contexts.  What the code does under the loader's mutex is one step;     *)
(* between its critical sections a load copies for a long time, and others *)
(* load, unload and end their sessions.  Unlike in GpuMemory, two loads of *)
(* one shard may meet here: the loader guards against it by itself.        *)
(***************************************************************************)
EXTENDS Naturals, FiniteSets

CONSTANTS Threads,   \* calls in flight
          Keys,      \* shards, by device and path
          Devices,
          DeviceOf,  \* DeviceOf[k]: the device that k is loaded to
          Clients,   \* client ids of importers
          Ptrs,      \* device memory: a bound
          NoPtr, NoKey,
          MaxRefs    \* bound: references of one kind to one shard

ASSUME LoaderAssumption ==
    /\ Devices # {} /\ DeviceOf \in [Keys -> Devices]
    /\ NoPtr \notin Ptrs /\ NoKey \notin Keys
    /\ MaxRefs \in Nat \ {0}
    /\ IsFiniteSet(Threads)

VARIABLES refs,      \* refs[d]: sessions on a device
          ptr,       \* allocations: where a shard is resident, or NoPtr
          loads,     \* loadRefs
          imports,   \* importers
          mem,       \* device memory that CUDA has given out
          driver,    \* g_driver_open
          retained,  \* g_device_ids: devices whose primary context is retained
          req,       \* req[t]: a call: its place, shard, device and memory
          refused    \* history: memory that CUDA refused to take back

table == <<ptr, loads, imports>>
cuda == <<mem, driver, retained, refused>>
vars == <<refs, table, mem, driver, retained, req, refused>>

Places == {"idle", "begin", "activate", "copy", "publish", "free", "end"}

(* A benchmark read has no shard in the table and never publishes.          *)
Idle == [pc |-> "idle", key |-> NoKey, dev |-> CHOOSE d \in Devices : TRUE, ptr |-> NoPtr]

InSession(t, d) == req[t].dev = d /\ req[t].pc \in {"activate", "copy", "publish", "free", "end"}

TypeOK ==
    /\ refs \in [Devices -> Nat]
    /\ ptr \in [Keys -> Ptrs \cup {NoPtr}]
    /\ loads \in [Keys -> 0..MaxRefs]
    /\ imports \in [Keys -> [Clients -> 0..MaxRefs]]
    /\ mem \in SUBSET Ptrs
    /\ driver \in BOOLEAN
    /\ retained \in SUBSET Devices
    /\ req \in [Threads -> [pc : Places, key : Keys \cup {NoKey}, dev : Devices,
                            ptr : Ptrs \cup {NoPtr}]]
    /\ refused \in SUBSET Ptrs

Init ==
    /\ refs = [d \in Devices |-> 0]
    /\ ptr = [k \in Keys |-> NoPtr]
    /\ loads = [k \in Keys |-> 0]
    /\ imports = [k \in Keys |-> [c \in Clients |-> 0]]
    /\ mem = {} /\ driver = FALSE /\ retained = {} /\ refused = {}
    /\ req = [t \in Threads |-> Idle]

At(t, pc) == req[t].pc = pc

Goto(t, pc) == req' = [req EXCEPT ![t].pc = pc]

Resident(k) == ptr[k] # NoPtr

NoSessions == \A d \in Devices : refs[d] = 0

(* gds_shutdown releases every context; cuFileDriverClose may fail, and the *)
(* driver then counts as open.                                              *)
Shutdown ==
    /\ retained' = {}
    /\ driver' \in {FALSE, driver}

(* Where a call goes when it is done with a file: a benchmark may have more *)
(* files to read, a load ends its session.                                  *)
NextPlaces(t) == IF req[t].key = NoKey THEN {"activate", "end"} ELSE {"end"}

(* Frees ignore their result: memory that CUDA refuses to take back is lost.*)
GiveBack(t, able) ==
    /\ \/ able /\ mem' = mem \ {req[t].ptr} /\ UNCHANGED refused
       \/ refused' = refused \cup {req[t].ptr} /\ UNCHANGED mem
    /\ \E pc \in NextPlaces(t) : req' = [req EXCEPT ![t].pc = pc, ![t].ptr = NoPtr]

-----------------------------------------------------------------------------
(* ListDevices and Probe open the driver without the loader's mutex.        *)
ListDevices ==
    /\ driver' = TRUE
    /\ UNCHANGED <<refs, table, mem, retained, req, refused>>

(* LoadPersistent: a shard that is in the table takes a reference.          *)
Lookup(t, k) ==
    /\ At(t, "idle")
    /\ IF Resident(k)
       THEN /\ loads[k] < MaxRefs
            /\ loads' = [loads EXCEPT ![k] = @ + 1]
            /\ UNCHANGED req
       ELSE /\ req' = [req EXCEPT ![t] = [Idle EXCEPT !.pc = "begin", !.key = k,
                                                      !.dev = DeviceOf[k]]]
            /\ UNCHANGED loads
    /\ UNCHANGED <<refs, ptr, imports, cuda>>

(* gpuBenchmarkLoad begins a session and calls LoadFile inside it.          *)
Benchmark(t, d) ==
    /\ At(t, "idle")
    /\ req' = [req EXCEPT ![t] = [Idle EXCEPT !.pc = "begin", !.dev = d]]
    /\ UNCHANGED <<refs, table, cuda>>

(* BeginSession: the first session of a device opens the driver and retains *)
(* its context.                                                             *)
Begin(t) ==
    /\ At(t, "begin")
    /\ refs' = [refs EXCEPT ![req[t].dev] = @ + 1]
    /\ IF refs[req[t].dev] > 0
       THEN UNCHANGED <<driver, retained>>
       ELSE driver' = TRUE /\ retained' = retained \cup {req[t].dev}
    /\ Goto(t, "activate")
    /\ UNCHANGED <<table, mem, refused>>

(* gds_init fails, or gds_activate_device after it does.                    *)
BeginFails(t) ==
    /\ At(t, "begin") /\ refs[req[t].dev] = 0
    /\ \/ UNCHANGED <<driver, retained>>
       \/ IF NoSessions /\ \A k \in Keys : ~Resident(k)
          THEN driver' \in BOOLEAN /\ retained' = {}
          ELSE driver' = TRUE /\ UNCHANGED retained
    /\ req' = [req EXCEPT ![t] = Idle]
    /\ UNCHANGED <<refs, table, mem, refused>>

(* gds_load_persistent and gds_read_file: activate the device, which needs  *)
(* an open driver, and take memory.                                         *)
Activate(t) ==
    /\ At(t, "activate") /\ driver
    /\ retained' = retained \cup {req[t].dev}
    /\ \E p \in Ptrs \ mem :
           /\ mem' = mem \cup {p}
           /\ req' = [req EXCEPT ![t].pc = "copy", ![t].ptr = p]
    /\ UNCHANGED <<refs, table, driver, refused>>

ActivateFails(t) ==
    /\ At(t, "activate")
    /\ retained' \in IF driver THEN {retained, retained \cup {req[t].dev}} ELSE {retained}
    /\ \E pc \in NextPlaces(t) : Goto(t, pc)
    /\ UNCHANGED <<refs, table, mem, driver, refused>>

(* The copy fails, or the benchmark read ends: the bridge frees the memory. *)
CopyDrops(t) ==
    /\ At(t, "copy")
    /\ GiveBack(t, TRUE)
    /\ UNCHANGED <<refs, table, driver, retained>>

(* The copy succeeds; fewer bytes than the file had are given back.         *)
CopyEnds(t) ==
    /\ At(t, "copy") /\ req[t].key # NoKey
    /\ \E pc \in {"publish", "free"} : Goto(t, pc)
    /\ UNCHANGED <<refs, table, cuda>>

\* Mutant: the table is not looked at again.
PublishOver(t) ==
    /\ At(t, "publish")
    /\ ptr' = [ptr EXCEPT ![req[t].key] = req[t].ptr]
    /\ loads' = [loads EXCEPT ![req[t].key] = 1]
    /\ req' = [req EXCEPT ![t].pc = "end", ![t].ptr = NoPtr]
    /\ UNCHANGED <<refs, imports, cuda>>

(* A load of the same shard may have been faster.                           *)
Publish(t) ==
    /\ At(t, "publish")
    /\ LET k == req[t].key
       IN IF Resident(k)
          THEN /\ loads[k] < MaxRefs
               /\ loads' = [loads EXCEPT ![k] = @ + 1]
               /\ Goto(t, "free")
               /\ UNCHANGED ptr
          ELSE /\ ptr' = [ptr EXCEPT ![k] = req[t].ptr]
               /\ loads' = [loads EXCEPT ![k] = 1]
               /\ req' = [req EXCEPT ![t].pc = "end", ![t].ptr = NoPtr]
    /\ UNCHANGED <<refs, imports, cuda>>

(* The free of a duplicate or short copy needs the driver.                  *)
FreeExtra(t) ==
    /\ At(t, "free")
    /\ GiveBack(t, driver)
    /\ UNCHANGED <<refs, table, driver, retained>>

\* Mutant: the last session leaves the driver as it is.
EndOnly(t) ==
    /\ At(t, "end")
    /\ refs' = [refs EXCEPT ![req[t].dev] = IF @ > 1 THEN @ - 1 ELSE 0]
    /\ req' = [req EXCEPT ![t] = Idle]
    /\ UNCHANGED <<table, cuda>>

(* releaseFn: the last session closes the driver, unless a shard stays.     *)
End(t) ==
    /\ At(t, "end")
    /\ refs' = [refs EXCEPT ![req[t].dev] = IF @ > 1 THEN @ - 1 ELSE 0]
    /\ IF NoSessions' /\ \A k \in Keys : ~Resident(k)
       THEN Shutdown
       ELSE UNCHANGED <<driver, retained>>
    /\ req' = [req EXCEPT ![t] = Idle]
    /\ UNCHANGED <<table, mem, refused>>

-----------------------------------------------------------------------------
(* Calls that hold the mutex from their start to their end.                 *)

UnloadOne(k) ==
    /\ loads[k] > 1
    /\ loads' = [loads EXCEPT ![k] = @ - 1]
    /\ UNCHANGED <<refs, ptr, imports, cuda, req>>

\* Mutant: the last shard closes the driver under a session.
UnloadAndShut(k) ==
    /\ loads[k] = 1 /\ \A c \in Clients : imports[k][c] = 0
    /\ driver
    /\ mem' = mem \ {ptr[k]}
    /\ ptr' = [ptr EXCEPT ![k] = NoPtr]
    /\ loads' = [loads EXCEPT ![k] = 0]
    /\ IF \A j \in Keys : ptr'[j] = NoPtr
       THEN Shutdown
       ELSE retained' = retained \cup {DeviceOf[k]} /\ UNCHANGED driver
    /\ UNCHANGED <<refs, imports, req, refused>>

\* Mutant: importers do not keep the memory.
UnloadImported(k) ==
    /\ loads[k] = 1 /\ driver
    /\ mem' = mem \ {ptr[k]}
    /\ ptr' = [ptr EXCEPT ![k] = NoPtr]
    /\ loads' = [loads EXCEPT ![k] = 0]
    /\ UNCHANGED <<refs, imports, driver, retained, req, refused>>

(* UnloadPersistent without other users: if the free fails nothing changes. *)
UnloadLast(k) ==
    /\ loads[k] = 1 /\ \A c \in Clients : imports[k][c] = 0
    /\ driver
    /\ mem' = mem \ {ptr[k]}
    /\ ptr' = [ptr EXCEPT ![k] = NoPtr]
    /\ loads' = [loads EXCEPT ![k] = 0]
    /\ IF NoSessions /\ \A j \in Keys : ptr'[j] = NoPtr
       THEN Shutdown
       ELSE retained' = retained \cup {DeviceOf[k]} /\ UNCHANGED driver
    /\ UNCHANGED <<refs, imports, req, refused>>

AttachPersistent(k, c) ==
    /\ Resident(k) /\ imports[k][c] < MaxRefs
    /\ imports' = [imports EXCEPT ![k][c] = @ + 1]
    /\ UNCHANGED <<refs, ptr, loads, cuda, req>>

\* Mutant: a client that has no reference gives one back.
DetachUncounted(k, c) ==
    /\ Resident(k)
    /\ imports' = [imports EXCEPT ![k][c] = @ - 1]
    /\ UNCHANGED <<refs, ptr, loads, cuda, req>>

DetachPersistent(k, c) ==
    /\ Resident(k) /\ imports[k][c] > 0
    /\ imports' = [imports EXCEPT ![k][c] = @ - 1]
    /\ UNCHANGED <<refs, ptr, loads, cuda, req>>

ExportPersistent(k) ==
    /\ Resident(k) /\ driver
    /\ retained' = retained \cup {DeviceOf[k]}
    /\ UNCHANGED <<refs, table, mem, driver, req, refused>>

Next ==
    \/ ListDevices
    \/ \E t \in Threads :
           \/ \E k \in Keys : Lookup(t, k)
           \/ \E d \in Devices : Benchmark(t, d)
           \/ Begin(t) \/ BeginFails(t) \/ Activate(t) \/ ActivateFails(t)
           \/ CopyDrops(t) \/ CopyEnds(t) \/ Publish(t) \/ FreeExtra(t) \/ End(t)
    \/ \E k \in Keys :
           \/ UnloadOne(k) \/ UnloadLast(k) \/ ExportPersistent(k)
           \/ \E c \in Clients : AttachPersistent(k, c) \/ DetachPersistent(k, c)

Spec == Init /\ [][Next]_vars

-----------------------------------------------------------------------------
(* The driver is open and the device's context retained as long as a shard *)
(* is resident on it or a session is in use: nobody's shutdown comes under *)
(* a copy of another, and no importer's memory goes with its context.      *)
DriverServesUsers ==
    /\ \A k \in Keys : Resident(k) => driver /\ DeviceOf[k] \in retained
    /\ \A t \in Threads, d \in Devices : InSession(t, d) => driver /\ d \in retained

(* Every piece of device memory has one owner: one shard of the table or   *)
(* one call in flight; the rest is what CUDA refused to take back. So two  *)
(* loads of one shard neither leak a copy nor free the one in use.         *)
Owned(t) == req[t].ptr # NoPtr

MemoryHasOneOwner ==
    /\ mem = {ptr[k] : k \in {j \in Keys : Resident(j)}}
               \cup {req[t].ptr : t \in {u \in Threads : Owned(u)}} \cup refused
    /\ \A j, k \in Keys : Resident(j) /\ ptr[j] = ptr[k] => j = k
    /\ \A t, u \in Threads : Owned(t) /\ req[t].ptr = req[u].ptr => t = u
    /\ \A t \in Threads, k \in Keys : Owned(t) => req[t].ptr # ptr[k]
    /\ \A p \in refused : (\A k \in Keys : ptr[k] # p) /\ \A t \in Threads : req[t].ptr # p

(* When the last session ended and the last shard went, no context is       *)
(* retained: the GPU is free for others.                                    *)
IdleReleasesContexts ==
    NoSessions /\ (\A k \in Keys : ~Resident(k)) => retained = {}

Table == INSTANCE RefTable

(* Whatever loads, unloads and imports meet, the loader is a table of       *)
(* reference-counted shards whose addresses stay while anyone uses them.    *)
ImplementsRefTable == Table!Spec
=============================================================================
