-------------------------- MODULE GpuLoaderProofs --------------------------
(***************************************************************************)
(* The safety of the GPU loader, for any number of calls, shards, devices, *)
(* clients and pieces of device memory.                                    *)
(***************************************************************************)
EXTENDS GpuLoader, FiniteSetTheorems, TLAPS

Calls == [pc : Places, key : Keys \cup {NoKey}, dev : Devices, ptr : Ptrs \cup {NoPtr}]

(* A call has memory from its activation to its publication or its free,    *)
(* only a load of a shard comes that far, and it works on the shard's device. *)
Holding ==
    /\ \A t \in Threads : Owned(t) <=> req[t].pc \in {"copy", "publish", "free"}
    /\ \A t \in Threads : req[t].pc = "publish" => req[t].key # NoKey
    /\ \A t \in Threads : req[t].key # NoKey => req[t].dev = DeviceOf[req[t].key]

Typed == TypeOK /\ Holding

-----------------------------------------------------------------------------
(* Types.                                                                   *)

LEMMA IdleIsCall == Idle \in Calls /\ Idle.pc = "idle" /\ Idle.ptr = NoPtr /\ Idle.key = NoKey
  <1>1. (CHOOSE d \in Devices : TRUE) \in Devices
    BY LoaderAssumption, Zenon
  <1> QED
    BY <1>1 DEF Idle, Calls, Places

LEMMA TypedInit == Init => Typed
  <1> SUFFICES ASSUME Init
               PROVE  Typed
    OBVIOUS
  <1> USE LoaderAssumption, IdleIsCall DEF Init
  <1>1. req \in [Threads -> Calls]
    OBVIOUS
  <1>2. Holding
    BY DEF Holding, Owned
  <1>3. imports \in [Keys -> [Clients -> 0..MaxRefs]] /\ loads \in [Keys -> 0..MaxRefs]
    OBVIOUS
  <1>4. TypeOK
    BY <1>1, <1>3 DEF TypeOK, Calls
  <1> QED
    BY <1>2, <1>4 DEF Typed

LEMMA TypedNext == Typed /\ [Next]_vars => Typed'
  <1> SUFFICES ASSUME Typed, [Next]_vars
               PROVE  Typed'
    OBVIOUS
  <1> USE LoaderAssumption, IdleIsCall DEF Typed, TypeOK, Holding, Owned, At
  <1>c. Calls = [pc : Places, key : Keys \cup {NoKey}, dev : Devices, ptr : Ptrs \cup {NoPtr}]
    BY DEF Calls
  <1>1. CASE ListDevices
    BY <1>1 DEF ListDevices, table
  <1>2. ASSUME NEW t \in Threads, NEW k \in Keys, Lookup(t, k)
        PROVE  Typed'
    <2>1. CASE Resident(k)
      <3>1. loads[k] < MaxRefs /\ loads' = [loads EXCEPT ![k] = loads[k] + 1]
        BY <1>2, <2>1 DEF Lookup
      <3>2. loads' \in [Keys -> 0..MaxRefs]
        BY <3>1
      <3>3. UNCHANGED <<refs, ptr, imports, cuda, req>>
        BY <1>2, <2>1 DEF Lookup
      <3> QED
        BY <3>2, <3>3 DEF cuda
    <2>2. CASE ~Resident(k)
      <3>1. req' = [req EXCEPT ![t] = [Idle EXCEPT !.pc = "begin", !.key = k, !.dev = DeviceOf[k]]]
        BY <1>2, <2>2 DEF Lookup
      <3> DEFINE r == [Idle EXCEPT !.pc = "begin", !.key = k, !.dev = DeviceOf[k]]
      <3>2. r \in Calls /\ r.pc = "begin" /\ r.ptr = NoPtr
        BY DEF Calls, Places
      <3> HIDE DEF r
      <3> QED
        BY <1>2, <2>2, <3>1, <3>2, <1>c DEF Lookup, cuda, r
    <2> QED
      BY <2>1, <2>2
  <1>3. ASSUME NEW t \in Threads, NEW d \in Devices, Benchmark(t, d)
        PROVE  Typed'
    BY <1>3 DEF Benchmark, cuda, table, Calls, Places
  <1>4. ASSUME NEW t \in Threads, Begin(t)
        PROVE  Typed'
    <2>1. req' = [req EXCEPT ![t].pc = "activate"] /\ UNCHANGED <<table, mem, refused>>
      BY <1>4 DEF Begin, Goto
    <2>2. refs' \in [Devices -> Nat]
      BY <1>4 DEF Begin
    <2>3. driver' \in BOOLEAN
      BY <1>4, Zenon DEF Begin
    <2>4. retained' \in SUBSET Devices
      BY <1>4 DEF Begin
    <2>5. req[t].pc = "begin"
      BY <1>4 DEF Begin
    <2>6. /\ \A u \in Threads \ {t} : req'[u] = req[u]
          /\ req'[t].pc = "activate" /\ req'[t].key = req[t].key
          /\ req'[t].dev = req[t].dev /\ req'[t].ptr = req[t].ptr
      BY <2>1
    <2>7. Holding'
      <3>1. \A u \in Threads : Owned(u)' <=> req'[u].pc \in {"copy", "publish", "free"}
        BY <2>5, <2>6
      <3>2. \A u \in Threads : req'[u].pc = "publish" => req'[u].key # NoKey
        BY <2>6
      <3>3. \A u \in Threads : req'[u].key # NoKey => req'[u].dev = DeviceOf[req'[u].key]
        BY <2>6
      <3> QED
        BY <3>1, <3>2, <3>3
    <2>8. TypeOK'
      BY <2>1, <2>2, <2>3, <2>4 DEF table, Places
    <2> QED
      BY <2>7, <2>8
  <1>5. ASSUME NEW t \in Threads, BeginFails(t)
        PROVE  Typed'
    BY <1>5 DEF BeginFails, table, Calls
  <1>6. ASSUME NEW t \in Threads, Activate(t)
        PROVE  Typed'
    BY <1>6 DEF Activate, table, Places
  <1>7. ASSUME NEW t \in Threads, ActivateFails(t)
        PROVE  Typed'
    BY <1>7 DEF ActivateFails, table, Goto, NextPlaces, Places
  <1>8. ASSUME NEW t \in Threads, CopyDrops(t)
        PROVE  Typed'
    BY <1>8 DEF CopyDrops, GiveBack, table, NextPlaces, Places
  <1>9. ASSUME NEW t \in Threads, CopyEnds(t)
        PROVE  Typed'
    <2>1. PICK pc \in {"publish", "free"} : req' = [req EXCEPT ![t].pc = pc]
      BY <1>9 DEF CopyEnds, Goto
    <2>2. req[t].pc = "copy" /\ req[t].key # NoKey /\ UNCHANGED <<refs, table, cuda>>
      BY <1>9 DEF CopyEnds
    <2>3. /\ \A u \in Threads \ {t} : req'[u] = req[u]
          /\ req'[t].pc = pc /\ req'[t].key = req[t].key
          /\ req'[t].dev = req[t].dev /\ req'[t].ptr = req[t].ptr
      BY <2>1
    <2>4. Holding'
      <3>1. \A u \in Threads : Owned(u)' <=> req'[u].pc \in {"copy", "publish", "free"}
        BY <2>2, <2>3
      <3>2. \A u \in Threads : req'[u].pc = "publish" => req'[u].key # NoKey
        BY <2>2, <2>3
      <3>3. \A u \in Threads : req'[u].key # NoKey => req'[u].dev = DeviceOf[req'[u].key]
        BY <2>2, <2>3
      <3> QED
        BY <3>1, <3>2, <3>3
    <2>5. TypeOK'
      BY <2>1, <2>2 DEF table, cuda, Places
    <2> QED
      BY <2>4, <2>5
  <1>10. ASSUME NEW t \in Threads, Publish(t)
        PROVE  Typed'
    <2> DEFINE k == req[t].key
    <2>0. At(t, "publish")
      BY <1>10 DEF Publish
    <2>1. k \in Keys /\ req[t] \in Calls
      BY <1>10, <1>c DEF Publish
    <2>2. CASE Resident(k)
      <3>1. loads[k] < MaxRefs /\ loads' = [loads EXCEPT ![k] = loads[k] + 1]
        BY <1>10, <2>2 DEF Publish
      <3>2. loads' \in [Keys -> 0..MaxRefs]
        BY <2>1, <3>1
      <3>3. req' = [req EXCEPT ![t].pc = "free"] /\ UNCHANGED <<refs, ptr, imports, cuda>>
        BY <1>10, <2>2 DEF Publish, Goto
      <3> QED
        BY <2>0, <3>2, <3>3 DEF cuda, Places
    <2>3. CASE ~Resident(k)
      <3>1. loads' = [loads EXCEPT ![k] = 1] /\ ptr' = [ptr EXCEPT ![k] = req[t].ptr]
        BY <1>10, <2>3 DEF Publish
      <3>2. loads' \in [Keys -> 0..MaxRefs] /\ ptr' \in [Keys -> Ptrs \cup {NoPtr}]
        BY <2>1, <3>1 DEF Calls
      <3> QED
        BY <1>10, <2>3, <3>2 DEF Publish, cuda, Places
    <2> QED
      BY <2>2, <2>3
  <1>11. ASSUME NEW t \in Threads, FreeExtra(t)
        PROVE  Typed'
    BY <1>11 DEF FreeExtra, GiveBack, table, NextPlaces, Places
  <1>12. ASSUME NEW t \in Threads, End(t)
        PROVE  Typed'
    <2>1. refs' \in [Devices -> Nat]
      BY <1>12 DEF End
    <2>2. driver' \in BOOLEAN
      BY <1>12, Zenon DEF End, Shutdown
    <2>3. retained' \in SUBSET Devices
      BY <1>12 DEF End, Shutdown
    <2> QED
      BY <1>12, <2>1, <2>2, <2>3 DEF End, table, Calls
  <1>13. ASSUME NEW k \in Keys, UnloadOne(k)
        PROVE  Typed'
    BY <1>13 DEF UnloadOne, cuda
  <1>14. ASSUME NEW k \in Keys, UnloadLast(k)
        PROVE  Typed'
    <2>1. driver' \in BOOLEAN
      BY <1>14, Zenon DEF UnloadLast, Shutdown
    <2>2. retained' = {} \/ retained' = retained \cup {DeviceOf[k]}
      BY <1>14, Zenon DEF UnloadLast, Shutdown
    <2> QED
      BY <1>14, <2>1, <2>2 DEF UnloadLast
  <1>15. ASSUME NEW k \in Keys, ExportPersistent(k)
        PROVE  Typed'
    BY <1>15 DEF ExportPersistent, table
  <1>16. ASSUME NEW k \in Keys, NEW c \in Clients, AttachPersistent(k, c)
        PROVE  Typed'
    BY <1>16 DEF AttachPersistent, cuda
  <1>17. ASSUME NEW k \in Keys, NEW c \in Clients, DetachPersistent(k, c)
        PROVE  Typed'
    BY <1>17 DEF DetachPersistent, cuda
  <1>18. CASE UNCHANGED vars
    BY <1>18 DEF vars, table
  <1> QED
    BY <1>1, <1>2, <1>3, <1>4, <1>5, <1>6, <1>7, <1>8, <1>9, <1>10, <1>11, <1>12, <1>13,
       <1>14, <1>15, <1>16, <1>17, <1>18 DEF Next
-----------------------------------------------------------------------------
(* Ownership of device memory.                                              *)

(* MemoryHasOneOwner, piece by piece.                                       *)
OneOwner ==
    /\ \A p \in Ptrs :
           p \in mem <=> \/ \E k \in Keys : ptr[k] = p
                         \/ \E t \in Threads : req[t].ptr = p
                         \/ p \in refused
    /\ \A j, k \in Keys : Resident(j) /\ ptr[j] = ptr[k] => j = k
    /\ \A t, u \in Threads : Owned(t) /\ req[t].ptr = req[u].ptr => t = u
    /\ \A t \in Threads, k \in Keys : Owned(t) => req[t].ptr # ptr[k]
    /\ \A p \in refused : (\A k \in Keys : ptr[k] # p) /\ \A t \in Threads : req[t].ptr # p

LEMMA OwnerForms ==
    ASSUME TypeOK
    PROVE  OneOwner <=> MemoryHasOneOwner
  <1> USE LoaderAssumption DEF TypeOK, OneOwner, MemoryHasOneOwner, Resident, Owned
  <1> DEFINE tabled == {ptr[k] : k \in {j \in Keys : Resident(j)}}
             inCalls == {req[t].ptr : t \in {u \in Threads : Owned(u)}}
  <1>1. \A p \in Ptrs : p \in tabled <=> \E k \in Keys : ptr[k] = p
    OBVIOUS
  <1>2. \A p \in Ptrs : p \in inCalls <=> \E t \in Threads : req[t].ptr = p
    OBVIOUS
  <1>3. tabled \cup inCalls \cup refused \subseteq Ptrs /\ mem \subseteq Ptrs
    OBVIOUS
  <1> HIDE DEF tabled, inCalls
  <1>4. mem = tabled \cup inCalls \cup refused
          <=> \A p \in Ptrs : p \in mem <=> \/ \E k \in Keys : ptr[k] = p
                                            \/ \E t \in Threads : req[t].ptr = p
                                            \/ p \in refused
    BY <1>1, <1>2, <1>3
  <1> QED
    BY <1>4 DEF tabled, inCalls

(* Most steps hand over no memory.                                          *)
LEMMA OwnersStay ==
    ASSUME OneOwner, UNCHANGED <<ptr, mem, refused>>,
           \A t \in Threads : req'[t].ptr = req[t].ptr
    PROVE  OneOwner'
  BY DEF OneOwner, Resident, Owned

LEMMA OwnersNext ==
    ASSUME Typed, OneOwner, [Next]_vars
    PROVE  OneOwner'
  <1> USE IdleIsCall DEF Typed, TypeOK, At
  <1>1. CASE ListDevices
    BY <1>1, OwnersStay DEF ListDevices, table
  <1>2. ASSUME NEW t \in Threads, NEW k \in Keys, Lookup(t, k)
        PROVE  OneOwner'
    <2>1. UNCHANGED <<ptr, mem, refused>> /\ At(t, "idle")
      BY <1>2 DEF Lookup, cuda
    <2>2. req[t].ptr = NoPtr
      BY <2>1 DEF Holding, Owned
    <2>3. \/ UNCHANGED req
          \/ req' = [req EXCEPT ![t] = [Idle EXCEPT !.pc = "begin", !.key = k, !.dev = DeviceOf[k]]]
      BY <1>2 DEF Lookup
    <2>4. [Idle EXCEPT !.pc = "begin", !.key = k, !.dev = DeviceOf[k]].ptr = NoPtr
      BY DEF Calls
    <2>5. \A u \in Threads : req'[u].ptr = req[u].ptr
      BY <2>2, <2>3, <2>4
    <2> QED
      BY <2>1, <2>5, OwnersStay
  <1>3. ASSUME NEW t \in Threads, NEW d \in Devices, Benchmark(t, d)
        PROVE  OneOwner'
    <2>1. UNCHANGED <<ptr, mem, refused>> /\ At(t, "idle")
      BY <1>3 DEF Benchmark, cuda, table
    <2>2. req[t].ptr = NoPtr
      BY <2>1 DEF Holding, Owned
    <2>3. \A u \in Threads : req'[u].ptr = req[u].ptr
      BY <1>3, <2>2 DEF Benchmark
    <2> QED
      BY <2>1, <2>3, OwnersStay
  <1>4. ASSUME NEW t \in Threads, Begin(t)
        PROVE  OneOwner'
    BY <1>4, OwnersStay DEF Begin, Goto, table
  <1>5. ASSUME NEW t \in Threads, BeginFails(t)
        PROVE  OneOwner'
    <2>1. UNCHANGED <<ptr, mem, refused>> /\ At(t, "begin") /\ req' = [req EXCEPT ![t] = Idle]
      BY <1>5 DEF BeginFails, table
    <2>2. req[t].ptr = NoPtr
      BY <2>1 DEF Holding, Owned
    <2> QED
      BY <2>1, <2>2, OwnersStay
  <1>6. ASSUME NEW t \in Threads, Activate(t)
        PROVE  OneOwner'
    <2>1. PICK p \in Ptrs \ mem : /\ mem' = mem \cup {p}
                                  /\ req' = [req EXCEPT ![t].pc = "copy", ![t].ptr = p]
      BY <1>6 DEF Activate
    <2>2. UNCHANGED <<ptr, refused>> /\ req[t].ptr = NoPtr
      BY <1>6 DEF Activate, table, Holding, Owned
    <2>3. /\ \A k \in Keys : ptr[k] # p
          /\ \A u \in Threads : req[u].ptr # p
          /\ p \notin refused
      BY <2>1 DEF OneOwner
    <2>4. \A u \in Threads : req'[u].ptr = IF u = t THEN p ELSE req[u].ptr
      BY <2>1
    <2> QED
      BY <2>1, <2>2, <2>3, <2>4, LoaderAssumption DEF OneOwner, Resident, Owned
  <1>7. ASSUME NEW t \in Threads, ActivateFails(t)
        PROVE  OneOwner'
    BY <1>7, OwnersStay DEF ActivateFails, Goto, table
  <1>8. ASSUME NEW t \in Threads, CopyDrops(t) \/ FreeExtra(t)
        PROVE  OneOwner'
    <2>1. /\ UNCHANGED ptr /\ req[t].ptr # NoPtr
          /\ \/ mem' = mem \ {req[t].ptr} /\ UNCHANGED refused
             \/ refused' = refused \cup {req[t].ptr} /\ UNCHANGED mem
          /\ \E pc \in NextPlaces(t) : req' = [req EXCEPT ![t].pc = pc, ![t].ptr = NoPtr]
      BY <1>8 DEF CopyDrops, FreeExtra, GiveBack, table, Holding, Owned
    <2>2. \A u \in Threads : req'[u].ptr = IF u = t THEN NoPtr ELSE req[u].ptr
      BY <2>1
    <2> QED
      BY <2>1, <2>2, LoaderAssumption DEF OneOwner, Resident, Owned
  <1>9. ASSUME NEW t \in Threads, CopyEnds(t)
        PROVE  OneOwner'
    BY <1>9, OwnersStay DEF CopyEnds, Goto, table, cuda
  <1>10. ASSUME NEW t \in Threads, Publish(t)
        PROVE  OneOwner'
    <2> DEFINE k == req[t].key
    <2>1. k \in Keys /\ UNCHANGED <<mem, refused>> /\ req[t].ptr # NoPtr
      BY <1>10 DEF Publish, cuda, Holding, Owned
    <2>2. CASE Resident(k)
      BY <1>10, <2>1, <2>2, OwnersStay DEF Publish, Goto
    <2>3. CASE ~Resident(k)
      <3>1. ptr' = [ptr EXCEPT ![k] = req[t].ptr]
        BY <1>10, <2>3 DEF Publish
      <3>2. \A u \in Threads : req'[u].ptr = IF u = t THEN NoPtr ELSE req[u].ptr
        BY <1>10, <2>3 DEF Publish
      <3>3. \A j \in Keys : ptr'[j] = IF j = k THEN req[t].ptr ELSE ptr[j]
        BY <2>1, <3>1
      <3> DEFINE q == req[t].ptr
      <3>4. /\ ptr[k] = NoPtr /\ q # NoPtr /\ k \in Keys
            /\ UNCHANGED <<mem, refused>>
            /\ \A j \in Keys : ptr'[j] = IF j = k THEN q ELSE ptr[j]
            /\ \A j \in Keys : ptr[j] # q
            /\ \A u \in Threads : u # t => req[u].ptr # q
            /\ q \notin refused
        BY <2>1, <2>3, <3>3 DEF OneOwner, Resident, Owned
      <3> HIDE DEF k, q
      <3>5. ASSUME NEW p \in Ptrs
            PROVE  p \in mem' <=> \/ \E j \in Keys : ptr'[j] = p
                                  \/ \E u \in Threads : req'[u].ptr = p
                                  \/ p \in refused'
        <4>1. CASE p = q
          BY <3>2, <3>4, <4>1 DEF OneOwner, q
        <4>2. CASE p # q
          <5>1. p # NoPtr
            BY LoaderAssumption
          <5>2. (\E j \in Keys : ptr'[j] = p) <=> \E j \in Keys : ptr[j] = p
            BY <3>4, <4>2, <5>1
          <5>3. (\E u \in Threads : req'[u].ptr = p) <=> \E u \in Threads : req[u].ptr = p
            BY <3>2, <4>2, <5>1 DEF q
          <5> QED
            BY <3>4, <5>2, <5>3 DEF OneOwner
        <4> QED
          BY <4>1, <4>2
      <3>6. /\ \A i, j \in Keys : ptr'[i] # NoPtr /\ ptr'[i] = ptr'[j] => i = j
            /\ \A u, v \in Threads : req'[u].ptr # NoPtr /\ req'[u].ptr = req'[v].ptr => u = v
            /\ \A u \in Threads, j \in Keys : req'[u].ptr # NoPtr => req'[u].ptr # ptr'[j]
        BY <3>2, <3>4 DEF OneOwner, Resident, Owned
      <3>7. \A p \in refused' : /\ \A j \in Keys : ptr'[j] # p
                                /\ \A u \in Threads : req'[u].ptr # p
        BY <3>2, <3>4, LoaderAssumption DEF OneOwner
      <3> QED
        BY <3>5, <3>6, <3>7 DEF OneOwner, Resident, Owned
    <2> QED
      BY <2>2, <2>3
  <1>11. ASSUME NEW t \in Threads, End(t)
        PROVE  OneOwner'
    <2>1. UNCHANGED <<ptr, mem, refused>> /\ At(t, "end") /\ req' = [req EXCEPT ![t] = Idle]
      BY <1>11 DEF End, table
    <2>2. req[t].ptr = NoPtr
      BY <2>1 DEF Holding, Owned
    <2> QED
      BY <2>1, <2>2, OwnersStay
  <1>12. ASSUME NEW k \in Keys, UnloadLast(k)
        PROVE  OneOwner'
    <2>1. /\ mem' = mem \ {ptr[k]} /\ ptr' = [ptr EXCEPT ![k] = NoPtr]
          /\ UNCHANGED <<req, refused>>
      BY <1>12 DEF UnloadLast
    <2>2. \A j \in Keys : ptr'[j] = IF j = k THEN NoPtr ELSE ptr[j]
      BY <2>1
    <2> QED
      BY <2>1, <2>2, LoaderAssumption DEF OneOwner, Resident, Owned
  <1>13. ASSUME NEW k \in Keys, \/ UnloadOne(k) \/ ExportPersistent(k)
                               \/ \E c \in Clients : AttachPersistent(k, c) \/ DetachPersistent(k, c)
        PROVE  OneOwner'
    BY <1>13, OwnersStay DEF UnloadOne, ExportPersistent, AttachPersistent, DetachPersistent,
                             table, cuda
  <1>14. CASE UNCHANGED vars
    BY <1>14, OwnersStay DEF vars, table
  <1> QED
    BY <1>1, <1>2, <1>3, <1>4, <1>5, <1>6, <1>7, <1>8, <1>9, <1>10, <1>11, <1>12, <1>13,
       <1>14 DEF Next
-----------------------------------------------------------------------------
(* Sessions, the driver and the contexts.                                   *)

Inside(calls, d) ==
    {t \in Threads : /\ calls[t].dev = d
                     /\ calls[t].pc \in {"activate", "copy", "publish", "free", "end"}}

SessionsCounted == \A d \in Devices : refs[d] = Cardinality(Inside(req, d))

LEMMA CountsWho ==
    ASSUME SessionsCounted, NEW d \in Devices
    PROVE  /\ IsFiniteSet(Inside(req, d))
           /\ refs[d] = 0 <=> \A t \in Threads : ~InSession(t, d)
  <1>1. IsFiniteSet(Inside(req, d))
    BY LoaderAssumption, FS_Subset DEF Inside
  <1>2. Cardinality(Inside(req, d)) = 0 <=> Inside(req, d) = {}
    BY <1>1, FS_EmptySet
  <1> QED
    BY <1>1, <1>2 DEF SessionsCounted, Inside, InSession

(* Most steps neither begin nor end a session.                              *)
LEMMA SessionsStay ==
    ASSUME SessionsCounted, UNCHANGED refs,
           \A t \in Threads, d \in Devices : InSession(t, d)' <=> InSession(t, d)
    PROVE  SessionsCounted'
  <1>1. \A d \in Devices : Inside(req', d) = Inside(req, d)
    BY DEF Inside, InSession
  <1> QED
    BY <1>1 DEF SessionsCounted

Copying(t) ==
    \/ Activate(t) \/ ActivateFails(t) \/ CopyDrops(t) \/ CopyEnds(t) \/ Publish(t) \/ FreeExtra(t)

(* From its begin to its end a call stays in its session.                   *)
LEMMA CopyingStays ==
    ASSUME Typed, NEW t \in Threads, Copying(t)
    PROVE  /\ UNCHANGED refs /\ InSession(t, req[t].dev)
           /\ \A u \in Threads, d \in Devices : InSession(u, d)' <=> InSession(u, d)
  <1> USE DEF Typed, TypeOK, At
  <1> DEFINE inside == {"activate", "copy", "publish", "free", "end"}
  <1>1. UNCHANGED refs
    BY DEF Copying, Activate, ActivateFails, CopyDrops, CopyEnds, Publish, FreeExtra
  <1>2. /\ req[t].pc \in inside /\ req'[t].pc \in inside /\ req'[t].dev = req[t].dev
        /\ \A u \in Threads \ {t} : req'[u] = req[u]
    <2>1. CASE Activate(t)
      BY <2>1 DEF Activate
    <2>2. CASE ActivateFails(t)
      BY <2>2 DEF ActivateFails, Goto, NextPlaces
    <2>3. CASE CopyDrops(t) \/ FreeExtra(t)
      <3>1. PICK pc \in NextPlaces(t) : req' = [req EXCEPT ![t].pc = pc, ![t].ptr = NoPtr]
        BY <2>3 DEF CopyDrops, FreeExtra, GiveBack
      <3>2. req[t].pc \in {"copy", "free"}
        BY <2>3 DEF CopyDrops, FreeExtra
      <3> QED
        BY <3>1, <3>2 DEF NextPlaces
    <2>4. CASE CopyEnds(t)
      BY <2>4 DEF CopyEnds, Goto
    <2>5. CASE Publish(t)
      BY <2>5 DEF Publish, Goto
    <2> QED
      BY <2>1, <2>2, <2>3, <2>4, <2>5 DEF Copying
  <1> QED
    BY <1>1, <1>2 DEF InSession

(* releaseFn counts down, and not below 0.                                  *)
LEMMA CountDown ==
    ASSUME NEW n \in Nat, n # 0
    PROVE  (IF n > 1 THEN n - 1 ELSE 0) = n - 1
  OBVIOUS

LEMMA SessionsNext ==
    ASSUME Typed, SessionsCounted, [Next]_vars
    PROVE  SessionsCounted'
  <1> USE IdleIsCall DEF Typed, TypeOK, At
  <1>1. CASE ListDevices \/ UNCHANGED vars
    BY <1>1, SessionsStay DEF ListDevices, vars, table, InSession
  <1>2. ASSUME NEW t \in Threads, NEW k \in Keys, Lookup(t, k)
        PROVE  SessionsCounted'
    <2>1. \/ UNCHANGED req
          \/ req' = [req EXCEPT ![t] = [Idle EXCEPT !.pc = "begin", !.key = k, !.dev = DeviceOf[k]]]
      BY <1>2 DEF Lookup
    <2>2. [Idle EXCEPT !.pc = "begin", !.key = k, !.dev = DeviceOf[k]].pc = "begin"
      BY DEF Calls
    <2>3. UNCHANGED refs /\ req[t].pc = "idle"
      BY <1>2 DEF Lookup
    <2>4. \A u \in Threads, d \in Devices : InSession(u, d)' <=> InSession(u, d)
      BY <2>1, <2>2, <2>3 DEF InSession
    <2> QED
      BY <2>3, <2>4, SessionsStay
  <1>3. ASSUME NEW t \in Threads, \/ \E d \in Devices : Benchmark(t, d)
                                  \/ BeginFails(t)
        PROVE  SessionsCounted'
    <2>1. UNCHANGED refs /\ req[t].pc \in {"idle", "begin"} /\ req'[t].pc \in {"idle", "begin"}
          /\ \A u \in Threads \ {t} : req'[u] = req[u]
      <3>1. \A d \in Devices : [Idle EXCEPT !.pc = "begin", !.dev = d].pc = "begin"
        BY DEF Calls
      <3>2. UNCHANGED refs /\ req[t].pc \in {"idle", "begin"}
        BY <1>3 DEF Benchmark, BeginFails
      <3>3. \/ req' = [req EXCEPT ![t] = Idle]
            \/ \E d \in Devices : req' = [req EXCEPT ![t] = [Idle EXCEPT !.pc = "begin", !.dev = d]]
        BY <1>3 DEF Benchmark, BeginFails
      <3> QED
        BY <3>1, <3>2, <3>3
    <2>2. \A u \in Threads, d \in Devices : InSession(u, d)' <=> InSession(u, d)
      BY <2>1 DEF InSession
    <2> QED
      BY <2>1, <2>2, SessionsStay
  <1>4. ASSUME NEW t \in Threads, Begin(t)
        PROVE  SessionsCounted'
    <2> DEFINE e == req[t].dev
    <2>1. e \in Devices /\ ~InSession(t, e)
      BY <1>4 DEF Begin, InSession
    <2>2. Inside(req', e) = Inside(req, e) \cup {t}
      BY <1>4 DEF Begin, Goto, Inside, InSession
    <2>3. \A d \in Devices \ {e} : Inside(req', d) = Inside(req, d)
      BY <1>4 DEF Begin, Goto, Inside, InSession
    <2>4. t \notin Inside(req, e) /\ IsFiniteSet(Inside(req, e))
      BY <2>1, CountsWho DEF Inside, InSession
    <2>5. refs' = [refs EXCEPT ![e] = refs[e] + 1]
      BY <1>4 DEF Begin
    <2> HIDE DEF e
    <2>7. Cardinality(Inside(req', e)) = Cardinality(Inside(req, e)) + 1
      <3>1. Cardinality(Inside(req, e) \cup {t}) = Cardinality(Inside(req, e)) + 1
        BY <2>4, FS_AddElement
      <3> QED
        BY <2>2, <3>1
    <2>6. ASSUME NEW d \in Devices
          PROVE  refs'[d] = Cardinality(Inside(req', d))
      <3>1. CASE d = e
        BY <2>1, <2>5, <2>7, <3>1 DEF SessionsCounted
      <3>2. CASE d # e
        BY <2>1, <2>3, <2>5, <3>2 DEF SessionsCounted
      <3> QED
        BY <3>1, <3>2
    <2> QED
      BY <2>6 DEF SessionsCounted
  <1>5. ASSUME NEW t \in Threads, Copying(t)
        PROVE  SessionsCounted'
    BY <1>5, CopyingStays, SessionsStay
  <1>6. ASSUME NEW t \in Threads, End(t)
        PROVE  SessionsCounted'
    <2> DEFINE e == req[t].dev
    <2>1. e \in Devices /\ InSession(t, e)
      BY <1>6 DEF End, InSession
    <2>2. /\ refs' = [refs EXCEPT ![e] = IF refs[e] > 1 THEN refs[e] - 1 ELSE 0]
          /\ req' = [req EXCEPT ![t] = Idle]
      BY <1>6 DEF End
    <2>3. Inside(req', e) = Inside(req, e) \ {t} /\ \A d \in Devices \ {e} : Inside(req', d) = Inside(req, d)
      BY <2>2 DEF Inside, InSession
    <2>4. t \in Inside(req, e) /\ IsFiniteSet(Inside(req, e))
      BY <2>1, CountsWho DEF Inside, InSession
    <2>6. refs[e] \in Nat /\ refs[e] # 0
      BY <2>1, CountsWho
    <2> HIDE DEF e
    <2>5. Cardinality(Inside(req', e)) = Cardinality(Inside(req, e)) - 1
      <3> DEFINE S == Inside(req, e)
      <3>1. IsFiniteSet(S) /\ t \in S /\ Inside(req', e) = S \ {t}
        BY <2>3, <2>4
      <3> HIDE DEF S
      <3>2. Cardinality(S \ {t}) = Cardinality(S) - 1
        BY <3>1, FS_RemoveElement
      <3> QED
        BY <3>1, <3>2 DEF S
    <2>8. refs[e] = Cardinality(Inside(req, e))
      BY <2>1 DEF SessionsCounted
    <2>7. ASSUME NEW d \in Devices
          PROVE  refs'[d] = Cardinality(Inside(req', d))
      <3>1. CASE d = e
        <4>1. refs'[e] = IF refs[e] > 1 THEN refs[e] - 1 ELSE 0
          BY <2>1, <2>2
        <4>2. refs'[e] = refs[e] - 1
          BY <2>6, <4>1, CountDown
        <4> QED
          BY <2>5, <2>8, <3>1, <4>2
      <3>2. CASE d # e
        BY <2>1, <2>2, <2>3, <3>2 DEF SessionsCounted
      <3> QED
        BY <3>1, <3>2
    <2> QED
      BY <2>7 DEF SessionsCounted
  <1>7. ASSUME NEW k \in Keys, \/ UnloadOne(k) \/ UnloadLast(k) \/ ExportPersistent(k)
                               \/ \E c \in Clients : AttachPersistent(k, c) \/ DetachPersistent(k, c)
        PROVE  SessionsCounted'
    <2>1. UNCHANGED <<refs, req>>
      BY <1>7 DEF UnloadOne, UnloadLast, ExportPersistent, AttachPersistent, DetachPersistent
    <2> QED
      BY <2>1, SessionsStay DEF InSession
  <1> QED
    BY <1>1, <1>2, <1>3, <1>4, <1>5, <1>6, <1>7 DEF Next, Copying
-----------------------------------------------------------------------------
(* The driver and the contexts follow the sessions and the shards.          *)

Empty == \A k \in Keys : ~Resident(k)

Counted == Typed /\ SessionsCounted

(* What a step keeps in use that takes neither the driver nor a context away *)
(* and brings no new user.                                                  *)
LEMMA ServingStays ==
    ASSUME DriverServesUsers, driver => driver', retained \subseteq retained',
           \A k \in Keys : Resident(k)' => Resident(k),
           \A t \in Threads, d \in Devices : InSession(t, d)' => InSession(t, d)
    PROVE  DriverServesUsers'
  <1>1. \A k \in Keys : Resident(k)' => driver' /\ DeviceOf[k] \in retained'
    BY Zenon DEF DriverServesUsers
  <1>2. \A t \in Threads, d \in Devices : InSession(t, d)' => driver' /\ d \in retained'
    BY Zenon DEF DriverServesUsers
  <1> QED
    BY <1>1, <1>2, Zenon DEF DriverServesUsers

(* A shutdown finds nobody to serve.                                        *)
LEMMA NobodyServed ==
    ASSUME SessionsCounted', NoSessions', Empty'
    PROVE  DriverServesUsers'
  <1>1. ASSUME NEW t \in Threads, NEW d \in Devices
        PROVE  ~InSession(t, d)'
    <2>1. Cardinality(Inside(req', d)) = 0
      BY DEF SessionsCounted, NoSessions
    <2>2. IsFiniteSet(Inside(req', d))
      BY LoaderAssumption, FS_Subset DEF Inside
    <2>3. Inside(req', d) = {}
      BY <2>1, <2>2, FS_EmptySet
    <2> QED
      BY <2>3 DEF Inside, InSession
  <1> QED
    BY <1>1, Zenon DEF DriverServesUsers, Empty

(* Looking up a shard and starting a benchmark begin no session.            *)
LEMMA AskingStays ==
    ASSUME Typed, NEW t \in Threads,
           \/ \E k \in Keys : Lookup(t, k)
           \/ \E d \in Devices : Benchmark(t, d)
           \/ BeginFails(t) \/ End(t)
    PROVE  \A u \in Threads, d \in Devices : InSession(u, d)' => InSession(u, d)
  <1> USE IdleIsCall DEF Typed, TypeOK, At
  <1>1. /\ \A k \in Keys :
               [Idle EXCEPT !.pc = "begin", !.key = k, !.dev = DeviceOf[k]].pc = "begin"
        /\ \A d \in Devices : [Idle EXCEPT !.pc = "begin", !.dev = d].pc = "begin"
    BY DEF Calls
  <1>2. /\ \A u \in Threads \ {t} : req'[u] = req[u]
        /\ req'[t] = req[t] \/ req'[t].pc \in {"idle", "begin"}
    <2>1. \/ UNCHANGED req
          \/ \E k \in Keys :
                 req' = [req EXCEPT ![t] = [Idle EXCEPT !.pc = "begin", !.key = k, !.dev = DeviceOf[k]]]
          \/ \E d \in Devices : req' = [req EXCEPT ![t] = [Idle EXCEPT !.pc = "begin", !.dev = d]]
          \/ req' = [req EXCEPT ![t] = Idle]
      BY Zenon DEF Lookup, Benchmark, BeginFails, End
    <2> QED
      BY <1>1, <2>1
  <1> QED
    BY <1>2 DEF InSession

LEMMA ServesNext ==
    ASSUME Counted, DriverServesUsers, [Next]_vars
    PROVE  DriverServesUsers'
  <1> USE DEF Counted
  <1>s. SessionsCounted'
    BY SessionsNext
  <1>1. CASE ListDevices
    <2>1. driver' /\ UNCHANGED <<ptr, retained, req>>
      BY <1>1 DEF ListDevices, table
    <2> QED
      BY <2>1, ServingStays DEF Resident, InSession
  <1>2. ASSUME NEW t \in Threads,
               (\E k \in Keys : Lookup(t, k)) \/ (\E d \in Devices : Benchmark(t, d))
        PROVE  DriverServesUsers'
    <2>1. UNCHANGED <<ptr, driver, retained>>
      BY <1>2 DEF Lookup, Benchmark, cuda, table
    <2> QED
      BY <1>2, <2>1, AskingStays, ServingStays DEF Resident
  <1>3. ASSUME NEW t \in Threads, Begin(t)
        PROVE  DriverServesUsers'
    <2> DEFINE e == req[t].dev
    <2>1. e \in Devices /\ UNCHANGED ptr
      BY <1>3 DEF Typed, TypeOK, Begin, table
    <2>2. driver' /\ e \in retained' /\ retained \subseteq retained'
      <3>1. CASE refs[e] > 0
        <4>1. \E u \in Threads : InSession(u, e)
          BY <2>1, <3>1, CountsWho DEF Typed, TypeOK
        <4>2. driver /\ e \in retained
          BY <2>1, <4>1, Zenon DEF DriverServesUsers
        <4>3. UNCHANGED <<driver, retained>>
          BY <1>3, <3>1 DEF Begin
        <4> QED
          BY <4>2, <4>3, Zenon
      <3>2. CASE ~(refs[e] > 0)
        <4>1. driver' = TRUE /\ retained' = retained \cup {e}
          BY <1>3, <3>2 DEF Begin
        <4> QED
          BY <4>1, Zenon
      <3> QED
        BY <3>1, <3>2
    <2>3. \A u \in Threads, d \in Devices : InSession(u, d)' => InSession(u, d) \/ d = e
      BY <1>3 DEF Begin, Goto, InSession, Typed, TypeOK
    <2>4. \A k \in Keys : Resident(k)' => driver' /\ DeviceOf[k] \in retained'
      BY <2>1, <2>2, Zenon DEF DriverServesUsers, Resident
    <2>5. \A u \in Threads, d \in Devices : InSession(u, d)' => driver' /\ d \in retained'
      BY <2>2, <2>3, Zenon DEF DriverServesUsers
    <2> QED
      BY <2>4, <2>5, Zenon DEF DriverServesUsers
  <1>4. ASSUME NEW t \in Threads, BeginFails(t)
        PROVE  DriverServesUsers'
    <2>1. UNCHANGED <<refs, ptr>>
      BY <1>4 DEF BeginFails, table
    <2>2. CASE NoSessions /\ Empty
      <3>1. NoSessions' /\ Empty'
        BY <2>1, <2>2, Zenon DEF NoSessions, Empty, Resident
      <3> QED
        BY <1>s, <3>1, NobodyServed
    <2>3. CASE ~(NoSessions /\ Empty)
      <3>1. (driver => driver') /\ retained \subseteq retained'
        <4>1. \/ UNCHANGED <<driver, retained>>
              \/ driver' = TRUE /\ retained' = retained
          BY <1>4, <2>3, Zenon DEF BeginFails, Empty
        <4>2. CASE UNCHANGED <<driver, retained>>
          <5>1. driver' = driver /\ retained' = retained
            BY <4>2
          <5> QED
            BY <5>1, Zenon
        <4>3. CASE driver' = TRUE /\ retained' = retained
          BY <4>3, Zenon
        <4> QED
          BY <4>1, <4>2, <4>3
      <3> QED
        BY <1>4, <2>1, <3>1, AskingStays, ServingStays DEF Resident
    <2> QED
      BY <2>2, <2>3
  <1>5. ASSUME NEW t \in Threads, Copying(t)
        PROVE  DriverServesUsers'
    <2> DEFINE e == req[t].dev
    <2>1. e \in Devices
      BY DEF Typed, TypeOK
    <2>2. driver /\ e \in retained
      BY <1>5, <2>1, CopyingStays, Zenon DEF DriverServesUsers
    <2>3. UNCHANGED driver /\ retained \subseteq retained'
      BY <1>5, Zenon DEF Copying, Activate, ActivateFails, CopyDrops, CopyEnds, Publish, FreeExtra, cuda
    <2>4. \A k \in Keys : Resident(k)' => Resident(k) \/ DeviceOf[k] = e
      <3>1. CASE Publish(t)
        BY <3>1 DEF Publish, Resident, Typed, TypeOK, Holding
      <3>2. CASE ~Publish(t)
        <4>1. UNCHANGED ptr
          BY <1>5, <3>2 DEF Copying, Activate, ActivateFails, CopyDrops, CopyEnds, FreeExtra, table
        <4> QED
          BY <4>1 DEF Resident
      <3> QED
        BY <3>1, <3>2
    <2>5. \A k \in Keys : Resident(k)' => driver' /\ DeviceOf[k] \in retained'
      BY <2>2, <2>3, <2>4, Zenon DEF DriverServesUsers
    <2>6. \A u \in Threads, d \in Devices : InSession(u, d)' => driver' /\ d \in retained'
      BY <1>5, <2>3, CopyingStays, Zenon DEF DriverServesUsers
    <2> QED
      BY <2>5, <2>6, Zenon DEF DriverServesUsers
  <1>6. ASSUME NEW t \in Threads, End(t)
        PROVE  DriverServesUsers'
    <2>1. UNCHANGED ptr
      BY <1>6 DEF End, table
    <2>2. CASE NoSessions' /\ Empty
      BY <1>s, <2>1, <2>2, NobodyServed DEF Empty, Resident
    <2>3. CASE ~(NoSessions' /\ Empty)
      <3>1. UNCHANGED <<driver, retained>>
        BY <1>6, <2>3, Zenon DEF End, Empty
      <3> QED
        BY <1>6, <2>1, <3>1, AskingStays, ServingStays DEF Resident
    <2> QED
      BY <2>2, <2>3
  <1>7. ASSUME NEW k \in Keys, UnloadLast(k)
        PROVE  DriverServesUsers'
    <2>1. UNCHANGED <<refs, req>> /\ ptr' = [ptr EXCEPT ![k] = NoPtr]
      BY <1>7 DEF UnloadLast
    <2>2. \A j \in Keys : Resident(j)' => Resident(j)
      BY <2>1 DEF Resident, Typed, TypeOK
    <2>3. CASE NoSessions /\ Empty'
      BY <1>s, <2>1, <2>3, NobodyServed DEF NoSessions
    <2>4. CASE ~(NoSessions /\ Empty')
      <3>1. UNCHANGED driver /\ retained \subseteq retained'
        <4>1. ~(NoSessions /\ \A j \in Keys : ptr'[j] = NoPtr)
          BY <2>4, Zenon DEF Empty, Resident
        <4> QED
          BY <1>7, <4>1, Zenon DEF UnloadLast
      <3> QED
        BY <2>1, <2>2, <3>1, ServingStays DEF InSession
    <2> QED
      BY <2>3, <2>4
  <1>8. ASSUME NEW k \in Keys, \/ UnloadOne(k) \/ ExportPersistent(k)
                               \/ \E c \in Clients : AttachPersistent(k, c) \/ DetachPersistent(k, c)
        PROVE  DriverServesUsers'
    <2>1. UNCHANGED <<ptr, driver, req>> /\ retained \subseteq retained'
      BY <1>8, Zenon DEF UnloadOne, ExportPersistent, AttachPersistent, DetachPersistent, table, cuda
    <2> QED
      BY <2>1, ServingStays DEF Resident, InSession
  <1>9. CASE UNCHANGED vars
    <2>1. UNCHANGED <<ptr, driver, retained, req>>
      BY <1>9 DEF vars, table
    <2> QED
      BY <2>1, ServingStays DEF Resident, InSession
  <1> QED
    BY <1>1, <1>2, <1>3, <1>4, <1>5, <1>6, <1>7, <1>8, <1>9 DEF Next, Copying

LEMMA IdleNext ==
    ASSUME Counted, IdleReleasesContexts, [Next]_vars
    PROVE  IdleReleasesContexts'
  <1> USE DEF Counted, IdleReleasesContexts
  <1>1. ASSUME UNCHANGED <<refs, ptr, retained>>
        PROVE  IdleReleasesContexts'
    BY <1>1 DEF NoSessions, Resident
  <1>2. CASE ListDevices \/ UNCHANGED vars
    BY <1>1, <1>2 DEF ListDevices, vars, table
  <1>3. ASSUME NEW t \in Threads,
               (\E k \in Keys : Lookup(t, k)) \/ (\E d \in Devices : Benchmark(t, d))
        PROVE  IdleReleasesContexts'
    BY <1>1, <1>3 DEF Lookup, Benchmark, cuda, table
  <1>4. ASSUME NEW t \in Threads, Begin(t)
        PROVE  IdleReleasesContexts'
    <2>1. req[t].dev \in Devices /\ refs' = [refs EXCEPT ![req[t].dev] = refs[req[t].dev] + 1]
      BY <1>4 DEF Begin, Typed, TypeOK
    <2>2. refs'[req[t].dev] # 0
      BY <2>1 DEF Typed, TypeOK
    <2> QED
      BY <2>1, <2>2, Zenon DEF NoSessions
  <1>5. ASSUME NEW t \in Threads, BeginFails(t)
        PROVE  IdleReleasesContexts'
    <2>1. UNCHANGED <<refs, ptr>>
      BY <1>5 DEF BeginFails, table
    <2>2. \/ UNCHANGED retained
          \/ retained' = {}
      BY <1>5, Zenon DEF BeginFails
    <2> QED
      BY <2>1, <2>2 DEF NoSessions, Resident
  <1>6. ASSUME NEW t \in Threads, Copying(t)
        PROVE  IdleReleasesContexts'
    <2>1. req[t].dev \in Devices /\ UNCHANGED refs /\ InSession(t, req[t].dev)
      BY <1>6, CopyingStays DEF Typed, TypeOK
    <2>2. refs'[req[t].dev] # 0
      BY <2>1, CountsWho
    <2> QED
      BY <2>1, <2>2, Zenon DEF NoSessions
  <1>7. ASSUME NEW t \in Threads, End(t)
        PROVE  IdleReleasesContexts'
    <2>1. UNCHANGED ptr
      BY <1>7 DEF End, table
    <2>2. CASE NoSessions' /\ \A k \in Keys : ~Resident(k)
      BY <1>7, <2>2, Zenon DEF End, Shutdown
    <2>3. CASE ~(NoSessions' /\ \A k \in Keys : ~Resident(k))
      BY <2>1, <2>3, Zenon DEF Resident
    <2> QED
      BY <2>2, <2>3
  <1>8. ASSUME NEW k \in Keys, UnloadLast(k)
        PROVE  IdleReleasesContexts'
    <2>1. UNCHANGED refs
      BY <1>8 DEF UnloadLast
    <2>2. CASE NoSessions /\ \A j \in Keys : ptr'[j] = NoPtr
      BY <1>8, <2>2, Zenon DEF UnloadLast, Shutdown
    <2>3. CASE ~(NoSessions /\ \A j \in Keys : ptr'[j] = NoPtr)
      BY <2>1, <2>3, Zenon DEF NoSessions, Resident
    <2> QED
      BY <2>2, <2>3
  <1>9. ASSUME NEW k \in Keys, ExportPersistent(k)
        PROVE  IdleReleasesContexts'
    <2>1. Resident(k) /\ UNCHANGED ptr
      BY <1>9 DEF ExportPersistent, table
    <2> QED
      BY <2>1, Zenon DEF Resident
  <1>10. ASSUME NEW k \in Keys, \/ UnloadOne(k)
                               \/ \E c \in Clients : AttachPersistent(k, c) \/ DetachPersistent(k, c)
        PROVE  IdleReleasesContexts'
    BY <1>1, <1>10 DEF UnloadOne, AttachPersistent, DetachPersistent, cuda
  <1> QED
    BY <1>2, <1>3, <1>4, <1>5, <1>6, <1>7, <1>8, <1>9, <1>10 DEF Next, Copying

-----------------------------------------------------------------------------
(* The inductive invariant.                                                 *)
LoaderInv ==
    /\ Typed
    /\ OneOwner
    /\ SessionsCounted
    /\ DriverServesUsers
    /\ IdleReleasesContexts

LEMMA LoaderInvInit == Init => LoaderInv
  <1> SUFFICES ASSUME Init
               PROVE  LoaderInv
    OBVIOUS
  <1> USE IdleIsCall, LoaderAssumption
  <1>1. Typed
    BY TypedInit
  <1>2. OneOwner
    BY DEF OneOwner, Init, Resident, Owned
  <1>3. \A d \in Devices : Inside(req, d) = {}
    BY DEF Inside, Init
  <1>4. SessionsCounted
    BY <1>3, FS_EmptySet DEF SessionsCounted, Init
  <1>5. DriverServesUsers
    <2>1. \A k \in Keys : ~Resident(k)
      BY DEF Init, Resident
    <2>2. \A t \in Threads, d \in Devices : ~InSession(t, d)
      BY DEF Init, InSession
    <2> QED
      BY <2>1, <2>2, Zenon DEF DriverServesUsers
  <1>6. IdleReleasesContexts
    BY DEF Init, IdleReleasesContexts
  <1> QED
    BY <1>1, <1>2, <1>4, <1>5, <1>6 DEF LoaderInv

LEMMA LoaderInvNext == LoaderInv /\ [Next]_vars => LoaderInv'
  BY TypedNext, OwnersNext, SessionsNext, ServesNext, IdleNext DEF LoaderInv, Counted

(* Types of the loader's tables: the counters stay within their bounds.     *)
THEOREM LoaderTypes == Spec => []TypeOK
  <1>1. LoaderInv => TypeOK
    BY DEF LoaderInv, Typed
  <1> QED
    BY <1>1, LoaderInvInit, LoaderInvNext, PTL DEF Spec

(* LoadPersistent and UnloadPersistent, however their copies overlap: no    *)
(* device memory is lost or shared.                                         *)
THEOREM MemoryOwned == Spec => []MemoryHasOneOwner
  <1>1. LoaderInv => MemoryHasOneOwner
    BY OwnerForms DEF LoaderInv, Typed
  <1> QED
    BY <1>1, LoaderInvInit, LoaderInvNext, PTL DEF Spec

(* BeginSession, its release and UnloadPersistent: the shutdown of one call *)
(* never comes under another's session or under a resident shard.           *)
THEOREM DriverServes == Spec => []DriverServesUsers
  <1>1. LoaderInv => DriverServesUsers
    BY DEF LoaderInv
  <1> QED
    BY <1>1, LoaderInvInit, LoaderInvNext, PTL DEF Spec

(* The last session and the last shard take the contexts with them.         *)
THEOREM ContextsReleased == Spec => []IdleReleasesContexts
  <1>1. LoaderInv => IdleReleasesContexts
    BY DEF LoaderInv
  <1> QED
    BY <1>1, LoaderInvInit, LoaderInvNext, PTL DEF Spec

-----------------------------------------------------------------------------
(* Refinement.                                                              *)

LEMMA TableInit == Init => Table!Init
  BY DEF Init, Table!Init

LEMMA TableNext == LoaderInv /\ [Next]_vars => [Table!Next]_(Table!vars)
  <1> SUFFICES ASSUME LoaderInv, [Next]_vars
               PROVE  [Table!Next]_(Table!vars)
    OBVIOUS
  <1> USE DEF LoaderInv, Typed, TypeOK
  <1>1. ASSUME UNCHANGED table
        PROVE  [Table!Next]_(Table!vars)
    BY <1>1 DEF table, Table!vars
  <1>2. ASSUME NEW t \in Threads, NEW k \in Keys, Lookup(t, k)
        PROVE  [Table!Next]_(Table!vars)
    <2>1. CASE Resident(k)
      <3>1. Table!Load(k)
        BY <1>2, <2>1 DEF Lookup, Resident, Table!Load
      <3> QED
        BY <3>1 DEF Table!Next
    <2>2. CASE ~Resident(k)
      BY <1>1, <1>2, <2>2 DEF Lookup, table
    <2> QED
      BY <2>1, <2>2
  <1>3. ASSUME NEW t \in Threads, Publish(t)
        PROVE  [Table!Next]_(Table!vars)
    <2> DEFINE k == req[t].key
    <2>1. k \in Keys
      BY <1>3 DEF Publish, At, Holding
    <2>2. CASE Resident(k)
      <3>1. Table!Load(k)
        BY <1>3, <2>2 DEF Publish, Resident, Table!Load
      <3> QED
        BY <2>1, <3>1 DEF Table!Next
    <2>3. CASE ~Resident(k)
      <3>1. req[t].ptr \in Ptrs \ {ptr[j] : j \in Keys}
        BY <1>3 DEF Publish, At, Holding, Owned, OneOwner
      <3>2. Table!FirstLoad(k)
        BY <1>3, <2>3, <3>1 DEF Publish, Resident, Table!FirstLoad
      <3> QED
        BY <2>1, <3>2 DEF Table!Next
    <2> QED
      BY <2>2, <2>3
  <1>4. ASSUME NEW t \in Threads, Copying(t), ~Publish(t)
        PROVE  [Table!Next]_(Table!vars)
    BY <1>1, <1>4 DEF Copying, Activate, ActivateFails, CopyDrops, CopyEnds, FreeExtra
  <1>5. ASSUME NEW t \in Threads, Begin(t) \/ BeginFails(t) \/ End(t) \/ \E d \in Devices : Benchmark(t, d)
        PROVE  [Table!Next]_(Table!vars)
    BY <1>1, <1>5 DEF Begin, BeginFails, End, Benchmark
  <1>6. ASSUME NEW k \in Keys, UnloadOne(k)
        PROVE  [Table!Next]_(Table!vars)
    <2>1. Table!Unload(k)
      BY <1>6 DEF UnloadOne, Table!Unload
    <2> QED
      BY <2>1 DEF Table!Next
  <1>7. ASSUME NEW k \in Keys, UnloadLast(k)
        PROVE  [Table!Next]_(Table!vars)
    <2>1. Table!LastUnload(k)
      BY <1>7 DEF UnloadLast, Table!LastUnload
    <2> QED
      BY <2>1 DEF Table!Next
  <1>8. ASSUME NEW k \in Keys, NEW c \in Clients, AttachPersistent(k, c)
        PROVE  [Table!Next]_(Table!vars)
    <2>1. Table!Attach(k, c)
      BY <1>8 DEF AttachPersistent, Resident, Table!Attach
    <2> QED
      BY <2>1 DEF Table!Next
  <1>9. ASSUME NEW k \in Keys, NEW c \in Clients, DetachPersistent(k, c)
        PROVE  [Table!Next]_(Table!vars)
    <2>1. Table!Detach(k, c)
      BY <1>9 DEF DetachPersistent, Table!Detach
    <2> QED
      BY <2>1 DEF Table!Next
  <1>10. ASSUME \/ ListDevices \/ UNCHANGED vars
                \/ \E k \in Keys : ExportPersistent(k)
         PROVE  [Table!Next]_(Table!vars)
    BY <1>1, <1>10 DEF ListDevices, vars, ExportPersistent
  <1> QED
    BY <1>2, <1>3, <1>4, <1>5, <1>6, <1>7, <1>8, <1>9, <1>10 DEF Next, Copying

(* The loader is a table of reference-counted shards.                       *)
THEOREM LoaderImplementsTable == Spec => ImplementsRefTable
  <1> QED
    BY LoaderInvInit, LoaderInvNext, TableInit, TableNext, PTL
       DEF Spec, ImplementsRefTable, Table!Spec
=============================================================================
