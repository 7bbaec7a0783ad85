----------------------------- MODULE TensorMaps -----------------------------
(***************************************************************************)
(* gpu_tensor_map.go: the header of a safetensors shard is parsed into     *)
(* offsets with 64-bit arithmetic, and the result is cached by model; the  *)
(* parse runs outside the mutex of the cache, so several requests may      *)
(* parse the same shard, and the cache may change meanwhile.               *)
(***************************************************************************)
EXTENDS Integers, FiniteSets

CONSTANTS Threads, Models, NoModel,
          Headers,    \* what shards may look like: file size, header length
                      \* as it is read, and the offsets of a tensor
          Word,       \* 2^64
          Prefix,     \* 8, the bytes of the header length
          MaxHeader,  \* maxSafeTensorsHeaderBytes
          Limit,      \* MaxTensorMapCacheEntries
          MaxTime     \* bound of the clock

TensorAssumption ==
    /\ IsFiniteSet(Models) /\ NoModel \notin Models
    /\ Word \in Nat \ {0} /\ Word % 2 = 0 /\ Prefix \in Nat /\ MaxHeader \in Nat
    \* int64 and uint64: the widths of the integers that are read
    /\ Headers \subseteq [size : 0..Word \div 2 - 1, len : 0..Word - 1,
                         start : -(Word \div 2)..Word \div 2 - 1,
                         end : -(Word \div 2)..Word \div 2 - 1]
    /\ Limit \in Nat \ {0} /\ MaxTime \in Nat

VARIABLES file,      \* file[m]: the model's shard, which its digest determines
          now,
          cache,     \* tensorMapCache: by model, the offsets and BuiltAt
          req        \* req[t]: a request: place, model, its own snapshot

vars == <<file, now, cache, req>>

(* Conversion to int64, and sums in it.                                     *)
Wrap(n) == ((n + Word \div 2) % Word) - Word \div 2

(* parseSafeTensorsShard.                                                   *)
HeaderLen(f) == Wrap(f.len)

\* Mutant: a length that is negative as an int64 is not refused.
HeaderFitsNegative(f) ==
    /\ f.size >= Prefix
    /\ HeaderLen(f) <= MaxHeader /\ HeaderLen(f) <= Wrap(f.size - Prefix)

HeaderFits(f) ==
    /\ f.size >= Prefix
    /\ HeaderLen(f) > 0 /\ HeaderLen(f) <= MaxHeader /\ HeaderLen(f) <= Wrap(f.size - Prefix)

DataStart(f) == Wrap(Prefix + HeaderLen(f))

AbsStart(f) == Wrap(DataStart(f) + f.start)

AbsEnd(f) == Wrap(DataStart(f) + f.end)

\* Mutant: a tensor may not end where the file ends.
OffsetsFitBefore(f) ==
    /\ f.start >= 0 /\ f.end >= f.start
    /\ AbsStart(f) >= DataStart(f) /\ AbsEnd(f) >= AbsStart(f)
    /\ AbsEnd(f) < f.size

OffsetsFit(f) ==
    /\ f.start >= 0 /\ f.end >= f.start
    /\ AbsStart(f) >= DataStart(f) /\ AbsEnd(f) >= AbsStart(f)
    /\ AbsEnd(f) <= f.size

Parses(f) == HeaderFits(f) /\ OffsetsFit(f)

Snapshot(f) == [offset |-> AbsStart(f), bytes |-> Wrap(AbsEnd(f) - AbsStart(f))]

Cached == DOMAIN cache

Idle == [pc |-> "idle", model |-> NoModel]

TypeOK ==
    /\ file \in [Models -> Headers]
    /\ now \in 0..MaxTime
    /\ Cached \subseteq Models /\ \A m \in Cached : cache[m] \in [map : [offset : Int, bytes : Int], at : 0..MaxTime]
    /\ \A t \in Threads :
           \/ req[t] = Idle
           \/ req[t] \in [pc : {"look", "build"}, model : Models]
           \/ req[t] \in [pc : {"insert"}, model : Models, map : [offset : Int, bytes : Int], at : 0..MaxTime]
           \/ req[t] \in [pc : {"answer"}, model : Models, map : [offset : Int, bytes : Int]]

Init ==
    /\ file \in [Models -> Headers]
    /\ now = 0 /\ cache = [m \in {} |-> 0]
    /\ req = [t \in Threads |-> Idle]

-----------------------------------------------------------------------------
Begin(t, m) ==
    /\ req[t] = Idle
    /\ req' = [req EXCEPT ![t] = [pc |-> "look", model |-> m]]
    /\ UNCHANGED <<file, now, cache>>

Answer(t, map) ==
    req' = [req EXCEPT ![t] = [pc |-> "answer", model |-> req[t].model, map |-> map]]

Look(t) ==
    /\ req[t].pc = "look"
    /\ IF req[t].model \in Cached
       THEN Answer(t, cache[req[t].model].map)
       ELSE req' = [req EXCEPT ![t].pc = "build"]
    /\ UNCHANGED <<file, now, cache>>

(* The shard may also be unreadable.  BuiltAt is set before the mutex is    *)
(* taken.                                                                   *)
Build(t) ==
    /\ req[t].pc = "build"
    /\ LET f == file[req[t].model]
       IN \/ /\ Parses(f)
             /\ req' = [req EXCEPT ![t] = [pc |-> "insert", model |-> req[t].model,
                                           map |-> Snapshot(f), at |-> now]]
          \/ req' = [req EXCEPT ![t] = Idle]
    /\ UNCHANGED <<file, now, cache>>

\* Mutant: no room is made for the entry that is about to come.
SurplusNow ==
    {lost \in SUBSET Cached :
        /\ Cardinality(lost) = IF Cardinality(Cached) > Limit
                               THEN Cardinality(Cached) - Limit ELSE 0
        /\ \A old \in lost, new \in Cached \ lost : cache[old].at <= cache[new].at}

(* evictTensorMapCacheLocked(1): the entries built first make room.         *)
Surplus ==
    {lost \in SUBSET Cached :
        /\ Cardinality(lost) = IF Cardinality(Cached) + 1 > Limit
                               THEN Cardinality(Cached) + 1 - Limit ELSE 0
        /\ \A old \in lost, new \in Cached \ lost : cache[old].at <= cache[new].at}

(* Another request may have been faster.                                    *)
Insert(t) ==
    /\ req[t].pc = "insert"
    /\ LET m == req[t].model
       IN IF m \in Cached
          THEN Answer(t, cache[m].map) /\ UNCHANGED cache
          ELSE /\ \E lost \in Surplus :
                      cache' = [k \in (Cached \ lost) \cup {m} |->
                                   IF k = m THEN [map |-> req[t].map, at |-> req[t].at]
                                   ELSE cache[k]]
               /\ Answer(t, req[t].map)
    /\ UNCHANGED <<file, now>>

Return(t) ==
    /\ req[t].pc = "answer"
    /\ req' = [req EXCEPT ![t] = Idle]
    /\ UNCHANGED <<file, now, cache>>

Tick ==
    /\ now < MaxTime /\ now' = now + 1
    /\ UNCHANGED <<file, cache, req>>

(* A new process starts with an empty cache (Recover).                      *)
Restart ==
    /\ cache' = [m \in {} |-> 0]
    /\ req' = [t \in Threads |-> Idle]
    /\ UNCHANGED <<file, now>>

Next ==
    \/ Tick
    \/ Restart
    \/ \E t \in Threads :
           \/ Look(t) \/ Build(t) \/ Insert(t) \/ Return(t)
           \/ \E m \in Models : Begin(t, m)

Spec == Init /\ [][Next]_vars

-----------------------------------------------------------------------------
(* Whatever is answered, built or cached, by whoever was first, is the part *)
(* of this model's own shard that its header names: inside the file, after  *)
(* the header, in integers without bound, although every sum is taken       *)
(* modulo 2^64 and the header length is read as an unsigned number.         *)
AnsweredTensorIsInFile ==
    \A t \in Threads :
        req[t].pc = "answer" =>
            LET f == file[req[t].model] map == req[t].map
            IN /\ f.len + Prefix <= f.size
               /\ map.offset = Prefix + f.len + f.start
               /\ map.bytes = f.end - f.start
               /\ map.offset + map.bytes <= f.size

(* The cache never grows past its limit, however many requests missed it at *)
(* the same time.                                                           *)
CacheWithinLimit == Cardinality(Cached) <= Limit

(* A header that is well formed and inside its file is never refused for    *)
(* its numbers.                                                             *)
GoodHeadersParse ==
    \A m \in Models :
        LET f == file[m]
        IN /\ f.len > 0 /\ f.len <= MaxHeader /\ Prefix + f.len <= f.size
           /\ 0 <= f.start /\ f.start <= f.end /\ Prefix + f.len + f.end <= f.size
           => Parses(f)
=============================================================================
