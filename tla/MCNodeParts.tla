---------------------------- MODULE MCNodeParts ----------------------------
(***************************************************************************)
(* The parts of a node that share no state with each other, side by side:  *)
(* a behaviour is one of one part, chosen at the start, so the instance    *)
(* costs the sum of the parts and not their product.                       *)
(***************************************************************************)
EXTENDS GpuLoader, Integers, TLC

CONSTANTS a1, b1, g1, g2,
          ModelKeys, AllocKeys, Vals, Absent, NoFile, Empty, Torn, SoloStart, IOErrors,
          NoAlloc, MaxTokens, TTL, NumFiles,
          Models, NoModel, oddModel, Headers, Word, Prefix, MaxHeader,
          Limit, MaxTime, MapLimit, MapTime,
          Names, Trimmed, Digests, SizeOf, MaxSize, MaxShards, MaxLayers,
          Block, Sizes, Chunks,
          Records, Later, Target

VARIABLES part,
          path, tmp, content, synced, entry, proc,
          now, alloc, tokens, byAlloc, seq, disk, get,
          file, clock, cache, ask,
          shards, layers, checked, dir,
          pc, job, direct, fd, held, off, by, rc,
          rec, inUse, gc

(* No part sees another, so one set of anonymous values serves as threads,  *)
(* processes and models of a sweep, and one as device memory, inodes and    *)
(* allocations: one small symmetry group reduces all parts.                 *)
Store == INSTANCE StateStore WITH Procs <- Threads, Inodes <- Ptrs

Bundles == INSTANCE RuntimeBundles WITH Allocs <- Ptrs

Maps == INSTANCE TensorMaps WITH
            now <- clock, req <- ask, Limit <- MapLimit, MaxTime <- MapTime

Profile == INSTANCE ProfileChecks WITH pc <- checked

Transfer == INSTANCE ShardTransfer

Sweep == INSTANCE GcSweep WITH held <- inUse, Models <- Threads

ASSUME PartsAssumption ==
    /\ Store!StoreAssumption /\ Bundles!BundleAssumption /\ Maps!TensorAssumption
    /\ Profile!ProfileAssumption /\ Transfer!TransferAssumption /\ Sweep!SweepAssumption

storeVars == <<path, tmp, content, synced, entry, proc>>

bundleVars == <<now, alloc, tokens, byAlloc, seq, disk, get>>

mapVars == <<file, clock, cache, ask>>

profileVars == <<shards, layers, checked, dir>>

transferVars == <<pc, job, direct, fd, held, off, by, rc>>

sweepVars == <<rec, inUse, gc>>

partsVars == <<part, vars, storeVars, bundleVars, mapVars, profileVars, transferVars, sweepVars>>

Turn(name) == part = name /\ UNCHANGED part

ParsableHeader == CHOOSE f \in Headers : Maps!Parses(f)

AnyJob == CHOOSE j \in Transfer!Jobs : TRUE

AnyRecord == CHOOSE r \in Records : TRUE

(* A part that is not chosen rests in one of its initial states.            *)
PartsInit ==
    /\ part \in {"loader", "store", "bundles", "maps", "profile", "transfer", "sweep"}
    /\ \E f \in Headers :
           /\ part = "maps" \/ f = ParsableHeader
           /\ file = [m \in Models |-> IF m = oddModel THEN f ELSE ParsableHeader]
    /\ part = "profile" \/ (shards = <<>> /\ layers = <<>>)
    /\ \E j \in Transfer!Jobs :
           /\ part = "transfer" \/ j = AnyJob
           /\ job = j
    /\ part = "sweep" \/ (inUse = {} /\ rec = [m \in Threads |-> AnyRecord])
    /\ Init /\ Store!Init /\ Bundles!Init /\ Maps!Init /\ Profile!Init /\ Transfer!Init /\ Sweep!Init

PartsNext ==
    \/ /\ Turn("loader") /\ Next
       /\ UNCHANGED <<storeVars, bundleVars, mapVars, profileVars, transferVars, sweepVars>>
    \/ /\ Turn("store") /\ Store!Next
       /\ UNCHANGED <<vars, bundleVars, mapVars, profileVars, transferVars, sweepVars>>
    \/ /\ Turn("bundles") /\ Bundles!Next
       /\ UNCHANGED <<vars, storeVars, mapVars, profileVars, transferVars, sweepVars>>
    \/ /\ Turn("maps") /\ Maps!Next
       /\ UNCHANGED <<vars, storeVars, bundleVars, profileVars, transferVars, sweepVars>>
    \/ /\ Turn("profile") /\ Profile!Next
       /\ UNCHANGED <<vars, storeVars, bundleVars, mapVars, transferVars, sweepVars>>
    \/ /\ Turn("transfer") /\ Transfer!Next
       /\ UNCHANGED <<vars, storeVars, bundleVars, mapVars, profileVars, sweepVars>>
    \/ /\ Turn("sweep") /\ Sweep!Next
       /\ UNCHANGED <<vars, storeVars, bundleVars, mapVars, profileVars, transferVars>>

PartsSpec == PartsInit /\ [][PartsNext]_partsVars

(* Every part keeps its types, as the loader does (TypeOK).                 *)
PartsTypeOK ==
    Store!TypeOK /\ Bundles!TypeOK /\ Maps!TypeOK /\ Profile!TypeOK /\ Transfer!TypeOK /\ Sweep!TypeOK

(* state.db parses at every instant, and would after a power loss.          *)
AlwaysParses == Store!AlwaysParses

(* The file protocol implements one atomic, durable table.                  *)
ImplementsAtomicStore == Store!ImplementsAtomicStore

(* The two indexes of the runtime bundle tokens agree and stay in bounds.   *)
IndexesAgree == Bundles!IndexesAgree

(* No runtime bundle token outlives its allocation.                         *)
TokensNameAllocations == Bundles!TokensNameAllocations

(* A new runtime bundle token pushes out the oldest only.                   *)
EvictsTheOldest == Bundles!EvictsTheOldest

(* A bundle that ends with its manifest is whole.                           *)
ManifestEndsWholeBundles == Bundles!ManifestEndsWholeBundles

(* A tensor map that is answered names bytes of the model's own shard.      *)
AnsweredTensorIsInFile == Maps!AnsweredTensorIsInFile

(* No legal safetensors header is refused for its numbers.                  *)
GoodHeadersParse == Maps!GoodHeadersParse

(* The tensor map cache stays within its limit.                             *)
CacheWithinLimit == Maps!CacheWithinLimit

(* What passes the lint and downloads, verifies, if well named and typed.   *)
LintedModelVerifies == Profile!LintedModelVerifies

(* What verifies has every byte of every shard.                             *)
VerifiedIsExact == Profile!VerifiedIsExact

(* A load into device memory gives back all it took but that memory.        *)
NothingLeaks == Transfer!NothingLeaks

(* A shard that is accepted is in device memory to its last byte.           *)
AcceptedIsWhole == Transfer!AcceptedIsWhole

(* The direct path reads whole blocks at whole blocks.                      *)
DirectReadsAreAligned == Transfer!DirectReadsAreAligned

(* GC frees space in the order of the models' release, until it has enough. *)
SweepFreesInOrder == Sweep!SweepFreesInOrder

-----------------------------------------------------------------------------
(* The instance: one shard on each of two devices, words of three bits, a header of one byte after a length   *)
(* of one, blocks of three bytes.                                           *)
OnDevice == (a1 :> g1) @@ (b1 :> g2)

AllHeaders == [size : 0..3, len : 0..7, start : -1..3, end : -1..3]

Trim == ("a" :> "a") @@ (" a" :> "a") @@ ("b" :> "b")

TrueSizes == ("d" :> 1) @@ ("e" :> 2)

Record(status, releasable, updated, bytes, marker) ==
    [leased |-> FALSE, path |-> TRUE, status |-> status, releasable |-> releasable,
     updated |-> updated, bytes |-> bytes, marker |-> marker]

SomeRecords ==
    {Record("READY", 0, 1, 1, TRUE), Record("READY", 0, 1, 2, TRUE),
     Record("READY", 1, 2, 1, TRUE), Record("READY", 2, 2, 1, TRUE),
     Record("FAILED", 0, 2, 0, FALSE), Record("DOWNLOADING", 0, 2, 0, FALSE)}

PartsSymmetry == Permutations(Threads) \cup Permutations(Ptrs)
=============================================================================
