---------------------------- MODULE PartsProofs ----------------------------
(***************************************************************************)
(* Proofs about the parts of a node, as MCNodeParts composes them: every   *)
(* property that node_parts checks of the state store, the runtime bundle  *)
(* tokens, the tensor maps, the checks of a profile, the transfer of a     *)
(* shard and the sweep of GC, for every value of the constants.  The store *)
(* and the tokens are carried over from StateStoreProofs and               *)
(* RuntimeBundlesProofs by showing that a step of the part is a step there;*)
(* the other parts are proved here, each from an inductive invariant of    *)
(* its own.                                                                *)
(***************************************************************************)
EXTENDS MCNodeParts, FiniteSetTheorems, SequenceTheorems, TLAPS

(* Facts about finite sets and sequences are stated for the operators of   *)
(* this module; the instances define the same ones.                        *)

-----------------------------------------------------------------------------
(* The runtime bundle tokens.                                              *)

BP == INSTANCE RuntimeBundlesProofs WITH Allocs <- Ptrs

LEMMA BundlesInit == PartsInit => BP!BundleInv
    <1>1. PartsInit => BP!Init
        BY DEF PartsInit, Bundles!Init, BP!Init, Bundles!Files, BP!Files, Bundles!NoGet, BP!NoGet
    <1> QED
        BY <1>1, BP!BundleInvInit, PartsAssumption DEF Bundles!BundleAssumption, BP!BundleAssumption

LEMMA SameCardinality == \A S : Bundles!Cardinality(S) = BP!Cardinality(S)
    BY Zenon DEF Bundles!Cardinality, BP!Cardinality

LEMMA SameSurplus == \A t : Bundles!Surplus(t) = BP!Surplus(t)
    BY SameCardinality DEF Bundles!Surplus, BP!Surplus

LEMMA BundlesSame == Bundles!Next => BP!Next
    <1>1. ASSUME NEW a, NEW t PROVE Bundles!Issue(a, t) => BP!Issue(a, t)
        BY SameSurplus
        DEF Bundles!Issue, BP!Issue, Bundles!Live, BP!Live, Bundles!Expired, BP!Expired,
            Bundles!Without, BP!Without
    <1>2. ASSUME NEW a PROVE Bundles!Allocate(a) \/ Bundles!Revoke(a) \/ Bundles!DeleteRecord(a)
                             => BP!Allocate(a) \/ BP!Revoke(a) \/ BP!DeleteRecord(a)
        BY
        DEF Bundles!Allocate, BP!Allocate, Bundles!Revoke, BP!Revoke, Bundles!DeleteRecord,
            BP!DeleteRecord, Bundles!Stored, BP!Stored, Bundles!Without, BP!Without
    <1>3. ASSUME NEW t PROVE Bundles!Resolve(t) => BP!Resolve(t)
        BY
        DEF Bundles!Resolve, BP!Resolve, Bundles!Without, BP!Without, Bundles!Expired, BP!Expired,
            Bundles!Live, BP!Live, Bundles!IndexWithout, BP!IndexWithout
    <1>4. ASSUME NEW f PROVE Bundles!Spoil(f) => BP!Spoil(f)
        BY DEF Bundles!Spoil, BP!Spoil, Bundles!Left, BP!Left
    <1>5. Bundles!Restart \/ Bundles!Tick => BP!Restart \/ BP!Tick
        BY
        DEF Bundles!Restart, BP!Restart, Bundles!Tick, BP!Tick, Bundles!Without, BP!Without,
            Bundles!Live, BP!Live, Bundles!NoGet, BP!NoGet, Bundles!Files, BP!Files
    <1>6. Bundles!List \/ Bundles!SendFile \/ Bundles!SendManifest \/ Bundles!Finish
          => BP!List \/ BP!SendFile \/ BP!SendManifest \/ BP!Finish
        BY
        DEF Bundles!List, BP!List, Bundles!SendFile, BP!SendFile, Bundles!SendManifest,
            BP!SendManifest, Bundles!Finish, BP!Finish, Bundles!MayWriteHeader, BP!MayWriteHeader,
            Bundles!Stored, BP!Stored, Bundles!Files, BP!Files, Bundles!NoGet, BP!NoGet
    <1>7. Bundles!Files = BP!Files /\ Bundles!Tokens = BP!Tokens
        BY DEF Bundles!Files, BP!Files, Bundles!Tokens, BP!Tokens
    <1> QED
        BY <1>1, <1>2, <1>3, <1>4, <1>5, <1>6, <1>7 DEF Bundles!Next, BP!Next

LEMMA BundlesNext == ASSUME BP!BundleInv, [PartsNext]_partsVars PROVE BP!BundleInv'
    <1>1. [BP!Next]_(BP!vars)
        BY BundlesSame DEF PartsNext, partsVars, bundleVars, BP!vars
    <1> QED
        BY <1>1, BP!BundleInvNext, PartsAssumption DEF Bundles!BundleAssumption, BP!BundleAssumption

LEMMA SameTokenDefs ==
    /\ Bundles!Live = BP!Live /\ Bundles!Expired = BP!Expired /\ Bundles!Files = BP!Files
    /\ Bundles!Tokens = BP!Tokens /\ Bundles!Left = BP!Left
    BY DEF Bundles!Live, BP!Live, Bundles!Expired, BP!Expired, Bundles!Files, BP!Files,
       Bundles!Tokens, BP!Tokens, Bundles!Left, BP!Left

LEMMA PartsBundleInv == PartsSpec => []BP!BundleInv
    BY BundlesInit, BundlesNext, PTL DEF PartsSpec

LEMMA BundleTypesKept == BP!BundleInv => Bundles!TypeOK
    BY SameTokenDefs DEF BP!BundleInv, BP!TypeOK, Bundles!TypeOK

(* The two indexes of the runtime bundle tokens name the same tokens, and   *)
(* the table keeps its limit, through any sequence of issues, evictions,    *)
(* expiries, revocations and restarts.                                      *)
THEOREM PartsIndexesAgree == PartsSpec => []IndexesAgree
    <1>1. BP!BundleInv => IndexesAgree
        BY SameCardinality, SameTokenDefs
        DEF BP!BundleInv, BP!IndexesAgree, IndexesAgree, Bundles!IndexesAgree
    <1> QED
        BY <1>1, PartsBundleInv, PTL

(* No token outlives its allocation: GPUUnload revokes before it deletes.   *)
THEOREM PartsTokensAnswered == PartsSpec => []TokensNameAllocations
    <1>1. BP!BundleInv => TokensNameAllocations
        BY SameTokenDefs
        DEF BP!BundleInv, BP!TokensNameAllocations, TokensNameAllocations,
            Bundles!TokensNameAllocations
    <1> QED
        BY <1>1, PartsBundleInv, PTL

(* writeRuntimeBundle: a tar with the manifest entry is whole.              *)
THEOREM PartsBundlesWhole == PartsSpec => []ManifestEndsWholeBundles
    <1>1. BP!BundleInv => ManifestEndsWholeBundles
        BY SameTokenDefs
        DEF BP!BundleInv, BP!SentInOrder, ManifestEndsWholeBundles, Bundles!ManifestEndsWholeBundles
    <1> QED
        BY <1>1, PartsBundleInv, PTL

(* enforceRuntimeBundleTokenLimitLocked evicts the oldest tokens only.      *)
THEOREM PartsEvictsOldest == PartsSpec => EvictsTheOldest
    <1>1. ASSUME BP!BundleInv, [PartsNext]_partsVars, NEW a \in Ptrs, NEW t \in Bundles!Tokens,
                 Bundles!Issue(a, t)
          PROVE  /\ \A old \in (Bundles!Live \ Bundles!Expired) \ Bundles!Live',
                       new \in Bundles!Live \cap Bundles!Live' :
                        tokens[old].at <= tokens[new].at
                 /\ (\A u \in Bundles!Live : tokens[u].at < now) => t \in Bundles!Live'
        <2>1. BP!Issue(a, t) /\ t \in BP!Tokens
            BY <1>1, SameSurplus, SameTokenDefs
            DEF Bundles!Issue, BP!Issue, Bundles!Without, BP!Without
        <2>2. BP!Live = Bundles!Live /\ BP!Live' = Bundles!Live' /\ BP!Expired = Bundles!Expired
            BY DEF Bundles!Live, BP!Live, Bundles!Expired, BP!Expired
        <2>3. BP!BundleAssumption
            BY PartsAssumption DEF Bundles!BundleAssumption, BP!BundleAssumption
        <2> QED
            BY <1>1, <2>1, <2>2, <2>3, BP!OldestEvicted
    <1>2. BP!BundleInv /\ [PartsNext]_partsVars =>
             [\A a \in Ptrs, t \in Bundles!Tokens : Bundles!Issue(a, t) =>
                 /\ \A old \in (Bundles!Live \ Bundles!Expired) \ Bundles!Live',
                       new \in Bundles!Live \cap Bundles!Live' :
                        tokens[old].at <= tokens[new].at
                 /\ (\A u \in Bundles!Live : tokens[u].at < now) => t \in Bundles!Live']_(Bundles!vars)
        BY <1>1
    <1> QED
        BY <1>2, PartsBundleInv, PTL DEF PartsSpec, EvictsTheOldest, Bundles!EvictsTheOldest

-----------------------------------------------------------------------------
(* The state store.                                                        *)

SP == INSTANCE StateStoreProofs WITH Procs <- Threads, Inodes <- Ptrs

LEMMA StoreAssumed == Store!StoreAssumption => SP!StoreAssumption
    BY DEF Store!StoreAssumption, SP!StoreAssumption

LEMMA SameTables ==
    /\ Store!Atomic!Read = SP!Atomic!Read /\ Store!Atomic!Writes = SP!Atomic!Writes
    /\ Store!Atomic!NoRecords = SP!Atomic!NoRecords /\ Store!Atomic!Tables = SP!Atomic!Tables
    /\ Store!Atomic!Idle = SP!Atomic!Idle
    /\ \A op, t : /\ Store!Atomic!Refused(op, t) = SP!Atomic!Refused(op, t)
                  /\ Store!Atomic!Effect(op, t) = SP!Atomic!Effect(op, t)
    BY
    DEF Store!Atomic!Read, SP!Atomic!Read, Store!Atomic!Writes, SP!Atomic!Writes,
        Store!Atomic!NoRecords, SP!Atomic!NoRecords, Store!Atomic!Tables, SP!Atomic!Tables,
        Store!Atomic!StoreKeys, SP!Atomic!StoreKeys, Store!Atomic!Idle, SP!Atomic!Idle,
        Store!Atomic!Refused, SP!Atomic!Refused, Store!Atomic!Effect, SP!Atomic!Effect

LEMMA SameStore ==
    /\ Store!Off = SP!Off /\ Store!Ready = SP!Ready /\ Store!Seed = SP!Seed
    /\ Store!InCall = SP!InCall /\ Store!Contents = SP!Contents
    /\ Store!Visible = SP!Visible /\ (Store!Loads <=> SP!Loads)
    /\ Store!MayRemain = SP!MayRemain
    /\ \A p \in Threads : /\ Store!CallOf(p) = SP!CallOf(p) /\ Store!FoundBy(p) = SP!FoundBy(p)
                          /\ Store!Holds(p) = SP!Holds(p)
    /\ \A i \in Ptrs : Store!MayHold(i) = SP!MayHold(i)
    /\ \A a, b, e : Store!Live(a, b, e) = SP!Live(a, b, e)
    <1> USE SameTables
    <1>1. /\ Store!Off = SP!Off /\ Store!Ready = SP!Ready /\ Store!Seed = SP!Seed
          /\ Store!InCall = SP!InCall /\ Store!Contents = SP!Contents
          /\ (Store!Loads <=> SP!Loads)
        BY
        DEF Store!Off, SP!Off, Store!Ready, SP!Ready, Store!Seed, SP!Seed, Store!InCall, SP!InCall,
            Store!Contents, SP!Contents, Store!Loads, SP!Loads
    <1>2. \A i, c : Store!TableOf(i, c) = SP!TableOf(i, c)
        BY DEF Store!TableOf, SP!TableOf
    <1>3. Store!Visible = SP!Visible
        BY <1>2 DEF Store!Visible, SP!Visible
    <1>4. \A i : Store!MayHold(i) = SP!MayHold(i)
        BY DEF Store!MayHold, SP!MayHold
    <1>5. Store!MayRemain = SP!MayRemain
        BY <1>2, <1>4 DEF Store!MayRemain, SP!MayRemain
    <1>6. \A p \in Threads : Store!CallOf(p) = SP!CallOf(p) /\ Store!FoundBy(p) = SP!FoundBy(p)
        BY <1>1, <1>2 DEF Store!CallOf, SP!CallOf, Store!FoundBy, SP!FoundBy
    <1>7. \A p \in Threads : Store!Holds(p) = SP!Holds(p)
        BY <1>1 DEF Store!Holds, SP!Holds
    <1>8. \A a, b, e : Store!Live(a, b, e) = SP!Live(a, b, e)
        BY DEF Store!Live, SP!Live
    <1> QED
        BY <1>1, <1>3, <1>4, <1>5, <1>6, <1>7, <1>8

LEMMA StoreSame == Store!Next => SP!Next
    <1> USE SameTables, SameStore
    <1>1. ASSUME NEW p \in Threads
          PROVE  /\ Store!Boot(p) => SP!Boot(p)
                 /\ Store!Request(p) => SP!Request(p)
                 /\ Store!Flock(p) => SP!Flock(p)
                 /\ Store!LoadForRead(p) => SP!LoadForRead(p)
                 /\ Store!LoadAndChange(p) => SP!LoadAndChange(p)
                 /\ Store!LoadFails(p) => SP!LoadFails(p)
                 /\ Store!OpenTmp(p) => SP!OpenTmp(p)
                 /\ Store!WriteTmp(p) => SP!WriteTmp(p)
                 /\ Store!SyncTmp(p) => SP!SyncTmp(p)
                 /\ Store!Rename(p) => SP!Rename(p)
                 /\ Store!SyncDir(p) => SP!SyncDir(p)
                 /\ Store!Return(p) => SP!Return(p)
                 /\ Store!Break(p) => SP!Break(p)
                 /\ Store!Die(p) => SP!Die(p)
        <2>1. Store!Boot(p) => SP!Boot(p)
            BY DEF Store!Boot, SP!Boot
        <2>2. Store!Request(p) => SP!Request(p)
            BY DEF Store!Request, SP!Request
        <2>3. Store!Flock(p) => SP!Flock(p)
            BY DEF Store!Flock, SP!Flock, Store!Step, SP!Step
        <2>4. Store!LoadForRead(p) => SP!LoadForRead(p)
            BY DEF Store!LoadForRead, SP!LoadForRead
        <2>5. Store!LoadAndChange(p) => SP!LoadAndChange(p)
            BY DEF Store!LoadAndChange, SP!LoadAndChange, Store!Leave, SP!Leave
        <2>6. Store!LoadFails(p) => SP!LoadFails(p)
            BY DEF Store!LoadFails, SP!LoadFails, Store!Leave, SP!Leave
        <2>7. Store!OpenTmp(p) => SP!OpenTmp(p)
            BY DEF Store!OpenTmp, SP!OpenTmp
        <2>8. Store!WriteTmp(p) => SP!WriteTmp(p)
            BY DEF Store!WriteTmp, SP!WriteTmp
        <2>9. Store!SyncTmp(p) => SP!SyncTmp(p)
            BY DEF Store!SyncTmp, SP!SyncTmp, Store!Step, SP!Step
        <2>10. Store!Rename(p) => SP!Rename(p)
            BY DEF Store!Rename, SP!Rename, Store!Step, SP!Step
        <2>11. Store!SyncDir(p) => SP!SyncDir(p)
            BY DEF Store!SyncDir, SP!SyncDir, Store!Step, SP!Step, Store!Reclaim, SP!Reclaim
        <2>12. Store!Return(p) => SP!Return(p)
            BY DEF Store!Return, SP!Return
        <2>13. Store!Break(p) => SP!Break(p)
            BY DEF Store!Break, SP!Break, Store!Leave, SP!Leave
        <2>14. Store!Die(p) => SP!Die(p)
            BY DEF Store!Die, SP!Die
        <2> QED
            BY <2>1, <2>2, <2>3, <2>4, <2>5, <2>6, <2>7, <2>8, <2>9, <2>10, <2>11, <2>12, <2>13,
               <2>14
    <1>2. Store!WriteBack => SP!WriteBack
        BY DEF Store!WriteBack, SP!WriteBack
    <1>3. Store!PowerLoss => SP!PowerLoss
        BY DEF Store!PowerLoss, SP!PowerLoss, Store!MayHold, SP!MayHold
    <1> QED
        BY <1>1, <1>2, <1>3 DEF Store!Next, SP!Next

LEMMA StorePart ==
    /\ PartsInit => SP!Init
    /\ [PartsNext]_partsVars => [SP!Next]_(SP!vars)
    <1>1. PartsInit => SP!Init
        BY SameStore DEF PartsInit, Store!Init, SP!Init
    <1>2. [PartsNext]_partsVars => [SP!Next]_(SP!vars)
        BY StoreSame DEF PartsNext, partsVars, storeVars, SP!vars
    <1> QED
        BY <1>1, <1>2

LEMMA PartsStoreInv == ASSUME SoloStart PROVE PartsSpec => []SP!StoreInv
    <1>1. PartsInit => SP!StoreInv
        BY StorePart, StoreAssumed, PartsAssumption, SP!StoreInvInit
    <1>2. SP!StoreInv /\ [PartsNext]_partsVars => SP!StoreInv'
        BY StorePart, StoreAssumed, PartsAssumption, SP!StoreInvNext
    <1> QED
        BY <1>1, <1>2, PTL DEF PartsSpec

(* writeAtomicFile: state.db parses at every instant, and after a power     *)
(* loss at any instant, if no process starts before the first made it.      *)
THEOREM PartsStoreParses == ASSUME SoloStart PROVE PartsSpec => []AlwaysParses
    <1>1. SP!StoreInv => AlwaysParses
        <2>1. SP!StoreInv => SP!AlwaysParses /\ SP!TypeOK
            BY SP!StoreInvParses, SP!TypesSuffice DEF SP!StoreInv
        <2>2. SP!AlwaysParses => Store!AlwaysParses
            BY SameTables DEF Store!AlwaysParses, SP!AlwaysParses, Store!MayHold, SP!MayHold
        <2> QED
            BY <2>1, <2>2 DEF AlwaysParses
    <1> QED
        BY <1>1, PartsStoreInv, PTL

Agreement ==
    /\ Store!Visible = SP!Visible /\ Store!MayRemain = SP!MayRemain
    /\ [p \in Threads |-> Store!CallOf(p)] = [p \in Threads |-> SP!CallOf(p)]
    /\ [p \in Threads |-> Store!FoundBy(p)] = [p \in Threads |-> SP!FoundBy(p)]

LEMMA SameAbstraction == Agreement
    BY SameStore DEF Agreement

LEMMA AbstractionSame ==
    /\ SP!Atomic!Init => Store!Atomic!Init
    /\ [SP!Atomic!Next]_(SP!Atomic!vars) => [Store!Atomic!Next]_(Store!Atomic!vars)
    <1> USE SameTables
    <1>0. Agreement /\ Agreement'
        BY SameAbstraction, PTL
    <1>1. /\ Store!Visible = SP!Visible /\ Store!MayRemain = SP!MayRemain
          /\ Store!Visible' = SP!Visible' /\ Store!MayRemain' = SP!MayRemain'
          /\ [p \in Threads |-> Store!CallOf(p)] = [p \in Threads |-> SP!CallOf(p)]
          /\ [p \in Threads |-> Store!FoundBy(p)] = [p \in Threads |-> SP!FoundBy(p)]
          /\ [p \in Threads |-> Store!CallOf(p)]' = [p \in Threads |-> SP!CallOf(p)]'
          /\ [p \in Threads |-> Store!FoundBy(p)]' = [p \in Threads |-> SP!FoundBy(p)]'
        BY <1>0 DEF Agreement
    <1>2. SP!Atomic!Init => Store!Atomic!Init
        BY <1>1 DEF Store!Atomic!Init, SP!Atomic!Init
    <1>3. ASSUME NEW p \in Threads
          PROVE  /\ SP!Atomic!Ask(p) => Store!Atomic!Ask(p)
                 /\ SP!Atomic!Write(p) => Store!Atomic!Write(p)
                 /\ SP!Atomic!Look(p) => Store!Atomic!Look(p)
                 /\ SP!Atomic!Answer(p) => Store!Atomic!Answer(p)
                 /\ SP!Atomic!Leave(p) => Store!Atomic!Leave(p)
        <2>1. SP!Atomic!Ask(p) => Store!Atomic!Ask(p)
            BY <1>1 DEF Store!Atomic!Ask, SP!Atomic!Ask
        <2>2. SP!Atomic!Write(p) => Store!Atomic!Write(p)
            BY <1>1 DEF Store!Atomic!Write, SP!Atomic!Write
        <2>3. SP!Atomic!Look(p) => Store!Atomic!Look(p)
            BY <1>1 DEF Store!Atomic!Look, SP!Atomic!Look
        <2>4. SP!Atomic!Answer(p) => Store!Atomic!Answer(p)
            BY <1>1 DEF Store!Atomic!Answer, SP!Atomic!Answer
        <2>5. SP!Atomic!Leave(p) => Store!Atomic!Leave(p)
            BY <1>1 DEF Store!Atomic!Leave, SP!Atomic!Leave
        <2> QED
            BY <2>1, <2>2, <2>3, <2>4, <2>5
    <1>4. SP!Atomic!Settle \/ SP!Atomic!PowerLoss => Store!Atomic!Settle \/ Store!Atomic!PowerLoss
        BY <1>1
        DEF Store!Atomic!Settle, SP!Atomic!Settle, Store!Atomic!PowerLoss, SP!Atomic!PowerLoss
    <1>5. UNCHANGED SP!Atomic!vars => UNCHANGED Store!Atomic!vars
        BY <1>1 DEF Store!Atomic!vars, SP!Atomic!vars
    <1>6. SP!Atomic!Next => Store!Atomic!Next
        BY <1>3, <1>4 DEF Store!Atomic!Next, SP!Atomic!Next
    <1> QED
        BY <1>2, <1>5, <1>6

(* The file protocol implements one atomic table that a power loss takes   *)
(* back no further than the last answered write.                           *)
THEOREM PartsStoreIsAtomic == ASSUME SoloStart PROVE PartsSpec => ImplementsAtomicStore
    <1>1. PartsInit => Store!Atomic!Init
        BY StorePart, SP!AtomicInit, AbstractionSame
    <1>2. SP!StoreInv /\ SP!StoreInv' /\ [PartsNext]_partsVars => [Store!Atomic!Next]_(Store!Atomic!vars)
        BY StorePart, StoreAssumed, PartsAssumption, SP!AtomicNext, AbstractionSame
    <1> QED
        BY <1>1, <1>2, PartsStoreInv, PTL
        DEF PartsSpec, ImplementsAtomicStore, Store!ImplementsAtomicStore, Store!Atomic!Spec

LEMMA SameStoreTypes == SP!TypeOK => Store!TypeOK
    BY SameStore, SameTables DEF SP!TypeOK, Store!TypeOK

-----------------------------------------------------------------------------
(* The tensor maps.                                                        *)

Half == Word \div 2

LEMMA MapSets ==
    /\ \A S : Maps!Cardinality(S) = Cardinality(S)
    /\ \A S : Maps!IsFiniteSet(S) <=> IsFiniteSet(S)
    BY Zenon DEF Maps!Cardinality, Cardinality, Maps!IsFiniteSet, IsFiniteSet

(* Conversion to int64 keeps what fits and turns what is just past it      *)
(* negative.                                                               *)
LEMMA Wraps ==
    ASSUME Word \in Nat \ {0}, Word % 2 = 0
    PROVE  /\ Half \in Nat /\ Half > 0 /\ Word = 2 * Half
           /\ \A n \in -Half..Half - 1 : Maps!Wrap(n) = n
           /\ \A n \in Half..3 * Half - 1 : Maps!Wrap(n) = n - Word
    <1>1. Half \in Nat /\ Half > 0 /\ Word = 2 * Half
        BY DEF Half
    <1>2. ASSUME NEW n \in -Half..Half - 1 PROVE Maps!Wrap(n) = n
        <2>1. n + Half \in 0..Word - 1
            BY <1>1
        <2>2. (n + Half) % Word = n + Half
            BY <1>1, <2>1
        <2> QED
            BY <1>1, <2>2 DEF Maps!Wrap, Half
    <1>3. ASSUME NEW n \in Half..3 * Half - 1 PROVE Maps!Wrap(n) = n - Word
        <2>1. n + Half \in Word..2 * Word - 1
            BY <1>1
        <2>2. (n + Half) % Word = n + Half - Word
            BY <1>1, <2>1
        <2> QED
            BY <1>1, <2>2 DEF Maps!Wrap, Half
    <1> QED
        BY <1>1, <1>2, <1>3

Widths == [size : 0..Half - 1, len : 0..Word - 1, start : -Half..Half - 1, end : -Half..Half - 1]

(* What is true of the numbers of a header that parses, without any        *)
(* modulus.                                                                *)
LEMMA HeaderNumbers ==
    ASSUME Word \in Nat \ {0}, Word % 2 = 0, Prefix \in Nat, MaxHeader \in Nat, NEW f \in Widths
    PROVE  /\ Maps!HeaderFits(f) <=> f.len > 0 /\ f.len <= MaxHeader /\ Prefix + f.len <= f.size /\ f.len < Half
           /\ Maps!HeaderFits(f) =>
                  /\ Maps!DataStart(f) = Prefix + f.len
                  /\ Maps!OffsetsFit(f) <=> /\ 0 <= f.start /\ f.start <= f.end
                                            /\ Prefix + f.len + f.end <= f.size
                  /\ Maps!OffsetsFit(f) => /\ Maps!AbsStart(f) = Prefix + f.len + f.start
                                           /\ Maps!AbsEnd(f) = Prefix + f.len + f.end
    <1>0. /\ Half \in Nat /\ Half > 0 /\ Word = 2 * Half
          /\ f.size \in 0..Half - 1 /\ f.len \in 0..Word - 1
          /\ f.start \in -Half..Half - 1 /\ f.end \in -Half..Half - 1
        BY Wraps DEF Widths
    <1>1. Maps!HeaderLen(f) = IF f.len < Half THEN f.len ELSE f.len - Word
        BY <1>0, Wraps DEF Maps!HeaderLen
    <1>2. f.size >= Prefix => Maps!Wrap(f.size - Prefix) = f.size - Prefix
        BY <1>0, Wraps
    <1>3. Maps!HeaderFits(f) <=> f.len > 0 /\ f.len <= MaxHeader /\ Prefix + f.len <= f.size /\ f.len < Half
        BY <1>0, <1>1, <1>2 DEF Maps!HeaderFits
    <1>4. ASSUME Maps!HeaderFits(f)
          PROVE  /\ Maps!DataStart(f) = Prefix + f.len
                 /\ Maps!OffsetsFit(f) <=> /\ 0 <= f.start /\ f.start <= f.end
                                           /\ Prefix + f.len + f.end <= f.size
                 /\ Maps!OffsetsFit(f) => /\ Maps!AbsStart(f) = Prefix + f.len + f.start
                                          /\ Maps!AbsEnd(f) = Prefix + f.len + f.end
        <2> DEFINE d == Prefix + f.len
        <2>1. d \in 0..Half - 1 /\ d <= f.size
            BY <1>0, <1>3, <1>4
        <2>2. Maps!DataStart(f) = d
            BY <1>0, <1>1, <1>3, <1>4, <2>1, Wraps DEF Maps!DataStart
        <2>3. f.start >= 0 => Maps!AbsStart(f) = IF d + f.start < Half THEN d + f.start ELSE d + f.start - Word
            BY <1>0, <2>1, <2>2, Wraps DEF Maps!AbsStart
        <2>4. f.end >= 0 => Maps!AbsEnd(f) = IF d + f.end < Half THEN d + f.end ELSE d + f.end - Word
            BY <1>0, <2>1, <2>2, Wraps DEF Maps!AbsEnd
        <2> HIDE DEF d
        <2>5. Maps!OffsetsFit(f) <=> 0 <= f.start /\ f.start <= f.end /\ d + f.end <= f.size
            BY <1>0, <2>1, <2>2, <2>3, <2>4 DEF Maps!OffsetsFit
        <2>6. Maps!OffsetsFit(f) => Maps!AbsStart(f) = d + f.start /\ Maps!AbsEnd(f) = d + f.end
            BY <1>0, <2>1, <2>3, <2>4, <2>5
        <2> QED
            BY <2>2, <2>5, <2>6 DEF d
    <1> QED
        BY <1>3, <1>4

(* The part of the model's own shard that its header names.                *)
TrueMap(m, map) ==
    LET f == file[m]
    IN /\ f.len + Prefix <= f.size
       /\ map.offset = Prefix + f.len + f.start
       /\ map.bytes = f.end - f.start
       /\ map.offset + map.bytes <= f.size

LEMMA SnapshotIsTrue ==
    ASSUME Word \in Nat \ {0}, Word % 2 = 0, Prefix \in Nat, MaxHeader \in Nat,
           NEW m, file[m] \in Widths, Maps!Parses(file[m])
    PROVE  TrueMap(m, Maps!Snapshot(file[m])) /\ Maps!Snapshot(file[m]) \in [offset : Int, bytes : Int]
    <1> DEFINE f == file[m]
    <1>1. /\ Maps!AbsStart(f) = Prefix + f.len + f.start /\ Maps!AbsEnd(f) = Prefix + f.len + f.end
          /\ 0 <= f.start /\ f.start <= f.end /\ Prefix + f.len + f.end <= f.size
        BY HeaderNumbers DEF Maps!Parses
    <1>2. /\ f.size \in 0..Half - 1 /\ f.len \in 0..Word - 1 /\ Half \in Nat
          /\ f.start \in -Half..Half - 1 /\ f.end \in -Half..Half - 1
        BY Wraps DEF Widths
    <1>3. Maps!Wrap(Maps!AbsEnd(f) - Maps!AbsStart(f)) = f.end - f.start
        BY <1>1, <1>2, Wraps
    <1> QED
        BY <1>1, <1>2, <1>3 DEF TrueMap, Maps!Snapshot

(* Every map that is built, cached or answered is true of its model.       *)
MapsAreTrue ==
    /\ \A m \in Maps!Cached : TrueMap(m, cache[m].map)
    /\ \A t \in Threads : ask[t].pc \in {"insert", "answer"} => TrueMap(ask[t].model, ask[t].map)

Asks == ask = [t \in Threads |-> ask[t]]

MapInv == Maps!TypeOK /\ Asks /\ MapsAreTrue /\ Maps!CacheWithinLimit

LEMMA FileWidths ==
    ASSUME Maps!TensorAssumption, Maps!TypeOK
    PROVE  \A m \in Models : file[m] \in Widths
    BY DEF Maps!TensorAssumption, Maps!TypeOK, Widths, Half

(* evictTensorMapCacheLocked makes room for one entry.                     *)
LEMMA RoomForOne ==
    ASSUME Maps!TensorAssumption, Maps!TypeOK, Maps!CacheWithinLimit,
           NEW lost \in Maps!Surplus, NEW m \in Models, m \notin Maps!Cached
    PROVE  Cardinality((Maps!Cached \ lost) \cup {m}) <= MapLimit
    <1> DEFINE C == Maps!Cached
    <1>1. IsFiniteSet(C) /\ MapLimit \in Nat \ {0} /\ Cardinality(C) <= MapLimit
        BY MapSets, FS_Subset DEF Maps!TensorAssumption, Maps!TypeOK, Maps!CacheWithinLimit
    <1>2. lost \subseteq C
          /\ Cardinality(lost) = IF Cardinality(C) + 1 > MapLimit THEN Cardinality(C) + 1 - MapLimit ELSE 0
        BY MapSets DEF Maps!Surplus
    <1> HIDE DEF C
    <1>3. Cardinality(C) \in Nat /\ Cardinality(lost) \in Nat /\ C \cap lost = lost
        BY <1>1, <1>2, FS_CardinalityType, FS_Subset
    <1>4. IsFiniteSet(C \ lost) /\ Cardinality(C \ lost) = Cardinality(C) - Cardinality(lost)
        BY <1>1, <1>3, FS_Difference
    <1> DEFINE D == C \ lost
    <1>5. Cardinality(D \cup {m}) = IF m \in D THEN Cardinality(D) ELSE Cardinality(D) + 1
        <2> HIDE DEF D
        <2> QED
            BY <1>4, FS_AddElement DEF D
    <1>6. Cardinality((C \ lost) \cup {m}) \in Nat
        BY <1>4, FS_AddElement, FS_CardinalityType
    <1> QED
        BY <1>1, <1>2, <1>3, <1>4, <1>5, <1>6 DEF C

Spans == [offset : Int, bytes : Int]

Request(r) ==
    \/ r = Maps!Idle
    \/ r \in [pc : {"look", "build"}, model : Models]
    \/ r \in [pc : {"insert"}, model : Models, map : Spans, at : 0..MapTime]
    \/ r \in [pc : {"answer"}, model : Models, map : Spans]

(* A step of one request that leaves the clock and the shards alone, and   *)
(* the cache true.                                                         *)
LEMMA RequestStep ==
    ASSUME MapInv, NEW t \in Threads, NEW r, ask' = [ask EXCEPT ![t] = r], Request(r),
           r.pc \in {"insert", "answer"} => TrueMap(r.model, r.map),
           file' = file, clock' = clock, cache' = cache
    PROVE  MapInv'
    <1>1. \A u \in Threads : ask'[u] = IF u = t THEN r ELSE ask[u]
        BY DEF MapInv, Asks
    <1>2. Asks'
        BY <1>1 DEF MapInv, Asks
    <1>3. \A u \in Threads : Request(ask[u]) /\ Request(ask'[u])
        BY <1>1 DEF MapInv, Maps!TypeOK, Request, Spans
    <1>4. Maps!TypeOK'
        BY <1>3 DEF MapInv, Maps!TypeOK, Request, Spans, Maps!Cached
    <1>5. MapsAreTrue'
        BY <1>1 DEF MapInv, MapsAreTrue, TrueMap, Maps!Cached
    <1>6. Maps!CacheWithinLimit'
        BY DEF MapInv, Maps!CacheWithinLimit, Maps!Cached
    <1> QED
        BY <1>2, <1>4, <1>5, <1>6 DEF MapInv

LEMMA AskFields ==
    ASSUME MapInv, NEW t \in Threads
    PROVE  /\ ask[t].pc = "look" => ask[t] \in [pc : {"look", "build"}, model : Models]
           /\ ask[t].pc = "build" => ask[t] \in [pc : {"look", "build"}, model : Models]
           /\ ask[t].pc = "insert" => ask[t] \in [pc : {"insert"}, model : Models, map : Spans, at : 0..MapTime]
           /\ ask[t].pc = "answer" => ask[t] \in [pc : {"answer"}, model : Models, map : Spans]
    BY DEF MapInv, Maps!TypeOK, Maps!Idle, Spans

LEMMA MapNext ==
    ASSUME Maps!TensorAssumption, MapInv, [Maps!Next]_mapVars
    PROVE  MapInv'
    <1>0. Word \in Nat \ {0} /\ Word % 2 = 0 /\ Prefix \in Nat /\ MaxHeader \in Nat
          /\ MapTime \in Nat /\ NoModel \notin Models
        BY DEF Maps!TensorAssumption
    <1>i. Request(Maps!Idle) /\ Maps!Idle.pc = "idle"
        BY DEF Request, Maps!Idle
    <1>1. ASSUME NEW t \in Threads, NEW m \in Models, Maps!Begin(t, m) PROVE MapInv'
        <2> DEFINE r == [pc |-> "look", model |-> m]
        <2>1. Request(r) /\ r.pc = "look"
            BY DEF Request
        <2>2. ask' = [ask EXCEPT ![t] = r] /\ file' = file /\ clock' = clock /\ cache' = cache
            BY <1>1 DEF Maps!Begin
        <2> HIDE DEF r
        <2> QED
            BY <2>1, <2>2, RequestStep
    <1>2. ASSUME NEW t \in Threads, Maps!Look(t) PROVE MapInv'
        <2>0. ask[t] \in [pc : {"look", "build"}, model : Models] /\ file' = file /\ clock' = clock /\ cache' = cache
            BY <1>2, AskFields DEF Maps!Look
        <2>1. CASE ask[t].model \in Maps!Cached
            <3> DEFINE r == [pc |-> "answer", model |-> ask[t].model, map |-> cache[ask[t].model].map]
            <3>1. cache[ask[t].model].map \in Spans
                BY <2>1 DEF MapInv, Maps!TypeOK, Spans
            <3>2. Request(r) /\ TrueMap(r.model, r.map)
                BY <2>0, <2>1, <3>1 DEF Request, MapInv, MapsAreTrue
            <3>3. ask' = [ask EXCEPT ![t] = r]
                BY <1>2, <2>1 DEF Maps!Look, Maps!Answer
            <3> HIDE DEF r
            <3> QED
                BY <2>0, <3>2, <3>3, RequestStep
        <2>2. CASE ask[t].model \notin Maps!Cached
            <3> DEFINE r == [ask[t] EXCEPT !.pc = "build"]
            <3>1. Request(r) /\ r.pc = "build"
                BY <2>0 DEF Request
            <3>2. ask' = [ask EXCEPT ![t] = r]
                BY <1>2, <2>2 DEF Maps!Look
            <3> HIDE DEF r
            <3> QED
                BY <2>0, <3>1, <3>2, RequestStep
        <2> QED
            BY <2>1, <2>2
    <1>3. ASSUME NEW t \in Threads, Maps!Build(t) PROVE MapInv'
        <2>0. ask[t].model \in Models /\ file' = file /\ clock' = clock /\ cache' = cache
              /\ clock \in 0..MapTime
            BY <1>3, AskFields DEF Maps!Build, MapInv, Maps!TypeOK
        <2> DEFINE m == ask[t].model
                   r == [pc |-> "insert", model |-> m, map |-> Maps!Snapshot(file[m]), at |-> clock]
        <2>1. CASE Maps!Parses(file[m]) /\ ask' = [ask EXCEPT ![t] = r]
            <3>1. TrueMap(m, Maps!Snapshot(file[m])) /\ Maps!Snapshot(file[m]) \in Spans
                BY <1>0, <2>0, <2>1, FileWidths, SnapshotIsTrue DEF MapInv, Spans
            <3>2. Request(r) /\ TrueMap(r.model, r.map)
                BY <2>0, <3>1 DEF Request
            <3> HIDE DEF r
            <3> QED
                BY <2>0, <2>1, <3>2, RequestStep
        <2>2. CASE ask' = [ask EXCEPT ![t] = Maps!Idle]
            BY <1>i, <2>0, <2>2, RequestStep
        <2> QED
            BY <1>3, <2>1, <2>2 DEF Maps!Build
    <1>4. ASSUME NEW t \in Threads, Maps!Insert(t) PROVE MapInv'
        <2>0. ask[t] \in [pc : {"insert"}, model : Models, map : Spans, at : 0..MapTime]
              /\ file' = file /\ clock' = clock
            BY <1>4, AskFields DEF Maps!Insert
        <2> DEFINE m == ask[t].model
        <2>1. CASE m \in Maps!Cached
            <3> DEFINE r == [pc |-> "answer", model |-> m, map |-> cache[m].map]
            <3>1. cache[m].map \in Spans
                BY <2>1 DEF MapInv, Maps!TypeOK, Spans
            <3>2. Request(r) /\ TrueMap(r.model, r.map)
                BY <2>0, <2>1, <3>1 DEF Request, MapInv, MapsAreTrue
            <3>3. ask' = [ask EXCEPT ![t] = r] /\ cache' = cache
                BY <1>4, <2>1 DEF Maps!Insert, Maps!Answer
            <3> HIDE DEF r
            <3> QED
                BY <2>0, <3>2, <3>3, RequestStep
        <2>2. CASE m \notin Maps!Cached
            <3> DEFINE r == [pc |-> "answer", model |-> m, map |-> ask[t].map]
                       e == [map |-> ask[t].map, at |-> ask[t].at]
            <3>1. PICK lost \in Maps!Surplus :
                      cache' = [k \in (Maps!Cached \ lost) \cup {m} |-> IF k = m THEN e ELSE cache[k]]
                BY <1>4, <2>2 DEF Maps!Insert
            <3>2. ask' = [ask EXCEPT ![t] = r]
                BY <1>4, <2>2 DEF Maps!Insert, Maps!Answer
            <3>3. Request(r) /\ TrueMap(m, ask[t].map) /\ r.model = m /\ r.map = ask[t].map
                  /\ e \in [map : Spans, at : 0..MapTime] /\ e.map = ask[t].map
                BY <2>0 DEF Request, MapInv, MapsAreTrue
            <3> HIDE DEF r, e
            <3>4. Maps!Cached' = (Maps!Cached \ lost) \cup {m}
                BY <3>1 DEF Maps!Cached
            <3>5. \A k \in Maps!Cached' :
                      /\ cache'[k] = IF k = m THEN e ELSE cache[k]
                      /\ k = m \/ k \in Maps!Cached
                BY <3>1, <3>4
            <3>6. Maps!Cached' \subseteq Models
                  /\ \A k \in Maps!Cached' : cache'[k] \in [map : Spans, at : 0..MapTime]
                BY <2>0, <3>3, <3>4, <3>5 DEF MapInv, Maps!TypeOK, Spans
            <3>7. \A u \in Threads : ask'[u] = IF u = t THEN r ELSE ask[u]
                BY <3>2 DEF MapInv, Asks
            <3>8. Asks'
                BY <3>2, <3>7 DEF MapInv, Asks
            <3>9. \A u \in Threads : Request(ask'[u])
                BY <3>3, <3>7 DEF MapInv, Maps!TypeOK, Request, Spans
            <3>10. Maps!TypeOK'
                BY <2>0, <3>6, <3>9 DEF MapInv, Maps!TypeOK, Request, Spans
            <3>11. MapsAreTrue'
                BY <2>0, <3>3, <3>5, <3>7 DEF MapInv, MapsAreTrue, TrueMap
            <3>12. Maps!CacheWithinLimit'
                BY <2>0, <2>2, <3>4, RoomForOne, MapSets DEF MapInv, Maps!CacheWithinLimit
            <3> QED
                BY <3>8, <3>10, <3>11, <3>12 DEF MapInv
        <2> QED
            BY <2>1, <2>2
    <1>5. ASSUME NEW t \in Threads, Maps!Return(t) PROVE MapInv'
        <2>1. ask' = [ask EXCEPT ![t] = Maps!Idle] /\ file' = file /\ clock' = clock /\ cache' = cache
            BY <1>5 DEF Maps!Return
        <2> QED
            BY <1>i, <2>1, RequestStep
    <1>6. CASE Maps!Tick
        BY <1>0, <1>6
        DEF Maps!Tick, MapInv, Maps!TypeOK, Asks, MapsAreTrue, TrueMap, Maps!CacheWithinLimit,
            Maps!Cached
    <1>7. CASE Maps!Restart
        <2>1. Maps!Cached' = {} /\ Asks' /\ \A t \in Threads : ask'[t] = Maps!Idle
            BY <1>7 DEF Maps!Restart, Maps!Cached, Asks
        <2>2. Maps!TypeOK'
            BY <1>7, <2>1 DEF Maps!Restart, MapInv, Maps!TypeOK, Maps!Idle
        <2>3. MapsAreTrue'
            BY <1>i, <2>1 DEF MapsAreTrue
        <2>4. Maps!CacheWithinLimit'
            BY <2>1, MapSets, FS_EmptySet DEF Maps!CacheWithinLimit, Maps!TensorAssumption
        <2> QED
            BY <2>1, <2>2, <2>3, <2>4 DEF MapInv
    <1>8. CASE UNCHANGED mapVars
        BY <1>8
        DEF mapVars, MapInv, Maps!TypeOK, Asks, MapsAreTrue, TrueMap, Maps!CacheWithinLimit,
            Maps!Cached
    <1> QED
        BY <1>1, <1>2, <1>3, <1>4, <1>5, <1>6, <1>7, <1>8 DEF Maps!Next

LEMMA MapInit == ASSUME Maps!TensorAssumption, Maps!Init PROVE MapInv
    <1>1. Maps!Cached = {} /\ Asks /\ \A t \in Threads : ask[t] = Maps!Idle
        BY DEF Maps!Init, Maps!Cached, Asks
    <1>2. Maps!TypeOK
        BY <1>1 DEF Maps!Init, Maps!TypeOK, Maps!Idle, Maps!TensorAssumption
    <1>3. MapsAreTrue
        BY <1>1 DEF MapsAreTrue, Maps!Idle
    <1>4. Maps!CacheWithinLimit
        BY <1>1, MapSets, FS_EmptySet DEF Maps!CacheWithinLimit, Maps!TensorAssumption
    <1> QED
        BY <1>1, <1>2, <1>3, <1>4 DEF MapInv

LEMMA PartsMapInv == PartsSpec => []MapInv
    <1>1. PartsInit => Maps!Init
        BY DEF PartsInit, Maps!Init
    <1>2. PartsInit => MapInv
        BY <1>1, MapInit, PartsAssumption
    <1>3. MapInv /\ [PartsNext]_partsVars => MapInv'
        BY MapNext, PartsAssumption DEF PartsNext, partsVars, mapVars
    <1> QED
        BY <1>2, <1>3, PTL DEF PartsSpec

(* Whatever tensor map is answered, by whoever built it, is the part of the *)
(* model's own shard that its header names, although parseSafeTensorsShard  *)
(* adds in 64 bits.                                                         *)
THEOREM PartsTensorsInFile == PartsSpec => []AnsweredTensorIsInFile
    <1>1. MapInv => AnsweredTensorIsInFile
        BY DEF MapInv, MapsAreTrue, TrueMap, AnsweredTensorIsInFile, Maps!AnsweredTensorIsInFile
    <1> QED
        BY <1>1, PartsMapInv, PTL

(* No well formed header is refused for its numbers.                        *)
THEOREM PartsGoodHeaders == PartsSpec => []GoodHeadersParse
    <1>1. MapInv => GoodHeadersParse
        <2> SUFFICES ASSUME MapInv, NEW m \in Models,
                            /\ file[m].len > 0 /\ file[m].len <= MaxHeader
                            /\ Prefix + file[m].len <= file[m].size
                            /\ 0 <= file[m].start /\ file[m].start <= file[m].end
                            /\ Prefix + file[m].len + file[m].end <= file[m].size
                     PROVE  Maps!Parses(file[m])
            BY DEF GoodHeadersParse, Maps!GoodHeadersParse
        <2>1. file[m] \in Widths
            BY PartsAssumption, FileWidths DEF MapInv
        <2>2. Word \in Nat \ {0} /\ Word % 2 = 0 /\ Prefix \in Nat /\ MaxHeader \in Nat
            BY PartsAssumption DEF Maps!TensorAssumption
        <2>3. file[m].len < Half
            BY <2>1, <2>2, Wraps DEF Widths
        <2>4. Maps!HeaderFits(file[m])
            BY <2>1, <2>2, <2>3, HeaderNumbers
        <2> QED
            BY <2>1, <2>2, <2>4, HeaderNumbers DEF Maps!Parses
    <1> QED
        BY <1>1, PartsMapInv, PTL

(* The tensor map cache never grows past its limit.                         *)
THEOREM PartsCacheLimit == PartsSpec => []CacheWithinLimit
    <1>1. MapInv => CacheWithinLimit
        BY DEF MapInv, CacheWithinLimit
    <1> QED
        BY <1>1, PartsMapInv, PTL

-----------------------------------------------------------------------------
(* A nonempty set of indices has a greatest one: inclusion among finite    *)
(* sets is well-founded.                                                   *)
LEMMA GreatestIndex ==
    ASSUME NEW n \in Nat, NEW S \in SUBSET (1..n), S # {}
    PROVE  \E x \in S : \A y \in S : y <= x
    <1> DEFINE Above(x) == {y \in S : y > x}  T == {Above(x) : x \in S}
               F == FiniteSubsetsOf(S)  R == StrictSubsetOrdering(S)
    <1>1. IsFiniteSet(S)
        <2>1. IsFiniteSet(1..n)
            BY FS_Interval
        <2> QED
            BY <2>1, FS_Subset
    <1>2. F = SUBSET S
        BY <1>1, FS_FiniteSubsetsOfFinite
    <1>3. T \subseteq F /\ T # {}
        <2> HIDE DEF F
        <2>1. \A x \in S : Above(x) \in SUBSET S
            OBVIOUS
        <2>2. T # {}
            OBVIOUS
        <2> QED
            BY <1>2, <2>1, <2>2
    <1>4. PICK U \in T : \A V \in T : ~(<<V, U>> \in R)
        <2> HIDE DEF T, F, R
        <2>1. IsWellFoundedOn(R, F)
            BY FS_StrictSubsetOrderingWellFounded DEF R, F
        <2> QED
            BY <1>3, <2>1, WFMin
    <1>5. PICK x \in S : U = Above(x)
        OBVIOUS
    <1>6. ASSUME NEW y \in S, ~(y <= x) PROVE FALSE
        <2>1. \A z \in S : z \in Int
            OBVIOUS
        <2>2. y > x
            BY <1>6, <2>1
        <2>3. y \in Above(x) /\ y \notin Above(y)
            BY <2>1, <2>2
        <2>4. Above(y) \subseteq Above(x)
            <3> SUFFICES ASSUME NEW z \in S, z > y PROVE z > x
                OBVIOUS
            <3> QED
                BY <2>1, <2>2
        <2>5. Above(y) \in SUBSET S /\ Above(x) \in SUBSET S /\ Above(y) \in T
            OBVIOUS
        <2> HIDE DEF Above, T, F
        <2>6. <<Above(y), Above(x)>> \in R
            BY <2>3, <2>4, <2>5 DEF StrictSubsetOrdering
        <2> HIDE DEF R
        <2> QED
            BY <1>4, <1>5, <2>5, <2>6
    <1> QED
        BY <1>6

-----------------------------------------------------------------------------
(* The lint and the verification.                                          *)

LEMMA ProfileSets ==
    /\ \A S : Profile!Cardinality(S) = Cardinality(S)
    BY Zenon DEF Profile!Cardinality, Cardinality

Indices == DOMAIN shards

(* What Download found, and what it may have left under each name.         *)
Downloaded ==
    /\ Profile!Fetchable /\ Profile!LintProfile /\ \A i \in Indices : Profile!Readable(i)
    /\ dir \in [{Profile!BlobName(i) : i \in Indices} -> Digests \cup {Profile!Mixed}]
    /\ \A n \in DOMAIN dir :
           LET sharing == {shards[i].digest : i \in {j \in Indices : Profile!BlobName(j) = n}}
           IN dir[n] \in sharing \cup (IF Profile!Cardinality(sharing) > 1 THEN {Profile!Mixed} ELSE {})

ProfileInv ==
    /\ Profile!TypeOK
    /\ shards \in Profile!UpTo(Profile!Shard, MaxShards)
    /\ layers \in Profile!UpTo(Profile!Layer, MaxLayers)
    /\ checked = "downloaded" => Downloaded

LEMMA ProfileInit == ASSUME PartsInit PROVE ProfileInv
    <1>0. MaxShards \in Nat /\ MaxLayers \in Nat
        BY PartsAssumption DEF Profile!ProfileAssumption
    <1>1. /\ shards \in Profile!UpTo(Profile!Shard, MaxShards)
          /\ layers \in Profile!UpTo(Profile!Layer, MaxLayers)
          /\ checked = "fetched" /\ dir = Profile!NoFiles
        BY DEF PartsInit, Profile!Init
    <1> QED
        BY <1>1 DEF ProfileInv, Profile!TypeOK, Profile!NoFiles

(* The checks depend on the profile and the manifest only.                 *)
LEMMA SameChecks ==
    ASSUME shards' = shards, layers' = layers
    PROVE  /\ Profile!Fetchable' <=> Profile!Fetchable
           /\ Profile!LintProfile' <=> Profile!LintProfile
           /\ Indices' = Indices
           /\ \A i : Profile!Readable(i)' <=> Profile!Readable(i)
           /\ \A i : Profile!BlobName(i)' = Profile!BlobName(i)
    <1>1. Indices' = Indices /\ Profile!Indices' = Profile!Indices /\ Profile!Indices = Indices
        BY DEF Indices, Profile!Indices
    <1>2. \A d : /\ Profile!In(shards, d)' <=> Profile!In(shards, d)
                /\ Profile!In(layers, d)' <=> Profile!In(layers, d)
        BY Zenon DEF Profile!In
    <1>3. \A d : /\ Profile!LastWith(shards, d)' = Profile!LastWith(shards, d)
                /\ Profile!LastWith(layers, d)' = Profile!LastWith(layers, d)
        BY Zenon DEF Profile!LastWith
    <1>4. Profile!Fetchable' <=> Profile!Fetchable
        BY Zenon, <1>1, <1>2 DEF Profile!Fetchable
    <1>5. Profile!LintProfile' <=> Profile!LintProfile
        <2>1. Profile!ShardsAreSound' <=> Profile!ShardsAreSound
            BY Zenon, <1>1 DEF Profile!ShardsAreSound
        <2>2. Profile!LayersMatch' <=> Profile!LayersMatch
            BY Zenon, <1>1, <1>2, <1>3 DEF Profile!LayersMatch
        <2> QED
            BY <2>1, <2>2 DEF Profile!LintProfile
    <1>6. \A i : Profile!Readable(i)' <=> Profile!Readable(i)
        BY Zenon, <1>3 DEF Profile!Readable
    <1>7. \A i : Profile!BlobName(i)' = Profile!BlobName(i)
        BY Zenon DEF Profile!BlobName
    <1> QED
        BY <1>1, <1>4, <1>5, <1>6, <1>7

LEMMA ProfileNext ==
    ASSUME Profile!ProfileAssumption, ProfileInv, [Profile!Next]_profileVars
    PROVE  ProfileInv'
    <1>1. CASE Profile!Reject \/ Profile!DownloadFails
        BY <1>1 DEF Profile!Reject, Profile!DownloadFails, ProfileInv, Profile!TypeOK
    <1>2. CASE Profile!Download
        <2>1. /\ shards' = shards /\ layers' = layers /\ checked' = "downloaded"
              /\ Profile!Fetchable /\ Profile!LintProfile /\ \A i \in Indices : Profile!Readable(i)
            BY <1>2 DEF Profile!Download, Indices, Profile!Indices
        <2>2. dir' \in [{Profile!BlobName(i) : i \in Indices} -> Digests \cup {Profile!Mixed}]
              /\ \A n \in DOMAIN dir' :
                     LET sharing == {shards[i].digest : i \in {j \in Indices : Profile!BlobName(j) = n}}
                     IN dir'[n] \in sharing \cup
                                   (IF Profile!Cardinality(sharing) > 1 THEN {Profile!Mixed} ELSE {})
            BY <1>2 DEF Profile!Download, Indices, Profile!Indices
        <2>3. Downloaded'
            BY <2>1, <2>2, SameChecks DEF Downloaded
        <2>4. \A i \in Indices : Profile!BlobName(i) \in Names
            BY
            DEF ProfileInv, Profile!UpTo, Profile!Shard, Profile!BlobName, Indices,
                Profile!ProfileAssumption
        <2>5. Profile!TypeOK'
            BY <2>1, <2>2, <2>4 DEF Profile!TypeOK
        <2> QED
            BY <2>1, <2>3, <2>5 DEF ProfileInv
    <1>3. CASE Profile!Settled \/ UNCHANGED profileVars
        <2>1. shards' = shards /\ layers' = layers /\ checked' = checked /\ dir' = dir
            BY <1>3 DEF Profile!Settled, Profile!vars, profileVars
        <2>2. ASSUME Downloaded PROVE Downloaded'
            <3>1. /\ Profile!Fetchable /\ Profile!LintProfile /\ \A i \in Indices : Profile!Readable(i)
                BY <2>2 DEF Downloaded
            <3>2. /\ dir' \in [{Profile!BlobName(i) : i \in Indices} -> Digests \cup {Profile!Mixed}]
                  /\ \A n \in DOMAIN dir' :
                         LET sharing == {shards[i].digest : i \in {j \in Indices : Profile!BlobName(j) = n}}
                         IN dir'[n] \in sharing \cup
                                       (IF Profile!Cardinality(sharing) > 1 THEN {Profile!Mixed} ELSE {})
                BY <2>1, <2>2 DEF Downloaded
            <3> QED
                BY <2>1, <3>1, <3>2, SameChecks DEF Downloaded
        <2> QED
            BY <2>1, <2>2 DEF ProfileInv, Profile!TypeOK
    <1> QED
        BY <1>1, <1>2, <1>3 DEF Profile!Next

(* A profile is a sequence of shards.                                      *)
LEMMA ShardsAreListed ==
    ASSUME Profile!ProfileAssumption, ProfileInv
    PROVE  /\ Len(shards) \in Nat /\ Indices = 1..Len(shards)
           /\ \A i \in Indices : shards[i] \in Profile!Shard
           /\ \E n \in Nat : DOMAIN layers = 1..n
           /\ \A i \in DOMAIN layers : layers[i] \in Profile!Layer
           /\ IsFiniteSet(Indices) /\ Cardinality(Indices) = Len(shards)
    <1>0. ASSUME NEW n \in Nat PROVE IsFiniteSet(1..n) /\ Cardinality(1..n) = n
        <2>1. IsFiniteSet(1..n) /\ Cardinality(1..n) = IF 1 > n THEN 0 ELSE n - 1 + 1
            BY FS_Interval
        <2> QED
            BY <2>1
    <1>1. PICK m \in 0..MaxShards : shards \in [1..m -> Profile!Shard]
        BY DEF ProfileInv, Profile!UpTo
    <1>2. PICK n \in 0..MaxLayers : layers \in [1..n -> Profile!Layer]
        BY DEF ProfileInv, Profile!UpTo
    <1>3. m \in Nat /\ n \in Nat
        BY DEF Profile!ProfileAssumption
    <1>4. shards \in Seq(Profile!Shard)
        BY <1>1, <1>3, SeqDef
    <1>5. Len(shards) \in Nat /\ DOMAIN shards = 1..Len(shards)
        BY <1>4, LenProperties
    <1>6. IsFiniteSet(Indices) /\ Cardinality(Indices) = Len(shards)
        <2> DEFINE k == Len(shards)
        <2>1. IsFiniteSet(1..k) /\ Cardinality(1..k) = k
            BY <1>0, <1>5
        <2> QED
            BY <1>5, <2>1, Zenon DEF Indices
    <1> QED
        BY <1>1, <1>2, <1>3, <1>5, <1>6 DEF Indices

LEMMA VerifiedExactly ==
    ASSUME Profile!ProfileAssumption, ProfileInv
    PROVE  Profile!VerifiedIsExact
    <1> SUFFICES ASSUME checked = "downloaded", Profile!Verifies
                 PROVE  /\ Profile!WellNamed
                        /\ DOMAIN dir = {shards[i].name : i \in Indices}
                        /\ \A n \in DOMAIN dir : \E i \in Indices : n = shards[i].name /\ dir[n] = shards[i].digest
        BY DEF Profile!VerifiedIsExact, Indices, Profile!Indices
    <1> DEFINE name == [i \in Indices |-> shards[i].name]
               blob == [i \in Indices |-> Profile!BlobName(i)]
               D == DOMAIN dir
    <1>1. /\ Indices = 1..Len(shards) /\ Len(shards) \in Nat
          /\ \A i \in Indices : shards[i] \in Profile!Shard
        BY ShardsAreListed
    <1>2. IsFiniteSet(Indices) /\ Cardinality(Indices) = Len(shards)
        BY ShardsAreListed
    <1>3. D = {Profile!BlobName(i) : i \in Indices}
        BY DEF ProfileInv, Downloaded
    <1>4. /\ Cardinality(D) = Cardinality(Indices)
          /\ \A i \in Indices : shards[i].name \in D /\ dir[shards[i].name] = shards[i].digest
        BY <1>2, ProfileSets DEF Profile!Verifies, Indices, Profile!Indices
    <1>5. blob \in Surjection(Indices, D)
        BY <1>3 DEF Surjection
    <1>6. blob \in Injection(Indices, D) /\ IsFiniteSet(D)
        <2> HIDE DEF blob, D
        <2> QED
            BY <1>2, <1>4, <1>5, FS_Surjection
    <1>7. \A i, j \in Indices : shards[i].name = shards[j].name => i = j
        <2>1. \A i, j \in Indices : blob[i] = blob[j] => i = j
            BY <1>6 DEF Injection, IsInjective
        <2> QED
            BY <2>1 DEF Profile!BlobName
    <1>8. name \in Injection(Indices, D)
        BY <1>4, <1>7 DEF Injection, IsInjective
    <1>9. name \in Surjection(Indices, D)
        <2> HIDE DEF name, D
        <2> QED
            BY <1>2, <1>4, <1>6, <1>8, FS_Injection
    <1>10. D = {shards[i].name : i \in Indices}
        BY <1>4, <1>9 DEF Surjection
    <1>11. \A i \in Indices : Trimmed[shards[i].name] = shards[i].name
        <2> SUFFICES ASSUME NEW i \in Indices PROVE Trimmed[shards[i].name] = shards[i].name
            OBVIOUS
        <2>1. PICK j \in Indices : shards[i].name = Trimmed[shards[j].name]
            BY <1>3, <1>4 DEF Profile!BlobName
        <2>2. shards[j].name \in Names
            BY <1>1 DEF Profile!Shard
        <2> QED
            BY <2>1, <2>2 DEF Profile!ProfileAssumption
    <1> QED
        BY <1>4, <1>7, <1>10, <1>11 DEF Profile!WellNamed, Indices, Profile!Indices

(* Of several entries with one digest LastWith takes one of them.          *)
LEMMA LastHasDigest ==
    ASSUME NEW n \in Nat, NEW list, DOMAIN list = 1..n, NEW d, Profile!In(list, d)
    PROVE  \E k \in DOMAIN list : Profile!LastWith(list, d) = list[k] /\ list[k].digest = d
    <1> DEFINE S == {k \in 1..n : list[k].digest = d}
               Last(k) == list[k].digest = d /\ \A j \in DOMAIN list : list[j].digest = d => j <= k
    <1>1. S \in SUBSET (1..n) /\ S # {}
        BY DEF Profile!In
    <1>2. PICK k \in S : \A j \in S : j <= k
        <2> HIDE DEF S
        <2> QED
            BY <1>1, GreatestIndex
    <1>3. k \in DOMAIN list /\ Last(k)
        BY <1>2
    <1>4. PICK l \in DOMAIN list : l = (CHOOSE i \in DOMAIN list : Last(i)) /\ Last(l)
        <2> HIDE DEF Last
        <2> QED
            BY <1>3
    <1> QED
        BY <1>4 DEF Profile!LastWith

LEMMA LintedVerifies ==
    ASSUME Profile!ProfileAssumption, ProfileInv
    PROVE  Profile!LintedModelVerifies
    <1> SUFFICES ASSUME checked = "downloaded", Profile!WellNamed, Profile!WellTyped
                 PROVE  Profile!Verifies
        BY DEF Profile!LintedModelVerifies
    <1>0. /\ Indices = 1..Len(shards) /\ Len(shards) \in Nat
          /\ \A i \in Indices : shards[i] \in Profile!Shard
          /\ \E n \in Nat : DOMAIN layers = 1..n
          /\ Downloaded
        BY ShardsAreListed DEF ProfileInv
    <1>1. \A i \in Indices : Profile!BlobName(i) = shards[i].name
        BY DEF Profile!WellNamed, Profile!BlobName, Indices, Profile!Indices
    <1>2. \A i, j \in Indices : shards[i].name = shards[j].name => i = j
        BY DEF Profile!WellNamed, Indices, Profile!Indices
    <1>3. DOMAIN dir = {shards[i].name : i \in Indices}
        BY <1>0, <1>1 DEF Downloaded
    <1>4. ASSUME NEW i \in Indices
          PROVE  dir[shards[i].name] = shards[i].digest
        <2> DEFINE n == shards[i].name
                   sharing == {shards[j].digest : j \in {k \in Indices : Profile!BlobName(k) = n}}
        <2>1. sharing = {shards[i].digest}
            BY <1>1, <1>2
        <2>2. ~(Profile!Cardinality(sharing) > 1)
            <3> DEFINE d == shards[i].digest
            <3>1. Cardinality({d}) = 1
                <4> HIDE DEF d
                <4> QED
                    BY FS_Singleton
            <3>2. Profile!Cardinality(sharing) = 1
                BY <2>1, <3>1, ProfileSets, Zenon
            <3> QED
                BY <3>2
        <2>3. n \in DOMAIN dir
            BY <1>3
        <2>4. dir[n] \in sharing \cup (IF Profile!Cardinality(sharing) > 1 THEN {Profile!Mixed} ELSE {})
            BY <1>0, <2>3 DEF Downloaded
        <2> QED
            BY <2>1, <2>2, <2>4
    <1>5. ASSUME NEW i \in Indices
          PROVE  SizeOf[shards[i].digest] = shards[i].size
        <2> DEFINE d == shards[i].digest
        <2>1. Profile!In(layers, d) /\ Profile!LastWith(layers, d).size = SizeOf[d]
            BY <1>0 DEF Downloaded, Profile!Fetchable, Profile!Readable, Indices, Profile!Indices
        <2>2. PICK k \in DOMAIN layers : Profile!LastWith(layers, d) = layers[k] /\ layers[k].digest = d
            <3> HIDE DEF d
            <3> QED
                BY <1>0, <2>1, LastHasDigest
        <2>3. layers # <<>> /\ layers[k].isShard
            BY <2>2 DEF Profile!WellTyped
        <2>4. Profile!In(shards, d) /\ Profile!LastWith(shards, d).size = layers[k].size
            BY <1>0, <2>2, <2>3 DEF Downloaded, Profile!LintProfile, Profile!LayersMatch
        <2>5. PICK j \in Indices : Profile!LastWith(shards, d) = shards[j] /\ shards[j].digest = d
            <3> HIDE DEF d
            <3>1. DOMAIN shards = 1..Len(shards)
                BY <1>0 DEF Indices
            <3> QED
                BY <1>0, <2>4, <3>1, LastHasDigest DEF Indices
        <2>6. shards[j].size = shards[i].size
            BY <2>5 DEF Profile!WellTyped, Indices, Profile!Indices
        <2> QED
            BY <2>1, <2>2, <2>4, <2>5, <2>6
    <1>6. Cardinality(DOMAIN dir) = Len(shards)
        <2> DEFINE name == [i \in Indices |-> shards[i].name]  D == DOMAIN dir
        <2>1. name \in Injection(Indices, D)
            BY <1>2, <1>3 DEF Injection, IsInjective
        <2>2. name \in Surjection(Indices, D)
            BY <1>3 DEF Surjection
        <2>3. IsFiniteSet(Indices) /\ Cardinality(Indices) = Len(shards)
            BY ShardsAreListed
        <2> HIDE DEF name, D
        <2>4. IsFiniteSet(D) /\ (Cardinality(D) = Cardinality(Indices) <=> name \in Injection(Indices, D))
            BY <2>2, <2>3, FS_Surjection
        <2> QED
            BY <2>1, <2>3, <2>4 DEF D
    <1> QED
        BY <1>3, <1>4, <1>5, <1>6, ProfileSets DEF Profile!Verifies, Indices, Profile!Indices

LEMMA PartsProfileInv == PartsSpec => []ProfileInv
    <1>1. ProfileInv /\ [PartsNext]_partsVars => ProfileInv'
        BY ProfileNext, PartsAssumption DEF PartsNext, partsVars, profileVars
    <1> QED
        BY <1>1, ProfileInit, PTL DEF PartsSpec

(* What LintProfile accepts and Ensure downloads, verifyPublishedPath       *)
(* accepts, if the profile is well named and well typed.                    *)
THEOREM PartsLintedVerifies == PartsSpec => []LintedModelVerifies
    <1>1. ProfileInv => LintedModelVerifies
        BY LintedVerifies, PartsAssumption DEF LintedModelVerifies
    <1> QED
        BY <1>1, PartsProfileInv, PTL

(* What verifyPublishedPath accepts has every byte of every shard.          *)
THEOREM PartsVerifiedExactly == PartsSpec => []VerifiedIsExact
    <1>1. ProfileInv => VerifiedIsExact
        BY VerifiedExactly, PartsAssumption DEF VerifiedIsExact
    <1> QED
        BY <1>1, PartsProfileInv, PTL

-----------------------------------------------------------------------------
(* The transfer of a shard into device memory.                             *)

DirectPlaces == {"handle", "buf", "read", "tail", "tailBuf", "tailRead"}

HostPlaces == {"fallBack", "malloc", "copy"}

(* The descriptor the code would close is the only one it has, and device  *)
(* memory is there from Alloc on.                                          *)
OneDescriptor ==
    /\ pc = "idle" => held = {}
    /\ pc = "open" => held = {"ctx"}
    /\ pc # "return" => held \cap Transfer!Descriptors \subseteq {fd}
    /\ pc \in DirectPlaces \cup HostPlaces \cup {"clock"} => "dptr" \in held
    /\ pc = "read" => "buf" \in held
    /\ rc.ok => pc \in {"cleanup", "return"}
    /\ rc.ok /\ pc = "cleanup" => "dptr" \in held
    /\ pc = "return" => held = IF rc.ok THEN {"dptr"} ELSE {}

(* The path is told by the place, and a strict caller never leaves it.     *)
OnePath ==
    /\ job.strict => direct
    /\ pc \in DirectPlaces => direct
    /\ pc \in HostPlaces => ~direct
    /\ pc \in {"idle", "open", "alloc", "handle", "buf", "malloc"} => off = 0
    /\ rc.ok => rc.total = off /\ rc.direct = direct

(* One mover moved all the bytes before off: after a fall-back the host    *)
(* starts again, and overwrites what cuFile moved.                         *)
OneMover ==
    pc # "fallBack" /\ (pc \in {"cleanup", "return"} => rc.ok) =>
        \A i \in 0..off - 1 : by[i] = IF direct THEN "cuFile" ELSE "host"

Aligned ==
    /\ pc = "buf" => Transfer!DirectSize > 0
    /\ pc = "read" => off < Transfer!DirectSize /\ off % Block = 0
    /\ pc \in {"tail", "tailBuf", "tailRead"} => off % Block = 0 \/ off = job.size

TransferInv == Transfer!TypeOK /\ OneDescriptor /\ OnePath /\ OneMover /\ Aligned

LEMMA MinOfTwo ==
    ASSUME NEW a \in Int, NEW b \in Int
    PROVE  Transfer!Min({a, b}) \in Int /\ Transfer!Min({a, b}) <= a /\ Transfer!Min({a, b}) <= b
    <1> DEFINE Least(x) == \A y \in {a, b} : x <= y
    <1>1. \E x \in {a, b} : Least(x)
        OBVIOUS
    <1>2. PICK m \in {a, b} : m = (CHOOSE x \in {a, b} : Least(x)) /\ Least(m)
        <2> HIDE DEF Least
        <2> QED
            BY <1>1
    <1> QED
        BY <1>2 DEF Transfer!Min

(* Whole blocks follow whole blocks.                                       *)
LEMMA Blocks ==
    ASSUME Transfer!TransferAssumption
    PROVE  /\ \A n \in Nat : /\ Transfer!RoundDown(n) \in Nat /\ Transfer!RoundDown(n) <= n
                             /\ Transfer!RoundDown(n) % Block = 0
           /\ \A m, n \in Nat : m % Block = 0 /\ n % Block = 0 => (m + n) % Block = 0
    <1>0. Block \in Nat \ {0}
        BY DEF Transfer!TransferAssumption
    <1>1. ASSUME NEW n \in Nat
          PROVE  /\ Transfer!RoundDown(n) \in Nat /\ Transfer!RoundDown(n) <= n
                 /\ Transfer!RoundDown(n) % Block = 0
        <2>1. n \div Block \in Int /\ n \div Block >= 0
            BY <1>0
        <2>2. (n \div Block) * Block <= n
            BY <1>0
        <2>3. \A q \in Nat : q * Block \in Nat /\ (q * Block) % Block = 0
            BY <1>0
        <2> QED
            BY <2>1, <2>2, <2>3 DEF Transfer!RoundDown
    <1>2. ASSUME NEW m \in Nat, NEW n \in Nat, m % Block = 0, n % Block = 0
          PROVE  (m + n) % Block = 0
        <2>1. PICK q \in Nat : m = q * Block
            BY <1>0, <1>2
        <2>2. PICK r \in Nat : n = r * Block
            BY <1>0, <1>2
        <2>3. q + r \in Nat /\ m + n = (q + r) * Block
            BY <1>0, <2>1, <2>2
        <2>4. ((q + r) * Block) % Block = 0
            BY <1>0, <2>3
        <2> QED
            BY <2>3, <2>4
    <1> QED
        BY <1>1, <1>2

(* What the machine goes on with: chunks of whole blocks, a shard in bytes.*)
LEMMA JobNumbers ==
    ASSUME Transfer!TransferAssumption, job \in Transfer!Jobs
    PROVE  /\ job.size \in Nat /\ job.chunk \in Nat /\ job.strict \in BOOLEAN
           /\ Block \in Nat \ {0}
           /\ Transfer!DirectSize \in Nat /\ Transfer!DirectSize <= job.size
           /\ Transfer!DirectSize % Block = 0
    <1>1. \A n \in Nat : Transfer!RoundDown(n) \in Nat /\ Transfer!RoundDown(n) <= n
                        /\ Transfer!RoundDown(n) % Block = 0
        BY Blocks
    <1>2. Block \in Nat \ {0} /\ Sizes \subseteq Nat /\ Chunks \subseteq Nat
        BY DEF Transfer!TransferAssumption
    <1>3. \A n \in Chunks : Transfer!ChunkOf(n) \in Nat
        BY <1>1, <1>2 DEF Transfer!ChunkOf
    <1>4. job.size \in Nat /\ job.chunk \in Nat /\ job.strict \in BOOLEAN
        BY <1>2, <1>3 DEF Transfer!Jobs
    <1> QED
        BY <1>1, <1>2, <1>4 DEF Transfer!DirectSize

LEMMA TransferInit ==
    ASSUME Transfer!TransferAssumption, Transfer!Init
    PROVE  TransferInv
    <1>1. job.size \in Nat
        BY JobNumbers DEF Transfer!Init
    <1> QED
        BY <1>1
        DEF Transfer!Init, TransferInv, Transfer!TypeOK, Transfer!Places, Transfer!Resources,
            Transfer!Descriptors,
            Transfer!Untouched, Transfer!Failed, OneDescriptor, OnePath, OneMover, Aligned,
            DirectPlaces, HostPlaces

(* The bytes of a transfer follow the bytes before.                        *)
LEMMA MovedBytes ==
    ASSUME Transfer!TypeOK, job.size \in Nat, NEW n \in Nat, off + n <= job.size,
           NEW who \in {"cuFile", "host"}, \A i \in 0..off - 1 : by[i] = who,
           Transfer!Moved(n, who)
    PROVE  /\ off' = off + n /\ off' \in 0..job.size
           /\ by' \in [0..job.size - 1 -> {"nobody", "cuFile", "host"}]
           /\ \A i \in 0..off' - 1 : by'[i] = who
    <1>1. /\ off \in 0..job.size /\ by \in [0..job.size - 1 -> {"nobody", "cuFile", "host"}]
          /\ by' = [i \in 0..job.size - 1 |-> IF i \in off..off + n - 1 THEN who ELSE by[i]]
          /\ off' = off + n
        BY DEF Transfer!TypeOK, Transfer!Moved
    <1>2. off' \in 0..job.size /\ by' \in [0..job.size - 1 -> {"nobody", "cuFile", "host"}]
        BY <1>1
    <1>3. ASSUME NEW i \in 0..off' - 1 PROVE by'[i] = who
        <2>1. i \in 0..job.size - 1 /\ (i \in 0..off - 1 \/ i \in off..off + n - 1)
            BY <1>1
        <2> QED
            BY <1>1, <2>1
    <1> QED
        BY <1>1, <1>2, <1>3

(* A failure anywhere leaves only what Cleanup gives back.                 *)
LEMMA FailKeeps ==
    ASSUME TransferInv, job.size \in Nat, pc # "return", Transfer!Fail, held' = held
    PROVE  TransferInv'
    <1>1. Transfer!TypeOK'
        BY
        DEF Transfer!Fail, Transfer!Goto, Transfer!Failed, TransferInv, Transfer!TypeOK,
            Transfer!Places
    <1>2. OneDescriptor' /\ OnePath' /\ OneMover' /\ Aligned'
        BY
        DEF Transfer!Fail, Transfer!Goto, Transfer!Failed, TransferInv, OneDescriptor, OnePath,
            OneMover,
               Aligned, DirectPlaces, HostPlaces
    <1> QED
        BY <1>1, <1>2 DEF TransferInv

(* So does a fall-back.                                                    *)
LEMMA TroubleKeeps ==
    ASSUME TransferInv, job.size \in Nat, pc \in DirectPlaces,
           NEW loose \in SUBSET {"tail", "tailBuf"}, Transfer!Trouble(loose)
    PROVE  TransferInv'
    <1>1. CASE job.strict /\ Transfer!Fail /\ UNCHANGED held
        BY <1>1, FailKeeps DEF DirectPlaces
    <1>2. CASE /\ ~job.strict
               /\ pc' = "fallBack" /\ direct' = FALSE /\ held' = held \ loose
               /\ UNCHANGED <<job, fd, off, by, rc>>
        <2>1. Transfer!TypeOK'
            BY <1>2 DEF TransferInv, Transfer!TypeOK, Transfer!Places
        <2>2. OneDescriptor'
            BY <1>2 DEF TransferInv, OneDescriptor, DirectPlaces, HostPlaces, Transfer!Descriptors
        <2>3. OnePath' /\ OneMover' /\ Aligned'
            BY <1>2
            DEF TransferInv, OneDescriptor, OnePath, OneMover, Aligned, DirectPlaces, HostPlaces
        <2> QED
            BY <2>1, <2>2, <2>3 DEF TransferInv
    <1> QED
        BY <1>1, <1>2 DEF Transfer!Trouble, Transfer!Goto

(* A resource is taken; what stays is checked place by place.              *)
LEMMA TakeKeeps ==
    ASSUME TransferInv, NEW resource \in Transfer!Resources \ Transfer!Descriptors, NEW next \in Transfer!Places,
           pc # "return", Transfer!Take(resource, next),
           next \notin {"idle", "return", "cleanup", "malloc", "fallBack"}, pc \notin {"fallBack", "cleanup"},
           next \in DirectPlaces \cup HostPlaces \cup {"clock"} => "dptr" \in held \cup {resource},
           next = "open" => held \cup {resource} = {"ctx"},
           next = "read" => "buf" \in held \cup {resource},
           next \in DirectPlaces => direct,
           next \in HostPlaces => ~direct,
           next \in {"idle", "open", "alloc", "handle", "buf", "malloc"} => off = 0,
           next = "buf" => Transfer!DirectSize > 0,
           next = "read" => off < Transfer!DirectSize /\ off % Block = 0,
           next \in {"tail", "tailBuf", "tailRead"} => off % Block = 0 \/ off = job.size
    PROVE  TransferInv'
    <1>1. /\ held' = held \cup {resource} /\ pc' = next
          /\ UNCHANGED <<job, direct, fd, off, by, rc>>
        BY DEF Transfer!Take, Transfer!Goto
    <1>2. Transfer!TypeOK'
        BY <1>1 DEF TransferInv, Transfer!TypeOK
    <1>3. OneDescriptor'
        <2>1. held' \cap Transfer!Descriptors = held \cap Transfer!Descriptors
            BY <1>1
        <2>2. held \cap Transfer!Descriptors \subseteq {fd} /\ ~rc.ok
            BY DEF TransferInv, OneDescriptor
        <2> QED
            BY <1>1, <2>1, <2>2 DEF OneDescriptor
    <1>4. OnePath' /\ OneMover' /\ Aligned'
        <2>1. ~rc.ok /\ Transfer!DirectSize' = Transfer!DirectSize
            BY <1>1 DEF TransferInv, OneDescriptor, Transfer!DirectSize, Transfer!RoundDown
        <2>2. OnePath'
            BY <1>1, <2>1 DEF TransferInv, OnePath
        <2>3. OneMover'
            BY <1>1 DEF TransferInv, OneMover
        <2>4. Aligned'
            BY <1>1, <2>1 DEF Aligned
        <2> QED
            BY <2>2, <2>3, <2>4
    <1> QED
        BY <1>2, <1>3, <1>4 DEF TransferInv

LEMMA ActivateKeeps == ASSUME TransferInv, Transfer!Activate PROVE TransferInv'
    <1>1. pc = "idle" /\ ~rc.ok /\ held = {} /\ off = 0
        BY DEF Transfer!Activate, TransferInv, OneDescriptor, OnePath
    <1>2. CASE Transfer!Take("ctx", "open")
        BY <1>1, <1>2, TakeKeeps
        DEF TransferInv, OnePath, Transfer!Resources, Transfer!Descriptors, Transfer!Places,
            DirectPlaces, HostPlaces
    <1>3. CASE pc' = "return" /\ UNCHANGED <<job, direct, fd, held, off, by, rc>>
        BY <1>1, <1>3
        DEF TransferInv, Transfer!TypeOK, Transfer!Places, OneDescriptor, OnePath, OneMover,
            Aligned, DirectPlaces, HostPlaces
    <1> QED
        BY <1>2, <1>3 DEF Transfer!Activate, Transfer!Goto

LEMMA OpenKeeps == ASSUME TransferInv, job.size \in Nat, Transfer!Open PROVE TransferInv'
    <1>1. CASE Transfer!Fail /\ UNCHANGED held
        BY <1>1, FailKeeps DEF Transfer!Open
    <1>2. CASE \E d \in BOOLEAN :
                   /\ job.strict => d
                   /\ direct' = d /\ fd' = (IF d THEN "fdDirect" ELSE "fdPlain")
                   /\ held' = held \cup {fd'}
                   /\ pc' = "alloc"
                   /\ UNCHANGED <<job, off, by, rc>>
        <2>1. PICK d \in BOOLEAN :
                   /\ job.strict => d
                   /\ direct' = d /\ fd' = (IF d THEN "fdDirect" ELSE "fdPlain")
                   /\ held' = held \cup {fd'}
                   /\ pc' = "alloc"
                   /\ UNCHANGED <<job, off, by, rc>>
            BY <1>2
        <2>2. pc = "open" /\ held = {"ctx"} /\ off = 0 /\ ~rc.ok
            BY DEF Transfer!Open, TransferInv, OneDescriptor, OnePath
        <2>3. Transfer!TypeOK'
            BY <2>1, <2>2
            DEF TransferInv, Transfer!TypeOK, Transfer!Places, Transfer!Resources,
                Transfer!Descriptors
        <2>4. OneDescriptor'
            BY <2>1, <2>2 DEF OneDescriptor, DirectPlaces, HostPlaces, Transfer!Descriptors
        <2>5. OnePath' /\ OneMover' /\ Aligned'
            BY <2>1, <2>2 DEF TransferInv, OnePath, OneMover, Aligned, DirectPlaces, HostPlaces
        <2> QED
            BY <2>3, <2>4, <2>5 DEF TransferInv
    <1> QED
        BY <1>1, <1>2 DEF Transfer!Open, Transfer!Goto

LEMMA AllocKeeps == ASSUME TransferInv, job.size \in Nat, Transfer!Alloc PROVE TransferInv'
    <1>1. CASE Transfer!Fail /\ UNCHANGED held
        BY <1>1, FailKeeps DEF Transfer!Alloc
    <1>2. CASE Transfer!Take("dptr", IF direct THEN "handle" ELSE "malloc")
        <2>1. pc = "alloc" /\ off = 0 /\ ~rc.ok /\ direct \in BOOLEAN /\ (~direct => ~job.strict)
            BY DEF Transfer!Alloc, TransferInv, Transfer!TypeOK, OneDescriptor, OnePath
        <2>2. /\ held' = held \cup {"dptr"} /\ pc' = (IF direct THEN "handle" ELSE "malloc")
              /\ UNCHANGED <<job, direct, fd, off, by, rc>>
            BY <1>2 DEF Transfer!Take, Transfer!Goto
        <2>3. Transfer!TypeOK'
            BY <2>1, <2>2 DEF TransferInv, Transfer!TypeOK, Transfer!Places, Transfer!Resources
        <2>4. held' \cap Transfer!Descriptors = held \cap Transfer!Descriptors
            BY <2>2 DEF Transfer!Descriptors
        <2>5. OneDescriptor' /\ OnePath' /\ OneMover' /\ Aligned'
            BY <2>1, <2>2, <2>4
            DEF TransferInv, OneDescriptor, OnePath, OneMover, Aligned, DirectPlaces, HostPlaces
        <2> QED
            BY <2>3, <2>5 DEF TransferInv
    <1> QED
        BY <1>1, <1>2 DEF Transfer!Alloc

LEMMA RegisterHandleKeeps ==
    ASSUME TransferInv, Transfer!TransferAssumption, Transfer!RegisterHandle
    PROVE  TransferInv'
    <1>0. /\ pc = "handle" /\ off = 0 /\ direct /\ "dptr" \in held
          /\ job.size \in Nat /\ Transfer!DirectSize \in Nat /\ 0 % Block = 0
        BY JobNumbers
        DEF Transfer!RegisterHandle, TransferInv, Transfer!TypeOK, OneDescriptor, OnePath,
            DirectPlaces
    <1>1. CASE Transfer!Trouble({})
        BY <1>0, <1>1, TroubleKeeps DEF DirectPlaces
    <1>2. CASE Transfer!Take("handle", IF Transfer!DirectSize > 0 THEN "buf" ELSE "tail")
        BY <1>0, <1>2, TakeKeeps
        DEF Transfer!Resources, Transfer!Descriptors, Transfer!Places, DirectPlaces, HostPlaces
    <1> QED
        BY <1>1, <1>2 DEF Transfer!RegisterHandle

LEMMA RegisterBufKeeps ==
    ASSUME TransferInv, Transfer!TransferAssumption, Transfer!RegisterBuf
    PROVE  TransferInv'
    <1>0. /\ pc = "buf" /\ off = 0 /\ direct /\ "dptr" \in held
          /\ job.size \in Nat /\ Transfer!DirectSize > 0 /\ 0 % Block = 0
        BY JobNumbers
        DEF Transfer!RegisterBuf, TransferInv, Transfer!TypeOK, OneDescriptor, OnePath, Aligned,
            DirectPlaces
    <1>1. CASE Transfer!Trouble({})
        BY <1>0, <1>1, TroubleKeeps DEF DirectPlaces
    <1>2. CASE Transfer!Take("buf", "read")
        BY <1>0, <1>2, TakeKeeps
        DEF Transfer!Resources, Transfer!Descriptors, Transfer!Places, DirectPlaces, HostPlaces
    <1> QED
        BY <1>1, <1>2 DEF Transfer!RegisterBuf

LEMMA ReadDirectKeeps ==
    ASSUME TransferInv, Transfer!TransferAssumption, Transfer!ReadDirect
    PROVE  TransferInv'
    <1>0. /\ pc = "read" /\ direct /\ direct = TRUE /\ "dptr" \in held /\ "buf" \in held /\ ~rc.ok
          /\ off \in 0..job.size /\ off < Transfer!DirectSize /\ off % Block = 0
          /\ \A i \in 0..off - 1 : by[i] = "cuFile"
        BY
        DEF Transfer!ReadDirect, TransferInv, Transfer!TypeOK, OneDescriptor, OnePath, OneMover,
            Aligned, DirectPlaces
    <1>1. /\ job.size \in Nat /\ job.chunk \in Nat /\ Block \in Nat \ {0}
          /\ Transfer!DirectSize \in Nat /\ Transfer!DirectSize <= job.size /\ Transfer!DirectSize % Block = 0
        BY JobNumbers DEF TransferInv, Transfer!TypeOK
    <1>2. CASE Transfer!Trouble({})
        BY <1>0, <1>1, <1>2, TroubleKeeps DEF DirectPlaces
    <1>3. CASE pc' = "tail" /\ UNCHANGED <<job, direct, fd, held, off, by, rc>>
        <2>1. Transfer!TypeOK'
            BY <1>3 DEF TransferInv, Transfer!TypeOK, Transfer!Places
        <2>2. OneDescriptor' /\ OnePath' /\ OneMover' /\ Aligned'
            BY <1>0, <1>3
            DEF TransferInv, OneDescriptor, OnePath, OneMover, Aligned, DirectPlaces, HostPlaces
        <2> QED
            BY <2>1, <2>2 DEF TransferInv
    <1>4. ASSUME NEW n \in 1..Transfer!Min({job.chunk, Transfer!DirectSize - off}),
                 n % Block # 0 /\ off + n < Transfer!DirectSize => Transfer!Trouble({}),
                 ~(n % Block # 0 /\ off + n < Transfer!DirectSize) =>
                     /\ Transfer!Moved(n, "cuFile")
                     /\ pc' = (IF off + n < Transfer!DirectSize THEN "read" ELSE "tail")
                     /\ UNCHANGED <<job, direct, fd, held, rc>>
          PROVE  TransferInv'
        <2>1. CASE n % Block # 0 /\ off + n < Transfer!DirectSize
            BY <1>2, <1>4, <2>1
        <2>2. CASE ~(n % Block # 0 /\ off + n < Transfer!DirectSize)
            <3>1. n \in Nat /\ off + n <= Transfer!DirectSize /\ off + n <= job.size
                <4> DEFINE rest == Transfer!DirectSize - off
                <4>1. off \in Int /\ rest \in Int /\ job.chunk \in Int
                    BY <1>0, <1>1
                <4>2. Transfer!Min({job.chunk, rest}) \in Int /\ Transfer!Min({job.chunk, rest}) <= rest
                    <5> HIDE DEF rest
                    <5> QED
                        BY <4>1, MinOfTwo
                <4> QED
                    BY <1>1, <4>1, <4>2
            <3>2. off + n < Transfer!DirectSize \/ off + n = Transfer!DirectSize
                BY <1>0, <1>1, <3>1
            <3>3. (off + n) % Block = 0
                <4>1. CASE off + n = Transfer!DirectSize
                    BY <1>1, <4>1
                <4>2. CASE n % Block = 0
                    <5>1. off \in Nat
                        BY <1>0, <1>1
                    <5> QED
                        BY <1>0, <3>1, <4>2, <5>1, Blocks
                <4> QED
                    BY <2>2, <3>2, <4>1, <4>2
            <3>4. /\ off' = off + n /\ off' \in 0..job.size
                  /\ by' \in [0..job.size - 1 -> {"nobody", "cuFile", "host"}]
                  /\ \A i \in 0..off' - 1 : by'[i] = "cuFile"
                BY <1>0, <1>1, <1>4, <2>2, <3>1, MovedBytes DEF TransferInv
            <3>5. /\ pc' = (IF off + n < Transfer!DirectSize THEN "read" ELSE "tail")
                  /\ UNCHANGED <<job, direct, fd, held, rc>> /\ Transfer!DirectSize' = Transfer!DirectSize
                BY <1>4, <2>2 DEF Transfer!DirectSize, Transfer!RoundDown
            <3>6. Transfer!TypeOK'
                BY <3>4, <3>5 DEF TransferInv, Transfer!TypeOK, Transfer!Places
            <3>7. OneDescriptor' /\ OnePath'
                BY <1>0, <3>5 DEF TransferInv, OneDescriptor, OnePath, DirectPlaces, HostPlaces
            <3>8. OneMover' /\ Aligned'
                BY <1>0, <3>3, <3>4, <3>5 DEF OneMover, Aligned
            <3> QED
                BY <3>6, <3>7, <3>8 DEF TransferInv
        <2> QED
            BY <2>1, <2>2
    <1> QED
        BY <1>2, <1>3, <1>4 DEF Transfer!ReadDirect, Transfer!Goto

LEMMA TailAllocKeeps ==
    ASSUME TransferInv, job.size \in Nat, Transfer!TailAlloc
    PROVE  TransferInv'
    <1>0. pc = "tail" /\ direct /\ "dptr" \in held /\ ~rc.ok /\ (off % Block = 0 \/ off = job.size)
        BY DEF Transfer!TailAlloc, TransferInv, OneDescriptor, OnePath, Aligned, DirectPlaces
    <1>1. CASE Transfer!Trouble({})
        BY <1>0, <1>1, TroubleKeeps DEF DirectPlaces
    <1>2. CASE Transfer!Take("tail", "tailBuf")
        BY <1>0, <1>2, TakeKeeps
        DEF Transfer!Resources, Transfer!Descriptors, Transfer!Places, DirectPlaces, HostPlaces
    <1>3. CASE pc' = "clock" /\ UNCHANGED <<job, direct, fd, held, off, by, rc>>
        <2>1. Transfer!TypeOK'
            BY <1>3 DEF TransferInv, Transfer!TypeOK, Transfer!Places
        <2>2. OneDescriptor' /\ OnePath' /\ OneMover' /\ Aligned'
            BY <1>0, <1>3
            DEF TransferInv, OneDescriptor, OnePath, OneMover, Aligned, DirectPlaces, HostPlaces
        <2> QED
            BY <2>1, <2>2 DEF TransferInv
    <1> QED
        BY <1>1, <1>2, <1>3 DEF Transfer!TailAlloc, Transfer!Goto

LEMMA TailRegisterKeeps ==
    ASSUME TransferInv, job.size \in Nat, Transfer!TailRegister
    PROVE  TransferInv'
    <1>0. pc = "tailBuf" /\ direct /\ "dptr" \in held /\ (off % Block = 0 \/ off = job.size)
        BY DEF Transfer!TailRegister, TransferInv, OneDescriptor, OnePath, Aligned, DirectPlaces
    <1>1. CASE Transfer!Trouble({"tail"})
        BY <1>0, <1>1, TroubleKeeps DEF DirectPlaces
    <1>2. CASE Transfer!Take("tailBuf", "tailRead")
        BY <1>0, <1>2, TakeKeeps
        DEF Transfer!Resources, Transfer!Descriptors, Transfer!Places, DirectPlaces, HostPlaces
    <1> QED
        BY <1>1, <1>2 DEF Transfer!TailRegister

LEMMA TailReadKeeps ==
    ASSUME TransferInv, Transfer!TransferAssumption, Transfer!TailRead
    PROVE  TransferInv'
    <1>0. /\ pc = "tailRead" /\ direct /\ direct = TRUE /\ "dptr" \in held /\ ~rc.ok
          /\ off \in 0..job.size /\ held \cap Transfer!Descriptors \subseteq {fd}
          /\ \A i \in 0..off - 1 : by[i] = "cuFile"
        BY
        DEF Transfer!TailRead, TransferInv, Transfer!TypeOK, OneDescriptor, OnePath, OneMover,
            DirectPlaces
    <1>1. job.size \in Nat /\ Block \in Nat \ {0}
        BY JobNumbers DEF TransferInv, Transfer!TypeOK
    <1>2. CASE Transfer!Trouble({"tail", "tailBuf"})
        BY <1>0, <1>1, <1>2, TroubleKeeps DEF DirectPlaces
    <1>3. CASE Transfer!Fail /\ UNCHANGED held
        BY <1>0, <1>1, <1>3, FailKeeps
    <1>4. ASSUME NEW n \in 1..Transfer!Min({Block, job.size - off}),
                 Transfer!Moved(n, "cuFile"),
                 IF off + n = job.size
                 THEN /\ pc' = "clock" /\ held' = held \ {"tail", "tailBuf"}
                      /\ UNCHANGED <<direct, rc>>
                 ELSE IF job.strict
                      THEN pc' = "cleanup" /\ rc' = Transfer!Failed /\ UNCHANGED <<direct, held>>
                      ELSE /\ pc' = "fallBack" /\ direct' = FALSE
                           /\ held' = held \ {"tail", "tailBuf"} /\ UNCHANGED rc,
                 UNCHANGED <<job, fd>>
          PROVE  TransferInv'
        <2>1. n \in Nat /\ off + n <= job.size
            <3> DEFINE rest == job.size - off
            <3>1. off \in Int /\ rest \in Int /\ Block \in Int
                BY <1>0, <1>1
            <3>2. Transfer!Min({Block, rest}) \in Int /\ Transfer!Min({Block, rest}) <= rest
                <4> HIDE DEF rest
                <4> QED
                    BY <3>1, MinOfTwo
            <3> QED
                BY <1>1, <1>4, <3>1, <3>2
        <2>2. /\ off' = off + n /\ off' \in 0..job.size
              /\ by' \in [0..job.size - 1 -> {"nobody", "cuFile", "host"}]
              /\ \A i \in 0..off' - 1 : by'[i] = "cuFile"
            BY <1>0, <1>1, <1>4, <2>1, MovedBytes DEF TransferInv
        <2>3. held' \subseteq held /\ "dptr" \in held'
            BY <1>0, <1>4
        <2>4. /\ pc' \in {"clock", "cleanup", "fallBack"} /\ ~rc'.ok
              /\ rc' \in [ok : BOOLEAN, total : 0..job.size, direct : BOOLEAN]
              /\ direct' \in BOOLEAN /\ (pc' = "clock" => direct') /\ (pc' = "fallBack" => ~direct')
              /\ (job.strict => direct')
            <3>1. /\ rc \in [ok : BOOLEAN, total : 0..job.size, direct : BOOLEAN]
                  /\ Transfer!Failed \in [ok : BOOLEAN, total : 0..job.size, direct : BOOLEAN]
                BY <1>1 DEF Transfer!Failed, TransferInv, Transfer!TypeOK
            <3>2. ~Transfer!Failed.ok
                BY DEF Transfer!Failed
            <3>3. CASE off + n = job.size
                BY <1>0, <1>4, <3>1, <3>3
            <3>4. CASE off + n # job.size /\ job.strict
                BY <1>0, <1>4, <3>1, <3>2, <3>4
            <3>5. CASE off + n # job.size /\ ~job.strict
                BY <1>0, <1>4, <3>1, <3>5
            <3> QED
                BY <3>3, <3>4, <3>5
        <2>5. Transfer!TypeOK'
            BY <1>4, <2>2, <2>3, <2>4 DEF TransferInv, Transfer!TypeOK, Transfer!Places
        <2>6. OneDescriptor' /\ OnePath'
            BY <1>0, <1>4, <2>3, <2>4 DEF OneDescriptor, OnePath, DirectPlaces, HostPlaces
        <2>7. OneMover' /\ Aligned'
            BY <2>2, <2>4 DEF OneMover, Aligned
        <2> QED
            BY <2>5, <2>6, <2>7 DEF TransferInv
    <1> QED
        BY <1>2, <1>3, <1>4 DEF Transfer!TailRead, Transfer!Goto

LEMMA FallBackKeeps ==
    ASSUME TransferInv, job.size \in Nat, Transfer!FallBack
    PROVE  TransferInv'
    <1> DEFINE rest == held \ {"buf", "handle", fd}
    <1>0. /\ pc = "fallBack" /\ ~direct /\ "dptr" \in held /\ ~rc.ok
          /\ held \cap Transfer!Descriptors \subseteq {fd}
        BY DEF Transfer!FallBack, TransferInv, OneDescriptor, OnePath, HostPlaces
    <1>1. rest \cap Transfer!Descriptors = {} /\ rest \subseteq held
        BY <1>0
    <1>2. "dptr" \in rest
        BY <1>0 DEF TransferInv, Transfer!TypeOK, Transfer!Descriptors
    <1>3. CASE /\ held' = rest \cup {"fdPlain"} /\ fd' = "fdPlain"
               /\ off' = 0 /\ pc' = "malloc"
               /\ UNCHANGED <<job, direct, by, rc>>
        <2>1. Transfer!TypeOK'
            BY <1>1, <1>3
            DEF TransferInv, Transfer!TypeOK, Transfer!Places, Transfer!Resources,
                Transfer!Descriptors
        <2>2. held' \cap Transfer!Descriptors \subseteq {fd'} /\ "dptr" \in held'
            BY <1>1, <1>2, <1>3
        <2> HIDE DEF rest
        <2>3. OneDescriptor' /\ OnePath' /\ OneMover' /\ Aligned'
            BY <1>0, <1>3, <2>2
            DEF TransferInv, OneDescriptor, OnePath, OneMover, Aligned, DirectPlaces, HostPlaces
        <2> QED
            BY <2>1, <2>3 DEF TransferInv
    <1>4. CASE /\ held' = rest /\ fd' = "none"
               /\ rc' = Transfer!Failed /\ pc' = "cleanup"
               /\ UNCHANGED <<job, direct, off, by>>
        <2>1. Transfer!TypeOK'
            BY <1>1, <1>4 DEF TransferInv, Transfer!TypeOK, Transfer!Places, Transfer!Failed
        <2> HIDE DEF rest
        <2>2. OneDescriptor' /\ OnePath' /\ OneMover' /\ Aligned'
            BY <1>0, <1>1, <1>4
            DEF TransferInv, OneDescriptor, OnePath, OneMover, Aligned, DirectPlaces, HostPlaces,
                Transfer!Failed
        <2> QED
            BY <2>1, <2>2 DEF TransferInv
    <1> QED
        BY <1>3, <1>4 DEF Transfer!FallBack, Transfer!Goto

LEMMA MallocKeeps == ASSUME TransferInv, job.size \in Nat, Transfer!Malloc PROVE TransferInv'
    <1>0. /\ pc = "malloc" /\ ~direct /\ "dptr" \in held /\ ~rc.ok /\ off = 0
          /\ held \cap Transfer!Descriptors \subseteq {fd}
        BY DEF Transfer!Malloc, TransferInv, OneDescriptor, OnePath, HostPlaces
    <1>1. CASE Transfer!Fail /\ UNCHANGED held
        BY <1>0, <1>1, FailKeeps
    <1>2. CASE /\ held' = held \cup {"host"} /\ off' = 0 /\ pc' = "copy"
               /\ UNCHANGED <<job, direct, fd, by, rc>>
        <2>1. Transfer!TypeOK'
            BY <1>2 DEF TransferInv, Transfer!TypeOK, Transfer!Places, Transfer!Resources
        <2>2. held' \cap Transfer!Descriptors = held \cap Transfer!Descriptors
            BY <1>2 DEF Transfer!Descriptors
        <2>3. OneDescriptor' /\ OnePath' /\ OneMover' /\ Aligned'
            BY <1>0, <1>2, <2>2
            DEF TransferInv, OneDescriptor, OnePath, OneMover, Aligned, DirectPlaces, HostPlaces
        <2> QED
            BY <2>1, <2>3 DEF TransferInv
    <1> QED
        BY <1>1, <1>2 DEF Transfer!Malloc, Transfer!Goto

LEMMA HostCopyKeeps ==
    ASSUME TransferInv, Transfer!TransferAssumption, Transfer!HostCopy
    PROVE  TransferInv'
    <1>0. /\ pc = "copy" /\ ~direct /\ "dptr" \in held /\ ~rc.ok
          /\ off \in 0..job.size /\ held \cap Transfer!Descriptors \subseteq {fd}
          /\ \A i \in 0..off - 1 : by[i] = "host"
        BY
        DEF Transfer!HostCopy, TransferInv, Transfer!TypeOK, OneDescriptor, OnePath, OneMover,
            HostPlaces
    <1>1. job.size \in Nat /\ job.chunk \in Nat
        BY JobNumbers DEF TransferInv, Transfer!TypeOK
    <1>2. CASE Transfer!Fail /\ UNCHANGED held
        BY <1>0, <1>1, <1>2, FailKeeps
    <1>3. CASE pc' = "clock" /\ UNCHANGED <<job, direct, fd, held, off, by, rc>>
        <2>1. Transfer!TypeOK'
            BY <1>3 DEF TransferInv, Transfer!TypeOK, Transfer!Places
        <2>2. OneDescriptor' /\ OnePath' /\ OneMover' /\ Aligned'
            BY <1>0, <1>3
            DEF TransferInv, OneDescriptor, OnePath, OneMover, Aligned, DirectPlaces, HostPlaces
        <2> QED
            BY <2>1, <2>2 DEF TransferInv
    <1>4. ASSUME NEW n \in 1..Transfer!Min({job.chunk, job.size - off}),
                 Transfer!Moved(n, "host"),
                 pc' = (IF off + n < job.size THEN "copy" ELSE "clock"),
                 UNCHANGED <<job, direct, fd, held, rc>>
          PROVE  TransferInv'
        <2>1. n \in Nat /\ off + n <= job.size
            <3> DEFINE rest == job.size - off
            <3>1. off \in Int /\ rest \in Int /\ job.chunk \in Int
                BY <1>0, <1>1
            <3>2. Transfer!Min({job.chunk, rest}) \in Int /\ Transfer!Min({job.chunk, rest}) <= rest
                <4> HIDE DEF rest
                <4> QED
                    BY <3>1, MinOfTwo
            <3> QED
                BY <1>1, <1>4, <3>1, <3>2
        <2>2. /\ off' = off + n /\ off' \in 0..job.size
              /\ by' \in [0..job.size - 1 -> {"nobody", "cuFile", "host"}]
              /\ \A i \in 0..off' - 1 : by'[i] = "host"
            BY <1>0, <1>1, <1>4, <2>1, MovedBytes DEF TransferInv
        <2>3. Transfer!TypeOK'
            BY <1>4, <2>2 DEF TransferInv, Transfer!TypeOK, Transfer!Places
        <2>4. OneDescriptor' /\ OnePath'
            BY <1>0, <1>4 DEF TransferInv, OneDescriptor, OnePath, DirectPlaces, HostPlaces
        <2>5. OneMover' /\ Aligned'
            BY <1>0, <1>4, <2>2 DEF OneMover, Aligned
        <2> QED
            BY <2>3, <2>4, <2>5 DEF TransferInv
    <1> QED
        BY <1>2, <1>3, <1>4 DEF Transfer!HostCopy, Transfer!Goto

LEMMA ClockKeeps == ASSUME TransferInv, job.size \in Nat, Transfer!Clock PROVE TransferInv'
    <1>0. pc = "clock" /\ "dptr" \in held /\ held \cap Transfer!Descriptors \subseteq {fd}
        BY DEF Transfer!Clock, TransferInv, OneDescriptor
    <1>1. CASE Transfer!Fail /\ UNCHANGED held
        BY <1>0, <1>1, FailKeeps
    <1>2. CASE /\ held' = held \ {"buf", "handle"}
               /\ rc' = [ok |-> TRUE, total |-> off, direct |-> direct]
               /\ pc' = "cleanup"
               /\ UNCHANGED <<job, direct, fd, off, by>>
        <2>1. Transfer!TypeOK'
            BY <1>2 DEF TransferInv, Transfer!TypeOK, Transfer!Places
        <2>2. OneDescriptor' /\ OnePath' /\ OneMover' /\ Aligned'
            BY <1>0, <1>2
            DEF TransferInv, OneDescriptor, OnePath, OneMover, Aligned, DirectPlaces, HostPlaces
        <2> QED
            BY <2>1, <2>2 DEF TransferInv
    <1> QED
        BY <1>1, <1>2 DEF Transfer!Clock, Transfer!Goto

LEMMA CleanupKeeps == ASSUME TransferInv, Transfer!Cleanup PROVE TransferInv'
    <1>1. /\ pc = "cleanup" /\ pc' = "return"
          /\ held' = (IF rc.ok THEN held \cap {"dptr"} ELSE {}) \cup (held \cap (Transfer!Descriptors \ {fd}))
          /\ UNCHANGED <<job, direct, fd, off, by, rc>>
        BY DEF Transfer!Cleanup, Transfer!Goto
    <1>2. held' = IF rc.ok THEN {"dptr"} ELSE {}
        BY <1>1 DEF TransferInv, OneDescriptor
    <1>3. Transfer!TypeOK'
        BY <1>1, <1>2 DEF TransferInv, Transfer!TypeOK, Transfer!Places, Transfer!Resources
    <1>4. OneDescriptor' /\ OnePath' /\ OneMover' /\ Aligned'
        BY <1>1, <1>2
        DEF TransferInv, OneDescriptor, OnePath, OneMover, Aligned, DirectPlaces, HostPlaces
    <1> QED
        BY <1>3, <1>4 DEF TransferInv

LEMMA ReturnKeeps ==
    ASSUME TransferInv, Transfer!TransferAssumption, Transfer!Return
    PROVE  TransferInv'
    <1>1. /\ pc' = "idle" /\ job' \in Transfer!Jobs
          /\ direct' = TRUE /\ fd' = "none" /\ held' = {} /\ off' = 0
          /\ by' = Transfer!Untouched(job') /\ rc' = Transfer!Failed
        BY DEF Transfer!Return, Transfer!Goto
    <1>2. job'.size \in Nat
        BY <1>1, Blocks DEF Transfer!Jobs, Transfer!TransferAssumption
    <1>3. Transfer!TypeOK'
        BY <1>1, <1>2
        DEF Transfer!TypeOK, Transfer!Places, Transfer!Resources, Transfer!Untouched,
            Transfer!Failed
    <1>4. OneDescriptor' /\ OnePath' /\ OneMover' /\ Aligned'
        BY <1>1
        DEF OneDescriptor, OnePath, OneMover, Aligned, DirectPlaces, HostPlaces, Transfer!Failed
    <1> QED
        BY <1>3, <1>4 DEF TransferInv

LEMMA TransferNext ==
    ASSUME Transfer!TransferAssumption, TransferInv, [Transfer!Next]_transferVars
    PROVE  TransferInv'
    <1>0. job.size \in Nat
        BY JobNumbers DEF TransferInv, Transfer!TypeOK
    <1>1. CASE UNCHANGED transferVars
        BY <1>1
        DEF transferVars, TransferInv, Transfer!TypeOK, OneDescriptor, OnePath, OneMover, Aligned,
            Transfer!DirectSize, Transfer!RoundDown
    <1>2. CASE \/ Transfer!Activate \/ Transfer!Open \/ Transfer!Alloc
               \/ Transfer!RegisterHandle \/ Transfer!RegisterBuf
        BY <1>0, <1>2, ActivateKeeps, OpenKeeps, AllocKeeps, RegisterHandleKeeps, RegisterBufKeeps
    <1>3. CASE Transfer!ReadDirect \/ Transfer!TailAlloc \/ Transfer!TailRegister \/ Transfer!TailRead
        BY <1>0, <1>3, ReadDirectKeeps, TailAllocKeeps, TailRegisterKeeps, TailReadKeeps
    <1>4. CASE Transfer!FallBack \/ Transfer!Malloc \/ Transfer!HostCopy
        BY <1>0, <1>4, FallBackKeeps, MallocKeeps, HostCopyKeeps
    <1>5. CASE Transfer!Clock \/ Transfer!Cleanup \/ Transfer!Return
        BY <1>0, <1>5, ClockKeeps, CleanupKeeps, ReturnKeeps
    <1> QED
        BY <1>1, <1>2, <1>3, <1>4, <1>5 DEF Transfer!Next

LEMMA PartsTransferInv == PartsSpec => []TransferInv
    <1>1. PartsInit => TransferInv
        BY TransferInit, PartsAssumption DEF PartsInit
    <1>2. TransferInv /\ [PartsNext]_partsVars => TransferInv'
        BY TransferNext, PartsAssumption DEF PartsNext, partsVars, transferVars
    <1> QED
        BY <1>1, <1>2, PTL DEF PartsSpec

(* Whatever failed and wherever the direct path was left for the host, a   *)
(* call of gds_load_persistent gives back all it took; a successful one    *)
(* keeps the device memory.                                                *)
THEOREM PartsNothingLeaks == PartsSpec => []NothingLeaks
    <1>1. TransferInv => NothingLeaks
        BY DEF NothingLeaks, Transfer!NothingLeaks, TransferInv, OneDescriptor
    <1> QED
        BY <1>1, PartsTransferInv, PTL

(* A shard that LoadPersistent accepts is in device memory to its last     *)
(* byte, moved by one mover, which for a strict caller is cuFile.          *)
THEOREM PartsAcceptedWhole == PartsSpec => []AcceptedIsWhole
    <1>1. TransferInv => AcceptedIsWhole
        <2> SUFFICES ASSUME TransferInv, pc = "return", rc.ok, rc.total = job.size
                     PROVE  Transfer!AcceptedIsWhole
            BY DEF AcceptedIsWhole, Transfer!AcceptedIsWhole, Transfer!Accept
        <2>1. off = job.size /\ rc.direct = direct /\ (job.strict => direct) /\ direct \in BOOLEAN
            BY DEF TransferInv, Transfer!TypeOK, OnePath
        <2>2. \A i \in 0..job.size - 1 : by[i] = IF direct THEN "cuFile" ELSE "host"
            BY <2>1 DEF TransferInv, OneMover
        <2> QED
            BY <2>1, <2>2 DEF Transfer!AcceptedIsWhole
    <1> QED
        BY <1>1, PartsTransferInv, PTL

(* cuFile is asked for whole blocks at whole blocks only, for every size of*)
(* a block, a chunk and a shard and after any number of short reads.       *)
THEOREM PartsReadsAligned == PartsSpec => []DirectReadsAreAligned
    <1>1. TransferInv => DirectReadsAreAligned
        BY
        DEF DirectReadsAreAligned, Transfer!DirectReadsAreAligned, TransferInv, OneDescriptor,
            Aligned
    <1> QED
        BY <1>1, PartsTransferInv, PTL

-----------------------------------------------------------------------------
(* The sweep of GC.                                                        *)

LEMMA SweepSets ==
    /\ \A S : Sweep!Cardinality(S) = Cardinality(S)
    /\ \A S : Sweep!IsFiniteSet(S) <=> IsFiniteSet(S)
    BY Zenon DEF Sweep!Cardinality, Cardinality, Sweep!IsFiniteSet, IsFiniteSet

Candidates(g) == {m \in Threads : Sweep!Collectable(g.listed[m])}

Count(g) == Cardinality(Candidates(g))

Sweeping == [pc : {"sweep", "done", "error"}, dry : BOOLEAN, listed : [Threads -> Sweep!Facts],
             order : UNION {[1..n -> Threads] : n \in 0..Cardinality(Threads)},
             next : 1..Cardinality(Threads) + 1, free : Nat,
             deleted : SUBSET Threads, passed : SUBSET Threads]

(* GC goes through a ranking of the models that were collectable when it   *)
(* listed them.                                                            *)
Ranked(g) ==
    /\ g.order \in [1..Count(g) -> Candidates(g)]
    /\ \A i, j \in 1..Count(g) :
           i < j => /\ g.order[i] # g.order[j]
                    /\ ~Sweep!Before(g.listed[g.order[j]], g.listed[g.order[i]])

(* What it deleted and passed over is the ranking up to its place.         *)
SweptSoFar(g) ==
    /\ g.next \in 1..Count(g) + 1
    /\ g.deleted \cup g.passed = {g.order[i] : i \in 1..g.next - 1}
    /\ g.pc = "done" => g.next > Count(g) \/ g.free >= Target

SweepInv ==
    /\ rec \in [Threads -> Sweep!Facts]
    /\ inUse \subseteq Threads
    /\ gc # Sweep!NoGC => gc \in Sweeping /\ Ranked(gc) /\ SweptSoFar(gc)

LEMMA CountBounds ==
    ASSUME NEW g, IsFiniteSet(Threads)
    PROVE  IsFiniteSet(Candidates(g)) /\ Count(g) \in Nat /\ Count(g) <= Cardinality(Threads)
           /\ Cardinality(Threads) \in Nat /\ Cardinality(1..Count(g)) = Count(g)
    <1>1. IsFiniteSet(Candidates(g)) /\ Cardinality(Candidates(g)) <= Cardinality(Threads)
        BY FS_Subset DEF Candidates
    <1>2. Count(g) \in Nat /\ Cardinality(Threads) \in Nat
        BY <1>1, FS_CardinalityType DEF Count
    <1>3. Cardinality(1..Count(g)) = Count(g)
        BY <1>2, FS_Interval
    <1> QED
        BY <1>1, <1>2, <1>3 DEF Count

(* A ranking names every candidate.                                        *)
LEMMA RankingIsComplete ==
    ASSUME NEW g, IsFiniteSet(Threads), Ranked(g), NEW m \in Candidates(g)
    PROVE  \E i \in 1..Count(g) : g.order[i] = m
    <1> DEFINE n == Count(g)  C == Candidates(g)
    <1>1. n \in Nat /\ IsFiniteSet(C) /\ Cardinality(1..n) = Cardinality(C)
        BY CountBounds DEF Count
    <1>2. g.order \in Injection(1..n, C)
        <2>1. \A i, j \in 1..n : g.order[i] = g.order[j] => i = j
            <3> SUFFICES ASSUME NEW i \in 1..n, NEW j \in 1..n, g.order[i] = g.order[j], i # j
                         PROVE  FALSE
                OBVIOUS
            <3>1. i < j \/ j < i
                BY <1>1
            <3> QED
                BY <3>1 DEF Ranked
        <2> QED
            BY <2>1 DEF Ranked, Injection, IsInjective
    <1>3. g.order \in Surjection(1..n, C)
        <2> HIDE DEF n, C
        <2> QED
            BY <1>1, <1>2, FS_Injection
    <1> QED
        BY <1>3 DEF Surjection

(* The comparison of sort.Slice respects the order of release.             *)
LEMMA ReleaseOrder ==
    ASSUME NEW r \in Sweep!Facts, NEW s \in Sweep!Facts, Later \in Nat,
           \/ r.releasable # 0 /\ (s.releasable = 0 \/ r.releasable < s.releasable)
           \/ r.releasable = s.releasable /\ r.updated < s.updated
    PROVE  Sweep!Before(r, s)
    BY DEF Sweep!Before, Sweep!Facts

LEMMA SweepInOrder ==
    ASSUME IsFiniteSet(Threads), Later \in Nat, SweepInv
    PROVE  Sweep!SweepFreesInOrder
    <1> SUFFICES ASSUME gc # Sweep!NoGC
                 PROVE  LET candidates == {m \in Threads : Sweep!Collectable(gc.listed[m])}
                            tried == gc.deleted \cup gc.passed
                        IN /\ \A m \in candidates \ tried, n \in gc.deleted : ~Sweep!ReleasedBefore(m, n)
                           /\ gc.pc = "done" => gc.free >= Target \/ candidates \subseteq tried
        BY DEF Sweep!SweepFreesInOrder, Sweep!NoGC
    <1> DEFINE tried == gc.deleted \cup gc.passed
    <1>0. gc \in Sweeping /\ Ranked(gc) /\ SweptSoFar(gc) /\ Count(gc) \in Nat
        BY CountBounds DEF SweepInv
    <1>1. ASSUME NEW m \in Candidates(gc), m \notin tried
          PROVE  \E i \in 1..Count(gc) : i >= gc.next /\ gc.order[i] = m
        <2>1. PICK i \in 1..Count(gc) : gc.order[i] = m
            BY <1>0, RankingIsComplete
        <2>2. i \notin 1..gc.next - 1
            BY <1>0, <1>1, <2>1 DEF SweptSoFar
        <2> QED
            BY <1>0, <2>1, <2>2 DEF SweptSoFar
    <1>2. ASSUME NEW m \in Candidates(gc), m \notin tried, NEW n \in gc.deleted,
                 Sweep!ReleasedBefore(m, n)
          PROVE  FALSE
        <2>1. PICK i \in 1..Count(gc) : i >= gc.next /\ gc.order[i] = m
            BY <1>1, <1>2
        <2>2. PICK j \in 1..gc.next - 1 : gc.order[j] = n
            BY <1>0 DEF SweptSoFar
        <2>3. j \in 1..Count(gc) /\ j < i
            BY <1>0, <2>1 DEF SweptSoFar
        <2>4. ~Sweep!Before(gc.listed[m], gc.listed[n])
            BY <1>0, <2>1, <2>2, <2>3 DEF Ranked
        <2>5. gc.listed[m] \in Sweep!Facts /\ gc.listed[n] \in Sweep!Facts
            BY <1>0 DEF Sweeping, Candidates
        <2> QED
            BY <1>2, <2>4, <2>5, ReleaseOrder DEF Sweep!ReleasedBefore
    <1>3. ASSUME gc.pc = "done", ~(gc.free >= Target), NEW m \in Candidates(gc), m \notin tried
          PROVE  FALSE
        BY <1>0, <1>1, <1>3 DEF SweptSoFar
    <1> QED
        BY <1>2, <1>3 DEF Candidates

LEMMA FactsChanged ==
    ASSUME NEW r \in Sweep!Facts
    PROVE  /\ \A s \in {"READY", "RELEASED", "FAILED", "DOWNLOADING"}, b \in Nat, k \in BOOLEAN :
                  [r EXCEPT !.status = s, !.bytes = b, !.marker = k] \in Sweep!Facts
           /\ \A t \in 0..Later, u \in 0..Later :
                  [r EXCEPT !.leased = FALSE, !.status = "READY", !.releasable = t, !.updated = u]
                  \in Sweep!Facts
    BY DEF Sweep!Facts

LEMMA SweepNext ==
    ASSUME Sweep!SweepAssumption, SweepInv, [Sweep!Next]_sweepVars
    PROVE  SweepInv'
    <1>0. IsFiniteSet(Threads) /\ Later \in Nat \ {0} /\ Target \in Nat
        BY SweepSets DEF Sweep!SweepAssumption
    <1>r. Sweep!Gone \in Sweep!Facts
          /\ \A r \in Sweep!Facts : Sweep!Ensured(r) \cup Sweep!Released(r) \subseteq Sweep!Facts
        <2>1. Sweep!Gone \in Sweep!Facts
            BY <1>0 DEF Sweep!Gone, Sweep!Facts
        <2>2. ASSUME NEW r \in Sweep!Facts PROVE Sweep!Ensured(r) \subseteq Sweep!Facts
            <3> DEFINE new == [leased |-> TRUE, path |-> TRUE, status |-> "READY", releasable |-> 0,
                               updated |-> Later, bytes |-> IF r.bytes = 0 THEN 1 ELSE r.bytes, marker |-> TRUE]
            <3>1. new \in Sweep!Facts
                BY <1>0 DEF Sweep!Facts
            <3>2. [new EXCEPT !.status = "FAILED", !.bytes = 0, !.marker = r.marker] \in Sweep!Facts
                <4>1. r.marker \in BOOLEAN /\ 0 \in Nat /\ "FAILED" \in {"READY", "RELEASED", "FAILED", "DOWNLOADING"}
                    BY DEF Sweep!Facts
                <4> HIDE DEF new
                <4> QED
                    BY <3>1, <4>1, Zenon, FactsChanged
            <3> QED
                BY <3>1, <3>2 DEF Sweep!Ensured
        <2>3. ASSUME NEW r \in Sweep!Facts PROVE Sweep!Released(r) \subseteq Sweep!Facts
            <3>1. [r EXCEPT !.leased = FALSE, !.status = "READY", !.releasable = Later, !.updated = Later]
                  \in Sweep!Facts
                <4>1. Later \in 0..Later
                    BY <1>0
                <4> QED
                    BY <4>1, Zenon, FactsChanged
            <3> QED
                BY <2>1, <3>1 DEF Sweep!Released
        <2> QED
            BY <2>1, <2>2, <2>3
    (* A turn of GC, and a step that leaves GC where it is.                *)
    <1>s. ASSUME rec' \in [Threads -> Sweep!Facts], inUse' = inUse, gc # Sweep!NoGC,
                 gc.pc = "sweep",
                 \/ gc' = [gc EXCEPT !.pc = "error"]
                 \/ ~Sweep!Turn /\ gc' = [gc EXCEPT !.pc = "done"]
          PROVE  SweepInv'
        <2>1. gc \in Sweeping /\ Ranked(gc) /\ SweptSoFar(gc) /\ Count(gc) \in Nat
            BY <1>0, <1>s, CountBounds DEF SweepInv
        <2>2. gc' \in Sweeping /\ gc'.listed = gc.listed /\ gc'.order = gc.order /\ gc'.next = gc.next
              /\ gc'.free = gc.free /\ gc'.deleted = gc.deleted /\ gc'.passed = gc.passed
            BY <1>s, <2>1 DEF Sweeping
        <2>3. /\ Candidates(gc') = Candidates(gc) /\ Count(gc') = Count(gc)
              /\ Candidates(gc)' = Candidates(gc') /\ Count(gc)' = Count(gc')
            BY <2>2 DEF Candidates, Count
        <2>4. Ranked(gc')
            BY <2>1, <2>2, <2>3 DEF Ranked
        <2>5. gc'.pc = "done" => gc'.next > Count(gc') \/ gc'.free >= Target
            <3>1. DOMAIN gc.order = 1..Count(gc) /\ Sweep!Cardinality(DOMAIN gc.order) = Count(gc)
                BY <1>0, <2>1, SweepSets, CountBounds DEF Ranked
            <3>2. gc.free \in Nat /\ gc.next \in Nat
                BY <2>1 DEF Sweeping
            <3>3. ~Sweep!Turn => gc.next > Count(gc) \/ gc.free >= Target
                BY <1>0, <2>1, <3>1, <3>2 DEF Sweep!Turn
            <3>4. gc'.pc = "done" => ~Sweep!Turn
                BY <1>s, <2>1 DEF Sweeping
            <3> QED
                BY <2>2, <2>3, <3>3, <3>4
        <2>6. SweptSoFar(gc')
            BY <2>1, <2>2, <2>3, <2>5 DEF SweptSoFar
        <2> QED
            BY <1>s, <2>2, <2>4, <2>6 DEF SweepInv
    <1>t. ASSUME NEW m \in Threads, Sweep!Sweeps(m), rec' \in [Threads -> Sweep!Facts], inUse' = inUse,
                 gc' \in Sweeping, gc'.listed = gc.listed, gc'.order = gc.order,
                 gc'.next = gc.next + 1, gc'.pc = "sweep",
                 gc'.deleted \cup gc'.passed = gc.deleted \cup gc.passed \cup {m}
          PROVE  SweepInv'
        <2>1. gc # Sweep!NoGC /\ gc \in Sweeping /\ Ranked(gc) /\ SweptSoFar(gc) /\ Count(gc) \in Nat
            BY <1>0, <1>t, CountBounds DEF SweepInv, Sweep!Sweeps, Sweep!NoGC
        <2>2. Candidates(gc') = Candidates(gc) /\ Count(gc') = Count(gc)
            BY <1>t DEF Candidates, Count
        <2>3. Ranked(gc')
            BY <1>t, <2>1, <2>2 DEF Ranked
        <2>4. DOMAIN gc.order = 1..Count(gc) /\ Sweep!Cardinality(DOMAIN gc.order) = Count(gc)
            BY <1>0, <2>1, SweepSets, CountBounds DEF Ranked
        <2>5. gc.next \in 1..Count(gc) /\ m = gc.order[gc.next]
            BY <1>t, <2>1, <2>4 DEF Sweep!Sweeps, Sweep!Turn, SweptSoFar
        <2>6. 1..gc'.next - 1 = (1..gc.next - 1) \cup {gc.next} /\ gc'.next \in 1..Count(gc) + 1
            BY <1>t, <2>1, <2>5
        <2>7. gc'.deleted \cup gc'.passed = {gc.order[i] : i \in 1..gc'.next - 1}
            BY <1>t, <2>1, <2>5, <2>6 DEF SweptSoFar
        <2>8. SweptSoFar(gc')
            BY <1>t, <2>2, <2>6, <2>7 DEF SweptSoFar
        <2> QED
            BY <1>t, <2>3, <2>8 DEF SweepInv
    <1>1. CASE Sweep!List
        <2>1. PICK dry \in BOOLEAN, free \in 0..Target,
                   q \in Sweep!Rankings({m \in Threads : Sweep!Collectable(rec[m])}) :
                  gc' = [pc |-> "sweep", dry |-> dry, listed |-> rec, order |-> q, next |-> 1,
                         free |-> free, deleted |-> {}, passed |-> {}]
            BY <1>1 DEF Sweep!List
        <2>2. rec' = rec /\ inUse' = inUse /\ rec \in [Threads -> Sweep!Facts]
            BY <1>1 DEF Sweep!List, SweepInv
        <2>3. gc'.listed = rec /\ gc'.order = q /\ gc'.next = 1 /\ gc'.deleted = {} /\ gc'.passed = {}
              /\ gc'.pc = "sweep"
            BY <2>1
        <2>4. Candidates(gc') = {m \in Threads : Sweep!Collectable(rec[m])}
            BY <2>3 DEF Candidates
        <2>5. Count(gc') \in Nat /\ Count(gc') <= Cardinality(Threads) /\ Cardinality(Threads) \in Nat
            BY <1>0, CountBounds
        <2>6. q \in [1..Count(gc') -> Candidates(gc')]
              /\ \A i, j \in 1..Count(gc') : i < j => q[i] # q[j] /\ ~Sweep!Before(rec[q[j]], rec[q[i]])
            BY <2>4, SweepSets DEF Sweep!Rankings, Count
        <2>7. Ranked(gc')
            BY <2>3, <2>6 DEF Ranked
        <2>8. SweptSoFar(gc')
            BY <2>3, <2>5 DEF SweptSoFar
        <2>9. gc' \in Sweeping
            <3>1. q \in [1..Count(gc') -> Threads]
                BY <2>4, <2>6
            <3>2. q \in UNION {[1..n -> Threads] : n \in 0..Cardinality(Threads)}
                BY <2>5, <3>1
            <3>3. free \in Nat /\ 1 \in 1..Cardinality(Threads) + 1
                BY <1>0, <2>5
            <3> QED
                BY <2>1, <2>2, <3>2, <3>3 DEF Sweeping
        <2> QED
            BY <2>2, <2>7, <2>8, <2>9 DEF SweepInv
    <1>2. CASE Sweep!End
        BY <1>2, <1>s DEF Sweep!End, Sweep!NoGC, SweepInv
    <1>3. CASE Sweep!Return
        BY <1>3 DEF Sweep!Return, SweepInv, Sweeping, Sweep!NoGC
    <1>p. ASSUME NEW m \in Threads, Sweep!Sweeps(m), Sweep!Pass(m), rec' = rec, inUse' = inUse
          PROVE  SweepInv'
        <2>1. gc \in Sweeping /\ gc.pc = "sweep" /\ SweptSoFar(gc) /\ Ranked(gc)
            BY <1>p DEF SweepInv, Sweep!Sweeps, Sweep!NoGC
        <2>2. gc.next + 1 \in 1..Cardinality(Threads) + 1
            BY <1>0, <1>p, <2>1, SweepSets, CountBounds
            DEF Sweep!Sweeps, Sweep!Turn, Ranked, SweptSoFar
        <2>3. gc' \in Sweeping
            BY <1>p, <2>1, <2>2 DEF Sweep!Pass, Sweeping
        <2> QED
            BY <1>p, <1>t, <2>1, <2>3 DEF Sweep!Pass, Sweeping, SweepInv
    <1>4. ASSUME NEW m \in Threads, Sweep!PassHeld(m) \/ Sweep!PassChanged(m) PROVE SweepInv'
        BY <1>4, <1>p DEF Sweep!PassHeld, Sweep!PassChanged
    <1>5. ASSUME NEW m \in Threads, Sweep!RefusePath(m) \/ Sweep!TurnFails(m) PROVE SweepInv'
        BY <1>5, <1>s DEF Sweep!RefusePath, Sweep!TurnFails, Sweep!Sweeps, Sweep!NoGC, SweepInv
    <1>6. ASSUME NEW m \in Threads, Sweep!Delete(m) PROVE SweepInv'
        <2>1. gc \in Sweeping /\ gc.pc = "sweep" /\ SweptSoFar(gc) /\ Ranked(gc)
            BY <1>6 DEF Sweep!Delete, SweepInv, Sweep!Sweeps, Sweep!NoGC
        <2>2. gc.next + 1 \in 1..Cardinality(Threads) + 1
            BY <1>0, <1>6, <2>1, SweepSets, CountBounds
            DEF Sweep!Delete, Sweep!Sweeps, Sweep!Turn, Ranked, SweptSoFar
        <2>3. rec[m].bytes \in Nat /\ rec' \in [Threads -> Sweep!Facts]
            BY <1>r, <1>6 DEF Sweep!Delete, SweepInv, Sweep!Facts
        <2>4. gc.free + rec[m].bytes \in Nat
            BY <2>1, <2>3 DEF Sweeping
        <2>5. gc' = [gc EXCEPT !.next = @ + 1, !.free = @ + rec[m].bytes, !.deleted = @ \cup {m}]
            BY <1>6 DEF Sweep!Delete
        <2>6. gc' \in Sweeping
            BY <2>1, <2>2, <2>4, <2>5 DEF Sweeping
        <2>7. /\ gc'.listed = gc.listed /\ gc'.order = gc.order /\ gc'.next = gc.next + 1
              /\ gc'.pc = "sweep" /\ gc'.deleted \cup gc'.passed = gc.deleted \cup gc.passed \cup {m}
            BY <2>1, <2>5 DEF Sweeping
        <2>8. Sweep!Sweeps(m) /\ inUse' = inUse
            BY <1>6 DEF Sweep!Delete
        <2> QED
            BY <1>t, <2>3, <2>6, <2>7, <2>8
    <1>7. ASSUME NEW m \in Threads, Sweep!DeleteFails(m) PROVE SweepInv'
        <2>1. rec' \in [Threads -> Sweep!Facts]
            BY <1>7 DEF Sweep!DeleteFails, SweepInv, Sweep!Facts
        <2> QED
            BY <1>7, <1>s, <2>1 DEF Sweep!DeleteFails, Sweep!Sweeps, Sweep!NoGC
    <1>8. ASSUME NEW m \in Threads, Sweep!Lock(m) PROVE SweepInv'
        BY <1>8 DEF Sweep!Lock, SweepInv
    <1>9. ASSUME NEW m \in Threads, Sweep!Unlock(m) PROVE SweepInv'
        <2>1. rec[m] \in Sweep!Facts
            BY DEF SweepInv
        <2>2. rec' \in [Threads -> Sweep!Facts]
            BY <1>r, <1>9, <2>1 DEF Sweep!Unlock, SweepInv
        <2> QED
            BY <1>9, <2>2 DEF Sweep!Unlock, SweepInv
    <1>10. CASE UNCHANGED sweepVars
        BY <1>10 DEF sweepVars, SweepInv
    <1> QED
        BY <1>1, <1>2, <1>3, <1>4, <1>5, <1>6, <1>7, <1>8, <1>9, <1>10 DEF Sweep!Next

LEMMA PartsSweepInv == PartsSpec => []SweepInv
    <1>1. PartsInit => SweepInv
        BY PartsAssumption DEF PartsInit, Sweep!Init, SweepInv, Sweep!SweepAssumption
    <1>2. SweepInv /\ [PartsNext]_partsVars => SweepInv'
        BY SweepNext, PartsAssumption DEF PartsNext, partsVars, sweepVars
    <1> QED
        BY <1>1, <1>2, PTL DEF PartsSpec

(* GC frees space in the order of the models' release, whatever happens to *)
(* them while it works through its list, and stops when it has enough.     *)
THEOREM PartsSweepInOrder == PartsSpec => []SweepFreesInOrder
    <1>1. SweepInv => SweepFreesInOrder
        BY SweepInOrder, SweepSets, PartsAssumption DEF SweepFreesInOrder, Sweep!SweepAssumption
    <1> QED
        BY <1>1, PartsSweepInv, PTL

-----------------------------------------------------------------------------
(* The types of all parts.                                                 *)

(* Every part keeps its types, whatever the parts do.                      *)
THEOREM PartsTypes == ASSUME SoloStart PROVE PartsSpec => []PartsTypeOK
    <1>1. SP!StoreInv => Store!TypeOK
        BY SP!TypesSuffice, SameStoreTypes DEF SP!StoreInv
    <1>2. MapInv => Maps!TypeOK
        BY DEF MapInv
    <1>3. ProfileInv => Profile!TypeOK
        BY DEF ProfileInv
    <1>4. TransferInv => Transfer!TypeOK
        BY DEF TransferInv
    <1>5. SweepInv => Sweep!TypeOK
        BY SweepSets DEF SweepInv, Sweeping, Sweep!TypeOK
    <1>6. SP!StoreInv /\ BP!BundleInv /\ MapInv /\ ProfileInv /\ TransferInv /\ SweepInv => PartsTypeOK
        BY <1>1, <1>2, <1>3, <1>4, <1>5, BundleTypesKept DEF PartsTypeOK
    <1> QED
        BY <1>6, PartsStoreInv, PartsBundleInv, PartsMapInv, PartsProfileInv, PartsTransferInv,
           PartsSweepInv, PTL
=============================================================================
