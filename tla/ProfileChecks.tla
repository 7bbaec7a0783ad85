--------------------------- MODULE ProfileChecks ---------------------------
(***************************************************************************)
(* What the profile of a model and its manifest must satisfy before Ensure *)
(* downloads it (LintProfile, profile.go), what is then downloaded (Fetch, *)
(* registry/oras.go, and downloadBlob, service.go), and what the full      *)
(* verification demands of the published directory (verifyPublishedPath).  *)
(* Ensure answers READY after the first two; the third is what every later *)
(* request and every consumer asks.                                        *)
(***************************************************************************)
EXTENDS Naturals, FiniteSets, Sequences

CONSTANTS Names, Trimmed,    \* Trimmed[n]: a name without surrounding space
          Digests, SizeOf,   \* SizeOf[d]: the bytes that have digest d
          MaxSize,
          MaxShards, MaxLayers

ProfileAssumption ==
    /\ Trimmed \in [Names -> Names] /\ \A n \in Names : Trimmed[Trimmed[n]] = Trimmed[n]
    /\ SizeOf \in [Digests -> 1..MaxSize]
    /\ MaxShards \in Nat /\ MaxLayers \in Nat

VARIABLES shards, layers,    \* the profile and the manifest's layers
          pc,
          dir                \* the shards directory: names to contents

vars == <<shards, layers, pc, dir>>

(* Malformed values, which are refused one by one, are left out.            *)
Shard == [name : Names, digest : Digests, size : 1..MaxSize, ordinal : 1..MaxShards]

Layer == [digest : Digests, size : 1..MaxSize, isShard : BOOLEAN]

UpTo(S, n) == UNION {[1..m -> S] : m \in 0..n}

NoFiles == [n \in {} |-> n]

(* The bytes of a digest, or what two downloads into one file leave.        *)
Mixed == "mixed"

Init ==
    /\ shards \in UpTo(Shard, MaxShards) /\ layers \in UpTo(Layer, MaxLayers)
    /\ pc = "fetched" /\ dir = NoFiles

TypeOK ==
    /\ pc \in {"fetched", "rejected", "downloaded", "failed"}
    /\ DOMAIN dir \subseteq Names /\ \A n \in DOMAIN dir : dir[n] \in Digests \cup {Mixed}

-----------------------------------------------------------------------------
Indices == DOMAIN shards

(* Of two shards or layers with one digest the maps keep the last.          *)
LastWith(seq, d) ==
    seq[CHOOSE i \in DOMAIN seq : /\ seq[i].digest = d
                                  /\ \A j \in DOMAIN seq : seq[j].digest = d => j <= i]

In(seq, d) == \E i \in DOMAIN seq : seq[i].digest = d

(* LintProfile: the shards by themselves, then against the layers, of which *)
(* only those with the media type of a shard are compared.                  *)
ShardsAreSound ==
    /\ shards # <<>>
    /\ \A i, j \in Indices : shards[i].ordinal = shards[j].ordinal => i = j

\* Mutant: sizes are not compared with the layers'.
LayersNamed ==
    layers # <<>> =>
        /\ \A i \in DOMAIN layers : layers[i].isShard => In(shards, layers[i].digest)
        /\ \A i \in Indices : In(layers, shards[i].digest)

LayersMatch ==
    layers # <<>> =>
        /\ \A i \in DOMAIN layers :
               layers[i].isShard =>
                   /\ In(shards, layers[i].digest)
                   /\ LastWith(shards, layers[i].digest).size = layers[i].size
        /\ \A i \in Indices : In(layers, shards[i].digest)

LintProfile == ShardsAreSound /\ LayersMatch

(* Fetch makes a blob of every shard that has a layer, under its trimmed    *)
(* name and with the layer's size.                                          *)
Fetchable == \A i \in Indices : In(layers, shards[i].digest)

BlobName(i) == Trimmed[shards[i].name]

(* downloadBlob compares what it read with the layer's size and digest.     *)
Readable(i) == LastWith(layers, shards[i].digest).size = SizeOf[shards[i].digest]

Reject ==
    /\ pc = "fetched" /\ ~(Fetchable /\ LintProfile)
    /\ pc' = "rejected"
    /\ UNCHANGED <<shards, layers, dir>>

(* Blobs of one name share a file: any of them, or bytes of several.        *)
Download ==
    /\ pc = "fetched" /\ Fetchable /\ LintProfile
    /\ \A i \in Indices : Readable(i)
    /\ pc' = "downloaded"
    /\ \E d \in [{BlobName(i) : i \in Indices} -> Digests \cup {Mixed}] :
           /\ \A n \in DOMAIN d :
                  LET sharing == {shards[i].digest : i \in {j \in Indices : BlobName(j) = n}}
                  IN d[n] \in sharing \cup (IF Cardinality(sharing) > 1 THEN {Mixed} ELSE {})
           /\ dir' = d
    /\ UNCHANGED <<shards, layers>>

DownloadFails ==
    /\ pc = "fetched" /\ Fetchable /\ LintProfile
    /\ pc' = "failed"
    /\ UNCHANGED <<shards, layers, dir>>

Settled == pc # "fetched" /\ UNCHANGED vars

Next == Reject \/ Download \/ DownloadFails \/ Settled

Spec == Init /\ [][Next]_vars

\* Mutant: files are not counted.
VerifiesShards ==
    \A i \in Indices :
        /\ shards[i].name \in DOMAIN dir
        /\ dir[shards[i].name] = shards[i].digest
        /\ SizeOf[shards[i].digest] = shards[i].size

(* verifyPublishedPath: every shard is there under its name, with its size  *)
(* and digest, and the directory holds as many files as the profile shards. *)
Verifies ==
    /\ \A i \in Indices :
           /\ shards[i].name \in DOMAIN dir
           /\ dir[shards[i].name] = shards[i].digest
           /\ SizeOf[shards[i].digest] = shards[i].size
    /\ Cardinality(DOMAIN dir) = Len(shards)

-----------------------------------------------------------------------------
(* What LintProfile does not ask for: names of their own, one size for one  *)
(* digest, names without surrounding space, layers typed as shards.         *)
WellNamed ==
    /\ \A i, j \in Indices : shards[i].name = shards[j].name => i = j
    /\ \A i \in Indices : Trimmed[shards[i].name] = shards[i].name

WellTyped ==
    /\ \A i, j \in Indices : shards[i].digest = shards[j].digest => shards[i].size = shards[j].size
    /\ \A i \in DOMAIN layers : layers[i].isShard

(* A model that passes the lint and downloads is one that the verification  *)
(* accepts, provided the profile is well named and typed; so an answer      *)
(* READY is not followed by a refusal of the same directory.                *)
LintedModelVerifies ==
    pc = "downloaded" /\ WellNamed /\ WellTyped => Verifies

(* Whatever the profile, a directory that was downloaded and verifies has   *)
(* the bytes of every shard: a colliding name or a wrong size is caught by  *)
(* the verification, if not by the lint.                                    *)
VerifiedIsExact ==
    pc = "downloaded" /\ Verifies =>
        /\ WellNamed
        /\ DOMAIN dir = {shards[i].name : i \in Indices}
        /\ \A n \in DOMAIN dir : \E i \in Indices : n = shards[i].name /\ dir[n] = shards[i].digest
=============================================================================
