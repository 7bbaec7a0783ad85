--------------------------- MODULE RuntimeBundles ---------------------------
(***************************************************************************)
(* runtime_bundle_token.go, runtime_bundle.go and handleRuntimeBundleToken *)
(* (daemon/server.go): every allocation that is answered READY comes with  *)
(* a token, good for a while, for one tar of the model's files.  Tokens    *)
(* have two indexes, one by token and one by allocation, under one mutex;  *)
(* the allocations are records of the state store, under another lock.     *)
(***************************************************************************)
EXTENDS Naturals, FiniteSets

CONSTANTS Allocs, NoAlloc,
          MaxTokens, \* bound of bundleSeq
          Limit,     \* MaxRuntimeBundleTokens
          TTL,       \* bundleTTL
          MaxTime,   \* bound of the clock
          NumFiles   \* files of a bundle

BundleAssumption ==
    /\ MaxTokens \in Nat /\ NoAlloc \notin Allocs
    /\ Limit \in Nat \ {0} /\ TTL \in Nat /\ MaxTime \in Nat /\ NumFiles \in Nat \ {0}

VARIABLES now,       \* the wall clock: .UTC() drops the monotonic reading
          alloc,     \* alloc[a]: an allocation's record, and how far its request is
          tokens,    \* bundleMap: the allocation and creation time of a token
          byAlloc,   \* bundleByAllocation
          seq,       \* bundleSeq, which keeps tokens distinct
          disk,      \* disk[f]: what is left of a file
          get        \* a GET of a bundle: its place, allocation, sizes, what was sent

vars == <<now, alloc, tokens, byAlloc, seq, disk, get>>

Files == 1..NumFiles

Tokens == 1..MaxTokens

Live == DOMAIN tokens

Left == {"gone", "cut", "whole"}

NoGet == [pc |-> "idle", alloc |-> NoAlloc,
          size |-> [f \in Files |-> "gone"], sent |-> [f \in Files |-> "gone"], next |-> 1]

TypeOK ==
    /\ now \in 0..MaxTime
    /\ alloc \in [Allocs -> {"unused", "stored", "answered", "revoked", "gone"}]
    /\ seq \in 0..MaxTokens /\ Live \subseteq 1..seq
    /\ \A t \in Live : tokens[t] \in [alloc : Allocs, at : 0..MaxTime]
    /\ byAlloc \in [Allocs -> SUBSET Tokens]
    /\ disk \in [Files -> Left]
    /\ get \in [pc : {"idle", "resolved", "stream", "whole", "broken"},
                alloc : Allocs \cup {NoAlloc}, size : [Files -> Left],
                sent : [Files -> Left], next : 1..NumFiles + 1]

Init ==
    /\ now = 0 /\ seq = 0 /\ tokens = [t \in {} |-> NoGet]
    /\ alloc = [a \in Allocs |-> "unused"]
    /\ byAlloc = [a \in Allocs |-> {}]
    /\ disk = [f \in Files |-> "whole"]
    /\ get = NoGet

-----------------------------------------------------------------------------
(* The token table.                                                         *)
Stored(a) == alloc[a] \in {"stored", "answered", "revoked"}

Expired == {t \in Live : now > tokens[t].at + TTL}

(* deleteRuntimeBundleTokenLocked, for every token of `lost`.               *)
Without(table, lost) == [t \in DOMAIN table \ lost |-> table[t]]

\* Mutant: expiry forgets the second index.
IndexKept(lost) == [a \in Allocs |-> byAlloc[a]]

IndexWithout(lost) == [a \in Allocs |-> byAlloc[a] \ lost]

\* Mutant: the newest go first.
SurplusNewest(table) ==
    {lost \in SUBSET DOMAIN table :
        /\ Cardinality(lost) = IF Cardinality(DOMAIN table) > Limit
                               THEN Cardinality(DOMAIN table) - Limit ELSE 0
        /\ \A new \in lost, old \in DOMAIN table \ lost : table[old].at <= table[new].at}

(* What enforceRuntimeBundleTokenLimitLocked evicts: the oldest, and among  *)
(* tokens of one instant any, as their hashes fall.                         *)
Surplus(table) ==
    {lost \in SUBSET DOMAIN table :
        /\ Cardinality(lost) = IF Cardinality(DOMAIN table) > Limit
                               THEN Cardinality(DOMAIN table) - Limit ELSE 0
        /\ \A old \in lost, new \in DOMAIN table \ lost : table[old].at <= table[new].at}

(* GPUAllocate stores its record and loads.                                 *)
Allocate(a) ==
    /\ alloc[a] = "unused"
    /\ alloc' = [alloc EXCEPT ![a] = "stored"]
    /\ UNCHANGED <<now, tokens, byAlloc, seq, disk, get>>

(* issueRuntimeBundleToken, as GPUAllocate answers READY.  The answer is the*)
(* first that a client hears of the allocation's id, so no unload of it can *)
(* come between the record and the token.                                   *)
Issue(a, t) ==
    /\ alloc[a] = "stored" /\ t = seq + 1
    /\ alloc' = [alloc EXCEPT ![a] = "answered"]
    /\ seq' = t
    /\ LET table == [u \in (Live \ Expired) \cup {t} |->
                        IF u = t THEN [alloc |-> a, at |-> now] ELSE tokens[u]]
       IN \E lost \in Surplus(table) :
              /\ tokens' = Without(table, lost)
              /\ byAlloc' = [b \in Allocs |->
                    ((byAlloc[b] \ Expired) \cup (IF b = a THEN {t} ELSE {})) \ lost]
    /\ UNCHANGED <<now, disk, get>>

\* Mutant: a revocation drops the index and leaves the tokens.
RevokeIndexOnly(a) ==
    /\ Stored(a)
    /\ alloc' = [alloc EXCEPT ![a] = "revoked"]
    /\ byAlloc' = [byAlloc EXCEPT ![a] = {}]
    /\ UNCHANGED <<now, tokens, seq, disk, get>>

(* GPUUnload, and GPUAllocate when the load fails: first the tokens, then   *)
(* the record.  If the record cannot be deleted, unload is called again.    *)
Revoke(a) ==
    /\ Stored(a)
    /\ alloc' = [alloc EXCEPT ![a] = "revoked"]
    /\ tokens' = Without(tokens, byAlloc[a])
    /\ byAlloc' = [byAlloc EXCEPT ![a] = {}]
    /\ UNCHANGED <<now, seq, disk, get>>

DeleteRecord(a) ==
    /\ alloc[a] = "revoked"
    /\ alloc' = [alloc EXCEPT ![a] = "gone"]
    /\ UNCHANGED <<now, tokens, byAlloc, seq, disk, get>>

(* Recover: first the records, then the tokens of the new process: none.    *)
Restart ==
    /\ alloc' = [a \in Allocs |-> IF alloc[a] = "unused" THEN "unused" ELSE "gone"]
    /\ tokens' = Without(tokens, Live)
    /\ byAlloc' = [a \in Allocs |-> {}]
    /\ get' = NoGet
    /\ UNCHANGED <<now, seq, disk>>

(* Time passes, or the clock is set back.                                   *)
Tick ==
    /\ now' \in {now + 1, now - 1} \cap 0..MaxTime
    /\ UNCHANGED <<alloc, tokens, byAlloc, seq, disk, get>>

-----------------------------------------------------------------------------
(* The bundle.                                                              *)

(* resolveRuntimeBundleToken cleans up before it looks.                     *)
Resolve(t) ==
    /\ get.pc = "idle" /\ t <= seq
    /\ tokens' = Without(tokens, Expired)
    /\ byAlloc' = IndexWithout(Expired)
    /\ get' = IF t \in Live \ Expired
              THEN [get EXCEPT !.pc = "resolved", !.alloc = tokens[t].alloc]
              ELSE get
    /\ UNCHANGED <<now, alloc, seq, disk>>

(* RuntimeBundle verifies the directory and lists its files with their      *)
(* sizes.                                                                   *)
List ==
    /\ get.pc = "resolved"
    /\ get' = IF Stored(get.alloc) /\ \A f \in Files : disk[f] = "whole"
              THEN [get EXCEPT !.pc = "stream", !.size = disk]
              ELSE NoGet
    /\ UNCHANGED <<now, alloc, tokens, byAlloc, seq, disk>>

(* A directory is removed file by file; a file system error cuts one short. *)
Spoil(f) ==
    /\ disk[f] # "gone"
    /\ \E left \in Left \ {"whole", disk[f]} : disk' = [disk EXCEPT ![f] = left]
    /\ UNCHANGED <<now, alloc, tokens, byAlloc, seq, get>>

\* Mutant: an error of WriteHeader is not looked at.
HeaderAnyway(g) == TRUE

(* A header can only follow the last byte of the file before it: archive/tar*)
(* refuses it otherwise (external).                                         *)
MayWriteHeader(g) == g.next > 1 => g.sent[g.next - 1] = g.size[g.next - 1]

(* One file: open, header, copy.  The client may hang up at any time.  A    *)
(* file that cannot be opened ends a well-formed tar.                       *)
SendFile ==
    /\ get.pc = "stream" /\ get.next \in Files
    /\ \/ /\ disk[get.next] # "gone" /\ MayWriteHeader(get)
          /\ get' = [get EXCEPT !.sent[get.next] = disk[get.next], !.next = @ + 1]
       \/ get' = [get EXCEPT !.pc = "broken"]
    /\ UNCHANGED <<now, alloc, tokens, byAlloc, seq, disk>>

(* _oci2gds_runtime_bundle.json is the last entry.                          *)
SendManifest ==
    /\ get.pc = "stream" /\ get.next = NumFiles + 1
    /\ \/ /\ MayWriteHeader(get)
          /\ get' = [get EXCEPT !.pc = "whole"]
       \/ get' = [get EXCEPT !.pc = "broken"]
    /\ UNCHANGED <<now, alloc, tokens, byAlloc, seq, disk>>

Finish ==
    /\ get.pc \in {"whole", "broken"}
    /\ get' = NoGet
    /\ UNCHANGED <<now, alloc, tokens, byAlloc, seq, disk>>

Next ==
    \/ \E a \in Allocs :
           \/ Allocate(a) \/ Revoke(a) \/ DeleteRecord(a)
           \/ \E t \in Tokens : Issue(a, t)
    \/ \E t \in Tokens : Resolve(t)
    \/ \E f \in Files : Spoil(f)
    \/ Restart \/ Tick \/ List \/ SendFile \/ SendManifest \/ Finish

Spec == Init /\ [][Next]_vars

-----------------------------------------------------------------------------
(* The two indexes name the same tokens, through issues, evictions,         *)
(* expiries and revocations in any order, and the table is never over its   *)
(* limit when the mutex is free.                                            *)
IndexesAgree ==
    /\ \A a \in Allocs : byAlloc[a] = {t \in Live : tokens[t].alloc = a}
    /\ Cardinality(Live) <= Limit

(* No token outlives its allocation: what an unload answered for cannot be  *)
(* fetched any more, and a token never names a record that is not stored.   *)
TokensNameAllocations ==
    \A t \in Live : alloc[tokens[t].alloc] = "answered"

(* Only the oldest tokens are evicted: whatever expires or is pushed out by *)
(* a new token is older than all that stay, so a client that was just       *)
(* answered keeps its token unless the clock stands still or is set back.   *)
EvictsTheOldest ==
    [][\A a \in Allocs, t \in Tokens : Issue(a, t) =>
           /\ \A old \in (Live \ Expired) \ Live', new \in Live \cap Live' :
                  tokens[old].at <= tokens[new].at
           /\ (\A u \in Live : tokens[u].at < now) => t \in Live']_vars

(* A tar with the manifest entry has every file to its last byte, although  *)
(* the model may be released, collected or damaged while it is sent.  A tar *)
(* that is well-formed but lacks the entry may lack files.                  *)
ManifestEndsWholeBundles ==
    get.pc = "whole" => \A f \in Files : get.sent[f] = "whole"
=============================================================================
