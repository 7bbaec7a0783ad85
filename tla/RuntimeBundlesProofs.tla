------------------------ MODULE RuntimeBundlesProofs ------------------------
(***************************************************************************)
(* The runtime bundle tokens, for any number of allocations, tokens and    *)
(* files and any setting of the clock: lemmas about one step of the table, *)
(* and what they give of the specification.                                *)
(***************************************************************************)
EXTENDS RuntimeBundles, FiniteSetTheorems, TLAPS

Gets == [pc : {"idle", "resolved", "stream", "whole", "broken"},
         alloc : Allocs \cup {NoAlloc}, size : [Files -> Left],
         sent : [Files -> Left], next : 1..NumFiles + 1]

(* What the GET's places tell of what was listed and sent: a header can    *)
(* only follow a whole entry, so all but the last one sent are whole.      *)
SentInOrder ==
    /\ get.pc \in {"idle", "resolved"} => get.next = 1
    /\ get.pc = "stream" => /\ \A f \in Files : get.size[f] = "whole"
                            /\ \A f \in Files : f + 1 < get.next => get.sent[f] = "whole"
    /\ get.pc = "whole" => \A f \in Files : get.sent[f] = "whole"

BundleInv == TypeOK /\ IndexesAgree /\ TokensNameAllocations /\ SentInOrder

-----------------------------------------------------------------------------
(* The operators of the token table.                                       *)

LEMMA WithoutTokens ==
    ASSUME NEW lost
    PROVE  /\ DOMAIN Without(tokens, lost) = Live \ lost
           /\ \A t \in Live \ lost : Without(tokens, lost)[t] = tokens[t]
    BY DEF Without, Live

LEMMA LiveIsFinite ==
    ASSUME BundleAssumption, TypeOK
    PROVE  IsFiniteSet(Live) /\ Cardinality(Live) \in Nat
    <1>1. IsFiniteSet(1..seq)
        BY FS_Interval DEF TypeOK, BundleAssumption
    <1>2. IsFiniteSet(Live)
        BY <1>1, FS_Subset DEF TypeOK
    <1> QED
        BY <1>2, FS_CardinalityType

(* A smaller table is within the limit when the larger one is.             *)
LEMMA FewerTokens ==
    ASSUME BundleAssumption, TypeOK, NEW S, S \subseteq Live, Cardinality(Live) <= Limit
    PROVE  Cardinality(S) <= Limit
    <1>1. Cardinality(S) \in Nat /\ Cardinality(S) <= Cardinality(Live)
        BY LiveIsFinite, FS_Subset, FS_CardinalityType
    <1> QED
        BY <1>1, LiveIsFinite DEF BundleAssumption

(* What the eviction leaves of a finite table is within the limit.         *)
LEMMA SurplusFits ==
    ASSUME BundleAssumption, NEW table, IsFiniteSet(DOMAIN table), NEW lost \in Surplus(table)
    PROVE  /\ lost \subseteq DOMAIN table
           /\ Cardinality(DOMAIN table \ lost) <= Limit
           /\ lost # {} => DOMAIN table \ lost # {}
    <1>1. /\ lost \subseteq DOMAIN table
          /\ Cardinality(lost) = IF Cardinality(DOMAIN table) > Limit
                                 THEN Cardinality(DOMAIN table) - Limit ELSE 0
        BY DEF Surplus
    <1>2. Cardinality(DOMAIN table) \in Nat /\ IsFiniteSet(lost) /\ Cardinality(lost) \in Nat
        BY <1>1, FS_CardinalityType, FS_Subset
    <1>3. DOMAIN table \cap lost = lost
        BY <1>1
    <1>4. Cardinality(DOMAIN table \ lost) = Cardinality(DOMAIN table) - Cardinality(lost)
        BY <1>3, FS_Difference
    <1>5. Cardinality(DOMAIN table \ lost) <= Limit
        BY <1>1, <1>2, <1>4 DEF BundleAssumption
    <1>6. ASSUME lost # {} PROVE DOMAIN table \ lost # {}
        <2>1. Cardinality(lost) # 0
            BY <1>2, <1>6, FS_EmptySet
        <2>2. Cardinality(DOMAIN table \ lost) = Limit /\ Limit # 0
            BY <1>1, <1>2, <1>4, <2>1 DEF BundleAssumption
        <2> QED
            BY <2>2, FS_EmptySet
    <1> QED
        BY <1>1, <1>5, <1>6

-----------------------------------------------------------------------------
(* Types.                                                                   *)

LEMMA BundleTypesInit == ASSUME BundleAssumption, Init PROVE TypeOK
    <1>1. tokens = [t \in {} |-> NoGet] /\ Live = {}
        BY DEF Init, Live
    <1>2. NoGet \in Gets
        BY DEF Gets, BundleAssumption, NoGet, Files, Left
    <1>3. disk \in [Files -> Left] /\ byAlloc \in [Allocs -> SUBSET Tokens]
        BY DEF Init, Left
    <1> QED
        BY <1>1, <1>2, <1>3 DEF Init, TypeOK, Gets, BundleAssumption

LEMMA BundleTypesNext == ASSUME BundleAssumption, TypeOK, [Next]_vars PROVE TypeOK'
    <1> USE DEF BundleAssumption
    <1>1. ASSUME NEW a \in Allocs, Allocate(a) PROVE TypeOK'
        BY <1>1 DEF TypeOK, Allocate, Live
    <1>2. ASSUME NEW a \in Allocs, NEW t \in Tokens, Issue(a, t) PROVE TypeOK'
        <2> DEFINE table == [u \in (Live \ Expired) \cup {t} |->
                                 IF u = t THEN [alloc |-> a, at |-> now] ELSE tokens[u]]
        <2>1. PICK lost \in Surplus(table) :
                  /\ tokens' = Without(table, lost)
                  /\ byAlloc' = [b \in Allocs |->
                         ((byAlloc[b] \ Expired) \cup (IF b = a THEN {t} ELSE {})) \ lost]
            BY <1>2 DEF Issue
        <2>2. /\ Live' \subseteq Live \cup {t}
              /\ \A u \in Live' : tokens'[u] = IF u = t THEN [alloc |-> a, at |-> now] ELSE tokens[u]
            BY <2>1 DEF Live, Without
        <2> HIDE DEF table
        <2>3. Live' \subseteq 1..seq' /\ seq' \in 0..MaxTokens
            <3>1. t \in 1..MaxTokens /\ t = seq + 1 /\ seq' = t
                BY <1>2 DEF Issue, Tokens
            <3>2. \A u \in Live : u \in 1..seq /\ seq \in 0..MaxTokens
                BY DEF TypeOK
            <3> QED
                BY <2>2, <3>1, <3>2
        <2>4. \A u \in Live' : tokens'[u] \in [alloc : Allocs, at : 0..MaxTime]
            BY <2>2 DEF TypeOK
        <2>5. byAlloc' \in [Allocs -> SUBSET Tokens]
            BY <2>1 DEF TypeOK
        <2> QED
            BY <1>2, <2>3, <2>4, <2>5 DEF TypeOK, Issue
    <1>3. ASSUME NEW a \in Allocs, Revoke(a) PROVE TypeOK'
        BY <1>3 DEF TypeOK, Revoke, Live, Without
    <1>4. ASSUME NEW a \in Allocs, DeleteRecord(a) PROVE TypeOK'
        BY <1>4 DEF TypeOK, DeleteRecord, Live
    <1>5. ASSUME NEW t \in Tokens, Resolve(t) PROVE TypeOK'
        <2>1. /\ Live' = Live \ Expired /\ \A u \in Live' : tokens'[u] = tokens[u]
              /\ byAlloc' = [b \in Allocs |-> byAlloc[b] \ Expired]
            BY <1>5 DEF Resolve, Without, Live, IndexWithout
        <2>2. \/ get' = [get EXCEPT !.pc = "resolved", !.alloc = tokens[t].alloc] /\ t \in Live
              \/ get' = get
            BY <1>5 DEF Resolve
        <2>3. byAlloc' \in [Allocs -> SUBSET Tokens]
            BY <2>1 DEF TypeOK
        <2> QED
            BY <1>5, <2>1, <2>2, <2>3 DEF TypeOK, Resolve
    <1>6. ASSUME NEW f \in Files, Spoil(f) PROVE TypeOK'
        BY <1>6 DEF TypeOK, Spoil, Live
    <1>7. CASE Restart
        <2>1. Live' = {} /\ get' = NoGet
            BY <1>7 DEF Restart, Without, Live
        <2>2. get' \in Gets
            BY <2>1 DEF NoGet, Files, Left, Gets
        <2> QED
            BY <1>7, <2>1, <2>2 DEF TypeOK, Gets, Restart
    <1>8. CASE Tick
        BY <1>8 DEF TypeOK, Tick, Live
    <1>9. CASE List
        <2>1. get' \in {NoGet, [get EXCEPT !.pc = "stream", !.size = disk]}
            BY <1>9 DEF List
        <2>2. get' \in Gets
            <3>1. CASE get' = NoGet
                BY <3>1 DEF NoGet, Files, Left, Gets
            <3>2. CASE get' = [get EXCEPT !.pc = "stream", !.size = disk]
                BY <3>2 DEF TypeOK, Gets
            <3> QED
                BY <2>1, <3>1, <3>2
        <2> QED
            BY <1>9, <2>2 DEF TypeOK, Gets, List, Live
    <1>10. CASE SendFile
        <2>1. get.next \in Files
              /\ \/ get' = [get EXCEPT !.sent[get.next] = disk[get.next], !.next = @ + 1]
                 \/ get' = [get EXCEPT !.pc = "broken"]
            BY <1>10 DEF SendFile
        <2>2. disk[get.next] \in Left /\ get.next + 1 \in 1..NumFiles + 1
            BY <2>1 DEF TypeOK, Files
        <2>3. get' \in Gets
            <3>1. CASE get' = [get EXCEPT !.sent[get.next] = disk[get.next], !.next = @ + 1]
                <4>1. get'.sent = [get.sent EXCEPT ![get.next] = disk[get.next]]
                      /\ get'.next = get.next + 1
                      /\ get' = [get EXCEPT !.sent = get'.sent, !.next = get'.next]
                    BY <3>1 DEF TypeOK
                <4>2. get'.sent \in [Files -> Left]
                    BY <4>1, <2>2 DEF TypeOK
                <4> QED
                    BY <4>1, <4>2, <2>2 DEF TypeOK, Gets
            <3>2. CASE get' = [get EXCEPT !.pc = "broken"]
                BY <3>2 DEF TypeOK, Gets
            <3> QED
                BY <2>1, <3>1, <3>2
        <2> QED
            BY <1>10, <2>3 DEF TypeOK, Gets, SendFile, Live
    <1>11. CASE SendManifest
        BY <1>11 DEF TypeOK, SendManifest, Live
    <1>12. CASE Finish
        BY <1>12 DEF TypeOK, Finish, Live, NoGet, Files, Left
    <1>13. CASE UNCHANGED vars
        BY <1>13 DEF TypeOK, vars, Live
    <1> QED
        BY <1>1, <1>2, <1>3, <1>4, <1>5, <1>6, <1>7, <1>8, <1>9, <1>10, <1>11, <1>12, <1>13
        DEF Next

(* Every variable of the token service keeps its type.                      *)
THEOREM BundleTypes == ASSUME BundleAssumption PROVE Spec => []TypeOK
    BY BundleTypesInit, BundleTypesNext, PTL DEF Spec

-----------------------------------------------------------------------------
(* The two indexes.                                                         *)

LEMMA IssueTable ==
    ASSUME BundleAssumption, TypeOK, IndexesAgree, NEW a \in Allocs, NEW t \in Tokens, Issue(a, t)
    PROVE  /\ Live' \subseteq (Live \ Expired) \cup {t} /\ t \notin Live
           /\ Cardinality(Live') <= Limit
           /\ \A u \in Live' : tokens'[u] = IF u = t THEN [alloc |-> a, at |-> now] ELSE tokens[u]
           /\ \A b \in Allocs : byAlloc'[b] = {u \in Live' : tokens'[u].alloc = b}
           /\ t \in Live' \/ \E u \in Live \cap Live' : tokens[u].at >= now
           /\ \A old \in (Live \ Expired) \ Live', new \in Live \cap Live' :
                 tokens[old].at <= tokens[new].at
    <1> DEFINE table == [u \in (Live \ Expired) \cup {t} |->
                             IF u = t THEN [alloc |-> a, at |-> now] ELSE tokens[u]]
    <1>1. PICK lost \in Surplus(table) :
              /\ tokens' = Without(table, lost)
              /\ byAlloc' = [b \in Allocs |->
                     ((byAlloc[b] \ Expired) \cup (IF b = a THEN {t} ELSE {})) \ lost]
        BY DEF Issue
    <1>2. DOMAIN table = (Live \ Expired) \cup {t}
        OBVIOUS
    <1>3. t \notin Live
        BY DEF Issue, TypeOK
    <1>4. IsFiniteSet(DOMAIN table)
        BY <1>2, LiveIsFinite, FS_Subset, FS_AddElement
    <1>5. Live' = ((Live \ Expired) \cup {t}) \ lost
        BY <1>1 DEF Live, Without
    <1>6. \A u \in Live' : tokens'[u] = IF u = t THEN [alloc |-> a, at |-> now] ELSE tokens[u]
        BY <1>1, <1>5 DEF Without
    <1>7. \A old \in lost, new \in Live' : table[old].at <= table[new].at
        BY <1>2, <1>5 DEF Surplus
    <1>8. /\ lost \subseteq (Live \ Expired) \cup {t} /\ Cardinality(Live') <= Limit
          /\ lost # {} => Live' # {}
        BY <1>2, <1>4, <1>5, SurplusFits
    <1>9. \A u \in (Live \ Expired) \cup {t} :
              table[u].at = IF u = t THEN now ELSE tokens[u].at
        OBVIOUS
    <1> HIDE DEF table
    <1>10. t \in Live' \/ \E u \in Live \cap Live' : tokens[u].at >= now
        <2> SUFFICES ASSUME t \notin Live' PROVE \E u \in Live \cap Live' : tokens[u].at >= now
            OBVIOUS
        <2>1. t \in lost
            BY <1>5
        <2>2. PICK u \in Live' : TRUE
            BY <1>8, <2>1
        <2>3. u \in Live /\ table[t].at <= table[u].at
            BY <1>5, <1>7, <2>1, <2>2
        <2>4. tokens[u].at \in Int /\ now \in Int
            <3>1. tokens[u] \in [alloc : Allocs, at : 0..MaxTime]
                BY <2>3 DEF TypeOK
            <3> QED
                BY <3>1 DEF TypeOK, BundleAssumption
        <2>5. tokens[u].at >= now
            BY <1>5, <1>9, <2>2, <2>3, <2>4
        <2> QED
            BY <2>2, <2>3, <2>5
    <1>11. \A old \in (Live \ Expired) \ Live', new \in Live \cap Live' :
               tokens[old].at <= tokens[new].at
        BY <1>3, <1>5, <1>7, <1>9
    <1>12. ASSUME NEW b \in Allocs PROVE byAlloc'[b] = {u \in Live' : tokens'[u].alloc = b}
        <2>1. byAlloc[b] = {u \in Live : tokens[u].alloc = b}
            BY DEF IndexesAgree
        <2>2. byAlloc'[b] = ((byAlloc[b] \ Expired) \cup (IF b = a THEN {t} ELSE {})) \ lost
            BY <1>1
        <2>3. \A u \in Live' : tokens'[u].alloc = IF u = t THEN a ELSE tokens[u].alloc
            BY <1>6
        <2> QED
            BY <1>3, <1>5, <2>1, <2>2, <2>3
    <1> QED
        BY <1>3, <1>5, <1>6, <1>8, <1>10, <1>11, <1>12

LEMMA IndexesNext ==
    ASSUME BundleAssumption, TypeOK, IndexesAgree, [Next]_vars
    PROVE  IndexesAgree'
    <1> DEFINE Indexed == \A a \in Allocs : byAlloc[a] = {t \in Live : tokens[t].alloc = a}
    <1>0. Indexed /\ Cardinality(Live) <= Limit
        BY DEF IndexesAgree
    <1>1. ASSUME NEW a \in Allocs, NEW t \in Tokens, Issue(a, t) PROVE IndexesAgree'
        BY <1>1, IssueTable DEF IndexesAgree
    <1>2. ASSUME NEW a \in Allocs, Revoke(a) PROVE IndexesAgree'
        <2>1. /\ Live' = Live \ byAlloc[a] /\ \A u \in Live' : tokens'[u] = tokens[u]
              /\ \A b \in Allocs : byAlloc'[b] = IF b = a THEN {} ELSE byAlloc[b]
            BY <1>2 DEF Revoke, Without, Live, TypeOK
        <2>2. \A b \in Allocs : byAlloc'[b] = {u \in Live' : tokens'[u].alloc = b}
            BY <1>0, <2>1
        <2> QED
            BY <1>0, <2>1, <2>2, FewerTokens DEF IndexesAgree
    <1>3. ASSUME NEW t \in Tokens, Resolve(t) PROVE IndexesAgree'
        <2>1. /\ Live' = Live \ Expired /\ \A u \in Live' : tokens'[u] = tokens[u]
              /\ \A b \in Allocs : byAlloc'[b] = byAlloc[b] \ Expired
            BY <1>3 DEF Resolve, Without, Live, IndexWithout
        <2>2. \A b \in Allocs : byAlloc'[b] = {u \in Live' : tokens'[u].alloc = b}
            BY <1>0, <2>1
        <2> QED
            BY <1>0, <2>1, <2>2, FewerTokens DEF IndexesAgree
    <1>4. CASE Restart
        <2>1. Live' = {} /\ \A b \in Allocs : byAlloc'[b] = {}
            BY <1>4 DEF Restart, Without, Live
        <2> QED
            BY <2>1, FS_EmptySet DEF IndexesAgree, BundleAssumption
    <1>5. CASE UNCHANGED <<tokens, byAlloc>>
        BY <1>5 DEF IndexesAgree, Live
    <1> QED
        BY <1>1, <1>2, <1>3, <1>4, <1>5
        DEF Next, Allocate, DeleteRecord, Spoil, Tick, List, SendFile, SendManifest, Finish, vars

LEMMA NamesNext ==
    ASSUME BundleAssumption, TypeOK, IndexesAgree, TokensNameAllocations, [Next]_vars
    PROVE  TokensNameAllocations'
    <1>1. ASSUME NEW a \in Allocs, NEW t \in Tokens, Issue(a, t) PROVE TokensNameAllocations'
        <2>1. alloc' = [alloc EXCEPT ![a] = "answered"]
            BY <1>1 DEF Issue
        <2>2. \A b \in Allocs : alloc[b] = "answered" \/ b = a => alloc'[b] = "answered"
            BY <2>1 DEF TypeOK
        <2>3. \A u \in Live' : \/ tokens'[u].alloc = a
                               \/ u \in Live /\ tokens'[u].alloc = tokens[u].alloc
            <3>1. /\ Live' \subseteq (Live \ Expired) \cup {t}
                  /\ \A u \in Live' : tokens'[u] = IF u = t THEN [alloc |-> a, at |-> now] ELSE tokens[u]
                BY <1>1, IssueTable
            <3> SUFFICES ASSUME NEW u \in Live'
                         PROVE  tokens'[u].alloc = a \/ (u \in Live /\ tokens'[u].alloc = tokens[u].alloc)
                OBVIOUS
            <3>2. CASE u = t
                BY <3>1, <3>2
            <3>3. CASE u # t
                BY <3>1, <3>3
            <3> QED
                BY <3>2, <3>3
        <2> QED
            BY <2>2, <2>3 DEF TokensNameAllocations, TypeOK
    <1>2. ASSUME NEW a \in Allocs, Revoke(a) PROVE TokensNameAllocations'
        <2>1. /\ Live' = Live \ byAlloc[a] /\ \A u \in Live' : tokens'[u] = tokens[u]
              /\ \A b \in Allocs : b # a => alloc'[b] = alloc[b]
            BY <1>2 DEF Revoke, Without, Live, TypeOK
        <2>2. \A u \in Live' : tokens[u].alloc # a /\ tokens[u].alloc \in Allocs
            BY <2>1 DEF IndexesAgree, TypeOK
        <2> QED
            BY <2>1, <2>2 DEF TokensNameAllocations
    <1>3. ASSUME NEW t \in Tokens, Resolve(t) PROVE TokensNameAllocations'
        BY <1>3 DEF Resolve, Without, Live, TokensNameAllocations
    <1>4. ASSUME NEW a \in Allocs, Allocate(a) \/ DeleteRecord(a) PROVE TokensNameAllocations'
        BY <1>4 DEF Allocate, DeleteRecord, TokensNameAllocations, TypeOK, Live
    <1>5. CASE Restart
        BY <1>5 DEF Restart, Without, Live, TokensNameAllocations
    <1>6. CASE UNCHANGED <<alloc, tokens>>
        BY <1>6 DEF TokensNameAllocations, Live
    <1> QED
        BY <1>1, <1>2, <1>3, <1>4, <1>5, <1>6
        DEF Next, Spoil, Tick, List, SendFile, SendManifest, Finish, vars

-----------------------------------------------------------------------------
(* The bundle.                                                              *)

LEMMA SentNext ==
    ASSUME BundleAssumption, TypeOK, SentInOrder, [Next]_vars
    PROVE  SentInOrder'
    <1>1. CASE List
        <2>1. CASE get' = NoGet
            BY <2>1 DEF SentInOrder, NoGet
        <2>2. CASE get' = [get EXCEPT !.pc = "stream", !.size = disk]
            <3>1. get'.pc = "stream" /\ get'.size = disk /\ get'.next = get.next /\ get.next = 1
                BY <1>1, <2>2 DEF List, SentInOrder, TypeOK
            <3>2. \A f \in Files : disk[f] = "whole" \/ get' = NoGet
                BY <1>1 DEF List
            <3>3. NoGet.pc = "idle"
                BY DEF NoGet
            <3> QED
                BY <3>1, <3>2, <3>3 DEF SentInOrder, Files
        <2> QED
            BY <1>1, <2>1, <2>2 DEF List
    <1>2. CASE SendFile
        <2>1. CASE get' = [get EXCEPT !.pc = "broken"]
            BY <2>1 DEF SentInOrder, TypeOK
        <2>2. CASE /\ get' = [get EXCEPT !.sent[get.next] = disk[get.next], !.next = @ + 1]
                   /\ MayWriteHeader(get)
            <3>1. /\ get'.pc = "stream" /\ get'.size = get.size /\ get'.next = get.next + 1
                  /\ \A f \in Files : f # get.next => get'.sent[f] = get.sent[f]
                BY <1>2, <2>2 DEF SendFile, TypeOK
            <3>2. \A f \in Files : f + 1 = get.next => get.sent[f] = "whole"
                BY <1>2, <2>2 DEF SendFile, MayWriteHeader, SentInOrder, Files, TypeOK
            <3>3. ASSUME NEW f \in Files, f + 1 < get'.next
                  PROVE  get'.sent[f] = "whole"
                BY <1>2, <3>1, <3>2, <3>3 DEF SendFile, SentInOrder, Files, TypeOK
            <3> QED
                BY <1>2, <3>1, <3>3 DEF SendFile, SentInOrder
        <2> QED
            BY <1>2, <2>1, <2>2 DEF SendFile
    <1>3. CASE SendManifest
        <2>1. CASE get' = [get EXCEPT !.pc = "broken"]
            BY <2>1 DEF SentInOrder, TypeOK
        <2>2. CASE get' = [get EXCEPT !.pc = "whole"] /\ MayWriteHeader(get)
            <3>1. get'.pc = "whole" /\ get'.sent = get.sent /\ get.next = NumFiles + 1
                  /\ get.pc = "stream"
                BY <1>3, <2>2 DEF SendManifest, TypeOK
            <3>2. ASSUME NEW f \in Files PROVE get.sent[f] = "whole"
                <4>1. CASE f = NumFiles
                    BY <2>2, <3>1, <4>1 DEF MayWriteHeader, SentInOrder, Files, BundleAssumption
                <4>2. CASE f # NumFiles
                    BY <3>1, <4>2 DEF SentInOrder, Files, BundleAssumption
                <4> QED
                    BY <4>1, <4>2
            <3> QED
                BY <3>1, <3>2 DEF SentInOrder
        <2> QED
            BY <1>3, <2>1, <2>2 DEF SendManifest
    <1>4. CASE Finish \/ Restart
        BY <1>4 DEF Finish, Restart, SentInOrder, NoGet
    <1>5. ASSUME NEW t \in Tokens, Resolve(t) PROVE SentInOrder'
        BY <1>5 DEF Resolve, SentInOrder, TypeOK
    <1>6. CASE UNCHANGED get
        BY <1>6 DEF SentInOrder
    <1> QED
        BY <1>1, <1>2, <1>3, <1>4, <1>5, <1>6
        DEF Next, Allocate, Issue, Revoke, DeleteRecord, Spoil, Tick, vars

-----------------------------------------------------------------------------
(* The invariant.                                                           *)

LEMMA BundleInvInit == ASSUME BundleAssumption, Init PROVE BundleInv
    <1>1. Live = {} /\ get.pc = "idle" /\ get.next = 1 /\ \A a \in Allocs : byAlloc[a] = {}
        BY DEF Init, Live, NoGet
    <1>2. Cardinality(Live) = 0
        BY <1>1, FS_EmptySet
    <1> QED
        BY <1>1, <1>2, BundleTypesInit
        DEF BundleInv, IndexesAgree, TokensNameAllocations, SentInOrder, BundleAssumption

LEMMA BundleInvNext == ASSUME BundleAssumption, BundleInv, [Next]_vars PROVE BundleInv'
    BY BundleTypesNext, IndexesNext, NamesNext, SentNext DEF BundleInv

(* Eviction and expiry in a step that issues.                               *)
LEMMA OldestEvicted ==
    ASSUME BundleAssumption, BundleInv, NEW a \in Allocs, NEW t \in Tokens, Issue(a, t)
    PROVE  /\ \A old \in (Live \ Expired) \ Live', new \in Live \cap Live' :
                  tokens[old].at <= tokens[new].at
           /\ (\A u \in Live : tokens[u].at < now) => t \in Live'
    <1>1. \A u \in Live : tokens[u].at \in Int /\ now \in Int
        BY DEF BundleInv, TypeOK, BundleAssumption
    <1>2. /\ \A old \in (Live \ Expired) \ Live', new \in Live \cap Live' :
                 tokens[old].at <= tokens[new].at
          /\ t \in Live' \/ \E u \in Live \cap Live' : tokens[u].at >= now
        BY IssueTable DEF BundleInv
    <1> QED
        BY <1>1, <1>2

(* The two indexes of runtime_bundle_token.go name the same tokens, and the *)
(* table keeps its limit, for any limit, time to live and clock.            *)
THEOREM IndexesStayEqual == ASSUME BundleAssumption PROVE Spec => []IndexesAgree
    <1>1. BundleInv => IndexesAgree
        BY DEF BundleInv
    <1> QED
        BY <1>1, BundleInvInit, BundleInvNext, PTL DEF Spec

(* A token that can be fetched belongs to an allocation that was answered   *)
(* and is not being unloaded.                                               *)
THEOREM TokensAreAnswered == ASSUME BundleAssumption PROVE Spec => []TokensNameAllocations
    <1>1. BundleInv => TokensNameAllocations
        BY DEF BundleInv
    <1> QED
        BY <1>1, BundleInvInit, BundleInvNext, PTL DEF Spec

(* enforceRuntimeBundleTokenLimitLocked evicts the oldest tokens only, and  *)
(* never the new one unless the clock stands still or went back.            *)
THEOREM OnlyTheOldestGo == ASSUME BundleAssumption PROVE Spec => EvictsTheOldest
    <1>1. BundleInv /\ [Next]_vars =>
             [\A a \in Allocs, t \in Tokens : Issue(a, t) =>
                 /\ \A old \in (Live \ Expired) \ Live', new \in Live \cap Live' :
                        tokens[old].at <= tokens[new].at
                 /\ (\A u \in Live : tokens[u].at < now) => t \in Live']_vars
        BY OldestEvicted
    <1> QED
        BY <1>1, BundleInvInit, BundleInvNext, PTL DEF Spec, EvictsTheOldest

(* A tar that ends with the manifest has every file to its last byte.       *)
THEOREM BundlesEndWhole == ASSUME BundleAssumption PROVE Spec => []ManifestEndsWholeBundles
    <1>1. BundleInv => ManifestEndsWholeBundles
        BY DEF BundleInv, SentInOrder, ManifestEndsWholeBundles
    <1> QED
        BY <1>1, BundleInvInit, BundleInvNext, PTL DEF Spec
=============================================================================
