------------------------------ MODULE RefTable ------------------------------
(***************************************************************************)
(* What the service and its clients rely on in the GPU loader: a table of  *)
(* resident shards.  A shard keeps its address from its first load to the  *)
(* unload that leaves it without a user, two shards never share memory,    *)
(* and memory that somebody imports does not go.                           *)
(***************************************************************************)
EXTENDS Naturals

CONSTANTS Keys,     \* shards, by device and path
          Clients,  \* client ids of importers
          Ptrs,     \* addresses of device memory
          NoPtr

VARIABLES ptr,      \* ptr[k]: where k is resident, or NoPtr
          loads,    \* loads[k]: load references
          imports   \* imports[k][c]: importer references

vars == <<ptr, loads, imports>>

Init ==
    /\ ptr = [k \in Keys |-> NoPtr]
    /\ loads = [k \in Keys |-> 0]
    /\ imports = [k \in Keys |-> [c \in Clients |-> 0]]

FirstLoad(k) ==
    /\ ptr[k] = NoPtr
    /\ \E p \in Ptrs \ {ptr[j] : j \in Keys} : ptr' = [ptr EXCEPT ![k] = p]
    /\ loads' = [loads EXCEPT ![k] = 1]
    /\ UNCHANGED imports

Load(k) ==
    /\ ptr[k] # NoPtr
    /\ loads' = [loads EXCEPT ![k] = @ + 1]
    /\ UNCHANGED <<ptr, imports>>

Unload(k) ==
    /\ loads[k] > 1
    /\ loads' = [loads EXCEPT ![k] = @ - 1]
    /\ UNCHANGED <<ptr, imports>>

LastUnload(k) ==
    /\ loads[k] = 1 /\ \A c \in Clients : imports[k][c] = 0
    /\ ptr' = [ptr EXCEPT ![k] = NoPtr]
    /\ loads' = [loads EXCEPT ![k] = 0]
    /\ UNCHANGED imports

Attach(k, c) ==
    /\ ptr[k] # NoPtr
    /\ imports' = [imports EXCEPT ![k][c] = @ + 1]
    /\ UNCHANGED <<ptr, loads>>

Detach(k, c) ==
    /\ imports[k][c] > 0
    /\ imports' = [imports EXCEPT ![k][c] = @ - 1]
    /\ UNCHANGED <<ptr, loads>>

Next ==
    \E k \in Keys :
        \/ FirstLoad(k) \/ Load(k) \/ Unload(k) \/ LastUnload(k)
        \/ \E c \in Clients : Attach(k, c) \/ Detach(k, c)

Spec == Init /\ [][Next]_vars
=============================================================================
