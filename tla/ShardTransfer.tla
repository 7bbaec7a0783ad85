--------------------------- MODULE ShardTransfer ---------------------------
(***************************************************************************)
(* gds_load_persistent (gpu/gds_linux_bridge.c) and the use LoadPersistent *)
(* (gpu/gds_linux.go) makes of its answer: a shard is moved into device    *)
(* memory by cuFile, its last partial block through a bounce buffer, and,  *)
(* unless the caller is strict, by the host when cuFile cannot.  Every     *)
(* call of CUDA, cuFile and the kernel may fail or move less than asked.   *)
(* A byte stands for a part of a block of 4096; Block of them make one.    *)
(***************************************************************************)
EXTENDS Naturals, FiniteSetsExt

CONSTANTS Block,     \* bytes of a block
          Sizes,     \* sizes of shards, in bytes
          Chunks     \* requested chunk_bytes

TransferAssumption ==
    /\ Block \in Nat \ {0}
    /\ Sizes \subseteq Nat /\ Chunks \subseteq Nat

VARIABLES pc,
          job,       \* file_size, chunk, strict
          direct,    \* direct_only
          fd,        \* the descriptor the code would close
          held,      \* what the call has taken and not given back
          off,       \* file_off
          by,        \* who moved the bytes that are in device memory
          rc         \* the answer: total_bytes, out_direct

vars == <<pc, job, direct, fd, held, off, by, rc>>

Descriptors == {"fdDirect", "fdPlain"}

Resources == Descriptors \cup {"ctx", "handle", "dptr", "buf", "tail", "tailBuf", "host"}

Places == {"idle", "open", "alloc", "handle", "buf", "read", "tail", "tailBuf", "tailRead",
           "fallBack", "malloc", "copy", "clock", "cleanup", "return"}

Failed == [ok |-> FALSE, total |-> 0, direct |-> FALSE]

RoundDown(n) == (n \div Block) * Block

ChunkOf(bytes) == IF bytes < Block THEN Block ELSE RoundDown(bytes)

DirectSize == RoundDown(job.size)

Jobs == [size : Sizes, chunk : {ChunkOf(n) : n \in Chunks}, strict : BOOLEAN]

TypeOK ==
    /\ pc \in Places
    /\ job \in Jobs
    /\ direct \in BOOLEAN
    /\ fd \in Descriptors \cup {"none"}
    /\ held \in SUBSET Resources
    /\ off \in 0..job.size
    /\ by \in [0..job.size - 1 -> {"nobody", "cuFile", "host"}]
    /\ rc \in [ok : BOOLEAN, total : 0..job.size, direct : BOOLEAN]

Untouched(j) == [i \in 0..j.size - 1 |-> "nobody"]

Init ==
    /\ pc = "idle" /\ job \in Jobs
    /\ direct = TRUE /\ fd = "none" /\ held = {} /\ off = 0
    /\ by = Untouched(job) /\ rc = Failed

-----------------------------------------------------------------------------
Goto(place) == pc' = place

(* goto cleanup with an error.                                              *)
Fail ==
    /\ Goto("cleanup")
    /\ rc' = Failed
    /\ UNCHANGED <<job, direct, fd, off, by>>

(* A step of the direct path failed: strict fails, the others fall back,    *)
(* and give back `loose`, what only this step had taken.                    *)
Trouble(loose) ==
    \/ job.strict /\ Fail /\ UNCHANGED held
    \/ /\ ~job.strict
       /\ Goto("fallBack") /\ direct' = FALSE /\ held' = held \ loose
       /\ UNCHANGED <<job, fd, off, by, rc>>

Take(resource, next) ==
    /\ held' = held \cup {resource}
    /\ Goto(next)
    /\ UNCHANGED <<job, direct, fd, off, by, rc>>

(* n bytes arrive in device memory at offset off.                           *)
Moved(n, who) ==
    /\ by' = [i \in DOMAIN by |-> IF i \in off..off + n - 1 THEN who ELSE by[i]]
    /\ off' = off + n

(* A call begins: gds_activate_device, cuCtxPushCurrent.                    *)
Activate ==
    /\ pc = "idle"
    /\ \/ Take("ctx", "open")
       \/ Goto("return") /\ UNCHANGED <<job, direct, fd, held, off, by, rc>>

(* Strict callers need O_DIRECT.                                            *)
Open ==
    /\ pc = "open"
    /\ \/ \E d \in BOOLEAN :
              /\ job.strict => d
              /\ direct' = d /\ fd' = (IF d THEN "fdDirect" ELSE "fdPlain")
              /\ held' = held \cup {fd'}
              /\ Goto("alloc")
              /\ UNCHANGED <<job, off, by, rc>>
       \/ Fail /\ UNCHANGED held

(* fstat, cudaSetDevice, cudaMalloc; an empty file is refused.              *)
Alloc ==
    /\ pc = "alloc"
    /\ \/ job.size > 0 /\ Take("dptr", IF direct THEN "handle" ELSE "malloc")
       \/ Fail /\ UNCHANGED held

RegisterHandle ==
    /\ pc = "handle"
    /\ Take("handle", IF DirectSize > 0 THEN "buf" ELSE "tail") \/ Trouble({})

RegisterBuf ==
    /\ pc = "buf"
    /\ Take("buf", "read") \/ Trouble({})

\* Mutant: a short read may end anywhere.
ReadShort ==
    /\ pc = "read"
    /\ \/ \E n \in 1..Min({job.chunk, DirectSize - off}) :
              /\ Moved(n, "cuFile")
              /\ Goto(IF off + n < DirectSize THEN "read" ELSE "tail")
              /\ UNCHANGED <<job, direct, fd, held, rc>>
       \/ Goto("tail") /\ UNCHANGED <<job, direct, fd, held, off, by, rc>>
       \/ Trouble({})

(* cuFileRead of whole blocks.  A short read must end on a block, or at the *)
(* end; a read of nothing leaves the rest to the tail.                      *)
ReadDirect ==
    /\ pc = "read"
    /\ \/ \E n \in 1..Min({job.chunk, DirectSize - off}) :
              IF n % Block # 0 /\ off + n < DirectSize
              THEN Trouble({})
              ELSE /\ Moved(n, "cuFile")
                   /\ Goto(IF off + n < DirectSize THEN "read" ELSE "tail")
                   /\ UNCHANGED <<job, direct, fd, held, rc>>
       \/ Goto("tail") /\ UNCHANGED <<job, direct, fd, held, off, by, rc>>
       \/ Trouble({})

(* The rest, if any, goes through a buffer of one block.                    *)
TailAlloc ==
    /\ pc = "tail"
    /\ IF off = job.size
       THEN Goto("clock") /\ UNCHANGED <<job, direct, fd, held, off, by, rc>>
       ELSE Take("tail", "tailBuf") \/ Trouble({})

TailRegister ==
    /\ pc = "tailBuf"
    /\ Take("tailBuf", "tailRead") \/ Trouble({"tail"})

(* cuFileRead into the buffer, cuMemcpyDtoD into place.                     *)
TailRead ==
    /\ pc = "tailRead"
    /\ \/ Trouble({"tail", "tailBuf"})
       \/ Fail /\ UNCHANGED held
       \/ \E n \in 1..Min({Block, job.size - off}) :
              /\ Moved(n, "cuFile")
              /\ IF off + n = job.size
                 THEN /\ Goto("clock") /\ held' = held \ {"tail", "tailBuf"}
                      /\ UNCHANGED <<direct, rc>>
                 ELSE IF job.strict
                      THEN Goto("cleanup") /\ rc' = Failed /\ UNCHANGED <<direct, held>>
                      ELSE /\ Goto("fallBack") /\ direct' = FALSE
                           /\ held' = held \ {"tail", "tailBuf"} /\ UNCHANGED rc
              /\ UNCHANGED <<job, fd>>

\* Mutant: the file is opened again without being closed.
FallBackOpen ==
    /\ pc = "fallBack"
    /\ held' = (held \ {"buf", "handle"}) \cup {"fdPlain"} /\ fd' = "fdPlain"
    /\ off' = 0 /\ Goto("malloc")
    /\ UNCHANGED <<job, direct, by, rc>>

(* Registrations and the O_DIRECT descriptor go; the file is opened again.  *)
FallBack ==
    /\ pc = "fallBack"
    /\ LET rest == held \ {"buf", "handle", fd}
       IN \/ /\ held' = rest \cup {"fdPlain"} /\ fd' = "fdPlain"
             /\ off' = 0 /\ Goto("malloc")
             /\ UNCHANGED <<job, direct, by, rc>>
          \/ /\ held' = rest /\ fd' = "none"
             /\ rc' = Failed /\ Goto("cleanup")
             /\ UNCHANGED <<job, direct, off, by>>

Malloc ==
    /\ pc = "malloc"
    /\ \/ /\ held' = held \cup {"host"} /\ off' = 0 /\ Goto("copy")
          /\ UNCHANGED <<job, direct, fd, by, rc>>
       \/ Fail /\ UNCHANGED held

(* pread and cuMemcpyHtoD; the end of a file that has shrunk ends the copy. *)
HostCopy ==
    /\ pc = "copy"
    /\ \/ \E n \in 1..Min({job.chunk, job.size - off}) :
              /\ Moved(n, "host")
              /\ Goto(IF off + n < job.size THEN "copy" ELSE "clock")
              /\ UNCHANGED <<job, direct, fd, held, rc>>
       \/ Goto("clock") /\ UNCHANGED <<job, direct, fd, held, off, by, rc>>
       \/ Fail /\ UNCHANGED held

\* Mutant: the answer names the size of the file, not what was moved.
ClockClaims ==
    /\ pc = "clock"
    /\ held' = held \ {"buf", "handle"}
    /\ rc' = [ok |-> TRUE, total |-> job.size, direct |-> direct]
    /\ Goto("cleanup")
    /\ UNCHANGED <<job, direct, fd, off, by>>

(* clock_gettime; then the memory is the caller's.                          *)
Clock ==
    /\ pc = "clock"
    /\ \/ /\ held' = held \ {"buf", "handle"}
          /\ rc' = [ok |-> TRUE, total |-> off, direct |-> direct]
          /\ Goto("cleanup")
          /\ UNCHANGED <<job, direct, fd, off, by>>
       \/ Fail /\ UNCHANGED held

Cleanup ==
    /\ pc = "cleanup"
    /\ held' = (IF rc.ok THEN held \cap {"dptr"} ELSE {}) \cup (held \cap (Descriptors \ {fd}))
    /\ Goto("return")
    /\ UNCHANGED <<job, direct, fd, off, by, rc>>

(* LoadPersistent puts the memory into its table, which is GpuLoader's      *)
(* CopyEnds, or frees what is shorter than the file; a new call begins.     *)
Accept == rc.ok /\ rc.total = job.size

Return ==
    /\ pc = "return"
    /\ Goto("idle")
    /\ job' \in Jobs
    /\ direct' = TRUE /\ fd' = "none" /\ held' = {} /\ off' = 0
    /\ by' = Untouched(job') /\ rc' = Failed

Next ==
    \/ Activate \/ Open \/ Alloc \/ RegisterHandle \/ RegisterBuf \/ ReadDirect
    \/ TailAlloc \/ TailRegister \/ TailRead \/ FallBack \/ Malloc \/ HostCopy
    \/ Clock \/ Cleanup \/ Return

Spec == Init /\ [][Next]_vars

-----------------------------------------------------------------------------
(* Whatever failed and wherever the direct path was left for the host, a    *)
(* call gives back all it took; a successful one keeps the device memory.   *)
NothingLeaks ==
    pc = "return" => held = IF rc.ok THEN {"dptr"} ELSE {}

(* A shard that LoadPersistent accepts is in device memory to its last      *)
(* byte; when the answer says direct, cuFile moved every one of them, and   *)
(* a strict caller gets no other.                                           *)
AcceptedIsWhole ==
    pc = "return" /\ Accept =>
        /\ \A i \in 0..job.size - 1 : by[i] # "nobody"
        /\ rc.direct => \A i \in 0..job.size - 1 : by[i] = "cuFile"
        /\ ~rc.direct => \A i \in 0..job.size - 1 : by[i] = "host"
        /\ job.strict => rc.direct

(* cuFile is asked for whole blocks at whole blocks only, as O_DIRECT wants,*)
(* and for none past the registered part of the memory, after any number of *)
(* short reads; the bounce buffer holds what is left.                       *)
DirectReadsAreAligned ==
    /\ pc \in {"read", "tail", "tailBuf", "tailRead"} => off % Block = 0 \/ off = job.size
    /\ pc = "read" => off < DirectSize /\ "buf" \in held
=============================================================================
