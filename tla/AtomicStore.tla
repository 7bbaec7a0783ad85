---------------------------- MODULE AtomicStore ----------------------------
(***************************************************************************)
(* What the service relies on when it calls the state store: one table,    *)
(* from which every call reads and to which every call writes in a single  *)
(* instant between its start and its return, and which a power loss takes  *)
(* back no further than the last write that was answered without an error. *)
(***************************************************************************)
CONSTANTS Procs,      \* callers of the store, one call at a time each
          ModelKeys,  \* keys of model records
          AllocKeys,  \* keys of allocation records
          Vals,       \* what a record may hold
          Absent      \* no record under a key

StoreKeys == ModelKeys \cup AllocKeys

Tables == [StoreKeys -> Vals \cup {Absent}]

NoRecords == [k \in StoreKeys |-> Absent]

Read == [kind |-> "read"]

Writes == [kind : {"put"}, key : StoreKeys, val : Vals]
            \cup [kind : {"delete"}, key : StoreKeys]
            \cup [kind : {"upsert"}, key : ModelKeys, val : Vals]
            \cup {[kind |-> "clear"]}

(* UpsertWithLock is the only write that the table itself can refuse. *)
Refused(op, t) == op.kind = "upsert" /\ t[op.key] = Absent

Effect(op, t) ==
    CASE op.kind \in {"put", "upsert"} -> [t EXCEPT ![op.key] = op.val]
      [] op.kind = "delete" -> [t EXCEPT ![op.key] = Absent]
      [] op.kind = "clear" -> [k \in StoreKeys |-> IF k \in AllocKeys THEN Absent ELSE t[k]]

VARIABLES table,    \* the records
          durable,  \* the tables that a power loss now could leave
          call,     \* call[p]: the operation p asked for; whether it happened,
                    \* and whether that was answered
          seen      \* seen[p]: what the read that p is in has found

vars == <<table, durable, call, seen>>

Idle == [at |-> "idle"]

Calls == {Idle} \cup [at : {"asked", "done", "answered"}, op : {Read} \cup Writes]

TypeOK ==
    /\ table \in Tables
    /\ durable \subseteq Tables
    /\ table \in durable
    /\ call \in [Procs -> Calls]
    /\ seen \in [Procs -> Tables]

Init ==
    /\ table \in Tables
    /\ durable = {table}
    /\ call = [p \in Procs |-> Idle]
    /\ seen = [p \in Procs |-> NoRecords]

Ask(p) ==
    /\ call[p] = Idle
    /\ \E op \in {Read} \cup Writes :
           call' = [call EXCEPT ![p] = [at |-> "asked", op |-> op]]
    /\ UNCHANGED <<table, durable, seen>>

Write(p) ==
    /\ call[p].at = "asked" /\ call[p].op \in Writes
    /\ ~Refused(call[p].op, table)
    /\ table' = Effect(call[p].op, table)
    /\ durable' = durable \cup {table'}
    /\ call' = [call EXCEPT ![p].at = "done"]
    /\ UNCHANGED seen

Look(p) ==
    /\ call[p].at = "asked" /\ call[p].op = Read
    /\ seen' = [seen EXCEPT ![p] = table]
    /\ call' = [call EXCEPT ![p].at = "answered"]
    /\ UNCHANGED <<table, durable>>

(* A write is answered when no power loss can take it back any more.       *)
Answer(p) ==
    /\ call[p].at = "done"
    /\ durable' = {table}
    /\ call' = [call EXCEPT ![p].at = "answered"]
    /\ UNCHANGED <<table, seen>>

(* The caller goes on: with its answer, or with an error, or it dies. Only  *)
(* with its answer does it know whether the call happened.                  *)
Leave(p) ==
    /\ call[p] # Idle
    /\ call' = [call EXCEPT ![p] = Idle]
    /\ seen' = [seen EXCEPT ![p] = NoRecords]
    /\ UNCHANGED <<table, durable>>

Settle ==
    /\ durable' = {table}
    /\ UNCHANGED <<table, call, seen>>

PowerLoss ==
    /\ table' \in durable
    /\ durable' = {table'}
    /\ call' = [p \in Procs |-> Idle]
    /\ seen' = [p \in Procs |-> NoRecords]

Next ==
    \/ \E p \in Procs : Ask(p) \/ Write(p) \/ Look(p) \/ Answer(p) \/ Leave(p)
    \/ Settle
    \/ PowerLoss

Spec == Init /\ [][Next]_vars
=============================================================================
