------------------------------ MODULE GcSweep ------------------------------
(***************************************************************************)
(* GC over many models (service.go): the candidates are listed and ranked  *)
(* without a lock, then taken one by one under their model's lock, if it   *)
(* is free, until the disk has room.  Others ensure, release and collect   *)
(* the same models meanwhile.  ModelLifecycle has the steps of one removal.*)
(***************************************************************************)
EXTENDS Naturals, FiniteSets

CONSTANTS Models,
          Records,   \* what the store may say of a model when GC starts
          Later,     \* a time after those in Records
          Target     \* the free space that is asked for

Facts == [leased : BOOLEAN, path : BOOLEAN,
          status : {"READY", "RELEASED", "FAILED", "DOWNLOADING"},
          releasable : 0..Later, updated : 0..Later, bytes : Nat, marker : BOOLEAN]

SweepAssumption ==
    /\ IsFiniteSet(Models) /\ Later \in Nat \ {0} /\ Target \in Nat
    /\ Records \subseteq Facts

VARIABLES rec,   \* rec[m]: its record, and whether its directory has a READY marker;
                 \* releasable 0 is no ReleasableAt
          held,  \* models whose lock another request holds
          gc     \* GC: its place, dry run or not, the listed records, their
                 \* order, the next one, free space by its account, what it
                 \* has deleted and what it has passed over

vars == <<rec, held, gc>>

NoGC == [pc |-> "idle"]

Gone == [leased |-> FALSE, path |-> FALSE, status |-> "RELEASED", releasable |-> Later,
         updated |-> Later, bytes |-> 0, marker |-> FALSE]

TypeOK ==
    /\ rec \in [Models -> Facts]
    /\ held \subseteq Models
    /\ gc = NoGC \/ gc \in [pc : {"sweep", "done", "error"}, dry : BOOLEAN, listed : [Models -> Facts],
                            order : UNION {[1..n -> Models] : n \in 0..Cardinality(Models)},
                            next : 1..Cardinality(Models) + 1, free : Nat,
                            deleted : SUBSET Models, passed : SUBSET Models]

Init ==
    /\ rec \in [Models -> Records]
    /\ held \in SUBSET Models
    /\ gc = NoGC

Collectable(r) ==
    /\ ~r.leased /\ r.path
    /\ r.status \in {"READY", "RELEASED", "FAILED"}
    /\ r.status # "FAILED" => r.marker

\* Mutant: a model without a release time counts as the oldest.
BeforeNilFirst(r, s) ==
    \/ r.releasable < s.releasable
    \/ /\ r.releasable = s.releasable
       /\ r.updated < s.updated \/ (r.updated = s.updated /\ r.bytes > s.bytes)

(* The comparison of sort.Slice.                                            *)
Before(r, s) ==
    IF (r.releasable = 0) # (s.releasable = 0) THEN r.releasable # 0
    ELSE IF r.releasable # s.releasable THEN r.releasable < s.releasable
    ELSE IF r.updated = s.updated THEN r.bytes > s.bytes
    ELSE r.updated < s.updated

(* sort.Slice is not stable: equal records come in any order.               *)
Rankings(C) ==
    {q \in [1..Cardinality(C) -> C] :
        \A i, j \in 1..Cardinality(C) :
            i < j => q[i] # q[j] /\ ~Before(rec[q[j]], rec[q[i]])}

List ==
    /\ gc = NoGC
    /\ \E dry \in BOOLEAN, free \in 0..Target,
          q \in Rankings({m \in Models : Collectable(rec[m])}) :
           gc' = [pc |-> "sweep", dry |-> dry, listed |-> rec, order |-> q, next |-> 1,
                  free |-> free, deleted |-> {}, passed |-> {}]
    /\ UNCHANGED <<rec, held>>

Turn == gc.next <= Cardinality(DOMAIN gc.order) /\ gc.free < Target

Sweeps(m) == gc.pc = "sweep" /\ Turn /\ m = gc.order[gc.next]

Pass(m) == gc' = [gc EXCEPT !.next = @ + 1, !.passed = @ \cup {m}]

PassHeld(m) ==
    /\ Sweeps(m) /\ m \in held
    /\ Pass(m)
    /\ UNCHANGED <<rec, held>>

(* Leased, downloaded or spoilt since it was listed.                        *)
PassChanged(m) ==
    /\ Sweeps(m) /\ m \notin held /\ rec[m].path /\ ~Collectable(rec[m])
    /\ Pass(m)
    /\ UNCHANGED <<rec, held>>

(* Released with its files since it was listed: ensurePathWithinRoot takes  *)
(* the empty path for one outside the root and ends the sweep.              *)
RefusePath(m) ==
    /\ Sweeps(m) /\ m \notin held /\ ~rec[m].path
    /\ gc' = [gc EXCEPT !.pc = "error"]
    /\ UNCHANGED <<rec, held>>

(* The lock file or the store cannot be read.                               *)
TurnFails(m) ==
    /\ Sweeps(m)
    /\ gc' = [gc EXCEPT !.pc = "error"]
    /\ UNCHANGED <<rec, held>>

Delete(m) ==
    /\ Sweeps(m) /\ m \notin held /\ Collectable(rec[m])
    /\ gc' = [gc EXCEPT !.next = @ + 1, !.free = @ + rec[m].bytes, !.deleted = @ \cup {m}]
    /\ rec' = IF gc.dry THEN rec ELSE [rec EXCEPT ![m] = Gone]
    /\ UNCHANGED held

(* RemoveAll or Put fails: the marker may be gone and the record stay.      *)
DeleteFails(m) ==
    /\ Sweeps(m) /\ m \notin held /\ Collectable(rec[m]) /\ ~gc.dry
    /\ gc' = [gc EXCEPT !.pc = "error"]
    /\ \E left \in BOOLEAN : rec' = [rec EXCEPT ![m].marker = @ /\ left]
    /\ UNCHANGED held

End ==
    /\ gc.pc = "sweep" /\ ~Turn
    /\ gc' = [gc EXCEPT !.pc = "done"]
    /\ UNCHANGED <<rec, held>>

(* Bound: the next sweep starts where this one did.                         *)
Return ==
    /\ gc.pc \in {"done", "error"}
    /\ gc' = NoGC
    /\ rec' = gc.listed
    /\ held' = {}

(* Another request: what Ensure, Release or another process's GC leaves.    *)
(* GC cannot see what becomes of a model after its turn.                    *)
ToCome(m) == gc.pc = "sweep" /\ \E i \in gc.next..Cardinality(DOMAIN gc.order) : gc.order[i] = m

Lock(m) ==
    /\ ToCome(m) /\ m \notin held
    /\ held' = held \cup {m}
    /\ UNCHANGED <<rec, gc>>

Ensured(r) ==
    LET new == [leased |-> TRUE, path |-> TRUE, status |-> "READY", releasable |-> 0, updated |-> Later,
                bytes |-> IF r.bytes = 0 THEN 1 ELSE r.bytes, marker |-> TRUE]
    IN {new, [new EXCEPT !.status = "FAILED", !.bytes = 0, !.marker = r.marker]}

Released(r) ==
    {[r EXCEPT !.leased = FALSE, !.status = "READY", !.releasable = Later, !.updated = Later], Gone}

Unlock(m) ==
    /\ ToCome(m) /\ m \in held
    /\ held' = held \ {m}
    /\ \E r \in {rec[m]} \cup Ensured(rec[m]) \cup Released(rec[m]) : rec' = [rec EXCEPT ![m] = r]
    /\ UNCHANGED gc

Next ==
    \/ List \/ End \/ Return
    \/ \E m \in Models :
           \/ PassHeld(m) \/ PassChanged(m) \/ RefusePath(m) \/ TurnFails(m)
           \/ Delete(m) \/ DeleteFails(m)
           \/ Lock(m) \/ Unlock(m)

Spec == Init /\ [][Next]_vars

-----------------------------------------------------------------------------
(* Whatever happens to the models while GC works through its list: nothing *)
(* goes while something that was free to go and released before it stays,  *)
(* a release time beats none, and among equals the one that was last       *)
(* changed earlier goes first; and GC reports success only if the space is *)
(* there, by its account, or every candidate went or was in use.           *)
ReleasedBefore(m, n) ==
    LET r == gc.listed[m]  s == gc.listed[n]
    IN \/ r.releasable # 0 /\ (s.releasable = 0 \/ r.releasable < s.releasable)
       \/ r.releasable = s.releasable /\ r.updated < s.updated

SweepFreesInOrder ==
    gc.pc \in {"sweep", "done", "error"} =>
        LET candidates == {m \in Models : Collectable(gc.listed[m])}
            tried == gc.deleted \cup gc.passed
        IN /\ \A m \in candidates \ tried, n \in gc.deleted : ~ReleasedBefore(m, n)
           /\ gc.pc = "done" => gc.free >= Target \/ candidates \subseteq tried
=============================================================================
