----------------------------- MODULE StateStore -----------------------------
(***************************************************************************)
(* store/store.go and fsutil/fsutil.go: one JSON file, rewritten as a      *)
(* whole through a temporary file of one fixed name, under a flock.        *)
(* Inodes are explicit, since truncation acts on an inode and rename on a  *)
(* name, and so is what a power loss may leave of each.                    *)
(***************************************************************************)
CONSTANTS Procs,      \* processes with a store open, one call at a time each
          ModelKeys, AllocKeys, Vals, Absent,
          Inodes,     \* inodes for the file and its temporaries: a bound
          NoFile,     \* a name that is not there
          Empty,      \* a file of no bytes, which load takes for no records
          Torn,       \* a file that does not parse
          SoloStart,  \* TRUE: no other process starts before the file exists
          IOErrors    \* TRUE: reads, writes, syncs and renames may fail

StoreAssumption ==
    /\ SoloStart \in BOOLEAN
    /\ IOErrors \in BOOLEAN
    /\ NoFile \notin Inodes
    /\ {Empty, Torn} \cap [ModelKeys \cup AllocKeys -> Vals \cup {Absent}] = {}

VARIABLES path,     \* the inode named state.db
          tmp,      \* the inode named state.db.tmp
          content,  \* content[i]: a table, Empty or Torn
          synced,   \* the inodes whose content is on the disk
          entry,    \* the inodes that state.db may name after a power loss
          proc      \* proc[p]: its place, operation, copy of the table, open file

vars == <<path, tmp, content, synced, entry, proc>>

Seed == [kind |-> "seed"]

(* load: a file of no bytes is an empty database.                           *)
TableOf(i, c) == IF i = NoFile \/ c = Empty THEN [k \in ModelKeys \cup AllocKeys |-> Absent] ELSE c

Visible == TableOf(path, IF path = NoFile THEN Empty ELSE content[path])

(* What a power loss may leave in a file; nobody reads a file that no name  *)
(* reaches any more.                                                        *)
MayHold(i) == IF i \in synced THEN {content[i]} ELSE {content[i], Empty, Torn}

MayRemain == UNION {{TableOf(i, c) : c \in IF i = NoFile THEN {Empty} ELSE MayHold(i)} : i \in entry}

FoundBy(p) == IF proc[p].pc = "done" /\ proc[p].op = [kind |-> "read"]
              THEN proc[p].db ELSE TableOf(NoFile, Empty)

CallOf(p) ==
    LET at == CASE proc[p].pc = "renamed" -> "done"
                [] proc[p].pc = "done" -> "answered"
                [] OTHER -> "asked"
    IN IF proc[p].op = Seed \/ proc[p].pc \in {"off", "idle"}
       THEN [at |-> "idle"] ELSE [at |-> at, op |-> proc[p].op]

Atomic == INSTANCE AtomicStore WITH
              table <- Visible, durable <- MayRemain, call <- [p \in Procs |-> CallOf(p)],
              seen <- [p \in Procs |-> FoundBy(p)]

Off == [pc |-> "off", op |-> Atomic!Read, db |-> Atomic!NoRecords, fd |-> NoFile]

Ready == [Off EXCEPT !.pc = "idle"]

InCall == {"locked", "loaded", "opened", "written", "synced", "renamed", "done"}

Contents == Atomic!Tables \cup {Empty, Torn}

TypeOK ==
    /\ path \in Inodes \cup {NoFile}
    /\ tmp \in (Inodes \cup {NoFile}) \ ({path} \ {NoFile})
    /\ content \in [Inodes -> Contents]
    /\ synced \subseteq Inodes
    /\ entry \subseteq Inodes \cup {NoFile}
    /\ proc \in [Procs -> [pc : {"off", "idle", "waiting"} \cup InCall,
                           op : {Atomic!Read, Seed} \cup Atomic!Writes,
                           db : Atomic!Tables, fd : Inodes \cup {NoFile}]]

Init ==
    /\ path = NoFile /\ tmp = NoFile /\ entry = {NoFile}
    /\ content = [i \in Inodes |-> Empty]
    /\ synced = {}
    /\ proc = [p \in Procs |-> Off]

Step(p, pc) == proc' = [proc EXCEPT ![p].pc = pc]

(* The error return of a call: Init's ends the process.                     *)
Leave(p) == proc' = [proc EXCEPT ![p] = IF proc[p].op = Seed THEN Off ELSE Ready]

(* The inodes that a name, an open file or a power loss can still reach.    *)
Live(a, b, e) == (({a, b} \cup e) \ {NoFile})
                   \cup {proc[q].fd : q \in {r \in Procs : proc[r].pc = "opened"}}

Reclaim(a, b, e) ==
    /\ content' = [i \in Inodes |-> IF i \in Live(a, b, e) THEN content[i] ELSE Empty]
    /\ synced' = synced \cap Live(a, b, e)

(* Init: the seed is written without the lock.                              *)
Boot(p) ==
    /\ proc[p].pc = "off"
    /\ SoloStart /\ path = NoFile => \A q \in Procs : proc[q].pc = "off"
    /\ proc' = [proc EXCEPT ![p] = IF path = NoFile
                                   THEN [Off EXCEPT !.pc = "loaded", !.op = Seed]
                                   ELSE Ready]
    /\ UNCHANGED <<path, tmp, content, synced, entry>>

Request(p) ==
    /\ proc[p].pc = "idle"
    /\ \E op \in {Atomic!Read} \cup Atomic!Writes :
           proc' = [proc EXCEPT ![p].op = op, ![p].pc = "waiting"]
    /\ UNCHANGED <<path, tmp, content, synced, entry>>

Holds(q) == proc[q].pc \in InCall /\ proc[q].op # Seed

(* LOCK_SH for a read, LOCK_EX for a write.                                 *)
Flock(p) ==
    /\ proc[p].pc = "waiting"
    /\ \A q \in Procs \ {p} :
           Holds(q) => proc[p].op = Atomic!Read /\ proc[q].op = Atomic!Read
    /\ Step(p, "locked")
    /\ UNCHANGED <<path, tmp, content, synced, entry>>

Loads == path # NoFile /\ content[path] # Torn

LoadForRead(p) ==
    /\ proc[p].pc = "locked" /\ proc[p].op = Atomic!Read /\ Loads
    /\ proc' = [proc EXCEPT ![p].pc = "done", ![p].db = Visible]
    /\ UNCHANGED <<path, tmp, content, synced, entry>>

LoadAndChange(p) ==
    /\ proc[p].pc = "locked" /\ proc[p].op \in Atomic!Writes /\ Loads
    /\ IF Atomic!Refused(proc[p].op, Visible)
       THEN Leave(p)
       ELSE proc' = [proc EXCEPT ![p].pc = "loaded",
                                 ![p].db = Atomic!Effect(proc[p].op, Visible)]
    /\ UNCHANGED <<path, tmp, content, synced, entry>>

LoadFails(p) ==
    /\ proc[p].pc = "locked" /\ (IOErrors \/ ~Loads)
    /\ Leave(p)
    /\ UNCHANGED <<path, tmp, content, synced, entry>>

(* os.WriteFile: O_CREATE|O_TRUNC, then the bytes.                          *)
OpenTmp(p) ==
    /\ proc[p].pc = "loaded"
    /\ \E i \in IF tmp # NoFile THEN {tmp} ELSE Inodes \ Live(path, tmp, entry) :
           /\ tmp' = i
           /\ proc' = [proc EXCEPT ![p].pc = "opened", ![p].fd = i]
           /\ content' = [content EXCEPT ![i] = Empty]
           /\ synced' = synced \ {i}
    /\ UNCHANGED <<path, entry>>

WriteTmp(p) ==
    /\ proc[p].pc = "opened"
    /\ content' = [content EXCEPT ![proc[p].fd] = proc[p].db]
    /\ synced' = synced \ {proc[p].fd}
    /\ proc' = [proc EXCEPT ![p].pc = "written", ![p].fd = NoFile, ![p].db = Atomic!NoRecords]
    /\ UNCHANGED <<path, tmp, entry>>

\* Mutant: the temporary is renamed without being synced.
SyncSkipped(p) ==
    /\ proc[p].pc = "written" /\ tmp # NoFile
    /\ Step(p, "synced")
    /\ UNCHANGED <<path, tmp, content, synced, entry>>

(* FsyncFile opens the temporary again, by its name.                        *)
SyncTmp(p) ==
    /\ proc[p].pc = "written" /\ tmp # NoFile
    /\ synced' = synced \cup {tmp}
    /\ Step(p, "synced")
    /\ UNCHANGED <<path, tmp, content, entry>>

\* Mutant: the temporary is linked, not renamed.
RenameByLink(p) ==
    /\ proc[p].pc = "synced" /\ tmp # NoFile
    /\ path' = tmp
    /\ entry' = entry \cup {tmp}
    /\ Step(p, "renamed")
    /\ UNCHANGED <<tmp, content, synced>>

Rename(p) ==
    /\ proc[p].pc = "synced" /\ tmp # NoFile
    /\ path' = tmp
    /\ tmp' = NoFile
    /\ entry' = entry \cup {tmp}
    /\ Step(p, "renamed")
    /\ UNCHANGED <<content, synced>>

\* Mutant: the directory is not synced.
SyncDirSkipped(p) ==
    /\ proc[p].pc = "renamed"
    /\ Step(p, "done")
    /\ UNCHANGED <<path, tmp, content, synced, entry>>

SyncDir(p) ==
    /\ proc[p].pc = "renamed"
    /\ entry' = {path}
    /\ Reclaim(path, tmp, {path})
    /\ Step(p, "done")
    /\ UNCHANGED <<path, tmp>>

Return(p) ==
    /\ proc[p].pc = "done"
    /\ proc' = [proc EXCEPT ![p] = Ready]
    /\ UNCHANGED <<path, tmp, content, synced, entry>>

(* A write, a sync or a rename fails; without the temporary, which another  *)
(* process may have renamed away, it has to.                                *)
Break(p) ==
    /\ IOErrors \/ (proc[p].pc \in {"written", "synced"} /\ tmp = NoFile)
    /\ proc[p].pc \in {"loaded", "opened", "written", "synced", "renamed"}
    /\ IF proc[p].pc = "opened"
       THEN /\ content' = [content EXCEPT ![proc[p].fd] = Torn]
            /\ synced' = synced \ {proc[p].fd}
       ELSE UNCHANGED <<content, synced>>
    /\ Leave(p)
    /\ UNCHANGED <<path, tmp, entry>>

(* The process ends; the kernel drops its flock. A half-made write stays.   *)
Die(p) ==
    /\ proc[p].pc # "off"
    /\ IF proc[p].pc = "opened"
       THEN \E c \in {content[proc[p].fd], Torn} :
                /\ content' = [content EXCEPT ![proc[p].fd] = c]
                /\ synced' = synced \ {proc[p].fd}
       ELSE UNCHANGED <<content, synced>>
    /\ proc' = [proc EXCEPT ![p] = Off]
    /\ UNCHANGED <<path, tmp, entry>>

(* The kernel writes back what it has, whenever it likes.                   *)
WriteBack ==
    /\ entry' = {path}
    /\ content' = [i \in Inodes |-> IF i \in Live(path, tmp, {}) THEN content[i] ELSE Empty]
    /\ synced' = Live(path, tmp, {})
    /\ UNCHANGED <<path, tmp, proc>>

PowerLoss ==
    /\ proc' = [p \in Procs |-> Off]
    /\ path' \in entry
    /\ entry' = {path'}
    /\ tmp' \in {NoFile, tmp, path} \ ({path'} \ {NoFile})
    /\ content' \in {c \in [Inodes -> Contents] : \A i \in Inodes :
                        c[i] \in IF i \in {path', tmp'} THEN MayHold(i) ELSE {Empty}}
    /\ synced' = {path', tmp'} \ {NoFile}

Next ==
    \/ \E p \in Procs :
           \/ Boot(p) \/ Request(p) \/ Flock(p)
           \/ LoadForRead(p) \/ LoadAndChange(p) \/ LoadFails(p)
           \/ OpenTmp(p) \/ WriteTmp(p) \/ SyncTmp(p) \/ Rename(p) \/ SyncDir(p)
           \/ Return(p) \/ Break(p) \/ Die(p)
    \/ WriteBack
    \/ PowerLoss

Spec == Init /\ [][Next]_vars

-----------------------------------------------------------------------------
(* state.db parses at every instant, and would after a power loss at any   *)
(* instant: neither a crash between two steps of writeAtomicFile nor the   *)
(* temporary a crashed writer left behind ever shows as a torn or an empty *)
(* database.                                                               *)
AlwaysParses ==
    path # NoFile => content[path] \in Atomic!Tables /\
                     \A i \in entry \ {NoFile} : MayHold(i) \subseteq Atomic!Tables

(* The file protocol implements one atomic, durable table: every call takes *)
(* effect in one instant while its caller waits, on what the calls before   *)
(* it left, and a write that was answered survives crashes and power loss.  *)
ImplementsAtomicStore == Atomic!Spec
=============================================================================
