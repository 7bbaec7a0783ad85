-------------------------- MODULE StateStoreProofs --------------------------
(***************************************************************************)
(* The state store implements one atomic, durable table, for any number of *)
(* processes, keys and inodes, with I/O errors, crashes and power loss,    *)
(* provided that no process starts before the first one made the file.     *)
(***************************************************************************)
EXTENDS StateStore, TLAPS

Tables == Atomic!Tables

NoRecords == Atomic!NoRecords

Places == {"off", "idle", "waiting"} \cup InCall

Ops == {Atomic!Read, Seed} \cup Atomic!Writes

Processes == [pc : Places, op : Ops, db : Tables, fd : Inodes \cup {NoFile}]

Types ==
    /\ path \in Inodes \cup {NoFile}
    /\ tmp \in (Inodes \cup {NoFile}) \ ({path} \ {NoFile})
    /\ content \in [Inodes -> Tables \cup {Empty, Torn}]
    /\ synced \subseteq Inodes
    /\ entry \subseteq Inodes \cup {NoFile}
    /\ proc \in [Procs -> Processes]

(* A process that is going to open, fill, sync or rename the temporary.    *)
Writing(p) == proc[p].pc \in {"loaded", "opened", "written", "synced"}

(* The table it is going to leave.                                         *)
Intended(p) == IF proc[p].op = Seed THEN NoRecords ELSE Atomic!Effect(proc[p].op, Visible)

(* The flock: readers share it, a writer has it alone.                     *)
Locks ==
    /\ \A p \in Procs :
           /\ proc[p].op = Atomic!Read => ~Writing(p) /\ proc[p].pc # "renamed"
           /\ proc[p].op = Seed => Writing(p) \/ proc[p].pc \in {"renamed", "done"}
           /\ proc[p].pc \in {"off", "idle"} => proc[p] \in {Off, Ready}
    /\ \A p, q \in Procs : p # q /\ Holds(p) /\ Holds(q)
                           => proc[p].op = Atomic!Read /\ proc[q].op = Atomic!Read

(* The first process is alone until the file is there.                     *)
Starting ==
    /\ path = NoFile => \A p \in Procs : proc[p].pc = "off" \/ (proc[p].op = Seed /\ Writing(p))
    /\ \A p \in Procs : proc[p].op = Seed /\ Writing(p)
                        => path = NoFile /\ \A q \in Procs \ {p} : proc[q].pc = "off"

(* What state.db names, or may name after a power loss, is on the disk as  *)
(* a whole, and the temporary is another inode.                            *)
Files ==
    /\ path \in entry /\ (path = NoFile => entry = {NoFile})
    /\ \A i \in entry \ {NoFile} : i \in synced /\ content[i] \in Tables
    /\ tmp = NoFile \/ tmp \notin entry

(* How far a writer is with the temporary.                                 *)
Progress(p) ==
    /\ Writing(p) /\ proc[p].op # Seed => ~Atomic!Refused(proc[p].op, Visible)
    /\ proc[p].pc \in {"loaded", "opened"} => proc[p].db = Intended(p)
    /\ proc[p].pc = "opened" => tmp # NoFile /\ proc[p].fd = tmp
    /\ proc[p].pc \in {"written", "synced"} => tmp # NoFile /\ content[tmp] = Intended(p)
    /\ proc[p].pc = "synced" => tmp \in synced

Temporary == \A p \in Procs : Progress(p)

StoreInv == Types /\ Locks /\ Starting /\ Files /\ Temporary

-----------------------------------------------------------------------------
(* Tables and operations.                                                  *)

LEMMA NoRecordsIsTable == NoRecords \in Tables /\ TableOf(NoFile, Empty) = NoRecords
    BY DEF NoRecords, Tables, Atomic!NoRecords, Atomic!Tables, Atomic!StoreKeys, TableOf

LEMMA SeedIsNoOperation ==
    /\ Seed # Atomic!Read /\ Seed \notin Atomic!Writes /\ Atomic!Read \notin Atomic!Writes
    BY DEF Seed, Atomic!Read, Atomic!Writes

LEMMA EffectIsTable ==
    ASSUME NEW t \in Tables, NEW op \in Atomic!Writes
    PROVE  Atomic!Effect(op, t) \in Tables
    <1> USE DEF Tables, Atomic!Tables, Atomic!StoreKeys, Atomic!Effect
    <1>1. CASE op \in [kind : {"put"}, key : Atomic!StoreKeys, val : Vals]
        BY <1>1
    <1>2. CASE op \in [kind : {"delete"}, key : Atomic!StoreKeys]
        BY <1>2
    <1>3. CASE op \in [kind : {"upsert"}, key : ModelKeys, val : Vals]
        BY <1>3
    <1>4. CASE op = [kind |-> "clear"]
        BY <1>4
    <1> QED
        BY <1>1, <1>2, <1>3, <1>4 DEF Atomic!Writes

(* A file that loads holds a table, or nothing at all.                     *)
LEMMA VisibleIsTable == ASSUME Types, Files PROVE Visible \in Tables
    <1>1. CASE path = NoFile
        BY <1>1, NoRecordsIsTable DEF Visible, TableOf
    <1>2. CASE path # NoFile
        <2>1. content[path] \in Tables
            BY <1>2 DEF Files
        <2> QED
            BY <1>2, <2>1, NoRecordsIsTable DEF Visible, TableOf
    <1> QED
        BY <1>1, <1>2

LEMMA OffIsProcess ==
    /\ Off \in Processes /\ Ready \in Processes
    /\ Off.op = Atomic!Read /\ Ready.op = Atomic!Read /\ Off.db = NoRecords /\ Ready.db = NoRecords
    /\ Off.pc = "off" /\ Ready.pc = "idle" /\ Off.fd = NoFile /\ Ready.fd = NoFile
    BY NoRecordsIsTable DEF Off, Ready, Processes, Places, Ops, NoRecords

LEMMA TypesSuffice == Types => TypeOK
    BY DEF TypeOK, Types, Contents, Tables, Processes, Places, Ops

LEMMA StoreTypesInit == ASSUME Init PROVE Types
    BY OffIsProcess DEF Init, Types

(* What the steps of a process leave of the others.                        *)
Others(p) == \A q \in Procs \ {p} : proc'[q] = proc[q]

Became(p, r) == proc' = [proc EXCEPT ![p] = r]

LEMMA ProcBecame ==
    ASSUME Types, NEW p \in Procs, NEW r \in Processes, Became(p, r)
    PROVE  proc' \in [Procs -> Processes] /\ Others(p) /\ proc'[p] = r
    BY DEF Types, Became, Others

LEMMA ProcStep ==
    ASSUME Types, NEW p \in Procs, NEW x \in Places, Step(p, x)
    PROVE  /\ proc' \in [Procs -> Processes] /\ Others(p) /\ proc'[p].pc = x
           /\ proc'[p].op = proc[p].op /\ proc'[p].db = proc[p].db /\ proc'[p].fd = proc[p].fd
    BY DEF Types, Step, Others, Processes

LEMMA ProcLeave ==
    ASSUME Types, NEW p \in Procs, Leave(p)
    PROVE  /\ proc' \in [Procs -> Processes] /\ Others(p)
           /\ proc'[p] = IF proc[p].op = Seed THEN Off ELSE Ready
    BY OffIsProcess DEF Types, Leave, Others

LEMMA StoreTypesNext == ASSUME StoreAssumption, Types, Files, Temporary, [Next]_vars PROVE Types'
    <1>1. ASSUME NEW p \in Procs, Boot(p) PROVE Types'
        <2>1. [Off EXCEPT !.pc = "loaded", !.op = Seed] \in Processes /\ Ready \in Processes
            BY OffIsProcess DEF Processes, Places, Ops, InCall
        <2> QED
            BY <1>1, <2>1 DEF Types, Boot
    <1>2. ASSUME NEW p \in Procs, Request(p) PROVE Types'
        <2>1. PICK op \in {Atomic!Read} \cup Atomic!Writes :
                  proc' = [proc EXCEPT ![p].op = op, ![p].pc = "waiting"]
            BY <1>2 DEF Request
        <2>2. proc' \in [Procs -> Processes]
            BY <2>1 DEF Types, Processes, Places, Ops
        <2> QED
            BY <1>2, <2>2 DEF Types, Request
    <1>3. ASSUME NEW p \in Procs, Flock(p) PROVE Types'
        BY <1>3, ProcStep DEF Types, Flock, Step, Places, InCall
    <1>4. ASSUME NEW p \in Procs, LoadForRead(p) PROVE Types'
        <2>1. proc' \in [Procs -> Processes]
            BY <1>4, VisibleIsTable DEF Types, LoadForRead, Processes, Places, InCall
        <2> QED
            BY <1>4, <2>1 DEF Types, LoadForRead
    <1>5. ASSUME NEW p \in Procs, LoadAndChange(p) PROVE Types'
        <2>1. CASE Atomic!Refused(proc[p].op, Visible)
            BY <1>5, <2>1, ProcLeave DEF Types, LoadAndChange
        <2>2. CASE ~Atomic!Refused(proc[p].op, Visible)
            <3>1. Atomic!Effect(proc[p].op, Visible) \in Tables
                BY <1>5, VisibleIsTable, EffectIsTable DEF LoadAndChange
            <3>2. proc' \in [Procs -> Processes]
                BY <1>5, <2>2, <3>1 DEF Types, LoadAndChange, Processes, Places, InCall
            <3> QED
                BY <1>5, <3>2 DEF Types, LoadAndChange
        <2> QED
            BY <2>1, <2>2
    <1>6. ASSUME NEW p \in Procs, LoadFails(p) PROVE Types'
        BY <1>6, ProcLeave DEF Types, LoadFails, Leave
    <1>7. ASSUME NEW p \in Procs, OpenTmp(p) PROVE Types'
        <2>1. PICK i \in IF tmp # NoFile THEN {tmp} ELSE Inodes \ Live(path, tmp, entry) :
                  /\ tmp' = i
                  /\ proc' = [proc EXCEPT ![p].pc = "opened", ![p].fd = i]
                  /\ content' = [content EXCEPT ![i] = Empty]
                  /\ synced' = synced \ {i}
            BY <1>7 DEF OpenTmp
        <2>2. i \in Inodes /\ i \notin {path} \ {NoFile}
            BY <2>1 DEF Types, Live
        <2>3. proc' \in [Procs -> Processes]
            BY <2>1, <2>2 DEF Types, Processes, Places, InCall
        <2> QED
            BY <1>7, <2>1, <2>2, <2>3 DEF Types, OpenTmp
    <1>8. ASSUME NEW p \in Procs, WriteTmp(p) PROVE Types'
        <2>1. proc' \in [Procs -> Processes]
            <3> DEFINE r == [proc[p] EXCEPT !.pc = "written", !.fd = NoFile, !.db = NoRecords]
            <3>1. r \in Processes
                BY NoRecordsIsTable DEF Types, Processes, Places, InCall
            <3>2. Became(p, r)
                BY <1>8 DEF WriteTmp, Became, NoRecords, Types, Processes
            <3> QED
                BY <3>1, <3>2, ProcBecame
        <2>2. content' \in [Inodes -> Tables \cup {Empty, Torn}]
            <3>1. proc[p].db \in Tables
                BY DEF Types, Processes
            <3> QED
                BY <1>8, <3>1 DEF Types, WriteTmp
        <2> QED
            BY <1>8, <2>1, <2>2 DEF Types, WriteTmp
    <1>9. ASSUME NEW p \in Procs, SyncTmp(p) PROVE Types'
        BY <1>9, ProcStep DEF Types, SyncTmp, Step, Places, InCall
    <1>10. ASSUME NEW p \in Procs, Rename(p) PROVE Types'
        BY <1>10, ProcStep DEF Types, Rename, Step, Places, InCall
    <1>11. ASSUME NEW p \in Procs, SyncDir(p) PROVE Types'
        <2>1. proc' \in [Procs -> Processes]
            BY <1>11, ProcStep DEF SyncDir, Places, InCall
        <2>2. content' \in [Inodes -> Tables \cup {Empty, Torn}] /\ synced' \subseteq Inodes
            BY <1>11 DEF Types, SyncDir, Reclaim
        <2> QED
            BY <1>11, <2>1, <2>2 DEF Types, SyncDir
    <1>12. ASSUME NEW p \in Procs, Return(p) PROVE Types'
        BY <1>12, OffIsProcess DEF Types, Return
    <1>13. ASSUME NEW p \in Procs, Break(p) PROVE Types'
        <2>1. content' \in [Inodes -> Tables \cup {Empty, Torn}] /\ synced' \subseteq Inodes
            BY <1>13 DEF Types, Break
        <2> QED
            BY <1>13, <2>1, ProcLeave DEF Types, Break
    <1>14. ASSUME NEW p \in Procs, Die(p) PROVE Types'
        <2>1. synced' \subseteq Inodes
            BY <1>14 DEF Types, Die
        <2>2. content' \in [Inodes -> Tables \cup {Empty, Torn}]
            <3>1. CASE proc[p].pc # "opened"
                BY <1>14, <3>1 DEF Types, Die
            <3>2. CASE proc[p].pc = "opened" /\ proc[p].fd \in Inodes
                BY <1>14, <3>2 DEF Types, Die
            <3>3. CASE proc[p].fd = NoFile
                BY <1>14, <3>3, StoreAssumption DEF Types, Die
            <3> QED
                BY <3>1, <3>2, <3>3 DEF Types, Processes
        <2> QED
            BY <1>14, <2>1, <2>2, OffIsProcess DEF Types, Die
    <1>15. CASE WriteBack
        <2>1. Live(path, tmp, {}) \subseteq Inodes
            BY DEF Types, Live, Temporary, Progress
        <2>2. content' \in [Inodes -> Tables \cup {Empty, Torn}]
            BY <1>15 DEF Types, WriteBack
        <2> QED
            BY <1>15, <2>1, <2>2 DEF Types, WriteBack
    <1>16. CASE PowerLoss
        <2>1. proc' \in [Procs -> Processes]
            BY <1>16, OffIsProcess DEF PowerLoss
        <2>2. content' \in [Inodes -> Tables \cup {Empty, Torn}]
            BY <1>16 DEF PowerLoss, Contents, Tables
        <2>3. path' \in Inodes \cup {NoFile} /\ tmp' \in (Inodes \cup {NoFile}) \ ({path'} \ {NoFile})
            BY <1>16 DEF Types, PowerLoss
        <2> QED
            BY <1>16, <2>1, <2>2, <2>3 DEF Types, PowerLoss
    <1>17. CASE UNCHANGED vars
        BY <1>17 DEF Types, vars
    <1> QED
        BY <1>1, <1>2, <1>3, <1>4, <1>5, <1>6, <1>7, <1>8, <1>9, <1>10, <1>11, <1>12, <1>13, <1>14,
           <1>15, <1>16, <1>17
        DEF Next

-----------------------------------------------------------------------------
(* The locks.                                                              *)

LEMMA ProcFields ==
    ASSUME Types, NEW p \in Procs
    PROVE  /\ proc[p].pc \in Places /\ proc[p].op \in Ops /\ proc[p].db \in Tables
           /\ proc[p].fd \in Inodes \cup {NoFile} /\ proc \in [Procs -> Processes]
    BY DEF Types, Processes

(* Every action of a process leaves the others alone.                      *)
LEMMA OthersKept ==
    ASSUME Types, NEW p \in Procs,
           \/ Boot(p) \/ Request(p) \/ Flock(p)
           \/ LoadForRead(p) \/ LoadAndChange(p) \/ LoadFails(p)
           \/ OpenTmp(p) \/ WriteTmp(p) \/ SyncTmp(p) \/ Rename(p) \/ SyncDir(p)
           \/ Return(p) \/ Break(p) \/ Die(p)
    PROVE  Others(p)
    <1>1. CASE Boot(p)
        BY <1>1 DEF Boot, Types, Others
    <1>2. CASE Request(p)
        BY <1>2 DEF Request, Types, Others
    <1>3. CASE Flock(p)
        BY <1>3 DEF Flock, Step, Types, Others
    <1>4. CASE LoadForRead(p)
        BY <1>4 DEF LoadForRead, Types, Others
    <1>5. CASE LoadAndChange(p)
        BY <1>5 DEF LoadAndChange, Leave, Types, Others
    <1>6. CASE LoadFails(p)
        BY <1>6 DEF LoadFails, Leave, Types, Others
    <1>7. CASE OpenTmp(p)
        BY <1>7 DEF OpenTmp, Types, Others
    <1>8. CASE WriteTmp(p)
        BY <1>8 DEF WriteTmp, Types, Others
    <1>9. CASE SyncTmp(p)
        BY <1>9 DEF SyncTmp, Step, Types, Others
    <1>10. CASE Rename(p)
        BY <1>10 DEF Rename, Step, Types, Others
    <1>11. CASE SyncDir(p)
        BY <1>11 DEF SyncDir, Step, Types, Others
    <1>12. CASE Return(p)
        BY <1>12 DEF Return, Types, Others
    <1>13. CASE Break(p)
        BY <1>13 DEF Break, Leave, Types, Others
    <1>14. CASE Die(p)
        BY <1>14 DEF Die, Types, Others
    <1> QED
        BY <1>1, <1>2, <1>3, <1>4, <1>5, <1>6, <1>7, <1>8, <1>9, <1>10, <1>11, <1>12, <1>13, <1>14

(* What the steps that set several fields leave of place and operation.    *)
LEMMA Moves ==
    ASSUME Types, NEW p \in Procs
    PROVE  /\ Request(p) => /\ proc[p].pc = "idle" /\ proc'[p].pc = "waiting" /\ path' = path
                            /\ proc'[p].op \in {Atomic!Read} \cup Atomic!Writes
           /\ LoadForRead(p) => /\ proc[p].pc = "locked" /\ proc'[p].pc = "done" /\ path' = path
                                /\ proc[p].op = Atomic!Read /\ proc'[p].op = Atomic!Read
           /\ LoadAndChange(p) => /\ proc[p].pc = "locked" /\ proc[p].op \in Atomic!Writes
                                  /\ path' = path
                                  /\ \/ proc'[p] = Ready
                                     \/ proc'[p].pc = "loaded" /\ proc'[p].op = proc[p].op
           /\ OpenTmp(p) => /\ proc[p].pc = "loaded" /\ proc'[p].pc = "opened" /\ path' = path
                            /\ proc'[p].op = proc[p].op
           /\ WriteTmp(p) => /\ proc[p].pc = "opened" /\ proc'[p].pc = "written" /\ path' = path
                             /\ proc'[p].op = proc[p].op
    <1>0. proc \in [Procs -> Processes] /\ proc[p] \in Processes
        BY DEF Types
    <1>1. ASSUME Request(p)
          PROVE  /\ proc[p].pc = "idle" /\ proc'[p].pc = "waiting" /\ path' = path
                 /\ proc'[p].op \in {Atomic!Read} \cup Atomic!Writes
        <2>1. PICK op \in {Atomic!Read} \cup Atomic!Writes :
                  proc' = [proc EXCEPT ![p].op = op, ![p].pc = "waiting"]
            BY <1>1 DEF Request
        <2> QED
            BY <1>0, <1>1, <2>1 DEF Request, Processes
    <1>2. ASSUME LoadForRead(p)
          PROVE  /\ proc[p].pc = "locked" /\ proc'[p].pc = "done" /\ path' = path
                 /\ proc[p].op = Atomic!Read /\ proc'[p].op = Atomic!Read
        BY <1>0, <1>2 DEF LoadForRead, Processes
    <1>3. ASSUME LoadAndChange(p)
          PROVE  /\ proc[p].pc = "locked" /\ proc[p].op \in Atomic!Writes
                 /\ path' = path
                 /\ \/ proc'[p] = Ready
                    \/ proc'[p].pc = "loaded" /\ proc'[p].op = proc[p].op
        <2>1. CASE Atomic!Refused(proc[p].op, Visible)
            BY <1>0, <1>3, <2>1, SeedIsNoOperation DEF LoadAndChange, Leave
        <2>2. CASE ~Atomic!Refused(proc[p].op, Visible)
            BY <1>0, <1>3, <2>2 DEF LoadAndChange, Processes
        <2> QED
            BY <2>1, <2>2
    <1>4. ASSUME OpenTmp(p)
          PROVE  /\ proc[p].pc = "loaded" /\ proc'[p].pc = "opened" /\ path' = path
                 /\ proc'[p].op = proc[p].op
        <2>1. PICK i : proc' = [proc EXCEPT ![p].pc = "opened", ![p].fd = i]
            BY <1>4 DEF OpenTmp
        <2> QED
            BY <1>0, <1>4, <2>1 DEF OpenTmp, Processes
    <1>5. ASSUME WriteTmp(p)
          PROVE  /\ proc[p].pc = "opened" /\ proc'[p].pc = "written" /\ path' = path
                 /\ proc'[p].op = proc[p].op
        BY <1>0, <1>5 DEF WriteTmp, Processes
    <1> QED
        BY <1>1, <1>2, <1>3, <1>4, <1>5

LEMMA LocksNext == ASSUME StoreAssumption, Types, Locks, [Next]_vars PROVE Locks'
    <1> USE SeedIsNoOperation, OffIsProcess
    <1>b. ASSUME NEW p \in Procs, Others(p),
                 proc'[p].op = Atomic!Read
                   => proc'[p].pc \notin {"loaded", "opened", "written", "synced", "renamed"},
                 proc'[p].op = Seed
                   => proc'[p].pc \in {"loaded", "opened", "written", "synced", "renamed", "done"},
                 proc'[p].pc \in {"off", "idle"} => proc'[p] \in {Off, Ready},
                 proc'[p].pc \in InCall /\ proc'[p].op # Seed => Holds(p) /\ proc'[p].op = proc[p].op
          PROVE  Locks'
        <2>1. ASSUME NEW q \in Procs
              PROVE  /\ proc'[q].op = Atomic!Read => ~Writing(q)' /\ proc'[q].pc # "renamed"
                     /\ proc'[q].op = Seed => Writing(q)' \/ proc'[q].pc \in {"renamed", "done"}
                     /\ proc'[q].pc \in {"off", "idle"} => proc'[q] \in {Off, Ready}
            <3>1. CASE q = p
                BY <1>b, <3>1 DEF Writing
            <3>2. CASE q # p
                BY <1>b, <3>2 DEF Writing, Others, Locks
            <3> QED
                BY <3>1, <3>2
        <2>2. ASSUME NEW q \in Procs, Holds(q)' PROVE Holds(q) /\ proc'[q].op = proc[q].op
            BY <1>b, <2>2 DEF Holds, Others
        <2>3. \A q, r \in Procs : q # r /\ Holds(q)' /\ Holds(r)'
                                  => proc'[q].op = Atomic!Read /\ proc'[r].op = Atomic!Read
            BY <2>2 DEF Locks
        <2>4. Off' = Off /\ Ready' = Ready
            BY DEF Off, Ready
        <2> QED
            BY <2>1, <2>3, <2>4 DEF Locks
    <1>1. ASSUME NEW p \in Procs, Boot(p) PROVE Locks'
        BY <1>1, <1>b, ProcFields, OthersKept DEF Boot, Locks, Holds, InCall, Writing, Types
    <1>2. ASSUME NEW p \in Procs, Request(p) PROVE Locks'
        BY <1>2, <1>b, Moves, OthersKept DEF Locks, Holds, InCall, Writing
    <1>3. ASSUME NEW p \in Procs, Flock(p) PROVE Locks'
        <2>1. /\ Others(p) /\ proc'[p].op = proc[p].op /\ proc'[p].pc = "locked"
              /\ proc[p].pc = "waiting"
            BY <1>3, ProcStep, OthersKept DEF Flock, Places, InCall
        <2>2. \A q \in Procs \ {p} : Holds(q) => proc[p].op = Atomic!Read /\ proc[q].op = Atomic!Read
            BY <1>3 DEF Flock
        <2>3. proc[p].op # Seed
            BY <2>1 DEF Locks, Writing
        <2>4. \A q \in Procs : /\ Holds(q)' => Holds(q) \/ q = p
                               /\ proc'[q].op = proc[q].op
            BY <2>1 DEF Others, Holds
        <2>5. \A q, r \in Procs : q # r /\ Holds(q)' /\ Holds(r)'
                                  => proc'[q].op = Atomic!Read /\ proc'[r].op = Atomic!Read
            BY <2>2, <2>4 DEF Locks
        <2>6. \A q \in Procs :
                  /\ proc'[q].op = Atomic!Read => ~Writing(q)' /\ proc'[q].pc # "renamed"
                  /\ proc'[q].op = Seed => Writing(q)' \/ proc'[q].pc \in {"renamed", "done"}
                  /\ proc'[q].pc \in {"off", "idle"} => proc'[q] \in {Off, Ready}
            BY <2>1, <2>3 DEF Locks, Others, Writing
        <2>7. Off' = Off /\ Ready' = Ready
            BY DEF Off, Ready
        <2> QED
            BY <2>5, <2>6, <2>7 DEF Locks
    <1>4. ASSUME NEW p \in Procs, LoadForRead(p) PROVE Locks'
        BY <1>4, <1>b, Moves, OthersKept DEF Locks, Holds, InCall, Writing
    <1>5. ASSUME NEW p \in Procs, LoadAndChange(p) PROVE Locks'
        BY <1>5, <1>b, Moves, OthersKept DEF Locks, Holds, InCall, Writing
    <1>6. ASSUME NEW p \in Procs, LoadFails(p) PROVE Locks'
        BY <1>6, <1>b, ProcFields, OthersKept
        DEF LoadFails, Leave, Locks, Holds, InCall, Writing, Types
    <1>7. ASSUME NEW p \in Procs, OpenTmp(p) PROVE Locks'
        BY <1>7, <1>b, Moves, OthersKept DEF Locks, Holds, InCall, Writing
    <1>8. ASSUME NEW p \in Procs, WriteTmp(p) PROVE Locks'
        BY <1>8, <1>b, Moves, OthersKept DEF Locks, Holds, InCall, Writing
    <1>9. ASSUME NEW p \in Procs, SyncTmp(p) PROVE Locks'
        BY <1>9, <1>b, ProcFields, OthersKept
        DEF SyncTmp, Step, Locks, Holds, InCall, Writing, Types
    <1>10. ASSUME NEW p \in Procs, Rename(p) PROVE Locks'
        BY <1>10, <1>b, ProcFields, OthersKept
        DEF Rename, Step, Locks, Holds, InCall, Writing, Types
    <1>11. ASSUME NEW p \in Procs, SyncDir(p) PROVE Locks'
        BY <1>11, <1>b, ProcFields, OthersKept
        DEF SyncDir, Step, Locks, Holds, InCall, Writing, Types
    <1>12. ASSUME NEW p \in Procs, Return(p) PROVE Locks'
        BY <1>12, <1>b, ProcFields, OthersKept DEF Return, Locks, Holds, InCall, Writing, Types
    <1>13. ASSUME NEW p \in Procs, Break(p) PROVE Locks'
        BY <1>13, <1>b, ProcFields, OthersKept
        DEF Break, Leave, Locks, Holds, InCall, Writing, Types
    <1>14. ASSUME NEW p \in Procs, Die(p) PROVE Locks'
        BY <1>14, <1>b, ProcFields, OthersKept DEF Die, Locks, Holds, InCall, Writing, Types
    <1>15. CASE WriteBack
        BY <1>15 DEF WriteBack, Locks, Holds, Writing, Off, Ready
    <1>16. CASE PowerLoss
        <2>1. \A p \in Procs : proc'[p] = Off
            BY <1>16 DEF PowerLoss
        <2>2. Off' = Off /\ Ready' = Ready
            BY DEF Off, Ready
        <2> QED
            BY <2>1, <2>2 DEF Locks, Holds, Writing, InCall
    <1>17. CASE UNCHANGED vars
        BY <1>17 DEF vars, Locks, Holds, Writing, Off, Ready
    <1> QED
        BY <1>1, <1>2, <1>3, <1>4, <1>5, <1>6, <1>7, <1>8, <1>9, <1>10, <1>11, <1>12, <1>13, <1>14,
           <1>15, <1>16, <1>17
        DEF Next

LEMMA StartingNext ==
    ASSUME StoreAssumption, SoloStart, Types, Locks, Starting, Temporary, [Next]_vars
    PROVE  Starting'
    <1> USE SeedIsNoOperation, OffIsProcess
    <1>b. ASSUME NEW p \in Procs, Others(p), path' = path, proc[p].pc # "off",
                 path = NoFile => proc'[p].pc = "off" \/ (proc'[p].op = Seed /\ Writing(p)'),
                 proc'[p].op = Seed /\ Writing(p)' => proc[p].op = Seed /\ Writing(p)
          PROVE  Starting'
        <2>1. path' = NoFile => \A q \in Procs : proc'[q].pc = "off" \/ (proc'[q].op = Seed /\ Writing(q)')
            BY <1>b DEF Starting, Others, Writing
        <2>2. ASSUME NEW q \in Procs, proc'[q].op = Seed /\ Writing(q)'
              PROVE  path' = NoFile /\ \A r \in Procs \ {q} : proc'[r].pc = "off"
            BY <1>b, <2>2 DEF Starting, Others, Writing
        <2> QED
            BY <2>1, <2>2 DEF Starting
    <1>1. ASSUME NEW p \in Procs, Boot(p) PROVE Starting'
        <2>1. CASE path = NoFile
            <3>1. \A q \in Procs : proc[q].pc = "off"
                BY <1>1, <2>1 DEF Boot
            <3>2. proc'[p].op = Seed /\ proc'[p].pc = "loaded" /\ path' = NoFile
                BY <1>1, <2>1 DEF Boot, Types, Off
            <3> QED
                BY <1>1, <3>1, <3>2, OthersKept DEF Starting, Writing, Others
        <2>2. CASE path # NoFile
            <3>1. proc'[p] = Ready /\ path' = path
                BY <1>1, <2>2 DEF Boot, Types
            <3> QED
                BY <1>1, <2>2, <3>1, OthersKept DEF Starting, Writing, Others
        <2> QED
            BY <2>1, <2>2
    <1>2. ASSUME NEW p \in Procs, Request(p) PROVE Starting'
        BY <1>2, <1>b, Moves, OthersKept DEF Locks, Starting, Writing
    <1>3. ASSUME NEW p \in Procs, Flock(p) PROVE Starting'
        BY <1>3, <1>b, ProcFields, OthersKept
        DEF Flock, Step, Starting, Locks, Writing, Types, InCall
    <1>4. ASSUME NEW p \in Procs, LoadForRead(p) PROVE Starting'
        BY <1>4, <1>b, Moves, OthersKept DEF Locks, Starting, Writing
    <1>5. ASSUME NEW p \in Procs, LoadAndChange(p) PROVE Starting'
        BY <1>5, <1>b, Moves, OthersKept DEF Locks, Starting, Writing
    <1>6. ASSUME NEW p \in Procs, LoadFails(p) PROVE Starting'
        BY <1>6, <1>b, ProcFields, OthersKept
        DEF LoadFails, Leave, Starting, Locks, Writing, Types, InCall
    <1>7. ASSUME NEW p \in Procs, OpenTmp(p) PROVE Starting'
        BY <1>7, <1>b, Moves, OthersKept DEF Locks, Starting, Writing
    <1>8. ASSUME NEW p \in Procs, WriteTmp(p) PROVE Starting'
        BY <1>8, <1>b, Moves, OthersKept DEF Locks, Starting, Writing
    <1>9. ASSUME NEW p \in Procs, SyncTmp(p) PROVE Starting'
        BY <1>9, <1>b, ProcFields, OthersKept
        DEF SyncTmp, Step, Starting, Locks, Writing, Types, InCall
    <1>10. ASSUME NEW p \in Procs, Rename(p) PROVE Starting'
        <2>1. path' # NoFile /\ Writing(p) /\ ~Writing(p)' /\ Others(p)
            BY <1>10, OthersKept, ProcStep DEF Rename, Writing, Places, InCall
        <2>2. \A q \in Procs \ {p} : ~(proc[q].op = Seed /\ Writing(q))
            BY <2>1 DEF Starting, Writing
        <2> QED
            BY <2>1, <2>2 DEF Starting, Others, Writing
    <1>11. ASSUME NEW p \in Procs, SyncDir(p) PROVE Starting'
        BY <1>11, <1>b, ProcFields, OthersKept
        DEF SyncDir, Step, Starting, Locks, Writing, Types, InCall
    <1>12. ASSUME NEW p \in Procs, Return(p) PROVE Starting'
        BY <1>12, <1>b, ProcFields, OthersKept DEF Return, Starting, Locks, Writing, Types, InCall
    <1>13. ASSUME NEW p \in Procs, Break(p) PROVE Starting'
        BY <1>13, <1>b, ProcFields, OthersKept
        DEF Break, Leave, Starting, Locks, Writing, Types, InCall
    <1>14. ASSUME NEW p \in Procs, Die(p) PROVE Starting'
        BY <1>14, <1>b, ProcFields, OthersKept DEF Die, Starting, Locks, Writing, Types, InCall
    <1>15. CASE WriteBack
        BY <1>15 DEF WriteBack, Starting, Writing
    <1>16. CASE PowerLoss
        BY <1>16 DEF PowerLoss, Starting, Writing
    <1>17. CASE UNCHANGED vars
        BY <1>17 DEF vars, Starting, Writing
    <1> QED
        BY <1>1, <1>2, <1>3, <1>4, <1>5, <1>6, <1>7, <1>8, <1>9, <1>10, <1>11, <1>12, <1>13, <1>14,
           <1>15, <1>16, <1>17
        DEF Next

-----------------------------------------------------------------------------
(* The files.                                                              *)

(* Two processes are never both on their way with the temporary.           *)
LEMMA OneWriter ==
    ASSUME Locks, Starting, NEW p \in Procs, Writing(p)
    PROVE  \A q \in Procs \ {p} : ~Writing(q)
    <1> SUFFICES ASSUME NEW q \in Procs \ {p}, Writing(q) PROVE FALSE
        OBVIOUS
    <1>1. CASE proc[p].op = Seed \/ proc[q].op = Seed
        BY <1>1 DEF Starting, Writing
    <1>2. CASE proc[p].op # Seed /\ proc[q].op # Seed
        <2>1. Holds(p) /\ Holds(q)
            BY <1>2 DEF Holds, Writing, InCall
        <2> QED
            BY <2>1 DEF Locks
    <1> QED
        BY <1>1, <1>2

LEMMA VisibleKept ==
    ASSUME path' = path, path # NoFile => content'[path] = content[path]
    PROVE  Visible' = Visible
    BY DEF Visible, TableOf

LEMMA NotTheTemporary ==
    ASSUME Files
    PROVE  tmp # NoFile => tmp # path /\ tmp \notin entry
    BY DEF Files

LEMMA IntendedIsTable ==
    ASSUME Types, Locks, Files, NEW p \in Procs, Writing(p)
    PROVE  Intended(p) \in Tables
    <1>1. proc[p].op = Seed \/ proc[p].op \in Atomic!Writes
        BY ProcFields DEF Locks, Ops
    <1> QED
        BY <1>1, NoRecordsIsTable, VisibleIsTable, EffectIsTable DEF Intended

(* A step that leaves the name and the writer's temporary as they are.     *)
LEMMA QuietStep ==
    ASSUME Temporary, NEW p \in Procs, Others(p), Visible' = Visible, tmp' = tmp,
           tmp # NoFile => content'[tmp] = content[tmp],
           tmp # NoFile /\ tmp \in synced => tmp \in synced',
           Progress(p)'
    PROVE  Temporary'
    <1> SUFFICES ASSUME NEW q \in Procs PROVE Progress(q)'
        BY DEF Temporary
    <1>1. CASE q = p
        BY <1>1
    <1>2. CASE q # p
        <2>1. proc'[q] = proc[q] /\ Progress(q)
            BY <1>2 DEF Others, Temporary
        <2>2. Intended(q)' = Intended(q)
            BY <2>1 DEF Intended, Atomic!Effect, NoRecords, Atomic!NoRecords
        <2>3. Atomic!Refused(proc'[q].op, Visible') = Atomic!Refused(proc[q].op, Visible)
            BY <2>1 DEF Atomic!Refused
        <2> QED
            BY <2>1, <2>2, <2>3 DEF Progress, Writing
    <1> QED
        BY <1>1, <1>2

(* A step of the one writer.                                               *)
LEMMA WriterStep ==
    ASSUME NEW p \in Procs, Others(p), \A q \in Procs \ {p} : ~Writing(q), Progress(p)'
    PROVE  Temporary'
    <1> SUFFICES ASSUME NEW q \in Procs PROVE Progress(q)'
        BY DEF Temporary
    <1>1. CASE q = p
        BY <1>1
    <1>2. CASE q # p
        BY <1>2 DEF Others, Progress, Writing
    <1> QED
        BY <1>1, <1>2

(* A process that writes nothing has no progress to make.                  *)
LEMMA Resting == ASSUME NEW p \in Procs PROVE ~Writing(p) => Progress(p)
    BY DEF Progress, Writing

LEMMA FilesNext ==
    ASSUME StoreAssumption, Types, Locks, Files, Temporary, [Next]_vars
    PROVE  Files'
    <1>b. ASSUME path' = path, entry' = entry, tmp' = tmp, synced' = synced,
                 \A i \in entry : content'[i] = content[i]
          PROVE  Files'
        BY <1>b DEF Files, Tables
    <1>1. ASSUME NEW p \in Procs, Boot(p) PROVE Files'
        BY <1>1, <1>b DEF Boot
    <1>2. ASSUME NEW p \in Procs, Request(p) PROVE Files'
        BY <1>2, <1>b DEF Request
    <1>3. ASSUME NEW p \in Procs, Flock(p) PROVE Files'
        BY <1>3, <1>b DEF Flock, Step
    <1>4. ASSUME NEW p \in Procs, LoadForRead(p) PROVE Files'
        BY <1>4, <1>b DEF LoadForRead
    <1>5. ASSUME NEW p \in Procs, LoadAndChange(p) PROVE Files'
        BY <1>5, <1>b DEF LoadAndChange, Leave
    <1>6. ASSUME NEW p \in Procs, LoadFails(p) PROVE Files'
        BY <1>6, <1>b DEF LoadFails, Leave
    <1>7. ASSUME NEW p \in Procs, OpenTmp(p) PROVE Files'
        <2>1. PICK i \in IF tmp # NoFile THEN {tmp} ELSE Inodes \ Live(path, tmp, entry) :
                  /\ tmp' = i
                  /\ content' = [content EXCEPT ![i] = Empty]
                  /\ synced' = synced \ {i}
            BY <1>7 DEF OpenTmp
        <2>2. i \notin entry
            <3>1. CASE tmp # NoFile
                BY <2>1, <3>1, NotTheTemporary DEF Types
            <3>2. CASE tmp = NoFile
                <4>1. i \in Inodes /\ i \notin (({path, tmp} \cup entry) \ {NoFile}) /\ i # NoFile
                    BY <2>1, <3>2 DEF StoreAssumption, Live
                <4> QED
                    BY <4>1
            <3> QED
                BY <3>1, <3>2
        <2>3. path' = path /\ entry' = entry
            BY <1>7 DEF OpenTmp
        <2>4. \A j \in entry \ {NoFile} : content'[j] = content[j] /\ (j \in synced => j \in synced')
            BY <2>1, <2>2 DEF Types
        <2> QED
            BY <2>1, <2>2, <2>3, <2>4 DEF Files, Tables
    <1>8. ASSUME NEW p \in Procs, WriteTmp(p) PROVE Files'
        <2>1. proc[p].pc = "opened" => proc[p].fd = tmp /\ tmp \notin entry
            BY NotTheTemporary DEF Temporary, Progress
        <2>2. path' = path /\ entry' = entry /\ tmp' = tmp
            BY <1>8 DEF WriteTmp
        <2>3. \A i \in entry \ {NoFile} : content'[i] = content[i] /\ (i \in synced => i \in synced')
            BY <1>8, <2>1 DEF WriteTmp, Types
        <2> QED
            BY <2>2, <2>3 DEF Files, Tables
    <1>9. ASSUME NEW p \in Procs, SyncTmp(p) PROVE Files'
        BY <1>9 DEF SyncTmp, Files, Tables
    <1>10. ASSUME NEW p \in Procs, Rename(p) PROVE Files'
        <2>1. Writing(p) /\ tmp \in synced /\ tmp # NoFile /\ content[tmp] = Intended(p)
            BY <1>10 DEF Rename, Writing, Temporary, Progress
        <2>2. content[tmp] \in Tables
            BY <2>1, IntendedIsTable
        <2> QED
            BY <1>10, <2>1, <2>2 DEF Rename, Files, Tables
    <1>11. ASSUME NEW p \in Procs, SyncDir(p) PROVE Files'
        <2>1. path # NoFile => content'[path] = content[path] /\ path \in synced'
            BY <1>11 DEF SyncDir, Reclaim, Live, Files, Types
        <2> QED
            BY <1>11, <2>1 DEF SyncDir, Files, Tables
    <1>12. ASSUME NEW p \in Procs, Return(p) PROVE Files'
        BY <1>12, <1>b DEF Return
    <1>13. ASSUME NEW p \in Procs, Break(p) PROVE Files'
        <2>1. proc[p].pc = "opened" => proc[p].fd = tmp /\ tmp \notin entry
            BY NotTheTemporary DEF Temporary, Progress
        <2>2. path' = path /\ entry' = entry /\ tmp' = tmp
            BY <1>13 DEF Break
        <2>3. \A i \in entry \ {NoFile} : content'[i] = content[i] /\ (i \in synced => i \in synced')
            BY <1>13, <2>1 DEF Break, Types
        <2> QED
            BY <2>2, <2>3 DEF Files, Tables
    <1>14. ASSUME NEW p \in Procs, Die(p) PROVE Files'
        <2>1. proc[p].pc = "opened" => proc[p].fd = tmp /\ tmp \notin entry
            BY NotTheTemporary DEF Temporary, Progress
        <2>2. path' = path /\ entry' = entry /\ tmp' = tmp
            BY <1>14 DEF Die
        <2>3. \A i \in entry \ {NoFile} : content'[i] = content[i] /\ (i \in synced => i \in synced')
            BY <1>14, <2>1 DEF Die, Types
        <2> QED
            BY <2>2, <2>3 DEF Files, Tables
    <1>15. CASE WriteBack
        <2>1. path # NoFile => content'[path] = content[path] /\ path \in synced'
            BY <1>15 DEF WriteBack, Live, Types
        <2> QED
            BY <1>15, <2>1 DEF WriteBack, Files, Tables
    <1>16. CASE PowerLoss
        <2>1. path' # NoFile => path' \in Inodes /\ path' \in synced /\ content[path'] \in Tables
            BY <1>16 DEF PowerLoss, Files, Types
        <2>2. path' # NoFile => content'[path'] \in MayHold(path')
            BY <1>16, <2>1 DEF PowerLoss
        <2>3. path' # NoFile => content'[path'] \in Tables /\ path' \in synced'
            BY <1>16, <2>1, <2>2 DEF PowerLoss, MayHold
        <2> QED
            BY <1>16, <2>3 DEF PowerLoss, Files, Tables
    <1>17. CASE UNCHANGED vars
        BY <1>17, <1>b DEF vars
    <1> QED
        BY <1>1, <1>2, <1>3, <1>4, <1>5, <1>6, <1>7, <1>8, <1>9, <1>10, <1>11, <1>12, <1>13, <1>14,
           <1>15, <1>16, <1>17
        DEF Next

LEMMA TemporaryNext ==
    ASSUME StoreAssumption, Types, Locks, Starting, Files, Temporary, [Next]_vars
    PROVE  Temporary'
    <1> USE SeedIsNoOperation, OffIsProcess
    <1>b. ASSUME NEW p \in Procs, Others(p), path' = path, tmp' = tmp, content' = content,
                 synced' = synced, Progress(p)'
          PROVE  Temporary'
        BY <1>b, QuietStep, VisibleKept
    <1>c. ASSUME NEW p \in Procs, Others(p), path' = path, tmp' = tmp, content' = content,
                 synced' = synced, ~Writing(p)'
          PROVE  Temporary'
        BY <1>b, <1>c DEF Progress, Writing
    <1>d. ASSUME NEW p \in Procs, Writing(p), Others(p), ~Writing(p)'
          PROVE  Temporary'
        <2>1. \A q \in Procs \ {p} : ~Writing(q)
            BY <1>d, OneWriter
        <2>2. Progress(p)'
            BY <1>d DEF Progress, Writing
        <2> QED
            BY <1>d, <2>1, <2>2, WriterStep
    <1>1. ASSUME NEW p \in Procs, Boot(p) PROVE Temporary'
        <2>1. Progress(p)'
            <3>1. CASE path = NoFile
                <4>1. proc'[p].pc = "loaded" /\ proc'[p].op = Seed /\ proc'[p].db = NoRecords
                    BY <1>1, <3>1 DEF Boot, Types, Off, NoRecords
                <4> QED
                    BY <4>1 DEF Progress, Writing, Intended, NoRecords
            <3>2. CASE path # NoFile
                BY <1>1, <3>2 DEF Boot, Types, Progress, Writing
            <3> QED
                BY <3>1, <3>2
        <2> QED
            BY <1>1, <1>b, <2>1, OthersKept DEF Boot
    <1>2. ASSUME NEW p \in Procs, Request(p) PROVE Temporary'
        BY <1>2, <1>c, OthersKept, Moves DEF Request, Writing
    <1>3. ASSUME NEW p \in Procs, Flock(p) PROVE Temporary'
        <2>1. ~Writing(p)' /\ Others(p)
            BY <1>3, ProcStep DEF Flock, Writing, Places, InCall
        <2> QED
            BY <1>3, <1>c, <2>1 DEF Flock
    <1>4. ASSUME NEW p \in Procs, LoadForRead(p) PROVE Temporary'
        BY <1>4, <1>c, OthersKept, Moves DEF LoadForRead, Writing
    <1>5. ASSUME NEW p \in Procs, LoadAndChange(p) PROVE Temporary'
        <2>1. UNCHANGED <<path, tmp, content, synced>> /\ Others(p)
            BY <1>5, OthersKept DEF LoadAndChange
        <2>2. CASE Atomic!Refused(proc[p].op, Visible)
            <3>1. ~Writing(p)'
                BY <1>5, <2>2, ProcLeave DEF LoadAndChange, Writing
            <3> QED
                BY <1>c, <2>1, <3>1
        <2>3. CASE ~Atomic!Refused(proc[p].op, Visible)
            <3> DEFINE t == Atomic!Effect(proc[p].op, Visible)
            <3>1. proc'[p].pc = "loaded" /\ proc'[p].db = t /\ proc'[p].op = proc[p].op
                  /\ proc[p].op \in Atomic!Writes
                BY <1>5, <2>3 DEF LoadAndChange, Types, Processes
            <3>2. Visible' = Visible
                BY <2>1, VisibleKept
            <3>3. Intended(p)' = t
                BY <3>1, <3>2 DEF Intended, Atomic!Effect
            <3>4. ~Atomic!Refused(proc'[p].op, Visible')
                BY <2>3, <3>1, <3>2 DEF Atomic!Refused
            <3>5. Progress(p)'
                BY <3>1, <3>3, <3>4 DEF Progress
            <3> QED
                BY <1>b, <2>1, <3>5
        <2> QED
            BY <2>2, <2>3
    <1>6. ASSUME NEW p \in Procs, LoadFails(p) PROVE Temporary'
        <2>1. ~Writing(p)' /\ Others(p)
            BY <1>6, ProcLeave DEF LoadFails, Writing
        <2> QED
            BY <1>6, <1>c, <2>1 DEF LoadFails
    <1>7. ASSUME NEW p \in Procs, OpenTmp(p) PROVE Temporary'
        <2>1. PICK i \in IF tmp # NoFile THEN {tmp} ELSE Inodes \ Live(path, tmp, entry) :
                  /\ tmp' = i
                  /\ proc' = [proc EXCEPT ![p].pc = "opened", ![p].fd = i]
                  /\ content' = [content EXCEPT ![i] = Empty]
            BY <1>7 DEF OpenTmp
        <2>2. i # NoFile /\ i # path
            <3>1. CASE tmp # NoFile
                BY <2>1, <3>1, NotTheTemporary DEF Types
            <3>2. CASE tmp = NoFile
                <4>1. i \in Inodes /\ i \notin (({path, tmp} \cup entry) \ {NoFile}) /\ i # NoFile
                    BY <2>1, <3>2 DEF StoreAssumption, Live
                <4> QED
                    BY <4>1
            <3> QED
                BY <3>1, <3>2
        <2>3. Visible' = Visible
            BY <1>7, <2>1, <2>2, VisibleKept DEF OpenTmp, Types
        <2>4. /\ proc'[p].pc = "opened" /\ proc'[p].fd = i
              /\ proc'[p].op = proc[p].op /\ proc'[p].db = proc[p].db
            BY <2>1 DEF Types, Processes
        <2>5. Writing(p) /\ Progress(p) /\ proc[p].pc = "loaded"
            BY <1>7 DEF OpenTmp, Writing, Temporary
        <2>6. Intended(p)' = Intended(p) /\ Atomic!Refused(proc[p].op, Visible)' = Atomic!Refused(proc[p].op, Visible)
            BY <2>3, <2>4 DEF Intended, Atomic!Refused, Atomic!Effect, NoRecords, Atomic!NoRecords
        <2>7. tmp' = i
            BY <2>1
        <2>8. Progress(p)'
            BY <2>2, <2>4, <2>5, <2>6, <2>7 DEF Progress, Writing
        <2> QED
            BY <1>7, <2>5, <2>8, OneWriter, OthersKept, WriterStep
    <1>8. ASSUME NEW p \in Procs, WriteTmp(p) PROVE Temporary'
        <2>1. Writing(p) /\ Progress(p) /\ proc[p].pc = "opened"
            BY <1>8 DEF WriteTmp, Writing, Temporary
        <2>2. tmp # NoFile /\ proc[p].fd = tmp /\ tmp # path /\ tmp \in Inodes
            BY <2>1, NotTheTemporary DEF Progress, Types
        <2>3. content' = [content EXCEPT ![tmp] = proc[p].db] /\ tmp' = tmp /\ path' = path
            BY <1>8, <2>2 DEF WriteTmp
        <2>4. Visible' = Visible /\ content'[tmp] = proc[p].db
            BY <2>2, <2>3, VisibleKept DEF Types
        <2>5. proc'[p].pc = "written" /\ proc'[p].op = proc[p].op
            BY <1>8, Moves
        <2>6. Progress(p)'
            BY <2>1, <2>2, <2>3, <2>4, <2>5
            DEF Progress, Writing, Intended, Atomic!Refused, Atomic!Effect, NoRecords,
                Atomic!NoRecords
        <2> QED
            BY <1>8, <2>1, <2>6, OneWriter, OthersKept, WriterStep
    <1>9. ASSUME NEW p \in Procs, SyncTmp(p) PROVE Temporary'
        <2>1. Writing(p) /\ Progress(p) /\ proc[p].pc = "written"
            BY <1>9 DEF SyncTmp, Writing, Temporary
        <2>2. proc'[p].pc = "synced" /\ proc'[p].op = proc[p].op
            BY <1>9, ProcStep DEF SyncTmp, Places, InCall
        <2>3. UNCHANGED <<path, tmp, content>> /\ synced' = synced \cup {tmp} /\ Visible' = Visible
            BY <1>9, VisibleKept DEF SyncTmp
        <2>4. Progress(p)'
            BY <2>1, <2>2, <2>3
            DEF Progress, Writing, Intended, Atomic!Refused, Atomic!Effect, NoRecords,
                Atomic!NoRecords
        <2> QED
            BY <1>9, <2>1, <2>4, OneWriter, OthersKept, WriterStep
    <1>10. ASSUME NEW p \in Procs, Rename(p) PROVE Temporary'
        <2>1. Writing(p) /\ ~Writing(p)' /\ Others(p)
            BY <1>10, ProcStep DEF Rename, Writing, Places, InCall
        <2> QED
            BY <1>d, <2>1
    <1>11. ASSUME NEW p \in Procs, SyncDir(p) PROVE Temporary'
        <2>1. ~Writing(p)' /\ Others(p)
            BY <1>11, ProcStep DEF SyncDir, Writing, Places, InCall
        <2>2. /\ path' = path /\ tmp' = tmp
              /\ path # NoFile => content'[path] = content[path]
              /\ tmp # NoFile => content'[tmp] = content[tmp] /\ (tmp \in synced => tmp \in synced')
            BY <1>11 DEF SyncDir, Reclaim, Live, Types
        <2>3. Progress(p)'
            BY <2>1 DEF Progress, Writing
        <2> QED
            BY <2>1, <2>2, <2>3, VisibleKept, QuietStep
    <1>12. ASSUME NEW p \in Procs, Return(p) PROVE Temporary'
        BY <1>12, <1>c, OthersKept, Moves DEF Return, Writing, Types
    <1>13. ASSUME NEW p \in Procs, Break(p) PROVE Temporary'
        <2>1. ~Writing(p)' /\ Others(p)
            BY <1>13, ProcLeave DEF Break, Writing
        <2>2. CASE Writing(p)
            BY <1>d, <2>1, <2>2
        <2>3. CASE ~Writing(p)
            BY <1>13, <1>c, <2>1, <2>3 DEF Break, Writing
        <2> QED
            BY <2>2, <2>3
    <1>14. ASSUME NEW p \in Procs, Die(p) PROVE Temporary'
        <2>1. ~Writing(p)' /\ Others(p)
            BY <1>14, OthersKept DEF Die, Writing, Types
        <2>2. CASE Writing(p)
            BY <1>d, <2>1, <2>2
        <2>3. CASE ~Writing(p)
            BY <1>14, <1>c, <2>1, <2>3 DEF Die, Writing
        <2> QED
            BY <2>2, <2>3
    <1>15. CASE WriteBack
        <2>1. /\ path' = path /\ tmp' = tmp /\ proc' = proc
              /\ path # NoFile => content'[path] = content[path]
              /\ tmp # NoFile => content'[tmp] = content[tmp] /\ tmp \in synced'
            BY <1>15 DEF WriteBack, Live, Types
        <2>2. Visible' = Visible
            BY <2>1, VisibleKept
        <2> SUFFICES ASSUME NEW q \in Procs PROVE Progress(q)'
            BY DEF Temporary
        <2>3. Progress(q)
            BY DEF Temporary
        <2> QED
            BY <2>1, <2>2, <2>3
            DEF Progress, Writing, Intended, Atomic!Refused, Atomic!Effect, NoRecords,
                Atomic!NoRecords
    <1>16. CASE PowerLoss
        BY <1>16 DEF PowerLoss, Temporary, Progress, Writing
    <1>17. CASE UNCHANGED vars
        <2>1. Visible' = Visible
            BY <1>17, VisibleKept DEF vars
        <2> QED
            BY <1>17, <2>1
            DEF vars, Temporary, Progress, Writing, Intended, Atomic!Refused, Atomic!Effect,
                NoRecords,
                Atomic!NoRecords
    <1> QED
        BY <1>1, <1>2, <1>3, <1>4, <1>5, <1>6, <1>7, <1>8, <1>9, <1>10, <1>11, <1>12, <1>13, <1>14,
           <1>15, <1>16, <1>17
        DEF Next

LEMMA StoreInvInit == ASSUME StoreAssumption, Init PROVE StoreInv
    <1> USE OffIsProcess DEF Init
    <1>1. Types
        BY StoreTypesInit
    <1>2. Locks
        BY SeedIsNoOperation DEF Locks, Writing, Holds, InCall
    <1>3. Starting
        BY SeedIsNoOperation DEF Starting, Writing
    <1>4. Files
        BY DEF Files
    <1>5. Temporary
        BY DEF Temporary, Progress, Writing
    <1> QED
        BY <1>1, <1>2, <1>3, <1>4, <1>5 DEF StoreInv

LEMMA StoreInvNext ==
    ASSUME StoreAssumption, SoloStart, StoreInv, [Next]_vars
    PROVE  StoreInv'
    BY StoreTypesNext, LocksNext, StartingNext, FilesNext, TemporaryNext DEF StoreInv

LEMMA StoreInvParses == StoreInv => AlwaysParses
    <1> SUFFICES ASSUME StoreInv, path # NoFile
                 PROVE  /\ content[path] \in Tables
                        /\ \A i \in entry \ {NoFile} : MayHold(i) \subseteq Tables
        BY DEF AlwaysParses, Tables
    <1> QED
        BY DEF StoreInv, Files, MayHold

-----------------------------------------------------------------------------
(* The atomic table. Its state is read off the files and the processes.    *)

CallAt(r) ==
    LET at == CASE r.pc = "renamed" -> "done"
                [] r.pc = "done" -> "answered"
                [] OTHER -> "asked"
    IN IF r.op = Seed \/ r.pc \in {"off", "idle"}
       THEN [at |-> "idle"] ELSE [at |-> at, op |-> r.op]

FoundIn(r) == IF r.pc = "done" /\ r.op = Atomic!Read THEN r.db ELSE NoRecords

Held(i, c) == TableOf(i, IF i = NoFile THEN Empty ELSE c[i])

Calls == [p \in Procs |-> CallAt(proc[p])]

Found == [p \in Procs |-> FoundIn(proc[p])]

LEMMA CallsAreMapped ==
    /\ Atomic!vars = <<Visible, MayRemain, Calls, Found>>
    /\ (Atomic!vars)' = <<Visible', MayRemain', Calls', Found'>>
    /\ Visible = Held(path, content) /\ Visible' = Held(path', content')
    <1>1. [p \in Procs |-> CallOf(p)] = Calls /\ [p \in Procs |-> CallOf(p)]' = Calls'
        BY DEF CallOf, Calls, CallAt
    <1>2. /\ TableOf(NoFile, Empty) = NoRecords /\ Atomic!Read = [kind |-> "read"]
          /\ TableOf(NoFile, Empty)' = NoRecords' /\ NoRecords' = NoRecords
        BY NoRecordsIsTable DEF Atomic!Read, TableOf, NoRecords, Atomic!NoRecords, Atomic!StoreKeys
    <1>3. \A p \in Procs : FoundBy(p) = FoundIn(proc[p]) /\ FoundBy(p)' = FoundIn(proc'[p])
        BY <1>2 DEF FoundBy, FoundIn
    <1>4. [p \in Procs |-> FoundBy(p)] = Found /\ [p \in Procs |-> FoundBy(p)]' = Found'
        BY <1>3 DEF Found
    <1>5. Visible = Held(path, content) /\ Visible' = Held(path', content')
        BY DEF Visible, Held
    <1> QED
        BY <1>1, <1>4, <1>5 DEF Atomic!vars

LEMMA CallCases ==
    ASSUME NEW r \in Processes
    PROVE  /\ r.op = Seed \/ r.pc \in {"off", "idle"}
                => CallAt(r) = Atomic!Idle /\ FoundIn(r) = NoRecords
           /\ r.op # Seed /\ (r.pc = "waiting" \/ r.pc = "locked" \/ r.pc \in {"loaded", "opened", "written", "synced"})
                => CallAt(r) = [at |-> "asked", op |-> r.op] /\ FoundIn(r) = NoRecords
           /\ r.op # Seed /\ r.pc = "renamed"
                => CallAt(r) = [at |-> "done", op |-> r.op] /\ FoundIn(r) = NoRecords
           /\ r.op # Seed /\ r.pc = "done"
                => CallAt(r) = [at |-> "answered", op |-> r.op]
           /\ r.op # Atomic!Read => FoundIn(r) = NoRecords
           /\ r.op = Atomic!Read /\ r.pc = "done" => FoundIn(r) = r.db
    BY SeedIsNoOperation DEF CallAt, FoundIn, Atomic!Idle

(* What state.db may name after a power loss, when Files holds.            *)
LEMMA Remains == Files => MayRemain = {Held(i, content) : i \in entry}
    BY DEF Files, MayRemain, MayHold, Held

LEMMA RemainsNext == Files' => MayRemain' = {Held(i, content') : i \in entry'}
    BY DEF Files, MayRemain, MayHold, Held

(* The steps that change no table.                                         *)
LEMMA TablesKept ==
    ASSUME Files, Files', path' = path, entry' = entry,
           \A i \in entry \ {NoFile} : content'[i] = content[i]
    PROVE  Visible' = Visible /\ MayRemain' = MayRemain
    <1>1. \A i \in entry : Held(i, content') = Held(i, content)
        BY DEF Held, TableOf
    <1> QED
        BY <1>1, CallsAreMapped, Remains, RemainsNext DEF Files

LEMMA CallsBecome ==
    ASSUME NEW p \in Procs, Others(p)
    PROVE  /\ Calls' = [Calls EXCEPT ![p] = CallAt(proc'[p])]
           /\ Found' = [Found EXCEPT ![p] = FoundIn(proc'[p])]
    <1>1. \A q \in Procs \ {p} : CallAt(proc'[q]) = CallAt(proc[q]) /\ FoundIn(proc'[q]) = FoundIn(proc[q])
        BY DEF Others
    <1> QED
        BY <1>1 DEF Calls, Found

LEMMA CallsStay ==
    ASSUME NEW p \in Procs, Others(p), CallAt(proc'[p]) = CallAt(proc[p]),
           FoundIn(proc'[p]) = FoundIn(proc[p])
    PROVE  Calls' = Calls /\ Found' = Found
    BY CallsBecome DEF Calls, Found

(* The abstract actions, in terms of what they are mapped from.            *)
LEMMA AbstractActions ==
    /\ \A p \in Procs :
           /\ Atomic!Ask(p) <=>
                /\ Calls[p] = Atomic!Idle
                /\ \E op \in {Atomic!Read} \cup Atomic!Writes :
                       Calls' = [Calls EXCEPT ![p] = [at |-> "asked", op |-> op]]
                /\ Visible' = Visible /\ MayRemain' = MayRemain /\ Found' = Found
           /\ Atomic!Look(p) <=>
                /\ Calls[p].at = "asked" /\ Calls[p].op = Atomic!Read
                /\ Found' = [Found EXCEPT ![p] = Visible]
                /\ Calls' = [Calls EXCEPT ![p].at = "answered"]
                /\ Visible' = Visible /\ MayRemain' = MayRemain
           /\ Atomic!Write(p) <=>
                /\ Calls[p].at = "asked" /\ Calls[p].op \in Atomic!Writes
                /\ ~Atomic!Refused(Calls[p].op, Visible)
                /\ Visible' = Atomic!Effect(Calls[p].op, Visible)
                /\ MayRemain' = MayRemain \cup {Visible'}
                /\ Calls' = [Calls EXCEPT ![p].at = "done"]
                /\ Found' = Found
           /\ Atomic!Answer(p) <=>
                /\ Calls[p].at = "done"
                /\ MayRemain' = {Visible}
                /\ Calls' = [Calls EXCEPT ![p].at = "answered"]
                /\ Visible' = Visible /\ Found' = Found
           /\ Atomic!Leave(p) <=>
                /\ Calls[p] # Atomic!Idle
                /\ Calls' = [Calls EXCEPT ![p] = Atomic!Idle]
                /\ Found' = [Found EXCEPT ![p] = NoRecords]
                /\ Visible' = Visible /\ MayRemain' = MayRemain
    /\ Atomic!Settle <=>
         MayRemain' = {Visible} /\ Visible' = Visible /\ Calls' = Calls /\ Found' = Found
    /\ Atomic!PowerLoss <=>
         /\ Visible' \in MayRemain /\ MayRemain' = {Visible'}
         /\ Calls' = [p \in Procs |-> Atomic!Idle]
         /\ Found' = [p \in Procs |-> NoRecords]
    <1>1. [p \in Procs |-> CallOf(p)] = Calls /\ [p \in Procs |-> CallOf(p)]' = Calls'
        BY DEF CallOf, Calls, CallAt
    <1>2. [p \in Procs |-> FoundBy(p)] = Found /\ [p \in Procs |-> FoundBy(p)]' = Found'
        BY CallsAreMapped DEF Atomic!vars
    <1> QED
        BY <1>1, <1>2 DEF Atomic!Ask, Atomic!Look, Atomic!Write, Atomic!Answer, Atomic!Leave,
           Atomic!Settle, Atomic!PowerLoss, NoRecords

LEMMA AtomicInit == ASSUME Init PROVE Atomic!Init
    <1> DEFINE T == Atomic!Tables
    <1>1. Visible = NoRecords /\ MayRemain = {NoRecords}
        BY NoRecordsIsTable DEF Init, Visible, MayRemain, TableOf
    <1>2. \A p \in Procs : CallOf(p) = Atomic!Idle /\ FoundBy(p) = NoRecords
        BY OffIsProcess, NoRecordsIsTable DEF Init, CallOf, FoundBy, Atomic!Idle
    <1> QED
        BY <1>1, <1>2, NoRecordsIsTable DEF Atomic!Init, Tables, NoRecords

LEMMA AtomicNext ==
    ASSUME StoreAssumption, StoreInv, StoreInv', [Next]_vars
    PROVE  [Atomic!Next]_(Atomic!vars)
    <1> USE SeedIsNoOperation
    <1>0. /\ Files /\ Files' /\ Types /\ Types' /\ Locks /\ Starting /\ Temporary
          /\ \A q \in Procs : proc[q] \in Processes /\ proc'[q] \in Processes
        BY DEF StoreInv, Types
    <1>s. ASSUME Visible' = Visible, MayRemain' = MayRemain, Calls' = Calls, Found' = Found
          PROVE  [Atomic!Next]_(Atomic!vars)
        BY <1>s, CallsAreMapped
    <1>a. ASSUME NEW p \in Procs, Atomic!Ask(p) \/ Atomic!Write(p) \/ Atomic!Look(p) \/ Atomic!Answer(p) \/ Atomic!Leave(p)
          PROVE  [Atomic!Next]_(Atomic!vars)
        BY <1>a DEF Atomic!Next
    <1>q. ASSUME NEW p \in Procs, Others(p), Visible' = Visible, MayRemain' = MayRemain,
                 CallAt(proc'[p]) = CallAt(proc[p]), FoundIn(proc'[p]) = FoundIn(proc[p])
          PROVE  [Atomic!Next]_(Atomic!vars)
        BY <1>q, <1>s, CallsStay
    <1>l. ASSUME NEW p \in Procs, Others(p), Visible' = Visible, MayRemain' = MayRemain,
                 proc'[p].pc \in {"off", "idle"}
          PROVE  [Atomic!Next]_(Atomic!vars)
        <2>1. CallAt(proc'[p]) = Atomic!Idle /\ FoundIn(proc'[p]) = NoRecords
            BY <1>l, <1>0, CallCases
        <2>2. CASE CallAt(proc[p]) = Atomic!Idle
            <3>1. FoundIn(proc[p]) = NoRecords
                BY <2>2 DEF CallAt, FoundIn, Atomic!Idle
            <3> QED
                BY <1>l, <1>q, <2>1, <2>2, <3>1
        <2>3. CASE CallAt(proc[p]) # Atomic!Idle
            <3>1. Calls[p] = CallAt(proc[p])
                BY DEF Calls
            <3>2. Atomic!Leave(p)
                BY <1>l, <2>1, <2>3, <3>1, CallsBecome, AbstractActions
            <3> QED
                BY <1>a, <3>2
        <2> QED
            BY <2>2, <2>3
    <1>1. ASSUME NEW p \in Procs, Boot(p) PROVE [Atomic!Next]_(Atomic!vars)
        <2>k. Visible' = Visible /\ MayRemain' = MayRemain /\ Others(p)
            BY <1>1, <1>0, TablesKept, OthersKept DEF Boot
        <2>1. CASE path = NoFile
            <3>1. proc'[p].op = Seed /\ proc[p].pc = "off"
                BY <1>1, <1>0, <2>1 DEF Boot, Types, Off
            <3>2. CallAt(proc'[p]) = CallAt(proc[p]) /\ FoundIn(proc'[p]) = FoundIn(proc[p])
                BY <1>0, <3>1, CallCases
            <3> QED
                BY <1>q, <2>k, <3>2
        <2>2. CASE path # NoFile
            <3>1. proc'[p] = Ready
                BY <1>1, <1>0, <2>2 DEF Boot, Types
            <3> QED
                BY <1>l, <2>k, <3>1, OffIsProcess
        <2> QED
            BY <2>1, <2>2
    <1>2. ASSUME NEW p \in Procs, Request(p) PROVE [Atomic!Next]_(Atomic!vars)
        <2>k. Visible' = Visible /\ MayRemain' = MayRemain /\ Others(p)
            BY <1>2, <1>0, TablesKept, OthersKept DEF Request
        <2>1. /\ proc[p].pc = "idle" /\ proc'[p].pc = "waiting"
              /\ proc'[p].op \in {Atomic!Read} \cup Atomic!Writes
            BY <1>2, <1>0, Moves
        <2>2. /\ CallAt(proc[p]) = Atomic!Idle /\ FoundIn(proc[p]) = NoRecords
              /\ CallAt(proc'[p]) = [at |-> "asked", op |-> proc'[p].op] /\ FoundIn(proc'[p]) = NoRecords
            BY <1>0, <2>1, CallCases
        <2>3. Calls[p] = CallAt(proc[p]) /\ Found[p] = FoundIn(proc[p])
            BY DEF Calls, Found
        <2>4. Calls' = [Calls EXCEPT ![p] = [at |-> "asked", op |-> proc'[p].op]] /\ Found' = Found
            BY <2>k, <2>2, <2>3, CallsBecome DEF Found
        <2>5. Atomic!Ask(p)
            BY <2>k, <2>1, <2>2, <2>3, <2>4, AbstractActions
        <2> QED
            BY <1>a, <2>5
    <1>3. ASSUME NEW p \in Procs, Flock(p) PROVE [Atomic!Next]_(Atomic!vars)
        <2>k. Visible' = Visible /\ MayRemain' = MayRemain /\ Others(p)
            BY <1>3, <1>0, TablesKept, OthersKept DEF Flock
        <2>1. proc[p].pc = "waiting" /\ proc'[p].pc = "locked" /\ proc'[p].op = proc[p].op
            BY <1>3, <1>0, ProcStep DEF Flock, Places, InCall
        <2>2. CallAt(proc'[p]) = CallAt(proc[p]) /\ FoundIn(proc'[p]) = FoundIn(proc[p])
            BY <1>0, <2>1, CallCases
        <2> QED
            BY <1>q, <2>k, <2>2
    <1>4. ASSUME NEW p \in Procs, LoadForRead(p) PROVE [Atomic!Next]_(Atomic!vars)
        <2>k. Visible' = Visible /\ MayRemain' = MayRemain /\ Others(p)
            BY <1>4, <1>0, TablesKept, OthersKept DEF LoadForRead
        <2>1. /\ proc[p].pc = "locked" /\ proc'[p].pc = "done"
              /\ proc[p].op = Atomic!Read /\ proc'[p].op = Atomic!Read
            BY <1>4, <1>0, Moves
        <2>2. proc'[p].db = Visible
            BY <1>4, <1>0 DEF LoadForRead, Types, Processes
        <2>3. /\ CallAt(proc[p]) = [at |-> "asked", op |-> Atomic!Read]
              /\ CallAt(proc'[p]) = [at |-> "answered", op |-> Atomic!Read] /\ FoundIn(proc'[p]) = Visible
            BY <1>0, <2>1, <2>2, CallCases
        <2>4. Calls[p] = CallAt(proc[p])
            BY DEF Calls
        <2>5. Calls' = [Calls EXCEPT ![p].at = "answered"] /\ Found' = [Found EXCEPT ![p] = Visible]
            BY <2>k, <2>3, <2>4, CallsBecome DEF Calls
        <2>6. Calls[p].at = "asked" /\ Calls[p].op = Atomic!Read
            BY <2>3, <2>4
        <2>7. Atomic!Look(p)
            BY <2>k, <2>5, <2>6, AbstractActions
        <2> QED
            BY <1>a, <2>7
    <1>5. ASSUME NEW p \in Procs, LoadAndChange(p) PROVE [Atomic!Next]_(Atomic!vars)
        <2>k. Visible' = Visible /\ MayRemain' = MayRemain /\ Others(p)
            BY <1>5, <1>0, TablesKept, OthersKept DEF LoadAndChange
        <2>1. /\ proc[p].pc = "locked" /\ proc[p].op \in Atomic!Writes
              /\ \/ proc'[p] = Ready
                 \/ proc'[p].pc = "loaded" /\ proc'[p].op = proc[p].op
            BY <1>5, <1>0, Moves
        <2>2. CASE proc'[p] = Ready
            BY <1>l, <2>k, <2>2, OffIsProcess
        <2>3. CASE proc'[p].pc = "loaded" /\ proc'[p].op = proc[p].op
            <3>1. CallAt(proc'[p]) = CallAt(proc[p]) /\ FoundIn(proc'[p]) = FoundIn(proc[p])
                BY <1>0, <2>1, <2>3, CallCases
            <3> QED
                BY <1>q, <2>k, <3>1
        <2> QED
            BY <2>1, <2>2, <2>3
    <1>6. ASSUME NEW p \in Procs, LoadFails(p) PROVE [Atomic!Next]_(Atomic!vars)
        <2>k. Visible' = Visible /\ MayRemain' = MayRemain /\ Others(p)
            BY <1>6, <1>0, TablesKept, OthersKept DEF LoadFails
        <2>1. proc'[p].pc \in {"off", "idle"}
            BY <1>6, <1>0, ProcLeave, OffIsProcess DEF LoadFails
        <2> QED
            BY <1>l, <2>k, <2>1
    <1>7. ASSUME NEW p \in Procs, OpenTmp(p) PROVE [Atomic!Next]_(Atomic!vars)
        <2>f. PICK i \in IF tmp # NoFile THEN {tmp} ELSE Inodes \ Live(path, tmp, entry) :
                  content' = [content EXCEPT ![i] = Empty]
            BY <1>7 DEF OpenTmp
        <2>e. i \notin entry
            <3>1. CASE tmp # NoFile
                BY <1>0, <2>f, <3>1, NotTheTemporary DEF Types
            <3>2. CASE tmp = NoFile
                <4>1. i \in Inodes /\ i \notin (({path, tmp} \cup entry) \ {NoFile}) /\ i # NoFile
                    BY <2>f, <3>2 DEF StoreAssumption, Live
                <4> QED
                    BY <4>1
            <3> QED
                BY <3>1, <3>2
        <2>g. /\ path' = path /\ entry' = entry
              /\ \A j \in entry \ {NoFile} : content'[j] = content[j]
            BY <1>7, <1>0, <2>f, <2>e DEF OpenTmp, Types
        <2>k. Visible' = Visible /\ MayRemain' = MayRemain /\ Others(p)
            BY <1>7, <1>0, <2>g, TablesKept, OthersKept
        <2>1. proc[p].pc = "loaded" /\ proc'[p].pc = "opened" /\ proc'[p].op = proc[p].op
            BY <1>7, <1>0, Moves
        <2>2. CallAt(proc'[p]) = CallAt(proc[p]) /\ FoundIn(proc'[p]) = FoundIn(proc[p])
            BY <1>0, <2>1, CallCases
        <2> QED
            BY <1>q, <2>k, <2>2
    <1>8. ASSUME NEW p \in Procs, WriteTmp(p) PROVE [Atomic!Next]_(Atomic!vars)
        <2>f. proc[p].pc = "opened" => proc[p].fd = tmp /\ tmp \notin entry /\ tmp # NoFile
            BY <1>0, NotTheTemporary DEF Temporary, Progress
        <2>g. /\ path' = path /\ entry' = entry
              /\ \A i \in entry \ {NoFile} : content'[i] = content[i]
            BY <1>8, <1>0, <2>f DEF WriteTmp, Types
        <2>k. Visible' = Visible /\ MayRemain' = MayRemain /\ Others(p)
            BY <1>8, <1>0, <2>g, TablesKept, OthersKept
        <2>1. proc[p].pc = "opened" /\ proc'[p].pc = "written" /\ proc'[p].op = proc[p].op
            BY <1>8, <1>0, Moves
        <2>2. CallAt(proc'[p]) = CallAt(proc[p]) /\ FoundIn(proc'[p]) = FoundIn(proc[p])
            BY <1>0, <2>1, CallCases
        <2> QED
            BY <1>q, <2>k, <2>2
    <1>9. ASSUME NEW p \in Procs, SyncTmp(p) PROVE [Atomic!Next]_(Atomic!vars)
        <2>k. Visible' = Visible /\ MayRemain' = MayRemain /\ Others(p)
            BY <1>9, <1>0, TablesKept, OthersKept DEF SyncTmp
        <2>1. proc[p].pc = "written" /\ proc'[p].pc = "synced" /\ proc'[p].op = proc[p].op
            BY <1>9, <1>0, ProcStep DEF SyncTmp, Places, InCall
        <2>2. CallAt(proc'[p]) = CallAt(proc[p]) /\ FoundIn(proc'[p]) = FoundIn(proc[p])
            BY <1>0, <2>1, CallCases
        <2> QED
            BY <1>q, <2>k, <2>2
    <1>10. ASSUME NEW p \in Procs, Rename(p) PROVE [Atomic!Next]_(Atomic!vars)
        <2>1. /\ Others(p) /\ proc[p].pc = "synced" /\ proc'[p].pc = "renamed" /\ proc'[p].op = proc[p].op
              /\ path' = tmp /\ entry' = entry \cup {tmp} /\ content' = content
            BY <1>10, <1>0, ProcStep DEF Rename, Places, InCall
        <2>2. Writing(p) /\ Progress(p)
            BY <1>0, <2>1 DEF Temporary, Writing
        <2>3. tmp # NoFile /\ content[tmp] = Intended(p) /\ Intended(p) \in Tables
            BY <1>0, <2>1, <2>2, IntendedIsTable DEF Progress
        <2>4. Intended(p) # Empty
            BY <2>3 DEF StoreAssumption, Tables, Atomic!Tables, Atomic!StoreKeys
        <2>5. Visible' = Intended(p) /\ Held(tmp, content') = Visible'
            BY <2>1, <2>3, <2>4, CallsAreMapped DEF Held, TableOf
        <2>6. MayRemain' = MayRemain \cup {Visible'}
            <3>1. MayRemain' = {Held(i, content) : i \in entry \cup {tmp}}
                BY <1>0, <2>1, RemainsNext
            <3>2. MayRemain = {Held(i, content) : i \in entry}
                BY <1>0, Remains
            <3>3. Visible' = Held(tmp, content)
                BY <2>1, <2>5
            <3> QED
                BY <3>1, <3>2, <3>3
        <2>7. CASE proc[p].op = Seed
            <3>1. path = NoFile /\ entry = {NoFile}
                BY <1>0, <2>2, <2>7 DEF Starting, Files
            <3>2. Visible = NoRecords /\ MayRemain = {NoRecords}
                BY <1>0, <3>1, Remains, CallsAreMapped, NoRecordsIsTable DEF Held
            <3>3. Visible' = Visible /\ MayRemain' = MayRemain
                BY <2>5, <2>6, <2>7, <3>2 DEF Intended
            <3>4. CallAt(proc'[p]) = CallAt(proc[p]) /\ FoundIn(proc'[p]) = FoundIn(proc[p])
                BY <1>0, <2>1, <2>7, CallCases
            <3> QED
                BY <1>q, <2>1, <3>3, <3>4
        <2>8. CASE proc[p].op # Seed
            <3>1. proc[p].op \in Atomic!Writes
                BY <1>0, <2>2, <2>8, ProcFields DEF Locks, Ops
            <3>2. Visible' = Atomic!Effect(proc[p].op, Visible) /\ ~Atomic!Refused(proc[p].op, Visible)
                BY <2>2, <2>5, <2>8 DEF Intended, Progress
            <3>3. /\ CallAt(proc[p]) = [at |-> "asked", op |-> proc[p].op] /\ FoundIn(proc[p]) = NoRecords
                  /\ CallAt(proc'[p]) = [at |-> "done", op |-> proc[p].op] /\ FoundIn(proc'[p]) = NoRecords
                BY <1>0, <2>1, <2>8, CallCases
            <3>4. Calls[p] = CallAt(proc[p]) /\ Found[p] = FoundIn(proc[p])
                BY DEF Calls, Found
            <3>5. Calls' = [Calls EXCEPT ![p].at = "done"] /\ Found' = Found
                <4>1. [Calls[p] EXCEPT !.at = "done"] = CallAt(proc'[p])
                    BY <3>3, <3>4
                <4>2. Calls' = [Calls EXCEPT ![p] = CallAt(proc'[p])]
                    BY <2>1, CallsBecome
                <4>3. Found' = Found
                    BY <2>1, <3>3, <3>4, CallsBecome DEF Found
                <4> QED
                    BY <4>1, <4>2, <4>3
            <3>6. Calls[p].at = "asked" /\ Calls[p].op = proc[p].op
                BY <3>3, <3>4
            <3>7. Atomic!Write(p)
                BY <2>6, <3>1, <3>2, <3>5, <3>6, AbstractActions
            <3> QED
                BY <1>a, <3>7
        <2> QED
            BY <2>7, <2>8
    <1>11. ASSUME NEW p \in Procs, SyncDir(p) PROVE [Atomic!Next]_(Atomic!vars)
        <2>1. /\ Others(p) /\ proc[p].pc = "renamed" /\ proc'[p].pc = "done" /\ proc'[p].op = proc[p].op
              /\ path' = path /\ entry' = {path}
            BY <1>11, <1>0, ProcStep DEF SyncDir, Places, InCall
        <2>2. path # NoFile => content'[path] = content[path]
            BY <1>11, <1>0 DEF SyncDir, Reclaim, Live, Types
        <2>3. Visible' = Visible
            BY <2>1, <2>2, VisibleKept
        <2>4. MayRemain' = {Visible}
            BY <1>0, <2>1, <2>3, RemainsNext, CallsAreMapped
        <2>5. CASE proc[p].op = Seed
            <3>1. CallAt(proc'[p]) = CallAt(proc[p]) /\ FoundIn(proc'[p]) = FoundIn(proc[p])
                BY <1>0, <2>1, <2>5, CallCases
            <3>2. Calls' = Calls /\ Found' = Found
                BY <2>1, <3>1, CallsStay
            <3> QED
                BY <2>3, <2>4, <3>2, AbstractActions DEF Atomic!Next
        <2>6. CASE proc[p].op # Seed
            <3>1. proc[p].op # Atomic!Read
                BY <1>0, <2>1 DEF Locks
            <3>3. /\ CallAt(proc[p]) = [at |-> "done", op |-> proc[p].op] /\ FoundIn(proc[p]) = NoRecords
                  /\ CallAt(proc'[p]) = [at |-> "answered", op |-> proc[p].op] /\ FoundIn(proc'[p]) = NoRecords
                BY <1>0, <2>1, <2>6, <3>1, CallCases
            <3>4. Calls[p] = CallAt(proc[p]) /\ Found[p] = FoundIn(proc[p])
                BY DEF Calls, Found
            <3>5. Calls' = [Calls EXCEPT ![p].at = "answered"] /\ Found' = Found
                <4>1. [Calls[p] EXCEPT !.at = "answered"] = CallAt(proc'[p])
                    BY <3>3, <3>4
                <4>2. Calls' = [Calls EXCEPT ![p] = CallAt(proc'[p])]
                    BY <2>1, CallsBecome
                <4>3. Found' = Found
                    BY <2>1, <3>3, <3>4, CallsBecome DEF Found
                <4> QED
                    BY <4>1, <4>2, <4>3
            <3>6. Calls[p].at = "done"
                BY <3>3, <3>4
            <3>7. Atomic!Answer(p)
                BY <2>3, <2>4, <3>5, <3>6, AbstractActions
            <3> QED
                BY <1>a, <3>7
        <2> QED
            BY <2>5, <2>6
    <1>12. ASSUME NEW p \in Procs, Return(p) PROVE [Atomic!Next]_(Atomic!vars)
        <2>k. Visible' = Visible /\ MayRemain' = MayRemain /\ Others(p)
            BY <1>12, <1>0, TablesKept, OthersKept DEF Return
        <2>1. proc'[p].pc = "idle"
            BY <1>12, <1>0, OffIsProcess DEF Return, Types
        <2> QED
            BY <1>l, <2>k, <2>1
    <1>13. ASSUME NEW p \in Procs, Break(p) PROVE [Atomic!Next]_(Atomic!vars)
        <2>f. proc[p].pc = "opened" => proc[p].fd = tmp /\ tmp \notin entry /\ tmp # NoFile
            BY <1>0, NotTheTemporary DEF Temporary, Progress
        <2>g. /\ path' = path /\ entry' = entry
              /\ \A i \in entry \ {NoFile} : content'[i] = content[i]
            BY <1>13, <1>0, <2>f DEF Break, Types
        <2>k. Visible' = Visible /\ MayRemain' = MayRemain /\ Others(p)
            BY <1>13, <1>0, <2>g, TablesKept, OthersKept
        <2>1. proc'[p].pc \in {"off", "idle"}
            BY <1>13, <1>0, ProcLeave, OffIsProcess DEF Break
        <2> QED
            BY <1>l, <2>k, <2>1
    <1>14. ASSUME NEW p \in Procs, Die(p) PROVE [Atomic!Next]_(Atomic!vars)
        <2>f. proc[p].pc = "opened" => proc[p].fd = tmp /\ tmp \notin entry /\ tmp # NoFile
            BY <1>0, NotTheTemporary DEF Temporary, Progress
        <2>g. /\ path' = path /\ entry' = entry
              /\ \A i \in entry \ {NoFile} : content'[i] = content[i]
            BY <1>14, <1>0, <2>f DEF Die, Types
        <2>k. Visible' = Visible /\ MayRemain' = MayRemain /\ Others(p)
            BY <1>14, <1>0, <2>g, TablesKept, OthersKept
        <2>1. proc'[p].pc = "off"
            BY <1>14, <1>0, OffIsProcess DEF Die, Types
        <2> QED
            BY <1>l, <2>k, <2>1
    <1>15. CASE WriteBack
        <2>1. path # NoFile => content'[path] = content[path]
            BY <1>15, <1>0 DEF WriteBack, Live, Types
        <2>2. Visible' = Visible
            BY <1>15, <2>1, VisibleKept DEF WriteBack
        <2>3. MayRemain' = {Visible}
            BY <1>15, <1>0, <2>2, RemainsNext, CallsAreMapped DEF WriteBack
        <2>4. Calls' = Calls /\ Found' = Found
            BY <1>15 DEF WriteBack, Calls, Found
        <2> QED
            BY <2>2, <2>3, <2>4, AbstractActions DEF Atomic!Next
    <1>16. CASE PowerLoss
        <2>1. path' \in entry /\ entry' = {path'}
            BY <1>16 DEF PowerLoss
        <2>2. path' # NoFile => content'[path'] = content[path']
            <3> SUFFICES ASSUME path' # NoFile PROVE content'[path'] = content[path']
                OBVIOUS
            <3>1. path' \in Inodes /\ path' \in synced
                BY <1>0, <2>1 DEF Files, Types
            <3>2. content'[path'] \in MayHold(path')
                BY <1>16, <3>1 DEF PowerLoss
            <3> QED
                BY <3>1, <3>2 DEF MayHold
        <2>3. Visible' = Held(path', content)
            BY <2>2, CallsAreMapped DEF Held
        <2>4. Visible' \in MayRemain
            BY <1>0, <2>1, <2>3, Remains
        <2>5. MayRemain' = {Visible'}
            BY <1>0, <2>1, RemainsNext, CallsAreMapped
        <2>6. \A p \in Procs : CallAt(proc'[p]) = Atomic!Idle /\ FoundIn(proc'[p]) = NoRecords
            BY <1>16, <1>0, OffIsProcess, CallCases DEF PowerLoss
        <2>7. Calls' = [p \in Procs |-> Atomic!Idle] /\ Found' = [p \in Procs |-> NoRecords]
            BY <2>6 DEF Calls, Found
        <2> QED
            BY <2>4, <2>5, <2>7, AbstractActions DEF Atomic!Next
    <1>17. CASE UNCHANGED vars
        <2>1. Visible' = Visible /\ MayRemain' = MayRemain
            BY <1>17, <1>0, TablesKept DEF vars
        <2>2. Calls' = Calls /\ Found' = Found
            BY <1>17 DEF vars, Calls, Found
        <2> QED
            BY <1>s, <2>1, <2>2
    <1> QED
        BY <1>1, <1>2, <1>3, <1>4, <1>5, <1>6, <1>7, <1>8, <1>9, <1>10, <1>11, <1>12, <1>13, <1>14,
           <1>15, <1>16, <1>17
        DEF Next

-----------------------------------------------------------------------------
(* writeAtomicFile never shows a torn or an empty state.db, and a power     *)
(* loss leaves none, whatever temporary a crashed writer left behind.       *)
THEOREM StateAlwaysParses == ASSUME StoreAssumption, SoloStart PROVE Spec => []AlwaysParses
    <1>1. Init => StoreInv
        BY StoreInvInit
    <1>2. StoreInv /\ [Next]_vars => StoreInv'
        BY StoreInvNext
    <1> QED
        BY <1>1, <1>2, StoreInvParses, PTL DEF Spec

(* The file protocol of store.go implements one atomic, durable table.      *)
THEOREM StoreIsAtomic == ASSUME StoreAssumption, SoloStart PROVE Spec => ImplementsAtomicStore
    <1>1. Init => StoreInv
        BY StoreInvInit
    <1>2. StoreInv /\ [Next]_vars => StoreInv'
        BY StoreInvNext
    <1>3. Init => Atomic!Init
        BY AtomicInit
    <1>4. StoreInv /\ StoreInv' /\ [Next]_vars => [Atomic!Next]_(Atomic!vars)
        BY AtomicNext
    <1> QED
        BY <1>1, <1>2, <1>3, <1>4, PTL DEF Spec, ImplementsAtomicStore, Atomic!Spec
=============================================================================
