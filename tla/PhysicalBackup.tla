---------------------------- MODULE PhysicalBackup ----------------------------
(***************************************************************************)
(* The physical backup of databases (agent/database_physical_backup.py):   *)
(* a job locks the tables, writes what it knows of their files next to     *)
(* them, lets press take a snapshot of the disk and unlocks the tables.    *)
(*                                                                         *)
(* Several backups, users of the databases and press run at the same time. *)
(* A job keeps one connection to each database and MariaDB releases the    *)
(* locks of a connection that ends.                                        *)
(***************************************************************************)
EXTENDS Naturals, FiniteSets, SequencesExt

CONSTANTS
    Jobs,         \* backups that press orders
    DatabasesOf,  \* the databases of each, in the order of the request
    Tables,
    Faults,       \* what may happen: "killed", "disconnected"
    MaxFaults, MaxWrites,
    MaxRetries,   \* 10 in the code
    None

Databases == UNION {ToSet(DatabasesOf[j]) : j \in Jobs}

ASSUME BackupAssumption ==
    /\ DatabasesOf \in [Jobs -> Seq(Databases)]
    /\ Faults \subseteq {"killed", "disconnected"}
    /\ MaxFaults \in Nat /\ MaxWrites \in Nat /\ MaxRetries \in Nat
    /\ None \notin Jobs \cup {"Success", "Failure", "killed"}

VARIABLES
    tables,    \* the tables of each database
    rows,      \* writes to each database so far
    disk,      \* how many of them have reached the disk
    meta,      \* physical_backup_meta.json in each database's directory
    lock,      \* the job whose connection holds the lock of each database
    next,      \* the next step of each job
    result,
    usable,    \* databases a job has a usable connection to
    known,     \* what a job knows of each database
    retries,
    snapshot,  \* the last snapshot that press took for a job
    overlaps,  \* jobs that ran at the same time as one with the same database
    faults

dataVars == <<tables, rows, disk>>
jobVars  == <<next, result, usable, known, retries, overlaps>>
vars == <<dataVars, meta, lock, jobVars, snapshot, faults>>

-----------------------------------------------------------------------------
Unknown == [listed |-> {}, schema |-> {}, files |-> 0]

\* The steps of a job, each for one database or for all of them.
ForEach(dbs, steps) ==
    [n \in 1..Len(dbs) * Len(steps) |->
        <<steps[1 + ((n - 1) % Len(steps))], dbs[1 + ((n - 1) \div Len(steps))]>>]

PrepareSteps(dbs) ==
    <<<<"clear", None>>>> \o ForEach(dbs, <<"fetch">>)
    \o ForEach(dbs, <<"kill", "flush">>) \o ForEach(dbs, <<"sync">>)
    \o ForEach(dbs, <<"validate">>) \o ForEach(dbs, <<"kill", "export">>)
    \o ForEach(dbs, <<"collect">>) \o ForEach(dbs, <<"store">>)

\* Mutant of SnapshotSteps: the tables are unlocked before the snapshot.
UnlockFirst(dbs) ==
    ForEach(dbs, <<"unlock">>) \o <<<<"snapshot", None>>, <<"clear", None>>>>

\* Mutant of SnapshotSteps: the metadata is removed when it is on the disk.
ClearFirst(dbs) ==
    <<<<"clear", None>>, <<"snapshot", None>>>> \o ForEach(dbs, <<"unlock">>)

SnapshotSteps(dbs) ==
    <<<<"snapshot", None>>>> \o ForEach(dbs, <<"unlock">>) \o <<<<"clear", None>>>>

Plan == [j \in Jobs |-> PrepareSteps(DatabasesOf[j]) \o SnapshotSteps(DatabasesOf[j])]

Running(j) == result[j] = None /\ next[j] > 1
At(j, step) == result[j] = None /\ Plan[j][next[j]][1] = step
Db(j)       == Plan[j][next[j]][2]
Advance(j) ==
    /\ next' = [next EXCEPT ![j] = @ + 1]
    /\ result' = [result EXCEPT ![j] = IF next[j] = Len(Plan[j]) THEN "Success" ELSE @]

Init ==
    /\ tables \in [Databases -> SUBSET Tables \ {{}}]
    /\ rows = [d \in Databases |-> 0] /\ disk = [d \in Databases |-> 0]
    /\ meta = [d \in Databases |-> None] /\ lock = [d \in Databases |-> None]
    /\ next = [j \in Jobs |-> 1] /\ result = [j \in Jobs |-> None]
    /\ usable = [j \in Jobs |-> {}]
    /\ known = [j \in Jobs |-> [d \in Databases |-> Unknown]]
    /\ retries = [j \in Jobs |-> 0] /\ snapshot = [j \in Jobs |-> None]
    /\ overlaps = {} /\ faults = 0

-----------------------------------------------------------------------------
(* Connections.                                                            *)

\* MariaDB ends connections to d: their locks and the .cfg files go.
Disconnect(js, d) ==
    /\ usable' = [j \in Jobs |-> IF j \in js THEN usable[j] \ {d} ELSE usable[j]]
    /\ lock' = [lock EXCEPT ![d] = IF @ \in js THEN None ELSE @]

\* The job ends; so does its process, and with it its connections.
End(j, how) ==
    /\ result' = [result EXCEPT ![j] = how]
    /\ usable' = [usable EXCEPT ![j] = {}]
    /\ lock' = [d \in Databases |-> IF lock[d] = j THEN None ELSE lock[d]]
    /\ UNCHANGED <<dataVars, meta, next, known, retries, snapshot, overlaps>>

\* get_db: a connection is opened once; one that was lost is an error.
Connected(j) == Db(j) \in usable[j]

-----------------------------------------------------------------------------
(* create_backup_job.                                                      *)

Start(j) ==
    /\ At(j, "clear") /\ next[j] = 1
    /\ overlaps' = overlaps \cup
         LET others == {k \in Jobs \ {j} : Running(k)
                          /\ ToSet(DatabasesOf[k]) \cap ToSet(DatabasesOf[j]) # {}}
         IN  others \cup (IF others = {} THEN {} ELSE {j})

\* remove_backups_metadata: the first file that is missing ends the loop.
Removed(dbs) ==
    LET missing == {i \in DOMAIN dbs : meta[dbs[i]] = None}
    IN  {dbs[i] : i \in {i \in DOMAIN dbs : \A k \in missing : i < k}}

RemoveMetadata(j) ==
    /\ \/ Start(j)
       \/ At(j, "clear") /\ next[j] > 1 /\ UNCHANGED overlaps
    /\ meta' = [d \in Databases |->
                  IF d \in Removed(DatabasesOf[j]) THEN None ELSE meta[d]]
    /\ Advance(j)
    /\ UNCHANGED <<dataVars, lock, usable, known, retries, snapshot, faults>>

\* get_db opens the connection, the query lists the tables.
FetchTableInfo(j) ==
    /\ At(j, "fetch")
    /\ usable' = [usable EXCEPT ![j] = @ \cup {Db(j)}]
    /\ known' = [known EXCEPT ![j][Db(j)].listed = tables[Db(j)]]
    /\ Advance(j)
    /\ UNCHANGED <<dataVars, meta, lock, retries, overlaps, snapshot, faults>>

\* Mutant of KillOtherConnections: other connections are left alone.
KillNobody(j) ==
    /\ At(j, "kill") /\ Connected(j) /\ Advance(j)
    /\ UNCHANGED <<dataVars, meta, lock, usable, known, retries, overlaps, snapshot, faults>>

KillOtherConnections(j) ==
    /\ At(j, "kill") /\ Connected(j)
    /\ Disconnect(Jobs \ {j}, Db(j)) /\ Advance(j)
    /\ UNCHANGED <<dataVars, meta, known, retries, overlaps, snapshot, faults>>

Flushable(j) ==
    known[j][Db(j)].listed # {} /\ known[j][Db(j)].listed \subseteq tables[Db(j)]

\* FLUSH TABLES ... FOR EXPORT waits for the locks of others.
FlushTables(j) ==
    /\ At(j, "flush") /\ Connected(j) /\ lock[Db(j)] = None
    /\ Flushable(j)
    /\ lock' = [lock EXCEPT ![Db(j)] = j] /\ Advance(j)
    /\ UNCHANGED <<dataVars, meta, usable, known, retries, overlaps, snapshot, faults>>

\* fsync: everything if nobody writes, else what was written before its file.
FlushChangesToDisk(j) ==
    /\ At(j, "sync")
    /\ \E n \in (IF lock[Db(j)] = None THEN disk[Db(j)] ELSE rows[Db(j)])..rows[Db(j)] :
          disk' = [disk EXCEPT ![Db(j)] = n]
    /\ Advance(j)
    /\ UNCHANGED <<tables, rows, meta, lock, usable, known, retries, overlaps,
                   snapshot, faults>>

\* The .cfg files exist while somebody holds the lock for export.
Exportable(j) ==
    /\ lock[Db(j)] # None
    /\ known[j][Db(j)].listed \subseteq known[lock[Db(j)]][Db(j)].listed

ValidateExportableFiles(j) ==
    /\ At(j, "validate") /\ Exportable(j) /\ Advance(j)
    /\ UNCHANGED <<dataVars, meta, lock, usable, known, retries, overlaps, snapshot, faults>>

\* mariadb-dump uses a connection of its own.
ExportTableSchema(j) ==
    /\ At(j, "export")
    /\ known' = [known EXCEPT ![j][Db(j)].schema = tables[Db(j)]] /\ Advance(j)
    /\ UNCHANGED <<dataVars, meta, lock, usable, retries, overlaps, snapshot, faults>>

\* Sizes and checksums of the files.
CollectFilesMetadata(j) ==
    /\ At(j, "collect")
    /\ known' = [known EXCEPT ![j][Db(j)].files = rows[Db(j)]] /\ Advance(j)
    /\ UNCHANGED <<dataVars, meta, lock, usable, retries, overlaps, snapshot, faults>>

StoreMetadata(j) ==
    /\ At(j, "store")
    /\ meta' = [meta EXCEPT ![Db(j)] = known[j][Db(j)]] /\ Advance(j)
    /\ UNCHANGED <<dataVars, lock, usable, known, retries, overlaps, snapshot, faults>>

\* press takes the snapshot of the disk that the agent asked for.
TakeSnapshot(j) ==
    snapshot' = [snapshot EXCEPT ![j] =
        [d \in Databases |-> [meta |-> meta[d], tables |-> tables[d], rows |-> disk[d]]]]

CreateSnapshot(j) ==
    /\ At(j, "snapshot") /\ TakeSnapshot(j) /\ Advance(j)
    /\ UNCHANGED <<dataVars, meta, lock, usable, known, retries, overlaps, faults>>

\* 417 or 5xx: press may or may not have taken a snapshot.
RetrySnapshot(j) ==
    /\ At(j, "snapshot") /\ retries[j] <= MaxRetries
    /\ TakeSnapshot(j) \/ UNCHANGED snapshot
    /\ retries' = [retries EXCEPT ![j] = @ + 1]
    /\ UNCHANGED <<dataVars, meta, lock, next, result, usable, known, overlaps, faults>>

UnlockTables(j) ==
    /\ At(j, "unlock") /\ Connected(j)
    /\ lock' = [lock EXCEPT ![Db(j)] = IF @ = j THEN None ELSE @] /\ Advance(j)
    /\ UNCHANGED <<dataVars, meta, usable, known, retries, overlaps, snapshot, faults>>

\* A step raises: a lost connection, a table or .cfg file that is gone, or
\* an answer of press that is not worth a retry or one too many.
Raises(j) ==
    \/ \E step \in {"kill", "flush", "unlock"} : At(j, step) /\ ~Connected(j)
    \/ At(j, "flush") /\ lock[Db(j)] = None /\ ~Flushable(j)
    \/ At(j, "validate") /\ ~Exportable(j)
    \/ At(j, "snapshot")

StepRaises(j) == Raises(j) /\ End(j, "Failure") /\ UNCHANGED faults

Step(j) ==
    \/ RemoveMetadata(j) \/ FetchTableInfo(j) \/ KillOtherConnections(j)
    \/ FlushTables(j) \/ FlushChangesToDisk(j) \/ ValidateExportableFiles(j)
    \/ ExportTableSchema(j) \/ CollectFilesMetadata(j) \/ StoreMetadata(j)
    \/ CreateSnapshot(j) \/ RetrySnapshot(j) \/ UnlockTables(j) \/ StepRaises(j)

-----------------------------------------------------------------------------
(* Users and faults.                                                       *)

Locked(d) == IF lock[d] = None THEN {} ELSE known[lock[d]][d].listed

\* A write to a table that is not locked may reach the disk at once.
Write(d) ==
    /\ rows[d] < MaxWrites /\ Locked(d) = {}
    /\ rows' = [rows EXCEPT ![d] = @ + 1]
    /\ disk' = [disk EXCEPT ![d] = @] \/ disk' = [disk EXCEPT ![d] = rows[d] + 1]
    /\ UNCHANGED <<tables, meta, lock, jobVars, snapshot, faults>>

\* A table is created or dropped; the lock is on the tables that were listed.
ChangeTables(d, t) ==
    /\ t \notin Locked(d) /\ faults < MaxFaults
    /\ tables' = [tables EXCEPT ![d] = IF t \in @ THEN @ \ {t} ELSE @ \cup {t}]
    /\ faults' = faults + 1
    /\ UNCHANGED <<rows, disk, meta, lock, jobVars, snapshot>>

\* wait_timeout, a KILL or a restart of the proxy ends a connection.
ConnectionLost(j, d) ==
    /\ "disconnected" \in Faults /\ faults < MaxFaults /\ d \in usable[j]
    /\ Disconnect({j}, d) /\ faults' = faults + 1
    /\ UNCHANGED <<dataVars, meta, next, result, known, retries, overlaps, snapshot>>

WorkerKilled(j) ==
    /\ "killed" \in Faults /\ faults < MaxFaults /\ Running(j)
    /\ End(j, "killed") /\ faults' = faults + 1

Next ==
    \/ \E j \in Jobs : Step(j) \/ WorkerKilled(j)
    \/ \E j \in Jobs, d \in Databases : ConnectionLost(j, d)
    \/ \E d \in Databases : Write(d) \/ \E t \in Tables : ChangeTables(d, t)

\* RQ runs every job it was given; press answers every request.
Fairness == \A j \in Jobs : WF_vars(Step(j))

Spec == Init /\ [][Next]_vars /\ Fairness

-----------------------------------------------------------------------------
TypeOK ==
    /\ tables \in [Databases -> SUBSET Tables]
    /\ rows \in [Databases -> 0..MaxWrites] /\ disk \in [Databases -> 0..MaxWrites]
    /\ lock \in [Databases -> Jobs \cup {None}]
    /\ result \in [Jobs -> {None, "Success", "Failure", "killed"}]
    /\ usable \in [Jobs -> SUBSET Databases]
    /\ \A j \in Jobs : next[j] \in 1..Len(Plan[j]) + 1 /\ retries[j] \in 0..MaxRetries + 1
    /\ overlaps \subseteq Jobs /\ faults \in 0..MaxFaults

\* A backup that ends in a success, whatever other backups, users and lost
\* connections did, has a snapshot of one instant: it holds every listed
\* table, with the content that the job measured while it held the locks, in
\* all of its databases.  create_snapshot itself does not look at the
\* connections; only the unlock afterwards finds out that one was lost.
SuccessMeansConsistent ==
    \A j \in Jobs : result[j] = "Success" =>
        \A d \in ToSet(DatabasesOf[j]) :
            LET taken == snapshot[j][d]
            IN  /\ taken.rows = known[j][d].files
                /\ known[j][d].listed \subseteq taken.tables \cap known[j][d].schema

\* The snapshot of a successful backup also holds the metadata that a restore
\* needs and that belongs to its files, unless another backup of one of the
\* databases ran at the same time: that one removes or replaces the metadata.
SuccessMeansRestorable ==
    \A j \in Jobs : result[j] = "Success" /\ j \notin overlaps =>
        \A d \in ToSet(DatabasesOf[j]) : snapshot[j][d].meta = known[j][d]

\* Every backup comes to an end, and its locks with it: press's errors are
\* retried a bounded number of times, and two backups that lock the same
\* databases in a different order cannot wait for each other, because each
\* ends the other's connections before it locks.
EveryBackupEnds == \A j \in Jobs : <>(result[j] # None /\ \A d \in Databases : lock[d] # j)

\* The type invariant, and what a snapshot is for.
BackupIsSound == TypeOK /\ SuccessMeansConsistent
=============================================================================
