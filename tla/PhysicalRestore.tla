---------------------------- MODULE PhysicalRestore ----------------------------
(***************************************************************************)
(* The physical restore of a database from the disk of a snapshot          *)
(* (agent/database_physical_restore.py): the tables are created empty from *)
(* the schema, those of InnoDB give up their tablespace for the file of    *)
(* the backup, those of MyISAM are locked while their files are replaced.  *)
(*                                                                         *)
(* The job fails or dies anywhere and press orders the same restore again. *)
(***************************************************************************)
EXTENDS Naturals, FiniteSets, Sequences

CONSTANTS
    Tables, InnoDB,
    Indexed,   \* tables of InnoDB with a full text index
    Existing,  \* tables that the target has before the restore
    Backups,   \* what is on the disk of the snapshot
    Requests,  \* [full : BOOLEAN, wanted : SUBSET Tables]
    Faults,    \* what may happen: "killed", "raised", "disconnected"
    MaxFaults, None

\* The files of a table that the backup collects and the restore copies.
FilesOf(t) == {t} \X (IF t \in InnoDB THEN {"ibd", "cfg"} ELSE {"MYD", "MYI"})
Files == UNION {FilesOf(t) : t \in Tables}

\* metadata: the file of the backup's metadata is there; missing: files of the
\* metadata that are not on the disk; changed: files whose size, or checksum
\* where they have one, is not the one of the metadata; damaged: tables whose
\* files are as they were measured, but myisamchk finds an error in them.
ASSUME RestoreAssumption ==
    /\ Indexed \subseteq InnoDB /\ InnoDB \subseteq Tables /\ Existing \subseteq Tables
    /\ Backups \subseteq [schema : SUBSET Tables, listed : SUBSET Tables, metadata : BOOLEAN,
                          missing : SUBSET Files, changed : SUBSET Files,
                          damaged : SUBSET (Tables \ InnoDB)]
    /\ \A b \in Backups : b.listed \subseteq b.schema
    /\ Requests \subseteq [full : BOOLEAN, wanted : SUBSET Tables]
    /\ None \notin {"Success", "Failure", "killed"}
    /\ Faults \subseteq {"killed", "raised", "disconnected"} /\ MaxFaults \in Nat

VARIABLES
    backup, request,
    repaired,   \* tables whose files on the backup's disk myisamchk has rewritten
    data,       \* what each table of the target holds
    fulltext,   \* tables of the target that have their full text index
    step, todo, \* the step of the job and the tables it still has to do
    result,
    connected,  \* the connections to the target that are usable
    locked,     \* tables under the second connection's write lock
    faults

inputVars  == <<backup, request>>
diskVars   == <<inputVars, repaired>>
targetVars == <<data, fulltext>>
jobVars    == <<step, todo, result>>
vars == <<diskVars, targetVars, jobVars, connected, locked, faults>>

-----------------------------------------------------------------------------
\* validate_backup_files keeps of the metadata what was asked for.
Listed == IF request.full THEN backup.listed ELSE request.wanted \cap backup.listed

\* is_db_file_need_to_be_restored: in a full restore any file of the disk,
\* also of a table that was created after the backup listed the tables.
FilesToRestore == IF request.full THEN backup.schema ELSE Listed

OnDisk(t) == FilesOf(t) \ backup.missing

\* The files on the disk that are not as they were measured: a repair writes
\* the .MYI again, whose checksum is in the metadata.
Changed == (backup.changed \cup {<<t, "MYI">> : t \in repaired}) \ backup.missing

\* Mutant of Steps: the backup is validated when the tables have been dropped.
StepsDropFirst ==
    <<"connect", "fix", "drop", "validate", "create", "sync", "discard", "stage", "import",
      "lock", "copy", "unlock", "reindex", "check">>

\* create_restore_job; left out are the steps that only read the disk.
Steps ==
    <<"validate", "connect", "fix", "drop", "create", "sync", "discard", "stage", "import",
      "lock", "copy", "unlock", "reindex", "check">>

\* The tables that a step goes through: those of the metadata, or those that
\* have a file on the disk.
TodoOf(s) ==
    CASE s = "fix"     -> {t \in FilesToRestore \ InnoDB : <<t, "MYI">> \in OnDisk(t)}
      [] s = "drop"    -> IF request.full THEN {t \in Tables : data[t] # "absent"} ELSE {}
      [] s = "create"  -> IF request.full THEN backup.schema ELSE Listed
      [] s = "sync"    -> Listed \cap Indexed
      [] s \in {"discard", "import"} -> Listed \cap InnoDB
      [] s = "stage"   -> {t \in FilesToRestore \cap InnoDB : OnDisk(t) # {}}
      [] s = "copy"    -> {t \in FilesToRestore \ InnoDB : OnDisk(t) # {}}
      [] s = "reindex" -> {t \in InnoDB : data[t] # "absent"} \cap fulltext
      [] s = "check"   -> Listed \ InnoDB
      [] OTHER         -> {}

\* The connections that a step needs for its next statement; those that it
\* opens again when they are lost are not among them.
Needs(s) ==
    CASE s = "fix"    -> IF todo = {} THEN {"myisam"} ELSE {}
      [] s = "drop"   -> IF request.full THEN {"main"} ELSE {}
      [] s \in {"create", "discard"} -> {"main"}
      [] s = "import" -> IF todo = {} THEN {} ELSE {"main"}
      [] s = "lock"   -> IF Listed \subseteq InnoDB THEN {} ELSE {"main", "myisam"}
      [] s = "unlock" -> {"main", "myisam"}
      [] OTHER        -> {}

Init ==
    /\ backup \in Backups /\ request \in Requests /\ repaired = {}
    /\ data = [t \in Tables |-> IF t \in Existing THEN "old" ELSE "absent"]
    /\ fulltext = Existing \cap Indexed
    /\ step = 1 /\ todo = {} /\ result = None
    /\ connected = {} /\ locked = {} /\ faults = 0

-----------------------------------------------------------------------------
In(s) == result = None /\ Steps[step] = s
Connected == Needs(Steps[step]) \subseteq connected
Set(t, d) == data' = [data EXCEPT ![t] = d]
Done(t)   == todo' = todo \ {t} /\ UNCHANGED <<step, result>>

EndStep ==
    IF step = Len(Steps)
    THEN result' = "Success" /\ UNCHANGED <<step, todo>>
    ELSE step' = step + 1 /\ todo' = TodoOf(Steps[step + 1]) /\ UNCHANGED result

\* The job ends and with it its connections and their locks.
End(how) ==
    /\ result' = how /\ connected' = {} /\ locked' = {}
    /\ UNCHANGED <<diskVars, targetVars, step, todo>>

\* The files on the disk are as they were measured; those that are missing
\* are not looked for.
BackupIsValid ==
    backup.metadata /\ \A t \in FilesToRestore : FilesOf(t) \cap Changed = {}

ValidateBackupFiles ==
    /\ In("validate") /\ BackupIsValid /\ EndStep
    /\ UNCHANGED <<diskVars, targetVars, connected, locked, faults>>

ValidateConnections ==
    /\ In("connect") /\ connected' = {"main", "myisam"} /\ EndStep
    /\ UNCHANGED <<diskVars, targetVars, locked, faults>>

\* myisamchk, and with --recover when it finds an error.
CheckAndFixFiles(t) ==
    /\ In("fix") /\ t \in todo /\ <<t, "MYD">> \in OnDisk(t)
    /\ repaired' = repaired \cup ({t} \cap backup.damaged) /\ Done(t)
    /\ UNCHANGED <<inputVars, targetVars, connected, locked, faults>>

DropTable(t) ==
    /\ In("drop") /\ t \in todo /\ Connected
    /\ Set(t, "absent") /\ fulltext' = fulltext \ {t} /\ Done(t)
    /\ UNCHANGED <<diskVars, connected, locked, faults>>

\* Mutant of CreateTable: without DROP TABLE IF EXISTS.
CreateOnly(t) ==
    /\ In("create") /\ t \in todo /\ Connected /\ data[t] = "absent"
    /\ Set(t, "blank") /\ Done(t)
    /\ fulltext' = IF t \in Indexed THEN fulltext \cup {t} ELSE fulltext
    /\ UNCHANGED <<diskVars, connected, locked, faults>>

\* DROP TABLE IF EXISTS and CREATE TABLE, a statement each.
CreateTable(t) ==
    /\ In("create") /\ t \in todo /\ Connected
    /\ IF data[t] # "absent"
       THEN Set(t, "absent") /\ fulltext' = fulltext \ {t} /\ UNCHANGED jobVars
       ELSE /\ Set(t, "blank") /\ Done(t)
            /\ fulltext' = IF t \in Indexed THEN fulltext \cup {t} ELSE fulltext
    /\ UNCHANGED <<diskVars, connected, locked, faults>>

\* The index is dropped and added again, a statement each.  Its columns are
\* read through a connection that is opened again if it was lost.
DropAndAddIndex(t) ==
    \/ /\ todo \subseteq fulltext
       /\ fulltext' = fulltext \ {t} /\ connected' = connected \cup {"main"}
       /\ UNCHANGED jobVars
    \/ /\ t \notin fulltext /\ "main" \in connected
       /\ fulltext' = fulltext \cup {t} /\ Done(t) /\ UNCHANGED connected

\* Only an index to which the .cfg file gives a prefix length is added again.
SyncIndex(t) ==
    /\ In("sync") /\ t \in todo
    /\ \/ <<t, "cfg">> \in OnDisk(t) /\ DropAndAddIndex(t)
       \/ t \in fulltext /\ Done(t) /\ UNCHANGED <<fulltext, connected>>
    /\ UNCHANGED <<diskVars, data, locked, faults>>

RecreateIndex(t) ==
    /\ In("reindex") /\ t \in todo /\ DropAndAddIndex(t)
    /\ UNCHANGED <<diskVars, data, locked, faults>>

DiscardTablespace(t) ==
    /\ In("discard") /\ t \in todo /\ Connected
    /\ Set(t, "discarded") /\ Done(t)
    /\ UNCHANGED <<diskVars, fulltext, connected, locked, faults>>

\* The .ibd and .cfg files; over a tablespace in use they do damage.
StageFiles(t) ==
    /\ In("stage") /\ t \in todo /\ Done(t)
    /\ Set(t, IF <<t, "ibd">> \notin OnDisk(t) THEN data[t]
              ELSE IF data[t] = "discarded" THEN "staged" ELSE "torn")
    /\ UNCHANGED <<diskVars, fulltext, connected, locked, faults>>

ImportTablespace(t) ==
    /\ In("import") /\ t \in todo /\ Connected /\ data[t] = "staged"
    /\ Set(t, "restored") /\ Done(t)
    /\ UNCHANGED <<diskVars, fulltext, connected, locked, faults>>

LockMyISAMTables ==
    /\ In("lock") /\ Connected
    /\ locked' = Listed \ InnoDB /\ EndStep
    /\ UNCHANGED <<diskVars, targetVars, connected, faults>>

\* The .MYD and .MYI files, one after the other and piece by piece.
CopyFiles(t) ==
    /\ In("copy") /\ t \in todo
    /\ IF data[t] = "half" THEN Set(t, "copied") /\ Done(t)
       ELSE Set(t, IF data[t] = "torn" THEN "torn" ELSE "half")
            /\ (IF data[t] = "torn" THEN Done(t) ELSE UNCHANGED jobVars)
    /\ UNCHANGED <<diskVars, fulltext, connected, locked, faults>>

\* Mutant of UnlockTables: the second connection is not looked at.
UnlockMainOnly ==
    /\ In("unlock") /\ "main" \in connected
    /\ locked' = {} /\ connected' = {} /\ EndStep
    /\ UNCHANGED <<diskVars, targetVars, faults>>

UnlockTables ==
    /\ In("unlock") /\ Connected
    /\ locked' = {} /\ connected' = {} /\ EndStep
    /\ UNCHANGED <<diskVars, targetVars, faults>>

\* CHECK TABLE finds the record count of the blank table over other files, and
\* REPAIR TABLE corrects it; it finds no error in a table that is still blank.
CheckAndRepair(t) ==
    /\ In("check") /\ t \in todo
    /\ Set(t, IF data[t] = "copied" THEN "restored" ELSE data[t]) /\ Done(t)
    /\ UNCHANGED <<diskVars, fulltext, connected, locked, faults>>

\* A step that works through its tables is over.
StepDone ==
    /\ result = None /\ todo = {} /\ Connected
    /\ Steps[step] \notin {"validate", "connect", "lock", "unlock"}
    /\ EndStep
    /\ UNCHANGED <<diskVars, targetVars, connected, locked, faults>>

\* A bad file, a lost connection, a file that cannot be repaired, a tablespace
\* that cannot be imported or, without its .cfg, does not fit.
StepRaises ==
    /\ \/ In("validate") /\ ~BackupIsValid
       \/ result = None /\ ~Connected
       \/ /\ (In("sync") \/ In("reindex")) /\ "main" \notin connected
          /\ todo \ fulltext # {}
       \/ /\ In("fix")
          /\ \E t \in todo : t \in backup.damaged \/ <<t, "MYD">> \notin OnDisk(t)
       \/ /\ In("import")
          /\ \E t \in todo : data[t] # "staged" \/ <<t, "cfg">> \notin OnDisk(t)
    /\ End("Failure") /\ UNCHANGED faults

Step ==
    \/ ValidateBackupFiles \/ ValidateConnections \/ LockMyISAMTables \/ UnlockTables
    \/ StepDone \/ StepRaises
    \/ \E t \in Tables :
          \/ CheckAndFixFiles(t) \/ DropTable(t) \/ CreateTable(t)
          \/ SyncIndex(t) \/ DiscardTablespace(t)
          \/ StageFiles(t) \/ ImportTablespace(t) \/ CopyFiles(t)
          \/ RecreateIndex(t) \/ CheckAndRepair(t)

-----------------------------------------------------------------------------
(* Other clients of the target, faults and press.                          *)

\* A client writes to a table whose files are being replaced.
ClientWrites(t) ==
    /\ data[t] = "half" /\ t \notin locked
    /\ Set(t, "torn")
    /\ UNCHANGED <<diskVars, fulltext, jobVars, connected, locked, faults>>

Fault(kind) == kind \in Faults /\ faults < MaxFaults /\ result = None /\ faults' = faults + 1

WorkerKilled == Fault("killed") /\ End("killed")

\* A full disk, a file that cannot be read or repaired, an error of MariaDB.
StepFails == Fault("raised") /\ End("Failure")

ConnectionLost(c) ==
    /\ c \in connected /\ Fault("disconnected")
    /\ connected' = connected \ {c}
    /\ locked' = IF c = "myisam" THEN {} ELSE locked
    /\ UNCHANGED <<diskVars, targetVars, jobVars>>

Repeat ==
    /\ result \in {"Failure", "killed"}
    /\ step' = 1 /\ todo' = {} /\ result' = None
    /\ UNCHANGED <<diskVars, targetVars, connected, locked, faults>>

Next ==
    \/ Step \/ Repeat \/ WorkerKilled \/ StepFails
    \/ \E c \in {"main", "myisam"} : ConnectionLost(c)
    \/ \E t \in Tables : ClientWrites(t)

\* RQ runs the job; that press repeats it is an assumption about press.
Spec == Init /\ [][Next]_vars /\ WF_vars(Step) /\ WF_vars(Repeat)

-----------------------------------------------------------------------------
TypeOK ==
    /\ data \in [Tables -> {"absent", "old", "blank", "discarded", "staged", "half",
                            "copied", "torn", "restored"}]
    /\ repaired \subseteq Tables \ InnoDB
    /\ fulltext \subseteq Indexed /\ todo \subseteq Tables /\ locked \subseteq Tables \ InnoDB
    /\ step \in 1..Len(Steps) /\ result \in {None, "Success", "Failure", "killed"}
    /\ connected \subseteq {"main", "myisam"} /\ faults \in 0..MaxFaults

\* After a restore that ends in a success every table of the backup that was
\* asked for holds the backup's content and has its index, whatever failed in
\* attempts before, also when files are missing on the disk; a full restore
\* leaves no other table of old behind, and one of specific tables leaves the
\* content of all others alone.  Not so with a MyISAM table that has none of
\* its files on the disk: nothing looks for them, and it stays blank.
RestoredWhole ==
    result = "Success" =>
        /\ \A t \in Listed :
             /\ data[t] = IF t \notin InnoDB /\ OnDisk(t) = {} THEN "blank" ELSE "restored"
             /\ t \in Indexed => t \in fulltext
        /\ \A t \in Tables \ Listed :
             IF request.full THEN data[t] # "old"
             ELSE data[t] = (IF t \in Existing THEN "old" ELSE "absent")

\* A file of a table to restore that is not as it was measured, or an index
\* file that has lost its data file.
DefectSeen ==
    \/ ~backup.metadata
    \/ \E t \in FilesToRestore : OnDisk(t) \cap backup.changed # {}
    \/ \E t \in FilesToRestore \ InnoDB : OnDisk(t) = {<<t, "MYI">>}

\* What the checks before the first statement that changes the target find
\* out costs no table, however often the restore is repeated.  Other missing
\* files are found out by the import, with the tables dropped, or never.
BadBackupTouchesNothing ==
    DefectSeen => /\ \A t \in Tables : data[t] = (IF t \in Existing THEN "old" ELSE "absent")
                  /\ fulltext = Existing \cap Indexed

\* With all files of InnoDB and the data files of MyISAM on the disk, and all
\* that is there as it was measured; without an index file it is built again.
Restorable ==
    /\ ~DefectSeen
    /\ \A t \in Listed \cap InnoDB : OnDisk(t) = FilesOf(t)
    /\ \A t \in FilesToRestore \ InnoDB : t \in backup.damaged => <<t, "MYI">> \notin OnDisk(t)

\* A restore may be repeated wherever it failed, with tables dropped,
\* tablespaces discarded or files half copied: it succeeds in the end.  Not so
\* with an index file that is damaged: its repair is kept on the backup's disk,
\* and the next attempt refuses the checksum of the file it has repaired.
RestoreSucceeds == Restorable => <>(result = "Success")

\* The type invariant, and what a restore is for.
RestoreIsSound == TypeOK /\ RestoredWhole
=============================================================================
