------------------------------ MODULE ConfigFile ------------------------------
(***************************************************************************)
(* A JSON configuration file and the jobs that update it (agent/base.py,   *)
(* get_config and set_config; agent/site.py, update_config, add_domain and *)
(* remove_domain).                                                         *)
(*                                                                         *)
(* An updater reads the file, changes a key and replaces the file: it      *)
(* renames the old one to .bak and copies a temporary file in its place.   *)
(* Files are inodes, because a copy under way keeps writing the inode it   *)
(* opened when somebody renames its name.  A process that dies loses its   *)
(* lock: filelock.FileLock is an flock.                                    *)
(***************************************************************************)
EXTENDS Naturals, FiniteSets

CONSTANTS
    Setters,        \* jobs that set a key of their own
    Adders,         \* add_domain jobs, each for a domain of its own
    Removers,       \* remove_domain jobs, each for a domain of its own
    FileFaults,     \* kinds of failure: a worker dies, a copy raises
    MaxFileFaults,  \* bound on how many of them happen
    Original,       \* the inode of the file at the start
    Nothing         \* no inode, or nobody holds the lock

Jobs == Setters \cup Adders \cup Removers
Inodes == Jobs \cup {Original}

ASSUME FileAssumption ==
    /\ FileFaults \subseteq {"death", "copy"}
    /\ MaxFileFaults \in Nat
    /\ Original \notin Jobs /\ Nothing \notin Inodes
    /\ Setters \cap Adders = {} /\ Setters \cap Removers = {} /\ Adders \cap Removers = {}

VARIABLES
    config,      \* inode of the configuration file
    bak,         \* inode of the .bak file
    data,        \* contents of each inode that has been written
    torn,        \* inodes whose contents are incomplete
    holder,      \* holder of the .lock file
    at,          \* where each job is
    domains,     \* domains list of each domain job, read from self.config
    new,         \* the dictionary each job is about to write
    fileFaults

inodeVars == <<config, bak, data, torn>>
configVars == <<inodeVars, holder, at, domains, new, fileFaults>>

Contents == [keys : SUBSET Setters, domains : SUBSET (Adders \cup Removers)]
Initial  == [keys |-> {}, domains |-> Removers]
Places   == {"start", "acquire", "read", "rename", "copy", "writing", "copied",
             "done", "failed", "dead"}
Ended    == {"done", "failed", "dead"}

FileInit ==
    /\ config = Original /\ bak = Nothing
    /\ data = [i \in Inodes |-> Initial] /\ torn = {}
    /\ holder = Nothing
    /\ at = [p \in Jobs |-> "start"]
    /\ domains = [p \in Jobs |-> {}]
    /\ new = [p \in Jobs |-> Initial]
    /\ fileFaults = 0

Readable == config # Nothing /\ config \notin torn
Goto(p, place) == at' = [at EXCEPT ![p] = place]

\* Release of the lock with set_config, or when the job object goes away.
Unlock(p) == holder' = IF holder = p THEN Nothing ELSE holder

FileFault(kind) ==
    /\ kind \in FileFaults
    /\ fileFaults < MaxFileFaults
    /\ fileFaults' = fileFaults + 1

-----------------------------------------------------------------------------
\* self.config, without the lock: open or json.load may raise.
ReadDomains(p) ==
    /\ at[p] = "start" /\ p \notin Setters
    /\ IF Readable
       THEN /\ domains' = [domains EXCEPT ![p] =
                  IF p \in Adders THEN data[config].domains \cup {p}
                  ELSE data[config].domains \ {p}]
            /\ Goto(p, "acquire")
       ELSE UNCHANGED domains /\ Goto(p, "failed")
    /\ UNCHANGED <<inodeVars, holder, new, fileFaults>>

\* Mutant of Acquire: get_config is called without for_update.
AcquireNothing(p) ==
    /\ at[p] = IF p \in Setters THEN "start" ELSE "acquire"
    /\ UNCHANGED holder
    /\ Goto(p, "read")
    /\ UNCHANGED <<inodeVars, domains, new, fileFaults>>

\* get_config(for_update=True) waits for the lock.
Acquire(p) ==
    /\ at[p] = IF p \in Setters THEN "start" ELSE "acquire"
    /\ holder = Nothing /\ holder' = p
    /\ Goto(p, "read")
    /\ UNCHANGED <<inodeVars, domains, new, fileFaults>>

\* dict.update replaces whole keys: a domain job replaces the domains list.
Updated(p, dict) ==
    IF p \in Setters THEN [dict EXCEPT !.keys = @ \cup {p}]
    ELSE [dict EXCEPT !.domains = domains[p]]

\* Mutant of ReadForUpdate: a job that raises keeps the lock.
ReadForUpdateKeepsLock(p) ==
    /\ at[p] = "read"
    /\ IF Readable
       THEN new' = [new EXCEPT ![p] = Updated(p, data[config])] /\ Goto(p, "rename")
       ELSE UNCHANGED new /\ Goto(p, "failed")
    /\ UNCHANGED <<inodeVars, holder, domains, fileFaults>>

ReadForUpdate(p) ==
    /\ at[p] = "read"
    /\ IF Readable
       THEN /\ new' = [new EXCEPT ![p] = Updated(p, data[config])]
            /\ Goto(p, "rename") /\ UNCHANGED holder
       ELSE UNCHANGED new /\ Goto(p, "failed") /\ Unlock(p)
    /\ UNCHANGED <<inodeVars, domains, fileFaults>>

\* Mutant of RenameToBak: the old file is removed.
RenameAway(p) ==
    /\ at[p] = "rename" /\ config # Nothing
    /\ bak' = Nothing /\ config' = Nothing
    /\ Goto(p, "copy") /\ UNCHANGED holder
    /\ UNCHANGED <<data, torn, domains, new, fileFaults>>

\* set_config with the temporary file written: os.rename raises without a file.
RenameToBak(p) ==
    /\ at[p] = "rename"
    /\ IF config # Nothing
       THEN bak' = config /\ config' = Nothing /\ Goto(p, "copy") /\ UNCHANGED holder
       ELSE UNCHANGED <<bak, config>> /\ Goto(p, "failed") /\ Unlock(p)
    /\ UNCHANGED <<data, torn, domains, new, fileFaults>>

\* shutil.copy2 creates the file, then writes it.
OpenCopy(p) ==
    /\ at[p] = "copy"
    /\ config' = p
    /\ torn' = torn \cup {p}
    /\ Goto(p, "writing")
    /\ UNCHANGED <<bak, data, holder, domains, new, fileFaults>>

WriteCopy(p) ==
    /\ at[p] = "writing"
    /\ data' = [data EXCEPT ![p] = new[p]]
    /\ torn' = torn \ {p}
    /\ Goto(p, "copied")
    /\ UNCHANGED <<config, bak, holder, domains, new, fileFaults>>

\* copy2 or the removal of the temporary file raises: .bak is put back.
CopyFails(p) ==
    /\ at[p] \in {"copy", "writing", "copied"}
    /\ FileFault("copy")
    /\ IF bak # Nothing THEN config' = bak /\ bak' = Nothing ELSE UNCHANGED <<config, bak>>
    /\ Unlock(p) /\ Goto(p, "failed")
    /\ UNCHANGED <<data, torn, domains, new>>

ReleaseLock(p) ==
    /\ at[p] = "copied"
    /\ Unlock(p) /\ Goto(p, "done")
    /\ UNCHANGED <<inodeVars, domains, new, fileFaults>>

\* The worker of the job is killed.
Die(p) ==
    /\ at[p] \notin {"start"} \cup Ended
    /\ FileFault("death")
    /\ Unlock(p) /\ Goto(p, "dead")
    /\ UNCHANGED <<inodeVars, domains, new>>

-----------------------------------------------------------------------------
FileStep(p) ==
    \/ Acquire(p) \/ ReadForUpdate(p) \/ RenameToBak(p) \/ OpenCopy(p)
    \/ WriteCopy(p) \/ ReleaseLock(p)

FileNext == \E p \in Jobs : ReadDomains(p) \/ FileStep(p) \/ CopyFails(p) \/ Die(p)

\* RQ workers keep running; a job holds the lock once, so that a waiter that
\* polls finds it free in the end.
FileFairness == \A p \in Jobs : WF_configVars(FileStep(p) \/ ReadDomains(p))

FileSpec == FileInit /\ [][FileNext]_configVars
FairFileSpec == FileSpec /\ FileFairness

-----------------------------------------------------------------------------
FileTypeOK ==
    /\ config \in Inodes \cup {Nothing} /\ bak \in Inodes \cup {Nothing}
    /\ data \in [Inodes -> Contents] /\ torn \subseteq Inodes
    /\ holder \in Jobs \cup {Nothing}
    /\ at \in [Jobs -> Places]
    /\ domains \in [Jobs -> SUBSET (Adders \cup Removers)]
    /\ new \in [Jobs -> Contents]
    /\ fileFaults \in 0..MaxFileFaults

Done(S) == {p \in S : at[p] = "done"}

\* A key that a finished job has set is in the file, whatever other jobs
\* write, fail to write or leave behind.
NoUpdateLost == Readable => Done(Setters) \subseteq data[config].keys

\* A complete copy that has every finished update survives any failure, in
\* the file or in its .bak.
Recoverable ==
    \E i \in {config, bak} \ {Nothing} :
        i \notin torn /\ Done(Setters) \subseteq data[i].keys

\* When nobody updates the file it is complete, unless a job was killed in
\* the middle of set_config: a copy that fails puts the old file back.
CompleteWhenUnlocked ==
    holder = Nothing => Readable \/ \E p \in Jobs : at[p] = "dead"

\* No job waits forever for the lock, also when its holder dies or raises.
EveryJobEnds == \A p \in Jobs : <>(at[p] \in Ended)

\* A complete copy survives, and the file itself is complete between updates.
FileIsSound == FileTypeOK /\ Recoverable /\ CompleteWhenUnlocked
=============================================================================
