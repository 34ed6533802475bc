-------------------------------- MODULE Binlogs --------------------------------
(***************************************************************************)
(* The binary logs of a database server (agent/database_server.py): jobs   *)
(* that purge them by size, copy them to the object storage and index them *)
(* run beside each other, while MariaDB writes and rotates its binlogs.    *)
(*                                                                         *)
(* A binlog is its number.  Only the last one is written, so that the      *)
(* order of the modification times is the order of the numbers.            *)
(***************************************************************************)
EXTENDS Naturals, FiniteSets, FiniteSetsExt, SequencesExt

CONSTANTS
    Jobs,
    Orders,    \* sets of jobs that press may order together
    Kind,      \* what each job does
    List,      \* the binlogs of each request, in its order
    MaxBytes,  \* the limit of a purge by size
    MaxSize, MaxBinlog, MaxKills,
    None

Kinds == {"purge", "upload", "index", "unindex"}

ASSUME BinlogsAssumption ==
    /\ Orders \subseteq SUBSET Jobs /\ Kind \in [Jobs -> Kinds]
    /\ List \in [Jobs -> Seq(1..MaxBinlog)]
    /\ \A j \in Jobs : IsInjective(List[j])
    /\ MaxBytes \in Nat /\ MaxSize \in Nat \ {0} /\ MaxKills \in Nat
    /\ MaxBinlog \in Nat \ {0} /\ None \notin Nat

VARIABLES
    size,      \* the binlogs of the MariaDB directory, with their sizes
    indexed,   \* binlogs that queries.db knows
    gz,        \* compressed copies in the temporary folder, by binlog
    bucket,    \* objects of the object storage, by binlog
    phase,     \* where each job is
    pos,       \* the element of its list that a job is at
    report,    \* what a job says about each binlog
    measured,  \* the size of the copy that an upload is about to send
    seen,      \* sizes that a purge saw
    overlaps,  \* uploads that ran beside another of one of their binlogs
    kills

files   == DOMAIN size
jobVars == <<phase, pos, report, measured, seen, overlaps>>
vars == <<size, indexed, gz, bucket, jobVars, kills>>

-----------------------------------------------------------------------------
Current(j) == List[j][pos[j]]
Listed(j, k) == phase[j] = k /\ pos[j] <= Len(List[j])

Init ==
    /\ \E n \in 1..MaxBinlog : size \in [1..n -> 1..MaxSize]
    /\ indexed = {}
    /\ gz = [b \in 1..MaxBinlog |-> None] /\ bucket = [b \in 1..MaxBinlog |-> None]
    /\ \E ordered \in Orders :
          phase = [j \in Jobs |-> IF j \in ordered THEN "queued" ELSE "done"]
    /\ pos = [j \in Jobs |-> 1]
    /\ report = [j \in Jobs |-> [b \in 1..MaxBinlog |-> None]]
    /\ measured = [j \in Jobs |-> 0] /\ seen = [j \in Jobs |-> <<>>]
    /\ overlaps = {} /\ kills = 0

Go(j, p) == phase' = [phase EXCEPT ![j] = p]

Start(j) ==
    /\ phase[j] = "queued"
    /\ Go(j, Kind[j])
    /\ LET others == {k \in Jobs \ {j} :
                        /\ Kind[j] = "upload" /\ Kind[k] = "upload"
                        /\ phase[k] \notin {"queued", "done"}
                        /\ ToSet(List[j]) \cap ToSet(List[k]) # {}}
       IN  overlaps' = overlaps \cup others \cup (IF others = {} THEN {} ELSE {j})
    /\ UNCHANGED <<size, indexed, gz, bucket, pos, report, measured, seen, kills>>

Finish(j) ==
    /\ phase[j] \in Kinds \ {"purge"} /\ pos[j] > Len(List[j])
    /\ Go(j, "done")
    /\ UNCHANGED <<size, indexed, gz, bucket, pos, report, measured, seen, overlaps, kills>>

-----------------------------------------------------------------------------
(* purge_binlogs_by_size_limit.                                            *)

Usage(s, binlogs) == MapThenSumSet(LAMBDA b : s[b], binlogs)
Fits(s, binlogs)  == Usage(s, binlogs) <= MaxBytes

\* Mutant of NewestTwo: only the current binlog is left alone.
NewestOne(binlogs) == {Max(binlogs)}

NewestTwo(binlogs) == {b \in binlogs : Cardinality({c \in binlogs : c > b}) < 2}

\* find_binlogs_by_size_limit: the oldest ones go until the older ones that
\* are left fit; PURGE ... TO takes the number behind the last that goes.
PurgeBefore(s) ==
    LET old    == DOMAIN s \ NewestTwo(DOMAIN s)
        enough == {b \in old : Fits(s, {c \in old : c > b})}
    IN  IF Fits(s, DOMAIN s) \/ Fits(s, old)
        THEN None
        ELSE Min(enough) + 1

Find(j) ==
    /\ phase[j] = "purge"
    /\ seen' = [seen EXCEPT ![j] = size]
    /\ Go(j, IF PurgeBefore(size) = None THEN "done" ELSE "found")
    /\ UNCHANGED <<size, indexed, gz, bucket, pos, report, measured, overlaps, kills>>

\* PURGE BINARY LOGS TO: it needs the binlog, and it stops at one that a
\* replica reads.
PurgeTo(to) ==
    /\ to \in files
    /\ \E m \in files : m <= to /\ size' = [b \in {c \in files : c >= m} |-> size[b]]

\* _purge_binlog: an error of the statement is not an exception, so that the
\* step says "Successfully purged" whatever became of it.
PurgeStep(j) ==
    /\ phase[j] = "found"
    /\ PurgeTo(PurgeBefore(seen[j])) \/ UNCHANGED size
    /\ report' = [report EXCEPT ![j] =
                    [b \in 1..MaxBinlog |-> IF b < PurgeBefore(seen[j]) THEN 0 ELSE None]]
    /\ Go(j, "done")
    /\ UNCHANGED <<indexed, gz, bucket, pos, measured, seen, overlaps, kills>>

\* The route that purges up to a binlog that press names.
PurgeRoute(to) ==
    /\ PurgeTo(to)
    /\ UNCHANGED <<indexed, gz, bucket, jobVars, kills>>

-----------------------------------------------------------------------------
(* upload_binlogs_to_s3.  Every upload of a binlog uses the same copy.     *)

\* The shell opens the copy before gzip opens the binlog.
Gzip(j) ==
    /\ Listed(j, "upload")
    /\ gz' = [gz EXCEPT ![Current(j)] = 0]
    /\ Go(j, "gzip")
    /\ UNCHANGED <<size, indexed, bucket, pos, report, measured, seen, overlaps, kills>>

\* Mutant of Compressed: gzip's status is not looked at.
CompressedUnchecked(j) ==
    /\ gz' = [gz EXCEPT ![Current(j)] =
                IF @ = None \/ Current(j) \notin files THEN @ ELSE size[Current(j)]]
    /\ Go(j, "measure") /\ UNCHANGED report

\* gzip reads what is there; the copy may have been removed under it.
Compressed(j) ==
    /\ Current(j) \in files
    /\ gz' = [gz EXCEPT ![Current(j)] = IF @ = None THEN None ELSE size[Current(j)]]
    /\ Go(j, "measure") /\ UNCHANGED report

GzipEnds(j) ==
    /\ Listed(j, "gzip")
    /\ \/ Compressed(j)
       \/ /\ Current(j) \notin files
          /\ Go(j, "remove") /\ UNCHANGED <<gz, report>>
    /\ UNCHANGED <<size, indexed, bucket, pos, measured, seen, overlaps, kills>>

\* getsize and the upload; each raises when the copy is gone, and the upload
\* when the storage does not take it.
Measure(j) ==
    /\ Listed(j, "measure")
    /\ IF gz[Current(j)] = None THEN Go(j, "remove") /\ UNCHANGED measured
       ELSE measured' = [measured EXCEPT ![j] = gz[Current(j)]] /\ Go(j, "send")
    /\ UNCHANGED <<size, indexed, gz, bucket, pos, report, seen, overlaps, kills>>

Send(j) ==
    /\ Listed(j, "send")
    /\ \/ /\ gz[Current(j)] # None
          /\ bucket' = [bucket EXCEPT ![Current(j)] = gz[Current(j)]]
          /\ report' = [report EXCEPT ![j][Current(j)] = measured[j]]
       \/ UNCHANGED <<bucket, report>>
    /\ Go(j, "remove")
    /\ UNCHANGED <<size, indexed, gz, pos, measured, seen, overlaps, kills>>

RemoveCopy(j) ==
    /\ Listed(j, "remove")
    /\ gz' = [gz EXCEPT ![Current(j)] = None]
    /\ pos' = [pos EXCEPT ![j] = @ + 1]
    /\ Go(j, "upload")
    /\ UNCHANGED <<size, indexed, bucket, report, measured, seen, overlaps, kills>>

-----------------------------------------------------------------------------
(* add_binlogs_to_index and remove_binlogs_from_index.                     *)

\* What a job says when it has done its whole list; before, it says nothing.
Done(j) ==
    report' = [report EXCEPT ![j] =
                 [b \in 1..MaxBinlog |-> IF b \in ToSet(List[j]) THEN 0 ELSE None]]

\* The processors are too busy, or the indexer raises: nothing is reported,
\* whatever has been done.
GiveUp(j) == Go(j, "done") /\ UNCHANGED report

Entered(j) == pos' = [pos EXCEPT ![j] = @ + 1]

AddToIndex(j) ==
    /\ Listed(j, "index")
    /\ \/ /\ Current(j) \in files
          /\ indexed' = indexed \cup {Current(j)} /\ Entered(j)
          /\ IF pos[j] = Len(List[j]) THEN Done(j) ELSE UNCHANGED report
          /\ UNCHANGED phase
       \/ GiveUp(j) /\ UNCHANGED <<indexed, pos>>
    /\ UNCHANGED <<size, gz, bucket, measured, seen, overlaps, kills>>

RemoveFromIndex(j) ==
    /\ Listed(j, "unindex")
    /\ \/ /\ indexed' = indexed \ {Current(j)} /\ Entered(j)
          /\ IF pos[j] = Len(List[j]) THEN Done(j) ELSE UNCHANGED report
          /\ UNCHANGED phase
       \/ GiveUp(j) /\ UNCHANGED <<indexed, pos>>
    /\ UNCHANGED <<size, gz, bucket, measured, seen, overlaps, kills>>

Step(j) ==
    \/ Start(j) \/ Find(j) \/ PurgeStep(j) \/ Gzip(j) \/ GzipEnds(j) \/ Measure(j)
    \/ Send(j) \/ RemoveCopy(j) \/ AddToIndex(j) \/ RemoveFromIndex(j) \/ Finish(j)

-----------------------------------------------------------------------------
(* MariaDB and faults.                                                     *)

Write ==
    /\ size[Max(files)] < MaxSize
    /\ size' = [size EXCEPT ![Max(files)] = @ + 1]
    /\ UNCHANGED <<indexed, gz, bucket, jobVars, kills>>

Rotate ==
    /\ Max(files) < MaxBinlog
    /\ size' = [b \in files \cup {Max(files) + 1} |-> IF b \in files THEN size[b] ELSE 1]
    /\ UNCHANGED <<indexed, gz, bucket, jobVars, kills>>

\* The copy stays behind, and the job reports nothing.
WorkerKilled(j) ==
    /\ kills < MaxKills /\ phase[j] \notin {"queued", "done"}
    /\ kills' = kills + 1
    /\ Go(j, "done") /\ report' = [report EXCEPT ![j] = [b \in 1..MaxBinlog |-> None]]
    /\ UNCHANGED <<size, indexed, gz, bucket, pos, measured, seen, overlaps>>

Next ==
    \/ \E j \in Jobs : Step(j) \/ WorkerKilled(j)
    \/ \E to \in 1..MaxBinlog : PurgeRoute(to)
    \/ Write \/ Rotate

Spec == Init /\ [][Next]_vars /\ \A j \in Jobs : WF_vars(Step(j))

-----------------------------------------------------------------------------
TypeOK ==
    /\ files \subseteq 1..MaxBinlog /\ files # {}
    /\ \A b \in files : size[b] \in 1..MaxSize
    /\ indexed \subseteq 1..MaxBinlog
    /\ gz \in [1..MaxBinlog -> 0..MaxSize \cup {None}]
    /\ bucket \in [1..MaxBinlog -> 0..MaxSize \cup {None}]
    /\ phase \in [Jobs -> Kinds \cup {"queued", "done", "found", "gzip", "measure",
                                     "send", "remove"}]
    /\ \A j \in Jobs : pos[j] \in 1..Len(List[j]) + 1
    /\ report \in [Jobs -> [1..MaxBinlog -> 0..MaxSize \cup {None}]]
    /\ overlaps \subseteq Jobs /\ kills \in 0..MaxKills

\* A purge by size acts on what an earlier step saw: whatever MariaDB, the
\* purge route and other purges did in between, it leaves the binlogs that
\* were the current and the previous one, the one that is current now, and
\* every binlog it did not have to remove for the limit.
PurgesOnlyWhatItMust ==
    [][\A j \in Jobs : phase[j] = "found" /\ phase'[j] = "done" =>
          LET gone   == files \ files'
              saw    == DOMAIN seen[j]
              behind == {b \in saw \ NewestTwo(saw) : b >= Max(gone)}
          IN  gone # {} =>
                /\ \A b \in gone : Cardinality({c \in saw : c > b}) >= 2
                /\ Max(files) \notin gone
                /\ ~Fits(seen[j], behind)]_vars

\* A binlog that an upload reports is in the object storage, no smaller than
\* reported and never as the empty file that is left when a purge removed the
\* binlog first, also when it was there already and is uploaded again.  This
\* holds as long as no two uploads of the binlog overlap: they share a copy.
UploadedWhole ==
    \A j \in Jobs, b \in 1..MaxBinlog :
        /\ Kind[j] = "upload" /\ report[j][b] # None
        /\ \A k \in overlaps : b \notin ToSet(List[k])
        => bucket[b] # None /\ bucket[b] >= report[j][b] /\ bucket[b] > 0

\* What an index job reports is in the index, unless a later removal took it
\* out: a failure in the middle of a list never claims too much.
ReportedIndexed ==
    \A j \in Jobs, b \in 1..MaxBinlog :
        Kind[j] = "index" /\ report[j][b] # None =>
            \/ b \in indexed
            \/ \E k \in Jobs : Kind[k] = "unindex" /\ b \in ToSet(SubSeq(List[k], 1, pos[k] - 1))

\* No job claims what it has not done.
ReportsHold == TypeOK /\ UploadedWhole /\ ReportedIndexed
=============================================================================
