-------------------------- MODULE PhysicalRestoreProofs --------------------------
(***************************************************************************)
(* Proofs about the physical restore for any set of tables, any backup and *)
(* request, and any number and kind of failures.                           *)
(***************************************************************************)
EXTENDS PhysicalRestore, TLAPS

-----------------------------------------------------------------------------
(* The inductive invariant.                                                *)

\* What the restore starts from, and what a table held before.
Inputs == backup \in Backups /\ request \in Requests
Before(t) == IF t \in Existing THEN "old" ELSE "absent"

\* What a step still has to do are tables that it is about.
InScope ==
    /\ step = 3 => todo \subseteq FilesToRestore \ InnoDB
    /\ step = 4 => request.full \/ todo = {}
    /\ step = 5 => todo \subseteq FilesToRestore
    /\ step = 6 => todo \subseteq Listed \cap Indexed
    /\ step \in {7, 9} => todo \subseteq Listed \cap InnoDB
    /\ step = 8 => todo \subseteq FilesToRestore \cap InnoDB
    /\ step = 11 => todo \subseteq FilesToRestore \ InnoDB
    /\ step = 13 => todo \subseteq Indexed
    /\ step = 14 => todo \subseteq Listed \ InnoDB

\* A full restore drops every table of old before it creates one.
OldDropped ==
    request.full =>
        \A t \in Tables : data[t] = "old" => step < 4 \/ (step = 4 /\ t \in todo)

\* The index of a table is there once the table is created, but while it is
\* dropped to be added again.
IndexKept ==
    \A t \in Listed \cap Indexed :
        /\ step = 5 => t \in fulltext \cup todo
        /\ step \in {6, 13} => t \in fulltext \cup todo
        /\ step \in (7..12) \cup {14} => t \in fulltext

\* How far the tables of InnoDB are, and those of MyISAM as long as the
\* second connection and its locks are there.
HasIbd(t) == <<t, "ibd">> \in OnDisk(t)
Staged(t) == IF HasIbd(t) THEN "staged" ELSE "discarded"

InnoDBTableAt(t) ==
    /\ step = 5 => t \in todo \/ data[t] = "blank"
    /\ step = 6 => data[t] = "blank"
    /\ step = 7 => data[t] = IF t \in todo THEN "blank" ELSE "discarded"
    /\ step = 8 => data[t] = IF t \in todo THEN "discarded" ELSE Staged(t)
    /\ step = 9 => data[t] = IF t \in todo THEN Staged(t) ELSE "restored"
    /\ step >= 10 => data[t] = "restored"

InnoDBAt == \A t \in Listed \cap InnoDB : InnoDBTableAt(t)

HasFiles(t) == OnDisk(t) # {}
Copied(t)   == IF HasFiles(t) THEN "copied" ELSE "blank"
Restored(t) == IF HasFiles(t) THEN "restored" ELSE "blank"

MyISAMTableAt(t) ==
    /\ step = 5 => t \in todo \/ data[t] = "blank"
    /\ step \in 6..10 => data[t] = "blank"
    /\ step = 11 /\ t \in todo => HasFiles(t)
    /\ step = 11 /\ "myisam" \in connected =>
          /\ t \in locked
          /\ data[t] \in IF t \in todo THEN {"blank", "half"} ELSE {Copied(t)}
    /\ step = 12 /\ "myisam" \in connected => data[t] = Copied(t)
    /\ step = 13 => data[t] = Copied(t)
    /\ step = 14 => data[t] = IF t \in todo THEN Copied(t) ELSE Restored(t)

MyISAMAt == \A t \in Listed \ InnoDB : MyISAMTableAt(t)

Progress == result = None => InScope /\ OldDropped /\ IndexKept /\ InnoDBAt /\ MyISAMAt

\* A restore of specific tables changes the content of no other table.
OthersKept == ~request.full => \A t \in Tables \ Listed : data[t] = Before(t)

\* A backup with a bad file does not get past the validation, one with an
\* index file without its data not past the check of the files.
Orphaned(t) == t \in FilesToRestore \ InnoDB /\ OnDisk(t) = {<<t, "MYI">>}
BadFiles ==
    ~backup.metadata \/ \E t \in FilesToRestore : OnDisk(t) \cap backup.changed # {}

NotPastChecks ==
    /\ BadFiles => step = 1
    /\ \A t \in Tables : Orphaned(t) => step \in 1..3 /\ (step = 3 => t \in todo)

IInv ==
    /\ Inputs /\ TypeOK
    /\ Progress
    /\ OthersKept
    /\ NotPastChecks
    /\ BadBackupTouchesNothing
    /\ RestoredWhole

-----------------------------------------------------------------------------
(* Lemmas.                                                                 *)

\* The number of each step.
LEMMA StepNumbers ==
    /\ Len(Steps) = 14
    /\ \A n \in 1..14 :
          /\ Steps[n] = "validate" <=> n = 1
          /\ Steps[n] = "connect" <=> n = 2
          /\ Steps[n] = "fix" <=> n = 3
          /\ Steps[n] = "drop" <=> n = 4
          /\ Steps[n] = "create" <=> n = 5
          /\ Steps[n] = "sync" <=> n = 6
          /\ Steps[n] = "discard" <=> n = 7
          /\ Steps[n] = "stage" <=> n = 8
          /\ Steps[n] = "import" <=> n = 9
          /\ Steps[n] = "lock" <=> n = 10
          /\ Steps[n] = "copy" <=> n = 11
          /\ Steps[n] = "unlock" <=> n = 12
          /\ Steps[n] = "reindex" <=> n = 13
          /\ Steps[n] = "check" <=> n = 14
<1> SUFFICES ASSUME NEW n \in 1..14 PROVE
          /\ Steps[n] = "validate" <=> n = 1
          /\ Steps[n] = "connect" <=> n = 2
          /\ Steps[n] = "fix" <=> n = 3
          /\ Steps[n] = "drop" <=> n = 4
          /\ Steps[n] = "create" <=> n = 5
          /\ Steps[n] = "sync" <=> n = 6
          /\ Steps[n] = "discard" <=> n = 7
          /\ Steps[n] = "stage" <=> n = 8
          /\ Steps[n] = "import" <=> n = 9
          /\ Steps[n] = "lock" <=> n = 10
          /\ Steps[n] = "copy" <=> n = 11
          /\ Steps[n] = "unlock" <=> n = 12
          /\ Steps[n] = "reindex" <=> n = 13
          /\ Steps[n] = "check" <=> n = 14
  BY DEF Steps
<1> n \in 1..7 \/ n \in 8..14
  OBVIOUS
<1>1. CASE n \in 1..7
  <2> n = 1 \/ n = 2 \/ n = 3 \/ n = 4 \/ n = 5 \/ n = 6 \/ n = 7
    BY <1>1
  <2> QED BY DEF Steps
<1>2. CASE n \in 8..14
  <2> n = 8 \/ n = 9 \/ n = 10 \/ n = 11 \/ n = 12 \/ n = 13 \/ n = 14
    BY <1>2
  <2> QED BY DEF Steps
<1> QED BY <1>1, <1>2

\* What a restore creates, replaces and repairs are tables.
LEMMA Subsets ==
    ASSUME Inputs
    PROVE  /\ request.full \in BOOLEAN /\ backup.metadata \in BOOLEAN
           /\ Listed \subseteq FilesToRestore /\ FilesToRestore \subseteq Tables
           /\ ~request.full => FilesToRestore = Listed
           /\ (IF request.full THEN backup.schema ELSE Listed) = FilesToRestore
BY RestoreAssumption DEF Inputs, Listed, FilesToRestore

\* The backup's files and the request are what they were.
Kept ==
    /\ Inputs' /\ request' = request /\ backup' = backup
    /\ Listed' = Listed /\ FilesToRestore' = FilesToRestore
    /\ BadFiles' = BadFiles /\ DefectSeen' = DefectSeen
    /\ \A x \in Tables : /\ OnDisk(x)' = OnDisk(x) /\ HasFiles(x)' = HasFiles(x)
                          /\ HasIbd(x)' = HasIbd(x) /\ Orphaned(x)' = Orphaned(x)
                         /\ Staged(x)' = Staged(x) /\ Copied(x)' = Copied(x)
                         /\ Restored(x)' = Restored(x)

LEMMA InputsKept ==
    ASSUME Inputs, UNCHANGED inputVars
    PROVE  Kept
<1> USE DEF inputVars
<1>1. Inputs' /\ request' = request /\ backup' = backup
  BY DEF Inputs
<1>2. Listed' = Listed /\ FilesToRestore' = FilesToRestore
  BY DEF Listed, FilesToRestore
<1>3. \A x \in Tables : /\ OnDisk(x)' = OnDisk(x) /\ HasFiles(x)' = HasFiles(x)
                        /\ HasIbd(x)' = HasIbd(x) /\ Orphaned(x)' = Orphaned(x)
                        /\ Staged(x)' = Staged(x) /\ Copied(x)' = Copied(x)
                        /\ Restored(x)' = Restored(x)
  BY <1>2 DEF OnDisk, HasFiles, HasIbd, Orphaned, Staged, Copied, Restored
<1>4. BadFiles' = BadFiles
  BY <1>2 DEF BadFiles, OnDisk
<1>5. DefectSeen' = DefectSeen
  BY <1>2 DEF DefectSeen, OnDisk
<1> QED BY <1>1, <1>2, <1>3, <1>4, <1>5 DEF Kept

\* The defects that are seen: before the tables are dropped is before step 4.
LEMMA Defects ==
    ASSUME Inputs
    PROVE  DefectSeen <=> BadFiles \/ \E t \in Tables : Orphaned(t)
BY Subsets DEF DefectSeen, BadFiles, Orphaned

\* A backup that is valid has no bad file.
LEMMA ValidHasNoBadFiles == BackupIsValid => ~BadFiles
BY DEF BackupIsValid, BadFiles, Changed, OnDisk

\* The next step starts with the tables it goes through.
LEMMA StepEnds ==
    ASSUME TypeOK, EndStep
    PROVE  \/ step = 14 /\ result' = "Success" /\ step' = step /\ todo' = todo
           \/ /\ step \in 1..13 /\ step' = step + 1 /\ result' = result
              /\ step' \in {2, 10, 12} => todo' = {}
              /\ step' = 3 => todo' = {t \in FilesToRestore \ InnoDB : <<t, "MYI">> \in OnDisk(t)}
              /\ step' = 4 => todo' = IF request.full THEN {t \in Tables : data[t] # "absent"} ELSE {}
              /\ step' = 5 => todo' = IF request.full THEN backup.schema ELSE Listed
              /\ step' = 6 => todo' = Listed \cap Indexed
              /\ step' \in {7, 9} => todo' = Listed \cap InnoDB
              /\ step' = 8 => todo' = {t \in FilesToRestore \cap InnoDB : HasFiles(t)}
              /\ step' = 11 => todo' = {t \in FilesToRestore \ InnoDB : HasFiles(t)}
              /\ step' = 13 => todo' = {t \in InnoDB : data[t] # "absent"} \cap fulltext
              /\ step' = 14 => todo' = Listed \ InnoDB
<1>1. CASE step = Len(Steps)
  BY <1>1, StepNumbers DEF EndStep
<1>2. CASE step # Len(Steps)
  <2>1. step \in 1..13 /\ step + 1 \in 1..14 /\ step' = step + 1 /\ result' = result
    BY <1>2, StepNumbers DEF EndStep, TypeOK
  <2>2. todo' = TodoOf(Steps[step + 1])
    BY <1>2 DEF EndStep
  <2> DEFINE n == step + 1
  <2>3. /\ n \in {2, 10, 12} => TodoOf(Steps[n]) = {}
        /\ n = 3 => TodoOf(Steps[n]) = {t \in FilesToRestore \ InnoDB : <<t, "MYI">> \in OnDisk(t)}
        /\ n = 4 => TodoOf(Steps[n]) = IF request.full THEN {t \in Tables : data[t] # "absent"} ELSE {}
        /\ n = 5 => TodoOf(Steps[n]) = IF request.full THEN backup.schema ELSE Listed
        /\ n = 6 => TodoOf(Steps[n]) = Listed \cap Indexed
        /\ n \in {7, 9} => TodoOf(Steps[n]) = Listed \cap InnoDB
        /\ n = 8 => TodoOf(Steps[n]) = {t \in FilesToRestore \cap InnoDB : HasFiles(t)}
        /\ n = 11 => TodoOf(Steps[n]) = {t \in FilesToRestore \ InnoDB : HasFiles(t)}
        /\ n = 13 => TodoOf(Steps[n]) = {t \in InnoDB : data[t] # "absent"} \cap fulltext
        /\ n = 14 => TodoOf(Steps[n]) = Listed \ InnoDB
    BY <2>1, StepNumbers DEF TodoOf, Steps, HasFiles
  <2> QED BY <2>1, <2>2, <2>3
<1> QED BY <1>1, <1>2

LEMMA StepInvariant == IInv /\ [Next]_vars => IInv'
<1> SUFFICES ASSUME IInv, [Next]_vars PROVE IInv'
  OBVIOUS
<1> USE DEF IInv
<1>1. ASSUME ValidateBackupFiles PROVE IInv'
  <2> USE <1>1 DEF ValidateBackupFiles, diskVars, inputVars, targetVars, jobVars, In, Set, Done
  <2>s. step = 1 /\ result = None
    BY StepNumbers DEF TypeOK
  <2>i. Kept
    BY InputsKept
  <2>1. TypeOK'
    BY Subsets, <2>s, <2>i, StepEnds, StepNumbers, RestoreAssumption DEF Kept, TypeOK, InScope, Progress
  <2>2. (result = None)' => InScope'
    BY Subsets, <2>s, <2>i, StepEnds DEF Kept, Progress, TypeOK, InScope
  <2>3. (result = None)' => OldDropped'
    BY Subsets, <2>s, <2>i, StepEnds DEF Kept, Progress, TypeOK, InScope, OldDropped
  <2>4. (result = None)' => IndexKept'
    BY Subsets, <2>s, <2>i, StepEnds DEF Kept, Progress, TypeOK, InScope, IndexKept
  <2>5. ASSUME result' = None, NEW x \in Listed \cap InnoDB PROVE InnoDBTableAt(x)'
    BY <2>5, Subsets, <2>s, <2>i, StepEnds DEF Kept, Progress, TypeOK, InScope, InnoDBAt, InnoDBTableAt
  <2>6. ASSUME result' = None, NEW x \in Listed \ InnoDB PROVE MyISAMTableAt(x)'
    BY <2>6, Subsets, <2>s, <2>i, StepEnds DEF Kept, Progress, TypeOK, InScope, MyISAMAt, MyISAMTableAt
  <2>7. OthersKept'
    BY Subsets, <2>s, <2>i, StepEnds DEF Kept, OthersKept, Before, Progress, InScope, TypeOK
  <2>8. NotPastChecks' /\ BadBackupTouchesNothing'
    BY Subsets, Defects, ValidHasNoBadFiles, <2>s, <2>i, StepEnds DEF Kept, NotPastChecks, BadBackupTouchesNothing, InScope, Progress, TypeOK
  <2>9. RestoredWhole'
    BY Subsets, <2>s, <2>i, StepEnds, RestoreAssumption DEF Kept, RestoredWhole, OthersKept, Before, Progress, InScope, InnoDBAt, InnoDBTableAt, MyISAMAt, MyISAMTableAt, HasFiles, IndexKept, OldDropped, TypeOK
  <2> QED BY <2>i, <2>1, <2>2, <2>3, <2>4, <2>5, <2>6, <2>7, <2>8, <2>9 DEF Kept, Progress, InnoDBAt, MyISAMAt
<1>2. ASSUME ValidateConnections PROVE IInv'
  <2> USE <1>2 DEF ValidateConnections, diskVars, inputVars, targetVars, jobVars, In, Set, Done
  <2>s. step = 2 /\ result = None
    BY StepNumbers DEF TypeOK
  <2>i. Kept
    BY InputsKept
  <2>1. TypeOK'
    <3>1. /\ step' = 3 /\ result' = result
          /\ todo' = {x \in FilesToRestore \ InnoDB : <<x, "MYI">> \in OnDisk(x)}
      BY <2>s, StepEnds
    <3>2. step' \in 1..Len(Steps) /\ todo' \subseteq Tables /\ result' = None
      BY <2>s, <3>1, Subsets, StepNumbers
    <3> QED BY <3>2 DEF TypeOK
  <2>2. (result = None)' => InScope'
    BY Subsets, <2>s, <2>i, StepEnds DEF Kept, Progress, TypeOK, InScope
  <2>3. (result = None)' => OldDropped'
    BY Subsets, <2>s, <2>i, StepEnds DEF Kept, Progress, TypeOK, InScope, OldDropped
  <2>4. (result = None)' => IndexKept'
    BY Subsets, <2>s, <2>i, StepEnds DEF Kept, Progress, TypeOK, InScope, IndexKept
  <2>5. ASSUME result' = None, NEW x \in Listed \cap InnoDB PROVE InnoDBTableAt(x)'
    BY <2>5, Subsets, <2>s, <2>i, StepEnds DEF Kept, Progress, TypeOK, InScope, InnoDBAt, InnoDBTableAt
  <2>6. ASSUME result' = None, NEW x \in Listed \ InnoDB PROVE MyISAMTableAt(x)'
    BY <2>6, Subsets, <2>s, <2>i, StepEnds DEF Kept, Progress, TypeOK, InScope, MyISAMAt, MyISAMTableAt
  <2>7. OthersKept'
    BY Subsets, <2>s, <2>i, StepEnds DEF Kept, OthersKept, Before, Progress, InScope, TypeOK
  <2>8. NotPastChecks' /\ BadBackupTouchesNothing'
    <3>1. step' = 3 /\ todo' = {x \in FilesToRestore \ InnoDB : <<x, "MYI">> \in OnDisk(x)}
      BY <2>s, StepEnds
    <3>2. \A x \in Tables : Orphaned(x) => x \in todo'
      BY <3>1 DEF Orphaned
    <3> QED BY <2>s, <2>i, <3>1, <3>2 DEF Kept, NotPastChecks, BadBackupTouchesNothing
  <2>9. RestoredWhole'
    BY Subsets, <2>s, <2>i, StepEnds, RestoreAssumption DEF Kept, RestoredWhole, OthersKept, Before, Progress, InScope, InnoDBAt, InnoDBTableAt, MyISAMAt, MyISAMTableAt, HasFiles, IndexKept, OldDropped, TypeOK
  <2> QED BY <2>i, <2>1, <2>2, <2>3, <2>4, <2>5, <2>6, <2>7, <2>8, <2>9 DEF Kept, Progress, InnoDBAt, MyISAMAt
<1>3. ASSUME NEW t \in Tables, DropTable(t) PROVE IInv'
  <2> USE <1>3 DEF DropTable, diskVars, inputVars, targetVars, jobVars, In, Set, Done
  <2>s. step = 4 /\ result = None
    BY StepNumbers DEF TypeOK
  <2>i. Kept
    BY InputsKept
  <2>1. TypeOK'
    BY Subsets, <2>s, <2>i, StepNumbers, RestoreAssumption DEF Kept, TypeOK, InScope, Progress
  <2>2. (result = None)' => InScope'
    BY Subsets, <2>s, <2>i DEF Kept, Progress, TypeOK, InScope
  <2>3. (result = None)' => OldDropped'
    BY Subsets, <2>s, <2>i DEF Kept, Progress, TypeOK, InScope, OldDropped
  <2>4. (result = None)' => IndexKept'
    BY Subsets, <2>s, <2>i DEF Kept, Progress, TypeOK, InScope, IndexKept
  <2>5. ASSUME result' = None, NEW x \in Listed \cap InnoDB PROVE InnoDBTableAt(x)'
    BY <2>5, Subsets, <2>s, <2>i DEF Kept, Progress, TypeOK, InScope, InnoDBAt, InnoDBTableAt
  <2>6. ASSUME result' = None, NEW x \in Listed \ InnoDB PROVE MyISAMTableAt(x)'
    BY <2>6, Subsets, <2>s, <2>i DEF Kept, Progress, TypeOK, InScope, MyISAMAt, MyISAMTableAt
  <2>7. OthersKept'
    BY Subsets, <2>s, <2>i DEF Kept, OthersKept, Before, Progress, InScope, TypeOK
  <2>8. NotPastChecks' /\ BadBackupTouchesNothing'
    BY Subsets, Defects, <2>s, <2>i DEF Kept, NotPastChecks, BadBackupTouchesNothing, InScope, Progress, TypeOK
  <2>9. RestoredWhole'
    BY Subsets, <2>s, <2>i, RestoreAssumption DEF Kept, RestoredWhole, OthersKept, Before, Progress, InScope, InnoDBAt, InnoDBTableAt, MyISAMAt, MyISAMTableAt, HasFiles, IndexKept, OldDropped, TypeOK
  <2> QED BY <2>i, <2>1, <2>2, <2>3, <2>4, <2>5, <2>6, <2>7, <2>8, <2>9 DEF Kept, Progress, InnoDBAt, MyISAMAt
<1>4. ASSUME NEW t \in Tables, CreateTable(t) PROVE IInv'
  <2> USE <1>4 DEF CreateTable, diskVars, inputVars, targetVars, jobVars, In, Set, Done
  <2>s. step = 5 /\ result = None
    BY StepNumbers DEF TypeOK
  <2>i. Kept
    BY InputsKept
  <2>1. TypeOK'
    BY Subsets, <2>s, <2>i, StepNumbers, RestoreAssumption DEF Kept, TypeOK, InScope, Progress
  <2>2. (result = None)' => InScope'
    BY Subsets, <2>s, <2>i DEF Kept, Progress, TypeOK, InScope
  <2>3. (result = None)' => OldDropped'
    BY Subsets, <2>s, <2>i DEF Kept, Progress, TypeOK, InScope, OldDropped
  <2>4. (result = None)' => IndexKept'
    BY Subsets, <2>s, <2>i DEF Kept, Progress, TypeOK, InScope, IndexKept
  <2>5. ASSUME result' = None, NEW x \in Listed \cap InnoDB PROVE InnoDBTableAt(x)'
    BY <2>5, Subsets, <2>s, <2>i DEF Kept, Progress, TypeOK, InScope, InnoDBAt, InnoDBTableAt
  <2>6. ASSUME result' = None, NEW x \in Listed \ InnoDB PROVE MyISAMTableAt(x)'
    BY <2>6, Subsets, <2>s, <2>i DEF Kept, Progress, TypeOK, InScope, MyISAMAt, MyISAMTableAt
  <2>7. OthersKept'
    BY Subsets, <2>s, <2>i DEF Kept, OthersKept, Before, Progress, InScope, TypeOK
  <2>8. NotPastChecks' /\ BadBackupTouchesNothing'
    BY Subsets, Defects, <2>s, <2>i DEF Kept, NotPastChecks, BadBackupTouchesNothing, InScope, Progress, TypeOK
  <2>9. RestoredWhole'
    BY Subsets, <2>s, <2>i, RestoreAssumption DEF Kept, RestoredWhole, OthersKept, Before, Progress, InScope, InnoDBAt, InnoDBTableAt, MyISAMAt, MyISAMTableAt, HasFiles, IndexKept, OldDropped, TypeOK
  <2> QED BY <2>i, <2>1, <2>2, <2>3, <2>4, <2>5, <2>6, <2>7, <2>8, <2>9 DEF Kept, Progress, InnoDBAt, MyISAMAt
<1>5. ASSUME NEW t \in Tables, SyncIndex(t) \/ RecreateIndex(t) PROVE IInv'
  <2> USE <1>5 DEF SyncIndex, RecreateIndex, DropAndAddIndex, diskVars, inputVars, targetVars, jobVars, In, Set, Done
  <2>s. step \in {6, 13} /\ result = None
    BY StepNumbers DEF TypeOK
  <2>i. Kept
    BY InputsKept
  <2>t. t \in Indexed
    BY <2>s DEF Progress, InScope
  <2>1. TypeOK'
    <3>1. fulltext' \subseteq Indexed
      BY <2>t DEF TypeOK
    <3>2. connected' \subseteq {"main", "myisam"}
      BY DEF TypeOK
    <3>3. todo' \subseteq Tables /\ step' = step /\ result' = result
      BY DEF TypeOK
    <3> QED BY <3>1, <3>2, <3>3 DEF TypeOK
  <2>2. (result = None)' => InScope'
    BY Subsets, <2>s, <2>i, <2>t DEF Kept, Progress, TypeOK, InScope
  <2>3. (result = None)' => OldDropped'
    BY Subsets, <2>s, <2>i, <2>t DEF Kept, Progress, TypeOK, InScope, OldDropped
  <2>4. (result = None)' => IndexKept'
    BY Subsets, <2>s, <2>i, <2>t DEF Kept, Progress, TypeOK, InScope, IndexKept
  <2>5. ASSUME result' = None, NEW x \in Listed \cap InnoDB PROVE InnoDBTableAt(x)'
    BY <2>5, Subsets, <2>s, <2>i, <2>t DEF Kept, Progress, TypeOK, InScope, InnoDBAt, InnoDBTableAt
  <2>6. ASSUME result' = None, NEW x \in Listed \ InnoDB PROVE MyISAMTableAt(x)'
    <3>1. /\ x \in Tables /\ HasFiles(x)' = HasFiles(x) /\ Staged(x)' = Staged(x)
          /\ Copied(x)' = Copied(x) /\ Restored(x)' = Restored(x)
      BY Subsets, <2>i DEF Kept
    <3>2. result = None /\ MyISAMTableAt(x)
      BY <2>6, <2>s DEF Progress, MyISAMAt
    <3> QED BY <3>1, <3>2, <2>6, <2>s DEF MyISAMTableAt, TypeOK
  <2>7. OthersKept'
    BY Subsets, <2>s, <2>i, <2>t DEF Kept, OthersKept, Before, Progress, InScope, TypeOK
  <2>8. NotPastChecks' /\ BadBackupTouchesNothing'
    BY Subsets, Defects, <2>s, <2>i, <2>t DEF Kept, NotPastChecks, BadBackupTouchesNothing, InScope, Progress, TypeOK
  <2>9. RestoredWhole'
    BY Subsets, <2>s, <2>i, <2>t, RestoreAssumption DEF Kept, RestoredWhole, OthersKept, Before, Progress, InScope, InnoDBAt, InnoDBTableAt, MyISAMAt, MyISAMTableAt, HasFiles, IndexKept, OldDropped, TypeOK
  <2> QED BY <2>i, <2>1, <2>2, <2>3, <2>4, <2>5, <2>6, <2>7, <2>8, <2>9 DEF Kept, Progress, InnoDBAt, MyISAMAt
<1>6. ASSUME NEW t \in Tables, DiscardTablespace(t) PROVE IInv'
  <2> USE <1>6 DEF DiscardTablespace, diskVars, inputVars, targetVars, jobVars, In, Set, Done
  <2>s. step = 7 /\ result = None
    BY StepNumbers DEF TypeOK
  <2>i. Kept
    BY InputsKept
  <2>1. TypeOK'
    BY Subsets, <2>s, <2>i, StepNumbers, RestoreAssumption DEF Kept, TypeOK, InScope, Progress
  <2>2. (result = None)' => InScope'
    BY Subsets, <2>s, <2>i DEF Kept, Progress, TypeOK, InScope
  <2>3. (result = None)' => OldDropped'
    BY Subsets, <2>s, <2>i DEF Kept, Progress, TypeOK, InScope, OldDropped
  <2>4. (result = None)' => IndexKept'
    BY Subsets, <2>s, <2>i DEF Kept, Progress, TypeOK, InScope, IndexKept
  <2>5. ASSUME result' = None, NEW x \in Listed \cap InnoDB PROVE InnoDBTableAt(x)'
    BY <2>5, Subsets, <2>s, <2>i DEF Kept, Progress, TypeOK, InScope, InnoDBAt, InnoDBTableAt
  <2>6. ASSUME result' = None, NEW x \in Listed \ InnoDB PROVE MyISAMTableAt(x)'
    BY <2>6, Subsets, <2>s, <2>i DEF Kept, Progress, TypeOK, InScope, MyISAMAt, MyISAMTableAt
  <2>7. OthersKept'
    BY Subsets, <2>s, <2>i DEF Kept, OthersKept, Before, Progress, InScope, TypeOK
  <2>8. NotPastChecks' /\ BadBackupTouchesNothing'
    BY Subsets, Defects, <2>s, <2>i DEF Kept, NotPastChecks, BadBackupTouchesNothing, InScope, Progress, TypeOK
  <2>9. RestoredWhole'
    BY Subsets, <2>s, <2>i, RestoreAssumption DEF Kept, RestoredWhole, OthersKept, Before, Progress, InScope, InnoDBAt, InnoDBTableAt, MyISAMAt, MyISAMTableAt, HasFiles, IndexKept, OldDropped, TypeOK
  <2> QED BY <2>i, <2>1, <2>2, <2>3, <2>4, <2>5, <2>6, <2>7, <2>8, <2>9 DEF Kept, Progress, InnoDBAt, MyISAMAt
<1>7. ASSUME NEW t \in Tables, StageFiles(t) PROVE IInv'
  <2> USE <1>7 DEF StageFiles, diskVars, inputVars, targetVars, jobVars, In, Set, Done
  <2>s. step = 8 /\ result = None
    BY StepNumbers DEF TypeOK
  <2>i. Kept
    BY InputsKept
  <2>1. TypeOK'
    BY Subsets, <2>s, <2>i, StepNumbers, RestoreAssumption DEF Kept, TypeOK, InScope, Progress
  <2>2. (result = None)' => InScope'
    BY Subsets, <2>s, <2>i DEF Kept, Progress, TypeOK, InScope
  <2>3. (result = None)' => OldDropped'
    BY Subsets, <2>s, <2>i DEF Kept, Progress, TypeOK, InScope, OldDropped
  <2>4. (result = None)' => IndexKept'
    BY Subsets, <2>s, <2>i DEF Kept, Progress, TypeOK, InScope, IndexKept
  <2>5. ASSUME result' = None, NEW x \in Listed \cap InnoDB PROVE InnoDBTableAt(x)'
    BY <2>5, Subsets, <2>s, <2>i DEF Kept, Progress, TypeOK, InScope, InnoDBAt, InnoDBTableAt, Staged, HasIbd
  <2>6. ASSUME result' = None, NEW x \in Listed \ InnoDB PROVE MyISAMTableAt(x)'
    BY <2>6, Subsets, <2>s, <2>i DEF Kept, Progress, TypeOK, InScope, MyISAMAt, MyISAMTableAt
  <2>7. OthersKept'
    BY Subsets, <2>s, <2>i DEF Kept, OthersKept, Before, Progress, InScope, TypeOK
  <2>8. NotPastChecks' /\ BadBackupTouchesNothing'
    BY Subsets, Defects, <2>s, <2>i DEF Kept, NotPastChecks, BadBackupTouchesNothing, InScope, Progress, TypeOK
  <2>9. RestoredWhole'
    BY Subsets, <2>s, <2>i, RestoreAssumption DEF Kept, RestoredWhole, OthersKept, Before, Progress, InScope, InnoDBAt, InnoDBTableAt, MyISAMAt, MyISAMTableAt, Staged, HasFiles, IndexKept, OldDropped, TypeOK
  <2> QED BY <2>i, <2>1, <2>2, <2>3, <2>4, <2>5, <2>6, <2>7, <2>8, <2>9 DEF Kept, Progress, InnoDBAt, MyISAMAt
<1>8. ASSUME NEW t \in Tables, ImportTablespace(t) PROVE IInv'
  <2> USE <1>8 DEF ImportTablespace, diskVars, inputVars, targetVars, jobVars, In, Set, Done
  <2>s. step = 9 /\ result = None
    BY StepNumbers DEF TypeOK
  <2>i. Kept
    BY InputsKept
  <2>1. TypeOK'
    BY Subsets, <2>s, <2>i, StepNumbers, RestoreAssumption DEF Kept, TypeOK, InScope, Progress
  <2>2. (result = None)' => InScope'
    BY Subsets, <2>s, <2>i DEF Kept, Progress, TypeOK, InScope
  <2>3. (result = None)' => OldDropped'
    BY Subsets, <2>s, <2>i DEF Kept, Progress, TypeOK, InScope, OldDropped
  <2>4. (result = None)' => IndexKept'
    BY Subsets, <2>s, <2>i DEF Kept, Progress, TypeOK, InScope, IndexKept
  <2>5. ASSUME result' = None, NEW x \in Listed \cap InnoDB PROVE InnoDBTableAt(x)'
    BY <2>5, Subsets, <2>s, <2>i DEF Kept, Progress, TypeOK, InScope, InnoDBAt, InnoDBTableAt, Staged
  <2>6. ASSUME result' = None, NEW x \in Listed \ InnoDB PROVE MyISAMTableAt(x)'
    BY <2>6, Subsets, <2>s, <2>i DEF Kept, Progress, TypeOK, InScope, MyISAMAt, MyISAMTableAt
  <2>7. OthersKept'
    BY Subsets, <2>s, <2>i DEF Kept, OthersKept, Before, Progress, InScope, TypeOK
  <2>8. NotPastChecks' /\ BadBackupTouchesNothing'
    BY Subsets, Defects, <2>s, <2>i DEF Kept, NotPastChecks, BadBackupTouchesNothing, InScope, Progress, TypeOK
  <2>9. RestoredWhole'
    BY Subsets, <2>s, <2>i, RestoreAssumption DEF Kept, RestoredWhole, OthersKept, Before, Progress, InScope, InnoDBAt, InnoDBTableAt, MyISAMAt, MyISAMTableAt, Staged, HasFiles, IndexKept, OldDropped, TypeOK
  <2> QED BY <2>i, <2>1, <2>2, <2>3, <2>4, <2>5, <2>6, <2>7, <2>8, <2>9 DEF Kept, Progress, InnoDBAt, MyISAMAt
<1>9. ASSUME LockMyISAMTables PROVE IInv'
  <2> USE <1>9 DEF LockMyISAMTables, diskVars, inputVars, targetVars, jobVars, In, Set, Done
  <2>s. step = 10 /\ result = None
    BY StepNumbers DEF TypeOK
  <2>i. Kept
    BY InputsKept
  <2>1. TypeOK'
    BY Subsets, <2>s, <2>i, StepEnds, StepNumbers, RestoreAssumption DEF Kept, TypeOK, InScope, Progress
  <2>2. (result = None)' => InScope'
    BY Subsets, <2>s, <2>i, StepEnds DEF Kept, Progress, TypeOK, InScope
  <2>3. (result = None)' => OldDropped'
    BY Subsets, <2>s, <2>i, StepEnds DEF Kept, Progress, TypeOK, InScope, OldDropped
  <2>4. (result = None)' => IndexKept'
    BY Subsets, <2>s, <2>i, StepEnds DEF Kept, Progress, TypeOK, InScope, IndexKept
  <2>5. ASSUME result' = None, NEW x \in Listed \cap InnoDB PROVE InnoDBTableAt(x)'
    BY <2>5, Subsets, <2>s, <2>i, StepEnds DEF Kept, Progress, TypeOK, InScope, InnoDBAt, InnoDBTableAt
  <2>6. ASSUME result' = None, NEW x \in Listed \ InnoDB PROVE MyISAMTableAt(x)'
    <3>1. /\ x \in Tables /\ HasFiles(x)' = HasFiles(x) /\ Staged(x)' = Staged(x)
          /\ Copied(x)' = Copied(x) /\ Restored(x)' = Restored(x)
      BY Subsets, <2>i DEF Kept
    <3>2. result = None /\ MyISAMTableAt(x)
      BY <2>6, <2>s DEF Progress, MyISAMAt
    <3>3. step' = 11 /\ todo' = {y \in FilesToRestore \ InnoDB : HasFiles(y)}
      BY <2>s, StepEnds
    <3>4. x \in FilesToRestore /\ x \in locked'
      BY Subsets
    <3>5. ~HasFiles(x) => Copied(x) = "blank"
      BY DEF Copied
    <3> QED BY <2>s, <3>1, <3>2, <3>3, <3>4, <3>5 DEF MyISAMTableAt
  <2>7. OthersKept'
    BY Subsets, <2>s, <2>i, StepEnds DEF Kept, OthersKept, Before, Progress, InScope, TypeOK
  <2>8. NotPastChecks' /\ BadBackupTouchesNothing'
    BY Subsets, Defects, <2>s, <2>i, StepEnds DEF Kept, NotPastChecks, BadBackupTouchesNothing, InScope, Progress, TypeOK
  <2>9. RestoredWhole'
    BY Subsets, <2>s, <2>i, StepEnds, RestoreAssumption DEF Kept, RestoredWhole, OthersKept, Before, Progress, InScope, InnoDBAt, InnoDBTableAt, MyISAMAt, MyISAMTableAt, HasFiles, IndexKept, OldDropped, TypeOK
  <2> QED BY <2>i, <2>1, <2>2, <2>3, <2>4, <2>5, <2>6, <2>7, <2>8, <2>9 DEF Kept, Progress, InnoDBAt, MyISAMAt
<1>10. ASSUME NEW t \in Tables, CopyFiles(t) PROVE IInv'
  <2> USE <1>10 DEF CopyFiles, diskVars, inputVars, targetVars, jobVars, In, Set, Done
  <2>s. step = 11 /\ result = None
    BY StepNumbers DEF TypeOK
  <2>i. Kept
    BY InputsKept
  <2>1. TypeOK'
    BY Subsets, <2>s, <2>i, StepNumbers, RestoreAssumption DEF Kept, TypeOK, InScope, Progress
  <2>2. (result = None)' => InScope'
    BY Subsets, <2>s, <2>i DEF Kept, Progress, TypeOK, InScope
  <2>3. (result = None)' => OldDropped'
    BY Subsets, <2>s, <2>i DEF Kept, Progress, TypeOK, InScope, OldDropped
  <2>4. (result = None)' => IndexKept'
    BY Subsets, <2>s, <2>i DEF Kept, Progress, TypeOK, InScope, IndexKept
  <2>5. ASSUME result' = None, NEW x \in Listed \cap InnoDB PROVE InnoDBTableAt(x)'
    BY <2>5, Subsets, <2>s, <2>i DEF Kept, Progress, TypeOK, InScope, InnoDBAt, InnoDBTableAt
  <2>6. ASSUME result' = None, NEW x \in Listed \ InnoDB PROVE MyISAMTableAt(x)'
    BY <2>6, Subsets, <2>s, <2>i DEF Kept, Progress, TypeOK, InScope, MyISAMAt, MyISAMTableAt, Copied, Restored
  <2>7. OthersKept'
    BY Subsets, <2>s, <2>i DEF Kept, OthersKept, Before, Progress, InScope, TypeOK
  <2>8. NotPastChecks' /\ BadBackupTouchesNothing'
    BY Subsets, Defects, <2>s, <2>i DEF Kept, NotPastChecks, BadBackupTouchesNothing, InScope, Progress, TypeOK
  <2>9. RestoredWhole'
    BY Subsets, <2>s, <2>i, RestoreAssumption DEF Kept, RestoredWhole, OthersKept, Before, Progress, InScope, InnoDBAt, InnoDBTableAt, MyISAMAt, MyISAMTableAt, Copied, Restored, HasFiles, IndexKept, OldDropped, TypeOK
  <2> QED BY <2>i, <2>1, <2>2, <2>3, <2>4, <2>5, <2>6, <2>7, <2>8, <2>9 DEF Kept, Progress, InnoDBAt, MyISAMAt
<1>11. ASSUME UnlockTables PROVE IInv'
  <2> USE <1>11 DEF UnlockTables, diskVars, inputVars, targetVars, jobVars, In, Set, Done
  <2>s. step = 12 /\ result = None
    BY StepNumbers DEF TypeOK
  <2>i. Kept
    BY InputsKept
  <2>1. TypeOK'
    BY Subsets, <2>s, <2>i, StepEnds, StepNumbers, RestoreAssumption DEF Kept, TypeOK, InScope, Progress
  <2>2. (result = None)' => InScope'
    BY Subsets, <2>s, <2>i, StepEnds DEF Kept, Progress, TypeOK, InScope
  <2>3. (result = None)' => OldDropped'
    BY Subsets, <2>s, <2>i, StepEnds DEF Kept, Progress, TypeOK, InScope, OldDropped
  <2>4. (result = None)' => IndexKept'
    BY Subsets, <2>s, <2>i, StepEnds DEF Kept, Progress, TypeOK, InScope, IndexKept
  <2>5. ASSUME result' = None, NEW x \in Listed \cap InnoDB PROVE InnoDBTableAt(x)'
    BY <2>5, Subsets, <2>s, <2>i, StepEnds DEF Kept, Progress, TypeOK, InScope, InnoDBAt, InnoDBTableAt
  <2>6. ASSUME result' = None, NEW x \in Listed \ InnoDB PROVE MyISAMTableAt(x)'
    <3>1. /\ x \in Tables /\ HasFiles(x)' = HasFiles(x) /\ Staged(x)' = Staged(x)
          /\ Copied(x)' = Copied(x) /\ Restored(x)' = Restored(x)
      BY Subsets, <2>i DEF Kept
    <3>2. data[x] = Copied(x)
      <4>1. Needs(Steps[step]) = {"main", "myisam"}
        BY <2>s, StepNumbers DEF Needs
      <4> QED BY <2>s, <3>1, <4>1 DEF Connected, Progress, MyISAMAt, MyISAMTableAt
    <3>3. step' = 13
      BY <2>s, StepEnds
    <3> QED BY <3>1, <3>2, <3>3 DEF MyISAMTableAt
  <2>7. OthersKept'
    BY Subsets, <2>s, <2>i, StepEnds DEF Kept, OthersKept, Before, Progress, InScope, TypeOK
  <2>8. NotPastChecks' /\ BadBackupTouchesNothing'
    BY Subsets, Defects, <2>s, <2>i, StepEnds DEF Kept, NotPastChecks, BadBackupTouchesNothing, InScope, Progress, TypeOK
  <2>9. RestoredWhole'
    BY Subsets, <2>s, <2>i, StepEnds, RestoreAssumption DEF Kept, RestoredWhole, OthersKept, Before, Progress, InScope, InnoDBAt, InnoDBTableAt, MyISAMAt, MyISAMTableAt, HasFiles, IndexKept, OldDropped, TypeOK
  <2> QED BY <2>i, <2>1, <2>2, <2>3, <2>4, <2>5, <2>6, <2>7, <2>8, <2>9 DEF Kept, Progress, InnoDBAt, MyISAMAt
<1>12. ASSUME NEW t \in Tables, CheckAndRepair(t) PROVE IInv'
  <2> USE <1>12 DEF CheckAndRepair, diskVars, inputVars, targetVars, jobVars, In, Set, Done
  <2>s. step = 14 /\ result = None
    BY StepNumbers DEF TypeOK
  <2>i. Kept
    BY InputsKept
  <2>1. TypeOK'
    BY Subsets, <2>s, <2>i, StepNumbers, RestoreAssumption DEF Kept, TypeOK, InScope, Progress
  <2>2. (result = None)' => InScope'
    BY Subsets, <2>s, <2>i DEF Kept, Progress, TypeOK, InScope
  <2>3. (result = None)' => OldDropped'
    BY Subsets, <2>s, <2>i DEF Kept, Progress, TypeOK, InScope, OldDropped
  <2>4. (result = None)' => IndexKept'
    BY Subsets, <2>s, <2>i DEF Kept, Progress, TypeOK, InScope, IndexKept
  <2>5. ASSUME result' = None, NEW x \in Listed \cap InnoDB PROVE InnoDBTableAt(x)'
    BY <2>5, Subsets, <2>s, <2>i DEF Kept, Progress, TypeOK, InScope, InnoDBAt, InnoDBTableAt
  <2>6. ASSUME result' = None, NEW x \in Listed \ InnoDB PROVE MyISAMTableAt(x)'
    BY <2>6, Subsets, <2>s, <2>i DEF Kept, Progress, TypeOK, InScope, MyISAMAt, MyISAMTableAt, Copied, Restored
  <2>7. OthersKept'
    BY Subsets, <2>s, <2>i DEF Kept, OthersKept, Before, Progress, InScope, TypeOK
  <2>8. NotPastChecks' /\ BadBackupTouchesNothing'
    BY Subsets, Defects, <2>s, <2>i DEF Kept, NotPastChecks, BadBackupTouchesNothing, InScope, Progress, TypeOK
  <2>9. RestoredWhole'
    BY Subsets, <2>s, <2>i, RestoreAssumption DEF Kept, RestoredWhole, OthersKept, Before, Progress, InScope, InnoDBAt, InnoDBTableAt, MyISAMAt, MyISAMTableAt, Copied, Restored, HasFiles, IndexKept, OldDropped, TypeOK
  <2> QED BY <2>i, <2>1, <2>2, <2>3, <2>4, <2>5, <2>6, <2>7, <2>8, <2>9 DEF Kept, Progress, InnoDBAt, MyISAMAt
<1>13. ASSUME StepDone PROVE IInv'
  <2> USE <1>13 DEF StepDone, diskVars, inputVars, targetVars, jobVars, In, Set, Done
  <2>s. step \in 1..14 \ {1, 2, 10, 12} /\ result = None /\ todo = {}
    BY StepNumbers DEF TypeOK
  <2>i. Kept
    BY InputsKept
  <2>1. TypeOK'
    BY Subsets, <2>s, <2>i, StepEnds, StepNumbers, RestoreAssumption DEF Kept, TypeOK, InScope, Progress
  <2>2. (result = None)' => InScope'
    BY Subsets, <2>s, <2>i, StepEnds DEF Kept, Progress, TypeOK, InScope
  <2>3. (result = None)' => OldDropped'
    BY Subsets, <2>s, <2>i, StepEnds DEF Kept, Progress, TypeOK, InScope, OldDropped
  <2>4. (result = None)' => IndexKept'
    BY Subsets, <2>s, <2>i, StepEnds DEF Kept, Progress, TypeOK, InScope, IndexKept
  <2>5. ASSUME result' = None, NEW x \in Listed \cap InnoDB PROVE InnoDBTableAt(x)'
    <3>1. /\ x \in Tables /\ HasFiles(x)' = HasFiles(x) /\ Staged(x)' = Staged(x)
          /\ Copied(x)' = Copied(x) /\ Restored(x)' = Restored(x)
      BY Subsets, <2>i DEF Kept
    <3>2. result = None /\ InnoDBTableAt(x)
      BY <2>5, <2>s DEF Progress, InnoDBAt
    <3>3. \/ step = 14 /\ result' = "Success"
          \/ step = 5 /\ step' = 6 /\ todo = {}
          \/ step = 6 /\ step' = 7 /\ todo' = Listed \cap InnoDB
          \/ step = 7 /\ step' = 8 /\ todo' = {y \in FilesToRestore \cap InnoDB : HasFiles(y)}
          \/ step = 8 /\ step' = 9 /\ todo' = Listed \cap InnoDB
          \/ step \in {9} \cup 11..13 /\ step' = step + 1
          \/ step \in 3..4 /\ step' = step + 1
      BY <2>s, StepEnds
    <3>4. step = 4 => x \in todo'
      BY <2>s, StepEnds, Subsets
    <3>5. ~HasFiles(x) => Staged(x) = "discarded"
      BY DEF HasFiles, HasIbd, Staged
    <3>6. x \in FilesToRestore
      BY Subsets
    <3>7. data' = data /\ todo = {} /\ step' # step
      BY <2>5, <2>s, <3>3, RestoreAssumption
    <3>8. CASE step \in 3..5
      BY <3>2, <3>3, <3>4, <3>7, <3>8 DEF InnoDBTableAt
    <3>9. CASE step \in 6..8
      BY <3>1, <3>2, <3>3, <3>5, <3>6, <3>7, <3>9 DEF InnoDBTableAt
    <3>10. CASE step \in 9..14
      <4>1. data[x] = "restored"
        BY <3>2, <3>7, <3>10 DEF InnoDBTableAt
      <4>2. step' \in 10..14
        BY <3>3, <3>7, <3>10, <2>5, RestoreAssumption
      <4> QED BY <3>7, <4>1, <4>2 DEF InnoDBTableAt
    <3> QED BY <2>s, <3>8, <3>9, <3>10
  <2>6. ASSUME result' = None, NEW x \in Listed \ InnoDB PROVE MyISAMTableAt(x)'
    BY <2>6, Subsets, <2>s, <2>i, StepEnds DEF Kept, Progress, TypeOK, InScope, MyISAMAt, MyISAMTableAt
  <2>7. OthersKept'
    BY Subsets, <2>s, <2>i, StepEnds DEF Kept, OthersKept, Before, Progress, InScope, TypeOK
  <2>8. NotPastChecks' /\ BadBackupTouchesNothing'
    BY Subsets, Defects, <2>s, <2>i, StepEnds DEF Kept, NotPastChecks, BadBackupTouchesNothing, InScope, Progress, TypeOK
  <2>9. RestoredWhole'
    <3>1. CASE step = 14
      <4>1. \A x \in Listed \cap InnoDB : data[x] = "restored"
        BY <2>s, <3>1 DEF Progress, InnoDBAt, InnoDBTableAt
      <4>2. \A x \in Listed \ InnoDB : data[x] = IF OnDisk(x) = {} THEN "blank" ELSE "restored"
        BY <2>s, <3>1 DEF Progress, MyISAMAt, MyISAMTableAt, Restored, HasFiles
      <4>3. \A x \in Listed \cap Indexed : x \in fulltext
        BY <2>s, <3>1 DEF Progress, IndexKept
      <4>4. \A x \in Tables : request.full => data[x] # "old"
        BY <2>s, <3>1 DEF Progress, OldDropped
      <4>5. Listed \subseteq Tables
        BY Subsets
      <4> QED BY <2>i, <4>1, <4>2, <4>3, <4>4, <4>5 DEF Kept, RestoredWhole, OthersKept, Before
    <3>2. CASE step # 14
      BY <2>s, <3>2, StepEnds, RestoreAssumption DEF RestoredWhole
    <3> QED BY <3>1, <3>2
  <2> QED BY <2>i, <2>1, <2>2, <2>3, <2>4, <2>5, <2>6, <2>7, <2>8, <2>9 DEF Kept, Progress, InnoDBAt, MyISAMAt
<1>14. ASSUME NEW t \in Tables, ClientWrites(t) PROVE IInv'
  <2> USE <1>14 DEF ClientWrites, diskVars, inputVars, targetVars, jobVars, In, Set, Done
  <2>i. Kept
    BY InputsKept
  <2>1. TypeOK'
    BY Subsets, <2>i, StepNumbers, RestoreAssumption DEF Kept, TypeOK, InScope, Progress
  <2>2. (result = None)' => InScope'
    BY Subsets, <2>i DEF Kept, Progress, TypeOK, InScope
  <2>3. (result = None)' => OldDropped'
    BY Subsets, <2>i DEF Kept, Progress, TypeOK, InScope, OldDropped
  <2>4. (result = None)' => IndexKept'
    BY Subsets, <2>i DEF Kept, Progress, TypeOK, InScope, IndexKept
  <2>5. ASSUME result' = None, NEW x \in Listed \cap InnoDB PROVE InnoDBTableAt(x)'
    <3>1. /\ x \in Tables /\ HasFiles(x)' = HasFiles(x) /\ Staged(x)' = Staged(x)
          /\ Copied(x)' = Copied(x) /\ Restored(x)' = Restored(x)
      BY Subsets, <2>i DEF Kept
    <3>2. result = None /\ InnoDBTableAt(x)
      BY <2>5 DEF Progress, InnoDBAt
    <3> QED BY <3>1, <3>2, <2>5 DEF InnoDBTableAt, TypeOK, Staged
  <2>6. ASSUME result' = None, NEW x \in Listed \ InnoDB PROVE MyISAMTableAt(x)'
    <3>1. /\ x \in Tables /\ HasFiles(x)' = HasFiles(x) /\ Staged(x)' = Staged(x)
          /\ Copied(x)' = Copied(x) /\ Restored(x)' = Restored(x)
      BY Subsets, <2>i DEF Kept
    <3>2. result = None /\ MyISAMTableAt(x)
      BY <2>6 DEF Progress, MyISAMAt
    <3> QED BY <3>1, <3>2, <2>6 DEF MyISAMTableAt, TypeOK, Copied, Restored
  <2>7. OthersKept'
    BY Subsets, <2>i DEF Kept, OthersKept, Before, Progress, InScope, TypeOK
  <2>8. NotPastChecks' /\ BadBackupTouchesNothing'
    BY Subsets, Defects, <2>i DEF Kept, NotPastChecks, BadBackupTouchesNothing, InScope, Progress, TypeOK
  <2>9. RestoredWhole'
    BY Subsets, <2>i, RestoreAssumption DEF Kept, RestoredWhole, OthersKept, Before, Progress, InScope, InnoDBAt, InnoDBTableAt, MyISAMAt, MyISAMTableAt, HasFiles, IndexKept, OldDropped, TypeOK
  <2> QED BY <2>i, <2>1, <2>2, <2>3, <2>4, <2>5, <2>6, <2>7, <2>8, <2>9 DEF Kept, Progress, InnoDBAt, MyISAMAt
<1>15. ASSUME NEW c \in {"main", "myisam"}, ConnectionLost(c) PROVE IInv'
  <2> USE <1>15 DEF ConnectionLost, Fault, diskVars, inputVars, targetVars, jobVars, In, Set, Done
  <2>i. Kept
    BY InputsKept
  <2>1. TypeOK'
    <3>1. connected' \subseteq {"main", "myisam"} /\ locked' \subseteq Tables \ InnoDB
      BY DEF TypeOK
    <3>2. faults' \in 0..MaxFaults
      BY RestoreAssumption DEF TypeOK
    <3> QED BY <3>1, <3>2 DEF TypeOK
  <2>2. (result = None)' => InScope'
    BY Subsets, <2>i DEF Kept, Progress, TypeOK, InScope
  <2>3. (result = None)' => OldDropped'
    BY Subsets, <2>i DEF Kept, Progress, TypeOK, InScope, OldDropped
  <2>4. (result = None)' => IndexKept'
    BY Subsets, <2>i DEF Kept, Progress, TypeOK, InScope, IndexKept
  <2>5. ASSUME result' = None, NEW x \in Listed \cap InnoDB PROVE InnoDBTableAt(x)'
    BY <2>5, Subsets, <2>i DEF Kept, Progress, TypeOK, InScope, InnoDBAt, InnoDBTableAt
  <2>6. ASSUME result' = None, NEW x \in Listed \ InnoDB PROVE MyISAMTableAt(x)'
    BY <2>6, Subsets, <2>i DEF Kept, Progress, TypeOK, InScope, MyISAMAt, MyISAMTableAt
  <2>7. OthersKept'
    BY Subsets, <2>i DEF Kept, OthersKept, Before, Progress, InScope, TypeOK
  <2>8. NotPastChecks' /\ BadBackupTouchesNothing'
    BY Subsets, Defects, <2>i DEF Kept, NotPastChecks, BadBackupTouchesNothing, InScope, Progress, TypeOK
  <2>9. RestoredWhole'
    BY Subsets, <2>i, RestoreAssumption DEF Kept, RestoredWhole, OthersKept, Before, Progress, InScope, InnoDBAt, InnoDBTableAt, MyISAMAt, MyISAMTableAt, HasFiles, IndexKept, OldDropped, TypeOK
  <2> QED BY <2>i, <2>1, <2>2, <2>3, <2>4, <2>5, <2>6, <2>7, <2>8, <2>9 DEF Kept, Progress, InnoDBAt, MyISAMAt
<1>16. ASSUME StepRaises \/ WorkerKilled \/ StepFails PROVE IInv'
  <2> USE <1>16 DEF StepRaises, WorkerKilled, StepFails, End, Fault, diskVars, inputVars, targetVars, jobVars, In, Set, Done
  <2>i. Kept
    BY InputsKept
  <2>1. TypeOK'
    BY Subsets, <2>i, StepNumbers, RestoreAssumption DEF Kept, TypeOK, InScope, Progress
  <2>2. result' # None
    BY RestoreAssumption
  <2>7. OthersKept'
    BY Subsets, <2>i DEF Kept, OthersKept, Before, Progress, InScope, TypeOK
  <2>8. NotPastChecks' /\ BadBackupTouchesNothing'
    BY Subsets, Defects, <2>i DEF Kept, NotPastChecks, BadBackupTouchesNothing, InScope, Progress, TypeOK
  <2>9. RestoredWhole'
    BY Subsets, <2>i, RestoreAssumption DEF Kept, RestoredWhole, OthersKept, Before, Progress, InScope, InnoDBAt, InnoDBTableAt, MyISAMAt, MyISAMTableAt, HasFiles, IndexKept, OldDropped, TypeOK
  <2> QED BY <2>i, <2>1, <2>2, <2>7, <2>8, <2>9 DEF Kept, Progress
<1>17. ASSUME Repeat PROVE IInv'
  <2> USE <1>17 DEF Repeat, diskVars, inputVars, targetVars, jobVars, In, Set, Done
  <2>i. Kept
    BY InputsKept
  <2>1. TypeOK'
    BY Subsets, <2>i, StepNumbers, RestoreAssumption DEF Kept, TypeOK, InScope, Progress
  <2>2. (result = None)' => InScope'
    BY Subsets, <2>i DEF Kept, Progress, TypeOK, InScope
  <2>3. (result = None)' => OldDropped'
    BY Subsets, <2>i DEF Kept, Progress, TypeOK, InScope, OldDropped
  <2>4. (result = None)' => IndexKept'
    BY Subsets, <2>i DEF Kept, Progress, TypeOK, InScope, IndexKept
  <2>5. ASSUME result' = None, NEW x \in Listed \cap InnoDB PROVE InnoDBTableAt(x)'
    BY <2>5, Subsets, <2>i DEF Kept, Progress, TypeOK, InScope, InnoDBAt, InnoDBTableAt
  <2>6. ASSUME result' = None, NEW x \in Listed \ InnoDB PROVE MyISAMTableAt(x)'
    BY <2>6, Subsets, <2>i DEF Kept, Progress, TypeOK, InScope, MyISAMAt, MyISAMTableAt
  <2>7. OthersKept'
    BY Subsets, <2>i DEF Kept, OthersKept, Before, Progress, InScope, TypeOK
  <2>8. NotPastChecks' /\ BadBackupTouchesNothing'
    BY Subsets, Defects, <2>i DEF Kept, NotPastChecks, BadBackupTouchesNothing, InScope, Progress, TypeOK
  <2>9. RestoredWhole'
    BY Subsets, <2>i, RestoreAssumption DEF Kept, RestoredWhole, OthersKept, Before, Progress, InScope, InnoDBAt, InnoDBTableAt, MyISAMAt, MyISAMTableAt, HasFiles, IndexKept, OldDropped, TypeOK
  <2> QED BY <2>i, <2>1, <2>2, <2>3, <2>4, <2>5, <2>6, <2>7, <2>8, <2>9 DEF Kept, Progress, InnoDBAt, MyISAMAt
<1>19. ASSUME NEW t \in Tables, CheckAndFixFiles(t) PROVE IInv'
  <2> USE <1>19 DEF CheckAndFixFiles, diskVars, inputVars, targetVars, jobVars, In, Set, Done
  <2>s. step = 3 /\ result = None
    BY StepNumbers DEF TypeOK
  <2>i. Kept
    BY InputsKept
  <2>1. TypeOK'
    BY Subsets, <2>s, <2>i, StepNumbers, RestoreAssumption DEF Kept, TypeOK, InScope, Progress
  <2>2. (result = None)' => InScope'
    BY Subsets, <2>s, <2>i DEF Kept, Progress, TypeOK, InScope
  <2>3. (result = None)' => OldDropped'
    BY Subsets, <2>s, <2>i DEF Kept, Progress, TypeOK, InScope, OldDropped
  <2>4. (result = None)' => IndexKept'
    BY Subsets, <2>s, <2>i DEF Kept, Progress, TypeOK, InScope, IndexKept
  <2>5. ASSUME result' = None, NEW x \in Listed \cap InnoDB PROVE InnoDBTableAt(x)'
    BY <2>5, Subsets, <2>s, <2>i DEF Kept, Progress, TypeOK, InScope, InnoDBAt, InnoDBTableAt
  <2>6. ASSUME result' = None, NEW x \in Listed \ InnoDB PROVE MyISAMTableAt(x)'
    BY <2>6, Subsets, <2>s, <2>i DEF Kept, Progress, TypeOK, InScope, MyISAMAt, MyISAMTableAt
  <2>7. OthersKept'
    BY Subsets, <2>s, <2>i DEF Kept, OthersKept, Before, Progress, InScope, TypeOK
  <2>8. NotPastChecks' /\ BadBackupTouchesNothing'
    <3>1. ~Orphaned(t)
      BY DEF Orphaned
    <3> QED BY <2>s, <2>i, <3>1 DEF Kept, NotPastChecks, BadBackupTouchesNothing
  <2>9. RestoredWhole'
    BY Subsets, <2>s, <2>i, RestoreAssumption DEF Kept, RestoredWhole, OthersKept, Before, Progress, InScope, InnoDBAt, InnoDBTableAt, MyISAMAt, MyISAMTableAt, HasFiles, IndexKept, OldDropped, TypeOK
  <2> QED BY <2>i, <2>1, <2>2, <2>3, <2>4, <2>5, <2>6, <2>7, <2>8, <2>9 DEF Kept, Progress, InnoDBAt, MyISAMAt
<1>18. CASE UNCHANGED vars
  <2>1. /\ data' = data /\ fulltext' = fulltext /\ repaired' = repaired
        /\ step' = step /\ todo' = todo /\ result' = result /\ connected' = connected
        /\ locked' = locked /\ faults' = faults
    BY <1>18 DEF vars, diskVars, inputVars, targetVars, jobVars
  <2>i. Kept
    BY <1>18, InputsKept DEF vars, diskVars
  <2>2. TypeOK' /\ OthersKept' /\ NotPastChecks'
    BY <2>1, <2>i, Subsets DEF Kept, TypeOK, OthersKept, NotPastChecks, Before
  <2>3. (result = None)' => InScope' /\ OldDropped' /\ IndexKept'
    BY <2>1, <2>i, Subsets DEF Kept, Progress, InScope, OldDropped, IndexKept
  <2>4. (result = None)' => InnoDBAt' /\ MyISAMAt'
    BY <2>1, <2>i, Subsets DEF Kept, Progress, InnoDBAt, InnoDBTableAt, MyISAMAt, MyISAMTableAt
  <2>5. BadBackupTouchesNothing' /\ RestoredWhole'
    BY <2>1, <2>i, Subsets DEF Kept, BadBackupTouchesNothing, RestoredWhole
  <2> QED BY <2>i, <2>1, <2>2, <2>3, <2>4, <2>5 DEF Kept, Progress
<1> QED BY <1>1, <1>2, <1>3, <1>4, <1>5, <1>6, <1>7, <1>8, <1>9, <1>10, <1>11, <1>12, <1>13,
           <1>14, <1>15, <1>16, <1>17, <1>18, <1>19 DEF Next, Step

LEMMA InitInvariant == Init => IInv
<1> SUFFICES ASSUME Init PROVE IInv
  OBVIOUS
<1> USE RestoreAssumption DEF Init
<1>1. Inputs
  BY DEF Inputs
<1>2. TypeOK
  BY StepNumbers DEF TypeOK
<1>3. Progress
  BY DEF Progress, InScope, OldDropped, IndexKept, InnoDBAt, InnoDBTableAt, MyISAMAt, MyISAMTableAt
<1>4. OthersKept
  BY Subsets, <1>1 DEF Kept, OthersKept, Before
<1>5. NotPastChecks /\ BadBackupTouchesNothing /\ RestoredWhole
  BY DEF NotPastChecks, BadBackupTouchesNothing, RestoredWhole
<1> QED BY <1>1, <1>2, <1>3, <1>4, <1>5 DEF IInv

LEMMA Invariant == Spec => []IInv
BY InitInvariant, StepInvariant, PTL DEF Spec

-----------------------------------------------------------------------------
(* What the invariant is for.                                              *)

\* A restore that succeeds has brought back every table that was asked for,
\* with its index, but a MyISAM table without any file on the disk, and nothing
\* of old or of other tables is confused with it, whatever is missing or
\* damaged and whatever failed in the attempts before (create_restore_job).
THEOREM RestoresAreWhole == Spec => []RestoreIsSound
<1>1. IInv => RestoreIsSound
  BY DEF IInv, RestoreIsSound
<1> QED BY <1>1, Invariant, PTL

\* A file of the disk that is not as it was measured, and an index file of
\* MyISAM without its data, costs no table: the job does not get past
\* validate_backup_files or check_and_fix_myisam_table_files, however often it
\* is repeated, and neither changes the target.
THEOREM BadBackupsAreHarmless == Spec => []BadBackupTouchesNothing
<1>1. IInv => BadBackupTouchesNothing
  BY DEF IInv
<1> QED BY <1>1, Invariant, PTL
=============================================================================
