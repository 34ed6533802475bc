---------------------------- MODULE BinlogsProofs ----------------------------
(***************************************************************************)
(* Proofs about the binlogs for any number of jobs, any lists and limits,  *)
(* and whatever MariaDB and the purge route do meanwhile.                  *)
(***************************************************************************)
EXTENDS Binlogs, FiniteSetTheorems, SequenceTheorems, WellFoundedInduction, TLAPS

-----------------------------------------------------------------------------
(* The least and the greatest of a set of binlogs, and the sum of none.    *)

LEMMA LeastExists ==
    ASSUME NEW T, T \subseteq Nat, T # {}
    PROVE  \E x \in T : \A y \in T : x <= y
<1>1. \E x \in T : \A y \in T : ~(<<y, x>> \in OpToRel(<, Nat))
  BY NatLessThanWellFounded, WFMin, Zenon
<1>2. \E x \in T : \A y \in T : ~(y < x)
  BY <1>1, Zenon DEF OpToRel
<1> QED BY <1>2

LEMMA MinIsLeast ==
    ASSUME NEW T, T \subseteq Nat, T # {}
    PROVE  Min(T) \in T /\ \A y \in T : Min(T) <= y
BY LeastExists DEF Min

LEMMA Constants ==
    /\ MaxBinlog \in Nat /\ MaxBinlog > 0 /\ MaxSize \in Nat /\ MaxSize > 0
    /\ MaxBytes \in Nat /\ MaxKills \in Nat /\ None \notin Nat
BY BinlogsAssumption

LEMMA MaxIsGreatest ==
    ASSUME NEW T, T \subseteq 1..MaxBinlog, T # {}
    PROVE  Max(T) \in T /\ \A y \in T : Max(T) >= y
<1> DEFINE below == {MaxBinlog - x : x \in T}
<1> USE Constants
<1>1. below \subseteq Nat
  OBVIOUS
<1>2. PICK y \in T : TRUE
  OBVIOUS
<1>3. PICK m \in below : \A z \in below : m <= z
  <2>1. MaxBinlog - y \in below
    OBVIOUS
  <2> QED BY <2>1, <1>1, LeastExists
<1>4. PICK x \in T : m = MaxBinlog - x
  OBVIOUS
<1>5. \A z \in T : MaxBinlog - z \in below
  OBVIOUS
<1>6. \A z \in T : MaxBinlog - x <= MaxBinlog - z
  BY <1>3, <1>4, <1>5
<1>7. \A z \in T : x >= z
  BY <1>6
<1> QED BY <1>7 DEF Max

LEMMA NothingFits == ASSUME NEW s PROVE Fits(s, {})
<1>1. \A t \in SUBSET {} : t = {}
  OBVIOUS
<1>2. Usage(s, {}) = 0
  BY <1>1 DEF Usage, MapThenSumSet, MapThenFoldSet
<1> QED BY <1>2, Constants DEF Fits

\* What lies above a binlog has at least two elements when what lies above a
\* later one does.
LEMMA AtLeastTwo ==
    ASSUME NEW S, S \subseteq 1..MaxBinlog, NEW b \in Nat, NEW c \in Nat, b <= c,
           ~(Cardinality({d \in S : d > c}) < 2)
    PROVE  Cardinality({d \in S : d > b}) >= 2
<1> DEFINE lower == {d \in S : d > b}
           upper == {d \in S : d > c}
<1>1. IsFiniteSet(1..MaxBinlog)
  BY Constants, FS_Interval
<1>2. lower \subseteq 1..MaxBinlog
  OBVIOUS
<1>3. upper \subseteq lower
  <2>1. \A d \in S : d > c => d > b
    BY Constants
  <2> QED BY <2>1
<1>4. IsFiniteSet(lower) /\ IsFiniteSet(upper) /\ Cardinality(upper) <= Cardinality(lower)
  BY <1>1, <1>2, <1>3, FS_Subset
<1>5. Cardinality(lower) \in Nat /\ Cardinality(upper) \in Nat
  BY <1>4, FS_CardinalityType
<1> QED BY <1>4, <1>5

\* A purge by size never goes beyond what it must, whatever was seen before and
\* however far the purge gets: the heart of find_binlogs_by_size_limit.
LEMMA PurgeIsBounded ==
    ASSUME NEW s, DOMAIN s \subseteq 1..MaxBinlog, PurgeBefore(s) \in Nat,
           NEW gone, gone \subseteq 1..MaxBinlog, gone # {},
           \A b \in gone : b < PurgeBefore(s)
    PROVE  LET saw    == DOMAIN s
               behind == {b \in saw \ NewestTwo(saw) : b >= Max(gone)}
           IN  /\ \A b \in gone : Cardinality({c \in saw : c > b}) >= 2
               /\ ~Fits(s, behind)
<1> DEFINE saw     == DOMAIN s
           old     == saw \ NewestTwo(saw)
           Above(b) == {c \in old : c > b}
           enough  == {b \in old : Fits(s, Above(b))}
           behind  == {b \in old : b >= Max(gone)}
           below   == {b \in old : b < Max(gone)}
<1>1. ~Fits(s, old) /\ PurgeBefore(s) = Min(enough) + 1
  BY Constants DEF PurgeBefore
<1>2. Max(gone) \in gone /\ \A b \in gone : b <= Max(gone)
  BY MaxIsGreatest
<1>o. old # {}
  BY <1>1, NothingFits
<1>s. old \subseteq 1..MaxBinlog
  OBVIOUS
<1>3. old \subseteq Nat
  BY <1>s
<1>4. Max(old) \in old /\ \A b \in old : b <= Max(old)
  BY <1>o, <1>s, MaxIsGreatest
<1>5. Min(enough) \in enough
  <2>1. Above(Max(old)) = {}
    <3>1. \A c \in old : ~(c > Max(old))
      BY <1>3, <1>4
    <3> QED BY <3>1
  <2>2. Max(old) \in enough
    BY <2>1, <1>4, NothingFits
  <2>3. enough \subseteq Nat
    BY <1>3
  <2> HIDE DEF enough
  <2> QED BY <2>2, <2>3, MinIsLeast
<1>6. Min(enough) \in old /\ Min(enough) \in Nat
  BY <1>3, <1>5
<1>7. gone \subseteq Nat /\ \A b \in gone : b <= Min(enough)
  <2> HIDE DEF enough
  <2> QED BY <1>1, <1>6, Constants
<1>8. \A b \in gone : Cardinality({c \in saw : c > b}) >= 2
  <2>1. ~(Cardinality({d \in saw : d > Min(enough)}) < 2)
    <3> HIDE DEF enough
    <3> QED BY <1>6 DEF NewestTwo
  <2> HIDE DEF enough
  <2> QED BY <2>1, <1>6, <1>7, AtLeastTwo
<1>9. ~Fits(s, behind)
  <2>1. CASE below = {}
    <3>1. \A b \in old : ~(b < Max(gone))
      BY <2>1
    <3>2. \A b \in old : b >= Max(gone)
      <4>1. Max(gone) \in Nat
        BY <1>2, <1>7
      <4> HIDE DEF old
      <4> QED BY <4>1, <3>1, <1>3
    <3>3. behind = old
      <4> HIDE DEF old
      <4> QED BY <3>2
    <3> QED BY <3>3, <1>1
  <2>2. CASE below # {}
    <3>1. below \subseteq 1..MaxBinlog
      BY <1>s
    <3>2. Max(below) \in below /\ \A b \in below : b <= Max(below)
      <4> HIDE DEF below
      <4> QED BY <2>2, <3>1, MaxIsGreatest
    <3>3. Max(below) \in old /\ Max(below) < Max(gone)
      BY <3>2
    <3>4. \A b \in old : b < Max(gone) => b <= Max(below)
      BY <3>2
    <3>5. behind = Above(Max(below))
      <4>1. \A b \in old : b >= Max(gone) <=> b > Max(below)
        <5>1. Max(below) \in Nat /\ Max(gone) \in Nat
          BY <3>3, <1>2, <1>3, <1>7
        <5> HIDE DEF old, below
        <5> QED BY <3>3, <3>4, <5>1, <1>3
      <4> HIDE DEF old, below
      <4> QED BY <4>1
    <3>6. Max(below) \notin enough
      <4>1. \A b \in enough : Min(enough) <= b
        <5>1. enough \subseteq Nat
          BY <1>3
        <5> HIDE DEF enough
        <5> QED BY <5>1, <1>5, MinIsLeast
      <4> HIDE DEF enough, below, old
      <4>2. Max(below) < Max(gone) /\ Max(gone) <= Min(enough)
        BY <3>3, <1>2, <1>7
      <4>3. Max(below) \in Nat /\ Max(gone) \in Nat
        BY <3>3, <1>2, <1>3, <1>7
      <4> QED BY <4>1, <4>2, <4>3, <1>6
    <3> QED BY <3>3, <3>5, <3>6
  <2> QED BY <2>1, <2>2
<1> QED BY <1>8, <1>9

-----------------------------------------------------------------------------
(* The inductive invariant.                                                *)

Uploading == {"upload", "gzip", "measure", "send", "remove"}

Shapes ==
    /\ DOMAIN pos = Jobs /\ DOMAIN seen = Jobs
    /\ measured \in [Jobs -> 0..MaxSize \cup {None}]

\* A job is where its kind can be, within its list; and what a purge saw were
\* binlogs.
Roles ==
    \A j \in Jobs :
        /\ phase[j] \in Uploading => Kind[j] = "upload"
        /\ phase[j] \in Uploading \ {"upload"} => pos[j] <= Len(List[j])
        /\ phase[j] \in {"index", "unindex"} => Kind[j] = phase[j]
        /\ phase[j] \in {"purge", "found"} => Kind[j] = "purge"
        /\ phase[j] = "found" => DOMAIN seen[j] \subseteq 1..MaxBinlog

\* Uploads that are under way and share a binlog are known to overlap.
Overlapped ==
    \A j, k \in Jobs :
        /\ j # k /\ phase[j] \in Uploading /\ phase[k] \in Uploading
        /\ ToSet(List[j]) \cap ToSet(List[k]) # {}
        => j \in overlaps

\* A copy is never larger than its binlog, which can only grow and never
\* returns once it is purged.
Covered(c) ==
    \A b \in 1..MaxBinlog :
        c[b] # None /\ c[b] > 0 =>
            /\ \E m \in files : b <= m
            /\ b \in files => c[b] <= size[b]

Alone(b) == \A k \in overlaps : b \notin ToSet(List[k])

\* The copy that an upload works on when no other touches the binlog.
Held(j) ==
    /\ gz[Current(j)] # None
    /\ phase[j] # "gzip" =>
          /\ gz[Current(j)] > 0
          /\ bucket[Current(j)] # None => gz[Current(j)] >= bucket[Current(j)]
    /\ phase[j] = "send" => measured[j] = gz[Current(j)]
InHand ==
    \A j \in Jobs :
        phase[j] \in {"gzip", "measure", "send"} /\ Alone(Current(j)) => Held(j)

\* The first elements of its list are those that a job has done.
Entry(j, b)  == \E i \in 1..pos[j] - 1 : List[j][i] = b
TakenOut(b)  == \E k \in Jobs : Kind[k] = "unindex" /\ Entry(k, b)
EntriesKept ==
    \A j \in Jobs, b \in 1..MaxBinlog :
        Kind[j] = "index" /\ Entry(j, b) => b \in indexed \/ TakenOut(b)
OnlyEntries ==
    \A j \in Jobs, b \in 1..MaxBinlog :
        Kind[j] = "index" /\ report[j][b] # None => Entry(j, b)

IInv ==
    /\ TypeOK /\ Shapes
    /\ Roles
    /\ Overlapped
    /\ Covered(gz) /\ Covered(bucket)
    /\ InHand /\ UploadedWhole
    /\ EntriesKept /\ OnlyEntries

\* The elements of a list are binlogs.
LEMMA Elements ==
    ASSUME NEW j \in Jobs
    PROVE  /\ List[j] \in Seq(1..MaxBinlog) /\ Len(List[j]) \in Nat
           /\ Kind[j] \in Kinds
           /\ \A i \in 1..Len(List[j]) :
                 List[j][i] \in 1..MaxBinlog /\ List[j][i] \in ToSet(List[j])
           /\ \A b \in ToSet(List[j]) : \E i \in 1..Len(List[j]) : List[j][i] = b
<1>1. List[j] \in Seq(1..MaxBinlog) /\ Kind[j] \in Kinds
  BY BinlogsAssumption
<1>2. Len(List[j]) \in Nat /\ DOMAIN List[j] = 1..Len(List[j])
  BY <1>1
<1>3. \A i \in 1..Len(List[j]) : List[j][i] \in 1..MaxBinlog
  BY <1>1, ElementOfSeq
<1> QED BY <1>1, <1>2, <1>3 DEF ToSet

LEMMA AtElement ==
    ASSUME TypeOK, NEW j \in Jobs, pos[j] <= Len(List[j])
    PROVE  /\ pos[j] \in 1..Len(List[j])
           /\ Current(j) \in 1..MaxBinlog /\ Current(j) \in ToSet(List[j])
BY Elements DEF TypeOK, Current

\* Nobody else works on a binlog that no overlapping upload lists.
LEMMA OnlyWorker ==
    ASSUME TypeOK, Roles, Overlapped,
           NEW j \in Jobs, phase[j] \in Uploading, pos[j] <= Len(List[j]), Alone(Current(j)),
           NEW k \in Jobs, phase[k] \in Uploading, pos[k] <= Len(List[k]),
           Current(k) = Current(j)
    PROVE  k = j
BY AtElement DEF Overlapped, Alone

LEMMA InitInvariant == Init => IInv
<1> SUFFICES ASSUME Init PROVE IInv
  OBVIOUS
<1> USE Constants, Elements DEF Init
<1>1. files \subseteq 1..MaxBinlog /\ files # {}
  <2>1. PICK n \in 1..MaxBinlog : size \in [1..n -> 1..MaxSize]
    OBVIOUS
  <2>2. files = 1..n /\ n \in files
    BY <2>1 DEF files
  <2>3. \A i \in 1..n : i \in 1..MaxBinlog
    OBVIOUS
  <2> QED BY <2>2, <2>3
<1>2. \A b \in files : size[b] \in 1..MaxSize
  BY DEF files
<1>3. TypeOK
  BY <1>1, <1>2 DEF TypeOK, Kinds
<1>4. Shapes /\ Roles /\ Overlapped
  BY DEF Shapes, Roles, Overlapped, Uploading
<1>5. Covered(gz) /\ Covered(bucket) /\ InHand /\ UploadedWhole
  BY DEF Covered, InHand, UploadedWhole
<1>6. EntriesKept /\ OnlyEntries
  BY DEF EntriesKept, OnlyEntries, Entry
<1> QED BY <1>3, <1>4, <1>5, <1>6 DEF IInv

\* What an action that only moves a job and touches no upload leaves alone.
LEMMA OverlappedKept ==
    ASSUME TypeOK, Overlapped, overlaps \subseteq overlaps',
           \A k \in Jobs : phase'[k] \in Uploading => phase[k] \in Uploading
    PROVE  Overlapped'
BY DEF Overlapped

LEMMA CoveredKept ==
    ASSUME UNCHANGED <<size, gz, bucket>>
    PROVE  Covered(gz)' = Covered(gz) /\ Covered(bucket)' = Covered(bucket)
BY DEF Covered, files

LEMMA InHandKept ==
    ASSUME InHand, UNCHANGED <<gz, bucket, measured>>, overlaps \subseteq overlaps',
           \A k \in Jobs : phase'[k] \in {"gzip", "measure", "send"} =>
              phase'[k] = phase[k] /\ pos'[k] = pos[k]
    PROVE  InHand'
BY DEF InHand, Held, Current, Alone

\* What one upload does with the copy of its binlog is of no matter to another
\* that has its binlog for itself.
LEMMA OthersHold ==
    ASSUME IInv, NEW j \in Jobs, phase[j] \in Uploading, pos[j] <= Len(List[j]),
           \A b \in 1..MaxBinlog \ {Current(j)} : gz'[b] = gz[b] /\ bucket'[b] = bucket[b],
           overlaps' = overlaps,
           \A k \in Jobs \ {j} : /\ phase'[k] = phase[k] /\ pos'[k] = pos[k]
                                /\ measured'[k] = measured[k],
           phase'[j] \in {"gzip", "measure", "send"} /\ Alone(Current(j))' => Held(j)'
    PROVE  InHand'
<1> USE DEF IInv
<1> SUFFICES ASSUME NEW k \in Jobs \ {j}, phase'[k] \in {"gzip", "measure", "send"},
                    Alone(Current(k))'
             PROVE  Held(k)'
  BY DEF InHand
<1>1. Current(k)' = Current(k) /\ Alone(Current(k))
  BY DEF Current, Alone
<1>2. phase[k] \in {"gzip", "measure", "send"} /\ pos[k] <= Len(List[k])
  BY DEF Roles, Uploading
<1>3. Current(k) # Current(j) /\ Current(k) \in 1..MaxBinlog
  BY <1>1, <1>2, OnlyWorker, AtElement DEF Uploading
<1> QED BY <1>1, <1>2, <1>3 DEF InHand, Held

LEMMA UploadedKept ==
    ASSUME UploadedWhole, UNCHANGED bucket, overlaps \subseteq overlaps',
           \A k \in Jobs, b \in 1..MaxBinlog :
              Kind[k] = "upload" /\ report'[k][b] # None => report'[k][b] = report[k][b]
    PROVE  UploadedWhole'
BY DEF UploadedWhole

LEMMA EntriesStay ==
    ASSUME EntriesKept, OnlyEntries, UNCHANGED <<pos, indexed>>,
           \A k \in Jobs, b \in 1..MaxBinlog :
              Kind[k] = "index" /\ report'[k][b] # None => report'[k][b] = report[k][b]
    PROVE  EntriesKept' /\ OnlyEntries'
BY DEF EntriesKept, OnlyEntries, Entry, TakenOut

\* What MariaDB may do to its files.
FilesMove ==
    /\ files' \subseteq 1..MaxBinlog /\ files' # {} /\ \A b \in files' : size'[b] \in 1..MaxSize
    /\ \A m \in files : \E n \in files' : m <= n
    /\ \A b \in files' \ files, m \in files : m < b
    /\ \A b \in files' \cap files : size[b] <= size'[b]

LEMMA StillCovered ==
    ASSUME TypeOK, Covered(gz), Covered(bucket), FilesMove, UNCHANGED <<gz, bucket>>
    PROVE  Covered(gz)' /\ Covered(bucket)'
<1> USE DEF FilesMove
<1>1. \A b \in 1..MaxBinlog : (\E m \in files : b <= m) => \E n \in files' : b <= n
  <2> TAKE b \in 1..MaxBinlog
  <2>1. files \subseteq Nat /\ files' \subseteq Nat
    BY DEF TypeOK
  <2> QED BY <2>1
<1>2. ASSUME NEW b \in 1..MaxBinlog, b \in files', \E m \in files : b <= m
      PROVE  b \in files /\ size[b] <= size'[b]
  BY <1>2 DEF TypeOK
<1>3. \A b \in 1..MaxBinlog :
         /\ b \in files => size[b] \in Nat
         /\ b \in files' => size'[b] \in Nat
         /\ gz[b] # None => gz[b] \in Nat
         /\ bucket[b] # None => bucket[b] \in Nat
  BY Constants DEF TypeOK
<1>4. Covered(gz)'
  BY <1>1, <1>2, <1>3 DEF Covered
<1>5. Covered(bucket)'
  BY <1>1, <1>2, <1>3 DEF Covered
<1> QED BY <1>4, <1>5

\* Only the files change.
LEMMA FilesChange ==
    ASSUME IInv, FilesMove, UNCHANGED <<indexed, gz, bucket, jobVars, kills>>
    PROVE  IInv'
<1> USE DEF IInv, jobVars
<1>1. TypeOK' /\ Shapes' /\ Roles'
  BY DEF TypeOK, Shapes, Roles, FilesMove
<1>2. Overlapped'
  BY OverlappedKept
<1>3. InHand'
  BY InHandKept
<1>4. UploadedWhole'
  BY UploadedKept
<1>5. EntriesKept' /\ OnlyEntries'
  BY EntriesStay
<1> QED BY <1>1, <1>2, <1>3, <1>4, <1>5, StillCovered

\* PURGE BINARY LOGS keeps the binlog that it is given, and all behind.
LEMMA PurgeKeeps ==
    ASSUME TypeOK, NEW to \in Nat, PurgeTo(to)
    PROVE  /\ files' \subseteq files /\ to \in files'
           /\ \A b \in files' : size'[b] = size[b]
           /\ \A m \in files : m >= to => m \in files'
           /\ \A m \in files : \E n \in files' : m <= n
<1>1. PICK m \in files : m <= to /\ size' = [b \in {c \in files : c >= m} |-> size[b]]
  BY DEF PurgeTo
<1>2. to \in files /\ files \subseteq Nat
  BY DEF PurgeTo, TypeOK
<1>3. files' = {c \in files : c >= m}
  BY <1>1 DEF files
<1>4. to \in files'
  BY <1>1, <1>2, <1>3
<1>5. \A c \in files : c >= to => c \in files'
  BY <1>1, <1>2, <1>3
<1>6. \A c \in files : c <= to \/ c >= to
  BY <1>2
<1>7. \A c \in files : \E n \in files' : c <= n
  BY <1>2, <1>4, <1>5, <1>6
<1> QED BY <1>1, <1>3, <1>4, <1>5, <1>7

LEMMA PurgeMoves ==
    ASSUME TypeOK, NEW to \in Nat, PurgeTo(to) PROVE FilesMove
<1>1. /\ files' \subseteq files /\ to \in files'
      /\ \A b \in files' : size'[b] = size[b]
      /\ \A m \in files : \E n \in files' : m <= n
  BY PurgeKeeps
<1>2. files' \subseteq 1..MaxBinlog /\ \A b \in files' : size'[b] \in 1..MaxSize
  BY <1>1 DEF TypeOK
<1>3. \A b \in files' \cap files : size[b] <= size'[b]
  <2>1. \A b \in files' : size'[b] \in Nat
    BY <1>2, Constants
  <2> QED BY <1>1, <2>1
<1> QED BY <1>1, <1>2, <1>3 DEF FilesMove

-----------------------------------------------------------------------------
(* One step preserves the invariant.                                       *)

LEMMA NextOne ==
    ASSUME IInv
    PROVE  Max(files) \in files /\ (\A m \in files : m <= Max(files)) /\ Max(files) \in Nat
<1>1. files \subseteq 1..MaxBinlog /\ files # {}
  BY DEF IInv, TypeOK
<1>2. Max(files) \in files /\ \A m \in files : Max(files) >= m
  BY <1>1, MaxIsGreatest
<1>3. files \subseteq Nat
  BY <1>1
<1> QED BY <1>2, <1>3

LEMMA MariaDBSteps ==
    ASSUME IInv, Write \/ Rotate \/ \E to \in 1..MaxBinlog : PurgeRoute(to)
    PROVE  IInv'
<1> USE DEF IInv
<1>1. files \subseteq Nat /\ Max(files) \in files /\ Max(files) \in Nat
  BY NextOne DEF TypeOK
<1>2. CASE Write
  <2>1. files' = files /\ \A b \in files : size'[b] = IF b = Max(files) THEN size[b] + 1 ELSE size[b]
    BY <1>2, <1>1 DEF Write, files
  <2>2. \A b \in files : size'[b] \in 1..MaxSize /\ size[b] <= size'[b]
    BY <1>2, <1>1, <2>1, Constants DEF Write, TypeOK
  <2>3. UNCHANGED <<indexed, gz, bucket, jobVars, kills>>
    BY <1>2 DEF Write
  <2>4. \A m \in files : m <= m
    BY <1>1
  <2> QED BY <2>1, <2>2, <2>3, <2>4, FilesChange DEF TypeOK, FilesMove
<1>3. CASE Rotate
  <2>1. files' = files \cup {Max(files) + 1}
    BY <1>3 DEF Rotate, files
  <2>2. \A b \in files' : size'[b] = IF b \in files THEN size[b] ELSE 1
    BY <1>3, <2>1 DEF Rotate
  <2>3. Max(files) + 1 \in 1..MaxBinlog
    BY <1>3, <1>1, Constants DEF Rotate
  <2>4. files' \subseteq 1..MaxBinlog /\ files' # {}
    BY <2>1, <2>3 DEF TypeOK
  <2>5. \A b \in files' : size'[b] \in 1..MaxSize
    <3>1. 1 \in 1..MaxSize /\ \A b \in files : size[b] \in 1..MaxSize
      BY Constants DEF TypeOK
    <3> QED BY <2>2, <3>1
  <2>6. \A m \in files : m \in files' /\ m <= m
    BY <1>1, <2>1
  <2>7. \A b \in files' \ files, m \in files : m < b
    BY <1>1, <2>1, NextOne
  <2>8. \A b \in files' \cap files : size[b] <= size'[b]
    <3>1. \A b \in files : size[b] \in Nat
      BY Constants DEF TypeOK
    <3> QED BY <2>2, <3>1
  <2>9. UNCHANGED <<indexed, gz, bucket, jobVars, kills>>
    BY <1>3 DEF Rotate
  <2> QED BY <2>4, <2>5, <2>6, <2>7, <2>8, <2>9, FilesChange DEF FilesMove
<1>4. ASSUME NEW to \in 1..MaxBinlog, PurgeRoute(to) PROVE IInv'
  <2>1. PurgeTo(to) /\ UNCHANGED <<indexed, gz, bucket, jobVars, kills>> /\ to \in Nat
    BY <1>4 DEF PurgeRoute
  <2> QED BY <2>1, PurgeMoves, FilesChange
<1> QED BY <1>2, <1>3, <1>4

\* The type of what most steps of an upload change.
LEMMA UploadTypes ==
    ASSUME TypeOK, Shapes, NEW j \in Jobs,
           NEW p \in {"upload", "gzip", "measure", "send", "remove"}, phase' = [phase EXCEPT ![j] = p],
           UNCHANGED <<size, indexed, seen, overlaps, kills>>,
           gz' \in [1..MaxBinlog -> 0..MaxSize \cup {None}],
           bucket' \in [1..MaxBinlog -> 0..MaxSize \cup {None}],
           measured' \in [Jobs -> 0..MaxSize \cup {None}],
           report' \in [Jobs -> [1..MaxBinlog -> 0..MaxSize \cup {None}]],
           DOMAIN pos' = Jobs, \A k \in Jobs : pos'[k] \in 1..Len(List[k]) + 1
    PROVE  TypeOK' /\ Shapes'
<1>1. phase' \in [Jobs -> Kinds \cup {"queued", "done", "found", "gzip", "measure",
                                     "send", "remove"}]
  BY DEF TypeOK, Kinds
<1> QED BY <1>1 DEF TypeOK, Shapes, files

LEMMA GzipStep ==
    ASSUME IInv, NEW j \in Jobs, Gzip(j) PROVE IInv'
<1> USE DEF IInv, Gzip, Go, Listed
<1>1. /\ phase[j] = "upload" /\ pos[j] <= Len(List[j]) /\ Kind[j] = "upload"
      /\ Current(j) \in 1..MaxBinlog
  BY AtElement DEF Roles, Uploading
<1>2. /\ phase'[j] = "gzip" /\ \A k \in Jobs \ {j} : phase'[k] = phase[k]
      /\ gz'[Current(j)] = 0
      /\ \A b \in 1..MaxBinlog : b # Current(j) => gz'[b] = gz[b]
  BY <1>1 DEF TypeOK
<1>3. TypeOK' /\ Shapes'
  <2>1. gz' \in [1..MaxBinlog -> 0..MaxSize \cup {None}]
    <3>1. 0 \in 0..MaxSize
      BY Constants
    <3> QED BY <3>1 DEF TypeOK
  <2> QED BY <2>1, UploadTypes DEF TypeOK, Shapes
<1>4. Roles'
  BY <1>1, <1>2 DEF Roles, Uploading
<1>5. Overlapped'
  <2>1. \A k \in Jobs : phase'[k] \in Uploading => phase[k] \in Uploading
    BY <1>1, <1>2 DEF Uploading
  <2> QED BY <2>1, OverlappedKept
<1>6. Covered(gz)' /\ Covered(bucket)'
  <2>1. \A b \in 1..MaxBinlog : gz'[b] # 0 => gz'[b] = gz[b]
    BY <1>2
  <2> QED BY <2>1 DEF Covered, files
<1>7. InHand'
  <2>1. Held(j)'
    <3>1. Current(j)' = Current(j)
      BY DEF Current
    <3> QED BY <3>1, <1>2, Constants DEF Held
  <2> QED BY <2>1, <1>1, <1>2, OthersHold DEF Uploading
<1>8. UploadedWhole'
  BY UploadedKept
<1>9. EntriesKept' /\ OnlyEntries'
  BY EntriesStay
<1> QED BY <1>3, <1>4, <1>5, <1>6, <1>7, <1>8, <1>9

LEMMA GzipEndsStep ==
    ASSUME IInv, NEW j \in Jobs, GzipEnds(j) PROVE IInv'
<1> USE DEF IInv, GzipEnds, Compressed, Go, Listed
<1> DEFINE b == Current(j)
<1>1. /\ phase[j] = "gzip" /\ pos[j] <= Len(List[j]) /\ Kind[j] = "upload"
      /\ b \in 1..MaxBinlog
  BY AtElement DEF Roles, Uploading
<1>2. /\ phase'[j] \in {"measure", "remove"} /\ \A k \in Jobs \ {j} : phase'[k] = phase[k]
      /\ \A c \in 1..MaxBinlog : c # b => gz'[c] = gz[c]
      /\ phase'[j] = "measure" =>
            b \in files /\ gz'[b] = IF gz[b] = None THEN None ELSE size[b]
      /\ phase'[j] = "remove" => gz' = gz
      /\ \E p \in {"measure", "remove"} : phase' = [phase EXCEPT ![j] = p]
      /\ UNCHANGED report
  BY <1>1 DEF TypeOK
<1>3. TypeOK' /\ Shapes'
  <2>1. gz' \in [1..MaxBinlog -> 0..MaxSize \cup {None}]
    BY <1>1, Constants DEF TypeOK
  <2> QED BY <2>1, <1>2, UploadTypes DEF TypeOK, Shapes
<1>4. Roles'
  BY <1>1, <1>2 DEF Roles, Uploading
<1>5. Overlapped'
  <2>1. \A k \in Jobs : phase'[k] \in Uploading => phase[k] \in Uploading
    BY <1>1, <1>2 DEF Uploading
  <2> QED BY <2>1, OverlappedKept
<1>6. Covered(gz)' /\ Covered(bucket)'
  <2>1. \A c \in 1..MaxBinlog :
           gz'[c] = gz[c] \/ (c \in files /\ gz'[c] \in {None, size[c]})
    BY <1>1, <1>2
  <2>2. \A c \in files : c <= c /\ size[c] <= size[c]
    BY Constants DEF TypeOK
  <2> QED BY <2>1, <2>2 DEF Covered, files
<1>7. InHand'
  <2>1. ASSUME phase'[j] \in {"gzip", "measure", "send"}, Alone(Current(j))' PROVE Held(j)'
    <3>1. Current(j)' = b /\ Alone(b) /\ phase'[j] = "measure"
      BY <2>1, <1>2 DEF Current, Alone
    <3>2. gz[b] # None
      BY <1>1, <3>1 DEF InHand, Held
    <3>3. b \in files /\ gz'[b] = size[b] /\ size[b] \in Nat /\ size[b] > 0
      BY <1>1, <1>2, <3>1, <3>2, Constants DEF TypeOK
    <3>4. bucket[b] # None => bucket[b] \in Nat /\ bucket[b] <= size[b]
      BY <1>1, <3>3, Constants DEF Covered, TypeOK
    <3> QED BY <3>1, <3>3, <3>4, Constants DEF Held
  <2> QED BY <2>1, <1>1, <1>2, OthersHold DEF Uploading
<1>8. UploadedWhole'
  BY <1>2, UploadedKept
<1>9. EntriesKept' /\ OnlyEntries'
  BY <1>2, EntriesStay
<1> QED BY <1>3, <1>4, <1>5, <1>6, <1>7, <1>8, <1>9

LEMMA MeasureStep ==
    ASSUME IInv, NEW j \in Jobs, Measure(j) PROVE IInv'
<1> USE DEF IInv, Measure, Go, Listed
<1> DEFINE b == Current(j)
<1>1. /\ phase[j] = "measure" /\ pos[j] <= Len(List[j]) /\ Kind[j] = "upload"
      /\ b \in 1..MaxBinlog
  BY AtElement DEF Roles, Uploading
<1>2. /\ phase'[j] \in {"send", "remove"} /\ \A k \in Jobs \ {j} : phase'[k] = phase[k]
      /\ \E p \in {"send", "remove"} : phase' = [phase EXCEPT ![j] = p]
      /\ \A k \in Jobs \ {j} : measured'[k] = measured[k]
      /\ phase'[j] = "send" => measured'[j] = gz[b]
  BY <1>1 DEF TypeOK, Shapes
<1>3. TypeOK' /\ Shapes'
  <2>1. measured' \in [Jobs -> 0..MaxSize \cup {None}]
    BY <1>1 DEF TypeOK, Shapes
  <2> QED BY <2>1, <1>2, UploadTypes DEF TypeOK, Shapes
<1>4. Roles'
  BY <1>1, <1>2 DEF Roles, Uploading
<1>5. Overlapped'
  <2>1. \A k \in Jobs : phase'[k] \in Uploading => phase[k] \in Uploading
    BY <1>1, <1>2 DEF Uploading
  <2> QED BY <2>1, OverlappedKept
<1>6. Covered(gz)' /\ Covered(bucket)'
  BY CoveredKept
<1>7. InHand'
  <2>1. ASSUME phase'[j] \in {"gzip", "measure", "send"}, Alone(Current(j))' PROVE Held(j)'
    <3>1. Current(j)' = b /\ Alone(b) /\ phase'[j] = "send"
      BY <2>1, <1>2 DEF Current, Alone
    <3> QED BY <1>1, <1>2, <3>1 DEF InHand, Held
  <2> QED BY <2>1, <1>1, <1>2, OthersHold DEF Uploading
<1>8. UploadedWhole'
  BY UploadedKept
<1>9. EntriesKept' /\ OnlyEntries'
  BY EntriesStay
<1> QED BY <1>3, <1>4, <1>5, <1>6, <1>7, <1>8, <1>9

LEMMA SendStep ==
    ASSUME IInv, NEW j \in Jobs, Send(j) PROVE IInv'
<1> USE DEF IInv, Send, Go, Listed
<1> DEFINE b == Current(j)
<1>1. /\ phase[j] = "send" /\ pos[j] <= Len(List[j]) /\ Kind[j] = "upload"
      /\ b \in 1..MaxBinlog /\ b \in ToSet(List[j])
  BY AtElement DEF Roles, Uploading
<1>2. /\ phase'[j] = "remove" /\ \A k \in Jobs \ {j} : phase'[k] = phase[k]
  BY <1>1 DEF TypeOK
<1> DEFINE row == [report[j] EXCEPT ![b] = measured[j]]
<1>r. /\ report[j] \in [1..MaxBinlog -> 0..MaxSize \cup {None}]
      /\ measured[j] \in 0..MaxSize \cup {None}
  BY DEF TypeOK, Shapes
<1>s. /\ row \in [1..MaxBinlog -> 0..MaxSize \cup {None}]
      /\ row[b] = measured[j] /\ \A c \in 1..MaxBinlog \ {b} : row[c] = report[j][c]
  BY <1>1, <1>r
<1>t. \/ UNCHANGED <<bucket, report>>
      \/ /\ gz[b] # None /\ bucket' = [bucket EXCEPT ![b] = gz[b]]
         /\ report' = [report EXCEPT ![j] = row]
  OBVIOUS
<1>u. \/ UNCHANGED <<bucket, report>>
      \/ /\ gz[b] # None
         /\ bucket'[b] = gz[b] /\ report'[j][b] = measured[j]
         /\ \A c \in 1..MaxBinlog \ {b} : bucket'[c] = bucket[c]
         /\ \A k \in Jobs, c \in 1..MaxBinlog :
               k # j \/ c # b => report'[k][c] = report[k][c]
  <2> HIDE DEF row
  <2> QED BY <1>1, <1>s, <1>t DEF TypeOK
<1>3. TypeOK' /\ Shapes'
  <2>1. bucket' \in [1..MaxBinlog -> 0..MaxSize \cup {None}]
    BY <1>1 DEF TypeOK
  <2>2. report' \in [Jobs -> [1..MaxBinlog -> 0..MaxSize \cup {None}]]
    <3> HIDE DEF row
    <3> QED BY <1>s, <1>t DEF TypeOK
  <2> QED BY <2>1, <2>2, UploadTypes DEF TypeOK, Shapes
<1>4. Roles'
  BY <1>1, <1>2 DEF Roles, Uploading
<1>5. Overlapped'
  <2>1. \A k \in Jobs : phase'[k] \in Uploading => phase[k] \in Uploading
    BY <1>1, <1>2 DEF Uploading
  <2> QED BY <2>1, OverlappedKept
<1>6. Covered(gz)' /\ Covered(bucket)'
  <2>1. \A c \in 1..MaxBinlog : bucket'[c] = bucket[c] \/ bucket'[c] = gz[c]
    BY <1>1, <1>u
  <2> QED BY <2>1 DEF Covered, files
<1>7. InHand'
  BY <1>1, <1>2, <1>u, OthersHold DEF Uploading
<1>8. UploadedWhole'
  <2>1. CASE UNCHANGED <<bucket, report>>
    BY <2>1, UploadedKept
  <2>2. CASE ~UNCHANGED <<bucket, report>>
    <3> SUFFICES ASSUME NEW k \in Jobs, NEW c \in 1..MaxBinlog,
                        Kind[k] = "upload", report'[k][c] # None, Alone(c)
                 PROVE  bucket'[c] # None /\ bucket'[c] >= report'[k][c] /\ bucket'[c] > 0
      BY DEF UploadedWhole, Alone
    <3>1. CASE c # b
      BY <3>1, <2>2, <1>u DEF UploadedWhole, Alone
    <3>2. CASE c = b
      <4>1. /\ gz[b] \in Nat /\ gz[b] > 0 /\ measured[j] = gz[b]
            /\ bucket[b] # None => bucket[b] \in Nat /\ gz[b] >= bucket[b]
        BY <3>2, <1>1, Constants DEF InHand, Held, TypeOK
      <4>2. bucket'[b] = gz[b] /\ bucket'[b] # None
        BY <4>1, <2>2, <1>u, Constants
      <4>3. CASE k = j
        BY <3>2, <4>1, <4>2, <4>3, <2>2, <1>u
      <4>4. CASE k # j
        <5>1. report'[k][b] = report[k][b] /\ report[k][b] \in Nat
          BY <3>2, <4>4, <2>2, <1>u, <1>1, Constants DEF TypeOK
        <5>2. bucket[b] # None /\ bucket[b] >= report[k][b]
          BY <3>2, <5>1, <1>1, Constants DEF UploadedWhole, Alone
        <5> QED BY <3>2, <5>1, <5>2, <4>1, <4>2
      <4> QED BY <4>3, <4>4
    <3> QED BY <3>1, <3>2
  <2> QED BY <2>1, <2>2
<1>9. EntriesKept' /\ OnlyEntries'
  <2>1. \A k \in Jobs, c \in 1..MaxBinlog : Kind[k] = "index" => report'[k][c] = report[k][c]
    BY <1>1, <1>u
  <2> QED BY <2>1, EntriesStay
<1> QED BY <1>3, <1>4, <1>5, <1>6, <1>7, <1>8, <1>9

\* Entries of other jobs stay when a job goes on to its next element.
LEMMA EntriesGrow ==
    ASSUME TypeOK, Shapes, NEW j \in Jobs, pos' = [pos EXCEPT ![j] = @ + 1]
    PROVE  \A k \in Jobs, b \in 1..MaxBinlog :
              /\ Entry(k, b) => Entry(k, b)'
              /\ Entry(k, b)' => Entry(k, b) \/ (k = j /\ b = Current(j))
              /\ k = j /\ b = Current(j) => Entry(k, b)'
<1>1. \A k \in Jobs : pos[k] \in Nat /\ pos[k] >= 1 /\ pos'[k] = IF k = j THEN pos[k] + 1 ELSE pos[k]
  <2>1. \A k \in Jobs : pos[k] \in Nat /\ pos[k] >= 1
    BY Elements DEF TypeOK
  <2> QED BY <2>1 DEF Shapes
<1>2. \A k \in Jobs : \A i \in 1..pos[k] - 1 : i \in 1..pos'[k] - 1
  BY <1>1
<1>3. \A k \in Jobs : \A i \in 1..pos'[k] - 1 : i \in 1..pos[k] - 1 \/ (k = j /\ i = pos[j])
  BY <1>1
<1>4. pos[j] \in 1..pos'[j] - 1
  BY <1>1
<1> QED BY <1>2, <1>3, <1>4 DEF Entry, Current

LEMMA RemoveCopyStep ==
    ASSUME IInv, NEW j \in Jobs, RemoveCopy(j) PROVE IInv'
<1> USE DEF IInv, RemoveCopy, Go, Listed
<1> DEFINE b == Current(j)
<1>1. /\ phase[j] = "remove" /\ pos[j] \in 1..Len(List[j]) /\ Kind[j] = "upload"
      /\ b \in 1..MaxBinlog /\ pos[j] <= Len(List[j])
  BY AtElement DEF Roles, Uploading
<1>2. /\ phase'[j] = "upload" /\ \A k \in Jobs \ {j} : phase'[k] = phase[k]
      /\ \A k \in Jobs \ {j} : pos'[k] = pos[k]
      /\ pos'[j] = pos[j] + 1 /\ DOMAIN pos' = Jobs
      /\ gz'[b] = None /\ \A c \in 1..MaxBinlog \ {b} : gz'[c] = gz[c]
  BY <1>1 DEF TypeOK, Shapes
<1>3. TypeOK' /\ Shapes'
  <2>1. gz' \in [1..MaxBinlog -> 0..MaxSize \cup {None}]
    BY <1>1 DEF TypeOK
  <2>2. \A k \in Jobs : pos'[k] \in 1..Len(List[k]) + 1
    BY <1>1, <1>2, Elements DEF TypeOK
  <2> QED BY <2>1, <2>2, <1>2, UploadTypes DEF TypeOK, Shapes
<1>4. Roles'
  BY <1>1, <1>2 DEF Roles, Uploading
<1>5. Overlapped'
  <2>1. \A k \in Jobs : phase'[k] \in Uploading => phase[k] \in Uploading
    BY <1>1, <1>2 DEF Uploading
  <2> QED BY <2>1, OverlappedKept
<1>6. Covered(gz)' /\ Covered(bucket)'
  <2>1. \A c \in 1..MaxBinlog : gz'[c] # None => gz'[c] = gz[c]
    BY <1>2
  <2> QED BY <2>1 DEF Covered, files
<1>7. InHand'
  BY <1>1, <1>2, OthersHold DEF Uploading
<1>8. UploadedWhole'
  BY UploadedKept
<1>9. EntriesKept' /\ OnlyEntries'
  <2>1. \A k \in Jobs, c \in 1..MaxBinlog :
           /\ Entry(k, c) => Entry(k, c)'
           /\ Entry(k, c)' => Entry(k, c) \/ k = j
    BY EntriesGrow DEF Shapes
  <2>2. \A c \in 1..MaxBinlog : TakenOut(c) => TakenOut(c)'
    BY <2>1 DEF TakenOut
  <2> QED BY <2>1, <2>2, <1>1 DEF EntriesKept, OnlyEntries
<1> QED BY <1>3, <1>4, <1>5, <1>6, <1>7, <1>8, <1>9

\* A job ends and takes back what it reported, if anything.
LEMMA EndStep ==
    ASSUME IInv, NEW j \in Jobs, phase' = [phase EXCEPT ![j] = "done"],
           UNCHANGED <<size, indexed, gz, bucket, pos, measured, seen, overlaps>>,
           kills' \in 0..MaxKills,
           report' \in [Jobs -> [1..MaxBinlog -> 0..MaxSize \cup {None}]],
           \A k \in Jobs, b \in 1..MaxBinlog :
              report'[k][b] # None => report'[k][b] = report[k][b]
    PROVE  IInv'
<1> USE DEF IInv
<1>1. phase'[j] = "done" /\ \A k \in Jobs \ {j} : phase'[k] = phase[k]
  BY DEF TypeOK
<1>2. TypeOK' /\ Shapes'
  <2>1. phase' \in [Jobs -> Kinds \cup {"queued", "done", "found", "gzip", "measure",
                                       "send", "remove"}]
    BY DEF TypeOK
  <2> QED BY <2>1 DEF TypeOK, Shapes, files
<1>3. Roles'
  BY <1>1 DEF Roles, Uploading, Kinds
<1>4. Overlapped'
  <2>1. \A k \in Jobs : phase'[k] \in Uploading => phase[k] \in Uploading
    BY <1>1 DEF Uploading
  <2> QED BY <2>1, OverlappedKept
<1>5. Covered(gz)' /\ Covered(bucket)'
  BY CoveredKept
<1>6. InHand'
  <2>1. \A k \in Jobs : phase'[k] \in {"gzip", "measure", "send"} => phase'[k] = phase[k]
    BY <1>1 DEF Kinds
  <2> QED BY <2>1, InHandKept
<1>7. UploadedWhole'
  BY UploadedKept
<1>8. EntriesKept' /\ OnlyEntries'
  BY EntriesStay
<1> QED BY <1>2, <1>3, <1>4, <1>5, <1>6, <1>7, <1>8

LEMMA FinishStep ==
    ASSUME IInv, NEW j \in Jobs, Finish(j) PROVE IInv'
BY EndStep DEF Finish, Go, Uploading, IInv, TypeOK

LEMMA KilledStep ==
    ASSUME IInv, NEW j \in Jobs, WorkerKilled(j) PROVE IInv'
<1> USE DEF WorkerKilled, Go
<1>1. kills' \in 0..MaxKills
  BY Constants DEF IInv, TypeOK
<1>2. report' \in [Jobs -> [1..MaxBinlog -> 0..MaxSize \cup {None}]]
  BY DEF IInv, TypeOK
<1>3. \A k \in Jobs, b \in 1..MaxBinlog : report'[k][b] # None => report'[k][b] = report[k][b]
  BY DEF IInv, TypeOK
<1> QED BY <1>1, <1>2, <1>3, EndStep DEF Uploading

LEMMA StartStep ==
    ASSUME IInv, NEW j \in Jobs, Start(j) PROVE IInv'
<1> USE DEF IInv, Start, Go
<1> DEFINE others == {k \in Jobs \ {j} :
                        /\ Kind[j] = "upload" /\ Kind[k] = "upload"
                        /\ phase[k] \notin {"queued", "done"}
                        /\ ToSet(List[j]) \cap ToSet(List[k]) # {}}
<1>1. /\ phase[j] = "queued" /\ phase'[j] = Kind[j] /\ Kind[j] \in Kinds
      /\ \A k \in Jobs \ {j} : phase'[k] = phase[k]
  BY Elements DEF TypeOK
<1>2. /\ overlaps' = overlaps \cup others \cup (IF others = {} THEN {} ELSE {j})
      /\ overlaps' \subseteq Jobs /\ overlaps \subseteq overlaps'
  BY DEF TypeOK
<1>3. TypeOK' /\ Shapes'
  <2>1. phase' \in [Jobs -> Kinds \cup {"queued", "done", "found", "gzip", "measure",
                                       "send", "remove"}]
    BY Elements DEF TypeOK
  <2> QED BY <2>1, <1>2 DEF TypeOK, Shapes, files
<1>4. Roles'
  BY <1>1 DEF Roles, Uploading, Kinds
<1>5. Overlapped'
  <2> HIDE DEF others
  <2> SUFFICES ASSUME NEW k \in Jobs, NEW l \in Jobs, k # l,
                      phase'[k] \in Uploading, phase'[l] \in Uploading,
                      ToSet(List[k]) \cap ToSet(List[l]) # {}
               PROVE  k \in overlaps'
    BY DEF Overlapped
  <2>1. \A m \in Jobs \ {j} : phase[m] \in Uploading =>
           Kind[m] = "upload" /\ phase[m] \notin {"queued", "done"}
    BY DEF Roles, Uploading
  <2>2. CASE k # j /\ l # j
    BY <2>2, <1>1, <1>2 DEF Overlapped
  <2>3. CASE k = j
    <3>1. l \in others
      BY <2>3, <2>1, <1>1 DEF others, Uploading, Kinds
    <3> QED BY <3>1, <2>3, <1>2
  <2>4. CASE l = j
    <3>1. k \in others
      BY <2>4, <2>1, <1>1 DEF others, Uploading, Kinds
    <3> QED BY <3>1, <1>2
  <2> QED BY <2>2, <2>3, <2>4
<1>6. Covered(gz)' /\ Covered(bucket)'
  BY CoveredKept
<1>7. InHand'
  <2>1. \A k \in Jobs : phase'[k] \in {"gzip", "measure", "send"} => phase'[k] = phase[k]
    BY <1>1 DEF Kinds
  <2> QED BY <2>1, <1>2, InHandKept
<1>8. UploadedWhole'
  BY <1>2, UploadedKept
<1>9. EntriesKept' /\ OnlyEntries'
  BY EntriesStay
<1> QED BY <1>3, <1>4, <1>5, <1>6, <1>7, <1>8, <1>9

LEMMA FindStep ==
    ASSUME IInv, NEW j \in Jobs, Find(j) PROVE IInv'
<1> USE DEF IInv, Find, Go
<1>1. /\ phase[j] = "purge" /\ phase'[j] \in {"done", "found"}
      /\ \A k \in Jobs \ {j} : phase'[k] = phase[k] /\ seen'[k] = seen[k]
      /\ DOMAIN seen' = Jobs /\ seen'[j] = size
  BY DEF TypeOK, Shapes
<1>2. TypeOK' /\ Shapes'
  <2>1. phase' \in [Jobs -> Kinds \cup {"queued", "done", "found", "gzip", "measure",
                                       "send", "remove"}]
    BY DEF TypeOK
  <2> QED BY <2>1, <1>1 DEF TypeOK, Shapes, files
<1>3. Roles'
  BY <1>1 DEF Roles, Uploading, TypeOK, files
<1>4. Overlapped'
  <2>1. \A k \in Jobs : phase'[k] \in Uploading => phase[k] \in Uploading
    BY <1>1 DEF Uploading
  <2> QED BY <2>1, OverlappedKept
<1>5. Covered(gz)' /\ Covered(bucket)'
  BY CoveredKept
<1>6. InHand'
  <2>1. \A k \in Jobs : phase'[k] \in {"gzip", "measure", "send"} => phase'[k] = phase[k]
    BY <1>1
  <2> QED BY <2>1, InHandKept
<1>7. UploadedWhole'
  BY UploadedKept
<1>8. EntriesKept' /\ OnlyEntries'
  BY EntriesStay
<1> QED BY <1>2, <1>3, <1>4, <1>5, <1>6, <1>7, <1>8

\* A purge goes to a binlog that exists, or nothing goes.
LEMMA PurgeTarget ==
    ASSUME IInv, NEW j \in Jobs, PurgeStep(j)
    PROVE  \/ UNCHANGED size
           \/ PurgeBefore(seen[j]) \in Nat /\ PurgeTo(PurgeBefore(seen[j]))
<1>1. files \subseteq Nat
  BY DEF IInv, TypeOK
<1> QED BY <1>1 DEF PurgeStep, PurgeTo

LEMMA PurgeStepStep ==
    ASSUME IInv, NEW j \in Jobs, PurgeStep(j) PROVE IInv'
<1> USE DEF IInv, PurgeStep, Go
<1>1. /\ phase[j] = "found" /\ phase'[j] = "done" /\ Kind[j] = "purge"
      /\ \A k \in Jobs \ {j} : phase'[k] = phase[k] /\ report'[k] = report[k]
  BY DEF TypeOK, Roles
<1>2. FilesMove
  <2>1. CASE UNCHANGED size
    <3>1. \A m \in files : m <= m /\ size[m] <= size[m]
      BY Constants DEF TypeOK
    <3> QED BY <2>1, <3>1 DEF FilesMove, TypeOK, files
  <2> QED BY <2>1, PurgeTarget, PurgeMoves
<1>3. TypeOK' /\ Shapes'
  <2>1. phase' \in [Jobs -> Kinds \cup {"queued", "done", "found", "gzip", "measure",
                                       "send", "remove"}]
    BY DEF TypeOK
  <2>2. report' \in [Jobs -> [1..MaxBinlog -> 0..MaxSize \cup {None}]]
    <3>1. 0 \in 0..MaxSize
      BY Constants
    <3> DEFINE row == [b \in 1..MaxBinlog |-> IF b < PurgeBefore(seen[j]) THEN 0 ELSE None]
    <3>2. row \in [1..MaxBinlog -> 0..MaxSize \cup {None}]
      BY <3>1
    <3>3. report' = [report EXCEPT ![j] = row]
      OBVIOUS
    <3> HIDE DEF row
    <3> QED BY <3>2, <3>3 DEF TypeOK
  <2> QED BY <2>1, <2>2, <1>2 DEF TypeOK, Shapes, FilesMove
<1>4. Roles'
  BY <1>1 DEF Roles, Uploading
<1>5. Overlapped'
  <2>1. \A k \in Jobs : phase'[k] \in Uploading => phase[k] \in Uploading
    BY <1>1 DEF Uploading
  <2> QED BY <2>1, OverlappedKept
<1>6. Covered(gz)' /\ Covered(bucket)'
  BY <1>2, StillCovered
<1>7. InHand'
  <2>1. \A k \in Jobs : phase'[k] \in {"gzip", "measure", "send"} => phase'[k] = phase[k]
    BY <1>1
  <2> QED BY <2>1, InHandKept
<1>8. UploadedWhole'
  <2>1. \A k \in Jobs, b \in 1..MaxBinlog : Kind[k] = "upload" => report'[k][b] = report[k][b]
    BY <1>1
  <2> QED BY <2>1, UploadedKept
<1>9. EntriesKept' /\ OnlyEntries'
  <2>1. \A k \in Jobs, b \in 1..MaxBinlog : Kind[k] = "index" => report'[k][b] = report[k][b]
    BY <1>1
  <2> QED BY <2>1, EntriesStay
<1> QED BY <1>3, <1>4, <1>5, <1>6, <1>7, <1>8, <1>9

\* What the jobs of the index leave alone when they go on.
LEMMA EntryStep ==
    ASSUME IInv, NEW j \in Jobs, phase[j] \in {"index", "unindex"}, pos[j] <= Len(List[j]),
           pos' = [pos EXCEPT ![j] = @ + 1],
           UNCHANGED <<phase, size, gz, bucket, measured, seen, overlaps, kills>>,
           indexed' \subseteq 1..MaxBinlog, UNCHANGED report \/ Done(j)
    PROVE  /\ TypeOK' /\ Shapes' /\ Roles' /\ Overlapped' /\ Covered(gz)' /\ Covered(bucket)'
           /\ InHand' /\ UploadedWhole'
<1> USE DEF IInv
<1>1. /\ Kind[j] = phase[j] /\ DOMAIN pos' = Jobs
      /\ \A k \in Jobs \ {j} : pos'[k] = pos[k]
      /\ pos[j] \in 1..Len(List[j]) /\ pos'[j] = pos[j] + 1
  BY AtElement DEF Roles, Shapes
<1>2. TypeOK' /\ Shapes'
  <2>1. \A k \in Jobs : pos'[k] \in 1..Len(List[k]) + 1
    BY <1>1, Elements DEF TypeOK
  <2>2. report' \in [Jobs -> [1..MaxBinlog -> 0..MaxSize \cup {None}]]
    <3>1. 0 \in 0..MaxSize
      BY Constants
    <3> DEFINE row == [b \in 1..MaxBinlog |-> IF b \in ToSet(List[j]) THEN 0 ELSE None]
    <3>2. row \in [1..MaxBinlog -> 0..MaxSize \cup {None}]
      BY <3>1
    <3>3. report' = [report EXCEPT ![j] = row] \/ UNCHANGED report
      BY DEF Done
    <3> HIDE DEF row
    <3> QED BY <3>2, <3>3 DEF TypeOK
  <2> QED BY <2>1, <2>2, <1>1 DEF TypeOK, Shapes, files
<1>3. Roles'
  BY <1>1 DEF Roles, Uploading
<1>4. Overlapped'
  BY OverlappedKept
<1>5. Covered(gz)' /\ Covered(bucket)'
  BY CoveredKept
<1>6. InHand'
  BY <1>1, InHandKept
<1>7. UploadedWhole'
  <2>1. \A k \in Jobs, b \in 1..MaxBinlog : Kind[k] = "upload" => report'[k][b] = report[k][b]
    BY <1>1 DEF Done, TypeOK
  <2> QED BY <2>1, UploadedKept
<1> QED BY <1>2, <1>3, <1>4, <1>5, <1>6, <1>7

LEMMA AddStep ==
    ASSUME IInv, NEW j \in Jobs, AddToIndex(j) PROVE IInv'
<1> USE DEF IInv, AddToIndex, Listed
<1>1. CASE GiveUp(j) /\ UNCHANGED <<indexed, pos>>
  BY <1>1, EndStep DEF GiveUp, Go, TypeOK
<1>2. CASE ~(GiveUp(j) /\ UNCHANGED <<indexed, pos>>)
  <2>1. /\ phase[j] = "index" /\ Kind[j] = "index" /\ pos[j] \in 1..Len(List[j])
        /\ Current(j) \in 1..MaxBinlog /\ pos[j] <= Len(List[j])
        /\ indexed' = indexed \cup {Current(j)} /\ pos' = [pos EXCEPT ![j] = @ + 1]
        /\ UNCHANGED report \/ (pos[j] = Len(List[j]) /\ Done(j))
        /\ UNCHANGED phase
    BY <1>2, AtElement DEF Entered, Roles
  <2>2. indexed' \subseteq 1..MaxBinlog
    BY <2>1 DEF TypeOK
  <2>3. /\ TypeOK' /\ Shapes' /\ Roles' /\ Overlapped' /\ Covered(gz)' /\ Covered(bucket)'
        /\ InHand' /\ UploadedWhole'
    BY <2>1, <2>2, EntryStep
  <2>4. \A k \in Jobs, b \in 1..MaxBinlog :
           /\ Entry(k, b) => Entry(k, b)'
           /\ Entry(k, b)' => Entry(k, b) \/ (k = j /\ b = Current(j))
    BY <2>1, EntriesGrow
  <2>5. EntriesKept'
    <3>1. \A b \in 1..MaxBinlog : TakenOut(b) => TakenOut(b)'
      BY <2>4 DEF TakenOut
    <3> QED BY <3>1, <2>1, <2>4 DEF EntriesKept
  <2>6. OnlyEntries'
    <3>1. CASE UNCHANGED report
      BY <3>1, <2>4 DEF OnlyEntries
    <3>2. CASE pos[j] = Len(List[j]) /\ Done(j)
      <4>1. \A b \in ToSet(List[j]) : Entry(j, b)'
        <5>1. pos'[j] - 1 = Len(List[j])
          BY <3>2, <2>1, Elements DEF Shapes
        <5> QED BY <5>1, Elements DEF Entry
      <4>2. \A k \in Jobs, b \in 1..MaxBinlog :
               report'[k][b] # None => report'[k][b] = report[k][b] \/ (k = j /\ b \in ToSet(List[j]))
        BY <3>2 DEF Done, TypeOK
      <4> QED BY <4>1, <4>2, <2>4 DEF OnlyEntries
    <3> QED BY <3>1, <3>2, <2>1
  <2> QED BY <2>3, <2>5, <2>6
<1> QED BY <1>1, <1>2

LEMMA RemoveStep ==
    ASSUME IInv, NEW j \in Jobs, RemoveFromIndex(j) PROVE IInv'
<1> USE DEF IInv, RemoveFromIndex, Listed
<1>1. CASE GiveUp(j) /\ UNCHANGED <<indexed, pos>>
  BY <1>1, EndStep DEF GiveUp, Go, TypeOK
<1>2. CASE ~(GiveUp(j) /\ UNCHANGED <<indexed, pos>>)
  <2>1. /\ phase[j] = "unindex" /\ Kind[j] = "unindex" /\ pos[j] \in 1..Len(List[j])
        /\ Current(j) \in 1..MaxBinlog /\ pos[j] <= Len(List[j])
        /\ indexed' = indexed \ {Current(j)} /\ pos' = [pos EXCEPT ![j] = @ + 1]
        /\ UNCHANGED report \/ Done(j)
        /\ UNCHANGED phase
    BY <1>2, AtElement DEF Entered, Roles
  <2>2. indexed' \subseteq 1..MaxBinlog
    BY <2>1 DEF TypeOK
  <2>3. /\ TypeOK' /\ Shapes' /\ Roles' /\ Overlapped' /\ Covered(gz)' /\ Covered(bucket)'
        /\ InHand' /\ UploadedWhole'
    BY <2>1, <2>2, EntryStep
  <2>4. \A k \in Jobs, b \in 1..MaxBinlog :
           /\ Entry(k, b) => Entry(k, b)'
           /\ Entry(k, b)' => Entry(k, b) \/ k = j
           /\ k = j /\ b = Current(j) => Entry(k, b)'
    BY <2>1, EntriesGrow
  <2>5. EntriesKept'
    <3>1. \A b \in 1..MaxBinlog : TakenOut(b) \/ b = Current(j) => TakenOut(b)'
      BY <2>1, <2>4 DEF TakenOut
    <3>2. \A k \in Jobs, b \in 1..MaxBinlog : Kind[k] = "index" /\ Entry(k, b)' => Entry(k, b)
      BY <2>1, <2>4
    <3> QED BY <3>1, <3>2, <2>1 DEF EntriesKept
  <2>6. OnlyEntries'
    <3>1. \A k \in Jobs, b \in 1..MaxBinlog : Kind[k] = "index" => report'[k][b] = report[k][b]
      BY <2>1 DEF Done, TypeOK
    <3> QED BY <3>1, <2>4 DEF OnlyEntries
  <2> QED BY <2>3, <2>5, <2>6
<1> QED BY <1>1, <1>2

LEMMA StepInvariant == IInv /\ [Next]_vars => IInv'
<1> SUFFICES ASSUME IInv, [Next]_vars PROVE IInv'
  OBVIOUS
<1>1. ASSUME NEW j \in Jobs, Step(j) PROVE IInv'
  BY <1>1, StartStep, FindStep, PurgeStepStep, GzipStep, GzipEndsStep, MeasureStep, SendStep,
     RemoveCopyStep, AddStep, RemoveStep, FinishStep DEF Step
<1>2. CASE UNCHANGED vars
  <2>1. \A m \in files : m <= m /\ size[m] <= size[m]
    BY Constants DEF IInv, TypeOK
  <2>2. FilesMove
    BY <1>2, <2>1 DEF IInv, TypeOK, FilesMove, files, vars
  <2> QED BY <1>2, <2>2, FilesChange DEF vars
<1> QED BY <1>1, <1>2, KilledStep, MariaDBSteps DEF Next

LEMMA Invariant == Spec => []IInv
BY InitInvariant, StepInvariant, PTL DEF Spec

-----------------------------------------------------------------------------
\* What the jobs report holds, whatever they overlap with and wherever they are
\* killed: uploads that share no binlog are whole in the object storage and
\* what an index job says it has indexed is in the index.
THEOREM ReportsAreTrue == Spec => []ReportsHold
<1>1. ASSUME IInv PROVE ReportedIndexed
  <2> SUFFICES ASSUME NEW j \in Jobs, NEW b \in 1..MaxBinlog,
                      Kind[j] = "index", report[j][b] # None, b \notin indexed
               PROVE  \E k \in Jobs : Kind[k] = "unindex" /\ b \in ToSet(SubSeq(List[k], 1, pos[k] - 1))
    BY DEF ReportedIndexed
  <2>1. PICK k \in Jobs : Kind[k] = "unindex" /\ Entry(k, b)
    BY <1>1 DEF IInv, EntriesKept, OnlyEntries, TakenOut
  <2>2. PICK i \in 1..pos[k] - 1 : List[k][i] = b
    BY <2>1 DEF Entry
  <2>3. pos[k] \in 1..Len(List[k]) + 1 /\ Len(List[k]) \in Nat /\ List[k] \in Seq(1..MaxBinlog)
    BY <1>1, Elements DEF IInv, TypeOK
  <2>4. /\ DOMAIN SubSeq(List[k], 1, pos[k] - 1) = 1..pos[k] - 1
        /\ SubSeq(List[k], 1, pos[k] - 1)[i] = List[k][i]
    BY <2>2, <2>3
  <2>5. b \in ToSet(SubSeq(List[k], 1, pos[k] - 1))
    BY <2>2, <2>4 DEF ToSet
  <2> QED BY <2>1, <2>5
<1>2. IInv => ReportsHold
  BY <1>1 DEF IInv, ReportsHold
<1> QED BY <1>2, Invariant, PTL

\* A purge by size never takes the binlog that is or was written, nor one that
\* the limit does not ask for, although it acts on an old look at the files.
THEOREM PurgesAreBounded == Spec => PurgesOnlyWhatItMust
<1>1. ASSUME IInv, [Next]_vars, NEW j \in Jobs, phase[j] = "found", phase'[j] = "done",
             files \ files' # {}
      PROVE  LET gone   == files \ files'
                 saw    == DOMAIN seen[j]
                 behind == {b \in saw \ NewestTwo(saw) : b >= Max(gone)}
             IN  /\ \A b \in gone : Cardinality({c \in saw : c > b}) >= 2
                 /\ Max(files) \notin gone
                 /\ ~Fits(seen[j], behind)
  <2> USE <1>1
  <2> DEFINE to == PurgeBefore(seen[j])
  <2>1. PurgeStep(j)
    <3>1. ~UNCHANGED size
      BY DEF files
    <3>2. phase' # phase
      OBVIOUS
    <3>3. PICK k \in Jobs : Step(k)
      BY <3>1, <3>2 DEF Next, vars, jobVars, PurgeRoute, Write, Rotate, WorkerKilled
    <3>4. PurgeStep(k)
      BY <3>1, <3>3 DEF Step, Start, Find, Gzip, GzipEnds, Measure, Send, RemoveCopy, AddToIndex,
         RemoveFromIndex, Finish
    <3> QED BY <3>4 DEF PurgeStep, Go, IInv, TypeOK
  <2>2. to \in Nat /\ PurgeTo(to)
    BY <2>1, PurgeTarget DEF files
  <2>3. /\ files' \subseteq files /\ \A m \in files : m >= to => m \in files'
        /\ \A m \in files : \E n \in files' : m <= n
    BY <2>2, PurgeKeeps DEF IInv
  <2>4. files \subseteq Nat /\ files \subseteq 1..MaxBinlog
    BY DEF IInv, TypeOK
  <2>5. \A b \in files \ files' : b < to
    BY <2>2, <2>3, <2>4
  <2>6. DOMAIN seen[j] \subseteq 1..MaxBinlog
    BY DEF IInv, Roles
  <2>7. Max(files) \notin files \ files'
    BY <2>3, <2>4, NextOne
  <2>8. files \ files' \subseteq 1..MaxBinlog
    BY <2>4
  <2> QED BY <2>2, <2>5, <2>6, <2>7, <2>8, PurgeIsBounded
<1>2. IInv /\ [Next]_vars => [\A j \in Jobs : phase[j] = "found" /\ phase'[j] = "done" =>
          LET gone   == files \ files'
              saw    == DOMAIN seen[j]
              behind == {b \in saw \ NewestTwo(saw) : b >= Max(gone)}
          IN  gone # {} =>
                /\ \A b \in gone : Cardinality({c \in saw : c > b}) >= 2
                /\ Max(files) \notin gone
                /\ ~Fits(seen[j], behind)]_vars
  BY <1>1
<1> QED BY <1>2, Invariant, PTL DEF Spec, PurgesOnlyWhatItMust
=============================================================================
