------------------------------ MODULE SiteProofs ------------------------------
(***************************************************************************)
(* Proofs about a site: about its configuration file, for any number of    *)
(* jobs of each kind that update it and any number of failures; and about  *)
(* its moves between benches, for any benches, tables, migrations, jobs of *)
(* other sites, and any number of updates, writes and faults.              *)
(***************************************************************************)
EXTENDS ConfigFile, SiteUpdate, SequenceTheorems, WellFoundedInduction, TLAPS

(***************************************************************************)
(* The configuration file: its inductive invariant.                        *)
(***************************************************************************)

Updating == {"read", "rename", "copy", "writing", "copied"}

\* Whoever is between get_config(for_update=True) and the release, and nobody
\* else, holds the lock.
Locking == \A p \in Jobs : at[p] \in Updating <=> holder = p

\* A name leads to the inode of a job only when the job has opened its copy.
Opened ==
    \A p \in Jobs : config = p \/ bak = p => at[p] \in {"writing", "copied"} \cup Ended

\* A copy that could be restored from, and a dictionary that may replace it.
Complete(i) == i # Nothing /\ i \notin torn /\ Done(Setters) \subseteq data[i].keys
Carries(p, dict) ==
    Done(Setters) \subseteq dict.keys /\ (p \in Setters => p \in dict.keys)

\* What the holder of the lock can rely on at each place of set_config.
Progress ==
    \A p \in Jobs :
        /\ at[p] = "rename" => Complete(config) /\ Carries(p, new[p])
        /\ at[p] = "copy" => config = Nothing /\ Complete(bak) /\ Carries(p, new[p])
        /\ at[p] = "writing" =>
              config = p /\ p \in torn /\ bak # p /\ Complete(bak) /\ Carries(p, new[p])
        /\ at[p] = "copied" =>
              config = p /\ Complete(p) /\ Complete(bak) /\ Carries(p, data[p])

\* The file is complete but while it is replaced or after a death.
Between ==
    \/ Readable
    \/ \E p \in Jobs : at[p] \in {"copy", "writing", "dead"}

FileInv ==
    /\ FileTypeOK
    /\ Locking
    /\ Opened
    /\ Progress
    /\ Between
    /\ NoUpdateLost
    /\ Recoverable

\* Every job has an inode of its own, and Nothing is none of them.
LEMMA InodeNames ==
    /\ \A p \in Jobs : p # Nothing /\ p # Original /\ p \in Inodes
    /\ Original \in Inodes /\ Original # Nothing
BY FileAssumption DEF Inodes

LEMMA FileInitInvariant == FileInit => FileInv
<1> SUFFICES ASSUME FileInit PROVE FileInv
  OBVIOUS
<1> USE InodeNames DEF FileInit
<1>1. Initial \in Contents
  BY DEF Initial, Contents, Jobs
<1>2. FileTypeOK
  BY <1>1, FileAssumption DEF FileTypeOK, Places
<1>3. Locking /\ Opened /\ Progress
  BY DEF Locking, Opened, Progress, Updating
<1>4. Between /\ NoUpdateLost /\ Recoverable
  BY DEF Between, Readable, NoUpdateLost, Recoverable, Done, Jobs
<1> QED BY <1>2, <1>3, <1>4 DEF FileInv

LEMMA FileStepInvariant == FileInv /\ [FileNext]_configVars => FileInv'
<1> SUFFICES ASSUME FileInv, [FileNext]_configVars PROVE FileInv'
  OBVIOUS
<1> USE InodeNames
<1>1. ASSUME NEW p \in Jobs, ReadDomains(p) PROVE FileInv'
  <2> USE <1>1 DEF FileInv, ReadDomains, Goto, inodeVars
  <2>0. Done(Setters)' = Done(Setters)
    BY DEF FileTypeOK, Done, Jobs
  <2>d. data[config].domains \subseteq Adders \cup Removers \/ ~Readable
    BY DEF FileTypeOK, Readable, Contents
  <2>e. domains' \in [Jobs -> SUBSET (Adders \cup Removers)]
    <3>1. CASE Readable
      <4> DEFINE read == IF p \in Adders THEN data[config].domains \cup {p}
                         ELSE data[config].domains \ {p}
      <4>1. read \subseteq Adders \cup Removers
        BY <2>d, <3>1
      <4>2. domains' = [domains EXCEPT ![p] = read]
        BY <3>1
      <4> QED BY <4>1, <4>2 DEF FileTypeOK
    <3>2. CASE ~Readable
      BY <3>2 DEF FileTypeOK
    <3> QED BY <3>1, <3>2
  <2>1. FileTypeOK'
    BY <2>e DEF FileTypeOK, Places
  <2>2. Locking' /\ Opened'
    BY DEF FileTypeOK, Locking, Opened, Updating, Ended
  <2>3. Progress'
    BY <2>0 DEF FileTypeOK, Progress, Complete, Carries
  <2>4. Between' /\ NoUpdateLost' /\ Recoverable'
    BY <2>0 DEF FileTypeOK, Between, Readable, NoUpdateLost, Recoverable
  <2> QED BY <2>1, <2>2, <2>3, <2>4
<1>2. ASSUME NEW p \in Jobs, Acquire(p) PROVE FileInv'
  <2> USE <1>2 DEF FileInv, Acquire, Goto, inodeVars
  <2>0. Done(Setters)' = Done(Setters)
    BY DEF FileTypeOK, Done, Jobs
  <2>1. FileTypeOK'
    BY DEF FileTypeOK, Places
  <2>2. Locking' /\ Opened'
    BY DEF FileTypeOK, Locking, Opened, Updating, Ended
  <2>3. Progress'
    BY <2>0 DEF FileTypeOK, Progress, Complete, Carries
  <2>4. Between' /\ NoUpdateLost' /\ Recoverable'
    BY <2>0 DEF FileTypeOK, Between, Readable, NoUpdateLost, Recoverable
  <2> QED BY <2>1, <2>2, <2>3, <2>4
<1>3. ASSUME NEW p \in Jobs, ReadForUpdate(p) PROVE FileInv'
  <2> USE <1>3 DEF FileInv, ReadForUpdate, Goto, Unlock, inodeVars
  <2>0. Done(Setters)' = Done(Setters)
    BY DEF FileTypeOK, Done, Jobs
  <2>u. \/ /\ Updated(p, data[config]) \in Contents
           /\ p \in Setters => p \in Updated(p, data[config]).keys
           /\ data[config].keys \subseteq Updated(p, data[config]).keys
        \/ config \notin Inodes
    BY DEF FileTypeOK, Contents, Updated
  <2>1. FileTypeOK'
    BY <2>u DEF FileTypeOK, Places, Readable
  <2>2. Locking' /\ Opened'
    BY DEF FileTypeOK, Locking, Opened, Updating, Ended
  <2>3. Progress'
    BY <2>0, <2>u
       DEF FileTypeOK, Progress, Complete, Carries, Locking, Updating, NoUpdateLost, Readable
  <2>4. Between' /\ NoUpdateLost' /\ Recoverable'
    BY <2>0 DEF FileTypeOK, Between, Readable, NoUpdateLost, Recoverable
  <2> QED BY <2>1, <2>2, <2>3, <2>4
<1>4. ASSUME NEW p \in Jobs, RenameToBak(p) PROVE FileInv'
  <2> USE <1>4 DEF FileInv, RenameToBak, Goto, Unlock
  <2>0. Done(Setters)' = Done(Setters)
    BY DEF FileTypeOK, Done, Jobs
  <2>1. FileTypeOK'
    BY DEF FileTypeOK, Places
  <2>2. Locking' /\ Opened'
    BY DEF FileTypeOK, Locking, Opened, Updating, Ended
  <2>3. Progress'
    BY <2>0 DEF FileTypeOK, Progress, Complete, Carries, Locking, Updating
  <2>4. Between' /\ NoUpdateLost' /\ Recoverable'
    BY <2>0 DEF FileTypeOK, Between, Readable, NoUpdateLost, Recoverable, Progress, Complete
  <2> QED BY <2>1, <2>2, <2>3, <2>4
<1>5. ASSUME NEW p \in Jobs, OpenCopy(p) PROVE FileInv'
  <2> USE <1>5 DEF FileInv, OpenCopy, Goto
  <2>0. Done(Setters)' = Done(Setters)
    BY DEF FileTypeOK, Done, Jobs
  <2>1. FileTypeOK'
    BY DEF FileTypeOK, Places
  <2>2. Locking' /\ Opened'
    BY DEF FileTypeOK, Locking, Opened, Updating, Ended
  <2>3. Progress'
    BY <2>0 DEF FileTypeOK, Progress, Complete, Carries, Locking, Updating, Opened, Ended
  <2>4. Between' /\ NoUpdateLost' /\ Recoverable'
    BY <2>0 DEF FileTypeOK, Between, Readable, NoUpdateLost, Recoverable, Progress, Complete,
       Opened, Ended
  <2> QED BY <2>1, <2>2, <2>3, <2>4
<1>6. ASSUME NEW p \in Jobs, WriteCopy(p) PROVE FileInv'
  <2> USE <1>6 DEF FileInv, WriteCopy, Goto
  <2>0. Done(Setters)' = Done(Setters)
    BY DEF FileTypeOK, Done, Jobs
  <2>1. FileTypeOK'
    BY DEF FileTypeOK, Places
  <2>2. Locking' /\ Opened'
    BY DEF FileTypeOK, Locking, Opened, Updating, Ended
  <2>3. Progress'
    BY <2>0 DEF FileTypeOK, Progress, Complete, Carries, Locking, Updating
  <2>4. Between' /\ NoUpdateLost' /\ Recoverable'
    BY <2>0 DEF FileTypeOK, Between, Readable, NoUpdateLost, Recoverable, Progress, Complete,
       Carries
  <2> QED BY <2>1, <2>2, <2>3, <2>4
<1>7. ASSUME NEW p \in Jobs, CopyFails(p) PROVE FileInv'
  <2> USE <1>7 DEF FileInv, CopyFails, FileFault, Goto, Unlock
  <2>0. Done(Setters)' = Done(Setters)
    BY DEF FileTypeOK, Done, Jobs
  <2>b. Complete(bak)
    BY DEF Progress, Complete
  <2>1. FileTypeOK'
    BY FileAssumption DEF FileTypeOK, Places
  <2>2. Locking' /\ Opened'
    BY DEF FileTypeOK, Locking, Opened, Updating, Ended
  <2>3. Progress'
    BY <2>0 DEF FileTypeOK, Progress, Complete, Carries, Locking, Updating
  <2>4. Between' /\ NoUpdateLost' /\ Recoverable'
    BY <2>0, <2>b DEF FileTypeOK, Between, Readable, NoUpdateLost, Recoverable, Complete
  <2> QED BY <2>1, <2>2, <2>3, <2>4
<1>8. ASSUME NEW p \in Jobs, ReleaseLock(p) PROVE FileInv'
  <2> USE <1>8 DEF FileInv, ReleaseLock, Goto, Unlock, inodeVars
  <2>0. Done(Setters)' = Done(Setters) \cup (IF p \in Setters THEN {p} ELSE {})
    BY DEF FileTypeOK, Done, Jobs
  <2>1. FileTypeOK'
    BY DEF FileTypeOK, Places
  <2>2. Locking' /\ Opened'
    BY DEF FileTypeOK, Locking, Opened, Updating, Ended
  <2>3. Progress'
    BY DEF FileTypeOK, Progress, Locking, Updating
  <2>4. Between' /\ NoUpdateLost' /\ Recoverable'
    BY <2>0 DEF FileTypeOK, Between, Readable, NoUpdateLost, Recoverable, Progress, Complete,
       Carries
  <2> QED BY <2>1, <2>2, <2>3, <2>4
<1>9. ASSUME NEW p \in Jobs, Die(p) PROVE FileInv'
  <2> USE <1>9 DEF FileInv, Die, FileFault, Goto, Unlock, inodeVars
  <2>0. Done(Setters)' = Done(Setters)
    BY DEF FileTypeOK, Done, Jobs, Ended
  <2>1. FileTypeOK'
    BY FileAssumption DEF FileTypeOK, Places
  <2>2. Locking' /\ Opened'
    BY DEF FileTypeOK, Locking, Opened, Updating, Ended
  <2>3. Progress'
    BY <2>0 DEF FileTypeOK, Progress, Complete, Carries
  <2>4. Between' /\ NoUpdateLost' /\ Recoverable'
    BY <2>0 DEF FileTypeOK, Between, Readable, NoUpdateLost, Recoverable
  <2> QED BY <2>1, <2>2, <2>3, <2>4
<1>10. CASE UNCHANGED configVars
  BY <1>10
     DEF FileInv, configVars, inodeVars, FileTypeOK, Locking, Opened, Progress, Complete,
         Carries, Between, Readable, NoUpdateLost, Recoverable, Done
<1> QED
  BY <1>1, <1>2, <1>3, <1>4, <1>5, <1>6, <1>7, <1>8, <1>9, <1>10 DEF FileNext, FileStep

LEMMA FileInvariant == FileSpec => []FileInv
BY FileInitInvariant, FileStepInvariant, PTL DEF FileSpec

-----------------------------------------------------------------------------
\* No update that has finished is lost, however many jobs update the file at
\* the same time and whatever failed before: set_config under the lock.
THEOREM UpdatesAreKept == FileSpec => []NoUpdateLost
<1>1. FileInv => NoUpdateLost
  BY DEF FileInv
<1> QED BY <1>1, FileInvariant, PTL

\* A complete copy with every finished update survives every failure, and the
\* file itself is complete whenever the lock is free and no worker was killed.
THEOREM FileSurvives == FileSpec => []FileIsSound
<1>1. ASSUME FileInv PROVE CompleteWhenUnlocked
  <2> SUFFICES ASSUME holder = Nothing PROVE Readable \/ \E p \in Jobs : at[p] = "dead"
    BY DEF CompleteWhenUnlocked
  <2> QED BY <1>1, InodeNames DEF FileInv, Between, Locking, Updating
<1>2. FileInv => FileIsSound
  BY <1>1 DEF FileInv, FileIsSound
<1> QED BY <1>2, FileInvariant, PTL

(***************************************************************************)
(* Updates of the site: versions.                                          *)
(***************************************************************************)

\* A set of numbers has a least one.
LEMMA Least ==
    ASSUME NEW S, S \subseteq Nat, S # {}
    PROVE  \E m \in S : \A n \in S : m <= n
<1> DEFINE R == {ss \in Nat \X Nat : ss[1] < ss[2]}
<1>1. IsWellFoundedOn(R, Nat)
  BY NatLessThanWellFounded DEF OpToRel
<1>2. \A x, y \in Nat : <<x, y>> \in R <=> x < y
  OBVIOUS
<1> HIDE DEF R
<1>3. PICK m \in S : \A n \in S : ~ (<<n, m>> \in R)
  BY <1>1, WFMin
<1>4. \A n \in S : ~ (n < m)
  BY <1>2, <1>3
<1> QED BY <1>4

\* One that is bounded has a greatest one.
LEMMA Greatest ==
    ASSUME NEW S, S \subseteq Nat, S # {}, NEW b \in Nat, \A n \in S : n <= b
    PROVE  /\ Max(S) \in S
           /\ \A n \in S : n <= Max(S)
<1> DEFINE Bounds == {c \in Nat : \A n \in S : n <= c}
<1>1. PICK m \in Bounds : \A n \in Bounds : m <= n
  <2>1. b \in Bounds /\ Bounds \subseteq Nat
    OBVIOUS
  <2> HIDE DEF Bounds
  <2> QED BY <2>1, Least
<1>2. m \in S
  <2> SUFFICES ASSUME m \notin S PROVE FALSE
    OBVIOUS
  <2>1. m # 0
    <3>1. PICK n \in S : n <= m
      BY <1>1
    <3> QED BY <3>1
  <2>2. m - 1 \in Nat /\ \A n \in S : n <= m - 1
    BY <1>1, <2>1
  <2> QED BY <1>1, <2>2
<1>3. \E x \in S : \A y \in S : x >= y
  BY <1>1, <1>2
<1> QED BY <1>3 DEF Max

\* The code of the next bench expects its own version of what its migration
\* changes, and of every other table the version before.
LEMMA Versions ==
    ASSUME NEW a \in Benches, NEW t \in Tables
    PROVE  /\ VersionAt(a, t) \in 0..a
           /\ a + 1 \in Benches =>
                VersionAt(a + 1, t) = IF t \in Changes[a + 1] THEN a + 1 ELSE VersionAt(a, t)
<1> DEFINE Seen(b) == {0} \cup {c \in 1..b : t \in Changes[c]}
<1>1. a \in Nat /\ a >= 1 /\ Seen(a) \subseteq 0..a
  BY UpdateAssumption DEF Benches
<1>2. VersionAt(a, t) = Max(Seen(a)) /\ VersionAt(a + 1, t) = Max(Seen(a + 1))
  BY DEF VersionAt
<1>3. Max(Seen(a)) \in Seen(a) /\ \A n \in Seen(a) : n <= Max(Seen(a))
  <2>1. Seen(a) \subseteq Nat /\ Seen(a) # {} /\ \A n \in Seen(a) : n <= a
    BY <1>1
  <2> HIDE DEF Seen
  <2> QED BY <1>1, <2>1, Greatest
<1>4. Max(Seen(a + 1)) \in Seen(a + 1) /\ \A n \in Seen(a + 1) : n <= Max(Seen(a + 1))
  <2>1. Seen(a + 1) \subseteq Nat /\ Seen(a + 1) # {} /\ \A n \in Seen(a + 1) : n <= a + 1
    BY <1>1
  <2>2. a + 1 \in Nat
    BY <1>1
  <2> HIDE DEF Seen
  <2> QED BY <2>1, <2>2, Greatest
<1>5. \A c \in Nat : c \in Seen(a + 1) <=> (c \in Seen(a) \/ (c = a + 1 /\ t \in Changes[a + 1]))
  BY <1>1
<1>6. Seen(a) \subseteq Nat /\ Seen(a + 1) \subseteq Nat
  BY <1>1
<1>7. Max(Seen(a)) \in 0..a
  BY <1>1, <1>3
<1> HIDE DEF Seen
<1>8. CASE t \in Changes[a + 1]
  <2>1. a + 1 \in Seen(a + 1) /\ a + 1 \in Nat
    BY <1>1, <1>5, <1>8
  <2>2. a + 1 <= Max(Seen(a + 1)) /\ Max(Seen(a + 1)) \in Nat
    BY <1>4, <1>6, <2>1
  <2>3. Max(Seen(a + 1)) = a + 1
    BY <1>1, <1>3, <1>4, <1>5, <1>6, <1>7, <2>2
  <2> QED BY <1>2, <1>7, <1>8, <2>3
<1>9. CASE t \notin Changes[a + 1]
  <2>1. Seen(a + 1) = Seen(a)
    BY <1>5, <1>6, <1>9
  <2> QED BY <1>2, <1>7, <1>9, <2>1
<1> QED BY <1>8, <1>9

(***************************************************************************)
(* Plans.                                                                  *)
(***************************************************************************)

Names ==
    {"open", "maintain", "wait", "clear", "list", "dump", "move", "read", "render", "write",
     "reload", "setUp", "alter", "choose", "chooseAll", "restore", "drop", "activate", "index"}
Steps == Names \X Benches

\* What is left of a plan from its i-th step.
From(s, i) == SubSeq(s, i, Len(s))

\* A job goes through its plan step by step.
LEMMA Rest ==
    ASSUME NEW s \in Seq(Steps), NEW i \in 1..Len(s)
    PROVE  /\ From(s, i) \in Seq(Steps) /\ From(s, i) # <<>>
           /\ Head(From(s, i)) = s[i]
           /\ Tail(From(s, i)) = IF i = Len(s) THEN <<>> ELSE From(s, i + 1)
<1>1. Len(s) \in Nat /\ Len(s) \in i..Len(s) /\ s[i] \in Steps
  BY LenProperties, ElementOfSeq
<1>2. \A k \in i..Len(s) : s[k] \in Steps
  BY <1>1, ElementOfSeq
<1>3. From(s, i) \in Seq(Steps) /\ Len(From(s, i)) = Len(s) - i + 1
  BY <1>1, <1>2, SubSeqProperties DEF From
<1>4. /\ Head(From(s, i)) = s[i]
      /\ Tail(From(s, i)) = From(s, i + 1)
  BY <1>1, HeadTailOfSubSeq DEF From
<1>5. i = Len(s) => From(s, i + 1) = <<>>
  BY <1>1, SubSeqEmpty DEF From
<1>6. From(s, i) # <<>>
  BY <1>1, <1>3, EmptySeq
<1> QED BY <1>3, <1>4, <1>5, <1>6

InNginx    == {"read", "render", "write", "reload"}
BeforeMove == {"open", "maintain", "wait", "clear", "list", "dump", "move"}
AfterMove  == InNginx \cup {"setUp", "alter", "choose", "restore", "drop", "activate", "index"}
MoveBack   == {"recoverMigrate", "recoverPull"}
Stays      == {"recover", "restoreTables"}
WithDumps(o) == o.kind = "migrate" /\ ~o.skipBackups
Restores(o)  == o.kind = "recoverMigrate" /\ ~o.skipBackups

\* What the invariant needs to know of the jobs: which have a step and for
\* which bench, with which steps they end, and what follows a step.
StepOf(o, x) ==
    /\ x \in Steps
    /\ x[1] \in {"maintain", "wait"} => o.kind \in Updates
    /\ x[1] \in {"clear", "list", "dump"} => WithDumps(o)
    /\ x[1] \in {"move"} \cup InNginx => o.kind \notin Stays
    /\ x[1] \in {"setUp", "alter", "index"} => o.kind = "migrate"
    /\ x[1] \in {"choose", "drop"} => Restores(o)
    /\ x[1] = "restore" => Restores(o) \/ o.kind = "restoreTables"
    /\ x[1] = "chooseAll" => o.kind = "restoreTables"
    /\ x[1] = "open" => x[2] = IF o.kind \in Stays THEN o.target ELSE o.source
    /\ x[1] \in InNginx => x[2] \in {o.source, o.target}
    /\ x[1] \in ({"move"} \cup AfterMove) \ InNginx => x[2] = o.target

Ends(o, x) == x[1] = IF o.kind = "migrate" THEN "index" ELSE "activate"

AfterReload(o, y) ==
    \/ y = <<"reload", o.target>>
    \/ o.kind = "migrate" /\ y[1] = "setUp"
    \/ Restores(o) /\ y[1] = "choose"
    \/ o.kind # "migrate" /\ ~Restores(o) /\ y[1] = "activate"

Follows(o, x, y) ==
    /\ x[1] = "open" => \/ o.kind \in Updates /\ y[1] = "maintain"
                        \/ o.kind \in MoveBack /\ y[1] = "move"
                        \/ o.kind = "restoreTables" /\ y[1] = "chooseAll"
                        \/ o.kind = "recover" /\ y[1] = "activate"
    /\ x[1] = "maintain" => y[1] = "wait"
    /\ x[1] = "wait" => y[1] = IF WithDumps(o) THEN "clear" ELSE "move"
    /\ x[1] = "clear" => y[1] = "list"
    /\ x[1] = "list" => y[1] = "dump"
    /\ x[1] = "dump" => y[1] = "move"
    /\ x[1] = "move" => y = <<"read", o.source>>
    /\ x[1] = "read" => y = <<"render", x[2]>>
    /\ x[1] = "render" => y = <<"write", x[2]>>
    /\ x[1] = "write" => y = <<"reload", x[2]>>
    /\ x = <<"reload", o.source>> => y = <<"read", o.target>>
    /\ x = <<"reload", o.target>> => AfterReload(o, y)
    /\ x[1] = "setUp" => y[1] = "alter"
    /\ x[1] = "alter" => y[1] = "activate"
    /\ x[1] \in {"choose", "chooseAll"} => y[1] = "restore"
    /\ x[1] = "restore" => y[1] = IF o.kind = "recoverMigrate" THEN "drop" ELSE "activate"
    /\ x[1] = "drop" => y[1] = "activate"
    /\ x[1] = "activate" => y[1] = "index"
    /\ x[1] # "index"

\* A stretch of a job's plan from step x to step y.
Chain(o, s, x, y) ==
    /\ s \in Seq(Steps) /\ Len(s) >= 1
    /\ s[1] = x /\ s[Len(s)] = y
    /\ \A i \in 1..Len(s) : StepOf(o, s[i])
    /\ \A i \in 1..Len(s) : i < Len(s) => Follows(o, s[i], s[i + 1])

\* Two stretches of which the second may follow the first make one.
LEMMA Join ==
    ASSUME NEW o, NEW s, NEW t, NEW x, NEW y, NEW u, NEW v,
           Chain(o, s, x, y), Chain(o, t, u, v), Follows(o, y, u)
    PROVE  Chain(o, s \o t, x, v)
<1> DEFINE st == s \o t
<1>1. s \in Seq(Steps) /\ t \in Seq(Steps) /\ Len(s) \in Nat /\ Len(t) \in Nat
      /\ Len(s) >= 1 /\ Len(t) >= 1
  BY LenProperties DEF Chain
<1>2. /\ st \in Seq(Steps) /\ Len(st) = Len(s) + Len(t)
      /\ \A i \in 1..Len(s) + Len(t) : st[i] = IF i <= Len(s) THEN s[i] ELSE t[i - Len(s)]
  BY <1>1, ConcatProperties
<1> HIDE DEF st
<1>3. st[1] = x /\ st[Len(st)] = v
  BY <1>1, <1>2 DEF Chain
<1>4. ASSUME NEW i \in 1..Len(st) PROVE StepOf(o, st[i])
  <2>1. CASE i <= Len(s)
    <3>1. i \in 1..Len(s) /\ st[i] = s[i]
      BY <1>1, <1>2, <2>1
    <3> QED BY <3>1 DEF Chain
  <2>2. CASE ~ (i <= Len(s))
    <3>1. i - Len(s) \in 1..Len(t) /\ st[i] = t[i - Len(s)]
      BY <1>1, <1>2, <2>2
    <3> QED BY <3>1 DEF Chain
  <2> QED BY <2>1, <2>2
<1>5. ASSUME NEW i \in 1..Len(st), i < Len(st) PROVE Follows(o, st[i], st[i + 1])
  <2>1. CASE i < Len(s)
    <3>1. i \in 1..Len(s) /\ st[i] = s[i] /\ st[i + 1] = s[i + 1]
      BY <1>1, <1>2, <2>1
    <3> QED BY <2>1, <3>1 DEF Chain
  <2>2. CASE i = Len(s)
    <3>1. st[i] = y /\ st[i + 1] = u
      <4>1. (i + 1) - Len(s) = 1 /\ i + 1 \in 1..Len(s) + Len(t) /\ ~ (i + 1 <= Len(s))
        BY <1>1, <2>2
      <4>2. st[i + 1] = t[1] /\ st[i] = s[i]
        BY <1>1, <1>2, <2>2, <4>1
      <4> QED BY <2>2, <4>2 DEF Chain
    <3> QED BY <3>1
  <2>3. CASE i > Len(s)
    <3> DEFINE k == i - Len(s)
    <3>1. k \in 1..Len(t) /\ k < Len(t) /\ st[i] = t[k]
      BY <1>1, <1>2, <1>5, <2>3
    <3>2. (i + 1) - Len(s) = k + 1 /\ i + 1 \in 1..Len(s) + Len(t) /\ ~ (i + 1 <= Len(s))
      BY <1>1, <1>2, <1>5, <2>3
    <3>3. st[i + 1] = t[k + 1]
      BY <1>2, <3>2
    <3> HIDE DEF k
    <3> QED BY <3>1, <3>3 DEF Chain
  <2> QED BY <1>1, <1>2, <2>1, <2>2, <2>3
<1> QED BY <1>1, <1>2, <1>3, <1>4, <1>5 DEF Chain, st

\* A plan is built from stretches of one to four steps.
LEMMA One ==
    ASSUME NEW o, NEW x, StepOf(o, x)
    PROVE  Chain(o, <<x>>, x, x)
<1>1. x \in Steps
  BY DEF StepOf
<1> QED BY <1>1 DEF Chain

LEMMA Two ==
    ASSUME NEW o, NEW x, NEW y, StepOf(o, x), StepOf(o, y), Follows(o, x, y)
    PROVE  Chain(o, <<x, y>>, x, y)
<1> DEFINE s == <<x, y>>
<1>1. x \in Steps /\ y \in Steps
  BY DEF StepOf
<1>2. s \in Seq(Steps) /\ Len(s) = 2 /\ s[1] = x /\ s[2] = y
  BY <1>1
<1> HIDE DEF s
<1>3. \A i \in 1..2 : i = 1 \/ i = 2
  OBVIOUS
<1>4. \A i \in 1..2 : i < 2 => i = 1 /\ i + 1 = 2
  OBVIOUS
<1>5. Chain(o, s, x, y)
  BY <1>2, <1>3, <1>4 DEF Chain
<1> QED BY <1>5 DEF s

LEMMA Three ==
    ASSUME NEW o, NEW x, NEW y, NEW z, StepOf(o, x), StepOf(o, y), StepOf(o, z),
           Follows(o, x, y), Follows(o, y, z)
    PROVE  Chain(o, <<x, y, z>>, x, z)
<1> DEFINE s == <<x, y, z>>
<1>1. x \in Steps /\ y \in Steps /\ z \in Steps
  BY DEF StepOf
<1>2. s \in Seq(Steps) /\ Len(s) = 3 /\ s[1] = x /\ s[2] = y /\ s[3] = z
  BY <1>1
<1> HIDE DEF s
<1>3. \A i \in 1..3 : i = 1 \/ i = 2 \/ i = 3
  OBVIOUS
<1>4. \A i \in 1..3 : i < 3 => (i = 1 /\ i + 1 = 2) \/ (i = 2 /\ i + 1 = 3)
  OBVIOUS
<1>5. Chain(o, s, x, z)
  BY <1>2, <1>3, <1>4 DEF Chain
<1> QED BY <1>5 DEF s

LEMMA Four ==
    ASSUME NEW o, NEW w, NEW x, NEW y, NEW z,
           StepOf(o, w), StepOf(o, x), StepOf(o, y), StepOf(o, z),
           Follows(o, w, x), Follows(o, x, y), Follows(o, y, z)
    PROVE  Chain(o, <<w, x, y, z>>, w, z)
<1> DEFINE s == <<w, x, y, z>>
<1>1. w \in Steps /\ x \in Steps /\ y \in Steps /\ z \in Steps
  BY DEF StepOf
<1>2. s \in Seq(Steps) /\ Len(s) = 4 /\ s[1] = w /\ s[2] = x /\ s[3] = y /\ s[4] = z
  BY <1>1
<1> HIDE DEF s
<1>3. \A i \in 1..4 : i = 1 \/ i = 2 \/ i = 3 \/ i = 4
  OBVIOUS
<1>4. \A i \in 1..4 :
        i < 4 => (i = 1 /\ i + 1 = 2) \/ (i = 2 /\ i + 1 = 3) \/ (i = 3 /\ i + 1 = 4)
  OBVIOUS
<1>5. Chain(o, s, w, z)
  BY <1>2, <1>3, <1>4 DEF Chain
<1> QED BY <1>5 DEF s

\* A job that moves a site does so between two different benches.
Adjacent(o) == o.kind \notin Stays => o.source # o.target

\* move_site with what follows it is a stretch of a plan.
LEMMA MoveInOrder ==
    ASSUME NEW o \in Order, o.kind \notin Stays, Adjacent(o)
    PROVE  Chain(o, Move(o.source, o.target), <<"move", o.target>>, <<"reload", o.target>>)
<1> DEFINE a == o.source
           b == o.target
<1>1. a \in Benches /\ b \in Benches /\ a # b /\ o.kind \in Updates \cup Recoveries
  BY DEF Order, Adjacent
<1>2. ASSUME NEW c \in {a, b}
      PROVE  Chain(o, SetupNginx(c), <<"read", c>>, <<"reload", c>>)
  <2>1. c \in Benches
    BY <1>1
  <2>2. StepOf(o, <<"read", c>>) /\ StepOf(o, <<"render", c>>)
        /\ StepOf(o, <<"write", c>>) /\ StepOf(o, <<"reload", c>>)
    BY <1>1, <1>2, <2>1 DEF StepOf, Steps, Names, InNginx, AfterMove
  <2>3. /\ Follows(o, <<"read", c>>, <<"render", c>>)
        /\ Follows(o, <<"render", c>>, <<"write", c>>)
        /\ Follows(o, <<"write", c>>, <<"reload", c>>)
    BY DEF Follows
  <2> QED BY <2>2, <2>3, Four DEF SetupNginx
<1>3. Chain(o, <<<<"move", b>>>>, <<"move", b>>, <<"move", b>>)
  <2>1. StepOf(o, <<"move", b>>)
    BY <1>1 DEF StepOf, Steps, Names, InNginx, AfterMove
  <2> QED BY <2>1, One
<1>4. Chain(o, <<<<"reload", b>>>>, <<"reload", b>>, <<"reload", b>>)
  <2>1. StepOf(o, <<"reload", b>>)
    BY <1>1 DEF StepOf, Steps, Names, InNginx, AfterMove
  <2> QED BY <2>1, One
<1>5. /\ Follows(o, <<"move", b>>, <<"read", a>>)
      /\ Follows(o, <<"reload", a>>, <<"read", b>>)
      /\ Follows(o, <<"reload", b>>, <<"reload", b>>)
  BY <1>1 DEF Follows, AfterReload
<1>6. Move(a, b) = ((<<<<"move", b>>>> \o SetupNginx(a)) \o SetupNginx(b)) \o <<<<"reload", b>>>>
  BY DEF Move
<1>7. Chain(o, <<<<"move", b>>>> \o SetupNginx(a), <<"move", b>>, <<"reload", a>>)
  BY <1>2, <1>3, <1>5, Join
<1>8. Chain(o, (<<<<"move", b>>>> \o SetupNginx(a)) \o SetupNginx(b), <<"move", b>>, <<"reload", b>>)
  BY <1>2, <1>5, <1>7, Join
<1>9. Chain(o, Move(a, b), <<"move", b>>, <<"reload", b>>)
  BY <1>4, <1>5, <1>6, <1>8, Join
<1> QED BY <1>9


InOrder(o, s) ==
    \E x, y \in Steps : Chain(o, s, x, y) /\ x[1] = "open" /\ Ends(o, y)

\* The plan of every job is in order.
LEMMA PlansInOrder ==
    ASSUME NEW o \in Order, Adjacent(o)
    PROVE  InOrder(o, Handler(o))
<1> DEFINE a == o.source
           b == o.target
<1>0. a \in Benches /\ b \in Benches /\ o.skipBackups \in BOOLEAN
      /\ o.kind \in Updates \cup Recoveries /\ (o.kind \notin Stays => a # b)
  BY DEF Order, Adjacent
<1>1. CASE o.kind = "migrate" /\ ~o.skipBackups
  <2> DEFINE H1 == <<<<"open", a>>, <<"maintain", a>>, <<"wait", a>>>>
             H2 == <<<<"clear", a>>, <<"list", a>>, <<"dump", a>>>>
             H4 == <<<<"setUp", b>>, <<"alter", b>>>>
             H5 == <<<<"activate", b>>, <<"index", b>>>>
  <2>1. Handler(o) = (((H1 \o H2) \o Move(a, b)) \o H4) \o H5
    BY <1>1, Zenon DEF Handler, Backup, Migrate
  <2>2. /\ StepOf(o, <<"open", a>>) /\ StepOf(o, <<"maintain", a>>)
          /\ StepOf(o, <<"wait", a>>)
        /\ Follows(o, <<"open", a>>, <<"maintain", a>>)
           /\ Follows(o, <<"maintain", a>>, <<"wait", a>>)
    BY <1>0, <1>1
      DEF StepOf, Follows, AfterReload, Steps, Names, InNginx, AfterMove, Updates,
          MoveBack, Stays, WithDumps, Restores
  <2>3. Chain(o, H1, <<"open", a>>, <<"wait", a>>)
    BY <2>2, Three
  <2>4. /\ StepOf(o, <<"clear", a>>) /\ StepOf(o, <<"list", a>>)
          /\ StepOf(o, <<"dump", a>>)
        /\ Follows(o, <<"clear", a>>, <<"list", a>>)
           /\ Follows(o, <<"list", a>>, <<"dump", a>>)
    BY <1>0, <1>1
      DEF StepOf, Follows, AfterReload, Steps, Names, InNginx, AfterMove, Updates,
          MoveBack, Stays, WithDumps, Restores
  <2>5. Chain(o, H2, <<"clear", a>>, <<"dump", a>>)
    BY <2>4, Three
  <2>6. /\ StepOf(o, <<"setUp", b>>) /\ StepOf(o, <<"alter", b>>)
        /\ Follows(o, <<"setUp", b>>, <<"alter", b>>)
    BY <1>0, <1>1
      DEF StepOf, Follows, AfterReload, Steps, Names, InNginx, AfterMove, Updates,
          MoveBack, Stays, WithDumps, Restores
  <2>7. Chain(o, H4, <<"setUp", b>>, <<"alter", b>>)
    BY <2>6, Two
  <2>8. /\ StepOf(o, <<"activate", b>>) /\ StepOf(o, <<"index", b>>)
        /\ Follows(o, <<"activate", b>>, <<"index", b>>)
    BY <1>0, <1>1
      DEF StepOf, Follows, AfterReload, Steps, Names, InNginx, AfterMove, Updates,
          MoveBack, Stays, WithDumps, Restores
  <2>9. Chain(o, H5, <<"activate", b>>, <<"index", b>>)
    BY <2>8, Two
  <2>10. Chain(o, Move(a, b), <<"move", b>>, <<"reload", b>>)
    BY <1>1, MoveInOrder DEF Stays
  <2>11. /\ Follows(o, <<"wait", a>>, <<"clear", a>>)
        /\ Follows(o, <<"dump", a>>, <<"move", b>>)
        /\ Follows(o, <<"reload", b>>, <<"setUp", b>>)
        /\ Follows(o, <<"alter", b>>, <<"activate", b>>)
    BY <1>0, <1>1
      DEF Follows, AfterReload, InNginx, AfterMove, Updates,
          MoveBack, Stays, WithDumps, Restores
  <2> HIDE DEF H1, H2, H4, H5
  <2>12. Chain(o, H1 \o H2, <<"open", a>>, <<"dump", a>>)
    BY <2>3, <2>5, <2>7, <2>9, <2>10, <2>11, Join
  <2>13. Chain(o, (H1 \o H2) \o Move(a, b), <<"open", a>>, <<"reload", b>>)
    BY <2>3, <2>5, <2>7, <2>9, <2>10, <2>12, <2>11, Join
  <2>14. Chain(o, ((H1 \o H2) \o Move(a, b)) \o H4, <<"open", a>>, <<"alter", b>>)
    BY <2>3, <2>5, <2>7, <2>9, <2>10, <2>12, <2>13, <2>11, Join
  <2>15. Chain(o, (((H1 \o H2) \o Move(a, b)) \o H4) \o H5, <<"open", a>>, <<"index", b>>)
    BY <2>3, <2>5, <2>7, <2>9, <2>10, <2>12, <2>13, <2>14, <2>11, Join
  <2>16. /\ Ends(o, <<"index", b>>)
        /\ <<"open", a>> \in Steps /\ <<"index", b>> \in Steps
    BY <1>0, <1>1 DEF Ends, Steps, Names
  <2>17. Chain(o, Handler(o), <<"open", a>>, <<"index", b>>)
    BY <2>1, <2>15
  <2> QED BY <2>16, <2>17 DEF InOrder
<1>2. CASE o.kind = "migrate" /\ o.skipBackups
  <2> DEFINE H1 == <<<<"open", a>>, <<"maintain", a>>, <<"wait", a>>>>
             H2 == <<>>
             H4 == <<<<"setUp", b>>, <<"alter", b>>>>
             H5 == <<<<"activate", b>>, <<"index", b>>>>
  <2>1. Handler(o) = (((H1 \o H2) \o Move(a, b)) \o H4) \o H5
    BY <1>2, Zenon DEF Handler, Migrate
  <2>2. /\ StepOf(o, <<"open", a>>) /\ StepOf(o, <<"maintain", a>>)
          /\ StepOf(o, <<"wait", a>>)
        /\ Follows(o, <<"open", a>>, <<"maintain", a>>)
           /\ Follows(o, <<"maintain", a>>, <<"wait", a>>)
    BY <1>0, <1>2
      DEF StepOf, Follows, AfterReload, Steps, Names, InNginx, AfterMove, Updates,
          MoveBack, Stays, WithDumps, Restores
  <2>3. Chain(o, H1, <<"open", a>>, <<"wait", a>>)
    BY <2>2, Three
  <2>4. /\ StepOf(o, <<"setUp", b>>) /\ StepOf(o, <<"alter", b>>)
        /\ Follows(o, <<"setUp", b>>, <<"alter", b>>)
    BY <1>0, <1>2
      DEF StepOf, Follows, AfterReload, Steps, Names, InNginx, AfterMove, Updates,
          MoveBack, Stays, WithDumps, Restores
  <2>5. Chain(o, H4, <<"setUp", b>>, <<"alter", b>>)
    BY <2>4, Two
  <2>6. /\ StepOf(o, <<"activate", b>>) /\ StepOf(o, <<"index", b>>)
        /\ Follows(o, <<"activate", b>>, <<"index", b>>)
    BY <1>0, <1>2
      DEF StepOf, Follows, AfterReload, Steps, Names, InNginx, AfterMove, Updates,
          MoveBack, Stays, WithDumps, Restores
  <2>7. Chain(o, H5, <<"activate", b>>, <<"index", b>>)
    BY <2>6, Two
  <2>8. Chain(o, Move(a, b), <<"move", b>>, <<"reload", b>>)
    BY <1>2, MoveInOrder DEF Stays
  <2>9. /\ Follows(o, <<"wait", a>>, <<"move", b>>)
        /\ Follows(o, <<"reload", b>>, <<"setUp", b>>)
        /\ Follows(o, <<"alter", b>>, <<"activate", b>>)
    BY <1>0, <1>2
      DEF Follows, AfterReload, InNginx, AfterMove, Updates,
          MoveBack, Stays, WithDumps, Restores
  <2> HIDE DEF H1, H4, H5
  <2>10. Chain(o, H1 \o Move(a, b), <<"open", a>>, <<"reload", b>>)
    BY <2>3, <2>5, <2>7, <2>8, <2>9, Join
  <2>11. Chain(o, (H1 \o Move(a, b)) \o H4, <<"open", a>>, <<"alter", b>>)
    BY <2>3, <2>5, <2>7, <2>8, <2>10, <2>9, Join
  <2>12. Chain(o, ((H1 \o Move(a, b)) \o H4) \o H5, <<"open", a>>, <<"index", b>>)
    BY <2>3, <2>5, <2>7, <2>8, <2>10, <2>11, <2>9, Join
  <2>13. Handler(o) = ((H1 \o Move(a, b)) \o H4) \o H5
    <3>1. H1 \in Seq(Steps)
      BY <2>3, <2>5, <2>7, <2>8, <2>10, <2>11, <2>12 DEF Chain
    <3>2. (H1) \o H2 = H1
      BY <3>1, ConcatEmptySeq DEF H2
    <3> QED BY <2>1, <3>2
  <2>14. /\ Ends(o, <<"index", b>>)
        /\ <<"open", a>> \in Steps /\ <<"index", b>> \in Steps
    BY <1>0, <1>2 DEF Ends, Steps, Names
  <2>15. Chain(o, Handler(o), <<"open", a>>, <<"index", b>>)
    BY <2>13, <2>12
  <2> QED BY <2>14, <2>15 DEF InOrder
<1>3. CASE o.kind = "pull"
  <2> DEFINE H1 == <<<<"open", a>>, <<"maintain", a>>, <<"wait", a>>>>
             H3 == <<<<"activate", b>>>>
  <2>1. Handler(o) = (H1 \o Move(a, b)) \o H3
    BY <1>3, Zenon DEF Handler
  <2>2. /\ StepOf(o, <<"open", a>>) /\ StepOf(o, <<"maintain", a>>)
          /\ StepOf(o, <<"wait", a>>)
        /\ Follows(o, <<"open", a>>, <<"maintain", a>>)
           /\ Follows(o, <<"maintain", a>>, <<"wait", a>>)
    BY <1>0, <1>3
      DEF StepOf, Follows, AfterReload, Steps, Names, InNginx, AfterMove, Updates,
          MoveBack, Stays, WithDumps, Restores
  <2>3. Chain(o, H1, <<"open", a>>, <<"wait", a>>)
    BY <2>2, Three
  <2>4. /\ StepOf(o, <<"activate", b>>)
    BY <1>0, <1>3
      DEF StepOf, Follows, AfterReload, Steps, Names, InNginx, AfterMove, Updates,
          MoveBack, Stays, WithDumps, Restores
  <2>5. Chain(o, H3, <<"activate", b>>, <<"activate", b>>)
    BY <2>4, One
  <2>6. Chain(o, Move(a, b), <<"move", b>>, <<"reload", b>>)
    BY <1>3, MoveInOrder DEF Stays
  <2>7. /\ Follows(o, <<"wait", a>>, <<"move", b>>)
        /\ Follows(o, <<"reload", b>>, <<"activate", b>>)
    BY <1>0, <1>3
      DEF Follows, AfterReload, InNginx, AfterMove, Updates,
          MoveBack, Stays, WithDumps, Restores
  <2> HIDE DEF H1, H3
  <2>8. Chain(o, H1 \o Move(a, b), <<"open", a>>, <<"reload", b>>)
    BY <2>3, <2>5, <2>6, <2>7, Join
  <2>9. Chain(o, (H1 \o Move(a, b)) \o H3, <<"open", a>>, <<"activate", b>>)
    BY <2>3, <2>5, <2>6, <2>8, <2>7, Join
  <2>10. /\ Ends(o, <<"activate", b>>)
        /\ <<"open", a>> \in Steps /\ <<"activate", b>> \in Steps
    BY <1>0, <1>3 DEF Ends, Steps, Names
  <2>11. Chain(o, Handler(o), <<"open", a>>, <<"activate", b>>)
    BY <2>1, <2>9
  <2> QED BY <2>10, <2>11 DEF InOrder
<1>4. CASE o.kind = "recoverMigrate" /\ ~o.skipBackups
  <2> DEFINE H1 == <<<<"open", a>>>>
             H3 == <<<<"choose", b>>, <<"restore", b>>, <<"drop", b>>>>
             H4 == <<<<"activate", b>>>>
  <2>1. Handler(o) = ((H1 \o Move(a, b)) \o H3) \o H4
    BY <1>4, Zenon DEF Handler, Restore
  <2>2. /\ StepOf(o, <<"open", a>>)
    BY <1>0, <1>4
      DEF StepOf, Follows, AfterReload, Steps, Names, InNginx, AfterMove, Updates,
          MoveBack, Stays, WithDumps, Restores
  <2>3. Chain(o, H1, <<"open", a>>, <<"open", a>>)
    BY <2>2, One
  <2>4. /\ StepOf(o, <<"choose", b>>) /\ StepOf(o, <<"restore", b>>)
          /\ StepOf(o, <<"drop", b>>)
        /\ Follows(o, <<"choose", b>>, <<"restore", b>>)
           /\ Follows(o, <<"restore", b>>, <<"drop", b>>)
    BY <1>0, <1>4
      DEF StepOf, Follows, AfterReload, Steps, Names, InNginx, AfterMove, Updates,
          MoveBack, Stays, WithDumps, Restores
  <2>5. Chain(o, H3, <<"choose", b>>, <<"drop", b>>)
    BY <2>4, Three
  <2>6. /\ StepOf(o, <<"activate", b>>)
    BY <1>0, <1>4
      DEF StepOf, Follows, AfterReload, Steps, Names, InNginx, AfterMove, Updates,
          MoveBack, Stays, WithDumps, Restores
  <2>7. Chain(o, H4, <<"activate", b>>, <<"activate", b>>)
    BY <2>6, One
  <2>8. Chain(o, Move(a, b), <<"move", b>>, <<"reload", b>>)
    BY <1>4, MoveInOrder DEF Stays
  <2>9. /\ Follows(o, <<"open", a>>, <<"move", b>>)
        /\ Follows(o, <<"reload", b>>, <<"choose", b>>)
        /\ Follows(o, <<"drop", b>>, <<"activate", b>>)
    BY <1>0, <1>4
      DEF Follows, AfterReload, InNginx, AfterMove, Updates,
          MoveBack, Stays, WithDumps, Restores
  <2> HIDE DEF H1, H3, H4
  <2>10. Chain(o, H1 \o Move(a, b), <<"open", a>>, <<"reload", b>>)
    BY <2>3, <2>5, <2>7, <2>8, <2>9, Join
  <2>11. Chain(o, (H1 \o Move(a, b)) \o H3, <<"open", a>>, <<"drop", b>>)
    BY <2>3, <2>5, <2>7, <2>8, <2>10, <2>9, Join
  <2>12. Chain(o, ((H1 \o Move(a, b)) \o H3) \o H4, <<"open", a>>, <<"activate", b>>)
    BY <2>3, <2>5, <2>7, <2>8, <2>10, <2>11, <2>9, Join
  <2>13. /\ Ends(o, <<"activate", b>>)
        /\ <<"open", a>> \in Steps /\ <<"activate", b>> \in Steps
    BY <1>0, <1>4 DEF Ends, Steps, Names
  <2>14. Chain(o, Handler(o), <<"open", a>>, <<"activate", b>>)
    BY <2>1, <2>12
  <2> QED BY <2>13, <2>14 DEF InOrder
<1>5. CASE o.kind = "recoverMigrate" /\ o.skipBackups
  <2> DEFINE H1 == <<<<"open", a>>>>
             H3 == <<>>
             H4 == <<<<"activate", b>>>>
  <2>1. Handler(o) = ((H1 \o Move(a, b)) \o H3) \o H4
    BY <1>5, Zenon DEF Handler
  <2>2. /\ StepOf(o, <<"open", a>>)
    BY <1>0, <1>5
      DEF StepOf, Follows, AfterReload, Steps, Names, InNginx, AfterMove, Updates,
          MoveBack, Stays, WithDumps, Restores
  <2>3. Chain(o, H1, <<"open", a>>, <<"open", a>>)
    BY <2>2, One
  <2>4. /\ StepOf(o, <<"activate", b>>)
    BY <1>0, <1>5
      DEF StepOf, Follows, AfterReload, Steps, Names, InNginx, AfterMove, Updates,
          MoveBack, Stays, WithDumps, Restores
  <2>5. Chain(o, H4, <<"activate", b>>, <<"activate", b>>)
    BY <2>4, One
  <2>6. Chain(o, Move(a, b), <<"move", b>>, <<"reload", b>>)
    BY <1>5, MoveInOrder DEF Stays
  <2>7. /\ Follows(o, <<"open", a>>, <<"move", b>>)
        /\ Follows(o, <<"reload", b>>, <<"activate", b>>)
    BY <1>0, <1>5
      DEF Follows, AfterReload, InNginx, AfterMove, Updates,
          MoveBack, Stays, WithDumps, Restores
  <2> HIDE DEF H1, H4
  <2>8. Chain(o, H1 \o Move(a, b), <<"open", a>>, <<"reload", b>>)
    BY <2>3, <2>5, <2>6, <2>7, Join
  <2>9. Chain(o, (H1 \o Move(a, b)) \o H4, <<"open", a>>, <<"activate", b>>)
    BY <2>3, <2>5, <2>6, <2>8, <2>7, Join
  <2>10. Handler(o) = (H1 \o Move(a, b)) \o H4
    <3>1. H1 \o Move(a, b) \in Seq(Steps)
      BY <2>3, <2>5, <2>6, <2>8, <2>9 DEF Chain
    <3>2. (H1 \o Move(a, b)) \o H3 = H1 \o Move(a, b)
      BY <3>1, ConcatEmptySeq DEF H3
    <3> QED BY <2>1, <3>2
  <2>11. /\ Ends(o, <<"activate", b>>)
        /\ <<"open", a>> \in Steps /\ <<"activate", b>> \in Steps
    BY <1>0, <1>5 DEF Ends, Steps, Names
  <2>12. Chain(o, Handler(o), <<"open", a>>, <<"activate", b>>)
    BY <2>10, <2>9
  <2> QED BY <2>11, <2>12 DEF InOrder
<1>6. CASE o.kind = "recoverPull"
  <2> DEFINE H1 == <<<<"open", a>>>>
             H3 == <<<<"activate", b>>>>
  <2>1. Handler(o) = (H1 \o Move(a, b)) \o H3
    BY <1>6, Zenon DEF Handler
  <2>2. /\ StepOf(o, <<"open", a>>)
    BY <1>0, <1>6
      DEF StepOf, Follows, AfterReload, Steps, Names, InNginx, AfterMove, Updates,
          MoveBack, Stays, WithDumps, Restores
  <2>3. Chain(o, H1, <<"open", a>>, <<"open", a>>)
    BY <2>2, One
  <2>4. /\ StepOf(o, <<"activate", b>>)
    BY <1>0, <1>6
      DEF StepOf, Follows, AfterReload, Steps, Names, InNginx, AfterMove, Updates,
          MoveBack, Stays, WithDumps, Restores
  <2>5. Chain(o, H3, <<"activate", b>>, <<"activate", b>>)
    BY <2>4, One
  <2>6. Chain(o, Move(a, b), <<"move", b>>, <<"reload", b>>)
    BY <1>6, MoveInOrder DEF Stays
  <2>7. /\ Follows(o, <<"open", a>>, <<"move", b>>)
        /\ Follows(o, <<"reload", b>>, <<"activate", b>>)
    BY <1>0, <1>6
      DEF Follows, AfterReload, InNginx, AfterMove, Updates,
          MoveBack, Stays, WithDumps, Restores
  <2> HIDE DEF H1, H3
  <2>8. Chain(o, H1 \o Move(a, b), <<"open", a>>, <<"reload", b>>)
    BY <2>3, <2>5, <2>6, <2>7, Join
  <2>9. Chain(o, (H1 \o Move(a, b)) \o H3, <<"open", a>>, <<"activate", b>>)
    BY <2>3, <2>5, <2>6, <2>8, <2>7, Join
  <2>10. /\ Ends(o, <<"activate", b>>)
        /\ <<"open", a>> \in Steps /\ <<"activate", b>> \in Steps
    BY <1>0, <1>6 DEF Ends, Steps, Names
  <2>11. Chain(o, Handler(o), <<"open", a>>, <<"activate", b>>)
    BY <2>1, <2>9
  <2> QED BY <2>10, <2>11 DEF InOrder
<1>7. CASE o.kind = "restoreTables"
  <2> DEFINE H1 == <<<<"open", b>>, <<"chooseAll", b>>, <<"restore", b>>, <<"activate", b>>>>
  <2>1. Handler(o) = H1
    BY <1>7, Zenon DEF Handler
  <2>2. /\ StepOf(o, <<"open", b>>) /\ StepOf(o, <<"chooseAll", b>>)
          /\ StepOf(o, <<"restore", b>>) /\ StepOf(o, <<"activate", b>>)
        /\ Follows(o, <<"open", b>>, <<"chooseAll", b>>)
           /\ Follows(o, <<"chooseAll", b>>, <<"restore", b>>)
           /\ Follows(o, <<"restore", b>>, <<"activate", b>>)
    BY <1>0, <1>7
      DEF StepOf, Follows, AfterReload, Steps, Names, InNginx, AfterMove, Updates,
          MoveBack, Stays, WithDumps, Restores
  <2>3. Chain(o, H1, <<"open", b>>, <<"activate", b>>)
    BY <2>2, Four
  <2> HIDE DEF H1
  <2>4. /\ Ends(o, <<"activate", b>>)
        /\ <<"open", b>> \in Steps /\ <<"activate", b>> \in Steps
    BY <1>0, <1>7 DEF Ends, Steps, Names
  <2>5. Chain(o, Handler(o), <<"open", b>>, <<"activate", b>>)
    BY <2>1, <2>3
  <2> QED BY <2>4, <2>5 DEF InOrder
<1>8. CASE o.kind = "recover"
  <2> DEFINE H1 == <<<<"open", b>>, <<"activate", b>>>>
  <2>1. Handler(o) = H1
    BY <1>8, Zenon DEF Handler
  <2>2. /\ StepOf(o, <<"open", b>>) /\ StepOf(o, <<"activate", b>>)
        /\ Follows(o, <<"open", b>>, <<"activate", b>>)
    BY <1>0, <1>8
      DEF StepOf, Follows, AfterReload, Steps, Names, InNginx, AfterMove, Updates,
          MoveBack, Stays, WithDumps, Restores
  <2>3. Chain(o, H1, <<"open", b>>, <<"activate", b>>)
    BY <2>2, Two
  <2> HIDE DEF H1
  <2>4. /\ Ends(o, <<"activate", b>>)
        /\ <<"open", b>> \in Steps /\ <<"activate", b>> \in Steps
    BY <1>0, <1>8 DEF Ends, Steps, Names
  <2>5. Chain(o, Handler(o), <<"open", b>>, <<"activate", b>>)
    BY <2>1, <2>3
  <2> QED BY <2>4, <2>5 DEF InOrder
<1> QED BY <1>0, <1>1, <1>2, <1>3, <1>4, <1>5, <1>6, <1>7, <1>8 DEF Updates, Recoveries

\* What is left of a stretch begins with one of its steps, and after that step begins with a
\* step that may follow it or is over.
LEMMA OnChain ==
    ASSUME NEW o, NEW s, NEW x, NEW y, Chain(o, s, x, y), NEW i \in 1..Len(s)
    PROVE  /\ From(s, i) \in Seq(Steps) /\ From(s, i) # <<>>
           /\ StepOf(o, Head(From(s, i)))
           /\ i = 1 => Head(From(s, i)) = x
           /\ \/ Tail(From(s, i)) = <<>> /\ Head(From(s, i)) = y
              \/ /\ i + 1 \in 1..Len(s) /\ Tail(From(s, i)) = From(s, i + 1)
                 /\ StepOf(o, Head(From(s, i + 1)))
                 /\ From(s, i + 1) # <<>>
                 /\ Follows(o, Head(From(s, i)), Head(From(s, i + 1)))
<1>1. s \in Seq(Steps) /\ Len(s) \in Nat /\ Len(s) >= 1
  BY LenProperties DEF Chain
<1>2. /\ From(s, i) \in Seq(Steps) /\ From(s, i) # <<>>
      /\ Head(From(s, i)) = s[i]
      /\ Tail(From(s, i)) = IF i = Len(s) THEN <<>> ELSE From(s, i + 1)
  BY <1>1, Rest
<1>3. StepOf(o, s[i])
  BY DEF Chain
<1>4. CASE i = Len(s)
  BY <1>2, <1>3, <1>4 DEF Chain
<1>5. CASE i # Len(s)
  <2>1. i + 1 \in 1..Len(s) /\ i < Len(s)
    BY <1>1, <1>5
  <2>2. From(s, i + 1) # <<>> /\ Head(From(s, i + 1)) = s[i + 1]
    BY <1>1, <2>1, Rest
  <2>3. Follows(o, s[i], s[i + 1]) /\ StepOf(o, s[i + 1])
    BY <2>1 DEF Chain
  <2>4. i = 1 => s[i] = x
    BY DEF Chain
  <2> QED BY <1>2, <1>3, <1>5, <2>1, <2>2, <2>3, <2>4
<1> QED BY <1>4, <1>5

(***************************************************************************)
(* The inductive invariant.                                                *)
(***************************************************************************)

\* The step a process is at, and the bench of that step of the site's job.
Step(p) == IF plan[p] = <<>> THEN "idle" ELSE Head(plan[p])[1]
Here    == Step("site")
There   == Bench("site")
Source  == order.source
Target  == order.target

\* The plans that are left are ends of those of the jobs.
OnPlan ==
    /\ plan \in [Processes -> Seq(Steps)]
    /\ plan["site"] # <<>> =>
         \E i \in 1..Len(Handler(order)) : plan["site"] = From(Handler(order), i)
    /\ \A n \in Neighbours :
         plan[n] # <<>> => \E i \in 1..4 : plan[n] = From(SetupNginx(BenchOf[n]), i)

\* An update goes to the next bench, its recovery back.
OrderSound ==
    /\ order.kind \in Updates => Target = Source + 1
    /\ order.kind \in MoveBack => Source = Target + 1
    /\ order.kind \in {"pull", "recoverPull", "restoreTables"} => ~order.skipBackups
    /\ order.kind = "pull" => Changes[Target] = {}
    /\ order.kind = "recoverPull" => Changes[Source] = {}

\* Where the site is.
PlaceSound ==
    /\ order.kind \in Stays => Place = Target
    /\ Place \in {Source, Target}
    /\ Here \in BeforeMove \ {"open"} => Place = Source
    /\ Here \in AfterMove => Place = Target
    /\ Here = "idle" /\ ~failed["site"] => Place = Target

\* When it is in maintenance.
MaintenanceSound ==
    /\ Here \notin {"open", "maintain", "index", "idle"} => maintenance
    /\ (order.kind \in Recoveries /\ (Here # "idle" \/ failed["site"])) => maintenance
    /\ (Here = "index" \/ (Here = "idle" /\ ~failed["site"])) => ~maintenance
    /\ Here \in {"open", "maintain"} /\ ~maintenance => Place = Source

\* A job that runs has not failed.
Running == Here # "idle" => ~failed["site"]

\* When nothing but the job writes to the database.
MustBeQuiet ==
    \/ /\ order.kind \in Updates
       /\ (Place = Target /\ maintenance) \/ Here \in {"clear", "list", "dump", "move"}
    \/ order.kind \in MoveBack \cup {"restoreTables"} /\ maintenance
Quiet == MustBeQuiet => ~busy

\* No table ever loses a row.
RowsKept == \A t \in Tables : table[t].rows = committed[t]

FitsAll(b) == \A t \in Tables : Fits(table[t], b, t)

\* The dumps are those of the tables there were, for the code of bench b.
DumpsFit(b) ==
    /\ previous # None
    /\ \A t \in Tables : /\ t \in previous <=> dump[t] # Absent
                         /\ dump[t].rows = committed[t] /\ Fits(dump[t], b, t)

\* When the dumps may still be needed, and which bench they are from.
DumpsWanted ==
    /\ ~order.skipBackups
    /\ \/ order.kind = "migrate" /\ (Here = "move" \/ (Place = Target /\ maintenance))
       \/ order.kind \in {"recoverMigrate", "restoreTables"} /\ maintenance
Origin == IF order.kind = "migrate" THEN Source ELSE Target
DumpsHold == DumpsWanted => DumpsFit(Origin)

NothingDumped == \A t \in Tables : dump[t] = Absent
BeingDumped ==
    /\ previous # None /\ todo \subseteq previous
    /\ \A t \in Tables : /\ t \in previous <=> table[t] # Absent
                         /\ t \notin todo => dump[t] = table[t]
Dumping == (Here = "list" => NothingDumped) /\ (Here = "dump" => BeingDumped)

\* Between the dump and the migration the tables stay as they were dumped.
AsDumped == \A t \in Tables : dump[t] = table[t]
NotYetAltered ==
    order.kind = "migrate" /\ Here \in {"move", "setUp"} \cup InNginx =>
      FitsAll(Source) /\ (~order.skipBackups => AsDumped)

\* The migration has changed what it was to change and is through with.
PartlyAltered ==
    /\ touched = None /\ todo \subseteq Changes[Target]
    /\ \A t \in Tables :
         IF t \in Changes[Target] \ todo THEN table[t].version = Target /\ table[t].whole
         ELSE Fits(table[t], Source, t) /\ (~order.skipBackups => dump[t] = table[t])
Altering == Here = "alter" => PartlyAltered

\* What it has changed is recorded, or there is no record.
Recorded == touched # None => \A t \in previous : table[t] # dump[t] => t \in touched
RecordWanted ==
    /\ ~order.skipBackups
    /\ \/ order.kind = "migrate" /\ Place = Target /\ maintenance
       \/ order.kind = "recoverMigrate" /\ (Place = Source \/ Here \in InNginx \cup {"choose"})
RecordHolds == RecordWanted => Recorded

RestoredBut(rest) == \A t \in previous \ rest : table[t] = dump[t]
Restoring == (Here = "restore" => RestoredBut(todo)) /\ (Here = "drop" => RestoredBut({}))

\* When the tables fit the bench that the site is in.
MustFit ==
    \/ order.kind \in {"pull", "recoverPull"}
    \/ order.kind = "recover" /\ ~order.skipBackups
    \/ order.kind = "migrate" /\ (Place = Source \/ Here \in {"activate", "index"} \/ ~maintenance)
    \/ /\ order.kind \in {"recoverMigrate", "restoreTables"} /\ ~order.skipBackups
       /\ Here = "activate" \/ ~maintenance
Served == MustFit => FitsAll(Place)

\* Who is between the reading of the sites and the end of the writing holds
\* the lock, and nobody else.
LocksSound ==
    \A b \in Benches, p \in Processes :
        lock[b] = p <=> Step(p) \in {"render", "write"} /\ Bench(p) = b

\* What the configuration of a bench says is right, or who is about to write
\* it has read what is right; but for benches whose turn is still to come.
NeighboursFine == \A n \in Neighbours : ~failed[n]
Right(b) ==
    IF lock[b] = None THEN conf[b] = (IF b = Place THEN "with" ELSE "without")
    ELSE listed[lock[b]] = (b = Place)
Unmoved ==
    Here \in BeforeMove \/ (Here = "idle" /\ failed["site"] /\ (maintenance \/ Place = Source))
MayBeStale(b) ==
    \/ order.kind \in Stays /\ b \in {Place, Place + 1}
    \/ order.kind \notin Stays /\ Unmoved /\ b \in {Source, Target}
    \/ Here = "read" /\ There = Source /\ b \in {Source, Target}
    \/ Here \in InNginx /\ There = Source /\ b = Target
    \/ Here = "read" /\ There = Target /\ b = Target
ConfSound == NeighboursFine => \A b \in Benches : MayBeStale(b) \/ Right(b)

\* NGINX leads to where the site is, or a reload is still to come.
ReloadToCome ==
    \/ order.kind \in Stays \/ failed["site"] \/ Here \in BeforeMove \cup InNginx
    \/ \E n \in Neighbours : plan[n] # <<>>
LeadsThere == \A b \in Benches : live[b] = (b = Place)
LiveSound == NeighboursFine => ReloadToCome \/ LeadsThere

Control == OrderSound /\ PlaceSound /\ MaintenanceSound /\ Running /\ Quiet
Data ==
    /\ RowsKept /\ DumpsHold /\ Dumping /\ NotYetAltered
    /\ Altering /\ RecordHolds /\ Restoring /\ Served
Nginx == LocksSound /\ ConfSound /\ LiveSound
IInv == TypeOK /\ OnPlan /\ Control /\ Data /\ Nginx

(***************************************************************************)
(* Where the site is and where its job is.                                 *)
(***************************************************************************)

\* The site is complete in exactly one bench.
LEMMA PlaceIs ==
    ASSUME TypeOK
    PROVE  /\ Place \in Benches
           /\ \A b \in Benches : dir[b] = "site" <=> b = Place
BY DEF TypeOK, Place

LEMMA PlaceKept == ASSUME UNCHANGED dir PROVE Place' = Place
BY DEF Place

\* A job that moves the site has two different benches.
LEMMA AdjacentOrder == ASSUME TypeOK, OrderSound PROVE order \in Order /\ Adjacent(order)
<1>1. /\ order \in Order /\ order.kind \in Updates \cup Recoveries
      /\ order.source \in Benches /\ order.target \in Benches
  BY DEF TypeOK, Order
<1>2. order.source \in Nat /\ order.target \in Nat
  BY <1>1 DEF Benches
<1>3. order.kind \in Updates \cup MoveBack \cup Stays
  BY <1>1 DEF Updates, Recoveries, MoveBack, Stays
<1> QED BY <1>1, <1>2, <1>3 DEF OrderSound, Adjacent, Source, Target

\* The site's job is at a step that its kind has.
LEMMA SiteAt ==
    ASSUME TypeOK, OrderSound, OnPlan, plan["site"] # <<>>
    PROVE  StepOf(order, <<Here, There>>) /\ Head(plan["site"]) = <<Here, There>>
<1>1. PICK i \in 1..Len(Handler(order)) : plan["site"] = From(Handler(order), i)
  BY DEF OnPlan
<1>2. PICK x, y \in Steps : Chain(order, Handler(order), x, y)
  BY AdjacentOrder, PlansInOrder DEF InOrder
<1>3. StepOf(order, Head(plan["site"]))
  BY <1>1, <1>2, OnChain
<1>4. Head(plan["site"]) \in Steps
  BY <1>3 DEF StepOf
<1>5. Head(plan["site"]) = <<Here, There>>
  BY <1>4 DEF Here, There, Step, Bench, Steps
<1> QED BY <1>3, <1>5

\* The end of a step of the site's job.
LEMMA SiteProceeds ==
    ASSUME TypeOK, OrderSound, OnPlan, plan["site"] # <<>>, Proceed("site"), UNCHANGED order
    PROVE  /\ OnPlan'
           /\ \A n \in Neighbours :
                Step(n)' = Step(n) /\ Bench(n)' = Bench(n) /\ plan'[n] = plan[n]
           /\ \/ Here' = "idle" /\ Ends(order, <<Here, There>>)
              \/ /\ StepOf(order, <<Here', There'>>)
                 /\ Follows(order, <<Here, There>>, <<Here', There'>>)
<1> DEFINE H == Handler(order)
<1>1. PICK i \in 1..Len(H) : plan["site"] = From(H, i)
  BY DEF OnPlan
<1>2. PICK x, y \in Steps : Chain(order, H, x, y) /\ Ends(order, y)
  BY AdjacentOrder, PlansInOrder DEF InOrder
<1>3. /\ plan \in [Processes -> Seq(Steps)] /\ "site" \in Processes
      /\ \A n \in Neighbours : n \in Processes /\ n # "site"
  BY UpdateAssumption DEF OnPlan, Processes
<1>4. plan'["site"] = Tail(plan["site"]) /\ \A n \in Neighbours : plan'[n] = plan[n]
  BY <1>3 DEF Proceed
<1>5. Head(plan["site"]) = <<Here, There>>
  BY SiteAt
<1>6. Handler(order)' = Handler(order)
  OBVIOUS
<1>7. \A n \in Neighbours : Step(n)' = Step(n) /\ Bench(n)' = Bench(n) /\ plan'[n] = plan[n]
  BY <1>4 DEF Step, Bench
<1>8. /\ \/ Tail(From(H, i)) = <<>> /\ Head(From(H, i)) = y
         \/ /\ i + 1 \in 1..Len(H) /\ Tail(From(H, i)) = From(H, i + 1)
            /\ StepOf(order, Head(From(H, i + 1)))
            /\ From(H, i + 1) # <<>>
            /\ Follows(order, Head(From(H, i)), Head(From(H, i + 1)))
      /\ From(H, i) \in Seq(Steps) /\ From(H, i) # <<>>
  BY <1>2, OnChain
<1>9. plan' \in [Processes -> Seq(Steps)]
  <2>1. Tail(plan["site"]) \in Seq(Steps)
    BY <1>1, <1>8, HeadTailProperties
  <2> QED BY <1>3, <2>1 DEF Proceed
<1> HIDE DEF H
<1>10. CASE Tail(From(H, i)) = <<>> /\ Head(From(H, i)) = y
  <2>1. plan'["site"] = <<>> /\ y = <<Here, There>>
    BY <1>1, <1>4, <1>5, <1>10
  <2>2. Here' = "idle"
    BY <2>1 DEF Here, Step
  <2>3. OnPlan'
    BY <1>4, <1>9, <2>1 DEF OnPlan
  <2> QED BY <1>2, <1>7, <2>1, <2>2, <2>3
<1>11. CASE /\ i + 1 \in 1..Len(H) /\ Tail(From(H, i)) = From(H, i + 1)
            /\ StepOf(order, Head(From(H, i + 1)))
            /\ From(H, i + 1) # <<>>
            /\ Follows(order, Head(From(H, i)), Head(From(H, i + 1)))
  <2>1. plan'["site"] = From(H, i + 1) /\ plan'["site"] # <<>>
    BY <1>1, <1>4, <1>11
  <2>2. Head(plan'["site"]) \in Steps /\ StepOf(order, Head(plan'["site"]))
    BY <1>11, <2>1 DEF StepOf
  <2>3. Head(plan'["site"]) = <<Here', There'>>
    BY <2>1, <2>2 DEF Here, There, Step, Bench, Steps
  <2>4. Follows(order, <<Here, There>>, <<Here', There'>>)
    BY <1>1, <1>5, <1>11, <2>1, <2>3
  <2>5. OnPlan'
    BY <1>4, <1>6, <1>9, <1>11, <2>1 DEF OnPlan, H
  <2> QED BY <1>7, <2>2, <2>3, <2>4, <2>5
<1> QED BY <1>8, <1>10, <1>11

\* The four steps of setup_nginx.
LEMMA SetUpSteps ==
    ASSUME NEW b \in Benches
    PROVE  LET s == SetupNginx(b)
           IN  /\ s \in Seq(Steps) /\ Len(s) = 4
               /\ s[1] = <<"read", b>> /\ s[2] = <<"render", b>>
               /\ s[3] = <<"write", b>> /\ s[4] = <<"reload", b>>
BY DEF SetupNginx, Steps, Names

\* The job of another site is at one of the steps of setup_nginx of its bench.
LEMMA NeighbourAt ==
    ASSUME OnPlan, NEW n \in Neighbours
    PROVE  /\ plan[n] # <<>> => Step(n) \in InNginx /\ Bench(n) = BenchOf[n]
           /\ plan[n] = <<>> => Step(n) = "idle"
<1>1. CASE plan[n] # <<>>
  <2>1. BenchOf[n] \in Benches
    BY UpdateAssumption
  <2>2. PICK i \in 1..4 : plan[n] = From(SetupNginx(BenchOf[n]), i)
    BY <1>1 DEF OnPlan
  <2>3. Head(plan[n]) = SetupNginx(BenchOf[n])[i]
    BY <2>1, <2>2, SetUpSteps, Rest
  <2>4. i = 1 \/ i = 2 \/ i = 3 \/ i = 4
    OBVIOUS
  <2>5. Head(plan[n])[1] \in InNginx /\ Head(plan[n])[2] = BenchOf[n]
    BY <2>1, <2>3, <2>4, SetUpSteps DEF InNginx
  <2> QED BY <1>1, <2>5 DEF Step, Bench
<1>2. CASE plan[n] = <<>>
  BY <1>2 DEF Step
<1> QED BY <1>1, <1>2

\* The end of a step of another site's job, which is no concern of the site's job.
LEMMA NeighbourProceeds ==
    ASSUME OnPlan, NEW n \in Neighbours, plan[n] # <<>>, Proceed(n), UNCHANGED order
    PROVE  /\ OnPlan' /\ Here' = Here /\ There' = There
           /\ \A m \in Processes \ {n} :
                Step(m)' = Step(m) /\ Bench(m)' = Bench(m) /\ plan'[m] = plan[m]
           /\ Step(n) = "reload" => Step(n)' = "idle" /\ plan'[n] = <<>>
           /\ Step(n) # "reload" => plan'[n] # <<>> /\ Bench(n)' = Bench(n)
           /\ Step(n) = "read" => Step(n)' = "render"
           /\ Step(n) = "render" => Step(n)' = "write"
           /\ Step(n) = "write" => Step(n)' = "reload"
<1> DEFINE S == SetupNginx(BenchOf[n])
<1>1. BenchOf[n] \in Benches
  BY UpdateAssumption
<1>2. PICK i \in 1..4 : plan[n] = From(S, i)
  BY DEF OnPlan
<1>3. /\ plan \in [Processes -> Seq(Steps)] /\ n \in Processes /\ n # "site"
      /\ "site" \in Processes
  BY UpdateAssumption DEF OnPlan, Processes
<1>4. plan'[n] = Tail(plan[n]) /\ \A m \in Processes \ {n} : plan'[m] = plan[m]
  BY <1>3 DEF Proceed
<1>5. /\ S \in Seq(Steps) /\ Len(S) = 4
      /\ S[1] = <<"read", BenchOf[n]>> /\ S[2] = <<"render", BenchOf[n]>>
      /\ S[3] = <<"write", BenchOf[n]>> /\ S[4] = <<"reload", BenchOf[n]>>
  BY <1>1, SetUpSteps
<1> HIDE DEF S
<1>6. /\ From(S, i) \in Seq(Steps) /\ From(S, i) # <<>> /\ Head(From(S, i)) = S[i]
      /\ Tail(From(S, i)) = IF i = 4 THEN <<>> ELSE From(S, i + 1)
  <2>1. i \in 1..Len(S)
    BY <1>5
  <2>2. /\ From(S, i) \in Seq(Steps) /\ From(S, i) # <<>> /\ Head(From(S, i)) = S[i]
        /\ Tail(From(S, i)) = IF i = Len(S) THEN <<>> ELSE From(S, i + 1)
    BY <1>5, <2>1, Rest
  <2> QED BY <1>5, <2>2
<1>7. \A m \in Processes \ {n} : Step(m)' = Step(m) /\ Bench(m)' = Bench(m) /\ plan'[m] = plan[m]
  BY <1>4 DEF Step, Bench
<1>8. Here' = Here /\ There' = There
  BY <1>3, <1>7 DEF Here, There
<1>9. plan' \in [Processes -> Seq(Steps)]
  <2>1. Tail(plan[n]) \in Seq(Steps)
    BY <1>2, <1>6, HeadTailProperties
  <2> QED BY <1>3, <2>1 DEF Proceed
<1>10. OnPlan'
  <2>1. plan'["site"] = plan["site"] /\ Handler(order)' = Handler(order)
    BY <1>3, <1>4
  <2>2. plan'[n] # <<>> => \E k \in 1..4 : plan'[n] = From(S, k)
    <3>1. CASE i = 4
      BY <1>2, <1>4, <1>6, <3>1
    <3>2. CASE i # 4
      <4>1. i + 1 \in 1..4 /\ plan'[n] = From(S, i + 1)
        BY <1>2, <1>4, <1>6, <3>2
      <4> QED BY <4>1
    <3> QED BY <3>1, <3>2
  <2>3. ASSUME NEW m \in Neighbours, plan'[m] # <<>>
        PROVE  \E k \in 1..4 : plan'[m] = From(SetupNginx(BenchOf[m]), k)
    <3>1. CASE m = n
      BY <2>2, <2>3, <3>1 DEF S
    <3>2. CASE m # n
      <4>1. plan'[m] = plan[m]
        BY <1>4, <3>2 DEF Processes
      <4> QED BY <2>3, <4>1 DEF OnPlan
    <3> QED BY <3>1, <3>2
  <2> QED BY <1>9, <2>1, <2>3 DEF OnPlan
<1>11. CASE i = 4
  <2>1. Step(n) = "reload" /\ plan'[n] = <<>>
    BY <1>2, <1>4, <1>5, <1>6, <1>11 DEF Step
  <2>2. Step(n)' = "idle"
    BY <2>1 DEF Step
  <2> QED BY <1>7, <1>8, <1>10, <2>1, <2>2
<1>12. CASE i # 4
  <2> DEFINE k == i + 1
  <2>1. k \in 1..4 /\ ((i = 1 /\ k = 2) \/ (i = 2 /\ k = 3) \/ (i = 3 /\ k = 4))
        /\ plan'[n] = From(S, k)
    BY <1>2, <1>4, <1>6, <1>12
  <2> HIDE DEF k
  <2>2. From(S, k) # <<>> /\ Head(From(S, k)) = S[k]
    BY <1>5, <2>1, Rest
  <2>3. Step(n) = S[i][1] /\ Bench(n) = S[i][2]
    BY <1>2, <1>6 DEF Step, Bench
  <2>4. Step(n)' = S[k][1] /\ Bench(n)' = S[k][2] /\ plan'[n] # <<>>
    BY <2>1, <2>2 DEF Step, Bench
  <2> QED BY <1>5, <1>7, <1>8, <1>10, <2>1, <2>3, <2>4
<1> QED BY <1>11, <1>12

\* The end of a job, and the beginning of one of the site.
LEMMA PlanEnds ==
    ASSUME OnPlan, NEW p \in Processes, plan' = [plan EXCEPT ![p] = <<>>], UNCHANGED order
    PROVE  /\ OnPlan' /\ Step(p)' = "idle" /\ plan'[p] = <<>>
           /\ \A m \in Processes \ {p} :
                Step(m)' = Step(m) /\ Bench(m)' = Bench(m) /\ plan'[m] = plan[m]
<1>1. plan'[p] = <<>> /\ \A m \in Processes \ {p} : plan'[m] = plan[m]
  BY DEF OnPlan
<1>2. plan' \in [Processes -> Seq(Steps)]
  BY EmptySeq DEF OnPlan
<1>3. Handler(order)' = Handler(order)
  OBVIOUS
<1>4. OnPlan'
  <2>1. plan'["site"] # <<>> => plan'["site"] = plan["site"]
    BY <1>1 DEF Processes
  <2>2. \A n \in Neighbours : plan'[n] # <<>> => plan'[n] = plan[n]
    BY <1>1 DEF Processes
  <2> QED BY <1>2, <1>3, <2>1, <2>2 DEF OnPlan
<1>5. Step(p)' = "idle"
  BY <1>1 DEF Step
<1>6. \A m \in Processes \ {p} : Step(m)' = Step(m) /\ Bench(m)' = Bench(m) /\ plan'[m] = plan[m]
  BY <1>1 DEF Step, Bench
<1> QED BY <1>1, <1>4, <1>5, <1>6

\* A job that press asks for starts with its first step.
LEMMA PlanBegins ==
    ASSUME OnPlan, NEW o \in Order, Adjacent(o), Ask(o)
    PROVE  /\ OnPlan' /\ Here' = "open"
           /\ \A n \in Neighbours :
                Step(n)' = Step(n) /\ Bench(n)' = Bench(n) /\ plan'[n] = plan[n]
<1> DEFINE H == Handler(o)
<1>1. PICK x, y \in Steps : Chain(o, H, x, y) /\ x[1] = "open"
  BY PlansInOrder DEF InOrder
<1>2. /\ H \in Seq(Steps) /\ Len(H) >= 1 /\ Len(H) \in Nat
  BY <1>1, LenProperties DEF Chain
<1>3. 1 \in 1..Len(H)
  BY <1>2
<1>4. From(H, 1) = H
  BY <1>2, SubSeqFull DEF From
<1>5. H # <<>> /\ Head(H) = x
  BY <1>1, <1>3, <1>4, OnChain
<1>6. Handler(order)' = H
  BY DEF Ask
<1>7. /\ plan \in [Processes -> Seq(Steps)] /\ "site" \in Processes
      /\ \A n \in Neighbours : n \in Processes /\ n # "site"
  BY UpdateAssumption DEF OnPlan, Processes
<1>8. plan'["site"] = H /\ \A n \in Neighbours : plan'[n] = plan[n]
  BY <1>7 DEF Ask
<1>9. plan' \in [Processes -> Seq(Steps)]
  BY <1>2, <1>7 DEF Ask
<1> HIDE DEF H
<1>10. OnPlan'
  BY <1>3, <1>4, <1>6, <1>8, <1>9 DEF OnPlan
<1>11. Here' = "open"
  BY <1>1, <1>5, <1>8 DEF Here, Step
<1>12. \A n \in Neighbours : Step(n)' = Step(n) /\ Bench(n)' = Bench(n) /\ plan'[n] = plan[n]
  BY <1>8 DEF Step, Bench
<1> QED BY <1>10, <1>11, <1>12

\* What leaves the plans and the order alone leaves the jobs where they are.
LEMMA PlanKept ==
    ASSUME OnPlan, UNCHANGED <<plan, order>>
    PROVE  /\ OnPlan' /\ Here' = Here /\ There' = There
           /\ \A p \in Processes : Step(p)' = Step(p) /\ Bench(p)' = Bench(p)
BY DEF OnPlan, Here, There, Step, Bench

\* Which jobs have the step the site is at, and for which bench it is.
LEMMA StepIs ==
    ASSUME TypeOK, OrderSound, OnPlan
    PROVE  /\ Here \in Names \cup {"idle"}
           /\ (plan["site"] = <<>> <=> Here = "idle")
           /\ Here # "idle" => There \in Benches
           /\ Here \in {"maintain", "wait"} => order.kind \in Updates
           /\ Here \in {"clear", "list", "dump"} => WithDumps(order)
           /\ Here \in {"move"} \cup InNginx => order.kind \notin Stays
           /\ Here \in {"setUp", "alter", "index"} => order.kind = "migrate"
           /\ Here \in {"choose", "drop"} => Restores(order)
           /\ Here = "restore" => Restores(order) \/ order.kind = "restoreTables"
           /\ Here = "chooseAll" => order.kind = "restoreTables"
           /\ Here = "open" => There = IF order.kind \in Stays THEN Target ELSE Source
           /\ Here \in InNginx => There \in {Source, Target}
           /\ Here \in ({"move"} \cup AfterMove) \ InNginx => There = Target
<1>1. CASE plan["site"] = <<>>
  <2>1. Here = "idle"
    BY <1>1 DEF Here, Step
  <2> QED BY <1>1, <2>1 DEF InNginx, AfterMove
<1>2. CASE plan["site"] # <<>>
  <2>1. StepOf(order, <<Here, There>>)
    BY <1>2, SiteAt
  <2>2. <<Here, There>> \in Steps
    BY <2>1 DEF StepOf
  <2>3. Here \in Names /\ There \in Benches
    BY <2>2 DEF Steps
  <2>4. Here # "idle"
    BY <2>3 DEF Names
  <2> HIDE DEF Here, There
  <2> QED BY <1>2, <2>1, <2>3, <2>4 DEF StepOf, Source, Target
<1> QED BY <1>1, <1>2

\* Two different benches, next to each other.
LEMMA OrderIs ==
    ASSUME TypeOK, OrderSound
    PROVE  /\ order \in Order /\ Source \in Benches /\ Target \in Benches
           /\ order.skipBackups \in BOOLEAN
           /\ order.kind \in {"migrate", "pull", "recoverMigrate", "recoverPull", "recover",
                              "restoreTables"}
           /\ order.kind \notin Stays => Source # Target
BY AdjacentOrder DEF Adjacent, Order, Updates, Recoveries, Source, Target

\* A step of the site's job ends.
StepEnds(name) ==
    /\ Here = name /\ OnPlan'
    /\ \A n \in Neighbours : Step(n)' = Step(n) /\ Bench(n)' = Bench(n) /\ plan'[n] = plan[n]
    /\ name = "open" => \/ order.kind \in Updates /\ Here' = "maintain"
                        \/ order.kind \in MoveBack /\ Here' = "move"
                        \/ order.kind = "restoreTables" /\ Here' = "chooseAll"
                        \/ order.kind = "recover" /\ Here' = "activate"
    /\ name = "maintain" => Here' = "wait"
    /\ name = "wait" => Here' = IF WithDumps(order) THEN "clear" ELSE "move"
    /\ name = "clear" => Here' = "list"
    /\ name = "list" => Here' = "dump"
    /\ name = "dump" => Here' = "move"
    /\ name = "move" => Here' = "read" /\ There' = Source
    /\ name = "read" => Here' = "render" /\ There' = There
    /\ name = "render" => Here' = "write" /\ There' = There
    /\ name = "write" => Here' = "reload" /\ There' = There
    /\ name = "reload" /\ There = Source => Here' = "read" /\ There' = Target
    /\ name = "reload" /\ There = Target =>
         \/ Here' = "reload" /\ There' = Target
         \/ order.kind = "migrate" /\ Here' = "setUp"
         \/ Restores(order) /\ Here' = "choose"
         \/ order.kind # "migrate" /\ ~Restores(order) /\ Here' = "activate"
    /\ name = "setUp" => Here' = "alter"
    /\ name = "alter" => Here' = "activate"
    /\ name \in {"choose", "chooseAll"} => Here' = "restore"
    /\ name = "restore" => Here' = IF order.kind = "recoverMigrate" THEN "drop" ELSE "activate"
    /\ name = "drop" => Here' = "activate"
    /\ name = "activate" => Here' = IF order.kind = "migrate" THEN "index" ELSE "idle"
    /\ name = "index" => Here' = "idle"

\* The end of a step by its name: which steps may come next, and at which bench.
LEMMA SiteSteps ==
    ASSUME TypeOK, OrderSound, OnPlan, NEW name, At("site", name), Proceed("site"),
           UNCHANGED order
    PROVE  StepEnds(name)
<1>1. plan["site"] # <<>> /\ Here = name
  BY DEF At, Here, Step
<1>2. /\ OnPlan'
      /\ \A n \in Neighbours : Step(n)' = Step(n) /\ Bench(n)' = Bench(n) /\ plan'[n] = plan[n]
      /\ \/ Here' = "idle" /\ Ends(order, <<Here, There>>)
         \/ /\ StepOf(order, <<Here', There'>>)
            /\ Follows(order, <<Here, There>>, <<Here', There'>>)
  BY <1>1, SiteProceeds
<1>3. order.kind \notin Stays => Source # Target
  BY OrderIs
<1>4. Here \in InNginx => order.kind \notin Stays
  BY StepIs
<1> HIDE DEF Here, There
<1>5. CASE Here' = "idle" /\ Ends(order, <<Here, There>>)
  <2>1. name = IF order.kind = "migrate" THEN "index" ELSE "activate"
    BY <1>1, <1>5 DEF Ends
  <2> QED BY <1>1, <1>2, <1>5, <2>1 DEF StepEnds
<1>6. CASE /\ StepOf(order, <<Here', There'>>)
           /\ Follows(order, <<Here, There>>, <<Here', There'>>)
  <2>1. Here' = "index" => order.kind = "migrate"
    BY <1>6 DEF StepOf
  <2>2. Here \in InNginx => Source # Target
    BY <1>3, <1>4
  <2> QED BY <1>1, <1>2, <1>6, <2>1, <2>2
       DEF StepEnds, Follows, AfterReload, Source, Target, InNginx
<1> QED BY <1>2, <1>5, <1>6

(***************************************************************************)
(* Types.                                                                  *)
(***************************************************************************)

LEMMA ContentIs ==
    ASSUME NEW c \in Content, NEW v, NEW r
    PROVE  c = [version |-> v, rows |-> r, whole |-> TRUE]
             <=> c.version = v /\ c.rows = r /\ c.whole
BY DEF Content

\* The type invariant, for the steps of the site, of NGINX, and for interruptions.
LEMMA TypedSite ==
    ASSUME TypeOK, OrderSound, OnPlan, SiteStep
    PROVE  TypeOK'
<1> USE DEF siteVars, dataVars, fileVars, jobVars, nginxVars
<1>0. Absent \in Content /\ "site" \in Processes
  BY UpdateAssumption DEF Absent, Content, Processes, Benches
<1>1. CASE Open
  <2>1. CASE Advance("open") /\ UNCHANGED <<siteVars, committed, previous, todo>>
    BY <1>1, <2>1 DEF Open, Advance, TypeOK
  <2>2. CASE Fail("site") /\ UNCHANGED faults
    BY <1>0, <1>1, <2>2 DEF Open, Fail, TypeOK
  <2> QED BY <1>1, <2>1, <2>2 DEF Open
<1>2. CASE EnableMaintenanceMode
  BY <1>2 DEF EnableMaintenanceMode, Advance, TypeOK
<1>3. CASE WaitTillReady
  BY <1>3 DEF WaitTillReady, Advance, TypeOK
<1>4. CASE WaitTimesOut
  BY <1>0, <1>4 DEF WaitTimesOut, Fail, TypeOK
<1>5. CASE ClearBackupDirectory
  BY <1>0, <1>5 DEF ClearBackupDirectory, Advance, TypeOK
<1>6. CASE ListTables
  BY <1>6 DEF ListTables, Advance, TypeOK, Existing
<1>7. CASE MoveSite
  <2>1. Here = "move"
    BY <1>7 DEF MoveSite, Advance, At, Here, Step
  <2>2. There \in Benches
    BY <2>1, StepIs
  <2>3. PICK rest \in {"none", "leftover"} :
          dir' = [dir EXCEPT ![Place] = rest, ![There] = "site"]
    BY <1>7 DEF MoveSite, There
  <2>4. Place \in Benches /\ \A b \in Benches : dir[b] = "site" <=> b = Place
    BY PlaceIs
  <2>5. \A c \in Benches : dir'[c] = "site" <=> c = There
    BY <2>2, <2>3, <2>4 DEF TypeOK
  <2>6. dir' \in [Benches -> {"none", "leftover", "site"}]
    BY <2>3 DEF TypeOK
  <2> QED BY <1>7, <2>2, <2>5, <2>6 DEF MoveSite, Advance, TypeOK
<1>8. CASE SetUpMigration
  <2>1. Here = "setUp"
    BY <1>8 DEF SetUpMigration, Advance, At, Here, Step
  <2>2. There \in Benches
    BY <2>1, StepIs
  <2>3. Changes[There] \subseteq Tables
    BY <2>2, UpdateAssumption
  <2>4. todo' \subseteq Tables
    BY <1>8, <2>3 DEF SetUpMigration, There
  <2>5. touched' \in (SUBSET Tables) \cup {None}
    BY <1>8 DEF SetUpMigration
  <2> QED BY <1>8, <2>4, <2>5 DEF SetUpMigration, Advance, TypeOK
<1>9. CASE EndMigration
  <2>1. Here = "alter"
    BY <1>9 DEF EndMigration, Advance, At, Here, Step
  <2>2. There \in Benches
    BY <2>1, StepIs
  <2>3. Altered \subseteq Tables
    BY <2>2, UpdateAssumption DEF Altered, There
  <2> QED BY <1>9, <2>3 DEF EndMigration, Advance, TypeOK
<1>10. CASE ChooseTouchedTables
  BY <1>10 DEF ChooseTouchedTables, Advance, TypeOK, Dumped
<1>11. CASE ChooseAllTables
  BY <1>11 DEF ChooseAllTables, Advance, TypeOK, Dumped
<1>12. CASE EndOfStep
  BY <1>12 DEF EndOfStep, Advance, TypeOK
<1>13. CASE DisableMaintenanceMode
  BY <1>13 DEF DisableMaintenanceMode, Advance, TypeOK
<1>14. ASSUME NEW t \in Tables, TableStep(t) PROVE TypeOK'
  <2>1. CASE DumpTable(t)
    BY <2>1 DEF DumpTable, DoneWith, TypeOK
  <2>2. CASE AlterTable(t)
    <3>1. Here = "alter"
      BY <2>2 DEF AlterTable, DoneWith, At, Here, Step
    <3>2. There \in 0..NumBenches
      BY <3>1, StepIs, UpdateAssumption DEF Benches
    <3>3. [table EXCEPT ![t].version = There, ![t].whole = TRUE] \in [Tables -> Content]
      <4> DEFINE altered == [table[t] EXCEPT !.version = There, !.whole = TRUE]
      <4>1. table \in [Tables -> Content] /\ table[t] \in Content
        BY DEF TypeOK
      <4>2. altered \in Content
        BY <3>2, <4>1 DEF Content
      <4>3. [table EXCEPT ![t].version = There, ![t].whole = TRUE] = [table EXCEPT ![t] = altered]
        BY <4>1 DEF Content
      <4> HIDE DEF altered
      <4> QED BY <4>1, <4>2, <4>3
    <3> QED BY <2>2, <3>3 DEF AlterTable, DoneWith, TypeOK, There
  <2>3. CASE RestoreTable(t)
    BY <2>3 DEF RestoreTable, DoneWith, TypeOK
  <2>4. CASE DropNewTable(t)
    BY <1>0, <2>4 DEF DropNewTable, TypeOK
  <2> QED BY <1>14, <2>1, <2>2, <2>3, <2>4 DEF TableStep
<1> QED BY <1>1, <1>2, <1>3, <1>4, <1>5, <1>6, <1>7, <1>8, <1>9, <1>10, <1>11, <1>12,
           <1>13, <1>14 DEF SiteStep

LEMMA TypedNginx ==
    ASSUME TypeOK, OrderSound, OnPlan, NEW p \in Processes, NginxStep(p)
    PROVE  TypeOK'
<1> USE DEF siteVars, dataVars, fileVars, jobVars, nginxVars
<1>1. CASE ReadSites(p)
  BY <1>1 DEF ReadSites, AdvanceNginx, TypeOK
<1>2. CASE OpenConf(p)
  BY <1>2 DEF OpenConf, AdvanceNginx, TypeOK
<1>3. CASE WriteConf(p)
  <2>1. lock' \in [Benches -> Processes \cup {None}]
    BY <1>3 DEF WriteConf, TypeOK
  <2>2. conf' \in [Benches -> {"with", "without", "torn"}]
    BY <1>3 DEF WriteConf, TypeOK
  <2>3. listed' \in [Processes -> BOOLEAN]
    BY <1>3 DEF WriteConf, TypeOK
  <2> QED BY <1>3, <2>1, <2>2, <2>3 DEF WriteConf, AdvanceNginx, TypeOK
<1>4. CASE ReloadNginx(p)
  BY <1>4 DEF ReloadNginx, AdvanceNginx, TypeOK
<1>5. CASE ReloadRaises(p)
  BY <1>5 DEF ReloadRaises, Fail, TypeOK
<1> QED BY <1>1, <1>2, <1>3, <1>4, <1>5 DEF NginxStep

\* A dump or a table that was cut off differs from the whole one only in that.
LEMMA TornContent == ASSUME NEW c \in Content PROVE Torn(c) \in Content /\ Torn(c).rows = c.rows
BY DEF Torn, Content

LEMMA TypedInterrupt ==
    ASSUME TypeOK, OrderSound, OnPlan, NEW p \in Processes, NEW kind \in {"killed", "raised"},
           Interrupt(p, kind)
    PROVE  TypeOK'
<1> USE DEF siteVars, dataVars, fileVars, jobVars, nginxVars
<1>1. table \in [Tables -> Content] /\ dump \in [Tables -> Content] /\ todo \subseteq Tables
  BY DEF TypeOK
<1>2. dump' \in [Tables -> Content]
  <2>1. CASE UNCHANGED dump
    BY <1>1, <2>1
  <2>2. CASE \E t \in todo : dump' = [dump EXCEPT ![t] = Torn(table[t])]
    <3>1. PICK t \in todo : dump' = [dump EXCEPT ![t] = Torn(table[t])]
      BY <2>2
    <3>2. Torn(table[t]) \in Content
      BY <1>1, TornContent
    <3> QED BY <1>1, <3>1, <3>2
  <2> QED BY <2>1, <2>2 DEF Interrupt
<1>3. table' \in [Tables -> Content]
  <2>1. CASE UNCHANGED table
    BY <1>1, <2>1
  <2>2. CASE \E t \in todo : table' = [table EXCEPT ![t] = Torn(dump[t])]
    <3>1. PICK t \in todo : table' = [table EXCEPT ![t] = Torn(dump[t])]
      BY <2>2
    <3>2. Torn(dump[t]) \in Content
      BY <1>1, TornContent
    <3> QED BY <1>1, <3>1, <3>2
  <2> QED BY <2>1, <2>2 DEF Interrupt
<1>4. touched' \in (SUBSET Tables) \cup {None}
  <2>1. CASE p = "site" /\ At(p, "alter") /\ kind = "raised"
    <3>1. Here = "alter"
      BY <2>1 DEF At, Here, Step
    <3>2. There \in Benches
      BY <3>1, StepIs
    <3>3. Altered \subseteq Tables
      BY <3>2, UpdateAssumption DEF Altered, There
    <3>4. touched' = Altered
      BY <2>1 DEF Interrupt
    <3> QED BY <3>3, <3>4
  <2>2. CASE ~ (p = "site" /\ At(p, "alter") /\ kind = "raised")
    <3>1. touched' = touched
      BY <2>2 DEF Interrupt
    <3> QED BY <3>1 DEF TypeOK
  <2> QED BY <2>1, <2>2
<1>5. Fail(p) /\ faults' = faults + 1 /\ faults < MaxFaults
  BY DEF Interrupt, Fault
<1>6. todo' \subseteq Tables /\ lock' \in [Benches -> Processes \cup {None}]
      /\ failed' \in [Processes -> BOOLEAN]
  BY <1>5 DEF Fail, TypeOK
<1>7. faults' \in 0..MaxFaults
  BY <1>5, UpdateAssumption DEF TypeOK
<1> QED BY <1>2, <1>3, <1>4, <1>5, <1>6, <1>7 DEF Fail, TypeOK

\* A user commits a row to one table.
LEMMA CommittedRows ==
    ASSUME TypeOK, NEW t \in Tables, \A u \in Tables : committed[u] < MaxWrites, RowsKept,
           table' = [table EXCEPT ![t].rows = @ + 1],
           committed' = [committed EXCEPT ![t] = @ + 1]
    PROVE  /\ table' \in [Tables -> Content] /\ committed' \in [Tables -> 0..MaxWrites]
           /\ RowsKept'
<1>1. committed[t] \in Nat /\ committed[t] < MaxWrites /\ MaxWrites \in Nat
  BY UpdateAssumption DEF TypeOK
<1>2. committed[t] + 1 \in 0..MaxWrites
  BY <1>1
<1>3. table[t].rows = committed[t]
  BY DEF RowsKept
<1>4. table[t].rows + 1 \in 0..MaxWrites
  BY <1>2, <1>3
<1>5. table' \in [Tables -> Content]
  BY <1>4 DEF TypeOK, Content
<1>6. committed' \in [Tables -> 0..MaxWrites]
  BY <1>2 DEF TypeOK
<1>7. ASSUME NEW u \in Tables PROVE table'[u].rows = committed'[u]
  <2>1. table[u].rows = committed[u]
    BY DEF RowsKept
  <2> QED BY <2>1 DEF TypeOK, Content
<1> QED BY <1>5, <1>6, <1>7 DEF RowsKept

\* What press orders after a failed update, according to where the site is.
LEMMA RecoveryIs ==
    ASSUME TypeOK, OrderSound, PlaceSound
    PROVE  LET r == RecoveryOf(order)
           IN  /\ r \in Order /\ r.skipBackups = order.skipBackups
               /\ \/ /\ order.kind \in Updates /\ Place = Target
                     /\ r.kind = IF order.kind = "migrate" THEN "recoverMigrate" ELSE "recoverPull"
                     /\ r.source = Target /\ r.target = Source
                  \/ /\ order.kind \in Updates /\ Place = Source
                     /\ r.kind = "recover" /\ r.source = Source /\ r.target = Source
                  \/ /\ order.kind = "recoverMigrate" /\ Place = Target
                     /\ r.kind = IF order.skipBackups THEN "recover" ELSE "restoreTables"
                     /\ r.source = Source /\ r.target = Target
                  \/ /\ order.kind = "recoverPull" /\ Place = Target
                     /\ r.kind = "recover" /\ r.source = Source /\ r.target = Target
                  \/ /\ order.kind \in MoveBack => Place = Source
                     /\ order.kind \notin Updates /\ r = order
<1>1. /\ order \in Order /\ Source \in Benches /\ Target \in Benches
      /\ order.kind \in {"migrate", "pull", "recoverMigrate", "recoverPull", "recover",
                         "restoreTables"}
      /\ order.kind \notin Stays => Source # Target
  BY OrderIs
<1>2. order = [kind |-> order.kind, source |-> Source, target |-> Target,
               skipBackups |-> order.skipBackups]
  BY <1>1 DEF Order, Source, Target
<1>3. Place \in {Source, Target}
  BY DEF PlaceSound
<1>4. CASE order.kind \in Updates /\ Place = Target
  <2>1. Source # Target /\ order.kind # "recoverMigrate" /\ order.kind # "recoverPull"
    BY <1>1, <1>4 DEF Updates, Stays
  <2>2. Place # order.source /\ Place = order.target
    BY <1>4, <2>1 DEF Source, Target
  <2>3. RecoveryOf(order) =
          [order EXCEPT !.kind = IF @ = "migrate" THEN "recoverMigrate" ELSE "recoverPull",
                        !.source = order.target, !.target = order.source]
    BY <1>4, <2>1, <2>2, Zenon DEF RecoveryOf
  <2>4. RecoveryOf(order) \in Order
    BY <1>1, <2>3 DEF Order, Recoveries, Source, Target
  <2> QED BY <1>2, <1>4, <2>3, <2>4 DEF Source, Target
<1>5. CASE order.kind \in Updates /\ Place = Source
  <2>1. Source # Target
    BY <1>1, <1>5 DEF Updates, Stays
  <2>2. Place # order.target /\ Place = order.source
    BY <1>5, <2>1 DEF Source, Target
  <2>3. RecoveryOf(order) = [order EXCEPT !.kind = "recover", !.target = order.source]
    BY <1>5, <2>2, Zenon DEF RecoveryOf
  <2>4. RecoveryOf(order) \in Order
    BY <1>1, <2>3 DEF Order, Recoveries, Source, Target
  <2> QED BY <1>2, <1>5, <2>3, <2>4 DEF Source, Target
<1>6. CASE order.kind = "recoverMigrate" /\ Place = Target
  <2>1. order.kind \notin Updates /\ order.kind # "recoverPull"
    BY <1>6 DEF Updates
  <2>2. RecoveryOf(order) =
          [order EXCEPT !.kind = IF order.skipBackups THEN "recover" ELSE "restoreTables"]
    BY <1>6, <2>1, Zenon DEF RecoveryOf, Target
  <2>3. RecoveryOf(order) \in Order
    BY <1>1, <2>2 DEF Order, Recoveries, Source, Target
  <2> QED BY <1>2, <1>6, <2>2, <2>3 DEF Source, Target
<1>7. CASE order.kind = "recoverPull" /\ Place = Target
  <2>1. order.kind \notin Updates /\ order.kind # "recoverMigrate"
    BY <1>7 DEF Updates
  <2>2. RecoveryOf(order) = [order EXCEPT !.kind = "recover"]
    BY <1>7, <2>1, Zenon DEF RecoveryOf, Target
  <2>3. RecoveryOf(order) \in Order
    BY <1>1, <2>2 DEF Order, Recoveries, Source, Target
  <2> QED BY <1>2, <1>7, <2>2, <2>3 DEF Source, Target
<1>8. CASE order.kind \notin Updates /\ (order.kind \in MoveBack => Place # Target)
  <2>1. /\ ~ (order.kind = "recoverMigrate" /\ Place = order.target)
        /\ ~ (order.kind = "recoverPull" /\ Place = order.target)
    BY <1>8 DEF MoveBack, Target
  <2>2. RecoveryOf(order) = order
    BY <1>8, <2>1, Zenon DEF RecoveryOf
  <2> QED BY <1>1, <1>3, <1>8, <2>2
<1> QED BY <1>3, <1>4, <1>5, <1>6, <1>7, <1>8 DEF MoveBack, Updates

(***************************************************************************)
(* The users, the background jobs and press.                               *)
(***************************************************************************)

\* What does not touch a configuration, a lock or a job of NGINX keeps its part.
LEMMA NginxKept ==
    ASSUME OnPlan, Nginx, UNCHANGED <<dir, maintenance, order, plan, failed, nginxVars>>
    PROVE  Nginx'
<1> USE DEF nginxVars
<1>1. /\ Here' = Here /\ There' = There /\ Place' = Place
      /\ \A p \in Processes : Step(p)' = Step(p) /\ Bench(p)' = Bench(p)
  BY PlanKept, PlaceKept
<1>2. LocksSound'
  BY <1>1 DEF LocksSound, Nginx
<1>3. NeighboursFine' = NeighboursFine /\ (\A b \in Benches : Right(b)' <=> Right(b))
  BY <1>1 DEF NeighboursFine, Right
<1>4. \A b \in Benches : MayBeStale(b)' <=> MayBeStale(b)
  BY <1>1 DEF MayBeStale, Unmoved, Source, Target
<1>5. ConfSound'
  BY <1>3, <1>4 DEF ConfSound, Nginx
<1>6. (ReloadToCome' <=> ReloadToCome) /\ (LeadsThere' <=> LeadsThere)
  BY <1>1 DEF ReloadToCome, LeadsThere
<1>7. LiveSound'
  BY <1>3, <1>6 DEF LiveSound, Nginx
<1> QED BY <1>2, <1>5, <1>7 DEF Nginx

\* Nothing of the data matters to a user who may write.
LEMMA UsersMayWrite ==
    ASSUME IInv, ~maintenance \/ busy
    PROVE  /\ ~DumpsWanted /\ ~RecordWanted
           /\ Here \notin {"list", "dump", "alter", "restore", "drop"}
           /\ ~ (order.kind = "migrate" /\ Here \in {"move", "setUp"} \cup InNginx)
<1>1. /\ TypeOK /\ OnPlan /\ OrderSound /\ PlaceSound /\ MaintenanceSound /\ Quiet
  BY DEF IInv, Control
<1>2. order.kind \notin Stays => Source # Target
  BY <1>1, OrderIs
<1>3. /\ Here \in {"clear", "list", "dump"} => WithDumps(order)
      /\ Here \in {"setUp", "alter", "index"} => order.kind = "migrate"
      /\ Here \in {"choose", "drop"} => Restores(order)
      /\ Here = "restore" => Restores(order) \/ order.kind = "restoreTables"
  BY <1>1, StepIs
<1>4. ~ (MustBeQuiet /\ maintenance)
  BY <1>1 DEF Quiet
<1> QED BY <1>1, <1>2, <1>3, <1>4
     DEF PlaceSound, MaintenanceSound, MustBeQuiet, DumpsWanted, RecordWanted, WithDumps,
         Restores, Updates, MoveBack, Stays, Recoveries, AfterMove, InNginx

\* An action at a time: the background jobs of the site and its users.
LEMMA StartBackgroundJobStep == ASSUME IInv, StartBackgroundJob PROVE IInv'
<1> USE DEF siteVars, dataVars, fileVars, jobVars, nginxVars
<1>1. TypeOK /\ OnPlan /\ Control /\ Data /\ Nginx
  BY DEF IInv
<1>2. UNCHANGED <<dir, maintenance, table, committed, dump, previous, touched, order, plan,
                  todo, failed, conf, live, lock, listed, updates, faults>>
      /\ busy' = TRUE /\ ~maintenance
  BY DEF StartBackgroundJob
<1>3. /\ OnPlan' /\ Here' = Here /\ There' = There /\ Place' = Place
  BY <1>1, <1>2, PlanKept, PlaceKept
<1>4. TypeOK'
  BY <1>1, <1>2 DEF TypeOK
<1>5. OrderSound' /\ PlaceSound' /\ MaintenanceSound' /\ Running'
  BY <1>1, <1>2, <1>3
     DEF Control, OrderSound, PlaceSound, MaintenanceSound, Running, Source, Target
<1>6. ~MustBeQuiet'
  BY <1>1, <1>2, <1>3 DEF Control, MustBeQuiet, MaintenanceSound, Source, Target
<1>7. Data'
  BY <1>1, <1>2, <1>3
     DEF Data, RowsKept, DumpsHold, DumpsWanted, DumpsFit, Origin, Dumping, NothingDumped,
         BeingDumped, NotYetAltered, AsDumped, FitsAll, Fits, Altering, PartlyAltered,
         RecordHolds, RecordWanted, Recorded, Restoring, RestoredBut, Served, MustFit,
         Source, Target
<1>8. Nginx'
  BY <1>1, <1>2, NginxKept
<1> QED BY <1>3, <1>4, <1>5, <1>6, <1>7, <1>8 DEF IInv, Control, Quiet

LEMMA EndBackgroundJobStep == ASSUME IInv, EndBackgroundJob PROVE IInv'
<1> USE DEF siteVars, dataVars, fileVars, jobVars, nginxVars
<1>1. TypeOK /\ OnPlan /\ Control /\ Data /\ Nginx
  BY DEF IInv
<1>2. UNCHANGED <<dir, maintenance, table, committed, dump, previous, touched, order, plan,
                  todo, failed, conf, live, lock, listed, updates, faults>> /\ busy' = FALSE
  BY DEF EndBackgroundJob
<1>3. /\ OnPlan' /\ Here' = Here /\ There' = There /\ Place' = Place
  BY <1>1, <1>2, PlanKept, PlaceKept
<1>4. TypeOK'
  BY <1>1, <1>2 DEF TypeOK
<1>5. OrderSound' /\ PlaceSound' /\ MaintenanceSound' /\ Running'
  BY <1>1, <1>2, <1>3
     DEF Control, OrderSound, PlaceSound, MaintenanceSound, Running, Source, Target
<1>6. Data'
  BY <1>1, <1>2, <1>3
     DEF Data, RowsKept, DumpsHold, DumpsWanted, DumpsFit, Origin, Dumping, NothingDumped,
         BeingDumped, NotYetAltered, AsDumped, FitsAll, Fits, Altering, PartlyAltered,
         RecordHolds, RecordWanted, Recorded, Restoring, RestoredBut, Served, MustFit,
         Source, Target
<1>7. Nginx'
  BY <1>1, <1>2, NginxKept
<1> QED BY <1>2, <1>3, <1>4, <1>5, <1>6, <1>7 DEF IInv, Control, Quiet

LEMMA CommitRowStep == ASSUME IInv, NEW t \in Tables, CommitRow(t) PROVE IInv'
<1> USE DEF siteVars, dataVars, fileVars, jobVars, nginxVars
<1>1. TypeOK /\ OnPlan /\ Control /\ Data /\ Nginx /\ RowsKept
  BY DEF IInv, Data
<1>2. /\ UNCHANGED <<dir, maintenance, busy, dump, previous, touched, order, plan, todo,
                     failed, conf, live, lock, listed, updates, faults>>
      /\ ~maintenance \/ busy
      /\ VersionAt(Place, t) # 0
      /\ \A u \in Tables : committed[u] < MaxWrites
      /\ table' = [table EXCEPT ![t].rows = @ + 1]
      /\ committed' = [committed EXCEPT ![t] = @ + 1]
  BY DEF CommitRow
<1>3. /\ OnPlan' /\ Here' = Here /\ There' = There /\ Place' = Place
  BY <1>1, <1>2, PlanKept, PlaceKept
<1>4. RowsKept' /\ table' \in [Tables -> Content] /\ committed' \in [Tables -> 0..MaxWrites]
  BY <1>1, <1>2, CommittedRows
<1>5. TypeOK'
  BY <1>1, <1>2, <1>4 DEF TypeOK
<1>6. Control'
  BY <1>1, <1>2, <1>3 DEF Control, OrderSound, PlaceSound, MaintenanceSound, Running, Quiet,
     MustBeQuiet, Source, Target
<1>7. /\ ~DumpsWanted' /\ ~RecordWanted'
      /\ Here' \notin {"list", "dump", "alter", "restore", "drop"}
      /\ ~ (order'.kind = "migrate" /\ Here' \in {"move", "setUp"} \cup InNginx)
  <2>1. /\ ~DumpsWanted /\ ~RecordWanted
        /\ Here \notin {"list", "dump", "alter", "restore", "drop"}
        /\ ~ (order.kind = "migrate" /\ Here \in {"move", "setUp"} \cup InNginx)
    BY <1>2, UsersMayWrite
  <2> QED BY <1>2, <1>3, <2>1 DEF DumpsWanted, RecordWanted, Source, Target
<1>8. Served'
  <2>1. MustFit' => MustFit
    BY <1>2, <1>3 DEF MustFit, Source, Target
  <2>2. ASSUME FitsAll(Place), NEW u \in Tables PROVE Fits(table[u], Place, u)'
    <3>1. VersionAt(Place, u) # 0 =>
            table[u] = [version |-> VersionAt(Place, u), rows |-> committed[u], whole |-> TRUE]
      BY <2>2 DEF FitsAll, Fits
    <3>2. CASE u = t
      <4>1. table[t] = [version |-> VersionAt(Place, t), rows |-> committed[t], whole |-> TRUE]
        BY <1>2, <3>1, <3>2
      <4>2. committed'[t] = committed[t] + 1
        BY <1>1, <1>2 DEF TypeOK
      <4>3. table'[t] = [table[t] EXCEPT !.rows = @ + 1]
        BY <1>1, <1>2 DEF TypeOK
      <4>4. table'[t].version = table[t].version /\ table'[t].rows = committed'[t]
            /\ table'[t].whole = table[t].whole
        BY <1>1, <1>4, <4>3 DEF RowsKept, TypeOK, Content
      <4>5. table'[t] = [version |-> VersionAt(Place, t), rows |-> committed'[t], whole |-> TRUE]
        <5>1. table[t] \in Content /\ table'[t] \in Content
          BY <1>1, <1>4 DEF TypeOK
        <5>2. table[t].version = VersionAt(Place, t) /\ table[t].whole
          BY <4>1
        <5>3. /\ table'[t].version = VersionAt(Place, t) /\ table'[t].rows = committed'[t]
              /\ table'[t].whole
          BY <4>4, <5>2
        <5>4. \A v, r : table'[t] = [version |-> v, rows |-> r, whole |-> TRUE]
                        <=> table'[t].version = v /\ table'[t].rows = r /\ table'[t].whole
          BY <5>1, ContentIs
        <5> QED BY <5>3, <5>4
      <4> QED BY <1>3, <3>2, <4>5 DEF Fits
    <3>3. CASE u # t
      <4>1. table'[u] = table[u] /\ committed'[u] = committed[u]
        BY <1>1, <1>2, <3>3 DEF TypeOK
      <4> QED BY <1>3, <3>1, <4>1 DEF Fits
    <3> QED BY <3>2, <3>3
  <2>3. FitsAll(Place) => FitsAll(Place)'
    BY <2>2 DEF FitsAll
  <2> QED BY <1>1, <2>1, <2>3 DEF Served, Data
<1>9. Data'
  BY <1>4, <1>7, <1>8 DEF Data, DumpsHold, Dumping, NotYetAltered, Altering, RecordHolds, Restoring
<1>10. Nginx'
  BY <1>1, <1>2, NginxKept
<1> QED BY <1>3, <1>5, <1>6, <1>9, <1>10 DEF IInv

(***************************************************************************)
(* What press asks for.                                                    *)
(***************************************************************************)

\* A new job leaves NGINX as it is.
LEMMA AskNginx ==
    ASSUME TypeOK, OnPlan, Nginx, Here = "idle", UNCHANGED <<dir, maintenance, nginxVars>>,
           NEW o \in Order, Adjacent(o), Ask(o),
           \A b \in Benches : MayBeStale(b) => MayBeStale(b)'
    PROVE  Nginx'
<1> USE DEF nginxVars
<1>1. /\ Here' = "open" /\ Place' = Place
      /\ \A n \in Neighbours :
           Step(n)' = Step(n) /\ Bench(n)' = Bench(n) /\ plan'[n] = plan[n]
  BY PlanBegins, PlaceKept
<1>2. /\ failed' = [failed EXCEPT !["site"] = FALSE] /\ failed \in [Processes -> BOOLEAN]
      /\ \A n \in Neighbours : n \in Processes /\ n # "site"
  BY UpdateAssumption DEF Ask, TypeOK, Processes
<1>3. NeighboursFine' = NeighboursFine /\ \A b \in Benches : Right(b)' <=> Right(b)
  BY <1>1, <1>2 DEF NeighboursFine, Right
<1>4. LocksSound'
  <2>1. ASSUME NEW b \in Benches, NEW p \in Processes
        PROVE  lock[b] = p <=> Step(p)' \in {"render", "write"} /\ Bench(p)' = b
    <3>1. lock[b] = p <=> Step(p) \in {"render", "write"} /\ Bench(p) = b
      BY DEF LocksSound, Nginx
    <3>2. CASE p = "site"
      <4>1. Step(p) = "idle" /\ Step(p)' = "open"
        BY <1>1, <3>2 DEF Here
      <4> QED BY <3>1, <4>1
    <3>3. CASE p # "site"
      BY <1>1, <3>1, <3>3 DEF Processes
    <3> QED BY <3>2, <3>3
  <2> QED BY <2>1 DEF LocksSound
<1>5. ConfSound'
  BY <1>3 DEF ConfSound, Nginx
<1>6. LiveSound'
  BY <1>1 DEF LiveSound, ReloadToCome, BeforeMove
<1> QED BY <1>4, <1>5, <1>6 DEF Nginx

\* Press, which orders an update only of a site that is in order, and a recovery of one that
\* failed. Orders are where the plans of the jobs are chosen.
LEMMA OrderUpdateStep == ASSUME IInv, OrderUpdate PROVE IInv'
<1> USE DEF siteVars, dataVars, fileVars, jobVars, nginxVars
<1>1. /\ TypeOK /\ OnPlan /\ Control /\ Data /\ Nginx
      /\ OrderSound /\ PlaceSound /\ MaintenanceSound
  BY DEF IInv, Control
<1>2. PICK kind \in Updates, skip \in BOOLEAN :
        /\ kind = "pull" => Changes[Place + 1] = {} /\ ~skip
        /\ Ask([kind |-> kind, source |-> Place, target |-> Place + 1, skipBackups |-> skip])
  BY DEF OrderUpdate
<1> DEFINE o == [kind |-> kind, source |-> Place, target |-> Place + 1, skipBackups |-> skip]
<1>3. /\ plan["site"] = <<>> /\ ~maintenance /\ ~Forfeited /\ Place < NumBenches
      /\ updates < MaxUpdates /\ updates' = updates + 1
      /\ UNCHANGED <<dir, maintenance, busy, table, committed, dump, previous, touched,
                     conf, live, lock, listed, faults>>
  BY DEF OrderUpdate, Idle
<1>4. Place \in Benches /\ Place' = Place /\ Place \in Nat /\ Place + 1 \in Benches
  BY <1>1, <1>3, PlaceIs, PlaceKept, UpdateAssumption DEF Benches
<1>5. /\ kind \in {"migrate", "pull"} /\ o \in Order /\ Adjacent(o) /\ Ask(o)
      /\ o.kind = kind /\ o.source = Place /\ o.target = Place + 1 /\ o.skipBackups = skip
  BY <1>2, <1>4 DEF Order, Adjacent, Updates, Stays
<1> HIDE DEF o
<1>6. OnPlan' /\ Here' = "open"
  BY <1>1, <1>5, PlanBegins
<1>7. /\ order' = o /\ todo' = todo /\ failed' = [failed EXCEPT !["site"] = FALSE]
      /\ plan' = [plan EXCEPT !["site"] = Handler(o)]
  BY <1>5 DEF Ask
<1>8. Source' = Place /\ Target' = Place + 1 /\ order'.kind = kind /\ order'.skipBackups = skip
  BY <1>5, <1>7 DEF Source, Target
<1>9. TypeOK'
  <2>1. updates' \in 0..MaxUpdates
    BY <1>1, <1>3, UpdateAssumption DEF TypeOK
  <2>2. failed' \in [Processes -> BOOLEAN] /\ order' \in Order
    BY <1>1, <1>5, <1>7 DEF TypeOK
  <2> QED BY <1>1, <1>3, <1>7, <2>1, <2>2 DEF TypeOK
<1>10. Here = "idle"
  BY <1>1, <1>3, StepIs
<1>11. Control'
  <2>1. OrderSound'
    BY <1>2, <1>5, <1>8 DEF OrderSound, Updates, MoveBack
  <2>2. PlaceSound' /\ MaintenanceSound'
    BY <1>3, <1>4, <1>5, <1>6, <1>8
       DEF PlaceSound, MaintenanceSound, Stays, BeforeMove, AfterMove, InNginx, Recoveries
  <2>3. Running'
    BY <1>1, <1>7, UpdateAssumption DEF Running, TypeOK, Processes
  <2>4. Quiet'
    BY <1>3, <1>4, <1>5, <1>6, <1>8 DEF Quiet, MustBeQuiet, Updates, MoveBack
  <2> QED BY <2>1, <2>2, <2>3, <2>4 DEF Control
<1>12. MustFit
  <2>1. order.kind \in {"migrate", "pull", "recoverMigrate", "recoverPull", "recover",
                        "restoreTables"}
    BY <1>1, OrderIs
  <2> QED BY <1>3, <2>1 DEF MustFit, Forfeited, Recoveries
<1>13. Data'
  <2>1. RowsKept'
    BY <1>1, <1>3 DEF Data, RowsKept
  <2>2. ~DumpsWanted' /\ ~RecordWanted'
    BY <1>4, <1>5, <1>6, <1>8 DEF DumpsWanted, RecordWanted
  <2>3. /\ Here' \notin {"list", "dump", "alter", "restore", "drop"}
        /\ Here' \notin {"move", "setUp"} \cup InNginx
    BY <1>6 DEF InNginx
  <2>4. FitsAll(Place)'
    BY <1>1, <1>3, <1>4, <1>12 DEF Data, Served, FitsAll, Fits
  <2> QED BY <2>1, <2>2, <2>3, <2>4
       DEF Data, DumpsHold, Dumping, NotYetAltered, Altering, RecordHolds, Restoring, Served
<1>14. Nginx'
  <2>1. ASSUME NEW b \in Benches, MayBeStale(b) PROVE MayBeStale(b)'
    <3>1. /\ order.kind \in {"migrate", "pull", "recoverMigrate", "recoverPull", "recover",
                             "restoreTables"}
          /\ Source \in Nat /\ Target \in Nat
      BY <1>1, OrderIs DEF Benches
    <3>2. b \in {Place, Place + 1}
      BY <1>1, <1>3, <1>10, <2>1, <3>1
         DEF MayBeStale, Unmoved, InNginx, BeforeMove, Stays, OrderSound, MaintenanceSound,
             Updates, Recoveries
    <3> QED BY <1>5, <1>6, <1>8, <3>2 DEF MayBeStale, Unmoved, BeforeMove, Stays
  <2> QED BY <1>1, <1>3, <1>5, <1>10, <2>1, AskNginx
<1> QED BY <1>6, <1>9, <1>11, <1>13, <1>14 DEF IInv

\* The same order again.
LEMMA SameOrderAgain ==
    ASSUME IInv, Here = "idle", failed["site"], maintenance, Ask(order),
           UNCHANGED <<siteVars, dataVars, fileVars, nginxVars, updates>>
    PROVE  OnPlan' /\ Control' /\ Data' /\ Nginx'
<1> USE DEF siteVars, dataVars, fileVars, jobVars, nginxVars
<1>1. /\ TypeOK /\ OnPlan /\ Control /\ Data /\ Nginx
      /\ OrderSound /\ PlaceSound /\ MaintenanceSound
  BY DEF IInv, Control
<1>2. order \in Order /\ Adjacent(order)
  BY <1>1, AdjacentOrder
<1>3. OnPlan' /\ Here' = "open" /\ Place' = Place
  BY <1>1, <1>2, PlanBegins, PlaceKept
<1>4. /\ order' = order /\ todo' = todo /\ failed' = [failed EXCEPT !["site"] = FALSE]
      /\ Source' = Source /\ Target' = Target
  BY DEF Ask, Source, Target
<1>5. Control'
  <2>1. OrderSound'
    BY <1>1, <1>4 DEF OrderSound
  <2>2. PlaceSound' /\ MaintenanceSound'
    BY <1>1, <1>3, <1>4 DEF PlaceSound, MaintenanceSound, BeforeMove, AfterMove, InNginx
  <2>3. Running'
    BY <1>1, <1>4, UpdateAssumption DEF Running, TypeOK, Processes
  <2>4. Quiet'
    BY <1>1, <1>3, <1>4 DEF Control, Quiet, MustBeQuiet
  <2> QED BY <2>1, <2>2, <2>3, <2>4 DEF Control
<1>6. Data'
  <2>1. RowsKept'
    BY <1>1 DEF Data, RowsKept
  <2>2. DumpsWanted' => DumpsWanted
    BY <1>3, <1>4 DEF DumpsWanted
  <2>3. DumpsHold'
    BY <1>1, <1>4, <2>2 DEF Data, DumpsHold, DumpsFit, Fits, Origin
  <2>4. RecordWanted' => RecordWanted
    BY <1>3, <1>4 DEF RecordWanted, InNginx
  <2>5. RecordHolds'
    BY <1>1, <2>4 DEF Data, RecordHolds, Recorded
  <2>6. MustFit' => MustFit
    BY <1>3, <1>4 DEF MustFit
  <2>7. Served'
    BY <1>1, <1>3, <2>6 DEF Data, Served, FitsAll, Fits
  <2>8. /\ Here' \notin {"list", "dump", "alter", "restore", "drop"}
        /\ Here' \notin {"move", "setUp"} \cup InNginx
    BY <1>3 DEF InNginx
  <2> QED BY <2>1, <2>3, <2>5, <2>7, <2>8
       DEF Data, Dumping, NotYetAltered, Altering, Restoring
<1>7. Nginx'
  <2>1. ASSUME NEW b \in Benches, MayBeStale(b) PROVE MayBeStale(b)'
    BY <1>3, <1>4, <2>1 DEF MayBeStale, Unmoved, InNginx, BeforeMove
  <2> QED BY <1>1, <1>2, <2>1, AskNginx
<1> QED BY <1>3, <1>5, <1>6, <1>7

LEMMA RepeatOrderStep == ASSUME IInv, RepeatOrder PROVE IInv'
<1> USE DEF siteVars, dataVars, fileVars, jobVars, nginxVars
<1>1. TypeOK /\ OnPlan /\ OrderSound
  BY DEF IInv, Control
<1>2. Here = "idle"
  BY DEF RepeatOrder, Idle, Here, Step
<1>3. OnPlan' /\ Control' /\ Data' /\ Nginx'
  BY <1>2, SameOrderAgain DEF RepeatOrder
<1>4. TypeOK'
  <2>1. failed' \in [Processes -> BOOLEAN] /\ order' = order /\ todo' = todo
    BY <1>1 DEF RepeatOrder, Ask, TypeOK
  <2>2. faults' \in 0..MaxFaults
    BY <1>1, UpdateAssumption DEF RepeatOrder, Fault, TypeOK
  <2> QED BY <1>1, <2>1, <2>2 DEF RepeatOrder, TypeOK
<1> QED BY <1>3, <1>4 DEF IInv

LEMMA OrderRecoveryStep == ASSUME IInv, OrderRecovery PROVE IInv'
<1> USE DEF siteVars, dataVars, fileVars, jobVars, nginxVars
<1> DEFINE r == RecoveryOf(order)
<1>1. /\ TypeOK /\ OnPlan /\ Control /\ Data /\ Nginx
      /\ OrderSound /\ PlaceSound /\ MaintenanceSound /\ Quiet
  BY DEF IInv, Control
<1>2. /\ Here = "idle" /\ failed["site"] /\ maintenance /\ Ask(r)
      /\ UNCHANGED <<dir, maintenance, busy, table, committed, dump, previous, touched,
                     conf, live, lock, listed, updates, faults>>
  BY DEF OrderRecovery, Idle, Here, Step
<1>3. /\ r \in Order /\ r.skipBackups = order.skipBackups
      /\ \/ /\ order.kind \in Updates /\ Place = Target
            /\ r.kind = IF order.kind = "migrate" THEN "recoverMigrate" ELSE "recoverPull"
            /\ r.source = Target /\ r.target = Source
         \/ /\ order.kind \in Updates /\ Place = Source
            /\ r.kind = "recover" /\ r.source = Source /\ r.target = Source
         \/ /\ order.kind = "recoverMigrate" /\ Place = Target
            /\ r.kind = IF order.skipBackups THEN "recover" ELSE "restoreTables"
            /\ r.source = Source /\ r.target = Target
         \/ /\ order.kind = "recoverPull" /\ Place = Target
            /\ r.kind = "recover" /\ r.source = Source /\ r.target = Target
         \/ /\ order.kind \in MoveBack => Place = Source
            /\ order.kind \notin Updates /\ r = order
  BY <1>1, RecoveryIs
<1>4. /\ order \in Order /\ Source \in Benches /\ Target \in Benches
      /\ order.skipBackups \in BOOLEAN
      /\ order.kind \in {"migrate", "pull", "recoverMigrate", "recoverPull", "recover",
                         "restoreTables"}
      /\ order.kind \notin Stays => Source # Target
  BY <1>1, OrderIs
<1>5. CASE r = order
  <2>1. OnPlan' /\ Control' /\ Data' /\ Nginx'
    BY <1>2, <1>5, SameOrderAgain
  <2>2. failed' \in [Processes -> BOOLEAN] /\ order' = order /\ todo' = todo
    BY <1>1, <1>2, <1>5 DEF Ask, TypeOK
  <2>3. TypeOK'
    BY <1>1, <1>2, <2>2 DEF TypeOK
  <2> QED BY <2>1, <2>3 DEF IInv
<1>6. CASE r # order
  <2>1. /\ order' = r /\ todo' = todo /\ failed' = [failed EXCEPT !["site"] = FALSE]
        /\ order'.skipBackups = order.skipBackups /\ Place' = Place
        /\ Source' = r.source /\ Target' = r.target
    BY <1>2, <1>3, PlaceKept DEF Ask, Source, Target
  <2>2. TypeOK'
    <3>1. failed' \in [Processes -> BOOLEAN] /\ order' \in Order
      BY <1>1, <1>3, <2>1 DEF TypeOK
    <3> QED BY <1>1, <1>2, <2>1, <3>1 DEF TypeOK
  <2> HIDE DEF r
  <2>3. /\ Place \in {Source, Target}
        /\ \/ /\ order.kind = "migrate" /\ Place = Target /\ r.kind = "recoverMigrate"
              /\ Source' = Target /\ Target' = Source
           \/ /\ order.kind = "pull" /\ Place = Target /\ r.kind = "recoverPull"
              /\ Source' = Target /\ Target' = Source
           \/ /\ order.kind \in {"migrate", "pull"} /\ Place = Source
              /\ r.kind = "recover" /\ Source' = Source /\ Target' = Source
           \/ /\ order.kind = "recoverMigrate" /\ Place = Target
              /\ r.kind = IF order.skipBackups THEN "recover" ELSE "restoreTables"
              /\ Source' = Source /\ Target' = Target
           \/ /\ order.kind = "recoverPull" /\ Place = Target
              /\ r.kind = "recover" /\ Source' = Source /\ Target' = Target
    BY <1>1, <1>3, <1>6, <2>1 DEF PlaceSound, Updates
  <2>4. /\ Source \in Nat /\ Target \in Nat
        /\ order.kind \in {"migrate", "pull"} => Target = Source + 1
        /\ order.kind \in {"recoverMigrate", "recoverPull"} => Source = Target + 1
        /\ order.kind = "pull" => Changes[Target] = {} /\ ~order.skipBackups
        /\ order.kind = "recoverPull" => Changes[Source] = {} /\ ~order.skipBackups
    BY <1>1, <1>4 DEF OrderSound, Updates, MoveBack, Benches
  <2>5. OnPlan' /\ Here' = "open"
    <3>1. Adjacent(r)
      BY <1>4, <2>1, <2>3, <2>4 DEF Adjacent, Stays
    <3> QED BY <1>1, <1>2, <1>3, <3>1, PlanBegins DEF r
  <2>6. Control'
    <3>1. OrderSound'
      BY <2>1, <2>3, <2>4 DEF OrderSound, Updates, MoveBack
    <3>2. PlaceSound' /\ MaintenanceSound'
      BY <1>2, <2>1, <2>3, <2>5
         DEF PlaceSound, MaintenanceSound, BeforeMove, AfterMove, InNginx, Stays
    <3>3. Running'
      BY <1>1, <2>1, UpdateAssumption DEF Running, TypeOK, Processes
    <3>4. Quiet'
      BY <1>1, <1>2, <2>1, <2>3, <2>5 DEF Quiet, MustBeQuiet, Updates, MoveBack
    <3> QED BY <3>1, <3>2, <3>3, <3>4 DEF Control
  <2>7. Data'
    <3>1. RowsKept'
      BY <1>1, <1>2 DEF Data, RowsKept
    <3>2. DumpsWanted' => DumpsWanted /\ Origin' = Origin
      BY <1>2, <2>1, <2>3, <2>5 DEF DumpsWanted, Origin
    <3>3. DumpsHold'
      BY <1>1, <1>2, <3>2 DEF Data, DumpsHold, DumpsFit, Fits
    <3>4. RecordWanted' => RecordWanted
      BY <1>2, <2>1, <2>3, <2>5 DEF RecordWanted, InNginx
    <3>5. RecordHolds'
      BY <1>1, <1>2, <3>4 DEF Data, RecordHolds, Recorded
    <3>6. MustFit' => MustFit
      BY <1>2, <2>1, <2>3, <2>4, <2>5 DEF MustFit
    <3>7. Served'
      BY <1>1, <1>2, <2>1, <3>6 DEF Data, Served, FitsAll, Fits
    <3>8. /\ Here' \notin {"list", "dump", "alter", "restore", "drop"}
          /\ Here' \notin {"move", "setUp"} \cup InNginx
      BY <2>5 DEF InNginx
    <3> QED BY <3>1, <3>3, <3>5, <3>7, <3>8
         DEF Data, Dumping, NotYetAltered, Altering, Restoring
  <2>8. Nginx'
    <3>1. ASSUME NEW b \in Benches, MayBeStale(b) PROVE MayBeStale(b)'
      BY <1>2, <2>1, <2>3, <2>4, <2>5, <3>1
         DEF MayBeStale, Unmoved, InNginx, BeforeMove, Stays
    <3>2. Adjacent(r)
      BY <1>4, <2>1, <2>3, <2>4 DEF Adjacent, Stays
    <3>3. r \in Order
      BY <1>3 DEF r
    <3> QED BY <1>1, <1>2, <3>1, <3>2, <3>3, AskNginx
  <2> QED BY <2>2, <2>5, <2>6, <2>7, <2>8 DEF IInv
<1> QED BY <1>5, <1>6

(***************************************************************************)
(* What a step of the site's job keeps that changes no data.               *)
(***************************************************************************)

\* The site's job goes on from step name, in the bench where the site is.
LEMMA ControlAdvances ==
    ASSUME TypeOK, OnPlan, Control, NEW name, StepEnds(name),
           UNCHANGED <<dir, maintenance, busy, order, failed>>,
           name \notin {"idle", "maintain", "move", "activate"},
           name = "open" => Place = There,
           name = "wait" => ~busy
    PROVE  Control'
<1>1. OrderSound /\ PlaceSound /\ MaintenanceSound /\ Running /\ Quiet
  BY DEF Control
<1>2. /\ Here = name /\ Place' = Place /\ Source' = Source /\ Target' = Target
      /\ order.kind \in {"migrate", "pull", "recoverMigrate", "recoverPull", "recover",
                         "restoreTables"}
      /\ order.kind \notin Stays => Source # Target
  BY <1>1, OrderIs, PlaceKept DEF StepEnds, Source, Target
<1>3. OrderSound'
  BY <1>1, <1>2 DEF OrderSound
<1>4. /\ name \in Names
      /\ name \in {"maintain", "wait"} => order.kind \in Updates
      /\ name \in {"clear", "list", "dump"} => WithDumps(order)
      /\ name \in {"move"} \cup InNginx => order.kind \notin Stays
      /\ name \in {"setUp", "alter", "index"} => order.kind = "migrate"
      /\ name \in {"choose", "drop"} => Restores(order)
      /\ name = "restore" => Restores(order) \/ order.kind = "restoreTables"
      /\ name = "chooseAll" => order.kind = "restoreTables"
      /\ name = "open" => There = IF order.kind \in Stays THEN Target ELSE Source
      /\ name \in InNginx => There \in {Source, Target}
  <2> HIDE DEF Here
  <2> QED BY <1>1, <1>2, StepIs
<1> HIDE DEF Here, There
<1>5. PlaceSound'
  BY <1>1, <1>2, <1>4
     DEF PlaceSound, StepEnds, Updates, MoveBack, Stays, BeforeMove, AfterMove, InNginx, Names
<1>6. MaintenanceSound'
  BY <1>1, <1>2, <1>4
     DEF PlaceSound, MaintenanceSound, StepEnds, Updates, Recoveries, MoveBack, Stays,
         BeforeMove, AfterMove, InNginx, Names
<1>7. Running'
  BY <1>1, <1>2, <1>4 DEF Running, Names
<1>8. Quiet'
  BY <1>1, <1>2, <1>4 DEF Quiet, MustBeQuiet, StepEnds, Updates, MoveBack, InNginx, Names
<1> QED BY <1>3, <1>5, <1>6, <1>7, <1>8 DEF Control

\* No data change.
LEMMA DataAdvances ==
    ASSUME TypeOK, OnPlan, Control, Data, NEW name, StepEnds(name),
           UNCHANGED <<dir, order, dataVars, fileVars, todo>>,
           name \in {"open", "maintain", "wait", "activate", "index"} \cup InNginx,
           maintenance' = maintenance \/ name \in {"maintain", "activate"},
           name = "maintain" => maintenance'
    PROVE  Data'
<1> USE DEF dataVars, fileVars
<1>1. /\ OrderSound /\ PlaceSound /\ MaintenanceSound
      /\ RowsKept /\ DumpsHold /\ Dumping /\ NotYetAltered /\ Altering /\ RecordHolds
      /\ Restoring /\ Served
  BY DEF Control, Data
<1>2. /\ Here = name /\ Place' = Place /\ Source' = Source /\ Target' = Target
      /\ Origin' = Origin /\ order' = order
      /\ order.kind \in {"migrate", "pull", "recoverMigrate", "recoverPull", "recover",
                         "restoreTables"}
      /\ order.kind \notin Stays => Source # Target
  BY <1>1, OrderIs, PlaceKept DEF StepEnds, Source, Target, Origin
<1>3. /\ name \in {"maintain", "wait"} => order.kind \in Updates
      /\ name \in {"move"} \cup InNginx => order.kind \notin Stays
      /\ name \in {"setUp", "alter", "index"} => order.kind = "migrate"
      /\ name \in InNginx => There \in {Source, Target}
  <2> HIDE DEF Here
  <2> QED BY <1>1, <1>2, StepIs
<1> HIDE DEF Here, There
<1>4. /\ Here' \notin {"list", "dump", "alter", "restore", "drop"}
      /\ Here' \in {"maintain", "wait", "clear", "move", "chooseAll", "choose", "activate",
                    "setUp", "index", "idle"} \cup InNginx
  BY <1>2, <1>3 DEF StepEnds, InNginx
<1>5. RowsKept'
  BY <1>1 DEF RowsKept
<1>6. DumpsHold'
  <2>1. DumpsWanted' => DumpsWanted
    BY <1>1, <1>2, <1>3
       DEF DumpsWanted, StepEnds, PlaceSound, MaintenanceSound, WithDumps, Updates, MoveBack,
           BeforeMove, InNginx, Recoveries, Stays
  <2> QED BY <1>1, <1>2, <2>1 DEF DumpsHold, DumpsFit, Fits
<1>7. NotYetAltered'
  <2>1. ASSUME order.kind = "migrate", Here' \in {"move", "setUp"} \cup InNginx
        PROVE  FitsAll(Source) /\ (~order.skipBackups => AsDumped)
    <3>1. CASE name \in InNginx
      BY <1>1, <1>2, <2>1, <3>1 DEF NotYetAltered
    <3>2. CASE name \notin InNginx
      <4>1. name = "wait" /\ order.skipBackups
        BY <1>2, <1>3, <2>1, <3>2 DEF StepEnds, WithDumps, Updates, MoveBack, InNginx
      <4>2. Place = Source
        BY <1>1, <1>2, <4>1 DEF PlaceSound, BeforeMove
      <4> QED BY <1>1, <2>1, <4>1, <4>2 DEF Served, MustFit
    <3> QED BY <3>1, <3>2
  <2> QED BY <1>2, <2>1 DEF NotYetAltered, FitsAll, Fits, AsDumped
<1>8. RecordHolds'
  <2>1. RecordWanted' => RecordWanted
    BY <1>1, <1>2, <1>3
       DEF RecordWanted, StepEnds, PlaceSound, MaintenanceSound, Updates, MoveBack,
           BeforeMove, InNginx, Recoveries, Stays, Restores
  <2> QED BY <1>1, <1>2, <2>1 DEF RecordHolds, Recorded
<1>9. Served'
  <2>1. MustFit' => MustFit
    BY <1>1, <1>2, <1>3
       DEF MustFit, StepEnds, PlaceSound, MaintenanceSound, Updates, MoveBack,
           BeforeMove, InNginx, Recoveries, Stays, Restores
  <2> QED BY <1>1, <1>2, <2>1 DEF Served, FitsAll, Fits
<1> QED BY <1>4, <1>5, <1>6, <1>7, <1>8, <1>9 DEF Data, Dumping, Altering, Restoring

\* Neither the configurations nor NGINX change, and the site stays where it is.
LEMMA NginxAdvances ==
    ASSUME TypeOK, OnPlan, Control, Nginx, NEW name, StepEnds(name),
           UNCHANGED <<dir, order, failed, nginxVars>>,
           name \notin {"idle", "move"} \cup InNginx
    PROVE  Nginx'
<1> USE DEF nginxVars
<1>1. /\ OrderSound /\ PlaceSound /\ LocksSound /\ ConfSound /\ LiveSound
  BY DEF Control, Nginx
<1>2. /\ Here = name /\ Place' = Place /\ Source' = Source /\ Target' = Target
      /\ order.kind \in {"migrate", "pull", "recoverMigrate", "recoverPull", "recover",
                         "restoreTables"}
      /\ \A n \in Neighbours : Step(n)' = Step(n) /\ Bench(n)' = Bench(n) /\ plan'[n] = plan[n]
  BY <1>1, OrderIs, PlaceKept DEF StepEnds, Source, Target
<1>3. /\ name \in Names
      /\ name \in {"setUp", "alter", "index"} => order.kind = "migrate"
  <2> HIDE DEF Here
  <2> QED BY <1>1, <1>2, StepIs
<1>4. LocksSound'
  <2>1. ASSUME NEW b \in Benches, NEW p \in Processes
        PROVE  lock[b] = p <=> Step(p)' \in {"render", "write"} /\ Bench(p)' = b
    <3>1. lock[b] = p <=> Step(p) \in {"render", "write"} /\ Bench(p) = b
      BY <1>1 DEF LocksSound
    <3>2. CASE p = "site"
      <4>1. Step(p) = name /\ Step(p)' = Here'
        BY <1>2, <3>2 DEF Here
      <4>2. Here' \notin {"render", "write"}
        <5> HIDE DEF Here
        <5> QED BY <1>3 DEF StepEnds, InNginx, Names
      <4> QED BY <3>1, <4>1, <4>2 DEF InNginx
    <3>3. CASE p # "site"
      BY <1>2, <3>1, <3>3 DEF Processes
    <3> QED BY <3>2, <3>3
  <2> QED BY <2>1 DEF LocksSound
<1> HIDE DEF Here, There
<1>5. NeighboursFine' = NeighboursFine /\ \A b \in Benches : Right(b)' <=> Right(b)
  BY <1>2 DEF NeighboursFine, Right
<1>6. name \in BeforeMove => Here' \in BeforeMove \/ order.kind \in Stays
  BY <1>2, <1>3 DEF StepEnds, BeforeMove, Stays
<1>7. ConfSound'
  <2>1. ASSUME NEW b \in Benches, MayBeStale(b) PROVE MayBeStale(b)'
    BY <1>2, <1>3, <1>6, <2>1 DEF MayBeStale, Unmoved, InNginx, Names
  <2> QED BY <1>1, <1>5, <2>1 DEF ConfSound
<1>8. LiveSound'
  <2>1. ReloadToCome => ReloadToCome'
    BY <1>2, <1>6 DEF ReloadToCome
  <2> QED BY <1>1, <1>2, <1>5, <2>1 DEF LiveSound, LeadsThere
<1> QED BY <1>4, <1>7, <1>8 DEF Nginx


(***************************************************************************)
(* A job that fails.                                                       *)
(***************************************************************************)

\* A step that fails, or a worker that is killed, ends the site's job where it is.
LEMMA FailControl ==
    ASSUME TypeOK, OnPlan, Control, Here # "idle", Fail("site")
    PROVE  OnPlan' /\ Control' /\ Here' = "idle"
<1> USE DEF siteVars
<1>1. "site" \in Processes /\ OrderSound /\ PlaceSound /\ MaintenanceSound /\ Quiet
  BY DEF Control, Processes
<1>2. /\ OnPlan' /\ Here' = "idle" /\ Place' = Place /\ order' = order
      /\ Source' = Source /\ Target' = Target /\ maintenance' = maintenance /\ busy' = busy
  BY <1>1, PlanEnds, PlaceKept DEF Fail, Source, Target, Here
<1>3. failed'["site"]
  BY <1>1 DEF Fail, TypeOK
<1>4. OrderSound' /\ PlaceSound'
  BY <1>1, <1>2, <1>3 DEF OrderSound, PlaceSound, BeforeMove, AfterMove, InNginx
<1>5. MaintenanceSound' /\ Running'
  BY <1>1, <1>2, <1>3 DEF MaintenanceSound, Running
<1>6. Quiet'
  BY <1>1, <1>2 DEF Quiet, MustBeQuiet
<1> QED BY <1>2, <1>4, <1>5, <1>6 DEF Control

\* The locks of a job that fails are free.
LEMMA FailLocks ==
    ASSUME TypeOK, OnPlan, LocksSound, NEW p \in Processes, Fail(p)
    PROVE  /\ LocksSound' /\ lock' \in [Benches -> Processes \cup {None}]
           /\ \A b \in Benches : lock[b] # p => lock'[b] = lock[b]
<1>1. /\ Step(p)' = "idle"
      /\ \A m \in Processes \ {p} : Step(m)' = Step(m) /\ Bench(m)' = Bench(m)
  BY PlanEnds DEF Fail
<1>2. /\ lock' = [b \in Benches |-> IF lock[b] = p THEN None ELSE lock[b]]
      /\ lock \in [Benches -> Processes \cup {None}] /\ None \notin Processes
  BY UpdateAssumption DEF Fail, TypeOK
<1>3. ASSUME NEW b \in Benches, NEW q \in Processes
      PROVE  lock'[b] = q <=> Step(q)' \in {"render", "write"} /\ Bench(q)' = b
  <2>1. CASE q = p
    BY <1>1, <1>2, <2>1
  <2>2. CASE q # p
    <3>1. lock[b] = q <=> Step(q) \in {"render", "write"} /\ Bench(q) = b
      BY DEF LocksSound
    <3>2. lock'[b] = q <=> lock[b] = q
      BY <1>2, <2>2
    <3> QED BY <1>1, <2>2, <3>1, <3>2
  <2> QED BY <2>1, <2>2
<1> QED BY <1>2, <1>3 DEF LocksSound

\* It leaves NGINX with what was written and loaded so far.
LEMMA FailNginx ==
    ASSUME TypeOK, OnPlan, Control, Nginx, NEW p \in Processes, plan[p] # <<>>, Fail(p)
    PROVE  Nginx'
<1> USE DEF siteVars
<1>1. /\ OrderSound /\ PlaceSound /\ MaintenanceSound
      /\ LocksSound /\ ConfSound
  BY DEF Control, Nginx
<1>2. /\ LocksSound' /\ \A b \in Benches : lock[b] # p => lock'[b] = lock[b]
  BY <1>1, FailLocks
<1>3. failed' = [failed EXCEPT ![p] = TRUE] /\ failed \in [Processes -> BOOLEAN]
  BY DEF Fail, TypeOK
<1>4. CASE p = "site"
  <2>1. /\ Here # "idle" /\ OrderSound /\ There = Bench(p) /\ Here = Step(p)
    BY <1>1, <1>4, StepIs DEF There, Here
  <2>2. /\ Here' = "idle" /\ Place' = Place /\ order' = order
        /\ Source' = Source /\ Target' = Target
        /\ conf' = conf /\ listed' = listed /\ maintenance' = maintenance
    BY <1>4, PlanEnds, PlaceKept DEF Fail, Source, Target, Here
  <2>3. failed'["site"] /\ NeighboursFine' = NeighboursFine
    BY <1>3, <1>4, UpdateAssumption DEF NeighboursFine, Processes
  <2>4. ASSUME NEW b \in Benches, lock[b] # p PROVE Right(b)' <=> Right(b)
    BY <1>2, <2>2, <2>4 DEF Right
  <2>5. Here \in InNginx => order.kind \notin Stays /\ There \in {Source, Target}
    BY <1>1, StepIs
  <2>6. ASSUME NEW b \in Benches, MayBeStale(b) \/ lock[b] = p PROVE MayBeStale(b)'
    <3>1. lock[b] = p => Here \in {"render", "write"} /\ There = b
      BY <1>1, <1>4, <2>1 DEF LocksSound
    <3> HIDE DEF Here, There
    <3>2. \/ order.kind \in Stays /\ b \in {Place, Place + 1}
          \/ order.kind \notin Stays /\ Here \in BeforeMove /\ b \in {Source, Target}
          \/ Here \in InNginx /\ b \in {Source, Target}
      BY <2>1, <2>5, <2>6, <3>1 DEF MayBeStale, Unmoved, InNginx
    <3>3. Here \in BeforeMove \cup InNginx => maintenance \/ Place = Source
      BY <1>1 DEF PlaceSound, MaintenanceSound, BeforeMove, InNginx
    <3> QED BY <2>2, <2>3, <2>5, <3>2, <3>3 DEF MayBeStale, Unmoved
  <2>7. ConfSound'
    BY <1>1, <2>3, <2>4, <2>6 DEF ConfSound
  <2>8. LiveSound'
    BY <2>3 DEF LiveSound, ReloadToCome
  <2> QED BY <1>2, <2>7, <2>8 DEF Nginx
<1>5. CASE p # "site"
  <2>1. p \in Neighbours /\ failed'[p]
    BY <1>3, <1>5 DEF Processes
  <2>2. ~NeighboursFine'
    BY <2>1 DEF NeighboursFine
  <2> QED BY <1>2, <2>2 DEF Nginx, ConfSound, LiveSound
<1> QED BY <1>4, <1>5

\* It leaves the database and the dumps as they are.
LEMMA FailData ==
    ASSUME TypeOK, OnPlan, Control, Data, Here # "idle", Fail("site"),
           UNCHANGED <<table, dump, touched>>
    PROVE  Data'
<1> USE DEF siteVars
<1>1. /\ Here' = "idle" /\ Place' = Place /\ order' = order /\ Origin' = Origin
      /\ Source' = Source /\ Target' = Target
      /\ maintenance' = maintenance /\ committed' = committed /\ previous' = previous
  BY FailControl, PlaceKept DEF Fail, Source, Target, Origin
<1>2. /\ DumpsWanted' => DumpsWanted
      /\ RecordWanted' => RecordWanted
      /\ MustFit' => MustFit
  BY <1>1 DEF DumpsWanted, RecordWanted, MustFit, InNginx
<1>3. DumpsHold' /\ RowsKept'
  BY <1>1, <1>2 DEF Data, DumpsHold, DumpsFit, Fits, RowsKept
<1>4. RecordHolds' /\ Served'
  BY <1>1, <1>2 DEF Data, RecordHolds, Recorded, Served, FitsAll, Fits
<1> QED BY <1>1, <1>3, <1>4
     DEF Data, Dumping, NotYetAltered, Altering, Restoring, InNginx

\* The site's job fails and no data change.
LEMMA FailStep ==
    ASSUME TypeOK', IInv, Here # "idle", Fail("site"), UNCHANGED <<table, dump, touched>>
    PROVE  IInv'
<1>1. TypeOK /\ OnPlan /\ Control /\ Data /\ Nginx /\ "site" \in Processes
  BY DEF IInv, Processes
<1>2. plan["site"] # <<>>
  BY DEF Here, Step
<1>3. OnPlan' /\ Control'
  BY <1>1, FailControl
<1>4. Data'
  BY <1>1, FailData
<1>5. Nginx'
  BY <1>1, <1>2, FailNginx
<1> QED BY <1>3, <1>4, <1>5 DEF IInv

(***************************************************************************)
(* The steps of the site's job.                                            *)
(***************************************************************************)

\* A step that succeeds takes the job to the next one.
LEMMA AdvanceIs ==
    ASSUME IInv, NEW name, Advance(name)
    PROVE  /\ StepEnds(name) /\ Here = name /\ Here # "idle"
           /\ UNCHANGED <<order, failed, nginxVars, updates, faults>>
<1>1. TypeOK /\ OnPlan /\ OrderSound
  BY DEF IInv, Control
<1>2. StepEnds(name)
  BY <1>1, SiteSteps DEF Advance
<1>3. plan["site"] # <<>> /\ Here = name
  BY <1>2 DEF Advance, At, StepEnds
<1>4. Here # "idle"
  BY <1>1, <1>3, StepIs
<1> QED BY <1>2, <1>3, <1>4 DEF Advance

\* The steps of the site's job.
LEMMA OpenStep == ASSUME IInv, Open PROVE IInv'
<1> USE DEF siteVars, dataVars, fileVars
<1>1. TypeOK /\ OnPlan /\ Control /\ Data /\ Nginx /\ OrderSound
  BY DEF IInv, Control
<1>2. TypeOK'
  BY <1>1, TypedSite DEF SiteStep
<1>3. Here = "open" /\ There \in Benches
  <2>1. Here = "open"
    BY DEF Open, At, Here, Step
  <2> QED BY <1>1, <2>1, StepIs
<1>4. CASE /\ dir[There] = "site" /\ Advance("open")
           /\ UNCHANGED <<siteVars, dataVars, fileVars, todo>>
  <2>1. Place = There
    BY <1>1, <1>3, <1>4, PlaceIs
  <2>2. StepEnds("open") /\ UNCHANGED <<order, failed, nginxVars>>
    BY <1>4, AdvanceIs
  <2>3. Control'
    BY <1>1, <1>4, <2>1, <2>2, ControlAdvances
  <2>4. Data'
    BY <1>1, <1>4, <2>2, DataAdvances
  <2>5. Nginx'
    BY <1>1, <1>4, <2>2, NginxAdvances DEF InNginx
  <2> QED BY <1>2, <2>2, <2>3, <2>4, <2>5 DEF IInv, StepEnds
<1>5. CASE Fail("site") /\ UNCHANGED <<table, dump, touched>>
  BY <1>2, <1>3, <1>5, FailStep
<1> QED BY <1>4, <1>5 DEF Open, There

LEMMA EnableMaintenanceModeStep == ASSUME IInv, EnableMaintenanceMode PROVE IInv'
<1> USE DEF dataVars, fileVars
<1>1. TypeOK /\ OnPlan /\ Control /\ Data /\ Nginx /\ OrderSound /\ PlaceSound
  BY DEF IInv, Control
<1>2. TypeOK'
  BY <1>1, TypedSite DEF SiteStep
<1>3. /\ StepEnds("maintain") /\ Here = "maintain" /\ Here' = "wait"
      /\ UNCHANGED <<dir, busy, dataVars, fileVars, todo, order, failed, nginxVars>>
      /\ maintenance'
  BY AdvanceIs DEF EnableMaintenanceMode, StepEnds
<1>4. order.kind \in Updates
  BY <1>1, <1>3, StepIs
<1>5. /\ Place = Source /\ Source # Target
      /\ Place' = Place /\ Source' = Source /\ Target' = Target
  BY <1>1, <1>3, <1>4, OrderIs, PlaceKept
     DEF PlaceSound, BeforeMove, Stays, Updates, Source, Target
<1>6. Control'
  <2>1. OrderSound' /\ PlaceSound'
    BY <1>1, <1>3, <1>4, <1>5
       DEF OrderSound, PlaceSound, Stays, Updates, BeforeMove, AfterMove, InNginx
  <2>2. MaintenanceSound' /\ Running'
    BY <1>1, <1>3, <1>4, <1>5 DEF Control, MaintenanceSound, Running
  <2>3. Quiet'
    BY <1>3, <1>4, <1>5 DEF Quiet, MustBeQuiet, Updates, MoveBack
  <2> QED BY <2>1, <2>2, <2>3 DEF Control
<1>7. Data'
  BY <1>1, <1>3, DataAdvances
<1>8. Nginx'
  BY <1>1, <1>3, NginxAdvances DEF InNginx
<1> QED BY <1>2, <1>3, <1>6, <1>7, <1>8 DEF IInv, StepEnds

LEMMA WaitTillReadyStep == ASSUME IInv, WaitTillReady PROVE IInv'
<1> USE DEF siteVars, dataVars, fileVars
<1>1. TypeOK /\ OnPlan /\ Control /\ Data /\ Nginx /\ OrderSound
  BY DEF IInv, Control
<1>2. TypeOK'
  BY <1>1, TypedSite DEF SiteStep
<1>3. /\ StepEnds("wait") /\ ~busy
      /\ UNCHANGED <<siteVars, dataVars, fileVars, todo, order, failed, nginxVars>>
  BY AdvanceIs DEF WaitTillReady
<1>4. Control'
  BY <1>1, <1>3, ControlAdvances
<1>5. Data'
  BY <1>1, <1>3, DataAdvances
<1>6. Nginx'
  BY <1>1, <1>3, NginxAdvances DEF InNginx
<1> QED BY <1>2, <1>3, <1>4, <1>5, <1>6 DEF IInv, StepEnds

LEMMA WaitTimesOutStep == ASSUME IInv, WaitTimesOut PROVE IInv'
<1>1. TypeOK /\ OnPlan /\ OrderSound
  BY DEF IInv, Control
<1>2. TypeOK'
  BY <1>1, TypedSite DEF SiteStep
<1>3. Here = "wait"
  BY DEF WaitTimesOut, At, Here, Step
<1> QED BY <1>2, <1>3, FailStep DEF WaitTimesOut

LEMMA DisableMaintenanceModeStep == ASSUME IInv, DisableMaintenanceMode PROVE IInv'
<1> USE DEF dataVars, fileVars
<1>1. /\ TypeOK /\ OnPlan /\ Control /\ Data /\ Nginx /\ OrderSound /\ PlaceSound
      /\ MaintenanceSound /\ Running
  BY DEF IInv, Control
<1>2. TypeOK'
  BY <1>1, TypedSite DEF SiteStep
<1>3. /\ StepEnds("activate") /\ Here = "activate"
      /\ Here' = IF order.kind = "migrate" THEN "index" ELSE "idle"
      /\ UNCHANGED <<dir, busy, dataVars, fileVars, todo, order, failed, nginxVars>>
      /\ ~maintenance'
  BY AdvanceIs DEF DisableMaintenanceMode, StepEnds
<1>4. /\ Place = Target /\ ~failed["site"]
      /\ Place' = Place /\ Source' = Source /\ Target' = Target
  BY <1>1, <1>3, PlaceKept DEF PlaceSound, AfterMove, Running, Source, Target
<1>5. Control'
  <2>1. OrderSound' /\ PlaceSound'
    BY <1>1, <1>3, <1>4 DEF OrderSound, PlaceSound, BeforeMove, AfterMove, InNginx
  <2>2. MaintenanceSound' /\ Running'
    BY <1>1, <1>3, <1>4 DEF MaintenanceSound, Running, Recoveries
  <2>3. Quiet'
    BY <1>3 DEF Quiet, MustBeQuiet
  <2> QED BY <2>1, <2>2, <2>3 DEF Control
<1>6. Data'
  BY <1>1, <1>3, DataAdvances
<1>7. Nginx'
  BY <1>1, <1>3, NginxAdvances DEF InNginx
<1> QED BY <1>2, <1>3, <1>5, <1>6, <1>7 DEF IInv, StepEnds

\* A step behind maintenance mode that moves nothing keeps where the site is and that it is quiet.
LEMMA ControlKept ==
    ASSUME OnPlan, Control, UNCHANGED <<siteVars, order, plan, failed>>
    PROVE  /\ OnPlan' /\ Control' /\ Here' = Here /\ There' = There /\ Place' = Place
           /\ Source' = Source /\ Target' = Target
<1> USE DEF siteVars
<1>1. /\ OnPlan' /\ Here' = Here /\ There' = There /\ Place' = Place
      /\ Source' = Source /\ Target' = Target
  BY PlanKept, PlaceKept DEF Source, Target
<1>2. Control'
  BY <1>1 DEF Control, OrderSound, PlaceSound, MaintenanceSound, Running, Quiet, MustBeQuiet
<1> QED BY <1>1, <1>2

\* A migration with dumps that has not moved the site.
LEMMA BeforeTheMove ==
    ASSUME IInv, Here \in {"clear", "list", "dump"}
    PROVE  /\ WithDumps(order) /\ order.kind = "migrate" /\ ~order.skipBackups
           /\ Place = Source /\ Source # Target /\ FitsAll(Source) /\ ~RecordWanted
           /\ Here # "move" /\ order.kind # "restoreTables" /\ order.kind # "recoverMigrate"
<1>1. TypeOK /\ OnPlan /\ OrderSound /\ PlaceSound /\ Served
  BY DEF IInv, Control, Data
<1>2. WithDumps(order) /\ order.kind = "migrate" /\ ~order.skipBackups
  BY <1>1, StepIs DEF WithDumps
<1>3. Place = Source /\ Source # Target
  BY <1>1, <1>2, OrderIs DEF PlaceSound, BeforeMove, Stays
<1> QED BY <1>1, <1>2, <1>3 DEF Served, MustFit, RecordWanted

LEMMA ClearBackupDirectoryStep == ASSUME IInv, ClearBackupDirectory PROVE IInv'
<1> USE DEF siteVars, dataVars, fileVars
<1>1. TypeOK /\ OnPlan /\ Control /\ Data /\ Nginx /\ OrderSound
  BY DEF IInv, Control
<1>2. TypeOK'
  BY <1>1, TypedSite DEF SiteStep
<1>3. /\ StepEnds("clear") /\ Here = "clear" /\ Here' = "list"
      /\ UNCHANGED <<siteVars, dataVars, previous, touched, todo, order, failed, nginxVars>>
      /\ dump' = [t \in Tables |-> Absent]
  BY AdvanceIs DEF ClearBackupDirectory, StepEnds
<1>4. /\ order.kind = "migrate" /\ Place = Source /\ Source # Target /\ FitsAll(Source)
      /\ Place' = Place /\ Source' = Source /\ Target' = Target
  BY <1>3, BeforeTheMove, PlaceKept DEF Source, Target
<1>5. Control'
  BY <1>1, <1>3, ControlAdvances
<1>6. Data'
  <2>1. RowsKept' /\ Served'
    BY <1>1, <1>3, <1>4 DEF Data, RowsKept, Served, FitsAll, Fits
  <2>2. ~DumpsWanted' /\ ~RecordWanted'
    BY <1>3, <1>4 DEF DumpsWanted, RecordWanted
  <2>3. NothingDumped'
    BY <1>3 DEF NothingDumped
  <2> QED BY <1>3, <2>1, <2>2, <2>3
       DEF Data, DumpsHold, Dumping, NotYetAltered, Altering, RecordHolds, Restoring, InNginx
<1>7. Nginx'
  BY <1>1, <1>3, NginxAdvances DEF InNginx
<1> QED BY <1>2, <1>3, <1>5, <1>6, <1>7 DEF IInv, StepEnds

LEMMA ListTablesStep == ASSUME IInv, ListTables PROVE IInv'
<1> USE DEF siteVars, dataVars, fileVars
<1>1. TypeOK /\ OnPlan /\ Control /\ Data /\ Nginx /\ OrderSound
  BY DEF IInv, Control
<1>2. TypeOK'
  BY <1>1, TypedSite DEF SiteStep
<1>3. /\ StepEnds("list") /\ Here = "list" /\ Here' = "dump"
      /\ UNCHANGED <<siteVars, dataVars, dump, touched, order, failed, nginxVars>>
      /\ previous' = Existing /\ todo' = Existing
  BY AdvanceIs DEF ListTables, StepEnds
<1>4. /\ order.kind = "migrate" /\ Place = Source /\ Source # Target /\ FitsAll(Source)
      /\ Place' = Place /\ Source' = Source /\ Target' = Target
  BY <1>3, BeforeTheMove, PlaceKept DEF Source, Target
<1>5. Control'
  BY <1>1, <1>3, ControlAdvances
<1>6. Data'
  <2>1. RowsKept' /\ Served'
    BY <1>1, <1>3, <1>4 DEF Data, RowsKept, Served, FitsAll, Fits
  <2>2. ~DumpsWanted' /\ ~RecordWanted'
    BY <1>3, <1>4 DEF DumpsWanted, RecordWanted
  <2>3. NothingDumped
    BY <1>1, <1>3 DEF Data, Dumping
  <2>4. previous' # None
    BY <1>3, UpdateAssumption DEF Existing
  <2>5. BeingDumped'
    BY <1>3, <2>3, <2>4 DEF BeingDumped, NothingDumped, Existing
  <2> QED BY <1>3, <2>1, <2>2, <2>5
       DEF Data, DumpsHold, Dumping, NotYetAltered, Altering, RecordHolds, Restoring, InNginx
<1>7. Nginx'
  BY <1>1, <1>3, NginxAdvances DEF InNginx
<1> QED BY <1>2, <1>3, <1>5, <1>6, <1>7 DEF IInv, StepEnds

\* A step that works table by table leaves all but the data as it is.
LEMMA TableStepIs ==
    ASSUME IInv, UNCHANGED <<siteVars, order, plan, failed, nginxVars>>
    PROVE  /\ OnPlan' /\ Control' /\ Nginx'
           /\ Here' = Here /\ There' = There /\ Place' = Place
           /\ Source' = Source /\ Target' = Target
<1>1. OnPlan /\ Control /\ Nginx
  BY DEF IInv
<1>2. Nginx'
  BY <1>1, NginxKept DEF siteVars
<1> QED BY <1>1, <1>2, ControlKept

LEMMA DumpTableStep == ASSUME IInv, NEW t \in Tables, DumpTable(t) PROVE IInv'
<1> USE DEF siteVars
<1>1. TypeOK /\ OnPlan /\ OrderSound /\ Data
  BY DEF IInv, Control
<1>2. TypeOK'
  BY <1>1, TypedSite DEF SiteStep, TableStep
<1>3. /\ Here = "dump" /\ t \in todo /\ todo' = todo \ {t}
      /\ UNCHANGED <<siteVars, table, committed, previous, touched, order, plan, failed,
                     nginxVars>>
      /\ dump' = [dump EXCEPT ![t] = table[t]]
  BY DEF DumpTable, DoneWith, At, Here, Step
<1>4. /\ OnPlan' /\ Control' /\ Nginx' /\ Here' = "dump"
      /\ Place' = Place /\ Source' = Source /\ Target' = Target
  BY <1>3, TableStepIs
<1>5. /\ order.kind = "migrate" /\ Place = Source /\ Source # Target /\ FitsAll(Source)
      /\ ~RecordWanted
  BY <1>3, BeforeTheMove
<1>6. RowsKept' /\ Served'
  BY <1>1, <1>3, <1>4, <1>5 DEF Data, RowsKept, Served, FitsAll, Fits
<1>7. ~DumpsWanted' /\ ~RecordWanted'
  BY <1>3, <1>4, <1>5 DEF DumpsWanted, RecordWanted
<1>8. BeingDumped
  BY <1>1, <1>3 DEF Data, Dumping
<1>9. BeingDumped'
  <2>1. \A u \in Tables : dump'[u] = IF u = t THEN table[t] ELSE dump[u]
    BY <1>1, <1>3 DEF TypeOK
  <2> QED BY <1>3, <1>8, <2>1 DEF BeingDumped
<1>10. Data'
  BY <1>4, <1>6, <1>7, <1>9
     DEF Data, DumpsHold, Dumping, NotYetAltered, Altering, RecordHolds, Restoring, InNginx
<1> QED BY <1>2, <1>4, <1>10 DEF IInv

\* The dump is complete when no table is left to be dumped.
LEMMA EndDumpStep ==
    ASSUME IInv, Advance("dump"), todo = {}, UNCHANGED <<siteVars, dataVars, fileVars, todo>>
    PROVE  IInv'
<1> USE DEF siteVars, dataVars, fileVars
<1>1. TypeOK /\ OnPlan /\ Control /\ Data /\ Nginx /\ OrderSound
  BY DEF IInv, Control
<1>2. TypeOK'
  <2>1. EndOfStep
    BY DEF EndOfStep
  <2> QED BY <1>1, <2>1, TypedSite DEF SiteStep
<1>3. /\ StepEnds("dump") /\ Here = "dump" /\ Here' = "move"
      /\ UNCHANGED <<order, failed, nginxVars>>
  BY AdvanceIs DEF StepEnds
<1>4. /\ order.kind = "migrate" /\ Place = Source /\ Source # Target /\ FitsAll(Source)
      /\ ~RecordWanted
      /\ Place' = Place /\ Source' = Source /\ Target' = Target
  BY <1>3, BeforeTheMove, PlaceKept DEF Source, Target
<1>5. Control'
  BY <1>1, <1>3, ControlAdvances
<1>6. BeingDumped
  BY <1>1, <1>3 DEF Data, Dumping
<1>7. AsDumped
  BY <1>6 DEF BeingDumped, AsDumped
<1>8. Data'
  <2>1. RowsKept' /\ Served'
    BY <1>1, <1>3, <1>4 DEF Data, RowsKept, Served, FitsAll, Fits
  <2>2. DumpsFit(Source)'
    BY <1>1, <1>3, <1>4, <1>6, <1>7
       DEF Data, RowsKept, DumpsFit, BeingDumped, AsDumped, FitsAll, Fits
  <2>3. DumpsHold'
    BY <1>3, <1>4, <2>2 DEF DumpsHold, Origin, Source
  <2>4. NotYetAltered'
    BY <1>3, <1>4, <1>7 DEF NotYetAltered, AsDumped, FitsAll, Fits
  <2>5. ~RecordWanted'
    BY <1>3, <1>4 DEF RecordWanted
  <2> QED BY <1>3, <2>1, <2>3, <2>4, <2>5
       DEF Data, Dumping, Altering, RecordHolds, Restoring, InNginx
<1>9. Nginx'
  BY <1>1, <1>3, NginxAdvances DEF InNginx
<1> QED BY <1>2, <1>3, <1>5, <1>8, <1>9 DEF IInv, StepEnds

\* Building the search index changes no table.
LEMMA EndIndexStep ==
    ASSUME IInv, Advance("index"), UNCHANGED <<siteVars, dataVars, fileVars, todo>>
    PROVE  IInv'
<1> USE DEF siteVars, dataVars, fileVars
<1>1. TypeOK /\ OnPlan /\ Control /\ Data /\ Nginx /\ OrderSound
  BY DEF IInv, Control
<1>2. TypeOK'
  <2>1. EndOfStep
    BY DEF EndOfStep
  <2> QED BY <1>1, <2>1, TypedSite DEF SiteStep
<1>3. /\ StepEnds("index")
      /\ UNCHANGED <<order, failed, nginxVars>>
  BY AdvanceIs
<1>4. Control'
  BY <1>1, <1>3, ControlAdvances
<1>5. Data'
  BY <1>1, <1>3, DataAdvances
<1>6. Nginx'
  BY <1>1, <1>3, NginxAdvances DEF InNginx
<1> QED BY <1>2, <1>3, <1>4, <1>5, <1>6 DEF IInv, StepEnds

\* A migration to the next bench that changes no table changes no version.
LEMMA SameVersions ==
    ASSUME NEW a \in Benches, a + 1 \in Benches, Changes[a + 1] = {}, NEW t \in Tables
    PROVE  VersionAt(a + 1, t) = VersionAt(a, t)
BY Versions

\* The site changes its bench: what is dumped becomes what can be restored.
LEMMA MoveSiteStep == ASSUME IInv, MoveSite PROVE IInv'
<1> USE DEF siteVars, dataVars, fileVars, nginxVars
<1>1. /\ TypeOK /\ OnPlan /\ Control /\ Data /\ Nginx /\ OrderSound /\ PlaceSound
      /\ MaintenanceSound /\ Quiet
  BY DEF IInv, Control
<1>2. TypeOK'
  BY <1>1, TypedSite DEF SiteStep
<1>3. /\ StepEnds("move") /\ Here = "move" /\ Here' = "read" /\ There' = Source
      /\ UNCHANGED <<maintenance, busy, table, committed, dump, previous, touched, todo,
                     order, failed, conf, live, lock, listed>>
      /\ \A n \in Neighbours :
           Step(n)' = Step(n) /\ Bench(n)' = Bench(n) /\ plan'[n] = plan[n]
  BY AdvanceIs DEF MoveSite, StepEnds
<1>4. /\ There = Target /\ order.kind \notin Stays /\ Place = Source /\ maintenance
      /\ Source # Target /\ Source \in Benches /\ Target \in Benches
      /\ Source' = Source /\ Target' = Target /\ Origin' = Origin
      /\ order.kind \in {"migrate", "pull", "recoverMigrate", "recoverPull", "recover",
                         "restoreTables"}
  <2>1. There = Target /\ order.kind \notin Stays
    BY <1>1, <1>3, StepIs DEF AfterMove, InNginx
  <2>2. Place = Source /\ maintenance
    BY <1>1, <1>3 DEF PlaceSound, MaintenanceSound, BeforeMove
  <2> QED BY <1>1, <1>3, <2>1, <2>2, OrderIs DEF Source, Target, Origin
<1>5. Place' = Target
  <2>1. PICK rest \in {"none", "leftover"} :
          dir' = [dir EXCEPT ![Place] = rest, ![Target] = "site"]
    BY <1>4 DEF MoveSite, There
  <2>2. \A c \in Benches : dir'[c] = "site" <=> c = Target
    BY <1>1, <1>4, <2>1, PlaceIs DEF TypeOK
  <2> QED BY <1>4, <2>2 DEF Place
<1>6. Control'
  <2>1. OrderSound'
    BY <1>1, <1>3, <1>4 DEF OrderSound
  <2>2. PlaceSound' /\ MaintenanceSound'
    BY <1>1, <1>3, <1>4, <1>5 DEF PlaceSound, MaintenanceSound, BeforeMove
  <2>3. Running'
    BY <1>1, <1>3 DEF Control, Running
  <2>4. Quiet'
    BY <1>1, <1>3, <1>4 DEF Quiet, MustBeQuiet, Stays
  <2> QED BY <2>1, <2>2, <2>3, <2>4 DEF Control
<1>7. Data'
  <2>1. RowsKept'
    BY <1>1, <1>3 DEF Data, RowsKept
  <2>2. DumpsWanted' => DumpsWanted
    BY <1>3, <1>4 DEF DumpsWanted, Stays
  <2>3. DumpsHold'
    BY <1>1, <1>3, <1>4, <2>2 DEF Data, DumpsHold, DumpsFit, Fits
  <2>4. order.kind = "migrate" => FitsAll(Source) /\ (~order.skipBackups => AsDumped)
    BY <1>1, <1>3 DEF Data, NotYetAltered
  <2>5. NotYetAltered'
    BY <1>3, <1>4, <2>4 DEF NotYetAltered, AsDumped, FitsAll, Fits
  <2>6. RecordHolds'
    <3>1. CASE order.kind = "migrate" /\ ~order.skipBackups
      <4>1. previous # None /\ AsDumped
        BY <1>1, <1>3, <2>4, <3>1 DEF Data, DumpsHold, DumpsWanted, DumpsFit
      <4>2. \A t \in previous : table[t] = dump[t]
        BY <1>1, <4>1 DEF TypeOK, AsDumped
      <4> QED BY <1>3, <4>2 DEF RecordHolds, Recorded
    <3>2. CASE ~ (order.kind = "migrate" /\ ~order.skipBackups)
      <4>1. RecordWanted' => RecordWanted
        BY <1>3, <1>4, <3>2 DEF RecordWanted
      <4> QED BY <1>1, <1>3, <4>1 DEF Data, RecordHolds, Recorded
    <3> QED BY <3>1, <3>2
  <2>7. Served'
    <3>1. MustFit' => order.kind \in {"pull", "recoverPull"}
      BY <1>3, <1>4, <1>5 DEF MustFit, Stays
    <3>2. ASSUME order.kind \in {"pull", "recoverPull"}, NEW t \in Tables
          PROVE  VersionAt(Target, t) = VersionAt(Source, t) /\ Fits(table[t], Source, t)
      <4>1. \/ Target = Source + 1 /\ Changes[Source + 1] = {}
            \/ Source = Target + 1 /\ Changes[Target + 1] = {}
        BY <1>1, <3>2 DEF OrderSound, Updates, MoveBack
      <4>2. FitsAll(Source)
        BY <1>1, <1>4, <3>2 DEF Data, Served, MustFit
      <4>3. CASE Target = Source + 1 /\ Changes[Source + 1] = {}
        BY <1>4, <4>2, <4>3, SameVersions DEF FitsAll
      <4>4. CASE Source = Target + 1 /\ Changes[Target + 1] = {}
        BY <1>4, <4>2, <4>4, SameVersions DEF FitsAll
      <4> QED BY <4>1, <4>3, <4>4
    <3>3. order.kind \in {"pull", "recoverPull"} => FitsAll(Place)'
      BY <1>3, <1>5, <3>2 DEF FitsAll, Fits
    <3> QED BY <3>1, <3>3 DEF Served
  <2> QED BY <1>3, <2>1, <2>3, <2>5, <2>6, <2>7 DEF Data, Dumping, Altering, Restoring
<1>8. Nginx'
  <2>1. LocksSound'
    <3>1. ASSUME NEW b \in Benches, NEW p \in Processes
          PROVE  lock[b] = p <=> Step(p)' \in {"render", "write"} /\ Bench(p)' = b
      <4>1. lock[b] = p <=> Step(p) \in {"render", "write"} /\ Bench(p) = b
        BY <1>1 DEF LocksSound, Nginx
      <4>2. CASE p = "site"
        <5>1. Step(p) = "move" /\ Step(p)' = "read"
          BY <1>3, <4>2 DEF Here
        <5> QED BY <4>1, <5>1
      <4>3. CASE p # "site"
        BY <1>3, <4>1, <4>3 DEF Processes
      <4> QED BY <4>2, <4>3
    <3> QED BY <1>3, <3>1 DEF LocksSound
  <2>2. ConfSound'
    <3>1. ASSUME NEW b \in Benches, NeighboursFine PROVE MayBeStale(b)' \/ Right(b)'
      <4>1. CASE b \in {Source, Target}
        BY <1>3, <1>4, <4>1 DEF MayBeStale
      <4>2. CASE b \notin {Source, Target}
        <5>1. ~MayBeStale(b)
          BY <1>3, <1>4, <4>2 DEF MayBeStale, InNginx
        <5>2. Right(b)
          BY <1>1, <3>1, <5>1 DEF Nginx, ConfSound
        <5> QED BY <1>3, <1>4, <1>5, <4>2, <5>2 DEF Right
      <4> QED BY <4>1, <4>2
    <3> QED BY <1>3, <3>1 DEF ConfSound, NeighboursFine
  <2>3. LiveSound'
    BY <1>3 DEF LiveSound, ReloadToCome, InNginx
  <2> QED BY <2>1, <2>2, <2>3 DEF Nginx
<1> QED BY <1>2, <1>3, <1>6, <1>7, <1>8 DEF IInv, StepEnds

\* A migration, after the site has been moved.
LEMMA AfterTheMove ==
    ASSUME IInv, Here \in {"setUp", "alter", "choose", "chooseAll", "restore", "drop"}
    PROVE  /\ Place = Target /\ maintenance /\ There \in Benches
           /\ Here # "chooseAll" => There = Target
           /\ Source \in Benches /\ Target \in Benches /\ order.skipBackups \in BOOLEAN
           /\ Here \in {"setUp", "alter"} =>
                order.kind = "migrate" /\ Target = Source + 1 /\ Source # Target
           /\ Here \in {"choose", "drop"} =>
                order.kind = "recoverMigrate" /\ ~order.skipBackups /\ Source # Target
           /\ Here = "chooseAll" => order.kind = "restoreTables" /\ ~order.skipBackups
           /\ Here = "restore" => /\ order.kind \in {"recoverMigrate", "restoreTables"}
                                  /\ ~order.skipBackups
                                  /\ order.kind = "recoverMigrate" => Source # Target
<1>1. TypeOK /\ OnPlan /\ OrderSound /\ PlaceSound /\ MaintenanceSound
  BY DEF IInv, Control
<1>2. /\ Here \in {"setUp", "alter", "index"} => order.kind = "migrate"
      /\ Here \in {"choose", "drop"} => Restores(order)
      /\ Here = "restore" => Restores(order) \/ order.kind = "restoreTables"
      /\ Here = "chooseAll" => order.kind = "restoreTables"
      /\ Here \in ({"move"} \cup AfterMove) \ InNginx => There = Target
      /\ There \in Benches
  BY <1>1, StepIs
<1>3. /\ Source \in Benches /\ Target \in Benches /\ order.skipBackups \in BOOLEAN
      /\ order.kind \notin Stays => Source # Target
  BY <1>1, OrderIs
<1> HIDE DEF Here, There
<1>4. Place = Target /\ maintenance
  BY <1>1, <1>2 DEF PlaceSound, MaintenanceSound, AfterMove, Stays
<1>5. Here # "chooseAll" => There = Target
  BY <1>2 DEF AfterMove, InNginx
<1> QED BY <1>1, <1>2, <1>3, <1>4, <1>5 DEF Restores, OrderSound, Updates, Stays

\* The tables of a migration fit once they are altered.
LEMMA AlteredFits ==
    ASSUME TypeOK, RowsKept, PartlyAltered, todo = {}, Target = Source + 1,
           Source \in Benches, Target \in Benches
    PROVE  FitsAll(Target)
<1>1. ASSUME NEW t \in Tables PROVE Fits(table[t], Target, t)
  <2>1. VersionAt(Target, t) = IF t \in Changes[Target] THEN Target ELSE VersionAt(Source, t)
    BY Versions
  <2>2. CASE t \in Changes[Target]
    <3>1. table[t].version = Target /\ table[t].whole /\ table[t].rows = committed[t]
      BY <2>2 DEF PartlyAltered, RowsKept
    <3>2. table[t] \in Content
      BY DEF TypeOK
    <3>3. \A v, r : table[t] = [version |-> v, rows |-> r, whole |-> TRUE]
                      <=> table[t].version = v /\ table[t].rows = r /\ table[t].whole
      BY <3>2, ContentIs
    <3>4. table[t] = [version |-> Target, rows |-> committed[t], whole |-> TRUE]
      BY <3>1, <3>3
    <3> QED BY <2>1, <2>2, <3>4 DEF Fits
  <2>3. CASE t \notin Changes[Target]
    <3>1. Fits(table[t], Source, t)
      BY <2>3 DEF PartlyAltered
    <3> QED BY <2>1, <2>3, <3>1 DEF Fits
  <2> QED BY <2>2, <2>3
<1> QED BY <1>1 DEF FitsAll

LEMMA SetUpMigrationStep == ASSUME IInv, SetUpMigration PROVE IInv'
<1> USE DEF siteVars, dataVars, fileVars
<1>1. TypeOK /\ OnPlan /\ Control /\ Data /\ Nginx
  BY DEF IInv
<1>2. TypeOK'
  BY <1>1, TypedSite DEF SiteStep, IInv, Control
<1>3. /\ StepEnds("setUp") /\ Here = "setUp" /\ Here' = "alter"
      /\ UNCHANGED <<siteVars, dataVars, dump, previous, order, failed, nginxVars>>
      /\ touched' = None /\ todo' = Changes[There]
  BY AdvanceIs DEF SetUpMigration, StepEnds, There
<1>4. /\ order.kind = "migrate" /\ Place = Target /\ Source # Target /\ maintenance
      /\ There = Target /\ Place' = Place /\ Source' = Source /\ Target' = Target
  BY <1>3, AfterTheMove, PlaceKept DEF Source, Target
<1>5. Control'
  BY <1>1, <1>3, ControlAdvances
<1>6. Data'
  <2>1. RowsKept' /\ ~MustFit'
    BY <1>1, <1>3, <1>4 DEF Data, RowsKept, MustFit
  <2>2. DumpsWanted' => DumpsWanted
    BY <1>3, <1>4 DEF DumpsWanted
  <2>3. DumpsHold'
    BY <1>1, <1>3, <1>4, <2>2 DEF Data, DumpsHold, DumpsFit, Fits, Origin
  <2>4. FitsAll(Source) /\ (~order.skipBackups => AsDumped)
    BY <1>1, <1>3, <1>4 DEF Data, NotYetAltered
  <2>5. PartlyAltered'
    BY <1>3, <1>4, <2>4 DEF PartlyAltered, FitsAll, Fits, AsDumped
  <2>6. RecordHolds'
    BY <1>3 DEF RecordHolds, Recorded
  <2> QED BY <1>3, <2>1, <2>3, <2>5, <2>6
       DEF Data, Dumping, NotYetAltered, Altering, Restoring, Served, InNginx
<1>7. Nginx'
  BY <1>1, <1>3, NginxAdvances DEF InNginx
<1> QED BY <1>2, <1>3, <1>5, <1>6, <1>7 DEF IInv, StepEnds

LEMMA AlterTableStep == ASSUME IInv, NEW t \in Tables, AlterTable(t) PROVE IInv'
<1> USE DEF siteVars
<1>1. TypeOK /\ OnPlan /\ OrderSound /\ Data
  BY DEF IInv, Control
<1>2. TypeOK'
  BY <1>1, TypedSite DEF SiteStep, TableStep
<1>3. /\ Here = "alter" /\ t \in todo /\ todo' = todo \ {t}
      /\ UNCHANGED <<siteVars, dump, committed, previous, touched, order, plan, failed,
                     nginxVars>>
      /\ table' = [table EXCEPT ![t].version = There, ![t].whole = TRUE]
  BY DEF AlterTable, DoneWith, At, Here, Step, There
<1>4. /\ OnPlan' /\ Control' /\ Nginx' /\ Here' = "alter"
      /\ Place' = Place /\ Source' = Source /\ Target' = Target
  BY <1>3, TableStepIs
<1>5. /\ order.kind = "migrate" /\ Place = Target /\ Source # Target /\ maintenance
      /\ There = Target
  BY <1>3, AfterTheMove
<1>6. PartlyAltered
  BY <1>1, <1>3 DEF Data, Altering
<1>7. /\ table'[t].version = Target /\ table'[t].whole /\ table'[t].rows = table[t].rows
      /\ \A u \in Tables \ {t} : table'[u] = table[u]
  BY <1>1, <1>3, <1>5 DEF TypeOK, Content
<1>8. PartlyAltered'
  <2>1. touched' = None /\ todo' \subseteq Changes[Target]
    BY <1>3, <1>6 DEF PartlyAltered
  <2>2. ASSUME NEW u \in Tables
        PROVE  IF u \in Changes[Target] \ todo' THEN table'[u].version = Target /\ table'[u].whole
               ELSE Fits(table[u], Source, u)' /\ (~order.skipBackups => dump'[u] = table'[u])
    <3>1. CASE u = t
      BY <1>3, <1>6, <1>7, <3>1 DEF PartlyAltered
    <3>2. CASE u # t
      <4>1. table'[u] = table[u] /\ (u \in todo' <=> u \in todo)
        BY <1>3, <1>7, <3>2
      <4> QED BY <1>3, <1>4, <1>6, <4>1 DEF PartlyAltered, Fits
    <3> QED BY <3>1, <3>2
  <2> QED BY <1>3, <1>4, <2>1, <2>2 DEF PartlyAltered
<1>9. Data'
  <2>1. RowsKept'
    BY <1>1, <1>3, <1>7 DEF Data, RowsKept
  <2>2. ~MustFit'
    BY <1>3, <1>4, <1>5 DEF MustFit
  <2>3. DumpsHold'
    BY <1>1, <1>3, <1>4 DEF Data, DumpsHold, DumpsWanted, DumpsFit, Fits, Origin
  <2>4. RecordHolds'
    BY <1>3, <1>6 DEF RecordHolds, Recorded, PartlyAltered
  <2> QED BY <1>4, <1>8, <2>1, <2>2, <2>3, <2>4
       DEF Data, Dumping, NotYetAltered, Altering, Restoring, Served, InNginx
<1> QED BY <1>2, <1>4, <1>9 DEF IInv

\* The migration has altered every table, and with dumps it has recorded which.
LEMMA EndMigrationStep == ASSUME IInv, EndMigration PROVE IInv'
<1> USE DEF siteVars, dataVars, fileVars
<1>1. TypeOK /\ OnPlan /\ Control /\ Data /\ Nginx
  BY DEF IInv
<1>2. TypeOK'
  BY <1>1, TypedSite DEF SiteStep, IInv, Control
<1>3. /\ StepEnds("alter") /\ Here = "alter" /\ Here' = "activate"
      /\ UNCHANGED <<siteVars, dataVars, dump, previous, todo, order, failed, nginxVars>>
      /\ todo = {} /\ touched' = Changes[There] \ todo
  BY AdvanceIs DEF EndMigration, StepEnds, There, Altered
<1>4. /\ order.kind = "migrate" /\ Place = Target /\ Source # Target /\ maintenance
      /\ Target = Source + 1 /\ Source \in Benches /\ Target \in Benches
      /\ There = Target /\ Place' = Place /\ Source' = Source /\ Target' = Target
  BY <1>3, AfterTheMove, PlaceKept DEF Source, Target
<1>5. Control'
  BY <1>1, <1>3, ControlAdvances
<1>6. PartlyAltered
  BY <1>1, <1>3 DEF Data, Altering
<1>7. Data'
  <2>1. RowsKept'
    BY <1>1, <1>3 DEF Data, RowsKept
  <2>2. DumpsWanted' => DumpsWanted
    BY <1>3, <1>4 DEF DumpsWanted
  <2>3. DumpsHold'
    BY <1>1, <1>3, <1>4, <2>2 DEF Data, DumpsHold, DumpsFit, Fits, Origin
  <2>4. FitsAll(Target)
    BY <1>1, <1>3, <1>4, <1>6, AlteredFits DEF Data
  <2>5. Served'
    BY <1>3, <1>4, <2>4 DEF Served, FitsAll, Fits
  <2>6. RecordHolds'
    <3>1. ASSUME ~order.skipBackups, NEW t \in previous, table[t] # dump[t]
          PROVE  t \in Changes[Target]
      <4>1. previous # None
        BY <1>1, <1>4, <3>1 DEF Data, DumpsHold, DumpsWanted, DumpsFit
      <4>2. t \in Tables
        BY <1>1, <4>1 DEF TypeOK
      <4> QED BY <1>6, <3>1, <4>2 DEF PartlyAltered
    <3> QED BY <1>3, <1>4, <3>1 DEF RecordHolds, RecordWanted, Recorded
  <2> QED BY <1>3, <2>1, <2>3, <2>5, <2>6
       DEF Data, Dumping, NotYetAltered, Altering, Restoring, InNginx
<1>8. Nginx'
  BY <1>1, <1>3, NginxAdvances DEF InNginx
<1> QED BY <1>2, <1>3, <1>5, <1>7, <1>8 DEF IInv, StepEnds

\* What a recovery that restores tables counts on.
LEMMA WhatIsDumped ==
    ASSUME IInv, Here \in {"choose", "chooseAll", "restore", "drop"}
    PROVE  /\ DumpsWanted /\ Origin = Target /\ DumpsFit(Target) /\ previous \subseteq Tables
           /\ \A t \in previous : t \in Dumped
<1>1. TypeOK /\ Data
  BY DEF IInv
<1>2. DumpsWanted /\ Origin = Target
  BY AfterTheMove DEF DumpsWanted, Origin
<1>3. DumpsFit(Target)
  BY <1>1, <1>2 DEF Data, DumpsHold
<1>4. previous \subseteq Tables
  BY <1>1, <1>3 DEF TypeOK, DumpsFit
<1> QED BY <1>2, <1>3, <1>4 DEF DumpsFit, Dumped

\* Tables that are as they were dumped fit the bench they were dumped in.
LEMMA RestoredFits ==
    ASSUME NEW b, DumpsFit(b), RestoredBut({})
    PROVE  FitsAll(b)
<1>1. ASSUME NEW t \in Tables, VersionAt(b, t) # 0 PROVE Fits(table[t], b, t)
  <2>1. dump[t] = [version |-> VersionAt(b, t), rows |-> committed[t], whole |-> TRUE]
    BY <1>1 DEF DumpsFit, Fits
  <2>2. dump[t].version = VersionAt(b, t)
    BY <2>1
  <2>3. dump[t] # Absent
    BY <1>1, <2>2 DEF Absent
  <2>4. t \in previous
    BY <2>3 DEF DumpsFit
  <2>5. table[t] = dump[t]
    BY <2>4 DEF RestoredBut
  <2> QED BY <2>1, <2>5 DEF Fits
<1> QED BY <1>1 DEF FitsAll, Fits

\* A step of a recovery that neither changes the dumps nor ends the restoring.
LEMMA RestoringGoesOn ==
    ASSUME IInv, Here \in {"choose", "chooseAll", "restore", "drop"},
           UNCHANGED <<siteVars, committed, fileVars, order>>,
           Here' \in {"restore", "drop"}, RowsKept', Restoring'
    PROVE  Data'
<1> USE DEF siteVars, fileVars
<1>1. /\ Place = Target /\ maintenance /\ ~order.skipBackups
      /\ order.kind \in {"recoverMigrate", "restoreTables"}
      /\ order.kind = "recoverMigrate" => Source # Target
  BY AfterTheMove
<1>2. /\ Source' = Source /\ Target' = Target /\ Place' = Place /\ Origin' = Origin
  BY PlaceKept DEF Source, Target, Origin
<1>3. DumpsHold'
  BY <1>2, WhatIsDumped DEF DumpsHold, DumpsFit, Fits
<1>4. ~RecordWanted' /\ ~MustFit'
  BY <1>1, <1>2 DEF RecordWanted, MustFit, InNginx
<1> QED BY <1>1, <1>3, <1>4
     DEF Data, Dumping, NotYetAltered, Altering, RecordHolds, Served, InNginx

\* The end of the restoring.
LEMMA RestoringEnds ==
    ASSUME IInv, Here \in {"restore", "drop"},
           UNCHANGED <<siteVars, dataVars, fileVars, order>>,
           Here' = "activate", RestoredBut({})
    PROVE  Data'
<1> USE DEF siteVars, dataVars, fileVars
<1>1. /\ Place = Target /\ maintenance /\ ~order.skipBackups
      /\ order.kind \in {"recoverMigrate", "restoreTables"}
      /\ order.kind = "recoverMigrate" => Source # Target
  BY AfterTheMove
<1>2. /\ Source' = Source /\ Target' = Target /\ Place' = Place /\ Origin' = Origin
  BY PlaceKept DEF Source, Target, Origin
<1>3. DumpsHold' /\ RowsKept'
  BY <1>2, WhatIsDumped DEF DumpsHold, DumpsFit, Fits, IInv, Data, RowsKept
<1>4. FitsAll(Target)
  BY WhatIsDumped, RestoredFits
<1>5. Served'
  BY <1>1, <1>2, <1>4 DEF Served, FitsAll, Fits
<1>6. ~RecordWanted'
  BY <1>1, <1>2 DEF RecordWanted, InNginx
<1> QED BY <1>1, <1>3, <1>5, <1>6
     DEF Data, Dumping, NotYetAltered, Altering, RecordHolds, Restoring, InNginx

LEMMA ChooseTouchedTablesStep == ASSUME IInv, ChooseTouchedTables PROVE IInv'
<1> USE DEF siteVars, dataVars, fileVars
<1>1. TypeOK /\ OnPlan /\ Control /\ Data /\ Nginx
  BY DEF IInv
<1>2. TypeOK'
  BY <1>1, TypedSite DEF SiteStep, IInv, Control
<1>3. /\ StepEnds("choose") /\ Here = "choose" /\ Here' = "restore"
      /\ UNCHANGED <<siteVars, dataVars, fileVars, order, failed, nginxVars>>
      /\ todo' = TablesToRestore \cap Dumped
  BY AdvanceIs DEF ChooseTouchedTables, StepEnds
<1>4. Control'
  BY <1>1, <1>3, ControlAdvances
<1>5. RestoredBut(todo')
  <2>1. RecordWanted
    BY <1>3, AfterTheMove DEF RecordWanted
  <2>2. Recorded
    BY <1>1, <2>1 DEF Data, RecordHolds
  <2>3. \A t \in previous : t \in Dumped
    BY <1>3, WhatIsDumped
  <2> QED BY <1>3, <2>2, <2>3 DEF RestoredBut, Recorded, TablesToRestore
<1>6. RowsKept' /\ Restoring'
  BY <1>1, <1>3, <1>5 DEF Data, RowsKept, Restoring, RestoredBut
<1>7. Data'
  BY <1>3, <1>6, RestoringGoesOn
<1>8. Nginx'
  BY <1>1, <1>3, NginxAdvances DEF InNginx
<1> QED BY <1>2, <1>3, <1>4, <1>7, <1>8 DEF IInv, StepEnds

LEMMA ChooseAllTablesStep == ASSUME IInv, ChooseAllTables PROVE IInv'
<1> USE DEF siteVars, dataVars, fileVars
<1>1. TypeOK /\ OnPlan /\ Control /\ Data /\ Nginx
  BY DEF IInv
<1>2. TypeOK'
  BY <1>1, TypedSite DEF SiteStep, IInv, Control
<1>3. /\ StepEnds("chooseAll") /\ Here = "chooseAll" /\ Here' = "restore"
      /\ UNCHANGED <<siteVars, dataVars, fileVars, order, failed, nginxVars>>
      /\ todo' = Dumped
  BY AdvanceIs DEF ChooseAllTables, StepEnds
<1>4. Control'
  BY <1>1, <1>3, ControlAdvances
<1>5. RestoredBut(todo')
  BY <1>3, WhatIsDumped DEF RestoredBut
<1>6. RowsKept' /\ Restoring'
  BY <1>1, <1>3, <1>5 DEF Data, RowsKept, Restoring, RestoredBut
<1>7. Data'
  BY <1>3, <1>6, RestoringGoesOn
<1>8. Nginx'
  BY <1>1, <1>3, NginxAdvances DEF InNginx
<1> QED BY <1>2, <1>3, <1>4, <1>7, <1>8 DEF IInv, StepEnds

LEMMA RestoreTableStep == ASSUME IInv, NEW t \in Tables, RestoreTable(t) PROVE IInv'
<1> USE DEF siteVars, fileVars
<1>1. TypeOK /\ OnPlan /\ OrderSound /\ Data
  BY DEF IInv, Control
<1>2. TypeOK'
  BY <1>1, TypedSite DEF SiteStep, TableStep
<1>3. /\ Here = "restore" /\ t \in todo /\ todo' = todo \ {t}
      /\ UNCHANGED <<siteVars, committed, fileVars, order, plan, failed, nginxVars>>
      /\ table' = [table EXCEPT ![t] = dump[t]]
  BY DEF RestoreTable, DoneWith, At, Here, Step
<1>4. OnPlan' /\ Control' /\ Nginx' /\ Here' = "restore"
  BY <1>3, TableStepIs
<1>5. table'[t] = dump[t] /\ \A u \in Tables \ {t} : table'[u] = table[u]
  BY <1>1, <1>3 DEF TypeOK
<1>6. DumpsFit(Target) /\ previous \subseteq Tables
  BY <1>3, WhatIsDumped
<1>7. RowsKept'
  <2>1. dump[t].rows = committed[t]
    BY <1>6 DEF DumpsFit
  <2> QED BY <1>1, <1>3, <1>5, <2>1 DEF Data, RowsKept
<1>8. Restoring'
  <2>1. RestoredBut(todo)
    BY <1>1, <1>3 DEF Data, Restoring
  <2> QED BY <1>3, <1>4, <1>5, <1>6, <2>1 DEF Restoring, RestoredBut
<1>9. Data'
  BY <1>3, <1>4, <1>7, <1>8, RestoringGoesOn
<1> QED BY <1>2, <1>4, <1>9 DEF IInv

LEMMA DropNewTableStep == ASSUME IInv, NEW t \in Tables, DropNewTable(t) PROVE IInv'
<1> USE DEF siteVars, fileVars, jobVars
<1>1. TypeOK /\ OnPlan /\ OrderSound /\ Data
  BY DEF IInv, Control
<1>2. TypeOK'
  BY <1>1, TypedSite DEF SiteStep, TableStep
<1>3. /\ Here = "drop" /\ t \notin previous
      /\ UNCHANGED <<siteVars, committed, fileVars, order, plan, todo, failed, nginxVars>>
      /\ table' = [table EXCEPT ![t] = Absent]
  BY DEF DropNewTable, At, Here, Step
<1>4. OnPlan' /\ Control' /\ Nginx' /\ Here' = "drop"
  BY <1>3, TableStepIs
<1>5. table'[t] = Absent /\ \A u \in Tables \ {t} : table'[u] = table[u]
  BY <1>1, <1>3 DEF TypeOK
<1>6. DumpsFit(Target) /\ previous \subseteq Tables
  BY <1>3, WhatIsDumped
<1>7. RowsKept'
  <2>1. dump[t] = Absent /\ dump[t].rows = committed[t]
    BY <1>3, <1>6 DEF DumpsFit
  <2> QED BY <1>1, <1>3, <1>5, <2>1 DEF Data, RowsKept
<1>8. Restoring'
  <2>1. RestoredBut({})
    BY <1>1, <1>3 DEF Data, Restoring
  <2> QED BY <1>3, <1>4, <1>5, <1>6, <2>1 DEF Restoring, RestoredBut
<1>9. Data'
  BY <1>3, <1>4, <1>7, <1>8, RestoringGoesOn
<1> QED BY <1>2, <1>4, <1>9 DEF IInv

\* Every table that was touched has been restored.
LEMMA EndRestoreStep ==
    ASSUME IInv, Advance("restore"), todo = {}, UNCHANGED <<siteVars, dataVars, fileVars, todo>>
    PROVE  IInv'
<1> USE DEF siteVars, dataVars, fileVars
<1>1. TypeOK /\ OnPlan /\ Control /\ Data /\ Nginx /\ OrderSound
  BY DEF IInv, Control
<1>2. TypeOK'
  <2>1. EndOfStep
    BY DEF EndOfStep
  <2> QED BY <1>1, <2>1, TypedSite DEF SiteStep
<1>3. /\ StepEnds("restore") /\ Here = "restore" /\ Here' \in {"drop", "activate"}
      /\ UNCHANGED <<order, failed, nginxVars>>
  BY AdvanceIs DEF StepEnds
<1>4. Control'
  BY <1>1, <1>3, ControlAdvances
<1>5. RestoredBut({})
  BY <1>1, <1>3 DEF Data, Restoring
<1>6. Data'
  <2>1. CASE Here' = "drop"
    <3>1. RowsKept' /\ Restoring'
      BY <1>1, <1>5, <2>1 DEF Data, RowsKept, Restoring, RestoredBut
    <3> QED BY <1>3, <2>1, <3>1, RestoringGoesOn
  <2>2. CASE Here' = "activate"
    BY <1>3, <1>5, <2>2, RestoringEnds
  <2> QED BY <1>3, <2>1, <2>2
<1>7. Nginx'
  BY <1>1, <1>3, NginxAdvances DEF InNginx
<1> QED BY <1>2, <1>3, <1>4, <1>6, <1>7 DEF IInv, StepEnds

\* Every table that the migration created is gone.
LEMMA EndDropStep ==
    ASSUME IInv, Advance("drop"), UNCHANGED <<siteVars, dataVars, fileVars, todo>>,
           Existing \subseteq previous
    PROVE  IInv'
<1> USE DEF siteVars, dataVars, fileVars
<1>1. TypeOK /\ OnPlan /\ Control /\ Data /\ Nginx /\ OrderSound
  BY DEF IInv, Control
<1>2. TypeOK'
  <2>1. EndOfStep
    BY DEF EndOfStep
  <2> QED BY <1>1, <2>1, TypedSite DEF SiteStep
<1>3. /\ StepEnds("drop") /\ Here = "drop" /\ Here' = "activate"
      /\ UNCHANGED <<order, failed, nginxVars>>
  BY AdvanceIs DEF StepEnds
<1>4. Control'
  BY <1>1, <1>3, ControlAdvances
<1>5. RestoredBut({})
  BY <1>1, <1>3 DEF Data, Restoring
<1>6. Data'
  BY <1>3, <1>5, RestoringEnds
<1>7. Nginx'
  BY <1>1, <1>3, NginxAdvances DEF InNginx
<1> QED BY <1>2, <1>3, <1>4, <1>6, <1>7 DEF IInv, StepEnds

LEMMA EndOfStepStep == ASSUME IInv, EndOfStep PROVE IInv'
BY EndDumpStep, EndRestoreStep, EndDropStep, EndIndexStep DEF EndOfStep

\* Any of them.
LEMMA SiteStepStep == ASSUME IInv, SiteStep PROVE IInv'
<1>1. ASSUME NEW t \in Tables, TableStep(t) PROVE IInv'
  BY <1>1, DumpTableStep, AlterTableStep, RestoreTableStep, DropNewTableStep DEF TableStep
<1> QED BY <1>1, OpenStep, EnableMaintenanceModeStep, WaitTillReadyStep, WaitTimesOutStep,
           ClearBackupDirectoryStep, ListTablesStep, MoveSiteStep, SetUpMigrationStep,
           EndMigrationStep, ChooseTouchedTablesStep, ChooseAllTablesStep, EndOfStepStep,
           DisableMaintenanceModeStep DEF SiteStep

(***************************************************************************)
(* The steps of setup_nginx.                                               *)
(***************************************************************************)

\* A step of another site's job leaves the site and its job as they are.
LEMMA NeighbourKeeps ==
    ASSUME IInv, UNCHANGED <<siteVars, dataVars, fileVars, order, todo>>,
           Here' = Here, failed'["site"] = failed["site"]
    PROVE  Control' /\ Data'
<1> USE DEF siteVars, dataVars, fileVars
<1>1. Control /\ Data
  BY DEF IInv
<1>2. Place' = Place /\ Source' = Source /\ Target' = Target
  BY PlaceKept DEF Source, Target
<1>3. Control'
  BY <1>1, <1>2 DEF Control, OrderSound, PlaceSound, MaintenanceSound, Running, Quiet, MustBeQuiet
<1>4. Data'
  BY <1>1, <1>2
     DEF Data, RowsKept, DumpsHold, DumpsWanted, DumpsFit, Origin, Dumping, NothingDumped,
         BeingDumped, NotYetAltered, AsDumped, FitsAll, Fits, Altering, PartlyAltered,
         RecordHolds, RecordWanted, Recorded, Restoring, RestoredBut, Served, MustFit
<1> QED BY <1>3, <1>4

\* A process goes on from a step of setup_nginx.
Turn(p, name) ==
    /\ OnPlan' /\ Step(p) = name /\ Bench(p) \in Benches
    /\ \A q \in Processes \ {p} :
         Step(q)' = Step(q) /\ Bench(q)' = Bench(q) /\ plan'[q] = plan[q]
    /\ name = "read" => Step(p)' = "render"
    /\ name = "render" => Step(p)' = "write"
    /\ name = "write" => Step(p)' = "reload"
    /\ name = "reload" => Step(p)' \notin {"render", "write"}
    /\ name # "reload" => Bench(p)' = Bench(p) /\ plan'[p] # <<>>

\* A step of setup_nginx takes the job of the site or of a neighbour to the next one.
LEMMA AdvanceNginxIs ==
    ASSUME IInv, NEW p \in Processes, NEW name \in InNginx, AdvanceNginx(p, name)
    PROVE  /\ Turn(p, name) /\ Control' /\ Data'
           /\ UNCHANGED <<siteVars, dataVars, fileVars, order, todo, failed, updates, faults>>
           /\ p = "site" => StepEnds(name) /\ There \in {Source, Target} /\ order.kind \notin Stays
           /\ p # "site" => p \in Neighbours /\ Here' = Here /\ There' = There
<1>1. /\ TypeOK /\ OnPlan /\ Control /\ Data /\ OrderSound
      /\ At(p, name) /\ Proceed(p) /\ plan[p] # <<>> /\ Step(p) = name
      /\ UNCHANGED <<siteVars, dataVars, fileVars, order, todo, failed, updates, faults>>
  BY DEF IInv, Control, AdvanceNginx, At, Step
<1>2. CASE p = "site"
  <2>1. StepEnds(name) /\ Here = name
    BY <1>1, <1>2, SiteSteps DEF StepEnds
  <2>2. /\ There \in {Source, Target} /\ order.kind \notin Stays /\ There \in Benches
        /\ order.kind \notin Stays => Source # Target
    BY <1>1, <2>1, StepIs, OrderIs
  <2>3. Data'
    BY <1>1, <2>1, DataAdvances DEF siteVars, InNginx
  <2>4. Control'
    BY <1>1, <2>1, ControlAdvances DEF siteVars, InNginx
  <2>5. /\ \A q \in Processes \ {p} :
             Step(q)' = Step(q) /\ Bench(q)' = Bench(q) /\ plan'[q] = plan[q]
        /\ Step(p)' = Here' /\ Bench(p)' = There' /\ Bench(p) = There
    BY <1>2, <2>1 DEF StepEnds, Processes, Here, There
  <2>6. Here' # "idle" => plan'[p] # <<>>
    BY <1>2 DEF Here, Step
  <2> HIDE DEF Here, There
  <2>7. /\ name = "read" => Here' = "render" /\ There' = There
        /\ name = "render" => Here' = "write" /\ There' = There
        /\ name = "write" => Here' = "reload" /\ There' = There
        /\ name = "reload" => Here' \notin {"render", "write"}
    BY <2>1, <2>2 DEF StepEnds
  <2>8. name \in {"read", "render", "write", "reload"}
    BY DEF InNginx
  <2>9. Turn(p, name)
    BY <1>1, <2>1, <2>2, <2>5, <2>6, <2>7, <2>8 DEF Turn, StepEnds
  <2> QED BY <1>1, <1>2, <2>1, <2>2, <2>3, <2>4, <2>9
<1>3. CASE p # "site"
  <2>1. p \in Neighbours
    BY <1>3 DEF Processes
  <2>2. /\ OnPlan' /\ Here' = Here /\ There' = There
        /\ \A m \in Processes \ {p} :
             Step(m)' = Step(m) /\ Bench(m)' = Bench(m) /\ plan'[m] = plan[m]
        /\ Step(p) = "reload" => Step(p)' = "idle" /\ plan'[p] = <<>>
        /\ Step(p) # "reload" => plan'[p] # <<>> /\ Bench(p)' = Bench(p)
        /\ Step(p) = "read" => Step(p)' = "render"
        /\ Step(p) = "render" => Step(p)' = "write"
        /\ Step(p) = "write" => Step(p)' = "reload"
    BY <1>1, <2>1, NeighbourProceeds
  <2>3. Bench(p) \in Benches
    BY <1>1, <2>1, NeighbourAt, UpdateAssumption
  <2>4. Turn(p, name)
    BY <1>1, <2>2, <2>3 DEF Turn
  <2>5. Control' /\ Data'
    BY <1>1, <2>2, NeighbourKeeps
  <2> QED BY <1>1, <1>3, <2>1, <2>2, <2>4, <2>5
<1> QED BY <1>2, <1>3

\* Where the jobs of other sites go on, no other configuration may be stale.
LEMMA StaleKept ==
    ASSUME IInv, NEW p \in Processes, NEW name \in InNginx, AdvanceNginx(p, name),
           NEW b \in Benches, MayBeStale(b), p = "site" /\ name = "read" => b # Bench(p)
    PROVE  MayBeStale(b)'
<1>1. /\ UNCHANGED <<dir, maintenance, order, failed>>
      /\ p = "site" => StepEnds(name) /\ There \in {Source, Target} /\ order.kind \notin Stays
      /\ p # "site" => Here' = Here /\ There' = There
  BY AdvanceNginxIs DEF siteVars
<1>2. Place' = Place /\ Source' = Source /\ Target' = Target
  BY <1>1, PlaceKept DEF Source, Target
<1>3. p = "site" => Here = name /\ There = Bench(p)
  BY <1>1 DEF StepEnds, There
<1>4. order.kind \notin Stays => Source # Target
  BY OrderIs DEF IInv, Control
<1> HIDE DEF Here, There
<1>5. CASE p # "site"
  BY <1>1, <1>2, <1>5 DEF MayBeStale, Unmoved
<1>6. CASE p = "site"
  <2>1. /\ order.kind \notin Stays /\ Here = name /\ There = Bench(p) /\ There \in {Source, Target}
        /\ StepEnds(name) /\ Source # Target
    BY <1>1, <1>3, <1>4, <1>6
  <2>2. \/ name = "read" /\ There = Source /\ b = Target
        \/ name # "read" /\ There = Source /\ b = Target
    BY <1>6, <2>1 DEF MayBeStale, Unmoved, InNginx, BeforeMove
  <2>3. \/ Here' \in InNginx /\ There' = Source
        \/ Here' = "read" /\ There' = Target
    BY <2>1, <2>2 DEF StepEnds, InNginx
  <2> QED BY <1>2, <2>2, <2>3 DEF MayBeStale
<1> QED BY <1>5, <1>6

\* The steps of setup_nginx, by the site's job or by a neighbour's.
LEMMA ReadSitesStep == ASSUME IInv, NEW p \in Processes, ReadSites(p) PROVE IInv'
<1> USE DEF siteVars, dataVars, fileVars
<1> DEFINE B == Bench(p)
<1>1. TypeOK /\ OnPlan /\ LocksSound /\ ConfSound /\ OrderSound
  BY DEF IInv, Control, Nginx
<1>2. TypeOK'
  BY <1>1, TypedNginx DEF NginxStep
<1>3. /\ Turn(p, "read") /\ Control' /\ Data' /\ AdvanceNginx(p, "read")
      /\ UNCHANGED <<dir, failed, conf, live>>
      /\ p = "site" => Here' = "render"
      /\ p # "site" => p \in Neighbours
  BY AdvanceNginxIs DEF ReadSites, InNginx, StepEnds
<1>4. /\ lock[B] = None /\ B \in Benches /\ None \notin Processes
      /\ lock' = [lock EXCEPT ![B] = p] /\ listed' = [listed EXCEPT ![p] = dir[B] = "site"]
      /\ lock \in [Benches -> Processes \cup {None}] /\ listed \in [Processes -> BOOLEAN]
  BY <1>1, <1>3, UpdateAssumption DEF ReadSites, Turn, TypeOK
<1>5. LocksSound'
  <2>1. ASSUME NEW b \in Benches, NEW q \in Processes
        PROVE  lock'[b] = q <=> Step(q)' \in {"render", "write"} /\ Bench(q)' = b
    <3>1. lock[b] = q <=> Step(q) \in {"render", "write"} /\ Bench(q) = b
      BY <1>1 DEF LocksSound
    <3>2. lock'[b] = IF b = B THEN p ELSE lock[b]
      BY <1>4
    <3> QED BY <1>3, <1>4, <3>1, <3>2 DEF Turn
  <2> QED BY <2>1 DEF LocksSound
<1>6. ConfSound'
  <2>1. ASSUME NEW b \in Benches, NeighboursFine PROVE MayBeStale(b)' \/ Right(b)'
    <3>1. CASE b = B
      <4>1. lock'[b] = p /\ listed'[p] = (dir[B] = "site")
        BY <1>4, <3>1
      <4>2. dir[B] = "site" <=> B = Place
        BY <1>1, <1>4, PlaceIs
      <4>3. Place' = Place
        BY <1>3, PlaceKept
      <4> QED BY <1>4, <3>1, <4>1, <4>2, <4>3 DEF Right
    <3>2. CASE b # B
      <4>1. MayBeStale(b) => MayBeStale(b)'
        BY <1>3, <3>2, StaleKept DEF InNginx
      <4>2. lock'[b] = lock[b] /\ lock[b] # p
        BY <1>1, <1>3, <1>4, <3>2 DEF LocksSound, Turn
      <4>3. lock[b] # None => listed'[lock[b]] = listed[lock[b]]
        BY <1>4, <4>2
      <4>4. Place' = Place
        BY <1>3, PlaceKept
      <4>5. Right(b) => Right(b)'
        BY <1>3, <4>2, <4>3, <4>4 DEF Right
      <4> QED BY <1>1, <2>1, <4>1, <4>5 DEF ConfSound
    <3> QED BY <3>1, <3>2
  <2> QED BY <1>3, <2>1 DEF ConfSound, NeighboursFine
<1>7. LiveSound'
  BY <1>3 DEF LiveSound, ReloadToCome, InNginx, Turn
<1> QED BY <1>2, <1>3, <1>5, <1>6, <1>7 DEF IInv, Nginx, Turn

\* What holds of a configuration holds after a step that leaves it alone.
LEMMA RightKept ==
    ASSUME NEW b \in Benches, Right(b), UNCHANGED <<dir, conf, listed>>, lock'[b] = lock[b]
    PROVE  Right(b)'
BY PlaceKept DEF Right

LEMMA OpenConfStep == ASSUME IInv, NEW p \in Processes, OpenConf(p) PROVE IInv'
<1> USE DEF siteVars, dataVars, fileVars
<1> DEFINE B == Bench(p)
<1>1. TypeOK /\ OnPlan /\ LocksSound /\ ConfSound /\ OrderSound
  BY DEF IInv, Control, Nginx
<1>2. TypeOK'
  BY <1>1, TypedNginx DEF NginxStep
<1>3. /\ Turn(p, "render") /\ Control' /\ Data' /\ AdvanceNginx(p, "render")
      /\ UNCHANGED <<dir, failed, live, lock, listed>>
      /\ p = "site" => Here' = "write"
      /\ p # "site" => p \in Neighbours
  BY AdvanceNginxIs DEF OpenConf, InNginx, StepEnds
<1>4. /\ lock[B] = p /\ B \in Benches /\ None \notin Processes
      /\ \A b \in Benches \ {B} : conf'[b] = conf[b]
  BY <1>1, <1>3, UpdateAssumption DEF OpenConf, Turn, TypeOK, LocksSound
<1>5. LocksSound'
  <2>1. ASSUME NEW b \in Benches, NEW q \in Processes
        PROVE  lock[b] = q <=> Step(q)' \in {"render", "write"} /\ Bench(q)' = b
    BY <1>1, <1>3 DEF LocksSound, Turn
  <2> QED BY <1>3, <2>1 DEF LocksSound
<1>6. ConfSound'
  <2>1. ASSUME NEW b \in Benches, NeighboursFine PROVE MayBeStale(b)' \/ Right(b)'
    <3>1. MayBeStale(b) => MayBeStale(b)'
      BY <1>3, StaleKept DEF InNginx
    <3>2. Place' = Place
      BY <1>3, PlaceKept
    <3>3. Right(b) => Right(b)'
      BY <1>3, <1>4, <3>2 DEF Right
    <3> QED BY <1>1, <2>1, <3>1, <3>3 DEF ConfSound
  <2> QED BY <1>3, <2>1 DEF ConfSound, NeighboursFine
<1>7. LiveSound'
  BY <1>3 DEF LiveSound, ReloadToCome, InNginx, Turn
<1> QED BY <1>2, <1>3, <1>5, <1>6, <1>7 DEF IInv, Nginx, Turn

LEMMA WriteConfStep == ASSUME IInv, NEW p \in Processes, WriteConf(p) PROVE IInv'
<1> USE DEF siteVars, dataVars, fileVars
<1> DEFINE B == Bench(p)
<1>1. TypeOK /\ OnPlan /\ LocksSound /\ ConfSound /\ OrderSound
  BY DEF IInv, Control, Nginx
<1>2. TypeOK'
  BY <1>1, TypedNginx DEF NginxStep
<1>3. /\ Turn(p, "write") /\ Control' /\ Data' /\ AdvanceNginx(p, "write")
      /\ UNCHANGED <<dir, failed, live>>
      /\ p = "site" => Here' = "reload"
      /\ p # "site" => p \in Neighbours
  BY AdvanceNginxIs DEF WriteConf, InNginx, StepEnds
<1>4. /\ B \in Benches /\ None \notin Processes
      /\ \A b \in Benches : lock[b] = p <=> b = B
      /\ \A b \in Benches : lock'[b] = IF b = B THEN None ELSE lock[b]
      /\ conf'[B] = IF listed[p] THEN "with" ELSE "without"
      /\ \A b \in Benches \ {B} : conf'[b] = conf[b]
      /\ \A q \in Processes \ {p} : listed'[q] = listed[q]
      /\ lock \in [Benches -> Processes \cup {None}]
  BY <1>1, <1>3, UpdateAssumption DEF WriteConf, Turn, TypeOK, LocksSound
<1>5. LocksSound'
  <2>1. ASSUME NEW b \in Benches, NEW q \in Processes
        PROVE  lock'[b] = q <=> Step(q)' \in {"render", "write"} /\ Bench(q)' = b
    <3>1. lock[b] = q <=> Step(q) \in {"render", "write"} /\ Bench(q) = b
      BY <1>1 DEF LocksSound
    <3> QED BY <1>3, <1>4, <3>1 DEF Turn
  <2> QED BY <2>1 DEF LocksSound
<1>6. ConfSound'
  <2>1. ASSUME NEW b \in Benches, NeighboursFine PROVE MayBeStale(b)' \/ Right(b)'
    <3>1. MayBeStale(b) => MayBeStale(b)'
      BY <1>3, StaleKept DEF InNginx
    <3>2. Place' = Place
      BY <1>3, PlaceKept
    <3>3. CASE b = B
      <4>1. Right(b) => listed[p] = (b = Place)
        BY <1>4, <3>3 DEF Right
      <4>2. lock'[b] = None
        BY <1>4, <3>3
      <4>3. Right(b) => Right(b)'
        BY <1>4, <3>2, <3>3, <4>1, <4>2 DEF Right
      <4> QED BY <1>1, <2>1, <3>1, <4>3 DEF ConfSound
    <3>4. CASE b # B
      <4>1. lock'[b] = lock[b] /\ lock[b] # p /\ conf'[b] = conf[b]
        BY <1>4, <3>4
      <4>2. lock[b] # None => listed'[lock[b]] = listed[lock[b]]
        BY <1>4, <4>1
      <4>3. Right(b) => Right(b)'
        BY <3>2, <4>1, <4>2 DEF Right
      <4> QED BY <1>1, <2>1, <3>1, <4>3 DEF ConfSound
    <3> QED BY <3>3, <3>4
  <2> QED BY <1>3, <2>1 DEF ConfSound, NeighboursFine
<1>7. LiveSound'
  BY <1>3 DEF LiveSound, ReloadToCome, InNginx, Turn
<1> QED BY <1>2, <1>3, <1>5, <1>6, <1>7 DEF IInv, Nginx, Turn

LEMMA ReloadNginxStep == ASSUME IInv, NEW p \in Processes, ReloadNginx(p) PROVE IInv'
<1> USE DEF siteVars, dataVars, fileVars
<1>1. TypeOK /\ OnPlan /\ LocksSound /\ ConfSound /\ OrderSound
  BY DEF IInv, Control, Nginx
<1>2. TypeOK'
  BY <1>1, TypedNginx DEF NginxStep
<1>3. /\ Turn(p, "reload") /\ Control' /\ Data' /\ AdvanceNginx(p, "reload")
      /\ UNCHANGED <<dir, order, maintenance, failed, conf, lock, listed>>
      /\ live' = [b \in Benches |-> conf[b] = "with"]
      /\ p = "site" => StepEnds("reload") /\ There \in {Source, Target} /\ order.kind \notin Stays
      /\ p # "site" => p \in Neighbours /\ Here' = Here /\ There' = There
  BY AdvanceNginxIs DEF ReloadNginx, InNginx
<1>4. Place' = Place /\ Source' = Source /\ Target' = Target
  BY <1>3, PlaceKept DEF Source, Target
<1>5. LocksSound'
  <2>1. ASSUME NEW b \in Benches, NEW q \in Processes
        PROVE  lock[b] = q <=> Step(q)' \in {"render", "write"} /\ Bench(q)' = b
    <3>1. lock[b] = q <=> Step(q) \in {"render", "write"} /\ Bench(q) = b
      BY <1>1 DEF LocksSound
    <3> QED BY <1>3, <3>1 DEF Turn
  <2> QED BY <1>3, <2>1 DEF LocksSound
<1>6. ConfSound'
  <2>1. ASSUME NEW b \in Benches, NeighboursFine PROVE MayBeStale(b)' \/ Right(b)'
    <3>1. MayBeStale(b) => MayBeStale(b)'
      BY <1>3, StaleKept DEF InNginx
    <3>2. Right(b) => Right(b)'
      BY <1>3, RightKept
    <3> QED BY <1>1, <2>1, <3>1, <3>2 DEF ConfSound
  <2> QED BY <1>3, <2>1 DEF ConfSound, NeighboursFine
<1>7. LiveSound'
  <2> SUFFICES ASSUME NeighboursFine', ~ReloadToCome'
               PROVE  LeadsThere'
    BY DEF LiveSound
  <2>1. /\ order.kind \notin Stays /\ ~failed["site"] /\ Here' \notin BeforeMove \cup InNginx
        /\ \A n \in Neighbours : plan'[n] = <<>>
    BY <1>3 DEF ReloadToCome
  <2>2. ASSUME NEW q \in Processes PROVE Step(q) \notin {"render", "write"}
    <3>1. CASE q = p
      BY <1>3, <3>1 DEF Turn
    <3>2. CASE q # p
      <4>1. Step(q) = Step(q)'
        BY <1>3, <3>2 DEF Turn
      <4>2. Step(q)' \notin {"render", "write"}
        <5>1. CASE q = "site"
          BY <2>1, <5>1 DEF Here, InNginx
        <5>2. CASE q # "site"
          <6>1. plan'[q] = <<>>
            BY <2>1, <5>2 DEF Processes
          <6> QED BY <6>1 DEF Step
        <5> QED BY <5>1, <5>2
      <4> QED BY <4>1, <4>2
    <3> QED BY <3>1, <3>2
  <2>3. ASSUME NEW b \in Benches PROVE lock[b] = None /\ ~MayBeStale(b)
    <3>1. lock[b] = None
      BY <1>1, <2>2 DEF LocksSound, TypeOK
    <3>2. CASE p # "site"
      <4>1. Here \notin BeforeMove \cup InNginx
        BY <1>3, <2>1, <3>2
      <4> QED BY <2>1, <3>1, <4>1 DEF MayBeStale, Unmoved, InNginx
    <3>3. CASE p = "site"
      <4>1. Here = "reload" /\ There \in {Source, Target} /\ StepEnds("reload")
        BY <1>3, <3>3 DEF StepEnds
      <4>2. order.kind \notin Stays => Source # Target
        BY <1>1, OrderIs
      <4> HIDE DEF Here, There
      <4>3. There = Target
        BY <2>1, <4>1 DEF StepEnds, InNginx
      <4> QED BY <2>1, <3>1, <4>1, <4>2, <4>3 DEF MayBeStale, Unmoved, InNginx, BeforeMove
    <3> QED BY <3>2, <3>3
  <2>4. NeighboursFine
    BY <1>3 DEF NeighboursFine
  <2>5. ASSUME NEW b \in Benches PROVE conf[b] = (IF b = Place THEN "with" ELSE "without")
    BY <1>1, <2>3, <2>4 DEF ConfSound, Right
  <2> QED BY <1>3, <1>4, <2>5 DEF LeadsThere
<1> QED BY <1>2, <1>3, <1>5, <1>6, <1>7 DEF IInv, Nginx, Turn

(***************************************************************************)
(* Jobs that are interrupted.                                              *)
(***************************************************************************)

\* A failure of another site's job leaves the site alone.
LEMMA FailNeighbour ==
    ASSUME IInv, TypeOK', NEW p \in Processes, p # "site", plan[p] # <<>>, Fail(p),
           UNCHANGED <<table, dump, touched>>
    PROVE  IInv'
<1>1. TypeOK /\ OnPlan /\ Control /\ Nginx
  BY DEF IInv
<1>2. /\ UNCHANGED <<siteVars, dataVars, fileVars, order, todo>>
      /\ failed' = [failed EXCEPT ![p] = TRUE]
  BY DEF Fail, dataVars, fileVars
<1>3. OnPlan' /\ \A m \in Processes \ {p} : Step(m)' = Step(m)
  BY <1>1, PlanEnds DEF Fail
<1>4. "site" \in Processes \ {p}
  BY DEF Processes
<1>5. Here' = Here /\ failed'["site"] = failed["site"]
  BY <1>1, <1>2, <1>3, <1>4 DEF Here, TypeOK
<1>6. Control' /\ Data'
  BY <1>2, <1>5, NeighbourKeeps
<1>7. Nginx'
  BY <1>1, FailNginx
<1> QED BY <1>3, <1>6, <1>7 DEF IInv

LEMMA ReloadRaisesStep == ASSUME IInv, NEW p \in Processes, ReloadRaises(p) PROVE IInv'
<1>1. TypeOK /\ OnPlan /\ OrderSound
  BY DEF IInv, Control
<1>2. TypeOK'
  BY <1>1, TypedNginx DEF NginxStep
<1>3. plan[p] # <<>> /\ Fail(p) /\ UNCHANGED <<table, dump, touched>>
  BY DEF ReloadRaises, At
<1>4. p = "site" => Here # "idle"
  BY <1>1, <1>3, StepIs
<1> QED BY <1>2, <1>3, <1>4, FailStep, FailNeighbour

\* Any of them.
LEMMA NginxStepStep == ASSUME IInv, NEW p \in Processes, NginxStep(p) PROVE IInv'
BY ReadSitesStep, OpenConfStep, WriteConfStep, ReloadNginxStep, ReloadRaisesStep DEF NginxStep

\* A dump that was not finished is never needed.
LEMMA DumpInterrupted ==
    ASSUME IInv, Here = "dump", Fail("site"), UNCHANGED <<table, touched>>
    PROVE  Data'
<1> USE DEF siteVars
<1>1. TypeOK /\ OnPlan /\ Control /\ Data
  BY DEF IInv
<1>2. /\ Here' = "idle" /\ Place' = Place /\ order' = order
      /\ Source' = Source /\ Target' = Target
      /\ maintenance' = maintenance /\ committed' = committed /\ previous' = previous
  BY <1>1, FailControl, PlaceKept DEF Fail, Source, Target
<1>3. order.kind = "migrate" /\ Place = Source /\ Source # Target /\ FitsAll(Source)
  BY BeforeTheMove
<1>4. RowsKept' /\ Served'
  BY <1>1, <1>2, <1>3 DEF Data, RowsKept, Served, FitsAll, Fits
<1>5. ~DumpsWanted' /\ ~RecordWanted'
  BY <1>2, <1>3 DEF DumpsWanted, RecordWanted
<1> QED BY <1>2, <1>4, <1>5
     DEF Data, DumpsHold, Dumping, NotYetAltered, Altering, RecordHolds, Restoring, InNginx

\* A table that was not restored to its end is restored from its dump later.
LEMMA RestoreInterrupted ==
    ASSUME IInv, Here = "restore", Fail("site"), UNCHANGED <<dump, touched>>,
           NEW t \in todo, table' = [table EXCEPT ![t] = Torn(dump[t])]
    PROVE  Data'
<1> USE DEF siteVars
<1>1. TypeOK /\ OnPlan /\ Control /\ Data /\ t \in Tables
  BY DEF IInv, TypeOK
<1>2. /\ Here' = "idle" /\ Place' = Place /\ order' = order /\ Origin' = Origin
      /\ Source' = Source /\ Target' = Target
      /\ maintenance' = maintenance /\ committed' = committed /\ previous' = previous
  BY <1>1, FailControl, PlaceKept DEF Fail, Source, Target, Origin
<1>3. /\ order.kind \in {"recoverMigrate", "restoreTables"}
      /\ order.kind = "recoverMigrate" => Source # Target
      /\ Place = Target /\ maintenance
  BY AfterTheMove
<1>4. DumpsFit(Target) /\ Origin = Target
  BY WhatIsDumped
<1>5. RowsKept'
  <2>1. dump[t].rows = committed[t] /\ dump[t] \in Content
    BY <1>1, <1>4 DEF DumpsFit, TypeOK
  <2>2. Torn(dump[t]).rows = committed[t]
    BY <2>1, TornContent
  <2>3. \A u \in Tables : table'[u] = IF u = t THEN Torn(dump[t]) ELSE table[u]
    BY <1>1 DEF TypeOK
  <2> QED BY <1>1, <1>2, <2>2, <2>3 DEF Data, RowsKept
<1>6. DumpsHold'
  BY <1>2, <1>4 DEF DumpsHold, DumpsFit, Fits
<1>7. ~RecordWanted' /\ ~MustFit'
  BY <1>2, <1>3 DEF RecordWanted, MustFit, InNginx
<1> QED BY <1>2, <1>5, <1>6, <1>7
     DEF Data, Served, Dumping, NotYetAltered, Altering, RecordHolds, Restoring, InNginx

\* frappe has recorded what it had altered when it raised.
LEMMA AlterInterrupted ==
    ASSUME IInv, Here = "alter", Fail("site"), UNCHANGED <<table, dump>>, touched' = Altered
    PROVE  Data'
<1> USE DEF siteVars
<1>1. TypeOK /\ OnPlan /\ Control /\ Data
  BY DEF IInv
<1>2. /\ Here' = "idle" /\ Place' = Place /\ order' = order /\ Origin' = Origin
      /\ Source' = Source /\ Target' = Target
      /\ maintenance' = maintenance /\ committed' = committed /\ previous' = previous
  BY <1>1, FailControl, PlaceKept DEF Fail, Source, Target, Origin
<1>3. /\ order.kind = "migrate" /\ Source # Target /\ Place = Target /\ maintenance
      /\ There = Target
  BY AfterTheMove
<1>4. PartlyAltered
  BY <1>1 DEF Data, Altering
<1>5. RowsKept' /\ ~MustFit'
  BY <1>1, <1>2, <1>3 DEF Data, RowsKept, MustFit
<1>6. DumpsHold'
  <2>1. DumpsWanted' => DumpsWanted
    BY <1>2 DEF DumpsWanted
  <2> QED BY <1>1, <1>2, <2>1 DEF Data, DumpsHold, DumpsFit, Fits
<1>7. RecordHolds'
  <2>1. ASSUME ~order.skipBackups, NEW t \in previous, table[t] # dump[t]
        PROVE  t \in Altered
    <3>1. previous # None
      BY <1>1, <1>3, <2>1 DEF Data, DumpsHold, DumpsWanted, DumpsFit
    <3>2. t \in Tables
      BY <1>1, <3>1 DEF TypeOK
    <3> QED BY <1>3, <1>4, <2>1, <3>2 DEF PartlyAltered, Altered, There
  <2> QED BY <1>2, <1>3, <2>1 DEF RecordHolds, RecordWanted, Recorded
<1> QED BY <1>2, <1>5, <1>6, <1>7
     DEF Data, Served, Dumping, NotYetAltered, Altering, Restoring, InNginx

\* A worker is killed in a step, whoever's it is, and its locks are released.
LEMMA InterruptStep ==
    ASSUME IInv, NEW p \in Processes, NEW kind \in {"killed", "raised"}, Interrupt(p, kind)
    PROVE  IInv'
<1>1. TypeOK /\ OnPlan /\ OrderSound /\ Control /\ Data /\ Nginx
  BY DEF IInv, Control
<1>2. TypeOK'
  BY <1>1, TypedInterrupt
<1>3. plan[p] # <<>> /\ Fail(p)
  BY DEF Interrupt
<1>4. CASE p # "site"
  <2>1. UNCHANGED <<table, dump, touched>>
    BY <1>4 DEF Interrupt
  <2> QED BY <1>2, <1>3, <1>4, <2>1, FailNeighbour
<1>5. CASE p = "site"
  <2>1. /\ Here # "idle"
        /\ At(p, "dump") <=> Here = "dump"
        /\ At(p, "restore") <=> Here = "restore"
        /\ At(p, "alter") <=> Here = "alter"
    BY <1>1, <1>3, <1>5, StepIs DEF At, Here, Step
  <2>2. /\ IF Here = "dump" /\ todo # {}
           THEN \E t \in todo : dump' = [dump EXCEPT ![t] = Torn(table[t])]
           ELSE UNCHANGED dump
        /\ IF Here = "restore" /\ todo # {}
           THEN \E t \in todo : table' = [table EXCEPT ![t] = Torn(dump[t])]
           ELSE UNCHANGED table
        /\ touched' = IF Here = "alter" /\ kind = "raised" THEN Altered ELSE touched
    BY <1>5, <2>1 DEF Interrupt
  <2> HIDE DEF Here
  <2>3. Data'
    <3>1. CASE Here = "dump"
      BY <1>3, <1>5, <2>2, <3>1, DumpInterrupted
    <3>2. CASE Here = "restore" /\ todo # {}
      <4>1. PICK t \in todo : table' = [table EXCEPT ![t] = Torn(dump[t])]
        BY <2>2, <3>2
      <4> QED BY <1>3, <1>5, <2>2, <3>2, <4>1, RestoreInterrupted
    <3>3. CASE Here = "alter" /\ kind = "raised"
      BY <1>3, <1>5, <2>2, <3>3, AlterInterrupted
    <3>4. CASE /\ Here # "dump" /\ ~ (Here = "restore" /\ todo # {})
               /\ ~ (Here = "alter" /\ kind = "raised")
      BY <1>1, <1>3, <1>5, <2>1, <2>2, <3>4, FailData
    <3> QED BY <3>1, <3>2, <3>3, <3>4
  <2>4. OnPlan' /\ Control'
    BY <1>1, <1>3, <1>5, <2>1, FailControl
  <2>5. Nginx'
    BY <1>1, <1>3, FailNginx
  <2> QED BY <1>2, <2>3, <2>4, <2>5 DEF IInv
<1> QED BY <1>4, <1>5

(***************************************************************************)
(* The invariant and what follows from it.                                 *)
(***************************************************************************)

\* The site starts migrated, in one bench, routed, with nothing to do.
LEMMA InitInvariant == Init => IInv
<1> SUFFICES ASSUME Init PROVE IInv
  OBVIOUS
<1>1. /\ 1 \in Benches /\ "site" \in Processes /\ NumBenches \in Nat /\ None \notin Processes
      /\ \A n \in Neighbours : n # "site" /\ n \in Processes /\ BenchOf[n] \in Benches
      /\ \A p \in Processes : p = "site" \/ p \in Neighbours
  BY UpdateAssumption DEF Benches, Processes
<1>2. /\ dir = [b \in Benches |-> IF b = 1 THEN "site" ELSE "none"]
      /\ maintenance = FALSE /\ busy = FALSE
      /\ table = [t \in Tables |->
                    IF t \in Changes[1] THEN [Absent EXCEPT !.version = 1] ELSE Absent]
      /\ committed = [t \in Tables |-> 0]
      /\ dump = [t \in Tables |-> Absent] /\ previous = None /\ touched = None
      /\ order = [kind |-> "recover", source |-> 1, target |-> 1, skipBackups |-> FALSE]
      /\ plan = [p \in Processes |-> IF p = "site" THEN <<>> ELSE SetupNginx(BenchOf[p])]
      /\ todo = {}
      /\ failed = [p \in Processes |-> FALSE]
      /\ conf = [b \in Benches |-> IF b = 1 THEN "with" ELSE "without"]
      /\ live = [b \in Benches |-> b = 1]
      /\ lock = [b \in Benches |-> None] /\ listed = [p \in Processes |-> FALSE]
      /\ updates = 0 /\ faults = 0
  BY DEF Init
<1>3. Place = 1 /\ Source = 1 /\ Target = 1 /\ order.kind = "recover"
  BY <1>1, <1>2 DEF Place, Source, Target
<1>4. Absent \in Content /\ [Absent EXCEPT !.version = 1] \in Content
      /\ [Absent EXCEPT !.version = 1] = [version |-> 1, rows |-> 0, whole |-> TRUE]
      /\ Absent.rows = 0
  <2>1. 0 \in 0..NumBenches /\ 1 \in 0..NumBenches /\ 0 \in 0..MaxWrites
    BY <1>1, UpdateAssumption DEF Benches
  <2>2. Absent \in Content /\ Absent.rows = 0
    BY <2>1 DEF Absent, Content
  <2>3. [Absent EXCEPT !.version = 1] = [version |-> 1, rows |-> 0, whole |-> TRUE]
    <3> DEFINE c == [Absent EXCEPT !.version = 1]
    <3>1. c \in Content /\ c.version = 1 /\ c.rows = 0 /\ c.whole
      BY <2>1 DEF Absent, Content
    <3> HIDE DEF c
    <3>2. \A v, r : c = [version |-> v, rows |-> r, whole |-> TRUE]
                      <=> c.version = v /\ c.rows = r /\ c.whole
      BY <3>1, ContentIs
    <3>3. c = [version |-> 1, rows |-> 0, whole |-> TRUE]
      BY <3>1, <3>2
    <3> QED BY <3>3 DEF c
  <2>4. [version |-> 1, rows |-> 0, whole |-> TRUE] \in Content
    BY <2>1 DEF Content
  <2> QED BY <2>2, <2>3, <2>4
<1>5. plan["site"] = <<>> /\ Here = "idle"
  BY <1>1, <1>2 DEF Here, Step
<1>6. TypeOK
  <2>1. order \in Order /\ failed["site"] = FALSE
    BY <1>1, <1>2 DEF Order, Updates, Recoveries
  <2>2. table \in [Tables -> Content] /\ dump \in [Tables -> Content]
        /\ committed \in [Tables -> 0..MaxWrites] /\ updates \in 0..MaxUpdates
        /\ faults \in 0..MaxFaults
    BY <1>2, <1>4, UpdateAssumption
  <2>3. dir \in [Benches -> {"none", "leftover", "site"}]
        /\ \E b \in Benches : \A c \in Benches : dir[c] = "site" <=> c = b
    BY <1>1, <1>2
  <2>4. /\ failed \in [Processes -> BOOLEAN] /\ listed \in [Processes -> BOOLEAN]
        /\ conf \in [Benches -> {"with", "without", "torn"}] /\ live \in [Benches -> BOOLEAN]
        /\ lock \in [Benches -> Processes \cup {None}]
    BY <1>2
  <2> QED BY <1>2, <2>1, <2>2, <2>3, <2>4 DEF TypeOK
<1>7. OnPlan
  <2>1. ASSUME NEW n \in Neighbours
        PROVE  plan[n] = SetupNginx(BenchOf[n]) /\ SetupNginx(BenchOf[n]) \in Seq(Steps)
               /\ plan[n] = From(SetupNginx(BenchOf[n]), 1)
               /\ Step(n) = "read"
    <3>1. plan[n] = SetupNginx(BenchOf[n])
      BY <1>1, <1>2
    <3>2. LET s == SetupNginx(BenchOf[n])
          IN  s \in Seq(Steps) /\ Len(s) = 4 /\ s[1] = <<"read", BenchOf[n]>>
      BY <1>1, SetUpSteps
    <3>3. SetupNginx(BenchOf[n]) # <<>>
      BY <3>2
    <3>4. From(SetupNginx(BenchOf[n]), 1) = SetupNginx(BenchOf[n])
      BY <3>2, SubSeqFull DEF From
    <3>5. Step(n) = "read"
      BY <3>1, <3>2, <3>3 DEF Step
    <3> QED BY <3>1, <3>2, <3>4, <3>5
  <2>2. plan \in [Processes -> Seq(Steps)]
    <3>1. <<>> \in Seq(Steps)
      BY EmptySeq
    <3> QED BY <1>1, <1>2, <2>1, <3>1
  <2>3. 1 \in 1..4
    OBVIOUS
  <2> QED BY <1>5, <2>1, <2>2, <2>3 DEF OnPlan
<1>8. Control
  <2>1. OrderSound
    BY <1>2, <1>3 DEF OrderSound, Updates, MoveBack
  <2>2. PlaceSound
    BY <1>3, <1>5 DEF PlaceSound, BeforeMove, AfterMove, InNginx
  <2>3. MaintenanceSound
    BY <1>1, <1>2, <1>5 DEF MaintenanceSound
  <2>4. Running /\ Quiet
    BY <1>2, <1>5 DEF Running, Quiet
  <2> QED BY <2>1, <2>2, <2>3, <2>4 DEF Control
<1>9. Data
  <2>1. RowsKept
    BY <1>2, <1>4 DEF RowsKept
  <2>2. ~DumpsWanted /\ ~RecordWanted
    BY <1>3 DEF DumpsWanted, RecordWanted
  <2>3. FitsAll(1)
    <3>1. ASSUME NEW t \in Tables, VersionAt(1, t) # 0 PROVE t \in Changes[1] /\ VersionAt(1, t) = 1
      <4> DEFINE Seen == {0} \cup {c \in 1..1 : t \in Changes[c]}
      <4>1. Seen \subseteq Nat /\ Seen # {} /\ \A n \in Seen : n <= 1
        OBVIOUS
      <4>2. VersionAt(1, t) = Max(Seen)
        BY DEF VersionAt
      <4>3. \A n \in Seen : n = 0 \/ (n = 1 /\ t \in Changes[1])
        OBVIOUS
      <4> HIDE DEF Seen
      <4>4. Max(Seen) \in Seen
        BY <4>1, Greatest
      <4> QED BY <3>1, <4>2, <4>3, <4>4
    <3> QED BY <1>2, <1>4, <3>1 DEF FitsAll, Fits
  <2>4. Served
    BY <1>3, <2>3 DEF Served
  <2> QED BY <1>3, <1>5, <2>1, <2>2, <2>4
       DEF Data, DumpsHold, Dumping, NotYetAltered, Altering, RecordHolds, Restoring
<1>10. Nginx
  <2>1. LocksSound
    <3>1. ASSUME NEW p \in Processes PROVE Step(p) \notin {"render", "write"}
      <4>1. CASE p = "site"
        BY <1>5, <4>1 DEF Here
      <4>2. CASE p # "site"
        <5>1. p \in Neighbours /\ plan[p] = SetupNginx(BenchOf[p]) /\ BenchOf[p] \in Benches
          BY <1>1, <1>2, <4>2
        <5>2. SetupNginx(BenchOf[p])[1] = <<"read", BenchOf[p]>>
              /\ SetupNginx(BenchOf[p]) # <<>>
          BY DEF SetupNginx
        <5> QED BY <5>1, <5>2 DEF Step
      <4> QED BY <4>1, <4>2
    <3> QED BY <1>1, <1>2, <3>1 DEF LocksSound
  <2>2. ConfSound
    BY <1>2, <1>3 DEF ConfSound, Right
  <2>3. LiveSound
    BY <1>3 DEF LiveSound, ReloadToCome, Stays
  <2> QED BY <2>1, <2>2, <2>3 DEF Nginx
<1> QED BY <1>6, <1>7, <1>8, <1>9, <1>10 DEF IInv

\* Every step keeps the invariant.
LEMMA StepInvariant == IInv /\ [Next]_vars => IInv'
<1> SUFFICES ASSUME IInv, [Next]_vars PROVE IInv'
  OBVIOUS
<1>1. CASE UNCHANGED vars
  BY <1>1
     DEF vars, siteVars, dataVars, fileVars, jobVars, nginxVars, IInv, TypeOK, OnPlan,
         Control, OrderSound, PlaceSound, MaintenanceSound, Running, Quiet, MustBeQuiet,
         Data, RowsKept, DumpsHold, DumpsWanted, DumpsFit, Origin, Dumping, NothingDumped,
         BeingDumped, NotYetAltered, AsDumped, FitsAll, Fits, Altering, PartlyAltered,
         RecordHolds, RecordWanted, Recorded, Restoring, RestoredBut, Served, MustFit,
         Nginx, LocksSound, ConfSound, MayBeStale, Unmoved, Right, LiveSound, ReloadToCome,
         LeadsThere, NeighboursFine, Here, There, Step, Bench, Source, Target, Place
<1>2. CASE Next
  BY <1>2, StartBackgroundJobStep, EndBackgroundJobStep, CommitRowStep, OrderUpdateStep,
     OrderRecoveryStep, RepeatOrderStep, SiteStepStep, NginxStepStep, InterruptStep DEF Next
<1> QED BY <1>1, <1>2

\* Every reachable state satisfies the invariant: the jobs of the site and of the NGINX
\* configurations are where their plans say, and the database, the dumps, the record of
\* touched tables and the configurations are what those plans have made of them.
LEMMA Invariant == Spec => []IInv
BY InitInvariant, StepInvariant, PTL DEF Spec

\* A site that is out of maintenance mode has every table as the bench it is in expects it,
\* with every row committed, unless its last order gave the data up (a recovery without
\* backups, or one of a failed restore). It is about the order of move, migration, restore
\* and disable_maintenance_mode in update_site_migrate and its recoveries, and about what a
\* kill or a failure between two of these steps leaves behind.
THEOREM ServesIntact == Spec => []ServedIntact
<1>1. IInv => ServedIntact
  <2> SUFFICES ASSUME IInv, ~maintenance, ~Forfeited PROVE FitsAll(Place)
    BY DEF ServedIntact, FitsAll
  <2>1. TypeOK /\ OrderSound /\ Served
    BY DEF IInv, Control, Data
  <2>2. order.kind \in {"migrate", "pull", "recoverMigrate", "recoverPull", "recover",
                        "restoreTables"}
    BY <2>1, OrderIs
  <2>3. MustFit
    BY <2>2 DEF MustFit, Forfeited, Recoveries
  <2> QED BY <2>1, <2>3 DEF Served
<1> QED BY <1>1, Invariant, PTL

\* While a migration may still have to be undone, the dumps hold every table as it was
\* before it, whole and with every row: from tablewise_backup in update_site_migrate to the
\* end of its recovery, whatever was killed, failed or repeated in between.
THEOREM KeepsUpdateSound == Spec => []UpdateIsSound
<1>1. IInv => UpdateIsSound
  <2> SUFFICES ASSUME IInv, order.kind = "migrate", ~order.skipBackups, Place = order.target,
                      maintenance
               PROVE  \A t \in Tables : Fits(dump[t], order.source, t)
    BY DEF UpdateIsSound, Restorable, IInv
  <2>1. DumpsWanted /\ Origin = order.source
    BY DEF DumpsWanted, Origin, Source, Target
  <2> QED BY <2>1 DEF IInv, Data, DumpsHold, DumpsFit
<1> QED BY <1>1, Invariant, PTL

\* After a job that moved the site, or should have, when nothing runs and nothing has failed,
\* NGINX leads to the bench where the site is and to no other: setup_nginx of both benches and
\* the reload after it are enough, whatever jobs of other sites generated the configuration
\* of the same benches in between.
THEOREM RoutesWhereItIs == Spec => []RoutedWhereItIs
<1>1. IInv => RoutedWhereItIs
  <2> SUFFICES ASSUME IInv, \A p \in Processes : plan[p] = <<>> /\ ~failed[p],
                      order.kind \notin Stays
               PROVE  LeadsThere
    BY DEF RoutedWhereItIs, LeadsThere, Stays
  <2>1. NeighboursFine /\ \A n \in Neighbours : plan[n] = <<>>
    BY DEF NeighboursFine, Processes
  <2>2. Here = "idle" /\ ~failed["site"]
    BY DEF Here, Step, Processes
  <2>3. ~ReloadToCome
    BY <2>1, <2>2 DEF ReloadToCome, BeforeMove, InNginx
  <2> QED BY <2>1, <2>3 DEF IInv, Nginx, LiveSound
<1> QED BY <1>1, Invariant, PTL
=============================================================================
