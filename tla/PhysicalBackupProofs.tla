------------------------- MODULE PhysicalBackupProofs -------------------------
(***************************************************************************)
(* Proofs about the physical backup for any backups of any databases, any  *)
(* number of writes, retries and faults.                                   *)
(***************************************************************************)
EXTENDS PhysicalBackup, SequenceTheorems, TLAPS

(***************************************************************************)
(* Plans.                                                                  *)
(***************************************************************************)

\* The steps in their order; others are killed at two of them, and the
\* metadata is removed first and last.
Rank == [fetch |-> 1, flush |-> 2, sync |-> 3, validate |-> 4, export |-> 5,
         collect |-> 6, store |-> 7, snapshot |-> 8, unlock |-> 9]
Ranked == {"fetch", "flush", "sync", "validate", "export", "collect", "store",
           "snapshot", "unlock"}
Forall == Ranked \ {"snapshot"}
Items(dbs) ==
    {<<"clear", None>>, <<"snapshot", None>>} \cup ((Forall \cup {"kill"}) \X ToSet(dbs))

\* The beginning of a plan with all steps of ranks up to r.
Upto(dbs, s, r) ==
    /\ s \in Seq(Items(dbs)) /\ Len(s) >= 1
    /\ \A i \in 1..Len(s) : s[i][1] = "clear" <=> i = 1
    /\ \A i \in 1..Len(s) : s[i][1] \in Ranked => Rank[s[i][1]] <= r
    /\ \A i, k \in 1..Len(s) :
         i < k /\ s[i][1] \in Ranked /\ s[k][1] \in Ranked => Rank[s[i][1]] <= Rank[s[k][1]]
    /\ \A x \in Items(dbs) :
         x[1] \in Ranked /\ Rank[x[1]] <= r => \E i \in 1..Len(s) : s[i] = x
    /\ \A i, k \in 1..Len(s) : s[i][1] = "snapshot" /\ s[k][1] = "snapshot" => i = k

\* A stretch of it, with the step of rank r.
Stretch(dbs, s, r) ==
    /\ s \in Seq(Items(dbs))
    /\ \A i \in 1..Len(s) : /\ s[i][1] # "clear"
                            /\ s[i][1] \in Ranked => Rank[s[i][1]] = r
    /\ \A x \in Items(dbs) : x[1] \in Ranked /\ Rank[x[1]] = r => \E i \in 1..Len(s) : s[i] = x
    /\ r = Rank["snapshot"] => Len(s) = 1

\* What is where in two sequences one after the other.
LEMMA Joined ==
    ASSUME NEW S, NEW s \in Seq(S), NEW t \in Seq(S)
    PROVE  /\ s \o t \in Seq(S) /\ Len(s) \in Nat /\ Len(t) \in Nat
           /\ Len(s \o t) = Len(s) + Len(t)
           /\ \A i \in 1..Len(s \o t) :
                 \/ i \in 1..Len(s) /\ (s \o t)[i] = s[i]
                 \/ i > Len(s) /\ i - Len(s) \in 1..Len(t) /\ (s \o t)[i] = t[i - Len(s)]
           /\ \A i \in 1..Len(s) : i \in 1..Len(s \o t) /\ (s \o t)[i] = s[i]
           /\ \A j \in 1..Len(t) : j + Len(s) \in 1..Len(s \o t) /\ (s \o t)[j + Len(s)] = t[j]
<1> DEFINE st == s \o t
<1>1. Len(s) \in Nat /\ Len(t) \in Nat
  BY LenProperties
<1>2. /\ st \in Seq(S) /\ Len(st) = Len(s) + Len(t)
      /\ \A i \in 1..Len(s) + Len(t) : st[i] = IF i <= Len(s) THEN s[i] ELSE t[i - Len(s)]
  BY ConcatProperties
<1> HIDE DEF st
<1>3. ASSUME NEW i \in 1..Len(st)
      PROVE  \/ i \in 1..Len(s) /\ st[i] = s[i]
             \/ i > Len(s) /\ i - Len(s) \in 1..Len(t) /\ st[i] = t[i - Len(s)]
  <2>1. CASE i <= Len(s)
    BY <1>1, <1>2, <2>1
  <2>2. CASE ~ (i <= Len(s))
    <3>1. i > Len(s) /\ i - Len(s) \in 1..Len(t)
      BY <1>1, <1>2, <2>2
    <3> QED BY <1>1, <1>2, <2>2, <3>1
  <2> QED BY <2>1, <2>2
<1>4. ASSUME NEW i \in 1..Len(s) PROVE i \in 1..Len(st) /\ st[i] = s[i]
  BY <1>1, <1>2
<1>5. ASSUME NEW j \in 1..Len(t) PROVE j + Len(s) \in 1..Len(st) /\ st[j + Len(s)] = t[j]
  <2>1. j + Len(s) \in 1..Len(s) + Len(t) /\ ~ (j + Len(s) <= Len(s)) /\ (j + Len(s)) - Len(s) = j
    BY <1>1
  <2>2. st[j + Len(s)] = t[(j + Len(s)) - Len(s)]
    BY <1>2, <2>1
  <2>3. st[j + Len(s)] = t[j]
    BY <2>1, <2>2
  <2> QED BY <1>2, <2>1, <2>3
<1> QED BY <1>1, <1>2, <1>3, <1>4, <1>5 DEF st

LEMMA Ranks == Ranked = DOMAIN Rank /\ \A x \in Ranked : Rank[x] \in 1..9
BY DEF Ranked, Rank

LEMMA Extend ==
    ASSUME NEW dbs, NEW s, NEW t, NEW r \in 0..8, Upto(dbs, s, r), Stretch(dbs, t, r + 1)
    PROVE  Upto(dbs, s \o t, r + 1)
<1> DEFINE st == s \o t
<1>1. s \in Seq(Items(dbs)) /\ t \in Seq(Items(dbs)) /\ Len(s) >= 1
  BY DEF Upto, Stretch
<1>2. /\ st \in Seq(Items(dbs)) /\ Len(s) \in Nat /\ Len(t) \in Nat
      /\ Len(st) = Len(s) + Len(t)
      /\ \A i \in 1..Len(st) :
            \/ i \in 1..Len(s) /\ st[i] = s[i]
            \/ i > Len(s) /\ i - Len(s) \in 1..Len(t) /\ st[i] = t[i - Len(s)]
      /\ \A i \in 1..Len(s) : i \in 1..Len(st) /\ st[i] = s[i]
      /\ \A j \in 1..Len(t) : j + Len(s) \in 1..Len(st) /\ st[j + Len(s)] = t[j]
  BY <1>1, Joined
<1> HIDE DEF st
<1>3. \A i \in 1..Len(st) : st[i][1] = "clear" <=> i = 1
  <2> SUFFICES ASSUME NEW i \in 1..Len(st) PROVE st[i][1] = "clear" <=> i = 1
    OBVIOUS
  <2>1. CASE i \in 1..Len(s) /\ st[i] = s[i]
    BY <2>1 DEF Upto
  <2>2. CASE i > Len(s) /\ i - Len(s) \in 1..Len(t) /\ st[i] = t[i - Len(s)]
    <3>1. st[i][1] # "clear"
      BY <2>2 DEF Stretch
    <3> QED BY <1>1, <1>2, <2>2, <3>1
  <2> QED BY <1>2, <2>1, <2>2
<1>4. \A i \in 1..Len(st) :
         st[i][1] \in Ranked => IF i \in 1..Len(s) THEN st[i] = s[i] /\ Rank[st[i][1]] <= r
                                ELSE Rank[st[i][1]] = r + 1
  <2> SUFFICES ASSUME NEW i \in 1..Len(st), st[i][1] \in Ranked
               PROVE  IF i \in 1..Len(s) THEN st[i] = s[i] /\ Rank[st[i][1]] <= r
                      ELSE Rank[st[i][1]] = r + 1
    OBVIOUS
  <2>1. CASE i \in 1..Len(s)
    BY <1>2, <2>1 DEF Upto
  <2>2. CASE i \notin 1..Len(s)
    <3>1. i - Len(s) \in 1..Len(t) /\ st[i] = t[i - Len(s)]
      BY <1>2, <2>2
    <3> QED BY <2>2, <3>1 DEF Stretch
  <2> QED BY <2>1, <2>2
<1>5. \A i \in 1..Len(st) : st[i][1] \in Ranked => Rank[st[i][1]] <= r + 1
  BY <1>4, Ranks
<1>6. \A i, k \in 1..Len(st) :
         i < k /\ st[i][1] \in Ranked /\ st[k][1] \in Ranked => Rank[st[i][1]] <= Rank[st[k][1]]
  <2> SUFFICES ASSUME NEW i \in 1..Len(st), NEW k \in 1..Len(st), i < k,
                      st[i][1] \in Ranked, st[k][1] \in Ranked
               PROVE  Rank[st[i][1]] <= Rank[st[k][1]]
    OBVIOUS
  <2>1. CASE k \in 1..Len(s)
    <3>1. i \in 1..Len(s)
      BY <1>2, <2>1
    <3>2. st[i] = s[i] /\ st[k] = s[k]
      BY <1>4, <2>1, <3>1
    <3> QED BY <2>1, <3>1, <3>2 DEF Upto
  <2>2. CASE k \notin 1..Len(s)
    BY <1>4, <1>5, <2>2
  <2> QED BY <2>1, <2>2
<1>7. \A x \in Items(dbs) :
         x[1] \in Ranked /\ Rank[x[1]] <= r + 1 => \E i \in 1..Len(st) : st[i] = x
  <2> SUFFICES ASSUME NEW x \in Items(dbs), x[1] \in Ranked, Rank[x[1]] <= r + 1
               PROVE  \E i \in 1..Len(st) : st[i] = x
    OBVIOUS
  <2>1. CASE Rank[x[1]] <= r
    <3>1. PICK i \in 1..Len(s) : s[i] = x
      BY <2>1 DEF Upto
    <3> QED BY <1>2, <3>1
  <2>2. CASE Rank[x[1]] = r + 1
    <3>1. PICK i \in 1..Len(t) : t[i] = x
      BY <2>2 DEF Stretch
    <3>2. i + Len(s) \in 1..Len(st) /\ st[i + Len(s)] = x
      BY <1>2, <3>1
    <3> QED BY <3>2
  <2>3. Rank[x[1]] \in Nat
    BY Ranks
  <2> QED BY <2>1, <2>2, <2>3
<1>8. \A i, k \in 1..Len(st) : st[i][1] = "snapshot" /\ st[k][1] = "snapshot" => i = k
  <2> SUFFICES ASSUME NEW i \in 1..Len(st), NEW k \in 1..Len(st),
                      st[i][1] = "snapshot", st[k][1] = "snapshot"
               PROVE  i = k
    OBVIOUS
  <2>1. "snapshot" \in Ranked /\ Rank["snapshot"] = 8
    BY DEF Ranked, Rank
  <2>2. CASE r + 1 = 8
    <3>1. i \notin 1..Len(s) /\ k \notin 1..Len(s) /\ Len(t) = 1
      BY <1>4, <2>1, <2>2 DEF Stretch
    <3> QED BY <1>2, <3>1
  <2>3. CASE r + 1 # 8
    <3>1. i \in 1..Len(s) /\ k \in 1..Len(s)
      BY <1>4, <2>1, <2>3
    <3> QED BY <1>2, <3>1 DEF Upto
  <2> QED BY <2>2, <2>3
<1> QED BY <1>1, <1>2, <1>3, <1>5, <1>6, <1>7, <1>8 DEF Upto, st

\* One step for each database is a stretch, and so are the two of a database
\* one after the other when the first kills the other connections.
LEMMA Each ==
    ASSUME NEW dbs, dbs \in Seq(Databases), NEW x \in Forall
    PROVE  Stretch(dbs, ForEach(dbs, <<x>>), Rank[x])
<1> DEFINE s == ForEach(dbs, <<x>>)
<1>1. Len(dbs) \in Nat /\ DOMAIN dbs = 1..Len(dbs) /\ Len(<<x>>) = 1
  BY LenProperties
<1>2. s = [n \in 1..Len(dbs) |-> <<x, dbs[n]>>]
  <2>1. \A n \in 1..Len(dbs) : 1 + ((n - 1) % 1) = 1 /\ 1 + ((n - 1) \div 1) = n
    BY <1>1
  <2>2. \A n \in Nat : n * 1 = n
    OBVIOUS
  <2>3. Len(dbs) * Len(<<x>>) = Len(dbs)
    BY <1>1, <2>2
  <2>4. s = [n \in 1..Len(dbs) |-> <<<<x>>[1 + ((n - 1) % 1)], dbs[1 + ((n - 1) \div 1)]>>]
    BY <1>1, <2>3 DEF ForEach
  <2> HIDE DEF s
  <2> QED BY <1>1, <2>1, <2>4
<1>3. \A n \in 1..Len(dbs) : dbs[n] \in ToSet(dbs)
  BY <1>1 DEF ToSet
<1>4. s \in Seq(Items(dbs)) /\ Len(s) = Len(dbs)
  <2>1. \A n \in 1..Len(dbs) : <<x, dbs[n]>> \in Items(dbs)
    BY <1>3 DEF Items
  <2> QED BY <1>1, <1>2, <2>1
<1>5. \A d \in ToSet(dbs) : \E i \in 1..Len(s) : s[i] = <<x, d>>
  BY <1>1, <1>2, <1>4 DEF ToSet
<1>6. \A y \in Items(dbs) : y[1] \in Ranked /\ Rank[y[1]] = Rank[x]
                              => \E d \in ToSet(dbs) : y = <<x, d>>
  BY DEF Items, Forall, Ranked, Rank
<1>7. \A i \in 1..Len(s) : s[i][1] = x /\ x # "clear"
  BY <1>2, <1>4 DEF Forall, Ranked
<1>8. Rank[x] # Rank["snapshot"]
  BY DEF Forall, Ranked, Rank
<1> HIDE DEF s
<1> QED BY <1>4, <1>5, <1>6, <1>7, <1>8 DEF Stretch, s

LEMMA EachAfterKill ==
    ASSUME NEW dbs, dbs \in Seq(Databases), NEW x \in Forall
    PROVE  Stretch(dbs, ForEach(dbs, <<"kill", x>>), Rank[x])
<1> DEFINE s  == ForEach(dbs, <<"kill", x>>)
           kx == <<"kill", x>>
<1>1. Len(dbs) \in Nat /\ DOMAIN dbs = 1..Len(dbs) /\ Len(kx) = 2 /\ kx[1] = "kill" /\ kx[2] = x
  BY LenProperties
<1>2. s = [n \in 1..Len(dbs) * 2 |-> <<kx[1 + ((n - 1) % 2)], dbs[1 + ((n - 1) \div 2)]>>]
  BY <1>1 DEF ForEach
<1>3. \A n \in 1..Len(dbs) * 2 : /\ 1 + ((n - 1) % 2) \in {1, 2}
                                 /\ 1 + ((n - 1) \div 2) \in 1..Len(dbs)
  BY <1>1
<1>4. \A n \in 1..Len(dbs) * 2 : \E y \in {"kill", x} : \E d \in ToSet(dbs) : s[n] = <<y, d>>
  <2> SUFFICES ASSUME NEW n \in 1..Len(dbs) * 2
               PROVE  \E y \in {"kill", x} : \E d \in ToSet(dbs) : s[n] = <<y, d>>
    OBVIOUS
  <2>1. dbs[1 + ((n - 1) \div 2)] \in ToSet(dbs)
    BY <1>1, <1>3 DEF ToSet
  <2>2. kx[1 + ((n - 1) % 2)] \in {"kill", x}
    BY <1>1, <1>3
  <2> HIDE DEF kx
  <2> QED BY <1>2, <2>1, <2>2
<1>5. s \in Seq(Items(dbs)) /\ Len(s) = Len(dbs) * 2
  <2>1. ASSUME NEW n \in 1..Len(dbs) * 2 PROVE s[n] \in Items(dbs)
    <3> HIDE DEF s
    <3>1. PICK y \in {"kill", x}, d \in ToSet(dbs) : s[n] = <<y, d>>
      BY <1>4
    <3> QED BY <3>1 DEF Items
  <2>2. Len(dbs) * 2 \in Nat
    BY <1>1
  <2>3. s \in [1..Len(dbs) * 2 -> Items(dbs)]
    BY <1>2, <2>1
  <2> HIDE DEF s
  <2> QED BY <2>2, <2>3
<1>6. \A d \in ToSet(dbs) : \E i \in 1..Len(s) : s[i] = <<x, d>>
  <2> SUFFICES ASSUME NEW k \in 1..Len(dbs) PROVE \E i \in 1..Len(s) : s[i] = <<x, dbs[k]>>
    BY <1>1 DEF ToSet
  <2>1. 2 * k \in 1..Len(dbs) * 2 /\ (2 * k - 1) % 2 = 1 /\ (2 * k - 1) \div 2 = k - 1
    BY <1>1
  <2>2. s[2 * k] = <<kx[1 + ((2 * k - 1) % 2)], dbs[1 + ((2 * k - 1) \div 2)]>>
    BY <1>2, <2>1
  <2>3. 1 + 1 = 2 /\ 1 + (k - 1) = k
    OBVIOUS
  <2>4. s[2 * k] = <<x, dbs[k]>>
    BY <1>1, <2>1, <2>2, <2>3
  <2> QED BY <1>5, <2>1, <2>4
<1>7. \A y \in Items(dbs) : y[1] \in Ranked /\ Rank[y[1]] = Rank[x]
                              => \E d \in ToSet(dbs) : y = <<x, d>>
  BY DEF Items, Forall, Ranked, Rank
<1>8. \A i \in 1..Len(s) : s[i][1] # "clear" /\ (s[i][1] \in Ranked => s[i][1] = x)
  <2> SUFFICES ASSUME NEW i \in 1..Len(s)
               PROVE  s[i][1] # "clear" /\ (s[i][1] \in Ranked => s[i][1] = x)
    OBVIOUS
  <2> HIDE DEF s
  <2>1. PICK y \in {"kill", x}, d \in ToSet(dbs) : s[i] = <<y, d>>
    BY <1>4, <1>5
  <2> QED BY <2>1 DEF Forall, Ranked
<1>9. Rank[x] # Rank["snapshot"]
  BY DEF Forall, Ranked, Rank
<1> HIDE DEF s
<1> QED BY <1>5, <1>6, <1>7, <1>8, <1>9 DEF Stretch, s

\* What the steps of a job have in common, whatever databases it is for.
LEMMA PlanOrder ==
    ASSUME NEW j \in Jobs
    PROVE  /\ Plan[j] \in Seq(Items(DatabasesOf[j])) /\ Len(Plan[j]) \in Nat /\ Len(Plan[j]) >= 2
           /\ \A i \in 1..Len(Plan[j]) : Plan[j][i][1] = "clear" <=> i \in {1, Len(Plan[j])}
           /\ \A i, k \in 1..Len(Plan[j]) :
                i < k /\ Plan[j][i][1] \in Ranked /\ Plan[j][k][1] \in Ranked
                => Rank[Plan[j][i][1]] <= Rank[Plan[j][k][1]]
           /\ \A x \in Items(DatabasesOf[j]) :
                x[1] \in Ranked => \E i \in 1..Len(Plan[j]) : Plan[j][i] = x
           /\ \A i, k \in 1..Len(Plan[j]) :
                Plan[j][i][1] = "snapshot" /\ Plan[j][k][1] = "snapshot" => i = k
<1> DEFINE dbs   == DatabasesOf[j]
           clear == <<<<"clear", None>>>>
           taken == <<<<"snapshot", None>>>>
           S     == Items(dbs)
<1>1. dbs \in Seq(Databases) /\ Plan[j] = PrepareSteps(dbs) \o SnapshotSteps(dbs)
  BY BackupAssumption DEF Plan
<1>2. Upto(dbs, clear, 0)
  <2>1. clear \in Seq(Items(dbs)) /\ Len(clear) = 1 /\ clear[1] = <<"clear", None>>
    BY DEF Items
  <2>2. \A x \in Items(dbs) : x[1] \in Ranked => ~ (Rank[x[1]] <= 0)
    BY Ranks
  <2>3. "clear" \notin Ranked
    BY DEF Ranked
  <2> HIDE DEF clear
  <2> QED BY <2>1, <2>2, <2>3 DEF Upto
<1>3. Stretch(dbs, taken, 8)
  <2>1. taken \in Seq(Items(dbs)) /\ Len(taken) = 1 /\ taken[1] = <<"snapshot", None>>
    BY DEF Items
  <2>2. \A x \in Items(dbs) : x[1] \in Ranked /\ Rank[x[1]] = 8 => x = <<"snapshot", None>>
    BY DEF Items, Forall, Ranked, Rank
  <2>3. Rank["snapshot"] = 8
    BY DEF Rank
  <2> HIDE DEF taken
  <2> QED BY <2>1, <2>2, <2>3 DEF Stretch
<1> HIDE DEF dbs
<1>4. /\ Stretch(dbs, ForEach(dbs, <<"fetch">>), 1)
      /\ Stretch(dbs, ForEach(dbs, <<"kill", "flush">>), 2)
      /\ Stretch(dbs, ForEach(dbs, <<"sync">>), 3)
      /\ Stretch(dbs, ForEach(dbs, <<"validate">>), 4)
      /\ Stretch(dbs, ForEach(dbs, <<"kill", "export">>), 5)
      /\ Stretch(dbs, ForEach(dbs, <<"collect">>), 6)
      /\ Stretch(dbs, ForEach(dbs, <<"store">>), 7)
      /\ Stretch(dbs, ForEach(dbs, <<"unlock">>), 9)
  <2>1. \A x \in Forall : /\ Stretch(dbs, ForEach(dbs, <<x>>), Rank[x])
                          /\ Stretch(dbs, ForEach(dbs, <<"kill", x>>), Rank[x])
    BY <1>1, Each, EachAfterKill
  <2>2. {"fetch", "flush", "sync", "validate", "export", "collect", "store", "unlock"} = Forall
    BY DEF Forall, Ranked
  <2>3. /\ Rank["fetch"] = 1 /\ Rank["flush"] = 2 /\ Rank["sync"] = 3 /\ Rank["validate"] = 4
        /\ Rank["export"] = 5 /\ Rank["collect"] = 6 /\ Rank["store"] = 7 /\ Rank["unlock"] = 9
    BY DEF Rank
  <2>4. /\ "fetch" \in Forall /\ "flush" \in Forall /\ "sync" \in Forall
        /\ "validate" \in Forall /\ "export" \in Forall /\ "collect" \in Forall
        /\ "store" \in Forall /\ "unlock" \in Forall
    BY <2>2
  <2> QED BY <2>1, <2>3, <2>4
<1> DEFINE p1 == clear \o ForEach(dbs, <<"fetch">>)
           p2 == p1 \o ForEach(dbs, <<"kill", "flush">>)
           p3 == p2 \o ForEach(dbs, <<"sync">>)
           p4 == p3 \o ForEach(dbs, <<"validate">>)
           p5 == p4 \o ForEach(dbs, <<"kill", "export">>)
           p6 == p5 \o ForEach(dbs, <<"collect">>)
           p7 == p6 \o ForEach(dbs, <<"store">>)
           p8 == p7 \o taken
           p9 == p8 \o ForEach(dbs, <<"unlock">>)
<1> HIDE DEF clear, taken
<1>5. Upto(dbs, p7, 7)
  <2>1. Upto(dbs, p1, 1)
    <3>1. 0 \in 0..8 /\ 0 + 1 = 1
      OBVIOUS
    <3> QED BY <1>2, <1>4, <3>1, Extend
  <2>2. Upto(dbs, p2, 2)
    <3>1. 1 \in 0..8 /\ 1 + 1 = 2
      OBVIOUS
    <3> HIDE DEF p1
    <3> QED BY <1>4, <2>1, <3>1, Extend
  <2>3. Upto(dbs, p3, 3)
    <3>1. 2 \in 0..8 /\ 2 + 1 = 3
      OBVIOUS
    <3> HIDE DEF p2
    <3> QED BY <1>4, <2>2, <3>1, Extend
  <2>4. Upto(dbs, p4, 4)
    <3>1. 3 \in 0..8 /\ 3 + 1 = 4
      OBVIOUS
    <3> HIDE DEF p3
    <3> QED BY <1>4, <2>3, <3>1, Extend
  <2>5. Upto(dbs, p5, 5)
    <3>1. 4 \in 0..8 /\ 4 + 1 = 5
      OBVIOUS
    <3> HIDE DEF p4
    <3> QED BY <1>4, <2>4, <3>1, Extend
  <2>6. Upto(dbs, p6, 6)
    <3>1. 5 \in 0..8 /\ 5 + 1 = 6
      OBVIOUS
    <3> HIDE DEF p5
    <3> QED BY <1>4, <2>5, <3>1, Extend
  <2>7. Upto(dbs, p7, 7)
    <3>1. 6 \in 0..8 /\ 6 + 1 = 7
      OBVIOUS
    <3> HIDE DEF p6
    <3> QED BY <1>4, <2>6, <3>1, Extend
  <2> QED BY <2>7
<1>6. PrepareSteps(dbs) = p7
  BY DEF PrepareSteps, clear
<1> HIDE DEF p7
<1>7. Upto(dbs, p8, 8)
  <2>1. 7 \in 0..8 /\ 7 + 1 = 8
    OBVIOUS
  <2> QED BY <1>3, <1>5, <2>1, Extend
<1>8. Upto(dbs, p9, 9)
  <2>1. 8 \in 0..8 /\ 8 + 1 = 9
    OBVIOUS
  <2> HIDE DEF p8
  <2> QED BY <1>4, <1>7, <2>1, Extend
<1>9. Plan[j] = p9 \o clear
  <2> DEFINE u == ForEach(dbs, <<"unlock">>)
  <2>1. p7 \in Seq(S) /\ taken \in Seq(S) /\ u \in Seq(S) /\ clear \in Seq(S)
    BY <1>2, <1>3, <1>4, <1>5 DEF Upto, Stretch
  <2>2. SnapshotSteps(dbs) = (taken \o u) \o clear
    BY DEF SnapshotSteps, taken, clear
  <2> HIDE DEF u, S
  <2>3. taken \o u \in Seq(S)
    BY <2>1, ConcatProperties
  <2>4. p7 \o ((taken \o u) \o clear) = (p7 \o (taken \o u)) \o clear
    BY <2>1, <2>3, ConcatAssociative
  <2>5. p7 \o (taken \o u) = (p7 \o taken) \o u
    BY <2>1, ConcatAssociative
  <2> QED BY <1>1, <1>6, <2>2, <2>4, <2>5 DEF u
<1> HIDE DEF p9
<1> DEFINE P == p9 \o clear
<1>10. clear \in Seq(S) /\ Len(clear) = 1 /\ clear[1] = <<"clear", None>> /\ p9 \in Seq(S)
  BY <1>2, <1>8 DEF Upto, clear
<1>11. /\ P \in Seq(S) /\ Len(p9) \in Nat /\ Len(p9) >= 1 /\ Len(P) = Len(p9) + 1
       /\ \A i \in 1..Len(P) :
            \/ i \in 1..Len(p9) /\ P[i] = p9[i]
            \/ i = Len(P) /\ P[i] = <<"clear", None>>
       /\ \A i \in 1..Len(p9) : i \in 1..Len(P) /\ P[i] = p9[i]
  <2>1. /\ P \in Seq(S) /\ Len(p9) \in Nat /\ Len(P) = Len(p9) + Len(clear)
        /\ \A i \in 1..Len(P) :
             \/ i \in 1..Len(p9) /\ P[i] = p9[i]
             \/ i > Len(p9) /\ i - Len(p9) \in 1..Len(clear) /\ P[i] = clear[i - Len(p9)]
        /\ \A i \in 1..Len(p9) : i \in 1..Len(P) /\ P[i] = p9[i]
    <3> HIDE DEF S
    <3>1. p9 \in Seq(S) /\ clear \in Seq(S)
      BY <1>10
    <3> QED BY <3>1, Joined
  <2>2. Len(p9) >= 1
    BY <1>8 DEF Upto
  <2> HIDE DEF P
  <2>3. ASSUME NEW i \in 1..Len(P)
        PROVE  \/ i \in 1..Len(p9) /\ P[i] = p9[i]
               \/ i = Len(P) /\ P[i] = <<"clear", None>>
    <3>1. CASE i > Len(p9) /\ i - Len(p9) \in 1..Len(clear) /\ P[i] = clear[i - Len(p9)]
      <4>1. i - Len(p9) = 1 /\ i = Len(P)
        BY <1>10, <2>1, <3>1
      <4> QED BY <1>10, <3>1, <4>1
    <3> QED BY <2>1, <3>1
  <2> QED BY <1>10, <2>1, <2>2, <2>3
<1> HIDE DEF P
<1>12. "clear" \notin Ranked /\ "clear" # "snapshot" /\ \A x \in Ranked : Rank[x] <= 9
  <2>1. "clear" \notin Ranked
    BY DEF Ranked
  <2> QED BY <2>1, Ranks
<1>13. \A i \in 1..Len(P) : P[i][1] = "clear" <=> i \in {1, Len(P)}
  <2> SUFFICES ASSUME NEW i \in 1..Len(P) PROVE P[i][1] = "clear" <=> i \in {1, Len(P)}
    OBVIOUS
  <2>1. CASE i \in 1..Len(p9) /\ P[i] = p9[i]
    <3>1. P[i][1] = "clear" <=> i = 1
      BY <1>8, <2>1 DEF Upto
    <3> QED BY <1>11, <2>1, <3>1
  <2>2. CASE i = Len(P) /\ P[i] = <<"clear", None>>
    BY <2>2
  <2> QED BY <1>11, <2>1, <2>2
<1>14. \A i \in 1..Len(P) : P[i][1] \in Ranked => i \in 1..Len(p9) /\ P[i] = p9[i]
  BY <1>11, <1>12
<1>15. \A i, k \in 1..Len(P) :
          i < k /\ P[i][1] \in Ranked /\ P[k][1] \in Ranked => Rank[P[i][1]] <= Rank[P[k][1]]
  BY <1>8, <1>14 DEF Upto
<1>16. \A x \in Items(dbs) : x[1] \in Ranked => \E i \in 1..Len(P) : P[i] = x
  <2> SUFFICES ASSUME NEW x \in Items(dbs), x[1] \in Ranked PROVE \E i \in 1..Len(P) : P[i] = x
    OBVIOUS
  <2>1. PICK i \in 1..Len(p9) : p9[i] = x
    BY <1>8, <1>12 DEF Upto
  <2> QED BY <1>11, <2>1
<1>17. \A i, k \in 1..Len(P) : P[i][1] = "snapshot" /\ P[k][1] = "snapshot" => i = k
  <2>1. "snapshot" \in Ranked
    BY DEF Ranked
  <2> QED BY <1>8, <1>14, <2>1 DEF Upto
<1>18. P = Plan[j] /\ S = Items(DatabasesOf[j]) /\ Len(P) \in Nat /\ Len(P) >= 2
  <2>1. Len(P) \in Nat /\ Len(P) >= 2
    BY <1>11
  <2> QED BY <1>9, <2>1 DEF P, dbs
<1> HIDE DEF S
<1> QED BY <1>11, <1>13, <1>15, <1>16, <1>17, <1>18 DEF dbs

(***************************************************************************)
(* The inductive invariant.                                                *)
(***************************************************************************)

\* What a job has done to a database, and that it has its snapshot.
Past(j, step, d) ==
    \E i \in 1..Len(Plan[j]) : i < next[j] /\ Plan[j][i] = <<step, d>>
Taken(j) == Past(j, "snapshot", None)

Knowledge == [listed : SUBSET Tables, schema : SUBSET Tables, files : Nat]
Types ==
    /\ known \in [Jobs -> [Databases -> Knowledge]]
    /\ DOMAIN meta = Databases /\ meta = [d \in Databases |-> meta[d]]
    /\ snapshot = [j \in Jobs |-> snapshot[j]]
    /\ retries \in [Jobs -> Nat] /\ next \in [Jobs -> Nat]

\* A job is at a step of its plan until it has ended.
Progress ==
    \A j \in Jobs : /\ result[j] = None => next[j] <= Len(Plan[j])
                    /\ result[j] = "Success" => next[j] = Len(Plan[j]) + 1

\* Who holds a lock has not lost its connection, and the tables are there.
LocksHeld ==
    \A d \in Databases : lock[d] # None =>
        /\ Past(lock[d], "flush", d) /\ ~Past(lock[d], "unlock", d)
        /\ d \in usable[lock[d]]
        /\ known[lock[d]][d].listed # {} /\ known[lock[d]][d].listed \subseteq tables[d]

\* The converse: a job that has kept its connection has kept its lock.
LocksKept ==
    \A j \in Jobs, d \in Databases :
        Past(j, "flush", d) /\ ~Past(j, "unlock", d) /\ d \in usable[j] => lock[d] = j

\* While it is locked, what a job found out about a database stays true.
Still ==
    \A d \in Databases : lock[d] # None =>
        /\ Past(lock[d], "sync", d) => disk[d] = rows[d]
        /\ Past(lock[d], "collect", d) => known[lock[d]][d].files = rows[d]

\* The unlock finds out whether the connection was kept until then, and with
\* it the lock.
Sure(j, d) == d \in usable[j] \/ Past(j, "unlock", d)
Exported ==
    \A j \in Jobs, d \in Databases :
        Past(j, "export", d) /\ Sure(j, d) => known[j][d].listed \subseteq known[j][d].schema
OneInstant ==
    \A j \in Jobs : \A d \in ToSet(DatabasesOf[j]) :
        Taken(j) /\ Sure(j, d) => /\ snapshot[j][d].rows = known[j][d].files
                                  /\ known[j][d].listed \subseteq snapshot[j][d].tables

\* Nobody else writes the metadata of a backup that nothing overlaps.
Overlapping ==
    \A j, k \in Jobs : /\ j # k /\ Running(j) /\ Running(k)
                       /\ ToSet(DatabasesOf[j]) \cap ToSet(DatabasesOf[k]) # {}
                       => j \in overlaps /\ k \in overlaps
Stored ==
    \A j \in Jobs \ overlaps, d \in Databases :
        result[j] = None /\ Past(j, "store", d) /\ ~Taken(j) => meta[d] = known[j][d]
StoredInSnapshot ==
    \A j \in Jobs \ overlaps : \A d \in ToSet(DatabasesOf[j]) :
        Taken(j) => snapshot[j][d].meta = known[j][d]

IInv ==
    /\ TypeOK /\ Types /\ Progress
    /\ LocksHeld /\ LocksKept /\ Still /\ Exported /\ OneInstant
    /\ Overlapping /\ Stored /\ StoredInSnapshot

(***************************************************************************)
(* What a job has done when it is at a step.                               *)
(***************************************************************************)

\* A job has done to its own databases what it has done.
LEMMA PastOwn ==
    ASSUME NEW j \in Jobs, NEW x, NEW d, Past(j, x, d)
    PROVE  <<x, d>> \in Items(DatabasesOf[j]) /\ (x \in Forall => d \in ToSet(DatabasesOf[j]))
<1>1. PICK i \in 1..Len(Plan[j]) : Plan[j][i] = <<x, d>>
  BY DEF Past
<1>2. <<x, d>> \in Items(DatabasesOf[j])
  BY <1>1, PlanOrder, ElementOfSeq
<1> QED BY <1>2 DEF Items, Forall, Ranked

LEMMA OwnDatabases == \A j \in Jobs : ToSet(DatabasesOf[j]) \subseteq Databases
BY DEF Databases

\* Where the job is.
LEMMA StepIs ==
    ASSUME TypeOK, Progress, NEW j \in Jobs, NEW s, At(j, s)
    PROVE  /\ next[j] \in 1..Len(Plan[j]) /\ result[j] = None /\ Len(Plan[j]) \in Nat
           /\ Plan[j][next[j]] = <<s, Db(j)>> /\ <<s, Db(j)>> \in Items(DatabasesOf[j])
           /\ s \in Forall \cup {"kill"} => Db(j) \in ToSet(DatabasesOf[j]) /\ Db(j) \in Databases
           /\ s = "snapshot" => Db(j) = None
<1>1. Len(Plan[j]) \in Nat /\ Plan[j] \in Seq(Items(DatabasesOf[j]))
  BY PlanOrder
<1>2. next[j] \in 1..Len(Plan[j]) /\ result[j] = None
  BY <1>1 DEF TypeOK, Progress, At
<1>3. Plan[j][next[j]] \in Items(DatabasesOf[j])
  BY <1>1, <1>2, ElementOfSeq
<1>4. Plan[j][next[j]] = <<s, Db(j)>>
  <2> DEFINE x == Plan[j][next[j]]
  <2>1. x = <<x[1], x[2]>>
    BY <1>3 DEF Items
  <2>2. x[1] = s /\ x[2] = Db(j)
    BY DEF At, Db
  <2> HIDE DEF x
  <2>3. x = <<s, Db(j)>>
    BY <2>1, <2>2
  <2> QED BY <2>3 DEF x
<1>5. s \in Forall \cup {"kill"} => Db(j) \in ToSet(DatabasesOf[j])
  BY <1>3, <1>4 DEF Items, Forall, Ranked
<1>6. s = "snapshot" => Db(j) = None
  BY <1>3, <1>4 DEF Items, Forall, Ranked
<1> QED BY <1>1, <1>2, <1>3, <1>4, <1>5, <1>6, OwnDatabases

\* What comes before the step is done, what comes after it is not.
LEMMA InOrder ==
    ASSUME TypeOK, Progress, NEW j \in Jobs, NEW s \in Ranked, At(j, s)
    PROVE  /\ \A x \in Ranked : \A d : Past(j, x, d) => Rank[x] <= Rank[s]
           /\ \A x \in Forall, d \in ToSet(DatabasesOf[j]) : Rank[x] < Rank[s] => Past(j, x, d)
           /\ Rank[s] > Rank["snapshot"] => Taken(j)
           /\ s = "snapshot" => ~Taken(j)
<1>1. /\ next[j] \in 1..Len(Plan[j]) /\ Len(Plan[j]) \in Nat /\ Plan[j][next[j]] = <<s, Db(j)>>
      /\ <<s, Db(j)>>[1] = s
  BY StepIs
<1>2. \A i, k \in 1..Len(Plan[j]) :
         i < k /\ Plan[j][i][1] \in Ranked /\ Plan[j][k][1] \in Ranked
         => Rank[Plan[j][i][1]] <= Rank[Plan[j][k][1]]
  BY PlanOrder
<1>3. ASSUME NEW x \in Ranked, NEW d, Past(j, x, d) PROVE Rank[x] <= Rank[s]
  <2>1. PICK i \in 1..Len(Plan[j]) : i < next[j] /\ Plan[j][i] = <<x, d>>
    BY <1>3 DEF Past
  <2>2. Plan[j][i][1] = x /\ Plan[j][next[j]][1] = s
    BY <1>1, <2>1
  <2> QED BY <1>1, <1>2, <2>1, <2>2
<1>4. ASSUME NEW x \in Ranked, NEW d, <<x, d>> \in Items(DatabasesOf[j]), Rank[x] < Rank[s]
      PROVE  Past(j, x, d)
  <2>1. PICK i \in 1..Len(Plan[j]) : Plan[j][i] = <<x, d>>
    <3>1. <<x, d>>[1] \in Ranked
      OBVIOUS
    <3> QED BY <1>4, <3>1, PlanOrder
  <2>2. Plan[j][i][1] = x /\ Plan[j][next[j]][1] = s
    BY <1>1, <2>1
  <2>3. Rank[x] \in Nat /\ Rank[s] \in Nat
    BY Ranks
  <2>4. ~ (next[j] < i)
    BY <1>1, <1>2, <1>4, <2>2, <2>3
  <2>5. next[j] # i
    BY <1>4, <2>2, <2>3
  <2> QED BY <1>1, <2>1, <2>4, <2>5 DEF Past
<1>5. \A x \in Forall, d \in ToSet(DatabasesOf[j]) : Rank[x] < Rank[s] => Past(j, x, d)
  BY <1>4 DEF Items, Forall
<1>6. Rank[s] > Rank["snapshot"] => Taken(j)
  <2>1. "snapshot" \in Ranked /\ <<"snapshot", None>> \in Items(DatabasesOf[j])
    BY DEF Ranked, Items
  <2>2. Rank[s] \in Nat /\ Rank["snapshot"] \in Nat
    BY <2>1, Ranks
  <2> QED BY <1>4, <2>1, <2>2 DEF Taken
<1>7. s = "snapshot" => ~Taken(j)
  <2> SUFFICES ASSUME s = "snapshot", Taken(j) PROVE FALSE
    OBVIOUS
  <2>1. PICK i \in 1..Len(Plan[j]) : i < next[j] /\ Plan[j][i] = <<"snapshot", None>>
    BY DEF Taken, Past
  <2>2. Plan[j][i][1] = "snapshot" /\ Plan[j][next[j]][1] = "snapshot"
    BY <1>1, <2>1
  <2>3. i = next[j]
    BY <1>1, <2>2, PlanOrder
  <2> QED BY <1>1, <2>1, <2>3
<1> QED BY <1>3, <1>5, <1>6, <1>7

\* The metadata is removed when nothing has been done yet, or all of it.
LEMMA AtTheEnds ==
    ASSUME TypeOK, Progress, NEW j \in Jobs, At(j, "clear")
    PROVE  /\ next[j] = 1 => \A x, d : ~Past(j, x, d)
           /\ next[j] > 1 => Taken(j)
           /\ next[j] > 1 => \A x \in Forall, d \in ToSet(DatabasesOf[j]) : Past(j, x, d)
<1>1. /\ next[j] \in 1..Len(Plan[j]) /\ Len(Plan[j]) \in Nat
      /\ Plan[j][next[j]][1] = "clear"
  BY StepIs DEF At
<1>2. next[j] = 1 => \A x, d : ~Past(j, x, d)
  BY <1>1 DEF Past
<1>3. ASSUME next[j] > 1, NEW y \in Items(DatabasesOf[j]), y[1] \in Ranked
      PROVE  Past(j, y[1], y[2])
  <2>1. next[j] = Len(Plan[j])
    BY <1>1, <1>3, PlanOrder
  <2>2. PICK i \in 1..Len(Plan[j]) : Plan[j][i] = y
    BY <1>3, PlanOrder
  <2>3. i # next[j]
    BY <1>1, <1>3, <2>2 DEF Ranked
  <2>4. y = <<y[1], y[2]>>
    BY DEF Items
  <2> QED BY <1>1, <2>1, <2>2, <2>3, <2>4 DEF Past
<1>4. next[j] > 1 => Taken(j)
  <2> DEFINE y == <<"snapshot", None>>
  <2>1. y \in Items(DatabasesOf[j]) /\ y[1] \in Ranked /\ y[1] = "snapshot" /\ y[2] = None
    BY DEF Ranked, Items
  <2> HIDE DEF y
  <2> QED BY <1>3, <2>1 DEF Taken
<1>5. ASSUME next[j] > 1, NEW x \in Forall, NEW d \in ToSet(DatabasesOf[j]) PROVE Past(j, x, d)
  <2> DEFINE y == <<x, d>>
  <2>1. y \in Items(DatabasesOf[j]) /\ y[1] \in Ranked /\ y[1] = x /\ y[2] = d
    BY DEF Forall, Items
  <2> HIDE DEF y
  <2> QED BY <1>3, <1>5, <2>1
<1> QED BY <1>2, <1>4, <1>5

\* The job has done one more thing.
LEMMA Advances ==
    ASSUME TypeOK, Types, Progress, NEW j \in Jobs, NEW s, At(j, s), Advance(j)
    PROVE  /\ \A k \in Jobs : \A x, d :
                Past(k, x, d)' <=> Past(k, x, d) \/ (k = j /\ x = s /\ d = Db(j))
           /\ \A k \in Jobs : Running(k)' => Running(k) \/ k = j
           /\ \A k \in Jobs : result'[k] = None => result[k] = None
           /\ \A k \in Jobs : next'[k] \in 1..Len(Plan[k]) + 1
           /\ next' \in [Jobs -> Nat]
           /\ result' \in [Jobs -> {None, "Success", "Failure", "killed"}]
           /\ Progress'
<1>1. /\ next[j] \in 1..Len(Plan[j]) /\ result[j] = None /\ Len(Plan[j]) \in Nat
      /\ Plan[j][next[j]] = <<s, Db(j)>>
  BY StepIs
<1>2. /\ next' = [next EXCEPT ![j] = @ + 1]
      /\ result' = [result EXCEPT ![j] = IF next[j] = Len(Plan[j]) THEN "Success" ELSE @]
  BY DEF Advance
<1>3. /\ \A k \in Jobs : next'[k] = IF k = j THEN next[j] + 1 ELSE next[k]
      /\ \A k \in Jobs : result'[k] = IF k = j /\ next[j] = Len(Plan[j]) THEN "Success"
                                      ELSE result[k]
      /\ next' \in [Jobs -> Nat]
      /\ result' \in [Jobs -> {None, "Success", "Failure", "killed"}]
  BY <1>2 DEF Types, TypeOK
<1>4. \A k \in Jobs : next[k] \in 1..Len(Plan[k]) + 1 /\ next[k] \in Nat
  BY DEF TypeOK, Types
<1>5. \A k \in Jobs : next'[k] \in 1..Len(Plan[k]) + 1
  BY <1>1, <1>3, <1>4
<1>6. ASSUME NEW k \in Jobs, NEW x, NEW d
      PROVE  Past(k, x, d)' <=> Past(k, x, d) \/ (k = j /\ x = s /\ d = Db(j))
  <2>1. CASE k # j
    BY <1>3, <2>1 DEF Past
  <2>2. CASE k = j
    <3>1. next'[j] = next[j] + 1 /\ next[j] \in Nat
      BY <1>3, <1>4
    <3>2. Past(j, x, d)' <=> \E i \in 1..Len(Plan[j]) : i < next[j] + 1 /\ Plan[j][i] = <<x, d>>
      BY <3>1 DEF Past
    <3>3. \A i \in 1..Len(Plan[j]) : i < next[j] + 1 <=> i < next[j] \/ i = next[j]
      BY <1>1, <3>1
    <3>4. Plan[j][next[j]] = <<x, d>> <=> x = s /\ d = Db(j)
      BY <1>1
    <3> QED BY <1>1, <2>2, <3>2, <3>3, <3>4 DEF Past
  <2> QED BY <2>1, <2>2
<1>7. Progress'
  <2> SUFFICES ASSUME NEW k \in Jobs
               PROVE  /\ result'[k] = None => next'[k] <= Len(Plan[k])
                      /\ result'[k] = "Success" => next'[k] = Len(Plan[k]) + 1
    BY DEF Progress
  <2>1. None # "Success"
    BY BackupAssumption
  <2> QED BY <1>1, <1>3, <2>1 DEF Progress
<1>8. \A k \in Jobs : Running(k)' => Running(k) \/ k = j
  BY <1>3 DEF Running
<1>9. \A k \in Jobs : result'[k] = None => result[k] = None
  BY <1>1, <1>3
<1> QED BY <1>3, <1>5, <1>6, <1>7, <1>8, <1>9

(***************************************************************************)
(* What a step does not disturb.                                           *)
(***************************************************************************)

\* Job j does s to database d and nothing else is done; "idle" when no job
\* gets further.  A job that still finds out about its databases has neither
\* stored anything nor has it its snapshot.
Does(j, s, d) ==
    /\ \A k \in Jobs, x \in Ranked : \A e :
          Past(k, x, e)' <=> Past(k, x, e) \/ (k = j /\ x = s /\ e = d)
    /\ \A k \in Jobs : result'[k] = None => result[k] = None
    /\ s \in {"fetch", "export", "collect"} =>
          \A e : ~Past(j, "store", e) /\ ~Past(j, "snapshot", e)
    /\ s = "fetch" => \A x \in Ranked : \A e : Past(j, x, e) => x = "fetch"
    /\ s = "unlock" => d \in usable[j]

\* Connections are only opened by fetch, and locks are only released.
Usable(j, s) == \A k \in Jobs : usable'[k] \subseteq usable[k] \/ (k = j /\ s = "fetch")
Locks == \A d \in Databases : lock'[d] # None => lock'[d] = lock[d]
Learns(j, s) ==
    \A k \in Jobs : known'[k] = known[k] \/ (k = j /\ s \in {"fetch", "export", "collect"})

LEMMA Names == "idle" \notin Ranked /\ "kill" \notin Ranked /\ "clear" \notin Ranked
BY DEF Ranked

LEMMA RankedSteps ==
    \A x \in {"fetch", "flush", "sync", "validate", "export", "collect", "store",
              "snapshot", "unlock"} : x \in Ranked /\ (x # "snapshot" => x \in Forall)
BY DEF Ranked, Forall

\* The steps of a job that has started.
LEMMA AdvanceDoes ==
    ASSUME IInv, NEW j \in Jobs, NEW s \in Ranked \cup {"kill"}, At(j, s), Advance(j),
           s = "unlock" => Connected(j), UNCHANGED overlaps
    PROVE  /\ Does(j, s, Db(j)) /\ Progress' /\ Overlapping'
           /\ next' \in [Jobs -> Nat] /\ \A k \in Jobs : next'[k] \in 1..Len(Plan[k]) + 1
           /\ result' \in [Jobs -> {None, "Success", "Failure", "killed"}]
<1> USE DEF IInv
<1>1. /\ \A k \in Jobs : \A x, d :
            Past(k, x, d)' <=> Past(k, x, d) \/ (k = j /\ x = s /\ d = Db(j))
      /\ \A k \in Jobs : Running(k)' => Running(k) \/ k = j
      /\ \A k \in Jobs : result'[k] = None => result[k] = None
      /\ Progress' /\ next' \in [Jobs -> Nat]
      /\ \A k \in Jobs : next'[k] \in 1..Len(Plan[k]) + 1
      /\ result' \in [Jobs -> {None, "Success", "Failure", "killed"}]
  BY Advances
<1>2. Running(j)
  <2>1. next[j] \in 1..Len(Plan[j]) /\ result[j] = None /\ Plan[j][next[j]][1] = s
    BY StepIs DEF At
  <2>2. next[j] # 1
    BY <2>1, PlanOrder, Names
  <2> QED BY <2>1, <2>2 DEF Running
<1>3. Overlapping'
  <2>1. \A k \in Jobs : Running(k)' => Running(k)
    BY <1>1, <1>2
  <2> QED BY <2>1 DEF Overlapping
<1>4. s \in {"fetch", "export", "collect"} =>
         \A e : ~Past(j, "store", e) /\ ~Past(j, "snapshot", e)
  <2> SUFFICES ASSUME s \in {"fetch", "export", "collect"}, NEW e
               PROVE  ~Past(j, "store", e) /\ ~Past(j, "snapshot", e)
    OBVIOUS
  <2>1. \A x \in Ranked : Past(j, x, e) => Rank[x] <= Rank[s]
    BY RankedSteps, InOrder
  <2>2. ~ (Rank["store"] <= Rank[s]) /\ ~ (Rank["snapshot"] <= Rank[s])
    BY DEF Rank
  <2> QED BY <2>1, <2>2, RankedSteps
<1>5. s = "fetch" => \A x \in Ranked : \A e : Past(j, x, e) => x = "fetch"
  <2> SUFFICES ASSUME s = "fetch", NEW x \in Ranked, NEW e, Past(j, x, e) PROVE x = "fetch"
    OBVIOUS
  <2>1. Rank[x] <= Rank[s]
    BY RankedSteps, InOrder
  <2> QED BY <2>1 DEF Rank, Ranked
<1> QED BY <1>1, <1>3, <1>4, <1>5 DEF Does, Connected

\* A step that does not get a job further.
LEMMA IdleDoes ==
    ASSUME UNCHANGED next, \A k \in Jobs : result'[k] = None => result[k] = None,
           NEW j, NEW d
    PROVE  Does(j, "idle", d)
<1>1. \A k \in Jobs, x \in Ranked : \A e : Past(k, x, e)' <=> Past(k, x, e)
  BY DEF Past
<1> QED BY <1>1, Names DEF Does

\* What a job learns of a database is all that changes in what is known.
LEMMA Learning ==
    ASSUME Types, NEW j \in Jobs, NEW d \in Databases, NEW r \in Knowledge,
           known' = [known EXCEPT ![j] = [known[j] EXCEPT ![d] = r]]
    PROVE  /\ known' \in [Jobs -> [Databases -> Knowledge]]
           /\ \A k \in Jobs : k # j => known'[k] = known[k]
           /\ \A e \in Databases : known'[j][e] = IF e = d THEN r ELSE known[j][e]
BY DEF Types

LEMMA KeepsLocksHeld ==
    ASSUME IInv, NEW j, NEW s, NEW d, Does(j, s, d), Locks, UNCHANGED tables,
           \A e \in Databases :
                lock'[e] # None /\ e \in usable[lock[e]] => e \in usable'[lock[e]],
           \A k \in Jobs, e \in Databases :
                known'[k][e].listed = known[k][e].listed \/ (k = j /\ s = "fetch"),
           s = "unlock" => \A e \in Databases : lock'[e] = j => e # d
    PROVE  LocksHeld'
<1>0. \A e \in Databases : lock'[e] # None => lock'[e] = lock[e] /\ lock[e] \in Jobs
  BY DEF Locks, IInv, TypeOK
<1> SUFFICES ASSUME NEW e \in Databases, NEW k \in Jobs, lock'[e] # None, lock[e] = k,
                    lock'[e] = k
             PROVE  /\ Past(k, "flush", e)' /\ ~Past(k, "unlock", e)'
                    /\ e \in usable'[k]
                    /\ known'[k][e].listed # {} /\ known'[k][e].listed \subseteq tables'[e]
  BY <1>0 DEF LocksHeld, Past
<1>2. /\ Past(k, "flush", e) /\ ~Past(k, "unlock", e) /\ e \in usable[k]
      /\ known[k][e].listed # {} /\ known[k][e].listed \subseteq tables[e]
  BY DEF IInv, LocksHeld
<1>3. Past(k, "flush", e)' /\ ~Past(k, "unlock", e)'
  <2>1. Past(k, "flush", e)'
    BY <1>2, RankedSteps DEF Does
  <2>2. ~ (k = j /\ "unlock" = s /\ e = d)
    OBVIOUS
  <2> QED BY <1>2, <2>1, <2>2, RankedSteps DEF Does
<1>4. ~ (k = j /\ s = "fetch")
  BY <1>2, RankedSteps DEF Does
<1> QED BY <1>2, <1>3, <1>4

LEMMA KeepsLocksKept ==
    ASSUME IInv, NEW j, NEW s, NEW d, Does(j, s, d), Usable(j, s), s # "flush",
           \A k \in Jobs, e \in Databases :
                lock[e] = k /\ e \in usable'[k] =>
                    lock'[e] = k \/ (k = j /\ s = "unlock" /\ e = d)
    PROVE  LocksKept'
<1> SUFFICES ASSUME NEW k \in Jobs, NEW e \in Databases, Past(k, "flush", e)',
                    ~Past(k, "unlock", e)', e \in usable'[k]
             PROVE  lock'[e] = k
  BY DEF LocksKept
<1>1. Past(k, "flush", e) /\ ~Past(k, "unlock", e) /\ ~ (k = j /\ s = "unlock" /\ e = d)
  BY RankedSteps DEF Does
<1>2. e \in usable[k]
  BY <1>1, RankedSteps DEF Usable, Does
<1> QED BY <1>1, <1>2 DEF IInv, LocksKept

LEMMA KeepsStill ==
    ASSUME IInv, NEW j, NEW s, NEW d, Does(j, s, d), Locks, UNCHANGED <<disk, rows>>,
           \A k \in Jobs, e \in Databases : known'[k][e].files = known[k][e].files,
           s \notin {"sync", "collect"}
    PROVE  Still'
<1>0. \A e \in Databases : lock'[e] # None => lock'[e] = lock[e] /\ lock[e] \in Jobs
  BY DEF Locks, IInv, TypeOK
<1> SUFFICES ASSUME NEW e \in Databases, NEW k \in Jobs, lock'[e] # None, lock[e] = k,
                    lock'[e] = k
             PROVE  /\ Past(k, "sync", e)' => disk'[e] = rows'[e]
                    /\ Past(k, "collect", e)' => known'[k][e].files = rows'[e]
  BY <1>0 DEF Still, Past
<1>1. /\ Past(k, "sync", e) => disk[e] = rows[e]
      /\ Past(k, "collect", e) => known[k][e].files = rows[e]
  BY DEF IInv, Still
<1>2. /\ Past(k, "sync", e)' => Past(k, "sync", e)
      /\ Past(k, "collect", e)' => Past(k, "collect", e)
  BY RankedSteps DEF Does
<1> QED BY <1>1, <1>2

\* The unlock is the only step that makes a job sure, and only of what it was
\* sure of already.
LEMMA KeepsSure ==
    ASSUME NEW j, NEW s, NEW d, Does(j, s, d), Usable(j, s),
           NEW k \in Jobs, NEW e, Sure(k, e)'
    PROVE  Sure(k, e) \/ (k = j /\ s = "fetch")
BY RankedSteps DEF Does, Usable, Sure

LEMMA KeepsExported ==
    ASSUME IInv, NEW j, NEW s, NEW d, Does(j, s, d), Usable(j, s), s # "export",
           \A k \in Jobs, e \in Databases :
              \/ known'[k][e].listed = known[k][e].listed /\ known'[k][e].schema = known[k][e].schema
              \/ k = j /\ s = "fetch"
    PROVE  Exported'
<1> SUFFICES ASSUME NEW k \in Jobs, NEW e \in Databases, Past(k, "export", e)', Sure(k, e)'
             PROVE  known'[k][e].listed \subseteq known'[k][e].schema
  BY DEF Exported
<1>1. Past(k, "export", e) /\ ~ (k = j /\ s = "fetch")
  BY RankedSteps DEF Does
<1>2. Sure(k, e)
  BY <1>1, KeepsSure
<1> QED BY <1>1, <1>2 DEF IInv, Exported

LEMMA KeepsOneInstant ==
    ASSUME IInv, NEW j, NEW s, NEW d, Does(j, s, d), Usable(j, s), Learns(j, s),
           \A k \in Jobs : Taken(k)' => Taken(k) /\ snapshot'[k] = snapshot[k]
    PROVE  OneInstant'
<1> SUFFICES ASSUME NEW k \in Jobs, NEW e \in ToSet(DatabasesOf[k]), Taken(k)', Sure(k, e)'
             PROVE  /\ snapshot'[k][e].rows = known'[k][e].files
                    /\ known'[k][e].listed \subseteq snapshot'[k][e].tables
  BY DEF OneInstant
<1>1. Taken(k) /\ snapshot'[k] = snapshot[k]
  OBVIOUS
<1>2. ~ (k = j /\ s \in {"fetch", "export", "collect"})
  BY <1>1, RankedSteps DEF Taken, Does
<1>3. Sure(k, e) /\ known'[k] = known[k]
  BY <1>2, KeepsSure DEF Learns
<1> QED BY <1>1, <1>3 DEF IInv, OneInstant

LEMMA KeepsStored ==
    ASSUME IInv, NEW j, NEW s, NEW d, Does(j, s, d), Learns(j, s),
           UNCHANGED <<meta, overlaps>>, s # "store"
    PROVE  Stored'
<1> SUFFICES ASSUME NEW k \in Jobs \ overlaps', NEW e \in Databases, result'[k] = None,
                    Past(k, "store", e)', ~Taken(k)'
             PROVE  meta'[e] = known'[k][e]
  BY DEF Stored
<1>1. Past(k, "store", e) /\ ~Taken(k) /\ result[k] = None
  BY RankedSteps DEF Does, Taken
<1>2. known'[k] = known[k]
  BY <1>1 DEF Does, Learns
<1> QED BY <1>1, <1>2 DEF IInv, Stored

LEMMA KeepsStoredInSnapshot ==
    ASSUME IInv, NEW j, NEW s, NEW d, Does(j, s, d), Learns(j, s),
           overlaps \subseteq overlaps',
           \A k \in Jobs : Taken(k)' => Taken(k) /\ snapshot'[k] = snapshot[k]
    PROVE  StoredInSnapshot'
<1> SUFFICES ASSUME NEW k \in Jobs \ overlaps', NEW e \in ToSet(DatabasesOf[k]), Taken(k)'
             PROVE  snapshot'[k][e].meta = known'[k][e]
  BY DEF StoredInSnapshot
<1>1. Taken(k) /\ snapshot'[k] = snapshot[k]
  OBVIOUS
<1>2. known'[k] = known[k]
  BY <1>1, RankedSteps DEF Taken, Does, Learns
<1> QED BY <1>1, <1>2 DEF IInv, StoredInSnapshot

\* Snapshots are only taken by the step that asks for them.
LEMMA KeepsTaken ==
    ASSUME NEW j, NEW s, NEW d, Does(j, s, d), s # "snapshot", UNCHANGED snapshot
    PROVE  \A k \in Jobs : Taken(k)' => Taken(k) /\ snapshot'[k] = snapshot[k]
BY RankedSteps DEF Does, Taken

(***************************************************************************)
(* The invariant holds at the start, and every step preserves it.          *)
(***************************************************************************)

LEMMA InitInvariant == Init => IInv
<1> SUFFICES ASSUME Init PROVE IInv
  OBVIOUS
<1> USE BackupAssumption DEF Init
<1>1. \A j \in Jobs : next[j] = 1 /\ result[j] = None /\ Len(Plan[j]) \in Nat /\ Len(Plan[j]) >= 2
  BY PlanOrder
<1>2. \A j \in Jobs : \A x, d : ~Past(j, x, d)
  BY <1>1 DEF Past
<1>3. TypeOK
  <2>1. \A j \in Jobs : next[j] \in 1..Len(Plan[j]) + 1 /\ retries[j] \in 0..MaxRetries + 1
    BY <1>1
  <2>2. tables \in [Databases -> SUBSET Tables]
    OBVIOUS
  <2> QED BY <2>1, <2>2 DEF TypeOK
<1>4. Types
  BY DEF Types, Knowledge, Unknown
<1>5. Progress
  BY <1>1 DEF Progress
<1>6. LocksHeld /\ LocksKept /\ Still /\ Exported /\ Stored
  BY <1>2 DEF LocksHeld, LocksKept, Still, Exported, Stored
<1>7. OneInstant /\ StoredInSnapshot
  BY <1>2 DEF OneInstant, StoredInSnapshot, Taken
<1>8. Overlapping
  BY <1>1 DEF Overlapping, Running
<1> QED BY <1>3, <1>4, <1>5, <1>6, <1>7, <1>8 DEF IInv

\* The first removal of the metadata overlaps with who is running, and the
\* last one is of a backup that has its snapshot.
LEMMA RemoveMetadataStep ==
    ASSUME IInv, NEW j \in Jobs, RemoveMetadata(j) PROVE IInv'
<1> DEFINE shares(k) == ToSet(DatabasesOf[k]) \cap ToSet(DatabasesOf[j]) # {}
<1>1. At(j, "clear") /\ Advance(j) /\ TypeOK /\ Types /\ Progress
  BY DEF RemoveMetadata, Start, IInv
<1>2. UNCHANGED <<dataVars, lock, usable, known, retries, snapshot, faults>>
  BY DEF RemoveMetadata
<1>3. /\ \A k \in Jobs : \A x, d :
            Past(k, x, d)' <=> Past(k, x, d) \/ (k = j /\ x = "clear" /\ d = Db(j))
      /\ \A k \in Jobs : Running(k)' => Running(k) \/ k = j
      /\ \A k \in Jobs : result'[k] = None => result[k] = None
      /\ Progress' /\ next' \in [Jobs -> Nat]
      /\ \A k \in Jobs : next'[k] \in 1..Len(Plan[k]) + 1
      /\ result' \in [Jobs -> {None, "Success", "Failure", "killed"}]
  BY <1>1, Advances
<1>4. Does(j, "clear", Db(j))
  BY <1>3, Names DEF Does
<1>5. /\ next[j] = 1 => \A x, d : ~Past(j, x, d)
      /\ next[j] > 1 => Taken(j)
      /\ next[j] \in Nat /\ next[j] >= 1 /\ result[j] = None
  <2>1. next[j] \in 1..Len(Plan[j]) /\ result[j] = None
    BY <1>1, StepIs
  <2> QED BY <1>1, <2>1, AtTheEnds
<1>6. /\ overlaps \subseteq overlaps' /\ overlaps' \subseteq Jobs
      /\ next[j] > 1 => overlaps' = overlaps
      /\ next[j] = 1 =>
            \A k \in Jobs \ {j} : Running(k) /\ shares(k) => k \in overlaps' /\ j \in overlaps'
  <2>1. CASE Start(j)
    <3> DEFINE others == {k \in Jobs \ {j} : Running(k) /\ shares(k)}
    <3>1. /\ next[j] = 1
          /\ overlaps' = overlaps \cup (others \cup (IF others = {} THEN {} ELSE {j}))
      BY <2>1 DEF Start
    <3>2. overlaps \subseteq Jobs
      BY <1>1 DEF TypeOK
    <3> QED BY <3>1, <3>2
  <2>2. CASE next[j] > 1 /\ UNCHANGED overlaps
    BY <1>1, <1>5, <2>2 DEF TypeOK
  <2> QED BY <2>1, <2>2 DEF RemoveMetadata
<1>7. \A d \in Databases : meta'[d] = meta[d] \/ d \in ToSet(DatabasesOf[j])
  <2>1. \A d \in Databases : meta'[d] = meta[d] \/ d \in Removed(DatabasesOf[j])
    BY DEF RemoveMetadata
  <2>2. Removed(DatabasesOf[j]) \subseteq ToSet(DatabasesOf[j])
    BY DEF Removed, ToSet
  <2> QED BY <2>1, <2>2
<1>8. TypeOK' /\ Types'
  <2>1. DOMAIN meta' = Databases /\ meta' = [d \in Databases |-> meta'[d]]
    BY DEF RemoveMetadata
  <2> QED BY <1>1, <1>2, <1>3, <1>6, <2>1 DEF TypeOK, Types, dataVars
<1>9. Overlapping'
  <2> SUFFICES ASSUME NEW k \in Jobs, NEW l \in Jobs, k # l, Running(k)', Running(l)',
                      ToSet(DatabasesOf[k]) \cap ToSet(DatabasesOf[l]) # {}
               PROVE  k \in overlaps' /\ l \in overlaps'
    BY DEF Overlapping
  <2>1. CASE Running(k) /\ Running(l)
    BY <1>6, <2>1 DEF IInv, Overlapping
  <2>2. CASE ~ (Running(k) /\ Running(l))
    <3>1. next[j] = 1
      BY <1>3, <1>5, <2>2 DEF Running
    <3>2. (k = j /\ Running(l)) \/ (l = j /\ Running(k))
      BY <1>3, <2>2
    <3> QED BY <1>6, <3>1, <3>2
  <2> QED BY <2>1, <2>2
<1>10. Stored'
  <2> SUFFICES ASSUME NEW k \in Jobs \ overlaps', NEW d \in Databases, result'[k] = None,
                      Past(k, "store", d)', ~Taken(k)'
               PROVE  meta'[d] = known'[k][d]
    BY DEF Stored
  <2>1. Past(k, "store", d) /\ ~Taken(k) /\ result[k] = None /\ k \notin overlaps
    BY <1>3, <1>6 DEF Taken
  <2>2. k # j
    BY <1>5, <2>1
  <2>3. Running(k)
    <3>1. next[k] > 1
      BY <1>1, <2>1 DEF Past, Types
    <3> QED BY <2>1, <3>1 DEF Running
  <2>4. d \in ToSet(DatabasesOf[k])
    BY <2>1, PastOwn, RankedSteps
  <2>5. d \notin ToSet(DatabasesOf[j])
    <3> SUFFICES ASSUME d \in ToSet(DatabasesOf[j]) PROVE FALSE
      OBVIOUS
    <3>1. shares(k)
      BY <2>4
    <3>2. CASE next[j] = 1
      BY <1>6, <2>2, <2>3, <3>1, <3>2
    <3>3. CASE next[j] > 1
      <4>1. Running(j)
        BY <1>5, <3>3 DEF Running
      <4> QED BY <2>1, <2>2, <2>3, <3>1, <4>1 DEF IInv, Overlapping
    <3> QED BY <1>5, <3>2, <3>3
  <2> QED BY <1>2, <1>7, <2>1, <2>5 DEF IInv, Stored
<1>11. /\ Usable(j, "clear") /\ Locks /\ Learns(j, "clear")
       /\ \A k \in Jobs : Taken(k)' => Taken(k) /\ snapshot'[k] = snapshot[k]
  BY <1>2, <1>4, KeepsTaken DEF Usable, Locks, Learns
<1>12. LocksHeld' /\ LocksKept' /\ Still'
  BY <1>2, <1>4, <1>11, KeepsLocksHeld, KeepsLocksKept, KeepsStill DEF dataVars
<1>13. Exported' /\ OneInstant' /\ StoredInSnapshot'
  BY <1>2, <1>4, <1>6, <1>11, KeepsExported, KeepsOneInstant, KeepsStoredInSnapshot
<1> QED BY <1>3, <1>8, <1>9, <1>10, <1>12, <1>13 DEF IInv

LEMMA FetchTableInfoStep ==
    ASSUME IInv, NEW j \in Jobs, FetchTableInfo(j) PROVE IInv'
<1>1. /\ At(j, "fetch") /\ Advance(j)
      /\ UNCHANGED <<dataVars, meta, lock, retries, overlaps, snapshot, faults>>
      /\ usable' = [usable EXCEPT ![j] = @ \cup {Db(j)}]
      /\ known' = [known EXCEPT ![j][Db(j)].listed = tables[Db(j)]]
  BY DEF FetchTableInfo
<1>2. TypeOK /\ Types /\ Progress /\ Db(j) \in Databases
  <2>1. TypeOK /\ Types /\ Progress /\ "fetch" \in Forall
    BY RankedSteps DEF IInv
  <2> QED BY <1>1, <2>1, StepIs
<1>3. /\ Does(j, "fetch", Db(j)) /\ Progress' /\ Overlapping'
      /\ next' \in [Jobs -> Nat] /\ \A k \in Jobs : next'[k] \in 1..Len(Plan[k]) + 1
      /\ result' \in [Jobs -> {None, "Success", "Failure", "killed"}]
  BY <1>1, AdvanceDoes, RankedSteps
<1>4. /\ known' \in [Jobs -> [Databases -> Knowledge]]
      /\ usable' \in [Jobs -> SUBSET Databases]
      /\ \A k \in Jobs : k # j => known'[k] = known[k] /\ usable'[k] = usable[k]
      /\ \A e \in Databases : known'[j][e].files = known[j][e].files
  <2> DEFINE r == [known[j][Db(j)] EXCEPT !.listed = tables[Db(j)]]
  <2>1. known[j][Db(j)] \in Knowledge /\ tables[Db(j)] \in SUBSET Tables
    BY <1>2 DEF Types, TypeOK
  <2>2. r \in Knowledge /\ r.files = known[j][Db(j)].files
    BY <2>1 DEF Knowledge
  <2>3. known' = [known EXCEPT ![j] = [known[j] EXCEPT ![Db(j)] = r]]
    BY <1>1
  <2> HIDE DEF r
  <2>4. usable' \in [Jobs -> SUBSET Databases] /\ \A k \in Jobs : k # j => usable'[k] = usable[k]
    BY <1>1, <1>2 DEF TypeOK
  <2> QED BY <1>2, <2>2, <2>3, <2>4, Learning
<1>5. TypeOK' /\ Types'
  BY <1>1, <1>2, <1>3, <1>4 DEF TypeOK, Types, dataVars
<1>6. /\ Locks /\ Learns(j, "fetch") /\ Usable(j, "fetch")
      /\ \A k \in Jobs, e \in Databases : known'[k][e].files = known[k][e].files
      /\ \A k \in Jobs, e \in Databases : e \in usable[k] => e \in usable'[k]
      /\ \A k \in Jobs : k # j => known'[k] = known[k] /\ usable'[k] = usable[k]
  BY <1>1, <1>2, <1>4 DEF Locks, Learns, Usable, TypeOK
<1>7. \A k \in Jobs : Taken(k)' => Taken(k) /\ snapshot'[k] = snapshot[k]
  BY <1>1, <1>3, KeepsTaken
<1>8. LocksHeld'
  <2>1. \A e \in Databases : lock'[e] # None => lock[e] \in Jobs
    BY <1>1, <1>2 DEF TypeOK
  <2> QED BY <1>1, <1>3, <1>6, <2>1, KeepsLocksHeld DEF dataVars
<1>9. LocksKept' /\ Still' /\ Exported'
  BY <1>1, <1>3, <1>6, KeepsLocksKept, KeepsStill, KeepsExported DEF dataVars
<1>10. OneInstant' /\ Stored' /\ StoredInSnapshot'
  BY <1>1, <1>3, <1>6, <1>7, KeepsOneInstant, KeepsStored, KeepsStoredInSnapshot
<1> QED BY <1>3, <1>5, <1>8, <1>9, <1>10 DEF IInv

\* A job has locked a database that it still has a connection to from the
\* flush on.
LEMMA HoldsLock ==
    ASSUME IInv, NEW j \in Jobs, NEW s \in Ranked, At(j, s), NEW d \in ToSet(DatabasesOf[j]),
           Rank["flush"] < Rank[s], Rank[s] <= Rank["unlock"], d \in usable[j], ~Past(j, "unlock", d)
    PROVE  lock[d] = j /\ d \in Databases
<1>1. "flush" \in Forall /\ TypeOK /\ Progress
  BY RankedSteps DEF IInv
<1>2. Past(j, "flush", d)
  BY <1>1, InOrder
<1> QED BY <1>2, OwnDatabases DEF IInv, LocksKept

LEMMA KillOtherConnectionsStep ==
    ASSUME IInv, NEW j \in Jobs, KillOtherConnections(j) PROVE IInv'
<1>1. /\ At(j, "kill") /\ Advance(j)
      /\ UNCHANGED <<dataVars, meta, known, retries, overlaps, snapshot, faults>>
      /\ usable' = [k \in Jobs |-> IF k \in Jobs \ {j} THEN usable[k] \ {Db(j)} ELSE usable[k]]
      /\ lock' = [lock EXCEPT ![Db(j)] = IF @ \in Jobs \ {j} THEN None ELSE @]
  BY DEF KillOtherConnections, Disconnect
<1>2. TypeOK /\ Types /\ Progress /\ Db(j) \in Databases
  BY <1>1, StepIs DEF IInv
<1>3. /\ Does(j, "kill", Db(j)) /\ Progress' /\ Overlapping'
      /\ next' \in [Jobs -> Nat] /\ \A k \in Jobs : next'[k] \in 1..Len(Plan[k]) + 1
      /\ result' \in [Jobs -> {None, "Success", "Failure", "killed"}]
  BY <1>1, AdvanceDoes
<1>4. /\ lock' \in [Databases -> Jobs \cup {None}]
      /\ usable' \in [Jobs -> SUBSET Databases]
      /\ \A e \in Databases :
            lock'[e] = IF e = Db(j) /\ lock[e] # j THEN None ELSE lock[e]
  BY <1>1, <1>2 DEF TypeOK
<1>5. TypeOK' /\ Types'
  BY <1>1, <1>2, <1>3, <1>4 DEF TypeOK, Types, dataVars
<1>6. /\ Locks /\ Learns(j, "kill") /\ Usable(j, "kill")
      /\ \A e \in Databases : lock'[e] # None /\ e \in usable[lock[e]] => e \in usable'[lock[e]]
      /\ \A k \in Jobs, e \in Databases : lock[e] = k /\ e \in usable'[k] => lock'[e] = k
  BY <1>1, <1>2, <1>4 DEF Locks, Learns, Usable, TypeOK
<1>7. \A k \in Jobs : Taken(k)' => Taken(k) /\ snapshot'[k] = snapshot[k]
  BY <1>1, <1>3, KeepsTaken
<1>8. LocksHeld' /\ LocksKept' /\ Still' /\ Exported'
  BY <1>1, <1>3, <1>6, KeepsLocksHeld, KeepsLocksKept, KeepsStill, KeepsExported DEF dataVars
<1>9. OneInstant' /\ Stored' /\ StoredInSnapshot'
  BY <1>1, <1>3, <1>6, <1>7, KeepsOneInstant, KeepsStored, KeepsStoredInSnapshot
<1> QED BY <1>3, <1>5, <1>8, <1>9 DEF IInv

LEMMA FlushTablesStep ==
    ASSUME IInv, NEW j \in Jobs, FlushTables(j) PROVE IInv'
<1>0. PICK d : d = Db(j)
  OBVIOUS
<1>1. /\ At(j, "flush") /\ Advance(j) /\ lock[d] = None /\ d \in usable[j]
      /\ known[j][d].listed # {} /\ known[j][d].listed \subseteq tables[d]
      /\ UNCHANGED <<dataVars, meta, usable, known, retries, overlaps, snapshot, faults>>
      /\ lock' = [lock EXCEPT ![d] = j]
  BY <1>0 DEF FlushTables, Connected, Flushable
<1>2. TypeOK /\ Types /\ Progress /\ d \in Databases
  <2>1. TypeOK /\ Types /\ Progress /\ "flush" \in Forall
    BY RankedSteps DEF IInv
  <2> QED BY <1>0, <1>1, <2>1, StepIs
<1>3. /\ Does(j, "flush", d) /\ Progress' /\ Overlapping'
      /\ next' \in [Jobs -> Nat] /\ \A k \in Jobs : next'[k] \in 1..Len(Plan[k]) + 1
      /\ result' \in [Jobs -> {None, "Success", "Failure", "killed"}]
  BY <1>0, <1>1, AdvanceDoes, RankedSteps
<1>4. /\ lock' \in [Databases -> Jobs \cup {None}]
      /\ \A e \in Databases : lock'[e] = IF e = d THEN j ELSE lock[e]
  BY <1>1, <1>2 DEF TypeOK
<1>5. TypeOK' /\ Types'
  BY <1>1, <1>2, <1>3, <1>4 DEF TypeOK, Types, dataVars
<1>6. /\ ~Past(j, "sync", d)' /\ ~Past(j, "collect", d)' /\ ~Past(j, "unlock", d)'
      /\ Past(j, "flush", d)'
  <2>1. \A x \in Ranked : Past(j, x, d) => Rank[x] <= Rank["flush"]
    BY <1>1, <1>2, InOrder, RankedSteps
  <2>0. /\ ~ (Rank["sync"] <= Rank["flush"]) /\ ~ (Rank["collect"] <= Rank["flush"])
        /\ ~ (Rank["unlock"] <= Rank["flush"])
    BY DEF Rank
  <2>2. ~Past(j, "sync", d) /\ ~Past(j, "collect", d) /\ ~Past(j, "unlock", d)
    BY <2>0, <2>1, RankedSteps
  <2> QED BY <1>3, <2>2, RankedSteps DEF Does
<1>7. \A k \in Jobs, e \in Databases : lock[e] = k => e # d
  BY <1>1, BackupAssumption
<1>8. LocksHeld'
  <2> SUFFICES ASSUME NEW e \in Databases, NEW k \in Jobs, lock'[e] = k
               PROVE  /\ Past(k, "flush", e)' /\ ~Past(k, "unlock", e)' /\ e \in usable'[k]
                      /\ known'[k][e].listed # {} /\ known'[k][e].listed \subseteq tables'[e]
    <3>1. \A e \in Databases : lock'[e] # None => lock'[e] \in Jobs
      BY <1>4
    <3> QED BY <3>1 DEF LocksHeld, Past
  <2>1. CASE e = d
    BY <1>1, <1>4, <1>6, <2>1 DEF dataVars
  <2>2. CASE e # d
    <3>1. lock[e] = k /\ lock[e] # None
      BY <1>4, <2>2, BackupAssumption
    <3>2. /\ Past(k, "flush", e) /\ ~Past(k, "unlock", e) /\ e \in usable[k]
          /\ known[k][e].listed # {} /\ known[k][e].listed \subseteq tables[e]
      BY <3>1 DEF IInv, LocksHeld
    <3>3. Past(k, "flush", e)' /\ ~Past(k, "unlock", e)'
      BY <1>3, <3>2, RankedSteps DEF Does
    <3> QED BY <1>1, <3>2, <3>3 DEF dataVars
  <2> QED BY <2>1, <2>2
<1>9. LocksKept'
  <2> SUFFICES ASSUME NEW k \in Jobs, NEW e \in Databases, Past(k, "flush", e)',
                      ~Past(k, "unlock", e)', e \in usable'[k]
               PROVE  lock'[e] = k
    BY DEF LocksKept
  <2>1. CASE k = j /\ e = d
    BY <1>4, <2>1
  <2>2. CASE ~ (k = j /\ e = d)
    <3>1. Past(k, "flush", e) /\ ~Past(k, "unlock", e)
      BY <1>3, <2>2, RankedSteps DEF Does
    <3>2. lock[e] = k
      BY <1>1, <3>1 DEF IInv, LocksKept
    <3> QED BY <1>4, <1>7, <3>2
  <2> QED BY <2>1, <2>2
<1>10. Still'
  <2> SUFFICES ASSUME NEW e \in Databases, NEW k \in Jobs, lock'[e] = k
               PROVE  /\ Past(k, "sync", e)' => disk'[e] = rows'[e]
                      /\ Past(k, "collect", e)' => known'[k][e].files = rows'[e]
    <3>1. \A e \in Databases : lock'[e] # None => lock'[e] \in Jobs
      BY <1>4
    <3> QED BY <3>1 DEF Still, Past
  <2>1. CASE e = d
    BY <1>4, <1>6, <2>1
  <2>2. CASE e # d
    <3>1. lock[e] = k /\ lock[e] # None
      BY <1>4, <2>2, BackupAssumption
    <3>2. /\ Past(k, "sync", e) => disk[e] = rows[e]
          /\ Past(k, "collect", e) => known[k][e].files = rows[e]
      BY <3>1 DEF IInv, Still
    <3>3. /\ Past(k, "sync", e)' => Past(k, "sync", e)
          /\ Past(k, "collect", e)' => Past(k, "collect", e)
      BY <1>3, RankedSteps DEF Does
    <3> QED BY <1>1, <3>2, <3>3 DEF dataVars
  <2> QED BY <2>1, <2>2
<1>11. /\ Learns(j, "flush") /\ Usable(j, "flush")
       /\ \A k \in Jobs : Taken(k)' => Taken(k) /\ snapshot'[k] = snapshot[k]
  BY <1>1, <1>3, KeepsTaken DEF Learns, Usable
<1>12. Exported' /\ OneInstant' /\ Stored' /\ StoredInSnapshot'
  BY <1>1, <1>3, <1>11, KeepsExported, KeepsOneInstant, KeepsStored, KeepsStoredInSnapshot
<1> QED BY <1>3, <1>5, <1>8, <1>9, <1>10, <1>12 DEF IInv

LEMMA FlushChangesToDiskStep ==
    ASSUME IInv, NEW j \in Jobs, FlushChangesToDisk(j) PROVE IInv'
<1>0. PICK d : d = Db(j)
  OBVIOUS
<1>1. /\ At(j, "sync") /\ Advance(j)
      /\ UNCHANGED <<tables, rows, meta, lock, usable, known, retries, overlaps, snapshot, faults>>
      /\ \E n \in (IF lock[d] = None THEN disk[d] ELSE rows[d])..rows[d] :
            disk' = [disk EXCEPT ![d] = n]
  BY <1>0 DEF FlushChangesToDisk
<1>2. TypeOK /\ Types /\ Progress /\ d \in Databases
  <2>1. TypeOK /\ Types /\ Progress /\ "sync" \in Forall
    BY RankedSteps DEF IInv
  <2> QED BY <1>0, <1>1, <2>1, StepIs
<1>3. /\ Does(j, "sync", d) /\ Progress' /\ Overlapping'
      /\ next' \in [Jobs -> Nat] /\ \A k \in Jobs : next'[k] \in 1..Len(Plan[k]) + 1
      /\ result' \in [Jobs -> {None, "Success", "Failure", "killed"}]
  BY <1>0, <1>1, AdvanceDoes, RankedSteps
<1>4. /\ disk' \in [Databases -> 0..MaxWrites]
      /\ \A e \in Databases : e # d => disk'[e] = disk[e]
      /\ lock[d] # None => disk'[d] = rows[d]
  <2>1. rows[d] \in 0..MaxWrites /\ disk[d] \in 0..MaxWrites /\ MaxWrites \in Nat
    BY <1>2, BackupAssumption DEF TypeOK
  <2>2. PICK n \in (IF lock[d] = None THEN disk[d] ELSE rows[d])..rows[d] :
                disk' = [disk EXCEPT ![d] = n]
    BY <1>1
  <2>3. n \in 0..MaxWrites /\ (lock[d] # None => n = rows[d])
    BY <2>1, <2>2
  <2> QED BY <1>2, <2>2, <2>3 DEF TypeOK
<1>5. TypeOK' /\ Types'
  BY <1>1, <1>2, <1>3, <1>4 DEF TypeOK, Types
<1>6. Still'
  <2> SUFFICES ASSUME NEW e \in Databases, NEW k \in Jobs, lock[e] = k, lock[e] # None
               PROVE  /\ Past(k, "sync", e)' => disk'[e] = rows'[e]
                      /\ Past(k, "collect", e)' => known'[k][e].files = rows'[e]
    BY <1>1, <1>2 DEF Still, Past, TypeOK
  <2>1. /\ Past(k, "sync", e) => disk[e] = rows[e]
        /\ Past(k, "collect", e) => known[k][e].files = rows[e]
    BY DEF IInv, Still
  <2>2. Past(k, "collect", e)' => Past(k, "collect", e)
    BY <1>3, RankedSteps DEF Does
  <2>3. e # d /\ Past(k, "sync", e)' => Past(k, "sync", e)
    BY <1>3, RankedSteps DEF Does
  <2> QED BY <1>1, <1>4, <2>1, <2>2, <2>3
<1>7. /\ Locks /\ Learns(j, "sync") /\ Usable(j, "sync")
      /\ \A k \in Jobs : Taken(k)' => Taken(k) /\ snapshot'[k] = snapshot[k]
  BY <1>1, <1>3, KeepsTaken DEF Locks, Learns, Usable
<1>8. LocksHeld' /\ LocksKept' /\ Exported'
  BY <1>1, <1>3, <1>7, KeepsLocksHeld, KeepsLocksKept, KeepsExported
<1>9. OneInstant' /\ Stored' /\ StoredInSnapshot'
  BY <1>1, <1>3, <1>7, KeepsOneInstant, KeepsStored, KeepsStoredInSnapshot
<1> QED BY <1>3, <1>5, <1>6, <1>8, <1>9 DEF IInv

LEMMA ValidateExportableFilesStep ==
    ASSUME IInv, NEW j \in Jobs, ValidateExportableFiles(j) PROVE IInv'
<1>1. /\ At(j, "validate") /\ Advance(j)
      /\ UNCHANGED <<dataVars, meta, lock, usable, known, retries, overlaps, snapshot, faults>>
  BY DEF ValidateExportableFiles
<1>2. /\ Does(j, "validate", Db(j)) /\ Progress' /\ Overlapping'
      /\ next' \in [Jobs -> Nat] /\ \A k \in Jobs : next'[k] \in 1..Len(Plan[k]) + 1
      /\ result' \in [Jobs -> {None, "Success", "Failure", "killed"}]
  BY <1>1, AdvanceDoes, RankedSteps
<1>3. TypeOK' /\ Types'
  BY <1>1, <1>2 DEF IInv, TypeOK, Types, dataVars
<1>4. /\ Locks /\ Learns(j, "validate") /\ Usable(j, "validate")
      /\ \A k \in Jobs : Taken(k)' => Taken(k) /\ snapshot'[k] = snapshot[k]
  BY <1>1, <1>2, KeepsTaken DEF Locks, Learns, Usable
<1>5. LocksHeld' /\ LocksKept' /\ Still' /\ Exported'
  BY <1>1, <1>2, <1>4, KeepsLocksHeld, KeepsLocksKept, KeepsStill, KeepsExported DEF dataVars
<1>6. OneInstant' /\ Stored' /\ StoredInSnapshot'
  BY <1>1, <1>2, <1>4, KeepsOneInstant, KeepsStored, KeepsStoredInSnapshot
<1> QED BY <1>2, <1>3, <1>5, <1>6 DEF IInv

LEMMA ExportTableSchemaStep ==
    ASSUME IInv, NEW j \in Jobs, ExportTableSchema(j) PROVE IInv'
<1>0. PICK d : d = Db(j)
  OBVIOUS
<1>1. /\ At(j, "export") /\ Advance(j)
      /\ UNCHANGED <<dataVars, meta, lock, usable, retries, overlaps, snapshot, faults>>
      /\ known' = [known EXCEPT ![j][d].schema = tables[d]]
  BY <1>0 DEF ExportTableSchema
<1>2. TypeOK /\ Types /\ Progress /\ d \in Databases /\ d \in ToSet(DatabasesOf[j])
  <2>1. TypeOK /\ Types /\ Progress /\ "export" \in Forall
    BY RankedSteps DEF IInv
  <2> QED BY <1>0, <1>1, <2>1, StepIs
<1>3. /\ Does(j, "export", d) /\ Progress' /\ Overlapping'
      /\ next' \in [Jobs -> Nat] /\ \A k \in Jobs : next'[k] \in 1..Len(Plan[k]) + 1
      /\ result' \in [Jobs -> {None, "Success", "Failure", "killed"}]
  BY <1>0, <1>1, AdvanceDoes, RankedSteps
<1>4. /\ known' \in [Jobs -> [Databases -> Knowledge]]
      /\ \A k \in Jobs : k # j => known'[k] = known[k]
      /\ \A e \in Databases : e # d => known'[j][e] = known[j][e]
      /\ known'[j][d].listed = known[j][d].listed /\ known'[j][d].files = known[j][d].files
      /\ known'[j][d].schema = tables[d]
  <2> DEFINE r == [known[j][d] EXCEPT !.schema = tables[d]]
  <2>1. known[j][d] \in Knowledge /\ tables[d] \in SUBSET Tables
    BY <1>2 DEF Types, TypeOK
  <2>2. /\ r \in Knowledge /\ r.files = known[j][d].files /\ r.listed = known[j][d].listed
        /\ r.schema = tables[d]
    BY <2>1 DEF Knowledge
  <2>3. known' = [known EXCEPT ![j] = [known[j] EXCEPT ![d] = r]]
    BY <1>1
  <2> HIDE DEF r
  <2> QED BY <1>2, <2>2, <2>3, Learning
<1>5. TypeOK' /\ Types'
  BY <1>1, <1>2, <1>3, <1>4 DEF TypeOK, Types, dataVars
<1>6. /\ Locks /\ Learns(j, "export") /\ Usable(j, "export")
      /\ \A k \in Jobs, e \in Databases :
            known'[k][e].listed = known[k][e].listed /\ known'[k][e].files = known[k][e].files
  BY <1>1, <1>4 DEF Locks, Learns, Usable
<1>7. \A k \in Jobs : Taken(k)' => Taken(k) /\ snapshot'[k] = snapshot[k]
  BY <1>1, <1>3, KeepsTaken
<1>8. LocksHeld' /\ LocksKept' /\ Still'
  BY <1>1, <1>3, <1>6, KeepsLocksHeld, KeepsLocksKept, KeepsStill DEF dataVars
<1>9. OneInstant' /\ Stored' /\ StoredInSnapshot'
  BY <1>1, <1>3, <1>6, <1>7, KeepsOneInstant, KeepsStored, KeepsStoredInSnapshot
<1>10. Exported'
  <2> SUFFICES ASSUME NEW k \in Jobs, NEW e \in Databases, Past(k, "export", e)', Sure(k, e)'
               PROVE  known'[k][e].listed \subseteq known'[k][e].schema
    BY DEF Exported
  <2>1. Sure(k, e)
    BY <1>3, <1>6, KeepsSure
  <2>2. CASE k = j /\ e = d
    <3>1. \A x \in Ranked : Past(j, x, d) => Rank[x] <= Rank["export"]
      BY <1>1, <1>2, InOrder, RankedSteps
    <3>2. /\ Rank["flush"] < Rank["export"] /\ Rank["export"] <= Rank["unlock"]
          /\ ~ (Rank["unlock"] <= Rank["export"])
      BY DEF Rank
    <3>3. ~Past(j, "unlock", d) /\ d \in usable[j]
      BY <2>1, <2>2, <3>1, <3>2, RankedSteps DEF Sure
    <3>4. lock[d] = j
      BY <1>1, <1>2, <3>2, <3>3, HoldsLock, RankedSteps
    <3>5. known[j][d].listed \subseteq tables[d]
      BY <1>2, <3>4, BackupAssumption DEF IInv, LocksHeld
    <3> QED BY <1>4, <2>2, <3>5
  <2>3. CASE ~ (k = j /\ e = d)
    <3>1. Past(k, "export", e)
      BY <1>3, <2>3, RankedSteps DEF Does
    <3> QED BY <1>4, <2>1, <2>3, <3>1 DEF IInv, Exported
  <2> QED BY <2>2, <2>3
<1> QED BY <1>3, <1>5, <1>8, <1>9, <1>10 DEF IInv

LEMMA CollectFilesMetadataStep ==
    ASSUME IInv, NEW j \in Jobs, CollectFilesMetadata(j) PROVE IInv'
<1>0. PICK d : d = Db(j)
  OBVIOUS
<1>1. /\ At(j, "collect") /\ Advance(j)
      /\ UNCHANGED <<dataVars, meta, lock, usable, retries, overlaps, snapshot, faults>>
      /\ known' = [known EXCEPT ![j][d].files = rows[d]]
  BY <1>0 DEF CollectFilesMetadata
<1>2. TypeOK /\ Types /\ Progress /\ d \in Databases
  <2>1. TypeOK /\ Types /\ Progress /\ "collect" \in Forall
    BY RankedSteps DEF IInv
  <2> QED BY <1>0, <1>1, <2>1, StepIs
<1>3. /\ Does(j, "collect", d) /\ Progress' /\ Overlapping'
      /\ next' \in [Jobs -> Nat] /\ \A k \in Jobs : next'[k] \in 1..Len(Plan[k]) + 1
      /\ result' \in [Jobs -> {None, "Success", "Failure", "killed"}]
  BY <1>0, <1>1, AdvanceDoes, RankedSteps
<1>4. /\ known' \in [Jobs -> [Databases -> Knowledge]]
      /\ \A k \in Jobs : k # j => known'[k] = known[k]
      /\ \A e \in Databases : e # d => known'[j][e] = known[j][e]
      /\ known'[j][d].listed = known[j][d].listed /\ known'[j][d].schema = known[j][d].schema
      /\ known'[j][d].files = rows[d]
  <2> DEFINE r == [known[j][d] EXCEPT !.files = rows[d]]
  <2>1. known[j][d] \in Knowledge /\ rows[d] \in Nat
    BY <1>2, BackupAssumption DEF Types, TypeOK
  <2>2. /\ r \in Knowledge /\ r.schema = known[j][d].schema /\ r.listed = known[j][d].listed
        /\ r.files = rows[d]
    BY <2>1 DEF Knowledge
  <2>3. known' = [known EXCEPT ![j] = [known[j] EXCEPT ![d] = r]]
    BY <1>1
  <2> HIDE DEF r
  <2> QED BY <1>2, <2>2, <2>3, Learning
<1>5. TypeOK' /\ Types'
  BY <1>1, <1>2, <1>3, <1>4 DEF TypeOK, Types, dataVars
<1>6. /\ Locks /\ Learns(j, "collect") /\ Usable(j, "collect")
      /\ \A k \in Jobs, e \in Databases :
            known'[k][e].listed = known[k][e].listed /\ known'[k][e].schema = known[k][e].schema
  BY <1>1, <1>4 DEF Locks, Learns, Usable
<1>7. \A k \in Jobs : Taken(k)' => Taken(k) /\ snapshot'[k] = snapshot[k]
  BY <1>1, <1>3, KeepsTaken
<1>8. LocksHeld' /\ LocksKept' /\ Exported'
  BY <1>1, <1>3, <1>6, KeepsLocksHeld, KeepsLocksKept, KeepsExported DEF dataVars
<1>9. OneInstant' /\ Stored' /\ StoredInSnapshot'
  BY <1>1, <1>3, <1>6, <1>7, KeepsOneInstant, KeepsStored, KeepsStoredInSnapshot
<1>10. Still'
  <2> SUFFICES ASSUME NEW e \in Databases, NEW k \in Jobs, lock[e] = k, lock[e] # None
               PROVE  /\ Past(k, "sync", e)' => disk'[e] = rows'[e]
                      /\ Past(k, "collect", e)' => known'[k][e].files = rows'[e]
    BY <1>1, <1>2 DEF Still, Past, TypeOK
  <2>1. /\ Past(k, "sync", e) => disk[e] = rows[e]
        /\ Past(k, "collect", e) => known[k][e].files = rows[e]
    BY DEF IInv, Still
  <2>2. Past(k, "sync", e)' => Past(k, "sync", e)
    BY <1>3, RankedSteps DEF Does
  <2>3. ~ (k = j /\ e = d) /\ Past(k, "collect", e)' => Past(k, "collect", e)
    BY <1>3, RankedSteps DEF Does
  <2> QED BY <1>1, <1>4, <2>1, <2>2, <2>3 DEF dataVars
<1> QED BY <1>3, <1>5, <1>8, <1>9, <1>10 DEF IInv

\* Nobody whose backup nothing overlaps has stored metadata there.
LEMMA StoreMetadataStep ==
    ASSUME IInv, NEW j \in Jobs, StoreMetadata(j) PROVE IInv'
<1>0. PICK d : d = Db(j)
  OBVIOUS
<1>1. /\ At(j, "store") /\ Advance(j)
      /\ UNCHANGED <<dataVars, lock, usable, known, retries, overlaps, snapshot, faults>>
      /\ meta' = [meta EXCEPT ![d] = known[j][d]]
  BY <1>0 DEF StoreMetadata
<1>2. TypeOK /\ Types /\ Progress /\ d \in Databases /\ d \in ToSet(DatabasesOf[j])
  <2>1. TypeOK /\ Types /\ Progress /\ "store" \in Forall
    BY RankedSteps DEF IInv
  <2> QED BY <1>0, <1>1, <2>1, StepIs
<1>3. /\ Does(j, "store", d) /\ Progress' /\ Overlapping'
      /\ next' \in [Jobs -> Nat] /\ \A k \in Jobs : next'[k] \in 1..Len(Plan[k]) + 1
      /\ result' \in [Jobs -> {None, "Success", "Failure", "killed"}]
  BY <1>0, <1>1, AdvanceDoes, RankedSteps
<1>4. /\ meta' = [e \in Databases |-> meta'[e]] /\ DOMAIN meta' = Databases
      /\ \A e \in Databases : meta'[e] = IF e = d THEN known[j][d] ELSE meta[e]
  <2>1. meta = [e \in Databases |-> meta[e]]
    BY <1>2 DEF Types
  <2>2. meta' = [e \in Databases |-> IF e = d THEN known[j][d] ELSE meta[e]]
    BY <1>1, <2>1
  <2> QED BY <2>2
<1>5. TypeOK' /\ Types'
  BY <1>1, <1>2, <1>3, <1>4 DEF TypeOK, Types, dataVars
<1>6. /\ Locks /\ Learns(j, "store") /\ Usable(j, "store")
      /\ \A k \in Jobs : Taken(k)' => Taken(k) /\ snapshot'[k] = snapshot[k]
  BY <1>1, <1>3, KeepsTaken DEF Locks, Learns, Usable
<1>7. LocksHeld' /\ LocksKept' /\ Still' /\ Exported'
  BY <1>1, <1>3, <1>6, KeepsLocksHeld, KeepsLocksKept, KeepsStill, KeepsExported DEF dataVars
<1>8. OneInstant' /\ StoredInSnapshot'
  BY <1>1, <1>3, <1>6, KeepsOneInstant, KeepsStoredInSnapshot
<1>9. Stored'
  <2> SUFFICES ASSUME NEW k \in Jobs \ overlaps', NEW e \in Databases, result'[k] = None,
                      Past(k, "store", e)', ~Taken(k)'
               PROVE  meta'[e] = known'[k][e]
    BY DEF Stored
  <2>1. result[k] = None /\ ~Taken(k) /\ k \notin overlaps
    BY <1>1, <1>3, RankedSteps DEF Does, Taken
  <2>2. CASE k = j /\ e = d
    BY <1>1, <1>4, <2>2
  <2>3. CASE ~ (k = j /\ e = d)
    <3>1. Past(k, "store", e)
      BY <1>3, <2>3, RankedSteps DEF Does
    <3>2. meta[e] = known[k][e]
      BY <2>1, <3>1 DEF IInv, Stored
    <3>3. e # d
      <4> SUFFICES ASSUME k # j, e = d PROVE FALSE
        BY <2>3
      <4>1. e \in ToSet(DatabasesOf[k])
        BY <3>1, PastOwn, RankedSteps
      <4>2. Running(k)
        <5>1. next[k] > 1
          BY <1>2, <3>1 DEF Past, Types
        <5> QED BY <2>1, <5>1 DEF Running
      <4>3. Running(j)
        <5>1. next[j] \in 1..Len(Plan[j]) /\ result[j] = None /\ Plan[j][next[j]][1] = "store"
          BY <1>1, <1>2, StepIs DEF At
        <5>2. next[j] # 1
          BY <5>1, PlanOrder
        <5> QED BY <5>1, <5>2 DEF Running
      <4> QED BY <1>2, <2>1, <4>1, <4>2, <4>3 DEF IInv, Overlapping
    <3> QED BY <1>1, <1>4, <3>2, <3>3
  <2> QED BY <2>2, <2>3
<1> QED BY <1>3, <1>5, <1>7, <1>8, <1>9 DEF IInv

\* What is on the disk when the snapshot is taken.
LEMMA InSnapshot ==
    ASSUME IInv, NEW j \in Jobs, At(j, "snapshot"), NEW d \in ToSet(DatabasesOf[j])
    PROVE  /\ d \in Databases /\ result[j] = None /\ ~Taken(j)
           /\ ~Past(j, "unlock", d)
           /\ d \in usable[j] => /\ disk[d] = known[j][d].files
                                 /\ known[j][d].listed \subseteq tables[d]
           /\ j \notin overlaps => meta[d] = known[j][d]
<1>1. TypeOK /\ Progress /\ d \in Databases
  BY OwnDatabases DEF IInv
<1>2. /\ Rank["flush"] < Rank["snapshot"] /\ Rank["sync"] < Rank["snapshot"]
      /\ Rank["collect"] < Rank["snapshot"] /\ Rank["store"] < Rank["snapshot"]
      /\ Rank["snapshot"] <= Rank["unlock"] /\ ~ (Rank["unlock"] <= Rank["snapshot"])
  BY DEF Rank
<1>3. /\ Past(j, "sync", d) /\ Past(j, "collect", d) /\ Past(j, "store", d)
      /\ ~Past(j, "unlock", d) /\ ~Taken(j)
  BY <1>1, <1>2, InOrder, RankedSteps
<1>4. result[j] = None
  BY DEF At
<1>5. ASSUME d \in usable[j]
      PROVE  disk[d] = known[j][d].files /\ known[j][d].listed \subseteq tables[d]
  <2>1. lock[d] = j /\ lock[d] # None
    BY <1>2, <1>3, <1>5, HoldsLock, RankedSteps, BackupAssumption
  <2> QED BY <1>1, <1>3, <2>1 DEF IInv, LocksHeld, Still
<1>6. j \notin overlaps => meta[d] = known[j][d]
  BY <1>1, <1>3, <1>4 DEF IInv, Stored
<1> QED BY <1>1, <1>3, <1>4, <1>5, <1>6

LEMMA CreateSnapshotStep ==
    ASSUME IInv, NEW j \in Jobs, CreateSnapshot(j) PROVE IInv'
<1> DEFINE shot == [d \in Databases |-> [meta |-> meta[d], tables |-> tables[d], rows |-> disk[d]]]
<1>1. /\ At(j, "snapshot") /\ Advance(j)
      /\ UNCHANGED <<dataVars, meta, lock, usable, known, retries, overlaps, faults>>
      /\ snapshot' = [snapshot EXCEPT ![j] = shot]
  BY DEF CreateSnapshot, TakeSnapshot
<1>2. TypeOK /\ Types /\ Progress
  BY DEF IInv
<1>3. /\ Does(j, "snapshot", Db(j)) /\ Progress' /\ Overlapping'
      /\ next' \in [Jobs -> Nat] /\ \A k \in Jobs : next'[k] \in 1..Len(Plan[k]) + 1
      /\ result' \in [Jobs -> {None, "Success", "Failure", "killed"}]
  BY <1>1, AdvanceDoes, RankedSteps
<1>4. /\ snapshot' = [k \in Jobs |-> snapshot'[k]] /\ snapshot'[j] = shot
      /\ \A k \in Jobs : k # j => snapshot'[k] = snapshot[k]
  <2>1. snapshot = [k \in Jobs |-> snapshot[k]]
    BY <1>2 DEF Types
  <2> HIDE DEF shot
  <2>2. snapshot' = [k \in Jobs |-> IF k = j THEN shot ELSE snapshot[k]]
    BY <1>1, <2>1
  <2> QED BY <2>2
<1>5. TypeOK' /\ Types'
  BY <1>1, <1>2, <1>3, <1>4 DEF TypeOK, Types, dataVars
<1>6. Locks /\ Learns(j, "snapshot") /\ Usable(j, "snapshot")
  BY <1>1 DEF Locks, Learns, Usable
<1>7. LocksHeld' /\ LocksKept' /\ Still' /\ Exported' /\ Stored'
  BY <1>1, <1>3, <1>6, KeepsLocksHeld, KeepsLocksKept, KeepsStill, KeepsExported, KeepsStored
     DEF dataVars
<1>8. \A k \in Jobs : k # j /\ Taken(k)' => Taken(k)
  BY <1>3, RankedSteps DEF Does, Taken
<1>9. \A d \in ToSet(DatabasesOf[j]) :
         /\ snapshot'[j][d].meta = meta[d]
         /\ snapshot'[j][d].tables = tables[d] /\ snapshot'[j][d].rows = disk[d]
  BY <1>4, OwnDatabases
<1>10. OneInstant'
  <2> SUFFICES ASSUME NEW k \in Jobs, NEW d \in ToSet(DatabasesOf[k]), Taken(k)', Sure(k, d)'
               PROVE  /\ snapshot'[k][d].rows = known'[k][d].files
                      /\ known'[k][d].listed \subseteq snapshot'[k][d].tables
    BY DEF OneInstant
  <2>1. Sure(k, d)
    BY <1>3, <1>6, KeepsSure
  <2>2. CASE k = j
    <3>1. d \in usable[j]
      BY <1>1, <2>1, <2>2, InSnapshot DEF Sure
    <3>2. disk[d] = known[j][d].files /\ known[j][d].listed \subseteq tables[d]
      BY <1>1, <2>2, <3>1, InSnapshot
    <3> QED BY <1>1, <1>9, <2>2, <3>2
  <2>3. CASE k # j
    BY <1>1, <1>4, <1>8, <2>1, <2>3 DEF IInv, OneInstant
  <2> QED BY <2>2, <2>3
<1>11. StoredInSnapshot'
  <2> SUFFICES ASSUME NEW k \in Jobs \ overlaps', NEW d \in ToSet(DatabasesOf[k]), Taken(k)'
               PROVE  snapshot'[k][d].meta = known'[k][d]
    BY DEF StoredInSnapshot
  <2>1. CASE k = j
    BY <1>1, <1>9, <2>1, InSnapshot
  <2>2. CASE k # j
    BY <1>1, <1>4, <1>8, <2>2 DEF IInv, StoredInSnapshot
  <2> QED BY <2>1, <2>2
<1> QED BY <1>3, <1>5, <1>7, <1>10, <1>11 DEF IInv

\* press may have taken a snapshot that the job does not know of.
LEMMA RetrySnapshotStep ==
    ASSUME IInv, NEW j \in Jobs, RetrySnapshot(j) PROVE IInv'
<1>1. /\ At(j, "snapshot") /\ retries[j] <= MaxRetries
      /\ TakeSnapshot(j) \/ UNCHANGED snapshot
      /\ retries' = [retries EXCEPT ![j] = @ + 1]
      /\ UNCHANGED <<dataVars, meta, lock, next, result, usable, known, overlaps, faults>>
  BY DEF RetrySnapshot
<1>2. TypeOK /\ Types /\ Progress
  BY DEF IInv
<1>3. Does(j, "idle", Db(j))
  BY <1>1, IdleDoes
<1>4. /\ snapshot' = [k \in Jobs |-> snapshot'[k]]
      /\ \A k \in Jobs : k # j => snapshot'[k] = snapshot[k]
  <2>1. snapshot = [k \in Jobs |-> snapshot[k]]
    BY <1>2 DEF Types
  <2>2. CASE UNCHANGED snapshot
    BY <2>1, <2>2
  <2>3. CASE TakeSnapshot(j)
    <3> DEFINE shot == [d \in Databases |-> [meta |-> meta[d], tables |-> tables[d], rows |-> disk[d]]]
    <3>1. snapshot' = [snapshot EXCEPT ![j] = shot]
      BY <2>3 DEF TakeSnapshot
    <3> HIDE DEF shot
    <3>2. snapshot' = [k \in Jobs |-> IF k = j THEN shot ELSE snapshot[k]]
      BY <2>1, <3>1
    <3> QED BY <3>2
  <2> QED BY <1>1, <2>2, <2>3
<1>5. /\ \A k \in Jobs : retries'[k] \in 0..MaxRetries + 1
      /\ retries' \in [Jobs -> Nat]
  <2>1. \A k \in Jobs : retries[k] \in 0..MaxRetries + 1 /\ retries[k] \in Nat /\ MaxRetries \in Nat
    BY <1>2, BackupAssumption DEF TypeOK, Types
  <2>2. \A k \in Jobs : retries'[k] = IF k = j THEN retries[j] + 1 ELSE retries[k]
    BY <1>1, <1>2 DEF Types
  <2>3. \A k \in Jobs : retries'[k] \in 0..MaxRetries + 1
    BY <1>1, <2>1, <2>2
  <2> QED BY <1>1, <1>2, <2>3 DEF Types
<1>6. TypeOK' /\ Types' /\ Progress' /\ Overlapping'
  BY <1>1, <1>2, <1>4, <1>5 DEF IInv, TypeOK, Types, Progress, Overlapping, Running, dataVars
<1>7. Locks /\ Learns(j, "idle") /\ Usable(j, "idle")
  BY <1>1 DEF Locks, Learns, Usable
<1>8. \A k \in Jobs : Taken(k)' => Taken(k) /\ snapshot'[k] = snapshot[k]
  <2>1. \A k \in Jobs : Taken(k)' => Taken(k)
    BY <1>3, RankedSteps DEF Does, Taken
  <2>2. ~Taken(j)
    BY <1>1, <1>2, InOrder, RankedSteps
  <2> QED BY <1>4, <2>1, <2>2
<1>9. LocksHeld' /\ LocksKept' /\ Still' /\ Exported'
  BY <1>1, <1>3, <1>7, KeepsLocksHeld, KeepsLocksKept, KeepsStill, KeepsExported DEF dataVars
<1>10. OneInstant' /\ Stored' /\ StoredInSnapshot'
  BY <1>1, <1>3, <1>7, <1>8, KeepsOneInstant, KeepsStored, KeepsStoredInSnapshot
<1> QED BY <1>6, <1>9, <1>10 DEF IInv

LEMMA UnlockTablesStep ==
    ASSUME IInv, NEW j \in Jobs, UnlockTables(j) PROVE IInv'
<1>0. PICK d : d = Db(j)
  OBVIOUS
<1>1. /\ At(j, "unlock") /\ Advance(j) /\ Connected(j)
      /\ UNCHANGED <<dataVars, meta, usable, known, retries, overlaps, snapshot, faults>>
      /\ lock' = [lock EXCEPT ![d] = IF @ = j THEN None ELSE @]
  BY <1>0 DEF UnlockTables
<1>2. TypeOK /\ Types /\ Progress /\ d \in Databases
  <2>1. TypeOK /\ Types /\ Progress /\ "unlock" \in Forall
    BY RankedSteps DEF IInv
  <2> QED BY <1>0, <1>1, <2>1, StepIs
<1>3. /\ Does(j, "unlock", d) /\ Progress' /\ Overlapping'
      /\ next' \in [Jobs -> Nat] /\ \A k \in Jobs : next'[k] \in 1..Len(Plan[k]) + 1
      /\ result' \in [Jobs -> {None, "Success", "Failure", "killed"}]
  BY <1>0, <1>1, AdvanceDoes, RankedSteps
<1>4. /\ lock' \in [Databases -> Jobs \cup {None}]
      /\ \A e \in Databases : lock'[e] = IF e = d /\ lock[e] = j THEN None ELSE lock[e]
  BY <1>1, <1>2 DEF TypeOK
<1>5. TypeOK' /\ Types'
  BY <1>1, <1>2, <1>3, <1>4 DEF TypeOK, Types, dataVars
<1>6. /\ Locks /\ Learns(j, "unlock") /\ Usable(j, "unlock")
      /\ \A e \in Databases : lock'[e] = j => e # d
      /\ \A k \in Jobs, e \in Databases : lock[e] = k => lock'[e] = k \/ (k = j /\ e = d)
      /\ \A k \in Jobs : Taken(k)' => Taken(k) /\ snapshot'[k] = snapshot[k]
  <2>1. None # j
    BY BackupAssumption
  <2> QED BY <1>1, <1>3, <1>4, <2>1, KeepsTaken DEF Locks, Learns, Usable
<1>7. LocksHeld'
  BY <1>1, <1>3, <1>6, KeepsLocksHeld DEF dataVars
<1>8. LocksKept' /\ Still' /\ Exported'
  BY <1>1, <1>3, <1>6, KeepsLocksKept, KeepsStill, KeepsExported DEF dataVars
<1>9. OneInstant' /\ Stored' /\ StoredInSnapshot'
  BY <1>1, <1>3, <1>6, KeepsOneInstant, KeepsStored, KeepsStoredInSnapshot
<1> QED BY <1>3, <1>5, <1>7, <1>8, <1>9 DEF IInv

\* A job that does not get further, or not any more: who loses its lock has
\* lost its connection, and the other way round.
LEMMA IdleStep ==
    ASSUME IInv, NEW j, UNCHANGED <<next, dataVars, meta, known, retries, snapshot, overlaps>>,
           \A k \in Jobs : result'[k] = result[k] \/ (k = j /\ result'[k] \in {"Failure", "killed"}),
           result' \in [Jobs -> {None, "Success", "Failure", "killed"}],
           lock' \in [Databases -> Jobs \cup {None}], usable' \in [Jobs -> SUBSET Databases],
           faults' \in 0..MaxFaults,
           Locks, \A k \in Jobs : usable'[k] \subseteq usable[k],
           \A k \in Jobs, e \in Databases : lock'[e] = k /\ e \in usable[k] => e \in usable'[k],
           \A k \in Jobs, e \in Databases : lock[e] = k /\ e \in usable'[k] => lock'[e] = k
    PROVE  IInv'
<1>1. None # "Success" /\ None # "Failure" /\ None # "killed"
  BY BackupAssumption
<1>2. Does(j, "idle", None)
  <2>1. \A k \in Jobs : result'[k] = None => result[k] = None
    BY <1>1
  <2> QED BY <2>1, IdleDoes
<1>3. TypeOK' /\ Types'
  BY DEF IInv, TypeOK, Types, dataVars
<1>4. Progress' /\ Overlapping'
  BY <1>1 DEF IInv, Progress, Overlapping, Running
<1>5. /\ Learns(j, "idle") /\ Usable(j, "idle")
      /\ \A k \in Jobs : Taken(k)' => Taken(k) /\ snapshot'[k] = snapshot[k]
  BY <1>2, KeepsTaken DEF Learns, Usable
<1>6. LocksHeld'
  <2>1. \A e \in Databases : lock'[e] # None /\ e \in usable[lock[e]] => e \in usable'[lock[e]]
    BY DEF Locks
  <2> QED BY <1>2, <2>1, KeepsLocksHeld DEF dataVars
<1>7. LocksKept' /\ Still' /\ Exported'
  BY <1>2, <1>5, KeepsLocksKept, KeepsStill, KeepsExported DEF dataVars
<1>8. OneInstant' /\ Stored' /\ StoredInSnapshot'
  BY <1>2, <1>5, KeepsOneInstant, KeepsStored, KeepsStoredInSnapshot
<1> QED BY <1>3, <1>4, <1>6, <1>7, <1>8 DEF IInv

LEMMA EndStep ==
    ASSUME IInv, NEW j \in Jobs, NEW how \in {"Failure", "killed"}, End(j, how),
           faults' \in 0..MaxFaults
    PROVE  IInv'
<1>1. /\ result' = [result EXCEPT ![j] = how]
      /\ usable' = [usable EXCEPT ![j] = {}]
      /\ lock' = [d \in Databases |-> IF lock[d] = j THEN None ELSE lock[d]]
      /\ UNCHANGED <<dataVars, meta, next, known, retries, snapshot, overlaps>>
  BY DEF End
<1>2. TypeOK
  BY DEF IInv
<1>3. /\ result' \in [Jobs -> {None, "Success", "Failure", "killed"}]
      /\ \A k \in Jobs : result'[k] = IF k = j THEN how ELSE result[k]
      /\ usable' \in [Jobs -> SUBSET Databases]
      /\ \A k \in Jobs : usable'[k] = IF k = j THEN {} ELSE usable[k]
      /\ lock' \in [Databases -> Jobs \cup {None}]
  BY <1>1, <1>2 DEF TypeOK
<1>4. /\ Locks
      /\ \A k \in Jobs, e \in Databases : lock'[e] = k /\ e \in usable[k] => e \in usable'[k]
      /\ \A k \in Jobs, e \in Databases : lock[e] = k /\ e \in usable'[k] => lock'[e] = k
  <2>1. None \notin Jobs
    BY BackupAssumption
  <2> QED BY <1>1, <1>3, <2>1 DEF Locks
<1> QED BY <1>1, <1>3, <1>4, IdleStep

LEMMA ConnectionLostStep ==
    ASSUME IInv, NEW j \in Jobs, NEW d \in Databases, ConnectionLost(j, d) PROVE IInv'
<1>1. /\ faults < MaxFaults /\ faults' = faults + 1
      /\ usable' = [k \in Jobs |-> IF k \in {j} THEN usable[k] \ {d} ELSE usable[k]]
      /\ lock' = [lock EXCEPT ![d] = IF @ \in {j} THEN None ELSE @]
      /\ UNCHANGED <<dataVars, meta, next, result, known, retries, overlaps, snapshot>>
  BY DEF ConnectionLost, Disconnect
<1>2. TypeOK
  BY DEF IInv
<1>3. /\ usable' \in [Jobs -> SUBSET Databases]
      /\ \A k \in Jobs : usable'[k] = IF k = j THEN usable[k] \ {d} ELSE usable[k]
      /\ lock' \in [Databases -> Jobs \cup {None}]
      /\ \A e \in Databases : lock'[e] = IF e = d /\ lock[e] = j THEN None ELSE lock[e]
      /\ faults' \in 0..MaxFaults
  BY <1>1, <1>2, BackupAssumption DEF TypeOK
<1>4. /\ Locks
      /\ \A k \in Jobs, e \in Databases : lock'[e] = k /\ e \in usable[k] => e \in usable'[k]
      /\ \A k \in Jobs, e \in Databases : lock[e] = k /\ e \in usable'[k] => lock'[e] = k
  <2>1. None \notin Jobs
    BY BackupAssumption
  <2> QED BY <1>3, <2>1 DEF Locks
<1>5. result' \in [Jobs -> {None, "Success", "Failure", "killed"}]
  BY <1>1, <1>2 DEF TypeOK
<1> QED BY <1>1, <1>3, <1>4, <1>5, IdleStep

\* Users write to a database that nobody has locked.
LEMMA WriteStep ==
    ASSUME IInv, NEW d \in Databases, Write(d) PROVE IInv'
<1>1. /\ rows[d] < MaxWrites /\ Locked(d) = {}
      /\ rows' = [rows EXCEPT ![d] = @ + 1]
      /\ disk' = [disk EXCEPT ![d] = @] \/ disk' = [disk EXCEPT ![d] = rows[d] + 1]
      /\ UNCHANGED <<tables, meta, lock, next, result, usable, known, retries, overlaps, snapshot,
                     faults>>
  BY DEF Write, jobVars
<1>2. TypeOK /\ lock[d] = None
  BY <1>1 DEF IInv, LocksHeld, Locked
<1>3. /\ rows' \in [Databases -> 0..MaxWrites] /\ disk' \in [Databases -> 0..MaxWrites]
      /\ \A e \in Databases : e # d => rows'[e] = rows[e] /\ disk'[e] = disk[e]
  <2>1. rows[d] + 1 \in 0..MaxWrites
    BY <1>1, <1>2, BackupAssumption DEF TypeOK
  <2> QED BY <1>1, <1>2, <2>1 DEF TypeOK
<1>4. TypeOK' /\ Types' /\ Progress' /\ Overlapping'
  BY <1>1, <1>3 DEF IInv, TypeOK, Types, Progress, Overlapping, Running
<1>5. /\ Does(None, "idle", None) /\ Locks /\ Learns(None, "idle") /\ Usable(None, "idle")
      /\ \A k \in Jobs : Taken(k)' => Taken(k) /\ snapshot'[k] = snapshot[k]
  BY <1>1, IdleDoes, KeepsTaken DEF Locks, Learns, Usable
<1>6. LocksHeld' /\ LocksKept' /\ Exported'
  BY <1>1, <1>5, KeepsLocksHeld, KeepsLocksKept, KeepsExported
<1>7. OneInstant' /\ Stored' /\ StoredInSnapshot'
  BY <1>1, <1>5, KeepsOneInstant, KeepsStored, KeepsStoredInSnapshot
<1>8. Still'
  <2> SUFFICES ASSUME NEW e \in Databases, lock[e] # None
               PROVE  /\ Past(lock[e], "sync", e) => disk'[e] = rows'[e]
                      /\ Past(lock[e], "collect", e) => known[lock[e]][e].files = rows'[e]
    BY <1>1 DEF Still, Past
  <2> QED BY <1>2, <1>3 DEF IInv, Still
<1> QED BY <1>4, <1>6, <1>7, <1>8 DEF IInv

LEMMA ChangeTablesStep ==
    ASSUME IInv, NEW d \in Databases, NEW t \in Tables, ChangeTables(d, t) PROVE IInv'
<1>1. /\ t \notin Locked(d) /\ faults < MaxFaults /\ faults' = faults + 1
      /\ tables' = [tables EXCEPT ![d] = IF t \in @ THEN @ \ {t} ELSE @ \cup {t}]
      /\ UNCHANGED <<rows, disk, meta, lock, next, result, usable, known, retries, overlaps,
                     snapshot>>
  BY DEF ChangeTables, jobVars
<1>2. TypeOK
  BY DEF IInv
<1>3. /\ tables' \in [Databases -> SUBSET Tables] /\ faults' \in 0..MaxFaults
      /\ \A e \in Databases : e # d => tables'[e] = tables[e]
      /\ tables[d] \ {t} \subseteq tables'[d]
  BY <1>1, <1>2, BackupAssumption DEF TypeOK
<1>4. TypeOK' /\ Types' /\ Progress' /\ Overlapping'
  <2>1. TypeOK' /\ Types'
    BY <1>1, <1>2, <1>3 DEF IInv, TypeOK, Types
  <2> QED BY <1>1, <2>1 DEF IInv, Progress, Overlapping, Running
<1>5. /\ Does(None, "idle", None) /\ Locks /\ Learns(None, "idle") /\ Usable(None, "idle")
      /\ \A k \in Jobs : Taken(k)' => Taken(k) /\ snapshot'[k] = snapshot[k]
  BY <1>1, IdleDoes, KeepsTaken DEF Locks, Learns, Usable
<1>6. LocksKept' /\ Still' /\ Exported'
  BY <1>1, <1>5, KeepsLocksKept, KeepsStill, KeepsExported
<1>7. OneInstant' /\ Stored' /\ StoredInSnapshot'
  BY <1>1, <1>5, KeepsOneInstant, KeepsStored, KeepsStoredInSnapshot
<1>8. LocksHeld'
  <2> SUFFICES ASSUME NEW e \in Databases, lock[e] # None
               PROVE  /\ Past(lock[e], "flush", e) /\ ~Past(lock[e], "unlock", e)
                      /\ e \in usable[lock[e]]
                      /\ known[lock[e]][e].listed # {} /\ known[lock[e]][e].listed \subseteq tables'[e]
    BY <1>1 DEF LocksHeld, Past
  <2>1. /\ Past(lock[e], "flush", e) /\ ~Past(lock[e], "unlock", e) /\ e \in usable[lock[e]]
        /\ known[lock[e]][e].listed # {} /\ known[lock[e]][e].listed \subseteq tables[e]
    BY DEF IInv, LocksHeld
  <2>2. e = d => t \notin known[lock[e]][e].listed
    BY <1>1 DEF Locked
  <2> QED BY <1>3, <2>1, <2>2
<1> QED BY <1>4, <1>6, <1>7, <1>8 DEF IInv

LEMMA JobStep == ASSUME IInv, NEW j \in Jobs, Step(j) PROVE IInv'
<1>1. CASE RemoveMetadata(j) BY <1>1, RemoveMetadataStep
<1>2. CASE FetchTableInfo(j) BY <1>2, FetchTableInfoStep
<1>3. CASE KillOtherConnections(j) BY <1>3, KillOtherConnectionsStep
<1>4. CASE FlushTables(j) BY <1>4, FlushTablesStep
<1>5. CASE FlushChangesToDisk(j) BY <1>5, FlushChangesToDiskStep
<1>6. CASE ValidateExportableFiles(j) BY <1>6, ValidateExportableFilesStep
<1>7. CASE ExportTableSchema(j) BY <1>7, ExportTableSchemaStep
<1>8. CASE CollectFilesMetadata(j) BY <1>8, CollectFilesMetadataStep
<1>9. CASE StoreMetadata(j) BY <1>9, StoreMetadataStep
<1>10. CASE CreateSnapshot(j) BY <1>10, CreateSnapshotStep
<1>11. CASE RetrySnapshot(j) BY <1>11, RetrySnapshotStep
<1>12. CASE UnlockTables(j) BY <1>12, UnlockTablesStep
<1>13. CASE StepRaises(j)
  <2>1. End(j, "Failure") /\ faults' \in 0..MaxFaults
    BY <1>13 DEF StepRaises, IInv, TypeOK
  <2> QED BY <2>1, EndStep
<1> QED BY <1>1, <1>2, <1>3, <1>4, <1>5, <1>6, <1>7, <1>8, <1>9, <1>10, <1>11, <1>12, <1>13
        DEF Step

LEMMA StepInvariant == IInv /\ [Next]_vars => IInv'
<1> SUFFICES ASSUME IInv, [Next]_vars PROVE IInv'
  OBVIOUS
<1>1. ASSUME NEW j \in Jobs, Step(j) PROVE IInv'
  BY <1>1, JobStep
<1>2. ASSUME NEW j \in Jobs, WorkerKilled(j) PROVE IInv'
  <2>1. End(j, "killed") /\ faults' \in 0..MaxFaults
    BY <1>2, BackupAssumption DEF WorkerKilled, IInv, TypeOK
  <2> QED BY <2>1, EndStep
<1>3. ASSUME NEW j \in Jobs, NEW d \in Databases, ConnectionLost(j, d) PROVE IInv'
  BY <1>3, ConnectionLostStep
<1>4. ASSUME NEW d \in Databases, Write(d) PROVE IInv'
  BY <1>4, WriteStep
<1>5. ASSUME NEW d \in Databases, NEW t \in Tables, ChangeTables(d, t) PROVE IInv'
  BY <1>5, ChangeTablesStep
<1>6. CASE UNCHANGED vars
  <2>1. UNCHANGED <<dataVars, meta, lock, jobVars, snapshot, faults>>
    BY <1>6 DEF vars
  <2>2. /\ result' \in [Jobs -> {None, "Success", "Failure", "killed"}]
        /\ lock' \in [Databases -> Jobs \cup {None}] /\ usable' \in [Jobs -> SUBSET Databases]
        /\ faults' \in 0..MaxFaults
    BY <2>1 DEF IInv, TypeOK, jobVars
  <2>3. /\ UNCHANGED <<next, dataVars, meta, known, retries, snapshot, overlaps>>
        /\ UNCHANGED <<result, lock, usable>> /\ Locks
    BY <2>1 DEF jobVars, Locks
  <2> QED BY <2>2, <2>3, IdleStep
<1> QED BY <1>1, <1>2, <1>3, <1>4, <1>5, <1>6 DEF Next

THEOREM BackupInvariant == Spec => []IInv
<1>1. Init => IInv
  BY InitInvariant
<1>2. IInv /\ [Next]_vars => IInv'
  BY StepInvariant
<1> QED BY <1>1, <1>2, PTL DEF Spec

(***************************************************************************)
(* What a successful backup has done.                                      *)
(***************************************************************************)

\* A job that ends in a success has gone through its whole plan.
LEMMA Finished ==
    ASSUME IInv, NEW j \in Jobs, result[j] = "Success"
    PROVE  /\ Taken(j)
           /\ \A x \in Forall, d \in ToSet(DatabasesOf[j]) : Past(j, x, d)
<1>1. next[j] = Len(Plan[j]) + 1 /\ Len(Plan[j]) \in Nat
  BY PlanOrder DEF IInv, Progress
<1>2. ASSUME NEW y \in Items(DatabasesOf[j]), y[1] \in Ranked PROVE Past(j, y[1], y[2])
  <2>1. PICK i \in 1..Len(Plan[j]) : Plan[j][i] = y
    BY <1>2, PlanOrder
  <2>2. y = <<y[1], y[2]>>
    BY DEF Items
  <2> QED BY <1>1, <2>1, <2>2 DEF Past
<1>3. Taken(j)
  <2> DEFINE y == <<"snapshot", None>>
  <2>1. y \in Items(DatabasesOf[j]) /\ y[1] \in Ranked /\ y[1] = "snapshot" /\ y[2] = None
    BY DEF Ranked, Items
  <2> HIDE DEF y
  <2> QED BY <1>2, <2>1 DEF Taken
<1>4. ASSUME NEW x \in Forall, NEW d \in ToSet(DatabasesOf[j]) PROVE Past(j, x, d)
  <2> DEFINE y == <<x, d>>
  <2>1. y \in Items(DatabasesOf[j]) /\ y[1] \in Ranked /\ y[1] = x /\ y[2] = d
    BY DEF Forall, Items
  <2> HIDE DEF y
  <2> QED BY <1>2, <2>1
<1> QED BY <1>3, <1>4

\* A backup that ends in a success, whatever other backups, users and lost
\* connections did, has a snapshot of one instant with every listed table as
\* the job measured it under its locks (BackupIsSound: the types, and
\* SuccessMeansConsistent).
THEOREM SnapshotsAreOfOneInstant == Spec => []BackupIsSound
<1>1. IInv => BackupIsSound
  <2> SUFFICES ASSUME IInv, NEW j \in Jobs, result[j] = "Success",
                      NEW d \in ToSet(DatabasesOf[j])
               PROVE  /\ snapshot[j][d].rows = known[j][d].files
                      /\ known[j][d].listed \subseteq snapshot[j][d].tables \cap known[j][d].schema
    BY DEF BackupIsSound, SuccessMeansConsistent, IInv
  <2>1. Taken(j) /\ Past(j, "export", d) /\ Sure(j, d) /\ d \in Databases
    BY Finished, RankedSteps, OwnDatabases DEF Sure
  <2>2. /\ snapshot[j][d].rows = known[j][d].files
        /\ known[j][d].listed \subseteq snapshot[j][d].tables
    BY <2>1 DEF IInv, OneInstant
  <2>3. known[j][d].listed \subseteq known[j][d].schema
    BY <2>1 DEF IInv, Exported
  <2> QED BY <2>2, <2>3
<1> QED BY <1>1, BackupInvariant, PTL

\* Unless a backup of one of its databases ran at the same time, its snapshot
\* holds the metadata that belongs to the files in it.
THEOREM SnapshotsHoldTheirMetadata == Spec => []SuccessMeansRestorable
<1>1. IInv => SuccessMeansRestorable
  BY Finished DEF SuccessMeansRestorable, IInv, StoredInSnapshot
<1> QED BY <1>1, BackupInvariant, PTL
=============================================================================
