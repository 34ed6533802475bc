------------------------------ MODULE BenchProofs ------------------------------
(***************************************************************************)
(* Proofs about a bench for any jobs of the seventeen kinds, in any        *)
(* combination, any sites, images, and any number of failures.             *)
(***************************************************************************)
EXTENDS Bench, SequenceTheorems, TLAPS

Steps ==
    {"init", "remove", "run", "list", "route", "user", "create", "drop user", "install",
     "download", "restore", "delete", "migrate site", "reinstall", "site on", "find",
     "site off", "rename", "drop site", "pull", "migrate", "commit", "image", "restart",
     "maintain", "recover sites", "read", "write", "stop", "start", "list unlocked",
     "route unlocked", "check", "gone", "move", "prune", "push"}

\* What is left of a plan from its i-th step.
From(plan, i) == SubSeq(plan, i, Len(plan))

\* A job goes through its plan step by step.
LEMMA Rest ==
    ASSUME NEW plan \in Seq(Steps), NEW i \in 1..Len(plan)
    PROVE  /\ From(plan, i) \in Seq(Steps) /\ From(plan, i) # <<>>
           /\ Head(From(plan, i)) = plan[i]
           /\ Tail(From(plan, i)) = IF i = Len(plan) THEN <<>> ELSE From(plan, i + 1)
<1>1. Len(plan) \in Nat /\ Len(plan) \in i..Len(plan) /\ plan[i] \in Steps
  BY LenProperties, ElementOfSeq
<1>2. \A k \in i..Len(plan) : plan[k] \in Steps
  BY <1>1, ElementOfSeq
<1>3. From(plan, i) \in Seq(Steps) /\ Len(From(plan, i)) = Len(plan) - i + 1
  BY <1>1, <1>2, SubSeqProperties DEF From
<1>4. /\ Head(From(plan, i)) = plan[i]
      /\ Tail(From(plan, i)) = From(plan, i + 1)
  BY <1>1, HeadTailOfSubSeq DEF From
<1>5. i = Len(plan) => From(plan, i + 1) = <<>>
  BY <1>1, SubSeqEmpty DEF From
<1>6. From(plan, i) # <<>>
  BY <1>1, <1>3, EmptySeq
<1> QED BY <1>3, <1>4, <1>5, <1>6

\* What the invariants need to know of the plans: which kinds of job have a
\* step, with which steps a plan begins and ends, and what follows a step.
StepOf(kind, a) ==
    /\ a \in Steps
    /\ a = "create" => kind \in {"new_site", "from_backup"}
    /\ a = "download" => kind \in {"restore_site", "from_backup"}
    /\ a \in {"find", "site off", "rename"} => kind = "rename"
    /\ a \in {"list unlocked", "route unlocked"} => kind = "code_server"
    /\ a = "image" => kind \in {"update", "recover"}
    /\ a \in {"pull", "migrate", "commit", "restart"} => kind = "update"
    /\ a \in {"maintain", "recover sites"} => kind = "recover"
    /\ a \in {"check", "gone", "move"} => kind = "archive_bench"
    /\ kind = "update" => a \in {"pull", "migrate", "commit", "image", "restart"}
    /\ kind = "recover" =>
          a \in {"image", "maintain", "remove", "run", "list", "route", "recover sites"}
    /\ kind = "rename" => a \in {"find", "site off", "rename", "list", "route", "site on"}

Naming == {"new_site", "from_backup", "rename"}
AsUser == {"create", "restore", "reinstall", "drop site"}

First(kind, a) ==
    /\ a \notin {"route", "route unlocked", "write", "drop user"} \cup AsUser
    /\ a = "image" => kind = "recover"
    /\ kind = "update" => a = "pull"
    /\ kind = "recover" => a = "image"
    /\ kind = "rename" => a = "find"
    /\ kind \in {"restore_site", "from_backup"} => a = "download"
    /\ kind \in Naming => a # "site on"

Last(kind, a) ==
    /\ a \notin {"list", "list unlocked", "user", "download"} \cup AsUser
    /\ kind \in Naming \cup {"restore_site"} => a \in {"route", "site on"}
    /\ kind = "update" => a = "restart"
    /\ kind = "recover" => a = "recover sites"
    /\ kind = "rename" => a = "site on"

Follows(kind, a, b) ==
    /\ a = "list" <=> b = "route"
    /\ a = "list unlocked" <=> b = "route unlocked"
    /\ a = "read" <=> b = "write"
    /\ a = "user" <=> b \in AsUser
    /\ a \in AsUser => b = "drop user"
    /\ kind \in Naming => (b = "site on" => a = "route") /\ a # "site on"
    /\ kind = "restore_site" /\ a = "user" => b = "restore"
    /\ kind \in {"restore_site", "from_backup"} =>
          /\ b # "download"
          /\ a \in {"download", "user", "create", "restore", "drop user"} =>
                b \in {"user", "create", "restore", "drop user", "delete"}
    /\ kind = "update" => <<a, b>> \in {<<"pull", "migrate">>, <<"migrate", "commit">>,
                                       <<"commit", "image">>, <<"image", "restart">>}
    /\ kind = "recover" =>
          <<a, b>> \in {<<"image", "maintain">>, <<"maintain", "remove">>, <<"remove", "run">>,
                        <<"run", "list">>, <<"list", "route">>, <<"route", "recover sites">>}
    /\ kind = "rename" =>
          <<a, b>> \in {<<"find", "site off">>, <<"site off", "rename">>, <<"rename", "list">>,
                        <<"list", "route">>, <<"route", "site on">>}

InOrder(kind, plan) ==
    /\ plan \in Seq(Steps) /\ Len(plan) >= 1
    /\ First(kind, plan[1])
    /\ Last(kind, plan[Len(plan)])
    /\ \A i \in 1..Len(plan) : StepOf(kind, plan[i])
    /\ \A i \in 1..Len(plan) : i < Len(plan) => Follows(kind, plan[i], plan[i + 1])

LEMMA PlansInOrder == \A kind \in JobKinds : InOrder(kind, Plan(kind))
<1> SUFFICES ASSUME NEW kind \in JobKinds PROVE InOrder(kind, Plan(kind))
  OBVIOUS
<1>1. CASE kind = "new_bench"
  <2> DEFINE P == <<"init", "remove", "run", "list", "route">>
  <2>1. Plan(kind) = P
    BY <1>1, Zenon DEF Plan
  <2>2. P \in Seq(Steps) /\ Len(P) = 5
    BY DEF Steps
  <2>3. P[1] = "init" /\ P[2] = "remove" /\ P[3] = "run" /\ P[4] = "list" /\ P[5] = "route"
    OBVIOUS
  <2> HIDE DEF P
  <2>4. ASSUME NEW i \in 1..5 PROVE StepOf(kind, P[i])
    <3>1. i = 1 \/ i = 2 \/ i = 3 \/ i = 4 \/ i = 5
      OBVIOUS
    <3> QED BY <1>1, <2>3, <3>1 DEF StepOf, Steps
  <2>5. ASSUME NEW i \in 1..5, i < 5 PROVE Follows(kind, P[i], P[i + 1])
    <3> DEFINE k == i + 1
    <3>1. (i = 1 /\ k = 2) \/ (i = 2 /\ k = 3) \/ (i = 3 /\ k = 4) \/ (i = 4 /\ k = 5)
      BY <2>5
    <3> HIDE DEF k
    <3>2. Follows(kind, P[i], P[k])
      BY <1>1, <2>3, <3>1 DEF Follows, AsUser, Naming
    <3> QED BY <3>2 DEF k
  <2>6. First(kind, P[1]) /\ Last(kind, P[5])
    BY <1>1, <2>3 DEF First, Last, AsUser, Naming
  <2> QED BY <2>1, <2>2, <2>4, <2>5, <2>6 DEF InOrder
<1>2. CASE kind = "new_site"
  <2> DEFINE P == <<"user", "create", "drop user", "install", "list", "route">>
  <2>1. Plan(kind) = P
    BY <1>2, Zenon DEF Plan
  <2>2. P \in Seq(Steps) /\ Len(P) = 6
    BY DEF Steps
  <2>3. P[1] = "user" /\ P[2] = "create" /\ P[3] = "drop user" /\ P[4] = "install" /\
      P[5] = "list" /\ P[6] = "route"
    OBVIOUS
  <2> HIDE DEF P
  <2>4. ASSUME NEW i \in 1..6 PROVE StepOf(kind, P[i])
    <3>1. i = 1 \/ i = 2 \/ i = 3 \/ i = 4 \/ i = 5 \/ i = 6
      OBVIOUS
    <3> QED BY <1>2, <2>3, <3>1 DEF StepOf, Steps
  <2>5. ASSUME NEW i \in 1..6, i < 6 PROVE Follows(kind, P[i], P[i + 1])
    <3> DEFINE k == i + 1
    <3>1. (i = 1 /\ k = 2) \/ (i = 2 /\ k = 3) \/ (i = 3 /\ k = 4) \/ (i = 4 /\ k = 5) \/
      (i = 5 /\ k = 6)
      BY <2>5
    <3> HIDE DEF k
    <3>2. Follows(kind, P[i], P[k])
      BY <1>2, <2>3, <3>1 DEF Follows, AsUser, Naming
    <3> QED BY <3>2 DEF k
  <2>6. First(kind, P[1]) /\ Last(kind, P[6])
    BY <1>2, <2>3 DEF First, Last, AsUser, Naming
  <2> QED BY <2>1, <2>2, <2>4, <2>5, <2>6 DEF InOrder
<1>3. CASE kind = "from_backup"
  <2> DEFINE P == <<"download", "user", "create", "drop user", "user", "restore",
                    "drop user", "delete", "migrate site", "list", "route">>
  <2>1. Plan(kind) = P
    BY <1>3, Zenon DEF Plan
  <2>2. P \in Seq(Steps) /\ Len(P) = 11
    BY DEF Steps
  <2>3. P[1] = "download" /\ P[2] = "user" /\ P[3] = "create" /\ P[4] = "drop user" /\
      P[5] = "user" /\ P[6] = "restore" /\ P[7] = "drop user" /\ P[8] = "delete" /\
      P[9] = "migrate site" /\ P[10] = "list" /\ P[11] = "route"
    OBVIOUS
  <2> HIDE DEF P
  <2>4. ASSUME NEW i \in 1..11 PROVE StepOf(kind, P[i])
    <3>1. i = 1 \/ i = 2 \/ i = 3 \/ i = 4 \/ i = 5 \/ i = 6 \/ i = 7 \/ i = 8 \/ i = 9 \/
      i = 10 \/ i = 11
      OBVIOUS
    <3> QED BY <1>3, <2>3, <3>1 DEF StepOf, Steps
  <2>5. ASSUME NEW i \in 1..11, i < 11 PROVE Follows(kind, P[i], P[i + 1])
    <3> DEFINE k == i + 1
    <3>1. (i = 1 /\ k = 2) \/ (i = 2 /\ k = 3) \/ (i = 3 /\ k = 4) \/ (i = 4 /\ k = 5) \/
      (i = 5 /\ k = 6) \/ (i = 6 /\ k = 7) \/ (i = 7 /\ k = 8) \/ (i = 8 /\ k = 9) \/
      (i = 9 /\ k = 10) \/ (i = 10 /\ k = 11)
      BY <2>5
    <3> HIDE DEF k
    <3>2. Follows(kind, P[i], P[k])
      BY <1>3, <2>3, <3>1 DEF Follows, AsUser, Naming
    <3> QED BY <3>2 DEF k
  <2>6. First(kind, P[1]) /\ Last(kind, P[11])
    BY <1>3, <2>3 DEF First, Last, AsUser, Naming
  <2> QED BY <2>1, <2>2, <2>4, <2>5, <2>6 DEF InOrder
<1>4. CASE kind = "restore_site"
  <2> DEFINE P == <<"download", "user", "restore", "drop user", "delete", "migrate site",
                    "list", "route">>
  <2>1. Plan(kind) = P
    BY <1>4, Zenon DEF Plan
  <2>2. P \in Seq(Steps) /\ Len(P) = 8
    BY DEF Steps
  <2>3. P[1] = "download" /\ P[2] = "user" /\ P[3] = "restore" /\ P[4] = "drop user" /\
      P[5] = "delete" /\ P[6] = "migrate site" /\ P[7] = "list" /\ P[8] = "route"
    OBVIOUS
  <2> HIDE DEF P
  <2>4. ASSUME NEW i \in 1..8 PROVE StepOf(kind, P[i])
    <3>1. i = 1 \/ i = 2 \/ i = 3 \/ i = 4 \/ i = 5 \/ i = 6 \/ i = 7 \/ i = 8
      OBVIOUS
    <3> QED BY <1>4, <2>3, <3>1 DEF StepOf, Steps
  <2>5. ASSUME NEW i \in 1..8, i < 8 PROVE Follows(kind, P[i], P[i + 1])
    <3> DEFINE k == i + 1
    <3>1. (i = 1 /\ k = 2) \/ (i = 2 /\ k = 3) \/ (i = 3 /\ k = 4) \/ (i = 4 /\ k = 5) \/
      (i = 5 /\ k = 6) \/ (i = 6 /\ k = 7) \/ (i = 7 /\ k = 8)
      BY <2>5
    <3> HIDE DEF k
    <3>2. Follows(kind, P[i], P[k])
      BY <1>4, <2>3, <3>1 DEF Follows, AsUser, Naming
    <3> QED BY <3>2 DEF k
  <2>6. First(kind, P[1]) /\ Last(kind, P[8])
    BY <1>4, <2>3 DEF First, Last, AsUser, Naming
  <2> QED BY <2>1, <2>2, <2>4, <2>5, <2>6 DEF InOrder
<1>5. CASE kind = "reinstall"
  <2> DEFINE P == <<"user", "reinstall", "drop user">>
  <2>1. Plan(kind) = P
    BY <1>5, Zenon DEF Plan
  <2>2. P \in Seq(Steps) /\ Len(P) = 3
    BY DEF Steps
  <2>3. P[1] = "user" /\ P[2] = "reinstall" /\ P[3] = "drop user"
    OBVIOUS
  <2> HIDE DEF P
  <2>4. ASSUME NEW i \in 1..3 PROVE StepOf(kind, P[i])
    <3>1. i = 1 \/ i = 2 \/ i = 3
      OBVIOUS
    <3> QED BY <1>5, <2>3, <3>1 DEF StepOf, Steps
  <2>5. ASSUME NEW i \in 1..3, i < 3 PROVE Follows(kind, P[i], P[i + 1])
    <3> DEFINE k == i + 1
    <3>1. (i = 1 /\ k = 2) \/ (i = 2 /\ k = 3)
      BY <2>5
    <3> HIDE DEF k
    <3>2. Follows(kind, P[i], P[k])
      BY <1>5, <2>3, <3>1 DEF Follows, AsUser, Naming
    <3> QED BY <3>2 DEF k
  <2>6. First(kind, P[1]) /\ Last(kind, P[3])
    BY <1>5, <2>3 DEF First, Last, AsUser, Naming
  <2> QED BY <2>1, <2>2, <2>4, <2>5, <2>6 DEF InOrder
<1>6. CASE kind = "migrate_site"
  <2> DEFINE P == <<"migrate site", "site on">>
  <2>1. Plan(kind) = P
    BY <1>6, Zenon DEF Plan
  <2>2. P \in Seq(Steps) /\ Len(P) = 2
    BY DEF Steps
  <2>3. P[1] = "migrate site" /\ P[2] = "site on"
    OBVIOUS
  <2> HIDE DEF P
  <2>4. ASSUME NEW i \in 1..2 PROVE StepOf(kind, P[i])
    <3>1. i = 1 \/ i = 2
      OBVIOUS
    <3> QED BY <1>6, <2>3, <3>1 DEF StepOf, Steps
  <2>5. ASSUME NEW i \in 1..2, i < 2 PROVE Follows(kind, P[i], P[i + 1])
    <3> DEFINE k == i + 1
    <3>1. (i = 1 /\ k = 2)
      BY <2>5
    <3> HIDE DEF k
    <3>2. Follows(kind, P[i], P[k])
      BY <1>6, <2>3, <3>1 DEF Follows, AsUser, Naming
    <3> QED BY <3>2 DEF k
  <2>6. First(kind, P[1]) /\ Last(kind, P[2])
    BY <1>6, <2>3 DEF First, Last, AsUser, Naming
  <2> QED BY <2>1, <2>2, <2>4, <2>5, <2>6 DEF InOrder
<1>7. CASE kind = "after_migrate"
  <2> DEFINE P == <<"list", "route", "site on">>
  <2>1. Plan(kind) = P
    BY <1>7, Zenon DEF Plan
  <2>2. P \in Seq(Steps) /\ Len(P) = 3
    BY DEF Steps
  <2>3. P[1] = "list" /\ P[2] = "route" /\ P[3] = "site on"
    OBVIOUS
  <2> HIDE DEF P
  <2>4. ASSUME NEW i \in 1..3 PROVE StepOf(kind, P[i])
    <3>1. i = 1 \/ i = 2 \/ i = 3
      OBVIOUS
    <3> QED BY <1>7, <2>3, <3>1 DEF StepOf, Steps
  <2>5. ASSUME NEW i \in 1..3, i < 3 PROVE Follows(kind, P[i], P[i + 1])
    <3> DEFINE k == i + 1
    <3>1. (i = 1 /\ k = 2) \/ (i = 2 /\ k = 3)
      BY <2>5
    <3> HIDE DEF k
    <3>2. Follows(kind, P[i], P[k])
      BY <1>7, <2>3, <3>1 DEF Follows, AsUser, Naming
    <3> QED BY <3>2 DEF k
  <2>6. First(kind, P[1]) /\ Last(kind, P[3])
    BY <1>7, <2>3 DEF First, Last, AsUser, Naming
  <2> QED BY <2>1, <2>2, <2>4, <2>5, <2>6 DEF InOrder
<1>8. CASE kind = "rename"
  <2> DEFINE P == <<"find", "site off", "rename", "list", "route", "site on">>
  <2>1. Plan(kind) = P
    BY <1>8, Zenon DEF Plan
  <2>2. P \in Seq(Steps) /\ Len(P) = 6
    BY DEF Steps
  <2>3. P[1] = "find" /\ P[2] = "site off" /\ P[3] = "rename" /\ P[4] = "list" /\
      P[5] = "route" /\ P[6] = "site on"
    OBVIOUS
  <2> HIDE DEF P
  <2>4. ASSUME NEW i \in 1..6 PROVE StepOf(kind, P[i])
    <3>1. i = 1 \/ i = 2 \/ i = 3 \/ i = 4 \/ i = 5 \/ i = 6
      OBVIOUS
    <3> QED BY <1>8, <2>3, <3>1 DEF StepOf, Steps
  <2>5. ASSUME NEW i \in 1..6, i < 6 PROVE Follows(kind, P[i], P[i + 1])
    <3> DEFINE k == i + 1
    <3>1. (i = 1 /\ k = 2) \/ (i = 2 /\ k = 3) \/ (i = 3 /\ k = 4) \/ (i = 4 /\ k = 5) \/
      (i = 5 /\ k = 6)
      BY <2>5
    <3> HIDE DEF k
    <3>2. Follows(kind, P[i], P[k])
      BY <1>8, <2>3, <3>1 DEF Follows, AsUser, Naming
    <3> QED BY <3>2 DEF k
  <2>6. First(kind, P[1]) /\ Last(kind, P[6])
    BY <1>8, <2>3 DEF First, Last, AsUser, Naming
  <2> QED BY <2>1, <2>2, <2>4, <2>5, <2>6 DEF InOrder
<1>9. CASE kind = "archive_site"
  <2> DEFINE P == <<"user", "drop site", "drop user", "list", "route">>
  <2>1. Plan(kind) = P
    BY <1>9, Zenon DEF Plan
  <2>2. P \in Seq(Steps) /\ Len(P) = 5
    BY DEF Steps
  <2>3. P[1] = "user" /\ P[2] = "drop site" /\ P[3] = "drop user" /\ P[4] = "list" /\
      P[5] = "route"
    OBVIOUS
  <2> HIDE DEF P
  <2>4. ASSUME NEW i \in 1..5 PROVE StepOf(kind, P[i])
    <3>1. i = 1 \/ i = 2 \/ i = 3 \/ i = 4 \/ i = 5
      OBVIOUS
    <3> QED BY <1>9, <2>3, <3>1 DEF StepOf, Steps
  <2>5. ASSUME NEW i \in 1..5, i < 5 PROVE Follows(kind, P[i], P[i + 1])
    <3> DEFINE k == i + 1
    <3>1. (i = 1 /\ k = 2) \/ (i = 2 /\ k = 3) \/ (i = 3 /\ k = 4) \/ (i = 4 /\ k = 5)
      BY <2>5
    <3> HIDE DEF k
    <3>2. Follows(kind, P[i], P[k])
      BY <1>9, <2>3, <3>1 DEF Follows, AsUser, Naming
    <3> QED BY <3>2 DEF k
  <2>6. First(kind, P[1]) /\ Last(kind, P[5])
    BY <1>9, <2>3 DEF First, Last, AsUser, Naming
  <2> QED BY <2>1, <2>2, <2>4, <2>5, <2>6 DEF InOrder
<1>10. CASE kind = "update"
  <2> DEFINE P == <<"pull", "migrate", "commit", "image", "restart">>
  <2>1. Plan(kind) = P
    BY <1>10, Zenon DEF Plan
  <2>2. P \in Seq(Steps) /\ Len(P) = 5
    BY DEF Steps
  <2>3. P[1] = "pull" /\ P[2] = "migrate" /\ P[3] = "commit" /\ P[4] = "image" /\
      P[5] = "restart"
    OBVIOUS
  <2> HIDE DEF P
  <2>4. ASSUME NEW i \in 1..5 PROVE StepOf(kind, P[i])
    <3>1. i = 1 \/ i = 2 \/ i = 3 \/ i = 4 \/ i = 5
      OBVIOUS
    <3> QED BY <1>10, <2>3, <3>1 DEF StepOf, Steps
  <2>5. ASSUME NEW i \in 1..5, i < 5 PROVE Follows(kind, P[i], P[i + 1])
    <3> DEFINE k == i + 1
    <3>1. (i = 1 /\ k = 2) \/ (i = 2 /\ k = 3) \/ (i = 3 /\ k = 4) \/ (i = 4 /\ k = 5)
      BY <2>5
    <3> HIDE DEF k
    <3>2. Follows(kind, P[i], P[k])
      BY <1>10, <2>3, <3>1 DEF Follows, AsUser, Naming
    <3> QED BY <3>2 DEF k
  <2>6. First(kind, P[1]) /\ Last(kind, P[5])
    BY <1>10, <2>3 DEF First, Last, AsUser, Naming
  <2> QED BY <2>1, <2>2, <2>4, <2>5, <2>6 DEF InOrder
<1>11. CASE kind = "recover"
  <2> DEFINE P == <<"image", "maintain", "remove", "run", "list", "route", "recover sites">>
  <2>1. Plan(kind) = P
    BY <1>11, Zenon DEF Plan
  <2>2. P \in Seq(Steps) /\ Len(P) = 7
    BY DEF Steps
  <2>3. P[1] = "image" /\ P[2] = "maintain" /\ P[3] = "remove" /\ P[4] = "run" /\
      P[5] = "list" /\ P[6] = "route" /\ P[7] = "recover sites"
    OBVIOUS
  <2> HIDE DEF P
  <2>4. ASSUME NEW i \in 1..7 PROVE StepOf(kind, P[i])
    <3>1. i = 1 \/ i = 2 \/ i = 3 \/ i = 4 \/ i = 5 \/ i = 6 \/ i = 7
      OBVIOUS
    <3> QED BY <1>11, <2>3, <3>1 DEF StepOf, Steps
  <2>5. ASSUME NEW i \in 1..7, i < 7 PROVE Follows(kind, P[i], P[i + 1])
    <3> DEFINE k == i + 1
    <3>1. (i = 1 /\ k = 2) \/ (i = 2 /\ k = 3) \/ (i = 3 /\ k = 4) \/ (i = 4 /\ k = 5) \/
      (i = 5 /\ k = 6) \/ (i = 6 /\ k = 7)
      BY <2>5
    <3> HIDE DEF k
    <3>2. Follows(kind, P[i], P[k])
      BY <1>11, <2>3, <3>1 DEF Follows, AsUser, Naming
    <3> QED BY <3>2 DEF k
  <2>6. First(kind, P[1]) /\ Last(kind, P[7])
    BY <1>11, <2>3 DEF First, Last, AsUser, Naming
  <2> QED BY <2>1, <2>2, <2>4, <2>5, <2>6 DEF InOrder
<1>12. CASE kind = "config"
  <2> DEFINE P == <<"read", "write", "list", "route", "remove", "run">>
  <2>1. Plan(kind) = P
    BY <1>12, Zenon DEF Plan
  <2>2. P \in Seq(Steps) /\ Len(P) = 6
    BY DEF Steps
  <2>3. P[1] = "read" /\ P[2] = "write" /\ P[3] = "list" /\ P[4] = "route" /\
      P[5] = "remove" /\ P[6] = "run"
    OBVIOUS
  <2> HIDE DEF P
  <2>4. ASSUME NEW i \in 1..6 PROVE StepOf(kind, P[i])
    <3>1. i = 1 \/ i = 2 \/ i = 3 \/ i = 4 \/ i = 5 \/ i = 6
      OBVIOUS
    <3> QED BY <1>12, <2>3, <3>1 DEF StepOf, Steps
  <2>5. ASSUME NEW i \in 1..6, i < 6 PROVE Follows(kind, P[i], P[i + 1])
    <3> DEFINE k == i + 1
    <3>1. (i = 1 /\ k = 2) \/ (i = 2 /\ k = 3) \/ (i = 3 /\ k = 4) \/ (i = 4 /\ k = 5) \/
      (i = 5 /\ k = 6)
      BY <2>5
    <3> HIDE DEF k
    <3>2. Follows(kind, P[i], P[k])
      BY <1>12, <2>3, <3>1 DEF Follows, AsUser, Naming
    <3> QED BY <3>2 DEF k
  <2>6. First(kind, P[1]) /\ Last(kind, P[6])
    BY <1>12, <2>3 DEF First, Last, AsUser, Naming
  <2> QED BY <2>1, <2>2, <2>4, <2>5, <2>6 DEF InOrder
<1>13. CASE kind = "limits"
  <2> DEFINE P == <<"stop", "start">>
  <2>1. Plan(kind) = P
    BY <1>13, Zenon DEF Plan
  <2>2. P \in Seq(Steps) /\ Len(P) = 2
    BY DEF Steps
  <2>3. P[1] = "stop" /\ P[2] = "start"
    OBVIOUS
  <2> HIDE DEF P
  <2>4. ASSUME NEW i \in 1..2 PROVE StepOf(kind, P[i])
    <3>1. i = 1 \/ i = 2
      OBVIOUS
    <3> QED BY <1>13, <2>3, <3>1 DEF StepOf, Steps
  <2>5. ASSUME NEW i \in 1..2, i < 2 PROVE Follows(kind, P[i], P[i + 1])
    <3> DEFINE k == i + 1
    <3>1. (i = 1 /\ k = 2)
      BY <2>5
    <3> HIDE DEF k
    <3>2. Follows(kind, P[i], P[k])
      BY <1>13, <2>3, <3>1 DEF Follows, AsUser, Naming
    <3> QED BY <3>2 DEF k
  <2>6. First(kind, P[1]) /\ Last(kind, P[2])
    BY <1>13, <2>3 DEF First, Last, AsUser, Naming
  <2> QED BY <2>1, <2>2, <2>4, <2>5, <2>6 DEF InOrder
<1>14. CASE kind = "code_server"
  <2> DEFINE P == <<"list unlocked", "route unlocked">>
  <2>1. Plan(kind) = P
    BY <1>14, Zenon DEF Plan
  <2>2. P \in Seq(Steps) /\ Len(P) = 2
    BY DEF Steps
  <2>3. P[1] = "list unlocked" /\ P[2] = "route unlocked"
    OBVIOUS
  <2> HIDE DEF P
  <2>4. ASSUME NEW i \in 1..2 PROVE StepOf(kind, P[i])
    <3>1. i = 1 \/ i = 2
      OBVIOUS
    <3> QED BY <1>14, <2>3, <3>1 DEF StepOf, Steps
  <2>5. ASSUME NEW i \in 1..2, i < 2 PROVE Follows(kind, P[i], P[i + 1])
    <3> DEFINE k == i + 1
    <3>1. (i = 1 /\ k = 2)
      BY <2>5
    <3> HIDE DEF k
    <3>2. Follows(kind, P[i], P[k])
      BY <1>14, <2>3, <3>1 DEF Follows, AsUser, Naming
    <3> QED BY <3>2 DEF k
  <2>6. First(kind, P[1]) /\ Last(kind, P[2])
    BY <1>14, <2>3 DEF First, Last, AsUser, Naming
  <2> QED BY <2>1, <2>2, <2>4, <2>5, <2>6 DEF InOrder
<1>15. CASE kind = "archive_bench"
  <2> DEFINE P == <<"check", "remove", "gone", "move">>
  <2>1. Plan(kind) = P
    BY <1>15, Zenon DEF Plan
  <2>2. P \in Seq(Steps) /\ Len(P) = 4
    BY DEF Steps
  <2>3. P[1] = "check" /\ P[2] = "remove" /\ P[3] = "gone" /\ P[4] = "move"
    OBVIOUS
  <2> HIDE DEF P
  <2>4. ASSUME NEW i \in 1..4 PROVE StepOf(kind, P[i])
    <3>1. i = 1 \/ i = 2 \/ i = 3 \/ i = 4
      OBVIOUS
    <3> QED BY <1>15, <2>3, <3>1 DEF StepOf, Steps
  <2>5. ASSUME NEW i \in 1..4, i < 4 PROVE Follows(kind, P[i], P[i + 1])
    <3> DEFINE k == i + 1
    <3>1. (i = 1 /\ k = 2) \/ (i = 2 /\ k = 3) \/ (i = 3 /\ k = 4)
      BY <2>5
    <3> HIDE DEF k
    <3>2. Follows(kind, P[i], P[k])
      BY <1>15, <2>3, <3>1 DEF Follows, AsUser, Naming
    <3> QED BY <3>2 DEF k
  <2>6. First(kind, P[1]) /\ Last(kind, P[4])
    BY <1>15, <2>3 DEF First, Last, AsUser, Naming
  <2> QED BY <2>1, <2>2, <2>4, <2>5, <2>6 DEF InOrder
<1>16. CASE kind = "cleanup"
  <2> DEFINE P == <<"prune">>
  <2>1. Plan(kind) = P
    BY <1>16, Zenon DEF Plan
  <2>2. P \in Seq(Steps) /\ Len(P) = 1
    BY DEF Steps
  <2>3. P[1] = "prune"
    OBVIOUS
  <2> HIDE DEF P
  <2>4. ASSUME NEW i \in 1..1 PROVE StepOf(kind, P[i])
    <3>1. i = 1
      OBVIOUS
    <3> QED BY <1>16, <2>3, <3>1 DEF StepOf, Steps
  <2>5. ASSUME NEW i \in 1..1, i < 1 PROVE Follows(kind, P[i], P[i + 1])
    BY <2>5
  <2>6. First(kind, P[1]) /\ Last(kind, P[1])
    BY <1>16, <2>3 DEF First, Last, AsUser, Naming
  <2> QED BY <2>1, <2>2, <2>4, <2>5, <2>6 DEF InOrder
<1>17. CASE kind = "push"
  <2> DEFINE P == <<"push">>
  <2>1. Plan(kind) = P
    BY <1>17, Zenon DEF Plan
  <2>2. P \in Seq(Steps) /\ Len(P) = 1
    BY DEF Steps
  <2>3. P[1] = "push"
    OBVIOUS
  <2> HIDE DEF P
  <2>4. ASSUME NEW i \in 1..1 PROVE StepOf(kind, P[i])
    <3>1. i = 1
      OBVIOUS
    <3> QED BY <1>17, <2>3, <3>1 DEF StepOf, Steps
  <2>5. ASSUME NEW i \in 1..1, i < 1 PROVE Follows(kind, P[i], P[i + 1])
    BY <2>5
  <2>6. First(kind, P[1]) /\ Last(kind, P[1])
    BY <1>17, <2>3 DEF First, Last, AsUser, Naming
  <2> QED BY <2>1, <2>2, <2>4, <2>5, <2>6 DEF InOrder
<1> QED BY <1>1, <1>2, <1>3, <1>4, <1>5, <1>6, <1>7, <1>8, <1>9, <1>10,
           <1>11, <1>12, <1>13, <1>14, <1>15, <1>16, <1>17 DEF JobKinds

-----------------------------------------------------------------------------
(* The inductive invariant.                                                *)

\* Functions have their domains, the lock and the marks belong to jobs.
Shapes ==
    /\ todo = [j \in Jobs |-> todo[j]] /\ saw = [j \in Jobs |-> saw[j]]
    /\ codeOf \in [Images -> Images \cup {None}]
    /\ nginxLock \in Jobs \cup {None}
    /\ \A j \in failing : j \in Jobs /\ result[j] \in {"running", "killed", "Failure"}
    /\ \A j \in overlaps \cup clean : j \in Jobs /\ result[j] \notin {"unordered", "queued"}

\* A job has the rest of its plan before it, or the end of a finally.
Cleanups == {<<"drop user">>, <<"drop user", "delete">>, <<"delete">>}
OnPlan(j) ==
    IF j \in failing THEN todo[j] \in Cleanups
    ELSE \E i \in 1..Len(Plan(Kind[j])) : todo[j] = From(Plan(Kind[j]), i)
Planned == \A j \in Jobs : Running(j) => OnPlan(j)

\* The lock is held from "list" to "route".
LockHeld == \A j \in Jobs : At(j, "route") <=> nginxLock = j

\* What has been read is there to be written.
Built == {i \in Images : codeOf[i] # None}
SawWhatItUses ==
    \A j \in Jobs :
        /\ At(j, "route") \/ At(j, "route unlocked") => saw[j] \subseteq Sites
        /\ At(j, "write") => saw[j] \in Built
        /\ At(j, "site off") \/ At(j, "rename") => saw[j] \in {SiteOf[j], NameOf[j]}

\* Every image that can be run holds code, those of the registry their own.
ImagesHoldCode ==
    /\ image \in Built /\ local \cup registry \subseteq Built
    /\ container # None => container.image \in Built
    /\ \A i \in FirstImages : codeOf[i] = i
    /\ \A j \in Jobs : At(j, "image") => ImageOf[j] \in Built

\* A named site is in the list that its job writes, then in the file and in
\* every list that another job is about to write.
Undisturbed(j) ==
    \A k \in Jobs \ {j} :
        Kind[k] = "code_server" \/ Names(k, NameOf[j]) => result[k] \in {"unordered", "queued"}
HasRouted(j) == result[j] = "Success" \/ At(j, "site on")
ListsKeepNames ==
    \A j \in Jobs :
        Kind[j] \in Naming /\ Undisturbed(j) /\ site[NameOf[j]] = "ok" =>
            /\ At(j, "route") => NameOf[j] \in saw[j]
            /\ HasRouted(j) => /\ NameOf[j] \in routed
                               /\ \A k \in Jobs : At(k, "route") => NameOf[j] \in saw[k]

\* Whatever is temporary has a job that will remove it.
UsesUser(j) == Running(j) /\ Head(todo[j]) \in AsUser \cup {"drop user"}
UsesFiles(j) ==
    \/ result[j] = "killed"
    \/ Kind[j] = "from_backup" /\ (result[j] = "Failure" \/ (Running(j) /\ j \in failing))
    \/ /\ Running(j) /\ Kind[j] \in {"restore_site", "from_backup"}
       /\ Head(todo[j]) \in {"user", "create", "restore", "drop user", "delete"}
       /\ j \in failing => todo[j] # <<"drop user">>
Removable ==
    /\ \A s \in Sites : <<s, "user">> \in leftovers =>
          \E j \in Jobs : SiteOf[j] = s /\ (result[j] = "killed" \/ UsesUser(j))
    /\ \A j \in Jobs : <<j, "download">> \in leftovers => UsesFiles(j)

\* Two jobs that run beside each other overlap.
OverlapsSeen == \A j, k \in Jobs : j # k /\ Running(j) /\ Running(k) => j \in overlaps

\* How far an update, a recovery or a renaming has come that runs alone.
HasNew(j)  == container # None /\ container.code = ImageOf[j]
Migrated   == \A s \in Readable : migrated[s] \in {container.code, None}
UpdateAt(j) ==
    /\ At(j, "pull") => Consistent
    /\ At(j, "migrate") => HasNew(j)
    /\ At(j, "commit") => HasNew(j) /\ Migrated
    /\ At(j, "image") => HasNew(j) /\ Migrated /\ codeOf[ImageOf[j]] = ImageOf[j]
    /\ At(j, "restart") => HasNew(j) /\ Consistent
RunsImage == container # None /\ container.code = codeOf[image] /\ container.up
RecoveryAt(j) ==
    /\ Running(j) /\ Head(todo[j]) # "image" => image = ImageOf[j]
    /\ At(j, "list") \/ At(j, "route") \/ At(j, "recover sites") => RunsImage
RenameAt(j) ==
    /\ At(j, "site off") \/ At(j, "rename") => site[saw[j]] = "ok"
    /\ At(j, "list") \/ At(j, "route") \/ At(j, "site on") => site[NameOf[j]] = "ok"
    /\ At(j, "route") => NameOf[j] \in saw[j]
    /\ At(j, "site on") => NameOf[j] \in routed
Progress ==
    \A j \in Jobs \ overlaps : Running(j) =>
        /\ Kind[j] = "update" /\ j \in clean => UpdateAt(j)
        /\ Kind[j] = "recover" => RecoveryAt(j)
        /\ Kind[j] = "rename" => RenameAt(j)

IInv ==
    /\ TypeOK /\ Shapes /\ Planned
    /\ LockHeld /\ SawWhatItUses /\ ImagesHoldCode
    /\ ListsKeepNames /\ Removable /\ OverlapsSeen /\ Progress

-----------------------------------------------------------------------------
(* What a step does with its job.                                          *)

\* Only the job moves, along its plan or to the end of a finally.
OnlyMoves(j) ==
    /\ \A k \in Jobs \ {j} : /\ result'[k] = result[k] /\ todo'[k] = todo[k]
                             /\ k \in failing' <=> k \in failing
    /\ failing \subseteq failing' /\ failing' \subseteq failing \cup {j}
    /\ result' \in [Jobs -> {"unordered", "queued", "running", "killed", "Success", "Failure"}]
    /\ todo' = [k \in Jobs |-> todo'[k]]
    /\ result'[j] \notin {"unordered", "queued"}
    /\ result'[j] = "running" <=> todo'[j] # <<>>
    /\ result'[j] = "running" => OnPlan(j)'
    /\ j \in failing' => result'[j] \in {"running", "killed", "Failure"}

LEMMA Kinds == \A j \in Jobs : Kind[j] \in JobKinds /\ InOrder(Kind[j], Plan(Kind[j]))
BY BenchAssumption, PlansInOrder

LEMMA CleanupHeads ==
    \A steps \in Cleanups :
        /\ steps # <<>> /\ Head(steps) \in {"drop user", "delete"}
        /\ \/ Tail(steps) = <<>>
           \/ steps = <<"drop user", "delete">> /\ Tail(steps) = <<"delete">>
<1>1. /\ <<"drop user">> # <<>> /\ Head(<<"drop user">>) = "drop user"
      /\ Tail(<<"drop user">>) = <<>>
  OBVIOUS
<1>2. /\ <<"delete">> # <<>> /\ Head(<<"delete">>) = "delete" /\ Tail(<<"delete">>) = <<>>
  OBVIOUS
<1>3. /\ <<"drop user", "delete">> # <<>> /\ Head(<<"drop user", "delete">>) = "drop user"
      /\ Tail(<<"drop user", "delete">>) = <<"delete">>
  OBVIOUS
<1> QED BY <1>1, <1>2, <1>3, Zenon DEF Cleanups

\* The step that a job is about to take.
LEMMA Heads ==
    ASSUME TypeOK, Planned, NEW j \in Jobs, Running(j)
    PROVE  /\ todo[j] # <<>> /\ Head(todo[j]) \in Steps
           /\ j \notin failing => StepOf(Kind[j], Head(todo[j]))
           /\ j \in failing => Head(todo[j]) \in {"drop user", "delete"}
<1>1. CASE j \in failing
  <2>1. todo[j] \in Cleanups
    BY <1>1 DEF Planned, OnPlan
  <2>2. todo[j] # <<>> /\ Head(todo[j]) \in {"drop user", "delete"}
    BY <2>1, CleanupHeads
  <2> QED BY <1>1, <2>2 DEF Steps
<1>2. CASE j \notin failing
  <2>1. PICK i \in 1..Len(Plan(Kind[j])) : todo[j] = From(Plan(Kind[j]), i)
    BY <1>2 DEF Planned, OnPlan
  <2>2. Plan(Kind[j]) \in Seq(Steps) /\ StepOf(Kind[j], Plan(Kind[j])[i])
    BY Kinds DEF InOrder
  <2>3. todo[j] # <<>> /\ Head(todo[j]) = Plan(Kind[j])[i]
    BY <2>1, <2>2, Rest
  <2> QED BY <1>2, <2>2, <2>3 DEF StepOf
<1> QED BY <1>1, <1>2

LEMMA Advances ==
    ASSUME TypeOK, Shapes, Planned, NEW j \in Jobs, Running(j), Advance(j)
    PROVE  /\ OnlyMoves(j) /\ failing' = failing
           /\ j \notin failing =>
                 \/ result'[j] = "Success" /\ Last(Kind[j], Head(todo[j]))
                 \/ /\ result'[j] = "running"
                    /\ Follows(Kind[j], Head(todo[j]), Head(todo'[j]))
                    /\ StepOf(Kind[j], Head(todo'[j]))
           /\ j \in failing =>
                 \/ result'[j] = "Failure" /\ todo[j] # <<"drop user", "delete">>
                 \/ /\ result'[j] = "running"
                    /\ todo[j] = <<"drop user", "delete">> /\ todo'[j] = <<"delete">>
<1>1. /\ todo' = [todo EXCEPT ![j] = Tail(todo[j])] /\ failing' = failing
      /\ result' = [result EXCEPT ![j] = IF Tail(todo[j]) # <<>> THEN "running"
                                         ELSE IF j \in failing THEN "Failure" ELSE "Success"]
  BY DEF Advance, Then, Running, TypeOK
<1>2. /\ result'[j] = IF Tail(todo[j]) # <<>> THEN "running"
                      ELSE IF j \in failing THEN "Failure" ELSE "Success"
      /\ todo'[j] = Tail(todo[j])
      /\ \A k \in Jobs \ {j} : result'[k] = result[k] /\ todo'[k] = todo[k]
      /\ result' \in [Jobs -> {"unordered", "queued", "running", "killed", "Success", "Failure"}]
      /\ todo' = [k \in Jobs |-> todo'[k]]
  BY <1>1 DEF TypeOK, Shapes
<1>3. CASE j \in failing
  <2>1. todo[j] \in Cleanups
    BY <1>3 DEF Planned, OnPlan
  <2>2. \/ Tail(todo[j]) = <<>>
        \/ todo[j] = <<"drop user", "delete">> /\ Tail(todo[j]) = <<"delete">>
    BY <2>1, CleanupHeads
  <2>3. Tail(todo[j]) # <<>> => Tail(todo[j]) \in Cleanups
    BY <2>2 DEF Cleanups
  <2>4. OnlyMoves(j)
    BY <1>1, <1>2, <1>3, <2>3 DEF OnlyMoves, OnPlan
  <2>5. Tail(todo[j]) = <<>> => todo[j] # <<"drop user", "delete">>
    <3>1. Tail(<<"drop user", "delete">>) # <<>>
      OBVIOUS
    <3> QED BY <3>1, Zenon
  <2> QED BY <1>1, <1>2, <1>3, <2>2, <2>4, <2>5
<1>4. CASE j \notin failing
  <2> DEFINE P == Plan(Kind[j])
  <2>1. PICK i \in 1..Len(P) : todo[j] = From(P, i)
    BY <1>4 DEF Planned, OnPlan
  <2>2. /\ P \in Seq(Steps) /\ Last(Kind[j], P[Len(P)])
        /\ i < Len(P) => Follows(Kind[j], P[i], P[i + 1])
        /\ \A k \in 1..Len(P) : StepOf(Kind[j], P[k])
    BY Kinds DEF InOrder
  <2>3. /\ Head(todo[j]) = P[i]
        /\ Tail(todo[j]) = IF i = Len(P) THEN <<>> ELSE From(P, i + 1)
    <3>1. P \in Seq(Steps)
      BY <2>2
    <3> HIDE DEF P
    <3> QED BY <2>1, <3>1, Rest
  <2>4. CASE i = Len(P)
    <3>1. OnlyMoves(j)
      BY <1>1, <1>2, <1>4, <2>3, <2>4 DEF OnlyMoves
    <3> QED BY <1>1, <1>2, <1>4, <2>2, <2>3, <2>4, <3>1
  <2>5. CASE i # Len(P)
    <3>1. i + 1 \in 1..Len(P) /\ i < Len(P)
      BY <2>2, <2>5, LenProperties
    <3>2. From(P, i + 1) # <<>> /\ Head(From(P, i + 1)) = P[i + 1]
      BY <2>2, <3>1, Rest
    <3>3. OnPlan(j)'
      BY <1>1, <1>2, <1>4, <2>3, <2>5, <3>1 DEF OnPlan
    <3>4. OnlyMoves(j)
      BY <1>1, <1>2, <1>4, <2>3, <2>5, <3>2, <3>3 DEF OnlyMoves
    <3>5. /\ result'[j] = "running" /\ failing' = failing /\ Head(todo'[j]) = P[i + 1]
      BY <1>1, <1>2, <2>3, <2>5, <3>2
    <3>6. Follows(Kind[j], P[i], P[i + 1]) /\ StepOf(Kind[j], P[i + 1])
      BY <2>2, <3>1
    <3> HIDE DEF P
    <3> QED BY <1>4, <2>3, <3>4, <3>5, <3>6
  <2> QED BY <2>4, <2>5
<1> QED BY <1>3, <1>4

LEMMA NextIndex == \A n \in Nat : \A i \in 1..n : i # n => i + 1 \in 1..n /\ i < n
OBVIOUS

LEMMA Raises ==
    ASSUME TypeOK, Shapes, Planned, NEW j \in Jobs, Running(j), RaiseIn(j),
           Head(todo[j]) \notin {"drop user", "delete"}
    PROVE  /\ OnlyMoves(j) /\ j \notin failing /\ j \in failing'
           /\ \/ /\ result'[j] = "Failure" /\ Head(todo[j]) \notin AsUser
                 /\ ~(Kind[j] = "restore_site" /\ Head(todo[j]) = "user")
              \/ /\ result'[j] = "running" /\ todo'[j] = <<"drop user">>
                 /\ Head(todo[j]) \in AsUser \ {"restore"}
              \/ /\ result'[j] = "running" /\ todo'[j] = <<"drop user", "delete">>
                 /\ Head(todo[j]) = "restore"
              \/ /\ result'[j] = "running" /\ todo'[j] = <<"delete">>
                 /\ Head(todo[j]) = "user"
<1> DEFINE a == Head(todo[j])
           steps == Finally(todo[j])
<1>1. j \notin failing /\ failing' = failing \cup {j}
  BY Heads DEF RaiseIn
<1>2. /\ result'[j] = (IF steps = <<>> THEN "Failure" ELSE "running") /\ todo'[j] = steps
      /\ \A k \in Jobs \ {j} : result'[k] = result[k] /\ todo'[k] = todo[k]
      /\ result' \in [Jobs -> {"unordered", "queued", "running", "killed", "Success", "Failure"}]
      /\ todo' = [k \in Jobs |-> todo'[k]]
  <2> HIDE DEF steps
  <2>1. /\ todo' = [todo EXCEPT ![j] = steps]
        /\ result' = [result EXCEPT ![j] = IF steps = <<>> THEN "Failure" ELSE "running"]
    BY DEF RaiseIn, Running, TypeOK, steps
  <2> QED BY <2>1 DEF TypeOK, Shapes
<1>3. \/ steps = <<>> /\ a \notin AsUser /\ ~(a = "user" /\ Head(Tail(todo[j])) = "restore")
      \/ steps = <<"drop user">> /\ a \in AsUser \ {"restore"}
      \/ steps = <<"drop user", "delete">> /\ a = "restore"
      \/ steps = <<"delete">> /\ a = "user"
  BY DEF Finally, AsUser
<1>4. Kind[j] = "restore_site" /\ a = "user" => Head(Tail(todo[j])) = "restore"
  <2> SUFFICES ASSUME Kind[j] = "restore_site", a = "user"
               PROVE  Head(Tail(todo[j])) = "restore"
    OBVIOUS
  <2> DEFINE P == Plan(Kind[j])
  <2>1. PICK i \in 1..Len(P) : todo[j] = From(P, i)
    BY <1>1 DEF Planned, OnPlan
  <2>2. /\ P \in Seq(Steps) /\ Last(Kind[j], P[Len(P)])
        /\ i < Len(P) => Follows(Kind[j], P[i], P[i + 1])
    BY Kinds DEF InOrder
  <2>3. /\ P[i] = "user"
        /\ Tail(todo[j]) = IF i = Len(P) THEN <<>> ELSE From(P, i + 1)
    <3>1. P \in Seq(Steps)
      BY <2>2
    <3> HIDE DEF P
    <3> QED BY <2>1, <3>1, Rest
  <2>4. i # Len(P)
    BY <2>2, <2>3 DEF Last
  <2>5. i + 1 \in 1..Len(P) /\ i < Len(P)
    <3>2. Len(P) \in Nat
      BY <2>2, LenProperties
    <3>3. i \in 1..Len(P) /\ i # Len(P)
      BY <2>4
    <3> HIDE DEF P
    <3> QED BY NextIndex, <3>2, <3>3, Zenon
  <2>6. Head(From(P, i + 1)) = P[i + 1]
    BY <2>2, <2>5, Rest
  <2> QED BY <2>2, <2>3, <2>4, <2>5, <2>6 DEF Follows
<1>5. steps # <<>> => steps \in Cleanups
  BY <1>3 DEF Cleanups
<1>6. OnlyMoves(j)
  <2> HIDE DEF steps
  <2> QED BY <1>1, <1>2, <1>5 DEF OnlyMoves, OnPlan
<1>7. /\ steps = <<>> => result'[j] = "Failure"
      /\ steps # <<>> => result'[j] = "running" /\ todo'[j] = steps
  <2> HIDE DEF steps
  <2> QED BY <1>2
<1>8. CASE steps = <<>> /\ a \notin AsUser /\ ~(a = "user" /\ Head(Tail(todo[j])) = "restore")
  <2> HIDE DEF steps
  <2> QED BY <1>1, <1>4, <1>6, <1>7, <1>8
<1>9. CASE steps = <<"drop user">> /\ a \in AsUser \ {"restore"}
  <2> HIDE DEF steps
  <2> QED BY <1>1, <1>6, <1>7, <1>9
<1>10. CASE steps = <<"drop user", "delete">> /\ a = "restore"
  <2> HIDE DEF steps
  <2> QED BY <1>1, <1>6, <1>7, <1>10
<1>11. CASE steps = <<"delete">> /\ a = "user"
  <2> HIDE DEF steps
  <2> QED BY <1>1, <1>6, <1>7, <1>11
<1> QED BY <1>3, <1>8, <1>9, <1>10, <1>11

-----------------------------------------------------------------------------
(* What each part of the invariant needs of a step.                        *)

DataOK ==
    /\ directory \in BOOLEAN /\ conf \in {"missing", "broken", "ok"} /\ image \in Images
    /\ container # None => container \in [image : Images, code : Images, up : BOOLEAN]
    /\ local \subseteq Images /\ registry \subseteq Images
    /\ site \in [Sites -> {"none", "partial", "ok"}] /\ migrated \in [Sites -> Images \cup {None}]
    /\ maintenance \subseteq Sites /\ routed \subseteq Sites
    /\ codeOf \in [Images -> Images \cup {None}]

JobAt(j) ==
    Running(j) /\ j \notin overlaps =>
        /\ Kind[j] = "update" /\ j \in clean => UpdateAt(j)
        /\ Kind[j] = "recover" => RecoveryAt(j)
        /\ Kind[j] = "rename" => RenameAt(j)

\* What updates, recoveries and renamings leave, as formulas about a step.
Complete(j) ==
    /\ Ends(j, "update") /\ j \in clean => Consistent' /\ container'.code = ImageOf[j]
    /\ Ends(j, "recover") /\ ImageOf[j] \in FirstImages =>
          Consistent' /\ Up' /\ image' = ImageOf[j] /\ maintenance' \cap Readable' = {}
    /\ Ends(j, "rename") => site'[NameOf[j]] = "ok" /\ NameOf[j] \in routed' \ maintenance'
Kept == IInv' /\ \A j \in Jobs : Complete(j)

\* The job takes the step a and comes to the next one or to its end.
Goes(j, a) ==
    /\ j \in Jobs /\ At(j, a) /\ OnlyMoves(j) /\ failing' = failing /\ UNCHANGED atStart
    /\ j \notin failing =>
          /\ StepOf(Kind[j], a)
          /\ \/ result'[j] = "Success" /\ (Last(Kind[j], a) \/ a = "pull")
             \/ /\ result'[j] = "running" /\ Follows(Kind[j], a, Head(todo'[j]))
                /\ StepOf(Kind[j], Head(todo'[j]))
    /\ j \in failing =>
          /\ a \in {"drop user", "delete"}
          /\ \/ result'[j] = "Failure" /\ todo[j] # <<"drop user", "delete">>
             \/ /\ result'[j] = "running" /\ a = "drop user"
                /\ todo[j] = <<"drop user", "delete">> /\ todo'[j] = <<"delete">>

\* The job fails, with what a finally still does, or is killed.
Stops(j) ==
    /\ j \in Jobs /\ Running(j) /\ OnlyMoves(j) /\ UNCHANGED atStart
    /\ \/ result'[j] = "killed" /\ failing' = failing
       \/ /\ j \notin failing /\ j \in failing' /\ Head(todo[j]) \in Steps
          /\ Head(todo[j]) \notin {"drop user", "delete"} /\ StepOf(Kind[j], Head(todo[j]))
          /\ \/ /\ result'[j] = "Failure" /\ Head(todo[j]) \notin AsUser
                /\ ~(Kind[j] = "restore_site" /\ Head(todo[j]) = "user")
             \/ /\ result'[j] = "running" /\ todo'[j] = <<"drop user">>
                /\ Head(todo[j]) \in AsUser \ {"restore"}
             \/ /\ result'[j] = "running" /\ todo'[j] = <<"drop user", "delete">>
                /\ Head(todo[j]) = "restore"
             \/ /\ result'[j] = "running" /\ todo'[j] = <<"delete">>
                /\ Head(todo[j]) = "user"

LEMMA Going ==
    ASSUME IInv, NEW j \in Jobs, NEW a, At(j, a), Advance(j), UNCHANGED atStart
    PROVE  Goes(j, a)
<1>1. Running(j) /\ Head(todo[j]) = a
  BY DEF At
<1>2. /\ OnlyMoves(j) /\ failing' = failing
      /\ j \notin failing =>
            \/ result'[j] = "Success" /\ Last(Kind[j], a)
            \/ /\ result'[j] = "running" /\ Follows(Kind[j], a, Head(todo'[j]))
               /\ StepOf(Kind[j], Head(todo'[j]))
      /\ j \in failing =>
            \/ result'[j] = "Failure" /\ todo[j] # <<"drop user", "delete">>
            \/ /\ result'[j] = "running"
               /\ todo[j] = <<"drop user", "delete">> /\ todo'[j] = <<"delete">>
  BY <1>1, Advances, Zenon DEF IInv
<1>3. /\ j \notin failing => StepOf(Kind[j], a)
      /\ j \in failing => a \in {"drop user", "delete"}
  BY <1>1, Heads, Zenon DEF IInv
<1>4. todo[j] = <<"drop user", "delete">> => a = "drop user"
  <2>1. Head(<<"drop user", "delete">>) = "drop user"
    OBVIOUS
  <2> QED BY <1>1, <2>1, Zenon
<1> QED BY <1>2, <1>3, <1>4, Zenon DEF Goes

LEMMA Raising ==
    ASSUME IInv, NEW j \in Jobs, Running(j), RaiseIn(j), UNCHANGED atStart,
           Head(todo[j]) \notin {"drop user", "delete"}
    PROVE  Stops(j)
<1>1. TypeOK /\ Shapes /\ Planned
  BY DEF IInv
<1>2. j \notin failing /\ j \in failing' /\ OnlyMoves(j)
  BY <1>1, Raises
<1>3. Head(todo[j]) \in Steps /\ StepOf(Kind[j], Head(todo[j]))
  BY <1>1, <1>2, Heads
<1> QED BY <1>1, <1>2, <1>3, Raises, Zenon DEF Stops

\* The jobs that an action does not take stay where they are.
LEMMA Others ==
    ASSUME NEW j \in Jobs, OnlyMoves(j), NEW k \in Jobs, k # j
    PROVE  /\ result'[k] = result[k] /\ todo'[k] = todo[k] /\ (k \in failing' <=> k \in failing)
           /\ Running(k)' <=> Running(k)
           /\ \A a : At(k, a)' <=> At(k, a)
BY DEF OnlyMoves, Running, At

LEMMA ControlKept ==
    ASSUME IInv, NEW j \in Jobs, Running(j), OnlyMoves(j), UNCHANGED atStart
    PROVE  /\ Planned' /\ OverlapsSeen'
           /\ \A k \in Jobs : Running(k)' <=> todo'[k] # <<>>
           /\ \A k \in failing' : k \in Jobs /\ result'[k] \in {"running", "killed", "Failure"}
           /\ \A k \in overlaps' \cup clean' :
                 k \in Jobs /\ result'[k] \notin {"unordered", "queued"}
<1>1. \A k \in Jobs \ {j} : result'[k] = result[k] /\ todo'[k] = todo[k]
                            /\ (k \in failing' <=> k \in failing)
  BY DEF OnlyMoves
<1>2. /\ result'[j] \notin {"unordered", "queued"}
      /\ result'[j] = "running" <=> todo'[j] # <<>>
      /\ result'[j] = "running" => OnPlan(j)'
      /\ j \in failing' => result'[j] \in {"running", "killed", "Failure"}
      /\ failing' \subseteq failing \cup {j}
  BY DEF OnlyMoves
<1>3. Planned'
  <2> SUFFICES ASSUME NEW k \in Jobs, Running(k)' PROVE OnPlan(k)'
    BY DEF Planned
  <2>1. CASE k = j
    BY <1>2, <2>1 DEF Running
  <2>2. CASE k # j
    BY <1>1, <2>2 DEF IInv, Planned, Running, OnPlan
  <2> QED BY <2>1, <2>2
<1>4. OverlapsSeen'
  BY <1>1, <1>2 DEF IInv, OverlapsSeen, Running, atStart
<1>5. \A k \in Jobs : Running(k)' <=> todo'[k] # <<>>
  BY <1>1, <1>2 DEF IInv, TypeOK, Running
<1>6. \A k \in failing' : k \in Jobs /\ result'[k] \in {"running", "killed", "Failure"}
  BY <1>1, <1>2 DEF IInv, Shapes
<1>7. \A k \in overlaps' \cup clean' : k \in Jobs /\ result'[k] \notin {"unordered", "queued"}
  BY <1>1, <1>2 DEF IInv, Shapes, atStart
<1> QED BY <1>3, <1>4, <1>5, <1>6, <1>7

LEMMA Together ==
    ASSUME IInv, NEW j \in Jobs, Running(j), OnlyMoves(j), UNCHANGED atStart,
           saw' = [k \in Jobs |-> saw'[k]], nginxLock' \in Jobs \cup {None},
           DataOK', LockHeld', SawWhatItUses', ImagesHoldCode', ListsKeepNames', Removable',
           JobAt(j)', Complete(j)
    PROVE  Kept
<1>1. /\ Planned' /\ OverlapsSeen'
      /\ \A k \in Jobs : Running(k)' <=> todo'[k] # <<>>
      /\ \A k \in failing' : k \in Jobs /\ result'[k] \in {"running", "killed", "Failure"}
      /\ \A k \in overlaps' \cup clean' : k \in Jobs /\ result'[k] \notin {"unordered", "queued"}
  BY ControlKept
<1>2. result' \in [Jobs -> {"unordered", "queued", "running", "killed", "Success", "Failure"}]
      /\ todo' = [k \in Jobs |-> todo'[k]]
  BY DEF OnlyMoves
<1>3. nginxLock' # None => Running(nginxLock)'
  BY DEF LockHeld, At
<1>4. TypeOK'
  BY <1>1, <1>2, <1>3 DEF TypeOK, DataOK
<1>5. Shapes'
  BY <1>1, <1>2 DEF Shapes, DataOK
<1>6. ASSUME NEW k \in Jobs, k # j, Running(k) PROVE k \in overlaps
  BY <1>6 DEF IInv, OverlapsSeen
<1>7. Progress'
  <2> SUFFICES ASSUME NEW k \in Jobs, k \notin overlaps', Running(k)'
               PROVE  /\ Kind[k] = "update" /\ k \in clean' => UpdateAt(k)'
                      /\ Kind[k] = "recover" => RecoveryAt(k)'
                      /\ Kind[k] = "rename" => RenameAt(k)'
    BY DEF Progress
  <2>1. k = j
    BY <1>6 DEF OnlyMoves, Running, atStart
  <2> QED BY <2>1 DEF JobAt
<1>8. ASSUME NEW k \in Jobs PROVE Complete(k)
  <2>1. CASE k = j
    BY <2>1
  <2>2. CASE k # j
    <3>1. result'[k] = result[k]
      BY <2>2 DEF OnlyMoves
    <3> QED BY <3>1 DEF Complete, Ends, Running
  <2> QED BY <2>1, <2>2
<1> QED BY <1>1, <1>4, <1>5, <1>7, <1>8 DEF Kept, IInv

-----------------------------------------------------------------------------
(* Steps that leave a part of the state as it is.                          *)

LEMMA LockKept ==
    ASSUME IInv, NEW j \in Jobs,
           \/ nginxLock' = nginxLock /\ \E a \in Steps \ {"list", "route"} : Goes(j, a)
           \/ Stops(j) /\ nginxLock' = IF nginxLock = j THEN None ELSE nginxLock
    PROVE  LockHeld' /\ nginxLock' \in Jobs \cup {None}
<1>1. OnlyMoves(j) /\ Running(j) /\ LockHeld /\ nginxLock \in Jobs \cup {None} /\ None \notin Jobs
  BY BenchAssumption DEF Goes, Stops, At, IInv, Shapes
<1>2. \A k \in Jobs \ {j} : At(k, "route")' <=> At(k, "route")
  BY <1>1 DEF OnlyMoves, At, Running
<1>3. CASE nginxLock' = nginxLock /\ \E a \in Steps \ {"list", "route"} : Goes(j, a)
  <2>1. PICK a \in Steps \ {"list", "route"} : Goes(j, a)
    BY <1>3
  <2>2. ~At(j, "route")
    BY <2>1 DEF Goes, At
  <2>3. ~At(j, "route")'
    <3>1. CASE j \in failing
      <4>1. Head(<<"delete">>) = "delete"
        OBVIOUS
      <4> QED BY <2>1, <3>1, <4>1 DEF Goes, At, Running
    <3>2. CASE j \notin failing
      BY <2>1, <3>2 DEF Goes, At, Running, Follows
    <3> QED BY <3>1, <3>2
  <2> QED BY <1>1, <1>2, <1>3, <2>2, <2>3 DEF LockHeld
<1>4. CASE Stops(j) /\ nginxLock' = IF nginxLock = j THEN None ELSE nginxLock
  <2>1. ~At(j, "route")'
    <3>1. Head(<<"delete">>) = "delete" /\ Head(<<"drop user">>) = "drop user"
          /\ Head(<<"drop user", "delete">>) = "drop user"
      OBVIOUS
    <3> QED BY <1>4, <3>1 DEF Stops, At, Running
  <2> QED BY <1>1, <1>2, <1>4, <2>1 DEF LockHeld
<1> QED BY <1>3, <1>4

LEMMA StopsAt ==
    ASSUME NEW j, Stops(j)
    PROVE  \A a \in Steps \ {"drop user", "delete"} : ~At(j, a)'
<1>1. Head(<<"delete">>) = "delete" /\ Head(<<"drop user">>) = "drop user"
      /\ Head(<<"drop user", "delete">>) = "drop user"
  OBVIOUS
<1> QED BY <1>1 DEF Stops, At, Running

\* Where a step that goes on leads to.
LEMMA GoesTo ==
    ASSUME NEW j, NEW a \in Steps, Goes(j, a)
    PROVE  /\ At(j, "route")' => a = "list"
           /\ At(j, "route unlocked")' => a = "list unlocked"
           /\ At(j, "write")' => a = "read"
           /\ At(j, "image")' => a = "commit"
           /\ At(j, "rename")' => a = "site off"
           /\ At(j, "site off")' => a = "find"
           /\ At(j, "site on")' /\ Kind[j] \in Naming => a = "route"
           /\ result'[j] = "Success" /\ Kind[j] \in Naming => a \in {"route", "site on", "pull"}
<1>1. Head(<<"delete">>) = "delete"
  OBVIOUS
<1>2. CASE j \in failing
  BY <1>1, <1>2 DEF Goes, At, Running
<1>3. CASE j \notin failing
  <2> DEFINE b == Head(todo'[j])
  <2>1. CASE result'[j] = "running" /\ Follows(Kind[j], a, b) /\ StepOf(Kind[j], b)
    <3>1. Kind[j] = "update" /\ b = "image" => a = "commit"
      BY <2>1 DEF Follows
    <3>2. Kind[j] = "recover" => b # "image"
      BY <2>1 DEF Follows
    <3>3. Kind[j] = "rename" => /\ b = "rename" => a = "site off"
                                /\ b = "site off" => a = "find"
      BY <2>1 DEF Follows
    <3>4. /\ b = "route" => a = "list"
          /\ b = "route unlocked" => a = "list unlocked"
          /\ b = "write" => a = "read"
          /\ b = "site on" /\ Kind[j] \in Naming => a = "route"
      BY <2>1 DEF Follows
    <3>5. /\ b \in {"site off", "rename"} => Kind[j] = "rename"
          /\ b = "image" => Kind[j] \in {"update", "recover"}
      BY <2>1 DEF StepOf
    <3> HIDE DEF b
    <3>6. \A x : At(j, x)' => x = b
      BY DEF At, b
    <3> QED BY <2>1, <3>1, <3>2, <3>3, <3>4, <3>6, <3>5
  <2>2. CASE result'[j] = "Success" /\ (Last(Kind[j], a) \/ a = "pull")
    BY <2>2 DEF At, Running, Last
  <2> QED BY <1>3, <2>1, <2>2 DEF Goes
<1> QED BY <1>2, <1>3

-----------------------------------------------------------------------------
(* What has been read, the images, the routes and what is temporary.       *)

LEMMA SawKept ==
    ASSUME IInv, NEW j \in Jobs, saw' = saw, Built \subseteq Built',
           \/ \E a \in Steps \ {"list", "list unlocked", "read", "find"} : Goes(j, a)
           \/ Stops(j)
    PROVE  SawWhatItUses' /\ saw' = [k \in Jobs |-> saw'[k]]
<1>1. OnlyMoves(j) /\ SawWhatItUses /\ saw' = [k \in Jobs |-> saw'[k]]
  BY DEF Goes, Stops, IInv, Shapes
<1>2. /\ At(j, "rename")' => At(j, "site off")
      /\ ~At(j, "route")' /\ ~At(j, "route unlocked")' /\ ~At(j, "write")' /\ ~At(j, "site off")'
  <2>1. CASE Stops(j)
    BY <2>1, StopsAt DEF Steps
  <2>2. CASE \E a \in Steps \ {"list", "list unlocked", "read", "find"} : Goes(j, a)
    BY <2>2, GoesTo DEF Goes
  <2> QED BY <2>1, <2>2
<1>3. \A k \in Jobs \ {j} : \A a : At(k, a)' <=> At(k, a)
  BY <1>1, Others
<1> QED BY <1>1, <1>2, <1>3 DEF SawWhatItUses

LEMMA ImagesKept ==
    ASSUME IInv, NEW j \in Jobs, codeOf' = codeOf, image' \in Built,
           local' \cup registry' \subseteq Built,
           container' # None => container'.image \in Built,
           \/ \E a \in Steps \ {"commit"} : Goes(j, a)
           \/ Stops(j)
    PROVE  ImagesHoldCode' /\ Built' = Built
<1>1. OnlyMoves(j) /\ ImagesHoldCode
  BY DEF Goes, Stops, IInv
<1>2. ~At(j, "image")'
  <2>1. CASE Stops(j)
    BY <2>1, StopsAt DEF Steps
  <2>2. CASE \E a \in Steps \ {"commit"} : Goes(j, a)
    BY <2>2, GoesTo DEF Goes
  <2> QED BY <2>1, <2>2
<1>3. \A k \in Jobs \ {j} : \A a : At(k, a)' <=> At(k, a)
  BY <1>1, Others
<1>4. Built' = Built
  BY DEF Built
<1> QED BY <1>1, <1>2, <1>3, <1>4 DEF ImagesHoldCode

\* A job that disturbs nobody now did not before.
LEMMA StillUndisturbed ==
    ASSUME NEW j \in Jobs, Running(j), OnlyMoves(j), NEW m \in Jobs, Undisturbed(m)'
    PROVE  /\ Undisturbed(m)
           /\ m # j => ~(Kind[j] = "code_server" \/ Names(j, NameOf[m]))
<1>1. /\ \A k \in Jobs \ {j} : result'[k] = result[k]
      /\ result'[j] \notin {"unordered", "queued"}
  BY DEF OnlyMoves
<1>2. \A k \in Jobs \ {m} : Kind[k] = "code_server" \/ Names(k, NameOf[m]) =>
                              result'[k] \in {"unordered", "queued"}
  BY DEF Undisturbed, Names
<1> QED BY <1>1, <1>2 DEF Undisturbed

LEMMA RoutedKept ==
    ASSUME IInv, NEW j \in Jobs, routed' = routed,
           \A k \in Jobs : At(k, "route") => saw'[k] = saw[k],
           \/ /\ \E a \in Steps \ {"list", "route"} : Goes(j, a)
              /\ \A s \in Sites : site'[s] = "ok" => \/ site[s] = "ok"
                                                     \/ ~At(j, "site on") /\ Names(j, s)
           \/ Stops(j) /\ \A s \in Sites : site'[s] = "ok" => site[s] = "ok"
    PROVE  ListsKeepNames'
<1>1. OnlyMoves(j) /\ ListsKeepNames /\ Running(j)
  BY DEF Goes, Stops, IInv, At
<1>2. /\ ~At(j, "route")'
      /\ Kind[j] \in Naming /\ HasRouted(j)' => At(j, "site on")
  <2>1. CASE Stops(j)
    <3>1. result'[j] # "Success"
      BY <2>1 DEF Stops
    <3> QED BY <2>1, <3>1, StopsAt DEF Steps, HasRouted
  <2>2. CASE \E a \in Steps \ {"list", "route"} : Goes(j, a)
    <3>1. PICK a \in Steps \ {"list", "route"} : Goes(j, a)
      BY <2>2
    <3>2. Kind[j] \in Naming => a # "pull"
      <4>1. CASE j \in failing
        BY <3>1, <4>1 DEF Goes
      <4>2. CASE j \notin failing
        BY <3>1, <4>2 DEF Goes, StepOf, Naming
      <4> QED BY <4>1, <4>2
    <3> QED BY <3>1, <3>2, GoesTo DEF HasRouted, Goes
  <2> QED BY <2>1, <2>2
<1>3. \A k \in Jobs \ {j} : (\A a : At(k, a)' <=> At(k, a)) /\ result'[k] = result[k]
  BY <1>1, Others
<1>4. SUFFICES ASSUME NEW m \in Jobs, Kind[m] \in Naming, Undisturbed(m)', site'[NameOf[m]] = "ok"
               PROVE  /\ At(m, "route")' => NameOf[m] \in saw'[m]
                      /\ HasRouted(m)' => /\ NameOf[m] \in routed'
                                          /\ \A k \in Jobs : At(k, "route")' => NameOf[m] \in saw'[k]
  BY DEF ListsKeepNames
<1>5. /\ Undisturbed(m) /\ NameOf[m] \in Sites
      /\ m # j => ~Names(j, NameOf[m])
  BY <1>1, <1>4, StillUndisturbed, BenchAssumption
<1>6. At(m, "route")' => m # j /\ At(m, "route")
  BY <1>2, <1>3
<1>7. HasRouted(m)' => HasRouted(m) /\ (m = j => At(j, "site on"))
  <2>1. CASE m = j
    BY <1>2, <1>4, <2>1 DEF HasRouted
  <2>2. CASE m # j
    BY <1>3, <2>2 DEF HasRouted
  <2> QED BY <2>1, <2>2
<1>8. At(m, "route")' \/ HasRouted(m)' => site[NameOf[m]] = "ok"
  BY <1>4, <1>5, <1>6, <1>7
<1>9. \A k \in Jobs : At(k, "route")' => At(k, "route") /\ saw'[k] = saw[k]
  BY <1>2, <1>3
<1> QED BY <1>1, <1>4, <1>5, <1>6, <1>7, <1>8, <1>9 DEF ListsKeepNames

LEMMA DropFirst ==
    /\ Head(<<"drop user">>) = "drop user"
    /\ Head(<<"drop user", "delete">>) = "drop user"
OBVIOUS

\* Who would remove what is temporary still will.
LEMMA WillTidy ==
    ASSUME IInv, NEW j \in Jobs,
           (\E a \in Steps \ {"drop user"} : Goes(j, a)) \/ Stops(j)
    PROVE  \A k \in Jobs : result[k] = "killed" \/ UsesUser(k) =>
               result'[k] = "killed" \/ UsesUser(k)'
<1>1. OnlyMoves(j) /\ Running(j)
  BY DEF Goes, Stops, At
<1>2. \A k \in Jobs \ {j} : result'[k] = result[k] /\ todo'[k] = todo[k]
  BY <1>1, Others
<1>3. CASE \E a \in Steps \ {"drop user"} : Goes(j, a)
  <2>1. PICK a \in Steps \ {"drop user"} : Goes(j, a)
    BY <1>3
  <2>2. UsesUser(j) => a \in AsUser /\ j \notin failing
    BY <2>1 DEF UsesUser, Goes, At, AsUser
  <2>3. UsesUser(j) => result'[j] = "running" /\ Head(todo'[j]) = "drop user"
    BY <2>1, <2>2 DEF Goes, Last, Follows, AsUser
  <2> QED BY <1>1, <1>2, <2>3 DEF UsesUser, Running
<1>4. CASE Stops(j)
  <2>1. UsesUser(j) => result'[j] = "killed" \/ UsesUser(j)'
    BY <1>4, DropFirst DEF Stops, UsesUser, Running, AsUser
  <2> QED BY <1>1, <1>2, <2>1 DEF UsesUser, Running
<1> QED BY <1>3, <1>4

LEMMA WillDelete ==
    ASSUME IInv, NEW j \in Jobs, UsesFiles(j),
           (\E a \in Steps \ {"delete"} : Goes(j, a)) \/ Stops(j)
    PROVE  UsesFiles(j)'
<1>0. Running(j) /\ result[j] # "killed" /\ result[j] # "Failure"
  BY DEF Goes, Stops, At, Running
<1>1. CASE \E a \in Steps \ {"delete"} : Goes(j, a)
  <2>1. PICK a \in Steps \ {"delete"} : Goes(j, a)
    BY <1>1
  <2>2. CASE j \in failing
    <3>1. CASE Kind[j] = "from_backup"
      BY <2>1, <2>2, <3>1 DEF Goes, UsesFiles, Running
    <3>2. CASE Kind[j] # "from_backup"
      <4>1. /\ Kind[j] = "restore_site" /\ todo[j] # <<"drop user">>
        BY <1>0, <2>2, <3>2 DEF UsesFiles
      <4>2. Head(<<"delete">>) = "delete" /\ <<"delete">> # <<"drop user">>
        OBVIOUS
      <4>3. todo[j] = <<"drop user", "delete">>
        <5>1. todo[j] \in Cleanups
          BY <1>0, <2>2 DEF IInv, Planned, OnPlan
        <5>2. Head(todo[j]) # "delete"
          BY <2>1 DEF Goes, At
        <5> QED BY <4>1, <4>2, <5>1, <5>2, Zenon DEF Cleanups
      <4>4. result'[j] = "running" /\ todo'[j] = <<"delete">>
        BY <2>1, <2>2, <4>3 DEF Goes
      <4> QED BY <4>1, <4>2, <4>4 DEF UsesFiles, Running
    <3> QED BY <3>1, <3>2
  <2>3. CASE j \notin failing
    <3>1. /\ Kind[j] \in {"restore_site", "from_backup"}
          /\ a \in {"user", "create", "restore", "drop user"}
      BY <1>0, <2>1, <2>3 DEF UsesFiles, Goes, At
    <3>2. ~Last(Kind[j], a) /\ a # "pull"
      BY <3>1 DEF Last, Naming
    <3>3. /\ result'[j] = "running" /\ failing' = failing
          /\ Follows(Kind[j], a, Head(todo'[j]))
      BY <2>1, <2>3, <3>2 DEF Goes
    <3>4. Head(todo'[j]) \in {"user", "create", "restore", "drop user", "delete"}
      BY <3>1, <3>3 DEF Follows
    <3> QED BY <2>3, <3>1, <3>3, <3>4 DEF UsesFiles, Running
  <2> QED BY <2>2, <2>3
<1>2. CASE Stops(j)
  <2>1. CASE result'[j] = "killed"
    BY <2>1 DEF UsesFiles
  <2>2. CASE result'[j] # "killed" /\ Kind[j] = "from_backup"
    BY <1>2, <2>2 DEF Stops, UsesFiles, Running
  <2>3. CASE result'[j] # "killed" /\ Kind[j] # "from_backup"
    <3>1. j \notin failing /\ j \in failing'
      BY <1>2, <2>3 DEF Stops
    <3>2. Kind[j] = "restore_site" /\ Head(todo[j]) \in {"user", "restore"}
      BY <1>0, <1>2, <2>3, <3>1 DEF UsesFiles, Stops, StepOf
    <3>3. result'[j] = "running" /\ todo'[j] \in {<<"delete">>, <<"drop user", "delete">>}
      BY <1>2, <2>3, <3>2 DEF Stops, AsUser
    <3>4. /\ Head(<<"delete">>) = "delete" /\ <<"delete">> # <<"drop user">>
          /\ Head(<<"drop user", "delete">>) = "drop user"
          /\ <<"drop user", "delete">> # <<"drop user">>
      OBVIOUS
    <3>5. Head(todo'[j]) \in {"drop user", "delete"} /\ todo'[j] # <<"drop user">>
      BY <3>3, <3>4, Zenon
    <3> QED BY <3>2, <3>3, <3>5 DEF UsesFiles, Running
  <2> QED BY <2>1, <2>2, <2>3
<1> QED BY <1>1, <1>2

LEMMA OtherFiles ==
    ASSUME NEW j \in Jobs, OnlyMoves(j), NEW k \in Jobs, k # j
    PROVE  UsesFiles(k)' <=> UsesFiles(k)
BY Others DEF UsesFiles, Running

LEMMA TidyKept ==
    ASSUME IInv, NEW j \in Jobs, leftovers' = leftovers,
           (\E a \in Steps \ {"drop user", "delete"} : Goes(j, a)) \/ Stops(j)
    PROVE  Removable'
<1>1. OnlyMoves(j) /\ Removable
  BY DEF Goes, Stops, IInv
<1>2. \A k \in Jobs : result[k] = "killed" \/ UsesUser(k) => result'[k] = "killed" \/ UsesUser(k)'
  BY WillTidy
<1>3. \A k \in Jobs : UsesFiles(k) => UsesFiles(k)'
  <2> SUFFICES ASSUME NEW k \in Jobs, UsesFiles(k) PROVE UsesFiles(k)'
    OBVIOUS
  <2>1. CASE k = j
    BY <2>1, WillDelete
  <2>2. CASE k # j
    BY <1>1, <2>2, OtherFiles
  <2> QED BY <2>1, <2>2
<1> QED BY <1>1, <1>2, <1>3 DEF Removable

\* What a job knows that runs alone is about three kinds of job.
LEMMA JobKept ==
    ASSUME IInv, NEW j \in Jobs,
           \/ (\E a \in Steps : Goes(j, a)) /\ Kind[j] \notin {"update", "recover", "rename"}
           \/ Stops(j)
    PROVE  JobAt(j)' /\ Complete(j)
<1>1. CASE (\E a \in Steps : Goes(j, a)) /\ Kind[j] \notin {"update", "recover", "rename"}
  BY <1>1 DEF JobAt, Complete, Ends
<1>2. CASE Stops(j)
  <2>1. result'[j] # "Success"
    BY <1>2 DEF Stops
  <2>2. Running(j)' => Kind[j] \notin {"update", "recover", "rename"}
    BY <1>2 DEF Stops, Running, StepOf, AsUser
  <2> QED BY <2>1, <2>2 DEF JobAt, Complete, Ends
<1> QED BY <1>1, <1>2

LEMMA Possibles ==
    ASSUME NEW j, NEW a, Head(todo[j]) = a, Possible(j)
    PROVE  /\ a = "init" => ImageOf[j] \in Available
           /\ a = "run" => image \in Available
           /\ a \in {"create", "restore", "reinstall", "drop site", "site off", "migrate site",
                     "site on", "install", "pull", "migrate", "restart", "recover sites"} => Up
           /\ a = "find" => "ok" \in {site[SiteOf[j]], site[NameOf[j]]}
           /\ a = "site off" => site[saw[j]] = "ok"
           /\ a = "rename" => site[saw[j]] = "ok" /\ (saw[j] # NameOf[j] => site[NameOf[j]] = "none")
           /\ a \in {"migrate site", "site on"} => site[NameOf[j]] = "ok"
           /\ a = "push" => ImageOf[j] \in local
           /\ a \in {"commit", "stop", "start"} => container # None
<1>1. a = "init" => ImageOf[j] \in Available
  BY DEF Possible
<1>2. a = "run" => image \in Available
  BY DEF Possible
<1>3. a \in {"create", "restore", "reinstall", "drop site", "site off", "migrate site",
                "site on", "install", "pull", "migrate", "restart", "recover sites"} => Up
  BY DEF Possible
<1>4. a = "find" => "ok" \in {site[SiteOf[j]], site[NameOf[j]]}
  BY DEF Possible
<1>5. a = "site off" => site[saw[j]] = "ok"
  BY DEF Possible
<1>6. a = "rename" => site[saw[j]] = "ok" /\ (saw[j] # NameOf[j] => site[NameOf[j]] = "none")
  BY DEF Possible
<1>7. a \in {"migrate site", "site on"} => site[NameOf[j]] = "ok"
  BY DEF Possible
<1>8. a = "push" => ImageOf[j] \in local
  BY DEF Possible
<1>9. a \in {"commit", "stop", "start"} => container # None
  BY DEF Possible
<1> QED BY <1>1, <1>2, <1>3, <1>4, <1>5, <1>6, <1>7, <1>8, <1>9

LEMMA Doing ==
    ASSUME IInv, NEW j \in Jobs, NEW a, Can(j, a)
    PROVE  /\ Running(j) /\ Head(todo[j]) = a /\ Possible(j) /\ UNCHANGED <<atStart, faults>>
           /\ Advance(j) => Goes(j, a)
BY Going DEF Can, At

\* The data, with names for what holds of it.
LEMMA Data ==
    ASSUME IInv
    PROVE  /\ DataOK /\ TypeOK /\ ImagesHoldCode
           /\ Images \subseteq Nat /\ FirstImages \subseteq Images /\ None \notin Images
           /\ Built \subseteq Images /\ Available \subseteq Built
           /\ \A i \in Built : codeOf[i] \in Images
           /\ \A j \in Jobs : ImageOf[j] \in Images /\ SiteOf[j] \in Sites /\ NameOf[j] \in Sites
<1>1. DataOK /\ TypeOK /\ ImagesHoldCode
  BY DEF IInv, DataOK, TypeOK, Shapes
<1>2. Images \subseteq Nat /\ FirstImages \subseteq Images /\ None \notin Images
  <2>1. FirstImages \subseteq Nat /\ \A j \in Jobs : ImageOf[j] \in Nat
    BY BenchAssumption
  <2>2. FirstImages \subseteq Images
    BY DEF Images
  <2>3. None \notin Nat
    BY BenchAssumption
  <2> QED BY <2>1, <2>2, <2>3 DEF Images
<1>3. Built \subseteq Images /\ \A i \in Built : codeOf[i] \in Images
  BY <1>1 DEF Built, DataOK
<1>4. Available \subseteq Built
  BY <1>1 DEF ImagesHoldCode, Available
<1>5. \A j \in Jobs : ImageOf[j] \in Images /\ SiteOf[j] \in Sites /\ NameOf[j] \in Sites
  BY BenchAssumption DEF Images
<1> QED BY <1>1, <1>2, <1>3, <1>4, <1>5

Special == {"list", "route", "list unlocked", "route unlocked", "read", "find", "commit",
            "user", "download", "drop user", "delete"}

\* A step that is about sites, the container or the configuration alone.
LEMMA Usual ==
    ASSUME IInv, NEW j \in Jobs, NEW a \in Steps \ Special, Goes(j, a), DataOK',
           UNCHANGED <<leftovers, saw, codeOf, nginxLock, routed>>,
           image' \in Built, local' \cup registry' \subseteq Built,
           container' # None => container'.image \in Built,
           \A s \in Sites : site'[s] = "ok" => \/ site[s] = "ok"
                                               \/ ~At(j, "site on") /\ Names(j, s),
           JobAt(j)', Complete(j)
    PROVE  Kept
<1>1. Running(j) /\ OnlyMoves(j) /\ UNCHANGED atStart
  BY DEF Goes, At
<1>2. LockHeld' /\ nginxLock' \in Jobs \cup {None}
  BY LockKept DEF Special
<1>3. ImagesHoldCode' /\ Built' = Built
  BY ImagesKept DEF Special
<1>4. SawWhatItUses' /\ saw' = [k \in Jobs |-> saw'[k]]
  BY <1>3, SawKept DEF Special
<1>5. ListsKeepNames'
  BY RoutedKept DEF Special
<1>6. Removable'
  BY TidyKept DEF Special
<1> QED BY <1>1, <1>2, <1>3, <1>4, <1>5, <1>6, Together

\* A failure that changes sites and the configuration at most.
LEMMA Failing ==
    ASSUME IInv, NEW j \in Jobs, Stops(j), DataOK',
           UNCHANGED <<leftovers, saw, codeOf, routed>>,
           \/ nginxLock' = IF nginxLock = j THEN None ELSE nginxLock
           \/ nginxLock' = nginxLock /\ ~At(j, "route"),
           image' \in Built, local' \cup registry' \subseteq Built,
           container' # None => container'.image \in Built,
           \A s \in Sites : site'[s] = "ok" => site[s] = "ok"
    PROVE  Kept
<1>1. Running(j) /\ OnlyMoves(j) /\ UNCHANGED atStart
  BY DEF Stops
<1>2. LockHeld' /\ nginxLock' \in Jobs \cup {None}
  <2>1. nginxLock' = IF nginxLock = j THEN None ELSE nginxLock
    BY DEF IInv, LockHeld
  <2> QED BY <2>1, LockKept
<1>3. ImagesHoldCode' /\ Built' = Built
  BY ImagesKept
<1>4. SawWhatItUses' /\ saw' = [k \in Jobs |-> saw'[k]]
  BY <1>3, SawKept
<1>5. ListsKeepNames'
  BY RoutedKept
<1>6. Removable'
  BY TidyKept
<1>7. JobAt(j)' /\ Complete(j)
  BY JobKept
<1> QED BY <1>1, <1>2, <1>3, <1>4, <1>5, <1>6, <1>7, Together

-----------------------------------------------------------------------------
(* The steps of jobs that no property follows to their end.                *)

ThreeKinds == {"update", "recover", "rename"}
TheirSteps ==
    {"pull", "migrate", "commit", "image", "restart", "maintain", "remove", "run", "list",
     "route", "recover sites", "find", "site off", "rename", "site on"}

LEMMA OtherKinds ==
    ASSUME IInv, NEW j \in Jobs, NEW a \in Steps \ (TheirSteps \cup {"drop user", "delete"}),
           Goes(j, a)
    PROVE  JobAt(j)' /\ Complete(j) /\ j \notin failing /\ StepOf(Kind[j], a)
<1>1. j \notin failing /\ StepOf(Kind[j], a)
  BY DEF Goes
<1>2. Kind[j] \notin ThreeKinds
  BY <1>1 DEF StepOf, ThreeKinds, TheirSteps
<1> QED BY <1>1, <1>2, JobKept DEF ThreeKinds

LEMMA InitBenchStep == ASSUME IInv, NEW j \in Jobs, InitBench(j) PROVE Kept
<1> DEFINE a == "init"
<1>1. Goes(j, a) /\ ImageOf[j] \in Available
  BY Doing, Possibles DEF InitBench
<1>2. DataOK'
  BY Data DEF InitBench, DataOK, siteVars, nginx
<1>3. JobAt(j)' /\ Complete(j)
  BY <1>1, OtherKinds DEF Steps, TheirSteps
<1>4. /\ image' \in Built /\ local' \cup registry' \subseteq Built
      /\ container' # None => container'.image \in Built
  BY <1>1, Data DEF InitBench, ImagesHoldCode
<1> QED BY <1>1, <1>2, <1>3, <1>4, Usual DEF InitBench, siteVars, nginx, Steps, Special

LEMMA StopOrStartStep == ASSUME IInv, NEW j \in Jobs, StopOrStart(j) PROVE Kept
<1>1. PICK a \in {"stop", "start"} : Goes(j, a) /\ container # None
  BY Doing, Possibles DEF StopOrStart
<1>2. /\ container'.image = container.image
      /\ container' \in [image : Images, code : Images, up : BOOLEAN]
  BY <1>1, Data DEF StopOrStart, DataOK
<1>3. DataOK'
  BY <1>2, Data DEF StopOrStart, DataOK, siteVars, nginx, benchVars
<1>4. JobAt(j)' /\ Complete(j)
  BY <1>1, OtherKinds DEF Steps, TheirSteps
<1>5. /\ image' \in Built /\ local' \cup registry' \subseteq Built
      /\ container' # None => container'.image \in Built
  BY <1>1, <1>2, Data DEF StopOrStart, ImagesHoldCode, benchVars
<1> QED BY <1>1, <1>3, <1>4, <1>5, Usual DEF StopOrStart, siteVars, nginx, Steps, Special

LEMMA PruneStep == ASSUME IInv, NEW j \in Jobs, Prune(j) PROVE Kept
<1>1. Goes(j, "prune")
  BY Doing DEF Prune
<1>2. /\ image' \in Built /\ local' \cup registry' \subseteq Built
      /\ container' # None => container'.image \in Built
  BY Data DEF Prune, ImagesHoldCode, Up, benchVars
<1>3. DataOK'
  BY <1>2, Data DEF Prune, DataOK, siteVars, nginx, benchVars
<1>4. JobAt(j)' /\ Complete(j)
  BY <1>1, OtherKinds DEF Steps, TheirSteps
<1> QED BY <1>1, <1>2, <1>3, <1>4, Usual DEF Prune, siteVars, nginx, Steps, Special

LEMMA PushStep == ASSUME IInv, NEW j \in Jobs, Push(j) PROVE Kept
<1>1. Goes(j, "push") /\ ImageOf[j] \in local
  BY Doing, Possibles DEF Push
<1>2. /\ image' \in Built /\ local' \cup registry' \subseteq Built
      /\ container' # None => container'.image \in Built
  BY <1>1, Data DEF Push, ImagesHoldCode, benchVars
<1>3. DataOK'
  BY <1>2, Data DEF Push, DataOK, siteVars, nginx, benchVars
<1>4. JobAt(j)' /\ Complete(j)
  BY <1>1, OtherKinds DEF Steps, TheirSteps
<1> QED BY <1>1, <1>2, <1>3, <1>4, Usual DEF Push, siteVars, nginx, Steps, Special

\* Steps that only change sites.
SitesOnly(j) ==
    UNCHANGED <<directory, conf, image, local, registry, codeOf, container, routed,
                nginxLock, leftovers, saw>>

LEMMA SiteStep ==
    ASSUME IInv, NEW j \in Jobs, NEW a \in Steps \ Special, Goes(j, a), SitesOnly(j),
           site' \in [Sites -> {"none", "partial", "ok"}],
           migrated' \in [Sites -> Images \cup {None}], maintenance' \subseteq Sites,
           \A s \in Sites : site'[s] = "ok" => \/ site[s] = "ok"
                                               \/ ~At(j, "site on") /\ Names(j, s),
           JobAt(j)', Complete(j)
    PROVE  Kept
<1>1. DataOK'
  BY Data DEF SitesOnly, DataOK
<1>2. /\ image' \in Built /\ local' \cup registry' \subseteq Built
      /\ container' # None => container'.image \in Built
  BY Data DEF SitesOnly, ImagesHoldCode
<1> QED BY <1>1, <1>2, Usual DEF SitesOnly

LEMMA CreateSiteStep == ASSUME IInv, NEW j \in Jobs, CreateSite(j) PROVE Kept
<1>1. Goes(j, "create") /\ Up
  BY Doing, Possibles DEF CreateSite
<1>2. SitesOnly(j)
  BY DEF CreateSite, SitesOnly, docker, nginx, benchVars
<1>3. JobAt(j)' /\ Complete(j) /\ j \notin failing /\ Kind[j] \in {"new_site", "from_backup"}
  BY <1>1, OtherKinds DEF Steps, TheirSteps, StepOf
<1>4. container.code \in Images
  BY <1>1, Data DEF Up, DataOK
<1>5. Names(j, SiteOf[j]) /\ ~At(j, "site on") /\ SiteOf[j] \in Sites
  BY <1>1, <1>3, BenchAssumption DEF Names, Goes, At
<1>6. /\ site' \in [Sites -> {"none", "partial", "ok"}]
      /\ migrated' \in [Sites -> Images \cup {None}] /\ maintenance' \subseteq Sites
      /\ \A s \in Sites : site'[s] = "ok" => site[s] = "ok" \/ s = SiteOf[j]
  BY <1>4, <1>5, Data DEF CreateSite, DataOK
<1> QED BY <1>1, <1>2, <1>3, <1>5, <1>6, SiteStep DEF Steps, Special

LEMMA RestoreSiteStep == ASSUME IInv, NEW j \in Jobs, RestoreSite(j) PROVE Kept
<1>1. Goes(j, "restore")
  BY Doing DEF RestoreSite
<1>2. SitesOnly(j)
  BY DEF RestoreSite, SitesOnly, docker, nginx, benchVars
<1>3. JobAt(j)' /\ Complete(j)
  BY <1>1, OtherKinds DEF Steps, TheirSteps
<1>4. /\ site' = site /\ maintenance' \subseteq Sites /\ site' \in [Sites -> {"none", "partial", "ok"}]
      /\ migrated' \in [Sites -> Images \cup {None}]
  BY Data DEF RestoreSite, DataOK
<1> QED BY <1>1, <1>2, <1>3, <1>4, SiteStep DEF Steps, Special

LEMMA ReinstallStep == ASSUME IInv, NEW j \in Jobs, Reinstall(j) PROVE Kept
<1>1. Goes(j, "reinstall") /\ Up
  BY Doing, Possibles DEF Reinstall
<1>2. SitesOnly(j)
  BY DEF Reinstall, SitesOnly, docker, nginx, benchVars
<1>3. JobAt(j)' /\ Complete(j)
  BY <1>1, OtherKinds DEF Steps, TheirSteps
<1>4. container.code \in Images
  BY <1>1, Data DEF Up, DataOK
<1>5. /\ site' = site /\ maintenance' \subseteq Sites /\ site' \in [Sites -> {"none", "partial", "ok"}]
      /\ migrated' \in [Sites -> Images \cup {None}]
  BY <1>4, Data DEF Reinstall, DataOK
<1> QED BY <1>1, <1>2, <1>3, <1>5, SiteStep DEF Steps, Special

LEMMA MigrateSiteStep == ASSUME IInv, NEW j \in Jobs, MigrateSite(j) PROVE Kept
<1>1. Goes(j, "migrate site") /\ Up
  BY Doing, Possibles DEF MigrateSite
<1>2. SitesOnly(j)
  BY DEF MigrateSite, SitesOnly, docker, nginx, benchVars
<1>3. JobAt(j)' /\ Complete(j)
  BY <1>1, OtherKinds DEF Steps, TheirSteps
<1>4. container.code \in Images
  BY <1>1, Data DEF Up, DataOK
<1>5. /\ site' = site /\ maintenance' \subseteq Sites /\ site' \in [Sites -> {"none", "partial", "ok"}]
      /\ migrated' \in [Sites -> Images \cup {None}]
  BY <1>4, Data DEF MigrateSite, DataOK
<1> QED BY <1>1, <1>2, <1>3, <1>5, SiteStep DEF Steps, Special

LEMMA DropSiteStep == ASSUME IInv, NEW j \in Jobs, DropSite(j) PROVE Kept
<1>1. Goes(j, "drop site")
  BY Doing DEF DropSite
<1>2. SitesOnly(j)
  BY DEF DropSite, SitesOnly, docker, nginx, benchVars
<1>3. JobAt(j)' /\ Complete(j)
  BY <1>1, OtherKinds DEF Steps, TheirSteps
<1>4. /\ maintenance' \subseteq Sites /\ site' \in [Sites -> {"none", "partial", "ok"}]
      /\ migrated' \in [Sites -> Images \cup {None}]
      /\ \A s \in Sites : site'[s] = "ok" => site[s] = "ok"
  BY Data DEF DropSite, DataOK
<1> QED BY <1>1, <1>2, <1>3, <1>4, SiteStep DEF Steps, Special

LEMMA WriteConfigStep == ASSUME IInv, NEW j \in Jobs, WriteConfig(j) PROVE Kept
<1>1. Goes(j, "write") /\ At(j, "write")
  BY Doing DEF WriteConfig, Can
<1>2. image' \in Built
  BY <1>1 DEF WriteConfig, IInv, SawWhatItUses
<1>3. DataOK'
  BY <1>2, Data DEF WriteConfig, DataOK, docker, siteVars, nginx
<1>4. JobAt(j)' /\ Complete(j)
  BY <1>1, OtherKinds DEF Steps, TheirSteps
<1>5. /\ local' \cup registry' \subseteq Built
      /\ container' # None => container'.image \in Built
  BY Data DEF WriteConfig, ImagesHoldCode, docker
<1> QED BY <1>1, <1>2, <1>3, <1>4, <1>5, Usual DEF WriteConfig, docker, siteVars, nginx, Steps, Special

\* What is left of an archival that finds nothing to disable.
LEMMA SkipsToGone ==
    /\ From(Plan("archive_bench"), 3) = <<"gone", "move">>
    /\ <<"gone", "move">> # <<>> /\ Head(<<"gone", "move">>) = "gone"
    /\ Len(Plan("archive_bench")) = 4
<1> DEFINE P == <<"check", "remove", "gone", "move">>
<1>1. Plan("archive_bench") = P
  BY Zenon DEF Plan
<1>2. P \in Seq(Steps) /\ Len(P) = 4
  BY DEF Steps
<1>3. From(P, 3) = <<"gone", "move">>
  <2>1. P[3] = "gone" /\ P[4] = "move"
    OBVIOUS
  <2> HIDE DEF P
  <2>2. /\ SubSeq(P, 3, 4) \in Seq(Steps) /\ Len(SubSeq(P, 3, 4)) = 2
        /\ SubSeq(P, 3, 4)[1] = "gone" /\ SubSeq(P, 3, 4)[2] = "move"
    BY <1>2, <2>1
  <2>3. /\ <<"gone", "move">> \in Seq(Steps) /\ Len(<<"gone", "move">>) = 2
        /\ <<"gone", "move">>[1] = "gone" /\ <<"gone", "move">>[2] = "move"
    BY DEF Steps
  <2>4. \A i \in 1..2 : i = 1 \/ i = 2
    OBVIOUS
  <2>5. SubSeq(P, 3, 4) = <<"gone", "move">>
    BY <2>2, <2>3, <2>4, SeqEqual
  <2> QED BY <1>2, <2>5 DEF From
<1>4. <<"gone", "move">> # <<>> /\ Head(<<"gone", "move">>) = "gone"
  OBVIOUS
<1> QED BY <1>1, <1>2, <1>3, <1>4

LEMMA SkipGoes ==
    ASSUME IInv, NEW j \in Jobs, At(j, "check"), Then(j, <<"gone", "move">>),
           UNCHANGED failing, UNCHANGED atStart
    PROVE  Goes(j, "check")
<1>1. Running(j) /\ Head(todo[j]) = "check"
  BY DEF At
<1>2. j \notin failing /\ StepOf(Kind[j], "check") /\ Kind[j] = "archive_bench"
  <2>1. TypeOK /\ Shapes /\ Planned
    BY DEF IInv
  <2> QED BY <1>1, <2>1, Heads DEF StepOf
<1>3. /\ todo' = [todo EXCEPT ![j] = <<"gone", "move">>]
      /\ result' = [result EXCEPT ![j] = "running"]
  BY <1>1, SkipsToGone DEF Then, Running, IInv, TypeOK
<1>4. /\ result'[j] = "running" /\ todo'[j] = <<"gone", "move">>
      /\ \A k \in Jobs \ {j} : result'[k] = result[k] /\ todo'[k] = todo[k]
      /\ result' \in [Jobs -> {"unordered", "queued", "running", "killed", "Success", "Failure"}]
      /\ todo' = [k \in Jobs |-> todo'[k]]
  BY <1>3 DEF IInv, TypeOK, Shapes
<1>5. OnPlan(j)'
  BY <1>2, <1>4, SkipsToGone DEF OnPlan
<1>6. OnlyMoves(j)
  BY <1>2, <1>4, <1>5, SkipsToGone DEF OnlyMoves
<1>7. Follows(Kind[j], "check", "gone") /\ StepOf(Kind[j], "gone")
  BY <1>2 DEF Follows, StepOf, Steps, AsUser, Naming
<1> QED BY <1>1, <1>2, <1>4, <1>6, <1>7, SkipsToGone DEF Goes

LEMMA CheckStep == ASSUME IInv, NEW j \in Jobs, Check(j) PROVE Kept
<1>1. Goes(j, "check")
  BY Doing, SkipGoes DEF Check, Can
<1>2. SitesOnly(j)
  BY DEF Check, SitesOnly, docker, nginx, benchVars
<1>3. JobAt(j)' /\ Complete(j)
  BY <1>1, OtherKinds DEF Steps, TheirSteps
<1>4. /\ site' = site /\ maintenance' \subseteq Sites /\ site' \in [Sites -> {"none", "partial", "ok"}]
      /\ migrated' \in [Sites -> Images \cup {None}]
  BY Data DEF Check, DataOK
<1> QED BY <1>1, <1>2, <1>3, <1>4, SiteStep DEF Steps, Special

LEMMA ContainerIsGoneStep == ASSUME IInv, NEW j \in Jobs, ContainerIsGone(j) PROVE Kept
<1>1. Goes(j, "gone")
  BY Doing DEF ContainerIsGone
<1>2. SitesOnly(j)
  BY DEF ContainerIsGone, SitesOnly, docker, nginx, benchVars
<1>3. JobAt(j)' /\ Complete(j)
  BY <1>1, OtherKinds DEF Steps, TheirSteps
<1>4. /\ site' = site /\ maintenance' \subseteq Sites /\ site' \in [Sites -> {"none", "partial", "ok"}]
      /\ migrated' \in [Sites -> Images \cup {None}]
  BY Data DEF ContainerIsGone, DataOK, siteVars
<1> QED BY <1>1, <1>2, <1>3, <1>4, SiteStep DEF Steps, Special

LEMMA MoveToArchivedStep == ASSUME IInv, NEW j \in Jobs, MoveToArchived(j) PROVE Kept
<1>1. Goes(j, "move")
  BY Doing DEF MoveToArchived
<1>2. Running(j) /\ OnlyMoves(j) /\ UNCHANGED atStart
  BY <1>1 DEF Goes, At
<1>3. DataOK'
  BY Data DEF MoveToArchived, DataOK, docker
<1>4. LockHeld' /\ nginxLock' \in Jobs \cup {None}
  BY <1>1, LockKept DEF MoveToArchived, Steps
<1>5. ImagesHoldCode' /\ Built' = Built
  BY <1>1, ImagesKept, Data DEF MoveToArchived, docker, Steps, ImagesHoldCode
<1>6. SawWhatItUses' /\ saw' = [k \in Jobs |-> saw'[k]]
  BY <1>1, <1>5, SawKept DEF MoveToArchived, Steps
<1>7. ListsKeepNames'
  BY BenchAssumption DEF MoveToArchived, ListsKeepNames
<1>8. Removable'
  BY <1>1, TidyKept DEF MoveToArchived, Steps
<1>9. JobAt(j)' /\ Complete(j)
  BY <1>1, OtherKinds DEF Steps, TheirSteps
<1> QED BY <1>2, <1>3, <1>4, <1>5, <1>6, <1>7, <1>8, <1>9, Together

-----------------------------------------------------------------------------
(* What is temporary.                                                      *)

LEMMA DeleteFirst == Head(<<"delete">>) = "delete"
OBVIOUS

LEMMA LeaveStep == ASSUME IInv, NEW j \in Jobs, Leave(j) PROVE Kept
<1> DEFINE user  == <<SiteOf[j], "user">>
           files == <<j, "download">>
<1>1. PICK a \in {"user", "download", "drop user", "delete"} :
           /\ Goes(j, a)
           /\ a = "user" => leftovers' = leftovers \cup {user}
           /\ a = "download" => leftovers' = leftovers \cup {files}
           /\ a = "drop user" => leftovers' = leftovers \ {user}
           /\ a = "delete" => leftovers' = leftovers \ {files}
  BY Doing DEF Leave
<1>2. Running(j) /\ OnlyMoves(j) /\ UNCHANGED atStart
  BY <1>1 DEF Goes, At
<1>3. DataOK'
  BY Data DEF Leave, DataOK, docker, siteVars, nginx, benchVars
<1>4. LockHeld' /\ nginxLock' \in Jobs \cup {None}
  BY <1>1, LockKept DEF Leave, Steps, nginx
<1>5. ImagesHoldCode' /\ Built' = Built
  BY <1>1, ImagesKept, Data DEF Leave, docker, benchVars, Steps, ImagesHoldCode
<1>6. SawWhatItUses' /\ saw' = [k \in Jobs |-> saw'[k]]
  BY <1>1, <1>5, SawKept DEF Leave, Steps
<1>7. ListsKeepNames'
  BY <1>1, RoutedKept DEF Leave, Steps, nginx, siteVars
<1>8. Removable'
  <2>1. ASSUME NEW s \in Sites, <<s, "user">> \in leftovers'
        PROVE  \E k \in Jobs : SiteOf[k] = s /\ (result'[k] = "killed" \/ UsesUser(k)')
    <3>1. <<s, "user">> # files /\ (<<s, "user">> = user <=> s = SiteOf[j])
      OBVIOUS
    <3>2. CASE a = "user" /\ s = SiteOf[j]
      <4>1. j \notin failing
        BY <1>1, <3>2 DEF Goes
      <4>2. result'[j] = "running" /\ Head(todo'[j]) \in AsUser
        BY <1>1, <3>2, <4>1 DEF Goes, Last, Follows
      <4> QED BY <3>2, <4>2 DEF UsesUser, Running
    <3>3. CASE ~(a = "user" /\ s = SiteOf[j])
      <4>1. <<s, "user">> \in leftovers /\ (a = "drop user" => s # SiteOf[j])
        BY <1>1, <2>1, <3>1, <3>3
      <4>2. PICK k \in Jobs : SiteOf[k] = s /\ (result[k] = "killed" \/ UsesUser(k))
        BY <4>1 DEF IInv, Removable
      <4>3. CASE a = "drop user"
        <5>1. k # j
          BY <4>1, <4>2, <4>3
        <5> QED BY <1>2, <4>2, <5>1, Others DEF UsesUser, Running
      <4>4. CASE a # "drop user"
        BY <1>1, <4>2, <4>4, WillTidy DEF Steps
      <4> QED BY <4>3, <4>4
    <3> QED BY <3>2, <3>3
  <2>2. ASSUME NEW k \in Jobs, <<k, "download">> \in leftovers'
        PROVE  UsesFiles(k)'
    <3>1. <<k, "download">> # user /\ (<<k, "download">> = files <=> k = j)
      OBVIOUS
    <3>2. CASE k # j
      <4>1. <<k, "download">> \in leftovers
        BY <1>1, <2>2, <3>1, <3>2
      <4> QED BY <1>2, <3>2, <4>1, OtherFiles DEF IInv, Removable
    <3>3. CASE k = j /\ a = "download"
      <4>1. j \notin failing /\ failing' = failing
        BY <1>1, <3>3 DEF Goes
      <4>2. /\ result'[j] = "running" /\ Kind[j] \in {"restore_site", "from_backup"}
            /\ Follows(Kind[j], a, Head(todo'[j]))
        BY <1>1, <3>3, <4>1 DEF Goes, Last, StepOf
      <4>3. Head(todo'[j]) \in {"user", "create", "restore", "drop user", "delete"}
        BY <3>3, <4>2 DEF Follows
      <4> QED BY <3>3, <4>1, <4>2, <4>3 DEF UsesFiles, Running
    <3>4. CASE k = j /\ a # "download"
      <4>1. <<j, "download">> \in leftovers /\ a # "delete"
        BY <1>1, <2>2, <3>1, <3>4
      <4>2. UsesFiles(j)
        BY <4>1 DEF IInv, Removable
      <4> QED BY <1>1, <3>4, <4>1, <4>2, WillDelete DEF Steps
    <3> QED BY <3>2, <3>3, <3>4
  <2> QED BY <2>1, <2>2 DEF Removable
<1>9. JobAt(j)' /\ Complete(j)
  <2>1. CASE j \notin failing
    <3>1. Kind[j] \notin ThreeKinds
      BY <1>1, <2>1 DEF Goes, StepOf, ThreeKinds
    <3> QED BY <1>1, <3>1, JobKept DEF ThreeKinds, Steps
  <2>2. CASE j \in failing
    <3>1. result'[j] # "Success"
      BY <1>1, <2>2 DEF Goes
    <3>2. Head(<<"delete">>) = "delete"
      BY DeleteFirst
    <3>3. result'[j] = "running" => Head(todo'[j]) = "delete"
      BY <1>1, <2>2, <3>2 DEF Goes
    <3>4. Kind[j] = "recover" /\ j \notin overlaps => image' = ImageOf[j]
      BY <1>1, <1>2 DEF IInv, Progress, RecoveryAt, Goes, At, Leave, benchVars
    <3>5. UNCHANGED overlaps
      BY <1>2 DEF atStart
    <3> QED BY <3>1, <3>3, <3>4, <3>5
            DEF JobAt, Complete, Ends, UpdateAt, RecoveryAt, RenameAt, At, Running
  <2> QED BY <2>1, <2>2
<1> QED BY <1>2, <1>3, <1>4, <1>5, <1>6, <1>7, <1>8, <1>9, Together

-----------------------------------------------------------------------------
(* Updates, recoveries and renamings, from step to step.                   *)

LEMMA UpdateGoes ==
    ASSUME IInv, NEW j \in Jobs, NEW a \in Steps \ {"drop user", "delete"}, Goes(j, a),
           Kind[j] = "update", j \notin overlaps, j \in clean'
    PROVE  /\ j \in clean /\ UpdateAt(j) /\ ~At(j, "pull")'
           /\ At(j, "migrate")' => a = "pull"
           /\ At(j, "commit")' => a = "migrate"
           /\ At(j, "image")' => a = "commit"
           /\ At(j, "restart")' => a = "image"
           /\ result'[j] = "Success" => a \in {"restart", "pull"}
<1>1. j \notin failing /\ Running(j) /\ j \in clean
  BY DEF Goes, At, atStart
<1>2. UpdateAt(j)
  BY <1>1 DEF IInv, Progress
<1>3. CASE result'[j] = "Success" /\ (Last(Kind[j], a) \/ a = "pull")
  BY <1>1, <1>2, <1>3 DEF Last, At, Running
<1>4. CASE result'[j] = "running" /\ Follows(Kind[j], a, Head(todo'[j]))
  <2> DEFINE b == Head(todo'[j])
  <2>1. \/ a = "pull" /\ b = "migrate"
        \/ a = "migrate" /\ b = "commit"
        \/ a = "commit" /\ b = "image"
        \/ a = "image" /\ b = "restart"
    BY <1>4 DEF Follows
  <2>2. \A x : At(j, x)' => x = b
    BY DEF At
  <2> HIDE DEF b
  <2> QED BY <1>1, <1>2, <1>4, <2>1, <2>2
<1> QED BY <1>1, <1>3, <1>4 DEF Goes

LEMMA RecoveryGoes ==
    ASSUME IInv, NEW j \in Jobs, NEW a \in Steps \ {"drop user", "delete"}, Goes(j, a),
           Kind[j] = "recover", j \notin overlaps
    PROVE  /\ a # "image" => image = ImageOf[j]
           /\ a \in {"list", "route", "recover sites"} => RunsImage
           /\ Running(j)' => Head(todo'[j]) # "image"
           /\ At(j, "list")' => a = "run"
           /\ At(j, "route")' => a = "list"
           /\ At(j, "recover sites")' => a = "route"
           /\ result'[j] = "Success" => a = "recover sites"
<1>1. j \notin failing /\ Running(j) /\ Head(todo[j]) = a
  BY DEF Goes, At
<1>2. /\ a # "image" => image = ImageOf[j]
      /\ a \in {"list", "route", "recover sites"} => RunsImage
  BY <1>1 DEF IInv, Progress, RecoveryAt, At
<1>3. CASE result'[j] = "Success" /\ (Last(Kind[j], a) \/ a = "pull")
  BY <1>1, <1>2, <1>3 DEF Goes, StepOf, Last, At, Running
<1>4. CASE result'[j] = "running" /\ Follows(Kind[j], a, Head(todo'[j]))
  <2> DEFINE b == Head(todo'[j])
  <2>1. \/ a = "image" /\ b = "maintain"
        \/ a = "maintain" /\ b = "remove"
        \/ a = "remove" /\ b = "run"
        \/ a = "run" /\ b = "list"
        \/ a = "list" /\ b = "route"
        \/ a = "route" /\ b = "recover sites"
    BY <1>4 DEF Follows
  <2>2. \A x : At(j, x)' => x = b
    BY DEF At
  <2>3. b # "image"
    BY <2>1
  <2> HIDE DEF b
  <2>4. /\ At(j, "list")' => a = "run"
        /\ At(j, "route")' => a = "list"
        /\ At(j, "recover sites")' => a = "route"
    BY <2>1, <2>2
  <2> QED BY <1>2, <1>4, <2>3, <2>4 DEF b
<1> QED BY <1>1, <1>3, <1>4 DEF Goes

LEMMA RenameGoes ==
    ASSUME IInv, NEW j \in Jobs, NEW a \in Steps \ {"drop user", "delete"}, Goes(j, a),
           Kind[j] = "rename", j \notin overlaps
    PROVE  /\ a \in {"site off", "rename"} => site[saw[j]] = "ok"
           /\ a \in {"list", "route", "site on"} => site[NameOf[j]] = "ok"
           /\ a = "route" => NameOf[j] \in saw[j]
           /\ a = "site on" => NameOf[j] \in routed
           /\ At(j, "site off")' => a = "find"
           /\ At(j, "rename")' => a = "site off"
           /\ At(j, "list")' => a = "rename"
           /\ At(j, "route")' => a = "list"
           /\ At(j, "site on")' => a = "route"
           /\ result'[j] = "Success" => a = "site on"
<1>1. j \notin failing /\ Running(j) /\ Head(todo[j]) = a
  BY DEF Goes, At
<1>2. /\ a \in {"site off", "rename"} => site[saw[j]] = "ok"
      /\ a \in {"list", "route", "site on"} => site[NameOf[j]] = "ok"
      /\ a = "route" => NameOf[j] \in saw[j]
      /\ a = "site on" => NameOf[j] \in routed
  BY <1>1 DEF IInv, Progress, RenameAt, At
<1>3. CASE result'[j] = "Success" /\ (Last(Kind[j], a) \/ a = "pull")
  BY <1>1, <1>2, <1>3 DEF Goes, StepOf, Last, At, Running
<1>4. CASE result'[j] = "running" /\ Follows(Kind[j], a, Head(todo'[j]))
  <2> DEFINE b == Head(todo'[j])
  <2>1. \/ a = "find" /\ b = "site off"
        \/ a = "site off" /\ b = "rename"
        \/ a = "rename" /\ b = "list"
        \/ a = "list" /\ b = "route"
        \/ a = "route" /\ b = "site on"
    BY <1>4 DEF Follows
  <2>2. \A x : At(j, x)' => x = b
    BY DEF At
  <2> HIDE DEF b
  <2> QED BY <1>2, <1>4, <2>1, <2>2
<1> QED BY <1>1, <1>3, <1>4 DEF Goes

\* The three at once: what is to be shown after a step.
LEMMA ShowJob ==
    ASSUME IInv, NEW j \in Jobs, (\E a \in Steps : Goes(j, a)),
           Kind[j] = "update" /\ j \notin overlaps /\ j \in clean' =>
               /\ UpdateAt(j)'
               /\ result'[j] = "Success" => Consistent' /\ container'.code = ImageOf[j],
           Kind[j] = "recover" /\ j \notin overlaps =>
               /\ Running(j)' => RecoveryAt(j)'
               /\ result'[j] = "Success" /\ ImageOf[j] \in FirstImages =>
                     /\ Consistent' /\ Up' /\ image' = ImageOf[j]
                     /\ maintenance' \cap Readable' = {},
           Kind[j] = "rename" /\ j \notin overlaps =>
               /\ RenameAt(j)'
               /\ result'[j] = "Success" =>
                     site'[NameOf[j]] = "ok" /\ NameOf[j] \in routed' \ maintenance'
    PROVE  JobAt(j)' /\ Complete(j)
BY DEF Goes, atStart, JobAt, Complete, Ends

-----------------------------------------------------------------------------
(* setup_nginx and setup_code_server.                                      *)

\* Steps that change neither a site, an image nor the container.
NginxOnly(j) == UNCHANGED <<directory, conf, image, container, local, registry, codeOf,
                            site, migrated, maintenance, leftovers>>

LEMMA NginxStep ==
    ASSUME IInv, NEW j \in Jobs,
           NEW a \in {"list", "route", "list unlocked", "route unlocked", "read", "find"},
           Goes(j, a), NginxOnly(j)
    PROVE  /\ Running(j) /\ OnlyMoves(j) /\ UNCHANGED atStart
           /\ routed' \subseteq Sites => DataOK'
           /\ ImagesHoldCode' /\ Built' = Built
           /\ Removable'
<1>1. Running(j) /\ OnlyMoves(j) /\ UNCHANGED atStart
  BY DEF Goes, At
<1>2. routed' \subseteq Sites => DataOK'
  BY Data DEF NginxOnly, DataOK
<1>3. ImagesHoldCode' /\ Built' = Built
  BY ImagesKept, Data DEF NginxOnly, ImagesHoldCode, Steps
<1>4. Removable'
  BY TidyKept DEF NginxOnly, Steps
<1> QED BY <1>1, <1>2, <1>3, <1>4

LEMMA ListSitesStep == ASSUME IInv, NEW j \in Jobs, ListSites(j) PROVE Kept
<1>1. Goes(j, "list") /\ j \notin failing /\ nginxLock = None
  <2>1. Goes(j, "list") /\ nginxLock = None
    BY Doing DEF ListSites, Free
  <2> QED BY <2>1 DEF Goes
<1>2. NginxOnly(j) /\ UNCHANGED routed
  BY DEF ListSites, NginxOnly, docker, siteVars, benchVars
<1>3. /\ Running(j) /\ OnlyMoves(j) /\ UNCHANGED atStart
      /\ routed' \subseteq Sites => DataOK'
      /\ ImagesHoldCode' /\ Built' = Built
      /\ Removable'
  BY <1>1, <1>2, NginxStep
<1>4. DataOK'
  BY <1>2, <1>3, Data DEF DataOK
<1>5. \A k \in Jobs \ {j} : /\ \A x : At(k, x)' <=> At(k, x)
                            /\ result'[k] = result[k] /\ saw'[k] = saw[k]
  BY <1>3, Others DEF ListSites, IInv, Shapes
<1>6. /\ saw'[j] = Readable /\ saw' = [k \in Jobs |-> saw'[k]] /\ nginxLock' = j
  BY DEF ListSites, IInv, Shapes
<1>7. /\ At(j, "route")'
      /\ \A x \in {"route unlocked", "write", "site off", "rename", "site on"} : ~At(j, x)'
      /\ result'[j] # "Success"
  <2>1. result'[j] = "running" /\ Head(todo'[j]) = "route"
    BY <1>1 DEF Goes, Last, Follows
  <2> QED BY <2>1 DEF At, Running
<1>8. \A k \in Jobs : ~At(k, "route")
  BY <1>1, BenchAssumption DEF IInv, LockHeld
<1>9. LockHeld' /\ nginxLock' \in Jobs \cup {None}
  BY <1>5, <1>6, <1>7, <1>8 DEF LockHeld
<1>10. SawWhatItUses'
  BY <1>3, <1>5, <1>6, <1>7 DEF IInv, SawWhatItUses, Readable
<1>11. ListsKeepNames'
  <2> SUFFICES ASSUME NEW m \in Jobs, Kind[m] \in Naming, Undisturbed(m)', site'[NameOf[m]] = "ok"
               PROVE  /\ At(m, "route")' => NameOf[m] \in saw'[m]
                      /\ HasRouted(m)' => /\ NameOf[m] \in routed'
                                          /\ \A k \in Jobs : At(k, "route")' => NameOf[m] \in saw'[k]
    BY DEF ListsKeepNames
  <2>1. /\ Undisturbed(m) /\ NameOf[m] \in Readable
    BY <1>2, <1>3, StillUndisturbed, BenchAssumption DEF NginxOnly, Readable
  <2>2. \A k \in Jobs : At(k, "route")' => k = j
    BY <1>5, <1>8
  <2>3. HasRouted(m)' => m # j /\ HasRouted(m)
    BY <1>5, <1>7 DEF HasRouted
  <2>4. HasRouted(m) => NameOf[m] \in routed
    BY <1>2, <2>1 DEF IInv, ListsKeepNames, Readable
  <2> QED BY <1>2, <1>6, <2>1, <2>2, <2>3, <2>4
<1>12. JobAt(j)' /\ Complete(j)
  <2>1. Kind[j] # "update"
    BY <1>1 DEF Goes, StepOf
  <2>2. ASSUME Kind[j] = "recover", j \notin overlaps
        PROVE  RecoveryAt(j)'
    <3>1. image = ImageOf[j] /\ RunsImage
      <4>1. "list" \in Steps \ {"drop user", "delete"}
        BY DEF Steps
      <4> QED BY <1>1, <2>2, <4>1, RecoveryGoes
    <3> QED BY <1>2, <3>1 DEF NginxOnly, RecoveryAt, RunsImage
  <2>3. ASSUME Kind[j] = "rename", j \notin overlaps
        PROVE  RenameAt(j)'
    <3>1. site[NameOf[j]] = "ok" /\ NameOf[j] \in Readable
      BY <1>1, <2>3, RenameGoes, BenchAssumption DEF Steps, Readable
    <3>2. \A x \in {"list", "site off", "rename", "site on"} : ~At(j, x)'
      BY <1>7 DEF At
    <3> QED BY <1>2, <1>6, <3>1, <3>2 DEF RenameAt, NginxOnly
  <2> QED BY <1>1, <1>7, <2>1, <2>2, <2>3, ShowJob DEF Steps
<1> QED BY <1>3, <1>4, <1>6, <1>9, <1>10, <1>11, <1>12, Together

LEMMA RouteStep == ASSUME IInv, NEW j \in Jobs, Route(j) PROVE Kept
<1>1. Goes(j, "route") /\ At(j, "route") /\ j \notin failing
  <2>1. Goes(j, "route")
    BY Doing DEF Route
  <2> QED BY <2>1 DEF Goes
<1>2. NginxOnly(j) /\ UNCHANGED saw
  BY DEF Route, NginxOnly, docker, siteVars, benchVars
<1>3. /\ Running(j) /\ OnlyMoves(j) /\ UNCHANGED atStart
      /\ routed' \subseteq Sites => DataOK'
      /\ ImagesHoldCode' /\ Built' = Built
      /\ Removable'
  BY <1>1, <1>2, NginxStep
<1>4. routed' = saw[j] /\ routed' \subseteq Sites /\ nginxLock' = None
  BY <1>1 DEF Route, IInv, SawWhatItUses
<1>5. \A k \in Jobs \ {j} : (\A x : At(k, x)' <=> At(k, x)) /\ result'[k] = result[k]
  BY <1>3, Others
<1>6. ~At(j, "route")'
  BY <1>1, GoesTo DEF Steps
<1>7. \A k \in Jobs : ~At(k, "route")'
  BY <1>1, <1>5, <1>6 DEF IInv, LockHeld
<1>8. LockHeld' /\ nginxLock' \in Jobs \cup {None}
  BY <1>4, <1>7, BenchAssumption DEF LockHeld
<1>9. SawWhatItUses' /\ saw' = [k \in Jobs |-> saw'[k]]
  BY <1>1, <1>2, <1>3, SawKept DEF Steps
<1>10. ListsKeepNames'
  <2> SUFFICES ASSUME NEW m \in Jobs, Kind[m] \in Naming, Undisturbed(m)', site'[NameOf[m]] = "ok"
               PROVE  HasRouted(m)' => NameOf[m] \in routed'
    BY <1>7 DEF ListsKeepNames
  <2>1. /\ Undisturbed(m) /\ site[NameOf[m]] = "ok"
    BY <1>2, <1>3, StillUndisturbed DEF NginxOnly
  <2>2. HasRouted(m)' /\ m # j => HasRouted(m)
    BY <1>5 DEF HasRouted
  <2>3. HasRouted(m) \/ m = j => NameOf[m] \in saw[j]
    BY <1>1, <2>1 DEF IInv, ListsKeepNames
  <2> QED BY <1>4, <2>2, <2>3
<1>11. JobAt(j)' /\ Complete(j)
  <2>1. Kind[j] # "update"
    BY <1>1 DEF Goes, StepOf
  <2>2. ASSUME Kind[j] = "recover", j \notin overlaps
        PROVE  RecoveryAt(j)' /\ result'[j] # "Success"
    <3>1. image = ImageOf[j] /\ RunsImage /\ result'[j] # "Success"
      <4>1. "route" \in Steps \ {"drop user", "delete"}
        BY DEF Steps
      <4> QED BY <1>1, <2>2, <4>1, RecoveryGoes
    <3> QED BY <1>2, <3>1 DEF NginxOnly, RecoveryAt, RunsImage
  <2>3. ASSUME Kind[j] = "rename", j \notin overlaps
        PROVE  RenameAt(j)' /\ result'[j] # "Success"
    <3>1. site[NameOf[j]] = "ok" /\ NameOf[j] \in saw[j] /\ result'[j] # "Success"
      <4>1. "route" \in Steps \ {"drop user", "delete"}
        BY DEF Steps
      <4> QED BY <1>1, <2>3, <4>1, RenameGoes
    <3>2. ~At(j, "site off")' /\ ~At(j, "rename")'
      BY <1>1, GoesTo DEF Steps
    <3> QED BY <1>2, <1>4, <3>1, <3>2 DEF RenameAt, NginxOnly
  <2> QED BY <1>1, <2>1, <2>2, <2>3, ShowJob DEF Steps
<1> QED BY <1>3, <1>4, <1>8, <1>9, <1>10, <1>11, Together

LEMMA ListUnlockedStep == ASSUME IInv, NEW j \in Jobs, ListUnlocked(j) PROVE Kept
<1>1. Goes(j, "list unlocked") /\ At(j, "list unlocked")
  BY Doing DEF ListUnlocked, Goes
<1>2. NginxOnly(j) /\ UNCHANGED <<routed, nginxLock>>
  BY DEF ListUnlocked, NginxOnly, docker, siteVars, benchVars, nginx
<1>3. /\ Running(j) /\ OnlyMoves(j) /\ UNCHANGED atStart
      /\ routed' \subseteq Sites => DataOK'
      /\ ImagesHoldCode' /\ Built' = Built
      /\ Removable'
  BY <1>1, <1>2, NginxStep
<1>4. DataOK'
  BY <1>2, <1>3, Data DEF DataOK
<1>5. /\ \A k \in Jobs \ {j} : saw'[k] = saw[k]
      /\ saw'[j] = Readable /\ saw' = [k \in Jobs |-> saw'[k]]
  BY DEF ListUnlocked, IInv, Shapes
<1>6. LockHeld' /\ nginxLock' \in Jobs \cup {None}
  BY <1>1, <1>2, LockKept DEF Steps
<1>7. SawWhatItUses'
  <2>1. \A k \in Jobs \ {j} : \A x : At(k, x)' <=> At(k, x)
    BY <1>3, Others
  <2>2. \A x \in {"route", "write", "site off", "rename"} : ~At(j, x)'
    BY <1>1, GoesTo DEF Steps
  <2> QED BY <1>3, <1>5, <2>1, <2>2 DEF IInv, SawWhatItUses, Readable
<1>8. ListsKeepNames'
  <2>1. ~At(j, "route")
    BY <1>1 DEF At
  <2> QED BY <1>1, <1>2, <1>5, <2>1, RoutedKept DEF Steps, NginxOnly
<1>9. JobAt(j)' /\ Complete(j)
  BY <1>1, OtherKinds DEF Steps, TheirSteps
<1> QED BY <1>3, <1>4, <1>5, <1>6, <1>7, <1>8, <1>9, Together

LEMMA RouteUnlockedStep == ASSUME IInv, NEW j \in Jobs, RouteUnlocked(j) PROVE Kept
<1>1. Goes(j, "route unlocked") /\ At(j, "route unlocked")
  BY Doing DEF RouteUnlocked, Goes
<1>2. NginxOnly(j) /\ UNCHANGED <<saw, nginxLock>>
  BY DEF RouteUnlocked, NginxOnly, docker, siteVars, benchVars
<1>3. /\ Running(j) /\ OnlyMoves(j) /\ UNCHANGED atStart
      /\ routed' \subseteq Sites => DataOK'
      /\ ImagesHoldCode' /\ Built' = Built
      /\ Removable'
  BY <1>1, <1>2, NginxStep
<1>4. routed' \subseteq Sites
  BY <1>1 DEF RouteUnlocked, IInv, SawWhatItUses
<1>5. LockHeld' /\ nginxLock' \in Jobs \cup {None}
  BY <1>1, <1>2, LockKept DEF Steps
<1>6. SawWhatItUses' /\ saw' = [k \in Jobs |-> saw'[k]]
  BY <1>1, <1>2, <1>3, SawKept DEF Steps
<1>7. JobAt(j)' /\ Complete(j) /\ Kind[j] = "code_server"
  BY <1>1, OtherKinds DEF Steps, TheirSteps, StepOf
<1>8. ListsKeepNames'
  <2> SUFFICES ASSUME NEW m \in Jobs, Kind[m] \in Naming, Undisturbed(m)'
               PROVE  FALSE
    BY DEF ListsKeepNames
  <2>1. m = j
    BY <1>3, <1>7, StillUndisturbed
  <2> QED BY <1>7, <2>1 DEF Naming
<1> QED BY <1>3, <1>4, <1>5, <1>6, <1>7, <1>8, Together

-----------------------------------------------------------------------------
(* What is read and used later, and the image of an update.                *)

\* Steps that read something and change nothing else.
LEMMA ReadStep ==
    ASSUME IInv, NEW j \in Jobs, NEW a \in {"read", "find"}, Goes(j, a), NginxOnly(j),
           UNCHANGED <<routed, nginxLock>>,
           NEW v, saw' = [saw EXCEPT ![j] = v],
           At(j, "write")' => v \in Built,
           At(j, "site off")' => v \in {SiteOf[j], NameOf[j]},
           JobAt(j)', Complete(j)
    PROVE  Kept
<1>1. /\ Running(j) /\ OnlyMoves(j) /\ UNCHANGED atStart
      /\ routed' \subseteq Sites => DataOK'
      /\ ImagesHoldCode' /\ Built' = Built
      /\ Removable'
  BY NginxStep
<1>2. DataOK'
  BY <1>1, Data DEF DataOK
<1>3. /\ \A k \in Jobs \ {j} : saw'[k] = saw[k]
      /\ saw'[j] = v /\ saw' = [k \in Jobs |-> saw'[k]]
  BY DEF IInv, Shapes
<1>4. LockHeld' /\ nginxLock' \in Jobs \cup {None}
  BY LockKept DEF Steps
<1>5. SawWhatItUses'
  <2>1. \A k \in Jobs \ {j} : \A x : At(k, x)' <=> At(k, x)
    BY <1>1, Others
  <2>2. \A x \in {"route", "route unlocked", "rename"} : ~At(j, x)'
    BY GoesTo DEF Steps
  <2> QED BY <1>1, <1>3, <2>1, <2>2 DEF IInv, SawWhatItUses
<1>6. ListsKeepNames'
  <2>1. ~At(j, "route")
    BY DEF At, Goes
  <2> QED BY <1>3, <2>1, RoutedKept DEF Steps, NginxOnly
<1> QED BY <1>1, <1>2, <1>3, <1>4, <1>5, <1>6, Together

LEMMA ReadConfigStep == ASSUME IInv, NEW j \in Jobs, ReadConfig(j) PROVE Kept
<1>1. Goes(j, "read")
  BY Doing DEF ReadConfig
<1>2. NginxOnly(j) /\ UNCHANGED <<routed, nginxLock>>
  BY DEF ReadConfig, NginxOnly, docker, siteVars, benchVars, nginx
<1>3. saw' = [saw EXCEPT ![j] = image] /\ image \in Built
  BY Data DEF ReadConfig, ImagesHoldCode
<1>4. ~At(j, "site off")'
  BY <1>1, GoesTo DEF Steps
<1>5. JobAt(j)' /\ Complete(j)
  BY <1>1, OtherKinds DEF Steps, TheirSteps
<1> QED BY <1>1, <1>2, <1>3, <1>4, <1>5, ReadStep

LEMMA FindSiteStep == ASSUME IInv, NEW j \in Jobs, FindSite(j) PROVE Kept
<1> DEFINE v == IF site[SiteOf[j]] = "ok" THEN SiteOf[j] ELSE NameOf[j]
<1>1. Goes(j, "find") /\ "ok" \in {site[SiteOf[j]], site[NameOf[j]]}
  BY Doing, Possibles DEF FindSite
<1>2. NginxOnly(j) /\ UNCHANGED <<routed, nginxLock>>
  BY DEF FindSite, NginxOnly, docker, siteVars, benchVars, nginx
<1>3. saw' = [saw EXCEPT ![j] = v] /\ v \in {SiteOf[j], NameOf[j]} /\ site[v] = "ok"
  BY <1>1 DEF FindSite
<1>4. ~At(j, "write")'
  BY <1>1, GoesTo DEF Steps
<1> HIDE DEF v
<1>5. saw'[j] = v
  BY <1>3 DEF IInv, Shapes
<1>6. JobAt(j)' /\ Complete(j)
  <2>1. Kind[j] = "rename"
    BY <1>1 DEF Goes, StepOf
  <2>2. ASSUME j \notin overlaps
        PROVE  RenameAt(j)' /\ result'[j] # "Success"
    <3>1. "find" \in Steps \ {"drop user", "delete"}
      BY DEF Steps
    <3>2. /\ ~At(j, "rename")' /\ ~At(j, "list")' /\ ~At(j, "route")' /\ ~At(j, "site on")'
          /\ result'[j] # "Success"
      BY <1>1, <2>1, <2>2, <3>1, RenameGoes
    <3> QED BY <1>2, <1>3, <1>5, <3>2 DEF RenameAt, NginxOnly
  <2> QED BY <1>1, <2>1, <2>2, ShowJob DEF Steps
<1> QED BY <1>1, <1>2, <1>3, <1>4, <1>6, ReadStep

LEMMA CommitContainerStep == ASSUME IInv, NEW j \in Jobs, CommitContainer(j) PROVE Kept
<1>1. Goes(j, "commit") /\ container # None
  BY Doing, Possibles DEF CommitContainer
<1>2. Running(j) /\ OnlyMoves(j) /\ UNCHANGED atStart /\ Kind[j] = "update"
  BY <1>1 DEF Goes, At, StepOf
<1>3. container.code \in Images /\ ImageOf[j] \in Images \ FirstImages
  BY <1>1, <1>2, Data, BenchAssumption DEF DataOK
<1>4. /\ codeOf' \in [Images -> Images \cup {None}]
      /\ codeOf'[ImageOf[j]] = container.code
      /\ \A i \in Images : i # ImageOf[j] => codeOf'[i] = codeOf[i]
      /\ local' = local \cup {ImageOf[j]} /\ UNCHANGED <<image, registry, container>>
  BY <1>3, Data DEF CommitContainer, DataOK, benchVars
<1>5. DataOK'
  BY <1>3, <1>4, Data DEF CommitContainer, DataOK, siteVars, nginx, benchVars
<1>6. Built' = Built \cup {ImageOf[j]}
  BY <1>3, <1>4, Data DEF Built
<1>7. ImagesHoldCode'
  <2>1. /\ image' \in Built' /\ local' \cup registry' \subseteq Built'
        /\ container' # None => container'.image \in Built'
    BY <1>4, <1>6, Data DEF ImagesHoldCode
  <2>2. \A i \in FirstImages : codeOf'[i] = i
    BY <1>3, <1>4, Data DEF ImagesHoldCode
  <2>3. \A k \in Jobs \ {j} : \A x : At(k, x)' <=> At(k, x)
    BY <1>2, Others
  <2>4. \A k \in Jobs : At(k, "image")' => ImageOf[k] \in Built'
    BY <1>6, <2>3, Data DEF ImagesHoldCode
  <2> QED BY <2>1, <2>2, <2>4 DEF ImagesHoldCode
<1>8. SawWhatItUses' /\ saw' = [k \in Jobs |-> saw'[k]]
  BY <1>1, <1>6, SawKept DEF CommitContainer, Steps
<1>9. LockHeld' /\ nginxLock' \in Jobs \cup {None}
  BY <1>1, LockKept DEF CommitContainer, Steps, nginx
<1>10. ListsKeepNames'
  BY <1>1, RoutedKept DEF CommitContainer, Steps, nginx, siteVars
<1>11. Removable'
  BY <1>1, TidyKept DEF CommitContainer, Steps
<1>12. JobAt(j)' /\ Complete(j)
  <2>1. ASSUME j \notin overlaps, j \in clean'
        PROVE  UpdateAt(j)' /\ result'[j] # "Success"
    <3>1. "commit" \in Steps \ {"drop user", "delete"}
      BY DEF Steps
    <3>2. /\ UpdateAt(j) /\ ~At(j, "pull")' /\ ~At(j, "migrate")' /\ ~At(j, "commit")'
          /\ ~At(j, "restart")' /\ result'[j] # "Success"
      BY <1>1, <1>2, <2>1, <3>1, UpdateGoes
    <3>3. HasNew(j) /\ Migrated
      BY <1>1, <3>2 DEF UpdateAt, Goes
    <3>4. HasNew(j)' /\ Migrated'
      BY <1>4, <3>3 DEF HasNew, Migrated, Readable, CommitContainer, siteVars
    <3> QED BY <1>4, <3>2, <3>3, <3>4 DEF UpdateAt, HasNew
  <2> QED BY <1>1, <1>2, <2>1, ShowJob DEF Steps
<1> QED BY <1>2, <1>5, <1>7, <1>8, <1>9, <1>10, <1>11, <1>12, Together

-----------------------------------------------------------------------------
(* The steps of updates, recoveries and renamings.                         *)

LEMMA Containers ==
    \A c \in [image : Images, code : Images, up : BOOLEAN] : c # None
<1>1. Images \subseteq Nat
  <2>1. FirstImages \subseteq Nat /\ \A j \in Jobs : ImageOf[j] \in Nat
    BY BenchAssumption
  <2> QED BY <2>1 DEF Images
<1>2. None \notin [image : Nat, code : Nat, up : BOOLEAN]
  BY BenchAssumption
<1> QED BY <1>1, <1>2

LEMMA RemoveContainerStep == ASSUME IInv, NEW j \in Jobs, Remove(j) PROVE Kept
<1>1. Goes(j, "remove")
  BY Doing DEF Remove
<1>2. DataOK'
  BY Data DEF Remove, DataOK, siteVars, nginx, benchVars
<1>3. JobAt(j)' /\ Complete(j)
  <2>1. Kind[j] # "update" /\ Kind[j] # "rename"
    BY <1>1 DEF Goes, StepOf
  <2>2. ASSUME Kind[j] = "recover", j \notin overlaps
        PROVE  RecoveryAt(j)' /\ result'[j] # "Success"
    <3>1. "remove" \in Steps \ {"drop user", "delete"}
      BY DEF Steps
    <3>2. /\ image = ImageOf[j] /\ ~At(j, "list")' /\ ~At(j, "route")' /\ ~At(j, "recover sites")'
          /\ result'[j] # "Success"
      BY <1>1, <2>2, <3>1, RecoveryGoes
    <3> QED BY <3>2 DEF RecoveryAt, Remove, benchVars
  <2> QED BY <1>1, <2>1, <2>2, ShowJob DEF Steps
<1>4. /\ image' \in Built /\ local' \cup registry' \subseteq Built
      /\ container' # None => container'.image \in Built
  BY Data DEF Remove, ImagesHoldCode, benchVars
<1> QED BY <1>1, <1>2, <1>3, <1>4, Usual DEF Remove, siteVars, nginx, Steps, Special

LEMMA RunStep == ASSUME IInv, NEW j \in Jobs, Run(j) PROVE Kept
<1>1. Goes(j, "run")
  BY Doing DEF Run
<1>2. image \in Built /\ codeOf[image] \in Images
  BY Data DEF ImagesHoldCode
<1>3. /\ container' \in [image : Images, code : Images, up : BOOLEAN]
      /\ container'.image = image /\ container'.code = codeOf[image] /\ container'.up
  BY <1>2, Data DEF Run
<1>4. DataOK'
  BY <1>2, <1>3, Data DEF Run, DataOK, siteVars, nginx, benchVars
<1>5. JobAt(j)' /\ Complete(j)
  <2>1. Kind[j] # "update" /\ Kind[j] # "rename"
    BY <1>1 DEF Goes, StepOf
  <2>2. ASSUME Kind[j] = "recover", j \notin overlaps
        PROVE  RecoveryAt(j)' /\ result'[j] # "Success"
    <3>1. "run" \in Steps \ {"drop user", "delete"}
      BY DEF Steps
    <3>2. image = ImageOf[j] /\ result'[j] # "Success"
      BY <1>1, <2>2, <3>1, RecoveryGoes
    <3>3. image' = image /\ codeOf' = codeOf
      BY DEF Run, benchVars
    <3>4. container' # None
      BY <1>3, Containers
    <3> QED BY <1>3, <3>2, <3>3, <3>4 DEF RecoveryAt, RunsImage
  <2> QED BY <1>1, <2>1, <2>2, ShowJob DEF Steps
<1>6. /\ image' \in Built /\ local' \cup registry' \subseteq Built
      /\ container' # None => container'.image \in Built
  BY <1>2, <1>3, Data DEF Run, ImagesHoldCode, benchVars
<1> QED BY <1>1, <1>4, <1>5, <1>6, Usual DEF Run, siteVars, nginx, Steps, Special

LEMMA InContainerStep == ASSUME IInv, NEW j \in Jobs, InContainer(j) PROVE Kept
<1>1. PICK a \in {"install", "restart"} : Goes(j, a)
  BY Doing DEF InContainer
<1>2. SitesOnly(j)
  BY DEF InContainer, SitesOnly, docker, nginx, benchVars
<1>3. /\ UNCHANGED siteVars /\ maintenance' \subseteq Sites
      /\ site' \in [Sites -> {"none", "partial", "ok"}]
      /\ migrated' \in [Sites -> Images \cup {None}]
  BY Data DEF InContainer, DataOK, siteVars
<1>4. JobAt(j)' /\ Complete(j)
  <2>1. Kind[j] \notin {"recover", "rename"} /\ a \in Steps \ {"drop user", "delete"}
    BY <1>1 DEF Goes, StepOf, Steps
  <2>2. ASSUME Kind[j] = "update", j \notin overlaps, j \in clean'
        PROVE  /\ UpdateAt(j)'
               /\ result'[j] = "Success" => Consistent' /\ container'.code = ImageOf[j]
    <3>1. a = "restart"
      BY <1>1, <2>2 DEF Goes, StepOf
    <3>2. /\ UpdateAt(j) /\ ~At(j, "pull")' /\ ~At(j, "migrate")' /\ ~At(j, "commit")'
          /\ ~At(j, "image")' /\ ~At(j, "restart")'
      BY <1>1, <2>1, <2>2, <3>1, UpdateGoes
    <3>3. HasNew(j) /\ Consistent
      BY <1>1, <3>1, <3>2 DEF UpdateAt, Goes
    <3> QED BY <1>2, <1>3, <3>2, <3>3
            DEF UpdateAt, HasNew, Consistent, Readable, SitesOnly, siteVars
  <2> QED BY <1>1, <2>1, <2>2, ShowJob
<1> QED BY <1>1, <1>2, <1>3, <1>4, SiteStep DEF siteVars, Steps, Special

\* An update whose code is there already ends.
LEMMA EndGoes ==
    ASSUME IInv, NEW j \in Jobs, At(j, "pull"), Then(j, <<>>), UNCHANGED failing,
           UNCHANGED atStart
    PROVE  Goes(j, "pull") /\ result'[j] = "Success"
<1>1. Running(j) /\ Head(todo[j]) = "pull"
  BY DEF At
<1>2. j \notin failing /\ StepOf(Kind[j], "pull")
  <2>1. TypeOK /\ Shapes /\ Planned
    BY DEF IInv
  <2> QED BY <1>1, <2>1, Heads
<1>3. /\ todo' = [todo EXCEPT ![j] = <<>>]
      /\ result' = [result EXCEPT ![j] = "Success"]
  BY <1>2 DEF Then
<1>4. /\ result'[j] = "Success" /\ todo'[j] = <<>>
      /\ \A k \in Jobs \ {j} : result'[k] = result[k] /\ todo'[k] = todo[k]
      /\ result' \in [Jobs -> {"unordered", "queued", "running", "killed", "Success", "Failure"}]
      /\ todo' = [k \in Jobs |-> todo'[k]]
  BY <1>3 DEF IInv, TypeOK, Shapes
<1>5. OnlyMoves(j)
  BY <1>2, <1>4 DEF OnlyMoves
<1> QED BY <1>2, <1>4, <1>5 DEF Goes

LEMMA PullAppChangesStep == ASSUME IInv, NEW j \in Jobs, PullAppChanges(j) PROVE Kept
<1>1. /\ Goes(j, "pull") /\ Up
      /\ container.code = ImageOf[j] => result'[j] = "Success"
  <2>1. /\ Can(j, "pull") /\ At(j, "pull") /\ Up /\ UNCHANGED atStart
        /\ Advance(j) => Goes(j, "pull")
    BY Doing, Possibles DEF PullAppChanges, Can, Goes, At
  <2>2. CASE container.code = ImageOf[j]
    BY <2>1, <2>2, EndGoes DEF PullAppChanges
  <2>3. CASE container.code # ImageOf[j]
    BY <2>1, <2>3 DEF PullAppChanges
  <2> QED BY <2>2, <2>3, <2>1
<1>2. container # None /\ container \in [image : Images, code : Images, up : BOOLEAN]
  BY <1>1, Data DEF Up, DataOK
<1>3. /\ container' \in [image : Images, code : Images, up : BOOLEAN]
      /\ container'.image = container.image /\ container'.code = ImageOf[j]
      /\ container' = [container EXCEPT !.code = ImageOf[j]]
  BY <1>2, Data DEF PullAppChanges
<1>4. DataOK'
  BY <1>3, Data DEF PullAppChanges, DataOK, siteVars, nginx, benchVars
<1>5. container' # None
  BY <1>3, Containers
<1>6. JobAt(j)' /\ Complete(j)
  <2>1. Kind[j] = "update" /\ "pull" \in Steps \ {"drop user", "delete"}
    BY <1>1 DEF Goes, StepOf, Steps
  <2>2. ASSUME j \notin overlaps, j \in clean'
        PROVE  /\ UpdateAt(j)'
               /\ result'[j] = "Success" => Consistent' /\ container'.code = ImageOf[j]
    <3>1. /\ UpdateAt(j) /\ ~At(j, "pull")' /\ ~At(j, "commit")'
          /\ ~At(j, "image")' /\ ~At(j, "restart")'
      BY <1>1, <2>1, <2>2, UpdateGoes
    <3>2. Consistent
      BY <1>1, <3>1 DEF UpdateAt, Goes
    <3>3. result'[j] = "Success" => container.code = ImageOf[j]
      <4>1. container.code # ImageOf[j] => Advance(j)
        BY DEF PullAppChanges
      <4>2. TypeOK /\ Shapes /\ Planned /\ Running(j) /\ Head(todo[j]) = "pull" /\ j \notin failing
        BY <1>1 DEF IInv, Goes, At
      <4>3. Advance(j) /\ result'[j] = "Success" => Last(Kind[j], "pull")
        BY <4>2, Advances
      <4> QED BY <2>1, <4>1, <4>3 DEF Last
    <3>4. result'[j] = "Success" => Consistent'
      BY <1>3, <1>5, <3>2, <3>3
         DEF Consistent, Readable, PullAppChanges, siteVars, benchVars
    <3>5. HasNew(j)'
      BY <1>3, <1>5 DEF HasNew
    <3> QED BY <1>3, <3>1, <3>4, <3>5 DEF UpdateAt
  <2> QED BY <1>1, <2>1, <2>2, ShowJob
<1>7. /\ image' \in Built /\ local' \cup registry' \subseteq Built
      /\ container' # None => container'.image \in Built
  BY <1>2, <1>3, Data DEF PullAppChanges, ImagesHoldCode, benchVars
<1> QED BY <1>1, <1>4, <1>6, <1>7, Usual DEF PullAppChanges, siteVars, nginx, Steps, Special

-----------------------------------------------------------------------------
(* Further steps of updates, recoveries and renamings.                     *)

LEMMA MigrateSitesStep == ASSUME IInv, NEW j \in Jobs, MigrateSites(j) PROVE Kept
<1>1. Goes(j, "migrate") /\ Up /\ "migrate" \in Steps \ {"drop user", "delete"}
  BY Doing, Possibles DEF MigrateSites, Steps
<1>2. SitesOnly(j)
  BY DEF MigrateSites, SitesOnly, docker, nginx, benchVars
<1>3. container.code \in Images
  BY <1>1, Data DEF Up, DataOK
<1>4. /\ site' = site /\ site' \in [Sites -> {"none", "partial", "ok"}]
      /\ maintenance' \subseteq Sites /\ migrated' \in [Sites -> Images \cup {None}]
      /\ \A s \in Readable : migrated'[s] = container.code
  BY <1>3, Data DEF MigrateSites, DataOK, Readable
<1>5. JobAt(j)' /\ Complete(j)
  <2>1. Kind[j] = "update"
    BY <1>1 DEF Goes, StepOf
  <2>2. ASSUME j \notin overlaps, j \in clean'
        PROVE  UpdateAt(j)' /\ result'[j] # "Success"
    <3>1. /\ UpdateAt(j) /\ ~At(j, "pull")' /\ ~At(j, "migrate")' /\ ~At(j, "image")'
          /\ ~At(j, "restart")' /\ result'[j] # "Success"
      BY <1>1, <2>1, <2>2, UpdateGoes
    <3>2. HasNew(j)
      BY <1>1, <3>1 DEF UpdateAt, Goes
    <3> QED BY <1>2, <1>4, <3>1, <3>2 DEF UpdateAt, HasNew, Migrated, Readable, SitesOnly
  <2> QED BY <1>1, <2>1, <2>2, ShowJob
<1> QED BY <1>1, <1>2, <1>4, <1>5, SiteStep DEF Steps, Special

LEMMA SetImageStep == ASSUME IInv, NEW j \in Jobs, SetImage(j) PROVE Kept
<1>1. Goes(j, "image") /\ At(j, "image") /\ "image" \in Steps \ {"drop user", "delete"}
  BY Doing DEF SetImage, Can, Steps
<1>2. /\ image' = ImageOf[j] /\ ImageOf[j] \in Built
      /\ UNCHANGED <<container, local, registry, codeOf, site, migrated, maintenance, routed,
                     nginxLock, directory, conf, leftovers, saw>>
  BY <1>1, Data DEF SetImage, docker, siteVars, nginx, ImagesHoldCode
<1>3. DataOK'
  BY <1>2, Data DEF DataOK
<1>4. /\ image' \in Built /\ local' \cup registry' \subseteq Built
      /\ container' # None => container'.image \in Built
  BY <1>2, Data DEF ImagesHoldCode
<1>5. JobAt(j)' /\ Complete(j)
  <2>1. Kind[j] # "rename"
    BY <1>1 DEF Goes, StepOf
  <2>2. ASSUME Kind[j] = "update", j \notin overlaps, j \in clean'
        PROVE  UpdateAt(j)' /\ result'[j] # "Success"
    <3>1. /\ UpdateAt(j) /\ ~At(j, "pull")' /\ ~At(j, "migrate")' /\ ~At(j, "commit")'
          /\ ~At(j, "image")' /\ result'[j] # "Success"
      BY <1>1, <2>2, UpdateGoes
    <3>2. HasNew(j) /\ Migrated /\ codeOf[ImageOf[j]] = ImageOf[j]
      BY <1>1, <3>1 DEF UpdateAt
    <3>3. HasNew(j)' /\ Consistent'
      BY <1>2, <3>2 DEF HasNew, Migrated, Consistent, Readable
    <3> QED BY <3>1, <3>3 DEF UpdateAt
  <2>3. ASSUME Kind[j] = "recover", j \notin overlaps
        PROVE  RecoveryAt(j)' /\ result'[j] # "Success"
    <3>1. /\ ~At(j, "list")' /\ ~At(j, "route")' /\ ~At(j, "recover sites")'
          /\ result'[j] # "Success"
      BY <1>1, <2>3, RecoveryGoes
    <3> QED BY <1>2, <3>1 DEF RecoveryAt
  <2> QED BY <1>1, <2>1, <2>2, <2>3, ShowJob
<1> QED BY <1>1, <1>2, <1>3, <1>4, <1>5, Usual DEF Steps, Special

LEMMA EnableMaintenanceModeStep ==
    ASSUME IInv, NEW j \in Jobs, EnableMaintenanceMode(j) PROVE Kept
<1>1. Goes(j, "maintain") /\ "maintain" \in Steps \ {"drop user", "delete"}
  BY Doing DEF EnableMaintenanceMode, Steps
<1>2. SitesOnly(j)
  BY DEF EnableMaintenanceMode, SitesOnly, docker, nginx, benchVars
<1>3. /\ site' = site /\ site' \in [Sites -> {"none", "partial", "ok"}]
      /\ maintenance' \subseteq Sites /\ migrated' \in [Sites -> Images \cup {None}]
  BY Data DEF EnableMaintenanceMode, DataOK, Readable
<1>4. JobAt(j)' /\ Complete(j)
  <2>1. Kind[j] = "recover"
    BY <1>1 DEF Goes, StepOf
  <2>2. ASSUME j \notin overlaps
        PROVE  RecoveryAt(j)' /\ result'[j] # "Success"
    <3>1. /\ image = ImageOf[j] /\ ~At(j, "list")' /\ ~At(j, "route")'
          /\ ~At(j, "recover sites")' /\ result'[j] # "Success"
      BY <1>1, <2>1, <2>2, RecoveryGoes
    <3> QED BY <1>2, <3>1 DEF RecoveryAt, SitesOnly
  <2> QED BY <1>1, <2>1, <2>2, ShowJob
<1> QED BY <1>1, <1>2, <1>3, <1>4, SiteStep DEF Steps, Special

LEMMA RecoverSitesStep == ASSUME IInv, NEW j \in Jobs, RecoverSites(j) PROVE Kept
<1>1. Goes(j, "recover sites") /\ "recover sites" \in Steps \ {"drop user", "delete"}
  BY Doing DEF RecoverSites, Steps
<1>2. SitesOnly(j)
  BY DEF RecoverSites, SitesOnly, docker, nginx, benchVars
<1>3. /\ site' = site /\ site' \in [Sites -> {"none", "partial", "ok"}]
      /\ maintenance' \subseteq Sites /\ maintenance' \cap Readable = {}
      /\ migrated' \in [Sites -> Images \cup {None}]
      /\ \A s \in Readable : migrated'[s] \in {ImageOf[j], None}
  BY Data DEF RecoverSites, DataOK, Readable
<1>4. JobAt(j)' /\ Complete(j)
  <2>1. Kind[j] = "recover"
    BY <1>1 DEF Goes, StepOf
  <2>2. ASSUME j \notin overlaps
        PROVE  /\ RecoveryAt(j)'
               /\ ImageOf[j] \in FirstImages =>
                     /\ Consistent' /\ Up' /\ image' = ImageOf[j]
                     /\ maintenance' \cap Readable' = {}
    <3>1. /\ image = ImageOf[j] /\ ~At(j, "list")' /\ ~At(j, "route")'
          /\ ~At(j, "recover sites")' /\ RunsImage
      BY <1>1, <2>1, <2>2, RecoveryGoes
    <3>2. RecoveryAt(j)'
      BY <1>2, <3>1 DEF RecoveryAt, SitesOnly
    <3>3. ASSUME ImageOf[j] \in FirstImages
          PROVE  /\ Consistent' /\ Up' /\ image' = ImageOf[j]
                 /\ maintenance' \cap Readable' = {}
      <4>1. codeOf[ImageOf[j]] = ImageOf[j]
        BY <3>3, Data DEF ImagesHoldCode
      <4>2. Readable' = Readable
        BY <1>3 DEF Readable
      <4> QED BY <1>2, <1>3, <3>1, <4>1, <4>2 DEF RunsImage, Consistent, Up, SitesOnly
    <3> QED BY <3>2, <3>3
  <2> QED BY <1>1, <2>1, <2>2, ShowJob
<1> QED BY <1>1, <1>2, <1>3, <1>4, SiteStep DEF Steps, Special

LEMMA SetMaintenanceModeStep ==
    ASSUME IInv, NEW j \in Jobs, SetMaintenanceMode(j) PROVE Kept
<1>1. PICK a \in {"site off", "site on"} :
         /\ Goes(j, a) /\ Possible(j) /\ Head(todo[j]) = a
         /\ a = "site off" => maintenance' = maintenance \cup {saw[j]}
         /\ a = "site on" => maintenance' = maintenance \ {NameOf[j]}
  BY Doing DEF SetMaintenanceMode
<1>2. SitesOnly(j) /\ a \in Steps \ {"drop user", "delete"}
  BY DEF SetMaintenanceMode, SitesOnly, docker, nginx, benchVars, Steps
<1>3. a = "site off" => saw[j] \in Sites
  BY <1>1, Data DEF IInv, SawWhatItUses, Goes
<1>4. /\ site' = site /\ site' \in [Sites -> {"none", "partial", "ok"}]
      /\ maintenance' \subseteq Sites /\ migrated' \in [Sites -> Images \cup {None}]
  BY <1>1, <1>3, Data DEF SetMaintenanceMode, DataOK
<1>5. JobAt(j)' /\ Complete(j)
  <2>1. Kind[j] # "update" /\ Kind[j] # "recover"
    BY <1>1 DEF Goes, StepOf
  <2>2. ASSUME Kind[j] = "rename", j \notin overlaps
        PROVE  /\ RenameAt(j)'
               /\ result'[j] = "Success" =>
                     site'[NameOf[j]] = "ok" /\ NameOf[j] \in routed' \ maintenance'
    <3>1. /\ a = "site off" => site[saw[j]] = "ok"
          /\ a = "site on" => site[NameOf[j]] = "ok" /\ NameOf[j] \in routed
          /\ ~At(j, "site off")' /\ (At(j, "rename")' => a = "site off")
          /\ ~At(j, "list")' /\ ~At(j, "route")' /\ ~At(j, "site on")'
          /\ result'[j] = "Success" => a = "site on"
      BY <1>1, <1>2, <2>2, RenameGoes
    <3>2. RenameAt(j)'
      BY <1>2, <1>4, <3>1 DEF RenameAt, SitesOnly
    <3> QED BY <1>1, <1>2, <1>4, <3>1, <3>2 DEF SitesOnly
  <2> QED BY <1>1, <1>2, <2>1, <2>2, ShowJob
<1> QED BY <1>1, <1>2, <1>4, <1>5, SiteStep DEF Steps, Special

LEMMA RenameSiteStep == ASSUME IInv, NEW j \in Jobs, RenameSite(j) PROVE Kept
<1>1. /\ Goes(j, "rename") /\ At(j, "rename") /\ site[saw[j]] = "ok"
      /\ "rename" \in Steps \ {"drop user", "delete"}
  BY Doing, Possibles DEF RenameSite, Can, Steps
<1>2. SitesOnly(j)
  BY DEF RenameSite, SitesOnly, docker, nginx, benchVars
<1>3. Kind[j] = "rename"
  BY <1>1 DEF Goes, StepOf
<1>4. saw[j] \in Sites /\ NameOf[j] \in Sites
  BY <1>1, Data DEF IInv, SawWhatItUses
<1>5. /\ site' \in [Sites -> {"none", "partial", "ok"}] /\ site'[NameOf[j]] = "ok"
      /\ \A s \in Sites : site'[s] = "ok" => site[s] = "ok" \/ s = NameOf[j]
  <2>1. CASE saw[j] = NameOf[j]
    BY <1>1, <2>1, Data DEF RenameSite, DataOK
  <2>2. CASE saw[j] # NameOf[j]
    <3> DEFINE new == [s \in Sites |-> IF s = NameOf[j] THEN site[saw[j]] ELSE site[s]]
    <3>1. site' = [new EXCEPT ![saw[j]] = "none"]
      BY <2>2 DEF RenameSite
    <3>2. /\ new \in [Sites -> {"none", "partial", "ok"}] /\ new[NameOf[j]] = "ok"
          /\ \A s \in Sites : s # NameOf[j] => new[s] = site[s]
      BY <1>1, <1>4, Data DEF DataOK
    <3> HIDE DEF new
    <3> QED BY <1>4, <2>2, <3>1, <3>2
  <2> QED BY <2>1, <2>2
<1>6. maintenance' \subseteq Sites
  BY <1>4, Data DEF RenameSite, DataOK
<1>7. migrated' \in [Sites -> Images \cup {None}]
  BY <1>4, Data DEF RenameSite, DataOK
<1>8. JobAt(j)' /\ Complete(j)
  <2>1. ASSUME j \notin overlaps
        PROVE  RenameAt(j)' /\ result'[j] # "Success"
    <3>1. /\ ~At(j, "site off")' /\ ~At(j, "rename")' /\ ~At(j, "route")' /\ ~At(j, "site on")'
          /\ result'[j] # "Success"
      BY <1>1, <1>3, <2>1, RenameGoes
    <3> QED BY <1>5, <3>1 DEF RenameAt
  <2> QED BY <1>1, <1>3, <2>1, ShowJob
<1>9. Names(j, NameOf[j]) /\ ~At(j, "site on")
  BY <1>1, <1>3 DEF Names, At
<1> QED BY <1>1, <1>2, <1>5, <1>6, <1>7, <1>8, <1>9, SiteStep DEF Steps, Special

-----------------------------------------------------------------------------
(* Failures.                                                               *)

LEMMA RaiseStep == ASSUME IInv, NEW j \in Jobs, Raise(j) PROVE Kept
<1>1. Stops(j)
  BY Raising DEF Raise
<1>2. /\ UNCHANGED <<container, local, registry, codeOf, site, migrated, maintenance, routed,
                     directory, conf, image, leftovers, saw>>
      /\ nginxLock' = IF nginxLock = j THEN None ELSE nginxLock
  BY DEF Raise, docker, siteVars, benchVars
<1>3. DataOK'
  BY <1>2, Data DEF DataOK
<1>4. /\ image' \in Built /\ local' \cup registry' \subseteq Built
      /\ container' # None => container'.image \in Built
  BY <1>2, Data DEF ImagesHoldCode
<1> QED BY <1>1, <1>2, <1>3, <1>4, Failing

LEMMA FailHalfWayStep == ASSUME IInv, NEW j \in Jobs, FailHalfWay(j) PROVE Kept
<1>1. PICK a \in {"init", "create", "migrate"} : At(j, a)
  BY DEF FailHalfWay
<1>2. Running(j) /\ Head(todo[j]) = a /\ Possible(j)
  BY <1>1 DEF At, FailHalfWay
<1>3. Stops(j)
  BY <1>2, Raising DEF FailHalfWay
<1>4. UNCHANGED <<container, local, registry, codeOf, routed, nginxLock, leftovers, saw>>
  BY DEF FailHalfWay, docker, nginx
<1>5. ~At(j, "route")
  BY <1>2 DEF At
<1>6. /\ DataOK' /\ image' \in Built /\ \A s \in Sites : site'[s] = "ok" => site[s] = "ok"
  <2>1. CASE a = "init"
    <3>1. ImageOf[j] \in Built
      BY <1>2, <2>1, Possibles, Data
    <3>2. directory' = TRUE /\ image' = ImageOf[j] /\ UNCHANGED <<conf, siteVars>>
      BY <1>2, <2>1 DEF FailHalfWay, At
    <3>3. DataOK'
      BY <1>4, <3>2, Data DEF DataOK, siteVars
    <3> QED BY <3>1, <3>2, <3>3 DEF siteVars
  <2>2. CASE a = "create"
    <3>1. /\ site' = [site EXCEPT ![SiteOf[j]] = "partial"]
          /\ UNCHANGED <<directory, conf, image, migrated, maintenance>>
      BY <1>2, <2>2 DEF FailHalfWay, At, benchVars
    <3>2. /\ site' \in [Sites -> {"none", "partial", "ok"}]
          /\ \A s \in Sites : site'[s] = "ok" => site[s] = "ok"
      BY <3>1, Data DEF DataOK
    <3> QED BY <1>4, <3>1, <3>2, Data DEF DataOK, ImagesHoldCode
  <2>3. CASE a = "migrate"
    <3>1. /\ UNCHANGED <<directory, conf, image, site>>
          /\ \E s \in Readable, done \in SUBSET Readable :
                /\ maintenance' = (maintenance \ done) \cup {s}
                /\ migrated' = [t \in Sites |-> IF t \in done THEN container.code
                                               ELSE migrated[t]]
      BY <1>2, <2>3 DEF FailHalfWay, At, benchVars
    <3>2. container.code \in Images
      BY <1>2, <2>3, Possibles, Data DEF Up, DataOK
    <3>3. maintenance' \subseteq Sites
      BY <3>1, Data DEF DataOK, Readable
    <3>4. migrated' \in [Sites -> Images \cup {None}]
      BY <3>1, <3>2, Data DEF DataOK
    <3> QED BY <1>4, <3>1, <3>3, <3>4, Data DEF DataOK, ImagesHoldCode
  <2> QED BY <2>1, <2>2, <2>3
<1>7. /\ local' \cup registry' \subseteq Built
      /\ container' # None => container'.image \in Built
  BY <1>4, Data DEF ImagesHoldCode
<1> QED BY <1>3, <1>4, <1>5, <1>6, <1>7, Failing

LEMMA WorkerKilledStep == ASSUME IInv, NEW j \in Jobs, WorkerKilled(j) PROVE Kept
<1>1. /\ Running(j) /\ failing' = failing /\ UNCHANGED atStart
      /\ result' = [result EXCEPT ![j] = "killed"] /\ todo' = [todo EXCEPT ![j] = <<>>]
  BY DEF WorkerKilled
<1>2. /\ result'[j] = "killed" /\ todo'[j] = <<>>
      /\ \A k \in Jobs \ {j} : result'[k] = result[k] /\ todo'[k] = todo[k]
      /\ result' \in [Jobs -> {"unordered", "queued", "running", "killed", "Success", "Failure"}]
      /\ todo' = [k \in Jobs |-> todo'[k]]
  BY <1>1 DEF IInv, TypeOK, Shapes
<1>3. Stops(j)
  BY <1>1, <1>2 DEF Stops, OnlyMoves
<1>4. /\ UNCHANGED <<container, local, registry, codeOf, site, migrated, maintenance, routed,
                     directory, conf, image, leftovers, saw>>
      /\ nginxLock' = IF nginxLock = j THEN None ELSE nginxLock
  BY DEF WorkerKilled, docker, siteVars, benchVars
<1>5. DataOK'
  BY <1>4, Data DEF DataOK
<1>6. /\ image' \in Built /\ local' \cup registry' \subseteq Built
      /\ container' # None => container'.image \in Built
  BY <1>4, Data DEF ImagesHoldCode
<1> QED BY <1>3, <1>4, <1>5, <1>6, Failing

\* A step that touches at most the configuration, or nothing.
LEMMA NothingMoves ==
    ASSUME IInv, conf' \in {"missing", "broken", "ok"},
           UNCHANGED <<docker, siteVars, nginx, directory, image, jobVars, atStart,
                       leftovers, saw>>
    PROVE  Kept
<1>1. UNCHANGED <<container, local, registry, codeOf, site, migrated, maintenance, routed,
                  nginxLock, directory, image, todo, result, failing, clean, overlaps,
                  leftovers, saw>>
  BY DEF docker, siteVars, nginx, jobVars, atStart
<1>2. TypeOK'
  BY <1>1 DEF IInv, TypeOK, Running
<1>3. Shapes' /\ Planned' /\ LockHeld'
  BY <1>1 DEF IInv, Shapes, Planned, OnPlan, LockHeld, At, Running
<1>4. SawWhatItUses' /\ ImagesHoldCode'
  BY <1>1 DEF IInv, SawWhatItUses, ImagesHoldCode, Built, At, Running
<1>5. ListsKeepNames'
  BY <1>1 DEF IInv, ListsKeepNames, HasRouted, Undisturbed, Names, At, Running
<1>6. Removable' /\ OverlapsSeen'
  BY <1>1 DEF IInv, Removable, UsesUser, UsesFiles, OverlapsSeen, Running
<1>7. Progress'
  <2>1. Consistent' <=> Consistent
    BY <1>1 DEF Consistent, Readable
  <2>2. \A j \in Jobs : UpdateAt(j)' <=> UpdateAt(j)
    BY <1>1, <2>1 DEF UpdateAt, HasNew, Migrated, Readable, At, Running
  <2>3. \A j \in Jobs : RecoveryAt(j)' <=> RecoveryAt(j)
    BY <1>1 DEF RecoveryAt, RunsImage, At, Running
  <2>4. \A j \in Jobs : RenameAt(j)' <=> RenameAt(j)
    BY <1>1 DEF RenameAt, At, Running
  <2> QED BY <1>1, <2>2, <2>3, <2>4 DEF IInv, Progress, Running
<1>8. \A j \in Jobs : Complete(j)
  BY <1>1 DEF Complete, Ends, Running
<1> QED BY <1>2, <1>3, <1>4, <1>5, <1>6, <1>7, <1>8 DEF Kept, IInv

-----------------------------------------------------------------------------
(* The start of a job.                                                     *)

\* It takes up a plan or ends at once; the other jobs stay where they are.
Starts(j) ==
    /\ result[j] = "queued" /\ j \notin failing /\ failing' = failing
    /\ \A k \in Jobs \ {j} : result'[k] = result[k] /\ todo'[k] = todo[k]
    /\ \/ result'[j] = "Failure" /\ todo'[j] = <<>>
       \/ result'[j] = "Success" /\ todo'[j] = <<>> /\ Kind[j] \notin Naming
       \/ /\ result'[j] = "running" /\ todo'[j] = Plan(Kind[j])
          /\ todo'[j] # <<>> /\ OnPlan(j)' /\ First(Kind[j], Head(todo'[j]))
          /\ StepOf(Kind[j], Head(todo'[j]))

LEMMA PlanFirst ==
    ASSUME NEW j \in Jobs
    PROVE  LET plan == Plan(Kind[j])
           IN  /\ plan # <<>> /\ 1 \in 1..Len(plan) /\ plan = From(plan, 1)
               /\ First(Kind[j], Head(plan)) /\ StepOf(Kind[j], Head(plan))
<1> DEFINE plan == Plan(Kind[j])
<1>1. /\ plan \in Seq(Steps) /\ Len(plan) >= 1 /\ First(Kind[j], plan[1])
      /\ \A i \in 1..Len(plan) : StepOf(Kind[j], plan[i])
  BY Kinds DEF InOrder
<1> HIDE DEF plan
<1>2. Len(plan) \in Nat /\ 1 \in 1..Len(plan)
  BY <1>1, LenProperties
<1>3. plan = From(plan, 1)
  BY <1>1, SubSeqFull DEF From
<1>4. plan # <<>> /\ Head(plan) = plan[1]
  BY <1>1, <1>2, <1>3, Rest
<1> QED BY <1>1, <1>2, <1>3, <1>4 DEF plan

LEMMA Starting ==
    ASSUME IInv, NEW j \in Jobs, Start(j)
    PROVE  /\ Starts(j)
           /\ result' \in [Jobs -> {"unordered", "queued", "running", "killed",
                                    "Success", "Failure"}]
           /\ todo' = [k \in Jobs |-> todo'[k]]
<1> DEFINE r == IF Refused(j) THEN "Failure" ELSE IF Gone(j) THEN "Success" ELSE "running"
           t == IF Refused(j) \/ Gone(j) THEN <<>> ELSE Plan(Kind[j])
<1>1. /\ result[j] = "queued" /\ failing' = failing
      /\ result' = [result EXCEPT ![j] = r] /\ todo' = [todo EXCEPT ![j] = t]
  BY DEF Start
<1>2. \/ r = "Failure" /\ t = <<>>
      \/ r = "Success" /\ t = <<>> /\ Gone(j)
      \/ r = "running" /\ t = Plan(Kind[j])
  OBVIOUS
<1> HIDE DEF r, t
<1>3. /\ result'[j] = r /\ todo'[j] = t
      /\ \A k \in Jobs \ {j} : result'[k] = result[k] /\ todo'[k] = todo[k]
      /\ result' \in [Jobs -> {"unordered", "queued", "running", "killed", "Success", "Failure"}]
      /\ todo' = [k \in Jobs |-> todo'[k]]
  BY <1>1, <1>2 DEF IInv, TypeOK, Shapes
<1>4. j \notin failing
  BY <1>1 DEF IInv, Shapes
<1>5. Gone(j) => Kind[j] \notin Naming
  BY DEF Gone, Naming
<1>6. t = Plan(Kind[j]) => /\ t # <<>> /\ \E i \in 1..Len(Plan(Kind[j])) : t = From(Plan(Kind[j]), i)
                           /\ First(Kind[j], Head(t)) /\ StepOf(Kind[j], Head(t))
  BY PlanFirst
<1>7. t = Plan(Kind[j]) => OnPlan(j)'
  BY <1>1, <1>3, <1>4, <1>6 DEF OnPlan
<1> QED BY <1>1, <1>2, <1>3, <1>4, <1>5, <1>6, <1>7 DEF Starts

\* Where a job that starts is not.
LEMMA StartsAt ==
    ASSUME IInv, NEW j \in Jobs, Starts(j)
    PROVE  /\ ~Running(j) /\ \A x : ~At(j, x)
           /\ \A x \in {"route", "route unlocked", "write", "site off", "rename"} : ~At(j, x)'
           /\ At(j, "image")' => Kind[j] = "recover"
           /\ Kind[j] \in Naming => ~HasRouted(j)'
           /\ \A k \in Jobs \ {j} : /\ result'[k] = result[k] /\ todo'[k] = todo[k]
                                    /\ Running(k)' <=> Running(k)
                                    /\ \A x : At(k, x)' <=> At(k, x)
<1>1. ~Running(j) /\ \A x : ~At(j, x)
  BY DEF Starts, Running, At
<1>2. result'[j] # "running" => \A x : ~At(j, x)'
  BY DEF At, Running
<1>3. \A k \in Jobs \ {j} : /\ result'[k] = result[k] /\ todo'[k] = todo[k]
                            /\ Running(k)' <=> Running(k)
                            /\ \A x : At(k, x)' <=> At(k, x)
  BY DEF Starts, Running, At
<1>4. CASE result'[j] # "running"
  BY <1>1, <1>2, <1>3, <1>4 DEF Starts, HasRouted
<1>5. CASE result'[j] = "running"
  <2> DEFINE a == Head(todo'[j])
  <2>1. First(Kind[j], a) /\ StepOf(Kind[j], a) /\ \A x : At(j, x)' <=> x = a
    BY <1>5 DEF Starts, At, Running
  <2> HIDE DEF a
  <2>2. /\ a \notin {"route", "route unlocked", "write", "site off", "rename"}
        /\ a = "image" => Kind[j] = "recover"
        /\ Kind[j] \in Naming => a # "site on"
    BY <2>1 DEF First, StepOf
  <2> QED BY <1>1, <1>3, <1>5, <2>1, <2>2 DEF HasRouted
<1> QED BY <1>4, <1>5

LEMMA StartStep == ASSUME IInv, NEW j \in Jobs, Start(j) PROVE Kept
<1> DEFINE others == {k \in Jobs \ {j} : Running(k)}
<1>1. /\ Starts(j)
      /\ result' \in [Jobs -> {"unordered", "queued", "running", "killed", "Success", "Failure"}]
      /\ todo' = [k \in Jobs |-> todo'[k]]
  BY Starting
<1>2. /\ Kind[j] = "recover" => codeOf[ImageOf[j]] # None
      /\ overlaps' = overlaps \cup others \cup (IF others = {} THEN {} ELSE {j})
      /\ clean' = IF Consistent THEN clean \cup {j} ELSE clean
      /\ UNCHANGED <<container, local, registry, codeOf, site, migrated, maintenance, routed,
                     nginxLock, directory, conf, image, failing, leftovers, saw>>
  BY DEF Start, docker, siteVars, nginx, benchVars
<1>3. /\ result[j] = "queued" /\ j \notin failing
      /\ result'[j] \in {"running", "Success", "Failure"}
      /\ result'[j] = "running" <=> todo'[j] # <<>>
      /\ result'[j] = "running" => OnPlan(j)'
  BY <1>1 DEF Starts
<1>4. /\ ~Running(j) /\ \A x : ~At(j, x)
      /\ \A x \in {"route", "route unlocked", "write", "site off", "rename"} : ~At(j, x)'
      /\ At(j, "image")' => Kind[j] = "recover"
      /\ Kind[j] \in Naming => ~HasRouted(j)'
      /\ \A k \in Jobs \ {j} : /\ result'[k] = result[k] /\ todo'[k] = todo[k]
                               /\ Running(k)' <=> Running(k)
                               /\ \A x : At(k, x)' <=> At(k, x)
  BY <1>1, StartsAt
<1>5. j \notin overlaps /\ j \notin clean
  BY <1>3 DEF IInv, Shapes
<1>6. others \subseteq overlaps' /\ (others # {} => j \in overlaps') /\ overlaps \subseteq overlaps'
      /\ \A k \in overlaps' : k \in overlaps \/ k \in others \/ k = j
  BY <1>2
<1>7. TypeOK'
  <2>1. \A k \in Jobs : Running(k)' <=> todo'[k] # <<>>
    <3>1. \A k \in Jobs \ {j} : Running(k)' <=> todo'[k] # <<>>
      BY <1>4 DEF IInv, TypeOK
    <3>2. Running(j)' <=> todo'[j] # <<>>
      BY <1>3 DEF Running
    <3> QED BY <3>1, <3>2
  <2>2. nginxLock' # None => Running(nginxLock)'
    BY <1>2, <1>4 DEF IInv, TypeOK, Shapes
  <2> QED BY <1>1, <1>2, <2>1, <2>2 DEF IInv, TypeOK
<1>8. Shapes'
  <2>1. \A k \in failing' : k \in Jobs /\ result'[k] \in {"running", "killed", "Failure"}
    BY <1>2, <1>3, <1>4 DEF IInv, Shapes
  <2>2. \A k \in overlaps' : k \in Jobs /\ result'[k] \notin {"unordered", "queued"}
    BY <1>3, <1>4, <1>6 DEF IInv, Shapes, Running
  <2>3. \A k \in clean' : k \in Jobs /\ result'[k] \notin {"unordered", "queued"}
    BY <1>2, <1>3, <1>4 DEF IInv, Shapes
  <2> QED BY <1>1, <1>2, <2>1, <2>2, <2>3 DEF IInv, Shapes
<1>9. Planned'
  BY <1>2, <1>3, <1>4 DEF IInv, Planned, OnPlan, Running
<1>10. LockHeld'
  BY <1>2, <1>4 DEF IInv, LockHeld
<1>11. SawWhatItUses' /\ Built' = Built
  BY <1>2, <1>4 DEF IInv, SawWhatItUses, Built
<1>12. ImagesHoldCode'
  <2>1. ASSUME NEW k \in Jobs, At(k, "image")' PROVE ImageOf[k] \in Built'
    <3>1. CASE k = j
      BY <1>2, <1>4, <2>1, <3>1, Data DEF Built
    <3>2. CASE k # j
      BY <1>4, <1>11, <2>1, <3>2 DEF IInv, ImagesHoldCode
    <3> QED BY <3>1, <3>2
  <2> QED BY <1>2, <1>11, <2>1 DEF IInv, ImagesHoldCode
<1>13. ListsKeepNames'
  <2> SUFFICES ASSUME NEW k \in Jobs, Kind[k] \in Naming, Undisturbed(k)',
                      site'[NameOf[k]] = "ok"
               PROVE  /\ At(k, "route")' => NameOf[k] \in saw'[k]
                      /\ HasRouted(k)' => /\ NameOf[k] \in routed'
                                          /\ \A i \in Jobs : At(i, "route")' => NameOf[k] \in saw'[i]
    BY DEF ListsKeepNames
  <2>1. Undisturbed(k)
    BY <1>3, <1>4 DEF Undisturbed, Names
  <2>2. CASE k = j
    BY <1>4, <2>2
  <2>3. CASE k # j
    <3>1. HasRouted(k)' <=> HasRouted(k)
      BY <1>4, <2>3 DEF HasRouted
    <3> QED BY <1>2, <1>4, <2>1, <2>3, <3>1 DEF IInv, ListsKeepNames
  <2> QED BY <2>2, <2>3
<1>14. Removable'
  <2>1. ASSUME NEW s \in Sites, <<s, "user">> \in leftovers'
        PROVE  \E k \in Jobs : SiteOf[k] = s /\ (result'[k] = "killed" \/ UsesUser(k)')
    <3>1. PICK k \in Jobs : SiteOf[k] = s /\ (result[k] = "killed" \/ UsesUser(k))
      BY <1>2, <2>1 DEF IInv, Removable
    <3>2. k # j
      BY <1>3, <1>4, <3>1 DEF UsesUser
    <3>3. UsesUser(k)' <=> UsesUser(k)
      BY <1>4, <3>2 DEF UsesUser
    <3> QED BY <1>4, <3>1, <3>2, <3>3
  <2>2. ASSUME NEW k \in Jobs, <<k, "download">> \in leftovers' PROVE UsesFiles(k)'
    <3>1. UsesFiles(k)
      BY <1>2, <2>2 DEF IInv, Removable
    <3>2. k # j
      BY <1>3, <1>4, <3>1 DEF UsesFiles
    <3> QED BY <1>2, <1>4, <3>1, <3>2 DEF UsesFiles
  <2> QED BY <2>1, <2>2 DEF Removable
<1>15. OverlapsSeen'
  <2> SUFFICES ASSUME NEW i \in Jobs, NEW k \in Jobs, i # k, Running(i)', Running(k)'
               PROVE  i \in overlaps'
    BY DEF OverlapsSeen
  <2>1. CASE i = j
    BY <1>4, <1>6, <2>1
  <2>2. CASE i # j
    BY <1>4, <1>6, <2>2
  <2> QED BY <2>1, <2>2
<1>16. Progress'
  <2> SUFFICES ASSUME NEW k \in Jobs, k \notin overlaps', Running(k)'
               PROVE  /\ Kind[k] = "update" /\ k \in clean' => UpdateAt(k)'
                      /\ Kind[k] = "recover" => RecoveryAt(k)'
                      /\ Kind[k] = "rename" => RenameAt(k)'
    BY DEF Progress
  <2>1. k = j
    BY <1>4, <1>6
  <2> DEFINE a == Head(todo'[j])
  <2>2. First(Kind[j], a) /\ \A x : At(j, x)' <=> x = a
    BY <1>1, <2>1 DEF Starts, At, Running
  <2>3. j \in clean' => Consistent'
    BY <1>2, <1>5 DEF Consistent, Readable
  <2> HIDE DEF a
  <2>4. Kind[j] = "update" /\ j \in clean' => UpdateAt(j)'
    BY <2>2, <2>3 DEF First, UpdateAt
  <2>5. Kind[j] = "recover" => RecoveryAt(j)'
    BY <2>2 DEF First, RecoveryAt, a
  <2>6. Kind[j] = "rename" => RenameAt(j)'
    BY <2>2 DEF First, RenameAt
  <2> QED BY <2>1, <2>4, <2>5, <2>6
<1>17. \A k \in Jobs : Complete(k)
  <2>1. \A k \in Jobs : ~(Running(k) /\ result'[k] = "Success")
    BY <1>4 DEF Running
  <2> QED BY <2>1 DEF Complete, Ends
<1> QED BY <1>7, <1>8, <1>9, <1>10, <1>11, <1>12, <1>13, <1>14, <1>15, <1>16, <1>17
        DEF Kept, IInv

-----------------------------------------------------------------------------
(* The theorems.                                                           *)

LEMMA InitInvariant == Init => IInv
<1> SUFFICES ASSUME Init PROVE IInv
  OBVIOUS
<1>1. PICK ordered \in Orders :
         result = [j \in Jobs |-> IF j \in ordered THEN "queued" ELSE "unordered"]
  BY DEF Init
<1>2. /\ \A j \in Jobs : result[j] \in {"queued", "unordered"}
      /\ result \in [Jobs -> {"unordered", "queued", "running", "killed", "Success", "Failure"}]
  BY <1>1
<1>3. \A j \in Jobs : ~Running(j) /\ \A a : ~At(j, a)
  BY <1>2 DEF Running, At
<1>4. /\ image \in FirstImages /\ FirstImages \subseteq Images /\ Images \subseteq Nat
      /\ codeOf = [i \in Images |-> IF i \in FirstImages THEN i ELSE None]
      /\ None \notin Jobs /\ None \notin FirstImages
  <2>1. FirstImages \subseteq Nat /\ None \notin Nat /\ None \notin Jobs
    BY BenchAssumption
  <2>2. \A j \in Jobs : ImageOf[j] \in Nat
    BY BenchAssumption
  <2> QED BY <2>1, <2>2 DEF Init, Images
<1>5. /\ codeOf \in [Images -> Images \cup {None}]
      /\ \A i \in FirstImages : codeOf[i] = i /\ i \in Built
  BY <1>4 DEF Built
<1>6. container # None =>
         container \in [image : Images, code : Images, up : BOOLEAN] /\ container.image = image
  BY <1>4 DEF Init
<1>7. /\ directory \in BOOLEAN /\ conf \in {"missing", "broken", "ok"} /\ image \in Images
      /\ local \subseteq FirstImages /\ registry = FirstImages
      /\ site \in [Sites -> {"none", "partial", "ok"}] /\ migrated \in [Sites -> Images \cup {None}]
      /\ maintenance \subseteq Sites /\ routed \subseteq Sites
      /\ nginxLock = None /\ failing = {} /\ overlaps = {} /\ clean = {} /\ leftovers = {}
      /\ todo = [j \in Jobs |-> <<>>] /\ saw = [j \in Jobs |-> None]
  BY <1>4 DEF Init, Readable
<1>8. TypeOK
  BY <1>2, <1>3, <1>4, <1>6, <1>7 DEF TypeOK
<1>9. Shapes /\ Planned /\ LockHeld
  BY <1>3, <1>4, <1>5, <1>7 DEF Shapes, Planned, LockHeld
<1>10. SawWhatItUses
  BY <1>3 DEF SawWhatItUses
<1>11. ImagesHoldCode
  BY <1>3, <1>4, <1>5, <1>6, <1>7 DEF ImagesHoldCode
<1>12. ListsKeepNames
  BY <1>2, <1>3 DEF ListsKeepNames, HasRouted
<1>13. Removable /\ OverlapsSeen /\ Progress
  BY <1>3, <1>7 DEF Removable, OverlapsSeen, Progress
<1> QED BY <1>8, <1>9, <1>10, <1>11, <1>12, <1>13 DEF IInv

LEMMA StepInvariant == IInv /\ [Next]_vars => Kept
<1> SUFFICES ASSUME IInv, [Next]_vars PROVE Kept
  OBVIOUS
<1>1. ASSUME NEW j \in Jobs, Step(j) PROVE Kept
  <2>1. CASE Start(j) \/ InitBench(j) \/ Remove(j) \/ Run(j) \/ StopOrStart(j) \/ Prune(j)
             \/ Push(j) \/ ListSites(j) \/ Route(j) \/ ListUnlocked(j) \/ RouteUnlocked(j)
    BY <2>1, StartStep, InitBenchStep, RemoveContainerStep, RunStep, StopOrStartStep, PruneStep,
       PushStep, ListSitesStep, RouteStep, ListUnlockedStep, RouteUnlockedStep
  <2>2. CASE Leave(j) \/ CreateSite(j) \/ InContainer(j) \/ DropSite(j) \/ PullAppChanges(j)
             \/ RestoreSite(j) \/ Reinstall(j) \/ MigrateSite(j) \/ SetMaintenanceMode(j)
             \/ FindSite(j) \/ RenameSite(j)
    BY <2>2, LeaveStep, CreateSiteStep, InContainerStep, DropSiteStep, PullAppChangesStep,
       RestoreSiteStep, ReinstallStep, MigrateSiteStep, SetMaintenanceModeStep, FindSiteStep,
       RenameSiteStep
  <2>3. CASE MigrateSites(j) \/ CommitContainer(j) \/ SetImage(j) \/ EnableMaintenanceMode(j)
             \/ RecoverSites(j) \/ ReadConfig(j) \/ WriteConfig(j) \/ Check(j)
             \/ ContainerIsGone(j) \/ MoveToArchived(j) \/ Raise(j) \/ FailHalfWay(j)
    BY <2>3, MigrateSitesStep, CommitContainerStep, SetImageStep, EnableMaintenanceModeStep,
       RecoverSitesStep, ReadConfigStep, WriteConfigStep, CheckStep, ContainerIsGoneStep,
       MoveToArchivedStep, RaiseStep, FailHalfWayStep
  <2> QED BY <1>1, <2>1, <2>2, <2>3 DEF Step
<1>2. ASSUME NEW j \in Jobs, WorkerKilled(j) PROVE Kept
  BY <1>2, WorkerKilledStep
<1>3. CASE BreakConfig
  BY <1>3, NothingMoves DEF BreakConfig
<1>4. CASE UNCHANGED vars
  BY <1>4, NothingMoves, Data DEF vars, benchVars, DataOK
<1> QED BY <1>1, <1>2, <1>3, <1>4 DEF Next

\* The invariant holds in every state that the jobs of a bench reach, and
\* their steps complete what they report.
THEOREM Invariant == Spec => []IInv
<1>1. IInv /\ [Next]_vars => IInv'
  BY StepInvariant DEF Kept
<1> QED BY InitInvariant, <1>1, PTL DEF Spec

\* NewSiteStaysRouted: whatever is generated beside it, a site whose creation or
\* renaming was a success stays in the bench's nginx.conf (setup_nginx takes the
\* lock before it lists the sites, agent/bench.py).
THEOREM NewSitesStayRouted == Spec => []NewSiteStaysRouted
<1>1. IInv => NewSiteStaysRouted
  <2> SUFFICES ASSUME IInv, NEW j \in Jobs, Names(j, NameOf[j]), result[j] = "Success",
                      site[NameOf[j]] = "ok",
                      \A k \in {k \in Jobs \ {j} : Kind[k] = "code_server" \/ Names(k, NameOf[j])} :
                         result[k] \in {"unordered", "queued"}
               PROVE  NameOf[j] \in routed
    BY DEF NewSiteStaysRouted
  <2>1. Kind[j] \in Naming /\ Undisturbed(j)
    BY DEF Names, Naming, Undisturbed
  <2> QED BY <2>1 DEF IInv, ListsKeepNames, HasRouted
<1> QED BY <1>1, Invariant, PTL

\* JobsTidyUp: jobs that have ended leave neither temporary database users nor
\* downloads behind, whichever step raised (the finally blocks of agent/site.py and
\* agent/bench.py).
THEOREM JobsAreTidy == Spec => []JobsTidyUp
<1>1. IInv => JobsTidyUp
  <2> SUFFICES ASSUME IInv PROVE NothingTemporaryLeft
    BY DEF JobsTidyUp, IInv
  <2>1. ASSUME NEW s \in Sites, <<s, "user">> \in leftovers
        PROVE  \E j \in Jobs : SiteOf[j] = s /\ result[j] \in {"running", "killed"}
    BY <2>1 DEF IInv, Removable, UsesUser, Running
  <2>2. ASSUME NEW j \in Jobs, <<j, "download">> \in leftovers
        PROVE  \/ result[j] \in {"running", "killed"}
               \/ Kind[j] = "from_backup" /\ result[j] = "Failure"
    BY <2>2 DEF IInv, Removable, UsesFiles, Running
  <2> QED BY <2>1, <2>2 DEF NothingTemporaryLeft
<1> QED BY <1>1, Invariant, PTL

\* SuccessIsComplete: an in-place update, a recovery or a renaming that ran alone
\* and says success has done all of its work (update_inplace and
\* recover_update_inplace of agent/bench.py, rename_site_job of agent/site.py).
THEOREM SuccessesAreComplete == Spec => SuccessIsComplete
<1>1. IInv /\ [Next]_vars =>
         [\A j \in Jobs : Ends(j, "update") /\ j \in clean =>
             Consistent' /\ container'.code = ImageOf[j]]_vars
  BY StepInvariant DEF Kept, Complete
<1>2. IInv /\ [Next]_vars =>
         [\A j \in Jobs : Ends(j, "recover") /\ ImageOf[j] \in FirstImages =>
             Consistent' /\ Up' /\ image' = ImageOf[j] /\ maintenance' \cap Readable' = {}]_vars
  BY StepInvariant DEF Kept, Complete
<1>3. IInv /\ [Next]_vars =>
         [\A j \in Jobs : Ends(j, "rename") =>
             site'[NameOf[j]] = "ok" /\ NameOf[j] \in routed' \ maintenance']_vars
  BY StepInvariant DEF Kept, Complete
<1> QED BY Invariant, <1>1, <1>2, <1>3, PTL
        DEF Spec, SuccessIsComplete, InPlaceIsComplete, RecoveredIsConsistent, RenamedIsServed

=============================================================================
