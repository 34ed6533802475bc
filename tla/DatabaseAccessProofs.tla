------------------------- MODULE DatabaseAccessProofs -------------------------
(***************************************************************************)
(* Proofs about the queries and the database user for any number of        *)
(* sessions, any batches and any privileges.                               *)
(***************************************************************************)
EXTENDS DatabaseAccess, FiniteSetTheorems, SequenceTheorems, TLAPS

-----------------------------------------------------------------------------
(* Sequences of statements.                                                *)

LEMMA FirstAndRest ==
    ASSUME NEW q \in Seq(Statements), q # <<>>
    PROVE  /\ Head(q) \in Statements /\ Tail(q) \in Seq(Statements)
           /\ Len(q) \in Nat /\ Len(q) > 0 /\ Len(Tail(q)) = Len(q) - 1
           /\ q[1] = Head(q) /\ \A i \in 1..Len(Tail(q)) : Tail(q)[i] = q[i + 1]
<1>1. Len(q) \in Nat /\ Len(q) > 0
  BY LenProperties, EmptySeq
<1>2. q[1] = Head(q)
  BY <1>1
<1> QED BY <1>1, <1>2, HeadTailProperties

\* SetToSeq lists every element of a finite set.
LEMMA Enumeration ==
    ASSUME NEW S, IsFiniteSet(S)
    PROVE  /\ SetToSeq(S) \in Seq(S)
           /\ \A x \in S : \E i \in 1..Len(SetToSeq(S)) : SetToSeq(S)[i] = x
<1> DEFINE n == Cardinality(S)
           f == SetToSeq(S)
<1>1. n \in Nat /\ ExistsBijection(1..n, S)
  BY FS_CardinalityType
<1>2. \E g \in [1..n -> S] : IsInjective(g)
  BY <1>1 DEF ExistsBijection, Bijection, Injection
<1>3. f \in [1..n -> S] /\ IsInjective(f)
  BY <1>2 DEF SetToSeq
<1>4. f \in Injection(1..n, S)
  BY <1>3 DEF Injection
<1>5. IsFiniteSet(1..n) /\ Cardinality(1..n) = n
  BY <1>1, FS_Interval
<1>6. f \in Surjection(1..n, S)
  BY <1>4, <1>5, FS_Injection
<1>7. f \in Seq(S) /\ Len(f) = n
  BY <1>1, <1>3, SeqDef, LenProperties
<1> QED BY <1>6, <1>7 DEF Surjection

LEMMA FiniteObjects == IsFiniteSet(Objects)
<1> DEFINE f == [p \in Privileges |-> p[1]]
<1>1. f \in Surjection(Privileges, Objects)
  BY DEF Surjection, Objects
<1> QED BY <1>1, AccessAssumption, FS_Surjection

-----------------------------------------------------------------------------
(* The inductive invariant.                                                *)

\* What a query has run so far: the first n statements of its batch.
Counted(kind) == kind \in {"dml", "ddl"}
Count(batch, n) == Cardinality({i \in 1..n : Counted(batch[i].kind)})

Ran(s, n) ==
    LET batch == request[s].batch
    IN  /\ Len(queries[s]) = Len(batch) - n
        /\ \A i \in 1..Len(queries[s]) : queries[s][i] = batch[n + i]
        /\ durable[s] + pending[s] = Count(batch, n)

QueryOK(s) ==
    request[s].op = "query" =>
        /\ state[s] = "idle" => durable[s] = 0 /\ pending[s] = 0
        /\ state[s] = "open" =>
              /\ \E n \in 0..Len(request[s].batch) : Ran(s, n)
              /\ Kinds(s) \subseteq {"dml"} => durable[s] = 0
        /\ ~Commits(s) /\ "other" \notin Kinds(s) => durable[s] = 0
        /\ Commits(s) =>
              /\ state[s] = "success" => durable[s] = Changes(s)
              /\ Kinds(s) \subseteq {"dml"} => durable[s] \in {0, Changes(s)}

\* What the statements that are left do to the privileges of the user.
Takes(q, p) == \E i \in 1..Len(q) : q[i].effect = "revoke" /\ p \in q[i].privileges
Gives(q, p) == \E i \in 1..Len(q) : q[i].effect = "grant" /\ p \in q[i].privileges

\* All that is taken is taken before anything is given.
RevokesFirst(q) ==
    \A i \in 1..Len(q) :
        /\ q[i].effect \in {"revoke", "grant", "none"}
        /\ q[i].effect = "revoke" => \A k \in 1..i : q[k].effect = "revoke"

LeadsTo(q, held, wanted) ==
    \A p \in Privileges : p \in wanted <=> (p \in held /\ ~Takes(q, p)) \/ Gives(q, p)

ModifyOK(s) ==
    request[s].op = "modify" /\ state[s] = "open" /\ s \notin overlaps =>
        exists /\ RevokesFirst(queries[s]) /\ LeadsTo(queries[s], grants, request[s].wanted)

\* Queries leave the user alone.
Harmless(s) ==
    request[s].op = "query" => \A i \in 1..Len(queries[s]) : queries[s][i].effect = "none"

\* Sessions about the user that are open together are known to overlap.
Overlapped ==
    \A s, r \in Sessions :
        /\ s # r /\ state[s] = "open" /\ state[r] = "open"
        /\ request[s].op # "query" /\ request[r].op # "query"
        => s \in overlaps

IInv ==
    /\ TypeOK
    /\ Overlapped
    /\ \A s \in Sessions : QueryOK(s) /\ ModifyOK(s) /\ Harmless(s)

-----------------------------------------------------------------------------
(* What a sequence of statements comes to.                                 *)

LEMMA OneLess ==
    ASSUME NEW q \in Seq(Statements), q # <<>>
    PROVE  /\ \A p : Takes(q, p) <=>
                \/ Head(q).effect = "revoke" /\ p \in Head(q).privileges
                \/ Takes(Tail(q), p)
           /\ \A p : Gives(q, p) <=>
                \/ Head(q).effect = "grant" /\ p \in Head(q).privileges
                \/ Gives(Tail(q), p)
           /\ RevokesFirst(q) =>
                /\ RevokesFirst(Tail(q)) /\ Head(q).effect \in {"revoke", "grant", "none"}
                /\ Head(q).effect # "revoke" => \A p : ~Takes(q, p)
<1> DEFINE t == Tail(q)
<1>1. /\ Len(q) \in Nat /\ Len(q) > 0 /\ Len(t) = Len(q) - 1
      /\ q[1] = Head(q) /\ \A i \in 1..Len(t) : t[i] = q[i + 1]
  BY FirstAndRest
<1>2. \A i \in 1..Len(q) : i = 1 \/ (i - 1 \in 1..Len(t) /\ t[i - 1] = q[i])
  <2> TAKE i \in 1..Len(q)
  <2>1. i # 1 => i - 1 \in 1..Len(t) /\ (i - 1) + 1 = i
    BY <1>1
  <2> QED BY <1>1, <2>1
<1>3. \A i \in 1..Len(t) : i + 1 \in 1..Len(q) /\ t[i] = q[i + 1]
  BY <1>1
<1>4. 1 \in 1..Len(q)
  BY <1>1
<1> HIDE DEF t
<1>5. \A p : Takes(q, p) <=> \/ Head(q).effect = "revoke" /\ p \in Head(q).privileges
                             \/ Takes(t, p)
  BY <1>1, <1>2, <1>3, <1>4 DEF Takes
<1>6. \A p : Gives(q, p) <=> \/ Head(q).effect = "grant" /\ p \in Head(q).privileges
                             \/ Gives(t, p)
  BY <1>1, <1>2, <1>3, <1>4 DEF Gives
<1>7. ASSUME RevokesFirst(q) PROVE RevokesFirst(t)
  <2> SUFFICES ASSUME NEW i \in 1..Len(t)
               PROVE  /\ t[i].effect \in {"revoke", "grant", "none"}
                      /\ t[i].effect = "revoke" => \A k \in 1..i : t[k].effect = "revoke"
    BY DEF RevokesFirst
  <2>1. \A k \in 1..i : k \in 1..Len(t) /\ k + 1 \in 1..(i + 1)
    BY <1>1
  <2> QED BY <2>1, <1>3, <1>7 DEF RevokesFirst
<1>8. ASSUME RevokesFirst(q), Head(q).effect # "revoke" PROVE \A p : ~Takes(q, p)
  <2>1. \A i \in 1..Len(q) : 1 \in 1..i
    OBVIOUS
  <2> QED BY <2>1, <1>1, <1>8 DEF RevokesFirst, Takes
<1>9. RevokesFirst(q) => Head(q).effect \in {"revoke", "grant", "none"}
  BY <1>1, <1>4 DEF RevokesFirst
<1> QED BY <1>5, <1>6, <1>7, <1>8, <1>9 DEF t

LEMMA ForEachObject ==
    ASSUME NEW effect \in {"grant", "revoke"}, NEW ps \in SUBSET Privileges
    PROVE  /\ ForEach(effect, ps) \in Seq(Statements)
           /\ \A i \in 1..Len(ForEach(effect, ps)) : ForEach(effect, ps)[i].effect = effect
           /\ \A p \in Privileges :
                 p \in ps <=> \E i \in 1..Len(ForEach(effect, ps)) :
                                 p \in ForEach(effect, ps)[i].privileges
<1> DEFINE about   == {o \in Objects : On(o, ps) # {}}
           objects == SetToSeq(about)
           f       == ForEach(effect, ps)
<1>1. /\ objects \in Seq(about) /\ \A o \in about : \E i \in 1..Len(objects) : objects[i] = o
  BY FiniteObjects, FS_Subset, Enumeration
<1>2. Len(objects) \in Nat /\ DOMAIN objects = 1..Len(objects)
  BY <1>1, LenProperties
<1>3. \A i \in 1..Len(objects) : objects[i] \in about
  BY <1>1, ElementOfSeq
<1>4. f = [i \in 1..Len(objects) |-> Statement("dcl", effect, objects[i], On(objects[i], ps))]
  BY <1>2 DEF ForEach
<1>5. \A i \in 1..Len(objects) : Statement("dcl", effect, objects[i], On(objects[i], ps)) \in Statements
  BY <1>3 DEF Statement, Statements, On
<1>6. f \in Seq(Statements) /\ Len(f) = Len(objects)
  <2>1. f \in [1..Len(objects) -> Statements]
    BY <1>4, <1>5
  <2> HIDE DEF f, objects
  <2> QED BY <2>1, <1>2, SeqDef, LenProperties
<1>7. \A i \in 1..Len(f) : f[i].effect = effect /\ f[i].privileges = On(objects[i], ps)
  BY <1>4, <1>6 DEF Statement
<1>8. \A p \in Privileges : p \in ps => \E i \in 1..Len(f) : p \in f[i].privileges
  <2> SUFFICES ASSUME NEW p \in Privileges, p \in ps
               PROVE  \E i \in 1..Len(f) : p \in f[i].privileges
    OBVIOUS
  <2>1. p \in On(p[1], ps) /\ p[1] \in about
    BY DEF On, Objects
  <2>2. PICK i \in 1..Len(objects) : objects[i] = p[1]
    BY <2>1, <1>1
  <2> HIDE DEF f, objects
  <2> QED BY <2>1, <2>2, <1>6, <1>7
<1>9. \A p \in Privileges : (\E i \in 1..Len(f) : p \in f[i].privileges) => p \in ps
  BY <1>7 DEF On
<1> QED BY <1>6, <1>7, <1>8, <1>9

\* The statements of modify_user_permissions lead to what is wanted.
LEMMA ChangeLeads ==
    ASSUME grants \subseteq Privileges, NEW wanted \in SUBSET Privileges
    PROVE  /\ ChangeOfPrivileges(wanted) \in Seq(Statements)
           /\ RevokesFirst(ChangeOfPrivileges(wanted))
           /\ LeadsTo(ChangeOfPrivileges(wanted), grants, wanted)
<1> DEFINE f == ForEach("revoke", grants)
           g == ForEach("grant", wanted)
           q == f \o g \o <<Flush>>
<1>1. /\ f \in Seq(Statements)
      /\ \A i \in 1..Len(f) : f[i].effect = "revoke"
      /\ \A p \in Privileges : p \in grants <=> \E i \in 1..Len(f) : p \in f[i].privileges
  BY ForEachObject
<1>2. /\ g \in Seq(Statements)
      /\ \A i \in 1..Len(g) : g[i].effect = "grant"
      /\ \A p \in Privileges : p \in wanted <=> \E i \in 1..Len(g) : p \in g[i].privileges
  BY ForEachObject
<1>3. Flush \in Statements /\ Flush.effect = "none"
  BY DEF Flush, Statement, Statements
<1> HIDE DEF f, g
<1>4. <<Flush>> \in Seq(Statements) /\ Len(<<Flush>>) = 1 /\ <<Flush>>[1] = Flush
  BY <1>3
<1>5. q \in Seq(Statements) /\ Len(q) = Len(f) + Len(g) + 1
  BY <1>1, <1>2, <1>4, ConcatProperties, LenProperties
<1>6. Len(f) \in Nat /\ Len(g) \in Nat
  BY <1>1, <1>2, LenProperties
<1>7. /\ \A i \in 1..Len(f) : i \in 1..Len(q) /\ q[i] = f[i]
      /\ \A i \in 1..Len(g) : Len(f) + i \in 1..Len(q) /\ q[Len(f) + i] = g[i]
      /\ q[Len(f) + Len(g) + 1] = Flush
  BY <1>1, <1>2, <1>4, <1>5, <1>6, ConcatProperties
<1>8. \A i \in 1..Len(q) :
         \/ i \in 1..Len(f) /\ q[i] = f[i]
         \/ i - Len(f) \in 1..Len(g) /\ q[i] = g[i - Len(f)]
         \/ q[i] = Flush
  <2> TAKE i \in 1..Len(q)
  <2>1. CASE i <= Len(f)
    BY <2>1, <1>6, <1>7
  <2>2. CASE i > Len(f) /\ i <= Len(f) + Len(g)
    <3>1. i - Len(f) \in 1..Len(g) /\ Len(f) + (i - Len(f)) = i
      BY <2>2, <1>6
    <3> QED BY <3>1, <1>7
  <2>3. CASE i > Len(f) + Len(g)
    <3>1. i = Len(f) + Len(g) + 1
      BY <2>3, <1>5, <1>6
    <3> QED BY <3>1, <1>7
  <2> QED BY <2>1, <2>2, <2>3, <1>6
<1> HIDE DEF q
<1>9. \A i \in 1..Len(q) : /\ q[i].effect \in {"revoke", "grant", "none"}
                           /\ q[i].effect = "revoke" <=> i \in 1..Len(f)
                           /\ q[i].effect = "grant" => i - Len(f) \in 1..Len(g) /\ q[i] = g[i - Len(f)]
  <2> TAKE i \in 1..Len(q)
  <2>1. i \in 1..Len(f) => q[i] = f[i] /\ q[i].effect = "revoke"
    BY <1>1, <1>7
  <2> QED BY <2>1, <1>1, <1>2, <1>3, <1>8
<1>10. RevokesFirst(q)
  <2>1. \A i \in 1..Len(f) : \A k \in 1..i : k \in 1..Len(f) /\ k \in 1..Len(q)
    BY <1>5, <1>6
  <2> QED BY <2>1, <1>9 DEF RevokesFirst
<1>11. \A p \in Privileges : p \in grants => Takes(q, p)
  BY <1>1, <1>7, <1>9 DEF Takes
<1>12. \A p \in Privileges : p \in wanted <=> Gives(q, p)
  BY <1>2, <1>7, <1>9 DEF Gives
<1>13. LeadsTo(q, grants, wanted)
  BY <1>11, <1>12 DEF LeadsTo
<1> QED BY <1>5, <1>10, <1>13 DEF ChangeOfPrivileges, f, g, q

\* One statement more, one change more if it is one.
LEMMA CountNext ==
    ASSUME NEW batch, NEW n \in Nat
    PROVE  /\ Count(batch, 0) = 0 /\ Count(batch, n) \in Nat
           /\ Count(batch, n + 1) = Count(batch, n) + IF Counted(batch[n + 1].kind) THEN 1 ELSE 0
<1> DEFINE S(m) == {i \in 1..m : Counted(batch[i].kind)}
<1>1. \A m \in Nat : IsFiniteSet(1..m)
  BY FS_Interval
<1>2. \A m \in Nat : IsFiniteSet(S(m)) /\ Cardinality(S(m)) \in Nat
  BY <1>1, FS_Subset, FS_CardinalityType
<1>3. S(0) = {}
  OBVIOUS
<1>4. S(n + 1) = IF Counted(batch[n + 1].kind) THEN S(n) \cup {n + 1} ELSE S(n)
  OBVIOUS
<1>5. n + 1 \notin S(n)
  OBVIOUS
<1> HIDE DEF S
<1>6. /\ Cardinality(S(0)) = 0
      /\ Cardinality(S(n + 1)) = Cardinality(S(n)) + IF Counted(batch[n + 1].kind) THEN 1 ELSE 0
  BY <1>2, <1>3, <1>4, <1>5, FS_EmptySet, FS_AddElement
<1> QED BY <1>2, <1>6 DEF S, Count

-----------------------------------------------------------------------------
(* The steps.                                                              *)

LEMMA Batches ==
    ASSUME NEW s \in Sessions, TypeOK, request[s].op = "query"
    PROVE  /\ request[s].commit \in BOOLEAN /\ Commits(s) = request[s].commit
           /\ request[s].batch \in Seq(Statements) /\ Len(request[s].batch) \in Nat
           /\ DOMAIN request[s].batch = 1..Len(request[s].batch)
           /\ \A i \in 1..Len(request[s].batch) :
                 /\ request[s].batch[i] \in Statements
                 /\ request[s].batch[i].effect = "none"
                 /\ request[s].batch[i].kind \in Kinds(s)
           /\ Changes(s) = Count(request[s].batch, Len(request[s].batch))
<1> DEFINE batch == request[s].batch
           Queries == {q \in Statements : q.effect = "none"}
<1>1. request[s] \in Requests
  BY DEF TypeOK
<1>2. request[s].commit \in BOOLEAN /\ batch \in Seq(Queries)
  BY <1>1, AccessAssumption
<1>3. batch \in Seq(Statements)
  BY <1>2, SeqMonotonic
<1>4. Len(batch) \in Nat /\ DOMAIN batch = 1..Len(batch)
  BY <1>3, LenProperties
<1>5. \A i \in 1..Len(batch) : batch[i] \in Queries
  BY <1>2, ElementOfSeq
<1>6. \A i \in 1..Len(batch) : batch[i].kind \in Kinds(s)
  BY <1>4 DEF Kinds
<1>7. Changes(s) = Count(batch, Len(batch))
  BY <1>4 DEF Changes, Count, Counted
<1> QED BY <1>2, <1>3, <1>4, <1>5, <1>6, <1>7 DEF Commits

LEMMA InitInvariant == Init => IInv
<1> SUFFICES ASSUME Init PROVE IInv
  OBVIOUS
<1> USE DEF Init
<1>1. grants \subseteq Privileges
  BY AccessAssumption
<1>2. TypeOK
  BY <1>1 DEF TypeOK
<1>3. Overlapped
  BY DEF Overlapped
<1>4. ASSUME NEW s \in Sessions PROVE QueryOK(s) /\ ModifyOK(s) /\ Harmless(s)
  BY DEF QueryOK, ModifyOK, Harmless
<1> QED BY <1>2, <1>3, <1>4 DEF IInv

\* A session that does nothing notices nothing, but of changes of the user.
LEMMA OthersQuery ==
    ASSUME NEW r \in Sessions, request' = request, state'[r] = state[r],
           queries'[r] = queries[r], pending'[r] = pending[r], durable'[r] = durable[r]
    PROVE  QueryOK(r)' = QueryOK(r) /\ Harmless(r)' = Harmless(r)
BY DEF QueryOK, Harmless, Ran, Kinds, Changes, Commits

LEMMA OthersModify ==
    ASSUME NEW r \in Sessions, ModifyOK(r), request' = request, state'[r] = state[r],
           queries'[r] = queries[r], overlaps \subseteq overlaps', UNCHANGED userVars
    PROVE  ModifyOK(r)'
BY DEF ModifyOK, userVars

\* Only a session that opens can overlap where none did.
LEMMA StillOverlapped ==
    ASSUME Overlapped, request' = request, overlaps \subseteq overlaps',
           \A r \in Sessions : state'[r] = "open" => state[r] = "open"
    PROVE  Overlapped'
BY DEF Overlapped

\* A session ends, with some of its changes committed.
LEMMA EndStep ==
    ASSUME IInv, NEW s \in Sessions, state[s] = "open",
           NEW e \in {"success", "failed"}, state' = [state EXCEPT ![s] = e],
           NEW d \in Nat, durable' = [durable EXCEPT ![s] = d],
           pending' = [pending EXCEPT ![s] = 0],
           queries' = [queries EXCEPT ![s] = <<>>], UNCHANGED <<request, userVars, overlaps>>,
           request[s].op = "query" =>
              \/ d = durable[s] /\ (Commits(s) => e = "failed")
              \/ Commits(s) /\ queries[s] = <<>> /\ d = durable[s] + pending[s]
    PROVE  IInv'
<1> USE DEF IInv
<1>1. /\ state'[s] = e /\ durable'[s] = d /\ pending'[s] = 0 /\ queries'[s] = <<>>
      /\ \A r \in Sessions \ {s} :
            /\ state'[r] = state[r] /\ durable'[r] = durable[r]
            /\ pending'[r] = pending[r] /\ queries'[r] = queries[r]
  BY DEF TypeOK
<1>2. TypeOK'
  BY DEF TypeOK, userVars
<1>3. Overlapped'
  BY <1>1, StillOverlapped
<1>4. QueryOK(s)'
  <2> SUFFICES ASSUME request[s].op = "query" PROVE QueryOK(s)'
    BY DEF QueryOK
  <2>1. Kinds(s)' = Kinds(s) /\ Commits(s)' = Commits(s) /\ Changes(s)' = Changes(s)
    BY DEF Kinds, Commits, Changes
  <2>2. CASE d = durable[s] /\ (Commits(s) => e = "failed")
    BY <2>1, <2>2, <1>1 DEF QueryOK
  <2>3. CASE Commits(s) /\ queries[s] = <<>> /\ d = durable[s] + pending[s]
    <3>1. PICK n \in 0..Len(request[s].batch) : Ran(s, n)
      BY DEF QueryOK
    <3>2. n = Len(request[s].batch)
      BY <2>3, <3>1, Batches, EmptySeq DEF Ran
    <3>3. d = Changes(s)
      BY <2>3, <3>1, <3>2, Batches DEF Ran
    <3> QED BY <3>3, <2>1, <2>3, <1>1 DEF QueryOK
  <2> QED BY <2>2, <2>3
<1>5. ModifyOK(s)' /\ Harmless(s)'
  BY <1>1 DEF ModifyOK, Harmless
<1>6. \A r \in Sessions \ {s} : QueryOK(r)' /\ ModifyOK(r)' /\ Harmless(r)'
  BY <1>1, OthersQuery, OthersModify
<1> QED BY <1>2, <1>3, <1>4, <1>5, <1>6

LEMMA EndSteps ==
    ASSUME IInv, NEW s \in Sessions, Raise(s) \/ Kill(s) \/ Finish(s) \/ CommitRaises(s)
    PROVE  IInv'
<1> USE DEF IInv, Failed
<1>1. /\ durable[s] \in Nat /\ durable[s] + pending[s] \in Nat
      /\ \A d : d = durable[s] => [durable EXCEPT ![s] = d] = durable
      /\ queries[s] = <<>> => [queries EXCEPT ![s] = <<>>] = queries
  BY DEF TypeOK
<1>2. CASE Raise(s) \/ Kill(s)
  BY <1>1, <1>2, EndStep DEF Raise, Kill
<1>3. CASE Finish(s)
  <2>1. CASE Commits(s)
    BY <2>1, <1>1, <1>3, EndStep DEF Finish
  <2>2. CASE ~Commits(s)
    <3>1. durable' = [durable EXCEPT ![s] = durable[s]]
      BY <2>2, <1>3 DEF Finish
    <3> QED BY <3>1, <2>2, <1>1, <1>3, EndStep DEF Finish
  <2> QED BY <2>1, <2>2
<1>4. CASE CommitRaises(s)
  BY <1>1, <1>4, EndStep DEF CommitRaises
<1> QED BY <1>2, <1>3, <1>4

LEMMA StartStep ==
    ASSUME IInv, NEW s \in Sessions, Start(s) PROVE IInv'
<1> USE DEF IInv
<1> DEFINE others == {r \in Sessions \ {s} :
                        /\ request[s].op # "query" /\ request[r].op # "query"
                        /\ state[r] = "open"}
<1>1. /\ overlaps' = overlaps \cup others \cup (IF others = {} THEN {} ELSE {s})
      /\ UNCHANGED <<request, pending, durable, userVars>>
      /\ state[s] = "idle" /\ overlaps \subseteq overlaps' /\ overlaps' \subseteq Sessions
  BY DEF Start, TypeOK
<1>2. request[s] \in Requests
  BY DEF TypeOK
<1> DEFINE Opening(q) == state' = [state EXCEPT ![s] = "open"] /\ queries' = [queries EXCEPT ![s] = q]
<1>q. request[s].op = "query" => request[s].batch \in Seq(Statements)
  BY Batches
<1>3. \/ request[s].op = "query" /\ Opening(request[s].batch)
      \/ request[s].op \in {"create", "remove"} /\ \E q \in Seq(Statements) : Opening(q)
      \/ /\ request[s].op = "modify" /\ exists
         /\ Opening(ChangeOfPrivileges(request[s].wanted))
      \/ /\ request[s].op \in {"modify", "main"} /\ UNCHANGED queries
         /\ \E e \in {"failed", "success"} : state' = [state EXCEPT ![s] = e]
  <2>1. \A kind \in {"create", "drop"} : <<Statement("ddl", kind, "", {}), Flush>> \in Seq(Statements)
    BY DEF Statement, Flush, Statements
  <2> QED BY <2>1 DEF Start, StartQuery, StartCreateUser, StartRemoveUser, StartModify,
               StartForMainUser, Opens
<1>4. request[s].op = "modify" =>
         /\ ChangeOfPrivileges(request[s].wanted) \in Seq(Statements)
         /\ RevokesFirst(ChangeOfPrivileges(request[s].wanted))
         /\ LeadsTo(ChangeOfPrivileges(request[s].wanted), grants, request[s].wanted)
  BY <1>2, AccessAssumption, ChangeLeads DEF TypeOK
<1>5. /\ \E q \in Seq(Statements), e \in {"open", "failed", "success"} :
            /\ queries' = [queries EXCEPT ![s] = q] /\ state' = [state EXCEPT ![s] = e]
      /\ \A r \in Sessions \ {s} : state'[r] = state[r] /\ queries'[r] = queries[r]
  <2>1. queries[s] \in Seq(Statements) /\ queries = [queries EXCEPT ![s] = queries[s]]
    BY DEF TypeOK
  <2>2. \E q \in Seq(Statements), e \in {"open", "failed", "success"} :
            /\ queries' = [queries EXCEPT ![s] = q] /\ state' = [state EXCEPT ![s] = e]
    BY <2>1, <1>q, <1>3, <1>4
  <2> QED BY <2>2 DEF TypeOK
<1>6. TypeOK'
  BY <1>1, <1>5 DEF TypeOK, userVars
<1>7. Overlapped'
  <2> HIDE DEF others
  <2> SUFFICES ASSUME NEW k \in Sessions, NEW l \in Sessions, k # l,
                      state'[k] = "open", state'[l] = "open",
                      request[k].op # "query", request[l].op # "query"
               PROVE  k \in overlaps'
    BY <1>1 DEF Overlapped
  <2>1. CASE k # s /\ l # s
    BY <2>1, <1>1, <1>5 DEF Overlapped
  <2>2. CASE k = s
    <3>1. l \in others
      BY <2>2, <1>5 DEF others
    <3> QED BY <3>1, <2>2, <1>1
  <2>3. CASE l = s
    <3>1. k \in others
      BY <2>3, <1>5 DEF others
    <3> QED BY <3>1, <1>1
  <2> QED BY <2>1, <2>2, <2>3
<1>8. QueryOK(s)' /\ Harmless(s)'
  <2> SUFFICES ASSUME request[s].op = "query" PROVE QueryOK(s)' /\ Harmless(s)'
    BY <1>1 DEF QueryOK, Harmless
  <2>1. /\ state'[s] = "open" /\ queries'[s] = request[s].batch
        /\ durable[s] = 0 /\ pending[s] = 0
    BY <1>1, <1>3 DEF TypeOK, QueryOK
  <2>2. Ran(s, 0)'
    BY <2>1, <1>1, Batches, CountNext DEF Ran
  <2>3. Kinds(s)' = Kinds(s) /\ Commits(s)' = Commits(s)
    BY <1>1 DEF Kinds, Commits
  <2>4. QueryOK(s)'
    BY <2>1, <2>2, <2>3, <1>1, Batches DEF QueryOK
  <2>5. Harmless(s)'
    BY <2>1, <1>1, Batches DEF Harmless
  <2> QED BY <2>4, <2>5
<1>9. ModifyOK(s)'
  <2> SUFFICES ASSUME request[s].op = "modify", state'[s] = "open" PROVE ModifyOK(s)'
    BY <1>1 DEF ModifyOK
  <2>1. exists /\ queries'[s] = ChangeOfPrivileges(request[s].wanted)
    BY <1>1, <1>3 DEF TypeOK
  <2> QED BY <2>1, <1>1, <1>4 DEF ModifyOK, userVars
<1>10. \A r \in Sessions \ {s} : QueryOK(r)' /\ ModifyOK(r)' /\ Harmless(r)'
  BY <1>1, <1>5, OthersQuery, OthersModify
<1> QED BY <1>6, <1>7, <1>8, <1>9, <1>10

LEMMA ExecuteStep ==
    ASSUME IInv, NEW s \in Sessions, Execute(s) PROVE IInv'
<1> USE DEF IInv
<1> DEFINE q == queries[s]
           h == Head(q)
<1>1. /\ state[s] = "open" /\ q # <<>> /\ q \in Seq(Statements)
      /\ ~Refused(s, h) /\ Possible(h) /\ Affect(h)
      /\ UNCHANGED <<request, state, overlaps>>
      /\ h \in Statements /\ Tail(q) \in Seq(Statements) /\ Len(q) \in Nat
      /\ Len(Tail(q)) = Len(q) - 1 /\ Len(q) > 0 /\ q[1] = h
      /\ \A i \in 1..Len(Tail(q)) : Tail(q)[i] = q[i + 1]
  BY FirstAndRest DEF Execute, TypeOK
<1>2. /\ queries' = [queries EXCEPT ![s] = Tail(q)]
      /\ IF h.kind = "dml"
         THEN pending' = [pending EXCEPT ![s] = @ + 1] /\ UNCHANGED durable
         ELSE /\ pending' = [pending EXCEPT ![s] = 0]
              /\ durable' = [durable EXCEPT ![s] = @ + pending[s] + IF h.kind = "ddl" THEN 1 ELSE 0]
  BY DEF Execute
<1> HIDE DEF q, h
<1>3. /\ pending[s] \in Nat /\ durable[s] \in Nat
      /\ queries'[s] = Tail(q)
      /\ pending'[s] = IF h.kind = "dml" THEN pending[s] + 1 ELSE 0
      /\ durable'[s] = IF h.kind = "dml" THEN durable[s]
                       ELSE durable[s] + pending[s] + IF h.kind = "ddl" THEN 1 ELSE 0
      /\ \A r \in Sessions \ {s} :
            /\ durable'[r] = durable[r] /\ pending'[r] = pending[r] /\ queries'[r] = queries[r]
  BY <1>2 DEF TypeOK
<1>4. h.privileges \subseteq Privileges
  BY <1>1 DEF Statements
<1>5. TypeOK'
  <2>1. exists' \in BOOLEAN /\ grants' \subseteq Privileges
    BY <1>1, <1>4 DEF TypeOK, Affect
  <2>2. pending' \in [Sessions -> Nat] /\ durable' \in [Sessions -> Nat]
    <3>1. CASE h.kind = "dml"
      <4>1. pending[s] + 1 \in Nat
        BY <1>3
      <4> QED BY <3>1, <4>1, <1>2 DEF TypeOK
    <3>2. CASE h.kind # "dml"
      <4>1. 0 \in Nat /\ durable[s] + pending[s] + (IF h.kind = "ddl" THEN 1 ELSE 0) \in Nat
        BY <1>3
      <4> QED BY <3>2, <4>1, <1>2 DEF TypeOK
    <3> QED BY <3>1, <3>2
  <2>3. queries' \in [Sessions -> Seq(Statements)]
    BY <1>1, <1>2 DEF TypeOK
  <2> QED BY <2>1, <2>2, <2>3, <1>1 DEF TypeOK
<1>6. Overlapped'
  BY <1>1, StillOverlapped
<1>7. QueryOK(s)' /\ Harmless(s)'
  <2> SUFFICES ASSUME request[s].op = "query" PROVE QueryOK(s)' /\ Harmless(s)'
    BY <1>1 DEF QueryOK, Harmless
  <2> DEFINE batch == request[s].batch
  <2>1. PICK n \in 0..Len(batch) : Ran(s, n)
    BY <1>1 DEF QueryOK
  <2>2. n + 1 \in 1..Len(batch) /\ batch[n + 1] = h /\ Len(q) = Len(batch) - n
    BY <2>1, <1>1, Batches DEF Ran, q
  <2>3. h.kind \in Kinds(s) /\ h.kind \in {"dml", "ddl", "dcl", "tcl", "other"}
    BY <2>2, <1>1, Batches DEF Statements
  <2>4. Count(batch, n + 1) = Count(batch, n) + IF Counted(h.kind) THEN 1 ELSE 0
    BY <2>2, CountNext
  <2>5. durable'[s] + pending'[s] = Count(batch, n + 1)
    <3>1. durable[s] + pending[s] = Count(batch, n) /\ Count(batch, n) \in Nat
      BY <2>1, CountNext DEF Ran
    <3>2. Counted(h.kind) <=> h.kind \in {"dml", "ddl"}
      BY DEF Counted
    <3>3. CASE h.kind = "dml"
      BY <3>1, <3>2, <3>3, <2>4, <1>3
    <3>4. CASE h.kind = "ddl"
      BY <3>1, <3>2, <3>4, <2>4, <1>3
    <3>5. CASE h.kind \notin {"dml", "ddl"}
      BY <3>1, <3>2, <3>5, <2>4, <1>3
    <3> QED BY <3>3, <3>4, <3>5
  <2>6. Ran(s, n + 1)'
    <3>1. \A i \in 1..Len(Tail(q)) : i + 1 \in 1..Len(q) /\ n + (i + 1) = (n + 1) + i
      BY <1>1
    <3>2. \A i \in 1..Len(Tail(q)) : Tail(q)[i] = batch[(n + 1) + i]
      BY <3>1, <2>1, <1>1 DEF Ran, q
    <3>3. Len(Tail(q)) = Len(batch) - (n + 1)
      BY <2>2, <1>1, Batches
    <3> QED BY <3>2, <3>3, <2>5, <1>1, <1>3 DEF Ran
  <2>7. /\ Kinds(s)' = Kinds(s) /\ Commits(s)' = Commits(s) /\ Changes(s)' = Changes(s)
        /\ batch' = batch
    BY <1>1 DEF Kinds, Commits, Changes
  <2>8. Kinds(s) \subseteq {"dml"} => durable'[s] = durable[s]
    BY <2>3, <1>3
  <2>9. ~Commits(s) /\ "other" \notin Kinds(s) => durable'[s] = durable[s]
    BY <2>3, <1>1, <1>3 DEF Refused, AllowsAll
  <2>10. QueryOK(s)'
    <3>1. n + 1 \in 0..Len(batch)
      BY <2>2
    <3> QED BY <3>1, <2>6, <2>7, <2>8, <2>9, <1>1 DEF QueryOK
  <2>11. Harmless(s)'
    BY <1>1, <1>3 DEF Harmless, q
  <2> QED BY <2>10, <2>11
<1>8. ModifyOK(s)'
  <2> SUFFICES ASSUME request[s].op = "modify", s \notin overlaps PROVE ModifyOK(s)'
    BY <1>1 DEF ModifyOK
  <2>1. exists /\ RevokesFirst(q) /\ LeadsTo(q, grants, request[s].wanted)
    BY <1>1 DEF ModifyOK, q
  <2>2. RevokesFirst(Tail(q)) /\ h.effect \in {"revoke", "grant", "none"}
    BY <2>1, <1>1, OneLess DEF h
  <2>3. exists'
    BY <2>1, <2>2, <1>1 DEF Affect
  <2>4. \A p \in Privileges :
           p \in request[s].wanted <=> (p \in grants' /\ ~Takes(Tail(q), p)) \/ Gives(Tail(q), p)
    <3>1. \A p \in Privileges :
             p \in request[s].wanted <=> (p \in grants /\ ~Takes(q, p)) \/ Gives(q, p)
      BY <2>1 DEF LeadsTo
    <3>2. \A p : /\ Takes(q, p) <=> (h.effect = "revoke" /\ p \in h.privileges) \/ Takes(Tail(q), p)
                 /\ Gives(q, p) <=> (h.effect = "grant" /\ p \in h.privileges) \/ Gives(Tail(q), p)
      BY <1>1, OneLess DEF h
    <3>3. h.effect # "revoke" => \A p : ~Takes(q, p)
      BY <2>1, <1>1, OneLess DEF h
    <3>4. CASE h.effect = "revoke"
      <4>1. grants' = grants \ h.privileges
        BY <3>4, <1>1 DEF Affect
      <4> QED BY <4>1, <3>1, <3>2, <3>4
    <3>5. CASE h.effect = "grant"
      <4>1. grants' = grants \cup h.privileges
        BY <3>5, <1>1 DEF Affect
      <4> QED BY <4>1, <3>1, <3>2, <3>3, <3>5
    <3>6. CASE h.effect = "none"
      <4>1. grants' = grants
        BY <3>6, <1>1 DEF Affect
      <4> QED BY <4>1, <3>1, <3>2, <3>6
    <3> QED BY <2>2, <3>4, <3>5, <3>6
  <2> QED BY <2>2, <2>3, <2>4, <1>1, <1>3 DEF ModifyOK, LeadsTo
<1>9. \A r \in Sessions \ {s} : QueryOK(r)' /\ Harmless(r)'
  BY <1>1, <1>3, OthersQuery
<1>10. ASSUME NEW r \in Sessions \ {s} PROVE ModifyOK(r)'
  <2> SUFFICES ASSUME request[r].op = "modify", state[r] = "open", r \notin overlaps
               PROVE  ModifyOK(r)'
    BY <1>1 DEF ModifyOK
  <2>1. request[s].op = "query"
    BY <1>1 DEF Overlapped
  <2>2. h.effect = "none"
    BY <2>1, <1>1 DEF Harmless, q
  <2>3. UNCHANGED userVars
    BY <2>2, <1>1 DEF Affect, userVars
  <2> QED BY <2>3, <1>1, <1>3, OthersModify
<1> QED BY <1>5, <1>6, <1>7, <1>8, <1>9, <1>10

LEMMA StepInvariant == IInv /\ [Next]_vars => IInv'
<1> SUFFICES ASSUME IInv, [Next]_vars PROVE IInv'
  OBVIOUS
<1>1. CASE UNCHANGED vars
  <2>1. Overlapped'
    BY <1>1, StillOverlapped DEF IInv, vars
  <2>2. TypeOK'
    BY <1>1 DEF IInv, vars, userVars, TypeOK
  <2>3. \A r \in Sessions : QueryOK(r)' /\ ModifyOK(r)' /\ Harmless(r)'
    BY <1>1, OthersQuery, OthersModify DEF IInv, vars
  <2> QED BY <2>1, <2>2, <2>3 DEF IInv
<1> QED BY <1>1, StartStep, ExecuteStep, EndSteps DEF Next, Step

LEMMA Invariant == Spec => []IInv
BY InitInvariant, StepInvariant, PTL DEF Spec

-----------------------------------------------------------------------------
\* A query that asks for no commit changes nothing, and one that does all that
\* it should or nothing, however it ends: _run_sql and its transaction.
THEOREM QueriesAreWhole == Spec => []QueriesAreAtomic
<1>1. IInv => QueriesAreAtomic
  BY DEF IInv, QueriesAreAtomic, QueryOK, ReadOnlyChangesNothing, CommitIsAtomic
<1> QED BY <1>1, Invariant, PTL

\* A change of privileges that no other job about the user overlapped leaves
\* exactly what was wanted, from whatever was there: modify_user_permissions.
THEOREM PrivilegesAreExact == Spec => PrivilegesAsWanted
<1>1. ASSUME IInv, [Next]_vars, NEW s \in Sessions, state[s] = "open", state'[s] = "success",
             request[s].op = "modify", s \notin overlaps
      PROVE  exists' /\ grants' = request[s].wanted
  <2> USE <1>1
  <2>1. PICK r \in Sessions : Finish(r)
    BY DEF Next, Step, Start, StartQuery, StartCreateUser, StartRemoveUser, StartModify,
       StartForMainUser, Opens, Execute, Raise, CommitRaises, Kill, Failed, IInv, TypeOK, vars
  <2>2. Finish(s)
    BY <2>1 DEF Finish, IInv, TypeOK
  <2>3. queries[s] = <<>> /\ exists' = exists /\ grants' = grants
    BY <2>2 DEF Finish, userVars
  <2>4. exists /\ \A p \in Privileges : p \in request[s].wanted <=> p \in grants
    <3>1. \A p : ~Takes(<<>>, p) /\ ~Gives(<<>>, p)
      BY EmptySeq DEF Takes, Gives
    <3> QED BY <3>1, <2>3 DEF IInv, ModifyOK, LeadsTo
  <2>5. grants \subseteq Privileges /\ request[s].wanted \subseteq Privileges
    BY AccessAssumption DEF IInv, TypeOK
  <2> QED BY <2>3, <2>4, <2>5
<1>2. IInv /\ [Next]_vars =>
         [\A s \in Sessions :
             /\ state[s] = "open" /\ state'[s] = "success"
             /\ request[s].op = "modify" /\ s \notin overlaps
             => exists' /\ grants' = request[s].wanted]_vars
  BY <1>1
<1> QED BY <1>2, Invariant, PTL DEF Spec, PrivilegesAsWanted
=============================================================================
