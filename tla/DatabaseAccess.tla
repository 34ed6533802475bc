---------------------------- MODULE DatabaseAccess ----------------------------
(***************************************************************************)
(* What the agent runs in a site's database (agent/database.py): queries   *)
(* of users, kept in a transaction that is rolled back unless they ask for *)
(* a commit, and jobs that create and remove a database user and change    *)
(* its privileges, statement by statement.                                 *)
(*                                                                         *)
(* Every call of _run_sql is a session with a connection of its own.       *)
(* MariaDB commits the transaction before and after every statement that   *)
(* is not transactional.                                                   *)
(***************************************************************************)
EXTENDS Naturals, FiniteSets, SequencesExt

CONSTANTS
    Sessions,
    Requests,   \* what the sessions may be asked to do
    Privileges, \* <<object, privilege>>
    Initial     \* what the database user may hold at first

\* A statement; the last two fields matter to GRANT and REVOKE.
Statement(kind, effect, object, privileges) ==
    [kind |-> kind, effect |-> effect, object |-> object, privileges |-> privileges]

Objects   == {p[1] : p \in Privileges}
On(o, ps) == {p \in ps : p[1] = o}

Statements ==
    [kind : {"dml", "ddl", "dcl", "tcl", "other"},
     effect : {"none", "create", "drop", "grant", "revoke"},
     object : Objects \cup {""}, privileges : SUBSET Privileges]

\* A query runs as the user of its site, which cannot manage users.
ASSUME AccessAssumption ==
    /\ IsFiniteSet(Privileges) /\ Initial \subseteq SUBSET Privileges
    /\ \A r \in Requests :
          /\ r.op = "query" =>
                /\ r.commit \in BOOLEAN
                /\ r.batch \in Seq({q \in Statements : q.effect = "none"})
          /\ r.op = "modify" => r.wanted \subseteq Privileges

VARIABLES
    request,   \* what each session was asked to do
    state,     \* "idle", "open", "success" or "failed"
    queries,   \* statements a session has still to run
    pending,   \* its changes that are not committed
    durable,   \* its changes that are
    exists,    \* whether the database user exists
    grants,    \* its privileges
    overlaps   \* sessions about the user that were open beside another one

userVars == <<exists, grants>>
vars == <<request, state, queries, pending, durable, userVars, overlaps>>

-----------------------------------------------------------------------------
Init ==
    /\ request \in [Sessions -> Requests]
    /\ state = [s \in Sessions |-> "idle"] /\ queries = [s \in Sessions |-> <<>>]
    /\ pending = [s \in Sessions |-> 0] /\ durable = [s \in Sessions |-> 0]
    /\ exists \in BOOLEAN
    /\ grants \in IF exists THEN Initial ELSE {{}}
    /\ overlaps = {}

\* The jobs commit; only the change of privileges may use GRANT and REVOKE.
Commits(s)   == request[s].op = "query" => request[s].commit
AllowsAll(s) == request[s].op = "modify"

Flush == Statement("other", "none", "", {})

\* One statement for each object that the privileges are about.
ForEach(effect, ps) ==
    LET objects == SetToSeq({o \in Objects : On(o, ps) # {}})
    IN  [i \in DOMAIN objects |-> Statement("dcl", effect, objects[i], On(objects[i], ps))]

\* Mutant of ChangeOfPrivileges: what the user holds is not taken away.
OnlyGrants(wanted) == ForEach("grant", wanted) \o <<Flush>>

\* modify_user_permissions: REVOKE what SHOW GRANTS said, object by object,
\* then GRANT what is wanted.
ChangeOfPrivileges(wanted) ==
    ForEach("revoke", grants) \o ForEach("grant", wanted) \o <<Flush>>

Opens(s, statements) ==
    /\ state' = [state EXCEPT ![s] = "open"]
    /\ queries' = [queries EXCEPT ![s] = statements]

StartQuery(s) ==
    /\ request[s].op = "query"
    /\ Opens(s, request[s].batch)

StartCreateUser(s) ==
    /\ request[s].op = "create"
    /\ Opens(s, <<Statement("ddl", "create", "", {}), Flush>>)

StartRemoveUser(s) ==
    /\ request[s].op = "remove"
    /\ Opens(s, <<Statement("ddl", "drop", "", {}), Flush>>)

\* SHOW GRANTS fails for a user that does not exist; a request without
\* columns or with an unknown mode raises before anything is changed.
StartModify(s) ==
    /\ request[s].op = "modify"
    /\ \/ exists /\ Opens(s, ChangeOfPrivileges(request[s].wanted))
       \/ state' = [state EXCEPT ![s] = "failed"] /\ UNCHANGED queries

\* The user of the site itself is left alone.
StartForMainUser(s) ==
    /\ request[s].op = "main"
    /\ state' = [state EXCEPT ![s] = "success"] /\ UNCHANGED queries

Start(s) ==
    /\ state[s] = "idle"
    /\ \/ StartQuery(s) \/ StartCreateUser(s) \/ StartRemoveUser(s)
       \/ StartModify(s) \/ StartForMainUser(s)
    /\ LET others == {r \in Sessions \ {s} :
                        /\ request[s].op # "query" /\ request[r].op # "query"
                        /\ state[r] = "open"}
       IN  overlaps' = overlaps \cup others \cup (IF others = {} THEN {} ELSE {s})
    /\ UNCHANGED <<request, pending, durable, userVars>>

-----------------------------------------------------------------------------
(* _run_sql.                                                               *)

Refused(s, q) ==
    \/ ~Commits(s) /\ q.kind = "ddl"
    \/ ~AllowsAll(s) /\ q.kind \in {"dcl", "tcl"}

\* MariaDB: what a statement needs, and what it does.
Possible(q) ==
    /\ q.effect = "grant" => exists
    /\ q.effect = "revoke" => On(q.object, grants) # {}

Affect(q) ==
    /\ exists' = CASE q.effect = "create" -> TRUE
                   [] q.effect = "drop"   -> FALSE
                   [] OTHER               -> exists
    /\ grants' = CASE q.effect \in {"create", "drop"} -> {}
                   [] q.effect = "grant"  -> grants \cup q.privileges
                   [] q.effect = "revoke" -> grants \ q.privileges
                   [] OTHER               -> grants

Execute(s) ==
    /\ state[s] = "open" /\ queries[s] # <<>>
    /\ LET q == Head(queries[s])
       IN  /\ ~Refused(s, q) /\ Possible(q) /\ Affect(q)
           /\ IF q.kind = "dml"
              THEN pending' = [pending EXCEPT ![s] = @ + 1] /\ UNCHANGED durable
              ELSE /\ pending' = [pending EXCEPT ![s] = 0]
                   /\ durable' = [durable EXCEPT ![s] =
                        @ + pending[s] + IF q.kind = "ddl" THEN 1 ELSE 0]
    /\ queries' = [queries EXCEPT ![s] = Tail(@)]
    /\ UNCHANGED <<request, state, overlaps>>

Failed(s) ==
    /\ state' = [state EXCEPT ![s] = "failed"]
    /\ queries' = [queries EXCEPT ![s] = <<>>]
    /\ UNCHANGED <<request, userVars, overlaps>>

\* Mutant of Raise: the context manager commits what ran before the error.
RaiseCommits(s) ==
    /\ state[s] = "open" /\ queries[s] # <<>>
    /\ Failed(s)
    /\ durable' = [durable EXCEPT ![s] = IF Commits(s) THEN @ + pending[s] ELSE @]
    /\ pending' = [pending EXCEPT ![s] = 0]

\* A statement is refused or fails: the transaction is rolled back.
Raise(s) ==
    /\ state[s] = "open" /\ queries[s] # <<>>
    /\ Failed(s)
    /\ pending' = [pending EXCEPT ![s] = 0] /\ UNCHANGED durable

\* kill_process, or a worker that is killed: MariaDB rolls back.
Kill(s) ==
    /\ state[s] = "open" /\ Failed(s)
    /\ pending' = [pending EXCEPT ![s] = 0] /\ UNCHANGED durable

Finish(s) ==
    /\ state[s] = "open" /\ queries[s] = <<>>
    /\ durable' = [durable EXCEPT ![s] = IF Commits(s) THEN @ + pending[s] ELSE @]
    /\ pending' = [pending EXCEPT ![s] = 0]
    /\ state' = [state EXCEPT ![s] = "success"]
    /\ UNCHANGED <<request, queries, userVars, overlaps>>

\* The commit raises: MariaDB may have committed before the connection went.
CommitRaises(s) ==
    /\ state[s] = "open" /\ queries[s] = <<>> /\ Commits(s)
    /\ Failed(s)
    /\ durable' = [durable EXCEPT ![s] = @ + pending[s]] \/ UNCHANGED durable
    /\ pending' = [pending EXCEPT ![s] = 0]

Step(s) == Start(s) \/ Execute(s) \/ Raise(s) \/ Finish(s) \/ CommitRaises(s)

Next == \E s \in Sessions : Step(s) \/ Kill(s)

Spec == Init /\ [][Next]_vars /\ \A s \in Sessions : WF_vars(Step(s))

-----------------------------------------------------------------------------
TypeOK ==
    /\ request \in [Sessions -> Requests]
    /\ state \in [Sessions -> {"idle", "open", "success", "failed"}]
    /\ queries \in [Sessions -> Seq(Statements)]
    /\ pending \in [Sessions -> Nat] /\ durable \in [Sessions -> Nat]
    /\ exists \in BOOLEAN /\ grants \subseteq Privileges
    /\ overlaps \subseteq Sessions

Kinds(s)   == {request[s].batch[i].kind : i \in DOMAIN request[s].batch}
Changes(s) ==
    Cardinality({i \in DOMAIN request[s].batch : request[s].batch[i].kind \in {"dml", "ddl"}})

\* A query that does not ask for a commit changes nothing, however it ends
\* and however many of its statements ran before one was refused, as long as
\* it has no statement that MariaDB commits and the agent does not know.
ReadOnlyChangesNothing ==
    \A s \in Sessions :
        request[s].op = "query" /\ ~Commits(s) /\ "other" \notin Kinds(s) => durable[s] = 0

\* A query with a commit has all its changes when it says success; one that
\* only changes rows has, at all times, all of them or none, also when the
\* connection is killed or the answer to the commit is lost.
CommitIsAtomic ==
    \A s \in Sessions : request[s].op = "query" /\ Commits(s) =>
        /\ state[s] = "success" => durable[s] = Changes(s)
        /\ Kinds(s) \subseteq {"dml"} => durable[s] \in {0, Changes(s)}

\* A change of privileges that succeeds and that no other job about the user
\* overlapped leaves the user with exactly what was wanted, also after
\* changes that failed half way, a removal or a new creation of the user.
PrivilegesAsWanted ==
    [][\A s \in Sessions :
          /\ state[s] = "open" /\ state'[s] = "success"
          /\ request[s].op = "modify" /\ s \notin overlaps
          => exists' /\ grants' = request[s].wanted]_vars

\* Queries change all that they should, or nothing.
QueriesAreAtomic == TypeOK /\ ReadOnlyChangesNothing /\ CommitIsAtomic
=============================================================================
