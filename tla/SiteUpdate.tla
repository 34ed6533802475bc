------------------------------ MODULE SiteUpdate ------------------------------
(***************************************************************************)
(* A site that is updated by moving it to a bench with newer code and      *)
(* migrating its tables, and that is recovered when this fails             *)
(* (agent/server.py, the update and recover jobs; agent/site.py, dump,     *)
(* migrate and restore; agent/bench.py, setup_nginx).                      *)
(*                                                                         *)
(* A bench is the version of its code.  Jobs of other sites regenerate the *)
(* NGINX configuration of the same benches at the same time.               *)
(***************************************************************************)
EXTENDS Naturals, Sequences, FiniteSetsExt

CONSTANTS
    NumBenches,
    Tables,
    Changes,      \* tables that the migration to each bench creates or alters
    Neighbours,   \* jobs of other sites, each runs setup_nginx once
    BenchOf,      \* the bench of each neighbour
    Faults,       \* a worker is killed, a command raised, press repeats an order
    MaxFaults, MaxUpdates, MaxWrites,
    None

Benches == 1..NumBenches
Processes == {"site"} \cup Neighbours

ASSUME UpdateAssumption ==
    /\ NumBenches \in Nat \ {0} /\ Changes \in [Benches -> SUBSET Tables]
    /\ BenchOf \in [Neighbours -> Benches]
    /\ Faults \subseteq {"killed", "raised", "repeated"}
    /\ MaxFaults \in Nat /\ MaxUpdates \in Nat /\ MaxWrites \in Nat
    /\ "site" \notin Neighbours /\ None \notin Processes
    /\ \A s \in SUBSET Tables : s # None

VARIABLES
    dir,          \* the site's directory in each bench: none, leftover or site
    maintenance,  \* maintenance_mode of site_config.json
    busy,         \* a background job of the site is running
    table,        \* the tables of the database
    committed,    \* rows users have written to each table
    dump,         \* .migrate: the dump of each table
    previous,     \* previous_tables.json
    touched,      \* touched_tables.json
    order,        \* what press asked for last
    plan,         \* steps each job still has to run
    todo,         \* tables left in a step that works table by table
    failed,       \* jobs that ended in a failure
    conf,         \* whether each bench's nginx.conf lists the site, or is torn
    live,         \* whether NGINX leads to the site in each bench
    lock,         \* holder of each bench's nginx.config.lock
    listed,       \* whether the site was among valid_sites when a job read them
    updates, faults

siteVars  == <<dir, maintenance, busy>>
dataVars  == <<table, committed>>
fileVars  == <<dump, previous, touched>>
jobVars   == <<order, plan, todo, failed>>
nginxVars == <<conf, live, lock, listed>>
vars == <<siteVars, dataVars, fileVars, jobVars, nginxVars, updates, faults>>

-----------------------------------------------------------------------------
Content == [version : 0..NumBenches, rows : 0..MaxWrites, whole : BOOLEAN]
Absent  == [version |-> 0, rows |-> 0, whole |-> TRUE]
Torn(c) == [c EXCEPT !.whole = FALSE]

\* The version of a table that the code of a bench expects; 0 for no table.
VersionAt(b, t) == Max({0} \cup {c \in 1..b : t \in Changes[c]})

Place == CHOOSE b \in Benches : dir[b] = "site"
Existing == {t \in Tables : table[t] # Absent}
Dumped   == {t \in Tables : dump[t] # Absent}

\* Mutant of TablesToRestore: without a record nothing counts as touched.
TouchedOnly == IF touched # None THEN touched ELSE {}

\* tables_to_restore: what migrate recorded, else every table there was.
TablesToRestore == IF touched # None THEN touched ELSE previous

Updates    == {"migrate", "pull"}
Recoveries == {"recoverMigrate", "recoverPull", "recover", "restoreTables"}

SetupNginx(b) == <<<<"read", b>>, <<"render", b>>, <<"write", b>>, <<"reload", b>>>>

\* move_site and what follows it in every job that moves a site.
Move(a, b) ==
    <<<<"move", b>>>> \o SetupNginx(a) \o SetupNginx(b) \o <<<<"reload", b>>>>

Backup(a)   == <<<<"clear", a>>, <<"list", a>>, <<"dump", a>>>>
Migrate(b)  == <<<<"setUp", b>>, <<"alter", b>>>>
Restore(b)  == <<<<"choose", b>>, <<"restore", b>>, <<"drop", b>>>>

\* The steps of each job.  A recovery restores the tables that were dumped.
Handler(o) ==
    LET a == o.source  b == o.target
    IN  CASE o.kind = "migrate" ->
                <<<<"open", a>>, <<"maintain", a>>, <<"wait", a>>>>
                \o (IF o.skipBackups THEN <<>> ELSE Backup(a))
                \o Move(a, b) \o Migrate(b) \o <<<<"activate", b>>, <<"index", b>>>>
          [] o.kind = "pull" ->
                <<<<"open", a>>, <<"maintain", a>>, <<"wait", a>>>>
                \o Move(a, b) \o <<<<"activate", b>>>>
          [] o.kind = "recoverMigrate" ->
                <<<<"open", a>>>> \o Move(a, b)
                \o (IF o.skipBackups THEN <<>> ELSE Restore(b)) \o <<<<"activate", b>>>>
          [] o.kind = "recoverPull" ->
                <<<<"open", a>>>> \o Move(a, b) \o <<<<"activate", b>>>>
          [] o.kind = "restoreTables" ->
                <<<<"open", b>>, <<"chooseAll", b>>, <<"restore", b>>, <<"activate", b>>>>
          [] o.kind = "recover" -> <<<<"open", b>>, <<"activate", b>>>>

Order == [kind : Updates \cup Recoveries, source : Benches, target : Benches,
          skipBackups : BOOLEAN]

Init ==
    /\ dir = [b \in Benches |-> IF b = 1 THEN "site" ELSE "none"]
    /\ maintenance = FALSE /\ busy = FALSE
    /\ table = [t \in Tables |->
                  IF t \in Changes[1] THEN [Absent EXCEPT !.version = 1] ELSE Absent]
    /\ committed = [t \in Tables |-> 0]
    /\ dump = [t \in Tables |-> Absent] /\ previous = None /\ touched = None
    /\ order = [kind |-> "recover", source |-> 1, target |-> 1, skipBackups |-> FALSE]
    /\ plan = [p \in Processes |-> IF p = "site" THEN <<>> ELSE SetupNginx(BenchOf[p])]
    /\ todo = {}
    /\ failed = [p \in Processes |-> FALSE]
    /\ conf = [b \in Benches |-> IF b = 1 THEN "with" ELSE "without"]
    /\ live = [b \in Benches |-> b = 1]
    /\ lock = [b \in Benches |-> None] /\ listed = [p \in Processes |-> FALSE]
    /\ updates = 0 /\ faults = 0

At(p, name) == plan[p] # <<>> /\ Head(plan[p])[1] = name
Bench(p) == Head(plan[p])[2]
Proceed(p) == plan' = [plan EXCEPT ![p] = Tail(@)]

\* A step of the site's job ends, or one of setup_nginx.
Advance(name) ==
    /\ At("site", name) /\ Proceed("site")
    /\ UNCHANGED <<order, failed, nginxVars, updates, faults>>

AdvanceNginx(p, name) ==
    /\ At(p, name) /\ Proceed(p)
    /\ UNCHANGED <<siteVars, dataVars, fileVars, order, todo, failed, updates, faults>>

\* The exception leaves the job; flocks go with the with-statement or the process.
Fail(p) ==
    /\ plan' = [plan EXCEPT ![p] = <<>>]
    /\ failed' = [failed EXCEPT ![p] = TRUE]
    /\ lock' = [b \in Benches |-> IF lock[b] = p THEN None ELSE lock[b]]
    /\ todo' = IF p = "site" THEN {} ELSE todo
    /\ UNCHANGED <<siteVars, committed, previous, order, conf, live, listed, updates>>

Fault(kind) ==
    /\ kind \in Faults /\ faults < MaxFaults
    /\ faults' = faults + 1

-----------------------------------------------------------------------------
(* The users and the background jobs of the site.                          *)

StartBackgroundJob ==
    /\ ~maintenance /\ ~busy /\ updates < MaxUpdates
    /\ busy' = TRUE
    /\ UNCHANGED <<dir, maintenance, dataVars, fileVars, jobVars, nginxVars, updates, faults>>

EndBackgroundJob ==
    /\ busy /\ busy' = FALSE
    /\ UNCHANGED <<dir, maintenance, dataVars, fileVars, jobVars, nginxVars, updates, faults>>

\* A table that the code in use knows gets a row.
CommitRow(t) ==
    /\ ~maintenance \/ busy
    /\ VersionAt(Place, t) # 0 /\ table[t].whole /\ table[t].version # 0
    /\ \A u \in Tables : committed[u] < MaxWrites
    /\ table' = [table EXCEPT ![t].rows = @ + 1]
    /\ committed' = [committed EXCEPT ![t] = @ + 1]
    /\ UNCHANGED <<siteVars, fileVars, jobVars, nginxVars, updates, faults>>

-----------------------------------------------------------------------------
(* Press, which runs one job of a site at a time.                          *)

\* The site was migrated without dumps and the migration failed.
Forfeited == order.kind \in Recoveries /\ order.skipBackups

Idle == plan["site"] = <<>>

Ask(o) ==
    /\ order' = o
    /\ plan' = [plan EXCEPT !["site"] = Handler(o)]
    /\ failed' = [failed EXCEPT !["site"] = FALSE]
    /\ UNCHANGED todo

\* A migration may be asked for without dumps; a pull where there is nothing
\* to migrate.
OrderUpdate ==
    /\ Idle /\ ~maintenance /\ ~Forfeited
    /\ Place < NumBenches /\ updates < MaxUpdates
    /\ \E kind \in Updates, skip \in BOOLEAN :
          /\ kind = "pull" => Changes[Place + 1] = {} /\ ~skip
          /\ Ask([kind |-> kind, source |-> Place, target |-> Place + 1,
                  skipBackups |-> skip])
    /\ updates' = updates + 1
    /\ UNCHANGED <<siteVars, dataVars, fileVars, nginxVars, faults>>

\* The recovery that fits where the failed job o has left the site.
RecoveryOf(o) ==
    CASE o.kind \in Updates /\ Place = o.target ->
            [o EXCEPT !.kind = IF @ = "migrate" THEN "recoverMigrate" ELSE "recoverPull",
                      !.source = o.target, !.target = o.source]
      [] o.kind \in Updates /\ Place = o.source ->
            [o EXCEPT !.kind = "recover", !.target = o.source]
      [] o.kind = "recoverMigrate" /\ Place = o.target ->
            [o EXCEPT !.kind = IF o.skipBackups THEN "recover" ELSE "restoreTables"]
      [] o.kind = "recoverPull" /\ Place = o.target -> [o EXCEPT !.kind = "recover"]
      [] OTHER -> o

OrderRecovery ==
    /\ Idle /\ failed["site"] /\ maintenance
    /\ Ask(RecoveryOf(order))
    /\ UNCHANGED <<siteVars, dataVars, fileVars, nginxVars, updates, faults>>

\* Press repeats what has failed, wherever the site is.
RepeatOrder ==
    /\ Idle /\ failed["site"] /\ maintenance
    /\ Fault("repeated")
    /\ Ask(order)
    /\ UNCHANGED <<siteVars, dataVars, fileVars, nginxVars, updates>>

-----------------------------------------------------------------------------
(* Steps of the site's jobs.                                               *)

\* Site(name, bench) wants a directory with a site_config.json.
Open ==
    /\ At("site", "open")
    /\ IF dir[Bench("site")] = "site"
       THEN Advance("open") /\ UNCHANGED <<siteVars, committed, previous, todo>>
       ELSE Fail("site") /\ UNCHANGED faults
    /\ UNCHANGED <<table, dump, touched>>

EnableMaintenanceMode ==
    /\ Advance("maintain")
    /\ maintenance' = TRUE
    /\ UNCHANGED <<dir, busy, dataVars, fileVars, todo>>

\* Mutant of WaitTillReady: the update goes on after the timeout.
WaitTillTimeout ==
    /\ Advance("wait")
    /\ UNCHANGED <<siteVars, dataVars, fileVars, todo>>

WaitTillReady ==
    /\ Advance("wait") /\ ~busy
    /\ UNCHANGED <<siteVars, dataVars, fileVars, todo>>

WaitTimesOut ==
    /\ At("site", "wait") /\ busy
    /\ Fail("site")
    /\ UNCHANGED <<table, dump, touched, faults>>

ClearBackupDirectory ==
    /\ Advance("clear")
    /\ dump' = [t \in Tables |-> Absent]
    /\ UNCHANGED <<siteVars, dataVars, previous, touched, todo>>

ListTables ==
    /\ Advance("list")
    /\ previous' = Existing /\ todo' = Existing
    /\ UNCHANGED <<siteVars, dataVars, dump, touched>>

\* A step that works table by table is through with t.
DoneWith(name, t) ==
    /\ At("site", name) /\ t \in todo /\ todo' = todo \ {t}
    /\ UNCHANGED <<siteVars, committed, previous, touched, order, plan, failed, nginxVars,
                   updates, faults>>

DumpTable(t) ==
    /\ DoneWith("dump", t)
    /\ dump' = [dump EXCEPT ![t] = table[t]]
    /\ UNCHANGED table

\* Mutant of MoveSite: an incomplete directory at the destination stays.
MoveSiteOntoLeftover ==
    /\ At("site", "move")
    /\ IF dir[Bench("site")] = "none"
       THEN /\ Advance("move")
            /\ \E rest \in {"none", "leftover"} :
                  dir' = [dir EXCEPT ![Place] = rest, ![Bench("site")] = "site"]
            /\ UNCHANGED <<maintenance, busy, committed, previous, todo>>
       ELSE Fail("site") /\ UNCHANGED faults
    /\ UNCHANGED <<table, dump, touched>>

\* An incomplete directory is archived; the move is a rename.  Processes of the
\* bench that the site leaves may create its log directory again.
MoveSite ==
    /\ Advance("move")
    /\ \E rest \in {"none", "leftover"} :
          dir' = [dir EXCEPT ![Place] = rest, ![Bench("site")] = "site"]
    /\ UNCHANGED <<maintenance, busy, dataVars, fileVars, todo>>

\* frappe deletes touched_tables.json before it changes anything.
SetUpMigration ==
    /\ Advance("setUp")
    /\ touched' = None /\ todo' = Changes[Bench("site")]
    /\ UNCHANGED <<siteVars, dataVars, dump, previous>>

\* The migration to bench b has changed the tables that are not in todo.
Altered == Changes[Bench("site")] \ todo

AlterTable(t) ==
    /\ DoneWith("alter", t)
    /\ table' = [table EXCEPT ![t].version = Bench("site"), ![t].whole = TRUE]
    /\ UNCHANGED dump

\* frappe writes touched_tables.json last, also when a patch has failed.
EndMigration ==
    /\ Advance("alter") /\ todo = {}
    /\ touched' = Altered
    /\ UNCHANGED <<siteVars, dataVars, dump, previous, todo>>

ChooseTouchedTables ==
    /\ Advance("choose") /\ TablesToRestore # None
    /\ todo' = TablesToRestore \cap Dumped
    /\ UNCHANGED <<siteVars, dataVars, fileVars>>

\* restore_site_tables takes every dump there is.
ChooseAllTables ==
    /\ Advance("chooseAll")
    /\ todo' = Dumped
    /\ UNCHANGED <<siteVars, dataVars, fileVars>>

RestoreTable(t) ==
    /\ DoneWith("restore", t)
    /\ table' = [table EXCEPT ![t] = dump[t]]
    /\ UNCHANGED dump

DropNewTable(t) ==
    /\ At("site", "drop")
    /\ t \in Existing \ previous
    /\ table' = [table EXCEPT ![t] = Absent]
    /\ UNCHANGED <<siteVars, committed, fileVars, jobVars, nginxVars, updates, faults>>

\* Nothing is left to dump, restore or drop; build_search_index, whose failure
\* is suppressed.
EndOfStep ==
    /\ \/ todo = {} /\ (Advance("dump") \/ Advance("restore"))
       \/ Advance("drop") /\ Existing \subseteq previous
       \/ Advance("index")
    /\ UNCHANGED <<siteVars, dataVars, fileVars, todo>>

DisableMaintenanceMode ==
    /\ Advance("activate")
    /\ maintenance' = FALSE
    /\ UNCHANGED <<dir, busy, dataVars, fileVars, todo>>

-----------------------------------------------------------------------------
(* setup_nginx, in jobs of the site and of its neighbours.                 *)

\* Mutant of ReadSites: the sites are read without the lock.
ReadSitesUnlocked(p) ==
    /\ AdvanceNginx(p, "read")
    /\ listed' = [listed EXCEPT ![p] = dir[Bench(p)] = "site"]
    /\ UNCHANGED <<conf, live, lock>>

\* FileLock, then valid_sites.
ReadSites(p) ==
    /\ AdvanceNginx(p, "read") /\ lock[Bench(p)] = None
    /\ lock' = [lock EXCEPT ![Bench(p)] = p]
    /\ listed' = [listed EXCEPT ![p] = dir[Bench(p)] = "site"]
    /\ UNCHANGED <<conf, live>>

\* The template is written in place.
OpenConf(p) ==
    /\ AdvanceNginx(p, "render")
    /\ conf' = [conf EXCEPT ![Bench(p)] = "torn"]
    /\ UNCHANGED <<live, lock, listed>>

WriteConf(p) ==
    /\ AdvanceNginx(p, "write")
    /\ conf' = [conf EXCEPT ![Bench(p)] = IF listed[p] THEN "with" ELSE "without"]
    /\ lock' = [b \in Benches |-> IF lock[b] = p THEN None ELSE lock[b]]
    /\ listed' = [listed EXCEPT ![p] = FALSE]
    /\ UNCHANGED live

\* NGINX reads the files of all benches.  Of a torn file it finds the syntax
\* right (then the site is cut off) or wrong.
ReloadNginx(p) ==
    /\ AdvanceNginx(p, "reload")
    /\ live' = [b \in Benches |-> conf[b] = "with"]
    /\ UNCHANGED <<conf, lock, listed>>

ReloadRaises(p) ==
    /\ At(p, "reload") /\ \E b \in Benches : conf[b] = "torn"
    /\ Fail(p)
    /\ UNCHANGED <<table, dump, touched, faults>>

-----------------------------------------------------------------------------
(* A command raises or the worker dies, with the step half done.  An        *)
(* exception in migrate still lets frappe record the touched tables.       *)

Interrupt(p, kind) ==
    /\ plan[p] # <<>>
    /\ Fault(kind)
    /\ IF p = "site" /\ At(p, "dump") /\ todo # {}
       THEN \E t \in todo : dump' = [dump EXCEPT ![t] = Torn(table[t])]
       ELSE UNCHANGED dump
    /\ IF p = "site" /\ At(p, "restore") /\ todo # {}
       THEN \E t \in todo : table' = [table EXCEPT ![t] = Torn(dump[t])]
       ELSE UNCHANGED table
    /\ touched' = IF p = "site" /\ At(p, "alter") /\ kind = "raised" THEN Altered ELSE touched
    /\ Fail(p)

-----------------------------------------------------------------------------
TableStep(t) ==
    DumpTable(t) \/ AlterTable(t) \/ RestoreTable(t) \/ DropNewTable(t)

SiteStep ==
    \/ Open \/ EnableMaintenanceMode \/ WaitTillReady \/ WaitTimesOut
    \/ ClearBackupDirectory \/ ListTables \/ MoveSite
    \/ SetUpMigration \/ EndMigration \/ ChooseTouchedTables \/ ChooseAllTables
    \/ EndOfStep \/ DisableMaintenanceMode
    \/ \E t \in Tables : TableStep(t)

NginxStep(p) ==
    ReadSites(p) \/ OpenConf(p) \/ WriteConf(p) \/ ReloadNginx(p) \/ ReloadRaises(p)

Next ==
    \/ StartBackgroundJob \/ EndBackgroundJob
    \/ \E t \in Tables : CommitRow(t)
    \/ OrderUpdate \/ OrderRecovery \/ RepeatOrder
    \/ SiteStep
    \/ \E p \in Processes : NginxStep(p)
    \/ \E p \in Processes, kind \in {"killed", "raised"} : Interrupt(p, kind)

\* The worker runs the steps of a job; press recovers a site whose job failed.
Fairness ==
    /\ WF_vars(SiteStep \/ NginxStep("site")) /\ WF_vars(OrderRecovery)
    /\ \A n \in Neighbours : WF_vars(NginxStep(n))

Spec == Init /\ [][Next]_vars
FairSpec == Spec /\ Fairness

-----------------------------------------------------------------------------
(* What an update promises.                                                *)

\* Every variable keeps its type, and the site is in one bench.
TypeOK ==
    /\ dir \in [Benches -> {"none", "leftover", "site"}]
    /\ \E b \in Benches : \A c \in Benches : dir[c] = "site" <=> c = b
    /\ maintenance \in BOOLEAN /\ busy \in BOOLEAN
    /\ table \in [Tables -> Content] /\ dump \in [Tables -> Content]
    /\ committed \in [Tables -> 0..MaxWrites]
    /\ previous \in (SUBSET Tables) \cup {None} /\ touched \in (SUBSET Tables) \cup {None}
    /\ order \in Order /\ todo \subseteq Tables
    /\ failed \in [Processes -> BOOLEAN] /\ listed \in [Processes -> BOOLEAN]
    /\ conf \in [Benches -> {"with", "without", "torn"}] /\ live \in [Benches -> BOOLEAN]
    /\ lock \in [Benches -> Processes \cup {None}]
    /\ updates \in 0..MaxUpdates /\ faults \in 0..MaxFaults

\* A table as the code of bench b expects it, with every row users committed.
Fits(content, b, t) ==
    VersionAt(b, t) # 0 =>
        content = [version |-> VersionAt(b, t), rows |-> committed[t], whole |-> TRUE]

\* Once maintenance is over, the bench finds every table in its version with
\* every row, whatever was killed, failed, recovered or repeated before.
ServedIntact ==
    ~maintenance /\ ~Forfeited => \A t \in Tables : Fits(table[t], Place, t)

\* While a migration with dumps may still have to be undone, the dumps hold
\* the database as it was.
Restorable ==
    /\ order.kind = "migrate" /\ ~order.skipBackups
    /\ Place = order.target /\ maintenance
    => \A t \in Tables : Fits(dump[t], order.source, t)

\* A job that moves a site and succeeds leaves NGINX leading to the bench
\* where the site is and to no other, also when jobs of other sites set up the
\* same benches meanwhile.
RoutedWhereItIs ==
    /\ \A p \in Processes : plan[p] = <<>> /\ ~failed[p]
    /\ order.kind \notin {"recover", "restoreTables"}
    => \A b \in Benches : live[b] = (b = Place)

\* A site never stays in maintenance mode: its update ends, or a recovery
\* does, even one that was itself interrupted.
ServedAgain == maintenance ~> ~maintenance

\* The type invariant, and what a recovery counts on.
UpdateIsSound == TypeOK /\ Restorable
=============================================================================
