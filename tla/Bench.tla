--------------------------------- MODULE Bench ---------------------------------
(***************************************************************************)
(* A bench: a directory with sites and configuration, a container that     *)
(* runs an image, and the jobs that create, update, recover, configure and *)
(* archive it and its sites (agent/bench.py, agent/server.py).  The jobs   *)
(* of a server run in several workers, beside each other and beside the    *)
(* clean-up of unused files and Docker artefacts.                          *)
(*                                                                         *)
(* An image is the number of the code that it was built with.              *)
(***************************************************************************)
EXTENDS Naturals, Sequences

CONSTANTS
    Jobs,
    Orders,      \* sets of jobs that press may order together
    Kind,        \* what each job does
    ImageOf,     \* the image that a job makes or goes back to
    SiteOf,      \* the site that a job is about
    NameOf,      \* what the site is called when the job is done
    Sites,
    FirstImages, \* images of the registry
    MaxFaults,
    None

Images == FirstImages \cup {ImageOf[j] : j \in Jobs}

JobKinds ==
    {"new_bench", "new_site", "from_backup", "restore_site", "reinstall", "migrate_site",
     "after_migrate", "rename", "archive_site", "update", "recover", "config", "limits",
     "code_server", "archive_bench", "cleanup", "push"}

\* Only a renaming gives a site another name, and an in-place update is given
\* a name of its own for the image that it makes.
ASSUME BenchAssumption ==
    /\ Orders \subseteq SUBSET Jobs /\ Kind \in [Jobs -> JobKinds]
    /\ ImageOf \in [Jobs -> Nat] /\ SiteOf \in [Jobs -> Sites] /\ NameOf \in [Jobs -> Sites]
    /\ \A j \in Jobs : Kind[j] # "rename" => NameOf[j] = SiteOf[j]
    /\ \A j \in Jobs : Kind[j] = "update" => ImageOf[j] \notin FirstImages
    /\ FirstImages \subseteq Nat /\ FirstImages # {}
    /\ MaxFaults \in Nat /\ None \notin Jobs \cup Nat \cup [image : Nat, code : Nat, up : BOOLEAN]

VARIABLES
    directory,   \* whether the bench has a directory
    conf,        \* common_site_config.json: "missing", "broken" or "ok"
    image,       \* docker_image in the bench's config.json
    container,   \* None or [image, code, up]
    local,       \* images on the server
    registry,    \* images in the registry
    codeOf,      \* the code in each image
    site,        \* the directory of each site: "none", "partial" or "ok"
    migrated,    \* the code that each site's database belongs to; None for a backup's
    maintenance, \* sites in maintenance mode
    routed,      \* sites in the bench's nginx.conf
    nginxLock,   \* the job that holds nginx.config.lock
    leftovers,   \* temporary database users of sites, downloads of jobs
    todo,        \* the steps that each job has still to take
    result,      \* "unordered", "queued", "running", "killed", "Success", "Failure"
    failing,     \* jobs that run a "finally" on their way to a failure
    saw,         \* what a job has read: sites, its site or the bench configuration
    clean,       \* whether the container was as its image says at a job's start
    fresh,       \* sites created since an archival looked for sites
    overlaps,    \* jobs that ran beside another one
    faults

docker    == <<container, local, registry, codeOf>>
siteVars  == <<site, migrated, maintenance, fresh>>
nginx     == <<routed, nginxLock>>
benchVars == <<directory, conf, image>>
jobVars   == <<todo, result, failing>>
atStart   == <<clean, overlaps>>
vars == <<docker, siteVars, nginx, benchVars, jobVars, atStart, leftovers, saw, faults>>

-----------------------------------------------------------------------------
(* Jobs and their steps.                                                   *)

\* "remove" and "run" are deploy, "list" and "route" are setup_nginx.  An
\* update of the configuration is one with new ports, which deploys.
Plan(kind) ==
    CASE kind = "new_bench"     -> <<"init", "remove", "run", "list", "route">>
      [] kind = "new_site"      -> <<"user", "create", "drop user", "install", "list", "route">>
      [] kind = "from_backup"   -> <<"download", "user", "create", "drop user", "user", "restore",
                                     "drop user", "delete", "migrate site", "list", "route">>
      [] kind = "restore_site"  -> <<"download", "user", "restore", "drop user", "delete",
                                     "migrate site", "list", "route">>
      [] kind = "reinstall"     -> <<"user", "reinstall", "drop user">>
      [] kind = "migrate_site"  -> <<"migrate site", "site on">>
      [] kind = "after_migrate" -> <<"list", "route", "site on">>
      [] kind = "rename"        -> <<"find", "site off", "rename", "list", "route", "site on">>
      [] kind = "archive_site"  -> <<"user", "drop site", "drop user", "list", "route">>
      [] kind = "update"        -> <<"pull", "migrate", "commit", "image", "restart">>
      [] kind = "recover"       -> <<"image", "maintain", "remove", "run", "list", "route",
                                     "recover sites">>
      [] kind = "config"        -> <<"read", "write", "list", "route", "remove", "run">>
      [] kind = "limits"        -> <<"stop", "start">>
      [] kind = "code_server"   -> <<"list unlocked", "route unlocked">>
      [] kind = "archive_bench" -> <<"check", "remove", "gone", "move">>
      [] kind = "cleanup"       -> <<"prune">>
      [] kind = "push"          -> <<"push">>

Running(j) == result[j] = "running"
At(j, step) == Running(j) /\ Head(todo[j]) = step

Then(j, steps) ==
    /\ todo' = [todo EXCEPT ![j] = steps]
    /\ result' = [result EXCEPT ![j] =
                    IF steps # <<>> THEN @ ELSE IF j \in failing THEN "Failure" ELSE "Success"]

Advance(j) == Then(j, Tail(todo[j])) /\ UNCHANGED failing

\* What a try ... finally still does when a step raises.
Finally(steps) ==
    CASE Head(steps) \in {"create", "reinstall", "drop site"}   -> <<"drop user">>
      [] Head(steps) = "restore"                                -> <<"drop user", "delete">>
      [] Head(steps) = "user" /\ Head(Tail(steps)) = "restore" -> <<"delete">>
      [] OTHER                                                  -> <<>>

\* Mutant of RaiseIn: what is temporary stays behind.
RaiseWithoutFinally(j) ==
    /\ failing' = failing \cup {j}
    /\ todo' = [todo EXCEPT ![j] = <<>>] /\ result' = [result EXCEPT ![j] = "Failure"]

RaiseIn(j) ==
    LET steps == Finally(todo[j])
    IN  /\ failing' = failing \cup {j}
        /\ todo' = [todo EXCEPT ![j] = steps]
        /\ result' = [result EXCEPT ![j] = IF steps = <<>> THEN "Failure" ELSE @]

-----------------------------------------------------------------------------
Up        == container # None /\ container.up
Available == local \cup registry
Readable  == {s \in Sites : site[s] = "ok"}
HasNoSites == Readable = {}

\* The container runs what its image holds, and the sites belong to that,
\* but for those that have a backup's database and wait for its migration.
Consistent ==
    /\ container # None /\ container.code = codeOf[image]
    /\ \A s \in Readable : migrated[s] \in {container.code, None}

\* Either a bench that runs, or nothing at all.
Init ==
    /\ directory \in BOOLEAN
    /\ image \in FirstImages
    /\ codeOf = [i \in Images |-> IF i \in FirstImages THEN i ELSE None]
    /\ container = IF directory THEN [image |-> image, code |-> image, up |-> TRUE] ELSE None
    /\ conf = IF directory THEN "ok" ELSE "missing"
    /\ local = IF directory THEN {image} ELSE {}
    /\ registry = FirstImages
    /\ site \in [Sites -> IF directory THEN {"none", "ok"} ELSE {"none"}]
    /\ migrated = [s \in Sites |-> image]
    /\ maintenance = {} /\ fresh = {} /\ routed = Readable /\ nginxLock = None
    /\ \E ordered \in Orders :
          result = [j \in Jobs |-> IF j \in ordered THEN "queued" ELSE "unordered"]
    /\ todo = [j \in Jobs |-> <<>>] /\ failing = {} /\ leftovers = {}
    /\ saw = [j \in Jobs |-> None] /\ clean = {} /\ overlaps = {} /\ faults = 0

\* Requests about a bench or a site that cannot be read are refused.
Refused(j) ==
    \/ /\ Kind[j] \notin {"new_bench", "archive_bench", "cleanup", "push"}
       /\ ~directory \/ conf # "ok"
    \/ /\ Kind[j] \in {"restore_site", "reinstall", "migrate_site", "after_migrate"}
       /\ site[SiteOf[j]] # "ok"

\* Archiving what is not there is a success.
Gone(j) ==
    \/ Kind[j] = "archive_bench" /\ ~directory
    \/ Kind[j] = "archive_site" /\ site[SiteOf[j]] = "none"

\* press goes back to an image that has been made.
Start(j) ==
    /\ result[j] = "queued"
    /\ Kind[j] = "recover" => codeOf[ImageOf[j]] # None
    /\ LET others == {k \in Jobs \ {j} : Running(k)}
       IN  /\ overlaps' = overlaps \cup others \cup (IF others = {} THEN {} ELSE {j})
           /\ result' = [result EXCEPT ![j] =
                IF Refused(j) THEN "Failure" ELSE IF Gone(j) THEN "Success" ELSE "running"]
           /\ todo' = [todo EXCEPT ![j] = IF Refused(j) \/ Gone(j) THEN <<>> ELSE Plan(Kind[j])]
    /\ clean' = IF Consistent THEN clean \cup {j} ELSE clean
    /\ UNCHANGED <<docker, siteVars, nginx, benchVars, failing, leftovers, saw, faults>>

\* What a step needs so as not to raise.
Possible(j) ==
    LET step == Head(todo[j])
        s    == SiteOf[j]
    IN  CASE step = "init"   -> ~directory /\ ImageOf[j] \in Available
          [] step = "run"    -> directory /\ container = None /\ image \in Available
          [] step = "create" -> Up /\ site[s] = "none" /\ <<s, "user">> \in leftovers
          [] step \in {"restore", "reinstall", "drop site"} ->
                Up /\ site[s] = "ok" /\ <<s, "user">> \in leftovers
          [] step = "user"   -> Kind[j] = "archive_site" => site[s] = "ok"
          [] step = "find"   -> "ok" \in {site[s], site[NameOf[j]]}
          [] step = "site off" -> Up /\ site[saw[j]] = "ok"
          [] step = "rename" -> /\ site[saw[j]] = "ok"
                                /\ saw[j] # NameOf[j] => site[NameOf[j]] = "none"
          [] step \in {"migrate site", "site on"} -> Up /\ site[NameOf[j]] = "ok"
          [] step = "gone"   -> container = None
          [] step = "check"  -> directory /\ (conf = "missing" \/ HasNoSites)
          [] step = "push"   -> ImageOf[j] \in local
          [] step \in {"commit", "stop", "start"} -> directory /\ container # None
          [] step \in {"install", "pull", "migrate", "restart", "recover sites"} -> Up
          [] step \in {"list", "list unlocked"} -> directory /\ conf = "ok"
          [] step \in {"remove", "route", "route unlocked", "image", "maintain", "read",
                       "write", "move"} -> directory
          [] OTHER -> TRUE

Can(j, step) == At(j, step) /\ Possible(j) /\ UNCHANGED <<atStart, faults>>

-----------------------------------------------------------------------------
(* Creating, starting and stopping.                                        *)

\* bench_init: directories, configuration, and what the image holds of them.
InitBench(j) ==
    /\ Can(j, "init") /\ Advance(j)
    /\ directory' = TRUE /\ conf' = "ok" /\ image' = ImageOf[j]
    /\ local' = local \cup {ImageOf[j]}
    /\ UNCHANGED <<container, registry, codeOf, siteVars, nginx, leftovers, saw>>

\* docker stop, docker rm; that there is nothing to stop does not matter.
Remove(j) ==
    /\ Can(j, "remove") /\ Advance(j)
    /\ container' = None
    /\ UNCHANGED <<local, registry, codeOf, siteVars, nginx, benchVars, leftovers, saw>>

\* docker run; an image that is not on the server is pulled.
Run(j) ==
    /\ Can(j, "run") /\ Advance(j)
    /\ container' = [image |-> image, code |-> codeOf[image], up |-> TRUE]
    /\ local' = local \cup {image}
    /\ UNCHANGED <<registry, codeOf, siteVars, nginx, benchVars, leftovers, saw>>

\* force_update_limits stops and starts the container.
StopOrStart(j) ==
    /\ \/ Can(j, "stop") /\ container' = [container EXCEPT !.up = FALSE]
       \/ Can(j, "start") /\ container' = [container EXCEPT !.up = TRUE]
    /\ Advance(j)
    /\ UNCHANGED <<local, registry, codeOf, siteVars, nginx, benchVars, leftovers, saw>>

\* docker system prune -af: stopped containers, images without a container.
Prune(j) ==
    /\ Can(j, "prune") /\ Advance(j)
    /\ container' = IF Up THEN container ELSE None
    /\ local' = IF Up THEN {container.image} ELSE {}
    /\ UNCHANGED <<registry, codeOf, siteVars, nginx, benchVars, leftovers, saw>>

Push(j) ==
    /\ Can(j, "push") /\ Advance(j)
    /\ registry' = registry \cup {ImageOf[j]}
    /\ UNCHANGED <<container, local, codeOf, siteVars, nginx, benchVars, leftovers, saw>>

-----------------------------------------------------------------------------
(* setup_nginx and setup_code_server.                                      *)

\* Mutant of Free: the lock is not there.
FreeAlways(j) == TRUE

Free(j) == nginxLock = None

ListSites(j) ==
    /\ Can(j, "list") /\ Free(j) /\ Advance(j)
    /\ saw' = [saw EXCEPT ![j] = Readable] /\ nginxLock' = j
    /\ UNCHANGED <<docker, siteVars, routed, benchVars, leftovers>>

Route(j) ==
    /\ Can(j, "route") /\ Advance(j)
    /\ routed' = saw[j] /\ nginxLock' = None
    /\ UNCHANGED <<docker, siteVars, benchVars, leftovers, saw>>

\* The code server's job generates the same file without the lock.
ListUnlocked(j) ==
    /\ Can(j, "list unlocked") /\ Advance(j)
    /\ saw' = [saw EXCEPT ![j] = Readable]
    /\ UNCHANGED <<docker, siteVars, nginx, benchVars, leftovers>>

RouteUnlocked(j) ==
    /\ Can(j, "route unlocked") /\ Advance(j)
    /\ routed' = saw[j]
    /\ UNCHANGED <<docker, siteVars, nginxLock, benchVars, leftovers, saw>>

-----------------------------------------------------------------------------
(* Sites.                                                                  *)

\* create_mariadb_user, download_files, and what removes them again: the user
\* belongs to the site's database, the directory to the job.
Leave(j) ==
    /\ LET user == <<SiteOf[j], "user">>
           files == <<j, "download">>
       IN  \/ Can(j, "user") /\ leftovers' = leftovers \cup {user}
           \/ Can(j, "download") /\ leftovers' = leftovers \cup {files}
           \/ Can(j, "drop user") /\ leftovers' = leftovers \ {user}
           \/ Can(j, "delete") /\ leftovers' = leftovers \ {files}
    /\ Advance(j)
    /\ UNCHANGED <<docker, siteVars, nginx, benchVars, saw>>

\* bench new-site.
CreateSite(j) ==
    /\ Can(j, "create") /\ Advance(j)
    /\ site' = [site EXCEPT ![SiteOf[j]] = "ok"]
    /\ migrated' = [migrated EXCEPT ![SiteOf[j]] = container.code]
    /\ fresh' = fresh \cup {SiteOf[j]}
    /\ UNCHANGED <<docker, maintenance, nginx, benchVars, leftovers, saw>>

\* Steps that change nothing here but may raise.
InContainer(j) ==
    /\ \E step \in {"install", "restart"} : Can(j, step)
    /\ Advance(j)
    /\ UNCHANGED <<docker, siteVars, nginx, benchVars, leftovers, saw>>

\* The database of a backup belongs to whatever code it was made with.
RestoreSite(j) ==
    /\ Can(j, "restore") /\ Advance(j)
    /\ migrated' = [migrated EXCEPT ![SiteOf[j]] = None]
    /\ UNCHANGED <<docker, site, maintenance, fresh, nginx, benchVars, leftovers, saw>>

Reinstall(j) ==
    /\ Can(j, "reinstall") /\ Advance(j)
    /\ migrated' = [migrated EXCEPT ![SiteOf[j]] = container.code]
    /\ UNCHANGED <<docker, site, maintenance, fresh, nginx, benchVars, leftovers, saw>>

MigrateSite(j) ==
    /\ Can(j, "migrate site") /\ Advance(j)
    /\ migrated' = [migrated EXCEPT ![NameOf[j]] = container.code]
    /\ UNCHANGED <<docker, site, maintenance, fresh, nginx, benchVars, leftovers, saw>>

SetMaintenanceMode(j) ==
    /\ \/ Can(j, "site off") /\ maintenance' = maintenance \cup {saw[j]}
       \/ Can(j, "site on") /\ maintenance' = maintenance \ {NameOf[j]}
    /\ Advance(j)
    /\ UNCHANGED <<docker, site, migrated, fresh, nginx, benchVars, leftovers, saw>>

\* get_site_from_name: an earlier try may have renamed the site already.
FindSite(j) ==
    /\ Can(j, "find") /\ Advance(j)
    /\ saw' = [saw EXCEPT ![j] = IF site[SiteOf[j]] = "ok" THEN SiteOf[j] ELSE NameOf[j]]
    /\ UNCHANGED <<docker, siteVars, nginx, benchVars, leftovers>>

\* The directory takes its configuration along.
RenameSite(j) ==
    LET new(f) == [s \in Sites |-> IF s = NameOf[j] THEN f[saw[j]] ELSE f[s]]
        also(S) == IF saw[j] \in S THEN S \cup {NameOf[j]} ELSE S \ {NameOf[j]}
    IN  /\ Can(j, "rename") /\ Advance(j)
        /\ site' = IF saw[j] = NameOf[j] THEN site ELSE [new(site) EXCEPT ![saw[j]] = "none"]
        /\ migrated' = new(migrated)
        /\ maintenance' = also(maintenance) \ ({saw[j]} \ {NameOf[j]})
        /\ fresh' = also(fresh)
        /\ UNCHANGED <<docker, nginx, benchVars, leftovers, saw>>

\* bench drop-site.
DropSite(j) ==
    /\ Can(j, "drop site") /\ Advance(j)
    /\ site' = [site EXCEPT ![SiteOf[j]] = "none"]
    /\ maintenance' = maintenance \ {SiteOf[j]}
    /\ UNCHANGED <<docker, migrated, fresh, nginx, benchVars, leftovers, saw>>

-----------------------------------------------------------------------------
(* update_inplace, recover_update_inplace, update_config_job.              *)

\* The container has the code already: the job ends.
PullAppChanges(j) ==
    /\ Can(j, "pull")
    /\ IF container.code = ImageOf[j] THEN Then(j, <<>>) /\ UNCHANGED failing ELSE Advance(j)
    /\ container' = [container EXCEPT !.code = ImageOf[j]]
    /\ UNCHANGED <<local, registry, codeOf, siteVars, nginx, benchVars, leftovers, saw>>

MigrateSites(j) ==
    /\ Can(j, "migrate") /\ Advance(j)
    /\ migrated' = [s \in Sites |-> IF s \in Readable THEN container.code ELSE migrated[s]]
    /\ maintenance' = maintenance \ Readable
    /\ UNCHANGED <<docker, site, fresh, nginx, benchVars, leftovers, saw>>

CommitContainer(j) ==
    /\ Can(j, "commit") /\ Advance(j)
    /\ local' = local \cup {ImageOf[j]}
    /\ codeOf' = [codeOf EXCEPT ![ImageOf[j]] = container.code]
    /\ UNCHANGED <<container, registry, siteVars, nginx, benchVars, leftovers, saw>>

\* Mutant of SetImage: the bench's configuration keeps its image.
KeepImage(j) ==
    /\ Can(j, "image") /\ Advance(j)
    /\ UNCHANGED <<docker, siteVars, nginx, benchVars, leftovers, saw>>

SetImage(j) ==
    /\ Can(j, "image") /\ Advance(j)
    /\ image' = ImageOf[j]
    /\ UNCHANGED <<docker, siteVars, nginx, directory, conf, leftovers, saw>>

\* Where it is possible: errors are ignored.
EnableMaintenanceMode(j) ==
    /\ Can(j, "maintain") /\ Advance(j)
    /\ maintenance' = IF Up THEN maintenance \cup Readable ELSE maintenance
    /\ UNCHANGED <<docker, site, migrated, fresh, nginx, benchVars, leftovers, saw>>

\* The tables that the update touched come back from their backups.
RecoverSites(j) ==
    /\ Can(j, "recover sites") /\ Advance(j)
    /\ migrated' = [s \in Sites |-> IF s \in Readable /\ migrated[s] # None THEN ImageOf[j]
                                   ELSE migrated[s]]
    /\ maintenance' = maintenance \ Readable
    /\ UNCHANGED <<docker, site, fresh, nginx, benchVars, leftovers, saw>>

\* The bench's own configuration is read and written without a lock.
ReadConfig(j) ==
    /\ Can(j, "read") /\ Advance(j)
    /\ saw' = [saw EXCEPT ![j] = image]
    /\ UNCHANGED <<docker, siteVars, nginx, benchVars, leftovers>>

WriteConfig(j) ==
    /\ Can(j, "write") /\ Advance(j)
    /\ image' = saw[j]
    /\ UNCHANGED <<docker, siteVars, nginx, directory, conf, leftovers, saw>>

-----------------------------------------------------------------------------
(* archive_bench.                                                          *)


\* Without common_site_config.json there is nothing to disable.
Check(j) ==
    /\ Can(j, "check")
    /\ IF conf = "missing" THEN Then(j, <<"gone", "move">>) /\ UNCHANGED failing
       ELSE Advance(j)
    /\ fresh' = {}
    /\ UNCHANGED <<docker, site, migrated, maintenance, nginx, benchVars, leftovers, saw>>

\* container_exists.
ContainerIsGone(j) ==
    /\ Can(j, "gone") /\ Advance(j)
    /\ UNCHANGED <<docker, siteVars, nginx, benchVars, leftovers, saw>>

MoveToArchived(j) ==
    /\ Can(j, "move") /\ Advance(j)
    /\ directory' = FALSE /\ conf' = "missing"
    /\ site' = [s \in Sites |-> "none"] /\ routed' = {}
    /\ UNCHANGED <<docker, image, migrated, maintenance, fresh, nginxLock, leftovers, saw>>

-----------------------------------------------------------------------------
(* Failures.                                                               *)

\* A step raises that cannot do its work, or for any other reason.
Raise(j) ==
    /\ Running(j) /\ Head(todo[j]) \notin {"drop user", "delete"}
    /\ \/ ~Possible(j) /\ UNCHANGED faults
       \/ faults < MaxFaults /\ faults' = faults + 1
    /\ RaiseIn(j)
    /\ nginxLock' = IF nginxLock = j THEN None ELSE nginxLock
    /\ UNCHANGED <<docker, siteVars, routed, benchVars, atStart, leftovers, saw>>

\* Steps that fail half way.
FailHalfWay(j) ==
    /\ Running(j) /\ Possible(j) /\ faults < MaxFaults /\ faults' = faults + 1
    /\ \/ /\ At(j, "init")
          /\ directory' = TRUE /\ image' = ImageOf[j] /\ UNCHANGED <<conf, siteVars>>
       \/ /\ At(j, "create")
          /\ site' = [site EXCEPT ![SiteOf[j]] = "partial"]
          /\ UNCHANGED <<benchVars, migrated, maintenance, fresh>>
       \/ /\ At(j, "migrate")
          /\ \E s \in Readable, done \in SUBSET Readable :
                /\ s \notin done
                /\ maintenance' = (maintenance \ done) \cup {s}
                /\ migrated' = [t \in Sites |-> IF t \in done THEN container.code
                                               ELSE migrated[t]]
          /\ UNCHANGED <<benchVars, site, fresh>>
    /\ RaiseIn(j)
    /\ UNCHANGED <<docker, nginx, atStart, leftovers, saw>>

WorkerKilled(j) ==
    /\ Running(j) /\ faults < MaxFaults /\ faults' = faults + 1
    /\ result' = [result EXCEPT ![j] = "killed"] /\ todo' = [todo EXCEPT ![j] = <<>>]
    /\ nginxLock' = IF nginxLock = j THEN None ELSE nginxLock
    /\ UNCHANGED <<docker, siteVars, routed, benchVars, failing, atStart, leftovers, saw>>

\* A write of common_site_config.json is cut off.
BreakConfig ==
    /\ directory /\ conf = "ok" /\ faults < MaxFaults /\ faults' = faults + 1
    /\ conf' = "broken"
    /\ UNCHANGED <<docker, siteVars, nginx, directory, image, jobVars, atStart, leftovers, saw>>

Step(j) ==
    \/ Start(j) \/ InitBench(j) \/ Remove(j) \/ Run(j) \/ StopOrStart(j) \/ Prune(j)
    \/ Push(j) \/ ListSites(j) \/ Route(j) \/ ListUnlocked(j) \/ RouteUnlocked(j)
    \/ Leave(j) \/ CreateSite(j) \/ InContainer(j) \/ DropSite(j) \/ PullAppChanges(j)
    \/ RestoreSite(j) \/ Reinstall(j) \/ MigrateSite(j) \/ SetMaintenanceMode(j)
    \/ FindSite(j) \/ RenameSite(j)
    \/ MigrateSites(j) \/ CommitContainer(j) \/ SetImage(j) \/ EnableMaintenanceMode(j)
    \/ RecoverSites(j) \/ ReadConfig(j) \/ WriteConfig(j) \/ Check(j)
    \/ ContainerIsGone(j) \/ MoveToArchived(j) \/ Raise(j) \/ FailHalfWay(j)

Next == BreakConfig \/ \E j \in Jobs : Step(j) \/ WorkerKilled(j)

Spec == Init /\ [][Next]_vars /\ \A j \in Jobs : WF_vars(Step(j))

-----------------------------------------------------------------------------
TypeOK ==
    /\ directory \in BOOLEAN /\ conf \in {"missing", "broken", "ok"} /\ image \in Images
    /\ container # None => container \in [image : Images, code : Images, up : BOOLEAN]
    /\ local \subseteq Images /\ registry \subseteq Images
    /\ site \in [Sites -> {"none", "partial", "ok"}] /\ migrated \in [Sites -> Images \cup {None}]
    /\ maintenance \subseteq Sites /\ routed \subseteq Sites
    /\ result \in [Jobs -> {"unordered", "queued", "running", "killed", "Success", "Failure"}]
    /\ \A j \in Jobs : Running(j) <=> todo[j] # <<>>
    /\ nginxLock # None => Running(nginxLock)


Names(j, s) == Kind[j] \in {"new_site", "from_backup", "rename"} /\ NameOf[j] = s

\* A site whose creation or renaming was a success stays in the bench's
\* nginx.conf as long as it exists, whatever other jobs list and write at the
\* same time; except for the code server's job, which does so without the lock.
NewSiteStaysRouted ==
    \A j \in Jobs :
        LET s == NameOf[j]
            disturbing == {k \in Jobs \ {j} : Kind[k] = "code_server" \/ Names(k, s)}
        IN  /\ Names(j, s) /\ result[j] = "Success" /\ site[s] = "ok"
            /\ \A k \in disturbing : result[k] \in {"unordered", "queued"}
            => s \in routed

\* Jobs that have ended leave neither the temporary database user of their
\* site nor downloads behind, whichever step of a restore or an archival
\* failed, unless a worker was killed, or a job failed before it came to
\* restore what it had downloaded.
NothingTemporaryLeft ==
    /\ \A s \in Sites : <<s, "user">> \in leftovers =>
          \E j \in Jobs : SiteOf[j] = s /\ result[j] \in {"running", "killed"}
    /\ \A j \in Jobs : <<j, "download">> \in leftovers =>
          \/ result[j] \in {"running", "killed"}
          \/ Kind[j] = "from_backup" /\ result[j] = "Failure"

Ends(j, kind) ==
    Kind[j] = kind /\ Running(j) /\ result'[j] = "Success" /\ j \notin overlaps

\* An in-place update that nothing ran beside and that began on a consistent
\* bench is complete when it says success: the container runs the new code,
\* the sites are migrated to it, and the image that the next start of the
\* container will use holds it.
InPlaceIsComplete ==
    [][\A j \in Jobs : Ends(j, "update") /\ j \in clean =>
          Consistent' /\ container'.code = ImageOf[j]]_vars

\* A recovery that nothing ran beside leaves, when it says success, a
\* consistent bench on the image it went back to, out of maintenance mode,
\* however far the update came and whatever was killed or pruned before.
RecoveredIsConsistent ==
    [][\A j \in Jobs : Ends(j, "recover") /\ ImageOf[j] \in FirstImages =>
          Consistent' /\ Up' /\ image' = ImageOf[j] /\ maintenance' \cap Readable' = {}]_vars

\* "Will stop and remove failed inplace updated container and start last
\* running container pointed to by image."
RecoveryStartsAgain ==
    \A j \in Jobs :
        /\ Kind[j] = "recover" /\ result[j] \in {"Success", "Failure"} /\ j \notin overlaps
        /\ directory /\ \A k \in Jobs : Kind[k] \in {"archive_bench", "limits"} => ~Running(k)
        => container # None

\* A renaming that nothing ran beside leaves, when it says success, the site
\* under its new name, routed and out of maintenance mode, also when an earlier
\* try failed before or after it had moved the directory.
RenamedIsServed ==
    [][\A j \in Jobs : Ends(j, "rename") =>
          site'[NameOf[j]] = "ok" /\ NameOf[j] \in routed' \ maintenance']_vars

\* The type invariant, and that jobs tidy up.
JobsTidyUp == TypeOK /\ NothingTemporaryLeft

\* What updates, recoveries and renamings leave when they say success.
SuccessIsComplete == InPlaceIsComplete /\ RecoveredIsConsistent /\ RenamedIsServed
=============================================================================
