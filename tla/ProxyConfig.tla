----------------------------- MODULE ProxyConfig -----------------------------
(***************************************************************************)
(* The configuration directory of a proxy (agent/proxy.py): one directory  *)
(* per upstream with a file per site, one directory per host with map.json *)
(* and redirect.json, and secondaries.json with a lock file of its own.    *)
(*                                                                         *)
(* A job is the sequence of file-system operations its handler performs,   *)
(* each of them a step, because a worker may be killed between any two.    *)
(* The proxy lock is an flock and dies with its holder; the lock of        *)
(* secondaries.json is a file and does not.  _generate_proxy_config reads  *)
(* the directory with the proxy lock held: what it sees is the state of    *)
(* this module whenever lock = None.                                       *)
(***************************************************************************)
EXTENDS Naturals, Sequences, FiniteSets, SequencesExt

CONSTANTS
    Jobs,
    Upstreams,
    Names,        \* sites and domains
    DefaultHosts, \* the names under the domain of the proxy
    Site, Home,   \* a site, and the upstream that has it at the start
    Domain,       \* a custom domain of Site, with a host directory
    NewName,      \* what Site may be renamed to
    Kinds,        \* the kinds of job that are enqueued
    ProxyFaults,  \* kinds of failure that may happen
    MaxFaults,    \* bound on how many of them do
    None

Statuses == {"active", "suspended"}

ASSUME ProxyAssumption ==
    /\ DefaultHosts \subseteq Names /\ {Site, Domain, NewName} \subseteq Names
    /\ Site # Domain /\ NewName \notin {Site, Domain}
    /\ IsFiniteSet(Upstreams) /\ Home \in Upstreams
    /\ ProxyFaults \subseteq {"killed", "raised", "reader"}
    /\ MaxFaults \in Nat
    /\ None \notin Jobs /\ "stale" \notin Jobs \cup {None}

VARIABLES
    dirs,         \* upstream directories
    nested,       \* <<u, v>>: the directory of u contains a directory v
    site,         \* the site files of each upstream, and what they say
    hostDirs,     \* host directories
    map,          \* map.json of each host, as a set of pairs
    redirect,     \* redirect.json of each host, as a set of pairs
    torn,         \* JSON files that are truncated, whatever map and redirect say
    scaled,       \* upstreams with secondaries
    softLock,     \* holder of secondaries.json.lock
    lock,         \* holder of proxy_config.lock
    operation,    \* what each job was enqueued for
    todo,         \* what is left of its handler
    result,       \* progress of each job
    faults

hostVars == <<hostDirs, map, redirect, torn>>
upstreamVars == <<dirs, nested, site>>
secondaryVars == <<scaled, softLock>>
fileVars == <<hostVars, upstreamVars, secondaryVars>>
directoryVars == <<fileVars, lock, operation, todo, result, faults>>

Present(u, n) == site[u][n] # "absent"
UpstreamsOf(n) == {u \in dirs : Present(u, n)}

\* A host directory without map.json and redirect.json.
Empty(h) == map[h] = {} /\ redirect[h] = {}

\* The property upstreams lists the directories, opens every entry and reads
\* secondaries.json under its lock.
UpstreamsReadable == nested = {} /\ softLock = None
Readable == UpstreamsReadable /\ torn = {}

InitProxy ==
    /\ dirs = Upstreams /\ nested = {}
    /\ site = [u \in Upstreams |-> [n \in Names |->
                  IF u = Home /\ n = Site THEN "active" ELSE "absent"]]
    /\ hostDirs = {Domain}
    /\ map = [h \in Names |-> IF h = Domain THEN {<<Domain, Site>>} ELSE {}]
    /\ redirect = [h \in Names |-> {}]
    /\ torn = {}
    /\ scaled = {} /\ softLock = None /\ lock = None
    /\ operation = [j \in Jobs |-> <<>>]
    /\ todo = [j \in Jobs |-> <<>>]
    /\ result = [j \in Jobs |-> "idle"]
    /\ faults = 0

-----------------------------------------------------------------------------
(* The handlers, as sequences of file-system operations.                   *)

\* with self.proxy_config_modification_lock; the lock is reentrant, so that
\* the steps of a job that holds it take it again at no cost.
Locked(steps) == << <<"acquire">> >> \o steps \o << <<"release">> >>

\* The files of a name in the order of a listing, each of them removed.
UnlinkEach(upstreams, n) == [i \in 1..Len(upstreams) |-> <<"unlink", upstreams[i], n>>]

\* Mutant of RemoveConflicting: the listing is read and nothing is removed.
RemoveNothing(n) == << <<"scan">> >>

\* remove_conflicting_site
RemoveConflicting(n) ==
    << <<"scan">> >> \o UnlinkEach(SetToSeq(Upstreams), n)

\* Mutant of WriteMap: the file is read before it is written, as a redirect is.
WriteMapAfterLoad(h, target) ==
    << <<"load", "map", h>>, <<"truncate", "map", h>>, <<"write", "map", h, target>> >>

\* add_host: the mode "w" truncates the file, json.dump fills it.
WriteMap(h, target) == << <<"truncate", "map", h>>, <<"write", "map", h, target>> >>

\* setup_redirect
SetupRedirect(h, target) ==
    << <<"load", "redirect", h>>, <<"truncate", "redirect", h>>, <<"write", "redirect", h, target>> >>

\* The steps of setup_redirect for one host after the other, three a host.
SetupEach(hosts, target) ==
    [i \in 1..3 * Len(hosts) |-> SetupRedirect(hosts[1 + ((i - 1) \div 3)], target)[1 + ((i - 1) % 3)]]

\* Mutant of Redirects: the target keeps the redirect it has.
RedirectsAlways(hosts, target) == SetupEach(SetToSeq(hosts \ {target}), target)

\* setup_redirects_job, with setup_redirect of each host but the target.
Redirects(hosts, target) ==
    (IF target \in hosts THEN << <<"removeRedirect", target>> >> ELSE <<>>)
    \o SetupEach(SetToSeq(hosts \ {target}), target)

\* Mutant of RenameInHost: only the redirects are renamed.
RenameInRedirects(h, old, new) ==
    << <<"blank", "redirect", h>>, <<"rename", "redirect", h, old, new>> >>

\* rename_site_in_host_dir, with replace_str_in_json of either file.
RenameInHost(h, old, new) ==
    << <<"blank", "map", h>>, <<"rename", "map", h, old, new>>,
       <<"blank", "redirect", h>>, <<"rename", "redirect", h, old, new>> >>

Handler(op) ==
    CASE op[1] = "addSite" -> Locked(RemoveConflicting(op[3]) \o << <<"touch", op[2], op[3]>> >>)
      [] op[1] = "removeSite" -> Locked(<< <<"unlink", op[2], op[3]>> >>)
      [] op[1] = "updateStatus" ->
           Locked(<< <<"status", op[2], op[3], "active">>, <<"status", op[2], op[3], op[4]>> >>)
      [] op[1] = "addUpstream" -> Locked(<< <<"mkdir", op[2]>> >>)
      [] op[1] = "renameUpstream" -> Locked(<< <<"move", op[2], op[3]>> >>)
      [] op[1] = "renameSite" ->
           Locked(RemoveConflicting(op[4])
                  \o << <<"renameFile", op[2], op[3], op[4]>>, <<"renameHostDir", op[3], op[4]>> >>
                  \o RenameInHost(Domain, op[3], op[4]))
      [] op[1] = "addHost" -> Locked(WriteMap(op[2], op[3]))
      [] op[1] = "removeHost" -> Locked(<< <<"rmtree", op[2]>> >>)
      [] op[1] = "redirects" -> Locked(Redirects(op[2], op[3]))
      [] op[1] = "removeRedirect" -> Locked(<< <<"removeRedirect", op[2]>> >>)
      [] op[1] = "scale" ->
           Locked(<< <<"softAcquire">>, <<"scale", op[2], op[3]>>, <<"softRelease">> >>)

\* The arguments press sends: small sets that make jobs meet.
Operations ==
    {op \in ({"addSite", "removeSite"} \X Upstreams \X {Site})
            \cup ({"updateStatus"} \X Upstreams \X {Site} \X {"suspended"})
            \cup ({"addUpstream"} \X Upstreams)
            \cup ({"renameUpstream"} \X Upstreams \X Upstreams)
            \cup ({"renameSite"} \X {Home} \X {Site} \X {NewName})
            \cup ({"addHost"} \X {Site, Domain} \X {Site})
            \cup ({"removeHost", "removeRedirect"} \X {Site, Domain})
            \cup ({"redirects"} \X {{Site, Domain}} \X {Site, Domain})
            \cup ({"scale"} \X Upstreams \X {"primary", "scaled"}) : op[1] \in Kinds}

-----------------------------------------------------------------------------
(* Jobs start, fail and are tried again.                                   *)

\* Press does not order a rename twice; whatever fails, it may retry.
Enqueue(j, op) ==
    /\ result[j] = "idle"
    /\ op[1] = "renameSite" => \A k \in Jobs : operation[k] # op
    /\ op[1] = "renameUpstream" => op[2] # op[3]
    /\ operation' = [operation EXCEPT ![j] = op]
    /\ todo' = [todo EXCEPT ![j] = Handler(op)]
    /\ result' = [result EXCEPT ![j] = "running"]
    /\ UNCHANGED <<fileVars, lock, faults>>

Retry(j) ==
    /\ result[j] = "failed"
    /\ todo' = [todo EXCEPT ![j] = Handler(operation[j])]
    /\ result' = [result EXCEPT ![j] = "retrying"]
    /\ UNCHANGED <<fileVars, lock, operation, faults>>

Fault(kind) ==
    /\ kind \in ProxyFaults
    /\ faults < MaxFaults
    /\ faults' = faults + 1

\* The next operation of a job, and its arguments.
Doing(j, what) == todo[j] # <<>> /\ Head(todo[j])[1] = what
Arg(j, i) == Head(todo[j])[i]

Advance(j) ==
    /\ todo' = [todo EXCEPT ![j] = Tail(@)]
    /\ result' = [result EXCEPT ![j] = IF Len(todo[j]) = 1 THEN "done" ELSE @]
    /\ UNCHANGED <<operation, faults>>

Skip(j) == Advance(j) /\ UNCHANGED <<fileVars, lock>>

\* The job ends, and the flock with it.
Fails(j) ==
    /\ todo' = [todo EXCEPT ![j] = <<>>]
    /\ result' = [result EXCEPT ![j] = "failed"]
    /\ lock' = IF lock = j THEN None ELSE lock
    /\ UNCHANGED operation

\* An exception leaves the with blocks; a kill does not.
Raises(j) ==
    /\ Fails(j)
    /\ softLock' = IF softLock = j THEN None ELSE softLock
    /\ UNCHANGED <<hostVars, upstreamVars, scaled>>

Busy(j) == result[j] \in {"running", "retrying"}
JobRaises(j) == Busy(j) /\ Fault("raised") /\ Raises(j)

\* The lock file of a killed holder stays, and belongs to nobody.
JobKilled(j) ==
    /\ Busy(j) /\ Fault("killed") /\ Fails(j)
    /\ softLock' = IF softLock = j THEN "stale" ELSE softLock
    /\ UNCHANGED <<hostVars, upstreamVars, scaled>>

\* A process that only reads secondaries.json dies with its lock file in place.
ReaderKilled ==
    /\ softLock = None /\ scaled # {}
    /\ Fault("reader")
    /\ softLock' = "stale"
    /\ UNCHANGED <<hostVars, upstreamVars, scaled, lock, operation, todo, result>>

-----------------------------------------------------------------------------
(* The operations on the upstreams.                                        *)

Acquire(j) ==
    /\ Doing(j, "acquire") /\ lock = None
    /\ lock' = j
    /\ Advance(j) /\ UNCHANGED fileVars

Release(j) ==
    /\ Doing(j, "release")
    /\ lock' = None
    /\ Advance(j) /\ UNCHANGED fileVars

\* self.upstreams raises when a directory is nested or the soft lock is stale.
Scan(j) ==
    /\ Doing(j, "scan")
    /\ IF UpstreamsReadable THEN Skip(j) ELSE Raises(j) /\ UNCHANGED faults

SetFile(u, n, status) ==
    /\ site' = [site EXCEPT ![u][n] = status]
    /\ UNCHANGED <<nested, hostVars, secondaryVars, lock>>

Unlink(j) ==
    /\ Doing(j, "unlink")
    /\ SetFile(Arg(j, 2), Arg(j, 3), "absent")
    /\ Advance(j) /\ UNCHANGED dirs

\* makedirs and touch, which keeps what the file says.
Touch(j) ==
    /\ Doing(j, "touch")
    /\ SetFile(Arg(j, 2), Arg(j, 3),
               IF Present(Arg(j, 2), Arg(j, 3)) THEN site[Arg(j, 2)][Arg(j, 3)] ELSE "active")
    /\ dirs' = dirs \cup {Arg(j, 2)}
    /\ Advance(j)

\* open raises without the directory, and creates a file that is not there.
WriteStatus(j) ==
    /\ Doing(j, "status")
    /\ IF Arg(j, 2) \in dirs
       THEN SetFile(Arg(j, 2), Arg(j, 3), Arg(j, 4)) /\ UNCHANGED dirs /\ Advance(j)
       ELSE Raises(j) /\ UNCHANGED faults

MakeUpstream(j) ==
    /\ Doing(j, "mkdir")
    /\ dirs' = dirs \cup {Arg(j, 2)}
    /\ Advance(j) /\ UNCHANGED <<nested, site, hostVars, secondaryVars, lock>>

\* shutil.move puts the directory inside the target when the target exists, and
\* raises when the target has one of that name inside already.
MoveUpstream(j) ==
    LET old == Arg(j, 2)
        new == Arg(j, 3)
        nothing == [n \in Names |-> "absent"]
    IN
    /\ Doing(j, "move")
    /\ IF old \notin dirs \/ (new \in dirs /\ <<new, old>> \in nested)
       THEN Raises(j) /\ UNCHANGED faults
       ELSE /\ dirs' = (dirs \ {old}) \cup {new}
            /\ site' = [site EXCEPT ![old] = nothing,
                                    ![new] = IF new \in dirs THEN @ ELSE site[old]]
            /\ nested' = IF new \in dirs
                         THEN {p \in nested : p[1] # old} \cup {<<new, old>>}
                         ELSE {<<IF p[1] = old THEN new ELSE p[1], p[2]>> : p \in nested}
            /\ Advance(j) /\ UNCHANGED <<hostVars, secondaryVars, lock>>

\* Mutant of RenameFile: without the old file there is nothing to do.
RenameFileQuietly(j) ==
    LET u == Arg(j, 2)
        old == Arg(j, 3)
        new == Arg(j, 4)
    IN
    /\ Doing(j, "renameFile")
    /\ IF Present(u, old)
       THEN /\ site' = [site EXCEPT ![u][new] = site[u][old], ![u][old] = "absent"]
            /\ Advance(j) /\ UNCHANGED <<dirs, nested, hostVars, secondaryVars, lock>>
       ELSE Skip(j)

\* rename_site_on_upstream
RenameFile(j) ==
    LET u == Arg(j, 2)
        old == Arg(j, 3)
        new == Arg(j, 4)
    IN
    /\ Doing(j, "renameFile")
    /\ CASE Present(u, old) ->
              /\ site' = [site EXCEPT ![u][new] = site[u][old], ![u][old] = "absent"]
              /\ Advance(j) /\ UNCHANGED <<dirs, nested, hostVars, secondaryVars, lock>>
         [] ~Present(u, old) /\ Present(u, new) -> Skip(j)
         [] OTHER -> Raises(j) /\ UNCHANGED faults

-----------------------------------------------------------------------------
(* The operations on the hosts and on secondaries.json.                    *)

Other == <<upstreamVars, secondaryVars, lock>>

\* makedirs, then open(file, "w").
Truncate(j) ==
    /\ Doing(j, "truncate")
    /\ hostDirs' = hostDirs \cup {Arg(j, 3)}
    /\ torn' = torn \cup {<<Arg(j, 2), Arg(j, 3)>>}
    /\ Advance(j) /\ UNCHANGED <<map, redirect, Other>>

\* Only these two files of a host directory matter here.
Write(j) ==
    LET h == Arg(j, 3)
        pair == <<h, Arg(j, 4)>>
    IN
    /\ Doing(j, "write")
    /\ \/ Arg(j, 2) = "map" /\ map' = [map EXCEPT ![h] = {pair}] /\ UNCHANGED redirect
       \/ /\ Arg(j, 2) = "redirect"
          /\ redirect' = [redirect EXCEPT ![h] = {p \in @ : p[1] # h} \cup {pair}]
          /\ UNCHANGED map
    /\ torn' = torn \ {<<Arg(j, 2), h>>}
    /\ Advance(j) /\ UNCHANGED <<hostDirs, Other>>

\* json.load of the redirects of a host raises on a truncated file.
Load(j) ==
    /\ Doing(j, "load")
    /\ IF <<Arg(j, 2), Arg(j, 3)>> \in torn THEN Raises(j) /\ UNCHANGED faults ELSE Skip(j)

RemoveTree(j) ==
    LET h == Arg(j, 2) IN
    /\ Doing(j, "rmtree")
    /\ hostDirs' = hostDirs \ {h}
    /\ map' = [map EXCEPT ![h] = {}] /\ redirect' = [redirect EXCEPT ![h] = {}]
    /\ torn' = torn \ {<<"map", h>>, <<"redirect", h>>}
    /\ Advance(j) /\ UNCHANGED Other

\* remove_redirect: the directory of a default host must go, and rmdir raises
\* unless it is there and has no map.json; the redirect is gone by then.
RemoveRedirect(j) ==
    LET h == Arg(j, 2)
        rmdir == h \in DefaultHosts
        fails == rmdir /\ (h \notin hostDirs \/ map[h] # {} \/ <<"map", h>> \in torn)
    IN
    /\ Doing(j, "removeRedirect")
    /\ redirect' = [redirect EXCEPT ![h] = {}]
    /\ torn' = torn \ {<<"redirect", h>>}
    /\ hostDirs' = IF rmdir /\ ~fails THEN hostDirs \ {h} ELSE hostDirs
    /\ IF fails THEN Fails(j) /\ UNCHANGED faults ELSE Advance(j) /\ UNCHANGED lock
    /\ UNCHANGED <<map, upstreamVars, secondaryVars>>

\* os.rename of the directory, then rename_site_in_host_dir of the new one.
RenameHostDir(j) ==
    LET old == Arg(j, 2)
        new == Arg(j, 3)
    IN
    /\ Doing(j, "renameHostDir")
    /\ CASE old \notin hostDirs -> Skip(j)
         [] old \in hostDirs /\ new \in hostDirs -> Raises(j) /\ UNCHANGED faults
         [] OTHER ->
              /\ hostDirs' = (hostDirs \ {old}) \cup {new}
              /\ map' = [map EXCEPT ![new] = map[old], ![old] = {}]
              /\ redirect' = [redirect EXCEPT ![new] = redirect[old], ![old] = {}]
              /\ torn' = {<<f[1], IF f[2] = old THEN new ELSE f[2]>> : f \in torn}
              /\ todo' = [todo EXCEPT ![j] = RenameInHost(new, old, new) \o Tail(@)]
              /\ UNCHANGED <<Other, operation, result, faults>>

\* replace_str_in_json truncates a file that exists; an empty one stays so.
Blank(j) ==
    LET file == <<Arg(j, 2), Arg(j, 3)>>
        contents == IF Arg(j, 2) = "map" THEN map[Arg(j, 3)] ELSE redirect[Arg(j, 3)]
    IN
    /\ Doing(j, "blank")
    /\ IF contents = {} \/ file \in torn
       THEN /\ todo' = [todo EXCEPT ![j] = Tail(Tail(@))]
            /\ UNCHANGED <<torn, operation, result, faults>>
       ELSE torn' = torn \cup {file} /\ Advance(j)
    /\ UNCHANGED <<hostDirs, map, redirect, Other>>

\* It then writes the text with every quoted occurrence of the old name replaced.
RenameInFile(j) ==
    LET h == Arg(j, 3)
        renamed(n) == IF n = Arg(j, 4) THEN Arg(j, 5) ELSE n
        replaced(pairs) == {<<renamed(p[1]), renamed(p[2])>> : p \in pairs}
    IN
    /\ Doing(j, "rename")
    /\ IF Arg(j, 2) = "map"
       THEN map' = [map EXCEPT ![h] = replaced(@)] /\ UNCHANGED redirect
       ELSE redirect' = [redirect EXCEPT ![h] = replaced(@)] /\ UNCHANGED map
    /\ torn' = torn \ {<<Arg(j, 2), h>>}
    /\ Advance(j) /\ UNCHANGED <<hostDirs, Other>>

\* set_secondaries_for_upstream waits 10 seconds for the lock file, then raises.
SoftAcquire(j) ==
    /\ Doing(j, "softAcquire")
    /\ IF softLock = None
       THEN softLock' = j /\ Advance(j) /\ UNCHANGED <<hostVars, upstreamVars, scaled, lock>>
       ELSE Raises(j) /\ UNCHANGED faults

Scale(j) ==
    /\ Doing(j, "scale")
    /\ scaled' = IF Arg(j, 3) = "scaled" THEN scaled \cup {Arg(j, 2)} ELSE scaled \ {Arg(j, 2)}
    /\ Advance(j) /\ UNCHANGED <<hostVars, upstreamVars, softLock, lock>>

SoftRelease(j) ==
    /\ Doing(j, "softRelease")
    /\ softLock' = None
    /\ Advance(j) /\ UNCHANGED <<hostVars, upstreamVars, scaled, lock>>

-----------------------------------------------------------------------------
Step(j) ==
    \/ Acquire(j) \/ Release(j) \/ Scan(j) \/ Unlink(j) \/ Touch(j) \/ WriteStatus(j)
    \/ MakeUpstream(j) \/ MoveUpstream(j) \/ RenameFile(j)
    \/ Truncate(j) \/ Write(j) \/ Load(j) \/ RemoveTree(j) \/ RemoveRedirect(j)
    \/ RenameHostDir(j) \/ Blank(j) \/ RenameInFile(j)
    \/ SoftAcquire(j) \/ Scale(j) \/ SoftRelease(j)

NextProxy ==
    \/ \E j \in Jobs :
          \/ \E op \in Operations : Enqueue(j, op)
          \/ Step(j) \/ Retry(j) \/ JobRaises(j) \/ JobKilled(j)
    \/ ReaderKilled

\* RQ workers run their jobs, the flock goes round, and press retries.
ProxyFairness == \A j \in Jobs : SF_directoryVars(Step(j)) /\ WF_directoryVars(Retry(j))

SpecProxy == InitProxy /\ [][NextProxy]_directoryVars
FairProxy == SpecProxy /\ ProxyFairness

-----------------------------------------------------------------------------
(* Correctness.  lock = None is what _generate_proxy_config may see.       *)

Kind(j) == IF operation[j] = <<>> THEN "none" ELSE operation[j][1]
Settled == \A j \in Jobs : result[j] \in {"idle", "done"}

\* Every variable keeps its type; nothing is in a directory that is not there.
DirectoryTypeOK ==
    /\ dirs \subseteq Upstreams /\ nested \subseteq dirs \X Upstreams
    /\ site \in [Upstreams -> [Names -> Statuses \cup {"absent"}]]
    /\ \A u \in Upstreams \ dirs, n \in Names : ~Present(u, n)
    /\ hostDirs \subseteq Names
    /\ \A h \in Names : map[h] \cup redirect[h] \subseteq Names \X Names
    /\ \A h \in Names \ hostDirs : Empty(h)
    /\ torn \subseteq {"map", "redirect"} \X hostDirs
    /\ scaled \subseteq Upstreams
    /\ softLock \in Jobs \cup {None, "stale"} /\ lock \in Jobs \cup {None}
    /\ result \in [Jobs -> {"idle", "running", "retrying", "done", "failed"}]

\* A generated configuration never has a site in two upstreams, which NGINX
\* rejects as a conflicting parameter: whatever fails, add, remove and rename
\* keep it so, and only a status update can bring back a file that was moved.
ConflictFree ==
    lock = None => \/ \A n \in Names : Cardinality(UpstreamsOf(n)) <= 1
                   \/ \E j \in Jobs : Kind(j) = "updateStatus"

\* A site that no job removes is in every generated configuration, under its
\* old or its new name, unless some job of the proxy failed: a move or a
\* rename leaves no gap and loses nothing behind a job that reads Success.
NoSilentLoss ==
    lock = None /\ nested = {} /\ UpstreamsOf(Site) \cup UpstreamsOf(NewName) = {} =>
        \E j \in Jobs : Kind(j) = "removeSite" \/ result[j] \in {"failed", "retrying"}

\* When every job is done, each host of the directory leads to a site that an
\* upstream has: a rename takes the routes along, also one that was retried,
\* unless it met jobs that take the site or write its old name, or an upstream
\* was moved into another, with its sites out of sight.
NoDanglingRoute ==
    /\ Settled /\ lock = None /\ nested = {}
    /\ \A j \in Jobs : Kind(j) \notin {"removeSite", "addHost"}
    => \A h \in Names : <<"map", h>> \notin torn =>
            \A route \in map[h] : UpstreamsOf(route[2]) # {}

\* No two domains redirect to each other: setup_redirects_job removes the
\* redirect of the target before it adds those of the other domains.  A rename
\* that was killed may have rewritten one of two redirects, and when it is
\* retried after others were set, the loop is closed.
NoRedirectLoop ==
    lock = None =>
        \/ \A g, h \in Names : ~(<<g, h>> \in redirect[g] /\ <<h, g>> \in redirect[h])
        \/ faults > 0 /\ \E j \in Jobs : Kind(j) = "renameSite"

\* Without failures every generated configuration can be read in full, unless
\* an upstream was renamed to one that exists.
ReadableWithoutFaults == faults = 0 /\ nested = {} /\ lock = None => Readable

\* A worker that dies while it writes map.json blocks every reload only until
\* its job is retried.  Nothing repairs what a rename or a redirect leaves half
\* written, or a soft lock whose holder is gone.
EventuallyReadable ==
    <>[](lock = None => \/ Readable \/ softLock # None \/ nested # {}
                        \/ \E j \in Jobs : Kind(j) \in {"renameSite", "redirects"})

\* The upstreams as every generator of the configuration finds them.
SitesAreSound == DirectoryTypeOK /\ ConflictFree

\* The hosts as every generator of the configuration finds them.
HostsAreSound == ReadableWithoutFaults /\ NoRedirectLoop
=============================================================================
