----------------------------- MODULE ProxyReload -----------------------------
(***************************************************************************)
(* The configuration directory together with what NGINX makes of it        *)
(* (agent/proxy.py, _generate_proxy_config; agent/nginx_reload_manager.py, *)
(* RELOAD_PENDING and AUTO_FIX_CONFIG, queues and crashes left aside).     *)
(* A name that two upstreams have is a conflicting parameter of a map:     *)
(* NGINX rejects the file and keeps the configuration it has.              *)
(***************************************************************************)
EXTENDS ProxyConfig

VARIABLES
    loaded,      \* the site files NGINX serves
    requested,   \* a job has asked for a reload since the last one
    reloadError  \* kind of self.error when AUTO_FIX_CONFIG is next, or None

reloadVars == <<directoryVars, loaded, requested, reloadError>>

\* The jobs that change the directory and do not reload NGINX.
Silent == {"removeSite", "removeHost", "removeRedirect"}

InitReload == InitProxy /\ loaded = site /\ requested = FALSE /\ reloadError = None

\* A job of the proxy goes on, and ends with reload_nginx.
JobMoves ==
    /\ NextProxy
    /\ requested' = (requested \/ \E j \in Jobs :
                        result[j] # "done" /\ result'[j] = "done" /\ Kind(j) \notin Silent)
    /\ UNCHANGED <<loaded, reloadError>>

\* Mutant of ReloadDue: only a request is a reason to reload.
ReloadRequested(isMandatoryReloadRequired) == requested

\* The time since the last reload is a reason too.
ReloadDue(isMandatoryReloadRequired) == requested \/ isMandatoryReloadRequired

Conflicts == {n \in Names : Cardinality(UpstreamsOf(n)) > 1}

\* Mutant of Reload: the configuration is generated without the proxy lock.
ReloadUnlocked ==
    /\ reloadError = None
    /\ \E isMandatoryReloadRequired \in BOOLEAN : ReloadDue(isMandatoryReloadRequired)
    /\ requested' = FALSE
    /\ IF Readable /\ Conflicts = {} THEN loaded' = site ELSE UNCHANGED loaded
    /\ reloadError' = IF Readable /\ Conflicts # {} THEN "text" ELSE None
    /\ UNCHANGED directoryVars

\* _generate_proxy_config and nginx -s reload: a directory that cannot be read
\* fails the reload with no repair to try; when NGINX rejects the file the
\* error is the text that _reload_nginx makes of the CalledProcessError.
Reload ==
    /\ reloadError = None /\ lock = None
    /\ \E isMandatoryReloadRequired \in BOOLEAN : ReloadDue(isMandatoryReloadRequired)
    /\ requested' = FALSE
    /\ IF Readable /\ Conflicts = {} THEN loaded' = site ELSE UNCHANGED loaded
    /\ reloadError' = IF Readable /\ Conflicts # {} THEN "text" ELSE None
    /\ UNCHANGED directoryVars

\* _fix_conflicting_domain_in_config: of one domain only the newest file stays.
Fixed(n, newest) ==
    [u \in Upstreams |-> IF u = newest THEN site[u] ELSE [site[u] EXCEPT ![n] = "absent"]]

\* AUTO_FIX_CONFIG repairs after a CalledProcessError; it takes no lock.
AutoFix ==
    /\ reloadError # None
    /\ IF reloadError = "CalledProcessError" /\ Conflicts # {}
       THEN \E n \in Conflicts : \E newest \in UpstreamsOf(n) : site' = Fixed(n, newest)
       ELSE UNCHANGED site
    /\ reloadError' = None
    /\ UNCHANGED <<dirs, nested, hostVars, secondaryVars, lock, operation, todo, result,
                   faults, loaded, requested>>

NextReload == JobMoves \/ Reload \/ AutoFix

\* The manager polls for the lock, and the voluntary reload comes at an interval.
ReloadFairness == ProxyFairness /\ SF_reloadVars(Reload) /\ WF_reloadVars(AutoFix)

SpecReload == InitReload /\ [][NextReload]_reloadVars
FairReload == SpecReload /\ ReloadFairness

-----------------------------------------------------------------------------
\* The site is there, under its old or its new name.
Served(files) == files[Site] # "absent" \/ files[NewName] # "absent"

\* NGINX ends up with the directory as it is, if that can be read and has no
\* conflict: a removal, whose job does not ask for a reload, goes live too.
DirectoryGoesLive == <>[](Readable /\ Conflicts = {} => loaded = site)

\* NGINX never stops to serve a site that is only moved, renamed or suspended:
\* no reload catches the directory between the removal and the new file, and
\* a directory with a conflict does not go live.
NoOutage ==
    \/ \E u \in Upstreams : Served(loaded[u])
    \/ faults > 0 \/ \E j \in Jobs : Kind(j) = "removeSite"
=============================================================================
