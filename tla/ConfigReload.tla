---------------------------- MODULE ConfigReload ----------------------------
(***************************************************************************)
(* How a configuration change reaches the running services: the HTTP        *)
(* handlers that write sys_config and dhcp_subnet and bump a version, the   *)
(* cache of config.Manager that ReloadAll fills, and the goroutine that     *)
(* compares versions every five seconds and calls Reload on DHCP and TFTP.  *)
(*                                                                          *)
(* Each SQL statement is atomic (one connection, no transactions); a write  *)
(* may fail, a read does not. A key of sys_config other than the version is *)
(* "enabled", "listen_ip" (used when the socket is bound) or "body" (all    *)
(* that buildPool and applyConfig take).                                    *)
(***************************************************************************)
EXTENDS Integers

CONSTANTS
    Admins,      \* requests that may be in flight at once (a bound of the model)
    Values,      \* values of a key; "true" enables a service
    Tables,      \* contents of dhcp_subnet
    NoTable,     \* what TFTP takes from dhcp_subnet
    Default,     \* what insertDefaultConfig seeds: every service enabled
    Requests,    \* bodies of PUT /api/config/{dhcp,tftp,http}
    MaxVersion,  \* no request starts when the versions add up to it (a bound)
    WritesFail,  \* TRUE: a write to the database may fail
    SavesInTurn   \* TRUE: a request starts only when no other is in flight

Services == {"dhcp", "tftp", "http"}
Polled == {"dhcp", "tftp"}     \* the HTTP server has no Reload
Keys == {"enabled", "listen_ip", "body"}
Setting == [Keys -> Values]
Enabled(x) == x["enabled"] = "true"

\* The keys a request sets.
Partial == UNION {[ks -> Values] : ks \in SUBSET Keys}

ASSUME RequestsAssumption == Requests \subseteq [svc : Services, set : Partial]
ASSUME FlagsAssumption == SavesInTurn \in BOOLEAN /\ WritesFail \in BOOLEAN
ASSUME DefaultAssumption == Default \in Setting /\ Enabled(Default)
ASSUME MaxVersionAssumption == MaxVersion \in Nat

VARIABLES
    version, setting,   \* sys_config: the version and the other keys of a service
    table,              \* dhcp_subnet
    cache,              \* config.Manager
    last,               \* lastVersion of a polled service
    conn, bound, used,  \* its socket, the address bound, the configuration applied
    job,                \* the copy a Reload is working on
    cpc, req,            \* a request: where its handler is and what it holds
    failed              \* a write for the service failed since its last full save

dbVars == <<version, setting, table>>
serviceVars == <<last, conn, bound, used, job>>
reloadVars == <<version, setting, table, cache, last, conn, bound, used, job, cpc, req, failed>>

NoJob == [svc |-> "none"]
Job == [svc : Polled, setting : Setting, table : Tables]
Rows == [version : [Services -> Nat], setting : [Services -> Setting]]
NoRows == [version |-> <<>>, setting |-> <<>>]
NoKeys == [k \in {} |-> "true"]
NoReq == [svc |-> "http", set |-> NoKeys, todo |-> {}, next |-> 0, rows |-> NoRows]
Req == [svc : Services, set : Partial, todo : SUBSET (Keys \cup {"version"}),
        next : Nat, rows : Rows \cup {NoRows}]

\* What a running service has taken from a configuration.
Used == [body : Values, table : Tables \cup {NoTable}]
Take(s, x, t) == [body |-> x["body"], table |-> IF s = "dhcp" THEN t ELSE NoTable]

ReloadTypeOK ==
    /\ version \in [Services -> Nat \ {0}]
    /\ setting \in [Services -> Setting]
    /\ table \in Tables
    /\ cache \in [version : [Services -> Nat], setting : [Services -> Setting],
                  table : Tables]
    /\ last \in [Polled -> Nat]
    /\ conn \in [Polled -> {"down", "up", "refused"}]
    /\ bound \in [Polled -> Values]
    /\ used \in [Polled -> Used]
    /\ job \in Job \cup {NoJob}
    /\ cpc \in [Admins -> {"idle", "write", "bump", "publish", "read", "install"}]
    /\ req \in [Admins -> Req]
    /\ failed \in [Services -> BOOLEAN]
    /\ \A a \in Admins :
          /\ cpc[a] \in {"write", "publish"} => req[a].todo \subseteq {"version"} \cup DOMAIN req[a].set
          /\ cpc[a] = "install" => req[a].rows \in Rows

(***************************************************************************)
(* The handlers.                                                            *)
(***************************************************************************)
Proceed(a, label) == cpc' = [cpc EXCEPT ![a] = label]

Done(a) == Proceed(a, "idle") /\ req' = [req EXCEPT ![a] = NoReq]

MayStart(a) ==
    /\ cpc[a] = "idle"
    /\ version["dhcp"] + version["tftp"] + version["http"] < MaxVersion
    /\ SavesInTurn => \A b \in Admins : cpc[b] = "idle"

\* handleUpdateDHCP, handleUpdateTFTP, handleUpdateHTTP: bumpVersion reads the
\* version and puts its successor among the keys to write.
SaveSettings(a, r) ==
    /\ MayStart(a)
    /\ Proceed(a, "write")
    /\ req' = [req EXCEPT ![a] = [svc |-> r.svc, set |-> r.set,
                                  todo |-> DOMAIN r.set \cup {"version"},
                                  next |-> version[r.svc] + 1, rows |-> NoRows]]
    /\ UNCHANGED <<dbVars, cache, serviceVars, failed>>

\* Creating, updating or deleting a subnet changes the table first.
SaveSubnets(a, t) ==
    /\ MayStart(a)
    /\ table' = t
    /\ Proceed(a, "bump")
    /\ req' = [req EXCEPT ![a] = [NoReq EXCEPT !.svc = "dhcp"]]
    /\ UNCHANGED <<version, setting, cache, serviceVars, failed>>

\* Mutant: the version that is written back is the one that was read.
ReadVersionSame(a) ==
    /\ cpc[a] = "bump"
    /\ Proceed(a, "publish")
    /\ req' = [req EXCEPT ![a].todo = {"version"}, ![a].next = version[req[a].svc]]
    /\ UNCHANGED <<dbVars, cache, serviceVars, failed>>

\* bumpDHCPVersion reads the version.
ReadVersion(a) ==
    /\ cpc[a] = "bump"
    /\ Proceed(a, "publish")
    /\ req' = [req EXCEPT ![a].todo = {"version"}, ![a].next = version[req[a].svc] + 1]
    /\ UNCHANGED <<dbVars, cache, serviceVars, failed>>

\* The keys are written one statement each, in the random order of a Go map.
Written(a, k) ==
    /\ cpc[a] \in {"write", "publish"}
    /\ k \in req[a].todo
    /\ req' = [req EXCEPT ![a].todo = @ \ {k}]
    /\ Proceed(a, IF req[a].todo = {k} THEN "read" ELSE cpc[a])
    /\ UNCHANGED <<table, cache, serviceVars, failed>>

WriteVersion(a) ==
    /\ Written(a, "version")
    /\ version' = [version EXCEPT ![req[a].svc] = req[a].next]
    /\ UNCHANGED setting

WriteKey(a, k) ==
    /\ Written(a, k)
    /\ setting' = [setting EXCEPT ![req[a].svc][k] = req[a].set[k]]
    /\ UNCHANGED version

\* A settings handler answers 500 at once; bumpDHCPVersion logs and goes on.
WriteFails(a) ==
    /\ WritesFail
    /\ cpc[a] \in {"write", "publish"}
    /\ failed' = [failed EXCEPT ![req[a].svc] = TRUE]
    /\ IF cpc[a] = "write" THEN Done(a) ELSE Proceed(a, "read") /\ UNCHANGED req
    /\ UNCHANGED <<dbVars, cache, serviceVars>>

\* Mutant: the rows that were read are dropped.
ReadRowsDropped(a) ==
    /\ cpc[a] = "read"
    /\ Proceed(a, "install")
    /\ UNCHANGED <<dbVars, cache, serviceVars, req, failed>>

\* ReloadAll reads sys_config before it takes the lock.
ReadRows(a) ==
    /\ cpc[a] = "read"
    /\ Proceed(a, "install")
    /\ req' = [req EXCEPT ![a].rows = [version |-> version, setting |-> setting]]
    /\ UNCHANGED <<dbVars, cache, serviceVars, failed>>

\* Mutant: the subnets are not read again.
InstallRowsOnly(a) ==
    /\ cpc[a] = "install"
    /\ cache' = [version |-> req[a].rows.version, setting |-> req[a].rows.setting,
                 table |-> cache.table]
    /\ failed' = [failed EXCEPT ![req[a].svc] = req[a].todo # {}]
    /\ Done(a)
    /\ UNCHANGED <<dbVars, serviceVars>>

\* Under the lock it reads dhcp_subnet and replaces the cache.
Install(a) ==
    /\ cpc[a] = "install"
    /\ cache' = [version |-> req[a].rows.version, setting |-> req[a].rows.setting,
                 table |-> table]
    /\ failed' = [failed EXCEPT ![req[a].svc] = req[a].todo # {}]
    /\ Done(a)
    /\ UNCHANGED <<dbVars, serviceVars>>

Handle(a) ==
    \/ ReadVersion(a)
    \/ WriteVersion(a)
    \/ \E k \in Keys : WriteKey(a, k)
    \/ ReadRows(a)
    \/ Install(a)

(***************************************************************************)
(* The reload goroutine and the two Reload functions.                       *)
(***************************************************************************)
\* Reload copies the configuration and remembers the version before it acts.
Poll(s) ==
    /\ job = NoJob
    /\ cache.version[s] # last[s]
    /\ last' = [last EXCEPT ![s] = cache.version[s]]
    /\ job' = [svc |-> s, setting |-> cache.setting[s], table |-> cache.table]
    /\ UNCHANGED <<dbVars, cache, conn, bound, used, cpc, req, failed>>

\* buildPool or applyConfig; a failed startConn has been through it too.
UseJob == used' = [used EXCEPT ![job.svc] = Take(job.svc, job.setting, job.table)]

EndJob == job' = NoJob /\ UNCHANGED <<dbVars, cache, last, cpc, req, failed>>

Rebuild ==
    /\ job # NoJob /\ Enabled(job.setting) /\ conn[job.svc] = "up"
    /\ UseJob
    /\ UNCHANGED <<conn, bound>>
    /\ EndJob

\* Mutant: a service that is not running is left alone.
StartNever ==
    /\ job # NoJob /\ Enabled(job.setting) /\ conn[job.svc] # "up"
    /\ UNCHANGED <<conn, bound, used>>
    /\ EndJob

StartStopped ==
    /\ job # NoJob /\ Enabled(job.setting) /\ conn[job.svc] # "up"
    /\ UseJob
    /\ \/ /\ conn' = [conn EXCEPT ![job.svc] = "up"]
          /\ bound' = [bound EXCEPT ![job.svc] = job.setting["listen_ip"]]
       \/ conn' = [conn EXCEPT ![job.svc] = "refused"] /\ UNCHANGED bound
    /\ EndJob

StopRunning ==
    /\ job # NoJob /\ ~Enabled(job.setting)
    /\ conn' = [conn EXCEPT ![job.svc] = IF @ = "up" THEN "down" ELSE @]
    /\ UNCHANGED <<bound, used>>
    /\ EndJob

Apply == Rebuild \/ StartStopped \/ StopRunning

(***************************************************************************)
(* The process starts, or dies and starts again, over a database.           *)
(***************************************************************************)
Boot(v, x, t) ==
    [cache |-> [version |-> v, setting |-> x, table |-> t],
     conn |-> [s \in Polled |-> IF Enabled(x[s]) THEN "up" ELSE "down"],
     bound |-> [s \in Polled |-> x[s]["listen_ip"]],
     used |-> [s \in Polled |-> Take(s, x[s], t)]]

ReloadInit ==
    /\ version = [s \in Services |-> 1]
    /\ setting = [s \in Services |-> Default]
    /\ table \in Tables
    /\ LET b == Boot(version, setting, table)
       IN  cache = b.cache /\ conn = b.conn /\ bound = b.bound /\ used = b.used
    /\ last = [s \in Polled |-> 0]
    /\ job = NoJob
    /\ cpc = [a \in Admins |-> "idle"]
    /\ req = [a \in Admins |-> NoReq]
    /\ failed = [s \in Services |-> FALSE]

RestartProcess ==
    /\ LET b == Boot(version, setting, table)
       IN  cache' = b.cache /\ conn' = b.conn /\ bound' = b.bound /\ used' = b.used
    /\ last' = [s \in Polled |-> 0]
    /\ job' = NoJob
    /\ cpc' = [a \in Admins |-> "idle"]
    /\ req' = [a \in Admins |-> NoReq]
    /\ failed' = [s \in Services |-> FALSE]
    /\ UNCHANGED dbVars

ReloadNext ==
    \/ \E a \in Admins :
          \/ \E r \in Requests : SaveSettings(a, r)
          \/ \E t \in Tables : SaveSubnets(a, t)
          \/ Handle(a)
          \/ WriteFails(a)
    \/ \E s \in Polled : Poll(s)
    \/ Apply
    \/ RestartProcess

ReloadSpec == ReloadInit /\ [][ReloadNext]_reloadVars

\* A handler that runs reaches its end, and the ticker goroutine keeps polling.
Fairness ==
    /\ \A a \in Admins : WF_reloadVars(Handle(a))
    /\ \A s \in Polled : WF_reloadVars(Poll(s))
    /\ WF_reloadVars(Apply)

FairSpec == ReloadSpec /\ Fairness

(***************************************************************************)
(* Properties.                                                              *)
(***************************************************************************)
Quiet == \A a \in Admins : cpc[a] = "idle"

\* The service runs the given configuration, if its socket could be bound.
Runs(s, x, t) ==
    IF Enabled(x)
    THEN conn[s] = "refused" \/ (conn[s] = "up" /\ used[s] = Take(s, x, t))
    ELSE conn[s] # "up"

InSync(s) == Runs(s, setting[s], table)

\* When every request has been answered, the cache that answers GET /api/config
\* and feeds every DHCP reply is the database's content, unless a write failed
\* (ReloadAll, the update handlers).
CacheCurrent ==
    Quiet => \A s \in Services : ~failed[s] =>
        /\ cache.version[s] = version[s]
        /\ cache.setting[s] = setting[s]
        /\ s = "dhcp" => cache.table = table

\* The version number tells the truth: a service that has seen the version of
\* the database runs the configuration of the database. This is what lets
\* Reload return early when the version is the one it knows.
VersionTells ==
    Quiet /\ job = NoJob =>
        \A s \in Polled : ~failed[s] /\ last[s] = version[s] => InSync(s)

\* Once the requests stop, each service comes to be on or off and to answer from
\* what the database says, unless a write for it failed. The address it listens on
\* and TFTP's timeout are not part of that: a running service keeps those it was
\* bound with (Take in this module; see ListensWhereConfigured).
Converges == <>[]Quiet => <>[](\A s \in Polled : failed[s] \/ InSync(s))

\* A running service listens on the address that is configured.
ListensWhereConfigured ==
    Quiet /\ job = NoJob =>
        \A s \in Polled :
            /\ ~failed[s] /\ last[s] = version[s]
            /\ Enabled(setting[s]) /\ conn[s] = "up"
            => bound[s] = setting[s]["listen_ip"]

=============================================================================
