------------------------ MODULE ConfigReload_proofs ------------------------
(***************************************************************************)
(* Theorems about ConfigReload, for any values, subnet tables, requests and *)
(* bounds. TypeCorrect holds however many requests overlap; the other two   *)
(* need requests to come one at a time.                                     *)
(***************************************************************************)
EXTENDS ConfigReload, TLAPS

Writing == {"write", "publish"}

\* A request that writes knows a version to write.
TypeInv ==
    /\ ReloadTypeOK
    /\ \A a \in Admins : cpc[a] \in Writing => req[a].next # 0

LEMMA NullTypes ==
  /\ NoReq \in Req
  /\ NoKeys \in Partial /\ DOMAIN NoKeys = {}
  /\ NoJob \notin Job
<1>1. NoKeys \in [{} -> Values] /\ DOMAIN NoKeys = {}
  BY DEF NoKeys
<1>2. NoKeys \in Partial
  BY <1>1 DEF Partial
<1>3. NoReq \in Req
  BY <1>2 DEF NoReq, Req, Services
<1>4. NoJob \notin Job
  BY DEF NoJob, Job, Polled
<1> QED
  BY <1>1, <1>2, <1>3, <1>4

LEMMA TakeType ==
  ASSUME NEW s \in Polled, NEW x \in Setting, NEW t \in Tables
  PROVE  Take(s, x, t) \in Used
BY DEF Take, Used, Setting, Keys

\* What ReloadInit and RestartProcess build from a database has its type.
LEMMA BootType ==
  ASSUME NEW v \in [Services -> Nat], NEW x \in [Services -> Setting], NEW t \in Tables
  PROVE  /\ Boot(v, x, t).cache = [version |-> v, setting |-> x, table |-> t]
         /\ Boot(v, x, t).conn \in [Polled -> {"down", "up", "refused"}]
         /\ Boot(v, x, t).bound \in [Polled -> Values]
         /\ Boot(v, x, t).used \in [Polled -> Used]
<1>1. Polled \subseteq Services
  BY DEF Polled, Services
<1>2. \A s \in Polled : x[s]["listen_ip"] \in Values
  BY <1>1 DEF Setting, Keys
<1>3. \A s \in Polled : Take(s, x[s], t) \in Used
  BY <1>1, TakeType
<1> QED
  BY <1>2, <1>3 DEF Boot

LEMMA TypeInit == ReloadInit => TypeInv
<1> SUFFICES ASSUME ReloadInit PROVE TypeInv
  OBVIOUS
<1>1. /\ version \in [Services -> Nat \ {0}] /\ version \in [Services -> Nat]
      /\ setting \in [Services -> Setting] /\ table \in Tables
  BY DefaultAssumption DEF ReloadInit
<1>2. /\ cache = [version |-> version, setting |-> setting, table |-> table]
      /\ conn \in [Polled -> {"down", "up", "refused"}]
      /\ bound \in [Polled -> Values]
      /\ used \in [Polled -> Used]
  BY <1>1, BootType DEF ReloadInit
<1>3. cache \in [version : [Services -> Nat], setting : [Services -> Setting], table : Tables]
  BY <1>1, <1>2
<1>4. /\ cpc \in [Admins -> {"idle"}] /\ \A a \in Admins : cpc[a] = "idle"
      /\ req \in [Admins -> Req] /\ job = NoJob
      /\ last \in [Polled -> Nat] /\ failed \in [Services -> BOOLEAN]
  BY NullTypes DEF ReloadInit
<1> QED
  BY <1>1, <1>2, <1>3, <1>4 DEF TypeInv, ReloadTypeOK, Writing

LEMMA TypeNext == TypeInv /\ [ReloadNext]_reloadVars => TypeInv'
<1> SUFFICES ASSUME TypeInv, [ReloadNext]_reloadVars PROVE TypeInv'
  OBVIOUS
<1> USE NullTypes DEF TypeInv, ReloadTypeOK, Writing
<1>1. ASSUME NEW a \in Admins, NEW r \in Requests, SaveSettings(a, r) PROVE TypeInv'
  <2>1. r.svc \in Services /\ r.set \in Partial
    BY RequestsAssumption
  <2>2. DOMAIN r.set \subseteq Keys
    BY <2>1 DEF Partial
  <2>3. /\ req'[a] \in Req /\ req'[a].next # 0
        /\ req'[a].todo \subseteq {"version"} \cup DOMAIN req'[a].set
    BY <1>1, <2>1, <2>2 DEF SaveSettings, Req
  <2> QED
    BY <1>1, <2>3 DEF SaveSettings, Proceed, dbVars, serviceVars
<1>2. ASSUME NEW a \in Admins, NEW t \in Tables, SaveSubnets(a, t) PROVE TypeInv'
  <2>1. req'[a] \in Req
    BY <1>2 DEF SaveSubnets, Req, NoReq, Services
  <2> QED
    BY <1>2, <2>1 DEF SaveSubnets, Proceed, serviceVars
<1>3. ASSUME NEW a \in Admins, ReadVersion(a) PROVE TypeInv'
  <2>0. req[a].svc \in Services /\ version[req[a].svc] + 1 \in Nat \ {0}
    BY DEF Req
  <2>1. req'[a] \in Req /\ req'[a].next # 0 /\ req'[a].todo = {"version"}
    BY <1>3, <2>0 DEF ReadVersion, Req
  <2> QED
    BY <1>3, <2>1 DEF ReadVersion, Proceed, dbVars, serviceVars
<1>4. ASSUME NEW a \in Admins, WriteVersion(a) PROVE TypeInv'
  <2>1. /\ req'[a] \in Req /\ req'[a].next = req[a].next
        /\ req'[a].set = req[a].set /\ req'[a].todo \subseteq req[a].todo
    BY <1>4 DEF WriteVersion, Written, Req
  <2>2. req[a].svc \in Services /\ req[a].next \in Nat \ {0}
    BY <1>4 DEF WriteVersion, Written, Req
  <2> QED
    BY <1>4, <2>1, <2>2 DEF WriteVersion, Written, Proceed, serviceVars
<1>5. ASSUME NEW a \in Admins, NEW k \in Keys, WriteKey(a, k) PROVE TypeInv'
  <2>1. /\ req'[a] \in Req /\ req'[a].next = req[a].next
        /\ req'[a].set = req[a].set /\ req'[a].todo \subseteq req[a].todo
    BY <1>5 DEF WriteKey, Written, Req
  <2>2. req[a].svc \in Services /\ req[a].set \in Partial /\ k \in DOMAIN req[a].set
    BY <1>5 DEF WriteKey, Written, Req, Keys
  <2>3. req[a].set[k] \in Values
    BY <2>2 DEF Partial
  <2>4. setting' \in [Services -> Setting]
    BY <1>5, <2>2, <2>3 DEF WriteKey, Setting
  <2> QED
    BY <1>5, <2>1, <2>4 DEF WriteKey, Written, Proceed, serviceVars
<1>6. ASSUME NEW a \in Admins, WriteFails(a) PROVE TypeInv'
  <2>1. failed' \in [Services -> BOOLEAN] /\ UNCHANGED <<dbVars, cache, serviceVars>>
    BY <1>6 DEF WriteFails
  <2>2. CASE Done(a)
    BY <2>1, <2>2 DEF Done, Proceed, dbVars, serviceVars
  <2>3. CASE Proceed(a, "read") /\ UNCHANGED req
    BY <2>1, <2>3 DEF Proceed, dbVars, serviceVars
  <2> QED
    BY <1>6, <2>2, <2>3 DEF WriteFails
<1>7. ASSUME NEW a \in Admins, ReadRows(a) PROVE TypeInv'
  <2>1. req'[a] \in Req /\ req'[a].rows \in Rows
    BY <1>7 DEF ReadRows, Req, Rows
  <2> QED
    BY <1>7, <2>1 DEF ReadRows, Proceed, dbVars, serviceVars
<1>8. ASSUME NEW a \in Admins, Install(a) PROVE TypeInv'
  <2>1. req[a].rows.version \in [Services -> Nat] /\ req[a].rows.setting \in [Services -> Setting]
    BY <1>8 DEF Install, Rows
  <2> QED
    BY <1>8, <2>1 DEF Install, Done, Proceed, dbVars, serviceVars
<1>9. ASSUME NEW s \in Polled, Poll(s) PROVE TypeInv'
  <2>1. s \in Services
    BY DEF Polled, Services
  <2>2. cache.version[s] \in Nat /\ cache.setting[s] \in Setting /\ cache.table \in Tables
    BY <2>1
  <2>3. job' \in Job
    BY <1>9, <2>2 DEF Poll, Job
  <2> QED
    BY <1>9, <2>2, <2>3 DEF Poll, dbVars
<1>10. ASSUME Apply PROVE TypeInv'
  <2>1. job \in Job
    BY <1>10 DEF Apply, Rebuild, StartStopped, StopRunning
  <2>2. /\ job.svc \in Polled /\ job.setting["listen_ip"] \in Values
        /\ Take(job.svc, job.setting, job.table) \in Used
    BY <2>1, TakeType DEF Job, Setting, Keys
  <2>3. used' \in [Polled -> Used]
    BY <1>10, <2>2 DEF Apply, Rebuild, StartStopped, StopRunning, UseJob
  <2>4. conn' \in [Polled -> {"down", "up", "refused"}] /\ bound' \in [Polled -> Values]
    BY <1>10, <2>2 DEF Apply, Rebuild, StartStopped, StopRunning
  <2> QED
    BY <1>10, <2>3, <2>4 DEF Apply, Rebuild, StartStopped, StopRunning, EndJob, dbVars
<1>11. ASSUME RestartProcess PROVE TypeInv'
  <2>1. /\ version \in [Services -> Nat] /\ setting \in [Services -> Setting]
        /\ table \in Tables
    OBVIOUS
  <2>2. /\ cache' = [version |-> version, setting |-> setting, table |-> table]
        /\ conn' \in [Polled -> {"down", "up", "refused"}]
        /\ bound' \in [Polled -> Values]
        /\ used' \in [Polled -> Used]
    <3> DEFINE b == Boot(version, setting, table)
    <3>1. cache' = b.cache /\ conn' = b.conn /\ bound' = b.bound /\ used' = b.used
      BY <1>11 DEF RestartProcess
    <3> HIDE DEF TypeInv, ReloadTypeOK
    <3> QED
      BY <2>1, <3>1, BootType
  <2> QED
    BY <1>11, <2>1, <2>2 DEF RestartProcess, dbVars
<1>12. CASE UNCHANGED reloadVars
  BY <1>12 DEF reloadVars
<1> QED
  BY <1>1, <1>2, <1>3, <1>4, <1>5, <1>6, <1>7, <1>8, <1>9, <1>10, <1>11, <1>12
  DEF ReloadNext, Handle

\* Every variable keeps its type, and ReloadAll never installs rows it has not
\* read, however many requests run at once.
THEOREM TypeCorrect == ReloadSpec => []ReloadTypeOK
<1>1. TypeInv => ReloadTypeOK
  BY DEF TypeInv
<1> QED
  BY <1>1, TypeInit, TypeNext, PTL DEF ReloadSpec


(***************************************************************************)
(* Requests one at a time.                                                  *)
(***************************************************************************)
Alone == \A a, b \in Admins : cpc[a] # "idle" /\ cpc[b] # "idle" => a = b

\* How far a request has taken the version of its service, and what ReloadAll
\* has read.
Progress(a) ==
    LET s == req[a].svc
    IN  /\ cpc[a] \in Writing =>
              /\ req[a].todo # {}
              /\ IF "version" \in req[a].todo THEN req[a].next = version[s] + 1
                 ELSE cache.version[s] < version[s]
        /\ cpc[a] \in {"read", "install"} =>
              IF req[a].todo = {} THEN cache.version[s] < version[s] ELSE failed[s]
        /\ cpc[a] \in {"bump", "publish"} => s = "dhcp"
        /\ cpc[a] = "install" =>
              req[a].rows.version = version /\ req[a].rows.setting = setting

Ordered ==
    /\ \A s \in Services : cache.version[s] <= version[s]
    /\ \A s \in Polled : last[s] <= cache.version[s]

\* Nothing written for the service is still on its way.
Clean(s) == ~failed[s] /\ \A a \in Admins : cpc[a] # "idle" => req[a].svc # s

Current(s) ==
    /\ cache.version[s] = version[s]
    /\ cache.setting[s] = setting[s]
    /\ s = "dhcp" => cache.table = table

\* A service that has seen the version of the cache runs the cache's
\* configuration, or has a copy of it in hand.
Follows(s) ==
    IF job # NoJob /\ job.svc = s
    THEN /\ job.setting = cache.setting[s]
         /\ s = "dhcp" => job.table = cache.table
    ELSE Runs(s, cache.setting[s], cache.table)

SerialInv ==
    /\ Alone
    /\ \A a \in Admins : Progress(a)
    /\ Ordered
    /\ \A s \in Services : Clean(s) => Current(s)
    /\ \A s \in Polled : ~failed[s] /\ last[s] = cache.version[s] => Follows(s)

LEMMA SerialInit == ReloadInit => SerialInv
<1> SUFFICES ASSUME ReloadInit PROVE SerialInv
  OBVIOUS
<1>1. /\ version \in [Services -> Nat] /\ \A s \in Services : version[s] = 1
      /\ cache = [version |-> version, setting |-> setting, table |-> table]
  BY DEF ReloadInit, Boot
<1>2. Alone /\ \A a \in Admins : Progress(a)
  BY DEF ReloadInit, Alone, Progress, Writing
<1>3. Ordered
  BY <1>1 DEF ReloadInit, Ordered, Polled, Services
<1>4. \A s \in Services : Clean(s) => Current(s)
  BY <1>1 DEF Current
<1>5. \A s \in Polled : last[s] # cache.version[s]
  BY <1>1 DEF ReloadInit, Polled, Services
<1> QED
  BY <1>2, <1>3, <1>4, <1>5 DEF SerialInv

LEMMA SerialImplies ==
  ASSUME TypeInv, SerialInv
  PROVE  CacheCurrent /\ VersionTells
<1>1. CacheCurrent
  BY DEF SerialInv, CacheCurrent, Quiet, Clean, Current
<1>2. ASSUME Quiet, job = NoJob, NEW s \in Polled, ~failed[s], last[s] = version[s]
      PROVE  InSync(s)
  <2>1. s \in Services
    BY DEF Polled, Services
  <2>2. Current(s)
    BY <1>2, <2>1 DEF SerialInv, Clean, Quiet
  <2>3. Runs(s, cache.setting[s], cache.table)
    BY <1>2, <2>2 DEF SerialInv, Current, Follows
  <2> QED
    BY <2>2, <2>3 DEF Current, InSync, Runs, Take
<1> QED
  BY <1>1, <1>2 DEF VersionTells

\* A step that leaves the cache, the services and the failures alone, and takes
\* no service out of flight, keeps the last two parts.
LEMMA QuietStep ==
  ASSUME SerialInv, UNCHANGED <<cache, serviceVars, failed>>,
         \A s \in Services : Clean(s)' => Clean(s),
         \A s \in Services : Clean(s)' => version'[s] = version[s] /\ setting'[s] = setting[s],
         Clean("dhcp")' => table' = table
  PROVE  /\ \A s \in Services : Clean(s)' => Current(s)'
         /\ \A s \in Polled : ~failed'[s] /\ last'[s] = cache'.version[s] => Follows(s)'
<1>1. \A s \in Services : Clean(s)' => Current(s)'
  BY DEF SerialInv, Current
<1>2. \A s \in Polled : Follows(s) => Follows(s)'
  BY DEF Follows, Runs, Take, serviceVars
<1> QED
  BY <1>1, <1>2 DEF SerialInv, serviceVars

\* A step of one request while all others are idle.
LEMMA OneMoves ==
  ASSUME NEW a \in Admins, \A b \in Admins \ {a} : cpc'[b] = "idle", Progress(a)'
  PROVE  Alone' /\ \A b \in Admins : Progress(b)'
BY DEF Alone, Progress, Writing

LEMMA SerialNext ==
  ASSUME SavesInTurn, TypeInv, SerialInv, [ReloadNext]_reloadVars
  PROVE  SerialInv'
<1> USE NullTypes DEF TypeInv, ReloadTypeOK, Writing
<1>1. ASSUME NEW a \in Admins, NEW r \in Requests, SaveSettings(a, r) PROVE SerialInv'
  <2>1. \A b \in Admins : cpc[b] = "idle"
    BY <1>1 DEF SaveSettings, MayStart
  <2>2. /\ req'[a].svc = r.svc /\ req'[a].next = version[r.svc] + 1
        /\ req'[a].todo = DOMAIN r.set \cup {"version"}
        /\ cpc'[a] = "write" /\ \A b \in Admins \ {a} : cpc'[b] = "idle"
        /\ UNCHANGED <<dbVars, cache, serviceVars, failed>>
    BY <1>1, <2>1 DEF SaveSettings, Proceed
  <2>3. Alone' /\ \A b \in Admins : Progress(b)'
    <3>1. Progress(a)'
      BY <2>2 DEF Progress, dbVars
    <3> QED
      BY <2>2, <3>1, OneMoves
  <2>4. Ordered'
    BY <2>2 DEF SerialInv, Ordered, dbVars, serviceVars
  <2>5. \A s \in Services : Clean(s)' => Clean(s)
    BY <2>1, <2>2 DEF Clean
  <2> QED
    BY <2>2, <2>3, <2>4, <2>5, QuietStep DEF SerialInv, dbVars
<1>2. ASSUME NEW a \in Admins, NEW t \in Tables, SaveSubnets(a, t) PROVE SerialInv'
  <2>1. \A b \in Admins : cpc[b] = "idle"
    BY <1>2 DEF SaveSubnets, MayStart
  <2>2. /\ req'[a].svc = "dhcp" /\ cpc'[a] = "bump"
        /\ \A b \in Admins \ {a} : cpc'[b] = "idle"
        /\ UNCHANGED <<version, setting, cache, serviceVars, failed>>
    BY <1>2, <2>1 DEF SaveSubnets, Proceed, NoReq
  <2>3. Alone' /\ \A b \in Admins : Progress(b)'
    <3>1. Progress(a)'
      BY <2>2 DEF Progress
    <3> QED
      BY <2>2, <3>1, OneMoves
  <2>4. Ordered'
    BY <2>2 DEF SerialInv, Ordered, serviceVars
  <2>5. "dhcp" \in Services /\ \A s \in Services : Clean(s)' => Clean(s) /\ s # "dhcp"
    BY <2>1, <2>2 DEF Clean, Services
  <2> QED
    BY <2>2, <2>3, <2>4, <2>5, QuietStep DEF SerialInv
<1>3. ASSUME NEW a \in Admins, ReadVersion(a) PROVE SerialInv'
  <2>1. req[a] \in Req
    OBVIOUS
  <2>2. /\ req'[a].svc = req[a].svc /\ cpc[a] = "bump" /\ cpc'[a] = "publish"
        /\ req'[a].todo = {"version"} /\ req'[a].next = version[req[a].svc] + 1
        /\ \A b \in Admins \ {a} : req'[b] = req[b] /\ cpc'[b] = cpc[b] /\ cpc[b] = "idle"
        /\ UNCHANGED <<dbVars, cache, serviceVars, failed>>
    BY <1>3, <2>1 DEF ReadVersion, Proceed, Req, SerialInv, Alone
  <2>3. Alone' /\ \A b \in Admins : Progress(b)'
    <3>1. Progress(a)'
      BY <2>2 DEF SerialInv, Progress, dbVars
    <3> QED
      BY <2>2, <3>1, OneMoves
  <2>4. Ordered'
    BY <2>2 DEF SerialInv, Ordered, dbVars, serviceVars
  <2>5. \A s \in Services : Clean(s)' => Clean(s)
    BY <2>2 DEF Clean
  <2> QED
    BY <2>2, <2>3, <2>4, <2>5, QuietStep DEF SerialInv, dbVars
<1>4. ASSUME NEW a \in Admins, NEW k, Written(a, k)
      PROVE  /\ req'[a].svc = req[a].svc /\ req'[a].next = req[a].next
             /\ req'[a].todo = req[a].todo \ {k} /\ k \in req[a].todo
             /\ cpc[a] \in Writing
             /\ cpc'[a] = IF req[a].todo = {k} THEN "read" ELSE cpc[a]
             /\ \A b \in Admins \ {a} : req'[b] = req[b] /\ cpc'[b] = cpc[b] /\ cpc[b] = "idle"
             /\ UNCHANGED <<table, cache, serviceVars, failed>>
  <2>1. req[a] \in Req
    OBVIOUS
  <2> QED
    BY <1>4, <2>1 DEF Written, Proceed, Req, SerialInv, Alone
<1>5. ASSUME NEW a \in Admins, WriteVersion(a) PROVE SerialInv'
  <2>1. Written(a, "version")
    BY <1>5 DEF WriteVersion
  <2>2. /\ req'[a].svc = req[a].svc /\ req'[a].todo = req[a].todo \ {"version"}
        /\ "version" \in req[a].todo /\ cpc[a] \in Writing
        /\ cpc'[a] = IF req[a].todo = {"version"} THEN "read" ELSE cpc[a]
        /\ \A b \in Admins \ {a} : req'[b] = req[b] /\ cpc'[b] = cpc[b] /\ cpc[b] = "idle"
        /\ UNCHANGED <<table, cache, serviceVars, failed>>
    BY <1>4, <2>1
  <2>3. /\ req[a].svc \in Services /\ req[a].next = version[req[a].svc] + 1
        /\ cpc[a] = "publish" => req[a].svc = "dhcp"
        /\ cache.version[req[a].svc] <= version[req[a].svc]
        /\ UNCHANGED setting
    BY <1>5, <2>2 DEF WriteVersion, SerialInv, Progress, Ordered, Req
  <2>4. /\ version'[req[a].svc] = version[req[a].svc] + 1
        /\ \A s \in Services \ {req[a].svc} : version'[s] = version[s]
        /\ cache.version[req[a].svc] < version'[req[a].svc]
    BY <1>5, <2>3 DEF WriteVersion
  <2>5. Progress(a)'
    <3>1. CASE req[a].todo = {"version"}
      <4>1. cpc'[a] = "read" /\ req'[a].todo = {}
        BY <2>2, <3>1
      <4> QED
        BY <2>2, <2>4, <4>1 DEF Progress
    <3>2. CASE req[a].todo # {"version"}
      <4>1. cpc'[a] = cpc[a] /\ req'[a].todo # {} /\ "version" \notin req'[a].todo
        BY <2>2, <3>2
      <4> QED
        BY <2>2, <2>3, <2>4, <4>1 DEF Progress
    <3> QED
      BY <3>1, <3>2
  <2>6. Alone' /\ \A b \in Admins : Progress(b)'
    BY <2>2, <2>5, OneMoves
  <2>7. Ordered'
    <3>1. cache' = cache /\ last' = last
      BY <2>2 DEF serviceVars
    <3>2. cache.version[req[a].svc] <= version'[req[a].svc]
      BY <2>3, <2>4
    <3>3. \A s \in Services : cache.version[s] <= version'[s]
      BY <2>4, <3>2 DEF SerialInv, Ordered
    <3> QED
      BY <3>1, <3>3 DEF SerialInv, Ordered
  <2>8. \A s \in Services : Clean(s)' => Clean(s) /\ s # req[a].svc
    BY <2>2 DEF Clean
  <2> QED
    BY <2>2, <2>3, <2>4, <2>6, <2>7, <2>8, QuietStep DEF SerialInv
<1>6. ASSUME NEW a \in Admins, NEW k \in Keys, WriteKey(a, k) PROVE SerialInv'
  <2>1. Written(a, k) /\ UNCHANGED version /\ k # "version"
    BY <1>6 DEF WriteKey, Keys
  <2>2. /\ req'[a].svc = req[a].svc /\ req'[a].next = req[a].next
        /\ req'[a].todo = req[a].todo \ {k}
        /\ k \in req[a].todo /\ cpc[a] \in Writing
        /\ cpc'[a] = IF req[a].todo = {k} THEN "read" ELSE cpc[a]
        /\ \A b \in Admins \ {a} : req'[b] = req[b] /\ cpc'[b] = cpc[b] /\ cpc[b] = "idle"
        /\ UNCHANGED <<table, cache, serviceVars, failed>>
    BY <1>4, <2>1
  <2>3. \A s \in Services \ {req[a].svc} : setting'[s] = setting[s]
    BY <1>6 DEF WriteKey
  <2>4. Progress(a) /\ UNCHANGED version
    BY <2>1 DEF SerialInv
  <2>5. Progress(a)'
    <3>1. CASE req[a].todo = {k}
      <4>1. cpc'[a] = "read" /\ req'[a].todo = {} /\ "version" \notin req[a].todo
        BY <2>1, <2>2, <3>1
      <4> QED
        BY <2>2, <2>4, <4>1 DEF Progress
    <3>2. CASE req[a].todo # {k}
      <4>1. /\ cpc'[a] = cpc[a] /\ req'[a].todo # {}
            /\ "version" \in req'[a].todo <=> "version" \in req[a].todo
        BY <2>1, <2>2, <3>2
      <4> QED
        BY <2>2, <2>4, <4>1 DEF Progress
    <3> QED
      BY <3>1, <3>2
  <2>6. Alone' /\ \A b \in Admins : Progress(b)'
    BY <2>2, <2>5, OneMoves
  <2>7. Ordered'
    BY <2>1, <2>2 DEF SerialInv, Ordered, serviceVars
  <2>8. \A s \in Services : Clean(s)' => Clean(s) /\ s # req[a].svc
    BY <2>2 DEF Clean
  <2> QED
    BY <2>1, <2>2, <2>3, <2>6, <2>7, <2>8, QuietStep DEF SerialInv
<1>7. ASSUME NEW a \in Admins, WriteFails(a) PROVE SerialInv'
  <2>1. /\ req[a].svc \in Services /\ failed'[req[a].svc]
        /\ \A s \in Services \ {req[a].svc} : failed'[s] = failed[s]
        /\ UNCHANGED <<dbVars, cache, serviceVars>>
        /\ req[a].todo # {}
    BY <1>7 DEF WriteFails, SerialInv, Progress, Req
  <2>2. \/ cpc'[a] = "idle" /\ cpc[a] = "write"
        \/ cpc'[a] = "read" /\ req'[a] = req[a]
    BY <1>7 DEF WriteFails, Done, Proceed
  <2>3. \A b \in Admins \ {a} : req'[b] = req[b] /\ cpc'[b] = cpc[b] /\ cpc[b] = "idle"
    BY <1>7 DEF WriteFails, Done, Proceed, SerialInv, Alone
  <2>4. Alone' /\ \A b \in Admins : Progress(b)'
    <3>1. Progress(a)'
      BY <2>1, <2>2 DEF Progress
    <3> QED
      BY <2>3, <3>1, OneMoves
  <2>5. Ordered'
    BY <2>1 DEF SerialInv, Ordered, dbVars, serviceVars
  <2>6. \A s \in Services : Clean(s)' => Clean(s)
    <3>1. ASSUME NEW s \in Services, Clean(s)' PROVE Clean(s)
      <4>1. s # req[a].svc /\ ~failed[s]
        BY <2>1, <3>1 DEF Clean
      <4> QED
        BY <2>3, <4>1 DEF Clean
    <3> QED
      BY <3>1
  <2>7. \A s \in Services : Clean(s)' => Current(s)'
    BY <2>1, <2>6 DEF SerialInv, Current, dbVars
  <2>8. \A s \in Polled : ~failed'[s] /\ last'[s] = cache'.version[s] => Follows(s)'
    BY <2>1 DEF SerialInv, Follows, Runs, Take, serviceVars, Polled, Services
  <2> QED
    BY <2>4, <2>5, <2>7, <2>8 DEF SerialInv
<1>8. ASSUME NEW a \in Admins, ReadRows(a) PROVE SerialInv'
  <2>1. req[a] \in Req
    OBVIOUS
  <2>2. /\ req'[a].svc = req[a].svc /\ req'[a].todo = req[a].todo
        /\ req'[a].rows = [version |-> version, setting |-> setting]
        /\ cpc[a] = "read" /\ cpc'[a] = "install"
        /\ \A b \in Admins \ {a} : req'[b] = req[b] /\ cpc'[b] = cpc[b] /\ cpc[b] = "idle"
        /\ UNCHANGED <<dbVars, cache, serviceVars, failed>>
    BY <1>8, <2>1 DEF ReadRows, Proceed, Req, SerialInv, Alone
  <2>3. Alone' /\ \A b \in Admins : Progress(b)'
    <3>1. req'[a].rows.version = version' /\ req'[a].rows.setting = setting'
      BY <2>2 DEF dbVars
    <3>2. IF req[a].todo = {} THEN cache.version[req[a].svc] < version[req[a].svc]
          ELSE failed[req[a].svc]
      BY <2>2 DEF SerialInv, Progress
    <3>3. Progress(a)'
      BY <2>2, <3>1, <3>2 DEF Progress, dbVars
    <3> QED
      BY <2>2, <3>3, OneMoves
  <2>4. Ordered'
    BY <2>2 DEF SerialInv, Ordered, dbVars, serviceVars
  <2>5. \A s \in Services : Clean(s)' => Clean(s)
    BY <2>2 DEF Clean
  <2> QED
    BY <2>2, <2>3, <2>4, <2>5, QuietStep DEF SerialInv, dbVars
<1>9. ASSUME NEW a \in Admins, Install(a) PROVE SerialInv'
  <2>1. /\ req[a].svc \in Services
        /\ cache'.version = version /\ cache'.setting = setting /\ cache'.table = table
        /\ UNCHANGED <<dbVars, serviceVars>>
        /\ failed'[req[a].svc] = (req[a].todo # {})
        /\ \A s \in Services \ {req[a].svc} : failed'[s] = failed[s]
    BY <1>9 DEF Install, SerialInv, Progress, Req
  <2>2. \A b \in Admins : cpc'[b] = "idle"
    BY <1>9 DEF Install, Done, Proceed, SerialInv, Alone
  <2>3. Alone' /\ \A b \in Admins : Progress(b)'
    BY <2>2 DEF Alone, Progress
  <2>4. Ordered'
    BY <2>1 DEF SerialInv, Ordered, dbVars, serviceVars, Polled, Services
  <2>5. \A s \in Services : Current(s)'
    BY <2>1 DEF Current, dbVars
  <2>6. ASSUME NEW s \in Polled, ~failed'[s], last'[s] = cache'.version[s]
        PROVE  Follows(s)'
    <3>1. s \in Services
      BY DEF Polled, Services
    <3>2. CASE s = req[a].svc
      <4>1. req[a].todo = {}
        BY <2>1, <2>6, <3>2
      <4>2. last[s] <= cache.version[s] /\ cache.version[s] < version[s]
        BY <1>9, <3>1, <3>2, <4>1 DEF Install, SerialInv, Progress, Ordered
      <4> QED
        BY <2>1, <2>6, <3>1, <4>2 DEF serviceVars
    <3>3. CASE s # req[a].svc
      <4>1. Clean(s)
        BY <1>9, <2>1, <2>6, <3>1, <3>3 DEF Install, SerialInv, Alone, Clean
      <4>2. Current(s) /\ Follows(s)
        BY <2>1, <2>6, <3>1, <3>3, <4>1 DEF SerialInv, Current, serviceVars
      <4> QED
        BY <2>1, <4>2 DEF Current, Follows, Runs, Take, serviceVars
    <3> QED
      BY <3>2, <3>3
  <2> QED
    BY <2>3, <2>4, <2>5, <2>6 DEF SerialInv
<1>10. ASSUME NEW s \in Polled, Poll(s) PROVE SerialInv'
  <2>1. /\ last'[s] = cache.version[s]
        /\ \A q \in Polled \ {s} : last'[q] = last[q]
        /\ job' = [svc |-> s, setting |-> cache.setting[s], table |-> cache.table]
        /\ job' # NoJob /\ job = NoJob
        /\ UNCHANGED <<dbVars, cache, conn, bound, used, cpc, req, failed>>
    BY <1>10 DEF Poll, NoJob, Polled
  <2>2. Alone' /\ \A b \in Admins : Progress(b)'
    BY <2>1 DEF SerialInv, Alone, Progress, dbVars
  <2>3. Ordered'
    BY <2>1 DEF SerialInv, Ordered, dbVars, Polled, Services
  <2>4. \A q \in Services : Clean(q)' => Current(q)'
    BY <2>1 DEF SerialInv, Clean, Current, dbVars
  <2>5. \A q \in Polled : ~failed'[q] /\ last'[q] = cache'.version[q] => Follows(q)'
    BY <2>1 DEF SerialInv, Follows, Runs, Take
  <2> QED
    BY <2>2, <2>3, <2>4, <2>5 DEF SerialInv
<1>11. ASSUME Apply PROVE SerialInv'
  <2>1. /\ job \in Job /\ job # NoJob /\ job' = NoJob
        /\ UNCHANGED <<dbVars, cache, last, cpc, req, failed>>
    BY <1>11 DEF Apply, Rebuild, StartStopped, StopRunning, EndJob
  <2>2. PICK s \in Polled, x \in Setting, t \in Tables :
           job.svc = s /\ job.setting = x /\ job.table = t
    BY <2>1 DEF Job
  <2>3. \A q \in Polled \ {s} : conn'[q] = conn[q] /\ used'[q] = used[q]
    BY <1>11, <2>2 DEF Apply, Rebuild, StartStopped, StopRunning, UseJob
  <2>4. Runs(s, x, t)'
    <3>1. CASE Rebuild
      BY <2>2, <3>1 DEF Rebuild, UseJob, Runs, Take
    <3>2. CASE StartStopped
      BY <2>2, <3>2 DEF StartStopped, UseJob, Runs, Take
    <3>3. CASE StopRunning
      BY <2>2, <3>3 DEF StopRunning, Runs
    <3> QED
      BY <1>11, <3>1, <3>2, <3>3 DEF Apply
  <2>5. Alone' /\ (\A b \in Admins : Progress(b)') /\ Ordered'
    BY <2>1 DEF SerialInv, Alone, Progress, Ordered, dbVars
  <2>6. \A q \in Services : Clean(q)' => Current(q)'
    BY <2>1 DEF SerialInv, Clean, Current, dbVars
  <2>7. ASSUME NEW q \in Polled, ~failed'[q], last'[q] = cache'.version[q]
        PROVE  Follows(q)'
    <3>1. Follows(q)
      BY <2>1, <2>7 DEF SerialInv
    <3>2. CASE q = s
      BY <2>1, <2>2, <2>4, <3>1, <3>2 DEF Follows, Runs, Take
    <3>3. CASE q # s
      BY <2>1, <2>2, <2>3, <3>1, <3>3 DEF Follows, Runs
    <3> QED
      BY <3>2, <3>3
  <2> QED
    BY <2>5, <2>6, <2>7 DEF SerialInv
<1>12. ASSUME RestartProcess PROVE SerialInv'
  <2>1. /\ cache' = [version |-> version, setting |-> setting, table |-> table]
        /\ \A b \in Admins : cpc'[b] = "idle"
        /\ \A s \in Polled : last'[s] = 0
        /\ UNCHANGED dbVars
    BY <1>12 DEF RestartProcess, Boot
  <2>2. Alone' /\ \A b \in Admins : Progress(b)'
    BY <2>1 DEF Alone, Progress
  <2>3. Ordered'
    BY <2>1 DEF Ordered, dbVars, Polled, Services
  <2>4. \A s \in Services : Current(s)'
    BY <2>1 DEF Current, dbVars
  <2>5. \A s \in Polled : last'[s] # cache'.version[s]
    BY <2>1 DEF Polled, Services
  <2> QED
    BY <2>2, <2>3, <2>4, <2>5 DEF SerialInv
<1>13. CASE UNCHANGED reloadVars
  BY <1>13
  DEF reloadVars, SerialInv, Alone, Progress, Ordered, Clean, Current, Follows, Runs, Take
<1> QED
  BY <1>1, <1>2, <1>3, <1>5, <1>6, <1>7, <1>8, <1>9, <1>10, <1>11, <1>12, <1>13
  DEF ReloadNext, Handle

\* With requests one at a time the cache is the database's content whenever no
\* request is being answered and no write failed, whatever else happens.
THEOREM CacheFollowsDatabase ==
  ASSUME SavesInTurn
  PROVE  ReloadSpec => []CacheCurrent
<1>1. TypeInv /\ SerialInv /\ [ReloadNext]_reloadVars => SerialInv'
  BY SerialNext
<1>2. TypeInv /\ SerialInv => CacheCurrent
  BY SerialImplies
<1> QED
  BY <1>1, <1>2, TypeInit, TypeNext, SerialInit, PTL DEF ReloadSpec

\* With requests one at a time, equal versions mean equal configurations, so
\* Reload may return early when it knows the version.
THEOREM EqualVersionsMeanInSync ==
  ASSUME SavesInTurn
  PROVE  ReloadSpec => []VersionTells
<1>1. TypeInv /\ SerialInv /\ [ReloadNext]_reloadVars => SerialInv'
  BY SerialNext
<1>2. TypeInv /\ SerialInv => VersionTells
  BY SerialImplies
<1> QED
  BY <1>1, <1>2, TypeInit, TypeNext, SerialInit, PTL DEF ReloadSpec

=============================================================================
