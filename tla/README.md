# A TLA+ model of pxe-server

`pxe-server` is one Go process that serves PXE installations: a DHCP service, a
TFTP service, an HTTP API with a web UI, and a SQLite database behind all of
them. This directory models its concurrent core in TLA+, checks the models with
TLC and proves the main safety properties with TLAPS.

## 1. The system

### Processes

* **main** opens the database, runs the migrations and seeds, fills the
  configuration cache, starts the three services and waits for a signal
  (`cmd/server/root.go`).
* **the reload goroutine** calls `dhcp.Server.Reload` and `tftp.Server.Reload`
  every five seconds (`root.go:147-162`).
* **a goroutine per DHCP packet**, started by the `server4` library, runs
  `dhcp.Server.handler`.
* **a goroutine per TFTP transfer** runs `readHandler`.
* **a goroutine per HTTP request** runs a Gin handler.

They share the database (one connection, so each SQL statement is atomic; there
are no transactions), the configuration cache (a read-write lock), the DHCP
lease table (a mutex), the DHCP pool list (no lock), files on disk, the session
tokens and the rate limiter.

### Components

| Component | State | Operations | What is hard | What makes it correct |
|---|---|---|---|---|
| DHCP service (`internal/service/dhcp`) | `leases` (memory), `subnets`, `conn`, `lastVersion` | DISCOVER, REQUEST, RELEASE, DECLINE, expiry, Start, Stop, Reload | allocate and recordLease are separate critical sections; the pool list is rebuilt without a lock; replies get lost; leases do not survive a restart | one owner per address; an address in use stays in the table; no address from outside the enabled pools of the client's own networks |
| Configuration (`internal/config`, `handler_config.go`, `handler_dhcp_subnet.go`, `root.go`) | `sys_config`, `dhcp_subnet`, the cache, `lastVersion` of each service | update settings, edit subnets, ReloadAll, poll, Reload | read-modify-write of the version; keys written one by one; rows read before the lock; a write fails half-way; restart | the cache follows the database; equal versions mean equal configurations; what is saved takes effect |
| TFTP service (`internal/service/tftp`) | `conn`, root directory, timeout | read request, Start, Stop, Reload | a reload during a transfer; path containment | a running transfer is not cut; only files below the root are served |
| Kickstart, iPXE and deploy script stores (`handler_ks.go`, `handler_ipxe.go`, `handler_deploy.go`, `db/*_crud.go`) | rows with an `active` flag, one default row, a file on disk | create, update, delete, set active, seed at start | SetActive is two statements; the file and the row are written by different steps | at most one active row; the default row stays; the file is the active row |
| Image store (`handler_image.go`, `sync_images.go`) | `os_image` rows, directories below `repo/` | upload, set active, boot files, delete, scan at start | an upload fails half-way; two uploads of one name | a name has one row; a row lists what was unpacked; an upload loses nothing another request wrote |
| Hosts, resources and node-info (`handler_host*.go`, `handler_nodeinfo.go`) | `host_info`, `host_resource`, `node-info.txt` | create, update, delete, import, export | check then write; a password read and written later; list then write file | one host per IPMI address; no password moves to another host; the file is the table |
| IPMI power control (`service/ipmi/ipmi.go`, `handler_host.go`) | none | power, power status, boot device, batches | a BMC that never answers | every request ends |
| Database start (`db/db.go`) | all tables, the schema | create, alter, migrate, seed | dies between any two statements; a database of an older version; one connection | a start that ends is complete; nothing saved is lost or overwritten |
| Rate limiter and sessions (`middleware`) | visits per client address; tokens | limited request; login, logout | late requests, one table for all routes | nobody beyond the rate, nobody refused for what is long past |
| Rendering (`ksrender`, `ipxe`) | none | pure functions of a row | none | the text is complete |
| Logs, files, status, web UI | none that others read | reads | none | outside the model |

`PROJECT.json` lists the same components with their status and the hazards of
each with its line.

### Interaction

A save in the web UI writes `sys_config` or `dhcp_subnet`, bumps a version and
fills the cache (`ReloadAll`); the reload goroutine sees the new version in the
cache and rebuilds the pool list or the TFTP settings; packet goroutines read
the pool list and the cache, and the lease table ties them together. The boot
chain then fetches `autoexec.ipxe`, the kickstart file and the deploy script
that the stores keep.

## 2. Modules

| Module | Models | Kind |
|---|---|---|
| `AddressLedger` | what a lease table promises: an address is granted while nobody else owns it | abstract specification |
| `UniqueTable` | what the schema promises of a table: ids are given once, a key is in one row | abstract specification |
| `DhcpServer` | `dhcp.go`: lease table, pools, packet goroutines, rebuild, restart | component |
| `DhcpClients` | `DhcpServer` together with clients that follow the protocol; implements `AddressLedger` | composition |
| `ConfigReload` | the way of a saved setting through database, cache and poll to the services | component |
| `ActiveStore` | the kickstart, iPXE and deploy script tables, each with its row in force and its file | component |
| `ImageStore` | installation sources: `os_image`, the directories below `repo/`, the scan at start | component |
| `DatabaseStart` | `db.Init`: schema, migrations and defaults, with crashes and older databases | component |
| `HostStore` | `host_info`: forms, Excel import, IPMI commands | component |
| `NodeInfo` | `host_resource` and `node-info.txt` | component |
| `Gate` | the rate limiter | component |
| `MCDhcpGate` | `DhcpServer` and `Gate` in one run | composition for TLC |
| `MCTables` | `HostStore`, `NodeInfo`, `DhcpClients` and `ActiveStore` in one run | composition for TLC |
| `MCProgress` | `DatabaseStart`, `ConfigReload` and `HostStore` in one run, under fairness | composition for TLC |
| `Dhcp_proofs` | theorems about `DhcpServer` and `DhcpClients` | proofs |
| `ConfigReload_proofs`, `ActiveStore_proofs`, `ImageStore_proofs`, `DatabaseStart_proofs`, `HostStore_proofs`, `NodeInfo_proofs`, `Gate_proofs` | theorems about the module they are named after | proofs |
| `MCDhcpServer`, `MCDhcpClients`, `MCConfigReload`, `MCActiveStore`, `MCImageStore`, `MCDatabaseStart` | constants for TLC, and the counterexamples of one module | model checking |

### DhcpServer

`leases` is the map of the same name, without entries that have expired
(`allocate` ignores them); `subnets` is `s.subnets`; `pending` and `phase` are
the loop of `buildPool` in the goroutine that runs `Start` or `Reload`; `pc`,
`pkt`, `sub` and `yi` are the local variables of a packet goroutine. Addresses
are numbers and `MaxAddr` is 255.255.255.255, so that `incIP` wraps as the code
does and a pool that ends there is scanned past its end (`Scanned`). A mask
that spans n addresses divides the address line into blocks of n (`Network`).

A handler's steps are cut at its accesses to shared state: `Match` reads
`s.subnets`, and `TryCandidate` reads it again for each address the packet may
be matched by (`left` holds those still to try); `Discover` and `RequestChosen`
call `allocate` under the lock; `RecordLease` takes the lock again; `Send`
writes the reply. The pool list is emptied and filled in separate steps
(`Reload`, `AppendPool`), so a packet may be matched against an empty list, a
prefix of the new one, or two lists for two addresses. `Restart` forgets
everything, as the process does.

`PeerSeen` is the one piece of library behaviour the properties depend on:
`server4` replaces an unspecified peer address by 255.255.255.255 before it
calls the handler.

### DhcpClients

Clients send DISCOVER, REQUEST (selecting or renewing), RELEASE and DECLINE and
remember the offer they wait for and the address they use. Replies may be
lost, clients may give up, leases expire. `OneAtATime` says whether the
exchanges of two clients may overlap. `Restart` is left out: the lease table is
in memory, so after a restart addresses in use look free, and no promise to
clients survives it. Packets delayed on the wire are left out too.

### ConfigReload

One `SaveSettings` or `SaveSubnets` request runs through the statements of its
handler: `bumpVersion` reads the version, each key is written by a statement of
its own in any order, `ReadRows` is the read of `sys_config` before the lock in
`ReloadAll` and `Install` is what happens under the lock. `WriteFails` is a
failing write: the settings handlers return 500, `bumpDHCPVersion` logs and
goes on. `Poll` is the version comparison at the head of `Reload`; `Rebuild`,
`StartStopped` and `StopRunning` are its three branches. A failed bind leaves
the socket `"refused"`, which the code does not distinguish from closed; the
model keeps the two apart so that the properties can. `failed` is a history
variable: a write for the service failed since its last complete save. The
order in which one tick polls DHCP and TFTP is left open, since they share no
state. The database connection is not lost while the process runs: reads
succeed. `SavesInTurn` says whether a save waits for the one before; the code
does not make it wait.

`used` is what a service has taken over of its configuration by a reload. The
address it listens on and TFTP's timeout are not part of it (`Take`): they are
used at the next bind only. `Converges` promises nothing of those two, and
`ListensWhereConfigured` says what the documentation promises of the address.

### ActiveStore

The three tables have the same handlers, so a behaviour picks one (`kind`) and
the differences are conditions on it: a new deploy script is never put in force,
an edit of one does not touch its file, and `ensureDeployScriptActive` sets the
row without writing the file. `rows` is the table, `nextId` its AUTOINCREMENT,
`copy` what is on disk, and `spc`, `req` the requests in flight. Each SQL
statement and each file write is a step; `SetActive*` is `Clear`, `Set`,
`Reread`. `Fail` is a statement or write that fails (reads succeed); `RestartStore`
is a crash between any two steps followed by the seeding of `seed.go`. `hurt`
is a history variable: a request failed or died after the last activation that
ended well; so is `overlapped`: two requests have been in flight at once, at any time
in the past. A content keeps its placeholder until it is filled in, and the file
remembers the address it was filled with. Names, the duplicate-name check of
kickstart templates, passwords, and an upgrade that changes the built-in
contents are left out.

### ImageStore

`rows` is `os_image` with its two path columns as one function; `disk` says of
each directory whether it is absent, torn (there, but not completely unpacked)
or whole. An upload is `Upload` (the row is looked for and its columns are
held), `Insert`, then `Wipe` and `Unpack` per architecture, `Save`, and
`CheckDefault`, `Clear`, `Set` for the default flag. `Unpack` may leave the
directory torn although it reports success: `extractISORecursive` passes over a
file it cannot open (`iso.go:63-66`), and another upload of the name may remove
what is being written. A directory is torn, too, when a step `Fail`s in the
middle of a removal, an unpacking or the writing of a boot file whose old version
was renamed away. `Restart` is a crash, which may do the same, and the scan of
`syncImageDirectories`, which runs before any request is served. `Init` is the
first start on a new database, over any directories that are there, whole or
torn: the scan lists them in rows none of which is the default.

Any two requests overlap, two uploads of one name included. `cut`, `hurt` and
`crossed` are history variables: directories whose last upload failed, was killed
or left files out, and those that were torn at the first start; whether something
went wrong (a failure, a deletion, the first scan) since a default was set; the
names two uploads of which were ever in flight together. A row the scan fails to
write is as if its directory had not been found, and is left out.

### DatabaseStart

`db.Init` runs in one goroutine before anything else, so what is hard about it is
not who else is there but where it stops: `Crash` may come between any two
statements and the next `StartProcess` begins anew. `tables`, `missing`, `config`,
`legacy` and `subnets` are the database; `pc`, `todo`, `values` and `open` are the
local state of `Init`, lost in a crash. The actions are the functions of the
code: `CreateTables`, `ensureColumn`, `migrateHostResource`, `seedDefaultConfig`,
`migrateDHCPSubnet` with `InsertSubnet` and `cleanOldDHCPKeys`. `open` says that
the rows of a query are open; with one connection `Exec` waits for them.
`StillOpen` is what `database/sql` does: rows close when `Next` returns false or
`Close` is called, which a deferred call is only at the return.

`Init` starts from no database or from an older one with any columns missing.
Between two starts users save settings and change subnets (`SetConfig`,
`CreateDHCPSubnet`, `DeleteDHCPSubnet`, `ChangeResources`). `upgrade` and
`edited` are history variables: the database had the old subnet keys at first; a
user has changed the subnet table. A consequence the model makes plain: emptying
the table of subnets brings the default one back at the next start, since
`migrateDHCPSubnet` cannot tell an emptied table from a new one; `ReadyComplete`
and the manual ("executed only when the list is empty", `USER_MANUAL.md:175`)
allow it.

### HostStore

A request is a label `hpc` and what it holds, `hreq`. The form's handlers check
(`CheckHostUnique`), and `CreateHost` and `UpdateHost` check again before the
statement that only the unique index `idx_host_ipmi` decides (`IndexAllows`).
An update with a blank password reads the old one (`GetOldPassword`) and writes
it in a later step; an import reads the whole list for each row
(`upsertHostBasic`) and returns to its loop (`Return`). `hosts` and `nextHost`
are the table and its AUTOINCREMENT; `entered` and `alone` are history
variables: the passwords ever given for an id, and whether a request has met
another one. IPMI commands take the hosts of a batch one by one (`GetHostByID`,
`runCommand`); a BMC in `Silent` never answers, and the context of ten seconds
ends its command.

Any positive id may come with an update: of a host that is there, is gone, or is
yet to be created. A failing SELECT in `GetOldPassword` is passed over by the code,
as is a host that is not there, and the blank or masked password is then stored as
it is; `PasswordEntered` allows that one value.

Three things the code does that a reader may not expect, and the model keeps. An
update of a host that is gone reports success. An import never takes the password
of the file for a host that exists, although the comment at
`handler_host_excel.go:124` ("保留旧密码（除非显式传入新密码）") says a new one is
taken: `ImportReaches` states what the code does, that the old one stays. And rows
of a file without an address are one host, because the index knows one empty
address: each writes its name and user over those of the row before
(`handler_host_excel.go:122-126`). Those two columns are not in the model, so
`ImportReaches` says of such a row only that its host is there.

### NodeInfo

Requests change `host_resource`, list it (`ListHostResources` or an export) and
write the list to `node-info.txt` (`OpenFile` empties it, `WriteFile` writes), each
a step of its own and none under a lock. `file` is the rows the file lists, or
`Mixed` when two writers or a crash left parts. `undisturbed` and `fresh` are
history variables: the request has met no other; the last request to change or
write anything was undisturbed and wrote the whole list. Under overlap the file
may be old, mixed or empty until the next request, and a batch export of a
selection leaves only the selection in it; `FileCurrent` says that it mends.

### Gate

`RateLimit` is the critical section: the table is cleaned when its time has come
(`Cleaned`), the visit is counted (`counted`), and the request passes or not
(`Allowed`). `Stamp` is the `time.Now()` before the lock, so requests may count
with times that others have overtaken, by at most `Delay`. The table is shared
by all limited routes with their different rates, as in the code. `log` is a
history variable.

### UniqueTable

What every table with an `AUTOINCREMENT` id and a unique index promises: a row is
inserted under an id never given before and with a key no row has, a row takes
another free key, rows are removed. `HostTable` and `ResourceTable` map the rows of
`HostStore` and `NodeInfo` to their keys (the IPMI address) and the counter of
sqlite to the ids ever given. The promise is the schema's, and what is to be shown
is that the handlers, which check in one statement and write in another, need
nothing more. `os_image` has no index on its names and does not keep the promise
(`images_overlap`); what is left of it there is `IdsKeepNames`.

### MCDhcpGate, MCTables, MCProgress

Several components share no state, or none that the models look at: deleting a
host does not touch its resources, the limiter does not know what it lets through,
a kickstart template is no DHCP lease. One run checks several of them: a behaviour
chooses a `part` at first and takes only the steps of that one, while the others
stay in one initial state. A property that mentions the variables of one component
is decided by that component's own steps, so nothing is lost by this, and the
states of the parts add up instead of multiplying.

## 3. Runs

| Run | Bounds | Shows |
|---|---|---|
| `dhcp_gate` | 2 clients, one of which moves between 2 networks, 2 packet goroutines, 2 subnet lists; or 2 clients at the limiter, 2 routes of rates 1 and 2, 2 requests between clock and lock, a window of 2 ticks, 6 ticks, 4 requests | `LeaseInEnabledPool`, `ReplyFromOwnPool` under every interleaving with rebuilds, expiry and restarts; `RateKept`, `RefusedBusy` |
| `tables` | 2 requests on the hosts (1 address and the empty one, 2 passwords, 2 ids, a BMC that never answers, files of 2 rows); 2 requests on the resources (2 addresses and values, 2 ids); 2 requests on each of the 3 active-row tables (2 rows besides the default one, 2 contents, 2 PXE addresses); 3 DHCP clients, exchanges one at a time, 3 subnet lists (shifted pool, disabled pool), a pool of 2 | hosts: `UniqueIPMI`, `PasswordEntered`, `ImportReaches`; resources: `UniqueResource`, `FileCurrent`; every step on either is a step of `UniqueTable`; active rows: `DefaultIntact` whatever overlaps, `AtMostOneActive`, `SomeActive`, `FileFollowsActive` until two requests overlap; DHCP: `LeaseUnique`, `HeldRecorded`, and every step is a step of `AddressLedger` |
| `progress` | start: 2 tables, 2 columns, 2 default keys, 2 old keys, 3 subnet ids, any number of crashes; reload: 1 save at a time, versions up to 5 and any number of failed saves, 2 subnet tables; hosts: 2 requests, 1 address and the empty one, 2 ids | `OldRangeKept`, `ReadyComplete`, `SavedKept`, `CacheCurrent`, `VersionTells`; under fairness `StartEnds`, `Converges`, `HostRequestsEnd` |
| `images` | 2 requests in flight, 2 row ids; 1 name of 2 architectures or 2 names of 1, up to symmetry; any directories at the first start | `OneRowPerName` and `PathsKept` for names no two uploads of which have met; `ListedIsUnpacked`, `SomeDefault`, `IdsKeepNames` whatever overlaps; all with failures and restarts |
| `dhcp_overlap` | 2 clients | counterexample to `LeaseUnique` |
| `dhcp_direct` | 1 client on the server's segment | counterexample to `DirectBroadcastMatched` |
| `dhcp_moved` | 1 goroutine, 1 client that moves | counterexample to `ReplyFromMatchedPool` |
| `reload_overlap` | 2 saves in flight | counterexample to `VersionTells` |
| `reload_listen` | 1 TFTP save of another address | counterexample to `ListensWhereConfigured` |
| `active_overlap` | 2 requests in flight | counterexample to `OneInForce` |
| `startup_old` | a database with the bond columns in `host_info` | counterexample to `StartEnds` |
| `images_overlap` | 2 uploads in flight, no failures | counterexample to `OneRecordPerName` |

Three further configurations are kept beside these runs. Each checks one property
that the code does not have, and TLC finds it violated:

| Configuration | Module | Shows |
|---|---|---|
| `ActiveServed.cfg` | `MCActiveStore` | the iPXE table: counterexample to `ServesCurrentServer` |
| `ActivePreview.cfg` | `MCActiveStore` | the kickstart table: counterexample to `PreviewFilled` |
| `ImagesScan.cfg` | `MCImageStore` | the scan lists what is no repository: counterexample to `ListedIsRepo` |

Why the bounds are enough: two goroutines are the smallest number that puts one
between `allocate` and `recordLease` of the other; three clients over a pool of
two exhaust it; a client that moves between two networks while another stays on one
is what tells the pools apart; the disabled subnet that shares a network with an enabled one
and comes first in the list is what a forgotten `enabled` check would pick; two
bumps suffice for a service to be one version behind and for a save to heal a
failed one; two rows and the default one are a row in force, one to put in
its place and one deleted in the meantime; two ids are a row that is deleted
under an upload and the one that takes its name again, two architectures are the
one uploaded now and the one uploaded before. The constraint of `MCImageStore`
stops at states that use two names and two architectures both: directories are
addressed by name and architecture, uploads and rows by name, so a second name
matters for what a request does to other rows, a second architecture for what it
does to its own. Two hosts with one address and
the empty one are what an index can refuse and a check can miss; two ids are a
host deleted under a request and the next one to be created; two rows of a file
are an address that comes twice. Two columns, keys and old keys are one done and
one still to do when the process dies, which it may do again at every later
start; three subnet ids are the migrated row, a user's, and one added after the
table was emptied. Four requests in six ticks cross the border of a window of
two and meet the cleaning of the table, with a rate that is used up and one that
is not.

Fairness: `ConfigReload` assumes that a handler that runs reaches its end
(`net/http` and Go's scheduler), that the ticker goroutine keeps polling and
that a Reload it starts ends. Nothing is assumed of the administrators:
`Converges` speaks of behaviours in which requests eventually stop. Writes may
fail for ever; the property then speaks only of services whose last save went
through. `DatabaseStart` assumes that the main goroutine goes on (`WF` of `dbInit`)
and nothing of users or crashes; `HostStore` that a request's goroutine goes on
(`WF` of its steps), where `runCommand` ends because its context does, not
because a BMC answers. `HostRequestsEnd` is stated as long as ids are left, since
a request that needs one past the bound stops in the model only. In `MCProgress`
each of these conditions is about the steps of its part, and binds the behaviours
that take steps of that part. The DHCP modules state no liveness property: a packet that is not
answered is sent again by the client, which the code leaves to it.

### What the counterexamples say

* `dhcp_overlap`: client 1 is offered an address; client 2 is offered the same
  one, because an offer is not recorded; both request it with option 50, which
  is only checked against the pool's range; both are acknowledged.
* `dhcp_direct`: the peer of a broadcast is never 0.0.0.0 by the time
  `matchSubnet` sees it, so rule 3 of the manual (the server's own addresses)
  is unreachable. `CandidatesAreSources` proves that for every packet.
* `startup_old`: `migrateHostResource` finds `bond0_ip` in `pragma_table_info`,
  keeps the rows of that query open by its deferred `Close`, and calls `DB.Exec`,
  which waits for the pool's one connection (`db.go:35`, `:246-255`). The start
  never ends and the old bond columns are never copied; a later start does the
  same. `ensureColumn` has the same shape and does not wait, since its rows are
  closed by the `Next` that finds none.
* `reload_overlap`: a save writes the new version, another request's
  `ReloadAll` puts it in the cache beside settings not yet written, or puts an
  older read over a newer one; the service remembers the version, and the
  settings wait for the next save.
* `reload_listen`: `Reload` of a running service never binds again.
* `dhcp_moved`: a client is acknowledged an address behind one relay and asks again
  behind another; it is matched to the other network's pool, but `allocate` returns
  its live lease (`dhcp.go:503-507`), and the reply pairs the old address with the
  new network's mask and gateway.
* `images_overlap`: two uploads look for a new name, one after the other find no row,
  and each inserts one.
* `active_overlap`: two requests clear the flags, then each sets its own row.
* `ImagesScan.cfg`: the comment at `sync_images.go:15` asks for `repodata/`; the scan
  asks for a directory only, and lists one whose unpacking was cut off.
* `ActiveServed.cfg`: the address is filled in when `autoexec.ipxe` is written;
  changing the setting later does not write the file again, and the TFTP service
  can only replace a placeholder that is still in it.
* `ActivePreview.cfg`: activating a kickstart template writes the file with its
  placeholders filled in, editing it overwrites the file with them as they are,
  and the preview prefers the file.

## 4. Proofs

`Dhcp_proofs` assumes, of the service, only the four assumptions on the constants
in `DhcpServer`.

* `TypeCorrect`. `TypeOK` is not inductive: `allocate` on a pool without a
  range would not return an address. `TypeInv` adds that every pool of the list
  and every matched pool has a range. The lemmas under it say what the scans
  return (`FirstFreeIsFree`, `FirstFreeInPool`, `FirstHitInList`); the least
  element they stop at exists because the naturals are well-founded.
* `LeasesComeFromPools`. `PoolInv` carries the origin of an address through the
  handler: pools come from a configuration, the matched pool is enabled, and
  what a goroutine is about to record lies in such a pool.
* `RepliesComeFromOwnPools`, for any packets and configurations. `HomeInv` adds that
  the pool a goroutine has matched, every live lease and every address in hand are
  of pools its client can be matched to (`CanMatch`). That the address is of the
  pool matched now is false, as `dhcp_moved` shows.

`ConfigReload_proofs` holds for any values, tables, requests and bounds.

* `TypeCorrect` for any number of overlapping requests.
* `CacheFollowsDatabase` and `EqualVersionsMeanInSync`, under `SavesInTurn`.
  `SerialInv` says how far the one request in flight has taken its version
  (`Progress`), that versions only grow from service to cache to database
  (`Ordered`), that a service without anything in flight has its rows in the
  cache (`Clean`, `Current`), and that a service which knows the cache's
  version runs the cache's configuration or has a copy of it in hand
  (`Follows`). `reload_overlap` shows that the assumption cannot be dropped.

`ActiveStore_proofs` holds for any contents, ids and kinds of table.

* `TypeCorrect` and `DefaultStaysIntact` for any number of overlapping requests.
  The handlers read `is_default` and write later; `EditsOther` says why that is
  safe: the row a request is about to write is not the default one, since the
  flag never changes and an id is never used twice.
* `NeverTwoActive`, `AlwaysOneActive` and `FileFollows`, until two requests overlap.
  `SerialInv` says what holds at each step of the one request in flight
  (`Flow`): nothing is in force between the two statements of `SetActive*`, only
  the request's row after them, and the text it is about to write to the file is
  that row's. `active_overlap` shows that the condition cannot be dropped.

The service with its clients (in `Dhcp_proofs` too) inherits the invariants of the
service.

* `ClientsFaceTheServer`: `ClientSpec` implements `Spec`. Every step of the
  composition is a step of `DhcpServer` or leaves it alone
  (`ClientStepIsServerStep`), so what holds for arbitrary packets holds among
  clients; `ClientsLeaseFromPools` is the first consequence.
* `ClientTypeCorrect` without any assumption.
* `LeasesStayUnique`, `HeldStaysRecorded` and `LedgerImplemented` under `NoOverlap`:
  boot exchanges one at a time and one packet goroutine. `ClientInv` follows the
  address from the offer to the lease: an offer a client has chosen is still free
  for it (`OffersStand`), and so is the address a goroutine is about to grant
  (`Sure`). `dhcp_overlap` shows that the assumption cannot be dropped.
  The refinement maps the lease table to the owners of `AddressLedger`; every
  step grants an address nobody owns, takes one back, or stutters.

`ImageStore_proofs` holds for any images, architectures, failures, directories at
the first start and number of overlapping requests.

* `ImageTypeCorrect`, `NamesStayUnique`, `ListsUnpacked`, `ListedStaysListed`. The
  heart of `Core` is `Good`: a directory that is whole, cut, or being unpacked.
  Once good a directory stays good under every step, a restart included, and rows,
  uploads and boot files only ever speak of good ones (`ListedIsUnpacked`, `ReqOK`).
  `ReqOK` also says that what an upload is about to write has the name of the row it
  writes to and lists good directories only, and, for a name that is not `crossed`, that it
  lists all that its row lists and that the name it is about to insert has no row.
  The last two need `Solo`: two uploads at work have different names, or their name
  is crossed. The scan of `Restart` is treated row by row (`UpsertRows`), and so are
  the rows of the first start (`InitInv`).
* `DefaultIsSet`. `DefaultInv`: while nothing has gone wrong, a table without a
  default has a request on its way to set one.
* `IdsNameOneImage`: an upload saves under the name it found its row by, and no step
  gives that id another.

`DatabaseStart_proofs` holds for any number of tables, columns and keys.

* `StartTypeCorrect`, `StartCompletes`, `UpgradeKeepsRange`, `StartKeepsSaved`. The
  invariant says what is done by the time `db.Init` reaches each place (`Created`,
  `Altered`, `Seeded`, `Migrated`), and `Moved` that the old values are in one of
  two places: all old keys while there is no subnet, a row once there is.

`HostStore_proofs` holds for any addresses, passwords and overlapping requests.

* `HostTypeCorrect`, `AddressesStayUnique`, `PasswordsStayHome`. `HostInv` adds to
  them what a request holds at each step (`Sound`): the password it is about to
  write was entered for the id it is about to write to, as long as there is a
  host of that id. Ids are never used again, which is what makes this inductive.
* `ImportsReach`. `LoneInv` says of a request that has met no other that what it
  read of the table is still so: the host it is about to update has the address and
  the password it holds, or no host has the address it is about to insert. Hence the
  row it writes fits and takes nothing from a host that was there.
* `HostsAreATable`: every step is a step of `UniqueTable`, for the index refuses
  what a check has missed and `AUTOINCREMENT` gives fresh ids (`CreateMaps`,
  `UpdateMaps`, `RemovalMaps`). `HostsGoneForGood` follows from the abstract
  specification alone (`TableStepKeeps`): an id that was deleted is never in the
  table again, which is why a request may act on an id it read long ago.

`NodeInfo_proofs` holds for any rows and overlapping requests.

* `NodeTypeCorrect`, `ResourcesStayUnique`, `FileMends`. `Undisturbed` says of a
  request that has met no other that it is the only one, that its list is still
  the table, and that the file it has opened is still empty.
* `ResourcesAreATable`, in the same way as `HostsAreATable`.

`Gate_proofs` holds for any clients, routes and rates of at least one, any window,
any `Delay` shorter than the window, and any length of the history.

* `GateTypeCorrect`, `RateNeverDoubled`, `RefusalsExplained`. The properties speak
  of a history the limiter does not keep, so `GateInv` ties each entry of its table
  to the history (`Remembered`): an entry was opened by some request of that client
  (`Opened`), its time is that request's to within `Delay`, its count is the number
  of requests since, at most a rate of each route has passed since, and before it
  was opened no span that is still within the window had more than a rate
  (`Quiet`). A span of the window thus meets at most two entries, each good for one
  rate. A client without an entry has been quiet lately, whichever route cleaned
  the table. `Ordered` says that the history's times never go back, and
  `StampsFresh` that a stamp is no older than `Delay`.

Model-checked only: the liveness properties `Converges`, `StartEnds` and
`HostRequestsEnd`, which the prover cannot reach. Every other property of a
passing run is stated by a theorem.

## 5. Not modelled

* Reply options, boot file choice and the rendering of boot scripts and
  kickstart files: pure functions of a row, with no state. `RenderKS` serves the
  preview of a template only.
* Sessions: a token is a random key of a map under a lock, and no session
  depends on another.
* The logger, the file browser, the status and client pages, routing, the web UI
  and the deployment scripts: they read, or write what nothing else reads.
* Excel files, lists and templates of the host pages: only read, or formatting.
* TFTP transfers: a transfer reads a file that other components replace; only
  what `Reload` does to the service is modelled.
* Three pieces of behaviour that no property of a run covers. The address in
  `autoexec.ipxe` is copied when the file is written, so machines are sent to an
  old one after the setting changes (`ActiveServed.cfg` shows it). TFTP's timeout,
  like the listen address of `reload_listen`, is used only when the service binds.
  A pool that ends at 255.255.255.255 is scanned past its end, and the properties of
  `DhcpServer` excuse it (`Covered`).
* The other columns of a host: name, user, MAC, install status.
* Rows whose range does not parse: the packet goroutine that scans one panics
  and the process restarts, which `Restart` covers.

## 6. Plan

1. `Tftp`: transfers against reload and shutdown; shutdown of the process while a
   reload is in flight.
2. The rendering of `ksrender` as a function, checked against a reference
   definition.
