------------------------------- MODULE HostStore -------------------------------
(***************************************************************************)
(* The hosts (host_info) and the requests that manage them: the forms of    *)
(* the admin pages, the Excel import and the IPMI commands. Requests        *)
(* overlap, and lose nothing but time between two statements; a statement   *)
(* is atomic (one connection) and the unique index on ipmi_addr refuses it  *)
(* or not. The columns that matter are the address and the password.        *)
(***************************************************************************)
EXTENDS Integers, FiniteSets

CONSTANTS
    HostRequests,   \* requests that can be in flight at once
    Addresses,      \* IPMI addresses
    NoAddress,      \* the empty address, which the index takes for a value
    Passwords,
    Keep,           \* an update's blank or masked password
    Silent,         \* addresses whose BMC never answers
    MaxHosts,       \* highest id of a host (a bound)
    MaxFile         \* rows of an imported file (a bound)

ASSUME AddressAssumption == NoAddress \notin Addresses
ASSUME KeepAssumption == Keep \notin Passwords
ASSUME MaxHostsAssumption == MaxHosts \in Nat
ASSUME MaxFileAssumption == MaxFile \in Nat

VARIABLES
    hosts,      \* host_info: id -> [addr, pass]
    nextHost,   \* AUTOINCREMENT of host_info
    hpc,        \* where a request is
    hreq,       \* what it holds in memory
    entered,    \* history: passwords requests gave the host that has the id
    alone       \* history: an import has met no other request

hostVars == <<hosts, nextHost, hpc, hreq, entered, alone>>

HostAddr == Addresses \cup {NoAddress}
Ids == 1..MaxHosts
Host == [addr : HostAddr, pass : Passwords \cup {Keep}]

HostReq == [import : BOOLEAN,                \* the request is an import
            rows : 0..MaxFile,               \* rows of its file to come
            skipped : BOOLEAN,               \* its last row was refused
            ids : SUBSET Ids,                \* hosts still to be commanded
            id : 0..MaxHosts,                \* the host it reads or writes
            addr : HostAddr,
            pass : Passwords \cup {Keep},
            given : BOOLEAN]                 \* history: the password came with it
HostLabels == {"idle", "create", "insert", "old", "update", "write",
               "import", "power", "call"}

NoHostReq == [import |-> FALSE, rows |-> 0, skipped |-> FALSE, ids |-> {}, id |-> 0,
              addr |-> NoAddress, pass |-> Keep, given |-> FALSE]

HostTypeOK ==
    /\ DOMAIN hosts \subseteq Ids
    /\ \A i \in DOMAIN hosts : hosts[i] \in Host /\ i < nextHost
    /\ nextHost \in 1..MaxHosts + 1
    /\ hpc \in [HostRequests -> HostLabels]
    /\ hreq \in [HostRequests -> HostReq]
    /\ entered \in [Ids -> SUBSET Passwords]
    /\ alone \in [HostRequests -> BOOLEAN]

(***************************************************************************)
(* host_info.                                                               *)
(***************************************************************************)
Others(a, id) == {i \in DOMAIN hosts \ {id} : hosts[i].addr = a}

\* CheckHostUnique lets the empty address pass; no caller gives a MAC.
CheckHostUnique(a, id) == a = NoAddress \/ Others(a, id) = {}

\* Mutant: no idx_host_ipmi.
NoIndex(a, id) == TRUE

IndexAllows(a, id) == Others(a, id) = {}

\* Mutant: without AUTOINCREMENT the next id is the highest in use plus one.
ReusedId ==
    CHOOSE n \in 1..nextHost :
        (\A i \in DOMAIN hosts : i < n) /\ (n = 1 \/ n - 1 \in DOMAIN hosts)

NewId == nextHost

Stored(a) == \E i \in DOMAIN hosts : hosts[i].addr = a

(***************************************************************************)
(* Requests.                                                                *)
(***************************************************************************)
InFlight == {r \in HostRequests : hpc[r] # "idle"}

\* Whoever is in flight when a request arrives is not alone.
Meet(r, label) ==
    alone' = [x \in HostRequests |-> x = r /\ label = "import" /\ InFlight \subseteq {r}]

Hold(r, label, req) ==
    /\ hpc' = [hpc EXCEPT ![r] = label]
    /\ hreq' = [hreq EXCEPT ![r] = req]

\* CreateHost and UpdateHost return to the form's request, which ends, or to the
\* import's loop, which counts an error and goes on.
Return(r, err) ==
    IF hreq[r].import
    THEN Hold(r, "import", [NoHostReq EXCEPT !.import = TRUE, !.rows = hreq[r].rows,
                                         !.skipped = err])
    ELSE Hold(r, "idle", NoHostReq)

Start(r, label, req) == hpc[r] = "idle" /\ Meet(r, label) /\ Hold(r, label, req)

handleCreateHost(r, a, p) ==
    /\ CheckHostUnique(a, 0)
    /\ Start(r, "create", [NoHostReq EXCEPT !.addr = a, !.pass = p])
    /\ UNCHANGED <<hosts, nextHost, entered>>

\* The handler's check comes again in CreateHost and UpdateHost.
CheckAgain(r) ==
    /\ hpc[r] \in {"create", "update"}
    /\ IF CheckHostUnique(hreq[r].addr, hreq[r].id)
       THEN Hold(r, IF hpc[r] = "create" THEN "insert" ELSE "write", hreq[r])
       ELSE Return(r, TRUE)
    /\ UNCHANGED <<hosts, nextHost, entered, alone>>

\* Mutant: nextHost stays.
CreateHostSameId(r) ==
    /\ hpc[r] = "insert"
    /\ nextHost <= MaxHosts
    /\ hosts' = [i \in DOMAIN hosts \cup {nextHost} |->
                     IF i = nextHost THEN [addr |-> hreq[r].addr, pass |-> hreq[r].pass]
                     ELSE hosts[i]]
    /\ entered' = [entered EXCEPT ![nextHost] = {hreq[r].pass}]
    /\ Hold(r, "idle", NoHostReq)
    /\ UNCHANGED <<nextHost, alone>>

CreateHost(r) ==
    /\ hpc[r] = "insert"
    /\ IF IndexAllows(hreq[r].addr, 0)
       THEN /\ NewId <= MaxHosts
            /\ hosts' = [i \in DOMAIN hosts \cup {NewId} |->
                            IF i = NewId THEN [addr |-> hreq[r].addr, pass |-> hreq[r].pass]
                            ELSE hosts[i]]
            /\ nextHost' = NewId + 1
            /\ entered' = [entered EXCEPT ![NewId] = {hreq[r].pass}]
       ELSE UNCHANGED <<hosts, nextHost, entered>>
    /\ Return(r, ~IndexAllows(hreq[r].addr, 0))
    /\ UNCHANGED alone

\* Any positive id is taken: of a host that is there, gone or yet to come.
handleUpdateHost(r, id, a, p) ==
    /\ CheckHostUnique(a, id)
    /\ Start(r, IF p = Keep THEN "old" ELSE "update",
             [NoHostReq EXCEPT !.id = id, !.addr = a, !.pass = p, !.given = p # Keep])
    /\ UNCHANGED <<hosts, nextHost, entered>>

\* Without a row, or when the SELECT fails, the blank or masked password stays
\* and is written as it is.
GetOldPassword(r) ==
    /\ hpc[r] = "old"
    /\ LET id == hreq[r].id IN
       \/ id \in DOMAIN hosts /\ Hold(r, "update", [hreq[r] EXCEPT !.pass = hosts[id].pass])
       \/ Hold(r, "update", hreq[r])
    /\ UNCHANGED <<hosts, nextHost, entered, alone>>

\* A host that is gone is no error.
UpdateHost(r) ==
    /\ hpc[r] = "write"
    /\ LET id == hreq[r].id  a == hreq[r].addr IN
       /\ hosts' = IF id \in DOMAIN hosts /\ IndexAllows(a, id)
                   THEN [hosts EXCEPT ![id] = [addr |-> a, pass |-> hreq[r].pass]]
                   ELSE hosts
       /\ entered' = IF hreq[r].given /\ id \in DOMAIN hosts
                     THEN [entered EXCEPT ![id] = @ \cup {hreq[r].pass}]
                     ELSE entered
       /\ Return(r, id \in DOMAIN hosts /\ ~IndexAllows(a, id))
    /\ UNCHANGED <<nextHost, alone>>

Delete(ids) ==
    /\ hosts' = [i \in DOMAIN hosts \ ids |-> hosts[i]]
    /\ entered' = [i \in Ids |-> IF i \in ids THEN {} ELSE entered[i]]
    /\ alone' = [r \in HostRequests |-> FALSE]
    /\ UNCHANGED <<nextHost, hpc, hreq>>

handleDeleteHost(id) == Delete({id})

\* cleanIDs leaves a set; an empty one is refused.
handleBatchDeleteHost(ids) == ids # {} /\ Delete(ids)

handleImportHostExcel(r, n) ==
    /\ Start(r, "import", [NoHostReq EXCEPT !.import = TRUE, !.rows = n])
    /\ UNCHANGED <<hosts, nextHost, entered>>

\* Mutant: rows without an address are new hosts.
upsertNamed(r, a, p) ==
    /\ hpc[r] = "import"
    /\ hreq[r].rows > 0
    /\ LET row == [hreq[r] EXCEPT !.rows = @ - 1, !.skipped = FALSE, !.addr = a] IN
       IF a # NoAddress /\ Stored(a)
       THEN \E i \in DOMAIN hosts :
               /\ hosts[i].addr = a
               /\ Hold(r, "update", [row EXCEPT !.id = i, !.pass = hosts[i].pass])
       ELSE Hold(r, "create", [row EXCEPT !.pass = p])
    /\ UNCHANGED <<hosts, nextHost, entered, alone>>

\* The list of hosts is read for each row. A host found keeps its password,
\* whatever the file says.
upsertHostBasic(r, a, p) ==
    /\ hpc[r] = "import"
    /\ hreq[r].rows > 0
    /\ LET row == [hreq[r] EXCEPT !.rows = @ - 1, !.skipped = FALSE, !.addr = a] IN
       IF Stored(a)
       THEN \E i \in DOMAIN hosts :
               /\ hosts[i].addr = a
               /\ Hold(r, "update", [row EXCEPT !.id = i, !.pass = hosts[i].pass])
       ELSE Hold(r, "create", [row EXCEPT !.pass = p])
    /\ UNCHANGED <<hosts, nextHost, entered, alone>>

(***************************************************************************)
(* IPMI commands.                                                           *)
(***************************************************************************)
handleBatchIPMI(r, ids) ==
    /\ ids # {}
    /\ Start(r, "power", [NoHostReq EXCEPT !.ids = ids])
    /\ UNCHANGED <<hosts, nextHost, entered>>

\* The commands for one host: power, power status, boot device.
handleIPMIPower(r, id) == handleBatchIPMI(r, {id})

\* A host that is gone or has no address counts as failed.
GetHostByID(r) ==
    /\ hpc[r] = "power"
    /\ \E id \in hreq[r].ids :
          LET rest == [hreq[r] EXCEPT !.ids = @ \ {id}] IN
          IF id \in DOMAIN hosts /\ hosts[id].addr # NoAddress
          THEN Hold(r, "call", [rest EXCEPT !.addr = hosts[id].addr])
          ELSE Hold(r, "power", rest)
    /\ UNCHANGED <<hosts, nextHost, entered, alone>>

\* Mutant: ipmitool runs until the BMC answers.
runCommandPatiently(r) ==
    /\ hpc[r] = "call"
    /\ hreq[r].addr \notin Silent
    /\ Hold(r, "power", [NoHostReq EXCEPT !.ids = hreq[r].ids])
    /\ UNCHANGED <<hosts, nextHost, entered, alone>>

\* ipmitool ends with or without an error, or the context kills it after 10 s.
runCommand(r) ==
    /\ hpc[r] = "call"
    /\ Hold(r, "power", [NoHostReq EXCEPT !.ids = hreq[r].ids])
    /\ UNCHANGED <<hosts, nextHost, entered, alone>>

\* Every row is in, every host commanded: the counts are answered.
Respond(r) ==
    /\ \/ hpc[r] = "import" /\ hreq[r].rows = 0
       \/ hpc[r] = "power" /\ hreq[r].ids = {}
    /\ Hold(r, "idle", NoHostReq)
    /\ alone' = [alone EXCEPT ![r] = FALSE]
    /\ UNCHANGED <<hosts, nextHost, entered>>

HostInit ==
    /\ hosts = [i \in {} |-> 0]
    /\ nextHost = 1
    /\ hpc = [r \in HostRequests |-> "idle"]
    /\ hreq = [r \in HostRequests |-> NoHostReq]
    /\ entered = [i \in Ids |-> {}]
    /\ alone = [r \in HostRequests |-> FALSE]

HostStep(r) ==
    \/ CheckAgain(r) \/ CreateHost(r) \/ GetOldPassword(r) \/ UpdateHost(r)
    \/ \E a \in HostAddr, p \in Passwords : upsertHostBasic(r, a, p)
    \/ GetHostByID(r) \/ runCommand(r) \/ Respond(r)

HostNext ==
    \/ \E r \in HostRequests :
          \/ HostStep(r)
          \/ \E a \in HostAddr, p \in Passwords : handleCreateHost(r, a, p)
          \/ \E id \in Ids, a \in HostAddr, p \in Passwords \cup {Keep} : handleUpdateHost(r, id, a, p)
          \/ \E n \in 0..MaxFile : handleImportHostExcel(r, n)
          \/ \E ids \in SUBSET Ids : handleBatchIPMI(r, ids)
          \/ \E id \in Ids : handleIPMIPower(r, id)
    \/ \E id \in Ids : handleDeleteHost(id)
    \/ \E ids \in SUBSET Ids : handleBatchDeleteHost(ids)

\* A request's goroutine goes on; nothing makes clients send requests or BMCs answer.
HostSpec ==
    HostInit /\ [][HostNext]_hostVars /\ \A r \in HostRequests : WF_hostVars(HostStep(r))

(***************************************************************************)
(* Properties.                                                              *)
(***************************************************************************)
\* No two hosts have the same IPMI address, whatever passes between the checks of
\* the overlapping requests and their statements (comment at handler_host.go:82).
UniqueIPMI ==
    \A i, j \in DOMAIN hosts : i # j => hosts[i].addr # hosts[j].addr

\* A host's password was given for that host: an update or an import that kept a
\* password read earlier never writes it to another host, because the id of a
\* deleted host is never used again (AUTOINCREMENT). The one password nobody gave
\* is the blank or the mask itself, when there was none to keep.
PasswordEntered == \A i \in DOMAIN hosts : hosts[i].pass \in entered[i] \cup {Keep}

\* An import that meets no other request refuses no row and takes no host's
\* address or password away (upsertHostBasic): each row ends with a host that has
\* its address, and the hosts that were there keep theirs, the password too that
\* the row itself brings another for. Rows without an address are one host, the
\* one the index allows: each writes its other columns over those of the last.
ImportReaches ==
    [][\A r \in HostRequests : hreq[r].import /\ alone[r] /\ alone'[r] =>
          /\ \A i \in DOMAIN hosts : i \in DOMAIN hosts' /\ hosts'[i] = hosts[i]
          /\ hpc[r] # "import" /\ hpc'[r] = "import" =>
                /\ ~hreq'[r].skipped
                /\ \E i \in DOMAIN hosts' : hosts'[i].addr = hreq[r].addr]_hostVars

\* Every request ends, also a batch of commands to BMCs that never answer, as
\* long as the model has ids left.
HostRequestsEnd ==
    \A r \in HostRequests : hpc[r] # "idle" ~> hpc[r] = "idle" \/ nextHost > MaxHosts

HostTable == INSTANCE UniqueTable WITH
    Keys  <- HostAddr,
    keyOf <- [i \in DOMAIN hosts |-> hosts[i].addr],
    used  <- 1..nextHost - 1

\* However the requests overlap, host_info is the table its schema declares
\* (AUTOINCREMENT and idx_host_ipmi in db.go): the id a request holds since it read
\* it is the same host's or nobody's, and a change of address takes no other's.
HostsKeepIds == HostTable!Spec

================================================================================
