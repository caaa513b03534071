----------------------------- MODULE ActiveStore -----------------------------
(***************************************************************************)
(* The three tables that hold what a machine boots and installs from, each  *)
(* with one row in force: ks_template, ipxe_script and deploy_script, their *)
(* handlers (handler_ks.go, handler_ipxe.go, handler_deploy.go), and the    *)
(* file each one keeps on disk (web_root/ks.cfg, tftp_root/autoexec.ipxe,   *)
(* web_root/deploy.sh). A behaviour is about one of them, its kind.         *)
(*                                                                          *)
(* A SQL statement is one step, and so is the write of a file. A content    *)
(* has the placeholder @@PXE_SERVER@@ in it; the file remembers which       *)
(* address took its place, or Raw when none did. Names, the check that a    *)
(* KS template's name is new, and passwords are left out.                   *)
(***************************************************************************)
EXTENDS Integers, FiniteSets

CONSTANTS
    Kinds,       \* tables a behaviour may be about
    Admins,      \* requests that may be in flight at once (a bound of the model)
    Contents,    \* what an administrator may save
    BuiltIn,     \* the default row's content
    IPs,         \* values of dhcp_pxe_ip
    MaxId,       \* highest id a row is given (a bound)
    Faults       \* TRUE: a statement or a file write may fail

Raw == "raw"
NoText == "none"
AllKinds == {"ks", "ipxe", "deploy"}

ASSUME KindsAssumption == Kinds \subseteq AllKinds
ASSUME ContentsAssumption == NoText \notin Contents \cup {BuiltIn}
ASSUME MaxIdAssumption == MaxId \in Nat \ {0}
ASSUME FaultsAssumption == Faults \in BOOLEAN

VARIABLES
    kind,       \* which table
    rows,       \* id -> row
    nextId,     \* AUTOINCREMENT: an id is never used twice
    copy,       \* the file on disk
    pxeIP,      \* cfg.DHCP().PXEIP
    spc, req,    \* a request: where its handler is and what it holds
    hurt,       \* a request failed or died half-way since the last activation
    overlapped  \* a request was started while another was in flight (a history variable)

storeVars == <<kind, rows, nextId, copy, pxeIP>>
activeVars == <<kind, rows, nextId, copy, pxeIP, spc, req, hurt, overlapped>>

Text == Contents \cup {BuiltIn}
NoFile == [text |-> NoText, ip |-> Raw]
StoreRow == [text : Text, active : BOOLEAN, default : BOOLEAN]
NoReq == [id |-> 0, text |-> NoText, fill |-> TRUE]
StoreSteps == {"idle", "created", "update", "sync", "delete", "ensure", "pick",
          "clear", "set", "reread", "write"}

Active == {i \in DOMAIN rows : rows[i].active}

StoreTypeOK ==
    /\ kind \in Kinds
    /\ nextId \in 1..MaxId + 1
    /\ DOMAIN rows \subseteq 1..nextId - 1
    /\ \A i \in DOMAIN rows : rows[i] \in StoreRow
    /\ copy \in [text : Text \cup {NoText}, ip : IPs \cup {Raw}]
    /\ pxeIP \in IPs
    /\ spc \in [Admins -> StoreSteps]
    /\ req \in [Admins -> [id : 0..MaxId, text : Text \cup {NoText}, fill : BOOLEAN]]
    /\ hurt \in BOOLEAN
    /\ overlapped \in BOOLEAN
    /\ \A a \in Admins :
          /\ spc[a] \in {"update", "sync", "write"} => req[a].text # NoText
          /\ spc[a] \in {"created", "update", "delete"} => req[a].id < nextId

(***************************************************************************)
(* StoreSteps of a request.                                                      *)
(***************************************************************************)
Advance(a, label) == spc' = [spc EXCEPT ![a] = label]

Load(a, id, text, fill) ==
    req' = [req EXCEPT ![a] = [id |-> id, text |-> text, fill |-> fill]]

Done(a) == Advance(a, "idle") /\ req' = [req EXCEPT ![a] = NoReq]

Quiet == \A a \in Admins : spc[a] = "idle"

\* Nothing keeps a request waiting for another.
StartRequest(a) ==
    /\ spc[a] = "idle"
    /\ overlapped' = (overlapped \/ ~Quiet)

\* Mutant: the default row is like any other.
EditableAny(i) == i \in DOMAIN rows

Editable(i) == i \in DOMAIN rows /\ ~rows[i].default

\* A new row is not in force; a deploy script is left at that.
Create(a, t) ==
    /\ StartRequest(a)
    /\ nextId <= MaxId
    /\ nextId' = nextId + 1
    /\ rows' = [i \in DOMAIN rows \cup {nextId} |->
                  IF i = nextId THEN [text |-> t, active |-> FALSE, default |-> FALSE]
                  ELSE rows[i]]
    /\ IF kind = "deploy" THEN Done(a)
       ELSE Advance(a, "created") /\ Load(a, nextId, NoText, TRUE)
    /\ UNCHANGED <<kind, copy, pxeIP, hurt>>

\* It is put in force when nothing is.
Created(a) ==
    /\ spc[a] = "created"
    /\ IF Active = {} THEN Advance(a, "clear") /\ UNCHANGED req ELSE Done(a)
    /\ UNCHANGED <<storeVars, hurt, overlapped>>

\* Update and DeleteEntry first read the row: a missing or a default one ends it.
Update(a, id, t) ==
    /\ StartRequest(a)
    /\ Editable(id)
    /\ Advance(a, "update")
    /\ Load(a, id, t, TRUE)
    /\ UNCHANGED <<storeVars, hurt>>

\* A row deleted in the meantime is updated to no effect.
SaveRow(a) ==
    /\ spc[a] = "update"
    /\ rows' = [i \in DOMAIN rows |->
                  IF i = req[a].id THEN [rows[i] EXCEPT !.text = req[a].text] ELSE rows[i]]
    /\ IF kind = "deploy" THEN Done(a) ELSE Advance(a, "sync") /\ UNCHANGED req
    /\ UNCHANGED <<kind, nextId, copy, pxeIP, hurt, overlapped>>

\* Mutant: the file is left alone when the row in force is edited.
SyncNever(a) ==
    /\ spc[a] = "sync"
    /\ Done(a)
    /\ UNCHANGED <<storeVars, hurt, overlapped>>

\* The row in force is written to its file; for KS with its placeholders in it.
\* GetActive has LIMIT 1 and no order: of two rows in force it may see either.
Sync(a) ==
    /\ spc[a] = "sync"
    /\ \/ /\ req[a].id \in Active
          /\ Advance(a, "write")
          /\ Load(a, req[a].id, req[a].text, kind # "ks")
       \/ /\ Active # {req[a].id}
          /\ Done(a)
    /\ UNCHANGED <<storeVars, hurt, overlapped>>

DeleteEntry(a, id) ==
    /\ StartRequest(a)
    /\ Editable(id)
    /\ Advance(a, "delete")
    /\ Load(a, id, NoText, TRUE)
    /\ UNCHANGED <<storeVars, hurt>>

DeleteRow(a) ==
    /\ spc[a] = "delete"
    /\ rows' = [i \in DOMAIN rows \ {req[a].id} |-> rows[i]]
    /\ Advance(a, "ensure")
    /\ UNCHANGED <<kind, nextId, copy, pxeIP, req, hurt, overlapped>>

\* Mutant: nothing takes the place of a deleted row that was in force.
EnsureNever(a) ==
    /\ spc[a] = "ensure"
    /\ Done(a)
    /\ UNCHANGED <<storeVars, hurt, overlapped>>

\* ensureKSTemplateActive and its twins: is a row in force?
Ensure(a) ==
    /\ spc[a] = "ensure"
    /\ IF Active = {} THEN Advance(a, "pick") /\ UNCHANGED req ELSE Done(a)
    /\ UNCHANGED <<storeVars, hurt, overlapped>>

\* The default row, else the newest. The list is read after the check.
Heir ==
    LET defaults == {i \in DOMAIN rows : rows[i].default}
        pool == IF defaults = {} THEN DOMAIN rows ELSE defaults
    IN  CHOOSE i \in pool : \A j \in pool : j <= i

Pick(a) ==
    /\ spc[a] = "pick"
    /\ IF DOMAIN rows = {} THEN Done(a)
       ELSE /\ Advance(a, "clear")
            /\ Load(a, Heir, NoText, kind # "deploy")
    /\ UNCHANGED <<storeVars, hurt, overlapped>>

\* The administrator names any id: the page may be older than the table.
SetActive(a, id) ==
    /\ StartRequest(a)
    /\ Advance(a, "clear")
    /\ Load(a, id, NoText, TRUE)
    /\ UNCHANGED <<storeVars, hurt>>

\* Mutant: the rows in force are not cleared first.
ClearNothing(a) ==
    /\ spc[a] = "clear"
    /\ Advance(a, "set")
    /\ UNCHANGED <<storeVars, req, hurt, overlapped>>

\* UPDATE ... SET active=0
Clear(a) ==
    /\ spc[a] = "clear"
    /\ rows' = [i \in DOMAIN rows |-> [rows[i] EXCEPT !.active = FALSE]]
    /\ Advance(a, "set")
    /\ UNCHANGED <<kind, nextId, copy, pxeIP, req, hurt, overlapped>>

\* UPDATE ... SET active=1 WHERE id=?; ensureDeployScriptActive stops here.
Set(a) ==
    /\ spc[a] = "set"
    /\ rows' = [i \in DOMAIN rows |->
                  IF i = req[a].id THEN [rows[i] EXCEPT !.active = TRUE] ELSE rows[i]]
    /\ IF req[a].fill THEN Advance(a, "reread") /\ UNCHANGED req ELSE Done(a)
    /\ UNCHANGED <<kind, nextId, copy, pxeIP, hurt, overlapped>>

\* Mutant: the row is not read back.
RereadBlind(a) ==
    /\ spc[a] = "reread"
    /\ Advance(a, "write")
    /\ UNCHANGED <<storeVars, req, hurt, overlapped>>

\* The row is read back: the request fails here when its id does not exist.
Reread(a) ==
    /\ spc[a] = "reread"
    /\ \/ /\ req[a].id \in DOMAIN rows
          /\ Advance(a, "write")
          /\ Load(a, req[a].id, rows[req[a].id].text, kind # "deploy")
          /\ UNCHANGED hurt
       \/ /\ req[a].id \notin DOMAIN rows
          /\ Done(a)
          /\ hurt' = TRUE
    /\ UNCHANGED <<storeVars, overlapped>>

\* replacePXEPlaceholder and writeFileEnsureDir.
WriteCopy(a) ==
    /\ spc[a] = "write"
    /\ copy' = [text |-> req[a].text, ip |-> IF req[a].fill THEN pxeIP ELSE Raw]
    /\ hurt' = (hurt /\ Active # {req[a].id})
    /\ Done(a)
    /\ UNCHANGED <<kind, rows, nextId, pxeIP, overlapped>>

\* A statement or a file write fails: the handler answers or logs and ends.
Fail(a) ==
    /\ Faults
    /\ spc[a] \in {"update", "delete", "clear", "set", "write"}
    /\ Done(a)
    /\ hurt' = TRUE
    /\ UNCHANGED <<storeVars, overlapped>>

(***************************************************************************)
(* The rest of the system.                                                  *)
(***************************************************************************)
\* PUT /api/config/dhcp and the reload of the cache (ConfigReload).
ChangeIP(ip) ==
    /\ pxeIP' = ip
    /\ UNCHANGED <<kind, rows, nextId, copy, spc, req, hurt, overlapped>>

Requests(a) ==
    \/ \E t \in Contents : Create(a, t)
    \/ \E id \in 1..MaxId : \/ DeleteEntry(a, id) \/ SetActive(a, id)
                            \/ \E t \in Contents : Update(a, id, t)

Handle(a) ==
    \/ Created(a) \/ SaveRow(a) \/ Sync(a)
    \/ DeleteRow(a) \/ Ensure(a) \/ Pick(a)
    \/ Clear(a) \/ Set(a) \/ Reread(a) \/ WriteCopy(a)

\* EnsureDefaultKSTemplate and its twins: the default row is given its content,
\* or inserted, in force, when it is missing. The copy is not written.
HasDefault(t) == \E i \in DOMAIN t : t[i].default

EnsureDefault(t, id) ==
    IF HasDefault(t)
    THEN [i \in DOMAIN t |-> IF t[i].default THEN [t[i] EXCEPT !.text = BuiltIn] ELSE t[i]]
    ELSE [i \in DOMAIN t \cup {id} |->
            IF i = id THEN [text |-> BuiltIn, active |-> TRUE, default |-> TRUE] ELSE t[i]]

NoEntries == [i \in {} |-> NoReq]

\* The first start finds empty tables.
StoreInit ==
    /\ kind \in Kinds
    /\ rows = EnsureDefault(NoEntries, 1)
    /\ nextId = 2
    /\ copy = NoFile
    /\ pxeIP \in IPs
    /\ spc = [a \in Admins |-> "idle"]
    /\ req = [a \in Admins |-> NoReq]
    /\ hurt = FALSE
    /\ overlapped = FALSE

\* The process dies and starts again.
RestartStore ==
    /\ rows' = EnsureDefault(rows, nextId)
    /\ nextId' = IF HasDefault(rows) THEN nextId ELSE nextId + 1
    /\ spc' = [a \in Admins |-> "idle"]
    /\ req' = [a \in Admins |-> NoReq]
    /\ hurt' = (hurt \/ \E a \in Admins : spc[a] # "idle")
    /\ UNCHANGED <<kind, copy, pxeIP, overlapped>>

StoreNext ==
    \/ \E a \in Admins : Requests(a) \/ Handle(a) \/ Fail(a)
    \/ \E ip \in IPs : ChangeIP(ip)
    \/ RestartStore

StoreSpec == StoreInit /\ [][StoreNext]_activeVars

(***************************************************************************)
(* Properties.                                                              *)
(***************************************************************************)
\* What the code says of itself: at most one row is in force.
OneInForce == \A i, j \in Active : i = j

\* As long as no two requests have overlapped at most one row is in force, at
\* every moment of a request, also after a failed statement or a crash between
\* the two that SetActive issues.
AtMostOneActive == ~overlapped => OneInForce

\* As long as no two requests have overlapped there is a row in force between
\* requests: deleting it, or the first of a table without one, sees to that. A
\* failed or killed request, or one that names a row that is gone, leaves none
\* until the next activation.
SomeActive == Quiet /\ ~hurt /\ ~overlapped => Active # {}

\* As long as no two requests have overlapped the file on disk, once written,
\* has the content of the row in force between requests (KS and iPXE:
\* handleUpdate, handleDelete, handleSetActive, activate).
FileFollowsActive ==
    Quiet /\ ~hurt /\ ~overlapped /\ copy # NoFile /\ kind # "deploy" =>
        \E i \in Active : copy.text = rows[i].text

\* There is exactly one default row and no request changes or deletes it,
\* however the reads that protect it interleave with other requests and with
\* the starts that write it back.
DefaultIntact ==
    \E i \in DOMAIN rows :
        /\ rows[i].default /\ rows[i].text = BuiltIn
        /\ \A j \in DOMAIN rows : rows[j].default => i = j

\* A machine that boots from the script in force is sent to the current PXE
\* server: readHandler can only fill in a placeholder that is still there.
ServesCurrentServer ==
    Quiet /\ ~hurt /\ copy # NoFile => copy.ip \in {Raw, pxeIP}

\* The KS preview (handleRenderActiveKS, which prefers the file on disk) shows
\* the template in force with its placeholders filled in.
PreviewFilled ==
    Quiet /\ ~hurt /\ copy # NoFile /\ kind = "ks" => copy.ip # Raw

===============================================================================
