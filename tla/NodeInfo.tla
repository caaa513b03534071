-------------------------------- MODULE NodeInfo --------------------------------
(***************************************************************************)
(* The resources of the hosts (host_resource) and node-info.txt, the list   *)
(* of them that installed machines download. A request changes the table,   *)
(* lists it and writes the file, in separate steps and without a lock;      *)
(* os.WriteFile empties the file and then writes at its start.              *)
(*                                                                          *)
(* A file is represented by the rows it lists: id -> [addr, val].           *)
(***************************************************************************)
EXTENDS Integers, FiniteSets

CONSTANTS
    NodeRequests,   \* requests that can be in flight at once
    NodeAddresses,  \* IPMI addresses in the first column
    Values,         \* what the other columns hold
    Mixed,          \* a file with parts of two lists, or of one
    NoRow,          \* no row of an import
    MaxResources,   \* highest id of a row (a bound)
    MaxRows         \* rows of an imported file (a bound)

ASSUME MaxResourcesAssumption == MaxResources \in Nat
ASSUME MaxRowsAssumption == MaxRows \in Nat

VARIABLES
    res,        \* host_resource: id -> [addr, val]
    nextRes,    \* AUTOINCREMENT of host_resource
    file,       \* what node-info.txt lists
    npc,        \* where a request is
    nreq,       \* what it holds in memory
    undisturbed,\* history: the request has met no other
    fresh       \* history: see FileCurrent

nodeVars == <<res, nextRes, file, npc, nreq, undisturbed, fresh>>

ResIds == 1..MaxResources
Resource == [addr : NodeAddresses, val : Values]
Tables == UNION {[S -> Resource] : S \in SUBSET ResIds}
NoRows == [i \in {} |-> 0]

NodeReq == [rows : 0..MaxRows,              \* rows of its file to come
            row : Resource \cup {NoRow},    \* the row it looked for
            list : Tables,                  \* what it will write
            all : BOOLEAN]                  \* that was the whole table
NoNodeReq == [rows |-> 0, row |-> NoRow, list |-> NoRows, all |-> FALSE]

NodeTypeOK ==
    /\ res \in Tables
    /\ nextRes \in 1..MaxResources + 1
    /\ \A i \in DOMAIN res : i < nextRes
    /\ file \in Tables \cup {Mixed}
    /\ npc \in [NodeRequests -> {"idle", "rows", "update", "insert", "open", "write"}]
    /\ nreq \in [NodeRequests -> NodeReq]
    /\ undisturbed \in [NodeRequests -> BOOLEAN]
    /\ fresh \in BOOLEAN

NodesIdle == \A q \in NodeRequests : npc[q] = "idle"
Only(S) == [i \in S \cap DOMAIN res |-> res[i]]

Go(q, label, req) ==
    /\ npc' = [npc EXCEPT ![q] = label]
    /\ nreq' = [nreq EXCEPT ![q] = req]

Rows(n) == [NoNodeReq EXCEPT !.rows = n]
Lines(list, all) == [NoNodeReq EXCEPT !.list = list, !.all = all]

\* A request begins; it is undisturbed until another does.
Arrive(q) ==
    /\ npc[q] = "idle"
    /\ undisturbed' = [x \in NodeRequests |-> x = q /\ NodesIdle]
    /\ fresh' = (fresh /\ NodesIdle)

(***************************************************************************)
(* Import, deletion, exports.                                               *)
(***************************************************************************)
handleImportNodeInfoExcel(q, n) ==
    /\ Arrive(q)
    /\ Go(q, "rows", Rows(n))
    /\ UNCHANGED <<res, nextRes, file>>

ResIndexAllows(a) == \A i \in DOMAIN res : res[i].addr # a

\* UpsertHostResource looks for the address of a row; a row without an address or
\* a name has been skipped.
GetHostResourceByIPMI(q, a, v) ==
    /\ npc[q] = "rows"
    /\ nreq[q].rows > 0
    /\ Go(q, IF ResIndexAllows(a) THEN "insert" ELSE "update",
          [Rows(nreq[q].rows - 1) EXCEPT !.row = [addr |-> a, val |-> v]])
    /\ UNCHANGED <<res, nextRes, file, undisturbed, fresh>>

\* UPDATE ... WHERE ipmi_addr: no row when it is gone by now.
UpdateResource(q) ==
    /\ npc[q] = "update"
    /\ res' = [i \in DOMAIN res |-> IF res[i].addr = nreq[q].row.addr THEN nreq[q].row ELSE res[i]]
    /\ Go(q, "rows", Rows(nreq[q].rows))
    /\ UNCHANGED <<nextRes, file, undisturbed, fresh>>

\* Mutant: without AUTOINCREMENT the next id is the highest in use plus one.
ReusedResId ==
    CHOOSE n \in 1..nextRes :
        (\A i \in DOMAIN res : i < n) /\ (n = 1 \/ n - 1 \in DOMAIN res)

NewResId == nextRes

Added(row) == [i \in DOMAIN res \cup {NewResId} |-> IF i = NewResId THEN row ELSE res[i]]

\* Mutant: every row is given the same id.
InsertSameId(q) ==
    /\ npc[q] = "insert"
    /\ nextRes <= MaxResources
    /\ res' = Added(nreq[q].row)
    /\ Go(q, "rows", Rows(nreq[q].rows))
    /\ UNCHANGED <<nextRes, file, undisturbed, fresh>>

\* Mutant: no idx_host_res_ipmi.
InsertAnyway(q) ==
    /\ npc[q] = "insert"
    /\ nextRes <= MaxResources
    /\ res' = Added(nreq[q].row)
    /\ nextRes' = nextRes + 1
    /\ Go(q, "rows", Rows(nreq[q].rows))
    /\ UNCHANGED <<file, undisturbed, fresh>>

\* The unique index may refuse the row by now, which is then skipped.
InsertResource(q) ==
    /\ npc[q] = "insert"
    /\ IF ResIndexAllows(nreq[q].row.addr)
       THEN NewResId <= MaxResources /\ res' = Added(nreq[q].row) /\ nextRes' = NewResId + 1
       ELSE UNCHANGED <<res, nextRes>>
    /\ Go(q, "rows", Rows(nreq[q].rows))
    /\ UNCHANGED <<file, undisturbed, fresh>>

\* Mutant: the file is not written again.
deleteOnly(q, ids) ==
    /\ ids # {}
    /\ Arrive(q)
    /\ res' = Only(DOMAIN res \ ids)
    /\ UNCHANGED <<npc, nreq, nextRes, file>>

\* The ids need not exist, but there must be some.
handleBatchDeleteHostResource(q, ids) ==
    /\ ids # {}
    /\ Arrive(q)
    /\ res' = Only(DOMAIN res \ ids)
    /\ Go(q, "rows", Rows(0))
    /\ UNCHANGED <<nextRes, file>>

\* The import's rows are done, or the deletion: the table is listed.
ListHostResources(q) ==
    /\ npc[q] = "rows"
    /\ nreq[q].rows = 0
    /\ Go(q, "open", Lines(res, TRUE))
    /\ UNCHANGED <<res, nextRes, file, undisturbed, fresh>>

\* The text export answers with the list and writes it to the file too.
handleExportNodeInfoTxt(q) ==
    /\ Arrive(q)
    /\ Go(q, "open", Lines(res, TRUE))
    /\ UNCHANGED <<res, nextRes, file>>

\* The Excel export of a selection leaves only the selection in the file; no
\* selection is the whole list.
handleBatchExportNodeInfoExcel(q, ids) ==
    /\ Arrive(q)
    /\ Go(q, "open", IF ids = {} THEN Lines(res, TRUE) ELSE Lines(Only(ids), FALSE))
    /\ UNCHANGED <<res, nextRes, file>>

(***************************************************************************)
(* writeFileEnsureDir. Its errors are logged and the request goes on.       *)
(***************************************************************************)
OpenFile(q) ==
    /\ npc[q] = "open"
    /\ \/ Go(q, "write", nreq[q]) /\ file' = NoRows /\ UNCHANGED fresh
       \/ Go(q, "idle", NoNodeReq) /\ UNCHANGED file /\ fresh' = FALSE
    /\ UNCHANGED <<res, nextRes, undisturbed>>

\* Writing over what another request wrote since may leave the end of it.
Written(old, new) == {new} \cup (IF old \in {NoRows, new} THEN {} ELSE {Mixed})

WriteFile(q) ==
    /\ npc[q] = "write"
    /\ \/ /\ file' \in Written(file, nreq[q].list)
          /\ fresh' = (undisturbed[q] /\ nreq[q].all)
       \/ file' \in {file, Mixed} /\ fresh' = FALSE
    /\ Go(q, "idle", NoNodeReq)
    /\ UNCHANGED <<res, nextRes, undisturbed>>

\* The process dies; the next one does not write the file at its start.
NodeCrash ==
    /\ npc' = [q \in NodeRequests |-> "idle"]
    /\ nreq' = [q \in NodeRequests |-> NoNodeReq]
    /\ fresh' = (fresh /\ NodesIdle)
    /\ UNCHANGED <<res, nextRes, file, undisturbed>>

NodeInit ==
    /\ res = NoRows
    /\ nextRes = 1
    /\ file = NoRows
    /\ npc = [q \in NodeRequests |-> "idle"]
    /\ nreq = [q \in NodeRequests |-> NoNodeReq]
    /\ undisturbed = [q \in NodeRequests |-> FALSE]
    /\ fresh = FALSE

NodeNext ==
    \/ \E q \in NodeRequests :
          \/ \E n \in 0..MaxRows : handleImportNodeInfoExcel(q, n)
          \/ \E a \in NodeAddresses, v \in Values : GetHostResourceByIPMI(q, a, v)
          \/ UpdateResource(q) \/ InsertResource(q)
          \/ \E ids \in SUBSET ResIds : handleBatchDeleteHostResource(q, ids)
          \/ ListHostResources(q)
          \/ handleExportNodeInfoTxt(q)
          \/ \E ids \in SUBSET ResIds : handleBatchExportNodeInfoExcel(q, ids)
          \/ OpenFile(q) \/ WriteFile(q)
    \/ NodeCrash

NodeSpec == NodeInit /\ [][NodeNext]_nodeVars

(***************************************************************************)
(* Properties.                                                              *)
(***************************************************************************)
\* No two rows have the same address, although an import looks for the address
\* and inserts in two statements (idx_host_res_ipmi).
UniqueResource ==
    \A i, j \in DOMAIN res : i # j => res[i].addr # res[j].addr

\* The file mends itself: a request that meets no other and whose write succeeds
\* leaves the whole table in node-info.txt, however wrong the file was - mixed by
\* overlapping writers, cut by a crash, reduced to a selection - and it stays so
\* as long as requests come one at a time and succeed.
FileCurrent == NodesIdle /\ fresh => file = res

ResourceTable == INSTANCE UniqueTable WITH
    Ids   <- ResIds,
    Keys  <- NodeAddresses,
    keyOf <- [i \in DOMAIN res |-> res[i].addr],
    used  <- 1..nextRes - 1

\* However imports, deletions and crashes interleave, host_resource is the table its
\* schema declares (AUTOINCREMENT and idx_host_res_ipmi in db.go): a page's selection
\* of ids never deletes or exports a row that came after it.
ResourcesKeepIds == ResourceTable!Spec

================================================================================
