---------------------------- MODULE NodeInfo_proofs ----------------------------
(***************************************************************************)
(* Theorems about NodeInfo, for any rows, bounds and number of overlapping  *)
(* requests.                                                                *)
(***************************************************************************)
EXTENDS NodeInfo, TLAPS

\* A row that is looked for is there to be written.
RowThere ==
    \A q \in NodeRequests : npc[q] \in {"update", "insert"} => nreq[q].row \in Resource

\* A request that has met no other is the only one, its list is still the table,
\* and the file it has opened is still empty.
Undisturbed ==
    \A q \in NodeRequests : undisturbed[q] /\ npc[q] # "idle" =>
        /\ \A x \in NodeRequests : x # q => npc[x] = "idle"
        /\ npc[q] \in {"open", "write"} /\ nreq[q].all => nreq[q].list = res
        /\ npc[q] = "write" => file = NoRows

NodeInv ==
    /\ NodeTypeOK
    /\ RowThere
    /\ UniqueResource
    /\ Undisturbed
    /\ FileCurrent

\* NodeTypeOK in its parts.
ResTypes ==
    /\ res \in Tables
    /\ nextRes \in 1..MaxResources + 1
    /\ \A i \in DOMAIN res : i < nextRes
FileType == file \in Tables \cup {Mixed}
NodeLabels == {"idle", "rows", "update", "insert", "open", "write"}
ReqTypes ==
    /\ npc \in [NodeRequests -> NodeLabels]
    /\ nreq \in [NodeRequests -> NodeReq]
HistoryTypes == undisturbed \in [NodeRequests -> BOOLEAN] /\ fresh \in BOOLEAN

LEMMA NodeParts == NodeTypeOK <=> ResTypes /\ FileType /\ ReqTypes /\ HistoryTypes
BY DEF NodeTypeOK, ResTypes, FileType, ReqTypes, HistoryTypes, NodeLabels

LEMMA NodePartsNext ==
  NodeTypeOK' <=> ResTypes' /\ FileType' /\ ReqTypes' /\ HistoryTypes'
BY DEF NodeTypeOK, ResTypes, FileType, ReqTypes, HistoryTypes, NodeLabels

LEMMA TableValues ==
  ASSUME NEW t
  PROVE  t \in Tables <=> /\ t = [i \in DOMAIN t |-> t[i]]
                          /\ DOMAIN t \subseteq ResIds
                          /\ \A i \in DOMAIN t : t[i] \in Resource
BY DEF Tables

LEMMA NoRowsType == NoRows \in Tables
<1>1. DOMAIN NoRows = {} /\ NoRows = [i \in DOMAIN NoRows |-> NoRows[i]]
  BY DEF NoRows
<1> HIDE DEF NoRows
<1> QED
  BY <1>1, TableValues

LEMMA OnlyValues ==
  ASSUME ResTypes, NEW S
  PROVE  /\ Only(S) \in Tables /\ DOMAIN Only(S) \subseteq DOMAIN res
         /\ \A i \in DOMAIN Only(S) : Only(S)[i] = res[i]
<1>1. /\ Only(S) = [i \in DOMAIN Only(S) |-> Only(S)[i]]
      /\ DOMAIN Only(S) \subseteq DOMAIN res
      /\ \A i \in DOMAIN Only(S) : Only(S)[i] = res[i]
  BY DEF Only
<1>2. DOMAIN res \subseteq ResIds /\ \A i \in DOMAIN res : res[i] \in Resource
  BY TableValues DEF ResTypes
<1> HIDE DEF Only
<1>3. DOMAIN Only(S) \subseteq ResIds
  BY <1>1, <1>2
<1>4. \A i \in DOMAIN Only(S) : Only(S)[i] \in Resource
  BY <1>1, <1>2
<1> QED
  BY <1>1, <1>3, <1>4, TableValues

LEMMA RowsType ==
  ASSUME NEW n \in 0..MaxRows
  PROVE  Rows(n) \in NodeReq
BY NoRowsType DEF Rows, NoNodeReq, NodeReq

LEMMA NoNodeReqType == NoNodeReq \in NodeReq
BY NoRowsType, MaxRowsAssumption DEF NoNodeReq, NodeReq

LEMMA LinesType ==
  ASSUME NEW list \in Tables, NEW all \in BOOLEAN
  PROVE  /\ Lines(list, all) \in NodeReq
         /\ Lines(list, all).list = list /\ Lines(list, all).all = all
<1>1. Lines(list, all) \in NodeReq /\ Lines(list, all).list = list
  BY NoNodeReqType DEF Lines, NodeReq
<1>2. Lines(list, all).all = all
  <2>1. PICK b : b = all
    OBVIOUS
  <2>2. [[NoNodeReq EXCEPT !.list = list] EXCEPT !.all = b].all = b
    BY NoNodeReqType DEF NodeReq
  <2> QED
    BY <2>1, <2>2, Zenon DEF Lines
<1> QED
  BY <1>1, <1>2

LEMMA GoValues ==
  ASSUME ReqTypes, NEW q \in NodeRequests, NEW label \in NodeLabels, NEW req \in NodeReq,
         Go(q, label, req)
  PROVE  /\ ReqTypes' /\ npc'[q] = label /\ nreq'[q] = req
         /\ \A x \in NodeRequests : x # q => npc'[x] = npc[x] /\ nreq'[x] = nreq[x]
BY DEF ReqTypes, Go

LEMMA NodeInitInv == NodeInit => NodeInv
<1> SUFFICES ASSUME NodeInit PROVE NodeInv
  OBVIOUS
<1>1. DOMAIN res = {}
  BY DEF NodeInit, NoRows
<1>2. ResTypes /\ FileType
  BY <1>1, NoRowsType, MaxResourcesAssumption DEF NodeInit, ResTypes, FileType
<1>3. ReqTypes /\ HistoryTypes
  BY NoNodeReqType DEF NodeInit, ReqTypes, HistoryTypes, NodeLabels
<1>4. RowThere /\ UniqueResource /\ Undisturbed /\ FileCurrent
  BY <1>1 DEF NodeInit, RowThere, UniqueResource, Undisturbed, FileCurrent
<1> QED
  BY <1>2, <1>3, <1>4, NodeParts DEF NodeInv

(***************************************************************************)
(* Arrivals.                                                                *)
(***************************************************************************)
\* A request arrives, changes the table or not, and goes to read or to write it.
LEMMA Arrivals ==
  ASSUME NodeInv, NEW q \in NodeRequests, Arrive(q),
         NEW label \in {"rows", "open"}, NEW req \in NodeReq, Go(q, label, req),
         ResTypes', UniqueResource', UNCHANGED file,
         label = "open" /\ req.all => req.list = res'
  PROVE  NodeInv'
<1>1. FileType /\ ReqTypes /\ HistoryTypes
  BY NodeParts DEF NodeInv
<1>2. /\ ReqTypes' /\ npc'[q] = label /\ nreq'[q] = req
      /\ \A x \in NodeRequests : x # q => npc'[x] = npc[x] /\ nreq'[x] = nreq[x]
  BY <1>1, GoValues DEF NodeLabels
<1>3. HistoryTypes'
  BY <1>1 DEF Arrive, HistoryTypes, NodesIdle
<1>4. RowThere'
  BY <1>2 DEF NodeInv, RowThere
<1>5. Undisturbed'
  <2> SUFFICES ASSUME NEW y \in NodeRequests, undisturbed'[y], npc'[y] # "idle"
               PROVE  /\ \A x \in NodeRequests : x # y => npc'[x] = "idle"
                      /\ npc'[y] \in {"open", "write"} /\ nreq'[y].all => nreq'[y].list = res'
                      /\ npc'[y] = "write" => file' = NoRows
    BY DEF Undisturbed
  <2>1. y = q /\ NodesIdle
    BY DEF Arrive
  <2> QED
    BY <1>2, <2>1 DEF NodesIdle
<1>6. ~NodesIdle'
  BY <1>2 DEF NodesIdle
<1> QED
  BY <1>1, <1>2, <1>3, <1>4, <1>5, <1>6, NodePartsNext DEF NodeInv, FileCurrent, FileType

LEMMA ImportNodes ==
  ASSUME NodeInv, NEW q \in NodeRequests, NEW n \in 0..MaxRows, handleImportNodeInfoExcel(q, n)
  PROVE  NodeInv'
<1>1. Arrive(q) /\ Go(q, "rows", Rows(n)) /\ UNCHANGED <<res, nextRes, file>>
  BY DEF handleImportNodeInfoExcel
<1>2. ResTypes' /\ UniqueResource'
  BY <1>1, NodeParts DEF NodeInv, ResTypes, UniqueResource
<1>3. PICK x \in NodeReq : x = Rows(n)
  BY RowsType
<1> QED
  BY <1>1, <1>2, <1>3, Arrivals

LEMMA DeleteNodes ==
  ASSUME NodeInv, NEW q \in NodeRequests, NEW ids, handleBatchDeleteHostResource(q, ids)
  PROVE  NodeInv'
<1>1. /\ Arrive(q) /\ Go(q, "rows", Rows(0)) /\ UNCHANGED <<nextRes, file>>
      /\ res' = Only(DOMAIN res \ ids)
  BY DEF handleBatchDeleteHostResource
<1>2. ResTypes
  BY NodeParts DEF NodeInv
<1>3. /\ res' \in Tables /\ DOMAIN res' \subseteq DOMAIN res
      /\ \A i \in DOMAIN res' : res'[i] = res[i]
  BY <1>1, <1>2, OnlyValues
<1>4. ResTypes'
  BY <1>1, <1>2, <1>3 DEF ResTypes
<1>5. UniqueResource'
  BY <1>3 DEF NodeInv, UniqueResource
<1>6. PICK x \in NodeReq : x = Rows(0)
  BY RowsType, MaxRowsAssumption
<1> QED
  BY <1>1, <1>4, <1>5, <1>6, Arrivals

\* The exports: the whole list or a selection.
LEMMA ExportNodes ==
  ASSUME NodeInv, NEW q \in NodeRequests, NEW list \in Tables, NEW all \in BOOLEAN,
         Arrive(q), Go(q, "open", Lines(list, all)), UNCHANGED <<res, nextRes, file>>,
         all => list = res
  PROVE  NodeInv'
<1>1. PICK x \in NodeReq : x = Lines(list, all)
  BY LinesType
<1>2. x.list = list /\ x.all = all
  BY <1>1, LinesType
<1>3. ResTypes' /\ UniqueResource'
  BY NodeParts DEF NodeInv, ResTypes, UniqueResource
<1>4. Go(q, "open", x) /\ (x.all => x.list = res')
  BY <1>1, <1>2
<1> QED
  BY <1>3, <1>4, Arrivals

(***************************************************************************)
(* The steps of a request.                                                  *)
(***************************************************************************)
\* A step among the rows: nothing is listed yet.
LEMMA RowSteps ==
  ASSUME NodeInv, NEW q \in NodeRequests, npc[q] # "idle",
         NEW label \in {"rows", "update", "insert"}, NEW req \in NodeReq, Go(q, label, req),
         label # "rows" => req.row \in Resource,
         ResTypes', UniqueResource', UNCHANGED <<file, undisturbed, fresh>>
  PROVE  NodeInv'
<1>1. FileType /\ ReqTypes /\ HistoryTypes
  BY NodeParts DEF NodeInv
<1>2. /\ ReqTypes' /\ npc'[q] = label /\ nreq'[q] = req
      /\ \A x \in NodeRequests : x # q => npc'[x] = npc[x] /\ nreq'[x] = nreq[x]
  BY <1>1, GoValues DEF NodeLabels
<1>3. RowThere'
  BY <1>2 DEF NodeInv, RowThere
<1>4. Undisturbed'
  <2> SUFFICES ASSUME NEW y \in NodeRequests, undisturbed[y], npc'[y] # "idle"
               PROVE  /\ \A x \in NodeRequests : x # y => npc'[x] = "idle"
                      /\ npc'[y] \in {"open", "write"} /\ nreq'[y].all => nreq'[y].list = res'
                      /\ npc'[y] = "write" => file' = NoRows
    BY DEF Undisturbed
  <2>1. npc[y] # "idle"
    BY <1>2
  <2>2. \A x \in NodeRequests : x # y => npc[x] = "idle"
    BY <2>1 DEF NodeInv, Undisturbed
  <2>3. y = q
    BY <2>2
  <2> QED
    BY <1>2, <2>2, <2>3
<1>5. ~NodesIdle'
  BY <1>2 DEF NodesIdle
<1>6. FileType' /\ HistoryTypes'
  BY <1>1 DEF FileType, HistoryTypes
<1> QED
  BY <1>2, <1>3, <1>4, <1>5, <1>6, NodePartsNext DEF NodeInv, FileCurrent

LEMMA SameRes ==
  ASSUME NodeInv, UNCHANGED <<res, nextRes>>
  PROVE  ResTypes' /\ UniqueResource'
BY NodeParts DEF NodeInv, ResTypes, UniqueResource

LEMMA LookUp ==
  ASSUME NodeInv, NEW q \in NodeRequests, NEW a \in NodeAddresses, NEW v \in Values,
         GetHostResourceByIPMI(q, a, v)
  PROVE  NodeInv'
<1> DEFINE n == nreq[q].rows - 1
           row == [addr |-> a, val |-> v]
           req == [Rows(n) EXCEPT !.row = row]
<1>1. nreq[q] \in NodeReq /\ npc[q] = "rows" /\ nreq[q].rows > 0
  BY NodeParts DEF NodeInv, ReqTypes, GetHostResourceByIPMI
<1>2. n \in 0..MaxRows
  BY <1>1, MaxRowsAssumption DEF NodeReq
<1>3. row \in Resource
  BY DEF Resource
<1> HIDE DEF n, row
<1>4. req \in NodeReq /\ req.row = row
  <2>1. Rows(n) \in NodeReq
    BY <1>2, RowsType
  <2> QED
    BY <1>3, <2>1 DEF NodeReq
<1>5. /\ Go(q, IF ResIndexAllows(a) THEN "insert" ELSE "update", req)
      /\ UNCHANGED <<res, nextRes, file, undisturbed, fresh>>
  BY DEF GetHostResourceByIPMI, n, row
<1> HIDE DEF req
<1>6. PICK x \in NodeReq, l \in {"insert", "update"} :
        x = req /\ l = IF ResIndexAllows(a) THEN "insert" ELSE "update"
  BY <1>4
<1>7. Go(q, l, x) /\ x.row \in Resource
  BY <1>3, <1>4, <1>5, <1>6
<1> QED
  BY <1>1, <1>5, <1>7, SameRes, RowSteps

\* Back to the loop over the rows.
LEMMA NextRow ==
  ASSUME NodeInv, NEW q \in NodeRequests, npc[q] # "idle",
         Go(q, "rows", Rows(nreq[q].rows)), ResTypes', UniqueResource',
         UNCHANGED <<file, undisturbed, fresh>>
  PROVE  NodeInv'
<1>1. nreq[q].rows \in 0..MaxRows
  BY NodeParts DEF NodeInv, ReqTypes, NodeReq
<1>2. PICK x \in NodeReq : x = Rows(nreq[q].rows)
  BY <1>1, RowsType
<1>3. Go(q, "rows", x)
  BY <1>2
<1> QED
  BY <1>3, RowSteps

LEMMA UpdateRow ==
  ASSUME NodeInv, NEW q \in NodeRequests, UpdateResource(q)
  PROVE  NodeInv'
<1> DEFINE row == nreq[q].row
           new == [i \in DOMAIN res |-> IF res[i].addr = row.addr THEN row ELSE res[i]]
<1>1. /\ npc[q] = "update" /\ row \in Resource /\ ResTypes
      /\ res' = new /\ nextRes' = nextRes
      /\ Go(q, "rows", Rows(nreq[q].rows)) /\ UNCHANGED <<file, undisturbed, fresh>>
  BY NodeParts DEF NodeInv, RowThere, UpdateResource
<1>2. DOMAIN res \subseteq ResIds /\ \A i \in DOMAIN res : res[i] \in Resource
  BY <1>1, TableValues DEF ResTypes
<1>3. /\ DOMAIN new = DOMAIN res /\ new = [i \in DOMAIN new |-> new[i]]
      /\ \A i \in DOMAIN res : new[i] \in Resource /\ new[i].addr = res[i].addr
  BY <1>1, <1>2
<1> HIDE DEF new
<1>4. res' \in Tables /\ DOMAIN res' = DOMAIN res
  <2>1. DOMAIN new \subseteq ResIds /\ \A i \in DOMAIN new : new[i] \in Resource
    BY <1>2, <1>3
  <2>2. new \in Tables
    BY <1>3, <2>1, TableValues
  <2> QED
    BY <1>1, <1>3, <2>2
<1>5. ResTypes'
  BY <1>1, <1>4 DEF ResTypes
<1>6. UniqueResource'
  BY <1>1, <1>3 DEF NodeInv, UniqueResource
<1> QED
  BY <1>1, <1>5, <1>6, NextRow

LEMMA InsertRow ==
  ASSUME NodeInv, NEW q \in NodeRequests, InsertResource(q)
  PROVE  NodeInv'
<1>1. /\ npc[q] = "insert" /\ nreq[q].row \in Resource /\ ResTypes
      /\ Go(q, "rows", Rows(nreq[q].rows)) /\ UNCHANGED <<file, undisturbed, fresh>>
  BY NodeParts DEF NodeInv, RowThere, InsertResource
<1>2. CASE ~ResIndexAllows(nreq[q].row.addr)
  <2>1. UNCHANGED <<res, nextRes>>
    BY <1>2 DEF InsertResource
  <2> QED
    BY <1>1, <2>1, SameRes, NextRow
<1>3. CASE ResIndexAllows(nreq[q].row.addr)
  <2> DEFINE row == nreq[q].row
             new == Added(row)
  <2>1. nextRes <= MaxResources /\ res' = new /\ nextRes' = nextRes + 1
    BY <1>3 DEF InsertResource, NewResId
  <2>2. /\ nextRes \in ResIds /\ nextRes \in Nat /\ nextRes' \in 1..MaxResources + 1
        /\ DOMAIN res \subseteq ResIds /\ \A i \in DOMAIN res : res[i] \in Resource
    BY <1>1, <2>1, MaxResourcesAssumption, TableValues DEF ResTypes, ResIds
  <2>3. \A i \in DOMAIN res : i # nextRes /\ i < nextRes'
    BY <1>1, <2>1, <2>2 DEF ResTypes, ResIds
  <2>4. /\ DOMAIN new = DOMAIN res \cup {nextRes} /\ new = [i \in DOMAIN new |-> new[i]]
        /\ new[nextRes] = row /\ \A i \in DOMAIN res : new[i] = res[i]
    BY <2>3 DEF Added, NewResId
  <2> HIDE DEF new
  <2>5. new \in Tables
    <3>1. DOMAIN new \subseteq ResIds /\ \A i \in DOMAIN new : new[i] \in Resource
      BY <1>1, <2>2, <2>4
    <3> QED
      BY <2>4, <3>1, TableValues
  <2>6. ResTypes'
    <3>1. \A i \in DOMAIN res' : i < nextRes'
      BY <2>1, <2>2, <2>3, <2>4
    <3> QED
      BY <2>1, <2>2, <2>5, <3>1 DEF ResTypes
  <2>7. UniqueResource'
    <3>1. \A i \in DOMAIN res : res[i].addr # row.addr
      BY <1>3 DEF ResIndexAllows
    <3> QED
      BY <2>1, <2>4, <3>1 DEF NodeInv, UniqueResource
  <2> QED
    BY <1>1, <2>6, <2>7, NextRow
<1> QED
  BY <1>2, <1>3

\* The table is read, or the file opened: what it holds is the table, if no other
\* request has come in between.
LEMMA WriteSteps ==
  ASSUME NodeInv, NEW q \in NodeRequests, npc[q] # "idle",
         NEW label \in {"open", "write"}, NEW req \in NodeReq, Go(q, label, req),
         UNCHANGED <<res, nextRes, undisturbed, fresh>>, FileType',
         undisturbed[q] /\ req.all => req.list = res,
         label = "write" => file' = NoRows
  PROVE  NodeInv'
<1>1. ReqTypes /\ HistoryTypes
  BY NodeParts DEF NodeInv
<1>2. /\ ReqTypes' /\ npc'[q] = label /\ nreq'[q] = req
      /\ \A x \in NodeRequests : x # q => npc'[x] = npc[x] /\ nreq'[x] = nreq[x]
  BY <1>1, GoValues DEF NodeLabels
<1>3. RowThere'
  BY <1>2 DEF NodeInv, RowThere
<1>4. Undisturbed'
  <2> SUFFICES ASSUME NEW y \in NodeRequests, undisturbed[y], npc'[y] # "idle"
               PROVE  /\ \A x \in NodeRequests : x # y => npc'[x] = "idle"
                      /\ npc'[y] \in {"open", "write"} /\ nreq'[y].all => nreq'[y].list = res'
                      /\ npc'[y] = "write" => file' = NoRows
    BY DEF Undisturbed
  <2>1. npc[y] # "idle"
    BY <1>2
  <2>2. \A x \in NodeRequests : x # y => npc[x] = "idle"
    BY <2>1 DEF NodeInv, Undisturbed
  <2>3. y = q
    BY <2>2
  <2> QED
    BY <1>2, <2>2, <2>3
<1>5. ~NodesIdle'
  BY <1>2 DEF NodesIdle
<1>6. HistoryTypes'
  BY <1>1 DEF HistoryTypes
<1> QED
  BY <1>2, <1>3, <1>4, <1>5, <1>6, SameRes, NodePartsNext DEF NodeInv, FileCurrent

LEMMA ListNodes ==
  ASSUME NodeInv, NEW q \in NodeRequests, ListHostResources(q)
  PROVE  NodeInv'
<1>1. /\ npc[q] = "rows" /\ Go(q, "open", Lines(res, TRUE))
      /\ UNCHANGED <<res, nextRes, file, undisturbed, fresh>>
  BY DEF ListHostResources
<1>2. res \in Tables /\ FileType'
  BY <1>1, NodeParts DEF NodeInv, ResTypes, FileType
<1>3. PICK x \in NodeReq : x = Lines(res, TRUE)
  BY <1>2, LinesType
<1>4. Go(q, "open", x) /\ x.list = res
  BY <1>1, <1>2, <1>3, LinesType
<1> QED
  BY <1>1, <1>2, <1>4, WriteSteps

\* A request ends, and the file is the table or known not to be.
LEMMA Ends ==
  ASSUME NodeInv, NEW q \in NodeRequests, npc[q] # "idle", Go(q, "idle", NoNodeReq),
         UNCHANGED <<res, nextRes, undisturbed>>, FileType', fresh' \in BOOLEAN,
         fresh' => file' = res
  PROVE  NodeInv'
<1>1. ReqTypes /\ HistoryTypes
  BY NodeParts DEF NodeInv
<1>2. /\ ReqTypes' /\ npc'[q] = "idle"
      /\ \A x \in NodeRequests : x # q => npc'[x] = npc[x] /\ nreq'[x] = nreq[x]
  BY <1>1, NoNodeReqType, GoValues DEF NodeLabels
<1>3. RowThere'
  BY <1>2 DEF NodeInv, RowThere
<1>4. Undisturbed'
  <2> SUFFICES ASSUME NEW y \in NodeRequests, undisturbed[y], npc'[y] # "idle"
               PROVE  FALSE
    BY DEF Undisturbed
  <2>1. y # q /\ npc[y] # "idle"
    BY <1>2
  <2> QED
    BY <2>1 DEF NodeInv, Undisturbed
<1>5. HistoryTypes' /\ FileCurrent'
  BY <1>1 DEF HistoryTypes, FileCurrent
<1> QED
  BY <1>2, <1>3, <1>4, <1>5, SameRes, NodePartsNext DEF NodeInv

LEMMA OpenKeeps ==
  ASSUME NodeInv, NEW q \in NodeRequests, OpenFile(q)
  PROVE  NodeInv'
<1>1. npc[q] = "open" /\ UNCHANGED <<res, nextRes, undisturbed>>
  BY DEF OpenFile
<1>2. CASE Go(q, "write", nreq[q]) /\ file' = NoRows /\ UNCHANGED fresh
  <2>1. FileType'
    BY <1>2, NoRowsType DEF FileType
  <2>2. PICK x \in NodeReq : x = nreq[q]
    BY NodeParts DEF NodeInv, ReqTypes
  <2>3. Go(q, "write", x)
    BY <1>2, <2>2
  <2>4. undisturbed[q] /\ x.all => x.list = res
    BY <1>1, <2>2 DEF NodeInv, Undisturbed
  <2> QED
    BY <1>1, <1>2, <2>1, <2>3, <2>4, WriteSteps
<1>3. CASE Go(q, "idle", NoNodeReq) /\ UNCHANGED file /\ fresh' = FALSE
  <2>1. FileType'
    BY <1>3, NodeParts DEF NodeInv, FileType
  <2> QED
    BY <1>1, <1>3, <2>1, Ends
<1> QED
  BY <1>2, <1>3 DEF OpenFile

LEMMA WriteKeeps ==
  ASSUME NodeInv, NEW q \in NodeRequests, WriteFile(q)
  PROVE  NodeInv'
<1>1. /\ npc[q] = "write" /\ UNCHANGED <<res, nextRes, undisturbed>>
      /\ Go(q, "idle", NoNodeReq)
  BY DEF WriteFile
<1>2. FileType /\ nreq[q] \in NodeReq /\ HistoryTypes
  BY NodeParts DEF NodeInv, ReqTypes
<1>3. nreq[q].list \in Tables /\ nreq[q].all \in BOOLEAN /\ undisturbed[q] \in BOOLEAN
  BY <1>2 DEF NodeReq, HistoryTypes
<1>4. CASE file' \in Written(file, nreq[q].list) /\ fresh' = (undisturbed[q] /\ nreq[q].all)
  <2>1. file' \in {nreq[q].list, Mixed}
    BY <1>4 DEF Written
  <2>2. FileType' /\ fresh' \in BOOLEAN
    BY <1>3, <1>4, <2>1 DEF FileType
  <2>3. fresh' => file' = res
    <3> SUFFICES ASSUME undisturbed[q], nreq[q].all PROVE file' = res
      BY <1>4
    <3>1. file = NoRows /\ nreq[q].list = res
      BY <1>1 DEF NodeInv, Undisturbed
    <3> QED
      BY <1>4, <3>1 DEF Written
  <2> QED
    BY <1>1, <2>2, <2>3, Ends
<1>5. CASE file' \in {file, Mixed} /\ fresh' = FALSE
  <2>1. FileType'
    BY <1>2, <1>5 DEF FileType
  <2> QED
    BY <1>1, <1>5, <2>1, Ends
<1> QED
  BY <1>4, <1>5 DEF WriteFile

LEMMA CrashKeeps ==
  ASSUME NodeInv, NodeCrash
  PROVE  NodeInv'
<1>1. ResTypes /\ FileType /\ HistoryTypes
  BY NodeParts DEF NodeInv
<1>2. /\ npc' = [q \in NodeRequests |-> "idle"] /\ nreq' = [q \in NodeRequests |-> NoNodeReq]
      /\ fresh' = (fresh /\ NodesIdle) /\ UNCHANGED <<res, nextRes, file, undisturbed>>
  BY DEF NodeCrash
<1>3. ReqTypes' /\ FileType' /\ HistoryTypes'
  BY <1>1, <1>2, NoNodeReqType DEF ReqTypes, FileType, HistoryTypes, NodeLabels, NodesIdle
<1>4. RowThere' /\ Undisturbed'
  BY <1>2 DEF RowThere, Undisturbed
<1>5. FileCurrent'
  BY <1>2 DEF NodeInv, FileCurrent
<1> QED
  BY <1>2, <1>3, <1>4, <1>5, SameRes, NodePartsNext DEF NodeInv

(***************************************************************************)
(* The theorems.                                                            *)
(***************************************************************************)
LEMMA NodeNextInv == NodeInv /\ [NodeNext]_nodeVars => NodeInv'
<1> SUFFICES ASSUME NodeInv, [NodeNext]_nodeVars PROVE NodeInv'
  OBVIOUS
<1>1. CASE UNCHANGED nodeVars
  BY <1>1 DEF nodeVars, NodeInv, NodeTypeOK, RowThere, UniqueResource, Undisturbed,
              FileCurrent, NodesIdle
<1>2. ASSUME NEW q \in NodeRequests, NEW n \in 0..MaxRows, handleImportNodeInfoExcel(q, n)
      PROVE  NodeInv'
  BY <1>2, ImportNodes
<1>3. ASSUME NEW q \in NodeRequests, NEW a \in NodeAddresses, NEW v \in Values,
             GetHostResourceByIPMI(q, a, v)
      PROVE  NodeInv'
  BY <1>3, LookUp
<1>4. ASSUME NEW q \in NodeRequests,
             \/ UpdateResource(q) \/ InsertResource(q) \/ ListHostResources(q)
             \/ OpenFile(q) \/ WriteFile(q)
      PROVE  NodeInv'
  BY <1>4, UpdateRow, InsertRow, ListNodes, OpenKeeps, WriteKeeps
<1>5. ASSUME NEW q \in NodeRequests, NEW ids, handleBatchDeleteHostResource(q, ids)
      PROVE  NodeInv'
  BY <1>5, DeleteNodes
<1>6. ASSUME NEW q \in NodeRequests, handleExportNodeInfoTxt(q)
      PROVE  NodeInv'
  <2>1. res \in Tables
    BY NodeParts DEF NodeInv, ResTypes
  <2> QED
    BY <1>6, <2>1, ExportNodes DEF handleExportNodeInfoTxt
<1>7. ASSUME NEW q \in NodeRequests, NEW ids, handleBatchExportNodeInfoExcel(q, ids)
      PROVE  NodeInv'
  <2>1. res \in Tables /\ Only(ids) \in Tables
    BY NodeParts, OnlyValues DEF NodeInv, ResTypes
  <2>2. Arrive(q) /\ UNCHANGED <<res, nextRes, file>>
    BY <1>7 DEF handleBatchExportNodeInfoExcel
  <2>3. CASE ids = {}
    <3>1. Go(q, "open", Lines(res, TRUE))
      BY <1>7, <2>3 DEF handleBatchExportNodeInfoExcel
    <3> QED
      BY <2>1, <2>2, <3>1, ExportNodes
  <2>4. CASE ids # {}
    <3>1. Go(q, "open", Lines(Only(ids), FALSE))
      BY <1>7, <2>4 DEF handleBatchExportNodeInfoExcel
    <3>2. PICK list \in Tables : list = Only(ids)
      BY <2>1
    <3> QED
      BY <2>2, <3>1, <3>2, ExportNodes
  <2> QED
    BY <2>3, <2>4
<1> QED
  BY <1>1, <1>2, <1>3, <1>4, <1>5, <1>6, <1>7, CrashKeeps DEF NodeNext

LEMMA NodeInvAlways == NodeSpec => []NodeInv
<1>1. NodeInit => NodeInv
  BY NodeInitInv
<1>2. NodeInv /\ [NodeNext]_nodeVars => NodeInv'
  BY NodeNextInv
<1> QED
  BY <1>1, <1>2, PTL DEF NodeSpec

\* host_resource, the file and the requests keep their types, for any number of
\* requests.
THEOREM NodeTypeCorrect == NodeSpec => []NodeTypeOK
<1>1. NodeInv => NodeTypeOK
  BY DEF NodeInv
<1> QED
  BY <1>1, NodeInvAlways, PTL

\* Overlapping imports never leave two rows with one address: the INSERT of
\* UpsertHostResource is refused when another request has added the address since.
THEOREM ResourcesStayUnique == NodeSpec => []UniqueResource
<1>1. NodeInv => UniqueResource
  BY DEF NodeInv
<1> QED
  BY <1>1, NodeInvAlways, PTL

\* After any history of overlapping writers, failed writes and crashes, one request
\* on its own that writes the whole list makes node-info.txt right, and it stays
\* right as long as requests come one at a time and succeed.
THEOREM FileMends == NodeSpec => []FileCurrent
<1>1. NodeInv => FileCurrent
  BY DEF NodeInv
<1> QED
  BY <1>1, NodeInvAlways, PTL

(***************************************************************************)
(* host_resource implements UniqueTable.                                    *)
(***************************************************************************)
ResKeys == [i \in DOMAIN res |-> res[i].addr]
ResUsed == 1..nextRes - 1

LEMMA SameKeys ==
  ASSUME DOMAIN res' = DOMAIN res, \A i \in DOMAIN res : res'[i].addr = res[i].addr,
         nextRes' = nextRes
  PROVE  UNCHANGED <<ResKeys, ResUsed>>
BY DEF ResKeys, ResUsed

LEMMA UpdateMaps ==
  ASSUME NEW q \in NodeRequests, UpdateResource(q)
  PROVE  UNCHANGED <<ResKeys, ResUsed>>
<1> DEFINE row == nreq[q].row
           new == [i \in DOMAIN res |-> IF res[i].addr = row.addr THEN row ELSE res[i]]
<1>1. res' = new /\ nextRes' = nextRes
  BY DEF UpdateResource
<1>2. DOMAIN new = DOMAIN res /\ \A i \in DOMAIN res : new[i].addr = res[i].addr
  OBVIOUS
<1> HIDE DEF new
<1> QED
  BY <1>1, <1>2, SameKeys

LEMMA RemovalMaps ==
  ASSUME ResTypes, NEW ids \in SUBSET ResIds, res' = Only(DOMAIN res \ ids), nextRes' = nextRes
  PROVE  ResourceTable!Next
<1>1. DOMAIN res' = DOMAIN res \ ids /\ \A i \in DOMAIN res' : res'[i] = res[i]
  BY DEF Only
<1>2. DOMAIN ResKeys = DOMAIN res /\ \A i \in DOMAIN res : ResKeys[i] = res[i].addr
  BY DEF ResKeys
<1>3. ResKeys' = [i \in DOMAIN ResKeys \ ids |-> ResKeys[i]]
  BY <1>1, <1>2 DEF ResKeys
<1>4. UNCHANGED ResUsed
  BY DEF ResUsed
<1>5. ResourceTable!Remove(ids)
  BY <1>3, <1>4 DEF ResourceTable!Remove, ResKeys, ResUsed
<1> QED
  BY <1>5 DEF ResourceTable!Next

LEMMA InsertMaps ==
  ASSUME NodeInv, NEW q \in NodeRequests, InsertResource(q),
         ResIndexAllows(nreq[q].row.addr)
  PROVE  ResourceTable!Next
<1> DEFINE row == nreq[q].row
<1>1. row \in Resource /\ ResTypes
  BY NodeParts DEF NodeInv, RowThere, InsertResource
<1>2. nextRes <= MaxResources /\ res' = Added(row) /\ nextRes' = nextRes + 1
  BY DEF InsertResource, NewResId
<1>3. nextRes \in ResIds /\ row.addr \in NodeAddresses
  BY <1>1, <1>2, MaxResourcesAssumption DEF ResTypes, ResIds, Resource
<1>4. PICK n \in ResIds, a \in NodeAddresses : n = nextRes /\ a = row.addr
  BY <1>3
<1>5. n \in Nat /\ n \notin DOMAIN res /\ n \notin ResUsed
  BY <1>1, <1>4, MaxResourcesAssumption DEF ResTypes, ResIds, ResUsed
<1>6. /\ DOMAIN res' = DOMAIN res \cup {n} /\ res'[n] = row
      /\ \A i \in DOMAIN res : res'[i] = res[i]
  BY <1>2, <1>4, <1>5 DEF Added, NewResId
<1>7. DOMAIN ResKeys = DOMAIN res /\ \A i \in DOMAIN res : ResKeys[i] = res[i].addr
  BY DEF ResKeys
<1>8. ~\E i \in DOMAIN ResKeys : ResKeys[i] = a
  BY <1>4, <1>7 DEF ResIndexAllows
<1>9. ResKeys' = [j \in DOMAIN ResKeys \cup {n} |-> IF j = n THEN a ELSE ResKeys[j]]
  <2>1. ResKeys' = [j \in DOMAIN res' |-> res'[j].addr]
    BY DEF ResKeys
  <2>2. \A j \in DOMAIN res' : res'[j].addr = IF j = n THEN a ELSE ResKeys[j]
    BY <1>4, <1>5, <1>6, <1>7
  <2> QED
    BY <1>6, <1>7, <2>1, <2>2
<1>10. ResUsed' = ResUsed \cup {n}
  <2>1. n \in 1..MaxResources /\ nextRes = n /\ nextRes' = n + 1
    BY <1>2, <1>4 DEF ResIds
  <2>2. ResUsed = 1..n - 1 /\ ResUsed' = 1..n
    BY <2>1, MaxResourcesAssumption DEF ResUsed
  <2>3. 1..n = (1..n - 1) \cup {n}
    BY <2>1, MaxResourcesAssumption
  <2> QED
    BY <2>2, <2>3
<1>11. PICK f \in [{n} -> NodeAddresses] : f = [j \in {n} |-> a]
  OBVIOUS
<1>12. DOMAIN f = {n} /\ f[n] = a
  BY <1>11
<1>13. ResKeys' = [j \in DOMAIN ResKeys \cup DOMAIN f |-> IF j \in DOMAIN f THEN f[j] ELSE ResKeys[j]]
  BY <1>9, <1>12
<1>14. ResourceTable!Insert(f)
  BY <1>5, <1>8, <1>10, <1>12, <1>13 DEF ResourceTable!Insert, ResourceTable!Taken, ResKeys, ResUsed
<1>15. {n} \in SUBSET ResIds
  OBVIOUS
<1> QED
  BY <1>14, <1>15 DEF ResourceTable!Next

LEMMA NodeStepMaps ==
  ASSUME NodeInv, [NodeNext]_nodeVars
  PROVE  ResourceTable!Next \/ UNCHANGED <<ResKeys, ResUsed>>
<1>1. CASE UNCHANGED nodeVars \/ NodeCrash
  BY <1>1, SameKeys DEF nodeVars, NodeCrash
<1>2. CASE \E q \in NodeRequests :
             \/ \E n \in 0..MaxRows : handleImportNodeInfoExcel(q, n)
             \/ \E a \in NodeAddresses, v \in Values : GetHostResourceByIPMI(q, a, v)
             \/ ListHostResources(q)
             \/ handleExportNodeInfoTxt(q)
             \/ \E ids \in SUBSET ResIds : handleBatchExportNodeInfoExcel(q, ids)
             \/ OpenFile(q) \/ WriteFile(q)
  <2>1. UNCHANGED <<res, nextRes>>
    BY <1>2 DEF handleImportNodeInfoExcel, GetHostResourceByIPMI, ListHostResources,
                handleExportNodeInfoTxt, handleBatchExportNodeInfoExcel, OpenFile, WriteFile
  <2> QED
    BY <2>1, SameKeys
<1>3. CASE \E q \in NodeRequests : UpdateResource(q)
  BY <1>3, UpdateMaps
<1>4. CASE \E q \in NodeRequests : InsertResource(q)
  <2>1. PICK q \in NodeRequests : InsertResource(q)
    BY <1>4
  <2>2. CASE ResIndexAllows(nreq[q].row.addr)
    BY <2>1, <2>2, InsertMaps
  <2>3. CASE ~ResIndexAllows(nreq[q].row.addr)
    BY <2>1, <2>3, SameKeys DEF InsertResource
  <2> QED
    BY <2>2, <2>3
<1>5. CASE \E q \in NodeRequests, ids \in SUBSET ResIds : handleBatchDeleteHostResource(q, ids)
  <2>1. ResTypes
    BY NodeParts DEF NodeInv
  <2> QED
    BY <1>5, <2>1, RemovalMaps DEF handleBatchDeleteHostResource
<1> QED
  BY <1>1, <1>2, <1>3, <1>4, <1>5 DEF NodeNext

\* Every behaviour of the imports, deletions, exports and crashes is one of a table
\* whose ids are never given twice and whose addresses are unique: each statement is
\* an insertion of a fresh id, a removal, or changes no address.
THEOREM ResourcesAreATable == NodeSpec => ResourcesKeepIds
<1>1. NodeInit => ResourceTable!Init
  BY MaxResourcesAssumption DEF NodeInit, NoRows, ResourceTable!Init
<1>2. NodeInv /\ [NodeNext]_nodeVars => [ResourceTable!Next]_<<ResKeys, ResUsed>>
  BY NodeStepMaps
<1>3. <<ResKeys, ResUsed>> = <<[i \in DOMAIN res |-> res[i].addr], 1..nextRes - 1>>
  BY DEF ResKeys, ResUsed
<1> QED
  BY <1>1, <1>2, <1>3, NodeInvAlways, PTL
     DEF NodeSpec, ResourcesKeepIds, ResourceTable!Spec, ResKeys, ResUsed

===============================================================================
