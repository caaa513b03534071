-------------------------- MODULE ActiveStore_proofs --------------------------
(***************************************************************************)
(* Theorems about ActiveStore, for any contents, bounds and kinds of table. *)
(* TypeCorrect and DefaultStaysIntact hold however many requests overlap;   *)
(* the others hold until two requests do.                                   *)
(***************************************************************************)
EXTENDS ActiveStore, TLAPS

\* The row a request has found editable is not the default one when the request
\* comes to write it, or is gone: ids are not used twice.
EditsOther ==
    \A a \in Admins : spc[a] \in {"update", "delete"} /\ req[a].id \in DOMAIN rows =>
        ~rows[req[a].id].default

StoreInv == StoreTypeOK /\ DefaultIntact /\ EditsOther

ReqType == [id : 0..MaxId, text : Text \cup {NoText}, fill : BOOLEAN]

LEMMA NullTypes == NoReq \in ReqType /\ NoFile \in [text : Text \cup {NoText}, ip : IPs \cup {Raw}]
BY MaxIdAssumption DEF NoReq, ReqType, NoFile

\* With one default row, that row is the heir.
LEMMA HeirIsDefault ==
  ASSUME StoreTypeOK, DefaultIntact
  PROVE  Heir \in DOMAIN rows /\ rows[Heir].default
<1>1. PICK d \in DOMAIN rows : rows[d].default /\ \A j \in DOMAIN rows : rows[j].default => d = j
  BY DEF DefaultIntact
<1>2. {i \in DOMAIN rows : rows[i].default} = {d}
  BY <1>1
<1>3. d \in Nat
  BY <1>1 DEF StoreTypeOK
<1>4. \E i \in {d} : \A j \in {d} : j <= i
  BY <1>3
<1>5. Heir = CHOOSE i \in {d} : \A j \in {d} : j <= i
  BY <1>2 DEF Heir
<1> QED
  BY <1>1, <1>4, <1>5

\* What StoreInit and RestartStore make of a table without and with a default row.
LEMMA EnsureKeeps ==
  ASSUME NEW t, HasDefault(t), NEW id
  PROVE  /\ DOMAIN EnsureDefault(t, id) = DOMAIN t
         /\ \A i \in DOMAIN t : EnsureDefault(t, id)[i] =
                IF t[i].default THEN [t[i] EXCEPT !.text = BuiltIn] ELSE t[i]
BY DEF EnsureDefault

LEMMA FirstRows ==
  /\ DOMAIN EnsureDefault(NoEntries, 1) = {1}
  /\ EnsureDefault(NoEntries, 1)[1] = [text |-> BuiltIn, active |-> TRUE, default |-> TRUE]
<1>1. DOMAIN NoEntries = {}
  BY DEF NoEntries
<1> QED
  BY <1>1 DEF EnsureDefault, HasDefault

\* StoreTypeOK in its two halves: what is stored, and what the requests hold.
StoreTypes ==
    /\ kind \in Kinds
    /\ nextId \in 1..MaxId + 1
    /\ DOMAIN rows \subseteq 1..nextId - 1
    /\ \A i \in DOMAIN rows : rows[i] \in StoreRow
    /\ copy \in [text : Text \cup {NoText}, ip : IPs \cup {Raw}]
    /\ pxeIP \in IPs
    /\ hurt \in BOOLEAN

ReqTypes ==
    /\ spc \in [Admins -> StoreSteps]
    /\ req \in [Admins -> ReqType]
    /\ \A a \in Admins :
          /\ spc[a] \in {"update", "sync", "write"} => req[a].text # NoText
          /\ spc[a] \in {"created", "update", "delete"} => req[a].id < nextId

LEMMA TypeHalves == StoreTypeOK <=> StoreTypes /\ ReqTypes /\ overlapped \in BOOLEAN
BY DEF StoreTypeOK, StoreTypes, ReqTypes, ReqType

LEMMA TypeHalvesNext == StoreTypeOK' <=> StoreTypes' /\ ReqTypes' /\ overlapped' \in BOOLEAN
BY DEF StoreTypeOK, StoreTypes, ReqTypes, ReqType

LEMMA FirstStore == StoreInit => StoreInv
<1> SUFFICES ASSUME StoreInit PROVE StoreInv
  OBVIOUS
<1>1. DOMAIN rows = {1} /\ rows[1] = [text |-> BuiltIn, active |-> TRUE, default |-> TRUE]
  BY FirstRows DEF StoreInit
<1>2. StoreTypes
  <2>1. rows[1] \in StoreRow
    BY <1>1 DEF StoreRow, Text
  <2>2. copy \in [text : Text \cup {NoText}, ip : IPs \cup {Raw}]
    BY NullTypes DEF StoreInit
  <2> QED
    <3>1. nextId = 2 /\ 2 \in 1..MaxId + 1 /\ DOMAIN rows \subseteq 1..nextId - 1
      BY <1>1, MaxIdAssumption DEF StoreInit
    <3>2. \A i \in DOMAIN rows : rows[i] \in StoreRow
      BY <1>1, <2>1
    <3> QED
      BY <2>2, <3>1, <3>2 DEF StoreInit, StoreTypes
<1>3. ReqTypes
  BY NullTypes DEF StoreInit, ReqTypes, StoreSteps
<1>4. DefaultIntact
  BY <1>1 DEF DefaultIntact
<1>5. EditsOther
  BY DEF StoreInit, EditsOther
<1> QED
  BY <1>2, <1>3, <1>4, <1>5, TypeHalves DEF StoreInv, StoreInit

\* A request goes to a step with what it needs there.
LEMMA MoveType ==
  ASSUME ReqTypes, nextId \in Nat, nextId' \in Nat, nextId <= nextId',
         NEW a \in Admins, NEW label \in StoreSteps, Advance(a, label),
         NEW r \in ReqType, req' = [req EXCEPT ![a] = r],
         label \in {"update", "sync", "write"} => r.text # NoText,
         label \in {"created", "update", "delete"} => r.id < nextId'
  PROVE  ReqTypes'
<1>1. spc' \in [Admins -> StoreSteps] /\ req' \in [Admins -> ReqType]
  BY DEF ReqTypes, Advance
<1>2. ASSUME NEW b \in Admins
      PROVE  /\ spc'[b] \in {"update", "sync", "write"} => req'[b].text # NoText
             /\ spc'[b] \in {"created", "update", "delete"} => req'[b].id < nextId'
  <2>1. CASE b = a
    BY <2>1 DEF ReqTypes, Advance
  <2>2. CASE b # a
    <3>1. spc'[b] = spc[b] /\ req'[b] = req[b]
      BY <2>2 DEF ReqTypes, Advance
    <3>2. req[b].id \in Int
      BY MaxIdAssumption DEF ReqTypes, ReqType
    <3> QED
      BY <3>1, <3>2 DEF ReqTypes
  <2> QED
    BY <2>1, <2>2
<1> QED
  BY <1>1, <1>2 DEF ReqTypes

LEMMA StepNames ==
  /\ \A l \in {"created", "update", "sync", "delete", "clear", "write"} : l \in StoreSteps
  /\ "delete" \notin {"update", "sync", "write"}
  /\ "clear" \notin {"update", "sync", "write"} /\ "clear" \notin {"created", "update", "delete"}
BY DEF StoreSteps

LEMMA LoadType ==
  ASSUME ReqTypes, nextId \in Nat, nextId' \in Nat, nextId <= nextId',
         NEW a \in Admins, NEW label \in StoreSteps, Advance(a, label),
         NEW id \in 0..MaxId, NEW text \in Text \cup {NoText}, NEW fill \in BOOLEAN,
         Load(a, id, text, fill),
         label \in {"update", "sync", "write"} => text # NoText,
         label \in {"created", "update", "delete"} => id < nextId'
  PROVE  ReqTypes'
<1> DEFINE r == [id |-> id, text |-> text, fill |-> fill]
<1>1. r \in ReqType /\ r.text = text /\ r.id = id
  BY DEF ReqType
<1>2. req' = [req EXCEPT ![a] = r]
  BY DEF Load
<1> HIDE DEF r
<1>3. /\ label \in {"update", "sync", "write"} => r.text # NoText
      /\ label \in {"created", "update", "delete"} => r.id < nextId'
  BY <1>1
<1> QED
  BY <1>1, <1>2, <1>3, MoveType

LEMMA DoneType ==
  ASSUME ReqTypes, nextId \in Nat, nextId' \in Nat, nextId <= nextId',
         NEW a \in Admins, Done(a)
  PROVE  ReqTypes'
BY MoveType, NullTypes DEF Done, StoreSteps

LEMMA StayType ==
  ASSUME ReqTypes, nextId \in Nat, nextId' \in Nat, nextId <= nextId',
         NEW a \in Admins, NEW label \in StoreSteps, Advance(a, label), UNCHANGED req,
         label \in {"update", "sync", "write"} => req[a].text # NoText,
         label \in {"created", "update", "delete"} => req[a].id < nextId'
  PROVE  ReqTypes'
<1>1. req[a] \in ReqType /\ req' = [req EXCEPT ![a] = req[a]]
  BY DEF ReqTypes
<1> QED
  BY <1>1, MoveType

\* Rows that only have their text or their flag changed, or are gone.
LEMMA RowsType ==
  ASSUME StoreTypes, UNCHANGED <<kind, nextId, copy, pxeIP>>, hurt' \in BOOLEAN,
         DOMAIN rows' \subseteq DOMAIN rows,
         \A i \in DOMAIN rows' : rows'[i] \in StoreRow
  PROVE  StoreTypes'
BY DEF StoreTypes

LEMMA HandlesDoNotStart ==
  ASSUME NEW a \in Admins, Handle(a) \/ Fail(a)
  PROVE  overlapped' = overlapped
BY DEF Handle, Fail, Created, SaveRow, Sync, DeleteRow, Ensure, Pick, Clear, Set, Reread,
   WriteCopy

LEMMA OverlappedType == StoreTypeOK /\ [StoreNext]_activeVars => overlapped' \in BOOLEAN
<1> SUFFICES ASSUME StoreTypeOK, [StoreNext]_activeVars PROVE overlapped' \in BOOLEAN
  OBVIOUS
<1>1. ASSUME NEW a \in Admins, Requests(a) PROVE overlapped' \in BOOLEAN
  BY <1>1 DEF StoreTypeOK, Requests, Create, Update, DeleteEntry, SetActive, StartRequest
<1>2. ASSUME NEW a \in Admins, Handle(a) \/ Fail(a) PROVE overlapped' = overlapped
  BY <1>2, HandlesDoNotStart
<1> QED
  BY <1>1, <1>2 DEF StoreTypeOK, StoreNext, ChangeIP, RestartStore, activeVars

LEMMA TypeStep == StoreInv /\ [StoreNext]_activeVars => StoreTypeOK'
<1> SUFFICES ASSUME StoreInv, [StoreNext]_activeVars PROVE StoreTypes' /\ ReqTypes'
  BY TypeHalvesNext, OverlappedType DEF StoreInv
<1>0. StoreTypes /\ ReqTypes /\ nextId \in Nat
  BY TypeHalves, MaxIdAssumption DEF StoreInv, StoreTypes
<1> USE <1>0
<1>1. ASSUME NEW a \in Admins, NEW t \in Contents, Create(a, t)
      PROVE  StoreTypes' /\ ReqTypes'
  <2>1. nextId' = nextId + 1 /\ nextId \in 1..MaxId /\ nextId' \in Nat
    BY <1>1, MaxIdAssumption DEF Create, StoreTypes
  <2>2. /\ DOMAIN rows' \subseteq DOMAIN rows \cup {nextId}
        /\ \A i \in DOMAIN rows' : rows'[i] \in StoreRow
    BY <1>1 DEF Create, StoreTypes, StoreRow, Text
  <2>3. StoreTypes'
    <3>1. nextId' \in 1..MaxId + 1
      BY <2>1, MaxIdAssumption
    <3>2. DOMAIN rows \subseteq 1..nextId - 1
      BY DEF StoreTypes
    <3>3. DOMAIN rows' \subseteq 1..nextId' - 1
      BY <2>1, <2>2, <3>2
    <3> QED
      BY <1>1, <2>2, <3>1, <3>3 DEF Create, StoreTypes
  <2>4. CASE Done(a)
    BY <2>1, <2>3, <2>4, DoneType
  <2>5. CASE Advance(a, "created") /\ Load(a, nextId, NoText, TRUE)
    <3>1. nextId \in 0..MaxId /\ nextId < nextId' /\ nextId <= nextId'
      BY <2>1, MaxIdAssumption
    <3> QED
      BY <2>1, <2>3, <2>5, <3>1, LoadType, StepNames
  <2> QED
    BY <1>1, <2>4, <2>5 DEF Create
<1>2. ASSUME NEW a \in Admins, NEW id \in 1..MaxId, NEW t \in Contents, Update(a, id, t)
      PROVE  StoreTypes' /\ ReqTypes'
  <2>1. id < nextId /\ id \in 0..MaxId
    BY <1>2, MaxIdAssumption DEF Update, Editable, StoreTypes
  <2>2. t \in Text \cup {NoText} /\ t # NoText
    BY ContentsAssumption DEF Text
  <2>3. StoreTypes' /\ nextId' = nextId /\ nextId' \in Nat /\ nextId <= nextId'
    BY <1>2 DEF Update, StoreTypes, storeVars
  <2>4. Advance(a, "update") /\ Load(a, id, t, TRUE)
    BY <1>2 DEF Update
  <2> QED
    BY <2>1, <2>2, <2>3, <2>4, LoadType, StepNames
<1>3. ASSUME NEW a \in Admins, NEW id \in 1..MaxId, DeleteEntry(a, id) \/ SetActive(a, id)
      PROVE  StoreTypes' /\ ReqTypes'
  <2>1. id \in 0..MaxId
    BY MaxIdAssumption
  <2>2. Load(a, id, NoText, TRUE)
    BY <1>3 DEF DeleteEntry, SetActive
  <2>3. StoreTypes' /\ nextId' = nextId /\ nextId' \in Nat /\ nextId <= nextId'
    <3>1. UNCHANGED storeVars /\ hurt' = hurt
      BY <1>3 DEF DeleteEntry, SetActive
    <3> QED
      BY <3>1 DEF StoreTypes, storeVars
  <2>4. CASE DeleteEntry(a, id)
    <3>1. id < nextId /\ Advance(a, "delete")
      BY <2>4 DEF DeleteEntry, Editable, StoreTypes
    <3> QED
      BY <2>1, <2>2, <2>3, <3>1, LoadType, StepNames
  <2>5. CASE SetActive(a, id)
    <3>1. Advance(a, "clear")
      BY <2>5 DEF SetActive
    <3> QED
      BY <2>1, <2>2, <2>3, <3>1, LoadType, StepNames
  <2> QED
    BY <1>3, <2>4, <2>5
<1>4. ASSUME NEW a \in Admins, Created(a) \/ Ensure(a)
      PROVE  StoreTypes' /\ ReqTypes'
  <2>1. StoreTypes' /\ nextId' = nextId /\ nextId' \in Nat /\ nextId <= nextId'
    BY <1>4 DEF Created, Ensure, StoreTypes, storeVars
  <2>2. CASE Done(a)
    BY <2>1, <2>2, DoneType
  <2>3. CASE (Advance(a, "clear") \/ Advance(a, "pick")) /\ UNCHANGED req
    BY <2>1, <2>3, StayType DEF StoreSteps
  <2> QED
    BY <1>4, <2>2, <2>3 DEF Created, Ensure
<1>5. ASSUME NEW a \in Admins, SaveRow(a)
      PROVE  StoreTypes' /\ ReqTypes'
  <2>1. req[a].text \in Text /\ req[a].text # NoText
    BY <1>5 DEF SaveRow, ReqTypes, ReqType
  <2>2. /\ DOMAIN rows' = DOMAIN rows
        /\ \A i \in DOMAIN rows' : rows'[i] \in StoreRow
    BY <1>5, <2>1 DEF SaveRow, StoreTypes, StoreRow
  <2>3. StoreTypes' /\ nextId' = nextId /\ nextId' \in Nat /\ nextId <= nextId'
    BY <1>5, <2>2, RowsType DEF SaveRow, StoreTypes
  <2>4. CASE Done(a)
    BY <2>3, <2>4, DoneType
  <2>5. CASE Advance(a, "sync") /\ UNCHANGED req
    BY <2>1, <2>3, <2>5, StayType DEF StoreSteps
  <2> QED
    BY <1>5, <2>4, <2>5 DEF SaveRow
<1>6. ASSUME NEW a \in Admins, Sync(a)
      PROVE  StoreTypes' /\ ReqTypes'
  <2>1. StoreTypes' /\ nextId' = nextId /\ nextId' \in Nat /\ nextId <= nextId'
    BY <1>6 DEF Sync, StoreTypes, storeVars
  <2>2. CASE Done(a)
    BY <2>1, <2>2, DoneType
  <2>3. CASE Advance(a, "write") /\ Load(a, req[a].id, req[a].text, kind # "ks")
    <3>1. req[a] \in ReqType /\ req[a].text # NoText
      BY <1>6 DEF Sync, ReqTypes
    <3>2. /\ req[a].id \in 0..MaxId /\ req[a].text \in Text \cup {NoText}
          /\ (kind # "ks") \in BOOLEAN
      BY <3>1 DEF ReqType
    <3> QED
      BY <2>1, <2>3, <3>1, <3>2, LoadType, StepNames
  <2> QED
    BY <1>6, <2>2, <2>3 DEF Sync
<1>7. ASSUME NEW a \in Admins, DeleteRow(a)
      PROVE  StoreTypes' /\ ReqTypes'
  <2>1. StoreTypes' /\ nextId' = nextId /\ nextId' \in Nat /\ nextId <= nextId'
    BY <1>7, RowsType DEF DeleteRow, StoreTypes
  <2> QED
    BY <1>7, <2>1, StayType DEF DeleteRow, StoreSteps
<1>8. ASSUME NEW a \in Admins, Pick(a)
      PROVE  StoreTypes' /\ ReqTypes'
  <2>1. StoreTypes' /\ nextId' = nextId /\ nextId' \in Nat /\ nextId <= nextId'
    BY <1>8 DEF Pick, StoreTypes, storeVars
  <2>2. CASE Done(a)
    BY <2>1, <2>2, DoneType
  <2>3. CASE Advance(a, "clear") /\ Load(a, Heir, NoText, kind # "deploy")
    <3>1. Heir \in 0..MaxId /\ (kind # "deploy") \in BOOLEAN
      BY HeirIsDefault, MaxIdAssumption DEF StoreInv, StoreTypes
    <3> QED
      BY <2>1, <2>3, <3>1, LoadType, StepNames
  <2> QED
    BY <1>8, <2>2, <2>3 DEF Pick
<1>9. ASSUME NEW a \in Admins, Clear(a)
      PROVE  StoreTypes' /\ ReqTypes'
  <2>1. /\ DOMAIN rows' = DOMAIN rows
        /\ \A i \in DOMAIN rows' : rows'[i] \in StoreRow
    BY <1>9 DEF Clear, StoreTypes, StoreRow
  <2>2. StoreTypes' /\ nextId' = nextId /\ nextId' \in Nat /\ nextId <= nextId'
    BY <1>9, <2>1, RowsType DEF Clear, StoreTypes
  <2> QED
    BY <1>9, <2>2, StayType DEF Clear, StoreSteps
<1>10. ASSUME NEW a \in Admins, Set(a)
       PROVE  StoreTypes' /\ ReqTypes'
  <2>1. /\ DOMAIN rows' = DOMAIN rows
        /\ \A i \in DOMAIN rows' : rows'[i] \in StoreRow
    BY <1>10 DEF Set, StoreTypes, StoreRow
  <2>2. StoreTypes' /\ nextId' = nextId /\ nextId' \in Nat /\ nextId <= nextId'
    BY <1>10, <2>1, RowsType DEF Set, StoreTypes
  <2>3. CASE Done(a)
    BY <2>2, <2>3, DoneType
  <2>4. CASE Advance(a, "reread") /\ UNCHANGED req
    BY <2>2, <2>4, StayType DEF StoreSteps
  <2> QED
    BY <1>10, <2>3, <2>4 DEF Set
<1>11. ASSUME NEW a \in Admins, Reread(a)
       PROVE  StoreTypes' /\ ReqTypes'
  <2>1. StoreTypes' /\ nextId' = nextId /\ nextId' \in Nat /\ nextId <= nextId'
    <3>1. UNCHANGED storeVars /\ hurt' \in BOOLEAN
      BY <1>11 DEF Reread, StoreTypes
    <3> QED
      BY <3>1 DEF StoreTypes, storeVars
  <2>2. CASE Done(a)
    BY <2>1, <2>2, DoneType
  <2>3. CASE /\ req[a].id \in DOMAIN rows
             /\ Advance(a, "write")
             /\ Load(a, req[a].id, rows[req[a].id].text, kind # "deploy")
    <3>1. /\ req[a].id \in 0..MaxId /\ (kind # "deploy") \in BOOLEAN
          /\ rows[req[a].id].text \in Text
      BY <2>3 DEF ReqTypes, ReqType, StoreTypes, StoreRow
    <3>2. rows[req[a].id].text # NoText
      BY <3>1, ContentsAssumption DEF Text
    <3> QED
      BY <2>1, <2>3, <3>1, <3>2, LoadType, StepNames
  <2> QED
    BY <1>11, <2>2, <2>3 DEF Reread
<1>12. ASSUME NEW a \in Admins, WriteCopy(a) \/ Fail(a)
       PROVE  StoreTypes' /\ ReqTypes'
  <2>1. Done(a) /\ nextId' = nextId
    BY <1>12 DEF WriteCopy, Fail, storeVars
  <2>2. ReqTypes'
    BY <2>1, DoneType
  <2>3. CASE WriteCopy(a)
    <3>1. copy' \in [text : Text \cup {NoText}, ip : IPs \cup {Raw}]
      BY <2>3 DEF WriteCopy, ReqTypes, ReqType, StoreTypes
    <3> QED
      BY <2>2, <2>3, <3>1 DEF WriteCopy, StoreTypes
  <2>4. CASE Fail(a)
    BY <2>2, <2>4 DEF Fail, StoreTypes, storeVars
  <2> QED
    BY <1>12, <2>3, <2>4
<1>13. ASSUME NEW ip \in IPs, ChangeIP(ip)
       PROVE  StoreTypes' /\ ReqTypes'
  BY <1>13 DEF ChangeIP, StoreTypes, ReqTypes
<1>14. ASSUME RestartStore
       PROVE  StoreTypes' /\ ReqTypes'
  <2>1. HasDefault(rows)
    BY DEF StoreInv, DefaultIntact, HasDefault
  <2>2. /\ DOMAIN rows' = DOMAIN rows /\ nextId' = nextId
        /\ \A i \in DOMAIN rows :
              rows'[i] = IF rows[i].default THEN [rows[i] EXCEPT !.text = BuiltIn] ELSE rows[i]
    BY <1>14, <2>1, EnsureKeeps DEF RestartStore
  <2>3. \A i \in DOMAIN rows' : rows'[i] \in StoreRow
    BY <2>2 DEF StoreTypes, StoreRow, Text
  <2>4. StoreTypes'
    BY <1>14, <2>2, <2>3 DEF RestartStore, StoreTypes
  <2>5. ReqTypes'
    BY <1>14, NullTypes DEF RestartStore, ReqTypes, StoreSteps
  <2> QED
    BY <2>4, <2>5
<1>15. CASE UNCHANGED activeVars
  BY <1>15 DEF activeVars, StoreTypes, ReqTypes
<1> QED
  BY <1>1, <1>2, <1>3, <1>4, <1>5, <1>6, <1>7, <1>8, <1>9, <1>10, <1>11, <1>12,
     <1>13, <1>14, <1>15 DEF StoreNext, Requests, Handle

(***************************************************************************)
(* The default row.                                                         *)
(***************************************************************************)
\* The steps that change rows, as far as the default row is concerned: none
\* makes or unmakes a default row, and its text and place stay.
LEMMA DefaultStep == StoreInv /\ [StoreNext]_activeVars => DefaultIntact'
<1> SUFFICES ASSUME StoreInv, [StoreNext]_activeVars PROVE DefaultIntact'
  OBVIOUS
<1>0. PICK d \in DOMAIN rows :
        rows[d].default /\ rows[d].text = BuiltIn
        /\ \A j \in DOMAIN rows : rows[j].default => d = j
  BY DEF StoreInv, DefaultIntact
<1>t. /\ StoreTypes
      /\ \A a \in Admins : spc[a] \in {"update", "delete"} => req[a].id # d
  BY <1>0, TypeHalves DEF StoreInv, EditsOther
<1>k. ASSUME d \in DOMAIN rows', rows'[d].default, rows'[d].text = BuiltIn,
             \A j \in DOMAIN rows' : rows'[j].default => j \in DOMAIN rows /\ rows[j].default
      PROVE  DefaultIntact'
  BY <1>0, <1>k DEF DefaultIntact
<1>u. rows' = rows => DefaultIntact'
  BY <1>0 DEF DefaultIntact
<1>1. ASSUME NEW a \in Admins, NEW t \in Contents, Create(a, t) PROVE DefaultIntact'
  <2>1. nextId \notin DOMAIN rows /\ d # nextId
    BY <1>t, <1>0, MaxIdAssumption DEF StoreTypes
  <2>2. /\ DOMAIN rows' = DOMAIN rows \cup {nextId}
        /\ ~rows'[nextId].default
        /\ \A i \in DOMAIN rows : rows'[i] = rows[i]
    BY <1>1, <2>1 DEF Create
  <2> QED
    BY <1>0, <1>k, <2>1, <2>2
<1>2. ASSUME NEW a \in Admins, SaveRow(a) PROVE DefaultIntact'
  <2>1. DOMAIN rows' = DOMAIN rows /\ req[a].id # d
    BY <1>2, <1>t DEF SaveRow
  <2>2. \A i \in DOMAIN rows : rows'[i].default = rows[i].default
    BY <1>2, <1>t DEF SaveRow, StoreTypes, StoreRow
  <2>3. rows'[d] = rows[d]
    BY <1>2, <1>0, <2>1 DEF SaveRow
  <2> QED
    BY <1>0, <1>k, <2>1, <2>2, <2>3
<1>3. ASSUME NEW a \in Admins, DeleteRow(a) PROVE DefaultIntact'
  <2>1. req[a].id # d
    BY <1>3, <1>t DEF DeleteRow
  <2>2. DOMAIN rows' = DOMAIN rows \ {req[a].id} /\ \A i \in DOMAIN rows' : rows'[i] = rows[i]
    BY <1>3 DEF DeleteRow
  <2> QED
    BY <1>0, <1>k, <2>1, <2>2
<1>4. ASSUME NEW a \in Admins, Clear(a) \/ Set(a) PROVE DefaultIntact'
  <2>1. DOMAIN rows' = DOMAIN rows
    BY <1>4 DEF Clear, Set
  <2>2. \A i \in DOMAIN rows :
           rows'[i].default = rows[i].default /\ rows'[i].text = rows[i].text
    BY <1>4, <1>t DEF Clear, Set, StoreTypes, StoreRow
  <2> QED
    BY <1>0, <1>k, <2>1, <2>2
<1>5. ASSUME RestartStore PROVE DefaultIntact'
  <2>1. /\ DOMAIN rows' = DOMAIN rows
        /\ \A i \in DOMAIN rows :
              rows'[i] = IF rows[i].default THEN [rows[i] EXCEPT !.text = BuiltIn] ELSE rows[i]
    BY <1>5, <1>0, EnsureKeeps DEF RestartStore, HasDefault
  <2>2. \A i \in DOMAIN rows : rows'[i].default = rows[i].default
    BY <1>t, <2>1 DEF StoreTypes, StoreRow
  <2>3. rows'[d].text = BuiltIn
    BY <1>0, <1>t, <2>1 DEF StoreTypes, StoreRow
  <2> QED
    BY <1>0, <1>k, <2>1, <2>2, <2>3
<1>6. ASSUME NEW a \in Admins,
             \/ Created(a) \/ Sync(a) \/ Ensure(a) \/ Pick(a) \/ Reread(a)
             \/ WriteCopy(a) \/ Fail(a)
             \/ \E id \in 1..MaxId : DeleteEntry(a, id) \/ SetActive(a, id)
             \/ \E id \in 1..MaxId, t \in Contents : Update(a, id, t)
      PROVE  rows' = rows
  BY <1>6 DEF Created, Sync, Ensure, Pick, Reread, WriteCopy, Fail, DeleteEntry, SetActive,
     Update, storeVars
<1>7. ASSUME NEW ip \in IPs, ChangeIP(ip) PROVE rows' = rows
  BY <1>7 DEF ChangeIP
<1>8. CASE UNCHANGED activeVars
  BY <1>8, <1>u DEF activeVars
<1> QED
  BY <1>u, <1>1, <1>2, <1>3, <1>4, <1>5, <1>6, <1>7, <1>8 DEF StoreNext, Requests, Handle

LEMMA EditsStep == StoreInv /\ [StoreNext]_activeVars => EditsOther'
<1> SUFFICES ASSUME StoreInv, [StoreNext]_activeVars,
                    NEW b \in Admins, spc'[b] \in {"update", "delete"},
                    req'[b].id \in DOMAIN rows'
             PROVE  ~rows'[req'[b].id].default
  BY DEF EditsOther
<1>0. StoreTypes /\ ReqTypes
  BY TypeHalves DEF StoreInv
<1> DEFINE i == req'[b].id
\* A request that was on its way before this step.
<1>s. ASSUME spc[b] = spc'[b], req[b] = req'[b],
             i \in DOMAIN rows => rows'[i].default = rows[i].default,
             i # nextId => i \in DOMAIN rows
      PROVE  ~rows'[i].default
  <2>1. req[b].id < nextId /\ req[b].id \in Int
    BY <1>s, <1>0, MaxIdAssumption DEF ReqTypes, ReqType
  <2>2. i # nextId
    BY <1>s, <2>1
  <2> QED
    BY <1>s, <2>2 DEF StoreInv, EditsOther
<1>1. ASSUME NEW a \in Admins, NEW t \in Contents, Create(a, t)
      PROVE  ~rows'[i].default
  <2>1. nextId \notin DOMAIN rows
    BY <1>0, MaxIdAssumption DEF StoreTypes
  <2>2. a # b
    BY <1>1, <1>0 DEF Create, Done, Advance, ReqTypes
  <2>3. spc[b] = spc'[b] /\ req[b] = req'[b]
    BY <1>1, <2>2, <1>0 DEF Create, Done, Advance, Load, ReqTypes
  <2>4. /\ DOMAIN rows' = DOMAIN rows \cup {nextId}
        /\ \A j \in DOMAIN rows : rows'[j] = rows[j]
    BY <1>1, <2>1 DEF Create
  <2> QED
    BY <1>s, <2>3, <2>4
<1>2. ASSUME NEW a \in Admins,
             \/ \E id \in 1..MaxId : DeleteEntry(a, id)
             \/ \E id \in 1..MaxId, t \in Contents : Update(a, id, t)
      PROVE  ~rows'[i].default
  <2>1. PICK id \in 1..MaxId, text \in Contents \cup {NoText} :
           Editable(id) /\ Load(a, id, text, TRUE) /\ rows' = rows
           /\ \E label \in {"update", "delete"} : Advance(a, label)
    BY <1>2 DEF DeleteEntry, Update, storeVars
  <2>2. CASE a = b
    BY <2>1, <2>2, <1>0 DEF Load, Editable, ReqTypes
  <2>3. CASE a # b
    <3>1. spc[b] = spc'[b] /\ req[b] = req'[b]
      BY <2>1, <2>3, <1>0 DEF Load, Advance, ReqTypes
    <3> QED
      BY <1>s, <2>1, <3>1
  <2> QED
    BY <2>2, <2>3
\* Every other step of a request leaves it at another step than these two.
<1>3. ASSUME NEW a \in Admins,
             Handle(a) \/ Fail(a) \/ \E id \in 1..MaxId : SetActive(a, id)
      PROVE  ~rows'[i].default
  <2>1. a # b
    BY <1>3, <1>0 DEF Handle, Created, SaveRow, Sync, DeleteRow, Ensure, Pick, Clear, Set,
       Reread, WriteCopy, Fail, SetActive, Done, Advance, ReqTypes
  <2>2. spc[b] = spc'[b] /\ req[b] = req'[b]
    BY <1>3, <1>0, <2>1 DEF Handle, Created, SaveRow, Sync, DeleteRow, Ensure, Pick, Clear,
       Set, Reread, WriteCopy, Fail, SetActive, Done, Advance, Load, ReqTypes
  <2>3. DOMAIN rows' \subseteq DOMAIN rows
    BY <1>3 DEF Handle, Created, SaveRow, Sync, DeleteRow, Ensure, Pick, Clear,
       Set, Reread, WriteCopy, Fail, SetActive, storeVars
  <2>4. \A j \in DOMAIN rows' : rows'[j].default = rows[j].default
    <3>1. CASE rows' = rows
      BY <3>1
    <3>2. CASE SaveRow(a) \/ DeleteRow(a) \/ Clear(a) \/ Set(a)
      BY <3>2, <1>0 DEF SaveRow, DeleteRow, Clear, Set, StoreTypes, StoreRow
    <3> QED
      BY <1>3, <3>1, <3>2 DEF Handle, Created, Sync, Ensure, Pick, Reread, WriteCopy, Fail,
         SetActive, storeVars
  <2> QED
    BY <1>s, <2>2, <2>3, <2>4
<1>4. ASSUME NEW ip \in IPs, ChangeIP(ip) PROVE ~rows'[i].default
  BY <1>4, <1>s DEF ChangeIP
<1>5. CASE RestartStore
  BY <1>5 DEF RestartStore
<1>6. CASE UNCHANGED activeVars
  BY <1>6, <1>s DEF activeVars
<1> QED
  BY <1>1, <1>2, <1>3, <1>4, <1>5, <1>6 DEF StoreNext, Requests

LEMMA StoreAlways == StoreSpec => []StoreInv
<1>1. StoreInv /\ [StoreNext]_activeVars => StoreInv'
  BY TypeStep, DefaultStep, EditsStep DEF StoreInv
<1> QED
  BY FirstStore, <1>1, PTL DEF StoreSpec

\* The variables keep their types, and a request that is about to write knows
\* what, for any number of overlapping requests, failures and restarts.
THEOREM TypeCorrect == StoreSpec => []StoreTypeOK
<1>1. StoreInv => StoreTypeOK
  BY DEF StoreInv
<1> QED
  BY <1>1, StoreAlways, PTL

\* The default row is there, alone and unchanged, however requests overlap:
\* reading is_default first and writing later is safe because is_default of a
\* row never changes and an id is never used twice.
THEOREM DefaultStaysIntact == StoreSpec => []DefaultIntact
<1>1. StoreInv => DefaultIntact
  BY DEF StoreInv
<1> QED
  BY <1>1, StoreAlways, PTL

(***************************************************************************)
(* As long as no two requests overlap: the row in force and the file.       *)
(***************************************************************************)
Follows ==
    copy # NoFile /\ kind # "deploy" => \E i \in Active : copy.text = rows[i].text

\* What a request finds and what it leaves behind, unless something failed.
Good == ~hurt => Active # {} /\ Follows

\* What is known at each step of a request.
Flow(a) ==
    LET id == req[a].id
    IN  /\ spc[a] \in {"created", "update", "delete"} => Good
        /\ spc[a] = "created" => req[a].fill
        /\ spc[a] = "sync" => IF id \in Active THEN rows[id].text = req[a].text ELSE Good
        /\ spc[a] = "ensure" => (~hurt /\ Active # {} => Follows)
        /\ spc[a] = "set" => Active = {}
        /\ spc[a] \in {"clear", "set"} /\ ~req[a].fill => id \in DOMAIN rows /\ kind = "deploy"
        /\ spc[a] = "reread" /\ id \in DOMAIN rows => Active = {id}
        /\ spc[a] = "write" => Active = {id} /\ rows[id].text = req[a].text

Alone == \A a, b \in Admins : spc[a] # "idle" /\ spc[b] # "idle" => a = b

SerialInv ==
    /\ Alone
    /\ OneInForce
    /\ Quiet => Good
    /\ \A a \in Admins : Flow(a)

\* The step of one request while the others are idle needs to be looked at for
\* that request alone.
LEMMA OneMoves ==
  ASSUME spc \in [Admins -> StoreSteps], NEW a \in Admins, NEW label, Advance(a, label),
         \A b \in Admins \ {a} : spc[b] = "idle",
         OneInForce', label = "idle" => Good', label # "idle" => Flow(a)'
  PROVE  SerialInv'
<1>1. spc'[a] = label /\ \A b \in Admins \ {a} : spc'[b] = "idle"
  BY DEF Advance
<1>2. Alone'
  BY <1>1 DEF Alone
<1>3. Quiet' => Good'
  BY <1>1 DEF Quiet
<1>4. \A b \in Admins : Flow(b)'
  <2>1. ASSUME NEW b \in Admins, spc'[b] = "idle" PROVE Flow(b)'
    BY <2>1 DEF Flow
  <2> QED
    BY <1>1, <2>1
<1> QED
  BY <1>2, <1>3, <1>4 DEF SerialInv

LEMMA SerialInit == StoreInit => SerialInv
<1> SUFFICES ASSUME StoreInit PROVE SerialInv
  OBVIOUS
<1>1. DOMAIN rows = {1} /\ rows[1].active
  BY FirstRows DEF StoreInit
<1>2. Active = {1}
  BY <1>1 DEF Active
<1> QED
  BY <1>2 DEF StoreInit, SerialInv, Alone, OneInForce, Good, Follows, Flow

\* What the requests that start, or only move along, do.
LEMMA StartStep ==
  ASSUME StoreInv, SerialInv, NEW a \in Admins, Requests(a), ~overlapped'
  PROVE  SerialInv'
<1>0. StoreTypes /\ ReqTypes /\ spc \in [Admins -> StoreSteps]
  BY TypeHalves DEF StoreInv, ReqTypes
<1>1. StartRequest(a)
  BY DEF Requests, Create, DeleteEntry, SetActive, Update
<1>2. (\A b \in Admins : spc[b] = "idle") /\ Good /\ OneInForce
  BY <1>1 DEF StartRequest, SerialInv, Quiet
<1>3. ASSUME NEW t \in Contents, Create(a, t) PROVE SerialInv'
  <2>1. nextId \notin DOMAIN rows
    BY <1>0, MaxIdAssumption DEF StoreTypes
  <2>2. /\ DOMAIN rows' = DOMAIN rows \cup {nextId} /\ ~rows'[nextId].active
        /\ \A i \in DOMAIN rows : rows'[i] = rows[i]
    BY <1>3, <2>1 DEF Create
  <2>3. Active' = Active /\ Active \subseteq DOMAIN rows
    BY <2>1, <2>2 DEF Active
  <2>4. OneInForce' /\ Good'
    BY <1>2, <1>3, <2>2, <2>3 DEF Create, OneInForce, Good, Follows
  <2>5. CASE Done(a)
    BY <1>0, <1>2, <2>4, <2>5, OneMoves DEF Done
  <2>6. CASE Advance(a, "created")
    <3>1. spc'[a] = "created" /\ req'[a].fill
      BY <1>0, <1>3, <2>6 DEF Advance, Create, Load, Done, ReqTypes, NoReq
    <3>2. Flow(a)'
      BY <2>4, <3>1 DEF Flow
    <3> QED
      BY <1>0, <1>2, <2>4, <2>6, <3>2, OneMoves
  <2> QED
    BY <1>3, <2>5, <2>6 DEF Create
<1>4. ASSUME NEW id \in 1..MaxId, NEW text, NEW label \in {"update", "delete", "clear"},
             Advance(a, label), Load(a, id, text, TRUE), UNCHANGED <<storeVars, hurt>>
      PROVE  SerialInv'
  <2>1. Good' /\ OneInForce'
    BY <1>2, <1>4 DEF Good, Follows, OneInForce, Active, storeVars
  <2>2. spc'[a] = label /\ req'[a].fill
    BY <1>0, <1>4 DEF Advance, Load, ReqTypes
  <2>3. Flow(a)'
    BY <1>4, <2>1, <2>2 DEF Flow
  <2> QED
    BY <1>0, <1>2, <1>4, <2>1, <2>3, OneMoves
<1> QED
  BY <1>3, <1>4 DEF Requests, DeleteEntry, SetActive, Update

\* A step that reads and moves on.
LEMMA ReadStep ==
  ASSUME StoreInv, SerialInv, NEW a \in Admins,
         Created(a) \/ Sync(a) \/ Ensure(a) \/ Pick(a) \/ Reread(a)
  PROVE  SerialInv'
<1>0. StoreTypes /\ ReqTypes /\ spc \in [Admins -> StoreSteps]
  BY TypeHalves DEF StoreInv, ReqTypes
<1>1. spc[a] # "idle" /\ UNCHANGED storeVars
  BY DEF Created, Sync, Ensure, Pick, Reread
<1>2. \A b \in Admins \ {a} : spc[b] = "idle"
  BY <1>1 DEF SerialInv, Alone
<1>3. /\ Active' = Active /\ rows' = rows /\ OneInForce'
      /\ hurt' = hurt => Follows' = Follows /\ Good' = Good
  BY <1>1 DEF SerialInv, OneInForce, Active, Follows, Good, storeVars
<1>4. OneInForce /\ Flow(a)
  BY DEF SerialInv
\* The request is answered.
<1>5. ASSUME Done(a), Good' PROVE SerialInv'
  BY <1>0, <1>2, <1>3, <1>5, OneMoves DEF Done
\* It goes on.
<1>6. ASSUME NEW label \in StoreSteps \ {"idle"}, Advance(a, label), Flow(a)' PROVE SerialInv'
  BY <1>0, <1>2, <1>3, <1>6, OneMoves
<1>7. CASE Created(a)
  <2>1. Good /\ UNCHANGED hurt
    BY <1>4, <1>7 DEF Flow, Created
  <2>2. CASE Done(a)
    BY <1>3, <1>5, <2>1, <2>2
  <2>3. CASE Active = {} /\ Advance(a, "clear") /\ UNCHANGED req
    <3>1. spc'[a] = "clear" /\ req'[a].fill
      <4>1. spc'[a] = "clear"
        BY <1>0, <2>3 DEF Advance
      <4>2. spc[a] = "created" /\ req' = req
        BY <1>7, <2>3 DEF Created
      <4>3. req[a].fill
        BY <1>4, <4>2 DEF Flow
      <4> QED
        BY <4>1, <4>2, <4>3
    <3>2. Flow(a)'
      BY <3>1 DEF Flow
    <3> QED
      BY <1>6, <2>3, <3>2 DEF StoreSteps
  <2> QED
    BY <1>7, <2>2, <2>3 DEF Created
<1>8. CASE Sync(a)
  <2>1. UNCHANGED hurt
    BY <1>8 DEF Sync
  <2>2. CASE req[a].id \in Active /\ Advance(a, "write")
             /\ Load(a, req[a].id, req[a].text, kind # "ks")
    <3>1. spc'[a] = "write" /\ req'[a].id = req[a].id /\ req'[a].text = req[a].text
      BY <1>0, <2>2 DEF Advance, Load, ReqTypes
    <3>2. Active = {req[a].id} /\ rows[req[a].id].text = req[a].text
      BY <1>4, <1>8, <2>2 DEF Flow, OneInForce, Sync
    <3>3. Flow(a)'
      BY <1>3, <3>1, <3>2 DEF Flow
    <3> QED
      BY <1>6, <2>2, <3>3 DEF StoreSteps
  <2>3. CASE Active # {req[a].id} /\ Done(a)
    <3>1. req[a].id \notin Active
      BY <1>4, <2>3 DEF OneInForce
    <3>2. Good
      BY <1>4, <1>8, <3>1 DEF Flow, Sync
    <3> QED
      BY <1>3, <1>5, <2>1, <2>3, <3>2
  <2> QED
    BY <1>8, <2>2, <2>3 DEF Sync
<1>9. CASE Ensure(a)
  <2>1. UNCHANGED hurt
    BY <1>9 DEF Ensure
  <2>2. CASE Active # {} /\ Done(a)
    <3>1. Good
      BY <1>4, <1>9, <2>2 DEF Flow, Ensure, Good
    <3> QED
      BY <1>3, <1>5, <2>1, <2>2, <3>1
  <2>3. CASE Advance(a, "pick")
    <3>1. spc'[a] = "pick"
      BY <1>0, <2>3 DEF Advance
    <3>2. Flow(a)'
      BY <3>1 DEF Flow
    <3> QED
      BY <1>6, <2>3, <3>2 DEF StoreSteps
  <2> QED
    BY <1>9, <2>2, <2>3 DEF Ensure
<1>10. CASE Pick(a)
  <2>1. Heir \in DOMAIN rows
    BY HeirIsDefault DEF StoreInv
  <2>2. Advance(a, "clear") /\ Load(a, Heir, NoText, kind # "deploy")
    BY <1>10, <2>1 DEF Pick
  <2>3. spc'[a] = "clear" /\ req'[a].id = Heir /\ req'[a].fill = (kind # "deploy")
    BY <1>0, <2>2 DEF Advance, Load, ReqTypes
  <2>4. Flow(a)'
    BY <1>1, <1>3, <2>1, <2>3 DEF Flow, storeVars
  <2> QED
    BY <1>6, <2>2, <2>4 DEF StoreSteps
<1>11. CASE Reread(a)
  <2>1. CASE req[a].id \notin DOMAIN rows /\ Done(a) /\ hurt' = TRUE
    BY <1>5, <2>1 DEF Good
  <2>2. CASE /\ req[a].id \in DOMAIN rows /\ Advance(a, "write")
             /\ Load(a, req[a].id, rows[req[a].id].text, kind # "deploy")
    <3>1. /\ spc'[a] = "write" /\ req'[a].id = req[a].id
          /\ req'[a].text = rows[req[a].id].text
      BY <1>0, <2>2 DEF Advance, Load, ReqTypes
    <3>2. Active = {req[a].id}
      BY <1>4, <1>11, <2>2 DEF Flow, Reread
    <3>3. Flow(a)'
      BY <1>3, <3>1, <3>2 DEF Flow
    <3> QED
      BY <1>6, <2>2, <3>3 DEF StoreSteps
  <2> QED
    BY <1>11, <2>1, <2>2 DEF Reread
<1> QED
  BY <1>7, <1>8, <1>9, <1>10, <1>11

\* A step that changes the rows or writes the file.
LEMMA WriteStep ==
  ASSUME StoreInv, SerialInv, NEW a \in Admins,
         SaveRow(a) \/ DeleteRow(a) \/ Clear(a) \/ Set(a) \/ WriteCopy(a) \/ Fail(a)
  PROVE  SerialInv'
<1>0. StoreTypes /\ ReqTypes /\ spc \in [Admins -> StoreSteps]
  BY TypeHalves DEF StoreInv, ReqTypes
<1>1. spc[a] # "idle"
  BY DEF SaveRow, DeleteRow, Clear, Set, WriteCopy, Fail
<1>2. \A b \in Admins \ {a} : spc[b] = "idle"
  BY <1>1 DEF SerialInv, Alone
<1>3. OneInForce /\ Flow(a)
  BY DEF SerialInv
<1>4. CASE SaveRow(a)
  <2>1. /\ DOMAIN rows' = DOMAIN rows
        /\ \A i \in DOMAIN rows : rows'[i].active = rows[i].active
        /\ \A i \in DOMAIN rows \ {req[a].id} : rows'[i] = rows[i]
        /\ req[a].id \in DOMAIN rows => rows'[req[a].id].text = req[a].text
    BY <1>0, <1>4 DEF SaveRow, StoreTypes, StoreRow
  <2>2. Active' = Active /\ Active \subseteq DOMAIN rows
    BY <2>1 DEF Active
  <2>3. OneInForce' /\ Good
    BY <1>3, <1>4, <2>2 DEF OneInForce, Flow, SaveRow
  <2>4. CASE kind = "deploy" /\ Done(a)
    <3>1. Good'
      BY <1>4, <2>2, <2>3, <2>4 DEF Good, Follows, SaveRow
    <3> QED
      BY <1>0, <1>2, <2>3, <2>4, <3>1, OneMoves DEF Done
  <2>5. CASE Advance(a, "sync") /\ UNCHANGED req
    <3>1. spc'[a] = "sync"
      BY <1>0, <2>5 DEF Advance
    <3>2. CASE req[a].id \in Active
      <4>1. Flow(a)'
        BY <2>1, <2>2, <2>5, <3>1, <3>2 DEF Flow
      <4> QED
        BY <1>0, <1>2, <2>3, <2>5, <4>1, OneMoves
    <3>3. CASE req[a].id \notin Active
      <4>1. Good'
        BY <1>4, <2>1, <2>2, <2>3, <3>3 DEF Good, Follows, SaveRow
      <4>2. Flow(a)'
        BY <2>2, <2>5, <3>1, <3>3, <4>1 DEF Flow
      <4> QED
        BY <1>0, <1>2, <2>3, <2>5, <4>2, OneMoves
    <3> QED
      BY <3>2, <3>3
  <2> QED
    BY <1>4, <2>4, <2>5 DEF SaveRow
<1>5. CASE DeleteRow(a)
  <2>1. /\ DOMAIN rows' = DOMAIN rows \ {req[a].id}
        /\ \A i \in DOMAIN rows' : rows'[i] = rows[i]
    BY <1>5 DEF DeleteRow
  <2>2. Active' = Active \ {req[a].id}
    BY <2>1 DEF Active
  <2>3. OneInForce' /\ Good
    BY <1>3, <1>5, <2>2 DEF OneInForce, Flow, DeleteRow
  <2>4. spc'[a] = "ensure" /\ UNCHANGED <<kind, copy, hurt>> /\ Advance(a, "ensure")
    BY <1>0, <1>5 DEF DeleteRow, Advance
  <2>5. ASSUME ~hurt', Active' # {}, copy' # NoFile, kind' # "deploy"
        PROVE  \E i \in Active' : copy'.text = rows'[i].text
    <3>1. PICK i \in Active : copy.text = rows[i].text
      BY <2>3, <2>4, <2>5 DEF Good, Follows
    <3>2. i \in Active'
      BY <1>3, <2>2, <2>5 DEF OneInForce
    <3> QED
      BY <2>1, <2>4, <3>1, <3>2 DEF Active
  <2>6. Flow(a)'
    BY <2>4, <2>5 DEF Flow, Follows
  <2> QED
    BY <1>0, <1>2, <2>3, <2>4, <2>6, OneMoves
<1>6. CASE Clear(a)
  <2>1. Active' = {} /\ DOMAIN rows' = DOMAIN rows
    BY <1>0, <1>6 DEF Clear, Active, StoreTypes, StoreRow
  <2>2. OneInForce'
    BY <2>1 DEF OneInForce
  <2>3. spc'[a] = "set" /\ UNCHANGED <<kind, req>> /\ Advance(a, "set")
    BY <1>0, <1>6 DEF Clear, Advance
  <2>4. Flow(a)'
    BY <1>3, <1>6, <2>1, <2>3 DEF Flow, Clear
  <2> QED
    BY <1>0, <1>2, <2>2, <2>3, <2>4, OneMoves
<1>7. CASE Set(a)
  <2>1. Active = {}
    BY <1>3, <1>7 DEF Flow, Set
  <2>2. /\ DOMAIN rows' = DOMAIN rows
        /\ \A i \in DOMAIN rows \ {req[a].id} : rows'[i] = rows[i]
        /\ req[a].id \in DOMAIN rows => rows'[req[a].id].active
    BY <1>0, <1>7 DEF Set, StoreTypes, StoreRow
  <2>3. Active' \subseteq {req[a].id} /\ (req[a].id \in DOMAIN rows => Active' = {req[a].id})
    BY <2>1, <2>2 DEF Active
  <2>4. OneInForce'
    BY <2>3 DEF OneInForce
  <2>5. CASE req[a].fill /\ Advance(a, "reread") /\ UNCHANGED req
    <3>1. spc'[a] = "reread"
      BY <1>0, <2>5 DEF Advance
    <3>2. Flow(a)'
      BY <2>2, <2>3, <2>5, <3>1 DEF Flow
    <3> QED
      BY <1>0, <1>2, <2>4, <2>5, <3>2, OneMoves
  <2>6. CASE ~req[a].fill /\ Done(a)
    <3>1. req[a].id \in DOMAIN rows /\ kind = "deploy"
      BY <1>3, <1>7, <2>6 DEF Flow, Set
    <3>2. Good'
      BY <1>7, <2>3, <3>1 DEF Good, Follows, Set
    <3> QED
      BY <1>0, <1>2, <2>4, <2>6, <3>2, OneMoves DEF Done
  <2> QED
    BY <1>7, <2>5, <2>6 DEF Set
<1>8. CASE WriteCopy(a)
  <2>1. Active = {req[a].id} /\ rows[req[a].id].text = req[a].text
    BY <1>3, <1>8 DEF Flow, WriteCopy
  <2>2. Active' = Active /\ rows' = rows /\ copy'.text = req[a].text
    BY <1>8 DEF WriteCopy, Active
  <2>3. OneInForce' /\ Good'
    BY <2>1, <2>2 DEF OneInForce, Good, Follows
  <2> QED
    BY <1>0, <1>2, <1>8, <2>3, OneMoves DEF WriteCopy, Done
<1>9. CASE Fail(a)
  <2>1. OneInForce' /\ Good' /\ Done(a)
    BY <1>3, <1>9 DEF Fail, OneInForce, Active, Good, storeVars
  <2> QED
    BY <1>0, <1>2, <2>1, OneMoves DEF Done
<1> QED
  BY <1>4, <1>5, <1>6, <1>7, <1>8, <1>9

\* Nothing in SerialInv depends on the address; a restart changes nothing but
\* what the requests held.
LEMMA OtherStep ==
  ASSUME StoreInv, SerialInv, RestartStore \/ (\E ip \in IPs : ChangeIP(ip)) \/ UNCHANGED activeVars
  PROVE  SerialInv'
<1>1. ASSUME UNCHANGED <<kind, rows, copy, spc, req, hurt>> PROVE SerialInv'
  BY <1>1 DEF SerialInv, Alone, OneInForce, Quiet, Good, Follows, Flow, Active
<1>2. CASE RestartStore
  <2>1. StoreTypes /\ HasDefault(rows) /\ OneInForce
    BY TypeHalves DEF StoreInv, DefaultIntact, HasDefault, SerialInv
  <2>2. /\ DOMAIN rows' = DOMAIN rows
        /\ \A i \in DOMAIN rows :
              rows'[i] = IF rows[i].default THEN [rows[i] EXCEPT !.text = BuiltIn] ELSE rows[i]
    BY <1>2, <2>1, EnsureKeeps DEF RestartStore
  <2>3. \A i \in DOMAIN rows : rows[i].default => rows[i].text = BuiltIn
    BY DEF StoreInv, DefaultIntact
  <2>4. \A i \in DOMAIN rows :
           rows'[i].active = rows[i].active /\ rows'[i].text = rows[i].text
    BY <2>1, <2>2, <2>3 DEF StoreTypes, StoreRow
  <2>5. Active' = Active /\ OneInForce' /\ Active \subseteq DOMAIN rows
    BY <2>1, <2>2, <2>4 DEF Active, OneInForce
  <2>6. hurt' = (hurt \/ ~Quiet) /\ UNCHANGED <<kind, copy>>
    BY <1>2 DEF RestartStore, Quiet
  <2>7. Good'
    <3>1. SUFFICES ASSUME ~hurt' PROVE Active' # {} /\ Follows'
      BY DEF Good
    <3>2. Active # {} /\ Follows
      BY <2>6, <3>1 DEF SerialInv, Good
    <3> QED
      BY <2>4, <2>5, <2>6, <3>2 DEF Follows
  <2>8. \A a \in Admins : spc'[a] = "idle"
    BY <1>2 DEF RestartStore
  <2>9. Alone' /\ \A a \in Admins : Flow(a)'
    BY <2>8 DEF Alone, Flow
  <2> QED
    BY <2>5, <2>7, <2>9 DEF SerialInv
<1> QED
  BY <1>1, <1>2 DEF ChangeIP, activeVars

LEMMA SerialAlways == StoreSpec => [](~overlapped => SerialInv)
<1>1. ASSUME StoreInv, ~overlapped => SerialInv, [StoreNext]_activeVars, ~overlapped' PROVE SerialInv'
  <2>1. ASSUME NEW a \in Admins, Requests(a) PROVE SerialInv'
    <3>1. ~overlapped
      BY <1>1, <2>1 DEF Requests, Create, Update, DeleteEntry, SetActive, StartRequest
    <3> QED
      BY <1>1, <2>1, <3>1, StartStep
  <2>2. ASSUME NEW a \in Admins, Handle(a) \/ Fail(a) PROVE SerialInv'
    <3>1. ~overlapped
      BY <1>1, <2>2, HandlesDoNotStart
    <3> QED
      BY <1>1, <2>2, <3>1, ReadStep, WriteStep DEF Handle
  <2>3. ASSUME RestartStore \/ (\E ip \in IPs : ChangeIP(ip)) \/ UNCHANGED activeVars PROVE SerialInv'
    <3>1. ~overlapped
      BY <1>1, <2>3 DEF RestartStore, ChangeIP, activeVars
    <3> QED
      BY <1>1, <2>3, <3>1, OtherStep
  <2> QED
    BY <1>1, <2>1, <2>2, <2>3 DEF StoreNext
<1>2. StoreInv /\ (~overlapped => SerialInv) /\ [StoreNext]_activeVars => (~overlapped' => SerialInv')
  BY <1>1
<1> QED
  BY SerialInit, <1>2, StoreAlways, PTL DEF StoreSpec

\* Until two requests overlap there are never two rows in force: not in the
\* middle of a request, nor after a failed statement or a crash.
THEOREM NeverTwoActive == StoreSpec => []AtMostOneActive
<1>1. (~overlapped => SerialInv) => AtMostOneActive
  BY DEF SerialInv, AtMostOneActive
<1> QED
  BY <1>1, SerialAlways, PTL

\* Until two requests overlap there is a row in force between requests, unless
\* a request failed, died or named a missing row since the last activation.
THEOREM AlwaysOneActive == StoreSpec => []SomeActive
<1>1. (~overlapped => SerialInv) => SomeActive
  BY DEF SerialInv, SomeActive, Good
<1> QED
  BY <1>1, SerialAlways, PTL

\* Until two requests overlap the file has the content of the row in force.
THEOREM FileFollows == StoreSpec => []FileFollowsActive
<1>1. (~overlapped => SerialInv) => FileFollowsActive
  BY DEF SerialInv, FileFollowsActive, Good, Follows
<1> QED
  BY <1>1, SerialAlways, PTL

===============================================================================
