--------------------------- MODULE HostStore_proofs ---------------------------
(***************************************************************************)
(* Theorems about HostStore, for any addresses, passwords, bounds and       *)
(* number of overlapping requests.                                          *)
(***************************************************************************)
EXTENDS HostStore, TLAPS

\* A password read from a host's row was given for that host, as long as it is there.
ReadFromHost(req) ==
    req.pass = Keep \/ (/\ req.id < nextHost
                        /\ req.id \in DOMAIN hosts => req.pass \in entered[req.id])

\* What a request at a step may hold: the password of a new host and the one that
\* comes with an update are passwords, any other was read from the host's row.
Sound(label, req) ==
    /\ label \in {"create", "insert"} => req.pass \in Passwords
    /\ label \in {"old", "update", "write"} => req.id \in Ids
    /\ label = "old" => req.pass = Keep
    /\ label \in {"old", "import"} => ~req.given
    /\ label \in {"update", "write"} =>
           IF req.given THEN req.pass \in Passwords ELSE ReadFromHost(req)

AllSound == \A r \in HostRequests : Sound(hpc[r], hreq[r])

HostInv ==
    /\ HostTypeOK
    /\ UniqueIPMI
    /\ PasswordEntered
    /\ AllSound

\* HostTypeOK in its two halves: what is stored, and what the requests hold.
TableTypes ==
    /\ DOMAIN hosts \subseteq Ids
    /\ \A i \in DOMAIN hosts : hosts[i] \in Host /\ i < nextHost
    /\ nextHost \in 1..MaxHosts + 1
    /\ entered \in [Ids -> SUBSET Passwords]

RequestTypes ==
    /\ hpc \in [HostRequests -> HostLabels]
    /\ hreq \in [HostRequests -> HostReq]

AloneType == alone \in [HostRequests -> BOOLEAN]

LEMMA TypeParts == HostTypeOK <=> TableTypes /\ RequestTypes /\ AloneType
BY DEF HostTypeOK, TableTypes, RequestTypes, AloneType

LEMMA TypePartsNext == HostTypeOK' <=> TableTypes' /\ RequestTypes' /\ AloneType'
BY DEF HostTypeOK, TableTypes, RequestTypes, AloneType

LEMMA NoReqType == NoHostReq \in HostReq
BY MaxHostsAssumption, MaxFileAssumption DEF NoHostReq, HostReq, HostAddr, Ids

LEMMA HostInitInv == HostInit => HostInv
<1> SUFFICES ASSUME HostInit PROVE HostInv
  OBVIOUS
<1>1. DOMAIN hosts = {}
  BY DEF HostInit
<1>2. TableTypes
  BY <1>1, MaxHostsAssumption DEF HostInit, TableTypes, Ids
<1>3. RequestTypes /\ AloneType
  BY NoReqType DEF HostInit, RequestTypes, AloneType, HostLabels
<1>4. AllSound
  BY DEF HostInit, AllSound, Sound
<1> QED
  BY <1>1, <1>2, <1>3, <1>4, TypeParts DEF HostInv, UniqueIPMI, PasswordEntered

\* Ids are not used again, and the passwords given a host are its as long as it is
\* there.
Grows ==
    /\ nextHost' \in Nat /\ nextHost <= nextHost'
    /\ \A i \in DOMAIN hosts' :
          i < nextHost => i \in DOMAIN hosts /\ entered[i] \subseteq entered'[i]

LEMMA SoundStays ==
  ASSUME TableTypes, Grows, NEW label, NEW req, Sound(label, req)
  PROVE  Sound(label, req)'
<1>1. ASSUME label \in {"update", "write"}, ~req.given PROVE ReadFromHost(req)'
  <2>1. req.id \in Ids /\ ReadFromHost(req)
    BY <1>1 DEF Sound
  <2>2. CASE req.pass = Keep
    BY <2>2 DEF ReadFromHost
  <2>3. CASE req.id < nextHost /\ (req.id \in DOMAIN hosts => req.pass \in entered[req.id])
    <3>1. req.id \in Int /\ nextHost \in Int
      BY <2>1 DEF Ids, TableTypes
    <3>2. req.id < nextHost'
      BY <2>3, <3>1 DEF Grows
    <3>3. ASSUME req.id \in DOMAIN hosts' PROVE req.pass \in entered'[req.id]
      BY <2>3, <3>3 DEF Grows
    <3> QED
      BY <3>2, <3>3 DEF ReadFromHost
  <2> QED
    BY <2>1, <2>2, <2>3 DEF ReadFromHost
<1>2. ASSUME label \in {"update", "write"}
      PROVE  IF req.given THEN req.pass \in Passwords ELSE ReadFromHost(req)'
  BY <1>1, <1>2 DEF Sound
<1> QED
  BY <1>2 DEF Sound

\* A request goes to a step with what is sound there.
LEMMA HoldKeeps ==
  ASSUME TableTypes, RequestTypes, AllSound, Grows,
         NEW r \in HostRequests, NEW label \in HostLabels, NEW req \in HostReq,
         Hold(r, label, req), Sound(label, req)'
  PROVE  RequestTypes' /\ AllSound'
<1>1. RequestTypes'
  BY DEF RequestTypes, Hold
<1>2. ASSUME NEW x \in HostRequests
      PROVE  Sound(hpc[x], hreq[x])'
  <2>1. CASE x = r
    <3>1. hpc'[x] = label /\ hreq'[x] = req
      BY <2>1 DEF RequestTypes, Hold
    <3> QED
      BY <3>1
  <2>2. CASE x # r
    <3>1. hpc'[x] = hpc[x] /\ hreq'[x] = hreq[x]
      BY <2>2 DEF RequestTypes, Hold
    <3>2. \A l, q : Sound(l, q) => Sound(l, q)'
      BY SoundStays
    <3> QED
      BY <3>1, <3>2 DEF AllSound
  <2> QED
    BY <2>1, <2>2
<1> QED
  BY <1>1, <1>2 DEF AllSound

\* The tables stay and no id or password is given out.
LEMMA SameTables ==
  ASSUME TableTypes, UNCHANGED <<hosts, nextHost>>,
         \A i \in Ids : entered[i] \subseteq entered'[i],
         entered' \in [Ids -> SUBSET Passwords]
  PROVE  TableTypes' /\ Grows
<1>1. DOMAIN hosts \subseteq Ids /\ nextHost \in Nat
  BY MaxHostsAssumption DEF TableTypes
<1> QED
  BY <1>1 DEF TableTypes, Grows

\* A step that leaves the tables as they are.
LEMMA Moves ==
  ASSUME HostInv, UNCHANGED <<hosts, nextHost>>, AloneType',
         \A i \in Ids : entered[i] \subseteq entered'[i],
         entered' \in [Ids -> SUBSET Passwords],
         NEW r \in HostRequests, NEW label \in HostLabels, NEW req \in HostReq,
         Hold(r, label, req), Sound(label, req)'
  PROVE  HostInv'
<1>1. TableTypes /\ RequestTypes /\ AllSound
  BY TypeParts DEF HostInv
<1>2. TableTypes' /\ Grows
  BY <1>1, SameTables
<1>3. RequestTypes' /\ AllSound'
  BY <1>1, <1>2, HoldKeeps
<1>4. UniqueIPMI'
  BY DEF HostInv, UniqueIPMI
<1>5. PasswordEntered'
  <2> SUFFICES ASSUME NEW i \in DOMAIN hosts
               PROVE  hosts[i].pass \in entered'[i] \cup {Keep}
    BY DEF PasswordEntered
  <2>1. i \in Ids
    BY <1>1 DEF TableTypes
  <2> QED
    BY <2>1 DEF HostInv, PasswordEntered
<1> QED
  BY <1>2, <1>3, <1>4, <1>5, TypePartsNext DEF HostInv

\* The same for a step of a request that is under way.
LEMMA Steps ==
  ASSUME HostInv, UNCHANGED <<hosts, nextHost, entered, alone>>,
         NEW r \in HostRequests, NEW label \in HostLabels, NEW req \in HostReq,
         Hold(r, label, req), Sound(label, req)'
  PROVE  HostInv'
<1>1. AloneType' /\ entered' \in [Ids -> SUBSET Passwords]
  BY DEF HostInv, HostTypeOK, AloneType
<1> QED
  BY <1>1, Moves

LEMMA MeetType == ASSUME NEW r, NEW label, Meet(r, label) PROVE AloneType'
BY DEF Meet, AloneType

\* Where Return leads, nothing is asked of what a request holds but that its next
\* row's password is not said to be given.
LEMMA ReturnHolds ==
  ASSUME RequestTypes, NEW r \in HostRequests, NEW err \in BOOLEAN, Return(r, err)
  PROVE  \E label \in {"import", "idle"}, req \in HostReq : Hold(r, label, req) /\ ~req.given
<1>1. hreq[r] \in HostReq
  BY DEF RequestTypes
<1> DEFINE next == [NoHostReq EXCEPT !.import = TRUE, !.rows = hreq[r].rows, !.skipped = err]
<1>2. next \in HostReq /\ NoHostReq \in HostReq
  BY <1>1, NoReqType DEF HostReq, NoHostReq
<1>3. ~next.given /\ ~NoHostReq.given
  BY DEF NoHostReq
<1>4. Hold(r, "import", next) \/ Hold(r, "idle", NoHostReq)
  BY DEF Return
<1> HIDE DEF next
<1> QED
  BY <1>2, <1>3, <1>4

LEMMA SoundAnyway ==
  ASSUME NEW label \in {"idle", "import", "power", "call"}, NEW req,
         label = "import" => ~req.given
  PROVE  Sound(label, req)'
BY DEF Sound

(***************************************************************************)
(* One lemma per action.                                                    *)
(***************************************************************************)
LEMMA CreateArrives ==
  ASSUME HostInv, NEW r \in HostRequests, NEW a \in HostAddr, NEW p \in Passwords,
         handleCreateHost(r, a, p)
  PROVE  HostInv'
<1> DEFINE req == [NoHostReq EXCEPT !.addr = a, !.pass = p]
<1>1. req \in HostReq /\ req.pass = p
  BY NoReqType DEF HostReq, NoHostReq
<1>2. Hold(r, "create", req) /\ AloneType' /\ UNCHANGED <<hosts, nextHost, entered>>
  BY MeetType DEF handleCreateHost, Start
<1>3. Sound("create", req)'
  BY <1>1 DEF Sound
<1>4. entered' \in [Ids -> SUBSET Passwords]
  BY <1>2 DEF HostInv, HostTypeOK
<1>5. "create" \in HostLabels
  BY DEF HostLabels
<1> HIDE DEF req
<1> QED
  BY <1>1, <1>2, <1>3, <1>4, <1>5, Moves

LEMMA UpdateArrives ==
  ASSUME HostInv, NEW r \in HostRequests, NEW id \in Ids, NEW a \in HostAddr,
         NEW p \in Passwords \cup {Keep}, handleUpdateHost(r, id, a, p)
  PROVE  HostInv'
<1> DEFINE req == [NoHostReq EXCEPT !.id = id, !.addr = a, !.pass = p, !.given = p # Keep]
           label == IF p = Keep THEN "old" ELSE "update"
<1>1. req \in HostReq /\ req.id = id /\ req.pass = p
  <2>1. id \in 0..MaxHosts
    BY MaxHostsAssumption DEF Ids
  <2> QED
    BY <2>1, NoReqType DEF HostReq, NoHostReq
<1>2. req.given <=> p # Keep
  BY DEF NoHostReq
<1>3. Hold(r, label, req) /\ AloneType' /\ UNCHANGED <<hosts, nextHost, entered>>
  BY MeetType DEF handleUpdateHost, Start
<1>4. entered' \in [Ids -> SUBSET Passwords]
  BY <1>3 DEF HostInv, HostTypeOK
<1>5. label \in HostLabels
  BY DEF HostLabels
<1>6. Sound(label, req)'
  <2> HIDE DEF req
  <2> QED
    BY <1>1, <1>2 DEF Sound
<1> HIDE DEF req, label
<1> QED
  BY <1>1, <1>3, <1>4, <1>5, <1>6, Moves

LEMMA CheckKeeps ==
  ASSUME HostInv, NEW r \in HostRequests, CheckAgain(r)
  PROVE  HostInv'
<1>1. RequestTypes /\ hreq[r] \in HostReq /\ Sound(hpc[r], hreq[r])
  BY TypeParts DEF HostInv, AllSound, RequestTypes
<1>2. hpc[r] \in {"create", "update"} /\ UNCHANGED <<hosts, nextHost, entered, alone>>
  BY DEF CheckAgain
<1>3. CASE CheckHostUnique(hreq[r].addr, hreq[r].id)
  <2> DEFINE label == IF hpc[r] = "create" THEN "insert" ELSE "write"
  <2>1. Hold(r, label, hreq[r])
    BY <1>3 DEF CheckAgain
  <2>2. Sound(label, hreq[r])
    BY <1>1, <1>2 DEF Sound
  <2>3. \A l, q : Sound(l, q) => Sound(l, q)'
    BY <1>2 DEF Sound, ReadFromHost
  <2>4. label \in HostLabels
    BY DEF HostLabels
  <2> HIDE DEF label
  <2>5. PICK l \in HostLabels, q \in HostReq : l = label /\ q = hreq[r]
    BY <1>1, <2>4
  <2>6. Hold(r, l, q) /\ Sound(l, q)'
    BY <2>1, <2>2, <2>3, <2>5
  <2> QED
    BY <1>2, <2>6, Steps
<1>4. CASE ~CheckHostUnique(hreq[r].addr, hreq[r].id)
  <2>1. PICK l \in {"import", "idle"}, q \in HostReq : Hold(r, l, q) /\ ~q.given
    BY <1>1, <1>4, ReturnHolds DEF CheckAgain
  <2>2. Sound(l, q)' /\ l \in HostLabels
    BY <2>1, SoundAnyway DEF HostLabels
  <2> QED
    BY <1>2, <2>1, <2>2, Steps
<1> QED
  BY <1>3, <1>4

\* The host gets an id nobody holds, an address no other host has, and the
\* password that is noted as entered for it.
LEMMA CreateKeeps ==
  ASSUME HostInv, NEW r \in HostRequests, CreateHost(r)
  PROVE  HostInv'
<1>1. /\ TableTypes /\ RequestTypes /\ AloneType /\ AllSound
      /\ hreq[r] \in HostReq /\ hpc[r] = "insert"
  BY TypeParts DEF HostInv, RequestTypes, CreateHost
<1>2. PICK l \in {"import", "idle"}, q \in HostReq : Hold(r, l, q) /\ ~q.given
  BY <1>1, ReturnHolds DEF CreateHost
<1>3. Sound(l, q)' /\ l \in HostLabels
  BY <1>2, SoundAnyway DEF HostLabels
<1>4. CASE ~IndexAllows(hreq[r].addr, 0)
  <2>1. UNCHANGED <<hosts, nextHost, entered, alone>>
    BY <1>4 DEF CreateHost
  <2> QED
    BY <1>2, <1>3, <2>1, Steps
<1>5. CASE IndexAllows(hreq[r].addr, 0)
  <2> DEFINE n == nextHost
             new == [addr |-> hreq[r].addr, pass |-> hreq[r].pass]
  <2>1. /\ n <= MaxHosts
        /\ hosts' = [i \in DOMAIN hosts \cup {n} |-> IF i = n THEN new ELSE hosts[i]]
        /\ nextHost' = n + 1
        /\ entered' = [entered EXCEPT ![n] = {hreq[r].pass}]
        /\ alone' = alone
    BY <1>5 DEF CreateHost, NewId
  <2>2. n \in Ids /\ n \in Nat /\ nextHost' \in 1..MaxHosts + 1
    BY <1>1, <2>1, MaxHostsAssumption DEF TableTypes, Ids
  <2>3. \A i \in DOMAIN hosts : i \in Ids /\ i \in Int /\ i < n /\ i # n /\ hosts[i] \in Host
    BY <1>1, <2>2 DEF TableTypes, Ids
  <2>4. hreq[r].pass \in Passwords /\ hreq[r].addr \in HostAddr
    BY <1>1 DEF AllSound, Sound, HostReq
  <2>5. new \in Host /\ new.addr = hreq[r].addr /\ new.pass = hreq[r].pass
    BY <2>4 DEF Host
  <2> HIDE DEF new
  <2>6. /\ DOMAIN hosts' = DOMAIN hosts \cup {n}
        /\ hosts'[n] = new
        /\ \A i \in DOMAIN hosts : hosts'[i] = hosts[i]
    BY <2>1, <2>3
  <2>7. /\ entered' \in [Ids -> SUBSET Passwords]
        /\ entered'[n] = {hreq[r].pass}
        /\ \A i \in Ids : i # n => entered'[i] = entered[i]
    BY <1>1, <2>1, <2>2, <2>4 DEF TableTypes
  <2>8. TableTypes'
    <3>1. ASSUME NEW i \in DOMAIN hosts' PROVE hosts'[i] \in Host /\ i \in Ids /\ i < nextHost'
      <4>1. CASE i = n
        BY <4>1, <2>1, <2>2, <2>5, <2>6
      <4>2. CASE i # n
        <5>1. i \in DOMAIN hosts
          BY <4>2, <2>6
        <5> QED
          BY <5>1, <2>1, <2>2, <2>3, <2>6
      <4> QED
        BY <4>1, <4>2
    <3> QED
      BY <3>1, <2>2, <2>7 DEF TableTypes
  <2>9. Grows
    <3>1. nextHost' \in Nat /\ nextHost <= nextHost'
      BY <2>1, <2>2
    <3>2. ASSUME NEW i \in DOMAIN hosts', i < nextHost
          PROVE  i \in DOMAIN hosts /\ entered[i] \subseteq entered'[i]
      <4>1. i # n
        BY <2>2, <3>2
      <4>2. i \in DOMAIN hosts /\ i \in Ids
        BY <2>3, <2>6, <4>1
      <4> QED
        BY <2>7, <4>1, <4>2
    <3> QED
      BY <3>1, <3>2 DEF Grows
  <2>10. RequestTypes' /\ AllSound'
    BY <1>1, <1>2, <1>3, <2>9, HoldKeeps
  <2>11. UniqueIPMI'
    <3>1. \A i \in DOMAIN hosts : hosts[i].addr # hreq[r].addr
      <4>1. \A i \in DOMAIN hosts : i # 0
        BY <2>3 DEF Ids
      <4> QED
        BY <1>5, <4>1 DEF IndexAllows, Others
    <3> QED
      BY <3>1, <2>5, <2>6 DEF HostInv, UniqueIPMI
  <2>12. PasswordEntered'
    <3> SUFFICES ASSUME NEW i \in DOMAIN hosts'
                 PROVE  hosts'[i].pass \in entered'[i] \cup {Keep}
      BY DEF PasswordEntered
    <3>1. CASE i = n
      BY <3>1, <2>5, <2>6, <2>7
    <3>2. CASE i # n
      <4>1. i \in DOMAIN hosts /\ hosts'[i] = hosts[i]
        BY <3>2, <2>6
      <4> QED
        BY <3>2, <4>1, <2>3, <2>7 DEF HostInv, PasswordEntered
    <3> QED
      BY <3>1, <3>2
  <2>13. AloneType'
    BY <1>1, <2>1 DEF AloneType
  <2> QED
    BY <2>8, <2>10, <2>11, <2>12, <2>13, TypePartsNext DEF HostInv
<1> QED
  BY <1>4, <1>5

LEMMA OldKeeps ==
  ASSUME HostInv, NEW r \in HostRequests, GetOldPassword(r)
  PROVE  HostInv'
<1>1. /\ TableTypes /\ RequestTypes /\ hreq[r] \in HostReq
      /\ Sound("old", hreq[r]) /\ UNCHANGED <<hosts, nextHost, entered, alone>>
  BY TypeParts DEF HostInv, RequestTypes, AllSound, GetOldPassword
<1>2. \A l, q : Sound(l, q) => Sound(l, q)'
  BY <1>1 DEF Sound, ReadFromHost
<1>3. "update" \in HostLabels
  BY DEF HostLabels
<1> DEFINE id == hreq[r].id
           q == [hreq[r] EXCEPT !.pass = hosts[id].pass]
<1>4. CASE id \in DOMAIN hosts /\ Hold(r, "update", q)
  <2>1. hosts[id].pass \in entered[id] \cup {Keep} /\ hosts[id].pass \in Passwords \cup {Keep}
    BY <1>1, <1>4 DEF HostInv, PasswordEntered, TableTypes, Host
  <2>2. q \in HostReq /\ q.id = id /\ q.pass = hosts[id].pass
    BY <1>1, <2>1 DEF HostReq
  <2>3. q.given = hreq[r].given
    BY <1>1 DEF HostReq
  <2>4. id < nextHost
    BY <1>1, <1>4 DEF TableTypes
  <2>5. Hold(r, "update", q)
    BY <1>4
  <2> HIDE DEF q
  <2>6. ReadFromHost(q)
    BY <2>1, <2>2, <2>4 DEF ReadFromHost
  <2>7. Sound("update", q)
    BY <1>1, <2>2, <2>3, <2>6 DEF Sound
  <2>8. PICK x \in HostReq : x = q
    BY <2>2
  <2>9. Hold(r, "update", x) /\ Sound("update", x)'
    BY <1>2, <2>5, <2>7, <2>8
  <2> QED
    BY <1>1, <1>3, <2>9, Steps
<1>5. CASE Hold(r, "update", hreq[r])
  <2>1. Sound("update", hreq[r])
    BY <1>1 DEF Sound, ReadFromHost
  <2>2. PICK x \in HostReq : x = hreq[r]
    BY <1>1
  <2>3. Hold(r, "update", x) /\ Sound("update", x)'
    BY <1>2, <1>5, <2>1, <2>2
  <2> QED
    BY <1>1, <1>3, <2>3, Steps
<1> QED
  BY <1>4, <1>5 DEF GetOldPassword

\* The index refuses an address that another host has.
LEMMA UpdateKeeps ==
  ASSUME HostInv, NEW r \in HostRequests, UpdateHost(r)
  PROVE  HostInv'
<1> DEFINE id == hreq[r].id
           ok == id \in DOMAIN hosts /\ IndexAllows(hreq[r].addr, id)
           err == id \in DOMAIN hosts /\ ~IndexAllows(hreq[r].addr, id)
           new == [addr |-> hreq[r].addr, pass |-> hreq[r].pass]
<1>1. /\ TableTypes /\ RequestTypes /\ AloneType /\ AllSound
      /\ hreq[r] \in HostReq /\ Sound("write", hreq[r])
      /\ UNCHANGED <<nextHost, alone>>
  BY TypeParts DEF HostInv, RequestTypes, AllSound, UpdateHost
<1>2. Return(r, err)
  BY DEF UpdateHost
<1>3. err \in BOOLEAN
  OBVIOUS
<1> HIDE DEF err
<1>4. PICK l \in {"import", "idle"}, q \in HostReq : Hold(r, l, q) /\ ~q.given
  BY <1>1, <1>2, <1>3, ReturnHolds
<1>5. Sound(l, q)' /\ l \in HostLabels
  BY <1>4, SoundAnyway DEF HostLabels
<1>6. id \in Ids
  BY <1>1 DEF Sound
<1>7. entered' = IF hreq[r].given /\ id \in DOMAIN hosts
                 THEN [entered EXCEPT ![id] = @ \cup {hreq[r].pass}] ELSE entered
  BY DEF UpdateHost
<1>8. /\ entered' \in [Ids -> SUBSET Passwords]
      /\ \A i \in Ids : entered[i] \subseteq entered'[i]
  <2>1. hreq[r].given => hreq[r].pass \in Passwords
    BY <1>1 DEF Sound
  <2> QED
    BY <1>1, <1>6, <1>7, <2>1 DEF TableTypes
<1>9. CASE ~ok
  <2>1. hosts' = hosts
    BY <1>9 DEF UpdateHost
  <2>2. AloneType'
    BY <1>1 DEF AloneType
  <2> QED
    BY <1>1, <1>4, <1>5, <1>8, <2>1, <2>2, Moves
<1>10. CASE ok
  <2>1. hosts' = [hosts EXCEPT ![id] = new]
    BY <1>10 DEF UpdateHost
  <2>2. hreq[r].pass \in entered'[id] \cup {Keep}
    <3>1. CASE hreq[r].given
      BY <1>1, <1>6, <1>7, <1>10, <3>1 DEF TableTypes
    <3>2. CASE ~hreq[r].given
      <4>1. ReadFromHost(hreq[r])
        BY <1>1, <3>2 DEF Sound
      <4> QED
        BY <1>6, <1>8, <1>10, <4>1 DEF ReadFromHost
    <3> QED
      BY <3>1, <3>2
  <2>3. new \in Host /\ new.addr = hreq[r].addr /\ new.pass = hreq[r].pass
    BY <1>1 DEF Host, HostReq
  <2> HIDE DEF new
  <2>4. /\ DOMAIN hosts' = DOMAIN hosts
        /\ hosts'[id] = new
        /\ \A i \in DOMAIN hosts : i # id => hosts'[i] = hosts[i]
    BY <1>10, <2>1
  <2>5. TableTypes'
    BY <1>1, <1>8, <2>3, <2>4 DEF TableTypes
  <2>6. Grows
    <3>1. nextHost' \in Nat /\ nextHost <= nextHost'
      BY <1>1, MaxHostsAssumption DEF TableTypes
    <3>2. DOMAIN hosts' \subseteq Ids
      BY <2>5 DEF TableTypes
    <3> QED
      BY <1>8, <2>4, <3>1, <3>2 DEF Grows
  <2>7. RequestTypes' /\ AllSound'
    BY <1>1, <1>4, <1>5, <2>6, HoldKeeps
  <2>8. UniqueIPMI'
    <3>1. \A i \in DOMAIN hosts : i # id => hosts[i].addr # hreq[r].addr
      BY <1>10 DEF IndexAllows, Others
    <3> QED
      BY <3>1, <2>3, <2>4 DEF HostInv, UniqueIPMI
  <2>9. PasswordEntered'
    <3> SUFFICES ASSUME NEW i \in DOMAIN hosts
                 PROVE  hosts'[i].pass \in entered'[i] \cup {Keep}
      BY <2>4 DEF PasswordEntered
    <3>1. CASE i = id
      BY <2>2, <2>3, <2>4, <3>1
    <3>2. CASE i # id
      <4>1. hosts'[i] = hosts[i] /\ i \in Ids
        BY <1>1, <2>4, <3>2 DEF TableTypes
      <4> QED
        BY <1>8, <4>1 DEF HostInv, PasswordEntered
    <3> QED
      BY <3>1, <3>2
  <2>10. AloneType'
    BY <1>1 DEF AloneType
  <2> QED
    BY <2>5, <2>7, <2>8, <2>9, <2>10, TypePartsNext DEF HostInv
<1> QED
  BY <1>9, <1>10

LEMMA DeleteKeeps ==
  ASSUME HostInv, NEW ids, Delete(ids)
  PROVE  HostInv'
<1>1. TableTypes /\ RequestTypes /\ AllSound
  BY TypeParts DEF HostInv
<1>2. /\ DOMAIN hosts' \subseteq DOMAIN hosts \ ids
      /\ \A i \in DOMAIN hosts' : hosts'[i] = hosts[i]
      /\ UNCHANGED <<nextHost, hpc, hreq>>
      /\ entered' = [i \in Ids |-> IF i \in ids THEN {} ELSE entered[i]]
  BY DEF Delete
<1>3. /\ entered' \in [Ids -> SUBSET Passwords]
      /\ \A i \in DOMAIN hosts' : i \in Ids /\ entered'[i] = entered[i]
  BY <1>1, <1>2 DEF TableTypes
<1>4. TableTypes'
  BY <1>1, <1>2, <1>3 DEF TableTypes
<1>5. RequestTypes' /\ AloneType'
  BY <1>1, <1>2 DEF RequestTypes, AloneType, Delete
<1>6. AllSound'
  <2>1. Grows
    BY <1>1, <1>2, <1>3, MaxHostsAssumption DEF Grows, TableTypes
  <2>2. \A l, q : Sound(l, q) => Sound(l, q)'
    BY <1>1, <2>1, SoundStays
  <2> QED
    BY <1>1, <1>2, <2>2 DEF AllSound
<1>7. UniqueIPMI' /\ PasswordEntered'
  BY <1>2, <1>3 DEF HostInv, UniqueIPMI, PasswordEntered
<1> QED
  BY <1>4, <1>5, <1>6, <1>7, TypePartsNext DEF HostInv

LEMMA ImportArrives ==
  ASSUME HostInv, NEW r \in HostRequests, NEW n \in 0..MaxFile, handleImportHostExcel(r, n)
  PROVE  HostInv'
<1> DEFINE req == [NoHostReq EXCEPT !.import = TRUE, !.rows = n]
<1>1. req \in HostReq /\ ~req.given
  BY NoReqType DEF HostReq, NoHostReq
<1>2. Hold(r, "import", req) /\ AloneType' /\ UNCHANGED <<hosts, nextHost, entered>>
  BY MeetType DEF handleImportHostExcel, Start
<1>3. Sound("import", req)' /\ "import" \in HostLabels
  <2> HIDE DEF req
  <2> QED
    BY <1>1, SoundAnyway DEF HostLabels
<1>4. entered' \in [Ids -> SUBSET Passwords]
  BY <1>2 DEF HostInv, HostTypeOK
<1> HIDE DEF req
<1> QED
  BY <1>1, <1>2, <1>3, <1>4, Moves

LEMMA UpsertKeeps ==
  ASSUME HostInv, NEW r \in HostRequests, NEW a \in HostAddr, NEW p \in Passwords,
         upsertHostBasic(r, a, p)
  PROVE  HostInv'
<1> DEFINE row == [hreq[r] EXCEPT !.rows = @ - 1, !.skipped = FALSE, !.addr = a]
<1>1. /\ TableTypes /\ hreq[r] \in HostReq /\ hreq[r].rows > 0 /\ ~hreq[r].given
      /\ UNCHANGED <<hosts, nextHost, entered, alone>>
  BY TypeParts DEF HostInv, RequestTypes, AllSound, Sound, upsertHostBasic
<1>2. row \in HostReq /\ ~row.given
  <2>1. hreq[r].rows - 1 \in 0..MaxFile
    BY <1>1, MaxFileAssumption DEF HostReq
  <2>2. row \in HostReq
    BY <1>1, <2>1 DEF HostReq
  <2>3. row.given = hreq[r].given
    BY <1>1 DEF HostReq
  <2> QED
    BY <1>1, <2>2, <2>3
<1>3. "create" \in HostLabels /\ "update" \in HostLabels
  BY DEF HostLabels
<1>4. CASE Stored(a)
  <2>1. PICK i \in DOMAIN hosts : Hold(r, "update", [row EXCEPT !.id = i, !.pass = hosts[i].pass])
    BY <1>4 DEF upsertHostBasic
  <2> DEFINE q == [row EXCEPT !.id = i, !.pass = hosts[i].pass]
  <2>2. /\ i \in Ids /\ i \in 0..MaxHosts /\ i < nextHost
        /\ hosts[i].pass \in Passwords \cup {Keep} /\ hosts[i].pass \in entered[i] \cup {Keep}
    BY <1>1, MaxHostsAssumption DEF TableTypes, Ids, Host, HostInv, PasswordEntered
  <2>3. q \in HostReq /\ q.id = i /\ q.pass = hosts[i].pass /\ ~q.given
    <3> HIDE DEF row
    <3>1. q \in HostReq /\ q.id = i /\ q.pass = hosts[i].pass
      BY <1>2, <2>2 DEF HostReq
    <3>2. q.given = row.given
      BY <1>2 DEF HostReq
    <3> QED
      BY <1>2, <3>1, <3>2
  <2> HIDE DEF q
  <2>4. PICK x \in HostReq : x = q
    BY <2>3
  <2>5. x.id = i /\ x.pass = hosts[i].pass /\ ~x.given
    BY <2>3, <2>4
  <2>6. Sound("update", x)'
    BY <1>1, <2>2, <2>5 DEF Sound, ReadFromHost
  <2>7. Hold(r, "update", x)
    BY <2>1, <2>4 DEF q
  <2> QED
    BY <1>1, <1>3, <2>6, <2>7, Steps
<1>5. CASE ~Stored(a)
  <2> DEFINE q == [row EXCEPT !.pass = p]
  <2>1. Hold(r, "create", q)
    BY <1>5 DEF upsertHostBasic
  <2>2. q \in HostReq /\ q.pass = p
    <3> HIDE DEF row
    <3> QED
      BY <1>2 DEF HostReq
  <2> HIDE DEF q
  <2>3. PICK x \in HostReq : x = q
    BY <2>2
  <2>4. Sound("create", x)' /\ Hold(r, "create", x)
    BY <2>1, <2>2, <2>3 DEF Sound
  <2> QED
    BY <1>1, <1>3, <2>4, Steps
<1> QED
  BY <1>4, <1>5

LEMMA CommandArrives ==
  ASSUME HostInv, NEW r \in HostRequests, NEW ids \in SUBSET Ids, handleBatchIPMI(r, ids)
  PROVE  HostInv'
<1> DEFINE req == [NoHostReq EXCEPT !.ids = ids]
<1>1. req \in HostReq
  BY NoReqType DEF HostReq, NoHostReq
<1>2. Hold(r, "power", req) /\ AloneType' /\ UNCHANGED <<hosts, nextHost, entered>>
  BY MeetType DEF handleBatchIPMI, Start
<1>3. Sound("power", req)' /\ "power" \in HostLabels
  BY SoundAnyway DEF HostLabels
<1>4. entered' \in [Ids -> SUBSET Passwords]
  BY <1>2 DEF HostInv, HostTypeOK
<1> HIDE DEF req
<1> QED
  BY <1>1, <1>2, <1>3, <1>4, Moves

\* The steps of a request that ask nothing of what it holds afterwards.
LEMMA FreeSteps ==
  ASSUME HostInv, UNCHANGED <<hosts, nextHost, entered>>, AloneType',
         entered' \in [Ids -> SUBSET Passwords],
         NEW r \in HostRequests, NEW label \in {"idle", "power", "call"}, NEW req,
         req \in HostReq, Hold(r, label, req)
  PROVE  HostInv'
<1>1. PICK x \in HostReq : x = req
  OBVIOUS
<1>2. Sound(label, x)' /\ label \in HostLabels /\ Hold(r, label, x)
  BY <1>1, SoundAnyway DEF HostLabels
<1> QED
  BY <1>2, Moves

LEMMA CommandKeeps ==
  ASSUME HostInv, NEW r \in HostRequests, GetHostByID(r) \/ runCommand(r) \/ Respond(r)
  PROVE  HostInv'
<1>1. /\ TableTypes /\ hreq[r] \in HostReq
      /\ UNCHANGED <<hosts, nextHost, entered>> /\ entered' \in [Ids -> SUBSET Passwords]
  BY TypeParts DEF HostInv, RequestTypes, TableTypes, GetHostByID, runCommand, Respond
<1>b. AloneType'
  BY DEF HostInv, HostTypeOK, AloneType, GetHostByID, runCommand, Respond
<1>2. CASE GetHostByID(r)
  <2>1. PICK id \in hreq[r].ids :
           LET rest == [hreq[r] EXCEPT !.ids = @ \ {id}] IN
           IF id \in DOMAIN hosts /\ hosts[id].addr # NoAddress
           THEN Hold(r, "call", [rest EXCEPT !.addr = hosts[id].addr])
           ELSE Hold(r, "power", rest)
    BY <1>2 DEF GetHostByID
  <2> DEFINE rest == [hreq[r] EXCEPT !.ids = @ \ {id}]
  <2>2. rest \in HostReq
    BY <1>1 DEF HostReq
  <2>3. CASE id \in DOMAIN hosts /\ hosts[id].addr # NoAddress
    <3> DEFINE q == [rest EXCEPT !.addr = hosts[id].addr]
    <3>1. hosts[id].addr \in HostAddr
      BY <1>1, <2>3 DEF TableTypes, Host
    <3>2. q \in HostReq
      <4> HIDE DEF rest
      <4> QED
        BY <2>2, <3>1 DEF HostReq
    <3>3. Hold(r, "call", q)
      BY <2>1, <2>3
    <3> HIDE DEF q
    <3> QED
      BY <1>1, <1>b, <3>2, <3>3, FreeSteps
  <2>4. CASE ~(id \in DOMAIN hosts /\ hosts[id].addr # NoAddress)
    <3>1. Hold(r, "power", rest)
      BY <2>1, <2>4
    <3> HIDE DEF rest
    <3> QED
      BY <1>1, <1>b, <2>2, <3>1, FreeSteps
  <2> QED
    BY <2>3, <2>4
<1>3. CASE runCommand(r)
  <2> DEFINE q == [NoHostReq EXCEPT !.ids = hreq[r].ids]
  <2>1. q \in HostReq
    BY <1>1, NoReqType DEF HostReq, NoHostReq
  <2>2. Hold(r, "power", q)
    BY <1>3 DEF runCommand
  <2> HIDE DEF q
  <2> QED
    BY <1>1, <1>b, <2>1, <2>2, FreeSteps
<1>4. CASE Respond(r)
  <2>1. Hold(r, "idle", NoHostReq)
    BY <1>4 DEF Respond
  <2> QED
    BY <1>1, <1>b, <2>1, NoReqType, FreeSteps
<1> QED
  BY <1>2, <1>3, <1>4

(***************************************************************************)
(* The theorems.                                                            *)
(***************************************************************************)
LEMMA HostNextInv == HostInv /\ [HostNext]_hostVars => HostInv'
<1> SUFFICES ASSUME HostInv, [HostNext]_hostVars PROVE HostInv'
  OBVIOUS
<1>1. CASE UNCHANGED hostVars
  BY <1>1 DEF hostVars, HostInv, HostTypeOK, UniqueIPMI, PasswordEntered, AllSound, Sound,
              ReadFromHost
<1>2. ASSUME NEW r \in HostRequests, HostStep(r)
      PROVE  HostInv'
  BY <1>2, CheckKeeps, CreateKeeps, OldKeeps, UpdateKeeps, UpsertKeeps, CommandKeeps DEF HostStep
<1>3. ASSUME NEW r \in HostRequests, NEW a \in HostAddr, NEW p \in Passwords, handleCreateHost(r, a, p)
      PROVE  HostInv'
  BY <1>3, CreateArrives
<1>4. ASSUME NEW r \in HostRequests, NEW id \in Ids, NEW a \in HostAddr,
             NEW p \in Passwords \cup {Keep}, handleUpdateHost(r, id, a, p)
      PROVE  HostInv'
  BY <1>4, UpdateArrives
<1>5. ASSUME NEW r \in HostRequests, NEW n \in 0..MaxFile, handleImportHostExcel(r, n)
      PROVE  HostInv'
  BY <1>5, ImportArrives
<1>6. ASSUME NEW r \in HostRequests, NEW ids \in SUBSET Ids, handleBatchIPMI(r, ids)
      PROVE  HostInv'
  BY <1>6, CommandArrives
<1>7. ASSUME NEW r \in HostRequests, NEW id \in Ids, handleIPMIPower(r, id)
      PROVE  HostInv'
  <2>1. {id} \in SUBSET Ids /\ handleBatchIPMI(r, {id})
    BY <1>7 DEF handleIPMIPower
  <2> QED
    BY <2>1, <1>6
<1>8. ASSUME NEW id \in Ids, handleDeleteHost(id)
      PROVE  HostInv'
  BY <1>8, DeleteKeeps DEF handleDeleteHost
<1>9. ASSUME NEW ids \in SUBSET Ids, handleBatchDeleteHost(ids)
      PROVE  HostInv'
  BY <1>9, DeleteKeeps DEF handleBatchDeleteHost
<1> QED
  BY <1>1, <1>2, <1>3, <1>4, <1>5, <1>6, <1>7, <1>8, <1>9 DEF HostNext

LEMMA HostInvAlways == HostSpec => []HostInv
<1>1. HostInit => HostInv
  BY HostInitInv
<1>2. HostInv /\ [HostNext]_hostVars => HostInv'
  BY HostNextInv
<1> QED
  BY <1>1, <1>2, PTL DEF HostSpec

\* host_info and the requests keep their types, for any number of them.
THEOREM HostTypeCorrect == HostSpec => []HostTypeOK
<1>1. HostInv => HostTypeOK
  BY DEF HostInv
<1> QED
  BY <1>1, HostInvAlways, PTL

\* Whatever requests overlap, no two hosts have the same IPMI address: the checks
\* of handleCreateHost and CreateHost can both pass, the index stops the second.
THEOREM AddressesStayUnique == HostSpec => []UniqueIPMI
<1>1. HostInv => UniqueIPMI
  BY DEF HostInv
<1> QED
  BY <1>1, HostInvAlways, PTL

\* A password kept from an earlier read is written only to the host it was given
\* for, because ids are not used twice; when there was none to keep, the blank or
\* the mask is what is written.
THEOREM PasswordsStayHome == HostSpec => []PasswordEntered
<1>1. HostInv => PasswordEntered
  BY DEF HostInv
<1> QED
  BY <1>1, HostInvAlways, PTL

(***************************************************************************)
(* ImportReaches.                                                           *)
(***************************************************************************)
\* What the import of a request that has met no other finds at each step: the
\* table is as the row's look at it was.
Fits(label, req) ==
    req.import =>
        /\ label \in {"import", "create", "insert", "update", "write"}
        /\ label \in {"create", "insert"} => ~Stored(req.addr)
        /\ label \in {"update", "write"} =>
               req.id \in DOMAIN hosts /\ hosts[req.id] = [addr |-> req.addr, pass |-> req.pass]

LoneInv ==
    \A r \in HostRequests : alone[r] => InFlight \subseteq {r} /\ Fits(hpc[r], hreq[r])

\* The hosts that were there stay, and the row that r has come back with has one.
HostsStay == \A i \in DOMAIN hosts : i \in DOMAIN hosts' /\ hosts'[i] = hosts[i]

Arrived(r) ==
    hpc[r] # "import" /\ hpc'[r] = "import" =>
        /\ ~hreq'[r].skipped
        /\ \E i \in DOMAIN hosts' : hosts'[i].addr = hreq[r].addr

Reached(r) == hreq[r].import => HostsStay /\ Arrived(r)

LEMMA HoldValues ==
  ASSUME RequestTypes, NEW r \in HostRequests, NEW label, NEW req, Hold(r, label, req)
  PROVE  /\ hpc'[r] = label /\ hreq'[r] = req
         /\ \A x \in HostRequests : x # r => hpc'[x] = hpc[x] /\ hreq'[x] = hreq[x]
BY DEF RequestTypes, Hold

LEMMA ReturnValues ==
  ASSUME RequestTypes, NEW r \in HostRequests, NEW err \in BOOLEAN, Return(r, err)
  PROVE  /\ \E label, req : Hold(r, label, req)
         /\ hreq'[r].import = hreq[r].import
         /\ hpc'[r] = IF hreq[r].import THEN "import" ELSE "idle"
         /\ hreq[r].import => hreq'[r].skipped = err
<1>1. hreq[r].import \in BOOLEAN
  BY DEF RequestTypes, HostReq
<1>2. CASE hreq[r].import
  <2> DEFINE q == [NoHostReq EXCEPT !.import = TRUE, !.rows = hreq[r].rows,
                                !.skipped = err]
  <2>1. q.import = TRUE /\ q.skipped = err
    BY DEF NoHostReq
  <2>2. Hold(r, "import", q)
    BY <1>2 DEF Return
  <2> HIDE DEF q
  <2>3. hpc'[r] = "import" /\ hreq'[r] = q
    BY <2>2, HoldValues
  <2> QED
    BY <1>1, <1>2, <2>1, <2>2, <2>3
<1>3. CASE ~hreq[r].import
  <2>1. Hold(r, "idle", NoHostReq)
    BY <1>3 DEF Return
  <2>2. hpc'[r] = "idle" /\ hreq'[r] = NoHostReq /\ NoHostReq.import = FALSE
    BY <2>1, HoldValues DEF NoHostReq
  <2> QED
    BY <1>1, <1>3, <2>1, <2>2
<1> QED
  BY <1>2, <1>3

\* No other host has the address of the row that is in hand.
LEMMA NoOthers ==
  ASSUME HostInv, NEW r \in HostRequests, Fits(hpc[r], hreq[r]), hreq[r].import,
         hpc[r] \in {"create", "insert", "update", "write"}
  PROVE  /\ Others(hreq[r].addr, hreq[r].id) = {}
         /\ hpc[r] \in {"create", "insert"} => Others(hreq[r].addr, 0) = {}
<1>1. CASE hpc[r] \in {"create", "insert"}
  BY <1>1 DEF Fits, Stored, Others
<1>2. CASE hpc[r] \in {"update", "write"}
  BY <1>2 DEF Fits, Others, HostInv, UniqueIPMI
<1> QED
  BY <1>1, <1>2

LEMMA CheckFits ==
  ASSUME HostInv, NEW r \in HostRequests, Fits(hpc[r], hreq[r]), CheckAgain(r)
  PROVE  /\ \E label, req : Hold(r, label, req)
         /\ Fits(hpc[r], hreq[r])' /\ Reached(r)
<1>1. RequestTypes /\ hpc[r] \in {"create", "update"} /\ hosts' = hosts
  BY TypeParts DEF HostInv, CheckAgain
<1>2. CASE CheckHostUnique(hreq[r].addr, hreq[r].id)
  <2> DEFINE label == IF hpc[r] = "create" THEN "insert" ELSE "write"
  <2>1. Hold(r, label, hreq[r])
    BY <1>2 DEF CheckAgain
  <2>2. hpc'[r] = label /\ hreq'[r] = hreq[r]
    BY <1>1, <2>1, HoldValues
  <2>3. Fits(hpc[r], hreq[r])'
    BY <1>1, <2>2 DEF Fits, Stored
  <2>4. HostsStay /\ (hreq[r].import => Arrived(r))
    BY <1>1, <2>2 DEF HostsStay, Arrived
  <2> QED
    BY <2>1, <2>3, <2>4 DEF Reached
<1>3. CASE ~CheckHostUnique(hreq[r].addr, hreq[r].id)
  <2>1. Return(r, TRUE)
    BY <1>3 DEF CheckAgain
  <2>2. ~hreq[r].import
    BY <1>1, <1>3, NoOthers DEF CheckHostUnique
  <2>3. hreq'[r].import = hreq[r].import /\ \E label, req : Hold(r, label, req)
    BY <1>1, <2>1, ReturnValues
  <2> QED
    BY <2>2, <2>3 DEF Fits, Reached
<1> QED
  BY <1>2, <1>3

LEMMA CreateFits ==
  ASSUME HostInv, NEW r \in HostRequests, Fits(hpc[r], hreq[r]), CreateHost(r)
  PROVE  /\ \E label, req : Hold(r, label, req)
         /\ Fits(hpc[r], hreq[r])' /\ Reached(r)
<1> DEFINE err == ~IndexAllows(hreq[r].addr, 0)
<1>1. RequestTypes /\ hpc[r] = "insert" /\ Return(r, err) /\ err \in BOOLEAN
  BY TypeParts DEF HostInv, CreateHost
<1> HIDE DEF err
<1>2. /\ \E label, req : Hold(r, label, req)
      /\ hreq'[r].import = hreq[r].import
      /\ hpc'[r] = IF hreq[r].import THEN "import" ELSE "idle"
      /\ hreq[r].import => hreq'[r].skipped = err
  BY <1>1, ReturnValues
<1>3. ASSUME hreq[r].import
      PROVE  err = FALSE /\ HostsStay /\ \E i \in DOMAIN hosts' : hosts'[i].addr = hreq[r].addr
  <2>1. IndexAllows(hreq[r].addr, 0)
    BY <1>1, <1>3, NoOthers DEF IndexAllows
  <2>2. hosts' = [i \in DOMAIN hosts \cup {NewId} |->
                     IF i = NewId THEN [addr |-> hreq[r].addr, pass |-> hreq[r].pass]
                     ELSE hosts[i]]
    BY <2>1 DEF CreateHost
  <2>3. NewId \in DOMAIN hosts' /\ hosts'[NewId].addr = hreq[r].addr
    BY <2>2
  <2>4. NewId \notin DOMAIN hosts
    BY TypeParts DEF HostInv, TableTypes, NewId, Ids
  <2>5. HostsStay
    BY <2>2, <2>4 DEF HostsStay
  <2> QED
    BY <2>1, <2>3, <2>5 DEF err
<1>4. Reached(r)
  BY <1>2, <1>3 DEF Reached, Arrived
<1>5. Fits(hpc[r], hreq[r])'
  BY <1>2, <1>3 DEF Fits
<1> QED
  BY <1>2, <1>4, <1>5

LEMMA UpdateFits ==
  ASSUME HostInv, NEW r \in HostRequests, Fits(hpc[r], hreq[r]), UpdateHost(r)
  PROVE  /\ \E label, req : Hold(r, label, req)
         /\ Fits(hpc[r], hreq[r])' /\ Reached(r)
<1> DEFINE id == hreq[r].id
           err == id \in DOMAIN hosts /\ ~IndexAllows(hreq[r].addr, id)
<1>1. RequestTypes /\ hpc[r] = "write" /\ Return(r, err) /\ err \in BOOLEAN
  BY TypeParts DEF HostInv, UpdateHost
<1> HIDE DEF err
<1>2. /\ \E label, req : Hold(r, label, req)
      /\ hreq'[r].import = hreq[r].import
      /\ hpc'[r] = IF hreq[r].import THEN "import" ELSE "idle"
      /\ hreq[r].import => hreq'[r].skipped = err
  BY <1>1, ReturnValues
<1>3. ASSUME hreq[r].import
      PROVE  err = FALSE /\ HostsStay /\ \E i \in DOMAIN hosts' : hosts'[i].addr = hreq[r].addr
  <2>1. id \in DOMAIN hosts /\ IndexAllows(hreq[r].addr, id)
    BY <1>1, <1>3, NoOthers DEF IndexAllows, Fits
  <2>2. hosts' = [hosts EXCEPT ![id] = [addr |-> hreq[r].addr, pass |-> hreq[r].pass]]
    BY <2>1 DEF UpdateHost
  <2>3. id \in DOMAIN hosts' /\ hosts'[id].addr = hreq[r].addr
    BY <2>1, <2>2
  <2>4. hosts[id] = [addr |-> hreq[r].addr, pass |-> hreq[r].pass]
    BY <1>1, <1>3 DEF Fits
  <2>5. HostsStay
    BY <2>1, <2>2, <2>4 DEF HostsStay
  <2> QED
    BY <2>1, <2>3, <2>5 DEF err
<1>4. Reached(r)
  BY <1>2, <1>3 DEF Reached, Arrived
<1>5. Fits(hpc[r], hreq[r])'
  BY <1>2, <1>3 DEF Fits
<1> QED
  BY <1>2, <1>4, <1>5

LEMMA UpsertFits ==
  ASSUME HostInv, NEW r \in HostRequests, NEW a, NEW p,
         Fits(hpc[r], hreq[r]), upsertHostBasic(r, a, p)
  PROVE  /\ \E label, req : Hold(r, label, req)
         /\ Fits(hpc[r], hreq[r])' /\ Reached(r)
<1> DEFINE row == [hreq[r] EXCEPT !.rows = @ - 1, !.skipped = FALSE, !.addr = a]
<1>1. RequestTypes /\ hpc[r] = "import" /\ hosts' = hosts /\ hreq[r] \in HostReq
  BY TypeParts DEF HostInv, upsertHostBasic, RequestTypes
<1>2. HostsStay
  BY <1>1 DEF HostsStay
<1>3. CASE Stored(a)
  <2>1. PICK i \in DOMAIN hosts :
          /\ hosts[i].addr = a
          /\ Hold(r, "update", [row EXCEPT !.id = i, !.pass = hosts[i].pass])
    BY <1>3 DEF upsertHostBasic
  <2> DEFINE q == [row EXCEPT !.id = i, !.pass = hosts[i].pass]
  <2>2. q.id = i /\ q.addr = a /\ q.pass = hosts[i].pass /\ q.import = hreq[r].import
    BY <1>1 DEF HostReq
  <2>3. Hold(r, "update", q)
    BY <2>1
  <2> HIDE DEF q
  <2>4. hpc'[r] = "update" /\ hreq'[r] = q
    BY <1>1, <2>3, HoldValues
  <2>5. Fits(hpc[r], hreq[r])'
    <3>1. hosts[i] = [addr |-> a, pass |-> q.pass]
      BY <2>1, <2>2, TypeParts DEF HostInv, TableTypes, Host
    <3> QED
      BY <1>1, <2>2, <2>4, <3>1 DEF Fits
  <2> QED
    BY <1>2, <2>3, <2>4, <2>5 DEF Reached, Arrived
<1>4. CASE ~Stored(a)
  <2> DEFINE q == [row EXCEPT !.pass = p]
  <2>1. q.addr = a /\ q.import = hreq[r].import
    BY <1>1 DEF HostReq
  <2>2. Hold(r, "create", q)
    BY <1>4 DEF upsertHostBasic
  <2> HIDE DEF q
  <2>3. hpc'[r] = "create" /\ hreq'[r] = q
    BY <1>1, <2>2, HoldValues
  <2>4. Fits(hpc[r], hreq[r])'
    BY <1>1, <1>4, <2>1, <2>3 DEF Fits, Stored
  <2> QED
    BY <1>2, <2>2, <2>3, <2>4 DEF Reached, Arrived
<1> QED
  BY <1>3, <1>4

\* The steps of requests that are no imports, and the end of an import.
LEMMA OtherFits ==
  ASSUME HostInv, NEW r \in HostRequests, Fits(hpc[r], hreq[r]),
         GetOldPassword(r) \/ GetHostByID(r) \/ runCommand(r) \/ Respond(r)
  PROVE  /\ \E label, req : Hold(r, label, req)
         /\ Fits(hpc[r], hreq[r])' /\ Reached(r)
<1>1. RequestTypes /\ hreq[r] \in HostReq /\ HostsStay
  BY TypeParts DEF HostInv, RequestTypes, HostsStay, GetOldPassword, GetHostByID, runCommand, Respond
<1>2. NoHostReq.import = FALSE
  BY DEF NoHostReq
<1>3. ASSUME NEW label, NEW req, Hold(r, label, req), req.import = FALSE, label # "import"
      PROVE  /\ \E l, q : Hold(r, l, q)
             /\ Fits(hpc[r], hreq[r])' /\ Reached(r)
  <2>1. hpc'[r] = label /\ hreq'[r] = req
    BY <1>1, <1>3, HoldValues
  <2> QED
    BY <1>1, <1>3, <2>1 DEF Fits, Reached, Arrived
<1>4. CASE GetOldPassword(r)
  <2> DEFINE q == [hreq[r] EXCEPT !.pass = hosts[hreq[r].id].pass]
  <2>1. Hold(r, "update", q) \/ Hold(r, "update", hreq[r])
    BY <1>4 DEF GetOldPassword
  <2>2. hreq[r].import = FALSE
    BY <1>1, <1>4 DEF GetOldPassword, Fits, HostReq
  <2>3. q.import = FALSE
    BY <1>1, <2>2 DEF HostReq
  <2> HIDE DEF q
  <2> QED
    BY <1>3, <2>1, <2>2, <2>3
<1>5. CASE GetHostByID(r)
  <2>1. hreq[r].import = FALSE
    BY <1>1, <1>5 DEF GetHostByID, Fits, HostReq
  <2>2. PICK id \in hreq[r].ids :
           LET rest == [hreq[r] EXCEPT !.ids = @ \ {id}] IN
           IF id \in DOMAIN hosts /\ hosts[id].addr # NoAddress
           THEN Hold(r, "call", [rest EXCEPT !.addr = hosts[id].addr])
           ELSE Hold(r, "power", rest)
    BY <1>5 DEF GetHostByID
  <2> DEFINE rest == [hreq[r] EXCEPT !.ids = @ \ {id}]
             found == [rest EXCEPT !.addr = hosts[id].addr]
  <2>3. rest.import = FALSE /\ found.import = FALSE
    BY <1>1, <2>1 DEF HostReq
  <2>4. Hold(r, "call", found) \/ Hold(r, "power", rest)
    BY <2>2
  <2> HIDE DEF rest, found
  <2> QED
    BY <1>3, <2>3, <2>4
<1>6. CASE runCommand(r)
  <2> DEFINE q == [NoHostReq EXCEPT !.ids = hreq[r].ids]
  <2>1. Hold(r, "power", q)
    BY <1>6 DEF runCommand
  <2>2. q.import = FALSE
    BY DEF NoHostReq
  <2> HIDE DEF q
  <2> QED
    BY <1>3, <2>1, <2>2
<1>7. CASE Respond(r)
  <2>1. Hold(r, "idle", NoHostReq)
    BY <1>7 DEF Respond
  <2> QED
    BY <1>2, <1>3, <2>1
<1> QED
  BY <1>4, <1>5, <1>6, <1>7

AllReached == \A r \in HostRequests : alone[r] /\ alone'[r] => Reached(r)

\* A step of a request in flight: a request that has met no other is that one.
LEMMA StepReaches ==
  ASSUME HostInv, LoneInv, NEW r \in HostRequests, HostStep(r)
  PROVE  LoneInv' /\ AllReached
<1>1. hpc[r] # "idle" /\ \A x \in HostRequests : alone'[x] => alone[x]
  <2>1. hpc[r] # "idle" /\ (UNCHANGED alone \/ alone' = [alone EXCEPT ![r] = FALSE])
    BY DEF HostStep, CheckAgain, CreateHost, GetOldPassword, UpdateHost,
           upsertHostBasic, GetHostByID, runCommand, Respond
  <2>2. alone \in [HostRequests -> BOOLEAN]
    BY DEF HostInv, HostTypeOK
  <2> QED
    BY <2>1, <2>2
<1> SUFFICES ASSUME NEW x \in HostRequests, alone[x]
             PROVE  InFlight' \subseteq {x} /\ Fits(hpc[x], hreq[x])' /\ Reached(x)
  BY <1>1 DEF LoneInv, AllReached
<1>2. InFlight \subseteq {x} /\ Fits(hpc[x], hreq[x])
  BY DEF LoneInv
<1>3. x = r
  BY <1>1, <1>2 DEF InFlight
<1>4. /\ \E label, req : Hold(r, label, req)
      /\ Fits(hpc[r], hreq[r])' /\ Reached(r)
  BY <1>2, <1>3, CheckFits, CreateFits, UpdateFits, UpsertFits, OtherFits DEF HostStep
<1>5. InFlight' \subseteq {x}
  <2>1. PICK label, req : Hold(r, label, req)
    BY <1>4
  <2>2. \A y \in HostRequests : y # r => hpc'[y] = hpc[y]
    BY <2>1, HoldValues, TypeParts DEF HostInv
  <2> QED
    BY <1>2, <1>3, <2>2 DEF InFlight
<1> QED
  BY <1>3, <1>4, <1>5

\* An arrival: only the new request can have met no other.
LEMMA ArrivalReaches ==
  ASSUME HostInv, LoneInv, NEW r \in HostRequests, NEW label, NEW req,
         Start(r, label, req), req.import => label = "import"
  PROVE  LoneInv' /\ AllReached
<1>1. /\ hpc[r] = "idle" /\ hpc'[r] = label /\ hreq'[r] = req
      /\ \A x \in HostRequests : x # r => hpc'[x] = hpc[x]
  BY HoldValues, TypeParts DEF HostInv, Start
<1>2. AllReached
  <2> SUFFICES ASSUME NEW x \in HostRequests, alone[x], alone'[x] PROVE ~hreq[x].import
    BY DEF AllReached, Reached
  <2>1. x = r
    BY DEF Start, Meet
  <2> QED
    BY <1>1, <2>1 DEF LoneInv, Fits
<1>3. ASSUME NEW x \in HostRequests, alone'[x]
      PROVE  InFlight' \subseteq {x} /\ Fits(hpc[x], hreq[x])'
  <2>1. x = r /\ InFlight \subseteq {r}
    BY <1>3 DEF Start, Meet
  <2>2. InFlight' \subseteq {r}
    BY <1>1, <2>1 DEF InFlight
  <2>3. Fits(hpc[r], hreq[r])'
    BY <1>1 DEF Fits
  <2> QED
    BY <2>1, <2>2, <2>3
<1> QED
  BY <1>2, <1>3 DEF LoneInv

LEMMA NextReaches ==
  HostInv /\ LoneInv /\ [HostNext]_hostVars => LoneInv' /\ [AllReached]_hostVars
<1> SUFFICES ASSUME HostInv, LoneInv, [HostNext]_hostVars
             PROVE  LoneInv' /\ [AllReached]_hostVars
  OBVIOUS
<1>1. CASE UNCHANGED hostVars
  <2>1. UNCHANGED <<hosts, hpc, hreq, alone>>
    BY <1>1 DEF hostVars
  <2> QED
    BY <1>1, <2>1 DEF LoneInv, InFlight, Fits, Stored
<1>2. ASSUME NEW r \in HostRequests, HostStep(r)
      PROVE  LoneInv' /\ AllReached
  BY <1>2, StepReaches
<1>3. NoHostReq.import = FALSE
  BY DEF NoHostReq
<1>4. ASSUME NEW r \in HostRequests, NEW a, NEW p, handleCreateHost(r, a, p)
      PROVE  LoneInv' /\ AllReached
  <2> DEFINE q == [NoHostReq EXCEPT !.addr = a, !.pass = p]
  <2>1. q.import = FALSE
    BY DEF NoHostReq
  <2>2. Start(r, "create", q)
    BY <1>4 DEF handleCreateHost
  <2> HIDE DEF q
  <2> QED
    BY <2>1, <2>2, ArrivalReaches
<1>5. ASSUME NEW r \in HostRequests, NEW id, NEW a, NEW p, handleUpdateHost(r, id, a, p)
      PROVE  LoneInv' /\ AllReached
  <2> DEFINE q == [NoHostReq EXCEPT !.id = id, !.addr = a, !.pass = p, !.given = p # Keep]
             label == IF p = Keep THEN "old" ELSE "update"
  <2>1. q.import = FALSE
    BY DEF NoHostReq
  <2>2. Start(r, label, q)
    BY <1>5 DEF handleUpdateHost
  <2> HIDE DEF q, label
  <2> QED
    BY <2>1, <2>2, ArrivalReaches
<1>6. ASSUME NEW r \in HostRequests, NEW n, handleImportHostExcel(r, n)
      PROVE  LoneInv' /\ AllReached
  <2> DEFINE q == [NoHostReq EXCEPT !.import = TRUE, !.rows = n]
  <2>1. Start(r, "import", q)
    BY <1>6 DEF handleImportHostExcel
  <2> HIDE DEF q
  <2> QED
    BY <2>1, ArrivalReaches
<1>7. ASSUME NEW r \in HostRequests, NEW ids, handleBatchIPMI(r, ids)
      PROVE  LoneInv' /\ AllReached
  <2> DEFINE q == [NoHostReq EXCEPT !.ids = ids]
  <2>1. q.import = FALSE
    BY DEF NoHostReq
  <2>2. Start(r, "power", q)
    BY <1>7 DEF handleBatchIPMI
  <2> HIDE DEF q
  <2> QED
    BY <2>1, <2>2, ArrivalReaches
<1>8. ASSUME NEW ids, Delete(ids)
      PROVE  LoneInv' /\ AllReached
  BY <1>8 DEF Delete, LoneInv, AllReached, Reached
<1> QED
  BY <1>1, <1>2, <1>4, <1>5, <1>6, <1>7, <1>8
  DEF HostNext, handleIPMIPower, handleDeleteHost, handleBatchDeleteHost

\* An import that meets no other request refuses no row, leaves a host with each
\* row's address, and takes no host's address or password, for any file and any
\* table it meets: upsertHostBasic looks at the whole list before each row, so
\* CreateHost finds no address taken and UpdateHost finds the host as it was read.
THEOREM ImportsReach == HostSpec => ImportReaches
<1>1. HostInit => LoneInv
  BY DEF HostInit, LoneInv
<1>2. HostInv /\ LoneInv /\ [HostNext]_hostVars => LoneInv' /\ [AllReached]_hostVars
  BY NextReaches
<1>3. HostSpec => [][AllReached]_hostVars
  BY <1>1, <1>2, HostInvAlways, PTL DEF HostSpec
<1>4. AllReached =>
        \A r \in HostRequests : hreq[r].import /\ alone[r] /\ alone'[r] =>
          /\ \A i \in DOMAIN hosts : i \in DOMAIN hosts' /\ hosts'[i] = hosts[i]
          /\ hpc[r] # "import" /\ hpc'[r] = "import" =>
                /\ ~hreq'[r].skipped
                /\ \E i \in DOMAIN hosts' : hosts'[i].addr = hreq[r].addr
  BY DEF AllReached, Reached, HostsStay, Arrived
<1> QED
  BY <1>3, <1>4, PTL DEF ImportReaches

(***************************************************************************)
(* host_info implements UniqueTable.                                        *)
(***************************************************************************)
HostKeys == [i \in DOMAIN hosts |-> hosts[i].addr]
HostUsed == 1..nextHost - 1

LEMMA KeyValues == DOMAIN HostKeys = DOMAIN hosts /\ \A i \in DOMAIN hosts : HostKeys[i] = hosts[i].addr
BY DEF HostKeys

LEMMA SameKeys == UNCHANGED <<hosts, nextHost>> => UNCHANGED <<HostKeys, HostUsed>>
BY DEF HostKeys, HostUsed

LEMMA RemovalMaps ==
  ASSUME NEW ids \in SUBSET Ids, Delete(ids)
  PROVE  HostTable!Next
<1>1. /\ DOMAIN hosts' = DOMAIN hosts \ ids /\ \A i \in DOMAIN hosts' : hosts'[i] = hosts[i]
      /\ nextHost' = nextHost
  BY DEF Delete
<1>2. HostKeys' = [i \in DOMAIN HostKeys \ ids |-> HostKeys[i]]
  BY <1>1, KeyValues DEF HostKeys
<1>3. UNCHANGED HostUsed
  BY <1>1 DEF HostUsed
<1>4. HostTable!Remove(ids)
  BY <1>2, <1>3 DEF HostTable!Remove, HostKeys, HostUsed
<1> QED
  BY <1>4 DEF HostTable!Next

LEMMA CreateMaps ==
  ASSUME HostInv, NEW r \in HostRequests, CreateHost(r), IndexAllows(hreq[r].addr, 0)
  PROVE  HostTable!Next
<1> DEFINE new == [addr |-> hreq[r].addr, pass |-> hreq[r].pass]
<1>1. TableTypes /\ hreq[r] \in HostReq
  BY TypeParts DEF HostInv, RequestTypes
<1>2. /\ nextHost <= MaxHosts /\ nextHost' = nextHost + 1
      /\ hosts' = [i \in DOMAIN hosts \cup {nextHost} |->
                      IF i = nextHost THEN new ELSE hosts[i]]
  BY DEF CreateHost, NewId
<1>3. nextHost \in Ids /\ hreq[r].addr \in HostAddr
  BY <1>1, <1>2, MaxHostsAssumption DEF TableTypes, Ids, HostReq
<1>4. PICK n \in Ids, a \in HostAddr : n = nextHost /\ a = hreq[r].addr
  BY <1>3
<1>5. n \in 1..MaxHosts /\ n \notin DOMAIN hosts /\ n \notin HostUsed
  BY <1>1, <1>4, MaxHostsAssumption DEF TableTypes, Ids, HostUsed
<1>6. new.addr = a
  BY <1>4
<1> HIDE DEF new
<1>7. /\ DOMAIN hosts' = DOMAIN hosts \cup {n} /\ hosts'[n] = new
      /\ \A i \in DOMAIN hosts : hosts'[i] = hosts[i]
  BY <1>2, <1>4, <1>5
<1>8. ~\E i \in DOMAIN HostKeys : HostKeys[i] = a
  <2>1. 0 \notin DOMAIN hosts
    BY <1>1, MaxHostsAssumption DEF TableTypes, Ids
  <2>2. \A i \in DOMAIN hosts \ {0} : hosts[i].addr # hreq[r].addr
    BY DEF IndexAllows, Others
  <2>3. \A i \in DOMAIN hosts : hosts[i].addr # a
    BY <1>4, <2>1, <2>2
  <2> QED
    BY <2>3, KeyValues
<1>9. HostKeys' = [j \in DOMAIN HostKeys \cup {n} |-> IF j = n THEN a ELSE HostKeys[j]]
  <2>1. HostKeys' = [j \in DOMAIN hosts' |-> hosts'[j].addr]
    BY DEF HostKeys
  <2>2. \A j \in DOMAIN hosts' : hosts'[j].addr = IF j = n THEN a ELSE HostKeys[j]
    BY <1>5, <1>6, <1>7, KeyValues
  <2> QED
    BY <1>7, KeyValues, <2>1, <2>2
<1>10. HostUsed' = HostUsed \cup {n}
  <2>1. n \in 1..MaxHosts /\ nextHost = n /\ nextHost' = n + 1
    BY <1>2, <1>4, <1>5
  <2>2. HostUsed = 1..n - 1 /\ HostUsed' = 1..n
    BY <2>1, MaxHostsAssumption DEF HostUsed
  <2>3. 1..n = (1..n - 1) \cup {n}
    BY <1>5, MaxHostsAssumption
  <2> QED
    BY <2>2, <2>3
<1>11. PICK f \in [{n} -> HostAddr] : f = [j \in {n} |-> a]
  OBVIOUS
<1>12. DOMAIN f = {n} /\ f[n] = a
  BY <1>11
<1>13. HostKeys' = [j \in DOMAIN HostKeys \cup DOMAIN f |-> IF j \in DOMAIN f THEN f[j] ELSE HostKeys[j]]
  BY <1>9, <1>12
<1>14. HostTable!Insert(f)
  BY <1>5, <1>8, <1>10, <1>12, <1>13 DEF HostTable!Insert, HostTable!Taken, HostKeys, HostUsed
<1>15. {n} \in SUBSET Ids
  OBVIOUS
<1> QED
  BY <1>14, <1>15 DEF HostTable!Next

\* An update gives the host another address, or the one it has.
LEMMA UpdateMaps ==
  ASSUME HostInv, NEW r \in HostRequests, UpdateHost(r)
  PROVE  HostTable!Next \/ UNCHANGED <<HostKeys, HostUsed>>
<1> DEFINE new == [addr |-> hreq[r].addr, pass |-> hreq[r].pass]
           ok == hreq[r].id \in DOMAIN hosts /\ IndexAllows(hreq[r].addr, hreq[r].id)
<1>1. TableTypes /\ hreq[r] \in HostReq /\ nextHost' = nextHost
  BY TypeParts DEF HostInv, RequestTypes, UpdateHost
<1>2. hosts' = IF ok THEN [hosts EXCEPT ![hreq[r].id] = new] ELSE hosts
  BY DEF UpdateHost
<1>3. CASE ~ok
  BY <1>1, <1>2, <1>3, SameKeys
<1>4. CASE ok
  <2>1. hreq[r].id \in Ids /\ hreq[r].addr \in HostAddr
    BY <1>1, <1>4 DEF TableTypes, HostReq
  <2>2. PICK n \in Ids, a \in HostAddr : n = hreq[r].id /\ a = hreq[r].addr
    BY <2>1
  <2>3. new.addr = a /\ n \in DOMAIN hosts
    BY <1>4, <2>2
  <2>4. \A i \in DOMAIN hosts : i # n => hosts[i].addr # a
    BY <1>4, <2>2 DEF IndexAllows, Others
  <2>5. hosts' = [hosts EXCEPT ![n] = new]
    BY <1>2, <1>4, <2>2
  <2> HIDE DEF new, ok
  <2>6. /\ DOMAIN hosts' = DOMAIN hosts /\ hosts'[n] = new
        /\ \A i \in DOMAIN hosts : i # n => hosts'[i] = hosts[i]
    BY <2>3, <2>5
  <2>7. /\ HostKeys' = [i \in DOMAIN hosts |-> IF i = n THEN a ELSE hosts[i].addr]
        /\ UNCHANGED HostUsed
    <3>1. HostKeys' = [i \in DOMAIN hosts' |-> hosts'[i].addr] /\ UNCHANGED HostUsed
      BY <1>1 DEF HostKeys, HostUsed
    <3>2. \A i \in DOMAIN hosts : hosts'[i].addr = IF i = n THEN a ELSE hosts[i].addr
      BY <2>3, <2>6
    <3> QED
      BY <2>6, <3>1, <3>2
  <2>8. HostKeys' = [HostKeys EXCEPT ![n] = a]
    BY <2>7, KeyValues DEF HostKeys
  <2>9. CASE hosts[n].addr = a
    <3>1. [i \in DOMAIN hosts |-> IF i = n THEN a ELSE hosts[i].addr] = HostKeys
      BY <2>9 DEF HostKeys
    <3> QED
      BY <2>7, <3>1
  <2>10. CASE hosts[n].addr # a
    <3>1. ~\E i \in DOMAIN HostKeys : HostKeys[i] = a
      BY <2>4, <2>10, KeyValues
    <3>2. n \in DOMAIN HostKeys
      BY <2>3, KeyValues
    <3>3. HostTable!Rekey(n, a)
      BY <2>7, <2>8, <3>1, <3>2 DEF HostTable!Rekey, HostTable!Taken, HostKeys, HostUsed
    <3> QED
      BY <3>3 DEF HostTable!Next
  <2> QED
    BY <2>9, <2>10
<1> QED
  BY <1>3, <1>4

LEMMA HostStepMaps ==
  ASSUME HostInv, [HostNext]_hostVars
  PROVE  HostTable!Next \/ UNCHANGED <<HostKeys, HostUsed>>
<1>1. CASE UNCHANGED hostVars
  BY <1>1, SameKeys DEF hostVars
<1>2. ASSUME NEW r \in HostRequests, HostStep(r)
      PROVE  HostTable!Next \/ UNCHANGED <<HostKeys, HostUsed>>
  <2>1. CASE CreateHost(r)
    <3>1. CASE IndexAllows(hreq[r].addr, 0)
      BY <2>1, <3>1, CreateMaps
    <3>2. CASE ~IndexAllows(hreq[r].addr, 0)
      BY <2>1, <3>2, SameKeys DEF CreateHost
    <3> QED
      BY <3>1, <3>2
  <2>2. CASE UpdateHost(r)
    BY <2>2, UpdateMaps
  <2>3. CASE ~CreateHost(r) /\ ~UpdateHost(r)
    <3>1. UNCHANGED <<hosts, nextHost>>
      BY <1>2, <2>3 DEF HostStep, CheckAgain, GetOldPassword, upsertHostBasic, GetHostByID,
                        runCommand, Respond
    <3> QED
      BY <3>1, SameKeys
  <2> QED
    BY <2>1, <2>2, <2>3
<1>3. ASSUME NEW r \in HostRequests,
             \/ \E a \in HostAddr, p \in Passwords : handleCreateHost(r, a, p)
             \/ \E id \in Ids, a \in HostAddr, p \in Passwords \cup {Keep} :
                   handleUpdateHost(r, id, a, p)
             \/ \E n \in 0..MaxFile : handleImportHostExcel(r, n)
             \/ \E ids \in SUBSET Ids : handleBatchIPMI(r, ids)
             \/ \E id \in Ids : handleIPMIPower(r, id)
      PROVE  UNCHANGED <<HostKeys, HostUsed>>
  <2>1. UNCHANGED <<hosts, nextHost>>
    BY <1>3 DEF handleCreateHost, handleUpdateHost, handleImportHostExcel, handleBatchIPMI,
                handleIPMIPower
  <2> QED
    BY <2>1, SameKeys
<1>4. ASSUME NEW id \in Ids, handleDeleteHost(id) PROVE HostTable!Next
  <2>1. {id} \in SUBSET Ids
    OBVIOUS
  <2> QED
    BY <1>4, <2>1, RemovalMaps DEF handleDeleteHost
<1>5. ASSUME NEW ids \in SUBSET Ids, handleBatchDeleteHost(ids) PROVE HostTable!Next
  BY <1>5, RemovalMaps DEF handleBatchDeleteHost
<1> QED
  BY <1>1, <1>2, <1>3, <1>4, <1>5 DEF HostNext

\* Whatever requests overlap, every statement they make on host_info is a step of a
\* table whose ids are never given twice and whose addresses are unique: the checks
\* may be stale by then, the schema is what holds.
THEOREM HostsAreATable == HostSpec => HostsKeepIds
<1>1. HostInit => HostTable!Init
  BY MaxHostsAssumption DEF HostInit, HostTable!Init
<1>2. HostInv /\ [HostNext]_hostVars => [HostTable!Next]_<<HostKeys, HostUsed>>
  BY HostStepMaps
<1>3. <<HostKeys, HostUsed>> = <<[i \in DOMAIN hosts |-> hosts[i].addr], 1..nextHost - 1>>
  BY DEF HostKeys, HostUsed
<1> QED
  BY <1>1, <1>2, <1>3, HostInvAlways, PTL
     DEF HostSpec, HostsKeepIds, HostTable!Spec, HostKeys, HostUsed

\* What the table promises is enough: whatever takes only its steps keeps the
\* addresses unique, and a host that was deleted stays deleted.
LEMMA TableStepKeeps ==
  ASSUME UniqueIPMI, [HostTable!Next]_<<HostKeys, HostUsed>>
  PROVE  /\ UniqueIPMI'
         /\ \A i \in HostUsed : i \in DOMAIN hosts' => i \in DOMAIN hosts
<1>1. /\ DOMAIN HostKeys' = DOMAIN hosts'
      /\ \A i \in DOMAIN hosts' : HostKeys'[i] = hosts'[i].addr
  BY DEF HostKeys
<1>2. \A i, j \in DOMAIN HostKeys : i # j => HostKeys[i] # HostKeys[j]
  BY KeyValues DEF UniqueIPMI
<1> DEFINE Kept == /\ \A i, j \in DOMAIN HostKeys' : i # j => HostKeys'[i] # HostKeys'[j]
                   /\ \A i \in HostUsed : i \in DOMAIN HostKeys' => i \in DOMAIN HostKeys
<1>3. ASSUME NEW f, HostTable!Insert(f) PROVE Kept
  <2>1. /\ DOMAIN f \cap HostUsed = {}
        /\ \A i \in DOMAIN f, j \in DOMAIN HostKeys : HostKeys[j] # f[i]
        /\ \A i, j \in DOMAIN f : i # j => f[i] # f[j]
        /\ HostKeys' = [i \in DOMAIN HostKeys \cup DOMAIN f |->
                          IF i \in DOMAIN f THEN f[i] ELSE HostKeys[i]]
    BY <1>3 DEF HostTable!Insert, HostTable!Taken, HostKeys, HostUsed
  <2> HIDE DEF HostKeys
  <2> QED
    BY <1>2, <2>1
<1>4. ASSUME NEW n \in Ids, NEW a \in HostAddr, HostTable!Rekey(n, a) PROVE Kept
  <2>1. /\ n \in DOMAIN HostKeys /\ \A i \in DOMAIN HostKeys : HostKeys[i] # a
        /\ HostKeys' = [HostKeys EXCEPT ![n] = a]
    BY <1>4 DEF HostTable!Rekey, HostTable!Taken, HostKeys
  <2> QED
    BY <1>2, <2>1
<1>5. ASSUME NEW ids \in SUBSET Ids, HostTable!Remove(ids) PROVE Kept
  <2>1. HostKeys' = [i \in DOMAIN HostKeys \ ids |-> HostKeys[i]]
    BY <1>5 DEF HostTable!Remove, HostKeys
  <2> QED
    BY <1>2, <2>1
<1>6. CASE UNCHANGED <<HostKeys, HostUsed>>
  <2>1. HostKeys' = HostKeys
    BY <1>6
  <2> QED
    BY <1>1, <1>2, <2>1, KeyValues DEF UniqueIPMI
<1>7. ASSUME HostTable!Next PROVE Kept
  BY <1>3, <1>4, <1>5, <1>7 DEF HostTable!Next
<1> QED
  BY <1>1, <1>6, <1>7, KeyValues DEF UniqueIPMI

\* A deleted host stays deleted, and its id is given to no other: what a request
\* has read about an id is about that host as long as the id is there.
THEOREM HostsGoneForGood == HostSpec => HostTable!GoneForGood
<1>1. HostInv /\ [HostNext]_hostVars =>
        [\A i \in HostUsed : i \in DOMAIN HostKeys' => i \in DOMAIN HostKeys]_<<HostKeys, HostUsed>>
  <2> SUFFICES ASSUME HostInv, [HostNext]_hostVars
               PROVE  \A i \in HostUsed : i \in DOMAIN HostKeys' => i \in DOMAIN HostKeys
    OBVIOUS
  <2>1. UniqueIPMI /\ [HostTable!Next]_<<HostKeys, HostUsed>>
    BY HostStepMaps DEF HostInv
  <2>2. DOMAIN HostKeys' = DOMAIN hosts'
    BY DEF HostKeys
  <2> QED
    BY <2>1, <2>2, TableStepKeeps, KeyValues
<1> QED
  BY <1>1, HostInvAlways, PTL DEF HostSpec, HostTable!GoneForGood, HostKeys, HostUsed

===============================================================================
