--------------------------- MODULE ImageStore_proofs ---------------------------
(***************************************************************************)
(* Theorems about ImageStore, for any images, architectures, faults and     *)
(* number of requests, whatever was on the disk at first and however        *)
(* uploads of one name overlap; for the names that never did (crossed),     *)
(* rows stay unique and listed architectures stay listed.                   *)
(***************************************************************************)
EXTENDS ImageStore, FiniteSetTheorems, TLAPS

\* A directory that was unpacked, or whose unpacking failed or is under way. Once
\* it is, it stays so: only an upload removes it, to unpack it again.
Good(d) ==
    \/ disk[d] = "whole" \/ d \in cut
    \/ \E u \in Admins : pc[u] = "unpack" /\ Target(u) = d

Paths == [Archs -> BOOLEAN]
Req == [name : Names \cup {NoName}, id : 0..MaxId, path : Paths, todo : SUBSET Archs,
        arch : Archs \cup {NoArch}]
Storing == {"wipe", "unpack", "save"}

RowsOK ==
    /\ nextId \in 1..MaxId + 1
    /\ DOMAIN rows \subseteq 1..nextId - 1
    /\ \A i \in DOMAIN rows : rows[i] \in Row

DiskOK ==
    /\ disk \in [Dirs -> {"absent", "torn", "whole"}]
    /\ cut \subseteq Dirs
    /\ \A d \in Dirs : disk[d] = "torn" => Good(d)

ReqType(label, r) ==
    /\ label \in Steps /\ r \in Req
    /\ label \in {"insert", "wipe", "unpack", "save", "boot"} => r.name \in Names
    /\ label \in {"unpack", "boot"} => r.arch \in Archs
    /\ label \in {"insert", "wipe"} => r.todo # {}

\* What an upload may rely on: the row it will save has the name it was found by,
\* and what it will save lists nothing that was not unpacked. As long as uploads of
\* the name have not overlapped, no row has the name it is about to insert, and
\* what it will save lists all the row lists.
ReqOK(label, r) ==
    /\ ReqType(label, r)
    /\ label = "insert" => (r.name \notin crossed => Named(r.name) = {}) /\ r.path = NoPaths
    /\ label \in Storing =>
          /\ r.id < nextId
          /\ \A a \in Archs : r.path[a] => Good(<<r.name, a>>)
          /\ r.id \in DOMAIN rows =>
                /\ rows[r.id].name = r.name
                /\ r.name \notin crossed => \A a \in Archs : rows[r.id].path[a] => r.path[a]
    /\ label = "boot" => Good(<<r.name, r.arch>>)

AllOK ==
    /\ pc = [u \in Admins |-> pc[u]] /\ req = [u \in Admins |-> req[u]]
    /\ \A u \in Admins : ReqOK(pc[u], req[u])

Solo ==
    /\ crossed \subseteq Names
    /\ \A u, v \in Admins :
          u # v /\ Uploading(u) /\ Uploading(v) /\ req[u].name = req[v].name
          => req[u].name \in crossed

\* While nothing has gone wrong, a table without a default has a request that is
\* about to set one; a table without rows has no directories, and nobody at work
\* on one.
ToDefault == {"wipe", "unpack", "save", "check", "clear", "set"}
AtWork == Storing \cup {"boot"}
DefaultInv ==
    /\ hurt \in BOOLEAN
    /\ ~hurt =>
          /\ DOMAIN rows # {} /\ Active = {} => \E u \in Admins : pc[u] \in ToDefault
          /\ DOMAIN rows = {} =>
                (\A d \in Dirs : disk[d] = "absent") /\ \A u \in Admins : pc[u] \notin AtWork

Single == OneRowPerName
Core == RowsOK /\ Single /\ ListedIsUnpacked /\ DiskOK /\ AllOK /\ Solo
Inv == Core /\ DefaultInv

LEMMA InvTypeOK == Inv => TypeOK
BY DEF Inv, Core, TypeOK, RowsOK, DiskOK, AllOK, ReqOK, ReqType, DefaultInv, Req, Paths, Solo

LEMMA NoReqType == NoReq \in Req /\ ReqType("idle", NoReq)
BY MaxIdAssumption DEF NoReq, Req, NoPaths, Paths, ReqType, Steps

\* A non-empty set of naturals below a bound has a greatest element.
LEMMA GreatestBelow ==
  ASSUME NEW n \in Nat, NEW T, T \subseteq 1..n, T # {}
  PROVE  \E i \in T : \A j \in T : j <= i
<1> DEFINE U == {n - i : i \in T}
<1>1. U \subseteq Nat /\ U # {}
  <2>1. \A i \in T : n - i \in Nat
    OBVIOUS
  <2> QED
    BY <2>1
<1> HIDE DEF U
<1>2. PICK d \in U : \A e \in U : ~(<<e, d>> \in OpToRel(<, Nat))
  BY <1>1, NatLessThanWellFounded, WFMin
<1>3. \A e \in U : ~(e < d)
  BY <1>1, <1>2 DEF OpToRel
<1>4. PICK i \in T : d = n - i
  BY DEF U
<1>5. \A j \in T : n - j \in U
  BY DEF U
<1>6. ASSUME NEW j \in T PROVE j <= i
  <2>1. ~(n - j < n - i)
    BY <1>3, <1>4, <1>5
  <2>2. j \in Int /\ i \in Int
    OBVIOUS
  <2> QED
    BY <2>1, <2>2
<1> QED
  BY <1>6

\* The newest row of a name is a row of it.
LEMMA TheRow ==
  ASSUME RowsOK, NEW n, Named(n) # {}
  PROVE  FindImageByName(n) \in Named(n)
<1>1. Named(n) \subseteq 1..nextId - 1 /\ nextId - 1 \in Nat
  BY MaxIdAssumption DEF RowsOK, Named
<1>2. \E i \in Named(n) : \A j \in Named(n) : j <= i
  BY <1>1, GreatestBelow
<1> QED
  BY <1>2 DEF FindImageByName

LEMMA FoundFinite ==
  ASSUME NEW dirs
  PROVE  IsFiniteSet(Found(dirs)) /\ Cardinality(Found(dirs)) \in Nat
<1>1. Found(dirs) \subseteq Names
  BY DEF Found
<1> QED
  BY <1>1, NamesAssumption, FS_Subset, FS_CardinalityType

\* The rows of the first scan.
LEMMA InitInv == Init => Inv
<1> SUFFICES ASSUME Init PROVE Inv
  OBVIOUS
<1>1. PICK found : found = Found(disk)
  OBVIOUS
<1>2. IsFiniteSet(found) /\ Cardinality(found) \in Nat /\ found \subseteq Names
  BY <1>1, FoundFinite DEF Found
<1>3. PICK n \in Nat : n = Cardinality(found)
  BY <1>2
<1>4. nextId = n + 1 /\ nextId <= MaxId + 1 /\ 1..nextId - 1 = 1..n
  BY <1>1, <1>3 DEF Init
<1>5. PICK name \in [1..n -> found] :
        /\ \A i, j \in DOMAIN name : name[i] = name[j] => i = j
        /\ rows = [i \in DOMAIN name |-> NewRow(name[i], Listed(disk, name[i]))]
  BY <1>1, <1>4 DEF Init
<1>6. DOMAIN rows = 1..n /\ \A i \in 1..n : name[i] \in Names
  BY <1>2, <1>5
<1>7. disk \in [Dirs -> {"absent", "torn", "whole"}] /\ cut = {d \in Dirs : disk[d] = "torn"}
  BY DEF Init
<1>8. ASSUME NEW i \in 1..n
      PROVE  /\ rows[i] \in Row /\ rows[i].name = name[i]
             /\ \A a \in Archs, d \in Dirs : d = <<name[i], a>> /\ rows[i].path[a] => Good(d)
  <2>1. PICK m \in Names : m = name[i]
    BY <1>6
  <2>2. rows[i] = NewRow(m, Listed(disk, m)) /\ Listed(disk, m) \in Paths
    BY <1>5, <2>1 DEF Listed, Paths
  <2>3. rows[i] \in Row /\ rows[i].name = m /\ rows[i].path = Listed(disk, m)
    BY <2>2 DEF NewRow, Row, Paths
  <2>4. ASSUME NEW a \in Archs, NEW d \in Dirs, d = <<m, a>>, rows[i].path[a] PROVE Good(d)
    <3>1. disk[d] # "absent"
      BY <2>3, <2>4 DEF Listed
    <3> QED
      BY <1>7, <3>1 DEF Good
  <2> QED
    BY <2>1, <2>3, <2>4
<1>9. RowsOK
  BY <1>3, <1>4, <1>6, <1>8, MaxIdAssumption DEF RowsOK
<1>10. Single
  BY <1>5, <1>6, <1>8 DEF Single, OneRowPerName
<1>11. ListedIsUnpacked
  <2> SUFFICES ASSUME NEW i \in DOMAIN rows, NEW a \in Archs, rows[i].path[a],
                      NEW d, d = <<rows[i].name, a>>
               PROVE  Good(d)
    BY DEF ListedIsUnpacked, Good
  <2> QED
    BY <1>6, <1>8 DEF Dirs
<1>12. DiskOK
  BY <1>7 DEF DiskOK, Good
<1>13. AllOK
  BY NoReqType DEF Init, AllOK, ReqOK, Storing
<1>14. Solo
  BY DEF Init, Solo, Uploading
<1>15. DefaultInv
  <2>1. hurt = (found # {})
    BY <1>1 DEF Init
  <2>2. ASSUME found = {} PROVE n = 0
    BY <1>3, <2>2, FS_EmptySet
  <2>3. ASSUME found = {} PROVE \A d \in Dirs : disk[d] = "absent"
    BY <1>1, <2>3 DEF Found, Dirs
  <2>4. \A u \in Admins : pc[u] \notin AtWork
    BY DEF Init, AtWork, Storing
  <2> QED
    BY <1>6, <2>1, <2>2, <2>3, <2>4 DEF DefaultInv
<1> QED
  BY <1>9, <1>10, <1>11, <1>12, <1>13, <1>14, <1>15 DEF Inv, Core

(***************************************************************************)
(* What one request does leaves the others what they rely on.               *)
(***************************************************************************)
Becomes(u, label, r) ==
    /\ pc' = [pc EXCEPT ![u] = label]
    /\ req' = [req EXCEPT ![u] = r]

GoodStays == \A d \in Dirs : Good(d) => Good(d)'

\* Rows come under new ids and with the name of the upload at work, which alone
\* changes columns, and no row changes its name.
RowsFit(u) ==
    \A i \in DOMAIN rows' :
        \/ /\ i \in DOMAIN rows /\ rows'[i].name = rows[i].name
           /\ \/ rows'[i].path = rows[i].path
              \/ Uploading(u) /\ rows[i].name = req[u].name
        \/ i \notin DOMAIN rows /\ i >= nextId /\ Uploading(u) /\ rows'[i].name = req[u].name

LEMMA BecomesValues ==
  ASSUME AllOK, NEW u \in Admins, NEW label, NEW r, Becomes(u, label, r)
  PROVE  /\ pc'[u] = label /\ req'[u] = r
         /\ pc' = [v \in Admins |-> pc'[v]] /\ req' = [v \in Admins |-> req'[v]]
         /\ \A v \in Admins \ {u} : pc'[v] = pc[v] /\ req'[v] = req[v]
BY DEF AllOK, Becomes

LEMMA OthersOK ==
  ASSUME Core, NEW u \in Admins, RowsFit(u), GoodStays, nextId' \in Nat, nextId <= nextId',
         crossed \subseteq crossed', NEW v \in Admins \ {u}
  PROVE  ReqOK(pc[v], req[v]) /\ (\A l, r : l = pc[v] /\ r = req[v] => ReqOK(l, r)')
<1>1. ReqOK(pc[v], req[v])
  BY DEF Core, AllOK
<1> SUFFICES ASSUME NEW l, NEW r, l = pc[v], r = req[v] PROVE ReqOK(l, r)'
  BY <1>1
<1>2. ReqOK(l, r) /\ ReqType(l, r)
  BY <1>1 DEF ReqOK
<1>3. ASSUME l = "insert" PROVE (r.name \notin crossed' => Named(r.name)' = {}) /\ r.path = NoPaths
  <2>1. ASSUME r.name \notin crossed' PROVE Named(r.name)' = {}
    <3>1. Named(r.name) = {} /\ (Uploading(u) => r.name # req[u].name)
      BY <1>2, <1>3, <2>1 DEF ReqOK, Core, Solo, Uploading
    <3> QED
      BY <3>1 DEF RowsFit, Named
  <2> QED
    BY <1>2, <1>3, <2>1 DEF ReqOK
<1>4. ASSUME l \in Storing
      PROVE  /\ r.id < nextId'
             /\ \A a \in Archs : r.path[a] => Good(<<r.name, a>>)'
             /\ r.id \in DOMAIN rows' =>
                   /\ rows'[r.id].name = r.name
                   /\ r.name \notin crossed' =>
                         \A a \in Archs : rows'[r.id].path[a] => r.path[a]
  <2>1. /\ r.id < nextId /\ r.id \in Int /\ nextId \in Int
        /\ r.name \in Names /\ (r.name \notin crossed /\ Uploading(u) => r.name # req[u].name)
    BY <1>2, <1>4 DEF ReqOK, ReqType, Req, Storing, Core, Solo, Uploading, RowsOK
  <2>2. r.id < nextId'
    BY <2>1
  <2>3. \A a \in Archs : r.path[a] => Good(<<r.name, a>>)'
    BY <1>2, <1>4, <2>1 DEF ReqOK, GoodStays, Dirs
  <2>4. ASSUME r.id \in DOMAIN rows'
        PROVE  /\ rows'[r.id].name = r.name
               /\ r.name \notin crossed' =>
                     \A a \in Archs : rows'[r.id].path[a] => r.path[a]
    <3>1. r.id \in DOMAIN rows
      BY <2>1, <2>4 DEF RowsFit
    <3>2. /\ rows[r.id].name = r.name
          /\ r.name \notin crossed => \A a \in Archs : rows[r.id].path[a] => r.path[a]
      BY <1>2, <1>4, <3>1 DEF ReqOK
    <3>3. /\ rows'[r.id].name = rows[r.id].name
          /\ r.name \notin crossed => rows'[r.id].path = rows[r.id].path
      BY <2>1, <2>4, <3>1, <3>2 DEF RowsFit
    <3> QED
      BY <3>2, <3>3
  <2> QED
    BY <2>2, <2>3, <2>4
<1>5. ASSUME l = "boot" PROVE Good(<<r.name, r.arch>>)'
  BY <1>2, <1>5 DEF ReqOK, ReqType, GoodStays, Dirs
<1> QED
  BY <1>2, <1>3, <1>4, <1>5 DEF ReqOK

\* All requests are well after a step of one of them that is.
LEMMA StepOK ==
  ASSUME Core, NEW u \in Admins, NEW label, NEW r, Becomes(u, label, r), ReqOK(label, r)',
         RowsFit(u), GoodStays, nextId' \in Nat, nextId <= nextId',
         crossed \subseteq crossed', crossed' \subseteq crossed \cup Names,
         label \in {"insert", "wipe", "unpack", "save"} /\ r.name \notin crossed' =>
             \/ Uploading(u) /\ r.name = req[u].name
             \/ \A v \in Admins : ~(Uploading(v) /\ req[v].name = r.name)
  PROVE  AllOK' /\ Solo'
<1>1. /\ pc'[u] = label /\ req'[u] = r
      /\ pc' = [v \in Admins |-> pc'[v]] /\ req' = [v \in Admins |-> req'[v]]
      /\ \A v \in Admins \ {u} : pc'[v] = pc[v] /\ req'[v] = req[v]
  BY BecomesValues DEF Core
<1>2. ASSUME NEW v \in Admins PROVE ReqOK(pc[v], req[v])'
  <2>1. CASE v = u
    BY <1>1, <2>1
  <2>2. CASE v # u
    <3>1. \A l, q : l = pc[v] /\ q = req[v] => ReqOK(l, q)'
      BY <2>2, OthersOK
    <3>2. pc'[v] = pc[v] /\ req'[v] = req[v]
      BY <1>1, <2>2
    <3> QED
      BY <3>1, <3>2
  <2> QED
    BY <2>1, <2>2
<1>3. Solo'
  BY <1>1 DEF Core, Solo, Uploading
<1> QED
  BY <1>1, <1>2, <1>3 DEF AllOK

\* Rows untouched.
LEMMA SameRows ==
  ASSUME Core, UNCHANGED <<rows, nextId>>, GoodStays, crossed \subseteq crossed'
  PROVE  /\ RowsOK' /\ Single' /\ ListedIsUnpacked'
         /\ \A u \in Admins : RowsFit(u)
         /\ nextId' \in Nat /\ nextId <= nextId'
<1>1. RowsOK' /\ Single' /\ (\A u \in Admins : RowsFit(u)) /\ nextId' \in Nat /\ nextId <= nextId'
  BY DEF Core, RowsOK, Single, OneRowPerName, RowsFit
<1>2. ListedIsUnpacked'
  <2> SUFFICES ASSUME NEW i \in DOMAIN rows, NEW a \in Archs, rows[i].path[a]
               PROVE  Good(<<rows[i].name, a>>)'
    BY DEF ListedIsUnpacked, Good
  <2>1. Good(<<rows[i].name, a>>)
    BY DEF Core, ListedIsUnpacked, Good
  <2>2. rows[i].name \in Names
    BY DEF Core, RowsOK, Row
  <2> QED
    BY <2>1, <2>2 DEF GoodStays, Dirs
<1> QED
  BY <1>1, <1>2

\* A directory stays good as long as nobody leaves the unpacking of it.
LEMMA GoodWhileUnpacking ==
  ASSUME Core, UNCHANGED <<disk, cut>>,
         \A u \in Admins : pc[u] = "unpack" => pc'[u] = "unpack" /\ req'[u] = req[u]
  PROVE  GoodStays
BY DEF GoodStays, Good, Target

LEMMA Listing ==
  ListedIsUnpacked <=>
      \A i \in DOMAIN rows, a \in Archs : rows[i].path[a] => Good(<<rows[i].name, a>>)
BY DEF ListedIsUnpacked, Good

LEMMA ListingNext ==
  ASSUME RowsOK',
         \A i \in DOMAIN rows', a \in Archs, d \in Dirs :
             rows'[i].path[a] /\ d = <<rows'[i].name, a>> => Good(d)'
  PROVE  ListedIsUnpacked'
<1> SUFFICES ASSUME NEW i \in DOMAIN rows', NEW a \in Archs, rows'[i].path[a],
                    NEW d, d = <<rows'[i].name, a>>
             PROVE  \/ disk'[d] = "whole" \/ d \in cut'
                    \/ \E u \in Admins : pc'[u] = "unpack" /\ Target(u)' = d
  BY DEF ListedIsUnpacked
<1>1. d \in Dirs
  BY DEF RowsOK, Row, Dirs
<1>2. Good(d)'
  BY <1>1
<1> QED
  BY <1>2 DEF Good

LEMMA ReqAtHand ==
  ASSUME Core, NEW u \in Admins
  PROVE  ReqOK(pc[u], req[u]) /\ ReqType(pc[u], req[u]) /\ req[u] \in Req
<1>1. ReqOK(pc[u], req[u])
  BY DEF Core, AllOK
<1>2. \A l, r : ReqOK(l, r) => ReqType(l, r) /\ r \in Req
  BY DEF ReqOK, ReqType
<1> QED
  BY <1>1, <1>2

\* A step that only moves a request, and not out of an unpacking.
LEMMA OnlyMoves ==
  ASSUME Core, NEW u \in Admins, NEW label, NEW r, Becomes(u, label, r), pc[u] # "unpack",
         UNCHANGED <<rows, nextId, disk, cut>>, crossed \subseteq crossed', crossed' \subseteq crossed \cup Names,
         GoodStays => ReqOK(label, r)',
         label \in {"insert", "wipe", "unpack", "save"} /\ r.name \notin crossed' =>
             \/ Uploading(u) /\ r.name = req[u].name
             \/ \A v \in Admins : ~(Uploading(v) /\ req[v].name = r.name)
  PROVE  Core'
<1>1. GoodStays
  <2>1. \A v \in Admins : pc[v] = "unpack" => pc'[v] = "unpack" /\ req'[v] = req[v]
    BY BecomesValues DEF Core
  <2> QED
    BY <2>1, GoodWhileUnpacking
<1>2. /\ RowsOK' /\ Single' /\ ListedIsUnpacked'
      /\ RowsFit(u) /\ nextId' \in Nat /\ nextId <= nextId'
  BY <1>1, SameRows
<1>3. DiskOK'
  BY <1>1 DEF Core, DiskOK, GoodStays
<1>4. AllOK' /\ Solo'
  BY <1>1, <1>2, StepOK
<1> QED
  BY <1>2, <1>3, <1>4 DEF Core

\* At these places nothing is asked of a request but its type.
Resting == {"idle", "check", "clear", "set"}

LEMMA RestingOK ==
  ASSUME NEW label \in Resting, NEW r \in Req
  PROVE  ReqOK(label, r)'
BY DEF ReqOK, ReqType, Resting, Steps, Storing

LEMMA DoneBecomes == ASSUME NEW u, Done(u) PROVE Becomes(u, "idle", NoReq)
BY DEF Done, GoTo, Becomes

LEMMA UploadKeeps ==
  ASSUME Core, NEW u \in Admins, NEW n \in Names, NEW archs \in SUBSET Archs,
         Upload(u, n, archs)
  PROVE  Core'
<1> DEFINE asked == [NoReq EXCEPT !.name = n, !.todo = archs]
           f == FindImageByName(n)
           found == [asked EXCEPT !.id = f, !.path = rows[f].path]
<1>1. /\ pc[u] = "idle" /\ archs # {} /\ UNCHANGED <<rows, nextId, disk, cut>>
      /\ crossed \subseteq crossed' /\ crossed' \subseteq crossed \cup Names
      /\ n \notin crossed' => \A v \in Admins : ~(Uploading(v) /\ req[v].name = n)
  BY DEF Upload, Meets
<1>2. asked \in Req /\ asked.name = n /\ asked.todo = archs /\ asked.path = NoPaths
  BY NoReqType DEF Req, NoReq
<1>3. CASE Named(n) = {} /\ Becomes(u, "insert", asked)
  <2>1. ReqOK("insert", asked)'
    <3> HIDE DEF asked
    <3> QED
      BY <1>1, <1>2, <1>3 DEF ReqOK, ReqType, Steps, Storing, Named, NoPaths
  <2> HIDE DEF asked
  <2> QED
    BY <1>1, <1>2, <1>3, <2>1, OnlyMoves
<1>4. CASE Named(n) # {} /\ Becomes(u, "wipe", found)
  <2>1. f \in DOMAIN rows /\ rows[f].name = n /\ rows[f].path \in Paths
    BY <1>4, TheRow DEF Core, Named, RowsOK, Row, Paths
  <2>2. f \in 0..MaxId /\ f < nextId
    BY <2>1, MaxIdAssumption DEF Core, RowsOK
  <2>3. /\ found \in Req /\ found.name = n /\ found.todo = archs
        /\ found.id = f /\ found.path = rows[f].path
    <3> HIDE DEF asked, f
    <3> QED
      BY <1>2, <2>1, <2>2 DEF Req
  <2>4. \A a \in Archs : rows[f].path[a] => Good(<<n, a>>)
    BY <2>1, Listing DEF Core
  <2> HIDE DEF found, asked, f
  <2>5. PICK r \in Req : r = found
    BY <2>3
  <2>6. Becomes(u, "wipe", r) /\ r.name = n
    BY <1>4, <2>3, <2>5
  <2>7. GoodStays => ReqOK("wipe", r)'
    <3>1. /\ r.name = n /\ r.todo = archs /\ r.id = f /\ r.path = rows[f].path
      BY <2>3, <2>5
    <3>2. \A a \in Archs : GoodStays /\ r.path[a] => Good(<<n, a>>)'
      BY <2>4, <3>1 DEF GoodStays, Dirs
    <3> QED
      BY <1>1, <2>1, <2>2, <3>1, <3>2 DEF ReqOK, ReqType, Steps, Storing
  <2> QED
    BY <1>1, <2>6, <2>7, OnlyMoves
<1> QED
  BY <1>3, <1>4 DEF Upload, FindThenStore, GoTo, Becomes

\* SetActive, UploadBootFile and CheckDefault only look.
LEMMA LooksKeep ==
  ASSUME Core, NEW u \in Admins,
         \/ \E id \in 1..MaxId : SetActive(u, id) \/ \E a \in Archs : UploadBootFile(u, id, a)
         \/ CheckDefault(u)
  PROVE  Core'
<1>1. req[u] \in Req
  BY ReqAtHand
<1>2. ASSUME NEW id \in 1..MaxId, SetActive(u, id) PROVE Core'
  <2> DEFINE r == [req[u] EXCEPT !.id = id]
  <2>1. r \in Req
    BY <1>1, MaxIdAssumption DEF Req
  <2>2. Becomes(u, "clear", r) /\ pc[u] = "idle" /\ UNCHANGED <<rows, nextId, disk, cut, crossed>>
    BY <1>2 DEF SetActive, GoTo, Becomes
  <2> HIDE DEF r
  <2>3. PICK x \in Req : x = r
    BY <2>1
  <2>4. ReqOK("clear", x)' /\ Becomes(u, "clear", x)
    BY <2>2, <2>3, RestingOK DEF Resting
  <2> QED
    BY <2>2, <2>4, OnlyMoves
<1>3. ASSUME NEW id \in 1..MaxId, NEW a \in Archs, UploadBootFile(u, id, a) PROVE Core'
  <2> DEFINE r == [NoReq EXCEPT !.name = rows[id].name, !.arch = a]
  <2>1. /\ id \in DOMAIN rows /\ rows[id].path[a] /\ pc[u] = "idle"
        /\ UNCHANGED <<rows, nextId, disk, cut, crossed>> /\ Becomes(u, "boot", r)
    BY <1>3 DEF UploadBootFile, GoTo, Becomes
  <2>2. rows[id].name \in Names /\ Good(<<rows[id].name, a>>)
    BY <2>1, Listing DEF Core, RowsOK, Row
  <2>3. r \in Req /\ r.name = rows[id].name /\ r.arch = a
    BY <2>2, NoReqType DEF Req, NoReq
  <2> HIDE DEF r
  <2>4. PICK x \in Req : x = r
    BY <2>3
  <2>5. x.name \in Names /\ x.arch = a /\ Good(<<x.name, a>>)
    BY <2>2, <2>3, <2>4
  <2>6. GoodStays => ReqOK("boot", x)'
    BY <2>5 DEF ReqOK, ReqType, Steps, Storing, GoodStays, Dirs
  <2>7. Becomes(u, "boot", x)
    BY <2>1, <2>4
  <2> QED
    BY <2>1, <2>6, <2>7, OnlyMoves
<1>4. CASE CheckDefault(u)
  <2>1. pc[u] = "check" /\ UNCHANGED <<rows, nextId, disk, cut, crossed>>
    BY <1>4 DEF CheckDefault
  <2>2. \/ Becomes(u, "clear", req[u])
        \/ Becomes(u, "idle", NoReq)
    <3>1. req' = req => req' = [req EXCEPT ![u] = req[u]]
      BY DEF Core, AllOK
    <3> QED
      BY <1>4, <3>1, DoneBecomes DEF CheckDefault, GoTo, Becomes
  <2>4. PICK label \in Resting, r \in Req : Becomes(u, label, r) /\ label \in {"clear", "idle"}
    BY <1>1, <2>2, NoReqType DEF Resting
  <2>5. ReqOK(label, r)'
    BY <2>4, RestingOK
  <2> QED
    BY <2>1, <2>4, <2>5, OnlyMoves
<1> QED
  BY <1>2, <1>3, <1>4

(***************************************************************************)
(* Steps that change directories or rows.                                   *)
(***************************************************************************)
LEMMA InsertKeeps ==
  ASSUME Core, NEW u \in Admins, Insert(u)
  PROVE  Core'
<1> DEFINE n == req[u].name
           r == [req[u] EXCEPT !.id = nextId]
<1>1. /\ pc[u] = "insert" /\ nextId <= MaxId /\ nextId' = nextId + 1
      /\ rows' = [i \in DOMAIN rows \cup {nextId} |->
                    IF i = nextId THEN NewRow(n, NoPaths) ELSE rows[i]]
      /\ UNCHANGED <<disk, cut, crossed>>
  BY DEF Insert
<1>2. /\ req[u] \in Req /\ n \in Names /\ req[u].todo # {} /\ (n \notin crossed => Named(n) = {})
      /\ req[u].path = NoPaths
      /\ nextId \in Nat /\ nextId \in 1..MaxId + 1 /\ nextId' \in 1..MaxId + 1
  <2>1. ReqOK("insert", req[u]) /\ ReqType("insert", req[u]) /\ req[u] \in Req
    BY <1>1, ReqAtHand
  <2>2. nextId \in Nat /\ nextId \in 1..MaxId + 1 /\ nextId' \in 1..MaxId + 1
    BY <1>1, MaxIdAssumption DEF Core, RowsOK
  <2> QED
    BY <2>1, <2>2 DEF ReqOK, ReqType
<1>3. \A i \in DOMAIN rows : i \in Int /\ i < nextId /\ i # nextId /\ i \in 1..nextId' - 1
  BY <1>1, <1>2 DEF Core, RowsOK
<1>4. /\ DOMAIN rows' = DOMAIN rows \cup {nextId} /\ rows'[nextId] = NewRow(n, NoPaths)
      /\ \A i \in DOMAIN rows : rows'[i] = rows[i]
  BY <1>1, <1>3
<1>5. /\ NewRow(n, NoPaths) \in Row /\ NewRow(n, NoPaths).name = n
      /\ NewRow(n, NoPaths).path = NoPaths /\ \A a \in Archs : ~NoPaths[a]
  BY <1>2 DEF NewRow, Row, NoPaths
<1>6. GoodStays
  <2>1. \A v \in Admins : pc[v] = "unpack" => pc'[v] = "unpack" /\ req'[v] = req[v]
    BY <1>1 DEF Core, AllOK, Insert, GoTo
  <2> QED
    BY <1>1, <2>1, GoodWhileUnpacking
<1>7. Becomes(u, "wipe", r)
  BY DEF Insert, GoTo, Becomes, Core, AllOK
<1>8. r \in Req /\ r.name = n /\ r.id = nextId /\ r.todo = req[u].todo /\ r.path = req[u].path
  BY <1>1, <1>2 DEF Req
<1> HIDE DEF r, n
<1>9. RowsOK' /\ Single'
  <2>1. nextId \in 1..nextId' - 1
    BY <1>1, <1>2
  <2>2. RowsOK'
    BY <1>2, <1>3, <1>4, <1>5, <2>1 DEF Core, RowsOK
  <2>3. n \notin crossed => \A i \in DOMAIN rows : rows[i].name # n
    BY <1>2 DEF Named
  <2>4. Single'
    BY <1>1, <1>4, <1>5, <2>3 DEF Core, Single, OneRowPerName
  <2> QED
    BY <2>2, <2>4
<1>10. ListedIsUnpacked'
  <2>1. ASSUME NEW i \in DOMAIN rows', NEW a \in Archs, NEW d \in Dirs,
               rows'[i].path[a], d = <<rows'[i].name, a>>
        PROVE  Good(d)'
    <3>1. i \in DOMAIN rows /\ rows'[i] = rows[i]
      BY <1>4, <1>5, <2>1
    <3>2. Good(d)
      BY <2>1, <3>1, Listing DEF Core
    <3> QED
      BY <1>6, <3>2 DEF GoodStays
  <2> QED
    BY <1>9, <2>1, ListingNext
<1>11. DiskOK'
  BY <1>1, <1>6 DEF Core, DiskOK, GoodStays
<1>12. RowsFit(u)
  BY <1>1, <1>2, <1>3, <1>4, <1>5 DEF RowsFit, Uploading, n
<1>13. PICK x \in Req : x = r
  BY <1>8
<1>14. ReqOK("wipe", x)' /\ Becomes(u, "wipe", x)
  <2>1. \A a \in Archs : ~rows'[nextId].path[a]
    BY <1>4, <1>5
  <2>2. /\ x.name = n /\ x.id = nextId /\ x.todo # {} /\ nextId < nextId'
    BY <1>1, <1>2, <1>8, <1>13
  <2>3. \A a \in Archs : ~x.path[a]
    BY <1>2, <1>5, <1>8, <1>13
  <2> QED
    BY <1>2, <1>4, <1>5, <1>7, <1>13, <2>1, <2>2, <2>3 DEF ReqOK, ReqType, Steps, Storing
<1>15. AllOK' /\ Solo'
  <2>1. Uploading(u) /\ x.name = req[u].name /\ nextId' \in Nat /\ nextId <= nextId'
    BY <1>1, <1>2, <1>8, <1>13 DEF Uploading, n
  <2>2. crossed \subseteq crossed' /\ crossed' \subseteq crossed \cup Names
    BY <1>1
  <2> QED
    BY <1>6, <1>12, <1>14, <2>1, <2>2, StepOK
<1> QED
  BY <1>9, <1>10, <1>11, <1>15 DEF Core

\* A step that moves a request and changes directories.
LEMMA Moves ==
  ASSUME Core, NEW u \in Admins, NEW label, NEW r, Becomes(u, label, r),
         UNCHANGED <<rows, nextId, crossed>>, GoodStays, DiskOK', ReqOK(label, r)',
         label \in {"insert", "wipe", "unpack", "save"} => Uploading(u) /\ r.name = req[u].name
  PROVE  Core'
<1>1. /\ RowsOK' /\ Single' /\ ListedIsUnpacked'
      /\ RowsFit(u) /\ nextId' \in Nat /\ nextId <= nextId'
  BY SameRows
<1>2. AllOK' /\ Solo'
  BY <1>1, StepOK
<1> QED
  BY <1>1, <1>2 DEF Core

\* What an upload holds stays right when the rows do not change.
LEMMA HoldsOn ==
  ASSUME Core, NEW u \in Admins, pc[u] \in {"wipe", "unpack"}, UNCHANGED <<rows, nextId, crossed>>,
         GoodStays, NEW label \in Storing, NEW r \in Req, ReqType(label, r),
         r.name = req[u].name, r.id = req[u].id,
         \A a \in Archs : req[u].path[a] => r.path[a],
         \A a \in Archs : r.path[a] => req[u].path[a] \/ (\A d : d = <<r.name, a>> => Good(d)')
  PROVE  ReqOK(label, r)'
<1>1. ReqOK(pc[u], req[u]) /\ ReqType(pc[u], req[u])
  BY ReqAtHand
<1>2. /\ r.id < nextId /\ r.name \in Names
      /\ \A a \in Archs : req[u].path[a] => Good(<<r.name, a>>)
      /\ r.id \in DOMAIN rows =>
            /\ rows[r.id].name = r.name
            /\ r.name \notin crossed => \A a \in Archs : rows[r.id].path[a] => r.path[a]
  BY <1>1 DEF ReqOK, ReqType, Storing
<1>3. \A d : \A a \in Archs : r.path[a] /\ d = <<r.name, a>> => Good(d)'
  BY <1>2 DEF GoodStays, Dirs
<1>4. \A a \in Archs : r.path[a] => Good(<<r.name, a>>)'
  BY <1>3
<1> QED
  BY <1>2, <1>4 DEF ReqOK, ReqType, Storing

LEMMA WipeKeeps ==
  ASSUME Core, NEW u \in Admins, Wipe(u)
  PROVE  Core'
<1>1. PICK a \in req[u].todo :
         /\ disk' = [disk EXCEPT ![<<req[u].name, a>>] = "absent"]
         /\ req' = [req EXCEPT ![u].arch = a]
  BY DEF Wipe
<1>2. /\ pc[u] = "wipe" /\ pc' = [pc EXCEPT ![u] = "unpack"]
      /\ UNCHANGED <<rows, nextId, cut, crossed>>
  BY DEF Wipe, GoTo
<1>3. ReqType("wipe", req[u]) /\ req[u] \in Req /\ a \in Archs /\ req[u].name \in Names
  <2>1. ReqType("wipe", req[u]) /\ req[u] \in Req
    BY <1>2, ReqAtHand
  <2> QED
    BY <2>1 DEF ReqType, Req
<1> DEFINE q == [req[u] EXCEPT !.arch = a]
<1>4. /\ q \in Req /\ q.name = req[u].name /\ q.id = req[u].id
      /\ q.path = req[u].path /\ q.arch = a
  BY <1>3 DEF Req
<1>5. Becomes(u, "unpack", q)
  BY <1>1, <1>2 DEF Becomes, Core, AllOK
<1> HIDE DEF q
<1>6. PICK x \in Req : x = q
  BY <1>4
<1>7. PICK d \in Dirs : d = <<req[u].name, a>>
  BY <1>3 DEF Dirs
<1>8. /\ pc'[u] = "unpack" /\ req'[u] = x
      /\ \A v \in Admins \ {u} : pc'[v] = pc[v] /\ req'[v] = req[v]
  <2>1. Becomes(u, "unpack", x)
    BY <1>5, <1>6
  <2> QED
    BY <2>1, BecomesValues DEF Core
<1>9. \A e \in Dirs : IF e = d THEN disk'[e] = "absent" ELSE disk'[e] = disk[e]
  BY <1>1, <1>7 DEF Core, DiskOK
<1>10. GoodStays
  <2> SUFFICES ASSUME NEW e \in Dirs, Good(e) PROVE Good(e)'
    BY DEF GoodStays
  <2>1. CASE e = d
    <3>1. Target(u)' = e
      BY <1>4, <1>6, <1>7, <1>8, <2>1 DEF Target
    <3> QED
      BY <1>8, <3>1 DEF Good
  <2>2. CASE e # d
    BY <1>2, <1>8, <1>9, <2>2 DEF Good, Target
  <2> QED
    BY <2>1, <2>2
<1>11. DiskOK'
  <2>1. disk' \in [Dirs -> {"absent", "torn", "whole"}]
    BY <1>1, <1>7 DEF Core, DiskOK
  <2>2. \A e \in Dirs : disk'[e] = "torn" => disk[e] = "torn"
    BY <1>9
  <2> QED
    BY <1>2, <1>10, <2>1, <2>2 DEF Core, DiskOK, GoodStays
<1>12. ReqOK("unpack", x)'
  <2>1. ReqType("unpack", x) /\ "unpack" \in Storing
    BY <1>3, <1>4, <1>6 DEF ReqType, Steps, Storing
  <2> QED
    BY <1>2, <1>4, <1>6, <1>10, <2>1, HoldsOn
<1> QED
  <2>1. Becomes(u, "unpack", x) /\ x.name = req[u].name /\ Uploading(u)
    BY <1>2, <1>4, <1>5, <1>6 DEF Uploading
  <2> QED
    BY <1>2, <1>10, <1>11, <1>12, <2>1, Moves

LEMMA UnpackKeeps ==
  ASSUME Core, NEW u \in Admins, Unpack(u)
  PROVE  Core'
<1> DEFINE q == req[u]
           left == q.todo \ {q.arch}
           new == [q EXCEPT !.path[q.arch] = TRUE, !.todo = left, !.arch = NoArch]
           label == IF left = {} THEN "save" ELSE "wipe"
<1>1. PICK state \in {"torn", "whole"} :
        /\ pc[u] = "unpack" /\ UNCHANGED <<rows, nextId, crossed>>
        /\ disk' = [disk EXCEPT ![Target(u)] = state]
        /\ cut' = IF state = "torn" THEN cut \cup {Target(u)} ELSE cut \ {Target(u)}
  BY DEF Unpack
<1>2. ReqType("unpack", q) /\ q \in Req /\ q.name \in Names /\ q.arch \in Archs
  <2>1. ReqType("unpack", q) /\ q \in Req
    BY <1>1, ReqAtHand
  <2> QED
    BY <2>1 DEF ReqType
<1>3. Becomes(u, label, new)
  BY DEF Unpack, Unpacked, GoTo, Becomes, Core, AllOK
<1>4. /\ new \in Req /\ new.name = q.name /\ new.id = q.id /\ new.todo = left
      /\ \A b \in Archs : new.path[b] <=> q.path[b] \/ b = q.arch
  <2> HIDE DEF q
  <2> QED
    BY <1>2 DEF Req, Paths
<1> HIDE DEF new
<1>5. PICK x \in Req : x = new
  BY <1>4
<1>6. PICK l \in {"save", "wipe"} : l = label /\ (l = "wipe" => left # {})
  OBVIOUS
<1>7. PICK d \in Dirs : d = <<q.name, q.arch>> /\ d = Target(u)
  BY <1>2 DEF Dirs, Target
<1> HIDE DEF label, left
<1>8. /\ pc'[u] = l /\ req'[u] = x
      /\ \A v \in Admins \ {u} : pc'[v] = pc[v] /\ req'[v] = req[v]
  <2>1. Becomes(u, l, x)
    BY <1>3, <1>5, <1>6
  <2> QED
    BY <2>1, BecomesValues DEF Core
<1>9. /\ \A e \in Dirs : IF e = d THEN disk'[e] = state ELSE disk'[e] = disk[e]
      /\ disk'[d] = "whole" \/ d \in cut'
      /\ \A e \in Dirs \ {d} : e \in cut => e \in cut'
  BY <1>1, <1>7 DEF Core, DiskOK
<1>10. GoodStays
  <2> SUFFICES ASSUME NEW e \in Dirs, Good(e) PROVE Good(e)'
    BY DEF GoodStays
  <2>1. CASE e = d
    BY <1>9, <2>1 DEF Good
  <2>2. CASE e # d
    BY <1>1, <1>7, <1>8, <1>9, <2>2 DEF Good, Target
  <2> QED
    BY <2>1, <2>2
<1>11. DiskOK'
  <2>1. disk' \in [Dirs -> {"absent", "torn", "whole"}] /\ cut' \subseteq Dirs
    BY <1>1, <1>7 DEF Core, DiskOK
  <2>2. \A e \in Dirs : disk'[e] = "torn" => disk[e] = "torn" \/ (e = d /\ d \in cut')
    BY <1>9
  <2>3. \A e \in Dirs : disk'[e] = "torn" => Good(e)'
    BY <1>10, <2>2 DEF Core, DiskOK, GoodStays, Good
  <2> QED
    BY <2>1, <2>3 DEF DiskOK
<1>12. ReqOK(l, x)'
  <2>1. ReqType(l, x) /\ l \in Storing
    BY <1>2, <1>4, <1>5, <1>6 DEF ReqType, Steps, Storing
  <2>2. Good(d)'
    BY <1>9 DEF Good
  <2>3. \A b \in Archs : x.path[b] => q.path[b] \/ (\A e : e = <<x.name, b>> => Good(e)')
    BY <1>4, <1>5, <1>7, <2>2
  <2>4. x.name = req[u].name /\ x.id = req[u].id /\ \A b \in Archs : q.path[b] => x.path[b]
    BY <1>4, <1>5
  <2> QED
    BY <1>1, <1>10, <2>1, <2>3, <2>4, HoldsOn
<1> QED
  <2>1. Becomes(u, l, x) /\ x.name = req[u].name /\ Uploading(u)
    BY <1>1, <1>3, <1>4, <1>5, <1>6 DEF Uploading
  <2> QED
    BY <1>1, <1>10, <1>11, <1>12, <2>1, Moves

\* Columns of rows change, and the request comes to rest.
LEMMA ColumnsChange ==
  ASSUME Core, NEW u \in Admins, NEW label \in Resting, NEW r \in Req, Becomes(u, label, r),
         pc[u] # "unpack", UNCHANGED <<nextId, disk, cut, crossed>>, DOMAIN rows' = DOMAIN rows,
         \A i \in DOMAIN rows : rows'[i] \in Row /\ rows'[i].name = rows[i].name,
         RowsFit(u),
         \A i \in DOMAIN rows, a \in Archs : rows'[i].path[a] => Good(<<rows[i].name, a>>)
  PROVE  Core'
<1>1. GoodStays
  <2>1. \A v \in Admins : pc[v] = "unpack" => pc'[v] = "unpack" /\ req'[v] = req[v]
    BY BecomesValues DEF Core
  <2> QED
    BY <2>1, GoodWhileUnpacking
<1>2. RowsOK' /\ Single' /\ nextId' \in Nat /\ nextId <= nextId'
  BY DEF Core, RowsOK, Single, OneRowPerName
<1>3. ListedIsUnpacked'
  <2>1. ASSUME NEW i \in DOMAIN rows', NEW a \in Archs, NEW d \in Dirs,
               rows'[i].path[a], d = <<rows'[i].name, a>>
        PROVE  Good(d)'
    <3>1. Good(d)
      BY <2>1
    <3> QED
      BY <1>1, <3>1 DEF GoodStays
  <2> QED
    BY <1>2, <2>1, ListingNext
<1>4. DiskOK'
  BY <1>1 DEF Core, DiskOK, GoodStays
<1>5. ReqOK(label, r)' /\ label \notin {"insert", "wipe", "unpack", "save"}
  BY RestingOK DEF Resting
<1>6. AllOK' /\ Solo'
  BY <1>1, <1>2, <1>5, StepOK
<1> QED
  BY <1>2, <1>3, <1>4, <1>6 DEF Core

LEMMA SaveKeeps ==
  ASSUME Core, NEW u \in Admins, Save(u)
  PROVE  Core'
<1> DEFINE q == req[u]
           new == [NoReq EXCEPT !.id = q.id]
<1>1. /\ pc[u] = "save" /\ UNCHANGED <<nextId, disk, cut, crossed>>
      /\ rows' = [i \in DOMAIN rows |->
                    IF i = q.id THEN [rows[i] EXCEPT !.name = q.name, !.path = q.path]
                    ELSE rows[i]]
  BY DEF Save
<1>2. Becomes(u, "check", new)
  BY DEF Save, GoTo, Becomes
<1>3. ReqOK("save", q) /\ ReqType("save", q) /\ q \in Req
  BY <1>1, ReqAtHand
<1>4. new \in Req
  <2>1. q.id \in 0..MaxId
    BY <1>3 DEF Req
  <2> HIDE DEF q
  <2> QED
    BY <2>1, NoReqType DEF Req
<1>5. /\ q.name \in Names /\ q.path \in Paths
      /\ \A a \in Archs : q.path[a] => Good(<<q.name, a>>)
      /\ q.id \in DOMAIN rows => rows[q.id].name = q.name
  BY <1>3 DEF ReqOK, ReqType, Storing, Req
<1> HIDE DEF q, new
<1>6. PICK x \in Req : x = new
  BY <1>4
<1>7. /\ DOMAIN rows' = DOMAIN rows
      /\ \A i \in DOMAIN rows :
            IF i = q.id THEN rows'[i] = [rows[i] EXCEPT !.name = q.name, !.path = q.path]
            ELSE rows'[i] = rows[i]
  BY <1>1
<1>8. ASSUME NEW i \in DOMAIN rows
      PROVE  /\ rows'[i] \in Row /\ rows'[i].name = rows[i].name
             /\ IF i = q.id THEN rows'[i].path = q.path /\ rows[i].name = q.name
                ELSE rows'[i].path = rows[i].path
  <2>1. rows[i] \in Row
    BY DEF Core, RowsOK
  <2> QED
    BY <1>5, <1>7, <2>1 DEF Row, Paths
<1>9. \A i \in DOMAIN rows, a \in Archs : rows'[i].path[a] => Good(<<rows[i].name, a>>)
  BY <1>5, <1>8, Listing DEF Core
<1>10. RowsFit(u)
  BY <1>1, <1>7, <1>8 DEF RowsFit, Uploading, q
<1>11. "check" \in Resting /\ Becomes(u, "check", x) /\ pc[u] # "unpack"
  BY <1>1, <1>2, <1>6 DEF Resting
<1>12. \A i \in DOMAIN rows : rows'[i] \in Row /\ rows'[i].name = rows[i].name
  BY <1>8
<1> QED
  BY <1>1, <1>7, <1>9, <1>10, <1>11, <1>12, ColumnsChange

\* The two statements that set the default touch no other column.
LEMMA DefaultKeeps ==
  ASSUME Core, NEW u \in Admins, Clear(u) \/ Set(u)
  PROVE  Core'
<1>1. /\ pc[u] \in {"clear", "set"} /\ UNCHANGED <<nextId, disk, cut, crossed>>
      /\ DOMAIN rows' = DOMAIN rows
      /\ \A i \in DOMAIN rows :
            \/ rows'[i] = [rows[i] EXCEPT !.active = TRUE]
            \/ rows'[i] = [rows[i] EXCEPT !.active = FALSE]
            \/ rows'[i] = rows[i]
  BY DEF Clear, Set
<1>2. ASSUME NEW i \in DOMAIN rows
      PROVE  /\ rows'[i] \in Row /\ rows'[i].name = rows[i].name
             /\ rows'[i].path = rows[i].path
  <2>1. rows[i] \in Row
    BY DEF Core, RowsOK
  <2> QED
    BY <1>1, <2>1 DEF Row
<1>3. /\ \A i \in DOMAIN rows, a \in Archs : rows'[i].path[a] => Good(<<rows[i].name, a>>)
      /\ \A i \in DOMAIN rows : rows'[i] \in Row /\ rows'[i].name = rows[i].name
      /\ RowsFit(u) /\ pc[u] # "unpack"
  BY <1>1, <1>2, Listing DEF Core, RowsFit
<1>4. PICK label \in Resting, r \in Req : Becomes(u, label, r)
  <2>1. CASE Clear(u)
    <3>1. req' = [req EXCEPT ![u] = req[u]] /\ pc' = [pc EXCEPT ![u] = "set"]
      BY <2>1 DEF Clear, GoTo, Core, AllOK
    <3> QED
      BY <3>1, ReqAtHand DEF Becomes, Resting
  <2>2. CASE Set(u)
    BY <2>2, DoneBecomes, NoReqType DEF Set, Resting
  <2> QED
    BY <2>1, <2>2
<1> QED
  BY <1>1, <1>3, <1>4, ColumnsChange

LEMMA DeleteKeeps ==
  ASSUME Core, NEW id, DeleteImage(id)
  PROVE  Core'
<1>1. /\ UNCHANGED <<nextId, disk, pc, req, cut, crossed>> /\ DOMAIN rows' = DOMAIN rows \ {id}
      /\ \A i \in DOMAIN rows' : i \in DOMAIN rows /\ rows'[i] = rows[i]
  BY DEF DeleteImage
<1>2. RowsOK' /\ Single'
  BY <1>1 DEF Core, RowsOK, Single, OneRowPerName
<1>3. \A d : Good(d) <=> Good(d)'
  BY <1>1 DEF Good, Target
<1>4. ListedIsUnpacked'
  <2>1. ASSUME NEW i \in DOMAIN rows', NEW a \in Archs, NEW d \in Dirs,
               rows'[i].path[a], d = <<rows'[i].name, a>>
        PROVE  Good(d)'
    <3>1. Good(d)
      BY <1>1, <2>1, Listing DEF Core
    <3> QED
      BY <1>3, <3>1
  <2> QED
    BY <1>2, <2>1, ListingNext
<1>5. DiskOK'
  BY <1>1, <1>3 DEF Core, DiskOK
<1>6. \A n : Named(n) = {} => Named(n)' = {}
  BY <1>1 DEF Named
<1>7. \A l, r : ReqOK(l, r) => ReqOK(l, r)'
  <2> SUFFICES ASSUME NEW l, NEW r, ReqOK(l, r) PROVE ReqOK(l, r)'
    OBVIOUS
  <2>1. \A a : Good(<<r.name, a>>) => Good(<<r.name, a>>)'
    BY <1>3
  <2> QED
    BY <1>1, <1>3, <1>6, <2>1 DEF ReqOK
<1>8. AllOK' /\ Solo'
  BY <1>1, <1>7 DEF Core, AllOK, Solo, Uploading
<1> QED
  BY <1>2, <1>4, <1>5, <1>8 DEF Core

LEMMA BootKeeps ==
  ASSUME Core, NEW u \in Admins, WriteBootFile(u)
  PROVE  Core'
<1>1. /\ pc[u] = "boot" /\ UNCHANGED <<rows, nextId, cut, crossed>>
      /\ disk' = [disk EXCEPT ![Target(u)] = IF @ = "absent" THEN "torn" ELSE @]
      /\ Becomes(u, "idle", NoReq)
  BY DoneBecomes DEF WriteBootFile
<1>2. ReqOK("boot", req[u]) /\ ReqType("boot", req[u])
  BY <1>1, ReqAtHand
<1>3. PICK d \in Dirs : d = Target(u) /\ Good(d)
  BY <1>2 DEF ReqOK, ReqType, Dirs, Target
<1>4. /\ disk'[d] = (IF disk[d] = "absent" THEN "torn" ELSE disk[d])
      /\ \A e \in Dirs \ {d} : disk'[e] = disk[e]
      /\ disk' \in [Dirs -> {"absent", "torn", "whole"}]
  BY <1>1, <1>3 DEF Core, DiskOK
<1>5. GoodStays
  <2>1. \A v \in Admins : pc[v] = "unpack" => pc'[v] = "unpack" /\ req'[v] = req[v]
    BY <1>1, BecomesValues DEF Core
  <2>2. \A e \in Dirs : disk[e] = "whole" => disk'[e] = "whole"
    BY <1>4
  <2> QED
    BY <1>1, <2>1, <2>2 DEF GoodStays, Good, Target
<1>6. DiskOK'
  <2>1. \A e \in Dirs : disk'[e] = "torn" => Good(e)
    BY <1>3, <1>4 DEF Core, DiskOK
  <2> QED
    BY <1>1, <1>4, <1>5, <2>1 DEF Core, DiskOK, GoodStays
<1>7. ReqOK("idle", NoReq)' /\ NoReq \in Req
  BY RestingOK, NoReqType DEF Resting
<1> QED
  BY <1>1, <1>5, <1>6, <1>7, Moves

LEMMA RiskIsDir ==
  ASSUME Core, NEW u \in Admins, NEW d \in AtRisk(u)
  PROVE  d \in Dirs /\ pc[u] # "idle" /\ (pc[u] = "unpack" => d = Target(u))
<1>1. ReqType(pc[u], req[u]) /\ req[u] \in Req
  BY ReqAtHand
<1>2. CASE pc[u] = "wipe"
  <2>1. req[u].name \in Names /\ req[u].todo \subseteq Archs
    BY <1>1, <1>2 DEF ReqType, Req
  <2>2. \E a \in req[u].todo : d = <<req[u].name, a>>
    BY <1>2 DEF AtRisk
  <2> QED
    BY <1>2, <2>1, <2>2 DEF Dirs
<1>3. CASE pc[u] \in {"unpack", "boot"}
  <2>1. req[u].name \in Names /\ req[u].arch \in Archs
    BY <1>1, <1>3 DEF ReqType
  <2>2. \E a \in {req[u].arch} : d = <<req[u].name, a>>
    BY <1>3 DEF AtRisk
  <2> QED
    BY <1>3, <2>1, <2>2 DEF Dirs, Target
<1> QED
  BY <1>2, <1>3 DEF AtRisk

LEMMA FailKeeps ==
  ASSUME Core, NEW u \in Admins, Fail(u)
  PROVE  Core'
<1>1. Becomes(u, "idle", NoReq) /\ UNCHANGED <<rows, nextId, crossed>>
  BY DoneBecomes DEF Fail
<1>2. ReqOK("idle", NoReq)' /\ NoReq \in Req
  BY RestingOK, NoReqType DEF Resting
<1>3. CASE pc[u] \in {"insert", "wipe", "save", "clear", "set", "boot"} /\ UNCHANGED <<disk, cut>>
  BY <1>1, <1>2, <1>3, OnlyMoves
<1>4. ASSUME NEW d \in AtRisk(u), disk' = [disk EXCEPT ![d] = "torn"], cut' = cut \cup {d}
      PROVE  Core'
  <2>2. d \in Dirs /\ (pc[u] = "unpack" => d = Target(u))
    BY RiskIsDir
  <2>3. /\ disk' \in [Dirs -> {"absent", "torn", "whole"}] /\ cut' \subseteq Dirs
        /\ d \in cut' /\ cut \subseteq cut' /\ \A e \in Dirs \ {d} : disk'[e] = disk[e]
    BY <1>4, <2>2 DEF Core, DiskOK
  <2>4. \A v \in Admins \ {u} : pc'[v] = pc[v] /\ req'[v] = req[v]
    BY <1>1, BecomesValues DEF Core
  <2>5. GoodStays
    <3> SUFFICES ASSUME NEW e \in Dirs, Good(e), e # d PROVE Good(e)'
      BY <2>3 DEF GoodStays, Good
    <3> QED
      BY <2>2, <2>3, <2>4 DEF Good, Target
  <2>6. DiskOK'
    <3>1. \A e \in Dirs : disk'[e] = "torn" => Good(e)'
      BY <2>3, <2>5 DEF Core, DiskOK, Good, GoodStays
    <3> QED
      BY <2>3, <3>1 DEF DiskOK
  <2> QED
    BY <1>1, <1>2, <2>5, <2>6, Moves
<1> QED
  BY <1>3, <1>4 DEF Fail

(***************************************************************************)
(* Restart. The directories it finds are dirs, the images without a row get *)
(* the identifiers ids.                                                     *)
(***************************************************************************)
Risks == UNION {AtRisk(u) : u \in Admins}
Killed == {Target(u) : u \in {v \in Admins : pc[v] = "unpack"}}
DirsAfter(half) == [d \in Dirs |-> IF d \in half THEN "torn" ELSE disk[d]]

Rescanned(dirs, row) == [row EXCEPT !.path = Listed(dirs, row.name)]

\* What the scan makes of the rows, one by one.
LEMMA UpsertRows ==
  ASSUME NEW dirs, NEW found, NEW ids, RowsOK, ids \in [DOMAIN ids -> Int],
         \A m, n \in DOMAIN ids : ids[m] = ids[n] => m = n,
         \A n \in DOMAIN ids : ids[n] >= nextId, NEW new, new = Upsert(dirs, found, ids)
  PROVE  /\ DOMAIN new = DOMAIN rows \cup {ids[n] : n \in DOMAIN ids}
         /\ \A n \in DOMAIN ids : new[ids[n]] = NewRow(n, Listed(dirs, n))
         /\ \A i \in DOMAIN rows : new[i] \in {rows[i], Rescanned(dirs, rows[i])}
<1>1. \A i \in DOMAIN rows : i \in Int /\ i < nextId /\ nextId \in Int
  BY MaxIdAssumption DEF RowsOK
<1>2. ASSUME NEW n \in DOMAIN ids
      PROVE  /\ ids[n] \notin DOMAIN rows
             /\ (CHOOSE m \in DOMAIN ids : ids[m] = ids[n]) = n
  <2>1. ids[n] \in Int /\ ids[n] >= nextId
    OBVIOUS
  <2>2. ids[n] \notin DOMAIN rows
    BY <1>1, <2>1
  <2>3. (CHOOSE m \in DOMAIN ids : ids[m] = ids[n]) \in {m \in DOMAIN ids : ids[m] = ids[n]}
    OBVIOUS
  <2> QED
    BY <2>2, <2>3
<1>4. ASSUME NEW n \in DOMAIN ids
      PROVE  Upsert(dirs, found, ids)[ids[n]] = NewRow(n, Listed(dirs, n))
  BY <1>2 DEF Upsert
<1>5. ASSUME NEW i \in DOMAIN rows
      PROVE  Upsert(dirs, found, ids)[i] \in {rows[i], Rescanned(dirs, rows[i])}
  BY DEF Upsert, Rescanned
<1>6. DOMAIN Upsert(dirs, found, ids) = DOMAIN rows \cup {ids[n] : n \in DOMAIN ids}
  BY DEF Upsert
<1> QED
  BY <1>4, <1>5, <1>6

\* Everything about a restart that the invariants need, in its parts.
LEMMA RestartParts ==
  ASSUME Core, Restart
  PROVE  \E half \in SUBSET Risks, dirs \in [Dirs -> {"absent", "torn", "whole"}] :
         /\ dirs = DirsAfter(half) /\ disk' = dirs
         /\ cut' = cut \cup half \cup Killed /\ crossed' = crossed
         /\ hurt' = (hurt \/ \E u \in Admins : pc[u] # "idle")
         /\ pc' = [u \in Admins |-> "idle"] /\ req' = [u \in Admins |-> NoReq]
         /\ nextId' \in Nat /\ nextId <= nextId' /\ nextId' <= MaxId + 1
         /\ nextId' = nextId + Cardinality(Unlisted(Found(dirs)))
         /\ \E ids \in [Unlisted(Found(dirs)) -> nextId..nextId' - 1] :
               /\ \A m, n \in DOMAIN ids : ids[m] = ids[n] => m = n
               /\ rows' = Upsert(dirs, Found(dirs), ids)
<1>1. PICK half \in SUBSET Risks :
        LET dirs == DirsAfter(half)
            new == Cardinality(Unlisted(Found(dirs)))
        IN  /\ nextId + new <= MaxId + 1
            /\ nextId' = nextId + new
            /\ \E ids \in [Unlisted(Found(dirs)) -> nextId..nextId + new - 1] :
                  /\ \A m, n \in DOMAIN ids : ids[m] = ids[n] => m = n
                  /\ rows' = Upsert(dirs, Found(dirs), ids)
            /\ disk' = dirs
            /\ cut' = cut \cup half \cup Killed
            /\ crossed' = crossed
            /\ hurt' = (hurt \/ \E u \in Admins : pc[u] # "idle")
            /\ pc' = [u \in Admins |-> "idle"]
            /\ req' = [u \in Admins |-> NoReq]
  BY DEF Restart, Risks, Killed, DirsAfter
<1>2. DirsAfter(half) \in [Dirs -> {"absent", "torn", "whole"}]
  BY DEF DirsAfter, Core, DiskOK
<1>3. PICK dirs \in [Dirs -> {"absent", "torn", "whole"}] : dirs = DirsAfter(half)
  BY <1>2
<1>4. Cardinality(Unlisted(Found(dirs))) \in Nat
  <2>1. Unlisted(Found(dirs)) \subseteq Names
    BY DEF Unlisted, Found
  <2> QED
    BY <2>1, NamesAssumption, FS_Subset, FS_CardinalityType
<1>5. PICK new \in Nat : new = Cardinality(Unlisted(Found(dirs)))
  BY <1>4
<1>6. /\ nextId + new <= MaxId + 1 /\ nextId' = nextId + new /\ disk' = dirs
      /\ cut' = cut \cup half \cup Killed /\ crossed' = crossed
      /\ hurt' = (hurt \/ \E u \in Admins : pc[u] # "idle")
      /\ pc' = [u \in Admins |-> "idle"] /\ req' = [u \in Admins |-> NoReq]
  BY <1>1, <1>3, <1>5
<1>7. PICK ids \in [Unlisted(Found(dirs)) -> nextId..nextId + new - 1] :
        /\ \A m, n \in DOMAIN ids : ids[m] = ids[n] => m = n
        /\ rows' = Upsert(dirs, Found(dirs), ids)
  BY <1>1, <1>3, <1>5
<1>8. nextId \in Nat /\ nextId' \in Nat /\ nextId <= nextId' /\ nextId' <= MaxId + 1
  BY <1>6, MaxIdAssumption DEF Core, RowsOK
<1>9. ids \in [Unlisted(Found(dirs)) -> nextId..nextId' - 1]
  <2>1. nextId' - 1 = nextId + new - 1
    BY <1>6, <1>8
  <2>2. nextId..nextId' - 1 = nextId..nextId + new - 1
    BY <2>1, Zenon
  <2> QED
    BY <2>2, Zenon
<1> QED
  BY <1>3, <1>5, <1>6, <1>7, <1>8, <1>9

LEMMA RestartKeeps ==
  ASSUME Core, Restart
  PROVE  Core' /\ GoodStays
<1>1. PICK half \in SUBSET Risks, dirs \in [Dirs -> {"absent", "torn", "whole"}] :
         /\ dirs = DirsAfter(half) /\ disk' = dirs /\ cut' = cut \cup half \cup Killed
         /\ crossed' = crossed /\ pc' = [u \in Admins |-> "idle"] /\ req' = [u \in Admins |-> NoReq]
         /\ nextId' \in Nat /\ nextId <= nextId' /\ nextId' <= MaxId + 1
         /\ \E ids \in [Unlisted(Found(dirs)) -> nextId..nextId' - 1] :
               /\ \A m, n \in DOMAIN ids : ids[m] = ids[n] => m = n
               /\ rows' = Upsert(dirs, Found(dirs), ids)
  BY RestartParts
<1>2. PICK ids \in [Unlisted(Found(dirs)) -> nextId..nextId' - 1] :
         /\ \A m, n \in DOMAIN ids : ids[m] = ids[n] => m = n
         /\ rows' = Upsert(dirs, Found(dirs), ids)
  BY <1>1
<1>3. \A d \in Dirs : dirs[d] = IF d \in half THEN "torn" ELSE disk[d]
  BY <1>1 DEF DirsAfter
<1>4. /\ half \subseteq Dirs /\ Killed \subseteq Dirs
      /\ half \subseteq cut' /\ Killed \subseteq cut' /\ cut \subseteq cut'
  <2>1. ASSUME NEW v \in Admins, pc[v] = "unpack" PROVE Target(v) \in Dirs
    <3>1. ReqType("unpack", req[v])
      BY <2>1, ReqAtHand
    <3> QED
      BY <3>1 DEF ReqType, Target, Dirs
  <2>2. Risks \subseteq Dirs
    BY RiskIsDir DEF Risks
  <2> QED
    BY <1>1, <2>1, <2>2 DEF Killed
<1>5. GoodStays
  <2> SUFFICES ASSUME NEW d \in Dirs, Good(d) PROVE Good(d)'
    BY DEF GoodStays
  <2>1. CASE d \in cut \/ \E u \in Admins : pc[u] = "unpack" /\ Target(u) = d
    BY <1>4, <2>1 DEF Good, Killed
  <2>2. CASE disk[d] = "whole"
    BY <1>1, <1>3, <1>4, <2>2 DEF Good
  <2> QED
    BY <2>1, <2>2 DEF Good
<1>6. \A d \in Dirs : dirs[d] = "torn" => Good(d)'
  BY <1>3, <1>4, <1>5 DEF Core, DiskOK, GoodStays, Good
<1>7. DiskOK'
  BY <1>1, <1>4, <1>6 DEF Core, DiskOK
<1>8. AllOK' /\ Solo'
  <2>1. ReqOK("idle", NoReq)'
    BY RestingOK, NoReqType DEF Resting
  <2>2. \A u \in Admins : pc'[u] = "idle" /\ req'[u] = NoReq
    BY <1>1
  <2>3. pc' = [u \in Admins |-> pc'[u]] /\ req' = [u \in Admins |-> req'[u]]
    BY <1>1
  <2>4. ASSUME NEW u \in Admins PROVE ReqOK(pc[u], req[u])'
    BY <2>1, <2>2
  <2> QED
    BY <1>1, <2>2, <2>3, <2>4 DEF AllOK, Solo, Uploading, Core
<1>9. /\ DOMAIN rows' = DOMAIN rows \cup {ids[n] : n \in DOMAIN ids}
      /\ \A n \in DOMAIN ids : rows'[ids[n]] = NewRow(n, Listed(dirs, n))
      /\ \A i \in DOMAIN rows : rows'[i] \in {rows[i], Rescanned(dirs, rows[i])}
  <2>1. ids \in [DOMAIN ids -> Int] /\ \A n \in DOMAIN ids : ids[n] >= nextId
    BY MaxIdAssumption DEF Core, RowsOK
  <2> DEFINE found == Found(dirs)
  <2> HIDE DEF found
  <2>2. RowsOK /\ rows' = Upsert(dirs, found, ids)
    BY <1>2 DEF Core, found
  <2>3. /\ DOMAIN rows' = DOMAIN rows \cup {ids[n] : n \in DOMAIN ids}
        /\ \A n \in DOMAIN ids : rows'[ids[n]] = NewRow(n, Listed(dirs, n))
        /\ \A i \in DOMAIN rows : rows'[i] \in {rows[i], Rescanned(dirs, rows[i])}
    BY <1>2, <2>1, <2>2, UpsertRows
  <2> QED
    BY <2>3 DEF found
<1>10. \A n \in DOMAIN ids : n \in Names /\ Named(n) = {} /\ ids[n] \in nextId..nextId' - 1
  BY DEF Unlisted, Found
<1>11. ASSUME NEW n \in Names
       PROVE  /\ Listed(dirs, n) \in Paths
              /\ \A d : \A a \in Archs : d = <<n, a>> /\ Listed(dirs, n)[a] => Good(d)'
  <2>1. Listed(dirs, n) \in Paths
    BY DEF Listed, Paths
  <2>2. ASSUME NEW a \in Archs, NEW d, d = <<n, a>>, Listed(dirs, n)[a] PROVE Good(d)'
    <3>1. d \in Dirs /\ dirs[d] # "absent"
      BY <2>2 DEF Listed, Dirs
    <3>2. CASE dirs[d] = "whole"
      BY <1>1, <3>2 DEF Good
    <3> QED
      BY <1>6, <3>1, <3>2
  <2> QED
    BY <2>1, <2>2
<1>12. ASSUME NEW i \in DOMAIN rows'
       PROVE  /\ i \in 1..nextId' - 1 /\ rows'[i] \in Row
              /\ \A d : \A a \in Archs : d = <<rows'[i].name, a>> /\ rows'[i].path[a] => Good(d)'
              /\ i \in DOMAIN rows => rows'[i].name = rows[i].name
              /\ i \notin DOMAIN rows =>
                    \E n \in DOMAIN ids : i = ids[n] /\ rows'[i].name = n
  <2>1. CASE i \in DOMAIN rows
    <3>1. rows[i] \in Row /\ i \in 1..nextId' - 1
      BY <1>1, <2>1, MaxIdAssumption DEF Core, RowsOK
    <3>2. \A d : \A a \in Archs : d = <<rows[i].name, a>> /\ rows[i].path[a] => Good(d)'
      BY <1>5, <2>1, <3>1, Listing DEF Core, GoodStays, Dirs, Row
    <3>3. CASE rows'[i] = rows[i]
      BY <2>1, <3>1, <3>2, <3>3
    <3>4. CASE rows'[i] = [rows[i] EXCEPT !.path = Listed(dirs, rows[i].name)]
      <4>1. rows'[i] \in Row /\ rows'[i].name = rows[i].name /\ rows[i].name \in Names
            /\ rows'[i].path = Listed(dirs, rows[i].name)
        BY <1>11, <3>1, <3>4 DEF Row, Paths
      <4> QED
        BY <1>11, <2>1, <3>1, <4>1
    <3> QED
      BY <1>9, <2>1, <3>3, <3>4 DEF Rescanned
  <2>2. CASE i \notin DOMAIN rows
    <3>1. PICK n \in DOMAIN ids : i = ids[n]
      BY <1>9, <2>2
    <3>2. n \in Names /\ i \in 1..nextId' - 1
      BY <1>1, <1>10, <3>1, MaxIdAssumption DEF Core, RowsOK
    <3>3. rows'[i] \in Row /\ rows'[i].name = n /\ rows'[i].path = Listed(dirs, n)
      <4>1. rows'[i] = NewRow(n, Listed(dirs, n)) /\ Listed(dirs, n) \in Paths
        BY <1>9, <1>11, <3>1, <3>2
      <4> QED
        BY <3>2, <4>1 DEF NewRow, Row, Paths
    <3> QED
      BY <1>11, <2>2, <3>1, <3>2, <3>3
  <2> QED
    BY <2>1, <2>2
<1>13. RowsOK'
  <2>1. nextId' \in 1..MaxId + 1
    BY <1>1, MaxIdAssumption DEF Core, RowsOK
  <2> QED
    BY <1>12, <2>1 DEF RowsOK
<1>14. Single'
  <2> SUFFICES ASSUME NEW i \in DOMAIN rows', NEW j \in DOMAIN rows',
                      rows'[i].name = rows'[j].name, rows'[i].name \notin crossed'
               PROVE  i = j
    BY DEF Single, OneRowPerName
  <2>1. CASE i \in DOMAIN rows /\ j \in DOMAIN rows
    BY <1>1, <1>12, <2>1 DEF Core, Single, OneRowPerName
  <2>2. CASE i \notin DOMAIN rows /\ j \notin DOMAIN rows
    BY <1>12, <2>2
  <2>3. \A k \in DOMAIN rows : rows[k].name \notin DOMAIN ids
    BY <1>10 DEF Named
  <2> QED
    BY <1>12, <2>1, <2>2, <2>3
<1>15. ListedIsUnpacked'
  BY <1>12, <1>13, ListingNext
<1> QED
  BY <1>5, <1>7, <1>8, <1>13, <1>14, <1>15 DEF Core

(***************************************************************************)
(* The default image.                                                       *)
(***************************************************************************)
LEMMA DefaultMoves ==
  ASSUME Core, DefaultInv, NEW u \in Admins, NEW label, GoTo(u, label),
         UNCHANGED hurt,
         DOMAIN rows' = DOMAIN rows \/ (label \in ToDefault /\ DOMAIN rows' # {}),
         Active' = {} => label \in ToDefault \/ (Active = {} /\ pc[u] \notin ToDefault),
         ~hurt /\ DOMAIN rows = {} /\ DOMAIN rows' = {} => label \notin AtWork /\ UNCHANGED disk
  PROVE  DefaultInv'
<1>1. pc'[u] = label /\ \A v \in Admins \ {u} : pc'[v] = pc[v]
  BY DEF Core, AllOK, GoTo
<1>2. ASSUME ~hurt', DOMAIN rows' # {}, Active' = {} PROVE \E v \in Admins : pc'[v] \in ToDefault
  BY <1>1, <1>2 DEF DefaultInv
<1>3. ASSUME ~hurt', DOMAIN rows' = {}
      PROVE  (\A d \in Dirs : disk'[d] = "absent") /\ \A v \in Admins : pc'[v] \notin AtWork
  BY <1>1, <1>3 DEF DefaultInv
<1> QED
  BY <1>2, <1>3 DEF DefaultInv

\* Statements that leave the column active alone.
LEMMA SameActive ==
  ASSUME DOMAIN rows' = DOMAIN rows, \A i \in DOMAIN rows : rows'[i].active = rows[i].active
  PROVE  Active' = Active
BY DEF Active

LEMMA HandleDefault ==
  ASSUME Core, DefaultInv, NEW u \in Admins, Start(u) \/ Handle(u)
  PROVE  DefaultInv'
<1>1. ASSUME NEW n \in Names, NEW archs \in SUBSET Archs, Upload(u, n, archs) PROVE DefaultInv'
  <2>1. /\ UNCHANGED <<rows, disk, hurt>> /\ pc[u] \notin ToDefault /\ Active' = Active
    BY <1>1 DEF Upload, ToDefault, Active
  <2>2. PICK label : GoTo(u, label) /\ (DOMAIN rows = {} => label = "insert")
    BY <1>1 DEF Upload, FindThenStore, Named
  <2> QED
    BY <2>1, <2>2, DefaultMoves DEF AtWork, Storing, ToDefault
<1>2. ASSUME NEW id \in 1..MaxId, SetActive(u, id) PROVE DefaultInv'
  <2>1. UNCHANGED <<rows, disk, hurt>> /\ GoTo(u, "clear")
    BY <1>2 DEF SetActive
  <2> QED
    BY <2>1, DefaultMoves DEF ToDefault, AtWork, Storing
<1>3. ASSUME NEW id \in 1..MaxId, NEW a \in Archs, UploadBootFile(u, id, a) PROVE DefaultInv'
  <2>1. /\ UNCHANGED <<rows, disk, hurt>> /\ GoTo(u, "boot")
        /\ pc[u] \notin ToDefault /\ Active' = Active /\ DOMAIN rows # {}
    BY <1>3 DEF UploadBootFile, ToDefault, Active
  <2> QED
    BY <2>1, DefaultMoves
<1>4. CASE Insert(u)
  <2>1. UNCHANGED <<disk, hurt>> /\ GoTo(u, "wipe") /\ DOMAIN rows' # {}
    BY <1>4 DEF Insert
  <2> QED
    BY <2>1, DefaultMoves DEF ToDefault
<1>5. CASE Wipe(u) \/ Unpack(u)
  <2>1. UNCHANGED <<rows, hurt>> /\ pc[u] \in AtWork
    BY <1>5 DEF Wipe, Unpack, AtWork, Storing
  <2>3. PICK label \in ToDefault : GoTo(u, label)
    BY <1>5 DEF Wipe, Unpack, Unpacked, ToDefault
  <2>2. ~(~hurt /\ DOMAIN rows = {})
    BY <2>1 DEF DefaultInv
  <2> QED
    BY <2>1, <2>2, <2>3, DefaultMoves
<1>6. CASE Save(u)
  <2>1. UNCHANGED <<disk, hurt>> /\ GoTo(u, "check") /\ DOMAIN rows' = DOMAIN rows
    BY <1>6 DEF Save
  <2> QED
    BY <2>1, DefaultMoves DEF ToDefault, AtWork, Storing
<1>7. CASE CheckDefault(u)
  <2>1. UNCHANGED <<rows, disk>> /\ hurt' = (hurt /\ Active = {}) /\ Active' = Active
    BY <1>7 DEF CheckDefault, Active
  <2>2. CASE Active = {}
    <3>1. UNCHANGED hurt
      BY <2>1, <2>2 DEF DefaultInv
    <3>2. GoTo(u, "clear")
      BY <1>7, <2>2 DEF CheckDefault
    <3> QED
      BY <2>1, <3>1, <3>2, DefaultMoves DEF ToDefault, AtWork, Storing
  <2>3. CASE Active # {}
    BY <2>1, <2>3 DEF DefaultInv, Active
  <2> QED
    BY <2>2, <2>3
<1>8. CASE Clear(u)
  <2>1. UNCHANGED <<disk, hurt>> /\ GoTo(u, "set") /\ DOMAIN rows' = DOMAIN rows
    BY <1>8 DEF Clear
  <2> QED
    BY <2>1, DefaultMoves DEF ToDefault, AtWork, Storing
<1>9. CASE Set(u)
  <2>1. hurt' \in BOOLEAN /\ (~hurt' => Active' # {})
    <3>1. hurt' = (req[u].id \notin DOMAIN rows) /\ DOMAIN rows' = DOMAIN rows
      BY <1>9 DEF Set
    <3>2. ASSUME req[u].id \in DOMAIN rows PROVE rows'[req[u].id].active
      <4>1. rows[req[u].id] \in Row /\ rows'[req[u].id] = [rows[req[u].id] EXCEPT !.active = TRUE]
        BY <1>9, <3>2 DEF Set, Core, RowsOK
      <4> QED
        BY <4>1 DEF Row
    <3> QED
      BY <3>1, <3>2 DEF Active
  <2> QED
    BY <2>1 DEF DefaultInv, Active
<1>10. CASE WriteBootFile(u)
  <2>1. /\ UNCHANGED <<rows, hurt>> /\ GoTo(u, "idle") /\ pc[u] = "boot"
        /\ Active' = Active
    BY <1>10 DEF WriteBootFile, Done, Active
  <2>2. ~(~hurt /\ DOMAIN rows = {})
    BY <2>1 DEF DefaultInv, AtWork
  <2> QED
    BY <2>1, <2>2, DefaultMoves DEF ToDefault
<1> QED
  BY <1>1, <1>2, <1>3, <1>4, <1>5, <1>6, <1>7, <1>8, <1>9, <1>10 DEF Start, Handle

LEMMA RestartDefault ==
  ASSUME Core, DefaultInv, Restart
  PROVE  DefaultInv'
<1>1. PICK half \in SUBSET Risks, dirs \in [Dirs -> {"absent", "torn", "whole"}] :
         /\ dirs = DirsAfter(half) /\ disk' = dirs /\ pc' = [u \in Admins |-> "idle"]
         /\ hurt' = (hurt \/ \E u \in Admins : pc[u] # "idle")
         /\ \E ids \in [Unlisted(Found(dirs)) -> nextId..nextId' - 1] :
               rows' = Upsert(dirs, Found(dirs), ids)
  BY RestartParts
<1>2. PICK ids \in [Unlisted(Found(dirs)) -> nextId..nextId' - 1] :
         rows' = Upsert(dirs, Found(dirs), ids)
  BY <1>1
<1>3. hurt' \in BOOLEAN
  BY <1>1 DEF DefaultInv
<1> SUFFICES ASSUME ~hurt'
             PROVE  /\ DOMAIN rows' # {} => Active' # {}
                    /\ DOMAIN rows' = {} =>
                          /\ \A d \in Dirs : disk'[d] = "absent"
                          /\ \A u \in Admins : pc'[u] \notin AtWork
  BY <1>3 DEF DefaultInv
<1>4. ~hurt /\ \A u \in Admins : pc[u] = "idle"
  BY <1>1
<1>5. disk' = disk /\ dirs = disk
  <2>1. half = {}
    BY <1>4, RiskIsDir DEF Risks
  <2> QED
    BY <1>1, <2>1 DEF DirsAfter, Core, DiskOK
<1>6. \A u \in Admins : pc'[u] \notin AtWork
  BY <1>1 DEF AtWork, Storing
<1>7. DOMAIN rows' = DOMAIN rows \cup {ids[n] : n \in DOMAIN ids}
  BY <1>2 DEF Upsert
<1>8. CASE DOMAIN rows = {}
  <2>1. \A d \in Dirs : disk[d] = "absent"
    BY <1>4, <1>8 DEF DefaultInv
  <2>2. Unlisted(Found(dirs)) = {}
    BY <1>5, <2>1 DEF Unlisted, Found, Dirs
  <2> QED
    BY <1>5, <1>6, <1>7, <1>8, <2>1, <2>2
<1>9. CASE DOMAIN rows # {}
  <2>1. PICK i \in DOMAIN rows : rows[i].active /\ rows[i] \in Row
    BY <1>4, <1>9 DEF DefaultInv, Active, Core, RowsOK, ToDefault
  <2>2. \/ rows'[i] = rows[i]
        \/ rows'[i] = [rows[i] EXCEPT !.path = Listed(dirs, rows[i].name)]
    BY <1>2, <1>7 DEF Upsert
  <2>3. rows'[i].active /\ i \in DOMAIN rows'
    BY <1>7, <2>1, <2>2 DEF Row
  <2> QED
    BY <2>3 DEF Active
<1> QED
  BY <1>8, <1>9

(***************************************************************************)
(* What the rows list is kept.                                              *)
(***************************************************************************)
Kept ==
    \A i \in DOMAIN rows \cap DOMAIN rows', a \in Archs :
        rows[i].path[a] /\ <<rows[i].name, a>> \notin cut' /\ rows[i].name \notin crossed'
        => rows'[i].path[a]

LEMMA SavePaths == ASSUME Core, NEW u \in Admins, Save(u) PROVE Kept
<1> DEFINE q == req[u]
<1>1. ReqOK("save", q) /\ ReqType("save", q)
  BY ReqAtHand DEF Save
<1>2. q.id \in DOMAIN rows /\ rows[q.id].name \notin crossed =>
         \A a \in Archs : rows[q.id].path[a] => q.path[a]
  BY <1>1 DEF ReqOK, Storing
<1>3. rows' = [i \in DOMAIN rows |->
                 IF i = q.id THEN [rows[i] EXCEPT !.name = q.name, !.path = q.path] ELSE rows[i]]
  BY DEF Save
<1> HIDE DEF q
<1>4. ASSUME NEW i \in DOMAIN rows, NEW a \in Archs, rows[i].path[a], rows[i].name \notin crossed
      PROVE  rows'[i].path[a]
  <2>1. rows[i] \in Row
    BY DEF Core, RowsOK
  <2>2. CASE i = q.id
    <3>1. rows'[i].path = q.path
      BY <1>3, <2>1, <2>2 DEF Row
    <3> QED
      BY <1>2, <1>4, <2>2, <3>1
  <2> QED
    BY <1>3, <1>4, <2>2
<1>5. crossed' = crossed
  BY DEF Save
<1> QED
  BY <1>4, <1>5 DEF Kept

LEMMA RestartPaths == ASSUME Core, Restart PROVE Kept
<1>1. PICK half \in SUBSET Risks, dirs \in [Dirs -> {"absent", "torn", "whole"}] :
         /\ disk' = dirs /\ pc' = [u \in Admins |-> "idle"]
         /\ \E ids \in [Unlisted(Found(dirs)) -> nextId..nextId' - 1] :
               rows' = Upsert(dirs, Found(dirs), ids)
  BY RestartParts
<1>2. PICK ids \in [Unlisted(Found(dirs)) -> nextId..nextId' - 1] :
         rows' = Upsert(dirs, Found(dirs), ids)
  BY <1>1
<1>3. ASSUME NEW i \in DOMAIN rows, NEW a \in Archs, NEW d, d = <<rows[i].name, a>>,
             rows[i].path[a], d \notin cut'
      PROVE  rows'[i].path[a]
  <2>1. rows[i] \in Row
    BY DEF Core, RowsOK
  <2>2. d \in Dirs /\ Good(d)
    BY <1>3, <2>1, Listing DEF Core, Row, Dirs
  <2>3. Good(d)'
    BY <2>2, RestartKeeps DEF GoodStays
  <2>4. dirs[d] = "whole"
    BY <1>1, <1>3, <2>3 DEF Good
  <2>5. Listed(dirs, rows[i].name)[a]
    BY <1>3, <2>4 DEF Listed
  <2>6. \/ rows'[i] = rows[i]
        \/ rows'[i] = [rows[i] EXCEPT !.path = Listed(dirs, rows[i].name)]
    BY <1>2 DEF Upsert
  <2> QED
    BY <1>3, <2>1, <2>5, <2>6 DEF Row
<1> QED
  BY <1>3 DEF Kept

LEMMA NextPaths == ASSUME Core, [Next]_vars PROVE Kept
<1>1. ASSUME \A i \in DOMAIN rows \cap DOMAIN rows' : rows'[i].path = rows[i].path PROVE Kept
  BY <1>1 DEF Kept
<1>2. ASSUME UNCHANGED rows PROVE Kept
  BY <1>1, <1>2
<1>3. CASE UNCHANGED vars
  BY <1>2, <1>3 DEF vars
<1>4. ASSUME NEW u \in Admins, Start(u) PROVE Kept
  BY <1>2, <1>4 DEF Start, Upload, SetActive, UploadBootFile
<1>5. ASSUME NEW u \in Admins, Handle(u) PROVE Kept
  <2>1. CASE Wipe(u) \/ Unpack(u) \/ CheckDefault(u) \/ WriteBootFile(u)
    BY <1>2, <2>1 DEF Wipe, Unpack, CheckDefault, WriteBootFile
  <2>2. CASE Insert(u)
    <3>1. \A i \in DOMAIN rows : i # nextId
      BY MaxIdAssumption DEF Core, RowsOK
    <3> QED
      BY <1>1, <2>2, <3>1 DEF Insert
  <2>3. CASE Clear(u) \/ Set(u)
    <3>1. \A i \in DOMAIN rows : rows[i] \in Row
      BY DEF Core, RowsOK
    <3> QED
      BY <1>1, <2>3, <3>1 DEF Clear, Set, Row
  <2> QED
    BY <1>5, <2>1, <2>2, <2>3, SavePaths DEF Handle
<1>6. ASSUME NEW u \in Admins, Fail(u) PROVE Kept
  BY <1>2, <1>6 DEF Fail
<1>7. ASSUME NEW id, DeleteImage(id) PROVE Kept
  BY <1>1, <1>7 DEF DeleteImage
<1> QED
  BY <1>3, <1>4, <1>5, <1>6, <1>7, RestartPaths DEF Next

(***************************************************************************)
(* What an id names.                                                        *)
(***************************************************************************)
NamesKept ==
    \A i \in DOMAIN rows' : i < nextId => i \in DOMAIN rows /\ rows'[i].name = rows[i].name

\* What an upload saves at its end has the name its row has, if the row is there.
LEMMA SaveNames == ASSUME Core, NEW u \in Admins, Save(u) PROVE NamesKept
<1> DEFINE q == req[u]
<1>1. q.id \in DOMAIN rows => rows[q.id].name = q.name
  <2>1. ReqOK("save", q)
    BY ReqAtHand DEF Save
  <2> QED
    BY <2>1 DEF ReqOK, Storing
<1>2. rows' = [i \in DOMAIN rows |->
                 IF i = q.id THEN [rows[i] EXCEPT !.name = q.name, !.path = q.path] ELSE rows[i]]
  BY DEF Save
<1>3. \A i \in DOMAIN rows : rows[i] \in Row
  BY DEF Core, RowsOK
<1> HIDE DEF q
<1> QED
  BY <1>1, <1>2, <1>3 DEF NamesKept, Row

LEMMA RestartNames == ASSUME Core, Restart PROVE NamesKept
<1>1. PICK half \in SUBSET Risks, dirs \in [Dirs -> {"absent", "torn", "whole"}] :
         \E ids \in [Unlisted(Found(dirs)) -> nextId..nextId' - 1] :
            /\ \A m, n \in DOMAIN ids : ids[m] = ids[n] => m = n
            /\ rows' = Upsert(dirs, Found(dirs), ids)
  BY RestartParts
<1>2. PICK found : found = Found(dirs)
  OBVIOUS
<1>3. PICK ids \in [Unlisted(found) -> nextId..nextId' - 1] :
         /\ \A m, n \in DOMAIN ids : ids[m] = ids[n] => m = n
         /\ rows' = Upsert(dirs, found, ids)
  BY <1>1, <1>2
<1>4. RowsOK /\ nextId \in Int
  BY MaxIdAssumption DEF Core, RowsOK
<1>5. ids \in [DOMAIN ids -> Int] /\ \A n \in DOMAIN ids : ids[n] \in Int /\ ids[n] >= nextId
  BY <1>3, <1>4
<1>6. /\ DOMAIN rows' = DOMAIN rows \cup {ids[n] : n \in DOMAIN ids}
      /\ \A i \in DOMAIN rows : rows'[i] \in {rows[i], Rescanned(dirs, rows[i])}
  BY <1>3, <1>4, <1>5, UpsertRows
<1>7. \A i \in DOMAIN rows : rows'[i].name = rows[i].name
  BY <1>4, <1>6 DEF Rescanned, RowsOK, Row
<1>8. \A n \in DOMAIN ids : ~(ids[n] < nextId)
  BY <1>4, <1>5
<1> QED
  BY <1>6, <1>7, <1>8 DEF NamesKept

LEMMA NextNames == ASSUME Core, [Next]_vars PROVE NamesKept
<1>1. \A i \in DOMAIN rows : rows[i] \in Row
  BY DEF Core, RowsOK
<1>2. ASSUME UNCHANGED rows PROVE NamesKept
  BY <1>2 DEF NamesKept
<1>3. CASE UNCHANGED vars
  BY <1>2, <1>3 DEF vars
<1>4. ASSUME NEW u \in Admins, Start(u) \/ Fail(u) PROVE NamesKept
  BY <1>2, <1>4 DEF Start, Upload, SetActive, UploadBootFile, Fail
<1>5. ASSUME NEW u \in Admins, Handle(u) PROVE NamesKept
  <2>1. CASE Wipe(u) \/ Unpack(u) \/ CheckDefault(u) \/ WriteBootFile(u)
    BY <1>2, <2>1 DEF Wipe, Unpack, CheckDefault, WriteBootFile
  <2>2. CASE Insert(u)
    <3>1. nextId \in Int /\ \A i \in DOMAIN rows : i # nextId
      BY MaxIdAssumption DEF Core, RowsOK
    <3>2. /\ DOMAIN rows' = DOMAIN rows \cup {nextId}
          /\ \A i \in DOMAIN rows : rows'[i] = rows[i]
      BY <2>2, <3>1 DEF Insert
    <3> QED
      BY <3>1, <3>2 DEF NamesKept
  <2>3. CASE Clear(u) \/ Set(u)
    BY <1>1, <2>3 DEF Clear, Set, Row, NamesKept
  <2> QED
    BY <1>5, <2>1, <2>2, <2>3, SaveNames DEF Handle
<1>6. ASSUME NEW id, DeleteImage(id) PROVE NamesKept
  BY <1>6 DEF DeleteImage, NamesKept
<1> QED
  BY <1>3, <1>4, <1>5, <1>6, RestartNames DEF Next

(***************************************************************************)
(* The theorems.                                                            *)
(***************************************************************************)
LEMMA NextInv ==
  ASSUME Inv, [Next]_vars
  PROVE  Inv'
<1>1. CASE UNCHANGED vars
  <2>1. \A d : Good(d) <=> Good(d)'
    BY <1>1 DEF vars, Good, Target
  <2>2. \A l, r : ReqOK(l, r) => ReqOK(l, r)'
    <3> SUFFICES ASSUME NEW l, NEW r, ReqOK(l, r) PROVE ReqOK(l, r)'
      OBVIOUS
    <3>1. \A a : Good(<<r.name, a>>) => Good(<<r.name, a>>)'
      BY <2>1
    <3> QED
      BY <1>1, <2>1, <3>1 DEF vars, ReqOK, Named
  <2>3. DiskOK' /\ AllOK'
    BY <1>1, <2>1, <2>2 DEF vars, Inv, Core, DiskOK, AllOK
  <2>4. RowsOK' /\ Single' /\ ListedIsUnpacked' /\ Solo' /\ DefaultInv'
    BY <1>1 DEF vars, Inv, Core, RowsOK, Single, OneRowPerName, ListedIsUnpacked, Target, Solo,
                Uploading, DefaultInv, Active
  <2> QED
    BY <2>3, <2>4 DEF Inv, Core
<1>2. ASSUME NEW u \in Admins, Start(u) \/ Handle(u) PROVE Inv'
  <2>1. Core'
    BY <1>2, UploadKeeps, LooksKeep, InsertKeeps, WipeKeeps, UnpackKeeps, SaveKeeps,
       DefaultKeeps, BootKeeps DEF Inv, Start, Handle
  <2>2. DefaultInv'
    BY <1>2, HandleDefault DEF Inv
  <2> QED
    BY <2>1, <2>2 DEF Inv
<1>3. ASSUME NEW u \in Admins, Fail(u) PROVE Inv'
  BY <1>3, FailKeeps DEF Inv, DefaultInv, Fail
<1>4. ASSUME NEW id, DeleteImage(id) PROVE Inv'
  BY <1>4, DeleteKeeps DEF Inv, DefaultInv, DeleteImage
<1>5. CASE Restart
  BY <1>5, RestartKeeps, RestartDefault DEF Inv
<1> QED
  BY <1>1, <1>2, <1>3, <1>4, <1>5 DEF Next

LEMMA SpecInv == Spec => []Inv
<1>1. Inv /\ [Next]_vars => Inv'
  BY NextInv
<1> QED
  BY <1>1, InitInv, PTL DEF Spec

\* Every table, directory and request keeps its type; a request on its way names
\* an image and, when it unpacks, an architecture.
THEOREM ImageTypeCorrect == Spec => []TypeOK
BY SpecInv, InvTypeOK, PTL

\* findImageByName, UpsertOSImage: however many uploads, deletions, failures and
\* scans there are, a name has one row as long as no two uploads of it have met.
THEOREM NamesStayUnique == Spec => []OneRowPerName
<1>1. Inv => OneRowPerName
  BY DEF Inv, Core, Single
<1> QED
  BY <1>1, SpecInv, PTL

\* handleUploadImage, handleUploadBootFile: an architecture is listed only after an
\* ISO was unpacked into its directory; when that is incomplete, an upload that
\* failed, was killed or left files out explains it, or one that is at work.
THEOREM ListsUnpacked == Spec => []ListedIsUnpacked
<1>1. Inv => ListedIsUnpacked
  BY DEF Inv, Core
<1> QED
  BY <1>1, SpecInv, PTL

\* SetActiveOSImage, handleUploadImage: with every request answered, an upload or
\* activation that ended well has left a default, however they overlap, until one
\* fails or dies or a row is deleted; the rows of the first scan have none.
THEOREM DefaultIsSet == Spec => []SomeDefault
<1>1. Inv => SomeDefault
  BY DEF Inv, DefaultInv, SomeDefault, ToDefault
<1> QED
  BY <1>1, SpecInv, PTL

\* handleUploadImage writes all columns from a row read before it unpacked: for a
\* name of which no two uploads have met, an architecture that is listed stays so
\* across uploads, activations and scans.
THEOREM ListedStaysListed == Spec => PathsKept
<1>1. Inv /\ [Next]_vars =>
        [\A i \in DOMAIN rows \cap DOMAIN rows', a \in Archs :
            rows[i].path[a] /\ <<rows[i].name, a>> \notin cut' /\ rows[i].name \notin crossed'
            => rows'[i].path[a]]_vars
  BY NextPaths DEF Inv, Kept
<1> QED
  BY <1>1, SpecInv, PTL DEF Spec, PathsKept

\* AUTOINCREMENT, UpdateOSImage: an id never names another image than the one it was
\* given to, whatever an upload saves under it when it has unpacked.
THEOREM IdsNameOneImage == Spec => IdsKeepNames
<1>1. Inv /\ [Next]_vars =>
        [\A i \in DOMAIN rows' :
            i < nextId => i \in DOMAIN rows /\ rows'[i].name = rows[i].name]_vars
  BY NextNames DEF Inv, NamesKept
<1> QED
  BY <1>1, SpecInv, PTL DEF Spec, IdsKeepNames

===============================================================================
