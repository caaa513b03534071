------------------------------ MODULE ImageStore ------------------------------
(***************************************************************************)
(* Installation sources: the rows of os_image, the directories below        *)
(* web_root/repo that they list, the requests that change both              *)
(* (handler_image.go), and the scan at start that fills the table from the  *)
(* directories (sync_images.go).                                            *)
(*                                                                          *)
(* A SQL statement is one step, and so are removing a directory and         *)
(* unpacking into it, each taken where it ends. Temporary files, the ISO    *)
(* paths (always empty by the time a row is written) and the content of     *)
(* boot files are left out; a name is uploaded with one ISO an architecture.*)
(***************************************************************************)
EXTENDS Integers, FiniteSets

CONSTANTS
    Names,       \* image names
    Archs,       \* x86_64 and aarch64
    Admins,      \* requests that may be in flight at once (a bound of the model)
    MaxId,       \* highest id a row is given (a bound)
    Faults       \* TRUE: a statement, a removal, an unpacking or a write may fail

ASSUME MaxIdAssumption == MaxId \in Nat \ {0}
ASSUME NamesAssumption == IsFiniteSet(Names)
ASSUME FaultsAssumption == Faults \in BOOLEAN

VARIABLES
    rows,       \* id -> row
    nextId,     \* AUTOINCREMENT
    disk,       \* directory of a name and an architecture
    pc, req,    \* a request: where its handler is and what it holds
    \* History, which no step looks at:
    cut,        \* directories whose last upload or boot file failed, was killed or left
                \* files out, and those that were incomplete before the first start
    hurt,       \* since there last was a default, a request failed or died or a row was
                \* deleted, or the first scan has listed what it found
    crossed     \* names for which two uploads were once in flight together

vars == <<rows, nextId, disk, pc, req, cut, hurt, crossed>>

NoName == "none"
NoArch == "none"
NoPaths == [a \in Archs |-> FALSE]
Dirs == Names \X Archs
NoReq == [name |-> NoName, id |-> 0, path |-> NoPaths, todo |-> {}, arch |-> NoArch]
Row == [name : Names, path : [Archs -> BOOLEAN], active : BOOLEAN]
Steps == {"idle", "insert", "wipe", "unpack", "save", "check", "clear", "set", "boot"}

TypeOK ==
    /\ nextId \in 1..MaxId + 1
    /\ DOMAIN rows \subseteq 1..nextId - 1
    /\ \A i \in DOMAIN rows : rows[i] \in Row
    /\ disk \in [Dirs -> {"absent", "torn", "whole"}]
    /\ pc \in [Admins -> Steps]
    /\ req \in [Admins -> [name : Names \cup {NoName}, id : 0..MaxId,
                            path : [Archs -> BOOLEAN], todo : SUBSET Archs,
                            arch : Archs \cup {NoArch}]]
    /\ cut \subseteq Dirs
    /\ hurt \in BOOLEAN
    /\ crossed \subseteq Names
    /\ \A u \in Admins :
          /\ pc[u] \in {"insert", "wipe", "unpack", "save", "boot"} => req[u].name \in Names
          /\ pc[u] \in {"unpack", "boot"} => req[u].arch \in Archs
          /\ pc[u] \in {"insert", "wipe"} => req[u].todo # {}

Active == {i \in DOMAIN rows : rows[i].active}
Named(n) == {i \in DOMAIN rows : rows[i].name = n}
Uploading(u) == pc[u] \in {"insert", "wipe", "unpack", "save"}
Target(u) == <<req[u].name, req[u].arch>>

GoTo(u, label) == pc' = [pc EXCEPT ![u] = label]
Done(u) == GoTo(u, "idle") /\ req' = [req EXCEPT ![u] = NoReq]

(***************************************************************************)
(* Upload.                                                                  *)
(***************************************************************************)
\* The row the list shows first, the newest; its columns are held from here on.
FindImageByName(n) == CHOOSE i \in Named(n) : \A j \in Named(n) : j <= i

Meets(n) == \E v \in Admins : Uploading(v) /\ req[v].name = n

FindThenStore(u, n, archs, held) ==
    LET asked == [NoReq EXCEPT !.name = n, !.todo = archs]
    IN  \/ /\ Named(n) = {}
           /\ GoTo(u, "insert")
           /\ req' = [req EXCEPT ![u] = asked]
        \/ /\ Named(n) # {}
           /\ GoTo(u, "wipe")
           /\ req' = [req EXCEPT ![u] = [asked EXCEPT !.id = FindImageByName(n), !.path = held]]

\* Mutant: the columns of the row found are not kept.
UploadBlank(u, n, archs) ==
    /\ pc[u] = "idle"
    /\ archs # {}
    /\ FindThenStore(u, n, archs, NoPaths)
    /\ crossed' = IF Meets(n) THEN crossed \cup {n} ELSE crossed
    /\ UNCHANGED <<rows, nextId, disk, cut, hurt>>

\* Mutant: an upload without a file is accepted.
UploadNothing(u, n, archs) ==
    /\ pc[u] = "idle"
    /\ FindThenStore(u, n, archs, rows[FindImageByName(n)].path)
    /\ crossed' = IF Meets(n) THEN crossed \cup {n} ELSE crossed
    /\ UNCHANGED <<rows, nextId, disk, cut, hurt>>

Upload(u, n, archs) ==
    /\ pc[u] = "idle"
    /\ archs # {}
    /\ FindThenStore(u, n, archs, rows[FindImageByName(n)].path)
    /\ crossed' = IF Meets(n) THEN crossed \cup {n} ELSE crossed
    /\ UNCHANGED <<rows, nextId, disk, cut, hurt>>

NewRow(n, path) == [name |-> n, path |-> path, active |-> FALSE]

\* Mutant: without AUTOINCREMENT the next id is the highest in use plus one.
InsertReused(u) ==
    /\ pc[u] = "insert"
    /\ \E n \in 1..MaxId :
          /\ \A i \in DOMAIN rows : i < n
          /\ n = 1 \/ n - 1 \in DOMAIN rows
          /\ nextId' = n + 1
          /\ rows' = [i \in DOMAIN rows \cup {n} |->
                        IF i = n THEN NewRow(req[u].name, NoPaths) ELSE rows[i]]
          /\ req' = [req EXCEPT ![u].id = n]
    /\ GoTo(u, "wipe")
    /\ UNCHANGED <<disk, cut, hurt, crossed>>

Insert(u) ==
    /\ pc[u] = "insert"
    /\ nextId <= MaxId
    /\ nextId' = nextId + 1
    /\ rows' = [i \in DOMAIN rows \cup {nextId} |->
                  IF i = nextId THEN NewRow(req[u].name, NoPaths) ELSE rows[i]]
    /\ req' = [req EXCEPT ![u].id = nextId]
    /\ GoTo(u, "wipe")
    /\ UNCHANGED <<disk, cut, hurt, crossed>>

\* The architectures are taken in any order (a Go map).
Wipe(u) ==
    /\ pc[u] = "wipe"
    /\ \E a \in req[u].todo :
          /\ disk' = [disk EXCEPT ![<<req[u].name, a>>] = "absent"]
          /\ req' = [req EXCEPT ![u].arch = a]
    /\ GoTo(u, "unpack")
    /\ UNCHANGED <<rows, nextId, cut, hurt, crossed>>

Unpacked(u) ==
    LET r == req[u]
        left == r.todo \ {r.arch}
    IN  /\ req' = [req EXCEPT ![u].path[r.arch] = TRUE, ![u].todo = left, ![u].arch = NoArch]
        /\ GoTo(u, IF left = {} THEN "save" ELSE "wipe")

\* ExtractISO passes over a file of the image it cannot open and reports success;
\* another upload of the name may also remove what is being written.
Unpack(u) ==
    /\ pc[u] = "unpack"
    /\ \E state \in {"torn", "whole"} :
          /\ disk' = [disk EXCEPT ![Target(u)] = state]
          /\ cut' = IF state = "torn" THEN cut \cup {Target(u)} ELSE cut \ {Target(u)}
    /\ Unpacked(u)
    /\ UNCHANGED <<rows, nextId, hurt, crossed>>

\* Every column but active; a row deleted in the meantime is updated to no effect.
Save(u) ==
    /\ pc[u] = "save"
    /\ rows' = [i \in DOMAIN rows |->
                  IF i = req[u].id
                  THEN [rows[i] EXCEPT !.name = req[u].name, !.path = req[u].path]
                  ELSE rows[i]]
    /\ GoTo(u, "check")
    /\ req' = [req EXCEPT ![u] = [NoReq EXCEPT !.id = req[u].id]]
    /\ UNCHANGED <<nextId, disk, cut, hurt, crossed>>

\* Mutant: an upload never sets the default image.
CheckNothing(u) ==
    /\ pc[u] = "check"
    /\ Done(u)
    /\ UNCHANGED <<rows, nextId, disk, cut, hurt, crossed>>

\* The image becomes the default when there is none.
CheckDefault(u) ==
    /\ pc[u] = "check"
    /\ IF Active = {} THEN GoTo(u, "clear") /\ UNCHANGED req ELSE Done(u)
    /\ hurt' = (hurt /\ Active = {})
    /\ UNCHANGED <<rows, nextId, disk, cut, crossed>>

(***************************************************************************)
(* The other requests.                                                      *)
(***************************************************************************)
\* The administrator names any id: the page may be older than the table.
SetActive(u, id) ==
    /\ pc[u] = "idle"
    /\ GoTo(u, "clear")
    /\ req' = [req EXCEPT ![u].id = id]
    /\ UNCHANGED <<rows, nextId, disk, cut, hurt, crossed>>

Clear(u) ==
    /\ pc[u] = "clear"
    /\ rows' = [i \in DOMAIN rows |-> [rows[i] EXCEPT !.active = FALSE]]
    /\ GoTo(u, "set")
    /\ UNCHANGED <<nextId, disk, req, cut, hurt, crossed>>

Set(u) ==
    /\ pc[u] = "set"
    /\ rows' = [i \in DOMAIN rows |->
                  IF i = req[u].id THEN [rows[i] EXCEPT !.active = TRUE] ELSE rows[i]]
    /\ hurt' = (req[u].id \notin DOMAIN rows)
    /\ Done(u)
    /\ UNCHANGED <<nextId, disk, cut, crossed>>

\* One statement; the directories stay.
DeleteImage(id) ==
    /\ id \in DOMAIN rows
    /\ rows' = [i \in DOMAIN rows \ {id} |-> rows[i]]
    /\ hurt' = TRUE
    /\ UNCHANGED <<nextId, disk, pc, req, cut, crossed>>

\* Mutant: a boot file is taken for any architecture.
UploadBootFileAny(u, id, a) ==
    /\ pc[u] = "idle"
    /\ id \in DOMAIN rows
    /\ GoTo(u, "boot")
    /\ req' = [req EXCEPT ![u] = [NoReq EXCEPT !.name = rows[id].name, !.arch = a]]
    /\ UNCHANGED <<rows, nextId, disk, cut, hurt, crossed>>

\* A boot file is for an architecture that the row lists.
UploadBootFile(u, id, a) ==
    /\ pc[u] = "idle"
    /\ id \in DOMAIN rows /\ rows[id].path[a]
    /\ GoTo(u, "boot")
    /\ req' = [req EXCEPT ![u] = [NoReq EXCEPT !.name = rows[id].name, !.arch = a]]
    /\ UNCHANGED <<rows, nextId, disk, cut, hurt, crossed>>

\* MkdirAll makes the directory when it is gone by now.
WriteBootFile(u) ==
    /\ pc[u] = "boot"
    /\ disk' = [disk EXCEPT ![Target(u)] = IF @ = "absent" THEN "torn" ELSE @]
    /\ Done(u)
    /\ UNCHANGED <<rows, nextId, cut, hurt, crossed>>

\* The directory a request is removing, unpacking into or writing to.
AtRisk(u) ==
    {<<req[u].name, a>> : a \in
        CASE pc[u] = "wipe" -> {b \in req[u].todo : disk[<<req[u].name, b>>] # "absent"}
          [] pc[u] \in {"unpack", "boot"} -> {req[u].arch}
          [] OTHER -> {}}

\* A step fails, and the directory may be left half removed, half unpacked, or
\* without the boot file that was renamed away.
Fail(u) ==
    /\ Faults
    /\ \/ /\ pc[u] \in {"insert", "wipe", "save", "clear", "set", "boot"}
          /\ UNCHANGED <<disk, cut>>
       \/ \E d \in AtRisk(u) :
            /\ disk' = [disk EXCEPT ![d] = "torn"]
            /\ cut' = cut \cup {d}
    /\ hurt' = TRUE
    /\ Done(u)
    /\ UNCHANGED <<rows, nextId, crossed>>

(***************************************************************************)
(* Start: syncImageDirectories, UpsertOSImage.                              *)
(***************************************************************************)
Found(dirs) == {n \in Names : \E a \in Archs : dirs[<<n, a>>] # "absent"}

\* The names whose directories are found get their columns from them: in the row
\* GetOSImageByName returns, the oldest, or in a new one.
Listed(dirs, n) == [a \in Archs |-> dirs[<<n, a>>] # "absent"]
First(n) == CHOOSE i \in Named(n) : \A j \in Named(n) : i <= j

Upsert(dirs, found, ids) ==
    [i \in DOMAIN rows \cup {ids[n] : n \in DOMAIN ids} |->
       IF i \notin DOMAIN rows
       THEN LET n == CHOOSE m \in DOMAIN ids : ids[m] = i IN NewRow(n, Listed(dirs, n))
       ELSE IF rows[i].name \in found /\ i = First(rows[i].name)
       THEN [rows[i] EXCEPT !.path = Listed(dirs, rows[i].name)]
       ELSE rows[i]]

\* Mutant: every directory gets a new row.
UnlistedBlind(found) == found

Unlisted(found) == {n \in found : Named(n) = {}}

\* The process dies, a removal, an unpacking or a write half-way or not begun, and
\* scans at its start.
Restart ==
    \E half \in SUBSET UNION {AtRisk(u) : u \in Admins} :
        LET dirs == [d \in Dirs |-> IF d \in half THEN "torn" ELSE disk[d]]
            new == Cardinality(Unlisted(Found(dirs)))
        IN  /\ \A u \in Admins : Cardinality(half \cap AtRisk(u)) <= 1
            /\ nextId + new <= MaxId + 1
            /\ nextId' = nextId + new
            /\ \E ids \in [Unlisted(Found(dirs)) -> nextId..nextId + new - 1] :
                  /\ \A m, n \in DOMAIN ids : ids[m] = ids[n] => m = n
                  /\ rows' = Upsert(dirs, Found(dirs), ids)
            /\ disk' = dirs
            /\ cut' = cut \cup half \cup {Target(u) : u \in {v \in Admins : pc[v] = "unpack"}}
            /\ hurt' = (hurt \/ \E u \in Admins : pc[u] # "idle")
            /\ pc' = [u \in Admins |-> "idle"]
            /\ req' = [u \in Admins |-> NoReq]
            /\ UNCHANGED crossed

\* A new database; directories may be there already, and the first scan lists them
\* in rows that are not in force.
Init ==
    /\ disk \in [Dirs -> {"absent", "torn", "whole"}]
    /\ nextId = Cardinality(Found(disk)) + 1
    /\ nextId <= MaxId + 1
    /\ \E name \in [1..nextId - 1 -> Found(disk)] :
          /\ \A i, j \in DOMAIN name : name[i] = name[j] => i = j
          /\ rows = [i \in DOMAIN name |-> NewRow(name[i], Listed(disk, name[i]))]
    /\ pc = [u \in Admins |-> "idle"]
    /\ req = [u \in Admins |-> NoReq]
    /\ cut = {d \in Dirs : disk[d] = "torn"}
    /\ hurt = (Found(disk) # {})
    /\ crossed = {}

Start(u) ==
    \/ \E n \in Names, archs \in SUBSET Archs : Upload(u, n, archs)
    \/ \E id \in 1..MaxId : SetActive(u, id) \/ \E a \in Archs : UploadBootFile(u, id, a)

Handle(u) ==
    \/ Insert(u) \/ Wipe(u) \/ Unpack(u) \/ Save(u) \/ CheckDefault(u)
    \/ Clear(u) \/ Set(u) \/ WriteBootFile(u)

Next ==
    \/ \E u \in Admins : Start(u) \/ Handle(u) \/ Fail(u)
    \/ \E id \in 1..MaxId : DeleteImage(id)
    \/ Restart

Spec == Init /\ [][Next]_vars

(***************************************************************************)
(* Properties.                                                              *)
(***************************************************************************)
\* The comment of findImageByName: a name has one row.
OneRecordPerName == \A i, j \in DOMAIN rows : rows[i].name = rows[j].name => i = j

\* It has, whatever was uploaded, deleted, scanned, cut off and restarted, for every
\* name of which no two uploads were ever in flight together; os_image has no index
\* on its names that would see to the others (UpsertOSImage, findImageByName).
OneRowPerName ==
    \A i, j \in DOMAIN rows :
        rows[i].name = rows[j].name /\ rows[i].name \notin crossed => i = j

\* A row lists an architecture only after its directory was unpacked, or while it is
\* being unpacked again: an incomplete directory behind it is explained by an upload
\* that failed, was killed or left a file out, never by a boot file that made the
\* directory of an architecture nobody uploaded (handleUploadBootFile, MkdirAll).
ListedIsUnpacked ==
    \A i \in DOMAIN rows, a \in Archs :
        LET d == <<rows[i].name, a>>
        IN  rows[i].path[a] =>
              \/ disk[d] = "whole" \/ d \in cut
              \/ \E u \in Admins : pc[u] = "unpack" /\ Target(u) = d

\* The comment of syncImageDirectories: what it lists holds a repository. Without
\* uploads that leave a file out, this is what scanning for repodata/ would give.
ListedIsRepo ==
    (\A u \in Admins : pc[u] = "idle") =>
        \A i \in DOMAIN rows, a \in Archs : rows[i].path[a] => disk[<<rows[i].name, a>>] = "whole"

\* Uploading the second architecture of an image, activating it or scanning at start
\* takes no architecture from a row, unless its directory is cut or two uploads of
\* the name met: handleUploadImage writes all columns from the row it read before it
\* unpacked, so the later of two that met undoes what the other has added.
PathsKept ==
    [][\A i \in DOMAIN rows \cap DOMAIN rows', a \in Archs :
          rows[i].path[a] /\ <<rows[i].name, a>> \notin cut' /\ rows[i].name \notin crossed'
          => rows'[i].path[a]]_vars

\* With every request answered, an upload or activation that ended well has left a
\* default image, however they overlapped, until a request fails or dies or a row is
\* deleted; the rows of the first scan have none.
SomeDefault ==
    (\A u \in Admins : pc[u] = "idle") /\ ~hurt => DOMAIN rows = {} \/ Active # {}

\* An id once given names the same image for good, or nothing: what an upload saves
\* at its end, unpacking done, never reaches a row that took the place of the one it
\* read, although that may be deleted, made again or scanned anew in the meantime.
IdsKeepNames ==
    [][\A i \in DOMAIN rows' :
          i < nextId => i \in DOMAIN rows /\ rows'[i].name = rows[i].name]_vars

===============================================================================
