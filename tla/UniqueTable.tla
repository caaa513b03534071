------------------------------ MODULE UniqueTable ------------------------------
(***************************************************************************)
(* What the schema promises of a table with an AUTOINCREMENT key and a      *)
(* unique index, and no more: a row's id was never given before, to a row   *)
(* that is there or to one that is gone, and no two rows hold the same key. *)
(* HostStore and NodeInfo are shown to implement this, however their        *)
(* requests overlap. The mapping reads used from sqlite's counter.          *)
(***************************************************************************)
CONSTANTS Ids, Keys

VARIABLES
    keyOf,      \* the rows: id -> key
    used        \* the ids ever given

Init ==
    /\ keyOf = [i \in {} |-> i]
    /\ used = {}

Taken(k) == \E i \in DOMAIN keyOf : keyOf[i] = k

\* One row, or several with different keys.
Insert(new) ==
    /\ DOMAIN new \cap used = {}
    /\ \A i \in DOMAIN new : ~Taken(new[i])
    /\ \A i, j \in DOMAIN new : i # j => new[i] # new[j]
    /\ keyOf' = [i \in DOMAIN keyOf \cup DOMAIN new |->
                    IF i \in DOMAIN new THEN new[i] ELSE keyOf[i]]
    /\ used' = used \cup DOMAIN new

Rekey(i, k) ==
    /\ i \in DOMAIN keyOf
    /\ ~Taken(k)
    /\ keyOf' = [keyOf EXCEPT ![i] = k]
    /\ UNCHANGED used

Remove(ids) ==
    /\ keyOf' = [i \in DOMAIN keyOf \ ids |-> keyOf[i]]
    /\ UNCHANGED used

Next ==
    \/ \E ids \in SUBSET Ids : Remove(ids)
    \/ \E i \in Ids, k \in Keys : Rekey(i, k)
    \/ \E ids \in SUBSET Ids : \E new \in [ids -> Keys] : Insert(new)

Spec == Init /\ [][Next]_<<keyOf, used>>

(***************************************************************************)
(* What follows from it.                                                    *)
(***************************************************************************)
\* No two rows hold the same key.
KeysUnique == \A i, j \in DOMAIN keyOf : i # j => keyOf[i] # keyOf[j]

\* A row that is gone never comes back, nor does another under its id.
GoneForGood ==
    [][\A i \in used : i \in DOMAIN keyOf' => i \in DOMAIN keyOf]_<<keyOf, used>>

================================================================================
