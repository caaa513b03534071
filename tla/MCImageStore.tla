----------------------------- MODULE MCImageStore -----------------------------
(***************************************************************************)
(* ImageStore with two requests, and either one image of two architectures  *)
(* or two images of one: what is beyond that is checked when it is reached  *)
(* and not continued from.                                                  *)
(***************************************************************************)
EXTENDS ImageStore, TLC

CONSTANTS n1, n2, x86, arm, u1, u2

AnyOrder == Permutations({n1, n2}) \cup Permutations({x86, arm}) \cup Permutations({u1, u2})

NamesInUse ==
    {rows[i].name : i \in DOMAIN rows} \cup {req[u].name : u \in Admins}
    \cup Found(disk) \cup {d[1] : d \in cut}

ArchsInUse ==
    UNION {req[u].todo \cup {req[u].arch} : u \in Admins}
    \cup {a \in Archs : \E n \in Names : disk[<<n, a>>] # "absent" \/ <<n, a>> \in cut}

OneOfThem ==
    \/ \E n \in Names : NamesInUse \subseteq {n, NoName}
    \/ \E a \in Archs : ArchsInUse \subseteq {a, NoArch}

================================================================================
