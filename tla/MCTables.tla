-------------------------------- MODULE MCTables --------------------------------
(***************************************************************************)
(* HostStore, NodeInfo, ActiveStore and DhcpClients: three groups of tables *)
(* in the database, one table in memory, and those who change them. They    *)
(* share no state, so a property of one is decided by its own steps: each   *)
(* behaviour here takes the steps of the part chosen at first.              *)
(***************************************************************************)
EXTENDS HostStore, NodeInfo, MCDhcpClients, MCActiveStore

CONSTANTS r1, r2, a1, p1, p2, q1, q2, n1, n2, v1, v2, m1, m2, m3

\* Each part is symmetric in its requests (clients) and in its values. As a
\* behaviour takes the steps of one part only, they are exchanged all at once.
Requesters ==
    {x \in {f @@ g @@ h @@ w : f \in Permutations({r1, r2}), g \in Permutations({q1, q2}),
                               h \in Permutations({m1, m2}), w \in Permutations({w1, w2})} :
        /\ (x[r1] = r1) = (x[q1] = q1) /\ (x[r1] = r1) = (x[m1] = m1)
        /\ (x[r1] = r1) = (x[w1] = w1)}
Contained ==
    {x \in {f @@ g @@ t : f \in Permutations({p1, p2}), g \in Permutations({n1, n2}),
                          t \in Permutations({t1, t2})} :
        (x[p1] = p1) = (x[n1] = n1) /\ (x[p1] = p1) = (x[t1] = t1)}

MCSymmetry ==
    {f @@ g @@ ip : f \in Requesters, g \in Contained, ip \in Permutations({ip1, ip2})}

VARIABLE part

\* The parts that take no step have one initial state.
MCInit ==
    /\ HostInit /\ NodeInit /\ ClientInit /\ StoreInit
    /\ part \in {"host_info", "host_resource", "clients", "store"}
    /\ part # "clients" => pending = <<Subnet(5, 6, TRUE)>>
    /\ part # "store" => kind = "ks" /\ pxeIP = ip1

MCNext ==
    \/ part = "host_info" /\ HostNext /\ UNCHANGED <<nodeVars, allVars, activeVars, part>>
    \/ part = "host_resource" /\ NodeNext /\ UNCHANGED <<hostVars, allVars, activeVars, part>>
    \/ part = "clients" /\ ClientNext /\ UNCHANGED <<hostVars, nodeVars, activeVars, part>>
    \/ part = "store" /\ StoreNext /\ UNCHANGED <<hostVars, nodeVars, allVars, part>>

MCSpec == MCInit /\ [][MCNext]_<<hostVars, nodeVars, allVars, activeVars, part>>

================================================================================
