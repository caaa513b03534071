---------------------------- MODULE MCDhcpClients ----------------------------
(***************************************************************************)
(* Clients of one network 4..7 (a relay at 4) with a pool of two addresses; *)
(* a reload may swap the pool for one that overlaps it or disable it.       *)
(***************************************************************************)
EXTENDS DhcpClients

Subnet(start, end, enabled) ==
    [start |-> start, end |-> end, span |-> 4, enabled |-> enabled]

MCConfigs == {<<Subnet(5, 6, TRUE)>>, <<Subnet(6, 7, TRUE)>>, <<Subnet(5, 6, FALSE)>>}
MCLocalIPs == <<6>>

MCPackets ==
    {[type |-> t, mac |-> m, gi |-> 4, peer |-> 4, req |-> NoIP, other |-> FALSE] :
        t \in {"DISCOVER", "REQUEST", "RELEASE", "DECLINE"}, m \in Macs}
    \cup {[type |-> "REQUEST", mac |-> m, gi |-> 4, peer |-> 4, req |-> a,
           other |-> FALSE] : m \in Macs, a \in 5..7}

==============================================================================
