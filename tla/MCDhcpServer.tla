---------------------------- MODULE MCDhcpServer ----------------------------
(***************************************************************************)
(* DhcpServer on the networks 4..7 and 8..11 of four addresses each; one    *)
(* client moves between them.                                               *)
(***************************************************************************)
EXTENDS DhcpServer, TLC

CONSTANTS m1, m2, h1, h2

Symmetry == Permutations({h1, h2})

Subnet(start, end, enabled) ==
    [start |-> start, end |-> end, span |-> 4, enabled |-> enabled]

PoolA == Subnet(5, 5, TRUE)
PoolB == Subnet(9, 9, TRUE)
\* PoolA after an edit, a disabled subnet that shares its network, and a row
\* without range.
Moved == Subnet(5, 6, TRUE)
Closed == Subnet(4, 7, FALSE)
Blank == [Subnet(NoIP, NoIP, TRUE) EXCEPT !.span = 0]

MCConfigs == {<<Closed, PoolA, PoolB>>, <<Blank, Moved>>}
MCLocalIPs == <<6>>

Relayed(relay, type, m, req, other) ==
    [type |-> type, mac |-> m, gi |-> relay, peer |-> relay, req |-> req, other |-> other]

\* A renewal is sent from the client's own address, without a relay.
Renewal(m) ==
    [type |-> "REQUEST", mac |-> m, gi |-> 0, peer |-> 5, req |-> NoIP, other |-> FALSE]

\* m1 sends every kind of packet, now from one network and now from the other:
\* requests name an address of the range, one outside of it, or none, and may
\* name another server. m2 stays on the first network.
MCPackets ==
    {Relayed(4, t, m1, NoIP, FALSE) : t \in {"DISCOVER", "RELEASE"}}
    \cup {Relayed(4, "REQUEST", m1, a, FALSE) : a \in {4, 5}}
    \cup {Relayed(4, "REQUEST", m1, 5, TRUE), Renewal(m1), Relayed(8, "REQUEST", m1, NoIP, FALSE)}
    \cup {Relayed(4, "REQUEST", m2, NoIP, FALSE), Relayed(4, "DECLINE", m2, NoIP, FALSE)}

\* A client that moves from one network to the other.
RoamingPackets == {Relayed(r, "REQUEST", m1, NoIP, FALSE) : r \in {4, 8}}

\* Broadcasts of a client on the server's own segment.
DirectPackets ==
    {[type |-> t, mac |-> m1, gi |-> 0, peer |-> 0, req |-> NoIP, other |-> FALSE] :
        t \in {"DISCOVER", "REQUEST"}}

=============================================================================
