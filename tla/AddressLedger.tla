---------------------------- MODULE AddressLedger ----------------------------
(***************************************************************************)
(* What a DHCP server promises about its lease table, and no more: an       *)
(* address is granted to a client only while no other client owns it, and   *)
(* an owner may lose its address at any time (RELEASE, DECLINE, expiry).    *)
(* DhcpClients is shown to implement this when boot exchanges do not        *)
(* overlap; the refinement mapping reads owner from the lease table.        *)
(***************************************************************************)
CONSTANTS Macs, Addr, NoIP

VARIABLE owner

TypeInvariant == owner \in [Macs -> Addr \cup {NoIP}]

Init == owner = [m \in Macs |-> NoIP]

Grant(m, a) ==
    /\ \A n \in Macs \ {m} : owner[n] # a
    /\ owner' = [owner EXCEPT ![m] = a]

Drop(m) == owner' = [owner EXCEPT ![m] = NoIP]

Next == \E m \in Macs : Drop(m) \/ \E a \in Addr : Grant(m, a)

Spec == Init /\ [][Next]_owner

==============================================================================
