------------------------------ MODULE DhcpClients ------------------------------
(***************************************************************************)
(* The DHCP service together with PXE clients that follow the protocol:     *)
(* DISCOVER, then REQUEST for the address offered (option 50), then         *)
(* renewals and RELEASE. The clients are not code of the repository; they   *)
(* are modelled from what handler and handleRequest expect of them.         *)
(*                                                                          *)
(* Restart is left out: leases live in memory only, so after a restart      *)
(* every address a client still uses looks free, and nothing below holds.   *)
(* The client model sends a packet and the server starts on it in one step, *)
(* so packets delayed on the wire are left to DhcpServer.                   *)
(***************************************************************************)
EXTENDS DhcpServer

CONSTANT OneAtATime  \* TRUE: boot exchanges of two clients never overlap

ASSUME OneAtATimeAssumption == OneAtATime \in BOOLEAN

VARIABLES
    offered,   \* the offer a client has chosen and not yet been acknowledged
    held       \* the address a client uses until it expires

clientVars == <<offered, held>>
allVars == <<vars, clientVars>>

ClientTypeOK ==
    /\ TypeOK
    /\ offered \in [Macs -> Addr \cup {NoIP}]
    /\ held \in [Macs -> Addr \cup {NoIP}]

ClientInit ==
    /\ Init
    /\ offered = [m \in Macs |-> NoIP]
    /\ held = [m \in Macs |-> NoIP]

\* No other client waits between its OFFER and its ACK.
Undisturbed(m) == \A n \in Macs \ {m} : offered[n] = NoIP

\* A client that boots has forgotten its address; one that selects names the
\* offer; one that renews names its address or none; RELEASE and DECLINE give
\* an address up.
MaySend(p) ==
    /\ OneAtATime => Undisturbed(p.mac)
    /\ CASE p.type = "DISCOVER" -> TRUE
         [] p.type = "REQUEST" ->
              \/ p.req = NoIP /\ held[p.mac] # NoIP
              \/ p.req # NoIP /\ p.req \in {offered[p.mac], held[p.mac]}
         [] OTHER -> held[p.mac] # NoIP

SendPacket(h, p) ==
    /\ MaySend(p)
    /\ Receive(h, p)
    /\ IF p.type = "REQUEST" THEN UNCHANGED clientVars
       ELSE /\ held' = [held EXCEPT ![p.mac] = NoIP]
            /\ offered' = [offered EXCEPT ![p.mac] = NoIP]

\* The reply reaches the client, or is lost.
Deliver(h) ==
    /\ Send(h)
    /\ LET m == pkt[h].mac
       IN  \/ UNCHANGED clientVars
           \/ /\ pc[h] = "offer"
              /\ offered' = [offered EXCEPT ![m] = yi[h]]
              /\ UNCHANGED held
           \/ /\ pc[h] = "ack"
              /\ held' = [held EXCEPT ![m] = yi[h]]
              /\ offered' = [offered EXCEPT ![m] = NoIP]
           \/ /\ pc[h] = "nak"
              /\ held' = [held EXCEPT ![m] = NoIP]
              /\ offered' = [offered EXCEPT ![m] = NoIP]

\* A client stops waiting for the ACK of its offer.
GiveUp(m) ==
    /\ offered[m] # NoIP
    /\ \A h \in Handlers : pc[h] # "idle" => pkt[h].mac # m
    /\ offered' = [offered EXCEPT ![m] = NoIP]
    /\ UNCHANGED <<vars, held>>

\* The client counts its lease from the REQUEST, the server from the ACK: when
\* the server drops a lease its owner has stopped using the address. A lease
\* time is longer than an ACK takes to be written and to arrive.
ClientExpire(m) ==
    /\ Expire(m)
    /\ \A h \in Handlers : ~(pc[h] = "ack" /\ pkt[h].mac = m)
    /\ held' = [held EXCEPT ![m] = NoIP]
    /\ UNCHANGED offered

ClientNext ==
    \/ \E h \in Handlers : \E p \in Packets : SendPacket(h, p)
    \/ \E h \in Handlers : Serve(h) /\ UNCHANGED clientVars
    \/ \E h \in Handlers : Deliver(h)
    \/ \E m \in Macs : GiveUp(m) \/ ClientExpire(m)
    \/ (\E c \in Configs : Reload(c)) /\ UNCHANGED clientVars
    \/ (AppendPool \/ FinishBuild \/ StopConn) /\ UNCHANGED clientVars

ClientSpec == ClientInit /\ [][ClientNext]_allVars

(***************************************************************************)
(* Properties.                                                              *)
(***************************************************************************)
\* No address has two live leases (allocate, recordLease).
LeaseUnique ==
    \A m, n \in Macs : leases[m] # NoIP /\ leases[m] = leases[n] => m = n

\* The address a client uses is the one the table holds for it, so that
\* allocate never offers it to anybody else: whatever was lost, expired,
\* released, refused or reloaded in between.
HeldRecorded == \A m \in Macs : held[m] # NoIP => leases[m] = held[m]

\* Every step on the lease table is one the abstract ledger allows.
Ledger == INSTANCE AddressLedger WITH owner <- leases
ImplementsLedger == Ledger!Spec

===============================================================================
