------------------------------ MODULE DhcpServer ------------------------------
(***************************************************************************)
(* The DHCP service of internal/service/dhcp/dhcp.go: the lease table, the  *)
(* pool list, the goroutine per packet and the reload goroutine that        *)
(* rebuilds the pool list under the handlers' feet.                         *)
(*                                                                          *)
(* An address is a number, 0.0.0.0 is 0 and MaxAddr is 255.255.255.255. A   *)
(* row of dhcp_subnet is its range, the number of addresses its mask spans  *)
(* (0 when the mask is invalid) and its enabled flag; the pool newPool      *)
(* builds from a row is the row itself, since gateway, DNS and lease time   *)
(* only decorate the reply. Rows whose range does not parse are out of the  *)
(* model (the handler goroutine would panic on them: Restart).              *)
(***************************************************************************)
EXTENDS Integers, Sequences

CONSTANTS
    Macs,       \* client hardware addresses
    Handlers,   \* packet goroutines that may run at once (a bound of the model)
    MaxAddr,    \* the highest address
    LocalIPs,   \* dc.ListenIP (unless 0.0.0.0) followed by the interface addresses
    Configs,    \* subnet lists the configuration cache may hold at a reload
    Packets     \* packets a client or a relay may put on the wire

NoIP == -1
Addr == 0..MaxAddr
Row == [start : Addr \cup {NoIP}, end : Addr \cup {NoIP}, span : Nat,
        enabled : BOOLEAN]
NoPool == [start |-> NoIP, end |-> NoIP, span |-> 0, enabled |-> FALSE]
Packet == [type : {"DISCOVER", "REQUEST", "RELEASE", "DECLINE"}, mac : Macs,
           gi : Addr,                \* giaddr, 0 without a relay
           peer : Addr,              \* source address on the wire
           req : Addr \cup {NoIP},   \* option 50
           other : BOOLEAN]          \* option 54 names another server

ASSUME MaxAddrAssumption == MaxAddr \in Nat \ {0}
ASSUME LocalIPsAssumption == LocalIPs \in Seq(Addr \ {0})
ASSUME ConfigsAssumption == Configs \subseteq Seq(Row) /\ Configs # {}
ASSUME PacketsAssumption == Packets \subseteq Packet

VARIABLES
    leases,     \* MAC -> address of its live lease, NoIP without one
    subnets,    \* s.subnets, read by the handlers without a lock
    pending,    \* the rows buildPool has still to append
    phase,      \* the goroutine that runs Start or Reload
    listening,  \* s.conn # nil and its serving goroutine is up
    pc, pkt, left, sub, yi   \* a packet goroutine: where it is and what it holds

tableVars == <<subnets, pending, phase, listening>>
handlerVars == <<pc, pkt, left, sub, yi>>
vars == <<leases, subnets, pending, phase, listening, pc, pkt, left, sub, yi>>

NoPacket == [type |-> "none"]
Replies == {"offer", "ack", "nak"}

TypeOK ==
    /\ leases \in [Macs -> Addr \cup {NoIP}]
    /\ subnets \in Seq(Row)
    /\ pending \in Seq(Row)
    /\ phase \in {"idle", "building"}
    /\ listening \in BOOLEAN
    /\ pc \in [Handlers -> {"idle", "received", "matching", "matched", "record"} \cup Replies]
    /\ pkt \in [Handlers -> Packet \cup {NoPacket}]
    /\ left \in [Handlers -> Seq(Addr)]
    /\ sub \in [Handlers -> Row]
    /\ yi \in [Handlers -> Addr \cup {NoIP}]
    /\ \A h \in Handlers :
          /\ pc[h] # "idle" => pkt[h] \in Packets
          /\ pc[h] # "matching" => left[h] = <<>>
          /\ pc[h] \in {"record", "offer", "ack"} => yi[h] # NoIP

(***************************************************************************)
(* Subnet matching.                                                         *)
(***************************************************************************)
\* The network of an address under a mask spanning n addresses.
Network(a, n) == a \div n

Hits(p, a) == p.enabled /\ p.span # 0 /\ Network(a, p.span) = Network(p.start, p.span)

\* Mutant: the loop forgets to skip disabled subnets.
FirstHitAnyPool(a) ==
    LET hits == {i \in DOMAIN subnets : Hits([subnets[i] EXCEPT !.enabled = TRUE], a)}
    IN  IF hits = {} THEN NoPool
        ELSE subnets[CHOOSE i \in hits : \A j \in hits : i <= j]

\* The first enabled pool of the list whose network holds the address.
FirstHit(a) ==
    LET hits == {i \in DOMAIN subnets : Hits(subnets[i], a)}
    IN  IF hits = {} THEN NoPool
        ELSE subnets[CHOOSE i \in hits : \A j \in hits : i <= j]

\* server4 hands the handler 255.255.255.255 for a packet sent from 0.0.0.0.
PeerSeen(a) == IF a = 0 THEN MaxAddr ELSE a

OneUnlessZero(a) == IF a = 0 THEN <<>> ELSE <<a>>

\* The addresses a packet is matched by, in this order.
Candidates(m) ==
    LET srcs == OneUnlessZero(m.gi) \o OneUnlessZero(PeerSeen(m.peer))
    IN  IF srcs # <<>> THEN srcs ELSE LocalIPs

(***************************************************************************)
(* Address allocation.                                                      *)
(***************************************************************************)
PoolContains(a, p) == p.start <= a /\ a <= p.end

\* Mutant: isFreeLocked never finds the address in a lease.
NothingTaken == {}

Taken == {leases[m] : m \in Macs} \ {NoIP}

\* The addresses the loop of allocate reaches: incIP wraps to 0.0.0.0, so a
\* range that ends at the highest address is never left.
Scanned(p) == IF p.start > p.end THEN {}
              ELSE IF p.end = MaxAddr THEN Addr ELSE p.start .. p.end

\* How many times incIP is applied to reach an address from the start.
Steps(a, p) == IF a >= p.start THEN a - p.start ELSE a + MaxAddr + 1 - p.start

FirstFree(p) ==
    LET free == Scanned(p) \ Taken
    IN  IF free = {} THEN NoIP
        ELSE CHOOSE a \in free : \A b \in free : Steps(a, p) <= Steps(b, p)

\* Mutant: leases of other clients are not looked at.
AllocateBlind(m, p) == IF leases[m] # NoIP THEN leases[m] ELSE p.start

\* A live lease is returned whatever pool it came from.
Allocate(m, p) == IF leases[m] # NoIP THEN leases[m] ELSE FirstFree(p)

(***************************************************************************)
(* A packet goroutine.                                                      *)
(***************************************************************************)
GoTo(h, label, ip) ==
    /\ pc' = [pc EXCEPT ![h] = label]
    /\ yi' = [yi EXCEPT ![h] = ip]
    /\ UNCHANGED <<pkt, left, sub>>

Finish(h) ==
    /\ pc' = [pc EXCEPT ![h] = "idle"]
    /\ pkt' = [pkt EXCEPT ![h] = NoPacket]
    /\ sub' = [sub EXCEPT ![h] = NoPool]
    /\ yi' = [yi EXCEPT ![h] = NoIP]
    /\ UNCHANGED left

\* server4 starts a goroutine for a packet.
Receive(h, m) ==
    /\ listening
    /\ pc[h] = "idle"
    /\ pc' = [pc EXCEPT ![h] = "received"]
    /\ pkt' = [pkt EXCEPT ![h] = m]
    /\ UNCHANGED <<leases, tableVars, left, sub, yi>>

Matched(h, p) ==
    /\ pc' = [pc EXCEPT ![h] = "matched"]
    /\ left' = [left EXCEPT ![h] = <<>>]
    /\ sub' = [sub EXCEPT ![h] = p]
    /\ UNCHANGED <<leases, tableVars, pkt, yi>>

\* matchSubnet reads s.subnets without a lock: an empty list ends it. During a
\* rebuild a read may see the empty list or a prefix; a pointer taken from the
\* old list is a read before the Reload, a torn slice header that panics is a
\* Restart.
Match(h) ==
    /\ pc[h] = "received"
    /\ IF subnets = <<>> THEN Matched(h, NoPool)
       ELSE /\ pc' = [pc EXCEPT ![h] = "matching"]
            /\ left' = [left EXCEPT ![h] = Candidates(pkt[h])]
            /\ UNCHANGED <<leases, tableVars, pkt, sub, yi>>

\* matchByIPs reads the list again for each candidate; the first that falls in
\* a pool decides.
TryCandidate(h) ==
    /\ pc[h] = "matching" /\ left[h] # <<>>
    /\ LET p == FirstHit(Head(left[h]))
       IN  IF p # NoPool THEN Matched(h, p)
           ELSE /\ left' = [left EXCEPT ![h] = Tail(@)]
                /\ UNCHANGED <<leases, tableVars, pc, pkt, sub, yi>>

Unmatched(h) == pc[h] = "matching" /\ left[h] = <<>> /\ Matched(h, NoPool)

At(h, type) == pc[h] = "matched" /\ pkt[h].type = type

\* Mutant: an exhausted pool is not noticed.
DiscoverUnchecked(h) ==
    /\ At(h, "DISCOVER")
    /\ IF sub[h] = NoPool THEN Finish(h)
       ELSE GoTo(h, "offer", Allocate(pkt[h].mac, sub[h]))
    /\ UNCHANGED <<leases, tableVars>>

\* DISCOVER: ignored without a pool or a free address; an offer is not recorded.
Discover(h) ==
    /\ At(h, "DISCOVER")
    /\ LET ip == IF sub[h] = NoPool THEN NoIP ELSE Allocate(pkt[h].mac, sub[h])
       IN  IF ip = NoIP THEN Finish(h) ELSE GoTo(h, "offer", ip)
    /\ UNCHANGED <<leases, tableVars>>

\* Without a pool the NAK goes out before option 54 is looked at.
RequestUnmatched(h) ==
    /\ At(h, "REQUEST")
    /\ sub[h] = NoPool
    /\ GoTo(h, "nak", NoIP)
    /\ UNCHANGED <<leases, tableVars>>

RequestForOther(h) ==
    /\ At(h, "REQUEST")
    /\ sub[h] # NoPool
    /\ pkt[h].other
    /\ Finish(h)
    /\ UNCHANGED <<leases, tableVars>>

\* Mutant: option 50 is believed wherever it points.
ChosenAnywhere(h) ==
    IF pkt[h].req # NoIP THEN pkt[h].req ELSE Allocate(pkt[h].mac, sub[h])

\* Option 50 only has to lie in the pool; without it an address is allocated.
Chosen(h) ==
    IF pkt[h].req # NoIP
    THEN IF PoolContains(pkt[h].req, sub[h]) THEN pkt[h].req ELSE NoIP
    ELSE Allocate(pkt[h].mac, sub[h])

\* Mutant: an exhausted pool is not noticed.
RequestChosenUnchecked(h) ==
    /\ At(h, "REQUEST")
    /\ sub[h] # NoPool
    /\ ~pkt[h].other
    /\ GoTo(h, "record", Chosen(h))
    /\ UNCHANGED <<leases, tableVars>>

\* The lock of allocate is released before recordLease takes it again.
RequestChosen(h) ==
    /\ At(h, "REQUEST")
    /\ sub[h] # NoPool
    /\ ~pkt[h].other
    /\ IF Chosen(h) = NoIP THEN GoTo(h, "nak", NoIP) ELSE GoTo(h, "record", Chosen(h))
    /\ UNCHANGED <<leases, tableVars>>

\* Mutant: the ACK goes out with nothing recorded.
RecordNothing(h) ==
    /\ pc[h] = "record"
    /\ GoTo(h, "ack", yi[h])
    /\ UNCHANGED <<leases, tableVars>>

RecordLease(h) ==
    /\ pc[h] = "record"
    /\ leases' = [leases EXCEPT ![pkt[h].mac] = yi[h]]
    /\ GoTo(h, "ack", yi[h])
    /\ UNCHANGED tableVars

\* RELEASE and DECLINE both delete the lease.
Release(h) ==
    /\ At(h, "RELEASE") \/ At(h, "DECLINE")
    /\ leases' = [leases EXCEPT ![pkt[h].mac] = NoIP]
    /\ Finish(h)
    /\ UNCHANGED tableVars

\* The reply is written (and may be lost on the way).
Send(h) ==
    /\ pc[h] \in Replies
    /\ Finish(h)
    /\ UNCHANGED <<leases, tableVars>>

Serve(h) ==
    \/ Match(h) \/ TryCandidate(h) \/ Unmatched(h)
    \/ Discover(h)
    \/ RequestUnmatched(h) \/ RequestForOther(h) \/ RequestChosen(h)
    \/ RecordLease(h)
    \/ Release(h)

\* A lease runs out; an expired entry is ignored by allocate like a missing one.
Expire(m) ==
    /\ leases[m] # NoIP
    /\ leases' = [leases EXCEPT ![m] = NoIP]
    /\ UNCHANGED <<tableVars, handlerVars>>

(***************************************************************************)
(* The goroutine that runs Start and every Reload whose version is new.     *)
(***************************************************************************)
Usable(row) == row.start # NoIP /\ row.end # NoIP

\* buildPool first empties the list in place.
Reload(c) ==
    /\ phase = "idle"
    /\ phase' = "building"
    /\ subnets' = <<>>
    /\ pending' = c
    /\ UNCHANGED <<leases, listening, handlerVars>>

\* Then it appends one pool per row that has a range.
AppendPool ==
    /\ phase = "building" /\ pending # <<>>
    /\ pending' = Tail(pending)
    /\ subnets' = IF Usable(Head(pending)) THEN Append(subnets, Head(pending))
                  ELSE subnets
    /\ UNCHANGED <<leases, phase, listening, handlerVars>>

\* A server that was not running is started; binding the port may fail.
FinishBuild ==
    /\ phase = "building" /\ pending = <<>>
    /\ phase' = "idle"
    /\ \/ listening' = TRUE
       \/ ~listening /\ UNCHANGED listening
    /\ UNCHANGED <<leases, subnets, pending, handlerVars>>

\* A reload that finds dc.Enabled false closes the connection; packet
\* goroutines already running carry on.
StopConn ==
    /\ phase = "idle"
    /\ listening
    /\ listening' = FALSE
    /\ UNCHANGED <<leases, subnets, pending, phase, handlerVars>>

NoLeases == [m \in Macs |-> NoIP]

Init ==
    /\ leases = NoLeases
    /\ subnets = <<>>
    /\ pending \in Configs
    /\ phase = "building"
    /\ listening = FALSE
    /\ pc = [h \in Handlers |-> "idle"]
    /\ pkt = [h \in Handlers |-> NoPacket]
    /\ left = [h \in Handlers |-> <<>>]
    /\ sub = [h \in Handlers |-> NoPool]
    /\ yi = [h \in Handlers |-> NoIP]

\* The process dies and is started again: nothing of the service is on disk.
Restart(c) ==
    /\ leases' = NoLeases
    /\ subnets' = <<>>
    /\ pending' = c
    /\ phase' = "building"
    /\ listening' = FALSE
    /\ pc' = [h \in Handlers |-> "idle"]
    /\ pkt' = [h \in Handlers |-> NoPacket]
    /\ left' = [h \in Handlers |-> <<>>]
    /\ sub' = [h \in Handlers |-> NoPool]
    /\ yi' = [h \in Handlers |-> NoIP]

Next ==
    \/ \E h \in Handlers : Serve(h) \/ Send(h) \/ \E m \in Packets : Receive(h, m)
    \/ \E m \in Macs : Expire(m)
    \/ \E c \in Configs : Reload(c) \/ Restart(c)
    \/ AppendPool \/ FinishBuild \/ StopConn

Spec == Init /\ [][Next]_vars

(***************************************************************************)
(* Properties.                                                              *)
(***************************************************************************)
Known == UNION {{c[i] : i \in DOMAIN c} : c \in Configs}

\* The address lies in an enabled pool, or past the start of one that ends at
\* 255.255.255.255 and wraps (Scanned).
Covered(a) ==
    \E p \in Known : p.enabled /\ (PoolContains(a, p) \/ p.end = MaxAddr)

\* Every live lease lies in the range of an enabled subnet that the cache held
\* at some reload: no interleaving of matching, allocation and rebuild records
\* an address of a disabled pool or one nobody configured (matchByIPs,
\* poolContains, allocate, recordLease).
LeaseInEnabledPool == \A m \in Macs : leases[m] # NoIP => Covered(leases[m])

\* The addresses a packet is matched by.
SourcesOf(q) == {q.gi, PeerSeen(q.peer)} \ {0}

CanMatch(p, m) ==
    /\ p \in Known /\ p.enabled
    /\ \E q \in Packets : q.mac = m /\ \E a \in SourcesOf(q) : Hits(p, a)

\* An OFFER or ACK carries an address of a pool that a packet of this very client
\* can be matched to, however matching, allocation, moves of the client and
\* rebuilds interleave: never one of a network only other clients are on. It
\* need not be the pool matched now, because allocate returns a live lease
\* without looking at the pool.
ReplyFromOwnPool ==
    \A h \in Handlers : pc[h] \in {"offer", "ack"} =>
        \E p \in Known :
            /\ CanMatch(p, pkt[h].mac)
            /\ PoolContains(yi[h], p) \/ p.end = MaxAddr

\* What the manual says: the address is one of the pool the packet was matched
\* to, whose mask, gateway and DNS buildReply puts beside it.
ReplyFromMatchedPool ==
    \A h \in Handlers : pc[h] \in {"offer", "ack"} => PoolContains(yi[h], sub[h])

\* A DISCOVER broadcast by a client on the server's own segment (no giaddr,
\* source 0.0.0.0) is matched through the server's own addresses.
DirectBroadcastMatched ==
    [][\A h \in Handlers :
          Match(h) /\ pc'[h] = "matching" /\ pkt[h].gi = 0 /\ pkt[h].peer = 0
          => left'[h] = LocalIPs]_vars

===============================================================================
