------------------------------- MODULE Dhcp_proofs -------------------------------
(***************************************************************************)
(* Theorems about the DHCP service. The first part is about DhcpServer, for *)
(* any clients, packets, subnet lists and number of concurrent packet       *)
(* goroutines; the second about DhcpClients, the service with the clients   *)
(* it serves.                                                               *)
(***************************************************************************)
EXTENDS DhcpClients, TLAPS, WellFoundedInduction, SequenceTheorems

(***************************************************************************)
(* The least element the scans of allocate and matchByIPs stop at.          *)
(***************************************************************************)
\* A non-empty set of naturals has a least element.
LEMMA LeastNat ==
  ASSUME NEW T, T \subseteq Nat, T # {}
  PROVE  \E i \in T : \A j \in T : i <= j
<1>1. PICK i \in T : \A j \in T : ~(<<j, i>> \in OpToRel(<, Nat))
  BY NatLessThanWellFounded, WFMin
<1>2. \A j \in T : ~(j < i)
  BY <1>1 DEF OpToRel
<1> QED
  BY <1>2

\* allocate finds an address that no live lease holds, within the addresses
\* its loop reaches.
LEMMA FirstFreeIsFree ==
  ASSUME NEW p \in Row, p.start # NoIP, p.end # NoIP, FirstFree(p) # NoIP
  PROVE  FirstFree(p) \in Scanned(p) \ Taken
<1> DEFINE free == Scanned(p) \ Taken
           T == {Steps(a, p) : a \in free}
<1>1. p.start \in Addr /\ p.end \in Addr
  BY DEF Row
<1>2. free \subseteq Addr
  BY <1>1, MaxAddrAssumption DEF Scanned, Addr
<1>3. free # {}
  BY DEF FirstFree
<1>4. \A a \in Addr : Steps(a, p) \in Nat
  BY <1>1, MaxAddrAssumption DEF Steps, Addr
<1>5. T \subseteq Nat /\ T # {}
  BY <1>2, <1>3, <1>4
<1>6. PICK t \in T : \A u \in T : t <= u
  BY <1>5, LeastNat
<1>7. \E a \in free : \A b \in free : Steps(a, p) <= Steps(b, p)
  BY <1>6
<1> QED
  BY <1>3, <1>7 DEF FirstFree

\* A pool that does not end at the highest address is never left by the scan.
LEMMA FirstFreeInPool ==
  ASSUME NEW p \in Row, p.start # NoIP, p.end # NoIP, FirstFree(p) # NoIP
  PROVE  /\ FirstFree(p) \in Addr
         /\ PoolContains(FirstFree(p), p) \/ p.end = MaxAddr
<1>1. p.start \in Addr /\ p.end \in Addr
  BY DEF Row
<1>2. FirstFree(p) \in Scanned(p)
  BY FirstFreeIsFree
<1> QED
  BY <1>1, <1>2, MaxAddrAssumption DEF Scanned, PoolContains, Addr

\* matchByIPs returns nothing, or a pool of the list that the address hits.
LEMMA FirstHitInList ==
  ASSUME subnets \in Seq(Row), NEW a, FirstHit(a) # NoPool
  PROVE  \E i \in DOMAIN subnets : FirstHit(a) = subnets[i] /\ Hits(subnets[i], a)
<1> DEFINE hits == {i \in DOMAIN subnets : Hits(subnets[i], a)}
<1>1. hits # {}
  BY DEF FirstHit
<1>2. hits \subseteq Nat
  BY LenProperties
<1>3. \E i \in hits : \A j \in hits : i <= j
  BY <1>1, <1>2, LeastNat
<1> QED
  BY <1>1, <1>3 DEF FirstHit

\* Because server4 never shows 0.0.0.0 as the peer, there is always a source:
\* the server's own addresses are never looked at.
LEMMA CandidatesAreSources ==
  ASSUME NEW m \in Packet
  PROVE  /\ Candidates(m) \in Seq(Addr)
         /\ \A k \in DOMAIN Candidates(m) : Candidates(m)[k] \in SourcesOf(m)
<1> DEFINE srcs == OneUnlessZero(m.gi) \o OneUnlessZero(PeerSeen(m.peer))
<1>1. m.gi \in Addr /\ m.peer \in Addr /\ PeerSeen(m.peer) \in Addr \ {0}
  BY MaxAddrAssumption DEF Packet, PeerSeen, Addr
<1>2. /\ OneUnlessZero(m.gi) \in Seq(SourcesOf(m))
      /\ Len(OneUnlessZero(m.gi)) \in Nat
  <2>1. CASE m.gi = 0
    BY <2>1, EmptySeq DEF OneUnlessZero
  <2>2. CASE m.gi # 0
    <3>1. OneUnlessZero(m.gi) = <<m.gi>> /\ m.gi \in SourcesOf(m)
      BY <2>2 DEF OneUnlessZero, SourcesOf
    <3> QED
      BY <3>1
  <2> QED
    BY <2>1, <2>2
<1>3. /\ OneUnlessZero(PeerSeen(m.peer)) \in Seq(SourcesOf(m))
      /\ Len(OneUnlessZero(PeerSeen(m.peer))) = 1
  <2>1. /\ OneUnlessZero(PeerSeen(m.peer)) = <<PeerSeen(m.peer)>>
        /\ PeerSeen(m.peer) \in SourcesOf(m)
    BY <1>1 DEF OneUnlessZero, SourcesOf
  <2> QED
    BY <2>1
<1>4. srcs \in Seq(SourcesOf(m)) /\ srcs # <<>>
  <2>1. /\ srcs \in Seq(SourcesOf(m))
        /\ Len(srcs) = Len(OneUnlessZero(m.gi)) + Len(OneUnlessZero(PeerSeen(m.peer)))
    BY <1>2, <1>3, ConcatProperties
  <2>2. Len(srcs) # 0
    BY <2>1, <1>2, <1>3
  <2> QED
    BY <2>1, <2>2, EmptySeq
<1>5. \A k \in DOMAIN srcs : srcs[k] \in SourcesOf(m)
  BY <1>4, LenProperties, ElementOfSeq
<1>6. Candidates(m) = srcs
  BY <1>4 DEF Candidates
<1>7. SourcesOf(m) \subseteq Addr
  BY <1>1 DEF SourcesOf
<1>8. srcs \in Seq(Addr)
  BY <1>4, <1>7, SeqDef
<1> QED
  BY <1>5, <1>6, <1>8

(***************************************************************************)
(* Type correctness.                                                        *)
(***************************************************************************)
\* A pool of the list has a range, so allocate returns an address or nothing.
Ranged(p) == p.start # NoIP /\ p.end # NoIP

ListRanged == \A i \in DOMAIN subnets : Ranged(subnets[i])
SubRanged == \A h \in Handlers : sub[h] = NoPool \/ Ranged(sub[h])
TypeInv == TypeOK /\ ListRanged /\ SubRanged

LEMMA AllocateType ==
  ASSUME TypeOK, NEW m \in Macs, NEW p \in Row, Ranged(p)
  PROVE  Allocate(m, p) \in Addr \cup {NoIP}
BY FirstFreeInPool DEF Allocate, TypeOK, Ranged

LEMMA ChosenType ==
  ASSUME TypeInv, NEW h \in Handlers, At(h, "REQUEST"), sub[h] # NoPool
  PROVE  Chosen(h) \in Addr \cup {NoIP}
<1>1. pkt[h] \in Packet /\ sub[h] \in Row /\ Ranged(sub[h])
  BY PacketsAssumption DEF TypeInv, TypeOK, SubRanged, At
<1>2. pkt[h].mac \in Macs /\ pkt[h].req \in Addr \cup {NoIP}
  BY <1>1 DEF Packet
<1> QED
  BY <1>1, <1>2, AllocateType DEF Chosen, TypeInv

LEMMA TypeInit == Init => TypeInv
<1> SUFFICES ASSUME Init PROVE TypeInv
  OBVIOUS
<1>1. NoPool \in Row
  BY DEF NoPool, Row
<1>2. TypeOK
  BY <1>1, ConfigsAssumption, EmptySeq DEF Init, TypeOK, NoLeases, Replies
<1>3. ListRanged /\ SubRanged
  BY EmptySeq DEF Init, ListRanged, SubRanged
<1> QED
  BY <1>2, <1>3 DEF TypeInv

LEMMA TypeNext == TypeInv /\ [Next]_vars => TypeInv'
<1> SUFFICES ASSUME TypeInv, [Next]_vars PROVE TypeInv'
  OBVIOUS
<1> USE DEF TypeInv
<1>0. NoPool \in Row
  BY DEF NoPool, Row
<1>1. ASSUME NEW h \in Handlers, NEW m \in Packets, Receive(h, m) PROVE TypeInv'
  BY <1>1, PacketsAssumption
  DEF Receive, TypeOK, ListRanged, SubRanged, tableVars, Replies
<1>2. ASSUME NEW h \in Handlers, Match(h) \/ TryCandidate(h) \/ Unmatched(h) PROVE TypeInv'
  <2>1. pkt[h] \in Packet
    BY <1>2, PacketsAssumption DEF Match, TryCandidate, Unmatched, TypeOK
  <2>2. ASSUME NEW p \in Row, p = NoPool \/ Ranged(p), pc[h] # "idle", Matched(h, p)
        PROVE  TypeInv'
    <3>1. TypeOK'
      BY <2>2, EmptySeq DEF Matched, TypeOK, tableVars, Replies
    <3>2. (ListRanged /\ SubRanged)'
      BY <2>2 DEF Matched, TypeOK, ListRanged, SubRanged, tableVars
    <3> QED
      BY <3>1, <3>2
  <2>3. CASE Match(h)
    <3>1. CASE Matched(h, NoPool)
      BY <1>0, <2>2, <2>3, <3>1 DEF Match
    <3>2. CASE /\ pc' = [pc EXCEPT ![h] = "matching"]
               /\ left' = [left EXCEPT ![h] = Candidates(pkt[h])]
               /\ UNCHANGED <<leases, tableVars, pkt, sub, yi>>
      <4>1. TypeOK'
        BY <2>1, <2>3, <3>2, CandidatesAreSources DEF Match, TypeOK, tableVars, Replies
      <4>2. (ListRanged /\ SubRanged)'
        BY <3>2 DEF ListRanged, SubRanged, tableVars
      <4> QED
        BY <4>1, <4>2
    <3> QED
      BY <2>3, <3>1, <3>2 DEF Match
  <2>4. CASE TryCandidate(h)
    <3> DEFINE p == FirstHit(Head(left[h]))
    <3>1. CASE p # NoPool /\ Matched(h, p)
      <4>1. PICK i \in DOMAIN subnets : p = subnets[i]
        BY <3>1, FirstHitInList DEF TypeOK
      <4>2. p \in Row /\ Ranged(p)
        BY <4>1, LenProperties DEF TypeOK, ListRanged
      <4> HIDE DEF p
      <4> QED
        BY <2>2, <2>4, <3>1, <4>2 DEF TryCandidate
    <3>2. CASE left' = [left EXCEPT ![h] = Tail(@)] /\ UNCHANGED <<leases, tableVars, pc, pkt, sub, yi>>
      <4>1. left[h] \in Seq(Addr) /\ left[h] # <<>> /\ pc[h] = "matching"
        BY <2>4 DEF TryCandidate, TypeOK
      <4>2. Tail(left[h]) \in Seq(Addr)
        BY <4>1, HeadTailProperties
      <4>3. TypeOK'
        BY <3>2, <4>1, <4>2 DEF TypeOK, tableVars
      <4>4. (ListRanged /\ SubRanged)'
        BY <3>2 DEF ListRanged, SubRanged, tableVars
      <4> QED
        BY <4>3, <4>4
    <3> QED
      BY <2>4, <3>1, <3>2 DEF TryCandidate
  <2>5. CASE Unmatched(h)
    BY <1>0, <2>2, <2>5 DEF Unmatched
  <2> QED
    BY <1>2, <2>3, <2>4, <2>5
\* A goroutine ends.
<1>e. ASSUME NEW h \in Handlers, Finish(h), pc[h] # "matching",
             leases' \in [Macs -> Addr \cup {NoIP}], UNCHANGED tableVars
      PROVE  TypeInv'
  <2>1. left[h] = <<>>
    BY <1>e DEF TypeOK
  <2>2. TypeOK'
    BY <1>0, <1>e, <2>1 DEF Finish, TypeOK, tableVars, Replies
  <2>3. (ListRanged /\ SubRanged)'
    BY <1>e DEF Finish, TypeOK, ListRanged, SubRanged, tableVars
  <2> QED
    BY <2>2, <2>3
\* It goes on with an address, or without one.
<1>g. ASSUME NEW h \in Handlers, NEW label \in {"record", "offer", "ack", "nak"},
             NEW a \in Addr \cup {NoIP}, GoTo(h, label, a), label # "nak" => a # NoIP,
             pc[h] \notin {"idle", "matching"},
             leases' \in [Macs -> Addr \cup {NoIP}], UNCHANGED tableVars
      PROVE  TypeInv'
  <2>1. left[h] = <<>> /\ pkt[h] \in Packets
    BY <1>g DEF TypeOK
  <2>2. TypeOK'
    BY <1>g, <2>1 DEF GoTo, TypeOK, tableVars, Replies
  <2>3. (ListRanged /\ SubRanged)'
    BY <1>g DEF GoTo, ListRanged, SubRanged, tableVars
  <2> QED
    BY <2>2, <2>3
<1>3. ASSUME NEW h \in Handlers, Discover(h) PROVE TypeInv'
  <2>0. /\ pc[h] = "matched" /\ UNCHANGED tableVars
        /\ leases' \in [Macs -> Addr \cup {NoIP}]
    BY <1>3 DEF Discover, At, TypeOK
  <2>1. pkt[h] \in Packet /\ sub[h] \in Row
    BY <1>3, PacketsAssumption DEF Discover, At, TypeOK
  <2>2. pkt[h].mac \in Macs
    BY <2>1 DEF Packet
  <2>3. sub[h] # NoPool => Allocate(pkt[h].mac, sub[h]) \in Addr \cup {NoIP}
    BY <2>1, <2>2, AllocateType DEF SubRanged
  <2>4. CASE GoTo(h, "offer", Allocate(pkt[h].mac, sub[h]))
             /\ sub[h] # NoPool /\ Allocate(pkt[h].mac, sub[h]) # NoIP
    BY <1>g, <2>0, <2>3, <2>4
  <2>5. CASE Finish(h)
    BY <1>e, <2>0, <2>5
  <2> QED
    BY <1>3, <2>4, <2>5 DEF Discover
<1>4. ASSUME NEW h \in Handlers, RequestUnmatched(h) \/ RequestForOther(h) PROVE TypeInv'
  <2>1. /\ pc[h] = "matched" /\ UNCHANGED tableVars
        /\ leases' \in [Macs -> Addr \cup {NoIP}]
        /\ GoTo(h, "nak", NoIP) \/ Finish(h)
    BY <1>4 DEF RequestUnmatched, RequestForOther, At, TypeOK
  <2> QED
    BY <1>e, <1>g, <2>1
<1>6. ASSUME NEW h \in Handlers, RequestChosen(h) PROVE TypeInv'
  <2>0. /\ pc[h] = "matched" /\ UNCHANGED tableVars
        /\ leases' \in [Macs -> Addr \cup {NoIP}]
    BY <1>6 DEF RequestChosen, At, TypeOK
  <2>1. Chosen(h) \in Addr \cup {NoIP}
    BY <1>6, ChosenType DEF RequestChosen
  <2>2. CASE GoTo(h, "nak", NoIP)
    BY <1>g, <2>0, <2>2
  <2>3. CASE GoTo(h, "record", Chosen(h)) /\ Chosen(h) # NoIP
    BY <1>g, <2>0, <2>1, <2>3
  <2> QED
    BY <1>6, <2>2, <2>3 DEF RequestChosen
<1>7. ASSUME NEW h \in Handlers, RecordLease(h) PROVE TypeInv'
  <2>1. pkt[h].mac \in Macs /\ yi[h] \in Addr \cup {NoIP} /\ yi[h] # NoIP
    BY <1>7, PacketsAssumption DEF RecordLease, TypeOK, Packet
  <2>2. /\ pc[h] = "record" /\ UNCHANGED tableVars /\ GoTo(h, "ack", yi[h])
        /\ leases' \in [Macs -> Addr \cup {NoIP}]
    BY <1>7, <2>1 DEF RecordLease, TypeOK
  <2> QED
    BY <1>g, <2>1, <2>2
<1>8. ASSUME NEW h \in Handlers, Release(h) \/ Send(h) PROVE TypeInv'
  <2>1. /\ pc[h] # "matching" /\ UNCHANGED tableVars /\ Finish(h)
        /\ leases' \in [Macs -> Addr \cup {NoIP}]
    BY <1>8 DEF Release, Send, At, Replies, TypeOK
  <2> QED
    BY <1>e, <2>1
<1>10. ASSUME NEW m \in Macs, Expire(m) PROVE TypeInv'
  BY <1>10 DEF Expire, TypeOK, ListRanged, SubRanged, tableVars, handlerVars
<1>11. ASSUME NEW c \in Configs, Reload(c) PROVE TypeInv'
  BY <1>11, ConfigsAssumption, EmptySeq
  DEF Reload, TypeOK, ListRanged, SubRanged, handlerVars
<1>12. ASSUME NEW c \in Configs, Restart(c) PROVE TypeInv'
  <2>1. TypeOK'
    BY <1>12, <1>0, ConfigsAssumption, EmptySeq DEF Restart, TypeOK, NoLeases, Replies
  <2>2. (ListRanged /\ SubRanged)'
    BY <1>12, EmptySeq DEF Restart, ListRanged, SubRanged
  <2> QED
    BY <2>1, <2>2
<1>13. ASSUME AppendPool PROVE TypeInv'
  <2>1. Head(pending) \in Row /\ Tail(pending) \in Seq(Row)
    BY <1>13, HeadTailProperties DEF AppendPool, TypeOK
  <2>2. CASE Usable(Head(pending))
    <3>1. subnets' = Append(subnets, Head(pending))
      BY <1>13, <2>2 DEF AppendPool
    <3>2. subnets' \in Seq(Row) /\ ListRanged'
      BY <3>1, <2>1, <2>2, AppendProperties DEF TypeOK, ListRanged, Ranged, Usable
    <3> QED
      BY <1>13, <2>1, <3>2 DEF AppendPool, TypeOK, SubRanged, handlerVars
  <2>3. CASE ~Usable(Head(pending))
    BY <1>13, <2>1, <2>3 DEF AppendPool, TypeOK, ListRanged, SubRanged, handlerVars
  <2> QED
    BY <2>2, <2>3
<1>14. ASSUME FinishBuild PROVE TypeInv'
  BY <1>14 DEF FinishBuild, TypeOK, ListRanged, SubRanged, handlerVars
<1>15. ASSUME StopConn PROVE TypeInv'
  BY <1>15 DEF StopConn, TypeOK, ListRanged, SubRanged, handlerVars
<1>16. CASE UNCHANGED vars
  BY <1>16 DEF vars, TypeOK, ListRanged, SubRanged
<1> QED
  BY <1>1, <1>2, <1>3, <1>4, <1>6, <1>7, <1>8, <1>10, <1>11, <1>12, <1>13, <1>14, <1>15, <1>16
  DEF Next, Serve

\* Every variable keeps its type, a goroutine that is about to record, offer
\* or acknowledge has an address, and it works on a packet that was sent.
THEOREM TypeCorrect == Spec => []TypeOK
<1>1. TypeInv => TypeOK
  BY DEF TypeInv
<1> QED
  BY <1>1, TypeInit, TypeNext, PTL DEF Spec

(***************************************************************************)
(* Where leased addresses come from.                                        *)
(***************************************************************************)
HoldsAddress == {"record", "offer", "ack"}

PoolInv ==
    /\ \A i \in DOMAIN pending : pending[i] \in Known
    /\ \A i \in DOMAIN subnets : subnets[i] \in Known
    /\ \A h \in Handlers : sub[h] # NoPool => sub[h] \in Known /\ sub[h].enabled
    /\ \A h \in Handlers : pc[h] \in HoldsAddress => Covered(yi[h])
    /\ LeaseInEnabledPool

LEMMA AllocateCovered ==
  ASSUME TypeInv, PoolInv, NEW m \in Macs, NEW p \in Row, Ranged(p),
         p \in Known, p.enabled, Allocate(m, p) # NoIP
  PROVE  Covered(Allocate(m, p))
<1>1. CASE leases[m] # NoIP
  BY <1>1 DEF Allocate, PoolInv, LeaseInEnabledPool
<1>2. CASE leases[m] = NoIP
  BY <1>2, FirstFreeInPool DEF Allocate, Ranged, Covered
<1> QED
  BY <1>1, <1>2

LEMMA ChosenCovered ==
  ASSUME TypeInv, PoolInv, NEW h \in Handlers, At(h, "REQUEST"), sub[h] # NoPool,
         Chosen(h) # NoIP
  PROVE  Covered(Chosen(h))
<1>1. /\ pkt[h].mac \in Macs /\ sub[h] \in Row
      /\ Ranged(sub[h]) /\ sub[h] \in Known /\ sub[h].enabled
  BY PacketsAssumption DEF TypeInv, TypeOK, SubRanged, PoolInv, At, Packet
<1>2. CASE pkt[h].req # NoIP
  BY <1>1, <1>2 DEF Chosen, Covered
<1>3. CASE pkt[h].req = NoIP
  BY <1>1, <1>3, AllocateCovered DEF Chosen
<1> QED
  BY <1>2, <1>3

LEMMA PoolInit == Init => PoolInv
BY ConfigsAssumption, LenProperties
DEF Init, PoolInv, Known, NoLeases, LeaseInEnabledPool, HoldsAddress

LEMMA PoolNext == TypeInv /\ PoolInv /\ [Next]_vars => PoolInv'
<1> SUFFICES ASSUME TypeInv, PoolInv, [Next]_vars PROVE PoolInv'
  OBVIOUS
<1> USE DEF HoldsAddress
<1>1. ASSUME NEW h \in Handlers, NEW m \in Packets, Receive(h, m) PROVE PoolInv'
  BY <1>1 DEF Receive, TypeInv, TypeOK, PoolInv, LeaseInEnabledPool, Covered, tableVars
<1>2. ASSUME NEW h \in Handlers, Match(h) \/ TryCandidate(h) \/ Unmatched(h) PROVE PoolInv'
  <2>1. ASSUME NEW p, p = NoPool \/ (p \in Known /\ p.enabled), Matched(h, p)
        PROVE  PoolInv'
    BY <2>1 DEF Matched, TypeInv, TypeOK, PoolInv, LeaseInEnabledPool, Covered, tableVars
  <2>2. CASE Matched(h, NoPool)
    BY <2>1, <2>2
  <2>3. CASE FirstHit(Head(left[h])) # NoPool /\ Matched(h, FirstHit(Head(left[h])))
    <3>1. FirstHit(Head(left[h])) \in Known /\ FirstHit(Head(left[h])).enabled
      BY <2>3, FirstHitInList DEF Hits, PoolInv, TypeInv, TypeOK
    <3> QED
      BY <2>1, <2>3, <3>1
  <2>4. CASE /\ UNCHANGED <<leases, tableVars, sub, yi>>
             /\ pc' = pc \/ pc' = [pc EXCEPT ![h] = "matching"]
    BY <2>4 DEF TypeInv, TypeOK, PoolInv, LeaseInEnabledPool, Covered, tableVars
  <2> QED
    BY <1>2, <2>2, <2>3, <2>4 DEF Match, TryCandidate, Unmatched
<1>3. ASSUME NEW h \in Handlers, Discover(h) PROVE PoolInv'
  <2>1. pkt[h].mac \in Macs /\ sub[h] \in Row
    BY <1>3, PacketsAssumption DEF Discover, At, TypeInv, TypeOK, Packet
  <2>2. CASE GoTo(h, "offer", Allocate(pkt[h].mac, sub[h]))
             /\ sub[h] # NoPool /\ Allocate(pkt[h].mac, sub[h]) # NoIP
    <3>1. Covered(Allocate(pkt[h].mac, sub[h]))
      BY <2>1, <2>2, AllocateCovered DEF TypeInv, SubRanged, PoolInv
    <3> QED
      BY <1>3, <2>2, <3>1
      DEF Discover, GoTo, TypeInv, TypeOK, PoolInv, LeaseInEnabledPool, Covered, tableVars
  <2>3. CASE Finish(h)
    BY <1>3, <2>3
    DEF Discover, Finish, TypeInv, TypeOK, PoolInv, LeaseInEnabledPool, Covered, tableVars
  <2> QED
    BY <1>3, <2>2, <2>3 DEF Discover
<1>4. ASSUME NEW h \in Handlers, RequestUnmatched(h) \/ RequestForOther(h) \/ Send(h)
      PROVE PoolInv'
  BY <1>4
  DEF RequestUnmatched, RequestForOther, Send, Finish, GoTo, TypeInv, TypeOK, PoolInv,
      LeaseInEnabledPool, Covered, tableVars
<1>5. ASSUME NEW h \in Handlers, RequestChosen(h) PROVE PoolInv'
  <2>1. CASE GoTo(h, "nak", NoIP)
    BY <1>5, <2>1
    DEF RequestChosen, GoTo, TypeInv, TypeOK, PoolInv, LeaseInEnabledPool, Covered, tableVars
  <2>2. CASE GoTo(h, "record", Chosen(h)) /\ Chosen(h) # NoIP
    <3>1. Covered(Chosen(h))
      BY <1>5, <2>2, ChosenCovered DEF RequestChosen
    <3> QED
      BY <1>5, <2>2, <3>1
      DEF RequestChosen, GoTo, TypeInv, TypeOK, PoolInv, LeaseInEnabledPool, Covered,
          tableVars
  <2> QED
    BY <1>5, <2>1, <2>2 DEF RequestChosen
<1>6. ASSUME NEW h \in Handlers, RecordLease(h) PROVE PoolInv'
  <2>1. Covered(yi[h])
    BY <1>6 DEF RecordLease, PoolInv
  <2> QED
    BY <1>6, <2>1
    DEF RecordLease, GoTo, TypeInv, TypeOK, PoolInv, LeaseInEnabledPool, Covered, tableVars
<1>7. ASSUME NEW h \in Handlers, Release(h) PROVE PoolInv'
  BY <1>7
  DEF Release, Finish, TypeInv, TypeOK, PoolInv, LeaseInEnabledPool, Covered, tableVars
<1>8. ASSUME NEW m \in Macs, Expire(m) PROVE PoolInv'
  BY <1>8
  DEF Expire, TypeInv, TypeOK, PoolInv, LeaseInEnabledPool, Covered, tableVars, handlerVars
<1>9. ASSUME NEW c \in Configs, Reload(c) PROVE PoolInv'
  BY <1>9 DEF Reload, PoolInv, LeaseInEnabledPool, Covered, Known, handlerVars
<1>10. ASSUME NEW c \in Configs, Restart(c) PROVE PoolInv'
  BY <1>10 DEF Restart, PoolInv, LeaseInEnabledPool, Known, NoLeases
<1>11. ASSUME AppendPool PROVE PoolInv'
  <2>1. /\ Head(pending) = pending[1] /\ 1 \in DOMAIN pending /\ Head(pending) \in Row
        /\ \A i \in DOMAIN Tail(pending) : Tail(pending)[i] \in Known
    BY <1>11, HeadTailProperties, EmptySeq, LenProperties
    DEF AppendPool, TypeInv, TypeOK, PoolInv
  <2>2. \A i \in DOMAIN subnets' : subnets'[i] \in Known
    <3>1. CASE subnets' = subnets
      BY <3>1 DEF PoolInv
    <3>2. CASE subnets' = Append(subnets, Head(pending))
      BY <2>1, <3>2, AppendProperties, LenProperties DEF PoolInv, TypeInv, TypeOK
    <3> QED
      BY <1>11, <3>1, <3>2 DEF AppendPool
  <2> QED
    BY <1>11, <2>1, <2>2 DEF AppendPool, PoolInv, LeaseInEnabledPool, Covered, handlerVars
<1>12. ASSUME FinishBuild \/ StopConn PROVE PoolInv'
  BY <1>12 DEF FinishBuild, StopConn, PoolInv, LeaseInEnabledPool, Covered, handlerVars
<1>13. CASE UNCHANGED vars
  BY <1>13 DEF vars, PoolInv, LeaseInEnabledPool, Covered
<1> QED
  BY <1>1, <1>2, <1>3, <1>4, <1>5, <1>6, <1>7, <1>8, <1>9, <1>10, <1>11, <1>12, <1>13
  DEF Next, Serve

\* Whatever the interleaving of packets, expiry, reloads and restarts, a lease
\* is an address of an enabled pool that was configured.
THEOREM LeasesComeFromPools == Spec => []LeaseInEnabledPool
<1>1. PoolInv => LeaseInEnabledPool
  BY DEF PoolInv
<1> QED
  BY <1>1, TypeInit, TypeNext, PoolInit, PoolNext, PTL DEF Spec

(***************************************************************************)
(* An address goes out to a client of the pool's own network.               *)
(***************************************************************************)
\* The address is one of a pool that a packet of the client can be matched to.
HomeOf(m, a) ==
    \E p \in Known : CanMatch(p, m) /\ (PoolContains(a, p) \/ p.end = MaxAddr)

HomeInv ==
    /\ \A h \in Handlers : \A k \in DOMAIN left[h] : left[h][k] \in SourcesOf(pkt[h])
    /\ \A h \in Handlers : sub[h] # NoPool => CanMatch(sub[h], pkt[h].mac)
    /\ \A h \in Handlers : pc[h] \in {"idle", "received", "matching"} => sub[h] = NoPool
    /\ \A h \in Handlers : pc[h] \in HoldsAddress => HomeOf(pkt[h].mac, yi[h])
    /\ \A m \in Macs : leases[m] # NoIP => HomeOf(m, leases[m])

\* A live lease was given in one of the client's pools; a free address is of the
\* pool matched.
LEMMA AllocateAtHome ==
  ASSUME TypeInv, HomeInv, NEW m \in Macs, NEW p \in Row, Ranged(p),
         CanMatch(p, m), Allocate(m, p) # NoIP
  PROVE  HomeOf(m, Allocate(m, p))
<1>1. p \in Known
  BY DEF CanMatch
<1>2. CASE leases[m] # NoIP
  BY <1>2 DEF Allocate, HomeInv
<1>3. CASE leases[m] = NoIP
  BY <1>1, <1>3, FirstFreeInPool DEF Allocate, Ranged, HomeOf
<1> QED
  BY <1>2, <1>3

LEMMA ChosenAtHome ==
  ASSUME TypeInv, HomeInv, NEW h \in Handlers, At(h, "REQUEST"),
         sub[h] # NoPool, Chosen(h) # NoIP
  PROVE  HomeOf(pkt[h].mac, Chosen(h))
<1>1. /\ pkt[h].mac \in Macs /\ sub[h] \in Row
      /\ Ranged(sub[h]) /\ CanMatch(sub[h], pkt[h].mac)
  BY PacketsAssumption DEF TypeInv, TypeOK, SubRanged, HomeInv, At, Packet
<1>2. CASE pkt[h].req # NoIP
  BY <1>1, <1>2 DEF Chosen, HomeOf, CanMatch
<1>3. CASE pkt[h].req = NoIP
  BY <1>1, <1>3, AllocateAtHome DEF Chosen
<1> QED
  BY <1>2, <1>3

LEMMA HomeInit == Init => HomeInv
BY EmptySeq DEF Init, HomeInv, NoLeases, HoldsAddress

LEMMA HomeNext ==
  ASSUME TypeInv, PoolInv, HomeInv, [Next]_vars
  PROVE  HomeInv'
<1> USE DEF HoldsAddress
<1>0. \A m, a : HomeOf(m, a)' <=> HomeOf(m, a)
  BY DEF HomeOf, CanMatch, Known, Hits, PoolContains
<1>1. ASSUME NEW h \in Handlers, NEW m \in Packets, Receive(h, m) PROVE HomeInv'
  <2>1. left[h] = <<>> /\ DOMAIN left[h] = {}
    BY <1>1 DEF Receive, TypeInv, TypeOK
  <2>2. \A g \in Handlers \ {h} : pkt'[g] = pkt[g] /\ pc'[g] = pc[g]
    BY <1>1 DEF Receive, TypeInv, TypeOK
  <2>3. /\ pc'[h] = "received" /\ pc[h] = "idle"
        /\ UNCHANGED <<leases, left, sub, yi>>
    BY <1>1 DEF Receive, TypeInv, TypeOK, tableVars
  <2> QED
    BY <1>0, <2>1, <2>2, <2>3 DEF HomeInv, CanMatch
<1>2. ASSUME NEW h \in Handlers, Match(h) \/ TryCandidate(h) \/ Unmatched(h) PROVE HomeInv'
  <2>0. pkt[h] \in Packets /\ pkt[h] \in Packet
    BY <1>2, PacketsAssumption DEF Match, TryCandidate, Unmatched, TypeInv, TypeOK
  <2>1. ASSUME NEW p, p = NoPool \/ CanMatch(p, pkt[h].mac), Matched(h, p)
        PROVE  HomeInv'
    <3>1. /\ sub'[h] = p /\ pc'[h] = "matched" /\ left'[h] = <<>> /\ DOMAIN left'[h] = {}
          /\ \A g \in Handlers \ {h} : sub'[g] = sub[g] /\ pc'[g] = pc[g] /\ left'[g] = left[g]
          /\ UNCHANGED <<leases, pkt, yi>>
      BY <2>1 DEF Matched, TypeInv, TypeOK
    <3> QED
      BY <1>0, <2>1, <3>1 DEF HomeInv, CanMatch
  <2>2. CASE Matched(h, NoPool)
    BY <2>1, <2>2
  <2>3. CASE TryCandidate(h) /\ FirstHit(Head(left[h])) # NoPool
             /\ Matched(h, FirstHit(Head(left[h])))
    <3>1. left[h] \in Seq(Addr) /\ left[h] # <<>>
      BY <2>3 DEF TryCandidate, TypeInv, TypeOK
    <3>2. Head(left[h]) = left[h][1] /\ 1 \in DOMAIN left[h]
      BY <3>1, LenProperties, HeadTailProperties, EmptySeq
    <3>3. Head(left[h]) \in SourcesOf(pkt[h])
      BY <3>2 DEF HomeInv
    <3>4. PICK i \in DOMAIN subnets : /\ FirstHit(Head(left[h])) = subnets[i]
                                      /\ Hits(subnets[i], Head(left[h]))
      BY <2>3, FirstHitInList DEF TypeInv, TypeOK
    <3>5. subnets[i] \in Known /\ subnets[i].enabled
      BY <3>4 DEF PoolInv, Hits
    <3>6. CanMatch(subnets[i], pkt[h].mac)
      BY <2>0, <3>3, <3>4, <3>5 DEF CanMatch
    <3> QED
      BY <2>1, <2>3, <3>4, <3>6
  <2>4. ASSUME NEW l, left' = [left EXCEPT ![h] = l],
               \A k \in DOMAIN l : l[k] \in SourcesOf(pkt[h]),
               pc[h] \in {"received", "matching"}, pc' = [pc EXCEPT ![h] = "matching"],
               UNCHANGED <<leases, pkt, sub, yi>>
        PROVE  HomeInv'
    <3>1. /\ left'[h] = l /\ pc'[h] = "matching"
          /\ \A g \in Handlers \ {h} : left'[g] = left[g] /\ pc'[g] = pc[g]
      BY <2>4 DEF TypeInv, TypeOK
    <3> QED
      BY <1>0, <2>4, <3>1 DEF HomeInv, CanMatch
  <2>5. CASE /\ Match(h)
             /\ pc' = [pc EXCEPT ![h] = "matching"]
             /\ left' = [left EXCEPT ![h] = Candidates(pkt[h])]
             /\ UNCHANGED <<leases, tableVars, pkt, sub, yi>>
    <3>1. \A k \in DOMAIN Candidates(pkt[h]) : Candidates(pkt[h])[k] \in SourcesOf(pkt[h])
      BY <2>0, CandidatesAreSources
    <3> QED
      BY <2>4, <2>5, <3>1 DEF Match
  <2>6. CASE /\ TryCandidate(h)
             /\ left' = [left EXCEPT ![h] = Tail(@)]
             /\ UNCHANGED <<leases, tableVars, pc, pkt, sub, yi>>
    <3>1. left[h] \in Seq(Addr) /\ left[h] # <<>>
      BY <2>6 DEF TryCandidate, TypeInv, TypeOK
    <3>2. \A k \in DOMAIN Tail(left[h]) : k + 1 \in DOMAIN left[h] /\ Tail(left[h])[k] = left[h][k + 1]
      BY <3>1
    <3>3. \A k \in DOMAIN Tail(left[h]) : Tail(left[h])[k] \in SourcesOf(pkt[h])
      BY <3>2 DEF HomeInv
    <3>4. pc' = [pc EXCEPT ![h] = "matching"]
      BY <2>6 DEF TryCandidate, TypeInv, TypeOK
    <3>5. left' = [left EXCEPT ![h] = Tail(left[h])]
      BY <2>6
    <3> QED
      BY <2>4, <2>6, <3>3, <3>4, <3>5 DEF TryCandidate
  <2> QED
    BY <1>2, <2>2, <2>3, <2>5, <2>6 DEF Match, TryCandidate, Unmatched
\* A goroutine ends.
<1>e. ASSUME NEW h \in Handlers, Finish(h), pc[h] # "matching",
             \A m \in Macs : leases'[m] # NoIP => leases'[m] = leases[m]
      PROVE  HomeInv'
  <2>1. /\ sub'[h] = NoPool /\ pc'[h] = "idle" /\ left'[h] = <<>> /\ DOMAIN left'[h] = {}
        /\ \A g \in Handlers \ {h} : /\ sub'[g] = sub[g] /\ pc'[g] = pc[g] /\ left'[g] = left[g]
                                      /\ pkt'[g] = pkt[g] /\ yi'[g] = yi[g]
    BY <1>e DEF Finish, TypeInv, TypeOK
  <2> QED
    BY <1>0, <1>e, <2>1 DEF HomeInv, CanMatch
\* It goes on with an address, or without one.
<1>g. ASSUME NEW h \in Handlers, NEW label, NEW a, GoTo(h, label, a), UNCHANGED leases,
             pc[h] \notin {"idle", "received", "matching"},
             label \notin {"idle", "received", "matching"},
             label \in HoldsAddress => HomeOf(pkt[h].mac, a)
      PROVE  HomeInv'
  <2>1. /\ pc'[h] = label /\ yi'[h] = a /\ UNCHANGED <<pkt, left, sub>>
        /\ \A g \in Handlers \ {h} : pc'[g] = pc[g] /\ yi'[g] = yi[g]
    BY <1>g DEF GoTo, TypeInv, TypeOK
  <2> QED
    BY <1>0, <1>g, <2>1 DEF HomeInv, CanMatch
<1>3. ASSUME NEW h \in Handlers, Discover(h) PROVE HomeInv'
  <2>1. pkt[h].mac \in Macs /\ sub[h] \in Row /\ pc[h] = "matched" /\ UNCHANGED leases
    BY <1>3, PacketsAssumption DEF Discover, At, TypeInv, TypeOK, Packet
  <2>2. CASE GoTo(h, "offer", Allocate(pkt[h].mac, sub[h]))
             /\ sub[h] # NoPool /\ Allocate(pkt[h].mac, sub[h]) # NoIP
    <3>1. HomeOf(pkt[h].mac, Allocate(pkt[h].mac, sub[h]))
      BY <2>1, <2>2, AllocateAtHome DEF TypeInv, SubRanged, HomeInv
    <3> QED
      BY <1>g, <2>1, <2>2, <3>1
  <2>3. CASE Finish(h)
    BY <1>e, <2>1, <2>3
  <2> QED
    BY <1>3, <2>2, <2>3 DEF Discover
<1>4. ASSUME NEW h \in Handlers, RequestUnmatched(h) \/ RequestForOther(h) \/ Send(h)
      PROVE HomeInv'
  <2>1. UNCHANGED leases /\ pc[h] \notin {"idle", "received", "matching"}
    BY <1>4 DEF RequestUnmatched, RequestForOther, Send, At, Replies
  <2> QED
    BY <1>4, <1>e, <1>g, <2>1 DEF RequestUnmatched, RequestForOther, Send
<1>5. ASSUME NEW h \in Handlers, RequestChosen(h) PROVE HomeInv'
  <2>0. UNCHANGED leases /\ pc[h] = "matched"
    BY <1>5 DEF RequestChosen, At
  <2>1. CASE GoTo(h, "nak", NoIP)
    BY <1>g, <2>0, <2>1
  <2>2. CASE GoTo(h, "record", Chosen(h)) /\ Chosen(h) # NoIP
    <3>1. HomeOf(pkt[h].mac, Chosen(h))
      BY <1>5, <2>2, ChosenAtHome DEF RequestChosen
    <3> QED
      BY <1>g, <2>0, <2>2, <3>1
  <2> QED
    BY <1>5, <2>1, <2>2 DEF RequestChosen
<1>6. ASSUME NEW h \in Handlers, RecordLease(h) PROVE HomeInv'
  <2>1. /\ pc[h] = "record" /\ pkt[h].mac \in Macs /\ HomeOf(pkt[h].mac, yi[h])
        /\ GoTo(h, "ack", yi[h])
    BY <1>6, PacketsAssumption DEF RecordLease, HomeInv, TypeInv, TypeOK, Packet
  <2>2. /\ leases'[pkt[h].mac] = yi[h]
        /\ \A m \in Macs \ {pkt[h].mac} : leases'[m] = leases[m]
    BY <1>6, <2>1 DEF RecordLease, TypeInv, TypeOK
  <2>3. /\ pc'[h] = "ack" /\ UNCHANGED <<pkt, left, sub>> /\ yi'[h] = yi[h]
        /\ \A g \in Handlers \ {h} : pc'[g] = pc[g] /\ yi'[g] = yi[g]
    BY <2>1 DEF GoTo, TypeInv, TypeOK
  <2>4. (\A m \in Macs : leases[m] # NoIP => HomeOf(m, leases[m]))'
    <3>1. \A m \in Macs : leases'[m] # NoIP => HomeOf(m, leases'[m])
      BY <2>1, <2>2 DEF HomeInv
    <3> QED
      BY <3>1 DEF HomeOf, CanMatch
  <2>5. (\A g \in Handlers : pc[g] \in HoldsAddress => HomeOf(pkt[g].mac, yi[g]))'
    BY <1>0, <2>1, <2>3 DEF HomeInv
  <2>6. (\A g \in Handlers : sub[g] # NoPool => CanMatch(sub[g], pkt[g].mac))'
    BY <2>3 DEF HomeInv, CanMatch
  <2>7. (\A g \in Handlers : pc[g] \in {"idle", "received", "matching"} => sub[g] = NoPool)'
    BY <2>3 DEF HomeInv
  <2>8. (\A g \in Handlers : \A k \in DOMAIN left[g] : left[g][k] \in SourcesOf(pkt[g]))'
    BY <2>3 DEF HomeInv
  <2> QED
    BY <2>4, <2>5, <2>6, <2>7, <2>8 DEF HomeInv
<1>7. ASSUME NEW h \in Handlers, Release(h) PROVE HomeInv'
  <2>1. /\ pc[h] = "matched" /\ Finish(h)
        /\ \A m \in Macs : leases'[m] # NoIP => leases'[m] = leases[m]
    BY <1>7 DEF Release, At, TypeInv, TypeOK
  <2> QED
    BY <1>e, <2>1
<1>8. ASSUME NEW m \in Macs, Expire(m) PROVE HomeInv'
  <2>1. /\ \A n \in Macs : leases'[n] # NoIP => leases'[n] = leases[n]
        /\ UNCHANGED <<pc, pkt, left, sub, yi>>
    BY <1>8 DEF Expire, TypeInv, TypeOK, handlerVars
  <2> QED
    BY <1>0, <2>1 DEF HomeInv, CanMatch
<1>9. ASSUME UNCHANGED <<leases, handlerVars>> PROVE HomeInv'
  BY <1>0, <1>9 DEF HomeInv, handlerVars, CanMatch
<1>10. ASSUME NEW c \in Configs, Restart(c) PROVE HomeInv'
  BY <1>10, EmptySeq DEF Restart, HomeInv, NoLeases
<1>11. ASSUME AppendPool \/ FinishBuild \/ StopConn \/ (\E c \in Configs : Reload(c))
       PROVE  HomeInv'
  BY <1>9, <1>11 DEF AppendPool, FinishBuild, StopConn, Reload
<1>12. CASE UNCHANGED vars
  BY <1>9, <1>12 DEF vars, handlerVars
<1> QED
  BY <1>1, <1>2, <1>3, <1>4, <1>5, <1>6, <1>7, <1>8, <1>10, <1>11, <1>12
  DEF Next, Serve

\* Wherever clients move and whatever is reloaded, an OFFER or ACK only carries an
\* address of a pool that a packet of this client can be matched to.
THEOREM RepliesComeFromOwnPools == Spec => []ReplyFromOwnPool
<1>1. TypeInv /\ PoolInv /\ HomeInv /\ [Next]_vars => HomeInv'
  BY HomeNext
<1>2. HomeInv => ReplyFromOwnPool
  BY DEF HomeInv, HomeOf, ReplyFromOwnPool, HoldsAddress
<1> QED
  BY <1>1, <1>2, TypeInit, TypeNext, PoolInit, PoolNext, HomeInit, PTL DEF Spec

(***************************************************************************)
(* The service with its clients, when boot exchanges do not overlap: one at *)
(* a time, and one packet goroutine at a time. The dhcp_overlap run shows   *)
(* that the theorems below that assume NoOverlap fail without it.           *)
(***************************************************************************)
NoOverlap == OneAtATime /\ \A g, h \in Handlers : g = h

\* No other client has a live lease on the address.
Free(a, m) == \A n \in Macs \ {m} : leases[n] # a

\* What the goroutine at work may rely on: nobody else waits for an ACK, the
\* address it is about to grant is free for its client, and the client uses no
\* other address meanwhile.
Sure(label, p, a) ==
    label # "idle" =>
        /\ \A n \in Macs \ {p.mac} : offered[n] = NoIP
        /\ label \in {"received", "matching", "matched"} /\ p.type = "REQUEST" /\ p.req # NoIP =>
               Free(p.req, p.mac) /\ held[p.mac] \in {NoIP, p.req}
        /\ label \in {"received", "matching", "matched"} /\ p.type # "REQUEST" => held[p.mac] = NoIP
        /\ label = "record" => Free(a, p.mac) /\ held[p.mac] \in {NoIP, a}
        /\ label = "offer" => Free(a, p.mac) /\ held[p.mac] = NoIP
        /\ label = "ack" => leases[p.mac] = a

AllSure == \A h \in Handlers : Sure(pc[h], pkt[h], yi[h])

\* An offer a client has chosen is still free for it, and it uses no address yet.
OffersStand == \A m \in Macs : offered[m] # NoIP => held[m] = NoIP /\ Free(offered[m], m)

ClientTypes ==
    /\ offered \in [Macs -> Addr \cup {NoIP}]
    /\ held \in [Macs -> Addr \cup {NoIP}]

ClientInv ==
    /\ TypeInv
    /\ ClientTypes
    /\ LeaseUnique
    /\ HeldRecorded
    /\ OffersStand
    /\ AllSure

\* Every step of the service with its clients is a step of the service.
LEMMA ClientStepIsServerStep == [ClientNext]_allVars => [Next]_vars
<1> SUFFICES ASSUME [ClientNext]_allVars PROVE [Next]_vars
  OBVIOUS
<1>1. CASE UNCHANGED allVars
  BY <1>1 DEF allVars
<1>2. ASSUME NEW h \in Handlers, NEW p \in Packets, SendPacket(h, p) PROVE Next
  BY <1>2 DEF SendPacket, Next
<1>3. ASSUME NEW h \in Handlers, Serve(h) \/ Deliver(h) PROVE Next
  BY <1>3 DEF Deliver, Next
<1>4. ASSUME NEW m \in Macs, GiveUp(m) PROVE UNCHANGED vars
  BY <1>4 DEF GiveUp
<1>5. ASSUME NEW m \in Macs, ClientExpire(m) PROVE Next
  BY <1>5 DEF ClientExpire, Next
<1>6. ASSUME NEW c \in Configs, Reload(c) PROVE Next
  BY <1>6 DEF Next
<1>7. ASSUME AppendPool \/ FinishBuild \/ StopConn PROVE Next
  BY <1>7 DEF Next
<1> QED
  BY <1>1, <1>2, <1>3, <1>4, <1>5, <1>6, <1>7 DEF ClientNext

LEMMA ClientInitInv == ClientInit => ClientInv
<1> SUFFICES ASSUME ClientInit PROVE ClientInv
  OBVIOUS
<1>1. TypeInv /\ Init
  BY TypeInit DEF ClientInit
<1>2. \A m \in Macs : leases[m] = NoIP /\ held[m] = NoIP /\ offered[m] = NoIP
  BY <1>1 DEF ClientInit, Init, NoLeases
<1>3. ClientTypes
  BY DEF ClientInit, ClientTypes
<1>4. AllSure
  BY <1>1 DEF Init, AllSure, Sure
<1> QED
  BY <1>1, <1>2, <1>3, <1>4 DEF ClientInv, LeaseUnique, HeldRecorded, OffersStand

\* A client's live lease is free for it, and so is what allocate finds.
LEMMA AllocateFree ==
  ASSUME TypeInv, LeaseUnique, NEW m \in Macs, NEW p \in Row, Ranged(p),
         Allocate(m, p) # NoIP
  PROVE  Free(Allocate(m, p), m)
<1>1. CASE leases[m] # NoIP
  BY <1>1 DEF Allocate, LeaseUnique, Free
<1>2. CASE leases[m] = NoIP
  <2>1. FirstFree(p) # NoIP /\ Allocate(m, p) = FirstFree(p)
    BY <1>2 DEF Allocate
  <2>2. FirstFree(p) \notin Taken
    BY <2>1, FirstFreeIsFree DEF Ranged
  <2> QED
    BY <2>1, <2>2 DEF Taken, Free
<1> QED
  BY <1>1, <1>2

\* What the one goroutine there is holds, it may rely on.
LEMMA OneSure ==
  ASSUME NoOverlap, NEW h \in Handlers, Sure(pc[h], pkt[h], yi[h])'
  PROVE  AllSure'
BY DEF NoOverlap, AllSure

LEMMA PacketAtHand ==
  ASSUME TypeInv, NEW h \in Handlers, pc[h] # "idle"
  PROVE  /\ pkt[h] \in Packets /\ pkt[h] \in Packet /\ pkt[h].mac \in Macs
         /\ pkt[h].req \in Addr \cup {NoIP}
BY PacketsAssumption DEF TypeInv, TypeOK, Packet

\* Steps of the service that leave the tables of leases and clients alone.
LEMMA SameLeases ==
  ASSUME ClientInv, UNCHANGED <<leases, held, offered>>
  PROVE  /\ ClientTypes' /\ LeaseUnique' /\ HeldRecorded' /\ OffersStand'
         /\ \A a, m : Free(a, m)' <=> Free(a, m)
BY DEF ClientInv, ClientTypes, LeaseUnique, HeldRecorded, OffersStand, Free

(***************************************************************************)
(* One lemma per action.                                                    *)
(***************************************************************************)
LEMMA SendPacketKeeps ==
  ASSUME NoOverlap, ClientInv, TypeInv', NEW h \in Handlers, NEW p \in Packets, SendPacket(h, p)
  PROVE  ClientInv'
<1> DEFINE m == p.mac
<1>1. /\ m \in Macs /\ p.req \in Addr \cup {NoIP}
      /\ p.type \in {"DISCOVER", "REQUEST", "RELEASE", "DECLINE"}
  BY PacketsAssumption DEF Packet
<1>2. /\ pc'[h] = "received" /\ pkt'[h] = p /\ leases' = leases
      /\ \A n \in Macs \ {m} : offered[n] = NoIP
  BY DEF SendPacket, Receive, MaySend, NoOverlap, Undisturbed, ClientInv, TypeInv, TypeOK
<1>3. CASE p.type = "REQUEST"
  <2>1. /\ UNCHANGED <<leases, held, offered>>
        /\ \/ p.req = NoIP
           \/ p.req # NoIP /\ p.req \in {offered[m], held[m]}
    BY <1>2, <1>3 DEF SendPacket, MaySend, clientVars
  <2>2. ASSUME p.req # NoIP PROVE Free(p.req, m) /\ held[m] \in {NoIP, p.req}
    <3>1. CASE p.req = offered[m]
      BY <1>1, <2>2, <3>1 DEF ClientInv, OffersStand
    <3>2. CASE p.req = held[m]
      BY <1>1, <2>2, <3>2 DEF ClientInv, HeldRecorded, LeaseUnique, Free
    <3> QED
      BY <2>1, <2>2, <3>1, <3>2
  <2>3. Sure(pc[h], pkt[h], yi[h])'
    BY <1>2, <1>3, <2>1, <2>2 DEF Sure, Free
  <2> QED
    BY <2>1, <2>3, SameLeases, OneSure DEF ClientInv
<1>4. CASE p.type # "REQUEST"
  <2>1. /\ held' = [held EXCEPT ![m] = NoIP] /\ offered' = [offered EXCEPT ![m] = NoIP]
    BY <1>4 DEF SendPacket
  <2>2. /\ ClientTypes' /\ held'[m] = NoIP /\ \A n \in Macs : offered'[n] = NoIP
        /\ \A n \in Macs : held'[n] \in {NoIP, held[n]}
    BY <1>1, <1>2, <2>1 DEF ClientInv, ClientTypes
  <2>3. Sure(pc[h], pkt[h], yi[h])'
    BY <1>2, <1>4, <2>2 DEF Sure
  <2>4. LeaseUnique' /\ HeldRecorded' /\ OffersStand'
    BY <1>2, <2>2 DEF ClientInv, LeaseUnique, HeldRecorded, OffersStand
  <2> QED
    BY <2>2, <2>3, <2>4, OneSure DEF ClientInv
<1> QED
  BY <1>3, <1>4

\* A goroutine goes on to a reply or to recordLease, or ends.
LEMMA GoingOn ==
  ASSUME NoOverlap, ClientInv, TypeInv', NEW h \in Handlers, pc[h] # "idle",
         UNCHANGED <<leases, held, offered>>,
         \/ Finish(h)
         \/ \E label, ip : /\ GoTo(h, label, ip)
                           /\ \/ label = "nak"
                              \/ label = "record" /\ Free(ip, pkt[h].mac)
                                 /\ held[pkt[h].mac] \in {NoIP, ip}
                              \/ label = "offer" /\ Free(ip, pkt[h].mac)
                                 /\ held[pkt[h].mac] = NoIP
  PROVE  ClientInv'
<1>1. \A n \in Macs \ {pkt[h].mac} : offered[n] = NoIP
  BY DEF ClientInv, AllSure, Sure
<1>2. CASE Finish(h)
  <2>1. pc'[h] = "idle"
    BY <1>2 DEF Finish, ClientInv, TypeInv, TypeOK
  <2>2. Sure(pc[h], pkt[h], yi[h])'
    BY <2>1 DEF Sure
  <2> QED
    BY <2>2, SameLeases, OneSure DEF ClientInv
<1>3. ASSUME NEW label, NEW ip, GoTo(h, label, ip),
             \/ label = "nak"
             \/ label = "record" /\ Free(ip, pkt[h].mac) /\ held[pkt[h].mac] \in {NoIP, ip}
             \/ label = "offer" /\ Free(ip, pkt[h].mac) /\ held[pkt[h].mac] = NoIP
      PROVE  ClientInv'
  <2>1. pc'[h] = label /\ yi'[h] = ip /\ pkt'[h] = pkt[h]
    BY <1>3 DEF GoTo, ClientInv, TypeInv, TypeOK
  <2>2. Sure(pc[h], pkt[h], yi[h])'
    BY <1>1, <1>3, <2>1 DEF Sure, Free
  <2> QED
    BY <2>2, SameLeases, OneSure DEF ClientInv
<1> QED
  BY <1>2, <1>3

LEMMA MatchKeeps ==
  ASSUME NoOverlap, ClientInv, TypeInv', NEW h \in Handlers,
         Match(h) \/ TryCandidate(h) \/ Unmatched(h), UNCHANGED clientVars
  PROVE  ClientInv'
<1>1. /\ pc[h] \in {"received", "matching"} /\ pc'[h] \in {"matching", "matched"}
      /\ pkt' = pkt /\ UNCHANGED <<leases, held, offered>>
  BY DEF Match, TryCandidate, Unmatched, Matched, clientVars, ClientInv, TypeInv, TypeOK
<1>2. Sure(pc[h], pkt[h], yi[h])
  BY <1>1 DEF ClientInv, AllSure
<1>3. Sure(pc[h], pkt[h], yi[h])'
  BY <1>1, <1>2 DEF Sure, Free
<1> QED
  BY <1>1, <1>3, SameLeases, OneSure DEF ClientInv

LEMMA DiscoverKeeps ==
  ASSUME NoOverlap, ClientInv, TypeInv', NEW h \in Handlers, Discover(h), UNCHANGED clientVars
  PROVE  ClientInv'
<1> DEFINE ip == Allocate(pkt[h].mac, sub[h])
<1>1. /\ pc[h] = "matched" /\ pkt[h].type = "DISCOVER"
      /\ UNCHANGED <<leases, held, offered>> /\ pkt[h].mac \in Macs
      /\ sub[h] \in Row /\ (sub[h] = NoPool \/ Ranged(sub[h]))
  BY PacketAtHand DEF Discover, At, clientVars, ClientInv, TypeInv, TypeOK, SubRanged
<1>2. Finish(h) \/ (sub[h] # NoPool /\ ip # NoIP /\ GoTo(h, "offer", ip))
  BY DEF Discover
<1>3. held[pkt[h].mac] = NoIP
  BY <1>1 DEF ClientInv, AllSure, Sure
<1>4. sub[h] # NoPool /\ ip # NoIP => Free(ip, pkt[h].mac)
  BY <1>1, AllocateFree DEF ClientInv
<1> QED
  BY <1>1, <1>2, <1>3, <1>4, GoingOn

LEMMA RequestKeeps ==
  ASSUME NoOverlap, ClientInv, TypeInv', NEW h \in Handlers,
         RequestUnmatched(h) \/ RequestForOther(h) \/ RequestChosen(h), UNCHANGED clientVars
  PROVE  ClientInv'
<1>1. /\ pc[h] = "matched" /\ pkt[h].type = "REQUEST"
      /\ UNCHANGED <<leases, held, offered>> /\ pkt[h].mac \in Macs
      /\ sub[h] \in Row /\ (sub[h] = NoPool \/ Ranged(sub[h]))
  BY PacketAtHand
  DEF RequestUnmatched, RequestForOther, RequestChosen, At, clientVars, ClientInv, TypeInv,
      TypeOK, SubRanged
<1>2. \/ Finish(h) \/ GoTo(h, "nak", NoIP)
      \/ sub[h] # NoPool /\ Chosen(h) # NoIP /\ GoTo(h, "record", Chosen(h))
  BY DEF RequestUnmatched, RequestForOther, RequestChosen
<1>3. ASSUME sub[h] # NoPool, Chosen(h) # NoIP
      PROVE  Free(Chosen(h), pkt[h].mac) /\ held[pkt[h].mac] \in {NoIP, Chosen(h)}
  <2>1. CASE pkt[h].req # NoIP
    <3>1. Chosen(h) = pkt[h].req
      BY <1>3, <2>1 DEF Chosen
    <3> QED
      BY <1>1, <2>1, <3>1 DEF ClientInv, AllSure, Sure
  <2>2. CASE pkt[h].req = NoIP
    <3>1. Chosen(h) = Allocate(pkt[h].mac, sub[h])
      BY <2>2 DEF Chosen
    <3>2. Free(Chosen(h), pkt[h].mac)
      BY <1>1, <1>3, <3>1, AllocateFree DEF ClientInv
    <3>3. held[pkt[h].mac] \in {NoIP, Chosen(h)}
      BY <1>1, <3>1 DEF ClientInv, HeldRecorded, Allocate
    <3> QED
      BY <3>2, <3>3
  <2> QED
    BY <2>1, <2>2
<1>4. CASE Finish(h) \/ GoTo(h, "nak", NoIP)
  BY <1>1, <1>4, GoingOn
<1>5. CASE sub[h] # NoPool /\ Chosen(h) # NoIP /\ GoTo(h, "record", Chosen(h))
  BY <1>1, <1>3, <1>5, GoingOn
<1> QED
  BY <1>2, <1>4, <1>5

\* The lease is for an address no other client has, and the client uses no other.
LEMMA RecordKeeps ==
  ASSUME NoOverlap, ClientInv, TypeInv', NEW h \in Handlers, RecordLease(h), UNCHANGED clientVars
  PROVE  ClientInv'
<1> DEFINE m == pkt[h].mac
<1>1. /\ pc[h] = "record" /\ m \in Macs /\ yi[h] # NoIP
      /\ leases' = [leases EXCEPT ![m] = yi[h]] /\ UNCHANGED <<held, offered>>
      /\ GoTo(h, "ack", yi[h])
  BY PacketAtHand DEF RecordLease, clientVars, ClientInv, TypeInv, TypeOK
<1>2. pc'[h] = "ack" /\ yi'[h] = yi[h] /\ pkt'[h] = pkt[h]
  BY <1>1 DEF GoTo, ClientInv, TypeInv, TypeOK
<1>3. leases'[m] = yi[h] /\ \A n \in Macs \ {m} : leases'[n] = leases[n]
  BY <1>1 DEF ClientInv, TypeInv, TypeOK
<1>4. /\ Free(yi[h], m) /\ held[m] \in {NoIP, yi[h]}
      /\ \A n \in Macs \ {m} : offered[n] = NoIP
  BY <1>1 DEF ClientInv, AllSure, Sure
<1>5. LeaseUnique'
  BY <1>3, <1>4 DEF ClientInv, LeaseUnique, Free
<1>6. HeldRecorded'
  BY <1>1, <1>3, <1>4 DEF ClientInv, HeldRecorded
<1>7. OffersStand'
  BY <1>1, <1>3, <1>4 DEF ClientInv, OffersStand, Free
<1>8. Sure(pc[h], pkt[h], yi[h])'
  BY <1>1, <1>2, <1>3, <1>4 DEF Sure
<1>9. ClientTypes'
  BY <1>1 DEF ClientInv, ClientTypes
<1> QED
  BY <1>5, <1>6, <1>7, <1>8, <1>9, OneSure DEF ClientInv

\* A lease goes away, of a client that uses no address from here on.
LEMMA DropKeeps ==
  ASSUME NoOverlap, ClientInv, NEW m \in Macs,
         leases' = [leases EXCEPT ![m] = NoIP], held' \in [Macs -> Addr \cup {NoIP}],
         held'[m] = NoIP, \A n \in Macs \ {m} : held'[n] = held[n], UNCHANGED offered
  PROVE  /\ ClientTypes' /\ LeaseUnique' /\ HeldRecorded' /\ OffersStand'
         /\ \A a \in Addr, n \in Macs : Free(a, n) => Free(a, n)'
<1>1. leases'[m] = NoIP /\ \A n \in Macs \ {m} : leases'[n] = leases[n]
  BY DEF ClientInv, TypeInv, TypeOK
<1>2. ClientTypes'
  BY DEF ClientInv, ClientTypes
<1>3. NoIP \notin Addr
  BY DEF NoIP, Addr
<1>4. \A a \in Addr, n \in Macs : Free(a, n) => Free(a, n)'
  BY <1>1, <1>3 DEF Free
<1>5. LeaseUnique'
  BY <1>1 DEF ClientInv, LeaseUnique
<1>6. HeldRecorded'
  BY <1>1 DEF ClientInv, HeldRecorded
<1>7. OffersStand'
  <2> SUFFICES ASSUME NEW n \in Macs, offered[n] # NoIP
               PROVE  held'[n] = NoIP /\ Free(offered[n], n)'
    BY DEF OffersStand
  <2>1. held[n] = NoIP /\ Free(offered[n], n) /\ offered[n] \in Addr
    BY DEF ClientInv, OffersStand, ClientTypes
  <2>2. PICK a \in Addr : a = offered[n]
    BY <2>1
  <2>3. Free(a, n)'
    BY <1>4, <2>1, <2>2
  <2>4. offered'[n] = a
    BY <2>2
  <2> QED
    BY <2>1, <2>2, <2>3
<1> QED
  BY <1>2, <1>4, <1>5, <1>6, <1>7

LEMMA ReleaseKeeps ==
  ASSUME NoOverlap, ClientInv, TypeInv', NEW h \in Handlers, Release(h), UNCHANGED clientVars
  PROVE  ClientInv'
<1> DEFINE m == pkt[h].mac
<1>1. /\ pc[h] = "matched" /\ pkt[h].type \in {"RELEASE", "DECLINE"} /\ m \in Macs
      /\ leases' = [leases EXCEPT ![m] = NoIP] /\ UNCHANGED <<held, offered>> /\ Finish(h)
  BY PacketAtHand DEF Release, At, clientVars, ClientInv, TypeInv, TypeOK
<1>2. held[m] = NoIP
  BY <1>1 DEF ClientInv, AllSure, Sure
<1>3. ClientTypes' /\ LeaseUnique' /\ HeldRecorded' /\ OffersStand'
  <2>1. held' \in [Macs -> Addr \cup {NoIP}] /\ held'[m] = NoIP
    BY <1>1, <1>2 DEF ClientInv, ClientTypes
  <2> HIDE DEF m
  <2> QED
    BY <1>1, <2>1, DropKeeps
<1>4. pc'[h] = "idle"
  BY <1>1 DEF Finish, ClientInv, TypeInv, TypeOK
<1>5. Sure(pc[h], pkt[h], yi[h])'
  BY <1>4 DEF Sure
<1> QED
  BY <1>3, <1>5, OneSure DEF ClientInv

LEMMA DeliverKeeps ==
  ASSUME NoOverlap, ClientInv, TypeInv', NEW h \in Handlers, Deliver(h)
  PROVE  ClientInv'
<1> DEFINE m == pkt[h].mac
<1>1. /\ pc[h] \in Replies /\ Finish(h) /\ leases' = leases /\ m \in Macs
      /\ pc'[h] = "idle" /\ yi[h] \in Addr \cup {NoIP}
      /\ pc[h] \in {"offer", "ack"} => yi[h] # NoIP
  BY PacketAtHand DEF Deliver, Send, Replies, Finish, ClientInv, TypeInv, TypeOK
<1>2. Sure(pc[h], pkt[h], yi[h])'
  BY <1>1 DEF Sure
<1>3. AllSure' /\ LeaseUnique'
  BY <1>1, <1>2, OneSure DEF ClientInv, LeaseUnique
<1>4. Sure(pc[h], pkt[h], yi[h])
  BY DEF ClientInv, AllSure
<1>5. CASE UNCHANGED clientVars
  <2>1. UNCHANGED <<leases, held, offered>>
    BY <1>1, <1>5 DEF clientVars
  <2> QED
    BY <1>3, <2>1, SameLeases DEF ClientInv
<1>6. CASE /\ pc[h] = "offer"
           /\ offered' = [offered EXCEPT ![m] = yi[h]]
           /\ UNCHANGED held
  <2>1. Free(yi[h], m) /\ held[m] = NoIP
    BY <1>4, <1>6 DEF Sure
  <2>2. /\ ClientTypes' /\ offered'[m] = yi[h]
        /\ \A n \in Macs \ {m} : offered'[n] = offered[n]
    BY <1>1, <1>6 DEF ClientInv, ClientTypes
  <2>3. OffersStand' /\ HeldRecorded'
    BY <1>1, <1>6, <2>1, <2>2 DEF ClientInv, OffersStand, HeldRecorded, Free
  <2> QED
    BY <1>3, <2>2, <2>3 DEF ClientInv
<1>7. CASE /\ pc[h] \in {"ack", "nak"}
           /\ held' = [held EXCEPT ![m] = IF pc[h] = "ack" THEN yi[h] ELSE NoIP]
           /\ offered' = [offered EXCEPT ![m] = NoIP]
  <2>1. pc[h] = "ack" => leases[m] = yi[h]
    BY <1>1, <1>4, <1>7 DEF Sure
  <2>2. /\ ClientTypes' /\ offered'[m] = NoIP
        /\ held'[m] = IF pc[h] = "ack" THEN yi[h] ELSE NoIP
        /\ \A n \in Macs \ {m} : offered'[n] = offered[n] /\ held'[n] = held[n]
    BY <1>1, <1>7 DEF ClientInv, ClientTypes
  <2>3. HeldRecorded'
    BY <1>1, <2>1, <2>2 DEF ClientInv, HeldRecorded
  <2>4. OffersStand'
    BY <1>1, <2>2 DEF ClientInv, OffersStand, Free
  <2> QED
    BY <1>3, <2>2, <2>3, <2>4 DEF ClientInv
<1> QED
  BY <1>5, <1>6, <1>7 DEF Deliver

LEMMA ExpireKeeps ==
  ASSUME NoOverlap, ClientInv, TypeInv', NEW m \in Macs, ClientExpire(m)
  PROVE  ClientInv'
<1>1. /\ leases' = [leases EXCEPT ![m] = NoIP] /\ held' = [held EXCEPT ![m] = NoIP]
      /\ UNCHANGED <<offered, pc, pkt, yi>>
      /\ \A h \in Handlers : ~(pc[h] = "ack" /\ pkt[h].mac = m)
  BY DEF ClientExpire, Expire, handlerVars
<1>2. /\ held' \in [Macs -> Addr \cup {NoIP}] /\ held'[m] = NoIP
      /\ \A n \in Macs \ {m} : held'[n] = held[n]
  BY <1>1 DEF ClientInv, ClientTypes
<1>3. /\ ClientTypes' /\ LeaseUnique' /\ HeldRecorded' /\ OffersStand'
      /\ \A a \in Addr, n \in Macs : Free(a, n) => Free(a, n)'
  BY <1>1, <1>2, DropKeeps
<1>4. AllSure'
  <2> SUFFICES ASSUME NEW h \in Handlers, pc[h] # "idle" PROVE Sure(pc[h], pkt[h], yi[h])'
    BY <1>1 DEF AllSure, Sure
  <2> DEFINE c == pkt[h].mac
  <2>1. /\ c \in Macs /\ pkt[h].req \in Addr \cup {NoIP} /\ yi[h] \in Addr \cup {NoIP}
        /\ pc[h] \in {"record", "offer", "ack"} => yi[h] # NoIP
    BY PacketAtHand DEF ClientInv, TypeInv, TypeOK
  <2>2. Sure(pc[h], pkt[h], yi[h])
    BY DEF ClientInv, AllSure
  <2>3. held'[c] \in {NoIP, held[c]}
    BY <1>2, <2>1
  <2>4. pc[h] = "ack" => leases'[c] = leases[c]
    BY <1>1, <2>1 DEF ClientInv, TypeInv, TypeOK
  <2>5. pkt[h].req # NoIP /\ Free(pkt[h].req, c) => Free(pkt[h].req, c)'
    <3>1. PICK a \in Addr \cup {NoIP}, n \in Macs : a = pkt[h].req /\ n = c
      BY <2>1
    <3> QED
      BY <1>1, <1>3, <3>1 DEF Free
  <2>6. yi[h] # NoIP /\ Free(yi[h], c) => Free(yi[h], c)'
    <3>1. PICK a \in Addr \cup {NoIP}, n \in Macs : a = yi[h] /\ n = c
      BY <2>1
    <3> QED
      BY <1>1, <1>3, <3>1 DEF Free
  <2> QED
    BY <1>1, <2>1, <2>2, <2>3, <2>4, <2>5, <2>6 DEF Sure
<1> QED
  BY <1>3, <1>4 DEF ClientInv

LEMMA GiveUpKeeps ==
  ASSUME NoOverlap, ClientInv, TypeInv', NEW m \in Macs, GiveUp(m)
  PROVE  ClientInv'
<1>1. /\ offered' = [offered EXCEPT ![m] = NoIP] /\ UNCHANGED <<leases, held, pc, pkt, yi>>
  BY DEF GiveUp, vars
<1>2. ClientTypes' /\ \A n \in Macs : offered'[n] \in {NoIP, offered[n]}
  BY <1>1 DEF ClientInv, ClientTypes
<1>3. LeaseUnique' /\ HeldRecorded' /\ OffersStand'
  BY <1>1, <1>2 DEF ClientInv, LeaseUnique, HeldRecorded, OffersStand, Free
<1>4. AllSure'
  BY <1>1, <1>2 DEF ClientInv, AllSure, Sure, Free
<1> QED
  BY <1>2, <1>3, <1>4 DEF ClientInv

\* Reloads do not touch the leases or the goroutine at work.
LEMMA ReloadKeeps ==
  ASSUME ClientInv, TypeInv', UNCHANGED <<leases, pc, pkt, yi, held, offered>>
  PROVE  ClientInv'
<1>1. AllSure'
  BY DEF ClientInv, AllSure, Sure, Free
<1> QED
  BY <1>1, SameLeases DEF ClientInv

(***************************************************************************)
(* The theorems.                                                            *)
(***************************************************************************)
LEMMA ClientNextInv ==
  ASSUME NoOverlap, ClientInv, [ClientNext]_allVars
  PROVE  ClientInv'
<1>1. TypeInv'
  BY ClientStepIsServerStep, TypeNext DEF ClientInv
<1>2. CASE UNCHANGED allVars
  <2>1. UNCHANGED <<leases, pc, pkt, yi, held, offered>>
    BY <1>2 DEF allVars, vars, clientVars
  <2> QED
    BY <1>1, <2>1, ReloadKeeps
<1>3. ASSUME NEW h \in Handlers, NEW p \in Packets, SendPacket(h, p) PROVE ClientInv'
  BY <1>1, <1>3, SendPacketKeeps
<1>4. ASSUME NEW h \in Handlers, Serve(h), UNCHANGED clientVars PROVE ClientInv'
  BY <1>1, <1>4, MatchKeeps, DiscoverKeeps, RequestKeeps, RecordKeeps, ReleaseKeeps DEF Serve
<1>5. ASSUME NEW h \in Handlers, Deliver(h) PROVE ClientInv'
  BY <1>1, <1>5, DeliverKeeps
<1>6. ASSUME NEW m \in Macs, GiveUp(m) \/ ClientExpire(m) PROVE ClientInv'
  BY <1>1, <1>6, GiveUpKeeps, ExpireKeeps
<1>7. ASSUME NEW c \in Configs, Reload(c), UNCHANGED clientVars PROVE ClientInv'
  BY <1>1, <1>7, ReloadKeeps DEF Reload, handlerVars, clientVars
<1>8. ASSUME AppendPool \/ FinishBuild \/ StopConn, UNCHANGED clientVars PROVE ClientInv'
  BY <1>1, <1>8, ReloadKeeps DEF AppendPool, FinishBuild, StopConn, handlerVars, clientVars
<1> QED
  BY <1>2, <1>3, <1>4, <1>5, <1>6, <1>7, <1>8 DEF ClientNext

LEMMA ClientInvAlways ==
  ASSUME NoOverlap
  PROVE  ClientSpec => []ClientInv
<1>1. ClientInit => ClientInv
  BY ClientInitInv
<1>2. ClientInv /\ [ClientNext]_allVars => ClientInv'
  BY ClientNextInv
<1> QED
  BY <1>1, <1>2, PTL DEF ClientSpec

\* With clients of any behaviour, overlapping or not, the service only does what it
\* does for arbitrary packets: what holds of it alone holds of it here.
THEOREM ClientsFaceTheServer == ClientSpec => Spec
<1>1. ClientInit => Init
  BY DEF ClientInit
<1>2. [ClientNext]_allVars => [Next]_vars
  BY ClientStepIsServerStep
<1> QED
  BY <1>1, <1>2, PTL DEF ClientSpec, Spec

\* So no client is ever recorded with an address outside the enabled pools.
COROLLARY ClientsLeaseFromPools == ClientSpec => []LeaseInEnabledPool
BY ClientsFaceTheServer, LeasesComeFromPools, PTL

\* The service and its clients keep their types, however many clients there are
\* and whatever they send, also when exchanges overlap.
THEOREM ClientTypeCorrect == ClientSpec => []ClientTypeOK
<1> DEFINE I == TypeInv /\ ClientTypes
<1>1. ClientInit => I
  BY ClientInitInv DEF ClientInv
<1>2. I /\ [ClientNext]_allVars => I'
  <2> SUFFICES ASSUME I, [ClientNext]_allVars PROVE I'
    OBVIOUS
  <2>1. TypeInv'
    BY ClientStepIsServerStep, TypeNext
  <2>2. ASSUME NEW h \in Handlers, NEW p \in Packets, SendPacket(h, p) PROVE ClientTypes'
    BY <2>2 DEF SendPacket, clientVars, ClientTypes
  <2>3. ASSUME NEW h \in Handlers, Deliver(h) PROVE ClientTypes'
    <3>1. yi[h] \in Addr \cup {NoIP}
      BY DEF TypeInv, TypeOK
    <3> QED
      BY <2>3, <3>1 DEF Deliver, clientVars, ClientTypes
  <2>4. ASSUME NEW m \in Macs, GiveUp(m) \/ ClientExpire(m) PROVE ClientTypes'
    BY <2>4 DEF GiveUp, ClientExpire, ClientTypes
  <2>5. ASSUME UNCHANGED clientVars PROVE ClientTypes'
    BY <2>5 DEF clientVars, ClientTypes
  <2>6. ClientTypes'
    BY <2>2, <2>3, <2>4, <2>5 DEF ClientNext, allVars
  <2> QED
    BY <2>1, <2>6
<1>3. I => ClientTypeOK
  BY DEF ClientTypeOK, TypeInv, ClientTypes
<1> QED
  BY <1>1, <1>2, <1>3, PTL DEF ClientSpec

\* When boot exchanges do not overlap, no address has two live leases, although
\* handleRequest records the address of option 50 without asking who has it.
THEOREM LeasesStayUnique ==
  ASSUME NoOverlap
  PROVE  ClientSpec => []LeaseUnique
<1>1. ClientInv => LeaseUnique
  BY DEF ClientInv
<1> QED
  BY <1>1, ClientInvAlways, PTL

\* And the table knows of every address in use: a lost ACK, a RELEASE, an expiry or
\* a reload never leaves a client with an address allocate thinks is free.
THEOREM HeldStaysRecorded ==
  ASSUME NoOverlap
  PROVE  ClientSpec => []HeldRecorded
<1>1. ClientInv => HeldRecorded
  BY DEF ClientInv
<1> QED
  BY <1>1, ClientInvAlways, PTL

LEMMA LedgerStep ==
  ASSUME ClientInv, [ClientNext]_allVars
  PROVE  [Ledger!Next]_leases
<1>1. ASSUME NEW m \in Macs, leases' = [leases EXCEPT ![m] = NoIP] PROVE Ledger!Next
  BY <1>1 DEF Ledger!Next, Ledger!Drop
<1>2. CASE UNCHANGED leases
  BY <1>2
<1>3. ASSUME NEW h \in Handlers, RecordLease(h) PROVE Ledger!Next
  <2>1. /\ pc[h] = "record" /\ pkt[h].mac \in Macs /\ yi[h] \in Addr
        /\ leases' = [leases EXCEPT ![pkt[h].mac] = yi[h]]
    BY <1>3, PacketAtHand DEF RecordLease, ClientInv, TypeInv, TypeOK
  <2>2. Free(yi[h], pkt[h].mac)
    BY <2>1 DEF ClientInv, AllSure, Sure
  <2>3. Ledger!Grant(pkt[h].mac, yi[h])
    BY <2>1, <2>2 DEF Free, Ledger!Grant
  <2> QED
    BY <2>1, <2>3 DEF Ledger!Next
<1>4. ASSUME NEW h \in Handlers, Release(h) PROVE Ledger!Next
  <2>1. pkt[h].mac \in Macs /\ leases' = [leases EXCEPT ![pkt[h].mac] = NoIP]
    BY <1>4, PacketAtHand DEF Release, At, ClientInv
  <2> QED
    BY <1>1, <2>1
<1>5. ASSUME NEW h \in Handlers, Serve(h) PROVE [Ledger!Next]_leases
  BY <1>3, <1>4, <1>5
  DEF Serve, Match, TryCandidate, Unmatched, Matched, Discover, RequestUnmatched, RequestForOther, RequestChosen
<1>6. ASSUME NEW h \in Handlers, Deliver(h) \/ \E p \in Packets : SendPacket(h, p)
      PROVE  UNCHANGED leases
  BY <1>6 DEF Deliver, Send, SendPacket, Receive
<1>7. ASSUME NEW m \in Macs, GiveUp(m) \/ ClientExpire(m) PROVE [Ledger!Next]_leases
  BY <1>1, <1>7 DEF GiveUp, vars, ClientExpire, Expire
<1>8. ASSUME (\E c \in Configs : Reload(c)) \/ AppendPool \/ FinishBuild \/ StopConn
      PROVE  UNCHANGED leases
  BY <1>8 DEF Reload, AppendPool, FinishBuild, StopConn
<1>9. CASE UNCHANGED allVars
  BY <1>9 DEF allVars, vars
<1> QED
  BY <1>5, <1>6, <1>7, <1>8, <1>9 DEF ClientNext

\* The service with its clients implements the ledger: the only steps on the table
\* are granting an address nobody owns and taking one back.
THEOREM LedgerImplemented ==
  ASSUME NoOverlap
  PROVE  ClientSpec => ImplementsLedger
<1>1. ClientInit => Ledger!Init
  BY DEF ClientInit, Init, NoLeases, Ledger!Init
<1>2. ClientInv /\ [ClientNext]_allVars => [Ledger!Next]_leases
  BY LedgerStep
<1> QED
  BY <1>1, <1>2, ClientInvAlways, PTL DEF ClientSpec, ImplementsLedger, Ledger!Spec

===============================================================================
