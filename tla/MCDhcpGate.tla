------------------------------- MODULE MCDhcpGate -------------------------------
(***************************************************************************)
(* The packet goroutines of DHCP and the HTTP goroutines at the limiter.    *)
(* They share no state, so a property of one is decided by its own steps:   *)
(* each behaviour here takes the steps of the part chosen at first. The     *)
(* limiter has two clients and the two limited groups of routes, one of     *)
(* which allows more than the other (server.go:54 and :58).                 *)
(***************************************************************************)
EXTENDS MCDhcpServer, Gate

CONSTANTS g1, g2, c1, c2, pxe, api

MCRate == [r \in Routes |-> IF r = pxe THEN 1 ELSE 2]

\* The goroutines of both parts are exchanged at once: only one part takes steps.
MCSymmetry ==
    {x \in {f @@ g @@ c : f \in Symmetry, g \in Permutations({g1, g2}),
                          c \in Permutations({c1, c2})} :
        (x[h1] = h1) = (x[g1] = g1)}

VARIABLE part

\* The part that takes no step has one initial state.
MCInit ==
    /\ Init /\ GateInit
    /\ \/ part = "dhcp"
       \/ part = "gate" /\ pending = <<Blank, Moved>>

\* The bounded limiter stops after its last request; DHCP never may.
GateDone == part = "gate" /\ Len(log) = MaxVisits /\ UNCHANGED <<vars, gateVars, part>>

MCNext ==
    \/ part = "dhcp" /\ Next /\ UNCHANGED <<gateVars, part>>
    \/ part = "gate" /\ GateNext /\ UNCHANGED <<vars, part>>
    \/ GateDone

MCSpec == MCInit /\ [][MCNext]_<<vars, gateVars, part>>

================================================================================
