------------------------------- MODULE MCProgress -------------------------------
(***************************************************************************)
(* What must eventually happen: DatabaseStart, ConfigReload and the         *)
(* requests of HostStore, under their fairness. They share no state as they *)
(* are modelled: each behaviour here takes the steps of the part chosen at  *)
(* first.                                                                   *)
(***************************************************************************)
EXTENDS DatabaseStart, MCConfigReload, HostStore

CONSTANTS c1, c2, k1, k2, o1, o2, r1, r2, a1, p1

VARIABLE part

\* The parts that take no step have one initial state.
MCInit ==
    /\ Init /\ ReloadInit /\ HostInit
    /\ part \in {"start", "reload", "hosts"}
    /\ part # "start" => tables = 0
    /\ part # "reload" => table = "rows"

Starts == part = "start" /\ Next /\ UNCHANGED <<reloadVars, hostVars, part>>
Reloads == part = "reload" /\ ReloadNext /\ UNCHANGED <<vars, hostVars, part>>
Serves == part = "hosts" /\ HostNext /\ UNCHANGED <<vars, reloadVars, part>>

MCNext == Starts \/ Reloads \/ Serves

\* The fairness of each part, in the behaviours that take its steps.
MCSpec ==
    /\ MCInit /\ [][MCNext]_<<vars, reloadVars, hostVars, part>>
    /\ WF_vars(part = "start" /\ dbInit)
    /\ \A a \in Admins : WF_reloadVars(part = "reload" /\ Handle(a))
    /\ \A s \in Polled : WF_reloadVars(part = "reload" /\ Poll(s))
    /\ WF_reloadVars(part = "reload" /\ Apply)
    /\ \A r \in HostRequests : WF_hostVars(part = "hosts" /\ HostStep(r))

================================================================================
