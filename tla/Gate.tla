---------------------------------- MODULE Gate ----------------------------------
(***************************************************************************)
(* The rate limiter of middleware.go: one table of visits per client        *)
(* address, shared by all limited routes whatever their rates. A request    *)
(* reads the clock before it takes the lock, so it may count with a time    *)
(* that others have overtaken.                                              *)
(***************************************************************************)
EXTENDS Integers, Sequences, FiniteSets

CONSTANTS
    GateRequests,   \* requests that can be between clock and lock at once
    Clients,        \* client addresses
    Routes,         \* limited groups of routes
    Rate,           \* requests each lets a client make in a window
    Window,         \* the window, which they all have (in ticks)
    Delay,          \* ticks from reading the clock to holding the lock (a bound)
    MaxTime,        \* ticks (a bound)
    MaxVisits       \* requests (a bound)

ASSUME RateAssumption == Rate \in [Routes -> Nat \ {0}]
ASSUME TimeAssumption == Delay \in Nat /\ Window \in Nat /\ Delay < Window
ASSUME BoundAssumption == MaxTime \in Nat

VARIABLES
    clock,
    visits,     \* client -> its entry or NoVisit
    cleanAt,    \* when the table is cleaned next
    stamp,      \* request -> the time it has read, or NoStamp
    log         \* history: client, route, time and outcome of each request

gateVars == <<clock, visits, cleanAt, stamp, log>>

Times == 0..MaxTime
NoVisit == [count |-> 0, first |-> 0]    \* count is at least 1 in an entry
NoStamp == -1

GateTypeOK ==
    /\ clock \in Times
    /\ \A c \in Clients :
          /\ visits[c].count \in 0..Len(log) /\ visits[c].first \in 0..clock
    /\ cleanAt \in -1..MaxTime + Window
    /\ stamp \in [GateRequests -> NoStamp..clock]
    /\ log \in Seq([client : Clients, route : Routes, at : Times, ok : BOOLEAN])

Tick ==
    /\ clock < MaxTime
    /\ \A g \in GateRequests : stamp[g] # NoStamp => clock - stamp[g] < Delay
    /\ clock' = clock + 1
    /\ UNCHANGED <<visits, cleanAt, stamp, log>>

\* now := time.Now(); who asks, and for which route, shows at the lock.
Stamp(g) ==
    /\ stamp[g] = NoStamp
    /\ stamp' = [stamp EXCEPT ![g] = clock]
    /\ UNCHANGED <<clock, visits, cleanAt, log>>

Expired(v, now) == now - v.first > Window

\* Entries whose window has passed go, of all clients, once a window.
Cleaned(now) ==
    IF now > cleanAt
    THEN [c \in Clients |-> IF Expired(visits[c], now) THEN NoVisit ELSE visits[c]]
    ELSE visits

\* Mutant: the count is not reset.
countedOn(v, now) ==
    IF v.count = 0 THEN [count |-> 1, first |-> now]
    ELSE IF Expired(v, now) THEN [count |-> v.count + 1, first |-> now]
    ELSE [v EXCEPT !.count = @ + 1]

\* Mutant: the entry holds the end of the window.
countedUntil(v, now) ==
    IF v.count = 0 \/ Expired(v, now)
    THEN [count |-> 1, first |-> now + Window]
    ELSE [v EXCEPT !.count = @ + 1]

\* A new entry, a new window or one request more, refused ones included.
counted(v, now) ==
    IF v.count = 0 \/ Expired(v, now)
    THEN [count |-> 1, first |-> now]
    ELSE [v EXCEPT !.count = @ + 1]

\* Mutant: the request itself is not counted.
AllowedBefore(v, r) == v.count - 1 <= Rate[r]

\* over := v.count > rate
Allowed(v, r) == v.count <= Rate[r]

RateLimit(g, c, r) ==
    /\ stamp[g] # NoStamp
    /\ Len(log) < MaxVisits
    /\ LET now == stamp[g]
           v == counted(Cleaned(now)[c], now)
       IN  /\ visits' = [Cleaned(now) EXCEPT ![c] = v]
           /\ cleanAt' = IF now > cleanAt THEN now + Window ELSE cleanAt
           /\ log' = Append(log, [client |-> c, route |-> r, at |-> clock, ok |-> Allowed(v, r)])
    /\ stamp' = [stamp EXCEPT ![g] = NoStamp]
    /\ UNCHANGED clock

GateInit ==
    /\ clock = 0
    /\ visits = [c \in Clients |-> NoVisit]
    /\ cleanAt = -1
    /\ stamp = [g \in GateRequests |-> NoStamp]
    /\ log = <<>>

GateNext ==
    \/ Tick
    \/ \E g \in GateRequests :
          \/ Stamp(g)
          \/ \E c \in Clients, r \in Routes : RateLimit(g, c, r)

GateSpec == GateInit /\ [][GateNext]_gateVars

(***************************************************************************)
(* Properties.                                                              *)
(***************************************************************************)
Of(k, e) == log[k].client = e.client /\ log[k].route = e.route

\* However requests overtake one another and whoever cleans the table, a client
\* gets at most twice the rate of a route through in any span as long as the
\* window, less the delay of a stamp.
RateKept ==
    \A i, j \in DOMAIN log :
        log[j].at - log[i].at \in 0..Window - Delay =>
            Cardinality({k \in i..j : Of(k, log[i]) /\ log[k].ok}) <= 2 * Rate[log[i].route]

\* A client is refused only after as many requests as the route allows, to it or
\* to others, within the last window and delay: what it did long ago, refused
\* requests included, never shuts it out.
RefusedBusy ==
    \A j \in DOMAIN log : ~log[j].ok =>
        Cardinality({k \in 1..j : /\ log[k].client = log[j].client
                                 /\ log[j].at - log[k].at <= Window + Delay}) > Rate[log[j].route]

================================================================================
