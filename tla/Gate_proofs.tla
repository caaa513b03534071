------------------------------ MODULE Gate_proofs -------------------------------
(***************************************************************************)
(* Theorems about Gate, for any clients, routes, rates, window, delay and   *)
(* number of requests that overtake one another.                            *)
(***************************************************************************)
EXTENDS Gate, FiniteSetTheorems, SequenceTheorems, TLAPS

Entry == [client : Clients, route : Routes, at : Times, ok : BOOLEAN]

\* The requests of a client from place lo of the log to place hi, and those of
\* them for a route that were let through.
Asked(l, c, lo, hi) == {k \in lo..hi : l[k].client = c}
Passed(l, c, r, lo, hi) == {k \in lo..hi : l[k].client = c /\ l[k].route = r /\ l[k].ok}

\* Of the places up to hi that lie within Window - Delay of the time t, none
\* starts a span in which the client got more than a rate through.
Quiet(l, c, t, hi) ==
    \A i \in 1..hi : t - l[i].at <= Window - Delay =>
        \A r \in Routes : Cardinality(Passed(l, c, r, i, hi)) <= Rate[r]

\* The entry v of client c was opened by the request at place b of the log.
Opened(l, c, v, b) ==
    /\ l[b].client = c
    /\ l[b].at - Delay <= v.first /\ v.first <= l[b].at
    /\ v.count = Cardinality(Asked(l, c, b, Len(l)))
    /\ \A r \in Routes : Cardinality(Passed(l, c, r, b, Len(l))) <= Rate[r]
    /\ Quiet(l, c, l[b].at, b - 1)

\* What the table knows of a client: nothing, and then it has been quiet lately,
\* or the requests since some place of the log.
Remembered(l, c, v, t) ==
    \/ v.count = 0 /\ Quiet(l, c, t, Len(l))
    \/ v.count > 0 /\ \E b \in DOMAIN l : Opened(l, c, v, b)

Ordered(l, t) ==
    /\ \A i, j \in DOMAIN l : i <= j => l[i].at <= l[j].at
    /\ \A i \in DOMAIN l : l[i].at <= t

StampsFresh == \A g \in GateRequests : stamp[g] # NoStamp => clock - stamp[g] <= Delay

GateInv ==
    /\ GateTypeOK
    /\ visits \in [Clients -> [count : Nat, first : Nat]]
    /\ StampsFresh
    /\ Ordered(log, clock)
    /\ \A c \in Clients : Remembered(log, c, visits[c], clock)

(***************************************************************************)
(* Counting in the log.                                                     *)
(***************************************************************************)
\* What is counted between two places of the log is finite.
LEMMA Countable ==
  ASSUME NEW l, NEW c, NEW lo \in Int, NEW hi \in Int
  PROVE  /\ IsFiniteSet(Asked(l, c, lo, hi)) /\ Cardinality(Asked(l, c, lo, hi)) \in Nat
         /\ \A r : /\ IsFiniteSet(Passed(l, c, r, lo, hi))
                   /\ Cardinality(Passed(l, c, r, lo, hi)) \in Nat
<1>1. IsFiniteSet(lo..hi)
  BY FS_Interval
<1>2. Asked(l, c, lo, hi) \in SUBSET (lo..hi)
  BY DEF Asked
<1>3. IsFiniteSet(Asked(l, c, lo, hi))
  BY <1>1, <1>2, FS_Subset
<1>4. ASSUME NEW r
      PROVE  /\ IsFiniteSet(Passed(l, c, r, lo, hi))
             /\ Cardinality(Passed(l, c, r, lo, hi)) \in Nat
  <2>1. Passed(l, c, r, lo, hi) \in SUBSET (lo..hi)
    BY DEF Passed
  <2>2. IsFiniteSet(Passed(l, c, r, lo, hi))
    BY <1>1, <2>1, FS_Subset
  <2> QED
    BY <2>2, FS_CardinalityType
<1> QED
  BY <1>3, <1>4, FS_CardinalityType

\* A part of a finite set has no more members.
LEMMA Fewer ==
  ASSUME NEW S, NEW T, IsFiniteSet(T), S \subseteq T
  PROVE  /\ IsFiniteSet(S) /\ Cardinality(S) \in Nat /\ Cardinality(T) \in Nat
         /\ Cardinality(S) <= Cardinality(T)
<1>1. S \in SUBSET T
  OBVIOUS
<1>2. IsFiniteSet(S) /\ Cardinality(S) <= Cardinality(T)
  BY <1>1, FS_Subset
<1> QED
  BY <1>2, FS_CardinalityType

\* A set that two others cover has at most as many members as they together.
LEMMA Covered ==
  ASSUME NEW S, NEW T, NEW U, IsFiniteSet(S), IsFiniteSet(T), U \subseteq S \cup T
  PROVE  /\ Cardinality(U) \in Nat
         /\ Cardinality(U) <= Cardinality(S) + Cardinality(T)
<1>1. /\ IsFiniteSet(S \cup T)
      /\ Cardinality(S \cup T) = Cardinality(S) + Cardinality(T) - Cardinality(S \cap T)
  BY FS_Union
<1>2. S \cap T \subseteq S
  OBVIOUS
<1>3. Cardinality(S \cap T) \in Nat
  BY <1>2, Fewer
<1>4. Cardinality(S) \in Nat /\ Cardinality(T) \in Nat
  BY FS_CardinalityType
<1>5. Cardinality(U) \in Nat /\ Cardinality(U) <= Cardinality(S \cup T)
  BY <1>1, Fewer
<1> QED
  BY <1>1, <1>3, <1>4, <1>5

\* A request appended to the log leaves the places before it as they are.
LEMMA AppendKeeps ==
  ASSUME NEW l \in Seq(Entry), NEW e \in Entry
  PROVE  /\ Append(l, e) \in Seq(Entry)
         /\ Len(l) \in Nat /\ Len(Append(l, e)) = Len(l) + 1
         /\ DOMAIN l = 1..Len(l) /\ DOMAIN Append(l, e) = 1..Len(l) + 1
         /\ \A i \in 1..Len(l) : Append(l, e)[i] = l[i]
         /\ Append(l, e)[Len(l) + 1] = e
  BY AppendProperties, LenProperties

\* What a log holds.
LEMMA Logged ==
  ASSUME NEW l \in Seq(Entry)
  PROVE  /\ Len(l) \in Nat /\ DOMAIN l = 1..Len(l)
         /\ \A i \in 1..Len(l) : l[i] \in Entry /\ l[i].at \in Nat
<1>1. Len(l) \in Nat /\ DOMAIN l = 1..Len(l)
  BY LenProperties
<1>2. \A i \in 1..Len(l) : l[i] \in Entry
  BY ElementOfSeq
<1>3. \A e \in Entry : e.at \in Nat
  BY BoundAssumption DEF Entry, Times
<1> QED
  BY <1>1, <1>2, <1>3

\* Spans that end before the request that is appended count the same.
LEMMA SpanKept ==
  ASSUME NEW l \in Seq(Entry), NEW e \in Entry, NEW c,
         NEW lo \in Nat \ {0}, NEW hi \in Int, hi <= Len(l)
  PROVE  /\ Asked(Append(l, e), c, lo, hi) = Asked(l, c, lo, hi)
         /\ \A r : Passed(Append(l, e), c, r, lo, hi) = Passed(l, c, r, lo, hi)
<1>1. \A k \in lo..hi : Append(l, e)[k] = l[k]
  BY AppendKeeps
<1> QED
  BY <1>1 DEF Asked, Passed

\* A request of another client changes no count.
LEMMA SpanOther ==
  ASSUME NEW l \in Seq(Entry), NEW e \in Entry, NEW c, e.client # c,
         NEW lo \in Nat \ {0}
  PROVE  /\ Asked(Append(l, e), c, lo, Len(l) + 1) = Asked(l, c, lo, Len(l))
         /\ \A r : Passed(Append(l, e), c, r, lo, Len(l) + 1) = Passed(l, c, r, lo, Len(l))
<1>1. Len(l) \in Nat
  BY AppendKeeps
<1>2. \A k \in lo..Len(l) : Append(l, e)[k] = l[k]
  BY <1>1, AppendKeeps
<1>3. Append(l, e)[Len(l) + 1] = e
  BY AppendKeeps
<1>4. \A k \in lo..Len(l) + 1 : k \in lo..Len(l) \/ k = Len(l) + 1
  BY <1>1
<1>5. \A k \in lo..Len(l) : k \in lo..Len(l) + 1
  BY <1>1
<1>6. Asked(Append(l, e), c, lo, Len(l) + 1) = Asked(l, c, lo, Len(l))
  BY <1>2, <1>3, <1>4, <1>5 DEF Asked
<1> QED
  BY <1>2, <1>3, <1>4, <1>5, <1>6 DEF Passed

\* A request of the client itself is one more asked, and at most one more let
\* through, of its route and when it was.
LEMMA SpanOwn ==
  ASSUME NEW l \in Seq(Entry), NEW e \in Entry,
         NEW lo \in Nat \ {0}, lo <= Len(l) + 1
  PROVE  /\ Cardinality(Asked(Append(l, e), e.client, lo, Len(l) + 1))
                = Cardinality(Asked(l, e.client, lo, Len(l))) + 1
         /\ \A r : Passed(Append(l, e), e.client, r, lo, Len(l) + 1)
                      = IF e.route = r /\ e.ok
                        THEN Passed(l, e.client, r, lo, Len(l)) \cup {Len(l) + 1}
                        ELSE Passed(l, e.client, r, lo, Len(l))
<1>1. Len(l) \in Nat
  BY AppendKeeps
<1>2. \A k \in lo..Len(l) : Append(l, e)[k] = l[k]
  BY <1>1, AppendKeeps
<1>3. Append(l, e)[Len(l) + 1] = e
  BY AppendKeeps
<1>4. \A k : k \in lo..Len(l) + 1 <=> k \in lo..Len(l) \/ k = Len(l) + 1
  BY <1>1
<1>5. Asked(Append(l, e), e.client, lo, Len(l) + 1)
         = Asked(l, e.client, lo, Len(l)) \cup {Len(l) + 1}
  BY <1>2, <1>3, <1>4 DEF Asked
<1>6. ~(Len(l) + 1 \in Asked(l, e.client, lo, Len(l)))
  BY <1>1 DEF Asked
<1>7. Cardinality(Asked(l, e.client, lo, Len(l)) \cup {Len(l) + 1})
         = Cardinality(Asked(l, e.client, lo, Len(l))) + 1
  <2>1. IsFiniteSet(Asked(l, e.client, lo, Len(l)))
    BY <1>1, Countable
  <2> QED
    BY <1>6, <2>1, FS_AddElement
<1>8. \A r : Passed(Append(l, e), e.client, r, lo, Len(l) + 1)
                = IF e.route = r /\ e.ok
                  THEN Passed(l, e.client, r, lo, Len(l)) \cup {Len(l) + 1}
                  ELSE Passed(l, e.client, r, lo, Len(l))
  BY <1>2, <1>3, <1>4 DEF Passed
<1> QED
  BY <1>5, <1>7, <1>8

(***************************************************************************)
(* What the table remembers of a client.                                    *)
(***************************************************************************)
\* A quiet span stays quiet as time passes.
LEMMA QuietLater ==
  ASSUME NEW l \in Seq(Entry), NEW c, NEW t \in Int, NEW u \in Int, t <= u,
         NEW hi \in Int, hi <= Len(l), Quiet(l, c, t, hi)
  PROVE  Quiet(l, c, u, hi)
<1>1. \A i \in 1..hi : i \in 1..Len(l) /\ l[i].at \in Nat
  BY Logged
<1> QED
  BY <1>1, TimeAssumption DEF Quiet

\* A quiet span stays quiet when a request is appended.
LEMMA QuietStays ==
  ASSUME NEW l \in Seq(Entry), NEW e \in Entry, NEW c, NEW t \in Int,
         NEW hi \in Int, hi <= Len(l), Quiet(l, c, t, hi)
  PROVE  Quiet(Append(l, e), c, t, hi)
<1>1. \A i \in 1..hi : i \in 1..Len(l)
  BY Logged
<1>2. \A i \in 1..hi : /\ Append(l, e)[i] = l[i]
                       /\ \A r : Passed(Append(l, e), c, r, i, hi) = Passed(l, c, r, i, hi)
  BY <1>1, AppendKeeps, SpanKept
<1> QED
  BY <1>2 DEF Quiet

\* A request of another client leaves a client quiet.
LEMMA QuietOther ==
  ASSUME NEW l \in Seq(Entry), NEW e \in Entry, NEW c, e.client # c, NEW t \in Int,
         Quiet(l, c, t, Len(l))
  PROVE  Quiet(Append(l, e), c, t, Len(l) + 1)
<1>1. Len(l) \in Nat
  BY AppendKeeps
<1>2. SUFFICES ASSUME NEW i \in 1..Len(l) + 1, t - Append(l, e)[i].at <= Window - Delay,
                      NEW r \in Routes
               PROVE  Cardinality(Passed(Append(l, e), c, r, i, Len(l) + 1)) <= Rate[r]
  BY DEF Quiet
<1>3. Passed(Append(l, e), c, r, i, Len(l) + 1) = Passed(l, c, r, i, Len(l))
  BY <1>1, SpanOther
<1>4. CASE i = Len(l) + 1
  <2>1. Passed(l, c, r, i, Len(l)) = {}
    BY <1>1, <1>4 DEF Passed
  <2>2. Cardinality({}) = 0
    BY FS_EmptySet
  <2>3. Cardinality(Passed(Append(l, e), c, r, i, Len(l) + 1)) = 0
    BY <1>3, <2>1, <2>2, Zenon
  <2>4. Rate[r] \in Nat
    BY RateAssumption
  <2> QED
    BY <2>3, <2>4
<1>5. CASE i \in 1..Len(l)
  <2>1. Append(l, e)[i] = l[i]
    BY <1>5, AppendKeeps
  <2> QED
    BY <1>2, <1>3, <1>5, <2>1 DEF Quiet
<1> QED
  BY <1>1, <1>4, <1>5

\* When the entry of a client has expired for a request, its first request is
\* further back than Window - Delay, and no span that starts later has more than
\* a rate.
LEMMA ExpiredIsQuiet ==
  ASSUME NEW l \in Seq(Entry), NEW c, NEW v \in [count : Nat, first : Nat],
         NEW t \in Int, NEW now \in Int, now <= t, t - now <= Delay,
         Ordered(l, t), NEW b \in DOMAIN l, Opened(l, c, v, b), Expired(v, now)
  PROVE  Quiet(l, c, t, Len(l))
<1>1. DOMAIN l = 1..Len(l) /\ Len(l) \in Nat /\ \A i \in 1..Len(l) : l[i].at \in Nat
  BY Logged
<1>2. SUFFICES ASSUME NEW i \in 1..Len(l), t - l[i].at <= Window - Delay, NEW r \in Routes
               PROVE  Cardinality(Passed(l, c, r, i, Len(l))) <= Rate[r]
  BY DEF Quiet
<1>3. v.first \in Int /\ now - v.first > Window /\ l[b].at - Delay <= v.first
  BY DEF Expired, Opened
<1>4. l[i].at > l[b].at
  <2>1. l[i].at \in Int /\ l[b].at \in Int
    BY <1>1
  <2>2. Delay \in Int /\ Window \in Int
    BY TimeAssumption
  <2>3. t - now <= Delay /\ t - l[i].at <= Window - Delay
    BY <1>2
  <2> QED
    BY <1>3, <2>1, <2>2, <2>3
<1>5. b < i
  <2>1. b \in Int /\ i \in Int /\ i \in DOMAIN l
    BY <1>1
  <2>2. i <= b => l[i].at <= l[b].at
    BY <2>1 DEF Ordered
  <2>3. l[i].at \in Nat /\ l[b].at \in Nat
    BY <1>1
  <2>4. ~(i <= b)
    BY <1>4, <2>2, <2>3
  <2> QED
    BY <2>1, <2>4
<1>6. Passed(l, c, r, i, Len(l)) \subseteq Passed(l, c, r, b, Len(l))
  BY <1>1, <1>5 DEF Passed
<1>7. IsFiniteSet(Passed(l, c, r, b, Len(l)))
  <2>1. b \in Int /\ Len(l) \in Int
    BY <1>1
  <2> QED
    BY <2>1, Countable
<1>8. Cardinality(Passed(l, c, r, b, Len(l))) <= Rate[r]
  BY DEF Opened
<1> QED
  BY <1>6, <1>7, <1>8, Fewer, RateAssumption

\* Cleaning keeps what the table remembers.
LEMMA CleaningRemembers ==
  ASSUME NEW now \in Int, NEW c \in Clients, log \in Seq(Entry), clock \in Int,
         now <= clock, clock - now <= Delay, Ordered(log, clock),
         visits \in [Clients -> [count : Nat, first : Nat]],
         Remembered(log, c, visits[c], clock)
  PROVE  /\ Cleaned(now) \in [Clients -> [count : Nat, first : Nat]]
         /\ Remembered(log, c, Cleaned(now)[c], clock)
         /\ Cleaned(now)[c] \in {visits[c], NoVisit}
<1>1. Cleaned(now) \in [Clients -> [count : Nat, first : Nat]]
  BY DEF Cleaned, NoVisit
<1>2. Cleaned(now)[c] = visits[c] \/ (Cleaned(now)[c] = NoVisit /\ Expired(visits[c], now))
  BY DEF Cleaned
<1>3. CASE Cleaned(now)[c] = NoVisit /\ Expired(visits[c], now)
  <2>1. Quiet(log, c, clock, Len(log))
    BY <1>3, ExpiredIsQuiet DEF Remembered
  <2> QED
    BY <1>1, <1>3, <2>1 DEF Remembered, NoVisit
<1> QED
  BY <1>1, <1>2, <1>3

(***************************************************************************)
(* A request at the lock.                                                   *)
(***************************************************************************)
\* A request of another client leaves what is remembered of a client.
LEMMA OthersRemember ==
  ASSUME NEW l \in Seq(Entry), NEW e \in Entry, NEW c, e.client # c,
         NEW v \in [count : Nat, first : Nat], NEW t \in Int, Remembered(l, c, v, t)
  PROVE  Remembered(Append(l, e), c, v, t)
<1>1. Len(l) \in Nat /\ DOMAIN l = 1..Len(l) /\ \A i \in 1..Len(l) : l[i].at \in Nat
  BY Logged
<1>2. Len(Append(l, e)) = Len(l) + 1 /\ DOMAIN Append(l, e) = 1..Len(l) + 1
  BY AppendKeeps
<1>3. CASE v.count = 0
  BY <1>2, <1>3, QuietOther DEF Remembered
<1>4. CASE v.count > 0
  <2>1. PICK b \in DOMAIN l : Opened(l, c, v, b)
    BY <1>3, <1>4 DEF Remembered
  <2>2. b \in 1..Len(l) /\ b - 1 \in Int /\ b - 1 <= Len(l) /\ b \in Nat \ {0}
    BY <1>1
  <2>3. Append(l, e)[b] = l[b]
    BY <2>2, AppendKeeps
  <2>4. Quiet(Append(l, e), c, l[b].at, b - 1)
    BY <1>1, <2>1, <2>2, QuietStays DEF Opened
  <2>5. /\ Asked(Append(l, e), c, b, Len(l) + 1) = Asked(l, c, b, Len(l))
        /\ \A r : Passed(Append(l, e), c, r, b, Len(l) + 1) = Passed(l, c, r, b, Len(l))
    BY <2>2, SpanOther
  <2>6. Opened(Append(l, e), c, v, b)
    BY <1>2, <2>1, <2>3, <2>4, <2>5 DEF Opened
  <2>7. b \in DOMAIN Append(l, e)
    BY <1>1, <1>2, <2>2
  <2> QED
    BY <1>4, <2>6, <2>7 DEF Remembered
<1> QED
  BY <1>3, <1>4

\* A request that opens an entry starts where the client has been quiet.
LEMMA FirstOpens ==
  ASSUME NEW l \in Seq(Entry), NEW e \in Entry, NEW now \in Nat,
         now <= e.at, e.at - now <= Delay, Quiet(l, e.client, e.at, Len(l))
  PROVE  Opened(Append(l, e), e.client, [count |-> 1, first |-> now], Len(l) + 1)
<1> DEFINE L == Append(l, e)
           n == Len(l) + 1
<1>1. Len(l) \in Nat /\ n \in Nat \ {0} /\ n \in Int /\ Len(l) \in Int
  BY Logged
<1>2. Len(L) = n /\ L[n] = e
  BY AppendKeeps
<1>3. Asked(l, e.client, n, Len(l)) = {} /\ \A r : Passed(l, e.client, r, n, Len(l)) = {}
  BY <1>1 DEF Asked, Passed
<1>4. Cardinality({}) = 0
  BY FS_EmptySet
<1>5. Cardinality(Asked(L, e.client, n, n)) = 1
  <2>1. Cardinality(Asked(L, e.client, n, n)) = Cardinality(Asked(l, e.client, n, Len(l))) + 1
    BY <1>1, SpanOwn
  <2>2. Cardinality(Asked(l, e.client, n, Len(l))) = 0
    BY <1>3, <1>4, Zenon
  <2> QED
    BY <2>1, <2>2
<1>6. ASSUME NEW r \in Routes PROVE Cardinality(Passed(L, e.client, r, n, n)) <= Rate[r]
  <2>1. Passed(L, e.client, r, n, n) \subseteq {n}
    BY <1>1 DEF Passed
  <2>2. IsFiniteSet({n}) /\ Cardinality({n}) = 1
    BY FS_Singleton
  <2>3. Rate[r] \in Nat \ {0}
    BY RateAssumption
  <2> QED
    BY <2>1, <2>2, <2>3, Fewer
<1>7. e.at \in Nat
  BY BoundAssumption DEF Entry, Times
<1>8. Quiet(L, e.client, e.at, Len(l))
  BY <1>1, <1>7, QuietStays
<1>9. n - 1 = Len(l)
  BY <1>1
<1>10. e.at - Delay <= now
  BY <1>7, TimeAssumption
<1> HIDE DEF L, n
<1>11. L[n].client = e.client /\ L[n].at = e.at
  BY <1>2
<1>12. Quiet(L, e.client, L[n].at, n - 1)
  BY <1>8, <1>9, <1>11
<1>13. ASSUME NEW w, w.count = 1, w.first = now PROVE Opened(L, e.client, w, n)
  BY <1>2, <1>5, <1>6, <1>10, <1>11, <1>12, <1>13 DEF Opened
<1> QED
  BY <1>13 DEF L, n

\* A request that an entry counts is let through only within the rate.
LEMMA NextCounts ==
  ASSUME NEW l \in Seq(Entry), NEW e \in Entry, NEW v \in [count : Nat, first : Nat],
         NEW b \in DOMAIN l, Opened(l, e.client, v, b),
         e.ok <=> v.count + 1 <= Rate[e.route]
  PROVE  Opened(Append(l, e), e.client, [v EXCEPT !.count = @ + 1], b)
<1> DEFINE L == Append(l, e)
           n == Len(l) + 1
           w == [v EXCEPT !.count = @ + 1]
<1>1. /\ Len(l) \in Nat /\ DOMAIN l = 1..Len(l) /\ b \in Nat \ {0} /\ b <= Len(l) + 1
      /\ b \in Int /\ Len(l) \in Int /\ b - 1 \in Int /\ b - 1 <= Len(l) /\ n \in Int
      /\ l[b].at \in Nat
  BY Logged
<1>2. Len(L) = n /\ L[b] = l[b]
  BY <1>1, AppendKeeps
<1>3. w.count = v.count + 1 /\ w.first = v.first
  OBVIOUS
<1>4. v.count = Cardinality(Asked(l, e.client, b, Len(l)))
  BY DEF Opened
<1>5. w.count = Cardinality(Asked(L, e.client, b, n))
  BY <1>1, <1>3, <1>4, SpanOwn
<1>6. ASSUME NEW r \in Routes PROVE Cardinality(Passed(L, e.client, r, b, n)) <= Rate[r]
  <2>1. CASE e.route = r /\ e.ok
    <3>1. w.count <= Rate[r]
      BY <1>3, <2>1
    <3>2. Passed(L, e.client, r, b, n) \subseteq Asked(L, e.client, b, n)
      BY DEF Passed, Asked
    <3>3. IsFiniteSet(Asked(L, e.client, b, n))
      BY <1>1, Countable
    <3>4. Rate[r] \in Nat
      BY RateAssumption
    <3> QED
      BY <1>5, <3>1, <3>2, <3>3, <3>4, Fewer
  <2>2. CASE ~(e.route = r /\ e.ok)
    <3>1. Passed(L, e.client, r, b, n) = Passed(l, e.client, r, b, Len(l))
      BY <1>1, <2>2, SpanOwn
    <3>2. Cardinality(Passed(l, e.client, r, b, Len(l))) <= Rate[r]
      BY DEF Opened
    <3> QED
      BY <3>1, <3>2
  <2> QED
    BY <2>1, <2>2
<1>7. Quiet(L, e.client, l[b].at, b - 1)
  BY <1>1, QuietStays DEF Opened
<1>8. l[b].client = e.client /\ l[b].at - Delay <= v.first /\ v.first <= l[b].at
  BY DEF Opened
<1> HIDE DEF L, n, w
<1>9. Opened(L, e.client, w, b)
  BY <1>2, <1>3, <1>5, <1>6, <1>7, <1>8 DEF Opened
<1> QED
  BY <1>9 DEF L, w

(***************************************************************************)
(* The invariant.                                                           *)
(***************************************************************************)
\* What a request at the lock does: the time it counts with, the entry it leaves
\* and the line it adds to the log.
LEMMA AtTheLock ==
  ASSUME GateInv, NEW g \in GateRequests, NEW c \in Clients, NEW r \in Routes,
         RateLimit(g, c, r)
  PROVE  \E now \in Nat, v \in [count : Nat, first : Nat], e \in Entry :
            /\ now = stamp[g] /\ now <= clock /\ clock - now <= Delay
            /\ v = counted(Cleaned(now)[c], now)
            /\ e.client = c /\ e.route = r /\ e.at = clock /\ (e.ok <=> v.count <= Rate[r])
            /\ visits' = [Cleaned(now) EXCEPT ![c] = v]
            /\ log' = Append(log, e)
            /\ cleanAt' = IF now > cleanAt THEN now + Window ELSE cleanAt
            /\ stamp' = [stamp EXCEPT ![g] = NoStamp]
            /\ clock' = clock
<1>1. stamp[g] \in Nat /\ stamp[g] <= clock /\ clock - stamp[g] <= Delay
  BY BoundAssumption DEF GateInv, GateTypeOK, StampsFresh, RateLimit, NoStamp, Times
<1>2. PICK now \in Nat : now = stamp[g]
  BY <1>1
<1>3. Cleaned(now) \in [Clients -> [count : Nat, first : Nat]]
  BY DEF GateInv, Cleaned, NoVisit
<1>4. Cleaned(now)[c] \in [count : Nat, first : Nat]
  BY <1>3
<1>5. counted(Cleaned(now)[c], now) \in [count : Nat, first : Nat]
  BY <1>4 DEF counted
<1>6. PICK v \in [count : Nat, first : Nat] : v = counted(Cleaned(now)[c], now)
  BY <1>5
<1>7. clock \in Times
  BY DEF GateInv, GateTypeOK
<1>8. Allowed(v, r) \in BOOLEAN
  BY DEF Allowed
<1>9. [client |-> c, route |-> r, at |-> clock, ok |-> Allowed(v, r)] \in Entry
  BY <1>7, <1>8 DEF Entry
<1>10. PICK e \in Entry : e = [client |-> c, route |-> r, at |-> clock, ok |-> Allowed(v, r)]
  BY <1>9
<1>11. e.client = c /\ e.route = r /\ e.at = clock /\ (e.ok <=> v.count <= Rate[r])
  BY <1>10, Zenon DEF Allowed
<1>12. /\ visits' = [Cleaned(now) EXCEPT ![c] = v]
       /\ log' = Append(log, e)
       /\ cleanAt' = IF now > cleanAt THEN now + Window ELSE cleanAt
       /\ stamp' = [stamp EXCEPT ![g] = NoStamp]
       /\ clock' = clock
  BY <1>2, <1>6, <1>10, Zenon DEF RateLimit
<1> QED
  BY <1>1, <1>2, <1>6, <1>11, <1>12

\* The initial states satisfy the invariant.
LEMMA GateInit_Inv == GateInit => GateInv
<1> SUFFICES ASSUME GateInit PROVE GateInv
  OBVIOUS
<1>1. log = <<>> /\ Len(log) = 0 /\ DOMAIN log = {} /\ log \in Seq(Entry)
  BY EmptySeq DEF GateInit
<1>2. clock = 0 /\ clock \in Times
  BY BoundAssumption DEF GateInit, Times
<1>3. visits \in [Clients -> [count : Nat, first : Nat]]
  BY DEF GateInit, NoVisit
<1>4. \A c \in Clients : visits[c].count = 0 /\ visits[c].first = 0
  BY DEF GateInit, NoVisit
<1>5. GateTypeOK
  BY <1>1, <1>2, <1>4, BoundAssumption, TimeAssumption DEF GateInit, GateTypeOK, NoStamp, Entry
<1>6. StampsFresh
  BY DEF GateInit, StampsFresh
<1>7. Ordered(log, clock)
  BY <1>1 DEF Ordered
<1>8. \A c \in Clients : Remembered(log, c, visits[c], clock)
  BY <1>1, <1>4 DEF Remembered, Quiet
<1> QED
  BY <1>3, <1>5, <1>6, <1>7, <1>8 DEF GateInv

\* As time passes the table remembers as much.
LEMMA TickKeeps == GateInv /\ Tick => GateInv'
<1> SUFFICES ASSUME GateInv, Tick PROVE GateInv'
  OBVIOUS
<1>1. /\ clock' = clock + 1 /\ clock \in Nat /\ clock' \in Times /\ clock' \in Nat
      /\ visits' = visits /\ cleanAt' = cleanAt /\ stamp' = stamp /\ log' = log
  BY BoundAssumption DEF GateInv, GateTypeOK, Tick, Times
<1>2. log \in Seq(Entry)
  BY DEF GateInv, GateTypeOK, Entry
<1>3. GateTypeOK'
  BY <1>1 DEF GateInv, GateTypeOK
<1>4. StampsFresh'
  <2>1. \A g \in GateRequests : stamp[g] \in Int
    BY <1>1 DEF GateInv, GateTypeOK, NoStamp
  <2> QED
    BY <1>1, <2>1, TimeAssumption DEF GateInv, StampsFresh, Tick
<1>5. Ordered(log, clock')
  BY <1>1, <1>2, Logged DEF GateInv, Ordered
<1>6. ASSUME NEW c \in Clients PROVE Remembered(log, c, visits[c], clock')
  <2>1. Len(log) \in Int
    BY <1>2, Logged
  <2>2. Quiet(log, c, clock, Len(log)) => Quiet(log, c, clock', Len(log))
    BY <1>1, <1>2, <2>1, QuietLater
  <2> QED
    BY <2>2 DEF GateInv, Remembered
<1> QED
  BY <1>1, <1>3, <1>4, <1>5, <1>6 DEF GateInv

\* Reading the clock changes nothing the table remembers.
LEMMA StampKeeps == ASSUME GateInv, NEW g \in GateRequests, Stamp(g) PROVE GateInv'
<1>1. /\ clock' = clock /\ visits' = visits /\ cleanAt' = cleanAt /\ log' = log
      /\ stamp' = [stamp EXCEPT ![g] = clock]
  BY DEF Stamp
<1>2. clock \in Nat
  BY BoundAssumption DEF GateInv, GateTypeOK, Times
<1>3. GateTypeOK'
  BY <1>1, <1>2 DEF GateInv, GateTypeOK, NoStamp
<1>4. StampsFresh'
  BY <1>1, <1>2, TimeAssumption DEF GateInv, GateTypeOK, StampsFresh
<1> QED
  BY <1>1, <1>3, <1>4 DEF GateInv

\* After a request at the lock its client's entry counts from some request on.
LEMMA AskerRemembered ==
  ASSUME GateInv, NEW now \in Nat, now <= clock, clock - now <= Delay, NEW e \in Entry,
         e.at = clock, NEW v \in [count : Nat, first : Nat],
         v = counted(Cleaned(now)[e.client], now), e.ok <=> v.count <= Rate[e.route]
  PROVE  /\ v.count > 0
         /\ now - v.first <= Window
         /\ \E b \in 1..Len(log) + 1 : Opened(Append(log, e), e.client, v, b)
<1> DEFINE c == e.client
<1>1. c \in Clients /\ log \in Seq(Entry) /\ clock \in Int /\ now \in Int
  BY BoundAssumption DEF Entry, GateInv, GateTypeOK, Times
<1>2. Len(log) \in Nat /\ DOMAIN log = 1..Len(log)
  BY <1>1, Logged
<1>3. /\ Cleaned(now)[c] \in [count : Nat, first : Nat]
      /\ Remembered(log, c, Cleaned(now)[c], clock)
  BY <1>1, CleaningRemembers DEF GateInv
<1>4. PICK w \in [count : Nat, first : Nat] : w = Cleaned(now)[c]
  BY <1>3
<1>5. Remembered(log, c, w, clock) /\ v = counted(w, now)
  BY <1>3, <1>4
<1>6. CASE w.count = 0 \/ Expired(w, now)
  <2>1. Quiet(log, c, clock, Len(log))
    <3>1. CASE w.count = 0
      BY <1>5, <3>1 DEF Remembered
    <3>2. CASE Expired(w, now) /\ w.count > 0
      <4>1. PICK b \in DOMAIN log : Opened(log, c, w, b)
        BY <1>5, <3>2 DEF Remembered
      <4>2. Ordered(log, clock)
        BY DEF GateInv
      <4> QED
        BY <1>1, <3>2, <4>1, <4>2, ExpiredIsQuiet
    <3> QED
      BY <1>6, <3>1, <3>2
  <2>2. v = [count |-> 1, first |-> now]
    BY <1>5, <1>6 DEF counted
  <2>3. Opened(Append(log, e), c, v, Len(log) + 1)
    BY <1>1, <2>1, <2>2, FirstOpens
  <2> QED
    BY <1>2, <2>2, <2>3, TimeAssumption
<1>7. CASE ~(w.count = 0 \/ Expired(w, now))
  <2>1. PICK b \in DOMAIN log : Opened(log, c, w, b)
    BY <1>5, <1>7 DEF Remembered
  <2>2. v = [w EXCEPT !.count = @ + 1] /\ v.count = w.count + 1 /\ v.first = w.first
    BY <1>5, <1>7 DEF counted
  <2>3. e.ok <=> w.count + 1 <= Rate[e.route]
    BY <2>2
  <2>4. Opened(Append(log, e), c, v, b)
    BY <1>1, <2>1, <2>2, <2>3, NextCounts
  <2>5. now - v.first <= Window
    BY <1>7, <2>2, TimeAssumption DEF Expired
  <2>6. b \in 1..Len(log) + 1
    BY <1>2
  <2> QED
    BY <2>2, <2>4, <2>5, <2>6
<1> QED
  BY <1>6, <1>7

\* A request at the lock keeps the table in step with the log.
LEMMA RateLimitKeeps ==
  ASSUME GateInv, NEW g \in GateRequests, NEW d \in Clients, NEW r \in Routes,
         RateLimit(g, d, r)
  PROVE  GateInv'
<1>1. PICK now \in Nat, v \in [count : Nat, first : Nat], e \in Entry :
            /\ now = stamp[g] /\ now <= clock /\ clock - now <= Delay
            /\ v = counted(Cleaned(now)[d], now)
            /\ e.client = d /\ e.route = r /\ e.at = clock /\ (e.ok <=> v.count <= Rate[r])
            /\ visits' = [Cleaned(now) EXCEPT ![d] = v]
            /\ log' = Append(log, e)
            /\ cleanAt' = IF now > cleanAt THEN now + Window ELSE cleanAt
            /\ stamp' = [stamp EXCEPT ![g] = NoStamp]
            /\ clock' = clock
  BY AtTheLock
<1>2. /\ log \in Seq(Entry) /\ clock \in Nat /\ clock <= MaxTime /\ now \in Int
      /\ visits \in [Clients -> [count : Nat, first : Nat]]
  BY BoundAssumption DEF Entry, GateInv, GateTypeOK, Times
<1>3. /\ Len(log) \in Nat /\ DOMAIN log = 1..Len(log)
      /\ \A i \in 1..Len(log) : log[i] \in Entry /\ log[i].at \in Nat
  BY <1>2, Logged
<1>4. /\ log' \in Seq(Entry) /\ Len(log') = Len(log) + 1 /\ DOMAIN log' = 1..Len(log) + 1
      /\ \A i \in 1..Len(log) : log'[i] = log[i]
      /\ log'[Len(log) + 1] = e
  BY <1>1, <1>2, AppendKeeps
<1>5. /\ Cleaned(now) \in [Clients -> [count : Nat, first : Nat]]
      /\ \A c \in Clients : /\ Remembered(log, c, Cleaned(now)[c], clock)
                            /\ Cleaned(now)[c] \in {visits[c], NoVisit}
  <2>1. Cleaned(now) \in [Clients -> [count : Nat, first : Nat]]
    BY <1>2 DEF Cleaned, NoVisit
  <2>2. Ordered(log, clock) /\ \A c \in Clients : Remembered(log, c, visits[c], clock)
    BY DEF GateInv
  <2>3. clock \in Int
    BY <1>2
  <2>4. ASSUME NEW c \in Clients
        PROVE  /\ Remembered(log, c, Cleaned(now)[c], clock)
               /\ Cleaned(now)[c] \in {visits[c], NoVisit}
    BY <1>1, <1>2, <2>2, <2>3, CleaningRemembers, Zenon
  <2> QED
    BY <2>1, <2>4
<1>6. /\ v.count > 0
      /\ \E b \in 1..Len(log) + 1 : Opened(Append(log, e), d, v, b)
  BY <1>1, AskerRemembered
<1>7. visits' \in [Clients -> [count : Nat, first : Nat]]
  BY <1>1, <1>5
<1>8. /\ visits'[d] = v
      /\ \A c \in Clients \ {d} : visits'[c] = Cleaned(now)[c]
  BY <1>1, <1>5
<1>9. GateTypeOK'
  <2>1. \A c \in Clients : Cleaned(now)[c].count \in 0..Len(log) /\ Cleaned(now)[c].first \in 0..clock
    <3>1. \A c \in Clients : visits[c].count \in 0..Len(log) /\ visits[c].first \in 0..clock
      BY DEF GateInv, GateTypeOK
    <3>2. NoVisit.count \in 0..Len(log) /\ NoVisit.first \in 0..clock
      BY <1>2, <1>3 DEF NoVisit
    <3> QED
      BY <1>5, <3>1, <3>2
  <2>2. v.count \in 0..Len(log) + 1 /\ v.first \in 0..clock
    <3>1. PICK w \in [count : Nat, first : Nat] : w = Cleaned(now)[d]
      BY <1>5
    <3>2. w.count \in 0..Len(log) /\ w.first \in 0..clock /\ v = counted(w, now)
      BY <1>1, <2>1, <3>1
    <3>3. CASE w.count = 0 \/ Expired(w, now)
      BY <1>1, <1>2, <1>3, <3>2, <3>3 DEF counted
    <3>4. CASE ~(w.count = 0 \/ Expired(w, now))
      <4>1. v.count = w.count + 1 /\ v.first = w.first
        BY <3>2, <3>4 DEF counted
      <4> QED
        BY <1>2, <1>3, <3>2, <4>1
    <3> QED
      BY <3>3, <3>4
  <2>3. \A c \in Clients : visits'[c].count \in 0..Len(log') /\ visits'[c].first \in 0..clock'
    BY <1>1, <1>2, <1>3, <1>4, <1>8, <2>1, <2>2
  <2>4. cleanAt' \in -1..MaxTime + Window
    <3>1. cleanAt \in -1..MaxTime + Window
      BY DEF GateInv, GateTypeOK
    <3>2. MaxTime \in Int /\ Window \in Nat
      BY BoundAssumption, TimeAssumption
    <3>3. now + Window \in -1..MaxTime + Window
      <4>1. now \in Nat /\ now <= MaxTime
        BY <1>1, <1>2, <3>2
      <4> QED
        BY <3>2, <4>1
    <3> QED
      BY <1>1, <3>1, <3>3
  <2>5. stamp' \in [GateRequests -> NoStamp..clock'] /\ clock' \in Times
    BY <1>1, <1>2 DEF GateInv, GateTypeOK, NoStamp
  <2> QED
    BY <1>4, <2>3, <2>4, <2>5 DEF GateTypeOK, Entry
<1>10. StampsFresh'
  BY <1>1 DEF GateInv, GateTypeOK, StampsFresh
<1>11. Ordered(log', clock')
  <2>1. \A i, j \in 1..Len(log) : i <= j => log[i].at <= log[j].at
    BY <1>3 DEF GateInv, Ordered
  <2>2. \A i \in 1..Len(log) : log[i].at <= clock
    BY <1>3 DEF GateInv, Ordered
  <2>3. log'[Len(log) + 1].at = clock /\ clock' = clock
    BY <1>1, <1>4
  <2>4. \A i \in DOMAIN log' : log'[i].at <= clock'
    BY <1>2, <1>3, <1>4, <2>2, <2>3
  <2>5. ASSUME NEW i \in DOMAIN log', NEW j \in DOMAIN log', i <= j
        PROVE  log'[i].at <= log'[j].at
    <3>1. CASE j = Len(log) + 1
      BY <2>3, <2>4, <3>1
    <3>2. CASE j # Len(log) + 1
      <4>1. i \in 1..Len(log) /\ j \in 1..Len(log)
        BY <1>3, <1>4, <2>5, <3>2
      <4> QED
        BY <1>4, <2>1, <2>5, <4>1
    <3> QED
      BY <3>1, <3>2
  <2> QED
    BY <2>4, <2>5 DEF Ordered
<1>12. ASSUME NEW c \in Clients PROVE Remembered(log', c, visits'[c], clock')
  <2>1. CASE c = d
    BY <1>1, <1>4, <1>6, <1>8, <2>1 DEF Remembered
  <2>2. CASE c # d
    <3>1. PICK w \in [count : Nat, first : Nat] : w = Cleaned(now)[c]
      BY <1>5
    <3>2. Remembered(Append(log, e), c, w, clock)
      BY <1>1, <1>2, <1>5, <2>2, <3>1, OthersRemember
    <3> QED
      BY <1>1, <1>8, <2>2, <3>1, <3>2
  <2> QED
    BY <2>1, <2>2
<1> QED
  BY <1>7, <1>9, <1>10, <1>11, <1>12 DEF GateInv

\* Every step keeps the invariant.
LEMMA GateNext_Inv == GateInv /\ [GateNext]_gateVars => GateInv'
<1> SUFFICES ASSUME GateInv, [GateNext]_gateVars PROVE GateInv'
  OBVIOUS
<1>1. CASE Tick
  BY <1>1, TickKeeps
<1>2. ASSUME NEW g \in GateRequests, Stamp(g) PROVE GateInv'
  BY <1>2, StampKeeps
<1>3. ASSUME NEW g \in GateRequests, NEW c \in Clients, NEW r \in Routes, RateLimit(g, c, r)
      PROVE  GateInv'
  BY <1>3, RateLimitKeeps
<1>4. CASE UNCHANGED gateVars
  BY <1>4 DEF gateVars, GateInv, GateTypeOK, StampsFresh
<1> QED
  BY <1>1, <1>2, <1>3, <1>4 DEF GateNext

\* Types of the rate limiter: no entry counts more than was asked, none starts
\* in the future, and the table is next cleaned within a window.
THEOREM GateTypeCorrect == GateSpec => []GateTypeOK
<1>1. GateInv => GateTypeOK
  BY DEF GateInv
<1> QED
  BY <1>1, GateInit_Inv, GateNext_Inv, PTL DEF GateSpec

(***************************************************************************)
(* What the limiter promises.                                               *)
(***************************************************************************)
\* In a span that ends with the request that opened or joined an entry, the
\* client gets at most a rate through before the entry and a rate since.
LEMMA TwiceTheRate ==
  ASSUME NEW l \in Seq(Entry), Len(l) > 0, NEW t \in Int, Ordered(l, t), NEW c, NEW v,
         NEW b \in 1..Len(l), Opened(l, c, v, b), NEW r \in Routes,
         NEW i \in 1..Len(l), l[Len(l)].at - l[i].at <= Window - Delay
  PROVE  Cardinality(Passed(l, c, r, i, Len(l))) <= 2 * Rate[r]
<1>1. /\ Len(l) \in Nat /\ DOMAIN l = 1..Len(l) /\ \A k \in 1..Len(l) : l[k].at \in Nat
      /\ b \in Int /\ b - 1 \in Int /\ Len(l) \in Int /\ i \in Int
  BY Logged
<1>2. Rate[r] \in Nat
  BY RateAssumption
<1>3. /\ Cardinality(Passed(l, c, r, b, Len(l))) <= Rate[r]
      /\ Quiet(l, c, l[b].at, b - 1)
  BY DEF Opened
<1>4. IsFiniteSet(Passed(l, c, r, b, Len(l))) /\ IsFiniteSet(Passed(l, c, r, i, b - 1))
  BY <1>1, Countable
<1>5. CASE b <= i
  <2>1. Passed(l, c, r, i, Len(l)) \subseteq Passed(l, c, r, b, Len(l))
    BY <1>1, <1>5 DEF Passed
  <2> QED
    BY <1>2, <1>3, <1>4, <2>1, Fewer
<1>6. CASE i < b
  <2>1. l[b].at <= l[Len(l)].at
    BY <1>1 DEF Ordered
  <2>2. l[b].at - l[i].at <= Window - Delay /\ i \in 1..b - 1
    BY <1>1, <1>6, <2>1, TimeAssumption
  <2>3. Cardinality(Passed(l, c, r, i, b - 1)) <= Rate[r]
    BY <1>3, <2>2 DEF Quiet
  <2>4. Passed(l, c, r, i, Len(l)) \subseteq Passed(l, c, r, i, b - 1) \cup Passed(l, c, r, b, Len(l))
    BY <1>1, <1>6 DEF Passed
  <2>5. Cardinality(Passed(l, c, r, i, b - 1)) \in Nat /\ Cardinality(Passed(l, c, r, b, Len(l))) \in Nat
    BY <1>4, FS_CardinalityType
  <2>6. /\ Cardinality(Passed(l, c, r, i, Len(l))) \in Nat
        /\ Cardinality(Passed(l, c, r, i, Len(l)))
              <= Cardinality(Passed(l, c, r, i, b - 1)) + Cardinality(Passed(l, c, r, b, Len(l)))
    BY <1>4, <2>4, Covered
  <2> QED
    BY <1>2, <1>3, <2>3, <2>5, <2>6
<1> QED
  BY <1>1, <1>5, <1>6

\* RateKept, in terms of what was let through between two places of the log.
Bounded(l) ==
    \A i, j \in DOMAIN l : l[j].at - l[i].at \in 0..Window - Delay =>
        Cardinality(Passed(l, l[i].client, l[i].route, i, j)) <= 2 * Rate[l[i].route]

\* Bounded is RateKept.
LEMMA BoundedIsRateKept == Bounded(log) <=> RateKept
<1>1. \A i, j \in DOMAIN log :
         {k \in i..j : Of(k, log[i]) /\ log[k].ok}
            = Passed(log, log[i].client, log[i].route, i, j)
  BY DEF Of, Passed
<1> QED
  BY <1>1 DEF Bounded, RateKept

\* A request at the lock keeps every span within twice the rate.
LEMMA BoundedAppend ==
  ASSUME NEW l \in Seq(Entry), NEW e \in Entry, Bounded(l), NEW t \in Int,
         Ordered(Append(l, e), t), NEW v, NEW b \in 1..Len(l) + 1,
         Opened(Append(l, e), e.client, v, b)
  PROVE  Bounded(Append(l, e))
<1>1. PICK m \in Seq(Entry) : m = Append(l, e)
  BY AppendKeeps
<1>2. /\ Len(l) \in Nat /\ DOMAIN l = 1..Len(l)
      /\ \A i \in 1..Len(l) : l[i] \in Entry
  BY Logged
<1>3. /\ Len(m) = Len(l) + 1 /\ DOMAIN m = 1..Len(l) + 1
      /\ \A i \in 1..Len(l) : m[i] = l[i]
      /\ m[Len(l) + 1] = e
  BY <1>1, AppendKeeps
<1>4. \A i \in 1..Len(l) + 1 : m[i] \in Entry /\ m[i].at \in Nat
  BY <1>1, <1>3, Logged
<1>5. Ordered(m, t) /\ Opened(m, e.client, v, b)
  BY <1>1
<1>6. SUFFICES ASSUME NEW i \in 1..Len(l) + 1, NEW j \in 1..Len(l) + 1,
                      m[j].at - m[i].at \in 0..Window - Delay
               PROVE  Cardinality(Passed(m, m[i].client, m[i].route, i, j)) <= 2 * Rate[m[i].route]
  BY <1>1, <1>3 DEF Bounded
<1>7. m[i].route \in Routes /\ Rate[m[i].route] \in Nat \ {0}
  BY <1>4, RateAssumption DEF Entry
<1>8. CASE i > j
  <2>1. Passed(m, m[i].client, m[i].route, i, j) = {}
    BY <1>8 DEF Passed
  <2>2. Cardinality({}) = 0
    BY FS_EmptySet
  <2>3. Cardinality(Passed(m, m[i].client, m[i].route, i, j)) = 0
    BY <2>1, <2>2, Zenon
  <2> QED
    BY <1>7, <2>3
<1>9. CASE i <= j /\ j <= Len(l)
  <2>1. i \in DOMAIN l /\ j \in DOMAIN l /\ i \in Nat \ {0} /\ j \in Int
    BY <1>2, <1>9
  <2>2. m[i] = l[i] /\ m[j] = l[j]
    BY <1>2, <1>3, <2>1
  <2>3. Passed(m, l[i].client, l[i].route, i, j) = Passed(l, l[i].client, l[i].route, i, j)
    BY <1>1, <1>9, <2>1, SpanKept
  <2> QED
    BY <1>6, <2>1, <2>2, <2>3 DEF Bounded
<1>10. CASE j = Len(l) + 1 /\ m[i].client = e.client
  <2>1. m[Len(m)].at - m[i].at <= Window - Delay /\ i \in 1..Len(m) /\ b \in 1..Len(m) /\ Len(m) > 0
    BY <1>2, <1>3, <1>4, <1>6, <1>10, TimeAssumption
  <2>2. Cardinality(Passed(m, e.client, m[i].route, i, Len(m))) <= 2 * Rate[m[i].route]
    BY <1>5, <1>7, <2>1, TwiceTheRate
  <2> QED
    BY <1>3, <1>10, <2>2
<1>11. CASE j = Len(l) + 1 /\ m[i].client # e.client
  <2>1. i \in 1..Len(l) /\ m[i] = l[i]
    BY <1>2, <1>3, <1>11
  <2>2. i \in Nat \ {0} /\ Len(l) \in DOMAIN l /\ i \in DOMAIN l
    BY <1>2, <2>1
  <2>3. Passed(m, l[i].client, l[i].route, i, j) = Passed(l, l[i].client, l[i].route, i, Len(l))
    BY <1>1, <1>11, <2>1, <2>2, SpanOther
  <2>4. l[i].at <= l[Len(l)].at /\ l[Len(l)].at <= m[j].at
    BY <1>2, <1>3, <1>5, <1>11, <2>1, <2>2 DEF Ordered
  <2>5. l[Len(l)].at - l[i].at \in 0..Window - Delay
    <3>1. m[j].at - l[i].at \in 0..Window - Delay /\ Window - Delay \in Nat
      BY <1>6, <2>1, TimeAssumption
    <3>2. l[Len(l)].at \in Int /\ l[i].at \in Int /\ m[j].at \in Int
      BY <1>2, <1>3, <1>4, <2>1, <2>2
    <3>3. m[j].at - l[i].at <= Window - Delay
      BY <3>1
    <3>4. l[Len(l)].at - l[i].at \in Nat /\ l[Len(l)].at - l[i].at <= m[j].at - l[i].at
      BY <2>4, <3>2
    <3> QED
      BY <3>1, <3>2, <3>3, <3>4
  <2> QED
    BY <2>1, <2>2, <2>3, <2>5 DEF Bounded
<1> QED
  BY <1>2, <1>8, <1>9, <1>10, <1>11

\* However requests overtake one another and whoever cleans the table, a client
\* gets at most twice the rate of a route through in any span as long as the
\* window, less the delay between clock and lock.
THEOREM RateNeverDoubled == GateSpec => []RateKept
<1>1. GateInit => Bounded(log)
  BY DEF GateInit, Bounded
<1>2. GateInv /\ GateInv' /\ Bounded(log) /\ [GateNext]_gateVars => Bounded(log)'
  <2> SUFFICES ASSUME GateInv, GateInv', Bounded(log), [GateNext]_gateVars
               PROVE  Bounded(log')
    BY DEF Bounded, Passed
  <2>1. CASE log' = log
    BY <2>1
  <2>2. ASSUME NEW g \in GateRequests, NEW d \in Clients, NEW r \in Routes, RateLimit(g, d, r)
        PROVE  Bounded(log')
    <3>1. PICK now \in Nat, v \in [count : Nat, first : Nat], e \in Entry :
               /\ now = stamp[g] /\ now <= clock /\ clock - now <= Delay
               /\ v = counted(Cleaned(now)[d], now)
               /\ e.client = d /\ e.route = r /\ e.at = clock /\ (e.ok <=> v.count <= Rate[r])
               /\ visits' = [Cleaned(now) EXCEPT ![d] = v]
               /\ log' = Append(log, e)
               /\ cleanAt' = IF now > cleanAt THEN now + Window ELSE cleanAt
               /\ stamp' = [stamp EXCEPT ![g] = NoStamp]
               /\ clock' = clock
      BY <2>2, AtTheLock
    <3>2. \E b \in 1..Len(log) + 1 : Opened(Append(log, e), e.client, v, b)
      BY <3>1, AskerRemembered
    <3>3. log \in Seq(Entry) /\ clock \in Int
      BY BoundAssumption DEF Entry, GateInv, GateTypeOK, Times
    <3>4. Ordered(Append(log, e), clock)
      BY <3>1 DEF GateInv
    <3> QED
      BY <3>1, <3>2, <3>3, <3>4, BoundedAppend
  <2> QED
    BY <2>1, <2>2 DEF GateNext, Tick, Stamp, gateVars
<1> QED
  BY <1>1, <1>2, GateInit_Inv, GateNext_Inv, BoundedIsRateKept, PTL DEF GateSpec

\* The requests of the client of request j up to it, within the window and delay,
\* and RefusedBusy in terms of them.
Lately(l, j) ==
    {k \in 1..j : l[k].client = l[j].client /\ l[j].at - l[k].at <= Window + Delay}

Excused(l) ==
    \A j \in DOMAIN l : ~l[j].ok => Cardinality(Lately(l, j)) > Rate[l[j].route]

\* A delay and a window behind one another.
LEMMA Delays ==
  ASSUME NEW to \in Nat, NEW now \in Int, NEW first \in Nat, NEW then \in Nat, NEW from \in Nat,
         NEW d \in Nat, NEW w \in Nat,
         to - now <= d, now - first <= w, first <= then, then <= from
  PROVE  to - from <= w + d
OBVIOUS

\* A request that is refused counts in an entry whose requests are all recent.
LEMMA ExcusedAppend ==
  ASSUME NEW l \in Seq(Entry), NEW e \in Entry, Excused(l),
         NEW now \in Int, e.at - now <= Delay, Ordered(Append(l, e), e.at),
         NEW v \in [count : Nat, first : Nat], now - v.first <= Window,
         e.ok <=> v.count <= Rate[e.route],
         NEW b \in 1..Len(l) + 1, Opened(Append(l, e), e.client, v, b)
  PROVE  Excused(Append(l, e))
<1>1. PICK m \in Seq(Entry) : m = Append(l, e)
  BY AppendKeeps
<1>2. Len(l) \in Nat /\ DOMAIN l = 1..Len(l)
  BY Logged
<1>3. /\ Len(m) = Len(l) + 1 /\ DOMAIN m = 1..Len(l) + 1
      /\ \A i \in 1..Len(l) : m[i] = l[i]
      /\ m[Len(l) + 1] = e
  BY <1>1, AppendKeeps
<1>4. \A i \in 1..Len(l) + 1 : m[i] \in Entry /\ m[i].at \in Nat
  BY <1>1, <1>3, Logged
<1>5. Ordered(m, e.at) /\ Opened(m, e.client, v, b)
  BY <1>1
<1>6. SUFFICES ASSUME NEW j \in 1..Len(l) + 1, ~m[j].ok
               PROVE  Cardinality(Lately(m, j)) > Rate[m[j].route]
  BY <1>1, <1>3 DEF Excused
<1>7. CASE j \in 1..Len(l)
  <2>1. m[j] = l[j] /\ \A k \in 1..j : m[k] = l[k]
    BY <1>2, <1>3, <1>7
  <2>2. Lately(m, j) = Lately(l, j)
    BY <2>1 DEF Lately
  <2> QED
    BY <1>2, <1>6, <1>7, <2>1, <2>2 DEF Excused
<1>8. CASE j = Len(l) + 1
  <2>1. v.count > Rate[e.route] /\ Rate[e.route] \in Nat
    BY <1>3, <1>6, <1>8, RateAssumption DEF Entry
  <2>2. v.count = Cardinality(Asked(m, e.client, b, j))
    BY <1>3, <1>5, <1>8 DEF Opened
  <2>3. Asked(m, e.client, b, j) \subseteq Lately(m, j)
    <3>1. SUFFICES ASSUME NEW k \in b..j, m[k].client = e.client
                   PROVE  k \in 1..j /\ m[j].client = e.client /\ m[j].at - m[k].at <= Window + Delay
      BY DEF Asked, Lately
    <3>2. k \in 1..j /\ k \in DOMAIN m /\ b \in DOMAIN m /\ b <= k
      BY <1>2, <1>3, <1>8
    <3>3. m[b].at <= m[k].at
      BY <1>5, <3>2 DEF Ordered
    <3>4. v.first <= m[b].at
      BY <1>5 DEF Opened
    <3>5. m[b].at \in Nat /\ m[k].at \in Nat /\ e.at \in Nat /\ v.first \in Nat
      BY <1>3, <1>4, <3>2
    <3>6. m[j] = e
      BY <1>3, <1>8
    <3>7. e.at - m[k].at <= Window + Delay
      BY <3>3, <3>4, <3>5, TimeAssumption, Delays, Zenon
    <3> QED
      BY <3>1, <3>2, <3>6, <3>7
  <2>4. Lately(m, j) \subseteq 1..j /\ IsFiniteSet(1..j)
    BY <1>2, <1>8, FS_Interval DEF Lately
  <2>5. IsFiniteSet(Lately(m, j))
    BY <2>4, Fewer
  <2>6. /\ Cardinality(Lately(m, j)) \in Nat /\ Cardinality(Asked(m, e.client, b, j)) \in Nat
        /\ Cardinality(Asked(m, e.client, b, j)) <= Cardinality(Lately(m, j))
    BY <2>3, <2>5, Fewer
  <2>7. m[j].route = e.route
    BY <1>3, <1>8
  <2> QED
    BY <2>1, <2>2, <2>6, <2>7
<1>9. j \in 1..Len(l) \/ j = Len(l) + 1
  BY <1>2
<1> QED
  BY <1>7, <1>8, <1>9

\* A client is refused only after as many requests as the route allows, to it or
\* to others, within the last window and delay: no refused request, however long
\* ago, shuts a client out.
THEOREM RefusalsExplained == GateSpec => []RefusedBusy
<1>1. Excused(log) <=> RefusedBusy
  BY DEF Excused, Lately, RefusedBusy
<1>2. GateInit => Excused(log)
  BY DEF GateInit, Excused
<1>3. GateInv /\ GateInv' /\ Excused(log) /\ [GateNext]_gateVars => Excused(log)'
  <2> SUFFICES ASSUME GateInv, GateInv', Excused(log), [GateNext]_gateVars
               PROVE  Excused(log')
    BY DEF Excused, Lately
  <2>1. CASE log' = log
    BY <2>1
  <2>2. ASSUME NEW g \in GateRequests, NEW d \in Clients, NEW r \in Routes, RateLimit(g, d, r)
        PROVE  Excused(log')
    <3>1. PICK now \in Nat, v \in [count : Nat, first : Nat], e \in Entry :
               /\ now = stamp[g] /\ now <= clock /\ clock - now <= Delay
               /\ v = counted(Cleaned(now)[d], now)
               /\ e.client = d /\ e.route = r /\ e.at = clock /\ (e.ok <=> v.count <= Rate[r])
               /\ visits' = [Cleaned(now) EXCEPT ![d] = v]
               /\ log' = Append(log, e)
               /\ cleanAt' = IF now > cleanAt THEN now + Window ELSE cleanAt
               /\ stamp' = [stamp EXCEPT ![g] = NoStamp]
               /\ clock' = clock
      BY <2>2, AtTheLock
    <3>2. /\ now - v.first <= Window
          /\ \E b \in 1..Len(log) + 1 : Opened(Append(log, e), e.client, v, b)
      BY <3>1, AskerRemembered
    <3>3. log \in Seq(Entry)
      BY DEF Entry, GateInv, GateTypeOK
    <3>4. Ordered(Append(log, e), e.at)
      BY <3>1 DEF GateInv
    <3>5. now \in Int /\ e.at - now <= Delay /\ (e.ok <=> v.count <= Rate[e.route])
      BY <3>1
    <3> QED
      BY <3>1, <3>2, <3>3, <3>4, <3>5, ExcusedAppend
  <2> QED
    BY <2>1, <2>2 DEF GateNext, Tick, Stamp, gateVars
<1> QED
  BY <1>1, <1>2, <1>3, GateInit_Inv, GateNext_Inv, PTL DEF GateSpec

================================================================================
