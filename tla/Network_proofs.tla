--------------------------- MODULE Network_proofs ---------------------------
(***************************************************************************)
(* Proofs about the parts around a connection, each as a part of           *)
(* MCNetwork: the ssh tunnel, downloads, the response of the keep-alive    *)
(* handler and the rate limits.                                            *)
(***************************************************************************)
EXTENDS MCNetwork, SequenceTheorems, FiniteSetTheorems, WellFoundedInduction, TLAPS

\* An invariant of a part is one of the composition.
LEMMA PartsStayApart ==
  [Next]_vars =>
    /\ part = part'
    /\ part = "tunnel" => [Tunnel!Next]_Tunnel!vars
    /\ part = "download" => [Page!Next]_Page!vars
    /\ part = "rate" => [Rate!Next]_Rate!vars
    /\ part = "response" => [Response!Next]_Response!vars
<1> SUFFICES ASSUME [Next]_vars
             PROVE  /\ part = part'
                    /\ part = "tunnel" => [Tunnel!Next]_Tunnel!vars
                    /\ part = "download" => [Page!Next]_Page!vars
                    /\ part = "rate" => [Rate!Next]_Rate!vars
                    /\ part = "response" => [Response!Next]_Response!vars
  OBVIOUS
<1>1. CASE UNCHANGED vars
  BY <1>1 DEF vars, tunnelVars, downloadVars, rateVars, responseVars, Tunnel!vars, Tunnel!sides,
              Page!vars, Page!call, Page!names, Rate!vars, Rate!clock, Response!vars
<1>2. CASE Next
  BY <1>2 DEF Next, TunnelOnly, PageOnly, RateOnly, ResponseOnly
<1>3. QED
  BY <1>1, <1>2

-----------------------------------------------------------------------------
(* The ssh tunnel.                                                         *)

TunnelTypes ==
  /\ transport \in [owner : Handlers \cup {Tunnel!None}, state : {"up", "new", "down"}]
  /\ pc \in [Handlers -> {"new", "failed", "connecting", "raise", "raised", "forward", "break", "closed"}]
  /\ written \in [Handlers -> [Tunnel!Sides -> Nat]]
  /\ taken \in [Handlers -> [Tunnel!Sides -> Nat]]
  /\ got \in [Handlers -> [Tunnel!Sides -> Seq(Nat)]]

TunnelFlags ==
  /\ over \in [Handlers -> [Tunnel!Sides -> BOOLEAN]]
  /\ short \in [Handlers -> [Tunnel!Sides -> BOOLEAN]]

\* Nothing is written before there is a channel; what is there is received and
\* sent on from its beginning.
Counted(h, s) ==
  /\ pc[h] = "new" => written[h][s] = 0
  /\ taken[h][s] <= written[h][s] /\ written[h][s] <= Bytes[h]
  /\ Len(got[h][s]) <= taken[h][s]

First(n) == [i \in 1..n |-> i]
InOrder(h, s) == short[h][s] \/ got[h][s] = First(taken[h][s])

OverFirst(h, s) ==
  pc[h] \in {"break", "closed"} /\ taken[h][s] < written[h][s] => over[h][Tunnel!Other(s)]

Sided(h, s) == Counted(h, s) /\ InOrder(h, s) /\ OverFirst(h, s)

TunnelInv ==
  /\ TunnelTypes /\ TunnelFlags
  /\ \A h \in Handlers : \A s \in Tunnel!Sides : Sided(h, s)

LEMMA SentBehind ==
  ASSUME NEW t \in Nat, NEW n \in Nat
  PROVE  First(t) \o Tunnel!Sent(t, n) = First(t + n)
BY DEF Tunnel!Sent, First

LEMMA TunnelInit == Tunnel!Init => TunnelInv
<1> SUFFICES ASSUME Tunnel!Init
             PROVE  TunnelInv
  OBVIOUS
<1>1. TunnelTypes
  BY DEF Tunnel!Init, TunnelTypes, Tunnel!Up
<1>2. TunnelFlags
  BY DEF Tunnel!Init, TunnelFlags
<1>3. ASSUME NEW h \in Handlers, NEW s \in Tunnel!Sides PROVE Sided(h, s)
  <2>1. Counted(h, s)
    BY NetworkAssumption DEF Tunnel!Init, Counted, Tunnel!SshForwardAssumption
  <2>2. InOrder(h, s) /\ OverFirst(h, s)
    BY DEF Tunnel!Init, InOrder, First, OverFirst
  <2>3. QED
    BY <2>1, <2>2 DEF Sided
<1>4. QED
  BY <1>1, <1>2, <1>3 DEF TunnelInv

\* A step of a handler or of a side leaves what is not its own alone.
LEMMA SidedStays ==
  ASSUME NEW h \in Handlers, NEW s \in Tunnel!Sides, Sided(h, s),
         written'[h][s] = written[h][s], taken'[h][s] = taken[h][s], got'[h][s] = got[h][s],
         short[h][s] => short'[h][s],
         pc'[h] = pc[h] \/ pc'[h] \notin {"new", "break", "closed"},
         over[h][Tunnel!Other(s)] => over'[h][Tunnel!Other(s)]
  PROVE  Sided(h, s)'
<1>1. Counted(h, s)'
  BY DEF Sided, Counted
<1>2. InOrder(h, s)'
  BY DEF Sided, InOrder
<1>3. OverFirst(h, s)'
  BY DEF Sided, OverFirst
<1>4. QED
  BY <1>1, <1>2, <1>3 DEF Sided

LEMMA TunnelStep == TunnelInv /\ [Tunnel!Next]_Tunnel!vars => TunnelInv'
<1> SUFFICES ASSUME TunnelInv, [Tunnel!Next]_Tunnel!vars
             PROVE  TunnelInv'
  OBVIOUS
<1> USE DEF Tunnel!Goto, Tunnel!sides
<1>0. /\ TunnelTypes /\ TunnelFlags
      /\ \A h \in Handlers : \A s \in Tunnel!Sides : Sided(h, s)
      /\ \A s \in Tunnel!Sides : Tunnel!Other(s) \in Tunnel!Sides
      /\ RecvSize \in Nat \ {0} /\ \A h \in Handlers : Bytes[h] \in Nat
  BY NetworkAssumption DEF TunnelInv, Tunnel!Other, Tunnel!Sides, Tunnel!SshForwardAssumption
<1>1. CASE Tunnel!Lose
  <2>1. TunnelTypes'
    BY <1>0, <1>1 DEF Tunnel!Lose, TunnelTypes
  <2>2. /\ over' \in [Handlers -> [Tunnel!Sides -> BOOLEAN]]
        /\ \A h \in Handlers : \A s \in Tunnel!Sides : over[h][s] => over'[h][s]
    BY <1>0, <1>1 DEF Tunnel!Lose, TunnelFlags
  <2>3. UNCHANGED <<pc, written, taken, got, short>>
    BY <1>1 DEF Tunnel!Lose
  <2>4. QED
    BY <1>0, <2>1, <2>2, <2>3, SidedStays DEF TunnelInv, TunnelFlags
<1>2. ASSUME NEW h \in Handlers, Tunnel!Open(h)
      PROVE  TunnelInv'
  <2>1. TunnelTypes'
    BY <1>0, <1>2 DEF Tunnel!Open, TunnelTypes
  <2>2. UNCHANGED <<over, short, written, taken, got>>
    BY <1>2 DEF Tunnel!Open
  <2>3. ASSUME NEW s \in Tunnel!Sides PROVE Sided(h, s)'
    <3>1. taken[h][s] \in Nat /\ Counted(h, s) /\ pc[h] = "new"
      BY <1>0, <1>2 DEF TunnelTypes, Sided, Tunnel!Open
    <3>2. written[h][s] = 0 /\ taken[h][s] = 0
      BY <3>1 DEF Counted
    <3>3. pc'[h] # "new"
      BY <1>0, <1>2 DEF Tunnel!Open, TunnelTypes
    <3>4. Counted(h, s)'
      BY <2>2, <3>1, <3>3 DEF Counted
    <3>5. InOrder(h, s)'
      BY <1>0, <2>2 DEF Sided, InOrder
    <3>6. OverFirst(h, s)'
      BY <2>2, <3>2 DEF OverFirst
    <3>7. QED
      BY <3>4, <3>5, <3>6 DEF Sided
  <2>4. \A g \in Handlers \ {h} : pc'[g] = pc[g]
    BY <1>0, <1>2 DEF Tunnel!Open, TunnelTypes
  <2>5. QED
    BY <1>0, <2>1, <2>2, <2>3, <2>4, SidedStays DEF TunnelInv, TunnelFlags
<1>3. ASSUME NEW h \in Handlers,
             Tunnel!Reconnect(h) \/ Tunnel!Reconnected(h) \/ Tunnel!Unbound(h) \/ Tunnel!ConnectFails(h)
               \/ \E s \in Tunnel!Sides : Tunnel!SendFails(h, s)
      PROVE  TunnelInv'
  <2>1. TunnelTypes'
    <3>1. /\ transport' \in [owner : Handlers \cup {Tunnel!None}, state : {"up", "new", "down"}]
          /\ UNCHANGED <<written, taken, got>>
      <4>1. CASE Tunnel!Reconnect(h)
        BY <1>0, <4>1 DEF Tunnel!Reconnect
      <4>2. CASE Tunnel!Reconnected(h)
        BY <1>0, <4>2 DEF Tunnel!Reconnected, TunnelTypes
      <4>3. CASE Tunnel!Unbound(h) \/ Tunnel!ConnectFails(h) \/ \E s \in Tunnel!Sides : Tunnel!SendFails(h, s)
        BY <1>0, <4>3 DEF Tunnel!Unbound, Tunnel!ConnectFails, Tunnel!SendFails, TunnelTypes
      <4>4. QED
        BY <1>3, <4>1, <4>2, <4>3
    <3>2. \E l \in {"connecting", "raise", "raised"} : pc' = [pc EXCEPT ![h] = l]
      BY <1>3 DEF Tunnel!Reconnect, Tunnel!Reconnected, Tunnel!Unbound, Tunnel!ConnectFails,
                  Tunnel!SendFails
    <3>3. QED
      BY <1>0, <3>1, <3>2 DEF TunnelTypes
  <2>2. /\ UNCHANGED <<over, short, written, taken, got>>
        /\ \E l \in {"connecting", "raise", "raised"} : pc' = [pc EXCEPT ![h] = l]
    BY <1>3 DEF Tunnel!Reconnect, Tunnel!Reconnected, Tunnel!Unbound, Tunnel!ConnectFails,
                Tunnel!SendFails
  <2>3. \A g \in Handlers : pc'[g] = pc[g] \/ pc'[g] \notin {"new", "break", "closed"}
    BY <1>0, <2>2 DEF TunnelTypes
  <2>4. QED
    BY <1>0, <2>1, <2>2, <2>3, SidedStays DEF TunnelInv, TunnelFlags
<1>4. ASSUME NEW h \in Handlers, Tunnel!Close(h)
      PROVE  TunnelInv'
  <2>1. TunnelTypes'
    BY <1>0, <1>4 DEF Tunnel!Close, TunnelTypes
  <2>2. UNCHANGED <<over, short, written, taken, got>> /\ pc[h] = "break" /\ pc' = [pc EXCEPT ![h] = "closed"]
    BY <1>4 DEF Tunnel!Close
  <2>3. pc'[h] = "closed" /\ \A g \in Handlers \ {h} : pc'[g] = pc[g]
    BY <1>0, <2>2 DEF TunnelTypes
  <2>4. \A s \in Tunnel!Sides : Sided(h, s)'
    BY <1>0, <2>2, <2>3 DEF Sided, Counted, InOrder, OverFirst
  <2>5. QED
    BY <1>0, <2>1, <2>2, <2>3, <2>4, SidedStays DEF TunnelInv, TunnelFlags
<1>5. ASSUME NEW h \in Handlers, NEW s \in Tunnel!Sides, Tunnel!Write(h, s)
      PROVE  TunnelInv'
  <2>1. /\ pc[h] = "forward" /\ written[h][s] < Bytes[h]
        /\ written' = [written EXCEPT ![h][s] = @ + 1]
        /\ UNCHANGED <<transport, pc, chan, over, taken, got, short>>
    BY <1>5 DEF Tunnel!Write
  <2>2. TunnelTypes'
    BY <1>0, <2>1 DEF TunnelTypes
  <2>3. /\ written'[h][s] = written[h][s] + 1
        /\ \A g \in Handlers : \A t \in Tunnel!Sides : g # h \/ t # s => written'[g][t] = written[g][t]
    BY <1>0, <2>1 DEF TunnelTypes
  <2>4. Sided(h, s)'
    <3>1. Counted(h, s)'
      BY <1>0, <2>1, <2>3 DEF Sided, Counted, TunnelTypes
    <3>2. InOrder(h, s)'
      BY <1>0, <2>1 DEF Sided, InOrder
    <3>3. OverFirst(h, s)'
      BY <2>1 DEF OverFirst
    <3>4. QED
      BY <3>1, <3>2, <3>3 DEF Sided
  <2>5. QED
    BY <1>0, <2>1, <2>2, <2>3, <2>4, SidedStays DEF TunnelInv, TunnelFlags
<1>6. ASSUME NEW h \in Handlers, NEW s \in Tunnel!Sides, Tunnel!End(h, s)
      PROVE  TunnelInv'
  <2>1. over' = [over EXCEPT ![h][s] = TRUE] /\ UNCHANGED <<transport, pc, chan, written, taken, got, short>>
    BY <1>6 DEF Tunnel!End
  <2>2. TunnelTypes'
    BY <1>0, <2>1 DEF TunnelTypes
  <2>3. /\ over' \in [Handlers -> [Tunnel!Sides -> BOOLEAN]]
        /\ \A g \in Handlers : \A t \in Tunnel!Sides : over[g][t] => over'[g][t]
    BY <1>0, <2>1 DEF TunnelFlags
  <2>4. QED
    BY <1>0, <2>1, <2>2, <2>3, SidedStays DEF TunnelInv, TunnelFlags
<1>7. ASSUME NEW h \in Handlers, NEW s \in Tunnel!Sides, Tunnel!Forward(h, s)
      PROVE  TunnelInv'
  <2> DEFINE ready == written[h][s] - taken[h][s]
             n     == IF ready < RecvSize THEN ready ELSE RecvSize
  <2>1. /\ pc[h] = "forward" /\ (taken[h][s] < written[h][s] \/ over[h][s])
        /\ UNCHANGED <<transport, chan, written, over>>
    BY <1>7 DEF Tunnel!Forward, Tunnel!Readable
  <2>2. taken[h][s] \in Nat /\ written[h][s] \in Nat /\ taken[h][s] <= written[h][s] /\ written[h][s] <= Bytes[h]
    BY <1>0 DEF TunnelTypes, Sided, Counted
  <2>3. n \in Nat /\ n <= ready /\ taken[h][s] + n <= written[h][s] /\ (n = 0 => ready = 0)
    BY <1>0, <2>2
  <2>4. CASE n = 0
    <3>1. pc' = [pc EXCEPT ![h] = "break"] /\ UNCHANGED <<taken, got, short>>
      BY <1>7, <2>4 DEF Tunnel!Forward, Tunnel!Ends
    <3>2. TunnelTypes'
      BY <1>0, <2>1, <3>1 DEF TunnelTypes
    <3>3. taken[h][s] = written[h][s] /\ over[h][s]
      BY <2>1, <2>2, <2>3, <2>4
    <3>4. pc'[h] = "break" /\ \A g \in Handlers \ {h} : pc'[g] = pc[g]
      BY <1>0, <3>1 DEF TunnelTypes
    <3>5. Sided(h, s)'
      <4>1. Counted(h, s)'
        BY <1>0, <2>1, <3>1, <3>4 DEF Sided, Counted
      <4>2. InOrder(h, s)'
        BY <1>0, <3>1 DEF Sided, InOrder
      <4>3. OverFirst(h, s)'
        BY <2>1, <2>2, <3>1, <3>3 DEF OverFirst
      <4>4. QED
        BY <4>1, <4>2, <4>3 DEF Sided
    <3>6. ASSUME NEW t \in Tunnel!Sides \ {s} PROVE Sided(h, t)'
      <4>1. Tunnel!Other(t) = s
        BY DEF Tunnel!Sides, Tunnel!Other
      <4>2. QED
        <5>1. Counted(h, t)'
          BY <1>0, <2>1, <3>1, <3>4 DEF Sided, Counted
        <5>2. InOrder(h, t)'
          BY <1>0, <3>1 DEF Sided, InOrder
        <5>3. OverFirst(h, t)'
          BY <2>1, <3>3, <4>1 DEF OverFirst
        <5>4. QED
          BY <5>1, <5>2, <5>3 DEF Sided
    <3>7. QED
      BY <1>0, <2>1, <3>1, <3>2, <3>4, <3>5, <3>6, SidedStays DEF TunnelInv, TunnelFlags
  <2>5. CASE n # 0
    <3>1. PICK k \in 1..n :
            /\ taken' = [taken EXCEPT ![h][s] = @ + n]
            /\ got' = [got EXCEPT ![h][s] = @ \o Tunnel!Sent(taken[h][s], k)]
            /\ short' = [short EXCEPT ![h][s] = @ \/ k < n]
            /\ UNCHANGED pc
      <4>1. (IF ShortSends THEN 1..n ELSE {n}) \subseteq 1..n
        BY <2>3, <2>5
      <4>2. \E k \in (IF ShortSends THEN 1..n ELSE {n}) :
              /\ taken' = [taken EXCEPT ![h][s] = @ + n]
              /\ got' = [got EXCEPT ![h][s] = @ \o Tunnel!Sent(taken[h][s], k)]
              /\ short' = [short EXCEPT ![h][s] = @ \/ k < n]
              /\ UNCHANGED pc
        BY <1>7, <2>5, Zenon DEF Tunnel!Forward, Tunnel!Ends
      <4>3. QED
        BY <4>1, <4>2, Zenon
    <3> HIDE DEF n, ready
    <3> DEFINE new == Tunnel!Sent(taken[h][s], k)
    <3>2. new \in Seq(Nat) /\ Len(new) = k
      BY <2>2, <2>3 DEF Tunnel!Sent
    <3>3. got[h][s] \in Seq(Nat)
      BY <1>0 DEF TunnelTypes
    <3> HIDE DEF new
    <3>4. got[h][s] \o new \in Seq(Nat) /\ Len(got[h][s] \o new) = Len(got[h][s]) + k
      BY <3>2, <3>3, ConcatProperties
    <3>5. TunnelTypes'
      <4>1. got' \in [Handlers -> [Tunnel!Sides -> Seq(Nat)]]
        BY <1>0, <3>1, <3>4 DEF TunnelTypes, new
      <4>2. taken' \in [Handlers -> [Tunnel!Sides -> Nat]]
        BY <1>0, <2>2, <2>3, <3>1 DEF TunnelTypes
      <4>3. QED
        BY <1>0, <2>1, <3>1, <4>1, <4>2 DEF TunnelTypes
    <3>6. /\ short' \in [Handlers -> [Tunnel!Sides -> BOOLEAN]]
          /\ ~short'[h][s] => ~short[h][s] /\ ~(k < n)
      BY <1>0, <3>1 DEF TunnelFlags
    <3>7. \A g \in Handlers : \A t \in Tunnel!Sides : g # h \/ t # s =>
            taken'[g][t] = taken[g][t] /\ got'[g][t] = got[g][t] /\ short'[g][t] = short[g][t]
      BY <1>0, <3>1 DEF TunnelTypes, TunnelFlags
    <3>8. taken'[h][s] = taken[h][s] + n /\ got'[h][s] = got[h][s] \o new
      <4>1. taken'[h][s] = taken[h][s] + n
        BY <1>0, <3>1 DEF TunnelTypes
      <4>2. got' = [got EXCEPT ![h][s] = @ \o new]
        BY <3>1 DEF new
      <4>3. got'[h][s] = got[h][s] \o new
        BY <1>0, <4>2 DEF TunnelTypes
      <4>4. QED
        BY <4>1, <4>3
    <3>9. Sided(h, s)'
      <4>1. InOrder(h, s)'
        <5>1. CASE short'[h][s]
          BY <5>1 DEF InOrder
        <5>2. CASE ~short'[h][s]
          <6>1. k = n /\ ~short[h][s]
            BY <2>3, <3>6, <5>2
          <6>2. got[h][s] = First(taken[h][s])
            BY <1>0, <6>1 DEF Sided, InOrder
          <6>3. got'[h][s] = First(taken'[h][s])
            BY <2>2, <2>3, <3>8, <6>1, <6>2, SentBehind DEF new
          <6>4. QED
            BY <6>3 DEF InOrder
        <5>3. QED
          BY <5>1, <5>2
      <4>2. Counted(h, s)'
        <5>1. Len(got[h][s]) <= taken[h][s] /\ Len(got[h][s]) \in Nat
          BY <1>0, <3>3 DEF Sided, Counted
        <5>2. Len(got'[h][s]) <= taken'[h][s]
          BY <2>2, <2>3, <3>4, <3>8, <5>1
        <5>3. pc'[h] = "forward" /\ written'[h][s] = written[h][s] /\ taken'[h][s] <= written'[h][s]
          BY <2>1, <2>2, <2>3, <3>1, <3>8
        <5>4. QED
          BY <2>2, <5>2, <5>3 DEF Counted
      <4>3. OverFirst(h, s)'
        BY <2>1, <3>1 DEF OverFirst
      <4>4. QED
        BY <4>1, <4>2, <4>3 DEF Sided
    <3>10. QED
      BY <1>0, <2>1, <3>1, <3>5, <3>6, <3>7, <3>9, SidedStays DEF TunnelInv, TunnelFlags
  <2>6. QED
    BY <2>4, <2>5
<1>8. CASE UNCHANGED Tunnel!vars
  BY <1>8 DEF Tunnel!vars, TunnelInv, TunnelTypes, TunnelFlags, Sided, Counted, InOrder, OverFirst
<1>9. QED
  BY <1>1, <1>2, <1>3, <1>4, <1>5, <1>6, <1>7, <1>8 DEF Tunnel!Next, Tunnel!Step

LEMMA Tunnels == LiveSpec => [](part = "tunnel" => TunnelInv)
<1>1. Init => (part = "tunnel" => TunnelInv)
  BY TunnelInit DEF Init
<1>2. (part = "tunnel" => TunnelInv) /\ [Next]_vars => (part = "tunnel" => TunnelInv)'
  BY TunnelStep, PartsStayApart
<1>3. QED
  BY <1>1, <1>2, PTL DEF LiveSpec

(* Bytes of a tunnel arrive in order and without gaps unless a send took a *)
(* part of its data only, and are dropped only after the side they are for *)
(* has closed, whatever the handlers do with the client that they share.   *)
THEOREM TunnelsAreFaithful == LiveSpec => []TunnelIsFaithful
<1>1. TunnelInv => Tunnel!TypeOK /\ Tunnel!Faithful /\ Tunnel!DropsOnlyAfterEnd
  <2> SUFFICES ASSUME TunnelInv
               PROVE  Tunnel!TypeOK /\ Tunnel!Faithful /\ Tunnel!DropsOnlyAfterEnd
    OBVIOUS
  <2>1. Tunnel!TypeOK
    BY NetworkAssumption DEF TunnelInv, TunnelTypes, Sided, Counted, Tunnel!TypeOK, Tunnel!SshForwardAssumption
  <2>2. Tunnel!Faithful
    BY DEF TunnelInv, Sided, InOrder, First, Tunnel!Faithful
  <2>3. Tunnel!DropsOnlyAfterEnd
    BY DEF TunnelInv, Sided, OverFirst, Tunnel!DropsOnlyAfterEnd
  <2>4. QED
    BY <2>1, <2>2, <2>3
<1>2. QED
  BY <1>1, Tunnels, PTL DEF TunnelIsFaithful

-----------------------------------------------------------------------------
(* Downloads.                                                              *)

\* What the resolver's cache has of the name.
DnsType ==
  /\ dns \in [known : BOOLEAN, stale : BOOLEAN, held : {Page!Unheld} \cup 0..(Hold - 1)]
  /\ dns.stale => dns.known

\* The variables of download() and of the resolver's cache.
PageTypes ==
  /\ opts \in Page!Options
  /\ where \in {"trying", "again", "connected", "sleeping", "returned", "raised"}
  /\ error \in {Page!None, "ValueError", "HTTPError", "URLError", "other", "Banned", "timeout"}
  /\ retry \in Nat /\ retry <= opts.maxRetry + 1
  /\ DnsType
  /\ asked \in Nat /\ idle \in Nat

Attempting == where \in {"trying", "again", "connected"}

\* The pages that were read are those of earlier attempts, until the last
\* attempt has read one; data is the latest of them.
PagesInv ==
  /\ \A n \in DOMAIN pages : n \in 1..Page!attempt
  /\ where # "returned" /\ where # "raised" => \A n \in DOMAIN pages : n <= retry /\ pages[n] # "good"
  /\ Attempting => retry <= opts.maxRetry
  /\ retry > opts.maxRetry => \A n \in DOMAIN pages : n <= retry
  /\ \A n \in DOMAIN pages : pages[n] = "good" => n = Page!attempt /\ where = "returned"
  /\ IF DOMAIN pages = {} THEN data = Page!NoPage ELSE data \in DOMAIN pages /\ \A n \in DOMAIN pages : n <= data
  /\ pages = [n \in DOMAIN pages |-> pages[n]]

\* An exception waits only if it is wanted, and without one there is a page.
ErrorInv ==
  /\ Attempting => error = Page!None
  /\ where = "sleeping" => /\ error = Page!None \/ opts.rethrow
                           /\ error = Page!None /\ opts.rethrow => data # Page!NoPage
  /\ where = "returned" /\ opts.rethrow /\ ~opts.empty => data # Page!NoPage
  /\ where = "raised" /\ ~opts.rethrow => error \in {"other", "Banned"}

\* A held failure has been met once a count at most.
MetAsCounted == idle < Hold /\ (~dns.known /\ dns.held # Page!Unheld => idle <= dns.held)

\* A query of this attempt has left an address, which may have expired since,
\* or a failure that is held.
NamesInv ==
  /\ MetAsCounted
  /\ asked <= 1
  /\ where = "trying" => asked = 0
  /\ where = "again" /\ asked = 1 => dns.known \/ Page!Held

PageInv == PageTypes /\ PagesInv /\ ErrorInv /\ NamesInv

LEMMA PageInit == Page!Init => PageInv
<1> SUFFICES ASSUME Page!Init
             PROVE  PageInv
  OBVIOUS
<1>1. /\ opts \in Page!Options /\ opts.maxRetry \in Nat /\ retry = 0 /\ data = Page!NoPage
      /\ where = IF opts.empty THEN "returned" ELSE "trying"
      /\ error = Page!None /\ pages = <<>> /\ asked = 0 /\ idle = 0 /\ Hold \in Nat \ {0, 1}
      /\ dns = [known |-> FALSE, stale |-> FALSE, held |-> Page!Unheld]
  BY NetworkAssumption DEF Page!Init, Page!Entry, Page!NotKnown, Page!Options, Page!DownloadAssumption
<1>2. PageTypes
  BY <1>1 DEF PageTypes, DnsType
<1>3. PagesInv
  BY <1>1 DEF PagesInv, Page!attempt
<1>4. ErrorInv /\ NamesInv
  BY <1>1 DEF ErrorInv, NamesInv, MetAsCounted, Attempting
<1>5. QED
  BY <1>2, <1>3, <1>4 DEF PageInv

\* A lookup holds a failure for its number of calls, and asks at most once
\* in between.
LEMMA LookupKeepsNames ==
  ASSUME PageTypes, NEW found \in BOOLEAN, NEW first \in BOOLEAN, Page!Lookup(found, first),
         MetAsCounted,
         asked = 0 \/ (asked = 1 /\ (dns.known \/ Page!Held))
  PROVE  /\ DnsType' /\ asked' \in 0..1 /\ idle' \in Nat
         /\ MetAsCounted'
         /\ asked = 0 /\ asked' = 1 => dns'.known \/ (Page!Held)'
<1>0. /\ dns \in [known : BOOLEAN, stale : BOOLEAN, held : {Page!Unheld} \cup 0..(Hold - 1)]
      /\ dns.stale => dns.known
      /\ asked \in Nat /\ idle \in Nat /\ Hold \in Nat \ {0, 1} /\ Page!Unheld = -1
      /\ idle < Hold /\ (~dns.known /\ dns.held # Page!Unheld => idle <= dns.held)
      /\ Page!NotKnown = [known |-> FALSE, stale |-> FALSE, held |-> Page!Unheld]
  BY NetworkAssumption DEF PageTypes, DnsType, MetAsCounted, Page!DownloadAssumption, Page!Unheld, Page!NotKnown
<1>1. CASE UNCHANGED Page!names
  BY <1>0, <1>1 DEF Page!names, DnsType, MetAsCounted
<1>2. CASE dns.known /\ dns.stale /\ dns' = [dns EXCEPT !.stale = ~found] /\ UNCHANGED <<asked, idle>>
  <2>1. dns'.known /\ dns'.held = dns.held
    BY <1>0, <1>2
  <2>2. DnsType'
    BY <1>0, <1>2, <2>1 DEF DnsType
  <2>3. QED
    BY <1>0, <1>2, <2>1, <2>2 DEF MetAsCounted
<1>3. CASE Page!Held /\ dns' = [dns EXCEPT !.held = @ + 1] /\ asked' = asked
           /\ idle' = idle + IF first THEN 1 ELSE 0
  <2>1. ~dns.known /\ dns.held \in 0..(Hold - 2)
    BY <1>3 DEF Page!Held
  <2>2. /\ dns'.held = dns.held + 1 /\ dns'.known = dns.known /\ dns'.stale = dns.stale
        /\ dns'.held \in 0..(Hold - 1)
    BY <1>0, <1>3, <2>1
  <2>3. DnsType'
    BY <1>0, <1>3, <2>2 DEF DnsType
  <2>4. idle' \in Nat /\ idle' <= dns'.held /\ idle' < Hold
    BY <1>0, <1>3, <2>1, <2>2
  <2>5. QED
    BY <1>0, <1>3, <2>3, <2>4 DEF MetAsCounted
<1>4. CASE ~dns.known /\ ~Page!Held /\ asked' = asked + 1 /\ idle' = 0
           /\ dns' = [Page!NotKnown EXCEPT !.known = TRUE]
  <2>1. dns' = [known |-> TRUE, stale |-> FALSE, held |-> Page!Unheld]
    BY <1>0, <1>4
  <2>2. dns'.known /\ DnsType'
    BY <1>0, <2>1 DEF DnsType
  <2>3. MetAsCounted' /\ asked' \in {1, asked + 1}
    BY <1>0, <1>4, <2>2 DEF MetAsCounted
  <2>4. asked' \in 0..1 /\ idle' \in Nat
    BY <1>0, <1>4
  <2>5. QED
    BY <2>2, <2>3, <2>4
<1>5. CASE ~dns.known /\ ~Page!Held /\ asked' = asked + 1 /\ idle' = 0
           /\ dns' = [dns EXCEPT !.held = 0]
  <2>1. dns'.held = 0 /\ dns'.known = dns.known /\ dns'.stale = dns.stale
    BY <1>0, <1>5
  <2>2. DnsType'
    BY <1>0, <1>5, <2>1 DEF DnsType
  <2>3. (Page!Held)'
    BY <1>0, <1>5, <2>1 DEF Page!Held
  <2>4. MetAsCounted'
    BY <1>0, <1>5, <2>1 DEF MetAsCounted
  <2>5. QED
    BY <1>0, <1>5, <2>1, <2>2, <2>3, <2>4
<1>6. QED
  BY <1>1, <1>2, <1>3, <1>4, <1>5 DEF Page!Lookup

\* An address that expires, or is forgotten.
LEMMA AgeKeepsNames ==
  ASSUME PageTypes, NamesInv, Page!Age
  PROVE  DnsType' /\ NamesInv' /\ UNCHANGED <<where, asked, idle, Page!call>>
<1>0. /\ dns \in [known : BOOLEAN, stale : BOOLEAN, held : {Page!Unheld} \cup 0..(Hold - 1)]
      /\ dns.stale => dns.known
      /\ asked \in Nat /\ idle \in Nat /\ MetAsCounted
      /\ Page!NotKnown = [known |-> FALSE, stale |-> FALSE, held |-> Page!Unheld]
      /\ UNCHANGED <<where, asked, idle, Page!call>>
  BY DEF PageTypes, DnsType, NamesInv, Page!NotKnown, Page!Age
<1>1. CASE dns.known /\ ~dns.stale /\ dns' = [dns EXCEPT !.stale = TRUE]
  <2>1. dns'.known /\ dns'.held = dns.held
    BY <1>0, <1>1
  <2>2. DnsType'
    BY <1>0, <1>1, <2>1 DEF DnsType
  <2>3. MetAsCounted'
    BY <1>0, <2>1 DEF MetAsCounted
  <2>4. QED
    BY <1>0, <2>1, <2>2, <2>3 DEF NamesInv
<1>2. CASE ~(where = "again" /\ asked > 0) /\ dns' = Page!NotKnown
  <2>1. DnsType' /\ MetAsCounted'
    BY <1>0, <1>2 DEF DnsType, MetAsCounted
  <2>2. ~(where = "again" /\ asked = 1)
    BY <1>0, <1>2
  <2>3. QED
    BY <1>0, <2>1, <2>2 DEF NamesInv
<1>3. QED
  BY <1>1, <1>2 DEF Page!Age

LEMMA NamesStep == PageInv /\ [Page!Next]_Page!vars => NamesInv'
<1> SUFFICES ASSUME PageInv, [Page!Next]_Page!vars
             PROVE  NamesInv'
  OBVIOUS
<1>0. PageTypes /\ NamesInv
  BY DEF PageInv
<1>1. CASE UNCHANGED <<Page!names, where>>
  BY <1>0, <1>1 DEF NamesInv, MetAsCounted, Page!names, Page!Held
<1>2. CASE UNCHANGED Page!names /\ where' \notin {"trying", "again"}
  BY <1>0, <1>2 DEF NamesInv, MetAsCounted, Page!names, Page!Held
<1>3. CASE Page!FirstConnect
  <2>1. PICK found \in BOOLEAN : Page!Lookup(found, TRUE)
    BY <1>3 DEF Page!FirstConnect
  <2>2. where = "trying" /\ where' # "trying"
    BY <1>3 DEF Page!FirstConnect, Page!Raise
  <2>3. asked = 0 /\ MetAsCounted
    BY <1>0, <2>2 DEF NamesInv
  <2>4. /\ asked' \in 0..1
        /\ MetAsCounted'
        /\ asked' = 1 => dns'.known \/ (Page!Held)'
    BY <1>0, <2>1, <2>3, LookupKeepsNames
  <2>5. QED
    BY <2>2, <2>4 DEF NamesInv
<1>4. CASE Page!SecondConnect
  <2>1. PICK found \in BOOLEAN : Page!Lookup(found, FALSE)
    BY <1>4 DEF Page!SecondConnect
  <2>2. where = "again" /\ where' \notin {"trying", "again"}
    BY <1>4 DEF Page!SecondConnect, Page!GiveUp, Page!Raise
  <2>3. /\ MetAsCounted
        /\ asked = 0 \/ (asked = 1 /\ (dns.known \/ Page!Held))
    BY <1>0, <2>2 DEF NamesInv, PageTypes
  <2>4. asked' \in 0..1 /\ MetAsCounted'
    BY <1>0, <2>1, <2>3, LookupKeepsNames
  <2>5. QED
    BY <2>2, <2>4 DEF NamesInv
<1>5. CASE Page!Wake
  <2>1. UNCHANGED <<dns, idle>> /\ (asked' = 0 \/ (asked' = asked /\ where' \notin {"trying", "again"}))
    BY <1>5 DEF Page!Wake
  <2>2. QED
    BY <1>0, <2>1 DEF NamesInv, MetAsCounted, Page!Held
<1>6. CASE Page!Again
  <2>1. UNCHANGED <<dns, idle>> /\ asked' = 0
    BY <1>6 DEF Page!Again, Page!Fresh
  <2>2. QED
    BY <1>0, <2>1 DEF NamesInv, MetAsCounted, Page!Held
<1>7. CASE Page!BadUrl \/ Page!Good \/ Page!Banned \/ Page!Timeout
           \/ \E e \in {"HTTPError", "URLError", "other"} : Page!Fails(e)
  BY <1>2, <1>7 DEF Page!BadUrl, Page!Good, Page!Banned, Page!Timeout, Page!Fails, Page!GiveUp, Page!Raise,
                    Page!names
<1>8. CASE UNCHANGED Page!vars
  BY <1>1, <1>8 DEF Page!vars
<1>9. CASE Page!Age
  BY <1>0, <1>9, AgeKeepsNames
<1>10. QED
  BY <1>3, <1>4, <1>5, <1>6, <1>7, <1>8, <1>9 DEF Page!Next, Page!Step

\* What an attempt that reads no page changes of the download.
Unread == UNCHANGED <<opts, retry, data, pages, downloads>>

LEMMA GiveUpUnread ==
  ASSUME NEW e, Page!GiveUp(e)
  PROVE  /\ Unread
         /\ \/ where' = "raised" /\ error' = e /\ opts.rethrow
            \/ where' = "returned" /\ error' = error /\ ~opts.rethrow
BY DEF Page!GiveUp, Page!Raise, Page!call, Unread

\* What each step does to it.
LEMMA PageCases ==
  [Page!Next]_Page!vars =>
    \/ /\ Attempting /\ Unread
       /\ \/ where' \in {"again", "connected"} /\ error' = error
          \/ where' = "raised" /\ error' = "other"
          \/ where' = "raised" /\ error' \in {"ValueError", "HTTPError", "URLError"} /\ opts.rethrow
          \/ where' = "returned" /\ error' = error /\ ~opts.rethrow
    \/ Page!Good \/ Page!Banned \/ Page!Timeout \/ Page!Wake \/ Page!Again
    \/ UNCHANGED <<where, Page!call>>
<1> SUFFICES ASSUME [Page!Next]_Page!vars
             PROVE  \/ /\ Attempting /\ Unread
                       /\ \/ where' \in {"again", "connected"} /\ error' = error
                          \/ where' = "raised" /\ error' = "other"
                          \/ where' = "raised" /\ error' \in {"ValueError", "HTTPError", "URLError"} /\ opts.rethrow
                          \/ where' = "returned" /\ error' = error /\ ~opts.rethrow
                    \/ Page!Good \/ Page!Banned \/ Page!Timeout \/ Page!Wake \/ Page!Again
                    \/ UNCHANGED <<where, Page!call>>
  OBVIOUS
<1>1. CASE Page!BadUrl
  BY <1>1, GiveUpUnread DEF Page!BadUrl, Attempting
<1>2. CASE Page!FirstConnect
  BY <1>2 DEF Page!FirstConnect, Attempting, Page!Raise, Page!call, Unread
<1>3. CASE Page!SecondConnect
  BY <1>3, GiveUpUnread DEF Page!SecondConnect, Attempting, Page!call, Unread
<1>4. ASSUME NEW e \in {"HTTPError", "URLError", "other"}, Page!Fails(e)
      PROVE  /\ Attempting /\ Unread
             /\ \/ where' = "raised" /\ error' = "other"
                \/ where' = "raised" /\ error' \in {"ValueError", "HTTPError", "URLError"} /\ opts.rethrow
                \/ where' = "returned" /\ error' = error /\ ~opts.rethrow
  BY <1>4, GiveUpUnread DEF Page!Fails, Attempting, Page!Raise, Unread
<1>5. QED
  BY <1>1, <1>2, <1>3, <1>4 DEF Page!Next, Page!Step, Page!Age, Page!vars

LEMMA PageTypesStep == PageInv /\ [Page!Next]_Page!vars => PageTypes'
<1> SUFFICES ASSUME PageInv, [Page!Next]_Page!vars
             PROVE  PageTypes'
  OBVIOUS
<1>0. /\ PageTypes /\ NamesInv /\ opts.maxRetry \in Nat
      /\ Attempting => retry <= opts.maxRetry /\ error = Page!None
  BY DEF PageInv, PagesInv, ErrorInv, PageTypes, Page!Options
<1>1. /\ DnsType'
      /\ asked' \in Nat /\ idle' \in Nat
  <2>1. ASSUME NEW found \in BOOLEAN, NEW first \in BOOLEAN, Page!Lookup(found, first), where \in {"trying", "again"}
        PROVE  /\ DnsType'
               /\ asked' \in Nat /\ idle' \in Nat
    <3>1. /\ MetAsCounted
          /\ asked = 0 \/ (asked = 1 /\ (dns.known \/ Page!Held))
      BY <1>0, <2>1 DEF NamesInv, PageTypes
    <3>2. QED
      BY <1>0, <2>1, <3>1, LookupKeepsNames
  <2>2. CASE Page!FirstConnect \/ Page!SecondConnect
    BY <2>1, <2>2 DEF Page!FirstConnect, Page!SecondConnect
  <2>3. CASE UNCHANGED <<dns, idle>> /\ asked' \in {0, asked}
    BY <1>0, <2>3 DEF PageTypes, DnsType
  <2>4. CASE Page!Age
    <3>1. DnsType' /\ asked' = asked /\ idle' = idle
      BY <1>0, <2>4, AgeKeepsNames
    <3>2. QED
      BY <1>0, <3>1 DEF PageTypes
  <2>5. QED
    BY <2>2, <2>3, <2>4 DEF Page!Next, Page!Step, Page!BadUrl, Page!Good, Page!Banned, Page!Timeout, Page!Wake,
                      Page!Again, Page!Fresh, Page!Fails, Page!names, Page!vars
<1>2. /\ opts' \in Page!Options
      /\ where' \in {"trying", "again", "connected", "sleeping", "returned", "raised"}
      /\ error' \in {Page!None, "ValueError", "HTTPError", "URLError", "other", "Banned", "timeout"}
      /\ retry' \in Nat /\ retry' <= opts'.maxRetry + 1
  <2>1. CASE /\ Attempting /\ Unread /\ where' \in {"again", "connected", "raised", "returned"}
             /\ error' \in {error, "ValueError", "HTTPError", "URLError", "other"}
    BY <1>0, <2>1 DEF Unread, PageTypes
  <2>2. CASE Page!Good
    BY <1>0, <2>2 DEF Page!Good, PageTypes
  <2>3. CASE Page!Banned
    <3>1. /\ opts' = opts /\ where' \in {"raised", "sleeping"} /\ error' \in {"Banned", error}
          /\ retry' \in {retry, retry + 1} /\ retry <= opts.maxRetry
      BY <1>0, <2>3 DEF Page!Banned, Attempting
    <3>2. QED
      BY <1>0, <3>1 DEF PageTypes
  <2>4. CASE Page!Timeout
    <3>1. /\ opts' = opts /\ where' = "sleeping" /\ error' \in {"timeout", Page!None}
          /\ retry' = retry + 1 /\ retry <= opts.maxRetry
      BY <1>0, <2>4 DEF Page!Timeout, Attempting
    <3>2. QED
      BY <1>0, <3>1 DEF PageTypes
  <2>5. CASE Page!Wake
    BY <1>0, <2>5 DEF Page!Wake, PageTypes
  <2>6. CASE Page!Again
    BY <1>0, <2>6, NetworkAssumption DEF Page!Again, Page!Fresh, Page!Entry, Page!Options, Page!DownloadAssumption
  <2>7. CASE UNCHANGED <<where, Page!call>>
    BY <1>0, <2>7 DEF Page!call, PageTypes
  <2>8. QED
    BY <2>1, <2>2, <2>3, <2>4, <2>5, <2>6, <2>7, PageCases
<1>3. QED
  BY <1>1, <1>2 DEF PageTypes

\* The page of this attempt becomes the latest one.
LEMMA PageIsLatest ==
  ASSUME PageTypes, PagesInv, Attempting, NEW kind, pages' = Page!Page(kind), data' = Page!attempt
  PROVE  /\ \A n \in DOMAIN pages' : n \in 1..Page!attempt
         /\ data' \in DOMAIN pages' /\ \A n \in DOMAIN pages' : n <= data'
         /\ pages' = [n \in DOMAIN pages' |-> pages'[n]] /\ Page!attempt = retry + 1
         /\ \A n \in DOMAIN pages' : pages'[n] = "good" => n = Page!attempt /\ kind = "good"
<1>1. retry \in Nat /\ \A n \in DOMAIN pages : n \in 1..retry /\ pages[n] # "good"
  BY DEF PageTypes, PagesInv, Attempting, Page!attempt
<1>2. DOMAIN pages' = (DOMAIN pages) \cup {retry + 1}
  BY DEF Page!Page, Page!attempt
<1>3. \A n \in DOMAIN pages' : pages'[n] = IF n = retry + 1 THEN kind ELSE pages[n]
  BY <1>2 DEF Page!Page, Page!attempt
<1>4. pages' = [n \in DOMAIN pages' |-> pages'[n]]
  BY DEF Page!Page
<1>5. QED
  BY <1>1, <1>2, <1>3, <1>4 DEF Page!attempt

LEMMA PagesStep == PageInv /\ [Page!Next]_Page!vars => PagesInv'
<1> SUFFICES ASSUME PageInv, [Page!Next]_Page!vars
             PROVE  PagesInv'
  OBVIOUS
<1>0. PageTypes /\ PagesInv /\ retry \in Nat /\ opts.maxRetry \in Nat
  BY DEF PageInv, PageTypes, Page!Options
<1>1. CASE /\ Attempting /\ Unread
           /\ where' \in {"again", "connected", "raised", "returned"}
  <2>1. retry <= opts.maxRetry /\ \A n \in DOMAIN pages : n <= retry /\ pages[n] # "good"
    BY <1>0, <1>1 DEF Attempting, PagesInv
  <2>2. QED
    BY <1>0, <1>1, <2>1 DEF PagesInv, Unread, Page!attempt, Attempting
<1>2. CASE Page!Good
  <2>1. /\ where = "connected" /\ where' = "returned" /\ UNCHANGED <<opts, retry>>
        /\ pages' = Page!Page("good") /\ data' = Page!attempt
    BY <1>2 DEF Page!Good
  <2>2. Attempting /\ retry <= opts.maxRetry
    BY <1>0, <2>1 DEF Attempting, PagesInv
  <2>3. QED
    BY <1>0, <2>1, <2>2, PageIsLatest DEF PagesInv, Page!attempt, Attempting
<1>3. CASE Page!Banned
  <2>1. /\ where = "connected" /\ UNCHANGED opts
        /\ pages' = Page!Page("banned") /\ data' = Page!attempt
        /\ \/ where' = "raised" /\ retry' = retry
           \/ where' = "sleeping" /\ retry' = retry + 1
    BY <1>3 DEF Page!Banned
  <2>2. Attempting /\ retry <= opts.maxRetry
    BY <1>0, <2>1 DEF Attempting, PagesInv
  <2>3. /\ \A n \in DOMAIN pages' : n \in 1..(retry + 1) /\ pages'[n] # "good"
        /\ data' \in DOMAIN pages' /\ \A n \in DOMAIN pages' : n <= data'
        /\ pages' = [n \in DOMAIN pages' |-> pages'[n]]
    BY <1>0, <2>1, <2>2, PageIsLatest
  <2>4. QED
    BY <1>0, <2>1, <2>2, <2>3 DEF PagesInv, Page!attempt, Attempting
<1>4. CASE Page!Timeout
  <2>1. where = "connected" /\ where' = "sleeping" /\ retry' = retry + 1 /\ UNCHANGED <<opts, data, pages>>
    BY <1>4 DEF Page!Timeout
  <2>2. retry <= opts.maxRetry /\ \A n \in DOMAIN pages : n <= retry /\ pages[n] # "good"
    BY <1>0, <2>1 DEF Attempting, PagesInv
  <2>3. QED
    BY <1>0, <2>1, <2>2 DEF PagesInv, Page!attempt, Attempting
<1>5. CASE Page!Wake
  <2>1. /\ where = "sleeping" /\ UNCHANGED <<opts, retry, data, pages>>
        /\ where' \in {"raised", "returned"} \/ (where' = "trying" /\ retry <= opts.maxRetry)
    BY <1>5 DEF Page!Wake
  <2>2. \A n \in DOMAIN pages : n <= retry /\ pages[n] # "good"
    BY <1>0, <2>1 DEF PagesInv
  <2>3. QED
    BY <1>0, <2>1, <2>2 DEF PagesInv, Page!attempt, Attempting
<1>6. CASE Page!Again
  <2>1. where' \in {"trying", "returned"} /\ retry' = 0 /\ pages' = <<>> /\ data' = Page!NoPage /\ opts'.maxRetry \in Nat
    BY <1>6, NetworkAssumption DEF Page!Again, Page!Fresh, Page!Entry, Page!Options, Page!DownloadAssumption
  <2>2. QED
    BY <2>1 DEF PagesInv, Page!attempt
<1>7. CASE UNCHANGED <<where, Page!call>>
  BY <1>0, <1>7 DEF Page!call, PagesInv, Page!attempt, Attempting
<1>8. QED
  BY <1>1, <1>2, <1>3, <1>4, <1>5, <1>6, <1>7, PageCases

LEMMA ErrorStep == PageInv /\ [Page!Next]_Page!vars => ErrorInv'
<1> SUFFICES ASSUME PageInv, [Page!Next]_Page!vars
             PROVE  ErrorInv'
  OBVIOUS
<1>0. PageTypes /\ PagesInv /\ ErrorInv /\ retry \in Nat /\ Page!attempt # Page!NoPage
  BY DEF PageInv, PageTypes, Page!attempt, Page!NoPage
<1>1. CASE /\ Attempting /\ Unread
           /\ \/ where' \in {"again", "connected"} /\ error' = error
              \/ where' = "raised" /\ error' = "other"
              \/ where' = "raised" /\ error' \in {"ValueError", "HTTPError", "URLError"} /\ opts.rethrow
              \/ where' = "returned" /\ error' = error /\ ~opts.rethrow
  BY <1>0, <1>1 DEF ErrorInv, Unread, Attempting
<1>2. CASE Page!Good
  BY <1>0, <1>2 DEF Page!Good, ErrorInv, Attempting
<1>3. CASE Page!Banned
  <2>1. /\ where = "connected" /\ data' = Page!attempt
        /\ \/ where' = "raised" /\ error' = "Banned"
           \/ where' = "sleeping" /\ error' = error
    BY <1>3 DEF Page!Banned
  <2>2. error = Page!None
    BY <1>0, <2>1 DEF ErrorInv, Attempting
  <2>3. QED
    BY <1>0, <2>1, <2>2 DEF ErrorInv, Attempting
<1>4. CASE Page!Timeout
  <2>1. /\ where' = "sleeping" /\ UNCHANGED opts
        /\ error' = IF opts.rethrow THEN "timeout" ELSE Page!None
    BY <1>4 DEF Page!Timeout
  <2>2. QED
    BY <2>1 DEF ErrorInv, Attempting, Page!None
<1>5. CASE Page!Wake
  BY <1>0, <1>5 DEF Page!Wake, ErrorInv, Attempting
<1>6. CASE Page!Again
  BY <1>6 DEF Page!Again, Page!Fresh, Page!Entry, ErrorInv, Attempting
<1>7. CASE UNCHANGED <<where, Page!call>>
  BY <1>0, <1>7 DEF Page!call, ErrorInv, Attempting
<1>8. QED
  BY <1>1, <1>2, <1>3, <1>4, <1>5, <1>6, <1>7, PageCases

LEMMA Pages == LiveSpec => [](part = "download" => PageInv)
<1>1. Init => (part = "download" => PageInv)
  BY PageInit DEF Init
<1>2. (part = "download" => PageInv) /\ [Next]_vars => (part = "download" => PageInv)'
  BY PageTypesStep, PagesStep, ErrorStep, NamesStep, PartsStayApart DEF PageInv
<1>3. QED
  BY <1>1, <1>2, PTL DEF LiveSpec

(* A download returns the last page that one of its attempts read, whether *)
(* or not a later attempt failed; with rethrow it returns none without a   *)
(* page, but for an empty url; it raises only what it is asked to raise;   *)
(* and, whenever addresses expire or are forgotten, a name that the cache  *)
(* does not have is asked for once in an attempt, and a name that could    *)
(* not be resolved again before Hold attempts have met its failure.        *)
THEOREM PagesAreAsAsked == LiveSpec => []PageIsAsAsked
<1>1. PageInv => Page!TypeOK /\ Page!ReturnsLastPage /\ Page!EndsAsAsked /\ Page!HeldIsRetried
  <2> SUFFICES ASSUME PageInv
               PROVE  Page!TypeOK /\ Page!ReturnsLastPage /\ Page!EndsAsAsked /\ Page!HeldIsRetried
    OBVIOUS
  <2>0. PageTypes /\ PagesInv /\ ErrorInv /\ NamesInv /\ opts.maxRetry \in Nat /\ Hold \in Nat \ {0, 1}
    BY NetworkAssumption DEF PageInv, PageTypes, Page!Options, Page!DownloadAssumption
  <2>1. Page!TypeOK
    <3>1. DOMAIN pages \subseteq 1..(opts.maxRetry + 1)
      BY <2>0 DEF PageTypes, PagesInv, Page!attempt
    <3>2. data \in DOMAIN pages \cup {Page!NoPage}
      BY <2>0 DEF PagesInv
    <3>3. dns.held \in {Page!Unheld} \cup 0..Hold /\ (dns.stale => dns.known)
      BY <2>0 DEF PageTypes, DnsType
    <3>4. QED
      BY <2>0, <3>1, <3>2, <3>3 DEF Page!TypeOK, PageTypes
  <2>2. Page!ReturnsLastPage
    <3>1. pages = <<>> <=> DOMAIN pages = {}
      BY <2>0 DEF PagesInv
    <3>2. QED
      BY <2>0, <3>1 DEF PagesInv, Page!ReturnsLastPage
  <2>3. Page!EndsAsAsked
    BY <2>0 DEF PagesInv, ErrorInv, Page!EndsAsAsked
  <2>4. Page!HeldIsRetried
    BY <2>0 DEF NamesInv, MetAsCounted, Page!HeldIsRetried
  <2>5. QED
    BY <2>1, <2>2, <2>3, <2>4
<1>2. QED
  BY <1>1, Pages, PTL DEF PageIsAsAsked

-----------------------------------------------------------------------------
(* The response of the keep-alive handler.                                 *)

Chars == {Response!LF, "x"}

LEMMA SmallestOf ==
  ASSUME NEW T, T \subseteq Nat, T # {}
  PROVE  \E x \in T : \A y \in T : x <= y
<1>1. PICK x \in T : \A y \in T : ~ (<<y, x>> \in OpToRel(<, Nat))
  BY NatLessThanWellFounded, WFMin
<1>2. \A y \in T : ~ (y < x)
  BY <1>1 DEF OpToRel
<1>3. QED
  BY <1>2

\* A sequence, cut in two.
LEMMA CutInTwo ==
  ASSUME NEW S, NEW s \in Seq(S), NEW n \in 0..Len(s)
  PROVE  /\ Response!Start(s, n) \in Seq(S) /\ Len(Response!Start(s, n)) = n
         /\ \A i \in 1..n : Response!Start(s, n)[i] = s[i]
         /\ Response!After(s, n) \in Seq(S) /\ Len(Response!After(s, n)) = Len(s) - n
         /\ Response!Start(s, n) \o Response!After(s, n) = s
<1>1. n \in Nat /\ Len(s) \in Nat /\ n <= Len(s) /\ \A i \in 1..Len(s) : s[i] \in S
  OBVIOUS
<1>2. /\ SubSeq(s, 1, n) \in Seq(S) /\ Len(SubSeq(s, 1, n)) = n
      /\ \A i \in 1..n : SubSeq(s, 1, n)[i] = s[i]
  BY <1>1, SubSeqProperties
<1>3. /\ SubSeq(s, n + 1, Len(s)) \in Seq(S) /\ Len(SubSeq(s, n + 1, Len(s))) = Len(s) - n
      /\ \A i \in 1..(Len(s) - n) : SubSeq(s, n + 1, Len(s))[i] = s[n + i]
  <2> DEFINE m == n + 1
             k == Len(s)
  <2>1. m \in Int /\ k \in Int /\ \A i \in m..k : s[i] \in S
    BY <1>1
  <2> HIDE DEF m, k
  <2>2. /\ SubSeq(s, m, k) \in Seq(S) /\ Len(SubSeq(s, m, k)) = IF m <= k THEN k - m + 1 ELSE 0
        /\ \A i \in 1..(k - m + 1) : SubSeq(s, m, k)[i] = s[m + i - 1]
    BY <2>1, SubSeqProperties
  <2>3. m = n + 1 /\ k = Len(s)
    BY DEF m, k
  <2>4. Len(SubSeq(s, m, k)) = Len(s) - n
    BY <1>1, <2>2, <2>3
  <2>5. \A i \in 1..(Len(s) - n) : SubSeq(s, m, k)[i] = s[n + i]
    <3>1. TAKE i \in 1..(Len(s) - n)
    <3>2. i \in 1..(k - m + 1) /\ m + i - 1 = n + i
      BY <1>1, <2>3
    <3>3. QED
      BY <2>2, <3>2
  <2>6. QED
    BY <2>2, <2>3, <2>4, <2>5
<1>4. SubSeq(s, 1, n) \o SubSeq(s, n + 1, Len(s)) = s
  <2> DEFINE u == SubSeq(s, 1, n)
             v == SubSeq(s, n + 1, Len(s))
  <2>1. u \in Seq(S) /\ v \in Seq(S) /\ Len(u) = n /\ Len(v) = Len(s) - n
    BY <1>2, <1>3
  <2>2. \A i \in 1..n : u[i] = s[i]
    BY <1>2
  <2>3. \A i \in 1..(Len(s) - n) : v[i] = s[n + i]
    BY <1>3
  <2> HIDE DEF u, v
  <2>4. u \o v \in Seq(S) /\ Len(u \o v) = Len(s)
    BY <1>1, <2>1, ConcatProperties
  <2>5. \A i \in 1..Len(s) : (u \o v)[i] = s[i]
    <3>1. TAKE i \in 1..Len(s)
    <3>2. i \in 1..(Len(u) + Len(v))
      BY <1>1, <2>1
    <3>3. (u \o v)[i] = IF i <= Len(u) THEN u[i] ELSE v[i - Len(u)]
      BY <2>1, <3>2
    <3>4. CASE i <= n
      BY <1>1, <2>1, <2>2, <3>3, <3>4
    <3>5. CASE ~(i <= n)
      <4>1. i - n \in 1..(Len(s) - n) /\ n + (i - n) = i
        BY <1>1, <3>5
      <4>2. QED
        BY <1>1, <2>1, <2>3, <3>3, <3>5, <4>1
    <3>6. QED
      BY <3>4, <3>5
  <2>6. u \o v = s
    BY <2>4, <2>5, SeqEqual
  <2>7. QED
    BY <2>6 DEF u, v
<1>5. QED
  BY <1>2, <1>3, <1>4 DEF Response!Start, Response!After

\* The first line feed, if there is one.
LEMMA FindFirst ==
  ASSUME NEW s \in Seq(Chars)
  PROVE  LET f == Response!Find(s)
         IN  /\ f \in 0..Len(s)
             /\ f = 0 => \A i \in DOMAIN s : s[i] # Response!LF
             /\ f > 0 => s[f] = Response!LF /\ \A i \in 1..(f - 1) : s[i] # Response!LF
<1>1. CASE Response!LF \notin Response!ToSet(s)
  BY <1>1 DEF Response!Find, Response!ToSet
<1>2. CASE Response!LF \in Response!ToSet(s)
  <2> DEFINE feeds == {i \in DOMAIN s : s[i] = Response!LF}
  <2>1. feeds # {} /\ feeds \subseteq Nat
    BY <1>2 DEF Response!ToSet
  <2>2. PICK i \in feeds : \A j \in feeds : i <= j
    BY <2>1, SmallestOf
  <2>3. \A j \in DOMAIN s : /\ Response!Start(s, j - 1) \in Seq(Chars) /\ Len(Response!Start(s, j - 1)) = j - 1
                            /\ \A k \in 1..(j - 1) : Response!Start(s, j - 1)[k] = s[k]
    <3>1. \A j \in DOMAIN s : j - 1 \in 0..Len(s)
      OBVIOUS
    <3>2. QED
      BY <3>1, CutInTwo
  <2>4. \A j \in DOMAIN s : Response!LF \notin Response!ToSet(Response!Start(s, j - 1))
                              <=> \A k \in 1..(j - 1) : s[k] # Response!LF
    <3>1. TAKE j \in DOMAIN s
    <3>2. DOMAIN Response!Start(s, j - 1) = 1..(j - 1)
      BY <2>3
    <3>3. QED
      BY <2>3, <3>2 DEF Response!ToSet
  <2>5. s[i] = Response!LF /\ Response!LF \notin Response!ToSet(Response!Start(s, i - 1))
    BY <2>2, <2>4
  <2>6. /\ Response!Find(s) \in DOMAIN s /\ s[Response!Find(s)] = Response!LF
        /\ Response!LF \notin Response!ToSet(Response!Start(s, Response!Find(s) - 1))
    BY <1>2, <2>2, <2>5 DEF Response!Find
  <2>7. QED
    BY <2>4, <2>6
<1>3. QED
  BY <1>1, <1>2

Grouped(a, b, c) == (a \o b) \o c = a \o (b \o c)

LEMMA Regroup ==
  ASSUME NEW S, NEW a \in Seq(S), NEW b \in Seq(S), NEW c \in Seq(S)
  PROVE  Grouped(a, b, c)
<1> DEFINE ab == a \o b
           bc == b \o c
<1>1. /\ ab \in Seq(S) /\ Len(ab) = Len(a) + Len(b)
      /\ \A i \in 1..(Len(a) + Len(b)) : ab[i] = IF i <= Len(a) THEN a[i] ELSE b[i - Len(a)]
  BY ConcatProperties
<1>2. /\ bc \in Seq(S) /\ Len(bc) = Len(b) + Len(c)
      /\ \A i \in 1..(Len(b) + Len(c)) : bc[i] = IF i <= Len(b) THEN b[i] ELSE c[i - Len(b)]
  BY ConcatProperties
<1>0. ab \in Seq(S) /\ bc \in Seq(S)
  BY <1>1, <1>2
<1>3. Len(a) \in Nat /\ Len(b) \in Nat /\ Len(c) \in Nat
  OBVIOUS
<1> HIDE DEF ab, bc
<1> DEFINE l == ab \o c
           r == a \o bc
<1>4. /\ l \in Seq(S) /\ Len(l) = Len(ab) + Len(c)
      /\ \A i \in 1..(Len(ab) + Len(c)) : l[i] = IF i <= Len(ab) THEN ab[i] ELSE c[i - Len(ab)]
  BY <1>0, ConcatProperties, Zenon
<1>5. /\ r \in Seq(S) /\ Len(r) = Len(a) + Len(bc)
      /\ \A i \in 1..(Len(a) + Len(bc)) : r[i] = IF i <= Len(a) THEN a[i] ELSE bc[i - Len(a)]
  BY <1>0, ConcatProperties, Zenon
<1> HIDE DEF l, r
<1>6. Len(l) = Len(r) /\ Len(l) = Len(a) + Len(b) + Len(c)
  BY <1>1, <1>2, <1>3, <1>4, <1>5
<1>7. ASSUME NEW i \in 1..Len(l) PROVE l[i] = r[i]
  <2>1. i \in 1..(Len(ab) + Len(c)) /\ i \in 1..(Len(a) + Len(bc)) /\ i \in Nat
    BY <1>1, <1>3, <1>4, <1>5, <1>6
  <2>2. CASE i <= Len(a)
    <3>1. l[i] = a[i]
      BY <1>1, <1>3, <1>4, <2>1, <2>2
    <3>2. r[i] = a[i]
      BY <1>5, <2>1, <2>2
    <3>3. QED
      BY <3>1, <3>2
  <2>3. CASE ~(i <= Len(a)) /\ i <= Len(a) + Len(b)
    <3>1. l[i] = b[i - Len(a)]
      BY <1>1, <1>3, <1>4, <2>1, <2>3
    <3>2. r[i] = bc[i - Len(a)]
      BY <1>5, <2>1, <2>3
    <3>3. i - Len(a) \in 1..(Len(b) + Len(c)) /\ i - Len(a) <= Len(b)
      BY <1>3, <2>1, <2>3
    <3>4. QED
      BY <1>2, <3>1, <3>2, <3>3
  <2>4. CASE ~(i <= Len(a) + Len(b))
    <3>1. l[i] = c[i - Len(ab)]
      BY <1>1, <1>3, <1>4, <2>1, <2>4
    <3>2. r[i] = bc[i - Len(a)]
      BY <1>3, <1>5, <2>1, <2>4
    <3>3. i - Len(a) \in 1..(Len(b) + Len(c)) /\ ~(i - Len(a) <= Len(b)) /\ (i - Len(a)) - Len(b) = i - Len(ab)
      BY <1>1, <1>2, <1>3, <1>5, <2>1, <2>4
    <3>4. bc[i - Len(a)] = c[(i - Len(a)) - Len(b)]
      BY <1>2, <3>3
    <3>5. QED
      BY <3>1, <3>2, <3>3, <3>4
  <2>5. QED
    BY <2>2, <2>3, <2>4
<1>8. l = r
  BY <1>4, <1>5, <1>6, <1>7, SeqEqual
<1>9. QED
  BY <1>8 DEF l, r, ab, bc, Grouped

\* What a call takes out of the buffer and of the body goes on with what it
\* leaves.
LEMMA BufferAndRest ==
  ASSUME NEW S, NEW b \in Seq(S), NEW r \in Seq(S), NEW n \in 0..Len(r)
  PROVE  LET buf == b \o Response!Start(r, n)
         IN  /\ buf \in Seq(S) /\ Len(buf) = Len(b) + n
             /\ buf \o Response!After(r, n) = b \o r
<1>1. /\ Response!Start(r, n) \in Seq(S) /\ Len(Response!Start(r, n)) = n
      /\ Response!After(r, n) \in Seq(S) /\ Response!Start(r, n) \o Response!After(r, n) = r
  BY CutInTwo
<1>2. QED
  <2>1. Grouped(b, Response!Start(r, n), Response!After(r, n))
    BY <1>1, Regroup
  <2>2. (b \o Response!Start(r, n)) \o Response!After(r, n) = b \o (Response!Start(r, n) \o Response!After(r, n))
    BY <2>1 DEF Grouped
  <2>3. QED
    BY <1>1, <2>2, ConcatProperties

\* readline() stops filling the buffer when it has a line, or enough for its
\* most, or everything.
LEMMA ReadsEnough ==
  ASSUME NEW most \in Int, raw \in Seq(Chars), rbuf \in Seq(Chars)
  PROVE  LET n == Response!Reads(most)
         IN  /\ n \in 0..Len(raw)
             /\ n = Len(raw) \/ Response!Enough(rbuf \o Response!Start(raw, n), most)
<1> DEFINE Buf(k) == rbuf \o Response!Start(raw, Response!Least(k * RBufSize, Len(raw)))
           last_k == (Len(raw) + RBufSize - 1) \div RBufSize
           enough == {k \in 0..last_k : Response!Enough(Buf(k), most)}
<1>1. RBufSize \in Nat \ {0} /\ Len(raw) \in Nat
  BY NetworkAssumption DEF Response!ResponseBufferAssumption
<1>2. CASE enough = {}
  BY <1>1, <1>2 DEF Response!Reads
<1>3. CASE enough # {}
  <2>1. enough \subseteq Nat
    BY <1>1
  <2>2. \E k \in enough : \A j \in enough : k <= j
    BY <1>3, <2>1, SmallestOf
  <2> DEFINE least == CHOOSE k \in enough : \A j \in enough : k <= j
  <2>3. least \in enough
    BY <2>2
  <2>4. Response!Reads(most) = Response!Least(least * RBufSize, Len(raw))
    BY <1>3 DEF Response!Reads
  <2>5. Response!Enough(Buf(least), most) /\ least \in Nat
    BY <2>1, <2>3
  <2> HIDE DEF least
  <2>6. least * RBufSize \in Nat
    BY <1>1, <2>5
  <2>7. QED
    BY <1>1, <2>4, <2>5, <2>6 DEF Response!Least
<1>4. QED
  BY <1>2, <1>3

\* What readline takes, and with no most whether that is a line.
LEMMA LineTaken ==
  ASSUME NEW most \in {Response!All} \cup Nat, raw \in Seq(Chars), rbuf \in Seq(Chars)
  PROVE  LET t == Response!TakeLine(most)
         IN  /\ t.data \in Seq(Chars) /\ t.rest \in Seq(Chars) /\ t.raw \in Seq(Chars)
             /\ (t.data \o t.rest) \o t.raw = rbuf \o raw
             /\ most # Response!All => Len(t.data) <= most
             /\ most = Response!All =>
                  /\ \A i \in 1..(Len(t.data) - 1) : t.data[i] # Response!LF
                  /\ \/ Len(t.data) > 0 /\ t.data[Len(t.data)] = Response!LF
                     \/ t.rest = <<>> /\ t.raw = <<>>
<1> DEFINE n   == Response!Reads(most)
           buf == rbuf \o Response!Start(raw, n)
           k   == Response!Line(buf, most)
           f   == Response!Find(buf)
<1>0. most \in Int /\ Response!All = -1 /\ (most = Response!All \/ most \in Nat)
  BY DEF Response!All
<1>1. n \in 0..Len(raw) /\ (n = Len(raw) \/ Response!Enough(buf, most))
  BY <1>0, ReadsEnough
<1> HIDE DEF n
<1>2. buf \in Seq(Chars) /\ buf \o Response!After(raw, n) = rbuf \o raw
  BY <1>1, BufferAndRest
<1>3. Response!After(raw, n) \in Seq(Chars) /\ Len(Response!After(raw, n)) = Len(raw) - n
  BY <1>1, CutInTwo
<1> HIDE DEF buf
<1>4. /\ f \in 0..Len(buf)
      /\ f = 0 => \A i \in DOMAIN buf : buf[i] # Response!LF
      /\ f > 0 => buf[f] = Response!LF /\ \A i \in 1..(f - 1) : buf[i] # Response!LF
  BY <1>2, FindFirst
<1>5. /\ k = IF 0 <= most /\ most < Len(buf) THEN most ELSE IF f > 0 THEN f ELSE Len(buf)
      /\ Response!Enough(buf, most) => f > 0 \/ 0 < most
  BY DEF Response!Line, Response!Enough
<1> HIDE DEF f, k
<1>6. k \in 0..Len(buf) /\ (most # Response!All => k <= most) /\ Len(buf) \in Nat /\ Len(raw) \in Nat
  BY <1>0, <1>2, <1>4, <1>5
<1>7. /\ Response!Start(buf, k) \in Seq(Chars) /\ Len(Response!Start(buf, k)) = k
      /\ \A i \in 1..k : Response!Start(buf, k)[i] = buf[i]
      /\ Response!After(buf, k) \in Seq(Chars) /\ Len(Response!After(buf, k)) = Len(buf) - k
      /\ Response!Start(buf, k) \o Response!After(buf, k) = buf
  BY <1>2, <1>6, CutInTwo
<1>8. /\ Response!TakeLine(most).data = Response!Start(buf, k)
      /\ Response!TakeLine(most).rest = Response!After(buf, k)
      /\ Response!TakeLine(most).raw = Response!After(raw, n)
  BY DEF Response!TakeLine, n, buf, k
<1> DEFINE line == Response!Start(buf, k)
           rest == Response!After(buf, k)
           more == Response!After(raw, n)
<1>9. ASSUME most = Response!All
      PROVE  /\ \A i \in 1..(Len(line) - 1) : line[i] # Response!LF
             /\ \/ Len(line) > 0 /\ line[Len(line)] = Response!LF
                \/ rest = <<>> /\ more = <<>>
  <2>1. CASE f > 0
    <3>1. k = f
      BY <1>0, <1>5, <1>9, <2>1
    <3>2. k \in 1..k /\ \A i \in 1..(k - 1) : i \in 1..k
      BY <1>4, <2>1, <3>1
    <3>3. QED
      BY <1>4, <1>7, <2>1, <3>1, <3>2
  <2>2. CASE f = 0
    <3>1. k = Len(buf) /\ n = Len(raw)
      BY <1>0, <1>1, <1>5, <1>9, <2>2
    <3>2. Len(rest) = 0 /\ Len(more) = 0
      BY <1>3, <1>6, <1>7, <3>1
    <3>3. rest = <<>> /\ more = <<>>
      BY <1>3, <1>7, <3>2
    <3>4. \A i \in 1..(k - 1) : i \in 1..k /\ i \in DOMAIN buf
      BY <1>2, <1>6, <3>1
    <3>5. QED
      BY <1>4, <1>7, <2>2, <3>3, <3>4
  <2>3. QED
    BY <1>2, <1>4, <2>1, <2>2
<1> HIDE DEF line, rest, more
<1>10. QED
  BY <1>2, <1>3, <1>6, <1>7, <1>8, <1>9 DEF line, rest, more

ResponseTypes ==
  /\ body \in Seq(Chars) /\ Len(body) <= MaxBody
  /\ raw \in Seq(Chars) /\ rbuf \in Seq(Chars) /\ given \in Seq(Chars)
  /\ latest \in [call : {"none", "read", "readline", "readlines"}, arg : -1..MaxBody, data : Seq(Chars)]
  /\ calls \in 0..MaxCalls /\ total \in {Response!Idle} \cup Nat

\* Between two rounds of readlines: the lines so far are among what was given,
\* and the hint is not reached.
RoundInv ==
  total # Response!Idle =>
    /\ latest.call = "readlines" /\ total = Len(latest.data)
    /\ Len(latest.data) <= Len(given)
    /\ latest.arg > 0 => total < latest.arg

ResponseInv ==
  /\ ResponseTypes /\ RoundInv
  /\ Response!NothingLost /\ Response!ReadIsFull /\ Response!LineIsLine /\ Response!LinesAreWhole

LEMMA ResponseInit == Response!Init => ResponseInv
<1> SUFFICES ASSUME Response!Init
             PROVE  ResponseInv
  OBVIOUS
<1> USE DEF Response!Init
<1>1. body \in Seq(Chars) /\ Len(body) <= MaxBody
  <2>1. PICK n \in 0..MaxBody : body \in [1..n -> Chars]
    BY DEF Chars
  <2>2. MaxBody \in Nat
    BY NetworkAssumption DEF Response!ResponseBufferAssumption
  <2>3. QED
    BY <2>1, <2>2
<1>2. ResponseTypes
  <2>1. MaxBody \in Nat /\ MaxCalls \in Nat
    BY NetworkAssumption DEF Response!ResponseBufferAssumption
  <2>2. <<>> \in Seq(Chars)
    OBVIOUS
  <2>3. latest \in [call : {"none", "read", "readline", "readlines"}, arg : -1..MaxBody, data : Seq(Chars)]
    BY <2>1, <2>2 DEF Response!All
  <2>4. QED
    BY <1>1, <2>1, <2>2, <2>3 DEF ResponseTypes
<1>3. Response!NothingLost
  <2>1. (<<>> \o <<>>) \o body = body
    BY <1>1
  <2>2. QED
    BY <2>1 DEF Response!NothingLost
<1>4. QED
  BY <1>2, <1>3 DEF ResponseInv, RoundInv, Response!ReadIsFull, Response!LineIsLine, Response!LinesAreWhole

\* What a call with nothing before it returns, and what the calls have then.
LEMMA Returned ==
  ASSUME ResponseTypes, Response!NothingLost,
         NEW call \in {"read", "readline", "readlines"}, NEW arg \in -1..MaxBody,
         NEW before \in Seq(Chars), NEW new \in Seq(Chars),
         rbuf' \in Seq(Chars), raw' \in Seq(Chars),
         (new \o rbuf') \o raw' = rbuf \o raw,
         Response!Return(call, arg, before, new), body' = body,
         calls' \in 0..MaxCalls, total' \in {Response!Idle} \cup Nat
  PROVE  /\ ResponseTypes' /\ Response!NothingLost'
         /\ latest' = [call |-> call, arg |-> arg, data |-> before \o new]
         /\ given' = given \o new
<1>1. given' = given \o new /\ latest' = [call |-> call, arg |-> arg, data |-> before \o new]
  BY DEF Response!Return
<1>2. given' \in Seq(Chars) /\ before \o new \in Seq(Chars)
  BY <1>1, ConcatProperties DEF ResponseTypes
<1>3. ResponseTypes'
  BY <1>1, <1>2 DEF ResponseTypes
<1>4. (given' \o rbuf') \o raw' = (given \o rbuf) \o raw
  <2> DEFINE b2 == rbuf'
             r2 == raw'
  <2>1. /\ given \in Seq(Chars) /\ rbuf \in Seq(Chars) /\ raw \in Seq(Chars)
        /\ b2 \in Seq(Chars) /\ r2 \in Seq(Chars) /\ (new \o b2) \o r2 = rbuf \o raw
    BY DEF ResponseTypes
  <2> HIDE DEF b2, r2
  <2> DEFINE m == new \o b2
  <2>2. m \in Seq(Chars)
    BY <2>1, ConcatProperties, Zenon
  <2> HIDE DEF m
  <2>3. Grouped(given, new, b2) /\ Grouped(given, rbuf, raw) /\ Grouped(given, m, r2)
    BY <2>1, <2>2, Regroup
  <2>4. (given \o new) \o b2 = given \o m /\ m \o r2 = rbuf \o raw
    BY <2>1, <2>3 DEF m, Grouped
  <2>5. (given \o m) \o r2 = given \o (m \o r2) /\ (given \o rbuf) \o raw = given \o (rbuf \o raw)
    BY <2>3 DEF Grouped
  <2>6. ((given \o new) \o b2) \o r2 = (given \o rbuf) \o raw
    BY <2>4, <2>5, Zenon
  <2>7. QED
    BY <1>1, <2>6 DEF b2, r2
<1>5. QED
  BY <1>1, <1>3, <1>4 DEF Response!NothingLost

LEMMA ReadStep ==
  ASSUME ResponseInv, NEW amt \in {Response!All} \cup 0..MaxBody, Response!Read(amt)
  PROVE  ResponseInv'
<1>0. /\ ResponseTypes /\ Response!NothingLost /\ MaxBody \in Nat /\ MaxCalls \in Nat
      /\ Response!All = -1 /\ <<>> \in Seq(Chars)
  BY NetworkAssumption DEF ResponseInv, Response!ResponseBufferAssumption, Response!All
<1>1. /\ total = Response!Idle /\ body' = body /\ total' = total /\ calls' \in 0..MaxCalls
  BY <1>0 DEF Response!Read, Response!Calls, ResponseTypes
<1>2. amt \in -1..MaxBody
  BY <1>0
<1>3. \E new \in Seq(Chars) :
        /\ rbuf' \in Seq(Chars) /\ raw' \in Seq(Chars)
        /\ (new \o rbuf') \o raw' = rbuf \o raw
        /\ Response!Return("read", amt, <<>>, new)
        /\ amt = Len(new) \/ ((amt = Response!All \/ amt > Len(new)) /\ rbuf' = <<>> /\ raw' = <<>>)
  <2>1. CASE rbuf # <<>> /\ amt # Response!All /\ amt <= Len(rbuf)
    <3>1. amt \in 0..Len(rbuf)
      BY <1>0, <2>1
    <3>2. /\ Response!Return("read", amt, <<>>, Response!Start(rbuf, amt))
          /\ rbuf' = Response!After(rbuf, amt) /\ raw' = raw
      BY <2>1 DEF Response!Read
    <3>3. rbuf \in Seq(Chars) /\ raw \in Seq(Chars)
      BY <1>0 DEF ResponseTypes
    <3> DEFINE new  == Response!Start(rbuf, amt)
               rest == Response!After(rbuf, amt)
    <3>4. new \in Seq(Chars) /\ Len(new) = amt /\ rest \in Seq(Chars) /\ new \o rest = rbuf
      BY <3>1, <3>3, CutInTwo
    <3>5. Response!Return("read", amt, <<>>, new) /\ rbuf' = rest /\ raw' = raw
      BY <3>2
    <3> HIDE DEF new, rest
    <3>6. QED
      BY <3>3, <3>4, <3>5
  <2>2. CASE ~(rbuf # <<>> /\ amt # Response!All /\ amt <= Len(rbuf))
    <3> DEFINE n == IF amt = Response!All THEN Len(raw) ELSE Response!Least(amt - Len(rbuf), Len(raw))
    <3>1. /\ Response!Return("read", amt, <<>>, rbuf \o Response!Start(raw, n))
          /\ raw' = Response!After(raw, n) /\ rbuf' = <<>>
      BY <2>2 DEF Response!Read
    <3>2. rbuf \in Seq(Chars) /\ raw \in Seq(Chars) /\ Len(raw) \in Nat /\ Len(rbuf) \in Nat
      BY <1>0 DEF ResponseTypes
    <3>3. amt = Response!All \/ (amt \in Nat /\ (rbuf = <<>> \/ amt > Len(rbuf)))
      BY <1>0, <2>2, <3>2
    <3>4. rbuf = <<>> => Len(rbuf) = 0
      OBVIOUS
    <3>5. /\ n \in 0..Len(raw)
          /\ amt = Len(rbuf) + n \/ ((amt = Response!All \/ amt > Len(rbuf) + n) /\ n = Len(raw))
      BY <1>0, <3>2, <3>3, <3>4 DEF Response!Least
    <3> HIDE DEF n
    <3> DEFINE new == rbuf \o Response!Start(raw, n)
               rest == Response!After(raw, n)
    <3>6. new \in Seq(Chars) /\ Len(new) = Len(rbuf) + n /\ new \o rest = rbuf \o raw
      BY <3>2, <3>5, BufferAndRest
    <3>7. rest \in Seq(Chars) /\ Len(rest) = Len(raw) - n
      BY <3>2, <3>5, CutInTwo
    <3>8. n = Len(raw) => rest = <<>>
      BY <3>2, <3>7
    <3>9. rbuf' = <<>> /\ raw' = rest /\ Response!Return("read", amt, <<>>, new)
      BY <3>1
    <3> HIDE DEF new, rest
    <3>10. (new \o <<>>) \o rest = rbuf \o raw
      BY <3>6
    <3>11. QED
      BY <1>0, <3>5, <3>6, <3>7, <3>8, <3>9, <3>10
  <2>3. QED
    BY <2>1, <2>2
<1>4. PICK new \in Seq(Chars) :
        /\ rbuf' \in Seq(Chars) /\ raw' \in Seq(Chars)
        /\ (new \o rbuf') \o raw' = rbuf \o raw
        /\ Response!Return("read", amt, <<>>, new)
        /\ amt = Len(new) \/ ((amt = Response!All \/ amt > Len(new)) /\ rbuf' = <<>> /\ raw' = <<>>)
  BY <1>3
<1>5. /\ ResponseTypes' /\ Response!NothingLost'
      /\ latest' = [call |-> "read", arg |-> amt, data |-> <<>> \o new]
  BY <1>0, <1>1, <1>2, <1>4, Returned
<1>6. latest'.call = "read" /\ latest'.arg = amt /\ latest'.data = new
  BY <1>5
<1>7. Response!ReadIsFull'
  BY <1>4, <1>6 DEF Response!ReadIsFull
<1>8. QED
  BY <1>1, <1>5, <1>6, <1>7 DEF ResponseInv, RoundInv, Response!LineIsLine, Response!LinesAreWhole

LEMMA ReadlineStep ==
  ASSUME ResponseInv, NEW most \in {Response!All} \cup 0..MaxBody, Response!Readline(most)
  PROVE  ResponseInv'
<1>0. /\ ResponseTypes /\ Response!NothingLost /\ MaxBody \in Nat /\ MaxCalls \in Nat
      /\ Response!All = -1 /\ <<>> \in Seq(Chars)
  BY NetworkAssumption DEF ResponseInv, Response!ResponseBufferAssumption, Response!All
<1>1. /\ total = Response!Idle /\ body' = body /\ total' = total /\ calls' \in 0..MaxCalls
  BY <1>0 DEF Response!Readline, Response!Calls, ResponseTypes
<1>2. most \in -1..MaxBody /\ most \in {Response!All} \cup Nat
  BY <1>0
<1> DEFINE t == Response!TakeLine(most)
<1>3. /\ t.data \in Seq(Chars) /\ t.rest \in Seq(Chars) /\ t.raw \in Seq(Chars)
      /\ (t.data \o t.rest) \o t.raw = rbuf \o raw
      /\ most # Response!All => Len(t.data) <= most
      /\ most = Response!All =>
           /\ \A i \in 1..(Len(t.data) - 1) : t.data[i] # Response!LF
           /\ \/ Len(t.data) > 0 /\ t.data[Len(t.data)] = Response!LF
              \/ t.rest = <<>> /\ t.raw = <<>>
  BY <1>0, <1>2, LineTaken DEF ResponseTypes
<1>4. Response!Return("readline", most, <<>>, t.data) /\ rbuf' = t.rest /\ raw' = t.raw
  BY DEF Response!Readline
<1> DEFINE new == t.data
<1>5. new = t.data
  OBVIOUS
<1> HIDE DEF t, new
<1>6. /\ ResponseTypes' /\ Response!NothingLost'
      /\ latest' = [call |-> "readline", arg |-> most, data |-> <<>> \o new]
  BY <1>0, <1>1, <1>2, <1>3, <1>4, <1>5, Returned
<1>7. latest'.call = "readline" /\ latest'.arg = most /\ latest'.data = new
  BY <1>3, <1>5, <1>6
<1>8. Response!LineIsLine'
  <2>1. CASE most = Response!All
    <3>1. new \in Seq(Chars) /\ \A i \in 1..(Len(new) - 1) : new[i] # Response!LF
      BY <1>3, <1>5, <2>1
    <3>2. Response!LF \notin Response!ToSet(Response!Start(new, Len(new) - 1))
      <4>1. CASE new = <<>>
        <5>1. DOMAIN Response!Start(new, Len(new) - 1) = {}
          BY <4>1 DEF Response!Start
        <5>2. QED
          BY <5>1 DEF Response!ToSet
      <4>2. CASE new # <<>>
        <5> DEFINE m == Len(new) - 1
        <5>1. m \in 0..Len(new)
          BY <3>1, <4>2
        <5>2. /\ Response!Start(new, m) \in Seq(Chars) /\ Len(Response!Start(new, m)) = m
              /\ \A i \in 1..m : Response!Start(new, m)[i] = new[i]
          BY <3>1, <5>1, CutInTwo
        <5>3. DOMAIN Response!Start(new, m) = 1..m
          BY <5>2
        <5>4. QED
          BY <3>1, <5>2, <5>3 DEF Response!ToSet
      <4>3. QED
        BY <4>1, <4>2
    <3>3. (new # <<>> /\ Response!Last(new) = Response!LF) \/ (rbuf' = <<>> /\ raw' = <<>>)
      <4>1. (Len(new) > 0 /\ new[Len(new)] = Response!LF) \/ (rbuf' = <<>> /\ raw' = <<>>)
        BY <1>3, <1>4, <1>5, <2>1
      <4>2. QED
        BY <3>1, <4>1 DEF Response!Last
    <3>4. QED
      BY <1>7, <2>1, <3>2, <3>3 DEF Response!LineIsLine
  <2>2. CASE most # Response!All
    BY <1>3, <1>5, <1>7, <2>2 DEF Response!LineIsLine
  <2>3. QED
    BY <2>1, <2>2
<1>9. QED
  BY <1>1, <1>6, <1>7, <1>8 DEF ResponseInv, RoundInv, Response!ReadIsFull, Response!LinesAreWhole

LEMMA ReadlinesStep ==
  ASSUME ResponseInv, NEW sizehint \in 0..MaxBody, Response!Readlines(sizehint)
  PROVE  ResponseInv'
<1>0. /\ ResponseTypes /\ Response!NothingLost /\ MaxBody \in Nat /\ MaxCalls \in Nat
      /\ <<>> \in Seq(Chars) /\ Response!Idle = -1
  BY NetworkAssumption DEF ResponseInv, Response!ResponseBufferAssumption, Response!Idle
<1>1. /\ UNCHANGED <<body, raw, rbuf, given>> /\ calls < MaxCalls /\ calls' = calls + 1 /\ total' = 0
      /\ latest' = [call |-> "readlines", arg |-> sizehint, data |-> <<>>]
  BY DEF Response!Readlines
<1>2. ResponseTypes'
  <2>1. sizehint \in -1..MaxBody /\ calls' \in 0..MaxCalls
    BY <1>0, <1>1 DEF ResponseTypes
  <2>2. latest' \in [call : {"none", "read", "readline", "readlines"}, arg : -1..MaxBody, data : Seq(Chars)]
    BY <1>0, <1>1, <2>1
  <2>3. QED
    BY <1>0, <1>1, <2>1, <2>2 DEF ResponseTypes
<1>3. RoundInv'
  <2>1. Len(given) \in Nat
    BY <1>0 DEF ResponseTypes
  <2>2. QED
    BY <1>1, <2>1 DEF RoundInv
<1>4. total' # Response!Idle
  BY <1>0, <1>1
<1>5. QED
  BY <1>0, <1>1, <1>2, <1>3, <1>4
     DEF ResponseInv, Response!NothingLost, Response!ReadIsFull, Response!LineIsLine, Response!LinesAreWhole

\* The line feeds of the lines that a round has: what the lines before had, and
\* the last byte.
LEMMA FeedsOfLines ==
  ASSUME NEW d \in Seq(Chars), NEW line \in Seq(Chars),
         \A i \in 1..(Len(line) - 1) : line[i] # Response!LF
  PROVE  \A i \in DOMAIN (d \o line) :
           (d \o line)[i] = Response!LF => i <= Len(d) \/ i = Len(d) + Len(line)
<1>1. /\ d \o line \in Seq(Chars) /\ Len(d \o line) = Len(d) + Len(line)
      /\ \A i \in 1..(Len(d) + Len(line)) : (d \o line)[i] = IF i <= Len(d) THEN d[i] ELSE line[i - Len(d)]
  BY ConcatProperties
<1>2. Len(d) \in Nat /\ Len(line) \in Nat /\ DOMAIN (d \o line) = 1..(Len(d) + Len(line))
  BY <1>1
<1>3. ASSUME NEW i \in 1..(Len(d) + Len(line)), ~(i <= Len(d)), i # Len(d) + Len(line)
      PROVE  (d \o line)[i] # Response!LF
  <2>1. i - Len(d) \in 1..(Len(line) - 1)
    BY <1>2, <1>3
  <2>2. QED
    BY <1>1, <1>3, <2>1
<1>4. QED
  BY <1>2, <1>3

LEMMA NextLineStep ==
  ASSUME ResponseInv, Response!NextLine
  PROVE  ResponseInv'
<1>0. /\ ResponseTypes /\ RoundInv /\ Response!NothingLost /\ MaxBody \in Nat /\ MaxCalls \in Nat
      /\ Response!Idle = -1 /\ <<>> \in Seq(Chars) /\ Response!All = -1
  BY NetworkAssumption DEF ResponseInv, Response!ResponseBufferAssumption, Response!Idle, Response!All
<1> DEFINE t    == Response!TakeLine(Response!All)
           hint == latest.arg
           d    == latest.data
<1>1. /\ hint \in -1..MaxBody /\ d \in Seq(Chars) /\ total = Len(d) /\ total \in Nat
      /\ Len(d) <= Len(given) /\ (hint > 0 => total < hint)
      /\ given \in Seq(Chars)
  BY <1>0 DEF ResponseTypes, RoundInv, Response!NextLine
<1>2. /\ t.data \in Seq(Chars) /\ t.rest \in Seq(Chars) /\ t.raw \in Seq(Chars)
      /\ (t.data \o t.rest) \o t.raw = rbuf \o raw
      /\ \A i \in 1..(Len(t.data) - 1) : t.data[i] # Response!LF
      /\ \/ Len(t.data) > 0 /\ t.data[Len(t.data)] = Response!LF
         \/ t.rest = <<>> /\ t.raw = <<>>
  BY <1>0, LineTaken DEF ResponseTypes
<1> DEFINE line == t.data
<1>3. /\ rbuf' = t.rest /\ raw' = t.raw /\ Response!Return("readlines", hint, d, line)
      /\ total' = IF line = <<>> \/ (hint > 0 /\ total + Len(line) >= hint)
                  THEN Response!Idle ELSE total + Len(line)
      /\ UNCHANGED <<body, calls>>
  BY DEF Response!NextLine
<1>4. line = t.data
  OBVIOUS
<1> HIDE DEF t, line, hint, d
<1>5. /\ line \in Seq(Chars) /\ Len(line) \in Nat /\ rbuf' \in Seq(Chars) /\ raw' \in Seq(Chars)
      /\ (line \o rbuf') \o raw' = rbuf \o raw
      /\ \A i \in 1..(Len(line) - 1) : line[i] # Response!LF
      /\ \/ Len(line) > 0 /\ line[Len(line)] = Response!LF
         \/ rbuf' = <<>> /\ raw' = <<>>
  <2>1. line \in Seq(Chars) /\ rbuf' \in Seq(Chars) /\ raw' \in Seq(Chars)
    BY <1>2, <1>3, <1>4
  <2>2. Len(line) \in Nat
    BY <2>1
  <2>3. (line \o rbuf') \o raw' = rbuf \o raw
    BY <1>2, <1>3, <1>4, Zenon
  <2>4. /\ \A i \in 1..(Len(line) - 1) : line[i] # Response!LF
        /\ \/ Len(line) > 0 /\ line[Len(line)] = Response!LF
           \/ rbuf' = <<>> /\ raw' = <<>>
    BY <1>2, <1>3, <1>4
  <2>5. QED
    BY <2>1, <2>2, <2>3, <2>4
<1>6. calls' \in 0..MaxCalls /\ total' \in {Response!Idle} \cup Nat
  BY <1>0, <1>1, <1>3, <1>5 DEF ResponseTypes
<1>7. /\ ResponseTypes' /\ Response!NothingLost'
      /\ latest' = [call |-> "readlines", arg |-> hint, data |-> d \o line]
      /\ given' = given \o line
  BY <1>0, <1>1, <1>3, <1>5, <1>6, Returned
<1> DEFINE lines == d \o line
<1>8. latest'.call = "readlines" /\ latest'.arg = hint /\ latest'.data = lines
  BY <1>7
<1>9. /\ lines \in Seq(Chars) /\ Len(lines) = Len(d) + Len(line)
      /\ \A i \in 1..(Len(d) + Len(line)) : lines[i] = IF i <= Len(d) THEN d[i] ELSE line[i - Len(d)]
      /\ Len(given') = Len(given) + Len(line)
  BY <1>1, <1>5, <1>7, ConcatProperties
<1>10. \A i \in DOMAIN lines : lines[i] = Response!LF => i <= Len(d) \/ i = Len(d) + Len(line)
  BY <1>1, <1>5, FeedsOfLines
<1>11. DOMAIN lines = 1..(Len(d) + Len(line)) /\ Len(d) \in Nat /\ Len(given) \in Nat
  BY <1>1, <1>9
<1> HIDE DEF lines
<1>12. RoundInv'
  BY <1>1, <1>3, <1>5, <1>8, <1>9, <1>11 DEF RoundInv
<1>13. Response!LinesAreWhole'
  <2> DEFINE feeds == {i \in DOMAIN lines : lines[i] = Response!LF}
  <2>1. SUFFICES ASSUME total' = Response!Idle
                 PROVE  IF hint > 0 /\ \E i \in feeds : i >= hint
                        THEN Response!Last(lines) = Response!LF /\ \A i \in feeds : i >= hint => i = Len(lines)
                        ELSE rbuf' = <<>> /\ raw' = <<>>
    BY <1>8 DEF Response!LinesAreWhole
  <2>2. CASE hint > 0 /\ \E i \in feeds : i >= hint
    <3>1. \A i \in feeds : i >= hint => i = Len(lines)
      BY <1>1, <1>9, <1>10, <1>11, <2>2
    <3>2. lines[Len(lines)] = Response!LF
      BY <2>2, <3>1
    <3>3. QED
      BY <2>2, <3>1, <3>2 DEF Response!Last
  <2>3. CASE ~(hint > 0 /\ \E i \in feeds : i >= hint)
    <3>1. CASE line = <<>>
      BY <1>5, <3>1, <2>3
    <3>2. CASE line # <<>>
      <4>1. Len(line) > 0 /\ hint > 0 /\ total + Len(line) >= hint
        BY <1>0, <1>1, <1>3, <1>5, <2>1, <3>2
      <4>2. Len(lines) \in DOMAIN lines /\ Len(lines) >= hint /\ lines[Len(lines)] = line[Len(line)]
        <5> DEFINE m == Len(d) + Len(line)
        <5>1. m \in 1..m /\ m >= hint /\ ~(m <= Len(d)) /\ m - Len(d) = Len(line)
          BY <1>1, <1>5, <1>11, <4>1
        <5>2. lines[m] = line[m - Len(d)]
          BY <1>9, <5>1
        <5>3. QED
          BY <1>9, <1>11, <5>1, <5>2
      <4>3. lines[Len(lines)] # Response!LF
        BY <2>3, <4>1, <4>2
      <4>4. QED
        BY <1>5, <2>3, <4>2, <4>3
    <3>3. QED
      BY <3>1, <3>2
  <2>4. QED
    BY <2>2, <2>3
<1>14. QED
  BY <1>7, <1>8, <1>12, <1>13 DEF ResponseInv, Response!ReadIsFull, Response!LineIsLine

LEMMA ResponseStep == ResponseInv /\ [Response!Next]_Response!vars => ResponseInv'
<1> SUFFICES ASSUME ResponseInv, [Response!Next]_Response!vars
             PROVE  ResponseInv'
  OBVIOUS
<1>1. CASE UNCHANGED Response!vars
  BY <1>1 DEF Response!vars, ResponseInv, ResponseTypes, RoundInv, Response!NothingLost, Response!ReadIsFull,
              Response!LineIsLine, Response!LinesAreWhole
<1>2. CASE Response!Next
  BY <1>2, ReadStep, ReadlineStep, ReadlinesStep, NextLineStep DEF Response!Next
<1>3. QED
  BY <1>1, <1>2

LEMMA Responses == LiveSpec => [](part = "response" => ResponseInv)
<1>1. Init => (part = "response" => ResponseInv)
  BY ResponseInit DEF Init
<1>2. (part = "response" => ResponseInv) /\ [Next]_vars => (part = "response" => ResponseInv)'
  BY ResponseStep, PartsStayApart
<1>3. QED
  BY <1>1, <1>2, PTL DEF LiveSpec

(* read, readline and readlines of the response give the body once and in  *)
(* order however they are mixed, and each gives as much of it as it        *)
(* promises: read as many bytes as it is asked for, readline a line, and   *)
(* readlines whole lines up to its hint.                                   *)
THEOREM BodiesAreGiven == LiveSpec => []BodyIsGiven
<1>1. ResponseInv => Response!TypeOK
  <2> SUFFICES ASSUME ResponseInv
               PROVE  Response!TypeOK
    OBVIOUS
  <2>1. ResponseTypes /\ RoundInv /\ Response!NothingLost /\ Response!Idle = -1 /\ MaxBody \in Nat
    BY NetworkAssumption DEF ResponseInv, Response!Idle, Response!ResponseBufferAssumption
  <2>2. Len(given) <= Len(body)
    <3>1. given \o rbuf \in Seq(Chars) /\ Len(given \o rbuf) = Len(given) + Len(rbuf)
      BY <2>1, ConcatProperties DEF ResponseTypes
    <3>2. Len((given \o rbuf) \o raw) = Len(given \o rbuf) + Len(raw)
      BY <2>1, <3>1, ConcatProperties DEF ResponseTypes
    <3>3. Len(rbuf) \in Nat /\ Len(raw) \in Nat /\ Len(given) \in Nat
      BY <2>1 DEF ResponseTypes
    <3>4. QED
      BY <2>1, <3>1, <3>2, <3>3 DEF Response!NothingLost
  <2>3. total \in -1..MaxBody
    <3>1. Len(body) \in Nat /\ Len(given) \in Nat /\ Len(body) <= MaxBody /\ Len(latest.data) \in Nat
      BY <2>1 DEF ResponseTypes
    <3>2. total = -1 \/ (total = Len(latest.data) /\ Len(latest.data) <= Len(given))
      BY <2>1 DEF RoundInv
    <3>3. QED
      BY <2>1, <2>2, <3>1, <3>2
  <2>4. QED
    BY <2>1, <2>3 DEF Response!TypeOK, ResponseTypes, Chars
<1>2. ResponseInv => /\ Response!NothingLost /\ Response!ReadIsFull
                     /\ Response!LineIsLine /\ Response!LinesAreWhole
  BY DEF ResponseInv
<1>3. QED
  BY <1>1, <1>2, Responses, PTL DEF BodyIsGiven

-----------------------------------------------------------------------------
(* The rate limits.                                                        *)

\* The most that the allowance can be.
Most == Rate!Larger(Rate!Rate, Rate!One)

\* What the allowance would be now if nothing limited it.
Grown == allowance + (now - shift - last_check) * Rate!PerSecond

RateTypes ==
  /\ limit \in Settings
  /\ now \in 0..Horizon /\ ahead \in Nat /\ ahead <= now /\ shift \in 0..BackSteps
  /\ last_check \in Int /\ -shift <= last_check /\ last_check <= now
  /\ allowance \in Int /\ allowance <= Most
  /\ took \in Nat /\ took <= now - ahead
  /\ passed \in Seq(Nat) /\ dropped \in Seq(Nat)
  /\ \A i \in DOMAIN passed : passed[i] <= now

RateFlags ==
  /\ waiting \in BOOLEAN /\ item \in BOOLEAN
  /\ item => waiting
  /\ waiting => dropped = <<>>

CountInv ==
  /\ Len(passed) + Len(dropped) <= MaxItems
  /\ item => Len(passed) < MaxItems

\* What went through since an item, and what is left, is a burst and what has
\* grown since.
BurstInv ==
  \A i \in DOMAIN passed :
    (Len(passed) - i + 1) * Rate!One + allowance
      <= Most + (last_check + shift - passed[i]) * Rate!PerSecond

\* A limit that divides exactly and a clock that was not set back.
Exact == Rate!PerSecond = limit.tenths /\ Rate!Rate >= Rate!One /\ shift = 0

\* Since the allowance was full, or since the beginning, exactly the items that
\* went through were taken from it.
SinceFull ==
  \/ passed = <<>> /\ allowance = Rate!Rate
  \/ \E i \in DOMAIN passed :
       /\ passed[i] <= last_check
       /\ allowance = Rate!Rate - (Len(passed) - i + 1) * Rate!One
                        + (last_check - passed[i]) * Rate!PerSecond

\* The items that went through before a drop were too many.
UsedUp(at) ==
  \E i, n \in DOMAIN passed :
    /\ i <= n /\ \A j \in i..n : passed[j] <= at
    /\ (n - i + 1) * Rate!One > Rate!Rate - Rate!One + (at - passed[i]) * limit.tenths

DropInv ==
  Exact => /\ waiting \/ SinceFull
           /\ \A d \in DOMAIN dropped : UsedUp(dropped[d])

\* An item that waits has had what has grown since it was taken.
WaitInv ==
  waiting /\ Rate!PerSecond > 0 /\ Rate!Rate >= Rate!One =>
    /\ Grown >= -shift * Rate!PerSecond
    /\ item => Grown >= (now - ahead - took - shift) * Rate!PerSecond

RateInv ==
  /\ RateTypes /\ RateFlags /\ CountInv /\ BurstInv /\ DropInv /\ WaitInv
  /\ Rate!BurstBound /\ Rate!WaitIsBounded

LEMMA Times ==
  ASSUME NEW a \in Int, NEW b \in Int, NEW p \in Nat
  PROVE  /\ a * p \in Int /\ b * p \in Int
         /\ (a + b) * p = a * p + b * p /\ (a - b) * p = a * p - b * p
         /\ a <= b => a * p <= b * p
         /\ (a + 1) * p = a * p + p /\ (a - 1) * p = a * p - p
OBVIOUS

\* The quotient of Python's integers is no more than the exact one.
LEMMA Quotient ==
  ASSUME NEW a \in Nat, NEW b \in Nat \ {0}
  PROVE  a \div b \in Nat /\ (a \div b) * b <= a
OBVIOUS

LEMMA RateNumbers ==
  ASSUME limit \in Settings
  PROVE  /\ limit.tenths \in Nat \ {0} /\ limit.per \in Nat \ {0}
         /\ Rate!One \in Nat \ {0} /\ Rate!Rate \in Nat
         /\ Rate!PerSecond \in Nat /\ Rate!PerSecond <= limit.tenths
         /\ Most \in Nat /\ Rate!Rate <= Most /\ Rate!One <= Most
         /\ Rate!Rate \div 10 \in Int /\ Rate!Rate \div 10 <= Rate!Rate
<1> DEFINE tenths == limit.tenths
           per    == limit.per
<1>1. limit \in [tenths : Nat \ {0}, per : Nat \ {0}, ints : BOOLEAN]
  BY NetworkAssumption DEF Rate!RateLimitAssumption
<1>2. tenths \in Nat \ {0} /\ per \in Nat \ {0}
  BY <1>1
<1> HIDE DEF tenths, per
<1>3. 10 * per \in Nat \ {0} /\ tenths * per \in Nat
  BY <1>2
<1>4. /\ (tenths \div 10) \div per \in Nat
      /\ ((tenths \div 10) \div per) * (10 * per) <= tenths
  <2> DEFINE seconds == tenths \div 10
             whole   == seconds \div per
  <2>1. seconds \in Nat /\ seconds * 10 <= tenths
    BY <1>2
  <2> HIDE DEF seconds
  <2>2. whole \in Nat /\ whole * per <= seconds
    BY <1>2, <2>1, Quotient
  <2> HIDE DEF whole
  <2>3. whole * (10 * per) = (whole * per) * 10
    BY <1>2, <2>2
  <2>4. whole * per \in Nat
    BY <1>2, <2>2
  <2>5. whole * (10 * per) <= tenths
    BY <1>2, <2>1, <2>2, <2>3, <2>4
  <2>6. QED
    BY <2>2, <2>5 DEF whole, seconds
<1>5. ((tenths \div 10) \div per) * (10 * per) \in Nat
  BY <1>3, <1>4
<1>6. /\ Rate!One = 10 * per /\ Rate!Rate = tenths * per
      /\ Rate!PerSecond = IF limit.ints THEN ((tenths \div 10) \div per) * (10 * per) ELSE tenths
  BY DEF Rate!One, Rate!Rate, Rate!PerSecond, tenths, per
<1>7. Rate!PerSecond \in Nat /\ Rate!PerSecond <= tenths
  BY <1>2, <1>4, <1>5, <1>6
<1>8. Rate!One \in Nat \ {0} /\ Rate!Rate \in Nat
  BY <1>3, <1>6
<1>9. QED
  BY <1>2, <1>7, <1>8 DEF tenths, per, Most, Rate!Larger

\* What an allowance is refilled to: what has grown, or all that it can be.
LEMMA RefilledIsGrown ==
  ASSUME RateTypes
  PROVE  /\ Grown \in Int /\ Rate!Refilled \in Int
         /\ Rate!Refilled <= Grown /\ Rate!Refilled <= Rate!Rate
         /\ Rate!Refilled = Grown \/ (Rate!Refilled = Rate!Rate /\ Rate!Rate <= Grown)
         /\ Grown = allowance + (now - shift - last_check) * Rate!PerSecond
         /\ Rate!Clock = now - shift
<1>1. Rate!PerSecond \in Nat /\ Rate!Rate \in Nat
  BY RateNumbers DEF RateTypes
<1>2. now - shift - last_check \in Int /\ allowance \in Int /\ Rate!Clock = now - shift
  BY DEF RateTypes, Rate!Clock
<1>3. (now - shift - last_check) * Rate!PerSecond \in Int
  BY <1>1, <1>2
<1>4. Rate!Refilled = IF Grown < Rate!Rate THEN Grown ELSE Rate!Rate
  BY <1>2 DEF Grown, Rate!Refilled, Rate!Smaller
<1>5. QED
  BY <1>1, <1>2, <1>3, <1>4 DEF Grown

\* The arguments of the limiter stay, and what is computed of them.
LEMMA LimitStays ==
  ASSUME [Rate!Next]_Rate!vars
  PROVE  /\ limit' = limit /\ waiting' = waiting
         /\ Rate!One' = Rate!One /\ Rate!Rate' = Rate!Rate /\ Rate!PerSecond' = Rate!PerSecond
         /\ Most' = Most
<1>1. limit' = limit /\ waiting' = waiting
  BY DEF Rate!Next, Rate!Drop, Rate!Take, Rate!Wait, Rate!Yield, Rate!Tick, Rate!SetBack, Rate!SetForward, Rate!vars, Rate!clock
<1>2. QED
  BY <1>1 DEF Rate!One, Rate!Rate, Rate!PerSecond, Most

LEMMA RateInit == Rate!Init => RateInv
<1> SUFFICES ASSUME Rate!Init
             PROVE  RateInv
  OBVIOUS
<1>0. /\ limit \in Settings /\ waiting \in BOOLEAN /\ now = 0 /\ ahead = 0 /\ shift = 0 /\ last_check = 0
      /\ item = FALSE /\ took = 0 /\ passed = <<>> /\ dropped = <<>>
      /\ allowance = IF waiting THEN Rate!Larger(Rate!Rate \div 10, Rate!One) ELSE Rate!Rate
  BY DEF Rate!Init
<1>1. /\ Rate!One \in Nat \ {0} /\ Rate!Rate \in Nat /\ Rate!PerSecond \in Nat
      /\ Most \in Nat /\ Rate!Rate <= Most /\ Rate!One <= Most
      /\ Rate!Rate \div 10 \in Int /\ Rate!Rate \div 10 <= Rate!Rate
  BY <1>0, RateNumbers
<1>2. Horizon \in Nat /\ BackSteps \in Nat /\ MaxItems \in Nat
  BY NetworkAssumption DEF Rate!RateLimitAssumption
<1>3. allowance \in Int /\ allowance <= Most /\ allowance >= 0
  BY <1>0, <1>1 DEF Rate!Larger
<1>4. RateTypes
  BY <1>0, <1>2, <1>3 DEF RateTypes
<1>5. RateFlags
  BY <1>0 DEF RateFlags
<1>6. CountInv
  BY <1>0, <1>2 DEF CountInv
<1>7. BurstInv /\ Rate!BurstBound
  BY <1>0 DEF BurstInv, Rate!BurstBound
<1>8. DropInv
  <2>1. waiting \/ SinceFull
    BY <1>0 DEF SinceFull
  <2>2. QED
    BY <1>0, <2>1 DEF DropInv
<1>9. WaitInv
  <2>1. Grown = allowance
    BY <1>0, <1>1, <1>3 DEF Grown
  <2>2. -shift * Rate!PerSecond = 0
    BY <1>0, <1>1
  <2>3. QED
    BY <1>0, <1>3, <2>1, <2>2 DEF WaitInv
<1>10. Rate!WaitIsBounded
  BY <1>0 DEF Rate!WaitIsBounded
<1>11. QED
  BY <1>4, <1>5, <1>6, <1>7, <1>8, <1>9, <1>10 DEF RateInv

\* An item is added to those that went through, or were dropped.
LEMMA OneMore ==
  ASSUME NEW s \in Seq(Nat), NEW at \in Nat
  PROVE  /\ Append(s, at) \in Seq(Nat) /\ Len(Append(s, at)) = Len(s) + 1
         /\ DOMAIN Append(s, at) = 1..(Len(s) + 1) /\ DOMAIN s = 1..Len(s) /\ Len(s) \in Nat
         /\ \A i \in DOMAIN s : Append(s, at)[i] = s[i]
         /\ Append(s, at)[Len(s) + 1] = at
BY AppendProperties

LEMMA RateTypesStep == RateInv /\ [Rate!Next]_Rate!vars => RateTypes' /\ RateFlags' /\ CountInv'
<1> SUFFICES ASSUME RateInv, [Rate!Next]_Rate!vars
             PROVE  RateTypes' /\ RateFlags' /\ CountInv'
  OBVIOUS
<1>0. RateTypes /\ RateFlags /\ CountInv
  BY DEF RateInv
<1>1. /\ limit \in Settings /\ now \in 0..Horizon /\ shift \in 0..BackSteps
      /\ last_check \in Int /\ -shift <= last_check /\ last_check <= now
      /\ allowance \in Int /\ allowance <= Most
      /\ took \in Nat /\ ahead \in Nat /\ ahead <= now /\ took <= now - ahead
      /\ passed \in Seq(Nat) /\ dropped \in Seq(Nat) /\ \A i \in DOMAIN passed : passed[i] <= now
  BY <1>0 DEF RateTypes
<1>2. /\ Rate!One \in Nat \ {0} /\ Rate!Rate \in Nat /\ Rate!Rate <= Most /\ Most \in Nat
      /\ Horizon \in Nat /\ BackSteps \in Nat /\ MaxItems \in Nat
  BY <1>1, RateNumbers, NetworkAssumption DEF Rate!RateLimitAssumption
<1>3. /\ limit' = limit /\ waiting' = waiting /\ Most' = Most
  BY LimitStays
<1>4. Rate!Refilled \in Int /\ Rate!Refilled <= Rate!Rate /\ Rate!Clock = now - shift
  BY <1>0, RefilledIsGrown
<1>5. ASSUME Rate!Pass, UNCHANGED <<now, ahead, shift, took, dropped>>
      PROVE  RateTypes' /\ Len(passed') = Len(passed) + 1
  <2>1. /\ allowance' = Rate!Refilled - Rate!One /\ passed' = Append(passed, now) /\ last_check' = now - shift
    BY <1>4, <1>5 DEF Rate!Pass, Rate!Check
  <2>2. allowance' \in Int /\ allowance' <= Most'
    BY <1>2, <1>3, <1>4, <2>1
  <2>3. last_check' \in Int /\ -shift <= last_check' /\ last_check' <= now
    BY <1>1, <1>2, <2>1
  <2>4. /\ passed' \in Seq(Nat) /\ Len(passed') = Len(passed) + 1
        /\ \A i \in DOMAIN passed' : passed'[i] <= now
    <3>1. now \in Nat /\ now <= now
      BY <1>1, <1>2
    <3>2. passed \in Seq(Nat) /\ \A i \in DOMAIN passed : passed[i] <= now
      BY <1>1
    <3>3. /\ passed' \in Seq(Nat) /\ Len(passed') = Len(passed) + 1
          /\ DOMAIN passed' = 1..(Len(passed) + 1) /\ DOMAIN passed = 1..Len(passed) /\ Len(passed) \in Nat
          /\ \A i \in DOMAIN passed : passed'[i] = passed[i]
          /\ passed'[Len(passed) + 1] = now
      BY <2>1, <3>1, <3>2, OneMore
    <3>4. ASSUME NEW i \in DOMAIN passed'
          PROVE  passed'[i] <= now
      <4>1. CASE i = Len(passed) + 1
        BY <3>1, <3>3, <4>1
      <4>2. CASE i # Len(passed) + 1
        <5>1. i \in DOMAIN passed
          BY <3>3, <4>2
        <5>2. QED
          BY <3>2, <3>3, <5>1
      <4>3. QED
        BY <4>1, <4>2
    <3>5. QED
      BY <3>3, <3>4
  <2>5. QED
    BY <1>1, <1>3, <1>5, <2>2, <2>3, <2>4 DEF RateTypes
<1>6. ASSUME Rate!Short, UNCHANGED <<now, ahead, shift, took, passed>>, dropped' \in Seq(Nat)
      PROVE  RateTypes'
  <2>1. /\ allowance' = Rate!Refilled /\ last_check' = now - shift
    BY <1>4, <1>6 DEF Rate!Short, Rate!Check
  <2>2. allowance' \in Int /\ allowance' <= Most'
    BY <1>2, <1>3, <1>4, <2>1
  <2>3. last_check' \in Int /\ -shift <= last_check' /\ last_check' <= now
    BY <1>1, <1>2, <2>1
  <2>4. QED
    BY <1>1, <1>3, <1>6, <2>2, <2>3 DEF RateTypes
<1>7. CASE Rate!Drop
  <2>1. ~waiting /\ item' = item /\ UNCHANGED <<now, ahead, shift, took>> /\ Len(passed) + Len(dropped) < MaxItems
    BY <1>7 DEF Rate!Drop, Rate!clock
  <2>2. RateFlags'
    BY <1>0, <1>3, <2>1 DEF RateFlags
  <2>3. ~item
    BY <1>0, <2>1 DEF RateFlags
  <2>4. CASE Rate!Pass /\ UNCHANGED dropped
    <3>1. RateTypes' /\ Len(passed') = Len(passed) + 1
      BY <1>5, <2>1, <2>4
    <3>2. Len(passed') + Len(dropped') <= MaxItems
      BY <1>1, <1>2, <2>1, <2>4, <3>1
    <3>3. CountInv'
      BY <2>1, <2>3, <3>2 DEF CountInv
    <3>4. QED
      BY <2>2, <3>1, <3>3
  <2>5. CASE Rate!Short /\ dropped' = Append(dropped, now) /\ UNCHANGED passed
    <3>1. dropped' \in Seq(Nat) /\ Len(dropped') = Len(dropped) + 1 /\ Len(dropped) \in Nat /\ Len(passed) \in Nat
      BY <1>1, <1>2, <2>5, OneMore
    <3>2. RateTypes'
      BY <1>6, <2>1, <2>5, <3>1
    <3>3. Len(passed') + Len(dropped') <= MaxItems
      BY <1>2, <2>1, <2>5, <3>1
    <3>4. CountInv'
      BY <2>1, <2>3, <3>3 DEF CountInv
    <3>5. QED
      BY <2>2, <3>2, <3>4
  <2>6. QED
    BY <1>7, <2>4, <2>5 DEF Rate!Drop, Rate!clock
<1>8. CASE Rate!Take
  <2>1. /\ waiting /\ item' = TRUE /\ took' = now - ahead /\ Len(passed) < MaxItems
        /\ UNCHANGED <<limit, now, ahead, shift, last_check, allowance, passed, dropped>>
    BY <1>8 DEF Rate!Take, Rate!clock, Rate!Elapsed
  <2>2. RateTypes'
    BY <1>1, <1>3, <2>1 DEF RateTypes
  <2>3. RateFlags' /\ CountInv'
    BY <1>0, <1>3, <2>1 DEF RateFlags, CountInv
  <2>4. QED
    BY <2>2, <2>3
<1>9. CASE Rate!Wait
  <2>1. Rate!Short /\ UNCHANGED <<now, ahead, shift, took, passed, dropped, item>>
    BY <1>9 DEF Rate!Wait, Rate!clock
  <2>2. RateTypes'
    BY <1>1, <1>6, <2>1
  <2>3. RateFlags' /\ CountInv'
    BY <1>0, <1>3, <2>1 DEF RateFlags, CountInv
  <2>4. QED
    BY <2>2, <2>3
<1>10. CASE Rate!Yield
  <2>1. Rate!Pass /\ waiting /\ item /\ item' = FALSE /\ UNCHANGED <<now, ahead, shift, took, dropped>>
    BY <1>10 DEF Rate!Yield, Rate!clock
  <2>2. RateTypes' /\ Len(passed') = Len(passed) + 1
    BY <1>5, <2>1
  <2>3. RateFlags'
    BY <1>0, <1>3, <2>1 DEF RateFlags
  <2>4. Len(passed) < MaxItems /\ Len(dropped') = 0 /\ Len(passed) \in Nat
    BY <1>0, <1>1, <2>1 DEF RateFlags, CountInv
  <2>5. CountInv'
    BY <1>2, <2>1, <2>2, <2>4 DEF CountInv
  <2>6. QED
    BY <2>2, <2>3, <2>5
<1>11. CASE Rate!Tick
  <2>1. now < Horizon /\ now' = now + 1 /\ UNCHANGED <<ahead, shift, last_check, allowance, item, took, passed, dropped>>
    BY <1>11 DEF Rate!Tick
  <2>2. /\ now' \in 0..Horizon /\ last_check' <= now' /\ ahead <= now' /\ took <= now' - ahead
        /\ \A i \in DOMAIN passed : passed[i] \in Nat /\ passed[i] <= now'
    BY <1>1, <1>2, <2>1
  <2>3. RateTypes'
    BY <1>1, <1>3, <2>1, <2>2 DEF RateTypes
  <2>4. RateFlags' /\ CountInv'
    BY <1>0, <1>3, <2>1 DEF RateFlags, CountInv
  <2>5. QED
    BY <2>3, <2>4
<1>12. CASE Rate!SetBack
  <2>1. /\ shift < BackSteps /\ shift' = shift + 1
        /\ UNCHANGED <<now, ahead, last_check, allowance, item, took, passed, dropped>>
    BY <1>12 DEF Rate!SetBack
  <2>2. shift' \in 0..BackSteps /\ -shift' <= last_check'
    BY <1>1, <1>2, <2>1
  <2>3. RateTypes'
    BY <1>1, <1>3, <2>1, <2>2 DEF RateTypes
  <2>4. RateFlags' /\ CountInv'
    BY <1>0, <1>3, <2>1 DEF RateFlags, CountInv
  <2>5. QED
    BY <2>3, <2>4
<1>13. CASE Rate!SetForward
  <2>1. /\ now < Horizon /\ now' = now + 1 /\ ahead' = ahead + 1
        /\ UNCHANGED <<shift, last_check, allowance, item, took, passed, dropped>>
    BY <1>13 DEF Rate!SetForward
  <2>2. /\ now' \in 0..Horizon /\ last_check' <= now'
        /\ ahead' \in Nat /\ ahead' <= now' /\ took <= now' - ahead'
        /\ \A i \in DOMAIN passed : passed[i] \in Nat /\ passed[i] <= now'
    BY <1>1, <1>2, <2>1
  <2>3. RateTypes'
    BY <1>1, <1>3, <2>1, <2>2 DEF RateTypes
  <2>4. RateFlags' /\ CountInv'
    BY <1>0, <1>3, <2>1 DEF RateFlags, CountInv
  <2>5. QED
    BY <2>3, <2>4
<1>14. CASE UNCHANGED Rate!vars
  <2>1. UNCHANGED <<limit, waiting, now, ahead, shift, last_check, allowance, item, took, passed, dropped>>
    BY <1>14 DEF Rate!vars, Rate!clock
  <2>2. RateTypes'
    BY <1>1, <1>3, <2>1 DEF RateTypes
  <2>3. RateFlags' /\ CountInv'
    BY <1>0, <2>1 DEF RateFlags, CountInv
  <2>4. QED
    BY <2>2, <2>3
<1>15. QED
  BY <1>7, <1>8, <1>9, <1>10, <1>11, <1>12, <1>13, <1>14 DEF Rate!Next

LEMMA BurstStep == RateInv /\ [Rate!Next]_Rate!vars => BurstInv' /\ Rate!BurstBound'
<1> SUFFICES ASSUME RateInv, [Rate!Next]_Rate!vars
             PROVE  BurstInv' /\ Rate!BurstBound'
  OBVIOUS
<1> DEFINE p   == Rate!PerSecond
           one == Rate!One
<1>0. RateTypes /\ RateFlags /\ CountInv /\ BurstInv /\ Rate!BurstBound
  BY DEF RateInv
<1>1. /\ now \in Nat /\ shift \in Nat /\ last_check \in Int /\ allowance \in Int
      /\ passed \in Seq(Nat) /\ Len(passed) \in Nat /\ DOMAIN passed = 1..Len(passed)
      /\ \A i \in DOMAIN passed : passed[i] \in Nat /\ passed[i] <= now
  BY <1>0, NetworkAssumption DEF RateTypes, Rate!RateLimitAssumption
<1>2. /\ p \in Nat /\ p <= limit.tenths /\ one \in Nat \ {0} /\ Rate!Rate \in Nat /\ Most \in Nat
      /\ Rate!Rate <= Most /\ limit.tenths \in Nat
  BY <1>0, RateNumbers DEF RateTypes
<1>3. /\ limit' = limit /\ Most' = Most /\ Rate!One' = one /\ Rate!PerSecond' = p
      /\ Rate!Larger(Rate!Rate, Rate!One) = Most /\ Rate!Larger(Rate!Rate', Rate!One') = Most
  BY LimitStays DEF Most
<1>4. \A i \in DOMAIN passed :
        (Len(passed) - i + 1) * one + allowance <= Most + (last_check + shift - passed[i]) * p
  BY <1>0 DEF BurstInv
<1>5. \A i, j \in DOMAIN passed :
        i <= j => (j - i + 1) * one <= Most + (passed[j] - passed[i]) * limit.tenths
  BY <1>0, <1>3 DEF Rate!BurstBound
<1> HIDE DEF p, one
\* What has grown since, refilled at this tick.
<1>6. \A i \in DOMAIN passed :
        (Len(passed) - i + 1) * one + Rate!Refilled <= Most + (now - passed[i]) * p
  <2>1. TAKE i \in DOMAIN passed
  <2>2. /\ Rate!Refilled \in Int /\ Rate!Refilled <= Grown
        /\ Grown = allowance + (now - shift - last_check) * p
    BY <1>0, RefilledIsGrown DEF p
  <2> DEFINE since == last_check + shift - passed[i]
             still == now - shift - last_check
             many  == (Len(passed) - i + 1) * one
  <2>3. since \in Int /\ still \in Int /\ since + still = now - passed[i] /\ many \in Int
    <3>1. passed[i] \in Nat /\ i \in Nat
      BY <1>1
    <3>2. since \in Int /\ still \in Int /\ since + still = now - passed[i]
      BY <1>1, <3>1
    <3>3. Len(passed) - i + 1 \in Int
      BY <1>1, <3>1
    <3>4. QED
      BY <1>2, <3>2, <3>3
  <2>4. many + allowance <= Most + since * p /\ Grown = allowance + still * p
    BY <1>4, <2>2
  <2> HIDE DEF since, still, many
  <2>5. (since + still) * p = since * p + still * p /\ since * p \in Int /\ still * p \in Int
    BY <1>2, <2>3, Times
  <2>6. many + Rate!Refilled <= Most + (since + still) * p
    BY <1>1, <1>2, <2>2, <2>3, <2>4, <2>5
  <2>7. QED
    BY <2>3, <2>6 DEF many
<1>7. ASSUME Rate!Pass, UNCHANGED <<now, shift>>
      PROVE  BurstInv' /\ Rate!BurstBound'
  <2>1. /\ Rate!Refilled \in Int /\ Rate!Refilled <= Rate!Rate /\ Rate!Clock = now - shift
    BY <1>0, RefilledIsGrown
  <2>2. /\ Rate!Refilled >= one /\ allowance' = Rate!Refilled - one /\ passed' = Append(passed, now)
        /\ last_check' = now - shift
    BY <1>7, <2>1 DEF Rate!Pass, Rate!Check, one
  <2>3. /\ Len(passed') = Len(passed) + 1 /\ DOMAIN passed' = 1..(Len(passed) + 1)
        /\ \A i \in DOMAIN passed : passed'[i] = passed[i]
        /\ passed'[Len(passed) + 1] = now
    BY <1>1, <2>2, OneMore
  <2>4. last_check' + shift' = now
    BY <1>1, <1>7, <2>2
  <2>5. \A i \in DOMAIN passed' :
          (Len(passed') - i + 1) * one + allowance' <= Most + (now - passed'[i]) * p
    <3>1. TAKE i \in DOMAIN passed'
    <3>2. CASE i = Len(passed) + 1
      <4> DEFINE since == now - passed'[i]
                 items == Len(passed') - i + 1
                 left  == allowance'
      <4>1. items = 1 /\ since = 0 /\ left = Rate!Refilled - one
        BY <1>1, <2>2, <2>3, <3>2
      <4> HIDE DEF since, items, left
      <4>2. items * one = one /\ since * p = 0
        BY <1>2, <4>1
      <4>3. items * one + left <= Most + since * p
        BY <1>2, <2>1, <4>1, <4>2
      <4>4. QED
        BY <4>3 DEF since, items, left
    <3>3. CASE i # Len(passed) + 1
      <4>1. i \in DOMAIN passed /\ passed'[i] = passed[i]
        BY <1>1, <2>3, <3>3
      <4>2. Len(passed) - i + 1 \in Int /\ Len(passed') - i + 1 = (Len(passed) - i + 1) + 1
        BY <1>1, <2>3, <4>1
      <4>3. /\ (Len(passed') - i + 1) * one = (Len(passed) - i + 1) * one + one
            /\ (Len(passed) - i + 1) * one \in Int
        BY <1>2, <4>2, Times
      <4>4. (Len(passed) - i + 1) * one + Rate!Refilled <= Most + (now - passed[i]) * p
        BY <1>6, <4>1
      <4>5. (now - passed[i]) * p \in Int
        BY <1>1, <1>2, <4>1
      <4>6. QED
        BY <1>2, <2>1, <2>2, <4>1, <4>3, <4>4, <4>5
    <3>4. QED
      BY <3>2, <3>3
  <2>6. BurstInv'
    <3>1. \A i \in DOMAIN passed' :
            (Len(passed') - i + 1) * Rate!One' + allowance'
              <= Most' + (last_check' + shift' - passed'[i]) * Rate!PerSecond'
      <4>1. TAKE i \in DOMAIN passed'
      <4>2. (Len(passed') - i + 1) * one + allowance' <= Most + (now - passed'[i]) * p
        BY <2>5
      <4>3. last_check' + shift' - passed'[i] = now - passed'[i]
        <5>1. passed'[i] \in Int
          BY <1>1, <2>3
        <5>2. QED
          BY <1>1, <1>7, <2>2, <5>1
      <4>4. QED
        BY <1>3, <4>2, <4>3, Zenon
    <3>2. QED
      BY <3>1 DEF BurstInv
  <2>7. \A i, j \in DOMAIN passed' :
          i <= j => (j - i + 1) * one <= Most + (passed'[j] - passed'[i]) * limit.tenths
    <3>1. SUFFICES ASSUME NEW i \in DOMAIN passed', NEW j \in DOMAIN passed', i <= j
                   PROVE  (j - i + 1) * one <= Most + (passed'[j] - passed'[i]) * limit.tenths
      OBVIOUS
    <3>2. CASE j = Len(passed) + 1
      <4>1. (j - i + 1) * one + allowance' <= Most + (now - passed'[i]) * p
        BY <2>3, <2>5, <3>1, <3>2
      <4>2. now - passed'[i] \in Nat /\ passed'[j] = now
        BY <1>1, <2>3, <3>1, <3>2
      <4>3. (now - passed'[i]) * p <= (now - passed'[i]) * limit.tenths
        <5> DEFINE d == now - passed'[i]
                   e == limit.tenths
        <5>1. d \in Nat /\ p \in Nat /\ e \in Nat /\ p <= e
          BY <1>2, <4>2
        <5> HIDE DEF d, e
        <5>2. p * d <= e * d /\ p * d = d * p /\ e * d = d * e
          BY <5>1, Times
        <5>3. QED
          BY <5>2 DEF d, e
      <4>4. allowance' >= 0 /\ allowance' \in Int
        BY <1>2, <2>1, <2>2
      <4>5. /\ (j - i + 1) * one \in Int /\ (now - passed'[i]) * p \in Int
            /\ (now - passed'[i]) * limit.tenths \in Int
        <5>1. j - i + 1 \in Int
          BY <1>1, <2>3, <3>1
        <5>2. QED
          BY <1>2, <4>2, <5>1
      <4>6. QED
        BY <1>2, <4>1, <4>2, <4>3, <4>4, <4>5
    <3>3. CASE j # Len(passed) + 1
      <4>1. i \in DOMAIN passed /\ j \in DOMAIN passed
        BY <1>1, <2>3, <3>1, <3>3
      <4>2. QED
        BY <1>5, <2>3, <3>1, <4>1
    <3>4. QED
      BY <3>2, <3>3
  <2>8. Rate!BurstBound'
    BY <1>3, <2>7 DEF Rate!BurstBound, one
  <2>9. QED
    BY <2>6, <2>8
<1>8. ASSUME passed' = passed
      PROVE  Rate!BurstBound'
  BY <1>3, <1>5, <1>8 DEF Rate!BurstBound, one
<1>9. ASSUME Rate!Short, UNCHANGED <<now, shift, passed>>
      PROVE  BurstInv' /\ Rate!BurstBound'
  <2>1. allowance' = Rate!Refilled /\ last_check' = now - shift
    BY <1>9 DEF Rate!Short, Rate!Check, Rate!Clock
  <2>2. \A i \in DOMAIN passed' :
          (Len(passed') - i + 1) * Rate!One' + allowance'
            <= Most' + (last_check' + shift' - passed'[i]) * Rate!PerSecond'
    <3>1. TAKE i \in DOMAIN passed'
    <3>2. i \in DOMAIN passed /\ passed'[i] = passed[i] /\ Len(passed') = Len(passed)
      BY <1>9
    <3>3. (Len(passed) - i + 1) * one + Rate!Refilled <= Most + (now - passed[i]) * p
      BY <1>6, <3>2
    <3>4. last_check' + shift' - passed'[i] = now - passed[i]
      BY <1>1, <1>9, <2>1, <3>2
    <3>5. QED
      BY <1>3, <2>1, <3>2, <3>3, <3>4, Zenon
  <2>3. BurstInv'
    BY <2>2 DEF BurstInv
  <2>4. QED
    BY <1>8, <1>9, <2>3
<1>10. ASSUME UNCHANGED <<last_check, allowance, passed>>, shift' = shift \/ shift' = shift + 1
       PROVE  BurstInv' /\ Rate!BurstBound'
  <2>1. \A i \in DOMAIN passed :
          (Len(passed) - i + 1) * one + allowance <= Most + (last_check + shift' - passed[i]) * p
    <3>1. TAKE i \in DOMAIN passed
    <3>2. /\ last_check + shift - passed[i] \in Int /\ last_check + shift' - passed[i] \in Int
          /\ last_check + shift - passed[i] <= last_check + shift' - passed[i]
      BY <1>1, <1>10
    <3>3. /\ (last_check + shift - passed[i]) * p <= (last_check + shift' - passed[i]) * p
          /\ (last_check + shift - passed[i]) * p \in Int /\ (last_check + shift' - passed[i]) * p \in Int
      BY <1>2, <3>2, Times
    <3>4. (Len(passed) - i + 1) * one + allowance \in Int
      BY <1>1, <1>2
    <3>5. (Len(passed) - i + 1) * one + allowance <= Most + (last_check + shift - passed[i]) * p
      BY <1>4
    <3>6. QED
      BY <1>2, <3>3, <3>4, <3>5
  <2>2. \A i \in DOMAIN passed' :
          (Len(passed') - i + 1) * Rate!One' + allowance'
            <= Most' + (last_check' + shift' - passed'[i]) * Rate!PerSecond'
    BY <1>3, <1>10, <2>1
  <2>3. BurstInv'
    BY <2>2 DEF BurstInv
  <2>4. QED
    BY <1>8, <1>10, <2>3
<1>11. QED
  BY <1>7, <1>9, <1>10
     DEF Rate!Next, Rate!Drop, Rate!Take, Rate!Wait, Rate!Yield, Rate!Tick, Rate!SetBack, Rate!SetForward, Rate!vars, Rate!clock

\* What is added to a sequence keeps a drop explained.
LEMMA UsedUpStays ==
  ASSUME NEW at \in Nat, UsedUp(at), limit' = limit, passed \in Seq(Nat),
         Rate!One' = Rate!One, Rate!Rate' = Rate!Rate,
         DOMAIN passed \subseteq DOMAIN passed', \A i \in DOMAIN passed : passed'[i] = passed[i]
  PROVE  UsedUp(at)'
<1>1. PICK i \in DOMAIN passed, n \in DOMAIN passed :
        /\ i <= n /\ \A j \in i..n : passed[j] <= at
        /\ (n - i + 1) * Rate!One > Rate!Rate - Rate!One + (at - passed[i]) * limit.tenths
  BY DEF UsedUp
<1>2. DOMAIN passed = 1..Len(passed) /\ Len(passed) \in Nat
  OBVIOUS
<1>3. \A j \in i..n : j \in DOMAIN passed
  BY <1>2
<1>4. \A j \in i..n : passed'[j] <= at
  BY <1>1, <1>3
<1>5. (n - i + 1) * Rate!One' > Rate!Rate' - Rate!One' + (at - passed'[i]) * limit'.tenths
  BY <1>1, Zenon
<1>6. QED
  BY <1>1, <1>4, <1>5 DEF UsedUp

LEMMA DropStep == RateInv /\ [Rate!Next]_Rate!vars => DropInv'
<1> SUFFICES ASSUME RateInv, [Rate!Next]_Rate!vars, Exact'
             PROVE  (waiting \/ SinceFull)' /\ (\A d \in DOMAIN dropped : UsedUp(dropped[d]))'
  BY DEF DropInv
<1> DEFINE p   == Rate!PerSecond
           one == Rate!One
           max == Rate!Rate
<1>0. RateTypes /\ RateFlags /\ DropInv
  BY DEF RateInv
<1>1. /\ now \in Nat /\ last_check \in Int /\ last_check <= now /\ allowance \in Int /\ shift \in Nat
      /\ passed \in Seq(Nat) /\ Len(passed) \in Nat /\ DOMAIN passed = 1..Len(passed)
      /\ dropped \in Seq(Nat) /\ DOMAIN dropped = 1..Len(dropped) /\ Len(dropped) \in Nat
      /\ \A i \in DOMAIN passed : passed[i] \in Nat /\ passed[i] <= now
      /\ \A d \in DOMAIN dropped : dropped[d] \in Nat
  BY <1>0, NetworkAssumption DEF RateTypes, Rate!RateLimitAssumption
<1>2. p \in Nat /\ one \in Nat \ {0} /\ max \in Nat
  BY <1>0, RateNumbers DEF RateTypes
<1>3. /\ limit' = limit /\ waiting' = waiting
      /\ Rate!One' = one /\ Rate!PerSecond' = p /\ Rate!Rate' = max
  BY LimitStays
<1>4. shift = 0 /\ shift' = 0
  <2>1. shift' = 0
    BY DEF Exact
  <2>2. shift' = shift \/ shift' = shift + 1
    BY DEF Rate!Next, Rate!Drop, Rate!Take, Rate!Wait, Rate!Yield, Rate!Tick, Rate!SetBack, Rate!SetForward, Rate!vars, Rate!clock
  <2>3. QED
    BY <1>1, <2>1, <2>2
<1>5. Exact /\ p = limit.tenths /\ max >= one
  BY <1>3, <1>4 DEF Exact
<1>6. (waiting \/ SinceFull) /\ \A d \in DOMAIN dropped : UsedUp(dropped[d])
  BY <1>0, <1>5 DEF DropInv
<1>7. /\ Rate!Refilled \in Int /\ Rate!Refilled <= max
      /\ Rate!Refilled = Grown \/ (Rate!Refilled = max /\ max <= Grown)
      /\ Grown = allowance + (now - last_check) * p /\ Rate!Clock = now
  <2>1. now - shift - last_check = now - last_check /\ now - shift = now
    BY <1>1, <1>4
  <2>2. QED
    BY <1>0, <2>1, RefilledIsGrown DEF p, max
<1> HIDE DEF p, one, max
\* Refilled, the allowance is full or still what was not taken since it was.
<1>8. ~waiting => Rate!Refilled = max \/
        \E i \in DOMAIN passed :
          Rate!Refilled = max - (Len(passed) - i + 1) * one + (now - passed[i]) * p
  <2>1. SUFFICES ASSUME ~waiting, Rate!Refilled # max
                 PROVE  \E i \in DOMAIN passed :
                          Rate!Refilled = max - (Len(passed) - i + 1) * one + (now - passed[i]) * p
    OBVIOUS
  <2>2. Rate!Refilled = allowance + (now - last_check) * p
    BY <1>7, <2>1
  <2>3. (now - last_check) * p \in Nat
    BY <1>1, <1>2
  <2>4. allowance # max
    BY <1>1, <1>2, <1>7, <2>1, <2>2, <2>3
  <2>5. PICK i \in DOMAIN passed :
          /\ passed[i] <= last_check
          /\ allowance = max - (Len(passed) - i + 1) * one + (last_check - passed[i]) * p
    BY <1>6, <2>1, <2>4 DEF SinceFull, p, one, max
  <2> DEFINE a == last_check - passed[i]
             b == now - last_check
             taken_ == (Len(passed) - i + 1) * one
  <2>6. a \in Int /\ b \in Int /\ a + b = now - passed[i]
    BY <1>1
  <2>7. taken_ \in Int
    BY <1>1, <1>2
  <2>8. allowance = max - taken_ + a * p /\ Rate!Refilled = allowance + b * p
    BY <2>2, <2>5
  <2> HIDE DEF a, b, taken_
  <2>9. (a + b) * p = a * p + b * p /\ a * p \in Int /\ b * p \in Int
    BY <1>2, <2>6, Times
  <2>10. Rate!Refilled = max - taken_ + (a + b) * p
    BY <1>2, <2>7, <2>8, <2>9
  <2>11. QED
    BY <2>6, <2>10 DEF taken_
<1>9. ASSUME Rate!Pass, now' = now
      PROVE  /\ (waiting \/ SinceFull)'
             /\ DOMAIN passed \subseteq DOMAIN passed' /\ \A i \in DOMAIN passed : passed'[i] = passed[i]
  <2>1. allowance' = Rate!Refilled - one /\ passed' = Append(passed, now) /\ last_check' = now
    BY <1>7, <1>9 DEF Rate!Pass, Rate!Check, one
  <2>2. /\ Len(passed') = Len(passed) + 1 /\ DOMAIN passed' = 1..(Len(passed) + 1)
        /\ \A i \in DOMAIN passed : passed'[i] = passed[i]
        /\ passed'[Len(passed) + 1] = now
    BY <1>1, <2>1, OneMore
  <2>3. ASSUME ~waiting
        PROVE  \E i \in DOMAIN passed' :
                 /\ passed'[i] <= last_check'
                 /\ allowance' = max - (Len(passed') - i + 1) * one + (last_check' - passed'[i]) * p
    <3>1. CASE Rate!Refilled = max
      <4> DEFINE i     == Len(passed) + 1
                 items == Len(passed') - i + 1
                 since == last_check' - passed'[i]
                 left  == allowance'
      <4>1. i \in DOMAIN passed' /\ passed'[i] = now /\ last_check' = now
        BY <1>1, <2>1, <2>2
      <4>2. items = 1 /\ since = 0 /\ left = max - one /\ passed'[i] <= last_check'
        BY <1>1, <2>1, <2>2, <3>1, <4>1
      <4> HIDE DEF items, since, left
      <4>3. items * one = one /\ since * p = 0
        BY <1>2, <4>2
      <4>4. left = max - items * one + since * p
        BY <1>2, <4>2, <4>3
      <4> HIDE DEF i
      <4>5. QED
        BY <4>1, <4>2, <4>4 DEF items, since, left
    <3>2. CASE Rate!Refilled # max
      <4>1. PICK i \in DOMAIN passed :
              Rate!Refilled = max - (Len(passed) - i + 1) * one + (now - passed[i]) * p
        BY <1>8, <2>3, <3>2
      <4>2. i \in DOMAIN passed' /\ passed'[i] = passed[i] /\ passed'[i] <= last_check'
        BY <1>1, <2>1, <2>2
      <4> DEFINE items == Len(passed) - i + 1
                 more  == Len(passed') - i + 1
                 since == now - passed[i]
                 left  == allowance'
      <4>3. items \in Int /\ more = items + 1 /\ since \in Int /\ since = last_check' - passed'[i]
        BY <1>1, <2>1, <2>2, <4>2
      <4>4. Rate!Refilled = max - items * one + since * p /\ left = Rate!Refilled - one
        BY <2>1, <4>1
      <4> HIDE DEF items, more, since, left
      <4>5. more * one = items * one + one /\ items * one \in Int /\ since * p \in Int
        BY <1>2, <4>3, Times
      <4>6. left = max - more * one + since * p
        BY <1>2, <4>4, <4>5
      <4>7. left = max - more * one + (last_check' - passed'[i]) * p
        BY <4>3, <4>6, Zenon
      <4>8. QED
        BY <4>2, <4>7 DEF more, left
    <3>3. QED
      BY <3>1, <3>2
  <2>4. (waiting \/ SinceFull)'
    <3>1. CASE waiting
      BY <1>3, <3>1
    <3>2. CASE ~waiting
      <4>1. PICK i \in DOMAIN passed' :
              /\ passed'[i] <= last_check'
              /\ allowance' = max - (Len(passed') - i + 1) * one + (last_check' - passed'[i]) * p
        BY <2>3, <3>2
      <4>2. allowance' = Rate!Rate' - (Len(passed') - i + 1) * Rate!One'
                           + (last_check' - passed'[i]) * Rate!PerSecond'
        BY <1>3, <4>1, Zenon
      <4>3. SinceFull'
        BY <4>1, <4>2 DEF SinceFull
      <4>4. QED
        BY <4>3
    <3>3. QED
      BY <3>1, <3>2
  <2>5. QED
    BY <1>1, <2>2, <2>4
<1>10. ASSUME Rate!Short, now' = now, passed' = passed
       PROVE  /\ (waiting \/ SinceFull)'
              /\ ~waiting => UsedUp(now)
  <2>1. allowance' = Rate!Refilled /\ last_check' = now /\ Rate!Refilled < one
    BY <1>7, <1>10 DEF Rate!Short, Rate!Check, one
  <2>2. ASSUME ~waiting
        PROVE  \E i \in DOMAIN passed :
                 Rate!Refilled = max - (Len(passed) - i + 1) * one + (now - passed[i]) * p
    BY <1>2, <1>5, <1>7, <1>8, <2>1, <2>2 DEF one, max
  <2>3. CASE waiting
    BY <1>3, <2>3
  <2>4. CASE ~waiting
    <3>1. PICK i \in DOMAIN passed :
            Rate!Refilled = max - (Len(passed) - i + 1) * one + (now - passed[i]) * p
      BY <2>2, <2>4
    <3>2. SinceFull'
      <4>1. i \in DOMAIN passed' /\ passed'[i] <= last_check'
        BY <1>1, <1>10, <2>1
      <4>2. allowance' = Rate!Rate' - (Len(passed') - i + 1) * Rate!One'
                           + (last_check' - passed'[i]) * Rate!PerSecond'
        BY <1>3, <1>10, <2>1, <3>1, Zenon
      <4>3. QED
        BY <4>1, <4>2 DEF SinceFull
    <3>3. UsedUp(now)
      <4> DEFINE n     == Len(passed)
                 items == (n - i + 1) * one
                 since == (now - passed[i]) * p
      <4>1. n \in DOMAIN passed /\ i <= n /\ \A j \in i..n : passed[j] <= now
        <5>1. n \in DOMAIN passed /\ i <= n /\ i \in Nat /\ n \in Nat
          BY <1>1
        <5>2. \A j \in i..n : j \in DOMAIN passed
          BY <1>1, <5>1
        <5>3. QED
          BY <1>1, <5>1, <5>2
      <4>2. items \in Int /\ since \in Int
        BY <1>1, <1>2
      <4>3. Rate!Refilled = max - items + since
        BY <3>1
      <4> HIDE DEF n, items, since
      <4>4. items > max - one + since
        BY <1>2, <1>7, <2>1, <4>2, <4>3
      <4>5. (n - i + 1) * one > max - one + (now - passed[i]) * limit.tenths
        BY <1>5, <4>4 DEF items, since
      <4>6. QED
        BY <4>1, <4>5 DEF UsedUp, one, max
    <3>4. QED
      BY <3>2, <3>3
  <2>5. QED
    BY <2>3, <2>4
<1>11. ASSUME DOMAIN passed \subseteq DOMAIN passed', \A i \in DOMAIN passed : passed'[i] = passed[i]
       PROVE  \A at \in Nat : UsedUp(at) => UsedUp(at)'
  BY <1>1, <1>3, <1>11, UsedUpStays DEF one, max
<1>12. ASSUME DOMAIN passed \subseteq DOMAIN passed', \A i \in DOMAIN passed : passed'[i] = passed[i],
              dropped' = dropped
       PROVE  (\A d \in DOMAIN dropped : UsedUp(dropped[d]))'
  <2>1. ASSUME NEW d \in DOMAIN dropped PROVE UsedUp(dropped[d])'
    <3>1. PICK at \in Nat : at = dropped[d] /\ UsedUp(at)
      BY <1>1, <1>6
    <3>2. dropped'[d] = at
      BY <1>12, <3>1
    <3>3. UsedUp(at)'
      BY <1>11, <1>12, <3>1
    <3>4. QED
      BY <3>2, <3>3 DEF UsedUp
  <2>2. QED
    BY <1>12, <2>1
<1>13. CASE Rate!Drop
  <2>1. ~waiting /\ UNCHANGED now
    BY <1>13 DEF Rate!Drop, Rate!clock
  <2>2. CASE Rate!Pass /\ UNCHANGED dropped
    BY <1>9, <1>12, <2>1, <2>2
  <2>3. CASE Rate!Short /\ dropped' = Append(dropped, now) /\ UNCHANGED passed
    <3>1. (waiting \/ SinceFull)' /\ UsedUp(now)
      BY <1>10, <2>1, <2>3
    <3>2. /\ DOMAIN dropped' = 1..(Len(dropped) + 1) /\ \A d \in DOMAIN dropped : dropped'[d] = dropped[d]
          /\ dropped'[Len(dropped) + 1] = now
      BY <1>1, <2>3, OneMore
    <3>3. ASSUME NEW d \in DOMAIN dropped' PROVE UsedUp(dropped'[d])
      <4>1. CASE d = Len(dropped) + 1
        BY <3>1, <3>2, <4>1
      <4>2. CASE d # Len(dropped) + 1
        <5>1. d \in DOMAIN dropped
          BY <1>1, <3>2, <4>2
        <5>2. dropped'[d] = dropped[d] /\ UsedUp(dropped[d])
          BY <1>6, <3>2, <5>1
        <5>3. QED
          BY <5>2
      <4>3. QED
        BY <4>1, <4>2
    <3>4. \A d \in DOMAIN dropped' : dropped'[d] \in Nat
      BY <1>1, <3>2
    <3>5. ASSUME NEW d \in DOMAIN dropped' PROVE UsedUp(dropped[d])'
      <4>1. PICK at \in Nat : at = dropped'[d]
        BY <3>4
      <4>2. UsedUp(at)
        BY <3>3, <4>1
      <4>3. UsedUp(at)'
        BY <1>11, <2>3, <4>2
      <4>4. QED
        BY <4>1, <4>3 DEF UsedUp
    <3>6. QED
      BY <3>1, <3>5
  <2>4. QED
    BY <1>13, <2>2, <2>3 DEF Rate!Drop, Rate!clock
<1>14. CASE Rate!Wait
  <2>1. Rate!Short /\ UNCHANGED <<now, passed, dropped>>
    BY <1>14 DEF Rate!Wait, Rate!clock
  <2>2. QED
    BY <1>10, <1>12, <2>1
<1>15. CASE Rate!Yield
  <2>1. Rate!Pass /\ UNCHANGED <<now, dropped>>
    BY <1>15 DEF Rate!Yield, Rate!clock
  <2>2. QED
    BY <1>9, <1>12, <2>1
<1>16. CASE UNCHANGED <<last_check, allowance, passed, dropped>>
  <2>1. (waiting \/ SinceFull)'
    <3>1. SinceFull => SinceFull'
      BY <1>3, <1>16 DEF SinceFull, p, one, max
    <3>2. QED
      BY <1>3, <1>6, <3>1
  <2>2. QED
    BY <1>12, <1>16, <2>1
<1>17. QED
  BY <1>13, <1>14, <1>15, <1>16 DEF Rate!Next, Rate!Take, Rate!Tick, Rate!SetBack, Rate!SetForward, Rate!vars, Rate!clock

LEMMA WaitStep == RateInv /\ [Rate!Next]_Rate!vars => WaitInv' /\ Rate!WaitIsBounded'
<1> SUFFICES ASSUME RateInv, [Rate!Next]_Rate!vars
             PROVE  WaitInv' /\ Rate!WaitIsBounded'
  OBVIOUS
<1> DEFINE p   == Rate!PerSecond
           one == Rate!One
           max == Rate!Rate
<1>0. RateTypes /\ RateFlags /\ WaitInv /\ Rate!WaitIsBounded
  BY DEF RateInv
<1>1. /\ now \in Nat /\ shift \in Nat /\ last_check \in Int /\ allowance \in Int /\ took \in Nat
      /\ ahead \in Nat
  BY <1>0, NetworkAssumption DEF RateTypes, Rate!RateLimitAssumption
<1>2. p \in Nat /\ one \in Nat \ {0} /\ max \in Nat
  BY <1>0, RateNumbers DEF RateTypes
<1>3. /\ limit' = limit /\ waiting' = waiting
      /\ Rate!One' = one /\ Rate!PerSecond' = p /\ Rate!Rate' = max
  BY LimitStays
<1>4. /\ Rate!Refilled \in Int /\ Rate!Refilled <= max
      /\ Rate!Refilled = Grown \/ (Rate!Refilled = max /\ max <= Grown)
      /\ Grown \in Int /\ Grown = allowance + (now - shift - last_check) * p
      /\ Rate!Clock = now - shift
  BY <1>0, RefilledIsGrown DEF p, max
<1>5. /\ waiting /\ p > 0 /\ max >= one =>
           /\ Grown >= -shift * p
           /\ item => Grown >= (now - ahead - took - shift) * p
      /\ item /\ p > 0 /\ max >= one => (now - ahead - took - shift - 1) * p < one
      /\ item => waiting
  BY <1>0 DEF WaitInv, Rate!WaitIsBounded, Rate!Elapsed, RateFlags
<1>6. Grown' = allowance' + (now' - shift' - last_check') * p
  BY <1>3 DEF Grown
<1>7. item' => waiting
  BY <1>5 DEF Rate!Next, Rate!Drop, Rate!Take, Rate!Wait, Rate!Yield, Rate!Tick, Rate!SetBack, Rate!SetForward, Rate!vars, Rate!clock
<1> DEFINE old    == now - shift - last_check
           waited == now - ahead - took - shift
           back   == -shift
           less   == now - ahead - took - shift - 1
<1>8. ASSUME waiting, p > 0, max >= one
      PROVE  /\ Grown' >= -shift' * p
             /\ item' => /\ Grown' >= (now' - ahead' - took' - shift') * p
                         /\ (now' - ahead' - took' - shift' - 1) * p < one
  <2> HIDE DEF p, one, max
  <2>0. /\ old \in Int /\ waited \in Int /\ back \in Int /\ less = waited - 1
        /\ Grown = allowance + old * p
    BY <1>1, <1>4
  <2>1. /\ -shift * p = back * p
        /\ old * p \in Int /\ waited * p \in Int /\ back * p \in Int
        /\ (old + 1) * p = old * p + p /\ (old - 1) * p = old * p - p
        /\ (waited + 1) * p = waited * p + p /\ (waited - 1) * p = waited * p - p
        /\ (back - 1) * p = back * p - p
    <3>1. -shift * p = back * p
      BY <1>1, <1>2
    <3> HIDE DEF old, waited, back
    <3>2. QED
      BY <1>2, <2>0, <3>1, Times
  <2>2. Grown >= back * p /\ (item => Grown >= waited * p /\ waited * p - p < one)
    BY <1>5, <1>8, <2>0, <2>1
  <2>3. CASE Rate!Yield
    <3>1. /\ item' = FALSE /\ shift' = shift /\ now' = now /\ last_check' = now - shift
          /\ Rate!Refilled >= one /\ allowance' = Rate!Refilled - one
      BY <1>4, <2>3 DEF Rate!Yield, Rate!clock, Rate!Pass, Rate!Check, one
    <3>2. now' - shift' - last_check' = 0 /\ allowance' \in Nat
      BY <1>1, <1>2, <1>4, <3>1
    <3>3. Grown' = allowance' + 0 * p
      BY <1>6, <3>2
    <3>4. Grown' >= 0 /\ Grown' \in Int
      <4>1. 0 * p = 0
        BY <1>2
      <4>2. QED
        BY <3>2, <3>3, <4>1
    <3>5. shift * p \in Nat
      BY <1>1, <1>2
    <3>6. QED
      BY <3>1, <3>4, <3>5
  <2>4. CASE Rate!Wait
    <3>1. /\ item' = item /\ shift' = shift /\ now' = now /\ ahead' = ahead /\ took' = took /\ last_check' = now - shift
          /\ Rate!Refilled < one /\ allowance' = Rate!Refilled
      BY <1>4, <2>4 DEF Rate!Wait, Rate!clock, Rate!Short, Rate!Check, one
    <3>2. now' - shift' - last_check' = 0 /\ Rate!Refilled = Grown
      BY <1>1, <1>2, <1>4, <1>8, <3>1
    <3>3. Grown' = Grown + 0 * p
      BY <1>6, <3>1, <3>2
    <3>4. Grown' = Grown
      BY <1>2, <1>4, <3>3
    <3>5. QED
      BY <1>5, <1>8, <3>1, <3>4
  <2>5. CASE Rate!Take
    <3>1. took' = now - ahead /\ UNCHANGED <<now, ahead, shift, last_check, allowance>>
      BY <2>5 DEF Rate!Take, Rate!clock, Rate!Elapsed
    <3>2. Grown' = Grown
      BY <1>4, <1>6, <3>1
    <3>3. now' - ahead' - took' - shift' = back /\ now' - ahead' - took' - shift' - 1 = back - 1
      BY <1>1, <3>1
    <3>4. back * p <= 0
      BY <1>1, <1>2, <2>1
    <3> HIDE DEF back
    <3>5. (now' - ahead' - took' - shift') * p = back * p /\ (now' - ahead' - took' - shift' - 1) * p = back * p - p
      BY <2>1, <3>3
    <3>6. QED
      BY <1>2, <2>1, <2>2, <3>1, <3>2, <3>4, <3>5
  <2>6. CASE Rate!Tick
    <3>1. now' = now + 1 /\ UNCHANGED <<ahead, shift, last_check, allowance, item, took>>
          /\ ~(item /\ Rate!Refilled >= one)
      BY <1>8, <2>6 DEF Rate!Tick, one
    <3>2. /\ now' - shift' - last_check' = old + 1 /\ now' - ahead' - took' - shift' = waited + 1
          /\ now' - ahead' - took' - shift' - 1 = waited
      BY <1>1, <3>1
    <3> HIDE DEF old, waited, back
    <3>3. Grown' = Grown + p /\ (now' - ahead' - took' - shift') * p = waited * p + p
          /\ (now' - ahead' - took' - shift' - 1) * p = waited * p
      BY <1>1, <1>2, <1>6, <2>0, <2>1, <3>1, <3>2
    <3>4. item => Grown < one
      BY <1>2, <1>4, <1>8, <3>1
    <3>5. QED
      BY <1>2, <1>4, <2>1, <2>2, <3>1, <3>3, <3>4
  <2>7. CASE Rate!SetBack
    <3>1. shift' = shift + 1 /\ UNCHANGED <<now, ahead, last_check, allowance, item, took>>
      BY <2>7 DEF Rate!SetBack
    <3>2. /\ now' - shift' - last_check' = old - 1 /\ now' - ahead' - took' - shift' = waited - 1
          /\ now' - ahead' - took' - shift' - 1 = waited - 1 - 1 /\ -shift' = back - 1
      BY <1>1, <3>1
    <3>3. -shift' * p = (-shift') * p
      BY <1>1, <1>2, <3>1
    <3> HIDE DEF old, waited, back
    <3>4. (waited - 1 - 1) * p = waited * p - p - p
      BY <1>2, <2>0, <2>1, Times
    <3>5. /\ Grown' = Grown - p /\ (now' - ahead' - took' - shift') * p = waited * p - p
          /\ (now' - ahead' - took' - shift' - 1) * p = waited * p - p - p /\ -shift' * p = back * p - p
      BY <1>1, <1>2, <1>6, <2>0, <2>1, <3>1, <3>2, <3>3, <3>4
    <3>6. QED
      BY <1>2, <1>4, <2>1, <2>2, <3>1, <3>5
  <2>8. CASE Rate!SetForward
    <3>1. now' = now + 1 /\ ahead' = ahead + 1 /\ UNCHANGED <<shift, last_check, allowance, item, took>>
      BY <2>8 DEF Rate!SetForward
    <3>2. /\ now' - shift' - last_check' = old + 1 /\ now' - ahead' - took' - shift' = waited
          /\ now' - ahead' - took' - shift' - 1 = waited - 1
      BY <1>1, <3>1
    <3> HIDE DEF old, waited, back
    <3>3. Grown' = Grown + p /\ (now' - ahead' - took' - shift') * p = waited * p
          /\ (now' - ahead' - took' - shift' - 1) * p = waited * p - p
      BY <1>1, <1>2, <1>6, <2>0, <2>1, <3>1, <3>2
    <3>4. QED
      BY <1>2, <1>4, <2>1, <2>2, <3>1, <3>3
  <2>9. CASE UNCHANGED Rate!vars
    <3>1. UNCHANGED <<now, ahead, shift, last_check, allowance, item, took>>
      BY <2>9 DEF Rate!vars, Rate!clock
    <3>2. Grown' = Grown
      BY <1>4, <1>6, <3>1
    <3>3. QED
      BY <1>5, <1>8, <3>1, <3>2
  <2>10. QED
    BY <1>8, <2>3, <2>4, <2>5, <2>6, <2>7, <2>8, <2>9 DEF Rate!Next, Rate!Drop
<1>9. QED
  BY <1>3, <1>7, <1>8 DEF WaitInv, Rate!WaitIsBounded, Rate!Elapsed

LEMMA Rates == LiveSpec => [](part = "rate" => RateInv)
<1>1. Init => (part = "rate" => RateInv)
  BY RateInit DEF Init
<1>2. (part = "rate" => RateInv) /\ [Next]_vars => (part = "rate" => RateInv)'
  BY RateTypesStep, BurstStep, DropStep, WaitStep, PartsStayApart DEF RateInv
<1>3. QED
  BY <1>1, <1>2, PTL DEF LiveSpec

LEMMA SameCardinality == \A S : Rate!Cardinality(S) = Cardinality(S)
BY DEF Rate!Cardinality, Cardinality

\* Items that went through before a drop are counted.
LEMMA CountedSince ==
  ASSUME NEW at \in Nat, RateTypes, UsedUp(at), Rate!PerSecond = limit.tenths
  PROVE  \E i \in DOMAIN passed :
           LET since == {j \in DOMAIN passed : i <= j /\ passed[j] <= at}
           IN  /\ passed[i] <= at
               /\ Rate!Cardinality(since) * Rate!One > Rate!Rate - Rate!One + (at - passed[i]) * limit.tenths
<1>1. PICK i \in DOMAIN passed, n \in DOMAIN passed :
        /\ i <= n /\ \A j \in i..n : passed[j] <= at
        /\ (n - i + 1) * Rate!One > Rate!Rate - Rate!One + (at - passed[i]) * limit.tenths
  BY DEF UsedUp
<1> DEFINE since == {j \in DOMAIN passed : i <= j /\ passed[j] <= at}
           one   == Rate!One
           more  == Rate!Rate - Rate!One + (at - passed[i]) * limit.tenths
<1>2. /\ passed \in Seq(Nat) /\ DOMAIN passed = 1..Len(passed) /\ Len(passed) \in Nat
      /\ one \in Nat /\ Rate!Rate \in Nat /\ limit.tenths \in Nat
  BY RateNumbers DEF RateTypes
<1>3. i \in Nat /\ n \in Nat /\ i \in i..n /\ passed[i] \in Nat /\ i..n \subseteq since
  <2>0. i \in DOMAIN passed /\ n \in DOMAIN passed /\ i <= n /\ \A j \in i..n : passed[j] <= at
    BY <1>1
  <2>1. i \in Nat /\ n \in Nat /\ passed[i] \in Nat /\ 1 <= i /\ n <= Len(passed)
    BY <1>2, <2>0
  <2>2. ASSUME NEW j \in i..n PROVE j \in DOMAIN passed /\ i <= j /\ passed[j] <= at
    BY <1>2, <2>0, <2>1
  <2>3. QED
    BY <2>0, <2>1, <2>2
<1>4. IsFiniteSet(1..Len(passed)) /\ since \subseteq 1..Len(passed)
  BY <1>2, FS_Interval
<1>5. IsFiniteSet(since)
  BY <1>4, FS_Subset
<1>6. Cardinality(i..n) <= Cardinality(since) /\ Cardinality(i..n) = n - i + 1 /\ Cardinality(since) \in Nat
  <2>1. Cardinality(i..n) <= Cardinality(since)
    BY <1>3, <1>5, FS_Subset
  <2>2. Cardinality(i..n) = n - i + 1
    <3>1. Cardinality(i..n) = IF i > n THEN 0 ELSE n - i + 1
      <4>1. i \in Int /\ n \in Int
        BY <1>3
      <4>2. QED
        BY <4>1, FS_Interval
    <3>2. QED
      BY <1>1, <1>3, <3>1
  <2>3. QED
    BY <1>5, <2>1, <2>2, FS_CardinalityType
<1>7. more \in Int
  BY <1>2, <1>3
<1> DEFINE c == Cardinality(since)
           d == n - i + 1
<1>8. d \in Int /\ c \in Int /\ d <= c /\ d * one > more
  BY <1>1, <1>3, <1>6
<1> HIDE DEF one, more, c, d
<1>9. d * one <= c * one /\ d * one \in Int /\ c * one \in Int
  BY <1>2, <1>8, Times
<1>10. c * one > more
  BY <1>7, <1>8, <1>9
<1>11. passed[i] <= at
  BY <1>1, <1>3
<1>12. QED
  BY <1>10, <1>11, SameCardinality DEF one, more, c

(* The rate limits let through no more in any stretch of time than one     *)
(* burst and the rate for it, and for what the clock is set forward in it; *)
(* with rate / per exact and a clock that was never set back they drop     *)
(* only what would exceed that; and they have no item wait longer than the *)
(* time that one takes at the rate and that by which the clock was set     *)
(* back.                                                                   *)
THEOREM RatesAreKept == LiveSpec => []RateIsKept
<1>1. RateInv => Rate!TypeOK
  <2> SUFFICES ASSUME RateInv
               PROVE  Rate!TypeOK
    OBVIOUS
  <2>1. RateTypes /\ RateFlags /\ CountInv
    BY DEF RateInv
  <2>2. Horizon \in Nat /\ BackSteps \in Nat
    BY NetworkAssumption DEF Rate!RateLimitAssumption
  <2>3. last_check \in (-BackSteps)..Horizon
    BY <2>1, <2>2 DEF RateTypes
  <2>4. QED
    BY <2>1, <2>3 DEF Rate!TypeOK, Rate!Elapsed, RateTypes, RateFlags, CountInv, Most
<1>2. RateInv => Rate!DropsOnlyWhenFull
  <2> SUFFICES ASSUME RateInv, Exact
               PROVE  \A d \in DOMAIN dropped : \E i \in DOMAIN passed :
                        LET since == {j \in DOMAIN passed : i <= j /\ passed[j] <= dropped[d]}
                        IN  /\ passed[i] <= dropped[d]
                            /\ Rate!Cardinality(since) * Rate!One
                                 > Rate!Rate - Rate!One + (dropped[d] - passed[i]) * limit.tenths
    BY DEF Rate!DropsOnlyWhenFull, Exact
  <2>1. TAKE d \in DOMAIN dropped
  <2>2. dropped[d] \in Nat /\ UsedUp(dropped[d]) /\ RateTypes /\ Rate!PerSecond = limit.tenths
    BY DEF RateInv, RateTypes, DropInv, Exact
  <2>3. QED
    BY <2>2, CountedSince
<1>3. RateInv => Rate!BurstBound /\ Rate!WaitIsBounded
  BY DEF RateInv
<1>4. QED
  BY <1>1, <1>2, <1>3, Rates, PTL DEF RateIsKept
=============================================================================
