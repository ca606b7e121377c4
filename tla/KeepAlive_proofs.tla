-------------------------- MODULE KeepAlive_proofs --------------------------
(***************************************************************************)
(* What the connection pool of helpers/keepalive.py keeps for any number   *)
(* of requests, hosts and closing calls.                                   *)
(***************************************************************************)
EXTENDS KeepAlive, TLAPS

(* A request that is not about to ask for a connection has one.            *)
ConnInv ==
  \A q \in Requests : pc[q] \notin {"ask", "create", "failed"} => conn[q] \in Requests

TypeInv == TypeOK /\ ConnInv

-----------------------------------------------------------------------------
(* list.remove gives a list again, one shorter.                            *)
LEMMA WithoutType ==
  ASSUME NEW S, NEW list \in Seq(S), NEW c
  PROVE  Without(list, c) \in Seq(S)
<1> DEFINE k == CHOOSE i \in DOMAIN list : list[i] = c /\ \A j \in 1..i-1 : list[j] # c
           n == IF list = <<>> THEN 0 ELSE Len(list) - 1
<1>1. Without(list, c) = [i \in 1..Len(list)-1 |-> IF i < k THEN list[i] ELSE list[i+1]]
  BY DEF Without
<1>2. n \in Nat /\ 1..n = 1..Len(list)-1
  OBVIOUS
<1>3. \A i \in 1..n : list[i] \in S /\ list[i+1] \in S
  BY <1>2
<1> HIDE DEF k, n
<1>4. Without(list, c) \in [1..n -> S]
  BY <1>1, <1>2, <1>3
<1>5. QED
  BY <1>2, <1>4

(* The same for an element that is in the list once.                       *)
OnceAt(list, c, k) == k \in DOMAIN list /\ \A j \in DOMAIN list : list[j] = c <=> k = j

LEMMA WithoutFacts ==
  \A list \in Seq(Requests) : \A c, k :
    OnceAt(list, c, k) =>
      /\ Len(list) > 0
      /\ Without(list, c) = [i \in 1..Len(list)-1 |-> IF i < k THEN list[i] ELSE list[i+1]]
<1> SUFFICES ASSUME NEW list \in Seq(Requests), NEW c, NEW k, OnceAt(list, c, k)
             PROVE  /\ Len(list) > 0
                    /\ Without(list, c) = [i \in 1..Len(list)-1 |->
                                             IF i < k THEN list[i] ELSE list[i+1]]
  OBVIOUS
<1>1. DOMAIN list = 1..Len(list) /\ k \in DOMAIN list
  BY DEF OnceAt
<1>2. list[k] = c /\ \A j \in 1..k-1 : list[j] # c
  BY <1>1 DEF OnceAt
<1>3. \A i \in DOMAIN list : list[i] = c => i = k
  BY DEF OnceAt
<1>4. k = CHOOSE i \in DOMAIN list : list[i] = c /\ \A j \in 1..i-1 : list[j] # c
  BY <1>1, <1>2, <1>3
<1>5. QED
  BY <1>1, <1>4 DEF Without

LEMMA RemoveTypes ==
  ASSUME TypeOK, NEW c \in Requests, NEW s \in Sweep, Remove(c, s)
  PROVE  /\ hostmap' \in [Hosts -> Seq(Requests)]
         /\ connmap' \in [Requests -> Hosts \cup {None}]
         /\ readymap' \in [Requests -> {0, 1, None}]
         /\ sweep' \in Sweep
<1>1. CASE connmap[c] = None /\ sweep' = s /\ UNCHANGED pool
  BY <1>1 DEF TypeOK, pool
<1>2. CASE connmap[c] # None
  <2> DEFINE h == connmap[c]
  <2>1. h \in Hosts
    BY <1>2 DEF TypeOK
  <2>2. Without(hostmap[h], c) \in Seq(Requests)
    BY <2>1, WithoutType DEF TypeOK
  <2>3. [s EXCEPT !.walk = @ \ {h}] \in Sweep
    BY DEF Sweep
  <2>4. sweep' \in Sweep
    BY <1>2, <2>3 DEF Remove
  <2>5. hostmap' \in [Hosts -> Seq(Requests)]
    BY <1>2, <2>1, <2>2 DEF Remove, TypeOK
  <2>6. QED
    BY <1>2, <2>4, <2>5 DEF Remove, TypeOK
<1>3. QED
  BY <1>1, <1>2 DEF Remove

LEMMA CloseTypes ==
  ASSUME TypeOK, NEW c \in Requests, CloseConn(c)
  PROVE  /\ readymap' \in [Requests -> {0, 1, None}]
         /\ sock' \in [Requests -> BOOLEAN] /\ sent' \in [Requests -> BOOLEAN]
         /\ answer' \in [Requests -> Requests \cup {None}]
         /\ fp' \in [Requests -> BOOLEAN]
         /\ UNCHANGED <<hostmap, connmap>>
BY DEF CloseConn, TypeOK

LEMMA NoSweepType == NoSweep \in Sweep
BY DEF NoSweep, Sweep

LEMMA TypeInit == Init => TypeInv
BY KeepAliveAssumption, NoSweepType DEF Init, TypeInv, TypeOK, ConnInv, Steps

LEMMA OpeningTypes ==
  ASSUME TypeInv, NEW q \in Requests, Opening(q)
  PROVE  TypeInv'
<1> USE KeepAliveAssumption DEF TypeInv, Goto, pool, http, Steps
<1>1. CASE GetReady(q)
  <2>1. CASE Goto(q, "create") /\ UNCHANGED <<conn, readymap>>
    BY <1>1, <2>1 DEF GetReady, TypeOK, ConnInv
  <2>2. ASSUME NEW i \in Free(HostOf[q]),
               conn' = [conn EXCEPT ![q] = hostmap[HostOf[q]][i]],
               readymap' = [readymap EXCEPT ![hostmap[HostOf[q]][i]] = 0],
               Goto(q, "send")
        PROVE  TypeInv'
    <3>1. hostmap[HostOf[q]][i] \in Requests
      BY DEF TypeOK, Free
    <3>2. QED
      BY <1>1, <2>2, <3>1 DEF GetReady, TypeOK, ConnInv
  <2>3. QED
    BY <1>1, <2>1, <2>2 DEF GetReady
<1>2. CASE Add(q)
  <2>1. HostOf[q] \in Hosts
    OBVIOUS
  <2>2. Append(hostmap[HostOf[q]], q) \in Seq(Requests)
    BY <2>1 DEF TypeOK
  <2>3. hostmap' \in [Hosts -> Seq(Requests)]
    BY <1>2, <2>1, <2>2 DEF Add, TypeOK
  <2>4. QED
    BY <1>2, <2>1, <2>3 DEF Add, TypeOK, ConnInv
<1>3. CASE StartTransaction(q)
  <2>1. conn[q] \in Requests /\ pc[q] = "send"
    BY <1>3 DEF StartTransaction, ConnInv
  <2>2. /\ sent' \in [Requests -> BOOLEAN] /\ sock' \in [Requests -> BOOLEAN]
        /\ UNCHANGED <<pool, conn, sweep, answer, fp>>
    BY <1>3, <2>1 DEF StartTransaction, TypeOK
  <2>3. \E step \in Steps : Goto(q, step)
    BY <1>3 DEF StartTransaction, Trouble, Unexpected
  <2>4. QED
    BY <2>1, <2>2, <2>3 DEF TypeOK, ConnInv
<1>4. CASE GetResponse(q)
  <2>1. conn[q] \in Requests
    BY <1>4 DEF GetResponse, ConnInv
  <2>2. /\ sent' \in [Requests -> BOOLEAN] /\ fp' \in [Requests -> BOOLEAN]
        /\ answer' \in [Requests -> Requests \cup {None}]
        /\ sock' \in [Requests -> BOOLEAN]
    <3>1. CASE UNCHANGED http
      BY <3>1 DEF TypeOK
    <3>2. ASSUME NEW a \in {q, None},
                 sent' = [sent EXCEPT ![conn[q]] = FALSE], fp' = [fp EXCEPT ![q] = TRUE],
                 answer' = [answer EXCEPT ![conn[q]] = a],
                 sock' = [sock EXCEPT ![conn[q]] = FALSE] \/ sock' = sock
          PROVE  /\ sent' \in [Requests -> BOOLEAN] /\ fp' \in [Requests -> BOOLEAN]
                 /\ answer' \in [Requests -> Requests \cup {None}]
                 /\ sock' \in [Requests -> BOOLEAN]
      BY <2>1, <3>2 DEF TypeOK
    <3>3. QED
      BY <1>4, <3>1, <3>2 DEF GetResponse
  <2>3. UNCHANGED <<pool, conn, sweep>>
    BY <1>4 DEF GetResponse
  <2>4. \E step \in Steps : Goto(q, step)
    BY <1>4 DEF GetResponse, Trouble, Unexpected
  <2>5. pc[q] = "await"
    BY <1>4 DEF GetResponse
  <2>6. QED
    BY <2>1, <2>2, <2>3, <2>4, <2>5 DEF TypeOK, ConnInv
<1>5. ASSUME NEW step \in {"remove", "evict", "retire"}, NEW after \in {"ask", "evicted", "got"},
             Drop(q, step, after)
      PROVE  TypeInv'
  <2>1. conn[q] \in Requests /\ sweep \in Sweep /\ Remove(conn[q], sweep)
    BY <1>5 DEF Drop, TypeOK, ConnInv
  <2>2. QED
    BY <1>5, <2>1, RemoveTypes DEF Drop, TypeOK, ConnInv
<1>6. ASSUME NEW step \in {"discard", "evicted"}, NEW after \in {"remove", "failed"},
             pc[q] = step, CloseConn(conn[q]), Goto(q, after), UNCHANGED <<conn, sweep>>
      PROVE  TypeInv'
  <2>1. conn[q] \in Requests
    BY <1>6 DEF ConnInv
  <2>2. QED
    BY <1>6, <2>1, CloseTypes DEF TypeOK, ConnInv
<1>7. CASE Deliver(q)
  BY <1>7 DEF Deliver, TypeOK, ConnInv
<1>8. QED
  BY <1>1, <1>2, <1>3, <1>4, <1>5, <1>6, <1>7 DEF Opening, Discard, CloseEvicted

LEMMA StepTypes ==
  ASSUME TypeInv, NEW q \in Requests, Step(q)
  PROVE  TypeInv'
<1> USE DEF TypeInv, Goto, pool, http, Steps
<1>1. CASE Close(q)
  BY <1>1 DEF Close, TypeOK, ConnInv
<1>2. CASE RequestClosed(q)
  BY <1>2 DEF RequestClosed, TypeOK, ConnInv
<1>3. CASE CloseConnection(q)
  <2>1. conn[q] \in Requests
    BY <1>3 DEF CloseConnection, ConnInv
  <2>2. QED
    BY <1>3, <2>1, CloseTypes DEF CloseConnection, TypeOK, ConnInv
<1>4. CASE Drop(q, "unpool", "reclose")
  <2>1. conn[q] \in Requests /\ sweep \in Sweep /\ Remove(conn[q], sweep)
    BY <1>4 DEF Drop, TypeOK, ConnInv
  <2>2. QED
    BY <1>4, <2>1, RemoveTypes DEF Drop, TypeOK, ConnInv
<1>5. QED
  BY <1>1, <1>2, <1>3, <1>4, OpeningTypes DEF Step

SweepStep == \/ \E h \in Hosts : SweepHost(h) \/ SweepAllNext(h)
             \/ SweepAll \/ SweepNext \/ SweepClose \/ SweepEnd

(* What a closing call does to the pool in one step: nothing, or it        *)
(* removes a connection, or closes the one it has removed.                 *)
LEMMA SweepCases ==
  ASSUME TypeInv, SweepStep
  PROVE  /\ UNCHANGED <<pc, conn>>
         /\ \/ UNCHANGED <<pool, http>> /\ sweep' \in Sweep
            \/ \E c \in Requests, s \in Sweep : Remove(c, s) /\ UNCHANGED http
            \/ /\ sweep.victim \in Requests /\ CloseConn(sweep.victim)
               /\ sweep' = [sweep EXCEPT !.victim = None]
<1> USE DEF TypeInv, pool, http
<1>1. UNCHANGED <<pc, conn>>
  BY DEF SweepStep, SweepHost, SweepAllNext, SweepAll, SweepNext, SweepClose, SweepEnd
<1>2. CASE SweepAll \/ SweepEnd
  <2>1. [NoSweep EXCEPT !.kind = "close_all", !.walk = {h \in Hosts : hostmap[h] # <<>>},
                        !.due = Pooled] \in Sweep
    BY NoSweepType DEF Sweep, Pooled
  <2>2. QED
    BY <1>1, <1>2, <2>1, NoSweepType DEF SweepAll, SweepEnd
<1>3. CASE SweepNext
  <2> DEFINE c == Head(sweep.todo)
             s == [sweep EXCEPT !.todo = Tail(@), !.victim = c]
  <2>1. sweep.todo \in Seq(Requests) /\ sweep.todo # <<>>
    BY <1>3 DEF SweepNext, TypeOK, Sweep
  <2>2. c \in Requests /\ Tail(sweep.todo) \in Seq(Requests)
    BY <2>1
  <2>3. s \in Sweep
    BY <2>2 DEF TypeOK, Sweep
  <2>4. Remove(c, s) /\ UNCHANGED http
    BY <1>3 DEF SweepNext
  <2> HIDE DEF c, s
  <2>5. QED
    BY <1>1, <2>2, <2>3, <2>4
<1>4. ASSUME NEW h \in Hosts, SweepAllNext(h)
      PROVE  \/ UNCHANGED <<pool, http>> /\ sweep' \in Sweep
             \/ \E c \in Requests, s \in Sweep : Remove(c, s) /\ UNCHANGED http
  <2> DEFINE p == IF h = sweep.at THEN sweep.pos ELSE 1
             s == [sweep EXCEPT !.at = h, !.pos = p + 1]
             t == [s EXCEPT !.victim = hostmap[h][p]]
  <2>1. p \in Nat \ {0} /\ p + 1 \in Nat \ {0}
    BY DEF TypeOK, Sweep
  <2>2. s \in Sweep
    <3>1. [sweep EXCEPT !.at = h] \in Sweep
      BY DEF TypeOK, Sweep
    <3> HIDE DEF p
    <3>2. QED
      BY <2>1, <3>1 DEF Sweep
  <2>3. CASE p > Len(hostmap[h])
    <3>1. [s EXCEPT !.walk = @ \ {h}] \in Sweep
      BY <2>2 DEF Sweep
    <3>2. QED
      BY <1>4, <2>3, <3>1 DEF SweepAllNext
  <2>4. CASE ~(p > Len(hostmap[h]))
    <3>1. Remove(hostmap[h][p], t) /\ UNCHANGED http
      BY <1>4, <2>4 DEF SweepAllNext
    <3>2. hostmap[h] \in Seq(Requests)
      BY DEF TypeOK
    <3> HIDE DEF p
    <3>3. hostmap[h][p] \in Requests
      BY <2>1, <2>4, <3>2
    <3> HIDE DEF s
    <3>4. t \in Sweep
      BY <2>2, <3>3 DEF Sweep
    <3> HIDE DEF t
    <3>5. QED
      BY <3>1, <3>3, <3>4
  <2>5. QED
    BY <2>3, <2>4
<1>5. CASE SweepClose
  BY <1>1, <1>5 DEF SweepClose, TypeOK, Sweep
<1>6. ASSUME NEW h \in Hosts, SweepHost(h) PROVE UNCHANGED <<pool, http>> /\ sweep' \in Sweep
  <2>1. hostmap[h] \in Seq(Requests) /\ Range(hostmap[h]) \subseteq Requests
    BY DEF TypeOK, Range
  <2>2. [NoSweep EXCEPT !.kind = "close_host", !.todo = hostmap[h], !.due = Range(hostmap[h])] \in Sweep
    BY <2>1, NoSweepType DEF Sweep
  <2>3. QED
    BY <1>6, <2>2 DEF SweepHost
<1>7. QED
  BY <1>1, <1>2, <1>3, <1>4, <1>5, <1>6 DEF SweepStep

LEMMA SweepTypes ==
  ASSUME TypeInv, SweepStep
  PROVE  TypeInv'
<1> USE DEF TypeInv, pool, http
<1>1. CASE UNCHANGED <<pool, http>> /\ sweep' \in Sweep
  BY <1>1, SweepCases DEF TypeOK, ConnInv
<1>2. ASSUME NEW c \in Requests, NEW s \in Sweep, Remove(c, s), UNCHANGED http
      PROVE  TypeInv'
  BY <1>2, SweepCases, RemoveTypes DEF TypeOK, ConnInv
<1>3. CASE /\ sweep.victim \in Requests /\ CloseConn(sweep.victim)
           /\ sweep' = [sweep EXCEPT !.victim = None]
  <2>1. [sweep EXCEPT !.victim = None] \in Sweep
    BY DEF TypeOK, Sweep
  <2>2. QED
    BY <1>3, <2>1, SweepCases, CloseTypes DEF TypeOK, ConnInv
<1>4. QED
  BY <1>1, <1>2, <1>3, SweepCases

LEMMA TypeStep == TypeInv /\ [Next]_vars => TypeInv'
<1> SUFFICES ASSUME TypeInv, [Next]_vars PROVE TypeInv'
  OBVIOUS
<1>1. CASE UNCHANGED vars
  BY <1>1 DEF vars, pool, http, TypeInv, TypeOK, ConnInv
<1>2. QED
  BY <1>1, StepTypes, SweepTypes DEF Next, SweepStep

(* Every reachable state has the types of TypeOK, and every request that   *)
(* sends or reads has a connection to do so.                               *)
THEOREM TypeCorrect == Spec => [](TypeOK /\ ConnInv)
<1>1. TypeInv => TypeOK /\ ConnInv
  BY DEF TypeInv
<1>2. QED
  BY <1>1, TypeInit, TypeStep, PTL DEF Spec

-----------------------------------------------------------------------------
(* The connection that a request names is in the pool only once the        *)
(* request has made it; a request that asks for a connection has made none *)
(* of its own.                                                             *)
OwnInv ==
  \A q \in Requests : /\ conn[q] # q => connmap[q] = None
                      /\ pc[q] \in {"ask", "create", "discard", "remove"} => conn[q] # q

PoolInv == OnePool /\ OwnInv

(* Removing a connection leaves the rest of the pool as it was.            *)
LEMMA RemovePool ==
  ASSUME TypeInv, OnePool, NEW c \in Requests, NEW s, Remove(c, s)
  PROVE  /\ OnePool'
         /\ connmap'[c] = None
         /\ \A d \in Requests : d # c => connmap'[d] = connmap[d] /\ readymap'[d] = readymap[d]
         /\ connmap[c] = None => UNCHANGED pool
<1> USE KeepAliveAssumption DEF TypeInv
<1>1. CASE connmap[c] = None
  <2>1. UNCHANGED pool
    BY <1>1 DEF Remove
  <2>2. QED
    BY <1>1, <2>1 DEF OnePool, pool
<1>2. CASE connmap[c] # None
  <2> DEFINE h == connmap[c]
             new == Without(hostmap[h], c)
  <2>1. h \in Hosts /\ hostmap[h] \in Seq(Requests)
    BY <1>2 DEF TypeOK
  <2>2. /\ connmap' = [connmap EXCEPT ![c] = None]
        /\ readymap' = [readymap EXCEPT ![c] = None]
        /\ hostmap' = [hostmap EXCEPT ![h] = new]
    BY <1>2 DEF Remove
  <2>3. PICK k \in DOMAIN hostmap[h] : \A j \in DOMAIN hostmap[h] : hostmap[h][j] = c <=> k = j
    BY <2>1 DEF OnePool
  <2>4. /\ Len(hostmap[h]) > 0 /\ DOMAIN new = 1..Len(hostmap[h])-1
        /\ \A i \in 1..Len(hostmap[h])-1 :
             new[i] = IF i < k THEN hostmap[h][i] ELSE hostmap[h][i+1]
    <3> HIDE DEF h
    <3>1. OnceAt(hostmap[h], c, k)
      BY <2>3 DEF OnceAt
    <3>2. QED
      BY <2>1, <3>1, WithoutFacts
  <2>5. connmap'[c] = None /\ \A d \in Requests :
          d # c => connmap'[d] = connmap[d] /\ readymap'[d] = readymap[d]
    BY <2>2 DEF TypeOK
  <2> HIDE DEF h, new
  <2>6. hostmap'[h] = new /\ \A g \in Hosts : g # h => hostmap'[g] = hostmap[g]
    BY <2>1, <2>2 DEF TypeOK
  <2>7. \A i \in DOMAIN new : connmap'[new[i]] = h /\ readymap'[new[i]] # None
    <3> SUFFICES ASSUME NEW i \in DOMAIN new
                 PROVE  connmap'[new[i]] = h /\ readymap'[new[i]] # None
      OBVIOUS
    <3>1. \E j \in DOMAIN hostmap[h] : j # k /\ new[i] = hostmap[h][j]
      BY <2>1, <2>3, <2>4
    <3>2. QED
      BY <2>1, <2>3, <2>5, <3>1 DEF OnePool
  <2>8. ASSUME NEW d \in Requests, connmap'[d] = h
        PROVE  \E i \in DOMAIN new : \A j \in DOMAIN new : new[j] = d <=> i = j
    <3>1. d # c /\ connmap[d] = h
      BY <2>1, <2>5, <2>8
    <3>2. PICK n \in DOMAIN hostmap[h] : \A j \in DOMAIN hostmap[h] : hostmap[h][j] = d <=> n = j
      BY <2>1, <3>1 DEF OnePool
    <3> DEFINE i == IF n < k THEN n ELSE n - 1
    <3>3. n # k /\ n \in 1..Len(hostmap[h]) /\ k \in 1..Len(hostmap[h])
      BY <2>1, <2>3, <3>1, <3>2
    <3>4. i \in DOMAIN new
      BY <2>1, <2>4, <3>3
    <3>5. ASSUME NEW j \in DOMAIN new PROVE new[j] = d <=> i = j
      <4>1. j \in 1..Len(hostmap[h])-1 /\ j \in DOMAIN hostmap[h] /\ j + 1 \in DOMAIN hostmap[h]
        BY <2>1, <2>4
      <4>2. CASE j < k
        BY <2>1, <2>4, <3>2, <3>3, <4>1, <4>2
      <4>3. CASE ~(j < k)
        BY <2>1, <2>4, <3>2, <3>3, <4>1, <4>3
      <4>4. QED
        BY <4>2, <4>3
    <3>6. QED
      BY <3>4, <3>5
  <2>9. ASSUME NEW g \in Hosts, g # h
        PROVE  /\ \A i \in DOMAIN hostmap'[g] :
                    connmap'[hostmap'[g][i]] = g /\ readymap'[hostmap'[g][i]] # None
               /\ \A d \in Requests : connmap'[d] = g =>
                    \E i \in DOMAIN hostmap'[g] :
                      \A j \in DOMAIN hostmap'[g] : hostmap'[g][j] = d <=> i = j
    <3>1. hostmap'[g] = hostmap[g] /\ hostmap[g] \in Seq(Requests) /\ g # None
      BY <2>6, <2>9 DEF TypeOK
    <3>2. \A i \in DOMAIN hostmap[g] : hostmap[g][i] \in Requests /\ hostmap[g][i] # c
      BY <2>9, <3>1 DEF OnePool, h
    <3>3. \A i \in DOMAIN hostmap'[g] :
            connmap'[hostmap'[g][i]] = g /\ readymap'[hostmap'[g][i]] # None
      BY <2>5, <3>1, <3>2 DEF OnePool
    <3>4. ASSUME NEW d \in Requests, connmap'[d] = g
          PROVE  \E i \in DOMAIN hostmap'[g] :
                   \A j \in DOMAIN hostmap'[g] : hostmap'[g][j] = d <=> i = j
      <4>1. connmap[d] = g
        BY <2>5, <3>1, <3>4
      <4>2. QED
        BY <3>1, <4>1 DEF OnePool
    <3>5. QED
      BY <3>3, <3>4
  <2>10. OnePool'
    BY <2>6, <2>7, <2>8, <2>9 DEF OnePool
  <2>11. QED
    BY <1>2, <2>5, <2>10
<1>3. QED
  BY <1>1, <1>2

(* A step that leaves the lists and hosts, and takes no ready state away.  *)
LEMMA KeepPool ==
  ASSUME OnePool, TypeInv, UNCHANGED <<hostmap, connmap>>,
         \A c \in Requests : readymap[c] # None => readymap'[c] # None
  PROVE  OnePool'
<1>1. \A h \in Hosts : \A i \in DOMAIN hostmap[h] : hostmap[h][i] \in Requests
  BY DEF TypeInv, TypeOK
<1>2. QED
  BY <1>1 DEF OnePool

LEMMA CloseKeepsPool ==
  ASSUME OnePool, TypeInv, NEW c \in Requests, CloseConn(c)
  PROVE  OnePool' /\ UNCHANGED connmap
<1>1. \A d \in Requests : readymap[d] # None => readymap'[d] # None
  BY KeepAliveAssumption DEF CloseConn, TypeInv, TypeOK
<1>2. QED
  BY <1>1, KeepPool DEF CloseConn

(* The request that works on a connection closes it, or removes it.        *)
LEMMA RemoveOwn ==
  ASSUME TypeInv, PoolInv, NEW q \in Requests, NEW after \in Steps \ {"create", "discard", "remove"},
         pc[q] \notin {"ask", "create", "failed"}, Remove(conn[q], sweep), Goto(q, after),
         after = "ask" => pc[q] = "remove", UNCHANGED conn
  PROVE  PoolInv'
<1>1. conn[q] \in Requests
  BY DEF TypeInv, ConnInv
<1>2. OnePool' /\ \A d \in Requests : connmap[d] = None => connmap'[d] = None
  BY <1>1, RemovePool DEF PoolInv
<1>3. OwnInv'
  BY <1>2 DEF PoolInv, OwnInv, Goto, TypeInv, TypeOK
<1>4. QED
  BY <1>2, <1>3 DEF PoolInv

LEMMA CloseOwn ==
  ASSUME TypeInv, PoolInv, NEW q \in Requests, NEW after \in Steps \ {"ask", "create", "discard"},
         pc[q] \notin {"ask", "create", "failed"}, CloseConn(conn[q]), Goto(q, after),
         after = "remove" => pc[q] = "discard", UNCHANGED conn
  PROVE  PoolInv'
<1>1. conn[q] \in Requests
  BY DEF TypeInv, ConnInv
<1>2. OnePool' /\ UNCHANGED connmap
  BY <1>1, CloseKeepsPool DEF PoolInv
<1>3. OwnInv'
  BY <1>2 DEF PoolInv, OwnInv, Goto, TypeInv, TypeOK
<1>4. QED
  BY <1>2, <1>3 DEF PoolInv

(* A request goes on with the connection it has.                           *)
LEMMA GoOn ==
  ASSUME TypeInv, PoolInv, NEW q \in Requests, NEW after \in Steps \ {"ask", "create", "remove"},
         Goto(q, after), after = "discard" => conn[q] # q,
         UNCHANGED <<hostmap, connmap, conn>>,
         \A c \in Requests : readymap[c] # None => readymap'[c] # None
  PROVE  PoolInv'
<1>1. OnePool'
  BY KeepPool DEF PoolInv
<1>2. OwnInv'
  BY DEF PoolInv, OwnInv, Goto, TypeInv, TypeOK
<1>3. QED
  BY <1>1, <1>2 DEF PoolInv

LEMMA AddPool ==
  ASSUME TypeInv, PoolInv, NEW q \in Requests, Add(q)
  PROVE  PoolInv'
<1> USE KeepAliveAssumption DEF TypeInv
<1> DEFINE g == HostOf[q]
           n == Len(hostmap[g]) + 1
<1>1. g \in Hosts /\ hostmap[g] \in Seq(Requests)
  BY DEF TypeOK
<1>2. connmap[q] = None /\ conn[q] # q
  BY DEF PoolInv, OwnInv, Add
<1> HIDE DEF g
<1>3. /\ hostmap'[g] = Append(hostmap[g], q)
      /\ \A h \in Hosts : h # g => hostmap'[h] = hostmap[h]
      /\ connmap'[q] = g /\ readymap'[q] = 0
      /\ \A d \in Requests : d # q => connmap'[d] = connmap[d] /\ readymap'[d] = readymap[d]
  BY <1>1 DEF Add, TypeOK, g
<1>4. /\ DOMAIN hostmap'[g] = 1..n /\ DOMAIN hostmap[g] = 1..n-1
      /\ hostmap'[g][n] = q
      /\ \A i \in 1..n-1 : hostmap'[g][i] = hostmap[g][i]
  BY <1>1, <1>3
<1>5. \A h \in Hosts : \A i \in DOMAIN hostmap[h] : hostmap[h][i] \in Requests /\ hostmap[h][i] # q
  BY <1>2 DEF PoolInv, OnePool, TypeOK
<1>6. ASSUME NEW h \in Hosts, NEW i \in DOMAIN hostmap'[h]
      PROVE  connmap'[hostmap'[h][i]] = h /\ readymap'[hostmap'[h][i]] # None
  <2>1. CASE h = g /\ i = n
    BY <1>1, <1>3, <1>4, <2>1
  <2>2. CASE h = g /\ i # n
    <3>1. n \in Nat /\ i \in 1..n-1
      BY <1>1, <1>4, <1>6, <2>2
    <3>2. QED
      BY <1>1, <1>3, <1>4, <1>5, <2>2, <3>1 DEF PoolInv, OnePool
  <2>3. CASE h # g
    BY <1>3, <1>5, <1>6, <2>3 DEF PoolInv, OnePool
  <2>4. QED
    BY <2>1, <2>2, <2>3
<1>7. ASSUME NEW h \in Hosts, NEW d \in Requests, connmap'[d] = h
      PROVE  \E i \in DOMAIN hostmap'[h] : \A j \in DOMAIN hostmap'[h] : hostmap'[h][j] = d <=> i = j
  <2>1. CASE d = q
    <3>1. h = g /\ n \in Nat /\ n \in DOMAIN hostmap'[g]
      BY <1>1, <1>3, <1>4, <1>7, <2>1
    <3>2. \A j \in DOMAIN hostmap'[g] : hostmap'[g][j] = q <=> n = j
      BY <1>1, <1>4, <1>5, <3>1
    <3>3. QED
      BY <2>1, <3>1, <3>2
  <2>2. CASE d # q
    <3>1. connmap[d] = h
      BY <1>3, <1>7, <2>2
    <3>2. PICK i \in DOMAIN hostmap[h] : \A j \in DOMAIN hostmap[h] : hostmap[h][j] = d <=> i = j
      BY <3>1 DEF PoolInv, OnePool
    <3>3. CASE h # g
      BY <1>3, <3>2, <3>3
    <3>4. CASE h = g
      <4>1. n \in Nat /\ i \in 1..n-1 /\ i \in DOMAIN hostmap'[g]
        BY <1>1, <1>4, <3>2, <3>4
      <4>2. \A j \in DOMAIN hostmap'[g] : hostmap'[g][j] = d <=> i = j
        BY <1>1, <1>4, <2>2, <3>2, <3>4, <4>1
      <4>3. QED
        BY <3>4, <4>1, <4>2
    <3>5. QED
      BY <3>3, <3>4
  <2>3. QED
    BY <2>1, <2>2
<1>8. OnePool'
  BY <1>6, <1>7 DEF OnePool
<1>9. OwnInv'
  BY <1>3 DEF Add, Goto, PoolInv, OwnInv, TypeOK
<1>10. QED
  BY <1>8, <1>9 DEF PoolInv

LEMMA GetReadyPool ==
  ASSUME TypeInv, PoolInv, NEW q \in Requests, GetReady(q)
  PROVE  PoolInv'
<1> USE KeepAliveAssumption DEF TypeInv
<1>1. CASE Goto(q, "create") /\ UNCHANGED <<conn, readymap>>
  <2>1. OnePool'
    BY <1>1, KeepPool DEF GetReady, PoolInv
  <2>2. OwnInv'
    BY <1>1 DEF GetReady, Goto, PoolInv, OwnInv, TypeOK
  <2>3. QED
    BY <2>1, <2>2 DEF PoolInv
<1>2. ASSUME NEW i \in Free(HostOf[q]),
             conn' = [conn EXCEPT ![q] = hostmap[HostOf[q]][i]],
             readymap' = [readymap EXCEPT ![hostmap[HostOf[q]][i]] = 0],
             Goto(q, "send")
      PROVE  PoolInv'
  <2> DEFINE c == hostmap[HostOf[q]][i]
  <2>1. c \in Requests /\ connmap[c] # None
    BY DEF Free, PoolInv, OnePool, TypeOK
  <2> HIDE DEF c
  <2>2. readymap' = [readymap EXCEPT ![c] = 0] /\ conn' = [conn EXCEPT ![q] = c]
    BY <1>2 DEF c
  <2>3. \A d \in Requests : readymap[d] # None => readymap'[d] # None
    BY <2>1, <2>2 DEF TypeOK
  <2>4. UNCHANGED <<hostmap, connmap>> /\ pc[q] = "ask"
    BY DEF GetReady
  <2>5. OnePool'
    BY <2>3, <2>4, KeepPool DEF PoolInv
  <2>6. OwnInv'
    BY <1>2, <2>1, <2>2, <2>4 DEF Goto, PoolInv, OwnInv, TypeOK
  <2>7. QED
    BY <2>5, <2>6 DEF PoolInv
<1>3. QED
  BY <1>1, <1>2 DEF GetReady

LEMMA StepPool ==
  ASSUME TypeInv, PoolInv, NEW q \in Requests, Step(q)
  PROVE  PoolInv'
<1>1. CASE GetReady(q)
  BY <1>1, GetReadyPool
<1>2. CASE Add(q)
  BY <1>2, AddPool
<1>3. CASE StartTransaction(q)
  <2>1. /\ UNCHANGED <<hostmap, connmap, readymap, conn>>
        /\ \E after \in Steps \ {"ask", "create", "remove"} :
             Goto(q, after) /\ (after = "discard" => conn[q] # q)
    BY <1>3 DEF StartTransaction, Trouble, Unexpected, Steps, pool
  <2>2. QED
    BY <2>1, GoOn
<1>4. CASE GetResponse(q)
  <2>1. /\ UNCHANGED <<hostmap, connmap, readymap, conn>>
        /\ \E after \in Steps \ {"ask", "create", "remove"} :
             Goto(q, after) /\ (after = "discard" => conn[q] # q)
    BY <1>4 DEF GetResponse, Trouble, Unexpected, Steps, pool
  <2>2. QED
    BY <2>1, GoOn
<1>5. CASE Discard(q)
  BY <1>5, CloseOwn DEF Discard, Steps
<1>6. CASE Drop(q, "remove", "ask")
  BY <1>6, RemoveOwn DEF Drop, Steps
<1>7. CASE Drop(q, "evict", "evicted")
  BY <1>7, RemoveOwn DEF Drop, Steps
<1>8. CASE CloseEvicted(q)
  BY <1>8, CloseOwn DEF CloseEvicted, Steps
<1>9. CASE Drop(q, "retire", "got")
  BY <1>9, RemoveOwn DEF Drop, Steps
<1>10. CASE Deliver(q) \/ Close(q)
  <2>1. /\ UNCHANGED <<hostmap, connmap, readymap, conn>>
        /\ \E after \in {"open", "closing", "closed"} : Goto(q, after)
    BY <1>10 DEF Deliver, Close, pool
  <2>2. QED
    BY <2>1, GoOn DEF Steps
<1>11. CASE RequestClosed(q)
  <2>1. \A c \in Requests : readymap[c] # None => readymap'[c] # None
    BY <1>11, KeepAliveAssumption DEF RequestClosed, TypeInv, TypeOK
  <2>2. QED
    BY <1>11, <2>1, GoOn DEF RequestClosed, Steps
<1>12. CASE CloseConnection(q)
  BY <1>12, CloseOwn DEF CloseConnection, Steps
<1>13. CASE Drop(q, "unpool", "reclose")
  BY <1>13, RemoveOwn DEF Drop, Steps
<1>14. QED
  BY <1>1, <1>2, <1>3, <1>4, <1>5, <1>6, <1>7, <1>8, <1>9, <1>10, <1>11, <1>12, <1>13
  DEF Step, Opening

LEMMA SweepPool ==
  ASSUME TypeInv, PoolInv, SweepStep
  PROVE  PoolInv'
<1>1. CASE UNCHANGED <<pool, http>>
  BY <1>1, SweepCases DEF PoolInv, OnePool, OwnInv, pool
<1>2. ASSUME NEW c \in Requests, NEW s \in Sweep, Remove(c, s) PROVE PoolInv'
  <2>1. OnePool' /\ \A d \in Requests : connmap[d] = None => connmap'[d] = None
    BY <1>2, RemovePool DEF PoolInv
  <2>2. OwnInv'
    BY <2>1, SweepCases DEF PoolInv, OwnInv
  <2>3. QED
    BY <2>1, <2>2 DEF PoolInv
<1>3. ASSUME NEW c \in Requests, CloseConn(c) PROVE PoolInv'
  <2>1. OnePool' /\ UNCHANGED connmap
    BY <1>3, CloseKeepsPool DEF PoolInv
  <2>2. OwnInv'
    BY <2>1, SweepCases DEF PoolInv, OwnInv
  <2>3. QED
    BY <2>1, <2>2 DEF PoolInv
<1>4. QED
  BY <1>1, <1>2, <1>3, SweepCases

LEMMA PoolInit == Init => PoolInv
BY KeepAliveAssumption DEF Init, PoolInv, OnePool, OwnInv

LEMMA PoolStep == TypeInv /\ PoolInv /\ [Next]_vars => PoolInv'
<1> SUFFICES ASSUME TypeInv, PoolInv, [Next]_vars PROVE PoolInv'
  OBVIOUS
<1>1. CASE UNCHANGED vars
  BY <1>1 DEF vars, pool, PoolInv, OnePool, OwnInv
<1>2. QED
  BY <1>1, StepPool, SweepPool DEF Next, SweepStep

(* The three maps are one pool, whoever adds, removes and closes: each     *)
(* connection is once in the list of its own host and has a ready state.   *)
THEOREM MapsAreOnePool == Spec => []OnePool
<1>1. Init => TypeInv /\ PoolInv
  BY TypeInit, PoolInit
<1>2. TypeInv /\ PoolInv /\ [Next]_vars => (TypeInv /\ PoolInv)'
  BY TypeStep, PoolStep
<1>3. TypeInv /\ PoolInv => OnePool
  BY DEF PoolInv
<1>4. QED
  BY <1>1, <1>2, <1>3, PTL DEF Spec

-----------------------------------------------------------------------------
Answered == {"got", "open", "closing", "closed", "unpool", "reclose"}
Waiting == {"send", "await", "discard", "remove", "evict", "evicted"}
Reading == {"retire", "got", "open", "closing"}

(* Nobody works on a connection before the request it is named after has   *)
(* made it.                                                                *)
MadeInv == \A q, r \in Requests : conn[q] # q => conn[r] # q

(* A closing call goes over connections that have been made, and what it   *)
(* is about to close has left the pool.                                    *)
SweptInv ==
  /\ sweep.victim # None => connmap[sweep.victim] = None /\ conn[sweep.victim] = sweep.victim
  /\ \A i \in DOMAIN sweep.todo : conn[sweep.todo[i]] = sweep.todo[i]

(* A connection that may be handed out is used by nobody.                  *)
IdleInv ==
  \A c \in Requests : connmap[c] # None /\ readymap[c] = 1 =>
    ~sent[c] /\ \A q \in Requests : ~Uses(q, c)

(* An open response is being read, on a connection that has nothing to     *)
(* answer; one that is about to make its connection ready is still open,   *)
(* unless the connection has left the pool.                                *)
ReadingInv ==
  \A q \in Requests :
    /\ fp[q] => pc[q] \in Reading /\ ~sent[conn[q]]
    /\ pc[q] = "closing" /\ connmap[conn[q]] # None => fp[q]

(* httplib's answer of a connection is one that it gave.                   *)
AnswerInv ==
  \A c, r \in Requests : answer[c] = r => pc[r] \in Answered /\ (fp[r] => conn[r] = c)

UseInv == MadeInv /\ SweptInv /\ ExclusiveUse /\ IdleInv /\ ReadingInv /\ AnswerInv

(* A request goes on with its connection, or lets it go; what it changes   *)
(* takes connections out of the pool, and answers and requests off them.   *)
LEMMA QuietUse ==
  ASSUME TypeInv, UseInv, NEW q \in Requests, NEW after \in Steps, Goto(q, after),
         UNCHANGED <<conn, fp>>,
         sweep'.victim = sweep.victim, sweep'.todo = sweep.todo,
         \A c \in Requests :
           /\ connmap'[c] # None => connmap'[c] = connmap[c] /\ readymap'[c] = readymap[c]
           /\ answer'[c] # None => answer'[c] = answer[c]
           /\ sent'[c] => sent[c],
         after \in Reading \/ ~fp[q],
         after \in Waiting => pc[q] \in Waiting,
         after = "closing" => fp[q],
         pc[q] \in Answered => after \in Answered
  PROVE  UseInv'
<1> USE KeepAliveAssumption DEF TypeInv
<1>1. pc'[q] = after /\ \A r \in Requests : r # q => pc'[r] = pc[r]
  BY DEF Goto, TypeOK
<1>2. \A r, c \in Requests : Uses(r, c)' => Uses(r, c)
  <2> SUFFICES ASSUME NEW r \in Requests, NEW c \in Requests, Uses(r, c)' PROVE Uses(r, c)
    OBVIOUS
  <2>1. CASE r # q
    BY <1>1, <2>1 DEF Uses
  <2>2. CASE r = q
    BY <1>1, <2>2 DEF Uses, UseInv, ReadingInv, Waiting, Reading
  <2>3. QED
    BY <2>1, <2>2
<1>3. MadeInv' /\ SweptInv'
  <2>1. MadeInv'
    BY DEF UseInv, MadeInv
  <2>2. sweep.victim \in Requests \cup {None}
    BY DEF TypeOK, Sweep
  <2>3. SweptInv'
    BY <2>2 DEF UseInv, SweptInv
  <2>4. QED
    BY <2>1, <2>3
<1>4. ExclusiveUse' /\ IdleInv'
  BY <1>2 DEF UseInv, ExclusiveUse, IdleInv
<1>5. ReadingInv'
  <2> SUFFICES ASSUME NEW r \in Requests
               PROVE  /\ fp'[r] => pc'[r] \in Reading /\ ~sent'[conn'[r]]
                      /\ pc'[r] = "closing" /\ connmap'[conn'[r]] # None => fp'[r]
    BY DEF ReadingInv
  <2>1. pc[r] \in Reading \/ pc'[r] = "closing" => r = q \/ conn[r] \in Requests
    BY <1>1 DEF ConnInv, Reading
  <2>2. fp'[r] => conn[r] \in Requests
    BY DEF UseInv, ReadingInv, ConnInv, Reading
  <2>3. fp'[r] => pc'[r] \in Reading /\ ~sent'[conn'[r]]
    BY <1>1, <2>2 DEF UseInv, ReadingInv
  <2>4. pc'[r] = "closing" /\ connmap'[conn'[r]] # None => fp'[r]
    BY <1>1, <2>1 DEF UseInv, ReadingInv
  <2>5. QED
    BY <2>3, <2>4
<1>6. AnswerInv'
  BY <1>1 DEF UseInv, AnswerInv
<1>7. QED
  BY <1>3, <1>4, <1>5, <1>6 DEF UseInv

LEMMA GetReadyUse ==
  ASSUME TypeInv, PoolInv, UseInv, NEW q \in Requests, GetReady(q)
  PROVE  UseInv'
<1> USE KeepAliveAssumption DEF TypeInv
<1>1. /\ pc[q] = "ask" /\ ~fp[q] /\ conn[q] # q
      /\ UNCHANGED <<hostmap, connmap, http, sweep>>
  BY DEF GetReady, UseInv, ReadingInv, Reading, PoolInv, OwnInv
<1>2. CASE Goto(q, "create") /\ UNCHANGED <<conn, readymap>>
  BY <1>1, <1>2, QuietUse DEF http, Steps, Waiting, Answered
<1>3. ASSUME NEW i \in Free(HostOf[q]),
             conn' = [conn EXCEPT ![q] = hostmap[HostOf[q]][i]],
             readymap' = [readymap EXCEPT ![hostmap[HostOf[q]][i]] = 0],
             Goto(q, "send")
      PROVE  UseInv'
  <2> DEFINE c == hostmap[HostOf[q]][i]
  <2>1. c \in Requests /\ connmap[c] # None /\ readymap[c] = 1
    BY DEF Free, PoolInv, OnePool, TypeOK
  <2>2. readymap' = [readymap EXCEPT ![c] = 0] /\ conn' = [conn EXCEPT ![q] = c]
    BY <1>3
  <2> HIDE DEF c
  <2>3. conn[c] = c /\ c # q
    BY <1>1, <2>1 DEF PoolInv, OwnInv
  <2>4. /\ pc'[q] = "send" /\ conn'[q] = c /\ readymap'[c] = 0
        /\ \A r \in Requests : r # q => pc'[r] = pc[r] /\ conn'[r] = conn[r]
        /\ \A d \in Requests : d # c => readymap'[d] = readymap[d]
    BY <1>3, <2>1, <2>2 DEF Goto, TypeOK
  <2>5. \A r \in Requests : ~Uses(r, c) /\ \A d \in Requests : r # q => (Uses(r, d)' <=> Uses(r, d))
    BY <1>1, <2>1, <2>4 DEF UseInv, IdleInv, Uses, http
  <2>6. \A d \in Requests : Uses(q, d)' => d = c
    BY <2>4 DEF Uses
  <2>7. MadeInv'
    BY <1>1, <2>1, <2>3, <2>4 DEF UseInv, MadeInv
  <2>8. SweptInv'
    <3>1. \A d \in Requests : conn[d] = d => conn'[d] = d
      BY <1>1, <2>4
    <3>2. sweep.victim \in Requests \cup {None} /\ sweep.todo \in Seq(Requests)
      BY DEF TypeOK, Sweep
    <3>3. QED
      BY <1>1, <3>1, <3>2 DEF UseInv, SweptInv
  <2>9. ExclusiveUse'
    BY <2>5, <2>6 DEF UseInv, ExclusiveUse
  <2>10. IdleInv'
    BY <1>1, <2>4, <2>5, <2>6 DEF UseInv, IdleInv, http
  <2>11. ReadingInv'
    BY <1>1, <2>4 DEF UseInv, ReadingInv, http
  <2>12. AnswerInv'
    BY <1>1, <2>4 DEF UseInv, AnswerInv, Answered, http
  <2>13. QED
    BY <2>7, <2>8, <2>9, <2>10, <2>11, <2>12 DEF UseInv
<1>4. QED
  BY <1>2, <1>3 DEF GetReady

LEMMA AddUse ==
  ASSUME TypeInv, PoolInv, UseInv, NEW q \in Requests, Add(q)
  PROVE  UseInv'
<1> USE KeepAliveAssumption DEF TypeInv
<1>1. /\ pc[q] = "create" /\ ~fp[q] /\ conn[q] # q /\ UNCHANGED <<http, sweep>>
  BY DEF Add, UseInv, ReadingInv, Reading, PoolInv, OwnInv
<1>2. /\ pc'[q] = "send" /\ conn'[q] = q /\ readymap'[q] = 0
      /\ \A r \in Requests : r # q => pc'[r] = pc[r] /\ conn'[r] = conn[r]
      /\ \A d \in Requests : d # q => readymap'[d] = readymap[d] /\ connmap'[d] = connmap[d]
  BY DEF Add, Goto, TypeOK
<1>3. \A r \in Requests : conn[r] # q
  BY <1>1 DEF UseInv, MadeInv
<1>4. \A r \in Requests : ~Uses(r, q) /\ \A d \in Requests : r # q => (Uses(r, d)' <=> Uses(r, d))
  BY <1>1, <1>2, <1>3 DEF Uses, http
<1>5. \A d \in Requests : Uses(q, d)' => d = q
  BY <1>2 DEF Uses
<1>6. MadeInv'
  BY <1>2 DEF UseInv, MadeInv
<1>7. SweptInv'
  <2>1. \A d \in Requests : conn[d] = d => conn'[d] = d /\ (connmap[d] = None => connmap'[d] = None)
    BY <1>1, <1>2
  <2>2. sweep.victim \in Requests \cup {None} /\ sweep.todo \in Seq(Requests)
    BY DEF TypeOK, Sweep
  <2>3. QED
    BY <1>1, <2>1, <2>2 DEF UseInv, SweptInv
<1>8. ExclusiveUse'
  BY <1>4, <1>5 DEF UseInv, ExclusiveUse
<1>9. IdleInv'
  BY <1>1, <1>2, <1>4, <1>5 DEF UseInv, IdleInv, http
<1>10. ReadingInv'
  <2> SUFFICES ASSUME NEW r \in Requests
               PROVE  /\ fp'[r] => pc'[r] \in Reading /\ ~sent'[conn'[r]]
                      /\ pc'[r] = "closing" /\ connmap'[conn'[r]] # None => fp'[r]
    BY DEF ReadingInv
  <2>1. r # q /\ pc[r] = "closing" => conn[r] \in Requests /\ conn[r] # q
    BY <1>3 DEF ConnInv
  <2>2. QED
    BY <1>1, <1>2, <2>1 DEF UseInv, ReadingInv, http
<1>11. AnswerInv'
  BY <1>1, <1>2 DEF UseInv, AnswerInv, Answered, http
<1>12. QED
  BY <1>6, <1>7, <1>8, <1>9, <1>10, <1>11 DEF UseInv

(* The request that has been sent on a connection is the one that uses it. *)
LEMMA SendUse ==
  ASSUME TypeInv, UseInv, NEW q \in Requests, StartTransaction(q)
  PROVE  UseInv'
<1> USE DEF TypeInv
<1> DEFINE c == conn[q]
<1>1. c \in Requests /\ pc[q] = "send" /\ ~fp[q] /\ UNCHANGED <<pool, conn, sweep>>
  BY DEF StartTransaction, ConnInv, UseInv, ReadingInv, Reading
<1>2. PICK after \in {"await", "failed", "discard", "evict"} : Goto(q, after)
  BY DEF StartTransaction, Trouble, Unexpected
<1>3. CASE UNCHANGED http
  BY <1>1, <1>2, <1>3, QuietUse DEF http, pool, Steps, Waiting, Answered
<1>4. CASE sent' = [sent EXCEPT ![c] = TRUE] /\ UNCHANGED <<answer, fp>>
  <2> HIDE DEF c
  <2>1. /\ pc'[q] = after /\ sent'[c] /\ UNCHANGED <<hostmap, connmap, readymap>>
        /\ \A r \in Requests : r # q => pc'[r] = pc[r]
        /\ \A d \in Requests : d # c => sent'[d] = sent[d]
    BY <1>1, <1>2, <1>4 DEF Goto, pool, TypeOK
  <2>2. \A r, d \in Requests : Uses(r, d)' => Uses(r, d)
    BY <1>1, <1>4, <2>1 DEF Uses
  <2>3. Uses(q, c) /\ \A r \in Requests : Uses(r, c) => r = q
    BY <1>1 DEF UseInv, ExclusiveUse, Uses, c
  <2>4. MadeInv' /\ SweptInv' /\ ExclusiveUse'
    BY <1>1, <2>1, <2>2 DEF UseInv, MadeInv, SweptInv, ExclusiveUse
  <2>5. IdleInv'
    <3>1. ~(connmap[c] # None /\ readymap[c] = 1)
      BY <1>1, <2>3 DEF UseInv, IdleInv
    <3>2. QED
      BY <2>1, <2>2, <3>1 DEF UseInv, IdleInv
  <2>6. ReadingInv'
    <3>1. \A r \in Requests : fp[r] => conn[r] # c /\ conn[r] \in Requests
      BY <1>1, <2>3 DEF UseInv, ReadingInv, Reading, Uses, ConnInv
    <3>2. QED
      BY <1>1, <1>2, <1>4, <2>1, <3>1 DEF UseInv, ReadingInv
  <2>7. AnswerInv'
    BY <1>1, <1>4, <2>1 DEF UseInv, AnswerInv, Answered
  <2>8. QED
    BY <2>4, <2>5, <2>6, <2>7 DEF UseInv
<1>5. QED
  BY <1>3, <1>4 DEF StartTransaction

LEMMA ResponseUse ==
  ASSUME TypeInv, UseInv, NEW q \in Requests, GetResponse(q)
  PROVE  UseInv'
<1> USE KeepAliveAssumption DEF TypeInv
<1> DEFINE c == conn[q]
<1>1. c \in Requests /\ pc[q] = "await" /\ ~fp[q] /\ UNCHANGED <<pool, conn, sweep>>
  BY DEF GetResponse, ConnInv, UseInv, ReadingInv, Reading
<1>2. CASE UNCHANGED http /\ (Trouble(q) \/ Unexpected(q))
  <2>1. PICK after \in {"failed", "discard", "evict"} : Goto(q, after)
    BY <1>2 DEF Trouble, Unexpected
  <2>2. QED
    BY <1>1, <1>2, <2>1, QuietUse DEF http, pool, Steps, Waiting, Answered
<1>3. ASSUME NEW a \in {q, None}, NEW after \in {"got", "retire"},
             a = q => after = "got", Goto(q, after),
             sent' = [sent EXCEPT ![c] = FALSE], fp' = [fp EXCEPT ![q] = TRUE],
             answer' = [answer EXCEPT ![c] = a]
      PROVE  UseInv'
  <2> HIDE DEF c
  <2>1. /\ pc'[q] = after /\ ~sent'[c] /\ fp'[q] /\ answer'[c] = a
        /\ UNCHANGED <<hostmap, connmap, readymap>>
        /\ \A r \in Requests : r # q => pc'[r] = pc[r] /\ fp'[r] = fp[r]
        /\ \A d \in Requests : d # c => sent'[d] = sent[d] /\ answer'[d] = answer[d]
    BY <1>1, <1>3 DEF Goto, pool, TypeOK
  <2>2. \A r, d \in Requests : Uses(r, d)' => Uses(r, d)
    <3> SUFFICES ASSUME NEW r \in Requests, NEW d \in Requests, Uses(r, d)' PROVE Uses(r, d)
      OBVIOUS
    <3>1. CASE r = q
      BY <1>1, <3>1 DEF Uses
    <3>2. CASE r # q
      BY <1>1, <2>1, <3>2 DEF Uses
    <3>3. QED
      BY <3>1, <3>2
  <2>3. MadeInv' /\ SweptInv' /\ ExclusiveUse'
    BY <1>1, <2>1, <2>2 DEF UseInv, MadeInv, SweptInv, ExclusiveUse
  <2>4. \A d \in Requests : sent'[d] => sent[d]
    BY <2>1
  <2>5. IdleInv'
    BY <2>1, <2>2, <2>4 DEF UseInv, IdleInv
  <2>6. ReadingInv'
    <3> SUFFICES ASSUME NEW r \in Requests
                 PROVE  /\ fp'[r] => pc'[r] \in Reading /\ ~sent'[conn'[r]]
                        /\ pc'[r] = "closing" /\ connmap'[conn'[r]] # None => fp'[r]
      BY DEF ReadingInv
    <3>1. CASE r = q
      BY <1>1, <1>3, <2>1, <3>1 DEF Reading, c
    <3>2. CASE r # q
      <4>1. fp[r] => conn[r] \in Requests
        BY DEF UseInv, ReadingInv, ConnInv, Reading
      <4>2. QED
        BY <1>1, <2>1, <2>4, <3>2, <4>1 DEF UseInv, ReadingInv
    <3>3. QED
      BY <3>1, <3>2
  <2>7. AnswerInv'
    <3>1. \A d \in Requests : answer[d] # q
      BY <1>1 DEF UseInv, AnswerInv, Answered
    <3> SUFFICES ASSUME NEW d \in Requests, NEW r \in Requests, answer'[d] = r
                 PROVE  pc'[r] \in Answered /\ (fp'[r] => conn'[r] = d)
      BY DEF AnswerInv
    <3>2. CASE d = c
      BY <1>1, <1>3, <2>1, <3>2 DEF Answered, c
    <3>3. CASE d # c
      BY <1>1, <2>1, <3>1, <3>3 DEF UseInv, AnswerInv
    <3>4. QED
      BY <3>2, <3>3
  <2>8. QED
    BY <2>3, <2>5, <2>6, <2>7 DEF UseInv
<1>4. QED
  BY <1>2, <1>3 DEF GetResponse

(* A response that is closed was the last to use its connection.           *)
LEMMA ClosedUse ==
  ASSUME TypeInv, UseInv, NEW q \in Requests, RequestClosed(q)
  PROVE  UseInv'
<1> USE KeepAliveAssumption DEF TypeInv
<1>0. PICK c \in Requests : c = conn[q]
  BY DEF RequestClosed, ConnInv
<1>1. /\ pc[q] = "closing" /\ conn[q] = c
      /\ UNCHANGED <<hostmap, connmap, sock, sent, answer, conn, sweep>>
  BY <1>0 DEF RequestClosed
<1>2. /\ pc'[q] = "closed" /\ ~fp'[q]
      /\ \A r \in Requests : r # q => pc'[r] = pc[r] /\ fp'[r] = fp[r]
      /\ \A d \in Requests : d # c => readymap'[d] = readymap[d]
  BY <1>1 DEF RequestClosed, Goto, TypeOK
<1>3. \A r, d \in Requests : ~Uses(q, d)' /\ (Uses(r, d)' => Uses(r, d))
  BY <1>1, <1>2 DEF Uses
<1>4. MadeInv' /\ SweptInv' /\ ExclusiveUse'
  BY <1>1, <1>3 DEF UseInv, MadeInv, SweptInv, ExclusiveUse
<1>5. connmap[c] # None => ~sent[c] /\ \A r \in Requests : ~Uses(r, c)'
  <2>1. connmap[c] # None => ~sent[c] /\ Uses(q, c)
    BY <1>1 DEF UseInv, ReadingInv, Uses
  <2>2. QED
    BY <1>1, <1>3, <2>1 DEF UseInv, ExclusiveUse
<1>6. IdleInv'
  <2> SUFFICES ASSUME NEW d \in Requests, connmap'[d] # None /\ readymap'[d] = 1
               PROVE  ~sent'[d] /\ \A r \in Requests : ~Uses(r, d)'
    BY DEF IdleInv
  <2>1. CASE d = c
    BY <1>1, <1>5, <2>1
  <2>2. CASE d # c
    BY <1>1, <1>2, <1>3, <2>2 DEF UseInv, IdleInv
  <2>3. QED
    BY <2>1, <2>2
<1>7. ReadingInv'
  BY <1>1, <1>2 DEF UseInv, ReadingInv
<1>8. AnswerInv'
  BY <1>1, <1>2 DEF UseInv, AnswerInv, Answered
<1>9. QED
  BY <1>4, <1>6, <1>7, <1>8 DEF UseInv

(* A connection that has failed has no open answer.                        *)
LEMMA DiscardUse ==
  ASSUME TypeInv, UseInv, NEW q \in Requests, pc[q] \in {"discard", "evicted"},
         NEW after \in {"remove", "failed"}, CloseConn(conn[q]), Goto(q, after),
         UNCHANGED <<conn, sweep>>
  PROVE  UseInv'
<1> USE KeepAliveAssumption DEF TypeInv
<1> DEFINE c == conn[q]
<1>1. c \in Requests /\ Uses(q, c) /\ ~fp[q]
  BY DEF ConnInv, Uses, UseInv, ReadingInv, Reading
<1> HIDE DEF c
<1>2. CloseConn(c)
  BY DEF c
<1>3. ~(answer[c] # None /\ fp[answer[c]])
  <2> SUFFICES ASSUME answer[c] # None, fp[answer[c]] PROVE FALSE
    OBVIOUS
  <2> DEFINE r == answer[c]
  <2>1. r \in Requests
    BY <1>1 DEF TypeOK
  <2>2. conn[r] = c /\ pc[r] \in Reading
    BY <1>1, <2>1 DEF UseInv, AnswerInv, ReadingInv
  <2>3. Uses(r, c)
    BY <2>2 DEF Uses, Reading
  <2>4. r = q
    BY <1>1, <2>1, <2>3 DEF UseInv, ExclusiveUse
  <2>5. QED
    BY <1>1, <2>4
<1>4. /\ UNCHANGED <<hostmap, connmap, readymap, fp>>
      /\ \A d \in Requests : /\ answer'[d] # None => answer'[d] = answer[d]
                             /\ sent'[d] => sent[d]
  BY <1>1, <1>2, <1>3 DEF CloseConn, TypeOK
<1>5. QED
  BY <1>1, <1>4, QuietUse DEF Steps, Waiting, Answered

(* A request drops the connection it uses out of the pool.                 *)
LEMMA DropUse ==
  ASSUME TypeInv, PoolInv, UseInv, NEW q \in Requests, NEW step \in Steps, NEW after \in Steps,
         Drop(q, step, after), step \notin {"ask", "create", "failed"},
         after \in Reading \/ step \notin Reading,
         after \in Waiting => step \in Waiting,
         after # "closing", step \in Answered => after \in Answered
  PROVE  UseInv'
<1> USE DEF TypeInv
<1>1. conn[q] \in Requests /\ pc[q] = step
  BY DEF Drop, ConnInv
<1>2. /\ connmap'[conn[q]] = None
      /\ \A d \in Requests : d # conn[q] => connmap'[d] = connmap[d] /\ readymap'[d] = readymap[d]
  BY <1>1, RemovePool DEF Drop, PoolInv
<1>3. sweep'.victim = sweep.victim /\ sweep'.todo = sweep.todo
  BY DEF Drop, Remove, TypeOK, Sweep
<1>4. UNCHANGED <<http, conn>> /\ Goto(q, after)
  BY DEF Drop
<1>5. after \in Reading \/ ~fp[q]
  BY <1>1 DEF UseInv, ReadingInv
<1>6. QED
  BY <1>1, <1>2, <1>3, <1>4, <1>5, QuietUse DEF http

LEMMA StepUse ==
  ASSUME "close_connection" \notin Closers, TypeInv, PoolInv, UseInv,
         NEW q \in Requests, Step(q)
  PROVE  UseInv'
<1>1. CASE GetReady(q) \/ Add(q)
  BY <1>1, GetReadyUse, AddUse
<1>2. CASE StartTransaction(q) \/ GetResponse(q) \/ RequestClosed(q)
  BY <1>2, SendUse, ResponseUse, ClosedUse
<1>3. CASE Discard(q) \/ CloseEvicted(q)
  BY <1>3, DiscardUse DEF Discard, CloseEvicted
<1>4. ASSUME NEW step \in Steps, NEW after \in Steps, Drop(q, step, after),
             <<step, after>> \in {<<"remove", "ask">>, <<"evict", "evicted">>,
                                  <<"retire", "got">>, <<"unpool", "reclose">>}
      PROVE  UseInv'
  BY <1>4, DropUse DEF Reading, Waiting, Answered
<1>5. CASE Deliver(q) \/ Close(q)
  <2>1. /\ UNCHANGED <<pool, http, conn, sweep>>
        /\ \/ pc[q] = "got" /\ Goto(q, "open")
           \/ pc[q] \in {"open", "reclose"} /\ Goto(q, IF fp[q] THEN "closing" ELSE "closed")
    BY <1>5 DEF Deliver, Close
  <2>2. CASE pc[q] = "got" /\ Goto(q, "open")
    BY <2>1, <2>2, QuietUse DEF pool, http, Steps, Reading, Waiting, Answered
  <2>3. CASE pc[q] \in {"open", "reclose"} /\ fp[q] /\ Goto(q, "closing")
    BY <2>1, <2>3, QuietUse DEF pool, http, Steps, Reading, Waiting, Answered
  <2>4. CASE pc[q] \in {"open", "reclose"} /\ ~fp[q] /\ Goto(q, "closed")
    BY <2>1, <2>4, QuietUse DEF pool, http, Steps, Reading, Waiting, Answered
  <2>5. QED
    BY <2>1, <2>2, <2>3, <2>4
<1>6. ~CloseConnection(q)
  BY DEF CloseConnection
<1>7. QED
  BY <1>1, <1>2, <1>3, <1>4, <1>5, <1>6 DEF Step, Opening, Steps

(* Requests stay where they are while a closing call runs; connections     *)
(* only leave the pool, and answers are only closed.                       *)
LEMMA SweptAway ==
  ASSUME TypeInv, UseInv, UNCHANGED <<pc, conn>>, SweptInv',
         \A c \in Requests :
           /\ connmap'[c] # None => connmap'[c] = connmap[c] /\ readymap'[c] = readymap[c]
           /\ answer'[c] # None => answer'[c] = answer[c]
           /\ sent'[c] => sent[c],
         \A r \in Requests : fp'[r] => fp[r],
         \A r \in Requests : fp[r] /\ ~fp'[r] => connmap'[conn[r]] = None
  PROVE  UseInv'
<1> USE KeepAliveAssumption DEF TypeInv
<1>1. \A r, c \in Requests : Uses(r, c)' => Uses(r, c)
  BY DEF Uses
<1>2. MadeInv' /\ ExclusiveUse' /\ IdleInv'
  BY <1>1 DEF UseInv, MadeInv, ExclusiveUse, IdleInv
<1>3. ReadingInv'
  <2> SUFFICES ASSUME NEW r \in Requests
               PROVE  /\ fp'[r] => pc'[r] \in Reading /\ ~sent'[conn'[r]]
                      /\ pc'[r] = "closing" /\ connmap'[conn'[r]] # None => fp'[r]
    BY DEF ReadingInv
  <2>1. fp[r] \/ pc[r] = "closing" => conn[r] \in Requests
    BY DEF UseInv, ReadingInv, ConnInv, Reading
  <2>2. fp'[r] => pc'[r] \in Reading /\ ~sent'[conn'[r]]
    BY <2>1 DEF UseInv, ReadingInv
  <2>3. pc'[r] = "closing" /\ connmap'[conn'[r]] # None => fp'[r]
    BY <2>1 DEF UseInv, ReadingInv
  <2>4. QED
    BY <2>2, <2>3
<1>4. AnswerInv'
  BY DEF UseInv, AnswerInv
<1>5. QED
  BY <1>2, <1>3, <1>4 DEF UseInv

LEMMA SweptStep ==
  ASSUME TypeInv, PoolInv, UseInv, SweepStep
  PROVE  SweptInv'
<1> USE KeepAliveAssumption DEF TypeInv
<1>1. UNCHANGED <<pc, conn>>
  BY SweepCases
<1>2. SweptInv
  BY DEF UseInv
<1>3. CASE SweepAll \/ SweepEnd
  <2>1. sweep'.victim = None /\ sweep'.todo = <<>>
    <3>1. NoSweep.victim = None /\ NoSweep.todo = <<>>
      BY DEF NoSweep
    <3>2. CASE SweepEnd
      BY <3>1, <3>2 DEF SweepEnd
    <3>3. CASE SweepAll
      BY <3>1, <3>3, NoSweepType DEF SweepAll, Sweep
    <3>4. QED
      BY <1>3, <3>2, <3>3
  <2>2. QED
    BY <2>1 DEF SweptInv
<1>4. ASSUME NEW h \in Hosts, SweepHost(h) PROVE SweptInv'
  <2>1. sweep'.victim = None /\ sweep'.todo = hostmap[h]
    BY <1>4 DEF SweepHost, NoSweep
  <2>2. \A i \in DOMAIN hostmap[h] : conn[hostmap[h][i]] = hostmap[h][i]
    BY DEF PoolInv, OnePool, OwnInv, TypeOK
  <2>3. QED
    BY <1>1, <2>1, <2>2 DEF SweptInv
<1>5. CASE SweepNext
  <2> DEFINE v == Head(sweep.todo)
  <2>1. sweep.todo \in Seq(Requests) /\ sweep.todo # <<>> /\ sweep \in Sweep
    BY <1>5 DEF SweepNext, TypeOK, Sweep
  <2>2. v \in Requests /\ conn[v] = v
    BY <1>2, <2>1 DEF SweptInv
  <2>3. \A i \in DOMAIN Tail(sweep.todo) : conn[Tail(sweep.todo)[i]] = Tail(sweep.todo)[i]
    BY <1>2, <2>1 DEF SweptInv
  <2>4. sweep'.victim = v /\ sweep'.todo = Tail(sweep.todo)
    BY <1>5, <2>1 DEF SweepNext, Remove, Sweep
  <2>5. connmap'[v] = None
    BY <1>5, <2>2, RemovePool DEF SweepNext, PoolInv
  <2> HIDE DEF v
  <2>6. QED
    BY <1>1, <2>2, <2>3, <2>4, <2>5 DEF SweptInv
<1>6. ASSUME NEW h \in Hosts, SweepAllNext(h) PROVE SweptInv'
  <2> DEFINE p == IF h = sweep.at THEN sweep.pos ELSE 1
             v == hostmap[h][p]
             s == [sweep EXCEPT !.at = h, !.pos = p + 1]
  <2>1. /\ sweep \in Sweep /\ p \in Nat \ {0} /\ p + 1 \in Nat \ {0}
        /\ hostmap[h] \in Seq(Requests) /\ sweep.victim = None
    BY <1>6 DEF TypeOK, Sweep, SweepAllNext
  <2>2. s \in Sweep
    <3>1. [sweep EXCEPT !.at = h] \in Sweep
      BY DEF TypeOK, Sweep
    <3> HIDE DEF p
    <3>2. QED
      BY <2>1, <3>1 DEF Sweep
  <2>3. CASE p > Len(hostmap[h])
    <3>1. sweep'.victim = None /\ sweep'.todo = sweep.todo
      BY <1>6, <2>1, <2>3 DEF SweepAllNext, Sweep
    <3>2. QED
      BY <1>1, <1>2, <3>1 DEF SweptInv
  <2>4. CASE ~(p > Len(hostmap[h]))
    <3>1. Remove(v, [s EXCEPT !.victim = v])
      BY <1>6, <2>4 DEF SweepAllNext
    <3> HIDE DEF p
    <3>3. p \in DOMAIN hostmap[h]
      BY <2>1, <2>4
    <3>4. v \in Requests /\ conn[v] = v
      BY <2>1, <3>3 DEF PoolInv, OnePool, OwnInv
    <3> HIDE DEF v
    <3>2. sweep'.victim = v /\ sweep'.todo = sweep.todo
      <4> DEFINE t == [s EXCEPT !.victim = v]
      <4>1. t.victim = v /\ t.todo = sweep.todo
        BY <2>1 DEF Sweep
      <4> HIDE DEF s
      <4>2. t \in Sweep
        BY <2>2, <3>4 DEF Sweep
      <4>3. Remove(v, t)
        BY <3>1
      <4> HIDE DEF t
      <4>4. QED
        BY <4>1, <4>2, <4>3 DEF Remove, Sweep
    <3> HIDE DEF s
    <3>5. connmap'[v] = None
      BY <3>1, <3>4, RemovePool DEF PoolInv
    <3>6. QED
      BY <1>1, <1>2, <3>2, <3>4, <3>5 DEF SweptInv
  <2>5. QED
    BY <2>3, <2>4
<1>7. CASE SweepClose
  <2>1. sweep'.victim = None /\ sweep'.todo = sweep.todo
    BY <1>7 DEF SweepClose, TypeOK, Sweep
  <2>2. QED
    BY <1>1, <1>2, <2>1 DEF SweptInv
<1>8. QED
  BY <1>3, <1>4, <1>5, <1>6, <1>7 DEF SweepStep

LEMMA SweepUse ==
  ASSUME TypeInv, PoolInv, UseInv, SweepStep
  PROVE  UseInv'
<1> USE KeepAliveAssumption DEF TypeInv
<1>1. UNCHANGED <<pc, conn>> /\ SweptInv'
  BY SweepCases, SweptStep
<1>2. CASE UNCHANGED <<pool, http>>
  BY <1>1, <1>2, SweptAway DEF pool, http
<1>3. ASSUME NEW c \in Requests, NEW s \in Sweep, Remove(c, s), UNCHANGED http
      PROVE  UseInv'
  <2>1. /\ connmap'[c] = None
        /\ \A d \in Requests : d # c => connmap'[d] = connmap[d] /\ readymap'[d] = readymap[d]
    BY <1>3, RemovePool DEF PoolInv
  <2>2. QED
    BY <1>1, <1>3, <2>1, SweptAway DEF http
<1>4. CASE sweep.victim \in Requests /\ CloseConn(sweep.victim)
  <2>1. PICK c \in Requests : c = sweep.victim
    BY <1>4
  <2>2. CloseConn(c) /\ connmap[c] = None
    BY <1>4, <2>1 DEF UseInv, SweptInv
  <2>3. \A r \in Requests : /\ fp'[r] => fp[r]
                            /\ fp[r] /\ ~fp'[r] => connmap'[conn[r]] = None
    BY <2>2 DEF CloseConn, TypeOK, UseInv, AnswerInv
  <2>4. \A d \in Requests :
          /\ connmap'[d] # None => connmap'[d] = connmap[d] /\ readymap'[d] = readymap[d]
          /\ answer'[d] # None => answer'[d] = answer[d]
          /\ sent'[d] => sent[d]
    BY <2>2 DEF CloseConn, TypeOK
  <2>5. QED
    BY <1>1, <2>3, <2>4, SweptAway
<1>5. QED
  BY <1>2, <1>3, <1>4, SweepCases

LEMMA UseInit == Init => UseInv
BY KeepAliveAssumption DEF Init, UseInv, MadeInv, SweptInv, NoSweep, ExclusiveUse, Uses,
                           IdleInv, ReadingInv, AnswerInv

LEMMA UseStep ==
  ASSUME "close_connection" \notin Closers
  PROVE  TypeInv /\ PoolInv /\ UseInv /\ [Next]_vars => UseInv'
<1> SUFFICES ASSUME TypeInv, PoolInv, UseInv, [Next]_vars PROVE UseInv'
  OBVIOUS
<1>1. CASE UNCHANGED vars
  BY <1>1 DEF vars, pool, http, UseInv, MadeInv, SweptInv, ExclusiveUse, Uses, IdleInv,
              ReadingInv, AnswerInv
<1>2. QED
  BY <1>1, StepUse, SweepUse DEF Next, SweepStep

LEMMA UseAlways ==
  ASSUME "close_connection" \notin Closers
  PROVE  Spec => [](TypeInv /\ UseInv)
<1>1. Init => TypeInv /\ PoolInv /\ UseInv
  BY TypeInit, PoolInit, UseInit
<1>2. TypeInv /\ PoolInv /\ UseInv /\ [Next]_vars => (TypeInv /\ PoolInv /\ UseInv)'
  BY TypeStep, PoolStep, UseStep
<1>3. QED
  BY <1>1, <1>2, PTL DEF Spec

(* As long as nobody calls close_connection() of a response, a connection  *)
(* serves one request at a time, whatever else closes it.                  *)
THEOREM OneRequestAtATime ==
  ASSUME "close_connection" \notin Closers
  PROVE  Spec => []ExclusiveUse
<1>1. TypeInv /\ UseInv => ExclusiveUse
  BY DEF UseInv
<1>2. QED
  BY <1>1, UseAlways, PTL

(* Under the same condition a connection that may be handed out has no     *)
(* request to answer and no answer to be read.                             *)
THEOREM HandedOutIdle ==
  ASSUME "close_connection" \notin Closers
  PROVE  Spec => []ReadyIsIdle
<1>1. TypeInv /\ UseInv => ReadyIsIdle
  <2> SUFFICES ASSUME TypeInv, UseInv, NEW c \in Requests, connmap[c] # None, readymap[c] = 1
               PROVE  ~sent[c] /\ ~Unread(c)
    BY DEF ReadyIsIdle, Pooled
  <2>1. ~sent[c] /\ \A q \in Requests : ~Uses(q, c)
    BY DEF UseInv, IdleInv
  <2>2. ASSUME answer[c] # None, fp[answer[c]] PROVE FALSE
    <3>1. answer[c] \in Requests
      BY <2>2 DEF TypeInv, TypeOK
    <3>2. Uses(answer[c], c)
      BY <2>2, <3>1 DEF UseInv, AnswerInv, ReadingInv, Uses, Reading
    <3>3. QED
      BY <2>1, <3>1, <3>2
  <2>3. QED
    BY <2>1, <2>2 DEF Unread
<1>2. QED
  BY <1>1, UseAlways, PTL

-----------------------------------------------------------------------------
(* What is in the pool of that which a closing call is to close is still   *)
(* in its list, and is not added to the pool again.                        *)
DueInv ==
  /\ \A c \in sweep.due : conn[c] = c
  /\ sweep.kind # None =>
       \A c \in sweep.due : connmap[c] # None => \E i \in DOMAIN sweep.todo : sweep.todo[i] = c

LEMMA StepDue ==
  ASSUME TypeInv, PoolInv, DueInv, NEW q \in Requests, Step(q)
  PROVE  DueInv' /\ sweep'.kind = sweep.kind
<1> USE DEF TypeInv
<1>1. ASSUME \A c \in Requests : conn[c] = c => conn'[c] = c /\ (connmap'[c] # None => connmap[c] # None),
             sweep'.due = sweep.due, sweep'.todo = sweep.todo, sweep'.kind = sweep.kind
      PROVE  DueInv'
  <2>1. sweep.due \subseteq Requests
    BY DEF TypeOK, Sweep
  <2>2. QED
    BY <1>1, <2>1 DEF DueInv
<1>2. CASE GetReady(q)
  <2>1. /\ conn[q] # q /\ UNCHANGED <<connmap, sweep>>
        /\ \A c \in Requests : c # q => conn'[c] = conn[c]
    BY <1>2 DEF GetReady, PoolInv, OwnInv, TypeOK
  <2>2. QED
    BY <1>1, <2>1
<1>3. CASE Add(q)
  <2>1. /\ conn[q] # q /\ UNCHANGED sweep
        /\ \A c \in Requests : c # q => conn'[c] = conn[c] /\ connmap'[c] = connmap[c]
    BY <1>3 DEF Add, PoolInv, OwnInv, TypeOK
  <2>2. QED
    BY <1>1, <2>1
<1>4. ASSUME Remove(conn[q], sweep), UNCHANGED conn, conn[q] \in Requests
      PROVE  DueInv' /\ sweep'.kind = sweep.kind
  <2>1. \A c \in Requests : connmap'[c] # None => connmap[c] # None
    BY <1>4, RemovePool DEF PoolInv
  <2>2. sweep'.due = sweep.due /\ sweep'.todo = sweep.todo /\ sweep'.kind = sweep.kind
    BY <1>4 DEF Remove, TypeOK, Sweep
  <2>3. QED
    BY <1>1, <1>4, <2>1, <2>2
<1>5. CASE UNCHANGED <<connmap, conn, sweep>>
  BY <1>1, <1>5
<1>6. QED
  BY <1>2, <1>3, <1>4, <1>5
  DEF Step, Opening, StartTransaction, GetResponse, Discard, CloseEvicted, Drop, Deliver, Close,
      RequestClosed, CloseConnection, CloseConn, pool, ConnInv

LEMMA SweepDue ==
  ASSUME "close_all" \notin Closers, TypeInv, PoolInv, DueInv, SweepStep
  PROVE  DueInv' /\ (sweep'.kind = sweep.kind \/ sweep.kind = None \/ SweepEnd)
<1> USE KeepAliveAssumption DEF TypeInv
<1>1. /\ UNCHANGED conn
      /\ \A c \in Requests : connmap'[c] # None => connmap[c] # None
  BY SweepCases, RemovePool DEF PoolInv, pool, CloseConn
<1>2. sweep \in Sweep /\ sweep.due \subseteq Requests /\ sweep.todo \in Seq(Requests)
  BY DEF TypeOK, Sweep
<1>3. ASSUME sweep'.due = sweep.due, sweep'.todo = sweep.todo, sweep'.kind = sweep.kind
      PROVE  DueInv'
  BY <1>1, <1>2, <1>3 DEF DueInv
<1>4. CASE SweepEnd
  <2>1. sweep'.due = {}
    BY <1>4 DEF SweepEnd, NoSweep
  <2>2. QED
    BY <1>4, <2>1 DEF DueInv
<1>5. ASSUME NEW h \in Hosts, SweepHost(h)
      PROVE  DueInv' /\ sweep.kind = None
  <2>1. /\ sweep'.due = Range(hostmap[h]) /\ sweep'.todo = hostmap[h] /\ sweep.kind = None
    BY <1>5, NoSweepType DEF SweepHost, Sweep
  <2>2. \A i \in DOMAIN hostmap[h] : conn[hostmap[h][i]] = hostmap[h][i]
    BY DEF PoolInv, OnePool, OwnInv, TypeOK
  <2>3. QED
    BY <1>1, <2>1, <2>2 DEF DueInv, Range
<1>6. ~SweepAll
  BY DEF SweepAll
<1>7. CASE SweepNext
  <2> DEFINE v == Head(sweep.todo)
             s == [sweep EXCEPT !.todo = Tail(@), !.victim = v]
  <2>1. sweep.todo # <<>> /\ Remove(v, s)
    BY <1>7 DEF SweepNext
  <2>2. v \in Requests /\ Tail(sweep.todo) \in Seq(Requests)
    BY <1>2, <2>1
  <2>3. /\ s \in Sweep
        /\ s.due = sweep.due /\ s.todo = Tail(sweep.todo) /\ s.kind = sweep.kind
    BY <1>2, <2>2 DEF Sweep
  <2> HIDE DEF s
  <2>4. sweep'.due = sweep.due /\ sweep'.todo = Tail(sweep.todo) /\ sweep'.kind = sweep.kind
    BY <2>1, <2>3 DEF Remove, Sweep
  <2>5. connmap'[v] = None
    BY <2>1, <2>2, RemovePool DEF PoolInv
  <2>6. ASSUME NEW c \in Requests, c # v, NEW i \in DOMAIN sweep.todo, sweep.todo[i] = c
        PROVE  \E j \in DOMAIN Tail(sweep.todo) : Tail(sweep.todo)[j] = c
    <3>1. i # 1 /\ i - 1 \in DOMAIN Tail(sweep.todo) /\ Tail(sweep.todo)[i-1] = c
      BY <1>2, <2>1, <2>6
    <3>2. QED
      BY <3>1
  <2> HIDE DEF v
  <2>7. QED
    BY <1>1, <1>2, <2>4, <2>5, <2>6 DEF DueInv
<1>8. ASSUME NEW h \in Hosts, SweepAllNext(h)
      PROVE  DueInv' /\ sweep'.kind = sweep.kind
  <2> DEFINE p == IF h = sweep.at THEN sweep.pos ELSE 1
             s == [sweep EXCEPT !.at = h, !.pos = p + 1]
             t == [s EXCEPT !.victim = hostmap[h][p]]
  <2>1. /\ s.due = sweep.due /\ s.todo = sweep.todo /\ s.kind = sweep.kind
        /\ DOMAIN s = DOMAIN sweep
    BY <1>2 DEF Sweep
  <2>2. DOMAIN sweep = {"kind", "todo", "walk", "at", "pos", "victim", "due"}
    BY <1>2 DEF Sweep
  <2>3. sweep' = [s EXCEPT !.walk = @ \ {h}] \/ Remove(hostmap[h][p], t)
    BY <1>8 DEF SweepAllNext
  <2> HIDE DEF s
  <2>4. sweep'.due = sweep.due /\ sweep'.todo = sweep.todo /\ sweep'.kind = sweep.kind
    <3>1. /\ t.due = sweep.due /\ t.todo = sweep.todo /\ t.kind = sweep.kind
          /\ DOMAIN t = DOMAIN sweep
      BY <2>1, <2>2
    <3>2. CASE sweep' = [s EXCEPT !.walk = @ \ {h}]
      BY <2>1, <2>2, <3>2
    <3> HIDE DEF t
    <3>3. CASE Remove(hostmap[h][p], t)
      BY <2>2, <3>1, <3>3 DEF Remove
    <3>4. QED
      BY <2>3, <3>2, <3>3
  <2>5. QED
    BY <1>3, <2>4
<1>9. CASE SweepClose
  <2>1. sweep'.due = sweep.due /\ sweep'.todo = sweep.todo /\ sweep'.kind = sweep.kind
    BY <1>2, <1>9 DEF SweepClose, Sweep
  <2>2. QED
    BY <1>3, <2>1
<1>10. QED
  BY <1>4, <1>5, <1>6, <1>7, <1>8, <1>9 DEF SweepStep

(* When close_connection(host) returns, nothing is in the pool that was    *)
(* there for the host when it was called (close_all is another matter).    *)
THEOREM HostIsClosed ==
  ASSUME "close_all" \notin Closers
  PROVE  Spec => SweepCloses
<1> DEFINE Closed == sweep.kind # None /\ sweep'.kind = None => Pooled \cap sweep.due = {}
<1>1. Init => TypeInv /\ PoolInv /\ DueInv
  <2>1. Init => DueInv
    BY DEF Init, DueInv, NoSweep
  <2>2. QED
    BY <2>1, TypeInit, PoolInit
<1>2. TypeInv /\ PoolInv /\ DueInv /\ [Next]_vars => (TypeInv /\ PoolInv /\ DueInv)'
  <2> SUFFICES ASSUME TypeInv, PoolInv, DueInv, [Next]_vars PROVE DueInv'
    BY TypeStep, PoolStep
  <2>1. CASE UNCHANGED vars
    BY <2>1 DEF vars, pool, DueInv
  <2>2. QED
    BY <2>1, StepDue, SweepDue DEF Next, SweepStep
<1>3. TypeInv /\ PoolInv /\ DueInv /\ [Next]_vars => [Closed]_vars
  <2> SUFFICES ASSUME TypeInv, PoolInv, DueInv, Next, sweep.kind # None, sweep'.kind = None
               PROVE  Pooled \cap sweep.due = {}
    BY DEF vars
  <2>1. SweepEnd
    BY StepDue, SweepDue DEF Next, SweepStep
  <2>2. QED
    BY <2>1 DEF SweepEnd, SweepDone, DueInv, Pooled
<1>4. QED
  BY <1>1, <1>2, <1>3, PTL DEF Spec, SweepCloses

=============================================================================
