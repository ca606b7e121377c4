----------------------------- MODULE KeepAlive -----------------------------
(***************************************************************************)
(* The connection pool of helpers/keepalive.py (ConnectionManager and      *)
(* KeepAliveHandler) under requests that run in any number of threads.     *)
(*                                                                         *)
(* A request opens at most one connection of its own and gets at most one  *)
(* response, so both carry its name.  Each critical section of the manager *)
(* and each call on a connection is a step.                                *)
(***************************************************************************)
EXTENDS Naturals, Sequences, Functions

CONSTANTS
  Requests,    \* the calls of do_open
  Hosts,       \* the host:port strings requests ask for
  HostOf,      \* the host of each request
  None,        \* Python's None
  Faults,      \* whether sending and answering may fail
  MayClose,    \* whether a server may announce that it closes a connection
  Closers      \* the closing calls that are made, besides close() of responses

ASSUME KeepAliveAssumption ==
  /\ HostOf \in [Requests -> Hosts]
  /\ None \notin Requests \cup Hosts \cup {0, 1}
  /\ {Faults, MayClose} \subseteq BOOLEAN
  /\ Closers \subseteq {"close_connection", "close_host", "close_all"}

VARIABLES
  hostmap,     \* the list of connections of each host, <<>> when it has none
  connmap,     \* the host of each connection in the pool, or None
  readymap,    \* 1, 0, or None for a connection that is not in it
  sock,        \* httplib: whether a connection has a socket
  sent,        \* httplib: whether a request was sent and not yet answered
  answer,      \* httplib: the response that a connection has given last
  fp,          \* whether a response still has its file (is not closed)
  pc,          \* the next step of each request
  conn,        \* the connection a request works on
  sweep        \* a call of close_connection(host) or close_all in progress

pool == <<hostmap, connmap, readymap>>
http == <<sock, sent, answer, fp>>
vars == <<pool, http, pc, conn, sweep>>

(***************************************************************************)
(* Such a call closes the connections of a copied list (`todo`) or walks   *)
(* over the lists of some hosts (`walk`), now at position `pos` of the one *)
(* of host `at`; `victim` is out of the pool and about to be closed.       *)
(* `due` is history: what the pool held for it when it was called.         *)
(***************************************************************************)
NoSweep == [kind |-> None, todo |-> <<>>, walk |-> {}, at |-> None,
            pos |-> 1, victim |-> None, due |-> {}]

Init == /\ hostmap = [h \in Hosts |-> <<>>]
        /\ connmap = [c \in Requests |-> None]
        /\ readymap = [c \in Requests |-> None]
        /\ sock = [c \in Requests |-> FALSE]
        /\ sent = [c \in Requests |-> FALSE]
        /\ answer = [c \in Requests |-> None]
        /\ fp = [r \in Requests |-> FALSE]
        /\ pc = [q \in Requests |-> "ask"]
        /\ conn = [q \in Requests |-> None]
        /\ sweep = NoSweep

Pooled == {c \in Requests : connmap[c] # None}

Goto(q, step) == pc' = [pc EXCEPT ![q] = step]

(* Plausible bug: the list of the host is forgotten. *)
RemoveFromMaps(c, s) ==
  /\ connmap' = [connmap EXCEPT ![c] = None]
  /\ readymap' = [readymap EXCEPT ![c] = None]
  /\ sweep' = s
  /\ UNCHANGED hostmap

(* list.remove: without the first occurrence of c. *)
Without(list, c) ==
  LET k == CHOOSE i \in DOMAIN list : list[i] = c /\ \A j \in 1..i-1 : list[j] # c
  IN  [i \in 1..Len(list)-1 |-> IF i < k THEN list[i] ELSE list[i+1]]

(***************************************************************************)
(* ConnectionManager.remove.  `s` is the sweep before this step: its `for` *)
(* loop goes over the very lists of the pool, and a list that has become   *)
(* empty leaves the pool and ends the loop over it.                        *)
(***************************************************************************)
Remove(c, s) ==
  \/ connmap[c] = None /\ sweep' = s /\ UNCHANGED pool
  \/ LET h == connmap[c]
         others == Without(hostmap[h], c)
     IN /\ h # None
        /\ connmap' = [connmap EXCEPT ![c] = None]
        /\ readymap' = [readymap EXCEPT ![c] = None]
        /\ hostmap' = [hostmap EXCEPT ![h] = others]
        /\ sweep' = IF others = <<>> THEN [s EXCEPT !.walk = @ \ {h}] ELSE s

(***************************************************************************)
(* httplib's HTTPConnection.close: the socket, the state, and the answer,  *)
(* whose close() is that of line 393.  The handler is told of it only when *)
(* do_open has already given the response its _handler (line 249).         *)
(***************************************************************************)
Bound(r) == pc[r] \notin {"got", "retire"}

CloseConn(c) ==
  LET r == answer[c]
      shut == r # None /\ fp[r]
  IN /\ sock' = [sock EXCEPT ![c] = FALSE]
     /\ sent' = [sent EXCEPT ![c] = FALSE]
     /\ answer' = [answer EXCEPT ![c] = None]
     /\ fp' = IF shut THEN [fp EXCEPT ![r] = FALSE] ELSE fp
     /\ readymap' = IF shut /\ Bound(r) THEN [readymap EXCEPT ![c] = 1]
                                        ELSE readymap
     /\ UNCHANGED <<hostmap, connmap>>

(* Plausible bug: connections in use are not skipped. *)
FreeAny(h) == DOMAIN hostmap[h]

(* The places of the ready connections in the list of a host. *)
Free(h) == {i \in DOMAIN hostmap[h] : readymap[hostmap[h][i]] = 1}

(* get_ready_conn: the first ready connection is taken and no longer ready. *)
GetReady(q) ==
  LET free == Free(HostOf[q]) IN
  /\ pc[q] = "ask"
  /\ \/ free = {} /\ Goto(q, "create") /\ UNCHANGED <<conn, readymap>>
     \/ \E i \in free :
          LET c == hostmap[HostOf[q]][i] IN
          /\ \A j \in free : i <= j
          /\ conn' = [conn EXCEPT ![q] = c]
          /\ readymap' = [readymap EXCEPT ![c] = 0]
          /\ Goto(q, "send")
  /\ UNCHANGED <<hostmap, connmap, http, sweep>>

(* Lines 233-236: a new connection, in the pool before it is connected. *)
Add(q) ==
  /\ pc[q] = "create"
  /\ hostmap' = [hostmap EXCEPT ![HostOf[q]] = Append(@, q)]
  /\ connmap' = [connmap EXCEPT ![q] = HostOf[q]]
  /\ readymap' = [readymap EXCEPT ![q] = 0]
  /\ conn' = [conn EXCEPT ![q] = q]
  /\ Goto(q, "send")
  /\ UNCHANGED <<http, sweep>>

(***************************************************************************)
(* A socket.error or HTTPException: a reused connection is discarded and   *)
(* the next one is asked for, with a new one do_open raises URLError       *)
(* (240).  Any other exception evicts a reused connection (277-291) and    *)
(* leaves a new one where it is.                                           *)
(***************************************************************************)
Trouble(q) == Goto(q, IF conn[q] = q THEN "failed" ELSE "discard")
Unexpected(q) == Goto(q, IF conn[q] = q THEN "failed" ELSE "evict")

(* httplib: the connection's last answer has not been closed. *)
Unread(c) == answer[c] # None /\ fp[answer[c]]

(***************************************************************************)
(* _start_transaction.  putrequest raises CannotSendRequest when a request *)
(* has been sent, which line 319 turns into a URLError; endheaders first   *)
(* connects a connection that has no socket.                               *)
(***************************************************************************)
StartTransaction(q) ==
  LET c == conn[q] IN
  /\ pc[q] = "send"
  /\ \/ sent[c] /\ Unexpected(q) /\ UNCHANGED http
     \/ /\ ~sent[c]
        /\ sent' = [sent EXCEPT ![c] = TRUE]
        /\ \/ sock' = [sock EXCEPT ![c] = TRUE] /\ Goto(q, "await")
           \/ Faults /\ (Trouble(q) \/ Unexpected(q)) /\ UNCHANGED sock
        /\ UNCHANGED <<answer, fp>>
  /\ UNCHANGED <<pool, conn, sweep>>

(***************************************************************************)
(* getresponse: ResponseNotReady when the connection was closed meanwhile  *)
(* or still has an answer; a server that has closed an idle connection     *)
(* gives a bad status line; an answer that ends the connection closes it.  *)
(***************************************************************************)
GetResponse(q) ==
  LET c == conn[q] IN
  /\ pc[q] = "await"
  /\ \/ (~sent[c] \/ Unread(c)) /\ Trouble(q) /\ UNCHANGED http
     \/ Faults /\ (Trouble(q) \/ Unexpected(q)) /\ UNCHANGED http
     \/ /\ sent[c] /\ ~Unread(c)
        /\ sent' = [sent EXCEPT ![c] = FALSE]
        /\ fp' = [fp EXCEPT ![q] = TRUE]
        /\ \/ /\ answer' = [answer EXCEPT ![c] = q]
              /\ Goto(q, "got") /\ UNCHANGED sock
           \/ /\ MayClose
              /\ answer' = [answer EXCEPT ![c] = None]
              /\ sock' = [sock EXCEPT ![c] = FALSE]
              /\ Goto(q, "retire")
  /\ UNCHANGED <<pool, conn, sweep>>

(* Plausible bug: a failed connection is closed and goes back to the pool. *)
DiscardReady(q) ==
  /\ pc[q] = "discard"
  /\ sock' = [sock EXCEPT ![conn[q]] = FALSE]
  /\ sent' = [sent EXCEPT ![conn[q]] = FALSE]
  /\ readymap' = [readymap EXCEPT ![conn[q]] = 1]
  /\ Goto(q, "ask")
  /\ UNCHANGED <<hostmap, connmap, answer, fp, conn, sweep>>

(* Line 228, and line 290 once an evicted connection is out of the pool. *)
Discard(q) == /\ pc[q] = "discard"
              /\ CloseConn(conn[q])
              /\ Goto(q, "remove")
              /\ UNCHANGED <<conn, sweep>>

CloseEvicted(q) == /\ pc[q] = "evicted"
                   /\ CloseConn(conn[q])
                   /\ Goto(q, "failed")
                   /\ UNCHANGED <<conn, sweep>>

(* Lines 229, 289 and 247: the connection leaves the pool. *)
Drop(q, step, after) == /\ pc[q] = step
                        /\ Remove(conn[q], sweep)
                        /\ Goto(q, after)
                        /\ UNCHANGED <<http, conn>>

(* Plausible bug: a connection is ready as soon as it has answered. *)
DeliverReady(q) == /\ pc[q] = "got"
                   /\ readymap' = [readymap EXCEPT ![conn[q]] = 1]
                   /\ Goto(q, "open")
                   /\ UNCHANGED <<hostmap, connmap, http, conn, sweep>>

(* Lines 249-258: the response gets its handler and goes to the caller. *)
Deliver(q) == /\ pc[q] = "got"
              /\ Goto(q, "open")
              /\ UNCHANGED <<pool, http, conn, sweep>>

(***************************************************************************)
(* HTTPResponse.close, called by the reader or by the read that meets the  *)
(* end of the body: the test of line 394, then lines 395-399, which make   *)
(* the connection ready, in the pool or not.                               *)
(***************************************************************************)
Close(q) == /\ pc[q] \in {"open", "reclose"}
            /\ Goto(q, IF fp[q] THEN "closing" ELSE "closed")
            /\ UNCHANGED <<pool, http, conn, sweep>>

(* Plausible bug: the closed responses of a connection are counted. *)
RequestClosedCounts(q) ==
  LET c == conn[q] IN
  /\ pc[q] = "closing"
  /\ fp' = [fp EXCEPT ![q] = FALSE]
  /\ readymap' = [readymap EXCEPT ![c] = IF @ = None THEN 1 ELSE @ + 1]
  /\ Goto(q, "closed")
  /\ UNCHANGED <<hostmap, connmap, sock, sent, answer, conn, sweep>>

RequestClosed(q) ==
  /\ pc[q] = "closing"
  /\ fp' = [fp EXCEPT ![q] = FALSE]
  /\ readymap' = [readymap EXCEPT ![conn[q]] = 1]
  /\ Goto(q, "closed")
  /\ UNCHANGED <<hostmap, connmap, sock, sent, answer, conn, sweep>>

(* HTTPResponse.close_connection: lines 208, 209 and 403. *)
CloseConnection(q) ==
  /\ "close_connection" \in Closers
  /\ pc[q] \in {"open", "closed"}
  /\ CloseConn(conn[q])
  /\ Goto(q, "unpool")
  /\ UNCHANGED <<conn, sweep>>

(* Plausible bug: connections in use are spared. *)
SweepHostReady(h) ==
  /\ "close_host" \in Closers /\ sweep.kind = None
  /\ sweep' = [NoSweep EXCEPT !.kind = "close_host",
                              !.todo = SelectSeq(hostmap[h], LAMBDA c : readymap[c] = 1),
                              !.due = Range(hostmap[h])]
  /\ UNCHANGED <<pool, http, pc, conn>>

(* close_connection(host) goes over a copy of the host's list ... *)
SweepHost(h) ==
  /\ "close_host" \in Closers /\ sweep.kind = None
  /\ sweep' = [NoSweep EXCEPT !.kind = "close_host", !.todo = hostmap[h],
                              !.due = Range(hostmap[h])]
  /\ UNCHANGED <<pool, http, pc, conn>>

(* ... and close_all over the lists themselves. *)
SweepAll ==
  /\ "close_all" \in Closers /\ sweep.kind = None
  /\ sweep' = [NoSweep EXCEPT !.kind = "close_all",
                              !.walk = {h \in Hosts : hostmap[h] # <<>>},
                              !.due = Pooled]
  /\ UNCHANGED <<pool, http, pc, conn>>

(* Lines 191-192. *)
SweepNext ==
  /\ sweep.kind = "close_host" /\ sweep.victim = None /\ sweep.todo # <<>>
  /\ LET c == Head(sweep.todo) IN
       Remove(c, [sweep EXCEPT !.todo = Tail(@), !.victim = c])
  /\ UNCHANGED <<http, pc, conn>>

(* Lines 197-199: the loop is at position pos of the list of host h. *)
SweepAllNext(h) ==
  /\ sweep.kind = "close_all" /\ sweep.victim = None
  /\ h \in sweep.walk /\ (sweep.at \in sweep.walk => h = sweep.at)
  /\ LET pos == IF h = sweep.at THEN sweep.pos ELSE 1
         s == [sweep EXCEPT !.at = h, !.pos = pos + 1]
     IN IF pos > Len(hostmap[h])
        THEN sweep' = [s EXCEPT !.walk = @ \ {h}] /\ UNCHANGED pool
        ELSE Remove(hostmap[h][pos], [s EXCEPT !.victim = hostmap[h][pos]])
  /\ UNCHANGED <<http, pc, conn>>

(* Lines 193 and 200. *)
SweepClose == /\ sweep.victim # None
              /\ CloseConn(sweep.victim)
              /\ sweep' = [sweep EXCEPT !.victim = None]
              /\ UNCHANGED <<pc, conn>>

SweepDone == sweep.todo = <<>> /\ sweep.walk = {} /\ sweep.victim = None

SweepEnd == /\ sweep.kind # None /\ SweepDone
            /\ sweep' = NoSweep
            /\ UNCHANGED <<pool, http, pc, conn>>

(* The steps of do_open. *)
Opening(q) == \/ GetReady(q) \/ Add(q) \/ StartTransaction(q)
              \/ GetResponse(q) \/ Discard(q) \/ Drop(q, "remove", "ask")
              \/ Drop(q, "evict", "evicted") \/ CloseEvicted(q)
              \/ Drop(q, "retire", "got") \/ Deliver(q)

Step(q) == \/ Opening(q) \/ Close(q) \/ RequestClosed(q)
           \/ CloseConnection(q) \/ Drop(q, "unpool", "reclose")

Next == \/ \E q \in Requests : Step(q)
        \/ \E h \in Hosts : SweepHost(h) \/ SweepAllNext(h)
        \/ SweepAll \/ SweepNext \/ SweepClose \/ SweepEnd

Spec == Init /\ [][Next]_vars

(***************************************************************************)
(* A thread in do_open is scheduled.  Connecting, sending and the wait for *)
(* an answer are calls on sockets without a timeout (line 340 passes none  *)
(* to HTTPConnection, and req.timeout is not looked at): nothing says that *)
(* they return.                                                            *)
(***************************************************************************)
LiveSpec ==
  Spec /\ \A q \in Requests : WF_vars(Opening(q) /\ pc[q] \notin {"send", "await"})
-----------------------------------------------------------------------------
Steps == {"ask", "create", "send", "await", "discard", "remove", "evict",
          "evicted", "retire", "got", "open", "closing", "closed", "unpool",
          "reclose", "failed"}

Sweep == [kind : {None, "close_host", "close_all"}, todo : Seq(Requests),
          walk : SUBSET Hosts, at : Hosts \cup {None}, pos : Nat \ {0},
          victim : Requests \cup {None}, due : SUBSET Requests]

TypeOK == /\ hostmap \in [Hosts -> Seq(Requests)]
          /\ connmap \in [Requests -> Hosts \cup {None}]
          /\ readymap \in [Requests -> {0, 1, None}]
          /\ sock \in [Requests -> BOOLEAN]
          /\ sent \in [Requests -> BOOLEAN]
          /\ answer \in [Requests -> Requests \cup {None}]
          /\ fp \in [Requests -> BOOLEAN]
          /\ pc \in [Requests -> Steps]
          /\ conn \in [Requests -> Requests \cup {None}]
          /\ sweep \in Sweep

(* From taking or making a connection until its answer has been closed. *)
Uses(q, c) ==
  /\ conn[q] = c
  /\ \/ pc[q] \in {"send", "await", "discard", "remove", "evict", "evicted"}
     \/ pc[q] \in {"retire", "got", "open", "closing"} /\ fp[q]

(* A connection serves one request at a time (lines 30-31: those that are  *)
(* still in use are not given to another request).                         *)
ExclusiveUse ==
  \A q, r \in Requests, c \in Requests : Uses(q, c) /\ Uses(r, c) => q = r

(* What get_ready_conn may hand out is idle: nothing has been sent on it   *)
(* that is not answered and no answer on it is still to be read, so that   *)
(* putrequest accepts it (lines 308-319).                                  *)
ReadyIsIdle ==
  \A c \in Pooled : readymap[c] = 1 => ~sent[c] /\ ~Unread(c)

(* The three maps describe one pool (lines 124-126): each connection is    *)
(* once in the list of its own host, and has a ready state.                *)
OnePool ==
  \A h \in Hosts :
    /\ \A i \in DOMAIN hostmap[h] : connmap[hostmap[h][i]] = h
                                    /\ readymap[hostmap[h][i]] # None
    /\ \A c \in Requests : connmap[c] = h =>
         \E i \in DOMAIN hostmap[h] :
           \A j \in DOMAIN hostmap[h] : hostmap[h][j] = c <=> i = j

(* close_connection(host) and close_all leave no connection in the pool    *)
(* that was there for them when they were called (lines 188, 196).         *)
SweepCloses ==
  [][sweep.kind # None /\ sweep'.kind = None
       => Pooled \cap sweep.due = {}]_vars

(* Where do_open leaves a request: with a response, or an exception.       *)
Ended == {"open", "closing", "closed", "unpool", "reclose", "failed"}

(* A request does not go round the loop of lines 219-230 for ever, since   *)
(* every connection that has failed is out of the pool before the next is  *)
(* asked for: it gets a response or raises, unless a server keeps it in    *)
(* one call on its socket for ever.                                        *)
RequestsEnd == \A q \in Requests : <>[](pc[q] \in Ended \cup {"send", "await"})
=============================================================================
