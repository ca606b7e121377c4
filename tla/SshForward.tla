----------------------------- MODULE SshForward -----------------------------
(***************************************************************************)
(* The ssh tunnel of helpers/sshforward.py.  Every request to the local    *)
(* port runs Handler.handle() in a thread of its own; the threads share    *)
(* one SSHClient, a class attribute, whose connect() puts a new transport  *)
(* in the place of the old one.                                            *)
(***************************************************************************)
EXTENDS Integers, Sequences, SequencesExt

CONSTANTS
  Handlers,      \* the requests, one thread each
  Bytes,         \* handler -> bytes that a side of its tunnel may write
  RecvSize,      \* recv(1024)
  Losses,        \* times that the transport is lost or a connect fails
  ShortSends     \* whether send() may take a part of the data only

\* What the constants are; the module that gives them values assumes it.
SshForwardAssumption ==
  /\ Bytes \in [Handlers -> Nat] /\ RecvSize \in Nat \ {0} /\ Losses \in Nat
  /\ ShortSends \in BOOLEAN

VARIABLES
  transport,     \* of the shared client: [owner, state], "up", "new" or "down"
  pc,            \* where each handler is
  chan,          \* the transport on which its channel was opened
  written,       \* bytes that each side of a tunnel has written
  over,          \* whether a side has closed its end
  taken,         \* bytes of each side that the handler has received
  got,           \* the bytes, by number, that arrived at the other side
  short,         \* a send took only a part of the data of this side
  lost           \* times that the transport was lost or a connect failed

sides  == <<written, over, taken, got, short>>
vars   == <<transport, pc, chan, sides, lost>>

\* "request" is what the local client writes, "chan" what the remote server does.
Sides == {"request", "chan"}
Other(s) == IF s = "request" THEN "chan" ELSE "request"

None == "none"
Up == [owner |-> None, state |-> "up"]

Init ==
  /\ transport = Up
  /\ pc = [h \in Handlers |-> "new"]
  /\ chan = [h \in Handlers |-> None]
  /\ written = [h \in Handlers |-> [s \in Sides |-> 0]]
  /\ over = [h \in Handlers |-> [s \in Sides |-> FALSE]]
  /\ taken = [h \in Handlers |-> [s \in Sides |-> 0]]
  /\ got = [h \in Handlers |-> [s \in Sides |-> <<>>]]
  /\ short = [h \in Handlers |-> [s \in Sides |-> FALSE]]
  /\ lost = 0

Goto(h, l) == pc' = [pc EXCEPT ![h] = l]

-----------------------------------------------------------------------------
\* The two ends of a tunnel.
Write(h, s) ==
  /\ pc[h] = "forward" /\ ~over[h][s] /\ written[h][s] < Bytes[h]
  /\ written' = [written EXCEPT ![h][s] = @ + 1]
  /\ UNCHANGED <<transport, pc, chan, over, taken, got, short, lost>>

End(h, s) ==
  /\ pc[h] = "forward" /\ ~over[h][s]
  /\ over' = [over EXCEPT ![h][s] = TRUE]
  /\ UNCHANGED <<transport, pc, chan, written, taken, got, short, lost>>

\* The transport breaks, and with it the channels that were opened on it.
Lose ==
  /\ transport.state = "up" /\ lost < Losses
  /\ lost' = lost + 1
  /\ transport' = [transport EXCEPT !.state = "down"]
  /\ over' = [h \in Handlers |-> IF chan[h] = transport.owner /\ pc[h] = "forward"
                                 THEN [over[h] EXCEPT !["chan"] = TRUE] ELSE over[h]]
  /\ UNCHANGED <<pc, chan, written, taken, got, short>>

-----------------------------------------------------------------------------
\* handle(): open_channel on the client's present transport.
Open(h) ==
  /\ pc[h] = "new"
  /\ \/ /\ transport.state = "up"
        /\ chan' = [chan EXCEPT ![h] = transport.owner]
        /\ Goto(h, "forward")
     \/ Goto(h, "failed") /\ UNCHANGED chan          \* also when the remote refuses
     \/ /\ transport.state = "up"
        /\ Goto(h, "closed") /\ UNCHANGED chan       \* chan is None: return
  /\ UNCHANGED <<transport, sides, lost>>

\* After sleep(1), connect_server(): the client's transport is a new one ...
Reconnect(h) ==
  /\ pc[h] = "failed"
  /\ transport' = [owner |-> h, state |-> "new"]
  /\ Goto(h, "connecting")
  /\ UNCHANGED <<chan, sides, lost>>

\* connect() may raise before it has a transport; the error is logged.
ConnectFails(h) ==
  /\ pc[h] = "failed" /\ lost < Losses
  /\ lost' = lost + 1
  /\ Goto(h, "raise")
  /\ UNCHANGED <<transport, chan, sides>>

\* A plausible bug: reconnecting only the transport that one has replaced.
ReconnectedOwn(h) ==
  /\ pc[h] = "connecting"
  /\ transport.owner # h => transport.state # "new"
  /\ transport' = IF transport.owner = h THEN [transport EXCEPT !.state = "down"] ELSE transport
  /\ Goto(h, "raise")
  /\ UNCHANGED <<chan, sides, lost>>

\* ... which works once connect() is through with it, the thread's own or the
\* one that another thread has put there since.
Reconnected(h) ==
  /\ pc[h] = "connecting"
  /\ transport' = IF transport.state = "new" THEN [transport EXCEPT !.state = "up"] ELSE transport
  /\ Goto(h, "raise")
  /\ UNCHANGED <<chan, sides, lost>>

\* `if chan is None` after a failed open: chan was never assigned.  The handler
\* ends with UnboundLocalError, and the server closes its request.
Unbound(h) ==
  /\ pc[h] = "raise"
  /\ Goto(h, "raised")
  /\ UNCHANGED <<transport, chan, sides, lost>>

\* What select() finds readable: data, or the end behind the last data.
Readable(h, s) == taken[h][s] < written[h][s] \/ over[h][s]

\* A plausible bug: a chunk that does not fill the buffer is taken for the last.
EndsAtShortChunk(h, s, n) == n < RecvSize
\* len(data) == 0
Ends(h, s, n) == n = 0

\* A plausible bug: what is sent is the beginning of the data once more.
SentFromStart(from, k) == [i \in 1..k |-> i]
\* The bytes of a chunk that begins behind `from`.
Sent(from, k) == [i \in 1..k |-> from + i]

\* recv(1024) on one side and send() of what it gave on the other.
Forward(h, s) ==
  /\ pc[h] = "forward" /\ Readable(h, s)
  /\ LET ready == written[h][s] - taken[h][s]
         n     == IF ready < RecvSize THEN ready ELSE RecvSize
     IN  IF Ends(h, s, n)
         THEN Goto(h, "break") /\ UNCHANGED <<taken, got, short>>
         ELSE \E k \in (IF ShortSends THEN 1..n ELSE {n}) :
                /\ taken' = [taken EXCEPT ![h][s] = @ + n]
                /\ got' = [got EXCEPT ![h][s] = @ \o Sent(taken[h][s], k)]
                /\ short' = [short EXCEPT ![h][s] = @ \/ k < n]
                /\ UNCHANGED pc
  /\ UNCHANGED <<transport, chan, written, over, lost>>

\* send() to a side that has closed may raise: the handler ends at once.
SendFails(h, s) ==
  /\ pc[h] = "forward" /\ taken[h][s] < written[h][s] /\ over[h][Other(s)]
  /\ Goto(h, "raised")
  /\ UNCHANGED <<transport, chan, sides, lost>>

\* chan.close() and request.close()
Close(h) ==
  /\ pc[h] = "break"
  /\ Goto(h, "closed")
  /\ UNCHANGED <<transport, chan, sides, lost>>

Step(h) ==
  \/ Open(h) \/ Reconnect(h) \/ Reconnected(h) \/ Unbound(h) \/ Close(h)
  \/ \E s \in Sides : Forward(h, s)

Next ==
  \/ Lose
  \/ \E h \in Handlers : Step(h) \/ ConnectFails(h) \/ \E s \in Sides : Write(h, s) \/ End(h, s) \/ SendFails(h, s)

Spec == Init /\ [][Next]_vars
Fairness == \A h \in Handlers : WF_vars(Step(h))

-----------------------------------------------------------------------------
\* The types of the tunnel's state.
TypeOK ==
  /\ transport.state \in {"up", "new", "down"} /\ transport.owner \in Handlers \cup {None}
  /\ pc \in [Handlers -> {"new", "failed", "connecting", "raise", "raised", "forward", "break", "closed"}]
  /\ \A h \in Handlers, s \in Sides :
       /\ taken[h][s] <= written[h][s] /\ written[h][s] \in 0..Bytes[h]
       /\ Len(got[h][s]) <= taken[h][s]

\* What arrives is what was written, in order and without gaps, up to what the
\* handler has received; only a send that took a part of the data breaks this.
Faithful ==
  \A h \in Handlers, s \in Sides :
    ~short[h][s] => got[h][s] = [i \in 1..taken[h][s] |-> i]

\* A tunnel that is taken down drops data of a side only because the other side
\* has closed (also by only closing its direction of the connection): the data
\* in front of a side's own end are forwarded first.
DropsOnlyAfterEnd ==
  \A h \in Handlers, s \in Sides :
    pc[h] \in {"break", "closed"} /\ taken[h][s] < written[h][s] => over[h][Other(s)]
=============================================================================
