----------------------------- MODULE HdfsClient -----------------------------
(***************************************************************************)
(* The HDFS client: connect() of HdfsClient/HdfsClient.py, which tries the *)
(* hosts one by one, and the calls of the generated Client over the        *)
(* connection it returns, answered by the generated Processor.  A call     *)
(* writes its message to the transport's buffer, flushes it and waits for  *)
(* the next message of the server.  Every message carries the sequence     *)
(* number 0, and neither the number nor the method's name is looked at     *)
(* when an answer is read.                                                 *)
(***************************************************************************)
EXTENDS ThriftMessages, Integers, FiniteSets

CONSTANTS
  Hosts,          \* the servers of the list given to connect()
  MaxCalls,       \* calls made over one connection
  Served          \* Served[h]: the methods in the _processMap of host h

-----------------------------------------------------------------------------
(* The methods: the class of their arguments and that of their result.     *)

Method(name, args, result) == [name |-> name, args |-> args, result |-> result]

setInactivityTimeoutPeriod ==
  Method("setInactivityTimeoutPeriod", setInactivityTimeoutPeriod_args, setInactivityTimeoutPeriod_result)
shutdown       == Method("shutdown", shutdown_args, shutdown_result)
create         == Method("create", create_args, create_result)
createFile     == Method("createFile", createFile_args, createFile_result)
open           == Method("open", open_args, open_result)
append         == Method("append", append_args, append_result)
write          == Method("write", write_args, write_result)
read           == Method("read", read_args, read_result)
close          == Method("close", close_args, close_result)
rm             == Method("rm", rm_args, rm_result)
rename         == Method("rename", rename_args, rename_result)
mkdirs         == Method("mkdirs", mkdirs_args, mkdirs_result)
exists         == Method("exists", exists_args, exists_result)
stat           == Method("stat", stat_args, stat_result)
listStatus     == Method("listStatus", listStatus_args, listStatus_result)
chmod          == Method("chmod", chmod_args, chmod_result)
chown          == Method("chown", chown_args, chown_result)
setReplication == Method("setReplication", setReplication_args, setReplication_result)
getFileBlockLocations ==
  Method("getFileBlockLocations", getFileBlockLocations_args, getFileBlockLocations_result)

Methods ==
  {setInactivityTimeoutPeriod, shutdown, create, createFile, open, append, write, read, close, rm,
   rename, mkdirs, exists, stat, listStatus, chmod, chown, setReplication, getFileBlockLocations}

Has(m, n) == n \in Names(m.result)

\* Objects a program passes as arguments: complete, with one field left at
\* None, or with one value of another type than its field.
Arguments(m) ==
  LET full == [n \in Names(m.args) |-> Sample(FieldNamed(m.args, n))]
  IN  {Object(m.args, full)}
        \cup {Object(m.args, [full EXCEPT ![n] = None]) : n \in Names(m.args)}
        \cup {Object(m.args, [full EXCEPT ![n] = Scalar("DOUBLE", <<n>>)]) : n \in Names(m.args)}

\* Python's None is no host, no call, no message and no result of one.
ASSUME HdfsClientAssumption ==
  /\ IsFiniteSet(Hosts) /\ MaxCalls \in Nat \ {0}
  /\ None \notin Hosts
  /\ \A m \in Methods :
       /\ \A i \in 1..MaxCalls : None # [id |-> i, method |-> m]
       /\ \A a \in Arguments(m) : None # ToWire(a)
       /\ \A n \in Names(m.result) : None # Sample(FieldNamed(m.result, n))

-----------------------------------------------------------------------------
VARIABLES
  left,       \* hosts not tried yet, in the order of the shuffle
  good,       \* hosts that are up and answer the first call, until one is found
  phase,      \* "dialing", "connected", "none" (all hosts failed), "closed"
  conn,       \* the host of the open transport, or None
  call,       \* the call waited for: [id, method], or None
  sent,       \* calls flushed to this connection so far
  abandoned,  \* calls whose wait was broken off (a timeout or an interrupt)
  torn,       \* the write buffer holds the beginning of a message
  toServer,   \* requests on their way: [id, name, args, body]
  toClient,   \* answers on their way: [id, mtype, body, meant]
  alive,      \* the server has its end of the connection open
  last        \* how the last call ended: [id, method, end, of, meant], where the
              \* answer was to call `of` and `meant` is how that was to end

vars == <<left, good, phase, conn, call, sent, abandoned, torn, toServer, toClient, alive, last>>
wire == <<toServer, toClient, alive>>

Ended(kind, value) == [kind |-> kind, value |-> value]

Init ==
  /\ left \in {s \in [1..Cardinality(Hosts) -> Hosts] : IsInjective(s)}
  /\ good \in SUBSET {h \in Hosts : setInactivityTimeoutPeriod.name \in Served[h]}
  /\ phase = "dialing"
  /\ conn = None
  /\ call = None
  /\ sent = 0 /\ abandoned = 0 /\ torn = FALSE
  /\ toServer = <<>> /\ toClient = <<>> /\ alive = FALSE
  /\ last = None

-----------------------------------------------------------------------------
(* send_X(): the message begins, the arguments are written, the buffer is  *)
(* flushed.  An argument that cannot be written leaves what was written so *)
(* far in the buffer, and the next flush sends it first: what the server   *)
(* gets is no message, which is a body of None here.                       *)

Request(m, a, id) ==
  [id |-> id, name |-> m.name, args |-> a, body |-> IF torn THEN None ELSE ToWire(a)]

Raise(m, kind) ==
  last' = [id |-> sent, method |-> m, end |-> Ended(kind, None), of |-> sent, meant |-> Ended(kind, None)]

Send(m, a) ==
  /\ phase = "connected" /\ call = None /\ sent < MaxCalls
  /\ \/ /\ ~Writable(a)
        /\ torn' = TRUE
        /\ Raise(m, "unwritable")
        /\ UNCHANGED <<call, sent, wire>>
     \/ /\ Writable(a) /\ ~alive
        /\ torn' = FALSE
        /\ Raise(m, "transport")
        /\ UNCHANGED <<call, sent, wire>>
     \/ /\ Writable(a) /\ alive
        /\ torn' = FALSE
        /\ sent' = sent + 1
        /\ call' = [id |-> sent', method |-> m]
        /\ toServer' = Append(toServer, Request(m, a, sent'))
        /\ last' = None
        /\ UNCHANGED <<toClient, alive>>
  /\ UNCHANGED <<left, good, phase, conn, abandoned>>

-----------------------------------------------------------------------------
(* connect() and _connect(): hosts are tried in turn until one accepts the *)
(* connection and answers setInactivityTimeoutPeriod(60*60).               *)

Dial ==
  /\ phase = "dialing" /\ conn = None /\ left # <<>>
  /\ left' = Tail(left)
  /\ \/ /\ Head(left) \notin good                   \* transport.open() raises
        /\ UNCHANGED <<conn, call, sent, wire>>
     \/ LET a == Object(setInactivityTimeoutPeriod.args,
                        [n \in {"periodInSeconds"} |-> Sample(setInactivityTimeoutPeriod.args[1])])
        IN  /\ conn' = Head(left)
            /\ sent' = 1
            /\ call' = [id |-> 1, method |-> setInactivityTimeoutPeriod]
            /\ toServer' = <<Request(setInactivityTimeoutPeriod, a, 1)>>
            /\ toClient' = <<>>
            /\ alive' = TRUE
  /\ UNCHANGED <<good, phase, abandoned, torn, last>>

(* A plausible bug: the first host that fails ends the loop. *)
GiveUpAtOnce ==
  /\ phase = "dialing" /\ conn = None /\ Len(left) < Cardinality(Hosts)
  /\ phase' = "none"
  /\ UNCHANGED <<left, good, conn, call, sent, abandoned, torn, wire, last>>

GiveUp ==
  /\ phase = "dialing" /\ conn = None /\ left = <<>>
  /\ phase' = "none"
  /\ UNCHANGED <<left, good, conn, call, sent, abandoned, torn, wire, last>>

Close ==
  /\ phase = "connected" /\ call = None
  /\ phase' = "closed"
  /\ UNCHANGED <<left, good, conn, call, sent, abandoned, torn, wire, last>>

-----------------------------------------------------------------------------
(* Processor.process() and process_X(), and the loop of the server around  *)
(* them, which drops the connection when they raise.                       *)

Reply(m, set) == Object(m.result, [n \in Names(m.result) |-> IF n \in DOMAIN set THEN set[n] ELSE None])

\* What the handler does for a call of m: the result it leads to, and how the
\* client's call is meant to end.
HandlerEnds(m) ==
  IF Has(m, "success")
  THEN LET v == Sample(FieldNamed(m.result, "success"))
       IN  { [result |-> Reply(m, [success |-> v]), meant |-> Ended("value", v)],
             [result |-> Reply(m, <<>>),            meant |-> Ended("missing", None)] }
  ELSE { [result |-> Reply(m, <<>>), meant |-> Ended("void", None)] }

\* `except ThriftIOException, ouch`, in the methods that declare it.
(* A plausible bug: the exception is caught and not put into the result. *)
HandlerThrowsVoid(m) ==
  LET e == Filled(ThriftIOException, "ouch")
  IN  IF Has(m, "ouch") THEN {[result |-> Reply(m, <<>>), meant |-> Ended("ouch", e)]} ELSE {}

HandlerThrows(m) ==
  LET e == Filled(ThriftIOException, "ouch")
  IN  IF Has(m, "ouch") THEN {[result |-> Reply(m, [ouch |-> e]), meant |-> Ended("ouch", e)]} ELSE {}

Answer(id, mtype, body, meant) == [id |-> id, mtype |-> mtype, body |-> body, meant |-> meant]

(* A plausible bug: the same request is read again. *)
ProcessAgain ==
  /\ alive /\ toServer # <<>> /\ toServer[1].body # None
  /\ \E m \in Methods : m.name = toServer[1].name /\
       \E r \in HandlerEnds(m) :
         toClient' = Append(toClient, Answer(toServer[1].id, "REPLY", ToWire(r.result), r.meant))
  /\ UNCHANGED <<left, good, phase, conn, call, sent, abandoned, torn, alive, last, toServer>>

Process ==
  /\ alive /\ toServer # <<>> /\ toServer[1].body # None
  /\ LET msg == toServer[1]
     IN  \/ /\ msg.name \notin Served[conn]
            /\ toClient' = Append(toClient, Answer(msg.id, "EXCEPTION", <<>>, Ended("unknown", None)))
         \/ /\ msg.name \in Served[conn]
            /\ \E m \in Methods : m.name = msg.name /\
                 \E r \in HandlerEnds(m) \cup HandlerThrows(m) :
                   toClient' = Append(toClient, Answer(msg.id, "REPLY", ToWire(r.result), r.meant))
  /\ toServer' = Tail(toServer)
  /\ UNCHANGED <<left, good, phase, conn, call, sent, abandoned, torn, alive, last>>

\* The handler raises something else, or the connection breaks; answers on their way may be lost with it.
Drop ==
  /\ alive
  /\ phase = "dialing" => conn \notin good
  /\ alive' = FALSE
  /\ toServer' = <<>>
  /\ toClient' \in {toClient, <<>>}
  /\ UNCHANGED <<left, good, phase, conn, call, sent, abandoned, torn, last>>

\* What is no message is read as one: the server fails on it, or waits for
\* the rest of it and nobody answers any more (DropGarbled is not fair).
DropGarbled ==
  /\ alive /\ toServer # <<>> /\ toServer[1].body = None
  /\ alive' = FALSE
  /\ toServer' = <<>>
  /\ UNCHANGED <<left, good, phase, conn, call, sent, abandoned, torn, toClient, last>>

-----------------------------------------------------------------------------
(* recv_X(): the next message is taken for the answer, whichever call it   *)
(* answers, and read as a result of X.                                     *)

ReadAnswer(m, msg) ==
  LET d == FromWire(m.result, msg.body).d
      Given(n) == Has(m, n) /\ d[n] # None
  IN  CASE msg.mtype = "EXCEPTION" -> Ended("unknown", None)
        [] msg.mtype = "REPLY" /\ Given("success") -> Ended("value", d["success"])
        [] msg.mtype = "REPLY" /\ ~Given("success") /\ Given("ouch") -> Ended("ouch", d["ouch"])
        [] OTHER -> IF Has(m, "success") THEN Ended("missing", None) ELSE Ended("void", None)

\* What the end of a call means to whoever made it: connect() goes on with
\* this transport or with the next host, others return or raise.
Finish(end, of, meant) ==
  /\ call' = None
  /\ IF phase = "dialing"
     THEN /\ last' = None
          /\ IF end.kind = "void"
             THEN phase' = "connected" /\ left' = <<>> /\ good' = {} /\ UNCHANGED <<conn, sent>>
             ELSE conn' = None /\ sent' = 0 /\ UNCHANGED <<phase, left, good>>
     ELSE /\ last' = [id |-> call.id, method |-> call.method, end |-> end, of |-> of, meant |-> meant]
          /\ UNCHANGED <<phase, left, good, conn, sent>>
  /\ UNCHANGED <<abandoned, torn>>

Recv ==
  /\ call # None /\ toClient # <<>>
  /\ LET msg == toClient[1] IN Finish(ReadAnswer(call.method, msg), msg.id, msg.meant)
  /\ IF conn' = None THEN toClient' = <<>> /\ toServer' = <<>> /\ alive' = FALSE
                     ELSE toClient' = Tail(toClient) /\ UNCHANGED <<toServer, alive>>

(* A plausible bug: the end of the connection is noticed by connect() only. *)
RecvEOFDialing ==
  /\ phase = "dialing" /\ call # None /\ toClient = <<>> /\ ~alive
  /\ Finish(Ended("transport", None), call.id, Ended("transport", None))
  /\ UNCHANGED wire

RecvEOF ==
  /\ call # None /\ toClient = <<>> /\ ~alive
  /\ Finish(Ended("transport", None), call.id, Ended("transport", None))
  /\ UNCHANGED wire

\* A timeout of the socket or an interrupt ends the wait; the connection
\* stays as it is, and so does the answer that comes later.
Abandon ==
  /\ phase = "connected" /\ call # None
  /\ Raise(call.method, "abandoned")
  /\ call' = None
  /\ abandoned' = abandoned + 1
  /\ UNCHANGED <<left, good, phase, conn, sent, torn, wire>>

Next ==
  \/ Dial \/ GiveUp \/ Close
  \/ \E m \in Methods : \E a \in Arguments(m) : Send(m, a)
  \/ Process \/ Drop \/ DropGarbled
  \/ Recv \/ RecvEOF \/ Abandon

Spec == Init /\ [][Next]_vars

LiveSpec ==
  /\ Spec
  /\ WF_vars(Dial) /\ WF_vars(GiveUp)
  /\ WF_vars(Process)
  /\ WF_vars(Recv) /\ WF_vars(RecvEOF)

-----------------------------------------------------------------------------
\* The types of the client's state.
TypeOK ==
  /\ phase \in {"dialing", "connected", "none", "closed"}
  /\ conn \in Hosts \cup {None}
  /\ sent \in 0..MaxCalls /\ abandoned \in 0..MaxCalls
  /\ torn \in BOOLEAN /\ alive \in BOOLEAN
  /\ call # None => call.method \in Methods /\ call.id \in 1..sent
  /\ \A i \in DOMAIN toServer : toServer[i].id \in 1..sent
  /\ \A i \in DOMAIN toClient : toClient[i].id \in 1..sent
  /\ Len(toServer) + Len(toClient) <= MaxCalls

Answered == last # None /\ last.end.kind \in {"value", "void", "ouch", "missing", "unknown"}

\* An answer is told from no other by its number or its name, so a connection
\* whose calls were all waited for gives each call its own answer and the
\* handler's value, exception or lack of both with it; after n calls that were
\* not waited for every call gets the answer to the call n before it.
AnswersLag ==
  Answered => /\ last.of = last.id - abandoned
              /\ abandoned = 0 => last.end = last.meant

\* Whichever answer a call gets, what it returns has the wire type of its own
\* success field: an answer of another type is read as no result at all.
ValuesAreTyped ==
  Answered /\ last.end.kind = "value"
    => last.end.value.type = FieldNamed(last.method.result, "success").type

\* The handler sees the arguments of the call: each field, and only those set,
\* arrives under its own name, negative ids included.
ArgumentsArrive ==
  \A i \in DOMAIN toServer :
    toServer[i].body # None =>
      \A m \in Methods : m.name = toServer[i].name
        => FromWire(m.args, toServer[i].body) = toServer[i].args

\* What a call sends and gets: the client's state is of its type, the handler
\* sees the arguments, and the answer is the one that AnswersLag says.
CallsAreAnswered == TypeOK /\ ArgumentsArrive /\ AnswersLag /\ ValuesAreTyped

\* connect() returns (None, None) only if no host would have answered.
FailsOnlyIfAllFail == phase = "none" => good = {}

\* Every call ends, with an answer or by the end of the connection, unless the
\* bytes of an earlier call that could not be written are in front of it.
CallsEnd ==
  (call # None /\ \A i \in DOMAIN toServer : toServer[i].body # None) ~> (call = None)
=============================================================================
