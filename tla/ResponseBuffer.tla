--------------------------- MODULE ResponseBuffer ---------------------------
(***************************************************************************)
(* Reading a response of the keep-alive handler: read, readline and        *)
(* readlines of HTTPResponse (helpers/keepalive.py) take what they need    *)
(* from the buffer that readline fills, and from httplib's own read().     *)
(***************************************************************************)
EXTENDS Integers, Sequences, SequencesExt

CONSTANTS
  MaxBody,       \* length of the bodies
  MaxCalls,      \* calls that the reader makes
  RBufSize       \* _rbufsize

\* What the constants are; the module that gives them values assumes it.
ResponseBufferAssumption ==
  MaxBody \in Nat /\ MaxCalls \in Nat /\ RBufSize \in Nat \ {0}

VARIABLES
  body,          \* the body, a sequence of bytes: line feeds and others
  raw,           \* what _raw_read has not given yet
  rbuf,          \* _rbuf
  given,         \* everything that the calls have returned, in their order
  calls,         \* calls so far
  total,         \* of readlines: the bytes of the lines so far, or -1 between calls
  latest           \* the last call, its argument, and what it returned

vars == <<body, raw, rbuf, given, calls, total, latest>>

LF == "n"
All == -1         \* amt=None, limit=-1
Idle == -1

Start(s, n) == SubSeq(s, 1, n)
After(s, n) == SubSeq(s, n + 1, Len(s))
Least(a, b) == IF a < b THEN a ELSE b

\* data.find('\n') + 1, or 0
Find(s) == IF LF \in ToSet(s) THEN CHOOSE i \in DOMAIN s : s[i] = LF /\ LF \notin ToSet(Start(s, i - 1)) ELSE 0

Init ==
  /\ body \in UNION {[1..n -> {LF, "x"}] : n \in 0..MaxBody}
  /\ raw = body /\ rbuf = <<>> /\ given = <<>>
  /\ calls = 0 /\ total = Idle
  /\ latest = [call |-> "none", arg |-> All, data |-> <<>>]

\* `new` goes to the caller, after what the call has `got` already.
Return(call, arg, got, new) ==
  /\ given' = given \o new
  /\ latest' = [call |-> call, arg |-> arg, data |-> got \o new]

Calls == total = Idle /\ calls < MaxCalls /\ calls' = calls + 1 /\ UNCHANGED <<body, total>>

\* A plausible bug: the buffer is not counted in what is asked of _raw_read.
ReadUncounted(amt) ==
  /\ Calls
  /\ LET n == IF amt = All THEN Len(raw) ELSE Least(amt, Len(raw))
     IN  Return("read", amt, <<>>, rbuf \o Start(raw, n)) /\ raw' = After(raw, n) /\ rbuf' = <<>>

\* A plausible bug: a read that takes all of the buffer does not empty it.
ReadKeepsBuffer(amt) ==
  /\ Calls
  /\ IF rbuf # <<>> /\ amt # All /\ amt <= Len(rbuf)
     THEN Return("read", amt, <<>>, Start(rbuf, amt)) /\ rbuf' = After(rbuf, amt) /\ UNCHANGED raw
     ELSE LET n == IF amt = All THEN Len(raw) ELSE Least(amt - Len(rbuf), Len(raw))
          IN  Return("read", amt, <<>>, rbuf \o Start(raw, n)) /\ raw' = After(raw, n) /\ UNCHANGED rbuf

\* read(amt): the buffer first, the rest from _raw_read.
Read(amt) ==
  /\ Calls
  /\ IF rbuf # <<>> /\ amt # All /\ amt <= Len(rbuf)
     THEN Return("read", amt, <<>>, Start(rbuf, amt)) /\ rbuf' = After(rbuf, amt) /\ UNCHANGED raw
     ELSE LET n == IF amt = All THEN Len(raw) ELSE Least(amt - Len(rbuf), Len(raw))
          IN  Return("read", amt, <<>>, rbuf \o Start(raw, n)) /\ raw' = After(raw, n) /\ rbuf' = <<>>

\* The buffer after the loop of readline: filled, RBufSize bytes at a time,
\* until it has a line feed or `limit` bytes, or the body is over.
Enough(buf, limit) == Find(buf) > 0 \/ (0 < limit /\ limit <= Len(buf))

Reads(limit) ==
  LET Buf(k) == rbuf \o Start(raw, Least(k * RBufSize, Len(raw)))
      last_k == (Len(raw) + RBufSize - 1) \div RBufSize
      enough == {k \in 0..last_k : Enough(Buf(k), limit)}
  IN  IF enough = {} THEN Len(raw)
      ELSE Least((CHOOSE k \in enough : \A j \in enough : k <= j) * RBufSize, Len(raw))

\* A plausible bug: the line feed stays in the buffer.
LineBeforeFeed(buf, limit) ==
  LET i == IF Find(buf) > 0 THEN Find(buf) - 1 ELSE Len(buf)
  IN  IF 0 <= limit /\ limit < Len(buf) THEN limit ELSE i

\* How much of it is the line: with a limit, up to it, line feeds or not.
Line(buf, limit) ==
  LET i == IF Find(buf) > 0 THEN Find(buf) ELSE Len(buf)
  IN  IF 0 <= limit /\ limit < Len(buf) THEN limit ELSE i

TakeLine(limit) ==
  LET n   == Reads(limit)
      buf == rbuf \o Start(raw, n)
  IN  [data |-> Start(buf, Line(buf, limit)), rest |-> After(buf, Line(buf, limit)), raw |-> After(raw, n)]

Readline(limit) ==
  /\ Calls
  /\ LET t == TakeLine(limit)
     IN  Return("readline", limit, <<>>, t.data) /\ rbuf' = t.rest /\ raw' = t.raw

\* readlines(sizehint) begins; the lines so far are latest.data.
Readlines(sizehint) ==
  /\ total = Idle /\ calls < MaxCalls
  /\ calls' = calls + 1 /\ total' = 0
  /\ latest' = [call |-> "readlines", arg |-> sizehint, data |-> <<>>]
  /\ UNCHANGED <<body, raw, rbuf, given>>

\* A plausible bug: total counts lines and not their bytes.
NextLineCounted ==
  /\ total # Idle
  /\ LET t == TakeLine(All)
     IN  /\ rbuf' = t.rest /\ raw' = t.raw
         /\ Return("readlines", latest.arg, latest.data, t.data)
         /\ total' = IF t.data = <<>> \/ (latest.arg > 0 /\ total + 1 >= latest.arg) THEN Idle ELSE total + 1
  /\ UNCHANGED <<body, calls>>

\* A round of its loop: no line ends it, and so do sizehint bytes (0: no hint).
NextLine ==
  /\ total # Idle
  /\ LET t    == TakeLine(All)
         hint == latest.arg
         sum  == total + Len(t.data)
     IN  /\ rbuf' = t.rest /\ raw' = t.raw
         /\ Return("readlines", hint, latest.data, t.data)
         /\ total' = IF t.data = <<>> \/ (hint > 0 /\ sum >= hint) THEN Idle ELSE sum
  /\ UNCHANGED <<body, calls>>

Next ==
  \/ \E amt \in {All} \cup 0..MaxBody : Read(amt)
  \/ \E limit \in {All} \cup 0..MaxBody : Readline(limit)
  \/ \E sizehint \in 0..MaxBody : Readlines(sizehint)
  \/ NextLine

Spec == Init /\ [][Next]_vars

TypeOK ==
  /\ body \in Seq({LF, "x"}) /\ Len(body) <= MaxBody
  /\ {raw, rbuf, given, latest.data} \subseteq Seq({LF, "x"})
  /\ calls \in 0..MaxCalls /\ total \in -1..MaxBody
  /\ latest.call \in {"none", "read", "readline", "readlines"} /\ latest.arg \in -1..MaxBody

\* However read, readline and readlines are mixed, the buffer neither loses,
\* repeats nor reorders a byte: what the calls returned, what is buffered and
\* what is left are the body.
NothingLost == given \o rbuf \o raw = body

\* read(amt) returns amt bytes, less only when nothing is left anywhere;
\* read() leaves nothing.
ReadIsFull ==
  latest.call = "read" =>
    \/ latest.arg = Len(latest.data)
    \/ (latest.arg = All \/ latest.arg > Len(latest.data)) /\ rbuf = <<>> /\ raw = <<>>

\* A readline without a limit returns one line: its only line feed is its
\* last byte, and without one the response is over; with a limit it returns
\* no more than that.
LineIsLine ==
  latest.call = "readline" =>
    IF latest.arg = All
    THEN /\ LF \notin ToSet(Start(latest.data, Len(latest.data) - 1))
         /\ \/ latest.data # <<>> /\ Last(latest.data) = LF
            \/ rbuf = <<>> /\ raw = <<>>
    ELSE Len(latest.data) <= latest.arg

\* readlines(sizehint) stops between two lines, at the first one where it has
\* as many bytes as the hint asks for.
LinesAreWhole ==
  (latest.call = "readlines" /\ total = Idle) =>
    LET feeds == {i \in DOMAIN latest.data : latest.data[i] = LF}
    IN  IF latest.arg > 0 /\ \E i \in feeds : i >= latest.arg
        THEN Last(latest.data) = LF /\ \A i \in feeds : i >= latest.arg => i = Len(latest.data)
        ELSE rbuf = <<>> /\ raw = <<>>
=============================================================================
