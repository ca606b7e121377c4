------------------------------ MODULE MCNetwork ------------------------------
(***************************************************************************)
(* Model checking of the parts around a connection: the ssh tunnel,        *)
(* downloads, the rate limits and the response of the keep-alive handler.  *)
(* A behaviour is one of `part`; the parts share nothing, and what belongs *)
(* to the others stays at 0.                                               *)
(***************************************************************************)
EXTENDS Integers, Sequences, TLC

CONSTANTS
  Handlers, Bytes, RecvSize, Losses, ShortSends, h1, h2,
  MaxRetry, Hold, MaxDownloads,
  Settings, Horizon, MaxItems, BackSteps, ForwardSteps,
  MaxBody, MaxCalls, RBufSize

VARIABLES
  part,
  transport, pc, chan, written, over, taken, got, short, lost,
  opts, where, retry, data, error, pages, dns, asked, idle, downloads,
  limit, waiting, now, ahead, shift, last_check, allowance, item, took, passed,
  dropped,
  body, raw, rbuf, given, calls, total, latest

tunnelVars == <<transport, pc, chan, written, over, taken, got, short, lost>>
downloadVars == <<opts, where, retry, data, error, pages, dns, asked, idle,
  downloads>>
rateVars == <<limit, waiting, now, ahead, shift, last_check, allowance, item,
  took, passed, dropped>>
responseVars == <<body, raw, rbuf, given, calls, total, latest>>
vars == <<part, tunnelVars, downloadVars, rateVars, responseVars>>

Tunnel == INSTANCE SshForward
Page == INSTANCE Download
Rate == INSTANCE RateLimit
Response == INSTANCE ResponseBuffer

ASSUME NetworkAssumption ==
  /\ Tunnel!SshForwardAssumption
  /\ Page!DownloadAssumption
  /\ Rate!RateLimitAssumption
  /\ Response!ResponseBufferAssumption

TunnelOff ==
  /\ transport = 0 /\ pc = 0 /\ chan = 0 /\ written = 0 /\ over = 0
  /\ taken = 0 /\ got = 0 /\ short = 0 /\ lost = 0
PageOff ==
  /\ opts = 0 /\ where = 0 /\ retry = 0 /\ data = 0 /\ error = 0 /\ pages = 0
  /\ dns = 0 /\ asked = 0 /\ idle = 0 /\ downloads = 0
RateOff ==
  /\ limit = 0 /\ waiting = 0 /\ now = 0 /\ ahead = 0 /\ shift = 0 /\ last_check = 0
  /\ allowance = 0 /\ item = 0 /\ took = 0 /\ passed = 0 /\ dropped = 0
ResponseOff ==
  /\ body = 0 /\ raw = 0 /\ rbuf = 0 /\ given = 0 /\ calls = 0 /\ total = 0
  /\ latest = 0

Init ==
  \/ part = "tunnel" /\ Tunnel!Init /\ PageOff /\ RateOff /\ ResponseOff
  \/ part = "download" /\ Page!Init /\ TunnelOff /\ RateOff /\ ResponseOff
  \/ part = "rate" /\ Rate!Init /\ TunnelOff /\ PageOff /\ ResponseOff
  \/ part = "response" /\ Response!Init /\ TunnelOff /\ PageOff /\ RateOff

TunnelOnly == part = "tunnel" /\ UNCHANGED <<part, downloadVars, rateVars, responseVars>>
PageOnly == part = "download" /\ UNCHANGED <<part, tunnelVars, rateVars, responseVars>>
RateOnly == part = "rate" /\ UNCHANGED <<part, tunnelVars, downloadVars, responseVars>>
ResponseOnly == part = "response" /\ UNCHANGED <<part, tunnelVars, downloadVars, rateVars>>

Next ==
  \/ TunnelOnly /\ Tunnel!Next
  \/ PageOnly /\ Page!Next
  \/ RateOnly /\ Rate!Next
  \/ ResponseOnly /\ Response!Next

\* The fairness of the parts: the threads of the tunnel and the process that
\* downloads go on.
Fairness ==
  /\ \A h \in Handlers : WF_vars(TunnelOnly /\ Tunnel!Step(h))
  /\ WF_vars(PageOnly /\ Page!Step)

LiveSpec == Init /\ [][Next]_vars /\ Fairness

-----------------------------------------------------------------------------
\* Bytes of a tunnel arrive in order and without gaps, and are dropped only
\* after the side they are for has closed (handle in sshforward.py).
TunnelIsFaithful ==
  part = "tunnel" => Tunnel!TypeOK /\ Tunnel!Faithful /\ Tunnel!DropsOnlyAfterEnd

\* download() of urlutils.py returns the last page that an attempt read, and
\* raises and returns as its arguments ask; a name that could not be resolved
\* is asked for again, but once an attempt, whenever the resolver's cache forgets.
PageIsAsAsked ==
  part = "download" =>
    Page!TypeOK /\ Page!ReturnsLastPage /\ Page!EndsAsAsked /\ Page!HeldIsRetried

\* Whatever the times at which items come, ratelimit.py lets no more of them
\* through in a stretch of time than its rate and one burst, drops none before
\* the rate is used up, and has none wait longer than one takes at its rate; with
\* what it is worth that the clock is set forward or back in the meantime.
RateIsKept ==
  part = "rate" =>
    Rate!TypeOK /\ Rate!BurstBound /\ Rate!DropsOnlyWhenFull /\ Rate!WaitIsBounded

\* read, readline and readlines of the response, in any order, give the body
\* once and in order, and each as much of it as it says (keepalive.py).
BodyIsGiven ==
  part = "response" =>
    /\ Response!TypeOK /\ Response!NothingLost
    /\ Response!ReadIsFull /\ Response!LineIsLine /\ Response!LinesAreWhole

\* After an open that fails the ssh client that the threads share is connected
\* again, whatever the other threads do with it in the meantime, unless the
\* transport breaks again; and every download ends, whatever the server does.
RecoversAndEnds ==
  /\ \A h \in Handlers :
       (part = "tunnel" /\ pc[h] = "failed")
         ~> (part = "tunnel" => (transport.state = "up" \/ lost = Losses))
  /\ []<>(part = "download" => Page!Over)

-----------------------------------------------------------------------------
\* One tunnel with room for a chunk that is sent in two parts, one without.
MCBytes == h1 :> 2 @@ h2 :> 1

\* Rates above and below one a second, in floats and in integers.
MCSettings ==
  LET Limit(tenths, per, ints) == [tenths |-> tenths, per |-> per, ints |-> ints]
  IN  {Limit(20, 1, TRUE), Limit(20, 4, FALSE), Limit(20, 4, TRUE), Limit(15, 2, FALSE),
       Limit(30, 2, TRUE), Limit(5, 1, FALSE)}
=============================================================================
