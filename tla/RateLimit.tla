----------------------------- MODULE RateLimit -----------------------------
(***************************************************************************)
(* droplimit() and waitlimit() of helpers/ratelimit.py: an allowance grows *)
(* by rate / per a second up to rate, and an item takes 1.0 of it or is    *)
(* dropped (droplimit) or waited for (waitlimit).                          *)
(*                                                                         *)
(* The arithmetic is exact: a rate is given in tenths, and the allowance   *)
(* in units of 1 / (10 * per).  Time is in ticks of a second, as the clock *)
(* (time.time()) shows it, which may be set back and set forward.  With    *)
(* integers for rate and per Python divides them as integers.              *)
(***************************************************************************)
EXTENDS Integers, Sequences, FiniteSets

CONSTANTS
  Settings,      \* the arguments tried: [tenths, per, ints]
  Horizon,       \* seconds that the clock counts up
  MaxItems,      \* items that come, and most that come at one tick
  BackSteps,     \* times the clock is set back
  ForwardSteps   \* times it is set forward

\* What the constants are; the module that gives them values assumes it.
RateLimitAssumption ==
  /\ Settings \subseteq [tenths : Nat \ {0}, per : Nat \ {0}, ints : BOOLEAN]
  /\ \A s \in Settings : s.ints => s.tenths % 10 = 0
  /\ Horizon \in Nat /\ MaxItems \in Nat
  /\ BackSteps \in Nat /\ ForwardSteps \in Nat

VARIABLES
  limit,         \* the arguments
  waiting,       \* waitlimit rather than droplimit
  now,           \* seconds that the clock has counted up: those that passed,
  ahead,         \* and these, by which it was set forward
  shift,         \* by how much it was set back
  last_check, allowance,
  item,          \* there is an item that waitlimit waits with,
  took,          \* which it took when so many seconds had passed
  passed,        \* what `now` was when items went through
  dropped        \* what `now` was when items were dropped

clock == <<now, ahead, shift>>
vars == <<limit, waiting, clock, last_check, allowance, item, took, passed, dropped>>

One == 10 * limit.per                       \* an allowance of 1.0
Rate == limit.tenths * limit.per            \* an allowance of rate
PerSecond ==                                \* rate / per
  IF limit.ints THEN ((limit.tenths \div 10) \div limit.per) * One ELSE limit.tenths

Larger(a, b) == IF a > b THEN a ELSE b
Smaller(a, b) == IF a < b THEN a ELSE b
Clock == now - shift
Elapsed == now - ahead

Init ==
  /\ limit \in Settings /\ waiting \in BOOLEAN
  /\ now = 0 /\ ahead = 0 /\ shift = 0 /\ last_check = 0
  /\ allowance = IF waiting THEN Larger(Rate \div 10, One) ELSE Rate
  /\ item = FALSE /\ took = 0 /\ passed = <<>> /\ dropped = <<>>

\* A plausible bug: the allowance is not limited.
RefilledWithoutEnd == allowance + (Clock - last_check) * PerSecond

Refilled == Smaller(allowance + (Clock - last_check) * PerSecond, Rate)

\* A plausible bug: the time is not noted when an item is let through.
CheckOnlyNoted(through) == last_check' = IF through THEN last_check ELSE Clock
Check(through) == last_check' = Clock

Pass ==
  /\ Refilled >= One
  /\ allowance' = Refilled - One
  /\ passed' = Append(passed, now)
  /\ Check(TRUE)

\* A plausible bug: what has grown is not kept when there is too little.
ShortLoses == Refilled < One /\ allowance' = allowance /\ Check(FALSE)

Short == Refilled < One /\ allowance' = Refilled /\ Check(FALSE)

Drop ==
  /\ ~waiting /\ Len(passed) + Len(dropped) < MaxItems
  /\ \/ Pass /\ UNCHANGED dropped
     \/ Short /\ dropped' = Append(dropped, now) /\ UNCHANGED passed
  /\ UNCHANGED <<limit, waiting, clock, item, took>>

\* waitlimit() takes the next item from its source.
Take ==
  /\ waiting /\ ~item /\ Len(passed) < MaxItems
  /\ item' = TRUE /\ took' = Elapsed
  /\ UNCHANGED <<limit, waiting, clock, last_check, allowance, passed, dropped>>

\* A plausible bug: every round of the loop starts from nothing.
WaitAfresh ==
  /\ waiting /\ item /\ last_check # Clock
  /\ Refilled < One /\ allowance' = 0 /\ Check(FALSE)
  /\ UNCHANGED <<limit, waiting, clock, item, took, passed, dropped>>

\* The loop around sleep(0.025), up to the round that lets the item through.
Wait ==
  /\ waiting /\ item /\ last_check # Clock
  /\ Short
  /\ UNCHANGED <<limit, waiting, clock, item, took, passed, dropped>>

Yield ==
  /\ waiting /\ item
  /\ Pass
  /\ item' = FALSE
  /\ UNCHANGED <<limit, waiting, clock, took, dropped>>

\* The loop of waitlimit() looks forty times a second: no second passes while
\* its item can go through.
Tick ==
  /\ now < Horizon
  /\ ~(waiting /\ item /\ Refilled >= One)
  /\ now' = now + 1
  /\ UNCHANGED <<limit, waiting, ahead, shift, last_check, allowance, item, took, passed, dropped>>

\* Environment: somebody sets the clock.
SetBack ==
  /\ shift < BackSteps
  /\ shift' = shift + 1
  /\ UNCHANGED <<limit, waiting, now, ahead, last_check, allowance, item, took, passed, dropped>>

SetForward ==
  /\ ahead < ForwardSteps /\ now < Horizon
  /\ now' = now + 1 /\ ahead' = ahead + 1
  /\ UNCHANGED <<limit, waiting, shift, last_check, allowance, item, took, passed, dropped>>

Next == Drop \/ Take \/ Wait \/ Yield \/ Tick \/ SetBack \/ SetForward

Spec == Init /\ [][Next]_vars

-----------------------------------------------------------------------------
\* The types of the limiter's state.
TypeOK ==
  /\ limit \in Settings /\ waiting \in BOOLEAN /\ item \in BOOLEAN
  /\ now \in 0..Horizon /\ ahead \in 0..now /\ shift \in 0..BackSteps
  /\ took \in 0..Elapsed /\ last_check \in (-BackSteps)..Horizon
  /\ allowance <= Larger(Rate, One)
  /\ Len(passed) + Len(dropped) <= MaxItems

\* From any moment on, whatever the arrivals, the items that go through are at
\* most rate, one more while the first allowance lasts, and what rate / per gives
\* for the time that passes and the time by which the clock is set forward:
\* setting it back makes up for nothing, and sets nothing free.
BurstBound ==
  \A i, j \in DOMAIN passed :
    i <= j => (j - i + 1) * One <= Larger(Rate, One) + (passed[j] - passed[i]) * limit.tenths

\* An item is dropped only because of those that went through: over some time
\* that ends with it they came to more than rate - 1 and the rate for the time
\* on the clock, if rate / per is exact and the clock was never set back.
DropsOnlyWhenFull ==
  (PerSecond = limit.tenths /\ Rate >= One /\ shift = 0) =>
    \A d \in DOMAIN dropped : \E i \in DOMAIN passed :
      LET since == {j \in DOMAIN passed : i <= j /\ passed[j] <= dropped[d]}
      IN  /\ passed[i] <= dropped[d]
          /\ Cardinality(since) * One > Rate - One + (dropped[d] - passed[i]) * limit.tenths

\* An item waits no longer than the allowance takes to grow from 0 to 1.0, and
\* for the time by which the clock was set back, if it can grow so far at all:
\* with integers, rate < per gives no growth, and a rate below 1 no room for it.
WaitIsBounded ==
  (item /\ PerSecond > 0 /\ Rate >= One) => (Elapsed - took - shift - 1) * PerSecond < One
=============================================================================
