------------------------------ MODULE LruCache ------------------------------
(***************************************************************************)
(* The wrapper that lru_cache of helpers/cache.py puts around a function   *)
(* f: the DNS cache of cachedns_urllib.py is one.  The cached function may *)
(* itself call the wrapper, so calls form a stack; the bookkeeping after a *)
(* value has been found is one step per loop iteration.                    *)
(*                                                                         *)
(* Time is a bit per entry: younger than maxsec ("fresh") or not.          *)
(***************************************************************************)
EXTENDS Naturals, Sequences, FiniteSets, Functions

CONSTANTS
  Keys,       \* argument tuples
  MaxSize,    \* maxsize
  MaxSec,     \* maxsec; 0 means that values do not expire
  Hold,       \* hold_exception; 0 means that exceptions are not held
  KeyErrors,  \* whether f may raise KeyError, which the wrapper also catches
  None,       \* Python's None
  MaxDepth    \* bound on nested calls of the wrapper

ASSUME LruCacheAssumption ==
  /\ IsFiniteSet(Keys)
  /\ {MaxSize, MaxSec, Hold} \subseteq Nat
  /\ KeyErrors \in BOOLEAN
  /\ MaxDepth \in Nat \ {0}
  /\ None \notin {"IndexError", "KeyError", "AssertionError", "value", "raised"}

VARIABLES
  cache,     \* the dict `cache`: "absent", "fresh" or "stale" for each key
  held,      \* the dict `exception_cache`: None or the exception and its count
  queue,     \* the deque of accessed keys
  refcount,  \* the dict `refcount`, 0 for a key that is not in it
  stack,     \* the calls of the wrapper that have not returned, latest last
  latest,    \* history: how f last ended for each key
  fault      \* an exception that the bookkeeping itself has raised

vars == <<cache, held, queue, refcount, stack, latest, fault>>
books == <<queue, refcount>>

(***************************************************************************)
(* A frame is a call for `key` that is either inside f, called from line   *)
(* 30 "expired", 43 "reheld", 50 "first" or 56 "plain", or in one of the   *)
(* stages of the bookkeeping; `todo` counts the iterations of line 74.     *)
(***************************************************************************)
CallSites == {"expired", "reheld", "first", "plain"}
Stages == {"record", "purge", "compact"}
Frame == [key : Keys, at : CallSites \cup Stages, todo : Nat]

NewFrame(k, at) == [key |-> k, at |-> at, todo |-> 0]

Init == /\ cache = [k \in Keys |-> "absent"]
        /\ held = [k \in Keys |-> None]
        /\ queue = <<>>
        /\ refcount = [k \in Keys |-> 0]
        /\ stack = <<>>
        /\ latest = [k \in Keys |-> None]
        /\ fault = None

Cached  == {k \in Keys : cache[k] # "absent"}
Counted == {k \in Keys : refcount[k] > 0}

Top == stack[Len(stack)]
Callers == SubSeq(stack, 1, Len(stack) - 1)     \* what a return leaves
TopAt(at) == stack # <<>> /\ Top.at = at
Become(at) == Append(Callers, [Top EXCEPT !.at = at])
InF == stack # <<>> /\ Top.at \in CallSites
AtRest == stack = <<>> \/ InF

(***************************************************************************)
(* Lines 33-57, reached on a miss and again when f raises KeyError for an  *)
(* expired entry.  `callers` are the frames below this call.  A held       *)
(* exception that is itself a KeyError is caught by line 48.               *)
(***************************************************************************)
Miss(k, callers) ==
  LET h == held[k]
      Push(at) == stack' = Append(callers, NewFrame(k, at))
      c == IF h.count < Hold THEN h.count + 1 ELSE Hold
      raise == c < Hold /\ h.fresh
  IN \/ Hold = 0 /\ Push("plain") /\ UNCHANGED held
     \/ Hold > 0 /\ h = None /\ Push("first") /\ UNCHANGED held
     \/ /\ Hold > 0 /\ h # None
        /\ held' = [held EXCEPT ![k].count = c]
        /\ \/ ~raise /\ Push("reheld")
           \/ raise /\ h.keyError /\ Push("first")
           \/ raise /\ ~h.keyError /\ stack' = callers

(* Lines 24-32: f may be called only by a caller that is itself inside f. *)
Call(k) ==
  /\ fault = None /\ AtRest /\ Len(stack) < MaxDepth
  /\ \/ /\ cache[k] = "fresh"
        /\ stack' = Append(stack, NewFrame(k, "record"))
        /\ UNCHANGED held
     \/ /\ cache[k] = "stale"
        /\ stack' = Append(stack, NewFrame(k, "expired"))
        /\ UNCHANGED held
     \/ cache[k] = "absent" /\ Miss(k, stack)
  /\ UNCHANGED <<cache, books, latest, fault>>

(* Plausible bug: a refreshed entry is taken to be in the queue already. *)
FReturnsUnrecorded ==
  /\ fault = None /\ InF
  /\ cache' = [cache EXCEPT ![Top.key] = "fresh"]
  /\ latest' = [latest EXCEPT ![Top.key] = "value"]
  /\ stack' = IF Top.at = "expired" THEN Callers ELSE Become("record")
  /\ UNCHANGED <<held, books, fault>>

(* Plausible bug: a success restarts the count of a held exception. *)
FReturnsRestarts ==
  LET k == Top.key IN
  /\ fault = None /\ InF
  /\ cache' = [cache EXCEPT ![k] = "fresh"]
  /\ latest' = [latest EXCEPT ![k] = "value"]
  /\ held' = IF held[k] = None THEN held ELSE [held EXCEPT ![k].count = 0]
  /\ stack' = Become("record")
  /\ UNCHANGED <<books, fault>>

(* f returns: lines 31, 44, 51 and 57 store the value. *)
FReturns ==
  /\ fault = None /\ InF
  /\ cache' = [cache EXCEPT ![Top.key] = "fresh"]
  /\ latest' = [latest EXCEPT ![Top.key] = "value"]
  /\ stack' = Become("record")
  /\ UNCHANGED <<held, books, fault>>

(* f raises: KeyError is caught around the calls of lines 30 and 43. *)
FRaises(keyError) ==
  LET k == Top.key
      fresh == [count |-> 0, fresh |-> TRUE, keyError |-> keyError]
  IN /\ fault = None /\ InF
     /\ keyError => KeyErrors
     /\ \/ Top.at = "expired" /\ keyError /\ Miss(k, Callers)
        \/ /\ Top.at = "expired" /\ ~keyError
           /\ stack' = Callers /\ UNCHANGED held
        \/ Top.at = "plain" /\ stack' = Callers /\ UNCHANGED held
        \/ /\ Top.at \in {"first", "reheld"}
           /\ held' = [held EXCEPT ![k] = fresh]
           /\ stack' = IF Top.at = "reheld" /\ keyError
                       THEN Become("first")
                       ELSE Callers
     /\ latest' = [latest EXCEPT ![k] = "raised"]
     /\ UNCHANGED <<cache, books, fault>>

(* Plausible bug: the count starts at 1 each time instead of going up. *)
RecordOnce ==
  /\ fault = None /\ TopAt("record")
  /\ queue' = Append(queue, Top.key)
  /\ refcount' = [refcount EXCEPT ![Top.key] = 1]
  /\ stack' = Become("purge")
  /\ UNCHANGED <<cache, held, latest, fault>>

(* Lines 61-62: this key was recently accessed. *)
Record ==
  /\ fault = None /\ TopAt("record")
  /\ queue' = Append(queue, Top.key)
  /\ refcount' = [refcount EXCEPT ![Top.key] = @ + 1]
  /\ stack' = Become("purge")
  /\ UNCHANGED <<cache, held, latest, fault>>

(* popleft of an empty deque, or a dict without the key, ends the call. *)
PopError == IF queue = <<>> THEN "IndexError"
            ELSE IF refcount[Head(queue)] = 0 THEN "KeyError" ELSE None

Fails(error) == /\ fault' = error
                /\ UNCHANGED <<cache, held, books, stack, latest>>

(* Plausible bug: pop() for popleft(), which drops the latest key. *)
PurgeLatest ==
  LET k == queue[Len(queue)] IN
  /\ fault = None /\ TopAt("purge") /\ Cardinality(Cached) > MaxSize
  /\ queue' = SubSeq(queue, 1, Len(queue) - 1)
  /\ refcount' = [refcount EXCEPT ![k] = @ - 1]
  /\ cache' = IF refcount[k] = 1 THEN [cache EXCEPT ![k] = "absent"] ELSE cache
  /\ UNCHANGED <<held, stack, latest, fault>>

(* One iteration of lines 65-70; the key that leaves the queue for the     *)
(* last time leaves both dicts, and `del` needs it to be in both.          *)
Purge ==
  LET k == Head(queue)
      last == refcount[k] = 1
      error == IF PopError = None /\ last /\ cache[k] = "absent"
               THEN "KeyError" ELSE PopError
  IN /\ fault = None /\ TopAt("purge") /\ Cardinality(Cached) > MaxSize
     /\ IF error # None THEN Fails(error)
        ELSE /\ queue' = Tail(queue)
             /\ refcount' = [refcount EXCEPT ![k] = @ - 1]
             /\ cache' = IF last THEN [cache EXCEPT ![k] = "absent"] ELSE cache
             /\ UNCHANGED <<held, stack, latest, fault>>

(* Plausible bug: the deque may grow to five times the maximum size. *)
PurgedLate ==
  /\ fault = None /\ TopAt("purge") /\ Cardinality(Cached) <= MaxSize
  /\ stack' = IF Len(queue) > MaxSize * 5
              THEN Append(Callers, [Top EXCEPT !.at = "compact",
                                               !.todo = Len(queue)])
              ELSE Callers
  /\ UNCHANGED <<cache, held, books, latest, fault>>

(* Line 73: compact when the deque is too long, otherwise return (82). *)
Purged ==
  /\ fault = None /\ TopAt("purge") /\ Cardinality(Cached) <= MaxSize
  /\ stack' = IF Len(queue) > MaxSize * 4
              THEN Append(Callers, [Top EXCEPT !.at = "compact",
                                               !.todo = Len(queue)])
              ELSE Callers
  /\ UNCHANGED <<cache, held, books, latest, fault>>

(* Plausible bug: a duplicate is thrown away without being counted down. *)
CompactUncounted ==
  LET k == Head(queue) IN
  /\ fault = None /\ TopAt("compact") /\ Top.todo > 0
  /\ queue' = IF refcount[k] = 1 THEN Append(Tail(queue), k) ELSE Tail(queue)
  /\ stack' = Append(Callers, [Top EXCEPT !.todo = @ - 1])
  /\ UNCHANGED <<cache, held, refcount, latest, fault>>

(* One iteration of lines 74-79: the last occurrence of a key is kept. *)
Compact ==
  LET k == Head(queue)
      last == refcount[k] = 1
  IN /\ fault = None /\ TopAt("compact") /\ Top.todo > 0
     /\ IF PopError # None THEN Fails(PopError)
        ELSE /\ queue' = IF last THEN Append(Tail(queue), k) ELSE Tail(queue)
             /\ refcount' = [refcount EXCEPT ![k] = IF last THEN 1 ELSE @ - 1]
             /\ stack' = Append(Callers, [Top EXCEPT !.todo = @ - 1])
             /\ UNCHANGED <<cache, held, latest, fault>>

(* Lines 80 and 82: the assertion, then the return. *)
Compacted ==
  /\ fault = None /\ TopAt("compact") /\ Top.todo = 0
  /\ IF /\ Len(queue) = Cardinality(Cached)
        /\ Cardinality(Cached) = Cardinality(Counted)
        /\ Cardinality(Counted) = SumFunction(refcount)
     THEN /\ stack' = Callers
          /\ UNCHANGED <<cache, held, books, latest, fault>>
     ELSE Fails("AssertionError")

(* Environment: maxsec seconds have passed since an entry was stored. *)
Grow(k) ==
  /\ MaxSec > 0 /\ fault = None /\ AtRest
  /\ \/ /\ cache[k] = "fresh"
        /\ cache' = [cache EXCEPT ![k] = "stale"]
        /\ UNCHANGED held
     \/ /\ held[k] # None /\ held[k].fresh
        /\ held' = [held EXCEPT ![k].fresh = FALSE]
        /\ UNCHANGED cache
  /\ UNCHANGED <<books, stack, latest, fault>>

Next == \/ \E k \in Keys : Call(k) \/ Grow(k)
        \/ \E e \in BOOLEAN : FRaises(e)
        \/ FReturns \/ Record \/ Purge \/ Purged \/ Compact \/ Compacted

Spec == Init /\ [][Next]_vars
-----------------------------------------------------------------------------
Exception == [count : 0..Hold, fresh : BOOLEAN, keyError : BOOLEAN]

TypeOK ==
  /\ cache \in [Keys -> {"absent", "fresh", "stale"}]
  /\ held \in [Keys -> Exception \cup {None}]
  /\ queue \in Seq(Keys)
  /\ refcount \in [Keys -> Nat]
  /\ stack \in Seq(Frame)
  /\ latest \in [Keys -> {None, "value", "raised"}]
  /\ fault \in {None, "IndexError", "KeyError", "AssertionError"}

(* The bookkeeping never raises: popleft finds a key, each key it finds is *)
(* in both dicts (lines 65-79), and the assertion of line 80 holds.        *)
NoFault == fault = None

Occurrences(q, k) == {i \in 1..Len(q) : q[i] = k}

(* Between two iterations of any loop, refcount is the number of times a   *)
(* key is in the queue (comment of line 16) ...                            *)
RefcountIsExact ==
  \A k \in Keys : refcount[k] = Cardinality(Occurrences(queue, k))

(* ... and the keys that are cached are those that can still be evicted,   *)
(* except for the value just stored that is not yet recorded.              *)
CachedIsQueued ==
  Cached = IF TopAt("record") THEN Counted \cup {Top.key} ELSE Counted

(* Whenever control is outside the wrapper's bookkeeping, in the caller or *)
(* in f, the cache and the queue are within their bounds (lines 65, 73).   *)
SizeBound == AtRest => /\ Cardinality(Cached) <= MaxSize
                       /\ Len(queue) <= 4 * MaxSize

(* A held exception is raised again (line 40) only while the latest call   *)
(* of f for that key failed: never after f has given a value.              *)
HeldIsLatest ==
  [][\A k \in Keys : held[k] # None /\ held'[k] # None
       /\ held'[k].count > held[k].count /\ stack' = stack
     => latest[k] = "raised"]_vars

(***************************************************************************)
(* The cache is an LRU cache: the order of the last occurrences of keys in *)
(* the queue is the recency order.  While the queue is being compacted the *)
(* iterations to come are at its front and what is kept at its end.        *)
(***************************************************************************)
LogicalQueue ==
  IF TopAt("compact")
  THEN SubSeq(queue, Top.todo + 1, Len(queue)) \o SubSeq(queue, 1, Top.todo)
  ELSE queue

(* The positions of the last occurrences, and the keys found there. *)
Lasts(q) == {i \in 1..Len(q) : \A j \in i+1..Len(q) : q[j] # q[i]}
Rank(L, i) == Cardinality({j \in L : j <= i})
Recency(q) ==
  [r \in 1..Cardinality(Lasts(q)) |->
     q[CHOOSE i \in Lasts(q) : Rank(Lasts(q), i) = r]]

Recent == Recency(LogicalQueue)

Lru == INSTANCE LruSpec WITH recent <- Recent
ImplementsLru == Lru!Spec
=============================================================================
