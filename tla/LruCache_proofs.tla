--------------------------- MODULE LruCache_proofs ---------------------------
(***************************************************************************)
(* The bookkeeping of LruCache for every set of keys, every maximum size   *)
(* and every depth of nested calls.                                        *)
(***************************************************************************)
EXTENDS LruCache, FiniteSetTheorems, FunctionTheorems, SequenceTheorems,
        WellFoundedInduction, TLAPS

(* How the operations on the stack of calls act on its elements.           *)
StackInv == \A i \in 1..Len(stack) - 1 : stack[i].at \in CallSites

LEMMA CallersFacts ==
  ASSUME stack \in Seq(Frame), stack # <<>>
  PROVE  /\ Callers \in Seq(Frame)
         /\ Len(Callers) = Len(stack) - 1
         /\ \A i \in 1..Len(stack) - 1 : Callers[i] = stack[i]
         /\ Top \in Frame
<1>1. Len(stack) \in Nat /\ Len(stack) >= 1
  BY EmptySeq, LenProperties
<1> DEFINE n == Len(stack) - 1
           c == SubSeq(stack, 1, n)
<1>2. n \in Nat /\ \A i \in 1..n : stack[i] \in Frame
  BY <1>1, ElementOfSeq
<1>3. Callers = c /\ Top \in Frame
  BY <1>1, ElementOfSeq DEF Callers, Top
<1>4. /\ c \in Seq(Frame)
      /\ Len(c) = IF 1 <= n THEN n - 1 + 1 ELSE 0
      /\ \A i \in 1..n - 1 + 1 : c[i] = stack[1 + i - 1]
  <2> HIDE DEF n
  <2>1. QED
    BY <1>2, SubSeqProperties
<1>5. c \in Seq(Frame) /\ Len(c) = n /\ \A i \in 1..n : c[i] = stack[i]
  <2> HIDE DEF n, c
  <2>1. QED
    BY <1>2, <1>4
<1>6. QED
  BY <1>3, <1>5

LEMMA PopFacts ==
  ASSUME stack \in Seq(Frame), StackInv, stack # <<>>, stack' = Callers
  PROVE  stack' \in Seq(Frame) /\ StackInv' /\ AtRest'
<1>1. Len(stack) \in Nat /\ Len(stack) >= 1
  BY EmptySeq, LenProperties
<1>2. stack' \in Seq(Frame) /\ Len(stack') = Len(stack) - 1
  BY CallersFacts
<1>3. \A i \in 1..Len(stack') : stack'[i].at \in CallSites
  BY <1>1, <1>2, CallersFacts DEF StackInv
<1>4. stack' # <<>> => Len(stack') \in 1..Len(stack')
  BY <1>2, EmptySeq, LenProperties
<1>5. QED
  BY <1>2, <1>3, <1>4, LenProperties DEF StackInv, AtRest, InF, Top

LEMMA ReplaceFacts ==
  ASSUME stack \in Seq(Frame), StackInv, stack # <<>>,
         NEW f \in Frame, stack' = Append(Callers, f)
  PROVE  stack' \in Seq(Frame) /\ stack' # <<>> /\ StackInv' /\ Top' = f
<1>1. Len(stack) \in Nat /\ Len(stack) >= 1
  BY EmptySeq, LenProperties
<1>2. /\ stack' \in Seq(Frame)
      /\ Len(stack') = Len(stack)
      /\ \A i \in 1..Len(stack) - 1 : stack'[i] = stack[i]
      /\ stack'[Len(stack)] = f
  BY <1>1, CallersFacts, AppendProperties
<1>3. QED
  BY <1>1, <1>2, EmptySeq DEF StackInv, Top

LEMMA PushFacts ==
  ASSUME stack \in Seq(Frame), StackInv, AtRest,
         NEW f \in Frame, stack' = Append(stack, f)
  PROVE  stack' \in Seq(Frame) /\ stack' # <<>> /\ StackInv' /\ Top' = f
<1>1. Len(stack) \in Nat
  BY LenProperties
<1>2. /\ stack' \in Seq(Frame)
      /\ Len(stack') = Len(stack) + 1
      /\ \A i \in 1..Len(stack) : stack'[i] = stack[i]
      /\ stack'[Len(stack) + 1] = f
  BY <1>1, AppendProperties
<1>3. \A i \in 1..Len(stack) : stack[i].at \in CallSites
  BY <1>1 DEF StackInv, AtRest, InF, Top
<1>4. QED
  BY <1>1, <1>2, <1>3, EmptySeq DEF StackInv, Top
-----------------------------------------------------------------------------
(* Types are preserved, the frames below the top are calls of f, and an    *)
(* unfinished compaction never has more iterations left than keys queued.  *)
TypeInv == TypeOK /\ StackInv

LEMMA NewFrameType ==
  ASSUME NEW k \in Keys, NEW at \in CallSites \cup Stages
  PROVE  NewFrame(k, at) \in Frame
  BY DEF NewFrame, Frame

LEMMA TopType == TypeOK /\ stack # <<>> => Top \in Frame
  BY CallersFacts DEF TypeOK

(* What Miss does to the stack and to the held exceptions.                 *)
LEMMA MissFacts ==
  ASSUME TypeOK, NEW k \in Keys, NEW callers, Miss(k, callers)
  PROVE  /\ held' \in [Keys -> Exception \cup {None}]
         /\ \/ stack' = callers
            \/ \E at \in CallSites : stack' = Append(callers, NewFrame(k, at))
<1> USE LruCacheAssumption
<1>1. CASE held[k] = None
  BY <1>1 DEF Miss, TypeOK, CallSites
<1>2. CASE held[k] # None
  <2>1. held[k] \in Exception
    BY <1>2 DEF TypeOK
  <2> DEFINE c == IF held[k].count < Hold THEN held[k].count + 1 ELSE Hold
  <2>2. [held[k] EXCEPT !.count = c] \in Exception
    BY <2>1 DEF Exception
  <2>3. CASE Hold = 0
    BY <1>2, <2>3 DEF Miss, TypeOK, CallSites
  <2>4. CASE Hold # 0
    <3>1. held' = [held EXCEPT ![k].count = c]
      BY <1>2, <2>4 DEF Miss
    <3>2. \/ stack' = callers
          \/ stack' = Append(callers, NewFrame(k, "reheld"))
          \/ stack' = Append(callers, NewFrame(k, "first"))
      BY <1>2, <2>4 DEF Miss
    <3>3. held' \in [Keys -> Exception \cup {None}]
      BY <2>2, <3>1 DEF TypeOK
    <3>4. QED
      BY <3>2, <3>3 DEF CallSites
  <2>5. QED
    BY <2>3, <2>4
<1>3. QED
  BY <1>1, <1>2

(* Every reachable state has the types of TypeOK.                          *)
THEOREM TypeCorrect == Spec => []TypeInv
<1> USE LruCacheAssumption
<1>1. Init => TypeInv
  BY EmptySeq DEF Init, TypeInv, TypeOK, StackInv
<1>2. TypeInv /\ [Next]_vars => TypeInv'
  <2> SUFFICES ASSUME TypeOK, StackInv, [Next]_vars PROVE TypeInv'
    BY DEF TypeInv
  <2>1. stack \in Seq(Frame)
    BY DEF TypeOK
  <2>2. ASSUME NEW k \in Keys, Call(k) PROVE TypeInv'
    <3>1. /\ held' \in [Keys -> Exception \cup {None}]
          /\ \/ stack' = stack
             \/ \E at \in CallSites \cup Stages :
                  stack' = Append(stack, NewFrame(k, at))
      BY <2>2, MissFacts DEF Call, TypeOK, CallSites, Stages
    <3>2. stack' \in Seq(Frame) /\ StackInv'
      BY <2>1, <2>2, <3>1, PushFacts, NewFrameType DEF Call, StackInv
    <3>3. QED
      BY <2>2, <3>1, <3>2 DEF Call, TypeInv, TypeOK, books
  <2>3. ASSUME FReturns PROVE TypeInv'
    <3>1. [Top EXCEPT !.at = "record"] \in Frame /\ Top.key \in Keys
      BY <2>3, TopType DEF FReturns, InF, Frame, Stages
    <3>2. stack' \in Seq(Frame) /\ StackInv'
      BY <2>1, <2>3, <3>1, ReplaceFacts DEF FReturns, InF, Become
    <3>3. QED
      BY <2>3, <3>1, <3>2 DEF FReturns, TypeInv, TypeOK, books
  <2>4. ASSUME NEW e \in BOOLEAN, FRaises(e) PROVE TypeInv'
    <3>1. Top \in Frame /\ stack # <<>>
      BY <2>4, TopType DEF FRaises, InF
    <3>2. [Top EXCEPT !.at = "first"] \in Frame /\ Top.key \in Keys
      BY <3>1 DEF Frame, CallSites
    <3>3. /\ held' \in [Keys -> Exception \cup {None}]
          /\ \/ stack' = Callers
             \/ \E at \in CallSites :
                  stack' = Append(Callers, NewFrame(Top.key, at))
             \/ stack' = Become("first")
      <4>1. CASE Top.at = "expired" /\ e /\ Miss(Top.key, Callers)
        BY <3>2, <4>1, MissFacts
      <4> DEFINE new == [count |-> 0, fresh |-> TRUE, keyError |-> e]
      <4>2. CASE ~(Top.at = "expired" /\ e /\ Miss(Top.key, Callers))
        <5>1. new \in Exception
          BY LruCacheAssumption DEF Exception
        <5>2. /\ stack' = Callers \/ stack' = Become("first")
              /\ held' = held \/ held' = [held EXCEPT ![Top.key] = new]
          BY <2>4, <4>2 DEF FRaises
        <5>3. QED
          BY <3>2, <5>1, <5>2 DEF TypeOK
      <4>3. QED
        BY <4>1, <4>2
    <3>4. stack' \in Seq(Frame) /\ StackInv'
      BY <2>1, <3>1, <3>2, <3>3, PopFacts, ReplaceFacts, NewFrameType DEF Become
    <3>5. QED
      BY <2>4, <3>2, <3>3, <3>4 DEF FRaises, TypeInv, TypeOK, books
  <2>5. ASSUME Record PROVE TypeInv'
    <3>1. [Top EXCEPT !.at = "purge"] \in Frame /\ Top.key \in Keys
      BY <2>5, TopType DEF Record, TopAt, Frame, Stages
    <3>2. stack' \in Seq(Frame) /\ StackInv'
      BY <2>1, <2>5, <3>1, ReplaceFacts DEF Record, TopAt, Become
    <3>3. queue' \in Seq(Keys)
      BY <2>5, <3>1, AppendProperties DEF Record, TypeOK
    <3>4. QED
      BY <2>5, <3>1, <3>2, <3>3 DEF Record, TypeInv, TypeOK
  <2>6. ASSUME Purge PROVE TypeInv'
    <3>1. CASE fault' # None
      BY <2>6, <3>1 DEF Purge, Fails, PopError, TypeInv, TypeOK, StackInv, books
    <3>2. CASE fault' = None
      <4>1. queue # <<>> /\ refcount[Head(queue)] # 0 /\ queue' = Tail(queue)
        BY <2>6, <3>2, LruCacheAssumption DEF Purge, Fails, PopError
      <4>2. Head(queue) \in Keys /\ queue' \in Seq(Keys)
        BY <4>1, HeadTailProperties DEF TypeOK
      <4>3. /\ refcount' = [refcount EXCEPT ![Head(queue)] = @ - 1]
            /\ UNCHANGED <<held, stack, latest, fault>>
            /\ \/ cache' = [cache EXCEPT ![Head(queue)] = "absent"]
               \/ cache' = cache
        BY <2>6, <3>2 DEF Purge, Fails
      <4>4. refcount' \in [Keys -> Nat]
        BY <4>1, <4>2, <4>3 DEF TypeOK
      <4>5. cache' \in [Keys -> {"absent", "fresh", "stale"}]
        BY <4>3 DEF TypeOK
      <4>6. QED
        BY <4>2, <4>3, <4>4, <4>5 DEF TypeInv, TypeOK, StackInv
    <3>3. QED
      BY <3>1, <3>2
  <2>7. ASSUME Purged PROVE TypeInv'
    <3>1. Len(queue) \in Nat
      BY LenProperties DEF TypeOK
    <3>2. [Top EXCEPT !.at = "compact", !.todo = Len(queue)] \in Frame
      BY <2>7, <3>1, TopType DEF Purged, TopAt, Frame, Stages
    <3>3. stack' \in Seq(Frame) /\ StackInv'
      BY <2>1, <2>7, <3>2, ReplaceFacts, PopFacts DEF Purged, TopAt
    <3>4. QED
      BY <2>7, <3>3 DEF Purged, TypeInv, TypeOK, books
  <2>8. ASSUME Compact PROVE TypeInv'
    <3>1. CASE fault' # None
      BY <2>8, <3>1 DEF Compact, Fails, PopError, TypeInv, TypeOK, StackInv, books
    <3>2. CASE fault' = None
      <4>1. queue # <<>> /\ refcount[Head(queue)] # 0
        BY <2>8, <3>2 DEF Compact, Fails, PopError
      <4>2. Head(queue) \in Keys /\ Tail(queue) \in Seq(Keys)
        BY <4>1, HeadTailProperties DEF TypeOK
      <4>3. Append(Tail(queue), Head(queue)) \in Seq(Keys)
        BY <4>2, AppendProperties
      <4>4. /\ queue' \in {Append(Tail(queue), Head(queue)), Tail(queue)}
            /\ refcount' = [refcount EXCEPT ![Head(queue)] =
                              IF refcount[Head(queue)] = 1 THEN 1 ELSE @ - 1]
            /\ UNCHANGED <<cache, held, latest, fault>>
            /\ stack' = Append(Callers, [Top EXCEPT !.todo = @ - 1])
        BY <2>8, <3>2 DEF Compact, Fails
      <4>5. [Top EXCEPT !.todo = @ - 1] \in Frame
        BY <2>8, TopType DEF Compact, TopAt, Frame
      <4>6. stack' \in Seq(Frame) /\ StackInv'
        BY <2>1, <2>8, <4>4, <4>5, ReplaceFacts DEF Compact, TopAt
      <4>7. refcount' \in [Keys -> Nat]
        BY <4>1, <4>2, <4>4 DEF TypeOK
      <4>8. queue' \in Seq(Keys)
        BY <4>2, <4>3, <4>4
      <4>9. QED
        BY <4>4, <4>6, <4>7, <4>8 DEF TypeInv, TypeOK
    <3>3. QED
      BY <3>1, <3>2
  <2>9. ASSUME Compacted PROVE TypeInv'
    <3>1. CASE stack' = Callers /\ UNCHANGED <<cache, held, books, latest, fault>>
      <4>1. stack' \in Seq(Frame) /\ StackInv'
        BY <2>1, <2>9, <3>1, PopFacts DEF Compacted, TopAt
      <4>2. QED
        BY <3>1, <4>1 DEF TypeInv, TypeOK, books
    <3>2. CASE Fails("AssertionError")
      BY <3>2 DEF Fails, TypeInv, TypeOK, StackInv, books
    <3>3. QED
      BY <2>9, <3>1, <3>2 DEF Compacted
  <2>10. ASSUME NEW k \in Keys, Grow(k) PROVE TypeInv'
    <3>1. cache' \in [Keys -> {"absent", "fresh", "stale"}]
      BY <2>10 DEF Grow, TypeOK
    <3>2. held' \in [Keys -> Exception \cup {None}]
      <4>1. CASE held[k] = None
        BY <2>10, <4>1 DEF Grow, TypeOK
      <4>2. CASE held[k] # None
        <5>1. held[k] \in Exception
          BY <4>2 DEF TypeOK
        <5>2. [held[k] EXCEPT !.fresh = FALSE] \in Exception
          BY <5>1 DEF Exception
        <5>3. QED
          BY <2>10, <5>2 DEF Grow, TypeOK
      <4>3. QED
        BY <4>1, <4>2
    <3>3. QED
      BY <2>10, <3>1, <3>2 DEF Grow, TypeInv, TypeOK, StackInv, books
  <2>11. CASE UNCHANGED vars
    BY <2>11 DEF vars, books, TypeInv, TypeOK, StackInv
  <2>12. QED
    BY <2>2, <2>3, <2>4, <2>5, <2>6, <2>7, <2>8, <2>9, <2>10, <2>11 DEF Next
<1>3. QED
  BY <1>1, <1>2, PTL DEF Spec
-----------------------------------------------------------------------------
(* How the two operations on the deque change the number of occurrences.   *)
LEMMA OccurrencesFinite ==
  ASSUME NEW q \in Seq(Keys), NEW k
  PROVE  /\ IsFiniteSet(Occurrences(q, k))
         /\ Cardinality(Occurrences(q, k)) \in Nat
<1>1. IsFiniteSet(1..Len(q))
  BY FS_Interval, LenProperties
<1>2. Occurrences(q, k) \in SUBSET (1..Len(q))
  BY DEF Occurrences
<1>3. QED
  BY <1>1, <1>2, FS_Subset, FS_CardinalityType

LEMMA OccurrencesEmpty ==
  ASSUME NEW k
  PROVE  Cardinality(Occurrences(<<>>, k)) = 0
<1>1. Occurrences(<<>>, k) = {}
  BY EmptySeq DEF Occurrences
<1>2. QED
  BY <1>1, FS_EmptySet

LEMMA OccurrencesAppend ==
  ASSUME NEW q \in Seq(Keys), NEW x \in Keys, NEW k
  PROVE  Cardinality(Occurrences(Append(q, x), k)) =
           Cardinality(Occurrences(q, k)) + (IF x = k THEN 1 ELSE 0)
<1> DEFINE n == Len(q) + 1
<1>1. /\ Len(q) \in Nat /\ Len(Append(q, x)) = n
      /\ \A i \in 1..Len(q) : Append(q, x)[i] = q[i]
      /\ Append(q, x)[n] = x
  BY AppendProperties, LenProperties
<1>2. CASE x = k
  <2>1. Occurrences(Append(q, x), k) = Occurrences(q, k) \cup {n}
    BY <1>1, <1>2 DEF Occurrences
  <2>2. n \notin Occurrences(q, k)
    BY <1>1 DEF Occurrences
  <2>3. QED
    BY <1>2, <2>1, <2>2, OccurrencesFinite, FS_AddElement
<1>3. CASE x # k
  <2>1. Occurrences(Append(q, x), k) = Occurrences(q, k)
    BY <1>1, <1>3 DEF Occurrences
  <2>2. QED
    BY <1>3, <2>1, OccurrencesFinite
<1>4. QED
  BY <1>2, <1>3

LEMMA OccurrencesTail ==
  ASSUME NEW q \in Seq(Keys), q # <<>>, NEW k
  PROVE  Cardinality(Occurrences(Tail(q), k)) =
           Cardinality(Occurrences(q, k)) - (IF Head(q) = k THEN 1 ELSE 0)
<1> DEFINE later == Occurrences(q, k) \ {1}
           shift == [i \in later |-> i - 1]
<1>1. /\ Len(q) \in Nat /\ Len(q) >= 1
      /\ Tail(q) \in Seq(Keys) /\ Len(Tail(q)) = Len(q) - 1
      /\ \A i \in 1..Len(q) - 1 : Tail(q)[i] = q[i + 1]
      /\ Head(q) = q[1]
  BY HeadTailProperties, EmptySeq, LenProperties
<1>2. later = {i \in 2..Len(q) : q[i] = k}
  BY <1>1 DEF Occurrences
<1>3. Occurrences(Tail(q), k) = {i \in 1..Len(q) - 1 : q[i + 1] = k}
  BY <1>1 DEF Occurrences
<1>4. shift \in Bijection(later, Occurrences(Tail(q), k))
  <2>1. shift \in [later -> Occurrences(Tail(q), k)]
    BY <1>1, <1>2, <1>3
  <2>2. \A i, j \in later : shift[i] = shift[j] => i = j
    BY <1>1, <1>2
  <2>3. \A j \in Occurrences(Tail(q), k) : \E i \in later : shift[i] = j
    <3>1. \A j \in Occurrences(Tail(q), k) :
             j + 1 \in later /\ shift[j + 1] = j
      BY <1>1, <1>2, <1>3
    <3>2. QED
      BY <3>1
  <2>4. QED
    <3> HIDE DEF later, shift
    <3>1. QED
      BY <2>1, <2>2, <2>3, Fun_IsBij
<1>5. IsFiniteSet(later) /\ Cardinality(later) =
        IF 1 \in Occurrences(q, k) THEN Cardinality(Occurrences(q, k)) - 1
                                   ELSE Cardinality(Occurrences(q, k))
  BY OccurrencesFinite, FS_RemoveElement
<1>6. Cardinality(Occurrences(Tail(q), k)) = Cardinality(later)
  <2> HIDE DEF later, shift
  <2>1. ExistsBijection(later, Occurrences(Tail(q), k))
    BY <1>4, Fun_ExistsBij
  <2>2. QED
    BY <1>5, <2>1, FS_Bijection
<1>7. 1 \in Occurrences(q, k) <=> Head(q) = k
  BY <1>1 DEF Occurrences
<1>8. QED
  BY <1>5, <1>6, <1>7, OccurrencesFinite
-----------------------------------------------------------------------------
(***************************************************************************)
(* The counts stay exact because each operation on the deque changes the   *)
(* occurrences of one key by one; the keys of the two dicts stay equal     *)
(* because a key leaves both when its last occurrence leaves the deque.    *)
(***************************************************************************)
ExactFor(q, count) ==
  \A k \in Keys : count[k] = Cardinality(Occurrences(q, k))

LEMMA ExactAppend ==
  ASSUME NEW q \in Seq(Keys), NEW x \in Keys, NEW count \in [Keys -> Nat],
         ExactFor(q, count)
  PROVE  ExactFor(Append(q, x), [count EXCEPT ![x] = @ + 1])
<1>1. ASSUME NEW k \in Keys
      PROVE  [count EXCEPT ![x] = @ + 1][k] =
               Cardinality(Occurrences(Append(q, x), k))
  <2>1. Cardinality(Occurrences(Append(q, x), k)) =
          count[k] + (IF x = k THEN 1 ELSE 0)
    BY OccurrencesAppend DEF ExactFor
  <2>2. QED
    BY <2>1
<1>2. QED
  BY <1>1 DEF ExactFor

LEMMA ExactTail ==
  ASSUME NEW q \in Seq(Keys), q # <<>>, NEW count \in [Keys -> Nat],
         ExactFor(q, count)
  PROVE  /\ Head(q) \in Keys /\ Tail(q) \in Seq(Keys)
         /\ count[Head(q)] > 0
         /\ [count EXCEPT ![Head(q)] = @ - 1] \in [Keys -> Nat]
         /\ ExactFor(Tail(q), [count EXCEPT ![Head(q)] = @ - 1])
<1>1. Head(q) \in Keys /\ Tail(q) \in Seq(Keys)
  BY HeadTailProperties
<1>2. \A k \in Keys : Cardinality(Occurrences(Tail(q), k)) =
                        count[k] - (IF Head(q) = k THEN 1 ELSE 0)
  BY OccurrencesTail DEF ExactFor
<1>3. count[Head(q)] > 0
  <2>1. Cardinality(Occurrences(Tail(q), Head(q))) \in Nat
    BY <1>1, OccurrencesFinite
  <2>2. Cardinality(Occurrences(Tail(q), Head(q))) = count[Head(q)] - 1
    BY <1>1, <1>2
  <2>3. QED
    BY <1>1, <2>1, <2>2
<1>4. QED
  BY <1>1, <1>2, <1>3 DEF ExactFor

LEMMA ExactRotate ==
  ASSUME NEW q \in Seq(Keys), q # <<>>, NEW count \in [Keys -> Nat],
         ExactFor(q, count)
  PROVE  ExactFor(Append(Tail(q), Head(q)), count)
<1> DEFINE less == [count EXCEPT ![Head(q)] = @ - 1]
<1>1. /\ Head(q) \in Keys /\ Tail(q) \in Seq(Keys)
      /\ less \in [Keys -> Nat] /\ ExactFor(Tail(q), less)
  BY ExactTail
<1>2. ExactFor(Append(Tail(q), Head(q)), [less EXCEPT ![Head(q)] = @ + 1])
  <2> HIDE DEF less
  <2>1. QED
    BY <1>1, ExactAppend
<1>3. [less EXCEPT ![Head(q)] = @ + 1] = count
  <2> DEFINE back == [less EXCEPT ![Head(q)] = @ + 1]
  <2>1. \A k \in Keys : back[k] = count[k]
    BY <1>1
  <2>2. back \in [Keys -> Nat]
    BY <1>1, <2>1
  <2>3. QED
    BY <2>1, <2>2
<1>4. QED
  BY <1>2, <1>3

(* A compaction has a key in the deque for each iteration it has left, and *)
(* no pop or del of the bookkeeping has failed.                            *)
CompactionInv == TopAt("compact") => Top.todo <= Len(queue)
NoLookupError == fault \notin {"IndexError", "KeyError"}

BooksInv == /\ RefcountIsExact
            /\ CachedIsQueued
            /\ CompactionInv
            /\ NoLookupError

LEMMA AtNoStage == AtRest => \A at \in Stages : ~TopAt(at)
  BY DEF AtRest, InF, TopAt, Stages, CallSites

(* The steps outside the bookkeeping: they only push and pop calls of f,   *)
(* except that a value found or stored is about to be recorded.            *)
LEMMA CallKeepsBooks ==
  ASSUME TypeInv, BooksInv, NEW k \in Keys, Call(k)
  PROVE  BooksInv'
<1>1. AtRest /\ Cached = Counted
  BY AtNoStage DEF BooksInv, CachedIsQueued, Call, Stages
<1>2. /\ UNCHANGED <<cache, queue, refcount, fault>>
      /\ Cached' = Cached /\ Counted' = Counted
  BY DEF Call, books, Cached, Counted
<1>3. CASE cache[k] = "fresh"
  <2>1. stack' = Append(stack, NewFrame(k, "record"))
    BY <1>3 DEF Call
  <2>2. Top' = NewFrame(k, "record") /\ stack' # <<>>
    BY <1>1, <2>1, PushFacts, NewFrameType DEF TypeInv, TypeOK, Stages
  <2>3. k \in Counted
    BY <1>1, <1>3 DEF Cached
  <2>4. QED
    BY <1>1, <1>2, <2>2, <2>3
    DEF BooksInv, RefcountIsExact, CachedIsQueued, CompactionInv,
        NoLookupError, TopAt, NewFrame
<1>4. CASE cache[k] # "fresh"
  <2>1. \/ stack' = stack
        \/ \E at \in CallSites : stack' = Append(stack, NewFrame(k, at))
    BY <1>4, MissFacts DEF Call, TypeInv, CallSites
  <2>2. AtRest'
    <3>1. ASSUME NEW at \in CallSites, stack' = Append(stack, NewFrame(k, at))
          PROVE  AtRest'
      <4>1. Top' = NewFrame(k, at) /\ stack' # <<>>
        BY <1>1, <3>1, PushFacts, NewFrameType DEF TypeInv, TypeOK
      <4>2. QED
        BY <4>1 DEF AtRest, InF, NewFrame
    <3>2. CASE stack' = stack
      BY <1>1, <3>2 DEF AtRest, InF, Top
    <3>3. QED
      BY <2>1, <3>1, <3>2
  <2>3. \A at \in Stages : ~TopAt(at)'
    BY <2>2 DEF AtRest, InF, TopAt, Stages, CallSites
  <2>4. QED
    BY <1>1, <1>2, <2>3
    DEF BooksInv, RefcountIsExact, CachedIsQueued, CompactionInv,
        NoLookupError, Stages
<1>5. QED
  BY <1>3, <1>4

LEMMA RaiseKeepsBooks ==
  ASSUME TypeInv, BooksInv, NEW e \in BOOLEAN, FRaises(e)
  PROVE  BooksInv'
<1>1. AtRest /\ stack # <<>> /\ Top \in Frame
  BY TopType DEF FRaises, AtRest, InF, TypeInv
<1>2. Cached = Counted
  BY <1>1, AtNoStage DEF BooksInv, CachedIsQueued, Stages
<1>3. /\ UNCHANGED <<cache, queue, refcount, fault>>
      /\ Cached' = Cached /\ Counted' = Counted
  BY DEF FRaises, books, Cached, Counted
<1>4. \/ stack' = Callers
      \/ \E f \in Frame : f.at \in CallSites /\ stack' = Append(Callers, f)
  <2>1. Top.key \in Keys /\ [Top EXCEPT !.at = "first"] \in Frame
    BY <1>1 DEF Frame, CallSites
  <2>2. [Top EXCEPT !.at = "first"].at = "first"
    BY <1>1 DEF Frame
  <2>3. CASE Miss(Top.key, Callers)
    <3>1. \A at \in CallSites : /\ NewFrame(Top.key, at) \in Frame
                                /\ NewFrame(Top.key, at).at = at
      BY <2>1, NewFrameType DEF NewFrame
    <3>2. QED
      BY <2>1, <2>3, <3>1, MissFacts DEF TypeInv
  <2>4. CASE ~Miss(Top.key, Callers)
    <3>1. stack' = Callers \/ stack' = Become("first")
      BY <2>4 DEF FRaises
    <3>2. QED
      BY <2>1, <2>2, <3>1 DEF Become, CallSites
  <2>5. QED
    BY <2>3, <2>4
<1>5. AtRest'
  <2>1. CASE stack' = Callers
    BY <1>1, <2>1, PopFacts DEF TypeInv, TypeOK
  <2>2. ASSUME NEW f \in Frame, f.at \in CallSites, stack' = Append(Callers, f)
        PROVE  AtRest'
    <3>1. Top' = f /\ stack' # <<>>
      BY <1>1, <2>2, ReplaceFacts DEF TypeInv, TypeOK
    <3>2. QED
      BY <2>2, <3>1 DEF AtRest, InF
  <2>3. QED
    BY <1>4, <2>1, <2>2
<1>6. \A at \in Stages : ~TopAt(at)'
  BY <1>5 DEF AtRest, InF, TopAt, Stages, CallSites
<1>7. QED
  BY <1>2, <1>3, <1>6
  DEF BooksInv, RefcountIsExact, CachedIsQueued, CompactionInv, NoLookupError,
      Stages

LEMMA ReturnKeepsBooks ==
  ASSUME TypeInv, BooksInv, FReturns
  PROVE  BooksInv'
<1>1. AtRest /\ stack # <<>> /\ Top \in Frame
  BY TopType DEF FReturns, AtRest, InF, TypeInv
<1>2. Cached = Counted
  BY <1>1, AtNoStage DEF BooksInv, CachedIsQueued, Stages
<1>3. Top' = [Top EXCEPT !.at = "record"] /\ stack' # <<>>
  <2>1. [Top EXCEPT !.at = "record"] \in Frame
    BY <1>1 DEF Frame, Stages
  <2>2. QED
    BY <1>1, <2>1, ReplaceFacts DEF FReturns, Become, TypeInv, TypeOK
<1>4. Top'.at = "record" /\ Top'.key = Top.key /\ Top.key \in Keys
  BY <1>1, <1>3 DEF Frame
<1>5. Cached' = Cached \cup {Top.key} /\ Counted' = Counted
  BY <1>4 DEF FReturns, books, Cached, Counted, TypeInv, TypeOK
<1>6. QED
  BY <1>2, <1>3, <1>4, <1>5
  DEF FReturns, books, BooksInv, RefcountIsExact, CachedIsQueued,
      CompactionInv, NoLookupError, TopAt

(* The steps of the bookkeeping.                                           *)
LEMMA RecordKeepsBooks ==
  ASSUME TypeInv, BooksInv, Record
  PROVE  BooksInv'
<1>1. stack # <<>> /\ Top \in Frame /\ Top.key \in Keys
  BY TopType DEF Record, TopAt, TypeInv, Frame
<1>2. Top'.at = "purge" /\ stack' # <<>>
  <2>1. [Top EXCEPT !.at = "purge"] \in Frame
    BY <1>1 DEF Frame, Stages
  <2>2. Top' = [Top EXCEPT !.at = "purge"] /\ stack' # <<>>
    BY <1>1, <2>1, ReplaceFacts DEF Record, Become, TypeInv, TypeOK
  <2>3. QED
    BY <1>1, <2>2 DEF Frame
<1>3. ExactFor(queue', refcount')
  BY <1>1, ExactAppend
  DEF Record, TypeInv, TypeOK, BooksInv, RefcountIsExact, ExactFor
<1>4. Counted' = Counted \cup {Top.key} /\ Cached' = Cached
  BY <1>1 DEF Record, Counted, Cached, TypeInv, TypeOK
<1>5. Cached = Counted \cup {Top.key}
  BY DEF BooksInv, CachedIsQueued, Record
<1>6. CachedIsQueued' /\ CompactionInv'
  BY <1>2, <1>4, <1>5 DEF CachedIsQueued, CompactionInv, TopAt
<1>7. QED
  BY <1>3, <1>6 DEF Record, BooksInv, RefcountIsExact, ExactFor, NoLookupError

(* What an iteration of the purge does: it takes a key off the deque and   *)
(* counts it down; the key leaves both dicts when it was there for the     *)
(* last time.                                                              *)
LEMMA PurgeFacts ==
  ASSUME TypeInv, BooksInv, Purge
  PROVE  /\ Cached = Counted /\ Cardinality(Cached) > MaxSize
         /\ queue \in Seq(Keys) /\ queue # <<>> /\ Head(queue) \in Keys
         /\ Tail(queue) \in Seq(Keys)
         /\ refcount[Head(queue)] > 0 /\ cache[Head(queue)] # "absent"
         /\ ExactFor(Tail(queue), [refcount EXCEPT ![Head(queue)] = @ - 1])
         /\ queue' = Tail(queue)
         /\ refcount' = [refcount EXCEPT ![Head(queue)] = @ - 1]
         /\ cache' = IF refcount[Head(queue)] = 1
                     THEN [cache EXCEPT ![Head(queue)] = "absent"] ELSE cache
         /\ UNCHANGED <<stack, fault>>
<1> DEFINE k == Head(queue)
<1>1. Cached = Counted /\ ~TopAt("compact") /\ fault = None
  BY DEF BooksInv, CachedIsQueued, Purge, TopAt
<1>2. IsFiniteSet(Cached) /\ Cardinality(Cached) > 0
  <2>1. Cached \in SUBSET Keys
    BY DEF Cached
  <2>2. IsFiniteSet(Cached)
    BY <2>1, FS_Subset, LruCacheAssumption
  <2>3. QED
    BY <2>2, FS_CardinalityType, LruCacheAssumption DEF Purge
<1>3. queue # <<>>
  <2>1. PICK j \in Counted : TRUE
    BY <1>1, <1>2, FS_EmptySet
  <2>2. Cardinality(Occurrences(queue, j)) # 0
    BY <2>1 DEF Counted, BooksInv, RefcountIsExact
  <2>3. QED
    BY <2>2, OccurrencesEmpty
<1>4. /\ k \in Keys /\ Tail(queue) \in Seq(Keys)
      /\ refcount[k] > 0
      /\ ExactFor(Tail(queue), [refcount EXCEPT ![k] = @ - 1])
  BY <1>3, ExactTail
  DEF TypeInv, TypeOK, BooksInv, RefcountIsExact, ExactFor
<1>5. cache[k] # "absent"
  BY <1>1, <1>4 DEF Cached, Counted
<1>6. PopError = None
  BY <1>3, <1>4 DEF PopError, TypeInv, TypeOK
<1>7. /\ queue' = Tail(queue)
      /\ refcount' = [refcount EXCEPT ![k] = @ - 1]
      /\ cache' = IF refcount[k] = 1 THEN [cache EXCEPT ![k] = "absent"]
                                     ELSE cache
      /\ UNCHANGED <<stack, fault>>
  BY <1>5, <1>6 DEF Purge
<1>8. QED
  BY <1>1, <1>3, <1>4, <1>5, <1>7 DEF Purge, TypeInv, TypeOK

LEMMA PurgeKeepsBooks ==
  ASSUME TypeInv, BooksInv, Purge
  PROVE  BooksInv'
<1>1. ~TopAt("compact") /\ ~TopAt("record") /\ fault = None
  BY DEF Purge, TopAt
<1>2. Cached' = Counted'
  <2> DEFINE k == Head(queue)
  <2>1. /\ k \in Keys /\ Cached = Counted
        /\ refcount[k] > 0 /\ cache[k] # "absent"
        /\ refcount' = [refcount EXCEPT ![k] = @ - 1]
        /\ cache' = IF refcount[k] = 1 THEN [cache EXCEPT ![k] = "absent"]
                                       ELSE cache
    BY PurgeFacts
  <2> HIDE DEF k
  <2>2. QED
    BY <2>1 DEF Cached, Counted, TypeInv, TypeOK
<1>3. CachedIsQueued' /\ CompactionInv'
  BY <1>1, <1>2, PurgeFacts DEF Purge, CachedIsQueued, CompactionInv, TopAt, Top
<1>4. QED
  BY <1>3, PurgeFacts, LruCacheAssumption
  DEF BooksInv, RefcountIsExact, ExactFor, NoLookupError

LEMMA PurgedKeepsBooks ==
  ASSUME TypeInv, BooksInv, Purged
  PROVE  BooksInv'
<1>1. stack # <<>> /\ Top \in Frame /\ Len(queue) \in Nat
  BY TopType, LenProperties DEF Purged, TopAt, TypeInv, TypeOK
<1>2. Cached = Counted
  BY DEF BooksInv, CachedIsQueued, Purged, TopAt
<1>3. UNCHANGED <<queue, refcount, fault>> /\ Cached' = Cached
        /\ Counted' = Counted
  BY DEF Purged, books, Cached, Counted
<1>4. ~TopAt("record")' /\ CompactionInv'
  <2> DEFINE f == [Top EXCEPT !.at = "compact", !.todo = Len(queue)]
  <2>1. CASE stack' = Callers
    <3>1. AtRest'
      BY <1>1, <2>1, PopFacts DEF TypeInv, TypeOK
    <3>2. QED
      BY <3>1 DEF AtRest, InF, TopAt, CallSites, CompactionInv
  <2>2. CASE stack' = Append(Callers, f)
    <3>1. f \in Frame /\ f.at = "compact" /\ f.todo = Len(queue)
      BY <1>1 DEF Frame, Stages
    <3>2. Top' = f
      BY <1>1, <2>2, <3>1, ReplaceFacts DEF TypeInv, TypeOK
    <3>3. QED
      BY <1>1, <1>3, <3>1, <3>2 DEF CompactionInv, TopAt
  <2>3. QED
    BY <2>1, <2>2 DEF Purged
<1>5. QED
  BY <1>2, <1>3, <1>4
  DEF BooksInv, RefcountIsExact, CachedIsQueued, NoLookupError

(* What an iteration of the compaction does to the deque and the counts:   *)
(* it rotates a key that is queued once, and drops another one.            *)
LEMMA CompactFacts ==
  ASSUME TypeInv, BooksInv, Compact
  PROVE  /\ stack # <<>> /\ Top.at = "compact" /\ Top.todo \in Nat \ {0}
         /\ Top.todo <= Len(queue) /\ Len(queue) \in Nat
         /\ queue # <<>> /\ queue \in Seq(Keys) /\ refcount \in [Keys -> Nat]
         /\ stack' # <<>> /\ Top'.at = "compact" /\ Top'.todo = Top.todo - 1
         /\ UNCHANGED fault
         /\ \/ /\ refcount[Head(queue)] = 1
               /\ queue' = Append(Tail(queue), Head(queue))
               /\ refcount' = refcount
            \/ /\ refcount[Head(queue)] > 1
               /\ queue' = Tail(queue)
               /\ refcount' = [refcount EXCEPT ![Head(queue)] = @ - 1]
<1> DEFINE k == Head(queue)
           f == [Top EXCEPT !.todo = @ - 1]
<1>1. /\ stack # <<>> /\ Top \in Frame /\ Top.at = "compact" /\ Top.todo > 0
      /\ Top.todo <= Len(queue)
  BY TopType DEF Compact, TopAt, TypeInv, BooksInv, CompactionInv
<1>2. /\ fault = None /\ Len(queue) \in Nat /\ queue \in Seq(Keys)
      /\ refcount \in [Keys -> Nat] /\ Top.todo \in Nat
  BY <1>1, LenProperties DEF Compact, TypeInv, TypeOK, Frame
<1>3. queue # <<>>
  BY <1>1, <1>2, EmptySeq
<1>4. k \in Keys /\ refcount[k] > 0 /\ refcount[k] \in Nat
  BY <1>2, <1>3, ExactTail DEF BooksInv, RefcountIsExact, ExactFor
<1>5. PopError = None
  BY <1>3, <1>4 DEF PopError
<1>6. f \in Frame /\ f.at = "compact" /\ f.todo = Top.todo - 1
  BY <1>1 DEF Frame
<1>7. /\ queue' = IF refcount[k] = 1 THEN Append(Tail(queue), k)
                                     ELSE Tail(queue)
      /\ refcount' = [refcount EXCEPT ![k] = IF refcount[k] = 1 THEN 1
                                                                ELSE @ - 1]
      /\ stack' = Append(Callers, f)
      /\ UNCHANGED fault
  BY <1>5 DEF Compact
<1>8. stack' # <<>> /\ Top' = f
  BY <1>1, <1>6, <1>7, ReplaceFacts DEF TypeInv, TypeOK
<1>9. refcount[k] = 1 => refcount' = refcount
  BY <1>2, <1>4, <1>7
<1>10. refcount[k] # 1 => /\ refcount[k] > 1
                          /\ refcount' = [refcount EXCEPT ![k] = @ - 1]
  BY <1>4, <1>7
<1>11. QED
  BY <1>1, <1>2, <1>3, <1>6, <1>7, <1>8, <1>9, <1>10

LEMMA CompactKeepsBooks ==
  ASSUME TypeInv, BooksInv, Compact
  PROVE  BooksInv'
<1> DEFINE k == Head(queue)
           less == [refcount EXCEPT ![k] = @ - 1]
<1>1. /\ Top.at = "compact" /\ Top.todo \in Nat \ {0}
      /\ Top.todo <= Len(queue) /\ Len(queue) \in Nat
      /\ queue # <<>> /\ queue \in Seq(Keys) /\ refcount \in [Keys -> Nat]
      /\ Top'.at = "compact" /\ Top'.todo = Top.todo - 1
      /\ UNCHANGED fault
      /\ \/ /\ refcount[k] = 1 /\ refcount' = refcount
            /\ queue' = Append(Tail(queue), k)
         \/ refcount[k] > 1 /\ refcount' = less /\ queue' = Tail(queue)
  BY CompactFacts
<1>2. /\ k \in Keys /\ Tail(queue) \in Seq(Keys)
      /\ Len(Tail(queue)) = Len(queue) - 1
      /\ ExactFor(Tail(queue), less)
      /\ ExactFor(Append(Tail(queue), k), refcount)
  <2>1. ExactFor(queue, refcount)
    BY DEF BooksInv, RefcountIsExact, ExactFor
  <2>2. /\ k \in Keys /\ Tail(queue) \in Seq(Keys)
        /\ ExactFor(Tail(queue), less)
    BY <1>1, <2>1, ExactTail
  <2>3. ExactFor(Append(Tail(queue), k), refcount)
    BY <1>1, <2>1, ExactRotate
  <2>4. QED
    BY <1>1, <2>2, <2>3, HeadTailProperties
<1>3. Cached = Counted /\ Cached' = Cached
  BY DEF BooksInv, CachedIsQueued, Compact, TopAt, Fails, Cached
<1>4. Counted' = Counted
  BY <1>1, <1>2 DEF Counted
<1>5. CachedIsQueued'
  BY <1>1, <1>3, <1>4 DEF CachedIsQueued, TopAt
<1>6. CompactionInv'
  <2>1. Len(Append(Tail(queue), k)) = Len(queue)
    BY <1>1, <1>2, AppendProperties
  <2>2. Len(queue') \in {Len(queue), Len(queue) - 1}
    BY <1>1, <1>2, <2>1
  <2>3. QED
    BY <1>1, <2>2 DEF CompactionInv
<1>7. RefcountIsExact'
  BY <1>1, <1>2 DEF RefcountIsExact, ExactFor
<1>8. QED
  BY <1>1, <1>5, <1>6, <1>7 DEF BooksInv, NoLookupError

LEMMA CompactedKeepsBooks ==
  ASSUME TypeInv, BooksInv, Compacted
  PROVE  BooksInv'
<1>1. UNCHANGED <<cache, queue, refcount>> /\ Cached' = Cached
        /\ Counted' = Counted
  BY DEF Compacted, Fails, books, Cached, Counted
<1>2. Cached = Counted /\ stack # <<>>
  BY DEF BooksInv, CachedIsQueued, Compacted, TopAt
<1>3. CASE stack' = Callers /\ fault' = fault
  <2>1. AtRest'
    BY <1>2, <1>3, PopFacts DEF TypeInv, TypeOK
  <2>2. QED
    BY <1>1, <1>2, <1>3, <2>1
    DEF BooksInv, RefcountIsExact, CachedIsQueued, CompactionInv,
        NoLookupError, AtRest, InF, TopAt, CallSites
<1>4. CASE stack' = stack /\ fault' = "AssertionError"
  BY <1>1, <1>4
  DEF BooksInv, RefcountIsExact, CachedIsQueued, CompactionInv,
      NoLookupError, TopAt, Top
<1>5. QED
  BY <1>3, <1>4 DEF Compacted, Fails

LEMMA GrowKeepsBooks ==
  ASSUME TypeInv, BooksInv, NEW k \in Keys, Grow(k)
  PROVE  BooksInv'
<1>1. Cached' = Cached /\ Counted' = Counted
  BY DEF Grow, books, Cached, Counted, TypeInv, TypeOK
<1>2. UNCHANGED <<queue, refcount, stack, fault>>
  BY DEF Grow, books
<1>3. QED
  BY <1>1, <1>2
  DEF BooksInv, RefcountIsExact, CachedIsQueued, CompactionInv, NoLookupError,
      TopAt, Top

(* Every reachable state has exact books.                                  *)
LEMMA BooksInvariant == Spec => []BooksInv
<1>1. Init => BooksInv
  <2> SUFFICES ASSUME Init PROVE BooksInv
    OBVIOUS
  <2>1. RefcountIsExact
    BY OccurrencesEmpty DEF Init, RefcountIsExact
  <2>2. QED
    BY <2>1, LruCacheAssumption
    DEF Init, BooksInv, CachedIsQueued, CompactionInv, NoLookupError, Cached,
        Counted, TopAt
<1>2. TypeInv /\ BooksInv /\ [Next]_vars => BooksInv'
  <2> SUFFICES ASSUME TypeInv, BooksInv, [Next]_vars PROVE BooksInv'
    OBVIOUS
  <2>1. CASE UNCHANGED vars
    BY <2>1
    DEF vars, books, BooksInv, RefcountIsExact, CachedIsQueued, CompactionInv,
        NoLookupError, Cached, Counted, TopAt, Top
  <2>2. QED
    BY <2>1, CallKeepsBooks, RaiseKeepsBooks, ReturnKeepsBooks,
       RecordKeepsBooks, PurgeKeepsBooks, PurgedKeepsBooks, CompactKeepsBooks,
       CompactedKeepsBooks, GrowKeepsBooks
    DEF Next
<1>3. QED
  BY <1>1, <1>2, TypeCorrect, PTL DEF Spec

(* The counts are those of the deque, the cached keys are those that can   *)
(* be evicted, and no popleft, no refcount[k] and no del of lines 65-79    *)
(* ever fails: for every f, nested calls and exceptions included.          *)
THEOREM BooksAreExact ==
  Spec => [](RefcountIsExact /\ CachedIsQueued /\ NoLookupError)
<1>1. BooksInv => RefcountIsExact /\ CachedIsQueued /\ NoLookupError
  BY DEF BooksInv
<1>2. QED
  BY <1>1, BooksInvariant, PTL

(* A key whose value is cached is in the deque, so that it can be evicted. *)
THEOREM CachedAreQueued == Spec => []CachedIsQueued
BY BooksAreExact, PTL
-----------------------------------------------------------------------------
(***************************************************************************)
(* The bounds are established by the loop of line 65 and kept during the   *)
(* compaction, whose assertion (line 80) bounds the deque.                 *)
(***************************************************************************)
Full == TopAt("compact") => Cardinality(Cached) <= MaxSize
SizeInv == SizeBound /\ Full

LEMMA CachedFinite == IsFiniteSet(Cached) /\ Cardinality(Cached) \in Nat
<1>1. Cached \in SUBSET Keys
  BY DEF Cached
<1>2. QED
  BY <1>1, FS_Subset, FS_CardinalityType, LruCacheAssumption

(* Outside the wrapper at most maxsize values are cached and at most four  *)
(* times as many keys are queued, whatever f does.                         *)
THEOREM SizeIsBounded == Spec => []SizeBound
<1> USE LruCacheAssumption
<1>1. Init => SizeInv
  <2> SUFFICES ASSUME Init PROVE SizeInv
    OBVIOUS
  <2>1. Cardinality(Cached) = 0 /\ Len(queue) = 0 /\ ~TopAt("compact")
    BY FS_EmptySet, EmptySeq DEF Init, Cached, TopAt
  <2>2. QED
    BY <2>1 DEF SizeInv, SizeBound, Full
<1>2. TypeInv /\ SizeInv /\ [Next]_vars => SizeInv'
  <2> SUFFICES ASSUME TypeInv, SizeInv, [Next]_vars PROVE SizeInv'
    OBVIOUS
  <2>1. ASSUME AtRest, Cached' = Cached, UNCHANGED queue,
               stack' = <<>> \/ Top'.at # "compact"
        PROVE  SizeInv'
    BY <2>1 DEF SizeInv, SizeBound, Full, TopAt
  <2>2. ASSUME NEW k \in Keys, Call(k) PROVE SizeInv'
    <3>1. \/ stack' = stack
          \/ \E at \in CallSites \cup {"record"} :
               stack' = Append(stack, NewFrame(k, at))
      BY <2>2, MissFacts DEF Call, TypeInv, CallSites
    <3>2. stack' = <<>> \/ Top'.at # "compact"
      <4>1. CASE stack' = stack
        BY <2>2, <4>1 DEF Call, AtRest, InF, Top, CallSites
      <4>2. ASSUME NEW at \in CallSites \cup {"record"},
                   stack' = Append(stack, NewFrame(k, at))
            PROVE  Top'.at # "compact"
        <5>1. Top' = NewFrame(k, at)
          BY <2>2, <4>2, PushFacts, NewFrameType
          DEF Call, TypeInv, TypeOK, Stages
        <5>2. QED
          BY <5>1 DEF NewFrame, CallSites
      <4>3. QED
        BY <3>1, <4>1, <4>2
    <3>3. QED
      BY <2>1, <2>2, <3>2 DEF Call, books, Cached
  <2>3. ASSUME FReturns PROVE SizeInv'
    <3>1. stack # <<>> /\ [Top EXCEPT !.at = "record"] \in Frame
      BY <2>3, TopType DEF FReturns, InF, TypeInv, Frame, Stages
    <3>2. Top' = [Top EXCEPT !.at = "record"] /\ stack' # <<>>
      BY <2>3, <3>1, ReplaceFacts DEF FReturns, Become, TypeInv, TypeOK
    <3>3. Top'.at = "record"
      BY <2>3, <3>1, <3>2, TopType DEF Frame, TypeInv
    <3>4. QED
      BY <3>2, <3>3
      DEF SizeInv, SizeBound, Full, AtRest, InF, TopAt, CallSites
  <2>4. ASSUME NEW e \in BOOLEAN, FRaises(e) PROVE SizeInv'
    <3>1. stack # <<>> /\ Top \in Frame /\ AtRest
      BY <2>4, TopType DEF FRaises, AtRest, InF, TypeInv
    <3>2. \/ stack' = Callers
          \/ stack' = Become("first")
          \/ \E at \in CallSites :
               stack' = Append(Callers, NewFrame(Top.key, at))
      BY <2>4, <3>1, MissFacts DEF FRaises, TypeInv, Frame
    <3>3. stack' = <<>> \/ Top'.at # "compact"
      <4>1. CASE stack' = Callers
        <5>1. AtRest'
          BY <3>1, <4>1, PopFacts DEF TypeInv, TypeOK
        <5>2. QED
          BY <5>1 DEF AtRest, InF, CallSites
      <4>2. CASE stack' = Become("first")
        <5>1. /\ [Top EXCEPT !.at = "first"] \in Frame
              /\ [Top EXCEPT !.at = "first"].at = "first"
          BY <3>1 DEF Frame, CallSites
        <5>2. QED
          BY <3>1, <4>2, <5>1, ReplaceFacts DEF Become, TypeInv, TypeOK
      <4>3. ASSUME NEW at \in CallSites,
                   stack' = Append(Callers, NewFrame(Top.key, at))
            PROVE  Top'.at # "compact"
        <5>1. NewFrame(Top.key, at) \in Frame
          BY <3>1, NewFrameType DEF Frame
        <5>2. Top' = NewFrame(Top.key, at)
          BY <3>1, <4>3, <5>1, ReplaceFacts DEF TypeInv, TypeOK
        <5>3. QED
          BY <5>2 DEF NewFrame, CallSites
      <4>4. QED
        BY <3>2, <4>1, <4>2, <4>3
    <3>4. QED
      BY <2>1, <2>4, <3>1, <3>3 DEF FRaises, books, Cached
  <2>5. ASSUME Record PROVE SizeInv'
    <3>1. stack # <<>> /\ [Top EXCEPT !.at = "purge"] \in Frame
      BY <2>5, TopType DEF Record, TopAt, TypeInv, Frame, Stages
    <3>2. Top' = [Top EXCEPT !.at = "purge"] /\ stack' # <<>>
      BY <2>5, <3>1, ReplaceFacts DEF Record, Become, TypeInv, TypeOK
    <3>3. Top'.at = "purge"
      BY <2>5, <3>1, <3>2, TopType DEF Frame, TypeInv
    <3>4. QED
      BY <3>2, <3>3
      DEF SizeInv, SizeBound, Full, AtRest, InF, TopAt, CallSites
  <2>6. ASSUME Purge PROVE SizeInv'
    <3>1. stack' = stack /\ TopAt("purge")
      BY <2>6 DEF Purge, Fails
    <3>2. QED
      BY <3>1
      DEF SizeInv, SizeBound, Full, AtRest, InF, TopAt, Top, CallSites
  <2>7. ASSUME Purged PROVE SizeInv'
    <3>1. /\ stack # <<>> /\ Top \in Frame /\ Len(queue) \in Nat
          /\ Cardinality(Cached) <= MaxSize
          /\ Cached' = Cached /\ queue' = queue
      BY <2>7, TopType, LenProperties
      DEF Purged, TopAt, TypeInv, TypeOK, books, Cached
    <3>2. CASE Len(queue) <= MaxSize * 4
      BY <3>1, <3>2 DEF SizeInv, SizeBound, Full
    <3>3. CASE ~(Len(queue) <= MaxSize * 4)
      <4> DEFINE f == [Top EXCEPT !.at = "compact", !.todo = Len(queue)]
      <4>1. stack' = Append(Callers, f)
        BY <2>7, <3>1, <3>3 DEF Purged
      <4>2. f \in Frame /\ f.at = "compact"
        BY <3>1 DEF Frame, Stages
      <4>3. Top' = f /\ stack' # <<>>
        BY <3>1, <4>1, <4>2, ReplaceFacts DEF TypeInv, TypeOK
      <4>4. ~AtRest'
        BY <4>2, <4>3 DEF AtRest, InF, CallSites
      <4>5. QED
        BY <3>1, <4>4 DEF SizeInv, SizeBound, Full
    <3>4. QED
      BY <3>2, <3>3
  <2>8. ASSUME Compact PROVE SizeInv'
    <3>1. /\ stack # <<>> /\ Top \in Frame /\ Top.at = "compact"
          /\ Top.todo > 0 /\ Cached' = Cached
          /\ Cardinality(Cached) <= MaxSize
      BY <2>8, TopType
      DEF Compact, TopAt, TypeInv, Fails, Cached, SizeInv, Full
    <3>2. stack' # <<>> /\ Top'.at = "compact"
      <4> DEFINE f == [Top EXCEPT !.todo = @ - 1]
      <4>1. f \in Frame /\ f.at = "compact"
        BY <3>1 DEF Frame
      <4>2. CASE stack' = stack
        BY <3>1, <4>2 DEF Top
      <4>3. CASE stack' = Append(Callers, f)
        BY <3>1, <4>1, <4>3, ReplaceFacts DEF TypeInv, TypeOK
      <4>4. QED
        BY <2>8, <4>2, <4>3 DEF Compact, Fails
    <3>3. QED
      BY <3>1, <3>2 DEF SizeInv, SizeBound, Full, AtRest, InF, CallSites
  <2>9. ASSUME Compacted PROVE SizeInv'
    <3>1. /\ TopAt("compact") /\ Cached' = Cached
          /\ Cardinality(Cached) <= MaxSize /\ queue' = queue
      BY <2>9 DEF Compacted, Fails, books, Cached, SizeInv, Full
    <3>2. CASE fault' = "AssertionError" /\ stack' = stack
      BY <3>1, <3>2
      DEF SizeInv, SizeBound, Full, TopAt, Top, AtRest, InF, CallSites
    <3>3. CASE Len(queue) = Cardinality(Cached)
      BY <3>1, <3>3, CachedFinite DEF SizeInv, SizeBound, Full
    <3>4. QED
      BY <2>9, <3>2, <3>3 DEF Compacted, Fails
  <2>10. ASSUME NEW k \in Keys, Grow(k) PROVE SizeInv'
    <3>1. Cached' = Cached /\ UNCHANGED <<queue, stack>> /\ AtRest
      BY <2>10 DEF Grow, books, Cached, TypeInv, TypeOK
    <3>2. QED
      BY <3>1 DEF SizeInv, SizeBound, Full, AtRest, InF, TopAt, Top
  <2>11. CASE UNCHANGED vars
    BY <2>11
    DEF vars, books, SizeInv, SizeBound, Full, Cached, AtRest, InF, TopAt, Top
  <2>12. QED
    BY <2>2, <2>3, <2>4, <2>5, <2>6, <2>7, <2>8, <2>9, <2>10, <2>11 DEF Next
<1>3. QED
  BY <1>1, <1>2, TypeCorrect, PTL DEF Spec, SizeInv
-----------------------------------------------------------------------------
(***************************************************************************)
(* Compaction.  The keys that it keeps are at the end of the deque, behind *)
(* those that it has still to look at, and are there once only: a key that *)
(* it keeps had a count of 1.  When nothing is left to look at every key   *)
(* is queued once, which is what the assertion of line 80 says.            *)
(***************************************************************************)
KeptInv == TopAt("compact") =>
             \A i \in Top.todo + 1..Len(queue) : refcount[queue[i]] = 1

(* The steps that start, continue and end a compaction; every other one    *)
(* is taken outside it.                                                    *)
LEMMA CompactionSteps ==
  ASSUME TypeInv, [Next]_vars
  PROVE  \/ Record \/ Purge \/ Purged \/ Compact
         \/ /\ UNCHANGED <<queue, refcount>> /\ ~TopAt("compact")'
            /\ TopAt("compact") => Compacted
         \/ UNCHANGED <<queue, refcount, stack>>
<1>1. ASSUME NEW k \in Keys, Call(k)
      PROVE  ~TopAt("compact")' /\ ~TopAt("compact")
  <2>1. AtRest /\ stack \in Seq(Frame) /\ StackInv
    BY <1>1 DEF Call, TypeInv, TypeOK
  <2>2. \/ stack' = stack
        \/ \E at \in CallSites \cup {"record"} :
             stack' = Append(stack, NewFrame(k, at))
    BY <1>1, MissFacts DEF Call, TypeInv, CallSites
  <2>3. ASSUME NEW at \in CallSites \cup {"record"},
               stack' = Append(stack, NewFrame(k, at))
        PROVE  ~TopAt("compact")'
    <3>1. Top' = NewFrame(k, at)
      BY <2>1, <2>3, PushFacts, NewFrameType DEF Stages
    <3>2. QED
      BY <3>1 DEF NewFrame, CallSites, TopAt
  <2>4. ~TopAt("compact")
    BY <2>1 DEF AtRest, InF, TopAt, CallSites
  <2>5. stack' = stack => ~TopAt("compact")'
    BY <2>4 DEF TopAt, Top
  <2>6. QED
    BY <2>2, <2>3, <2>4, <2>5
<1>2. ASSUME FReturns
      PROVE  ~TopAt("compact")' /\ ~TopAt("compact")
  <2>1. stack # <<>> /\ Top \in Frame /\ Top.at \in CallSites
    BY <1>2, TopType DEF FReturns, InF, TypeInv
  <2>2. /\ [Top EXCEPT !.at = "record"] \in Frame
        /\ [Top EXCEPT !.at = "record"].at = "record"
    BY <2>1 DEF Frame, Stages
  <2>3. Top'.at = "record"
    BY <1>2, <2>1, <2>2, ReplaceFacts DEF FReturns, Become, TypeInv, TypeOK
  <2>4. QED
    BY <2>1, <2>3 DEF TopAt, CallSites
<1>3. ASSUME NEW e \in BOOLEAN, FRaises(e)
      PROVE  ~TopAt("compact")' /\ ~TopAt("compact")
  <2>1. stack # <<>> /\ Top \in Frame /\ Top.at \in CallSites
    BY <1>3, TopType DEF FRaises, InF, TypeInv
  <2>2. \/ stack' = Callers
        \/ stack' = Become("first")
        \/ \E at \in CallSites :
             stack' = Append(Callers, NewFrame(Top.key, at))
    BY <1>3, <2>1, MissFacts DEF FRaises, TypeInv, Frame
  <2>3. AtRest'
    <3>1. CASE stack' = Callers
      BY <2>1, <3>1, PopFacts DEF TypeInv, TypeOK
    <3>2. CASE stack' = Become("first")
      <4>1. /\ [Top EXCEPT !.at = "first"] \in Frame
            /\ [Top EXCEPT !.at = "first"].at = "first"
        BY <2>1 DEF Frame, CallSites
      <4>2. Top'.at = "first" /\ stack' # <<>>
        BY <2>1, <3>2, <4>1, ReplaceFacts DEF Become, TypeInv, TypeOK
      <4>3. QED
        BY <4>2 DEF AtRest, InF, CallSites
    <3>3. ASSUME NEW at \in CallSites,
                 stack' = Append(Callers, NewFrame(Top.key, at))
          PROVE  AtRest'
      <4>1. NewFrame(Top.key, at) \in Frame
        BY <2>1, NewFrameType DEF Frame
      <4>2. Top' = NewFrame(Top.key, at) /\ stack' # <<>>
        BY <2>1, <3>3, <4>1, ReplaceFacts DEF TypeInv, TypeOK
      <4>3. QED
        BY <4>2 DEF NewFrame, AtRest, InF
    <3>4. QED
      BY <2>2, <3>1, <3>2, <3>3
  <2>4. QED
    BY <2>1, <2>3 DEF TopAt, CallSites, AtRest, InF
<1>4. ASSUME Compacted, stack' = Callers
      PROVE  ~TopAt("compact")'
  <2>1. AtRest'
    BY <1>4, PopFacts DEF Compacted, TopAt, TypeInv, TypeOK
  <2>2. QED
    BY <2>1 DEF AtRest, InF, TopAt, CallSites
<1>5. ASSUME Compacted
      PROVE  /\ UNCHANGED <<queue, refcount>>
             /\ stack' = Callers \/ stack' = stack
  BY <1>5 DEF Compacted, Fails, books
<1>6. ASSUME NEW k \in Keys, Grow(k)
      PROVE  UNCHANGED <<queue, refcount, stack>>
  BY <1>6 DEF Grow, books
<1>7. CASE UNCHANGED vars
  BY <1>7 DEF vars, books
<1>8. ASSUME NEW k \in Keys, Call(k)
      PROVE  UNCHANGED <<queue, refcount>>
  BY <1>8 DEF Call, books
<1>9. ASSUME NEW e \in BOOLEAN, FRaises(e)
      PROVE  UNCHANGED <<queue, refcount>>
  BY <1>9 DEF FRaises, books
<1>10. FReturns => UNCHANGED <<queue, refcount>>
  BY DEF FReturns, books
<1>11. QED
  BY <1>1, <1>2, <1>3, <1>4, <1>5, <1>6, <1>7, <1>8, <1>9, <1>10 DEF Next

LEMMA KeptIsInductive ==
  ASSUME TypeInv, BooksInv, KeptInv, [Next]_vars
  PROVE  KeptInv'
<1>1. ASSUME Record \/ Purge PROVE KeptInv'
  <2>1. CASE Record
    <3>1. stack # <<>> /\ [Top EXCEPT !.at = "purge"] \in Frame
      BY <2>1, TopType DEF Record, TopAt, TypeInv, Frame, Stages
    <3>2. Top' = [Top EXCEPT !.at = "purge"]
      BY <2>1, <3>1, ReplaceFacts DEF Record, Become, TypeInv, TypeOK
    <3>3. Top'.at = "purge"
      BY <2>1, <3>1, <3>2, TopType DEF Frame, TypeInv
    <3>4. QED
      BY <3>3 DEF KeptInv, TopAt
  <2>2. CASE Purge
    BY <2>2 DEF Purge, Fails, KeptInv, TopAt, Top
  <2>3. QED
    BY <1>1, <2>1, <2>2
<1>2. ASSUME Purged PROVE KeptInv'
  <2>1. stack # <<>> /\ Top \in Frame /\ Len(queue) \in Nat /\ queue' = queue
    BY <1>2, TopType, LenProperties DEF Purged, TopAt, TypeInv, TypeOK, books
  <2> DEFINE f == [Top EXCEPT !.at = "compact", !.todo = Len(queue)]
  <2>2. CASE stack' = Callers
    <3>1. AtRest'
      BY <2>1, <2>2, PopFacts DEF TypeInv, TypeOK
    <3>2. QED
      BY <3>1 DEF AtRest, InF, TopAt, CallSites, KeptInv
  <2>3. CASE stack' = Append(Callers, f)
    <3>1. f \in Frame /\ f.todo = Len(queue)
      BY <2>1 DEF Frame, Stages
    <3>2. Top'.todo = Len(queue)
      BY <2>1, <2>3, <3>1, ReplaceFacts DEF TypeInv, TypeOK
    <3>3. QED
      BY <2>1, <3>2 DEF KeptInv
  <2>4. QED
    BY <1>2, <2>2, <2>3 DEF Purged
<1>3. ASSUME Compact PROVE KeptInv'
  <2> DEFINE k == Head(queue)
             n == Len(queue)
             t == Top.todo
             q == queue
  <2>1. /\ t \in Nat \ {0} /\ t <= n /\ n \in Nat /\ q \in Seq(Keys)
        /\ q # <<>> /\ refcount \in [Keys -> Nat] /\ Top'.todo = t - 1
        /\ \/ /\ refcount[k] = 1
              /\ queue' = Append(Tail(q), k)
              /\ refcount' = refcount
           \/ /\ refcount[k] > 1
              /\ queue' = Tail(q)
              /\ refcount' = [refcount EXCEPT ![k] = @ - 1]
    BY <1>3, CompactFacts
  <2>2. \A i \in t + 1..n : refcount[q[i]] = 1
    BY <1>3, CompactFacts DEF KeptInv, TopAt
  <2>3. /\ k \in Keys /\ Tail(q) \in Seq(Keys) /\ Len(Tail(q)) = n - 1
        /\ \A i \in 1..n - 1 : Tail(q)[i] = q[i + 1]
        /\ \A i \in 1..n : q[i] \in Keys
    BY <2>1, HeadTailProperties, ElementOfSeq
  <2> HIDE DEF k, n, t, q
  <2>4. CASE refcount[k] = 1
    <3>1. refcount' = refcount /\ queue' = Append(Tail(q), k)
      BY <2>1, <2>4
    <3>2. /\ Len(queue') = n /\ queue'[n] = k
          /\ \A i \in 1..n - 1 : queue'[i] = q[i + 1]
      BY <2>1, <2>3, <3>1, AppendProperties
    <3>3. \A i \in t..n : refcount'[queue'[i]] = 1
      <4>1. TAKE i \in t..n
      <4>2. i = n \/ (i \in 1..n - 1 /\ i + 1 \in t + 1..n)
        BY <2>1, <4>1
      <4>3. QED
        BY <2>2, <2>4, <3>1, <3>2, <4>2
    <3>4. QED
      BY <2>1, <3>2, <3>3 DEF KeptInv
  <2>5. CASE refcount[k] # 1
    <3>1. /\ queue' = Tail(q) /\ Len(queue') = n - 1
          /\ refcount' = [refcount EXCEPT ![k] = @ - 1]
      BY <2>1, <2>3, <2>5
    <3>2. \A i \in t..n - 1 : refcount'[queue'[i]] = 1
      <4>1. TAKE i \in t..n - 1
      <4>2. i \in 1..n - 1 /\ i + 1 \in t + 1..n /\ i + 1 \in 1..n
        BY <2>1, <4>1
      <4>3. queue'[i] = q[i + 1] /\ refcount[q[i + 1]] = 1
        BY <2>2, <2>3, <3>1, <4>2
      <4>4. q[i + 1] \in Keys /\ q[i + 1] # k
        BY <2>3, <2>5, <4>2, <4>3
      <4>5. QED
        BY <2>1, <3>1, <4>3, <4>4
    <3>3. QED
      BY <2>1, <3>1, <3>2 DEF KeptInv
  <2>6. QED
    BY <2>4, <2>5
<1>4. ASSUME ~TopAt("compact")' PROVE KeptInv'
  BY <1>4 DEF KeptInv
<1>5. ASSUME UNCHANGED <<queue, refcount, stack>> PROVE KeptInv'
  BY <1>5 DEF KeptInv, TopAt, Top
<1>6. QED
  BY <1>1, <1>2, <1>3, <1>4, <1>5, CompactionSteps

LEMMA KeptInvariant == Spec => []KeptInv
<1>1. Init => KeptInv
  BY DEF Init, KeptInv, TopAt
<1>2. QED
  BY <1>1, KeptIsInductive, TypeCorrect, BooksInvariant, PTL DEF Spec

(* A set of naturals has a smallest one.                                   *)
LEMMA SmallestOf ==
  ASSUME NEW T, T \subseteq Nat, T # {}
  PROVE  \E x \in T : \A y \in T : x <= y
<1>1. PICK x \in T : \A y \in T : ~ (<<y, x>> \in OpToRel(<, Nat))
  BY NatLessThanWellFounded, WFMin
<1>2. \A y \in T : ~ (y < x)
  BY <1>1 DEF OpToRel
<1>3. QED
  BY <1>2

(* The sum of counts of 0 and 1 is the number of keys that have one: the   *)
(* smallest set for which the two differ would have an element to remove.  *)
LEMMA SumOfOnes ==
  ASSUME NEW f, IsFiniteSet(DOMAIN f), \A x \in DOMAIN f : f[x] \in {0, 1}
  PROVE  SumFunction(f) = Cardinality({x \in DOMAIN f : f[x] = 1})
<1> DEFINE D == DOMAIN f
           pick(s) == CHOOSE x \in s : TRUE
           step(h, s) == IF s = {} THEN 0 ELSE f[pick(s)] + h[s \ {pick(s)}]
           ones(s) == {x \in s : f[x] = 1}
           iter == CHOOSE h : h = [s \in SUBSET D |-> step(h, s)]
           count == [s \in SUBSET D |-> Cardinality(ones(s))]
<1>1. SumFunction(f) = iter[D]
  BY DEF SumFunction, SumFunctionOnSet, FoldFunctionOnSet, MapThenFoldSet
<1>2. \A s \in SUBSET D : /\ IsFiniteSet(s) /\ IsFiniteSet(ones(s))
                          /\ Cardinality(s) \in Nat
  BY FS_Subset, FS_CardinalityType
<1>3. \A s \in SUBSET D : s # {} => /\ pick(s) \in s
                                    /\ s \ {pick(s)} \in SUBSET D
  OBVIOUS
<1>4. \A s \in SUBSET D : count[s] = step(count, s)
  <2> SUFFICES ASSUME NEW s \in SUBSET D
               PROVE  Cardinality(ones(s)) = step(count, s)
    OBVIOUS
  <2>1. CASE s = {}
    <3>1. ones(s) = {}
      BY <2>1
    <3>2. QED
      BY <2>1, <3>1, FS_EmptySet
  <2>2. CASE s # {}
    <3> DEFINE x == pick(s)
               r == s \ {x}
    <3>1. x \in s /\ r \in SUBSET D
      BY <1>3, <2>2
    <3>2. f[x] \in {0, 1} /\ step(count, s) = f[x] + Cardinality(ones(r))
      BY <2>2, <3>1
    <3>3. ones(s) = IF f[x] = 1 THEN ones(r) \cup {x} ELSE ones(r)
      BY <3>1, <3>2
    <3>4. x \notin ones(r) /\ IsFiniteSet(ones(r)) /\ Cardinality(ones(r)) \in Nat
      BY <1>2, <3>1, FS_CardinalityType
    <3> HIDE DEF ones, step, r, x
    <3>5. f[x] = 1 => Cardinality(ones(s)) = Cardinality(ones(r)) + 1
      BY <3>3, <3>4, FS_AddElement
    <3>6. QED
      BY <3>2, <3>3, <3>4, <3>5
  <2>3. QED
    BY <2>1, <2>2
<1>5. count = [s \in SUBSET D |-> step(count, s)]
  <2> HIDE DEF step
  <2>1. QED
    BY <1>4
<1>6. iter = [s \in SUBSET D |-> step(iter, s)]
  <2> HIDE DEF count, step
  <2>1. QED
    BY <1>5
<1>7. \A s \in SUBSET D : iter[s] = step(iter, s)
  <2> HIDE DEF iter, step
  <2>1. QED
    BY <1>6
<1> DEFINE wrong == {s \in SUBSET D : iter[s] # count[s]}
           sizes == {Cardinality(s) : s \in wrong}
<1>8. ASSUME wrong # {}
      PROVE  FALSE
  <2> HIDE DEF iter, count, step
  <2>1. sizes \subseteq Nat /\ sizes # {}
    BY <1>2, <1>8
  <2>2. PICK n \in sizes : \A m \in sizes : n <= m
    <3> HIDE DEF sizes
    <3>1. QED
      BY <2>1, SmallestOf
  <2>3. PICK s \in wrong : n = Cardinality(s)
    OBVIOUS
  <2>4. s \in SUBSET D /\ iter[s] # count[s]
    BY <2>3
  <2>5. s # {}
    <3>1. step(iter, {}) = step(count, {})
      BY DEF step
    <3>2. QED
      BY <1>4, <1>7, <2>4, <3>1
  <2> DEFINE r == s \ {pick(s)}
  <2>6. pick(s) \in s /\ r \in SUBSET D
    BY <1>3, <2>4, <2>5
  <2>7. Cardinality(r) < Cardinality(s)
    <3> HIDE DEF pick
    <3>1. IsFiniteSet(s) /\ Cardinality(s) \in Nat
      BY <1>2, <2>4
    <3>2. Cardinality(r) = Cardinality(s) - 1
      BY <2>6, <3>1, FS_RemoveElement
    <3>3. QED
      BY <3>1, <3>2
  <2>8. r \notin wrong
    <3>1. Cardinality(r) \in Nat /\ Cardinality(s) \in Nat
      BY <1>2, <2>4, <2>6
    <3>2. r \in wrong => Cardinality(r) \in sizes
      OBVIOUS
    <3> HIDE DEF sizes, wrong, r
    <3>3. QED
      BY <2>2, <2>3, <2>7, <3>1, <3>2
  <2>9. iter[r] = count[r]
    BY <2>6, <2>8
  <2>10. step(iter, s) = step(count, s)
    BY <2>5, <2>9 DEF step
  <2>11. QED
    BY <1>4, <1>7, <2>4, <2>10
<1>9. iter[D] = count[D]
  <2> HIDE DEF iter, count
  <2>1. QED
    BY <1>8
<1>10. QED
  BY <1>1, <1>9

(* The assertion: keys that are queued once each are as many as the places *)
(* of the deque and as the sum of their counts.                            *)
LEMMA AssertionHolds ==
  ASSUME TypeInv, BooksInv, KeptInv, TopAt("compact"), Top.todo = 0
  PROVE  /\ Len(queue) = Cardinality(Cached)
         /\ Cardinality(Cached) = Cardinality(Counted)
         /\ Cardinality(Counted) = SumFunction(refcount)
<1> DEFINE n == Len(queue)
<1>1. /\ queue \in Seq(Keys) /\ n \in Nat /\ refcount \in [Keys -> Nat]
      /\ queue \in [1..n -> Keys]
  BY LenProperties DEF TypeInv, TypeOK
<1>2. Cached = Counted
  BY DEF BooksInv, CachedIsQueued, TopAt
<1>3. \A i \in 1..n : refcount[queue[i]] = 1
  BY DEF KeptInv
<1>4. \A k \in Keys : /\ refcount[k] = Cardinality(Occurrences(queue, k))
                      /\ IsFiniteSet(Occurrences(queue, k))
  BY <1>1, OccurrencesFinite DEF BooksInv, RefcountIsExact
<1>5. \A k \in Keys : refcount[k] # 0 => \E i \in 1..n : queue[i] = k
  <2>1. TAKE k \in Keys
  <2>2. refcount[k] # 0 => Occurrences(queue, k) # {}
    BY <1>4, FS_EmptySet
  <2>3. QED
    BY <2>2 DEF Occurrences
<1>6. \A i, j \in 1..n : queue[i] = queue[j] => i = j
  <2>1. SUFFICES ASSUME NEW i \in 1..n, NEW j \in 1..n, queue[i] = queue[j]
                 PROVE  i = j
    OBVIOUS
  <2>2. queue[i] \in Keys /\ refcount[queue[i]] = 1
    BY <1>1, <1>3
  <2>3. \E x : Occurrences(queue, queue[i]) = {x}
    BY <1>4, <2>2, FS_Singleton
  <2>4. {i, j} \subseteq Occurrences(queue, queue[i])
    BY <2>1 DEF Occurrences
  <2>5. QED
    BY <2>3, <2>4
<1>7. Cardinality(Counted) = n
  <2>1. queue \in [1..n -> Counted]
    BY <1>1, <1>3 DEF Counted
  <2>2. \A k \in Counted : \E i \in 1..n : queue[i] = k
    BY <1>1, <1>5 DEF Counted
  <2>3. queue \in Bijection(1..n, Counted)
    BY <1>6, <2>1, <2>2, Fun_IsBij
  <2>4. IsFiniteSet(1..n) /\ Cardinality(1..n) = n
    <3> HIDE DEF n
    <3>1. Cardinality(1..n) = IF 1 > n THEN 0 ELSE n - 1 + 1
      BY <1>1, FS_Interval
    <3>2. QED
      BY <1>1, <3>1, FS_Interval
  <2>5. ExistsBijection(1..n, Counted)
    BY <2>3, Fun_ExistsBij
  <2>6. QED
    BY <2>4, <2>5, FS_Bijection
<1>8. SumFunction(refcount) = Cardinality(Counted)
  <2>1. \A k \in Keys : refcount[k] \in {0, 1}
    BY <1>1, <1>3, <1>5
  <2>2. DOMAIN refcount = Keys
    BY <1>1
  <2>3. SumFunction(refcount) = Cardinality({k \in Keys : refcount[k] = 1})
    BY <2>1, <2>2, SumOfOnes, LruCacheAssumption
  <2>4. {k \in Keys : refcount[k] = 1} = Counted
    BY <2>1 DEF Counted
  <2>5. QED
    BY <2>3, <2>4
<1>9. QED
  BY <1>2, <1>7, <1>8

(* The bookkeeping never raises: popleft finds a key, the key it finds is  *)
(* in both dicts, and the assertion of line 80 holds after a compaction,   *)
(* for every f, nested calls and exceptions included.                      *)
THEOREM BookkeepingNeverRaises == Spec => []NoFault
<1>1. Init => NoFault
  BY DEF Init, NoFault
<1>2. TypeInv /\ BooksInv /\ BooksInv' /\ KeptInv /\ NoFault /\ [Next]_vars
        => NoFault'
  <2> SUFFICES ASSUME TypeInv, BooksInv, BooksInv', KeptInv, fault = None,
                      [Next]_vars
               PROVE  fault' = None
    BY DEF NoFault
  <2>1. ASSUME Purge \/ Compact PROVE fault' = None
    <3>1. fault' = fault \/ fault' \in {"IndexError", "KeyError"}
      BY <2>1, LruCacheAssumption DEF Purge, Compact, Fails, PopError
    <3>2. QED
      BY <3>1 DEF BooksInv, NoLookupError
  <2>2. ASSUME Compacted PROVE fault' = None
    BY <2>2, AssertionHolds DEF Compacted
  <2>3. QED
    BY <2>1, <2>2 DEF Next, Call, Grow, FRaises, FReturns, Record, Purged, vars
<1>3. QED
  BY <1>1, <1>2, TypeCorrect, BooksInvariant, KeptInvariant, PTL DEF Spec
-----------------------------------------------------------------------------
(***************************************************************************)
(* Held exceptions.  One whose count has reached hold_exception, or that   *)
(* is older than maxsec, is spent: it is not raised again (line 38).  When *)
(* the cached function neither calls its own wrapper nor raises KeyError,  *)
(* a key that has a value is left with no exception or with a spent one.   *)
(***************************************************************************)
Spent(h) == h = None \/ h.count = Hold \/ ~h.fresh

HeldOf(k) ==
  /\ held[k] # None => ~held[k].keyError /\ latest[k] # None /\ Hold > 0
  /\ cache[k] # "absent" \/ latest[k] = "value" => Spent(held[k])

InCall(at, k) ==
  /\ at = "first" => held[k] = None
  /\ at = "reheld" => Spent(held[k])
  /\ at \in {"first", "reheld"} => cache[k] = "absent" /\ Hold > 0
  /\ at = "expired" => cache[k] # "absent"
  /\ at = "plain" => Hold = 0

HeldInv == /\ Len(stack) <= 1
           /\ \A k \in Keys : HeldOf(k)
           /\ stack # <<>> => InCall(Top.at, Top.key)

(* With at most one call, its return leaves no other one.                  *)
LEMMA SingleCall ==
  ASSUME stack \in Seq(Frame), Len(stack) <= 1
  PROVE  /\ stack # <<>> => Callers = <<>>
         /\ Len(stack) < 1 => stack = <<>>
         /\ \A f \in Frame : stack' = Append(<<>>, f) =>
              stack' # <<>> /\ Len(stack') = 1 /\ Top' = f
<1>1. stack # <<>> => Len(stack) = 1
  <2>1. SUFFICES ASSUME stack # <<>> PROVE Len(stack) = 1
    OBVIOUS
  <2>2. Len(stack) \in Nat /\ Len(stack) >= 1
    BY <2>1, EmptySeq, LenProperties
  <2> DEFINE n == Len(stack)
  <2>3. n \in Nat /\ n >= 1 /\ n <= 1
    BY <2>2
  <2> HIDE DEF n
  <2>4. n = 1
    BY <2>3
  <2>5. QED
    BY <2>4 DEF n
<1>2. Len(stack) \in Nat /\ (stack = <<>> => Len(stack) = 0)
  BY LenProperties, EmptySeq
<1>3. stack # <<>> => Callers = <<>>
  BY <1>1, SubSeqEmpty DEF Callers
<1>4. ASSUME NEW f \in Frame, stack' = Append(<<>>, f)
      PROVE  stack' # <<>> /\ Len(stack') = 1 /\ Top' = f
  <2>1. <<>> \in Seq(Frame) /\ Len(<<>>) = 0
    BY EmptySeq
  <2>2. stack' \in Seq(Frame) /\ Len(stack') = 1 /\ stack'[1] = f
    BY <1>4, <2>1, AppendProperties
  <2>3. QED
    BY <2>1, <2>2 DEF Top
<1>5. QED
  BY <1>1, <1>2, <1>3, <1>4

(* A miss counts an exception up until it is spent, and calls f again only *)
(* when there is none or it is.                                            *)
LEMMA MissHeld ==
  ASSUME TypeInv, HeldInv, NEW k \in Keys, cache[k] = "absent",
         Miss(k, <<>>), UNCHANGED <<cache, latest>>
  PROVE  HeldInv'
<1> USE LruCacheAssumption
<1>1. stack \in Seq(Frame) /\ Len(stack) <= 1 /\ HeldOf(k)
  BY DEF HeldInv, TypeInv, TypeOK
<1>2. ASSUME NEW at \in CallSites, stack' = Append(<<>>, NewFrame(k, at)),
             InCall(at, k)', \A j \in Keys : HeldOf(j)'
      PROVE  HeldInv'
  <2>1. NewFrame(k, at) \in Frame
    BY <1>2, NewFrameType
  <2>2. Len(stack') = 1 /\ Top' = NewFrame(k, at)
    BY <1>1, <1>2, <2>1, SingleCall
  <2>3. QED
    BY <1>2, <2>2 DEF HeldInv, NewFrame
<1>3. CASE held' = held /\ (held[k] = None \/ Hold = 0)
  <2>1. \A j \in Keys : HeldOf(j)'
    BY <1>3 DEF HeldInv, HeldOf
  <2>2. \/ Hold = 0 /\ stack' = Append(<<>>, NewFrame(k, "plain"))
        \/ /\ held[k] = None /\ Hold > 0
           /\ stack' = Append(<<>>, NewFrame(k, "first"))
    BY <1>3 DEF Miss
  <2>3. Hold = 0 => InCall("plain", k)'
    BY DEF InCall
  <2>4. held[k] = None /\ Hold > 0 => InCall("first", k)'
    BY <1>3 DEF InCall
  <2>5. QED
    BY <1>2, <2>1, <2>2, <2>3, <2>4 DEF CallSites
<1>4. CASE held[k] # None /\ Hold # 0
  <2> DEFINE h == held[k]
             c == IF h.count < Hold THEN h.count + 1 ELSE Hold
             g == held'[k]
  <2>1. h \in Exception /\ h.count \in 0..Hold /\ c \in 0..Hold
    BY <1>4 DEF TypeInv, TypeOK, Exception
  <2>2. held' = [held EXCEPT ![k].count = c]
    BY <1>4 DEF Miss
  <2>3. g = [h EXCEPT !.count = c] /\ \A j \in Keys \ {k} : held'[j] = held[j]
    BY <2>2 DEF TypeInv, TypeOK
  <2>4. g.count = c /\ g.fresh = h.fresh /\ g.keyError = h.keyError
    BY <2>1, <2>3 DEF Exception
  <2>5. ~h.keyError /\ (latest[k] = "value" => Spent(h)) /\ latest[k] # None
    BY <1>1, <1>4 DEF HeldOf
  <2> HIDE DEF g
  <2>6. Spent(h) => Spent(g)
    <3>1. h.count = Hold => g.count = Hold
      BY <2>1, <2>4
    <3>2. ~h.fresh => ~g.fresh
      BY <2>4
    <3>3. QED
      BY <1>4, <3>1, <3>2 DEF Spent
  <2>7. HeldOf(k)'
    <3>1. ~g.keyError
      BY <2>4, <2>5
    <3>2. cache'[k] = "absent" /\ latest' = latest
      OBVIOUS
    <3>3. QED
      BY <1>4, <2>5, <2>6, <3>1, <3>2 DEF HeldOf, Spent, g
  <2>8. \A j \in Keys : HeldOf(j)'
    <3>1. \A j \in Keys \ {k} : HeldOf(j)'
      BY <2>3 DEF HeldInv, HeldOf, Spent
    <3>2. QED
      BY <2>7, <3>1
  <2>9. CASE c < Hold /\ h.fresh
    <3>1. stack' = <<>>
      BY <1>4, <2>5, <2>9 DEF Miss
    <3>2. QED
      BY <2>8, <3>1, EmptySeq DEF HeldInv
  <2>10. CASE ~(c < Hold /\ h.fresh)
    <3>1. stack' = Append(<<>>, NewFrame(k, "reheld"))
      BY <1>4, <2>10 DEF Miss
    <3>2. c = Hold \/ ~h.fresh
      BY <2>1, <2>10
    <3>3. Spent(g)
      BY <2>4, <3>2 DEF Spent
    <3>4. InCall("reheld", k)'
      BY <1>4, <3>3 DEF InCall, Spent, g
    <3>5. QED
      BY <1>2, <2>8, <3>1, <3>4 DEF CallSites
  <2>11. QED
    BY <2>9, <2>10
<1>5. QED
  BY <1>3, <1>4 DEF Miss

LEMMA HeldCall ==
  ASSUME TypeInv, HeldInv, MaxDepth = 1, NEW k \in Keys, Call(k)
  PROVE  HeldInv'
<1>1. /\ stack = <<>> /\ stack \in Seq(Frame) /\ Len(stack) <= 1
      /\ UNCHANGED <<cache, latest>> /\ HeldOf(k)
  BY SingleCall DEF Call, HeldInv, TypeInv, TypeOK
<1>2. CASE cache[k] = "absent"
  BY <1>1, <1>2, MissHeld DEF Call
<1>3. ASSUME NEW at \in {"record", "expired"}, InCall(at, k)',
             stack' = Append(<<>>, NewFrame(k, at)), held' = held
      PROVE  HeldInv'
  <2>1. NewFrame(k, at) \in Frame
    BY <1>3, NewFrameType DEF CallSites, Stages
  <2>2. Len(stack') = 1 /\ Top' = NewFrame(k, at)
    BY <1>1, <1>3, <2>1, SingleCall
  <2>3. \A j \in Keys : HeldOf(j)'
    BY <1>1, <1>3 DEF HeldInv, HeldOf
  <2>4. QED
    BY <1>3, <2>2, <2>3 DEF HeldInv, NewFrame
<1>4. CASE cache[k] = "fresh"
  BY <1>1, <1>3, <1>4 DEF Call, InCall
<1>5. CASE cache[k] = "stale"
  BY <1>1, <1>3, <1>5 DEF Call, InCall
<1>6. QED
  BY <1>2, <1>4, <1>5 DEF Call

LEMMA HeldReturn ==
  ASSUME TypeInv, HeldInv, FReturns
  PROVE  HeldInv'
<1> DEFINE f == [Top EXCEPT !.at = "record"]
<1>1. /\ stack # <<>> /\ Top \in Frame /\ Top.at \in CallSites
      /\ stack \in Seq(Frame) /\ Len(stack) <= 1 /\ InCall(Top.at, Top.key)
  BY TopType DEF FReturns, InF, HeldInv, TypeInv, TypeOK
<1>2. f \in Frame /\ f.at = "record"
  BY <1>1 DEF Frame, Stages
<1>0. PICK k \in Keys : k = Top.key
  BY <1>1 DEF Frame
<1>3. stack' = Append(<<>>, f)
  BY <1>1, SingleCall DEF FReturns, Become
<1>4. Len(stack') = 1 /\ Top' = f
  <2> HIDE DEF f
  <2>1. QED
    BY <1>1, <1>2, <1>3, SingleCall
<1>5. (stack # <<>> => InCall(Top.at, Top.key))'
  BY <1>2, <1>4 DEF InCall
<1>6. Spent(held[k])
  <2>1. HeldOf(k)
    BY DEF HeldInv
  <2>2. QED
    BY <1>0, <1>1, <2>1 DEF CallSites, InCall, HeldOf, Spent
<1>7. \A j \in Keys : HeldOf(j)'
  <2>1. /\ held' = held /\ \A j \in Keys \ {k} :
             cache'[j] = cache[j] /\ latest'[j] = latest[j]
    BY <1>0 DEF FReturns, TypeInv, TypeOK
  <2>2. \A j \in Keys \ {k} : HeldOf(j)'
    BY <2>1 DEF HeldInv, HeldOf
  <2>3. HeldOf(k) /\ latest'[k] = "value"
    BY <1>0 DEF HeldInv, FReturns, TypeInv, TypeOK
  <2>4. HeldOf(k)'
    BY <1>6, <2>1, <2>3, LruCacheAssumption DEF HeldOf, TypeInv, TypeOK
  <2>5. QED
    BY <2>2, <2>4
<1>8. QED
  BY <1>4, <1>5, <1>7 DEF HeldInv

(* With no KeyError the wrapper does not call f twice.                     *)
LEMMA HeldRaise ==
  ASSUME TypeInv, HeldInv, KeyErrors = FALSE, NEW e \in BOOLEAN, FRaises(e)
  PROVE  HeldInv'
<1>1. /\ stack # <<>> /\ Top \in Frame /\ Top.at \in CallSites
      /\ stack \in Seq(Frame) /\ Len(stack) <= 1 /\ InCall(Top.at, Top.key)
  BY TopType DEF FRaises, InF, HeldInv, TypeInv, TypeOK
<1>2. ~e
  BY DEF FRaises
<1>3. PICK k \in Keys : k = Top.key
  BY <1>1 DEF Frame
<1>4. /\ stack' = <<>>
      /\ UNCHANGED cache
      /\ latest' = [latest EXCEPT ![k] = "raised"]
  BY <1>1, <1>2, <1>3, SingleCall DEF FRaises
<1>5. \A j \in Keys \ {k} : held'[j] = held[j]
  BY <1>1, <1>2, <1>3 DEF FRaises, TypeInv, TypeOK
<1>6. \A j \in Keys \ {k} : HeldOf(j)'
  BY <1>4, <1>5 DEF HeldInv, HeldOf, Spent, TypeInv, TypeOK
<1>7. HeldOf(k) /\ latest'[k] = "raised"
  BY <1>4 DEF HeldInv, TypeInv, TypeOK
<1>8. HeldOf(k)'
  <2>1. CASE held' = held
    BY <1>4, <1>7, <2>1, LruCacheAssumption DEF HeldOf, Spent
  <2>2. CASE held' # held
    <3> DEFINE new == [count |-> 0, fresh |-> TRUE, keyError |-> e]
    <3>1. Top.at \in {"first", "reheld"} /\ held' = [held EXCEPT ![k] = new]
      BY <1>2, <1>3, <2>2 DEF FRaises
    <3>2. held'[k] = new /\ ~new.keyError
      BY <1>2, <3>1 DEF TypeInv, TypeOK
    <3>3. cache'[k] = "absent"
      BY <1>1, <1>3, <1>4, <3>1 DEF InCall
    <3>4. Hold > 0
      BY <1>1, <3>1 DEF InCall
    <3>5. QED
      BY <1>7, <3>2, <3>3, <3>4, LruCacheAssumption DEF HeldOf
  <2>3. QED
    BY <2>1, <2>2
<1>9. QED
  BY <1>4, <1>6, <1>8, EmptySeq DEF HeldInv

(* The bookkeeping leaves exceptions alone, and an evicted key whose value *)
(* was the latest keeps its spent exception.                               *)
LEMMA HeldRecord ==
  ASSUME TypeInv, HeldInv, Record
  PROVE  HeldInv'
<1> DEFINE f == [Top EXCEPT !.at = "purge"]
<1>1. /\ stack # <<>> /\ Top \in Frame
      /\ stack \in Seq(Frame) /\ Len(stack) <= 1
  BY TopType DEF Record, TopAt, HeldInv, TypeInv, TypeOK
<1>2. f \in Frame /\ f.at = "purge"
  BY <1>1 DEF Frame, Stages
<1>3. stack' = Append(<<>>, f)
  BY <1>1, SingleCall DEF Record, Become
<1>4. Len(stack') = 1 /\ Top' = f
  <2> HIDE DEF f
  <2>1. QED
    BY <1>1, <1>2, <1>3, SingleCall
<1>5. (stack # <<>> => InCall(Top.at, Top.key))'
  BY <1>2, <1>4 DEF InCall
<1>6. \A k \in Keys : HeldOf(k)'
  BY DEF HeldInv, HeldOf, Spent, Record
<1>7. QED
  BY <1>4, <1>5, <1>6 DEF HeldInv

LEMMA HeldPurge ==
  ASSUME TypeInv, BooksInv, HeldInv, Purge
  PROVE  HeldInv'
<1>1. UNCHANGED <<held, stack, latest>> /\ Top.at = "purge" /\ TopAt("purge")
  BY DEF Purge, Fails, TopAt
<1>2. \A k \in Keys : cache'[k] # "absent" => cache[k] # "absent"
  BY DEF Purge, Fails, TypeInv, TypeOK
<1>3. \A k \in Keys : HeldOf(k)'
  BY <1>1, <1>2 DEF HeldInv, HeldOf, Spent
<1>4. (stack # <<>> => InCall(Top.at, Top.key))'
  BY <1>1 DEF InCall, Top
<1>5. QED
  BY <1>1, <1>3, <1>4 DEF HeldInv

LEMMA HeldCompacting ==
  ASSUME TypeInv, BooksInv, HeldInv, Purged \/ Compact \/ Compacted
  PROVE  HeldInv'
<1>1. /\ UNCHANGED <<cache, held, latest>>
      /\ stack # <<>> /\ Top \in Frame /\ Top.at \in {"purge", "compact"}
      /\ stack \in Seq(Frame) /\ Len(stack) <= 1 /\ Len(queue) \in Nat
  BY TopType, LenProperties
  DEF Purged, Compact, Compacted, Fails, TopAt, HeldInv, TypeInv, TypeOK
<1>2. \A k \in Keys : HeldOf(k)'
  BY <1>1 DEF HeldInv, HeldOf, Spent
<1>3. ASSUME NEW f \in Frame, f.at = "compact", stack' = Append(Callers, f)
      PROVE  HeldInv'
  <2>1. Len(stack') = 1 /\ Top' = f
    BY <1>1, <1>3, SingleCall
  <2>2. (stack # <<>> => InCall(Top.at, Top.key))'
    BY <1>3, <2>1 DEF InCall
  <2>3. QED
    BY <1>2, <2>1, <2>2 DEF HeldInv
<1>4. CASE stack' = Callers
  <2>1. stack' = <<>>
    BY <1>1, <1>4, SingleCall
  <2>2. QED
    BY <1>2, <2>1, EmptySeq DEF HeldInv
<1>5. CASE stack' = stack
  <2>1. (stack # <<>> => InCall(Top.at, Top.key))'
    BY <1>1, <1>5 DEF InCall, Top
  <2>2. QED
    BY <1>1, <1>2, <1>5, <2>1 DEF HeldInv
<1>6. CASE Purged
  <2> DEFINE f == [Top EXCEPT !.at = "compact", !.todo = Len(queue)]
  <2>1. f \in Frame /\ f.at = "compact"
    BY <1>1 DEF Frame, Stages
  <2>2. stack' = Callers \/ stack' = Append(Callers, f)
    BY <1>6 DEF Purged
  <2> HIDE DEF f
  <2>3. QED
    BY <1>3, <1>4, <2>1, <2>2
<1>7. CASE Compact
  <2> DEFINE f == [Top EXCEPT !.todo = @ - 1]
  <2>1. Top.at = "compact" /\ Top.todo > 0
    BY <1>7 DEF Compact, TopAt
  <2>2. f \in Frame /\ f.at = "compact"
    BY <1>1, <2>1 DEF Frame
  <2>3. stack' = stack \/ stack' = Append(Callers, f)
    BY <1>7 DEF Compact, Fails
  <2> HIDE DEF f
  <2>4. QED
    BY <1>3, <1>5, <2>2, <2>3
<1>8. QED
  BY <1>4, <1>5, <1>6, <1>7 DEF Compacted, Fails

LEMMA HeldGrow ==
  ASSUME TypeInv, HeldInv, NEW k \in Keys, Grow(k)
  PROVE  HeldInv'
<1>1. UNCHANGED <<stack, latest>>
  BY DEF Grow
<1>2. \A j \in Keys : cache'[j] = "absent" <=> cache[j] = "absent"
  BY DEF Grow, TypeInv, TypeOK
<1>3. \A j \in Keys \ {k} : held'[j] = held[j]
  BY DEF Grow, TypeInv, TypeOK
<1>4. \/ held'[k] = held[k]
      \/ held[k] # None /\ held'[k] = [held[k] EXCEPT !.fresh = FALSE]
  <2>1. \/ held' = held
        \/ held[k] # None /\ held' = [held EXCEPT ![k].fresh = FALSE]
    BY DEF Grow
  <2>2. DOMAIN held = Keys
    BY DEF TypeInv, TypeOK
  <2>3. QED
    BY <2>1, <2>2
<1>5. /\ Spent(held[k]) => Spent(held'[k])
      /\ held[k] = None => held'[k] = None
      /\ held[k] # None /\ ~held[k].keyError => ~held'[k].keyError
  <2>1. CASE held'[k] = held[k]
    BY <2>1 DEF Spent
  <2>2. CASE held'[k] # held[k]
    <3>1. /\ held[k] # None /\ held[k] \in Exception
          /\ held'[k] = [held[k] EXCEPT !.fresh = FALSE]
      BY <1>4, <2>2 DEF TypeInv, TypeOK
    <3>2. ~held'[k].fresh /\ held'[k].keyError = held[k].keyError
      BY <3>1 DEF Exception
    <3>3. Spent(held'[k])
      BY <3>2 DEF Spent
    <3>4. QED
      BY <3>1, <3>2, <3>3
  <2>3. QED
    BY <2>1, <2>2
<1>6. \A j \in Keys : HeldOf(j)'
  <2>1. HeldOf(k)'
    BY <1>1, <1>2, <1>5 DEF HeldInv, HeldOf
  <2>2. \A j \in Keys \ {k} : HeldOf(j)'
    BY <1>1, <1>2, <1>3 DEF HeldInv, HeldOf
  <2>3. QED
    BY <2>1, <2>2
<1>7. ASSUME NEW at, NEW j \in Keys, InCall(at, j)
      PROVE  InCall(at, j)'
  <2>1. held[j] = None => held'[j] = None
    BY <1>3, <1>5
  <2>2. Spent(held[j]) => Spent(held'[j])
    BY <1>3, <1>5
  <2>3. QED
    BY <1>2, <1>7, <2>1, <2>2 DEF InCall
<1>8. (stack # <<>> => InCall(Top.at, Top.key))'
  <2>1. Top' = Top /\ stack' = stack
    BY <1>1 DEF Top
  <2>2. stack # <<>> => Top.key \in Keys /\ InCall(Top.at, Top.key)
    BY TopType DEF HeldInv, TypeInv, Frame
  <2>3. QED
    BY <1>7, <2>1, <2>2
<1>9. QED
  BY <1>1, <1>6, <1>8 DEF HeldInv

(* A held exception is raised again (line 40) only while the latest call   *)
(* of f for that key failed, if f neither calls its own wrapper, which     *)
(* changes the dicts behind the back of the outer call, nor raises         *)
(* KeyError, which the wrapper takes for a miss of a dict.                 *)
THEOREM HeldExceptionIsLatest ==
  ASSUME MaxDepth = 1, KeyErrors = FALSE
  PROVE  Spec => HeldIsLatest
<1> USE LruCacheAssumption
<1>1. Init => HeldInv
  BY EmptySeq DEF Init, HeldInv, HeldOf, Spent
<1>2. TypeInv /\ BooksInv /\ HeldInv /\ [Next]_vars => HeldInv'
  <2> SUFFICES ASSUME TypeInv, BooksInv, HeldInv, [Next]_vars PROVE HeldInv'
    OBVIOUS
  <2>1. CASE UNCHANGED vars
    BY <2>1 DEF vars, HeldInv, HeldOf, InCall, Spent, Top
  <2>2. QED
    BY <2>1, HeldCall, HeldReturn, HeldRaise, HeldRecord, HeldPurge,
       HeldCompacting, HeldGrow
    DEF Next
<1>3. TypeInv /\ HeldInv /\ [Next]_vars =>
        [\A k \in Keys : held[k] # None /\ held'[k] # None
           /\ held'[k].count > held[k].count /\ stack' = stack
         => latest[k] = "raised"]_vars
  <2> SUFFICES ASSUME TypeInv, HeldInv, [Next]_vars, NEW k \in Keys,
                      held[k] # None, held'[k] # None,
                      held'[k].count > held[k].count, stack' = stack
               PROVE  latest[k] = "raised"
    OBVIOUS
  <2>1. held[k] \in Exception /\ held[k].count \in 0..Hold /\ HeldOf(k)
    BY DEF TypeInv, TypeOK, Exception, HeldInv
  <2>2. held'[k] # held[k] /\ held' # held
    BY <2>1
  <2>3. ASSUME NEW j \in Keys, Call(j)
        PROVE  latest[k] = "raised"
    <3> DEFINE h == held[j]
               c == IF h.count < Hold THEN h.count + 1 ELSE Hold
    <3>1. Miss(j, stack) /\ stack \in Seq(Frame)
      BY <2>2, <2>3 DEF Call, TypeInv, TypeOK
    <3>2. \A at : stack' # Append(stack, NewFrame(j, at))
      <4>1. \A at : Append(stack, NewFrame(j, at)) # stack
        BY <3>1
      <4>2. QED
        BY <4>1
    <3>3. held' = [held EXCEPT ![j].count = c] /\ c < Hold /\ h.fresh
      BY <2>2, <3>1, <3>2 DEF Miss
    <3>4. j = k
      <4>1. DOMAIN held = Keys
        BY DEF TypeInv, TypeOK
      <4>2. QED
        BY <2>2, <3>3, <4>1
    <3>5. held[k].count # Hold /\ held[k].fresh
      BY <2>1, <3>3, <3>4
    <3>6. ~Spent(held[k])
      BY <3>5 DEF Spent
    <3>7. latest[k] # "value" /\ latest[k] # None
      BY <2>1, <3>6 DEF HeldOf
    <3>8. QED
      BY <3>7 DEF TypeInv, TypeOK
  <2>4. ASSUME NEW j \in Keys, Grow(j)
        PROVE  FALSE
    <3>1. \/ held' = held
          \/ held[j] # None /\ held' = [held EXCEPT ![j].fresh = FALSE]
      BY <2>4 DEF Grow
    <3>2. held'[k] = held[k] \/ held'[k] = [held[k] EXCEPT !.fresh = FALSE]
      BY <3>1 DEF TypeInv, TypeOK
    <3>3. held'[k].count = held[k].count
      BY <2>1, <3>2 DEF Exception
    <3>4. QED
      BY <2>1, <3>3
  <2>5. ASSUME NEW e \in BOOLEAN, FRaises(e)
        PROVE  FALSE
    <3>1. stack # <<>> /\ stack \in Seq(Frame) /\ Len(stack) <= 1 /\ ~e
      BY <2>5 DEF FRaises, InF, TypeInv, TypeOK, HeldInv
    <3>2. stack' = Callers
      BY <2>5, <3>1 DEF FRaises
    <3>3. QED
      BY <3>1, <3>2, SingleCall
  <2>6. QED
    BY <2>2, <2>3, <2>4, <2>5
    DEF Next, FReturns, Record, Purge, Purged, Compact, Compacted, Fails, vars
<1>4. QED
  BY <1>1, <1>2, <1>3, TypeCorrect, BooksInvariant, PTL DEF Spec, HeldIsLatest
-----------------------------------------------------------------------------
(***************************************************************************)
(* The order of use.  y is used after x when it is in the deque behind     *)
(* every x; a recency of a deque holds its keys once each in this order.   *)
(***************************************************************************)
Before(q, x, y) ==
  \E j \in 1..Len(q) : q[j] = y /\ \A i \in j..Len(q) : q[i] # x

IsRecency(q, r) ==
  /\ r \in Seq(Keys)
  /\ \A k \in Keys : (\E i \in 1..Len(r) : r[i] = k)
                       <=> (\E i \in 1..Len(q) : q[i] = k)
  /\ \A i, j \in 1..Len(r) : i < j => Before(q, r[i], r[j])

LEMMA BeforeIsStrict ==
  ASSUME NEW q \in Seq(Keys), NEW x, NEW y, Before(q, x, y)
  PROVE  ~Before(q, y, x) /\ x # y
<1>1. Len(q) \in Nat
  BY LenProperties
<1>2. PICK j \in 1..Len(q) : q[j] = y /\ \A i \in j..Len(q) : q[i] # x
  BY DEF Before
<1>3. x # y
  BY <1>1, <1>2
<1>4. ASSUME NEW m \in 1..Len(q), q[m] = x, \A i \in m..Len(q) : q[i] # y
      PROVE  FALSE
  <2>1. m \notin j..Len(q) /\ j \notin m..Len(q)
    BY <1>2, <1>4
  <2>2. QED
    BY <1>1, <2>1
<1>5. QED
  BY <1>3, <1>4 DEF Before

(* A deque has one recency: where two of them differ first, each has the   *)
(* other's key at a later place.                                           *)
LEMMA RecencyIsInjective ==
  ASSUME NEW q \in Seq(Keys), NEW r, IsRecency(q, r)
  PROVE  \A i, j \in 1..Len(r) : r[i] = r[j] => i = j
<1>1. Len(r) \in Nat
  BY LenProperties DEF IsRecency
<1>2. \A i, j \in 1..Len(r) : i < j => r[i] # r[j]
  BY BeforeIsStrict DEF IsRecency
<1>3. QED
  BY <1>1, <1>2

LEMMA RecencyLength ==
  ASSUME NEW q \in Seq(Keys), NEW r, IsRecency(q, r)
  PROVE  Len(r) = Cardinality({k \in Keys : \E i \in 1..Len(q) : q[i] = k})
<1> DEFINE S == {k \in Keys : \E i \in 1..Len(q) : q[i] = k}
           n == Len(r)
<1>1. r \in Seq(Keys) /\ n \in Nat /\ r \in [1..n -> Keys]
  BY LenProperties DEF IsRecency
<1>2. r \in [1..n -> S] /\ \A k \in S : \E i \in 1..n : r[i] = k
  BY <1>1 DEF IsRecency
<1>3. \A i, j \in 1..n : r[i] = r[j] => i = j
  BY RecencyIsInjective
<1> HIDE DEF S, n
<1>4. ExistsBijection(1..n, S)
  BY <1>2, <1>3, Fun_IsBij, Fun_ExistsBij
<1>5. Cardinality(1..n) = IF 1 > n THEN 0 ELSE n - 1 + 1
  BY <1>1, FS_Interval
<1>6. IsFiniteSet(1..n) /\ Cardinality(1..n) = n
  BY <1>1, <1>5, FS_Interval
<1>7. Cardinality(S) = n
  BY <1>4, <1>6, FS_Bijection
<1>8. QED
  BY <1>7 DEF S, n

LEMMA RecencyIsUnique ==
  ASSUME NEW q \in Seq(Keys), NEW r, NEW s, IsRecency(q, r), IsRecency(q, s)
  PROVE  r = s
<1>1. r \in Seq(Keys) /\ s \in Seq(Keys) /\ Len(r) = Len(s) /\ Len(r) \in Nat
  <2>1. r \in Seq(Keys) /\ s \in Seq(Keys)
    BY DEF IsRecency
  <2>2. Len(r) = Len(s)
    BY RecencyLength
  <2>3. QED
    BY <2>1, <2>2, LenProperties
<1> DEFINE wrong == {i \in 1..Len(r) : r[i] # s[i]}
<1>2. ASSUME wrong # {}
      PROVE  FALSE
  <2>1. wrong \subseteq Nat
    BY <1>1
  <2>2. PICK i \in wrong : \A j \in wrong : i <= j
    <3> HIDE DEF wrong
    <3>1. QED
      BY <1>2, <2>1, SmallestOf
  <2>3. i \in 1..Len(r) /\ r[i] # s[i] /\ r[i] \in Keys /\ s[i] \in Keys
    BY <1>1, <2>2, ElementOfSeq
  <2>4. \A j \in 1..Len(r) : j < i => r[j] = s[j]
    BY <1>1, <2>2, <2>3
  <2>5. PICK j \in 1..Len(r) : s[j] = r[i]
    BY <1>1, <2>3 DEF IsRecency
  <2>6. PICK m \in 1..Len(r) : r[m] = s[i]
    BY <1>1, <2>3 DEF IsRecency
  <2>7. i < j
    <3>1. j < i => r[j] = r[i]
      BY <2>4, <2>5
    <3>2. ~(j < i)
      BY <1>1, <2>3, <3>1, RecencyIsInjective
    <3>3. QED
      BY <1>1, <2>3, <2>5, <3>2
  <2>8. i < m
    <3>1. m < i => s[m] = s[i]
      BY <2>4, <2>6
    <3>2. ~(m < i)
      BY <1>1, <2>3, <3>1, RecencyIsInjective
    <3>3. QED
      BY <1>1, <2>3, <2>6, <3>2
  <2>9. Before(q, r[i], s[i])
    BY <2>3, <2>6, <2>8 DEF IsRecency
  <2>10. Before(q, s[i], r[i])
    BY <1>1, <2>3, <2>5, <2>7 DEF IsRecency
  <2>11. QED
    BY <2>9, <2>10, BeforeIsStrict
<1>3. \A i \in 1..Len(r) : r[i] = s[i]
  BY <1>2
<1>4. QED
  BY <1>1, <1>3, SeqEqual

(* The positions of the last occurrences are numbered by their ranks.      *)
LEMMA RankIsBijective ==
  ASSUME NEW L, L \subseteq Nat, IsFiniteSet(L)
  PROVE  /\ Cardinality(L) \in Nat
         /\ \A i \in L : Rank(L, i) \in 1..Cardinality(L)
         /\ \A i, j \in L : i < j => Rank(L, i) < Rank(L, j)
         /\ \A r \in 1..Cardinality(L) : \E i \in L : Rank(L, i) = r
<1> DEFINE upto(i) == {j \in L : j <= i}
           n == Cardinality(L)
           rank == [i \in L |-> Rank(L, i)]
<1>1. n \in Nat /\ \A i \in L : upto(i) \subseteq L
  BY FS_CardinalityType
<1>2. \A i \in L : /\ IsFiniteSet(upto(i)) /\ Cardinality(upto(i)) \in Nat
                   /\ Cardinality(upto(i)) <= n
  <2>1. TAKE i \in L
  <2>2. upto(i) \in SUBSET L
    BY <1>1
  <2> HIDE DEF upto
  <2>3. QED
    BY <2>2, FS_Subset, FS_CardinalityType
<1>3. \A i \in L : Rank(L, i) = Cardinality(upto(i))
  BY DEF Rank
<1>4. \A i \in L : Rank(L, i) \in 1..n
  <2>1. TAKE i \in L
  <2>2. upto(i) # {}
    OBVIOUS
  <2> HIDE DEF upto
  <2>3. Cardinality(upto(i)) # 0
    BY <1>2, <2>2, FS_EmptySet
  <2>4. QED
    BY <1>1, <1>2, <1>3, <2>3
<1>5. \A i, j \in L : i < j => Rank(L, i) < Rank(L, j)
  <2>1. SUFFICES ASSUME NEW i \in L, NEW j \in L, i < j
                 PROVE  Rank(L, i) < Rank(L, j)
    OBVIOUS
  <2>2. upto(i) \in SUBSET upto(j) /\ j \in upto(j) /\ j \notin upto(i)
    <3>1. i \in Nat /\ j \in Nat /\ \A m \in L : m \in Nat
      OBVIOUS
    <3>2. \A m \in L : m <= i => m <= j
      BY <2>1, <3>1
    <3>3. upto(i) \in SUBSET upto(j)
      BY <3>2
    <3>4. j <= j /\ ~(j <= i)
      BY <2>1, <3>1
    <3>5. j \in upto(j) /\ j \notin upto(i)
      BY <3>4
    <3>6. QED
      BY <3>3, <3>5
  <2> HIDE DEF upto
  <2>3. upto(i) # upto(j)
    BY <2>2
  <2>4. /\ Cardinality(upto(i)) <= Cardinality(upto(j))
        /\ Cardinality(upto(j)) # Cardinality(upto(i))
    BY <1>2, <2>2, <2>3, FS_Subset
  <2>5. QED
    BY <1>2, <1>3, <2>4
<1>6. rank \in Injection(L, 1..n)
  <2>1. rank \in [L -> 1..n]
    BY <1>4
  <2>2. \A i, j \in L : rank[i] = rank[j] => i = j
    <3>1. \A i, j \in L : i < j => rank[i] # rank[j]
      BY <1>4, <1>5
    <3>2. \A i, j \in L : i < j \/ j < i \/ i = j
      OBVIOUS
    <3> HIDE DEF rank
    <3>3. QED
      BY <3>1, <3>2
  <2> HIDE DEF rank, n
  <2>3. QED
    BY <2>1, <2>2, Fun_IsInj
<1>7. rank \in Surjection(L, 1..n)
  <2> HIDE DEF rank, n
  <2>1. Cardinality(1..n) = IF 1 > n THEN 0 ELSE n - 1 + 1
    BY <1>1, FS_Interval
  <2>2. IsFiniteSet(1..n) /\ Cardinality(1..n) = Cardinality(L)
    BY <1>1, <2>1, FS_Interval DEF n
  <2>3. QED
    BY <1>6, <2>2, FS_Injection
<1>8. \A r \in 1..n : \E i \in L : Rank(L, i) = r
  <2>1. \A r \in 1..n : \E i \in L : rank[i] = r
    <3> HIDE DEF rank, n
    <3>1. QED
      BY <1>7 DEF Surjection
  <2>2. QED
    BY <2>1
<1>9. QED
  BY <1>1, <1>4, <1>5, <1>8

LEMMA RecencyFacts ==
  ASSUME NEW q \in Seq(Keys)
  PROVE  IsRecency(q, Recency(q))
<1> DEFINE L == Lasts(q)
           n == Cardinality(L)
           pos(r) == CHOOSE i \in L : Rank(L, i) = r
           s == Recency(q)
<1>1. /\ Len(q) \in Nat /\ L \subseteq 1..Len(q) /\ L \subseteq Nat
      /\ \A i \in 1..Len(q) : q[i] \in Keys
  BY LenProperties, ElementOfSeq DEF Lasts
<1>2. IsFiniteSet(L)
  <2>1. IsFiniteSet(1..Len(q))
    BY <1>1, FS_Interval
  <2> HIDE DEF L
  <2>2. QED
    BY <1>1, <2>1, FS_Subset
<1>3. /\ n \in Nat
      /\ \A i \in L : Rank(L, i) \in 1..n
      /\ \A i, j \in L : i < j => Rank(L, i) < Rank(L, j)
      /\ \A r \in 1..n : \E i \in L : Rank(L, i) = r
  <2> HIDE DEF L
  <2>1. QED
    BY <1>1, <1>2, RankIsBijective
<1>4. \A r \in 1..n : pos(r) \in L /\ Rank(L, pos(r)) = r
  <2> HIDE DEF L, n
  <2>1. QED
    BY <1>3
<1>5. s = [r \in 1..n |-> q[pos(r)]]
  BY DEF Recency
<1> HIDE DEF pos, s
<1>6. /\ s \in Seq(Keys) /\ Len(s) = n
      /\ \A r \in 1..n : s[r] = q[pos(r)]
  <2>1. \A r \in 1..n : q[pos(r)] \in Keys
    BY <1>1, <1>4
  <2> HIDE DEF L, n
  <2>2. s \in [1..n -> Keys]
    BY <1>5, <2>1
  <2>3. s \in Seq(Keys)
    BY <1>3, <2>2, SeqDef
  <2>4. Len(s) = n
    BY <1>3, <2>2, <2>3, LenProperties
  <2>5. QED
    BY <1>5, <2>3, <2>4
<1>7. \A i, j \in 1..n : i < j => pos(i) < pos(j)
  <2>1. SUFFICES ASSUME NEW i \in 1..n, NEW j \in 1..n, i < j
                 PROVE  pos(i) < pos(j)
    OBVIOUS
  <2>2. pos(i) \in L /\ pos(j) \in L /\ Rank(L, pos(i)) < Rank(L, pos(j))
    BY <1>4, <2>1
  <2>3. pos(i) \in Nat /\ pos(j) \in Nat
    BY <1>1, <2>2
  <2>4. ~(pos(j) < pos(i)) /\ pos(i) # pos(j)
    <3> HIDE DEF L, n
    <3>1. Rank(L, pos(i)) \in Nat /\ Rank(L, pos(j)) \in Nat
      BY <1>3, <2>2
    <3>2. QED
      BY <1>3, <2>2, <3>1
  <2>5. QED
    BY <2>3, <2>4
<1>8. \A i, j \in 1..n : i < j => Before(q, s[i], s[j])
  <2>1. SUFFICES ASSUME NEW i \in 1..n, NEW j \in 1..n, i < j
                 PROVE  Before(q, s[i], s[j])
    OBVIOUS
  <2>2. pos(i) \in L /\ pos(j) \in 1..Len(q) /\ pos(i) < pos(j)
    BY <1>1, <1>4, <1>7, <2>1
  <2>3. pos(i) \in 1..Len(q) /\ \A m \in pos(i) + 1..Len(q) : q[m] # q[pos(i)]
    BY <2>2 DEF Lasts
  <2>4. \A m \in pos(j)..Len(q) : m \in pos(i) + 1..Len(q)
    BY <1>1, <2>2, <2>3
  <2>5. s[i] = q[pos(i)] /\ s[j] = q[pos(j)]
    BY <1>6, <2>1
  <2> HIDE DEF L, n
  <2>6. QED
    BY <2>2, <2>3, <2>4, <2>5 DEF Before
<1>9. \A i \in 1..n : \E m \in 1..Len(q) : q[m] = s[i]
  BY <1>1, <1>4, <1>6
<1>10. \A m \in 1..Len(q) : \E i \in 1..n : s[i] = q[m]
  <2>1. TAKE m \in 1..Len(q)
  <2> DEFINE left(i) == Len(q) - i
             places == {i \in 1..Len(q) : q[i] = q[m]}
             lefts == {left(i) : i \in places}
  <2>2. lefts \subseteq Nat /\ lefts # {}
    BY <1>1, <2>1
  <2>3. PICK x \in lefts : \A y \in lefts : x <= y
    <3> HIDE DEF lefts
    <3>1. QED
      BY <2>2, SmallestOf
  <2>4. PICK p \in places : x = left(p)
    OBVIOUS
  <2>5. p \in 1..Len(q) /\ q[p] = q[m] /\ \A i \in places : i <= p
    <3>1. p \in 1..Len(q) /\ q[p] = q[m]
      BY <2>4
    <3>2. \A i \in places : left(p) <= left(i)
      BY <2>3, <2>4
    <3>3. \A i \in places : i \in Nat
      BY <1>1
    <3>4. \A i \in places : i <= p
      <4>1. TAKE i \in places
      <4>2. i \in Nat /\ p \in Nat /\ left(p) <= left(i)
        BY <1>1, <3>1, <3>2, <3>3
      <4> HIDE DEF places
      <4>3. QED
        BY <1>1, <4>2
    <3>5. QED
      BY <3>1, <3>4
  <2>6. \A i \in p + 1..Len(q) : q[i] # q[p]
    BY <1>1, <2>5
  <2>7. p \in L
    BY <2>5, <2>6 DEF Lasts
  <2>8. pos(Rank(L, p)) = p
    <3> HIDE DEF L, n, places, lefts
    <3>1. Rank(L, p) \in 1..n
      BY <1>3, <2>7
    <3>2. pos(Rank(L, p)) \in L /\ Rank(L, pos(Rank(L, p))) = Rank(L, p)
      BY <1>4, <3>1
    <3> DEFINE r == Rank(L, p)
               o == pos(r)
    <3>3. o \in Nat /\ p \in Nat /\ r \in Nat
      <4>1. o \in L /\ r \in 1..n
        BY <3>1, <3>2
      <4> HIDE DEF o, r
      <4>2. o \in Nat /\ p \in Nat
        BY <1>1, <2>7, <4>1
      <4>3. r \in Nat
        BY <1>3, <4>1
      <4>4. QED
        BY <4>2, <4>3
    <3>4. ~(o < p) /\ ~(p < o)
      <4>1. Rank(L, o) = r /\ o \in L
        BY <3>2
      <4>2. o < p => Rank(L, o) < Rank(L, p)
        BY <1>3, <2>7, <4>1
      <4>3. p < o => Rank(L, p) < Rank(L, o)
        BY <1>3, <2>7, <4>1
      <4>4. QED
        BY <3>3, <4>1, <4>2, <4>3
    <3> HIDE DEF r, o
    <3>5. o = p
      BY <3>3, <3>4
    <3>6. QED
      BY <3>5 DEF o, r
  <2>9. Rank(L, p) \in 1..n /\ s[Rank(L, p)] = q[m]
    BY <1>3, <1>6, <2>5, <2>7, <2>8
  <2>10. QED
    BY <2>9
<1>11. QED
  <2>1. \A k \in Keys : (\E i \in 1..Len(s) : s[i] = k)
                          <=> (\E i \in 1..Len(q) : q[i] = k)
    BY <1>6, <1>9, <1>10
  <2>2. QED
    BY <1>6, <1>8, <2>1 DEF IsRecency, s

(* An earlier occurrence of a key may be taken out of the deque anywhere.  *)
LEMMA RecencyOfDrop ==
  ASSUME NEW q \in Seq(Keys), NEW p \in 1..Len(q), NEW d \in Seq(Keys),
         Len(d) = Len(q) - 1,
         \A i \in 1..Len(q) - 1 : d[i] = IF i < p THEN q[i] ELSE q[i + 1],
         \E m \in p + 1..Len(q) : q[m] = q[p]
  PROVE  Recency(d) = Recency(q)
<1> DEFINE n == Len(q)
<1>1. n \in Nat /\ Len(d) = n - 1 /\ p \in 1..n
  BY LenProperties
<1>2. PICK m \in p + 1..n : q[m] = q[p]
  OBVIOUS
<1>3. \A i \in 1..n - 1 : d[i] = IF i < p THEN q[i] ELSE q[i + 1]
  OBVIOUS
<1> HIDE DEF n
<1>4. ASSUME NEW j \in 1..n, j # p
      PROVE  \E i \in 1..n - 1 : /\ d[i] = q[j]
                                 /\ \A h \in i..n - 1 : \E g \in j..n : d[h] = q[g]
  <2> DEFINE i == IF j < p THEN j ELSE j - 1
  <2>1. i \in 1..n - 1 /\ d[i] = q[j]
    BY <1>1, <1>3, <1>4
  <2>2. \A h \in i..n - 1 : \E g \in j..n : d[h] = q[g]
    <3>1. TAKE h \in i..n - 1
    <3>2. h \in 1..n - 1
      BY <1>1, <2>1, <3>1
    <3>3. CASE h < p
      BY <1>1, <1>3, <1>4, <3>1, <3>2, <3>3
    <3>4. CASE ~(h < p)
      <4>1. d[h] = q[h + 1] /\ h + 1 \in j..n
        BY <1>1, <1>3, <1>4, <3>1, <3>2, <3>4
      <4>2. QED
        BY <4>1
    <3>5. QED
      BY <3>3, <3>4
  <2> HIDE DEF i
  <2>3. QED
    BY <2>1, <2>2
<1>5. \A i \in 1..n - 1 : \E j \in 1..n : q[j] = d[i]
  <2>1. TAKE i \in 1..n - 1
  <2>2. i \in 1..n /\ i + 1 \in 1..n
    BY <1>1
  <2>3. QED
    BY <1>3, <2>2
<1>6. m \in 1..n /\ m # p /\ q[m] = q[p] /\ \A i \in m..n : i \in p..n
  BY <1>1, <1>2
<1>7. \A j \in 1..n : \E i \in 1..n - 1 : d[i] = q[j]
  BY <1>4, <1>6
<1>8. ASSUME NEW x, NEW y, Before(q, x, y)
      PROVE  Before(d, x, y)
  <2>1. PICK j \in 1..n : q[j] = y /\ \A i \in j..n : q[i] # x
    BY <1>8 DEF Before, n
  <2>2. PICK o \in 1..n : o # p /\ q[o] = y /\ \A i \in o..n : q[i] # x
    BY <1>6, <2>1
  <2>3. PICK i \in 1..n - 1 : /\ d[i] = q[o]
                              /\ \A h \in i..n - 1 : \E g \in o..n : d[h] = q[g]
    BY <1>4, <2>2
  <2>4. \A h \in i..n - 1 : d[h] # x
    BY <2>2, <2>3
  <2>5. QED
    BY <1>1, <2>2, <2>3, <2>4 DEF Before
<1>9. IsRecency(q, Recency(q))
  BY RecencyFacts
<1>10. IsRecency(d, Recency(q))
  <2>1. \A k : (\E i \in 1..n : q[i] = k) <=> (\E i \in 1..n - 1 : d[i] = k)
    BY <1>5, <1>7
  <2>2. QED
    BY <1>1, <1>8, <1>9, <2>1 DEF IsRecency, n
<1>11. IsRecency(d, Recency(d))
  BY RecencyFacts
<1>12. QED
  BY <1>10, <1>11, RecencyIsUnique

(* A key that is queued moves to the end of the order of use.              *)
LEMMA RecencyOfAppend ==
  ASSUME NEW q \in Seq(Keys), NEW k \in Keys, NEW s \in Seq(Keys),
         \A x \in Keys : (\E i \in 1..Len(s) : s[i] = x)
                           <=> x # k /\ (\E i \in 1..Len(q) : q[i] = x),
         \A i, j \in 1..Len(s) : i < j => Before(q, s[i], s[j])
  PROVE  Recency(Append(q, k)) = Append(s, k)
<1> DEFINE n == Len(q)
           m == Len(s)
           a == Append(q, k)
           r == Append(s, k)
<1>1. /\ n \in Nat /\ a \in Seq(Keys) /\ Len(a) = n + 1
      /\ \A i \in 1..n : a[i] = q[i]
      /\ a[n + 1] = k
  BY AppendProperties, LenProperties
<1>2. /\ m \in Nat /\ r \in Seq(Keys) /\ Len(r) = m + 1
      /\ \A i \in 1..m : r[i] = s[i]
      /\ r[m + 1] = k
  BY AppendProperties, LenProperties
<1>3. \A i \in 1..m : s[i] \in Keys /\ s[i] # k
  BY ElementOfSeq
<1>4. \A x \in Keys : (\E i \in 1..m : s[i] = x)
                        <=> x # k /\ (\E i \in 1..n : q[i] = x)
  OBVIOUS
<1>5. \A i, j \in 1..m : i < j => Before(q, s[i], s[j])
  OBVIOUS
<1> HIDE DEF a, r
<1>6. \A x \in Keys : (\E i \in 1..m + 1 : r[i] = x)
                        <=> (\E i \in 1..n + 1 : a[i] = x)
  <2> HIDE DEF n, m
  <2>1. TAKE x \in Keys
  <2>2. (\E i \in 1..m + 1 : r[i] = x) <=> x = k \/ \E i \in 1..m : s[i] = x
    <3>1. \A i \in 1..m + 1 : i \in 1..m \/ i = m + 1
      BY <1>2
    <3>2. m + 1 \in 1..m + 1 /\ \A i \in 1..m : i \in 1..m + 1
      BY <1>2
    <3>3. QED
      BY <1>2, <3>1, <3>2
  <2>3. (\E i \in 1..n + 1 : a[i] = x) <=> x = k \/ \E i \in 1..n : q[i] = x
    <3>1. \A i \in 1..n + 1 : i \in 1..n \/ i = n + 1
      BY <1>1
    <3>2. n + 1 \in 1..n + 1 /\ \A i \in 1..n : i \in 1..n + 1
      BY <1>1
    <3>3. QED
      BY <1>1, <3>1, <3>2
  <2>4. QED
    BY <1>4, <2>2, <2>3
<1>7. ASSUME NEW x, NEW y, x # k, Before(q, x, y)
      PROVE  Before(a, x, y)
  <2>1. PICK j \in 1..n : q[j] = y /\ \A i \in j..n : q[i] # x
    BY <1>7 DEF Before
  <2> HIDE DEF n
  <2>2. j \in 1..n + 1 /\ a[j] = y
    BY <1>1, <2>1
  <2>3. \A i \in j..n + 1 : a[i] # x
    <3>1. \A i \in j..n + 1 : i = n + 1 \/ (i \in 1..n /\ i \in j..n)
      BY <1>1, <2>1
    <3>2. QED
      BY <1>1, <1>7, <2>1, <3>1
  <2>4. QED
    BY <1>1, <2>2, <2>3 DEF Before
<1>8. \A x : x # k => Before(a, x, k)
  <2>1. n + 1 \in 1..n + 1 /\ \A i \in n + 1..n + 1 : i = n + 1
    BY <1>1
  <2>2. QED
    BY <1>1, <2>1 DEF Before
<1>9. \A i, j \in 1..m + 1 : i < j => Before(a, r[i], r[j])
  <2> HIDE DEF n, m
  <2>1. SUFFICES ASSUME NEW i \in 1..m + 1, NEW j \in 1..m + 1, i < j
                 PROVE  Before(a, r[i], r[j])
    OBVIOUS
  <2>2. i \in 1..m /\ (j = m + 1 \/ j \in 1..m)
    BY <1>2, <2>1
  <2>3. QED
    BY <1>2, <1>3, <1>5, <1>7, <1>8, <2>1, <2>2
<1>10. IsRecency(a, r)
  BY <1>1, <1>2, <1>6, <1>9 DEF IsRecency
<1>11. IsRecency(a, Recency(a))
  BY <1>1, RecencyFacts
<1>12. QED
  BY <1>1, <1>10, <1>11, RecencyIsUnique DEF a, r

(* The last occurrence of a key at the front of the deque is its least     *)
(* recently used key.                                                      *)
LEMMA RecencyOfTail ==
  ASSUME NEW q \in Seq(Keys), q # <<>>, \A i \in 2..Len(q) : q[i] # q[1]
  PROVE  Recency(q) # <<>> /\ Recency(Tail(q)) = Tail(Recency(q))
<1> DEFINE n == Len(q)
           r == Recency(q)
           m == Len(r)
           k == q[1]
<1>1. /\ n \in Nat \ {0} /\ Tail(q) \in Seq(Keys) /\ Len(Tail(q)) = n - 1
      /\ \A i \in 1..n - 1 : Tail(q)[i] = q[i + 1]
      /\ \A i \in 1..n : q[i] \in Keys
      /\ \A i \in 2..n : q[i] # k
  BY HeadTailProperties, EmptySeq, ElementOfSeq
<1>2. /\ r \in Seq(Keys) /\ m \in Nat
      /\ \A x \in Keys : (\E i \in 1..m : r[i] = x)
                           <=> (\E i \in 1..n : q[i] = x)
      /\ \A i, j \in 1..m : i < j => Before(q, r[i], r[j])
  BY RecencyFacts, LenProperties DEF IsRecency
<1>3. \A i \in 1..m : r[i] \in Keys
  BY <1>2, ElementOfSeq
<1>4. \A i, j \in 1..m : r[i] = r[j] => i = j
  BY RecencyFacts, RecencyIsInjective
<1> HIDE DEF r, m, n, k
<1>5. k \in Keys /\ \E i \in 1..n : q[i] = k
  BY <1>1 DEF k
<1>6. PICK f \in 1..m : r[f] = k
  BY <1>2, <1>5
<1>7. r # <<>> /\ m >= 1
  <2>1. m >= 1
    BY <1>2, <1>6
  <2>2. QED
    BY <2>1, EmptySeq DEF m
<1>8. f = 1
  <2>1. SUFFICES ASSUME 1 < f PROVE FALSE
    BY <1>2, <1>6
  <2>2. 1 \in 1..m /\ Before(q, r[1], k)
    BY <1>2, <1>6, <1>7, <2>1
  <2>3. PICK j \in 1..n : q[j] = k /\ \A i \in j..n : q[i] # r[1]
    BY <2>2 DEF Before, n
  <2>4. j = 1
    <3>1. j = 1 \/ j \in 2..n
      BY <1>1, <2>3
    <3>2. QED
      BY <1>1, <2>3, <3>1
  <2>5. \A i \in 1..n : q[i] # r[1]
    BY <2>3, <2>4
  <2>6. r[1] \in Keys
    BY <1>3, <2>2
  <2>7. QED
    BY <1>2, <2>2, <2>5, <2>6
<1>9. /\ Tail(r) \in Seq(Keys) /\ Len(Tail(r)) = m - 1
      /\ \A i \in 1..m - 1 : Tail(r)[i] = r[i + 1]
  BY <1>2, <1>7, HeadTailProperties DEF m
<1>10. \A i \in 2..m : r[i] # k
  <2>1. \A i \in 2..m : i \in 1..m /\ i # 1
    BY <1>2
  <2>2. QED
    BY <1>4, <1>6, <1>8, <2>1
<1>11. \A x \in Keys : (\E i \in 1..m - 1 : Tail(r)[i] = x)
                         <=> (\E i \in 1..n - 1 : Tail(q)[i] = x)
  <2>1. TAKE x \in Keys
  <2>2. (\E i \in 1..m - 1 : Tail(r)[i] = x) <=> x # k /\ \E i \in 1..m : r[i] = x
    <3>1. \A i \in 1..m - 1 : i + 1 \in 1..m /\ i + 1 \in 2..m
      BY <1>2
    <3>2. \A i \in 1..m : i = 1 \/ (i - 1 \in 1..m - 1 /\ (i - 1) + 1 = i)
      BY <1>2
    <3>3. (\E i \in 1..m - 1 : Tail(r)[i] = x) => x # k /\ \E i \in 1..m : r[i] = x
      BY <1>9, <1>10, <3>1
    <3>4. x # k /\ (\E i \in 1..m : r[i] = x) => \E i \in 1..m - 1 : Tail(r)[i] = x
      <4>1. ASSUME x # k, NEW i \in 1..m, r[i] = x
            PROVE  i - 1 \in 1..m - 1 /\ Tail(r)[i - 1] = x
        BY <1>6, <1>8, <1>9, <3>2, <4>1
      <4>2. QED
        BY <4>1
    <3>5. QED
      BY <3>3, <3>4
  <2>3. (\E i \in 1..n - 1 : Tail(q)[i] = x) <=> x # k /\ \E i \in 1..n : q[i] = x
    <3>1. \A i \in 1..n - 1 : i + 1 \in 1..n /\ i + 1 \in 2..n
      BY <1>1
    <3>2. \A i \in 1..n : i = 1 \/ (i - 1 \in 1..n - 1 /\ (i - 1) + 1 = i)
      BY <1>1
    <3>3. (\E i \in 1..n - 1 : Tail(q)[i] = x) => x # k /\ \E i \in 1..n : q[i] = x
      BY <1>1, <3>1
    <3>4. x # k /\ (\E i \in 1..n : q[i] = x) => \E i \in 1..n - 1 : Tail(q)[i] = x
      <4>1. ASSUME x # k, NEW i \in 1..n, q[i] = x
            PROVE  i - 1 \in 1..n - 1 /\ Tail(q)[i - 1] = x
        BY <1>1, <3>2, <4>1 DEF k
      <4>2. QED
        BY <4>1
    <3>5. QED
      BY <3>3, <3>4
  <2>4. QED
    BY <1>2, <2>2, <2>3
<1>12. ASSUME NEW x, NEW y, y # k, Before(q, x, y)
       PROVE  Before(Tail(q), x, y)
  <2>1. PICK j \in 1..n : q[j] = y /\ \A i \in j..n : q[i] # x
    BY <1>12 DEF Before, n
  <2>2. j - 1 \in 1..n - 1 /\ (j - 1) + 1 = j
    BY <1>1, <1>12, <2>1 DEF k
  <2>3. Tail(q)[j - 1] = y
    BY <1>1, <2>1, <2>2
  <2>4. \A i \in j - 1..n - 1 : i \in 1..n - 1 /\ i + 1 \in j..n
    BY <1>1, <2>1, <2>2
  <2>5. \A i \in j - 1..n - 1 : Tail(q)[i] # x
    BY <1>1, <2>1, <2>4
  <2>6. QED
    BY <1>1, <2>2, <2>3, <2>5 DEF Before
<1>13. \A i, j \in 1..m - 1 : i < j => Before(Tail(q), Tail(r)[i], Tail(r)[j])
  <2>1. SUFFICES ASSUME NEW i \in 1..m - 1, NEW j \in 1..m - 1, i < j
                 PROVE  Before(Tail(q), Tail(r)[i], Tail(r)[j])
    OBVIOUS
  <2>2. i + 1 \in 1..m /\ j + 1 \in 1..m /\ i + 1 < j + 1 /\ j + 1 \in 2..m
    BY <1>2, <2>1
  <2>3. Before(q, r[i + 1], r[j + 1]) /\ r[j + 1] # k
    BY <1>2, <1>10, <2>2
  <2>4. QED
    BY <1>9, <1>12, <2>3
<1>14. IsRecency(Tail(q), Tail(r))
  BY <1>1, <1>9, <1>11, <1>13 DEF IsRecency
<1>15. IsRecency(Tail(q), Recency(Tail(q)))
  BY <1>1, RecencyFacts
<1>16. QED
  BY <1>1, <1>7, <1>14, <1>15, RecencyIsUnique DEF r

(***************************************************************************)
(* The deque as the compaction sees it: what it keeps comes first.         *)
(***************************************************************************)
Swapped(q, t) == SubSeq(q, t + 1, Len(q)) \o SubSeq(q, 1, t)

LEMMA SwappedFacts ==
  ASSUME NEW q \in Seq(Keys), NEW t \in 0..Len(q)
  PROVE  /\ Swapped(q, t) \in Seq(Keys) /\ Len(Swapped(q, t)) = Len(q)
         /\ \A i \in 1..Len(q) : Swapped(q, t)[i] =
              IF i <= Len(q) - t THEN q[t + i] ELSE q[i - (Len(q) - t)]
<1> DEFINE n == Len(q)
           a == SubSeq(q, t + 1, n)
           b == SubSeq(q, 1, t)
<1>1. n \in Nat /\ t \in 0..n /\ \A i \in 1..n : q[i] \in Keys
  BY LenProperties, ElementOfSeq
<1> HIDE DEF n
<1>2. /\ \A i \in t + 1..n : q[i] \in Keys
      /\ \A i \in 1..t : q[i] \in Keys
      /\ t \in Int /\ n \in Int /\ t + 1 \in Int
  BY <1>1
<1>3. /\ a \in Seq(Keys)
      /\ Len(a) = IF t + 1 <= n THEN n - (t + 1) + 1 ELSE 0
      /\ \A i \in 1..n - (t + 1) + 1 : a[i] = q[t + 1 + i - 1]
  BY <1>2, SubSeqProperties
<1>4. /\ b \in Seq(Keys)
      /\ Len(b) = IF 1 <= t THEN t - 1 + 1 ELSE 0
      /\ \A i \in 1..t - 1 + 1 : b[i] = q[1 + i - 1]
  BY <1>2, SubSeqProperties
<1> HIDE DEF a, b
<1>5. Len(a) = n - t /\ \A i \in 1..n - t : a[i] = q[t + i]
  <2>1. n - (t + 1) + 1 = n - t /\ \A i \in Int : t + 1 + i - 1 = t + i
    BY <1>1
  <2>2. Len(a) = n - t
    BY <1>1, <1>3
  <2>3. \A i \in 1..n - t : a[i] = q[t + i]
    BY <1>3, <2>1
  <2>4. QED
    BY <2>2, <2>3
<1>6. Len(b) = t /\ \A i \in 1..t : b[i] = q[i]
  <2>1. t - 1 + 1 = t /\ \A i \in Int : 1 + i - 1 = i
    BY <1>1
  <2>2. Len(b) = t
    BY <1>1, <1>4
  <2>3. \A i \in 1..t : b[i] = q[i]
    BY <1>4, <2>1
  <2>4. QED
    BY <2>2, <2>3
<1>7. /\ a \o b \in Seq(Keys) /\ Len(a \o b) = Len(a) + Len(b)
      /\ \A i \in 1..Len(a) + Len(b) :
           (a \o b)[i] = IF i <= Len(a) THEN a[i] ELSE b[i - Len(a)]
  BY <1>3, <1>4, ConcatProperties
<1>8. Len(a \o b) = n /\ \A i \in 1..n : (a \o b)[i] =
        IF i <= n - t THEN q[t + i] ELSE q[i - (n - t)]
  <2>1. Len(a) + Len(b) = n
    BY <1>1, <1>5, <1>6
  <2>2. \A i \in 1..n : IF i <= n - t THEN i \in 1..n - t
                                      ELSE i - (n - t) \in 1..t
    BY <1>1
  <2>3. QED
    BY <1>5, <1>6, <1>7, <2>1, <2>2
<1>9. Swapped(q, t) = a \o b
  BY DEF Swapped, a, b, n
<1>10. QED
  BY <1>7, <1>8, <1>9 DEF n

LEMMA SwappedWhole ==
  ASSUME NEW q \in Seq(Keys)
  PROVE  Swapped(q, 0) = q /\ Swapped(q, Len(q)) = q
<1>1. Len(q) \in Nat
  BY LenProperties
<1>2. ASSUME NEW t \in {0, Len(q)}
      PROVE  Swapped(q, t) = q
  <2>1. t \in 0..Len(q)
    BY <1>1
  <2>2. \A i \in 1..Len(q) : Swapped(q, t)[i] = q[i]
    BY <1>1, <2>1, SwappedFacts
  <2>3. Swapped(q, t) \in Seq(Keys) /\ Len(Swapped(q, t)) = Len(q)
    BY <2>1, SwappedFacts
  <2>4. QED
    BY <2>2, <2>3, SeqEqual
<1>3. QED
  BY <1>2

(* Rotating the deque moves the boundary only; dropping its first key      *)
(* takes the first one behind the boundary out.                            *)
LEMMA SwappedRotate ==
  ASSUME NEW q \in Seq(Keys), NEW t \in 1..Len(q)
  PROVE  Swapped(Append(Tail(q), Head(q)), t - 1) = Swapped(q, t)
<1> DEFINE n == Len(q)
           d == Append(Tail(q), Head(q))
<1>1. n \in Nat /\ t \in 1..n /\ q # <<>>
  BY LenProperties, EmptySeq
<1>2. /\ Head(q) \in Keys /\ Tail(q) \in Seq(Keys) /\ Len(Tail(q)) = n - 1
      /\ \A i \in 1..n - 1 : Tail(q)[i] = q[i + 1]
      /\ Head(q) = q[1]
  BY <1>1, HeadTailProperties
<1>3. /\ d \in Seq(Keys) /\ Len(d) = n /\ d[n] = q[1]
      /\ \A i \in 1..n - 1 : d[i] = q[i + 1]
  BY <1>1, <1>2, AppendProperties
<1>4. /\ Swapped(q, t) \in Seq(Keys) /\ Len(Swapped(q, t)) = n
      /\ \A i \in 1..n : Swapped(q, t)[i] =
           IF i <= n - t THEN q[t + i] ELSE q[i - (n - t)]
  BY SwappedFacts
<1> HIDE DEF n, d
<1>5. /\ Swapped(d, t - 1) \in Seq(Keys) /\ Len(Swapped(d, t - 1)) = n
      /\ \A i \in 1..n : Swapped(d, t - 1)[i] =
           IF i <= n - (t - 1) THEN d[t - 1 + i] ELSE d[i - (n - (t - 1))]
  <2>1. t - 1 \in 0..Len(d)
    BY <1>1, <1>3
  <2>2. QED
    BY <1>3, <2>1, SwappedFacts
<1>6. \A i \in 1..n : Swapped(d, t - 1)[i] = Swapped(q, t)[i]
  <2>1. TAKE i \in 1..n
  <2>2. CASE i <= n - t
    <3>1. t - 1 + i \in 1..n - 1 /\ (t - 1 + i) + 1 = t + i
          /\ i <= n - (t - 1)
      BY <1>1, <2>1, <2>2
    <3>2. QED
      BY <1>3, <1>4, <1>5, <2>1, <2>2, <3>1
  <2>3. CASE i = n - t + 1
    <3>1. t - 1 + i = n /\ i <= n - (t - 1) /\ ~(i <= n - t)
          /\ i - (n - t) = 1
      BY <1>1, <2>1, <2>3
    <3>2. QED
      BY <1>3, <1>4, <1>5, <2>1, <3>1
  <2>4. CASE i > n - t + 1
    <3>1. /\ ~(i <= n - (t - 1)) /\ ~(i <= n - t)
          /\ i - (n - (t - 1)) \in 1..n - 1
          /\ (i - (n - (t - 1))) + 1 = i - (n - t)
      BY <1>1, <2>1, <2>4
    <3>2. QED
      BY <1>3, <1>4, <1>5, <2>1, <3>1
  <2>5. QED
    BY <1>1, <2>1, <2>2, <2>3, <2>4
<1>7. QED
  BY <1>4, <1>5, <1>6, SeqEqual DEF d

LEMMA SwappedDrop ==
  ASSUME NEW q \in Seq(Keys), NEW t \in 1..Len(q),
         \E m \in 2..t : q[m] = q[1]
  PROVE  Recency(Swapped(Tail(q), t - 1)) = Recency(Swapped(q, t))
<1> DEFINE n == Len(q)
           s == Swapped(q, t)
           d == Swapped(Tail(q), t - 1)
           p == n - t + 1
<1>1. n \in Nat /\ t \in 1..n /\ q # <<>>
  BY LenProperties, EmptySeq
<1>2. /\ Tail(q) \in Seq(Keys) /\ Len(Tail(q)) = n - 1
      /\ \A i \in 1..n - 1 : Tail(q)[i] = q[i + 1]
  BY <1>1, HeadTailProperties
<1>3. PICK m \in 2..t : q[m] = q[1]
  OBVIOUS
<1>4. /\ s \in Seq(Keys) /\ Len(s) = n
      /\ \A i \in 1..n : s[i] = IF i <= n - t THEN q[t + i] ELSE q[i - (n - t)]
  BY SwappedFacts
<1> HIDE DEF n
<1>5. /\ d \in Seq(Keys) /\ Len(d) = n - 1
      /\ \A i \in 1..n - 1 : d[i] =
           IF i <= n - 1 - (t - 1) THEN Tail(q)[t - 1 + i]
                                   ELSE Tail(q)[i - (n - 1 - (t - 1))]
  <2>1. t - 1 \in 0..Len(Tail(q))
    BY <1>1, <1>2
  <2> DEFINE u == Tail(q)
  <2>2. u \in Seq(Keys) /\ Len(u) = n - 1 /\ t - 1 \in 0..Len(u)
    BY <1>2, <2>1
  <2>3. d = Swapped(u, t - 1)
    OBVIOUS
  <2> HIDE DEF u, d
  <2>4. /\ d \in Seq(Keys) /\ Len(d) = Len(u)
        /\ \A i \in 1..Len(u) : d[i] =
             IF i <= Len(u) - (t - 1) THEN u[t - 1 + i]
                                      ELSE u[i - (Len(u) - (t - 1))]
    BY <2>2, <2>3, SwappedFacts
  <2>5. QED
    BY <2>2, <2>4 DEF u
<1> HIDE DEF s, d
<1>6. \A i \in 1..n - 1 : d[i] = IF i < p THEN s[i] ELSE s[i + 1]
  <2>1. TAKE i \in 1..n - 1
  <2>2. CASE i < p
    <3>1. /\ i <= n - 1 - (t - 1) /\ i <= n - t /\ i \in 1..n
          /\ t - 1 + i \in 1..n - 1 /\ (t - 1 + i) + 1 = t + i
      BY <1>1, <2>1, <2>2
    <3>2. QED
      BY <1>2, <1>4, <1>5, <2>1, <2>2, <3>1
  <2>3. CASE ~(i < p)
    <3>1. /\ ~(i <= n - 1 - (t - 1)) /\ ~(i + 1 <= n - t) /\ i + 1 \in 1..n
          /\ i - (n - 1 - (t - 1)) \in 1..n - 1
          /\ (i - (n - 1 - (t - 1))) + 1 = i + 1 - (n - t)
      BY <1>1, <2>1, <2>3
    <3>2. d[i] = Tail(q)[i - (n - 1 - (t - 1))]
      BY <1>5, <2>1, <3>1
    <3>3. Tail(q)[i - (n - 1 - (t - 1))] = q[i + 1 - (n - t)]
      BY <1>2, <3>1
    <3>4. s[i + 1] = q[i + 1 - (n - t)]
      <4>1. s[i + 1] = IF i + 1 <= n - t THEN q[t + (i + 1)]
                                         ELSE q[(i + 1) - (n - t)]
        BY <1>4, <3>1
      <4>2. (i + 1) - (n - t) = i + 1 - (n - t)
        BY <1>1, <3>1
      <4>3. QED
        BY <3>1, <4>1, <4>2
    <3>5. QED
      BY <2>3, <3>2, <3>3, <3>4
  <2>4. QED
    BY <2>2, <2>3
<1>7. \E h \in p + 1..n : s[h] = s[p]
  <2> DEFINE h == m + (n - t)
  <2>1. /\ h \in p + 1..n /\ h \in 1..n /\ ~(h <= n - t) /\ h - (n - t) = m
        /\ p \in 1..n /\ ~(p <= n - t) /\ p - (n - t) = 1
    BY <1>1, <1>3
  <2>2. s[h] = q[m] /\ s[p] = q[1]
    BY <1>4, <2>1
  <2>3. QED
    BY <1>3, <2>1, <2>2
<1>8. p \in 1..n
  BY <1>1
<1> HIDE DEF p
<1>9. Recency(d) = Recency(s)
  BY <1>4, <1>5, <1>6, <1>7, <1>8, RecencyOfDrop
<1>10. QED
  BY <1>9 DEF d, s

(***************************************************************************)
(* The refinement: recording a key uses it, purging the last occurrence of *)
(* a key evicts it, and no other step changes the order of use.            *)
(***************************************************************************)
RoomInv == TopAt("record") => Cardinality(Counted) <= MaxSize

LEMMA RoomIsInductive ==
  ASSUME TypeInv, BooksInv, SizeBound, RoomInv, [Next]_vars
  PROVE  RoomInv'
<1>1. ASSUME AtRest, UNCHANGED refcount
      PROVE  RoomInv'
  <2>1. Cached = Counted /\ Counted' = Counted
    BY <1>1, AtNoStage DEF BooksInv, CachedIsQueued, Stages, Counted
  <2>2. QED
    BY <1>1, <2>1 DEF SizeBound, RoomInv
<1>2. ASSUME UNCHANGED <<refcount, stack>>
      PROVE  RoomInv'
  BY <1>2 DEF RoomInv, TopAt, Top, Counted
<1>3. ASSUME stack' # <<>> => Top'.at # "record"
      PROVE  RoomInv'
  BY <1>3 DEF RoomInv, TopAt
<1>4. ASSUME Record PROVE RoomInv'
  <2>1. stack # <<>> /\ [Top EXCEPT !.at = "purge"] \in Frame
    BY <1>4, TopType DEF Record, TopAt, TypeInv, Frame, Stages
  <2>2. Top' = [Top EXCEPT !.at = "purge"]
    BY <1>4, <2>1, ReplaceFacts DEF Record, Become, TypeInv, TypeOK
  <2>3. Top'.at = "purge"
    BY <1>4, <2>1, <2>2, TopType DEF Frame, TypeInv
  <2>4. QED
    BY <1>3, <2>3
<1>5. ASSUME Purge PROVE RoomInv'
  BY <1>3, <1>5 DEF Purge, Fails, TopAt, Top
<1>6. ASSUME stack # <<>>, stack' = Callers PROVE RoomInv'
  <2>1. AtRest'
    BY <1>6, PopFacts DEF TypeInv, TypeOK
  <2>2. QED
    BY <1>3, <2>1 DEF AtRest, InF, CallSites
<1>7. ASSUME Purged PROVE RoomInv'
  <2>1. stack # <<>> /\ Top \in Frame /\ Len(queue) \in Nat
    BY <1>7, TopType, LenProperties DEF Purged, TopAt, TypeInv, TypeOK
  <2> DEFINE f == [Top EXCEPT !.at = "compact", !.todo = Len(queue)]
  <2>2. f \in Frame /\ f.at = "compact"
    BY <2>1 DEF Frame, Stages
  <2>3. stack' = Append(Callers, f) => Top' = f
    BY <2>1, <2>2, ReplaceFacts DEF TypeInv, TypeOK
  <2>4. stack' = Callers \/ stack' = Append(Callers, f)
    BY <1>7 DEF Purged
  <2> HIDE DEF f
  <2>5. QED
    BY <1>3, <1>6, <2>1, <2>2, <2>3, <2>4
<1>8. ASSUME Compact PROVE RoomInv'
  BY <1>3, <1>8, CompactFacts
<1>9. ASSUME Compacted PROVE RoomInv'
  BY <1>2, <1>6, <1>9 DEF Compacted, Fails, TopAt, books
<1>10. CASE UNCHANGED vars
  BY <1>2, <1>10 DEF vars, books
<1>11. ASSUME NEW k \in Keys, Call(k) PROVE RoomInv'
  BY <1>1, <1>11 DEF Call, books
<1>12. ASSUME NEW k \in Keys, Grow(k) PROVE RoomInv'
  BY <1>1, <1>12 DEF Grow, books
<1>13. ASSUME NEW e \in BOOLEAN, FRaises(e) PROVE RoomInv'
  BY <1>1, <1>13 DEF FRaises, books, AtRest
<1>14. FReturns => RoomInv'
  BY <1>1 DEF FReturns, books, AtRest
<1>15. QED
  BY <1>4, <1>5, <1>7, <1>8, <1>9, <1>10, <1>11, <1>12, <1>13, <1>14 DEF Next

(* The keys in the order of use are those that are counted.                *)
LEMMA QueuedAreCounted ==
  ASSUME TypeInv, BooksInv
  PROVE  /\ queue \in Seq(Keys)
         /\ \A k \in Keys : k \in Counted <=> \E i \in 1..Len(queue) : queue[i] = k
         /\ Len(Recency(queue)) = Cardinality(Counted)
<1>1. queue \in Seq(Keys) /\ refcount \in [Keys -> Nat]
  BY DEF TypeInv, TypeOK
<1>2. \A k \in Keys : k \in Counted <=> \E i \in 1..Len(queue) : queue[i] = k
  <2>1. TAKE k \in Keys
  <2>2. /\ refcount[k] = Cardinality(Occurrences(queue, k))
        /\ IsFiniteSet(Occurrences(queue, k)) /\ refcount[k] \in Nat
    BY <1>1, OccurrencesFinite DEF BooksInv, RefcountIsExact
  <2>3. refcount[k] = 0 <=> Occurrences(queue, k) = {}
    BY <2>2, FS_EmptySet
  <2>4. k \in Counted <=> Occurrences(queue, k) # {}
    BY <2>2, <2>3 DEF Counted
  <2>5. QED
    BY <2>4 DEF Occurrences
<1>3. Counted = {k \in Keys : \E i \in 1..Len(queue) : queue[i] = k}
  BY <1>2 DEF Counted
<1>4. QED
  BY <1>1, <1>2, <1>3, RecencyFacts, RecencyLength

LEMMA RecordUses ==
  ASSUME TypeInv, BooksInv, RoomInv, Record
  PROVE  Recent # Recent' => Lru!Next
<1> DEFINE k == Top.key
           r == Recency(queue)
           m == Len(r)
<1>1. k \in Keys /\ TopAt("record") /\ queue' = Append(queue, k)
  BY TopType DEF Record, TopAt, TypeInv, Frame
<1>2. ~TopAt("compact")'
  <2>1. stack # <<>> /\ [Top EXCEPT !.at = "purge"] \in Frame
    BY TopType DEF Record, TopAt, TypeInv, Frame, Stages
  <2>2. Top' = [Top EXCEPT !.at = "purge"]
    BY <2>1, ReplaceFacts DEF Record, Become, TypeInv, TypeOK
  <2>3. Top'.at = "purge"
    BY <2>1, <2>2, TopType DEF Frame, TypeInv
  <2>4. QED
    BY <2>3 DEF TopAt
<1>3. Recent = r /\ Recent' = Recency(Append(queue, k))
  BY <1>1, <1>2 DEF Recent, LogicalQueue, TopAt
<1>4. /\ r \in Seq(Keys) /\ m \in Nat /\ m <= MaxSize
      /\ queue \in Seq(Keys)
      /\ \A x \in Keys : (\E i \in 1..m : r[i] = x)
                           <=> (\E i \in 1..Len(queue) : queue[i] = x)
      /\ \A i, j \in 1..m : i < j => Before(queue, r[i], r[j])
      /\ \A i, j \in 1..m : r[i] = r[j] => i = j
  <2>1. queue \in Seq(Keys) /\ m = Cardinality(Counted)
    BY QueuedAreCounted
  <2>2. IsRecency(queue, r)
    BY <2>1, RecencyFacts
  <2>3. m <= MaxSize
    BY <1>1, <2>1 DEF RoomInv
  <2>4. \A i, j \in 1..m : r[i] = r[j] => i = j
    <3> HIDE DEF r
    <3>1. QED
      BY <2>1, <2>2, RecencyIsInjective
  <2>5. r \in Seq(Keys) /\ m \in Nat
    BY <2>2, LenProperties DEF IsRecency
  <2>6. QED
    BY <2>1, <2>2, <2>3, <2>4, <2>5 DEF IsRecency
<1> HIDE DEF r, m, k
<1>5. CASE \A i \in 1..m : r[i] # k
  <2>1. \A x \in Keys : (\E i \in 1..m : r[i] = x)
                          <=> x # k /\ (\E i \in 1..Len(queue) : queue[i] = x)
    BY <1>1, <1>4, <1>5
  <2>2. Recency(Append(queue, k)) = Append(r, k)
    BY <1>1, <1>4, <2>1, RecencyOfAppend DEF m
  <2>3. Lru!Use(k)
    BY <1>3, <1>4, <1>5, <2>2 DEF Lru!Use, m
  <2>4. QED
    BY <1>1, <2>3 DEF Lru!Next
<1>6. ASSUME NEW i \in 1..m, r[i] = k
      PROVE  Lru!Next
  <2> DEFINE s == SubSeq(r, 1, i - 1) \o SubSeq(r, i + 1, m)
  <2>1. /\ s \in Seq(Keys) /\ Len(s) = m - 1
        /\ \A j \in 1..m - 1 : s[j] = IF j < i THEN r[j] ELSE r[j + 1]
    <3> DEFINE a == SubSeq(r, 1, i - 1)
               b == SubSeq(r, i + 1, m)
    <3>1. /\ \A j \in 1..m : r[j] \in Keys
          /\ i \in Int /\ m \in Int /\ i - 1 \in Int /\ i + 1 \in Int
          /\ 1 <= i /\ i <= m
      BY <1>4, ElementOfSeq DEF m
    <3>2. (\A j \in 1..i - 1 : r[j] \in Keys) /\ \A j \in i + 1..m : r[j] \in Keys
      BY <3>1
    <3>3. /\ a \in Seq(Keys)
          /\ Len(a) = IF 1 <= i - 1 THEN i - 1 - 1 + 1 ELSE 0
          /\ \A j \in 1..i - 1 - 1 + 1 : a[j] = r[1 + j - 1]
      BY <3>1, <3>2, SubSeqProperties
    <3>4. /\ b \in Seq(Keys)
          /\ Len(b) = IF i + 1 <= m THEN m - (i + 1) + 1 ELSE 0
          /\ \A j \in 1..m - (i + 1) + 1 : b[j] = r[i + 1 + j - 1]
      BY <3>1, <3>2, SubSeqProperties
    <3> HIDE DEF a, b
    <3>5. Len(a) = i - 1 /\ \A j \in 1..i - 1 : a[j] = r[j]
      <4>1. i - 1 - 1 + 1 = i - 1 /\ \A j \in Int : 1 + j - 1 = j
        BY <3>1
      <4>2. Len(a) = i - 1
        BY <3>1, <3>3
      <4>3. \A j \in 1..i - 1 : a[j] = r[j]
        BY <3>3, <4>1
      <4>4. QED
        BY <4>2, <4>3
    <3>6. Len(b) = m - i /\ \A j \in 1..m - i : b[j] = r[i + j]
      <4>1. m - (i + 1) + 1 = m - i /\ \A j \in Int : i + 1 + j - 1 = i + j
        BY <3>1
      <4>2. Len(b) = m - i
        BY <3>1, <3>4
      <4>3. \A j \in 1..m - i : b[j] = r[i + j]
        BY <3>4, <4>1
      <4>4. QED
        BY <4>2, <4>3
    <3>7. /\ a \o b \in Seq(Keys) /\ Len(a \o b) = Len(a) + Len(b)
          /\ \A j \in 1..Len(a) + Len(b) :
               (a \o b)[j] = IF j <= Len(a) THEN a[j] ELSE b[j - Len(a)]
      BY <3>3, <3>4, ConcatProperties
    <3>8. Len(a) + Len(b) = m - 1
      BY <3>1, <3>5, <3>6
    <3>9. ASSUME NEW j \in 1..m - 1
          PROVE  (a \o b)[j] = IF j < i THEN r[j] ELSE r[j + 1]
      <4>1. (a \o b)[j] = IF j <= i - 1 THEN a[j] ELSE b[j - (i - 1)]
        BY <3>5, <3>7, <3>8
      <4>2. CASE j < i
        <5>1. j <= i - 1 /\ j \in 1..i - 1
          BY <3>1, <3>9, <4>2
        <5>2. QED
          BY <3>5, <4>1, <4>2, <5>1
      <4>3. CASE ~(j < i)
        <5>1. ~(j <= i - 1) /\ j - (i - 1) \in 1..m - i
              /\ i + (j - (i - 1)) = j + 1
          BY <3>1, <3>9, <4>3
        <5>2. QED
          BY <3>6, <4>1, <4>3, <5>1
      <4>4. QED
        BY <4>2, <4>3
    <3>10. s = a \o b
      BY DEF a, b
    <3> HIDE DEF s
    <3>11. QED
      BY <3>7, <3>8, <3>9, <3>10
  <2> HIDE DEF s
  <2>2. \A x \in Keys : (\E j \in 1..m - 1 : s[j] = x)
                          <=> x # k /\ (\E j \in 1..m : r[j] = x)
    <3>1. TAKE x \in Keys
    <3>2. ASSUME NEW j \in 1..m - 1, s[j] = x
          PROVE  x # k /\ \E h \in 1..m : r[h] = x
      <4> DEFINE h == IF j < i THEN j ELSE j + 1
      <4>1. h \in 1..m /\ h # i /\ r[h] = x
        BY <1>4, <2>1, <3>2
      <4> HIDE DEF h
      <4>2. r[h] # k
        BY <1>4, <1>6, <4>1
      <4>3. QED
        BY <4>1, <4>2
    <3>3. ASSUME x # k, NEW h \in 1..m, r[h] = x
          PROVE  \E j \in 1..m - 1 : s[j] = x
      <4> DEFINE j == IF h < i THEN h ELSE h - 1
      <4>1. h # i
        BY <1>6, <3>3
      <4>2. j \in 1..m - 1 /\ s[j] = x
        BY <1>4, <1>6, <2>1, <3>3, <4>1
      <4> HIDE DEF j
      <4>3. QED
        BY <4>2
    <3>4. QED
      BY <3>2, <3>3
  <2>3. \A x \in Keys : (\E j \in 1..m - 1 : s[j] = x)
                          <=> x # k /\ (\E j \in 1..Len(queue) : queue[j] = x)
    BY <1>4, <2>2
  <2>4. \A a, b \in 1..m - 1 : a < b => Before(queue, s[a], s[b])
    <3>1. SUFFICES ASSUME NEW a \in 1..m - 1, NEW b \in 1..m - 1, a < b
                   PROVE  Before(queue, s[a], s[b])
      OBVIOUS
    <3> DEFINE c == IF a < i THEN a ELSE a + 1
               d == IF b < i THEN b ELSE b + 1
    <3>2. c \in 1..m /\ d \in 1..m /\ c < d
      BY <1>4, <3>1
    <3>3. s[a] = r[c] /\ s[b] = r[d]
      BY <2>1
    <3> HIDE DEF c, d
    <3>4. QED
      BY <1>4, <3>2, <3>3
  <2>5. Recency(Append(queue, k)) = Append(s, k)
    <3>1. /\ \A x \in Keys : (\E j \in 1..Len(s) : s[j] = x)
               <=> x # k /\ (\E j \in 1..Len(queue) : queue[j] = x)
          /\ \A a, b \in 1..Len(s) : a < b => Before(queue, s[a], s[b])
      BY <2>1, <2>3, <2>4
    <3>2. QED
      BY <1>1, <1>4, <2>1, <3>1, RecencyOfAppend
  <2>6. s = SubSeq(Recent, 1, i - 1) \o SubSeq(Recent, i + 1, Len(Recent))
    BY <1>3 DEF s, m
  <2>7. Lru!Use(k)
    BY <1>3, <1>4, <1>6, <2>5, <2>6 DEF Lru!Use, Lru!WithoutPlace, m
  <2>8. QED
    BY <1>1, <2>7 DEF Lru!Next
<1>7. QED
  BY <1>5, <1>6

LEMMA PurgeEvicts ==
  ASSUME TypeInv, BooksInv, Purge
  PROVE  Recent' = Recent \/ Lru!Evict
<1> DEFINE k == Head(queue)
<1>1. /\ queue \in Seq(Keys) /\ queue # <<>> /\ queue' = Tail(queue)
      /\ Cardinality(Counted) > MaxSize /\ k \in Keys /\ k = queue[1]
      /\ Len(queue) \in Nat
  BY PurgeFacts, LenProperties
<1>2. Recent = Recency(queue) /\ Recent' = Recency(Tail(queue))
  BY <1>1, PurgeFacts
  DEF Purge, Recent, LogicalQueue, TopAt, Top
<1>3. CASE \A i \in 2..Len(queue) : queue[i] # queue[1]
  <2>1. Recency(Tail(queue)) = Tail(Recency(queue))
    BY <1>1, <1>3, RecencyOfTail
  <2>2. Len(Recency(queue)) > MaxSize
    BY <1>1, QueuedAreCounted
  <2>3. QED
    BY <1>2, <2>1, <2>2 DEF Lru!Evict
<1>4. ASSUME NEW m \in 2..Len(queue), queue[m] = queue[1]
      PROVE  Recent' = Recent
  <2>1. /\ Tail(queue) \in Seq(Keys) /\ Len(Tail(queue)) = Len(queue) - 1
        /\ \A i \in 1..Len(queue) - 1 : Tail(queue)[i] = queue[i + 1]
    BY <1>1, HeadTailProperties
  <2>2. 1 \in 1..Len(queue) /\ m \in 1 + 1..Len(queue)
    BY <1>1, <1>4
  <2>3. \A i \in 1..Len(queue) - 1 :
           Tail(queue)[i] = IF i < 1 THEN queue[i] ELSE queue[i + 1]
    BY <1>1, <2>1
  <2>4. Recency(Tail(queue)) = Recency(queue)
    BY <1>1, <1>4, <2>1, <2>2, <2>3, RecencyOfDrop
  <2>5. QED
    BY <1>2, <2>4
<1>5. QED
  BY <1>3, <1>4

LEMMA CompactKeepsOrder ==
  ASSUME TypeInv, BooksInv, KeptInv, Compact
  PROVE  Recent' = Recent
<1> DEFINE k == Head(queue)
           t == Top.todo
<1>1. /\ TopAt("compact") /\ TopAt("compact")'
      /\ t \in Nat \ {0} /\ t <= Len(queue) /\ Len(queue) \in Nat
      /\ queue # <<>> /\ queue \in Seq(Keys) /\ Top'.todo = t - 1
      /\ \/ refcount[k] = 1 /\ queue' = Append(Tail(queue), k)
         \/ refcount[k] > 1 /\ queue' = Tail(queue)
  BY CompactFacts DEF TopAt
<1>2. Recent = Recency(Swapped(queue, t))
  BY <1>1 DEF Recent, LogicalQueue, Swapped
<1>3. Recent' = Recency(Swapped(queue', t - 1))
  BY <1>1 DEF Recent, LogicalQueue, Swapped
<1>4. t \in 1..Len(queue)
  BY <1>1
<1>5. CASE refcount[k] = 1
  <2>1. queue' = Append(Tail(queue), k)
    BY <1>1, <1>5
  <2>2. Swapped(Append(Tail(queue), k), t - 1) = Swapped(queue, t)
    <3> HIDE DEF t
    <3>1. QED
      BY <1>1, <1>4, SwappedRotate
  <2>3. QED
    BY <1>2, <1>3, <2>1, <2>2
<1>6. CASE refcount[k] > 1
  <2>1. k \in Keys /\ k = queue[1]
    BY <1>1, HeadTailProperties
  <2>2. /\ refcount[k] = Cardinality(Occurrences(queue, k))
        /\ IsFiniteSet(Occurrences(queue, k))
    BY <1>1, <2>1, OccurrencesFinite DEF BooksInv, RefcountIsExact
  <2>3. Occurrences(queue, k) # {1}
    BY <1>6, <2>2, FS_Singleton
  <2>4. 1 \in Occurrences(queue, k)
    BY <1>1, <1>4, <2>1 DEF Occurrences
  <2>5. PICK m \in 1..Len(queue) : m # 1 /\ queue[m] = k
    BY <2>3, <2>4 DEF Occurrences
  <2>6. m \notin t + 1..Len(queue)
    BY <1>1, <1>6, <2>5 DEF KeptInv
  <2>7. m \in 2..t
    BY <1>1, <2>5, <2>6
  <2>8. \E h \in 2..t : queue[h] = queue[1]
    BY <2>1, <2>5, <2>7
  <2>9. Recency(Swapped(Tail(queue), t - 1)) = Recency(Swapped(queue, t))
    <3> HIDE DEF t
    <3>1. QED
      BY <1>1, <1>4, <2>8, SwappedDrop
  <2>10. queue' = Tail(queue)
    BY <1>1, <1>6
  <2>11. QED
    BY <1>2, <1>3, <2>9, <2>10
<1>7. QED
  BY <1>1, <1>5, <1>6

LEMMA BoundaryKeepsOrder ==
  ASSUME TypeInv, BooksInv, Purged \/ Compacted
  PROVE  Recent' = Recent
<1>1. queue \in Seq(Keys) /\ queue' = queue /\ stack # <<>> /\ Len(queue) \in Nat
  BY LenProperties DEF Purged, Compacted, Fails, books, TopAt, TypeInv, TypeOK
<1>2. Recent = Recency(queue)
  <2>1. CASE Purged
    BY <2>1 DEF Purged, Recent, LogicalQueue, TopAt
  <2>2. CASE Compacted
    <3>1. LogicalQueue = Swapped(queue, 0)
      BY <2>2 DEF Compacted, LogicalQueue, Swapped
    <3>2. QED
      BY <1>1, <3>1, SwappedWhole DEF Recent
  <2>3. QED
    BY <2>1, <2>2
<1>3. CASE ~TopAt("compact")'
  BY <1>1, <1>2, <1>3 DEF Recent, LogicalQueue
<1>4. CASE TopAt("compact")' /\ Purged
  <2> DEFINE f == [Top EXCEPT !.at = "compact", !.todo = Len(queue)]
  <2>1. Top \in Frame
    BY <1>1, TopType DEF TypeInv
  <2>2. f \in Frame /\ f.todo = Len(queue)
    BY <1>1, <2>1 DEF Frame, Stages
  <2>3. stack' # Callers
    <3>1. stack' = Callers => AtRest'
      BY <1>1, PopFacts DEF TypeInv, TypeOK
    <3>2. QED
      BY <1>4, <3>1 DEF AtRest, InF, TopAt, CallSites
  <2>4. stack' = Append(Callers, f)
    BY <1>4, <2>3 DEF Purged
  <2>5. Top' = f
    <3> HIDE DEF f
    <3>1. QED
      BY <1>1, <2>2, <2>4, ReplaceFacts DEF TypeInv, TypeOK
  <2>6. LogicalQueue' = Swapped(queue, Len(queue))
    BY <1>1, <1>4, <2>2, <2>5 DEF LogicalQueue, Swapped
  <2>7. QED
    BY <1>1, <1>2, <2>6, SwappedWhole DEF Recent
<1>5. CASE TopAt("compact")' /\ Compacted
  <2>1. stack' # Callers
    <3>1. stack' = Callers => AtRest'
      BY <1>1, PopFacts DEF TypeInv, TypeOK
    <3>2. QED
      BY <1>5, <3>1 DEF AtRest, InF, TopAt, CallSites
  <2>2. stack' = stack
    BY <1>5, <2>1 DEF Compacted, Fails
  <2>3. QED
    BY <1>1, <2>2 DEF Recent, LogicalQueue, TopAt, Top
<1>6. QED
  BY <1>3, <1>4, <1>5

(* lru_cache is a least-recently-used cache of the given maximum size: the *)
(* key that is dropped is the one whose latest use is the longest ago, and *)
(* neither duplicates in the deque nor its compaction change that.         *)
THEOREM CacheIsLru == Spec => ImplementsLru
<1>1. Init => Lru!Init /\ RoomInv
  <2> SUFFICES ASSUME Init PROVE Lru!Init /\ RoomInv
    OBVIOUS
  <2>1. queue = <<>> /\ ~TopAt("compact") /\ ~TopAt("record")
    BY DEF Init, TopAt
  <2>2. Recent = Recency(<<>>)
    BY <2>1 DEF Recent, LogicalQueue
  <2>3. IsRecency(<<>>, <<>>) /\ IsRecency(<<>>, Recency(<<>>))
    <3>1. <<>> \in Seq(Keys) /\ Len(<<>>) = 0 /\ 1..0 = {}
      BY EmptySeq
    <3>2. IsRecency(<<>>, Recency(<<>>))
      BY <3>1, RecencyFacts
    <3>3. IsRecency(<<>>, <<>>)
      BY <3>1 DEF IsRecency
    <3>4. QED
      BY <3>2, <3>3
  <2>4. Recency(<<>>) = <<>>
    BY <2>3, EmptySeq, RecencyIsUnique
  <2>5. QED
    BY <2>1, <2>2, <2>4 DEF Lru!Init, RoomInv
<1>2. TypeInv /\ BooksInv /\ KeptInv /\ RoomInv /\ [Next]_vars
        => [Lru!Next]_Recent
  <2> SUFFICES ASSUME TypeInv, BooksInv, KeptInv, RoomInv, [Next]_vars
               PROVE  Recent' = Recent \/ Lru!Next
    OBVIOUS
  <2>1. ASSUME ~TopAt("compact")', ~TopAt("compact"), queue' = queue
        PROVE  Recent' = Recent
    BY <2>1 DEF Recent, LogicalQueue
  <2>2. ASSUME UNCHANGED <<queue, stack>>
        PROVE  Recent' = Recent
    BY <2>2 DEF Recent, LogicalQueue, TopAt, Top
  <2>3. Purge => Recent' = Recent \/ Lru!Next
    BY PurgeEvicts DEF Lru!Next
  <2>4. QED
    BY <2>1, <2>2, <2>3, CompactionSteps, RecordUses, CompactKeepsOrder,
       BoundaryKeepsOrder
<1>3. TypeInv /\ BooksInv /\ SizeBound /\ RoomInv /\ [Next]_vars => RoomInv'
  BY RoomIsInductive
<1>4. QED
  BY <1>1, <1>2, <1>3, TypeCorrect, BooksInvariant, KeptInvariant,
     SizeIsBounded, PTL
  DEF Spec, ImplementsLru, Lru!Spec
=============================================================================
