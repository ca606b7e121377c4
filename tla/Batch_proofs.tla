---------------------------- MODULE Batch_proofs ----------------------------
(***************************************************************************)
(* What the parts that work through files do for all values of their       *)
(* constants.  Every part has an invariant of its own, since a step of the *)
(* composition is one of the part it began in.                             *)
(***************************************************************************)
EXTENDS MCBatch, SequenceTheorems, FiniteSetTheorems, WellFoundedInduction, TLAPS

\* An invariant of a part is one of the composition.
LEMMA PartsStayApart ==
  [Next]_vars =>
    /\ part = part'
    /\ part = "diff" => [Diff!Next]_Diff!diffVars
    /\ part = "area" => [Area!Next]_Area!vars
    /\ part = "locater" => [Locater!Next]_Locater!locaterVars
<1> SUFFICES ASSUME [Next]_vars
             PROVE  /\ part = part'
                    /\ part = "diff" => [Diff!Next]_Diff!diffVars
                    /\ part = "area" => [Area!Next]_Area!vars
                    /\ part = "locater" => [Locater!Next]_Locater!locaterVars
  OBVIOUS
<1>1. CASE UNCHANGED vars
  BY <1>1 DEF vars, diffVars, areaVars, locaterVars, Diff!diffVars, Area!vars, Locater!locaterVars
<1>2. CASE Next
  BY <1>2 DEF Next, ReportOnly, ModelOnly, DiffOnly, AreaOnly, LocaterOnly
<1>3. QED
  BY <1>1, <1>2

LEMMA SmallestOf ==
  ASSUME NEW T, T \subseteq Nat, T # {}
  PROVE  \E x \in T : \A y \in T : x <= y
<1>1. PICK x \in T : \A y \in T : ~ (<<y, x>> \in OpToRel(<, Nat))
  BY NatLessThanWellFounded, WFMin
<1>2. \A y \in T : ~ (y < x)
  BY <1>1 DEF OpToRel
<1>3. QED
  BY <1>2

\* Numbers of which each is less than the next one rise.
LEMMA Rising ==
  ASSUME NEW n \in Nat, NEW a, \A i \in 1..n : a[i] \in Int,
         \A i \in 1..n - 1 : a[i] < a[i + 1]
  PROVE  \A i, j \in 1..n : i < j => a[i] < a[j]
<1>1. TAKE i \in 1..n
<1> DEFINE wrong == {j \in 1..n : i < j /\ ~(a[i] < a[j])}
<1>2. ASSUME wrong # {}
      PROVE  FALSE
  <2>0. wrong \subseteq Nat
    OBVIOUS
  <2> HIDE DEF wrong
  <2>1. PICK j \in wrong : \A k \in wrong : j <= k
    BY <1>2, <2>0, SmallestOf
  <2>2. j \in 1..n /\ i < j /\ ~(a[i] < a[j])
    BY DEF wrong
  <2>3. j - 1 \in 1..n /\ j - 1 \in 1..n - 1 /\ (j - 1) + 1 = j /\ i <= j - 1
    BY <1>1, <2>2
  <2>4. a[j - 1] < a[j]
    BY <2>3
  <2>5. a[i] \in Int /\ a[j] \in Int /\ a[j - 1] \in Int
    BY <1>1, <2>2, <2>3
  <2>6. i = j - 1 \/ a[i] < a[j - 1]
    <3>1. CASE j - 1 \in wrong
      BY <2>1, <2>2, <3>1
    <3>2. CASE j - 1 \notin wrong
      BY <1>1, <2>3, <3>2 DEF wrong
    <3>3. QED
      BY <3>1, <3>2
  <2>7. QED
    BY <2>2, <2>4, <2>5, <2>6
<1>3. QED
  BY <1>2

-----------------------------------------------------------------------------
(* The area of an address.                                                 *)

Ranges == [start : Int, end : Int, code : Area!Codes]

AreaTypes ==
  /\ ips \in Tables /\ ip \in Addresses
  /\ front \in 0..Len(ips) /\ end \in 0..Len(ips) /\ front <= end
  /\ found \in {Area!NotYet, Area!NoCode} \cup Area!Codes
  /\ found = Area!NotYet => answer = Area!NotYet

\* While it is searched for, the address is not in front of the range at
\* front, and is in front of the one at end.
SearchInv ==
  (found = Area!NotYet /\ ~Area!Outside) =>
    /\ front < end
    /\ Area!At(front).start <= ip
    /\ end < Len(ips) => ip < Area!At(end).start

AreaInv == AreaTypes /\ SearchInv /\ Area!FoundIsRange /\ Area!CityIsWithProvince

LEMMA TablesAreTyped ==
  /\ \A t \in Tables : t \in Seq(Ranges) /\ \A i \in DOMAIN t : t[i].start <= t[i].end
  /\ Addresses \subseteq Int
<1>1. Area!IpAreaAssumption
  BY BatchAssumption
<1>2. QED
  BY <1>1 DEF Area!IpAreaAssumption, Ranges

LEMMA TableIsTyped ==
  ASSUME AreaTypes
  PROVE  /\ ips \in Seq(Ranges) /\ ip \in Int /\ Len(ips) \in Nat
         /\ \A i \in 1..Len(ips) : /\ ips[i].start \in Int /\ ips[i].end \in Int
                                   /\ ips[i].code \in Area!Codes /\ ips[i].start <= ips[i].end
<1>1. ips \in Seq(Ranges) /\ ip \in Int /\ \A i \in DOMAIN ips : ips[i].start <= ips[i].end
  BY TablesAreTyped DEF AreaTypes
<1>2. \A i \in 1..Len(ips) : ips[i] \in Ranges
  BY <1>1
<1>3. QED
  BY <1>1, <1>2 DEF Ranges

LEMMA NoCodeIsNone == Area!NotYet # Area!NoCode /\ Area!NotYet \notin Area!Codes /\ Area!NoCode \notin Area!Codes
BY DEF Area!NotYet, Area!NoCode, Area!Codes

\* The first and the last range bound a table without gaps.
LEMMA TableIsBounded ==
  ASSUME AreaTypes, Area!Contiguous
  PROVE  \A i \in 1..Len(ips) : ips[1].start <= ips[i].start /\ ips[i].end <= ips[Len(ips)].end
<1> DEFINE n == Len(ips)
           a == [i \in 1..n |-> ips[i].start]
           b == [i \in 1..n |-> ips[i].end]
<1>1. n \in Nat /\ \A i \in 1..n : ips[i].start \in Int /\ ips[i].end \in Int /\ ips[i].start <= ips[i].end
  BY TableIsTyped
<1>2. \A i \in 1..n - 1 : ips[i + 1].start = ips[i].end + 1
  BY DEF Area!Contiguous
<1> HIDE DEF n
<1>3. \A i \in 1..n : a[i] \in Int /\ b[i] \in Int
  BY <1>1
<1>4. \A i \in 1..n - 1 : a[i] < a[i + 1] /\ b[i] < b[i + 1]
  <2>1. TAKE i \in 1..n - 1
  <2>2. i \in 1..n /\ i + 1 \in 1..n
    BY <1>1
  <2>3. QED
    BY <1>1, <1>2, <2>2
<1> HIDE DEF a, b
<1>5. \A i, j \in 1..n : i < j => a[i] < a[j]
  BY <1>1, <1>3, <1>4, Rising
<1>6. \A i, j \in 1..n : i < j => b[i] < b[j]
  BY <1>1, <1>3, <1>4, Rising
<1>7. TAKE i \in 1..Len(ips)
<1>8. i \in 1..n /\ 1 \in 1..n /\ n \in 1..n /\ (1 = i \/ 1 < i) /\ (i = n \/ i < n)
  BY <1>1, <1>7 DEF n
<1>9. a[1] <= a[i] /\ b[i] <= b[n]
  BY <1>3, <1>5, <1>6, <1>8
<1>10. QED
  BY <1>8, <1>9 DEF a, b, n

LEMMA AreaInit == Area!Init => AreaInv
<1> SUFFICES ASSUME Area!Init
             PROVE  AreaInv
  OBVIOUS
<1>1. ips \in Tables /\ ip \in Addresses /\ front = 0 /\ end = Len(ips) /\ found = Area!NotYet /\ answer = Area!NotYet
  BY DEF Area!Init
<1>2. ips \in Seq(Ranges) /\ ip \in Int /\ Len(ips) \in Nat
  BY <1>1, TablesAreTyped
<1>3. AreaTypes
  BY <1>1, <1>2 DEF AreaTypes
<1>4. SearchInv
  <2>1. ASSUME ~Area!Outside
        PROVE  0 < Len(ips) /\ Area!At(0).start <= ip
    <3>1. ips # <<>> /\ ~(ip < Area!At(0).start)
      BY <2>1 DEF Area!Outside
    <3>2. Len(ips) # 0
      BY <1>2, <3>1
    <3>3. Area!At(0).start \in Int
      BY <1>2, <1>3, <3>2, TableIsTyped DEF Area!At
    <3>4. QED
      BY <1>2, <3>1, <3>2, <3>3
  <2>2. QED
    BY <1>1, <1>2, <2>1 DEF SearchInv
<1>5. QED
  BY <1>1, <1>3, <1>4 DEF AreaInv, Area!FoundIsRange, Area!CityIsWithProvince

LEMMA AreaStep == AreaInv /\ [Area!Next]_Area!vars => AreaInv'
<1> SUFFICES ASSUME AreaInv, [Area!Next]_Area!vars
             PROVE  AreaInv'
  OBVIOUS
<1>0. AreaTypes /\ SearchInv /\ Area!FoundIsRange /\ Area!CityIsWithProvince
  BY DEF AreaInv
<1>t. /\ ips \in Seq(Ranges) /\ ip \in Int /\ Len(ips) \in Nat
      /\ \A i \in 1..Len(ips) : /\ ips[i].start \in Int /\ ips[i].end \in Int
                                /\ ips[i].code \in Area!Codes /\ ips[i].start <= ips[i].end
  BY <1>0, TableIsTyped
<1>1. CASE Area!Refuse
  <2>1. /\ found = Area!NotYet /\ Area!Outside /\ found' = Area!NoCode
        /\ ips' = ips /\ ask' = ask /\ ip' = ip /\ front' = front /\ end' = end /\ answer' = answer
    BY <1>1 DEF Area!Refuse
  <2>2. AreaTypes' /\ SearchInv'
    BY <1>0, <2>1, NoCodeIsNone DEF AreaTypes, SearchInv
  <2>3. ASSUME Area!Contiguous, NEW i \in DOMAIN ips, ips[i].start <= ip, ip <= ips[i].end
        PROVE  FALSE
    <3>1. i \in 1..Len(ips) /\ ips # <<>> /\ 1 \in 1..Len(ips) /\ Len(ips) \in 1..Len(ips)
      BY <1>t, <2>3
    <3>2. ips[1].start <= ips[i].start /\ ips[i].end <= ips[Len(ips)].end
      BY <1>0, <2>3, <3>1, TableIsBounded
    <3>3. ip < ips[1].start \/ ip > ips[Len(ips)].end
      BY <1>t, <2>1, <3>1 DEF Area!Outside, Area!At
    <3>4. QED
      BY <1>t, <2>3, <3>1, <3>2, <3>3
  <2>4. Area!FoundIsRange'
    BY <2>1, <2>3 DEF Area!FoundIsRange, Area!Contiguous
  <2>5. Area!CityIsWithProvince'
    BY <2>1 DEF Area!CityIsWithProvince
  <2>6. QED
    BY <2>2, <2>4, <2>5 DEF AreaInv
<1>2. CASE Area!Halve
  <2> DEFINE mid == (front + end) \div 2
  <2>1. /\ found = Area!NotYet /\ ~Area!Outside /\ front + 1 < end
        /\ ips' = ips /\ ask' = ask /\ ip' = ip /\ found' = found /\ answer' = answer
        /\ IF ip >= Area!At(mid).start THEN front' = mid /\ end' = end ELSE end' = mid /\ front' = front
    BY <1>2 DEF Area!Halve
  <2>2. /\ front \in Nat /\ end \in Nat /\ end <= Len(ips)
        /\ mid \in Nat /\ front < mid /\ mid < end
    BY <1>0, <1>t, <2>1 DEF AreaTypes
  <2> HIDE DEF mid
  <2>3. Area!At(mid) = ips[mid + 1] /\ Area!At(mid).start \in Int
    BY <1>t, <2>2 DEF Area!At
  <2>4. AreaTypes'
    BY <1>0, <1>t, <2>1, <2>2 DEF AreaTypes
  <2>5. SearchInv'
    <3>1. /\ Area!At(front).start <= ip
          /\ end < Len(ips) => ip < Area!At(end).start
      BY <1>0, <2>1 DEF SearchInv
    <3>2. CASE ip >= Area!At(mid).start
      BY <1>t, <2>1, <2>2, <2>3, <3>1, <3>2 DEF SearchInv, Area!At
    <3>3. CASE ~(ip >= Area!At(mid).start)
      BY <1>t, <2>1, <2>2, <2>3, <3>1, <3>3 DEF SearchInv, Area!At
    <3>4. QED
      BY <3>2, <3>3
  <2>6. QED
    BY <1>0, <2>1, <2>4, <2>5 DEF AreaInv, Area!FoundIsRange, Area!Contiguous, Area!CityIsWithProvince
<1>3. CASE Area!Hit
  <2>1. /\ found = Area!NotYet /\ ~Area!Outside /\ front + 1 >= end /\ found' = Area!At(front).code
        /\ ips' = ips /\ ask' = ask /\ ip' = ip /\ front' = front /\ end' = end /\ answer' = answer
    BY <1>3 DEF Area!Hit
  <2>2. front < end /\ Area!At(front).start <= ip /\ (end < Len(ips) => ip < Area!At(end).start)
    BY <1>0, <2>1 DEF SearchInv
  <2>3. /\ front \in Nat /\ end = front + 1 /\ end \in 1..Len(ips)
    BY <1>0, <1>t, <2>1, <2>2 DEF AreaTypes
  <2>4. found' = ips[end].code /\ ips[end].code \in Area!Codes /\ ips[end].start <= ip
    BY <1>t, <2>1, <2>2, <2>3 DEF Area!At
  <2>5. AreaTypes' /\ SearchInv'
    BY <1>0, <2>1, <2>4, NoCodeIsNone DEF AreaTypes, SearchInv
  <2>6. ASSUME Area!Contiguous
        PROVE  ip <= ips[end].end
    <3>1. CASE end < Len(ips)
      <4>1. end \in 1..Len(ips) - 1 /\ end + 1 \in 1..Len(ips)
        BY <1>t, <2>3, <3>1
      <4>2. ips[end + 1].start = ips[end].end + 1
        BY <2>6, <4>1 DEF Area!Contiguous
      <4>3. ip < ips[end + 1].start
        BY <2>2, <3>1 DEF Area!At
      <4>4. QED
        BY <1>t, <2>3, <4>1, <4>2, <4>3
    <3>2. CASE end = Len(ips)
      BY <1>t, <2>1, <2>3, <3>2 DEF Area!Outside, Area!At
    <3>3. QED
      BY <1>t, <2>3, <3>1, <3>2
  <2>7. Area!FoundIsRange'
    <3>1. DOMAIN ips = 1..Len(ips)
      BY <1>t
    <3>2. QED
      BY <2>1, <2>3, <2>4, <2>6, <3>1 DEF Area!FoundIsRange, Area!Contiguous
  <2>8. Area!CityIsWithProvince'
    <3>1. answer = Area!NotYet
      BY <1>0, <2>1 DEF AreaTypes
    <3>2. QED
      BY <2>1, <3>1 DEF Area!CityIsWithProvince
  <2>9. QED
    BY <2>5, <2>7, <2>8 DEF AreaInv
<1>4. CASE Area!Answer
  <2>1. /\ found # Area!NotYet
        /\ ips' = ips /\ ask' = ask /\ ip' = ip /\ front' = front /\ end' = end /\ found' = found
    BY <1>4 DEF Area!Answer
  <2>2. AreaTypes' /\ SearchInv' /\ Area!FoundIsRange'
    BY <1>0, <2>1 DEF AreaTypes, SearchInv, Area!FoundIsRange, Area!Contiguous
  <2>3. ASSUME ask = "big", found # Area!NoCode, NEW p \in DOMAIN BigAreas, p[1] = found[1]
        PROVE  answer' = <<BigAreas[p]>>
    <3>1. found \in Area!Codes
      BY <1>0, <2>1, <2>3 DEF AreaTypes
    <3>2. p \in Area!Codes /\ p[2] = 0
      BY BatchAssumption DEF Area!IpAreaAssumption
    <3>3. p = Area!Province(found)
      BY <2>3, <3>1, <3>2 DEF Area!Codes, Area!Province
    <3>4. answer' = Area!BigArea(found)
      BY <1>4, <2>3 DEF Area!Answer
    <3>5. QED
      BY <2>3, <3>3, <3>4 DEF Area!BigArea
  <2>4. Area!CityIsWithProvince'
    BY <2>1, <2>3 DEF Area!CityIsWithProvince
  <2>5. QED
    BY <2>2, <2>4 DEF AreaInv
<1>5. CASE UNCHANGED Area!vars
  BY <1>0, <1>5 DEF Area!vars, AreaInv, AreaTypes, SearchInv, Area!Outside, Area!At, Area!FoundIsRange,
                    Area!Contiguous, Area!CityIsWithProvince
<1>6. QED
  BY <1>1, <1>2, <1>3, <1>4, <1>5 DEF Area!Next

LEMMA Areas == Spec => [](part = "area" => AreaInv)
<1>1. Init => (part = "area" => AreaInv)
  BY AreaInit DEF Init
<1>2. (part = "area" => AreaInv) /\ [Next]_vars => (part = "area" => AreaInv)'
  BY AreaStep, PartsStayApart
<1>3. QED
  BY <1>1, <1>2, PTL DEF Spec

-----------------------------------------------------------------------------
(* The record of an address.                                               *)

Records(f) == 1..Len(Databases[f].start)

LocaterTypes ==
  /\ file \in DOMAIN Databases /\ sought \in Ips \cup {0}
  /\ left \in 0..Len(Databases[file].start) /\ right \in -1..Len(Databases[file].start)
  /\ at \in {"idle", "find", "record", "area", "done", "failed"}
  /\ pos \in Nat /\ offset \in Nat /\ lookups \in 0..MaxLookups

\* A record is sought between the two bounds.
Inside(f, i, address) ==
  LET d == Databases[f]
      n == Len(d.start)
  IN  d.start[i] < address /\ (address <= d.start[i + 1] \/ i = n - 1)

FindInv ==
  at = "find" =>
    /\ right < Len(Databases[file].start)
    /\ \A i \in 1..Len(Databases[file].start) - 1 : Inside(file, i, sought) => left < i /\ i <= right

\* The record found is one of the file, and what is still to be read of it is
\* at the position.
ReadInv ==
  /\ at \in {"record", "area", "done"} => \E i \in Records(file) : offset = Databases[file].record[i]
  /\ at = "area" => \A i \in Records(file) : offset = Databases[file].record[i] =>
       /\ country = Databases[file].countries[i]
       /\ Locater!SaysArea(Databases[file].cells, pos, Databases[file].areas[i])
  /\ at = "done" => \A i \in Records(file) : offset = Databases[file].record[i] =>
       country = Databases[file].countries[i] /\ area = Databases[file].areas[i]

LocaterInv == LocaterTypes /\ FindInv /\ ReadInv /\ Locater!InsideIsFound

LEMMA DatabasesAreTyped ==
  ASSUME NEW f \in DOMAIN Databases
  PROVE  LET d == Databases[f]
             n == Len(d.start)
         IN  /\ d.start \in Seq(Int) /\ d.record \in Seq(Nat)
             /\ Len(d.record) = n /\ n \in Nat
             /\ \A i, j \in 1..n : i < j => d.start[i] < d.start[j]
             /\ DOMAIN d.cells \subseteq Nat \ {0}
             /\ \A i \in 1..n : Locater!Says(d.cells, d.record[i], d.countries[i], d.areas[i])
<1> DEFINE d == Databases[f]
           n == Len(d.start)
<1>1. Locater!IpLocaterAssumption
  BY BatchAssumption
<1>2. /\ d.start \in Seq(Int) /\ d.record \in Seq(Nat) /\ Len(d.record) = n
      /\ \A i \in 1..n - 1 : d.start[i] < d.start[i + 1]
      /\ DOMAIN d.cells \subseteq Nat \ {0}
      /\ \A i \in 1..n : Locater!Says(d.cells, d.record[i], d.countries[i], d.areas[i])
  BY <1>1 DEF Locater!IpLocaterAssumption
<1>3. n \in Nat /\ \A i \in 1..n : d.start[i] \in Int
  BY <1>2
<1> HIDE DEF d, n
<1>4. \A i, j \in 1..n : i < j => d.start[i] < d.start[j]
  BY <1>2, <1>3, Rising
<1>5. QED
  BY <1>2, <1>3, <1>4 DEF d, n

\* A record read by getAddr gives its country, with its area at the position.
LEMMA CountryIsRead ==
  ASSUME file \in DOMAIN Databases, NEW c, NEW a,
         Locater!Says(Databases[file].cells, offset, c, a), offset \in Nat,
         DOMAIN Databases[file].cells \subseteq Nat \ {0}
  PROVE  /\ Locater!Country.text = c /\ Locater!Country.pos \in Nat
         /\ Locater!SaysArea(Databases[file].cells, Locater!Country.pos, a)
<1> DEFINE cells == Databases[file].cells
           o == offset + 4
<1>0. Locater!db.cells = cells /\ DOMAIN cells \subseteq Nat /\ o \in Nat
  BY DEF Locater!db
<1>1. \A p, w : p \in DOMAIN cells /\ cells[p] = [is |-> "string", to |-> w] =>
        /\ ~Locater!IsMode(p, 1) /\ ~Locater!IsMode(p, 2)
        /\ Locater!ReadString(p) = [text |-> w, pos |-> p + 2]
  BY <1>0 DEF Locater!IsMode, Locater!Cell, Locater!ReadString, Locater!StringSize
<1>2. \A p, m : p \in DOMAIN cells /\ cells[p] = [is |-> "mode", to |-> m] =>
        \A k : Locater!IsMode(p, k) <=> m = k
  BY <1>0 DEF Locater!IsMode, Locater!Cell
<1>3. \A p, q : cells[p] = [is |-> "offset", to |-> q] => Locater!Long3(p) = q
  BY <1>0 DEF Locater!Long3, Locater!Cell
<1>4. Locater!SaysBoth(cells, o, c, a) \/
        (/\ o \in DOMAIN cells /\ cells[o] = [is |-> "mode", to |-> 1] /\ o + 1 \in DOMAIN cells
         /\ \E p \in DOMAIN cells :
              cells[o + 1] = [is |-> "offset", to |-> p] /\ Locater!SaysBoth(cells, p, c, a))
  BY DEF Locater!Says
<1> HIDE DEF cells, o
<1>c. Locater!Country =
        IF Locater!IsMode(o, 1)
        THEN LET p == Locater!Long3(o + 1)
             IN  IF Locater!IsMode(p, 2) THEN [Locater!ReadString(Locater!Long3(p + 1)) EXCEPT !.pos = p + 4]
                 ELSE Locater!ReadString(p)
        ELSE IF Locater!IsMode(o, 2) THEN [Locater!ReadString(Locater!Long3(o + 1)) EXCEPT !.pos = o + 4]
        ELSE Locater!ReadString(o)
  <2>1. o + 4 = offset + 8
    BY DEF o
  <2>2. QED
    BY <2>1 DEF Locater!Country, o
<1>5. ASSUME NEW p \in DOMAIN cells, Locater!SaysBoth(cells, p, c, a)
      PROVE  \/ /\ ~Locater!IsMode(p, 1) /\ ~Locater!IsMode(p, 2)
                /\ Locater!ReadString(p) = [text |-> c, pos |-> p + 2]
                /\ Locater!SaysArea(cells, p + 2, a)
             \/ /\ ~Locater!IsMode(p, 1) /\ Locater!IsMode(p, 2)
                /\ [Locater!ReadString(Locater!Long3(p + 1)) EXCEPT !.pos = p + 4] = [text |-> c, pos |-> p + 4]
                /\ Locater!SaysArea(cells, p + 4, a)
  <2>1. CASE cells[p] = [is |-> "string", to |-> c] /\ Locater!SaysArea(cells, p + Locater!StringSize, a)
    BY <1>1, <2>1 DEF Locater!StringSize
  <2>2. ASSUME cells[p] = [is |-> "mode", to |-> 2], NEW q \in DOMAIN cells,
               cells[p + 1] = [is |-> "offset", to |-> q], cells[q] = [is |-> "string", to |-> c],
               Locater!SaysArea(cells, p + 4, a)
        PROVE  /\ ~Locater!IsMode(p, 1) /\ Locater!IsMode(p, 2)
               /\ [Locater!ReadString(Locater!Long3(p + 1)) EXCEPT !.pos = p + 4] = [text |-> c, pos |-> p + 4]
    <3>1. ~Locater!IsMode(p, 1) /\ Locater!IsMode(p, 2)
      BY <1>2, <2>2
    <3>2. Locater!Long3(p + 1) = q /\ Locater!ReadString(q) = [text |-> c, pos |-> q + 2]
      BY <1>1, <1>3, <2>2
    <3>3. QED
      BY <3>1, <3>2
  <2>3. QED
    BY <1>5, <2>1, <2>2 DEF Locater!SaysBoth
<1>6. CASE Locater!SaysBoth(cells, o, c, a)
  <2>1. o \in DOMAIN cells
    BY <1>6 DEF Locater!SaysBoth
  <2>2. \/ Locater!Country = [text |-> c, pos |-> o + 2] /\ Locater!SaysArea(cells, o + 2, a)
        \/ Locater!Country = [text |-> c, pos |-> o + 4] /\ Locater!SaysArea(cells, o + 4, a)
    BY <1>c, <1>5, <1>6, <2>1
  <2>3. Locater!Country.text = c /\ Locater!Country.pos \in {o + 2, o + 4} /\ Locater!SaysArea(cells, Locater!Country.pos, a)
    BY <2>2
  <2>4. QED
    BY <1>0, <2>3 DEF cells
<1>7. ASSUME cells[o] = [is |-> "mode", to |-> 1], o \in DOMAIN cells, NEW p \in DOMAIN cells,
             cells[o + 1] = [is |-> "offset", to |-> p], Locater!SaysBoth(cells, p, c, a)
      PROVE  /\ Locater!Country.text = c /\ Locater!Country.pos \in Nat
             /\ Locater!SaysArea(cells, Locater!Country.pos, a)
  <2>1. Locater!IsMode(o, 1) /\ Locater!Long3(o + 1) = p /\ p \in Nat
    BY <1>0, <1>2, <1>3, <1>7
  <2>2. Locater!Country = IF Locater!IsMode(p, 2) THEN [Locater!ReadString(Locater!Long3(p + 1)) EXCEPT !.pos = p + 4]
                          ELSE Locater!ReadString(p)
    BY <1>c, <2>1
  <2>3. \/ Locater!Country = [text |-> c, pos |-> p + 2] /\ Locater!SaysArea(cells, p + 2, a)
        \/ Locater!Country = [text |-> c, pos |-> p + 4] /\ Locater!SaysArea(cells, p + 4, a)
    BY <1>5, <1>7, <2>2
  <2>4. Locater!Country.text = c /\ Locater!Country.pos \in {p + 2, p + 4} /\ Locater!SaysArea(cells, Locater!Country.pos, a)
    BY <2>3
  <2>5. QED
    BY <2>1, <2>4
<1>8. QED
  BY <1>4, <1>6, <1>7 DEF cells

\* getAreaAddr, where an area is, reads it.
LEMMA AreaIsRead ==
  ASSUME NEW a, Locater!ReadArea, pos \in Nat, DOMAIN Databases[file].cells \subseteq Nat \ {0},
         Locater!SaysArea(Databases[file].cells, pos, a)
  PROVE  area' = a /\ pos' \in Nat
<1> DEFINE cells == Databases[file].cells
<1>1. Locater!db.cells = cells /\ pos \in DOMAIN cells
  BY DEF Locater!db, Locater!SaysArea
<1>2. CASE cells[pos] = [is |-> "string", to |-> a]
  <2>1. ~Locater!IsMode(pos, 1) /\ ~Locater!IsMode(pos, 2) /\ Locater!IsString(pos) /\ Locater!ReadString(pos).text = a
    BY <1>1, <1>2 DEF Locater!IsMode, Locater!IsString, Locater!Cell, Locater!ReadString
  <2>2. QED
    BY <2>1 DEF Locater!ReadArea, Locater!StringSize
<1>3. ASSUME NEW mode \in {1, 2}, cells[pos] = [is |-> "mode", to |-> mode], NEW p \in {0} \cup DOMAIN cells,
             cells[pos + 1] = [is |-> "offset", to |-> p],
             IF p = 0 THEN a = Locater!NoString ELSE cells[p] = [is |-> "string", to |-> a]
      PROVE  area' = a /\ pos' \in Nat
  <2>1. Locater!IsMode(pos, 1) \/ Locater!IsMode(pos, 2)
    BY <1>1, <1>3 DEF Locater!IsMode, Locater!Cell
  <2>2. Locater!Long3(pos + 1) = p /\ p \in Nat
    BY <1>1, <1>3 DEF Locater!Long3, Locater!Cell
  <2>3. p # 0 => Locater!ReadString(p) = [text |-> a, pos |-> p + 2]
    BY <1>1, <1>3 DEF Locater!ReadString, Locater!Cell, Locater!StringSize
  <2>4. QED
    BY <1>3, <2>1, <2>2, <2>3 DEF Locater!ReadArea
<1>4. QED
  BY <1>2, <1>3 DEF Locater!SaysArea

LEMMA LocaterInit == Locater!Init => LocaterInv
<1> SUFFICES ASSUME Locater!Init
             PROVE  LocaterInv
  OBVIOUS
<1>1. /\ file \in DOMAIN Databases /\ sought = 0 /\ left = 0 /\ right = 0 /\ at = "idle" /\ pos = 8
      /\ offset = 0 /\ lookups = 0
  BY DEF Locater!Init
<1>2. MaxLookups \in Nat /\ Len(Databases[file].start) \in Nat
  BY <1>1, DatabasesAreTyped, BatchAssumption DEF Locater!IpLocaterAssumption
<1>3. QED
  BY <1>1, <1>2 DEF LocaterInv, LocaterTypes, FindInv, ReadInv, Locater!InsideIsFound

LEMMA LocaterStep == LocaterInv /\ [Locater!Next]_Locater!locaterVars => LocaterInv'
<1> SUFFICES ASSUME LocaterInv, [Locater!Next]_Locater!locaterVars
             PROVE  LocaterInv'
  OBVIOUS
<1>0. LocaterTypes /\ FindInv /\ ReadInv /\ Locater!InsideIsFound
  BY DEF LocaterInv
<1> DEFINE d == Databases[file]
           n == Len(d.start)
<1>1. /\ d.start \in Seq(Int) /\ d.record \in Seq(Nat) /\ Len(d.record) = n /\ n \in Nat
      /\ \A i, j \in 1..n : i < j => d.start[i] < d.start[j]
      /\ DOMAIN d.cells \subseteq Nat \ {0}
      /\ \A i \in 1..n : Locater!Says(d.cells, d.record[i], d.countries[i], d.areas[i])
  BY <1>0, DatabasesAreTyped DEF LocaterTypes
<1>2. \A i \in 1..n : d.start[i] \in Int /\ d.record[i] \in Nat
  BY <1>1
<1>3. MaxLookups \in Nat /\ sought \in Int
  BY <1>0, BatchAssumption DEF LocaterTypes, Locater!IpLocaterAssumption
<1>d. Locater!db = d
  BY DEF Locater!db
<1>b. left \in Nat /\ right \in Int /\ left <= n /\ (at = "find" => right < n)
  BY <1>0, <1>1 DEF LocaterTypes, FindInv
<1> HIDE DEF d, n
<1>4. CASE Locater!Lookup
  <2>1. /\ at' = "find" /\ lookups < MaxLookups /\ lookups' = lookups + 1 /\ sought' \in Ips
        /\ left' = 0 /\ right' = n - 1 /\ file' = file /\ pos' = pos /\ offset' = offset
    BY <1>4, <1>d DEF Locater!Lookup, n
  <2>2. LocaterTypes'
    BY <1>0, <1>1, <1>3, <2>1 DEF LocaterTypes, d, n
  <2>3. FindInv'
    BY <1>1, <2>1 DEF FindInv, d, n
  <2>4. ReadInv' /\ Locater!InsideIsFound'
    BY <2>1 DEF ReadInv, Locater!InsideIsFound
  <2>5. QED
    BY <2>2, <2>3, <2>4 DEF LocaterInv
<1>5. CASE Locater!Halve
  <2> DEFINE m == (left + right) \div 2
  <2>1. /\ at = "find" /\ right - left >= 2
        /\ IF sought <= d.start[m + 1] THEN right' = m /\ left' = left ELSE left' = m /\ right' = right
        /\ file' = file /\ sought' = sought /\ at' = at /\ pos' = pos /\ offset' = offset
        /\ country' = country /\ area' = area /\ lookups' = lookups
    BY <1>5, <1>d DEF Locater!Halve
  <2>2. m \in Nat /\ left < m /\ m < right /\ right < n
    BY <1>b, <2>1
  <2> HIDE DEF m
  <2>3. LocaterTypes'
    <3>1. left' \in 0..n /\ right' \in -1..n
      BY <1>1, <1>b, <2>1, <2>2
    <3>2. QED
      BY <1>0, <2>1, <3>1 DEF LocaterTypes, d, n
  <2>4. ASSUME NEW i \in 1..n - 1, Inside(file, i, sought)
        PROVE  left' < i /\ i <= right'
    <3>0. i \in Nat /\ m + 1 \in 1..n /\ i + 1 \in 1..n /\ i \in 1..n
      BY <1>1, <1>b, <2>2
    <3>1. i \in 1..n /\ i + 1 \in 1..n /\ m + 1 \in 1..n /\ left < i /\ i <= right
      BY <1>0, <2>1, <2>4, <3>0 DEF FindInv, d, n
    <3>2. d.start[i] < sought /\ (sought <= d.start[i + 1] \/ i = n - 1)
      BY <2>4 DEF Inside, d, n
    <3>3. CASE sought <= d.start[m + 1]
      <4>1. ~(m + 1 <= i)
        <5>1. m + 1 <= i => m + 1 = i \/ m + 1 < i
          BY <2>2, <3>0
        <5>2. m + 1 <= i => d.start[m + 1] <= d.start[i]
          BY <1>1, <1>2, <3>0, <5>1
        <5>3. d.start[m + 1] \in Int /\ d.start[i] \in Int
          BY <1>2, <3>0
        <5>4. QED
          BY <1>3, <3>2, <3>3, <5>2, <5>3
      <4>2. QED
        BY <2>1, <2>2, <3>1, <3>3, <4>1
    <3>4. CASE ~(sought <= d.start[m + 1])
      <4>1. ~(i <= m)
        <5>1. i <= m => i + 1 = m + 1 \/ i + 1 < m + 1
          BY <2>2, <3>0
        <5>2. i <= m => d.start[i + 1] <= d.start[m + 1]
          BY <1>1, <1>2, <3>0, <5>1
        <5>3. d.start[m + 1] \in Int /\ d.start[i + 1] \in Int
          BY <1>2, <3>0
        <5>4. i <= m => i # n - 1
          BY <1>1, <1>b, <2>2, <3>0
        <5>5. QED
          BY <1>3, <3>2, <3>4, <5>2, <5>3, <5>4
      <4>2. QED
        BY <2>1, <2>2, <3>1, <3>4, <4>1
    <3>5. QED
      BY <3>3, <3>4
  <2>5. FindInv'
    <3>1. right' < n
      BY <1>1, <1>b, <2>1, <2>2
    <3>2. QED
      BY <2>1, <2>4, <3>1 DEF FindInv, d, n
  <2>6. ReadInv' /\ Locater!InsideIsFound'
    BY <1>0, <2>1 DEF ReadInv, Locater!InsideIsFound, Records
  <2>7. QED
    BY <2>3, <2>5, <2>6 DEF LocaterInv
<1>6. CASE Locater!Overflow
  BY <1>0, <1>6 DEF Locater!Overflow, LocaterInv, LocaterTypes, FindInv, ReadInv, Locater!InsideIsFound
<1>7. CASE Locater!Locate
  <2>1. /\ at = "find" /\ right - left = 1 /\ at' = "record" /\ offset' = d.record[left + 1]
        /\ file' = file /\ sought' = sought /\ left' = left /\ right' = right /\ pos' = pos
        /\ lookups' = lookups
    BY <1>7, <1>d DEF Locater!Locate
  <2>2. left + 1 \in 1..n /\ right = left + 1
    BY <1>1, <1>b, <2>1
  <2>3. LocaterTypes' /\ FindInv'
    BY <1>0, <1>2, <2>1, <2>2 DEF LocaterTypes, FindInv
  <2>4. ReadInv'
    BY <2>1, <2>2 DEF ReadInv, Records, d, n
  <2>5. ASSUME NEW i \in 1..n - 1, d.start[i] < sought, sought <= d.start[i + 1] \/ i = n - 1
        PROVE  offset' = d.record[i]
    <3>1. left < i /\ i <= right
      BY <1>0, <2>1, <2>5 DEF FindInv, Inside, d, n
    <3>2. i = left + 1
      BY <1>0, <1>1, <2>2, <3>1 DEF LocaterTypes
    <3>3. QED
      BY <2>1, <3>2
  <2>6. Locater!InsideIsFound'
    BY <2>1, <2>5 DEF Locater!InsideIsFound, Locater!db, d, n
  <2>7. QED
    BY <2>3, <2>4, <2>6 DEF LocaterInv
<1>8. CASE Locater!ReadCountry
  <2>1. /\ at = "record" /\ at' = "area" /\ country' = Locater!Country.text /\ pos' = Locater!Country.pos
        /\ file' = file /\ sought' = sought /\ left' = left /\ right' = right /\ offset' = offset /\ lookups' = lookups
    BY <1>8 DEF Locater!ReadCountry
  <2>2. PICK k \in 1..n : offset = d.record[k]
    BY <1>0, <2>1 DEF ReadInv, Records, d, n
  <2>3. \A i \in 1..n : offset = d.record[i] =>
          /\ country' = d.countries[i] /\ pos' \in Nat /\ Locater!SaysArea(d.cells, pos', d.areas[i])
    BY <1>0, <1>1, <2>1, CountryIsRead DEF LocaterTypes, d, n
  <2>4. LocaterTypes' /\ FindInv'
    BY <1>0, <2>1, <2>2, <2>3 DEF LocaterTypes, FindInv
  <2>5. ReadInv'
    BY <2>1, <2>2, <2>3 DEF ReadInv, Records, d, n
  <2>6. Locater!InsideIsFound'
    BY <1>0, <2>1 DEF Locater!InsideIsFound, Locater!db
  <2>7. QED
    BY <2>4, <2>5, <2>6 DEF LocaterInv
<1>9. CASE Locater!ReadArea
  <2>1. /\ at = "area" /\ at' = "done" /\ country' = country
        /\ file' = file /\ sought' = sought /\ left' = left /\ right' = right /\ offset' = offset /\ lookups' = lookups
    BY <1>9 DEF Locater!ReadArea
  <2>2. PICK k \in 1..n : offset = d.record[k]
    BY <1>0, <2>1 DEF ReadInv, Records, d, n
  <2>3. \A i \in 1..n : offset = d.record[i] =>
          country = d.countries[i] /\ Locater!SaysArea(d.cells, pos, d.areas[i])
    BY <1>0, <2>1 DEF ReadInv, Records, d, n
  <2>4. \A i \in 1..n : offset = d.record[i] => area' = d.areas[i] /\ pos' \in Nat
    BY <1>0, <1>1, <1>9, <2>3, AreaIsRead DEF LocaterTypes, d, n
  <2>5. LocaterTypes' /\ FindInv'
    BY <1>0, <2>1, <2>2, <2>4 DEF LocaterTypes, FindInv
  <2>6. ReadInv'
    BY <2>1, <2>2, <2>3, <2>4 DEF ReadInv, Records, d, n
  <2>7. Locater!InsideIsFound'
    BY <1>0, <2>1 DEF Locater!InsideIsFound, Locater!db
  <2>8. QED
    BY <2>5, <2>6, <2>7 DEF LocaterInv
<1>10. CASE UNCHANGED Locater!locaterVars
  BY <1>0, <1>10 DEF Locater!locaterVars, LocaterInv, LocaterTypes, FindInv, ReadInv, Locater!InsideIsFound, Locater!db, Records
<1>11. QED
  BY <1>4, <1>5, <1>6, <1>7, <1>8, <1>9, <1>10 DEF Locater!Next

LEMMA Locaters == Spec => [](part = "locater" => LocaterInv)
<1>1. Init => (part = "locater" => LocaterInv)
  BY LocaterInit DEF Init
<1>2. (part = "locater" => LocaterInv) /\ [Next]_vars => (part = "locater" => LocaterInv)'
  BY LocaterStep, PartsStayApart
<1>3. QED
  BY <1>1, <1>2, PTL DEF Spec

-----------------------------------------------------------------------------
(* ip.py finds the range that an address is in, at its ends too, in every  *)
(* table without gaps, and the part of the country that a city's province  *)
(* is in; ip2.py finds every address inside a record there, and reads the  *)
(* record's own country and area, whatever its form and wherever the last  *)
(* look-up left the file's position.                                       *)
THEOREM LookupsFindOwn == Spec => []LookupFindsOwn
<1>1. AreaInv => Area!TypeOK /\ Area!FoundIsRange /\ Area!CityIsWithProvince
  BY DEF AreaInv, AreaTypes, Area!TypeOK
<1>2. LocaterInv => Locater!TypeOK /\ Locater!InsideIsFound /\ Locater!AnswerIsRecords
  <2> SUFFICES ASSUME LocaterInv
               PROVE  Locater!TypeOK /\ Locater!InsideIsFound /\ Locater!AnswerIsRecords
    OBVIOUS
  <2>1. Locater!TypeOK /\ Locater!InsideIsFound
    BY DEF LocaterInv, LocaterTypes, Locater!TypeOK, Locater!db
  <2>2. Locater!AnswerIsRecords
    <3>1. SUFFICES ASSUME at = "done"
                   PROVE  Locater!AnswerIsRecords
      BY DEF Locater!AnswerIsRecords
    <3>2. DOMAIN Databases[file].record = Records(file)
      BY DatabasesAreTyped DEF LocaterInv, LocaterTypes, Records
    <3>3. /\ \E i \in Records(file) : Databases[file].record[i] = offset
          /\ \A i \in Records(file) : Databases[file].record[i] = offset =>
                country = Databases[file].countries[i] /\ area = Databases[file].areas[i]
      BY <3>1 DEF LocaterInv, ReadInv
    <3>4. QED
      BY <3>2, <3>3 DEF Locater!AnswerIsRecords, Locater!db
  <2>3. QED
    BY <2>1, <2>2
<1>3. (part = "area" => AreaInv) /\ (part = "locater" => LocaterInv) => LookupFindsOwn
  BY <1>1, <1>2 DEF LookupFindsOwn
<1>4. QED
  BY <1>3, Areas, Locaters, PTL

-----------------------------------------------------------------------------
(* Lists of a finite set, in order. *)

\* A finite set can be listed in rising order.
LEMMA RisingList ==
  ASSUME NEW U, NEW rank, \A x \in U : rank[x] \in Int, \A x, y \in U : rank[x] = rank[y] => x = y,
         IsFiniteSet(U)
  PROVE  \E list \in [1..Cardinality(U) -> U] :
           \A i, j \in 1..Cardinality(U) : i < j => rank[list[i]] < rank[list[j]]
<1> DEFINE Has(V) == \E list \in [1..Cardinality(V) -> V] :
                       \A i, j \in 1..Cardinality(V) : i < j => rank[list[i]] < rank[list[j]]
           bad == {n \in Nat : \E V \in SUBSET U : Cardinality(V) = n /\ ~Has(V)}
<1>1. ASSUME NEW n \in bad, \A m \in bad : n <= m
      PROVE  FALSE
  <2>1. PICK V \in SUBSET U : Cardinality(V) = n /\ ~Has(V)
    OBVIOUS
  <2>2. n \in Nat /\ IsFiniteSet(V)
    BY FS_Subset
  <2>3. V # {}
    <3>1. SUFFICES ASSUME V = {}
                   PROVE  FALSE
      OBVIOUS
    <3>2. Cardinality(V) = 0
      BY <3>1, FS_EmptySet
    <3>3. [i \in 1..0 |-> i] \in [1..Cardinality(V) -> V]
      BY <3>1, <3>2
    <3>4. \A i, j \in 1..Cardinality(V) : i < j => FALSE
      BY <3>2
    <3>5. QED
      BY <2>1, <3>3, <3>4
  <2>4. PICK y \in V : TRUE
    BY <2>3
  <2> DEFINE W == V \ {y}
  <2>5. W \in SUBSET U /\ IsFiniteSet(W) /\ Cardinality(W) = n - 1 /\ n - 1 \in Nat
    <3>1. IsFiniteSet(W) /\ Cardinality(W) = n - 1
      BY <2>1, <2>2, <2>4, FS_RemoveElement
    <3>2. Cardinality(W) \in Nat
      BY <3>1, FS_CardinalityType
    <3>3. QED
      BY <3>1, <3>2
  <2>6. Has(W)
    <3>1. n - 1 \notin bad
      BY <1>1, <2>2, <2>5
    <3>2. QED
      BY <2>5, <3>1
  <2>7. PICK l \in [1..n - 1 -> W] : \A i, j \in 1..n - 1 : i < j => rank[l[i]] < rank[l[j]]
    BY <2>5, <2>6
  <2> DEFINE T == {i \in 1..n - 1 : rank[y] < rank[l[i]]}
  <2>8. /\ rank[y] \in Int /\ y \in V
        /\ \A i \in 1..n - 1 : rank[l[i]] \in Int /\ l[i] \in V /\ rank[l[i]] # rank[y]
    BY <2>4, <2>7
  <2>9. PICK k \in 1..n : /\ \A i \in 1..n - 1 : i < k => rank[l[i]] < rank[y]
                          /\ \A i \in 1..n - 1 : k <= i => rank[y] < rank[l[i]]
    <3>1. CASE T = {}
      <4>1. n \in 1..n
        BY <2>2, <2>5
      <4>2. \A i \in 1..n - 1 : i < n /\ rank[l[i]] < rank[y]
        BY <2>2, <2>8, <3>1
      <4>3. QED
        BY <2>2, <4>1, <4>2
    <3>2. CASE T # {}
      <4>0. T \subseteq Nat
        OBVIOUS
      <4> HIDE DEF T
      <4>1. PICK k \in T : \A i \in T : k <= i
        BY <3>2, <4>0, SmallestOf
      <4>2. k \in 1..n - 1 /\ k \in 1..n /\ rank[y] < rank[l[k]]
        BY <2>2, <2>5, <4>1 DEF T
      <4>3. \A i \in 1..n - 1 : i < k => rank[l[i]] < rank[y]
        BY <2>2, <2>8, <4>1, <4>2 DEF T
      <4>4. \A i \in 1..n - 1 : k <= i => rank[y] < rank[l[i]]
        <5>1. TAKE i \in 1..n - 1
        <5>2. k <= i => k = i \/ rank[l[k]] < rank[l[i]]
          BY <2>2, <2>7, <4>2, <5>1
        <5>3. QED
          BY <2>8, <4>2, <5>1, <5>2
      <4>5. QED
        BY <4>2, <4>3, <4>4
    <3>3. QED
      BY <3>1, <3>2
  <2> DEFINE g == [i \in 1..n |-> IF i < k THEN l[i] ELSE IF i = k THEN y ELSE l[i - 1]]
  <2> HIDE DEF W, T
  <2>10. /\ \A i \in 1..n : i < k => i \in 1..n - 1
         /\ \A i \in 1..n : i > k => i - 1 \in 1..n - 1 /\ k <= i - 1
    BY <2>2
  <2>11. \A i \in 1..n : /\ i < k => g[i] = l[i] /\ rank[g[i]] < rank[y]
                         /\ i = k => g[i] = y
                         /\ i > k => g[i] = l[i - 1] /\ rank[y] < rank[g[i]]
                         /\ g[i] \in V /\ rank[g[i]] \in Int
    <3>1. TAKE i \in 1..n
    <3>2. CASE i < k
      BY <2>2, <2>8, <2>9, <2>10, <3>1, <3>2
    <3>3. CASE i = k
      BY <2>2, <2>8, <3>1, <3>3
    <3>4. CASE i > k
      BY <2>2, <2>8, <2>9, <2>10, <3>1, <3>4
    <3>5. QED
      BY <2>2, <3>1, <3>2, <3>3, <3>4
  <2>12. g \in [1..n -> V]
    <3>1. g = [i \in 1..n |-> g[i]]
      OBVIOUS
    <3> HIDE DEF g
    <3>2. QED
      BY <2>11, <3>1
  <2> HIDE DEF g
  <2>13. \A i, j \in 1..n : i < j => rank[g[i]] < rank[g[j]]
    <3>1. TAKE i, j \in 1..n
    <3>2. SUFFICES ASSUME i < j
                   PROVE  rank[g[i]] < rank[g[j]]
      OBVIOUS
    <3>3. i \in Nat /\ j \in Nat /\ k \in Nat
      BY <2>2, <2>9
    <3>4. CASE j < k
      BY <2>7, <2>10, <2>11, <3>2, <3>3, <3>4
    <3>5. CASE i > k
      <4>1. g[i] = l[i - 1] /\ g[j] = l[j - 1] /\ i - 1 \in 1..n - 1 /\ j - 1 \in 1..n - 1
        BY <2>10, <2>11, <3>2, <3>3, <3>5
      <4>2. i - 1 < j - 1
        BY <3>2, <3>3
      <4>3. QED
        BY <2>7, <4>1, <4>2
    <3>6. CASE i <= k /\ k <= j
      <4>1. (i < k /\ rank[g[i]] < rank[y]) \/ (i = k /\ g[i] = y)
        BY <2>11, <3>3, <3>6
      <4>2. (j > k /\ rank[y] < rank[g[j]]) \/ (j = k /\ g[j] = y)
        BY <2>11, <3>3, <3>6
      <4>3. rank[g[i]] \in Int /\ rank[g[j]] \in Int
        BY <2>11
      <4>4. QED
        BY <2>8, <3>2, <3>3, <4>1, <4>2, <4>3
    <3>7. QED
      BY <3>3, <3>4, <3>5, <3>6
  <2>14. QED
    BY <2>1, <2>12, <2>13
<1>2. bad \subseteq Nat
  OBVIOUS
<1>3. bad = {}
  <2> HIDE DEF bad
  <2>1. QED
    BY <1>1, <1>2, SmallestOf
<1>4. Cardinality(U) \in Nat
  BY FS_CardinalityType
<1>5. Has(U)
  BY <1>3, <1>4
<1>6. QED
  BY <1>5

-----------------------------------------------------------------------------
(* The comparison of two directories.                                      *)

Src(d) == Diff!Subdir("src", d)
Dst(d) == Diff!Subdir("dst", d)
Both == listed["src"] \cap listed["dst"]

\* p is below the directory d, and what leads to it there.
Under(p, d) == Len(d) < Len(p) /\ SubSeq(p, 1, Len(d)) = d
Way(p, d) == SubSeq(p, 1, Len(d) + 1)

\* An item of its directory that a frame is behind.
Behind(f, q) ==
  \/ \E i \in 1..(f.item - 1) : Src(f.dir)[i] = q
  \/ \E j \in 1..f.pos : Dst(f.dir)[j] = q

\* A frame has a place in both lists of its directory, and what it is behind in
\* one is in front of what it is not behind in the other.  Where it has passed
\* the end of dst in the inner loop, src does not have the last of dst.
Placed(f) ==
  /\ f.item \in 1..(Len(Src(f.dir)) + 1)
  /\ f.pos \in 0..Len(Dst(f.dir))
Apart(f) ==
  /\ \A i \in 1..(f.item - 1), j \in (f.pos + 1)..Len(Dst(f.dir)) :
       Diff!Last(Src(f.dir)[i]) < Diff!Last(Dst(f.dir)[j])
  /\ \A i \in f.item..Len(Src(f.dir)), j \in 1..f.pos :
       Diff!Last(Dst(f.dir)[j]) < Diff!Last(Src(f.dir)[i])
PastLast(f) ==
  f.inner /\ f.pos = Len(Dst(f.dir)) =>
    f.pos > 0 /\ Dst(f.dir)[f.pos] \notin listed["src"]

\* The directories that lead to a frame's own are in both trees, and so is it.
Shared(d) == \A k \in 1..Len(d) : SubSeq(d, 1, k) \in Both

\* A frame is behind the directory of each frame inside.
Walk(frs) ==
  /\ \A m \in DOMAIN frs : Placed(frs[m]) /\ Apart(frs[m]) /\ PastLast(frs[m]) /\ Shared(frs[m].dir)
  /\ \A m, k \in DOMAIN frs : m < k =>
       Under(frs[m].dir, frs[k].dir) /\ Behind(frs[k], Way(frs[m].dir, frs[k].dir))

\* What the walk is behind has been said, once.
Passed(frs, p) ==
  \A m \in DOMAIN frs : Under(p, frs[m].dir) => Behind(frs[m], Way(p, frs[m].dir))
Said(frs, lines) ==
  /\ \A i, j \in DOMAIN lines : i # j => lines[i] # lines[j]
  /\ \A i \in DOMAIN lines : \E p \in Diff!Met : Passed(frs, p) /\ lines[i] \in Diff!Verdict(p) \X {p}
  /\ \A p \in Diff!Met : Passed(frs, p) => \A v \in Diff!Verdict(p) : \E i \in DOMAIN lines : lines[i] = <<v, p>>

Sayings == {"only in src", "only in dst", "file match", "file size not match"}
Frames == [dir : Seq(Int), item : Nat, pos : Nat, inner : BOOLEAN]
FirstFrames == <<[dir |-> Diff!Root, item |-> 1, pos |-> 0, inner |-> FALSE]>>

DiffTypes ==
  /\ tree \in [Diff!Sides -> Trees] /\ unlisted \in 0..MaxLost
  /\ todo \in Seq(Diff!Sides \X Seq(Int))
  /\ listed \in [Diff!Sides -> SUBSET Seq(Int)]
  /\ \A s \in Diff!Sides : listed[s] \subseteq DOMAIN tree[s] /\ Diff!Root \notin listed[s]
  /\ frames \in Seq(Frames) /\ out \in Seq(Sayings \X Seq(Int))
  /\ over \in {"", "done", "IndexError"}

OverInv ==
  /\ todo # <<>> => over = "" /\ out = <<>> /\ frames = FirstFrames
  /\ over = "done" <=> frames = <<>>
  /\ over = "IndexError" => frames[1].inner /\ frames[1].item <= Len(Src(frames[1].dir))
                            /\ frames[1].pos = Len(Dst(frames[1].dir))

DiffInv == DiffTypes /\ OverInv /\ Walk(frames) /\ Said(frames, out)

LEMMA ItemsOfBoth ==
  /\ \A S : Diff!IsFiniteSet(S) <=> IsFiniteSet(S)
  /\ \A S : Diff!Cardinality(S) = Cardinality(S)
BY DEF Diff!IsFiniteSet, IsFiniteSet, Diff!Cardinality, Cardinality

\* The beginnings of a path.
LEMMA Beginning ==
  ASSUME NEW p \in Seq(Int), NEW n \in 0..Len(p)
  PROVE  /\ SubSeq(p, 1, n) \in Seq(Int) /\ Len(SubSeq(p, 1, n)) = n
         /\ \A k \in 0..n : SubSeq(SubSeq(p, 1, n), 1, k) = SubSeq(p, 1, k)
         /\ n = Len(p) => SubSeq(p, 1, n) = p
<1>1. Len(p) \in Nat /\ n \in Nat
  OBVIOUS
<1>2. /\ SubSeq(p, 1, n) \in Seq(Int) /\ Len(SubSeq(p, 1, n)) = n
      /\ \A i \in 1..n : SubSeq(p, 1, n)[i] = p[i]
  <2>1. \A i \in 1..n : p[i] \in Int
    BY <1>1
  <2>2. QED
    BY <1>1, <2>1
<1> DEFINE s == SubSeq(p, 1, n)
<1>3. ASSUME NEW k \in 0..n
      PROVE  SubSeq(s, 1, k) = SubSeq(p, 1, k)
  <2> HIDE DEF s
  <2>1. \A i \in 1..n : s[i] \in Int /\ s[i] = p[i] /\ p[i] \in Int
    BY <1>1, <1>2 DEF s
  <2>2. s \in Seq(Int) /\ Len(s) = n /\ k \in Nat /\ k <= n /\ k <= Len(p)
    BY <1>1, <1>2 DEF s
  <2>3. /\ SubSeq(s, 1, k) \in Seq(Int) /\ Len(SubSeq(s, 1, k)) = k
        /\ \A i \in 1..k : SubSeq(s, 1, k)[i] = s[i]
    BY <2>1, <2>2
  <2>4. /\ SubSeq(p, 1, k) \in Seq(Int) /\ Len(SubSeq(p, 1, k)) = k
        /\ \A i \in 1..k : SubSeq(p, 1, k)[i] = p[i]
    BY <2>1, <2>2
  <2>5. \A i \in 1..k : SubSeq(s, 1, k)[i] = SubSeq(p, 1, k)[i]
    BY <2>1, <2>2, <2>3, <2>4
  <2>6. QED
    BY <2>3, <2>4, <2>5, SeqEqual
<1>4. n = Len(p) => SubSeq(p, 1, n) = p
  BY <1>2, SeqEqual
<1>5. QED
  BY <1>2, <1>3, <1>4

\* The way from a directory to a path below it begins with an item of the
\* directory, which is the path or above it.
LEMMA WayIsItem ==
  ASSUME NEW p \in Seq(Int), NEW d \in Seq(Int), Under(p, d)
  PROVE  /\ Way(p, d) \in Seq(Int) /\ Len(Way(p, d)) = Len(d) + 1
         /\ SubSeq(Way(p, d), 1, Len(d)) = d
         /\ Way(p, d) \in {p} \cup Diff!Above(p)
<1> DEFINE n == Len(d)
<1>1. Len(p) \in Nat /\ n \in Nat /\ n < Len(p) /\ SubSeq(p, 1, n) = d
  BY DEF Under
<1> HIDE DEF n
<1>2. n + 1 \in 0..Len(p) /\ n \in 0..n + 1
  BY <1>1
<1>3. /\ SubSeq(p, 1, n + 1) \in Seq(Int) /\ Len(SubSeq(p, 1, n + 1)) = n + 1
      /\ SubSeq(SubSeq(p, 1, n + 1), 1, n) = SubSeq(p, 1, n)
      /\ n + 1 = Len(p) => SubSeq(p, 1, n + 1) = p
  BY <1>2, Beginning
<1>4. n + 1 # Len(p) => n + 1 \in 1..Len(p) - 1
  BY <1>1
<1>5. SubSeq(p, 1, n + 1) \in {p} \cup Diff!Above(p)
  BY <1>3, <1>4 DEF Diff!Above
<1>6. QED
  BY <1>1, <1>3, <1>5 DEF n, Way

LEMMA UnderBoth ==
  ASSUME NEW p \in Seq(Int), NEW d \in Seq(Int), NEW e \in Seq(Int), Under(p, d), Under(d, e)
  PROVE  Under(p, e) /\ Way(p, e) = Way(d, e)
<1>1. /\ Len(p) \in Nat /\ Len(d) \in Nat /\ Len(e) \in Nat /\ Len(e) < Len(d) /\ Len(d) < Len(p)
      /\ SubSeq(p, 1, Len(d)) = d /\ SubSeq(d, 1, Len(e)) = e
  BY DEF Under
<1>2. Len(d) \in 0..Len(p) /\ Len(e) \in 0..Len(d) /\ Len(e) + 1 \in 0..Len(d)
  BY <1>1
<1>3. \A k \in 0..Len(d) : SubSeq(d, 1, k) = SubSeq(p, 1, k)
  <2>1. \A k \in 0..Len(d) : SubSeq(SubSeq(p, 1, Len(d)), 1, k) = SubSeq(p, 1, k)
    BY <1>2, Beginning
  <2>2. QED
    BY <1>1, <2>1
<1>4. Way(p, e) = Way(d, e)
  BY <1>2, <1>3 DEF Way
<1>5. SubSeq(p, 1, Len(e)) = e
  BY <1>1, <1>2, <1>3
<1>6. Len(e) < Len(p)
  BY <1>1
<1>7. QED
  BY <1>4, <1>5, <1>6 DEF Under

\* q is an item of the directory d.
IsItem(q, d) == q \in Seq(Int) /\ Len(q) = Len(d) + 1 /\ SubSeq(q, 1, Len(d)) = d

LEMMA ItemIsUnder ==
  ASSUME NEW d \in Seq(Int), NEW q, IsItem(q, d)
  PROVE  /\ Under(q, d) /\ Way(q, d) = q /\ ~Under(d, d) /\ ~Under(q, q)
         /\ \A n \in 1..Len(q) - 1 : n \in 1..Len(d) /\ SubSeq(q, 1, n) = SubSeq(d, 1, n)
<1>1. Len(d) \in Nat /\ q \in Seq(Int) /\ Len(q) = Len(d) + 1 /\ SubSeq(q, 1, Len(d)) = d
  BY DEF IsItem
<1>2. SubSeq(q, 1, Len(q)) = q
  BY <1>1, Beginning
<1>3. ASSUME NEW n \in 1..Len(q) - 1
      PROVE  n \in 1..Len(d) /\ SubSeq(q, 1, n) = SubSeq(d, 1, n)
  <2>1. n \in 1..Len(d) /\ n \in 0..Len(d) /\ Len(d) \in 0..Len(q)
    BY <1>1
  <2>2. SubSeq(SubSeq(q, 1, Len(d)), 1, n) = SubSeq(q, 1, n)
    BY <1>1, <2>1, Beginning
  <2>3. QED
    BY <1>1, <2>1, <2>2
<1>4. QED
  BY <1>1, <1>2, <1>3 DEF Under, Way

LEMMA UnderItem ==
  ASSUME NEW d \in Seq(Int), NEW q, IsItem(q, d), NEW p \in Seq(Int)
  PROVE  Under(p, q) <=> Under(p, d) /\ Way(p, d) = q /\ p # q
<1>1. q \in Seq(Int) /\ Under(q, d) /\ Way(q, d) = q /\ ~Under(q, q)
  BY ItemIsUnder DEF IsItem
<1>2. Under(p, q) => Under(p, d) /\ Way(p, d) = q /\ p # q
  BY <1>1, UnderBoth
<1>3. ASSUME Under(p, d), Way(p, d) = q, p # q
      PROVE  Under(p, q)
  <2>1. Len(p) \in Nat /\ Len(d) \in Nat /\ Len(d) < Len(p) /\ Len(q) = Len(d) + 1 /\ SubSeq(p, 1, Len(d) + 1) = q
    BY <1>3 DEF Under, Way, IsItem
  <2>2. Len(d) + 1 # Len(p)
    BY <1>3, <2>1, Beginning
  <2>3. QED
    BY <2>1, <2>2 DEF Under
<1>4. QED
  BY <1>2, <1>3

LEMMA TreesAreTyped ==
  ASSUME DiffTypes, NEW s \in Diff!Sides
  PROVE  /\ listed[s] \subseteq Seq(Int) /\ listed[s] \subseteq DOMAIN tree[s] /\ IsFiniteSet(DOMAIN tree[s])
         /\ Diff!Root \notin listed[s]
         /\ \A p \in DOMAIN tree[s] :
              p \in Seq(Int) /\ (Len(p) > 1 => Diff!Parent(p) \in DOMAIN tree[s] /\ ~tree[s][Diff!Parent(p)].file)
<1>1. Diff!HdfsDiffAssumption
  BY BatchAssumption
<1>2. tree[s] \in Trees /\ listed[s] \in SUBSET Seq(Int)
  BY DEF DiffTypes
<1>3. QED
  BY <1>1, <1>2, ItemsOfBoth DEF DiffTypes, Diff!HdfsDiffAssumption

\* A listing has every item of the directory, in the order of their names.
LEMMA ListsAreRising ==
  ASSUME DiffTypes, NEW s \in Diff!Sides, NEW d \in Seq(Int)
  PROVE  LET list == Diff!Subdir(s, d)
         IN  /\ Len(list) \in Nat
             /\ \A i \in 1..Len(list) : /\ list[i] \in listed[s] /\ IsItem(list[i], d)
                                        /\ Diff!Last(list[i]) \in Int
             /\ \A q \in listed[s] : IsItem(q, d) => \E i \in 1..Len(list) : list[i] = q
             /\ \A i, j \in 1..Len(list) : i < j => Diff!Last(list[i]) < Diff!Last(list[j])
<1> DEFINE items == Diff!Below(listed[s], d)
           n == Cardinality(items)
           list == Diff!Subdir(s, d)
<1>1. /\ listed[s] \subseteq Seq(Int) /\ listed[s] \subseteq DOMAIN tree[s] /\ IsFiniteSet(DOMAIN tree[s])
      /\ Diff!Root \notin listed[s]
  BY TreesAreTyped
<1>2. IsFiniteSet(items) /\ n \in Nat
  <2>1. items \subseteq DOMAIN tree[s]
    BY <1>1 DEF Diff!Below
  <2>2. QED
    BY <1>1, <2>1, FS_Subset, FS_CardinalityType
<1>3. \A q \in items : q \in listed[s] /\ IsItem(q, d) /\ Diff!Last(q) \in Int
  <2>1. TAKE q \in items
  <2>2. q \in Seq(Int) /\ q \in listed[s] /\ q # <<>> /\ SubSeq(q, 1, Len(q) - 1) = d
    BY <1>1 DEF Diff!Below, Diff!Root, Diff!Parent
  <2>3. Len(q) \in Nat /\ Len(q) # 0
    BY <2>2
  <2>4. Len(q) - 1 \in 0..Len(q) /\ Len(q) \in 1..Len(q)
    BY <2>3
  <2>5. Len(d) = Len(q) - 1
    BY <2>2, <2>4, Beginning
  <2>6. q[Len(q)] \in Int
    BY <2>2, <2>4
  <2>7. Len(q) = Len(d) + 1 /\ SubSeq(q, 1, Len(d)) = d
    BY <2>2, <2>3, <2>5
  <2>8. QED
    BY <2>2, <2>6, <2>7 DEF IsItem, Diff!Last
<1>4. \A q \in listed[s] : IsItem(q, d) => q \in items
  <2>1. SUFFICES ASSUME NEW q \in listed[s], IsItem(q, d)
                 PROVE  q \in items
    OBVIOUS
  <2>2. q # Diff!Root /\ Len(d) \in Nat /\ Len(q) = Len(d) + 1 /\ SubSeq(q, 1, Len(d)) = d
    BY <1>1, <2>1 DEF IsItem
  <2>3. Diff!Parent(q) = d
    BY <2>2 DEF Diff!Parent
  <2>4. QED
    BY <2>2, <2>3 DEF Diff!Below
<1> DEFINE rank == [q \in items |-> Diff!Last(q)]
<1>5. \A q, r \in items : rank[q] = rank[r] => q = r
  <2>1. SUFFICES ASSUME NEW q \in items, NEW r \in items, Diff!Last(q) = Diff!Last(r)
                 PROVE  q = r
    OBVIOUS
  <2>2. /\ q \in Seq(Int) /\ r \in Seq(Int) /\ Len(q) = Len(d) + 1 /\ Len(r) = Len(d) + 1 /\ Len(d) \in Nat
        /\ SubSeq(q, 1, Len(d)) = d /\ SubSeq(r, 1, Len(d)) = d /\ q[Len(q)] = r[Len(r)]
    BY <1>3, <2>1 DEF IsItem, Diff!Last
  <2>3. /\ q = SubSeq(q, 1, Len(q) - 1) \o <<q[Len(q)]>>
        /\ r = SubSeq(r, 1, Len(r) - 1) \o <<r[Len(r)]>>
    <3>1. ASSUME NEW t \in Seq(Int), Len(t) = Len(d) + 1
          PROVE  t = SubSeq(t, 1, Len(t) - 1) \o <<t[Len(t)]>>
      <4>1. t \in Seq(Int) /\ Len(t) \in Nat /\ Len(t) \in 0..Len(t) /\ Len(t) - 1 \in 0..Len(t)
        BY <2>2, <3>1
      <4>2. 1 \in 1..Len(t) /\ Len(t) \in 1..Len(t)
        BY <2>2, <3>1
      <4>3. SubSeq(t, 1, Len(t)) = SubSeq(t, 1, Len(t) - 1) \o <<t[Len(t)]>>
        BY <4>1, <4>2, SubSeqRecursiveSecond
      <4>4. QED
        BY <4>1, <4>3, Beginning
    <3>2. QED
      BY <2>2, <3>1
  <2>4. Len(q) - 1 = Len(d) /\ Len(r) - 1 = Len(d)
    BY <2>2
  <2>5. QED
    BY <2>2, <2>3, <2>4
<1> HIDE DEF items
<1>6. \E l \in [1..n -> items] : \A i, j \in 1..n : i < j => rank[l[i]] < rank[l[j]]
  <2>1. \A q \in items : rank[q] \in Int
    BY <1>3
  <2> HIDE DEF rank
  <2>2. QED
    BY <1>2, <1>5, <2>1, RisingList
<1>7. list \in [1..n -> items] /\ \A i, j \in 1..n : i < j => Diff!Last(list[i]) < Diff!Last(list[j])
  <2> DEFINE Good(l) == \A i, j \in DOMAIN l : i < j => Diff!Last(l[i]) < Diff!Last(l[j])
  <2>1. list = CHOOSE l \in [1..n -> items] : Good(l)
    BY ItemsOfBoth DEF Diff!Subdir, Diff!InOrder, items
  <2>2. PICK l \in [1..n -> items] : \A i, j \in 1..n : i < j => rank[l[i]] < rank[l[j]]
    BY <1>6
  <2>3. \A i \in 1..n : rank[l[i]] = Diff!Last(l[i])
    BY <2>2
  <2>4. Good(l)
    BY <2>2, <2>3
  <2> HIDE DEF Good, list
  <2>5. list \in [1..n -> items] /\ Good(list)
    BY <2>1, <2>2, <2>4
  <2>6. QED
    BY <2>5 DEF Good
<1> HIDE DEF list
<1>8. Len(list) = n /\ \A i \in 1..n : list[i] \in items
  BY <1>2, <1>7
<1>9. ASSUME NEW q \in items
      PROVE  \E i \in 1..n : list[i] = q
  <2>1. \A i, j \in 1..n : list[i] = list[j] => i = j
    <3>1. TAKE i, j \in 1..n
    <3>2. i \in Nat /\ j \in Nat /\ (i = j \/ i < j \/ j < i)
      BY <1>2
    <3>3. Diff!Last(list[i]) \in Int /\ Diff!Last(list[j]) \in Int
      BY <1>3, <1>8
    <3>4. QED
      BY <1>7, <3>2, <3>3
  <2>2. list \in Injection(1..n, items)
    BY <1>7, <2>1 DEF Injection, IsInjective
  <2>3. Cardinality(1..n) = n /\ IsFiniteSet(1..n)
    BY <1>2, FS_Interval
  <2>4. list \in Surjection(1..n, items)
    BY <1>2, <2>2, <2>3, FS_Injection
  <2>5. QED
    BY <2>4 DEF Surjection
<1>10. QED
  BY <1>2, <1>3, <1>4, <1>7, <1>8, <1>9 DEF list

LEMMA ListsStay ==
  ASSUME listed' = listed, tree' = tree
  PROVE  /\ Walk(frames)' <=> Walk(frames')
         /\ Said(frames, out)' <=> Said(frames', out')
<1>1. Walk(frames)' <=> Walk(frames')
  BY DEF Walk, Placed, Apart, PastLast, Shared, Both, Under, Behind, Way, Src, Dst, Diff!Subdir
<1>2. Said(frames, out)' <=> Said(frames', out')
  BY DEF Said, Passed, Under, Behind, Way, Src, Dst, Diff!Subdir, Diff!Met, Diff!Verdict
<1>3. QED
  BY <1>1, <1>2

LEMMA OnTop ==
  ASSUME NEW frs \in Seq(Frames), frs # <<>>, NEW g \in Frames
  PROVE  LET r == <<g>> \o Tail(frs)
         IN  /\ r \in Seq(Frames) /\ DOMAIN r = 1..Len(frs) /\ DOMAIN frs = 1..Len(frs) /\ Len(frs) \in Nat
             /\ 1 \in 1..Len(frs) /\ r[1] = g /\ frs[1] \in Frames
             /\ \A m \in 2..Len(frs) : r[m] = frs[m] /\ m \in DOMAIN frs
<1> DEFINE n == Len(frs)
           t == Tail(frs)
           r == <<g>> \o t
<1>1. n \in Nat /\ n # 0 /\ DOMAIN frs = 1..n /\ frs[1] \in Frames
  OBVIOUS
<1>2. t \in Seq(Frames) /\ Len(t) = n - 1 /\ \A m \in 1..n - 1 : t[m] = frs[m + 1]
  BY <1>1, HeadTailProperties
<1> HIDE DEF n, t
<1>3. r \in Seq(Frames) /\ Len(r) = n /\ DOMAIN r = 1..n /\ r[1] = g /\ \A m \in 2..n : r[m] = t[m - 1]
  BY <1>1, <1>2
<1> HIDE DEF r
<1>4. \A m \in 2..n : r[m] = frs[m] /\ m \in 1..n
  <2>1. TAKE m \in 2..n
  <2>2. m - 1 \in 1..n - 1 /\ (m - 1) + 1 = m /\ m \in 1..n
    BY <1>1
  <2>3. QED
    BY <1>2, <1>3, <2>2
<1>5. QED
  BY <1>1, <1>3, <1>4 DEF n, t, r

\* What the frames below the innermost one are behind.
PassedBelow(p) ==
  \A m \in 2..Len(frames) : Under(p, frames[m].dir) => Behind(frames[m], Way(p, frames[m].dir))

\* A step that replaces the innermost frame by one of the same directory.
LEMMA TopMoves ==
  ASSUME DiffTypes, Walk(frames), frames # <<>>, NEW g \in Frames, g.dir = frames[1].dir,
         Placed(g), Apart(g), PastLast(g)
  PROVE  LET r == <<g>> \o Tail(frames)
         IN  /\ r \in Seq(Frames) /\ Walk(r)
             /\ \A p : Passed(r, p) <=> PassedBelow(p) /\ (Under(p, g.dir) => Behind(g, Way(p, g.dir)))
             /\ \A p : Passed(frames, p) <=>
                         PassedBelow(p) /\ (Under(p, g.dir) => Behind(frames[1], Way(p, g.dir)))
<1> DEFINE n == Len(frames)
           r == <<g>> \o Tail(frames)
<1>1. /\ r \in Seq(Frames) /\ DOMAIN r = 1..n /\ DOMAIN frames = 1..n /\ n \in Nat
      /\ 1 \in 1..n /\ r[1] = g /\ \A m \in 2..n : r[m] = frames[m] /\ m \in DOMAIN frames
  BY OnTop DEF DiffTypes
<1> HIDE DEF r, n
<1>2. \A m \in 1..n : m = 1 \/ m \in 2..n
  BY <1>1
<1>3. ASSUME NEW m \in DOMAIN r
      PROVE  Placed(r[m]) /\ Apart(r[m]) /\ PastLast(r[m]) /\ Shared(r[m].dir) /\ r[m].dir = frames[m].dir
  <2>1. CASE m = 1
    BY <1>1, <2>1 DEF Walk
  <2>2. CASE m \in 2..n
    BY <1>1, <2>2 DEF Walk
  <2>3. QED
    BY <1>1, <1>2, <2>1, <2>2
<1>4. ASSUME NEW m \in DOMAIN r, NEW k \in DOMAIN r, m < k
      PROVE  Under(r[m].dir, r[k].dir) /\ Behind(r[k], Way(r[m].dir, r[k].dir))
  <2>1. k \in 2..n
    BY <1>1, <1>2, <1>4
  <2>2. r[k] = frames[k]
    BY <1>1, <2>1
  <2>3. r[m].dir = frames[m].dir
    BY <1>3
  <2>4. Under(frames[m].dir, frames[k].dir) /\ Behind(frames[k], Way(frames[m].dir, frames[k].dir))
    BY <1>1, <1>4 DEF Walk
  <2>5. QED
    BY <2>2, <2>3, <2>4
<1>5. Walk(r)
  BY <1>3, <1>4 DEF Walk
<1>6. ASSUME NEW p
      PROVE  /\ Passed(r, p) <=> PassedBelow(p) /\ (Under(p, g.dir) => Behind(g, Way(p, g.dir)))
             /\ Passed(frames, p) <=>
                         PassedBelow(p) /\ (Under(p, g.dir) => Behind(frames[1], Way(p, g.dir)))
  BY <1>1, <1>2 DEF Passed, PassedBelow, n
<1>7. QED
  BY <1>1, <1>5, <1>6 DEF r

LEMMA TopStays ==
  ASSUME DiffTypes, Walk(frames), Said(frames, out), frames # <<>>, NEW g \in Frames, g.dir = frames[1].dir,
         Placed(g), Apart(g), PastLast(g), \A x : Behind(g, x) <=> Behind(frames[1], x)
  PROVE  LET r == <<g>> \o Tail(frames)
         IN  r \in Seq(Frames) /\ Walk(r) /\ Said(r, out)
<1> DEFINE r == <<g>> \o Tail(frames)
<1>1. r \in Seq(Frames) /\ Walk(r) /\ \A p : Passed(r, p) <=> Passed(frames, p)
  BY TopMoves
<1> HIDE DEF r
<1>2. Said(r, out)
  BY <1>1 DEF Said
<1>3. QED
  BY <1>1, <1>2 DEF r

\* Of what is below an item there is nothing to say if there is of the item.
LEMMA NothingBelow ==
  ASSUME DiffTypes, NEW d \in Seq(Int), NEW q, IsItem(q, d), Diff!Verdict(q) # {},
         NEW p \in Diff!Met, Under(p, q)
  PROVE  FALSE
<1>1. p \in Seq(Int) /\ p \in listed["src"] \cup listed["dst"] /\ Diff!Above(p) \subseteq listed["src"] \cap listed["dst"]
  BY DEF Diff!Met, DiffTypes, Diff!Sides
<1>2. q \in Seq(Int) /\ Len(d) \in Nat /\ Len(q) = Len(d) + 1 /\ Len(p) \in Nat /\ Len(q) < Len(p) /\ q = SubSeq(p, 1, Len(q))
  BY <1>1 DEF IsItem, Under
<1>3. q \in listed["src"] /\ q \in listed["dst"]
  <2>1. Len(q) \in 1..Len(p) - 1
    BY <1>2
  <2>2. q \in Diff!Above(p)
    BY <1>2, <2>1 DEF Diff!Above
  <2>3. QED
    BY <1>1, <2>2
<1>4. tree["src"][q].file /\ tree["dst"][q].file
  BY <1>3 DEF Diff!Verdict
<1> DEFINE w == Way(p, q)
<1>5. w \in Seq(Int) /\ Len(w) = Len(q) + 1 /\ SubSeq(w, 1, Len(q)) = q /\ w \in {p} \cup Diff!Above(p)
  BY <1>1, <1>2, WayIsItem
<1>6. PICK s \in Diff!Sides : w \in listed[s] /\ (s = "src" \/ s = "dst")
  BY <1>1, <1>5 DEF Diff!Sides
<1> HIDE DEF w
<1>7. w \in DOMAIN tree[s] /\ Len(w) > 1 /\ Diff!Parent(w) = q
  <2>1. Len(w) - 1 = Len(q) /\ Len(w) > 1
    BY <1>2, <1>5
  <2>2. Diff!Parent(w) = q
    BY <1>5, <2>1 DEF Diff!Parent
  <2>3. w \in DOMAIN tree[s]
    BY <1>6, TreesAreTyped
  <2>4. QED
    BY <2>1, <2>2, <2>3
<1>8. ~tree[s][q].file
  BY <1>7, TreesAreTyped
<1>9. QED
  BY <1>4, <1>6, <1>8

LEMMA FramesAreTyped ==
  ASSUME DiffTypes, frames # <<>>
  PROVE  /\ frames \in Seq(Frames) /\ Len(frames) \in Nat /\ DOMAIN frames = 1..Len(frames)
         /\ 1 \in DOMAIN frames
         /\ \A m \in DOMAIN frames : /\ frames[m].dir \in Seq(Int) /\ frames[m].item \in Nat
                                    /\ frames[m].pos \in Nat /\ frames[m].inner \in BOOLEAN
<1>1. frames \in Seq(Frames)
  BY DEF DiffTypes
<1>2. \A m \in DOMAIN frames : frames[m] \in Frames
  BY <1>1
<1>3. QED
  BY <1>1, <1>2 DEF Frames

\* A step that gets behind one item, and says of it what is to be said.
LEMMA MovesOn ==
  ASSUME DiffTypes, Walk(frames), Said(frames, out), frames # <<>>, NEW g \in Frames, g.dir = frames[1].dir,
         Placed(g), Apart(g), PastLast(g),
         NEW q \in listed["src"] \cup listed["dst"], IsItem(q, g.dir), ~Behind(frames[1], q),
         \A x : Behind(g, x) <=> Behind(frames[1], x) \/ x = q,
         NEW v \in Sayings, Diff!Verdict(q) = {v}
  PROVE  LET r == <<g>> \o Tail(frames)
             lines == Append(out, <<v, q>>)
         IN  /\ r \in Seq(Frames) /\ lines \in Seq(Sayings \X Seq(Int))
             /\ Walk(r) /\ Said(r, lines)
<1> DEFINE d == g.dir
           r == <<g>> \o Tail(frames)
           lines == Append(out, <<v, q>>)
           n == Len(out)
<1>1. /\ d \in Seq(Int) /\ q \in Seq(Int) /\ frames[1].dir = d /\ out \in Seq(Sayings \X Seq(Int))
      /\ Len(frames) \in Nat /\ DOMAIN frames = 1..Len(frames) /\ 1 \in DOMAIN frames
      /\ \A m \in DOMAIN frames : frames[m].dir \in Seq(Int)
  BY FramesAreTyped DEF IsItem, DiffTypes
<1>2. /\ r \in Seq(Frames) /\ Walk(r)
      /\ \A p : Passed(r, p) <=> PassedBelow(p) /\ (Under(p, d) => Behind(g, Way(p, d)))
      /\ \A p : Passed(frames, p) <=> PassedBelow(p) /\ (Under(p, d) => Behind(frames[1], Way(p, d)))
  BY TopMoves
<1>3. /\ lines \in Seq(Sayings \X Seq(Int)) /\ DOMAIN lines = 1..n + 1 /\ DOMAIN out = 1..n /\ n \in Nat
      /\ n + 1 \in DOMAIN lines /\ lines[n + 1] = <<v, q>>
      /\ \A i \in 1..n : i \in DOMAIN lines /\ lines[i] = out[i]
  BY <1>1
<1>4. \A p \in Diff!Met : p \in Seq(Int) /\ p \in listed["src"] \cup listed["dst"]
  BY DEF Diff!Met, DiffTypes, Diff!Sides
<1> HIDE DEF r, lines, n, d
<1>5. Under(q, d) /\ Way(q, d) = q /\ IsItem(q, d)
  BY <1>1, ItemIsUnder DEF d
<1>6. q \in Diff!Met
  <2>1. Shared(d)
    BY <1>1 DEF Walk
  <2>2. \A k \in 1..Len(q) - 1 : SubSeq(q, 1, k) \in Both
    <3>1. \A k \in 1..Len(q) - 1 : k \in 1..Len(d) /\ SubSeq(q, 1, k) = SubSeq(d, 1, k)
      BY <1>1, <1>5, ItemIsUnder
    <3>2. QED
      BY <2>1, <3>1 DEF Shared
  <2>3. QED
    BY <2>2 DEF Diff!Met, Diff!Above, Both
<1>7. PassedBelow(q)
  <2>1. SUFFICES ASSUME NEW m \in 2..Len(frames)
                 PROVE  Behind(frames[m], Way(q, frames[m].dir))
    BY DEF PassedBelow
  <2>2. m \in DOMAIN frames /\ 1 < m /\ frames[m].dir \in Seq(Int)
    <3>1. Len(frames) \in Nat /\ DOMAIN frames = 1..Len(frames)
      BY <1>1
    <3>2. m \in DOMAIN frames /\ 1 < m
      BY <3>1
    <3>3. QED
      BY <1>1, <3>2
  <2>3. Under(d, frames[m].dir) /\ Behind(frames[m], Way(d, frames[m].dir))
    BY <1>1, <2>2 DEF Walk
  <2>4. Way(q, frames[m].dir) = Way(d, frames[m].dir)
    BY <1>1, <1>5, <2>2, <2>3, UnderBoth
  <2>5. QED
    BY <2>3, <2>4
<1>8. ~Passed(frames, q) /\ Passed(r, q)
  BY <1>2, <1>5, <1>7 DEF d
<1>9. ASSUME NEW p \in Diff!Met, p # q
      PROVE  Passed(r, p) <=> Passed(frames, p)
  <2>1. CASE Under(p, d) /\ Way(p, d) = q
    <3>1. Under(p, q)
      BY <1>1, <1>4, <1>5, <1>9, <2>1, UnderItem
    <3>2. QED
      BY <1>1, <1>5, <1>9, <3>1, NothingBelow
  <2>2. CASE ~(Under(p, d) /\ Way(p, d) = q)
    BY <1>2, <2>2 DEF d
  <2>3. QED
    BY <2>1, <2>2
<1>10. \A i \in 1..n : \E p \in Diff!Met : p # q /\ Passed(frames, p) /\ out[i] \in Diff!Verdict(p) \X {p}
  BY <1>3, <1>8 DEF Said
<1>11. \A i, j \in DOMAIN lines : i # j => lines[i] # lines[j]
  <2>1. TAKE i, j \in DOMAIN lines
  <2>2. \A k \in 1..n : out[k] # <<v, q>>
    BY <1>10
  <2>3. (i \in 1..n \/ i = n + 1) /\ (j \in 1..n \/ j = n + 1)
    BY <1>3
  <2>4. i \in 1..n /\ j \in 1..n /\ i # j => out[i] # out[j]
    BY <1>3 DEF Said
  <2>5. QED
    BY <1>3, <2>2, <2>3, <2>4
<1>12. \A i \in DOMAIN lines : \E p \in Diff!Met : Passed(r, p) /\ lines[i] \in Diff!Verdict(p) \X {p}
  <2>1. TAKE i \in DOMAIN lines
  <2>2. CASE i \in 1..n
    BY <1>3, <1>9, <1>10, <2>2
  <2>3. CASE i = n + 1
    BY <1>3, <1>6, <1>8, <2>3
  <2>4. QED
    BY <1>3, <2>2, <2>3
<1>13. ASSUME NEW p \in Diff!Met, Passed(r, p), NEW u \in Diff!Verdict(p)
       PROVE  \E i \in DOMAIN lines : lines[i] = <<u, p>>
  <2>1. CASE p = q
    BY <1>3, <1>13, <2>1
  <2>2. CASE p # q
    <3>1. \E i \in DOMAIN out : out[i] = <<u, p>>
      BY <1>9, <1>13, <2>2 DEF Said
    <3>2. QED
      BY <1>3, <3>1
  <2>3. QED
    BY <2>1, <2>2
<1>14. Said(r, lines)
  BY <1>11, <1>12, <1>13 DEF Said
<1>15. QED
  BY <1>2, <1>3, <1>14 DEF r, lines

\* A step that gets behind an item in both lists and goes into it.
LEMMA GoesInto ==
  ASSUME DiffTypes, Walk(frames), Said(frames, out), frames # <<>>, NEW g \in Frames, g.dir = frames[1].dir,
         Placed(g), Apart(g), PastLast(g),
         NEW q \in listed["src"] \cap listed["dst"], IsItem(q, g.dir), ~Behind(frames[1], q),
         \A x : Behind(g, x) <=> Behind(frames[1], x) \/ x = q,
         Diff!Verdict(q) = {}
  PROVE  LET c == [dir |-> q, item |-> 1, pos |-> 0, inner |-> FALSE]
             r == <<c, g>> \o Tail(frames)
         IN  r \in Seq(Frames) /\ Walk(r) /\ Said(r, out)
<1> DEFINE d == g.dir
           c == [dir |-> q, item |-> 1, pos |-> 0, inner |-> FALSE]
           s == <<g>> \o Tail(frames)
           r == <<c, g>> \o Tail(frames)
           n == Len(frames)
<1>1. /\ d \in Seq(Int) /\ q \in Seq(Int) /\ frames[1].dir = d /\ frames \in Seq(Frames)
      /\ 1 \in DOMAIN frames
  BY FramesAreTyped DEF IsItem
<1>2. /\ s \in Seq(Frames) /\ Walk(s)
      /\ \A p : Passed(s, p) <=> PassedBelow(p) /\ (Under(p, d) => Behind(g, Way(p, d)))
      /\ \A p : Passed(frames, p) <=> PassedBelow(p) /\ (Under(p, d) => Behind(frames[1], Way(p, d)))
  BY TopMoves
<1>3. c \in Frames
  BY <1>1 DEF Frames
<1>4. DOMAIN s = 1..n /\ DOMAIN frames = 1..n /\ n \in Nat /\ 1 \in 1..n /\ s[1] = g
  BY <1>1, OnTop
<1>5. /\ r \in Seq(Frames) /\ DOMAIN r = 1..n + 1 /\ r[1] = c /\ \A m \in 2..n + 1 : r[m] = s[m - 1] /\ m - 1 \in 1..n
  <2>1. Tail(frames) \in Seq(Frames) /\ Len(Tail(frames)) = n - 1
    BY <1>1, <1>4, HeadTailProperties
  <2> HIDE DEF c, n
  <2>2. r = <<c>> \o s
    BY <1>3, <2>1
  <2>3. s \in Seq(Frames) /\ Len(s) = n
    BY <1>2, <1>4
  <2> HIDE DEF s, r
  <2>4. QED
    BY <1>3, <1>4, <2>2, <2>3
<1>c. c.dir = q /\ c.item = 1 /\ c.pos = 0 /\ c.inner = FALSE
  OBVIOUS
<1> HIDE DEF r, s, n, d, c
<1>6. Under(q, d) /\ Way(q, d) = q /\ IsItem(q, d)
  BY <1>1, ItemIsUnder DEF d
<1>7. Placed(c) /\ Apart(c) /\ PastLast(c) /\ Shared(c.dir)
  <2>1. Len(Src(q)) \in Nat /\ Len(Dst(q)) \in Nat
    BY <1>1, ListsAreRising DEF Src, Dst, Diff!Sides
  <2>2. Placed(c) /\ Apart(c) /\ PastLast(c)
    BY <1>c, <2>1 DEF Placed, Apart, PastLast
  <2>3. Shared(d)
    BY <1>1 DEF Walk
  <2>4. ASSUME NEW k \in 1..Len(q)
        PROVE  SubSeq(q, 1, k) \in Both
    <3>0. Len(q) \in Nat
      BY <1>1
    <3>1. CASE k = Len(q)
      <4>1. SubSeq(q, 1, k) = q
        BY <1>1, <3>0, <3>1, Beginning
      <4>2. QED
        BY <4>1 DEF Both
    <3>2. CASE k \in 1..Len(q) - 1
      <4>1. k \in 1..Len(d) /\ SubSeq(q, 1, k) = SubSeq(d, 1, k)
        BY <1>1, <1>6, <3>2, ItemIsUnder
      <4>2. QED
        BY <2>3, <4>1 DEF Shared
    <3>3. QED
      BY <3>0, <3>1, <3>2
  <2>5. QED
    BY <1>c, <2>2, <2>4 DEF Shared
<1>8. ~\E x : Behind(c, x)
  BY <1>c DEF Behind
<1>9. \A m \in 1..n + 1 : m = 1 \/ m \in 2..n + 1
  BY <1>4
<1>10. Walk(r)
  <2>1. ASSUME NEW m \in DOMAIN r
        PROVE  Placed(r[m]) /\ Apart(r[m]) /\ PastLast(r[m]) /\ Shared(r[m].dir)
    <3>1. CASE m = 1
      BY <1>5, <1>7, <3>1
    <3>2. CASE m \in 2..n + 1
      BY <1>2, <1>4, <1>5, <3>2 DEF Walk
    <3>3. QED
      BY <1>5, <1>9, <2>1, <3>1, <3>2
  <2>2. ASSUME NEW m \in DOMAIN r, NEW k \in DOMAIN r, m < k
        PROVE  Under(r[m].dir, r[k].dir) /\ Behind(r[k], Way(r[m].dir, r[k].dir))
    <3>1. k \in 2..n + 1 /\ k - 1 \in DOMAIN s /\ r[k] = s[k - 1] /\ s[k - 1] \in Frames
      BY <1>2, <1>4, <1>5, <2>2
    <3>2. CASE m = 1
      <4>1. r[m].dir = q
        BY <1>5, <1>c, <3>2
      <4>2. CASE k = 2
        BY <1>4, <1>6, <3>1, <4>1, <4>2 DEF d
      <4>3. CASE k # 2
        <5>1. 1 \in DOMAIN s /\ 1 < k - 1
          BY <1>4, <3>1, <4>3
        <5>2. Under(d, s[k - 1].dir) /\ Behind(s[k - 1], Way(d, s[k - 1].dir))
          BY <1>2, <1>4, <3>1, <5>1 DEF Walk, d
        <5>3. Under(q, s[k - 1].dir) /\ Way(q, s[k - 1].dir) = Way(d, s[k - 1].dir)
          BY <1>1, <1>6, <3>1, <5>2, UnderBoth DEF Frames
        <5>4. QED
          BY <3>1, <4>1, <5>2, <5>3
      <4>4. QED
        BY <4>2, <4>3
    <3>3. CASE m \in 2..n + 1
      <4>1. m - 1 \in DOMAIN s /\ r[m] = s[m - 1] /\ m - 1 < k - 1
        BY <1>4, <1>5, <2>2, <3>1, <3>3
      <4>2. QED
        BY <1>2, <3>1, <4>1 DEF Walk
    <3>4. QED
      BY <1>5, <1>9, <2>2, <3>2, <3>3
  <2>3. QED
    BY <2>1, <2>2 DEF Walk
<1>11. ASSUME NEW p
       PROVE  Passed(r, p) <=> Passed(s, p) /\ ~Under(p, q)
  <2>1. Passed(r, p) => ~Under(p, q)
    BY <1>4, <1>5, <1>8, <1>c DEF Passed
  <2>2. Passed(r, p) => Passed(s, p)
    <3>1. SUFFICES ASSUME Passed(r, p), NEW m \in DOMAIN s, Under(p, s[m].dir)
                   PROVE  Behind(s[m], Way(p, s[m].dir))
      BY DEF Passed
    <3>2. m + 1 \in 2..n + 1 /\ (m + 1) - 1 = m /\ m + 1 \in 1..n + 1
      BY <1>4
    <3>3. r[m + 1] = s[m] /\ m + 1 \in DOMAIN r
      BY <1>5, <3>2
    <3>4. QED
      BY <3>1, <3>3 DEF Passed
  <2>3. ASSUME Passed(s, p), ~Under(p, q), NEW m \in DOMAIN r, Under(p, r[m].dir)
        PROVE  Behind(r[m], Way(p, r[m].dir))
    <3>1. m \in 2..n + 1
      BY <1>5, <1>9, <1>c, <2>3
    <3>2. QED
      BY <1>4, <1>5, <2>3, <3>1 DEF Passed
  <2>4. QED
    BY <2>1, <2>2, <2>3 DEF Passed
<1>12. ASSUME NEW p \in Diff!Met, p # q
       PROVE  Passed(r, p) <=> Passed(frames, p)
  <2>1. p \in Seq(Int)
    BY DEF Diff!Met, DiffTypes, Diff!Sides
  <2>2. Under(p, q) <=> Under(p, d) /\ Way(p, d) = q
    BY <1>1, <1>6, <1>12, <2>1, UnderItem
  <2>3. Passed(s, p) <=> PassedBelow(p) /\ (Under(p, d) => Behind(frames[1], Way(p, d)) \/ Way(p, d) = q)
    BY <1>2
  <2>4. Passed(frames, p) <=> PassedBelow(p) /\ (Under(p, d) => Behind(frames[1], Way(p, d)))
    BY <1>2
  <2>5. QED
    BY <1>11, <2>2, <2>3, <2>4
<1>13. Said(r, out)
  BY <1>12 DEF Said
<1>14. QED
  BY <1>5, <1>10, <1>13 DEF r, c

Top == frames[1]
SrcList == Src(Top.dir)
DstList == Dst(Top.dir)

\* The innermost frame behind its next item of src, of dst, or of both.
AfterSrc == Diff!NextItem(Top)
AfterDst == [Top EXCEPT !.pos = @ + 1]
AfterBoth == [Diff!NextItem(Top) EXCEPT !.pos = @ + 1]

\* The lists of its directory.
TopInLists ==
  /\ Top \in Frames /\ Top.dir \in Seq(Int) /\ Placed(Top) /\ Apart(Top) /\ PastLast(Top)
  /\ Len(SrcList) \in Nat /\ Len(DstList) \in Nat
  /\ Top.item \in Nat /\ Top.item >= 1 /\ Top.item <= Len(SrcList) + 1
  /\ Top.pos \in Nat /\ Top.pos <= Len(DstList)
  /\ \A i \in 1..Len(SrcList) :
       SrcList[i] \in listed["src"] /\ IsItem(SrcList[i], Top.dir) /\ Diff!Last(SrcList[i]) \in Int
  /\ \A j \in 1..Len(DstList) :
       DstList[j] \in listed["dst"] /\ IsItem(DstList[j], Top.dir) /\ Diff!Last(DstList[j]) \in Int
  /\ \A q \in listed["src"] : IsItem(q, Top.dir) => \E i \in 1..Len(SrcList) : SrcList[i] = q
  /\ \A q \in listed["dst"] : IsItem(q, Top.dir) => \E j \in 1..Len(DstList) : DstList[j] = q
  /\ \A i, j \in 1..Len(SrcList) : i < j => Diff!Last(SrcList[i]) < Diff!Last(SrcList[j])
  /\ \A i, j \in 1..Len(DstList) : i < j => Diff!Last(DstList[i]) < Diff!Last(DstList[j])

LEMMA TopLists == DiffTypes /\ Walk(frames) /\ frames # <<>> => TopInLists
<1> SUFFICES ASSUME DiffTypes, Walk(frames), frames # <<>>
             PROVE  TopInLists
  OBVIOUS
<1>1. Top \in Frames /\ Top.dir \in Seq(Int) /\ Top.item \in Nat /\ Top.pos \in Nat
  BY FramesAreTyped DEF Top
<1>2. Placed(Top) /\ Apart(Top) /\ PastLast(Top)
  BY FramesAreTyped DEF Walk, Top
<1>3. "src" \in Diff!Sides /\ "dst" \in Diff!Sides
  BY DEF Diff!Sides
<1>4. /\ Len(SrcList) \in Nat
      /\ \A i \in 1..Len(SrcList) : SrcList[i] \in listed["src"] /\ IsItem(SrcList[i], Top.dir) /\ Diff!Last(SrcList[i]) \in Int
      /\ \A q \in listed["src"] : IsItem(q, Top.dir) => \E i \in 1..Len(SrcList) : SrcList[i] = q
      /\ \A i, j \in 1..Len(SrcList) : i < j => Diff!Last(SrcList[i]) < Diff!Last(SrcList[j])
  BY <1>1, <1>3, ListsAreRising DEF Src, SrcList
<1>5. /\ Len(DstList) \in Nat
      /\ \A j \in 1..Len(DstList) : DstList[j] \in listed["dst"] /\ IsItem(DstList[j], Top.dir) /\ Diff!Last(DstList[j]) \in Int
      /\ \A q \in listed["dst"] : IsItem(q, Top.dir) => \E j \in 1..Len(DstList) : DstList[j] = q
      /\ \A i, j \in 1..Len(DstList) : i < j => Diff!Last(DstList[i]) < Diff!Last(DstList[j])
  BY <1>1, <1>3, ListsAreRising DEF Dst, DstList
<1>6. Top.item >= 1 /\ Top.item <= Len(SrcList) + 1 /\ Top.pos <= Len(DstList)
  BY <1>1, <1>2, <1>4, <1>5 DEF Placed, SrcList, DstList
<1>7. QED
  BY <1>1, <1>2, <1>4, <1>5, <1>6 DEF TopInLists

LEMMA AfterIsFrame ==
  ASSUME Top \in Frames
  PROVE  /\ AfterSrc \in Frames /\ AfterDst \in Frames /\ AfterBoth \in Frames
         /\ AfterSrc.dir = Top.dir /\ AfterSrc.item = Top.item + 1 /\ AfterSrc.pos = Top.pos
         /\ AfterSrc.inner = FALSE
         /\ AfterDst.dir = Top.dir /\ AfterDst.item = Top.item /\ AfterDst.pos = Top.pos + 1
         /\ AfterDst.inner = Top.inner
         /\ AfterBoth.dir = Top.dir /\ AfterBoth.item = Top.item + 1 /\ AfterBoth.pos = Top.pos + 1
         /\ AfterBoth.inner = FALSE
<1>1. /\ Top.dir \in Seq(Int) /\ Top.item \in Nat /\ Top.pos \in Nat
      /\ DOMAIN Top = {"dir", "item", "pos", "inner"}
  BY DEF Frames
<1>2. Top.inner \in BOOLEAN
  BY Zenon DEF Frames
<1>3. /\ AfterSrc = [dir |-> Top.dir, item |-> Top.item + 1, pos |-> Top.pos, inner |-> FALSE]
      /\ AfterDst = [dir |-> Top.dir, item |-> Top.item, pos |-> Top.pos + 1, inner |-> Top.inner]
      /\ AfterBoth = [dir |-> Top.dir, item |-> Top.item + 1, pos |-> Top.pos + 1, inner |-> FALSE]
  <2>1. Top = [dir |-> Top.dir, item |-> Top.item, pos |-> Top.pos, inner |-> Top.inner]
    BY DEF Frames
  <2>2. ASSUME NEW d, NEW i, NEW p, NEW b, NEW x
        PROVE  /\ [[dir |-> d, item |-> i, pos |-> p, inner |-> b] EXCEPT !.item = x]
                    = [dir |-> d, item |-> x, pos |-> p, inner |-> b]
               /\ [[dir |-> d, item |-> i, pos |-> p, inner |-> b] EXCEPT !.pos = x]
                    = [dir |-> d, item |-> i, pos |-> x, inner |-> b]
               /\ [[dir |-> d, item |-> i, pos |-> p, inner |-> b] EXCEPT !.inner = x]
                    = [dir |-> d, item |-> i, pos |-> p, inner |-> x]
    OBVIOUS
  <2>3. AfterSrc = [[Top EXCEPT !.item = @ + 1] EXCEPT !.inner = FALSE]
    BY DEF AfterSrc, Diff!NextItem, Frames
  <2>4. [Top EXCEPT !.item = @ + 1] = [dir |-> Top.dir, item |-> Top.item + 1, pos |-> Top.pos, inner |-> Top.inner]
    BY <2>1, <2>2
  <2>5. AfterSrc = [dir |-> Top.dir, item |-> Top.item + 1, pos |-> Top.pos, inner |-> FALSE]
    BY <2>2, <2>3, <2>4
  <2>6. AfterDst = [dir |-> Top.dir, item |-> Top.item, pos |-> Top.pos + 1, inner |-> Top.inner]
    BY <2>1, <2>2 DEF AfterDst
  <2>7. AfterBoth = [AfterSrc EXCEPT !.pos = @ + 1] /\ AfterSrc.pos = Top.pos
    BY <2>5 DEF AfterBoth, AfterSrc
  <2>8. AfterBoth = [dir |-> Top.dir, item |-> Top.item + 1, pos |-> Top.pos + 1, inner |-> FALSE]
    BY <2>2, <2>5, <2>7
  <2>9. QED
    BY <2>5, <2>6, <2>8
<1>4. Top.item + 1 \in Nat /\ Top.pos + 1 \in Nat
  BY <1>1
<1>5. AfterSrc \in Frames /\ AfterDst \in Frames /\ AfterBoth \in Frames
  BY <1>1, <1>2, <1>3, <1>4, Zenon DEF Frames
<1>6. /\ AfterSrc.inner = FALSE /\ AfterDst.inner = Top.inner /\ AfterBoth.inner = FALSE
  BY <1>3, Zenon
<1>7. QED
  BY <1>3, <1>5, <1>6

\* Getting behind an item of src that comes before what is left of dst.
LEMMA BehindSrc ==
  ASSUME DiffTypes, Walk(frames), frames # <<>>, Top.item <= Len(SrcList),
         \A j \in (Top.pos + 1)..Len(DstList) : Diff!Last(SrcList[Top.item]) < Diff!Last(DstList[j])
  PROVE  /\ AfterSrc \in Frames /\ AfterSrc.dir = Top.dir
         /\ Placed(AfterSrc) /\ Apart(AfterSrc) /\ PastLast(AfterSrc)
         /\ SrcList[Top.item] \in listed["src"] /\ IsItem(SrcList[Top.item], AfterSrc.dir) /\ ~Behind(Top, SrcList[Top.item])
         /\ \A x : Behind(AfterSrc, x) <=> Behind(Top, x) \/ x = SrcList[Top.item]
         /\ Diff!Verdict(SrcList[Top.item]) = {"only in src"}
<1> DEFINE q == SrcList[Top.item]
<1>1. TopInLists
  BY TopLists
<1> USE DEF TopInLists
<1>2. /\ AfterSrc \in Frames /\ AfterSrc.dir = Top.dir /\ AfterSrc.item = Top.item + 1 /\ AfterSrc.pos = Top.pos /\ AfterSrc.inner = FALSE
  BY <1>1, AfterIsFrame
<1>3. /\ \A i \in 1..(Top.item - 1), j \in (Top.pos + 1)..Len(DstList) : Diff!Last(SrcList[i]) < Diff!Last(DstList[j])
      /\ \A i \in Top.item..Len(SrcList), j \in 1..Top.pos : Diff!Last(DstList[j]) < Diff!Last(SrcList[i])
  BY <1>1 DEF Apart, SrcList, DstList
<1>4. Top.item \in 1..Len(SrcList) /\ Top.item \in Top.item..Len(SrcList)
  BY <1>1
<1>5. q \in listed["src"] /\ IsItem(q, Top.dir) /\ Diff!Last(q) \in Int
  BY <1>1, <1>4
<1>6. Placed(AfterSrc)
  BY <1>1, <1>2 DEF Placed, SrcList, DstList
<1>7. PastLast(AfterSrc)
  BY <1>2 DEF PastLast, SrcList, DstList
<1>8. Apart(AfterSrc)
  <2>1. ASSUME NEW i \in 1..Top.item, NEW j \in (Top.pos + 1)..Len(DstList)
        PROVE  Diff!Last(SrcList[i]) < Diff!Last(DstList[j])
    <3>1. i = Top.item \/ i \in 1..(Top.item - 1)
      BY <1>1
    <3>2. QED
      BY <1>3, <3>1
  <2>2. (Top.item + 1) - 1 = Top.item
    BY <1>1
  <2>3. \A i \in (Top.item + 1)..Len(SrcList) : i \in Top.item..Len(SrcList)
    BY <1>1
  <2>4. QED
    BY <1>2, <1>3, <2>1, <2>2, <2>3 DEF Apart, SrcList, DstList
<1>9. q \notin listed["dst"]
  <2>1. SUFFICES ASSUME NEW j \in 1..Len(DstList), DstList[j] = q
                 PROVE  FALSE
    BY <1>1, <1>5
  <2>2. j \in 1..Top.pos \/ j \in (Top.pos + 1)..Len(DstList)
    BY <1>1
  <2>3. QED
    BY <1>3, <1>4, <1>5, <2>1, <2>2
<1>10. ~Behind(Top, q)
  <2>1. \A i \in 1..(Top.item - 1) : SrcList[i] # q
    <3>1. TAKE i \in 1..(Top.item - 1)
    <3>2. i \in 1..Len(SrcList) /\ i < Top.item
      BY <1>1, <1>4
    <3>3. Diff!Last(SrcList[i]) < Diff!Last(q)
      BY <1>1, <1>4, <3>2
    <3>4. QED
      BY <1>5, <3>3
  <2>2. \A j \in 1..Top.pos : DstList[j] # q
    BY <1>1, <1>9
  <2>3. QED
    BY <2>1, <2>2 DEF Behind, SrcList, DstList
<1>11. \A x : Behind(AfterSrc, x) <=> Behind(Top, x) \/ x = q
  <2>1. \A i : i \in 1..(AfterSrc.item - 1) <=> i \in 1..(Top.item - 1) \/ i = Top.item
    BY <1>1, <1>2
  <2>2. QED
    BY <1>2, <2>1 DEF Behind, SrcList, DstList
<1>12. Diff!Verdict(q) = {"only in src"}
  BY <1>9 DEF Diff!Verdict
<1>13. QED
  BY <1>2, <1>5, <1>6, <1>7, <1>8, <1>10, <1>11, <1>12

\* Getting behind an item of dst that comes before what is left of src.
LEMMA BehindDst ==
  ASSUME DiffTypes, Walk(frames), frames # <<>>, Top.pos < Len(DstList),
         \A i \in Top.item..Len(SrcList) : Diff!Last(DstList[Top.pos + 1]) < Diff!Last(SrcList[i])
  PROVE  /\ AfterDst \in Frames /\ AfterDst.dir = Top.dir
         /\ Placed(AfterDst) /\ Apart(AfterDst) /\ PastLast(AfterDst)
         /\ DstList[Top.pos + 1] \in listed["dst"] /\ IsItem(DstList[Top.pos + 1], AfterDst.dir) /\ ~Behind(Top, DstList[Top.pos + 1])
         /\ \A x : Behind(AfterDst, x) <=> Behind(Top, x) \/ x = DstList[Top.pos + 1]
         /\ Diff!Verdict(DstList[Top.pos + 1]) = {"only in dst"}
<1> DEFINE next == Top.pos + 1
           q == DstList[next]
<1>1. TopInLists
  BY TopLists
<1> USE DEF TopInLists
<1>2. /\ AfterDst \in Frames /\ AfterDst.dir = Top.dir /\ AfterDst.item = Top.item /\ AfterDst.pos = next /\ AfterDst.inner = Top.inner
  BY <1>1, AfterIsFrame
<1>3. /\ \A i \in 1..(Top.item - 1), j \in next..Len(DstList) : Diff!Last(SrcList[i]) < Diff!Last(DstList[j])
      /\ \A i \in Top.item..Len(SrcList), j \in 1..Top.pos : Diff!Last(DstList[j]) < Diff!Last(SrcList[i])
  BY <1>1 DEF Apart, SrcList, DstList
<1>4. next \in Nat /\ next \in 1..Len(DstList) /\ next \in next..Len(DstList) /\ next > 0 /\ Top.pos < next
  BY <1>1
<1>4a. \A j : j \in 1..next <=> j \in 1..Top.pos \/ j = next
  BY <1>1
<1>4b. \A j \in (next + 1)..Len(DstList) : j \in next..Len(DstList)
  BY <1>1
<1>4c. next \in 0..Len(DstList) /\ \A j \in 1..Top.pos : j \in 1..Len(DstList) /\ j < next
  BY <1>1
<1> HIDE DEF next
<1>5. q \in listed["dst"] /\ IsItem(q, Top.dir) /\ Diff!Last(q) \in Int
  BY <1>1, <1>4
<1>6. Placed(AfterDst)
  BY <1>1, <1>2, <1>4c DEF Placed, SrcList, DstList
<1>7. q \notin listed["src"]
  <2>1. SUFFICES ASSUME NEW i \in 1..Len(SrcList), SrcList[i] = q
                 PROVE  FALSE
    BY <1>1, <1>5
  <2>2. i \in 1..(Top.item - 1) \/ i \in Top.item..Len(SrcList)
    BY <1>1
  <2>3. \A k \in Top.item..Len(SrcList) : Diff!Last(q) < Diff!Last(SrcList[k])
    BY DEF next
  <2>4. QED
    BY <1>3, <1>4, <1>5, <2>1, <2>2, <2>3
<1>8. PastLast(AfterDst)
  BY <1>2, <1>4, <1>7 DEF PastLast, SrcList, DstList
<1>9. Apart(AfterDst)
  <2>1. ASSUME NEW i \in Top.item..Len(SrcList), NEW j \in 1..next
        PROVE  Diff!Last(DstList[j]) < Diff!Last(SrcList[i])
    <3>1. CASE j \in 1..Top.pos
      BY <1>3, <3>1
    <3>2. CASE j = next
      BY <3>2 DEF next
    <3>3. QED
      BY <1>4a, <3>1, <3>2
  <2>2. QED
    BY <1>2, <1>3, <1>4b, <2>1 DEF Apart, SrcList, DstList
<1>10. ~Behind(Top, q)
  <2>1. \A j \in 1..Top.pos : DstList[j] # q
    <3>1. TAKE j \in 1..Top.pos
    <3>2. Diff!Last(DstList[j]) < Diff!Last(q)
      BY <1>1, <1>4, <1>4c
    <3>3. QED
      BY <1>5, <3>2
  <2>2. \A i \in 1..(Top.item - 1) : i \in 1..Len(SrcList)
    BY <1>1
  <2>3. QED
    BY <1>1, <1>7, <2>1, <2>2 DEF Behind, SrcList, DstList
<1>11. \A x : Behind(AfterDst, x) <=> Behind(Top, x) \/ x = q
  BY <1>2, <1>4a DEF Behind, SrcList, DstList
<1>12. Diff!Verdict(q) = {"only in dst"}
  BY <1>5, <1>7 DEF Diff!Verdict
<1>13. QED
  BY <1>2, <1>5, <1>6, <1>8, <1>9, <1>10, <1>11, <1>12 DEF next

\* Getting behind an item that is next in both.
LEMMA BehindBoth ==
  ASSUME DiffTypes, Walk(frames), frames # <<>>, Top.item <= Len(SrcList), Top.pos < Len(DstList),
         SrcList[Top.item] = DstList[Top.pos + 1]
  PROVE  /\ AfterBoth \in Frames /\ AfterBoth.dir = Top.dir
         /\ Placed(AfterBoth) /\ Apart(AfterBoth) /\ PastLast(AfterBoth)
         /\ SrcList[Top.item] \in listed["src"] \cap listed["dst"] /\ IsItem(SrcList[Top.item], AfterBoth.dir) /\ ~Behind(Top, SrcList[Top.item])
         /\ \A x : Behind(AfterBoth, x) <=> Behind(Top, x) \/ x = SrcList[Top.item]
<1> DEFINE next == Top.pos + 1
           q == SrcList[Top.item]
<1>1. TopInLists
  BY TopLists
<1> USE DEF TopInLists
<1>2. /\ AfterBoth \in Frames /\ AfterBoth.dir = Top.dir /\ AfterBoth.item = Top.item + 1 /\ AfterBoth.pos = next /\ AfterBoth.inner = FALSE
  BY <1>1, AfterIsFrame
<1>3. /\ \A i \in 1..(Top.item - 1), j \in next..Len(DstList) : Diff!Last(SrcList[i]) < Diff!Last(DstList[j])
      /\ \A i \in Top.item..Len(SrcList), j \in 1..Top.pos : Diff!Last(DstList[j]) < Diff!Last(SrcList[i])
  BY <1>1 DEF Apart, SrcList, DstList
<1>4. next \in Nat /\ next \in 1..Len(DstList) /\ Top.item \in 1..Len(SrcList)
  BY <1>1
<1>5. /\ \A j : j \in 1..next <=> j \in 1..Top.pos \/ j = next
      /\ \A j \in (next + 1)..Len(DstList) : j \in next..Len(DstList) /\ j \in 1..Len(DstList) /\ next < j
      /\ \A j \in 1..Top.pos : j \in 1..Len(DstList) /\ j < next
  BY <1>1
<1>6. /\ \A i : i \in 1..(AfterBoth.item - 1) <=> i \in 1..(Top.item - 1) \/ i = Top.item
      /\ \A i \in (Top.item + 1)..Len(SrcList) : i \in Top.item..Len(SrcList) /\ i \in 1..Len(SrcList) /\ Top.item < i
      /\ \A i \in 1..(Top.item - 1) : i \in 1..Len(SrcList) /\ i < Top.item
  <2>1. Top.item \in Nat /\ Top.item >= 1 /\ Len(SrcList) \in Nat /\ Top.item <= Len(SrcList)
    BY <1>1
  <2>2. AfterBoth.item - 1 = Top.item
    BY <1>2, <2>1
  <2>3. \A i : i \in 1..Top.item <=> i \in 1..(Top.item - 1) \/ i = Top.item
    BY <2>1
  <2>4. \A i \in (Top.item + 1)..Len(SrcList) : i \in Top.item..Len(SrcList) /\ i \in 1..Len(SrcList) /\ Top.item < i
    BY <2>1
  <2>5. \A i \in 1..(Top.item - 1) : i \in 1..Len(SrcList) /\ i < Top.item
    BY <2>1
  <2>6. QED
    BY <2>2, <2>3, <2>4, <2>5
<1>7. Placed(AfterBoth)
  BY <1>1, <1>2 DEF Placed, SrcList, DstList
<1>8. PastLast(AfterBoth)
  BY <1>2 DEF PastLast, SrcList, DstList
<1>9. DstList[next] = q /\ q \in listed["src"] /\ q \in listed["dst"] /\ IsItem(q, Top.dir) /\ Diff!Last(q) \in Int
  BY <1>1, <1>4
<1> HIDE DEF next, q
<1>q. SrcList[Top.item] = q
  BY DEF q
<1>10. Apart(AfterBoth)
  <2>1. ASSUME NEW i \in 1..(AfterBoth.item - 1), NEW j \in (next + 1)..Len(DstList)
        PROVE  Diff!Last(SrcList[i]) < Diff!Last(DstList[j])
    <3>1. CASE i \in 1..(Top.item - 1)
      BY <1>3, <1>5, <3>1
    <3>2. CASE i = Top.item
      BY <1>1, <1>4, <1>5, <1>9, <1>q, <3>2
    <3>3. QED
      BY <1>6, <3>1, <3>2
  <2>2. ASSUME NEW i \in (Top.item + 1)..Len(SrcList), NEW j \in 1..next
        PROVE  Diff!Last(DstList[j]) < Diff!Last(SrcList[i])
    <3>1. CASE j \in 1..Top.pos
      BY <1>3, <1>6, <3>1
    <3>2. CASE j = next
      BY <1>1, <1>4, <1>6, <1>9, <1>q, <3>2
    <3>3. QED
      BY <1>5, <3>1, <3>2
  <2>3. QED
    BY <1>2, <2>1, <2>2 DEF Apart, SrcList, DstList
<1>11. ~Behind(Top, q)
  <2>1. \A i \in 1..(Top.item - 1) : SrcList[i] # q
    <3>1. TAKE i \in 1..(Top.item - 1)
    <3>2. Diff!Last(SrcList[i]) < Diff!Last(q)
      BY <1>1, <1>4, <1>6, <1>q
    <3>3. QED
      BY <1>9, <3>2
  <2>2. \A j \in 1..Top.pos : DstList[j] # q
    <3>1. TAKE j \in 1..Top.pos
    <3>2. Diff!Last(DstList[j]) < Diff!Last(q)
      BY <1>1, <1>4, <1>5, <1>9
    <3>3. QED
      BY <1>9, <3>2
  <2>3. QED
    BY <2>1, <2>2 DEF Behind, SrcList, DstList
<1>12. \A x : Behind(AfterBoth, x) <=> Behind(Top, x) \/ x = q
  BY <1>2, <1>5, <1>6, <1>9, <1>q DEF Behind, SrcList, DstList
<1>13. QED
  BY <1>2, <1>7, <1>8, <1>9, <1>10, <1>11, <1>12, <1>q

\* A directory that both lists have been used up of has been told in full.
LEMMA Returns ==
  ASSUME DiffTypes, Walk(frames), Said(frames, out), frames # <<>>,
         ~(Top.item <= Len(SrcList)), Top.pos = Len(DstList)
  PROVE  Tail(frames) \in Seq(Frames) /\ Walk(Tail(frames)) /\ Said(Tail(frames), out)
<1> DEFINE t == Tail(frames)
           n == Len(frames)
<1>1. /\ frames \in Seq(Frames) /\ n \in Nat /\ DOMAIN frames = 1..n /\ 1 \in DOMAIN frames
  BY FramesAreTyped
<1>2. t \in Seq(Frames) /\ DOMAIN t = 1..n - 1 /\ \A m \in 1..n - 1 : t[m] = frames[m + 1]
  BY <1>1, HeadTailProperties
<1>3. TopInLists
  BY TopLists
<1> HIDE DEF t, n
<1>4. /\ \A m \in 1..n - 1 : m + 1 \in 2..n /\ m + 1 \in 1..n
      /\ \A m \in 2..n : m - 1 \in 1..n - 1 /\ (m - 1) + 1 = m
      /\ \A m, k \in 1..n - 1 : m < k => m + 1 < k + 1
      /\ \A m \in 1..n : m = 1 \/ m \in 2..n
  BY <1>1
<1>5. Walk(t)
  <2>1. ASSUME NEW m \in DOMAIN t
        PROVE  Placed(t[m]) /\ Apart(t[m]) /\ PastLast(t[m]) /\ Shared(t[m].dir)
    BY <1>1, <1>2, <1>4, <2>1 DEF Walk
  <2>2. ASSUME NEW m \in DOMAIN t, NEW k \in DOMAIN t, m < k
        PROVE  Under(t[m].dir, t[k].dir) /\ Behind(t[k], Way(t[m].dir, t[k].dir))
    <3>1. t[m] = frames[m + 1] /\ t[k] = frames[k + 1] /\ m + 1 \in DOMAIN frames /\ k + 1 \in DOMAIN frames
      BY <1>1, <1>2, <1>4
    <3>2. m + 1 < k + 1
      BY <1>2, <1>4, <2>2
    <3>3. Under(frames[m + 1].dir, frames[k + 1].dir) /\ Behind(frames[k + 1], Way(frames[m + 1].dir, frames[k + 1].dir))
      BY <3>1, <3>2 DEF Walk
    <3>4. QED
      BY <3>1, <3>3
  <2>3. QED
    BY <2>1, <2>2 DEF Walk
<1>6. \A p : Passed(t, p) <=> PassedBelow(p)
  <2>1. ASSUME NEW p, Passed(t, p), NEW m \in 2..n, Under(p, frames[m].dir)
        PROVE  Behind(frames[m], Way(p, frames[m].dir))
    <3>1. t[m - 1] = frames[m] /\ m - 1 \in DOMAIN t
      BY <1>2, <1>4
    <3>2. QED
      BY <2>1, <3>1 DEF Passed
  <2>2. ASSUME NEW p, PassedBelow(p), NEW m \in DOMAIN t, Under(p, t[m].dir)
        PROVE  Behind(t[m], Way(p, t[m].dir))
    BY <1>2, <1>4, <2>2 DEF PassedBelow, n
  <2>3. QED
    BY <2>1, <2>2 DEF Passed, PassedBelow, n
<1>7. ASSUME NEW p \in Diff!Met, Under(p, Top.dir)
      PROVE  Behind(Top, Way(p, Top.dir))
  <2> DEFINE q == Way(p, Top.dir)
  <2>1. p \in Seq(Int) /\ p \in listed["src"] \cup listed["dst"] /\ Diff!Above(p) \subseteq listed["src"] \cap listed["dst"]
    BY DEF Diff!Met, DiffTypes, Diff!Sides
  <2>2. Top.dir \in Seq(Int)
    BY <1>3 DEF TopInLists
  <2>3. IsItem(q, Top.dir) /\ q \in listed["src"] \cup listed["dst"]
    BY <1>7, <2>1, <2>2, WayIsItem DEF IsItem
  <2> HIDE DEF q
  <2>4. 1..(Top.item - 1) = 1..Len(SrcList) /\ 1..Top.pos = 1..Len(DstList)
    <3>1. Top.item - 1 = Len(SrcList)
      BY <1>3 DEF TopInLists
    <3>2. QED
      BY <3>1
  <2>5. CASE q \in listed["src"]
    <3>1. \E i \in 1..Len(SrcList) : SrcList[i] = q
      BY <1>3, <2>3, <2>5 DEF TopInLists
    <3>2. QED
      BY <2>4, <3>1 DEF Behind, SrcList, q
  <2>6. CASE q \in listed["dst"]
    <3>1. \E j \in 1..Len(DstList) : DstList[j] = q
      BY <1>3, <2>3, <2>6 DEF TopInLists
    <3>2. QED
      BY <2>4, <3>1 DEF Behind, DstList, q
  <2>7. QED
    BY <2>3, <2>5, <2>6
<1>8. \A p : Passed(frames, p) <=> PassedBelow(p) /\ (Under(p, Top.dir) => Behind(Top, Way(p, Top.dir)))
  BY <1>1, <1>4 DEF Passed, PassedBelow, Top, n
<1>9. \A p \in Diff!Met : Passed(t, p) <=> Passed(frames, p)
  BY <1>6, <1>7, <1>8
<1>10. Said(t, out)
  BY <1>9 DEF Said
<1>11. QED
  BY <1>2, <1>5, <1>10 DEF t

\* Before the first step of the walk nothing is behind it.
LEMMA NothingWalked ==
  ASSUME DiffTypes, frames = FirstFrames, out = <<>>
  PROVE  Walk(frames) /\ Said(frames, out)
<1> DEFINE f == [dir |-> Diff!Root, item |-> 1, pos |-> 0, inner |-> FALSE]
<1>1. DOMAIN frames = {1} /\ frames[1] = f /\ DOMAIN out = {}
  BY DEF FirstFrames
<1>2. f.dir = <<>> /\ f.item = 1 /\ f.pos = 0 /\ f.inner = FALSE /\ f.dir \in Seq(Int) /\ Len(f.dir) = 0
  BY DEF Diff!Root
<1> HIDE DEF f
<1>3. Len(Src(f.dir)) \in Nat /\ Len(Dst(f.dir)) \in Nat
  BY <1>2, ListsAreRising DEF Src, Dst, Diff!Sides
<1>4. Placed(f) /\ Apart(f) /\ PastLast(f) /\ Shared(f.dir)
  BY <1>2, <1>3 DEF Placed, Apart, PastLast, Shared
<1>5. Walk(frames)
  BY <1>1, <1>4 DEF Walk
<1>6. ASSUME NEW p \in Diff!Met
      PROVE  ~Passed(frames, p)
  <2>1. p \in Seq(Int) /\ p # <<>>
    BY DEF Diff!Met, DiffTypes, Diff!Sides, Diff!Root
  <2>2. SubSeq(p, 1, 0) = <<>> /\ Len(p) \in Nat /\ Len(p) # 0
    BY <2>1
  <2>3. Under(p, f.dir)
    BY <1>2, <2>2 DEF Under
  <2>4. ~Behind(f, Way(p, f.dir))
    BY <1>2 DEF Behind
  <2>5. QED
    BY <1>1, <2>3, <2>4 DEF Passed
<1>7. Said(frames, out)
  BY <1>1, <1>6 DEF Said
<1>8. QED
  BY <1>5, <1>7

\* A step of the walk.
LEMMA WalkStep ==
  ASSUME DiffTypes, OverInv, Diff!Running, UNCHANGED <<tree, listed, todo, unlisted, over>>,
         frames' \in Seq(Frames), frames' # <<>>, out' \in Seq(Sayings \X Seq(Int)),
         Walk(frames'), Said(frames', out')
  PROVE  DiffInv'
<1>1. todo' = <<>> /\ over' = ""
  BY DEF Diff!Running
<1>2. DiffTypes'
  BY DEF DiffTypes
<1>3. OverInv'
  BY <1>1 DEF OverInv
<1>4. Walk(frames)' /\ Said(frames, out)'
  BY ListsStay
<1>5. QED
  BY <1>2, <1>3, <1>4 DEF DiffInv

LEMMA DiffInit == Diff!Init => DiffInv
<1> SUFFICES ASSUME Diff!Init
             PROVE  DiffInv
  OBVIOUS
<1>1. /\ tree \in [Diff!Sides -> Trees] /\ listed = [s \in Diff!Sides |-> {}] /\ unlisted = 0
      /\ todo = <<<<"src", Diff!Root>>, <<"dst", Diff!Root>>>> /\ frames = FirstFrames
      /\ over = "" /\ out = <<>>
  BY DEF Diff!Init, FirstFrames
<1>2. MaxLost \in Nat
  <2>1. Diff!HdfsDiffAssumption
    BY BatchAssumption
  <2>2. QED
    BY <2>1 DEF Diff!HdfsDiffAssumption
<1>3. Diff!Root \in Seq(Int)
  BY DEF Diff!Root
<1>4. FirstFrames \in Seq(Frames) /\ FirstFrames # <<>>
  BY <1>3 DEF FirstFrames, Frames
<1>5. todo \in Seq(Diff!Sides \X Seq(Int))
  <2> DEFINE listings == Diff!Sides \X Seq(Int)
  <2>1. <<"src", Diff!Root>> \in listings /\ <<"dst", Diff!Root>> \in listings
    BY <1>3 DEF Diff!Sides
  <2> HIDE DEF listings
  <2>2. <<<<"src", Diff!Root>>, <<"dst", Diff!Root>>>> \in Seq(listings)
    BY <2>1
  <2>3. QED
    BY <1>1, <2>2 DEF listings
<1>6. DiffTypes
  <2>1. listed \in [Diff!Sides -> SUBSET Seq(Int)] /\ \A s \in Diff!Sides : listed[s] = {}
    BY <1>1
  <2>2. unlisted \in 0..MaxLost
    <3>1. unlisted = 0
      BY <1>1
    <3>2. QED
      BY <1>2, <3>1
  <2>3. out \in Seq(Sayings \X Seq(Int)) /\ over \in {"", "done", "IndexError"}
    <3> DEFINE lines == Sayings \X Seq(Int)
    <3> HIDE DEF lines
    <3>1. <<>> \in Seq(lines)
      OBVIOUS
    <3>2. out = <<>> /\ over = ""
      BY <1>1
    <3>3. QED
      BY <3>1, <3>2 DEF lines
  <2>4. QED
    BY <1>1, <1>4, <1>5, <2>1, <2>2, <2>3 DEF DiffTypes
<1>7. OverInv
  BY <1>1, <1>4 DEF OverInv
<1>8. Walk(frames) /\ Said(frames, out)
  BY <1>1, <1>6, NothingWalked
<1>9. QED
  BY <1>6, <1>7, <1>8 DEF DiffInv

\* SetToSeq, of a finite set.
LEMMA Listing ==
  ASSUME NEW items, IsFiniteSet(items)
  PROVE  Diff!SetToSeq(items) \in Seq(items)
<1>1. Diff!SetToSeq(items) = CHOOSE l \in [1..Cardinality(items) -> items] : Diff!IsInjective(l)
  BY ItemsOfBoth DEF Diff!SetToSeq
<1>2. \E l \in [1..Cardinality(items) -> items] : Diff!IsInjective(l)
  <2>1. PICK l \in Bijection(1..Cardinality(items), items) : TRUE
    BY FS_CardinalityType DEF ExistsBijection
  <2>2. QED
    BY <2>1 DEF Bijection, Injection, IsInjective, Diff!IsInjective
<1>3. Cardinality(items) \in Nat
  BY FS_CardinalityType
<1>4. QED
  BY <1>1, <1>2, <1>3

LEMMA Lists == DiffInv /\ (Diff!List \/ Diff!ListFails) => DiffInv'
<1> SUFFICES ASSUME DiffInv, Diff!List \/ Diff!ListFails
             PROVE  DiffInv'
  OBVIOUS
<1>0. DiffTypes /\ OverInv
  BY DEF DiffInv
<1>1. /\ todo # <<>> /\ tree' = tree /\ frames' = frames /\ over' = over /\ out' = out
  BY DEF Diff!List, Diff!ListFails
<1>2. over = "" /\ out = <<>> /\ frames = FirstFrames
  BY <1>0, <1>1 DEF OverInv
<1>3. /\ todo \in Seq(Diff!Sides \X Seq(Int)) /\ Head(todo) \in Diff!Sides \X Seq(Int)
      /\ Tail(todo) \in Seq(Diff!Sides \X Seq(Int))
  <2> DEFINE listings == Diff!Sides \X Seq(Int)
  <2>1. todo \in Seq(listings)
    BY <1>0 DEF DiffTypes
  <2> HIDE DEF listings
  <2>2. Head(todo) \in listings /\ Tail(todo) \in Seq(listings)
    BY <1>1, <2>1, HeadTailProperties
  <2>3. QED
    BY <2>1, <2>2 DEF listings
<1>4. DiffTypes'
  <2>1. CASE Diff!List
    <3> DEFINE side == Head(todo)[1]
               shown == Diff!Below(DOMAIN tree[side], Head(todo)[2])
               dirs == {p \in shown : ~tree[side][p].file}
               items == {<<side, p>> : p \in dirs}
    <3>1. /\ listed' = [listed EXCEPT ![side] = @ \cup shown] /\ todo' = Diff!SetToSeq(items) \o Tail(todo)
          /\ unlisted' = unlisted
      BY <2>1 DEF Diff!List
    <3>2. side \in Diff!Sides
      BY <1>3
    <3>3. /\ IsFiniteSet(DOMAIN tree[side]) /\ DOMAIN tree[side] \subseteq Seq(Int)
      BY <1>0, <3>2, TreesAreTyped
    <3> HIDE DEF side
    <3>4. shown \subseteq DOMAIN tree[side] /\ Diff!Root \notin shown
      BY DEF Diff!Below
    <3> HIDE DEF shown
    <3>5. dirs \subseteq DOMAIN tree[side] /\ IsFiniteSet(dirs)
      <4>1. dirs \subseteq DOMAIN tree[side]
        BY <3>4
      <4>2. QED
        BY <3>3, <4>1, FS_Subset
    <3> HIDE DEF dirs
    <3>6. IsFiniteSet(items)
      <4>1. [p \in dirs |-> <<side, p>>] \in Surjection(dirs, items)
        BY DEF Surjection
      <4>2. QED
        BY <3>5, <4>1, FS_Surjection
    <3>7. items \subseteq Diff!Sides \X Seq(Int)
      BY <3>2, <3>3, <3>5
    <3> HIDE DEF items
    <3>8. todo' \in Seq(Diff!Sides \X Seq(Int))
      <4>1. Diff!SetToSeq(items) \in Seq(items)
        BY <3>6, Listing
      <4>2. Diff!SetToSeq(items) \in Seq(Diff!Sides \X Seq(Int))
        BY <3>7, <4>1
      <4>3. QED
        BY <1>3, <3>1, <4>2
    <3>9. listed' \in [Diff!Sides -> SUBSET Seq(Int)]
      BY <1>0, <3>1, <3>2, <3>3, <3>4 DEF DiffTypes
    <3>10. \A s \in Diff!Sides : listed'[s] \subseteq DOMAIN tree[s] /\ Diff!Root \notin listed'[s]
      BY <1>0, <3>1, <3>2, <3>4 DEF DiffTypes
    <3>11. QED
      BY <1>0, <1>1, <3>1, <3>8, <3>9, <3>10 DEF DiffTypes
  <2>2. CASE Diff!ListFails
    <3>1. /\ listed' = listed /\ todo' = Tail(todo) /\ unlisted < MaxLost /\ unlisted' = unlisted + 1
      BY <2>2 DEF Diff!ListFails
    <3>2. unlisted' \in 0..MaxLost
      <4>1. Diff!HdfsDiffAssumption
        BY BatchAssumption
      <4>2. MaxLost \in Nat /\ unlisted \in 0..MaxLost
        BY <1>0, <4>1 DEF DiffTypes, Diff!HdfsDiffAssumption
      <4>3. QED
        BY <3>1, <4>2
    <3>3. QED
      BY <1>0, <1>1, <1>3, <3>1, <3>2 DEF DiffTypes
  <2>3. QED
    BY <2>1, <2>2
<1>5. OverInv'
  BY <1>1, <1>2 DEF OverInv, FirstFrames
<1>6. frames' = FirstFrames /\ out' = <<>>
  BY <1>1, <1>2
<1>7. (Walk(frames) /\ Said(frames, out))'
  <2>1. (DiffTypes /\ frames = FirstFrames /\ out = <<>> => Walk(frames) /\ Said(frames, out))'
    BY NothingWalked, PTL
  <2>2. FirstFrames' = FirstFrames
    BY DEF FirstFrames, Diff!Root
  <2>3. QED
    BY <1>4, <1>6, <2>1, <2>2
<1>8. QED
  BY <1>4, <1>5, <1>7 DEF DiffInv

LEMMA NotEmpty ==
  ASSUME NEW frs \in Seq(Frames), NEW g \in Frames, NEW h \in Frames
  PROVE  <<g>> \o frs # <<>> /\ <<g, h>> \o frs # <<>>
OBVIOUS

\* What an action reads of the innermost frame.
LEMMA TopIsRead ==
  ASSUME DiffInv, frames # <<>>
  PROVE  /\ DiffTypes /\ OverInv /\ Walk(frames) /\ Said(frames, out) /\ TopInLists
         /\ Diff!Frame = Top /\ Diff!Src = SrcList /\ Diff!Dst = DstList
         /\ Diff!HasItem <=> Top.item <= Len(SrcList)
         /\ Diff!Item = SrcList[Top.item] /\ Diff!Other = DstList[Top.pos + 1]
<1>1. DiffTypes /\ OverInv /\ Walk(frames) /\ Said(frames, out)
  BY DEF DiffInv
<1>2. TopInLists
  BY <1>1, TopLists
<1>3. Diff!Frame = Top
  <2>1. frames \in Seq(Frames)
    BY <1>1 DEF DiffTypes
  <2>2. QED
    BY <2>1 DEF Diff!Frame, Top
<1>4. Diff!Src = SrcList /\ Diff!Dst = DstList
  BY <1>3 DEF Diff!Src, Diff!Dst, Src, Dst, SrcList, DstList
<1>5. QED
  BY <1>1, <1>2, <1>3, <1>4 DEF Diff!HasItem, Diff!Item, Diff!Other

\* A step that says v of q, and puts g on top.
LEMMA SayStep ==
  ASSUME DiffInv, Diff!Running, frames # <<>>, Diff!Rest, over' = over,
         NEW g \in Frames, g.dir = Top.dir, Placed(g), Apart(g), PastLast(g),
         NEW q \in listed["src"] \cup listed["dst"], IsItem(q, g.dir), ~Behind(Top, q),
         \A x : Behind(g, x) <=> Behind(Top, x) \/ x = q,
         NEW v \in Sayings, Diff!Verdict(q) = {v}, Diff!Say(v, q), Diff!Set(g)
  PROVE  DiffInv'
<1>1. DiffTypes /\ OverInv /\ Walk(frames) /\ Said(frames, out)
  BY TopIsRead
<1> DEFINE r == <<g>> \o Tail(frames)
           lines == Append(out, <<v, q>>)
<1>2. r \in Seq(Frames) /\ lines \in Seq(Sayings \X Seq(Int)) /\ Walk(r) /\ Said(r, lines)
  BY <1>1, MovesOn DEF Top
<1>3. r # <<>>
  <2>1. Tail(frames) \in Seq(Frames)
    BY <1>1, HeadTailProperties DEF DiffTypes
  <2>2. QED
    BY <2>1, NotEmpty
<1>4. frames' = r /\ out' = lines
  BY DEF Diff!Set, Diff!Say
<1> HIDE DEF r, lines
<1>5. QED
  BY <1>1, <1>2, <1>3, <1>4, WalkStep DEF Diff!Rest

\* A step that says that an item is only in src.
LEMMA SrcSaidStep ==
  ASSUME DiffInv, Diff!Running, frames # <<>>, Diff!Rest, over' = over, Top.item <= Len(SrcList),
         \A j \in (Top.pos + 1)..Len(DstList) : Diff!Last(SrcList[Top.item]) < Diff!Last(DstList[j]),
         Diff!Say("only in src", SrcList[Top.item]), Diff!Set(AfterSrc)
  PROVE  DiffInv'
<1> DEFINE q == SrcList[Top.item]
           v == "only in src"
<1>1. DiffTypes /\ Walk(frames)
  BY TopIsRead
<1>2. /\ AfterSrc \in Frames /\ AfterSrc.dir = Top.dir
      /\ Placed(AfterSrc) /\ Apart(AfterSrc) /\ PastLast(AfterSrc)
      /\ q \in listed["src"] \cup listed["dst"] /\ IsItem(q, AfterSrc.dir) /\ ~Behind(Top, q)
      /\ \A x : Behind(AfterSrc, x) <=> Behind(Top, x) \/ x = q
      /\ Diff!Verdict(q) = {v}
  BY <1>1, BehindSrc
<1>3. v \in Sayings
  BY DEF Sayings
<1>4. Diff!Say(v, q)
  OBVIOUS
<1> HIDE DEF q, v
<1>5. QED
  BY <1>2, <1>3, <1>4, SayStep

LEMMA PastDstStep == DiffInv /\ Diff!PastDst => DiffInv'
<1> SUFFICES ASSUME DiffInv, Diff!PastDst
             PROVE  DiffInv'
  OBVIOUS
<1>1. Diff!Running /\ frames # <<>> /\ Diff!HasItem /\ Diff!Rest /\ over' = over
  BY DEF Diff!PastDst
<1>2. /\ DiffTypes /\ OverInv /\ Walk(frames) /\ Said(frames, out) /\ TopInLists
      /\ Diff!Frame = Top /\ Diff!Dst = DstList /\ Diff!Item = SrcList[Top.item] /\ Top.item <= Len(SrcList)
  BY <1>1, TopIsRead
<1>3. CASE Len(DstList) <= Top.pos
  <2>1. (Top.pos + 1)..Len(DstList) = {}
    BY <1>2, <1>3 DEF TopInLists
  <2>2. Diff!Say("only in src", SrcList[Top.item]) /\ Diff!Set(AfterSrc)
    BY <1>2, <1>3 DEF Diff!PastDst, AfterSrc
  <2>3. \A j \in (Top.pos + 1)..Len(DstList) : Diff!Last(SrcList[Top.item]) < Diff!Last(DstList[j])
    BY <2>1
  <2>4. QED
    BY <1>1, <1>2, <2>2, <2>3, SrcSaidStep
<1>4. CASE ~(Len(DstList) <= Top.pos)
  <2> DEFINE g == [Top EXCEPT !.inner = TRUE]
  <2>1. Diff!Set(g) /\ out' = out
    BY <1>2, <1>4 DEF Diff!PastDst
  <2>2. g \in Frames /\ g.dir = Top.dir /\ g.item = Top.item /\ g.pos = Top.pos
    BY <1>2 DEF TopInLists, Frames
  <2> HIDE DEF g
  <2>3. Placed(g) /\ Apart(g) /\ \A x : Behind(g, x) <=> Behind(Top, x)
    BY <1>2, <2>2 DEF TopInLists, Placed, Apart, Behind
  <2>4. PastLast(g)
    <3>1. g.pos # Len(DstList)
      BY <1>2, <1>4, <2>2 DEF TopInLists
    <3>2. QED
      BY <2>2, <3>1 DEF PastLast, DstList
  <2> DEFINE r == <<g>> \o Tail(frames)
  <2>5. r \in Seq(Frames) /\ Walk(r) /\ Said(r, out)
    BY <1>1, <1>2, <2>2, <2>3, <2>4, TopStays DEF Top
  <2>6. r # <<>> /\ frames' = r
    <3>1. Tail(frames) \in Seq(Frames)
      BY <1>1, <1>2, HeadTailProperties DEF DiffTypes
    <3>2. Tail(frames) \in Seq(Frames) /\ frames' = r
      BY <2>1, <3>1 DEF Diff!Set
    <3>3. QED
      BY <2>2, <3>2, NotEmpty
  <2> HIDE DEF r
  <2>7. out' \in Seq(Sayings \X Seq(Int)) /\ Walk(frames') /\ Said(frames', out')
    BY <1>2, <2>1, <2>5, <2>6 DEF DiffTypes
  <2>8. QED
    BY <1>1, <1>2, <2>5, <2>6, <2>7, WalkStep DEF Diff!Rest
<1>5. QED
  BY <1>3, <1>4

LEMMA SameStep == DiffInv /\ Diff!Same => DiffInv'
<1> SUFFICES ASSUME DiffInv, Diff!Same
             PROVE  DiffInv'
  OBVIOUS
<1>1. Diff!Running /\ frames # <<>> /\ Diff!HasItem /\ Diff!Rest /\ over' = over
  BY DEF Diff!Same, Diff!Inner
<1>2. /\ DiffTypes /\ OverInv /\ Walk(frames) /\ Said(frames, out) /\ TopInLists
      /\ Diff!Frame = Top /\ Diff!Dst = DstList /\ Diff!Item = SrcList[Top.item] /\ Top.item <= Len(SrcList)
      /\ Diff!Other = DstList[Top.pos + 1]
  BY <1>1, TopIsRead
<1>3. Top.pos < Len(DstList) /\ SrcList[Top.item] = DstList[Top.pos + 1]
  BY <1>2 DEF Diff!Same
<1> DEFINE q == SrcList[Top.item]
           g == AfterBoth
<1>4. /\ g \in Frames /\ g.dir = Top.dir /\ Placed(g) /\ Apart(g) /\ PastLast(g)
      /\ q \in listed["src"] \cap listed["dst"] /\ IsItem(q, g.dir) /\ ~Behind(Top, q)
      /\ \A x : Behind(g, x) <=> Behind(Top, x) \/ x = q
  BY <1>1, <1>2, <1>3, BehindBoth
<1>5. CASE tree["src"][q].file /\ tree["dst"][q].file
  <2> DEFINE v == IF tree["src"][q].length = tree["dst"][q].length THEN "file match" ELSE "file size not match"
  <2>1. Diff!Say(v, q) /\ Diff!Set(g)
    BY <1>2, <1>5 DEF Diff!Same, AfterBoth
  <2>2. v = "file match" \/ v = "file size not match"
    OBVIOUS
  <2>3. v \in Sayings
    BY <2>2 DEF Sayings
  <2>4. Diff!Verdict(q) = {v}
    BY <1>4, <1>5 DEF Diff!Verdict
  <2> HIDE DEF q, g, v
  <2>5. QED
    BY <1>1, <1>4, <2>1, <2>3, <2>4, SayStep
<1>6. CASE ~(tree["src"][q].file /\ tree["dst"][q].file)
  <2> DEFINE r == <<[dir |-> q, item |-> 1, pos |-> 0, inner |-> FALSE], g>> \o Tail(frames)
  <2>1. frames' = r /\ out' = out
    BY <1>2, <1>6 DEF Diff!Same, AfterBoth
  <2>2. Diff!Verdict(q) = {}
    BY <1>4, <1>6 DEF Diff!Verdict
  <2> HIDE DEF q, g
  <2>3. r \in Seq(Frames) /\ Walk(r) /\ Said(r, out)
    BY <1>1, <1>2, <1>4, <2>2, GoesInto DEF Top
  <2>4. r # <<>>
    <3>1. Tail(frames) \in Seq(Frames)
      BY <1>1, <1>2, HeadTailProperties DEF DiffTypes
    <3>2. [dir |-> q, item |-> 1, pos |-> 0, inner |-> FALSE] \in Frames
      BY <1>4 DEF Frames, IsItem
    <3>3. QED
      BY <1>4, <3>1, <3>2, NotEmpty
  <2> HIDE DEF r
  <2>5. out' \in Seq(Sayings \X Seq(Int)) /\ Walk(frames') /\ Said(frames', out')
    BY <1>2, <2>1, <2>3 DEF DiffTypes
  <2>6. QED
    BY <1>1, <1>2, <2>1, <2>3, <2>4, <2>5, WalkStep DEF Diff!Rest
<1>7. QED
  BY <1>5, <1>6

LEMMA OnlyInSrcStep == DiffInv /\ Diff!OnlyInSrc => DiffInv'
<1> SUFFICES ASSUME DiffInv, Diff!OnlyInSrc
             PROVE  DiffInv'
  OBVIOUS
<1>1. Diff!Running /\ frames # <<>> /\ Diff!HasItem /\ Diff!Rest /\ over' = over
  BY DEF Diff!OnlyInSrc, Diff!Inner
<1>2. /\ DiffTypes /\ Walk(frames) /\ TopInLists
      /\ Diff!Frame = Top /\ Diff!Dst = DstList /\ Diff!Item = SrcList[Top.item] /\ Top.item <= Len(SrcList)
      /\ Diff!Other = DstList[Top.pos + 1]
  BY <1>1, TopIsRead
<1>3. /\ Top.pos < Len(DstList) /\ Diff!Last(SrcList[Top.item]) < Diff!Last(DstList[Top.pos + 1])
      /\ Diff!Say("only in src", SrcList[Top.item]) /\ Diff!Set(AfterSrc)
  BY <1>2 DEF Diff!OnlyInSrc, AfterSrc
<1>4. ASSUME NEW j \in (Top.pos + 1)..Len(DstList)
      PROVE  Diff!Last(SrcList[Top.item]) < Diff!Last(DstList[j])
  <2>0. Top.pos \in Nat /\ Len(DstList) \in Nat /\ Top.pos < Len(DstList)
    BY <1>2, <1>3 DEF TopInLists
  <2>1. j \in 1..Len(DstList) /\ Top.pos + 1 \in 1..Len(DstList) /\ (j = Top.pos + 1 \/ Top.pos + 1 < j)
    BY <2>0
  <2>2. Top.item \in 1..Len(SrcList)
    BY <1>2 DEF TopInLists
  <2>3. /\ Diff!Last(SrcList[Top.item]) \in Int /\ Diff!Last(DstList[j]) \in Int
        /\ Diff!Last(DstList[Top.pos + 1]) \in Int
    BY <1>2, <2>1, <2>2 DEF TopInLists
  <2>4. j = Top.pos + 1 \/ Diff!Last(DstList[Top.pos + 1]) < Diff!Last(DstList[j])
    BY <1>2, <2>1 DEF TopInLists
  <2>5. Diff!Last(SrcList[Top.item]) < Diff!Last(DstList[Top.pos + 1])
    BY <1>3
  <2>6. QED
    BY <2>3, <2>4, <2>5
<1>5. QED
  BY <1>1, <1>2, <1>3, <1>4, SrcSaidStep

\* SkipDst, where what is left of src comes after the next item of dst.
LEMMA SkipDstStep ==
  ASSUME DiffInv, Diff!Running, frames # <<>>, Top.pos < Len(DstList), Diff!SkipDst,
         \A i \in Top.item..Len(SrcList) : Diff!Last(DstList[Top.pos + 1]) < Diff!Last(SrcList[i])
  PROVE  DiffInv'
<1>1. /\ DiffTypes /\ Walk(frames) /\ Diff!Frame = Top /\ Diff!Other = DstList[Top.pos + 1]
  BY TopIsRead
<1>2. /\ Diff!Say("only in dst", DstList[Top.pos + 1]) /\ Diff!Set(AfterDst)
      /\ over' = over /\ Diff!Rest
  BY <1>1 DEF Diff!SkipDst, AfterDst
<1> DEFINE q == DstList[Top.pos + 1]
           v == "only in dst"
<1>3. /\ AfterDst \in Frames /\ AfterDst.dir = Top.dir
      /\ Placed(AfterDst) /\ Apart(AfterDst) /\ PastLast(AfterDst)
      /\ q \in listed["src"] \cup listed["dst"] /\ IsItem(q, AfterDst.dir) /\ ~Behind(Top, q)
      /\ \A x : Behind(AfterDst, x) <=> Behind(Top, x) \/ x = q
      /\ Diff!Verdict(q) = {v}
  BY <1>1, BehindDst
<1>4. v \in Sayings
  BY DEF Sayings
<1>5. Diff!Say(v, q)
  BY <1>2
<1> HIDE DEF q, v
<1>6. QED
  BY <1>2, <1>3, <1>4, <1>5, SayStep

LEMMA OnlyInDstStep == DiffInv /\ (Diff!OnlyInDst \/ Diff!LeftInDst) => DiffInv'
<1> SUFFICES ASSUME DiffInv, Diff!OnlyInDst \/ Diff!LeftInDst
             PROVE  DiffInv'
  OBVIOUS
<1>1. Diff!Running /\ frames # <<>> /\ Diff!SkipDst
  BY DEF Diff!OnlyInDst, Diff!LeftInDst, Diff!Inner
<1>2. /\ TopInLists /\ Diff!Frame = Top /\ Diff!Dst = DstList /\ Diff!Item = SrcList[Top.item]
      /\ (Diff!HasItem <=> Top.item <= Len(SrcList)) /\ Diff!Other = DstList[Top.pos + 1]
  BY <1>1, TopIsRead
<1>3. Top.pos < Len(DstList)
  BY <1>2 DEF Diff!OnlyInDst, Diff!LeftInDst
<1>4. ASSUME NEW i \in Top.item..Len(SrcList)
      PROVE  Diff!Last(DstList[Top.pos + 1]) < Diff!Last(SrcList[i])
  <2>1. Top.item <= Len(SrcList) /\ Top.item \in 1..Len(SrcList) /\ i \in 1..Len(SrcList) /\ (i = Top.item \/ Top.item < i)
    BY <1>2 DEF TopInLists
  <2>2. Top.pos + 1 \in 1..Len(DstList)
    BY <1>2, <1>3 DEF TopInLists
  <2>3. Diff!Last(SrcList[Top.item]) > Diff!Last(DstList[Top.pos + 1])
    BY <1>2, <2>1 DEF Diff!OnlyInDst, Diff!LeftInDst
  <2>4. /\ Diff!Last(SrcList[Top.item]) \in Int /\ Diff!Last(SrcList[i]) \in Int
        /\ Diff!Last(DstList[Top.pos + 1]) \in Int
    BY <1>2, <2>1, <2>2 DEF TopInLists
  <2>5. i = Top.item \/ Diff!Last(SrcList[Top.item]) < Diff!Last(SrcList[i])
    BY <1>2, <2>1 DEF TopInLists
  <2>6. QED
    BY <2>3, <2>4, <2>5
<1>5. QED
  BY <1>1, <1>3, <1>4, SkipDstStep

LEMMA EndStep == DiffInv /\ (Diff!PastEnd \/ Diff!Return) => DiffInv'
<1> SUFFICES ASSUME DiffInv, Diff!PastEnd \/ Diff!Return
             PROVE  DiffInv'
  OBVIOUS
<1>1. Diff!Running /\ frames # <<>> /\ Diff!Rest /\ out' = out
  BY DEF Diff!PastEnd, Diff!Return, Diff!Inner
<1>2. /\ DiffTypes /\ OverInv /\ Walk(frames) /\ Said(frames, out) /\ TopInLists
      /\ Diff!Frame = Top /\ Diff!Dst = DstList /\ (Diff!HasItem <=> Top.item <= Len(SrcList))
  BY <1>1, TopIsRead
<1>3. tree' = tree /\ listed' = listed /\ todo' = todo /\ todo' = <<>> /\ unlisted' = unlisted
  BY <1>1 DEF Diff!Rest, Diff!Running
<1>4. CASE Diff!PastEnd
  <2>1. frames' = frames /\ over' = "IndexError" /\ Top.inner /\ Top.pos = Len(DstList) /\ Top.item <= Len(SrcList)
    BY <1>2, <1>4 DEF Diff!PastEnd, Diff!Inner
  <2>2. DiffTypes'
    BY <1>1, <1>2, <1>3, <2>1 DEF DiffTypes
  <2>3. OverInv'
    BY <1>1, <1>3, <2>1 DEF OverInv, Top, SrcList, DstList, Src, Dst, Diff!Subdir
  <2>4. (Walk(frames) /\ Said(frames, out))'
    BY <1>1, <1>2, <1>3, <2>1, ListsStay
  <2>5. QED
    BY <2>2, <2>3, <2>4 DEF DiffInv
<1>5. CASE Diff!Return
  <2>1. /\ frames' = Tail(frames) /\ over' = (IF Tail(frames) = <<>> THEN "done" ELSE "")
        /\ ~(Top.item <= Len(SrcList)) /\ Top.pos = Len(DstList) /\ over' \in {"done", ""}
    BY <1>2, <1>5 DEF Diff!Return
  <2>2. frames' \in Seq(Frames) /\ Walk(frames') /\ Said(frames', out')
    BY <1>1, <1>2, <2>1, Returns
  <2>3. DiffTypes'
    BY <1>1, <1>2, <1>3, <2>1, <2>2 DEF DiffTypes
  <2>4. OverInv'
    BY <1>3, <2>1 DEF OverInv
  <2>5. (Walk(frames) /\ Said(frames, out))'
    BY <1>3, <2>2, ListsStay
  <2>6. QED
    BY <2>3, <2>4, <2>5 DEF DiffInv
<1>6. QED
  BY <1>4, <1>5

LEMMA DiffStep == DiffInv /\ [Diff!Next]_Diff!diffVars => DiffInv'
<1> SUFFICES ASSUME DiffInv, [Diff!Next]_Diff!diffVars
             PROVE  DiffInv'
  OBVIOUS
<1>1. CASE UNCHANGED Diff!diffVars
  <2>1. /\ tree' = tree /\ listed' = listed /\ todo' = todo /\ unlisted' = unlisted /\ frames' = frames
        /\ over' = over /\ out' = out
    BY <1>1 DEF Diff!diffVars
  <2>2. DiffTypes' /\ OverInv'
    BY <2>1 DEF DiffInv, DiffTypes, OverInv, Src, Dst, Diff!Subdir, FirstFrames, Diff!Root
  <2>3. (Walk(frames) /\ Said(frames, out))'
    BY <2>1, ListsStay DEF DiffInv
  <2>4. QED
    BY <2>2, <2>3 DEF DiffInv
<1>2. CASE Diff!Next
  BY <1>2, Lists, PastDstStep, EndStep, SameStep, OnlyInSrcStep, OnlyInDstStep DEF Diff!Next
<1>3. QED
  BY <1>1, <1>2

LEMMA Diffs == Spec => [](part = "diff" => DiffInv)
<1>1. Init => (part = "diff" => DiffInv)
  BY DiffInit DEF Init
<1>2. (part = "diff" => DiffInv) /\ [Next]_vars => (part = "diff" => DiffInv)'
  BY DiffStep, PartsStayApart
<1>3. QED
  BY <1>1, <1>2, PTL DEF Spec

\* The lines are what is to be said of the paths that have been passed, and at
\* the end of the walk those are all.
LEMMA InvGivesReport == DiffInv => Diff!ReportIsExact
<1> SUFFICES ASSUME DiffInv
             PROVE  Diff!ReportIsExact
  OBVIOUS
<1> DEFINE all == UNION {Diff!Verdict(p) \X {p} : p \in Diff!Met}
<1>1. Said(frames, out) /\ OverInv
  BY DEF DiffInv
<1>2. Diff!ToSet(out) = {out[i] : i \in DOMAIN out}
  BY DEF Diff!ToSet
<1>3. Diff!ToSet(out) \subseteq all
  <2>1. ASSUME NEW i \in DOMAIN out
        PROVE  out[i] \in all
    <3>1. PICK p \in Diff!Met : out[i] \in Diff!Verdict(p) \X {p}
      BY <1>1 DEF Said
    <3>2. QED
      BY <3>1
  <2>2. QED
    BY <1>2, <2>1
<1>4. ASSUME over = "done"
      PROVE  all \subseteq Diff!ToSet(out)
  <2>1. frames = <<>>
    BY <1>1, <1>4 DEF OverInv
  <2>2. \A p : Passed(frames, p)
    BY <2>1 DEF Passed
  <2>3. ASSUME NEW p \in Diff!Met, NEW v \in Diff!Verdict(p)
        PROVE  <<v, p>> \in Diff!ToSet(out)
    <3>1. PICK i \in DOMAIN out : out[i] = <<v, p>>
      BY <1>1, <2>2 DEF Said
    <3>2. QED
      BY <1>2, <3>1
  <2>4. QED
    BY <2>3
<1>5. \A i, j \in DOMAIN out : i # j => out[i] # out[j]
  BY <1>1 DEF Said
<1>6. QED
  BY <1>3, <1>4, <1>5 DEF Diff!ReportIsExact

LEMMA InvGivesCutOff == DiffInv => Diff!CutOffBehindDst
<1> SUFFICES ASSUME DiffInv, over = "IndexError"
             PROVE  /\ Diff!Dst # <<>> /\ Diff!Last(Diff!Item) > Diff!Last(Diff!Last(Diff!Dst))
                    /\ Diff!Last(Diff!Dst) \notin listed["src"]
  BY DEF Diff!CutOffBehindDst
<1>1. frames # <<>>
  BY DEF DiffInv, OverInv
<1>2. /\ OverInv /\ TopInLists /\ Diff!Dst = DstList /\ Diff!Item = SrcList[Top.item]
  BY <1>1, TopIsRead
<1>3. Top.inner /\ Top.item <= Len(SrcList) /\ Top.pos = Len(DstList)
  BY <1>2 DEF OverInv, Top, SrcList, DstList
<1>4. Top.pos > 0 /\ DstList[Top.pos] \notin listed["src"]
  BY <1>2, <1>3 DEF TopInLists, PastLast, DstList
<1>5. Top.item \in Top.item..Len(SrcList) /\ Top.item \in 1..Len(SrcList) /\ Top.pos \in 1..Top.pos
      /\ Top.pos \in 1..Len(DstList)
  BY <1>2, <1>3, <1>4 DEF TopInLists
<1>6. Diff!Last(DstList[Top.pos]) < Diff!Last(SrcList[Top.item])
  BY <1>2, <1>5 DEF TopInLists, Apart, SrcList, DstList
<1>7. Diff!Last(DstList[Top.pos]) \in Int /\ Diff!Last(SrcList[Top.item]) \in Int
  BY <1>2, <1>5 DEF TopInLists
<1>8. Diff!Last(DstList) = DstList[Top.pos]
  BY <1>3 DEF Diff!Last
<1>9. DstList # <<>>
  BY <1>3, <1>4
<1>10. QED
  BY <1>2, <1>4, <1>6, <1>7, <1>8, <1>9

\* A comparison of two directories that ends by itself said of every path what
\* is to be said of it, once, whatever the two trees and whichever listings
\* failed; it is cut off only by an item behind all of dst, the last of which
\* src does not have (diff_path in diff.py).
THEOREM DiffsAreExact == Spec => []DiffIsExact
<1>1. DiffInv => Diff!TypeOK
  <2> SUFFICES ASSUME DiffInv
               PROVE  Diff!TypeOK
    OBVIOUS
  <2>1. DiffTypes
    BY DEF DiffInv
  <2>2. \A i \in DOMAIN frames : frames[i].pos \in Nat /\ frames[i].item \in Nat
    <3>1. frames \in Seq(Frames)
      BY <2>1 DEF DiffTypes
    <3>2. \A i \in DOMAIN frames : frames[i] \in Frames
      BY <3>1
    <3>3. QED
      BY <3>2 DEF Frames
  <2>3. QED
    BY <2>1, <2>2 DEF DiffTypes, Diff!TypeOK
<1>2. (part = "diff" => DiffInv) => DiffIsExact
  BY <1>1, InvGivesReport, InvGivesCutOff DEF DiffIsExact
<1>3. QED
  BY <1>2, Diffs, PTL

-----------------------------------------------------------------------------
(***************************************************************************)
(* The click report.  A bag is counted by the set of its copies, so that   *)
(* the order in which its elements are added up does not matter.           *)
(***************************************************************************)
CopiesOf(x, n) == {<<x, i>> : i \in 1..n}
Copies(B) == UNION {CopiesOf(x, B[x]) : x \in DOMAIN B}

IsFiniteBag(B) == Report!IsABag(B) /\ IsFiniteSet(DOMAIN B)

LEMMA BagIsTyped ==
  ASSUME NEW B, IsFiniteBag(B)
  PROVE  /\ B = [x \in DOMAIN B |-> B[x]] /\ IsFiniteSet(DOMAIN B)
         /\ \A x \in DOMAIN B : B[x] \in Nat /\ B[x] > 0
BY DEF IsFiniteBag, Report!IsABag

LEMMA CopiesOfOne ==
  ASSUME NEW x, NEW n \in Nat
  PROVE  IsFiniteSet(CopiesOf(x, n)) /\ Cardinality(CopiesOf(x, n)) = n
<1> DEFINE T == 1..n
           of == [i \in T |-> <<x, i>>]
<1>1. IsFiniteSet(T) /\ Cardinality(T) = IF 1 > n THEN 0 ELSE n - 1 + 1
  BY FS_Interval
<1>2. Cardinality(T) = n
  BY <1>1
<1>3. of \in Bijection(T, CopiesOf(x, n))
  BY DEF Bijection, Injection, Surjection, IsInjective, CopiesOf
<1> HIDE DEF T, of
<1>4. ExistsBijection(T, CopiesOf(x, n))
  BY <1>3 DEF ExistsBijection
<1>5. QED
  BY <1>1, <1>2, <1>4, FS_Bijection

LEMMA CopiesAreFinite ==
  ASSUME NEW B, IsFiniteSet(DOMAIN B), \A x \in DOMAIN B : B[x] \in Nat
  PROVE  IsFiniteSet(Copies(B))
<1> DEFINE D == DOMAIN B
           of == [x \in D |-> CopiesOf(x, B[x])]
           parts == {CopiesOf(x, B[x]) : x \in D}
<1>1. of \in Surjection(D, parts)
  BY DEF Surjection
<1>2. IsFiniteSet(parts)
  <2> HIDE DEF of, parts, D
  <2>1. IsFiniteSet(D)
    BY DEF D
  <2>2. QED
    BY <1>1, <2>1, FS_Surjection
<1>3. \A p \in parts : IsFiniteSet(p)
  <2> SUFFICES ASSUME NEW x \in D
               PROVE  IsFiniteSet(CopiesOf(x, B[x]))
    OBVIOUS
  <2>1. B[x] \in Nat
    OBVIOUS
  <2>2. QED
    BY <2>1, CopiesOfOne
<1> HIDE DEF parts
<1>4. IsFiniteSet(UNION parts)
  BY <1>2, <1>3, FS_UNION
<1>5. QED
  BY <1>4 DEF Copies, parts

LEMMA Counting ==
  ASSUME NEW B, IsFiniteSet(DOMAIN B), \A x \in DOMAIN B : B[x] \in Nat
  PROVE  Report!BagCardinality(B) = Cardinality(Copies(B))
<1> DEFINE D == DOMAIN B
           pick(s) == CHOOSE x \in s : TRUE
           step(h, s) == IF s = {} THEN 0 ELSE B[pick(s)] + h[s \ {pick(s)}]
           of(s) == UNION {CopiesOf(x, B[x]) : x \in s}
           iter == CHOOSE h : h = [s \in SUBSET D |-> step(h, s)]
           count == [s \in SUBSET D |-> Cardinality(of(s))]
<1>1. Report!BagCardinality(B) = iter[D]
  BY DEF Report!BagCardinality
<1>2. \A s \in SUBSET D : /\ IsFiniteSet(s) /\ IsFiniteSet(of(s))
                          /\ Cardinality(s) \in Nat
  <2>1. IsFiniteSet(Copies(B))
    BY CopiesAreFinite
  <2>2. \A s \in SUBSET D : of(s) \subseteq Copies(B)
    BY DEF Copies
  <2> HIDE DEF of
  <2>3. QED
    BY <2>1, <2>2, FS_Subset, FS_CardinalityType
<1>3. \A s \in SUBSET D : s # {} => /\ pick(s) \in s
                                    /\ s \ {pick(s)} \in SUBSET D
  OBVIOUS
<1>4. \A s \in SUBSET D : count[s] = step(count, s)
  <2> SUFFICES ASSUME NEW s \in SUBSET D
               PROVE  Cardinality(of(s)) = step(count, s)
    OBVIOUS
  <2>1. CASE s = {}
    <3>1. of(s) = {}
      BY <2>1
    <3>2. QED
      BY <2>1, <3>1, FS_EmptySet
  <2>2. CASE s # {}
    <3> DEFINE x == pick(s)
               r == s \ {x}
               new == CopiesOf(x, B[x])
    <3>1. x \in s /\ x \in D /\ r \in SUBSET D
      BY <1>3, <2>2
    <3>2. B[x] \in Nat /\ step(count, s) = B[x] + Cardinality(of(r))
      BY <2>2, <3>1
    <3>3. of(s) = of(r) \cup new /\ of(r) \cap new = {}
      <4> HIDE DEF x
      <4>1. s = r \cup {x} /\ x \notin r
        BY <3>1
      <4> DEFINE copy(y) == CopiesOf(y, B[y])
      <4>2. \A y : \A p \in copy(y) : p[1] = y
        BY DEF CopiesOf
      <4> HIDE DEF r, copy
      <4>3. UNION {copy(y) : y \in s} = (UNION {copy(y) : y \in r}) \cup copy(x)
        BY <4>1
      <4>4. (UNION {copy(y) : y \in r}) \cap copy(x) = {}
        BY <4>1, <4>2
      <4>5. QED
        BY <4>3, <4>4, Zenon DEF copy
    <3>4. IsFiniteSet(of(r)) /\ Cardinality(of(r)) \in Nat
      BY <1>2, <3>1, FS_CardinalityType
    <3>5. IsFiniteSet(new) /\ Cardinality(new) = B[x]
      <4> HIDE DEF x
      <4>1. QED
        BY <3>2, CopiesOfOne
    <3> HIDE DEF of, step, r, x, new
    <3>6. Cardinality(of(s)) = Cardinality(of(r)) + Cardinality(new) - Cardinality({})
      BY <3>3, <3>4, <3>5, FS_Union
    <3>7. QED
      BY <3>2, <3>4, <3>5, <3>6, FS_EmptySet
  <2>3. QED
    BY <2>1, <2>2
<1>5. count = [s \in SUBSET D |-> step(count, s)]
  <2> HIDE DEF step
  <2>1. QED
    BY <1>4
<1>6. iter = [s \in SUBSET D |-> step(iter, s)]
  <2> HIDE DEF count, step
  <2>1. QED
    BY <1>5
<1>7. \A s \in SUBSET D : iter[s] = step(iter, s)
  <2> HIDE DEF iter, step
  <2>1. QED
    BY <1>6
<1> DEFINE wrong == {s \in SUBSET D : iter[s] # count[s]}
           sizes == {Cardinality(s) : s \in wrong}
<1>8. ASSUME wrong # {}
      PROVE  FALSE
  <2> HIDE DEF iter, count, step
  <2>1. sizes \subseteq Nat /\ sizes # {}
    BY <1>2, <1>8
  <2>2. PICK n \in sizes : \A m \in sizes : n <= m
    <3> HIDE DEF sizes
    <3>1. QED
      BY <2>1, SmallestOf
  <2>3. PICK s \in wrong : n = Cardinality(s)
    OBVIOUS
  <2>4. s \in SUBSET D /\ iter[s] # count[s]
    BY <2>3
  <2>5. s # {}
    <3>1. step(iter, {}) = step(count, {})
      BY DEF step
    <3>2. QED
      BY <1>4, <1>7, <2>4, <3>1
  <2> DEFINE r == s \ {pick(s)}
  <2>6. pick(s) \in s /\ r \in SUBSET D
    BY <1>3, <2>4, <2>5
  <2>7. Cardinality(r) < Cardinality(s)
    <3> HIDE DEF pick
    <3>1. IsFiniteSet(s) /\ Cardinality(s) \in Nat
      BY <1>2, <2>4
    <3>2. Cardinality(r) = Cardinality(s) - 1
      BY <2>6, <3>1, FS_RemoveElement
    <3>3. QED
      BY <3>1, <3>2
  <2>8. r \notin wrong
    <3>1. Cardinality(r) \in Nat /\ Cardinality(s) \in Nat
      BY <1>2, <2>4, <2>6
    <3>2. r \in wrong => Cardinality(r) \in sizes
      OBVIOUS
    <3> HIDE DEF sizes, wrong, r
    <3>3. QED
      BY <2>2, <2>3, <2>7, <3>1, <3>2
  <2>9. iter[r] = count[r]
    BY <2>6, <2>8
  <2>10. step(iter, s) = step(count, s)
    BY <2>5, <2>9 DEF step
  <2>11. QED
    BY <1>4, <1>7, <2>4, <2>10
<1>9. iter[D] = count[D]
  <2> HIDE DEF iter, count
  <2>1. QED
    BY <1>8
<1>10. QED
  BY <1>1, <1>9 DEF Copies

LEMMA CountIsNat ==
  ASSUME NEW B, IsFiniteBag(B)
  PROVE  /\ IsFiniteSet(Copies(B)) /\ Cardinality(Copies(B)) \in Nat
         /\ Report!BagCardinality(B) = Cardinality(Copies(B))
         /\ Report!BagCardinality(B) \in Nat
<1>1. IsFiniteSet(DOMAIN B) /\ \A x \in DOMAIN B : B[x] \in Nat
  BY BagIsTyped
<1>2. QED
  BY <1>1, Counting, CopiesAreFinite, FS_CardinalityType

(* C has, besides the elements of B, one copy of each element of S.        *)
Gains(C, B, S) ==
  /\ IsFiniteBag(C) /\ DOMAIN C = DOMAIN B \cup S
  /\ \A x \in DOMAIN C : C[x] = (IF x \in DOMAIN B THEN B[x] ELSE 0)
                                  + (IF x \in S THEN 1 ELSE 0)
  /\ Report!BagCardinality(C) = Report!BagCardinality(B) + Cardinality(S)

LEMMA BagGains ==
  ASSUME NEW B, IsFiniteBag(B), NEW S, IsFiniteSet(S),
         NEW C, C = Report!(+)(B, Report!SetToBag(S))
  PROVE  Gains(C, B, S)
<1>1. C = [x \in DOMAIN B \cup S |-> (IF x \in DOMAIN B THEN B[x] ELSE 0)
                                       + (IF x \in S THEN 1 ELSE 0)]
  BY DEF Report!(+), Report!SetToBag
<1>2. /\ DOMAIN C = DOMAIN B \cup S
      /\ \A x \in DOMAIN C : C[x] = (IF x \in DOMAIN B THEN B[x] ELSE 0)
                                      + (IF x \in S THEN 1 ELSE 0)
  BY <1>1
<1>3. IsFiniteSet(DOMAIN B) /\ \A x \in DOMAIN B : B[x] \in Nat /\ B[x] > 0
  BY BagIsTyped
<1>4. \A x \in DOMAIN C : C[x] \in Nat /\ C[x] > 0
  BY <1>2, <1>3
<1>5. IsFiniteBag(C)
  <2>1. IsFiniteSet(DOMAIN C)
    BY <1>2, <1>3, FS_Union
  <2>2. C = [x \in DOMAIN C |-> C[x]]
    BY <1>1, <1>2
  <2>3. QED
    BY <1>4, <2>1, <2>2 DEF IsFiniteBag, Report!IsABag
<1> DEFINE place == [x \in S |-> <<x, C[x]>>]
           new == {<<x, C[x]>> : x \in S}
<1>6. IsFiniteSet(new) /\ Cardinality(new) = Cardinality(S)
  <2>1. place \in Bijection(S, new)
    BY DEF Bijection, Injection, Surjection, IsInjective
  <2> HIDE DEF place, new
  <2>2. ExistsBijection(S, new)
    BY <2>1 DEF ExistsBijection
  <2>3. QED
    BY <2>2, FS_Bijection
<1>7. \A x \in DOMAIN C :
        CopiesOf(x, C[x]) = (IF x \in DOMAIN B THEN CopiesOf(x, B[x]) ELSE {})
                              \cup (IF x \in S THEN {<<x, C[x]>>} ELSE {})
  <2> SUFFICES ASSUME NEW x \in DOMAIN C
               PROVE  CopiesOf(x, C[x]) =
                        (IF x \in DOMAIN B THEN CopiesOf(x, B[x]) ELSE {})
                          \cup (IF x \in S THEN {<<x, C[x]>>} ELSE {})
    OBVIOUS
  <2> DEFINE b == IF x \in DOMAIN B THEN B[x] ELSE 0
             c == C[x]
  <2>1. b \in Nat /\ c = b + (IF x \in S THEN 1 ELSE 0)
    BY <1>2, <1>3
  <2>2. (IF x \in DOMAIN B THEN CopiesOf(x, B[x]) ELSE {}) = CopiesOf(x, b)
    BY DEF CopiesOf
  <2>3. CopiesOf(x, c) = CopiesOf(x, b) \cup (IF x \in S THEN {<<x, c>>} ELSE {})
    <3> HIDE DEF b, c
    <3>1. 1..c = 1..b \cup (IF x \in S THEN {c} ELSE {})
      BY <2>1
    <3>2. QED
      BY <3>1 DEF CopiesOf
  <2> HIDE DEF b
  <2>4. QED
    BY <2>2, <2>3
<1>8. Copies(C) = Copies(B) \cup new
  <2> DEFINE b(x) == CopiesOf(x, B[x])
             c(x) == CopiesOf(x, C[x])
             n(x) == <<x, C[x]>>
  <2>1. \A x \in DOMAIN C : c(x) = (IF x \in DOMAIN B THEN b(x) ELSE {})
                                     \cup (IF x \in S THEN {n(x)} ELSE {})
    BY <1>7
  <2> HIDE DEF b, c, n
  <2>2. UNION {c(x) : x \in DOMAIN C}
          = (UNION {b(x) : x \in DOMAIN B}) \cup {n(x) : x \in S}
    BY <1>2, <2>1
  <2>3. QED
    BY <2>2, Zenon DEF b, c, n, Copies
<1>9. Copies(B) \cap new = {}
  <2>1. \A x \in DOMAIN B : \A p \in CopiesOf(x, B[x]) : p[1] = x /\ p[2] \in Int /\ p[2] <= B[x]
    BY DEF CopiesOf
  <2>2. \A x \in S : x \in DOMAIN B => C[x] > B[x] /\ C[x] \in Int /\ B[x] \in Int
    BY <1>2, <1>3
  <2>3. QED
    BY <2>1, <2>2 DEF Copies
<1>10. Cardinality(Copies(C)) = Cardinality(Copies(B)) + Cardinality(new)
  <2>1. IsFiniteSet(Copies(B)) /\ Cardinality(Copies(B)) \in Nat /\ Cardinality(new) \in Nat
    BY <1>6, CountIsNat, FS_CardinalityType
  <2> HIDE DEF new
  <2>2. Cardinality(Copies(C)) = Cardinality(Copies(B)) + Cardinality(new) - Cardinality({})
    BY <1>6, <1>8, <1>9, <2>1, FS_Union
  <2>3. QED
    BY <2>1, <2>2, FS_EmptySet
<1>11. QED
  BY <1>2, <1>5, <1>6, <1>10, CountIsNat DEF Gains

(* C has one copy of x less than B.                                        *)
Loses(C, B, x) ==
  /\ IsFiniteBag(C)
  /\ DOMAIN C = IF B[x] = 1 THEN DOMAIN B \ {x} ELSE DOMAIN B
  /\ \A y \in DOMAIN C : C[y] = IF y = x THEN B[x] - 1 ELSE B[y]
  /\ Report!BagCardinality(C) = Report!BagCardinality(B) - 1

LEMMA BagLoses ==
  ASSUME NEW B, IsFiniteBag(B), NEW x \in DOMAIN B,
         NEW C, C = Report!(-)(B, Report!SetToBag({x}))
  PROVE  Loses(C, B, x)
<1>1. IsFiniteSet(DOMAIN B) /\ \A y \in DOMAIN B : B[y] \in Nat /\ B[y] > 0
  BY BagIsTyped
<1> DEFINE less == [y \in DOMAIN B |-> IF y \in {x} THEN B[y] - 1 ELSE B[y]]
<1>2. C = [y \in {y \in DOMAIN less : less[y] > 0} |-> less[y]]
  BY DEF Report!(-), Report!SetToBag
<1>3. DOMAIN C = IF B[x] = 1 THEN DOMAIN B \ {x} ELSE DOMAIN B
  <2>1. DOMAIN C = {y \in DOMAIN B : less[y] > 0}
    BY <1>2
  <2>2. \A y \in DOMAIN B : less[y] > 0 <=> y # x \/ B[x] # 1
    BY <1>1
  <2> HIDE DEF less
  <2>3. QED
    BY <2>1, <2>2
<1>4. \A y \in DOMAIN C : C[y] = IF y = x THEN B[x] - 1 ELSE B[y]
  BY <1>2
<1>5. IsFiniteBag(C)
  <2>1. IsFiniteSet(DOMAIN C)
    BY <1>1, <1>3, FS_Subset
  <2>2. \A y \in DOMAIN C : C[y] \in Nat /\ C[y] > 0
    BY <1>1, <1>3, <1>4
  <2>3. C = [y \in DOMAIN C |-> C[y]]
    BY <1>2
  <2>4. QED
    BY <2>1, <2>2, <2>3 DEF IsFiniteBag, Report!IsABag
<1> HIDE DEF less
<1> DEFINE p == <<x, B[x]>>
<1>6. p \in Copies(B)
  <2>1. p \in CopiesOf(x, B[x])
    BY <1>1 DEF CopiesOf
  <2>2. QED
    BY <2>1, Zenon DEF Copies
<1>7. \A y \in DOMAIN B :
        CopiesOf(y, B[y]) \ {p} = IF y \in DOMAIN C THEN CopiesOf(y, C[y]) ELSE {}
  <2> SUFFICES ASSUME NEW y \in DOMAIN B
               PROVE  CopiesOf(y, B[y]) \ {p} =
                        IF y \in DOMAIN C THEN CopiesOf(y, C[y]) ELSE {}
    OBVIOUS
  <2>1. CASE y # x
    <3>1. y \in DOMAIN C /\ C[y] = B[y]
      BY <1>3, <1>4, <2>1
    <3>2. p \notin CopiesOf(y, B[y])
      BY <2>1 DEF CopiesOf
    <3>3. QED
      BY <3>1, <3>2
  <2>2. CASE y = x
    <3> DEFINE b == B[x]
    <3>1. b \in Nat /\ b > 0
      BY <1>1
    <3>2. CopiesOf(x, b) \ {<<x, b>>} = CopiesOf(x, b - 1)
      <4> HIDE DEF b
      <4>1. 1..b - 1 = (1..b) \ {b}
        BY <3>1
      <4>2. QED
        BY <4>1 DEF CopiesOf
    <3>3. x \in DOMAIN C => C[x] = b - 1
      BY <1>4
    <3>4. x \notin DOMAIN C => b - 1 = 0
      BY <1>3
    <3>5. CopiesOf(x, 0) = {}
      BY DEF CopiesOf
    <3>6. QED
      BY <2>2, <3>2, <3>3, <3>4, <3>5
  <2>3. QED
    BY <2>1, <2>2
<1>8. Copies(C) = Copies(B) \ {p}
  <2> DEFINE b(y) == CopiesOf(y, B[y])
             c(y) == CopiesOf(y, C[y])
  <2>1. \A y \in DOMAIN B : b(y) \ {p} = IF y \in DOMAIN C THEN c(y) ELSE {}
    BY <1>7
  <2>2. DOMAIN C \subseteq DOMAIN B
    BY <1>3
  <2> HIDE DEF b, c, p
  <2>3. UNION {c(y) : y \in DOMAIN C} = (UNION {b(y) : y \in DOMAIN B}) \ {p}
    BY <2>1, <2>2
  <2>4. QED
    BY <2>3, Zenon DEF b, c, Copies
<1> HIDE DEF p
<1>9. Cardinality(Copies(C)) = Cardinality(Copies(B)) - 1
  BY <1>6, <1>8, CountIsNat, FS_RemoveElement
<1>10. QED
  BY <1>3, <1>4, <1>5, <1>9, CountIsNat DEF Loses

(* The rows of a hash and a type, as the reducer counts them.              *)
Of(B, key, type) ==
  [r \in {r \in DOMAIN B : r.key = key /\ r.type = type} |-> B[r]]

Tally(B, key, type) == Report!BagCardinality(Of(B, key, type))

LEMMA TallyIsNat ==
  ASSUME NEW B, IsFiniteBag(B), NEW key, NEW type
  PROVE  IsFiniteBag(Of(B, key, type)) /\ Tally(B, key, type) \in Nat
<1> DEFINE C == Of(B, key, type)
<1>1. DOMAIN C \in SUBSET DOMAIN B /\ \A r \in DOMAIN C : C[r] = B[r]
  BY DEF Of
<1>2. C = [r \in DOMAIN C |-> C[r]]
  BY DEF Of
<1> HIDE DEF C
<1>3. IsFiniteSet(DOMAIN C)
  BY <1>1, BagIsTyped, FS_Subset
<1>4. \A r \in DOMAIN C : C[r] \in Nat /\ C[r] > 0
  BY <1>1, BagIsTyped
<1>5. IsFiniteBag(C)
  BY <1>2, <1>3, <1>4 DEF IsFiniteBag, Report!IsABag
<1>6. QED
  BY <1>5, CountIsNat DEF C, Tally

\* The rows of a hash are the same in both.
Alike(B, C, key) ==
  \A r : r.key = key => /\ r \in DOMAIN B <=> r \in DOMAIN C
                        /\ r \in DOMAIN B => B[r] = C[r]

LEMMA TallyIsSame ==
  ASSUME NEW B, NEW C, NEW key, NEW type, Alike(B, C, key)
  PROVE  Tally(B, key, type) = Tally(C, key, type)
<1>1. Of(B, key, type) = Of(C, key, type)
  BY DEF Alike, Of
<1>2. QED
  BY <1>1 DEF Tally

LEMMA TallyIsNone ==
  ASSUME NEW B, NEW key, NEW type, \A r \in DOMAIN B : r.key # key
  PROVE  Tally(B, key, type) = 0
<1> DEFINE C == Of(B, key, type)
<1>1. DOMAIN C = {}
  BY DEF Of
<1> HIDE DEF C
<1>2. Copies(C) = {}
  BY <1>1 DEF Copies
<1>3. Report!BagCardinality(C) = Cardinality(Copies(C))
  BY <1>1, FS_EmptySet, Counting
<1>4. QED
  BY <1>2, <1>3, FS_EmptySet DEF C, Tally

LEMMA TallyLoses ==
  ASSUME NEW B, IsFiniteBag(B), NEW x \in DOMAIN B, NEW key, NEW type,
         NEW C, C = Report!(-)(B, Report!SetToBag({x}))
  PROVE  Tally(C, key, type) = Tally(B, key, type)
                                 - (IF x.key = key /\ x.type = type THEN 1 ELSE 0)
<1> DEFINE b == Of(B, key, type)
           c == Of(C, key, type)
<1>1. /\ DOMAIN C = IF B[x] = 1 THEN DOMAIN B \ {x} ELSE DOMAIN B
      /\ \A y \in DOMAIN C : C[y] = IF y = x THEN B[x] - 1 ELSE B[y]
  BY BagLoses DEF Loses
<1>2. CASE ~(x.key = key /\ x.type = type)
  <2>1. c = b
    BY <1>1, <1>2 DEF Of
  <2>2. Tally(C, key, type) = Tally(B, key, type)
    BY <2>1, Zenon DEF Tally
  <2>3. QED
    BY <1>2, <2>2, TallyIsNat
<1>3. CASE x.key = key /\ x.type = type
  <2>1. x \in DOMAIN b /\ b[x] = B[x]
    BY <1>3 DEF Of
  <2> DEFINE d == Report!(-)(b, Report!SetToBag({x}))
  <2>2. IsFiniteBag(b)
    BY TallyIsNat
  <2>3. /\ DOMAIN d = IF b[x] = 1 THEN DOMAIN b \ {x} ELSE DOMAIN b
        /\ \A y \in DOMAIN d : d[y] = IF y = x THEN b[x] - 1 ELSE b[y]
        /\ Report!BagCardinality(d) = Report!BagCardinality(b) - 1
        /\ IsFiniteBag(d)
    <3> HIDE DEF b
    <3>1. QED
      BY <2>1, <2>2, BagLoses DEF Loses
  <2>4. d = [y \in DOMAIN d |-> d[y]]
    <3> HIDE DEF d
    <3>1. QED
      BY <2>3, BagIsTyped
  <2> HIDE DEF d
  <2>5. \A y : y \in DOMAIN b <=> y \in DOMAIN B /\ y.key = key /\ y.type = type
    BY DEF Of
  <2>6. \A y : y \in DOMAIN c <=> y \in DOMAIN C /\ y.key = key /\ y.type = type
    BY DEF Of
  <2>7. (\A y \in DOMAIN b : b[y] = B[y]) /\ \A y \in DOMAIN c : c[y] = C[y]
    BY DEF Of
  <2>8. c = [y \in DOMAIN c |-> c[y]]
    BY DEF Of
  <2> HIDE DEF b, c
  <2>9. DOMAIN c = DOMAIN d
    BY <1>1, <1>3, <2>1, <2>3, <2>5, <2>6
  <2>10. \A y \in DOMAIN d : c[y] = d[y]
    BY <1>1, <2>1, <2>3, <2>5, <2>6, <2>7, <2>9
  <2>11. c = d
    BY <2>4, <2>8, <2>9, <2>10
  <2>12. QED
    BY <1>3, <2>3, <2>11 DEF b, c, Tally
<1>4. QED
  BY <1>2, <1>3
-----------------------------------------------------------------------------
(***************************************************************************)
(* Messages.  A decoder finds the data of a field again because no other   *)
(* field of the class has its number.                                      *)
(***************************************************************************)
IsSeq(s) == \E n \in Nat : DOMAIN s = 1..n /\ s = [k \in 1..n |-> s[k]]

LEMMA SeqIsTyped ==
  ASSUME NEW s, IsSeq(s)
  PROVE  /\ s \in Seq({s[k] : k \in DOMAIN s}) /\ DOMAIN s = 1..Len(s) /\ Len(s) \in Nat
         /\ <<>> \o s = s /\ s \o <<>> = s
<1>1. PICK n \in Nat : DOMAIN s = 1..n /\ s = [k \in 1..n |-> s[k]]
  BY DEF IsSeq
<1> DEFINE T == {s[k] : k \in DOMAIN s}
<1>2. s \in [1..n -> T]
  BY <1>1
<1> HIDE DEF T
<1>3. s \in Seq(T)
  BY <1>2, SeqDef
<1>4. Len(s) \in Nat /\ DOMAIN s = 1..Len(s)
  BY <1>3, LenProperties
<1>5. <<>> \o s = s /\ s \o <<>> = s
  BY <1>3, ConcatEmptySeq
<1>6. QED
  BY <1>3, <1>4, <1>5 DEF T

LEMMA FlattenOfOne ==
  ASSUME NEW n \in Nat, NEW s, s = [i \in 1..n |-> s[i]], NEW k \in 1..n,
         IsSeq(s[k]), \A i \in 1..n : i # k => s[i] = <<>>
  PROVE  Report!FlattenSeq(s) = s[k]
<1> DEFINE step(h, i) == IF i = 1 THEN s[i] ELSE h[i - 1] \o s[i]
           flat == CHOOSE h : h = [i \in 1..n |-> step(h, i)]
           sofar == [i \in 1..n |-> IF i < k THEN <<>> ELSE s[k]]
<1>1. Len(s) = n /\ n # 0
  <2> DEFINE T == {s[i] : i \in 1..n}
  <2>1. s \in [1..n -> T]
    OBVIOUS
  <2> HIDE DEF T
  <2>2. s \in Seq(T) /\ Len(s) = n
    BY <2>1, SeqDef, LenProperties
  <2>3. QED
    BY <2>2
<1>2. Report!FlattenSeq(s) = flat[n]
  BY <1>1 DEF Report!FlattenSeq
<1>3. \A i \in 1..n : sofar[i] = step(sofar, i)
  <2> SUFFICES ASSUME NEW i \in 1..n
               PROVE  sofar[i] = step(sofar, i)
    OBVIOUS
  <2>1. <<>> \o <<>> = <<>> /\ <<>> \o s[k] = s[k] /\ s[k] \o <<>> = s[k]
    BY SeqIsTyped, ConcatEmptySeq
  <2>2. CASE i = 1
    BY <2>2
  <2>3. CASE i # 1
    <3>1. i - 1 \in 1..n /\ (i - 1 < k <=> i <= k)
      BY <2>3
    <3>2. step(sofar, i) = (IF i <= k THEN <<>> ELSE s[k]) \o s[i]
      BY <2>3, <3>1
    <3>0. sofar[i] = IF i < k THEN <<>> ELSE s[k]
      OBVIOUS
    <3> HIDE DEF step, sofar
    <3>3. CASE i < k
      <4>1. step(sofar, i) = <<>> \o <<>> /\ sofar[i] = <<>>
        BY <3>0, <3>2, <3>3
      <4>2. QED
        BY <2>1, <4>1
    <3>4. CASE i = k
      <4>1. (IF i <= k THEN <<>> ELSE s[k]) = <<>> /\ s[i] = s[k] /\ sofar[i] = s[k]
        BY <3>0, <3>4
      <4>2. QED
        BY <2>1, <3>2, <4>1, Zenon
    <3>5. CASE i > k
      <4>1. (IF i <= k THEN <<>> ELSE s[k]) = s[k] /\ s[i] = <<>> /\ sofar[i] = s[k]
        BY <3>0, <3>5
      <4>2. QED
        BY <2>1, <3>2, <4>1, Zenon
    <3>6. QED
      BY <3>3, <3>4, <3>5
  <2>4. QED
    BY <2>2, <2>3
<1>4. sofar = [i \in 1..n |-> step(sofar, i)]
  <2> HIDE DEF step
  <2>1. QED
    BY <1>3
<1>5. flat = [i \in 1..n |-> step(flat, i)]
  <2> HIDE DEF sofar, step
  <2>1. QED
    BY <1>4
<1>6. \A i \in 1..n : flat[i] = step(flat, i)
  <2> HIDE DEF flat, step
  <2>1. QED
    BY <1>5
<1> DEFINE wrong == {i \in 1..n : flat[i] # sofar[i]}
<1>7. ASSUME wrong # {}
      PROVE  FALSE
  <2> HIDE DEF flat, sofar, step
  <2>1. wrong \subseteq Nat
    OBVIOUS
  <2>2. PICK i \in wrong : \A j \in wrong : i <= j
    <3> HIDE DEF wrong
    <3>1. QED
      BY <1>7, <2>1, SmallestOf
  <2>3. i \in 1..n /\ flat[i] # sofar[i]
    OBVIOUS
  <2>4. i # 1
    BY <1>3, <1>6, <2>3 DEF step
  <2>5. i - 1 \in 1..n /\ i - 1 \notin wrong
    BY <2>2, <2>3, <2>4
  <2>6. flat[i - 1] = sofar[i - 1]
    BY <2>5
  <2>7. QED
    BY <1>3, <1>6, <2>3, <2>4, <2>6 DEF step
<1>8. flat[n] = sofar[n]
  <2>1. n \in 1..n
    OBVIOUS
  <2> HIDE DEF flat, sofar
  <2>2. QED
    BY <1>7, <2>1
<1>9. sofar[n] = s[k]
  OBVIOUS
<1>10. QED
  BY <1>2, <1>8, <1>9

(* A class whose fields have numbers of their own.                         *)
Numbered(class) ==
  \E n \in Nat :
    /\ DOMAIN class = 1..n
    /\ \A i, j \in 1..n : class[i].num = class[j].num => i = j

(* What a message is written as, given the data of each field.             *)
Wire(class, data) ==
  [i \in DOMAIN class |->
     [num |-> class[i].num, wt |-> Report!WireType(class[i].type), data |-> data[i]]]

LEMMA HitsAreOwn ==
  ASSUME NEW class, Numbered(class), NEW data, NEW i \in DOMAIN class, IsSeq(data[i])
  PROVE  Report!Hits(Wire(class, data), class[i]) = data[i]
<1>1. PICK n \in Nat : /\ DOMAIN class = 1..n
                       /\ \A j, k \in 1..n : class[j].num = class[k].num => j = k
  BY DEF Numbered
<1> DEFINE f == class[i]
           wire == Wire(class, data)
           s == [j \in DOMAIN wire |->
                   IF wire[j].num = f.num /\ wire[j].wt = Report!WireType(f.type)
                   THEN wire[j].data ELSE <<>>]
<1>2. Report!Hits(wire, f) = Report!FlattenSeq(s)
  BY DEF Report!Hits
<1>3. DOMAIN wire = 1..n
  BY <1>1 DEF Wire
<1>4. s = [j \in 1..n |-> s[j]] /\ i \in 1..n
  BY <1>1, <1>3
<1>5. s[i] = data[i]
  BY <1>1, <1>3 DEF Wire
<1>6. \A j \in 1..n : j # i => s[j] = <<>>
  <2> SUFFICES ASSUME NEW j \in 1..n, j # i
               PROVE  s[j] = <<>>
    OBVIOUS
  <2>1. wire[j].num = class[j].num
    BY <1>1 DEF Wire
  <2>2. QED
    BY <1>1, <1>3, <2>1
<1> HIDE DEF s, wire
<1>7. Report!FlattenSeq(s) = s[i]
  BY <1>4, <1>5, <1>6, FlattenOfOne
<1>8. QED
  BY <1>2, <1>5, <1>7 DEF wire

LEMMA FieldIsNamed ==
  ASSUME NEW class, NEW n \in Report!Names(class)
  PROVE  \E i \in DOMAIN class :
           Report!FieldNamed(class, n) = class[i] /\ class[i].name = n
<1>1. \E i \in DOMAIN class : class[i].name = n
  BY DEF Report!Names
<1>2. QED
  BY <1>1 DEF Report!FieldNamed

(* The values of a field, for each of which there is a datum.              *)
Values(f, v) == IF f.many THEN v ELSE IF v = Unset THEN <<>> ELSE <<v>>

LEMMA DataAreSeq ==
  ASSUME NEW f, NEW v, f.many => IsSeq(v),
         NEW data, data = [k \in DOMAIN Values(f, v) |-> data[k]]
  PROVE  /\ IsSeq(Values(f, v)) /\ IsSeq(data)
         /\ f.many => v = Values(f, v) /\ v = [k \in DOMAIN v |-> v[k]]
         /\ ~f.many /\ v = Unset => data = <<>>
         /\ ~f.many /\ v # Unset => /\ data # <<>> /\ 1 \in DOMAIN Values(f, v)
                                    /\ Values(f, v)[1] = v
                                    /\ Report!Last(data) = data[1]
<1> DEFINE V == Values(f, v)
<1>1. CASE f.many
  <2>1. V = v
    BY <1>1 DEF Values
  <2>2. IsSeq(v) /\ data = [k \in DOMAIN v |-> data[k]]
    BY <1>1, <2>1
  <2> HIDE DEF V
  <2>3. IsSeq(data) /\ v = [k \in DOMAIN v |-> v[k]]
    BY <2>2 DEF IsSeq
  <2>4. QED
    BY <1>1, <2>1, <2>2, <2>3 DEF V
<1>2. CASE ~f.many /\ v = Unset
  <2>1. V = <<>>
    BY <1>2 DEF Values
  <2>2. DOMAIN <<>> = 1..0 /\ <<>> = [k \in 1..0 |-> <<>>[k]]
    OBVIOUS
  <2>3. IsSeq(<<>>) /\ data = <<>>
    <3> HIDE DEF V
    <3>1. data = [k \in DOMAIN V |-> data[k]]
      BY DEF V
    <3>2. QED
      BY <2>1, <2>2, <3>1 DEF IsSeq
  <2>4. QED
    BY <1>2, <2>1, <2>3
<1>3. CASE ~f.many /\ v # Unset
  <2>1. V = <<v>>
    BY <1>3 DEF Values
  <2>2. DOMAIN <<v>> = 1..1 /\ <<v>> = [k \in 1..1 |-> <<v>>[k]]
    OBVIOUS
  <2> HIDE DEF V
  <2>3. data = [k \in 1..1 |-> data[k]]
    BY <2>1, <2>2 DEF V
  <2>4. DOMAIN data = 1..1
    BY <2>3
  <2>5. IsSeq(V) /\ IsSeq(data)
    BY <2>1, <2>2, <2>3, <2>4 DEF IsSeq
  <2>6. Len(data) = 1 /\ data # <<>>
    <3>1. Len(data) \in Nat /\ DOMAIN data = 1..Len(data)
      BY <2>5, SeqIsTyped
    <3> DEFINE n == Len(data)
    <3> HIDE DEF n
    <3>2. n \in Nat /\ 1..n = 1..1
      BY <2>4, <3>1 DEF n
    <3>3. n = 1
      BY <3>2
    <3>4. 1 \in DOMAIN data
      BY <2>4
    <3>5. QED
      BY <3>3, <3>4 DEF n
  <2>7. 1 \in DOMAIN V /\ V[1] = v
    BY <2>1
  <2>8. QED
    BY <1>3, <2>5, <2>6, <2>7 DEF V, Report!Last
<1>4. QED
  BY <1>1, <1>2, <1>3

(***************************************************************************)
(* By the depth of nesting: the classes whose fields have numbers of their *)
(* own, the messages of a class, and that they are read as written.        *)
(***************************************************************************)
SoundWith(class, Holds(_)) ==
  Numbered(class) /\ \A i \in DOMAIN class : class[i].type = "MESSAGE" => Holds(class[i].of)

FitsWith(class, m, Holds(_, _)) ==
  /\ m = [n \in Report!Names(class) |-> m[n]]
  /\ \A n \in Report!Names(class) :
       LET f == Report!FieldNamed(class, n)
       IN  /\ f.many => IsSeq(m[n])
           /\ f.type = "MESSAGE" =>
                \A k \in DOMAIN Values(f, m[n]) : Holds(f.of, Values(f, m[n])[k])

Sound0(class) == TRUE
Sound1(class) == SoundWith(class, Sound0)
Sound2(class) == SoundWith(class, Sound1)
Sound3(class) == SoundWith(class, Sound2)
Sound4(class) == SoundWith(class, Sound3)

Fits0(class, m) == TRUE
Fits1(class, m) == FitsWith(class, m, Fits0)
Fits2(class, m) == FitsWith(class, m, Fits1)
Fits3(class, m) == FitsWith(class, m, Fits2)
Fits4(class, m) == FitsWith(class, m, Fits3)

LEMMA IsRead1 ==
  ASSUME NEW class, Sound1(class), NEW m, Fits1(class, m)
  PROVE  Report!Parse1(class, Report!Serialize1(class, m)) = m
<1> DEFINE W(f, v) == IF f.type = "MESSAGE" THEN Report!Innermost(f.of, v) ELSE v
           R(f, d) == IF f.type = "MESSAGE" THEN Report!Innermost(f.of, d) ELSE d
           D(f) == [k \in DOMAIN Values(f, m[f.name]) |-> W(f, Values(f, m[f.name])[k])]
           data == [i \in DOMAIN class |-> D(class[i])]
           wire == Report!Serialize1(class, m)
           H(f) == Report!Hits(wire, f)
           P(f) == IF f.many THEN [k \in DOMAIN H(f) |-> R(f, H(f)[k])]
                   ELSE IF H(f) = <<>> THEN Unset ELSE R(f, Report!Last(H(f)))
<1>1. wire = Wire(class, data)
  BY DEF Report!Serialize1, Report!SerializeWith, Wire, Values
<1>2. Report!Parse1(class, wire)
        = [n \in Report!Names(class) |-> P(Report!FieldNamed(class, n))]
  BY DEF Report!Parse1, Report!ParseWith
<1>3. \A f, v : Sound0(f.of) /\ Fits0(f.of, v) => R(f, W(f, v)) = v
  BY DEF Report!Innermost
<1> HIDE DEF wire, W, R
<1>4. ASSUME NEW n \in Report!Names(class)
      PROVE  P(Report!FieldNamed(class, n)) = m[n]
  <2>1. PICK i \in DOMAIN class :
          Report!FieldNamed(class, n) = class[i] /\ class[i].name = n
    BY <1>4, FieldIsNamed
  <2> DEFINE f == class[i]
             V == Values(f, m[n])
  <2>2. /\ f.many => IsSeq(m[n])
        /\ f.type = "MESSAGE" => \A k \in DOMAIN V : Fits0(f.of, V[k])
        /\ f.type = "MESSAGE" => Sound0(f.of)
        /\ Numbered(class)
    BY <2>1 DEF Fits1, FitsWith, Sound1, SoundWith
  <2>3. D(f) = [k \in DOMAIN V |-> W(f, V[k])] /\ data[i] = D(f)
    BY <2>1
  <2> HIDE DEF D, data
  <2>4. D(f) = [k \in DOMAIN V |-> D(f)[k]]
    BY <2>3
  <2>5. /\ IsSeq(V) /\ IsSeq(D(f))
        /\ f.many => m[n] = V /\ m[n] = [k \in DOMAIN m[n] |-> m[n][k]]
        /\ ~f.many /\ m[n] = Unset => D(f) = <<>>
        /\ ~f.many /\ m[n] # Unset => /\ D(f) # <<>> /\ 1 \in DOMAIN V /\ V[1] = m[n]
                                      /\ Report!Last(D(f)) = D(f)[1]
    BY <2>2, <2>4, DataAreSeq
  <2>6. H(f) = D(f)
    BY <1>1, <2>2, <2>3, <2>5, HitsAreOwn
  <2> HIDE DEF f, V
  <2>7. \A k \in DOMAIN V : R(f, D(f)[k]) = V[k]
    <3> TAKE k \in DOMAIN V
    <3>1. D(f)[k] = W(f, V[k])
      BY <2>3
    <3>2. CASE f.type = "MESSAGE"
      BY <1>3, <2>2, <3>1, <3>2
    <3>3. CASE f.type # "MESSAGE"
      BY <3>1, <3>3 DEF W, R
    <3>4. QED
      BY <3>2, <3>3
  <2> HIDE DEF H
  <2>8. P(f) = m[n]
    <3>1. CASE f.many
      <4>1. P(f) = [k \in DOMAIN V |-> V[k]]
        BY <2>3, <2>6, <2>7, <3>1
      <4>2. QED
        BY <2>5, <3>1, <4>1
    <3>2. CASE ~f.many /\ m[n] = Unset
      BY <2>5, <2>6, <3>2
    <3>3. CASE ~f.many /\ m[n] # Unset
      <4>1. P(f) = R(f, D(f)[1])
        BY <2>5, <2>6, <3>3
      <4>2. QED
        BY <2>5, <2>7, <3>3, <4>1
    <3>4. QED
      BY <3>1, <3>2, <3>3
  <2>9. QED
    BY <2>1, <2>8 DEF f
<1>5. m = [n \in Report!Names(class) |-> m[n]]
  BY DEF Fits1, FitsWith
<1>6. QED
  BY <1>2, <1>4, <1>5 DEF wire

LEMMA IsRead2 ==
  ASSUME NEW class, Sound2(class), NEW m, Fits2(class, m)
  PROVE  Report!Parse2(class, Report!Serialize2(class, m)) = m
<1> DEFINE W(f, v) == IF f.type = "MESSAGE" THEN Report!Serialize1(f.of, v) ELSE v
           R(f, d) == IF f.type = "MESSAGE" THEN Report!Parse1(f.of, d) ELSE d
           D(f) == [k \in DOMAIN Values(f, m[f.name]) |-> W(f, Values(f, m[f.name])[k])]
           data == [i \in DOMAIN class |-> D(class[i])]
           wire == Report!Serialize2(class, m)
           H(f) == Report!Hits(wire, f)
           P(f) == IF f.many THEN [k \in DOMAIN H(f) |-> R(f, H(f)[k])]
                   ELSE IF H(f) = <<>> THEN Unset ELSE R(f, Report!Last(H(f)))
<1>1. wire = Wire(class, data)
  BY DEF Report!Serialize2, Report!SerializeWith, Wire, Values
<1>2. Report!Parse2(class, wire)
        = [n \in Report!Names(class) |-> P(Report!FieldNamed(class, n))]
  BY DEF Report!Parse2, Report!ParseWith
<1>3. \A f, v : Sound1(f.of) /\ Fits1(f.of, v) => R(f, W(f, v)) = v
  BY IsRead1
<1> HIDE DEF wire, W, R
<1>4. ASSUME NEW n \in Report!Names(class)
      PROVE  P(Report!FieldNamed(class, n)) = m[n]
  <2>1. PICK i \in DOMAIN class :
          Report!FieldNamed(class, n) = class[i] /\ class[i].name = n
    BY <1>4, FieldIsNamed
  <2> DEFINE f == class[i]
             V == Values(f, m[n])
  <2>2. /\ f.many => IsSeq(m[n])
        /\ f.type = "MESSAGE" => \A k \in DOMAIN V : Fits1(f.of, V[k])
        /\ f.type = "MESSAGE" => Sound1(f.of)
        /\ Numbered(class)
    BY <2>1 DEF Fits2, FitsWith, Sound2, SoundWith
  <2>3. D(f) = [k \in DOMAIN V |-> W(f, V[k])] /\ data[i] = D(f)
    BY <2>1
  <2> HIDE DEF D, data
  <2>4. D(f) = [k \in DOMAIN V |-> D(f)[k]]
    BY <2>3
  <2>5. /\ IsSeq(V) /\ IsSeq(D(f))
        /\ f.many => m[n] = V /\ m[n] = [k \in DOMAIN m[n] |-> m[n][k]]
        /\ ~f.many /\ m[n] = Unset => D(f) = <<>>
        /\ ~f.many /\ m[n] # Unset => /\ D(f) # <<>> /\ 1 \in DOMAIN V /\ V[1] = m[n]
                                      /\ Report!Last(D(f)) = D(f)[1]
    BY <2>2, <2>4, DataAreSeq
  <2>6. H(f) = D(f)
    BY <1>1, <2>2, <2>3, <2>5, HitsAreOwn
  <2> HIDE DEF f, V
  <2>7. \A k \in DOMAIN V : R(f, D(f)[k]) = V[k]
    <3> TAKE k \in DOMAIN V
    <3>1. D(f)[k] = W(f, V[k])
      BY <2>3
    <3>2. CASE f.type = "MESSAGE"
      BY <1>3, <2>2, <3>1, <3>2
    <3>3. CASE f.type # "MESSAGE"
      BY <3>1, <3>3 DEF W, R
    <3>4. QED
      BY <3>2, <3>3
  <2> HIDE DEF H
  <2>8. P(f) = m[n]
    <3>1. CASE f.many
      <4>1. P(f) = [k \in DOMAIN V |-> V[k]]
        BY <2>3, <2>6, <2>7, <3>1
      <4>2. QED
        BY <2>5, <3>1, <4>1
    <3>2. CASE ~f.many /\ m[n] = Unset
      BY <2>5, <2>6, <3>2
    <3>3. CASE ~f.many /\ m[n] # Unset
      <4>1. P(f) = R(f, D(f)[1])
        BY <2>5, <2>6, <3>3
      <4>2. QED
        BY <2>5, <2>7, <3>3, <4>1
    <3>4. QED
      BY <3>1, <3>2, <3>3
  <2>9. QED
    BY <2>1, <2>8 DEF f
<1>5. m = [n \in Report!Names(class) |-> m[n]]
  BY DEF Fits2, FitsWith
<1>6. QED
  BY <1>2, <1>4, <1>5 DEF wire

LEMMA IsRead3 ==
  ASSUME NEW class, Sound3(class), NEW m, Fits3(class, m)
  PROVE  Report!Parse3(class, Report!Serialize3(class, m)) = m
<1> DEFINE W(f, v) == IF f.type = "MESSAGE" THEN Report!Serialize2(f.of, v) ELSE v
           R(f, d) == IF f.type = "MESSAGE" THEN Report!Parse2(f.of, d) ELSE d
           D(f) == [k \in DOMAIN Values(f, m[f.name]) |-> W(f, Values(f, m[f.name])[k])]
           data == [i \in DOMAIN class |-> D(class[i])]
           wire == Report!Serialize3(class, m)
           H(f) == Report!Hits(wire, f)
           P(f) == IF f.many THEN [k \in DOMAIN H(f) |-> R(f, H(f)[k])]
                   ELSE IF H(f) = <<>> THEN Unset ELSE R(f, Report!Last(H(f)))
<1>1. wire = Wire(class, data)
  BY DEF Report!Serialize3, Report!SerializeWith, Wire, Values
<1>2. Report!Parse3(class, wire)
        = [n \in Report!Names(class) |-> P(Report!FieldNamed(class, n))]
  BY DEF Report!Parse3, Report!ParseWith
<1>3. \A f, v : Sound2(f.of) /\ Fits2(f.of, v) => R(f, W(f, v)) = v
  BY IsRead2
<1> HIDE DEF wire, W, R
<1>4. ASSUME NEW n \in Report!Names(class)
      PROVE  P(Report!FieldNamed(class, n)) = m[n]
  <2>1. PICK i \in DOMAIN class :
          Report!FieldNamed(class, n) = class[i] /\ class[i].name = n
    BY <1>4, FieldIsNamed
  <2> DEFINE f == class[i]
             V == Values(f, m[n])
  <2>2. /\ f.many => IsSeq(m[n])
        /\ f.type = "MESSAGE" => \A k \in DOMAIN V : Fits2(f.of, V[k])
        /\ f.type = "MESSAGE" => Sound2(f.of)
        /\ Numbered(class)
    BY <2>1 DEF Fits3, FitsWith, Sound3, SoundWith
  <2>3. D(f) = [k \in DOMAIN V |-> W(f, V[k])] /\ data[i] = D(f)
    BY <2>1
  <2> HIDE DEF D, data
  <2>4. D(f) = [k \in DOMAIN V |-> D(f)[k]]
    BY <2>3
  <2>5. /\ IsSeq(V) /\ IsSeq(D(f))
        /\ f.many => m[n] = V /\ m[n] = [k \in DOMAIN m[n] |-> m[n][k]]
        /\ ~f.many /\ m[n] = Unset => D(f) = <<>>
        /\ ~f.many /\ m[n] # Unset => /\ D(f) # <<>> /\ 1 \in DOMAIN V /\ V[1] = m[n]
                                      /\ Report!Last(D(f)) = D(f)[1]
    BY <2>2, <2>4, DataAreSeq
  <2>6. H(f) = D(f)
    BY <1>1, <2>2, <2>3, <2>5, HitsAreOwn
  <2> HIDE DEF f, V
  <2>7. \A k \in DOMAIN V : R(f, D(f)[k]) = V[k]
    <3> TAKE k \in DOMAIN V
    <3>1. D(f)[k] = W(f, V[k])
      BY <2>3
    <3>2. CASE f.type = "MESSAGE"
      BY <1>3, <2>2, <3>1, <3>2
    <3>3. CASE f.type # "MESSAGE"
      BY <3>1, <3>3 DEF W, R
    <3>4. QED
      BY <3>2, <3>3
  <2> HIDE DEF H
  <2>8. P(f) = m[n]
    <3>1. CASE f.many
      <4>1. P(f) = [k \in DOMAIN V |-> V[k]]
        BY <2>3, <2>6, <2>7, <3>1
      <4>2. QED
        BY <2>5, <3>1, <4>1
    <3>2. CASE ~f.many /\ m[n] = Unset
      BY <2>5, <2>6, <3>2
    <3>3. CASE ~f.many /\ m[n] # Unset
      <4>1. P(f) = R(f, D(f)[1])
        BY <2>5, <2>6, <3>3
      <4>2. QED
        BY <2>5, <2>7, <3>3, <4>1
    <3>4. QED
      BY <3>1, <3>2, <3>3
  <2>9. QED
    BY <2>1, <2>8 DEF f
<1>5. m = [n \in Report!Names(class) |-> m[n]]
  BY DEF Fits3, FitsWith
<1>6. QED
  BY <1>2, <1>4, <1>5 DEF wire

LEMMA IsRead4 ==
  ASSUME NEW class, Sound4(class), NEW m, Fits4(class, m)
  PROVE  Report!Parse(class, Report!Serialize(class, m)) = m
<1> DEFINE W(f, v) == IF f.type = "MESSAGE" THEN Report!Serialize3(f.of, v) ELSE v
           R(f, d) == IF f.type = "MESSAGE" THEN Report!Parse3(f.of, d) ELSE d
           D(f) == [k \in DOMAIN Values(f, m[f.name]) |-> W(f, Values(f, m[f.name])[k])]
           data == [i \in DOMAIN class |-> D(class[i])]
           wire == Report!Serialize(class, m)
           H(f) == Report!Hits(wire, f)
           P(f) == IF f.many THEN [k \in DOMAIN H(f) |-> R(f, H(f)[k])]
                   ELSE IF H(f) = <<>> THEN Unset ELSE R(f, Report!Last(H(f)))
<1>1. wire = Wire(class, data)
  BY DEF Report!Serialize, Report!SerializeWith, Wire, Values
<1>2. Report!Parse(class, wire)
        = [n \in Report!Names(class) |-> P(Report!FieldNamed(class, n))]
  BY DEF Report!Parse, Report!ParseWith
<1>3. \A f, v : Sound3(f.of) /\ Fits3(f.of, v) => R(f, W(f, v)) = v
  BY IsRead3
<1> HIDE DEF wire, W, R
<1>4. ASSUME NEW n \in Report!Names(class)
      PROVE  P(Report!FieldNamed(class, n)) = m[n]
  <2>1. PICK i \in DOMAIN class :
          Report!FieldNamed(class, n) = class[i] /\ class[i].name = n
    BY <1>4, FieldIsNamed
  <2> DEFINE f == class[i]
             V == Values(f, m[n])
  <2>2. /\ f.many => IsSeq(m[n])
        /\ f.type = "MESSAGE" => \A k \in DOMAIN V : Fits3(f.of, V[k])
        /\ f.type = "MESSAGE" => Sound3(f.of)
        /\ Numbered(class)
    BY <2>1 DEF Fits4, FitsWith, Sound4, SoundWith
  <2>3. D(f) = [k \in DOMAIN V |-> W(f, V[k])] /\ data[i] = D(f)
    BY <2>1
  <2> HIDE DEF D, data
  <2>4. D(f) = [k \in DOMAIN V |-> D(f)[k]]
    BY <2>3
  <2>5. /\ IsSeq(V) /\ IsSeq(D(f))
        /\ f.many => m[n] = V /\ m[n] = [k \in DOMAIN m[n] |-> m[n][k]]
        /\ ~f.many /\ m[n] = Unset => D(f) = <<>>
        /\ ~f.many /\ m[n] # Unset => /\ D(f) # <<>> /\ 1 \in DOMAIN V /\ V[1] = m[n]
                                      /\ Report!Last(D(f)) = D(f)[1]
    BY <2>2, <2>4, DataAreSeq
  <2>6. H(f) = D(f)
    BY <1>1, <2>2, <2>3, <2>5, HitsAreOwn
  <2> HIDE DEF f, V
  <2>7. \A k \in DOMAIN V : R(f, D(f)[k]) = V[k]
    <3> TAKE k \in DOMAIN V
    <3>1. D(f)[k] = W(f, V[k])
      BY <2>3
    <3>2. CASE f.type = "MESSAGE"
      BY <1>3, <2>2, <3>1, <3>2
    <3>3. CASE f.type # "MESSAGE"
      BY <3>1, <3>3 DEF W, R
    <3>4. QED
      BY <3>2, <3>3
  <2> HIDE DEF H
  <2>8. P(f) = m[n]
    <3>1. CASE f.many
      <4>1. P(f) = [k \in DOMAIN V |-> V[k]]
        BY <2>3, <2>6, <2>7, <3>1
      <4>2. QED
        BY <2>5, <3>1, <4>1
    <3>2. CASE ~f.many /\ m[n] = Unset
      BY <2>5, <2>6, <3>2
    <3>3. CASE ~f.many /\ m[n] # Unset
      <4>1. P(f) = R(f, D(f)[1])
        BY <2>5, <2>6, <3>3
      <4>2. QED
        BY <2>5, <2>7, <3>3, <4>1
    <3>4. QED
      BY <3>1, <3>2, <3>3
  <2>9. QED
    BY <2>1, <2>8 DEF f
<1>5. m = [n \in Report!Names(class) |-> m[n]]
  BY DEF Fits4, FitsWith
<1>6. QED
  BY <1>2, <1>4, <1>5 DEF wire

LEMMA PairIsSeq == \A a, b : IsSeq(<<>>) /\ IsSeq(<<a, b>>)
<1>1. DOMAIN <<>> = 1..0 /\ <<>> = [k \in 1..0 |-> <<>>[k]]
  OBVIOUS
<1>2. \A a, b : DOMAIN <<a, b>> = 1..2 /\ <<a, b>> = [k \in 1..2 |-> <<a, b>>[k]]
  OBVIOUS
<1>3. QED
  BY <1>1, <1>2 DEF IsSeq

LEMMA FilledFits1 ==
  ASSUME NEW class, NEW way
  PROVE  Fits1(class, Report!Filled1(class, way))
<1> DEFINE V(f, k) == IF f.type = "MESSAGE" THEN Report!Innermost(f.of, way \o <<f.name, k>>)
                      ELSE way \o <<f.name, k>>
           m == Report!Filled1(class, way)
           F(n) == Report!FieldNamed(class, n)
<1>1. m = [n \in Report!Names(class) |->
             IF F(n).many THEN <<V(F(n), "1"), V(F(n), "2")>> ELSE V(F(n), "1")]
  BY DEF Report!Filled1, Report!FilledWith
<1>2. \A f, k : f.type = "MESSAGE" => Fits0(f.of, V(f, k))
  BY DEF Fits0
<1> HIDE DEF V, m
<1>3. ASSUME NEW n \in Report!Names(class)
      PROVE  /\ F(n).many => IsSeq(m[n])
             /\ F(n).type = "MESSAGE" =>
                  \A k \in DOMAIN Values(F(n), m[n]) : Fits0(F(n).of, Values(F(n), m[n])[k])
  <2> DEFINE f == F(n)
  <2> HIDE DEF F
  <2>1. CASE f.many
    <3>1. m[n] = <<V(f, "1"), V(f, "2")>> /\ Values(f, m[n]) = m[n]
      BY <1>1, <2>1 DEF Values
    <3> HIDE DEF f
    <3>2. QED
      BY <1>2, <3>1, PairIsSeq DEF f
  <2>2. CASE ~f.many
    <3>1. m[n] = V(f, "1")
      BY <1>1, <2>2
    <3>2. Values(f, m[n]) \in {<<>>, <<V(f, "1")>>}
      BY <2>2, <3>1 DEF Values
    <3> HIDE DEF f
    <3>3. f.type = "MESSAGE" => \A k \in DOMAIN Values(f, m[n]) : Fits0(f.of, Values(f, m[n])[k])
      BY <1>2, <3>2
    <3>4. QED
      BY <2>2, <3>3 DEF f
  <2>3. QED
    BY <2>1, <2>2
<1>4. m = [n \in Report!Names(class) |-> m[n]]
  BY <1>1
<1>5. QED
  BY <1>3, <1>4 DEF Fits1, FitsWith, m

LEMMA FilledFits2 ==
  ASSUME NEW class, NEW way
  PROVE  Fits2(class, Report!Filled2(class, way))
<1> DEFINE V(f, k) == IF f.type = "MESSAGE" THEN Report!Filled1(f.of, way \o <<f.name, k>>)
                      ELSE way \o <<f.name, k>>
           m == Report!Filled2(class, way)
           F(n) == Report!FieldNamed(class, n)
<1>1. m = [n \in Report!Names(class) |->
             IF F(n).many THEN <<V(F(n), "1"), V(F(n), "2")>> ELSE V(F(n), "1")]
  BY DEF Report!Filled2, Report!FilledWith
<1>2. \A f, k : f.type = "MESSAGE" => Fits1(f.of, V(f, k))
  BY FilledFits1
<1> HIDE DEF V, m
<1>3. ASSUME NEW n \in Report!Names(class)
      PROVE  /\ F(n).many => IsSeq(m[n])
             /\ F(n).type = "MESSAGE" =>
                  \A k \in DOMAIN Values(F(n), m[n]) : Fits1(F(n).of, Values(F(n), m[n])[k])
  <2> DEFINE f == F(n)
  <2> HIDE DEF F
  <2>1. CASE f.many
    <3>1. m[n] = <<V(f, "1"), V(f, "2")>> /\ Values(f, m[n]) = m[n]
      BY <1>1, <2>1 DEF Values
    <3> HIDE DEF f
    <3>2. QED
      BY <1>2, <3>1, PairIsSeq DEF f
  <2>2. CASE ~f.many
    <3>1. m[n] = V(f, "1")
      BY <1>1, <2>2
    <3>2. Values(f, m[n]) \in {<<>>, <<V(f, "1")>>}
      BY <2>2, <3>1 DEF Values
    <3> HIDE DEF f
    <3>3. f.type = "MESSAGE" => \A k \in DOMAIN Values(f, m[n]) : Fits1(f.of, Values(f, m[n])[k])
      BY <1>2, <3>2
    <3>4. QED
      BY <2>2, <3>3 DEF f
  <2>3. QED
    BY <2>1, <2>2
<1>4. m = [n \in Report!Names(class) |-> m[n]]
  BY <1>1
<1>5. QED
  BY <1>3, <1>4 DEF Fits2, FitsWith, m

LEMMA FilledFits3 ==
  ASSUME NEW class, NEW way
  PROVE  Fits3(class, Report!Filled3(class, way))
<1> DEFINE V(f, k) == IF f.type = "MESSAGE" THEN Report!Filled2(f.of, way \o <<f.name, k>>)
                      ELSE way \o <<f.name, k>>
           m == Report!Filled3(class, way)
           F(n) == Report!FieldNamed(class, n)
<1>1. m = [n \in Report!Names(class) |->
             IF F(n).many THEN <<V(F(n), "1"), V(F(n), "2")>> ELSE V(F(n), "1")]
  BY DEF Report!Filled3, Report!FilledWith
<1>2. \A f, k : f.type = "MESSAGE" => Fits2(f.of, V(f, k))
  BY FilledFits2
<1> HIDE DEF V, m
<1>3. ASSUME NEW n \in Report!Names(class)
      PROVE  /\ F(n).many => IsSeq(m[n])
             /\ F(n).type = "MESSAGE" =>
                  \A k \in DOMAIN Values(F(n), m[n]) : Fits2(F(n).of, Values(F(n), m[n])[k])
  <2> DEFINE f == F(n)
  <2> HIDE DEF F
  <2>1. CASE f.many
    <3>1. m[n] = <<V(f, "1"), V(f, "2")>> /\ Values(f, m[n]) = m[n]
      BY <1>1, <2>1 DEF Values
    <3> HIDE DEF f
    <3>2. QED
      BY <1>2, <3>1, PairIsSeq DEF f
  <2>2. CASE ~f.many
    <3>1. m[n] = V(f, "1")
      BY <1>1, <2>2
    <3>2. Values(f, m[n]) \in {<<>>, <<V(f, "1")>>}
      BY <2>2, <3>1 DEF Values
    <3> HIDE DEF f
    <3>3. f.type = "MESSAGE" => \A k \in DOMAIN Values(f, m[n]) : Fits2(f.of, Values(f, m[n])[k])
      BY <1>2, <3>2
    <3>4. QED
      BY <2>2, <3>3 DEF f
  <2>3. QED
    BY <2>1, <2>2
<1>4. m = [n \in Report!Names(class) |-> m[n]]
  BY <1>1
<1>5. QED
  BY <1>3, <1>4 DEF Fits3, FitsWith, m

LEMMA FilledFits4 ==
  ASSUME NEW class, NEW way
  PROVE  Fits4(class, Report!Filled(class, way))
<1> DEFINE V(f, k) == IF f.type = "MESSAGE" THEN Report!Filled3(f.of, way \o <<f.name, k>>)
                      ELSE way \o <<f.name, k>>
           m == Report!Filled(class, way)
           F(n) == Report!FieldNamed(class, n)
<1>1. m = [n \in Report!Names(class) |->
             IF F(n).many THEN <<V(F(n), "1"), V(F(n), "2")>> ELSE V(F(n), "1")]
  BY DEF Report!Filled, Report!FilledWith
<1>2. \A f, k : f.type = "MESSAGE" => Fits3(f.of, V(f, k))
  BY FilledFits3
<1> HIDE DEF V, m
<1>3. ASSUME NEW n \in Report!Names(class)
      PROVE  /\ F(n).many => IsSeq(m[n])
             /\ F(n).type = "MESSAGE" =>
                  \A k \in DOMAIN Values(F(n), m[n]) : Fits3(F(n).of, Values(F(n), m[n])[k])
  <2> DEFINE f == F(n)
  <2> HIDE DEF F
  <2>1. CASE f.many
    <3>1. m[n] = <<V(f, "1"), V(f, "2")>> /\ Values(f, m[n]) = m[n]
      BY <1>1, <2>1 DEF Values
    <3> HIDE DEF f
    <3>2. QED
      BY <1>2, <3>1, PairIsSeq DEF f
  <2>2. CASE ~f.many
    <3>1. m[n] = V(f, "1")
      BY <1>1, <2>2
    <3>2. Values(f, m[n]) \in {<<>>, <<V(f, "1")>>}
      BY <2>2, <3>1 DEF Values
    <3> HIDE DEF f
    <3>3. f.type = "MESSAGE" => \A k \in DOMAIN Values(f, m[n]) : Fits3(f.of, Values(f, m[n])[k])
      BY <1>2, <3>2
    <3>4. QED
      BY <2>2, <3>3 DEF f
  <2>3. QED
    BY <2>1, <2>2
<1>4. m = [n \in Report!Names(class) |-> m[n]]
  BY <1>1
<1>5. QED
  BY <1>3, <1>4 DEF Fits4, FitsWith, m

(* The classes of adinfo_pb2.py and usertrac_pb2.py.  The place of a field *)
(* can be told from its number.                                            *)
Flat(class) == \A i \in DOMAIN class : class[i].type # "MESSAGE"

LEMMA FlatAreSound ==
  ASSUME NEW class, Numbered(class), Flat(class)
  PROVE  Sound1(class) /\ Sound2(class) /\ Sound3(class) /\ Sound4(class)
BY DEF Flat, Sound1, Sound2, Sound3, Sound4, SoundWith

LEMMA PlacesTellApart ==
  ASSUME NEW class, NEW n \in Nat, DOMAIN class = 1..n, NEW place,
         \A i \in 1..n : place[class[i].num] = i
  PROVE  Numbered(class)
BY DEF Numbered

LEMMA ClassesAreNumbered ==
  /\ Numbered(Report!GuangInfo) /\ Flat(Report!GuangInfo)
  /\ Numbered(Report!DisplayInfo) /\ Flat(Report!DisplayInfo)
  /\ Numbered(Report!UserInfo) /\ Flat(Report!UserInfo)
  /\ Numbered(Report!Profiling) /\ Flat(Report!Profiling)
  /\ Numbered(Report!BackEndAdTemplate) /\ Flat(Report!BackEndAdTemplate)
  /\ Numbered(Report!BackEndSogouXmlReq) /\ Flat(Report!BackEndSogouXmlReq)
  /\ Numbered(Report!PublisherCategory) /\ Flat(Report!PublisherCategory)
  /\ Numbered(Report!UserTrac) /\ Flat(Report!UserTrac)
  /\ Numbered(Report!AdInfo)
  /\ Numbered(Report!FullAdInfo)
  /\ Numbered(Report!BackEndInfo)
  /\ Numbered(Report!MiniBackendInfo)
  /\ Numbered(Report!ClickInfoEx)
  /\ Numbered(Report!ClickInfo)
  /\ Numbered(Report!RenderInfo)
<1> USE DEF Report!Field, Report!Message, Report!Repeated, Report!RepeatedOf,
            Report!U32, Report!U64, Report!Dbl, Report!Str
<1>1. Numbered(Report!GuangInfo) /\ Flat(Report!GuangInfo)
  <2> DEFINE class == Report!GuangInfo
             place == [k \in 1..7 |-> k]
  <2>1. DOMAIN class = 1..7 /\ Flat(class)
    BY DEF Report!GuangInfo, Flat
  <2>2. \A i \in 1..7 : place[class[i].num] = i
    BY DEF Report!GuangInfo
  <2> HIDE DEF class, place
  <2>3. Numbered(class)
    BY <2>1, <2>2, PlacesTellApart
  <2>4. QED
    BY <2>1, <2>3 DEF class
<1>2. Numbered(Report!DisplayInfo) /\ Flat(Report!DisplayInfo)
  <2> DEFINE class == Report!DisplayInfo
             place == [k \in 1..14 |-> IF k <= 4 THEN k ELSE IF k = 6 THEN 5 ELSE k - 3]
  <2>1. DOMAIN class = 1..11 /\ Flat(class)
    BY DEF Report!DisplayInfo, Flat
  <2>2. \A i \in 1..11 : place[class[i].num] = i
    BY DEF Report!DisplayInfo
  <2> HIDE DEF class, place
  <2>3. Numbered(class)
    BY <2>1, <2>2, PlacesTellApart
  <2>4. QED
    BY <2>1, <2>3 DEF class
<1>3. Numbered(Report!UserInfo) /\ Flat(Report!UserInfo)
  <2> DEFINE class == Report!UserInfo
             place == [k \in 1..5 |-> k]
  <2>1. DOMAIN class = 1..5 /\ Flat(class)
    BY DEF Report!UserInfo, Flat
  <2>2. \A i \in 1..5 : place[class[i].num] = i
    BY DEF Report!UserInfo
  <2> HIDE DEF class, place
  <2>3. Numbered(class)
    BY <2>1, <2>2, PlacesTellApart
  <2>4. QED
    BY <2>1, <2>3 DEF class
<1>4. Numbered(Report!Profiling) /\ Flat(Report!Profiling)
  <2> DEFINE class == Report!Profiling
             place == [k \in 1..3 |-> k - 1]
  <2>1. DOMAIN class = 1..2 /\ Flat(class)
    BY DEF Report!Profiling, Flat
  <2>2. \A i \in 1..2 : place[class[i].num] = i
    BY DEF Report!Profiling
  <2> HIDE DEF class, place
  <2>3. Numbered(class)
    BY <2>1, <2>2, PlacesTellApart
  <2>4. QED
    BY <2>1, <2>3 DEF class
<1>5. Numbered(Report!BackEndAdTemplate) /\ Flat(Report!BackEndAdTemplate)
  <2> DEFINE class == Report!BackEndAdTemplate
             place == [k \in 1..4 |-> k]
  <2>1. DOMAIN class = 1..4 /\ Flat(class)
    BY DEF Report!BackEndAdTemplate, Flat
  <2>2. \A i \in 1..4 : place[class[i].num] = i
    BY DEF Report!BackEndAdTemplate
  <2> HIDE DEF class, place
  <2>3. Numbered(class)
    BY <2>1, <2>2, PlacesTellApart
  <2>4. QED
    BY <2>1, <2>3 DEF class
<1>6. Numbered(Report!BackEndSogouXmlReq) /\ Flat(Report!BackEndSogouXmlReq)
  <2> DEFINE class == Report!BackEndSogouXmlReq
             place == [k \in 1..4 |-> k]
  <2>1. DOMAIN class = 1..4 /\ Flat(class)
    BY DEF Report!BackEndSogouXmlReq, Flat
  <2>2. \A i \in 1..4 : place[class[i].num] = i
    BY DEF Report!BackEndSogouXmlReq
  <2> HIDE DEF class, place
  <2>3. Numbered(class)
    BY <2>1, <2>2, PlacesTellApart
  <2>4. QED
    BY <2>1, <2>3 DEF class
<1>7. Numbered(Report!PublisherCategory) /\ Flat(Report!PublisherCategory)
  <2> DEFINE class == Report!PublisherCategory
             place == [k \in 1..2 |-> k]
  <2>1. DOMAIN class = 1..2 /\ Flat(class)
    BY DEF Report!PublisherCategory, Flat
  <2>2. \A i \in 1..2 : place[class[i].num] = i
    BY DEF Report!PublisherCategory
  <2> HIDE DEF class, place
  <2>3. Numbered(class)
    BY <2>1, <2>2, PlacesTellApart
  <2>4. QED
    BY <2>1, <2>3 DEF class
<1>8. Numbered(Report!UserTrac) /\ Flat(Report!UserTrac)
  <2> DEFINE class == Report!UserTrac
             place == [k \in 1..16 |-> k]
  <2>1. DOMAIN class = 1..16 /\ Flat(class)
    BY DEF Report!UserTrac, Flat
  <2>2. \A i \in 1..16 : place[class[i].num] = i
    BY DEF Report!UserTrac
  <2> HIDE DEF class, place
  <2>3. Numbered(class)
    BY <2>1, <2>2, PlacesTellApart
  <2>4. QED
    BY <2>1, <2>3 DEF class
<1>9. Numbered(Report!AdInfo)
  <2> DEFINE class == Report!AdInfo
             place == [k \in 1..30 |-> IF k <= 11 THEN k ELSE IF k = 30 THEN 22 ELSE k - 1]
  <2>1. DOMAIN class = 1..22
    BY DEF Report!AdInfo
  <2>2. \A i \in 1..22 : place[class[i].num] = i
    <3>0. /\ class[1].num = 1 /\ class[2].num = 2 /\ class[3].num = 3 /\ class[4].num = 4
          /\ class[5].num = 5 /\ class[6].num = 6 /\ class[7].num = 7 /\ class[8].num = 8
          /\ class[9].num = 9 /\ class[10].num = 10 /\ class[11].num = 11 /\ class[12].num = 13
          /\ class[13].num = 14 /\ class[14].num = 15 /\ class[15].num = 16 /\ class[16].num = 17
          /\ class[17].num = 18 /\ class[18].num = 19 /\ class[19].num = 20 /\ class[20].num = 21
          /\ class[21].num = 22 /\ class[22].num = 30
      BY DEF Report!AdInfo
    <3>5. \A i \in 1..22 : i = 1 \/ i = 2 \/ i = 3 \/ i = 4 \/ i = 5 \/ i = 6 \/ i = 7 \/ i = 8 \/
            i = 9 \/ i = 10 \/ i = 11 \/ i = 12 \/ i = 13 \/ i = 14 \/ i = 15 \/ i = 16 \/
            i = 17 \/ i = 18 \/ i = 19 \/ i = 20 \/ i = 21 \/ i = 22
      OBVIOUS
    <3> HIDE DEF class, place
    <3>1. \A i \in 1..22 : class[i].num = IF i <= 11 THEN i ELSE IF i = 22 THEN 30 ELSE i + 1
      BY <3>0, <3>5
    <3>2. \A i \in 1..22 : place[IF i <= 11 THEN i ELSE IF i = 22 THEN 30 ELSE i + 1] = i
      BY DEF place
    <3>3. QED
      BY <3>1, <3>2
  <2> HIDE DEF class, place
  <2>3. Numbered(class)
    BY <2>1, <2>2, PlacesTellApart
  <2>4. QED
    BY <2>1, <2>3 DEF class
<1>10. Numbered(Report!FullAdInfo)
  <2> DEFINE class == Report!FullAdInfo
             place == [k \in 1..3 |-> k]
  <2>1. DOMAIN class = 1..3
    BY DEF Report!FullAdInfo
  <2>2. \A i \in 1..3 : place[class[i].num] = i
    BY DEF Report!FullAdInfo
  <2> HIDE DEF class, place
  <2>3. Numbered(class)
    BY <2>1, <2>2, PlacesTellApart
  <2>4. QED
    BY <2>1, <2>3 DEF class
<1>11. Numbered(Report!BackEndInfo)
  <2> DEFINE class == Report!BackEndInfo
             place == [k \in 1..26 |->
                        IF k = 1 THEN 1 ELSE IF k = 4 THEN 2 ELSE IF k = 6 THEN 3
                        ELSE IF k <= 13 THEN k - 4 ELSE IF k <= 17 THEN k - 6 ELSE k - 7]
  <2>1. DOMAIN class = 1..19
    BY DEF Report!BackEndInfo
  <2>2. \A i \in 1..19 : place[class[i].num] = i
    <3>0. /\ class[1].num = 1 /\ class[2].num = 4 /\ class[3].num = 6 /\ class[4].num = 8
          /\ class[5].num = 9 /\ class[6].num = 10 /\ class[7].num = 11 /\ class[8].num = 12
          /\ class[9].num = 13 /\ class[10].num = 16 /\ class[11].num = 17 /\ class[12].num = 19
          /\ class[13].num = 20 /\ class[14].num = 21 /\ class[15].num = 22 /\ class[16].num = 23
          /\ class[17].num = 24 /\ class[18].num = 25 /\ class[19].num = 26
      BY DEF Report!BackEndInfo
    <3>5. \A i \in 1..19 : i = 1 \/ i = 2 \/ i = 3 \/ i = 4 \/ i = 5 \/ i = 6 \/ i = 7 \/ i = 8 \/
            i = 9 \/ i = 10 \/ i = 11 \/ i = 12 \/ i = 13 \/ i = 14 \/ i = 15 \/ i = 16 \/
            i = 17 \/ i = 18 \/ i = 19
      OBVIOUS
    <3> HIDE DEF class, place
    <3>1. \A i \in 1..19 : class[i].num = <<1, 4, 6, 8, 9, 10, 11, 12, 13, 16, 17,
                                         19, 20, 21, 22, 23, 24, 25, 26>>[i]
      BY <3>0, <3>5
    <3>2. \A i \in 1..19 : place[<<1, 4, 6, 8, 9, 10, 11, 12, 13, 16, 17,
                                         19, 20, 21, 22, 23, 24, 25, 26>>[i]] = i
      BY DEF place
    <3>3. QED
      BY <3>1, <3>2
  <2> HIDE DEF class, place
  <2>3. Numbered(class)
    BY <2>1, <2>2, PlacesTellApart
  <2>4. QED
    BY <2>1, <2>3 DEF class
<1>12. Numbered(Report!MiniBackendInfo)
  <2> DEFINE class == Report!MiniBackendInfo
             place == [k \in 1..9 |-> IF k <= 2 THEN k ELSE k - 1]
  <2>1. DOMAIN class = 1..8
    BY DEF Report!MiniBackendInfo
  <2>2. \A i \in 1..8 : place[class[i].num] = i
    BY DEF Report!MiniBackendInfo
  <2> HIDE DEF class, place
  <2>3. Numbered(class)
    BY <2>1, <2>2, PlacesTellApart
  <2>4. QED
    BY <2>1, <2>3 DEF class
<1>13. Numbered(Report!ClickInfoEx)
  <2> DEFINE class == Report!ClickInfoEx
             place == [k \in 1..5 |-> k]
  <2>1. DOMAIN class = 1..5
    BY DEF Report!ClickInfoEx
  <2>2. \A i \in 1..5 : place[class[i].num] = i
    BY DEF Report!ClickInfoEx
  <2> HIDE DEF class, place
  <2>3. Numbered(class)
    BY <2>1, <2>2, PlacesTellApart
  <2>4. QED
    BY <2>1, <2>3 DEF class
<1>14. Numbered(Report!ClickInfo)
  <2> DEFINE class == Report!ClickInfo
             place == [k \in 1..9 |-> IF k <= 3 THEN k ELSE k - 1]
  <2>1. DOMAIN class = 1..8
    BY DEF Report!ClickInfo
  <2>2. \A i \in 1..8 : place[class[i].num] = i
    BY DEF Report!ClickInfo
  <2> HIDE DEF class, place
  <2>3. Numbered(class)
    BY <2>1, <2>2, PlacesTellApart
  <2>4. QED
    BY <2>1, <2>3 DEF class
<1>15. Numbered(Report!RenderInfo)
  <2> DEFINE class == Report!RenderInfo
             place == [k \in 1..6 |-> k]
  <2>1. DOMAIN class = 1..6
    BY DEF Report!RenderInfo
  <2>2. \A i \in 1..6 : place[class[i].num] = i
    BY DEF Report!RenderInfo
  <2> HIDE DEF class, place
  <2>3. Numbered(class)
    BY <2>1, <2>2, PlacesTellApart
  <2>4. QED
    BY <2>1, <2>3 DEF class
<1>16. QED
  BY <1>1, <1>2, <1>3, <1>4, <1>5, <1>6, <1>7, <1>8, <1>9, <1>10, <1>11, <1>12, <1>13, <1>14, <1>15

LEMMA ClassesAreSound ==
  /\ Sound4(Report!RenderInfo) /\ Sound4(Report!ClickInfo)
  /\ Sound4(Report!ClickInfoEx) /\ Sound4(Report!UserTrac)
<1> USE DEF Report!Field, Report!Message, Report!Repeated, Report!RepeatedOf,
            Report!U32, Report!U64, Report!Dbl, Report!Str
<1>1. \A class \in { Report!GuangInfo, Report!DisplayInfo, Report!UserInfo,
                     Report!Profiling, Report!BackEndAdTemplate, Report!BackEndSogouXmlReq,
                     Report!PublisherCategory, Report!UserTrac } :
        Sound1(class) /\ Sound2(class) /\ Sound3(class) /\ Sound4(class)
  BY ClassesAreNumbered, FlatAreSound
<1>2. Sound2(Report!AdInfo) /\ Sound3(Report!AdInfo)
  <2>1. \A i \in DOMAIN Report!AdInfo :
          Report!AdInfo[i].type = "MESSAGE" =>
            Report!AdInfo[i].of \in {Report!GuangInfo}
    <3> DEFINE class == Report!AdInfo
    <3>1. /\ class[22].of = Report!GuangInfo /\ class[1].type # "MESSAGE" /\ class[2].type # "MESSAGE"
          /\ class[3].type # "MESSAGE" /\ class[4].type # "MESSAGE" /\ class[5].type # "MESSAGE"
          /\ class[6].type # "MESSAGE" /\ class[7].type # "MESSAGE" /\ class[8].type # "MESSAGE"
          /\ class[9].type # "MESSAGE" /\ class[10].type # "MESSAGE" /\ class[11].type # "MESSAGE"
          /\ class[12].type # "MESSAGE" /\ class[13].type # "MESSAGE" /\ class[14].type # "MESSAGE"
          /\ class[15].type # "MESSAGE" /\ class[16].type # "MESSAGE" /\ class[17].type # "MESSAGE"
          /\ class[18].type # "MESSAGE" /\ class[19].type # "MESSAGE" /\ class[20].type # "MESSAGE"
          /\ class[21].type # "MESSAGE"
      BY DEF Report!AdInfo
    <3>2. DOMAIN class = 1..22
      BY DEF Report!AdInfo
    <3>3. \A i \in 1..22 : i = 1 \/ i = 2 \/ i = 3 \/ i = 4 \/ i = 5 \/ i = 6 \/ i = 7 \/ i = 8 \/
            i = 9 \/ i = 10 \/ i = 11 \/ i = 12 \/ i = 13 \/ i = 14 \/ i = 15 \/ i = 16 \/
            i = 17 \/ i = 18 \/ i = 19 \/ i = 20 \/ i = 21 \/ i = 22
      OBVIOUS
    <3> HIDE DEF class
    <3>4. \A i \in DOMAIN class : class[i].type = "MESSAGE" =>
            class[i].of \in {Report!GuangInfo}
      BY <3>1, <3>2, <3>3
    <3>5. QED
      BY <3>4 DEF class
  <2>2. QED
    BY <1>1, <2>1, ClassesAreNumbered
    DEF Sound2, Sound3, SoundWith
<1>3. Sound3(Report!FullAdInfo)
  <2>1. \A i \in DOMAIN Report!FullAdInfo :
          Report!FullAdInfo[i].type = "MESSAGE" => Report!FullAdInfo[i].of \in {Report!AdInfo}
    BY DEF Report!FullAdInfo
  <2>2. QED
    BY <1>2, <2>1, ClassesAreNumbered
    DEF Sound3, SoundWith
<1>4. Sound3(Report!BackEndInfo)
  <2>1. \A i \in DOMAIN Report!BackEndInfo :
          Report!BackEndInfo[i].type = "MESSAGE" =>
            Report!BackEndInfo[i].of \in {Report!BackEndAdTemplate, Report!BackEndSogouXmlReq, Report!PublisherCategory}
    <3> DEFINE class == Report!BackEndInfo
    <3>1. /\ class[3].of = Report!BackEndAdTemplate /\ class[4].of = Report!BackEndSogouXmlReq /\ class[18].of = Report!PublisherCategory
          /\ class[1].type # "MESSAGE" /\ class[2].type # "MESSAGE" /\ class[5].type # "MESSAGE"
          /\ class[6].type # "MESSAGE" /\ class[7].type # "MESSAGE" /\ class[8].type # "MESSAGE"
          /\ class[9].type # "MESSAGE" /\ class[10].type # "MESSAGE" /\ class[11].type # "MESSAGE"
          /\ class[12].type # "MESSAGE" /\ class[13].type # "MESSAGE" /\ class[14].type # "MESSAGE"
          /\ class[15].type # "MESSAGE" /\ class[16].type # "MESSAGE" /\ class[17].type # "MESSAGE"
          /\ class[19].type # "MESSAGE"
      BY DEF Report!BackEndInfo
    <3>2. DOMAIN class = 1..19
      BY DEF Report!BackEndInfo
    <3>3. \A i \in 1..19 : i = 1 \/ i = 2 \/ i = 3 \/ i = 4 \/ i = 5 \/ i = 6 \/ i = 7 \/ i = 8 \/
            i = 9 \/ i = 10 \/ i = 11 \/ i = 12 \/ i = 13 \/ i = 14 \/ i = 15 \/ i = 16 \/
            i = 17 \/ i = 18 \/ i = 19
      OBVIOUS
    <3> HIDE DEF class
    <3>4. \A i \in DOMAIN class : class[i].type = "MESSAGE" =>
            class[i].of \in {Report!BackEndAdTemplate, Report!BackEndSogouXmlReq, Report!PublisherCategory}
      BY <3>1, <3>2, <3>3
    <3>5. QED
      BY <3>4 DEF class
  <2>2. QED
    BY <1>1, <2>1, ClassesAreNumbered
    DEF Sound3, SoundWith
<1>5. Sound3(Report!MiniBackendInfo)
  <2>1. \A i \in DOMAIN Report!MiniBackendInfo :
          Report!MiniBackendInfo[i].type = "MESSAGE" => Report!MiniBackendInfo[i].of \in {Report!PublisherCategory}
    BY DEF Report!MiniBackendInfo
  <2>2. QED
    BY <1>1, <2>1, ClassesAreNumbered
    DEF Sound3, SoundWith
<1>6. Sound4(Report!ClickInfoEx)
  <2>1. \A i \in DOMAIN Report!ClickInfoEx :
          Report!ClickInfoEx[i].type = "MESSAGE" => Report!ClickInfoEx[i].of \in {Report!UserInfo}
    BY DEF Report!ClickInfoEx
  <2>2. QED
    BY <1>1, <2>1, ClassesAreNumbered
    DEF Sound4, SoundWith
<1>7. Sound4(Report!ClickInfo)
  <2>1. \A i \in DOMAIN Report!ClickInfo :
          Report!ClickInfo[i].type = "MESSAGE" => Report!ClickInfo[i].of \in {Report!AdInfo, Report!DisplayInfo, Report!MiniBackendInfo}
    BY DEF Report!ClickInfo
  <2>2. QED
    BY <1>1, <1>2, <1>5, <2>1, ClassesAreNumbered
    DEF Sound4, SoundWith
<1>8. Sound4(Report!RenderInfo)
  <2>1. \A i \in DOMAIN Report!RenderInfo :
          Report!RenderInfo[i].type = "MESSAGE" => Report!RenderInfo[i].of \in {Report!FullAdInfo, Report!DisplayInfo, Report!UserInfo, Report!BackEndInfo, Report!Profiling}
    BY DEF Report!RenderInfo
  <2>2. QED
    BY <1>1, <1>3, <1>4, <2>1, ClassesAreNumbered
    DEF Sound4, SoundWith
<1>9. QED
  BY <1>1, <1>6, <1>7, <1>8

(* A message whose fields are missing, and one of which one is changed.    *)
LEMMA ChangedFits ==
  ASSUME NEW class, NEW m, Fits4(class, m), NEW n \in Report!Names(class), NEW v,
         LET f == Report!FieldNamed(class, n)
         IN  /\ f.many => IsSeq(v)
             /\ f.type = "MESSAGE" =>
                  \A k \in DOMAIN Values(f, v) : Fits3(f.of, Values(f, v)[k])
  PROVE  Fits4(class, [m EXCEPT ![n] = v])
<1> DEFINE c == [m EXCEPT ![n] = v]
<1>1. m = [x \in Report!Names(class) |-> m[x]]
  BY DEF Fits4, FitsWith
<1>2. /\ c = [x \in Report!Names(class) |-> c[x]]
      /\ \A x \in Report!Names(class) : c[x] = IF x = n THEN v ELSE m[x]
  BY <1>1
<1> HIDE DEF c
<1>3. ASSUME NEW x \in Report!Names(class)
      PROVE  LET f == Report!FieldNamed(class, x)
             IN  /\ f.many => IsSeq(c[x])
                 /\ f.type = "MESSAGE" =>
                      \A k \in DOMAIN Values(f, c[x]) : Fits3(f.of, Values(f, c[x])[k])
  <2>1. CASE x = n
    BY <1>2, <2>1
  <2>2. CASE x # n
    <3>1. c[x] = m[x]
      BY <1>2, <2>2
    <3>2. QED
      BY <3>1 DEF Fits4, FitsWith
  <2>3. QED
    BY <2>1, <2>2
<1>4. QED
  BY <1>2, <1>3 DEF Fits4, FitsWith, c

LEMMA SamplesFit ==
  ASSUME NEW class, NEW m \in Report!Samples(class)
  PROVE  Fits4(class, m)
<1> DEFINE full == Report!Filled(class, <<>>)
           none(n) == IF Report!FieldNamed(class, n).many THEN <<>> ELSE Unset
<1>1. \/ m = full
      \/ \E n \in Report!Names(class) : m = [full EXCEPT ![n] = none(n)]
  BY DEF Report!Samples
<1>2. Fits4(class, full)
  BY FilledFits4
<1> HIDE DEF full
<1>3. ASSUME NEW n \in Report!Names(class)
      PROVE  Fits4(class, [full EXCEPT ![n] = none(n)])
  <2> DEFINE f == Report!FieldNamed(class, n)
  <2> HIDE DEF f
  <2>1. Values(f, none(n)) = <<>> /\ (f.many => IsSeq(none(n)))
    BY PairIsSeq DEF Values, f
  <2>2. \A k \in DOMAIN Values(f, none(n)) : Fits3(f.of, Values(f, none(n))[k])
    BY <2>1
  <2> HIDE DEF none
  <2>3. QED
    BY <1>2, <2>1, <2>2, ChangedFits DEF f
<1>4. QED
  BY <1>1, <1>2, <1>3

LEMMA SamplesAreRead ==
  ASSUME NEW class \in {Report!RenderInfo, Report!ClickInfo, Report!ClickInfoEx, Report!UserTrac},
         NEW m \in Report!Samples(class)
  PROVE  Report!Parse(class, Report!Serialize(class, m)) = m
<1>1. Sound4(class)
  BY ClassesAreSound
<1>2. Fits4(class, m)
  BY SamplesFit
<1>3. QED
  BY <1>1, <1>2, IsRead4

(* The hash of a click is that of its line.                                *)
LEMMA ClickHashIsRead ==
  ASSUME NEW line \in Report!ClickLines
  PROVE  Report!ClickHash(line) = line.hash
<1> DEFINE class == Report!ClickInfoEx
           user == Report!Only(Report!UserInfo, "referer", line.referer)
           only == Report!Only(class, "user_info", user)
           m == [only EXCEPT !["click_hash"] = line.hash]
<1>1. /\ DOMAIN class = 1..5 /\ class[1].name = "user_info" /\ class[5].name = "click_hash"
      /\ class[1].of = Report!UserInfo
      /\ \A i \in 2..5 : class[i].type # "MESSAGE"
      /\ \A i \in 1..5 : class[i].many = FALSE
  <2> DEFINE u == Report!UserInfo
  <2>1. class = << Report!Message(1, "user_info", u), Report!U64(2, "click_time"),
                   Report!U32(3, "click_ip"), Report!Str(4, "click_url"), Report!U64(5, "click_hash") >>
    BY DEF Report!ClickInfoEx
  <2> HIDE DEF class, u
  <2>2. /\ DOMAIN class = 1..5
        /\ class[1] = Report!Message(1, "user_info", u) /\ class[2] = Report!U64(2, "click_time")
        /\ class[3] = Report!U32(3, "click_ip") /\ class[4] = Report!Str(4, "click_url")
        /\ class[5] = Report!U64(5, "click_hash")
    BY <2>1
  <2>3. /\ class[1].name = "user_info" /\ class[1].of = u /\ class[1].many = FALSE
    BY <2>2 DEF Report!Message
  <2>4. /\ class[5].name = "click_hash"
        /\ \A i \in 2..5 : class[i].type # "MESSAGE" /\ class[i].many = FALSE
    <3>1. \A i \in 2..5 : i = 2 \/ i = 3 \/ i = 4 \/ i = 5
      OBVIOUS
    <3>2. \A i \in 2..5 : class[i].type \in {"UINT32", "UINT64", "STRING"} /\ class[i].many = FALSE
      BY <2>2, <3>1 DEF Report!U64, Report!U32, Report!Str, Report!Field
    <3>3. class[5].name = "click_hash"
      BY <2>2 DEF Report!U64, Report!Field
    <3>4. QED
      BY <3>2, <3>3
  <2>5. \A i \in 1..5 : i = 1 \/ i \in 2..5
    OBVIOUS
  <2>6. QED
    BY <2>2, <2>3, <2>4, <2>5 DEF u
<1>0. /\ DOMAIN Report!UserInfo = 1..5
      /\ \A i \in 1..5 : Report!UserInfo[i].many = FALSE /\ Report!UserInfo[i].type # "MESSAGE"
  <2> DEFINE u == Report!UserInfo
  <2>1. /\ DOMAIN u = 1..5
        /\ u[1] = Report!Field(1, "BYTES", "xxid") /\ u[2] = Report!Str(2, "muid")
        /\ u[3] = Report!Str(3, "referer") /\ u[4] = Report!Str(4, "user_agent")
        /\ u[5] = Report!Str(5, "original_referer")
    BY DEF Report!UserInfo
  <2> HIDE DEF u
  <2>2. \A i \in 1..5 : i = 1 \/ i = 2 \/ i = 3 \/ i = 4 \/ i = 5
    OBVIOUS
  <2>3. \A i \in 1..5 : u[i].many = FALSE /\ u[i].type \in {"BYTES", "STRING"}
    BY <2>1, <2>2 DEF Report!Str, Report!Field
  <2>4. QED
    BY <2>1, <2>3 DEF u
<1>2. \A n \in Report!Names(class) :
        LET f == Report!FieldNamed(class, n)
        IN  /\ f.many = FALSE
            /\ f.type = "MESSAGE" => n = "user_info" /\ f.of = Report!UserInfo
  <2> HIDE DEF class
  <2>1. TAKE n \in Report!Names(class)
  <2>2. PICK i \in DOMAIN class : Report!FieldNamed(class, n) = class[i] /\ class[i].name = n
    BY FieldIsNamed
  <2>3. i \in 1..5
    BY <1>1
  <2>4. i = 1 \/ i \in 2..5
    BY <2>3
  <2>5. QED
    BY <1>1, <2>2, <2>3, <2>4
<1>3. \A n \in Report!Names(Report!UserInfo) :
        LET f == Report!FieldNamed(Report!UserInfo, n)
        IN  f.many = FALSE /\ f.type # "MESSAGE"
  BY <1>0, FieldIsNamed
<1>4. Fits3(Report!UserInfo, user)
  <2>1. user = [n \in Report!Names(Report!UserInfo) |-> user[n]]
    BY DEF Report!Only
  <2> HIDE DEF user
  <2>2. QED
    BY <1>3, <2>1 DEF Fits3, FitsWith
<1>5. "click_hash" \in Report!Names(class) /\ "user_info" \in Report!Names(class)
  <2> HIDE DEF class
  <2>1. QED
    BY <1>1 DEF Report!Names
<1>6. /\ m = [n \in Report!Names(class) |-> m[n]]
      /\ m["click_hash"] = line.hash
      /\ m["user_info"] = user
  <2> HIDE DEF class, user
  <2>1. QED
    BY <1>5 DEF Report!Only
<1>7. m = [Report!Only(Report!ClickInfoEx, "user_info",
               Report!Only(Report!UserInfo, "referer", line.referer))
             EXCEPT !["click_hash"] = line.hash]
  OBVIOUS
<1> HIDE DEF m, class, user
<1>8. Fits4(class, m)
  <2>1. ASSUME NEW n \in Report!Names(class)
        PROVE  LET f == Report!FieldNamed(class, n)
               IN  /\ f.many => IsSeq(m[n])
                   /\ f.type = "MESSAGE" =>
                        \A k \in DOMAIN Values(f, m[n]) : Fits3(f.of, Values(f, m[n])[k])
    <3> DEFINE f == Report!FieldNamed(class, n)
    <3>1. f.many = FALSE /\ (f.type = "MESSAGE" => m[n] = user /\ f.of = Report!UserInfo)
      BY <1>2, <1>6
    <3> HIDE DEF f
    <3>2. Values(f, m[n]) \in {<<>>, <<m[n]>>}
      BY <3>1 DEF Values
    <3>3. \A k \in DOMAIN Values(f, m[n]) : Values(f, m[n])[k] = m[n]
      BY <3>2
    <3>4. QED
      BY <1>4, <3>1, <3>3 DEF f
  <2>2. QED
    BY <1>6, <2>1 DEF Fits4, FitsWith
<1>9. Sound4(class)
  BY ClassesAreSound DEF class
<1>10. Report!Parse(class, Report!Serialize(class, m)) = m
  BY <1>8, <1>9, IsRead4
<1>11. Report!ClickHash(line) = Report!Parse(class, Report!Serialize(class, m))["click_hash"]
  BY <1>7, Zenon DEF Report!ClickHash, Report!ClickExMessage, class
<1>12. QED
  BY <1>6, <1>10, <1>11

-----------------------------------------------------------------------------
(***************************************************************************)
(* Rows.  What the mapper prints are rows of a hash, and the rest of a row *)
(* that a line feed has cut.                                               *)
(***************************************************************************)
NoHash == ""

IsRow(r) ==
  r = Report!Row(r.key, r.type, r.text) /\ r.key # NoHash /\ r.type \in {"CLICK", "TRAC", "HOP"}

Lines(B) == \A r \in DOMAIN B : IsRow(r) \/ r = Report!Fragment("c")

Printable(rows) ==
  \/ rows = <<>>
  \/ \E r : IsRow(r) /\ rows \in {<<r>>, <<Report!Fragment("c"), r>>}

LEMMA LinesAreKeyed ==
  ASSUME NEW B, Lines(B), NEW r \in DOMAIN B
  PROVE  /\ r.key # NoHash /\ (r.type = "CLICK" => IsRow(r))
         /\ ~(r.fields < 2) => IsRow(r)
<1>1. /\ Report!Fragment("c").key = "c" /\ Report!Fragment("c").type = ""
      /\ Report!Fragment("c").fields = 1
  BY DEF Report!Fragment
<1>2. IsRow(r) \/ r = Report!Fragment("c")
  BY DEF Lines
<1>3. CASE IsRow(r)
  BY <1>3 DEF IsRow
<1>4. CASE r = Report!Fragment("c")
  <2>1. r.key = "c" /\ r.type = "" /\ r.fields = 1
    BY <1>1, <1>4, Zenon
  <2>2. r.key # NoHash /\ r.type # "CLICK"
    BY <2>1 DEF NoHash
  <2>3. r.fields < 2
    <3>1. 1 < 2
      OBVIOUS
    <3>2. QED
      BY <2>1, <3>1, Zenon
  <2>4. QED
    BY <2>2, <2>3, Zenon
<1>5. QED
  BY <1>2, <1>3, <1>4

LEMMA RowsArePrintable ==
  ASSUME NEW hash, NEW type \in {"CLICK", "TRAC", "HOP"}, NEW text
  PROVE  /\ Printable(Report!RowsOf(hash, type, text))
         /\ hash # NoHash => Printable(<<Report!Row(hash, type, text)>>)
<1>1. \A key : key # NoHash => IsRow(Report!Row(key, type, text))
  BY DEF IsRow, Report!Row
<1>2. hash # NoHash => Printable(<<Report!Row(hash, type, text)>>)
  BY <1>1 DEF Printable
<1>3. Printable(Report!RowsOf(hash, type, text))
  <2> DEFINE rows == Report!RowsOf(hash, type, text)
             ut == Report!Row("ut", type, text)
  <2>1. \/ rows = <<>>
        \/ rows = <<Report!Fragment("c"), ut>>
        \/ hash # NoHash /\ rows = <<Report!Row(hash, type, text)>>
    <3>1. CASE hash = ""
      BY <3>1 DEF Report!RowsOf, Report!cut
    <3>2. CASE hash = Report!cut
      BY <3>2 DEF Report!RowsOf, Report!cut
    <3>3. CASE hash # "" /\ hash # Report!cut
      BY <3>3, Zenon DEF Report!RowsOf, NoHash
    <3>4. QED
      BY <3>1, <3>2, <3>3
  <2>2. IsRow(ut)
    BY <1>1 DEF NoHash
  <2> HIDE DEF ut, rows
  <2>3. QED
    BY <1>2, <2>1, <2>2 DEF Printable, rows
<1>4. QED
  BY <1>2, <1>3

(* What print adds to the rows, of which the first may run into another.   *)
Whole(rows, stuck) == IF stuck /\ rows # <<>> THEN Tail(rows) ELSE rows

LEMMA WholeRows ==
  ASSUME NEW rows, Printable(rows), NEW stuck \in BOOLEAN,
         NEW S, S = Report!ToSet(rows), NEW T, T = Report!ToSet(Whole(rows, stuck))
  PROVE  /\ IsFiniteSet(S) /\ IsFiniteSet(T) /\ T \subseteq S
         /\ \A r \in S : IsRow(r) \/ r = Report!Fragment("c")
         /\ Cardinality(S) \in Nat /\ Cardinality(T) \in Nat
         /\ stuck /\ rows # <<>> => Cardinality(S) = Cardinality(T) + 1
         /\ ~(stuck /\ rows # <<>>) => S = T
<1>1. \A s : Report!ToSet(s) = {s[i] : i \in DOMAIN s}
  BY DEF Report!ToSet
<1>2. Report!ToSet(<<>>) = {}
  BY <1>1
<1>3. \A a : Report!ToSet(<<a>>) = {a} /\ Tail(<<a>>) = <<>> /\ <<a>> # <<>>
  <2> TAKE a
  <2>1. Report!ToSet(<<a>>) = {a}
    <3>1. Report!ToSet(<<a>>) = {<<a>>[i] : i \in DOMAIN <<a>>}
      BY <1>1
    <3>2. DOMAIN <<a>> = {1} /\ <<a>>[1] = a
      OBVIOUS
    <3> DEFINE s == <<a>>
    <3> HIDE DEF s
    <3>3. DOMAIN s = {1} /\ s[1] = a /\ Report!ToSet(s) = {s[i] : i \in DOMAIN s}
      BY <3>1, <3>2 DEF s
    <3>4. Report!ToSet(s) = {a}
      BY <3>3
    <3>5. QED
      BY <3>4 DEF s
  <2>2. <<a>> # <<>> /\ Tail(<<a>>) = <<>>
    OBVIOUS
  <2>3. QED
    BY <2>1, <2>2
<1>4. \A a, b : Report!ToSet(<<a, b>>) = {a, b} /\ Tail(<<a, b>>) = <<b>> /\ <<a, b>> # <<>>
  <2> TAKE a, b
  <2>1. Report!ToSet(<<a, b>>) = {a, b}
    <3> DEFINE s == <<a, b>>
    <3>1. DOMAIN s = {1, 2} /\ s[1] = a /\ s[2] = b
      OBVIOUS
    <3> HIDE DEF s
    <3>2. Report!ToSet(s) = {s[i] : i \in DOMAIN s}
      BY <1>1
    <3>3. Report!ToSet(s) = {a, b}
      BY <3>1, <3>2
    <3>4. QED
      BY <3>3 DEF s
  <2>2. <<a, b>> # <<>> /\ Tail(<<a, b>>) = <<b>>
    OBVIOUS
  <2>3. QED
    BY <2>1, <2>2
<1>5. /\ IsFiniteSet({}) /\ Cardinality({}) = 0
      /\ \A a : IsFiniteSet({a}) /\ Cardinality({a}) = 1
  BY FS_EmptySet, FS_Singleton
<1>6. \A a, b : a # b => IsFiniteSet({a, b}) /\ Cardinality({a, b}) = 2
  <2> TAKE a, b
  <2> HAVE a # b
  <2>1. {a, b} = {a} \cup {b} /\ b \notin {a}
    OBVIOUS
  <2>2. IsFiniteSet({a} \cup {b}) /\ Cardinality({a} \cup {b}) = Cardinality({a}) + 1
    BY <1>5, <2>1, FS_AddElement
  <2>3. Cardinality({a}) = 1
    BY <1>5
  <2>4. QED
    BY <2>1, <2>2, <2>3
<1>7. CASE rows = <<>>
  BY <1>2, <1>5, <1>7 DEF Whole
<1>8. ASSUME NEW r, IsRow(r), rows = <<r>>
      PROVE  /\ S = {r} /\ rows # <<>>
             /\ T = IF stuck THEN {} ELSE {r}
  BY <1>2, <1>3, <1>8 DEF Whole
<1>9. ASSUME NEW r, IsRow(r), rows = <<Report!Fragment("c"), r>>
      PROVE  /\ S = {Report!Fragment("c"), r} /\ rows # <<>>
             /\ T = IF stuck THEN {r} ELSE {Report!Fragment("c"), r}
             /\ Report!Fragment("c") # r
  <2>1. Report!Fragment("c") # r
    <3>1. Report!Fragment("c").fields = 1 /\ r.fields = 3
      <4>1. Report!Row(r.key, r.type, r.text).fields = 3
        BY DEF Report!Row
      <4>2. r = Report!Row(r.key, r.type, r.text)
        BY <1>9 DEF IsRow
      <4>3. r.fields = 3
        BY <4>1, <4>2, Zenon
      <4>4. QED
        BY <4>3 DEF Report!Fragment
    <3>2. QED
      BY <3>1
  <2>2. S = {Report!Fragment("c"), r} /\ rows # <<>>
    BY <1>4, <1>9
  <2>3. T = IF stuck THEN {r} ELSE {Report!Fragment("c"), r}
    BY <1>3, <1>4, <1>9 DEF Whole
  <2>4. QED
    BY <2>1, <2>2, <2>3
<1>10. CASE rows # <<>>
  <2>1. PICK r : IsRow(r) /\ rows \in {<<r>>, <<Report!Fragment("c"), r>>}
    BY <1>10 DEF Printable
  <2>2. CASE rows = <<r>>
    <3>1. S = {r} /\ rows # <<>> /\ T = IF stuck THEN {} ELSE {r}
      BY <1>8, <2>1, <2>2
    <3>0. /\ IsFiniteSet(S) /\ Cardinality(S) = 1
          /\ \A x \in S : IsRow(x) \/ x = Report!Fragment("c")
      BY <1>5, <2>1, <3>1
    <3>2. CASE stuck
      <4>1. T = {} /\ IsFiniteSet(T) /\ Cardinality(T) = 0
        BY <1>5, <3>1, <3>2
      <4>2. T \subseteq S /\ Cardinality(S) = Cardinality(T) + 1
        BY <3>0, <4>1
      <4>3. Cardinality(S) \in Nat /\ Cardinality(T) \in Nat
        BY <3>0, <4>1
      <4>4. QED
        BY <3>0, <3>1, <3>2, <4>1, <4>2, <4>3, Zenon
    <3>3. CASE ~stuck
      <4>1. T = S
        BY <3>1, <3>3
      <4>2. QED
        BY <3>0, <3>3, <4>1
    <3>4. QED
      BY <3>2, <3>3
  <2>3. CASE rows = <<Report!Fragment("c"), r>>
    <3> DEFINE f == Report!Fragment("c")
    <3>1. S = {f, r} /\ T = (IF stuck THEN {r} ELSE {f, r}) /\ f # r
      BY <1>9, <2>1, <2>3
    <3> HIDE DEF f
    <3>2. IsFiniteSet({f, r}) /\ Cardinality({f, r}) = 2
      BY <1>6, <3>1
    <3>3. \A x \in S : IsRow(x) \/ x = Report!Fragment("c")
      BY <2>1, <3>1 DEF f
    <3>4. CASE stuck
      <4>1. T = {r}
        BY <3>1, <3>4
      <4>2. IsFiniteSet(S) /\ IsFiniteSet(T) /\ T \subseteq S /\ Cardinality(S) = 2 /\ Cardinality(T) = 1
        BY <1>5, <3>1, <3>2, <4>1
      <4>3. /\ Cardinality(S) = Cardinality(T) + 1
            /\ Cardinality(S) \in Nat /\ Cardinality(T) \in Nat
        BY <4>2
      <4>4. QED
        BY <1>10, <3>3, <3>4, <4>2, <4>3, Zenon
    <3>5. CASE ~stuck
      <4>1. T = S /\ IsFiniteSet(S) /\ Cardinality(S) = 2
        BY <3>1, <3>2, <3>5
      <4>2. QED
        BY <3>3, <3>5, <4>1
    <3>6. QED
      BY <3>4, <3>5
  <2>4. QED
    BY <2>1, <2>2, <2>3
<1>11. QED
  BY <1>7, <1>10

-----------------------------------------------------------------------------
(***************************************************************************)
(* The pipeline.  Rows are lost only where a line without its line feed    *)
(* came first; and of every hash, the rows that the reducer has read are   *)
(* in its group, or it has read none of them or all.                       *)
(***************************************************************************)
PipeTypes ==
  /\ phase \in {"clicks", "tracs", "sorted", "done", "broken", "decoding", "decoded"}
  /\ read \in 0..MaxLines /\ unended \in 0..MaxLines
  /\ died \in BOOLEAN /\ glued \in BOOLEAN
  /\ phase = "clicks" => unended <= read
  /\ IsFiniteBag(called) /\ IsFiniteBag(printed) /\ IsFiniteBag(rest)
  /\ Lines(printed)

RestTypes == DOMAIN rest \subseteq DOMAIN printed /\ \A r \in DOMAIN rest : rest[r] <= printed[r]

Texts == {r.text : r \in DOMAIN printed}

GroupTypes ==
  /\ group = [key |-> group.key, clicks |-> group.clicks, tracs |-> group.tracs, hops |-> group.hops]
  /\ group.clicks \in Seq(Texts) /\ group.tracs \in Nat /\ group.hops \in Nat
  /\ group.tracs + group.hops + Len(group.clicks) + Report!BagCardinality(rest)
       <= Report!BagCardinality(printed)

Unread ==
  phase \in {"clicks", "tracs", "decoding", "decoded"} =>
    group = Report!NoGroup /\ reported = {} /\ rest = Report!EmptyBag

LossInv ==
  /\ DOMAIN printed \subseteq DOMAIN called /\ \A r \in DOMAIN printed : printed[r] <= called[r]
  /\ Report!BagCardinality(called) - Report!BagCardinality(printed)
       + (IF glued THEN 1 ELSE 0) <= unended

\* Of the rows of a hash, that all are still to be read, or none.
Untouched(B, key) ==
  \A r \in DOMAIN printed : r.key = key => r \in DOMAIN B /\ B[r] = printed[r]
Over(B, key) == \A r \in DOMAIN B : r.key # key

GroupInv(g, B) ==
  /\ \A key : key # g.key => Untouched(B, key) \/ Over(B, key)
  /\ g.key = NoHash => g = Report!NoGroup
  /\ g.key # NoHash => /\ g.tracs + Tally(B, g.key, "TRAC") = Tally(printed, g.key, "TRAC")
                       /\ g.hops + Tally(B, g.key, "HOP") = Tally(printed, g.key, "HOP")
  /\ g.clicks = <<>> =>
       \A r \in DOMAIN printed : r.key = g.key /\ r.type = "CLICK" => r \in DOMAIN B
  /\ g.clicks # <<>> => Report!Row(g.key, "CLICK", Report!Last(g.clicks)) \in DOMAIN printed

\* What is reported of a hash is all there is of it.
WholeReport(x) ==
  /\ x.tracs = Tally(printed, x.key, "TRAC") /\ x.hops = Tally(printed, x.key, "HOP")
  /\ Report!Row(x.key, "CLICK", x.media) \in DOMAIN printed

ReportInv(g, said, B) ==
  /\ \A x \in said : x.key # NoHash /\ x.key # g.key /\ Over(B, x.key) /\ WholeReport(x)
  /\ \A x, y \in said : x.key = y.key => x = y
  /\ \A r \in DOMAIN printed : r.type = "CLICK" /\ r.key # g.key /\ Over(B, r.key) =>
       \E x \in said : x.key = r.key

PipeInv ==
  /\ PipeTypes /\ RestTypes /\ GroupTypes /\ Unread /\ LossInv
  /\ phase = "sorted" => GroupInv(group, rest) /\ ReportInv(group, reported, rest)
  /\ phase = "done" => Report!ReportIsExact
  /\ Report!DecodedAsEncoded

LEMMA MaxLinesIsNat == MaxLines \in Nat
BY BatchAssumption DEF Report!LogPipelineAssumption

LEMMA NothingIsBag ==
  /\ IsFiniteBag(Report!EmptyBag) /\ DOMAIN Report!EmptyBag = {}
  /\ Report!BagCardinality(Report!EmptyBag) = 0
<1> DEFINE B == Report!EmptyBag
<1>1. DOMAIN B = {} /\ B = [x \in DOMAIN B |-> B[x]]
  BY DEF Report!EmptyBag, Report!SetToBag
<1> HIDE DEF B
<1>2. IsFiniteBag(B)
  BY <1>1, FS_EmptySet DEF IsFiniteBag, Report!IsABag
<1>3. Copies(B) = {}
  BY <1>1 DEF Copies
<1>4. Report!BagCardinality(B) = 0
  BY <1>2, <1>3, CountIsNat, FS_EmptySet
<1>5. QED
  BY <1>1, <1>2, <1>4 DEF B

LEMMA PipeInit == Report!Init => PipeInv
<1> SUFFICES ASSUME Report!Init
             PROVE  PipeInv
  OBVIOUS
<1> DEFINE B == Report!EmptyBag
           g == Report!NoGroup
<1>1. /\ phase \in {"clicks", "decoding"} /\ read = 0 /\ died = FALSE /\ glued = FALSE
      /\ unended = 0 /\ called = B /\ printed = B /\ rest = B /\ group = g /\ reported = {}
  BY DEF Report!Init
<1>2. g = [key |-> g.key, clicks |-> <<>>, tracs |-> 0, hops |-> 0] /\ g.clicks = <<>>
      /\ g.tracs = 0 /\ g.hops = 0
  BY DEF Report!NoGroup
<1>3. IsFiniteBag(B) /\ DOMAIN B = {} /\ Report!BagCardinality(B) = 0
  BY NothingIsBag
<1> HIDE DEF B, g
<1>4. PipeTypes
  <2>1. 0 \in 0..MaxLines
    BY MaxLinesIsNat
  <2>2. Lines(printed)
    BY <1>1, <1>3 DEF Lines
  <2>3. phase \in {"clicks", "tracs", "sorted", "done", "broken", "decoding", "decoded"}
    BY <1>1
  <2>4. IsFiniteBag(called) /\ IsFiniteBag(printed) /\ IsFiniteBag(rest)
    BY <1>1, <1>3
  <2>5. /\ read \in 0..MaxLines /\ unended \in 0..MaxLines
        /\ died \in BOOLEAN /\ glued \in BOOLEAN
    BY <1>1, <2>1
  <2>7. unended <= read
    BY <1>1, <2>5
  <2>6. QED
    BY <2>2, <2>3, <2>4, <2>5, <2>7 DEF PipeTypes
<1>5. RestTypes
  BY <1>1, <1>3 DEF RestTypes
<1>6. GroupTypes
  <2>1. <<>> \in Seq(Texts) /\ Len(<<>>) = 0
    OBVIOUS
  <2>2. group = [key |-> group.key, clicks |-> group.clicks, tracs |-> group.tracs, hops |-> group.hops]
    BY <1>1, <1>2
  <2>3. group.clicks = <<>> /\ group.tracs = 0 /\ group.hops = 0
    BY <1>1, <1>2
  <2>4. QED
    BY <1>1, <1>3, <2>1, <2>2, <2>3 DEF GroupTypes
<1>7. Unread
  BY <1>1 DEF Unread, B, g
<1>8. LossInv
  BY <1>1, <1>3 DEF LossInv
<1>9. phase # "sorted" /\ phase # "done" /\ Report!DecodedAsEncoded
  BY <1>1 DEF Report!DecodedAsEncoded
<1>10. QED
  BY <1>4, <1>5, <1>6, <1>7, <1>8, <1>9 DEF PipeInv

(* What a line leads to is printed, but for a row that runs into another.  *)
LEMMA Prints ==
  ASSUME PipeTypes, LossInv, NEW rows, Printable(rows), NEW ended \in BOOLEAN,
         Report!PrintRows(rows, ended), unended' = unended + IF ended THEN 0 ELSE 1
  PROVE  /\ IsFiniteBag(called') /\ IsFiniteBag(printed') /\ Lines(printed')
         /\ glued' \in BOOLEAN /\ LossInv'
<1> DEFINE S == Report!ToSet(rows)
           T == Report!ToSet(Whole(rows, glued))
<1>1. /\ called' = Report!(+)(called, Report!SetToBag(S))
      /\ printed' = Report!(+)(printed, Report!SetToBag(T))
      /\ glued' = IF rows = <<>> THEN glued ELSE ~ended
  BY DEF Report!PrintRows, Whole
<1>2. glued \in BOOLEAN /\ IsFiniteBag(called) /\ IsFiniteBag(printed) /\ Lines(printed)
      /\ unended \in Nat
  BY MaxLinesIsNat DEF PipeTypes
<1> HIDE DEF S, T
<1>3. /\ IsFiniteSet(S) /\ IsFiniteSet(T) /\ T \subseteq S
      /\ \A r \in S : IsRow(r) \/ r = Report!Fragment("c")
      /\ Cardinality(S) \in Nat /\ Cardinality(T) \in Nat
      /\ glued /\ rows # <<>> => Cardinality(S) = Cardinality(T) + 1
      /\ ~(glued /\ rows # <<>>) => S = T
  BY <1>2, WholeRows DEF S, T
<1>4. /\ IsFiniteBag(called') /\ DOMAIN called' = DOMAIN called \cup S
      /\ \A x \in DOMAIN called' : called'[x] = (IF x \in DOMAIN called THEN called[x] ELSE 0)
                                                  + (IF x \in S THEN 1 ELSE 0)
      /\ Report!BagCardinality(called') = Report!BagCardinality(called) + Cardinality(S)
  <2>1. Gains(called', called, S)
    BY <1>1, <1>2, <1>3, BagGains
  <2>2. QED
    BY <2>1 DEF Gains
<1>5. /\ IsFiniteBag(printed') /\ DOMAIN printed' = DOMAIN printed \cup T
      /\ \A x \in DOMAIN printed' : printed'[x] = (IF x \in DOMAIN printed THEN printed[x] ELSE 0)
                                                    + (IF x \in T THEN 1 ELSE 0)
      /\ Report!BagCardinality(printed') = Report!BagCardinality(printed) + Cardinality(T)
  <2>1. Gains(printed', printed, T)
    BY <1>1, <1>2, <1>3, BagGains
  <2>2. QED
    BY <2>1 DEF Gains
<1>6. Lines(printed')
  BY <1>2, <1>3, <1>5 DEF Lines
<1>7. glued' \in BOOLEAN
  BY <1>1, <1>2
<1>8. DOMAIN printed' \subseteq DOMAIN called'
  BY <1>3, <1>4, <1>5 DEF LossInv
<1>9. ASSUME NEW x \in DOMAIN printed'
      PROVE  printed'[x] <= called'[x]
  <2> DEFINE p == IF x \in DOMAIN printed THEN printed[x] ELSE 0
             c == IF x \in DOMAIN called THEN called[x] ELSE 0
             t == IF x \in T THEN 1 ELSE 0
             s == IF x \in S THEN 1 ELSE 0
  <2>1. p \in Nat /\ c \in Nat
    BY <1>2, BagIsTyped
  <2>2. p <= c
    BY <2>1 DEF LossInv
  <2>3. t \in Nat /\ s \in Nat /\ t <= s
    BY <1>3
  <2>4. printed'[x] = p + t /\ called'[x] = c + s
    BY <1>4, <1>5, <1>8
  <2> HIDE DEF p, c, t, s
  <2>5. QED
    BY <2>1, <2>2, <2>3, <2>4
<1>10. Report!BagCardinality(called') - Report!BagCardinality(printed')
         + (IF glued' THEN 1 ELSE 0) <= unended'
  <2> DEFINE c == Report!BagCardinality(called)
             p == Report!BagCardinality(printed)
             s == Cardinality(S)
             t == Cardinality(T)
             e == IF ended THEN 0 ELSE 1
             w == IF glued THEN 1 ELSE 0
             w2 == IF glued' THEN 1 ELSE 0
  <2>1. c \in Nat /\ p \in Nat
    BY <1>2, CountIsNat
  <2>2. c - p + w <= unended /\ unended' = unended + e
    BY DEF LossInv
  <2>3. Report!BagCardinality(called') = c + s /\ Report!BagCardinality(printed') = p + t
    BY <1>4, <1>5
  <2>4. s \in Nat /\ t \in Nat /\ w \in {0, 1} /\ w2 \in {0, 1} /\ e \in {0, 1}
    BY <1>3
  <2>5. s - t + w2 <= w + e
    <3>1. CASE rows = <<>>
      <4>1. s = t /\ w2 = w
        BY <1>1, <1>3, <3>1
      <4> HIDE DEF s, t, w, w2, e
      <4>2. QED
        BY <2>4, <4>1
    <3>2. CASE rows # <<>> /\ glued
      <4>1. s = t + 1 /\ w2 = e /\ w = 1
        BY <1>1, <1>3, <3>2
      <4> HIDE DEF s, t, w, w2, e
      <4>2. QED
        BY <2>4, <4>1
    <3>3. CASE rows # <<>> /\ ~glued
      <4>1. s = t /\ w2 = e /\ w = 0
        BY <1>1, <1>3, <3>3
      <4> HIDE DEF s, t, w, w2, e
      <4>2. QED
        BY <2>4, <4>1
    <3>4. QED
      BY <3>1, <3>2, <3>3
  <2>6. Report!BagCardinality(called') - Report!BagCardinality(printed') + w2 <= unended'
    <3> HIDE DEF c, p, s, t, w, w2, e
    <3>1. QED
      BY <1>2, <2>1, <2>2, <2>3, <2>4, <2>5
  <2>7. QED
    BY <2>6
<1>11. QED
  BY <1>4, <1>5, <1>6, <1>7, <1>8, <1>9, <1>10 DEF LossInv

LEMMA NothingAdded == \A n \in Nat : 0 + n = n /\ n + 0 = n
OBVIOUS

(* A group that is complete is handed over, and an empty one takes its     *)
(* place: that of a row's hash, or none at the end.                        *)
LEMMA HandsOver ==
  ASSUME PipeTypes, RestTypes, GroupTypes, GroupInv(group, rest), ReportInv(group, reported, rest),
         Over(rest, group.key),
         NEW key, key # group.key, key = NoHash \/ \E r \in DOMAIN rest : r.key = key,
         NEW g, g = [key |-> key, clicks |-> <<>>, tracs |-> 0, hops |-> 0]
  PROVE  /\ GroupInv(g, rest)
         /\ ReportInv(g, reported \cup (IF group.key = NoHash THEN {} ELSE Report!Reports(group)), rest)
<1>1. /\ IsFiniteBag(printed) /\ IsFiniteBag(rest) /\ Lines(printed)
      /\ DOMAIN rest \subseteq DOMAIN printed
  BY DEF PipeTypes, RestTypes
<1>2. \A r \in DOMAIN printed : r.key # NoHash
  BY <1>1, LinesAreKeyed
<1>3. g.key = key /\ g.clicks = <<>> /\ g.tracs = 0 /\ g.hops = 0
  OBVIOUS
<1>4. Untouched(rest, key)
  <2>1. Untouched(rest, key) \/ Over(rest, key)
    BY DEF GroupInv
  <2>2. CASE Over(rest, key)
    <3>1. key = NoHash
      BY <2>2 DEF Over
    <3>2. QED
      BY <1>2, <3>1 DEF Untouched
  <2>3. QED
    BY <2>1, <2>2
<1>5. \A type : Tally(rest, key, type) = Tally(printed, key, type) /\ Tally(printed, key, type) \in Nat
  <2> TAKE type
  <2>1. Alike(rest, printed, key)
    BY <1>1, <1>4 DEF Untouched, Alike
  <2>2. Tally(rest, key, type) = Tally(printed, key, type)
    BY <2>1, TallyIsSame
  <2>3. QED
    BY <1>1, <2>2, TallyIsNat
<1>6. GroupInv(g, rest)
  <2>1. ASSUME NEW k, k # g.key
        PROVE  Untouched(rest, k) \/ Over(rest, k)
    <3>1. CASE k = group.key
      BY <3>1
    <3>2. CASE k # group.key
      BY <3>2 DEF GroupInv
    <3>3. QED
      BY <3>1, <3>2
  <2>2. g.key = NoHash => g = Report!NoGroup
    BY <1>3 DEF Report!NoGroup, NoHash
  <2>3. /\ g.tracs + Tally(rest, g.key, "TRAC") = Tally(printed, g.key, "TRAC")
        /\ g.hops + Tally(rest, g.key, "HOP") = Tally(printed, g.key, "HOP")
    <3> DEFINE t == Tally(printed, key, "TRAC")
               u == Tally(printed, key, "HOP")
    <3>1. /\ Tally(rest, key, "TRAC") = t /\ t \in Nat
          /\ Tally(rest, key, "HOP") = u /\ u \in Nat
      BY <1>5
    <3> HIDE DEF t, u
    <3>2. 0 + t = t /\ 0 + u = u
      BY <3>1, NothingAdded, Zenon
    <3>3. QED
      BY <1>3, <3>1, <3>2 DEF t, u
  <2>4. \A r \in DOMAIN printed : r.key = g.key => r \in DOMAIN rest
    BY <1>3, <1>4 DEF Untouched
  <2>5. QED
    BY <1>3, <2>1, <2>2, <2>3, <2>4 DEF GroupInv
<1> DEFINE new == IF group.key = NoHash THEN {} ELSE Report!Reports(group)
           said == reported \cup new
<1>7. ASSUME NEW x \in new
      PROVE  /\ x.key = group.key /\ x.key # NoHash /\ WholeReport(x)
             /\ new = {x}
  <2> DEFINE y == [key |-> group.key, media |-> Report!Last(group.clicks),
                   tracs |-> group.tracs, hops |-> group.hops]
  <2>1. group.key # NoHash /\ group.clicks # <<>> /\ new = {y}
    BY DEF Report!Reports
  <2>2. x = y
    BY <2>1
  <2>3. /\ x.key = group.key /\ x.media = Report!Last(group.clicks)
        /\ x.tracs = group.tracs /\ x.hops = group.hops
    BY <2>2
  <2>4. \A r \in DOMAIN rest : r.key # group.key
    BY DEF Over
  <2>5. Tally(rest, group.key, "TRAC") = 0 /\ Tally(rest, group.key, "HOP") = 0
    BY <2>4, TallyIsNone
  <2>6. /\ group.tracs + Tally(rest, group.key, "TRAC") = Tally(printed, group.key, "TRAC")
        /\ group.hops + Tally(rest, group.key, "HOP") = Tally(printed, group.key, "HOP")
        /\ Report!Row(group.key, "CLICK", Report!Last(group.clicks)) \in DOMAIN printed
        /\ group.tracs \in Nat /\ group.hops \in Nat
    BY <2>1 DEF GroupInv, GroupTypes
  <2>7. group.tracs = Tally(printed, group.key, "TRAC") /\ group.hops = Tally(printed, group.key, "HOP")
    <3> DEFINE t == group.tracs
               u == group.hops
    <3>1. t \in Nat /\ u \in Nat
      BY <2>6
    <3>2. t + 0 = Tally(printed, group.key, "TRAC") /\ u + 0 = Tally(printed, group.key, "HOP")
      BY <2>5, <2>6
    <3> HIDE DEF t, u
    <3>3. t = Tally(printed, group.key, "TRAC") /\ u = Tally(printed, group.key, "HOP")
      BY <3>1, <3>2, NothingAdded, Zenon
    <3>4. QED
      BY <3>3 DEF t, u
  <2>8. WholeReport(x)
    BY <2>3, <2>6, <2>7 DEF WholeReport
  <2>9. QED
    BY <2>1, <2>2, <2>3, <2>8
<1>8. /\ \A x \in reported : x.key # NoHash /\ x.key # group.key /\ Over(rest, x.key) /\ WholeReport(x)
      /\ \A x, y \in reported : x.key = y.key => x = y
      /\ \A r \in DOMAIN printed : r.type = "CLICK" /\ r.key # group.key /\ Over(rest, r.key) =>
           \E x \in reported : x.key = r.key
  BY DEF ReportInv
<1>9. ASSUME NEW x \in reported
      PROVE  x.key # key
  <2>1. CASE key = NoHash
    BY <1>8, <2>1
  <2>2. CASE \E r \in DOMAIN rest : r.key = key
    BY <1>8, <2>2 DEF Over
  <2>3. QED
    BY <2>1, <2>2
<1>10. ASSUME NEW r \in DOMAIN printed, r.type = "CLICK", r.key # key, Over(rest, r.key)
       PROVE  \E x \in said : x.key = r.key
  <2>1. CASE r.key # group.key
    BY <1>8, <1>10, <2>1
  <2>2. CASE r.key = group.key
    <3>1. group.key # NoHash
      BY <1>2, <2>2
    <3>2. r \notin DOMAIN rest
      BY <1>10 DEF Over
    <3>3. group.clicks # <<>>
      BY <1>10, <2>2, <3>2 DEF GroupInv
    <3> DEFINE y == [key |-> group.key, media |-> Report!Last(group.clicks),
                     tracs |-> group.tracs, hops |-> group.hops]
    <3>4. y \in new /\ y.key = group.key
      BY <3>1, <3>3 DEF Report!Reports
    <3> HIDE DEF y, new
    <3>5. QED
      BY <2>2, <3>4
  <2>3. QED
    BY <2>1, <2>2
<1>11. ReportInv(g, said, rest)
  <2> HIDE DEF new
  <2>1. \A x \in said : x.key # NoHash /\ x.key # g.key /\ Over(rest, x.key) /\ WholeReport(x)
    BY <1>3, <1>7, <1>8, <1>9
  <2>2. \A x, y \in said : x.key = y.key => x = y
    BY <1>7, <1>8
  <2>3. QED
    BY <1>3, <1>10, <2>1, <2>2 DEF ReportInv
<1>12. QED
  BY <1>6, <1>11

(* The next row of the group's hash is counted in it.                      *)
LEMMA Consumes ==
  ASSUME PipeTypes, RestTypes, NEW g, GroupInv(g, rest), NEW said, ReportInv(g, said, rest),
         g.clicks \in Seq(Texts), g.tracs \in Nat, g.hops \in Nat,
         NEW r \in DOMAIN rest, r.key = g.key, IsRow(r),
         NEW B, B = Report!(-)(rest, Report!SetToBag({r})),
         NEW h, h.key = g.key,
         h.tracs = g.tracs + IF r.type = "TRAC" THEN 1 ELSE 0,
         h.hops = g.hops + IF r.type = "HOP" THEN 1 ELSE 0,
         h.clicks = IF r.type = "CLICK" THEN Append(g.clicks, r.text) ELSE g.clicks
  PROVE  GroupInv(h, B) /\ ReportInv(h, said, B)
<1>1. /\ IsFiniteBag(printed) /\ IsFiniteBag(rest) /\ Lines(printed)
      /\ DOMAIN rest \subseteq DOMAIN printed
  BY DEF PipeTypes, RestTypes
<1>2. /\ DOMAIN B = IF rest[r] = 1 THEN DOMAIN rest \ {r} ELSE DOMAIN rest
      /\ \A y \in DOMAIN B : B[y] = IF y = r THEN rest[r] - 1 ELSE rest[y]
  <2>1. Loses(B, rest, r)
    BY <1>1, BagLoses
  <2>2. QED
    BY <2>1 DEF Loses
<1>3. \A y \in DOMAIN rest : y # r => y \in DOMAIN B /\ B[y] = rest[y]
  BY <1>2
<1>4. DOMAIN B \subseteq DOMAIN rest
  BY <1>2
<1>5. \A type : Tally(B, g.key, type) = Tally(rest, g.key, type) - (IF r.type = type THEN 1 ELSE 0)
  BY <1>1, TallyLoses
<1>6. g.key # NoHash /\ r.text \in Texts /\ r = Report!Row(g.key, r.type, r.text)
  BY <1>1 DEF IsRow, Texts
<1>7. \A k : k # g.key => Untouched(B, k) \/ Over(B, k)
  <2> TAKE k
  <2> HAVE k # g.key
  <2>1. Untouched(rest, k) \/ Over(rest, k)
    BY DEF GroupInv
  <2>2. Untouched(rest, k) => Untouched(B, k)
    BY <1>3 DEF Untouched
  <2>3. Over(rest, k) => Over(B, k)
    BY <1>4 DEF Over
  <2>4. QED
    BY <2>1, <2>2, <2>3
<1>8. /\ h.tracs + Tally(B, g.key, "TRAC") = Tally(printed, g.key, "TRAC")
      /\ h.hops + Tally(B, g.key, "HOP") = Tally(printed, g.key, "HOP")
  <2> DEFINE t == Tally(rest, g.key, "TRAC")
             u == Tally(rest, g.key, "HOP")
             i == IF r.type = "TRAC" THEN 1 ELSE 0
             j == IF r.type = "HOP" THEN 1 ELSE 0
  <2>1. t \in Nat /\ u \in Nat /\ i \in Nat /\ j \in Nat
    BY <1>1, TallyIsNat
  <2>2. g.tracs + t = Tally(printed, g.key, "TRAC") /\ g.hops + u = Tally(printed, g.key, "HOP")
    BY <1>6 DEF GroupInv
  <2>3. Tally(B, g.key, "TRAC") = t - i /\ Tally(B, g.key, "HOP") = u - j
    BY <1>5
  <2>4. h.tracs = g.tracs + i /\ h.hops = g.hops + j
    OBVIOUS
  <2> HIDE DEF t, u, i, j
  <2>5. h.tracs + (t - i) = g.tracs + t /\ h.hops + (u - j) = g.hops + u
    BY <2>1, <2>4
  <2>6. QED
    BY <2>2, <2>3, <2>5
<1>9. ReportInv(h, said, B)
  <2>1. \A x \in said : x.key # NoHash /\ x.key # h.key /\ Over(B, x.key) /\ WholeReport(x)
    BY <1>4 DEF ReportInv, Over
  <2>2. \A x, y \in said : x.key = y.key => x = y
    BY DEF ReportInv
  <2>3. \A k : k # g.key /\ Over(B, k) => Over(rest, k)
    BY <1>3 DEF Over
  <2>4. \A y \in DOMAIN printed : y.type = "CLICK" /\ y.key # h.key /\ Over(B, y.key) =>
          \E x \in said : x.key = y.key
    BY <2>3 DEF ReportInv
  <2>5. QED
    BY <2>1, <2>2, <2>4 DEF ReportInv
<1>10. CASE r.type = "CLICK"
  <2>1. h.clicks # <<>> /\ Report!Last(h.clicks) = r.text
    <3> DEFINE s == Append(g.clicks, r.text)
               n == Len(g.clicks)
    <3>0. n \in Nat
      BY LenProperties
    <3>1. s \in Seq(Texts) /\ Len(s) = n + 1 /\ s[n + 1] = r.text
      <4>1. r.text \in Texts /\ g.clicks \in Seq(Texts)
        BY <1>6
      <4>2. QED
        BY <4>1, AppendProperties
    <3>2. h.clicks = s
      BY <1>10
    <3> HIDE DEF s, n
    <3>3. s # <<>>
      BY <3>0, <3>1, EmptySeq
    <3>4. QED
      BY <3>0, <3>1, <3>2, <3>3 DEF Report!Last
  <2>2. Report!Row(h.key, "CLICK", Report!Last(h.clicks)) \in DOMAIN printed
    BY <1>1, <1>6, <1>10, <2>1
  <2>3. GroupInv(h, B)
    BY <1>6, <1>7, <1>8, <2>1, <2>2 DEF GroupInv
  <2>4. QED
    BY <1>9, <2>3
<1>11. CASE r.type # "CLICK"
  <2>1. h.clicks = g.clicks
    BY <1>11
  <2>2. g.clicks = <<>> => \A y \in DOMAIN printed : y.key = g.key /\ y.type = "CLICK" => y \in DOMAIN B
    BY <1>3, <1>11 DEF GroupInv
  <2>3. g.clicks # <<>> => Report!Row(g.key, "CLICK", Report!Last(g.clicks)) \in DOMAIN printed
    BY DEF GroupInv
  <2>4. GroupInv(h, B)
    BY <1>6, <1>7, <1>8, <2>1, <2>2, <2>3 DEF GroupInv
  <2>5. QED
    BY <1>9, <2>4
<1>12. QED
  BY <1>10, <1>11

LEMMA NothingRead ==
  ASSUME IsFiniteBag(printed'), group' = Report!NoGroup, rest' = Report!EmptyBag
  PROVE  RestTypes' /\ GroupTypes'
<1>1. /\ DOMAIN rest' = {} /\ Report!BagCardinality(rest') = 0
      /\ Report!BagCardinality(printed') \in Nat
  BY NothingIsBag, CountIsNat
<1>2. RestTypes'
  BY <1>1 DEF RestTypes
<1>3. /\ group' = [key |-> group'.key, clicks |-> group'.clicks,
                   tracs |-> group'.tracs, hops |-> group'.hops]
      /\ group'.clicks = <<>> /\ group'.tracs = 0 /\ group'.hops = 0
  BY DEF Report!NoGroup
<1>4. <<>> \in Seq(Texts') /\ Len(<<>>) = 0
  OBVIOUS
<1>5. GroupTypes'
  BY <1>1, <1>3, <1>4 DEF GroupTypes
<1>6. QED
  BY <1>2, <1>5

LEMMA MapClicks == PipeInv /\ Report!MapClick => PipeInv'
<1> SUFFICES ASSUME PipeInv, Report!MapClick
             PROVE  PipeInv'
  OBVIOUS
<1>1. PICK line \in Report!ClickLines :
        /\ Report!PrintRows(Report!ClickRows(line), line.ended)
        /\ unended' = unended + IF line.ended THEN 0 ELSE 1
  BY DEF Report!MapClick
<1>2. /\ phase = "clicks" /\ phase' = "clicks" /\ read < MaxLines /\ read' = read + 1
      /\ died' = died /\ rest' = rest /\ group' = group /\ reported' = reported
  BY DEF Report!MapClick
<1> DEFINE rows == Report!ClickRows(line)
<1>3. Printable(rows)
  <2>1. line.hash \in Hashes
    BY DEF Report!ClickLines
  <2>2. line.hash # NoHash
    BY <2>1, BatchAssumption DEF Report!LogPipelineAssumption, NoHash
  <2>3. Report!ClickHash(line) = line.hash
    BY ClickHashIsRead
  <2> DEFINE media == Report!MediaId(line)
             hop == Report!RowsOf(Report!RefererHash(line), "HOP", media)
             click == <<Report!Row(Report!ClickHash(line), "CLICK", media)>>
  <2>4. rows \in {hop, click}
    BY DEF Report!ClickRows
  <2>5. Printable(hop)
    BY RowsArePrintable
  <2>6. Printable(click)
    BY <2>2, <2>3, RowsArePrintable
  <2> HIDE DEF rows, hop, click
  <2>7. QED
    BY <2>4, <2>5, <2>6
<1>4. PipeTypes /\ LossInv /\ line.ended \in BOOLEAN
  BY DEF PipeInv, Report!ClickLines
<1> HIDE DEF rows
<1>5. /\ IsFiniteBag(called') /\ IsFiniteBag(printed') /\ Lines(printed')
      /\ glued' \in BOOLEAN /\ LossInv'
  BY <1>1, <1>3, <1>4, Prints DEF rows
<1>6. group = Report!NoGroup /\ reported = {} /\ rest = Report!EmptyBag
  BY <1>2 DEF PipeInv, Unread
<1>7. RestTypes' /\ GroupTypes'
  BY <1>2, <1>5, <1>6, NothingRead
<1>8. read' \in 0..MaxLines /\ unended' \in 0..MaxLines /\ unended' <= read'
  <2> DEFINE e == IF line.ended THEN 0 ELSE 1
  <2>1. e \in {0, 1} /\ unended' = unended + e
    BY <1>1
  <2>2. read \in 0..MaxLines /\ unended \in 0..MaxLines /\ unended <= read
    BY <1>2, <1>4 DEF PipeTypes
  <2> HIDE DEF e
  <2>3. QED
    BY <1>2, <2>1, <2>2, MaxLinesIsNat
<1>9. PipeTypes'
  BY <1>2, <1>4, <1>5, <1>8 DEF PipeTypes
<1>10. Unread' /\ Report!DecodedAsEncoded' /\ phase' # "sorted" /\ phase' # "done"
  BY <1>2, <1>6 DEF Unread, Report!DecodedAsEncoded
<1>11. QED
  BY <1>5, <1>7, <1>9, <1>10 DEF PipeInv

LEMMA MapTracs == PipeInv /\ Report!MapTrac => PipeInv'
<1> SUFFICES ASSUME PipeInv, Report!MapTrac
             PROVE  PipeInv'
  OBVIOUS
<1>1. PICK rows : Printable(rows) /\ Report!PrintRows(rows, TRUE)
  <2>1. PICK hash \in Hashes \cup {"", Report!cut} :
          LET trac == Report!Parse(Report!UserTrac,
                        Report!Serialize(Report!UserTrac, Report!Only(Report!UserTrac, "click_hash", hash)))
          IN  Report!PrintRows(Report!RowsOf(trac["click_hash"], "TRAC", 0), TRUE)
    BY DEF Report!MapTrac
  <2>2. \A h : Printable(Report!RowsOf(h, "TRAC", 0))
    BY RowsArePrintable
  <2>3. QED
    BY <2>1, <2>2
<1>2. /\ phase = "tracs" /\ phase' = "tracs" /\ read < MaxLines /\ read' = read + 1
      /\ died' = died /\ rest' = rest /\ group' = group /\ reported' = reported
      /\ unended' = unended
  BY DEF Report!MapTrac
<1>3. PipeTypes /\ LossInv
  BY DEF PipeInv
<1>4. unended \in 0..MaxLines /\ read \in 0..MaxLines
  BY <1>3 DEF PipeTypes
<1>5. unended' = unended + IF TRUE THEN 0 ELSE 1
  BY <1>2, <1>4, MaxLinesIsNat
<1>6. /\ IsFiniteBag(called') /\ IsFiniteBag(printed') /\ Lines(printed')
      /\ glued' \in BOOLEAN /\ LossInv'
  BY <1>1, <1>3, <1>5, Prints
<1>7. group = Report!NoGroup /\ reported = {} /\ rest = Report!EmptyBag
  BY <1>2 DEF PipeInv, Unread
<1>8. RestTypes' /\ GroupTypes'
  BY <1>2, <1>6, <1>7, NothingRead
<1>9. read' \in 0..MaxLines /\ unended' \in 0..MaxLines
  BY <1>2, <1>4, MaxLinesIsNat
<1>10. PipeTypes'
  BY <1>2, <1>3, <1>6, <1>9 DEF PipeTypes
<1>11. Unread' /\ Report!DecodedAsEncoded' /\ phase' # "sorted" /\ phase' # "done"
  BY <1>2, <1>7 DEF Unread, Report!DecodedAsEncoded
<1>12. QED
  BY <1>6, <1>8, <1>10, <1>11 DEF PipeInv

LEMMA EndsClicks == PipeInv /\ Report!EndClicks => PipeInv'
<1> SUFFICES ASSUME PipeInv, Report!EndClicks
             PROVE  PipeInv'
  OBVIOUS
<1>1. /\ phase = "clicks" /\ phase' = "tracs" /\ read' = 0
      /\ died' = died /\ glued' = glued /\ unended' = unended /\ called' = called
      /\ printed' = printed /\ rest' = rest /\ group' = group /\ reported' = reported
  BY DEF Report!EndClicks
<1>2. 0 \in 0..MaxLines
  BY MaxLinesIsNat
<1>3. PipeTypes'
  BY <1>1, <1>2 DEF PipeInv, PipeTypes
<1>4. RestTypes' /\ GroupTypes' /\ LossInv'
  BY <1>1 DEF PipeInv, RestTypes, GroupTypes, Texts, LossInv
<1>5. Unread' /\ Report!DecodedAsEncoded' /\ phase' # "sorted" /\ phase' # "done"
  BY <1>1 DEF PipeInv, Unread, Report!DecodedAsEncoded
<1>6. QED
  BY <1>3, <1>4, <1>5 DEF PipeInv

LEMMA Decodes == PipeInv /\ Report!Decode => PipeInv'
<1> SUFFICES ASSUME PipeInv, Report!Decode
             PROVE  PipeInv'
  OBVIOUS
<1>1. /\ phase = "decoding" /\ phase' = "decoded" /\ read' = read
      /\ died' = died /\ glued' = glued /\ unended' = unended /\ called' = called
      /\ printed' = printed /\ rest' = rest /\ group' = group /\ reported' = reported
  BY DEF Report!Decode, Report!pipe
<1>2. PipeTypes'
  BY <1>1 DEF PipeInv, PipeTypes
<1>3. RestTypes' /\ GroupTypes' /\ LossInv'
  BY <1>1 DEF PipeInv, RestTypes, GroupTypes, Texts, LossInv
<1>4. Unread' /\ phase' # "sorted" /\ phase' # "done"
  BY <1>1 DEF PipeInv, Unread
<1>5. message'.decoded = message'.encoded
  <2>1. PICK class \in {Report!RenderInfo, Report!ClickInfo, Report!ClickInfoEx, Report!UserTrac} :
          \E m \in Report!Samples(class) :
            message' = [encoded |-> m, decoded |-> Report!Parse(class, Report!Serialize(class, m))]
    BY Zenon DEF Report!Decode
  <2>2. PICK m \in Report!Samples(class) :
          message' = [encoded |-> m, decoded |-> Report!Parse(class, Report!Serialize(class, m))]
    BY <2>1
  <2>3. Report!Parse(class, Report!Serialize(class, m)) = m
    BY SamplesAreRead
  <2>4. QED
    BY <2>2, <2>3
<1>6. QED
  BY <1>2, <1>3, <1>4, <1>5 DEF PipeInv, Report!DecodedAsEncoded

(* Before the reducer starts, all rows are still to be read.               *)
LEMMA Sorts == PipeInv /\ (Report!Sort \/ Report!MapFails) => PipeInv'
<1> SUFFICES ASSUME PipeInv, Report!Sort \/ Report!MapFails
             PROVE  PipeInv'
  OBVIOUS
<1>1. /\ phase \in {"clicks", "tracs"} /\ phase' = "sorted" /\ read' = read
      /\ died' \in {died, TRUE} /\ glued' = glued /\ unended' = unended /\ called' = called
      /\ printed' = printed /\ rest' = printed /\ group' = group /\ reported' = reported
  BY DEF Report!Sort, Report!MapFails
<1>2. /\ PipeTypes /\ GroupTypes /\ LossInv
      /\ group = Report!NoGroup /\ reported = {} /\ rest = Report!EmptyBag
  BY <1>1 DEF PipeInv, Unread
<1>3. IsFiniteBag(printed) /\ Lines(printed)
  BY <1>2 DEF PipeTypes
<1>4. PipeTypes'
  BY <1>1, <1>2, <1>3 DEF PipeTypes
<1>5. \A r \in DOMAIN printed : printed[r] \in Nat /\ r.key # NoHash
  BY <1>3, BagIsTyped, LinesAreKeyed
<1>6. RestTypes' /\ LossInv'
  BY <1>1, <1>2, <1>5 DEF RestTypes, LossInv
<1>7. /\ group.key = NoHash /\ group.clicks = <<>> /\ group.tracs = 0 /\ group.hops = 0
      /\ group = Report!NoGroup
  BY <1>2 DEF Report!NoGroup, NoHash
<1>8. GroupTypes'
  <2>1. Len(<<>>) = 0 /\ Report!BagCardinality(printed) \in Nat
    BY <1>3, CountIsNat
  <2>2. group.tracs + group.hops + Len(group.clicks) + Report!BagCardinality(printed)
          <= Report!BagCardinality(printed)
    BY <1>7, <2>1
  <2>3. QED
    BY <1>1, <1>2, <2>2 DEF GroupTypes, Texts
<1>9. GroupInv(group, rest)'
  <2>1. \A k : Untouched(printed, k)
    BY DEF Untouched
  <2>2. \A k : Untouched(rest, k)'
    BY <1>1, <2>1 DEF Untouched
  <2>3. QED
    BY <1>1, <1>7, <2>2 DEF GroupInv
<1>10. ReportInv(group, reported, rest)'
  <2>1. \A r \in DOMAIN printed : ~Over(printed, r.key)
    BY DEF Over
  <2>2. \A r \in DOMAIN printed' : ~Over(rest, r.key)'
    BY <1>1, <2>1 DEF Over
  <2>3. reported' = {}
    BY <1>1, <1>2
  <2>4. QED
    BY <2>2, <2>3 DEF ReportInv
<1>11. Unread' /\ Report!DecodedAsEncoded' /\ phase' # "done"
  BY <1>1 DEF Unread, Report!DecodedAsEncoded
<1>12. QED
  BY <1>4, <1>6, <1>8, <1>9, <1>10, <1>11 DEF PipeInv

LEMMA Turns ==
  ASSUME PipeInv, NEW key, NEW g, g = Report!Turn(key)
  PROVE  /\ g = [key |-> g.key, clicks |-> g.clicks, tracs |-> g.tracs, hops |-> g.hops]
         /\ g.key = key
         /\ g.clicks \in Seq(Texts) /\ g.tracs \in Nat /\ g.hops \in Nat
         /\ g.tracs + g.hops + Len(g.clicks) + Report!BagCardinality(rest)
              <= Report!BagCardinality(printed)
         /\ key = group.key => g = group
         /\ key # group.key => g = [key |-> key, clicks |-> <<>>, tracs |-> 0, hops |-> 0]
<1>1. /\ group = [key |-> group.key, clicks |-> group.clicks,
                  tracs |-> group.tracs, hops |-> group.hops]
      /\ group.clicks \in Seq(Texts) /\ group.tracs \in Nat /\ group.hops \in Nat
      /\ group.tracs + group.hops + Len(group.clicks) + Report!BagCardinality(rest)
           <= Report!BagCardinality(printed)
  BY DEF PipeInv, GroupTypes
<1>2. CASE key = group.key
  <2>1. g = group
    BY <1>2 DEF Report!Turn
  <2>2. QED
    BY <1>1, <1>2, <2>1
<1>3. CASE key # group.key
  <2>1. g = [key |-> key, clicks |-> <<>>, tracs |-> 0, hops |-> 0]
    BY <1>3 DEF Report!Turn, Report!NoGroup
  <2>2. <<>> \in Seq(Texts) /\ Len(<<>>) = 0
    OBVIOUS
  <2>3. Report!BagCardinality(rest) <= Report!BagCardinality(printed)
    <3> DEFINE b == Report!BagCardinality(rest)
               p == Report!BagCardinality(printed)
               t == group.tracs
               h == group.hops
               n == Len(group.clicks)
    <3>1. b \in Nat /\ p \in Nat
      BY CountIsNat DEF PipeInv, PipeTypes
    <3>2. n \in Nat
      BY <1>1, LenProperties
    <3>3. t \in Nat /\ h \in Nat /\ t + h + n + b <= p
      BY <1>1
    <3> HIDE DEF b, p, t, h, n
    <3>4. b <= p
      BY <3>1, <3>2, <3>3
    <3>5. QED
      BY <3>4 DEF b, p
  <2>4. 0 + 0 + 0 + Report!BagCardinality(rest) <= Report!BagCardinality(printed)
    <3>1. Report!BagCardinality(rest) \in Nat
      BY CountIsNat DEF PipeInv, PipeTypes
    <3>2. QED
      BY <2>3, <3>1
  <2>5. g.key = key /\ g.clicks = <<>> /\ g.tracs = 0 /\ g.hops = 0
    BY <2>1
  <2>6. QED
    BY <1>3, <2>1, <2>2, <2>4, <2>5
<1>4. QED
  BY <1>2, <1>3

\* A row counted in a group, and what that makes of the group.
Counted(g, r) ==
  CASE r.type = "CLICK" -> [g EXCEPT !.clicks = Append(@, r.text)]
    [] r.type = "TRAC"  -> [g EXCEPT !.tracs = @ + 1]
    [] r.type = "HOP"   -> [g EXCEPT !.hops = @ + 1]
    [] OTHER            -> g

Grows(h, g, r) ==
  /\ h = [key |-> h.key, clicks |-> h.clicks, tracs |-> h.tracs, hops |-> h.hops]
  /\ h.key = g.key
  /\ h.tracs = g.tracs + IF r.type = "TRAC" THEN 1 ELSE 0
  /\ h.hops = g.hops + IF r.type = "HOP" THEN 1 ELSE 0
  /\ h.clicks = IF r.type = "CLICK" THEN Append(g.clicks, r.text) ELSE g.clicks

LEMMA Counts ==
  ASSUME NEW g, g = [key |-> g.key, clicks |-> g.clicks, tracs |-> g.tracs, hops |-> g.hops],
         g.tracs \in Nat, g.hops \in Nat, NEW r, NEW h, h = Counted(g, r)
  PROVE  Grows(h, g, r)
<1>1. CASE r.type = "CLICK"
  <2>1. h = [key |-> g.key, clicks |-> Append(g.clicks, r.text), tracs |-> g.tracs, hops |-> g.hops]
    BY <1>1 DEF Counted
  <2>0. g.tracs + 0 = g.tracs /\ g.hops + 0 = g.hops
    OBVIOUS
  <2>3. /\ h = [key |-> h.key, clicks |-> h.clicks, tracs |-> h.tracs, hops |-> h.hops]
        /\ h.key = g.key
    BY <2>1
  <2>4. h.clicks = Append(g.clicks, r.text) /\ h.tracs = g.tracs /\ h.hops = g.hops
    BY <2>1
  <2>2. QED
    BY <1>1, <2>0, <2>3, <2>4 DEF Grows
<1>2. CASE r.type = "TRAC"
  <2>1. h = [key |-> g.key, clicks |-> g.clicks, tracs |-> g.tracs + 1, hops |-> g.hops]
    BY <1>2 DEF Counted
  <2>0. g.tracs + 0 = g.tracs /\ g.hops + 0 = g.hops
    OBVIOUS
  <2>3. /\ h = [key |-> h.key, clicks |-> h.clicks, tracs |-> h.tracs, hops |-> h.hops]
        /\ h.key = g.key
    BY <2>1
  <2>4. h.clicks = g.clicks /\ h.tracs = g.tracs + 1 /\ h.hops = g.hops
    BY <2>1
  <2>2. QED
    BY <1>2, <2>0, <2>3, <2>4 DEF Grows
<1>3. CASE r.type = "HOP"
  <2>1. h = [key |-> g.key, clicks |-> g.clicks, tracs |-> g.tracs, hops |-> g.hops + 1]
    BY <1>3 DEF Counted
  <2>0. g.tracs + 0 = g.tracs /\ g.hops + 0 = g.hops
    OBVIOUS
  <2>3. /\ h = [key |-> h.key, clicks |-> h.clicks, tracs |-> h.tracs, hops |-> h.hops]
        /\ h.key = g.key
    BY <2>1
  <2>4. h.clicks = g.clicks /\ h.tracs = g.tracs /\ h.hops = g.hops + 1
    BY <2>1
  <2>2. QED
    BY <1>3, <2>0, <2>3, <2>4 DEF Grows
<1>4. CASE r.type # "CLICK" /\ r.type # "TRAC" /\ r.type # "HOP"
  <2>1. h = g
    BY <1>4 DEF Counted
  <2>2. QED
    BY <1>4, <2>1 DEF Grows
<1>5. QED
  BY <1>1, <1>2, <1>3, <1>4

LEMMA Reduces == PipeInv /\ Report!Reduce => PipeInv'
<1> SUFFICES ASSUME PipeInv, Report!Reduce
             PROVE  PipeInv'
  OBVIOUS
<1>1. PICK r \in Report!Upcoming :
        LET g == Report!Turn(r.key)
        IN  /\ rest' = Report!(-)(rest, Report!SetToBag({r}))
            /\ reported' = reported \cup Report!Flushed(r.key)
            /\ phase' = IF r.fields < 2 THEN "broken" ELSE phase
            /\ group' = CASE r.type = "CLICK" -> [g EXCEPT !.clicks = Append(@, r.text)]
                          [] r.type = "TRAC"  -> [g EXCEPT !.tracs = @ + 1]
                          [] r.type = "HOP"   -> [g EXCEPT !.hops = @ + 1]
                          [] OTHER            -> g
  BY DEF Report!Reduce
<1>2. /\ phase = "sorted" /\ read' = read /\ died' = died /\ glued' = glued
      /\ unended' = unended /\ called' = called /\ printed' = printed
  BY DEF Report!Reduce
<1>3. /\ PipeTypes /\ RestTypes /\ GroupTypes /\ LossInv
      /\ GroupInv(group, rest) /\ ReportInv(group, reported, rest)
  BY <1>2 DEF PipeInv
<1>4. r \in DOMAIN rest /\ (r.key # group.key => Over(rest, group.key))
  BY DEF Report!Upcoming, Over
<1> DEFINE g == Report!Turn(r.key)
           B == rest'
           h == group'
<1>5. /\ g = [key |-> g.key, clicks |-> g.clicks, tracs |-> g.tracs, hops |-> g.hops]
      /\ g.key = r.key
      /\ g.clicks \in Seq(Texts) /\ g.tracs \in Nat /\ g.hops \in Nat
      /\ g.tracs + g.hops + Len(g.clicks) + Report!BagCardinality(rest)
           <= Report!BagCardinality(printed)
      /\ r.key = group.key => g = group
      /\ r.key # group.key => g = [key |-> r.key, clicks |-> <<>>, tracs |-> 0, hops |-> 0]
  <2> HIDE DEF g
  <2>1. QED
    BY Turns DEF g
<1>6. /\ h = [key |-> h.key, clicks |-> h.clicks, tracs |-> h.tracs, hops |-> h.hops]
      /\ h.key = g.key
      /\ h.tracs = g.tracs + IF r.type = "TRAC" THEN 1 ELSE 0
      /\ h.hops = g.hops + IF r.type = "HOP" THEN 1 ELSE 0
      /\ h.clicks = IF r.type = "CLICK" THEN Append(g.clicks, r.text) ELSE g.clicks
  <2>1. h = Counted(g, r)
    BY <1>1, Zenon DEF Counted
  <2> HIDE DEF g, h
  <2>2. Grows(h, g, r)
    BY <1>5, <2>1, Counts
  <2>3. QED
    BY <2>2 DEF Grows
<1>7. B = Report!(-)(rest, Report!SetToBag({r})) /\ reported' = reported \cup Report!Flushed(r.key)
      /\ phase' = IF r.fields < 2 THEN "broken" ELSE phase
  BY <1>1
<1> HIDE DEF g, h, B
<1>8. Loses(B, rest, r) /\ IsFiniteBag(rest)
  BY <1>3, <1>4, <1>7, BagLoses DEF PipeTypes
<1>9. PipeTypes'
  <2>1. phase' \in {"broken", "sorted"}
    BY <1>2, <1>7
  <2>2. IsFiniteBag(rest')
    BY <1>8 DEF Loses, B
  <2>3. QED
    BY <1>2, <1>3, <2>1, <2>2 DEF PipeTypes
<1>10. RestTypes'
  <2>1. \A y \in DOMAIN B : y \in DOMAIN rest /\ B[y] \in Int /\ rest[y] \in Int /\ B[y] <= rest[y]
    BY <1>4, <1>8, BagIsTyped DEF Loses
  <2>2. \A y \in DOMAIN rest : y \in DOMAIN printed /\ rest[y] <= printed[y] /\ printed[y] \in Int
    BY <1>3, BagIsTyped DEF RestTypes, PipeTypes
  <2>3. \A y \in DOMAIN B : y \in DOMAIN printed /\ B[y] <= printed[y]
    BY <2>1, <2>2
  <2>4. QED
    BY <1>2, <2>3 DEF RestTypes, B
<1>11. GroupTypes'
  <2>1. r.text \in Texts
    BY <1>3, <1>4 DEF RestTypes, Texts
  <2>2. h.clicks \in Seq(Texts) /\ h.tracs \in Nat /\ h.hops \in Nat
    <3>1. Append(g.clicks, r.text) \in Seq(Texts)
      BY <1>5, <2>1, AppendProperties
    <3>2. h.clicks \in Seq(Texts)
      BY <1>5, <1>6, <3>1
    <3>3. QED
      BY <1>5, <1>6, <3>2
  <2>3. h.tracs + h.hops + Len(h.clicks) + Report!BagCardinality(B) <= Report!BagCardinality(printed)
    <3> DEFINE i == IF r.type = "TRAC" THEN 1 ELSE 0
               j == IF r.type = "HOP" THEN 1 ELSE 0
               k == IF r.type = "CLICK" THEN 1 ELSE 0
               t == g.tracs
               u == g.hops
               n == Len(g.clicks)
               m == Len(h.clicks)
               b == Report!BagCardinality(rest)
               p == Report!BagCardinality(printed)
    <3>1. i \in Nat /\ j \in Nat /\ k \in Nat /\ i + j + k <= 1
      OBVIOUS
    <3>2. n \in Nat /\ m = n + k
      <4>1. Len(Append(g.clicks, r.text)) = Len(g.clicks) + 1 /\ Len(g.clicks) \in Nat
        BY <1>5, <2>1, AppendProperties, LenProperties
      <4>2. CASE r.type = "CLICK"
        BY <1>6, <4>1, <4>2
      <4>3. CASE r.type # "CLICK"
        BY <1>6, <4>1, <4>3
      <4>4. QED
        BY <4>2, <4>3
    <3>3. t \in Nat /\ u \in Nat /\ t + u + n + b <= p
      BY <1>5
    <3>4. b \in Nat /\ p \in Nat
      BY <1>3, CountIsNat DEF PipeTypes
    <3>5. Report!BagCardinality(B) = b - 1
      BY <1>8 DEF Loses
    <3>6. h.tracs = t + i /\ h.hops = u + j
      BY <1>6
    <3> HIDE DEF i, j, k, t, u, n, m, b, p
    <3>7. (t + i) + (u + j) + m + (b - 1) <= p
      BY <3>1, <3>2, <3>3, <3>4
    <3>8. QED
      BY <3>5, <3>6, <3>7 DEF m, p
  <2>4. QED
    BY <1>2, <1>6, <2>2, <2>3 DEF GroupTypes, Texts, h, B
<1>12. LossInv' /\ Unread' /\ Report!DecodedAsEncoded' /\ phase' # "done"
  BY <1>2, <1>3, <1>7 DEF LossInv, Unread, Report!DecodedAsEncoded
<1>13. ASSUME phase' = "sorted"
       PROVE  GroupInv(group, rest)' /\ ReportInv(group, reported, rest)'
  <2>1. ~(r.fields < 2)
    BY <1>2, <1>7, <1>13
  <2>2. r \in DOMAIN printed
    BY <1>3, <1>4 DEF RestTypes
  <2>3. IsRow(r)
    BY <1>3, <2>1, <2>2, LinesAreKeyed DEF PipeTypes
  <2> DEFINE said == reported'
  <2>4. GroupInv(g, rest) /\ ReportInv(g, said, rest)
    <3>1. CASE r.key = group.key
      <4>1. Report!Flushed(r.key) = {} /\ g = group
        BY <1>5, <3>1 DEF Report!Flushed
      <4>2. said = reported
        BY <1>7, <4>1
      <4> HIDE DEF said
      <4>3. QED
        BY <1>3, <4>1, <4>2
    <3>2. CASE r.key # group.key
      <4> DEFINE new == IF group.key = NoHash THEN {} ELSE Report!Reports(group)
      <4>1. said = reported \cup new
        BY <1>7, <3>2 DEF Report!Flushed, NoHash
      <4>2. Over(rest, group.key) /\ g = [key |-> r.key, clicks |-> <<>>, tracs |-> 0, hops |-> 0]
        BY <1>4, <1>5, <3>2
      <4> HIDE DEF said
      <4>3. GroupInv(g, rest) /\ ReportInv(g, reported \cup new, rest)
        BY <1>3, <1>4, <3>2, <4>2, HandsOver
      <4> HIDE DEF new
      <4>4. QED
        BY <4>1, <4>3
    <3>3. QED
      BY <3>1, <3>2
  <2> HIDE DEF said
  <2>5. GroupInv(h, B) /\ ReportInv(h, said, B)
    BY <1>3, <1>4, <1>5, <1>6, <1>7, <2>3, <2>4, Consumes
  <2>6. (\A k : Untouched(rest, k)' <=> Untouched(B, k)) /\ \A k : Over(rest, k)' <=> Over(B, k)
    BY <1>2 DEF Untouched, Over, B
  <2>7. \A k, type : Tally(printed, k, type)' = Tally(printed, k, type) /\ Tally(rest, k, type)' = Tally(B, k, type)
    BY <1>2 DEF Tally, Of, B
  <2>8. GroupInv(group, rest)'
    BY <1>2, <2>5, <2>6, <2>7 DEF GroupInv, h, B
  <2>9. ReportInv(group, reported, rest)'
    BY <1>2, <2>5, <2>6, <2>7 DEF ReportInv, WholeReport, h, B, said
  <2>10. QED
    BY <2>8, <2>9
<1>14. QED
  BY <1>9, <1>10, <1>11, <1>12, <1>13 DEF PipeInv

(* What is reported when all rows are read.                                *)
LEMMA AllIsReported ==
  ASSUME PipeTypes, NEW said, NEW g, g.key = NoHash, NEW B, DOMAIN B = {}, ReportInv(g, said, B)
  PROVE  /\ \A x \in said : /\ x.tracs = Report!Count(x.key, "TRAC")
                            /\ x.hops = Report!Count(x.key, "HOP")
                            /\ Report!Row(x.key, "CLICK", x.media) \in DOMAIN printed
         /\ {x.key : x \in said} = Report!Clicked
         /\ Cardinality(said) = Cardinality(Report!Clicked)
<1>1. IsFiniteBag(printed) /\ Lines(printed)
  BY DEF PipeTypes
<1>2. \A key, type : Report!Count(key, type) = Tally(printed, key, type)
  BY DEF Report!Count, Tally, Of
<1>3. \A x \in said : WholeReport(x)
  BY DEF ReportInv
<1>4. \A r \in DOMAIN printed : r.key # NoHash
  BY <1>1, LinesAreKeyed
<1>5. \A key, text : Report!Row(key, "CLICK", text).key = key /\ Report!Row(key, "CLICK", text).type = "CLICK"
  BY DEF Report!Row
<1>6. {x.key : x \in said} = Report!Clicked
  <2>1. ASSUME NEW x \in said
        PROVE  x.key \in Report!Clicked
    <3>1. Report!Row(x.key, "CLICK", x.media) \in DOMAIN printed
      BY <1>3 DEF WholeReport
    <3>2. QED
      BY <1>5, <3>1 DEF Report!Clicked
  <2>2. ASSUME NEW r \in DOMAIN printed, r.type = "CLICK"
        PROVE  \E x \in said : x.key = r.key
    <3>1. Over(B, r.key) /\ r.key # g.key
      BY <1>4 DEF Over
    <3>2. QED
      BY <2>2, <3>1 DEF ReportInv
  <2>3. QED
    BY <2>1, <2>2 DEF Report!Clicked
<1>7. Cardinality(said) = Cardinality(Report!Clicked)
  <2> DEFINE D == {r \in DOMAIN printed : r.type = "CLICK"}
             C == Report!Clicked
             keyOf == [r \in D |-> r.key]
             saidOf == [k \in C |-> CHOOSE x \in said : x.key = k]
  <2>1. IsFiniteSet(D)
    BY <1>1, FS_Subset DEF IsFiniteBag
  <2>2. C = {r.key : r \in D}
    BY DEF Report!Clicked
  <2>3. keyOf \in Surjection(D, C)
    <3> HIDE DEF D, C
    <3>1. QED
      BY <2>2 DEF Surjection
  <2>4. IsFiniteSet(C)
    <3> HIDE DEF keyOf, C, D
    <3>1. QED
      BY <2>1, <2>3, FS_Surjection
  <2>5. \A x, y \in said : x.key = y.key => x = y
    BY DEF ReportInv
  <2>6. \A k \in C : saidOf[k] \in said /\ saidOf[k].key = k
    <3> HIDE DEF C
    <3>1. \A k \in C : \E x \in said : x.key = k
      BY <1>6 DEF C
    <3>2. QED
      BY <3>1
  <2>7. \A x \in said : x.key \in C /\ saidOf[x.key] = x
    <3> HIDE DEF saidOf
    <3>1. \A x \in said : x.key \in C
      BY <1>6
    <3>2. QED
      BY <2>5, <2>6, <3>1
  <2>8. saidOf \in Bijection(C, said)
    <3>1. saidOf \in [C -> said]
      BY <2>6
    <3> HIDE DEF saidOf, C
    <3>2. \A k, l \in C : saidOf[k] = saidOf[l] => k = l
      BY <2>6
    <3>3. \A x \in said : \E k \in C : saidOf[k] = x
      BY <2>7
    <3>4. QED
      BY <3>1, <3>2, <3>3 DEF Bijection, Injection, Surjection, IsInjective
  <2> HIDE DEF saidOf, C
  <2>9. ExistsBijection(C, said)
    BY <2>8 DEF ExistsBijection
  <2>10. QED
    BY <2>4, <2>9, FS_Bijection DEF C
<1>8. QED
  BY <1>2, <1>3, <1>6, <1>7 DEF WholeReport

LEMMA SameCount == \A S : Report!Cardinality(S) = Cardinality(S)
  BY DEF Report!Cardinality, Cardinality

LEMMA Finishes == PipeInv /\ Report!Finish => PipeInv'
<1> SUFFICES ASSUME PipeInv, Report!Finish
             PROVE  PipeInv'
  OBVIOUS
<1>1. /\ phase = "sorted" /\ rest = Report!EmptyBag /\ phase' = "done"
      /\ reported' = reported \cup Report!Flushed("") /\ group' = Report!NoGroup
      /\ read' = read /\ died' = died /\ glued' = glued /\ unended' = unended
      /\ called' = called /\ printed' = printed /\ rest' = rest
  BY DEF Report!Finish
<1>2. /\ PipeTypes /\ RestTypes /\ GroupTypes /\ LossInv
      /\ GroupInv(group, rest) /\ ReportInv(group, reported, rest)
  BY <1>1 DEF PipeInv
<1>3. DOMAIN rest = {}
  BY <1>1, NothingIsBag
<1>4. PipeTypes'
  BY <1>1, <1>2 DEF PipeTypes
<1>5. RestTypes' /\ GroupTypes'
  <2>1. IsFiniteBag(printed') /\ rest' = Report!EmptyBag
    BY <1>1, <1>4 DEF PipeTypes
  <2>2. QED
    BY <1>1, <2>1, NothingRead
<1>6. LossInv' /\ Unread' /\ Report!DecodedAsEncoded' /\ phase' # "sorted"
  BY <1>1, <1>2 DEF LossInv, Unread, Report!DecodedAsEncoded
<1> DEFINE g == Report!NoGroup
<1>7. g = [key |-> NoHash, clicks |-> <<>>, tracs |-> 0, hops |-> 0] /\ g.key = NoHash
  BY DEF Report!NoGroup, NoHash
<1>8. Report!Flushed("") = IF group.key = NoHash THEN {} ELSE Report!Reports(group)
  BY DEF Report!Flushed, NoHash
<1> DEFINE new == IF group.key = NoHash THEN {} ELSE Report!Reports(group)
           said == reported \cup new
<1>9. reported' = said
  BY <1>1, <1>8
<1> HIDE DEF g
<1>10. ReportInv(g, said, rest)
  <2>1. CASE group.key = NoHash
    <3>1. group = g /\ said = reported
      BY <1>2, <2>1 DEF GroupInv, g
    <3> HIDE DEF said
    <3>2. QED
      BY <1>2, <3>1
  <2>2. CASE group.key # NoHash
    <3>1. Over(rest, group.key)
      BY <1>3 DEF Over
    <3>2. QED
      BY <1>2, <1>7, <2>2, <3>1, HandsOver
  <2>3. QED
    BY <2>1, <2>2
<1> HIDE DEF said
<1>11. /\ \A x \in said : /\ x.tracs = Report!Count(x.key, "TRAC")
                          /\ x.hops = Report!Count(x.key, "HOP")
                          /\ Report!Row(x.key, "CLICK", x.media) \in DOMAIN printed
       /\ {x.key : x \in said} = Report!Clicked
       /\ Cardinality(said) = Cardinality(Report!Clicked)
  BY <1>2, <1>3, <1>7, <1>10, AllIsReported
<1>12. Report!ReportIsExact'
  <2>1. /\ \A key, type : Report!Count(key, type)' = Report!Count(key, type)
        /\ Report!Clicked' = Report!Clicked
    BY <1>1 DEF Report!Count, Report!Clicked
  <2>2. printed' = printed
    BY <1>1
  <2>3. \A x \in reported' : /\ x.tracs = Report!Count(x.key, "TRAC")'
                             /\ x.hops = Report!Count(x.key, "HOP")'
                             /\ Report!Row(x.key, "CLICK", x.media) \in DOMAIN printed'
    <3> SUFFICES ASSUME NEW x \in said
                 PROVE  /\ x.tracs = Report!Count(x.key, "TRAC")'
                        /\ x.hops = Report!Count(x.key, "HOP")'
                        /\ Report!Row(x.key, "CLICK", x.media) \in DOMAIN printed'
      BY <1>9
    <3>1. /\ x.tracs = Report!Count(x.key, "TRAC")
          /\ x.hops = Report!Count(x.key, "HOP")
          /\ Report!Row(x.key, "CLICK", x.media) \in DOMAIN printed
      BY <1>11
    <3>2. QED
      BY <2>1, <2>2, <3>1, Zenon
  <2>4. {x.key : x \in reported'} = Report!Clicked'
    BY <1>9, <1>11, <2>1
  <2>5. Report!Cardinality(reported') = Report!Cardinality(Report!Clicked')
    BY <1>9, <1>11, <2>1, SameCount
  <2>6. QED
    BY <2>3, <2>4, <2>5, Zenon DEF Report!ReportIsExact
<1>13. QED
  BY <1>4, <1>5, <1>6, <1>12 DEF PipeInv

LEMMA PipeStep == PipeInv /\ [Report!Next]_Report!vars => PipeInv'
<1> SUFFICES ASSUME PipeInv, [Report!Next]_Report!vars
             PROVE  PipeInv'
  OBVIOUS
<1>1. CASE UNCHANGED Report!vars
  <2>1. /\ phase' = phase /\ read' = read /\ died' = died /\ glued' = glued
        /\ unended' = unended /\ called' = called /\ printed' = printed /\ rest' = rest
        /\ group' = group /\ reported' = reported /\ message' = message
    BY <1>1 DEF Report!vars, Report!pipe
  <2>2. PipeTypes' /\ RestTypes' /\ GroupTypes' /\ Unread' /\ LossInv'
    BY <2>1 DEF PipeInv, PipeTypes, RestTypes, GroupTypes, Texts, Unread, LossInv
  <2>3. /\ \A k : Untouched(rest, k)' <=> Untouched(rest, k)
        /\ \A k : Over(rest, k)' <=> Over(rest, k)
    BY <2>1 DEF Untouched, Over
  <2>4. /\ \A k, type : Tally(printed, k, type)' = Tally(printed, k, type)
        /\ \A k, type : Tally(rest, k, type)' = Tally(rest, k, type)
    BY <2>1 DEF Tally, Of
  <2>5. phase' = "sorted" => GroupInv(group, rest)' /\ ReportInv(group, reported, rest)'
    <3> SUFFICES ASSUME phase' = "sorted"
                 PROVE  GroupInv(group, rest)' /\ ReportInv(group, reported, rest)'
      OBVIOUS
    <3>1. GroupInv(group, rest) /\ ReportInv(group, reported, rest)
      BY <2>1 DEF PipeInv
    <3>2. GroupInv(group, rest)'
      BY <2>1, <2>3, <2>4, <3>1 DEF GroupInv
    <3>3. ReportInv(group, reported, rest)'
      BY <2>1, <2>3, <2>4, <3>1 DEF ReportInv, WholeReport
    <3>4. QED
      BY <3>2, <3>3
  <2>6. phase' = "done" => Report!ReportIsExact'
    BY <2>1 DEF PipeInv, Report!ReportIsExact, Report!Count, Report!Clicked
  <2>7. Report!DecodedAsEncoded'
    BY <2>1 DEF PipeInv, Report!DecodedAsEncoded
  <2>8. QED
    BY <2>2, <2>5, <2>6, <2>7 DEF PipeInv
<1>2. CASE Report!Next
  BY <1>2, Decodes, MapClicks, Sorts, EndsClicks, MapTracs, Reduces, Finishes DEF Report!Next
<1>3. QED
  BY <1>1, <1>2

LEMMA Pipes == Spec => [](part = "report" => PipeInv)
<1>1. Init => (part = "report" => PipeInv)
  BY PipeInit DEF Init
<1>2. (part = "report" => PipeInv) /\ [Next]_vars => (part = "report" => PipeInv)'
  <2>1. [Next]_vars => part = part' /\ (part = "report" => [Report!Next]_Report!vars)
    <3> SUFFICES ASSUME [Next]_vars
                 PROVE  part = part' /\ (part = "report" => [Report!Next]_Report!vars)
      OBVIOUS
    <3>1. CASE UNCHANGED vars
      BY <3>1 DEF vars, reportVars, Report!vars, Report!pipe
    <3>2. CASE Next
      BY <3>2 DEF Next, ReportOnly, ModelOnly, DiffOnly, AreaOnly, LocaterOnly
    <3>3. QED
      BY <3>1, <3>2
  <2>2. QED
    BY <2>1, PipeStep
<1>3. QED
  BY <1>1, <1>2, PTL DEF Spec

LEMMA PipeInvGives ==
  PipeInv => Report!TypeOK /\ Report!ReportIsExact /\ Report!LossHasCause /\ Report!DecodedAsEncoded
<1> SUFFICES ASSUME PipeInv
             PROVE  Report!TypeOK /\ Report!ReportIsExact /\ Report!LossHasCause /\ Report!DecodedAsEncoded
  OBVIOUS
<1>1. PipeTypes /\ RestTypes /\ GroupTypes /\ LossInv
  BY DEF PipeInv
<1>2. Report!TypeOK
  <2>1. Report!IsABag(called) /\ Report!IsABag(printed) /\ Report!IsABag(rest)
    BY <1>1 DEF PipeTypes, IsFiniteBag
  <2>2. Report!\sqsubseteq(rest, printed)
    BY <1>1 DEF RestTypes, Report!\sqsubseteq
  <2>3. group.tracs + group.hops + Len(group.clicks) <= Report!BagCardinality(printed)
    <3> DEFINE b == Report!BagCardinality(rest)
               p == Report!BagCardinality(printed)
               t == group.tracs
               h == group.hops
               n == Len(group.clicks)
    <3>1. b \in Nat /\ p \in Nat
      BY <1>1, CountIsNat DEF PipeTypes
    <3>2. n \in Nat
      BY <1>1, LenProperties DEF GroupTypes
    <3>3. t \in Nat /\ h \in Nat /\ t + h + n + b <= p
      BY <1>1 DEF GroupTypes
    <3> HIDE DEF b, p, t, h, n
    <3>4. t + h + n <= p
      BY <3>1, <3>2, <3>3
    <3>5. QED
      BY <3>4 DEF p, t, h, n
  <2>4. QED
    BY <1>1, <2>1, <2>2, <2>3 DEF PipeTypes, Report!TypeOK
<1>3. Report!ReportIsExact
  BY DEF PipeInv, Report!ReportIsExact
<1>4. Report!LossHasCause
  <2>1. Report!\sqsubseteq(printed, called)
    BY <1>1 DEF LossInv, Report!\sqsubseteq
  <2>2. Report!BagCardinality(called) - Report!BagCardinality(printed) <= unended
    <3> DEFINE c == Report!BagCardinality(called)
               p == Report!BagCardinality(printed)
               w == IF glued THEN 1 ELSE 0
    <3>1. c \in Nat /\ p \in Nat /\ w \in Nat /\ unended \in Int
      BY <1>1, CountIsNat, MaxLinesIsNat DEF PipeTypes
    <3>2. c - p + w <= unended
      BY <1>1 DEF LossInv
    <3> HIDE DEF c, p, w
    <3>3. c - p <= unended
      BY <3>1, <3>2
    <3>4. QED
      BY <3>3 DEF c, p
  <2>3. QED
    BY <2>1, <2>2 DEF Report!LossHasCause
<1>5. QED
  BY <1>2, <1>3, <1>4 DEF PipeInv

-----------------------------------------------------------------------------
(* reducer.py reports every click once, with its tracks and hops and no    *)
(* other hash's; a row of the mapper is lost only because a line without   *)
(* its line feed ran into another; and what log_decoder.py makes of a      *)
(* message is what was encoded.                                            *)
THEOREM ReportsAreExact == Spec => []ReportIsExact
<1>1. (part = "report" => PipeInv) => ReportIsExact
  BY PipeInvGives DEF ReportIsExact
<1>2. QED
  BY <1>1, Pipes, PTL

-----------------------------------------------------------------------------
(***************************************************************************)
(* The weights of a model.  What a list of lists flattened has in a place  *)
(* is what one of the lists has, by the number of lists so far.            *)
(***************************************************************************)
LEMMA FlatteningIs ==
  ASSUME NEW n \in Nat, n # 0, NEW s, s = [i \in 1..n |-> s[i]]
  PROVE  \E h : /\ \A i \in 1..n : h[i] = IF i = 1 THEN s[i] ELSE h[i - 1] \o s[i]
                /\ Model!FlattenSeq(s) = h[n]
<1> DEFINE step(h, i) == IF i = 1 THEN s[i] ELSE h[i - 1] \o s[i]
           UpTo(h, m) == h = [i \in 1..m |-> step(h, i)]
           bad == {m \in Nat : m <= n /\ ~ \E h : UpTo(h, m)}
           flat == CHOOSE h : UpTo(h, n)
<1>1. bad \subseteq Nat
  OBVIOUS
<1>2. ASSUME NEW m \in bad, \A k \in bad : m <= k
      PROVE  FALSE
  <2>1. m \in Nat /\ m <= n /\ ~ \E h : UpTo(h, m)
    OBVIOUS
  <2>2. m # 0
    <3>1. UpTo([i \in 1..0 |-> 0], 0)
      OBVIOUS
    <3>2. QED
      BY <2>1, <3>1
  <2>3. m - 1 \in Nat /\ m - 1 <= n /\ m - 1 \notin bad
    <3> HIDE DEF bad
    <3>1. m - 1 \in Nat /\ m - 1 <= n /\ ~(m <= m - 1)
      BY <2>1, <2>2
    <3>2. QED
      BY <1>2, <3>1
  <2>4. PICK h : UpTo(h, m - 1)
    BY <2>3
  <2>5. \A i \in 1..m - 1 : h[i] = step(h, i)
    <3>1. h = [i \in 1..m - 1 |-> step(h, i)]
      BY <2>4
    <3> HIDE DEF step
    <3>2. QED
      BY <3>1
  <2> DEFINE g == [i \in 1..m |-> IF i = m THEN step(h, m) ELSE h[i]]
  <2>6. \A i \in 1..m : g[i] = step(g, i)
    <3> SUFFICES ASSUME NEW i \in 1..m
                 PROVE  g[i] = step(g, i)
      OBVIOUS
    <3>1. i \in Int /\ (i = m \/ i \in 1..m - 1)
      BY <2>1
    <3>2. i # 1 => i - 1 \in 1..m /\ i - 1 # m
      BY <2>1
    <3>3. i # 1 => g[i - 1] = h[i - 1]
      BY <3>2
    <3>4. step(g, i) = step(h, i)
      <4> HIDE DEF g
      <4>1. QED
        BY <3>3
    <3>5. g[i] = step(h, i)
      <4> HIDE DEF step
      <4>1. QED
        BY <2>5, <3>1
    <3>6. QED
      BY <3>4, <3>5
  <2>7. UpTo(g, m)
    <3> HIDE DEF step
    <3>1. QED
      BY <2>6
  <2>8. QED
    BY <2>1, <2>7
<1>3. bad = {}
  <2> HIDE DEF bad
  <2>1. QED
    BY <1>1, <1>2, SmallestOf
<1>4. \E h : UpTo(h, n)
  <2> HIDE DEF UpTo
  <2>1. QED
    BY <1>3
<1>5. UpTo(flat, n)
  <2> HIDE DEF UpTo
  <2>1. QED
    BY <1>4
<1>6. \A i \in 1..n : flat[i] = step(flat, i)
  <2>1. flat = [i \in 1..n |-> step(flat, i)]
    BY <1>5
  <2> HIDE DEF flat, step
  <2>2. QED
    BY <2>1
<1>7. Len(s) = n
  <2> DEFINE T == {s[i] : i \in 1..n}
  <2>1. s \in [1..n -> T]
    OBVIOUS
  <2> HIDE DEF T
  <2>2. s \in Seq(T) /\ Len(s) = n
    BY <2>1, SeqDef, LenProperties
  <2>3. QED
    BY <2>2
<1>8. Model!FlattenSeq(s) = flat[n]
  BY <1>7 DEF Model!FlattenSeq
<1> HIDE DEF flat
<1>9. QED
  BY <1>6, <1>8

\* An element of the one list and that of the other in the same place.
Paired(s, t, R) ==
  Len(s) = Len(t) /\ \A k \in 1..Len(s) : <<s[k], t[k]>> \in R

LEMMA PairsOfBoth ==
  ASSUME NEW E, NEW R, NEW s \in Seq(E), NEW t \in Seq(E), NEW u \in Seq(E), NEW v \in Seq(E),
         Paired(s, t, R), Paired(u, v, R)
  PROVE  s \o u \in Seq(E) /\ t \o v \in Seq(E) /\ Paired(s \o u, t \o v, R)
<1>1. /\ Len(s) \in Nat /\ Len(u) \in Nat /\ Len(t) = Len(s) /\ Len(v) = Len(u)
      /\ \A k \in 1..Len(s) : <<s[k], t[k]>> \in R
      /\ \A k \in 1..Len(u) : <<u[k], v[k]>> \in R
  BY LenProperties DEF Paired
<1>2. s \o u \in Seq(E) /\ t \o v \in Seq(E)
  BY ConcatProperties
<1>3. /\ Len(s \o u) = Len(s) + Len(u)
      /\ \A k \in 1..Len(s) + Len(u) : (s \o u)[k] = IF k <= Len(s) THEN s[k] ELSE u[k - Len(s)]
  BY ConcatProperties
<1>6. /\ Len(t \o v) = Len(t) + Len(v)
      /\ \A k \in 1..Len(t) + Len(v) : (t \o v)[k] = IF k <= Len(t) THEN t[k] ELSE v[k - Len(t)]
  BY ConcatProperties
<1>4. \A k \in 1..Len(s) + Len(u) : <<(s \o u)[k], (t \o v)[k]>> \in R
  <2> SUFFICES ASSUME NEW k \in 1..Len(s) + Len(u)
               PROVE  <<(s \o u)[k], (t \o v)[k]>> \in R
    OBVIOUS
  <2>1. CASE k <= Len(s)
    BY <1>1, <1>3, <1>6, <2>1
  <2>2. CASE ~(k <= Len(s))
    <3>1. k - Len(s) \in 1..Len(u)
      BY <1>1, <2>2
    <3>2. QED
      BY <1>1, <1>3, <1>6, <2>2, <3>1
  <2>3. QED
    BY <2>1, <2>2
<1>5. QED
  BY <1>1, <1>2, <1>3, <1>4, <1>6 DEF Paired

LEMMA FlattensTogether ==
  ASSUME NEW E, NEW R, NEW n \in Nat,
         NEW s, s = [i \in 1..n |-> s[i]], NEW t, t = [i \in 1..n |-> t[i]],
         \A i \in 1..n : s[i] \in Seq(E) /\ t[i] \in Seq(E) /\ Paired(s[i], t[i], R)
  PROVE  /\ Model!FlattenSeq(s) \in Seq(E) /\ Model!FlattenSeq(t) \in Seq(E)
         /\ Paired(Model!FlattenSeq(s), Model!FlattenSeq(t), R)
<1>1. CASE n = 0
  <2>1. s = <<>> /\ t = <<>>
    BY <1>1
  <2>2. Model!FlattenSeq(<<>>) = <<>>
    BY DEF Model!FlattenSeq
  <2>3. <<>> \in Seq(E) /\ Len(<<>>) = 0
    OBVIOUS
  <2>4. Paired(<<>>, <<>>, R)
    BY <2>3 DEF Paired
  <2>5. QED
    BY <2>1, <2>2, <2>3, <2>4, Zenon
<1>2. CASE n # 0
  <2>1. PICK f : /\ \A i \in 1..n : f[i] = IF i = 1 THEN s[i] ELSE f[i - 1] \o s[i]
                 /\ Model!FlattenSeq(s) = f[n]
    BY <1>2, FlatteningIs
  <2>2. PICK g : /\ \A i \in 1..n : g[i] = IF i = 1 THEN t[i] ELSE g[i - 1] \o t[i]
                 /\ Model!FlattenSeq(t) = g[n]
    BY <1>2, FlatteningIs
  <2> DEFINE Fine(i) == f[i] \in Seq(E) /\ g[i] \in Seq(E) /\ Paired(f[i], g[i], R)
             wrong == {i \in 1..n : ~Fine(i)}
  <2>3. wrong \subseteq Nat
    OBVIOUS
  <2>4. ASSUME NEW i \in wrong, \A j \in wrong : i <= j
        PROVE  FALSE
    <3>1. i \in 1..n /\ ~Fine(i)
      OBVIOUS
    <3>2. i # 1
      BY <2>1, <2>2, <3>1
    <3>3. i - 1 \in 1..n /\ i - 1 \notin wrong
      <4> HIDE DEF wrong
      <4>1. i - 1 \in 1..n /\ ~(i <= i - 1)
        BY <3>1, <3>2
      <4>2. QED
        BY <2>4, <4>1
    <3>4. Fine(i - 1)
      BY <3>3
    <3>5. f[i] = f[i - 1] \o s[i] /\ g[i] = g[i - 1] \o t[i]
      BY <2>1, <2>2, <3>1, <3>2
    <3>6. s[i] \in Seq(E) /\ t[i] \in Seq(E) /\ Paired(s[i], t[i], R)
      BY <3>1
    <3>7. Fine(i)
      BY <3>4, <3>5, <3>6, PairsOfBoth
    <3>8. QED
      BY <3>1, <3>7
  <2>5. wrong = {}
    <3> HIDE DEF wrong
    <3>1. QED
      BY <2>3, <2>4, SmallestOf
  <2>6. Fine(n)
    BY <1>2, <2>5
  <2>7. QED
    BY <2>1, <2>2, <2>6
<1>3. QED
  BY <1>1, <1>2

\* What one of the lists has is somewhere in the flattened list.
IsIn(v, list) == \E m \in 1..Len(list) : list[m] = v

LEMMA FlattenedHas ==
  ASSUME NEW E, NEW n \in Nat, NEW s, s = [i \in 1..n |-> s[i]], \A i \in 1..n : s[i] \in Seq(E),
         NEW k \in 1..n, NEW e \in 1..Len(s[k])
  PROVE  IsIn(s[k][e], Model!FlattenSeq(s))
<1>0. n # 0
  OBVIOUS
<1>1. PICK f : /\ \A i \in 1..n : f[i] = IF i = 1 THEN s[i] ELSE f[i - 1] \o s[i]
               /\ Model!FlattenSeq(s) = f[n]
  BY <1>0, FlatteningIs
<1> DEFINE Has(i) == f[i] \in Seq(E) /\ (k <= i => \E m \in 1..Len(f[i]) : f[i][m] = s[k][e])
           wrong == {i \in 1..n : ~Has(i)}
<1>2. wrong \subseteq Nat
  OBVIOUS
<1>3. ASSUME NEW i \in wrong, \A j \in wrong : i <= j
      PROVE  FALSE
  <2>1. i \in 1..n /\ ~Has(i)
    OBVIOUS
  <2>2. i # 1
    <3>1. SUFFICES ASSUME i = 1
                   PROVE  FALSE
      OBVIOUS
    <3>2. f[i] = s[i] /\ f[i] \in Seq(E)
      BY <1>1, <2>1, <3>1
    <3>3. k <= i => k = i
      BY <3>1
    <3>4. QED
      BY <2>1, <3>2, <3>3
  <2>3. i - 1 \in 1..n /\ i - 1 \notin wrong
    <3> HIDE DEF wrong
    <3>1. i - 1 \in 1..n /\ ~(i <= i - 1)
      BY <2>1, <2>2
    <3>2. QED
      BY <1>3, <3>1
  <2>4. Has(i - 1)
    BY <2>3
  <2>5. f[i] = f[i - 1] \o s[i] /\ f[i - 1] \in Seq(E) /\ s[i] \in Seq(E)
    BY <1>1, <2>1, <2>2, <2>4
  <2> DEFINE a == f[i - 1]
             b == s[i]
  <2>6. /\ Len(a) \in Nat /\ Len(b) \in Nat /\ a \o b \in Seq(E)
        /\ Len(a \o b) = Len(a) + Len(b)
        /\ \A m \in 1..Len(a) + Len(b) : (a \o b)[m] = IF m <= Len(a) THEN a[m] ELSE b[m - Len(a)]
    BY <2>5, ConcatProperties, LenProperties
  <2>7. f[i] = a \o b
    BY <2>5
  <2>8. CASE k <= i - 1
    <3>1. PICK m \in 1..Len(a) : a[m] = s[k][e]
      BY <2>4, <2>8
    <3> HIDE DEF a, b
    <3>2. m \in 1..Len(a) + Len(b) /\ (a \o b)[m] = s[k][e]
      BY <2>6, <3>1
    <3>3. QED
      BY <2>1, <2>6, <2>7, <3>2
  <2>9. CASE ~(k <= i - 1) /\ k <= i
    <3>1. k = i
      BY <2>1, <2>9
    <3>2. e \in 1..Len(b) /\ b[e] = s[k][e]
      BY <3>1
    <3> HIDE DEF a, b
    <3>3. Len(a) + e \in 1..Len(a) + Len(b) /\ ~(Len(a) + e <= Len(a)) /\ (Len(a) + e) - Len(a) = e
      BY <2>6, <3>2
    <3>4. (a \o b)[Len(a) + e] = s[k][e]
      BY <2>6, <3>2, <3>3
    <3>5. QED
      BY <2>1, <2>6, <2>7, <3>3, <3>4
  <2>10. CASE ~(k <= i)
    BY <2>1, <2>6, <2>7, <2>10
  <2>11. QED
    BY <2>8, <2>9, <2>10
<1>4. wrong = {}
  <2> HIDE DEF wrong
  <2>1. QED
    BY <1>2, <1>3, SmallestOf
<1>5. n \in 1..n /\ k <= n
  BY <1>0
<1>6. Has(n)
  BY <1>4, <1>5
<1>7. QED
  BY <1>1, <1>5, <1>6 DEF IsIn

\* Numbers up to a bound have a greatest one.
LEMMA GreatestOf ==
  ASSUME NEW n \in Nat, NEW S, S \subseteq 0..n, S # {}
  PROVE  Model!Max(S) \in S /\ \A x \in S : Model!Max(S) >= x
<1> DEFINE T == {n - x : x \in S}
<1>1. T \subseteq Nat /\ T # {}
  <2>1. \A x \in S : x \in Int /\ n - x \in Nat
    OBVIOUS
  <2>2. PICK x \in S : TRUE
    OBVIOUS
  <2>3. n - x \in T
    OBVIOUS
  <2>4. QED
    BY <2>1, <2>3
<1>2. PICK y \in T : \A z \in T : y <= z
  <2> HIDE DEF T
  <2>1. QED
    BY <1>1, SmallestOf
<1>3. PICK x \in S : y = n - x
  OBVIOUS
<1>4. \A z \in S : x >= z
  <2> SUFFICES ASSUME NEW z \in S
               PROVE  x >= z
    OBVIOUS
  <2>1. n - x <= n - z
    BY <1>2, <1>3
  <2>2. QED
    BY <2>1
<1>5. QED
  BY <1>4 DEF Model!Max

\* Both orders of a set name all of it.
LEMMA OrdersNameAll ==
  ASSUME NEW S, IsFiniteSet(S), NEW cols \in Model!Orders(S)
  PROVE  cols \in Seq(S) /\ {cols[j] : j \in 1..Len(cols)} = S
<1> DEFINE n == Cardinality(S)
           l == Model!SetToSeq(S)
<1>1. n \in Nat
  BY FS_CardinalityType
<1>2. Model!SetToSeq(S) = CHOOSE f \in [1..n -> S] : Model!IsInjective(f)
  BY Zenon DEF Model!SetToSeq, Model!Cardinality, Cardinality
<1>3. PICK f \in Bijection(1..n, S) : TRUE
  BY FS_CardinalityType DEF ExistsBijection
<1>4. f \in [1..n -> S] /\ Model!IsInjective(f)
  BY <1>3 DEF Bijection, Injection, IsInjective, Model!IsInjective
<1>5. l \in [1..n -> S] /\ Model!IsInjective(l)
  BY <1>2, <1>4
<1> HIDE DEF l, n
<1>6. l \in Seq(S) /\ Len(l) = n
  BY <1>1, <1>5, SeqDef, LenProperties
<1>7. {l[j] : j \in 1..n} = S
  <2> DEFINE T == {l[j] : j \in 1..n}
  <2>1. T \subseteq S
    BY <1>5
  <2>2. l \in Bijection(1..n, T)
    BY <1>5 DEF Bijection, Injection, Surjection, IsInjective, Model!IsInjective
  <2>3. IsFiniteSet(1..n) /\ Cardinality(1..n) = n
    BY <1>1, FS_Interval
  <2>4. IsFiniteSet(T) /\ Cardinality(T) = n
    <3>1. ExistsBijection(1..n, T)
      <4> HIDE DEF T
      <4>1. QED
        BY <2>2 DEF ExistsBijection
    <3> HIDE DEF T
    <3>2. QED
      BY <2>3, <3>1, FS_Bijection
  <2> HIDE DEF T
  <2>5. T = S
    BY <2>1, <2>4, FS_Subset DEF n
  <2>6. QED
    BY <2>5 DEF T
<1>8. CASE cols = l
  BY <1>6, <1>7, <1>8
<1>9. CASE cols = Model!Reverse(l)
  <2>1. cols = [j \in 1..n |-> l[(n - j) + 1]]
    BY <1>6, <1>9 DEF Model!Reverse
  <2>2. \A j \in 1..n : (n - j) + 1 \in 1..n /\ (n - ((n - j) + 1)) + 1 = j
    BY <1>1
  <2>3. cols \in [1..n -> S]
    BY <1>5, <2>1, <2>2
  <2>4. cols \in Seq(S) /\ Len(cols) = n
    BY <1>1, <2>3, SeqDef, LenProperties
  <2>5. {cols[j] : j \in 1..n} = {l[j] : j \in 1..n}
    <3>1. \A j \in 1..n : cols[j] = l[(n - j) + 1]
      BY <2>1
    <3>2. \A j \in 1..n : l[j] = cols[(n - j) + 1]
      BY <2>2, <3>1
    <3>3. QED
      BY <2>2, <3>1, <3>2
  <2>6. QED
    BY <1>7, <2>4, <2>5
<1>10. QED
  BY <1>8, <1>9 DEF Model!Orders, l

\* Numbers of one digit are sorted as they should be.
LEMMA SortedByNumber ==
  ASSUME NEW rank \in Nat, rank <= Base
  PROVE  \A k \in 1..rank : Model!Transposed(rank)[k] = k - 1
<1> DEFINE Sorted(o) == \A i, j \in 1..rank : i < j => Model!TextBefore(o[i], o[j])
           o == Model!Transposed(rank)
<1>1. Base \in Nat
  BY BatchAssumption DEF Model!ModelTrainingAssumption
<1>2. \A k, l \in 0..rank - 1 : Model!TextBefore(k, l) <=> k < l
  <2> SUFFICES ASSUME NEW k \in 0..rank - 1, NEW l \in 0..rank - 1
               PROVE  Model!TextBefore(k, l) <=> k < l
    OBVIOUS
  <2>1. Model!Digits(k) = <<k>> /\ Model!Digits(l) = <<l>>
    BY <1>1 DEF Model!Digits
  <2>2. Len(<<k>>) = 1 /\ Len(<<l>>) = 1 /\ <<k>>[1] = k /\ <<l>>[1] = l
    OBVIOUS
  <2>3. QED
    BY <2>1, <2>2 DEF Model!TextBefore
<1>3. o = CHOOSE order \in [1..rank -> 0..rank - 1] : Sorted(order)
  BY DEF Model!Transposed
<1>4. \E order \in [1..rank -> 0..rank - 1] : Sorted(order)
  <2> DEFINE id == [i \in 1..rank |-> i - 1]
  <2>1. id \in [1..rank -> 0..rank - 1]
    OBVIOUS
  <2>2. Sorted(id)
    BY <1>2
  <2>3. QED
    BY <2>1, <2>2
<1>5. o \in [1..rank -> 0..rank - 1] /\ Sorted(o)
  <2> HIDE DEF o, Sorted
  <2>1. QED
    BY <1>3, <1>4
<1>6. \A i, j \in 1..rank : i < j => o[i] < o[j]
  <2> HIDE DEF o
  <2>1. QED
    BY <1>2, <1>5
<1>7. \A i \in 1..rank : o[i] \in Int /\ 0 <= o[i] /\ o[i] <= rank - 1
  BY <1>5
<1> HIDE DEF o
<1>8. \A i \in 1..rank : o[i] >= i - 1
  <2> DEFINE low == {i \in 1..rank : ~(o[i] >= i - 1)}
  <2>1. low \subseteq Nat
    OBVIOUS
  <2>2. ASSUME NEW i \in low, \A j \in low : i <= j
        PROVE  FALSE
    <3>1. i \in 1..rank /\ ~(o[i] >= i - 1)
      OBVIOUS
    <3>2. i # 1
      BY <1>7, <3>1
    <3>3. i - 1 \in 1..rank /\ i - 1 < i
      BY <3>1, <3>2
    <3>4. i - 1 \notin low
      <4> HIDE DEF low
      <4>1. ~(i <= i - 1)
        BY <3>1
      <4>2. QED
        BY <2>2, <4>1
    <3>5. o[i - 1] >= (i - 1) - 1
      BY <3>3, <3>4
    <3>6. o[i - 1] < o[i] /\ o[i] \in Int /\ o[i - 1] \in Int
      BY <1>6, <1>7, <3>1, <3>3
    <3>7. QED
      BY <3>1, <3>5, <3>6
  <2>3. low = {}
    <3> HIDE DEF low
    <3>1. QED
      BY <2>1, <2>2, SmallestOf
  <2>4. QED
    BY <2>3
<1>9. \A i \in 1..rank : o[i] <= i - 1
  <2> DEFINE high == {d \in 0..rank - 1 : ~(o[rank - d] <= (rank - d) - 1)}
  <2>1. high \subseteq Nat
    OBVIOUS
  <2>2. ASSUME NEW d \in high, \A e \in high : d <= e
        PROVE  FALSE
    <3>1. d \in 0..rank - 1 /\ ~(o[rank - d] <= (rank - d) - 1)
      OBVIOUS
    <3>2. d # 0
      <4>1. rank \in 1..rank /\ rank - 0 = rank
        BY <3>1
      <4>2. QED
        BY <1>7, <3>1, <4>1
    <3>3. /\ d - 1 \in 0..rank - 1 /\ rank - d \in 1..rank /\ rank - (d - 1) \in 1..rank
          /\ rank - d < rank - (d - 1)
      BY <3>1, <3>2
    <3>4. d - 1 \notin high
      <4> HIDE DEF high
      <4>1. ~(d <= d - 1)
        BY <3>1
      <4>2. QED
        BY <2>2, <4>1
    <3>5. o[rank - (d - 1)] <= (rank - (d - 1)) - 1
      BY <3>3, <3>4
    <3>6. o[rank - d] < o[rank - (d - 1)] /\ o[rank - d] \in Int /\ o[rank - (d - 1)] \in Int
      BY <1>6, <1>7, <3>3
    <3>7. QED
      BY <3>1, <3>5, <3>6
  <2>3. high = {}
    <3> HIDE DEF high
    <3>1. QED
      BY <2>1, <2>2, SmallestOf
  <2>4. ASSUME NEW i \in 1..rank
        PROVE  o[i] <= i - 1
    <3>1. rank - i \in 0..rank - 1 /\ rank - (rank - i) = i
      OBVIOUS
    <3>2. rank - i \notin high
      BY <2>3
    <3>3. QED
      BY <3>1, <3>2
  <2>5. QED
    BY <2>4
<1>10. QED
  <2>1. \A i \in 1..rank : o[i] = i - 1
    BY <1>7, <1>8, <1>9
  <2>2. QED
    BY <2>1 DEF o

-----------------------------------------------------------------------------
(* The samples of a training, and what a row of theirs is written as.      *)
IsSamples(s) ==
  \E n \in Nat : /\ DOMAIN s = 1..n
                 /\ \A i \in 1..n : s[i].y \in 0..2 /\ DOMAIN s[i].sig \subseteq Model!Features

LineOf(label, weight, x) == [label |-> label, weight |-> weight, x |-> x]
LinesOf(row) ==
  IF row.y = 0 THEN <<LineOf(0, 2, row.x)>>
  ELSE <<LineOf(1, row.y, row.x)>> \o (IF row.y < 2 THEN <<LineOf(0, 2 - row.y, row.x)>> ELSE <<>>)
FirstLine == [label |-> 1, weight |-> 0, x |-> <<>>]

LEMMA OneAfterOne == \A a, b : <<a>> \o <<b>> = <<a, b>>
<1> SUFFICES ASSUME NEW a, NEW b
             PROVE  <<a>> \o <<b>> = <<a, b>>
  OBVIOUS
<1> DEFINE E == {a, b}
<1>1. /\ <<a>> \in Seq(E) /\ <<b>> \in Seq(E) /\ Len(<<a>>) = 1 /\ Len(<<b>>) = 1
      /\ <<a, b>> \in Seq(E) /\ Len(<<a, b>>) = 2
  OBVIOUS
<1> DEFINE c == <<a>> \o <<b>>
<1>2. c \in Seq(E) /\ Len(c) = 2 /\ \A i \in 1..2 : c[i] = IF i <= 1 THEN <<a>>[i] ELSE <<b>>[i - 1]
  BY <1>1, ConcatProperties
<1>3. c[1] = a /\ c[2] = b
  BY <1>2
<1> HIDE DEF c
<1>4. \A i \in 1..2 : c[i] = <<a, b>>[i]
  <2>1. \A i \in 1..2 : i = 1 \/ i = 2
    OBVIOUS
  <2>2. QED
    BY <1>3, <2>1
<1>5. c = <<a, b>>
  BY <1>1, <1>2, <1>4, SeqEqual
<1>6. QED
  BY <1>5 DEF c

LEMMA LinesOfAre ==
  ASSUME NEW row
  PROVE  \/ \E a : LinesOf(row) = <<a>> /\ a.x = row.x
         \/ \E a, b : LinesOf(row) = <<a, b>> /\ a.x = row.x /\ b.x = row.x
<1>1. \A label, weight : LineOf(label, weight, row.x).x = row.x
  BY DEF LineOf
<1>2. CASE row.y = 0
  BY <1>1, <1>2 DEF LinesOf
<1>3. CASE row.y # 0 /\ row.y < 2
  <2>1. LinesOf(row) = <<LineOf(1, row.y, row.x)>> \o <<LineOf(0, 2 - row.y, row.x)>>
    BY <1>3 DEF LinesOf
  <2>3. LinesOf(row) = <<LineOf(1, row.y, row.x), LineOf(0, 2 - row.y, row.x)>>
    BY <2>1, OneAfterOne
  <2>4. QED
    BY <1>1, <2>3
<1>4. CASE row.y # 0 /\ ~(row.y < 2)
  <2>1. LinesOf(row) = <<LineOf(1, row.y, row.x)>> \o <<>>
    BY <1>4 DEF LinesOf
  <2>2. \A a : <<a>> \o <<>> = <<a>>
    OBVIOUS
  <2>3. QED
    BY <1>1, <2>1, <2>2
<1>5. QED
  BY <1>2, <1>3, <1>4

LEMMA LgLinesAre ==
  ASSUME NEW n \in Nat, NEW rows, DOMAIN rows = 1..n
  PROVE  Model!LgLines(rows) = <<FirstLine>> \o Model!FlattenSeq([i \in 1..n |-> LinesOf(rows[i])])
BY DEF Model!LgLines, LinesOf, LineOf, FirstLine, Model!One

\* The lines are a sequence of lines of the rows, which starts with label 1.
LinesIn(rows) == {LinesOf(rows[i])[k] : i \in DOMAIN rows, k \in 1..2}

LEMMA LinesAreTyped ==
  ASSUME NEW n \in Nat, NEW rows, DOMAIN rows = 1..n, NEW i \in 1..n
  PROVE  /\ LinesOf(rows[i]) \in Seq(LinesIn(rows)) /\ Len(LinesOf(rows[i])) \in 1..2
         /\ \A k \in 1..Len(LinesOf(rows[i])) : LinesOf(rows[i])[k].x = rows[i].x
<1> DEFINE p == LinesOf(rows[i])
<1>1. \A k \in 1..2 : p[k] \in LinesIn(rows)
  BY DEF LinesIn
<1>2. \/ \E a : p = <<a>> /\ a.x = rows[i].x
      \/ \E a, b : p = <<a, b>> /\ a.x = rows[i].x /\ b.x = rows[i].x
  BY LinesOfAre
<1> HIDE DEF p
<1>3. CASE \E a : p = <<a>> /\ a.x = rows[i].x
  <2>1. PICK a : p = <<a>> /\ a.x = rows[i].x
    BY <1>3
  <2>2. Len(p) = 1 /\ p[1] = a
    BY <2>1
  <2>3. a \in LinesIn(rows)
    BY <1>1, <2>2
  <2>4. p \in Seq(LinesIn(rows))
    BY <2>1, <2>3
  <2>5. QED
    BY <2>1, <2>2, <2>4 DEF p
<1>4. CASE \E a, b : p = <<a, b>> /\ a.x = rows[i].x /\ b.x = rows[i].x
  <2>1. PICK a, b : p = <<a, b>> /\ a.x = rows[i].x /\ b.x = rows[i].x
    BY <1>4
  <2>2. Len(p) = 2 /\ p[1] = a /\ p[2] = b
    BY <2>1
  <2>3. a \in LinesIn(rows) /\ b \in LinesIn(rows)
    BY <1>1, <2>2
  <2>4. p \in Seq(LinesIn(rows))
    BY <2>1, <2>3
  <2>5. \A k \in 1..Len(p) : p[k].x = rows[i].x
    <3>1. \A k \in 1..2 : k = 1 \/ k = 2
      OBVIOUS
    <3>2. QED
      BY <2>1, <2>2, <3>1
  <2>6. QED
    BY <2>2, <2>4, <2>5 DEF p
<1>5. QED
  BY <1>2, <1>3, <1>4

LEMMA LinesStart ==
  ASSUME NEW n \in Nat, NEW rows, DOMAIN rows = 1..n
  PROVE  Head(Model!LgLines(rows)).label = 1
<1> DEFINE s == [i \in 1..n |-> LinesOf(rows[i])]
           E == LinesIn(rows)
           flat == Model!FlattenSeq(s)
           R == E \X E
<1>1. \A i \in 1..n : s[i] \in Seq(E) /\ Paired(s[i], s[i], R)
  <2> SUFFICES ASSUME NEW i \in 1..n
               PROVE  s[i] \in Seq(E) /\ Paired(s[i], s[i], R)
    OBVIOUS
  <2>1. s[i] \in Seq(E)
    BY LinesAreTyped
  <2> HIDE DEF s, E
  <2>2. \A k \in 1..Len(s[i]) : s[i][k] \in E
    BY <2>1
  <2>3. QED
    BY <2>1, <2>2 DEF Paired
<1>2. s = [i \in 1..n |-> s[i]]
  OBVIOUS
<1>3. flat \in Seq(E)
  <2> HIDE DEF s, E, R
  <2>1. QED
    BY <1>1, <1>2, FlattensTogether
<1>4. Model!LgLines(rows) = <<FirstLine>> \o flat
  BY LgLinesAre
<1> HIDE DEF flat, s, R
<1>5. Head(<<FirstLine>> \o flat) = FirstLine
  <2>1. <<FirstLine>> \in Seq({FirstLine}) /\ Len(<<FirstLine>>) = 1 /\ <<FirstLine>>[1] = FirstLine
    OBVIOUS
  <2>2. <<FirstLine>> \in Seq(E \cup {FirstLine}) /\ flat \in Seq(E \cup {FirstLine})
    <3> HIDE DEF E
    <3>1. QED
      BY <1>3, <2>1
  <2> HIDE DEF E
  <2>3. (<<FirstLine>> \o flat)[1] = FirstLine
    BY <2>1, <2>2, ConcatProperties, LenProperties
  <2>4. Head(<<FirstLine>> \o flat) = (<<FirstLine>> \o flat)[1]
    BY <2>2, ConcatProperties
  <2>5. QED
    BY <2>3, <2>4
<1>6. QED
  BY <1>4, <1>5 DEF FirstLine

\* What a line contributes to a column of the input.
CellOf(line, j) == <<line.label, line.weight, IF j \in DOMAIN line.x THEN line.x[j] ELSE <<>>>>

SharedBy(row, j) == Model!Share(row.y, IF j \in DOMAIN row.x THEN row.x[j] ELSE <<>>)

CellsOf(p, q, j) ==
  /\ Len(q) = Len(p) /\ \A k \in 1..Len(p) : q[k] = CellOf(p[k], j)
  /\ q \in Seq({q[k] : k \in 1..2})

LEMMA SharesOfLines ==
  ASSUME NEW row, row.y \in 0..2, NEW j
  PROVE  CellsOf(LinesOf(row), SharedBy(row, j), j)
<1> DEFINE v == IF j \in DOMAIN row.x THEN row.x[j] ELSE <<>>
           p == LinesOf(row)
           q == SharedBy(row, j)
<1>0. q = Model!Share(row.y, v)
  BY DEF SharedBy
<1>1. \A label, weight : CellOf(LineOf(label, weight, row.x), j) = <<label, weight, v>>
  BY DEF CellOf, LineOf
<1>2. row.y = 0 \/ row.y = 1 \/ row.y = 2
  OBVIOUS
<1>3. \A a : <<a>> \o <<>> = <<a>> /\ <<>> \o <<a>> = <<a>>
  OBVIOUS
<1> HIDE DEF v, q
<1>4. CASE row.y = 0
  <2>1. p = <<LineOf(0, 2, row.x)>>
    BY <1>4 DEF LinesOf
  <2>2. q = <<>> \o <<<<0, 2, v>>>>
    BY <1>0, <1>4 DEF Model!Share, Model!One
  <2>3. q = <<<<0, 2, v>>>>
    BY <1>3, <2>2
  <2> HIDE DEF p
  <2>4. Len(q) = 1 /\ Len(p) = 1 /\ q[1] = <<0, 2, v>> /\ p[1] = LineOf(0, 2, row.x)
    BY <2>1, <2>3
  <2>5. q[1] = CellOf(p[1], j)
    BY <1>1, <2>4
  <2>6. q \in Seq({q[1]})
    BY <2>3, <2>4
  <2>7. q \in Seq({q[k] : k \in 1..2})
    BY <2>6, SeqMonotonic
  <2>8. QED
    BY <2>4, <2>5, <2>7 DEF p, q, CellsOf
<1>5. CASE row.y = 1
  <2>1. p = <<LineOf(1, 1, row.x), LineOf(0, 1, row.x)>>
    BY <1>5, OneAfterOne DEF LinesOf
  <2>2. q = <<<<1, 1, v>>>> \o <<<<0, 1, v>>>>
    BY <1>0, <1>5 DEF Model!Share, Model!One
  <2>3. q = <<<<1, 1, v>>, <<0, 1, v>>>>
    BY <2>2, OneAfterOne
  <2> HIDE DEF p
  <2>4. /\ Len(q) = 2 /\ q[1] = <<1, 1, v>> /\ q[2] = <<0, 1, v>>
        /\ Len(p) = 2 /\ p[1] = LineOf(1, 1, row.x) /\ p[2] = LineOf(0, 1, row.x)
    BY <2>1, <2>3
  <2>5. q[1] = CellOf(p[1], j) /\ q[2] = CellOf(p[2], j)
    BY <1>1, <2>4
  <2>6. q \in Seq({q[1], q[2]})
    BY <2>3, <2>4
  <2>7. q \in Seq({q[k] : k \in 1..2})
    BY <2>6, SeqMonotonic
  <2>8. \A k \in 1..2 : k = 1 \/ k = 2
    OBVIOUS
  <2>9. QED
    BY <2>4, <2>5, <2>7, <2>8 DEF p, q, CellsOf
<1>6. CASE row.y = 2
  <2>1. p = <<LineOf(1, 2, row.x)>>
    BY <1>3, <1>6 DEF LinesOf
  <2>2. q = <<<<1, 2, v>>>> \o <<>>
    BY <1>0, <1>6 DEF Model!Share, Model!One
  <2>3. q = <<<<1, 2, v>>>>
    BY <1>3, <2>2
  <2> HIDE DEF p
  <2>4. Len(q) = 1 /\ Len(p) = 1 /\ q[1] = <<1, 2, v>> /\ p[1] = LineOf(1, 2, row.x)
    BY <2>1, <2>3
  <2>5. q[1] = CellOf(p[1], j)
    BY <1>1, <2>4
  <2>6. q \in Seq({q[1]})
    BY <2>3, <2>4
  <2>7. q \in Seq({q[k] : k \in 1..2})
    BY <2>6, SeqMonotonic
  <2>8. QED
    BY <2>4, <2>5, <2>7 DEF p, q, CellsOf
<1>7. QED
  BY <1>2, <1>4, <1>5, <1>6

\* A column of the input, but for its first line, is what the rows share.
LEMMA ColumnsAreShares ==
  ASSUME NEW n \in Nat, NEW rows, DOMAIN rows = 1..n, \A i \in 1..n : rows[i].y \in 0..2, NEW j
  PROVE  Tail(Model!Column(Model!LgLines(rows), j)) =
           Model!FlattenSeq([i \in 1..n |-> SharedBy(rows[i], j)])
<1> DEFINE s == [i \in 1..n |-> LinesOf(rows[i])]
           t == [i \in 1..n |-> SharedBy(rows[i], j)]
           E == LinesIn(rows) \cup {t[i][k] : i \in 1..n, k \in 1..2}
           R == {<<l, CellOf(l, j)>> : l \in E}
           f == Model!FlattenSeq(s)
           g == Model!FlattenSeq(t)
           lines == Model!LgLines(rows)
           c == Model!Column(lines, j)
<1>1. ASSUME NEW i \in 1..n
      PROVE  s[i] \in Seq(E) /\ t[i] \in Seq(E) /\ Paired(s[i], t[i], R)
  <2>1. s[i] = LinesOf(rows[i]) /\ s[i] \in Seq(LinesIn(rows))
    BY LinesAreTyped
  <2>2. rows[i].y \in 0..2
    OBVIOUS
  <2>3. /\ Len(t[i]) = Len(s[i]) /\ \A k \in 1..Len(s[i]) : t[i][k] = CellOf(s[i][k], j)
        /\ t[i] \in Seq({t[i][k] : k \in 1..2})
    <3>1. t[i] = SharedBy(rows[i], j)
      OBVIOUS
    <3> HIDE DEF s, t
    <3>2. CellsOf(LinesOf(rows[i]), SharedBy(rows[i], j), j)
      BY <2>2, SharesOfLines
    <3>3. CellsOf(s[i], t[i], j)
      BY <2>1, <3>1, <3>2
    <3>4. QED
      BY <3>3 DEF CellsOf
  <2>4. {t[i][k] : k \in 1..2} \subseteq E
    <3> HIDE DEF t
    <3>1. QED
      OBVIOUS
  <2>5. LinesIn(rows) \subseteq E
    OBVIOUS
  <2> HIDE DEF s, t, E
  <2>6. s[i] \in Seq(E) /\ t[i] \in Seq(E)
    BY <2>1, <2>3, <2>4, <2>5, SeqMonotonic
  <2>7. \A k \in 1..Len(s[i]) : s[i][k] \in E
    BY <2>6
  <2>8. \A k \in 1..Len(s[i]) : <<s[i][k], t[i][k]>> \in R
    BY <2>3, <2>7
  <2> HIDE DEF R
  <2>9. QED
    BY <2>3, <2>6, <2>8 DEF Paired
<1>2. s = [i \in 1..n |-> s[i]] /\ t = [i \in 1..n |-> t[i]]
  OBVIOUS
<1>3. f \in Seq(E) /\ g \in Seq(E) /\ Paired(f, g, R)
  <2> HIDE DEF s, t, E, R
  <2>1. QED
    BY <1>1, <1>2, FlattensTogether
<1>4. lines = <<FirstLine>> \o f
  BY LgLinesAre
<1>5. c = [k \in DOMAIN lines |-> CellOf(lines[k], j)]
  BY DEF Model!Column, CellOf
<1> HIDE DEF s, t, f, g, c, lines
<1>6. Len(g) = Len(f) /\ \A k \in 1..Len(f) : g[k] = CellOf(f[k], j)
  <2> HIDE DEF E
  <2>1. Len(g) = Len(f) /\ \A k \in 1..Len(f) : <<f[k], g[k]>> \in R
    BY <1>3 DEF Paired
  <2>2. QED
    BY <2>1
<1> HIDE DEF E, R
<1>7. /\ Len(f) \in Nat /\ DOMAIN lines = 1..1 + Len(f)
      /\ \A k \in 1..Len(f) : lines[k + 1] = f[k]
  <2> DEFINE F == E \cup {FirstLine}
  <2>1. <<FirstLine>> \in Seq(F) /\ Len(<<FirstLine>>) = 1
    OBVIOUS
  <2>2. E \subseteq F
    OBVIOUS
  <2> HIDE DEF F
  <2>3. f \in Seq(F) /\ Len(f) \in Nat
    BY <1>3, <2>2, SeqMonotonic, LenProperties
  <2>4. /\ lines \in Seq(F) /\ Len(lines) = 1 + Len(f)
        /\ \A k \in 1..1 + Len(f) : lines[k] = IF k <= 1 THEN <<FirstLine>>[k] ELSE f[k - 1]
    BY <1>4, <2>1, <2>3, ConcatProperties
  <2>5. DOMAIN lines = 1..1 + Len(f)
    BY <2>4, LenProperties
  <2>6. \A k \in 1..Len(f) : k + 1 \in 1..1 + Len(f) /\ ~(k + 1 <= 1) /\ (k + 1) - 1 = k
    BY <2>3
  <2>7. QED
    BY <2>3, <2>4, <2>5, <2>6
<1> DEFINE G == {CellOf(lines[k], j) : k \in DOMAIN lines}
<1>8. c \in Seq(G) /\ Len(c) = 1 + Len(f) /\ \A k \in 1..1 + Len(f) : c[k] = CellOf(lines[k], j)
  <2>1. c \in [1..1 + Len(f) -> G] /\ \A k \in 1..1 + Len(f) : c[k] = CellOf(lines[k], j)
    BY <1>5, <1>7
  <2> HIDE DEF G
  <2>2. 1 + Len(f) \in Nat
    BY <1>7
  <2>3. c \in Seq(G)
    BY <2>1, <2>2, SeqDef
  <2>4. Len(c) = 1 + Len(f)
    BY <2>1, <2>2, <2>3, LenProperties
  <2>5. QED
    BY <2>1, <2>3, <2>4
<1> HIDE DEF G
<1>9. c # <<>>
  BY <1>7, <1>8, EmptySeq
<1>10. /\ Tail(c) \in Seq(G) /\ Len(Tail(c)) = Len(f)
       /\ \A k \in 1..Len(f) : Tail(c)[k] = c[k + 1]
  BY <1>7, <1>8, <1>9, HeadTailProperties
<1>11. \A k \in 1..Len(f) : Tail(c)[k] = g[k]
  <2>1. \A k \in 1..Len(f) : k + 1 \in 1..1 + Len(f)
    BY <1>7
  <2>2. QED
    BY <1>6, <1>7, <1>8, <1>10, <2>1
<1>12. Tail(c) = g
  <2>1. g \in Seq(E) /\ Len(g) = Len(f)
    BY <1>3, <1>6
  <2>2. QED
    BY <1>10, <1>11, <2>1, SeqEqual
<1>13. QED
  BY <1>12 DEF c, lines, g, t

\* Weights are fitted to the columns up to the last one with a value in a row.
LEMMA WidthOfLines ==
  ASSUME NEW n \in Nat, NEW rows, DOMAIN rows = 1..n, NEW c \in Nat,
         \A i \in 1..n : DOMAIN rows[i].x \subseteq 1..c
  PROVE  /\ Model!Width(Model!LgLines(rows)) \in 0..c
         /\ \A i \in 1..n : \A j \in DOMAIN rows[i].x :
              rows[i].x[j] # <<>> => j <= Model!Width(Model!LgLines(rows))
<1> DEFINE s == [i \in 1..n |-> LinesOf(rows[i])]
           E == {l \in LinesIn(rows) : \E i \in 1..n : l.x = rows[i].x}
           f == Model!FlattenSeq(s)
           R == E \X E
           lines == Model!LgLines(rows)
           Valued(k) == {j \in DOMAIN lines[k].x : lines[k].x[j] # <<>>}
           S == {0} \cup UNION {Valued(k) : k \in DOMAIN lines}
<1>1. ASSUME NEW i \in 1..n
      PROVE  s[i] \in Seq(E) /\ Paired(s[i], s[i], R) /\ s[i] = LinesOf(rows[i])
  <2> DEFINE p == LinesOf(rows[i])
  <2>1. p \in Seq(LinesIn(rows)) /\ \A k \in 1..Len(p) : p[k].x = rows[i].x
    BY LinesAreTyped
  <2> HIDE DEF p
  <2>2. Len(p) \in Nat /\ p \in [1..Len(p) -> LinesIn(rows)]
    BY <2>1, LenProperties
  <2>3. \A k \in 1..Len(p) : p[k] \in E
    BY <2>1, <2>2
  <2>4. p \in Seq(E)
    <3> HIDE DEF E
    <3>1. p \in [1..Len(p) -> E]
      BY <2>2, <2>3
    <3>2. QED
      BY <2>2, <3>1, SeqDef
  <2>5. Paired(p, p, R)
    BY <2>3 DEF Paired
  <2>6. s[i] = p
    BY DEF p
  <2> HIDE DEF s, E, R
  <2>7. QED
    BY <2>4, <2>5, <2>6 DEF p
<1>2. s = [i \in 1..n |-> s[i]]
  OBVIOUS
<1>3. f \in Seq(E)
  <2> HIDE DEF s, E, R
  <2>1. QED
    BY <1>1, <1>2, FlattensTogether
<1>4. lines = <<FirstLine>> \o f
  BY LgLinesAre
<1> HIDE DEF f, s, R, lines
<1>5. /\ Len(f) \in Nat /\ DOMAIN lines = 1..1 + Len(f) /\ lines[1] = FirstLine
      /\ \A k \in 1..Len(f) : k + 1 \in 1..1 + Len(f) /\ lines[k + 1] = f[k]
      /\ \A k \in 2..1 + Len(f) : k - 1 \in 1..Len(f) /\ lines[k] = f[k - 1]
  <2> DEFINE F == E \cup {FirstLine}
  <2>1. <<FirstLine>> \in Seq(F) /\ Len(<<FirstLine>>) = 1 /\ <<FirstLine>>[1] = FirstLine
    OBVIOUS
  <2>2. E \subseteq F
    OBVIOUS
  <2> HIDE DEF F, E
  <2>3. f \in Seq(F) /\ Len(f) \in Nat
    BY <1>3, <2>2, SeqMonotonic, LenProperties
  <2>4. /\ lines \in Seq(F) /\ Len(lines) = 1 + Len(f)
        /\ \A k \in 1..1 + Len(f) : lines[k] = IF k <= 1 THEN <<FirstLine>>[k] ELSE f[k - 1]
    BY <1>4, <2>1, <2>3, ConcatProperties
  <2>5. DOMAIN lines = 1..1 + Len(f)
    BY <2>4, LenProperties
  <2>6. \A k \in 1..Len(f) : k + 1 \in 1..1 + Len(f) /\ ~(k + 1 <= 1) /\ (k + 1) - 1 = k
    BY <2>3
  <2>7. \A k \in 2..1 + Len(f) : k - 1 \in 1..Len(f) /\ ~(k <= 1) /\ k \in 1..1 + Len(f)
    BY <2>3
  <2>8. lines[1] = FirstLine
    BY <2>1, <2>3, <2>4
  <2>9. QED
    BY <2>3, <2>4, <2>5, <2>6, <2>7, <2>8
<1>6. \A k \in DOMAIN lines : DOMAIN lines[k].x \subseteq 1..c
  <2> SUFFICES ASSUME NEW k \in DOMAIN lines
               PROVE  DOMAIN lines[k].x \subseteq 1..c
    OBVIOUS
  <2>1. CASE k = 1
    <3>1. lines[k].x = <<>> /\ DOMAIN <<>> = {}
      BY <1>5, <2>1 DEF FirstLine
    <3>2. QED
      BY <3>1
  <2>2. CASE k # 1
    <3>1. k \in 2..1 + Len(f)
      BY <1>5, <2>2
    <3>2. lines[k] = f[k - 1] /\ f[k - 1] \in E
      <4> HIDE DEF E
      <4>1. QED
        BY <1>3, <1>5, <3>1, ElementOfSeq
    <3>3. QED
      BY <3>2
  <2>3. QED
    BY <2>1, <2>2
<1>7. S \subseteq 0..c /\ S # {}
  <2>1. \A k \in DOMAIN lines : \A j \in Valued(k) : j \in 0..c
    BY <1>6
  <2> HIDE DEF Valued
  <2>2. QED
    BY <2>1
<1>8. Model!Width(lines) = Model!Max(S)
  BY DEF Model!Width
<1>9. Model!Max(S) \in S /\ \A j \in S : Model!Max(S) >= j
  <2> HIDE DEF S
  <2>1. QED
    BY <1>7, GreatestOf
<1>10. Model!Width(lines) \in 0..c
  <2> HIDE DEF S
  <2>1. QED
    BY <1>7, <1>8, <1>9
<1>11. ASSUME NEW i \in 1..n, NEW j \in DOMAIN rows[i].x, rows[i].x[j] # <<>>
       PROVE  j <= Model!Width(lines)
  <2>1. /\ s[i] = LinesOf(rows[i]) /\ Len(s[i]) \in 1..2
        /\ \A k \in 1..Len(s[i]) : s[i][k].x = rows[i].x
    <3>1. s[i] = LinesOf(rows[i])
      BY <1>1
    <3>2. /\ Len(LinesOf(rows[i])) \in 1..2
          /\ \A k \in 1..Len(LinesOf(rows[i])) : LinesOf(rows[i])[k].x = rows[i].x
      BY LinesAreTyped
    <3>3. QED
      BY <3>1, <3>2, Zenon
  <2>2. 1 \in 1..Len(s[i])
    <3> DEFINE l == Len(s[i])
    <3>1. l \in 1..2
      BY <2>1
    <3> HIDE DEF l
    <3>2. 1 \in 1..l
      BY <3>1
    <3>3. QED
      BY <3>2 DEF l
  <2>3. PICK k \in 1..Len(f) : f[k] = s[i][1]
    <3> HIDE DEF E
    <3>1. \A l \in 1..n : s[l] \in Seq(E)
      BY <1>1
    <3>2. \A l \in 1..n : \A e \in 1..Len(s[l]) :
            IsIn(s[l][e], Model!FlattenSeq(s))
      BY <1>2, <3>1, FlattenedHas
    <3>3. QED
      BY <2>2, <3>2 DEF f, IsIn
  <2>4. k + 1 \in DOMAIN lines /\ lines[k + 1].x = rows[i].x
    BY <1>5, <2>1, <2>2, <2>3
  <2>5. j \in Valued(k + 1)
    BY <1>11, <2>4
  <2>6. j \in S
    BY <2>4, <2>5
  <2>7. j \in 0..c /\ Model!Max(S) >= j /\ Model!Max(S) \in 0..c
    <3> HIDE DEF S
    <3>1. QED
      BY <1>7, <1>9, <2>6
  <2> HIDE DEF S
  <2>8. QED
    BY <1>8, <2>7
<1>12. QED
  BY <1>10, <1>11 DEF lines

LEMMA FitIs ==
  ASSUME NEW lines, Model!Width(lines) \in Nat
  PROVE  /\ Model!Fit(lines).first = Head(lines).label
         /\ Len(Model!Fit(lines).w) = Model!Width(lines) + 1
         /\ \A j \in 1..Model!Width(lines) : Model!Fit(lines).w[j] = Model!Column(lines, j)
<1> DEFINE W == Model!Width(lines)
           w == [j \in 1..W |-> Model!Column(lines, j)]
           o == Model!Ones(lines)
           T == {w[j] : j \in 1..W} \cup {o}
<1>1. Model!Fit(lines).first = Head(lines).label /\ Model!Fit(lines).w = Append(w, o)
  BY DEF Model!Fit
<1>2. w \in [1..W -> T] /\ o \in T
  <2> HIDE DEF o
  <2>1. QED
    OBVIOUS
<1>3. \A j \in 1..W : w[j] = Model!Column(lines, j)
  OBVIOUS
<1> HIDE DEF T, w, o, W
<1>4. W \in Nat
  BY DEF W
<1>5. w \in Seq(T) /\ Len(w) = W
  BY <1>2, <1>4, SeqDef, LenProperties
<1>6. Len(Append(w, o)) = W + 1 /\ \A j \in 1..W : Append(w, o)[j] = w[j]
  BY <1>2, <1>4, <1>5, AppendProperties
<1>7. QED
  BY <1>1, <1>3, <1>6 DEF W

\* The weights by name.
Intercept == "(Intercept)"

NamedAs(c, m) ==
  /\ \A j \in 1..m : r2p[j] \in DOMAIN Model!Parsed(c)
  /\ \A f \in DOMAIN Model!Parsed(c) : f # Intercept =>
       \E j \in 1..m : r2p[j] = f /\ Model!Parsed(c)[f] = c.inputs[j]

LEMMA ParsedByName ==
  ASSUME NEW m \in Nat, NEW c, DOMAIN c.inputs = 1..m, 1..m \subseteq DOMAIN r2p
  PROVE  NamedAs(c, m)
<1> DEFINE K == {Model!Name(i) : i \in DOMAIN c.inputs} \cup {Intercept}
           Pick(n) == {i \in DOMAIN c.inputs : Model!Name(i) = n}
<1>1. Model!Parsed(c) = [n \in K |-> IF n = Intercept THEN {Model!Term(<<>>, c.intercept)}
                                      ELSE c.inputs[Model!Max(Pick(n))]]
  BY DEF Model!Parsed, Intercept
<1>2. \A i \in 1..m : Model!Name(i) = r2p[i]
  BY DEF Model!Name
<1>3. \A j \in 1..m : r2p[j] \in K
  BY <1>2
<1>4. ASSUME NEW f \in K, f # Intercept
      PROVE  \E j \in 1..m : r2p[j] = f /\ Model!Parsed(c)[f] = c.inputs[j]
  <2>1. Pick(f) \subseteq 0..m /\ Pick(f) \subseteq 1..m /\ Pick(f) # {}
    BY <1>4
  <2>2. Model!Max(Pick(f)) \in Pick(f)
    <3> HIDE DEF Pick
    <3>1. QED
      BY <2>1, GreatestOf
  <2> DEFINE j == Model!Max(Pick(f))
  <2>3. Model!Parsed(c)[f] = c.inputs[j]
    <3> HIDE DEF K, Pick
    <3>1. QED
      BY <1>1, <1>4
  <2>4. j \in 1..m /\ Model!Name(j) = f
    BY <2>2
  <2> HIDE DEF j
  <2>5. QED
    BY <1>2, <2>3, <2>4
<1>5. DOMAIN Model!Parsed(c) = K
  <2> HIDE DEF K, Pick
  <2>1. QED
    BY <1>1
<1> HIDE DEF K
<1>6. QED
  BY <1>3, <1>4, <1>5 DEF NamedAs

-----------------------------------------------------------------------------
(***************************************************************************)
(* What a training leaves in its files, as far as it has come.  What an    *)
(* earlier one left there is told apart by none of them.                   *)
(***************************************************************************)
Own == task.fresh /\ Model!Used(task.samples) # {}
Worked == Own /\ ~lost

Marked(d) == [i \in DOMAIN d.rows |-> Model!Positive(d.rows[i])]
Results(d) == [i \in DOMAIN d.rows |-> d.rows[i].y]

Phases == {"idle", "names", "data", "return", "input", "svd", "usv", "train", "calc", "parse", "glm",
           "done", "failed"}

TrainingTypes ==
  /\ kind \in Kinds /\ pc \in Phases
  /\ task.fresh \in BOOLEAN /\ lost \in BOOLEAN /\ trainings \in 0..MaxTrainings
  /\ IsSamples(task.samples) /\ r2p \in Seq(Model!Features \cup {"result"})
  /\ DOMAIN disk = Model!Files
  /\ coef # <<>> => Intercept \in DOMAIN coef
  /\ disk["pname"] = None \/ disk["pname"] \in Seq(Model!Features)
  /\ disk["data"] = None \/ IsSeq(disk["data"].rows)
  /\ disk["svdout"] # None => disk["svdout"].rank \in Nat /\ disk["svdout"].of.rows \in Nat

\* While the data are written the names are still in r2p alone.
Dumping ==
  /\ Own
  /\ Model!Columns \in Seq(Model!Features)
  /\ {Model!Columns[j] : j \in 1..Len(Model!Columns)} = Model!Used(task.samples)
  /\ r2p = Model!Names(Model!Columns)
  /\ pc = "return" => /\ disk["data"].cols = Model!Columns
                      /\ disk["data"].rows = Model!Rows(task.samples, Model!Columns)

\* Which model is where; an old one always makes its data anew.
Courses ==
  /\ kind = "old" => task.fresh
  /\ pc \in {"data", "return"} => Dumping
  /\ pc \in {"svd", "usv"} => kind = "svd"
  /\ pc \in {"train", "calc", "parse"} => kind # "old"
  /\ pc = "svd" => disk["svdin"].rows \in Nat
  /\ pc = "glm" => kind = "old" /\ disk["coef"] = None
  /\ pc = "train" /\ kind \in {"lg", "svd"} => Head(disk["libin"]).label = 1
  /\ Model!FavoursGoodResults

NamesInv ==
  Own /\ pc \notin {"idle", "names", "data", "return", "failed"} =>
    /\ disk["pname"] \in Seq(Model!Features)
    /\ {disk["pname"][j] : j \in 1..Len(disk["pname"])} = Model!Used(task.samples)
    /\ r2p = Model!Names(disk["pname"])

DataInv ==
  Own /\ pc \notin {"idle", "names", "data", "return", "failed"} =>
    /\ disk["data"].cols = disk["pname"]
    /\ disk["data"].rows = Model!Rows(task.samples, disk["pname"])

MatrixInv ==
  kind = "svd" =>
    /\ Own /\ pc = "svd" => disk["svdin"] = Model!SvdInput(disk["data"])
    /\ Worked /\ pc \in {"usv", "train", "calc", "parse", "done"} =>
         disk["svdout"].of = Model!SvdInput(disk["data"]) /\ disk["svdout"].rank \in Nat

InputInv ==
  Worked /\ pc \in {"train", "calc", "parse", "done"} =>
    /\ kind = "lg" => disk["libin"] = Model!LgLines(Marked(disk["data"]))
    /\ kind = "svd" =>
         disk["libin"] = Model!LgLines(Model!SvdRows(disk["svdout"], Results(disk["data"])))

WeightsInv ==
  /\ Worked /\ kind \in {"lg", "svd"} /\ pc \in {"calc", "parse", "done"} =>
       disk["model"] = Model!Fit(disk["libin"])
  /\ Worked /\ pc \in {"parse", "done"} =>
       /\ kind = "lg" => disk["coef"] = Model!LgCoefs(disk["model"].w)
       /\ kind = "svd" => /\ disk["coef"] = Model!SvdCoefs(disk["svdout"], disk["model"].w)
                          /\ Len(disk["model"].w) - 1 = disk["svdout"].rank
  /\ pc = "done" => coef = Model!Parsed(disk["coef"])
  /\ pc = "done" /\ kind = "old" =>
       /\ Own
       /\ disk["coef"].inputs = [j \in DOMAIN disk["data"].cols |->
            {Model!Term(<<>>, Model!GlmColumn(disk["data"], j))}]

TrainingInv ==
  /\ TrainingTypes /\ Courses /\ NamesInv /\ DataInv /\ MatrixInv /\ InputInv /\ WeightsInv

\* A file is written and the others stay.
Writes(name, v) ==
  /\ DOMAIN disk' = Model!Files /\ disk'[name] = v
  /\ \A f \in Model!Files : f # name => disk'[f] = disk[f]

LEMMA FileIsWritten ==
  ASSUME DOMAIN disk = Model!Files, NEW name \in Model!Files, NEW v,
         disk' = [disk EXCEPT ![name] = v]
  PROVE  Writes(name, v)
BY DEF Writes

LEMMA TrainingInit == Model!Init => TrainingInv
<1> SUFFICES ASSUME Model!Init
             PROVE  TrainingInv
  OBVIOUS
<1>1. /\ kind \in Kinds /\ pc = "idle" /\ task = [samples |-> <<>>, fresh |-> TRUE]
      /\ disk = [f \in Model!Files |-> None] /\ r2p = <<>> /\ coef = <<>> /\ lost = FALSE
      /\ trainings = 0
  BY DEF Model!Init
<1>2. task.samples = <<>> /\ task.fresh = TRUE
  BY <1>1
<1>3. IsSamples(<<>>)
  <2>1. 0 \in Nat /\ DOMAIN <<>> = 1..0
    OBVIOUS
  <2>2. QED
    BY <2>1 DEF IsSamples
<1>4. \A f \in Model!Files : disk[f] = None
  BY <1>1
<1>5. "pname" \in Model!Files /\ "data" \in Model!Files /\ "svdout" \in Model!Files
  BY DEF Model!Files
<1>6. TrainingTypes
  <2>1. <<>> \in Seq(Model!Features \cup {"result"})
    OBVIOUS
  <2>2. MaxTrainings \in Nat
    BY BatchAssumption DEF Model!ModelTrainingAssumption
  <2>3. 0 \in 0..MaxTrainings
    BY <2>2
  <2>4. DOMAIN disk = Model!Files
    BY <1>1
  <2>5. r2p \in Seq(Model!Features \cup {"result"}) /\ trainings \in 0..MaxTrainings
    BY <1>1, <2>1, <2>3
  <2>6. IsSamples(task.samples)
    BY <1>2, <1>3
  <2>7. kind \in Kinds /\ pc \in Phases /\ (coef # <<>> => Intercept \in DOMAIN coef)
    BY <1>1 DEF Phases
  <2>8. task.fresh \in BOOLEAN /\ lost \in BOOLEAN
    BY <1>1, <1>2
  <2>9. disk["pname"] = None /\ disk["data"] = None /\ disk["svdout"] = None
    BY <1>4, <1>5
  <2>10. QED
    BY <2>4, <2>5, <2>6, <2>7, <2>8, <2>9, Zenon DEF TrainingTypes
<1>7. Courses
  BY <1>1, <1>2 DEF Courses, Model!FavoursGoodResults
<1>8. NamesInv /\ DataInv /\ MatrixInv /\ InputInv /\ WeightsInv
  BY <1>1 DEF NamesInv, DataInv, MatrixInv, InputInv, WeightsInv
<1>9. QED
  BY <1>6, <1>7, <1>8 DEF TrainingInv

\* Where a training has no files of its own, there is nothing to show of them.
LEMMA Elsewhere ==
  ASSUME pc' \in {"idle", "names", "failed"}, kind' = "old" => task'.fresh
  PROVE  Courses' /\ NamesInv' /\ DataInv' /\ MatrixInv' /\ InputInv' /\ WeightsInv'
BY DEF Courses, Model!FavoursGoodResults, NamesInv, DataInv, MatrixInv, InputInv, WeightsInv

LEMMA Failing ==
  ASSUME TrainingInv, pc' = "failed", disk' = disk, r2p' = r2p, coef' = coef, kind' = kind,
         task' = task, trainings' = trainings, lost' \in BOOLEAN
  PROVE  TrainingInv'
<1>1. TrainingTypes'
  BY DEF TrainingInv, TrainingTypes, Phases
<1>2. kind' = "old" => task'.fresh
  BY DEF TrainingInv, Courses
<1>3. QED
  BY <1>1, <1>2, Elsewhere DEF TrainingInv

LEMMA UsedIsOfFeatures ==
  ASSUME NEW s, IsSamples(s)
  PROVE  Model!Used(s) \subseteq Model!Features /\ IsFiniteSet(Model!Used(s))
<1>1. Model!Used(s) \subseteq Model!Features
  BY DEF IsSamples, Model!Used
<1>2. IsFiniteSet(Model!Features)
  <2>1. Model!IsFiniteSet(DOMAIN Parts)
    BY BatchAssumption DEF Model!ModelTrainingAssumption
  <2>2. IsFiniteSet(DOMAIN Parts)
    BY <2>1, Zenon DEF Model!IsFiniteSet, IsFiniteSet
  <2>3. QED
    BY <2>2 DEF Model!Features
<1>3. QED
  BY <1>1, <1>2, FS_Subset

LEMMA Trains == TrainingInv /\ Model!Train => TrainingInv'
<1> SUFFICES ASSUME TrainingInv, Model!Train
             PROVE  TrainingInv'
  OBVIOUS
<1>1. /\ pc' = "names" /\ lost' = FALSE /\ trainings < MaxTrainings /\ trainings' = trainings + 1
      /\ kind' = kind /\ disk' = disk /\ r2p' = r2p /\ coef' = coef
  BY DEF Model!Train
<1>2. PICK samples \in SampleLists, fresh \in BOOLEAN :
        IF kind = "old"
        THEN /\ fresh
             /\ \E kept \in SUBSET Model!Used(samples) :
                  task' = [fresh |-> TRUE,
                           samples |-> [i \in DOMAIN samples |->
                             [y |-> samples[i].y,
                              sig |-> [f \in kept \cap DOMAIN samples[i].sig |-> samples[i].sig[f]]]]]
        ELSE task' = [samples |-> samples, fresh |-> fresh]
  BY DEF Model!Train
<1>3. /\ Len(samples) \in Nat /\ DOMAIN samples = 1..Len(samples)
      /\ \A i \in 1..Len(samples) : samples[i].y \in 0..2 /\ DOMAIN samples[i].sig \subseteq DOMAIN Parts
  BY BatchAssumption DEF Model!ModelTrainingAssumption, Model!One
<1>4. task'.fresh \in BOOLEAN /\ IsSamples(task'.samples) /\ (kind = "old" => task'.fresh)
  <2>1. CASE kind # "old"
    <3>1. task'.samples = samples /\ task'.fresh = fresh
      BY <1>2, <2>1
    <3>2. IsSamples(samples)
      BY <1>3 DEF IsSamples, Model!Features
    <3>3. QED
      BY <2>1, <3>1, <3>2
  <2>2. CASE kind = "old"
    <3>1. PICK kept \in SUBSET Model!Used(samples) :
            task' = [fresh |-> TRUE,
                     samples |-> [i \in DOMAIN samples |->
                       [y |-> samples[i].y,
                        sig |-> [f \in kept \cap DOMAIN samples[i].sig |-> samples[i].sig[f]]]]]
      BY <1>2, <2>2
    <3> DEFINE s == task'.samples
    <3>2. /\ task'.fresh = TRUE /\ DOMAIN s = 1..Len(samples)
          /\ \A i \in 1..Len(samples) : s[i].y = samples[i].y /\ DOMAIN s[i].sig \subseteq DOMAIN samples[i].sig
      BY <1>3, <3>1
    <3> HIDE DEF s
    <3>3. \A i \in 1..Len(samples) : s[i].y \in 0..2 /\ DOMAIN s[i].sig \subseteq Model!Features
      BY <1>3, <3>2 DEF Model!Features
    <3>4. IsSamples(s)
      BY <1>3, <3>2, <3>3 DEF IsSamples
    <3>5. QED
      BY <3>2, <3>4 DEF s
  <2>3. QED
    BY <2>1, <2>2
<1>5. trainings' \in 0..MaxTrainings
  <2>1. trainings \in 0..MaxTrainings /\ MaxTrainings \in Nat
    BY BatchAssumption DEF TrainingInv, TrainingTypes, Model!ModelTrainingAssumption
  <2>2. QED
    BY <1>1, <2>1
<1>6. TrainingTypes'
  BY <1>1, <1>4, <1>5 DEF TrainingInv, TrainingTypes, Phases
<1>7. QED
  BY <1>1, <1>4, <1>6, Elsewhere DEF TrainingInv

\* The rest of a training: its model and samples stay.
LEMMA TypesKept ==
  ASSUME TrainingInv, kind' = kind, task' = task, trainings' = trainings, lost' \in BOOLEAN,
         pc' \in Phases, DOMAIN disk' = Model!Files,
         r2p' \in Seq(Model!Features \cup {"result"}), coef' # <<>> => Intercept \in DOMAIN coef',
         disk'["pname"] = None \/ disk'["pname"] \in Seq(Model!Features),
         disk'["data"] = None \/ IsSeq(disk'["data"].rows),
         disk'["svdout"] # None => disk'["svdout"].rank \in Nat /\ disk'["svdout"].of.rows \in Nat
  PROVE  TrainingTypes'
BY DEF TrainingInv, TrainingTypes

LEMMA NamesWithoutResult ==
  ASSUME NEW cols \in Seq(Model!Features)
  PROVE  Model!Front(Model!Names(cols)) = cols
<1> DEFINE named == Model!Names(cols)
           n     == Len(cols)
<1>1. /\ named \in Seq(Model!Features \cup {"result"}) /\ Len(named) = n + 1 /\ n \in Nat
      /\ \A j \in 1..n : named[j] = cols[j]
  <2>1. cols \in Seq(Model!Features \cup {"result"})
    BY SeqMonotonic
  <2>2. QED
    BY <2>1, AppendProperties DEF Model!Names
<1>2. Model!Front(named) = SubSeq(named, 1, n)
  <2> HIDE DEF named, n
  <2>1. Len(named) - 1 = n
    BY <1>1
  <2>2. QED
    BY <2>1 DEF Model!Front
<1>3. SubSeq(named, 1, n) = cols
  <2> HIDE DEF named
  <2>1. /\ SubSeq(named, 1, n) \in Seq(Model!Features \cup {"result"})
        /\ Len(SubSeq(named, 1, n)) = n
        /\ \A j \in 1..n : SubSeq(named, 1, n)[j] = cols[j]
    BY <1>1
  <2>2. cols \in Seq(Model!Features \cup {"result"})
    BY SeqMonotonic
  <2>3. QED
    BY <2>1, <2>2, SeqEqual
<1>4. QED
  BY <1>2, <1>3

LEMMA DumpsNames == TrainingInv /\ Model!DumpNames => TrainingInv'
<1> SUFFICES ASSUME TrainingInv, Model!DumpNames
             PROVE  TrainingInv'
  OBVIOUS
<1>0. /\ TrainingTypes /\ Courses /\ DOMAIN disk = Model!Files /\ lost \in BOOLEAN
      /\ coef # <<>> => Intercept \in DOMAIN coef
  BY DEF TrainingInv, TrainingTypes
<1>1. /\ pc = "names" /\ task.fresh /\ lost' = lost /\ kind' = kind /\ task' = task
      /\ trainings' = trainings /\ lost' \in BOOLEAN
  BY <1>0 DEF Model!DumpNames, Model!Kept
<1>2. CASE task.samples = <<>>
  <2>1. pc' = "failed" /\ disk' = disk /\ r2p' = r2p /\ coef' = coef
    BY <1>2 DEF Model!DumpNames, Model!Fail
  <2>2. QED
    BY <1>1, <2>1, Failing
<1>3. CASE task.samples # <<>>
  <2>1. PICK cols \in Model!Orders(Model!Used(task.samples)) : r2p' = Model!Names(cols)
    BY <1>3 DEF Model!DumpNames
  <2>2. /\ pc' = IF Model!Used(task.samples) = {} THEN "input" ELSE "data"
        /\ disk' = [disk EXCEPT !["pname"] = <<>>] /\ coef' = coef
    BY <1>3 DEF Model!DumpNames
  <2>3. IsSamples(task.samples)
    BY <1>0 DEF TrainingTypes
  <2> DEFINE U == Model!Used(task.samples)
  <2>4. cols \in Seq(U) /\ {cols[j] : j \in 1..Len(cols)} = U /\ U \subseteq Model!Features
    BY <2>3, OrdersNameAll, UsedIsOfFeatures
  <2>5. cols \in Seq(Model!Features)
    BY <2>4, SeqMonotonic
  <2>6. Model!Names(cols) \in Seq(Model!Features \cup {"result"})
    <3>1. cols \in Seq(Model!Features \cup {"result"})
      BY <2>5, SeqMonotonic
    <3>2. QED
      BY <3>1, AppendProperties DEF Model!Names
  <2>7. Writes("pname", <<>>)
    BY <1>0, <2>2, FileIsWritten DEF Model!Files
  <2>8. disk'["pname"] = <<>> /\ disk'["data"] = disk["data"] /\ disk'["svdout"] = disk["svdout"]
    BY <2>7 DEF Writes, Model!Files
  <2>9. TrainingTypes'
    <3>1. pc' \in Phases
      BY <2>2 DEF Phases
    <3>2. disk'["data"] = None \/ IsSeq(disk'["data"].rows)
      BY <1>0, <2>8 DEF TrainingTypes
    <3>3. disk'["svdout"] # None => disk'["svdout"].rank \in Nat /\ disk'["svdout"].of.rows \in Nat
      BY <1>0, <2>8 DEF TrainingTypes
    <3>4. DOMAIN disk' = Model!Files
      BY <2>7 DEF Writes
    <3>5. coef' # <<>> => Intercept \in DOMAIN coef'
      BY <1>0, <2>2
    <3>6. r2p' \in Seq(Model!Features \cup {"result"})
      BY <2>1, <2>6
    <3>7. <<>> \in Seq(Model!Features)
      OBVIOUS
    <3>8. QED
      BY <1>1, <2>8, <3>1, <3>2, <3>3, <3>4, <3>5, <3>6, <3>7, TypesKept
  <2>10. pc' \in {"input", "data"} /\ (pc' = "data" => U # {}) /\ (pc' = "input" => U = {})
    BY <2>2
  <2>11. pc' = "data" => Dumping'
    <3> SUFFICES ASSUME pc' = "data"
                 PROVE  Dumping'
      OBVIOUS
    <3>1. Model!Columns' = cols
      BY <2>1, <2>5, NamesWithoutResult DEF Model!Columns
    <3>2. Own'
      BY <1>1, <2>10 DEF Own
    <3>3. QED
      BY <1>1, <2>1, <2>4, <2>5, <3>1, <3>2 DEF Dumping
  <2>12. Courses'
    BY <1>0, <1>1, <2>10, <2>11 DEF Courses, Model!FavoursGoodResults
  <2>13. NamesInv' /\ DataInv' /\ MatrixInv' /\ InputInv' /\ WeightsInv'
    BY <1>1, <2>10 DEF NamesInv, DataInv, MatrixInv, InputInv, WeightsInv, Own
  <2>14. QED
    BY <2>9, <2>12, <2>13 DEF TrainingInv
<1>4. QED
  BY <1>2, <1>3

LEMMA LoadsNames == TrainingInv /\ Model!LoadNames => TrainingInv'
<1> SUFFICES ASSUME TrainingInv, Model!LoadNames
             PROVE  TrainingInv'
  OBVIOUS
<1>0. /\ TrainingTypes /\ Courses /\ lost \in BOOLEAN
  BY DEF TrainingInv, TrainingTypes
<1>1. /\ pc = "names" /\ ~task.fresh /\ lost' = lost /\ kind' = kind /\ task' = task
      /\ trainings' = trainings /\ lost' \in BOOLEAN
  BY <1>0 DEF Model!LoadNames, Model!Kept
<1>2. CASE disk["pname"] = None
  <2>1. pc' = "failed" /\ disk' = disk /\ r2p' = r2p /\ coef' = coef
    BY <1>2 DEF Model!LoadNames, Model!Fail
  <2>2. QED
    BY <1>1, <2>1, Failing
<1>3. CASE disk["pname"] # None
  <2>1. r2p' = disk["pname"] /\ pc' = "input" /\ disk' = disk /\ coef' = coef
    BY <1>3 DEF Model!LoadNames
  <2>2. r2p' \in Seq(Model!Features \cup {"result"})
    <3>1. disk["pname"] \in Seq(Model!Features)
      BY <1>0, <1>3 DEF TrainingTypes
    <3>2. QED
      BY <2>1, <3>1, SeqMonotonic
  <2>3. TrainingTypes'
    BY <1>0, <1>1, <2>1, <2>2 DEF TrainingTypes, Phases
  <2>4. Courses'
    BY <1>0, <1>1, <2>1 DEF Courses, Model!FavoursGoodResults
  <2>5. NamesInv' /\ DataInv' /\ MatrixInv' /\ InputInv' /\ WeightsInv'
    BY <1>1, <2>1 DEF NamesInv, DataInv, MatrixInv, InputInv, WeightsInv, Own
  <2>6. QED
    BY <2>3, <2>4, <2>5 DEF TrainingInv
<1>4. QED
  BY <1>2, <1>3

LEMMA NamesKept ==
  ASSUME TrainingInv, task' = task, r2p' = r2p, disk'["pname"] = disk["pname"],
         pc \notin {"idle", "names", "data", "return", "failed"}
  PROVE  NamesInv'
<1>1. NamesInv
  BY DEF TrainingInv
<1>2. Own' <=> Own
  BY DEF Own
<1>3. Own => /\ disk["pname"] \in Seq(Model!Features)
             /\ {disk["pname"][j] : j \in 1..Len(disk["pname"])} = Model!Used(task.samples)
             /\ r2p = Model!Names(disk["pname"])
  BY <1>1 DEF NamesInv
<1>4. QED
  BY <1>2, <1>3 DEF NamesInv

LEMMA DataKept ==
  ASSUME TrainingInv, task' = task, disk'["pname"] = disk["pname"], disk'["data"] = disk["data"],
         pc \notin {"idle", "names", "data", "return", "failed"}
  PROVE  DataInv'
<1>1. DataInv
  BY DEF TrainingInv
<1>2. Own' <=> Own
  BY DEF Own
<1>3. QED
  BY <1>1, <1>2 DEF DataInv

LEMMA DumpsData == TrainingInv /\ Model!DumpData => TrainingInv'
<1> SUFFICES ASSUME TrainingInv, Model!DumpData
             PROVE  TrainingInv'
  OBVIOUS
<1> DEFINE cols == Model!Columns
           table == [cols |-> cols, rows |-> Model!Rows(task.samples, cols)]
<1>0. TrainingTypes /\ Courses
  BY DEF TrainingInv
<1>1. /\ pc = "data" /\ pc' = "return" /\ disk' = [disk EXCEPT !["data"] = table]
      /\ r2p' = r2p /\ coef' = coef /\ lost' = lost /\ kind' = kind /\ task' = task
      /\ trainings' = trainings
  BY DEF Model!DumpData, Model!Kept
<1>2. Writes("data", table)
  <2> HIDE DEF table
  <2>1. QED
    BY <1>0, <1>1, FileIsWritten DEF Model!Files, TrainingTypes
<1>3. disk'["pname"] = disk["pname"] /\ disk'["data"] = table /\ disk'["svdout"] = disk["svdout"]
  BY <1>2 DEF Writes, Model!Files
<1>4. IsSeq(table.rows)
  <2>1. PICK n \in Nat : DOMAIN task.samples = 1..n
    BY <1>0 DEF TrainingTypes, IsSamples
  <2> DEFINE r == Model!Rows(task.samples, cols)
  <2>2. DOMAIN r = 1..n /\ r = [i \in 1..n |-> r[i]]
    BY <2>1 DEF Model!Rows
  <2>3. table.rows = r
    OBVIOUS
  <2> HIDE DEF r, table
  <2>4. QED
    BY <2>2, <2>3 DEF IsSeq
<1>5. table.cols = cols /\ table.rows = Model!Rows(task.samples, cols)
  OBVIOUS
<1> HIDE DEF table
<1>6. TrainingTypes'
  <2>1. IsSeq(disk'["data"].rows)
    BY <1>3, <1>4
  <2>2. DOMAIN disk' = Model!Files
    BY <1>2 DEF Writes
  <2>3. /\ r2p' \in Seq(Model!Features \cup {"result"}) /\ lost' \in BOOLEAN
        /\ coef' # <<>> => Intercept \in DOMAIN coef'
        /\ disk'["pname"] = None \/ disk'["pname"] \in Seq(Model!Features)
        /\ disk'["svdout"] # None => disk'["svdout"].rank \in Nat /\ disk'["svdout"].of.rows \in Nat
        /\ pc' \in Phases
    BY <1>0, <1>1, <1>3 DEF TrainingTypes, Phases
  <2>4. QED
    BY <1>1, <2>1, <2>2, <2>3, TypesKept
<1>7. Dumping'
  <2>1. Dumping
    BY <1>0, <1>1 DEF Courses
  <2>2. cols' = cols /\ (Own' <=> Own)
    BY <1>1 DEF Model!Columns, Own
  <2> HIDE DEF cols
  <2>3. /\ Own /\ cols \in Seq(Model!Features)
        /\ {cols[j] : j \in 1..Len(cols)} = Model!Used(task.samples)
        /\ r2p = Model!Names(cols)
    BY <2>1 DEF Dumping, cols
  <2>4. disk'["data"].cols = cols /\ disk'["data"].rows = Model!Rows(task'.samples, cols)
    BY <1>1, <1>3, <1>5
  <2>5. Model!Columns' = cols
    BY <2>2 DEF cols
  <2>6. QED
    BY <1>1, <2>2, <2>3, <2>4, <2>5 DEF Dumping
<1>8. Courses'
  BY <1>0, <1>1, <1>7 DEF Courses, Model!FavoursGoodResults
<1>9. NamesInv' /\ DataInv' /\ MatrixInv' /\ InputInv' /\ WeightsInv'
  BY <1>1 DEF NamesInv, DataInv, MatrixInv, InputInv, WeightsInv
<1>10. QED
  BY <1>6, <1>8, <1>9 DEF TrainingInv

LEMMA WritesNames == TrainingInv /\ Model!WriteNames => TrainingInv'
<1> SUFFICES ASSUME TrainingInv, Model!WriteNames
             PROVE  TrainingInv'
  OBVIOUS
<1> DEFINE cols == Model!Columns
<1>0. TrainingTypes /\ Courses /\ DOMAIN disk = Model!Files
  BY DEF TrainingInv, TrainingTypes
<1>1. /\ pc = "return" /\ pc' = "input" /\ disk' = [disk EXCEPT !["pname"] = cols]
      /\ r2p' = r2p /\ coef' = coef /\ lost' = lost /\ kind' = kind /\ task' = task
      /\ trainings' = trainings
  BY DEF Model!WriteNames, Model!Kept
<1>2. /\ cols \in Seq(Model!Features)
      /\ {cols[j] : j \in 1..Len(cols)} = Model!Used(task.samples)
      /\ r2p = Model!Names(cols)
      /\ disk["data"].cols = cols /\ disk["data"].rows = Model!Rows(task.samples, cols)
  BY <1>0, <1>1 DEF Courses, Dumping
<1> HIDE DEF cols
<1>3. Writes("pname", cols)
  BY <1>0, <1>1, FileIsWritten DEF Model!Files
<1>4. /\ disk'["pname"] = cols /\ disk'["data"] = disk["data"] /\ disk'["svdout"] = disk["svdout"]
      /\ DOMAIN disk' = Model!Files
  BY <1>3 DEF Writes, Model!Files
<1>5. TrainingTypes'
  <2>1. /\ r2p' \in Seq(Model!Features \cup {"result"}) /\ lost' \in BOOLEAN
        /\ coef' # <<>> => Intercept \in DOMAIN coef'
        /\ disk'["data"] = None \/ IsSeq(disk'["data"].rows)
        /\ disk'["svdout"] # None => disk'["svdout"].rank \in Nat /\ disk'["svdout"].of.rows \in Nat
        /\ pc' \in Phases
    BY <1>0, <1>1, <1>4 DEF TrainingTypes, Phases
  <2>2. QED
    BY <1>1, <1>2, <1>4, <2>1, TypesKept
<1>6. Courses'
  BY <1>0, <1>1 DEF Courses, Model!FavoursGoodResults
<1>7. NamesInv' /\ DataInv'
  BY <1>1, <1>2, <1>4 DEF NamesInv, DataInv
<1>8. MatrixInv' /\ InputInv' /\ WeightsInv'
  BY <1>1 DEF MatrixInv, InputInv, WeightsInv
<1>9. QED
  BY <1>5, <1>6, <1>7, <1>8 DEF TrainingInv

LEMMA MakesInput == TrainingInv /\ Model!MakeInput => TrainingInv'
<1> SUFFICES ASSUME TrainingInv, Model!MakeInput
             PROVE  TrainingInv'
  OBVIOUS
<1>0. TrainingTypes /\ Courses /\ lost \in BOOLEAN /\ DOMAIN disk = Model!Files
  BY DEF TrainingInv, TrainingTypes
<1>1. /\ pc = "input" /\ lost' = lost /\ kind' = kind /\ task' = task
      /\ trainings' = trainings /\ lost' \in BOOLEAN
  BY <1>0 DEF Model!MakeInput, Model!Kept
<1>2. CASE kind # "old" /\ disk["data"] = None
  <2>1. pc' = "failed" /\ disk' = disk /\ r2p' = r2p /\ coef' = coef
    BY <1>2 DEF Model!MakeInput, Model!Fail
  <2>2. QED
    BY <1>1, <2>1, Failing
<1>3. ASSUME NEW name \in {"svdin", "libin", "coef"}, NEW v, disk' = [disk EXCEPT ![name] = v],
             pc' \in Phases, r2p' = r2p, coef' = coef
      PROVE  /\ TrainingTypes' /\ NamesInv' /\ DataInv'
             /\ disk'["data"] = disk["data"] /\ disk'[name] = v
  <2>1. Writes(name, v)
    BY <1>0, <1>3, FileIsWritten DEF Model!Files
  <2>2. /\ disk'["pname"] = disk["pname"] /\ disk'["data"] = disk["data"]
        /\ disk'["svdout"] = disk["svdout"] /\ DOMAIN disk' = Model!Files /\ disk'[name] = v
    BY <2>1 DEF Writes, Model!Files
  <2>3. /\ r2p' \in Seq(Model!Features \cup {"result"})
        /\ coef' # <<>> => Intercept \in DOMAIN coef'
        /\ disk'["pname"] = None \/ disk'["pname"] \in Seq(Model!Features)
        /\ disk'["data"] = None \/ IsSeq(disk'["data"].rows)
        /\ disk'["svdout"] # None => disk'["svdout"].rank \in Nat /\ disk'["svdout"].of.rows \in Nat
    BY <1>0, <1>3, <2>2 DEF TrainingTypes
  <2>4. TrainingTypes'
    BY <1>1, <1>3, <2>2, <2>3, TypesKept
  <2>5. NamesInv' /\ DataInv'
    BY <1>1, <1>3, <2>2, NamesKept, DataKept
  <2>6. QED
    BY <2>2, <2>4, <2>5
<1>4. CASE kind = "svd" /\ disk["data"] # None
  <2> DEFINE m == Model!SvdInput(disk["data"])
  <2>1. disk' = [disk EXCEPT !["svdin"] = m] /\ pc' = "svd" /\ r2p' = r2p /\ coef' = coef
    BY <1>4 DEF Model!MakeInput
  <2>2. m.rows \in Nat
    <3>1. IsSeq(disk["data"].rows)
      BY <1>0, <1>4 DEF TrainingTypes
    <3>2. m.rows = Len(disk["data"].rows)
      BY DEF Model!SvdInput
    <3>3. QED
      BY <3>1, <3>2, SeqIsTyped
  <2> HIDE DEF m
  <2>3. /\ TrainingTypes' /\ NamesInv' /\ DataInv'
        /\ disk'["data"] = disk["data"] /\ disk'["svdin"] = m
    BY <1>3, <2>1 DEF Phases
  <2>4. Courses'
    BY <1>0, <1>1, <1>4, <2>1, <2>2, <2>3 DEF Courses, Model!FavoursGoodResults
  <2>5. MatrixInv'
    BY <2>1, <2>3 DEF MatrixInv, m
  <2>6. InputInv' /\ WeightsInv'
    BY <2>1 DEF InputInv, WeightsInv
  <2>7. QED
    BY <2>3, <2>4, <2>5, <2>6 DEF TrainingInv
<1>5. CASE kind = "old"
  <2>1. disk' = [disk EXCEPT !["coef"] = None] /\ pc' = "glm" /\ r2p' = r2p /\ coef' = coef
    BY <1>5 DEF Model!MakeInput, Model!WithoutCoef
  <2>2. /\ TrainingTypes' /\ NamesInv' /\ DataInv'
        /\ disk'["data"] = disk["data"] /\ disk'["coef"] = None
    BY <1>3, <2>1 DEF Phases
  <2>3. Courses'
    BY <1>0, <1>1, <1>5, <2>1, <2>2 DEF Courses, Model!FavoursGoodResults
  <2>4. MatrixInv' /\ InputInv' /\ WeightsInv'
    BY <1>1, <1>5, <2>1 DEF MatrixInv, InputInv, WeightsInv
  <2>5. QED
    BY <2>2, <2>3, <2>4 DEF TrainingInv
<1>6. CASE kind \in {"lg", "noweight"} /\ disk["data"] # None
  <2> DEFINE lines == Model!Lines(Marked(disk["data"]))
  <2>1. disk' = [disk EXCEPT !["libin"] = lines] /\ pc' = "train" /\ r2p' = r2p /\ coef' = coef
    BY <1>6 DEF Model!MakeInput, Marked
  <2>2. kind = "lg" => lines = Model!LgLines(Marked(disk["data"]))
    BY DEF Model!Lines
  <2>3. kind = "lg" => Head(lines).label = 1
    <3> SUFFICES ASSUME kind = "lg"
                 PROVE  Head(lines).label = 1
      OBVIOUS
    <3>1. PICK n \in Nat : DOMAIN disk["data"].rows = 1..n
      BY <1>0, <1>6 DEF TrainingTypes, IsSeq
    <3>2. DOMAIN Marked(disk["data"]) = 1..n
      BY <3>1 DEF Marked
    <3>3. Head(Model!LgLines(Marked(disk["data"]))).label = 1
      BY <3>2, LinesStart
    <3> HIDE DEF lines
    <3>4. QED
      BY <2>2, <3>3
  <2> HIDE DEF lines
  <2>4. /\ TrainingTypes' /\ NamesInv' /\ DataInv'
        /\ disk'["data"] = disk["data"] /\ disk'["libin"] = lines
    BY <1>3, <2>1 DEF Phases
  <2>5. Courses'
    BY <1>0, <1>1, <1>6, <2>1, <2>3, <2>4 DEF Courses, Model!FavoursGoodResults
  <2>6. InputInv'
    BY <1>1, <1>6, <2>2, <2>4 DEF InputInv
  <2>7. MatrixInv' /\ WeightsInv'
    BY <1>1, <1>6, <2>1 DEF MatrixInv, WeightsInv
  <2>8. QED
    BY <2>4, <2>5, <2>6, <2>7 DEF TrainingInv
<1>7. kind \in {"lg", "noweight", "svd", "old"}
  BY <1>0, BatchAssumption DEF TrainingTypes, Model!ModelTrainingAssumption, Model!Kind
<1>8. QED
  BY <1>2, <1>4, <1>5, <1>6, <1>7

\* A file other than the names and the data is written.
LEMMA OtherIsWritten ==
  ASSUME TrainingInv, pc \notin {"idle", "names", "data", "return", "failed"}, pc' \in Phases,
         NEW name \in {"svdin", "svdout", "libin", "model", "coef"}, NEW v,
         disk' = [disk EXCEPT ![name] = v],
         name = "svdout" => v.rank \in Nat /\ v.of.rows \in Nat,
         kind' = kind, task' = task, trainings' = trainings, r2p' = r2p, lost' \in BOOLEAN,
         coef' # <<>> => Intercept \in DOMAIN coef'
  PROVE  TrainingTypes' /\ NamesInv' /\ DataInv' /\ Writes(name, v)
<1>0. TrainingTypes /\ DOMAIN disk = Model!Files
  BY DEF TrainingInv, TrainingTypes
<1>1. Writes(name, v)
  BY <1>0, FileIsWritten DEF Model!Files
<1>2. /\ disk'["pname"] = disk["pname"] /\ disk'["data"] = disk["data"]
      /\ disk'["svdout"] = IF name = "svdout" THEN v ELSE disk["svdout"]
      /\ DOMAIN disk' = Model!Files
  BY <1>1 DEF Writes, Model!Files
<1>3. /\ r2p' \in Seq(Model!Features \cup {"result"})
      /\ disk'["pname"] = None \/ disk'["pname"] \in Seq(Model!Features)
      /\ disk'["data"] = None \/ IsSeq(disk'["data"].rows)
  BY <1>0, <1>2 DEF TrainingTypes
<1>4. disk'["svdout"] # None => disk'["svdout"].rank \in Nat /\ disk'["svdout"].of.rows \in Nat
  BY <1>0, <1>2 DEF TrainingTypes
<1>5. TrainingTypes'
  BY <1>2, <1>3, <1>4, TypesKept
<1>6. NamesInv' /\ DataInv'
  BY <1>2, NamesKept, DataKept
<1>7. QED
  BY <1>1, <1>5, <1>6

LEMMA NothingWritten ==
  ASSUME TrainingInv, pc \notin {"idle", "names", "data", "return", "failed"}, pc' \in Phases, disk' = disk,
         kind' = kind, task' = task, trainings' = trainings, r2p' = r2p, lost' \in BOOLEAN,
         coef' # <<>> => Intercept \in DOMAIN coef'
  PROVE  TrainingTypes' /\ NamesInv' /\ DataInv'
<1>1. TrainingTypes'
  BY DEF TrainingInv, TrainingTypes
<1>2. NamesInv' /\ DataInv'
  BY NamesKept, DataKept
<1>3. QED
  BY <1>1, <1>2

LEMMA Decomposes == TrainingInv /\ Model!Svd => TrainingInv'
<1> SUFFICES ASSUME TrainingInv, Model!Svd
             PROVE  TrainingInv'
  OBVIOUS
<1>0. /\ TrainingTypes /\ Courses /\ MatrixInv /\ lost \in BOOLEAN
      /\ coef # <<>> => Intercept \in DOMAIN coef
  BY DEF TrainingInv, TrainingTypes
<1>1. /\ pc = "svd" /\ pc' = "usv" /\ r2p' = r2p /\ coef' = coef /\ kind' = kind /\ task' = task
      /\ trainings' = trainings /\ kind = "svd" /\ pc' \in Phases
  BY <1>0 DEF Model!Svd, Model!Kept, Courses, Phases
<1>2. Courses'
  BY <1>0, <1>1 DEF Courses, Model!FavoursGoodResults
<1>3. InputInv' /\ WeightsInv'
  BY <1>1 DEF InputInv, WeightsInv
<1>4. CASE \E rank \in Model!Ranks(disk["svdin"]) : \E negative \in Model!Negatives(rank, disk["svdin"].rows) :
             /\ disk' = [disk EXCEPT !["svdout"] =
                  [of |-> disk["svdin"], rank |-> rank, negative |-> negative]]
             /\ lost' = lost
  <2>0. PICK rank \in Model!Ranks(disk["svdin"]) : \E negative \in Model!Negatives(rank, disk["svdin"].rows) :
          /\ disk' = [disk EXCEPT !["svdout"] =
               [of |-> disk["svdin"], rank |-> rank, negative |-> negative]]
          /\ lost' = lost
    BY <1>4
  <2>1. PICK negative \in Model!Negatives(rank, disk["svdin"].rows) :
          /\ disk' = [disk EXCEPT !["svdout"] =
               [of |-> disk["svdin"], rank |-> rank, negative |-> negative]]
          /\ lost' = lost
    BY <2>0
  <2> DEFINE v == [of |-> disk["svdin"], rank |-> rank, negative |-> negative]
  <2>2. v.of = disk["svdin"] /\ v.rank \in Nat
    BY DEF Model!Ranks
  <2>3. disk' = [disk EXCEPT !["svdout"] = v]
    BY <2>1
  <2> HIDE DEF v
  <2>4. v.of.rows \in Nat
    BY <1>0, <1>1, <2>2 DEF Courses
  <2>5. TrainingTypes' /\ NamesInv' /\ DataInv' /\ Writes("svdout", v)
    BY <1>0, <1>1, <2>1, <2>2, <2>3, <2>4, OtherIsWritten
  <2>6. disk'["svdout"] = v /\ disk'["data"] = disk["data"]
    BY <2>5 DEF Writes, Model!Files
  <2>7. MatrixInv'
    <3>1. Worked' => Own
      BY <1>1 DEF Worked, Own
    <3>2. Own => disk["svdin"] = Model!SvdInput(disk["data"])
      BY <1>0, <1>1 DEF MatrixInv
    <3>3. QED
      BY <1>1, <2>2, <2>6, <3>1, <3>2 DEF MatrixInv
  <2>8. QED
    BY <1>2, <1>3, <2>5, <2>7 DEF TrainingInv
<1>5. CASE lost' = TRUE /\ disk' = disk
  <2>1. TrainingTypes' /\ NamesInv' /\ DataInv'
    BY <1>0, <1>1, <1>5, NothingWritten
  <2>2. MatrixInv'
    BY <1>1, <1>5 DEF MatrixInv, Worked
  <2>3. QED
    BY <1>2, <1>3, <2>1, <2>2 DEF TrainingInv
<1>6. QED
  BY <1>4, <1>5 DEF Model!Svd

LEMMA MatrixKept ==
  ASSUME TrainingInv, task' = task, kind' = kind, disk'["svdout"] = disk["svdout"],
         disk'["data"] = disk["data"], pc \in {"usv", "train", "calc", "parse"}, pc' # "svd",
         lost' = lost \/ lost' = TRUE
  PROVE  MatrixInv'
<1>1. Worked' => Worked
  BY DEF Worked, Own
<1>2. kind = "svd" /\ Worked =>
        disk["svdout"].of = Model!SvdInput(disk["data"]) /\ disk["svdout"].rank \in Nat
  BY DEF TrainingInv, MatrixInv
<1>3. QED
  BY <1>1, <1>2 DEF MatrixInv

LEMMA InputKept ==
  ASSUME TrainingInv, task' = task, kind' = kind, disk'["svdout"] = disk["svdout"],
         disk'["data"] = disk["data"], disk'["libin"] = disk["libin"],
         pc \in {"train", "calc", "parse"}, lost' = lost \/ lost' = TRUE
  PROVE  InputInv'
<1>1. Worked' => Worked
  BY DEF Worked, Own
<1>2. Worked =>
        /\ kind = "lg" => disk["libin"] = Model!LgLines(Marked(disk["data"]))
        /\ kind = "svd" =>
             disk["libin"] = Model!LgLines(Model!SvdRows(disk["svdout"], Results(disk["data"])))
  BY DEF TrainingInv, InputInv
<1>3. QED
  BY <1>1, <1>2 DEF InputInv

LEMMA MakesSvdInput == TrainingInv /\ Model!MakeSvdInput => TrainingInv'
<1> SUFFICES ASSUME TrainingInv, Model!MakeSvdInput
             PROVE  TrainingInv'
  OBVIOUS
<1>0. /\ TrainingTypes /\ Courses /\ MatrixInv /\ lost \in BOOLEAN
      /\ coef # <<>> => Intercept \in DOMAIN coef
  BY DEF TrainingInv, TrainingTypes
<1>1. /\ pc = "usv" /\ lost' = lost /\ kind' = kind /\ task' = task
      /\ trainings' = trainings /\ kind = "svd"
  BY <1>0 DEF Model!MakeSvdInput, Model!Kept, Courses
<1> DEFINE bad == disk["svdout"] = None \/ disk["svdout"].of.rows > Len(disk["data"].rows)
<1>2. CASE bad
  <2>1. pc' = "failed" /\ disk' = disk /\ r2p' = r2p /\ coef' = coef
    BY <1>2 DEF Model!MakeSvdInput, Model!Fail
  <2>2. QED
    BY <1>0, <1>1, <2>1, Failing
<1>3. CASE ~bad
  <2> DEFINE rows == Model!SvdRows(disk["svdout"], Results(disk["data"]))
             lines == Model!LgLines(rows)
  <2>1. disk' = [disk EXCEPT !["libin"] = lines] /\ pc' = "train" /\ r2p' = r2p /\ coef' = coef
    BY <1>3 DEF Model!MakeSvdInput, Results
  <2>2. disk["svdout"].of.rows \in Nat /\ disk["svdout"].rank \in Nat
    BY <1>0, <1>3 DEF TrainingTypes
  <2>3. Head(lines).label = 1
    <3> DEFINE n == IF disk["svdout"].rank = 0 THEN 0 ELSE disk["svdout"].of.rows
    <3>1. n \in Nat
      BY <2>2
    <3>2. DOMAIN rows = 1..n
      BY DEF Model!SvdRows
    <3> HIDE DEF n, rows
    <3>3. QED
      BY <3>1, <3>2, LinesStart
  <2> HIDE DEF lines
  <2>4. TrainingTypes' /\ NamesInv' /\ DataInv' /\ Writes("libin", lines)
    BY <1>0, <1>1, <2>1, OtherIsWritten DEF Phases
  <2>5. /\ disk'["libin"] = lines /\ disk'["data"] = disk["data"]
        /\ disk'["svdout"] = disk["svdout"]
    BY <2>4 DEF Writes, Model!Files
  <2>6. Courses'
    BY <1>0, <1>1, <2>1, <2>3, <2>5 DEF Courses, Model!FavoursGoodResults
  <2>7. MatrixInv'
    BY <1>1, <2>1, <2>5, MatrixKept
  <2>8. InputInv'
    BY <1>1, <2>5 DEF InputInv, lines
  <2>9. WeightsInv'
    BY <2>1 DEF WeightsInv
  <2>10. QED
    BY <2>4, <2>6, <2>7, <2>8, <2>9 DEF TrainingInv
<1>4. QED
  BY <1>2, <1>3

LEMMA Fits == TrainingInv /\ Model!LgTrain => TrainingInv'
<1> SUFFICES ASSUME TrainingInv, Model!LgTrain
             PROVE  TrainingInv'
  OBVIOUS
<1>0. /\ TrainingTypes /\ Courses /\ lost \in BOOLEAN
      /\ coef # <<>> => Intercept \in DOMAIN coef
  BY DEF TrainingInv, TrainingTypes
<1>1. /\ pc = "train" /\ pc' = "calc" /\ r2p' = r2p /\ coef' = coef /\ kind' = kind /\ task' = task
      /\ trainings' = trainings /\ pc' \in Phases
  BY <1>0 DEF Model!LgTrain, Model!Kept, Phases
<1>2. CASE disk' = [disk EXCEPT !["model"] = Model!Fit(disk["libin"])] /\ lost' = lost
  <2> DEFINE v == Model!Fit(disk["libin"])
  <2>1. v.first = Head(disk["libin"]).label
    BY DEF Model!Fit
  <2> HIDE DEF v
  <2>2. TrainingTypes' /\ NamesInv' /\ DataInv' /\ Writes("model", v)
    BY <1>0, <1>1, <1>2, OtherIsWritten DEF v
  <2>3. /\ disk'["model"] = v /\ disk'["data"] = disk["data"]
        /\ disk'["svdout"] = disk["svdout"] /\ disk'["libin"] = disk["libin"]
    BY <2>2 DEF Writes, Model!Files
  <2>4. Courses'
    BY <1>0, <1>1, <2>1, <2>3 DEF Courses, Model!FavoursGoodResults
  <2>5. MatrixInv' /\ InputInv'
    BY <1>1, <1>2, <2>3, MatrixKept, InputKept
  <2>6. WeightsInv'
    BY <1>1, <2>3 DEF WeightsInv, v
  <2>7. QED
    BY <2>2, <2>4, <2>5, <2>6 DEF TrainingInv
<1>3. CASE lost' = TRUE /\ disk' = disk
  <2>1. TrainingTypes' /\ NamesInv' /\ DataInv'
    BY <1>0, <1>1, <1>3, NothingWritten
  <2>2. Courses'
    BY <1>0, <1>1, <1>3 DEF Courses, Model!FavoursGoodResults
  <2>3. MatrixInv' /\ InputInv'
    BY <1>1, <1>3, MatrixKept, InputKept
  <2>4. WeightsInv'
    BY <1>1, <1>3 DEF WeightsInv, Worked
  <2>5. QED
    BY <2>1, <2>2, <2>3, <2>4 DEF TrainingInv
<1>4. QED
  BY <1>2, <1>3 DEF Model!LgTrain

LEMMA InterceptIsNamed == \A c : Intercept \in DOMAIN Model!Parsed(c)
BY DEF Model!Parsed, Intercept

LEMMA Calculates == TrainingInv /\ Model!CalcCoefs => TrainingInv'
<1> SUFFICES ASSUME TrainingInv, Model!CalcCoefs
             PROVE  TrainingInv'
  OBVIOUS
<1>0. /\ TrainingTypes /\ Courses /\ WeightsInv /\ lost \in BOOLEAN
      /\ coef # <<>> => Intercept \in DOMAIN coef
  BY DEF TrainingInv, TrainingTypes
<1>1. /\ pc = "calc" /\ lost' = lost /\ kind' = kind /\ task' = task
      /\ trainings' = trainings /\ kind # "old"
  BY <1>0 DEF Model!CalcCoefs, Model!Kept, Courses
<1> DEFINE usv == disk["svdout"]
           w == disk["model"].w
           bad == disk["model"] = None \/ (kind = "svd" /\ Len(w) - 1 # usv.rank)
<1>2. CASE bad
  <2>1. pc' = "failed" /\ disk' = disk /\ r2p' = r2p /\ coef' = coef
    BY <1>2 DEF Model!CalcCoefs, Model!Fail
  <2>2. QED
    BY <1>0, <1>1, <2>1, Failing
<1>3. CASE ~bad
  <2> DEFINE v == IF kind = "svd" THEN Model!SvdCoefs(usv, w) ELSE Model!LgCoefs(w)
  <2>1. disk' = [disk EXCEPT !["coef"] = v] /\ pc' = "parse" /\ r2p' = r2p /\ coef' = coef
    BY <1>3 DEF Model!CalcCoefs
  <2>2. /\ kind = "svd" => v = Model!SvdCoefs(usv, w) /\ Len(w) - 1 = usv.rank
        /\ kind = "lg" => v = Model!LgCoefs(w)
    BY <1>3
  <2> HIDE DEF v
  <2>3. TrainingTypes' /\ NamesInv' /\ DataInv' /\ Writes("coef", v)
    BY <1>0, <1>1, <2>1, OtherIsWritten DEF Phases
  <2>4. /\ disk'["coef"] = v /\ disk'["data"] = disk["data"] /\ disk'["svdout"] = disk["svdout"]
        /\ disk'["libin"] = disk["libin"] /\ disk'["model"] = disk["model"]
    BY <2>3 DEF Writes, Model!Files
  <2>5. Courses'
    BY <1>0, <1>1, <2>1 DEF Courses, Model!FavoursGoodResults
  <2>6. MatrixInv' /\ InputInv'
    BY <1>1, <2>1, <2>4, MatrixKept, InputKept
  <2>7. WeightsInv'
    <3>1. Worked' => Worked
      BY <1>1 DEF Worked, Own
    <3>2. Worked /\ kind \in {"lg", "svd"} => disk["model"] = Model!Fit(disk["libin"])
      BY <1>0, <1>1 DEF WeightsInv
    <3>3. QED
      BY <1>1, <2>1, <2>2, <2>4, <3>1, <3>2 DEF WeightsInv
  <2>8. QED
    BY <2>3, <2>5, <2>6, <2>7 DEF TrainingInv
<1>4. QED
  BY <1>2, <1>3

LEMMA ParsesCoefs == TrainingInv /\ Model!ParseCoef => TrainingInv'
<1> SUFFICES ASSUME TrainingInv, Model!ParseCoef
             PROVE  TrainingInv'
  OBVIOUS
<1>0. TrainingTypes /\ Courses /\ WeightsInv /\ lost \in BOOLEAN
  BY DEF TrainingInv, TrainingTypes
<1>1. /\ pc = "parse" /\ pc' = "done" /\ lost' = lost /\ kind' = kind /\ task' = task
      /\ trainings' = trainings /\ kind # "old" /\ disk' = disk /\ r2p' = r2p /\ pc' \in Phases
  BY <1>0 DEF Model!ParseCoef, Model!Kept, Courses, Phases
<1>2. coef' = Model!Parsed(disk["coef"])
  BY DEF Model!ParseCoef
<1>3. TrainingTypes' /\ NamesInv' /\ DataInv'
  <2>1. Intercept \in DOMAIN coef'
    BY <1>2, InterceptIsNamed
  <2>2. QED
    BY <1>0, <1>1, <2>1, NothingWritten
<1>4. Courses'
  BY <1>0, <1>1 DEF Courses, Model!FavoursGoodResults
<1>5. MatrixInv' /\ InputInv'
  BY <1>1, MatrixKept, InputKept
<1>6. coef' = Model!Parsed(disk["coef"])'
  BY <1>1, <1>2 DEF Model!Parsed, Model!Name
<1>7. WeightsInv'
  <2>1. Worked' <=> Worked
    BY <1>1 DEF Worked, Own
  <2>2. QED
    BY <1>0, <1>1, <1>6, <2>1 DEF WeightsInv
<1>8. QED
  BY <1>3, <1>4, <1>5, <1>7 DEF TrainingInv

LEMMA FitsWithR == TrainingInv /\ Model!Glm => TrainingInv'
<1> SUFFICES ASSUME TrainingInv, Model!Glm
             PROVE  TrainingInv'
  OBVIOUS
<1>0. TrainingTypes /\ Courses /\ lost \in BOOLEAN
  BY DEF TrainingInv, TrainingTypes
<1>1. /\ pc = "glm" /\ kind' = kind /\ task' = task /\ trainings' = trainings
      /\ kind = "old" /\ task.fresh /\ disk["coef"] = None
  BY <1>0 DEF Model!Glm, Model!Kept, Courses
<1> DEFINE v == [inputs |-> [j \in DOMAIN disk["data"].cols |->
                               {Model!Term(<<>>, Model!GlmColumn(disk["data"], j))}],
                 intercept |-> <<>>]
<1>2. CASE /\ Model!Used(task.samples) # {} /\ disk' = [disk EXCEPT !["coef"] = v]
           /\ coef' = Model!Parsed(disk'["coef"]) /\ pc' = "done" /\ lost' = lost /\ r2p' = r2p
  <2>1. v.inputs = [j \in DOMAIN disk["data"].cols |->
                      {Model!Term(<<>>, Model!GlmColumn(disk["data"], j))}]
    OBVIOUS
  <2> HIDE DEF v
  <2>2. Intercept \in DOMAIN coef'
    BY <1>2, InterceptIsNamed
  <2>3. TrainingTypes' /\ NamesInv' /\ DataInv' /\ Writes("coef", v)
    BY <1>0, <1>1, <1>2, <2>2, OtherIsWritten DEF Phases
  <2>4. disk'["coef"] = v /\ disk'["data"] = disk["data"]
    BY <2>3 DEF Writes, Model!Files
  <2>5. Courses'
    BY <1>0, <1>1, <1>2 DEF Courses, Model!FavoursGoodResults
  <2>6. MatrixInv' /\ InputInv'
    BY <1>1 DEF MatrixInv, InputInv
  <2>7. coef' = Model!Parsed(disk["coef"])'
    BY <1>2 DEF Model!Parsed, Model!Name
  <2>8. v.inputs = [j \in DOMAIN disk'["data"].cols |->
                      {Model!Term(<<>>, Model!GlmColumn(disk'["data"], j))}]
    BY <2>1, <2>4
  <2>9. WeightsInv'
    BY <1>1, <1>2, <2>4, <2>7, <2>8 DEF WeightsInv, Own
  <2>10. QED
    BY <2>3, <2>5, <2>6, <2>9 DEF TrainingInv
<1>3. CASE lost' = TRUE /\ Model!Fail
  BY <1>1, <1>3, Failing DEF Model!Fail
<1>4. QED
  BY <1>1, <1>2, <1>3 DEF Model!Glm

LEMMA IsKilled == TrainingInv /\ Model!Crash => TrainingInv'
<1> SUFFICES ASSUME TrainingInv, Model!Crash
             PROVE  TrainingInv'
  OBVIOUS
<1>0. TrainingTypes /\ (kind = "old" => task.fresh)
  BY DEF TrainingInv, Courses
<1>1. /\ pc' = "idle" /\ r2p' = <<>> /\ coef' = <<>> /\ disk' = disk /\ lost' = lost
      /\ kind' = kind /\ task' = task /\ trainings' = trainings
  BY DEF Model!Crash, Model!Kept
<1>2. TrainingTypes'
  <2>1. <<>> \in Seq(Model!Features \cup {"result"}) /\ "idle" \in Phases
    BY DEF Phases
  <2>2. QED
    BY <1>0, <1>1, <2>1 DEF TrainingTypes
<1>3. QED
  BY <1>0, <1>1, <1>2, Elsewhere DEF TrainingInv

LEMMA TrainingStep == TrainingInv /\ [Model!Next]_Model!vars => TrainingInv'
<1> SUFFICES ASSUME TrainingInv, [Model!Next]_Model!vars
             PROVE  TrainingInv'
  OBVIOUS
<1>1. CASE UNCHANGED Model!vars
  <2>1. /\ kind' = kind /\ pc' = pc /\ task' = task /\ disk' = disk /\ r2p' = r2p
        /\ coef' = coef /\ lost' = lost /\ trainings' = trainings
    BY <1>1 DEF Model!vars
  <2>2. TrainingTypes' /\ Courses'
    BY <2>1 DEF TrainingInv, TrainingTypes, Courses, Dumping, Own, Model!Columns,
                Model!FavoursGoodResults
  <2>3. NamesInv' /\ DataInv' /\ MatrixInv' /\ InputInv'
    BY <2>1 DEF TrainingInv, NamesInv, DataInv, MatrixInv, InputInv, Own, Worked
  <2>4. Model!Parsed(disk["coef"])' = Model!Parsed(disk["coef"])
    BY <2>1 DEF Model!Parsed, Model!Name
  <2>5. WeightsInv'
    BY <2>1, <2>4 DEF TrainingInv, WeightsInv, Own, Worked
  <2>6. QED
    BY <2>2, <2>3, <2>5 DEF TrainingInv
<1>2. CASE Model!Next
  BY <1>2, Trains, DumpsNames, LoadsNames, DumpsData, WritesNames, MakesInput, Decomposes, MakesSvdInput, Fits,
     Calculates, ParsesCoefs, FitsWithR, IsKilled DEF Model!Next
<1>3. QED
  BY <1>1, <1>2

LEMMA Trainings == Spec => [](part = "model" => TrainingInv)
<1>1. Init => (part = "model" => TrainingInv)
  BY TrainingInit DEF Init
<1>2. (part = "model" => TrainingInv) /\ [Next]_vars => (part = "model" => TrainingInv)'
  <2>1. [Next]_vars => part = part' /\ (part = "model" => [Model!Next]_Model!vars)
    <3> SUFFICES ASSUME [Next]_vars
                 PROVE  part = part' /\ (part = "model" => [Model!Next]_Model!vars)
      OBVIOUS
    <3>1. CASE UNCHANGED vars
      BY <3>1 DEF vars, modelVars, Model!vars
    <3>2. CASE Next
      BY <3>2 DEF Next, ReportOnly, ModelOnly, DiffOnly, AreaOnly, LocaterOnly
    <3>3. QED
      BY <3>1, <3>2
  <2>2. QED
    BY <2>1, TrainingStep
<1>3. QED
  BY <1>1, <1>2, PTL DEF Spec

-----------------------------------------------------------------------------
RowIs(row, sample, cols, m) ==
  /\ row = [x |-> row.x, y |-> sample.y] /\ DOMAIN row.x = 1..m
  /\ \A j \in 1..m : row.x[j] = Model!Value(sample.sig, cols[j])

\* What a finished training has left, from which the weights are read.
HasData(n, m) ==
  /\ DOMAIN task.samples = 1..n
  /\ \A i \in 1..n : task.samples[i].y \in 0..2
  /\ DOMAIN disk["pname"] = 1..m /\ DOMAIN disk["data"].rows = 1..n
  /\ disk["data"].cols = disk["pname"]
  /\ Len(disk["data"].rows) = n /\ Len(disk["data"].cols) = m
  /\ {disk["pname"][j] : j \in 1..m} = Model!Used(task.samples)
  /\ 1..m \subseteq DOMAIN r2p /\ \A j \in 1..m : r2p[j] = disk["pname"][j]
  /\ \A i \in 1..n : RowIs(disk["data"].rows[i], task.samples[i], disk["pname"], m)

LEMMA DoneHasData ==
  ASSUME TrainingInv, Own, pc = "done"
  PROVE  \E n, m \in Nat : HasData(n, m)
<1>1. PICK n \in Nat : /\ DOMAIN task.samples = 1..n
                       /\ \A i \in 1..n : task.samples[i].y \in 0..2
  BY DEF TrainingInv, TrainingTypes, IsSamples
<1> DEFINE cols == disk["pname"]
           m == Len(cols)
<1>2. /\ cols \in Seq(Model!Features) /\ {cols[j] : j \in 1..m} = Model!Used(task.samples)
      /\ r2p = Append(cols, "result")
  BY DEF TrainingInv, NamesInv, Model!Names
<1>3. m \in Nat /\ DOMAIN cols = 1..m
  BY <1>2, LenProperties
<1>4. disk["data"].cols = cols /\ disk["data"].rows = Model!Rows(task.samples, cols)
  BY DEF TrainingInv, DataInv
<1>5. 1..m \subseteq DOMAIN r2p /\ \A j \in 1..m : r2p[j] = cols[j]
  <2>1. cols \in Seq(Model!Features \cup {"result"})
    BY <1>2, SeqMonotonic
  <2>2. /\ Len(r2p) = m + 1 /\ r2p \in Seq(Model!Features \cup {"result"})
        /\ \A j \in 1..m : r2p[j] = cols[j]
    BY <1>2, <1>3, <2>1, AppendProperties
  <2>3. DOMAIN r2p = 1..(m + 1)
    BY <2>2, LenProperties
  <2>4. QED
    BY <1>3, <2>2, <2>3
<1> HIDE DEF m
<1>6. DOMAIN disk["data"].rows = 1..n
  BY <1>1, <1>4 DEF Model!Rows
<1>7. ASSUME NEW i \in 1..n
      PROVE  RowIs(disk["data"].rows[i], task.samples[i], cols, m)
  <2>1. disk["data"].rows[i] =
          [x |-> [j \in DOMAIN cols |-> Model!Value(task.samples[i].sig, cols[j])],
           y |-> task.samples[i].y]
    BY <1>1, <1>4 DEF Model!Rows
  <2>2. QED
    BY <1>3, <2>1 DEF RowIs
<1>8. Len(disk["data"].rows) = n
  <2> DEFINE d == disk["data"].rows
  <2>1. IsSeq(d)
    BY <1>1, <1>4, <1>6 DEF IsSeq, Model!Rows
  <2>2. DOMAIN d = 1..n
    BY <1>6
  <2> HIDE DEF d
  <2>3. DOMAIN d = 1..Len(d) /\ Len(d) \in Nat
    BY <2>1, SeqIsTyped
  <2> DEFINE l == Len(d)
  <2>4. 1..n = 1..l /\ l \in Nat
    BY <2>2, <2>3
  <2> HIDE DEF l
  <2>5. n = l
    <3>1. n > 0 => n \in 1..l
      BY <2>4
    <3>2. l > 0 => l \in 1..n
      BY <2>4
    <3>3. QED
      BY <2>4, <3>1, <3>2
  <2>6. QED
    BY <2>5 DEF l, d
<1>9. HasData(n, m)
  BY <1>1, <1>2, <1>3, <1>4, <1>5, <1>6, <1>7, <1>8 DEF HasData, m
<1>10. QED
  BY <1>3, <1>9

LEMMA InterceptIsNoFeature == Intercept \notin Model!Features
BY BatchAssumption, Zenon DEF Model!ModelTrainingAssumption, Model!Features, Intercept

\* What the samples share of a column is what its lines say.
SharedByRows(n, rows, j) == Model!FlattenSeq([i \in 1..n |-> SharedBy(rows[i], j)])

Agree(n, rows, j, g) ==
  \A i \in 1..n : /\ rows[i].y = task.samples[i].y /\ j \in DOMAIN rows[i].x
                  /\ rows[i].x[j] = g[i]

LEMMA SharesAre ==
  ASSUME NEW n \in Nat, DOMAIN task.samples = 1..n, NEW rows, NEW j, NEW g,
         Agree(n, rows, j, g)
  PROVE  SharedByRows(n, rows, j) = Model!Shares(g)
<1>1. \A i \in 1..n : SharedBy(rows[i], j) = Model!Share(task.samples[i].y, g[i])
  BY DEF SharedBy, Agree
<1>2. [i \in 1..n |-> SharedBy(rows[i], j)] =
        [i \in 1..n |-> Model!Share(task.samples[i].y, g[i])]
  BY <1>1
<1>3. QED
  BY <1>2, Zenon DEF Model!Shares, SharedByRows

LEMMA WeightsOfFeatures == TrainingInv => Model!WeightOfFeature
<1> SUFFICES ASSUME TrainingInv, Model!Trained, kind = "lg"
             PROVE  Model!WeightOfFeature
  BY DEF Model!WeightOfFeature
<1>0. Own /\ Worked /\ pc = "done"
  BY DEF Model!Trained, Own, Worked
<1>1. PICK n \in Nat, m \in Nat : HasData(n, m)
  BY <1>0, DoneHasData
<1> DEFINE Sig(i) == task.samples[i].sig
           name == disk["pname"]
           rows == Marked(disk["data"])
           lines == Model!LgLines(rows)
           W == Model!Width(lines)
           w == Model!Fit(lines).w
           c == Model!LgCoefs(w)
           Marks(f) == [i \in DOMAIN task.samples |->
                          IF Model!Value(Sig(i), f) > 0 THEN <<1>> ELSE <<>>]
<1>2. /\ DOMAIN rows = 1..n
      /\ \A i \in 1..n :
           /\ rows[i].y = task.samples[i].y /\ rows[i].y \in 0..2 /\ DOMAIN rows[i].x = 1..m
           /\ \A j \in 1..m : rows[i].x[j] =
                IF Model!Value(Sig(i), name[j]) > 0 THEN <<1>> ELSE <<>>
  <2> DEFINE d == disk["data"].rows
  <2>1. /\ DOMAIN d = 1..n
        /\ \A i \in 1..n : task.samples[i].y \in 0..2 /\ RowIs(d[i], task.samples[i], name, m)
    BY <1>1 DEF HasData
  <2>2. DOMAIN rows = 1..n /\ \A i \in 1..n : rows[i] = Model!Positive(d[i])
    BY <2>1 DEF Marked
  <2> HIDE DEF d, rows, name
  <2>3. ASSUME NEW i \in 1..n
        PROVE  /\ rows[i].y = task.samples[i].y /\ rows[i].y \in 0..2 /\ DOMAIN rows[i].x = 1..m
               /\ \A j \in 1..m : rows[i].x[j] =
                    IF Model!Value(Sig(i), name[j]) > 0 THEN <<1>> ELSE <<>>
    <3> DEFINE r == d[i]
               q == rows[i]
    <3>1. /\ r = [x |-> r.x, y |-> task.samples[i].y] /\ DOMAIN r.x = 1..m
          /\ \A j \in 1..m : r.x[j] = Model!Value(Sig(i), name[j])
      BY <2>1 DEF RowIs
    <3>2. q = Model!Positive(r)
      BY <2>2
    <3> HIDE DEF r, q
    <3>3. /\ q.y = task.samples[i].y
          /\ q.x = [j \in DOMAIN r.x |-> IF r.x[j] > 0 THEN <<1>> ELSE <<>>]
      BY <3>1, <3>2 DEF Model!Positive
    <3>4. DOMAIN q.x = 1..m
      BY <3>1, <3>3
    <3>5. ASSUME NEW j \in 1..m
          PROVE  q.x[j] = IF Model!Value(Sig(i), name[j]) > 0 THEN <<1>> ELSE <<>>
      BY <3>1, <3>3
    <3>6. QED
      BY <2>1, <3>3, <3>4, <3>5 DEF q
  <2>4. QED
    BY <2>2, <2>3
<1>3. disk["libin"] = lines /\ disk["model"] = Model!Fit(lines) /\ disk["coef"] = c
      /\ coef = Model!Parsed(c)
  BY <1>0 DEF TrainingInv, InputInv, WeightsInv
<1> HIDE DEF rows
<1>4. /\ W \in 0..m
      /\ \A i \in 1..n : \A j \in DOMAIN rows[i].x : rows[i].x[j] # <<>> => j <= W
  BY <1>2, WidthOfLines
<1> HIDE DEF W
<1>5. Len(w) = W + 1 /\ \A j \in 1..W : w[j] = Model!Column(lines, j)
  BY <1>4, FitIs DEF W
<1> HIDE DEF lines, w
<1>6. DOMAIN c.inputs = 1..W /\ \A j \in 1..W : c.inputs[j] = {Model!Term(<<>>, w[j])}
  <2>1. Len(w) - 1 = W
    BY <1>4, <1>5
  <2>2. c.inputs = [i \in 1..W |-> {Model!Term(<<>>, w[i])}]
    BY <2>1 DEF Model!LgCoefs
  <2>3. QED
    BY <2>2
<1> HIDE DEF c
<1>7. NamedAs(c, W) /\ 1..W \subseteq 1..m
  <2>1. 1..W \subseteq 1..m /\ W \in Nat
    BY <1>4
  <2>2. 1..W \subseteq DOMAIN r2p
    BY <1>1, <2>1 DEF HasData
  <2>3. QED
    BY <1>6, <2>1, <2>2, ParsedByName
<1>8. ASSUME NEW f \in Model!Features, NEW i \in DOMAIN task.samples,
             Model!Value(Sig(i), f) > 0
      PROVE  f \in DOMAIN coef
  <2>1. f \in DOMAIN Sig(i)
    BY <1>8 DEF Model!Value
  <2>2. PICK j \in 1..m : name[j] = f
    <3>1. f \in Model!Used(task.samples)
      BY <2>1 DEF Model!Used
    <3>2. QED
      BY <1>1, <3>1 DEF HasData
  <2>3. i \in 1..n
    BY <1>1 DEF HasData
  <2>4. rows[i].x[j] # <<>> /\ j \in DOMAIN rows[i].x
    <3>1. <<1>> # <<>>
      OBVIOUS
    <3>2. DOMAIN rows[i].x = 1..m
      BY <1>2, <2>3
    <3>3. rows[i].x[j] = IF Model!Value(Sig(i), name[j]) > 0 THEN <<1>> ELSE <<>>
      BY <1>2, <2>3
    <3>4. rows[i].x[j] = <<1>>
      BY <1>8, <2>2, <3>3
    <3>5. QED
      BY <2>2, <3>1, <3>2, <3>4
  <2>5. j \in 1..W
    BY <1>4, <2>3, <2>4
  <2>6. r2p[j] = f
    BY <1>1, <2>2 DEF HasData
  <2>7. QED
    BY <1>3, <1>7, <2>5, <2>6 DEF NamedAs
<1>9. ASSUME NEW f \in Model!Features \cap DOMAIN coef
      PROVE  \E t \in coef[f] : coef[f] = {t} /\ Tail(t.a) = Model!Shares(Marks(f))
  <2>1. f # Intercept
    BY InterceptIsNoFeature
  <2>2. PICK j \in 1..W : r2p[j] = f /\ coef[f] = c.inputs[j]
    BY <1>3, <1>7, <2>1 DEF NamedAs
  <2> DEFINE t == Model!Term(<<>>, w[j])
  <2>3. coef[f] = {t} /\ t.a = Model!Column(lines, j)
    BY <1>5, <1>6, <2>2 DEF Model!Term
  <2> HIDE DEF t
  <2>4. Tail(Model!Column(lines, j)) = SharedByRows(n, rows, j)
    BY <1>2, ColumnsAreShares DEF lines, SharedByRows
  <2>5. j \in 1..m /\ name[j] = f
    BY <1>1, <1>7, <2>2 DEF HasData
  <2> DEFINE g == Marks(f)
  <2>6. Agree(n, rows, j, g)
    BY <1>1, <1>2, <2>5 DEF HasData, Agree
  <2> HIDE DEF g
  <2>7. SharedByRows(n, rows, j) = Model!Shares(g)
    <3>1. DOMAIN task.samples = 1..n
      BY <1>1 DEF HasData
    <3>2. QED
      BY <2>6, <3>1, SharesAre
  <2>8. QED
    BY <2>3, <2>4, <2>7 DEF g
<1> HIDE DEF Sig, Marks
<1>10. QED
  BY <1>8, <1>9, Zenon DEF Model!WeightOfFeature, Sig, Marks

LEMMA ComponentsAreMatched == TrainingInv => Model!ComponentsMatch
<1> SUFFICES ASSUME TrainingInv, Model!Trained, kind = "svd", disk["svdout"].rank <= Base
             PROVE  Model!ComponentsMatch
  BY DEF Model!ComponentsMatch
<1>0. Own /\ Worked /\ pc = "done"
  BY DEF Model!Trained, Own, Worked
<1>1. PICK n \in Nat, m \in Nat : HasData(n, m)
  BY <1>0, DoneHasData
<1> DEFINE usv == disk["svdout"]
           ys == Results(disk["data"])
           order == Model!Transposed(usv.rank)
           rows == Model!SvdRows(usv, ys)
           nn == IF usv.rank = 0 THEN 0 ELSE n
           lines == Model!LgLines(rows)
           W == Model!Width(lines)
           w == Model!Fit(lines).w
           c == Model!SvdCoefs(usv, w)
<1>2. usv.of = Model!SvdInput(disk["data"]) /\ usv.rank \in Nat
  BY <1>0 DEF TrainingInv, MatrixInv
<1>3. usv.of.rows = n /\ usv.of.cols = m
  BY <1>1, <1>2 DEF HasData, Model!SvdInput
<1>4. /\ disk["libin"] = lines /\ disk["model"] = Model!Fit(lines) /\ disk["coef"] = c
      /\ coef = Model!Parsed(c) /\ Len(w) - 1 = usv.rank
  BY <1>0 DEF TrainingInv, InputInv, WeightsInv
<1>5. \A k \in 1..usv.rank : order[k] = k - 1
  BY <1>2, SortedByNumber
<1>6. DOMAIN ys = 1..n /\ \A i \in 1..n : ys[i] = task.samples[i].y /\ ys[i] \in 0..2
  <2>1. DOMAIN ys = 1..n /\ \A i \in 1..n : ys[i] = disk["data"].rows[i].y
    BY <1>1 DEF HasData, Results
  <2> HIDE DEF ys
  <2>2. ASSUME NEW i \in 1..n
        PROVE  ys[i] = task.samples[i].y /\ ys[i] \in 0..2
    <3> DEFINE r == disk["data"].rows[i]
    <3>1. RowIs(r, task.samples[i], disk["pname"], m) /\ task.samples[i].y \in 0..2 /\ ys[i] = r.y
      BY <1>1, <2>1 DEF HasData
    <3> HIDE DEF r
    <3>2. QED
      BY <3>1 DEF RowIs
  <2>3. QED
    BY <2>1, <2>2
<1> HIDE DEF order, ys
<1>7. /\ nn \in Nat /\ DOMAIN rows = 1..nn /\ 1..nn \subseteq 1..n
      /\ \A i \in 1..nn :
           /\ rows[i].y = ys[i] /\ DOMAIN rows[i].x = 1..usv.rank
           /\ \A k \in 1..usv.rank : rows[i].x[k] =
                IF <<k - 1, i>> \in usv.negative THEN <<>> ELSE <<usv.of, k - 1, i, k - 1>>
  <2> DEFINE rank == usv.rank
             minus == usv.negative
             of == usv.of
  <2>1. rows = [i \in 1..nn |->
                  [x |-> [k \in 1..rank |->
                            IF <<order[k], i>> \in minus THEN <<>> ELSE <<of, order[k], i, k - 1>>],
                   y |-> ys[i]]]
    BY <1>3, Zenon DEF Model!SvdRows, order
  <2>2. nn \in Nat /\ 1..nn \subseteq 1..n
    OBVIOUS
  <2>3. \A k \in 1..rank : order[k] = k - 1
    BY <1>5
  <2> HIDE DEF nn, rows, rank, minus, of
  <2>4. DOMAIN rows = 1..nn
    BY <2>1
  <2>5. ASSUME NEW i \in 1..nn
        PROVE  /\ rows[i].y = ys[i] /\ DOMAIN rows[i].x = 1..rank
               /\ \A k \in 1..rank : rows[i].x[k] =
                    IF <<k - 1, i>> \in minus THEN <<>> ELSE <<of, k - 1, i, k - 1>>
    <3> DEFINE r == rows[i]
    <3>1. r = [x |-> [k \in 1..rank |->
                        IF <<order[k], i>> \in minus THEN <<>> ELSE <<of, order[k], i, k - 1>>],
               y |-> ys[i]]
      BY <2>1
    <3> HIDE DEF r
    <3>2. r.y = ys[i] /\ DOMAIN r.x = 1..rank
      BY <3>1
    <3>3. ASSUME NEW k \in 1..rank
          PROVE  r.x[k] = IF <<k - 1, i>> \in minus THEN <<>> ELSE <<of, k - 1, i, k - 1>>
      BY <2>3, <3>1
    <3>4. QED
      BY <3>2, <3>3 DEF r
  <2>6. QED
    BY <2>2, <2>4, <2>5 DEF rank, minus, of
<1> HIDE DEF rows, nn
<1>8. W \in 0..usv.rank
  <2> DEFINE rank == usv.rank
  <2>1. /\ rank \in Nat /\ nn \in Nat /\ DOMAIN rows = 1..nn
        /\ \A i \in 1..nn : DOMAIN rows[i].x \subseteq 1..rank
    BY <1>2, <1>7
  <2> HIDE DEF rank
  <2>2. W \in 0..rank
    BY <2>1, WidthOfLines
  <2>3. QED
    BY <2>2 DEF rank
<1> HIDE DEF W
<1>9. Len(w) = W + 1 /\ \A k \in 1..W : w[k] = Model!Column(lines, k)
  BY <1>8, FitIs DEF W
<1> HIDE DEF lines
<1>10. W = usv.rank
  BY <1>2, <1>4, <1>8, <1>9
<1> HIDE DEF w
<1>11. /\ DOMAIN c.inputs = 1..m
       /\ \A j \in 1..m : c.inputs[j] =
            {Model!Term(<<usv.of, k - 1, j>>, w[k]) : k \in 1..usv.rank}
  BY <1>3 DEF Model!SvdCoefs
<1> HIDE DEF c
<1>12. NamedAs(c, m)
  BY <1>1, <1>11, ParsedByName DEF HasData
<1>13. Model!Used(task.samples) \subseteq DOMAIN coef
  BY <1>1, <1>4, <1>12 DEF HasData, NamedAs
<1>14. ASSUME NEW f \in Model!Features \cap DOMAIN coef, NEW t \in coef[f]
       PROVE  /\ r2p[t.v[3]] = f
              /\ Tail(t.a) = Model!Shares([i \in DOMAIN task.samples |->
                   IF <<t.v[2], i>> \in usv.negative THEN <<>> ELSE <<t.v[1], t.v[2], i, t.v[2]>>])
  <2>1. f # Intercept
    BY InterceptIsNoFeature
  <2>2. PICK j \in 1..m : r2p[j] = f /\ coef[f] = c.inputs[j]
    BY <1>4, <1>12, <2>1 DEF NamedAs
  <2>3. PICK k \in 1..usv.rank : t = Model!Term(<<usv.of, k - 1, j>>, w[k])
    BY <1>11, <2>2
  <2>4. t.v[1] = usv.of /\ t.v[2] = k - 1 /\ t.v[3] = j /\ t.a = Model!Column(lines, k)
    BY <1>9, <1>10, <2>3 DEF Model!Term
  <2> DEFINE g == [i \in DOMAIN task.samples |->
                    IF <<k - 1, i>> \in usv.negative THEN <<>> ELSE <<usv.of, k - 1, i, k - 1>>]
  <2>5. DOMAIN task.samples = 1..n
    BY <1>1 DEF HasData
  <2>6. nn = n
    BY <1>2 DEF nn
  <2>7. Agree(n, rows, k, g)
    BY <1>6, <1>7, <2>5, <2>6 DEF Agree
  <2> HIDE DEF g
  <2>8. SharedByRows(n, rows, k) = Model!Shares(g)
    BY <2>5, <2>7, SharesAre
  <2>9. Tail(t.a) = Model!Shares(g)
    <3>1. DOMAIN rows = 1..n /\ \A i \in 1..n : rows[i].y \in 0..2
      BY <1>6, <1>7, <2>6
    <3>2. Tail(Model!Column(lines, k)) = SharedByRows(n, rows, k)
      BY <3>1, ColumnsAreShares DEF lines, SharedByRows
    <3>3. QED
      BY <2>4, <2>8, <3>2
  <2>10. QED
    BY <2>2, <2>4, <2>9 DEF g
<1>15. QED
  BY <1>13, <1>14, Zenon DEF Model!ComponentsMatch

LEMMA RFitsOwn == TrainingInv => Model!GlmIsFresh
<1> SUFFICES ASSUME TrainingInv, pc = "done", kind = "old",
                    NEW f \in DOMAIN coef \ {Intercept}, NEW t \in coef[f]
             PROVE  t.a = [i \in DOMAIN task.samples |->
                             <<task.samples[i].y, Model!One,
                               <<Model!Value(task.samples[i].sig, f)>>>>]
  BY Zenon DEF Model!GlmIsFresh, Intercept
<1> DEFINE d == disk["data"]
           c == disk["coef"]
<1>1. /\ Own /\ coef = Model!Parsed(c)
      /\ c.inputs = [j \in DOMAIN d.cols |-> {Model!Term(<<>>, Model!GlmColumn(d, j))}]
  BY DEF TrainingInv, WeightsInv
<1>2. PICK n \in Nat, m \in Nat : HasData(n, m)
  BY <1>1, DoneHasData
<1>3. DOMAIN c.inputs = 1..m
  BY <1>1, <1>2 DEF HasData
<1>4. NamedAs(c, m)
  BY <1>2, <1>3, ParsedByName DEF HasData
<1>5. PICK j \in 1..m : r2p[j] = f /\ coef[f] = c.inputs[j]
  BY <1>1, <1>4 DEF NamedAs
<1>6. t.a = Model!GlmColumn(d, j)
  BY <1>1, <1>3, <1>5 DEF Model!Term
<1>7. /\ DOMAIN d.rows = 1..n /\ DOMAIN task.samples = 1..n
      /\ \A i \in 1..n : d.rows[i].y = task.samples[i].y
                          /\ d.rows[i].x[j] = Model!Value(task.samples[i].sig, f)
  <2>1. disk["pname"][j] = f
    BY <1>2, <1>5 DEF HasData
  <2>2. /\ DOMAIN d.rows = 1..n /\ DOMAIN task.samples = 1..n
        /\ \A i \in 1..n : RowIs(d.rows[i], task.samples[i], disk["pname"], m)
    BY <1>2 DEF HasData
  <2> HIDE DEF d
  <2>3. ASSUME NEW i \in 1..n
        PROVE  /\ d.rows[i].y = task.samples[i].y
               /\ d.rows[i].x[j] = Model!Value(task.samples[i].sig, f)
    <3> DEFINE r == d.rows[i]
    <3>1. RowIs(r, task.samples[i], disk["pname"], m)
      BY <2>2
    <3> HIDE DEF r
    <3>2. r.y = task.samples[i].y /\ r.x[j] = Model!Value(task.samples[i].sig, f)
      BY <2>1, <3>1 DEF RowIs
    <3>3. QED
      BY <3>2 DEF r
  <2>4. QED
    BY <2>2, <2>3
<1> HIDE DEF d
<1>8. QED
  BY <1>6, <1>7 DEF Model!GlmColumn

LEMMA BothEstimatesAgree == Model!EstimatesAgree
<1> SUFFICES ASSUME NEW S \in SUBSET Model!Features, NEW sig \in [S -> {1, 2}],
                    \A f \in Model!Features :
                      (Parts[f] # {f} /\ \A p \in Parts[f] : p \in S) => f \in S
             PROVE  Model!Terms(sig) = Model!TermsOfDetail(sig)
  BY Zenon DEF Model!EstimatesAgree
<1> DEFINE known == DOMAIN sig \cap DOMAIN coef
           joint == {f \in (Model!Features \cap DOMAIN coef) \ known :
                       \A p \in Parts[f] : p \in known /\ sig[p] = 1}
<1>1. DOMAIN sig = S
  OBVIOUS
<1>2. joint = {}
  <2> SUFFICES ASSUME NEW f \in joint
               PROVE  FALSE
    OBVIOUS
  <2>1. \A p \in Parts[f] : p \in S
    BY <1>1
  <2>2. f \notin S /\ f \in Model!Features
    BY <1>1
  <2>3. Parts[f] = {f}
    BY <2>1, <2>2
  <2>4. QED
    BY <2>1, <2>2, <2>3
<1> HIDE DEF joint
<1>3. {<<f, 1>> : f \in joint} = {}
  BY <1>2
<1>4. Model!Terms(sig) = {<<f, sig[f]>> : f \in known} \cup {<<f, 1>> : f \in joint}
  BY Zenon DEF Model!Terms, joint
<1>5. QED
  BY <1>3, <1>4 DEF Model!TermsOfDetail

LEMMA TrainingInvGives ==
  TrainingInv => /\ Model!TypeOK /\ Model!WeightOfFeature /\ Model!ComponentsMatch
                 /\ Model!FavoursGoodResults /\ Model!GlmIsFresh /\ Model!EstimatesAgree
<1> SUFFICES ASSUME TrainingInv
             PROVE  Model!TypeOK /\ Model!FavoursGoodResults
  BY WeightsOfFeatures, ComponentsAreMatched, RFitsOwn, BothEstimatesAgree
<1>1. Model!TypeOK
  BY DEF TrainingInv, TrainingTypes, Phases, Intercept, Model!TypeOK
<1>2. Model!FavoursGoodResults
  BY DEF TrainingInv, Courses
<1>3. QED
  BY <1>1, <1>2

(* The coefficient of a feature was fitted to that feature's values, or    *)
(* behind svd to those values of its components that are positive, in the  *)
(* samples of its own training, whatever an earlier training left in the   *)
(* files of feature.py; label 1 is the one that liblinear favours, and     *)
(* both estimates add up the same.                                         *)
THEOREM WeightsAreOwn == Spec => []WeightIsOwn
<1>1. (part = "model" => TrainingInv) => WeightIsOwn
  BY TrainingInvGives DEF WeightIsOwn
<1>2. QED
  BY <1>1, Trainings, PTL
=============================================================================
