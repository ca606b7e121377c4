------------------------------- MODULE IpArea -------------------------------
(***************************************************************************)
(* The area of an address (IP2Area of helpers/ip.py): a binary search in   *)
(* the list of ranges, and the tables that lead from a range's code, a     *)
(* province and a city in it, to a name, a zone and a part of the country. *)
(***************************************************************************)
EXTENDS Integers, Sequences

CONSTANTS
  Tables,        \* self.ips: sequences of ranges [start, end, code]
  Addresses,     \* the addresses asked for, as integers; -1 is none at all
  Named,         \* the codes that have a name in area.dat
  BigAreas       \* province codes -> part of the country

\* A code is a pair of a province and a city; city 0 is the province.
Codes == Nat \X Nat

\* What the constants are; the module that gives them values assumes it.  The
\* keys of self.big_area are provinces.
IpAreaAssumption ==
  /\ \A t \in Tables :
       /\ t \in Seq([start : Int, end : Int, code : Codes])
       /\ \A i \in DOMAIN t : t[i].start <= t[i].end
  /\ Addresses \subseteq Int
  /\ Named \subseteq Codes
  /\ \A c \in DOMAIN BigAreas : c \in Codes /\ c[2] = 0

VARIABLES
  ips,           \* the table
  ask,           \* "code", "big" or "province": ipint2code, ipint2big_area, ipint2area
  ip,
  front, end,    \* of the search
  found,         \* the code, NoCode, or NotYet
  answer         \* what the caller gets, or NotYet

vars == <<ips, ask, ip, front, end, found, answer>>

NotYet == <<>>
NoCode == <<-1, -1>>     \* the number 0 where there is no range

Init ==
  /\ ips \in Tables /\ ip \in Addresses
  /\ ask \in {"code", "big", "province"}
  /\ front = 0 /\ end = Len(ips)
  /\ found = NotYet /\ answer = NotYet

At(i) == ips[i + 1]
Outside == ips # <<>> => (ip < At(0).start \/ ip > At(Len(ips) - 1).end)

Refuse ==
  /\ found = NotYet /\ Outside
  /\ found' = NoCode
  /\ UNCHANGED <<ips, ask, ip, front, end, answer>>

\* A plausible bug: the first address of a range is not in it.
HalveAbove ==
  /\ found = NotYet /\ ~Outside /\ front + 1 < end
  /\ LET mid == (front + end) \div 2
     IN  IF ip > At(mid).start THEN front' = mid /\ UNCHANGED end
         ELSE end' = mid /\ UNCHANGED front
  /\ UNCHANGED <<ips, ask, ip, found, answer>>

Halve ==
  /\ found = NotYet /\ ~Outside /\ front + 1 < end
  /\ LET mid == (front + end) \div 2
     IN  IF ip >= At(mid).start THEN front' = mid /\ UNCHANGED end
         ELSE end' = mid /\ UNCHANGED front
  /\ UNCHANGED <<ips, ask, ip, found, answer>>

Hit ==
  /\ found = NotYet /\ ~Outside /\ front + 1 >= end
  /\ found' = At(front).code
  /\ UNCHANGED <<ips, ask, ip, front, end, answer>>

Province(code) == <<code[1], 0>>
NameOf(code) == IF code \in Named THEN code ELSE <<"None">>

\* A plausible bug: the city is not cut off the code.
BigAreaOfCode(code) == IF code \in DOMAIN BigAreas THEN <<BigAreas[code]>> ELSE <<"N/A">>

\* code2big_area; the number 0 has no [:-2].
BigArea(code) ==
  IF code = NoCode THEN <<"TypeError">>
  ELSE IF Province(code) \in DOMAIN BigAreas THEN <<BigAreas[Province(code)]>> ELSE <<"N/A">>

Answer ==
  /\ found # NotYet /\ answer = NotYet
  /\ answer' = CASE ask = "code"     -> found
                 [] ask = "big"      -> BigArea(found)
                 [] ask = "province" -> IF found = NoCode THEN <<"None">> ELSE NameOf(Province(found))
  /\ UNCHANGED <<ips, ask, ip, front, end, found>>

Next == Refuse \/ Halve \/ Hit \/ Answer

Spec == Init /\ [][Next]_vars

TypeOK ==
  /\ ips \in Tables /\ ip \in Addresses
  /\ front \in 0..Len(ips) /\ end \in 0..Len(ips)
  /\ front <= end

\* Where ranges leave no gap the code found is the one of the range that the
\* address is in, at its first and its last address too, and none is found
\* for an address in no range.
Contiguous == \A i \in 1..Len(ips) - 1 : ips[i + 1].start = ips[i].end + 1
FoundIsRange ==
  (found # NotYet /\ Contiguous) =>
    LET in == {i \in DOMAIN ips : ips[i].start <= ip /\ ip <= ips[i].end}
    IN  IF in = {} THEN found = NoCode ELSE \E i \in in : found = ips[i].code

\* A city is in the part of the country that its province is in.
CityIsWithProvince ==
  (answer # NotYet /\ ask = "big" /\ found # NoCode) =>
    \A p \in DOMAIN BigAreas : p[1] = found[1] => answer = <<BigAreas[p]>>
=============================================================================
