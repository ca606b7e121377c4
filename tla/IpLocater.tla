------------------------------ MODULE IpLocater ------------------------------
(***************************************************************************)
(* The look-up of an address in the binary file of helpers/ip2.py.  An     *)
(* index of first addresses is searched, and its record decoded: country   *)
(* and area are strings in the record, or after a mode byte of 1 or 2      *)
(* elsewhere, and what has no offset of its own is read where the file's   *)
(* position was left.                                                      *)
(*                                                                         *)
(* The file is a function from offsets to cells: a mode byte of one, an    *)
(* offset of three bytes, or a string, of two bytes here.                  *)
(***************************************************************************)
EXTENDS Integers, Sequences

CONSTANTS
  Databases,     \* some files: [start: first addresses, record: offsets,
                 \* cells: offset -> cell, countries, areas: what it should say]
  Ips,           \* the addresses looked up
  MaxLookups     \* bound on the look-ups

StringSize == 2

NoString == <<>>

\* The forms of a record in a file, as cells.  An area is a string, or a mode
\* byte and the offset of one, which is 0 for no area.
SaysArea(cells, o, a) ==
  /\ o \in DOMAIN cells
  /\ \/ cells[o] = [is |-> "string", to |-> a] /\ a # NoString
     \/ \E mode \in {1, 2} :
          /\ cells[o] = [is |-> "mode", to |-> mode] /\ o + 1 \in DOMAIN cells
          /\ \E p \in {0} \cup DOMAIN cells :
               /\ cells[o + 1] = [is |-> "offset", to |-> p]
               /\ IF p = 0 THEN a = NoString ELSE cells[p] = [is |-> "string", to |-> a]

\* A country is a string with its area behind it, or mode byte 2 and the offset
\* of a string, the area being behind these.
SaysBoth(cells, o, c, a) ==
  /\ o \in DOMAIN cells
  /\ \/ cells[o] = [is |-> "string", to |-> c] /\ SaysArea(cells, o + StringSize, a)
     \/ /\ cells[o] = [is |-> "mode", to |-> 2] /\ o + 1 \in DOMAIN cells
        /\ \E p \in DOMAIN cells :
             cells[o + 1] = [is |-> "offset", to |-> p] /\ cells[p] = [is |-> "string", to |-> c]
        /\ SaysArea(cells, o + 4, a)

\* Behind its address of four bytes a record has both, or mode byte 1 and the
\* offset at which they are.
Says(cells, o, c, a) ==
  \/ SaysBoth(cells, o + 4, c, a)
  \/ /\ o + 4 \in DOMAIN cells /\ cells[o + 4] = [is |-> "mode", to |-> 1] /\ o + 5 \in DOMAIN cells
     /\ \E p \in DOMAIN cells :
          cells[o + 5] = [is |-> "offset", to |-> p] /\ SaysBoth(cells, p, c, a)

\* What the constants are; the module that gives them values assumes it.  The
\* first addresses rise, and no record or string is at offset 0, the header.
IpLocaterAssumption ==
  /\ MaxLookups \in Nat /\ Ips \subseteq Int
  /\ \A f \in DOMAIN Databases :
       LET d == Databases[f]
           n == Len(d.start)
       IN  /\ d.start \in Seq(Int) /\ d.record \in Seq(Nat)
           /\ Len(d.record) = n
           /\ \A i \in 1..n - 1 : d.start[i] < d.start[i + 1]
           /\ DOMAIN d.cells \subseteq Nat \ {0}
           /\ \A i \in 1..n : Says(d.cells, d.record[i], d.countries[i], d.areas[i])

VARIABLES
  file,          \* which of the files
  sought,        \* the address
  left, right,   \* of find()
  at,            \* "idle", "find", "record", "area", "done" or "failed"
  pos,           \* the position of the mmap
  offset,        \* of the record
  country, area, \* as far as they are read
  lookups

locaterVars == <<file, sought, left, right, at, pos, offset, country, area, lookups>>

db == Databases[file]

Init ==
  /\ file \in DOMAIN Databases
  /\ sought = 0 /\ left = 0 /\ right = 0 /\ at = "idle"
  /\ pos = 8 /\ offset = 0 /\ country = NoString /\ area = NoString /\ lookups = 0

Lookup ==
  /\ at \in {"idle", "done", "failed"} /\ lookups < MaxLookups
  /\ at' = "find" /\ lookups' = lookups + 1
  /\ sought' \in Ips
  /\ left' = 0 /\ right' = Len(db.start) - 1
  /\ country' = NoString /\ area' = NoString
  /\ UNCHANGED <<file, pos, offset>>

\* A plausible bug: the middle is left out of both halves.
HalveWithout ==
  /\ at = "find" /\ right - left >= 2
  /\ LET middle == (left + right) \div 2
     IN  IF sought <= db.start[middle + 1]
         THEN right' = middle /\ UNCHANGED left
         ELSE left' = (IF middle + 1 < right THEN middle + 1 ELSE middle) /\ UNCHANGED right
  /\ UNCHANGED <<file, sought, at, pos, offset, country, area, lookups>>

\* A call of find() that goes on: a first address belongs to the left half.
Halve ==
  /\ at = "find" /\ right - left >= 2
  /\ LET middle == (left + right) \div 2
     IN  IF sought <= db.start[middle + 1] THEN right' = middle /\ UNCHANGED left
         ELSE left' = middle /\ UNCHANGED right
  /\ UNCHANGED <<file, sought, at, pos, offset, country, area, lookups>>

\* With a single record, find() calls itself with the same arguments until
\* the stack is full.
Overflow ==
  /\ at = "find" /\ right - left < 1
  /\ at' = "failed"
  /\ UNCHANGED <<file, sought, left, right, pos, offset, country, area, lookups>>

\* getIpAddr: the offset of the record, from the index.
Locate ==
  /\ at = "find" /\ right - left = 1
  /\ at' = "record" /\ offset' = db.record[left + 1]
  /\ UNCHANGED <<file, sought, left, right, pos, country, area, lookups>>

Cell(o) == db.cells[o]
IsMode(o, mode) == o \in DOMAIN db.cells /\ Cell(o).is = "mode" /\ Cell(o).to = mode
IsString(o) == o \in DOMAIN db.cells /\ Cell(o).is = "string"
Long3(o) == Cell(o).to

\* getString: at an offset, or where the position is.
ReadString(o) == [text |-> Cell(o).to, pos |-> o + StringSize]

\* A plausible bug: the position is not put behind the offset of the country.
CountryStays ==
  LET o == offset + 4
  IN  IF IsMode(o, 1)
      THEN LET p == Long3(o + 1)
           IN  IF IsMode(p, 2) THEN ReadString(Long3(p + 1)) ELSE ReadString(p)
      ELSE IF IsMode(o, 2) THEN [ReadString(Long3(o + 1)) EXCEPT !.pos = offset + 8]
      ELSE ReadString(o)

\* The three forms of a record in getAddr, with the position at which
\* getAreaAddr begins.
Country ==
  LET o == offset + 4
  IN  IF IsMode(o, 1)
      THEN LET p == Long3(o + 1)
           IN  IF IsMode(p, 2) THEN [ReadString(Long3(p + 1)) EXCEPT !.pos = p + 4] ELSE ReadString(p)
      ELSE IF IsMode(o, 2) THEN [ReadString(Long3(o + 1)) EXCEPT !.pos = offset + 8]
      ELSE ReadString(o)

ReadCountry ==
  /\ at = "record" /\ at' = "area"
  /\ country' = Country.text /\ pos' = Country.pos
  /\ UNCHANGED <<file, sought, left, right, offset, area, lookups>>

\* getAreaAddr at the position: a mode byte of either kind and an offset, 0
\* for no area, or a string.
ReadArea ==
  /\ at = "area" /\ at' = "done"
  /\ LET to == Long3(pos + 1)
     IN  IF IsMode(pos, 1) \/ IsMode(pos, 2)
         THEN IF to # 0 THEN area' = ReadString(to).text /\ pos' = ReadString(to).pos
              ELSE area' = NoString /\ pos' = pos + 4
         ELSE area' = (IF IsString(pos) THEN ReadString(pos).text ELSE <<"rubbish">>) /\ pos' = pos + StringSize
  /\ UNCHANGED <<file, sought, left, right, offset, country, lookups>>

Next == Lookup \/ Halve \/ Overflow \/ Locate \/ ReadCountry \/ ReadArea

Spec == Init /\ [][Next]_locaterVars

TypeOK ==
  /\ file \in DOMAIN Databases /\ sought \in Ips \cup {0}
  /\ left \in 0..Len(db.start) /\ right \in -1..Len(db.start)
  /\ at \in {"idle", "find", "record", "area", "done", "failed"}
  /\ pos \in Nat /\ offset \in Nat /\ lookups \in 0..MaxLookups

\* An address after the first of a record, and before the next one's, is
\* found there; the record before it answers for a first address, and for
\* those of the last record.
InsideIsFound ==
  at \in {"record", "area", "done"} =>
    LET n == Len(db.start)
    IN  \A i \in 1..n - 1 :
          (db.start[i] < sought /\ (sought <= db.start[i + 1] \/ i = n - 1)) => offset = db.record[i]

\* Whatever the form of a record, and wherever the last look-up left the
\* position, the country and the area are the record's own.
AnswerIsRecords ==
  at = "done" =>
    LET i == CHOOSE i \in DOMAIN db.record : db.record[i] = offset
    IN  country = db.countries[i] /\ area = db.areas[i]
=============================================================================
