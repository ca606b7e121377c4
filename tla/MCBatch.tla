------------------------------ MODULE MCBatch ------------------------------
(***************************************************************************)
(* Model checking of the parts that work through files: the click report,  *)
(* the training of a model, the comparison of two HDFS directories and the *)
(* two look-ups of an address.  A behaviour is one of `part`; the parts    *)
(* share nothing, and what belongs to the others stays at 0.               *)
(***************************************************************************)
EXTENDS Integers, Sequences, TLC

CONSTANTS
  Unset, Hashes, MaxLines,
  Kinds, SampleLists, Parts, Base, MaxNegatives, MaxTrainings, None,
  Trees, MaxLost,
  Tables, Addresses, Named, BigAreas,
  Databases, Ips, MaxLookups

VARIABLES
  part,
  phase, read, died, glued, unended, called, printed, rest, group, reported,
  message,
  kind, pc, task, disk, r2p, coef, lost, trainings,
  tree, listed, todo, unlisted, frames, over, out,
  ips, ask, ip, front, end, found, answer,
  file, sought, left, right, at, pos, offset, country, area, lookups

reportVars == <<phase, read, died, glued, unended, called, printed, rest, group,
  reported, message>>
modelVars == <<kind, pc, task, disk, r2p, coef, lost, trainings>>
diffVars == <<tree, listed, todo, unlisted, frames, over, out>>
areaVars == <<ips, ask, ip, front, end, found, answer>>
locaterVars == <<file, sought, left, right, at, pos, offset, country, area, lookups>>
vars == <<part, reportVars, modelVars, diffVars, areaVars, locaterVars>>

Report == INSTANCE LogPipeline
Model == INSTANCE ModelTraining
Diff == INSTANCE HdfsDiff WITH lost <- unlisted
Area == INSTANCE IpArea
Locater == INSTANCE IpLocater

ASSUME BatchAssumption ==
  /\ Report!LogPipelineAssumption
  /\ Model!ModelTrainingAssumption
  /\ Diff!HdfsDiffAssumption
  /\ Area!IpAreaAssumption
  /\ Locater!IpLocaterAssumption

ReportOff ==
  /\ phase = 0 /\ read = 0 /\ died = 0 /\ glued = 0 /\ unended = 0 /\ called = 0
  /\ printed = 0 /\ rest = 0 /\ group = 0 /\ reported = 0 /\ message = 0
ModelOff ==
  /\ kind = 0 /\ pc = 0 /\ task = 0 /\ disk = 0 /\ r2p = 0 /\ coef = 0 /\ lost = 0
  /\ trainings = 0
DiffOff ==
  /\ tree = 0 /\ listed = 0 /\ todo = 0 /\ unlisted = 0 /\ frames = 0 /\ over = 0
  /\ out = 0
AreaOff ==
  /\ ips = 0 /\ ask = 0 /\ ip = 0 /\ front = 0 /\ end = 0 /\ found = 0 /\ answer = 0
LocaterOff ==
  /\ file = 0 /\ sought = 0 /\ left = 0 /\ right = 0 /\ at = 0 /\ pos = 0
  /\ offset = 0 /\ country = 0 /\ area = 0 /\ lookups = 0

Init ==
  \/ part = "report" /\ Report!Init /\ ModelOff /\ DiffOff /\ AreaOff /\ LocaterOff
  \/ part = "model" /\ Model!Init /\ ReportOff /\ DiffOff /\ AreaOff /\ LocaterOff
  \/ part = "diff" /\ Diff!Init /\ ReportOff /\ ModelOff /\ AreaOff /\ LocaterOff
  \/ part = "area" /\ Area!Init /\ ReportOff /\ ModelOff /\ DiffOff /\ LocaterOff
  \/ part = "locater" /\ Locater!Init /\ ReportOff /\ ModelOff /\ DiffOff /\ AreaOff

ReportOnly == part = "report" /\ UNCHANGED <<part, modelVars, diffVars, areaVars, locaterVars>>
ModelOnly == part = "model" /\ UNCHANGED <<part, reportVars, diffVars, areaVars, locaterVars>>
DiffOnly == part = "diff" /\ UNCHANGED <<part, reportVars, modelVars, areaVars, locaterVars>>
AreaOnly == part = "area" /\ UNCHANGED <<part, reportVars, modelVars, diffVars, locaterVars>>
LocaterOnly == part = "locater" /\ UNCHANGED <<part, reportVars, modelVars, diffVars, areaVars>>

Next ==
  \/ ReportOnly /\ Report!Next
  \/ ModelOnly /\ Model!Next
  \/ DiffOnly /\ Diff!Next
  \/ AreaOnly /\ Area!Next
  \/ LocaterOnly /\ Locater!Next

Spec == Init /\ [][Next]_vars

-----------------------------------------------------------------------------
\* reducer.py reports every click with its tracks and hops and no other hash's;
\* a row of the mapper is lost only because a line without an end, or a hash
\* with a line feed in it, ran into another; and what log_decoder.py makes of a
\* message is what was encoded.
ReportIsExact ==
  part = "report" =>
    Report!TypeOK /\ Report!ReportIsExact /\ Report!LossHasCause /\ Report!DecodedAsEncoded

\* The coefficient of a feature was fitted to that feature's values, or to its
\* components behind svd, in the samples of this training, with label 1 as the
\* one to favour; and both estimates of feature.py add up the same of them.
WeightIsOwn ==
  part = "model" =>
    /\ Model!TypeOK /\ Model!WeightOfFeature /\ Model!ComponentsMatch
    /\ Model!FavoursGoodResults /\ Model!GlmIsFresh /\ Model!EstimatesAgree

\* A comparison of two directories that ends by itself said of every path what
\* is to be said of it, once; it is cut off only by an item behind all of dst
\* (diff.py).
DiffIsExact ==
  part = "diff" => Diff!TypeOK /\ Diff!ReportIsExact /\ Diff!CutOffBehindDst

\* ip.py finds the range that an address is in, at its ends too, and a city is
\* where its province is; ip2.py finds an address inside a record there, and
\* reads that record's own country and area.
LookupFindsOwn ==
  /\ part = "area" => Area!TypeOK /\ Area!FoundIsRange /\ Area!CityIsWithProvince
  /\ part = "locater" => Locater!TypeOK /\ Locater!InsideIsFound /\ Locater!AnswerIsRecords

-----------------------------------------------------------------------------
\* A joint feature and its parts, and another feature.
MCParts == [f \in {"a", "b", "a&b", "c"} |-> IF f = "a&b" THEN {"a", "b"} ELSE {f}]

\* No sample, one without a feature and one with one, a negative value, and a
\* square of four samples and features.
MCSamples ==
  { <<>>,
    << [y |-> 1, sig |-> <<>>] >>,
    << [y |-> 1, sig |-> "a" :> 1] >>,
    << [y |-> 0, sig |-> "b" :> 1], [y |-> 1, sig |-> "a" :> 1 @@ "b" :> -1] >>,
    << [y |-> 2, sig |-> "a" :> 1], [y |-> 1, sig |-> "a" :> 1 @@ "b" :> 1 @@ "a&b" :> 1],
       [y |-> 0, sig |-> "b" :> 1], [y |-> 0, sig |-> "c" :> 1] >> }

\* Trees of two names, each missing, a file or a directory, and one of two
\* files with a gap between them.
File(n) == [file |-> TRUE, length |-> n]
Dir == [file |-> FALSE, length |-> 0]
Entry(n, form) ==
  CASE form = "none"  -> <<>>
    [] form = "one"   -> <<n>> :> File(1)
    [] form = "two"   -> <<n>> :> File(2)
    [] form = "empty" -> <<n>> :> Dir
    [] form = "dir"   -> <<n>> :> Dir @@ <<n, 1>> :> File(1)
    [] form = "full"  -> <<n>> :> Dir @@ <<n, 1>> :> Dir @@ <<n, 2>> :> File(1)
MCTrees ==
  {Entry(1, f) @@ Entry(2, g) : f \in {"none", "two", "dir", "full"},
                                g \in {"none", "one", "two", "dir", "empty"}}
    \cup {Entry(1, "one") @@ Entry(3, "one")}

\* Tables without a range, with one, without gaps and with one.
RangeOf(a, b, code) == [start |-> a, end |-> b, code |-> code]
MCTables ==
  { <<>>,
    << RangeOf(0, 3, <<1, 0>>) >>,
    << RangeOf(0, 0, <<1, 0>>), RangeOf(1, 3, <<2, 1>>), RangeOf(4, 6, <<1, 2>>) >>,
    << RangeOf(2, 3, <<1, 1>>), RangeOf(4, 4, <<2, 0>>), RangeOf(5, 5, <<3, 0>>), RangeOf(6, 6, <<2, 1>>) >> }
MCNamed == {<<1, 0>>, <<1, 1>>, <<2, 0>>}
MCBigAreas == <<1, 0>> :> "north" @@ <<2, 0>> :> "south"
MCAddresses == -1..7

\* Files of one, three and five records in every form that the decoder knows.
\* Record i is at 100 * i: an address of four bytes, then country and area.
Word(w) == [is |-> "string", to |-> w]
Mode(m) == [is |-> "mode", to |-> m]
To(o) == [is |-> "offset", to |-> o]
AreaAt(i, o, form) ==
  CASE form = "here"  -> o :> Word(<<"area", i>>)
    [] form = "there" -> o :> Mode(2) @@ (o + 1) :> To(100 * i + 60) @@ (100 * i + 60) :> Word(<<"area", i>>)
    [] form = "none"  -> o :> Mode(1) @@ (o + 1) :> To(0)
RecordAt(i, form) ==
  LET o == 100 * i + 4
      p == 100 * i + 20
      q == 100 * i + 40
      name == Word(<<"country", i>>)
  IN  CASE form[1] = "here"    -> o :> name @@ AreaAt(i, o + 2, form[2])
        [] form[1] = "country" -> o :> Mode(2) @@ (o + 1) :> To(q) @@ q :> name @@ AreaAt(i, o + 4, form[2])
        [] form[1] = "both"    -> o :> Mode(1) @@ (o + 1) :> To(p) @@ p :> name @@ AreaAt(i, p + 2, form[2])
        [] form[1] = "chain"   -> o :> Mode(1) @@ (o + 1) :> To(p) @@ p :> Mode(2) @@ (p + 1) :> To(q)
                                    @@ q :> name @@ AreaAt(i, p + 4, form[2])
Forms == {"here", "country", "both", "chain"} \X {"here", "there", "none"}
DatabaseOf(forms) ==
  [start     |-> [i \in DOMAIN forms |-> 3 * (i - 1)],
   record    |-> [i \in DOMAIN forms |-> 100 * i],
   countries |-> [i \in DOMAIN forms |-> <<"country", i>>],
   areas     |-> [i \in DOMAIN forms |-> IF forms[i][2] = "none" THEN <<>> ELSE <<"area", i>>],
   cells     |-> LET upTo[i \in 0..Len(forms)] ==
                       IF i = 0 THEN <<>> ELSE RecordAt(i, forms[i]) @@ upTo[i - 1]
                 IN  upTo[Len(forms)]]
Plain == <<"here", "here">>
MCDatabases ==
  [forms \in { <<Plain>>, <<Plain, Plain, Plain, Plain, Plain>> } \cup {<<f, g, Plain>> : f, g \in Forms}
     |-> DatabaseOf(forms)]
=============================================================================
