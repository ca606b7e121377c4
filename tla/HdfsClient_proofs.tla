------------------------- MODULE HdfsClient_proofs -------------------------
(***************************************************************************)
(* Proofs about HdfsClient and the messages of ThriftMessages.             *)
(***************************************************************************)
EXTENDS HdfsClient, SequenceTheorems, FiniteSetTheorems, TLAPS

-----------------------------------------------------------------------------
(* The generated classes: no two fields of one have a name or an id in     *)
(* common, and there are no structures inside of those inside a message.   *)

Distinct(class) ==
  /\ DOMAIN class \subseteq Nat
  /\ \A i, j \in DOMAIN class :
       class[i].name = class[j].name \/ class[i].id = class[j].id => i = j

FlatClass(class) ==
  /\ Distinct(class)
  /\ \A i \in DOMAIN class : class[i].type # "STRUCT"

HasFlat(f) == f.type = "STRUCT" \/ (f.type = "LIST" /\ f.of # <<>>) => FlatClass(f.of)

MessageClass(class) == Distinct(class) /\ \A i \in DOMAIN class : HasFlat(class[i])

LEMMA FlatClasses ==
  /\ FlatClass(Pathname) /\ FlatClass(ThriftHandle) /\ FlatClass(ThriftIOException)
  /\ FlatClass(FileStatus) /\ FlatClass(BlockLocation)
<1>1. FlatClass(Pathname) /\ FlatClass(ThriftHandle) /\ FlatClass(ThriftIOException)
  BY DEF Pathname, ThriftHandle, ThriftIOException, FlatClass, Distinct, Plain
<1>2. FlatClass(FileStatus)
  BY DEF FileStatus, FlatClass, Distinct, Plain
<1>3. FlatClass(BlockLocation)
  BY DEF BlockLocation, FlatClass, Distinct, Plain
<1>4. QED
  BY <1>1, <1>2, <1>3

\* The fields that a call may have first, or with its result, by themselves.
LEMMA FieldsWithFlat ==
  /\ HasFlat(path) /\ HasFlat(ouch)
  /\ HasFlat(Struct(2, "dest", Pathname))
  /\ HasFlat(Struct(1, "handle", ThriftHandle)) /\ HasFlat(Struct(1, "out", ThriftHandle))
  /\ HasFlat(Struct(0, "success", ThriftHandle)) /\ HasFlat(Struct(0, "success", FileStatus))
  /\ HasFlat(StructList(0, "success", FileStatus)) /\ HasFlat(StructList(0, "success", BlockLocation))
  /\ \A id, name : \A type \in {"I64", "I32", "I16", "BOOL", "STRING"} : HasFlat(Plain(id, type, name))
BY FlatClasses DEF HasFlat, path, ouch, Struct, StructList, Plain

LEMMA ArgsClasses == \A m \in Methods : MessageClass(m.args)
<1>1. \A class \in {
         setInactivityTimeoutPeriod_args, shutdown_args, create_args, createFile_args,
         open_args, append_args, write_args, read_args, close_args, rm_args, rename_args,
         mkdirs_args, exists_args, stat_args, listStatus_args, chmod_args, chown_args,
         setReplication_args, getFileBlockLocations_args} :
        Distinct(class)
  BY DEF Distinct, Plain, Struct, StructList, path, ouch,
         setInactivityTimeoutPeriod_args, shutdown_args, create_args, createFile_args,
         open_args, append_args, write_args, read_args, close_args, rm_args, rename_args,
         mkdirs_args, exists_args, stat_args, listStatus_args, chmod_args, chown_args,
         setReplication_args, getFileBlockLocations_args
<1>2. \A class \in {
         setInactivityTimeoutPeriod_args, shutdown_args, create_args, createFile_args,
         open_args, append_args, write_args, read_args, close_args, rm_args, rename_args,
         mkdirs_args, exists_args, stat_args, listStatus_args, chmod_args, chown_args,
         setReplication_args, getFileBlockLocations_args} :
        \A i \in DOMAIN class : HasFlat(class[i])
  BY FieldsWithFlat
  DEF setInactivityTimeoutPeriod_args, shutdown_args, create_args, createFile_args,
      open_args, append_args, write_args, read_args, close_args, rm_args, rename_args,
      mkdirs_args, exists_args, stat_args, listStatus_args, chmod_args, chown_args,
      setReplication_args, getFileBlockLocations_args
<1>3. \A m \in Methods : m.args \in {
         setInactivityTimeoutPeriod_args, shutdown_args, create_args, createFile_args,
         open_args, append_args, write_args, read_args, close_args, rm_args, rename_args,
         mkdirs_args, exists_args, stat_args, listStatus_args, chmod_args, chown_args,
         setReplication_args, getFileBlockLocations_args}
  BY DEF Methods, Method,
         setInactivityTimeoutPeriod, shutdown, create, createFile, open, append, write,
         read, close, rm, rename, mkdirs, exists, stat, listStatus, chmod, chown,
         setReplication, getFileBlockLocations
<1>4. QED
  BY <1>1, <1>2, <1>3 DEF MessageClass

LEMMA ResultClasses == \A m \in Methods : MessageClass(m.result)
<1>1. \A class \in {
         setInactivityTimeoutPeriod_result, shutdown_result, create_result,
         createFile_result, open_result, append_result, write_result, read_result,
         close_result, rm_result, rename_result, mkdirs_result, exists_result, stat_result,
         listStatus_result, chmod_result, chown_result, setReplication_result,
         getFileBlockLocations_result} :
        Distinct(class)
  BY DEF Distinct, Plain, Struct, StructList, path, ouch,
         setInactivityTimeoutPeriod_result, shutdown_result, create_result,
         createFile_result, open_result, append_result, write_result, read_result,
         close_result, rm_result, rename_result, mkdirs_result, exists_result, stat_result,
         listStatus_result, chmod_result, chown_result, setReplication_result,
         getFileBlockLocations_result
<1>2. \A class \in {
         setInactivityTimeoutPeriod_result, shutdown_result, create_result,
         createFile_result, open_result, append_result, write_result, read_result,
         close_result, rm_result, rename_result, mkdirs_result, exists_result, stat_result,
         listStatus_result, chmod_result, chown_result, setReplication_result,
         getFileBlockLocations_result} :
        \A i \in DOMAIN class : HasFlat(class[i])
  BY FieldsWithFlat
  DEF setInactivityTimeoutPeriod_result, shutdown_result, create_result, createFile_result,
      open_result, append_result, write_result, read_result, close_result, rm_result,
      rename_result, mkdirs_result, exists_result, stat_result, listStatus_result,
      chmod_result, chown_result, setReplication_result, getFileBlockLocations_result
<1>3. \A m \in Methods : m.result \in {
         setInactivityTimeoutPeriod_result, shutdown_result, create_result,
         createFile_result, open_result, append_result, write_result, read_result,
         close_result, rm_result, rename_result, mkdirs_result, exists_result, stat_result,
         listStatus_result, chmod_result, chown_result, setReplication_result,
         getFileBlockLocations_result}
  BY DEF Methods, Method,
         setInactivityTimeoutPeriod, shutdown, create, createFile, open, append, write,
         read, close, rm, rename, mkdirs, exists, stat, listStatus, chmod, chown,
         setReplication, getFileBlockLocations
<1>4. QED
  BY <1>1, <1>2, <1>3 DEF MessageClass

-----------------------------------------------------------------------------
(* What is written is read again, by a reader of the same class.           *)

LEMMA FieldOfName ==
  ASSUME NEW class, Distinct(class), NEW i \in DOMAIN class
  PROVE  FieldNamed(class, class[i].name) = class[i]
BY DEF Distinct, FieldNamed

LEMMA MatchingOwn ==
  ASSUME NEW class, Distinct(class), NEW body, DOMAIN body \subseteq DOMAIN class,
         \A i \in DOMAIN body : body[i].id = class[i].id /\ body[i].type = class[i].type,
         NEW i \in DOMAIN class
  PROVE  /\ i \in DOMAIN body => Matching(body, class[i]) # {} /\ Max(Matching(body, class[i])) = i
         /\ i \notin DOMAIN body => Matching(body, class[i]) = {}
<1>1. Matching(body, class[i]) = IF i \in DOMAIN body THEN {i} ELSE {}
  BY DEF Matching, Distinct
<1>2. i \in Nat => Max({i}) = i
  BY DEF Max
<1>3. QED
  BY <1>1, <1>2 DEF Distinct

LEMMA FlatRoundTrip ==
  ASSUME NEW class, Distinct(class), NEW d
  PROVE  FromWireFlat(class, ToWireFlat(Object(class, d))) = Object(class, [n \in Names(class) |-> d[n]])
<1> DEFINE w == ToWireFlat(Object(class, d))
<1>1. /\ DOMAIN w = {i \in DOMAIN class : d[class[i].name] # None}
      /\ \A i \in DOMAIN w : /\ w[i].id = class[i].id /\ w[i].type = class[i].type
                             /\ w[i].datum = d[class[i].name]
  BY DEF ToWireFlat, Present, Object
<1> HIDE DEF w
<1>2. ASSUME NEW i \in DOMAIN class
      PROVE  LET hits == Matching(w, FieldNamed(class, class[i].name))
             IN  (IF hits = {} THEN None ELSE w[Max(hits)].datum) = d[class[i].name]
  BY <1>1, FieldOfName, MatchingOwn
<1>3. ASSUME NEW n \in Names(class)
      PROVE  LET hits == Matching(w, FieldNamed(class, n))
             IN  (IF hits = {} THEN None ELSE w[Max(hits)].datum) = d[n]
  <2>1. PICK i \in DOMAIN class : n = class[i].name
    BY DEF Names
  <2>2. QED
    BY <1>2, <2>1
<1>4. FromWireFlat(class, w) = Object(class, [n \in Names(class) |-> d[n]])
  BY <1>3 DEF FromWireFlat, Object
<1>5. QED
  BY <1>4 DEF w

\* A message, if each of its values is read again from its own datum.
LEMMA RoundTrip ==
  ASSUME NEW class, Distinct(class), NEW d,
         \A i \in DOMAIN class :
           LET v == d[class[i].name] IN v # None => ReadDatum(class[i], WireDatum(v)) = v
  PROVE  FromWire(class, ToWire(Object(class, d))) = Object(class, [n \in Names(class) |-> d[n]])
<1> DEFINE w == ToWire(Object(class, d))
<1>1. /\ DOMAIN w = {i \in DOMAIN class : d[class[i].name] # None}
      /\ \A i \in DOMAIN w : /\ w[i].id = class[i].id /\ w[i].type = class[i].type
                             /\ w[i].datum = WireDatum(d[class[i].name])
  BY DEF ToWire, Present, Object
<1> HIDE DEF w
<1>2. ASSUME NEW i \in DOMAIN class
      PROVE  LET f    == FieldNamed(class, class[i].name)
                 hits == Matching(w, f)
             IN  (IF hits = {} THEN None ELSE ReadDatum(f, w[Max(hits)].datum)) = d[class[i].name]
  BY <1>1, FieldOfName, MatchingOwn
<1>3. ASSUME NEW n \in Names(class)
      PROVE  LET f    == FieldNamed(class, n)
                 hits == Matching(w, f)
             IN  (IF hits = {} THEN None ELSE ReadDatum(f, w[Max(hits)].datum)) = d[n]
  <2>1. PICK i \in DOMAIN class : n = class[i].name
    BY DEF Names
  <2>2. QED
    BY <1>2, <2>1
<1>4. FromWire(class, w) = Object(class, [n \in Names(class) |-> d[n]])
  BY <1>3 DEF FromWire, Object
<1>5. QED
  BY <1>4 DEF w

\* The values that a program passes or gets back are of this kind.
LEMMA FilledRoundTrip ==
  ASSUME NEW class, FlatClass(class), NEW tag
  PROVE  FromWireFlat(class, ToWireFlat(Filled(class, tag))) = Filled(class, tag)
BY FlatRoundTrip DEF Filled, FlatClass

LEMMA SampleRoundTrip ==
  ASSUME NEW f, HasFlat(f)
  PROVE  /\ ReadDatum(f, WireDatum(Sample(f))) = Sample(f)
         /\ Sample(f).type = f.type
<1>1. CASE f.type = "STRUCT"
  <2>1. Sample(f) = Filled(f.of, f.name)
    BY <1>1 DEF Sample
  <2>2. WireDatum(Sample(f)) = ToWireFlat(Filled(f.of, f.name)) /\ Sample(f).type = "STRUCT"
    BY <2>1 DEF WireDatum, Filled, Object
  <2>3. QED
    BY <1>1, <2>1, <2>2, FilledRoundTrip DEF ReadDatum, HasFlat
<1>2. CASE f.type = "LIST" /\ f.of # <<>>
  <2> DEFINE items == <<Filled(f.of, "first"), Filled(f.of, "second")>>
  <2>1. Sample(f) = ListOf(items)
    BY <1>2 DEF Sample
  <2>2. /\ WireDatum(ListOf(items)) = [i \in DOMAIN items |-> ToWireFlat(items[i])]
        /\ ListOf(items).type = "LIST"
    BY DEF WireDatum, ListOf
  <2>3. \A i \in DOMAIN items : FromWireFlat(f.of, ToWireFlat(items[i])) = items[i]
    BY <1>2, FilledRoundTrip DEF HasFlat
  <2>4. items = [i \in DOMAIN items |-> items[i]]
    OBVIOUS
  <2> HIDE DEF items
  <2>5. ReadDatum(f, WireDatum(ListOf(items))) = ListOf([i \in DOMAIN items |-> items[i]])
    BY <1>2, <2>2, <2>3 DEF ReadDatum
  <2>6. QED
    BY <1>2, <2>1, <2>2, <2>4, <2>5
<1>3. CASE f.type # "STRUCT" /\ ~(f.type = "LIST" /\ f.of # <<>>)
  <2>1. Sample(f) = Scalar(f.type, <<f.name>>)
    BY <1>3 DEF Sample
  <2>2. WireDatum(Sample(f)) = Sample(f) /\ Sample(f).type = f.type
    BY <1>3, <2>1 DEF WireDatum, Scalar
  <2>3. QED
    BY <1>3, <2>2 DEF ReadDatum
<1>4. QED
  BY <1>1, <1>2, <1>3

-----------------------------------------------------------------------------
(* The arguments and the answers of the calls.                             *)

LEMMA ArgumentsRoundTrip ==
  ASSUME NEW m \in Methods, NEW a \in Arguments(m), Writable(a)
  PROVE  FromWire(m.args, ToWire(a)) = a
<1> DEFINE class == m.args
           full  == [n \in Names(class) |-> Sample(FieldNamed(class, n))]
<1>1. Distinct(class) /\ \A i \in DOMAIN class : HasFlat(class[i])
  BY ArgsClasses DEF MessageClass
<1>2. \A i \in DOMAIN class : class[i].name \in Names(class)
  BY DEF Names
<1> HIDE DEF class
<1>3. PICK d : /\ a = Object(class, d) /\ d = [n \in Names(class) |-> d[n]]
               /\ \A n \in Names(class) :
                    \/ d[n] = None
                    \/ d[n] = Sample(FieldNamed(class, n))
                    \/ d[n] = Scalar("DOUBLE", <<n>>)
  <2>1. CASE a = Object(class, full)
    BY <2>1
  <2>2. ASSUME NEW k \in Names(class), NEW v \in {None, Scalar("DOUBLE", <<k>>)}
        PROVE  LET d == [full EXCEPT ![k] = v]
               IN  /\ d = [n \in Names(class) |-> d[n]]
                   /\ \A n \in Names(class) : d[n] \in {None, Sample(FieldNamed(class, n)), Scalar("DOUBLE", <<n>>)}
    OBVIOUS
  <2>3. CASE \E k \in Names(class) : \E v \in {None, Scalar("DOUBLE", <<k>>)} :
               a = Object(class, [full EXCEPT ![k] = v])
    <3>1. PICK k \in Names(class) : \E v \in {None, Scalar("DOUBLE", <<k>>)} :
                 a = Object(class, [full EXCEPT ![k] = v])
      BY <2>3
    <3>2. PICK v \in {None, Scalar("DOUBLE", <<k>>)} : a = Object(class, [full EXCEPT ![k] = v])
      BY <3>1
    <3> HIDE DEF full
    <3> WITNESS [full EXCEPT ![k] = v]
    <3>3. QED
      BY <2>2, <3>2
  <2>4. QED
    BY <2>1, <2>3 DEF Arguments, class
<1>4. ASSUME NEW i \in DOMAIN class, d[class[i].name] # None
      PROVE  ReadDatum(class[i], WireDatum(d[class[i].name])) = d[class[i].name]
  <2>1. CASE d[class[i].name] = Sample(class[i])
    BY <1>1, <2>1, SampleRoundTrip
  <2>2. CASE d[class[i].name] = Scalar("DOUBLE", <<class[i].name>>)
    <3>1. FieldNamed(class, class[i].name) = class[i]
      BY <1>1, FieldOfName
    <3>2. Scalar("DOUBLE", <<class[i].name>>).type = "DOUBLE"
      BY DEF Scalar
    <3>3. class[i].type = "DOUBLE"
      BY <1>2, <1>3, <1>4, <2>2, <3>1, <3>2 DEF Writable, Object
    <3>4. QED
      BY <2>2, <3>3 DEF ReadDatum, WireDatum, Scalar
  <2>3. QED
    BY <1>1, <1>2, <1>3, <1>4, <2>1, <2>2, FieldOfName
<1>5. QED
  BY <1>1, <1>3, <1>4, RoundTrip DEF class

\* The fields of a result: a value that success may be read as, and ouch.
LEMMA ResultFields ==
  ASSUME NEW m \in Methods, NEW i \in DOMAIN m.result
  PROVE  \/ m.result[i] = ouch
         \/ /\ m.result[i].name = "success"
            /\ m.result[i].type \in {"STRUCT", "BOOL", "STRING", "LIST"}
            /\ m.result[i].type = "LIST" => m.result[i].of # <<>>
<1>1. \A class \in {
         setInactivityTimeoutPeriod_result, shutdown_result, create_result,
         createFile_result, open_result, append_result, write_result, read_result,
         close_result, rm_result, rename_result, mkdirs_result, exists_result, stat_result,
         listStatus_result, chmod_result, chown_result, setReplication_result,
         getFileBlockLocations_result} :
        \A k \in DOMAIN class :
          \/ class[k] = ouch
          \/ /\ class[k].name = "success"
             /\ class[k].type \in {"STRUCT", "BOOL", "STRING", "LIST"}
             /\ class[k].type = "LIST" => class[k].of # <<>>
  BY DEF Plain, Struct, StructList, ThriftHandle, FileStatus, BlockLocation,
         setInactivityTimeoutPeriod_result, shutdown_result, create_result,
         createFile_result, open_result, append_result, write_result, read_result,
         close_result, rm_result, rename_result, mkdirs_result, exists_result, stat_result,
         listStatus_result, chmod_result, chown_result, setReplication_result,
         getFileBlockLocations_result
<1>2. QED
  BY <1>1 DEF Methods, Method,
         setInactivityTimeoutPeriod, shutdown, create, createFile, open, append, write,
         read, close, rm, rename, mkdirs, exists, stat, listStatus, chmod, chown,
         setReplication, getFileBlockLocations

LEMMA OuchField ==
  ASSUME NEW m \in Methods, Has(m, "ouch")
  PROVE  FieldNamed(m.result, "ouch") = ouch /\ Sample(ouch) = Filled(ThriftIOException, "ouch")
<1>1. PICK i \in DOMAIN m.result : m.result[i].name = "ouch"
  BY DEF Has, Names
<1>2. m.result[i] = ouch
  BY <1>1, ResultFields
<1>3. Distinct(m.result)
  BY ResultClasses DEF MessageClass
<1>4. QED
  BY <1>1, <1>2, <1>3, FieldOfName DEF Sample, ouch, Struct

\* The values in an object that a handler's method answers with.
LEMMA ReplyValues ==
  ASSUME NEW m \in Methods, NEW r \in HandlerEnds(m) \cup HandlerThrows(m)
  PROVE  \E d : /\ r.result = Object(m.result, d) /\ d = [n \in Names(m.result) |-> d[n]]
                /\ \A n \in Names(m.result) : d[n] \in {None, Sample(FieldNamed(m.result, n))}
                /\ \/ /\ Has(m, "success") /\ d["success"] = Sample(FieldNamed(m.result, "success"))
                      /\ r.meant = Ended("value", d["success"])
                   \/ /\ Has(m, "success") /\ \A n \in Names(m.result) : d[n] = None
                      /\ r.meant = Ended("missing", None)
                   \/ /\ ~Has(m, "success") /\ \A n \in Names(m.result) : d[n] = None
                      /\ r.meant = Ended("void", None)
                   \/ /\ Has(m, "ouch") /\ d["ouch"] = Sample(FieldNamed(m.result, "ouch"))
                      /\ \A n \in Names(m.result) : n # "ouch" => d[n] = None
                      /\ r.meant = Ended("ouch", d["ouch"])
<1> DEFINE v     == Sample(FieldNamed(m.result, "success"))
           e     == Filled(ThriftIOException, "ouch")
           of(x) == [n \in Names(m.result) |-> IF n \in DOMAIN x THEN x[n] ELSE None]
<1>1. CASE Has(m, "success") /\ r = [result |-> Reply(m, [success |-> v]), meant |-> Ended("value", v)]
  <2> WITNESS of([success |-> v])
  <2>1. QED
    BY <1>1 DEF Reply, Has
<1>2. CASE Has(m, "success") /\ r = [result |-> Reply(m, <<>>), meant |-> Ended("missing", None)]
  <2> WITNESS of(<<>>)
  <2>1. QED
    BY <1>2 DEF Reply, Has
<1>3. CASE ~Has(m, "success") /\ r = [result |-> Reply(m, <<>>), meant |-> Ended("void", None)]
  <2> WITNESS of(<<>>)
  <2>1. QED
    BY <1>3 DEF Reply, Has
<1>4. CASE Has(m, "ouch") /\ r = [result |-> Reply(m, [ouch |-> e]), meant |-> Ended("ouch", e)]
  <2>1. Sample(FieldNamed(m.result, "ouch")) = e
    BY <1>4, OuchField
  <2> HIDE DEF e
  <2> WITNESS of([ouch |-> e])
  <2>2. QED
    BY <1>4, <2>1 DEF Reply, Has
<1>5. QED
  BY <1>1, <1>2, <1>3, <1>4 DEF HandlerEnds, HandlerThrows

\* The answer to a call is read as the handler meant it.
LEMMA ReplyIsMeant ==
  ASSUME NEW m \in Methods, NEW r \in HandlerEnds(m) \cup HandlerThrows(m), NEW msg,
         msg.mtype = "REPLY", msg.body = ToWire(r.result)
  PROVE  ReadAnswer(m, msg) = r.meant
<1>1. Distinct(m.result) /\ \A i \in DOMAIN m.result : HasFlat(m.result[i])
  BY ResultClasses DEF MessageClass
<1>2. \A n \in Names(m.result) : None # Sample(FieldNamed(m.result, n))
  BY HdfsClientAssumption
<1> DEFINE class == m.result
<1>3. \A n : Has(m, n) <=> n \in Names(class)
  BY DEF Has
<1> HIDE DEF class
<1>4. PICK d :
         /\ r.result = Object(class, d) /\ d = [n \in Names(class) |-> d[n]]
         /\ \A n \in Names(class) : d[n] \in {None, Sample(FieldNamed(class, n))}
         /\ \/ /\ Has(m, "success") /\ d["success"] = Sample(FieldNamed(class, "success"))
               /\ r.meant = Ended("value", d["success"])
            \/ /\ Has(m, "success") /\ \A n \in Names(class) : d[n] = None
               /\ r.meant = Ended("missing", None)
            \/ /\ ~Has(m, "success") /\ \A n \in Names(class) : d[n] = None
               /\ r.meant = Ended("void", None)
            \/ /\ Has(m, "ouch") /\ d["ouch"] = Sample(FieldNamed(class, "ouch"))
               /\ \A n \in Names(class) : n # "ouch" => d[n] = None
               /\ r.meant = Ended("ouch", d["ouch"])
  BY ReplyValues DEF class
<1>5. \A i \in DOMAIN class : class[i].name \in Names(class)
  BY DEF Names
<1>6. ASSUME NEW i \in DOMAIN class, d[class[i].name] # None
      PROVE  ReadDatum(class[i], WireDatum(d[class[i].name])) = d[class[i].name]
  BY <1>1, <1>4, <1>5, <1>6, FieldOfName, SampleRoundTrip DEF class
<1>7. FromWire(class, msg.body).d = d
  BY <1>1, <1>4, <1>6, RoundTrip DEF class, Object
<1>8. QED
  BY <1>2, <1>3, <1>4, <1>7 DEF ReadAnswer, class

\* A field of an answer has a datum of its own type if that is a scalar.
LEMMA ReplyIsTyped ==
  ASSUME NEW m \in Methods, NEW r \in HandlerEnds(m) \cup HandlerThrows(m),
         NEW i \in DOMAIN ToWire(r.result), ToWire(r.result)[i].type \in {"BOOL", "STRING"}
  PROVE  ToWire(r.result)[i].datum.type = ToWire(r.result)[i].type
<1> DEFINE class == m.result
<1>1. PICK d : /\ r.result = Object(class, d)
               /\ \A n \in Names(class) : d[n] \in {None, Sample(FieldNamed(class, n))}
  BY ReplyValues
<1>2. Distinct(class)
  BY ResultClasses DEF MessageClass
<1> HIDE DEF class
<1>3. /\ i \in DOMAIN class /\ d[class[i].name] # None
      /\ ToWire(r.result)[i].type = class[i].type
      /\ ToWire(r.result)[i].datum = WireDatum(d[class[i].name])
  BY <1>1 DEF ToWire, Present, Object
<1>4. d[class[i].name] = Sample(class[i])
  BY <1>1, <1>2, <1>3, FieldOfName DEF Names
<1>5. WireDatum(Scalar(class[i].type, <<class[i].name>>)) = Scalar(class[i].type, <<class[i].name>>)
  BY <1>3 DEF WireDatum, Scalar
<1>6. Sample(class[i]) = Scalar(class[i].type, <<class[i].name>>)
  BY <1>3 DEF Sample
<1>7. QED
  BY <1>3, <1>4, <1>5, <1>6 DEF Scalar

LEMMA MethodOfName ==
  \A m, n \in Methods : m.name = n.name => m = n
BY DEF Methods, Method,
       setInactivityTimeoutPeriod, shutdown, create, createFile, open, append, write, read,
       close, rm, rename, mkdirs, exists, stat, listStatus, chmod, chown, setReplication,
       getFileBlockLocations

-----------------------------------------------------------------------------
(* The invariants.                                                         *)

\* What the client sends, garbled if the buffer was torn, and what the server
\* answers.
Requests ==
  UNION {UNION {[id : 1..MaxCalls, name : {m.name}, args : {a}, body : {None, ToWire(a)}] :
                  a \in {x \in Arguments(m) : Writable(x)}} : m \in Methods}

Replies ==
  UNION {UNION {[id : 1..MaxCalls, mtype : {"REPLY"}, body : {ToWire(r.result)}, meant : {r.meant}] :
                  r \in HandlerEnds(m) \cup HandlerThrows(m)} : m \in Methods}

Answers ==
  Replies \cup [id : 1..MaxCalls, mtype : {"EXCEPTION"}, body : {<<>>}, meant : {Ended("unknown", None)}]

Flags == torn \in BOOLEAN /\ alive \in BOOLEAN

TypeInv ==
  /\ left \in Seq(Hosts) /\ good \subseteq Hosts
  /\ phase \in {"dialing", "connected", "none", "closed"}
  /\ conn \in Hosts \cup {None}
  /\ call \in {None} \cup [id : 1..MaxCalls, method : Methods]
  /\ sent \in 0..MaxCalls /\ abandoned \in Nat
  /\ toServer \in Seq(Requests) /\ toClient \in Seq(Answers)

\* connect(): a host that would answer is still to be tried, or it is the one
\* being tried, and the answer is on its way.
Greeting == setInactivityTimeoutPeriod

DialInv ==
  /\ ~torn /\ abandoned = 0
  /\ conn = None => /\ call = None /\ sent = 0 /\ ~alive
                    /\ toServer = <<>> /\ toClient = <<>>
  /\ conn # None => sent = 1 /\ call = [id |-> 1, method |-> Greeting]
  /\ \A h \in good : h = conn \/ \E i \in DOMAIN left : left[i] = h
  /\ conn \in good =>
       /\ alive
       /\ \A i \in DOMAIN toServer : toServer[i].name = Greeting.name /\ toServer[i].body # None
       /\ \A i \in DOMAIN toClient : ReadAnswer(Greeting, toClient[i]).kind = "void"

ConnectInv ==
  /\ \A h \in good : Greeting.name \in Served[h]
  /\ ~alive => toServer = <<>>
  /\ phase \in {"connected", "closed"} => conn # None
  /\ phase = "none" => good = {}
  /\ phase = "dialing" => DialInv

\* The answers on their way, and the requests behind them, are those of the
\* last calls, one after the other, from the first one whose answer was not
\* taken for one: what was not waited for stays in front of the others.
Waiting == IF call = None THEN 0 ELSE 1
Behind == sent - abandoned - Waiting

QueueInv ==
  /\ call # None => call.id = sent
  /\ Behind >= 0
  /\ \A i \in DOMAIN toClient : toClient[i].id = Behind + i
  /\ \A i \in DOMAIN toServer : toServer[i].id = Behind + Len(toClient) + i
  /\ IF alive THEN Len(toClient) + Len(toServer) = abandoned + Waiting
              ELSE Len(toClient) <= abandoned + Waiting

\* The request of the call that is waited for has its method's name, and its
\* answer reads as it was meant.
OwnInv ==
  call # None =>
    /\ \A i \in DOMAIN toServer : toServer[i].id = call.id => toServer[i].name = call.method.name
    /\ \A i \in DOMAIN toClient : toClient[i].id = call.id => ReadAnswer(call.method, toClient[i]) = toClient[i].meant

-----------------------------------------------------------------------------
(* Types.                                                                  *)

\* What is put on the wire is of its type.
LEMMA RequestIsTyped ==
  ASSUME NEW m \in Methods, NEW a \in Arguments(m), Writable(a), NEW i \in 1..MaxCalls, Flags
  PROVE  Request(m, a, i) \in Requests
<1> DEFINE set == [id : 1..MaxCalls, name : {m.name}, args : {a}, body : {None, ToWire(a)}]
<1>1. Request(m, a, i) \in set
  BY DEF Request, Flags
<1>2. set \subseteq Requests
  <2>1. a \in {x \in Arguments(m) : Writable(x)}
    OBVIOUS
  <2>2. QED
    BY <2>1 DEF Requests
<1>3. QED
  BY <1>1, <1>2

LEMMA RequestParts ==
  ASSUME NEW q \in Requests
  PROVE  /\ q.id \in 1..MaxCalls
         /\ \E m \in Methods : \E a \in Arguments(m) :
              /\ Writable(a) /\ q.name = m.name /\ q.args = a
              /\ q.body \in {None, ToWire(a)}
<1>1. PICK m \in Methods :
        q \in UNION {[id : 1..MaxCalls, name : {m.name}, args : {a}, body : {None, ToWire(a)}] :
                       a \in {x \in Arguments(m) : Writable(x)}}
  BY DEF Requests
<1>2. PICK a \in {x \in Arguments(m) : Writable(x)} :
        q \in [id : 1..MaxCalls, name : {m.name}, args : {a}, body : {None, ToWire(a)}]
  BY <1>1
<1>3. QED
  BY <1>2

LEMMA ReplyInAnswers ==
  ASSUME NEW m \in Methods, NEW r \in HandlerEnds(m) \cup HandlerThrows(m), NEW i \in 1..MaxCalls
  PROVE  Answer(i, "REPLY", ToWire(r.result), r.meant) \in Answers
<1> DEFINE set == [id : 1..MaxCalls, mtype : {"REPLY"}, body : {ToWire(r.result)}, meant : {r.meant}]
<1>1. Answer(i, "REPLY", ToWire(r.result), r.meant) \in set
  BY DEF Answer
<1>2. set \subseteq Replies
  BY DEF Replies
<1>3. QED
  BY <1>1, <1>2 DEF Answers

LEMMA UnknownInAnswers ==
  ASSUME NEW i \in 1..MaxCalls
  PROVE  Answer(i, "EXCEPTION", <<>>, Ended("unknown", None)) \in Answers
BY DEF Answer, Answers

LEMMA AnswerParts ==
  ASSUME NEW w \in Answers
  PROVE  /\ w.id \in 1..MaxCalls
         /\ \/ w.mtype = "EXCEPTION" /\ w.body = <<>> /\ w.meant = Ended("unknown", None)
            \/ /\ w.mtype = "REPLY"
               /\ \E m \in Methods : \E r \in HandlerEnds(m) \cup HandlerThrows(m) :
                    w.body = ToWire(r.result) /\ w.meant = r.meant
<1>1. CASE w \in Replies
  <2>1. PICK m \in Methods :
          w \in UNION {[id : 1..MaxCalls, mtype : {"REPLY"}, body : {ToWire(r.result)}, meant : {r.meant}] :
                         r \in HandlerEnds(m) \cup HandlerThrows(m)}
    BY <1>1 DEF Replies
  <2>2. PICK r \in HandlerEnds(m) \cup HandlerThrows(m) :
          w \in [id : 1..MaxCalls, mtype : {"REPLY"}, body : {ToWire(r.result)}, meant : {r.meant}]
    BY <2>1
  <2>3. QED
    BY <2>2
<1>2. CASE w \notin Replies
  BY <1>2 DEF Answers
<1>3. QED
  BY <1>1, <1>2

\* What stands where after a message was put on the wire, and taken off.
LEMMA AppendIndices ==
  ASSUME NEW S, NEW s \in Seq(S), NEW e \in S
  PROVE  /\ Len(Append(s, e)) = Len(s) + 1
         /\ \A i \in DOMAIN Append(s, e) :
              i \in Nat /\ IF i = Len(s) + 1 THEN Append(s, e)[i] = e
                                            ELSE i \in DOMAIN s /\ Append(s, e)[i] = s[i]
OBVIOUS

LEMMA TailIndices ==
  ASSUME NEW S, NEW s \in Seq(S), s # <<>>
  PROVE  /\ Len(Tail(s)) = Len(s) - 1 /\ 1 \in DOMAIN s /\ s[1] \in S
         /\ \A i \in DOMAIN Tail(s) : i \in Nat /\ i + 1 \in DOMAIN s /\ Tail(s)[i] = s[i + 1]
OBVIOUS

\* The first call, with the only argument it has.
LEMMA GreetingFacts ==
  /\ Greeting \in Methods
  /\ ~Has(Greeting, "success") /\ ~Has(Greeting, "ouch")
  /\ LET a == Object(Greeting.args, [n \in {"periodInSeconds"} |-> Sample(Greeting.args[1])])
     IN  a \in Arguments(Greeting) /\ Writable(a)
<1>1. Greeting \in Methods
  BY DEF Greeting, Methods
<1>2. /\ Greeting.result = <<>>
      /\ Greeting.args = << Plain(1, "I64", "periodInSeconds") >>
  BY DEF Greeting, setInactivityTimeoutPeriod, Method, setInactivityTimeoutPeriod_args,
         setInactivityTimeoutPeriod_result
<1> DEFINE class == << Plain(1, "I64", "periodInSeconds") >>
           full  == [n \in {"periodInSeconds"} |-> Sample(class[1])]
<1>3. Names(class) = {"periodInSeconds"} /\ FieldNamed(class, "periodInSeconds") = class[1]
  BY DEF Names, FieldNamed, Plain
<1>4. Object(class, full) \in Arguments(Greeting)
  <2> DEFINE args == Greeting.args
  <2>1. Object(args, [n \in Names(args) |-> Sample(FieldNamed(args, n))]) \in Arguments(Greeting)
    BY DEF Arguments
  <2>2. [n \in Names(class) |-> Sample(FieldNamed(class, n))] = full
    BY <1>3
  <2>3. args = class
    BY <1>2
  <2> HIDE DEF args, class
  <2>4. QED
    BY <2>1, <2>2, <2>3
<1>5. Sample(class[1]).type = class[1].type
  BY SampleRoundTrip, FieldsWithFlat
<1>6. Writable(Object(class, full))
  BY <1>3, <1>5 DEF Writable, Object
<1>7. ~Has(Greeting, "success") /\ ~Has(Greeting, "ouch")
  BY <1>2 DEF Has, Names
<1>8. QED
  BY <1>1, <1>2, <1>4, <1>6, <1>7

LEMMA TypeInit == Init => TypeInv /\ Flags
<1> SUFFICES ASSUME Init PROVE TypeInv /\ Flags
  OBVIOUS
<1>1. left \in Seq(Hosts)
  BY HdfsClientAssumption, FS_CardinalityType DEF Init
<1>2. MaxCalls \in Nat /\ <<>> \in Seq(Requests) /\ <<>> \in Seq(Answers)
  BY HdfsClientAssumption
<1>3. /\ good \subseteq Hosts /\ phase = "dialing" /\ conn = None /\ call = None
      /\ sent = 0 /\ abandoned = 0
      /\ toServer = <<>> /\ toClient = <<>>
  BY DEF Init
<1>4. Flags
  BY DEF Init, Flags
<1>5. QED
  BY <1>1, <1>2, <1>3, <1>4 DEF TypeInv

\* How the end of a call changes what is not on the wire.
LEMMA FinishTypes ==
  ASSUME TypeInv, NEW end, NEW of, NEW meant, Finish(end, of, meant)
  PROVE  /\ call' = None /\ conn' \in {conn, None} /\ sent' \in {sent, 0}
         /\ phase' \in {phase, "connected"} /\ (left' = left \/ left' = <<>>) /\ good' \in {good, {}}
         /\ abandoned' = abandoned
BY DEF Finish

LEMMA FinishTypesStay ==
  ASSUME TypeInv, NEW end, NEW of, NEW meant, Finish(end, of, meant)
  PROVE  /\ left' \in Seq(Hosts) /\ good' \subseteq Hosts
         /\ phase' \in {"dialing", "connected", "none", "closed"}
         /\ conn' \in Hosts \cup {None}
         /\ call' \in {None} \cup [id : 1..MaxCalls, method : Methods]
         /\ sent' \in 0..MaxCalls /\ abandoned' \in Nat
<1>1. MaxCalls \in Nat
  BY HdfsClientAssumption
<1>2. left' \in Seq(Hosts)
  <2>1. <<>> \in Seq(Hosts)
    OBVIOUS
  <2>2. QED
    BY <2>1, FinishTypes, Zenon DEF TypeInv
<1>3. sent' \in 0..MaxCalls
  BY <1>1, FinishTypes DEF TypeInv
<1>4. good' \subseteq Hosts
  BY FinishTypes, Zenon DEF TypeInv
<1>5. QED
  BY <1>2, <1>3, <1>4, FinishTypes, Zenon DEF TypeInv

LEMMA FlagsStep == Flags /\ [Next]_vars => Flags'
<1> SUFFICES ASSUME Flags, [Next]_vars
             PROVE  Flags'
  OBVIOUS
<1>1. CASE Dial
  BY <1>1 DEF Dial, Flags, wire
<1>2. CASE GiveUp \/ Close \/ Abandon
  BY <1>2 DEF GiveUp, Close, Abandon, Flags, wire
<1>3. ASSUME NEW m \in Methods, NEW a \in Arguments(m), Send(m, a) PROVE Flags'
  BY <1>3 DEF Send, Flags, wire
<1>4. CASE Process \/ Drop \/ DropGarbled
  BY <1>4 DEF Process, Drop, DropGarbled, Flags
<1>5. CASE Recv \/ RecvEOF
  BY <1>5 DEF Recv, RecvEOF, Finish, Flags, wire
<1>6. CASE UNCHANGED vars
  BY <1>6 DEF vars, Flags
<1>7. QED
  BY <1>1, <1>2, <1>3, <1>4, <1>5, <1>6 DEF Next

LEMMA NoMessages == <<>> \in Seq(Requests) /\ <<>> \in Seq(Answers)
OBVIOUS

LEMMA TypeStep == TypeInv /\ Flags /\ [Next]_vars => TypeInv'
<1> SUFFICES ASSUME TypeInv, Flags, [Next]_vars
             PROVE  TypeInv'
  OBVIOUS
<1>0. MaxCalls \in Nat \ {0} /\ None \notin Hosts
  BY HdfsClientAssumption
<1>1. CASE Dial
  <2>1. left # <<>> /\ left' = Tail(left) /\ Head(left) \in Hosts /\ left' \in Seq(Hosts)
    BY <1>1 DEF Dial, TypeInv
  <2>2. CASE UNCHANGED <<conn, call, sent, wire>>
    BY <1>0, <1>1, <2>1, <2>2 DEF Dial, TypeInv, wire
  <2>3. CASE ~UNCHANGED <<conn, call, sent, wire>>
    <3>1. PICK a \in Arguments(Greeting) :
            /\ Writable(a)
            /\ conn' = Head(left) /\ sent' = 1 /\ call' = [id |-> 1, method |-> Greeting]
            /\ toServer' = <<Request(Greeting, a, 1)>> /\ toClient' = <<>>
      BY <1>1, <2>3, GreetingFacts DEF Dial, Greeting
    <3>2. Request(Greeting, a, 1) \in Requests
      BY <1>0, <3>1, GreetingFacts, RequestIsTyped DEF Flags
    <3>3. UNCHANGED <<good, phase, abandoned>>
      BY <1>1, <2>3 DEF Dial
    <3>4. call' \in [id : 1..MaxCalls, method : Methods]
      BY <1>0, <3>1, GreetingFacts
    <3>5. toServer' \in Seq(Requests) /\ toClient' \in Seq(Answers)
      BY <3>1, <3>2
    <3>6. QED
      BY <1>0, <2>1, <3>1, <3>3, <3>4, <3>5 DEF TypeInv
  <2>4. QED
    BY <2>2, <2>3
<1>2. CASE GiveUp \/ Close
  BY <1>2 DEF GiveUp, Close, TypeInv, wire
<1>3. ASSUME NEW m \in Methods, NEW a \in Arguments(m), Send(m, a) PROVE TypeInv'
  <2>1. CASE UNCHANGED <<call, sent, wire>>
    <3>1. UNCHANGED <<left, good, phase, conn, abandoned>>
      BY <1>3 DEF Send
    <3>2. QED
      BY <2>1, <3>1 DEF TypeInv, wire
  <2>2. CASE ~UNCHANGED <<call, sent, wire>>
    <3>1. /\ Writable(a) /\ sent < MaxCalls /\ sent' = sent + 1
          /\ call' = [id |-> sent', method |-> m]
          /\ toServer' = Append(toServer, Request(m, a, sent'))
          /\ UNCHANGED <<toClient, left, good, phase, conn, abandoned>>
      BY <1>3, <2>2 DEF Send
    <3>3. sent' \in 1..MaxCalls
      BY <1>0, <3>1 DEF TypeInv
    <3>4. Request(m, a, sent') \in Requests
      BY <3>1, <3>3, RequestIsTyped DEF Flags
    <3>5. QED
      BY <3>1, <3>3, <3>4 DEF TypeInv
  <2>3. QED
    BY <2>1, <2>2
<1>4. CASE Process
  <2>1. /\ toServer # <<>> /\ toServer' = Tail(toServer) /\ toServer[1] \in Requests
        /\ UNCHANGED <<left, good, phase, conn, call, sent, abandoned>>
    BY <1>4 DEF Process, TypeInv
  <2>2. toServer[1].id \in 1..MaxCalls
    BY <2>1, RequestParts
  <2>3. \E w \in Answers : toClient' = Append(toClient, w)
    BY <1>4, <2>2, ReplyInAnswers, UnknownInAnswers DEF Process
  <2>4. toClient' \in Seq(Answers)
    BY <2>3 DEF TypeInv
  <2>5. QED
    BY <2>1, <2>4 DEF TypeInv
<1>5. CASE Drop
  <2>1. toServer' = <<>> /\ (toClient' = toClient \/ toClient' = <<>>)
    BY <1>5 DEF Drop
  <2>2. UNCHANGED <<left, good, phase, conn, call, sent, abandoned>>
    BY <1>5 DEF Drop
  <2>3. toServer' \in Seq(Requests) /\ toClient' \in Seq(Answers)
    BY <2>1, NoMessages, Zenon DEF TypeInv
  <2>4. QED
    BY <2>1, <2>2, <2>3 DEF TypeInv
<1>6. CASE DropGarbled
  <2>1. toServer' = <<>>
    BY <1>6 DEF DropGarbled
  <2>2. QED
    BY <1>6, <2>1 DEF DropGarbled, TypeInv
<1>7. CASE Recv
  <2>1. toClient # <<>> /\ Finish(ReadAnswer(call.method, toClient[1]), toClient[1].id, toClient[1].meant)
    BY <1>7 DEF Recv
  <2>2. (toClient' = <<>> \/ toClient' = Tail(toClient)) /\ (toServer' = <<>> \/ toServer' = toServer)
    BY <1>7 DEF Recv
  <2>3. Tail(toClient) \in Seq(Answers)
    BY <2>1 DEF TypeInv
  <2>4. toClient' \in Seq(Answers) /\ toServer' \in Seq(Requests)
    BY <2>2, <2>3, NoMessages, Zenon DEF TypeInv
  <2>5. QED
    BY <2>1, <2>4, FinishTypesStay DEF TypeInv
<1>8. CASE RecvEOF
  <2>1. Finish(Ended("transport", None), call.id, Ended("transport", None)) /\ UNCHANGED wire
    BY <1>8 DEF RecvEOF
  <2>2. QED
    BY <2>1, FinishTypesStay DEF wire, TypeInv
<1>9. CASE Abandon
  BY <1>9 DEF Abandon, TypeInv, wire
<1>10. CASE UNCHANGED vars
  BY <1>10 DEF vars, TypeInv
<1>11. QED
  BY <1>1, <1>2, <1>3, <1>4, <1>5, <1>6, <1>7, <1>8, <1>9, <1>10 DEF Next

LEMMA Types == Spec => [](TypeInv /\ Flags)
BY TypeInit, TypeStep, FlagsStep, PTL DEF Spec

-----------------------------------------------------------------------------
(* connect() gives up only when no host would have answered.               *)

LEMMA ConnectInit == Init => ConnectInv
<1> SUFFICES ASSUME Init
             PROVE  ConnectInv
  OBVIOUS
<1>1. \A h \in Hosts : \E i \in DOMAIN left : left[i] = h
  <2> DEFINE S == 1..Cardinality(Hosts)
  <2>1. IsFiniteSet(Hosts) /\ Cardinality(Hosts) \in Nat
    BY HdfsClientAssumption, FS_CardinalityType
  <2>2. left \in Injection(S, Hosts)
    BY DEF Init, Injection, IsInjective
  <2>3. Cardinality(S) = Cardinality(Hosts)
    BY <2>1, FS_Interval
  <2>4. left \in Surjection(S, Hosts)
    BY <2>1, <2>2, <2>3, FS_Injection
  <2>5. QED
    BY <2>4 DEF Surjection
<1>2. None \notin Hosts
  BY HdfsClientAssumption
<1>3. /\ good \subseteq {h \in Hosts : Greeting.name \in Served[h]}
      /\ phase = "dialing" /\ conn = None /\ call = None /\ sent = 0
      /\ abandoned = 0 /\ ~torn /\ ~alive /\ toServer = <<>> /\ toClient = <<>>
  BY DEF Init, Greeting
<1>4. QED
  BY <1>1, <1>2, <1>3 DEF ConnectInv, DialInv

LEMMA GreetingIsAnswered ==
  ASSUME NEW r \in HandlerEnds(Greeting) \cup HandlerThrows(Greeting), NEW i
  PROVE  ReadAnswer(Greeting, Answer(i, "REPLY", ToWire(r.result), r.meant)).kind = "void"
<1>1. r.meant = Ended("void", None)
  BY GreetingFacts DEF HandlerEnds, HandlerThrows
<1>2. ReadAnswer(Greeting, Answer(i, "REPLY", ToWire(r.result), r.meant)) = r.meant
  BY GreetingFacts, ReplyIsMeant DEF Answer
<1>3. QED
  BY <1>1, <1>2 DEF Ended

LEMMA ConnectStep == TypeInv /\ Flags /\ ConnectInv /\ [Next]_vars => ConnectInv'
<1> SUFFICES ASSUME TypeInv, Flags, ConnectInv, [Next]_vars
             PROVE  ConnectInv'
  OBVIOUS
<1>0. MaxCalls \in Nat \ {0} /\ None \notin Hosts
  BY HdfsClientAssumption
<1>1. CASE Dial
  <2>1. /\ phase = "dialing" /\ conn = None /\ left # <<>> /\ left' = Tail(left)
        /\ UNCHANGED <<good, phase, abandoned>> /\ Head(left) \in Hosts
    BY <1>1 DEF Dial, TypeInv
  <2>2. \A h \in good : h = Head(left) \/ \E i \in DOMAIN left' : left'[i] = h
    <3>1. ASSUME NEW h \in good, h # Head(left)
          PROVE  \E i \in DOMAIN left' : left'[i] = h
      <4>1. PICK i \in DOMAIN left : left[i] = h
        BY <1>0, <2>1, <3>1 DEF ConnectInv, DialInv, TypeInv
      <4>2. i - 1 \in DOMAIN left' /\ left'[i - 1] = h
        BY <2>1, <3>1, <4>1 DEF TypeInv
      <4>3. QED
        BY <4>2
    <3>2. QED
      BY <3>1
  <2>3. CASE UNCHANGED <<conn, call, sent, wire>>
    <3>1. Head(left) \notin good /\ ~torn'
      BY <1>0, <1>1, <2>1, <2>3 DEF Dial, ConnectInv, DialInv
    <3>2. DialInv /\ conn' = None /\ None \notin good
      BY <1>0, <2>1, <2>3 DEF ConnectInv, TypeInv
    <3>3. UNCHANGED <<conn, call, sent, alive, toServer, toClient>>
      BY <2>3 DEF wire
    <3>4. /\ abandoned' = 0 /\ call' = None /\ sent' = 0 /\ ~alive'
          /\ toServer' = <<>> /\ toClient' = <<>>
      BY <2>1, <3>2, <3>3 DEF DialInv
    <3>5. DialInv'
      BY <2>1, <2>2, <3>1, <3>2, <3>4 DEF DialInv
    <3>6. QED
      BY <2>1, <3>4, <3>5 DEF ConnectInv
  <2>4. CASE ~UNCHANGED <<conn, call, sent, wire>>
    <3>1. PICK a \in Arguments(Greeting) :
            /\ Writable(a)
            /\ conn' = Head(left) /\ sent' = 1 /\ call' = [id |-> 1, method |-> Greeting]
            /\ toServer' = <<Request(Greeting, a, 1)>> /\ toClient' = <<>>
      BY <1>1, <2>4, GreetingFacts DEF Dial, Greeting
    <3>2. ~torn /\ ~torn' /\ alive'
      BY <1>1, <2>1, <2>4 DEF Dial, ConnectInv, DialInv
    <3>3. Request(Greeting, a, 1).name = Greeting.name /\ Request(Greeting, a, 1).body # None
      BY <3>2, GreetingFacts, HdfsClientAssumption DEF Request
    <3>4. \A i \in DOMAIN toServer' : toServer'[i].name = Greeting.name /\ toServer'[i].body # None
      BY <3>1, <3>3
    <3>5. DialInv'
      BY <1>0, <2>1, <2>2, <3>1, <3>2, <3>4 DEF DialInv, ConnectInv
    <3>6. QED
      BY <2>1, <3>2, <3>5 DEF ConnectInv
  <2>5. QED
    BY <2>3, <2>4
<1>2. CASE GiveUp
  <2>1. phase = "dialing" /\ conn = None /\ left = <<>> /\ phase' = "none"
        /\ UNCHANGED <<left, good, conn, call, sent, abandoned, torn, wire>>
    BY <1>2 DEF GiveUp
  <2>2. good = {}
    BY <1>0, <2>1 DEF ConnectInv, DialInv, TypeInv
  <2>3. QED
    BY <2>1, <2>2 DEF ConnectInv, wire
<1>3. CASE Close
  BY <1>3 DEF Close, ConnectInv, wire
<1>4. ASSUME NEW m \in Methods, NEW a \in Arguments(m), Send(m, a) PROVE ConnectInv'
  <2>1. phase = "connected" /\ UNCHANGED <<good, phase, conn, alive>> /\ (~alive => toServer' = toServer)
    BY <1>4 DEF Send, wire
  <2>2. QED
    BY <2>1 DEF ConnectInv
<1>5. CASE Process
  <2>1. /\ alive /\ toServer # <<>> /\ toServer' = Tail(toServer) /\ toServer[1] \in Requests
        /\ UNCHANGED <<left, good, phase, conn, call, sent, abandoned, torn, alive>>
    BY <1>5 DEF Process, TypeInv
  <2>2. ASSUME phase = "dialing", conn \in good
        PROVE  /\ \A i \in DOMAIN toServer' : toServer'[i].name = Greeting.name /\ toServer'[i].body # None
               /\ \A i \in DOMAIN toClient' : ReadAnswer(Greeting, toClient'[i]).kind = "void"
    <3>1. Greeting.name \in Served[conn] /\ toServer[1].name = Greeting.name
      BY <2>1, <2>2 DEF ConnectInv, DialInv, TypeInv
    <3>2. PICK r \in HandlerEnds(Greeting) \cup HandlerThrows(Greeting) :
            toClient' = Append(toClient, Answer(toServer[1].id, "REPLY", ToWire(r.result), r.meant))
      BY <1>5, <3>1, GreetingFacts, MethodOfName DEF Process
    <3>3. \A i \in DOMAIN toClient : ReadAnswer(Greeting, toClient[i]).kind = "void"
      BY <2>2 DEF ConnectInv, DialInv
    <3>4. \A i \in DOMAIN toServer' : toServer'[i].name = Greeting.name /\ toServer'[i].body # None
      BY <2>1, <2>2 DEF ConnectInv, DialInv, TypeInv
    <3>5. \A i \in DOMAIN toClient' : ReadAnswer(Greeting, toClient'[i]).kind = "void"
      <4> DEFINE w == Answer(toServer[1].id, "REPLY", ToWire(r.result), r.meant)
      <4>1. w \in Answers
        BY <2>1, GreetingFacts, RequestParts, ReplyInAnswers
      <4>2. ReadAnswer(Greeting, w).kind = "void"
        BY GreetingIsAnswered
      <4>3. toClient \in Seq(Answers) /\ toClient' = Append(toClient, w)
        BY <3>2 DEF TypeInv
      <4> HIDE DEF w
      <4>4. QED
        BY <3>3, <4>1, <4>2, <4>3, AppendIndices
    <3>6. QED
      BY <3>4, <3>5
  <2>3. CASE phase = "dialing"
    <3>1. conn # None /\ DialInv
      BY <2>1, <2>3 DEF ConnectInv, DialInv
    <3>2. DialInv'
      BY <2>1, <2>2, <2>3, <3>1 DEF DialInv
    <3>3. QED
      BY <2>1, <2>3, <3>2 DEF ConnectInv
  <2>4. CASE phase # "dialing"
    BY <2>1, <2>4 DEF ConnectInv
  <2>5. QED
    BY <2>3, <2>4
<1>6. CASE Drop \/ DropGarbled
  <2>1. /\ alive /\ ~alive' /\ toServer' = <<>>
        /\ UNCHANGED <<left, good, phase, conn, call, sent, abandoned, torn>>
    BY <1>6 DEF Drop, DropGarbled
  <2>2. ASSUME phase = "dialing" PROVE conn \notin good
    <3>1. CASE DropGarbled
      <4>1. 1 \in DOMAIN toServer /\ toServer[1].body = None
        BY <3>1 DEF DropGarbled, TypeInv
      <4>2. QED
        BY <2>2, <4>1 DEF ConnectInv, DialInv
    <3>2. QED
      BY <1>6, <2>2, <3>1 DEF Drop
  <2>3. ASSUME phase = "dialing" PROVE conn # None /\ DialInv
    BY <2>1, <2>3 DEF ConnectInv, DialInv
  <2>4. QED
    BY <2>1, <2>2, <2>3 DEF ConnectInv, DialInv
<1>7. CASE Recv
  <2>1. call # None /\ toClient # <<>>
        /\ Finish(ReadAnswer(call.method, toClient[1]), toClient[1].id, toClient[1].meant)
    BY <1>7 DEF Recv
  <2>2. CASE phase = "dialing" /\ ReadAnswer(call.method, toClient[1]).kind # "void"
    <3>1. conn' = None /\ call' = None /\ sent' = 0 /\ UNCHANGED <<phase, left, good, abandoned, torn>>
      BY <2>1, <2>2 DEF Finish
    <3>2. toClient' = <<>> /\ toServer' = <<>> /\ ~alive'
      BY <1>7, <3>1 DEF Recv
    <3>3. DialInv /\ conn # None /\ call.method = Greeting
      BY <2>1, <2>2 DEF ConnectInv, DialInv
    <3>4. conn \notin good
      BY <2>1, <2>2, <3>3 DEF DialInv, TypeInv
    <3>5. DialInv'
      BY <1>0, <3>1, <3>2, <3>3, <3>4 DEF DialInv, TypeInv
    <3>6. QED
      BY <2>2, <3>1, <3>2, <3>5 DEF ConnectInv
  <2>3. CASE phase = "dialing" /\ ReadAnswer(call.method, toClient[1]).kind = "void"
    <3>1. phase' = "connected" /\ good' = {} /\ conn' = conn
      BY <2>1, <2>3 DEF Finish
    <3>2. conn # None
      BY <2>1, <2>3 DEF ConnectInv, DialInv
    <3>3. UNCHANGED <<toServer, alive>>
      BY <1>7, <3>1, <3>2 DEF Recv
    <3>4. QED
      BY <3>1, <3>2, <3>3 DEF ConnectInv
  <2>4. CASE phase # "dialing"
    <3>1. UNCHANGED <<phase, good, conn>>
      BY <2>1, <2>4 DEF Finish
    <3>2. UNCHANGED <<toServer, alive>> \/ (toServer' = <<>> /\ ~alive')
      BY <1>7 DEF Recv
    <3>3. QED
      BY <2>4, <3>1, <3>2 DEF ConnectInv
  <2>5. QED
    BY <2>2, <2>3, <2>4
<1>8. CASE RecvEOF
  <2>1. /\ call # None /\ toClient = <<>> /\ ~alive /\ UNCHANGED wire
        /\ Finish(Ended("transport", None), call.id, Ended("transport", None))
    BY <1>8 DEF RecvEOF
  <2>2. CASE phase = "dialing"
    <3>1. conn' = None /\ call' = None /\ sent' = 0 /\ UNCHANGED <<phase, left, good, abandoned, torn>>
      BY <2>1, <2>2 DEF Finish, Ended
    <3>2. DialInv /\ toServer = <<>> /\ conn \notin good
      BY <2>1, <2>2 DEF ConnectInv, DialInv
    <3>3. DialInv'
      BY <1>0, <2>1, <3>1, <3>2 DEF DialInv, TypeInv, wire
    <3>4. QED
      BY <2>1, <2>2, <3>1, <3>2, <3>3 DEF ConnectInv, wire
  <2>3. CASE phase # "dialing"
    <3>1. UNCHANGED <<phase, good, conn>>
      BY <2>1, <2>3 DEF Finish
    <3>2. QED
      BY <2>1, <2>3, <3>1 DEF ConnectInv, wire
  <2>4. QED
    BY <2>2, <2>3
<1>9. CASE Abandon
  <2>1. phase = "connected" /\ UNCHANGED <<good, phase, conn, wire>>
    BY <1>9 DEF Abandon
  <2>2. QED
    BY <2>1 DEF ConnectInv, wire
<1>10. CASE UNCHANGED vars
  BY <1>10 DEF vars, ConnectInv, DialInv
<1>11. QED
  BY <1>1, <1>2, <1>3, <1>4, <1>5, <1>6, <1>7, <1>8, <1>9, <1>10 DEF Next

LEMMA Connects == Spec => []ConnectInv
BY ConnectInit, ConnectStep, Types, PTL DEF Spec

(* connect() returns (None, None) only if none of the hosts of its list    *)
(* would have accepted the connection and answered the first call.         *)
THEOREM ConnectFailsOnlyIfAllFail == Spec => []FailsOnlyIfAllFail
<1>1. ConnectInv => FailsOnlyIfAllFail
  BY DEF ConnectInv, FailsOnlyIfAllFail
<1>2. QED
  BY <1>1, Connects, PTL

-----------------------------------------------------------------------------
(* Which answer a call gets.                                               *)

LEMMA QueueInit == Init => QueueInv
BY DEF Init, QueueInv, Waiting, Behind

LEMMA Counts ==
  TypeInv /\ QueueInv =>
    /\ sent \in Nat /\ abandoned \in Nat /\ Waiting \in 0..1 /\ Behind \in Nat
    /\ Behind + abandoned + Waiting = sent
    /\ Len(toServer) \in Nat /\ Len(toClient) \in Nat
<1> SUFFICES ASSUME TypeInv, QueueInv
             PROVE  /\ sent \in Nat /\ abandoned \in Nat /\ Waiting \in 0..1 /\ Behind \in Nat
                    /\ Behind + abandoned + Waiting = sent
                    /\ Len(toServer) \in Nat /\ Len(toClient) \in Nat
  OBVIOUS
<1>1. sent \in Nat /\ abandoned \in Nat /\ Len(toServer) \in Nat /\ Len(toClient) \in Nat
  BY HdfsClientAssumption DEF TypeInv
<1>2. Waiting \in 0..1 /\ Behind >= 0
  BY DEF QueueInv, Waiting
<1>3. Behind = sent - abandoned - Waiting
  BY DEF Behind
<1>4. QED
  BY <1>1, <1>2, <1>3

LEMMA QueueStep == TypeInv /\ Flags /\ ConnectInv /\ QueueInv /\ [Next]_vars => QueueInv'
<1> SUFFICES ASSUME TypeInv, Flags, ConnectInv, QueueInv, [Next]_vars
             PROVE  QueueInv'
  OBVIOUS
<1>0. MaxCalls \in Nat \ {0} /\ None \notin Hosts
  BY HdfsClientAssumption
<1>1. CASE Dial
  <2>1. abandoned = 0 /\ abandoned' = 0
    BY <1>1 DEF Dial, ConnectInv, DialInv
  <2>2. CASE UNCHANGED <<conn, call, sent, wire>>
    BY <2>1, <2>2 DEF QueueInv, Waiting, Behind, wire
  <2>3. CASE ~UNCHANGED <<conn, call, sent, wire>>
    <3>1. PICK a :
            /\ sent' = 1 /\ call' = [id |-> 1, method |-> Greeting]
            /\ toServer' = <<Request(Greeting, a, 1)>> /\ toClient' = <<>> /\ alive'
      BY <1>1, <2>3 DEF Dial, Greeting
    <3>2. toServer' = <<toServer'[1]>> /\ toServer'[1].id = 1 /\ call' # None
      BY <1>0, <3>1, GreetingFacts, HdfsClientAssumption DEF Request
    <3>3. QED
      BY <2>1, <3>1, <3>2 DEF QueueInv, Waiting, Behind
  <2>4. QED
    BY <2>2, <2>3
<1>2. CASE GiveUp \/ Close
  BY <1>2 DEF GiveUp, Close, QueueInv, Waiting, Behind, wire
<1>3. ASSUME NEW m \in Methods, NEW a \in Arguments(m), Send(m, a) PROVE QueueInv'
  <2>1. CASE UNCHANGED <<call, sent, wire>>
    <3>1. UNCHANGED abandoned
      BY <1>3 DEF Send
    <3>2. QED
      BY <2>1, <3>1 DEF QueueInv, Waiting, Behind, wire
  <2>2. CASE ~UNCHANGED <<call, sent, wire>>
    <3> DEFINE q == Request(m, a, sent + 1)
    <3>1. /\ Writable(a) /\ alive /\ alive' /\ call = None /\ sent < MaxCalls /\ sent' = sent + 1
          /\ call' = [id |-> sent + 1, method |-> m]
          /\ toServer' = Append(toServer, q)
          /\ UNCHANGED <<toClient, abandoned>>
      BY <1>3, <2>2 DEF Send
    <3>2. sent + 1 \in 1..MaxCalls
      BY <1>0, <3>1 DEF TypeInv
    <3>3. q \in Requests /\ q.id = sent + 1
      BY <3>1, <3>2, RequestIsTyped DEF Request
    <3>4. call' # None /\ call'.id = sent + 1
      BY <3>1, <3>2, HdfsClientAssumption
    <3>5. Waiting = 0 /\ Waiting' = 1 /\ Behind' = Behind
      BY <3>1, <3>4 DEF TypeInv, Waiting, Behind
    <3>6. Behind \in Nat /\ Behind = sent - abandoned /\ Len(toClient) + Len(toServer) = abandoned
      BY <3>1, <3>5, Counts DEF QueueInv
    <3>7. /\ Len(toServer') = Len(toServer) + 1
          /\ \A i \in DOMAIN toServer' :
               i \in Nat /\ IF i = Len(toServer) + 1 THEN toServer'[i] = q
                                                     ELSE i \in DOMAIN toServer /\ toServer'[i] = toServer[i]
      BY <3>1, <3>3, AppendIndices DEF TypeInv
    <3> HIDE DEF q
    <3>8. \A i \in DOMAIN toServer' : toServer'[i].id = Behind + Len(toClient) + i
      <4>1. TAKE i \in DOMAIN toServer'
      <4>2. CASE i = Len(toServer) + 1
        <5>1. Len(toClient) \in Nat /\ Len(toServer) \in Nat /\ abandoned \in Nat /\ sent \in Nat
          BY Counts
        <5>2. toServer'[i].id = sent + 1
          BY <3>3, <3>7, <4>2
        <5>3. QED
          BY <3>6, <4>2, <5>1, <5>2
      <4>3. CASE i # Len(toServer) + 1
        BY <3>7, <4>3 DEF QueueInv
      <4>4. QED
        BY <4>2, <4>3
    <3>9. Len(toClient') + Len(toServer') = abandoned' + Waiting'
      BY <3>1, <3>5, <3>6, <3>7 DEF TypeInv
    <3>10. QED
      BY <3>1, <3>4, <3>5, <3>6, <3>8, <3>9 DEF QueueInv
  <2>3. QED
    BY <2>1, <2>2
<1>4. CASE Process
  <2>1. /\ alive /\ alive' /\ toServer # <<>> /\ toServer' = Tail(toServer) /\ toServer[1] \in Requests
        /\ UNCHANGED <<call, sent, abandoned>>
    BY <1>4 DEF Process, TypeInv
  <2>2. PICK w \in Answers : toClient' = Append(toClient, w) /\ w.id = toServer[1].id
    <3>1. toServer[1].id \in 1..MaxCalls
      BY <2>1, RequestParts
    <3>2. \A mtype, body, meant : Answer(toServer[1].id, mtype, body, meant).id = toServer[1].id
      BY DEF Answer
    <3>3. QED
      BY <1>4, <3>1, <3>2, ReplyInAnswers, UnknownInAnswers DEF Process
  <2>3. /\ Len(toServer') = Len(toServer) - 1 /\ 1 \in DOMAIN toServer
        /\ \A i \in DOMAIN toServer' : i \in Nat /\ i + 1 \in DOMAIN toServer /\ toServer'[i] = toServer[i + 1]
    BY <2>1, TailIndices DEF TypeInv
  <2>4. /\ Len(toClient') = Len(toClient) + 1
        /\ \A i \in DOMAIN toClient' :
             i \in Nat /\ IF i = Len(toClient) + 1 THEN toClient'[i] = w
                                                   ELSE i \in DOMAIN toClient /\ toClient'[i] = toClient[i]
    BY <2>2, AppendIndices DEF TypeInv
  <2>5. Behind \in Nat /\ Behind' = Behind /\ Waiting' = Waiting /\ Len(toClient) \in Nat /\ Len(toServer) \in Nat
    <3>1. Behind' = Behind /\ Waiting' = Waiting
      BY <2>1 DEF Behind, Waiting
    <3>2. QED
      BY <3>1, Counts
  <2>6. \A i \in DOMAIN toClient' : toClient'[i].id = Behind + i
    <3>1. toServer[1].id = Behind + Len(toClient) + 1
      BY <2>3 DEF QueueInv
    <3>2. \A i \in DOMAIN toClient : toClient[i].id = Behind + i
      BY DEF QueueInv
    <3>3. QED
      BY <2>2, <2>4, <2>5, <3>1, <3>2
  <2>7. \A i \in DOMAIN toServer' : toServer'[i].id = Behind + Len(toClient') + i
    BY <2>3, <2>4, <2>5 DEF QueueInv
  <2>8. Len(toClient') + Len(toServer') = abandoned' + Waiting'
    BY <2>1, <2>3, <2>4, <2>5 DEF QueueInv
  <2>9. QED
    BY <2>1, <2>5, <2>6, <2>7, <2>8 DEF QueueInv
<1>5. CASE Drop \/ DropGarbled
  <2>1. /\ alive /\ ~alive' /\ toServer' = <<>> /\ (toClient' = toClient \/ toClient' = <<>>)
        /\ UNCHANGED <<call, sent, abandoned>>
    BY <1>5 DEF Drop, DropGarbled
  <2>2. Behind' = Behind /\ Waiting' = Waiting /\ Waiting \in Nat /\ abandoned \in Nat
    BY <2>1, Counts DEF Behind, Waiting
  <2>3. Len(toClient) <= abandoned + Waiting
    BY <2>1, <2>2 DEF QueueInv, TypeInv
  <2>4. QED
    BY <2>1, <2>2, <2>3 DEF QueueInv
<1>6. CASE Recv
  <2>1. /\ call # None /\ toClient # <<>> /\ call' = None /\ abandoned' = abandoned
        /\ (sent' = sent \/ (phase = "dialing" /\ conn' = None /\ sent' = 0))
    BY <1>6 DEF Recv, Finish
  <2>2. Waiting = 1 /\ Waiting' = 0 /\ abandoned \in Nat /\ Behind \in Nat
    BY <2>1, Counts DEF Waiting
  <2>3. CASE sent' = sent
    <3>1. Behind' = Behind + 1
      BY <2>1, <2>2, <2>3 DEF Behind, TypeInv
    <3>2. CASE conn' = None
      <4>1. toClient' = <<>> /\ toServer' = <<>> /\ ~alive'
        BY <1>6, <3>2 DEF Recv
      <4>2. QED
        BY <2>1, <2>2, <3>1, <4>1 DEF QueueInv
    <3>3. CASE conn' # None
      <4>1. toClient' = Tail(toClient) /\ UNCHANGED <<toServer, alive>>
        BY <1>6, <3>3 DEF Recv
      <4>2. /\ Len(toClient') = Len(toClient) - 1 /\ Len(toClient) \in Nat /\ Len(toServer) \in Nat
            /\ \A i \in DOMAIN toClient' : i \in Nat /\ i + 1 \in DOMAIN toClient /\ toClient'[i] = toClient[i + 1]
        BY <2>1, <4>1, TailIndices DEF TypeInv
      <4>3. \A i \in DOMAIN toClient' : toClient'[i].id = Behind' + i
        BY <2>2, <3>1, <4>2 DEF QueueInv
      <4>4. \A i \in DOMAIN toServer' : toServer'[i].id = Behind' + Len(toClient') + i
        <5>1. ASSUME NEW i \in DOMAIN toServer
              PROVE  toServer[i].id = Behind' + Len(toClient') + i
          <6>1. i \in Nat /\ toServer[i].id = Behind + Len(toClient) + i
            BY DEF QueueInv, TypeInv
          <6>2. QED
            BY <2>2, <3>1, <4>2, <6>1
        <5>2. QED
          BY <4>1, <5>1
      <4>5. IF alive' THEN Len(toClient') + Len(toServer') = abandoned' + Waiting'
                      ELSE Len(toClient') <= abandoned' + Waiting'
        BY <2>1, <2>2, <4>1, <4>2 DEF QueueInv
      <4>6. QED
        BY <2>1, <2>2, <3>1, <4>3, <4>4, <4>5 DEF QueueInv
    <3>4. QED
      BY <3>2, <3>3
  <2>4. CASE phase = "dialing" /\ conn' = None /\ sent' = 0
    <3>1. abandoned = 0
      BY <2>4 DEF ConnectInv, DialInv
    <3>2. toClient' = <<>> /\ toServer' = <<>> /\ ~alive'
      BY <1>6, <2>4 DEF Recv
    <3>3. QED
      BY <2>1, <2>2, <2>4, <3>1, <3>2 DEF QueueInv, Behind
  <2>5. QED
    BY <2>1, <2>3, <2>4
<1>7. CASE RecvEOF
  <2>1. /\ call # None /\ toClient = <<>> /\ ~alive /\ UNCHANGED wire /\ call' = None /\ abandoned' = abandoned
        /\ (sent' = sent \/ (phase = "dialing" /\ sent' = 0))
    BY <1>7 DEF RecvEOF, Finish
  <2>2. Waiting = 1 /\ Waiting' = 0 /\ abandoned \in Nat /\ Behind \in Nat /\ toServer = <<>>
    BY <2>1, Counts DEF Waiting, ConnectInv
  <2>3. toServer' = <<>> /\ toClient' = <<>> /\ ~alive'
    BY <2>1, <2>2 DEF wire
  <2>4. Behind' >= 0
    <3>1. CASE sent' = sent
      BY <2>1, <2>2, <3>1 DEF Behind, TypeInv
    <3>2. CASE phase = "dialing" /\ sent' = 0
      BY <2>1, <2>2, <3>2 DEF Behind, ConnectInv, DialInv
    <3>3. QED
      BY <2>1, <3>1, <3>2
  <2>5. QED
    BY <2>1, <2>2, <2>3, <2>4 DEF QueueInv
<1>8. CASE Abandon
  <2>1. call # None /\ call' = None /\ abandoned' = abandoned + 1 /\ UNCHANGED <<sent, toServer, toClient, alive>>
    BY <1>8 DEF Abandon, wire
  <2>2. Waiting = 1 /\ Waiting' = 0 /\ Behind' = Behind
    BY <2>1 DEF Waiting, Behind, TypeInv
  <2>3. IF alive' THEN Len(toClient') + Len(toServer') = abandoned' + Waiting'
                  ELSE Len(toClient') <= abandoned' + Waiting'
    BY <2>1, <2>2 DEF QueueInv, TypeInv
  <2>4. QED
    BY <2>1, <2>2, <2>3 DEF QueueInv
<1>9. CASE UNCHANGED vars
  BY <1>9 DEF vars, QueueInv, Waiting, Behind
<1>10. QED
  BY <1>1, <1>2, <1>3, <1>4, <1>5, <1>6, <1>7, <1>8, <1>9 DEF Next

LEMMA Queues == Spec => []QueueInv
BY QueueInit, QueueStep, Types, Connects, PTL DEF Spec

LEMMA OwnStep ==
  TypeInv /\ Flags /\ ConnectInv /\ QueueInv /\ OwnInv /\ [Next]_vars => OwnInv'
<1> SUFFICES ASSUME TypeInv, Flags, ConnectInv, QueueInv, OwnInv, [Next]_vars, call' # None
             PROVE  /\ \A i \in DOMAIN toServer' :
                         toServer'[i].id = call'.id => toServer'[i].name = call'.method.name
                    /\ \A i \in DOMAIN toClient' :
                         toClient'[i].id = call'.id
                           => ReadAnswer(call'.method, toClient'[i]) = toClient'[i].meant
  BY DEF OwnInv
<1>0. MaxCalls \in Nat \ {0} /\ None \notin Hosts
  BY HdfsClientAssumption
<1>1. CASE UNCHANGED <<call, toServer, toClient>>
  BY <1>1 DEF OwnInv
<1>2. CASE Dial /\ ~UNCHANGED <<conn, call, sent, wire>>
  <2>1. PICK a :
          /\ call' = [id |-> 1, method |-> Greeting]
          /\ toServer' = <<Request(Greeting, a, 1)>> /\ toClient' = <<>>
    BY <1>2 DEF Dial, Greeting
  <2>2. toServer' = <<toServer'[1]>> /\ toServer'[1].name = Greeting.name
    BY <2>1 DEF Request
  <2>3. QED
    BY <2>1, <2>2
<1>3. ASSUME NEW m \in Methods, NEW a \in Arguments(m), Send(m, a), ~UNCHANGED <<call, sent, wire>>
      PROVE  /\ \A i \in DOMAIN toServer' :
                  toServer'[i].id = call'.id => toServer'[i].name = call'.method.name
             /\ \A i \in DOMAIN toClient' : toClient'[i].id # call'.id
  <2> DEFINE q == Request(m, a, sent + 1)
  <2>1. /\ Writable(a) /\ alive /\ call = None /\ sent < MaxCalls
        /\ call' = [id |-> sent + 1, method |-> m]
        /\ toServer' = Append(toServer, q) /\ toClient' = toClient
    BY <1>3 DEF Send
  <2>2. sent + 1 \in 1..MaxCalls /\ sent \in Nat
    BY <1>0, <2>1 DEF TypeInv
  <2>3. q \in Requests /\ q.name = m.name
    BY <2>1, <2>2, RequestIsTyped DEF Request
  <2>4. /\ Behind + abandoned = sent /\ Len(toClient) + Len(toServer) = abandoned
        /\ Behind \in Nat /\ Len(toClient) \in Nat /\ Len(toServer) \in Nat /\ abandoned \in Nat
    BY <2>1, <2>2, Counts DEF QueueInv, Waiting
  <2>5. \A i \in DOMAIN toClient : toClient[i].id = Behind + i /\ i \in 1..Len(toClient)
    BY DEF QueueInv, TypeInv
  <2>6. \A i \in DOMAIN toServer : toServer[i].id = Behind + Len(toClient) + i /\ i \in 1..Len(toServer)
    BY DEF QueueInv, TypeInv
  <2>7. \A i \in DOMAIN toClient : toClient[i].id # sent + 1
    BY <2>2, <2>4, <2>5
  <2>8. \A i \in DOMAIN toServer : toServer[i].id # sent + 1
    BY <2>2, <2>4, <2>6
  <2> HIDE DEF q
  <2>9. \A i \in DOMAIN toServer' : toServer'[i] = q \/ (i \in DOMAIN toServer /\ toServer'[i] = toServer[i])
    BY <2>1, <2>3, AppendIndices DEF TypeInv
  <2>10. QED
    BY <2>1, <2>3, <2>7, <2>8, <2>9
<1>4. CASE Process
  <2>1. /\ toServer # <<>> /\ toServer' = Tail(toServer) /\ toServer[1] \in Requests /\ call' = call
        /\ toServer[1].id \in 1..MaxCalls
    BY <1>4, RequestParts DEF Process, TypeInv
  <2>2. /\ 1 \in DOMAIN toServer
        /\ \A i \in DOMAIN toServer' : i + 1 \in DOMAIN toServer /\ toServer'[i] = toServer[i + 1]
    BY <2>1, TailIndices DEF TypeInv
  <2>3. toServer[1].id = call.id => toServer[1].name = call.method.name
    BY <2>1, <2>2 DEF OwnInv
  <2>4. call.method \in Methods
    BY <2>1 DEF TypeInv
  <2>5. PICK w \in Answers :
          /\ toClient' = Append(toClient, w)
          /\ w.id = call.id => ReadAnswer(call.method, w) = w.meant
    <3>1. CASE toClient' = Append(toClient, Answer(toServer[1].id, "EXCEPTION", <<>>, Ended("unknown", None)))
      <4> DEFINE w == Answer(toServer[1].id, "EXCEPTION", <<>>, Ended("unknown", None))
      <4>1. ReadAnswer(call.method, w) = w.meant
        BY DEF ReadAnswer, Answer
      <4>2. w \in Answers
        BY <2>1, UnknownInAnswers
      <4> HIDE DEF w
      <4>3. QED
        BY <3>1, <4>1, <4>2 DEF w
    <3>2. ASSUME NEW m \in Methods, m.name = toServer[1].name, NEW r \in HandlerEnds(m) \cup HandlerThrows(m),
                 toClient' = Append(toClient, Answer(toServer[1].id, "REPLY", ToWire(r.result), r.meant))
          PROVE  \E w \in Answers : /\ toClient' = Append(toClient, w)
                                    /\ w.id = call.id => ReadAnswer(call.method, w) = w.meant
      <4> DEFINE w == Answer(toServer[1].id, "REPLY", ToWire(r.result), r.meant)
      <4>1. w.id = toServer[1].id /\ w.meant = r.meant /\ w.mtype = "REPLY" /\ w.body = ToWire(r.result)
        BY DEF Answer
      <4>2. w \in Answers
        BY <2>1, ReplyInAnswers
      <4> HIDE DEF w
      <4>3. ReadAnswer(m, w) = r.meant
        BY <4>1, ReplyIsMeant
      <4>4. w.id = call.id => m = call.method
        BY <2>3, <2>4, <3>2, <4>1, MethodOfName
      <4>5. w.id = call.id => ReadAnswer(call.method, w) = w.meant
        BY <4>1, <4>3, <4>4
      <4>6. toClient' = Append(toClient, w)
        BY <3>2 DEF w
      <4>7. QED
        BY <4>2, <4>5, <4>6
    <3>3. QED
      BY <1>4, <3>1, <3>2 DEF Process
  <2>6. \A i \in DOMAIN toClient' : toClient'[i] = w \/ (i \in DOMAIN toClient /\ toClient'[i] = toClient[i])
    BY <2>5, AppendIndices DEF TypeInv
  <2>7. QED
    BY <2>1, <2>2, <2>5, <2>6 DEF OwnInv
<1>5. CASE Drop \/ DropGarbled
  <2>1. toServer' = <<>> /\ (toClient' = toClient \/ toClient' = <<>>) /\ call' = call
    BY <1>5 DEF Drop, DropGarbled
  <2>2. QED
    BY <2>1 DEF OwnInv
<1>6. CASE Recv \/ RecvEOF \/ Abandon
  BY <1>6 DEF Recv, RecvEOF, Finish, Abandon
<1>7. CASE GiveUp \/ Close \/ (Dial /\ UNCHANGED <<conn, call, sent, wire>>) \/ UNCHANGED vars
  BY <1>1, <1>7 DEF GiveUp, Close, vars, wire
<1>8. ASSUME NEW m \in Methods, NEW a \in Arguments(m), Send(m, a), UNCHANGED <<call, sent, wire>>
      PROVE  UNCHANGED <<call, toServer, toClient>>
  BY <1>8 DEF wire
<1>9. QED
  BY <1>1, <1>2, <1>3, <1>4, <1>5, <1>6, <1>7, <1>8 DEF Next

LEMMA OwnInit == Init => OwnInv
BY DEF Init, OwnInv

LEMMA Owns == Spec => []OwnInv
BY OwnInit, OwnStep, Types, Connects, Queues, PTL DEF Spec

\* A value that a call returns was read from a field of its type.
LEMMA ReadIsTyped ==
  ASSUME NEW m \in Methods, NEW w \in Answers, ReadAnswer(m, w).kind = "value"
  PROVE  ReadAnswer(m, w).value.type = FieldNamed(m.result, "success").type
<1> DEFINE f    == FieldNamed(m.result, "success")
           hits == Matching(w.body, f)
           d    == FromWire(m.result, w.body).d
<1>1. /\ w.mtype # "EXCEPTION" /\ Has(m, "success") /\ d["success"] # None
      /\ ReadAnswer(m, w).value = d["success"]
  BY DEF ReadAnswer, Ended
<1>2. PICK m2 \in Methods : \E r \in HandlerEnds(m2) \cup HandlerThrows(m2) : w.body = ToWire(r.result)
  BY <1>1, AnswerParts
<1>3. PICK r \in HandlerEnds(m2) \cup HandlerThrows(m2) : w.body = ToWire(r.result)
  BY <1>2
<1>4. d["success"] = IF hits = {} THEN None ELSE ReadDatum(f, w.body[Max(hits)].datum)
  BY <1>1 DEF FromWire, Object, Has
<1>5. PICK j \in hits : TRUE
  BY <1>1, <1>4
<1>6. hits = {j} /\ j \in Nat
  <2>1. PICK x : r.result = Object(m2.result, x)
    BY ReplyValues
  <2>2. /\ DOMAIN w.body \subseteq DOMAIN m2.result
        /\ \A i \in DOMAIN w.body : w.body[i].id = m2.result[i].id
    BY <1>3, <2>1 DEF ToWire, Present, Object
  <2>3. Distinct(m2.result)
    BY ResultClasses DEF MessageClass
  <2>4. QED
    BY <2>2, <2>3 DEF Matching, Distinct
<1>7. Max(hits) = j
  BY <1>6 DEF Max
<1>8. j \in DOMAIN w.body /\ w.body[j].type = f.type
  BY <1>5 DEF Matching
<1>9. f.type \in {"STRUCT", "BOOL", "STRING", "LIST"} /\ (f.type = "LIST" => f.of # <<>>)
  <2>1. PICK i \in DOMAIN m.result : m.result[i].name = "success"
    BY <1>1 DEF Has, Names
  <2>2. m.result[i] = f
    BY <2>1, FieldOfName, ResultClasses DEF MessageClass
  <2>3. ouch.name # "success"
    BY DEF ouch, Struct
  <2>4. QED
    BY <2>1, <2>2, <2>3, ResultFields
<1>10. ReadDatum(f, w.body[j].datum).type = f.type
  <2>1. CASE f.type = "STRUCT"
    BY <2>1 DEF ReadDatum, FromWireFlat, Object
  <2>2. CASE f.type = "LIST"
    BY <1>9, <2>2 DEF ReadDatum, ListOf
  <2>3. CASE f.type \in {"BOOL", "STRING"}
    <3>1. w.body[j].datum.type = f.type
      BY <1>3, <1>8, <2>3, ReplyIsTyped
    <3>2. QED
      BY <2>3, <3>1 DEF ReadDatum
  <2>4. QED
    BY <1>9, <2>1, <2>2, <2>3
<1> HIDE DEF f, hits, d
<1>11. QED
  BY <1>1, <1>4, <1>5, <1>7, <1>10 DEF f

LEMMA LastInit == Init => AnswersLag /\ ValuesAreTyped
BY DEF Init, AnswersLag, ValuesAreTyped, Answered

LEMMA LastStep ==
  TypeInv /\ Flags /\ ConnectInv /\ QueueInv /\ OwnInv /\ AnswersLag /\ ValuesAreTyped /\ [Next]_vars
    => (AnswersLag /\ ValuesAreTyped)'
<1> SUFFICES ASSUME TypeInv, Flags, ConnectInv, QueueInv, OwnInv, AnswersLag, ValuesAreTyped, [Next]_vars
             PROVE  (AnswersLag /\ ValuesAreTyped)'
  OBVIOUS
<1>1. CASE UNCHANGED <<last, abandoned>>
  BY <1>1 DEF AnswersLag, ValuesAreTyped, Answered
<1>2. CASE last' = None
  BY <1>2 DEF AnswersLag, ValuesAreTyped, Answered
<1>3. ASSUME last' # None, last'.end.kind \in {"unwritable", "transport", "abandoned"}
      PROVE  ~Answered'
  BY <1>3 DEF Answered
<1>4. CASE ~Answered'
  BY <1>4 DEF AnswersLag, ValuesAreTyped
<1>5. ASSUME NEW m \in Methods, NEW a \in Arguments(m), Send(m, a)
      PROVE  last' = None \/ ~Answered'
  BY <1>5 DEF Send, Raise, Ended, Answered
<1>6. CASE RecvEOF \/ Abandon
  <2>1. last' = None \/ ~Answered'
    BY <1>6 DEF RecvEOF, Finish, Abandon, Raise, Ended, Answered
  <2>2. QED
    BY <1>2, <1>4, <2>1
<1>7. CASE Recv
  <2> DEFINE w   == toClient[1]
             end == ReadAnswer(call.method, w)
  <2>1. call # None /\ toClient # <<>> /\ Finish(end, w.id, w.meant)
    BY <1>7 DEF Recv
  <2>2. w \in Answers /\ 1 \in DOMAIN toClient /\ call.method \in Methods /\ call.id = sent
    BY <2>1, TailIndices DEF TypeInv, QueueInv
  <2>3. w.id = Behind + 1 /\ Behind = sent - abandoned - 1 /\ sent \in Nat /\ abandoned \in Nat
    BY <2>1, <2>2, Counts DEF QueueInv, Behind, Waiting
  <2>4. w.id = sent - abandoned
    BY <2>3
  <2>5. abandoned = 0 => end = w.meant
    BY <2>1, <2>2, <2>3, <2>4 DEF OwnInv
  <2>6. end.kind = "value" => end.value.type = FieldNamed(call.method.result, "success").type
    BY <2>2, ReadIsTyped
  <2>7. CASE phase # "dialing"
    <3> HIDE DEF w, end
    <3>1. /\ last' = [id |-> call.id, method |-> call.method, end |-> end, of |-> w.id, meant |-> w.meant]
          /\ abandoned' = abandoned
      BY <2>1, <2>7 DEF Finish
    <3>2. QED
      BY <2>2, <2>4, <2>5, <2>6, <3>1 DEF AnswersLag, ValuesAreTyped
  <2>8. CASE phase = "dialing"
    BY <1>2, <2>1, <2>8 DEF Finish
  <2>9. QED
    BY <2>7, <2>8
<1>8. CASE Dial \/ GiveUp \/ Close \/ Process \/ Drop \/ DropGarbled \/ UNCHANGED vars
  BY <1>1, <1>8 DEF Dial, GiveUp, Close, Process, Drop, DropGarbled, vars
<1>9. QED
  BY <1>2, <1>4, <1>5, <1>6, <1>7, <1>8 DEF Next

LEMMA Lasts == Spec => [](AnswersLag /\ ValuesAreTyped)
BY LastInit, LastStep, Types, Connects, Queues, Owns, PTL DEF Spec

LEMMA CallsAreTyped == TypeInv /\ Flags /\ ConnectInv /\ QueueInv => TypeOK
<1> SUFFICES ASSUME TypeInv, Flags, ConnectInv, QueueInv
             PROVE  TypeOK
  OBVIOUS
<1>1. /\ MaxCalls \in Nat /\ sent \in 0..MaxCalls /\ sent \in Nat /\ abandoned \in Nat
      /\ Len(toServer) \in Nat /\ Len(toClient) \in Nat
  BY HdfsClientAssumption, Counts DEF TypeInv
<1>2. Behind \in Nat /\ Waiting \in 0..1 /\ Behind + abandoned + Waiting = sent
  BY Counts
<1>3. Len(toClient) + Len(toServer) <= abandoned + Waiting
  BY <1>1, <1>2 DEF QueueInv, ConnectInv
<1>4. abandoned \in 0..MaxCalls /\ Len(toServer) + Len(toClient) <= MaxCalls
  BY <1>1, <1>2, <1>3
<1>5. call # None => call.method \in Methods /\ call.id \in 1..sent
  BY <1>1 DEF TypeInv, QueueInv
<1>6. \A i \in DOMAIN toClient : toClient[i].id \in 1..sent
  <2>1. \A i \in DOMAIN toClient : i \in 1..Len(toClient) /\ toClient[i].id = Behind + i
    BY DEF TypeInv, QueueInv
  <2>2. QED
    BY <1>1, <1>2, <1>3, <2>1
<1>7. \A i \in DOMAIN toServer : toServer[i].id \in 1..sent
  <2>1. \A i \in DOMAIN toServer : i \in 1..Len(toServer) /\ toServer[i].id = Behind + Len(toClient) + i
    BY DEF TypeInv, QueueInv
  <2>2. QED
    BY <1>1, <1>2, <1>3, <2>1
<1>8. torn \in BOOLEAN /\ alive \in BOOLEAN
  BY DEF Flags
<1>9. QED
  BY <1>1, <1>4, <1>5, <1>6, <1>7, <1>8 DEF TypeOK, TypeInv

LEMMA RequestsArrive == TypeInv => ArgumentsArrive
<1> SUFFICES ASSUME TypeInv, NEW i \in DOMAIN toServer, toServer[i].body # None,
                    NEW m \in Methods, m.name = toServer[i].name
             PROVE  FromWire(m.args, toServer[i].body) = toServer[i].args
  BY DEF ArgumentsArrive
<1>1. toServer[i] \in Requests
  BY DEF TypeInv
<1>2. PICK n \in Methods : \E a \in Arguments(n) :
        /\ Writable(a) /\ toServer[i].name = n.name /\ toServer[i].args = a
        /\ toServer[i].body \in {None, ToWire(a)}
  BY <1>1, RequestParts
<1>3. n = m
  BY <1>2, MethodOfName
<1>4. QED
  BY <1>2, <1>3, ArgumentsRoundTrip

(* The handler sees each argument of a call under its own name; an answer  *)
(* is that to the call made as many calls before as were not waited for on *)
(* the connection, so to the call itself if all were, and then it is read  *)
(* as the handler meant it; and whichever answer a call gets, a value is   *)
(* of the type its method returns.                                         *)
THEOREM EveryCallGetsItsAnswer == Spec => []CallsAreAnswered
<1>1. TypeInv /\ Flags /\ ConnectInv /\ QueueInv /\ (AnswersLag /\ ValuesAreTyped) => CallsAreAnswered
  BY CallsAreTyped, RequestsArrive DEF CallsAreAnswered
<1>2. QED
  BY <1>1, Types, Connects, Queues, Lasts, PTL
=============================================================================
