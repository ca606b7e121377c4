--------------------------- MODULE ThriftMessages ---------------------------
(***************************************************************************)
(* The messages of the HDFS Thrift interface                               *)
(* (HdfsClient/hadoopfs/ttypes.py and ThriftHadoopFileSystem.py).  A       *)
(* generated class is a sequence of its fields; its read() and write()     *)
(* methods differ from class to class in these fields only, and are        *)
(* FromWire and ToWire below.  What travels is a list of fields with an    *)
(* id, a wire type and a datum, indexed by their places in the class that  *)
(* wrote it: a field that is not written leaves a gap.                     *)
(***************************************************************************)
EXTENDS Sequences, SequencesExt, Naturals

CONSTANT None               \* Python's None: the value of a field not set

Plain(id, type, name)       == [id |-> id, type |-> type,     name |-> name, of |-> <<>>]
Struct(id, name, class)     == [id |-> id, type |-> "STRUCT", name |-> name, of |-> class]
StructList(id, name, class) == [id |-> id, type |-> "LIST",   name |-> name, of |-> class]

-----------------------------------------------------------------------------
(* The structures of ttypes.py.  Ids below 1 are those of fields the       *)
(* interface definition left without a number.                             *)

ThriftHandle == << Plain(-1, "I64", "id") >>

Pathname == << Plain(-1, "STRING", "pathname") >>

FileStatus ==
  << Plain(1, "STRING", "path"), Plain(2, "I64", "length"), Plain(3, "BOOL", "isdir"),
     Plain(4, "I16", "block_replication"), Plain(5, "I64", "blocksize"),
     Plain(6, "I64", "modification_time"), Plain(7, "STRING", "permission"),
     Plain(8, "STRING", "owner"), Plain(9, "STRING", "group") >>

BlockLocation ==
  << Plain(1, "LIST", "hosts"), Plain(2, "LIST", "names"),
     Plain(3, "I64", "offset"), Plain(4, "I64", "length") >>

ThriftIOException == << Plain(-1, "STRING", "message") >>

-----------------------------------------------------------------------------
(* The arguments and the result of each call.                              *)

path == Struct(1, "path", Pathname)
ouch == Struct(1, "ouch", ThriftIOException)

setInactivityTimeoutPeriod_args   == << Plain(1, "I64", "periodInSeconds") >>
setInactivityTimeoutPeriod_result == <<>>

shutdown_args   == << Plain(1, "I32", "status") >>
shutdown_result == <<>>

create_args   == << path >>
create_result == << Struct(0, "success", ThriftHandle), ouch >>

createFile_args ==
  << path, Plain(2, "I16", "mode"), Plain(3, "BOOL", "overwrite"), Plain(4, "I32", "bufferSize"),
     Plain(5, "I16", "block_replication"), Plain(6, "I64", "blocksize") >>
createFile_result == << Struct(0, "success", ThriftHandle), ouch >>

open_args   == << path >>
open_result == << Struct(0, "success", ThriftHandle), ouch >>

append_args   == << path >>
append_result == << Struct(0, "success", ThriftHandle), ouch >>

write_args   == << Struct(1, "handle", ThriftHandle), Plain(-1, "STRING", "data") >>
write_result == << Plain(0, "BOOL", "success"), ouch >>

read_args   == << Struct(1, "handle", ThriftHandle), Plain(-1, "I64", "offset"), Plain(-2, "I32", "size") >>
read_result == << Plain(0, "STRING", "success"), ouch >>

close_args   == << Struct(1, "out", ThriftHandle) >>
close_result == << Plain(0, "BOOL", "success"), ouch >>

rm_args   == << path, Plain(2, "BOOL", "recursive") >>
rm_result == << Plain(0, "BOOL", "success"), ouch >>

rename_args   == << path, Struct(2, "dest", Pathname) >>
rename_result == << Plain(0, "BOOL", "success"), ouch >>

mkdirs_args   == << path >>
mkdirs_result == << Plain(0, "BOOL", "success"), ouch >>

exists_args   == << path >>
exists_result == << Plain(0, "BOOL", "success"), ouch >>

stat_args   == << path >>
stat_result == << Struct(0, "success", FileStatus), ouch >>

listStatus_args   == << path >>
listStatus_result == << StructList(0, "success", FileStatus), ouch >>

chmod_args   == << path, Plain(2, "I16", "mode") >>
chmod_result == << ouch >>

chown_args   == << path, Plain(2, "STRING", "owner"), Plain(3, "STRING", "group") >>
chown_result == << ouch >>

setReplication_args   == << path, Plain(2, "I16", "replication") >>
setReplication_result == << ouch >>

getFileBlockLocations_args   == << path, Plain(2, "I64", "start"), Plain(3, "I64", "length") >>
getFileBlockLocations_result == << StructList(0, "success", BlockLocation), ouch >>

-----------------------------------------------------------------------------
(* Python values: a scalar or a list of strings is its type and a tag, an  *)
(* object its class and the values of its fields, a list its items.        *)

Names(class) == {class[i].name : i \in DOMAIN class}

FieldNamed(class, n) == class[CHOOSE i \in DOMAIN class : class[i].name = n]

Scalar(type, tag) == [type |-> type, tag |-> tag]

Object(class, d) == [type |-> "STRUCT", class |-> class, d |-> d]

ListOf(items) == [type |-> "LIST", items |-> items]

\* An object of `class` with every field set, to values told apart by `tag`.
Filled(class, tag) ==
  Object(class, [n \in Names(class) |-> Scalar(FieldNamed(class, n).type, <<tag, n>>)])

\* A value that fits field f.
Sample(f) ==
  CASE f.type = "STRUCT"              -> Filled(f.of, f.name)
    [] f.type = "LIST" /\ f.of # <<>> -> ListOf(<<Filled(f.of, "first"), Filled(f.of, "second")>>)
    [] OTHER                          -> Scalar(f.type, <<f.name>>)

-----------------------------------------------------------------------------
(* write() and read().  Fields that are None are not written; a field of   *)
(* an unknown id, or of another type than the reader's, is skipped.  A     *)
(* value is written by the write() of its own class, whatever class the    *)
(* field is declared with.                                                 *)

Present(o) == {i \in DOMAIN o.class : o.d[o.class[i].name] # None}

\* A structure without structures in it.
ToWireFlat(o) ==
  [i \in Present(o) |->
     LET f == o.class[i] IN [id |-> f.id, type |-> f.type, datum |-> o.d[f.name]]]

WireDatum(v) ==
  CASE v.type = "STRUCT"                     -> ToWireFlat(v)
    [] v.type = "LIST" /\ "items" \in DOMAIN v -> [i \in DOMAIN v.items |-> ToWireFlat(v.items[i])]
    [] OTHER                                 -> v

ToWire(o) ==
  [i \in Present(o) |->
     LET f == o.class[i] IN [id |-> f.id, type |-> f.type, datum |-> WireDatum(o.d[f.name])]]

(* A plausible bug: a reader that takes one scalar for another. *)
MatchingAnyScalar(wire, f) ==
  {i \in DOMAIN wire :
     wire[i].id = f.id /\ (wire[i].type = f.type \/ {wire[i].type, f.type} \subseteq {"BOOL", "STRING"})}
(* A plausible bug: ids below 0, of fields without a number, are not looked for. *)
MatchingNumbered(wire, f) ==
  {i \in DOMAIN wire : f.id >= 0 /\ wire[i].id = f.id /\ wire[i].type = f.type}
\* Where a message has what the reader takes for f; the last one stays.
Matching(wire, f) == {i \in DOMAIN wire : wire[i].id = f.id /\ wire[i].type = f.type}

FromWireFlat(class, wire) ==
  Object(class, [n \in Names(class) |->
    LET hits == Matching(wire, FieldNamed(class, n))
    IN  IF hits = {} THEN None ELSE wire[Max(hits)].datum])

ReadDatum(f, w) ==
  CASE f.type = "STRUCT"              -> FromWireFlat(f.of, w)
    [] f.type = "LIST" /\ f.of # <<>> -> ListOf([i \in DOMAIN w |-> FromWireFlat(f.of, w[i])])
    [] OTHER                          -> w

FromWire(class, wire) ==
  Object(class, [n \in Names(class) |->
    LET f    == FieldNamed(class, n)
        hits == Matching(wire, f)
    IN  IF hits = {} THEN None ELSE ReadDatum(f, wire[Max(hits)].datum)])

\* write() gets through: every value that is set is of its field's type.
Writable(o) ==
  \A n \in {n \in Names(o.class) : o.d[n] # None} : o.d[n].type = FieldNamed(o.class, n).type
=============================================================================
