---------------------------- MODULE LogMessages ----------------------------
(***************************************************************************)
(* The protocol buffer messages of the click and page view logs            *)
(* (log_decoder/adinfo_pb2.py, usertrac_pb2.py).  A message class is the   *)
(* sequence of its field descriptors.  Every field is optional or          *)
(* repeated; a field that is not set is read as its default.               *)
(*                                                                         *)
(* The library is modelled by what it does with the descriptors: a field   *)
(* travels with its number and a wire type; one whose number or wire type  *)
(* is not that of a descriptor is skipped.                                 *)
(***************************************************************************)
EXTENDS Sequences, SequencesExt, Naturals

CONSTANT Unset            \* an optional field that is not set

Field(num, type, name)        == [num |-> num, type |-> type, name |-> name, many |-> FALSE, of |-> <<>>]
Message(num, name, class)     == [num |-> num, type |-> "MESSAGE", name |-> name, many |-> FALSE, of |-> class]
Repeated(num, type, name)     == [num |-> num, type |-> type, name |-> name, many |-> TRUE, of |-> <<>>]
RepeatedOf(num, name, class)  == [num |-> num, type |-> "MESSAGE", name |-> name, many |-> TRUE, of |-> class]

U32(num, name) == Field(num, "UINT32", name)
U64(num, name) == Field(num, "UINT64", name)
Dbl(num, name) == Field(num, "DOUBLE", name)
Str(num, name) == Field(num, "STRING", name)

WireType(type) ==
  CASE type \in {"UINT32", "UINT64", "INT32", "BOOL", "ENUM"} -> "varint"
    [] type = "DOUBLE"                                         -> "64bit"
    [] type \in {"STRING", "BYTES", "MESSAGE"}                 -> "delimited"

-----------------------------------------------------------------------------
GuangInfo ==
  << U32(1, "user_id"), U32(2, "item_id"), U32(3, "shop_id"), U32(4, "volume"),
     Dbl(5, "price"), Dbl(6, "votescor"), Dbl(7, "lctr") >>

AdInfo ==
  << U32(1, "creative_id"), U32(2, "campaign_id"), U32(3, "adgroup_id"), U64(4, "price"),
     U32(5, "admember_id"), U32(6, "rank"), U32(7, "adstyle_id"), U32(8, "tag_id"), Dbl(9, "ecpm"),
     U32(10, "tag_type"), Dbl(11, "lctr"), Dbl(13, "promotion"), Repeated(14, "UINT32", "attr_list"),
     U32(15, "category"), U32(16, "attr_id"), Dbl(17, "ectr"), Dbl(18, "ladshow"),
     U32(19, "creative_type"), U32(20, "level"), Dbl(21, "rank_score"),
     U32(22, "fallback_type_level"), Message(30, "guang_info", GuangInfo) >>

FullAdInfo ==
  << Message(1, "ad_info", AdInfo), Str(2, "url"), Str(3, "sogou_fingerprint") >>

BackEndAdTemplate ==
  << U32(1, "id"), U32(2, "min_count"), U32(3, "max_count"), U32(4, "tag_type") >>

BackEndSogouXmlReq ==
  << U32(1, "tag_id"), Str(2, "keyword"), Field(3, "INT32", "ret_code"), Field(4, "INT32", "time_used") >>

PublisherCategory == << U32(1, "id"), Dbl(2, "weight") >>

BackEndInfo ==
  << U32(1, "bucket_id"), U32(4, "ad_filtered"), Message(6, "ad_template", BackEndAdTemplate),
     RepeatedOf(8, "sogou_xml_req", BackEndSogouXmlReq), U32(9, "sogou_ads_count"),
     Str(10, "hostname"), U32(11, "result_code"), U32(12, "spent_ms"),
     Repeated(13, "UINT32", "user_attr_list"), U32(16, "combination_id"), U32(17, "display_type"),
     U32(19, "template_load_type"), U64(20, "bid_price"), U32(21, "dsp_id"), Dbl(22, "ht_score"),
     U64(23, "winning_price"), Str(24, "adx_bid"),
     RepeatedOf(25, "publisher_category", PublisherCategory), U32(26, "price_raised") >>

MiniBackendInfo ==
  << U32(1, "bucket_id"), U32(2, "template_id"), U32(4, "result_code"), U32(5, "spent_ms"),
     U32(6, "combination_id"), U32(7, "display_type"), U32(8, "dsp_id"),
     RepeatedOf(9, "publisher_category", PublisherCategory) >>

DisplayInfo ==
  << U32(1, "media_id"), U32(2, "display_ip"), U64(3, "display_time"), U32(4, "event_id"),
     Field(6, "BOOL", "is_fallback"), U32(9, "holder_id"), Field(10, "ENUM", "result_type"),
     Field(11, "BOOL", "is_backend_fail"), U32(12, "holder_index"), U32(13, "front_ret_code"),
     U32(14, "channel_id") >>

UserInfo ==
  << Field(1, "BYTES", "xxid"), Str(2, "muid"), Str(3, "referer"), Str(4, "user_agent"),
     Str(5, "original_referer") >>

ClickInfoEx ==
  << Message(1, "user_info", UserInfo), U64(2, "click_time"), U32(3, "click_ip"),
     Str(4, "click_url"), U64(5, "click_hash") >>

ClickInfo ==
  << Message(1, "ad_info", AdInfo), Message(2, "display_info", DisplayInfo),
     Message(3, "backend_info", MiniBackendInfo), U32(5, "frontend_spent"), U32(6, "crc32"),
     Repeated(7, "UINT32", "user_attr_list"), Field(8, "BOOL", "is_debug"), Str(9, "uctrac_clk") >>

Profiling == << U32(2, "spent"), Str(3, "name") >>

RenderInfo ==
  << RepeatedOf(1, "full_ad_info", FullAdInfo), Message(2, "display_info", DisplayInfo),
     Message(3, "user_info", UserInfo), Message(4, "backend_info", BackEndInfo),
     U32(5, "renderTime"), RepeatedOf(6, "profiling", Profiling) >>

UserTrac ==
  << Str(1, "click_id"), Str(2, "muid"), Str(3, "xxid"), Field(4, "INT32", "utrac_eid"),
     Field(5, "BOOL", "is_landing"), Field(6, "BOOL", "is_from_ad"), U32(7, "ip"), U32(8, "time"),
     Str(9, "char_code"), Str(10, "resolution"), Str(11, "color_depth"), Str(12, "page_title"),
     Str(13, "page_url"), Str(14, "page_host"), Str(15, "page_path"), Str(16, "click_hash") >>

-----------------------------------------------------------------------------
Names(class) == {class[i].name : i \in DOMAIN class}
FieldNamed(class, n) == class[CHOOSE i \in DOMAIN class : class[i].name = n]

\* Classes are nested four deep at most (RenderInfo, FullAdInfo, AdInfo,
\* GuangInfo): of each operator, what it does to a class, given what it does to
\* the messages inside.
Innermost(class, m) == m

\* SerializeToString(): field by field, the data of those that are set, one for
\* each value.
SerializeWith(class, m, Inside(_, _)) ==
  LET Datum(f, v) == IF f.type = "MESSAGE" THEN Inside(f.of, v) ELSE v
      Values(f) == IF f.many THEN m[f.name] ELSE IF m[f.name] = Unset THEN <<>> ELSE <<m[f.name]>>
      Data(f) == [k \in DOMAIN Values(f) |-> Datum(f, Values(f)[k])]
  IN  [i \in DOMAIN class |->
         [num |-> class[i].num, wt |-> WireType(class[i].type), data |-> Data(class[i])]]

Serialize1(class, m) == SerializeWith(class, m, Innermost)
Serialize2(class, m) == SerializeWith(class, m, Serialize1)
Serialize3(class, m) == SerializeWith(class, m, Serialize2)
Serialize(class, m)  == SerializeWith(class, m, Serialize3)

\* The data that come with the number and the wire type of a field, in their order.
Hits(wire, f) ==
  FlattenSeq([i \in DOMAIN wire |->
    IF wire[i].num = f.num /\ wire[i].wt = WireType(f.type) THEN wire[i].data ELSE <<>>])

\* ParseFromString(): of an optional field that comes twice the last value stays.
ParseWith(class, wire, Inside(_, _)) ==
  LET Read(f, d) == IF f.type = "MESSAGE" THEN Inside(f.of, d) ELSE d
      Value(f) == IF f.many THEN [k \in DOMAIN Hits(wire, f) |-> Read(f, Hits(wire, f)[k])]
                  ELSE IF Hits(wire, f) = <<>> THEN Unset ELSE Read(f, Last(Hits(wire, f)))
  IN  [n \in Names(class) |-> Value(FieldNamed(class, n))]

Parse1(class, wire) == ParseWith(class, wire, Innermost)
Parse2(class, wire) == ParseWith(class, wire, Parse1)
Parse3(class, wire) == ParseWith(class, wire, Parse2)
Parse(class, wire)  == ParseWith(class, wire, Parse3)

\* A message with every field set, repeated ones to two values, scalars to the
\* path by which they are reached.
FilledWith(class, at, Inside(_, _)) ==
  LET Value(f, k) == IF f.type = "MESSAGE" THEN Inside(f.of, at \o <<f.name, k>>) ELSE at \o <<f.name, k>>
  IN  [n \in Names(class) |->
         LET f == FieldNamed(class, n)
         IN  IF f.many THEN <<Value(f, "1"), Value(f, "2")>> ELSE Value(f, "1")]

Filled1(class, at) == FilledWith(class, at, Innermost)
Filled2(class, at) == FilledWith(class, at, Filled1)
Filled3(class, at) == FilledWith(class, at, Filled2)
Filled(class, at)  == FilledWith(class, at, Filled3)

\* Also with each one of its fields missing.
Samples(class) ==
  LET full == Filled(class, <<>>)
  IN  {full} \cup
      {[full EXCEPT ![n] = IF FieldNamed(class, n).many THEN <<>> ELSE Unset] : n \in Names(class)}

\* Reading m.f of an optional message gives a message without fields if it is
\* not set, and reading a number gives 0.
Get(m, n, default) == IF m[n] = Unset THEN default ELSE m[n]
=============================================================================
