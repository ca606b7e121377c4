---------------------------- MODULE LogPipeline ----------------------------
(***************************************************************************)
(* The click report: log_decoder/mapper.py prints a row with a hash, a     *)
(* type and a text for the lines of the click log and then for those of    *)
(* the tracker's log, `sort` brings the rows of a hash together, and       *)
(* log_decoder/reducer.py counts the tracks and hops of every click.       *)
(*                                                                         *)
(* Nothing guards the text of a row: a line without its line feed, which   *)
(* is how a log still being written ends, runs into the next row, and a    *)
(* hash taken from a query may hold a line feed, which cuts its row.       *)
(***************************************************************************)
EXTENDS LogMessages, Integers, FiniteSets, Bags

CONSTANTS
  Hashes,        \* click hashes, as the click log prints them
  MaxLines       \* lines read from each log

\* What the constants are; the module that gives them values assumes it.
LogPipelineAssumption == "" \notin Hashes /\ MaxLines \in Nat

VARIABLES
  phase,         \* "clicks", "tracs", "sorted", "done", "broken" (the reducer raised);
                 \* "decoding", "decoded": a run of log_decoder.py by itself
  read,          \* lines read of the log that is being read
  died,          \* the mapper raised
  glued,         \* the last row printed has no line feed yet
  unended,       \* lines without a line feed so far
  called,        \* bag of the rows the lines read call for
  printed,       \* bag of the rows printed
  rest,          \* bag of the rows that the reducer has still to read
  group,         \* the reducer's key, clicks, tracs and hops
  reported,      \* what do_reduce has printed
  message        \* a message that was encoded and what its decoder made of it

pipe == <<read, died, glued, unended, called, printed, rest, group, reported>>
vars == <<phase, pipe, message>>

OwnMedia == 10140

Row(key, type, text) == [fields |-> 3, key |-> key, type |-> type, text |-> text]
Fragment(key)        == [fields |-> 1, key |-> key, type |-> "", text |-> ""]

NoGroup == [key |-> "", clicks |-> <<>>, tracs |-> 0, hops |-> 0]

Init ==
  /\ phase \in {"clicks", "decoding"} /\ read = 0
  /\ died = FALSE /\ glued = FALSE /\ unended = 0
  /\ called = EmptyBag /\ printed = EmptyBag /\ rest = EmptyBag
  /\ group = NoGroup /\ reported = {}
  /\ message = Unset

-----------------------------------------------------------------------------
(* Lines of the click log: the two messages, by the values that are looked *)
(* at.  `cut` is a hash with a line feed in it.                            *)

cut == "cut"

ClickLines ==
  [media : {Unset, 1, OwnMedia}, hash : Hashes, referer : Hashes \cup {"", cut}, ended : BOOLEAN]

\* The messages in the line, with all the other fields missing.
Only(class, n, v) == [[x \in Names(class) |-> IF FieldNamed(class, x).many THEN <<>> ELSE Unset] EXCEPT ![n] = v]

ClickMessage(line) ==
  Serialize(ClickInfo,
    Only(ClickInfo, "display_info",
         IF line.media = Unset THEN Unset ELSE Only(DisplayInfo, "media_id", line.media)))

ClickExMessage(line) ==
  Serialize(ClickInfoEx,
    [Only(ClickInfoEx, "user_info", Only(UserInfo, "referer", line.referer))
       EXCEPT !["click_hash"] = line.hash])

\* decode_click() and decode_click_ex() on a line, as far as they are used.
MediaId(line) ==
  LET click == Parse(ClickInfo, ClickMessage(line))
  IN  Get(Get(click, "display_info", [media_id |-> Unset]), "media_id", 0)

ClickHash(line) == Parse(ClickInfoEx, ClickExMessage(line))["click_hash"]
RefererHash(line) == Parse(ClickInfoEx, ClickExMessage(line))["user_info"]["referer"]

\* The rows a hash from a query leads to.
RowsOf(hash, type, text) ==
  CASE hash = ""  -> <<>>
    [] hash = cut -> << Fragment("c"), Row("ut", type, text) >>
    [] OTHER      -> << Row(hash, type, text) >>

ClickRows(line) ==
  IF MediaId(line) = OwnMedia THEN RowsOf(RefererHash(line), "HOP", MediaId(line))
                              ELSE << Row(ClickHash(line), "CLICK", MediaId(line)) >>

-----------------------------------------------------------------------------
\* A plausible bug: a line feed that was missing once is missing for ever.
PrintRowsStaysGlued(rows, ended) ==
  LET whole == IF glued /\ rows # <<>> THEN Tail(rows) ELSE rows
  IN  /\ called' = called (+) SetToBag(ToSet(rows))
      /\ printed' = printed (+) SetToBag(ToSet(whole))
      /\ glued' = (glued \/ (rows # <<>> /\ ~ended))

\* print: the first row runs into a row that has no line feed, and is lost
\* to the reducer with everything up to its own.
PrintRows(rows, ended) ==
  LET whole == IF glued /\ rows # <<>> THEN Tail(rows) ELSE rows
  IN  /\ called' = called (+) SetToBag(ToSet(rows))
      /\ printed' = printed (+) SetToBag(ToSet(whole))
      /\ glued' = IF rows = <<>> THEN glued ELSE ~ended

MapClick ==
  /\ phase = "clicks" /\ read < MaxLines
  /\ read' = read + 1
  /\ \E line \in ClickLines :
       /\ PrintRows(ClickRows(line), line.ended)
       /\ unended' = unended + IF line.ended THEN 0 ELSE 1
  /\ UNCHANGED <<phase, died, rest, group, reported, message>>

\* A line that cannot be decoded, in either log: the handler of the click log
\* calls traceback, which is not imported, and the other log has no handler.
\* The mapper ends; what it has printed goes on to `sort`.
MapFails ==
  /\ phase \in {"clicks", "tracs"} /\ read < MaxLines
  /\ died' = TRUE
  /\ phase' = "sorted"
  /\ rest' = printed
  /\ UNCHANGED <<read, glued, unended, called, printed, group, reported, message>>

EndClicks ==
  /\ phase = "clicks"
  /\ phase' = "tracs" /\ read' = 0
  /\ UNCHANGED <<died, glued, unended, called, printed, rest, group, reported, message>>

\* A line of the tracker's log: one that is skipped has no hash here.
MapTrac ==
  /\ phase = "tracs" /\ read < MaxLines
  /\ read' = read + 1
  /\ \E hash \in Hashes \cup {"", cut} :
       LET trac == Parse(UserTrac, Serialize(UserTrac, Only(UserTrac, "click_hash", hash)))
       IN  PrintRows(RowsOf(trac["click_hash"], "TRAC", 0), TRUE)
  /\ UNCHANGED <<phase, died, unended, rest, group, reported, message>>

Sort ==
  /\ phase = "tracs"
  /\ phase' = "sorted"
  /\ rest' = printed
  /\ UNCHANGED <<read, died, glued, unended, called, printed, group, reported, message>>

-----------------------------------------------------------------------------
\* do_reduce: of clicks that share a hash the last one counts.
Reports(g) ==
  IF g.clicks = <<>> THEN {}
  ELSE {[key |-> g.key, media |-> Last(g.clicks), tracs |-> g.tracs, hops |-> g.hops]}

\* A plausible bug: a list that is not emptied.
TurnKeepsHops(key) == IF group.key = key THEN group ELSE [NoGroup EXCEPT !.key = key, !.hops = group.hops]

\* A plausible bug: a row of the same key falls through to the hops as well.
TurnCountsTwice(key) == IF group.key = key THEN [group EXCEPT !.hops = @ + 1] ELSE [NoGroup EXCEPT !.key = key]

\* A new key hands over the group that ends and starts an empty one.
Turn(key) == IF group.key = key THEN group ELSE [NoGroup EXCEPT !.key = key]

Flushed(key) == IF group.key \in {key, ""} THEN {} ELSE Reports(group)

\* The next row of the sorted input: one of the same key while there is one.
Upcoming ==
  LET same == {r \in DOMAIN rest : r.key = group.key}
  IN  IF same # {} THEN same ELSE DOMAIN rest

Reduce ==
  /\ phase = "sorted"
  /\ \E r \in Upcoming :
       LET g == Turn(r.key)
       IN  /\ rest' = rest (-) SetToBag({r})
           /\ reported' = reported \cup Flushed(r.key)
           /\ phase' = IF r.fields < 2 THEN "broken" ELSE phase        \* row[1]
           /\ group' = CASE r.type = "CLICK" -> [g EXCEPT !.clicks = Append(@, r.text)]
                         [] r.type = "TRAC"  -> [g EXCEPT !.tracs = @ + 1]
                         [] r.type = "HOP"   -> [g EXCEPT !.hops = @ + 1]
                         [] OTHER            -> g
  /\ UNCHANGED <<read, died, glued, unended, called, printed, message>>

Finish ==
  /\ phase = "sorted" /\ rest = EmptyBag
  /\ phase' = "done"
  /\ reported' = reported \cup Flushed("")
  /\ group' = NoGroup
  /\ UNCHANGED <<read, died, glued, unended, called, printed, rest, message>>

-----------------------------------------------------------------------------
\* A plausible bug: decode_click_ex, made from decode_click, keeps its class.
DecodeCopied ==
  /\ phase = "decoding"
  /\ phase' = "decoded"
  /\ \E class \in {RenderInfo, ClickInfo, ClickInfoEx, UserTrac} : \E m \in Samples(class) :
       message' = [encoded |-> m,
                   decoded |-> Parse(IF class = ClickInfoEx THEN ClickInfo ELSE class,
                                     Serialize(class, m))]
  /\ UNCHANGED pipe

\* log_decoder.py as a program, and the decoders wherever they are called:
\* decode_pv, decode_click, decode_click_ex, from_base64.
Decode ==
  /\ phase = "decoding"
  /\ phase' = "decoded"
  /\ \E class \in {RenderInfo, ClickInfo, ClickInfoEx, UserTrac} : \E m \in Samples(class) :
       message' = [encoded |-> m, decoded |-> Parse(class, Serialize(class, m))]
  /\ UNCHANGED pipe

Next == Decode \/ MapClick \/ MapFails \/ EndClicks \/ MapTrac \/ Sort \/ Reduce \/ Finish

Spec == Init /\ [][Next]_vars

-----------------------------------------------------------------------------
\* The types of the pipeline's state.
TypeOK ==
  /\ phase \in {"clicks", "tracs", "sorted", "done", "broken", "decoding", "decoded"}
  /\ read \in 0..MaxLines /\ unended \in 0..MaxLines
  /\ {died, glued} \subseteq BOOLEAN
  /\ IsABag(called) /\ IsABag(printed) /\ IsABag(rest)
  /\ rest \sqsubseteq printed
  /\ group.tracs + group.hops + Len(group.clicks) <= BagCardinality(printed)

Count(key, type) ==
  BagCardinality([r \in {r \in DOMAIN printed : r.key = key /\ r.type = type} |-> printed[r]])

Clicked == {r.key : r \in {x \in DOMAIN printed : x.type = "CLICK"}}

\* When the reducer ends, every hash that was clicked, also when its rows came
\* first or last, is reported once, for a media it was clicked on, with all the
\* tracks and hops printed for it and none of another hash.
ReportIsExact ==
  phase = "done" =>
    /\ \A r \in reported :
         /\ r.tracs = Count(r.key, "TRAC") /\ r.hops = Count(r.key, "HOP")
         /\ Row(r.key, "CLICK", r.media) \in DOMAIN printed
    /\ {r.key : r \in reported} = Clicked
    /\ Cardinality(reported) = Cardinality(Clicked)

\* A row that a line called for is missing only if a line had no line feed, and
\* each such line costs one row at most; if the mapper does not raise, all the
\* others reach the reducer.
LossHasCause ==
  /\ printed \sqsubseteq called
  /\ BagCardinality(called) - BagCardinality(printed) <= unended

\* A decoder gives back what was encoded, field for field, through every level
\* of nested and repeated messages.
DecodedAsEncoded == phase = "decoded" => message.decoded = message.encoded
=============================================================================
