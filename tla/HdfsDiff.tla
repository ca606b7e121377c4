------------------------------ MODULE HdfsDiff ------------------------------
(***************************************************************************)
(* The comparison of a directory in two clusters (hadoop/diff.py): both    *)
(* trees are listed by "hadoop fs -ls", directory by directory, and then   *)
(* walked side by side with a position in each of the two lists.           *)
(*                                                                         *)
(* A path is a sequence of names, which are numbers so that they have an   *)
(* order; a tree is a function from its paths to [file, length].           *)
(***************************************************************************)
EXTENDS Integers, Sequences, SequencesExt, FiniteSets

CONSTANTS
  Trees,         \* the trees that a cluster may hold
  MaxLost        \* bound on the listings that fail

Sides == {"src", "dst"}
Parent(p) == SubSeq(p, 1, Len(p) - 1)

\* What the constants are; the module that gives them values assumes it.
HdfsDiffAssumption ==
  /\ MaxLost \in Nat
  /\ \A t \in Trees :
       /\ IsFiniteSet(DOMAIN t)
       /\ \A p \in DOMAIN t :
            /\ p \in Seq(Int)
            /\ Len(p) > 1 => (Parent(p) \in DOMAIN t /\ ~t[Parent(p)].file)

VARIABLES
  tree,          \* side -> its tree
  listed,        \* side -> the paths that were seen in a listing
  todo,          \* the listings still to do: <<side, directory>>
  lost,          \* listings that failed
  frames,        \* of diff_path, the innermost first: directory, item, pos, inner
  over,          \* "" until diff_hdfs ends: "done", or "IndexError"
  out            \* the lines printed

diffVars == <<tree, listed, todo, lost, frames, over, out>>

Root == <<>>
Below(paths, d) == {p \in paths : p # Root /\ Parent(p) = d}

\* The list of a directory, in the order of the paths.
InOrder(items) ==
  CHOOSE list \in [1..Cardinality(items) -> items] :
    \A i, j \in DOMAIN list : i < j => Last(list[i]) < Last(list[j])
Subdir(side, d) == InOrder(Below(listed[side], d))

Init ==
  /\ tree \in [Sides -> Trees]
  /\ listed = [s \in Sides |-> {}] /\ todo = <<<<"src", Root>>, <<"dst", Root>>>>
  /\ lost = 0
  /\ frames = <<[dir |-> Root, item |-> 1, pos |-> 0, inner |-> FALSE]>>
  /\ over = "" /\ out = <<>>

\* ls_hdfs of one directory: what it shows, and the directories in it next.
List ==
  /\ todo # <<>>
  /\ LET side == Head(todo)[1]
         shown == Below(DOMAIN tree[side], Head(todo)[2])
         dirs == {p \in shown : ~tree[side][p].file}
     IN  /\ listed' = [listed EXCEPT ![side] = @ \cup shown]
         /\ todo' = SetToSeq({<<side, p>> : p \in dirs}) \o Tail(todo)
  /\ UNCHANGED <<tree, lost, frames, over, out>>

\* A command that fails prints nothing, and the directory counts as empty.
ListFails ==
  /\ todo # <<>> /\ lost < MaxLost
  /\ lost' = lost + 1 /\ todo' = Tail(todo)
  /\ UNCHANGED <<tree, listed, frames, over, out>>

-----------------------------------------------------------------------------
Running == todo = <<>> /\ over = ""
Frame == Head(frames)
Src == Subdir("src", Frame.dir)
Dst == Subdir("dst", Frame.dir)
HasItem == Frame.item <= Len(Src)
Item == Src[Frame.item]
Other == Dst[Frame.pos + 1]

Set(frame) == frames' = <<frame>> \o Tail(frames)
Say(verdict, p) == out' = Append(out, <<verdict, p>>)
Rest == UNCHANGED <<tree, listed, todo, lost>>

NextItem(f) == [f EXCEPT !.item = @ + 1, !.inner = FALSE]

\* A plausible bug: a list that was just used up is not noticed.
PastDstLate ==
  /\ Running /\ frames # <<>> /\ HasItem /\ ~Frame.inner
  /\ IF Len(Dst) < Frame.pos \/ Dst = <<>> THEN Say("only in src", Item) /\ Set(NextItem(Frame))
     ELSE Set([Frame EXCEPT !.inner = TRUE]) /\ UNCHANGED out
  /\ UNCHANGED over /\ Rest

\* dst is used up: the item is only in src.
PastDst ==
  /\ Running /\ frames # <<>> /\ HasItem /\ ~Frame.inner
  /\ IF Len(Dst) <= Frame.pos THEN Say("only in src", Item) /\ Set(NextItem(Frame))
     ELSE Set([Frame EXCEPT !.inner = TRUE]) /\ UNCHANGED out
  /\ UNCHANGED over /\ Rest

Inner == Running /\ frames # <<>> /\ HasItem /\ Frame.inner

\* while len(dst.subdir) >= pos lets pos be the length.
PastEnd ==
  /\ Inner /\ Frame.pos = Len(Dst)
  /\ over' = "IndexError"
  /\ UNCHANGED <<frames, out>> /\ Rest

\* A plausible bug: the position in dst stays at what was matched.
SamePosStays ==
  /\ Inner /\ Frame.pos < Len(Dst) /\ Item = Other
  /\ LET s == tree["src"][Item]
         d == tree["dst"][Item]
         next == NextItem(Frame)
     IN  IF s.file /\ d.file
         THEN /\ Say(IF s.length = d.length THEN "file match" ELSE "file size not match", Item)
              /\ Set(next)
         ELSE /\ frames' = <<[dir |-> Item, item |-> 1, pos |-> 0, inner |-> FALSE], next>> \o Tail(frames)
              /\ UNCHANGED out
  /\ UNCHANGED over /\ Rest

\* The same path: two files are compared, anything else is walked.
Same ==
  /\ Inner /\ Frame.pos < Len(Dst) /\ Item = Other
  /\ LET s == tree["src"][Item]
         d == tree["dst"][Item]
         next == [NextItem(Frame) EXCEPT !.pos = @ + 1]
     IN  IF s.file /\ d.file
         THEN /\ Say(IF s.length = d.length THEN "file match" ELSE "file size not match", Item)
              /\ Set(next)
         ELSE /\ frames' = <<[dir |-> Item, item |-> 1, pos |-> 0, inner |-> FALSE], next>> \o Tail(frames)
              /\ UNCHANGED out
  /\ UNCHANGED over /\ Rest

OnlyInSrc ==
  /\ Inner /\ Frame.pos < Len(Dst) /\ Last(Item) < Last(Other)
  /\ Say("only in src", Item) /\ Set(NextItem(Frame))
  /\ UNCHANGED over /\ Rest

SkipDst == Say("only in dst", Other) /\ Set([Frame EXCEPT !.pos = @ + 1]) /\ UNCHANGED over /\ Rest

OnlyInDst == Inner /\ Frame.pos < Len(Dst) /\ Last(Item) > Last(Other) /\ SkipDst

\* The loop after the items, and the return to the directory above.
LeftInDst == Running /\ frames # <<>> /\ ~HasItem /\ Frame.pos < Len(Dst) /\ SkipDst

Return ==
  /\ Running /\ frames # <<>> /\ ~HasItem /\ Frame.pos = Len(Dst)
  /\ frames' = Tail(frames) /\ over' = (IF Tail(frames) = <<>> THEN "done" ELSE "")
  /\ UNCHANGED out /\ Rest

Next ==
  \/ List \/ ListFails
  \/ PastDst \/ PastEnd \/ Same \/ OnlyInSrc \/ OnlyInDst \/ LeftInDst \/ Return

Spec == Init /\ [][Next]_diffVars

TypeOK ==
  /\ tree \in [Sides -> Trees] /\ over \in {"", "done", "IndexError"}
  /\ \A s \in Sides : listed[s] \subseteq DOMAIN tree[s]
  /\ lost \in 0..MaxLost
  /\ \A i \in DOMAIN frames : frames[i].pos \in Nat /\ frames[i].item \in Nat

-----------------------------------------------------------------------------
\* What is to be said of a path, when the directories above it are in both
\* listings: in which it is, and of two files whether they are as long.
Above(p) == {SubSeq(p, 1, n) : n \in 1..Len(p) - 1}
Met == {p \in listed["src"] \cup listed["dst"] : Above(p) \subseteq listed["src"] \cap listed["dst"]}
Verdict(p) ==
  IF p \notin listed["dst"] THEN {"only in src"}
  ELSE IF p \notin listed["src"] THEN {"only in dst"}
  ELSE IF tree["src"][p].file /\ tree["dst"][p].file
       THEN {IF tree["src"][p].length = tree["dst"][p].length THEN "file match" ELSE "file size not match"}
       ELSE {}

\* A comparison that ends by itself has said of every path what is to be said
\* of it, once, and nothing else; one that is cut off has said nothing wrong.
ReportIsExact ==
  /\ \A i, j \in DOMAIN out : i # j => out[i] # out[j]
  /\ ToSet(out) \subseteq UNION {Verdict(p) \X {p} : p \in Met}
  /\ over = "done" => ToSet(out) = UNION {Verdict(p) \X {p} : p \in Met}

\* The walk is cut off in no other case than this: the item comes after all
\* of the directory in dst, and the last of those is not in src.
CutOffBehindDst ==
  over = "IndexError" =>
    /\ Dst # <<>> /\ Last(Item) > Last(Last(Dst))
    /\ Last(Dst) \notin listed["src"]
=============================================================================
