---------------------------- MODULE ModelTraining ----------------------------
(***************************************************************************)
(* Training a model of model/feature.py: the samples are written to a data *)
(* file, turned into the input of a command by the functions of            *)
(* model/regression.py and model/glm.py, and the weights that the command  *)
(* wrote are read back as the coefficients of the features.  All of it     *)
(* goes through files with fixed names, which outlive a training.          *)
(*                                                                         *)
(* Weights are not computed: a weight stands for the column of the input   *)
(* it was fitted to, and so says which samples and feature it belongs to.  *)
(* A value of a column is a tuple, <<>> where liblinear is given none.     *)
(* The result of a sample is counted in halves, 0..One.                    *)
(***************************************************************************)
EXTENDS Integers, Sequences, FiniteSets, SequencesExt, FiniteSetsExt, TLC

CONSTANTS
  Kinds,         \* the models that train: of "lg", "noweight", "svd", "old"
  SampleLists,   \* the signallst of a training: sequences of [y, sig]
  Parts,         \* a feature -> the features its name joins with '&', or itself
  Base,          \* ten: a number below it has one digit
  MaxNegatives,  \* bound on the values of U * S that are not positive
  MaxTrainings,  \* bound on the trainings
  None

One == 2
Kind == {"lg", "noweight", "svd", "old"}

\* What the constants are; the module that gives them values assumes it.  No
\* feature has the name of the result's column or of the intercept.
ModelTrainingAssumption ==
  /\ Kinds \subseteq Kind /\ Base \in Nat \ {0, 1} /\ MaxNegatives \in Nat /\ MaxTrainings \in Nat
  /\ IsFiniteSet(DOMAIN Parts) /\ {"result", "(Intercept)"} \cap DOMAIN Parts = {}
  /\ \A f \in DOMAIN Parts : Parts[f] \subseteq DOMAIN Parts
  /\ \A l \in SampleLists : /\ Len(l) \in Nat /\ DOMAIN l = 1..Len(l)
                           /\ \A i \in DOMAIN l : l[i].y \in 0..One /\ DOMAIN l[i].sig \subseteq DOMAIN Parts

Files == {"pname", "data", "svdin", "svdout", "libin", "model", "coef"}

VARIABLES
  kind,          \* which model it is, whose name is part of its files' names
  pc,            \* where the training is
  task,          \* its [samples, fresh], fresh being FLAGS.new_signal
  disk,          \* Files -> what the file holds, None if there is no such file
  r2p,           \* the names of input_0, input_1, ...
  coef,          \* self.coef
  lost,          \* a command of this training failed
  trainings

vars == <<kind, pc, task, disk, r2p, coef, lost, trainings>>

Features == DOMAIN Parts

\* What dump_signallst makes of the samples: every column that one of them
\* has, in an order of the set's own (two opposite ones stand for it), a
\* missing value being 0.
Used(samples) == UNION {DOMAIN samples[i].sig : i \in DOMAIN samples}
Orders(S) == {SetToSeq(S), Reverse(SetToSeq(S))}
Value(sig, f) == IF f \in DOMAIN sig THEN sig[f] ELSE 0
Rows(samples, cols) ==
  [i \in DOMAIN samples |->
     [x |-> [j \in DOMAIN cols |-> Value(samples[i].sig, cols[j])], y |-> samples[i].y]]

-----------------------------------------------------------------------------
\* A plausible bug: nothing tells the command which label is the first.
LgLinesBare(rows) ==
  FlattenSeq([i \in DOMAIN rows |->
    LET Row(label, weight) == [label |-> label, weight |-> weight, x |-> rows[i].x]
    IN  IF rows[i].y = 0 THEN <<Row(0, One)>>
        ELSE <<Row(1, rows[i].y)>>
               \o (IF rows[i].y < One THEN <<Row(0, One - rows[i].y)>> ELSE <<>>)])

\* gen_lg_input_file: a first line of no weight with label 1, then each row
\* as a positive and a negative sample, weighted by its result.
LgLines(rows) ==
  <<[label |-> 1, weight |-> 0, x |-> <<>>]>> \o
  FlattenSeq([i \in DOMAIN rows |->
    LET Row(label, weight) == [label |-> label, weight |-> weight, x |-> rows[i].x]
    IN  IF rows[i].y = 0 THEN <<Row(0, One)>>
        ELSE <<Row(1, rows[i].y)>>
               \o (IF rows[i].y < One THEN <<Row(0, One - rows[i].y)>> ELSE <<>>)])

\* gen_multi_lg_input_file: a line per row, its result cut to an integer.
MultiLines(rows) ==
  [i \in DOMAIN rows |-> [label |-> rows[i].y \div One, weight |-> One, x |-> rows[i].x]]

\* float(rowlist[j]) > 0: other values are not written.
Positive(row) == [row EXCEPT !.x = [j \in DOMAIN row.x |-> IF row.x[j] > 0 THEN <<1>> ELSE <<>>]]

\* liblinear -B 1: weights for the columns up to the last one that has a
\* value, and for a column of ones; they favour the label of the first line.
Column(lines, j) ==
  [n \in DOMAIN lines |->
     <<lines[n].label, lines[n].weight, IF j \in DOMAIN lines[n].x THEN lines[n].x[j] ELSE <<>>>>]
Ones(lines) == [n \in DOMAIN lines |-> <<lines[n].label, lines[n].weight, <<1>>>>]
Width(lines) ==
  Max({0} \cup UNION {{j \in DOMAIN lines[n].x : lines[n].x[j] # <<>>} : n \in DOMAIN lines})

Fit(lines) ==
  [first |-> Head(lines).label,
   w |-> Append([j \in 1..Width(lines) |-> Column(lines, j)], Ones(lines))]

-----------------------------------------------------------------------------
\* gen_svd_input: the non-zero places of the data, by row and column.
SvdInput(data) ==
  [rows |-> Len(data.rows), cols |-> Len(data.cols),
   nonzero |-> UNION {{<<i, j>> : j \in {j \in DOMAIN data.cols : data.rows[i].x[j] # 0}} :
                        i \in DOMAIN data.rows}]

\* What the svd command makes of a matrix, cut by run_svd to the components
\* with a value: its rank, and the values of U, by component and row, that are
\* not positive (those of S are).  Which ones these are is left open.
Ranks(m) == 0..Min({m.rows, m.cols, Cardinality(m.nonzero)})
Negatives(rank, rows) ==
  LET Places == (0..rank - 1) \X (1..rows)
  IN  {{p[n] : n \in 1..MaxNegatives} \ {<<>>} : p \in [1..MaxNegatives -> Places \cup {<<>>}]}

\* sort -n of the lines "j i value" of transfer_disk: by the number j, and
\* then by the text of the line, in which 10 is before 2.
Digits(k) == IF k < Base THEN <<k>> ELSE <<k \div Base, k % Base>>
TextBefore(k, l) ==
  LET a == Digits(k)
      b == Digits(l)
  IN  \/ a[1] < b[1]
      \/ a[1] = b[1] /\ Len(a) < Len(b)
      \/ a[1] = b[1] /\ Len(a) = 2 /\ Len(b) = 2 /\ a[2] < b[2]

\* A plausible bug: transfer_disk sorts downwards.
TransposedDownwards(rank) ==
  CHOOSE order \in [1..rank -> 0..rank - 1] :
    \A i, j \in 1..rank : i < j => TextBefore(order[j], order[i])

\* The components in the order in which a row of the transposed U has them.
Transposed(rank) ==
  CHOOSE order \in [1..rank -> 0..rank - 1] :
    \A i, j \in 1..rank : i < j => TextBefore(order[i], order[j])

\* A plausible bug: the header of S is taken for its first value.
SvdRowsHeader(out, ys) ==
  LET order == Transposed(out.rank)
  IN  [i \in 1..(IF out.rank = 0 THEN 0 ELSE out.of.rows) |->
         [x |-> [k \in 1..out.rank |->
                   IF <<order[k], i>> \in out.negative THEN <<>> ELSE <<out.of, order[k], i, k - 2>>],
          y |-> ys[i]]]

\* gen_lg_xinput_file_new: the rows of U * S, a value being the component and
\* sample of U and the component of S it was multiplied with, of which those
\* that are not positive are not written.  Without a component there is nothing
\* in the file.
SvdRows(out, ys) ==
  LET order == Transposed(out.rank)
  IN  [i \in 1..(IF out.rank = 0 THEN 0 ELSE out.of.rows) |->
         [x |-> [k \in 1..out.rank |->
                   IF <<order[k], i>> \in out.negative THEN <<>> ELSE <<out.of, order[k], i, k - 1>>],
          y |-> ys[i]]]

-----------------------------------------------------------------------------
Init ==
  /\ kind \in Kinds
  /\ pc = "idle" /\ task = [samples |-> <<>>, fresh |-> TRUE]
  /\ disk = [f \in Files |-> None]
  /\ r2p = <<>> /\ coef = <<>> /\ lost = FALSE /\ trainings = 0

Fail == pc' = "failed" /\ UNCHANGED <<disk, r2p, coef>>
Kept == UNCHANGED <<kind, task, trainings>>

\* train(signallst): _feed.  Of an "old" model, _bayes_select keeps some of
\* the features, here any.
Train ==
  /\ pc \in {"idle", "done", "failed"} /\ trainings < MaxTrainings
  /\ trainings' = trainings + 1 /\ lost' = FALSE
  /\ pc' = "names"
  /\ \E samples \in SampleLists, fresh \in BOOLEAN :
       IF kind = "old"
       THEN /\ fresh
            /\ \E kept \in SUBSET Used(samples) :
                 task' = [fresh |-> TRUE,
                          samples |-> [i \in DOMAIN samples |->
                            [y |-> samples[i].y,
                             sig |-> [f \in kept \cap DOMAIN samples[i].sig |-> samples[i].sig[f]]]]]
       ELSE task' = [samples |-> samples, fresh |-> fresh]
  /\ UNCHANGED <<kind, disk, r2p, coef>>

\* A plausible bug: the names count from one, as the lines of the file do.
NamesFromOne(cols) == <<"result">> \o cols

\* r2p of dump_signallst: the result is the last of the columns.
Names(cols) == Append(cols, "result")

Columns == Front(r2p)

\* dump_signallst up to its early return.  Without samples there is no
\* 'result' to remove.  The file of the names is opened, which empties it, and
\* is written when dump_signallst returns and drops it.
DumpNames ==
  /\ pc = "names" /\ task.fresh
  /\ IF task.samples = <<>> THEN Fail
     ELSE /\ disk' = [disk EXCEPT !["pname"] = <<>>]
          /\ \E cols \in Orders(Used(task.samples)) : r2p' = Names(cols)
          /\ pc' = IF Used(task.samples) = {} THEN "input" ELSE "data"
          /\ UNCHANGED coef
  /\ UNCHANGED lost /\ Kept

\* _load_pname: the samples are those of the data file.
LoadNames ==
  /\ pc = "names" /\ ~task.fresh
  /\ IF disk["pname"] = None THEN Fail
     ELSE r2p' = disk["pname"] /\ pc' = "input" /\ UNCHANGED <<disk, coef>>
  /\ UNCHANGED lost /\ Kept

DumpData ==
  /\ pc = "data"
  /\ disk' = [disk EXCEPT !["data"] = [cols |-> Columns, rows |-> Rows(task.samples, Columns)]]
  /\ pc' = "return"
  /\ UNCHANGED <<r2p, coef, lost>> /\ Kept

WriteNames ==
  /\ pc = "return"
  /\ disk' = [disk EXCEPT !["pname"] = Columns]
  /\ pc' = "input"
  /\ UNCHANGED <<r2p, coef, lost>> /\ Kept

\* A plausible bug: the coefficient file of the last training stays.
WithoutCoefKeeps(d) == d

\* rm of the coefficient file in glm_train.
WithoutCoef(d) == [d EXCEPT !["coef"] = None]

Lines(rows) == IF kind = "noweight" THEN MultiLines(rows) ELSE LgLines(rows)

\* gen_x_y_file and gen_lg_input_file, or gen_svd_input.
MakeInput ==
  /\ pc = "input"
  /\ IF kind # "old" /\ disk["data"] = None THEN Fail
     ELSE /\ CASE kind = "svd" ->
                    disk' = [disk EXCEPT !["svdin"] = SvdInput(disk["data"])] /\ pc' = "svd"
               [] kind = "old" ->
                    disk' = WithoutCoef(disk) /\ pc' = "glm"
               [] OTHER ->
                    /\ disk' = [disk EXCEPT !["libin"] =
                                 Lines([i \in DOMAIN disk["data"].rows |->
                                                     Positive(disk["data"].rows[i])])]
                    /\ pc' = "train"
          /\ UNCHANGED <<r2p, coef>>
  /\ UNCHANGED lost /\ Kept

\* The svd command, or its failure, of which os.system's caller takes no note.
Svd ==
  /\ pc = "svd" /\ pc' = "usv"
  /\ \/ /\ \E rank \in Ranks(disk["svdin"]) : \E negative \in Negatives(rank, disk["svdin"].rows) :
             disk' = [disk EXCEPT !["svdout"] =
                        [of |-> disk["svdin"], rank |-> rank, negative |-> negative]]
        /\ UNCHANGED lost
     \/ lost' = TRUE /\ UNCHANGED disk
  /\ UNCHANGED <<r2p, coef>> /\ Kept

\* run_svd's second half, gen_lg_xinput_file_new and gen_lg_input_file.  More
\* rows than results are an IndexError.
MakeSvdInput ==
  /\ pc = "usv"
  /\ IF disk["svdout"] = None \/ disk["svdout"].of.rows > Len(disk["data"].rows) THEN Fail
     ELSE /\ disk' = [disk EXCEPT !["libin"] =
                        LgLines(SvdRows(disk["svdout"],
                                        [i \in DOMAIN disk["data"].rows |-> disk["data"].rows[i].y]))]
          /\ pc' = "train"
          /\ UNCHANGED <<r2p, coef>>
  /\ UNCHANGED lost /\ Kept

\* run_lg_train: the model file is not removed first.
LgTrain ==
  /\ pc = "train" /\ pc' = "calc"
  /\ \/ disk' = [disk EXCEPT !["model"] = Fit(disk["libin"])] /\ UNCHANGED lost
     \/ lost' = TRUE /\ UNCHANGED disk
  /\ UNCHANGED <<r2p, coef>> /\ Kept

Term(v, a) == [v |-> v, a |-> a]

\* calc_lg_coef: the last weight is the intercept's.  calc_lg_coef_new: the
\* weight of a feature adds up those of the components.
LgCoefs(w) ==
  [inputs |-> [i \in 1..Len(w) - 1 |-> {Term(<<>>, w[i])}], intercept |-> Last(w)]

SvdCoefs(out, w) ==
  [inputs |-> [i \in 1..out.of.cols |->
                 {Term(<<out.of, k - 1, i>>, w[k]) : k \in 1..out.rank}],
   intercept |-> Last(w)]

CalcCoefs ==
  /\ pc = "calc"
  /\ IF \/ disk["model"] = None
        \/ kind = "svd" /\ Len(disk["model"].w) - 1 # disk["svdout"].rank
     THEN Fail
     ELSE /\ disk' = [disk EXCEPT !["coef"] =
                        IF kind = "svd" THEN SvdCoefs(disk["svdout"], disk["model"].w)
                        ELSE LgCoefs(disk["model"].w)]
          /\ pc' = "parse"
          /\ UNCHANGED <<r2p, coef>>
  /\ UNCHANGED lost /\ Kept

\* _parse_coef: a name that r2p does not have stays what it is.
Name(i) == IF i \in DOMAIN r2p THEN r2p[i] ELSE "input_" \o ToString(i - 1)
Parsed(c) ==
  [n \in {Name(i) : i \in DOMAIN c.inputs} \cup {"(Intercept)"} |->
     IF n = "(Intercept)" THEN {Term(<<>>, c.intercept)}
     ELSE c.inputs[Max({i \in DOMAIN c.inputs : Name(i) = n})]]

ParseCoef ==
  /\ pc = "parse" /\ pc' = "done"
  /\ coef' = Parsed(disk["coef"])
  /\ UNCHANGED <<disk, r2p, lost>> /\ Kept

\* A column as R takes it from the data file.
GlmColumn(data, j) == [n \in DOMAIN data.rows |-> <<data.rows[n].y, One, <<data.rows[n].x[j]>>>>]

\* The R script of glm_train, which fits the columns as they are, and the
\* reading of what it wrote.
Glm ==
  /\ pc = "glm"
  /\ \/ /\ Used(task.samples) # {}
        /\ disk' = [disk EXCEPT !["coef"] =
                      [inputs |-> [j \in DOMAIN disk["data"].cols |-> {Term(<<>>, GlmColumn(disk["data"], j))}],
                       intercept |-> <<>>]]
        /\ coef' = Parsed(disk'["coef"]) /\ pc' = "done"
        /\ UNCHANGED <<lost, r2p>>
     \/ /\ lost' = TRUE
        /\ IF disk["coef"] = None THEN Fail
           ELSE coef' = Parsed(disk["coef"]) /\ pc' = "done" /\ UNCHANGED <<disk, r2p>>
  /\ Kept

\* The process is killed, and another one trains.
Crash ==
  /\ pc \notin {"idle", "done", "failed"}
  /\ pc' = "idle" /\ r2p' = <<>> /\ coef' = <<>>
  /\ UNCHANGED <<disk, lost>> /\ Kept

Next ==
  \/ Train \/ DumpNames \/ LoadNames \/ DumpData \/ WriteNames \/ MakeInput \/ Svd \/ MakeSvdInput
  \/ LgTrain \/ CalcCoefs \/ ParseCoef \/ Glm \/ Crash

Spec == Init /\ [][Next]_vars

-----------------------------------------------------------------------------
Trained == pc = "done" /\ task.fresh /\ ~lost /\ Used(task.samples) # {}

TypeOK ==
  /\ kind \in Kinds
  /\ pc \in {"idle", "names", "data", "return", "input", "svd", "usv", "train", "calc", "parse", "glm",
             "done", "failed"}
  /\ task.fresh \in BOOLEAN /\ lost \in BOOLEAN /\ trainings \in 0..MaxTrainings
  /\ r2p \in Seq(Features \cup {"result"})
  /\ DOMAIN disk = Files
  /\ coef # <<>> => "(Intercept)" \in DOMAIN coef

\* What a sample should add to a column, given its value there: its result
\* speaks for the feature, what is missing to one against it.
Share(y, value) ==
  (IF y > 0 THEN <<<<1, y, value>>>> ELSE <<>>)
    \o (IF y < One THEN <<<<0, One - y, value>>>> ELSE <<>>)
Shares(value) == FlattenSeq([i \in DOMAIN task.samples |-> Share(task.samples[i].y, value[i])])

\* After a training whose commands worked, whatever earlier ones left on the
\* disk, and wherever one was killed, the weight of a feature was fitted to
\* that feature's values in these samples and these results, in the order of
\* the samples; and a feature that a sample has has a weight.
WeightOfFeature ==
  (Trained /\ kind = "lg") =>
    LET Has(f, i) == Value(task.samples[i].sig, f) > 0
        positive  == {f \in Features : \E i \in DOMAIN task.samples : Has(f, i)}
    IN  /\ positive \subseteq DOMAIN coef
        /\ \A f \in Features \cap DOMAIN coef : \E t \in coef[f] :
             /\ coef[f] = {t}
             /\ Tail(t.a) = Shares([i \in DOMAIN task.samples |-> IF Has(f, i) THEN <<1>> ELSE <<>>])

\* With at most Base components (sort -n puts 10 before 2), the weights of the components that are
\* added up for a feature are those of the components in V's rows, and were
\* fitted to the same component of U and of S, sample by sample: to the value
\* of each sample, or to none where that is not positive.
ComponentsMatch ==
  (Trained /\ kind = "svd" /\ disk["svdout"].rank <= Base) =>
    /\ Used(task.samples) \subseteq DOMAIN coef
    /\ \A f \in Features \cap DOMAIN coef : \A t \in coef[f] :
         LET k == t.v[2]
         IN  /\ r2p[t.v[3]] = f
             /\ Tail(t.a) = Shares([i \in DOMAIN task.samples |->
                  IF <<k, i>> \in disk["svdout"].negative THEN <<>> ELSE <<t.v[1], k, i, k>>])

\* liblinear's weights favour the label that it meets first: that is 1, so
\* that a feature of good results has a positive weight.
FavoursGoodResults ==
  (pc = "calc" /\ kind \in {"lg", "svd"} /\ ~lost) => disk["model"].first = 1

\* glm_train never takes the coefficients of an earlier training for its own.
GlmIsFresh ==
  (pc = "done" /\ kind = "old") =>
    \A f \in DOMAIN coef \ {"(Intercept)"} : \A t \in coef[f] :
      t.a = [i \in DOMAIN task.samples |->
               <<task.samples[i].y, One, <<Value(task.samples[i].sig, f)>>>>]

\* A plausible bug: one part of a joint feature is enough.
TermsOfAnyPart(sig) ==
  LET known == DOMAIN sig \cap DOMAIN coef
  IN  {<<f, sig[f]>> : f \in known}
        \cup {<<f, 1>> : f \in {f \in (Features \cap DOMAIN coef) \ known :
                                  \E p \in Parts[f] : p \in known /\ sig[p] = 1}}

\* estimate and estimate_with_detail: the terms that they add up.
Terms(sig) ==
  LET known == DOMAIN sig \cap DOMAIN coef
  IN  {<<f, sig[f]>> : f \in known}
        \cup {<<f, 1>> : f \in {f \in (Features \cap DOMAIN coef) \ known :
                                  \A p \in Parts[f] : p \in known /\ sig[p] = 1}}
TermsOfDetail(sig) == {<<f, sig[f]>> : f \in DOMAIN sig \cap DOMAIN coef}

\* They agree on every signal that has a joint feature when it has its parts.
EstimatesAgree ==
  pc = "done" =>
    \A S \in SUBSET Features : \A sig \in [S -> {1, 2}] :
      (\A f \in Features : (Parts[f] # {f} /\ \A p \in Parts[f] : p \in S) => f \in S)
        => Terms(sig) = TermsOfDetail(sig)
=============================================================================
