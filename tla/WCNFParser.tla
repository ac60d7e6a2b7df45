---------------------------- MODULE WCNFParser -----------------------------
(***************************************************************************)
(* src/src/ParserMaxSAT.h reads a MaxSAT formula; the container of         *)
(* src/src/MaxSATFormula.cc keeps the clauses and, while they arrive, the  *)
(* sum and the maximum of the soft weights and the number of variables,    *)
(* and copies itself.                                                      *)
(*                                                                         *)
(* A literal is an integer, a clause a sequence of them.                   *)
(***************************************************************************)
EXTENDS Integers, FiniteSetsExt, SequencesExt

CONSTANTS
  Clauses,   \* the clauses a line may have
  Tops,      \* the weights of hard clauses a header may give
  Weights,   \* the weights a line may give
  UintMax,   \* UINT64_MAX
  MaxLines   \* bound on the lines read

VARIABLES
  formula,   \* the MaxSATFormula
  hardWeight,\* local hard_weight of parseMaxSAT
  read,      \* number of lines read; not kept by the program
  copy,      \* the result of copyMaxSATFormula, or the empty formula
  status     \* "reading", "done" or "copied"

vars == <<formula, hardWeight, read, copy, status>>

-----------------------------------------------------------------------------
\* MaxSATFormula::MaxSATFormula
Empty == [soft |-> <<>>, hard |-> <<>>, nVars |-> 0, nInitialVars |-> 0, sum |-> 0,
          max |-> 0, hardWeight |-> UintMax, type |-> "UNWEIGHTED"]

Abs(l) == IF l < 0 THEN -l ELSE l

\* The sum is a uint64_t.
UpdateSumWeights(f, w) ==
  IF w # f.hardWeight THEN [f EXCEPT !.sum = (@ + w) % (UintMax + 1)] ELSE f

SetMaximumWeight(f, w) ==
  IF w > f.max /\ w # f.hardWeight THEN [f EXCEPT !.max = w] ELSE f

AddSoftClause(f, w, c) == [f EXCEPT !.soft = Append(@, [weight |-> w, clause |-> c])]

AddHardClause(f, c) == [f EXCEPT !.hard = Append(@, c)]

\* readClause: variables are made up to the largest one.
ReadClause(f, c) == [f EXCEPT !.nVars = Max({@} \cup {Abs(c[i]) : i \in DOMAIN c})]

Init ==
  /\ formula = Empty
  /\ hardWeight = UintMax
  /\ read = 0
  /\ copy = Empty
  /\ status = "reading"

\* The header "p wcnf" with the weight of hard clauses, or without one (0).
Header(top) ==
  /\ read = 0
  /\ read' = read + 1
  /\ hardWeight' = IF top = 0 THEN hardWeight ELSE top
  /\ formula' = [formula EXCEPT !.type = "WEIGHTED",
                                !.hardWeight = IF top = 0 THEN @ ELSE top]
  /\ UNCHANGED <<copy, status>>

\* A line with a clause: soft when it is lighter than a hard one.
Clause(c, w) ==
  LET weight == IF formula.type = "WEIGHTED" THEN w ELSE 1
      f      == ReadClause(formula, c)
  IN  /\ read < MaxLines
      /\ read' = read + 1
      /\ formula' = IF weight < hardWeight \/ f.type = "UNWEIGHTED"
                      THEN AddSoftClause(UpdateSumWeights(SetMaximumWeight(f, weight), weight),
                                         weight, c)
                      ELSE AddHardClause(f, c)
      /\ UNCHANGED <<hardWeight, copy, status>>

\* The end of the file: the type follows from the weights.
ParseMaxSATFormula ==
  /\ formula' = [formula EXCEPT !.type = IF formula.max = 1 THEN "UNWEIGHTED" ELSE "WEIGHTED"]
  /\ status' = "done"
  /\ UNCHANGED <<hardWeight, read, copy>>

\* MaxSAT::loadFormula and then copyMaxSATFormula.  The copy's variables are
\* made one by one, its clauses added, and then its weights set.
Copy ==
  LET loaded    == [formula EXCEPT !.nInitialVars = formula.nVars]
      variables == [Empty EXCEPT !.nInitialVars = loaded.nVars, !.nVars = loaded.nVars]
      soft      == FoldLeft(LAMBDA f, s : AddSoftClause(f, s.weight, s.clause),
                           variables, loaded.soft)
      hard      == FoldLeft(AddHardClause, soft, loaded.hard)
      weighed   == SetMaximumWeight(UpdateSumWeights(hard, loaded.sum), loaded.max)
  IN  /\ formula' = loaded
      /\ copy' = [weighed EXCEPT !.type = loaded.type, !.hardWeight = loaded.hardWeight]
      /\ status' = "copied"
      /\ UNCHANGED <<hardWeight, read>>

Next ==
  \/ /\ status = "reading"
     /\ \/ \E top \in Tops \cup {0} : Header(top)
        \/ \E c \in Clauses, w \in Weights : Clause(c, w)
        \/ ParseMaxSATFormula
  \/ status = "done" /\ Copy

Spec == Init /\ [][Next]_vars

-----------------------------------------------------------------------------
SumOfSoft == FoldLeft(LAMBDA acc, s : acc + s.weight, 0, formula.soft)

\* The first upper bound of every algorithm (loadFormula sets ubCost to it) is
\* what it costs to falsify all soft clauses, as long as that fits the type:
\* the sum skips no weight and counts none that is hard (ParserMaxSAT.h:110-120).
UpperBoundIsSum == SumOfSoft <= UintMax => formula.sum = SumOfSoft

\* A formula is searched as unweighted only when all its weights are one
\* (ParserMaxSAT.h:127-136), and its clauses use only variables it has.
TypeMatchesWeights ==
  status # "reading" =>
    /\ formula.type = "UNWEIGHTED" <=>
         formula.soft # <<>> /\ \A i \in DOMAIN formula.soft : formula.soft[i].weight = 1
    /\ \A c \in ToSet(formula.hard) \cup {s.clause : s \in ToSet(formula.soft)} :
         \A i \in DOMAIN c : Abs(c[i]) <= formula.nVars

\* A copy is the same formula (MaxSATFormula.cc:34-55), though its sum and maximum
\* go through the setters that skip the weight of hard clauses.
CopyIsEqual == status = "copied" /\ formula.sum < UintMax => copy = formula
=============================================================================
