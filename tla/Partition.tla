----------------------------- MODULE Partition -----------------------------
(***************************************************************************)
(* MaxSAT_Partition::split of src/src/MaxSAT_Partition.cc: the hard        *)
(* clauses are propagated, a graph of what is left undecided is built, its *)
(* communities are found (module Communities), and the variables and       *)
(* clauses of each community make a partition.                             *)
(*                                                                         *)
(* A literal is a variable or its negative, a clause a sequence of them.   *)
(* Weights of edges matter to module Communities only and are left out.    *)
(***************************************************************************)
EXTENDS Integers, FiniteSetsExt, SequencesExt

CONSTANTS
  Var,               \* the variables, 1 .. nVars()
  Formulas,          \* records of sequences of clauses: hard and soft
  EdgeLimit,         \* _EDGE_LIMIT_
  RandomPartitions,  \* _nRandomPartitions
  MaxCommunities     \* bound on the communities found

VARIABLES
  formula,    \* the MaxSAT formula; never changes
  mode,       \* "random" or "unfolding"; never changes
  graphType,  \* "VIG", "CVIG" or "RES"; never changes
  true,       \* the literals the solver made true at level 0
  mapVar, mapSoft, mapHard,  \* _graphMapping...: number in the graph, then partition
  graph,      \* the vertexes and edges
  parts,      \* the partitions: vars, soft, hard
  stage       \* "start", "loaded", "graph", "too large", "done" or "refuted"

vars == <<formula, mode, graphType, true, mapVar, mapSoft, mapHard, graph, parts, stage>>

Soft == DOMAIN formula.soft
Hard == DOMAIN formula.hard

-----------------------------------------------------------------------------
\* The literals unit propagation makes true: it stops after as many rounds as
\* there are literals.
Propagated ==
  LET round(S) == S \cup {l \in Var \cup {-v : v \in Var} :
                            \E i \in Hard : /\ l \in ToSet(formula.hard[i])
                                            /\ \A k \in ToSet(formula.hard[i]) \ {l} : -k \in S}
      after[n \in 0 .. 2 * Cardinality(Var)] == IF n = 0 THEN {} ELSE round(after[n - 1])
  IN  after[2 * Cardinality(Var)]

\* Whether propagation refutes the hard clauses.
Refuted(S) ==
  \/ \E l \in S : -l \in S
  \/ \E i \in Hard : \A l \in ToSet(formula.hard[i]) : -l \in S

Assigned(v) == v \in true \/ -v \in true

Variable(l) == IF l < 0 THEN -l ELSE l

\* unassignedLiterals: none when the clause is satisfied.
Unassigned(c) ==
  IF ToSet(c) \cap true # {} THEN <<>> ELSE SelectSeq(c, LAMBDA l : -l \notin true)

OpenVars == {v \in Var : ~ Assigned(v)}
OpenSoft == {i \in Soft : Unassigned(formula.soft[i]) # <<>>}
OpenHard == {i \in Hard : Unassigned(formula.hard[i]) # <<>>}

\* Numbers from `first' on, in order, for the elements of S; -1 for the others.
Numbers(D, S, first) ==
  [x \in D |-> IF x \in S THEN first + Cardinality({y \in S : y < x}) ELSE -1]

\* Hard clauses are numbered from the end of the variables.
NumberingWrongly ==
  LET gVars == IF graphType = "RES" THEN 0 ELSE Cardinality(OpenVars)
  IN  [var  |-> IF graphType = "RES" THEN [v \in Var |-> -1] ELSE Numbers(Var, OpenVars, 0),
       soft |-> IF graphType = "VIG" THEN [i \in Soft |-> -1] ELSE Numbers(Soft, OpenSoft, gVars),
       hard |-> IF graphType = "VIG" THEN [i \in Hard |-> -1] ELSE Numbers(Hard, OpenHard, gVars)]

\* Variables come first, then soft, then hard clauses; a VIG has variables only,
\* a resolution graph clauses only.
Numbering ==
  LET gVars == IF graphType = "RES" THEN 0 ELSE Cardinality(OpenVars)
      sVars == gVars + Cardinality(OpenSoft)
  IN  [var  |-> IF graphType = "RES" THEN [v \in Var |-> -1] ELSE Numbers(Var, OpenVars, 0),
       soft |-> IF graphType = "VIG" THEN [i \in Soft |-> -1] ELSE Numbers(Soft, OpenSoft, gVars),
       hard |-> IF graphType = "VIG" THEN [i \in Hard |-> -1] ELSE Numbers(Hard, OpenHard, sVars)]

\* Literals of clause c whose negations are in clause d: none is assigned.
Clashes(c, d) ==
  {l \in ToSet(Unassigned(c)) : -l \in ToSet(Unassigned(d))}

\* Pairs of indexes of the variables of clause c.
Pairs(c) == {x \in (DOMAIN c) \X (DOMAIN c) : x[1] < x[2]}

\* The edges with the clause they stem from, <<from, to, clause>>.
Edges(number) ==
  CASE graphType = "VIG" ->
         LET of(c, tag) == {<<number.var[Variable(c[x[1]])], number.var[Variable(c[x[2]])], tag>> :
                              x \in Pairs(c)}
         IN  UNION ({of(Unassigned(formula.hard[i]), <<"hard", i>>) : i \in OpenHard}
                      \cup {of(Unassigned(formula.soft[i]), <<"soft", i>>) : i \in OpenSoft})
    [] graphType = "CVIG" ->
         LET of(c, n) == {<<number.var[Variable(l)], n, n>> : l \in ToSet(Unassigned(c))}
         IN  UNION ({of(formula.hard[i], number.hard[i]) : i \in OpenHard}
                      \cup {of(formula.soft[i], number.soft[i]) : i \in OpenSoft})
    [] graphType = "RES" ->
         {<<number.hard[x[1]], number.hard[x[2]], x>> :
            x \in {x \in OpenHard \X OpenHard : /\ x[1] < x[2]
                     /\ Cardinality(Clashes(formula.hard[x[1]], formula.hard[x[2]])) = 1}}
         \cup
         {<<number.soft[x[1]], number.hard[x[2]], x>> :
            x \in {x \in OpenSoft \X OpenHard :
                     Cardinality(Clashes(formula.soft[x[1]], formula.hard[x[2]])) = 1}}

NVertexes(number) ==
  Cardinality({v \in Var : number.var[v] # -1}) + Cardinality({i \in Soft : number.soft[i] # -1})
    + Cardinality({i \in Hard : number.hard[i] # -1})

Init ==
  /\ formula \in Formulas
  /\ mode \in {"random", "unfolding"}
  /\ graphType \in {"VIG", "CVIG", "RES"}
  /\ true = {}
  /\ mapVar = [v \in Var |-> 0]
  /\ mapSoft = [i \in Soft |-> 0]
  /\ mapHard = [i \in Hard |-> 0]
  /\ graph = [size |-> 0, edges |-> {}]
  /\ parts = <<>>
  /\ stage = "start"

\* init(): the hard clauses go into a new solver.  When they are refuted, split
\* returns without partitions.
Load ==
  /\ stage = "start"
  /\ true' = Propagated
  /\ stage' = IF Refuted(Propagated) THEN "refuted" ELSE "loaded"
  /\ UNCHANGED <<mapVar, mapSoft, mapHard, graph, parts>>

\* The partitions with numbers 0 .. n - 1 from the maps of what is in them.
MakeParts(n, v, s, h) ==
  [p \in 1 .. n |-> [vars |-> {x \in Var : v[x] = p - 1}, soft |-> {i \in Soft : s[i] = p - 1},
                     hard |-> {i \in Hard : h[i] = p - 1}]]

\* splitRandom: only soft clauses are dealt out.
SplitRandom(choice) ==
  /\ stage = "loaded"
  /\ mode = "random"
  /\ mapSoft' = [i \in Soft |-> IF i \in OpenSoft THEN choice[i] ELSE -1]
  /\ parts' = MakeParts(RandomPartitions, [v \in Var |-> -1], mapSoft', [i \in Hard |-> -1])
  /\ stage' = "done"
  /\ UNCHANGED <<true, mapVar, mapHard, graph>>

\* buildGraph: given up when there are too many edges.
BuildGraph ==
  LET number == Numbering
  IN  /\ stage = "loaded"
      /\ mode = "unfolding"
      /\ mapVar' = number.var
      /\ mapSoft' = number.soft
      /\ mapHard' = number.hard
      /\ graph' = [size |-> NVertexes(number), edges |-> {<<x[1], x[2]>> : x \in Edges(number)}]
      /\ stage' = IF Cardinality(Edges(number)) >= EdgeLimit THEN "too large" ELSE "graph"
      /\ UNCHANGED <<true, parts>>

\* buildSinglePartition: all that is undecided.
BuildSinglePartition ==
  /\ stage = "too large"
  /\ mapVar' = [v \in Var |-> IF Assigned(v) THEN -1 ELSE 0]
  /\ mapSoft' = [i \in Soft |-> IF i \in OpenSoft THEN 0 ELSE -1]
  /\ mapHard' = [i \in Hard |-> IF i \in OpenHard THEN 0 ELSE -1]
  /\ parts' = MakeParts(1, mapVar', mapSoft', mapHard')
  /\ stage' = "done"
  /\ UNCHANGED <<true, graph>>

\* The partition that holds most variables of c, the first one to hold so many.
Home(c, of) ==
  LET u        == Unassigned(c)
      upto(j)  == Cardinality({k \in 1 .. j : of[Variable(u[k])] = of[Variable(u[j])]})
      most     == Max({upto(j) : j \in DOMAIN u})
  IN  of[Variable(u[Min({j \in DOMAIN u : upto(j) = most})])]

\* buildPartitions, for any communities the search may find.
BuildPartitions(n, community) ==
  LET at(m) == [x \in DOMAIN m |-> IF m[x] = -1 THEN -1 ELSE community[m[x]]]
  IN  /\ stage = "graph"
      /\ mapVar' = at(mapVar)
      /\ mapSoft' = IF graphType # "VIG" THEN at(mapSoft)
                    ELSE [i \in Soft |-> IF i \in OpenSoft THEN Home(formula.soft[i], mapVar') ELSE -1]
      /\ mapHard' = IF graphType # "VIG" THEN at(mapHard)
                    ELSE [i \in Hard |-> IF i \in OpenHard THEN Home(formula.hard[i], mapVar') ELSE -1]
      /\ parts' = MakeParts(n, mapVar', mapSoft', mapHard')
      /\ stage' = "done"
      /\ UNCHANGED <<true, graph>>

\* The communities of the graph: all are taken that leave no community empty.
Communities(n) ==
  {c \in [0 .. graph.size - 1 -> 0 .. n - 1] : {c[x] : x \in DOMAIN c} = 0 .. n - 1}

Next ==
  /\ \/ Load
     \/ \E choice \in [OpenSoft -> 0 .. RandomPartitions - 1] : SplitRandom(choice)
     \/ BuildGraph
     \/ BuildSinglePartition
     \/ \E n \in 0 .. MaxCommunities : \E c \in Communities(n) : BuildPartitions(n, c)
  /\ UNCHANGED <<formula, mode, graphType>>

Spec == Init /\ [][Next]_vars

-----------------------------------------------------------------------------
\* The assignments, as sets of true literals, that satisfy the hard clauses.
Models ==
  {T \in {{v : v \in P} \cup {-v : v \in Var \ P} : P \in SUBSET Var} :
     \A i \in Hard : ToSet(formula.hard[i]) \cap T # {}}

\* A soft clause left out of all partitions, which the searches never assume, is
\* satisfied by every model or by none: leaving it out changes no optimum
\* (MaxSAT_Partition.cc:120-129, 180-187, 448-461).
LeftOutIsFixed ==
  stage = "done" =>
    \A i \in Soft : (\A p \in DOMAIN parts : i \notin parts[p].soft) =>
      \A T, U \in Models :
        (ToSet(formula.soft[i]) \cap T = {}) <=> (ToSet(formula.soft[i]) \cap U = {})

\* The maps and the lists of the partitions agree, for every graph: an undecided
\* clause is in one partition, the one softClausePartition names, and a decided
\* one in none (MaxSAT_Partition.cc:199-312).
ListsMatchMaps ==
  stage = "done" /\ mode = "unfolding" =>
    /\ \A i \in Soft : {p \in DOMAIN parts : i \in parts[p].soft}
                         = IF i \in OpenSoft THEN {mapSoft[i] + 1} ELSE {}
    /\ \A i \in Hard : {p \in DOMAIN parts : i \in parts[p].hard}
                         = IF i \in OpenHard THEN {mapHard[i] + 1} ELSE {}

\* Every vertex of the graph stands for one variable or clause: the three ranges
\* of numbers neither overlap nor leave gaps (MaxSAT_Partition.cc:432-473, 562-592).
VertexesDistinct ==
  stage = "graph" =>
    LET used(m) == {x \in DOMAIN m : m[x] # -1}
        all     == ({"var"} \X used(mapVar)) \cup ({"soft"} \X used(mapSoft))
                     \cup ({"hard"} \X used(mapHard))
        num(x)  == CASE x[1] = "var" -> mapVar[x[2]] [] x[1] = "soft" -> mapSoft[x[2]]
                     [] x[1] = "hard" -> mapHard[x[2]]
    IN  {num(x) : x \in all} = 0 .. graph.size - 1 /\ Cardinality(all) = graph.size

\* With a variable graph no partition holds more of a clause's undecided variables
\* than the one the clause is in (MaxSAT_Partition.cc:212-259).
ClauseAtHome ==
  stage = "done" /\ mode = "unfolding" /\ graphType = "VIG" =>
    \A i \in OpenSoft : LET u    == Unassigned(formula.soft[i])
                            n(p) == Cardinality({j \in DOMAIN u : Variable(u[j]) \in parts[p].vars})
                        IN  \A p \in DOMAIN parts : n(p) <= n(mapSoft[i] + 1)
=============================================================================
