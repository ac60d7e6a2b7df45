---------------------------- MODULE Communities ----------------------------
(***************************************************************************)
(* src/src/graph/Graph_Communities.cc: the communities of a weighted       *)
(* graph, found by moving vertexes to adjacent communities as long as the  *)
(* modularity grows, and then again between the communities, as vertexes   *)
(* of a smaller graph.  The totals of each community are kept up to date   *)
(* while vertexes move.                                                    *)
(*                                                                         *)
(* Weights are integers, so that sums do not depend on their order, and    *)
(* modularity is multiplied by the square of the total weight.             *)
(***************************************************************************)
EXTENDS Integers, FiniteSetsExt, SequencesExt

CONSTANTS
  Vertexes,  \* the vertexes of the graph, 0 .. n - 1
  Graphs     \* weights: symmetric functions on Vertexes \X Vertexes; 0 is no edge

VARIABLES
  origin,          \* the graph findCommunities was called with
  size,            \* the number of vertexes of the current graph
  graph,           \* the current graph, _g
  vertexToComm,    \* community of each vertex of the current graph
  inside, total,   \* weight of the edges inside a community and of its vertexes
  vertexCommunity, \* community of each vertex of the original graph
  order,           \* random_order; <<>> between two calls of iterate
  next,            \* position in it
  curMod,          \* cur_mod of the pass
  better,          \* whether a vertex was moved in this call of iterate
  level,           \* 0 until the first smaller graph
  status           \* "searching" or "done"

vars == <<origin, size, graph, vertexToComm, inside, total, vertexCommunity, order,
          next, curMod, better, level, status>>

-----------------------------------------------------------------------------
V(n) == 0 .. n - 1

\* The weight of the edges between two sets of vertexes of a graph.
Between(g, A, B) == MapThenSumSet(LAMBDA u : MapThenSumSet(LAMBDA v : g[<<u, v>>], B), A)

WeightedDegree(v) == Between(graph, {v}, V(size))

TotalWeight == Between(graph, V(size), V(size))

Members(c) == {v \in V(size) : vertexToComm[v] = c}

\* computeAdjCommunities: the weight of the edges from v to community c, v's own
\* community included.
AdjWeight(v, c) == Between(graph, {v}, Members(c) \ {v})

AdjComm(v) ==
  {vertexToComm[v]} \cup {vertexToComm[u] : u \in {u \in V(size) : graph[<<v, u>>] > 0}}

\* modularity(), times TotalWeight squared.
Modularity == MapThenSumSet(LAMBDA c : inside[c] * TotalWeight - total[c] * total[c], V(size))

\* The total of v's own community still has v in it.
VariationWrongly(v, c) == (AdjWeight(v, c) + 1) * TotalWeight - total[c] * WeightedDegree(v)

\* What v adds to the modularity of c, once it has left its own community.
Variation(v, c) ==
  LET left == IF vertexToComm[v] = c THEN total[c] - WeightedDegree(v) ELSE total[c]
  IN  AdjWeight(v, c) * TotalWeight - left * WeightedDegree(v)

\* Where v may go: a community that gains most, its own one if none gains more.
\* The order of the edges decides between others.
BestComms(v) ==
  LET own  == vertexToComm[v]
      most == Max({0} \cup {Variation(v, c) : c \in AdjComm(v)})
  IN  IF most = 0 \/ Variation(v, own) = most THEN {own}
      ELSE {c \in AdjComm(v) : Variation(v, c) = most}

InsideAfter(v, c) ==
  LET own   == vertexToComm[v]
      loops == graph[<<v, v>>]
  IN  [d \in V(size) |-> inside[d] - (IF d = own THEN 2 * AdjWeight(v, own) + loops ELSE 0)
                                   + (IF d = c THEN 2 * AdjWeight(v, c) + loops ELSE 0)]

TotalAfter(v, c) ==
  [d \in V(size) |-> total[d] - (IF d = vertexToComm[v] THEN WeightedDegree(v) ELSE 0)
                              + (IF d = c THEN WeightedDegree(v) ELSE 0)]

\* resetInternalData: every vertex is a community.
Reset(n, g) ==
  /\ vertexToComm' = [v \in V(n) |-> v]
  /\ inside' = [v \in V(n) |-> g[<<v, v>>]]
  /\ total' = [v \in V(n) |-> Between(g, {v}, V(n))]

Init ==
  /\ origin \in Graphs
  /\ size = Cardinality(Vertexes)
  /\ graph = origin
  /\ vertexToComm = [v \in Vertexes |-> v]
  /\ inside = [v \in Vertexes |-> graph[<<v, v>>]]
  /\ total = [v \in Vertexes |-> Between(graph, {v}, Vertexes)]
  /\ vertexCommunity = [v \in Vertexes |-> v]
  /\ order = <<>>
  /\ next = 1
  /\ curMod = 0
  /\ better = FALSE
  /\ level = 0
  /\ status = "searching"

\* iterate: the vertexes in random order.
Shuffle(o) ==
  /\ order = <<>>
  /\ order' = o
  /\ next' = 1
  /\ curMod' = Modularity
  /\ better' = FALSE
  /\ UNCHANGED <<size, graph, vertexToComm, inside, total, vertexCommunity, level, status>>

\* The next vertex of the pass moves to community c.
Move(c) ==
  LET v == order[next]
  IN  /\ next <= Len(order)
      /\ c \in BestComms(v)
      /\ vertexToComm' = [vertexToComm EXCEPT ![v] = c]
      /\ inside' = InsideAfter(v, c)
      /\ total' = TotalAfter(v, c)
      /\ better' = (better \/ c # vertexToComm[v])
      /\ next' = next + 1
      /\ UNCHANGED <<size, graph, vertexCommunity, order, curMod, level, status>>

\* The pass is repeated while vertexes have moved in this call.
NextPassWrongly ==
  /\ order # <<>>
  /\ next > Len(order)
  /\ better
  /\ next' = 1
  /\ curMod' = Modularity
  /\ UNCHANGED <<size, graph, vertexToComm, inside, total, vertexCommunity, order, better,
                 level, status>>

\* The pass has raised the modularity: once more, in the same order.
NextPass ==
  /\ order # <<>>
  /\ next > Len(order)
  /\ Modularity > curMod
  /\ next' = 1
  /\ curMod' = Modularity
  /\ UNCHANGED <<size, graph, vertexToComm, inside, total, vertexCommunity, order, better,
                 level, status>>

\* nextIterationGraph: communities that are not empty get the next numbers.
Renumber == [c \in V(size) |-> Cardinality({d \in V(c) : Members(d) # {}})]

NewCommunities == [v \in Vertexes |-> Renumber[vertexToComm[vertexCommunity[v]]]]

\* The call of iterate is over: the communities are the vertexes of the next graph.
\* The first one is always searched, even if nothing has moved.
NextLevel ==
  LET used    == {c \in V(size) : Members(c) # {}}
      n       == Cardinality(used)
      of(i)   == CHOOSE c \in used : Renumber[c] = i
      smaller == [x \in V(n) \X V(n) |-> Between(graph, Members(of(x[1])), Members(of(x[2])))]
  IN  /\ order # <<>>
      /\ next > Len(order)
      /\ Modularity <= curMod
      /\ size' = n
      /\ graph' = smaller
      /\ vertexCommunity' = NewCommunities
      /\ Reset(n, smaller)
      /\ order' = <<>>
      /\ next' = 1
      /\ curMod' = 0
      /\ better' = FALSE
      /\ level' = IF level = 0 THEN 1 ELSE level
      /\ status' = IF better \/ level = 0 THEN status ELSE "done"

Next ==
  /\ status = "searching"
  /\ \/ \E o \in {o \in [1 .. size -> V(size)] : IsInjective(o)} : Shuffle(o)
     \/ \E c \in V(size) : Move(c)
     \/ NextPass
     \/ NextLevel
  /\ UNCHANGED origin

Spec == Init /\ [][Next]_vars

-----------------------------------------------------------------------------
\* The totals kept while vertexes leave and enter communities are those of the
\* communities (Graph_Communities.cc:279-293); every decision reads them.
TotalsAreRight ==
  \A c \in V(size) :
    /\ total[c] = Between(graph, Members(c), V(size))
    /\ inside[c] = Between(graph, Members(c), Members(c))

\* The community an original vertex is in at the moment.
Community(v) == vertexToComm[vertexCommunity[v]]

\* The graph the partitions are made from is that of the communities: its edges
\* weigh what those of the original graph between them weigh, whatever the levels
\* in between (Graph_Communities.cc:190-239).
GraphIsQuotient ==
  \A a, b \in V(size) :
    graph[<<a, b>>] = Between(origin, {v \in Vertexes : vertexCommunity[v] = a},
                                      {v \in Vertexes : vertexCommunity[v] = b})

\* No community is empty, and a vertex without edges is alone: vertexes come
\* together only along edges (Graph_Communities.cc:160-188).
CommunitiesJoined ==
  /\ {vertexCommunity[v] : v \in Vertexes} = V(size)
  /\ \A v, u \in Vertexes : v # u /\ Community(v) = Community(u) =>
       \E x \in Vertexes \ {v} : origin[<<v, x>>] > 0

\* A vertex moves only when that raises the modularity (Graph_Communities.cc:133-147),
\* which is why the passes come to an end.
MoveImproves == order' = order /\ vertexToComm' # vertexToComm => Modularity' > Modularity
=============================================================================
