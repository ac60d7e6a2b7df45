----------------------------- MODULE BranchingOrder ----------------------------
(***************************************************************************)
(* The order in which the SAT solver decides: a heap of variables by       *)
(* activity, from which assigned variables are removed late and into which *)
(* backtracking puts them back (src/src/solvers/glucose4.1: mtl/Heap.h,    *)
(* core/Solver.cc, core/Solver.h).                                         *)
(*                                                                         *)
(* Activities are numbers up to Cap instead of doubles up to 1e100: what   *)
(* counts is that they are rescaled and that rescaling makes ties.         *)
(* Positions of the heap are counted from 1, NotIn stands for -1.          *)
(***************************************************************************)
EXTENDS Integers, Sequences, FiniteSets

CONSTANTS
  NumVars, Cap,
  MaxImplied,         \* bounds the implied literals on the trail
  Eliminable          \* the variables that preprocessing may take out

VARIABLES
  heap, indices,      \* order_heap: the variables, and the position of each
  activity, var_inc,
  decision,           \* the variables search may decide on
  trail, trail_lim,
  pc, next            \* pickBranchLit is running, and the variable it took

heapVars == <<heap, indices>>
vars == <<heapVars, activity, var_inc, decision, trail, trail_lim, pc, next>>

Vars == 1 .. NumVars
NotIn == 0
H == [heap |-> heap, indices |-> indices]
InHeap(v) == indices[v] # NotIn
Assigned(v) == \E i \in DOMAIN trail : trail[i] = v

\* VarOrderLt: the more active variable is the smaller.
Lt(act, x, y) == act[x] > act[y]

Put(h, i, x) == [heap |-> [h.heap EXCEPT ![i] = x], indices |-> [h.indices EXCEPT ![x] = i]]

RECURSIVE Up(_, _, _, _), Down(_, _, _, _)

\* The smaller variables above position i move down until x finds its place.
Up(act, h, i, x) ==
  LET p == i \div 2
  IN  IF i > 1 /\ Lt(act, x, h.heap[p]) THEN Up(act, Put(h, i, h.heap[p]), p, x) ELSE Put(h, i, x)
PercolateUp(act, h, i) == Up(act, h, i, h.heap[i])

\* The smaller child of position i.
Child(act, h, i) ==
  LET r == 2 * i + 1
  IN  IF r <= Len(h.heap) /\ Lt(act, h.heap[r], h.heap[2 * i]) THEN r ELSE 2 * i

Down(act, h, i, x) ==
  IF 2 * i > Len(h.heap) THEN Put(h, i, x)
  ELSE LET c == Child(act, h, i)
       IN  IF Lt(act, h.heap[c], x) THEN Down(act, Put(h, i, h.heap[c]), c, x) ELSE Put(h, i, x)
PercolateDown(act, h, i) == Down(act, h, i, h.heap[i])

Insert(h, v) ==
  LET n == Len(h.heap) + 1
  IN  PercolateUp(activity, [heap |-> Append(h.heap, v), indices |-> [h.indices EXCEPT ![v] = n]], n)

\* removeMin: the last one takes the place of the first.
RemoveMin(h) ==
  LET n == Len(h.heap)
      x == h.heap[1]
      g == [heap |-> SubSeq([h.heap EXCEPT ![1] = h.heap[n]], 1, n - 1),
            indices |-> [h.indices EXCEPT ![h.heap[n]] = 1, ![x] = NotIn]]
  IN  IF n > 2 THEN PercolateDown(activity, g, 1) ELSE [g EXCEPT !.indices[x] = NotIn]

\* build: the elements in the given order, then percolated down from the middle.
RECURSIVE Sifted(_, _)
Sifted(h, i) == IF i = 0 THEN h ELSE Sifted(PercolateDown(activity, h, i), i - 1)
Build(ns) ==
  Sifted([heap |-> ns, indices |-> [v \in Vars |->
           IF \E i \in DOMAIN ns : ns[i] = v THEN CHOOSE i \in DOMAIN ns : ns[i] = v ELSE NotIn]],
         Len(ns) \div 2)

InsertVarOrder(h, v) == IF h.indices[v] = NotIn /\ decision[v] THEN Insert(h, v) ELSE h

SetHeap(h) == heap' = h.heap /\ indices' = h.indices

\* The variables as newVar has made them, one after the other.
Init ==
  /\ heap = [v \in Vars |-> v] /\ indices = [v \in Vars |-> v]
  /\ activity = [v \in Vars |-> 0] /\ var_inc = 1
  /\ decision = [v \in Vars |-> TRUE] /\ trail = <<>> /\ trail_lim = <<>> /\ pc = "search" /\ next = 0

-----------------------------------------------------------------------------
\* setDecisionVar: variable elimination takes a variable out; it stays in the heap.
SetDecisionVar(v) ==
  /\ v \in Eliminable /\ pc = "search" /\ trail_lim = <<>> /\ decision[v]
  /\ decision' = [decision EXCEPT ![v] = FALSE]
  /\ UNCHANGED <<heapVars, activity, var_inc, trail, trail_lim, pc, next>>

\* varBumpActivity of a variable of a conflict: beyond the bound all are rescaled.
Bump(v) ==
  /\ pc = "search"
  /\ LET up  == [activity EXCEPT ![v] = @ + var_inc]
         act == IF up[v] > Cap THEN [u \in Vars |-> up[u] \div Cap] ELSE up
     IN  /\ activity' = act /\ var_inc' = IF up[v] > Cap THEN 1 ELSE var_inc
         /\ IF InHeap(v) THEN SetHeap(PercolateUp(act, H, indices[v])) ELSE UNCHANGED heapVars
  /\ UNCHANGED <<decision, trail, trail_lim, pc, next>>

\* varDecayActivity: later bumps count more.
Decay ==
  /\ pc = "search" /\ 2 * var_inc <= Cap /\ var_inc' = 2 * var_inc
  /\ UNCHANGED <<heapVars, activity, decision, trail, trail_lim, pc, next>>

\* A literal is implied; its variable stays in the heap.
Propagate(v) ==
  /\ pc = "search" /\ ~ Assigned(v) /\ Len(trail) - Len(trail_lim) < MaxImplied
  /\ trail' = Append(trail, v)
  /\ UNCHANGED <<heapVars, activity, var_inc, decision, trail_lim, pc, next>>

\* cancelUntil: from the last to the first, the variables are unassigned and put back.
RECURSIVE PutBack(_, _)

PutBack(h, c) ==
  IF c > Len(trail) THEN h ELSE InsertVarOrder(PutBack(h, c + 1), trail[c])
CancelUntil(level) ==
  /\ pc = "search" /\ level < Len(trail_lim)
  /\ SetHeap(PutBack(H, trail_lim[level + 1] + 1))
  /\ trail' = SubSeq(trail, 1, trail_lim[level + 1]) /\ trail_lim' = SubSeq(trail_lim, 1, level)
  /\ UNCHANGED <<activity, var_inc, decision, pc, next>>

\* rebuildOrderHeap, at the end of simplify.
Rebuild ==
  /\ pc = "search" /\ trail_lim = <<>>
  /\ SetHeap(Build(SelectSeq([v \in Vars |-> v], LAMBDA v : decision[v] /\ ~ Assigned(v))))
  /\ UNCHANGED <<activity, var_inc, decision, trail, trail_lim, pc, next>>

\* pickBranchLit: a random variable of the heap, which stays in it ...
PickRandom ==
  /\ pc = "search" /\ (\E i \in DOMAIN heap : next' = heap[i]) /\ pc' = "picking"
  /\ UNCHANGED <<heapVars, activity, var_inc, decision, trail, trail_lim>>
PickFirst ==
  /\ pc = "search" /\ next' = 0 /\ pc' = "picking"
  /\ UNCHANGED <<heapVars, activity, var_inc, decision, trail, trail_lim>>

Free(v) == ~ Assigned(v) /\ decision[v]
Taken == next # 0 /\ Free(next)

\* ... or else the first of the heap that is free ...
Pop ==
  /\ pc = "picking" /\ ~ Taken /\ heap # <<>>
  /\ next' = heap[1] /\ SetHeap(RemoveMin(H))
  /\ pc' = IF Free(heap[1]) THEN "best" ELSE pc
  /\ UNCHANGED <<activity, var_inc, decision, trail, trail_lim>>
NoneLeft ==
  /\ pc = "picking" /\ ~ Taken /\ heap = <<>> /\ pc' = "model"
  /\ UNCHANGED <<heapVars, activity, var_inc, decision, trail, trail_lim, next>>

\* ... which is decided on a new level.
Decide ==
  /\ pc \in {"picking", "best"} /\ Taken
  /\ trail_lim' = Append(trail_lim, Len(trail)) /\ trail' = Append(trail, next)
  /\ pc' = "search" /\ next' = 0
  /\ UNCHANGED <<heapVars, activity, var_inc, decision>>

\* solve_ copies the model and goes back to level 0; a decision may follow later.
Answered ==
  /\ pc = "model" /\ pc' = "search" /\ next' = 0
  /\ UNCHANGED <<heapVars, activity, var_inc, decision, trail, trail_lim>>

Next ==
  \/ \E v \in Vars : Bump(v) \/ Propagate(v) \/ SetDecisionVar(v)
  \/ \E level \in 0 .. NumVars : CancelUntil(level)
  \/ Decay \/ Rebuild \/ PickRandom \/ PickFirst \/ Pop \/ NoneLeft \/ Decide \/ Answered

-----------------------------------------------------------------------------
\* The positions are those of the variables: what decrease and inHeap look up is there.
IndicesExact ==
  /\ \A i \in DOMAIN heap : indices[heap[i]] = i
  /\ \A v \in Vars : InHeap(v) => indices[v] \in DOMAIN heap /\ heap[indices[v]] = v

\* No variable is more active than the one above it, through bumps that move a variable
\* up only, rescaling of all activities, removals and insertions.
HeapOrdered ==
  \A i \in DOMAIN heap : i > 1 => ~ Lt(activity, heap[i], heap[i \div 2])

\* No variable that could be decided on is lost, though assigned ones leave the heap and
\* random decisions stay in it.
NoneLost ==
  \A v \in Vars : Free(v) /\ v # next => InHeap(v)

\* When the heap is exhausted every decision variable has a value: it is a model.
ModelTotal == pc = "model" => \A v \in Vars : ~ Free(v)

\* A decision that is not random is on a most active variable.
BestDecided ==
  pc = "best" => \A v \in Vars : Free(v) => ~ Lt(activity, v, next)
=============================================================================
