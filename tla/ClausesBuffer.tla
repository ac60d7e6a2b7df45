----------------------------- MODULE ClausesBuffer -----------------------------
(***************************************************************************)
(* The blackboard on which the threads of the parallel solver share their  *)
(* clauses: one ring of integers for all threads, in which a clause is its *)
(* size, the number of threads that have yet to see it, the thread it came *)
(* from and its literals (src/src/solvers/glucose4.1/parallel/             *)
(* ClausesBuffer.cc).  SharedCompanion holds one lock around pushClause    *)
(* and one around getClause, so that each is one step here.                *)
(*                                                                         *)
(* Every literal of the k-th clause published is the number k.             *)
(***************************************************************************)
EXTENDS Integers, Sequences, FiniteSets

CONSTANTS
  nbThreads,
  maxsize,              \* cells of the ring
  Sizes,                \* the sizes of the clauses shared
  whenFullRemoveOlder,
  MaxClauses            \* bound on the clauses published

VARIABLES
  ring,       \* elems, first, last, queuesize and lastOfThread
  published,  \* history: the clauses pushed
  delivered   \* history: for every thread the clauses it got

vars == <<ring, published, delivered>>

Threads == 0 .. nbThreads - 1
headerSize == 3

\* nextIndex is addIndex by 1.
addIndex(i, a) == IF i + a >= maxsize THEN i + a - maxsize ELSE i + a
nextIndex(i) == addIndex(i, 1)

Init ==
  /\ ring = [elems |-> [i \in 0 .. maxsize - 1 |-> 0], first |-> 0, last |-> maxsize - 1,
             queuesize |-> 0, lastOfThread |-> [t \in Threads |-> maxsize - 1]]
  /\ published = <<>> /\ delivered = [t \in Threads |-> <<>>]

SizeAfter(r, i) == r.elems[nextIndex(i)]
SeenAfter(r, i) == r.elems[addIndex(i, 2)]
OriginAfter(r, i) == r.elems[addIndex(i, 3)]
BehindClause(r, i) == addIndex(i, SizeAfter(r, i) + headerSize)

\* The oldest clause goes, with every clause after it that all have seen; a reader that
\* was at it moves on with it.
RECURSIVE removeLastClause(_)
removeLastClause(r) ==
  LET nextlast == BehindClause(r, r.last)
      s == [r EXCEPT !.last = nextlast,
                     !.queuesize = @ - SizeAfter(r, r.last) - headerSize,
                     !.lastOfThread = [t \in Threads |-> IF @[t] = r.last THEN nextlast ELSE @[t]]]
  IN  IF s.queuesize > 0 /\ SeenAfter(s, s.last) = 0 THEN removeLastClause(s) ELSE s

Fits(r, size) == r.queuesize + size + headerSize < maxsize
RECURSIVE MakeRoom(_, _)
MakeRoom(r, size) == IF Fits(r, size) THEN r ELSE MakeRoom(removeLastClause(r), size)

noCheckPush(r, cells) ==
  [r EXCEPT !.elems = [i \in DOMAIN @ |->
                         LET k == (IF i >= r.first THEN i - r.first
                                   ELSE i + maxsize - r.first) + 1
                         IN  IF k <= Len(cells) THEN cells[k] ELSE @[i]],
            !.first = addIndex(@, Len(cells)), !.queuesize = @ + Len(cells)]

SeenBy == IF nbThreads > 1 THEN nbThreads - 1 ELSE 1

pushClause(t) ==
  /\ Len(published) < MaxClauses
  /\ \E size \in Sizes :
       /\ whenFullRemoveOlder \/ Fits(ring, size)
       /\ ring' = noCheckPush(MakeRoom(ring, size),
                    <<size, SeenBy, t>> \o [i \in 1 .. size |-> Len(published) + 1])
       /\ published' = Append(published, [origin |-> t, size |-> size])
  /\ UNCHANGED delivered

\* A position that is not between last and first has been overtaken by last.
Overtaken(r, i) ==
  \/ i < r.last /\ r.last < r.first
  \/ r.first < i /\ i < r.last
  \/ r.last < r.first /\ r.first < i

\* A wrong SkipOwn, for the mutant run: only one clause of its own is skipped.
SkipOwnWrongly(r, t, i) ==
  IF nextIndex(i) # r.first /\ OriginAfter(r, i) = t THEN BehindClause(r, i) ELSE i

\* Another: the comparison the wrong way round.
RECURSIVE SkipOthers(_, _, _)
SkipOthers(r, t, i) ==
  IF nextIndex(i) # r.first /\ OriginAfter(r, i) # t THEN SkipOthers(r, t, BehindClause(r, i)) ELSE i

RECURSIVE SkipOwn(_, _, _)
SkipOwn(r, t, i) ==
  IF nextIndex(i) # r.first /\ OriginAfter(r, i) = t THEN SkipOwn(r, t, BehindClause(r, i)) ELSE i

Here(t) ==
  SkipOwn(ring, t, IF Overtaken(ring, ring.lastOfThread[t]) THEN ring.last
                   ELSE ring.lastOfThread[t])

getClause(t) ==
  /\ nextIndex(ring.lastOfThread[t]) # ring.first
  /\ LET here == Here(t)
         seen == [ring EXCEPT !.elems[addIndex(here, 2)] = @ - 1]
         drop == ring.last = here /\ SeenAfter(seen, here) = 0
         r == IF drop THEN removeLastClause(seen) ELSE seen
     IN  IF nextIndex(here) = ring.first
           THEN ring' = [ring EXCEPT !.lastOfThread[t] = here] /\ UNCHANGED delivered
           ELSE /\ ring' = [r EXCEPT !.lastOfThread[t] =
                              IF drop THEN r.last ELSE BehindClause(ring, here)]
                /\ delivered' = [delivered EXCEPT ![t] =
                                   Append(@, ring.elems[addIndex(here, headerSize + 1)])]
  /\ UNCHANGED published

Next == \E t \in Threads : pushClause(t) \/ getClause(t)

-----------------------------------------------------------------------------
\* The positions of the clauses in the ring, each by the cell before it.
RECURSIVE ClausesFrom(_)
ClausesFrom(i) ==
  IF nextIndex(i) = ring.first THEN <<>> ELSE <<i>> \o ClausesFrom(BehindClause(ring, i))
InRing == ClausesFrom(ring.last)
Place(i) == CHOOSE k \in 1 .. Len(InRing) + 1 :
              k = Len(InRing) + 1 \/ (InRing[k] = i /\ k <= Len(InRing))

\* The cells in use are exactly whole clauses, as many as queuesize counts, and every
\* reader stands between two of them, wrapped round or not and after any removal.
ReadersBetweenClauses ==
  /\ ring.queuesize = (ring.first - 1 - ring.last + 2 * maxsize) % maxsize
  /\ \A t \in Threads : \/ nextIndex(ring.lastOfThread[t]) = ring.first
                        \/ \E k \in DOMAIN InRing : InRing[k] = ring.lastOfThread[t]

\* The count in a clause is the number of other threads that have not passed it, so
\* that a clause goes no sooner than all have seen it, and then does go.
SeenCounted ==
  \A k \in DOMAIN InRing :
    SeenAfter(ring, InRing[k])
      = Cardinality({t \in Threads : /\ OriginAfter(ring, InRing[k]) # t
                                     /\ Place(ring.lastOfThread[t]) <= k})

\* The oldest clause in the ring is one that a thread still waits for: what all have
\* seen holds no room.
OldestIsWaitedFor == InRing # <<>> => SeenAfter(ring, ring.last) > 0
-----------------------------------------------------------------------------
\* What the threads are promised, of which the ring with its positions is one
\* implementation: a thread is given the clauses of the others in the order they were
\* published, each at most once, and unless old ones may be dropped none is passed over.
PromisedInit == published = <<>> /\ delivered = [t \in Threads |-> <<>>]

Publish(t) ==
  /\ \E size \in Sizes : published' = Append(published, [origin |-> t, size |-> size])
  /\ UNCHANGED delivered

NewestOf(s) == IF s = <<>> THEN 0 ELSE s[Len(s)]
Wanted(t, k) == published[k].origin # t

Deliver(t) ==
  /\ \E k \in NewestOf(delivered[t]) + 1 .. Len(published) :
       /\ Wanted(t, k)
       /\ whenFullRemoveOlder \/ \A j \in NewestOf(delivered[t]) + 1 .. k - 1 : ~ Wanted(t, j)
       /\ delivered' = [delivered EXCEPT ![t] = Append(@, k)]
  /\ UNCHANGED published

PromisedNext == \E t \in Threads : Publish(t) \/ Deliver(t)
=============================================================================
