------------------------------- MODULE ClauseArena ------------------------------
(***************************************************************************)
(* Where the clauses of the SAT solver live: a region of memory that only  *)
(* grows, watcher lists that lose deleted clauses lazily, and the garbage  *)
(* collection that moves every clause that is still referred to            *)
(* (src/src/solvers/glucose4.1: mtl/Alloc.h, core/SolverTypes.h, core/     *)
(* Solver.cc and simp/SimpSolver.cc).                                      *)
(*                                                                         *)
(* A reference is an address.  Beside it stands the number of the clause   *)
(* it was made for, which the program does not have: an invariant says     *)
(* that the two still belong together.                                     *)
(***************************************************************************)
EXTENDS Integers, SequencesExt, FiniteSetsExt, Functions

CONSTANTS
  Literals,    \* the literals that index the watcher lists
  Shapes,      \* the clauses that are made: original, learnt or imported, of a size
  MaxClauses,  \* bound on the clauses that are made
  Collections, \* bound on garbage collections
  Fraction     \* garbage_frac, in quarters

VARIABLES
  mem, sz, wasted,     \* the region: the clauses at their addresses, its size and garbage
  watches, dirty, dirties,    \* the watcher lists, and those with deleted clauses
  clauses, queue,      \* the clauses in use, and the subsumption queue
  reason,              \* for a literal that is true, its reason
  made, collected      \* the clauses made, and the garbage collections

region == <<mem, sz, wasted>>
lists == <<watches, dirty, dirties>>
vars == <<region, lists, clauses, queue, reason, made, collected>>

Undef == [cref |-> -1, num |-> 0]
HeaderWords == 2
\* clauseWord32Size
Words(size, extra) == HeaderWords + size + extra
Extra(kind) == CASE kind = "original" -> 0 [] kind = "learnt" -> 1 [] kind = "imported" -> 3

Init ==
  /\ mem = <<>> /\ sz = 0 /\ wasted = 0
  /\ watches = [l \in Literals |-> <<>>] /\ dirty = [l \in Literals |-> FALSE] /\ dirties = <<>>
  /\ clauses = <<>> /\ queue = <<>> /\ reason = [l \in Literals |-> Undef]
  /\ made = <<>> /\ collected = 0

-----------------------------------------------------------------------------
\* alloc, and attachClause to the lists of the first two literals, or of the first only
\* when it goes to the purgatory.
New(kind, size, a, b) ==
  /\ Len(made) < MaxClauses /\ a # b
  /\ LET num == Len(made) + 1
         ref == [cref |-> sz, num |-> num]
         c   == [num |-> num, kind |-> kind, size |-> size, first |-> a, second |-> b, mark |-> 0,
                 oneWatched |-> kind = "imported" /\ size > 2]
     IN  /\ mem' = (sz :> c) @@ mem /\ sz' = sz + Words(size, Extra(kind))
         /\ watches' = [l \in Literals |-> IF l = a \/ (l = b /\ ~ c.oneWatched)
                                             THEN Append(watches[l], ref) ELSE watches[l]]
         /\ clauses' = Append(clauses, ref) /\ made' = Append(made, c)
         /\ queue' = IF kind = "original" THEN Append(queue, ref) ELSE queue
  /\ UNCHANGED <<wasted, dirty, dirties, reason, collected>>

\* The flags change in place: a clause found empty is promoted.
Promote(k) ==
  /\ LET r == clauses[k]  c == mem[r.cref]
     IN  /\ c.oneWatched /\ mem' = [mem EXCEPT ![r.cref].oneWatched = FALSE]
         /\ watches' = [watches EXCEPT ![c.second] = Append(@, r)]
         /\ made' = [made EXCEPT ![r.num].oneWatched = FALSE]
  /\ UNCHANGED <<sz, wasted, dirty, dirties, clauses, queue, reason, collected>>

\* A clause implies its first literal; a binary one either.
Imply(k, l) ==
  /\ LET c == mem[clauses[k].cref]
     IN  reason[l] = Undef /\ ~ c.oneWatched /\ (l = c.first \/ (l = c.second /\ c.size = 2))
  /\ reason' = [reason EXCEPT ![l] = clauses[k]]
  /\ UNCHANGED <<region, lists, clauses, queue, made, collected>>
Backtrack ==
  /\ reason # [l \in Literals |-> Undef] /\ reason' = [l \in Literals |-> Undef]
  /\ UNCHANGED <<region, lists, clauses, queue, made, collected>>

\* locked
Locked(c, cref) ==
  \/ reason[c.first].cref = cref
  \/ c.size = 2 /\ reason[c.second].cref = cref

\* The lists detachClause and detachClausePurgatory mark as dirty.
Smudged(c) == {c.first} \cup IF c.oneWatched THEN {} ELSE {c.second}

\* free: has_extra is 1 whatever the size of the extra fields.
Freed(c) == Words(c.size, Min({1, Extra(c.kind)}))

\* removeClause: the lists it is in become dirty, its memory is counted as garbage, and
\* the reason of its first literal goes if it is locked.
RemoveClause(k) ==
  /\ LET r == clauses[k]
         c == mem[r.cref]
         new == SetToSeq({l \in Smudged(c) : ~ dirty[l]})
     IN  /\ dirty' = [l \in Literals |-> dirty[l] \/ l \in Smudged(c)]
         /\ dirties' = dirties \o new
         /\ reason' = IF Locked(c, r.cref) THEN [reason EXCEPT ![c.first] = Undef] ELSE reason
         /\ mem' = [mem EXCEPT ![r.cref].mark = 1] /\ wasted' = wasted + Freed(c)
         /\ made' = [made EXCEPT ![r.num].mark = 1]
  /\ clauses' = RemoveAt(clauses, k)
  /\ UNCHANGED <<sz, watches, queue, collected>>

-----------------------------------------------------------------------------
Cleaned(l) == SelectSeq(watches[l], LAMBDA r : mem[r.cref].mark = 0)

\* lookup cleans one list; its entry in dirties stays.
Lookup(l) ==
  /\ dirty[l] /\ dirty' = [dirty EXCEPT ![l] = FALSE]
  /\ watches' = [watches EXCEPT ![l] = Cleaned(l)]
  /\ UNCHANGED <<region, dirties, clauses, queue, reason, made, collected>>

\* propagate cleans all lists first.
CleanAll ==
  /\ dirties # <<>> /\ dirties' = <<>>
  /\ watches' = [l \in Literals |-> IF dirty[l] /\ l \in Range(dirties) THEN Cleaned(l) ELSE watches[l]]
  /\ dirty' = [l \in Literals |-> dirty[l] /\ l \notin Range(dirties)]
  /\ UNCHANGED <<region, clauses, queue, reason, made, collected>>

\* The subsumption check takes a clause from the queue; one that was removed is skipped.
TakeFromQueue ==
  /\ queue # <<>> /\ queue' = Tail(queue)
  /\ UNCHANGED <<region, lists, clauses, reason, made, collected>>

-----------------------------------------------------------------------------
\* The reasons relocAll moves: those of a clause that moved already or is locked.
Movable(l) == reason[l] # Undef /\ (mem[reason[l].cref].mark = 0 \/ Locked(mem[reason[l].cref], reason[l].cref))

\* relocAll, in its order: the watchers of all literals, the reasons, the clauses, the queue.
References(w) ==
  FoldSeq(LAMBDA l, s : s \o w[l], <<>>, SetToSeq(Literals))
    \o SetToSeq({reason[l] : l \in {k \in Literals : Movable(k)}}) \o clauses \o queue

\* reloc: the first time a clause is met it is copied behind the others.
Moved(w) ==
  FoldSeq(LAMBDA r, s :
    IF r.cref \in DOMAIN s.to THEN s
    ELSE [to |-> (r.cref :> s.sz) @@ s.to,
          sz |-> s.sz + Words(mem[r.cref].size, Extra(mem[r.cref].kind))],
    [to |-> <<>>, sz |-> 0], References(w))

\* What reloc copies beside the literals: the mark, and of a learnt clause its flags.
Copied(c) == c

\* garbageCollect, when the garbage exceeds the fraction.
GarbageCollect ==
  /\ collected < Collections /\ 4 * wasted > Fraction * sz
  /\ LET w == [l \in Literals |-> IF dirty[l] THEN Cleaned(l) ELSE watches[l]]
         m == Moved(w)
         At(r) == IF r.cref \in DOMAIN m.to THEN [r EXCEPT !.cref = m.to[@]] ELSE r
     IN  /\ mem' = [a \in Range(m.to) |-> Copied(mem[CHOOSE b \in DOMAIN m.to : m.to[b] = a])]
         /\ sz' = m.sz /\ wasted' = 0
         /\ watches' = [l \in Literals |-> [i \in DOMAIN w[l] |-> At(w[l][i])]]
         /\ clauses' = [i \in DOMAIN clauses |-> At(clauses[i])]
         /\ queue' = [i \in DOMAIN queue |-> At(queue[i])]
         /\ reason' = [l \in Literals |-> IF Movable(l) THEN At(reason[l]) ELSE reason[l]]
  /\ dirty' = [l \in Literals |-> FALSE] /\ dirties' = <<>> /\ collected' = collected + 1
  /\ UNCHANGED made

Next ==
  \/ \E s \in Shapes, a, b \in Literals : New(s.kind, s.size, a, b)
  \/ \E k \in DOMAIN clauses : Promote(k) \/ RemoveClause(k) \/ \E l \in Literals : Imply(k, l)
  \/ \E l \in Literals : Lookup(l)
  \/ Backtrack \/ CleanAll \/ TakeFromQueue \/ GarbageCollect

-----------------------------------------------------------------------------
Good(r) == r.cref \in DOMAIN mem /\ mem[r.cref] = made[r.num] /\ mem[r.cref].num = r.num

\* Whatever was removed, cleaned and moved in between, the solver reaches the clauses it
\* uses, and those in the queue, where it believes them to be, with their flags.
NothingDangles ==
  /\ \A k \in DOMAIN clauses : Good(clauses[k])
  /\ \A k \in DOMAIN queue : Good(queue[k])
  /\ \A l \in Literals : reason[l] # Undef => Good(reason[l])
  /\ \A l \in Literals : \A k \in DOMAIN watches[l] : Good(watches[l][k])

\* A list that is not marked as dirty has no clause that was removed, so that reading it
\* without cleaning is safe, and a dirty list is on the agenda of cleanAll.
CleanListsClean ==
  \A l \in Literals :
    /\ ~ dirty[l] => \A k \in DOMAIN watches[l] : mem[watches[l][k].cref].mark = 0
    /\ dirty[l] => l \in Range(dirties)

\* The garbage is never counted too high: the next region, which is made as large as
\* this one without its garbage, holds the clauses in use at least.
RoomForAll ==
  wasted + MapThenSumSet(LAMBDA k : Words(mem[clauses[k].cref].size, Extra(mem[clauses[k].cref].kind)),
                                     DOMAIN clauses) <= sz

\* Every clause in use is watched by its first two literals, or the first in the purgatory,
\* once each, wherever it was moved to.
Attached ==
  \A k \in DOMAIN clauses : LET c == mem[clauses[k].cref] IN \A l \in Literals :
    Cardinality({i \in DOMAIN watches[l] : watches[l][i] = clauses[k]}) = IF l \in Smudged(c) THEN 1 ELSE 0
=============================================================================
