---------------------------- MODULE LifeReversal ----------------------------
(***************************************************************************)
(* main() of src/src/Main.cc and its handler of SIGXCPU (the time limit)   *)
(* and SIGTERM: the board is loaded, searched, and printed, by main() when *)
(* the search answers or by the handler when a signal strikes first.  The  *)
(* handler reads the model wherever the search was interrupted, also while *)
(* MaxSAT::saveModel replaces it.                                          *)
(*                                                                         *)
(* An assignment is the set of live cells, which is the set of soft        *)
(* clauses it falsifies; the search is the promise of module MaxSATSearch, *)
(* which PartMSU3 implements.  The formula is that of module LifeEncoding. *)
(* Operators named ...Wrongly are what a plausible bug would make of the   *)
(* definition that follows each of them; no action uses them.  At the end  *)
(* the three properties of what is shown are proved for any board.         *)
(***************************************************************************)
EXTENDS Naturals, FiniteSets, Sequences, SequenceTheorems, TLAPS

CONSTANTS
  NCells,     \* lin * col
  MaxBoards,  \* bound on the number of previous boards
  NULL        \* no model

ASSUME CellsAssumption == NCells \in Nat /\ NCells > 1 /\ MaxBoards \in Nat

VARIABLES
  feasible,   \* the previous boards; never changes
  best,       \* the last model the search decided to save, or NULL
  lower,      \* its lower bound
  answer,     \* "searching", "OPTIMUM" or "UNSATISFIABLE"
  saved,      \* the last model saved completely, or NULL
  memory,     \* elements of the vector `model', beyond its size too
  size,       \* model.size()
  stage,      \* "loading", "searching", "saving", "printing", "deleted",
              \* "ended" or "crashed"
  handled,    \* signals whose handler was entered
  struck,     \* stage the first of them interrupted
  pos,        \* what the printing loop prints next: 0 the size, c + 1 a cell
  out         \* what was printed

search == <<feasible, best, lower, answer>>
store  == <<saved, memory, size>>
print  == <<handled, struck, pos, out>>
vars   == <<search, store, stage, print>>

Cell == 0 .. NCells - 1

Signals == {"SIGXCPU", "SIGTERM"}

\* What an uninitialized or freed element reads as is arbitrary.
Garbage == "garbage"

\* A formula is the family of its previous boards.
Search == INSTANCE MaxSATSearch
            WITH Soft <- Cell, NoModel <- NULL,
                 Instances <- {I \in SUBSET SUBSET Cell : Cardinality(I) <= MaxBoards}

-----------------------------------------------------------------------------
\* The board an assignment stands for; without one it is all dead.
Alive(F, c) == IF F # NULL /\ c \in F THEN "alive" ELSE "dead"

Board(F) == [k \in 1 .. NCells |-> Alive(F, k - 1)]

\* The size is not looked at.
HasValueWrongly(v) == TRUE

\* getValue(v) is 0 unless v passes this test, which index size does.
HasValue(v) == ~ v > size

\* What is printed for cell c: alive when getValue(c) is positive.
Printed(c) ==
  IF ~ HasValue(1) \/ ~ HasValue(c) THEN {"dead"}
  ELSE IF memory[c] = Garbage THEN {"dead", "alive"}
  ELSE {memory[c]}

-----------------------------------------------------------------------------
Init ==
  /\ Search!Init
  /\ saved = NULL
  /\ memory = [c \in Cell |-> Garbage]
  /\ size = 0
  /\ stage = "loading"
  /\ handled = {}
  /\ struck = "nowhere"
  /\ pos = 0
  /\ out = <<>>

\* Board read, formula built and loaded; mxsolver is set.
Load ==
  /\ stage = "loading"
  /\ stage' = "searching"
  /\ UNCHANGED <<search, store, print>>

ResumeWrongly(a) == "searching"

\* Where the search goes on once its last model is saved.
Resume(a) == IF a = "searching" THEN "searching" ELSE "printing"

\* A step of the algorithm; a model it keeps is copied next.
SearchStep ==
  /\ stage = "searching"
  /\ Search!Next
  /\ IF best' = best
       THEN stage' = Resume(answer') /\ UNCHANGED size
       ELSE stage' = "saving" /\ size' = 0
  /\ UNCHANGED <<saved, memory, print>>

\* The last variable is left out.
SaveStepWrongly ==
  /\ stage = "saving"
  /\ memory' = [memory EXCEPT ![size] = Alive(best, size)]
  /\ size' = size + 1
  /\ IF size' = NCells - 1
       THEN stage' = Resume(answer) /\ saved' = best
       ELSE UNCHANGED <<stage, saved>>
  /\ UNCHANGED <<search, print>>

\* saveModel pushes the variables of the formula one by one.
SaveStep ==
  /\ stage = "saving"
  /\ memory' = [memory EXCEPT ![size] = Alive(best, size)]
  /\ size' = size + 1
  /\ IF size' = NCells
       THEN stage' = Resume(answer) /\ saved' = best
       ELSE UNCHANGED <<stage, saved>>
  /\ UNCHANGED <<search, print>>

\* The size, then cell by cell.
PrintStep(token) ==
  /\ stage = "printing"
  /\ pos <= NCells
  /\ IF pos = 0 THEN token = "size" ELSE token \in Printed(pos - 1)
  /\ out' = Append(out, token)
  /\ pos' = pos + 1
  /\ UNCHANGED <<search, store, stage, handled, struck>>

\* main() deletes the solver before it returns, the handler calls exit.
PrintedAll ==
  /\ stage = "printing"
  /\ pos > NCells
  /\ stage' = IF handled = {} THEN "deleted" ELSE "ended"
  /\ UNCHANGED <<search, store, print>>

Return ==
  /\ stage = "deleted"
  /\ stage' = "ended"
  /\ UNCHANGED <<search, store, print>>

\* A handler starts printing; it never returns to what it interrupted, and is
\* itself interrupted by the other signal only.
Signal(s) ==
  /\ stage \notin {"loading", "ended", "crashed"}
  /\ s \notin handled
  /\ handled' = handled \cup {s}
  /\ struck' = IF handled = {} THEN stage ELSE struck
  /\ stage' = "printing"
  /\ pos' = 0
  /\ IF stage = "deleted"
       THEN size' \in 0 .. NCells /\ memory' = [c \in Cell |-> Garbage]
       ELSE UNCHANGED <<memory, size>>
  /\ UNCHANGED <<search, saved, out>>

\* The handler calls getValue on mxsolver, NULL while the board is loaded and
\* dangling once the solver is deleted.  A crash may lose what stdio buffers.
SignalCrashes(s) ==
  /\ stage \in {"loading", "deleted"}
  /\ s \notin handled
  /\ handled' = handled \cup {s}
  /\ struck' = stage
  /\ stage' = "crashed"
  /\ out' \in {<<>>, Append(out, "size")}
  /\ UNCHANGED <<search, store, pos>>

Program ==
  \/ Load
  \/ SearchStep
  \/ SaveStep
  \/ \E token \in {"size", "dead", "alive"} : PrintStep(token)
  \/ PrintedAll
  \/ Return

Next == Program \/ \E s \in Signals : Signal(s) \/ SignalCrashes(s)

Spec == Init /\ [][Next]_vars

\* The program runs; nothing makes a signal arrive.
FairSpec == Spec /\ WF_vars(Program)

-----------------------------------------------------------------------------
(***************************************************************************)
(* Properties.                                                             *)
(***************************************************************************)
TypeOK ==
  /\ best \in {NULL} \cup feasible
  /\ saved \in {NULL} \cup feasible
  /\ lower \in 0 .. NCells
  /\ answer \in {"searching", "OPTIMUM", "UNSATISFIABLE"}
  /\ memory \in [Cell -> {"dead", "alive", Garbage}]
  /\ size \in 0 .. NCells
  /\ stage \in {"loading", "searching", "saving", "printing", "deleted",
                "ended", "crashed"}
  /\ handled \subseteq Signals
  /\ pos \in 0 .. NCells + 1

\* The last board of the output: the one whose printing was not cut short.
LastBoard == SubSeq(out, Len(out) - NCells + 1, Len(out))

\* A run no signal interrupts prints one board: a previous board with as few
\* live cells as possible or, when there is none, the empty board.
OptimumPrinted ==
  stage = "ended" /\ handled = {} =>
    /\ Len(out) = NCells + 1
    /\ IF feasible = {}
         THEN LastBoard = Board(NULL)
         ELSE \E F \in feasible :
                /\ LastBoard = Board(F)
                /\ \A G \in feasible : Cardinality(F) <= Cardinality(G)

\* Interrupted between two calls of saveModel, or while main() prints, the
\* program shows the best board found, however many signals arrive.
BestPrintedBetweenSaves ==
  stage = "ended" /\ struck \in {"searching", "printing"} =>
    LastBoard = Board(best)

\* Interrupted inside saveModel, it shows the pushed part of the new board; of
\* the rest only the cell after it may be alive, by the bound of getValue.
TornBoardIsPrefix ==
  stage = "ended" /\ struck = "saving" =>
    \A c \in Cell : c # size =>
      LastBoard[c + 1] = IF c < size THEN Alive(best, c) ELSE "dead"

\* The program always ends: it prints and exits, or crashes.
Ends == <>(stage \in {"ended", "crashed"})

\* After the time limit the best solution found is returned
\* (leiame.txt:97-98).  While it is being saved, the one before counts too.
BestReturned ==
  stage = "ended" => LastBoard \in {Board(best), Board(saved)}

\* A solution is printed whenever the program was stopped
\* (leiame.txt:100-101).
SolutionPrinted ==
  stage \in {"ended", "crashed"} =>
    Len(out) > NCells /\ LastBoard \in [1 .. NCells -> {"dead", "alive"}]
-----------------------------------------------------------------------------
(***************************************************************************)
(* What is shown, for every board, every family of previous boards and any *)
(* signals.                                                                *)
(***************************************************************************)
\* The search holds a model of the formula, and answers as it promises.
BestInv ==
  /\ feasible \subseteq SUBSET Cell
  /\ best \in {NULL} \cup feasible
  /\ answer \in {"searching", "OPTIMUM", "UNSATISFIABLE"}
  /\ answer = "OPTIMUM" =>
       best \in feasible /\ \A G \in feasible : Cardinality(best) <= Cardinality(G)
  /\ answer = "UNSATISFIABLE" => feasible = {}

\* The first cells of the saved board are in the vector.
Pushed(n) == \A c \in Cell : c < n => memory[c] = Alive(best, c)

\* The vector holds the whole of the best board, or nothing while there is none.
Whole == (size = NCells /\ Pushed(NCells)) \/ (size = 0 /\ best = NULL)

StoreInv ==
  /\ memory \in [Cell -> {"dead", "alive", Garbage}]
  /\ size \in 0 .. NCells
  /\ stage \in {"loading", "searching"} => answer = "searching" /\ Whole
  /\ stage = "saving" => size < NCells /\ Pushed(size)
  /\ stage \in {"printing", "deleted", "ended"} /\ handled = {} => Whole /\ answer # "searching"

\* What a handler interrupted is what it prints.
StruckInv ==
  /\ stage \in {"loading", "searching", "saving", "printing", "deleted", "ended", "crashed"}
  /\ handled = {} <=> struck = "nowhere"
  /\ stage \in {"loading", "searching", "saving", "deleted"} => handled = {}
  /\ struck \in {"searching", "printing"} => Whole
  /\ struck = "saving" => size < NCells /\ Pushed(size)

\* The last cells of the output are those printed since the size was.
OutInv ==
  /\ out \in Seq({"size", "dead", "alive"})
  /\ pos \in 0 .. NCells + 1
  /\ stage \in {"loading", "searching", "saving"} => pos = 0
  /\ stage \in {"deleted", "ended"} => pos = NCells + 1
  /\ stage # "crashed" => pos <= Len(out)
  /\ handled = {} => pos = Len(out)
  /\ stage \in {"printing", "deleted", "ended"} =>
       \A c \in Cell : c + 1 < pos => out[Len(out) - pos + c + 2] \in Printed(c)

ShownInv == BestInv /\ StoreInv /\ StruckInv /\ OutInv

\* The search counts live cells as this module does.
LEMMA CountsCells == \A S : Search!Cardinality(S) = Cardinality(S)
  BY Zenon DEF Cardinality, Search!Cardinality, IsFiniteSet, Search!IsFiniteSet

\* Nothing is there before the search starts.
LEMMA InitShown == Init => ShownInv
<1> SUFFICES ASSUME Init PROVE ShownInv
  OBVIOUS
<1> USE CellsAssumption DEF Init, Cell
<1>1. BestInv
  BY DEF Search!Init, BestInv
<1>2. StoreInv
  BY DEF Search!Init, StoreInv, Whole
<1>3. StruckInv
  BY DEF StruckInv
<1>4. OutInv
  BY DEF OutInv
<1> QED
  BY <1>1, <1>2, <1>3, <1>4 DEF ShownInv

\* A step of the search keeps its promise; a board it keeps is a previous board.
LEMMA SearchKeeps ==
  ASSUME BestInv, Search!Next
  PROVE  /\ BestInv'
         /\ answer = "searching"
         /\ best' # best => best' \in feasible'
<1> USE DEF BestInv
<1>1. CASE Search!Improve
  BY <1>1 DEF Search!Improve
<1>2. CASE Search!RaiseBound
  BY <1>2 DEF Search!RaiseBound
<1>3. CASE Search!Conclude
  <2>1. PICK F \in feasible : Search!IsLowerBound(Search!Cost(F)) /\ best' = F
    BY <1>3 DEF Search!Conclude
  <2>2. \A G \in feasible : Cardinality(F) <= Cardinality(G)
    BY <2>1, CountsCells DEF Search!IsLowerBound, Search!Cost
  <2> QED
    BY <1>3, <2>1, <2>2 DEF Search!Conclude
<1>4. CASE Search!Refute
  BY <1>4 DEF Search!Refute
<1> QED
  BY <1>1, <1>2, <1>3, <1>4 DEF Search!Next

\* Every step of the program and of its handlers keeps the invariant.
LEMMA LoadShown == ShownInv /\ Load => ShownInv'
  BY DEF ShownInv, BestInv, StoreInv, StruckInv, OutInv, Load, search, store, print,
         Whole, Pushed, Printed, HasValue

\* A model that is kept is saved next; an answer is printed next.
LEMMA SearchShown == ShownInv /\ SearchStep => ShownInv'
<1> SUFFICES ASSUME ShownInv, SearchStep PROVE ShownInv'
  OBVIOUS
<1> USE CellsAssumption DEF ShownInv, SearchStep, print
<1>1. /\ BestInv'
      /\ answer = "searching"
      /\ best' # best => best' \in feasible'
  BY SearchKeeps
<1>2. CASE best' = best
  <2>1. Whole'
    BY <1>2 DEF StoreInv, Whole, Pushed
  <2>2. stage' = IF answer' = "searching" THEN "searching" ELSE "printing"
    BY <1>2 DEF Resume
  <2>3. StoreInv'
    BY <1>2, <2>1, <2>2 DEF StoreInv
  <2>4. StruckInv'
    BY <1>2, <2>1, <2>2 DEF StruckInv
  <2>5. OutInv'
    BY <1>2, <2>2 DEF OutInv, StruckInv, Cell
  <2> QED
    BY <1>1, <2>3, <2>4, <2>5
<1>3. CASE best' # best
  <2>1. stage' = "saving" /\ size' = 0
    BY <1>3
  <2>2. StoreInv'
    BY <2>1 DEF StoreInv, Pushed, Cell
  <2>3. StruckInv'
    BY <2>1 DEF StruckInv
  <2>4. OutInv'
    BY <2>1 DEF OutInv
  <2> QED
    BY <1>1, <2>2, <2>3, <2>4
<1> QED
  BY <1>2, <1>3

\* The vector grows by the next cell of the best board.
LEMMA SaveShown == ShownInv /\ SaveStep => ShownInv'
<1> SUFFICES ASSUME ShownInv, SaveStep PROVE ShownInv'
  OBVIOUS
<1> USE CellsAssumption DEF ShownInv, SaveStep, search, print
<1>1. size < NCells /\ Pushed(size) /\ size \in 0 .. NCells
  BY DEF StoreInv
<1>2. Pushed(size)'
  BY <1>1 DEF Pushed, Cell, StoreInv, Alive
<1>3. memory' \in [Cell -> {"dead", "alive", Garbage}] /\ size' \in 0 .. NCells
  BY <1>1 DEF StoreInv, Cell, Alive
<1>4. BestInv'
  BY DEF BestInv
<1>5. handled = {} /\ handled' = {} /\ struck' = "nowhere"
  BY DEF StruckInv
<1>6. CASE size' = NCells
  <2>1. Whole'
    BY <1>2, <1>6 DEF Whole, Pushed
  <2>2. stage' = IF answer' = "searching" THEN "searching" ELSE "printing"
    BY <1>6 DEF Resume
  <2>3. StoreInv'
    BY <1>3, <2>1, <2>2 DEF StoreInv
  <2>4. StruckInv'
    BY <1>5, <2>2 DEF StruckInv
  <2>5. OutInv'
    BY <1>5, <2>2 DEF OutInv, Cell
  <2> QED
    BY <1>4, <2>3, <2>4, <2>5
<1>7. CASE size' # NCells
  <2>1. stage' = "saving"
    BY <1>7
  <2>2. StoreInv'
    BY <1>1, <1>2, <1>3, <1>7, <2>1 DEF StoreInv, Pushed
  <2>3. StruckInv'
    BY <1>5, <2>1 DEF StruckInv
  <2>4. OutInv'
    BY <1>5, <2>1 DEF OutInv
  <2> QED
    BY <1>4, <2>2, <2>3, <2>4
<1> QED
  BY <1>6, <1>7

\* The token of a cell follows those of the cells before it.
LEMMA PrintShown ==
  ASSUME ShownInv, NEW token \in {"size", "dead", "alive"}, PrintStep(token)
  PROVE  ShownInv'
<1> USE CellsAssumption DEF ShownInv, PrintStep, search, store
<1>1. BestInv'
  BY DEF BestInv
<1>2. StoreInv'
  BY DEF StoreInv, Whole, Pushed
<1>3. StruckInv'
  BY DEF StruckInv, Whole, Pushed
<1>4. /\ out' \in Seq({"size", "dead", "alive"})
      /\ Len(out') = Len(out) + 1
      /\ \A i \in 1 .. Len(out) : out'[i] = out[i]
      /\ out'[Len(out) + 1] = token
      /\ Len(out) \in Nat /\ pos \in 0 .. NCells /\ pos <= Len(out)
  BY DEF OutInv
<1>5. ASSUME NEW c \in Cell, c + 1 < pos'
      PROVE  out'[Len(out') - pos' + c + 2] \in Printed(c)
  <2>1. c \in Nat /\ c < NCells /\ pos' = pos + 1 /\ Len(out') - pos' = Len(out) - pos
    BY <1>4 DEF Cell
  <2>2. CASE c + 1 < pos
    <3>1. Len(out) - pos + c + 2 \in 1 .. Len(out)
      BY <1>4, <2>1, <2>2
    <3> QED
      BY <1>4, <2>1, <2>2, <3>1 DEF OutInv
  <2>3. CASE c + 1 = pos
    <3>1. Len(out) - pos + c + 2 = Len(out) + 1
      BY <1>4, <2>1, <2>3
    <3>2. token \in Printed(c)
      BY <1>4, <2>1, <2>3
    <3> QED
      BY <1>4, <2>1, <3>1, <3>2
  <2> QED
    BY <1>4, <1>5, <2>1, <2>2, <2>3
<1>6. \A c \in Cell : Printed(c)' = Printed(c)
  BY DEF Printed, HasValue
<1>7. /\ pos' \in 0 .. NCells + 1 /\ stage = "printing" /\ stage' = stage
      /\ pos' <= Len(out') /\ (handled' = {} => pos' = Len(out'))
  BY <1>4 DEF OutInv
<1>8. OutInv'
  BY <1>4, <1>5, <1>6, <1>7 DEF OutInv
<1> QED
  BY <1>1, <1>2, <1>3, <1>8

\* Nothing is printed after the last cell.
LEMMA EndShown == ShownInv /\ (PrintedAll \/ Return) => ShownInv'
<1> SUFFICES ASSUME ShownInv, PrintedAll \/ Return PROVE ShownInv'
  OBVIOUS
<1> USE CellsAssumption DEF ShownInv, PrintedAll, Return, search, store, print
<1>1. BestInv'
  BY DEF BestInv
<1>2. StoreInv'
  BY DEF StoreInv, Whole, Pushed
<1>3. StruckInv'
  BY DEF StruckInv, Whole, Pushed
<1>4. \A c \in Cell : Printed(c)' = Printed(c)
  BY DEF Printed, HasValue
<1>5. CASE PrintedAll
  <2>1. pos = NCells + 1 /\ stage' \in {"deleted", "ended"}
    BY <1>5 DEF OutInv
  <2> QED
    BY <1>1, <1>2, <1>3, <1>4, <1>5, <2>1 DEF OutInv
<1>6. CASE Return
  BY <1>1, <1>2, <1>3, <1>4, <1>6 DEF OutInv
<1> QED
  BY <1>5, <1>6

\* A handler leaves the vector as it finds it, unless the solver is deleted.
LEMMA SignalShown ==
  ASSUME ShownInv, NEW s \in Signals, Signal(s) \/ SignalCrashes(s)
  PROVE  ShownInv'
<1> USE CellsAssumption DEF ShownInv, Signal, SignalCrashes, search, store
<1>1. BestInv'
  BY DEF BestInv
<1>2. handled' # {} /\ stage' \in {"printing", "crashed"}
  OBVIOUS
<1>3. StoreInv'
  BY <1>2 DEF StoreInv
<1>4. StruckInv'
  BY <1>2 DEF StruckInv, StoreInv, Whole, Pushed
<1>5. out \in Seq({"size", "dead", "alive"}) /\ Len(out) \in Nat
  BY DEF OutInv
<1>6. CASE Signal(s)
  <2>1. pos' = 0 /\ out' = out /\ \A c \in Cell : c \in Nat
    BY <1>6 DEF Cell
  <2>2. OutInv'
    BY <1>2, <1>5, <2>1 DEF OutInv
  <2> QED
    BY <1>1, <1>3, <1>4, <2>2
<1>7. CASE SignalCrashes(s)
  <2>1. /\ out' \in Seq({"size", "dead", "alive"})
        /\ pos' = pos /\ stage' = "crashed"
    <3>1. out' = <<>> \/ out' = Append(out, "size")
      BY <1>7
    <3>2. <<>> \in Seq({"size", "dead", "alive"})
      BY EmptySeq
    <3>3. Append(out, "size") \in Seq({"size", "dead", "alive"})
      BY <1>5
    <3> QED
      BY <1>7, <3>1, <3>2, <3>3
  <2>2. pos' \in 0 .. NCells + 1
    BY <2>1 DEF OutInv
  <2>3. OutInv'
    BY <1>2, <2>1, <2>2 DEF OutInv
  <2> QED
    BY <1>1, <1>3, <1>4, <2>3
<1> QED
  BY <1>6, <1>7

\* No step breaks the invariant.
LEMMA NextShown == ShownInv /\ [Next]_vars => ShownInv'
<1> SUFFICES ASSUME ShownInv, [Next]_vars PROVE ShownInv'
  OBVIOUS
<1>1. CASE UNCHANGED vars
  BY <1>1 DEF vars, search, store, print, ShownInv, BestInv, StoreInv, StruckInv, OutInv,
              Whole, Pushed, Printed, HasValue
<1>2. CASE Program
  BY <1>2, LoadShown, SearchShown, SaveShown, PrintShown, EndShown DEF Program
<1>3. CASE \E s \in Signals : Signal(s) \/ SignalCrashes(s)
  BY <1>3, SignalShown
<1> QED
  BY <1>1, <1>2, <1>3 DEF Next

\* The output and the vector agree whenever and however often signals strike.
THEOREM ShownIsStored == Spec => []ShownInv
  BY InitShown, NextShown, PTL DEF Spec

\* The last board of a run that ended is read off the vector.
LEMMA LastBoardPrinted ==
  ASSUME ShownInv, stage = "ended"
  PROVE  /\ \A c \in Cell : LastBoard[c + 1] \in Printed(c)
         /\ LastBoard \in Seq({"size", "dead", "alive"}) /\ Len(LastBoard) = NCells
<1> USE CellsAssumption DEF ShownInv
<1>1. /\ out \in Seq({"size", "dead", "alive"}) /\ Len(out) \in Nat
      /\ pos = NCells + 1 /\ pos <= Len(out)
  BY DEF OutInv
<1>2. \A i \in Len(out) - NCells + 1 .. Len(out) : out[i] \in {"size", "dead", "alive"}
  BY <1>1
<1>3. /\ LastBoard \in Seq({"size", "dead", "alive"})
      /\ Len(LastBoard) = NCells
      /\ \A i \in 1 .. NCells : LastBoard[i] = out[Len(out) - NCells + i]
  BY <1>1, <1>2, SubSeqProperties, Z3 DEF LastBoard
<1>4. ASSUME NEW c \in Cell PROVE LastBoard[c + 1] \in Printed(c)
  <2>1. c \in Nat /\ c + 1 \in 1 .. NCells
    BY DEF Cell
  <2>2. out[Len(out) - pos + c + 2] \in Printed(c)
    BY <1>1, <2>1 DEF OutInv
  <2> QED
    BY <1>1, <1>3, <2>1, <2>2
<1> QED
  BY <1>3, <1>4

\* A whole vector is printed as the best board.
LEMMA WholeIsPrinted ==
  ASSUME ShownInv, stage = "ended", Whole
  PROVE  LastBoard = Board(best)
<1> USE CellsAssumption
<1>1. ASSUME NEW c \in Cell PROVE LastBoard[c + 1] = Alive(best, c)
  <2>1. LastBoard[c + 1] \in Printed(c) /\ c \in Nat /\ c < NCells
    BY LastBoardPrinted DEF Cell
  <2>2. CASE size = 0 /\ best = NULL
    BY <2>1, <2>2 DEF Printed, HasValue, Alive
  <2>3. CASE size = NCells /\ Pushed(NCells)
    BY <2>1, <2>3 DEF Printed, HasValue, Alive, Pushed, Garbage
  <2> QED
    BY <2>2, <2>3 DEF Whole
<1>2. ASSUME NEW i \in 1 .. NCells PROVE LastBoard[i] = Board(best)[i]
  <2>1. i - 1 \in Cell /\ (i - 1) + 1 = i
    BY DEF Cell
  <2> QED
    BY <1>1, <2>1 DEF Board
<1>3. Board(best) \in Seq({"size", "dead", "alive"}) /\ Len(Board(best)) = NCells
  BY DEF Board, Alive
<1> QED
  BY <1>2, <1>3, LastBoardPrinted, SeqEqual

\* Interrupted between two saves or while printing, the program shows the best board
\* found, however many signals arrive (Main.cc:81-102 with MaxSAT.cc:136-152).
THEOREM ShowsBest == Spec => []BestPrintedBetweenSaves
<1>1. ShownInv => BestPrintedBetweenSaves
  BY WholeIsPrinted DEF BestPrintedBetweenSaves, ShownInv, StruckInv
<1> QED
  BY <1>1, ShownIsStored, PTL

\* Without signals the program shows a previous board with the fewest live cells, or the
\* empty board when there is none (Main.cc:565-592).
THEOREM ShowsOptimum == Spec => []OptimumPrinted
<1>1. ASSUME ShownInv, stage = "ended", handled = {}
      PROVE  /\ Len(out) = NCells + 1
             /\ IF feasible = {}
                  THEN LastBoard = Board(NULL)
                  ELSE \E F \in feasible :
                         /\ LastBoard = Board(F)
                         /\ \A G \in feasible : Cardinality(F) <= Cardinality(G)
  <2>1. Len(out) = NCells + 1
    BY <1>1 DEF ShownInv, OutInv
  <2>2. LastBoard = Board(best) /\ answer # "searching"
    BY <1>1, WholeIsPrinted DEF ShownInv, StoreInv
  <2>3. CASE feasible = {}
    BY <1>1, <2>1, <2>2, <2>3 DEF ShownInv, BestInv
  <2>4. CASE feasible # {}
    BY <1>1, <2>1, <2>2, <2>4 DEF ShownInv, BestInv
  <2> QED
    BY <2>3, <2>4
<1>2. ShownInv => OptimumPrinted
  BY <1>1 DEF OptimumPrinted
<1> QED
  BY <1>2, ShownIsStored, PTL

\* Interrupted inside saveModel, it shows the cells pushed so far, and of those behind
\* them none is alive but the next one (MaxSAT.cc:140, MaxSAT.h:198).
THEOREM ShowsPrefix == Spec => []TornBoardIsPrefix
<1>1. ASSUME ShownInv, stage = "ended", struck = "saving", NEW c \in Cell, c # size
      PROVE  LastBoard[c + 1] = IF c < size THEN Alive(best, c) ELSE "dead"
  <2>1. LastBoard[c + 1] \in Printed(c)
    BY <1>1, LastBoardPrinted
  <2>2. Pushed(size) /\ size \in Nat /\ c \in Nat
    BY <1>1, CellsAssumption DEF ShownInv, StruckInv, StoreInv, Cell
  <2>3. CASE c < size
    BY <1>1, <2>1, <2>2, <2>3 DEF Printed, HasValue, Pushed, Alive, Garbage
  <2>4. CASE c > size
    BY <2>1, <2>2, <2>4 DEF Printed, HasValue
  <2> QED
    BY <1>1, <2>2, <2>3, <2>4
<1>2. ShownInv => TornBoardIsPrefix
  BY <1>1 DEF TornBoardIsPrefix
<1> QED
  BY <1>2, ShownIsStored, PTL
=============================================================================
