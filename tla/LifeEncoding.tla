---------------------------- MODULE LifeEncoding ----------------------------
(***************************************************************************)
(* The formula Main.cc builds from a board of the Game of Life: one        *)
(* variable per cell of the previous board, hard clauses that force every  *)
(* cell to its state in the given board, one soft clause per cell that     *)
(* wants it dead.  The literals are written with index arithmetic on the   *)
(* flattened board, in an order of nested loops.                           *)
(*                                                                         *)
(* The line loop starts at column 0, so two of its rules are applied to    *)
(* the corners of column 0 with indices of the wrong row, one of them -1.  *)
(* Operators named ...Wrongly are what a plausible bug would make of the   *)
(* definition that follows each of them; no action uses them.  At the end  *)
(* it is proved, for boards of every size, that the clauses are right.     *)
(***************************************************************************)
EXTENDS Integers, FiniteSets, FiniteSetsExt, FiniteSetTheorems, TLAPS

CONSTANT MaxCells   \* bound on lin * col

ASSUME SizesAssumption == MaxCells \in Nat /\ MaxCells >= 9

\* Boards with an interior cell.
Sizes == {s \in (3 .. MaxCells) \X (3 .. MaxCells) : s[1] * s[2] <= MaxCells}

VARIABLES
  lin, col,   \* size of the board
  board,      \* board_t1, the set of its live cells
  stray,      \* whether the solver finds l_True where assigns[-1] would be
  stage,      \* the loop of main() being executed, or "loaded"
  i, j,       \* loop counters
  hard, soft  \* clauses of the formula, as the solver takes them

vars == <<lin, col, board, stray, stage, i, j, hard, soft>>

-----------------------------------------------------------------------------
Cell == 0 .. lin * col - 1

Interior == {r * col + c : r \in 1 .. lin - 2, c \in 1 .. col - 2}

Clause(pos, neg) == [pos |-> pos, neg |-> neg]

\* The clauses of `family' as Solver::addClause_ takes them.  It compares the
\* literals with lit_Undef and lit_Error, which are the literals of variable
\* -1: the negative one satisfies the clause, the positive one is taken for a
\* repeated literal unless the value it reads in front of assigns is l_True.
Strayed(c) == -1 \in c.neg \/ (stray /\ -1 \in c.pos)

Taken(family) ==
  {Clause(c.pos \ {-1}, c.neg) : c \in {d \in family : ~ Strayed(d)}}

LonelinessWrongly(N) == {Clause(S, {}) : S \in kSubset(6, N)}

\* Seven of the eight neighbours N of a cell that lives on: one is alive.
Loneliness(N) == {Clause(S, {}) : S \in kSubset(7, N)}

\* Two live neighbours keep only a live cell alive.
Stagnation(c, N) == {Clause((N \ S) \cup {c}, S) : S \in kSubset(2, N)}

\* No four neighbours are alive.
Overcrowding(N) == {Clause({}, S) : S \in kSubset(4, N)}

\* A live cell with two live neighbours would live on.
Preservation(c, N) == {Clause(N \ S, S \cup {c}) : S \in kSubset(2, N)}

\* A cell with three live neighbours would live.
Life(N) == {Clause(N \ S, S) : S \in kSubset(3, N)}

AliveRules(c, N) == Loneliness(N) \cup Stagnation(c, N) \cup Overcrowding(N)

DeadRules(c, N) == Preservation(c, N) \cup Life(N)

-----------------------------------------------------------------------------
\* The neighbours as the code computes them, for the cell in row r, column c.
InteriorNeighbours(r, c) ==
  {k * col + c + d : k \in {r - 1, r + 1}, d \in -1 .. 1}
    \cup {r * col + c - 1, r * col + c + 1}

CornerRules ==
  DeadRules(0, {1, col, col + 1})
    \cup DeadRules(col - 1, {col - 2, 2 * col - 1, 2 * col - 2})
    \cup DeadRules((lin - 1) * col,
                   {(lin - 1) * col + 1, (lin - 2) * col, (lin - 2) * col + 1})
    \cup DeadRules(lin * col - 1,
                   {lin * col - 2, (lin - 1) * col - 1, (lin - 1) * col - 2})

FirstLineRules(c) == DeadRules(c, {c - 1, c + 1, col + c - 1, col + c, col + c + 1})

LastLineRules(c) ==
  LET last == (lin - 1) * col + c
      over == (lin - 2) * col + c
  IN  DeadRules(last, {last - 1, last + 1, over - 1, over, over + 1})

LeftColumnRules(r) ==
  DeadRules(r * col, {(r - 1) * col, (r - 1) * col + 1, r * col + 1,
                      (r + 1) * col, (r + 1) * col + 1})

RightColumnRules(r) ==
  DeadRules((r + 1) * col - 1, {r * col - 1, r * col - 2, (r + 1) * col - 2,
                                (r + 2) * col - 2, (r + 2) * col - 1})

-----------------------------------------------------------------------------
AddHard(family) == hard' = hard \cup Taken(family)

Goto(next, row, column) == stage' = next /\ i' = row /\ j' = column

Input == <<lin, col, board, stray>>

\* The board is read.  The code looks at no border cell of it, which are all
\* dead or all alive here (bound).
Init ==
  /\ \E size \in Sizes : lin = size[1] /\ col = size[2]
  /\ \E alive \in SUBSET Interior, border \in {{}, Cell \ Interior} :
       board = alive \cup border
  /\ stray \in BOOLEAN
  /\ stage = "interior" /\ i = 1 /\ j = 1
  /\ hard = {}
  /\ soft = {}

EncodeInterior ==
  LET c == i * col + j
      N == InteriorNeighbours(i, j)
  IN  /\ stage = "interior"
      /\ AddHard(IF c \in board THEN AliveRules(c, N) ELSE DeadRules(c, N))
      /\ IF j < col - 2 THEN Goto("interior", i, j + 1)
         ELSE IF i < lin - 2 THEN Goto("interior", i + 1, 1)
         ELSE Goto("corners", 0, 0)
      /\ UNCHANGED <<Input, soft>>

EncodeCorners ==
  /\ stage = "corners"
  /\ AddHard(CornerRules)
  /\ Goto("lines", 0, 0)
  /\ UNCHANGED <<Input, soft>>

EncodeLines ==
  /\ stage = "lines"
  /\ AddHard(FirstLineRules(j) \cup LastLineRules(j))
  /\ IF j < col - 2 THEN Goto("lines", 0, j + 1) ELSE Goto("columns", 1, 0)
  /\ UNCHANGED <<Input, soft>>

EncodeColumns ==
  /\ stage = "columns"
  /\ AddHard(LeftColumnRules(i) \cup RightColumnRules(i))
  /\ IF i < lin - 2 THEN Goto("columns", i + 1, 0) ELSE Goto("soft", 0, 0)
  /\ UNCHANGED <<Input, soft>>

EncodeSoft ==
  /\ stage = "soft"
  /\ soft' = {Clause({}, {c}) : c \in Cell}
  /\ Goto("loaded", 0, 0)
  /\ UNCHANGED <<Input, hard>>

Next == EncodeInterior \/ EncodeCorners \/ EncodeLines \/ EncodeColumns \/ EncodeSoft

Spec == Init /\ [][Next]_vars

-----------------------------------------------------------------------------
(***************************************************************************)
(* The rules of the game, on coordinates.                                  *)
(***************************************************************************)
Adjacent(c, d) ==
  /\ c # d
  /\ (c \div col) - (d \div col) \in -1 .. 1
  /\ (c % col) - (d % col) \in -1 .. 1

Neighbours(c) == {d \in Cell : Adjacent(c, d)}

\* The live cells one generation after A, on a board surrounded by dead cells.
Generation(A) ==
  {c \in Cell : LET n == Cardinality(A \cap Neighbours(c))
                IN  n = 3 \/ (n = 2 /\ c \in A)}

\* What the given board asks of its previous one: border cells are dead.
Goal == board \cap Interior

LastColumn == {r * col + col - 1 : r \in 0 .. lin - 1}

IsModel(A) == \A c \in hard : ~ (c.neg \subseteq A) \/ c.pos \cap A # {}

(***************************************************************************)
(* Properties.                                                             *)
(***************************************************************************)
TypeOK ==
  /\ <<lin, col>> \in Sizes
  /\ board \subseteq Cell
  /\ stray \in BOOLEAN
  /\ stage \in {"interior", "corners", "lines", "columns", "soft", "loaded"}
  /\ i \in 0 .. lin - 1 /\ j \in 0 .. col - 1
  /\ \A c \in hard \cup soft : c.pos \subseteq Cell /\ c.neg \subseteq Cell

\* Whatever the solver answers is a previous board: every model of the hard
\* clauses (Main.cc:227-556) turns into the given board.
Sound ==
  stage = "loaded" => \A A \in SUBSET Cell : IsModel(A) => Generation(A) = Goal

\* The clauses exclude no previous board whose last column is dead, whatever
\* is read for the stray index: there the wrong rules of the line loop ask
\* what the rules of the corners ask.
CompleteWithoutWrap ==
  \A A \in SUBSET (Cell \ LastColumn) : Generation(A) = Goal => IsModel(A)

\* The clauses are an encoding of the game on the boards with a dead last column: the
\* board found is a previous one, and one is found if there is any (Main.cc:227-600).
ExactWithoutWrap == Sound /\ CompleteWithoutWrap

\* The reading of the border in leiame.txt:80-82: a corner has three
\* neighbours, any other border cell five.  Then every previous board is a
\* model.
Complete ==
  stage = "loaded" => \A A \in SUBSET Cell : Generation(A) = Goal => IsModel(A)
-----------------------------------------------------------------------------
(***************************************************************************)
(* What is shown, for boards of every size.                                *)
(***************************************************************************)
\* IsModel(A) is Meets(A, hard).
Meets(A, family) == \A c \in family : ~ (c.neg \subseteq A) \/ c.pos \cap A # {}

Lives(c, A, N) == LET n == Cardinality(A \cap N) IN n = 3 \/ (n = 2 /\ c \in A)

\* The rules of a dead cell exclude that it lives; they see no more of its neighbours
\* than which of them are alive.
LEMMA DeadRulesExact ==
  ASSUME NEW A, NEW c, NEW N
  PROVE  Meets(A, DeadRules(c, N)) <=> ~ Lives(c, A, N)
<1>1. ASSUME Meets(A, DeadRules(c, N)), Lives(c, A, N) PROVE FALSE
  <2> DEFINE S == A \cap N
  <2>1. S \in SUBSET N /\ (N \ S) \cap A = {}
    OBVIOUS
  <2>2. CASE Cardinality(S) = 3
    <3>1. Clause(N \ S, S) \in DeadRules(c, N)
      BY <2>1, <2>2 DEF DeadRules, Life, kSubset
    <3> QED
      BY <1>1, <2>1, <3>1 DEF Meets, Clause
  <2>3. CASE Cardinality(S) = 2 /\ c \in A
    <3>1. Clause(N \ S, S \cup {c}) \in DeadRules(c, N)
      BY <2>1, <2>3 DEF DeadRules, Preservation, kSubset
    <3> QED
      BY <1>1, <2>1, <2>3, <3>1 DEF Meets, Clause
  <2> QED
    BY <1>1, <2>2, <2>3 DEF Lives
<1>2. ASSUME ~ Lives(c, A, N), NEW d \in DeadRules(c, N),
             d.neg \subseteq A, d.pos \cap A = {}
      PROVE  FALSE
  <2>1. ASSUME NEW S \in SUBSET N, S \subseteq A, (N \ S) \cap A = {} PROVE S = A \cap N
    BY <2>1
  <2>2. CASE d \in Preservation(c, N)
    <3>1. PICK S \in SUBSET N : Cardinality(S) = 2 /\ d = Clause(N \ S, S \cup {c})
      BY <2>2 DEF Preservation, kSubset
    <3>2. S = A \cap N /\ c \in A
      BY <1>2, <2>1, <3>1 DEF Clause
    <3> QED
      BY <1>2, <3>1, <3>2 DEF Lives
  <2>3. CASE d \in Life(N)
    <3>1. PICK S \in SUBSET N : Cardinality(S) = 3 /\ d = Clause(N \ S, S)
      BY <2>3 DEF Life, kSubset
    <3>2. S = A \cap N
      BY <1>2, <2>1, <3>1 DEF Clause
    <3> QED
      BY <1>2, <3>1, <3>2 DEF Lives
  <2> QED
    BY <2>2, <2>3 DEF DeadRules
<1> QED
  BY <1>1, <1>2 DEF Meets

\* A finite set has subsets of every size up to its own.
LEMMA SubsetOfSize ==
  ASSUME NEW S, IsFiniteSet(S), NEW k \in Nat, k <= Cardinality(S)
  PROVE  kSubset(k, S) # {}
<1> DEFINE n == Cardinality(S)
<1>1. n \in Nat /\ ExistsBijection(1 .. n, S)
  BY FS_CardinalityType
<1>2. PICK f \in Bijection(1 .. n, S) : TRUE
  BY <1>1 DEF ExistsBijection
<1> HIDE DEF n
<1> DEFINE T == {f[x] : x \in 1 .. k}
           g == [x \in 1 .. k |-> f[x]]
<1>3. \A x \in 1 .. k : x \in 1 .. n
  BY <1>1 DEF n
<1>4. T \in SUBSET S
  BY <1>2, <1>3 DEF Bijection, Injection
<1>5. g \in Bijection(1 .. k, T)
  BY <1>2, <1>3 DEF Bijection, Injection, Surjection, IsInjective
<1>6. IsFiniteSet(1 .. k) /\ Cardinality(1 .. k) = k
  BY FS_Interval
<1>7. Cardinality(T) = k
  BY <1>5, <1>6, FS_Bijection, Zenon DEF ExistsBijection
<1> QED
  BY <1>4, <1>7 DEF kSubset

\* The rules of a live cell force it to live when it has eight neighbours.
LEMMA AliveRulesExact ==
  ASSUME NEW A, NEW c, NEW N, IsFiniteSet(N), Cardinality(N) = 8
  PROVE  Meets(A, AliveRules(c, N)) <=> Lives(c, A, N)
<1> DEFINE S == A \cap N
           n == Cardinality(S)
<1>1. /\ IsFiniteSet(S) /\ n \in Nat
      /\ IsFiniteSet(N \ A) /\ Cardinality(N \ A) = 8 - n
  <2>1. N \cap A = S
    OBVIOUS
  <2> QED
    BY <2>1, FS_Intersection, FS_Difference, FS_CardinalityType
<1>2. ASSUME Meets(A, AliveRules(c, N)) PROVE Lives(c, A, N)
  <2>1. n >= 2
    <3> SUFFICES ASSUME n < 2 PROVE FALSE
      BY <1>1
    <3>1. 7 \in Nat /\ 7 <= Cardinality(N \ A) /\ IsFiniteSet(N \ A)
      BY <1>1
    <3>2. kSubset(7, N \ A) # {}
      BY <3>1, SubsetOfSize
    <3>3. PICK T \in SUBSET (N \ A) : Cardinality(T) = 7
      BY <3>2 DEF kSubset
    <3>4. Clause(T, {}) \in AliveRules(c, N)
      BY <3>3 DEF AliveRules, Loneliness, kSubset
    <3> QED
      BY <1>2, <3>3, <3>4 DEF Meets, Clause
  <2>2. n <= 3
    <3> SUFFICES ASSUME n > 3 PROVE FALSE
      BY <1>1
    <3>1. 4 \in Nat /\ 4 <= Cardinality(S) /\ IsFiniteSet(S)
      BY <1>1
    <3>2. kSubset(4, S) # {}
      BY <3>1, SubsetOfSize
    <3>3. PICK T \in SUBSET S : Cardinality(T) = 4
      BY <3>2 DEF kSubset
    <3>4. Clause({}, T) \in AliveRules(c, N)
      BY <3>3 DEF AliveRules, Overcrowding, kSubset
    <3> QED
      BY <1>2, <3>3, <3>4 DEF Meets, Clause
  <2>3. n = 2 => c \in A
    <3> SUFFICES ASSUME n = 2, c \notin A PROVE FALSE
      OBVIOUS
    <3>1. Clause((N \ S) \cup {c}, S) \in AliveRules(c, N)
      BY DEF AliveRules, Stagnation, kSubset
    <3> QED
      BY <1>2, <3>1 DEF Meets, Clause
  <2> QED
    BY <1>1, <2>1, <2>2, <2>3 DEF Lives
<1>3. ASSUME Lives(c, A, N), NEW d \in AliveRules(c, N),
             d.neg \subseteq A, d.pos \cap A = {}
      PROVE  FALSE
  <2>1. CASE d \in Loneliness(N)
    <3>1. PICK T \in SUBSET N : Cardinality(T) = 7 /\ d = Clause(T, {})
      BY <2>1 DEF Loneliness, kSubset
    <3>2. T \in SUBSET (N \ A)
      BY <1>3, <3>1 DEF Clause
    <3>3. 7 <= 8 - n
      BY <1>1, <3>1, <3>2, FS_Subset
    <3> QED
      BY <1>1, <1>3, <3>3 DEF Lives
  <2>2. CASE d \in Stagnation(c, N)
    <3>1. PICK T \in SUBSET N : Cardinality(T) = 2 /\ d = Clause((N \ T) \cup {c}, T)
      BY <2>2 DEF Stagnation, kSubset
    <3>2. T = S /\ c \notin A
      BY <1>3, <3>1 DEF Clause
    <3> QED
      BY <1>3, <3>1, <3>2 DEF Lives
  <2>3. CASE d \in Overcrowding(N)
    <3>1. PICK T \in SUBSET N : Cardinality(T) = 4 /\ d = Clause({}, T)
      BY <2>3 DEF Overcrowding, kSubset
    <3>2. T \in SUBSET S
      BY <1>3, <3>1 DEF Clause
    <3>3. 4 <= n
      BY <1>1, <3>1, <3>2, FS_Subset
    <3> QED
      BY <1>1, <1>3, <3>3 DEF Lives
  <2> QED
    BY <2>1, <2>2, <2>3 DEF AliveRules
<1> QED
  BY <1>2, <1>3 DEF Meets

\* What the solver takes of a family a model of the family satisfies.
LEMMA TakenMeets ==
  ASSUME NEW A, -1 \notin A, NEW family, Meets(A, family)
  PROVE  Meets(A, Taken(family))
BY DEF Meets, Taken, Strayed, Clause

\* Nothing is dropped or shortened without a literal of variable -1.
LEMMA TakenWhole ==
  ASSUME NEW A, NEW family, Meets(A, Taken(family)),
         \A c \in family : -1 \notin c.pos /\ -1 \notin c.neg
  PROVE  Meets(A, family)
<1> SUFFICES ASSUME NEW c \in family PROVE ~ (c.neg \subseteq A) \/ c.pos \cap A # {}
  BY DEF Meets
<1>1. ~ Strayed(c) /\ c.pos \ {-1} = c.pos
  BY DEF Strayed
<1>2. Clause(c.pos, c.neg) \in Taken(family)
  BY <1>1, Zenon DEF Taken
<1> QED
  BY <1>2 DEF Meets, Clause

-----------------------------------------------------------------------------
\* A cell by its row and column.
At(r, d) == r * col + d

Size == lin \in Nat /\ lin >= 3 /\ col \in Nat /\ col >= 3

\* The rows and columns a neighbour can be in.
Rows(r) == {r - 1, r, r + 1} \cap (0 .. lin - 1)

Columns(d) == {d - 1, d, d + 1} \cap (0 .. col - 1)

\* The first cell of a row comes a whole row after the first cell of one above it.
LEMMA RowsApart ==
  ASSUME NEW m \in Nat, NEW q \in Int, NEW r \in Int, q < r
  PROVE  q * m + m <= r * m
<1>1. (r - q - 1) * m >= 0
  <2>1. r - q - 1 \in Nat
    OBVIOUS
  <2> QED
    BY <2>1
<1> QED
  BY <1>1

\* A number is written with one row and one column only.
LEMMA OneRowAndColumn ==
  ASSUME NEW m \in Nat, NEW q \in Int, NEW r \in Int, NEW d \in 0 .. m - 1, NEW e \in 0 .. m - 1,
         q * m + d = r * m + e
  PROVE  q = r /\ d = e
<1>1. CASE q < r
  BY <1>1, RowsApart
<1>2. CASE r < q
  BY <1>2, RowsApart
<1>3. CASE q = r
  BY <1>3
<1> QED
  BY <1>1, <1>2, <1>3

\* Quotient and remainder.
LEMMA Division ==
  ASSUME NEW m \in Nat, m > 0, NEW x \in Int
  PROVE  /\ x \div m \in Int
         /\ x % m \in 0 .. m - 1
         /\ x = (x \div m) * m + (x % m)
  OBVIOUS

\* Rows and columns are what the game's rules take them from.
LEMMA CellAt ==
  ASSUME Size, NEW r \in 0 .. lin - 1, NEW d \in 0 .. col - 1
  PROVE  At(r, d) \in Cell /\ At(r, d) \div col = r /\ At(r, d) % col = d
<1> USE DEF Size
<1>1. At(r, d) \in Int /\ col > 0 /\ col \in Nat /\ r \in Int
  BY DEF At
<1>2. /\ At(r, d) \div col \in Int /\ At(r, d) % col \in 0 .. col - 1
      /\ At(r, d) = (At(r, d) \div col) * col + (At(r, d) % col)
  BY <1>1, Division
<1>3. At(r, d) \div col = r /\ At(r, d) % col = d
  BY <1>1, <1>2, OneRowAndColumn DEF At
<1>4. r * col + col <= lin * col
  BY <1>1, RowsApart
<1>5. r * col >= 0
  OBVIOUS
<1> QED
  BY <1>3, <1>4, <1>5 DEF At, Cell

\* Every cell has a row and a column.
LEMMA AtCell ==
  ASSUME Size, NEW c \in Cell
  PROVE  \E r \in 0 .. lin - 1, d \in 0 .. col - 1 : c = At(r, d)
<1> USE DEF Size
<1> DEFINE r == c \div col
           d == c % col
<1>1. c \in Int /\ col > 0 /\ col \in Nat /\ 0 <= c /\ c < lin * col
  BY DEF Cell
<1>2. r \in Int /\ d \in 0 .. col - 1 /\ c = r * col + d
  BY <1>1, Division
<1> HIDE DEF r, d
<1>3. r >= 0
  <2> SUFFICES ASSUME r < 0 PROVE FALSE
    BY <1>2
  <2>1. r * col + col <= 0 * col
    BY <1>1, <1>2, RowsApart
  <2> QED
    BY <1>1, <1>2, <2>1
<1>4. r < lin
  <2> SUFFICES ASSUME lin <= r PROVE FALSE
    BY <1>2
  <2>1. lin * col <= r * col
    BY <1>1, <1>2, RowsApart
  <2> QED
    BY <1>1, <1>2, <2>1
<1> QED
  BY <1>2, <1>3, <1>4 DEF At

\* The neighbours of a cell by rows and columns.
LEMMA NeighboursAt ==
  ASSUME Size, NEW r \in 0 .. lin - 1, NEW d \in 0 .. col - 1, NEW x
  PROVE  x \in Neighbours(At(r, d)) <=>
           \E s \in Rows(r), f \in Columns(d) : (s # r \/ f # d) /\ x = At(s, f)
<1> USE DEF Size
<1>1. ASSUME NEW s \in 0 .. lin - 1, NEW f \in 0 .. col - 1
      PROVE  At(s, f) \in Neighbours(At(r, d)) <=>
               /\ s \in {r - 1, r, r + 1} /\ f \in {d - 1, d, d + 1}
               /\ s # r \/ f # d
  <2>1. /\ At(s, f) \in Cell /\ At(s, f) \div col = s /\ At(s, f) % col = f
        /\ At(r, d) \div col = r /\ At(r, d) % col = d
    BY CellAt
  <2>2. At(s, f) = At(r, d) <=> s = r /\ f = d
    BY <2>1
  <2>3. Adjacent(At(r, d), At(s, f)) <=>
          /\ s # r \/ f # d
          /\ r - s \in -1 .. 1
          /\ d - f \in -1 .. 1
    BY <2>1, <2>2 DEF Adjacent
  <2> QED
    BY <2>1, <2>3 DEF Neighbours
<1>2. Neighbours(At(r, d)) \subseteq Cell
  BY DEF Neighbours
<1> QED
  BY <1>1, <1>2, AtCell DEF Rows, Columns

\* A border cell is not an interior one.
LEMMA InteriorAt ==
  ASSUME Size, NEW r \in 0 .. lin - 1, NEW d \in 0 .. col - 1
  PROVE  At(r, d) \in Interior <=> r \in 1 .. lin - 2 /\ d \in 1 .. col - 2
<1>1. ASSUME NEW s \in 1 .. lin - 2, NEW f \in 1 .. col - 2, At(r, d) = At(s, f)
      PROVE  s = r /\ f = d
  <2>1. s \in 0 .. lin - 1 /\ f \in 0 .. col - 1
    BY DEF Size
  <2> QED
    BY <1>1, <2>1, CellAt
<1> QED
  BY <1>1 DEF Interior, At

\* The neighbours the code computes are those of the game: eight inside the board,
LEMMA InteriorNeighboursRight ==
  ASSUME Size, NEW r \in 1 .. lin - 2, NEW d \in 1 .. col - 2
  PROVE  /\ Neighbours(At(r, d)) = InteriorNeighbours(r, d)
         /\ IsFiniteSet(InteriorNeighbours(r, d))
         /\ Cardinality(InteriorNeighbours(r, d)) = 8
<1> USE DEF Size
<1> DEFINE x == r * col + d
           N == InteriorNeighbours(r, d)
<1>1. r \in 0 .. lin - 1 /\ d \in 0 .. col - 1 /\ x \in Int
  OBVIOUS
<1>2. N = {x - col - 1, x - col, x - col + 1, x - 1, x + 1, x + col - 1, x + col, x + col + 1}
  <2>1. (r - 1) * col = r * col - col /\ (r + 1) * col = r * col + col /\ r * col \in Int
    OBVIOUS
  <2>2. -1 .. 1 = {-1, 0, 1}
    OBVIOUS
  <2>3. N = {k * col + d + e : k \in {r - 1, r + 1}, e \in {-1, 0, 1}}
              \cup {r * col + d - 1, r * col + d + 1}
    BY <2>2 DEF InteriorNeighbours
  <2> QED
    BY <1>1, <2>1, <2>3
<1>3. ASSUME NEW y
      PROVE  y \in Neighbours(At(r, d)) <=> y \in N
  <2>0. Rows(r) = {r - 1, r, r + 1} /\ Columns(d) = {d - 1, d, d + 1}
    BY <1>1 DEF Rows, Columns
  <2>1. y \in Neighbours(At(r, d)) <=>
          \E s \in Rows(r), f \in Columns(d) : (s # r \/ f # d) /\ y = At(s, f)
    BY <1>1, NeighboursAt
  <2>2. y \in Neighbours(At(r, d)) <=>
          \E s \in {r - 1, r, r + 1}, f \in {d - 1, d, d + 1} :
            /\ s # r \/ f # d
            /\ y = s * col + f
    BY <2>0, <2>1 DEF At
  <2>3. (r - 1) * col = r * col - col /\ (r + 1) * col = r * col + col /\ r * col \in Int
    OBVIOUS
  <2> QED
    BY <1>1, <1>2, <2>2, <2>3
<1>4. IsFiniteSet(N) /\ Cardinality(N) = 8
  <2> HIDE DEF N, x
  <2>1. IsFiniteSet({}) /\ Cardinality({}) = 0
    BY FS_EmptySet
  <2> DEFINE N1 == {x - col - 1}
             N2 == N1 \cup {x - col}
             N3 == N2 \cup {x - col + 1}
             N4 == N3 \cup {x - 1}
             N5 == N4 \cup {x + 1}
             N6 == N5 \cup {x + col - 1}
             N7 == N6 \cup {x + col}
             N8 == N7 \cup {x + col + 1}
  <2>2. IsFiniteSet(N1) /\ Cardinality(N1) = 1
    BY FS_Singleton
  <2>3. /\ x - col \notin N1 /\ x - col + 1 \notin N2 /\ x - 1 \notin N3 /\ x + 1 \notin N4
        /\ x + col - 1 \notin N5 /\ x + col \notin N6 /\ x + col + 1 \notin N7
    BY <1>1
  <2> HIDE DEF N1
  <2>4. IsFiniteSet(N2) /\ Cardinality(N2) = 2
    BY <2>2, <2>3, FS_AddElement
  <2> HIDE DEF N2
  <2>5. IsFiniteSet(N3) /\ Cardinality(N3) = 3
    BY <2>4, <2>3, FS_AddElement
  <2> HIDE DEF N3
  <2>6. IsFiniteSet(N4) /\ Cardinality(N4) = 4
    BY <2>5, <2>3, FS_AddElement
  <2> HIDE DEF N4
  <2>7. IsFiniteSet(N5) /\ Cardinality(N5) = 5
    BY <2>6, <2>3, FS_AddElement
  <2> HIDE DEF N5
  <2>8. IsFiniteSet(N6) /\ Cardinality(N6) = 6
    BY <2>7, <2>3, FS_AddElement
  <2> HIDE DEF N6
  <2>9. IsFiniteSet(N7) /\ Cardinality(N7) = 7
    BY <2>8, <2>3, FS_AddElement
  <2> HIDE DEF N7
  <2>10. IsFiniteSet(N8) /\ Cardinality(N8) = 8
    BY <2>9, <2>3, FS_AddElement
  <2>11. N = N8
    BY <1>2 DEF N1, N2, N3, N4, N5, N6, N7
  <2> QED
    BY <2>10, <2>11
<1> QED
  BY <1>3, <1>4


\* three in the corners,
LEMMA CornersRight ==
  ASSUME Size
  PROVE  /\ Neighbours(0) = {1, col, col + 1}
         /\ Neighbours(col - 1) = {col - 2, 2 * col - 1, 2 * col - 2}
         /\ Neighbours((lin - 1) * col) =
              {(lin - 1) * col + 1, (lin - 2) * col, (lin - 2) * col + 1}
         /\ Neighbours(lin * col - 1) =
              {lin * col - 2, (lin - 1) * col - 1, (lin - 1) * col - 2}
<1> USE DEF Size
<1>1. /\ 0 \in 0 .. lin - 1 /\ lin - 1 \in 0 .. lin - 1
      /\ 0 \in 0 .. col - 1 /\ col - 1 \in 0 .. col - 1
      /\ lin * col \in Int
  OBVIOUS
<1>2. /\ Rows(0) = {0, 1} /\ Rows(lin - 1) = {lin - 2, lin - 1}
      /\ Columns(0) = {0, 1} /\ Columns(col - 1) = {col - 2, col - 1}
  BY DEF Rows, Columns
<1>3. ASSUME NEW y PROVE y \in Neighbours(At(0, 0)) <=> y \in {1, col, col + 1}
  <2>1. y \in Neighbours(At(0, 0)) <=>
          \E s \in Rows(0), f \in Columns(0) : (s # 0 \/ f # 0) /\ y = At(s, f)
    BY <1>1, NeighboursAt
  <2> QED
    BY <1>1, <1>2, <2>1 DEF At
<1>4. ASSUME NEW y
      PROVE  y \in Neighbours(At(0, col - 1)) <=>
               y \in {col - 2, 2 * col - 1, 2 * col - 2}
  <2>1. y \in Neighbours(At(0, col - 1)) <=>
          \E s \in Rows(0), f \in Columns(col - 1) : (s # 0 \/ f # col - 1) /\ y = At(s, f)
    BY <1>1, NeighboursAt
  <2> QED
    BY <1>1, <1>2, <2>1 DEF At
<1>5. ASSUME NEW y
      PROVE  y \in Neighbours(At(lin - 1, 0)) <=>
               y \in {(lin - 1) * col + 1, (lin - 2) * col, (lin - 2) * col + 1}
  <2>1. y \in Neighbours(At(lin - 1, 0)) <=>
          \E s \in Rows(lin - 1), f \in Columns(0) : (s # lin - 1 \/ f # 0) /\ y = At(s, f)
    BY <1>1, NeighboursAt
  <2>2. (lin - 1) * col = lin * col - col /\ (lin - 2) * col = lin * col - 2 * col
    BY <1>1
  <2> QED
    BY <1>1, <1>2, <2>1, <2>2 DEF At
<1>6. ASSUME NEW y
      PROVE  y \in Neighbours(At(lin - 1, col - 1)) <=>
               y \in {lin * col - 2, (lin - 1) * col - 1, (lin - 1) * col - 2}
  <2>1. y \in Neighbours(At(lin - 1, col - 1)) <=>
          \E s \in Rows(lin - 1), f \in Columns(col - 1) :
            (s # lin - 1 \/ f # col - 1) /\ y = At(s, f)
    BY <1>1, NeighboursAt
  <2>2. y \in Neighbours(At(lin - 1, col - 1)) <=>
          y \in {At(lin - 1, col - 2), At(lin - 2, col - 1), At(lin - 2, col - 2)}
    BY <1>1, <1>2, <2>1
  <2>3. /\ At(lin - 1, col - 2) = lin * col - 2 /\ At(lin - 2, col - 1) = (lin - 1) * col - 1
        /\ At(lin - 2, col - 2) = (lin - 1) * col - 2
    BY <1>1 DEF At
  <2> QED
    BY <2>2, <2>3
<1>7. /\ At(0, 0) = 0 /\ At(0, col - 1) = col - 1
      /\ At(lin - 1, 0) = (lin - 1) * col /\ At(lin - 1, col - 1) = lin * col - 1
  BY <1>1 DEF At
<1> QED
  BY <1>3, <1>4, <1>5, <1>6, <1>7

\* five in the first and the last line,
LEMMA LinesRight ==
  ASSUME Size, NEW d \in 1 .. col - 2
  PROVE  /\ Neighbours(d) = {d - 1, d + 1, col + d - 1, col + d, col + d + 1}
         /\ LET last == (lin - 1) * col + d
                over == (lin - 2) * col + d
            IN  Neighbours(last) = {last - 1, last + 1, over - 1, over, over + 1}
<1> USE DEF Size
<1> DEFINE last == (lin - 1) * col + d
           over == (lin - 2) * col + d
<1>1. /\ 0 \in 0 .. lin - 1 /\ lin - 1 \in 0 .. lin - 1
      /\ d \in 0 .. col - 1
      /\ lin * col \in Int
  OBVIOUS
<1>2. /\ Rows(0) = {0, 1} /\ Rows(lin - 1) = {lin - 2, lin - 1}
      /\ Columns(d) = {d - 1, d, d + 1}
  BY DEF Rows, Columns
<1>3. ASSUME NEW y
      PROVE  y \in Neighbours(At(0, d)) <=>
               y \in {d - 1, d + 1, col + d - 1, col + d, col + d + 1}
  <2>1. y \in Neighbours(At(0, d)) <=>
          \E s \in Rows(0), f \in Columns(d) : (s # 0 \/ f # d) /\ y = At(s, f)
    BY <1>1, NeighboursAt
  <2> QED
    BY <1>1, <1>2, <2>1 DEF At
<1>4. ASSUME NEW y
      PROVE  y \in Neighbours(At(lin - 1, d)) <=>
               y \in {last - 1, last + 1, over - 1, over, over + 1}
  <2>1. y \in Neighbours(At(lin - 1, d)) <=>
          \E s \in Rows(lin - 1), f \in Columns(d) : (s # lin - 1 \/ f # d) /\ y = At(s, f)
    BY <1>1, NeighboursAt
  <2>2. y \in Neighbours(At(lin - 1, d)) <=>
          y \in {At(lin - 1, d - 1), At(lin - 1, d + 1),
                 At(lin - 2, d - 1), At(lin - 2, d), At(lin - 2, d + 1)}
    BY <1>1, <1>2, <2>1
  <2>3. /\ At(lin - 1, d - 1) = last - 1 /\ At(lin - 1, d + 1) = last + 1
        /\ At(lin - 2, d - 1) = over - 1 /\ At(lin - 2, d) = over /\ At(lin - 2, d + 1) = over + 1
    BY <1>1 DEF At
  <2> QED
    BY <2>2, <2>3
<1>5. At(0, d) = d /\ At(lin - 1, d) = last
  BY <1>1 DEF At
<1> QED
  BY <1>3, <1>4, <1>5

\* and five in the first and the last column.
LEMMA ColumnsRight ==
  ASSUME Size, NEW r \in 1 .. lin - 2
  PROVE  /\ Neighbours(r * col) = {(r - 1) * col, (r - 1) * col + 1, r * col + 1,
                                   (r + 1) * col, (r + 1) * col + 1}
         /\ Neighbours((r + 1) * col - 1) =
              {r * col - 1, r * col - 2, (r + 1) * col - 2,
               (r + 2) * col - 2, (r + 2) * col - 1}
<1> USE DEF Size
<1>1. /\ r \in 0 .. lin - 1
      /\ 0 \in 0 .. col - 1 /\ col - 1 \in 0 .. col - 1
      /\ r * col \in Int
  OBVIOUS
<1>2. /\ Rows(r) = {r - 1, r, r + 1}
      /\ Columns(0) = {0, 1} /\ Columns(col - 1) = {col - 2, col - 1}
  BY DEF Rows, Columns
<1>3. ASSUME NEW y
      PROVE  y \in Neighbours(At(r, 0)) <=>
               y \in {(r - 1) * col, (r - 1) * col + 1, r * col + 1,
                     (r + 1) * col, (r + 1) * col + 1}
  <2>1. y \in Neighbours(At(r, 0)) <=>
          \E s \in Rows(r), f \in Columns(0) : (s # r \/ f # 0) /\ y = At(s, f)
    BY <1>1, NeighboursAt
  <2>2. /\ (r - 1) * col = r * col - col /\ (r + 1) * col = r * col + col
        /\ (r + 2) * col = r * col + 2 * col
    BY <1>1
  <2> QED
    BY <1>1, <1>2, <2>1, <2>2 DEF At
<1>4. ASSUME NEW y
      PROVE  y \in Neighbours(At(r, col - 1)) <=>
               y \in {r * col - 1, r * col - 2, (r + 1) * col - 2,
                     (r + 2) * col - 2, (r + 2) * col - 1}
  <2>1. y \in Neighbours(At(r, col - 1)) <=>
          \E s \in Rows(r), f \in Columns(col - 1) : (s # r \/ f # col - 1) /\ y = At(s, f)
    BY <1>1, NeighboursAt
  <2>2. /\ (r - 1) * col = r * col - col /\ (r + 1) * col = r * col + col
        /\ (r + 2) * col = r * col + 2 * col
    BY <1>1
  <2> QED
    BY <1>1, <1>2, <2>1, <2>2 DEF At
<1>5. At(r, 0) = r * col /\ At(r, col - 1) = (r + 1) * col - 1
  BY <1>1 DEF At
<1> QED
  BY <1>3, <1>4, <1>5

-----------------------------------------------------------------------------
Right(A, c) == c \in Generation(A) <=> c \in Goal

\* The cells whose rules are in the formula.
Encoded(r, d) ==
  \/ stage \in {"soft", "loaded"}
  \/ /\ r \in 1 .. lin - 2 /\ d \in 1 .. col - 2
     /\ stage = "interior" => r < i \/ (r = i /\ d < j)
  \/ r \in {0, lin - 1} /\ d \in {0, col - 1} /\ stage \in {"lines", "columns"}
  \/ /\ r \in {0, lin - 1} /\ d \in 1 .. col - 2
     /\ stage = "columns" \/ (stage = "lines" /\ d < j)
  \/ r \in 1 .. lin - 2 /\ d \in {0, col - 1} /\ stage = "columns" /\ r < i

\* A model of the clauses so far gets these cells right.
EncodedInv ==
  \A r \in 0 .. lin - 1, d \in 0 .. col - 1 : Encoded(r, d) =>
    \A A \in SUBSET Cell : IsModel(A) => Right(A, At(r, d))

LoopInv ==
  /\ Size
  /\ stage \in {"interior", "corners", "lines", "columns", "soft", "loaded"}
  /\ stage = "interior" => i \in 1 .. lin - 2 /\ j \in 1 .. col - 2
  /\ stage = "lines" => j \in 0 .. col - 2
  /\ stage = "columns" => i \in 1 .. lin - 2

EncodingInv == LoopInv /\ EncodedInv /\ CompleteWithoutWrap

\* The next generation is decided by what Lives looks at.
LEMMA GenerationOf ==
  \A A : \A c \in Cell : c \in Generation(A) <=> Lives(c, A, Neighbours(c))
  BY DEF Generation, Lives

\* Rules with the right neighbours get their cell right.
LEMMA DeadForced ==
  ASSUME NEW family, NEW A, Meets(A, Taken(family)), NEW c \in Cell, c \notin Goal,
         DeadRules(c, Neighbours(c)) \subseteq family
  PROVE  Right(A, c)
<1> DEFINE N == Neighbours(c)
<1>1. Meets(A, Taken(DeadRules(c, N)))
  BY DEF Meets, Taken
<1>2. c # -1 /\ -1 \notin N
  BY DEF Cell, Neighbours
<1>3. \A d \in DeadRules(c, N) : -1 \notin d.pos /\ -1 \notin d.neg
  BY <1>2 DEF DeadRules, Preservation, Life, kSubset, Clause
<1>4. ~ Lives(c, A, N)
  BY <1>1, <1>3, TakenWhole, DeadRulesExact
<1> QED
  BY <1>4, GenerationOf DEF Right

\* The same for a cell that must be alive.
LEMMA AliveForced ==
  ASSUME NEW family, NEW A, Meets(A, Taken(family)), NEW c \in Cell, c \in Goal,
         IsFiniteSet(Neighbours(c)), Cardinality(Neighbours(c)) = 8,
         AliveRules(c, Neighbours(c)) \subseteq family
  PROVE  Right(A, c)
<1> DEFINE N == Neighbours(c)
<1>1. Meets(A, Taken(AliveRules(c, N)))
  BY DEF Meets, Taken
<1>2. c # -1 /\ -1 \notin N
  BY DEF Cell, Neighbours
<1>3. \A d \in AliveRules(c, N) : -1 \notin d.pos /\ -1 \notin d.neg
  BY <1>2 DEF AliveRules, Loneliness, Stagnation, Overcrowding, kSubset, Clause
<1>4. Meets(A, AliveRules(c, N))
  BY <1>1, <1>3, TakenWhole
<1>5. Lives(c, A, N)
  BY <1>4, AliveRulesExact
<1> QED
  BY <1>5, GenerationOf DEF Right

\* A previous board meets the rules of a dead cell when they ask of it what the right
\* ones would.
LEMMA DeadKept ==
  ASSUME NEW A, Generation(A) = Goal, NEW c \in Cell, c \notin Goal,
         NEW N, A \cap N = A \cap Neighbours(c)
  PROVE  Meets(A, DeadRules(c, N))
  BY GenerationOf, DeadRulesExact DEF Lives

\* What a loop adds keeps the invariant when it gets its cells right and excludes no
\* previous board.
LEMMA AddsRules ==
  ASSUME LoopInv, EncodedInv, CompleteWithoutWrap, UNCHANGED Input,
         NEW family, AddHard(family),
         \A r \in 0 .. lin - 1, d \in 0 .. col - 1 : Encoded(r, d)' =>
           \/ Encoded(r, d)
           \/ \A A \in SUBSET Cell : Meets(A, Taken(family)) => Right(A, At(r, d)),
         \A A \in SUBSET (Cell \ LastColumn) : Generation(A) = Goal => Meets(A, family)
  PROVE  EncodedInv' /\ CompleteWithoutWrap'
<1>1. lin' = lin /\ col' = col /\ board' = board /\ stray' = stray
  BY DEF Input
<1>2. Cell' = Cell /\ LastColumn' = LastColumn /\ Goal' = Goal
  BY <1>1 DEF Cell, LastColumn, Goal, Interior
<1>3. \A A : Generation(A)' = Generation(A)
  BY <1>1, <1>2 DEF Generation, Neighbours, Adjacent
<1>4. \A A : IsModel(A)' <=> IsModel(A) /\ Meets(A, Taken(family))
  BY DEF AddHard, IsModel, Meets
<1>5. EncodedInv'
  <2> SUFFICES ASSUME NEW r \in 0 .. lin - 1, NEW d \in 0 .. col - 1, Encoded(r, d)',
                      NEW A \in SUBSET Cell, IsModel(A)'
               PROVE  Right(A, At(r, d))'
    BY <1>1, <1>2 DEF EncodedInv
  <2>1. Right(A, At(r, d))
    BY <1>4 DEF EncodedInv
  <2>2. At(r, d)' = At(r, d)
    BY <1>1 DEF At
  <2> QED
    BY <1>2, <1>3, <2>1, <2>2 DEF Right
<1>6. CompleteWithoutWrap'
  <2> SUFFICES ASSUME NEW A \in SUBSET (Cell \ LastColumn), Generation(A) = Goal
               PROVE  IsModel(A)'
    BY <1>2, <1>3 DEF CompleteWithoutWrap
  <2>1. -1 \notin A
    BY DEF Cell
  <2>2. Meets(A, Taken(family))
    BY <2>1, TakenMeets
  <2> QED
    BY <1>4, <2>2 DEF CompleteWithoutWrap
<1> QED
  BY <1>5, <1>6

\* Each loop keeps the invariant.
LEMMA InteriorKept == EncodingInv /\ EncodeInterior => EncodingInv'
<1> SUFFICES ASSUME EncodingInv, EncodeInterior PROVE EncodingInv'
  OBVIOUS
<1> DEFINE c == i * col + j
           N == InteriorNeighbours(i, j)
           family == IF c \in board THEN AliveRules(c, N) ELSE DeadRules(c, N)
<1>1. /\ LoopInv /\ EncodedInv /\ CompleteWithoutWrap /\ Size
      /\ stage = "interior" /\ i \in 1 .. lin - 2 /\ j \in 1 .. col - 2
  BY DEF EncodingInv, EncodeInterior, LoopInv
<1>2. /\ i \in 0 .. lin - 1 /\ j \in 0 .. col - 1
      /\ c = At(i, j) /\ c \in Cell /\ c \in Interior
  <2>1. i \in 0 .. lin - 1 /\ j \in 0 .. col - 1
    BY <1>1 DEF Size
  <2>2. At(i, j) \in Cell /\ At(i, j) \in Interior
    BY <1>1, <2>1, CellAt, InteriorAt
  <2> QED
    BY <2>1, <2>2 DEF At
<1>3. Neighbours(c) = N /\ IsFiniteSet(N) /\ Cardinality(N) = 8
  BY <1>1, <1>2, InteriorNeighboursRight
<1>4. /\ AddHard(family) /\ UNCHANGED Input /\ lin' = lin /\ col' = col
      /\ \/ j < col - 2 /\ stage' = "interior" /\ i' = i /\ j' = j + 1
         \/ j = col - 2 /\ i < lin - 2 /\ stage' = "interior" /\ i' = i + 1 /\ j' = 1
         \/ j = col - 2 /\ i = lin - 2 /\ stage' = "corners"
  BY <1>1 DEF EncodeInterior, Goto, Input, Size
<1>5. c \in Goal <=> c \in board
  BY <1>2 DEF Goal
<1>6. ASSUME NEW A \in SUBSET Cell, Meets(A, Taken(family)) PROVE Right(A, c)
  <2> HIDE DEF c, N
  <2>1. CASE c \in board
    BY <1>2, <1>3, <1>5, <1>6, <2>1, AliveForced
  <2>2. CASE c \notin board
    BY <1>2, <1>3, <1>5, <1>6, <2>2, DeadForced
  <2> QED
    BY <2>1, <2>2
<1>7. ASSUME NEW A \in SUBSET (Cell \ LastColumn), Generation(A) = Goal
      PROVE  Meets(A, family)
  <2> HIDE DEF c, N
  <2>1. CASE c \in board
    BY <1>2, <1>3, <1>5, <1>7, <2>1, GenerationOf, AliveRulesExact
  <2>2. CASE c \notin board
    BY <1>2, <1>3, <1>5, <1>7, <2>2, DeadKept
  <2> QED
    BY <2>1, <2>2
<1>8. ASSUME NEW r \in 0 .. lin - 1, NEW d \in 0 .. col - 1, Encoded(r, d)'
      PROVE  Encoded(r, d) \/ (r = i /\ d = j)
  BY <1>1, <1>4, <1>8 DEF Encoded, Size
<1>9. LoopInv'
  BY <1>1, <1>4 DEF LoopInv, Size
<1> HIDE DEF family, c
<1> QED
  BY <1>1, <1>2, <1>4, <1>6, <1>7, <1>8, <1>9, AddsRules DEF EncodingInv

\* The same for the corners, where every cell is dead.
LEMMA CornersKept == EncodingInv /\ EncodeCorners => EncodingInv'
<1> SUFFICES ASSUME EncodingInv, EncodeCorners PROVE EncodingInv'
  OBVIOUS
<1> DEFINE last == lin - 1
           Corner == {At(r, d) : r \in {0, last}, d \in {0, col - 1}}
<1>1. /\ LoopInv /\ EncodedInv /\ CompleteWithoutWrap /\ Size /\ stage = "corners"
  BY DEF EncodingInv, EncodeCorners, LoopInv
<1>2. /\ AddHard(CornerRules) /\ UNCHANGED Input /\ lin' = lin /\ col' = col
      /\ stage' = "lines" /\ j' = 0
  BY DEF EncodeCorners, Goto, Input
<1>3. \A r \in {0, last}, d \in {0, col - 1} :
        r \in 0 .. lin - 1 /\ d \in 0 .. col - 1 /\ d \notin 1 .. col - 2
  BY <1>1 DEF Size
<1>4. \A c \in Corner : c \in Cell /\ c \notin Goal
  BY <1>1, <1>3, CellAt, InteriorAt DEF Goal
<1>5. Corner = {0, col - 1, (lin - 1) * col, lin * col - 1}
  <2>1. /\ At(0, 0) = 0 /\ At(0, col - 1) = col - 1
        /\ At(lin - 1, 0) = (lin - 1) * col /\ At(lin - 1, col - 1) = lin * col - 1
    BY <1>1 DEF At, Size
  <2> QED
    BY <2>1
<1>6. CornerRules = UNION {DeadRules(c, Neighbours(c)) : c \in Corner}
  BY <1>1, <1>5, CornersRight DEF CornerRules
<1>7. ASSUME NEW A \in SUBSET Cell, Meets(A, Taken(CornerRules)), NEW c \in Corner
      PROVE  Right(A, c)
  BY <1>4, <1>6, <1>7, DeadForced
<1>8. ASSUME NEW A \in SUBSET (Cell \ LastColumn), Generation(A) = Goal
      PROVE  Meets(A, CornerRules)
  <2>1. \A c \in Corner : Meets(A, DeadRules(c, Neighbours(c)))
    BY <1>4, <1>8, DeadKept
  <2> QED
    BY <1>6, <2>1 DEF Meets
<1>9. ASSUME NEW r \in 0 .. lin - 1, NEW d \in 0 .. col - 1, Encoded(r, d)'
      PROVE  Encoded(r, d) \/ At(r, d) \in Corner
  BY <1>1, <1>2, <1>9 DEF Encoded, Size
<1>10. LoopInv'
  BY <1>1, <1>2 DEF LoopInv, Size
<1> HIDE DEF Corner
<1> QED
  BY <1>1, <1>2, <1>7, <1>8, <1>9, <1>10, AddsRules DEF EncodingInv

\* At column 0 the wrong rules ask what those of the corners do: what they look at
\* besides is in the last column or in front of the board.
LEMMA LinesKept == EncodingInv /\ EncodeLines => EncodingInv'
<1> SUFFICES ASSUME EncodingInv, EncodeLines PROVE EncodingInv'
  OBVIOUS
<1> DEFINE last == (lin - 1) * col + j
           over == (lin - 2) * col + j
           N1 == {j - 1, j + 1, col + j - 1, col + j, col + j + 1}
           N2 == {last - 1, last + 1, over - 1, over, over + 1}
           family == FirstLineRules(j) \cup LastLineRules(j)
<1>1. /\ LoopInv /\ EncodedInv /\ CompleteWithoutWrap /\ Size
      /\ stage = "lines" /\ j \in 0 .. col - 2
  BY DEF EncodingInv, EncodeLines, LoopInv
<1>2. /\ AddHard(family) /\ UNCHANGED Input /\ lin' = lin /\ col' = col
      /\ \/ j < col - 2 /\ stage' = "lines" /\ j' = j + 1
         \/ j = col - 2 /\ stage' = "columns" /\ i' = 1
  BY <1>1 DEF EncodeLines, Goto, Input, Size
<1>3. /\ At(0, j) = j /\ At(lin - 1, j) = last
      /\ \A r \in {0, lin - 1} : r \in 0 .. lin - 1 /\ r \notin 1 .. lin - 2
      /\ j \in 0 .. col - 1
  BY <1>1 DEF At, Size
<1>4. j \in Cell /\ j \notin Goal /\ last \in Cell /\ last \notin Goal
  BY <1>1, <1>3, CellAt, InteriorAt DEF Goal
<1>5. family = DeadRules(j, N1) \cup DeadRules(last, N2)
  BY DEF FirstLineRules, LastLineRules
<1>6. j # 0 => N1 = Neighbours(j) /\ N2 = Neighbours(last)
  <2> SUFFICES ASSUME j # 0 PROVE N1 = Neighbours(j) /\ N2 = Neighbours(last)
    OBVIOUS
  <2>1. j \in 1 .. col - 2
    BY <1>1 DEF Size
  <2> QED
    BY <1>1, <2>1, LinesRight
<1>7. ASSUME NEW A \in SUBSET (Cell \ LastColumn)
      PROVE  A \cap N1 = A \cap Neighbours(j) /\ A \cap N2 = A \cap Neighbours(last)
  <2>1. CASE j # 0
    BY <1>6, <2>1
  <2>2. CASE j = 0
    <3>1. -1 \notin A
      BY DEF Cell
    <3>2. {col - 1, (lin - 1) * col - 1, (lin - 2) * col - 1} \subseteq LastColumn
      <4>1. /\ 0 * col + col - 1 = col - 1
            /\ (lin - 2) * col + col - 1 = (lin - 1) * col - 1
            /\ (lin - 3) * col + col - 1 = (lin - 2) * col - 1
        BY <1>1 DEF Size
      <4>2. \A r \in {0, lin - 2, lin - 3} : r \in 0 .. lin - 1
        BY <1>1 DEF Size
      <4>3. \A r \in {0, lin - 2, lin - 3} : r * col + col - 1 \in LastColumn
        BY <4>2 DEF LastColumn
      <4> QED
        BY <4>1, <4>3
    <3>3. col - 1 \notin A /\ (lin - 1) * col - 1 \notin A /\ (lin - 2) * col - 1 \notin A
      BY <3>2
    <3>4. /\ N1 = {-1, 1, col - 1, col, col + 1}
          /\ N2 = {(lin - 1) * col - 1, (lin - 1) * col + 1,
                   (lin - 2) * col - 1, (lin - 2) * col, (lin - 2) * col + 1}
          /\ last = (lin - 1) * col
      BY <1>1, <2>2 DEF Size
    <3>5. /\ Neighbours(j) = {1, col, col + 1}
          /\ Neighbours(last) = {(lin - 1) * col + 1, (lin - 2) * col, (lin - 2) * col + 1}
      BY <1>1, <2>2, <3>4, CornersRight
    <3> HIDE DEF N1, N2, last
    <3> QED
      BY <3>1, <3>3, <3>4, <3>5
  <2> QED
    BY <2>1, <2>2
<1>8. ASSUME j # 0, NEW A \in SUBSET Cell, Meets(A, Taken(family))
      PROVE  Right(A, j) /\ Right(A, last)
  <2> HIDE DEF last, N1, N2
  <2> QED
    BY <1>4, <1>5, <1>6, <1>8, DeadForced
<1>9. ASSUME NEW A \in SUBSET (Cell \ LastColumn), Generation(A) = Goal
      PROVE  Meets(A, family)
  <2> HIDE DEF last, N1, N2
  <2>1. Meets(A, DeadRules(j, N1)) /\ Meets(A, DeadRules(last, N2))
    BY <1>4, <1>7, <1>9, DeadKept
  <2> QED
    BY <1>5, <2>1 DEF Meets
<1>10. ASSUME NEW r \in 0 .. lin - 1, NEW d \in 0 .. col - 1, Encoded(r, d)'
      PROVE  Encoded(r, d) \/ (j # 0 /\ r \in {0, lin - 1} /\ d = j)
  BY <1>1, <1>2, <1>10 DEF Encoded, Size
<1>11. LoopInv'
  BY <1>1, <1>2 DEF LoopInv, Size
<1> HIDE DEF family, last
<1> QED
  BY <1>1, <1>2, <1>3, <1>8, <1>9, <1>10, <1>11, AddsRules DEF EncodingInv

\* The first and the last column.
LEMMA ColumnsKept == EncodingInv /\ EncodeColumns => EncodingInv'
<1> SUFFICES ASSUME EncodingInv, EncodeColumns PROVE EncodingInv'
  OBVIOUS
<1> DEFINE left == i * col
           right == (i + 1) * col - 1
           family == LeftColumnRules(i) \cup RightColumnRules(i)
<1>1. /\ LoopInv /\ EncodedInv /\ CompleteWithoutWrap /\ Size
      /\ stage = "columns" /\ i \in 1 .. lin - 2
  BY DEF EncodingInv, EncodeColumns, LoopInv
<1>2. /\ AddHard(family) /\ UNCHANGED Input /\ lin' = lin /\ col' = col
      /\ \/ i < lin - 2 /\ stage' = "columns" /\ i' = i + 1
         \/ i = lin - 2 /\ stage' = "soft"
  BY <1>1 DEF EncodeColumns, Goto, Input, Size
<1>3. /\ At(i, 0) = left /\ At(i, col - 1) = right
      /\ \A d \in {0, col - 1} : d \in 0 .. col - 1 /\ d \notin 1 .. col - 2
      /\ i \in 0 .. lin - 1
  BY <1>1 DEF At, Size
<1>4. left \in Cell /\ left \notin Goal /\ right \in Cell /\ right \notin Goal
  BY <1>1, <1>3, CellAt, InteriorAt DEF Goal
<1>5. family = DeadRules(left, Neighbours(left)) \cup DeadRules(right, Neighbours(right))
  BY <1>1, ColumnsRight DEF LeftColumnRules, RightColumnRules
<1> HIDE DEF left, right
<1>6. ASSUME NEW A \in SUBSET Cell, Meets(A, Taken(family))
      PROVE  Right(A, left) /\ Right(A, right)
  BY <1>4, <1>5, <1>6, DeadForced
<1>7. ASSUME NEW A \in SUBSET (Cell \ LastColumn), Generation(A) = Goal
      PROVE  Meets(A, family)
  <2>1. /\ Meets(A, DeadRules(left, Neighbours(left)))
        /\ Meets(A, DeadRules(right, Neighbours(right)))
    BY <1>4, <1>7, DeadKept
  <2> QED
    BY <1>5, <2>1 DEF Meets
<1>8. ASSUME NEW r \in 0 .. lin - 1, NEW d \in 0 .. col - 1, Encoded(r, d)'
      PROVE  Encoded(r, d) \/ (r = i /\ d \in {0, col - 1})
  BY <1>1, <1>2, <1>8 DEF Encoded, Size
<1>9. LoopInv'
  BY <1>1, <1>2 DEF LoopInv, Size
<1> HIDE DEF family
<1> QED
  BY <1>1, <1>2, <1>3, <1>6, <1>7, <1>8, <1>9, AddsRules DEF EncodingInv

\* The soft clauses change nothing of the hard ones.
LEMMA SoftKept == EncodingInv /\ (EncodeSoft \/ UNCHANGED vars) => EncodingInv'
<1> SUFFICES ASSUME EncodingInv, EncodeSoft \/ UNCHANGED vars PROVE EncodingInv'
  OBVIOUS
<1>1. /\ lin' = lin /\ col' = col /\ board' = board /\ hard' = hard
      /\ \/ stage = "soft" /\ stage' = "loaded"
         \/ stage' = stage /\ i' = i /\ j' = j
  BY DEF EncodeSoft, Input, Goto, vars
<1>2. LoopInv'
  BY <1>1 DEF EncodingInv, LoopInv, Size
<1>3. \A r, d : Encoded(r, d)' => Encoded(r, d)
  BY <1>1 DEF Encoded
<1>4. Cell' = Cell /\ LastColumn' = LastColumn /\ Goal' = Goal
  BY <1>1 DEF Cell, LastColumn, Goal, Interior
<1>5. \A A : Generation(A)' = Generation(A) /\ IsModel(A)' = IsModel(A)
  BY <1>1, <1>4 DEF Generation, Neighbours, Adjacent, IsModel
<1>6. EncodedInv'
  BY <1>1, <1>3, <1>4, <1>5 DEF EncodingInv, EncodedInv, Right, At
<1>7. CompleteWithoutWrap'
  BY <1>4, <1>5 DEF EncodingInv, CompleteWithoutWrap
<1> QED
  BY <1>2, <1>6, <1>7 DEF EncodingInv

\* Without clauses nothing is excluded and no cell is encoded yet.
LEMMA InitEncoding == Init => EncodingInv
<1> SUFFICES ASSUME Init PROVE EncodingInv
  OBVIOUS
<1>1. LoopInv
  BY SizesAssumption DEF Init, Sizes, LoopInv, Size
<1>2. EncodedInv
  BY DEF Init, EncodedInv, Encoded
<1>3. CompleteWithoutWrap
  BY DEF Init, CompleteWithoutWrap, IsModel
<1> QED
  BY <1>1, <1>2, <1>3 DEF EncodingInv

\* The clauses are an encoding of the game on the boards with a dead last column, for
\* boards of every size (Main.cc:227-600).
THEOREM EncodesGame == Spec => []ExactWithoutWrap
<1>1. EncodingInv /\ [Next]_vars => EncodingInv'
  BY InteriorKept, CornersKept, LinesKept, ColumnsKept, SoftKept DEF Next
<1>2. EncodingInv => ExactWithoutWrap
  <2> SUFFICES ASSUME EncodingInv, stage = "loaded", NEW A \in SUBSET Cell, IsModel(A)
               PROVE  Generation(A) = Goal
    BY DEF EncodingInv, ExactWithoutWrap, Sound
  <2>1. \A c \in Cell : Right(A, c)
    <3>1. \A r \in 0 .. lin - 1, d \in 0 .. col - 1 : Right(A, At(r, d))
      BY DEF EncodingInv, EncodedInv, Encoded
    <3> QED
      BY <3>1, AtCell DEF EncodingInv, LoopInv
  <2>2. Generation(A) \subseteq Cell
    BY DEF Generation
  <2>3. Goal \subseteq Cell
    <3>1. ASSUME NEW r \in 1 .. lin - 2, NEW d \in 1 .. col - 2
          PROVE  r * col + d \in Cell
      <4>1. Size /\ r \in 0 .. lin - 1 /\ d \in 0 .. col - 1
        BY DEF EncodingInv, LoopInv, Size
      <4> QED
        BY <4>1, CellAt DEF At
    <3> QED
      BY <3>1 DEF Goal, Interior
  <2> QED
    BY <2>1, <2>2, <2>3 DEF Right
<1> QED
  BY <1>1, <1>2, InitEncoding, PTL DEF Spec

-----------------------------------------------------------------------------
\* The literals the code writes are of cells or, at column 0, of variable -1.
Literals == Cell \cup {-1}

Named(family) == \A d \in family : d.pos \subseteq Literals /\ d.neg \subseteq Literals

\* The rules name what their cell and neighbours are.
LEMMA RulesNamed ==
  ASSUME NEW c \in Cell, NEW N, N \subseteq Literals
  PROVE  Named(DeadRules(c, N)) /\ Named(AliveRules(c, N))
  BY DEF Named, DeadRules, AliveRules, Preservation, Life, Loneliness, Stagnation, Overcrowding,
         kSubset, Clause, Literals

TypeInv == TypeOK /\ LoopInv

\* Of a named family the solver takes clauses over the cells.
LEMMA TakesCells ==
  ASSUME TypeOK, UNCHANGED <<Input, soft>>, NEW family, Named(family), AddHard(family)
  PROVE  \A c \in (hard \cup soft)' : c.pos \subseteq Cell' /\ c.neg \subseteq Cell'
<1>1. \A d \in Taken(family) : d.pos \subseteq Cell /\ d.neg \subseteq Cell
  BY DEF Taken, Named, Strayed, Clause, Literals
<1>2. Cell' = Cell
  BY DEF Cell, Input
<1> QED
  BY <1>1, <1>2 DEF TypeOK, AddHard

\* What each loop adds names cells and variable -1.
LEMMA LoopsNamed ==
  ASSUME TypeInv
  PROVE  /\ stage = "interior" =>
              LET c == i * col + j
                  N == InteriorNeighbours(i, j)
              IN  Named(IF c \in board THEN AliveRules(c, N) ELSE DeadRules(c, N))
         /\ Named(CornerRules)
         /\ stage = "lines" => Named(FirstLineRules(j) \cup LastLineRules(j))
         /\ stage = "columns" => Named(LeftColumnRules(i) \cup RightColumnRules(i))
<1>1. Size /\ \A c \in Cell : Neighbours(c) \subseteq Literals
  BY DEF TypeInv, LoopInv, Neighbours, Literals
<1>2. \A F, G : Named(F) /\ Named(G) => Named(F \cup G)
  BY DEF Named
<1>3. ASSUME stage = "interior"
      PROVE  LET c == i * col + j
                 N == InteriorNeighbours(i, j)
             IN  Named(IF c \in board THEN AliveRules(c, N) ELSE DeadRules(c, N))
  <2>1. /\ i \in 1 .. lin - 2 /\ j \in 1 .. col - 2
        /\ i \in 0 .. lin - 1 /\ j \in 0 .. col - 1
    BY <1>1, <1>3 DEF TypeInv, LoopInv, Size
  <2>2. At(i, j) \in Cell /\ Neighbours(At(i, j)) = InteriorNeighbours(i, j)
    BY <1>1, <2>1, CellAt, InteriorNeighboursRight
  <2> QED
    BY <1>1, <2>2, RulesNamed DEF At
<1>4. Named(CornerRules)
  <2>1. /\ 0 \in 0 .. lin - 1 /\ lin - 1 \in 0 .. lin - 1
        /\ 0 \in 0 .. col - 1 /\ col - 1 \in 0 .. col - 1
        /\ At(0, 0) = 0 /\ At(0, col - 1) = col - 1
        /\ At(lin - 1, 0) = (lin - 1) * col /\ At(lin - 1, col - 1) = lin * col - 1
    BY <1>1 DEF At, Size
  <2>2. {0, col - 1, (lin - 1) * col, lin * col - 1} \subseteq Cell
    BY <1>1, <2>1, CellAt
  <2>3. \A c \in {0, col - 1, (lin - 1) * col, lin * col - 1} : Named(DeadRules(c, Neighbours(c)))
    BY <1>1, <2>2, RulesNamed
  <2> QED
    BY <1>1, <1>2, <2>3, CornersRight DEF CornerRules
<1>5. ASSUME stage = "lines" PROVE Named(FirstLineRules(j) \cup LastLineRules(j))
  <2> DEFINE last == (lin - 1) * col + j
             over == (lin - 2) * col + j
  <2>1. /\ j \in 0 .. col - 2
        /\ j \in 0 .. col - 1 /\ j + 1 \in 0 .. col - 1 /\ (j # 0 => j - 1 \in 0 .. col - 1)
        /\ \A r \in {0, 1, lin - 1, lin - 2, lin - 3} : r \in 0 .. lin - 1
        /\ col - 1 \in 0 .. col - 1
    BY <1>1, <1>5 DEF TypeInv, LoopInv, Size
  <2>2. {j, j + 1, col + j, col + j + 1, last, last + 1, over, over + 1} \subseteq Cell
    <3>1. /\ At(0, j) = j /\ At(0, j + 1) = j + 1
          /\ At(1, j) = col + j /\ At(1, j + 1) = col + j + 1
          /\ At(lin - 1, j) = last /\ At(lin - 1, j + 1) = last + 1
          /\ At(lin - 2, j) = over /\ At(lin - 2, j + 1) = over + 1
      BY <1>1, <2>1 DEF At, Size
    <3>2. \A r \in {0, 1, lin - 1, lin - 2} : At(r, j) \in Cell /\ At(r, j + 1) \in Cell
      BY <1>1, <2>1, CellAt
    <3> QED
      BY <3>1, <3>2
  <2>3. {j - 1, col + j - 1, last - 1, over - 1} \subseteq Literals
    <3>1. CASE j # 0
      <4>1. /\ At(0, j - 1) = j - 1 /\ At(1, j - 1) = col + j - 1
            /\ At(lin - 1, j - 1) = last - 1 /\ At(lin - 2, j - 1) = over - 1
        BY <1>1, <2>1 DEF At, Size
      <4>2. \A r \in {0, 1, lin - 1, lin - 2} : At(r, j - 1) \in Cell
        BY <1>1, <2>1, <3>1, CellAt
      <4> QED
        BY <4>1, <4>2 DEF Literals
    <3>2. CASE j = 0
      <4>1. /\ j - 1 = -1 /\ At(0, col - 1) = col + j - 1
            /\ At(lin - 2, col - 1) = last - 1 /\ At(lin - 3, col - 1) = over - 1
        BY <1>1, <3>2 DEF At, Size
      <4>2. \A r \in {0, lin - 2, lin - 3} : At(r, col - 1) \in Cell
        BY <1>1, <2>1, CellAt
      <4> QED
        BY <4>1, <4>2 DEF Literals
    <3> QED
      BY <3>1, <3>2
  <2>4. /\ {j - 1, j + 1, col + j - 1, col + j, col + j + 1} \subseteq Literals
        /\ {last - 1, last + 1, over - 1, over, over + 1} \subseteq Literals
        /\ j \in Cell /\ last \in Cell
    BY <2>2, <2>3 DEF Literals
  <2> HIDE DEF last, over
  <2>5. /\ Named(DeadRules(j, {j - 1, j + 1, col + j - 1, col + j, col + j + 1}))
        /\ Named(DeadRules(last, {last - 1, last + 1, over - 1, over, over + 1}))
    BY <2>4, RulesNamed
  <2> QED
    BY <1>2, <2>5 DEF FirstLineRules, LastLineRules, last, over
<1>6. ASSUME stage = "columns" PROVE Named(LeftColumnRules(i) \cup RightColumnRules(i))
  <2>1. /\ i \in 1 .. lin - 2 /\ i \in 0 .. lin - 1
        /\ 0 \in 0 .. col - 1 /\ col - 1 \in 0 .. col - 1
        /\ At(i, 0) = i * col /\ At(i, col - 1) = (i + 1) * col - 1
    BY <1>1, <1>6 DEF TypeInv, LoopInv, Size, At
  <2>2. i * col \in Cell /\ (i + 1) * col - 1 \in Cell
    BY <1>1, <2>1, CellAt
  <2>3. /\ Named(DeadRules(i * col, Neighbours(i * col)))
        /\ Named(DeadRules((i + 1) * col - 1, Neighbours((i + 1) * col - 1)))
    BY <1>1, <2>2, RulesNamed
  <2> QED
    BY <1>1, <1>2, <2>1, <2>3, ColumnsRight DEF LeftColumnRules, RightColumnRules
<1> QED
  BY <1>3, <1>4, <1>5, <1>6

\* The solver is given clauses over the cells only, although the code computes an index
\* in front of the board (Main.cc:461-530).
THEOREM TypeCorrect == Spec => []TypeOK
<1>1. Init => TypeInv
  <2> SUFFICES ASSUME Init PROVE TypeInv
    OBVIOUS
  <2>1. LoopInv
    BY InitEncoding DEF EncodingInv
  <2>2. Interior \subseteq Cell
    <3>1. ASSUME NEW r \in 1 .. lin - 2, NEW d \in 1 .. col - 2
          PROVE  r * col + d \in Cell
      <4>1. Size /\ r \in 0 .. lin - 1 /\ d \in 0 .. col - 1
        BY <2>1 DEF LoopInv, Size
      <4> QED
        BY <4>1, CellAt DEF At
    <3> QED
      BY <3>1 DEF Interior
  <2>3. 1 \in 0 .. lin - 1 /\ 1 \in 0 .. col - 1
    BY <2>1 DEF LoopInv, Size
  <2>4. <<lin, col>> \in Sizes
    BY DEF Init, Sizes
  <2> QED
    BY <2>1, <2>2, <2>3, <2>4 DEF Init, TypeInv, TypeOK
<1>2. TypeInv /\ [Next]_vars => TypeInv'
  <2> SUFFICES ASSUME TypeInv, [Next]_vars PROVE TypeInv'
    OBVIOUS
  <2>1. LoopInv /\ TypeOK /\ Size
    BY DEF TypeInv, LoopInv
  <2>2. LoopInv' /\ i' \in 0 .. lin' - 1 /\ j' \in 0 .. col' - 1
    <3>1. CASE EncodeInterior
      BY <2>1, <3>1 DEF EncodeInterior, LoopInv, TypeOK, Input, Goto, Size
    <3>2. CASE EncodeCorners
      BY <2>1, <3>2 DEF EncodeCorners, LoopInv, TypeOK, Input, Goto, Size
    <3>3. CASE EncodeLines
      BY <2>1, <3>3 DEF EncodeLines, LoopInv, TypeOK, Input, Goto, Size
    <3>4. CASE EncodeColumns
      BY <2>1, <3>4 DEF EncodeColumns, LoopInv, TypeOK, Input, Goto, Size
    <3>5. CASE EncodeSoft \/ UNCHANGED vars
      BY <2>1, <3>5 DEF EncodeSoft, vars, LoopInv, TypeOK, Input, Goto, Size
    <3> QED
      BY <3>1, <3>2, <3>3, <3>4, <3>5 DEF Next
  <2>3. lin' = lin /\ col' = col /\ board' = board /\ stray' = stray /\ Cell' = Cell
    BY DEF Next, EncodeInterior, EncodeCorners, EncodeLines, EncodeColumns, EncodeSoft, vars,
           Input, Cell
  <2>4. \A c \in (hard \cup soft)' : c.pos \subseteq Cell' /\ c.neg \subseteq Cell'
    <3>1. CASE EncodeInterior
      BY <2>1, <3>1, LoopsNamed, TakesCells DEF EncodeInterior, TypeInv
    <3>2. CASE EncodeCorners
      BY <2>1, <3>2, LoopsNamed, TakesCells DEF EncodeCorners, TypeInv
    <3>3. CASE EncodeLines
      BY <2>1, <3>3, LoopsNamed, TakesCells DEF EncodeLines, TypeInv
    <3>4. CASE EncodeColumns
      BY <2>1, <3>4, LoopsNamed, TakesCells DEF EncodeColumns, TypeInv
    <3>5. CASE EncodeSoft
      BY <2>1, <2>3, <3>5 DEF EncodeSoft, TypeOK, Clause
    <3>6. CASE UNCHANGED vars
      BY <2>1, <2>3, <3>6 DEF vars, TypeOK
    <3> QED
      BY <3>1, <3>2, <3>3, <3>4, <3>5, <3>6 DEF Next
  <2>5. TypeOK'
    BY <2>1, <2>2, <2>3, <2>4 DEF TypeOK, LoopInv, Sizes
  <2> QED
    BY <2>2, <2>5 DEF TypeInv
<1>3. TypeInv => TypeOK
  BY DEF TypeInv
<1> QED
  BY <1>1, <1>2, <1>3, PTL DEF Spec
=============================================================================
