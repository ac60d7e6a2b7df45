-------------------------- MODULE SequentialCounter -------------------------
(***************************************************************************)
(* The sequential weight counter of src/src/encodings/Enc_SWC.cc: row i of *)
(* a table says which sums the first i literals reach.  The plain encoding *)
(* covers all literals at once and its bound goes down; the incremental    *)
(* one takes literals in batches, its bound goes up, and what it forbids   *)
(* holds under assumptions.                                                *)
(***************************************************************************)
EXTENDS ClauseDB

CONSTANTS
  Constraints,  \* the sequences of coefficients; the literals are 1 .. Len
  MaxRhs,       \* bound on the right-hand sides
  MaxUpdates    \* bound on the updates

VARIABLES
  S,         \* the SAT solver
  coeffs,    \* the coefficients
  table,     \* seq_auxiliary or seq_auxiliary_inc, by row and column
  lits,      \* lits_inc: the literals of the rows
  units,     \* unit_lits
  blocking,  \* current_lit_blocking
  rhs,       \* current_pb_rhs
  mode,      \* "none", "plain" or "incremental"
  given,     \* the literals constrained so far; not kept by the program
  asked,     \* the last right-hand side asked for; not kept by the program
  assumptions,\* the assumptions handed to the client last
  updates    \* updates so far; not kept by the program

vars == <<S, coeffs, table, lits, units, blocking, rhs, mode, given, asked, assumptions, updates>>

-----------------------------------------------------------------------------
\* A sum once reached stays reached.
Carry(t, i, js) == {{-t[i - 1, j], t[i, j]} : j \in js}

\* The literal ls[i] alone reaches its coefficient.
Start(t, ls, i, k) == {{-ls[i], t[i, j]} : j \in 1 .. Min({k, coeffs[ls[i]]})}

\* The literal ls[i] adds its coefficient.
Add(t, ls, i, js) == {{-t[i - 1, j], -ls[i], t[i, j + coeffs[ls[i]]]} : j \in js}

\* The literal ls[i] may not exceed k, unless the blocking literal b is true.
Limit(t, ls, i, k, b) == {{-t[i - 1, k + 1 - coeffs[ls[i]]], -ls[i]} \cup b}

\* New cells for the rows and columns given, after the variables of T.
Cells(T, rows, columns) ==
  [c \in rows \X columns |->
     T.n + (c[1] - Min(rows)) * Cardinality(columns) + (c[2] - Min(columns)) + 1]

\* The clauses of a new table t over ls.
Counter(t, ls, k, b) ==
  UNION {Start(t, ls, i, k) : i \in 1 .. Len(ls)}
  \cup UNION {Carry(t, i, 1 .. k) \cup Add(t, ls, i, 1 .. k - coeffs[ls[i]])
              \cup Limit(t, ls, i, k, b) : i \in 2 .. Len(ls)}

\* The literals of ls that weigh at most k, and those that weigh more.
Light(ls, k) == SelectSeq(ls, LAMBDA l : coeffs[l] <= k)
Heavy(ls, k) == SelectSeq(ls, LAMBDA l : coeffs[l] > k)

All == [i \in DOMAIN coeffs |-> i]

-----------------------------------------------------------------------------
Init ==
  /\ coeffs \in Constraints
  /\ S = SolverWith(Len(coeffs))
  /\ table = [c \in {} |-> 0]
  /\ lits = <<>> /\ units = <<>>
  /\ blocking = Undef
  /\ rhs = -1
  /\ mode = "none"
  /\ given = {}
  /\ asked = 0
  /\ assumptions = {}
  /\ updates = 0

\* SWC::encode with all literals.
Encode(k) ==
  LET ls == Light(All, k)
      T  == AddUnits(S, {-l : l \in ToSet(Heavy(All, k))})
      t  == Cells(T, DOMAIN ls, 1 .. k)
  IN  /\ mode = "none" /\ given = {} /\ updates = 0
      /\ given' = DOMAIN coeffs
      /\ asked' = k
      /\ IF Len(ls) <= 1
           THEN S' = T /\ UNCHANGED <<table, lits, rhs, mode>>
           ELSE /\ S' = AddClauses(NewSATVariables(T, Len(ls) * k), Counter(t, ls, k, {}))
                /\ table' = t
                /\ lits' = ls
                /\ rhs' = k
                /\ mode' = "plain"
      /\ UNCHANGED <<coeffs, units, blocking, assumptions, updates>>

\* SWC::update: the outputs, row n of the table, above k are negated.
Update(k) ==
  /\ mode = "plain" /\ k < rhs /\ updates < MaxUpdates
  /\ S' = AddUnits(S, {-table[Len(lits), i + 1] : i \in k .. rhs - 1})
  /\ rhs' = k
  /\ asked' = k
  /\ updates' = updates + 1
  /\ UNCHANGED <<coeffs, table, lits, units, blocking, mode, given, assumptions>>

\* SWC::encode with a batch of literals and assumptions.  Literals set aside
\* before come back when they fit; without two literals nothing is encoded.
EncodeInc(batch, k) ==
  LET offered == units \o batch
      ls      == Light(units, k) \o Light(batch, k)
      aside   == Heavy(offered, k)
      t       == Cells(S, DOMAIN ls, 1 .. k)
      T       == NewSATVariables(S, Len(ls) * k + 1)
  IN  /\ mode = "none" /\ (given = {} \/ updates > 0) /\ updates < MaxUpdates
      /\ updates' = updates + 1
      /\ given' = given \cup ToSet(batch)
      /\ asked' = k
      /\ IF Len(ls) <= 1
           THEN /\ units' = aside \o ls
                /\ assumptions' = {-l : l \in ToSet(aside)}
                /\ UNCHANGED <<S, table, lits, blocking, rhs, mode>>
           ELSE /\ S' = AddClauses(T, Counter(t, ls, k, {T.n}))
                /\ table' = t
                /\ lits' = ls
                /\ units' = aside
                /\ blocking' = T.n
                /\ assumptions' = {-T.n} \cup {-l : l \in ToSet(aside)}
                /\ rhs' = k
                /\ mode' = "incremental"
      /\ UNCHANGED coeffs

\* SWC::update with assumptions: the columns up to k are added to every row and
\* the old limits switched off.  It yields the solver, table and blocking literal.
Widened(k) ==
  LET offset  == rhs + 1
      rows    == DOMAIN lits
      t       == table @@ Cells(S, rows, offset .. k)
      T       == NewSATVariables(AddUnits(S, {blocking}), Len(lits) * (k - rhs) + 1)
      w(i)    == coeffs[lits[i]]
      clauses == UNION {Carry(t, i, offset .. k)
                        \cup Add(t, lits, i, Max({1, offset - w(i)}) .. k - w(i))
                        \cup Limit(t, lits, i, k, {T.n}) : i \in 2 .. Len(lits)}
  IN  [S |-> AddClauses(T, clauses), table |-> t, blocking |-> T.n]

\* The first new row does not start from the last old one.
JoinClausesWrongly(t, ls, from, k, b) ==
  UNION {Start(t, ls, i, k) \cup Carry(t, i, 1 .. k) \cup Add(t, ls, i, 1 .. k - coeffs[ls[i]])
         : i \in from + 2 .. Len(ls)}
  \cup UNION {Start(t, ls, i, k) \cup Limit(t, ls, i, k, b) : i \in from + 1 .. Len(ls)}

\* SWC::join: the rows from the last old one on, and the limits of the new ones.
JoinClauses(t, ls, from, k, b) ==
  UNION {Start(t, ls, i, k) \cup Carry(t, i, 1 .. k) \cup Add(t, ls, i, 1 .. k - coeffs[ls[i]])
         : i \in from .. Len(ls)}
  \cup UNION {Limit(t, ls, i, k, b) : i \in from + 1 .. Len(ls)}

\* Encoder::incUpdatePB, update and then join, and incUpdatePBAssumptions.
IncUpdatePB(batch, k) ==
  LET w   == Widened(k)
      ls  == lits \o Light(units \o batch, k)
      new == Len(lits) + 1 .. Len(ls)
      t   == w.table @@ Cells(w.S, new, 1 .. k)
  IN  /\ mode = "incremental" /\ k > rhs /\ updates < MaxUpdates
      /\ updates' = updates + 1
      /\ given' = given \cup ToSet(batch)
      /\ asked' = k
      /\ units' = Heavy(units \o batch, k)
      /\ lits' = ls
      /\ IF new = {}
           THEN S' = w.S /\ table' = w.table
           ELSE /\ S' = AddClauses(NewSATVariables(w.S, Cardinality(new) * k),
                                   JoinClauses(t, ls, Len(lits), k, {w.blocking}))
                /\ table' = t
      /\ blocking' = w.blocking
      /\ assumptions' = {-w.blocking} \cup {-l : l \in ToSet(units')}
      /\ rhs' = k
      /\ UNCHANGED <<coeffs, mode>>

\* A batch is the next few literals.
Batches == {SubSeq(All, Cardinality(given) + 1, j) : j \in Cardinality(given) .. Len(coeffs)}

Next ==
  \E k \in 0 .. MaxRhs :
    \/ Encode(k)
    \/ Update(k)
    \/ \E batch \in Batches : EncodeInc(batch, k) \/ IncUpdatePB(batch, k)

Spec == Init /\ [][Next]_vars

-----------------------------------------------------------------------------
WeightOf(X) == MapThenSumSet(LAMBDA i : coeffs[i], X)

Allowed(X) ==
  LET true == assumptions \cup Exactly(given, X)
  IN  (\A l \in true : -l \notin true) /\ Satisfiable(S.clauses, true)

\* A plain encoding allows an assignment exactly when its true literals weigh no
\* more than the bound, after any updates (encode and update, Enc_SWC.cc:56-391).
ExactlyAtMost ==
  (mode = "plain" \/ (mode = "none" /\ updates = 0 /\ given # {})) =>
    \A X \in SUBSET given : Allowed(X) <=> WeightOf(X) <= asked

\* Under the assumptions handed out last, an incremental encoding allows exactly the
\* assignments of the literals given so far that weigh no more than the bound: the
\* limits of smaller bounds are off and the rows and columns added later are
\* connected to the old ones (update and join, Enc_SWC.cc:394-576).
IncrementalExact ==
  updates > 0 /\ mode # "plain" => \A X \in SUBSET given : Allowed(X) <=> WeightOf(X) <= asked
=============================================================================
