------------------------------ MODULE MultiSolvers ------------------------------
(***************************************************************************)
(* The parallel solver: the main process launches clones of one solver,    *)
(* sleeps until one has an answer and joins them, while they search, share *)
(* units and stop when another has finished                                *)
(* (src/src/solvers/glucose4.1/parallel/MultiSolvers.cc, ParallelSolver.cc *)
(* and SharedCompanion.cc).                                                *)
(*                                                                         *)
(* The formula is the set of its models, and a search is what it may find: *)
(* units that all models satisfy, a model, or that there is none.  The     *)
(* variables of Eliminated were eliminated before the clones were made.    *)
(* SharedCompanion's methods hold a lock each and are one step each.       *)
(***************************************************************************)
EXTENDS Integers, Sequences, FiniteSets, FiniteSetTheorems, TLAPS

CONSTANTS Solvers,        \* the clones
          First,          \* the one made by hand, solver 0
          Vars, Eliminated

Nobody == "nobody"

ASSUME SolversAssumption ==
  /\ IsFiniteSet(Solvers) /\ First \in Solvers /\ Nobody \notin Solvers
  /\ Eliminated \subseteq Vars

VARIABLES
  formula,        \* the models of the clauses
  pc,             \* what each thread does next
  known,          \* the literals on each thread's trail at level 0
  status, model,  \* the answer of each thread, and the model of its solver
  unitLit, nextUnit,            \* the units shared, and how many each thread was given
  jobFinishedBy, jobStatus,     \* of the companion
  main, answer, answerModel,    \* the main process, its result and its model
  double          \* a solver was given a literal that has a value

thread == <<pc, known, status, model>>
companion == <<unitLit, nextUnit, jobFinishedBy, jobStatus>>
process == <<main, answer, answerModel>>
vars == <<formula, thread, companion, process, double>>

Lits == [var : Vars, sign : BOOLEAN]
LitsOf(V) == {l \in Lits : l.var \in V}
Totals == {M \in SUBSET Lits : \A v \in Vars : Cardinality({l \in M : l.var = v}) = 1}
Unassigned(i, v) == \A l \in known[i] : l.var # v

Init ==
  /\ formula \in SUBSET Totals
  /\ pc = [i \in Solvers |-> "created"] /\ known = [i \in Solvers |-> {}]
  /\ status = [i \in Solvers |-> "undef"] /\ model = [i \in Solvers |-> {}]
  /\ unitLit = <<>> /\ nextUnit = [i \in Solvers |-> 0]
  /\ jobFinishedBy = Nobody /\ jobStatus = "undef"
  /\ main = "launch" /\ answer = "undef" /\ answerModel = {} /\ double = FALSE

Goto(i, place) == pc' = [pc EXCEPT ![i] = place]

-----------------------------------------------------------------------------
\* The main process creates the threads one by one.
Launch(i) ==
  /\ main = "launch" /\ pc[i] = "created" /\ Goto(i, "search")
  /\ UNCHANGED <<formula, known, status, model, companion, process, double>>

Launched ==
  /\ main = "launch" /\ (\A i \in Solvers : pc[i] # "created") /\ main' = "wait"
  /\ UNCHANGED <<formula, thread, companion, answer, answerModel, double>>

\* pthread_cond_timedwait comes back without a signal: after five seconds, when the
\* statistics are printed and it sleeps again, or for no reason.
Timeout ==
  /\ main = "wait" /\ main' = "loop"
  /\ UNCHANGED <<formula, thread, companion, answer, answerModel, double>>
SleepAgain ==
  /\ main = "loop" /\ main' = "wait"
  /\ UNCHANGED <<formula, thread, companion, answer, answerModel, double>>
WakeUp ==
  /\ main = "wait" /\ main' = "join"
  /\ UNCHANGED <<formula, thread, companion, answer, answerModel, double>>

\* A wrong Extended, for the mutant run: the eliminated variables keep no value.
ExtendedWrongly(M) == M

\* extendModel gives the eliminated variables a value, by the clauses that were kept.
Extended(M) ==
  IF \E N \in formula : M \cap LitsOf(Vars \ Eliminated) \subseteq N
    THEN CHOOSE N \in formula : M \cap LitsOf(Vars \ Eliminated) \subseteq N ELSE M

\* A wrong Answer, for the mutant run: the threads are not joined.
AnswerWrongly ==
  /\ main = "join" /\ main' = "done"
  /\ answer' = jobStatus
  /\ IF jobStatus = "true"
       THEN /\ model' = [model EXCEPT ![jobFinishedBy] = Extended(@)]
            /\ answerModel' = model'[jobFinishedBy]
       ELSE UNCHANGED <<model, answerModel>>
  /\ UNCHANGED <<formula, pc, known, status, companion, double>>

\* All threads are joined; the model of the winner is extended and copied.
Answer ==
  /\ main = "join" /\ (\A i \in Solvers : pc[i] = "exit") /\ main' = "done"
  /\ answer' = jobStatus
  /\ IF jobStatus = "true"
       THEN /\ model' = [model EXCEPT ![jobFinishedBy] = Extended(@)]
            /\ answerModel' = model'[jobFinishedBy]
       ELSE UNCHANGED <<model, answerModel>>
  /\ UNCHANGED <<formula, pc, known, status, companion, double>>

\* addClause_ with a unit when all clones are built: solver 0 has it twice.
AddUnit ==
  /\ main = "done" /\ answer # "false"
  /\ \E l \in Lits :
       /\ Unassigned(First, l.var)
       /\ formula' = {M \in formula : l \in M}
       /\ known' = [i \in Solvers |-> known[i] \cup {l}]
  /\ double' = TRUE
  /\ UNCHANGED <<pc, status, model, companion, process>>

-----------------------------------------------------------------------------
Implied(l) == \A M \in formula : l \in M

\* search learns a unit and shares it; the companion keeps the first for a variable.
LearnUnit(i, l) ==
  /\ pc[i] = "search" /\ Implied(l) /\ Unassigned(i, l.var) /\ l.var \notin Eliminated
  /\ known' = [known EXCEPT ![i] = @ \cup {l}]
  /\ unitLit' = IF \E k \in DOMAIN unitLit : unitLit[k].var = l.var THEN unitLit
                ELSE Append(unitLit, l)
  /\ UNCHANGED <<formula, pc, status, model, nextUnit, jobFinishedBy, jobStatus, process, double>>

\* A wrong ImportUnit, for the mutant run: a reader passes over a unit.
ImportUnitWrongly(i) ==
  /\ pc[i] = "search" /\ nextUnit[i] < Len(unitLit)
  /\ nextUnit' = [nextUnit EXCEPT ![i] = Len(unitLit)]
  /\ LET l == unitLit[Len(unitLit)]
     IN  known' = IF Unassigned(i, l.var) THEN [known EXCEPT ![i] = @ \cup {l}] ELSE known
  /\ UNCHANGED <<formula, pc, status, model, unitLit, jobFinishedBy, jobStatus, process, double>>

\* At level 0 a thread takes the units it has not seen.
ImportUnit(i) ==
  /\ pc[i] = "search" /\ nextUnit[i] < Len(unitLit)
  /\ nextUnit' = [nextUnit EXCEPT ![i] = @ + 1]
  /\ LET l == unitLit[nextUnit[i] + 1]
     IN  known' = IF Unassigned(i, l.var) THEN [known EXCEPT ![i] = @ \cup {l}] ELSE known
  /\ UNCHANGED <<formula, pc, status, model, unitLit, jobFinishedBy, jobStatus, process, double>>

\* search has an answer: a model, which is on the trail, or a conflict at level 0.
Solved(i, M) ==
  /\ pc[i] = "search" /\ M \in formula /\ known[i] \subseteq M
  /\ known' = [known EXCEPT ![i] = M \cap LitsOf(Vars \ Eliminated)]
  /\ status' = [status EXCEPT ![i] = "true"] /\ Goto(i, "report")
  /\ UNCHANGED <<formula, model, companion, process, double>>
Refuted(i) ==
  /\ pc[i] = "search" /\ formula = {}
  /\ status' = [status EXCEPT ![i] = "false"] /\ Goto(i, "report")
  /\ UNCHANGED <<formula, known, model, companion, process, double>>

\* The job is finished by another, which search notices at a conflict, solve_ after it.
GiveUp(i) ==
  /\ pc[i] = "search" /\ jobFinishedBy # Nobody /\ Goto(i, "signal")
  /\ UNCHANGED <<formula, known, status, model, companion, process, double>>

\* A wrong Report, for the mutant run: every thread with an answer is the winner.
ReportWrongly(i) ==
  /\ pc[i] = "report"
  /\ jobFinishedBy' = i /\ Goto(i, "winner")
  /\ UNCHANGED <<formula, known, status, model, unitLit, nextUnit, jobStatus, process, double>>

\* IFinished: the first to come is the winner.
Report(i) ==
  /\ pc[i] = "report"
  /\ IF jobFinishedBy = Nobody THEN jobFinishedBy' = i /\ Goto(i, "winner")
     ELSE Goto(i, "signal") /\ UNCHANGED jobFinishedBy
  /\ UNCHANGED <<formula, known, status, model, unitLit, nextUnit, jobStatus, process, double>>

\* The winner publishes its answer, then fills its model.
Publish(i) ==
  /\ pc[i] = "winner" /\ jobStatus' = status[i]
  /\ Goto(i, IF status[i] = "true" THEN "fill" ELSE "signal")
  /\ UNCHANGED <<formula, known, status, model, unitLit, nextUnit, jobFinishedBy, process, double>>
Fill(i) ==
  /\ pc[i] = "fill" /\ model' = [model EXCEPT ![i] = known[i]] /\ Goto(i, "signal")
  /\ UNCHANGED <<formula, known, status, companion, process, double>>

\* pthread_cond_signal wakes the main process if it sleeps.
Signal(i) ==
  /\ pc[i] = "signal" /\ Goto(i, "exit")
  /\ main' = IF main = "wait" THEN "join" ELSE main
  /\ UNCHANGED <<formula, known, status, model, companion, answer, answerModel, double>>

Searching(i) ==
  \/ Refuted(i) \/ GiveUp(i) \/ \E M \in formula : Solved(i, M)
Finishing(i) == Report(i) \/ Publish(i) \/ Fill(i) \/ Signal(i)
Thread(i) ==
  Searching(i) \/ Finishing(i) \/ ImportUnit(i) \/ \E l \in Lits : LearnUnit(i, l)
Main == (\E i \in Solvers : Launch(i)) \/ Launched \/ Timeout \/ SleepAgain \/ WakeUp \/ Answer \/ AddUnit

Next == Main \/ \E i \in Solvers : Thread(i)

Spec == Init /\ [][Next]_vars

-----------------------------------------------------------------------------
\* The variables have their types, and no thread has read past the shared units.
TypeOK ==
  /\ formula \subseteq Totals
  /\ pc \in [Solvers -> {"created", "search", "report", "winner", "fill", "signal", "exit"}]
  /\ known \in [Solvers -> SUBSET Lits] /\ model \in [Solvers -> SUBSET Lits]
  /\ status \in [Solvers -> {"undef", "true", "false"}]
  /\ unitLit \in Seq(Lits) /\ nextUnit \in [Solvers -> Nat]
  /\ \A i \in Solvers : nextUnit[i] <= Len(unitLit)
  /\ jobFinishedBy \in Solvers \cup {Nobody} /\ jobStatus \in {"undef", "true", "false"}
  /\ main \in {"launch", "wait", "loop", "join", "done"}
  /\ answer \in {"undef", "true", "false"} /\ answerModel \subseteq Lits /\ double \in BOOLEAN

\* The main process answers what the winner found, although IFinished, the status and
\* the model are set one after the other and any thread may have woken it.
AnswerIsTheWinners ==
  main = "done" => jobFinishedBy # Nobody /\ answer = status[jobFinishedBy] /\ answer # "undef"

\* With the answer that there is a model comes one, for the eliminated variables too.
ModelGiven ==
  main = "done" /\ answer = "true" /\ ~ double => answerModel \in formula

\* The first thread that says it has finished stays the winner, and its answer stays:
\* the main process reads the model of the one with the status of the other.
AnswerStays ==
  [][jobFinishedBy # Nobody =>
       /\ jobFinishedBy' = jobFinishedBy
       /\ jobStatus # "undef" => jobStatus' = jobStatus]_vars

\* A unit that was shared is known to every thread that has read it, by the same sign
\* unless the formula has no model.
UnitsReachReaders ==
  formula # {} =>
    \A i \in Solvers : pc[i] # "exit" =>
      \A k \in 1 .. nextUnit[i] : unitLit[k] \in known[i]

-----------------------------------------------------------------------------
(***************************************************************************)
(* Proofs: safety for any number of clones and any formula.  Whoever wakes *)
(* the main process, it answers what the winner found.                     *)
(***************************************************************************)
(***************************************************************************)
(* The inductive invariant.                                                *)
(***************************************************************************)

\* A thread that is past IFinished knows a winner, who is past it too; the answer is
\* published between the winner's steps and stays.
Order ==
  /\ \A i \in Solvers :
       /\ pc[i] \in {"signal", "exit"} => jobFinishedBy # Nobody
       /\ pc[i] \in {"winner", "fill"} => jobFinishedBy = i
       /\ pc[i] = "report" => status[i] # "undef"
       /\ pc[i] \in {"created", "search"} => status[i] = "undef"
       /\ pc[i] = "fill" => status[i] = "true"
       /\ jobFinishedBy = i => /\ pc[i] \in {"winner", "fill", "signal", "exit"}
                               /\ status[i] # "undef"
                               /\ pc[i] # "winner" => jobStatus = status[i]
  /\ jobStatus # "undef" => /\ jobFinishedBy \in Solvers
                            /\ pc[jobFinishedBy] # "winner"
  /\ main = "done" => answer = jobStatus /\ \A i \in Solvers : pc[i] = "exit"

\* The literals of a thread that has found a model are those of the model, without the
\* variables that were eliminated; the winner copies them.
Kept(S) == \E M \in formula : S = M \cap LitsOf(Vars \ Eliminated)
Models ==
  ~ double =>
    /\ \A i \in Solvers : status[i] = "true" => Kept(known[i])
    /\ jobFinishedBy # Nobody /\ status[jobFinishedBy] = "true"
         /\ pc[jobFinishedBy] \in {"signal", "exit"} /\ main # "done" =>
            model[jobFinishedBy] = known[jobFinishedBy]
    /\ main = "done" /\ answer = "true" => answerModel \in formula

\* What is shared follows from the formula and concerns no eliminated variable, and so
\* does what a thread knows while it searches.
Units ==
  formula # {} =>
    /\ \A k \in 1 .. Len(unitLit) : Implied(unitLit[k]) /\ unitLit[k].var \notin Eliminated
    /\ \A i \in Solvers : pc[i] \in {"created", "search"} => \A l \in known[i] : Implied(l)
    /\ UnitsReachReaders

Inv == TypeOK /\ Order /\ Models /\ Units

-----------------------------------------------------------------------------
LEMMA InitInv == Init => Inv
<1> SUFFICES ASSUME Init PROVE Inv
  OBVIOUS
<1>1. TypeOK
  <2>1. nextUnit \in [Solvers -> Nat] /\ \A i \in Solvers : nextUnit[i] <= Len(unitLit)
    BY DEF Init
  <2>2. unitLit \in Seq(Lits) /\ formula \subseteq Totals
    BY DEF Init
  <2> QED
    BY <2>1, <2>2 DEF Init, TypeOK
<1>2. Order
  <2>1. \A i \in Solvers : jobFinishedBy # i
    BY SolversAssumption DEF Init
  <2> QED
    BY <2>1 DEF Init, Order
<1>3. Models
  BY DEF Init, Models
<1>4. Units
  BY DEF Init, Units, UnitsReachReaders
<1> QED
  BY <1>1, <1>2, <1>3, <1>4 DEF Inv

\* A model can be extended to the eliminated variables.
LEMMA ExtendedTyped ==
  ASSUME formula \subseteq Totals, NEW M \in SUBSET Lits
  PROVE  /\ Extended(M) \in SUBSET Lits
         /\ Kept(M) => Extended(M) \in formula
<1> DEFINE Has(N) == M \cap LitsOf(Vars \ Eliminated) \subseteq N
<1>1. CASE \E N \in formula : Has(N)
  <2>1. (CHOOSE N \in formula : Has(N)) \in formula
    BY <1>1
  <2>2. Extended(M) = CHOOSE N \in formula : Has(N)
    BY <1>1 DEF Extended
  <2> QED
    BY <2>1, <2>2 DEF Totals
<1>2. CASE ~ \E N \in formula : Has(N)
  <2>1. ~ Kept(M)
    BY <1>2 DEF Kept
  <2> QED
    BY <1>2, <2>1 DEF Extended
<1> QED
  BY <1>1, <1>2

LEMMA TypeStep ==
  ASSUME TypeOK, Order, Next
  PROVE  TypeOK'
<1> USE DEF TypeOK, Goto
<1>1. ASSUME NEW i \in Solvers, Launch(i) PROVE TypeOK'
  BY <1>1 DEF Launch, companion, process
<1>2. CASE Launched \/ Timeout \/ SleepAgain \/ WakeUp
  BY <1>2 DEF Launched, Timeout, SleepAgain, WakeUp, thread, companion
<1>3. CASE Answer
  <2>1. model' \in [Solvers -> SUBSET Lits] /\ answerModel' \in SUBSET Lits
    <3>1. CASE jobStatus = "true" /\ jobFinishedBy \in Solvers
      <4> DEFINE w == model[jobFinishedBy]
      <4>1. Extended(w) \in SUBSET Lits
        BY <3>1, ExtendedTyped
      <4>2. /\ model' = [model EXCEPT ![jobFinishedBy] = Extended(w)]
            /\ answerModel' = model'[jobFinishedBy]
        BY <1>3, <3>1 DEF Answer
      <4> QED
        BY <3>1, <4>1, <4>2
    <3>2. CASE jobStatus # "true"
      BY <1>3, <3>2 DEF Answer
    <3> QED
      BY <1>3, <3>1, <3>2 DEF Order
  <2> QED
    BY <1>3, <2>1 DEF Answer, companion
<1>4. CASE AddUnit
  BY <1>4 DEF AddUnit, companion, process
<1>5. ASSUME NEW i \in Solvers, NEW l \in Lits, LearnUnit(i, l) PROVE TypeOK'
  BY <1>5 DEF LearnUnit, process
<1>6. ASSUME NEW i \in Solvers, ImportUnit(i) PROVE TypeOK'
  BY <1>6 DEF ImportUnit, process
<1>7. ASSUME NEW i \in Solvers, NEW M \in formula, Solved(i, M) PROVE TypeOK'
  BY <1>7 DEF Solved, companion, process, Totals
<1>8. ASSUME NEW i \in Solvers, Refuted(i) \/ GiveUp(i) PROVE TypeOK'
  BY <1>8 DEF Refuted, GiveUp, companion, process
<1>9. ASSUME NEW i \in Solvers, Report(i) PROVE TypeOK'
  BY <1>9 DEF Report, process
<1>10. ASSUME NEW i \in Solvers, Publish(i) \/ Fill(i) PROVE TypeOK'
  BY <1>10 DEF Publish, Fill, companion, process
<1>11. ASSUME NEW i \in Solvers, Signal(i) PROVE TypeOK'
  BY <1>11 DEF Signal, companion
<1> QED
  BY <1>1, <1>2, <1>3, <1>4, <1>5, <1>6, <1>7, <1>8, <1>9, <1>10, <1>11
     DEF Next, Main, Thread, Searching, Finishing

LEMMA OrderStep ==
  ASSUME TypeOK, Order, Next
  PROVE  Order'
<1> USE DEF TypeOK, Order, Goto
<1>1. ASSUME NEW i \in Solvers, Launch(i) PROVE Order'
  BY <1>1 DEF Launch, companion, process
<1>2. CASE Launched \/ Timeout \/ SleepAgain \/ WakeUp
  BY <1>2 DEF Launched, Timeout, SleepAgain, WakeUp, thread, companion
<1>3. CASE Answer
  BY <1>3 DEF Answer, companion
<1>4. CASE AddUnit
  BY <1>4 DEF AddUnit, companion, process
<1>5. ASSUME NEW i \in Solvers, NEW l \in Lits, LearnUnit(i, l) PROVE Order'
  BY <1>5 DEF LearnUnit, process
<1>6. ASSUME NEW i \in Solvers, ImportUnit(i) PROVE Order'
  BY <1>6 DEF ImportUnit, process
<1>7. ASSUME NEW i \in Solvers, NEW M \in formula, Solved(i, M) PROVE Order'
  BY <1>7 DEF Solved, companion, process
<1>8. ASSUME NEW i \in Solvers, Refuted(i) PROVE Order'
  BY <1>8 DEF Refuted, companion, process
<1>9. ASSUME NEW i \in Solvers, GiveUp(i) PROVE Order'
  BY <1>9 DEF GiveUp, companion, process
<1>10. ASSUME NEW i \in Solvers, Report(i) PROVE Order'
  <2>1. CASE jobFinishedBy = Nobody
    <3>1. /\ jobFinishedBy' = i /\ pc' = [pc EXCEPT ![i] = "winner"] /\ status' = status
          /\ jobStatus' = jobStatus /\ main' = main /\ answer' = answer
      BY <1>10, <2>1 DEF Report, process
    <3>2. status[i] # "undef" /\ i # Nobody
      BY <1>10, SolversAssumption DEF Report
    <3>3. jobStatus = "undef" /\ main # "done"
      BY <1>10, <2>1, SolversAssumption DEF Report
    <3>4. \A j \in Solvers : pc[j] \notin {"winner", "fill", "signal", "exit"}
      BY <2>1, SolversAssumption
    <3> QED
      BY <3>1, <3>2, <3>3, <3>4
  <2>2. CASE jobFinishedBy # Nobody
    BY <1>10, <2>2 DEF Report, process
  <2> QED
    BY <2>1, <2>2
<1>11. ASSUME NEW i \in Solvers, Publish(i) PROVE Order'
  <2>1. /\ jobFinishedBy = i /\ jobStatus' = status[i] /\ jobFinishedBy' = jobFinishedBy
        /\ status' = status /\ main' = main /\ answer' = answer /\ main # "done"
        /\ pc[i] = "winner" /\ status[i] # "undef"
    BY <1>11 DEF Publish, process
  <2>2. pc' = [pc EXCEPT ![i] = IF status[i] = "true" THEN "fill" ELSE "signal"]
    BY <1>11 DEF Publish
  <2>3. pc'[i] \in {"fill", "signal"} /\ (pc'[i] = "fill" => status[i] = "true")
    BY <2>2
  <2>4. \A j \in Solvers \ {i} : pc'[j] = pc[j]
    BY <2>2
  <2>5. i # Nobody
    BY SolversAssumption
  <2> QED
    BY <2>1, <2>3, <2>4, <2>5
<1>12. ASSUME NEW i \in Solvers, Fill(i) PROVE Order'
  <2>1. /\ jobFinishedBy = i /\ status' = status /\ UNCHANGED companion /\ UNCHANGED process
        /\ pc[i] = "fill" /\ main # "done"
    BY <1>12 DEF Fill, process
  <2>2. pc' = [pc EXCEPT ![i] = "signal"] /\ i # Nobody
    BY <1>12, SolversAssumption DEF Fill
  <2> QED
    BY <2>1, <2>2 DEF companion, process
<1>13. ASSUME NEW i \in Solvers, Signal(i) PROVE Order'
  BY <1>13 DEF Signal, companion
<1> QED
  BY <1>1, <1>2, <1>3, <1>4, <1>5, <1>6, <1>7, <1>8, <1>9, <1>10, <1>11, <1>12, <1>13
     DEF Next, Main, Thread, Searching, Finishing

LEMMA ModelsStep ==
  ASSUME TypeOK, Order, Models, Next
  PROVE  Models'
<1> USE DEF TypeOK, Goto, Kept
<1>1. ASSUME NEW i \in Solvers, Launch(i) PROVE Models'
  BY <1>1 DEF Launch, companion, process, Models
<1>2. CASE Launched \/ Timeout \/ SleepAgain \/ WakeUp
  BY <1>2 DEF Launched, Timeout, SleepAgain, WakeUp, thread, companion, Models
<1>3. CASE Answer
  <2>1. CASE double
    BY <1>3, <2>1 DEF Answer, Models
  <2>2. CASE ~ double /\ jobStatus = "true"
    <3>1. /\ jobFinishedBy \in Solvers /\ pc[jobFinishedBy] = "exit"
          /\ status[jobFinishedBy] = "true" /\ main = "join"
      BY <1>3, <2>2 DEF Answer, Order
    <3>2. model[jobFinishedBy] = known[jobFinishedBy] /\ Kept(known[jobFinishedBy])
      BY <2>2, <3>1, SolversAssumption DEF Models
    <3>3. Extended(model[jobFinishedBy]) \in formula
      BY <3>1, <3>2, ExtendedTyped
    <3>4. answerModel' = Extended(model[jobFinishedBy])
      BY <1>3, <2>2, <3>1 DEF Answer
    <3> QED
      BY <1>3, <2>2, <3>3, <3>4 DEF Answer, companion, Models
  <2>3. CASE ~ double /\ jobStatus # "true"
    BY <1>3, <2>3 DEF Answer, companion, Models
  <2> QED
    BY <2>1, <2>2, <2>3
<1>4. CASE AddUnit
  BY <1>4 DEF AddUnit, Models
<1>5. ASSUME NEW i \in Solvers, NEW l \in Lits, LearnUnit(i, l) PROVE Models'
  BY <1>5 DEF LearnUnit, process, Models, Order
<1>6. ASSUME NEW i \in Solvers, ImportUnit(i) PROVE Models'
  BY <1>6 DEF ImportUnit, process, Models, Order
<1>7. ASSUME NEW i \in Solvers, NEW M \in formula, Solved(i, M) PROVE Models'
  BY <1>7 DEF Solved, companion, process, Models, Order
<1>8. ASSUME NEW i \in Solvers, Refuted(i) \/ GiveUp(i) PROVE Models'
  <2>1. jobFinishedBy # i
    BY <1>8 DEF Refuted, GiveUp, Order
  <2>2. /\ UNCHANGED <<formula, known, model, double, main, answer, answerModel, jobFinishedBy>>
        /\ \A j \in Solvers \ {i} : pc'[j] = pc[j] /\ status'[j] = status[j]
        /\ status'[i] \in {status[i], "false"}
    BY <1>8 DEF Refuted, GiveUp, companion, process
  <2> QED
    BY <2>1, <2>2, SolversAssumption DEF Models
<1>9. ASSUME NEW i \in Solvers, Report(i) PROVE Models'
  BY <1>9, SolversAssumption DEF Report, process, Models, Order
<1>10. ASSUME NEW i \in Solvers, Publish(i) PROVE Models'
  BY <1>10 DEF Publish, process, Models, Order
<1>11. ASSUME NEW i \in Solvers, Fill(i) PROVE Models'
  <2>1. /\ pc[i] = "fill" /\ model' = [model EXCEPT ![i] = known[i]]
        /\ UNCHANGED <<formula, known, status, double, main, answer, answerModel, jobFinishedBy>>
        /\ pc' = [pc EXCEPT ![i] = "signal"]
    BY <1>11 DEF Fill, companion, process
  <2>2. jobFinishedBy = i /\ main # "done"
    BY <2>1 DEF Order
  <2>3. model'[jobFinishedBy] = known[jobFinishedBy]
    BY <2>1, <2>2
  <2> QED
    BY <2>1, <2>2, <2>3 DEF Models
<1>12. ASSUME NEW i \in Solvers, Signal(i) PROVE Models'
  BY <1>12 DEF Signal, companion, Models, Order
<1> QED
  BY <1>1, <1>2, <1>3, <1>4, <1>5, <1>6, <1>7, <1>8, <1>9, <1>10, <1>11, <1>12
     DEF Next, Main, Thread, Searching, Finishing

\* A model has one literal of a variable.
LEMMA OneLiteral ==
  ASSUME NEW M \in Totals, NEW l \in M, NEW m \in M, l.var = m.var
  PROVE  l = m
<1> DEFINE S == {x \in M : x.var = l.var}
           B == {[var |-> l.var, sign |-> TRUE], [var |-> l.var, sign |-> FALSE]}
<1>1. M \in SUBSET Lits /\ l.var \in Vars /\ Cardinality(S) = 1
  BY DEF Totals, Lits
<1>2. ASSUME NEW x \in S PROVE x \in B
  <2>1. x \in [var : Vars, sign : BOOLEAN] /\ x.var = l.var
    BY <1>1 DEF Lits
  <2>2. x = [var |-> x.var, sign |-> x.sign] /\ x.sign \in BOOLEAN
    BY <2>1
  <2> QED
    BY <2>1, <2>2
<1>3. IsFiniteSet(B)
  <2>1. /\ IsFiniteSet({[var |-> l.var, sign |-> TRUE]})
        /\ B = {[var |-> l.var, sign |-> TRUE]} \cup {[var |-> l.var, sign |-> FALSE]}
    BY FS_Singleton
  <2> QED
    BY <2>1, FS_AddElement
<1>4. IsFiniteSet(S)
  BY <1>2, <1>3, FS_Subset
<1>5. l \in S /\ m \in S
  OBVIOUS
<1>6. PICK y : S = {y}
  BY <1>1, <1>4, FS_Singleton
<1> QED
  BY <1>5, <1>6

LEMMA UnitsStep ==
  ASSUME TypeOK, Order, Units, Next
  PROVE  Units'
<1> SUFFICES ASSUME formula' # {} PROVE Units'
  BY DEF Units
<1>1. /\ formula # {} /\ formula' \subseteq formula /\ formula \subseteq Totals
      /\ \A l : Implied(l) => Implied(l)'
  BY DEF TypeOK, Implied, Next, Main, Thread, Searching, Finishing, Launch, Launched,
         Timeout, SleepAgain, WakeUp, Answer, AddUnit, LearnUnit, ImportUnit, Solved,
         Refuted, GiveUp, Report, Publish, Fill, Signal
<1> USE DEF TypeOK, Goto, Units, UnitsReachReaders
<1>2. ASSUME NEW i \in Solvers, Launch(i) PROVE Units'
  BY <1>1, <1>2 DEF Launch, companion
<1>3. CASE Launched \/ Timeout \/ SleepAgain \/ WakeUp \/ Answer
  BY <1>1, <1>3 DEF Launched, Timeout, SleepAgain, WakeUp, Answer, thread, companion
<1>4. CASE AddUnit
  <2>1. \A i \in Solvers : pc'[i] = "exit"
    BY <1>4 DEF AddUnit, Order
  <2>2. unitLit' = unitLit
    BY <1>4 DEF AddUnit, companion
  <2> QED
    BY <1>1, <2>1, <2>2
<1>5. ASSUME NEW i \in Solvers, NEW l \in Lits, LearnUnit(i, l) PROVE Units'
  <2>1. /\ \A k \in 1 .. Len(unitLit) : k \in 1 .. Len(unitLit') /\ unitLit'[k] = unitLit[k]
        /\ \A k \in 1 .. Len(unitLit') : k \in 1 .. Len(unitLit) \/ unitLit'[k] = l
    BY <1>5 DEF LearnUnit
  <2>2. /\ Implied(l) /\ l.var \notin Eliminated /\ nextUnit' = nextUnit /\ pc' = pc
        /\ known' = [known EXCEPT ![i] = @ \cup {l}] /\ pc[i] = "search"
    BY <1>5 DEF LearnUnit
  <2>3. \A j \in Solvers : \A k \in 1 .. nextUnit[j] : k \in 1 .. Len(unitLit)
    OBVIOUS
  <2> QED
    BY <1>1, <2>1, <2>2, <2>3
<1>6. ASSUME NEW i \in Solvers, ImportUnit(i) PROVE Units'
  <2> DEFINE l == unitLit[nextUnit[i] + 1]
  <2>1. /\ pc[i] = "search" /\ pc' = pc /\ unitLit' = unitLit
        /\ nextUnit' = [nextUnit EXCEPT ![i] = @ + 1]
        /\ nextUnit[i] + 1 \in 1 .. Len(unitLit)
    BY <1>6 DEF ImportUnit
  <2>2. known' = IF Unassigned(i, l.var) THEN [known EXCEPT ![i] = @ \cup {l}] ELSE known
    BY <1>6 DEF ImportUnit
  <2>3. Implied(l)
    BY <1>1, <2>1
  <2>4. l \in known'[i] /\ known[i] \subseteq known'[i] /\ known'[i] \subseteq known[i] \cup {l}
    <3>1. CASE Unassigned(i, l.var)
      BY <2>2, <3>1
    <3>2. ASSUME NEW m \in known[i], m.var = l.var PROVE l \in known[i]
      <4>1. PICK M \in formula : TRUE
        BY <1>1
      <4>2. l \in M /\ m \in M
        BY <1>1, <2>1, <2>3, <3>2 DEF Implied
      <4> QED
        BY <1>1, <3>2, <4>1, <4>2, OneLiteral
    <3> QED
      BY <2>2, <3>1, <3>2 DEF Unassigned
  <2>5. \A j \in Solvers \ {i} : known'[j] = known[j] /\ nextUnit'[j] = nextUnit[j]
    BY <2>1, <2>2
  <2>6. \A k \in 1 .. nextUnit'[i] : unitLit'[k] \in known'[i]
    <3>1. \A k \in 1 .. nextUnit'[i] : k \in 1 .. nextUnit[i] \/ k = nextUnit[i] + 1
      BY <2>1
    <3> QED
      BY <1>1, <2>1, <2>4, <3>1
  <2>7. \A j \in Solvers : pc'[j] # "exit" =>
          \A k \in 1 .. nextUnit'[j] : unitLit'[k] \in known'[j]
    BY <1>1, <2>1, <2>5, <2>6
  <2>8. \A j \in Solvers : pc'[j] \in {"created", "search"} =>
          \A m \in known'[j] : Implied(m)'
    <3>1. ASSUME NEW m \in known'[i] PROVE Implied(m)'
      BY <1>1, <2>1, <2>3, <2>4, <3>1
    <3> QED
      BY <1>1, <2>1, <2>5, <3>1
  <2> QED
    BY <1>1, <2>1, <2>7, <2>8
<1>7. ASSUME NEW i \in Solvers, NEW M \in formula, Solved(i, M) PROVE Units'
  <2>1. /\ known' = [known EXCEPT ![i] = M \cap LitsOf(Vars \ Eliminated)]
        /\ pc' = [pc EXCEPT ![i] = "report"] /\ unitLit' = unitLit /\ nextUnit' = nextUnit
    BY <1>7 DEF Solved, companion
  <2>2. ASSUME NEW k \in 1 .. nextUnit[i] PROVE unitLit[k] \in known'[i]
    <3>1. k \in 1 .. Len(unitLit) /\ unitLit[k] \in Lits
      OBVIOUS
    <3>2. unitLit[k] \in M /\ unitLit[k].var \in Vars \ Eliminated
      BY <1>1, <3>1 DEF Implied, Lits
    <3> QED
      BY <2>1, <3>1, <3>2 DEF LitsOf
  <2> QED
    BY <1>1, <2>1, <2>2
<1>8. ASSUME NEW i \in Solvers, Refuted(i) \/ GiveUp(i) PROVE Units'
  BY <1>1, <1>8 DEF Refuted, GiveUp, companion
<1>9. ASSUME NEW i \in Solvers, Report(i) PROVE Units'
  BY <1>1, <1>9 DEF Report
<1>10. ASSUME NEW i \in Solvers, Publish(i) \/ Fill(i) PROVE Units'
  BY <1>1, <1>10 DEF Publish, Fill, companion
<1>11. ASSUME NEW i \in Solvers, Signal(i) PROVE Units'
  BY <1>1, <1>11 DEF Signal, companion
<1> QED
  BY <1>2, <1>3, <1>4, <1>5, <1>6, <1>7, <1>8, <1>9, <1>10, <1>11
     DEF Next, Main, Thread, Searching, Finishing

LEMMA StutterInv == Inv /\ UNCHANGED vars => Inv'
<1> SUFFICES ASSUME Inv, UNCHANGED vars PROVE Inv'
  OBVIOUS
<1> USE DEF Inv, vars, thread, companion, process
<1>1. TypeOK'
  BY DEF TypeOK
<1>2. Order'
  BY DEF Order
<1>3. Models'
  BY DEF Models, Kept
<1>4. Units'
  BY DEF Units, UnitsReachReaders, Implied
<1> QED
  BY <1>1, <1>2, <1>3, <1>4

-----------------------------------------------------------------------------
(***************************************************************************)
(* The theorems.                                                           *)
(***************************************************************************)

THEOREM Invariance == Spec => []Inv
<1>1. Inv /\ [Next]_vars => Inv'
  BY TypeStep, OrderStep, ModelsStep, UnitsStep, StutterInv DEF Inv
<1> QED
  BY <1>1, InitInv, PTL DEF Spec

\* The variables of the threads, the companion and the main process keep their types.
THEOREM TypeCorrect == Spec => []TypeOK
<1>1. Inv => TypeOK
  BY DEF Inv
<1> QED
  BY <1>1, Invariance, PTL

\* solve answers what the winner found, whoever woke it (MultiSolvers.cc:465-490).
THEOREM AnswersTheWinners == Spec => []AnswerIsTheWinners
<1>1. Inv => AnswerIsTheWinners
  BY SolversAssumption DEF Inv, TypeOK, Order, AnswerIsTheWinners
<1> QED
  BY <1>1, Invariance, PTL

\* With the answer that there is a model solve gives one, extended to the variables
\* that were eliminated before the clones were made.
THEOREM GivesModel == Spec => []ModelGiven
<1>1. Inv => ModelGiven
  BY DEF Inv, Models, ModelGiven
<1> QED
  BY <1>1, Invariance, PTL

\* A thread that has read a shared unit knows it by the same sign, unless the formula
\* has no model.
THEOREM UnitsReach == Spec => []UnitsReachReaders
<1>1. Inv => UnitsReachReaders
  BY DEF Inv, Units, UnitsReachReaders
<1> QED
  BY <1>1, Invariance, PTL

\* The first thread that finishes stays the winner and its answer stays.
THEOREM WinnerStays == Spec => AnswerStays
<1> DEFINE Stays == jobFinishedBy # Nobody =>
                      /\ jobFinishedBy' = jobFinishedBy
                      /\ jobStatus # "undef" => jobStatus' = jobStatus
<1>1. ASSUME Inv, [Next]_vars PROVE Stays
  <2>1. CASE UNCHANGED companion
    BY <2>1 DEF companion
  <2>2. ASSUME NEW i \in Solvers, Report(i) PROVE Stays
    BY <2>2 DEF Report
  <2>3. ASSUME NEW i \in Solvers, Publish(i) PROVE Stays
    BY <1>1, <2>3 DEF Publish, Inv, Order
  <2>4. ASSUME NEW i \in Solvers, NEW l \in Lits, LearnUnit(i, l) PROVE Stays
    BY <2>4 DEF LearnUnit
  <2>5. ASSUME NEW i \in Solvers, ImportUnit(i) PROVE Stays
    BY <2>5 DEF ImportUnit
  <2>6. CASE Main \/ UNCHANGED vars
    BY <2>6 DEF Main, Launch, Launched, Timeout, SleepAgain, WakeUp, Answer, AddUnit,
                companion, vars
  <2>7. ASSUME NEW i \in Solvers, Searching(i) \/ Fill(i) \/ Signal(i) PROVE Stays
    BY <2>7 DEF Searching, Refuted, GiveUp, Solved, Fill, Signal, companion
  <2> QED
    BY <1>1, <2>2, <2>3, <2>4, <2>5, <2>6, <2>7 DEF Next, Thread, Finishing
<1> QED
  BY <1>1, Invariance, PTL DEF Spec, AnswerStays
=============================================================================
