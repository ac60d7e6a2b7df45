---------------------------- MODULE MCEncodings -----------------------------
(***************************************************************************)
(* The encodings of src/src/encodings/ that bound a sum of literals by     *)
(* clauses, and what all of them promise, and the formula that Main.cc     *)
(* builds from a board (LifeEncoding).  Class Encoder holds an object of   *)
(* each, of which a search uses one; variables that several modules        *)
(* declare are shared, the others are NULL.  Module LifeEncoding is        *)
(* extended; where nothing is built from a board, it has no cells.         *)
(***************************************************************************)
EXTENDS ClauseDB, LifeEncoding

CONSTANTS
  NULL,       \* not a variable of the encoding
  Totalizers, \* two totalizers that may be added
  Encodings   \* the encodings of this run

VARIABLES
  encoding,
  clauses, hasEncoding, outlits, bound, assumptions, S, n, rhs, updates, coeffs,
  nInputs, nVars, nClauses, adders, inputs,
  enc,
  outputs, expected, history,
  table, lits, units, blocking, mode, given, asked,
  incremental, buckets, output, bits, failed, steps

totalizerVars == <<nInputs, nVars, nClauses, adders, inputs>>
moduloVars == <<enc>>
generalizedVars == <<outputs, expected, history>>
counterVars == <<table, lits, units, blocking, mode, given, asked>>
adderVars == <<incremental, buckets, output, bits, failed, steps>>
lifeVars == vars

-----------------------------------------------------------------------------
Total    == INSTANCE Totalizer WITH MaxInputs <- 6
Network  == INSTANCE CardinalityNetwork WITH MaxInputs <- 6, MaxRhs <- 4, MaxUpdates <- 2
Modulo   == INSTANCE ModuloTotalizer
              WITH MinInputs <- 3, MaxInputs <- 7, KeptModuli <- {2, 3}, MaxUpdates <- 2

\* Coefficients that are equal, distinct, null, and heavier than the bound.
Weighted == INSTANCE GeneralizedTotalizer
              WITH Constraints <- {<<2>>, <<1, 3>>, <<2, 0, 2>>, <<1, 2, 4>>, <<2, 3, 3, 5>>,
                                   <<1, 1, 2, 3, 4>>},
                   MaxRhs <- 8, UnsignedMax <- 15, MaxClauses <- 20, MaxSteps <- 2
Counter  == INSTANCE SequentialCounter
              WITH Constraints <- {<<2>>, <<1, 3>>, <<1, 2, 2>>, <<4, 1, 2>>, <<2, 1, 3, 1>>,
                                   <<3, 2, 1, 1, 4>>},
                   MaxRhs <- 6, MaxUpdates <- 3

\* Carries out of the last bucket, and bits that no coefficient has.
Binary   == INSTANCE BinaryAdder
              WITH Constraints <- {<<1>>, <<1, 1, 1>>, <<2, 2>>, <<3, 1, 2>>, <<4, 1, 3>>,
                                   <<1, 3, 3, 2>>},
                   MinRhs <- 0, MaxRhs <- 7, WordBits <- 4, MaxSteps <- 3

-----------------------------------------------------------------------------
NoTotalizer ==
  /\ nInputs = NULL /\ nVars = NULL /\ nClauses = NULL /\ adders = NULL
  /\ inputs = NULL
NoModulo == enc = NULL
NoGeneralized == outputs = NULL /\ expected = NULL /\ history = NULL
NoCounter ==
  /\ table = NULL /\ lits = NULL /\ units = NULL /\ blocking = NULL /\ mode = NULL
  /\ given = NULL /\ asked = NULL
NoAdder ==
  /\ incremental = NULL /\ buckets = NULL /\ output = NULL /\ bits = NULL
  /\ failed = NULL /\ steps = NULL

NoBoard ==
  /\ lin = 0 /\ col = 0 /\ board = {} /\ stray = FALSE
  /\ stage = NULL /\ i = NULL /\ j = NULL /\ hard = {} /\ soft = {}

EncodingInit ==
  /\ encoding \in Encodings
  /\ IF encoding = "life" THEN Init ELSE NoBoard
  /\ \/ /\ encoding = "totalizer" /\ Total!Init
        /\ S = NULL /\ n = NULL /\ rhs = NULL /\ updates = NULL /\ coeffs = NULL
        /\ NoModulo /\ NoGeneralized /\ NoCounter /\ NoAdder
     \/ /\ encoding = "network" /\ Network!Init
        /\ clauses = NULL /\ assumptions = NULL /\ coeffs = NULL /\ NoTotalizer
        /\ NoModulo /\ NoGeneralized /\ NoCounter /\ NoAdder
     \/ /\ encoding = "modulo" /\ Modulo!Init
        /\ clauses = NULL /\ hasEncoding = NULL /\ outlits = NULL /\ assumptions = NULL
        /\ rhs = NULL /\ coeffs = NULL /\ NoTotalizer /\ NoGeneralized /\ NoCounter
        /\ NoAdder
     \/ /\ encoding = "generalized" /\ Weighted!Init
        /\ outlits = NULL /\ bound = NULL /\ assumptions = NULL /\ n = NULL
        /\ updates = NULL /\ NoTotalizer /\ NoModulo /\ NoCounter /\ NoAdder
     \/ /\ encoding = "counter" /\ Counter!Init
        /\ clauses = NULL /\ hasEncoding = NULL /\ outlits = NULL /\ bound = NULL
        /\ n = NULL /\ NoTotalizer /\ NoModulo /\ NoGeneralized /\ NoAdder
     \/ /\ encoding = "adder" /\ Binary!Init
        /\ clauses = NULL /\ hasEncoding = NULL /\ outlits = NULL /\ n = NULL
        /\ rhs = NULL /\ updates = NULL /\ NoTotalizer /\ NoModulo /\ NoGeneralized
        /\ NoCounter
     \/ /\ encoding = "life"
        /\ clauses = NULL /\ hasEncoding = NULL /\ outlits = NULL /\ bound = NULL
        /\ assumptions = NULL /\ S = NULL /\ n = NULL /\ rhs = NULL /\ updates = NULL
        /\ coeffs = NULL /\ NoTotalizer /\ NoModulo /\ NoGeneralized /\ NoCounter
        /\ NoAdder

EncodingNext ==
  \/ /\ encoding = "totalizer" /\ Total!Next
     /\ UNCHANGED <<encoding, S, n, rhs, updates, coeffs, moduloVars, generalizedVars,
                    counterVars, adderVars, lifeVars>>
  \/ /\ encoding = "network" /\ Network!Next
     /\ UNCHANGED <<encoding, clauses, assumptions, coeffs, totalizerVars, moduloVars,
                    generalizedVars, counterVars, adderVars, lifeVars>>
  \/ /\ encoding = "modulo" /\ Modulo!Next
     /\ UNCHANGED <<encoding, clauses, hasEncoding, outlits, assumptions, rhs, coeffs,
                    totalizerVars, generalizedVars, counterVars, adderVars, lifeVars>>
  \/ /\ encoding = "generalized" /\ Weighted!Next
     /\ UNCHANGED <<encoding, outlits, bound, assumptions, n, updates, totalizerVars,
                    moduloVars, counterVars, adderVars, lifeVars>>
  \/ /\ encoding = "counter" /\ Counter!Next
     /\ UNCHANGED <<encoding, clauses, hasEncoding, outlits, bound, n, totalizerVars,
                    moduloVars, generalizedVars, adderVars, lifeVars>>
  \/ /\ encoding = "adder" /\ Binary!Next
     /\ UNCHANGED <<encoding, clauses, hasEncoding, outlits, n, rhs, updates,
                    totalizerVars, moduloVars, generalizedVars, counterVars, lifeVars>>
  \/ /\ encoding = "life" /\ Next
     /\ UNCHANGED <<encoding, clauses, hasEncoding, outlits, bound, assumptions, S, n, rhs,
                    updates, coeffs, totalizerVars, moduloVars, generalizedVars,
                    counterVars, adderVars>>

encodingVars == <<encoding, clauses, hasEncoding, outlits, bound, assumptions, S, n, rhs,
                  updates, coeffs, totalizerVars, moduloVars, generalizedVars,
                  counterVars, adderVars, lifeVars>>

EncodingSpec == EncodingInit /\ [][EncodingNext]_encodingVars

-----------------------------------------------------------------------------
\* The clauses allow an assignment of the literals exactly when it meets the smallest
\* bound asked for, after any updates: no solution is lost to a sum that was cut off,
\* and none gained through an output left free (Enc_CNetworks.cc:58-144,
\* Enc_MTotalizer.cc:259-374, Enc_GTE.cc:168-256, Enc_SWC.cc:56-391,
\* Enc_Adder.cc:106-196; the adder only with coefficients of no more bits than the
\* bound).
ExactlyAtMost ==
  /\ encoding = "network" => Network!ExactlyAtMost
  /\ encoding = "modulo" => Modulo!ExactlyAtMost
  /\ encoding = "generalized" => Weighted!ExactlyAtMost
  /\ encoding = "counter" => Counter!ExactlyAtMost
  /\ encoding = "adder" => Binary!ExactWhenBitsSuffice

\* Counting needs no search: unit propagation alone tells that a bound is reached, of
\* whichever inputs, and however totalizers were joined and added
\* (Enc_Totalizer.cc:56-390, Enc_CNetworks.cc:58-144).
CountsByPropagation ==
  /\ encoding = "totalizer" => Total!Counts
  /\ encoding = "network" => Network!Propagates

\* Encodings whose bound rises hold under the assumptions handed out last: limits of
\* smaller bounds are off, rows, columns and adders added later are connected to the
\* old ones, and no clause has to be taken back (Enc_SWC.cc:394-576,
\* Enc_Totalizer.cc:170-390).  What is added is what is missing and nothing twice
\* (n_clauses of Enc_Totalizer.cc), and what predict() announces covers what encode()
\* makes (Alg_LinearSU.cc:240-250 chooses the encoding by it).
IncrementalExact ==
  /\ encoding = "counter" => Counter!IncrementalExact
  /\ encoding = "totalizer" =>
       Total!NeverOvercounts /\ Total!RootRecordedLast /\ Total!NoClauseTwice
  /\ encoding = "generalized" => Weighted!PredictionCovers
=============================================================================
