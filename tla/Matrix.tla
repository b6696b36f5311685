------------------------------- MODULE Matrix -------------------------------
(***************************************************************************)
(* rt_matrix.c's main_job() up to the solver: initMatrix fills a dim x dim *)
(* matrix with numberNonzero/2 symmetric pairs of off-diagonal values at   *)
(* random lower-triangle cells (probing for a free one), then sets every   *)
(* diagonal entry; create_CRS stores it in compact row storage (value,     *)
(* col_ind, row_start), which matrixMulvector reads row by row.            *)
(*                                                                         *)
(* The doubles are abstracted to small integers: what matters here is      *)
(* which entries are zero.  randomUInt (DISstressmarkRNG, not in the       *)
(* repository) returns any value of its closed range; randomNonZeroFloat   *)
(* over a range symmetric about 0 (both of initMatrix's are) any value of  *)
(* either sign whose magnitude is in OffMagnitudes or DiagMagnitudes.      *)
(* biConjugateGradient keeps its control: the iteration count and whether *)
(* the error is above errorTolerance, which decide when it stops; the      *)
(* vectors, the scalars and the checksum are floating-point work and are   *)
(* left out.  CRSMatchesDense states what its matrixMulvector calls read.  *)
(***************************************************************************)
EXTENDS Integers, FiniteSets

CONSTANTS
  DIM,          \* dim
  NNZ,          \* numberNonzero
  OffMagnitudes,   \* |randomNonZeroFloat(MIN_NUMBER, MAX_NUMBER, EPSI)|
  DiagMagnitudes,  \* |randomNonZeroFloat(-MAX_DIG_NUMBER, MAX_DIG_NUMBER, ...)|
  MAXITER          \* maxIterations (100 in main_job)

\* initMatrix's probe finds a free cell only while one is left; main_job's
\* dim = 200 and numberNonzero = 300 leave 19750 of 19900.
ASSUME DIM \in Nat /\ DIM >= 2 /\ NNZ \in Nat
ASSUME MAXITER \in Nat \ {0}
ASSUME NNZ \div 2 <= (DIM * (DIM - 1)) \div 2
ASSUME (OffMagnitudes \cup DiagMagnitudes) \subseteq Nat \ {0}

VARIABLES
  mpc,       \* where main_job() is: "pairs", "diag", "crs", "solve", "bicg", "done"
  A,         \* matrixA, row-major
  pl,        \* initMatrix: l, the pairs placed
  dl,        \* initMatrix: ll, the diagonal entries set
  value,     \* value[], numberNonzero + dim entries
  colInd,    \* col_ind[]
  rowStart,  \* row_start[], dim + 1 entries
  iteration, \* biConjugateGradient's iteration
  errAbove   \* error > errorTolerance, its loop's second test

matrix == <<mpc, A, pl, dl, value, colInd, rowStart, iteration, errAbove>>
crs == <<A, pl, dl, value, colInd, rowStart>>

V == 0 .. (DIM - 1)
Cells == 0 .. (DIM * DIM - 1)
At(i, j) == i * DIM + j

\* The length of value and col_ind, and create_CRS's bound on cnt.
Limit == NNZ + DIM

\* The values of either sign a symmetric randomNonZeroFloat range gives.
Signed(mags) == mags \cup {-m : m \in mags}
OffValues == Signed(OffMagnitudes)
DiagValues == Signed(DiagMagnitudes)
Slots == 0 .. (Limit - 1)

-----------------------------------------------------------------------------
(* initMatrix's probe from (i, j): while the cell is taken, i++; past the  *)
(* last row, the next column starts below the diagonal, and past the last  *)
(* column the probe wraps to (1, 0).                                       *)
RECURSIVE Probe(_, _, _)
Probe(a, i, j) ==
  IF a[At(i, j)] = 0 THEN <<i, j>>
  ELSE IF i + 1 # DIM THEN Probe(a, i + 1, j)
  ELSE IF j + 1 = DIM - 1 THEN Probe(a, 1, 0)
  ELSE Probe(a, j + 2, j + 1)

\* sum over lll # ll of matrix[lll*dim + ll].
ColumnSum(a, ll) ==
  LET RECURSIVE S(_)
      S(rows) == IF rows = {} THEN 0
                 ELSE LET r == CHOOSE x \in rows : TRUE
                      IN  a[At(r, ll)] + S(rows \ {r})
  IN  S(V \ {ll})

\* Mutant: row_start[i] = cnt for every stored entry, without the -1 test.
RECURSIVE CrsScanNoFirstGuard(_, _, _, _, _)
CrsScanNoFirstGuard(a, i, j, cnt, st) ==
  IF ~(cnt < Limit /\ j < DIM)
    THEN IF cnt < Limit /\ i + 1 < DIM THEN CrsScanNoFirstGuard(a, i + 1, 0, cnt, st)
         ELSE [st EXCEPT !.rs[i + 1] = cnt]
  ELSE IF a[At(i, j)] = 0 THEN CrsScanNoFirstGuard(a, i, j + 1, cnt, st)
  ELSE CrsScanNoFirstGuard(a, i, j + 1, cnt + 1,
         [st EXCEPT !.val[cnt] = a[At(i, j)], !.col[cnt] = j, !.rs[i] = cnt])

(* create_CRS's inner loop at (i, j) with cnt entries stored; both loops   *)
(* are guarded by cnt < numberNonzero + dim.  A nonzero entry goes to      *)
(* value[cnt] and col_ind[cnt], and row_start[i] takes the first cnt of    *)
(* its row.  When the inner loop ends, i++ and the outer test; after the   *)
(* loops, row_start[i] = cnt for the i they stopped at.                    *)
RECURSIVE CrsScan(_, _, _, _, _)
CrsScan(a, i, j, cnt, st) ==
  IF ~(cnt < Limit /\ j < DIM)
    THEN IF cnt < Limit /\ i + 1 < DIM THEN CrsScan(a, i + 1, 0, cnt, st)
         ELSE [st EXCEPT !.rs[i + 1] = cnt]
  ELSE IF a[At(i, j)] = 0 THEN CrsScan(a, i, j + 1, cnt, st)
  ELSE CrsScan(a, i, j + 1, cnt + 1,
         [st EXCEPT !.val[cnt] = a[At(i, j)], !.col[cnt] = j,
                    !.rs[i] = IF @ = -1 THEN cnt ELSE @])

(* create_CRS: row_start[k] = -1 for every row, row_start[dim] =           *)
(* numberNonzero + dim, col_ind[k] = -1 everywhere; value keeps what it    *)
(* held; then the scan from (0, 0) (dim >= 2 and the bound is positive).  *)
CreateCRS(a, val) ==
  CrsScan(a, 0, 0, 0,
          [val |-> val,
           col |-> [k \in Slots |-> -1],
           rs  |-> [k \in 0 .. DIM |-> IF k < DIM THEN -1 ELSE Limit]])

(* The entries matrixMulvector reads for row l: none when row_start[l] is  *)
(* -1, else ll from row_start[l] while ll < row_start[l + 1].              *)
RowRange(rs, l) ==
  IF rs[l] = -1 THEN {} ELSE {ll \in Slots : rs[l] <= ll /\ ll < rs[l + 1]}

-----------------------------------------------------------------------------
(* main_job() calls initMatrix, whose first loop zeroes the matrix; with   *)
(* numberNonzero/2 = 0 the pair loop does not run.                         *)
Start ==
  /\ mpc' = IF NNZ \div 2 > 0 THEN "pairs" ELSE "diag"
  /\ A' = [c \in Cells |-> 0]
  /\ pl' = 0 /\ dl' = 0
  /\ UNCHANGED <<value, colInd, rowStart, iteration, errAbove>>

\* The arrays init_job() mallocs, whose content main_job() never reads first.
Arrays ==
  /\ A = [c \in Cells |-> 0]
  /\ value = [k \in Slots |-> 0]
  /\ colInd = [k \in Slots |-> 0]
  /\ rowStart = [k \in 0 .. DIM |-> 0]

\* Before the first main_job() call.
Init ==
  /\ mpc = "done"
  /\ pl = 0 /\ dl = 0
  /\ iteration = 0 /\ errAbove = FALSE
  /\ Arrays

(* One pair: i = randomUInt(1, dim - 1), j = randomUInt(0, i - 1), the     *)
(* probe to a free cell, and the value stored at (i, j) and (j, i).        *)
PlacePair ==
  /\ mpc = "pairs"
  /\ pl < NNZ \div 2
  /\ \E i \in 1 .. (DIM - 1), v \in OffValues :
       \E j \in 0 .. (i - 1) :
         LET c == Probe(A, i, j)
         IN  A' = [A EXCEPT ![At(c[1], c[2])] = v, ![At(c[2], c[1])] = v]
  /\ pl' = pl + 1
  /\ mpc' = IF pl + 1 < NNZ \div 2 THEN "pairs" ELSE "diag"
  /\ UNCHANGED <<dl, value, colInd, rowStart, iteration, errAbove>>

(* The diagonal loop, for ll: matrix[ll][ll] = randomNonZeroFloat(...),    *)
(* then, if it is below the sum of the rest of column ll, that sum is     *)
(* added to it.                                                            *)
SetDiagonal ==
  /\ mpc = "diag"
  /\ dl < DIM
  /\ \E d \in DiagValues :
       LET sum == ColumnSum(A, dl)
       IN  A' = [A EXCEPT ![At(dl, dl)] = IF d < sum THEN d + sum ELSE d]
  /\ dl' = dl + 1
  /\ UNCHANGED <<mpc, pl, value, colInd, rowStart, iteration, errAbove>>

\* initMatrix returns once the diagonal is set.
InitMatrixDone ==
  /\ mpc = "diag" /\ dl = DIM
  /\ mpc' = "crs"
  /\ UNCHANGED <<A, pl, dl, value, colInd, rowStart, iteration, errAbove>>

\* create_CRS(matrixA, value, col_ind, row_start, dim, numberNonzero).
StoreCRS ==
  /\ mpc = "crs"
  /\ LET st == CreateCRS(A, value)
     IN  /\ value' = st.val
         /\ colInd' = st.col
         /\ rowStart' = st.rs
  /\ mpc' = "solve"
  /\ UNCHANGED <<A, pl, dl, iteration, errAbove>>

(* initVector(vectorB), zeroVector(vectorX), then biConjugateGradient up *)
(* to its loop: r = b - A*x, p = r, error = |A*x - b| / |b|, iteration =  *)
(* 0.  With x = 0 the error is |b| / |b| = 1, above the errorTolerance    *)
(* that init_job() asserts is below MAX_TOLERANCE = 0.5.                  *)
SolveBegin ==
  /\ mpc = "solve"
  /\ mpc' = "bicg"
  /\ iteration' = 0
  /\ errAbove' = TRUE
  /\ UNCHANGED crs

(* The loop's test: iteration < maxIterations and error > errorTolerance.  *)
(* A NaN error (a zero denominator in alpha or beta) compares false, and   *)
(* ends the loop like an error within tolerance.                          *)
KeepIterating == iteration < MAXITER /\ errAbove

(* error = vectorValue(A*x - b) / vectorValue(b), vectorValue being the   *)
(* square root of a sum of squares, against errorTolerance: either way.   *)
ErrorAboveTolerance == BOOLEAN

(* One iteration: alpha, the next residual, beta, x += alpha*p, the next  *)
(* direction p, r = nextR, the new error against errorTolerance (any      *)
(* outcome: it is floating-point work on the CRS matrix), iteration++.    *)
Iterate ==
  /\ mpc = "bicg"
  /\ KeepIterating
  /\ iteration' = iteration + 1
  /\ errAbove' \in ErrorAboveTolerance
  /\ UNCHANGED <<mpc, crs>>

(* The loop ends: actualError and actualIteration are stored, and          *)
(* main_job() adds up its checksum of vectorX and returns.                 *)
SolveEnd ==
  /\ mpc = "bicg"
  /\ ~KeepIterating
  /\ mpc' = "done"
  /\ UNCHANGED <<crs, iteration, errAbove>>

Next ==
  \/ PlacePair \/ SetDiagonal \/ InitMatrixDone \/ StoreCRS
  \/ SolveBegin \/ Iterate \/ SolveEnd

-----------------------------------------------------------------------------
TypeOK ==
  /\ mpc \in {"pairs", "diag", "crs", "solve", "bicg", "done"}
  /\ iteration \in 0 .. MAXITER /\ errAbove \in BOOLEAN
  /\ pl \in 0 .. (NNZ \div 2) /\ dl \in 0 .. DIM
  /\ colInd \in [Slots -> -1 .. (DIM - 1)]
  /\ rowStart \in [0 .. DIM -> -1 .. Limit]

(* Once create_CRS has run, the entries matrixMulvector reads for each     *)
(* row, bounded by row_start[l] and row_start[l + 1], are exactly the      *)
(* nonzero entries of that row of matrixA, each once.  A row left at -1    *)
(* would end the row before it at -1 and drop it; this holds because       *)
(* initMatrix gives every row a nonzero entry (its diagonal, or the        *)
(* off-diagonal values whose sum it adds to it), and because the           *)
(* numberNonzero + dim slots hold every entry initMatrix can make.         *)
CRSMatchesDense ==
  mpc \in {"solve", "bicg", "done"} =>
    \A l \in V :
      /\ Cardinality(RowRange(rowStart, l))
           = Cardinality({j \in V : A[At(l, j)] # 0})
      /\ {<<colInd[ll], value[ll]>> : ll \in RowRange(rowStart, l)}
           = {<<j, A[At(l, j)]>> : j \in {jj \in V : A[At(l, jj)] # 0}}

=============================================================================
