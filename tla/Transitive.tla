----------------------------- MODULE Transitive -----------------------------
(***************************************************************************)
(* main_job of rt_transitive.c, the DIS transitive-closure stressmark:     *)
(* both n x n matrices are set to NO_PATH, m random edges                  *)
(* din[j*n + i] = w (edge i -> j, w in MIN_EDGES..MAX_EDGES) are drawn     *)
(* with randInt, and n rounds of Floyd-Warshall write                      *)
(* dout[j*n + i] = min(din[j*n + k] + din[k*n + i], din[j*n + i]) and swap *)
(* the two buffers.  randInt (DISstressmarkRNG, not in the repository) is  *)
(* taken to return any value of its closed range.                          *)
(***************************************************************************)
EXTENDS Naturals, FiniteSetsExt

CONSTANTS
  N,            \* n = n_max, the number of vertices
  M,            \* m, the number of random edges drawn
  EdgeWeights   \* the weights randInt(MIN_EDGES, MAX_EDGES) may draw

NO_PATH == 2147483647
MAX_EDGES == 255

ASSUME N \in Nat \ {0} /\ M \in Nat
ASSUME EdgeWeights \subseteq 0 .. MAX_EDGES /\ EdgeWeights # {}

V == 0 .. (N - 1)
Cells == 0 .. (N * N - 1)

\* The cell of the edge i -> j.
Idx(j, i) == j * N + i

VARIABLES
  pc,     \* "init", "edges", "closure", "done"
  k,      \* the loop counter of the current loop of main_job
  din,    \* the buffer din points to
  dout,   \* the buffer dout points to
  graph   \* the matrix after the edges were drawn (history, for the checks)

vars == <<pc, k, din, dout, graph>>

-----------------------------------------------------------------------------
(* new1 < old for new1 = a + b as unsigned int.  Every cell holds at most *)
(* NO_PATH = 2^31 - 1, so the 32-bit sum cannot wrap; it is compared      *)
(* without forming it, as it may exceed TLC's integers.                   *)
IsShorter(a, b, old) == b < old /\ a < old - b

\* Mutant: the inner loop reads the pivot row at k*n + j instead of j*n + k.
RelaxTransposed(d, piv) ==
  [c \in Cells |->
     LET j == c \div N
         i == c % N
     IN  IF IsShorter(d[Idx(piv, j)], d[Idx(piv, i)], d[c])
           THEN d[Idx(piv, j)] + d[Idx(piv, i)] ELSE d[c]]

(* One round k of the i, j loops: the matrix written to dout.             *)
Relax(d, piv) ==
  [c \in Cells |->
     LET j == c \div N
         i == c % N
     IN  IF IsShorter(d[Idx(j, piv)], d[Idx(piv, i)], d[c])
           THEN d[Idx(j, piv)] + d[Idx(piv, i)] ELSE d[c]]

Init ==
  /\ pc = "init"
  /\ k = 0
  /\ din = [c \in Cells |-> 0]
  /\ dout = [c \in Cells |-> 0]
  /\ graph = [c \in Cells |-> NO_PATH]

\* The first loop: every cell of both buffers is NO_PATH.
ClearMatrices ==
  /\ pc = "init"
  /\ din' = [c \in Cells |-> NO_PATH]
  /\ dout' = [c \in Cells |-> NO_PATH]
  /\ pc' = "edges"
  /\ k' = 0
  /\ UNCHANGED graph

\* One iteration of the edge loop: din[j*n + i] = randInt(MIN_EDGES, MAX_EDGES).
AddEdge ==
  /\ pc = "edges"
  /\ k < M
  /\ \E i, j \in V, w \in EdgeWeights :
       din' = [din EXCEPT ![Idx(j, i)] = w]
  /\ k' = k + 1
  /\ UNCHANGED <<pc, dout, graph>>

EdgesDone ==
  /\ pc = "edges"
  /\ k = M
  /\ pc' = "closure"
  /\ k' = 0
  /\ graph' = din
  /\ UNCHANGED <<din, dout>>

(* One iteration of the k loop: fill dout from din, then swap the         *)
(* pointers (dtemp = dout; dout = din; din = dtemp).                      *)
Round ==
  /\ pc = "closure"
  /\ k < N
  /\ din' = Relax(din, k)
  /\ dout' = din
  /\ k' = k + 1
  /\ UNCHANGED <<pc, graph>>

\* Mutant: the k loop stops one round early.
ClosureDoneEarly ==
  /\ pc = "closure"
  /\ k = N - 1
  /\ pc' = "done"
  /\ UNCHANGED <<k, din, dout, graph>>

ClosureDone ==
  /\ pc = "closure"
  /\ k = N
  /\ pc' = "done"
  /\ UNCHANGED <<k, din, dout, graph>>

Next == ClearMatrices \/ AddEdge \/ EdgesDone \/ Round \/ ClosureDone

Spec == Init /\ [][Next]_vars

-----------------------------------------------------------------------------
(* Reference: the least weight of a walk i -> j of 1 to l edges whose     *)
(* interior vertices all lie in S; NO_PATH when there is none.            *)
PathSum(a, b) == IF a = NO_PATH \/ b = NO_PATH THEN NO_PATH ELSE a + b

RECURSIVE ShortestWalk(_, _, _, _)
ShortestWalk(i, j, S, l) ==
  IF l = 0 THEN NO_PATH
  ELSE Min({graph[Idx(j, i)]} \cup
           {PathSum(ShortestWalk(i, v, S, l - 1), graph[Idx(j, v)]) : v \in S})

(* Floyd-Warshall's invariant over the swapped buffers: after k rounds,   *)
(* din holds for every pair the shortest walk whose interior vertices are *)
(* among the first k, and dout the matrix of the round before.            *)
RoundsComputeShortestWalks ==
  pc \in {"closure", "done"} =>
    \A i, j \in V :
      /\ din[Idx(j, i)] = ShortestWalk(i, j, 0 .. (k - 1), N)
      /\ k > 0 => dout[Idx(j, i)] = ShortestWalk(i, j, 0 .. (k - 2), N)

=============================================================================
