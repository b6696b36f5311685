--------------------------- MODULE TransitiveSpec ---------------------------
(***************************************************************************)
(* What one call of rt_transitive's main_job() promises, with no loop and *)
(* no buffer: it draws a graph of at most m edges (at least one when m >   *)
(* 0), then, in one step, holds for every pair i, j the least weight of a *)
(* walk i -> j of 1 to n edges, NO_PATH when there is none.  The next     *)
(* call forgets the graph and the result of the previous one.             *)
(***************************************************************************)
EXTENDS Naturals, FiniteSets, FiniteSetsExt

CONSTANTS N, M, EdgeWeights

VARIABLES
  phase,   \* "idle" (drawing), "drawn", "done"
  graph,   \* the edge weights drawn, NO_PATH where there is no edge
  result   \* the matrix main_job() leaves in din

absVars == <<phase, graph, result>>

NO_PATH == 2147483647
V == 0 .. (N - 1)
Cells == 0 .. (N * N - 1)
Idx(j, i) == j * N + i
NoPaths == [c \in Cells |-> NO_PATH]

\* A matrix m random edge draws can leave (a later draw may overwrite one).
Drawn(g) ==
  /\ g \in [Cells -> EdgeWeights \cup {NO_PATH}]
  /\ Cardinality({c \in Cells : g[c] # NO_PATH})
       \in IF M = 0 THEN {0} ELSE 1 .. M

WalkSum(a, b) == IF a = NO_PATH \/ b = NO_PATH THEN NO_PATH ELSE a + b

\* The least weight of a walk i -> j of 1 to l edges of g.
RECURSIVE Walk(_, _, _, _)
Walk(g, i, j, l) ==
  IF l = 0 THEN NO_PATH
  ELSE Min({g[Idx(j, i)]} \cup {WalkSum(Walk(g, i, v, l - 1), g[Idx(j, v)]) : v \in V})

Closure(g) == [c \in Cells |-> Walk(g, c % N, c \div N, N)]

Init ==
  /\ phase = "idle"
  /\ graph = NoPaths
  /\ result = NoPaths

Draw ==
  /\ phase = "idle"
  /\ Drawn(graph')
  /\ phase' = "drawn"
  /\ UNCHANGED result

Close ==
  /\ phase = "drawn"
  /\ result' = Closure(graph)
  /\ phase' = "done"
  /\ UNCHANGED graph

Call ==
  /\ phase = "done"
  /\ phase' = "idle"
  /\ graph' = NoPaths
  /\ result' = NoPaths

Next == Draw \/ Close \/ Call

Spec == Init /\ [][Next]_absVars

=============================================================================
