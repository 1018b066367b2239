-------------------------------- MODULE Bfs ---------------------------------
(***************************************************************************)
(* The CPU-bound worker (user/graphs.c): a random directed graph, and the  *)
(* shortest paths from a vertex by breadth-first search.                   *)
(***************************************************************************)
EXTENDS Integers, Sequences, FiniteSets

CONSTANTS
  V,          \* num_vertices
  MaxEdges,   \* bound on num_edges
  TAM         \* entries of fila, 2 * MAX_VERT

\* What is assumed of the constants.
BfsAssumption == V \in Nat \ {0, 1} /\ MaxEdges \in 0..V * (V - 1) /\ TAM \in Nat

VARIABLES
  pc, matrix,             \* matrix is the set of the edges
  u, fila, esq,           \* esq is the first entry of the queue, 1 being the first of all
  visitado, distancia

INF == 1000

Vertex == 0..V - 1
vars == <<pc, matrix, u, fila, esq, visitado, distancia>>

Init ==
  /\ pc = "edges" /\ matrix = {} /\ u = 0
  /\ fila = <<>> /\ esq = 1 /\ visitado = {} /\ distancia = [k \in Vertex |-> INF]

\* generate_random_edge()
edge ==
  /\ pc = "edges" /\ Cardinality(matrix) < MaxEdges
  /\ \E a, b \in Vertex : a # b /\ <<a, b>> \notin matrix /\ matrix' = matrix \cup {<<a, b>>}
  /\ UNCHANGED <<pc, u, fila, esq, visitado, distancia>>

\* The search starts at u, which is not marked as visited.
begin ==
  /\ pc = "edges" /\ pc' = "search"
  /\ u' \in Vertex /\ fila' = <<u'>> /\ esq' = 1
  /\ distancia' = [distancia EXCEPT ![u'] = 0]
  /\ UNCHANGED <<matrix, visitado>>

\* Mutant: visited vertices are entered again.
FreshAny(a) == {k \in Vertex : <<a, k>> \in matrix}

\* Successors of a that are not visited yet.
Fresh(a) == {k \in Vertex : <<a, k>> \in matrix /\ k \notin visitado}

\* Mutant: the queue is served from its end.
NextLast == Len(fila)

\* The place in fila of the next vertex.
NextPlace == esq

InOrder(S) == CHOOSE s \in [1..Cardinality(S) -> S] : \A a, b \in DOMAIN s : a < b => s[a] < s[b]

\* An iteration of the search.
visit ==
  LET a == fila[NextPlace]
  IN  /\ pc = "search" /\ esq <= Len(fila)
      /\ fila' = fila \o InOrder(Fresh(a)) /\ esq' = esq + 1
      /\ visitado' = visitado \cup Fresh(a)
      /\ distancia' = [k \in Vertex |-> IF k \in Fresh(a) THEN distancia[a] + 1 ELSE distancia[k]]
      /\ UNCHANGED <<pc, matrix, u>>

\* Everything is freed, and another graph follows.
finish ==
  /\ pc = "search" /\ esq > Len(fila)
  /\ pc' = "edges" /\ matrix' = {} /\ u' = 0
  /\ fila' = <<>> /\ esq' = 1 /\ visitado' = {} /\ distancia' = [k \in Vertex |-> INF]

Next == edge \/ begin \/ visit \/ finish

Spec == Init /\ [][Next]_vars

-----------------------------------------------------------------------------
\* Vertices within n edges of u: the reference definition.
RECURSIVE Within(_)
Within(n) ==
  IF n = 0 THEN {u}
  ELSE LET near == Within(n - 1) IN near \cup {k \in Vertex : \E a \in near : <<a, k>> \in matrix}

\* The search gives the length of the shortest path to every vertex other than u, and INF
\* to those that cannot be reached, although u itself may be entered twice.
Shortest ==
  pc = "search" /\ esq > Len(fila) =>
    \A k \in Vertex \ {u} :
      IF k \in Within(V)
      THEN distancia[k] \in 1..V /\ k \in Within(distancia[k]) /\ k \notin Within(distancia[k] - 1)
      ELSE distancia[k] = INF

\* fila has room for all that is entered: every vertex once, and u twice.
QueueFits == Len(fila) <= TAM /\ Len(fila) <= V + 1
=============================================================================
