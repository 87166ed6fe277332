------------------------------ MODULE PhiloTree ------------------------------
(***************************************************************************)
(* build_taxonomy of hw1 (philo.c): the neighbour joining method, which    *)
(* builds an unrooted tree over the taxa by replacing two active nodes by  *)
(* a new one until two are left.                                           *)
(*                                                                         *)
(* Distances are integers, the numbers of the input times Scale.  With a   *)
(* Scale that every divisor of the formulas divides they are exact, as the *)
(* doubles of the code are for up to four taxa with whole distances; what  *)
(* rounding does to larger trees is not modelled.                          *)
(***************************************************************************)
EXTENDS Integers, Sequences, FiniteSetsExt

CONSTANTS MAX_TAXA,  \* how many taxa the arrays have room for
          Scale      \* how much a distance of 1 is

ASSUME PhiloAssumption ==
  /\ MAX_TAXA \in Nat \ {0, 1}
  /\ Scale \in Nat \ {0}

MAX_NODES == 2 * MAX_TAXA - 2
AllNodes == 0 .. MAX_NODES - 1
NoNode == -1

VARIABLES
  stage,             \* where main() is; "building" while build_taxonomy runs
  num_taxa,          \* leaves of the tree
  num_all_nodes,     \* leaves and nodes made so far
  num_active_nodes,  \* nodes that have not been joined
  active_node_map,   \* the active nodes, in its first num_active_nodes entries
  distances,         \* the matrix of distances
  neighbors,         \* nodes[n].neighbors for each n
  edges              \* the edges that were printed: two nodes and a length

treeVars == <<stage, num_taxa, num_all_nodes, num_active_nodes,
              active_node_map, distances, neighbors, edges>>

(* The static data before anything is read.                                *)
NoNeighbors == [n \in AllNodes |-> [k \in 0 .. 2 |-> NoNode]]
NoDistances == [i \in AllNodes |-> [j \in AllNodes |-> 0]]
ZeroMap == [k \in AllNodes |-> 0]

-----------------------------------------------------------------------------
Positions == 0 .. num_active_nodes - 1
Active == {active_node_map[k] : k \in Positions}

(* row_sums: entries of nodes that are not active are reset to 0.          *)
row_sum(i) ==
  IF i \in Active THEN MapThenSumSet(LAMBDA j : distances[i][j], Active) ELSE 0

(* Mutant: a sum is added instead of subtracted.                           *)
q_value_added(i, j) ==
  (num_active_nodes - 2) * distances[i][j] - row_sum(i) + row_sum(j)

q_value(i, j) ==
  (num_active_nodes - 2) * distances[i][j] - row_sum(i) - row_sum(j)

(* Mutant: the column after the next is the first.                         *)
first_col_late(row) == row + 2

(* Row is a position in the map, while columns are nodes.                  *)
first_col(row) == IF row = 0 THEN 0 ELSE row + 1

(* The rows and columns for which a q value is computed, in the order of   *)
(* the two loops.                                                          *)
Candidates ==
  {p \in Positions \X (0 .. num_all_nodes - 1) :
     /\ p[2] >= first_col(p[1])
     /\ p[2] \in Active
     /\ p[2] # active_node_map[p[1]]}

Before(p, o) == p[1] < o[1] \/ (p[1] = o[1] /\ p[2] < o[2])
Q(p) == q_value(active_node_map[p[1]], p[2])

(* min_q begins as distances[0][1]; the first smaller, and then smallest   *)
(* value wins.                                                             *)
IsMinimum(p) ==
  /\ Q(p) < distances[0][1]
  /\ \A o \in Candidates : Q(p) < Q(o) \/ (Q(p) = Q(o) /\ ~ Before(o, p))

Minima == {p \in Candidates : IsMinimum(p)}

PositionOf(n) ==
  CHOOSE k \in Positions : /\ active_node_map[k] = n
                           /\ \A l \in 0 .. k - 1 : active_node_map[l] # n

(* The nodes that are joined and their positions in the map: when no q     *)
(* value is less than the initial one, nodes 0 and 1 and positions 0 and 1.*)
Choice(p) == [f |-> active_node_map[p[1]], g |-> p[2],
              at_f |-> p[1], at_g |-> PositionOf(p[2])]
Chosen == IF Minima = {} THEN [f |-> 0, g |-> 1, at_f |-> 0, at_g |-> 1]
          ELSE Choice(CHOOSE p \in Minima : TRUE)

-----------------------------------------------------------------------------
(* Mutant: S(g) - S(f) also for f.                                         *)
distance_to_u_swapped(f, g, k) ==
  CASE k \in {f, g} ->
         (distances[f][g] +
            (row_sum(g) - row_sum(f)) \div (num_active_nodes - 2)) \div 2
    [] OTHER -> (distances[f][k] + distances[g][k] - distances[f][g]) \div 2

(* D'(u, k) for the node u that joins f and g.                             *)
distance_to_u(f, g, k) ==
  CASE k = f -> (distances[f][g] +
                   (row_sum(f) - row_sum(g)) \div (num_active_nodes - 2)) \div 2
    [] k = g -> (distances[f][g] +
                   (row_sum(g) - row_sum(f)) \div (num_active_nodes - 2)) \div 2
    [] OTHER -> (distances[f][k] + distances[g][k] - distances[f][g]) \div 2

(* Row and column u are set for the active nodes.                          *)
distances_with(f, g, u) ==
  [i \in AllNodes |-> [j \in AllNodes |->
     CASE i = u /\ j \in Active -> distance_to_u(f, g, j)
       [] j = u /\ i \in Active -> distance_to_u(f, g, i)
       [] OTHER -> distances[i][j]]]

(* Mutant: g is not told its parent.                                       *)
link_without_g(f, g, u) ==
  [neighbors EXCEPT ![u][1] = f, ![u][2] = g, ![f][0] = u]

(* f and g become the children of u.                                       *)
link(f, g, u) ==
  [neighbors EXCEPT ![u][1] = f, ![u][2] = g, ![f][0] = u, ![g][0] = u]

(* Mutant: the entry behind the last one is moved.                         *)
replace_too_far(at_f, at_g) ==
  [[active_node_map EXCEPT ![at_f] = num_all_nodes]
     EXCEPT ![at_g] = active_node_map[num_active_nodes]]

(* u takes the place of f in the map, and then the last active node that   *)
(* of g.                                                                   *)
replace(at_f, at_g) ==
  LET with_u == [active_node_map EXCEPT ![at_f] = num_all_nodes]
  IN  [with_u EXCEPT ![at_g] = with_u[num_active_nodes - 1]]

(* One call of taxa_helper with three or more active nodes.                *)
JoinTwo(c) ==
  /\ stage = "building"
  /\ num_active_nodes >= 3
  /\ neighbors' = link(c.f, c.g, num_all_nodes)
  /\ distances' = distances_with(c.f, c.g, num_all_nodes)
  /\ edges' = edges \o
       << <<c.f, num_all_nodes, distance_to_u(c.f, c.g, c.f)>>,
          <<c.g, num_all_nodes, distance_to_u(c.f, c.g, c.g)>> >>
  /\ active_node_map' = replace(c.at_f, c.at_g)
  /\ num_all_nodes' = num_all_nodes + 1
  /\ num_active_nodes' = num_active_nodes - 1
  /\ UNCHANGED <<stage, num_taxa>>

Join == JoinTwo(Chosen)

(* The last call: the two nodes left are joined by an edge.                *)
JoinLast(a, b) ==
  /\ stage = "building"
  /\ num_active_nodes < 3
  /\ neighbors' = [neighbors EXCEPT ![a][0] = b, ![b][0] = a]
  /\ edges' = Append(edges, <<b, a, distances[a][b]>>)
  /\ stage' = "built"
  /\ UNCHANGED <<num_taxa, num_all_nodes, num_active_nodes, active_node_map,
                 distances>>

Finish == JoinLast(active_node_map[0], active_node_map[1])

taxa_helper == Join \/ Finish

-----------------------------------------------------------------------------
(* build_taxonomy on any matrix, after a call of read_distance_data.       *)
TreeInit ==
  /\ stage = "building"
  /\ num_taxa \in 2 .. MAX_TAXA
  /\ num_all_nodes = num_taxa
  /\ num_active_nodes = num_taxa
  /\ active_node_map = [k \in AllNodes |-> IF k < num_taxa THEN k ELSE 0]
  /\ distances \in [AllNodes -> [AllNodes -> Int]]
  /\ neighbors = NoNeighbors
  /\ edges = <<>>

TreeSpec == TreeInit /\ [][taxa_helper]_treeVars

(* Every pair of active nodes is looked at in each iteration, although one *)
(* loop runs over positions of the map and the other over nodes: no entry  *)
(* of the map is less than its position, so the pair is found from the     *)
(* node that comes first in the map.  No entry occurs twice.               *)
EveryPairIsConsidered ==
  stage = "building" =>
    \A k, l \in Positions : k < l =>
      /\ active_node_map[k] # active_node_map[l]
      /\ <<k, active_node_map[l]>> \in Candidates

-----------------------------------------------------------------------------
Made == 0 .. num_all_nodes - 1
Leaves == 0 .. num_taxa - 1
Internal == Made \ Leaves
NeighboursOf(n) == {neighbors[n][k] : k \in 0 .. 2} \ {NoNode}

(* An iteration after the first finds a q value that is less than the      *)
(* initial minimum.  The first joins nodes 0 and 1 if it finds none, and   *)
(* they are active.                                                        *)
MinimumIsFound ==
  stage = "building" /\ num_active_nodes >= 3 /\ num_all_nodes > num_taxa =>
    Minima # {}

(* The nodes that are still to be joined are those without a parent: no    *)
(* node is joined twice, and none is forgotten.                            *)
ActiveNodesAreRoots ==
  stage = "building" =>
    /\ Active = {n \in Made : neighbors[n][0] = NoNode}
    /\ Cardinality(Active) = num_active_nodes

Ends(e) == {e[1], e[2]}

(* No part of the nodes is without an edge to the rest.                    *)
Connected ==
  \A S \in SUBSET Made :
    S # {} /\ (\A n \in S : NeighboursOf(n) \subseteq S) => S = Made

(* The result is what the comment on build_taxonomy promises: every leaf   *)
(* has one neighbour and every other node three, neighbours are mutual and *)
(* are what the printed edges say, there are 2 * N - 3 of them, and the    *)
(* tree is connected.                                                      *)
TreeIsBuilt ==
  stage = "built" /\ num_taxa > 1 =>
    /\ num_all_nodes = 2 * num_taxa - 2
    /\ \A n \in Leaves : Cardinality(NeighboursOf(n)) = 1
    /\ \A n \in Internal : Cardinality(NeighboursOf(n)) = 3
    /\ Len(edges) = 2 * num_taxa - 3
    /\ \A i \in DOMAIN edges : Ends(edges[i]) \subseteq Made
    /\ \A n \in Made :
         NeighboursOf(n) =
           {m \in Made : \E i \in DOMAIN edges : Ends(edges[i]) = {n, m}}
    /\ Connected
=============================================================================
