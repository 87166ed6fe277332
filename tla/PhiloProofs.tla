----------------------------- MODULE PhiloProofs -----------------------------
(***************************************************************************)
(* What holds of build_taxonomy for any number of taxa and whatever the    *)
(* distances are: first of the map of active nodes, then of the tree.      *)
(*                                                                         *)
(* The argument for the map: a node that is made gets a number that is not *)
(* less than the number of active nodes, so wherever it is put in the map, *)
(* its number is not less than its position; and an entry is only moved    *)
(* down.                                                                   *)
(***************************************************************************)
EXTENDS PhiloTree, FiniteSetTheorems, WellFoundedInduction, TLAPS

(* Each iteration makes one node and leaves one active node less.          *)
Counts ==
  /\ stage \in {"building", "built"}
  /\ num_taxa \in 2 .. MAX_TAXA
  /\ num_active_nodes \in 2 .. num_taxa
  /\ num_all_nodes = 2 * num_taxa - num_active_nodes

(* The entries of the map.                                                 *)
MapIsTidy ==
  /\ active_node_map \in [AllNodes -> AllNodes]
  /\ \A k \in Positions : active_node_map[k] \in k .. num_all_nodes - 1
  /\ \A k, l \in Positions : k < l => active_node_map[k] # active_node_map[l]

MapInv == Counts /\ MapIsTidy

(* What the two loops of taxa_helper choose.                               *)
GoodChoice(c) ==
  /\ c.at_f \in Positions
  /\ c.at_g \in Positions
  /\ c.at_f # c.at_g

-----------------------------------------------------------------------------
(* How many nodes there are, and that the arrays have room for them.       *)
LEMMA Bounds ==
  ASSUME Counts
  PROVE  /\ MAX_TAXA \in Nat /\ MAX_TAXA >= 2
         /\ num_all_nodes \in Nat /\ num_active_nodes \in Nat
         /\ num_active_nodes <= num_all_nodes
         /\ num_all_nodes <= MAX_NODES
         /\ num_active_nodes >= 3 => num_all_nodes \in AllNodes
         /\ Positions \subseteq AllNodes
BY PhiloAssumption DEF Counts, MAX_NODES, AllNodes, Positions

(* The search for a column in the map ends at its position.                *)
LEMMA PositionFound ==
  ASSUME MapInv, NEW n \in Active
  PROVE  PositionOf(n) \in Positions /\ active_node_map[PositionOf(n)] = n
<1> DEFINE P(k) == /\ active_node_map[k] = n
                   /\ \A l \in 0 .. k - 1 : active_node_map[l] # n
<1>1. PICK k \in Positions : active_node_map[k] = n
  BY DEF Active
<1>2. P(k)
  <2>1. SUFFICES ASSUME NEW l \in 0 .. k - 1
                 PROVE  active_node_map[l] # n
    BY <1>1
  <2>2. l \in Positions /\ l < k
    BY <1>1, Bounds DEF Positions, MapInv
  <2> QED
    BY <1>1, <2>2 DEF MapInv, MapIsTidy
<1>3. \E i \in Positions : P(i)
  BY <1>2
<1>4. PositionOf(n) = CHOOSE i \in Positions : P(i)
  BY DEF PositionOf
<1> HIDE DEF P
<1>5. PositionOf(n) \in Positions /\ P(PositionOf(n))
  BY <1>3, <1>4, Zenon
<1> QED
  BY <1>5 DEF P

(* Two different positions are chosen, also when no q value is small.      *)
LEMMA ChosenIsGood ==
  ASSUME MapInv
  PROVE  GoodChoice(Chosen)
<1>1. CASE Minima = {}
  BY <1>1, Bounds DEF GoodChoice, Chosen, Positions, MapInv, Counts
<1>2. CASE Minima # {}
  <2> DEFINE p == CHOOSE q \in Minima : TRUE
  <2>1. p \in Minima
    BY <1>2
  <2>2. Chosen = Choice(p)
    BY <1>2 DEF Chosen
  <2> HIDE DEF p
  <2>3. /\ p[1] \in Positions
        /\ p[2] \in Active
        /\ p[2] # active_node_map[p[1]]
    BY <2>1 DEF Minima, Candidates
  <2>4. /\ PositionOf(p[2]) \in Positions
        /\ active_node_map[PositionOf(p[2])] = p[2]
    BY <2>3, PositionFound
  <2> QED
    BY <2>2, <2>3, <2>4 DEF GoodChoice, Choice
<1> QED
  BY <1>1, <1>2

-----------------------------------------------------------------------------
(* The map as it is set up: every leaf at its place.                       *)
LEMMA InvInit == TreeInit => MapInv
<1> SUFFICES ASSUME TreeInit PROVE MapInv
  OBVIOUS
<1>1. Counts
  BY PhiloAssumption DEF TreeInit, Counts
<1>2. num_taxa \in Nat /\ num_taxa <= MAX_NODES
  BY <1>1, Bounds DEF TreeInit
<1>3. active_node_map \in [AllNodes -> AllNodes]
  BY <1>1, <1>2, Bounds DEF TreeInit, AllNodes, MAX_NODES
<1>4. \A k \in Positions : active_node_map[k] = k
  BY <1>1, Bounds DEF TreeInit, Positions, AllNodes
<1> QED
  BY <1>1, <1>3, <1>4, Bounds DEF MapInv, MapIsTidy, TreeInit, Positions

(* The node that fills the gap at at_g.                                    *)
Moved(c) == IF num_active_nodes - 1 = c.at_f THEN num_all_nodes
            ELSE active_node_map[num_active_nodes - 1]

(* What an iteration does to the map, whichever two positions it chooses.  *)
LEMMA MapAfter ==
  ASSUME MapInv, NEW c, GoodChoice(c), JoinTwo(c)
  PROVE  /\ num_active_nodes >= 3
         /\ num_active_nodes \in Nat /\ num_active_nodes <= num_all_nodes
         /\ num_all_nodes \in Nat /\ num_all_nodes \in AllNodes
         /\ num_active_nodes' = num_active_nodes - 1
         /\ num_all_nodes' = num_all_nodes + 1
         /\ Positions' = Positions \ {num_active_nodes - 1}
         /\ num_active_nodes - 1 \in Positions
         /\ Moved(c) \in num_active_nodes - 1 .. num_all_nodes
         /\ active_node_map' \in [AllNodes -> AllNodes]
         /\ \A k \in Positions' :
              active_node_map'[k] = IF k = c.at_g THEN Moved(c)
                                    ELSE IF k = c.at_f THEN num_all_nodes
                                    ELSE active_node_map[k]
<1> USE DEF MapInv
<1> DEFINE u == num_all_nodes
           last == num_active_nodes - 1
           moved == Moved(c)
<1>1. /\ num_active_nodes >= 3
      /\ num_active_nodes \in Nat /\ num_active_nodes <= u
      /\ u \in Nat /\ u \in AllNodes
      /\ num_active_nodes' = last
      /\ num_all_nodes' = u + 1
  BY Bounds DEF JoinTwo
<1>2. c.at_f \in AllNodes /\ c.at_g \in AllNodes /\ last \in Positions
  BY <1>1, Bounds DEF GoodChoice, Positions
<1>3. moved = IF last = c.at_f THEN u ELSE active_node_map[last]
  BY DEF Moved
<1>4. active_node_map' =
        [active_node_map EXCEPT ![c.at_f] = u, ![c.at_g] = moved]
  BY <1>2, <1>3, Bounds DEF JoinTwo, replace, MapIsTidy
<1>5. moved \in AllNodes /\ moved \in last .. u
  BY <1>1, <1>2, <1>3, Bounds DEF MapIsTidy
<1>6. Positions' = Positions \ {last}
  BY <1>1 DEF Positions
<1> HIDE DEF moved
<1>7. /\ active_node_map' \in [AllNodes -> AllNodes]
      /\ \A k \in Positions' :
           active_node_map'[k] = IF k = c.at_g THEN moved
                                 ELSE IF k = c.at_f THEN u
                                 ELSE active_node_map[k]
  BY <1>1, <1>2, <1>4, <1>5, <1>6, Bounds DEF MapIsTidy, GoodChoice
<1> QED
  BY <1>1, <1>2, <1>5, <1>6, <1>7 DEF moved

(* An iteration keeps the map tidy.                                        *)
LEMMA InvJoin ==
  ASSUME MapInv, NEW c, GoodChoice(c), JoinTwo(c)
  PROVE  MapInv'
<1> USE DEF MapInv
<1> DEFINE u == num_all_nodes
           last == num_active_nodes - 1
           moved == Moved(c)
<1>1. /\ num_active_nodes >= 3
      /\ num_active_nodes \in Nat /\ num_active_nodes <= u
      /\ u \in Nat /\ last \in Positions
      /\ num_active_nodes' = last /\ num_all_nodes' = u + 1
      /\ Positions' = Positions \ {last} /\ moved \in last .. u
      /\ active_node_map' \in [AllNodes -> AllNodes]
      /\ \A k \in Positions' :
           active_node_map'[k] = IF k = c.at_g THEN moved
                                 ELSE IF k = c.at_f THEN u
                                 ELSE active_node_map[k]
  BY MapAfter
<1>2. moved = IF last = c.at_f THEN u ELSE active_node_map[last]
  BY DEF Moved
<1>3. Counts'
  BY <1>1 DEF Counts, JoinTwo
<1> HIDE DEF moved
<1>4. ASSUME NEW k \in Positions'
      PROVE  active_node_map'[k] \in k .. num_all_nodes' - 1
  <2>1. k \in Positions /\ k \in Nat /\ k <= last
    BY <1>1 DEF Positions
  <2> QED
    BY <1>1, <2>1 DEF MapIsTidy
<1>5. ASSUME NEW k \in Positions', NEW l \in Positions', k < l
      PROVE  active_node_map'[k] # active_node_map'[l]
  <2>1. /\ k \in Positions /\ l \in Positions
        /\ k # last /\ l # last /\ k # l
        /\ k \in Int /\ l \in Int
    BY <1>5, <1>1 DEF Positions
  <2>2. \A i, j \in Positions : i # j => active_node_map[i] # active_node_map[j]
    BY <1>1 DEF MapIsTidy, Positions
  <2>3. \A i \in Positions : active_node_map[i] # u
    BY <1>1 DEF MapIsTidy
  <2>4. \A i \in Positions \ {last} : i # c.at_f => active_node_map[i] # moved
    BY <1>1, <1>2, <2>2, <2>3
  <2>5. c.at_f # last => moved # u
    BY <1>1, <1>2, <2>3
  <2> QED
    BY <1>1, <2>1, <2>2, <2>3, <2>4, <2>5
<1> QED
  BY <1>1, <1>3, <1>4, <1>5 DEF MapIsTidy

(* The last call leaves the map alone.                                     *)
LEMMA InvStep == MapInv /\ [taxa_helper]_treeVars => MapInv'
<1> SUFFICES ASSUME MapInv, [taxa_helper]_treeVars PROVE MapInv'
  OBVIOUS
<1>1. CASE Join
  BY <1>1, ChosenIsGood, InvJoin DEF Join
<1>2. CASE Finish
  BY <1>2 DEF Finish, JoinLast, MapInv, Counts, MapIsTidy, Positions
<1>3. CASE UNCHANGED treeVars
  BY <1>3 DEF treeVars, MapInv, Counts, MapIsTidy, Positions
<1> QED
  BY <1>1, <1>2, <1>3 DEF taxa_helper

(* No entry of the map is less than its position, no node is in it twice,  *)
(* and the arrays of philo.c are large enough for the nodes that are made. *)
THEOREM MapStaysTidy == TreeSpec => []MapInv
BY InvInit, InvStep, PTL DEF TreeSpec

(* The search of taxa_helper, whose rows are positions and whose columns   *)
(* are nodes, computes a q value for every pair of active nodes, in every  *)
(* iteration and for any number of taxa.                                   *)
THEOREM PairsAreConsidered == TreeSpec => []EveryPairIsConsidered
<1>1. MapInv => EveryPairIsConsidered
  <2> SUFFICES ASSUME MapInv,
                      NEW k \in Positions, NEW l \in Positions, k < l
               PROVE  /\ active_node_map[k] # active_node_map[l]
                      /\ <<k, active_node_map[l]>> \in Candidates
    BY DEF EveryPairIsConsidered
  <2>1. active_node_map[k] # active_node_map[l]
    BY DEF MapInv, MapIsTidy
  <2>2. active_node_map[l] \in Active
    BY DEF Active
  <2>3. k \in Nat /\ l \in Nat /\ active_node_map[l] \in l .. num_all_nodes - 1
    BY DEF MapInv, MapIsTidy, Positions
  <2>4. active_node_map[l] \in 0 .. num_all_nodes - 1
    BY <2>3, Bounds DEF MapInv
  <2>5. active_node_map[l] >= first_col(k)
    BY <2>3, Bounds DEF first_col, MapInv
  <2> QED
    BY <2>1, <2>2, <2>4, <2>5 DEF Candidates
<1> QED
  BY MapStaysTidy, <1>1, PTL

-----------------------------------------------------------------------------
(* The tree.  A node that has been joined has a parent, which was made     *)
(* later, so whatever part of the tree one looks at, its latest node is    *)
(* active; that is why the last edge connects everything.                  *)

Parent(n) == neighbors[n][0]
HasParent(n) == Parent(n) # NoNode
IsEdge(n, m) == \E i \in DOMAIN edges : Ends(edges[i]) = {n, m}

(* The nodes and what they are linked to, while the tree is being built.   *)
Shape ==
  /\ neighbors \in [AllNodes -> [0 .. 2 -> AllNodes \cup {NoNode}]]
  /\ \A n \in AllNodes \ Made : ~ HasParent(n)
  /\ \A n \in Leaves : neighbors[n][1] = NoNode /\ neighbors[n][2] = NoNode
  /\ \A n \in Internal :
       /\ neighbors[n][1] \in 0 .. n - 1 /\ neighbors[n][2] \in 0 .. n - 1
       /\ neighbors[n][1] # neighbors[n][2]
       /\ Parent(neighbors[n][1]) = n /\ Parent(neighbors[n][2]) = n
  /\ \A n \in Made : HasParent(n) =>
       /\ Parent(n) \in Internal /\ n < Parent(n)
       /\ n \in {neighbors[Parent(n)][1], neighbors[Parent(n)][2]}

(* The edges that have been printed are those to the parents.              *)
EdgesAreLinks ==
  /\ \E S : edges \in Seq(S)
  /\ Len(edges) = 2 * (num_all_nodes - num_taxa)
  /\ \A i \in DOMAIN edges :
       \E n \in Made : HasParent(n) /\ Ends(edges[i]) = {n, Parent(n)}
  /\ \A n \in Made : HasParent(n) => IsEdge(n, Parent(n))

(* The map holds the nodes without a parent; at first, each at its place.  *)
MapHoldsRoots ==
  /\ Active = {n \in Made : ~ HasParent(n)}
  /\ num_all_nodes = num_taxa => active_node_map[0] = 0 /\ active_node_map[1] = 1

(* What the last edge, between the two nodes without a parent, makes of    *)
(* it: each of the two counts as the parent of the other.                  *)
JoinedUp(a, b) ==
  /\ num_active_nodes = 2
  /\ a \in Made /\ b \in Made /\ a # b
  /\ Parent(a) = b /\ Parent(b) = a
  /\ neighbors \in [AllNodes -> [0 .. 2 -> AllNodes \cup {NoNode}]]
  /\ \A n \in Leaves : neighbors[n][1] = NoNode /\ neighbors[n][2] = NoNode
  /\ \A n \in Internal :
       /\ neighbors[n][1] \in 0 .. n - 1 /\ neighbors[n][2] \in 0 .. n - 1
       /\ neighbors[n][1] # neighbors[n][2]
       /\ \A k \in {1, 2} : /\ Parent(neighbors[n][k]) = n
                            /\ neighbors[n][k] \notin {a, b}
  /\ \A n \in Made \ {a, b} :
       /\ Parent(n) \in Internal /\ n < Parent(n)
       /\ n \in {neighbors[Parent(n)][1], neighbors[Parent(n)][2]}
  /\ Len(edges) = 2 * num_taxa - 3
  /\ \A i \in DOMAIN edges : \E n \in Made : Ends(edges[i]) = {n, Parent(n)}
  /\ \A n \in Made : IsEdge(n, Parent(n))

TreeInv ==
  /\ MapInv
  /\ stage = "building" => Shape /\ EdgesAreLinks /\ MapHoldsRoots
  /\ stage = "built" => \E a, b \in Made : JoinedUp(a, b)

(* The two nodes that are joined are the ones at these positions.          *)
RightChoice(c) ==
  /\ GoodChoice(c)
  /\ c.f = active_node_map[c.at_f]
  /\ c.g = active_node_map[c.at_g]

(* With a minimum, or in the first iteration, the nodes that are joined    *)
(* are the ones whose entries of the map are replaced.                     *)
LEMMA ChosenIsRight ==
  ASSUME MapInv, MapHoldsRoots, MinimumIsFound, stage = "building",
         num_active_nodes >= 3
  PROVE  RightChoice(Chosen)
<1>1. GoodChoice(Chosen)
  BY ChosenIsGood
<1>2. CASE Minima = {}
  <2>1. num_all_nodes = num_taxa
    BY <1>2, Bounds DEF MinimumIsFound, MapInv, Counts
  <2>2. active_node_map[0] = 0 /\ active_node_map[1] = 1
    BY <2>1 DEF MapHoldsRoots
  <2> QED
    BY <1>1, <1>2, <2>2 DEF RightChoice, Chosen
<1>3. CASE Minima # {}
  <2> DEFINE p == CHOOSE q \in Minima : TRUE
  <2>1. p \in Minima
    BY <1>3
  <2>2. Chosen = Choice(p)
    BY <1>3 DEF Chosen
  <2> HIDE DEF p
  <2>3. p[2] \in Active
    BY <2>1 DEF Minima, Candidates
  <2>4. active_node_map[PositionOf(p[2])] = p[2]
    BY <2>3, PositionFound
  <2> QED
    BY <1>1, <2>2, <2>4 DEF RightChoice, Choice
<1> QED
  BY <1>2, <1>3

(* Nodes at different positions are different, active and made.            *)
LEMMA ChosenAreActive ==
  ASSUME MapInv, NEW c, RightChoice(c)
  PROVE  /\ c.f \in Active /\ c.g \in Active /\ c.f # c.g
         /\ Active \subseteq Made /\ Made \subseteq AllNodes
<1>1. \A i, j \in Positions : i # j => active_node_map[i] # active_node_map[j]
  BY Bounds DEF MapInv, MapIsTidy, Positions
<1>2. Active \subseteq Made
  BY Bounds DEF MapInv, MapIsTidy, Positions, Active, Made
<1>3. Made \subseteq AllNodes
  BY Bounds, PhiloAssumption DEF MapInv, Made, AllNodes, MAX_NODES
<1> QED
  BY <1>1, <1>2, <1>3 DEF RightChoice, GoodChoice, Active

(* f and g leave the map, and u enters it.                                 *)
LEMMA ActiveAfter ==
  ASSUME MapInv, NEW c, RightChoice(c), JoinTwo(c)
  PROVE  Active' = (Active \ {c.f, c.g}) \cup {num_all_nodes}
<1> DEFINE u == num_all_nodes
           last == num_active_nodes - 1
           moved == Moved(c)
<1>1. GoodChoice(c)
  BY DEF RightChoice
<1>2. /\ last \in Positions /\ Positions' = Positions \ {last}
      /\ \A k \in Positions' :
           active_node_map'[k] = IF k = c.at_g THEN moved
                                 ELSE IF k = c.at_f THEN u
                                 ELSE active_node_map[k]
  BY <1>1, MapAfter
<1>3. moved = IF last = c.at_f THEN u ELSE active_node_map[last]
  BY DEF Moved
<1>4. \A i, j \in Positions : i # j => active_node_map[i] # active_node_map[j]
  BY Bounds DEF MapInv, MapIsTidy, Positions
<1>5. /\ c.at_f \in Positions /\ c.at_g \in Positions /\ c.at_f # c.at_g
      /\ c.f = active_node_map[c.at_f] /\ c.g = active_node_map[c.at_g]
  BY DEF RightChoice, GoodChoice
<1>6. Active = {active_node_map[k] : k \in Positions}
      /\ Active' = {active_node_map'[k] : k \in Positions'}
  BY DEF Active
<1> HIDE DEF moved
<1>7. ASSUME NEW k \in Positions'
      PROVE  active_node_map'[k] \in (Active \ {c.f, c.g}) \cup {u}
  <2>1. k \in Positions /\ k # last
    BY <1>2
  <2>2. CASE k = c.at_g
    BY <1>2, <1>3, <1>4, <1>5, <1>6, <2>1, <2>2
  <2>3. CASE k # c.at_g
    BY <1>2, <1>4, <1>5, <1>6, <2>1, <2>3
  <2> QED
    BY <2>2, <2>3
<1>8. u \in Active'
  <2>1. CASE last = c.at_f
    <3>1. c.at_g \in Positions' /\ active_node_map'[c.at_g] = u
      BY <1>2, <1>3, <1>5, <2>1
    <3> QED
      BY <1>6, <3>1
  <2>2. CASE last # c.at_f
    <3>1. c.at_f \in Positions' /\ active_node_map'[c.at_f] = u
      BY <1>2, <1>5, <2>2
    <3> QED
      BY <1>6, <3>1
  <2> QED
    BY <2>1, <2>2
<1>9. ASSUME NEW k \in Positions, active_node_map[k] \notin {c.f, c.g}
      PROVE  active_node_map[k] \in Active'
  <2>1. k # c.at_f /\ k # c.at_g
    BY <1>5, <1>9
  <2>2. CASE k = last
    <3>1. c.at_g \in Positions' /\ active_node_map'[c.at_g] = active_node_map[k]
      BY <1>2, <1>3, <1>5, <2>1, <2>2
    <3> QED
      BY <1>6, <3>1
  <2>3. CASE k # last
    <3>1. k \in Positions' /\ active_node_map'[k] = active_node_map[k]
      BY <1>2, <2>1, <2>3
    <3> QED
      BY <1>6, <3>1
  <2> QED
    BY <2>2, <2>3
<1> QED
  BY <1>6, <1>7, <1>8, <1>9

(* What an iteration makes of the nodes and of their links.                *)
LEMMA LinksAfter ==
  ASSUME MapInv, Shape, MapHoldsRoots, NEW c, RightChoice(c), JoinTwo(c)
  PROVE  /\ num_all_nodes \in AllNodes \ Made /\ num_all_nodes \in Nat
         /\ num_taxa <= num_all_nodes /\ num_taxa \in Nat
         /\ Made' = Made \cup {num_all_nodes} /\ Made' \subseteq AllNodes
         /\ Leaves' = Leaves
         /\ Internal' = Internal \cup {num_all_nodes}
         /\ c.f \in Made /\ c.g \in Made /\ c.f # c.g
         /\ ~ HasParent(c.f) /\ ~ HasParent(c.g)
         /\ neighbors' \in [AllNodes -> [0 .. 2 -> AllNodes \cup {NoNode}]]
         /\ \A n \in AllNodes :
              /\ neighbors'[n][0] = IF n \in {c.f, c.g} THEN num_all_nodes
                                    ELSE neighbors[n][0]
              /\ neighbors'[n][1] = IF n = num_all_nodes THEN c.f
                                    ELSE neighbors[n][1]
              /\ neighbors'[n][2] = IF n = num_all_nodes THEN c.g
                                    ELSE neighbors[n][2]
<1> DEFINE u == num_all_nodes
<1>1. GoodChoice(c)
  BY DEF RightChoice
<1>2. /\ u \in Nat /\ u \in AllNodes /\ u' = u + 1
      /\ num_active_nodes \in Nat /\ num_active_nodes <= num_all_nodes
  BY <1>1, MapAfter
<1>3. num_taxa \in Nat /\ num_taxa <= u /\ num_taxa' = num_taxa
  BY <1>2, Bounds DEF MapInv, Counts, JoinTwo
<1>4. /\ u \notin Made /\ Made' = Made \cup {u} /\ Leaves' = Leaves
      /\ Internal' = Internal \cup {u}
  BY <1>2, <1>3 DEF Made, Leaves, Internal
<1>5. /\ c.f \in Active /\ c.g \in Active /\ c.f # c.g
      /\ Active \subseteq Made /\ Made \subseteq AllNodes
  BY ChosenAreActive
<1>6. c.f \in Made /\ c.g \in Made /\ ~ HasParent(c.f) /\ ~ HasParent(c.g)
  BY <1>5 DEF MapHoldsRoots
<1>7. neighbors' = [neighbors EXCEPT ![u][1] = c.f, ![u][2] = c.g,
                                     ![c.f][0] = u, ![c.g][0] = u]
  BY DEF JoinTwo, link
<1>8. c.f \in AllNodes /\ c.g \in AllNodes /\ u # c.f /\ u # c.g
  BY <1>4, <1>5, <1>6
<1>9. neighbors \in [AllNodes -> [0 .. 2 -> AllNodes \cup {NoNode}]]
  BY DEF Shape
<1>10. 0 \in 0 .. 2 /\ 1 \in 0 .. 2 /\ 2 \in 0 .. 2
  OBVIOUS
<1>11. neighbors' \in [AllNodes -> [0 .. 2 -> AllNodes \cup {NoNode}]]
  BY <1>2, <1>7, <1>8, <1>9
<1>12. ASSUME NEW n \in AllNodes
       PROVE  /\ neighbors'[n][0] = IF n \in {c.f, c.g} THEN u
                                    ELSE neighbors[n][0]
              /\ neighbors'[n][1] = IF n = u THEN c.f ELSE neighbors[n][1]
              /\ neighbors'[n][2] = IF n = u THEN c.g ELSE neighbors[n][2]
  <2>1. CASE n = u
    BY <1>2, <1>5, <1>7, <1>8, <1>9, <1>10, <2>1
  <2>2. CASE n = c.f
    BY <1>2, <1>5, <1>7, <1>8, <1>9, <1>10, <2>2
  <2>3. CASE n = c.g
    BY <1>2, <1>5, <1>7, <1>8, <1>9, <1>10, <2>3
  <2>4. CASE n \notin {u, c.f, c.g}
    BY <1>2, <1>5, <1>7, <1>8, <1>9, <1>10, <2>4
  <2> QED
    BY <2>1, <2>2, <2>3, <2>4
<1> QED
  BY <1>2, <1>3, <1>4, <1>5, <1>6, <1>11, <1>12

(* An iteration keeps the shape: only u becomes a parent, and only of the  *)
(* two nodes that had none.                                                *)
LEMMA ShapeAfter ==
  ASSUME MapInv, Shape, MapHoldsRoots, NEW c, RightChoice(c), JoinTwo(c)
  PROVE  Shape'
<1> DEFINE u == num_all_nodes
<1>1. /\ u \in AllNodes \ Made /\ u \in Nat
      /\ num_taxa <= u /\ num_taxa \in Nat
      /\ Made' = Made \cup {u} /\ Made' \subseteq AllNodes
      /\ Leaves' = Leaves /\ Internal' = Internal \cup {u}
      /\ c.f \in Made /\ c.g \in Made /\ c.f # c.g
      /\ ~ HasParent(c.f) /\ ~ HasParent(c.g)
      /\ neighbors' \in [AllNodes -> [0 .. 2 -> AllNodes \cup {NoNode}]]
  BY LinksAfter
<1>2. \A n \in AllNodes :
        /\ neighbors'[n][0] = IF n \in {c.f, c.g} THEN u ELSE neighbors[n][0]
        /\ neighbors'[n][1] = IF n = u THEN c.f ELSE neighbors[n][1]
        /\ neighbors'[n][2] = IF n = u THEN c.g ELSE neighbors[n][2]
  BY LinksAfter
<1>3. Internal \subseteq Made /\ Leaves \subseteq Made
  BY <1>1 DEF Made, Leaves, Internal
<1>4. ASSUME NEW n \in AllNodes \ Made'
      PROVE  neighbors'[n][0] = NoNode
  BY <1>1, <1>2 DEF Shape, HasParent, Parent
<1>5. ASSUME NEW n \in Leaves'
      PROVE  neighbors'[n][1] = NoNode /\ neighbors'[n][2] = NoNode
  <2>1. n \in Leaves /\ n # u /\ n \in AllNodes
    BY <1>1, <1>3
  <2> QED
    BY <1>2, <2>1 DEF Shape
<1>6. ASSUME NEW n \in Internal'
      PROVE  /\ neighbors'[n][1] \in 0 .. n - 1
             /\ neighbors'[n][2] \in 0 .. n - 1
             /\ neighbors'[n][1] # neighbors'[n][2]
             /\ neighbors'[neighbors'[n][1]][0] = n
             /\ neighbors'[neighbors'[n][2]][0] = n
  <2>1. CASE n = u
    <3>1. neighbors'[n][1] = c.f /\ neighbors'[n][2] = c.g
      BY <1>1, <1>2, <2>1
    <3>2. neighbors'[c.f][0] = u /\ neighbors'[c.g][0] = u
      BY <1>1, <1>2
    <3>3. c.f \in 0 .. u - 1 /\ c.g \in 0 .. u - 1
      BY <1>1 DEF Made
    <3> QED
      BY <1>1, <2>1, <3>1, <3>2, <3>3
  <2>2. CASE n # u
    <3>1. n \in Internal /\ n \in AllNodes /\ n \in Nat /\ n < u
      BY <1>1, <1>3, <2>2 DEF Made
    <3>2. /\ neighbors[n][1] \in 0 .. n - 1
          /\ neighbors[n][2] \in 0 .. n - 1
          /\ neighbors[n][1] # neighbors[n][2]
          /\ neighbors[neighbors[n][1]][0] = n
          /\ neighbors[neighbors[n][2]][0] = n
      BY <3>1 DEF Shape, Parent
    <3>3. neighbors'[n][1] = neighbors[n][1] /\ neighbors'[n][2] = neighbors[n][2]
      BY <1>2, <2>2, <3>1
    <3>4. neighbors[n][1] \in AllNodes /\ neighbors[n][2] \in AllNodes
      BY <1>1, <3>1, <3>2 DEF Made
    <3>5. neighbors[c.f][0] # n /\ neighbors[c.g][0] # n
      BY <1>1, <3>1 DEF HasParent, Parent, NoNode
    <3>6. /\ neighbors'[neighbors[n][1]][0] = n
          /\ neighbors'[neighbors[n][2]][0] = n
      BY <1>2, <3>2, <3>4, <3>5
    <3> QED
      BY <3>2, <3>3, <3>6
  <2> QED
    BY <2>1, <2>2
<1>7. ASSUME NEW n \in Made', neighbors'[n][0] # NoNode
      PROVE  LET p == neighbors'[n][0]
             IN  /\ p \in Internal' /\ n < p
                 /\ n \in {neighbors'[p][1], neighbors'[p][2]}
  <2>1. CASE n \in {c.f, c.g}
    <3>1. neighbors'[n][0] = u /\ n < u
      BY <1>1, <1>2, <2>1 DEF Made
    <3>2. neighbors'[u][1] = c.f /\ neighbors'[u][2] = c.g
      BY <1>1, <1>2
    <3> QED
      BY <1>1, <2>1, <3>1, <3>2
  <2>2. CASE n \notin {c.f, c.g}
    <3>1. n \in AllNodes /\ neighbors'[n][0] = neighbors[n][0]
      BY <1>1, <1>2, <2>2
    <3>2. n \in Made
      BY <1>1, <1>7, <3>1 DEF Shape, HasParent, Parent
    <3> DEFINE p == neighbors[n][0]
    <3>3. p \in Internal /\ n < p /\ n \in {neighbors[p][1], neighbors[p][2]}
      BY <1>7, <3>1, <3>2 DEF Shape, HasParent, Parent
    <3>4. p \in AllNodes /\ p # u
      BY <1>1, <1>3, <3>3
    <3>5. neighbors'[p][1] = neighbors[p][1] /\ neighbors'[p][2] = neighbors[p][2]
      BY <1>2, <3>4
    <3> HIDE DEF p
    <3> QED
      BY <1>1, <3>1, <3>3, <3>5 DEF p
  <2> QED
    BY <2>1, <2>2
<1> QED
  BY <1>1, <1>4, <1>5, <1>6, <1>7 DEF Shape, HasParent, Parent, NoNode

(* An iteration prints the two edges to the new parent.                    *)
LEMMA EdgesAfter ==
  ASSUME MapInv, Shape, MapHoldsRoots, EdgesAreLinks,
         NEW c, RightChoice(c), JoinTwo(c)
  PROVE  EdgesAreLinks'
<1> DEFINE u == num_all_nodes
           e1 == <<c.f, u, distance_to_u(c.f, c.g, c.f)>>
           e2 == <<c.g, u, distance_to_u(c.f, c.g, c.g)>>
           len == Len(edges)
<1>1. /\ u \in AllNodes \ Made /\ u \in Nat
      /\ num_taxa <= u /\ num_taxa \in Nat
      /\ Made' = Made \cup {u} /\ Made' \subseteq AllNodes
      /\ c.f \in Made /\ c.g \in Made /\ c.f # c.g
      /\ ~ HasParent(c.f) /\ ~ HasParent(c.g)
  BY LinksAfter
<1>2. \A n \in AllNodes :
        Parent(n)' = IF n \in {c.f, c.g} THEN u ELSE Parent(n)
  BY LinksAfter DEF Parent
<1>3. u' = u + 1 /\ num_taxa' = num_taxa /\ edges' = edges \o <<e1, e2>>
  BY DEF JoinTwo
<1>4. PICK S : edges \in Seq(S)
  BY DEF EdgesAreLinks
<1>5. Ends(e1) = {c.f, u} /\ Ends(e2) = {c.g, u}
  BY DEF Ends
<1> HIDE DEF e1, e2
<1> DEFINE T == S \cup {e1, e2}
<1>6. edges \in Seq(T) /\ <<e1, e2>> \in Seq(T)
  <2>1. edges \in Seq(T)
    BY <1>4
  <2> QED
    BY <2>1
<1> HIDE DEF T
<1>7. /\ edges' \in Seq(T)
      /\ len \in Nat /\ Len(edges') = len + 2
      /\ DOMAIN edges = 1 .. len /\ DOMAIN edges' = 1 .. len + 2
      /\ \A i \in 1 .. len : edges'[i] = edges[i]
      /\ edges'[len + 1] = e1 /\ edges'[len + 2] = e2
  BY <1>3, <1>6
<1> HIDE DEF len
<1>8. len = 2 * (u - num_taxa)
  BY DEF EdgesAreLinks, len
<1>9. Len(edges') = 2 * (u' - num_taxa')
  BY <1>1, <1>3, <1>7, <1>8
<1>10. \A n \in Made : HasParent(n) =>
         n \notin {c.f, c.g} /\ Parent(n)' = Parent(n) /\ HasParent(n)'
  BY <1>1, <1>2 DEF HasParent
<1>11. /\ Parent(c.f)' = u /\ Parent(c.g)' = u
       /\ HasParent(c.f)' /\ HasParent(c.g)'
  <2>1. c.f \in AllNodes /\ c.g \in AllNodes
    BY <1>1
  <2>3. u # NoNode
    BY <1>1 DEF NoNode
  <2>2. Parent(c.f)' = u /\ Parent(c.g)' = u
    BY <1>2, <2>1
  <2> QED
    BY <2>2, <2>3 DEF HasParent
<1>12. ASSUME NEW i \in DOMAIN edges'
       PROVE  \E n \in Made' : HasParent(n)' /\ Ends(edges'[i]) = {n, Parent(n)'}
  <2>1. CASE i \in 1 .. len
    <3>1. PICK n \in Made : HasParent(n) /\ Ends(edges[i]) = {n, Parent(n)}
      BY <1>7, <2>1 DEF EdgesAreLinks
    <3>2. n \in Made' /\ HasParent(n)' /\ Parent(n)' = Parent(n)
      BY <1>1, <1>10, <3>1
    <3> QED
      BY <1>7, <2>1, <3>1, <3>2
  <2>2. CASE i = len + 1
    BY <1>1, <1>5, <1>7, <1>11, <2>2
  <2>3. CASE i = len + 2
    BY <1>1, <1>5, <1>7, <1>11, <2>3
  <2> QED
    BY <1>7, <2>1, <2>2, <2>3
<1>13. ASSUME NEW n \in Made', HasParent(n)'
       PROVE  \E i \in DOMAIN edges' : Ends(edges'[i]) = {n, Parent(n)'}
  <2>1. CASE n = c.f
    BY <1>5, <1>7, <1>11, <2>1
  <2>2. CASE n = c.g
    BY <1>5, <1>7, <1>11, <2>2
  <2>3. CASE n \notin {c.f, c.g}
    <3>1. n \in AllNodes /\ Parent(n)' = Parent(n)
      BY <1>1, <1>2, <2>3
    <3>2. HasParent(n)
      BY <1>13, <3>1 DEF HasParent
    <3>3. n \in Made
      BY <3>1, <3>2 DEF Shape
    <3>4. PICK i \in DOMAIN edges : Ends(edges[i]) = {n, Parent(n)}
      BY <3>2, <3>3 DEF EdgesAreLinks, IsEdge
    <3> QED
      BY <1>7, <3>1, <3>4
  <2> QED
    BY <2>1, <2>2, <2>3
<1> QED
  BY <1>7, <1>9, <1>12, <1>13 DEF EdgesAreLinks, IsEdge, Ends

(* f and g are no longer without a parent, and u is.                       *)
LEMMA RootsAfter ==
  ASSUME MapInv, Shape, MapHoldsRoots, NEW c, RightChoice(c), JoinTwo(c)
  PROVE  MapHoldsRoots'
<1> DEFINE u == num_all_nodes
<1>1. /\ u \in AllNodes \ Made /\ u \in Nat
      /\ num_taxa <= u /\ num_taxa \in Nat
      /\ Made' = Made \cup {u} /\ Made' \subseteq AllNodes
      /\ c.f \in Made /\ c.g \in Made /\ c.f # c.g
      /\ ~ HasParent(c.f) /\ ~ HasParent(c.g)
  BY LinksAfter
<1>2. \A n \in AllNodes :
        neighbors'[n][0] = IF n \in {c.f, c.g} THEN u ELSE neighbors[n][0]
  BY LinksAfter
<1>3. Active' = (Active \ {c.f, c.g}) \cup {u}
  BY ActiveAfter
<1>4. Active = {n \in Made : neighbors[n][0] = NoNode}
  BY DEF MapHoldsRoots, HasParent, Parent
<1>5. neighbors[u][0] = NoNode
  BY <1>1 DEF Shape, HasParent, Parent
<1>6. \A n \in Made' : n \in Active' <=> neighbors'[n][0] = NoNode
  BY <1>1, <1>2, <1>3, <1>4, <1>5 DEF NoNode
<1>7. Active' = {n \in Made' : neighbors'[n][0] = NoNode}
  BY <1>1, <1>3, <1>4, <1>6
<1>8. num_all_nodes' # num_taxa'
  BY <1>1 DEF JoinTwo
<1> QED
  BY <1>7, <1>8 DEF MapHoldsRoots, HasParent, Parent

(* The last call: the tables hold two nodes without a parent.              *)
LEMMA FinishJoins ==
  ASSUME MapInv, Shape, EdgesAreLinks, MapHoldsRoots, Finish
  PROVE  \E a, b \in Made : JoinedUp(a, b)'
<1> DEFINE a == active_node_map[0]
           b == active_node_map[1]
           len == Len(edges)
<1>1. /\ num_active_nodes = 2 /\ num_taxa \in Nat /\ num_taxa >= 2
      /\ num_all_nodes = 2 * num_taxa - 2 /\ num_all_nodes \in Nat
      /\ num_taxa <= num_all_nodes
  BY Bounds DEF MapInv, Counts, Finish, JoinLast
<1>2. Positions = {0, 1}
  BY <1>1 DEF Positions
<1>3. Active = {a, b} /\ a # b
  BY <1>2 DEF Active, MapInv, MapIsTidy
<1>4. /\ Made \subseteq AllNodes /\ Internal \subseteq Made
      /\ Leaves \subseteq Made
  BY <1>1, Bounds, PhiloAssumption
     DEF MapInv, Made, AllNodes, MAX_NODES, Internal, Leaves
<1>5. /\ a \in Made /\ b \in Made /\ a \in AllNodes /\ b \in AllNodes
      /\ neighbors[a][0] = NoNode /\ neighbors[b][0] = NoNode
      /\ \A n \in Made \ {a, b} : HasParent(n)
  BY <1>3, <1>4 DEF MapHoldsRoots, HasParent, Parent
<1>6. /\ neighbors' = [neighbors EXCEPT ![a][0] = b, ![b][0] = a]
      /\ UNCHANGED <<num_taxa, num_all_nodes, num_active_nodes>>
  BY DEF Finish, JoinLast
<1>7. Made' = Made /\ Leaves' = Leaves /\ Internal' = Internal
  BY <1>6 DEF Made, Leaves, Internal
<1>8. edges' = Append(edges, <<b, a, distances[a][b]>>)
  BY DEF Finish, JoinLast
<1>9. neighbors \in [AllNodes -> [0 .. 2 -> AllNodes \cup {NoNode}]]
  BY DEF Shape
<1> HIDE DEF a, b
<1>10. /\ neighbors' \in [AllNodes -> [0 .. 2 -> AllNodes \cup {NoNode}]]
       /\ neighbors'[a][0] = b /\ neighbors'[b][0] = a
       /\ \A n \in AllNodes \ {a, b} : neighbors'[n][0] = neighbors[n][0]
       /\ \A n \in AllNodes : /\ neighbors'[n][1] = neighbors[n][1]
                              /\ neighbors'[n][2] = neighbors[n][2]
  <2>1. 0 \in 0 .. 2 /\ 1 \in 0 .. 2 /\ 2 \in 0 .. 2
    OBVIOUS
  <2>2. neighbors' \in [AllNodes -> [0 .. 2 -> AllNodes \cup {NoNode}]]
    BY <1>5, <1>6, <1>9
  <2>3. neighbors'[a][0] = b /\ neighbors'[b][0] = a
    BY <1>3, <1>5, <1>6, <1>9, <2>1
  <2>4. ASSUME NEW n \in AllNodes
        PROVE  /\ n \notin {a, b} => neighbors'[n][0] = neighbors[n][0]
               /\ neighbors'[n][1] = neighbors[n][1]
               /\ neighbors'[n][2] = neighbors[n][2]
    <3>1. CASE n = a
      BY <1>3, <1>5, <1>6, <1>9, <2>1, <3>1
    <3>2. CASE n = b
      BY <1>3, <1>5, <1>6, <1>9, <2>1, <3>2
    <3>3. CASE n \notin {a, b}
      BY <1>3, <1>5, <1>6, <1>9, <2>1, <3>3
    <3> QED
      BY <3>1, <3>2, <3>3
  <2> QED
    BY <2>2, <2>3, <2>4
<1>11. ASSUME NEW n \in Leaves
       PROVE  neighbors'[n][1] = NoNode /\ neighbors'[n][2] = NoNode
  BY <1>4, <1>10 DEF Shape
<1>12. ASSUME NEW n \in Internal
       PROVE  /\ neighbors'[n][1] \in 0 .. n - 1
              /\ neighbors'[n][2] \in 0 .. n - 1
              /\ neighbors'[n][1] # neighbors'[n][2]
              /\ \A k \in {1, 2} : /\ neighbors'[neighbors'[n][k]][0] = n
                                   /\ neighbors'[n][k] \notin {a, b}
  <2>1. n \in AllNodes /\ n \in Nat /\ n < num_all_nodes /\ n # NoNode
    BY <1>1, <1>4 DEF Made, NoNode
  <2>2. /\ neighbors[n][1] \in 0 .. n - 1 /\ neighbors[n][2] \in 0 .. n - 1
        /\ neighbors[n][1] # neighbors[n][2]
        /\ neighbors[neighbors[n][1]][0] = n
        /\ neighbors[neighbors[n][2]][0] = n
    BY DEF Shape, Parent
  <2>3. neighbors[n][1] \notin {a, b} /\ neighbors[n][2] \notin {a, b}
    BY <1>5, <2>1, <2>2
  <2>4. neighbors[n][1] \in AllNodes /\ neighbors[n][2] \in AllNodes
    BY <1>1, <1>4, <2>1, <2>2 DEF Made
  <2>5. neighbors'[n][1] = neighbors[n][1] /\ neighbors'[n][2] = neighbors[n][2]
    BY <1>10, <2>1
  <2>6. /\ neighbors'[neighbors[n][1]][0] = n
        /\ neighbors'[neighbors[n][2]][0] = n
    BY <1>10, <2>2, <2>3, <2>4
  <2> QED
    BY <2>2, <2>3, <2>5, <2>6
<1>13. ASSUME NEW n \in Made \ {a, b}
       PROVE  LET p == neighbors'[n][0]
              IN  /\ p \in Internal /\ n < p
                  /\ n \in {neighbors'[p][1], neighbors'[p][2]}
  <2> DEFINE p == neighbors[n][0]
  <2>1. n \in AllNodes /\ HasParent(n) /\ neighbors'[n][0] = p
    BY <1>4, <1>5, <1>10
  <2>2. p \in Internal /\ n < p /\ n \in {neighbors[p][1], neighbors[p][2]}
    BY <2>1 DEF Shape, Parent
  <2>3. neighbors'[p][1] = neighbors[p][1] /\ neighbors'[p][2] = neighbors[p][2]
    BY <1>4, <1>10, <2>2
  <2> HIDE DEF p
  <2> QED
    BY <2>1, <2>2, <2>3
<1> DEFINE e == <<b, a, distances[a][b]>>
<1>14. PICK S : edges \in Seq(S)
  BY DEF EdgesAreLinks
<1>15. Ends(e) = {a, b}
  BY DEF Ends
<1>16. edges' = Append(edges, e)
  BY <1>8
<1> HIDE DEF e
<1>17. /\ len \in Nat /\ Len(edges') = len + 1
       /\ DOMAIN edges = 1 .. len /\ DOMAIN edges' = 1 .. len + 1
       /\ \A i \in 1 .. len : edges'[i] = edges[i]
       /\ edges'[len + 1] = e
  <2>1. edges \in Seq(S \cup {e})
    BY <1>14
  <2> QED
    BY <1>16, <2>1
<1>18. Len(edges') = 2 * num_taxa - 3
  BY <1>1, <1>17 DEF EdgesAreLinks
<1> HIDE DEF len
<1>19. ASSUME NEW i \in DOMAIN edges'
       PROVE  \E n \in Made : Ends(edges'[i]) = {n, neighbors'[n][0]}
  <2>1. CASE i \in 1 .. len
    <3>1. PICK n \in Made : HasParent(n) /\ Ends(edges[i]) = {n, Parent(n)}
      BY <1>17, <2>1 DEF EdgesAreLinks
    <3>2. n \in AllNodes \ {a, b}
      BY <1>4, <1>5, <3>1 DEF HasParent, Parent
    <3>3. neighbors'[n][0] = Parent(n)
      BY <1>10, <3>2 DEF Parent
    <3> QED
      BY <1>17, <2>1, <3>1, <3>3
  <2>2. CASE i = len + 1
    BY <1>5, <1>10, <1>15, <1>17, <2>2
  <2> QED
    BY <1>17, <2>1, <2>2
<1>20. ASSUME NEW n \in Made
       PROVE  \E i \in DOMAIN edges' : Ends(edges'[i]) = {n, neighbors'[n][0]}
  <2>1. CASE n \in {a, b}
    <3>1. {n, neighbors'[n][0]} = {a, b}
      BY <1>5, <1>10, <2>1
    <3>2. len + 1 \in DOMAIN edges' /\ Ends(edges'[len + 1]) = {a, b}
      BY <1>15, <1>17
    <3> QED
      BY <3>1, <3>2
  <2>2. CASE n \notin {a, b}
    <3>1. HasParent(n) /\ neighbors'[n][0] = Parent(n)
      BY <1>4, <1>5, <1>10, <2>2 DEF Parent
    <3>2. PICK i \in DOMAIN edges : Ends(edges[i]) = {n, Parent(n)}
      BY <3>1 DEF EdgesAreLinks, IsEdge
    <3> QED
      BY <1>17, <3>1, <3>2
  <2> QED
    BY <2>1, <2>2
<1>21. /\ num_active_nodes' = 2 /\ num_taxa' = num_taxa
       /\ a \in Made' /\ b \in Made' /\ a # b
  BY <1>1, <1>3, <1>5, <1>6, <1>7
<1>22. Len(edges') = 2 * num_taxa' - 3
  BY <1>18, <1>21
<1>23. \E x, y \in Made : JoinedUp(x, y)'
  <2>1. ASSUME NEW x \in Made, NEW y \in Made, x = a, y = b
        PROVE  JoinedUp(x, y)'
    <3>1. \A n \in Leaves' : (neighbors[n][1] = NoNode)' /\ (neighbors[n][2] = NoNode)'
      BY <1>7, <1>11
    <3>2. \A n \in Internal' :
       /\ (neighbors[n][1] \in 0 .. n - 1)' /\ (neighbors[n][2] \in 0 .. n - 1)'
       /\ (neighbors[n][1] # neighbors[n][2])'
       /\ \A k \in {1, 2} : /\ (Parent(neighbors[n][k]) = n)'
                            /\ (neighbors[n][k] \notin {x, y})'
      BY <1>7, <1>12, <2>1 DEF Parent
    <3>3. \A n \in Made' \ {x, y} :
       /\ (Parent(n) \in Internal)' /\ (n < Parent(n))'
       /\ (n \in {neighbors[Parent(n)][1], neighbors[Parent(n)][2]})'
      BY <1>7, <1>13, <2>1 DEF Parent
    <3>4. \A i \in DOMAIN edges' : \E n \in Made' : (Ends(edges[i]) = {n, Parent(n)})'
      BY <1>7, <1>19 DEF Parent, Ends
    <3>5. \A n \in Made' : IsEdge(n, Parent(n))'
      BY <1>7, <1>20 DEF Parent, IsEdge, Ends
    <3>6. (Parent(x) = y)' /\ (Parent(y) = x)'
      BY <1>10, <2>1 DEF Parent
    <3> QED
      BY <2>1, <1>10, <1>21, <1>22, <3>1, <3>2, <3>3, <3>4, <3>5, <3>6
         DEF JoinedUp
  <2> QED
    BY <1>5, <2>1
<1> QED
  BY <1>23

-----------------------------------------------------------------------------
(* A nonempty set of natural numbers has a least member.                   *)
LEMMA LeastNatural ==
  ASSUME NEW S \in SUBSET Nat, S # {}
  PROVE  \E m \in S : \A n \in S : m <= n
<1> DEFINE R == OpToRel(<, Nat)
<1>1. IsWellFoundedOn(R, Nat)
  BY NatLessThanWellFounded
<1>2. \A x, y \in Nat : x < y => <<x, y>> \in R
  BY DEF OpToRel
<1> HIDE DEF R
<1>3. PICK m \in S : \A n \in S : ~ (<<n, m>> \in R)
  BY <1>1, WFMin
<1>4. \A n \in S : m \in Nat /\ n \in Nat /\ ~ (n < m)
  BY <1>2, <1>3
<1> QED
  BY <1>3, <1>4

(* Of some nodes, one was made last.                                       *)
LEMMA LatestNode ==
  ASSUME NEW N \in Nat, NEW S \in SUBSET (0 .. N - 1), S # {}
  PROVE  \E m \in S : \A n \in S : n <= m
<1> DEFINE T == {N - x : x \in S}
<1>1. T \in SUBSET Nat /\ T # {}
  <2>1. \A x \in S : N - x \in Nat
    OBVIOUS
  <2> QED
    BY <2>1
<1>2. PICK d \in T : \A e \in T : d <= e
  BY <1>1, LeastNatural
<1>3. PICK m \in S : d = N - m
  BY <1>2
<1>4. ASSUME NEW x \in S
      PROVE  x <= m
  <2>1. N - m <= N - x
    BY <1>2, <1>3
  <2>2. x \in Int /\ m \in Int
    OBVIOUS
  <2> QED
    BY <2>1, <2>2
<1> QED
  BY <1>3, <1>4

(* Three different neighbours are three.                                   *)
LEMMA ThreeElements ==
  ASSUME NEW x, NEW y, NEW z, x # y, x # z, y # z
  PROVE  Cardinality({x, y, z}) = 3
<1>1. IsFiniteSet({x}) /\ Cardinality({x}) = 1
  BY FS_Singleton
<1>2. IsFiniteSet({x} \cup {y}) /\ Cardinality({x} \cup {y}) = 2
  BY <1>1, FS_AddElement
<1>3. Cardinality(({x} \cup {y}) \cup {z}) = 3
  BY <1>2, FS_AddElement
<1>4. ({x} \cup {y}) \cup {z} = {x, y, z}
  OBVIOUS
<1> QED
  BY <1>3, <1>4

(* What the neighbours of a node are in the end.                           *)
LEMMA NeighboursAtEnd ==
  ASSUME MapInv, NEW a, NEW b, JoinedUp(a, b)
  PROVE  /\ \A n \in Made : Parent(n) \in Made /\ Parent(n) # n
         /\ \A n \in Leaves : NeighboursOf(n) = {Parent(n)}
         /\ \A n \in Internal :
              /\ NeighboursOf(n) = {Parent(n), neighbors[n][1], neighbors[n][2]}
              /\ neighbors[n][1] \in Made /\ neighbors[n][2] \in Made
              /\ neighbors[n][1] # neighbors[n][2]
              /\ Parent(n) \notin {neighbors[n][1], neighbors[n][2]}
         /\ Internal \subseteq Made /\ Leaves \subseteq Made
         /\ Made = Internal \cup Leaves
<1>1. num_taxa \in Nat /\ num_all_nodes \in Nat /\ num_taxa <= num_all_nodes
  BY Bounds DEF MapInv, Counts
<1>2. /\ Internal \subseteq Made /\ Leaves \subseteq Made
      /\ Made = Internal \cup Leaves /\ NoNode \notin Made
  BY <1>1 DEF Made, Internal, Leaves, NoNode
<1>3. \A n \in Made : n \in Nat /\ n < num_all_nodes
  BY <1>1 DEF Made
<1>4. a \in Made /\ b \in Made /\ a # b /\ Parent(a) = b /\ Parent(b) = a
  BY DEF JoinedUp
<1>5. \A n \in Made \ {a, b} : Parent(n) \in Internal /\ n < Parent(n)
  BY DEF JoinedUp
<1>6. \A n \in Made : Parent(n) \in Made /\ Parent(n) # n
  BY <1>2, <1>3, <1>4, <1>5
<1>7. ASSUME NEW n
      PROVE  NeighboursOf(n)
               = {neighbors[n][0], neighbors[n][1], neighbors[n][2]} \ {NoNode}
  <2>1. 0 .. 2 = {0, 1, 2}
    OBVIOUS
  <2> QED
    BY <2>1 DEF NeighboursOf
<1>8. ASSUME NEW n \in Leaves
      PROVE  NeighboursOf(n) = {Parent(n)}
  <2>1. neighbors[n][1] = NoNode /\ neighbors[n][2] = NoNode
    BY DEF JoinedUp
  <2> QED
    BY <1>2, <1>6, <1>7, <2>1 DEF Parent
<1>9. ASSUME NEW n \in Internal
      PROVE  /\ NeighboursOf(n) = {Parent(n), neighbors[n][1], neighbors[n][2]}
             /\ neighbors[n][1] \in Made /\ neighbors[n][2] \in Made
             /\ neighbors[n][1] # neighbors[n][2]
             /\ Parent(n) \notin {neighbors[n][1], neighbors[n][2]}
  <2>1. /\ neighbors[n][1] \in 0 .. n - 1 /\ neighbors[n][2] \in 0 .. n - 1
        /\ neighbors[n][1] # neighbors[n][2]
        /\ neighbors[n][1] \notin {a, b} /\ neighbors[n][2] \notin {a, b}
    BY DEF JoinedUp
  <2>2. n \in Nat /\ n < num_all_nodes
    BY <1>2, <1>3
  <2>3. neighbors[n][1] \in Made /\ neighbors[n][2] \in Made
    BY <1>1, <2>1, <2>2 DEF Made
  <2>4. Parent(n) \notin {neighbors[n][1], neighbors[n][2]}
    <3>1. CASE n \in {a, b}
      BY <1>4, <2>1, <3>1
    <3>2. CASE n \notin {a, b}
      <4>1. n < Parent(n) /\ Parent(n) \in Nat
        BY <1>2, <1>3, <1>5, <3>2
      <4> QED
        BY <2>1, <2>2, <4>1
    <3> QED
      BY <3>1, <3>2
  <2>5. NeighboursOf(n) = {Parent(n), neighbors[n][1], neighbors[n][2]}
    BY <1>2, <1>6, <1>7, <2>3 DEF Parent
  <2> QED
    BY <2>1, <2>3, <2>4, <2>5
<1> QED
  BY <1>2, <1>6, <1>8, <1>9

(* The neighbours of a node are its parent and those whose parent it is.   *)
LEMMA NeighboursAreLinks ==
  ASSUME MapInv, NEW a, NEW b, JoinedUp(a, b), NEW n \in Made, NEW m
  PROVE  m \in NeighboursOf(n) <=> \/ m = Parent(n)
                                   \/ m \in Made /\ n = Parent(m)
<1>1. a \in Made /\ b \in Made /\ Parent(a) = b /\ Parent(b) = a
  BY DEF JoinedUp
<1>2. ASSUME m \in NeighboursOf(n)
      PROVE  m = Parent(n) \/ (m \in Made /\ n = Parent(m))
  <2>1. CASE n \in Leaves
    BY <1>2, <2>1, NeighboursAtEnd
  <2>2. CASE n \in Internal
    <3>1. Parent(neighbors[n][1]) = n /\ Parent(neighbors[n][2]) = n
      BY <2>2 DEF JoinedUp
    <3>2. /\ m \in {Parent(n), neighbors[n][1], neighbors[n][2]}
          /\ neighbors[n][1] \in Made /\ neighbors[n][2] \in Made
      BY <1>2, <2>2, NeighboursAtEnd
    <3> QED
      BY <3>1, <3>2
  <2> QED
    BY <2>1, <2>2, NeighboursAtEnd
<1>3. Parent(n) \in NeighboursOf(n)
  BY NeighboursAtEnd
<1>4. ASSUME m \in Made, n = Parent(m)
      PROVE  m \in NeighboursOf(n)
  <2>1. CASE m \in {a, b}
    BY <1>1, <1>3, <1>4, <2>1
  <2>2. CASE m \notin {a, b}
    <3>1. n \in Internal /\ m \in {neighbors[n][1], neighbors[n][2]}
      BY <1>4, <2>2 DEF JoinedUp
    <3> QED
      BY <3>1, NeighboursAtEnd
  <2> QED
    BY <2>1, <2>2
<1> QED
  BY <1>2, <1>3, <1>4

(* A part that has no edge to the rest has a latest node, which is a or b, *)
(* and so has the rest: it would be the other one, but they are linked.    *)
LEMMA EndIsConnected ==
  ASSUME MapInv, NEW a, NEW b, JoinedUp(a, b)
  PROVE  Connected
<1>1. num_all_nodes \in Nat /\ Made = 0 .. num_all_nodes - 1
  BY Bounds DEF MapInv, Made
<1>2. a \in Made /\ b \in Made /\ Parent(a) = b /\ Parent(b) = a
  BY DEF JoinedUp
<1>3. \A n \in Made \ {a, b} : Parent(n) \in Internal /\ n < Parent(n)
  BY DEF JoinedUp
<1>4. \A n \in Made : Parent(n) \in Made /\ Parent(n) \in NeighboursOf(n)
  BY NeighboursAtEnd
<1>5. ASSUME NEW S \in SUBSET Made, S # {},
             \A n \in S : NeighboursOf(n) \subseteq S
      PROVE  a \in S
  <2>1. PICK m \in S : \A n \in S : n <= m
    BY <1>1, <1>5, LatestNode
  <2>2. Parent(m) \in S
    BY <1>4, <1>5
  <2>5. m \in Made /\ Parent(m) \in Made /\ Parent(m) <= m
    BY <2>1, <2>2
  <2>3. m \in Nat /\ Parent(m) \in Nat /\ Parent(m) <= m
    BY <1>1, <2>5
  <2>4. m \in {a, b}
    BY <1>3, <2>3
  <2> QED
    BY <1>2, <2>2, <2>4
<1>6. \A n, m \in Made : m \in NeighboursOf(n) => n \in NeighboursOf(m)
  BY NeighboursAreLinks
<1>7. \A n \in Made : NeighboursOf(n) \subseteq Made
  BY NeighboursAtEnd
<1>8. ASSUME NEW S \in SUBSET Made, S # {},
             \A n \in S : NeighboursOf(n) \subseteq S
      PROVE  S = Made
  <2>1. SUFFICES ASSUME Made \ S # {} PROVE FALSE
    OBVIOUS
  <2>2. \A n \in Made \ S : NeighboursOf(n) \subseteq Made \ S
    BY <1>6, <1>7, <1>8
  <2>3. a \in Made \ S
    BY <1>5, <2>1, <2>2
  <2>4. a \in S
    BY <1>5, <1>8
  <2> QED
    BY <2>3, <2>4
<1> QED
  BY <1>8 DEF Connected

(* Nodes that are joined up are a tree.                                    *)
LEMMA EndIsTree ==
  ASSUME MapInv, NEW a, NEW b, JoinedUp(a, b)
  PROVE  TreeIsBuilt
<1>1. num_all_nodes = 2 * num_taxa - 2
  BY DEF JoinedUp, MapInv, Counts
<1>2. \A n \in Leaves : Cardinality(NeighboursOf(n)) = 1
  <2>1. SUFFICES ASSUME NEW n \in Leaves PROVE Cardinality(NeighboursOf(n)) = 1
    OBVIOUS
  <2>2. NeighboursOf(n) = {Parent(n)}
    BY NeighboursAtEnd
  <2> QED
    BY <2>2, FS_Singleton
<1>3. \A n \in Internal : Cardinality(NeighboursOf(n)) = 3
  <2>1. SUFFICES ASSUME NEW n \in Internal PROVE Cardinality(NeighboursOf(n)) = 3
    OBVIOUS
  <2>2. /\ NeighboursOf(n) = {Parent(n), neighbors[n][1], neighbors[n][2]}
        /\ neighbors[n][1] # neighbors[n][2]
        /\ Parent(n) # neighbors[n][1] /\ Parent(n) # neighbors[n][2]
    BY NeighboursAtEnd
  <2> DEFINE x == Parent(n)
             y == neighbors[n][1]
             z == neighbors[n][2]
  <2> HIDE DEF x, y, z
  <2>3. x # y /\ x # z /\ y # z
    BY <2>2 DEF x, y, z
  <2>4. Cardinality({x, y, z}) = 3
    BY <2>3, ThreeElements
  <2> QED
    BY <2>2, <2>4 DEF x, y, z
<1>4. Len(edges) = 2 * num_taxa - 3
  BY DEF JoinedUp
<1>5. \A n \in Made : Parent(n) \in Made
  BY NeighboursAtEnd
<1>6. \A i \in DOMAIN edges : \E n \in Made : Ends(edges[i]) = {n, Parent(n)}
  BY DEF JoinedUp
<1>7. \A i \in DOMAIN edges : Ends(edges[i]) \subseteq Made
  BY <1>5, <1>6
<1>8. ASSUME NEW n \in Made
      PROVE  NeighboursOf(n) =
               {m \in Made : \E i \in DOMAIN edges : Ends(edges[i]) = {n, m}}
  <2>1. ASSUME NEW m \in Made
        PROVE  m \in NeighboursOf(n) <=>
                 \E i \in DOMAIN edges : Ends(edges[i]) = {n, m}
    <3>1. m \in NeighboursOf(n) <=> m = Parent(n) \/ n = Parent(m)
      BY NeighboursAreLinks
    <3>2. ASSUME m \in NeighboursOf(n)
          PROVE  \E i \in DOMAIN edges : Ends(edges[i]) = {n, m}
      <4>1. {n, m} = {n, Parent(n)} \/ {n, m} = {m, Parent(m)}
        BY <3>1, <3>2
      <4>2. IsEdge(n, Parent(n)) /\ IsEdge(m, Parent(m))
        BY DEF JoinedUp
      <4> QED
        BY <4>1, <4>2 DEF IsEdge
    <3>3. ASSUME NEW i \in DOMAIN edges, Ends(edges[i]) = {n, m}
          PROVE  m = Parent(n) \/ n = Parent(m)
      <4>1. PICK k \in Made : {n, m} = {k, Parent(k)}
        BY <1>6, <3>3
      <4> QED
        BY <4>1
    <3> QED
      BY <3>1, <3>2, <3>3
  <2>2. NeighboursOf(n) \subseteq Made
    BY NeighboursAtEnd
  <2> QED
    BY <2>1, <2>2
<1> QED
  BY <1>1, <1>2, <1>3, <1>4, <1>7, <1>8, EndIsConnected DEF TreeIsBuilt

-----------------------------------------------------------------------------
(* Before anything is joined, every node is a leaf and active.             *)
LEMMA TreeInvInit == TreeInit => TreeInv
<1> SUFFICES ASSUME TreeInit PROVE TreeInv
  OBVIOUS
<1>1. MapInv
  BY InvInit
<1>2. /\ num_all_nodes = num_taxa /\ num_active_nodes = num_taxa
      /\ num_taxa \in Nat /\ num_taxa >= 2
      /\ Positions = Made /\ Leaves = Made /\ Internal = {}
  BY <1>1 DEF TreeInit, MapInv, Counts, Positions, Made, Leaves, Internal
<1>3. Made \subseteq AllNodes
  BY <1>1, Bounds DEF MapInv, TreeInit, Positions, Made, AllNodes
<1>4. \A k \in Made : active_node_map[k] = k
  BY <1>2, <1>3 DEF TreeInit, Made
<1>5. /\ neighbors \in [AllNodes -> [0 .. 2 -> AllNodes \cup {NoNode}]]
      /\ \A n \in AllNodes : /\ neighbors[n][0] = NoNode
                             /\ neighbors[n][1] = NoNode
                             /\ neighbors[n][2] = NoNode
  BY DEF TreeInit, NoNeighbors
<1>6. Shape
  BY <1>2, <1>3, <1>5 DEF Shape, HasParent, Parent
<1>7. EdgesAreLinks
  <2>1. edges = <<>> /\ edges \in Seq({})
    BY DEF TreeInit
  <2> QED
    BY <1>2, <1>3, <1>5, <2>1 DEF EdgesAreLinks, HasParent, Parent
<1>8. MapHoldsRoots
  <2>1. Active = Made
    BY <1>2, <1>4 DEF Active
  <2>2. 0 \in Made /\ 1 \in Made
    BY <1>2 DEF Made
  <2> QED
    BY <1>3, <1>4, <1>5, <2>1, <2>2 DEF MapHoldsRoots, HasParent, Parent
<1>9. stage = "building"
  BY DEF TreeInit
<1> QED
  BY <1>1, <1>6, <1>7, <1>8, <1>9 DEF TreeInv

(* An iteration joins two nodes without a parent; the last call the rest.  *)
LEMMA TreeInvStep ==
  TreeInv /\ MinimumIsFound /\ [taxa_helper]_treeVars => TreeInv'
<1> SUFFICES ASSUME TreeInv, MinimumIsFound, [taxa_helper]_treeVars
             PROVE  TreeInv'
  OBVIOUS
<1>1. MapInv /\ MapInv'
  BY InvStep DEF TreeInv
<1>2. CASE Join
  <2>1. /\ stage = "building" /\ num_active_nodes >= 3 /\ stage' = stage
        /\ JoinTwo(Chosen)
    BY <1>2 DEF Join, JoinTwo
  <2>2. Shape /\ EdgesAreLinks /\ MapHoldsRoots
    BY <2>1 DEF TreeInv
  <2>3. RightChoice(Chosen)
    BY <1>1, <2>1, <2>2, ChosenIsRight
  <2>4. Shape' /\ EdgesAreLinks' /\ MapHoldsRoots'
    BY <1>1, <2>1, <2>2, <2>3, ShapeAfter, EdgesAfter, RootsAfter
  <2> QED
    BY <1>1, <2>1, <2>4 DEF TreeInv
<1>3. CASE Finish
  <2>1. /\ stage = "building" /\ stage' = "built"
        /\ UNCHANGED num_all_nodes
    BY <1>3 DEF Finish, JoinLast
  <2>2. Shape /\ EdgesAreLinks /\ MapHoldsRoots
    BY <2>1 DEF TreeInv
  <2>3. \E a, b \in Made : JoinedUp(a, b)'
    BY <1>1, <1>3, <2>2, FinishJoins
  <2>4. Made' = Made
    BY <2>1 DEF Made
  <2> QED
    BY <1>1, <2>1, <2>3, <2>4 DEF TreeInv
<1>4. CASE UNCHANGED treeVars
  <2>1. UNCHANGED <<stage, num_taxa, num_all_nodes, num_active_nodes,
                    active_node_map, neighbors, edges>>
    BY <1>4 DEF treeVars
  <2>2. Made' = Made /\ Leaves' = Leaves /\ Internal' = Internal
    BY <2>1 DEF Made, Leaves, Internal
  <2>4. Shape => Shape'
    BY <2>1, <2>2 DEF Shape, Parent, HasParent
  <2>5. EdgesAreLinks => EdgesAreLinks'
    BY <2>1, <2>2 DEF EdgesAreLinks, IsEdge, Ends, Parent, HasParent
  <2>6. MapHoldsRoots => MapHoldsRoots'
    BY <2>1, <2>2 DEF MapHoldsRoots, Active, Positions, Parent, HasParent
  <2>7. ASSUME NEW a, NEW b, JoinedUp(a, b)
        PROVE  JoinedUp(a, b)'
    <3>1. \A n : Parent(n)' = Parent(n)
      BY <2>1 DEF Parent
    <3>2. \A n, m : IsEdge(n, m)' = IsEdge(n, m)
      BY <2>1 DEF IsEdge, Ends
    <3>3. \A i \in DOMAIN edges' : \E n \in Made' :
            (Ends(edges[i]) = {n, Parent(n)})'
      BY <2>1, <2>2, <2>7, <3>1 DEF JoinedUp, Ends
    <3>4. \A n \in Made' : IsEdge(n, Parent(n))'
      BY <2>1, <2>2, <2>7 DEF JoinedUp, IsEdge, Ends, Parent
    <3> QED
      BY <2>1, <2>2, <2>7, <3>3, <3>4 DEF JoinedUp, Parent
  <2> QED
    BY <1>1, <2>1, <2>2, <2>4, <2>5, <2>6, <2>7 DEF TreeInv
<1> QED
  BY <1>2, <1>3, <1>4 DEF taxa_helper

(* Nobody is in the map twice, so it holds num_active_nodes nodes.         *)
LEMMA ActiveCount ==
  ASSUME MapInv
  PROVE  Cardinality(Active) = num_active_nodes
<1>1. num_active_nodes \in Nat /\ num_active_nodes >= 2
  BY DEF MapInv, Counts
<1>2. IsFiniteSet(Positions) /\ Cardinality(Positions) = num_active_nodes
  BY <1>1, FS_Interval DEF Positions
<1> DEFINE h == [k \in Positions |-> active_node_map[k]]
<1>3. \A i, j \in Positions : i # j => active_node_map[i] # active_node_map[j]
  BY Bounds DEF MapInv, MapIsTidy, Positions
<1>4. h \in Bijection(Positions, Active)
  BY <1>3 DEF Bijection, Injection, Surjection, IsInjective, Active
<1> QED
  BY <1>2, <1>4, FS_Bijection DEF ExistsBijection

(* What the invariant says of the two properties.                          *)
LEMMA InvMeansRoots == TreeInv => ActiveNodesAreRoots
BY ActiveCount DEF TreeInv, ActiveNodesAreRoots, MapHoldsRoots, HasParent, Parent

(* While the tree is being built there is nothing to show.                 *)
LEMMA InvMeansTree == TreeInv => TreeIsBuilt
<1>1. CASE stage = "built"
  BY <1>1, EndIsTree DEF TreeInv
<1>2. CASE stage # "built"
  BY <1>2 DEF TreeIsBuilt
<1> QED
  BY <1>1, <1>2

(* What is printed and what is linked agree, and only the active nodes are *)
(* without a parent.  The hypothesis is MinimumIsFound: without it, nodes  *)
(* 0 and 1 are joined although they may have been joined before.           *)
THEOREM TreeInvHolds == TreeSpec /\ []MinimumIsFound => []TreeInv
BY TreeInvInit, TreeInvStep, PTL DEF TreeSpec

(* No node is joined twice and none is forgotten, for any number of taxa   *)
(* and any distances, as long as each iteration after the first finds a    *)
(* minimum.                                                                *)
THEOREM RootsAreActive == TreeSpec /\ []MinimumIsFound => []ActiveNodesAreRoots
BY TreeInvHolds, InvMeansRoots, PTL

(* Under the same hypothesis, build_taxonomy makes the tree its comment    *)
(* promises: connected, with 2 * N - 3 edges, one neighbour for each leaf  *)
(* and three for each other node, which are what the printed edges say.    *)
THEOREM TreesAreBuilt == TreeSpec /\ []MinimumIsFound => []TreeIsBuilt
BY TreeInvHolds, InvMeansTree, PTL
=============================================================================
