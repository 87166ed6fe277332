-------------------------------- MODULE Philo --------------------------------
(***************************************************************************)
(* The program of hw1: main() reads a matrix of distances from a text of   *)
(* comma separated values (read_distance_data), builds the tree            *)
(* (PhiloTree) and prints it in Newick format (emit_newick_format).        *)
(*                                                                         *)
(* The text is a sequence of characters, read one at a time.  Distances    *)
(* are whole numbers here: the decimal point is left out, and so is option *)
(* -m, which prints the matrix.  Texts with more fields in a line than the *)
(* arrays have room for are not considered.                                *)
(***************************************************************************)
EXTENDS PhiloTree, SequencesExt

CONSTANTS Texts,      \* what is read
          Outliers,   \* the values of outlier_name
          NoOutlier,  \* ... and when option -o is not given
          INPUT_MAX   \* the most characters a field may have

ASSUME PhiloTextAssumption ==
  /\ \A text \in Texts : text \in Seq(STRING)
  /\ INPUT_MAX \in Nat \ {0}

VARIABLES
  input,           \* the text
  at,              \* how many of its characters have been read
  input_buffer,    \* the characters of the field that is being read
  taxa_in_line,    \* fields of this line that have ended
  num_rows,        \* fields of the first line
  rows_remaining,  \* lines still to be read
  first_line,      \* whether this is the first line
  name_num,        \* names read from it
  row, col,        \* the next entry of the matrix
  node_names,      \* the name of each node
  outlier_name,    \* option -o
  out              \* what emit_newick_format has printed

readVars == <<input, at, input_buffer, taxa_in_line, num_rows, rows_remaining,
              first_line, name_num, row, col, node_names>>
vars == <<treeVars, readVars, outlier_name, out>>

Init ==
  /\ stage = "reading"
  /\ num_taxa = 0 /\ num_all_nodes = 0 /\ num_active_nodes = 0
  /\ active_node_map = ZeroMap
  /\ distances = NoDistances
  /\ neighbors = NoNeighbors
  /\ edges = <<>>
  /\ input \in Texts
  /\ at = 0
  /\ input_buffer = <<>>
  /\ taxa_in_line = 0 /\ num_rows = 0 /\ rows_remaining = 1
  /\ first_line = TRUE
  /\ name_num = 0 /\ row = 0 /\ col = 0
  /\ node_names = [n \in AllNodes |-> <<>>]
  /\ outlier_name \in Outliers
  /\ out = <<>>

-----------------------------------------------------------------------------
(* read_distance_data.                                                     *)

Digits == <<"0", "1", "2", "3", "4", "5", "6", "7", "8", "9">>
IsNumber(field) == field # <<>> /\ ToSet(field) \subseteq ToSet(Digits)
DigitValue(c) == (CHOOSE d \in 1 .. 10 : Digits[d] = c) - 1

(* validateNum.                                                            *)
Value(field) ==
  FoldLeft(LAMBDA n, c : 10 * n + DigitValue(c), 0, field) * Scale

AtEnd == at = Len(input)
NextIs(c) == stage = "reading" /\ ~ AtEnd /\ input[at + 1] = c

(* What no step of the reader changes, and what only the end of a line or  *)
(* of a field changes.                                                     *)
Kept == UNCHANGED <<active_node_map, neighbors, edges, input, outlier_name,
                    out>>
SameLine == UNCHANGED <<num_taxa, num_all_nodes, num_active_nodes, num_rows,
                        rows_remaining, first_line, row>>
SameField == UNCHANGED <<distances, taxa_in_line, node_names, name_num, col>>

(* fgetc returns c, and reading goes on or ends.                           *)
Reads(c) == NextIs(c) /\ at' = at + 1 /\ Kept /\ UNCHANGED stage

ReadFails ==
  /\ stage' = "unread"
  /\ Kept /\ SameLine /\ SameField
  /\ UNCHANGED <<at, input_buffer>>

room == Len(input_buffer) < INPUT_MAX

(* Any character but the special ones.                                     *)
ReadChar(c) ==
  /\ c \notin {"#", "\n", ","}
  /\ Reads(c) /\ SameLine /\ SameField
  /\ room
  /\ input_buffer' = Append(input_buffer, c)

FieldTooLong(c) ==
  /\ c \notin {"#", "\n", ","}
  /\ NextIs(c)
  /\ ~ room
  /\ ReadFails

(* The newlines behind the character that is read next.                    *)
NewlinesAhead == {n \in at + 2 .. Len(input) : input[n] = "\n"}

(* '#', wherever it is: everything up to the next newline is skipped, and  *)
(* the newline too.                                                        *)
ReadComment ==
  /\ NextIs("#")
  /\ NewlinesAhead # {}
  /\ at' = Min(NewlinesAhead)
  /\ Kept /\ SameLine /\ SameField
  /\ UNCHANGED <<stage, input_buffer>>

(* A comment that the end of the text ends: the loop that skips it does    *)
(* not stop at EOF.                                                        *)
CommentNeverEnds ==
  /\ NextIs("#")
  /\ NewlinesAhead = {}
  /\ stage' = "hung"
  /\ Kept /\ SameLine /\ SameField
  /\ UNCHANGED <<at, input_buffer>>

(* The name in the buffer becomes the next name.                           *)
NameRead ==
  /\ node_names' = [node_names EXCEPT ![name_num] = input_buffer]
  /\ name_num' = name_num + 1

(* The number in the buffer, the next one of this line, is stored.         *)
NumberRead ==
  /\ IsNumber(input_buffer)
  /\ distances' = [distances EXCEPT ![col][row] = Value(input_buffer)]

(* ','                                                                     *)
Comma ==
  /\ Reads(",") /\ SameLine
  /\ rows_remaining > 0
  /\ taxa_in_line' = taxa_in_line + 1
  /\ input_buffer' = <<>>

CommaAfterName ==
  /\ Comma
  /\ input_buffer # <<>> /\ first_line
  /\ NameRead
  /\ UNCHANGED <<distances, col>>

CommaAfterRowName ==
  /\ Comma
  /\ input_buffer # <<>> /\ ~ first_line /\ taxa_in_line = 0
  /\ input_buffer = node_names[row]
  /\ UNCHANGED <<distances, col, node_names, name_num>>

CommaAfterNumber ==
  /\ Comma
  /\ input_buffer # <<>> /\ ~ first_line /\ taxa_in_line > 0
  /\ NumberRead
  /\ col' = col + 1
  /\ UNCHANGED <<node_names, name_num>>

(* An empty field is counted and otherwise ignored.                        *)
CommaAfterNothing ==
  /\ Comma
  /\ input_buffer = <<>>
  /\ UNCHANGED <<distances, col, node_names, name_num>>

(* The row has another name, or no number where one should be.             *)
CommaFails ==
  /\ NextIs(",") /\ rows_remaining > 0
  /\ input_buffer # <<>> /\ ~ first_line
  /\ IF taxa_in_line = 0 THEN input_buffer # node_names[row]
                         ELSE ~ IsNumber(input_buffer)
  /\ ReadFails

(* A line too many, if it has a comma: the rest of the text is skipped.    *)
CommaAfterLastRow ==
  /\ NextIs(",") /\ rows_remaining <= 0
  /\ at' = Len(input)
  /\ Kept /\ SameLine /\ SameField
  /\ UNCHANGED <<stage, input_buffer>>

(* '\n'; at the end of a text with lines missing, one is put back.         *)
NewlineIsNext ==
  \/ NextIs("\n")
  \/ stage = "reading" /\ AtEnd /\ rows_remaining > 0

Newline ==
  /\ NewlineIsNext
  /\ at' = Min({at + 1, Len(input)})
  /\ taxa_in_line' = 0
  /\ input_buffer' = <<>>
  /\ first_line' = FALSE
  /\ Kept
  /\ UNCHANGED stage

(* The end of the first line says how many taxa there are.                 *)
HeaderEnds ==
  /\ Newline
  /\ first_line
  /\ num_rows' = taxa_in_line + 1
  /\ rows_remaining' = taxa_in_line
  /\ num_taxa' = taxa_in_line
  /\ num_all_nodes' = taxa_in_line
  /\ num_active_nodes' = taxa_in_line
  /\ NameRead
  /\ UNCHANGED <<distances, row, col>>

(* Mutant: the next row does not begin in column 0.                        *)
NextRowSameColumn == row' = row + 1 /\ UNCHANGED col

NextRow == row' = row + 1 /\ col' = 0

RowEnds ==
  /\ Newline
  /\ ~ first_line /\ taxa_in_line + 1 = num_rows /\ rows_remaining > 0
  /\ NumberRead
  /\ NextRow
  /\ rows_remaining' = rows_remaining - 1
  /\ UNCHANGED <<num_taxa, num_all_nodes, num_active_nodes, num_rows,
                 node_names, name_num>>

(* A line with too few or too many fields, with no number at its end, or   *)
(* after the last row.                                                     *)
RowFails ==
  /\ NewlineIsNext /\ ~ first_line
  /\ \/ taxa_in_line + 1 # num_rows
     \/ ~ IsNumber(input_buffer)
     \/ rows_remaining <= 0
  /\ ReadFails

(* The map is the identity up to the first node without a name.            *)
Unnamed == {n \in AllNodes \ {0} : node_names[n] = <<>>}

(* checkIdentityMatrix, whose result is 0 for every text with a taxon,     *)
(* symmetric or not, and then build_taxonomy, which has nothing to do for  *)
(* a single one.                                                           *)
checkIdentityMatrix == IF num_rows = 1 /\ distances[0][0] = 0 THEN 1 ELSE 0

ReadDone ==
  /\ stage = "reading" /\ AtEnd /\ rows_remaining <= 0
  /\ active_node_map' = [k \in AllNodes |-> IF k < Min(Unnamed) THEN k ELSE 0]
  /\ stage' = IF checkIdentityMatrix # 0 THEN "unread"
              ELSE IF num_taxa = 1 THEN "built" ELSE "building"
  /\ SameLine /\ SameField
  /\ UNCHANGED <<at, input_buffer, input, neighbors, edges, outlier_name, out>>

-----------------------------------------------------------------------------
(* emit_newick_format.                                                     *)

(* What is printed: nodes, parentheses and commas.                         *)
Open == -2
Close == -3
Separator == -4

If(condition, token) == IF condition THEN <<token>> ELSE <<>>

(* recurse(node, prev, og): the subtree of node, seen from prev.  A node   *)
(* with two children gets a comma after its first subtree.  (The last leaf *)
(* is not treated as one, which makes no difference.)                      *)
RECURSIVE recurse(_, _, _)
recurse(node, prev, og) ==
  LET goes(k) == neighbors[node][k] \notin {NoNode, prev}
      two == NoNode \notin {neighbors[node][1], neighbors[node][2]}
      first(k) == \A l \in 0 .. k - 1 : ~ goes(l)
      subtree(k, after) ==
        IF goes(k) THEN If(first(k), Open)
                          \o recurse(neighbors[node][k], node, og) \o after
                   ELSE <<>>
      comma(k) == If(two /\ first(k), Separator)
      close(k) == If(~ (two /\ first(k)), Close)
  IN  IF node < num_taxa - 1 THEN <<node>>
      ELSE subtree(0, comma(0))
             \o subtree(1, (IF prev # og THEN close(1) ELSE <<>>) \o comma(1))
             \o subtree(2, close(2))
             \o <<node>>
             \o If(two /\ first(2), Separator)

(* The outlier: the leaf of that name, or the first one with the greatest  *)
(* row sum.                                                                *)
NamedSo == {n \in Leaves : node_names[n] = outlier_name}
total(n) == MapThenSumSet(LAMBDA m : distances[n][m], Leaves)
FarthestLeaves == {n \in Leaves : \A m \in Leaves : total(m) <= total(n)}
outlier_node == IF outlier_name = NoOutlier THEN Min(FarthestLeaves)
                ELSE Min(NamedSo)

(* Mutant: the tree is printed from the outlier on.                        *)
PrintFromOutlier(o) == recurse(o, NoNode, neighbors[o][0])

PrintFromRoot(o) == recurse(neighbors[o][0], o, neighbors[o][0])

EmitStep(to) ==
  /\ stage = "built"
  /\ stage' = to
  /\ UNCHANGED <<num_taxa, num_all_nodes, num_active_nodes, active_node_map,
                 distances, neighbors, edges, readVars, outlier_name>>

Emit ==
  /\ EmitStep("done")
  /\ outlier_name = NoOutlier \/ NamedSo # {}
  /\ neighbors[outlier_node][0] # NoNode
  /\ out' = PrintFromRoot(outlier_node)

NoSuchOutlier ==
  /\ EmitStep("failed")
  /\ outlier_name # NoOutlier /\ NamedSo = {}
  /\ UNCHANGED out

(* A single taxon has no neighbour, and recurse dereferences NULL.         *)
EmitCrashes ==
  /\ EmitStep("crashed")
  /\ outlier_name = NoOutlier \/ NamedSo # {}
  /\ neighbors[outlier_node][0] = NoNode
  /\ UNCHANGED out

-----------------------------------------------------------------------------
read_distance_data ==
  \/ \E c \in ToSet(input) : ReadChar(c) \/ FieldTooLong(c)
  \/ ReadComment
  \/ CommentNeverEnds
  \/ CommaAfterName
  \/ CommaAfterRowName
  \/ CommaAfterNumber
  \/ CommaAfterNothing
  \/ CommaFails
  \/ CommaAfterLastRow
  \/ HeaderEnds
  \/ RowEnds
  \/ RowFails
  \/ ReadDone

build_taxonomy == taxa_helper /\ UNCHANGED <<readVars, outlier_name, out>>

emit_newick_format == Emit \/ NoSuchOutlier \/ EmitCrashes

Next == read_distance_data \/ build_taxonomy \/ emit_newick_format

Spec == Init /\ [][Next]_vars
-----------------------------------------------------------------------------
(* The text as the documentation of read_distance_data describes it: lines *)
(* of fields, of which one is still open.                                  *)
AddChar(table, c) ==
  LET k == Len(table)
      m == Len(table[k])
  IN  CASE c = "\n" -> Append(table, << <<>> >>)
        [] c = ","  -> [table EXCEPT ![k] = Append(@, <<>>)]
        [] OTHER    -> [table EXCEPT ![k][m] = Append(@, c)]

Table == FoldLeft(AddChar, << << <<>> >> >>, input)

(* Comments, which the table does not know, and empty fields, which are    *)
(* accepted against the documentation, are left aside.                     *)
Plain(t) ==
  /\ "#" \notin ToSet(input)
  /\ t[1][1] = <<>>
  /\ \A i \in DOMAIN t : \A j \in DOMAIN t[i] :
       \/ t[i][j] # <<>>
       \/ i = 1 /\ j = 1
       \/ i = Len(t) /\ Len(t[i]) = 1

(* Its first n + 1 lines are a matrix for n taxa.                          *)
WellFormed(t, n) ==
  /\ n > 0 /\ Len(t) > n
  /\ \A i \in 1 .. n + 1 : Len(t[i]) = n + 1
  /\ \A i \in 2 .. n + 1 : /\ t[i][1] = t[1][i]
                           /\ \A j \in 2 .. n + 1 : IsNumber(t[i][j])
  /\ \A i, j \in 1 .. n + 1 : Len(t[i][j]) <= INPUT_MAX

IsRead(t, n) ==
  /\ num_taxa = n
  /\ \A i \in 1 .. n :
       /\ node_names[i - 1] = t[1][i + 1]
       /\ active_node_map[i - 1] = i - 1
       /\ \A j \in 1 .. n : distances[j - 1][i - 1] = Value(t[i + 1][j + 1])

(* A text of the documented form that no other line follows is read, each  *)
(* name and distance to its place; and a text is read only when its first  *)
(* lines have that form, wherever it breaks off or has a character too     *)
(* many, too few or wrong.                                                 *)
ReadsWhatIsGiven ==
  stage \in {"unread", "building", "built"} /\ edges = <<>> /\ Plain(Table) =>
    LET n == Len(Table[1]) - 1
    IN  IF stage = "unread"
          THEN WellFormed(Table, n) =>
                 Len(Table) > n + 1 /\ Table[n + 2] # << <<>> >>
          ELSE WellFormed(Table, n) /\ IsRead(Table, n)

-----------------------------------------------------------------------------
(* The lengths of the ways from n to m that do not begin with prev.        *)
RECURSIVE Ways(_, _, _)
Ways(n, m, prev) ==
  IF n = m THEN {0}
  ELSE UNION {{distances[n][l] + w : w \in Ways(l, m, n)} :
                l \in NeighboursOf(n) \ {prev}}

(* The distances are those of some tree with edges between the leaves.     *)
FourPoints(i, j, k, l) ==
  LET D == distances
  IN  \/ D[i][j] + D[k][l] <= D[i][k] + D[j][l]
      \/ D[i][j] + D[k][l] <= D[i][l] + D[j][k]

Additive ==
  /\ \A i, j \in Leaves : /\ distances[i][j] = distances[j][i]
                          /\ distances[i][j] = 0 <=> i = j
  /\ \A i, j, k, l \in Leaves : FourPoints(i, j, k, l)

(* When the distances are those of a tree, the method finds it: along the  *)
(* edges that were made, any two leaves are as far apart as in the input.  *)
AdditiveTreeIsFound ==
  stage = "built" /\ num_taxa > 1 /\ Additive =>
    \A i, j \in Leaves : Ways(i, j, NoNode) = {distances[i][j]}

Count(token) == Cardinality({k \in DOMAIN out : out[k] = token})

(* What is printed names every node of the tree but the outlier, once.     *)
NewickNamesAll ==
  stage = "done" =>
    \A n \in Made : Count(n) = IF n = outlier_node THEN 0 ELSE 1
=============================================================================
