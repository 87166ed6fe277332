------------------------------- MODULE MCPhilo -------------------------------
(* Texts for Philo.                                                        *)
EXTENDS Philo

CONSTANTS Most3, Most4  \* the largest distances of three and of four taxa

Name(i) == <<"a", "b", "c", "d", "e">>[i]
Digit(d) == Digits[d + 1]

(* The text of a matrix.                                                   *)
Line(fields) == FoldLeft(LAMBDA text, f : text \o <<",">> \o f, <<>>, fields)
Header(n) == Line([i \in 1 .. n |-> <<Name(i)>>])
Row(m, i) == <<Name(i)>> \o Line([j \in DOMAIN m |-> <<Digit(m[i][j])>>])
Text(m) ==
  Header(Len(m)) \o
    FoldLeft(LAMBDA text, i : text \o <<"\n">> \o Row(m, i), <<>>,
             [i \in DOMAIN m |-> i]) \o <<"\n">>

Matrix(n, D(_, _)) ==
  [i \in 1 .. n |-> [j \in 1 .. n |-> IF i = j THEN 0 ELSE D(i, j)]]

Symmetric(n, most) ==
  {Matrix(n, LAMBDA i, j : d[{i, j}]) : d \in [kSubset(2, 1 .. n) -> 1 .. most]}

(* Those that are not symmetric are read, too, and zeros between taxa.     *)
General(n, most) ==
  {Matrix(n, LAMBDA i, j : d[<<i, j>>]) :
     d \in [{p \in (1 .. n) \X (1 .. n) : p[1] # p[2]} -> 0 .. most]}

(* Two taxa, with one character too many, too few or another.              *)
Small == Text(<< <<0, 3>>, <<3, 0>> >>)
Edited ==
  {RemoveAt(Small, k) : k \in DOMAIN Small}
  \cup {SubSeq(Small, 1, k) : k \in 0 .. Len(Small)}
  \cup {InsertAt(Small, k, c) : k \in 1 .. Len(Small) + 1,
                                c \in {"#", "\n", ",", "1", "a"}}
  \cup {[Small EXCEPT ![k] = c] : k \in DOMAIN Small,
                                  c \in {"#", "\n", ",", "1", "a"}}

(* A tree of five taxa, and a single taxon.                                *)
Five == << <<0, 5, 5, 3, 3>>, <<5, 0, 6, 6, 6>>, <<5, 6, 0, 6, 6>>,
           <<3, 6, 6, 0, 2>>, <<3, 6, 6, 2, 0>> >>

MCTexts == Edited \cup {Text(<< <<0>> >>), Text(Five)}
           \cup {Text(m) : m \in General(3, Most3) \cup Symmetric(4, Most4)}
MCOutliers == {NoOutlier, <<"a">>, <<"b">>}
=============================================================================
