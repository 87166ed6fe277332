--------------------------- MODULE GradeSortProofs ---------------------------
(***************************************************************************)
(* What the quicksort of sort.c does to a table, for every size of table,  *)
(* every content and every result of the comparison, and what sortrosters  *)
(* does to the lists it copies into the table and links again.             *)
(*                                                                         *)
(* The argument for the table: students at two places that no range on the *)
(* stack holds together are in order already.  While a range is            *)
(* partitioned students move within that range only; when it is divided,   *)
(* the pivot is between its parts.  At the end there is no range, so all   *)
(* are in order.                                                           *)
(*                                                                         *)
(* For the lists: a walk over a list of different students sees each of    *)
(* them once, so the table is the list backwards; what is linked is the    *)
(* table, and no other list is touched.                                    *)
(***************************************************************************)
EXTENDS GradeSort, FiniteSetTheorems, WellFoundedInduction, TLAPS

Table(n) == 0 .. n - 1

(* sorttable(stab, 0, n), called on a table, and all that it does.         *)
SortTable(n, given, rank) ==
  /\ stab = given /\ compare = rank
  /\ calls = Call(0, n)
  /\ at = "table"

TableNext == StartPartition \/ PutHigh \/ PutLow \/ EndPartition

SortSpec(n, given, rank) == SortTable(n, given, rank) /\ [][TableNext]_sortVars

-----------------------------------------------------------------------------
(* The invariant.                                                          *)
(* The ranges there are.                                                   *)
PlacesFromTo(n) == (0 .. n) \X (0 .. n)

Types(n) ==
  /\ stab \in [Table(n) -> Student]
  /\ compare \in [Student -> Int]
  /\ calls \in Seq(PlacesFromTo(n))
  /\ at \in {"table", "partition"}

(* The ranges on the stack are not empty, and are apart and in order.      *)
RangesAreApart ==
  /\ \A k \in 1 .. Len(calls) : calls[k][1] < calls[k][2]
  /\ \A j, k \in 1 .. Len(calls) : j < k => calls[j][2] <= calls[k][1]

(* Below l is what is not above the pivot, from h on what is not below it. *)
PartitionGoesOn ==
  at = "partition" =>
    /\ calls # <<>>
    /\ part.l \in Low .. part.h /\ part.h \in part.l .. High
    /\ part.alt \in {-1, 1} /\ part.pivot \in Student
    /\ \A i \in Low .. part.l - 1 : Compare(stab[i], part.pivot) <= 0
    /\ \A i \in part.h .. High - 1 : Compare(stab[i], part.pivot) >= 0

Together(i, j) ==
  \E k \in 1 .. Len(calls) : calls[k][1] <= i /\ j < calls[k][2]

OrderedApart(n) ==
  \A i, j \in Table(n) :
    i < j /\ ~Together(i, j) => Compare(stab[i], stab[j]) <= 0

(* Each place of the table holds what one place of the given table held,   *)
(* each place once.                                                        *)
Rearranges(n, given) ==
  \E p \in [Table(n) -> Table(n)] :
    /\ \A i, j \in Table(n) : p[i] = p[j] => i = j
    /\ \A i \in Table(n) : stab[i] = given[p[i]]

SortInv(n, given) ==
  /\ Types(n)
  /\ RangesAreApart
  /\ PartitionGoesOn
  /\ OrderedApart(n)
  /\ Rearranges(n, given)

-----------------------------------------------------------------------------
(* The range in hand lies in the table, and no other reaches into it.      *)
LEMMA RangeInHand ==
  ASSUME NEW n \in Nat, Types(n), RangesAreApart, calls # <<>>
  PROVE  /\ Low \in 0 .. n /\ High \in 0 .. n /\ Low < High
         /\ Len(calls) \in Nat /\ Len(calls) >= 1
         /\ Low = calls[1][1] /\ High = calls[1][2]
         /\ \A k \in 2 .. Len(calls) :
              calls[k] \in PlacesFromTo(n) /\ High <= calls[k][1]
PROOF
<1>1. /\ Len(calls) \in Nat /\ Len(calls) >= 1
      /\ Head(calls) = calls[1]
      /\ \A k \in 1 .. Len(calls) : calls[k] \in PlacesFromTo(n)
  BY DEF Types
<1>2. calls[1][1] \in 0 .. n /\ calls[1][2] \in 0 .. n
  BY <1>1 DEF PlacesFromTo
<1>3. QED
  BY <1>1, <1>2 DEF RangesAreApart, Low, High

LEMMA Starts ==
  ASSUME NEW n \in Nat, NEW given \in [Table(n) -> Student],
         NEW rank \in [Student -> Int], SortTable(n, given, rank)
  PROVE  SortInv(n, given)
PROOF
<1> USE DEF SortTable
<1>1. CASE n = 0
  <2>1. calls = <<>>
    BY <1>1 DEF Call
  <2>2. Rearranges(n, given)
    <3>1. [i \in Table(n) |-> i] \in [Table(n) -> Table(n)]
      OBVIOUS
    <3>2. QED
      BY <3>1 DEF Rearranges
  <2>3. Types(n) /\ RangesAreApart
    <3>1. Len(<<>>) = 0 /\ <<>> \in Seq(PlacesFromTo(n))
      OBVIOUS
    <3>2. Len(calls) = 0 /\ calls \in Seq(PlacesFromTo(n))
      BY <2>1, <3>1, Zenon
    <3>3. QED
      BY <3>2 DEF Types, RangesAreApart
  <2>4. PartitionGoesOn /\ OrderedApart(n)
    BY <1>1 DEF PartitionGoesOn, OrderedApart, Table
  <2>5. QED
    BY <2>2, <2>3, <2>4 DEF SortInv
<1>2. CASE n # 0
  <2>1. calls = << <<0, n>> >>
    BY <1>2 DEF Call
  <2>2. Types(n)
    <3>1. <<0, n>> \in PlacesFromTo(n)
      BY DEF PlacesFromTo
    <3>2. << <<0, n>> >> \in Seq(PlacesFromTo(n))
      <4> HIDE DEF SortTable
      <4>1. QED
        BY <3>1
    <3>3. QED
      BY <2>1, <3>2 DEF Types
  <2>3. RangesAreApart
    BY <1>2, <2>1 DEF RangesAreApart
  <2>4. PartitionGoesOn
    BY DEF PartitionGoesOn
  <2>5. OrderedApart(n)
    <3>1. SUFFICES ASSUME NEW i \in Table(n), NEW j \in Table(n)
                   PROVE  Together(i, j)
      BY DEF OrderedApart
    <3>2. Len(calls) = 1 /\ calls[1][1] <= i /\ j < calls[1][2]
      BY <2>1 DEF Table
    <3>3. QED
      BY <3>2 DEF Together
  <2>6. Rearranges(n, given)
    <3>1. [i \in Table(n) |-> i] \in [Table(n) -> Table(n)]
      OBVIOUS
    <3>2. QED
      BY <3>1 DEF Rearranges
  <2>7. QED
    BY <2>2, <2>3, <2>4, <2>5, <2>6 DEF SortInv
<1>3. QED
  BY <1>1, <1>2

-----------------------------------------------------------------------------
LEMMA StartPartitionKeeps ==
  ASSUME NEW n \in Nat, NEW given \in [Table(n) -> Student],
         SortInv(n, given), StartPartition
  PROVE  SortInv(n, given)'
PROOF
<1> USE DEF SortInv, StartPartition
<1>1. /\ Low \in 0 .. n /\ High \in 0 .. n /\ Low < High
  BY RangeInHand
<1>2. (Low + High) \div 2 \in Table(n)
  BY <1>1 DEF Table
<1>3. PartitionGoesOn'
  <2>1. /\ part'.l = Low /\ part'.h = High /\ part'.alt = 1
        /\ part'.pivot = stab[(Low + High) \div 2]
    OBVIOUS
  <2>2. Low' = Low /\ High' = High
    BY DEF Low, High
  <2>3. part'.pivot \in Student
    BY <1>2, <2>1 DEF Types
  <2>4. calls' # <<>>
    OBVIOUS
  <2>5. QED
    BY <1>1, <2>1, <2>2, <2>3, <2>4 DEF PartitionGoesOn
<1>4. /\ Types(n)' /\ RangesAreApart' /\ OrderedApart(n)'
      /\ Rearranges(n, given)'
  BY DEF Types, RangesAreApart, OrderedApart, Together, Rearranges, Compare
<1>5. QED
  BY <1>3, <1>4

LEMMA PutLowKeeps ==
  ASSUME NEW n \in Nat, NEW given \in [Table(n) -> Student],
         SortInv(n, given), PutLow
  PROVE  SortInv(n, given)'
PROOF
<1> USE DEF SortInv, PutLow
<1>1. /\ Low \in 0 .. n /\ High \in 0 .. n /\ Low < High
      /\ part.l \in Low .. part.h /\ part.h \in part.l .. High
      /\ part.alt \in {-1, 1} /\ part.pivot \in Student
      /\ part.l \in Table(n)
  <2>1. PartitionGoesOn /\ at = "partition" /\ calls # <<>>
    BY DEF PartitionGoesOn
  <2>2. Low \in 0 .. n /\ High \in 0 .. n /\ Low < High
    BY <2>1, RangeInHand
  <2>3. QED
    BY <2>1, <2>2 DEF PartitionGoesOn, Table
<1>2. Compare(stab[part.l], part.pivot) \in Int
  BY <1>1 DEF Types, Compare
<1>3. Compare(stab[part.l], part.pivot) <= 0
  BY <1>1, <1>2 DEF Side
<1>4. NextAlt \in {-1, 1}
  BY <1>1 DEF NextAlt
<1>5. /\ part'.l = part.l + 1 /\ part'.h = part.h
      /\ part'.alt = NextAlt /\ part'.pivot = part.pivot
  OBVIOUS
<1>6. PartitionGoesOn'
  <2>1. Low' = Low /\ High' = High /\ calls' = calls
    BY DEF Low, High
  <2>2. part'.l \in Low' .. part'.h /\ part'.h \in part'.l .. High'
    BY <1>1, <1>5, <2>1
  <2>3. ASSUME NEW i \in Low' .. part'.l - 1
        PROVE  Compare(stab[i], part.pivot) <= 0
    <3>1. CASE i = part.l
      BY <1>3, <3>1
    <3>2. CASE i # part.l
      <4>1. i \in Low .. part.l - 1
        BY <1>1, <1>5, <2>1, <3>2
      <4>2. QED
        BY <4>1 DEF PartitionGoesOn
    <3>3. QED
      BY <3>1, <3>2
  <2>4. \A i \in part'.h .. High' - 1 : Compare(stab[i], part.pivot) >= 0
    BY <1>5, <2>1 DEF PartitionGoesOn
  <2>5. calls' # <<>>
    BY <2>1 DEF PartitionGoesOn
  <2>6. \A s, t : Compare(s, t)' = Compare(s, t)
    BY DEF Compare
  <2>7. QED
    BY <1>1, <1>4, <1>5, <2>2, <2>3, <2>4, <2>5, <2>6 DEF PartitionGoesOn
<1>7. /\ Types(n)' /\ RangesAreApart' /\ OrderedApart(n)'
      /\ Rearranges(n, given)'
  BY DEF Types, RangesAreApart, OrderedApart, Together, Rearranges, Compare
<1>8. QED
  BY <1>6, <1>7

LEMMA PutHighKeeps ==
  ASSUME NEW n \in Nat, NEW given \in [Table(n) -> Student],
         SortInv(n, given), PutHigh
  PROVE  SortInv(n, given)'
PROOF
<1> USE DEF SortInv, PutHigh
<1> DEFINE last == part.h - 1
           moved(i) == CASE i = part.l -> last
                         [] i = last   -> part.l
                         [] OTHER      -> i
<1>1. /\ Low \in 0 .. n /\ High \in 0 .. n /\ Low < High
      /\ part.l \in Low .. part.h /\ part.h \in part.l .. High
      /\ part.alt \in {-1, 1} /\ part.pivot \in Student
      /\ part.l \in Table(n) /\ last \in Table(n)
  <2>1. PartitionGoesOn /\ at = "partition" /\ calls # <<>>
    BY DEF PartitionGoesOn
  <2>2. Low \in 0 .. n /\ High \in 0 .. n /\ Low < High
    BY <2>1, RangeInHand
  <2>3. QED
    BY <2>1, <2>2 DEF PartitionGoesOn, Table
<1>2. Compare(stab[part.l], part.pivot) \in Int
  BY <1>1 DEF Types, Compare
<1>3. Compare(stab[part.l], part.pivot) >= 0
  BY <1>1, <1>2 DEF Side
<1>4. NextAlt \in {-1, 1}
  BY <1>1 DEF NextAlt
<1>5. /\ part'.l = part.l /\ part'.h = last
      /\ part'.alt = NextAlt /\ part'.pivot = part.pivot
  OBVIOUS
<1>6. /\ calls' = calls /\ compare' = compare /\ at' = at
      /\ \A i, j : Together(i, j)' = Together(i, j)
      /\ \A s, t : Compare(s, t)' = Compare(s, t)
  BY DEF Together, Compare
<1>7. /\ stab' \in [Table(n) -> Student]
      /\ \A i \in Table(n) : moved(i) \in Table(n) /\ stab'[i] = stab[moved(i)]
  BY <1>1 DEF Types
<1>8. PartitionGoesOn'
  <2>1. Low' = Low /\ High' = High
    BY <1>6 DEF Low, High
  <2>2. part'.l \in Low' .. part'.h /\ part'.h \in part'.l .. High'
    BY <1>1, <1>5, <2>1
  <2>3. ASSUME NEW i \in Low' .. part'.l - 1
        PROVE  Compare(stab'[i], part.pivot) <= 0
    <3>1. i \in Low .. part.l - 1 /\ i \in Table(n) /\ moved(i) = i
      BY <1>1, <1>5, <2>1 DEF Table
    <3>2. QED
      BY <1>7, <3>1 DEF PartitionGoesOn
  <2>4. ASSUME NEW i \in part'.h .. High' - 1
        PROVE  Compare(stab'[i], part.pivot) >= 0
    <3>1. i \in last .. High - 1 /\ i \in Table(n)
      BY <1>1, <1>5, <2>1 DEF Table
    <3>2. CASE i = last
      <4>1. moved(i) = part.l
        BY <3>2
      <4>2. QED
        BY <1>3, <1>7, <3>1, <4>1
    <3>3. CASE i # last
      <4>1. i \in part.h .. High - 1 /\ moved(i) = i
        BY <1>1, <3>1, <3>3
      <4>2. QED
        BY <1>7, <3>1, <4>1 DEF PartitionGoesOn
    <3>4. QED
      BY <3>2, <3>3
  <2>5. calls' # <<>>
    BY <1>6 DEF PartitionGoesOn
  <2>6. QED
    BY <1>1, <1>4, <1>5, <1>6, <2>2, <2>3, <2>4, <2>5 DEF PartitionGoesOn
<1>9. OrderedApart(n)'
  <2>1. SUFFICES ASSUME NEW i \in Table(n), NEW j \in Table(n),
                        i < j, ~Together(i, j)
                 PROVE  moved(i) < moved(j) /\ ~Together(moved(i), moved(j))
    BY <1>6, <1>7 DEF OrderedApart
  <2> DEFINE In(k) == Low <= k /\ k < High
  <2>2. calls # <<>>
    BY DEF PartitionGoesOn
  <2>3. /\ Len(calls) \in Nat /\ Len(calls) >= 1
        /\ Low = calls[1][1] /\ High = calls[1][2]
        /\ \A k \in 2 .. Len(calls) :
             calls[k] \in PlacesFromTo(n) /\ High <= calls[k][1]
    BY <2>2, RangeInHand
  <2>4. \A k \in 2 .. Len(calls) : calls[k][1] \in Nat /\ calls[k][2] \in Nat
    BY <2>3 DEF PlacesFromTo
  <2>5. ~(In(i) /\ In(j))
    BY <2>1, <2>3 DEF Together
  <2>6. /\ In(i) <=> In(moved(i))
        /\ In(j) <=> In(moved(j))
        /\ ~In(i) => moved(i) = i
        /\ ~In(j) => moved(j) = j
        /\ moved(i) \in Nat /\ moved(j) \in Nat /\ i \in Nat /\ j \in Nat
    BY <1>1 DEF Table
  <2>7. moved(i) < moved(j)
    BY <1>1, <2>1, <2>5, <2>6
  <2>8. ASSUME NEW k \in 1 .. Len(calls),
               calls[k][1] <= moved(i), moved(j) < calls[k][2]
        PROVE  FALSE
    <3>1. CASE k = 1
      BY <1>1, <2>3, <2>5, <2>6, <2>7, <2>8, <3>1
    <3>2. CASE k # 1
      <4>1. k \in 2 .. Len(calls)
        BY <2>3, <3>2
      <4>2. High <= moved(i)
        BY <1>1, <2>3, <2>4, <2>6, <2>8, <4>1
      <4>3. ~In(i) /\ ~In(j)
        BY <1>1, <2>6, <2>7, <4>2
      <4>4. Together(i, j)
        BY <2>6, <2>8, <4>3 DEF Together
      <4>5. QED
        BY <2>1, <4>4
    <3>3. QED
      BY <3>1, <3>2
  <2>9. QED
    BY <2>7, <2>8 DEF Together
<1>10. Rearranges(n, given)'
  <2>1. PICK p \in [Table(n) -> Table(n)] :
          /\ \A i, j \in Table(n) : p[i] = p[j] => i = j
          /\ \A i \in Table(n) : stab[i] = given[p[i]]
    BY DEF Rearranges
  <2> DEFINE q == [i \in Table(n) |-> p[moved(i)]]
  <2>2. q \in [Table(n) -> Table(n)]
    BY <1>7
  <2>3. ASSUME NEW i \in Table(n), NEW j \in Table(n), q[i] = q[j]
        PROVE  i = j
    <3>1. moved(i) = moved(j)
      BY <1>7, <2>1, <2>3
    <3>2. QED
      BY <3>1
  <2>4. \A i \in Table(n) : stab'[i] = given[q[i]]
    BY <1>7, <2>1
  <2>5. QED
    BY <2>2, <2>3, <2>4 DEF Rearranges
<1>11. Types(n)' /\ RangesAreApart'
  BY <1>6, <1>7 DEF Types, RangesAreApart
<1>12. QED
  BY <1>8, <1>9, <1>10, <1>11

LEMMA TwoRanges ==
  ASSUME NEW R, NEW a \in R, NEW b \in R
  PROVE  /\ <<a>> \o <<b>> \in Seq(R) /\ Len(<<a>> \o <<b>>) = 2
         /\ (<<a>> \o <<b>>)[1] = a /\ (<<a>> \o <<b>>)[2] = b
PROOF OBVIOUS

(* The two ranges that one is divided into, or what is left of them.       *)
LEMMA HalvesAre ==
  ASSUME NEW n \in Nat, Low \in 0 .. n, High \in 0 .. n, Low < High,
         NEW m \in Low .. High
  PROVE  /\ Halves(m) \in Seq(PlacesFromTo(n))
         /\ \A k \in 1 .. Len(Halves(m)) :
              Low <= Halves(m)[k][1] /\ Halves(m)[k][1] < Halves(m)[k][2]
                /\ Halves(m)[k][2] <= High
         /\ \A j, k \in 1 .. Len(Halves(m)) :
              j < k => Halves(m)[j][2] <= Halves(m)[k][1]
         /\ Low + 1 # High /\ Low # m =>
              \E k \in 1 .. Len(Halves(m)) :
                Halves(m)[k][1] = Low /\ Halves(m)[k][2] = m
         /\ Low + 1 # High /\ m # High =>
              \E k \in 1 .. Len(Halves(m)) :
                Halves(m)[k][1] = m /\ Halves(m)[k][2] = High
PROOF
<1>1. /\ <<Low, m>> \in PlacesFromTo(n) /\ <<m, High>> \in PlacesFromTo(n)
      /\ <<Low, m>>[1] = Low /\ <<Low, m>>[2] = m
      /\ <<m, High>>[1] = m /\ <<m, High>>[2] = High
  BY DEF PlacesFromTo
<1> DEFINE a == <<Low, m>>
           b == <<m, High>>
<1> HIDE DEF a, b
<1>2. /\ a \in PlacesFromTo(n) /\ b \in PlacesFromTo(n)
      /\ a[1] = Low /\ a[2] = m /\ b[1] = m /\ b[2] = High
  BY <1>1 DEF a, b
<1>3. CASE Low + 1 = High
  <2>1. Halves(m) = <<>>
    BY <1>3 DEF Halves
  <2>2. QED
    BY <1>3, <2>1
<1>4. CASE Low + 1 # High /\ Low = m
  <2>1. Halves(m) = <<b>>
    BY <1>4 DEF Halves, Call, b
  <2>2. QED
    BY <1>2, <1>4, <2>1
<1>5. CASE Low + 1 # High /\ Low # m /\ m = High
  <2>1. Halves(m) = <<a>>
    BY <1>5 DEF Halves, Call, a
  <2>2. QED
    BY <1>2, <1>5, <2>1
<1>6. CASE Low + 1 # High /\ Low # m /\ m # High
  <2>1. Call(Low, m) = <<a>> /\ Call(m, High) = <<b>>
    BY <1>6 DEF Call, a, b
  <2>2. Halves(m) = <<a>> \o <<b>>
    BY <1>6, <2>1 DEF Halves
  <2>3. /\ Halves(m) \in Seq(PlacesFromTo(n)) /\ Len(Halves(m)) = 2
        /\ Halves(m)[1] = a /\ Halves(m)[2] = b
    BY <1>2, <2>2, TwoRanges
  <2>4. QED
    BY <1>2, <1>6, <2>3
<1>7. QED
  BY <1>3, <1>4, <1>5, <1>6

LEMMA EndPartitionKeeps ==
  ASSUME NEW n \in Nat, NEW given \in [Table(n) -> Student],
         SortInv(n, given), EndPartition
  PROVE  SortInv(n, given)'
PROOF
<1> USE DEF SortInv
<1> DEFINE m == part.l
           new == Halves(m)
<1>1. /\ calls # <<>> /\ m \in Low .. High /\ m = part.h
      /\ part.pivot \in Student
      /\ \A i \in Low .. m - 1 : Compare(stab[i], part.pivot) <= 0
      /\ \A i \in m .. High - 1 : Compare(stab[i], part.pivot) >= 0
  BY RangeInHand DEF PartitionGoesOn, EndPartition
<1>2. /\ Low \in 0 .. n /\ High \in 0 .. n /\ Low < High
      /\ Len(calls) \in Nat /\ Len(calls) >= 1
      /\ Low = calls[1][1] /\ High = calls[1][2]
      /\ \A k \in 2 .. Len(calls) :
           calls[k] \in PlacesFromTo(n) /\ High <= calls[k][1]
  BY <1>1, RangeInHand
<1>3. /\ new \in Seq(PlacesFromTo(n)) /\ Len(new) \in Nat
      /\ \A k \in 1 .. Len(new) :
           /\ new[k][1] \in Nat /\ new[k][2] \in Nat
           /\ Low <= new[k][1] /\ new[k][1] < new[k][2] /\ new[k][2] <= High
      /\ \A j, k \in 1 .. Len(new) : j < k => new[j][2] <= new[k][1]
  <2>1. /\ new \in Seq(PlacesFromTo(n))
        /\ \A k \in 1 .. Len(new) :
             Low <= new[k][1] /\ new[k][1] < new[k][2] /\ new[k][2] <= High
        /\ \A j, k \in 1 .. Len(new) : j < k => new[j][2] <= new[k][1]
    BY <1>1, <1>2, HalvesAre
  <2> HIDE DEF new
  <2>2. Len(new) \in Nat /\ \A k \in 1 .. Len(new) : new[k] \in PlacesFromTo(n)
    BY <2>1
  <2>3. QED
    BY <2>1, <2>2 DEF PlacesFromTo
<1>4. /\ Tail(calls) \in Seq(PlacesFromTo(n))
      /\ Len(Tail(calls)) = Len(calls) - 1
      /\ \A k \in 1 .. Len(calls) - 1 : Tail(calls)[k] = calls[k + 1]
  BY <1>1, <1>2 DEF Types
<1>5. /\ calls' \in Seq(PlacesFromTo(n))
      /\ Len(calls') = Len(new) + Len(calls) - 1
      /\ \A k \in 1 .. Len(calls') :
           calls'[k] = IF k <= Len(new) THEN new[k] ELSE calls[k - Len(new) + 1]
  <2> HIDE DEF new
  <2>1. calls' = new \o Tail(calls)
    BY DEF new, EndPartition
  <2>2. /\ new \o Tail(calls) \in Seq(PlacesFromTo(n))
        /\ Len(new \o Tail(calls)) = Len(new) + Len(Tail(calls))
        /\ \A k \in 1 .. Len(new) + Len(Tail(calls)) : (new \o Tail(calls))[k] =
             IF k <= Len(new) THEN new[k] ELSE Tail(calls)[k - Len(new)]
    BY <1>3, <1>4
  <2>3. ASSUME NEW k \in 1 .. Len(calls'), ~(k <= Len(new))
        PROVE  Tail(calls)[k - Len(new)] = calls[k - Len(new) + 1]
    <3>1. k - Len(new) \in 1 .. Len(calls) - 1
      BY <1>2, <1>3, <1>4, <2>1, <2>2, <2>3
    <3>2. QED
      BY <1>4, <3>1
  <2>4. QED
    BY <1>2, <1>3, <1>4, <2>1, <2>2, <2>3
<1> HIDE DEF new
<1>6. /\ stab' = stab /\ compare' = compare /\ at' = "table"
      /\ \A s, t : Compare(s, t)' = Compare(s, t)
  BY DEF Compare, EndPartition
<1>7. \A k \in 2 .. Len(calls) :
        /\ calls[k][1] \in Nat /\ calls[k][2] \in Nat
        /\ calls[k][1] < calls[k][2]
  BY <1>2 DEF PlacesFromTo, RangesAreApart
<1>8. RangesAreApart'
  <2>1. ASSUME NEW k \in 1 .. Len(calls')
        PROVE  calls'[k][1] < calls'[k][2]
    <3>1. CASE k <= Len(new)
      BY <1>3, <1>5, <3>1
    <3>2. CASE ~(k <= Len(new))
      <4>1. k - Len(new) + 1 \in 2 .. Len(calls)
        BY <1>2, <1>3, <1>5, <3>2
      <4>2. QED
        BY <1>5, <1>7, <3>2, <4>1
    <3>3. QED
      BY <3>1, <3>2
  <2>2. ASSUME NEW j \in 1 .. Len(calls'), NEW k \in 1 .. Len(calls'), j < k
        PROVE  calls'[j][2] <= calls'[k][1]
    <3>1. CASE k <= Len(new)
      BY <1>3, <1>5, <2>2, <3>1
    <3>2. CASE j <= Len(new) /\ ~(k <= Len(new))
      <4>1. k - Len(new) + 1 \in 2 .. Len(calls)
        BY <1>2, <1>3, <1>5, <3>2
      <4>2. PICK c \in 2 .. Len(calls) : calls'[k] = calls[c]
        BY <1>5, <3>2, <4>1
      <4>3. calls'[j] = new[j] /\ new[j][2] \in Nat /\ new[j][2] <= High
        BY <1>3, <1>5, <3>2
      <4>4. QED
        BY <1>2, <1>7, <4>2, <4>3
    <3>3. CASE ~(j <= Len(new))
      <4>1. /\ k - Len(new) + 1 \in 2 .. Len(calls)
            /\ j - Len(new) + 1 \in 2 .. Len(calls)
            /\ j - Len(new) + 1 < k - Len(new) + 1
        BY <1>2, <1>3, <1>5, <2>2, <3>3
      <4>2. /\ calls'[j] = calls[j - Len(new) + 1]
            /\ calls'[k] = calls[k - Len(new) + 1]
        BY <1>3, <1>5, <2>2, <3>3
      <4>3. PICK c \in 2 .. Len(calls), d \in 2 .. Len(calls) :
              c < d /\ calls'[j] = calls[c] /\ calls'[k] = calls[d]
        BY <4>1, <4>2, Zenon
      <4>4. c \in 1 .. Len(calls) /\ d \in 1 .. Len(calls)
        BY <1>2
      <4>5. QED
        BY <4>3, <4>4 DEF RangesAreApart
    <3>4. QED
      BY <1>3, <2>2, <3>1, <3>2, <3>3
  <2>3. QED
    BY <2>1, <2>2 DEF RangesAreApart
<1>9. OrderedApart(n)'
  <2>1. SUFFICES ASSUME NEW i \in Table(n), NEW j \in Table(n),
                        i < j, ~Together(i, j)'
                 PROVE  Compare(stab[i], stab[j]) <= 0
    BY <1>6 DEF OrderedApart
  <2>2. CASE ~Together(i, j)
    BY <2>1, <2>2 DEF OrderedApart
  <2>3. CASE Together(i, j)
    <3>1. PICK k \in 1 .. Len(calls) : calls[k][1] <= i /\ j < calls[k][2]
      BY <2>3 DEF Together
    <3>2. k = 1
      <4>1. SUFFICES ASSUME k # 1 PROVE FALSE
        OBVIOUS
      <4>2. /\ Len(new) + k - 1 \in 1 .. Len(calls')
            /\ calls'[Len(new) + k - 1] = calls[k]
        <5>1. /\ Len(new) + k - 1 \in 1 .. Len(calls')
              /\ ~(Len(new) + k - 1 <= Len(new))
              /\ (Len(new) + k - 1) - Len(new) + 1 = k
          BY <1>2, <1>3, <1>5, <4>1
        <5>2. QED
          BY <1>5, <5>1
      <4>3. QED
        BY <2>1, <3>1, <4>2 DEF Together
    <3>3. Low <= i /\ j < High /\ i \in Nat /\ j \in Nat
      BY <1>2, <3>1, <3>2 DEF Table
    <3>4. \A k2 \in 1 .. Len(new) : ~(new[k2][1] <= i /\ j < new[k2][2])
      <4>1. \A k2 \in 1 .. Len(new) :
              k2 \in 1 .. Len(calls') /\ calls'[k2] = new[k2]
        BY <1>2, <1>3, <1>5
      <4>2. QED
        BY <2>1, <4>1 DEF Together
    <3>5. Low + 1 # High
      BY <1>2, <2>1, <3>3
    <3>6. /\ Low # m =>
               \E k2 \in 1 .. Len(new) : new[k2][1] = Low /\ new[k2][2] = m
          /\ m # High =>
               \E k2 \in 1 .. Len(new) : new[k2][1] = m /\ new[k2][2] = High
      BY <1>1, <1>2, <3>5, HalvesAre DEF new
    <3>7. ~(j < m)
      BY <1>1, <1>2, <2>1, <3>3, <3>4, <3>6
    <3>8. ~(m <= i)
      BY <1>1, <1>2, <2>1, <3>3, <3>4, <3>6
    <3>9. /\ Compare(stab[i], part.pivot) <= 0
          /\ Compare(stab[j], part.pivot) >= 0
      BY <1>1, <1>2, <3>3, <3>7, <3>8
    <3>10. QED
      BY <1>1, <3>9 DEF Compare, Types
  <2>4. QED
    BY <2>2, <2>3
<1>10. Types(n)' /\ PartitionGoesOn' /\ Rearranges(n, given)'
  BY <1>5, <1>6 DEF Types, PartitionGoesOn, Rearranges
<1>11. QED
  BY <1>8, <1>9, <1>10

-----------------------------------------------------------------------------
(* The table between two calls of sorttable: when none is left to be made, *)
(* it is sorted.                                                           *)
TableIsSorted(n) ==
  calls = <<>> =>
    \A i, j \in Table(n) : i < j => Compare(stab[i], stab[j]) <= 0

(* The places the code reads and writes while it partitions.               *)
StaysInTheTable(n) ==
  /\ at = "table" /\ calls # <<>> => (Low + High) \div 2 \in Table(n)
  /\ at = "partition" /\ part.l < part.h =>
       part.l \in Table(n) /\ part.h - 1 \in Table(n)

(* SortInv is an invariant of sorttable().                                 *)
THEOREM SortInvariant ==
  ASSUME NEW n \in Nat, NEW given \in [Table(n) -> Student],
         NEW rank \in [Student -> Int]
  PROVE  SortSpec(n, given, rank) => []SortInv(n, given)
PROOF
<1>1. SortTable(n, given, rank) => SortInv(n, given)
  BY Starts
<1>2. SortInv(n, given) /\ [TableNext]_sortVars => SortInv(n, given)'
  <2> SUFFICES ASSUME SortInv(n, given), [TableNext]_sortVars
               PROVE  SortInv(n, given)'
    OBVIOUS
  <2>1. CASE StartPartition
    BY <2>1, StartPartitionKeeps
  <2>2. CASE PutHigh
    BY <2>2, PutHighKeeps
  <2>3. CASE PutLow
    BY <2>3, PutLowKeeps
  <2>4. CASE EndPartition
    BY <2>4, EndPartitionKeeps
  <2>5. CASE UNCHANGED sortVars
    BY <2>5 DEF sortVars, SortInv, Types, RangesAreApart, PartitionGoesOn,
                OrderedApart, Together, Rearranges, Compare, Low, High
  <2>6. QED
    BY <2>1, <2>2, <2>3, <2>4, <2>5 DEF TableNext
<1>3. QED
  BY <1>1, <1>2, PTL DEF SortSpec

(* Whatever is in the table and whatever the comparison says: when         *)
(* sorttable(stab, 0, count, compare) returns, no student comes after one  *)
(* who is greater (sort.c).                                                *)
THEOREM SortsTheTable ==
  ASSUME NEW n \in Nat, NEW given \in [Table(n) -> Student],
         NEW rank \in [Student -> Int]
  PROVE  SortSpec(n, given, rank) => []TableIsSorted(n)
PROOF
<1>1. SortInv(n, given) => TableIsSorted(n)
  <2>1. ASSUME SortInv(n, given), calls = <<>>
        PROVE  \A i, j \in Table(n) : ~Together(i, j)
    <3>1. Len(calls) = 0
      BY <2>1
    <3>2. QED
      BY <3>1 DEF Together
  <2>2. QED
    BY <2>1 DEF SortInv, OrderedApart, TableIsSorted
<1>2. QED
  BY <1>1, SortInvariant, PTL

(* The table holds at every moment what was put into it, each student as   *)
(* often as before, so that sortroster() links everybody again.            *)
THEOREM KeepsEverybody ==
  ASSUME NEW n \in Nat, NEW given \in [Table(n) -> Student],
         NEW rank \in [Student -> Int]
  PROVE  SortSpec(n, given, rank) => []Rearranges(n, given)
PROOF
<1>1. SortInv(n, given) => Rearranges(n, given)
  BY DEF SortInv
<1>2. QED
  BY <1>1, SortInvariant, PTL

(* partition() never reads or writes outside of the table.                 *)
THEOREM StaysInside ==
  ASSUME NEW n \in Nat, NEW given \in [Table(n) -> Student],
         NEW rank \in [Student -> Int]
  PROVE  SortSpec(n, given, rank) => []StaysInTheTable(n)
PROOF
<1>1. SortInv(n, given) => StaysInTheTable(n)
  <2>1. ASSUME SortInv(n, given), calls # <<>>
        PROVE  Low \in 0 .. n /\ High \in 0 .. n /\ Low < High
    BY <2>1, RangeInHand DEF SortInv
  <2>2. ASSUME SortInv(n, given), calls # <<>>
        PROVE  (Low + High) \div 2 \in Table(n)
    BY <2>1, <2>2 DEF Table
  <2>3. ASSUME SortInv(n, given), at = "partition", part.l < part.h
        PROVE  part.l \in Table(n) /\ part.h - 1 \in Table(n)
    <3>1. /\ calls # <<>>
          /\ part.l \in Low .. part.h /\ part.h \in part.l .. High
      BY <2>3 DEF SortInv, PartitionGoesOn
    <3>2. Low \in 0 .. n /\ High \in 0 .. n
      BY <2>1, <2>3, <3>1
    <3>3. QED
      BY <2>3, <3>1, <3>2 DEF Table
  <2>4. QED
    BY <2>2, <2>3 DEF StaysInTheTable
<1>2. QED
  BY <1>1, SortInvariant, PTL

-----------------------------------------------------------------------------
(* The rosters.  A roster is a list of different students, each with a     *)
(* pointer to the next one; seq is that list as a sequence.                *)
IsChain(x, seq) ==
  /\ seq \in Seq(Student)
  /\ \A i, j \in 1 .. Len(seq) : seq[i] = seq[j] => i = j
  /\ head[x] = IF Len(seq) = 0 THEN NoStudent ELSE seq[1]
  /\ \A i \in 1 .. Len(seq) :
       link[x][seq[i]] = IF i = Len(seq) THEN NoStudent ELSE seq[i + 1]

(* The students in the order of seq are those in the order of given.       *)
Rearranged(seq, given) ==
  /\ Len(seq) = Len(given)
  /\ \E p \in [1 .. Len(seq) -> 1 .. Len(seq)] :
       /\ \A i, j \in 1 .. Len(seq) : p[i] = p[j] => i = j
       /\ \A i \in 1 .. Len(seq) : seq[i] = given[p[i]]

InOrder(seq) ==
  \A i, j \in 1 .. Len(seq) : i < j => Compare(seq[i], seq[j]) <= 0

(* sortrosters() has been called for rosters that hold these students.     *)
RostersCalled(ns, given, rank) ==
  /\ head \in [List -> Pointer] /\ link \in [List -> [Student -> Pointer]]
  /\ \A x \in 0 .. ns : IsChain(x, given[x])
  /\ todo = [k \in 1 .. ns + 1 |-> k - 1]
  /\ compare = rank
  /\ at = "rosters"

RostersSpec(ns, given, rank) ==
  RostersCalled(ns, given, rank) /\ [][SortNext]_sortVars

RostersAreSorted(ns, given) ==
  ~ Sorting => \A x \in 0 .. ns : /\ Rearranged(Roster(x), given[x])
                                  /\ InOrder(Roster(x))

(* The table as it is filled: the first student last.                      *)
Backwards(seq) == [i \in Table(Len(seq)) |-> seq[Len(seq) - i]]

(* The lists are sorted one after another, the course's first.             *)
TodoIsRest(ns) ==
  /\ todo \in Seq(0 .. ns)
  /\ Len(todo) <= ns + 1
  /\ \A k \in 1 .. Len(todo) : todo[k] = ns - Len(todo) + k

(* Each list holds whom it held, and those that have had their turn in     *)
(* order.                                                                  *)
ListIsKept(ns, x, given) ==
  \E seq \in Seq(Student) :
    /\ IsChain(x, seq)
    /\ Rearranged(seq, given)
    /\ x <= ns - Len(todo) => InOrder(seq)

(* The table holds the students of the list whose turn it is.              *)
TableHoldsList(given) ==
  at # "rosters" =>
    /\ todo # <<>>
    /\ \E seq \in Seq(Student) :
         /\ IsChain(Head(todo), seq)
         /\ Len(seq) # 0
         /\ Rearranged(seq, given[Head(todo)])
         /\ SortInv(Len(seq), Backwards(seq))

RostersInv(ns, given) ==
  /\ head \in [List -> Pointer] /\ link \in [List -> [Student -> Pointer]]
  /\ compare \in [Student -> Int]
  /\ at \in {"rosters", "table", "partition"}
  /\ TodoIsRest(ns)
  /\ \A x \in 0 .. ns : ListIsKept(ns, x, given[x])
  /\ TableHoldsList(given)

(* A nonempty set of natural numbers has a least member.                   *)
LEMMA LeastNatural ==
  ASSUME NEW S \in SUBSET Nat, S # {}
  PROVE  \E m \in S : \A n \in S : m <= n
<1> DEFINE R == OpToRel(<, Nat)
<1>1. IsWellFoundedOn(R, Nat)
  BY NatLessThanWellFounded
<1>2. \A x, y \in Nat : x < y => <<x, y>> \in R
  BY DEF OpToRel
<1> HIDE DEF R
<1>3. PICK m \in S : \A n \in S : ~ (<<n, m>> \in R)
  BY <1>1, WFMin
<1>4. \A n \in S : m \in Nat /\ n \in Nat /\ ~ (n < m)
  BY <1>2, <1>3
<1> QED
  BY <1>3, <1>4

(* Different students are no more than there are.                          *)
LEMMA ChainIsShort ==
  ASSUME NEW x, NEW seq, IsChain(x, seq)
  PROVE  /\ Len(seq) \in Nat /\ Cardinality(Student) \in Nat
         /\ Len(seq) <= Cardinality(Student)
         /\ \A i \in 1 .. Len(seq) : seq[i] \in Student /\ seq[i] # NoStudent
         /\ seq = [i \in 1 .. Len(seq) |-> seq[i]]
<1>1. seq \in Seq(Student)
  BY DEF IsChain
<1>2. /\ Len(seq) \in Nat /\ seq \in [1 .. Len(seq) -> Student]
  BY <1>1
<1>3. seq \in Injection(1 .. Len(seq), Student)
  BY <1>2 DEF IsChain, Injection, IsInjective
<1>4. IsFiniteSet(Student) /\ Cardinality(Student) \in Nat
  BY SortAssumption, FS_CardinalityType
<1>5. Cardinality(1 .. Len(seq)) <= Cardinality(Student)
  BY <1>3, <1>4, FS_Injection
<1>6. Cardinality(1 .. Len(seq)) = Len(seq)
  BY <1>2, FS_Interval
<1> QED
  BY <1>2, <1>4, <1>5, <1>6, SortAssumption

(* One step of a walk along the list.                                      *)
Turn(x, f) ==
  [k \in 0 .. Cardinality(Student) |->
     IF k = 0 THEN head[x]
     ELSE IF f[k - 1] = NoStudent THEN NoStudent ELSE link[x][f[k - 1]]]

Along(seq) ==
  [k \in 0 .. Cardinality(Student) |->
     IF k < Len(seq) THEN seq[k + 1] ELSE NoStudent]

(* Following the pointers gives the students of the chain one by one.      *)
LEMMA WalkOfChain ==
  ASSUME NEW x, NEW seq, IsChain(x, seq)
  PROVE  Walk(x) = Along(seq)
<1> DEFINE N == Cardinality(Student)
           w == Along(seq)
<1>1. Walk(x) = CHOOSE f : f = Turn(x, f)
  BY DEF Walk, Turn
<1>2. /\ Len(seq) \in Nat /\ N \in Nat /\ Len(seq) <= N
      /\ \A i \in 1 .. Len(seq) : seq[i] \in Student /\ seq[i] # NoStudent
  BY ChainIsShort
<1>3. /\ head[x] = IF Len(seq) = 0 THEN NoStudent ELSE seq[1]
      /\ \A i \in 1 .. Len(seq) :
           link[x][seq[i]] = IF i = Len(seq) THEN NoStudent ELSE seq[i + 1]
  BY DEF IsChain
<1> HIDE DEF N
<1>4. /\ w = [k \in 0 .. N |-> IF k < Len(seq) THEN seq[k + 1] ELSE NoStudent]
      /\ \A f : Turn(x, f) =
           [k \in 0 .. N |->
              IF k = 0 THEN head[x]
              ELSE IF f[k - 1] = NoStudent THEN NoStudent
              ELSE link[x][f[k - 1]]]
  BY DEF N, Along, Turn
<1> HIDE DEF w
<1>5. ASSUME NEW k \in 0 .. N
      PROVE  w[k] = IF k = 0 THEN head[x]
                    ELSE IF w[k - 1] = NoStudent THEN NoStudent
                    ELSE link[x][w[k - 1]]
  <2>1. w[k] = IF k < Len(seq) THEN seq[k + 1] ELSE NoStudent
    BY <1>4
  <2>2. CASE k = 0
    BY <1>2, <1>3, <2>1, <2>2
  <2>3. CASE k # 0
    <3>1. k - 1 \in 0 .. N /\ k \in Nat
      BY <1>2, <2>3
    <3>2. w[k - 1] = IF k - 1 < Len(seq) THEN seq[k] ELSE NoStudent
      BY <1>4, <3>1
    <3>3. CASE k - 1 < Len(seq)
      <4>1. k \in 1 .. Len(seq)
        BY <1>2, <2>3, <3>1, <3>3
      <4> QED
        BY <1>2, <1>3, <2>1, <2>3, <3>2, <3>3, <4>1
    <3>4. CASE ~ (k - 1 < Len(seq))
      BY <1>2, <2>1, <2>3, <3>1, <3>2, <3>4
    <3> QED
      BY <3>3, <3>4
  <2> QED
    BY <2>2, <2>3
<1>6. w = Turn(x, w)
  <2>1. w = [k \in 0 .. N |-> w[k]]
    BY <1>4
  <2>2. Turn(x, w) = [k \in 0 .. N |->
                        IF k = 0 THEN head[x]
                        ELSE IF w[k - 1] = NoStudent THEN NoStudent
                        ELSE link[x][w[k - 1]]]
    BY <1>4
  <2> QED
    BY <1>5, <2>1, <2>2
<1>7. ASSUME NEW f, f = Turn(x, f)
      PROVE  f = w
  <2> DEFINE D == {k \in 0 .. N : f[k] # w[k]}
  <2>1. /\ f = [k \in 0 .. N |-> f[k]]
        /\ \A k \in 0 .. N : f[k] = IF k = 0 THEN head[x]
                                    ELSE IF f[k - 1] = NoStudent THEN NoStudent
                                    ELSE link[x][f[k - 1]]
    <3>1. f = [k \in 0 .. N |->
                 IF k = 0 THEN head[x]
                 ELSE IF f[k - 1] = NoStudent THEN NoStudent
                 ELSE link[x][f[k - 1]]]
      BY <1>4, <1>7, Zenon
    <3> QED
      BY <3>1
  <2>2. D = {}
    <3>1. SUFFICES ASSUME D # {} PROVE FALSE
      OBVIOUS
    <3>2. D \in SUBSET Nat
      BY <1>2
    <3> HIDE DEF D
    <3>3. PICK m \in D : \A n \in D : m <= n
      BY <3>1, <3>2, LeastNatural
    <3>4. m \in 0 .. N /\ f[m] # w[m]
      BY <3>3 DEF D
    <3>5. CASE m = 0
      BY <1>5, <2>1, <3>4, <3>5
    <3>6. CASE m # 0
      <4>1. m - 1 \in 0 .. N /\ ~ (m <= m - 1)
        BY <1>2, <3>4, <3>6
      <4>2. f[m - 1] = w[m - 1]
        BY <3>3, <4>1 DEF D
      <4> QED
        BY <1>5, <2>1, <3>4, <3>6, <4>2
    <3> QED
      BY <3>5, <3>6
  <2>3. \A k \in 0 .. N : f[k] = w[k]
    BY <2>2
  <2> QED
    BY <1>4, <2>1, <2>3
<1> QED
  BY <1>1, <1>6, <1>7 DEF w

(* A chain is counted and read as it is.                                   *)
LEMMA RosterOfChain ==
  ASSUME NEW x, NEW seq, IsChain(x, seq)
  PROVE  Count(x) = Len(seq) /\ Roster(x) = seq
<1> DEFINE N == Cardinality(Student)
<1>1. /\ Len(seq) \in Nat /\ N \in Nat /\ Len(seq) <= N
      /\ \A i \in 1 .. Len(seq) : seq[i] \in Student /\ seq[i] # NoStudent
      /\ seq = [i \in 1 .. Len(seq) |-> seq[i]]
  BY ChainIsShort
<1>2. Walk(x) = Along(seq)
  BY WalkOfChain
<1>3. \A k \in 0 .. N :
        Walk(x)[k] = IF k < Len(seq) THEN seq[k + 1] ELSE NoStudent
  BY <1>2 DEF Along
<1> HIDE DEF N
<1>4. {k \in 0 .. N : Walk(x)[k] # NoStudent} = 0 .. Len(seq) - 1
  <2>1. ASSUME NEW k \in 0 .. N
        PROVE  Walk(x)[k] # NoStudent <=> k < Len(seq)
    <3>1. CASE k < Len(seq)
      <4>1. k + 1 \in 1 .. Len(seq)
        BY <1>1, <3>1
      <4> QED
        BY <1>1, <1>3, <3>1, <4>1
    <3>2. CASE ~ (k < Len(seq))
      BY <1>3, <3>2
    <3> QED
      BY <3>1, <3>2
  <2> QED
    BY <1>1, <2>1
<1>5. Count(x) = Len(seq)
  <2>1. Cardinality(0 .. Len(seq) - 1) = Len(seq)
    <3>1. Len(seq) - 1 \in Int /\ 0 \in Int
      BY <1>1
    <3>2. Cardinality(0 .. Len(seq) - 1)
            = IF 0 > Len(seq) - 1 THEN 0 ELSE (Len(seq) - 1) - 0 + 1
      BY <3>1, FS_Interval
    <3> QED
      BY <1>1, <3>2
  <2>2. Count(x) = Cardinality({k \in 0 .. N : Walk(x)[k] # NoStudent})
    BY DEF Count, N
  <2> QED
    BY <1>4, <2>1, <2>2
<1>6. \A k \in 1 .. Len(seq) : Walk(x)[k - 1] = seq[k]
  <2>1. ASSUME NEW k \in 1 .. Len(seq)
        PROVE  Walk(x)[k - 1] = seq[k]
    <3>1. k - 1 \in 0 .. N /\ k - 1 < Len(seq) /\ (k - 1) + 1 = k
      BY <1>1
    <3> QED
      BY <1>3, <3>1
  <2> QED
    BY <2>1
<1> QED
  BY <1>1, <1>5, <1>6 DEF Roster

(* The table that is filled from a list has a student at each place.       *)
LEMMA BackwardsIs ==
  ASSUME NEW seq \in Seq(Student)
  PROVE  /\ Len(seq) \in Nat
         /\ Backwards(seq) \in [Table(Len(seq)) -> Student]
<1>1. Len(seq) \in Nat /\ \A i \in 1 .. Len(seq) : seq[i] \in Student
  OBVIOUS
<1>2. \A i \in Table(Len(seq)) : Len(seq) - i \in 1 .. Len(seq)
  BY <1>1 DEF Table
<1> QED
  BY <1>1, <1>2 DEF Backwards

(* A list is in its own order.                                             *)
LEMMA RearrangedItself ==
  ASSUME NEW seq \in Seq(Student)
  PROVE  Rearranged(seq, seq)
<1> DEFINE p == [i \in 1 .. Len(seq) |-> i]
<1>1. p \in [1 .. Len(seq) -> 1 .. Len(seq)]
  OBVIOUS
<1>2. /\ \A i, j \in 1 .. Len(seq) : p[i] = p[j] => i = j
      /\ \A i \in 1 .. Len(seq) : seq[i] = seq[p[i]]
  OBVIOUS
<1> HIDE DEF p
<1> QED
  BY <1>1, <1>2 DEF Rearranged

(* Before the first list is sorted.                                        *)
LEMMA RostersStart ==
  ASSUME NEW ns \in 0 .. MaxSections, NEW given \in [0 .. ns -> Seq(Student)],
         NEW rank \in [Student -> Int], RostersCalled(ns, given, rank)
  PROVE  RostersInv(ns, given)
<1> USE DEF RostersCalled
<1>1. ns \in Nat
  BY SortAssumption
<1>2. todo \in Seq(0 .. ns) /\ Len(todo) = ns + 1
  BY <1>1
<1>3. TodoIsRest(ns)
  BY <1>1, <1>2 DEF TodoIsRest
<1>4. ASSUME NEW x \in 0 .. ns
      PROVE  ListIsKept(ns, x, given[x])
  <2>1. given[x] \in Seq(Student) /\ IsChain(x, given[x])
    OBVIOUS
  <2>2. Rearranged(given[x], given[x])
    BY <2>1, RearrangedItself
  <2>3. ~ (x <= ns - Len(todo))
    BY <1>1, <1>2
  <2> QED
    BY <2>1, <2>2, <2>3 DEF ListIsKept
<1> QED
  BY <1>3, <1>4 DEF RostersInv, TableHoldsList

(* What is at the head of the lists to be sorted.                          *)
LEMMA NextList ==
  ASSUME NEW ns \in 0 .. MaxSections, TodoIsRest(ns), todo # <<>>
  PROVE  /\ ns \in Nat /\ Len(todo) \in Nat /\ Len(todo) >= 1
         /\ Head(todo) = todo[1] /\ Head(todo) = ns - Len(todo) + 1
         /\ Head(todo) \in 0 .. ns /\ Head(todo) \in List
         /\ 0 .. ns \subseteq List
         /\ Tail(todo) \in Seq(0 .. ns) /\ Len(Tail(todo)) = Len(todo) - 1
         /\ \A k \in 1 .. Len(Tail(todo)) : Tail(todo)[k] = todo[k + 1]
<1>1. ns \in Nat /\ ns <= MaxSections /\ MaxSections \in Nat
  BY SortAssumption
<1>2. todo \in Seq(0 .. ns) /\ Len(todo) \in Nat /\ Len(todo) >= 1
  BY DEF TodoIsRest
<1>3. /\ Tail(todo) \in Seq(0 .. ns) /\ Len(Tail(todo)) = Len(todo) - 1
      /\ \A k \in 1 .. Len(Tail(todo)) : Tail(todo)[k] = todo[k + 1]
      /\ Head(todo) = todo[1]
  BY <1>2
<1>4. 1 \in 1 .. Len(todo) /\ todo[1] \in 0 .. ns
  BY <1>2
<1>5. todo[1] = ns - Len(todo) + 1
  BY <1>4 DEF TodoIsRest
<1>6. 0 .. ns \subseteq List
  BY <1>1 DEF List, Course
<1> QED
  BY <1>1, <1>2, <1>3, <1>4, <1>5, <1>6

(* After a list has had its turn, the next one is at the head.             *)
LEMMA TailIsRest ==
  ASSUME NEW ns \in 0 .. MaxSections, TodoIsRest(ns), todo # <<>>,
         todo' = Tail(todo)
  PROVE  TodoIsRest(ns)'
<1>1. /\ ns \in Nat /\ Len(todo) \in Nat /\ Len(todo) >= 1
      /\ Tail(todo) \in Seq(0 .. ns) /\ Len(Tail(todo)) = Len(todo) - 1
      /\ \A k \in 1 .. Len(Tail(todo)) : Tail(todo)[k] = todo[k + 1]
  BY NextList
<1>2. Len(todo) <= ns + 1 /\ \A k \in 1 .. Len(todo) : todo[k] = ns - Len(todo) + k
  BY DEF TodoIsRest
<1>3. ASSUME NEW k \in 1 .. Len(Tail(todo))
      PROVE  Tail(todo)[k] = ns - Len(Tail(todo)) + k
  <2>1. k + 1 \in 1 .. Len(todo)
    BY <1>1
  <2> QED
    BY <1>1, <1>2, <2>1
<1> QED
  BY <1>1, <1>2, <1>3 DEF TodoIsRest

(* A table that is filled is one that sorttable() is called with.          *)
LEMMA StartsNext ==
  (\A n \in Nat : \A given \in [Table(n) -> Student] :
     \A rank \in [Student -> Int] :
       SortTable(n, given, rank) => SortInv(n, given))'
<1>1. \A n \in Nat : \A given \in [Table(n) -> Student] :
        \A rank \in [Student -> Int] :
          SortTable(n, given, rank) => SortInv(n, given)
  BY Starts
<1> QED
  BY <1>1, PTL

(* sortroster() copies the students into the table.                        *)
LEMMA FillTableKeeps ==
  ASSUME NEW ns \in 0 .. MaxSections, NEW given \in [0 .. ns -> Seq(Student)],
         RostersInv(ns, given), FillTable
  PROVE  RostersInv(ns, given)'
<1>1. /\ todo # <<>> /\ at' = "table"
      /\ UNCHANGED <<head, link, todo, compare, part>>
  BY DEF FillTable, Sorting
<1>2. TodoIsRest(ns)
  BY DEF RostersInv
<1> DEFINE x == Head(todo)
<1>3. x \in 0 .. ns
  BY <1>1, <1>2, NextList
<1>4. PICK seq \in Seq(Student) : IsChain(x, seq) /\ Rearranged(seq, given[x])
  BY <1>3 DEF RostersInv, ListIsKept
<1> DEFINE n == Len(seq)
<1>5. Count(x) = n
  BY <1>4, RosterOfChain
<1>6. Walk(x) = Along(seq)
  BY <1>4, WalkOfChain
<1>7. n \in Nat /\ Cardinality(Student) \in Nat /\ n <= Cardinality(Student)
  BY <1>4, ChainIsShort
<1>8. /\ n # 0 /\ calls' = Call(0, n)
      /\ stab' = [i \in 0 .. n - 1 |-> Along(seq)[n - 1 - i]]
  BY <1>5, <1>6 DEF FillTable
<1>9. stab' = Backwards(seq)
  <2>1. ASSUME NEW i \in 0 .. n - 1
        PROVE  Along(seq)[n - 1 - i] = seq[n - i]
    <3>1. n - 1 - i \in 0 .. Cardinality(Student) /\ n - 1 - i < n
      BY <1>7
    <3>2. (n - 1 - i) + 1 = n - i
      BY <1>7
    <3> QED
      BY <3>1, <3>2 DEF Along
  <2> QED
    BY <1>8, <2>1 DEF Backwards, Table
<1>10. Backwards(seq) \in [Table(n) -> Student] /\ compare \in [Student -> Int]
  BY BackwardsIs DEF RostersInv
<1>11. PICK rank \in [Student -> Int] : rank = compare
  BY <1>10
<1> DEFINE b == Backwards(seq)
<1>12. b \in [Table(n) -> Student] /\ b' = b /\ n' = n
  BY <1>10 DEF Backwards, Table
<1> HIDE DEF b, n
<1>13. SortTable(n, b, rank)'
  <2>1. stab' = b /\ compare' = rank /\ calls' = Call(0, n) /\ at' = "table"
    BY <1>1, <1>8, <1>9, <1>11 DEF b
  <2> QED
    BY <2>1, <1>12 DEF SortTable, Call
<1>14. SortInv(n, b)'
  <2>1. SortTable(n, b, rank)' => SortInv(n, b)'
    BY <1>7, <1>12, StartsNext
  <2> QED
    BY <1>13, <2>1
<1>15. \A y, s : IsChain(y, s)' = IsChain(y, s)
  BY <1>1 DEF IsChain
<1>16. TableHoldsList(given)'
  <2>1. todo' = todo /\ Head(todo)' = x
    BY <1>1
  <2>2. SortInv(Len(seq), Backwards(seq))'
    BY <1>14 DEF b, n
  <2>3. IsChain(x, seq)'
    BY <1>1, <1>4 DEF IsChain
  <2> QED
    BY <1>1, <1>4, <1>8, <2>1, <2>2, <2>3 DEF TableHoldsList, n
<1>17. TodoIsRest(ns)' /\ \A y \in 0 .. ns : ListIsKept(ns, y, given[y])'
  BY <1>1, <1>2, <1>15 DEF RostersInv, TodoIsRest, ListIsKept, InOrder, Compare
<1> QED
  BY <1>1, <1>16, <1>17 DEF RostersInv

(* While the table is sorted, the lists wait.                              *)
LEMMA TableNextKeeps ==
  ASSUME NEW ns \in 0 .. MaxSections, NEW given \in [0 .. ns -> Seq(Student)],
         RostersInv(ns, given), TableNext
  PROVE  RostersInv(ns, given)'
<1>1. /\ at \in {"table", "partition"} /\ at' \in {"table", "partition"}
      /\ UNCHANGED <<head, link, todo, compare>>
  BY DEF TableNext, StartPartition, PutHigh, PutLow, EndPartition
<1>2. todo # <<>> /\ TodoIsRest(ns)
  BY <1>1 DEF RostersInv, TableHoldsList
<1>3. PICK seq \in Seq(Student) :
        /\ IsChain(Head(todo), seq) /\ Len(seq) # 0
        /\ Rearranged(seq, given[Head(todo)])
        /\ SortInv(Len(seq), Backwards(seq))
  BY <1>1 DEF RostersInv, TableHoldsList
<1> DEFINE n == Len(seq)
           b == Backwards(seq)
<1>4. n \in Nat /\ b \in [Table(n) -> Student] /\ SortInv(n, b)
  BY <1>3, BackwardsIs
<1> HIDE DEF n, b
<1>5. SortInv(n, b)'
  BY <1>4, StartPartitionKeeps, PutHighKeeps, PutLowKeeps, EndPartitionKeeps
     DEF TableNext
<1>6. TableHoldsList(given)'
  <2>1. IsChain(Head(todo), seq)'
    BY <1>1, <1>3 DEF IsChain
  <2>2. SortInv(Len(seq), Backwards(seq))'
    BY <1>5 DEF n, b
  <2> QED
    BY <1>1, <1>2, <1>3, <2>1, <2>2 DEF TableHoldsList
<1>7. \A y, s : IsChain(y, s)' = IsChain(y, s)
  BY <1>1 DEF IsChain
<1>8. TodoIsRest(ns)' /\ \A y \in 0 .. ns : ListIsKept(ns, y, given[y])'
  BY <1>1, <1>2, <1>7 DEF RostersInv, TodoIsRest, ListIsKept, InOrder, Compare
<1> QED
  BY <1>1, <1>6, <1>8 DEF RostersInv

(* The lists whose turn it is not stay as they are.                        *)
LEMMA OthersAreKept ==
  ASSUME NEW ns \in 0 .. MaxSections, NEW given \in [0 .. ns -> Seq(Student)],
         RostersInv(ns, given), todo # <<>>,
         todo' = Tail(todo), compare' = compare,
         \A y \in 0 .. ns : y # Head(todo) => /\ head'[y] = head[y]
                                              /\ link'[y] = link[y],
         NEW y \in 0 .. ns, y # Head(todo)
  PROVE  ListIsKept(ns, y, given[y])'
<1>1. PICK seq \in Seq(Student) :
        /\ IsChain(y, seq) /\ Rearranged(seq, given[y])
        /\ y <= ns - Len(todo) => InOrder(seq)
  BY DEF RostersInv, ListIsKept
<1>2. IsChain(y, seq)'
  BY <1>1 DEF IsChain
<1>3. InOrder(seq) => InOrder(seq)'
  BY DEF InOrder, Compare
<1>4. y <= ns - Len(todo') => y <= ns - Len(todo)
  BY NextList DEF RostersInv
<1> QED
  BY <1>1, <1>2, <1>3, <1>4 DEF ListIsKept

(* An empty list is in order.                                              *)
LEMMA SortNobodyKeeps ==
  ASSUME NEW ns \in 0 .. MaxSections, NEW given \in [0 .. ns -> Seq(Student)],
         RostersInv(ns, given), SortNobody
  PROVE  RostersInv(ns, given)'
<1>1. /\ todo # <<>> /\ at = "rosters" /\ Count(Head(todo)) = 0
      /\ head' = [head EXCEPT ![Head(todo)] = NoStudent]
      /\ todo' = Tail(todo)
      /\ UNCHANGED <<link, compare, stab, calls, part, at>>
  BY DEF SortNobody, Sorting
<1>2. /\ TodoIsRest(ns) /\ compare \in [Student -> Int]
      /\ head \in [List -> Pointer] /\ link \in [List -> [Student -> Pointer]]
  BY DEF RostersInv
<1>3. PICK x \in 0 .. ns : x = Head(todo)
  BY <1>1, <1>2, NextList
<1>4. PICK seq \in Seq(Student) : IsChain(x, seq) /\ Rearranged(seq, given[x])
  BY DEF RostersInv, ListIsKept
<1>5. Len(seq) = 0
  BY <1>1, <1>3, <1>4, RosterOfChain
<1>6. x \in List /\ 0 .. ns \subseteq List
  BY <1>1, <1>2, NextList
<1>7. /\ head' \in [List -> Pointer] /\ head'[x] = NoStudent
      /\ \A y \in 0 .. ns : y # x => head'[y] = head[y]
  BY <1>1, <1>2, <1>3, <1>6 DEF Pointer
<1>8. ListIsKept(ns, x, given[x])'
  <2>1. IsChain(x, seq)'
    BY <1>1, <1>4, <1>5, <1>7 DEF IsChain
  <2>2. InOrder(seq)'
    BY <1>5 DEF InOrder
  <2> QED
    BY <1>4, <2>1, <2>2 DEF ListIsKept
<1>9. \A y \in 0 .. ns : ListIsKept(ns, y, given[y])'
  BY <1>1, <1>3, <1>7, <1>8, OthersAreKept
<1>10. TodoIsRest(ns)'
  BY <1>1, <1>2, TailIsRest
<1> QED
  BY <1>1, <1>2, <1>7, <1>9, <1>10 DEF RostersInv, TableHoldsList

(* When a sorted table is linked, the list is the table.                   *)
LEMMA RelinkKeeps ==
  ASSUME NEW ns \in 0 .. MaxSections, NEW given \in [0 .. ns -> Seq(Student)],
         RostersInv(ns, given), Relink
  PROVE  RostersInv(ns, given)'
<1>1. /\ at = "table" /\ calls = <<>> /\ at' = "rosters"
      /\ todo' = Tail(todo)
      /\ UNCHANGED <<compare, stab, calls, part>>
  BY DEF Relink
<1>2. /\ TodoIsRest(ns) /\ todo # <<>> /\ compare \in [Student -> Int]
      /\ head \in [List -> Pointer] /\ link \in [List -> [Student -> Pointer]]
  BY <1>1 DEF RostersInv, TableHoldsList
<1>3. PICK x \in 0 .. ns : x = Head(todo)
  BY <1>2, NextList
<1>4. PICK seq \in Seq(Student) :
        /\ IsChain(x, seq) /\ Len(seq) # 0
        /\ Rearranged(seq, given[x])
        /\ SortInv(Len(seq), Backwards(seq))
  BY <1>1, <1>3 DEF RostersInv, TableHoldsList
<1> DEFINE n == Len(seq)
<1>5. /\ n \in Nat /\ n >= 1
      /\ \A i, j \in 1 .. n : seq[i] = seq[j] => i = j
      /\ stab \in [0 .. n - 1 -> Student]
  BY <1>4 DEF IsChain, SortInv, Types, Table
<1>6. PICK p \in [Table(n) -> Table(n)] :
        /\ \A i, j \in Table(n) : p[i] = p[j] => i = j
        /\ \A i \in Table(n) : stab[i] = Backwards(seq)[p[i]]
  BY <1>4 DEF SortInv, Rearranges
<1>7. \A i \in 0 .. n - 1 : p[i] \in 0 .. n - 1 /\ stab[i] = seq[n - p[i]]
  BY <1>6 DEF Table, Backwards
<1> HIDE DEF n
<1>7a. /\ \A a \in 0 .. n - 1 : n - a \in 1 .. n
       /\ \A a, b \in 0 .. n - 1 : n - a = n - b => a = b
  <2>1. ASSUME NEW a \in 0 .. n - 1 PROVE n - a \in 1 .. n
    BY <1>5
  <2>2. ASSUME NEW a \in 0 .. n - 1, NEW b \in 0 .. n - 1, n - a = n - b
        PROVE  a = b
    BY <1>5, <2>2
  <2> QED
    BY <2>1, <2>2
<1> USE DEF n
<1>8. \A i, j \in 0 .. n - 1 : i < j => Compare(stab[i], stab[j]) <= 0
  <2>1. \A i, j \in Table(n) : ~ Together(i, j)
    BY <1>1 DEF Together
  <2> QED
    BY <1>4, <2>1 DEF SortInv, OrderedApart, Table
<1> HIDE DEF n
<1>9. \A i, j \in 0 .. n - 1 : stab[i] = stab[j] => i = j
  <2> SUFFICES ASSUME NEW i \in 0 .. n - 1, NEW j \in 0 .. n - 1,
                      stab[i] = stab[j]
               PROVE  i = j
    OBVIOUS
  <2>1. /\ p[i] \in 0 .. n - 1 /\ stab[i] = seq[n - p[i]]
        /\ p[j] \in 0 .. n - 1 /\ stab[j] = seq[n - p[j]]
    BY <1>7
  <2>2. n - p[i] \in 1 .. n /\ n - p[j] \in 1 .. n
    BY <1>7a, <2>1
  <2>4. n - p[i] = n - p[j]
    BY <1>5, <2>1, <2>2
  <2>3. p[i] = p[j]
    BY <1>7a, <2>1, <2>4
  <2> QED
    BY <1>6, <2>3 DEF Table
<1> DEFINE new == [i \in 1 .. n |-> stab[i - 1]]
<1>10. /\ new \in Seq(Student) /\ Len(new) = n
       /\ \A i \in 1 .. n : new[i] = stab[i - 1]
  <2>1. \A i \in 1 .. n : stab[i - 1] \in Student
    BY <1>5
  <2> QED
    BY <1>5, <2>1
<1> HIDE DEF new
<1>11. \A i, j \in 1 .. n : new[i] = new[j] => i = j
  <2> SUFFICES ASSUME NEW i \in 1 .. n, NEW j \in 1 .. n, new[i] = new[j]
               PROVE  i = j
    OBVIOUS
  <2>1. i - 1 \in 0 .. n - 1 /\ j - 1 \in 0 .. n - 1 /\ stab[i - 1] = stab[j - 1]
    BY <1>5, <1>10
  <2>2. i - 1 = j - 1
    BY <1>9, <2>1
  <2> QED
    BY <1>5, <2>2
<1>12. DOMAIN stab = 0 .. n - 1 /\ Cardinality(DOMAIN stab) = n
  <2>1. n - 1 \in Int /\ 0 \in Int
    BY <1>5
  <2>2. Cardinality(0 .. n - 1) = IF 0 > n - 1 THEN 0 ELSE (n - 1) - 0 + 1
    BY <2>1, FS_Interval
  <2> QED
    BY <1>5, <2>2
<1> DEFINE Place(s) == CHOOSE i \in DOMAIN stab : stab[i] = s
           After(s) == IF Place(s) = n - 1 THEN NoStudent
                       ELSE stab[Place(s) + 1]
<1>13. ASSUME NEW i \in 0 .. n - 1
       PROVE  After(stab[i]) = IF i = n - 1 THEN NoStudent ELSE stab[i + 1]
  <2>1. Place(stab[i]) = i
    BY <1>9, <1>12
  <2> HIDE DEF Place
  <2> QED
    BY <2>1
<1>14. /\ head' = [head EXCEPT ![x] = stab[0]]
       /\ link' = [link EXCEPT ![x] =
                     [s \in Student |-> IF \E i \in DOMAIN stab : stab[i] = s
                                        THEN After(s) ELSE link[x][s]]]
  BY <1>3, <1>12 DEF Relink
<1>15. \A i \in 0 .. n - 1 : After(stab[i]) \in Pointer
  <2> HIDE DEF After
  <2>1. ASSUME NEW i \in 0 .. n - 1 PROVE After(stab[i]) \in Pointer
    <3>1. CASE i = n - 1
      BY <1>13, <3>1 DEF Pointer
    <3>2. CASE i # n - 1
      <4>1. i + 1 \in 0 .. n - 1
        BY <1>5, <3>2
      <4> QED
        BY <1>5, <1>13, <3>2, <4>1 DEF Pointer
    <3> QED
      BY <3>1, <3>2
  <2> QED
    BY <2>1
<1> HIDE DEF After
<1>16. x \in List /\ 0 .. ns \subseteq List
  BY <1>2, NextList
<1> DEFINE row == [s \in Student |-> IF \E i \in DOMAIN stab : stab[i] = s
                                     THEN After(s) ELSE link[x][s]]
<1>17. /\ row \in [Student -> Pointer]
       /\ \A i \in 0 .. n - 1 : row[stab[i]] = After(stab[i])
  <2>1. ASSUME NEW s \in Student
        PROVE  (IF \E i \in DOMAIN stab : stab[i] = s
                THEN After(s) ELSE link[x][s]) \in Pointer
    <3>1. CASE \E i \in DOMAIN stab : stab[i] = s
      BY <1>12, <1>15, <3>1
    <3>2. CASE ~ \E i \in DOMAIN stab : stab[i] = s
      BY <1>2, <1>16, <3>2
    <3> QED
      BY <3>1, <3>2
  <2>2. row \in [Student -> Pointer]
    BY <2>1
  <2>3. \A i \in 0 .. n - 1 : row[stab[i]] = After(stab[i])
    BY <1>5, <1>12
  <2> QED
    BY <2>2, <2>3
<1>18. link' = [link EXCEPT ![x] = row]
  BY <1>14
<1> HIDE DEF row
<1>19. /\ head' \in [List -> Pointer] /\ head'[x] = stab[0]
       /\ link' \in [List -> [Student -> Pointer]] /\ link'[x] = row
       /\ \A y \in 0 .. ns : y # x => head'[y] = head[y] /\ link'[y] = link[y]
  <2>1. stab[0] \in Pointer
    BY <1>5 DEF Pointer
  <2> QED
    BY <1>2, <1>14, <1>16, <1>17, <1>18, <2>1
<1>20. IsChain(x, new)'
  <2>1. head'[x] = new[1]
    BY <1>5, <1>10, <1>19
  <2>2. ASSUME NEW i \in 1 .. n
        PROVE  link'[x][new[i]] = IF i = n THEN NoStudent ELSE new[i + 1]
    <3>1. i - 1 \in 0 .. n - 1 /\ (i - 1) + 1 = i /\ (i - 1 = n - 1 <=> i = n)
      BY <1>5
    <3>2. link'[x][new[i]] = After(stab[i - 1])
      BY <1>10, <1>17, <1>19, <3>1
    <3>3. i # n => new[i + 1] = stab[i]
      <4> SUFFICES ASSUME i # n PROVE new[i + 1] = stab[i]
        OBVIOUS
      <4>1. i + 1 \in 1 .. n /\ (i + 1) - 1 = i
        BY <1>5
      <4> QED
        BY <1>10, <4>1
    <3> QED
      BY <1>13, <3>1, <3>2, <3>3
  <2>3. new' = new
    BY <1>1 DEF new
  <2> QED
    BY <1>5, <1>10, <1>11, <2>1, <2>2, <2>3 DEF IsChain
<1>21. Rearranged(new, given[x])
  <2>1. PICK q \in [1 .. n -> 1 .. n] :
          /\ \A i, j \in 1 .. n : q[i] = q[j] => i = j
          /\ \A i \in 1 .. n : seq[i] = given[x][q[i]]
    BY <1>4 DEF Rearranged, n
  <2>2. n = Len(given[x])
    BY <1>4 DEF Rearranged, n
  <2> DEFINE r == [i \in 1 .. n |-> q[n - p[i - 1]]]
  <2>3. \A i \in 1 .. n : /\ i - 1 \in 0 .. n - 1
                          /\ p[i - 1] \in 0 .. n - 1
                          /\ n - p[i - 1] \in 1 .. n
    <3>1. ASSUME NEW i \in 1 .. n
          PROVE  i - 1 \in 0 .. n - 1 /\ p[i - 1] \in 0 .. n - 1
      BY <1>5, <1>7
    <3>2. ASSUME NEW i \in 1 .. n
          PROVE  n - p[i - 1] \in 1 .. n
      <4>1. p[i - 1] \in 0 .. n - 1
        BY <3>1
      <4> QED
        BY <1>7a, <4>1
    <3> QED
      BY <3>1, <3>2
  <2>4. r \in [1 .. n -> 1 .. n]
    BY <2>1, <2>3
  <2>5. ASSUME NEW i \in 1 .. n, NEW j \in 1 .. n, r[i] = r[j]
        PROVE  i = j
    <3>1. n - p[i - 1] = n - p[j - 1]
      BY <2>1, <2>3, <2>5
    <3>4. p[i - 1] \in 0 .. n - 1 /\ p[j - 1] \in 0 .. n - 1
      BY <2>3
    <3>2. p[i - 1] = p[j - 1]
      BY <1>7a, <3>1, <3>4
    <3>3. i - 1 = j - 1
      BY <1>6, <2>3, <3>2 DEF Table, n
    <3> QED
      BY <3>3
  <2>6. ASSUME NEW i \in 1 .. n
        PROVE  new[i] = given[x][r[i]]
    <3>1. new[i] = stab[i - 1] /\ stab[i - 1] = seq[n - p[i - 1]]
      BY <1>7, <1>10, <2>3
    <3> QED
      BY <2>1, <2>3, <3>1
  <2> HIDE DEF r
  <2>7. Len(new) = Len(given[x]) /\ Len(new) = n
    BY <1>10, <2>2
  <2> HIDE DEF n
  <2> QED
    BY <2>4, <2>5, <2>6, <2>7 DEF Rearranged
<1>22. InOrder(new)
  <2>1. ASSUME NEW i \in 1 .. n, NEW j \in 1 .. n, i < j
        PROVE  Compare(new[i], new[j]) <= 0
    <3>1. i - 1 \in 0 .. n - 1 /\ j - 1 \in 0 .. n - 1 /\ i - 1 < j - 1
      BY <1>5, <2>1
    <3> QED
      BY <1>8, <1>10, <3>1
  <2> QED
    BY <1>10, <2>1 DEF InOrder
<1>23. ListIsKept(ns, x, given[x])'
  <2>1. PICK s \in Seq(Student) : s = new
    BY <1>10
  <2>2. IsChain(x, s)' /\ Rearranged(s, given[x]) /\ InOrder(s)'
    <3>1. new' = new
      BY <1>1 DEF new
    <3> QED
      BY <1>1, <1>20, <1>21, <1>22, <2>1, <3>1 DEF IsChain, InOrder, Compare
  <2> QED
    BY <2>2 DEF ListIsKept
<1>24. \A y \in 0 .. ns : ListIsKept(ns, y, given[y])'
  BY <1>1, <1>2, <1>3, <1>19, <1>23, OthersAreKept
<1>25. TodoIsRest(ns)'
  BY <1>1, <1>2, TailIsRest
<1> QED
  BY <1>1, <1>2, <1>19, <1>24, <1>25 DEF RostersInv, TableHoldsList

(* Whatever the sort does, it keeps the lists.                             *)
LEMMA RostersStep ==
  ASSUME NEW ns \in 0 .. MaxSections, NEW given \in [0 .. ns -> Seq(Student)],
         RostersInv(ns, given), [SortNext]_sortVars
  PROVE  RostersInv(ns, given)'
<1>1. CASE SortNobody
  BY <1>1, SortNobodyKeeps
<1>2. CASE FillTable
  BY <1>2, FillTableKeeps
<1>3. CASE TableNext
  BY <1>3, TableNextKeeps
<1>4. CASE Relink
  BY <1>4, RelinkKeeps
<1>5. CASE UNCHANGED sortVars
  <2>1. UNCHANGED <<head, link, todo, compare, stab, calls, part, at>>
    BY <1>5 DEF sortVars
  <2>2. \A y, s : IsChain(y, s)' = IsChain(y, s) /\ InOrder(s)' = InOrder(s)
    BY <2>1 DEF IsChain, InOrder, Compare
  <2>3. \A n, b : SortInv(n, b) => SortInv(n, b)'
    BY <2>1 DEF SortInv, Types, RangesAreApart, PartitionGoesOn,
                OrderedApart, Together, Rearranges, Compare, Low, High
  <2>4. TodoIsRest(ns)' = TodoIsRest(ns)
    BY <2>1 DEF TodoIsRest
  <2>5. \A y \in 0 .. ns : ListIsKept(ns, y, given[y])'
    BY <2>1, <2>2 DEF RostersInv, ListIsKept
  <2>6. TableHoldsList(given)'
    <3>1. SUFFICES ASSUME at # "rosters" PROVE TableHoldsList(given)'
      BY <2>1 DEF TableHoldsList
    <3>2. todo # <<>>
      BY <3>1 DEF RostersInv, TableHoldsList
    <3>3. PICK seq \in Seq(Student) :
            /\ IsChain(Head(todo), seq) /\ Len(seq) # 0
            /\ Rearranged(seq, given[Head(todo)])
            /\ SortInv(Len(seq), Backwards(seq))
      BY <3>1 DEF RostersInv, TableHoldsList
    <3>4. IsChain(Head(todo), seq)' /\ SortInv(Len(seq), Backwards(seq))'
      <4>1. IsChain(Head(todo), seq)'
        BY <2>1, <3>3 DEF IsChain
      <4>2. PICK b : b = Backwards(seq)
        OBVIOUS
      <4>3. SortInv(Len(seq), b)'
        BY <2>3, <3>3, <4>2
      <4>4. Backwards(seq)' = b
        BY <4>2 DEF Backwards, Table
      <4> QED
        BY <4>1, <4>2, <4>3, <4>4
    <3> QED
      BY <2>1, <3>2, <3>3, <3>4 DEF TableHoldsList
  <2> QED
    BY <2>1, <2>4, <2>5, <2>6 DEF RostersInv
<1> QED
  BY <1>1, <1>2, <1>3, <1>4, <1>5 DEF SortNext, TableNext

(* Every list holds whom it held, and those that were sorted are in order. *)
THEOREM RostersInvariant ==
  ASSUME NEW ns \in 0 .. MaxSections, NEW given \in [0 .. ns -> Seq(Student)],
         NEW rank \in [Student -> Int]
  PROVE  RostersSpec(ns, given, rank) => []RostersInv(ns, given)
<1>1. RostersCalled(ns, given, rank) => RostersInv(ns, given)
  BY RostersStart
<1>2. RostersInv(ns, given) /\ [SortNext]_sortVars => RostersInv(ns, given)'
  BY RostersStep
<1> QED
  BY <1>1, <1>2, PTL DEF RostersSpec

(* When sortrosters() has done all lists, each roster holds those it held, *)
(* each once and nobody else, in an order in which nobody comes after one  *)
(* who is greater: the copy into the table, the quicksort and the linking  *)
(* lose nobody, whatever the rosters are and whatever is compared.         *)
THEOREM SortsTheRosters ==
  ASSUME NEW ns \in 0 .. MaxSections, NEW given \in [0 .. ns -> Seq(Student)],
         NEW rank \in [Student -> Int]
  PROVE  RostersSpec(ns, given, rank) => []RostersAreSorted(ns, given)
<1>1. RostersInv(ns, given) => RostersAreSorted(ns, given)
  <2> SUFFICES ASSUME RostersInv(ns, given), todo = <<>>, NEW x \in 0 .. ns
               PROVE  Rearranged(Roster(x), given[x]) /\ InOrder(Roster(x))
    BY DEF RostersAreSorted, Sorting
  <2>1. ns \in Nat /\ x <= ns - Len(todo)
    BY SortAssumption
  <2>2. PICK seq \in Seq(Student) :
          IsChain(x, seq) /\ Rearranged(seq, given[x]) /\ InOrder(seq)
    BY <2>1 DEF RostersInv, ListIsKept
  <2>3. Roster(x) = seq
    BY <2>2, RosterOfChain
  <2> QED
    BY <2>2, <2>3
<1> QED
  BY <1>1, RostersInvariant, PTL
=============================================================================
