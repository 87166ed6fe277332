------------------------------ MODULE GradeSort ------------------------------
(***************************************************************************)
(* sort.c of hw2: the roster of the course and those of its sections are   *)
(* linked lists over the same students; each is sorted by copying it into  *)
(* a table, sorting the table with a quicksort, and linking the students   *)
(* again in the order of the table.                                        *)
(*                                                                         *)
(* The quicksort is recursive in the code; calls is the stack of the calls *)
(* of sorttable that are still to be made, each with its low and high, but *)
(* for those that return at once.  A range that is sorted again and again  *)
(* is thus a loop.  An iteration of the loop of partition is an action.    *)
(***************************************************************************)
EXTENDS Integers, Sequences, FiniteSets

CONSTANTS Student,      \* the students there may be
          NoStudent,    \* the null pointer
          MaxSections   \* how many sections there may be

ASSUME SortAssumption ==
  /\ NoStudent \notin Student
  /\ IsFiniteSet(Student)
  /\ MaxSections \in Nat

(* The course roster is linked by cnext and is list 0; that of section k   *)
(* is linked by next.  A student is in one section only, so one function   *)
(* for each list holds what the two fields of each student hold.           *)
Course == 0
List == Course .. MaxSections

VARIABLES
  head,      \* the first student of each list
  link,      \* for each list, the student after each student
  todo,      \* the lists sortrosters() has still to sort
  compare,   \* the students' ranks in the order of the comparison function
  stab,      \* the table of students, from 0
  calls,     \* the calls of sorttable to be made, the next one first
  part,      \* the variables of partition()
  at         \* "rosters", "table" or "partition": where the sort is

sortVars == <<head, link, todo, compare, stab, calls, part, at>>

Pointer == Student \cup {NoStudent}
NoLinks == [x \in List |-> [s \in Student |-> NoStudent]]
NoPartition == [l |-> 0, h |-> 0, alt |-> 1, pivot |-> NoStudent]

-----------------------------------------------------------------------------
(* The students a walk over a list visits, NoStudent from its end on.      *)
Walk(x) ==
  LET sp[k \in 0 .. Cardinality(Student)] ==
        IF k = 0 THEN head[x]
        ELSE LET s == sp[k - 1]
             IN  IF s = NoStudent THEN NoStudent ELSE link[x][s]
  IN  sp

(* Count students.                                                         *)
Count(x) ==
  Cardinality({k \in 0 .. Cardinality(Student) : Walk(x)[k] # NoStudent})

Roster(x) == [k \in 1 .. Count(x) |-> Walk(x)[k - 1]]

(* Negative, zero or positive like the comparison function's result.       *)
Compare(s, t) == compare[s] - compare[t]

Sorting == todo # <<>>

(* sortrosters(): the course first, then its ns sections.                  *)
SortRosters(ns, ranks) ==
  /\ todo' = [k \in 1 .. ns + 1 |-> k - 1]
  /\ compare' = ranks
  /\ UNCHANGED <<head, link, stab, calls, part, at>>

(* sortroster() of an empty list returns at once.                          *)
SortNobody ==
  /\ at = "rosters" /\ Sorting
  /\ Count(Head(todo)) = 0
  /\ head' = [head EXCEPT ![Head(todo)] = NoStudent]
  /\ todo' = Tail(todo)
  /\ UNCHANGED <<link, compare, stab, calls, part, at>>

(* sorttable() of an empty range returns.                                  *)
Call(low, high) == IF low = high THEN <<>> ELSE << <<low, high>> >>

(* Put students in table, the first one last, and call sorttable.          *)
FillTable ==
  /\ at = "rosters" /\ Sorting
  /\ LET n == Count(Head(todo))
     IN  /\ n # 0
         /\ stab' = [i \in 0 .. n - 1 |-> Walk(Head(todo))[n - 1 - i]]
         /\ calls' = Call(0, n)
  /\ at' = "table"
  /\ UNCHANGED <<head, link, todo, compare, part>>

Low == Head(calls)[1]
High == Head(calls)[2]

(* sorttable() calls partition().                                          *)
StartPartition ==
  /\ at = "table" /\ calls # <<>>
  /\ part' = [l |-> Low, h |-> High, alt |-> 1,
              pivot |-> stab[(Low + High) \div 2]]
  /\ at' = "partition"
  /\ UNCHANGED <<head, link, todo, compare, stab, calls>>

(* Mutant: students like the pivot always go low.                          *)
SideEqualLow == Compare(stab[part.l], part.pivot)

(* Which side the student at l goes to: those that are like the pivot go   *)
(* to the high and to the low side in turns.                               *)
Side ==
  LET c == Compare(stab[part.l], part.pivot) IN IF c = 0 THEN part.alt ELSE c

NextAlt ==
  IF Compare(stab[part.l], part.pivot) = 0 THEN -part.alt ELSE part.alt

PutHigh ==
  /\ at = "partition" /\ part.l < part.h
  /\ Side > 0
  /\ stab' = [stab EXCEPT ![part.h - 1] = stab[part.l],
                          ![part.l] = stab[part.h - 1]]
  /\ part' = [part EXCEPT !.h = part.h - 1, !.alt = NextAlt]
  /\ UNCHANGED <<head, link, todo, compare, calls, at>>

PutLow ==
  /\ at = "partition" /\ part.l < part.h
  /\ Side <= 0
  /\ part' = [part EXCEPT !.l = part.l + 1, !.alt = NextAlt]
  /\ UNCHANGED <<head, link, todo, compare, stab, calls, at>>

(* Mutant: the student in the middle is left out of both ranges.           *)
HalvesWithoutMiddle(middle) ==
  IF Low + 1 = High THEN <<>>
  ELSE Call(Low, middle) \o
         IF middle = High THEN <<>> ELSE Call(middle + 1, High)

(* The two recursive calls of sorttable, none for a single student.        *)
Halves(middle) ==
  IF Low + 1 = High THEN <<>> ELSE Call(Low, middle) \o Call(middle, High)

EndPartition ==
  /\ at = "partition" /\ part.l >= part.h
  /\ calls' = Halves(part.l) \o Tail(calls)
  /\ at' = "table"
  /\ UNCHANGED <<head, link, todo, compare, stab, part>>

(* Relink students in order.                                               *)
Relink ==
  /\ at = "table" /\ calls = <<>>
  /\ LET x == Head(todo)
         n == Cardinality(DOMAIN stab)
         After(s) == LET i == CHOOSE i \in DOMAIN stab : stab[i] = s
                     IN  IF i = n - 1 THEN NoStudent ELSE stab[i + 1]
     IN  /\ head' = [head EXCEPT ![x] = stab[0]]
         /\ link' = [link EXCEPT ![x] =
                       [s \in Student |-> IF \E i \in DOMAIN stab : stab[i] = s
                                          THEN After(s) ELSE link[x][s]]]
  /\ todo' = Tail(todo)
  /\ at' = "rosters"
  /\ UNCHANGED <<compare, stab, calls, part>>

SortInit ==
  /\ todo = <<>> /\ calls = <<>> /\ at = "rosters"
  /\ compare = [s \in Student |-> 0]
  /\ stab = <<>>
  /\ part = NoPartition

SortNext ==
  \/ SortNobody \/ FillTable
  \/ StartPartition \/ PutHigh \/ PutLow \/ EndPartition
  \/ Relink
=============================================================================
