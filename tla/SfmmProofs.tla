----------------------------- MODULE SfmmProofs -----------------------------
(***************************************************************************)
(* What holds of the allocator for any page size, number of pages, sizes   *)
(* requested and words written.                                            *)
(*                                                                         *)
(* HeapInv, at the end, is the inductive invariant: there is a set of      *)
(* blocks that follow each other from the prologue to the epilogue         *)
(* (Tiles), their neighbours agree with them (Agrees), the free ones are   *)
(* in the lists (Lists), each where it belongs (Rests), and the ones in    *)
(* use are those the program holds (Served).  Inside a call less is true;  *)
(* each helper of Sfmm has a lemma that says what it needs and what it     *)
(* leaves: a Mild change moves no block, Keeps is what the blocks in use   *)
(* rely on.  A set of blocks is always given, never computed: that the     *)
(* walks of the code find it is WalkFinds.                                 *)
(*                                                                         *)
(* All of it needs that split leaves nothing over that is too small for a  *)
(* block.  NothingStaysOver shows that of regular sizes.                   *)
(***************************************************************************)
EXTENDS Sfmm, FiniteSetTheorems, SequenceTheorems, WellFoundedInduction, TLAPS

-----------------------------------------------------------------------------
(* The memory.                                                             *)

Cell == [foot : Word, head : Word]
ListNumbers == 0 .. NUM_FREE_LISTS - 1

(* What an assignment to memory leaves alone.                              *)
OnlyMemory(h, t) == t \in Heaps /\ t.pages = h.pages /\ t.lists = h.lists

(* What SfmmAssumption says of the constants, and ten free lists.          *)
LEMMA ConstantsAreNumbers ==
    /\ PageUnits \in Nat /\ PageUnits >= 8
    /\ MaxPages \in Nat /\ MaxPages >= 1
    /\ MaxPages * PageUnits \in Nat
    /\ Units \subseteq Nat
    /\ Zero \in Word /\ Link \in Word
    /\ ListNumbers = 0 .. 9
  <1>1. PageUnits \in Nat /\ PageUnits >= 8 /\ MaxPages \in Nat /\ MaxPages >= 1
    BY SfmmAssumption
  <1>2. MaxPages * PageUnits \in Nat
    BY <1>1
  <1> QED
    BY <1>1, <1>2
    DEF Zero, Link, set_header, Word, ListNumbers, NUM_FREE_LISTS, Units

(* The end of a heap is in the memory, and so is every unit before it.     *)
LEMMA HeapTypes ==
  ASSUME NEW h \in Heaps
  PROVE  /\ h.pages \in 0 .. MaxPages
         /\ h.lists \in [ListNumbers -> Seq(Units)]
         /\ End(h) \in Units
         /\ Epilogue(h) = End(h) - 1
         /\ \A u \in 0 .. End(h) : u \in Units
  <1>1. h.pages \in 0 .. MaxPages /\ h.lists \in [ListNumbers -> Seq(Units)]
    BY DEF Heaps, ListNumbers
  <1>a. \A m, n, k \in Nat : m <= n => m * k \in Nat /\ m * k <= n * k
    OBVIOUS
  <1>2. h.pages * PageUnits \in Nat /\ h.pages * PageUnits <= MaxPages * PageUnits
    <2>1. /\ h.pages \in Nat /\ MaxPages \in Nat /\ h.pages <= MaxPages
          /\ PageUnits \in Nat
      BY <1>1, ConstantsAreNumbers
    <2> QED
      BY <1>a, <2>1, Zenon
  <1> QED
    BY <1>1, <1>2, ConstantsAreNumbers DEF End, Epilogue, Units

(* Every unit holds two words, whose fields have their types.              *)
LEMMA WordTypes ==
  ASSUME NEW h \in Heaps, NEW u \in Units
  PROVE  /\ h.mem[u] \in Cell
         /\ Header(h, u) \in Word
         /\ Footer(h, u) \in Word
         /\ Header(h, u).size \in Nat
         /\ Footer(h, u).size \in Nat
         /\ Header(h, u).alloc \in BOOLEAN
         /\ Header(h, u).prev \in BOOLEAN
  <1>1. h.mem[u] \in Cell
    BY DEF Heaps, Cell
  <1> QED
    BY <1>1 DEF Header, Footer, Cell, Word

(* An assignment to a unit leaves all other units alone.                   *)
LEMMA WriteIsWritten ==
  ASSUME NEW h \in Heaps, NEW u \in Units, NEW f \in Word, NEW g \in Word
  PROVE  /\ OnlyMemory(h, Write(h, u, f, g))
         /\ \A v \in Units : Write(h, u, f, g).mem[v] =
                     IF v = u THEN [foot |-> f, head |-> g] ELSE h.mem[v]
  <1> DEFINE c == [foot |-> f, head |-> g]
  <1>1. c \in Cell
    BY DEF Cell
  <1> HIDE DEF c
  <1>2. Write(h, u, f, g) = [h EXCEPT !.mem = [h.mem EXCEPT ![u] = c]]
    BY DEF Write, c
  <1>3. h.mem \in [Units -> Cell]
    BY DEF Heaps, Cell
  <1>4. /\ [h.mem EXCEPT ![u] = c] \in [Units -> Cell]
        /\ \A v \in Units : [h.mem EXCEPT ![u] = c][v] =
                              IF v = u THEN c ELSE h.mem[v]
    BY <1>1, <1>3
  <1>5. OnlyMemory(h, Write(h, u, f, g))
    BY <1>2, <1>4 DEF OnlyMemory, Heaps, Cell
  <1>6. Write(h, u, f, g).mem = [h.mem EXCEPT ![u] = c]
    BY <1>2 DEF Heaps
  <1> QED
    BY <1>4, <1>5, <1>6 DEF c

(* A footer is written: no header changes and no other footer.             *)
LEMMA FootIsSet ==
  ASSUME NEW h \in Heaps, NEW u \in Units, NEW w \in Word
  PROVE  /\ OnlyMemory(h, SetFoot(h, u, w))
         /\ \A v \in Units : Header(SetFoot(h, u, w), v) = Header(h, v)
         /\ \A v \in Units : Footer(SetFoot(h, u, w), v) =
                               IF v = u THEN w ELSE Footer(h, v)
         /\ \A v \in Units : v # u => SetFoot(h, u, w).mem[v] = h.mem[v]
  <1>1. Header(h, u) \in Word
    BY WordTypes
  <1>2. SetFoot(h, u, w) = Write(h, u, w, Header(h, u))
    BY DEF SetFoot
  <1>3. PICK t : t = SetFoot(h, u, w)
    OBVIOUS
  <1>4. /\ OnlyMemory(h, t)
        /\ \A v \in Units : t.mem[v] =
             IF v = u THEN [foot |-> w, head |-> Header(h, u)] ELSE h.mem[v]
    BY <1>1, <1>2, <1>3, WriteIsWritten
  <1>5. \A v \in Units : /\ v # u => t.mem[v] = h.mem[v]
                         /\ v = u => /\ t.mem[v].foot = w
                                     /\ t.mem[v].head = Header(h, u)
    BY <1>4
  <1> QED
    BY <1>3, <1>4, <1>5 DEF Header, Footer

(* A header is written: no footer changes and no other header.             *)
LEMMA HeadIsSet ==
  ASSUME NEW h \in Heaps, NEW u \in Units, NEW w \in Word
  PROVE  /\ OnlyMemory(h, SetHead(h, u, w))
         /\ \A v \in Units : Footer(SetHead(h, u, w), v) = Footer(h, v)
         /\ \A v \in Units : Header(SetHead(h, u, w), v) =
                               IF v = u THEN w ELSE Header(h, v)
         /\ \A v \in Units : v # u => SetHead(h, u, w).mem[v] = h.mem[v]
  <1>1. Footer(h, u) \in Word
    BY WordTypes
  <1>2. SetHead(h, u, w) = Write(h, u, Footer(h, u), w)
    BY DEF SetHead
  <1>3. PICK t : t = SetHead(h, u, w)
    OBVIOUS
  <1>4. /\ OnlyMemory(h, t)
        /\ \A v \in Units : t.mem[v] =
             IF v = u THEN [foot |-> Footer(h, u), head |-> w] ELSE h.mem[v]
    BY <1>1, <1>2, <1>3, WriteIsWritten
  <1>5. \A v \in Units : /\ v # u => t.mem[v] = h.mem[v]
                         /\ v = u => /\ t.mem[v].foot = Footer(h, u)
                                     /\ t.mem[v].head = w
    BY <1>4
  <1> QED
    BY <1>3, <1>4, <1>5 DEF Header, Footer

(* A header is the same but for its prv alloc bit.                         *)
SameHead(h, t, u) ==
  /\ Header(t, u).pay = Header(h, u).pay
  /\ Header(t, u).size = Header(h, u).size
  /\ Header(t, u).alloc = Header(h, u).alloc

(* The prv alloc bit is written: nothing else of the header changes.       *)
LEMMA PrevIsSet ==
  ASSUME NEW h \in Heaps, NEW u \in Units, NEW bit \in BOOLEAN
  PROVE  /\ OnlyMemory(h, SetPrev(h, u, bit))
         /\ \A v \in Units : Footer(SetPrev(h, u, bit), v) = Footer(h, v)
         /\ \A v \in Units : v # u => Header(SetPrev(h, u, bit), v) = Header(h, v)
         /\ \A v \in Units : v # u => SetPrev(h, u, bit).mem[v] = h.mem[v]
         /\ \A v \in Units : SameHead(h, SetPrev(h, u, bit), v)
         /\ Header(SetPrev(h, u, bit), u).prev = bit
  <1>1. PICK w : w = [Header(h, u) EXCEPT !.prev = bit]
    OBVIOUS
  <1>2. /\ w \in Word
        /\ w.pay = Header(h, u).pay /\ w.size = Header(h, u).size
        /\ w.alloc = Header(h, u).alloc /\ w.prev = bit
    BY <1>1, WordTypes DEF Word
  <1>3. SetPrev(h, u, bit) = SetHead(h, u, w)
    BY <1>1 DEF SetPrev
  <1>4. PICK t : t = SetPrev(h, u, bit)
    OBVIOUS
  <1>5. /\ OnlyMemory(h, t)
        /\ \A v \in Units : Footer(t, v) = Footer(h, v)
        /\ \A v \in Units : Header(t, v) = IF v = u THEN w ELSE Header(h, v)
        /\ \A v \in Units : v # u => t.mem[v] = h.mem[v]
    BY <1>2, <1>3, <1>4, HeadIsSet
  <1>6. \A v \in Units : SameHead(h, t, v)
    BY <1>2, <1>5 DEF SameHead
  <1> QED
    BY <1>1, <1>2, <1>4, <1>5, <1>6

-----------------------------------------------------------------------------
(* The free lists.                                                         *)

(* Every block of F is in one of the lists, at one place.                  *)
Lists(L, F) ==
  /\ L \in [ListNumbers -> Seq(Units)]
  /\ \A i \in ListNumbers : IsInjective(L[i])
  /\ \A i, j \in ListNumbers :
       i # j => \A b \in ToSet(L[i]) : b \notin ToSet(L[j])
  /\ \A b : b \in F <=> \E i \in ListNumbers : b \in ToSet(L[i])

(* Block b comes into list i; b goes out of its list.                      *)
Gains(L, M, b, i) ==
  \A j \in ListNumbers : \A c :
    c \in ToSet(M[j]) <=> c \in ToSet(L[j]) \/ (c = b /\ j = i)
Loses(L, M, b) ==
  \A j \in ListNumbers : \A c : c \in ToSet(M[j]) <=> c \in ToSet(L[j]) /\ c # b

(* Nothing but b changes its list.                                         *)
SameBut(L, M, b) ==
  \A j \in ListNumbers : \A c :
    c # b => (c \in ToSet(M[j]) <=> c \in ToSet(L[j]))

(* What unlinking leaves of a list: those before in place, those behind    *)
(* one place further to the front.                                         *)
LEMMA RemoveAtProperties ==
  ASSUME NEW S, NEW s \in Seq(S), NEW i \in 1 .. Len(s)
  PROVE  /\ RemoveAt(s, i) \in Seq(S)
         /\ Len(RemoveAt(s, i)) = Len(s) - 1
         /\ \A j \in 1 .. Len(s) - 1 :
              RemoveAt(s, i)[j] = IF j < i THEN s[j] ELSE s[j + 1]
<1> DEFINE a == SubSeq(s, 1, i - 1)
           b == SubSeq(s, i + 1, Len(s))
<1>0. Len(s) \in Nat /\ s \in [1 .. Len(s) -> S]
  BY LenProperties
<1>1. /\ a \in Seq(S)
      /\ Len(a) = i - 1
      /\ \A j \in 1 .. i - 1 : a[j] = s[j]
  <2>1. \A j \in 1 .. i - 1 : s[j] \in S
    BY <1>0
  <2> QED
    BY <2>1, <1>0, SubSeqProperties
<1>2. /\ b \in Seq(S)
      /\ Len(b) = Len(s) - i
      /\ \A j \in 1 .. Len(s) - i : b[j] = s[i + j]
  <2>1. \A j \in i + 1 .. Len(s) : s[j] \in S
    BY <1>0
  <2>2. /\ b \in Seq(S)
        /\ Len(b) = IF i + 1 <= Len(s) THEN Len(s) - (i + 1) + 1 ELSE 0
        /\ \A j \in 1 .. Len(s) - (i + 1) + 1 : b[j] = s[(i + 1) + j - 1]
    <3>1. i + 1 \in Int /\ Len(s) \in Int
      BY <1>0
    <3> QED
      BY <2>1, <3>1, SubSeqProperties
  <2> HIDE DEF b
  <2>3. Len(b) = Len(s) - i
    <3>1. i \in Int /\ Len(s) \in Int /\ i <= Len(s)
      BY <1>0
    <3>2. Len(b) = IF i + 1 <= Len(s) THEN Len(s) - (i + 1) + 1 ELSE 0
      BY <2>2
    <3>3. CASE i + 1 <= Len(s)
      BY <3>1, <3>2, <3>3
    <3>4. CASE ~ (i + 1 <= Len(s))
      BY <3>1, <3>2, <3>4
    <3> QED
      BY <3>3, <3>4
  <2>4. ASSUME NEW j \in 1 .. Len(s) - i
        PROVE  b[j] = s[i + j]
    <3>1. j \in 1 .. Len(s) - (i + 1) + 1
      BY <1>0
    <3>2. (i + 1) + j - 1 = i + j
      BY <1>0
    <3>3. b[j] = s[(i + 1) + j - 1]
      BY <2>2, <3>1
    <3> QED
      BY <3>2, <3>3
  <2> QED
    BY <2>2, <2>3, <2>4
<1>3. RemoveAt(s, i) = a \o b
  BY DEF RemoveAt
<1> HIDE DEF a, b
<1>4. /\ a \o b \in Seq(S)
      /\ Len(a \o b) = Len(a) + Len(b)
      /\ \A j \in 1 .. Len(a) + Len(b) :
           (a \o b)[j] = IF j <= Len(a) THEN a[j] ELSE b[j - Len(a)]
  BY <1>1, <1>2, ConcatProperties
<1> QED
  BY <1>0, <1>1, <1>2, <1>3, <1>4

(* Unlinking a block takes it, and nothing else, out of a list that holds  *)
(* it once.                                                                *)
LEMMA RemovalRemoves ==
  ASSUME NEW s \in Seq(Units), IsInjective(s), NEW b \in ToSet(s)
  PROVE  /\ PlaceIn(s, b) \in DOMAIN s
         /\ s[PlaceIn(s, b)] = b
         /\ RemoveAt(s, PlaceIn(s, b)) \in Seq(Units)
         /\ IsInjective(RemoveAt(s, PlaceIn(s, b)))
         /\ ToSet(RemoveAt(s, PlaceIn(s, b))) = ToSet(s) \ {b}
  <1>1. PICK k : k = PlaceIn(s, b)
    OBVIOUS
  <1>2. k \in DOMAIN s /\ s[k] = b
    BY <1>1 DEF PlaceIn, ToSet
  <1>3. Len(s) \in Nat /\ DOMAIN s = 1 .. Len(s)
    BY LenProperties
  <1>4. PICK r : r = RemoveAt(s, k)
    OBVIOUS
  <1>5. /\ r \in Seq(Units)
        /\ Len(r) = Len(s) - 1
        /\ \A j \in 1 .. Len(s) - 1 : r[j] = IF j < k THEN s[j] ELSE s[j + 1]
    BY <1>2, <1>3, <1>4, RemoveAtProperties
  <1>6. DOMAIN r = 1 .. Len(s) - 1
    BY <1>5, LenProperties
  <1>7. \A m, n \in 1 .. Len(s) : s[m] = s[n] => m = n
    BY <1>3 DEF IsInjective
  <1>8. IsInjective(r)
    <2> SUFFICES ASSUME NEW m \in 1 .. Len(s) - 1, NEW n \in 1 .. Len(s) - 1,
                        r[m] = r[n]
                 PROVE  m = n
      BY <1>6 DEF IsInjective
    <2>1. PICK mm \in 1 .. Len(s) : mm = (IF m < k THEN m ELSE m + 1) /\ r[m] = s[mm]
      BY <1>2, <1>3, <1>5
    <2>2. PICK nn \in 1 .. Len(s) : nn = (IF n < k THEN n ELSE n + 1) /\ r[n] = s[nn]
      BY <1>2, <1>3, <1>5
    <2>3. mm = nn
      BY <1>7, <2>1, <2>2
    <2> QED
      BY <1>2, <1>3, <2>1, <2>2, <2>3
  <1>9. ToSet(r) = ToSet(s) \ {b}
    <2>1. ASSUME NEW c \in ToSet(r)
          PROVE  c \in ToSet(s) /\ c # b
      <3>1. PICK m \in 1 .. Len(s) - 1 : c = r[m]
        BY <1>6 DEF ToSet
      <3>2. PICK mm \in 1 .. Len(s) : mm # k /\ c = s[mm]
        <4>1. CASE m < k
          BY <1>3, <1>5, <3>1, <4>1
        <4>2. CASE ~ (m < k)
          <5>1. c = s[m + 1] /\ m + 1 \in 1 .. Len(s) /\ m + 1 # k
            BY <1>2, <1>3, <1>5, <3>1, <4>2
          <5> QED
            BY <5>1
        <4> QED
          BY <4>1, <4>2
      <3> QED
        BY <1>2, <1>3, <1>7, <3>2 DEF ToSet
    <2>2. ASSUME NEW c \in ToSet(s), c # b
          PROVE  c \in ToSet(r)
      <3>1. PICK m \in 1 .. Len(s) : c = s[m]
        BY <1>3 DEF ToSet
      <3>2. m # k
        BY <1>2, <2>2, <3>1
      <3>3. CASE m < k
        <4>1. m \in 1 .. Len(s) - 1 /\ r[m] = c
          BY <1>2, <1>3, <1>5, <3>1, <3>3
        <4> QED
          BY <1>6, <4>1 DEF ToSet
      <3>4. CASE m > k
        <4>1. m - 1 \in 1 .. Len(s) - 1 /\ r[m - 1] = c
          BY <1>2, <1>3, <1>5, <3>1, <3>4
        <4> QED
          BY <1>6, <4>1 DEF ToSet
      <3> QED
        BY <1>2, <1>3, <3>2, <3>3, <3>4
    <2> QED
      BY <2>1, <2>2
  <1> QED
    BY <1>1, <1>2, <1>4, <1>5, <1>8, <1>9

(* A block comes to the front of a list that does not hold it.             *)
LEMMA PushPushes ==
  ASSUME NEW s \in Seq(Units), IsInjective(s), NEW b \in Units, b \notin ToSet(s)
  PROVE  /\ <<b>> \o s \in Seq(Units)
         /\ IsInjective(<<b>> \o s)
         /\ ToSet(<<b>> \o s) = ToSet(s) \cup {b}
  <1>1. PICK r : r = <<b>> \o s
    OBVIOUS
  <1>2. Len(s) \in Nat /\ DOMAIN s = 1 .. Len(s)
    BY LenProperties
  <1>3. /\ r \in Seq(Units)
        /\ Len(r) = 1 + Len(s)
        /\ \A j \in 1 .. 1 + Len(s) : r[j] = IF j = 1 THEN b ELSE s[j - 1]
    <2>1. <<b>> \in Seq(Units) /\ Len(<<b>>) = 1 /\ <<b>>[1] = b
      OBVIOUS
    <2>2. PICK q : q = <<b>>
      OBVIOUS
    <2>3. /\ q \o s \in Seq(Units)
          /\ Len(q \o s) = 1 + Len(s)
          /\ \A j \in 1 .. 1 + Len(s) : (q \o s)[j] = IF j <= 1 THEN q[j] ELSE s[j - 1]
      BY <2>1, <2>2, ConcatProperties
    <2> QED
      BY <1>1, <1>2, <2>1, <2>2, <2>3
  <1>4. DOMAIN r = 1 .. 1 + Len(s)
    BY <1>3, LenProperties
  <1>5. \A j \in 1 .. Len(s) : s[j] # b
    BY <1>2 DEF ToSet
  <1>6. IsInjective(r)
    <2>1. \A m, n \in 1 .. Len(s) : s[m] = s[n] => m = n
      BY <1>2 DEF IsInjective
    <2> SUFFICES ASSUME NEW m \in 1 .. 1 + Len(s), NEW n \in 1 .. 1 + Len(s),
                        r[m] = r[n]
                 PROVE  m = n
      BY <1>4 DEF IsInjective
    <2> QED
      BY <1>2, <1>3, <1>5, <2>1
  <1>7. ASSUME NEW c \in ToSet(s)
        PROVE  c \in ToSet(r)
    <2>1. PICK m \in 1 .. Len(s) : c = s[m]
      BY <1>2 DEF ToSet
    <2>2. m + 1 \in 1 .. 1 + Len(s) /\ r[m + 1] = c
      BY <1>2, <1>3, <2>1
    <2> QED
      BY <1>4, <2>2 DEF ToSet
  <1>8. b \in ToSet(r)
    <2>1. 1 \in 1 .. 1 + Len(s) /\ r[1] = b
      BY <1>2, <1>3
    <2> QED
      BY <1>4, <2>1 DEF ToSet
  <1>9. ASSUME NEW c \in ToSet(r), c # b
        PROVE  c \in ToSet(s)
    <2>1. PICK m \in 1 .. 1 + Len(s) : c = r[m]
      BY <1>4 DEF ToSet
    <2>2. m - 1 \in 1 .. Len(s) /\ c = s[m - 1]
      BY <1>2, <1>3, <1>9, <2>1
    <2> QED
      BY <1>2, <2>2 DEF ToSet
  <1>10. ToSet(r) = ToSet(s) \cup {b}
    BY <1>7, <1>8, <1>9
  <1> QED
    BY <1>1, <1>3, <1>6, <1>10

(* A block enters a list.                                                  *)
LEMMA Entered ==
  ASSUME NEW L, NEW F, Lists(L, F), NEW b \in Units, b \notin F,
         NEW i \in ListNumbers, NEW r, r = <<b>> \o L[i],
         NEW M, M = [L EXCEPT ![i] = r]
  PROVE  Lists(M, F \cup {b}) /\ Gains(L, M, b, i)
  <1>1. L[i] \in Seq(Units) /\ IsInjective(L[i]) /\ b \notin ToSet(L[i])
    BY DEF Lists
  <1>3. r \in Seq(Units) /\ IsInjective(r) /\ ToSet(r) = ToSet(L[i]) \cup {b}
    BY <1>1, PushPushes
  <1>5. /\ M \in [ListNumbers -> Seq(Units)]
        /\ \A j \in ListNumbers : M[j] = IF j = i THEN r ELSE L[j]
    <2>1. L \in [ListNumbers -> Seq(Units)] /\ r \in Seq(Units)
      BY <1>3 DEF Lists
    <2> HIDE DEF ListNumbers
    <2> QED
      BY <2>1
  <1>6. ASSUME NEW j \in ListNumbers, NEW c
        PROVE  c \in ToSet(M[j]) <=> c \in ToSet(L[j]) \/ (c = b /\ j = i)
    <2>1. CASE j = i
      <3>1. M[j] = r /\ L[j] = L[i]
        BY <1>5, <2>1
      <3>2. ToSet(M[j]) = ToSet(L[j]) \cup {b}
        BY <1>3, <3>1
      <3> QED
        BY <2>1, <3>2
    <2>2. CASE j # i
      <3>1. M[j] = L[j]
        BY <1>5, <2>2
      <3>2. ToSet(M[j]) = ToSet(L[j])
        BY <3>1
      <3> QED
        BY <2>2, <3>2
    <2> QED
      BY <2>1, <2>2
  <1>7. \A j \in ListNumbers : IsInjective(M[j])
    BY <1>3, <1>5 DEF Lists
  <1>8. \A j \in ListNumbers : b \notin ToSet(L[j])
    BY DEF Lists
  <1>9. ASSUME NEW j \in ListNumbers, NEW k \in ListNumbers, j # k,
               NEW c \in ToSet(M[j])
        PROVE  c \notin ToSet(M[k])
    <2>1. c \in ToSet(L[j]) => c \notin ToSet(L[k])
      BY <1>9 DEF Lists
    <2> QED
      BY <1>6, <1>8, <1>9, <2>1
  <1>10. ASSUME NEW c
         PROVE  c \in F \cup {b} <=> \E j \in ListNumbers : c \in ToSet(M[j])
    <2>1. c \in F <=> \E j \in ListNumbers : c \in ToSet(L[j])
      BY DEF Lists
    <2> QED
      BY <1>6, <2>1
  <1>11. M \in [ListNumbers -> Seq(Units)]
    BY <1>5
  <1>12. Lists(M, F \cup {b})
    BY <1>7, <1>9, <1>10, <1>11 DEF Lists
  <1> QED
    BY <1>6, <1>12 DEF Gains

(* A block leaves a list.                                                  *)
LEMMA Left ==
  ASSUME NEW L, NEW F, Lists(L, F), NEW i \in ListNumbers, NEW b \in ToSet(L[i]),
         NEW r, r = RemoveAt(L[i], PlaceIn(L[i], b)),
         NEW M, M = [L EXCEPT ![i] = r]
  PROVE  Lists(M, F \ {b}) /\ Loses(L, M, b)
  <1>1. L[i] \in Seq(Units) /\ IsInjective(L[i])
    BY DEF Lists
  <1>3. r \in Seq(Units) /\ IsInjective(r) /\ ToSet(r) = ToSet(L[i]) \ {b}
    BY <1>1, RemovalRemoves
  <1>5. /\ M \in [ListNumbers -> Seq(Units)]
        /\ \A j \in ListNumbers : M[j] = IF j = i THEN r ELSE L[j]
    BY <1>3 DEF Lists
  <1>8. \A j \in ListNumbers : j # i => b \notin ToSet(L[j])
    BY DEF Lists
  <1>6. \A j \in ListNumbers : \A c :
              c \in ToSet(M[j]) <=> c \in ToSet(L[j]) /\ c # b
    BY <1>3, <1>5, <1>8
  <1>7. \A j \in ListNumbers : IsInjective(M[j])
    BY <1>3, <1>5 DEF Lists
  <1> QED
    BY <1>5, <1>6, <1>7 DEF Lists, Loses

(* The list that a block is in is found.                                   *)
LEMMA ListIsFound ==
  ASSUME NEW h \in Heaps, NEW F, Lists(h.lists, F), NEW b \in F
  PROVE  /\ ListOf(h, b) \in ListNumbers
         /\ b \in ToSet(h.lists[ListOf(h, b)])
         /\ \A i \in ListNumbers : b \in ToSet(h.lists[i]) => i = ListOf(h, b)
  <1>1. DOMAIN h.lists = ListNumbers
    BY DEF Lists
  <1>2. \E i \in DOMAIN h.lists : b \in Members(h, i)
    BY <1>1 DEF Lists, Members
  <1>3. ListOf(h, b) \in ListNumbers /\ b \in ToSet(h.lists[ListOf(h, b)])
    BY <1>1, <1>2 DEF ListOf, Members
  <1> QED
    BY <1>3 DEF Lists

-----------------------------------------------------------------------------
(* Blocks and footers.                                                     *)

(* Only a block in use has a payload size.                                 *)
HoldsOrFree(h, b) == Header(h, b).alloc \/ Header(h, b).pay = 0

(* B is the set of blocks of the heap: they follow each other, without     *)
(* gaps, from the prologue to the epilogue.                                *)
Tiles(h, B) ==
  /\ h \in Heaps
  /\ h.pages # 0
  /\ B \subseteq 0 .. Epilogue(h) - 1
  /\ 0 \in B
  /\ \A b \in B : /\ Header(h, b).size >= 2
                  /\ Next(h, b) \in B \cup {Epilogue(h)}
  /\ \A b, c \in B : b < c => Next(h, b) <= c
  /\ \A b \in B : HoldsOrFree(h, b)
  /\ Header(h, 0).alloc /\ Header(h, 0).size = 2 /\ Header(h, 0).pay = 0
  /\ Header(h, Epilogue(h)).size = 0
  /\ Header(h, Epilogue(h)).alloc

(* What is behind b tells the truth about it.                              *)
Agrees(h, b) ==
  /\ Footer(h, Next(h, b)).size = Header(h, b).size
  /\ Footer(h, Next(h, b)).alloc = Header(h, b).alloc
  /\ Header(h, Next(h, b)).prev = Header(h, b).alloc

(* The heap keeps its blocks; of the rest of the memory only units of S    *)
(* change, and none of them becomes the header of an allocated block.      *)
Mild(h, t, B, S) ==
  /\ t \in Heaps
  /\ t.pages = h.pages
  /\ \A v \in B \cup {Epilogue(h)} : SameHead(h, t, v)
  /\ \A v \in Units : v \notin B \cup {Epilogue(h)} \cup S => t.mem[v] = h.mem[v]
  /\ \A v \in S : v \in Units => ~ Header(t, v).alloc

(* What it means for blocks to follow each other: each ends where the next *)
(* begins, inside the memory, and no unit inside a block is one.           *)
LEMMA TilesFacts ==
  ASSUME NEW h, NEW B, Tiles(h, B)
  PROVE  /\ h \in Heaps
         /\ Epilogue(h) \in Units /\ Epilogue(h) + 1 \in Units
         /\ Epilogue(h) \in Nat
         /\ End(h) = Epilogue(h) + 1
         /\ B \subseteq Units /\ B \subseteq Nat
         /\ B \cup {Epilogue(h)} \subseteq Units
         /\ 0 \in B /\ Epilogue(h) \notin B
         /\ IsFiniteSet(B)
         /\ \A b \in B : /\ b \in Units /\ b \in Nat /\ b < Epilogue(h)
                         /\ Header(h, b) \in Word
                         /\ Header(h, b).size \in Nat
                         /\ Header(h, b).size >= 2
                         /\ Next(h, b) = b + Header(h, b).size
                         /\ Next(h, b) \in Units /\ Next(h, b) \in Nat
                         /\ Next(h, b) > b + 1
                         /\ Next(h, b) <= Epilogue(h)
                         /\ b + 1 \in Units /\ b + 1 \notin B
                         /\ Next(h, b) \in B \cup {Epilogue(h)}
         /\ \A b, c \in B : b < c => Next(h, b) <= c
         /\ \A b, c \in B : Next(h, b) = Next(h, c) => b = c
         /\ \A b \in B : \A v \in b + 1 .. Next(h, b) - 1 :
              v \in Units /\ v \notin B \cup {Epilogue(h)}
  <1>1. /\ h \in Heaps
        /\ End(h) \in Units
        /\ Epilogue(h) = End(h) - 1
        /\ \A u \in 0 .. End(h) : u \in Units
    BY HeapTypes DEF Tiles
  <1>2. Epilogue(h) \in Nat
    <2>1. 0 \in 0 .. Epilogue(h) - 1 /\ End(h) \in Nat
      BY <1>1, ConstantsAreNumbers DEF Tiles
    <2> QED
      BY <1>1, <2>1
  <1>3. Epilogue(h) \in Units /\ Epilogue(h) + 1 \in Units /\ End(h) = Epilogue(h) + 1
    <2>0. Units \subseteq Nat
      BY ConstantsAreNumbers
    <2>a. End(h) \in Nat
      BY <1>1, <2>0
    <2>b. Epilogue(h) = End(h) - 1
      BY <1>1
    <2>1. End(h) = Epilogue(h) + 1 /\ End(h) \in Nat
      BY <2>a, <2>b
    <2>2. Epilogue(h) \in 0 .. End(h) /\ End(h) \in 0 .. End(h)
      BY <1>2, <2>1
    <2> QED
      BY <1>1, <2>1, <2>2
  <1>t. B \subseteq 0 .. Epilogue(h) - 1 /\ 0 \in B
    BY DEF Tiles
  <1>4. B \subseteq Units /\ B \subseteq Nat /\ Epilogue(h) \notin B
    BY <1>1, <1>2, <1>3 DEF Tiles
  <1>5. IsFiniteSet(B)
    <2>1. IsFiniteSet(0 .. Epilogue(h) - 1)
      BY <1>2, FS_Interval
    <2> QED
      BY <2>1, FS_Subset DEF Tiles
  <1>6. ASSUME NEW b \in B
        PROVE  /\ b \in Units /\ b \in Nat /\ b < Epilogue(h)
               /\ Header(h, b) \in Word
               /\ Header(h, b).size \in Nat
               /\ Header(h, b).size >= 2
               /\ Next(h, b) = b + Header(h, b).size
               /\ Next(h, b) \in Units /\ Next(h, b) \in Nat
               /\ Next(h, b) > b + 1
               /\ Next(h, b) <= Epilogue(h)
               /\ Next(h, b) \in B \cup {Epilogue(h)}
    <2>1. b \in Units /\ b \in Nat /\ b < Epilogue(h)
      BY <1>2, <1>4 DEF Tiles
    <2>2. Header(h, b) \in Word /\ Header(h, b).size \in Nat
      BY <1>1, <2>1, WordTypes
    <2>3. Header(h, b).size >= 2 /\ Next(h, b) = b + Header(h, b).size
      BY DEF Tiles, Next
    <2>4. Next(h, b) \in B \cup {Epilogue(h)}
      BY DEF Tiles
    <2>5. Next(h, b) \in Units /\ Next(h, b) \in Nat /\ Next(h, b) <= Epilogue(h)
      <3>1. CASE Next(h, b) \in B
        <4>1. \A c \in B : c \in Units /\ c \in Nat /\ c <= Epilogue(h)
          BY <1>t, <1>2, <1>4
        <4> QED
          BY <3>1, <4>1
      <3>2. CASE Next(h, b) = Epilogue(h)
        BY <1>2, <1>3, <3>2
      <3> QED
        BY <2>4, <3>1, <3>2
    <2> QED
      BY <2>1, <2>2, <2>3, <2>4, <2>5
  <1>7. \A b, c \in B : b < c => Next(h, b) <= c
    BY DEF Tiles
  <1>8. \A b \in B : b + 1 \in Units /\ b + 1 \notin B
    <2> TAKE b \in B
    <2>1. b + 1 \in 0 .. End(h)
      BY <1>2, <1>3, <1>6
    <2>2. b + 1 \in B => Next(h, b) <= b + 1
      BY <1>6, <1>7
    <2> QED
      BY <1>1, <1>6, <2>1, <2>2
  <1>9. \A b, c \in B : Next(h, b) = Next(h, c) => b = c
    <2> SUFFICES ASSUME NEW b \in B, NEW c \in B, b < c
                 PROVE  Next(h, b) # Next(h, c)
      BY <1>6
    <2> QED
      BY <1>6, <1>7
  <1>10. \A b \in B : \A v \in b + 1 .. Next(h, b) - 1 :
              v \in Units /\ v \notin B \cup {Epilogue(h)}
    <2> TAKE b \in B
    <2> TAKE v \in b + 1 .. Next(h, b) - 1
    <2>1. b \in Nat /\ Next(h, b) \in Nat /\ Next(h, b) <= Epilogue(h)
      BY <1>6
    <2>2. v \in 0 .. End(h) /\ v # Epilogue(h) /\ b < v /\ ~ (Next(h, b) <= v)
      BY <1>2, <1>3, <2>1
    <2> QED
      BY <1>1, <1>7, <2>2
  <1> QED
    BY <1>1, <1>2, <1>3, <1>t, <1>4, <1>5, <1>6, <1>7, <1>8, <1>9, <1>10

(* Every block but the first follows one.                                  *)
LEMMA PredecessorExists ==
  ASSUME NEW h, NEW B, Tiles(h, B), NEW c \in B \cup {Epilogue(h)}, c # 0
  PROVE  \E p \in B : p < c /\ Next(h, p) = c
  <1> DEFINE E == Epilogue(h)
             R == OpToRel(LAMBDA x, y : x < y, Nat)
             T == {n \in Nat : E - n \in B /\ E - n < c}
  <1>t. B \subseteq 0 .. E - 1 /\ 0 \in B
    BY DEF Tiles
  <1>e. E \in Nat
    BY TilesFacts
  <1>1. E \in Nat /\ B \subseteq 0 .. E - 1 /\ 0 \in B /\ c \in Nat /\ c <= E
    <2> HIDE DEF E
    <2>1. c \in B \/ c = E
      BY DEF E
    <2> QED
      BY <1>t, <1>e, <2>1
  <1>2. E \in T
    BY <1>1
  <1>3. PICK n \in T : \A m \in T : ~ (m < n)
    <2>1. PICK n \in T : \A m \in T : ~ (<<m, n>> \in R)
      <3>1. T # {} /\ T \subseteq Nat
        BY <1>2
      <3> HIDE DEF T
      <3> QED
        BY <3>1, WFMin, NatLessThanWellFounded
    <2>2. \A m \in T : m < n => <<m, n>> \in R
      BY DEF OpToRel
    <2> QED
      BY <2>1, <2>2
  <1>4. PICK p \in B : p = E - n /\ p < c
    BY <1>3
  <1>5. p \in Nat /\ Next(h, p) \in Nat /\ Next(h, p) > p /\ Next(h, p) \in B \cup {E}
    <2>1. p \in Nat /\ Next(h, p) \in Nat /\ Next(h, p) > p + 1
      BY TilesFacts
    <2>2. Next(h, p) \in B \cup {E}
      BY DEF Tiles
    <2> QED
      BY <2>1, <2>2
  <1>6. Next(h, p) <= c
    <2>1. CASE c \in B
      BY <1>4, <2>1 DEF Tiles
    <2>2. CASE c = E
      BY <2>2, TilesFacts
    <2> QED
      BY <2>1, <2>2
  <1>7. ASSUME Next(h, p) < c
        PROVE  FALSE
    <2>1. Next(h, p) \in B
      BY <1>1, <1>5, <1>7
    <2>2. E - Next(h, p) \in T
      <3>1. E - (E - Next(h, p)) = Next(h, p) /\ E - Next(h, p) \in Nat
        BY <1>1, <1>5, <1>7
      <3> QED
        BY <1>7, <2>1, <3>1
    <2>3. E - Next(h, p) < n
      BY <1>1, <1>3, <1>4, <1>5
    <2> QED
      BY <1>3, <2>2, <2>3
  <1> QED
    BY <1>1, <1>4, <1>5, <1>6, <1>7

(* A mild change leaves the blocks where they are.                         *)
LEMMA MildKeepsTiles ==
  ASSUME NEW h, NEW B, NEW S, NEW t, Tiles(h, B), Mild(h, t, B, S)
  PROVE  /\ Tiles(t, B)
         /\ Epilogue(t) = Epilogue(h) /\ End(t) = End(h)
         /\ \A b \in B : Next(t, b) = Next(h, b)
  <1>1. Epilogue(t) = Epilogue(h) /\ End(t) = End(h)
    BY DEF Mild, Epilogue, End
  <1>2. \A b \in B : Header(t, b).size = Header(h, b).size
    BY DEF Mild, SameHead
  <1>3. \A b \in B : Next(t, b) = Next(h, b)
    BY <1>2 DEF Next
  <1>4. 0 \in B
    BY DEF Tiles
  <1>5. /\ Header(t, 0).alloc = Header(h, 0).alloc
        /\ Header(t, 0).size = Header(h, 0).size
        /\ Header(t, 0).pay = Header(h, 0).pay
    BY <1>4 DEF Mild, SameHead
  <1>8. \A b \in B : HoldsOrFree(t, b)
    BY DEF Mild, SameHead, Tiles, HoldsOrFree
  <1>6. /\ Header(t, Epilogue(h)).size = Header(h, Epilogue(h)).size
        /\ Header(t, Epilogue(h)).alloc = Header(h, Epilogue(h)).alloc
    BY DEF Mild, SameHead
  <1>7. t \in Heaps /\ t.pages = h.pages
    BY DEF Mild
  <1> QED
    BY <1>1, <1>2, <1>3, <1>5, <1>6, <1>7, <1>8 DEF Tiles

(* Two mild changes are one.                                               *)
LEMMA MildIsTransitive ==
  ASSUME NEW h, NEW B, NEW S, NEW U, NEW t, NEW r,
         Mild(h, t, B, S), Mild(t, r, B, U)
  PROVE  Mild(h, r, B, S \cup U)
  <1>1. Epilogue(t) = Epilogue(h)
    BY DEF Mild, Epilogue, End
  <1>2. \A v \in B \cup {Epilogue(h)} : SameHead(h, r, v)
    BY <1>1 DEF Mild, SameHead
  <1>3. \A v \in Units : v \notin B \cup {Epilogue(h)} \cup (S \cup U)
                         => r.mem[v] = h.mem[v]
    BY <1>1 DEF Mild
  <1>4. ASSUME NEW v \in S \cup U, v \in Units
        PROVE  ~ Header(r, v).alloc
    <2>1. CASE v \in U
      BY <1>4, <2>1 DEF Mild
    <2>2. CASE v \in S /\ v \notin U
      <3>1. ~ Header(t, v).alloc
        BY <1>4, <2>2 DEF Mild
      <3>2. CASE v \in B \cup {Epilogue(t)}
        BY <3>1, <3>2 DEF Mild, SameHead
      <3>3. CASE v \notin B \cup {Epilogue(t)}
        <4>1. r.mem[v] = t.mem[v]
          BY <1>4, <2>2, <3>3 DEF Mild
        <4> QED
          BY <3>1, <4>1 DEF Header
      <3> QED
        BY <3>2, <3>3
    <2> QED
      BY <1>4, <2>1, <2>2
  <1> QED
    BY <1>2, <1>3, <1>4 DEF Mild

(* No change is a mild one.                                                *)
LEMMA MildIsReflexive ==
  ASSUME NEW h \in Heaps, NEW B
  PROVE  Mild(h, h, B, {})
  BY DEF Mild, SameHead

-----------------------------------------------------------------------------
(* What touch_for_heap_update does.                                        *)

(* What touch_for_heap_update writes: the footer and the prv alloc bit of  *)
(* the block, if the block before it is allocated, and those of the next.  *)
LEMMA TouchIs ==
  ASSUME NEW h \in Heaps, NEW b \in Units, NEW n, NEW q,
         n = Next(h, b), q = Prev(h, b),
         n \in 0 .. End(h), q \in 0 .. End(h), q # b, n # b,
         NEW t, t = touch_for_heap_update(h, b)
  PROVE  /\ OnlyMemory(h, t)
         /\ \A v \in Units : v \notin {b, n} => t.mem[v] = h.mem[v]
         /\ \A v \in Units : SameHead(h, t, v)
         /\ Header(h, q).alloc =>
              Footer(t, b) = Header(h, q) /\ Header(t, b).prev = Header(h, q).alloc
         /\ ~ Header(h, q).alloc =>
              Footer(t, b) = Footer(h, b) /\ Header(t, b).prev = Header(h, b).prev
         /\ Footer(t, n) = Header(t, b)
         /\ Header(t, n).prev = Header(h, b).alloc
  <1>0. n \in Units /\ q \in Units
    BY HeapTypes
  <1>1. PICK u1 : u1 = hear_prev(h, b, q)
    OBVIOUS
  <1>2. PICK u2 : u2 = mark_next(u1, b, n)
    OBVIOUS
  <1>3. PICK u3 : u3 = CopyFooter(u2, n, b)
    OBVIOUS
  <1>4. t = SetPrev(u3, n, Header(h, b).alloc)
    <2>1. InHeap(h, Next(h, b)) /\ InHeap(h, Prev(h, b))
      BY DEF InHeap
    <2> QED
      BY <1>1, <1>2, <1>3, <2>1 DEF touch_for_heap_update, tell_next
  <1>5. /\ OnlyMemory(h, u1)
        /\ \A v \in Units : v # b => u1.mem[v] = h.mem[v]
        /\ \A v \in Units : SameHead(h, u1, v)
        /\ \A v \in Units : v # b => Header(u1, v) = Header(h, v)
        /\ Header(h, q).alloc =>
             Footer(u1, b) = Header(h, q) /\ Header(u1, b).prev = Header(h, q).alloc
        /\ ~ Header(h, q).alloc =>
             Footer(u1, b) = Footer(h, b) /\ Header(u1, b).prev = Header(h, b).prev
    <2>1. CASE ~ Header(h, q).alloc
      <3>1. u1 = h
        BY <1>1, <2>1 DEF hear_prev
      <3> QED
        BY <2>1, <3>1 DEF OnlyMemory, SameHead
    <2>2. CASE Header(h, q).alloc
      <3>0. PICK bit \in BOOLEAN : bit = TRUE
        OBVIOUS
      <3>1. PICK x : x = SetPrev(h, b, bit)
        OBVIOUS
      <3>a. Header(h, q).alloc = bit
        BY <1>0, <2>2, <3>0, WordTypes
      <3>2. /\ OnlyMemory(h, x)
            /\ \A v \in Units : v # b => Header(x, v) = Header(h, v)
            /\ SameHead(h, x, b)
            /\ Header(x, b).prev = Header(h, q).alloc
            /\ \A v \in Units : v # b => x.mem[v] = h.mem[v]
        <4>1. Header(x, b).prev = bit /\ OnlyMemory(h, x) /\ SameHead(h, x, b)
          BY <3>1, PrevIsSet
        <4>2. /\ \A v \in Units : v # b => Header(x, v) = Header(h, v)
              /\ \A v \in Units : v # b => x.mem[v] = h.mem[v]
          BY <3>1, PrevIsSet
        <4> QED
          BY <3>a, <4>1, <4>2, Zenon
      <3>3. /\ u1 = SetFoot(x, b, Header(h, q))
            /\ Header(h, q) \in Word
            /\ x \in Heaps
        BY <1>0, <1>1, <2>2, <3>0, <3>1, <3>2, WordTypes
        DEF hear_prev, CopyFooter, OnlyMemory
      <3>4. /\ OnlyMemory(x, u1)
            /\ \A v \in Units : Header(u1, v) = Header(x, v)
            /\ Footer(u1, b) = Header(h, q)
            /\ \A v \in Units : v # b => u1.mem[v] = x.mem[v]
        BY <3>3, FootIsSet
      <3>6. SameHead(h, u1, b) /\ Header(u1, b).prev = Header(h, q).alloc
        BY <3>2, <3>4 DEF SameHead
      <3>7. \A v \in Units : SameHead(h, u1, v)
        BY <3>2, <3>4, <3>6 DEF SameHead
      <3> QED
        BY <2>2, <3>2, <3>4, <3>6, <3>7 DEF OnlyMemory
    <2> QED
      BY <2>1, <2>2
  <1>6. /\ OnlyMemory(h, u2)
        /\ \A v \in Units : v # n => u2.mem[v] = u1.mem[v]
        /\ \A v \in Units : SameHead(h, u2, v)
    <2>1. CASE Header(u1, b).alloc
      <3>0. PICK bit \in BOOLEAN : bit = TRUE
        OBVIOUS
      <3>1. u2 = SetPrev(u1, n, bit)
        BY <1>2, <2>1, <3>0 DEF mark_next
      <3>2. u1 \in Heaps
        BY <1>5 DEF OnlyMemory
      <3>3. /\ OnlyMemory(u1, u2)
            /\ \A v \in Units : SameHead(u1, u2, v)
            /\ \A v \in Units : v # n => u2.mem[v] = u1.mem[v]
        BY <1>0, <3>1, <3>2, PrevIsSet
      <3> QED
        BY <1>5, <3>3 DEF SameHead, OnlyMemory
    <2>2. CASE ~ Header(u1, b).alloc
      BY <1>2, <1>5, <2>2 DEF mark_next
    <2> QED
      BY <2>1, <2>2
  <1>7. Header(u2, b) = Header(u1, b) /\ Header(u1, b) \in Word
    BY <1>5, <1>6, WordTypes DEF Header, OnlyMemory
  <1>8. /\ OnlyMemory(u2, u3)
        /\ \A v \in Units : Header(u3, v) = Header(u2, v)
        /\ Footer(u3, n) = Header(u1, b)
        /\ \A v \in Units : v # n => u3.mem[v] = u2.mem[v]
    <2>1. u2 \in Heaps /\ u3 = SetFoot(u2, n, Header(u1, b))
      BY <1>3, <1>6, <1>7 DEF CopyFooter, OnlyMemory
    <2> QED
      BY <1>0, <1>7, <2>1, FootIsSet
  <1>9. /\ OnlyMemory(u3, t)
        /\ \A v \in Units : Footer(t, v) = Footer(u3, v)
        /\ \A v \in Units : v # n => Header(t, v) = Header(u3, v)
        /\ \A v \in Units : SameHead(u3, t, v)
        /\ Header(t, n).prev = Header(h, b).alloc
        /\ \A v \in Units : v # n => t.mem[v] = u3.mem[v]
    <2>1. u3 \in Heaps /\ Header(h, b).alloc \in BOOLEAN
      BY <1>8, WordTypes DEF OnlyMemory
    <2> QED
      BY <1>0, <1>4, <2>1, PrevIsSet
  <1>12. \A v \in Units : SameHead(h, t, v)
    BY <1>6, <1>8, <1>9 DEF SameHead
  <1>14. Footer(t, n) = Header(u1, b) /\ Header(t, b) = Header(u1, b)
    BY <1>0, <1>7, <1>8, <1>9
  <1>15. \A v \in Units : v # n => t.mem[v] = u1.mem[v]
    BY <1>6, <1>8, <1>9
  <1>16. Footer(t, b) = Footer(u1, b)
    BY <1>15 DEF Footer
  <1> QED
    BY <1>5, <1>6, <1>8, <1>9, <1>12, <1>14, <1>15, <1>16 DEF OnlyMemory

(* Touching a block makes the unit behind it tell the truth, and nothing   *)
(* that was true becomes wrong.                                            *)
LEMMA TouchAgrees ==
  ASSUME NEW h, NEW B, Tiles(h, B), NEW b \in B, b # 0,
         NEW q, q = Prev(h, b), q \in 0 .. End(h), q # b,
         ~ Header(h, q).alloc \/ (q \in B /\ Next(h, q) = b),
         NEW t, t = touch_for_heap_update(h, b)
  PROVE  /\ Mild(h, t, B, {})
         /\ t.lists = h.lists
         /\ Agrees(t, b)
         /\ \A c \in B : Agrees(h, c) => Agrees(t, c)
         /\ Header(h, q).alloc => Agrees(t, q)
  <1>n. PICK n : n = Next(h, b)
    OBVIOUS
  <1>1. /\ h \in Heaps /\ b \in Units /\ n \in 0 .. End(h) /\ n # b
        /\ n \in B \cup {Epilogue(h)}
    <2>1. /\ h \in Heaps /\ b \in Units /\ n \in Nat /\ n <= Epilogue(h)
          /\ End(h) = Epilogue(h) + 1 /\ Epilogue(h) \in Nat /\ n > b + 1
          /\ b \in Nat
      BY <1>n, TilesFacts
    <2>2. n \in B \cup {Epilogue(h)}
      BY <1>n DEF Tiles
    <2> QED
      BY <2>1, <2>2
  <1>2. /\ OnlyMemory(h, t)
        /\ \A v \in Units : v \notin {b, n} => t.mem[v] = h.mem[v]
        /\ \A v \in Units : SameHead(h, t, v)
        /\ Header(h, q).alloc =>
             Footer(t, b) = Header(h, q) /\ Header(t, b).prev = Header(h, q).alloc
        /\ ~ Header(h, q).alloc =>
             Footer(t, b) = Footer(h, b) /\ Header(t, b).prev = Header(h, b).prev
        /\ Footer(t, n) = Header(t, b)
        /\ Header(t, n).prev = Header(h, b).alloc
    <2>1. /\ h \in Heaps /\ b \in Units /\ n = Next(h, b) /\ q = Prev(h, b)
          /\ n \in 0 .. End(h) /\ q \in 0 .. End(h) /\ q # b /\ n # b
      BY <1>1, <1>n
    <2> QED
      BY <2>1, TouchIs
  <1>3. Mild(h, t, B, {}) /\ t.lists = h.lists
    <2>1. B \cup {Epilogue(h)} \subseteq Units
      BY TilesFacts
    <2> QED
      BY <1>1, <1>2, <2>1 DEF Mild, OnlyMemory
  <1>4. \A c \in B : /\ Next(t, c) = Next(h, c)
                     /\ c \in Units
                     /\ Next(h, c) \in Units
    BY <1>3, MildKeepsTiles, TilesFacts
  <1>5. Agrees(t, b)
    BY <1>n, <1>2, <1>4 DEF Agrees, SameHead
  <1>6. Header(h, q).alloc => Agrees(t, q)
    <2> HAVE Header(h, q).alloc
    <2>1. q \in B /\ Next(t, q) = b
      BY <1>4
    <2>2. SameHead(h, t, q)
      BY <1>2, <1>4, <2>1
    <2>3. Header(h, q).alloc = TRUE
      BY <1>4, <1>1, <2>1, WordTypes
    <2> QED
      BY <1>2, <2>1, <2>2, <2>3 DEF Agrees, SameHead
  <1>7. ASSUME NEW c \in B, Agrees(h, c)
        PROVE  Agrees(t, c)
    <2>1. CASE c = b
      BY <1>5, <2>1
    <2>2. CASE c # b /\ Next(h, c) = b
      <3>1. CASE Header(h, q).alloc
        <4>1. c = q
          BY <2>2, <3>1, TilesFacts
        <4> QED
          BY <1>6, <3>1, <4>1
      <3>2. CASE ~ Header(h, q).alloc
        <4>1. /\ Footer(t, b) = Footer(h, b)
              /\ Header(t, b).prev = Header(h, b).prev
          BY <1>2, <3>2
        <4>2. SameHead(h, t, c)
          BY <1>2, <1>4
        <4> QED
          BY <1>4, <1>7, <2>2, <4>1, <4>2 DEF Agrees, SameHead
      <3> QED
        BY <3>1, <3>2
    <2>3. CASE c # b /\ Next(h, c) # b
      <3>1. Next(h, c) # n
        BY <1>n, <2>3, TilesFacts
      <3>2. t.mem[Next(h, c)] = h.mem[Next(h, c)]
        BY <1>2, <1>4, <2>3, <3>1
      <3>3. SameHead(h, t, c)
        BY <1>2, <1>4
      <3> QED
        BY <1>4, <1>7, <3>2, <3>3 DEF Agrees, SameHead, Footer, Header
    <2> QED
      BY <2>1, <2>2, <2>3
  <1> QED
    BY <1>3, <1>5, <1>6, <1>7

(* The usual case: the block before b is known to b.                       *)
LEMMA TouchInOrder ==
  ASSUME NEW h, NEW B, Tiles(h, B), NEW b \in B, NEW p \in B, Next(h, p) = b,
         Footer(h, b).size = Header(h, p).size,
         NEW t, t = touch_for_heap_update(h, b)
  PROVE  /\ Mild(h, t, B, {})
         /\ t.lists = h.lists
         /\ Agrees(t, b)
         /\ \A c \in B : Agrees(h, c) => Agrees(t, c)
         /\ Header(h, p).alloc => Agrees(t, p)
  <1>1. /\ p \in Nat /\ b = p + Header(h, p).size /\ Header(h, p).size \in Nat
        /\ b > p + 1 /\ b <= Epilogue(h) /\ End(h) = Epilogue(h) + 1
        /\ Epilogue(h) \in Nat /\ b \in Nat
    BY TilesFacts
  <1>2. Prev(h, b) = p
    BY <1>1 DEF Prev
  <1>3. b # 0 /\ p \in 0 .. End(h) /\ p # b
    BY <1>1
  <1> QED
    BY <1>2, <1>3, TouchAgrees

(* Touching the epilogue spoils its own footer only.                       *)
LEMMA EpilogueTouched ==
  ASSUME NEW h, NEW B, Tiles(h, B), NEW p \in B, Next(h, p) = Epilogue(h),
         Footer(h, Epilogue(h)).size = Header(h, p).size, Header(h, p).alloc,
         NEW t, t = touch_for_heap_update(h, Epilogue(h))
  PROVE  /\ Mild(h, t, B, {})
         /\ t.lists = h.lists
         /\ Header(t, Epilogue(h)).prev = TRUE
         /\ \A c \in B : c # p /\ Agrees(h, c) => Agrees(t, c)
  <1> DEFINE e == Epilogue(h)
  <1>1. /\ h \in Heaps /\ e \in Units /\ e \in Nat /\ End(h) = e + 1
        /\ p \in Nat /\ e = p + Header(h, p).size /\ Header(h, p).size \in Nat
        /\ e > p + 1
    BY TilesFacts
  <1>2. Prev(h, e) = p /\ Next(h, e) = e
    <2>1. Header(h, e).size = 0
      BY DEF Tiles
    <2> HIDE DEF e
    <2>2. e - Header(h, p).size = p /\ e + 0 = e
      BY <1>1
    <2> QED
      BY <2>1, <2>2 DEF Prev, Next, e
  <1>3. InHeap(h, Next(h, e)) /\ InHeap(h, Prev(h, e))
    <2> HIDE DEF e
    <2> QED
      BY <1>1, <1>2 DEF InHeap
  <1>5. PICK bit \in BOOLEAN : bit = TRUE
    OBVIOUS
  <1>4. PICK x : x = SetPrev(h, e, bit)
    OBVIOUS
  <1>w. \A g \in Heaps : Header(g, e) \in Word
    BY <1>1, WordTypes
  <1> HIDE DEF e
  <1>6. /\ OnlyMemory(h, x)
        /\ \A v \in Units : SameHead(h, x, v)
        /\ \A v \in Units : v # e => x.mem[v] = h.mem[v]
        /\ Header(x, e).prev = TRUE
    <2>1. /\ OnlyMemory(h, x)
          /\ \A v \in Units : SameHead(h, x, v)
          /\ \A v \in Units : v # e => x.mem[v] = h.mem[v]
          /\ Header(x, e).prev = bit
      BY <1>1, <1>4, PrevIsSet
    <2> QED
      BY <1>5, <2>1
  <1>7. PICK y : y = SetFoot(x, e, Header(h, p))
    OBVIOUS
  <1>p. p \in Units /\ Header(h, p) \in Word /\ p # e
    BY <1>1, TilesFacts DEF e
  <1>8. /\ OnlyMemory(x, y)
        /\ \A v \in Units : Header(y, v) = Header(x, v)
        /\ \A v \in Units : v # e => y.mem[v] = x.mem[v]
    BY <1>1, <1>6, <1>7, <1>p, FootIsSet DEF OnlyMemory
  <1>9. y = hear_prev(h, e, p)
    <2>1. Header(x, p) = Header(h, p)
      BY <1>6, <1>p DEF Header
    <2> QED
      BY <1>4, <1>5, <1>7, <2>1 DEF hear_prev, CopyFooter
  <1>10. Header(y, e).alloc /\ Header(h, e).alloc = TRUE
    <2>1. Header(h, e).alloc
      BY DEF Tiles, e
    <2> QED
      BY <1>1, <1>6, <1>8, <1>w, <2>1 DEF SameHead, Word
  <1>11. PICK z : z = SetPrev(y, e, bit)
    OBVIOUS
  <1>12. /\ OnlyMemory(y, z)
         /\ \A v \in Units : SameHead(y, z, v)
         /\ \A v \in Units : v # e => z.mem[v] = y.mem[v]
    <2>0. y \in Heaps
      BY <1>8 DEF OnlyMemory
    <2> QED
      BY <1>1, <1>11, <2>0, PrevIsSet
  <1>13. PICK w : w = SetFoot(z, e, Header(z, e))
    OBVIOUS
  <1>14. /\ OnlyMemory(z, w)
         /\ \A v \in Units : Header(w, v) = Header(z, v)
         /\ \A v \in Units : v # e => w.mem[v] = z.mem[v]
    <2>0. z \in Heaps
      BY <1>12 DEF OnlyMemory
    <2>1. Header(z, e) \in Word
      BY <1>w, <2>0
    <2> QED
      BY <1>1, <1>13, <2>0, <2>1, FootIsSet
  <1>15. t = SetPrev(w, e, bit)
    <2>1. t = tell_next(hear_prev(h, e, Prev(h, e)), e, Next(h, e),
                        Header(h, e).alloc)
      BY <1>3 DEF touch_for_heap_update, e
    <2>2. t = tell_next(y, e, e, bit)
      BY <1>2, <1>5, <1>9, <1>10, <2>1
    <2>3. mark_next(y, e, e) = z
      BY <1>5, <1>10, <1>11 DEF mark_next
    <2> QED
      BY <1>13, <2>2, <2>3 DEF tell_next, CopyFooter
  <1>16. /\ OnlyMemory(w, t)
         /\ \A v \in Units : SameHead(w, t, v)
         /\ \A v \in Units : v # e => t.mem[v] = w.mem[v]
         /\ Header(t, e).prev = TRUE
    <2>0. w \in Heaps
      BY <1>14 DEF OnlyMemory
    <2>1. /\ OnlyMemory(w, t)
          /\ \A v \in Units : SameHead(w, t, v)
          /\ \A v \in Units : v # e => t.mem[v] = w.mem[v]
          /\ Header(t, e).prev = bit
      BY <1>1, <1>15, <2>0, PrevIsSet
    <2> QED
      BY <1>5, <2>1
  <1>17. /\ OnlyMemory(h, t)
         /\ \A v \in Units : SameHead(h, t, v)
         /\ \A v \in Units : v # e => t.mem[v] = h.mem[v]
    BY <1>6, <1>8, <1>12, <1>14, <1>16 DEF OnlyMemory, SameHead
  <1>18. Mild(h, t, B, {}) /\ t.lists = h.lists
    <2>1. B \cup {Epilogue(h)} \subseteq Units
      BY TilesFacts
    <2> QED
      BY <1>17, <2>1 DEF Mild, OnlyMemory, e
  <1>19. ASSUME NEW c \in B, c # p, Agrees(h, c)
         PROVE  Agrees(t, c)
    <2>1. Next(t, c) = Next(h, c) /\ Next(h, c) # e /\ Next(h, c) \in Units /\ c \in Units
      BY <1>18, <1>19, MildKeepsTiles, TilesFacts DEF e
    <2>2. t.mem[Next(h, c)] = h.mem[Next(h, c)] /\ SameHead(h, t, c)
      BY <1>17, <2>1
    <2> QED
      BY <1>19, <2>1, <2>2 DEF Agrees, SameHead, Footer, Header
  <1> QED
    BY <1>16, <1>18, <1>19 DEF e

-----------------------------------------------------------------------------
(* insert_block and isolate_block.                                         *)

(* What is written inside a block changes nothing about the blocks.        *)
LEMMA WrittenInside ==
  ASSUME NEW h, NEW B, Tiles(h, B), NEW S, NEW t \in Heaps, t.pages = h.pages,
         \A v \in S : v \notin B \cup {Epilogue(h)},
         \A v \in Units : v \notin S => t.mem[v] = h.mem[v],
         \A v \in S : v \in Units => ~ Header(t, v).alloc
  PROVE  /\ Mild(h, t, B, S)
         /\ \A v \in B \cup {Epilogue(h)} : t.mem[v] = h.mem[v]
         /\ \A c \in B : Agrees(h, c) => Agrees(t, c)
  <1>1. B \cup {Epilogue(h)} \subseteq Units
    BY TilesFacts
  <1>2. \A v \in B \cup {Epilogue(h)} : t.mem[v] = h.mem[v]
    BY <1>1
  <1>3. Mild(h, t, B, S)
    BY <1>1, <1>2 DEF Mild, SameHead, Header
  <1>4. ASSUME NEW c \in B, Agrees(h, c)
        PROVE  Agrees(t, c)
    <2>0. Next(h, c) \in B \cup {Epilogue(h)}
      BY DEF Tiles
    <2>1. Next(t, c) = Next(h, c) /\ Next(h, c) \in B \cup {Epilogue(h)}
      BY <1>3, <2>0, MildKeepsTiles
    <2>2. t.mem[Next(h, c)] = h.mem[Next(h, c)] /\ t.mem[c] = h.mem[c]
      BY <1>2, <2>1
    <2> QED
      BY <1>4, <2>1, <2>2 DEF Agrees, Footer, Header
  <1> QED
    BY <1>2, <1>3, <1>4

(* The links of a block are written.                                       *)
LEMMA LinksAreSet ==
  ASSUME NEW h, NEW B, Tiles(h, B), NEW b \in Units, b + 1 \in Units,
         b + 1 \notin B \cup {Epilogue(h)},
         NEW w \in {Zero, Link}, NEW t, t = SetLinks(h, b, w)
  PROVE  /\ Mild(h, t, B, {b + 1})
         /\ t.lists = h.lists
         /\ \A v \in Units : v # b + 1 => t.mem[v] = h.mem[v]
         /\ \A c \in B : Agrees(h, c) => Agrees(t, c)
  <1>1. w \in Word /\ ~ w.alloc /\ h \in Heaps
    <2>1. ~ Zero.alloc /\ ~ Link.alloc
      BY DEF Zero, Link, set_header
    <2> QED
      BY <2>1, ConstantsAreNumbers DEF Tiles
  <1>2. PICK n \in Units : n = b + 1
    OBVIOUS
  <1>3. /\ OnlyMemory(h, t)
        /\ \A v \in Units : t.mem[v] =
                     IF v = n THEN [foot |-> w, head |-> w] ELSE h.mem[v]
    BY <1>1, <1>2, WriteIsWritten DEF SetLinks
  <1>4. ~ Header(t, n).alloc /\ \A v \in Units : v # n => t.mem[v] = h.mem[v]
    BY <1>1, <1>3 DEF Header
  <1>5. \A v \in {n} : v \notin B \cup {Epilogue(h)}
    BY <1>2
  <1>6. t \in Heaps /\ t.pages = h.pages /\ t.lists = h.lists
    BY <1>3 DEF OnlyMemory
  <1>7. Mild(h, t, B, {n}) /\ \A c \in B : Agrees(h, c) => Agrees(t, c)
    BY <1>4, <1>5, <1>6, WrittenInside
  <1> QED
    BY <1>2, <1>4, <1>6, <1>7

(* Another heap with the same memory.                                      *)
LEMMA ListsDoNotMatter ==
  ASSUME NEW h, NEW B, Tiles(h, B), NEW t \in Heaps,
         t.mem = h.mem, t.pages = h.pages
  PROVE  /\ Tiles(t, B) /\ Mild(h, t, B, {})
         /\ Epilogue(t) = Epilogue(h) /\ End(t) = End(h)
         /\ \A u : Header(t, u) = Header(h, u) /\ Footer(t, u) = Footer(h, u)
         /\ \A u : Next(t, u) = Next(h, u)
         /\ \A c : Agrees(h, c) <=> Agrees(t, c)
  <1>1. Epilogue(t) = Epilogue(h) /\ End(t) = End(h)
    BY DEF Epilogue, End
  <1>2. \A u : Header(t, u) = Header(h, u) /\ Footer(t, u) = Footer(h, u)
    BY DEF Header, Footer
  <1>3. \A u : Next(t, u) = Next(h, u)
    BY <1>2 DEF Next
  <1>4. \A c : Agrees(h, c) <=> Agrees(t, c)
    BY <1>2, <1>3 DEF Agrees
  <1>5. Mild(h, t, B, {})
    BY <1>1, <1>2 DEF Mild, SameHead
  <1> QED
    BY <1>1, <1>2, <1>3, <1>4, <1>5, MildKeepsTiles

(* b, which follows p, is in list i now, and tells the truth to the next.  *)
Inserted(h, B, F, t, b, p, i) ==
  /\ Mild(h, t, B, {b + 1})
  /\ Lists(t.lists, F \cup {b})
  /\ Gains(h.lists, t.lists, b, i)
  /\ Agrees(t, b)
  /\ \A c \in B : Agrees(h, c) => Agrees(t, c)
  /\ Header(h, p).alloc => Agrees(t, p)

(* insert_block puts a block in a list and keeps what neighbours say of    *)
(* each other.                                                             *)
LEMMA BlockInserted ==
  ASSUME NEW h, NEW B, Tiles(h, B), NEW b \in B, NEW p \in B, Next(h, p) = b,
         Footer(h, b).size = Header(h, p).size,
         NEW F, Lists(h.lists, F), b \notin F, NEW i \in ListNumbers,
         NEW t, t = insert_block(h, b, i)
  PROVE  Inserted(h, B, F, t, b, p, i)
  <1>0. PICK r : r = <<b>> \o h.lists[i]
    OBVIOUS
  <1>1. PICK L : L = [h.lists EXCEPT ![i] = r]
    OBVIOUS
  <1>2. PICK x : x = [h EXCEPT !.lists = L]
    OBVIOUS
  <1>b. b \in Units /\ b + 1 \in Units /\ b + 1 \notin B /\ b + 1 # Epilogue(h)
    <2>1. /\ b \in Units /\ b + 1 \in Units /\ b + 1 \notin B
          /\ Next(h, b) > b + 1 /\ Next(h, b) <= Epilogue(h) /\ b \in Nat
          /\ Epilogue(h) \in Nat /\ Next(h, b) \in Nat
      BY TilesFacts
    <2> QED
      BY <2>1
  <1>3. /\ Lists(L, F \cup {b})
        /\ Gains(h.lists, L, b, i)
    <2>k. PICK K : K = h.lists
      OBVIOUS
    <2>1. Lists(K, F) /\ r = <<b>> \o K[i] /\ L = [K EXCEPT ![i] = r]
      BY <1>0, <1>1, <2>k
    <2>2. /\ Lists(L, F \cup {b})
          /\ Gains(K, L, b, i)
      BY <1>b, <2>1, Entered, Zenon
    <2> QED
      BY <2>k, <2>2
  <1>4. x \in Heaps /\ x.mem = h.mem /\ x.pages = h.pages /\ x.lists = L
    <2>1. L \in [ListNumbers -> Seq(Units)]
      BY <1>3 DEF Lists
    <2>2. h \in Heaps
      BY DEF Tiles
    <2> QED
      BY <1>2, <2>1, <2>2 DEF Heaps, ListNumbers
  <1>5. /\ Tiles(x, B) /\ Mild(h, x, B, {})
        /\ Epilogue(x) = Epilogue(h)
        /\ \A u : Header(x, u) = Header(h, u) /\ Footer(x, u) = Footer(h, u)
        /\ \A u : Next(x, u) = Next(h, u)
        /\ \A c : Agrees(h, c) <=> Agrees(x, c)
    BY <1>4, ListsDoNotMatter
  <1>6. PICK y : y = SetLinks(x, b, Link)
    OBVIOUS
  <1>7. /\ Mild(x, y, B, {b + 1})
        /\ y.lists = x.lists
        /\ \A v \in Units : v # b + 1 => y.mem[v] = x.mem[v]
        /\ \A c \in B : Agrees(x, c) => Agrees(y, c)
    BY <1>b, <1>5, <1>6, LinksAreSet
  <1>8. Tiles(y, B) /\ Next(y, p) = b
    BY <1>5, <1>7, MildKeepsTiles
  <1>9. /\ Header(y, p) = Header(h, p)
        /\ Footer(y, b) = Footer(h, b)
    <2>1. p # b + 1 /\ b # b + 1 /\ p \in Units
      BY <1>b, TilesFacts
    <2> QED
      BY <1>4, <1>b, <1>7, <2>1 DEF Header, Footer
  <1>10. t = touch_for_heap_update(y, b)
    <2>1. x = [h EXCEPT !.lists[i] = <<b>> \o @]
      BY <1>0, <1>1, <1>2
    <2> QED
      BY <1>6, <2>1 DEF insert_block
  <1>11. /\ Mild(y, t, B, {})
         /\ t.lists = y.lists
         /\ Agrees(t, b)
         /\ \A c \in B : Agrees(y, c) => Agrees(t, c)
         /\ Header(y, p).alloc => Agrees(t, p)
    BY <1>8, <1>9, <1>10, TouchInOrder
  <1>12. Mild(h, t, B, {b + 1})
    <2>1. Mild(h, y, B, {} \cup {b + 1})
      BY <1>5, <1>7, MildIsTransitive
    <2>2. Mild(h, t, B, ({} \cup {b + 1}) \cup {})
      BY <1>11, <2>1, MildIsTransitive
    <2>3. ({} \cup {b + 1}) \cup {} = {b + 1}
      OBVIOUS
    <2> QED
      BY <2>2, <2>3
  <1> QED
    BY <1>3, <1>4, <1>5, <1>7, <1>9, <1>11, <1>12 DEF Inserted

(* The unit that s takes for the header of its predecessor is that, or     *)
(* the header of a block that is not allocated any more.                   *)
PrevIsFound(h, B, s) ==
  /\ s \in B
  /\ s # 0
  /\ Prev(h, s) \in 0 .. End(h)
  /\ Prev(h, s) # s
  /\ \/ ~ Header(h, Prev(h, s)).alloc
     \/ Prev(h, s) \in B /\ Next(h, Prev(h, s)) = s

(* b itself may have become a part of another block already.               *)
LEMMA BlockIsolated ==
  ASSUME NEW h, NEW B, Tiles(h, B), NEW F, Lists(h.lists, F), NEW b \in F,
         b \in Units, b + 1 \in Units, b + 1 \notin B \cup {Epilogue(h)},
         \A s \in F \ {b} : PrevIsFound(h, B, s),
         NEW t, t = isolate_block(h, b)
  PROVE  /\ Mild(h, t, B, {b + 1})
         /\ Lists(t.lists, F \ {b})
         /\ Loses(h.lists, t.lists, b)
         /\ \A c \in B : Agrees(h, c) => Agrees(t, c)
  <1>h. h \in Heaps
    BY DEF Tiles
  <1>1. PICK i \in ListNumbers : i = ListOf(h, b) /\ b \in ToSet(h.lists[i])
    BY <1>h, ListIsFound
  <1>2. PICK s : s = h.lists[i]
    OBVIOUS
  <1>3. s \in Seq(Units) /\ IsInjective(s) /\ b \in ToSet(s)
    BY <1>1, <1>2 DEF Lists
  <1>4. PICK k : k = PlaceIn(s, b)
    OBVIOUS
  <1>5. k \in DOMAIN s /\ s[k] = b
    BY <1>3, <1>4, RemovalRemoves
  <1>0. PICK r : r = RemoveAt(h.lists[i], PlaceIn(h.lists[i], b))
    OBVIOUS
  <1>6. PICK L : L = [h.lists EXCEPT ![i] = r]
    OBVIOUS
  <1>7. /\ Lists(L, F \ {b})
        /\ Loses(h.lists, L, b)
    <2>k. PICK K : K = h.lists
      OBVIOUS
    <2>1. /\ Lists(K, F) /\ b \in ToSet(K[i])
          /\ r = RemoveAt(K[i], PlaceIn(K[i], b)) /\ L = [K EXCEPT ![i] = r]
      BY <1>0, <1>1, <1>6, <2>k
    <2>2. /\ Lists(L, F \ {b})
          /\ Loses(K, L, b)
      BY <2>1, Left, Zenon
    <2> QED
      BY <2>k, <2>2
  <1>8. PICK x : x = [h EXCEPT !.lists = L]
    OBVIOUS
  <1>9. x \in Heaps /\ x.mem = h.mem /\ x.pages = h.pages /\ x.lists = L
    <2>1. L \in [ListNumbers -> Seq(Units)]
      BY <1>7 DEF Lists
    <2> QED
      BY <1>h, <1>8, <2>1 DEF Heaps, ListNumbers
  <1>10. /\ Tiles(x, B) /\ Mild(h, x, B, {})
         /\ Epilogue(x) = Epilogue(h) /\ End(x) = End(h)
         /\ \A u : Header(x, u) = Header(h, u) /\ Footer(x, u) = Footer(h, u)
         /\ \A u : Next(x, u) = Next(h, u)
         /\ \A c : Agrees(h, c) <=> Agrees(x, c)
    BY <1>9, ListsDoNotMatter
  <1>11. PICK y : y = SetLinks(x, b, Zero)
    OBVIOUS
  <1>12. /\ Mild(x, y, B, {b + 1})
         /\ y.lists = x.lists
         /\ \A v \in Units : v # b + 1 => y.mem[v] = x.mem[v]
         /\ \A c \in B : Agrees(x, c) => Agrees(y, c)
    BY <1>10, <1>11, LinksAreSet
  <1>13. /\ Tiles(y, B) /\ End(y) = End(h)
         /\ \A c \in B : Next(y, c) = Next(h, c)
    BY <1>10, <1>12, MildKeepsTiles
  <1>14. y = unlink(h, b, i, k)
    <2>1. x = [h EXCEPT !.lists[i] = RemoveAt(@, k)]
      BY <1>0, <1>2, <1>4, <1>6, <1>8
    <2> QED
      BY <1>11, <2>1 DEF unlink
  <1>15. t = touch_successor(y, s, k)
    BY <1>1, <1>2, <1>4, <1>14 DEF isolate_block, isolate_from
  <1>16. /\ Mild(y, t, B, {})
         /\ t.lists = y.lists
         /\ \A c \in B : Agrees(y, c) => Agrees(t, c)
    <2>1. CASE ~ (k < Len(s))
      <3>1. t = y
        BY <1>15, <2>1 DEF touch_successor
      <3>2. y \in Heaps
        BY <1>12 DEF Mild
      <3> QED
        BY <3>1, <3>2, MildIsReflexive
    <2>2. CASE k < Len(s)
      <3>1. PICK n : n = s[k + 1]
        OBVIOUS
      <3>2. t = touch_for_heap_update(y, n)
        BY <1>15, <2>2, <3>1 DEF touch_successor
      <3>3. n \in F \ {b}
        <4>1. Len(s) \in Nat /\ DOMAIN s = 1 .. Len(s)
          BY <1>3, LenProperties
        <4>2. k + 1 \in DOMAIN s /\ k + 1 # k
          BY <1>5, <2>2, <4>1
        <4>3. n \in ToSet(h.lists[i])
          BY <1>2, <3>1, <4>2 DEF ToSet
        <4>4. n # b
          BY <1>3, <1>5, <3>1, <4>2 DEF IsInjective
        <4> QED
          BY <4>3, <4>4 DEF Lists
      <3>4. PICK q : q = Prev(h, n)
        OBVIOUS
      <3>5. /\ n \in B /\ n # 0 /\ q \in 0 .. End(h) /\ q # n
            /\ ~ Header(h, q).alloc \/ (q \in B /\ Next(h, q) = n)
        BY <3>3, <3>4 DEF PrevIsFound
      <3>6. n \in Units /\ q \in Units /\ n # b + 1
        BY <1>h, <3>5, TilesFacts, HeapTypes
      <3>7. Prev(y, n) = q
        BY <1>9, <1>12, <3>4, <3>6 DEF Prev, Footer
      <3>8. ~ Header(y, q).alloc \/ (q \in B /\ Next(y, q) = n)
        <4>1. CASE q = b + 1
          BY <1>12, <3>6, <4>1 DEF Mild
        <4>2. CASE q # b + 1
          <5>1. Header(y, q) = Header(h, q)
            BY <1>9, <1>12, <3>6, <4>2 DEF Header
          <5> QED
            BY <1>13, <3>5, <5>1
        <4> QED
          BY <4>1, <4>2
      <3> QED
        BY <1>13, <3>2, <3>5, <3>7, <3>8, TouchAgrees
    <2> QED
      BY <2>1, <2>2
  <1>17. Mild(h, t, B, {b + 1})
    <2>1. Mild(h, y, B, {} \cup {b + 1})
      BY <1>10, <1>12, MildIsTransitive
    <2>2. Mild(h, t, B, ({} \cup {b + 1}) \cup {})
      BY <1>16, <2>1, MildIsTransitive
    <2>3. ({} \cup {b + 1}) \cup {} = {b + 1}
      OBVIOUS
    <2> QED
      BY <2>2, <2>3
  <1> QED
    BY <1>7, <1>9, <1>10, <1>12, <1>16, <1>17

-----------------------------------------------------------------------------
(* Heaps that are in order, and what a call keeps.                         *)

FreeIn(h, B) == {b \in B : ~ Header(h, b).alloc}
UsedIn(h, B) == {b \in B : Header(h, b).alloc}

Sound(h, B) ==
  /\ Tiles(h, B)
  /\ \A b \in B : Agrees(h, b)
  /\ Lists(h.lists, FreeIn(h, B))

(* The allocated blocks in P keep size and contents, and no unit of D      *)
(* becomes the header of an allocated block.                               *)
Keeps(h, t, P, D) ==
  /\ \A p \in P : /\ SameHead(h, t, p)
                  /\ \A u \in p + 1 .. Next(h, p) - 1 : t.mem[u] = h.mem[u]
  /\ \A u \in D : ~ Header(h, u).alloc => ~ Header(t, u).alloc

(* What two changes keep, both together keep.                              *)
LEMMA KeepsIsTransitive ==
  ASSUME NEW h, NEW t, NEW r, NEW P, NEW D, Keeps(h, t, P, D), Keeps(t, r, P, D)
  PROVE  Keeps(h, r, P, D)
  <1>1. \A p \in P : Next(t, p) = Next(h, p)
    BY DEF Keeps, SameHead, Next
  <1>2. \A p \in P : SameHead(h, r, p)
    BY DEF Keeps, SameHead
  <1>3. \A p \in P : \A u \in p + 1 .. Next(h, p) - 1 : r.mem[u] = h.mem[u]
    BY <1>1 DEF Keeps
  <1>4. \A u \in D : ~ Header(h, u).alloc => ~ Header(r, u).alloc
    BY DEF Keeps
  <1> QED
    BY <1>2, <1>3, <1>4 DEF Keeps

(* No change keeps everything.                                             *)
LEMMA KeepsIsReflexive ==
  ASSUME NEW h, NEW P, NEW D
  PROVE  Keeps(h, h, P, D)
  BY DEF Keeps, SameHead

(* The links of one block are outside the others.                          *)
LEMMA LinksAreInside ==
  ASSUME NEW h, NEW B, Tiles(h, B), NEW b \in B, NEW p \in B, p # b
  PROVE  b + 1 \notin p + 1 .. Next(h, p) - 1
  <1>1. b \in Nat /\ p \in Nat /\ Next(h, p) \in Nat
    BY TilesFacts
  <1>2. b < p \/ Next(h, p) <= b
    <2>1. p < b \/ b < p
      BY <1>1
    <2> QED
      BY <2>1 DEF Tiles
  <1> QED
    BY <1>1, <1>2

(* A mild change keeps the contents of the blocks it writes no unit of.    *)
LEMMA MildKeeps ==
  ASSUME NEW h, NEW B, Tiles(h, B), NEW S, NEW t, Mild(h, t, B, S),
         NEW P \in SUBSET B, NEW D \in SUBSET Units,
         \A p \in P : \A u \in p + 1 .. Next(h, p) - 1 : u \notin S
  PROVE  Keeps(h, t, P, D)
  <1>1. ASSUME NEW p \in P, NEW u \in p + 1 .. Next(h, p) - 1
        PROVE  t.mem[u] = h.mem[u]
    <2>1. u \in Units /\ u \notin B \cup {Epilogue(h)}
      BY TilesFacts
    <2> QED
      BY <2>1 DEF Mild
  <1>2. ASSUME NEW u \in D, ~ Header(h, u).alloc
        PROVE  ~ Header(t, u).alloc
    <2>1. CASE u \in B \cup {Epilogue(h)}
      BY <1>2, <2>1 DEF Mild, SameHead
    <2>2. CASE u \in S
      BY <2>2 DEF Mild
    <2>3. CASE u \notin B \cup {Epilogue(h)} \cup S
      BY <1>2, <2>3 DEF Mild, Header
    <2> QED
      BY <2>1, <2>2, <2>3
  <1>3. \A p \in P : SameHead(h, t, p)
    BY DEF Mild
  <1> QED
    BY <1>1, <1>2, <1>3 DEF Keeps

(* A mild change that writes no unit between headers keeps all contents.   *)
LEMMA MildKeepsAll ==
  ASSUME NEW h, NEW B, Tiles(h, B), NEW t, Mild(h, t, B, {}),
         NEW P \in SUBSET B, NEW D \in SUBSET Units
  PROVE  Keeps(h, t, P, D)
  <1>1. \A p \in P : \A u \in p + 1 .. Next(h, p) - 1 : u \notin {}
    OBVIOUS
  <1> QED
    BY <1>1, MildKeeps

(* A mild change that writes the links of a free block keeps the others.   *)
LEMMA MildKeepsOthers ==
  ASSUME NEW h, NEW B, Tiles(h, B), NEW b \in B, NEW t, Mild(h, t, B, {b + 1}),
         NEW P \in SUBSET (B \ {b}), NEW D \in SUBSET Units
  PROVE  Keeps(h, t, P, D)
  <1>1. ASSUME NEW p \in P, NEW u \in p + 1 .. Next(h, p) - 1
        PROVE  u \notin {b + 1}
    <2>1. b + 1 \notin p + 1 .. Next(h, p) - 1
      BY LinksAreInside
    <2> QED
      BY <2>1
  <1> QED
    BY <1>1, MildKeeps

(* After a mild change the same blocks are free and in use.                *)
LEMMA MildKeepsUse ==
  ASSUME NEW h, NEW B, NEW S, NEW t, Mild(h, t, B, S)
  PROVE  /\ FreeIn(t, B) = FreeIn(h, B)
         /\ UsedIn(t, B) = UsedIn(h, B)
  BY DEF Mild, SameHead, FreeIn, UsedIn

-----------------------------------------------------------------------------
(* Footers.                                                                *)

(* A footer is written behind a block: everything said of other blocks     *)
(* stays true.                                                             *)
LEMMA FooterCopied ==
  ASSUME NEW h, NEW B, Tiles(h, B), NEW a \in B, NEW n, n = Next(h, a),
         NEW t, t = CopyFooter(h, n, a)
  PROVE  /\ Mild(h, t, B, {})
         /\ t.lists = h.lists
         /\ \A v \in Units : Header(t, v) = Header(h, v)
         /\ Footer(t, n) = Header(h, a)
         /\ \A c \in B : c # a /\ Agrees(h, c) => Agrees(t, c)
         /\ Header(h, n).prev = Header(h, a).alloc => Agrees(t, a)
  <1>1. n \in Units /\ Header(h, a) \in Word /\ h \in Heaps
    BY TilesFacts
  <1>2. /\ OnlyMemory(h, t)
        /\ \A v \in Units : Header(t, v) = Header(h, v)
        /\ \A v \in Units : Footer(t, v) = IF v = n THEN Header(h, a) ELSE Footer(h, v)
        /\ \A v \in Units : v # n => t.mem[v] = h.mem[v]
    BY <1>1, FootIsSet DEF CopyFooter
  <1>3. n \in B \cup {Epilogue(h)} /\ B \cup {Epilogue(h)} \subseteq Units
    BY TilesFacts
  <1>4. Mild(h, t, B, {}) /\ t.lists = h.lists
    BY <1>2, <1>3 DEF Mild, OnlyMemory, SameHead
  <1>5. \A c \in B : Next(t, c) = Next(h, c) /\ Next(h, c) \in Units /\ c \in Units
    BY <1>4, MildKeepsTiles, TilesFacts
  <1>6. Header(h, n).prev = Header(h, a).alloc => Agrees(t, a)
    BY <1>1, <1>2, <1>5 DEF Agrees
  <1>7. ASSUME NEW c \in B, c # a, Agrees(h, c)
        PROVE  Agrees(t, c)
    <2>1. Next(h, c) # n
      BY <1>7, TilesFacts
    <2> QED
      BY <1>2, <1>5, <1>7, <2>1 DEF Agrees
  <1> QED
    BY <1>1, <1>2, <1>4, <1>6, <1>7

(* A footer and the prv alloc bit behind it make the next block agree.     *)
LEMMA FooterIsSet ==
  ASSUME NEW h, NEW B, Tiles(h, B), NEW a \in B, NEW n, n = Next(h, a),
         NEW bit \in BOOLEAN, bit = Header(h, a).alloc,
         NEW t, t = SetPrev(CopyFooter(h, n, a), n, bit)
  PROVE  /\ Mild(h, t, B, {})
         /\ t.lists = h.lists
         /\ Agrees(t, a)
         /\ \A c \in B : Agrees(h, c) => Agrees(t, c)
  <1>1. PICK x : x = CopyFooter(h, n, a)
    OBVIOUS
  <1>2. /\ Mild(h, x, B, {})
        /\ x.lists = h.lists
        /\ \A v \in Units : Header(x, v) = Header(h, v)
        /\ Footer(x, n) = Header(h, a)
        /\ \A c \in B : c # a /\ Agrees(h, c) => Agrees(x, c)
    BY <1>1, FooterCopied
  <1>3. /\ Tiles(x, B) /\ x \in Heaps
        /\ Epilogue(x) = Epilogue(h)
        /\ \A c \in B : Next(x, c) = Next(h, c)
    <2>1. x \in Heaps
      BY <1>2 DEF Mild
    <2> QED
      BY <1>2, <2>1, MildKeepsTiles
  <1>4. n \in Units /\ n \in B \cup {Epilogue(h)} /\ B \cup {Epilogue(h)} \subseteq Units
    BY TilesFacts
  <1>5. /\ OnlyMemory(x, t)
        /\ \A v \in Units : Footer(t, v) = Footer(x, v)
        /\ \A v \in Units : v # n => Header(t, v) = Header(x, v)
        /\ \A v \in Units : v # n => t.mem[v] = x.mem[v]
        /\ \A v \in Units : SameHead(x, t, v)
        /\ Header(t, n).prev = bit
    BY <1>1, <1>3, <1>4, PrevIsSet
  <1>6. Mild(x, t, B, {}) /\ t.lists = x.lists
    BY <1>3, <1>4, <1>5 DEF Mild, OnlyMemory
  <1>7. Mild(h, t, B, {})
    BY <1>2, <1>6, MildIsTransitive
  <1>8. \A c \in B : Next(t, c) = Next(h, c) /\ Next(h, c) \in Units /\ c \in Units
    BY <1>7, MildKeepsTiles, TilesFacts
  <1>9. Agrees(t, a)
    <2>1. SameHead(h, t, a)
      BY <1>2, <1>5, <1>8 DEF SameHead
    <2>2. Next(t, a) = n /\ Footer(t, n) = Header(h, a)
      BY <1>2, <1>4, <1>5, <1>8
    <2> QED
      BY <1>5, <2>1, <2>2 DEF Agrees, SameHead
  <1>10. ASSUME NEW c \in B, c # a, Agrees(h, c)
         PROVE  Agrees(t, c)
    <2>1. Next(h, c) # n
      BY <1>10, TilesFacts
    <2>2. Agrees(x, c)
      BY <1>2, <1>10
    <2>3. t.mem[Next(h, c)] = x.mem[Next(h, c)] /\ SameHead(x, t, c)
      BY <1>5, <1>8, <2>1
    <2> QED
      BY <1>3, <1>8, <2>2, <2>3 DEF Agrees, SameHead, Footer, Header
  <1> QED
    BY <1>2, <1>6, <1>7, <1>9, <1>10

(* fix_footer makes the epilogue agree with the last block, if its prv     *)
(* alloc bit did.                                                          *)
LEMMA FixedFooter ==
  ASSUME NEW h, NEW B, Tiles(h, B), NEW a \in B, Next(h, a) = Epilogue(h),
         Header(h, Epilogue(h)).prev = Header(h, a).alloc,
         NEW t, t = fix_footer(h, a)
  PROVE  /\ Mild(h, t, B, {})
         /\ t.lists = h.lists
         /\ Agrees(t, a)
         /\ \A c \in B : Agrees(h, c) => Agrees(t, c)
  <1>1. PICK bit \in BOOLEAN :
          bit = (\/ Header(h, Epilogue(h)).prev
                 \/ a # 0 /\ Header(h, a).alloc)
    OBVIOUS
  <1>2. Header(h, a).alloc \in BOOLEAN
    BY TilesFacts, WordTypes
  <1>3. bit = Header(h, a).alloc
    BY <1>1, <1>2
  <1>4. t = SetPrev(CopyFooter(h, Epilogue(h), a), Epilogue(h), bit)
    BY <1>1 DEF fix_footer
  <1> QED
    BY <1>3, <1>4, FooterIsSet

(* reset_footer always makes the epilogue agree with the last block.       *)
LEMMA ResetFooter ==
  ASSUME NEW h, NEW B, Tiles(h, B), NEW a \in B, Next(h, a) = Epilogue(h),
         NEW t, t = reset_footer(h, a)
  PROVE  /\ Mild(h, t, B, {})
         /\ t.lists = h.lists
         /\ Agrees(t, a)
         /\ \A c \in B : Agrees(h, c) => Agrees(t, c)
  <1>1. PICK bit \in BOOLEAN : bit = Header(h, a).alloc
    BY TilesFacts, WordTypes
  <1>2. t = SetPrev(CopyFooter(h, Epilogue(h), a), Epilogue(h), bit)
    BY <1>1 DEF reset_footer
  <1> QED
    BY <1>1, <1>2, FooterIsSet

-----------------------------------------------------------------------------
(* Walks along the headers.                                                *)

(* The function that Walk defines exists: at b it is the least set that    *)
(* holds b and, of every block to go on from, the next one.                *)
LEMMA WalksExist ==
  ASSUME NEW h, NEW on \in SUBSET (0 .. End(h)),
         \A b \in on : Next(h, b) \in 0 .. End(h)
  PROVE  \E f : f = [b \in 0 .. End(h) |->
                       IF b \in on THEN {b} \cup f[Next(h, b)] ELSE {b}]
  <1> DEFINE U == 0 .. End(h)
             Closed(X) == \A b \in X \cap on : Next(h, b) \in X
             f == [b \in U |->
                     {v \in U : \A X \in SUBSET U : b \in X /\ Closed(X) => v \in X}]
  <1>1. ASSUME NEW b \in U, b \notin on
        PROVE  f[b] = {b}
    <2>1. Closed({b})
      BY <1>1
    <2>2. {b} \in SUBSET U
      OBVIOUS
    <2> QED
      BY <2>1, <2>2
  <1>2. ASSUME NEW b \in on
        PROVE  f[b] = {b} \cup f[Next(h, b)]
    <2>1. PICK n \in U : n = Next(h, b)
      OBVIOUS
    <2>2. b \in U
      OBVIOUS
    <2>3. ASSUME NEW v \in f[n]
          PROVE  v \in f[b]
      <3>1. v \in U
        OBVIOUS
      <3>2. ASSUME NEW X \in SUBSET U, b \in X, Closed(X)
            PROVE  v \in X
        <4>1. n \in X
          BY <2>1, <3>2
        <4> QED
          BY <3>2, <4>1
      <3> QED
        BY <2>2, <3>1, <3>2
    <2>4. b \in f[b]
      BY <2>2
    <2>5. ASSUME NEW v \in f[b]
          PROVE  v \in {b} \cup f[n]
      <3>1. PICK Y : Y = {b} \cup f[n]
        OBVIOUS
      <3>2. Y \in SUBSET U
        BY <2>2, <3>1
      <3>3. Closed(Y)
        <4>1. n \in f[n]
          OBVIOUS
        <4>2. ASSUME NEW c \in f[n], c \in on
              PROVE  Next(h, c) \in f[n]
          <5>1. Next(h, c) \in U
            BY <4>2
          <5>2. ASSUME NEW X \in SUBSET U, n \in X, Closed(X)
                PROVE  Next(h, c) \in X
            <6>1. c \in X
              BY <5>2
            <6> QED
              BY <4>2, <5>2, <6>1
          <5> QED
            BY <5>1, <5>2
        <4> QED
          BY <2>1, <3>1, <4>1, <4>2
      <3>4. b \in Y
        BY <3>1
      <3> QED
        BY <2>2, <3>1, <3>2, <3>3, <3>4
    <2> QED
      BY <2>1, <2>3, <2>4, <2>5
  <1> HIDE DEF f
  <1>3. f = [b \in U |-> f[b]]
    BY DEF f
  <1>4. \A b \in U : f[b] = IF b \in on THEN {b} \cup f[Next(h, b)] ELSE {b}
    BY <1>1, <1>2
  <1>5. f = [b \in U |-> IF b \in on THEN {b} \cup f[Next(h, b)] ELSE {b}]
    BY <1>3, <1>4
  <1> QED
    BY <1>5

(* A walk that goes on from every block but the last comes to all of them. *)
LEMMA WalkFinds ==
  ASSUME NEW h, NEW B, Tiles(h, B), NEW on \in SUBSET (0 .. End(h)),
         \A b \in on : Next(h, b) \in 0 .. End(h),
         \A b \in B : b \in on <=> Next(h, b) # Epilogue(h)
  PROVE  Walk(h, on) = B
  <1> DEFINE U == 0 .. End(h)
             IsWalk(g) == g = [b \in U |->
                                 IF b \in on THEN {b} \cup g[Next(h, b)] ELSE {b}]
  <1>1. PICK f : f = (CHOOSE g : IsWalk(g))
    OBVIOUS
  <1>2. IsWalk(f)
    <2>1. \E g : IsWalk(g)
      BY WalksExist
    <2> HIDE DEF IsWalk
    <2> QED
      BY <1>1, <2>1
  <1>3. Walk(h, on) = f[0]
    BY <1>1 DEF Walk
  <1>4. \A b \in U : f[b] = IF b \in on THEN {b} \cup f[Next(h, b)] ELSE {b}
    BY <1>2
  <1> HIDE DEF IsWalk
  <1> DEFINE e == Epilogue(h)
             W == {n \in Nat : e - n \in B /\ f[e - n] # {c \in B : c >= e - n}}
             R == OpToRel(LAMBDA x, y : x < y, Nat)
  <1>t. /\ e \in Nat /\ End(h) = e + 1
        /\ 0 \in B
        /\ \A b \in B : /\ b \in Nat /\ b < e
                        /\ Next(h, b) \in Nat /\ Next(h, b) > b + 1
                        /\ Next(h, b) \in B \cup {e}
                        /\ Next(h, b) <= e
        /\ \A b, c \in B : b < c => Next(h, b) <= c
    BY TilesFacts
  <1>u. \A b \in B : b \in U
    BY <1>t
  <1> HIDE DEF e, U
  <1>5. W = {}
    <2> SUFFICES ASSUME W # {}
                 PROVE  FALSE
      OBVIOUS
    <2>1. PICK n \in W : \A m \in W : ~ (m < n)
      <3>1. PICK n \in W : \A m \in W : ~ (<<m, n>> \in R)
        <4>1. W # {} /\ W \subseteq Nat
          OBVIOUS
        <4> HIDE DEF W
        <4> QED
          BY <4>1, WFMin, NatLessThanWellFounded
      <3>2. \A m \in W : m < n => <<m, n>> \in R
        BY DEF OpToRel
      <3> QED
        BY <3>1, <3>2
    <2>2. PICK b \in B : b = e - n /\ f[b] # {c \in B : c >= b}
      OBVIOUS
    <2>3. CASE Next(h, b) = e
      <3>1. f[b] = {b}
        BY <1>4, <1>u, <2>3 DEF e
      <3>2. \A c \in B : c >= b <=> c = b
        BY <1>t, <2>3
      <3>3. {c \in B : c >= b} = {b}
        BY <3>2
      <3> QED
        BY <2>2, <3>1, <3>3
    <2>4. CASE Next(h, b) # e
      <3>1. PICK d \in B : d = Next(h, b)
        BY <1>t, <2>4
      <3>2. f[b] = {b} \cup f[d]
        BY <1>4, <1>u, <2>4, <3>1 DEF e
      <3>3. f[d] = {c \in B : c >= d}
        <4>1. e - d \in Nat /\ e - (e - d) = d /\ e - d < n
          BY <1>t, <2>1, <2>2, <3>1
        <4>2. e - d \notin W
          BY <2>1, <4>1
        <4> QED
          BY <4>1, <4>2
      <3>4. \A c \in B : c >= b <=> c = b \/ c >= d
        BY <1>t, <3>1
      <3>5. {c \in B : c >= b} = {b} \cup {c \in B : c >= d}
        BY <3>4
      <3> QED
        BY <2>2, <3>2, <3>3, <3>5
    <2> QED
      BY <2>3, <2>4
  <1>6. f[0] = {c \in B : c >= 0}
    <2>1. e \notin W
      BY <1>5
    <2>2. e - e = 0 /\ e \in Nat
      BY <1>t
    <2> QED
      BY <1>t, <2>1, <2>2
  <1>7. {c \in B : c >= 0} = B
    BY <1>t
  <1> QED
    BY <1>3, <1>6, <1>7

(* The walk of find_last_in_heap comes to every block.                     *)
LEMMA WalkToLastFinds ==
  ASSUME NEW h, NEW B, Tiles(h, B)
  PROVE  walk_to_last(h) = B
  <1>1. PICK on : on = {b \in 0 .. End(h) :
                          /\ Next(h, b) < Epilogue(h)
                          /\ Header(h, Next(h, b)).size >= MIN_BLOCK_SIZE}
    OBVIOUS
  <1>t. /\ h \in Heaps
        /\ Epilogue(h) \in Nat /\ End(h) = Epilogue(h) + 1
        /\ \A b \in B : /\ b \in Nat /\ b < Epilogue(h)
                        /\ Next(h, b) \in Nat
                        /\ Next(h, b) \in B \cup {Epilogue(h)}
                        /\ Header(h, b).size >= 2
    BY TilesFacts
  <1>2. \A b \in on : Next(h, b) \in 0 .. End(h)
    <2> TAKE b \in on
    <2>1. b \in 0 .. End(h) /\ Next(h, b) < Epilogue(h)
      BY <1>1
    <2>2. b \in Units
      BY <1>t, <2>1, HeapTypes
    <2>3. Header(h, b).size \in Nat /\ b \in Nat
      BY <1>t, <2>2, WordTypes, ConstantsAreNumbers
    <2>4. Next(h, b) \in Nat
      BY <2>3 DEF Next
    <2> QED
      BY <1>t, <2>1, <2>4
  <1>3. \A b \in B : b \in on <=> Next(h, b) # Epilogue(h)
    <2> TAKE b \in B
    <2>1. b \in 0 .. End(h)
      BY <1>t
    <2>2. CASE Next(h, b) = Epilogue(h)
      BY <1>1, <1>t, <2>2
    <2>3. CASE Next(h, b) \in B /\ Next(h, b) # Epilogue(h)
      BY <1>1, <1>t, <2>1, <2>3 DEF MIN_BLOCK_SIZE
    <2> QED
      BY <1>t, <2>2, <2>3
  <1>4. on \in SUBSET (0 .. End(h))
    BY <1>1
  <1>5. walk_to_last(h) = Walk(h, on)
    BY <1>1 DEF walk_to_last
  <1> QED
    BY <1>2, <1>3, <1>4, <1>5, WalkFinds

(* The last block is the one before the epilogue.                          *)
LEMMA LastIsFound ==
  ASSUME NEW h, NEW B, Tiles(h, B)
  PROVE  /\ find_last_in_heap(h) \in B
         /\ Next(h, find_last_in_heap(h)) = Epilogue(h)
         /\ \A b \in B : Next(h, b) = Epilogue(h) <=> b = find_last_in_heap(h)
  <1>0. PICK e : e = Epilogue(h)
    OBVIOUS
  <1>t. /\ e \in Nat /\ 0 \in B
        /\ \A b \in B : /\ b \in Nat /\ b < e
                        /\ Next(h, b) \in Nat /\ Next(h, b) > b
        /\ \A b, c \in B : b < c => Next(h, b) <= c
        /\ \A b, c \in B : Next(h, b) = Next(h, c) => b = c
    BY <1>0, TilesFacts
  <1>1. PICK p \in B : Next(h, p) = e
    <2>1. e \in B \cup {Epilogue(h)} /\ e # 0
      BY <1>0, <1>t
    <2> QED
      BY <2>1, PredecessorExists
  <1>2. \A c \in B : p >= c
    BY <1>1, <1>t
  <1>3. find_last_in_heap(h) = (CHOOSE x \in B : \A y \in B : x >= y)
    BY WalkToLastFinds DEF find_last_in_heap, Max
  <1>4. PICK m \in B : m = find_last_in_heap(h) /\ \A y \in B : m >= y
    BY <1>2, <1>3
  <1>5. m = p
    BY <1>2, <1>4, <1>t
  <1> QED
    BY <1>0, <1>1, <1>4, <1>5, <1>t

-----------------------------------------------------------------------------
(* coalesce.                                                               *)

(* Every size has a list.                                                  *)
LEMMA IndexIsAList ==
  ASSUME NEW n
  PROVE  find_allocation_index(n) \in ListNumbers
  <1>1. PICK S : S = {i \in 0 .. NUM_FREE_LISTS - 2 : fib[i] * MIN_BLOCK_SIZE < n}
    OBVIOUS
  <1>2. PICK K : K = 0 .. 8
    OBVIOUS
  <1>3. IsFiniteSet(K) /\ Cardinality(K) = 9
    <2>1. PICK m \in Int, n1 \in Int : m = 0 /\ n1 = 8
      OBVIOUS
    <2>2. /\ IsFiniteSet(m .. n1)
          /\ Cardinality(m .. n1) = IF m > n1 THEN 0 ELSE n1 - m + 1
      BY FS_Interval, Zenon
    <2>3. K = m .. n1 /\ n1 - m + 1 = 9
      BY <1>2, <2>1
    <2>4. ~ (m > n1)
      BY <2>1
    <2> QED
      BY <2>2, <2>3, <2>4
  <1>4. S \subseteq K
    BY <1>1, <1>2 DEF NUM_FREE_LISTS
  <1>5. /\ IsFiniteSet(S) /\ Cardinality(S) \in Nat /\ Cardinality(S) <= 9
    BY <1>3, <1>4, FS_Subset, FS_CardinalityType
  <1>6. find_allocation_index(n) = Cardinality(S)
    BY <1>1 DEF find_allocation_index
  <1> QED
    BY <1>5, <1>6, ConstantsAreNumbers

(* b is in the list of its size, or it is the last block and in the        *)
(* wilderness.                                                             *)
Rests(h, b) ==
  \/ b \in ToSet(h.lists[find_allocation_index(Header(h, b).size)])
  \/ b \in ToSet(h.lists[NUM_FREE_LISTS - 1]) /\ Next(h, b) = Epilogue(h)

(* The wilderness is one of the lists.                                     *)
LEMMA LastListIsAList == NUM_FREE_LISTS - 1 \in ListNumbers
  BY DEF NUM_FREE_LISTS, ListNumbers

(* Two blocks become one.                                                  *)
LEMMA TilesJoined ==
  ASSUME NEW h, NEW B, Tiles(h, B), NEW a \in B, a # 0, NEW b \in B, b = Next(h, a),
         NEW t \in Heaps, t.pages = h.pages,
         \A v \in B \cup {Epilogue(h)} : v # a => Header(t, v) = Header(h, v),
         Header(t, a).size = Header(h, a).size + Header(h, b).size,
         HoldsOrFree(t, a)
  PROVE  /\ Tiles(t, B \ {b})
         /\ Epilogue(t) = Epilogue(h) /\ End(t) = End(h)
         /\ Next(t, a) = Next(h, b)
         /\ \A c \in B : c # a => Next(t, c) = Next(h, c)
  <1>0. PICK e : e = Epilogue(h)
    OBVIOUS
  <1>1. Epilogue(t) = e /\ End(t) = End(h)
    BY <1>0 DEF Epilogue, End
  <1>t. /\ e \in Nat /\ 0 \in B /\ e \notin B
        /\ \A c \in B : /\ c \in Nat /\ c < e
                        /\ Header(h, c).size \in Nat
                        /\ Header(h, c).size >= 2
                        /\ Next(h, c) = c + Header(h, c).size
                        /\ Next(h, c) > c + 1
                        /\ Next(h, c) \in B \cup {e}
                        /\ Next(h, c) \in Nat
        /\ \A c, d \in B : c < d => Next(h, c) <= d
        /\ \A c, d \in B : Next(h, c) = Next(h, d) => c = d
    BY <1>0, TilesFacts
  <1>2. /\ Next(t, a) = Next(h, b) /\ Header(t, a).size >= 2
    <2>1. Next(t, a) = a + (Header(h, a).size + Header(h, b).size)
      BY DEF Next
    <2>2. b = a + Header(h, a).size /\ Next(h, b) = b + Header(h, b).size
      BY <1>t
    <2> QED
      BY <1>t, <2>1, <2>2
  <1>3. \A c \in B : c # a => Header(t, c) = Header(h, c) /\ Next(t, c) = Next(h, c)
    BY DEF Next
  <1>4. ASSUME NEW c \in B \ {b}
        PROVE  Header(t, c).size >= 2 /\ Next(t, c) \in (B \ {b}) \cup {e}
    <2>1. CASE c = a
      <3>1. Next(h, b) # b
        BY <1>t
      <3> QED
        BY <1>2, <1>t, <2>1, <3>1
    <2>2. CASE c # a
      <3>1. Next(h, c) # b
        BY <1>t, <2>2
      <3> QED
        BY <1>3, <1>t, <2>2, <3>1
    <2> QED
      BY <2>1, <2>2
  <1>5. ASSUME NEW c \in B \ {b}, NEW d \in B \ {b}, c < d
        PROVE  Next(t, c) <= d
    <2>1. CASE c = a
      <3>1. b <= d /\ b # d
        BY <1>5, <1>t, <2>1
      <3>2. b < d
        BY <1>t, <3>1
      <3> QED
        BY <1>2, <1>t, <2>1, <3>2
    <2>2. CASE c # a
      BY <1>3, <1>5, <1>t, <2>2
    <2> QED
      BY <2>1, <2>2
  <1>6. 0 \in B \ {b} /\ \A c \in B \ {b} : c \in 0 .. e - 1
    BY <1>t
  <1>7. /\ Header(h, 0).alloc /\ Header(h, 0).size = 2 /\ Header(h, 0).pay = 0
        /\ Header(h, e).size = 0 /\ Header(h, e).alloc /\ h.pages # 0
    BY <1>0 DEF Tiles
  <1>8. Header(t, 0) = Header(h, 0) /\ Header(t, e) = Header(h, e)
    BY <1>0, <1>t
  <1>9. \A c \in B \ {b} : Header(t, c).size >= 2 /\ Next(t, c) \in (B \ {b}) \cup {e}
    BY <1>4
  <1>10. \A c \in B \ {b} : HoldsOrFree(t, c)
    BY DEF Tiles, HoldsOrFree
  <1> QED
    BY <1>0, <1>1, <1>2, <1>3, <1>5, <1>6, <1>7, <1>8, <1>9, <1>10 DEF Tiles

(* The first block of the two moves to the list of their size.             *)
LEMMA BlockMoved ==
  ASSUME NEW h \in Heaps, NEW F, Lists(h.lists, F), NEW a \in F, a \in Units,
         NEW to \in ListNumbers, NEW t, t = Move(h, a, ListOf(h, a), to)
  PROVE  /\ t \in Heaps /\ t.pages = h.pages /\ t.mem = h.mem
         /\ Lists(t.lists, F)
         /\ a \in ToSet(t.lists[to])
         /\ SameBut(h.lists, t.lists, a)
  <1>1. PICK i \in ListNumbers : i = ListOf(h, a) /\ a \in ToSet(h.lists[i])
    BY ListIsFound
  <1>2. PICK K : K = h.lists
    OBVIOUS
  <1>3. PICK r : r = RemoveAt(K[i], PlaceIn(K[i], a))
    OBVIOUS
  <1>4. PICK L : L = [K EXCEPT ![i] = r]
    OBVIOUS
  <1>5. Lists(L, F \ {a}) /\ Loses(K, L, a)
    <2>1. Lists(K, F) /\ a \in ToSet(K[i])
      BY <1>1, <1>2
    <2> QED
      BY <1>3, <1>4, <2>1, Left, Zenon
  <1>6. PICK s : s = <<a>> \o L[to]
    OBVIOUS
  <1>7. PICK M : M = [L EXCEPT ![to] = s]
    OBVIOUS
  <1>8. Lists(M, (F \ {a}) \cup {a}) /\ Gains(L, M, a, to)
    <2>1. a \notin F \ {a}
      OBVIOUS
    <2> QED
      BY <1>5, <1>6, <1>7, <2>1, Entered, Zenon
  <1>9. (F \ {a}) \cup {a} = F
    OBVIOUS
  <1>10. PICK x : x = [h EXCEPT !.lists = L]
    OBVIOUS
  <1>11. x \in Heaps /\ x.mem = h.mem /\ x.pages = h.pages /\ x.lists = L
    <2>1. L \in [ListNumbers -> Seq(Units)]
      BY <1>5 DEF Lists
    <2> QED
      BY <1>10, <2>1 DEF Heaps, ListNumbers
  <1>12. t = [x EXCEPT !.lists = M]
    <2>1. x = [h EXCEPT !.lists[i] = RemoveAt(@, PlaceIn(@, a))]
      BY <1>2, <1>3, <1>4, <1>10
    <2>2. t = [x EXCEPT !.lists[to] = <<a>> \o @]
      BY <1>1, <2>1 DEF Move
    <2> QED
      BY <1>6, <1>7, <1>11, <2>2
  <1>13. t \in Heaps /\ t.mem = x.mem /\ t.pages = x.pages /\ t.lists = M
    <2>1. M \in [ListNumbers -> Seq(Units)]
      BY <1>8 DEF Lists
    <2> QED
      BY <1>11, <1>12, <2>1 DEF Heaps, ListNumbers
  <1>14. SameBut(K, M, a)
    BY <1>5, <1>8 DEF Gains, Loses, SameBut
  <1>15. a \in ToSet(M[to])
    BY <1>8 DEF Gains
  <1> QED
    BY <1>2, <1>8, <1>9, <1>11, <1>13, <1>14, <1>15

(* join makes one block of two and moves it to the list of its size; the   *)
(* second is still in its own list.                                        *)
LEMMA BlocksJoined ==
  ASSUME NEW h, NEW B, Sound(h, B), NEW F, F = FreeIn(h, B),
         NEW a \in F, NEW b \in F, b = Next(h, a),
         NEW size, size = Header(h, a).size + Header(h, b).size,
         NEW t, t = join(h, a, size)
  PROVE  /\ Tiles(t, B \ {b}) /\ t.pages = h.pages
         /\ Epilogue(t) = Epilogue(h) /\ End(t) = End(h)
         /\ Next(t, a) = Next(h, b) /\ Header(t, a).size = size
         /\ ~ Header(t, a).alloc
         /\ \A c \in B : c # a => Next(t, c) = Next(h, c)
         /\ \A v \in Units : v # a => t.mem[v] = h.mem[v]
         /\ \A c \in B : c # a /\ Agrees(h, c) => Agrees(t, c)
         /\ Lists(t.lists, F)
         /\ a \in ToSet(t.lists[find_allocation_index(size)])
         /\ SameBut(h.lists, t.lists, a)
  <1>t. /\ Tiles(h, B) /\ h \in Heaps /\ a \in B /\ b \in B /\ a # 0
        /\ a \in Units /\ Lists(h.lists, F) /\ size \in Nat
        /\ Header(h, a).prev \in BOOLEAN
    <2>1. Tiles(h, B) /\ a \in B /\ b \in B /\ a # 0 /\ Lists(h.lists, F)
      BY DEF Sound, FreeIn, Tiles
    <2>2. /\ h \in Heaps /\ a \in Units
          /\ Header(h, a).size \in Nat /\ Header(h, b).size \in Nat
      BY <2>1, TilesFacts
    <2> QED
      BY <2>1, <2>2, WordTypes
  <1>1. PICK to \in ListNumbers : to = find_allocation_index(size)
    BY IndexIsAList
  <1>2. PICK m : m = Move(h, a, ListOf(h, a), to)
    OBVIOUS
  <1>3. /\ m \in Heaps /\ m.pages = h.pages /\ m.mem = h.mem
        /\ Lists(m.lists, F)
        /\ a \in ToSet(m.lists[to])
        /\ SameBut(h.lists, m.lists, a)
    BY <1>t, <1>2, BlockMoved
  <1>4. PICK w : w = set_header(0, size, FALSE, Header(h, a).prev)
    OBVIOUS
  <1>5. w \in Word /\ w.pay = 0 /\ w.size = size /\ ~ w.alloc
    <2>1. w = [pay |-> 0, size |-> size, alloc |-> FALSE, prev |-> Header(h, a).prev]
      BY <1>4 DEF set_header
    <2>2. FALSE \in BOOLEAN /\ 0 \in Nat
      OBVIOUS
    <2>3. w \in Word
      BY <1>t, <2>1, <2>2 DEF Word
    <2>4. w.pay = 0 /\ w.size = size /\ w.alloc = FALSE
      BY <2>1
    <2> QED
      BY <2>3, <2>4
  <1>6. t = SetHead(m, a, w)
    BY <1>1, <1>2, <1>4 DEF join
  <1>7. /\ OnlyMemory(m, t)
        /\ Header(t, a) = w
        /\ \A v \in Units : v # a => Header(t, v) = Header(m, v)
        /\ \A v \in Units : Footer(t, v) = Footer(m, v)
        /\ \A v \in Units : v # a => t.mem[v] = m.mem[v]
    BY <1>t, <1>3, <1>5, <1>6, HeadIsSet
  <1>8. /\ t \in Heaps /\ t.pages = h.pages /\ t.lists = m.lists
        /\ \A v \in Units : v # a => Header(t, v) = Header(h, v)
        /\ \A v \in Units : Footer(t, v) = Footer(h, v)
        /\ \A v \in Units : v # a => t.mem[v] = h.mem[v]
    BY <1>3, <1>7 DEF OnlyMemory, Header, Footer
  <1>9. /\ Tiles(t, B \ {b})
        /\ Epilogue(t) = Epilogue(h) /\ End(t) = End(h)
        /\ Next(t, a) = Next(h, b)
        /\ \A c \in B : c # a => Next(t, c) = Next(h, c)
    <2>1. \A v \in B \cup {Epilogue(h)} : v # a => Header(t, v) = Header(h, v)
      BY <1>t, <1>8, TilesFacts
    <2>2. Header(t, a).size = Header(h, a).size + Header(h, b).size
      BY <1>5, <1>7
    <2>3. HoldsOrFree(t, a)
      BY <1>5, <1>7 DEF HoldsOrFree
    <2> QED
      BY <1>t, <1>8, <2>1, <2>2, <2>3, TilesJoined
  <1>10. ASSUME NEW c \in B, c # a, Agrees(h, c)
         PROVE  Agrees(t, c)
    <2>1. c \in Units /\ Next(h, c) \in Units
      BY <1>t, TilesFacts
    <2>2. CASE Next(h, c) # a
      <3>1. /\ Header(t, Next(h, c)) = Header(h, Next(h, c))
            /\ Footer(t, Next(h, c)) = Footer(h, Next(h, c))
            /\ Header(t, c) = Header(h, c) /\ Next(t, c) = Next(h, c)
        BY <1>8, <1>9, <1>10, <2>1, <2>2
      <3> QED
        BY <1>10, <3>1 DEF Agrees
    <2>3. CASE Next(h, c) = a
      <3>1. /\ Footer(t, a) = Footer(h, a)
            /\ Header(t, c) = Header(h, c) /\ Next(t, c) = a
        BY <1>t, <1>8, <1>9, <1>10, <2>1, <2>3
      <3>2. Header(t, a).prev = Header(h, a).prev
        BY <1>4, <1>7 DEF set_header
      <3> QED
        BY <1>10, <2>3, <3>1, <3>2 DEF Agrees
    <2> QED
      BY <2>2, <2>3
  <1> QED
    BY <1>1, <1>3, <1>5, <1>7, <1>8, <1>9, <1>10

(* a and b have become one block, and the others are as they were.         *)
Joined(h, B, t, C, a, b, D) ==
  /\ Sound(t, C) /\ t.pages = h.pages
  /\ UsedIn(t, C) = UsedIn(h, B)
  /\ FreeIn(t, C) = FreeIn(h, B) \ {b}
  /\ Keeps(h, t, UsedIn(h, B), D)
  /\ Next(t, a) = Next(h, b)
  /\ \A c \in C : c # a => Next(t, c) = Next(h, c)
  /\ Rests(t, a)
  /\ \A c \in FreeIn(h, B) \ {a, b} : Rests(h, c) => Rests(t, c)

(* coalesce joins two free neighbours in a heap that is in order.          *)
LEMMA Coalesced ==
  ASSUME NEW h, NEW B, Sound(h, B), NEW a \in FreeIn(h, B), NEW b \in FreeIn(h, B),
         b = Next(h, a), NEW D \in SUBSET Units, NEW t, t = coalesce(h, a, b)
  PROVE  Joined(h, B, t, B \ {b}, a, b, D)
  <1> DEFINE F == FreeIn(h, B)
             C == B \ {b}
  <1>1. PICK size : size = Header(h, a).size + Header(h, b).size
    OBVIOUS
  <1>2. PICK j : j = join(h, a, size)
    OBVIOUS
  <1>t. /\ Tiles(h, B) /\ a \in B /\ b \in B /\ a # 0
        /\ a \in Units /\ b \in Units /\ b + 1 \in Units
        /\ b + 1 \notin B \cup {Epilogue(h)}
        /\ a + 1 # b
    <2>1. Tiles(h, B) /\ a \in B /\ b \in B /\ a # 0
      BY DEF Sound, FreeIn, Tiles
    <2>2. /\ a \in Units /\ b \in Units /\ b + 1 \in Units
          /\ b + 1 \notin B /\ b \in Nat /\ Next(h, b) > b + 1
          /\ Next(h, b) <= Epilogue(h) /\ Epilogue(h) \in Nat /\ Next(h, b) \in Nat
          /\ Next(h, a) > a + 1 /\ a \in Nat
      BY <2>1, TilesFacts
    <2>3. b + 1 # Epilogue(h) /\ a + 1 # b
      BY <2>2
    <2> QED
      BY <2>1, <2>2, <2>3
  <1>3. /\ Tiles(j, C) /\ j.pages = h.pages
        /\ Epilogue(j) = Epilogue(h) /\ End(j) = End(h)
        /\ Next(j, a) = Next(h, b) /\ Header(j, a).size = size
        /\ ~ Header(j, a).alloc
        /\ \A c \in B : c # a => Next(j, c) = Next(h, c)
        /\ \A v \in Units : v # a => j.mem[v] = h.mem[v]
        /\ \A c \in B : c # a /\ Agrees(h, c) => Agrees(j, c)
        /\ Lists(j.lists, F)
        /\ a \in ToSet(j.lists[find_allocation_index(size)])
        /\ SameBut(h.lists, j.lists, a)
    <2> HIDE DEF F
    <2>1. F = FreeIn(h, B) /\ a \in F /\ b \in F
      BY DEF F
    <2> QED
      BY <1>1, <1>2, <2>1, BlocksJoined
  <1>4. PICK k : k = isolate_block(j, b)
    OBVIOUS
  <1>5. ASSUME NEW s \in F \ {b}
        PROVE  PrevIsFound(j, C, s)
    <2>1. s \in B /\ s # b /\ s # 0
      BY DEF FreeIn, Sound, Tiles
    <2>2. PICK p \in B : p < s /\ Next(h, p) = s
      BY <1>t, <2>1, PredecessorExists
    <2>3. /\ p \in Nat /\ p \in Units /\ s \in Units /\ s \in Nat
          /\ s = p + Header(h, p).size
          /\ Header(h, p).size \in Nat
          /\ s <= Epilogue(h) /\ End(h) = Epilogue(h) + 1 /\ Epilogue(h) \in Nat
      BY <1>t, <2>1, <2>2, TilesFacts
    <2>4. p # a
      BY <2>1, <2>2
    <2>5. Footer(h, s).size = Header(h, p).size
      BY <2>2 DEF Sound, Agrees
    <2>6. Footer(j, s).size = Header(h, p).size
      <3>1. CASE s # a
        BY <1>3, <2>3, <2>5, <3>1 DEF Footer
      <3>2. CASE s = a
        <4>1. Agrees(j, p) /\ Next(j, p) = a
          BY <1>3, <2>2, <2>4, <3>2 DEF Sound
        <4>2. Header(j, p) = Header(h, p)
          BY <1>3, <2>3, <2>4 DEF Header
        <4> QED
          BY <3>2, <4>1, <4>2 DEF Agrees
      <3> QED
        BY <3>1, <3>2
    <2>7. Prev(j, s) = p
      BY <2>3, <2>6 DEF Prev
    <2>8. p \in 0 .. End(j) /\ p # s
      BY <1>3, <2>2, <2>3
    <2>9. ~ Header(j, p).alloc \/ (p \in C /\ Next(j, p) = s)
      <3>1. CASE p = b
        <4>1. Header(j, b) = Header(h, b)
          BY <1>t, <1>3, <2>4, <3>1 DEF Header
        <4> QED
          BY <3>1, <4>1 DEF FreeIn
      <3>2. CASE p # b
        BY <1>3, <2>2, <2>4, <3>2
      <3> QED
        BY <3>1, <3>2
    <2>10. s \in C
      BY <2>1
    <2> QED
      BY <2>1, <2>7, <2>8, <2>9, <2>10 DEF PrevIsFound
  <1>6. /\ Mild(j, k, C, {b + 1})
        /\ Lists(k.lists, F \ {b})
        /\ Loses(j.lists, k.lists, b)
        /\ \A c \in C : Agrees(j, c) => Agrees(k, c)
    <2>1. b + 1 \notin C \cup {Epilogue(j)}
      BY <1>t, <1>3
    <2> HIDE DEF F, C
    <2>2. b \in F
      BY DEF F
    <2> QED
      BY <1>t, <1>3, <1>4, <1>5, <2>1, <2>2, BlockIsolated
  <1>7. Tiles(k, C) /\ \A c \in C : Next(k, c) = Next(j, c)
    BY <1>3, <1>6, MildKeepsTiles
  <1>8. PICK q : q = touch_for_heap_update(k, a)
    OBVIOUS
  <1>a. a \in C
    <2>1. a # b
      BY <1>t, TilesFacts
    <2> QED
      BY <1>t, <2>1
  <1>9. PICK p \in C : Next(k, p) = a /\ p # a
    <2>1. PICK p \in C : p < a /\ Next(k, p) = a
      BY <1>a, <1>t, <1>7, PredecessorExists
    <2>2. p # a
      BY <1>7, <2>1, TilesFacts
    <2> QED
      BY <2>1, <2>2
  <1>10. Footer(k, a).size = Header(k, p).size
    BY <1>3, <1>6, <1>9 DEF Sound, Agrees
  <1>11. /\ Mild(k, q, C, {})
         /\ q.lists = k.lists
         /\ Agrees(q, a)
         /\ \A c \in C : Agrees(k, c) => Agrees(q, c)
    BY <1>7, <1>8, <1>9, <1>10, <1>a, TouchInOrder
  <1>12. Tiles(q, C) /\ \A c \in C : Next(q, c) = Next(k, c)
    BY <1>7, <1>11, MildKeepsTiles
  <1>13. PICK n : n = Next(q, a)
    OBVIOUS
  <1>14. n = a + size
    <2>1. Header(q, a).size = size
      BY <1>3, <1>6, <1>11, <1>a DEF Mild, SameHead
    <2> QED
      BY <1>13, <2>1 DEF Next
  <1>15. t = CopyFooter(q, n, a)
    BY <1>1, <1>2, <1>4, <1>8, <1>14 DEF coalesce, coalesce_sized
  <1>16. /\ Mild(q, t, C, {})
         /\ t.lists = q.lists
         /\ \A c \in C : Agrees(q, c) => Agrees(t, c)
    <2>1. /\ Mild(q, t, C, {})
          /\ t.lists = q.lists
          /\ \A c \in C : c # a /\ Agrees(q, c) => Agrees(t, c)
          /\ Header(q, n).prev = Header(q, a).alloc => Agrees(t, a)
      BY <1>12, <1>13, <1>15, <1>a, FooterCopied
    <2>2. Header(q, n).prev = Header(q, a).alloc
      BY <1>11, <1>13 DEF Agrees
    <2> QED
      BY <2>1, <2>2
  <1>17. Mild(j, t, C, {b + 1})
    <2>1. Mild(j, q, C, {b + 1} \cup {})
      BY <1>6, <1>11, MildIsTransitive
    <2>2. Mild(j, t, C, ({b + 1} \cup {}) \cup {})
      BY <1>16, <2>1, MildIsTransitive
    <2>3. ({b + 1} \cup {}) \cup {} = {b + 1}
      OBVIOUS
    <2> QED
      BY <2>2, <2>3
  <1>18. /\ Tiles(t, C) /\ Epilogue(t) = Epilogue(h)
         /\ \A c \in C : Next(t, c) = Next(j, c)
    BY <1>3, <1>17, MildKeepsTiles
  <1>19. \A c \in C : Agrees(t, c)
    <2>1. \A c \in C : c # a => Agrees(q, c)
      BY <1>3, <1>6, <1>11 DEF Sound
    <2>2. \A c \in C : Agrees(q, c)
      BY <1>11, <2>1
    <2> QED
      BY <1>16, <2>2
  <1>20. \A c \in C : c # a => SameHead(h, t, c)
    <2>1. \A c \in C : c # a => Header(j, c) = Header(h, c)
      BY <1>t, <1>3, TilesFacts DEF Header
    <2>2. \A c \in C : SameHead(j, t, c)
      BY <1>17 DEF Mild
    <2> QED
      BY <2>1, <2>2 DEF SameHead
  <1>21. Header(t, a).size = size /\ ~ Header(t, a).alloc
    <2>1. SameHead(j, t, a)
      BY <1>17, <1>a DEF Mild
    <2> QED
      BY <1>3, <2>1 DEF SameHead
  <1>22. FreeIn(t, C) = F \ {b} /\ UsedIn(t, C) = UsedIn(h, B)
    <2>1. ~ Header(h, a).alloc /\ ~ Header(h, b).alloc
      BY DEF FreeIn
    <2> QED
      BY <1>20, <1>21, <1>a, <1>t, <2>1 DEF FreeIn, UsedIn, SameHead
  <1>23. Sound(t, C)
    BY <1>6, <1>11, <1>16, <1>18, <1>19, <1>22 DEF Sound
  <1>24. Keeps(h, t, UsedIn(h, B), D)
    <2>1. PICK P : P = UsedIn(h, B)
      OBVIOUS
    <2>2. ASSUME NEW x \in P
          PROVE  x \in B /\ x # a /\ x # b
      BY <2>1 DEF UsedIn, FreeIn
    <2>3. Keeps(h, j, P, D)
      <3>1. \A v \in D : ~ Header(h, v).alloc => ~ Header(j, v).alloc
        BY <1>3 DEF Header
      <3>2. \A x \in P : SameHead(h, j, x)
        <4>1. \A x \in B : x \in Units
          BY <1>t, TilesFacts
        <4> QED
          BY <1>3, <2>2, <4>1 DEF SameHead, Header
      <3>3. \A x \in P : \A u \in x + 1 .. Next(h, x) - 1 : j.mem[u] = h.mem[u]
        <4>1. \A x \in B : \A u \in x + 1 .. Next(h, x) - 1 : u \in Units /\ u \notin B
          BY <1>t, TilesFacts
        <4> QED
          BY <1>t, <1>3, <2>2, <4>1
      <3> QED
        BY <3>1, <3>2, <3>3 DEF Keeps
    <2>4. Keeps(j, t, P, D)
      <3>1. P \in SUBSET C
        BY <2>2
      <3>2. ASSUME NEW x \in P, NEW u \in x + 1 .. Next(j, x) - 1
            PROVE  u \notin {b + 1}
        <4>1. Next(j, x) = Next(h, x)
          BY <1>3, <2>2
        <4>2. b + 1 \notin x + 1 .. Next(h, x) - 1
          BY <1>t, <2>2, LinksAreInside
        <4> QED
          BY <4>1, <4>2
      <3> QED
        BY <1>3, <1>17, <3>1, <3>2, MildKeeps
    <2> QED
      BY <2>1, <2>3, <2>4, KeepsIsTransitive
  <1>25. \A i \in ListNumbers : \A c :
           c # a /\ c # b => (c \in ToSet(t.lists[i]) <=> c \in ToSet(h.lists[i]))
    BY <1>3, <1>6, <1>11, <1>16 DEF Loses, SameBut
  <1>26. Rests(t, a)
    <2>1. find_allocation_index(size) \in ListNumbers
      BY IndexIsAList
    <2>2. a \in ToSet(t.lists[find_allocation_index(size)])
      BY <1>3, <1>6, <1>11, <1>16, <1>a, <2>1 DEF Loses
    <2> QED
      BY <1>21, <2>2 DEF Rests
  <1>27. ASSUME NEW c \in F \ {a, b}, Rests(h, c)
         PROVE  Rests(t, c)
    <2>1. c \in C /\ c # a /\ c # b
      BY DEF FreeIn
    <2>2. Next(t, c) = Next(h, c) /\ Header(t, c).size = Header(h, c).size
      BY <1>3, <1>18, <1>20, <2>1 DEF SameHead
    <2> QED
      BY <1>18, <1>25, <1>27, <2>1, <2>2, IndexIsAList, LastListIsAList DEF Rests
  <1>28. Next(t, a) = Next(h, b) /\ \A c \in C : c # a => Next(t, c) = Next(h, c)
    BY <1>3, <1>18, <1>a
  <1>29. t.pages = h.pages
    BY <1>3, <1>17 DEF Mild
  <1> QED
    BY <1>22, <1>23, <1>24, <1>26, <1>27, <1>28, <1>29 DEF Joined

-----------------------------------------------------------------------------
(* do_coalesce.                                                            *)

(* As a call leaves the heap: no two free blocks are neighbours, and each  *)
(* is in its list.                                                         *)
Tidy(h, B) ==
  /\ Sound(h, B)
  /\ \A c \in FreeIn(h, B) : Rests(h, c) /\ Next(h, c) \notin FreeIn(h, B)

(* As do_coalesce finds it: a free block may also be about to be joined.   *)
Loose(h, B) ==
  /\ Sound(h, B)
  /\ \A c \in FreeIn(h, B) : Rests(h, c) \/ Next(h, c) \in FreeIn(h, B)

(* The blocks in use before are those in use after.                        *)
SameUse(h, B, t, C, D) ==
  /\ t.pages = h.pages
  /\ UsedIn(t, C) = UsedIn(h, B)
  /\ Keeps(h, t, UsedIn(h, B), D)

(* Blocks that stay in use through two changes stay in use.                *)
LEMMA SameUseIsTransitive ==
  ASSUME NEW h, NEW B, NEW t, NEW C, NEW r, NEW E, NEW D,
         SameUse(h, B, t, C, D), SameUse(t, C, r, E, D)
  PROVE  SameUse(h, B, r, E, D)
  BY KeepsIsTransitive DEF SameUse

(* The loop at block a of heap g, whose blocks are C.                      *)
LoopAt(g, C, a) ==
  /\ Loose(g, C)
  /\ a \in C
  /\ \A c \in FreeIn(g, C) : c < a => Next(g, c) \notin FreeIn(g, C)

(* After turn n of at most N.                                              *)
InTurn(h, B, D, x, n, N) ==
  \E g, C, a :
    /\ x = [heap |-> g, at |-> a]
    /\ LoopAt(g, C, a)
    /\ SameUse(h, B, g, C, D)
    /\ \/ Next(g, a) = Epilogue(g)
       \/ Cardinality({c \in C : c > a}) + n <= N

(* A turn of do_coalesce that joins two blocks stays where it is.          *)
LEMMA BlocksAreJoined ==
  ASSUME NEW g, NEW C, NEW a, LoopAt(g, C, a), NEW b, b = Next(g, a),
         a \in FreeIn(g, C), b \in FreeIn(g, C), NEW D \in SUBSET Units,
         NEW t, t = coalesce(g, a, b)
  PROVE  LoopAt(t, C \ {b}, a) /\ SameUse(g, C, t, C \ {b}, D)
  <1>1. Sound(g, C) /\ Tiles(g, C)
    BY DEF LoopAt, Loose, Sound
  <1>2. /\ Sound(t, C \ {b}) /\ t.pages = g.pages
        /\ UsedIn(t, C \ {b}) = UsedIn(g, C)
        /\ FreeIn(t, C \ {b}) = FreeIn(g, C) \ {b}
        /\ Keeps(g, t, UsedIn(g, C), D)
        /\ Next(t, a) = Next(g, b)
        /\ \A c \in C \ {b} : c # a => Next(t, c) = Next(g, c)
        /\ Rests(t, a)
        /\ \A c \in FreeIn(g, C) \ {a, b} : Rests(g, c) => Rests(t, c)
    <2>1. Joined(g, C, t, C \ {b}, a, b, D)
      BY <1>1, Coalesced
    <2> QED
      BY <2>1 DEF Joined
  <1>3. /\ a \in C /\ b \in C /\ a # b /\ a \in Nat
        /\ \A c \in C : c # a => Next(g, c) # b
        /\ \A c \in C : c \in Nat
    <2>1. a \in C /\ b \in C
      BY DEF FreeIn
    <2>2. /\ a \in Nat /\ Next(g, a) > a + 1 /\ b \in Nat
          /\ \A c \in C : Next(g, c) = Next(g, a) => c = a
          /\ \A c \in C : c \in Nat
      BY <1>1, <2>1, TilesFacts
    <2> QED
      BY <2>1, <2>2
  <1>4. ASSUME NEW c \in FreeIn(g, C) \ {b}
        PROVE  Rests(t, c) \/ Next(t, c) \in FreeIn(g, C) \ {b}
    <2>1. CASE c = a
      BY <1>2, <2>1
    <2>2. CASE c # a
      <3>1. c \in C /\ Next(t, c) = Next(g, c) /\ Next(g, c) # b
        BY <1>2, <1>3, <2>2 DEF FreeIn
      <3>2. Rests(g, c) \/ Next(g, c) \in FreeIn(g, C)
        BY DEF LoopAt, Loose
      <3> QED
        BY <1>2, <2>2, <3>1, <3>2
    <2> QED
      BY <2>1, <2>2
  <1>5. ASSUME NEW c \in FreeIn(g, C) \ {b}, c < a
        PROVE  Next(t, c) \notin FreeIn(g, C) \ {b}
    <2>1. c \in C /\ c # a
      BY <1>3, <1>5 DEF FreeIn
    <2>2. Next(t, c) = Next(g, c)
      BY <1>2, <2>1
    <2> QED
      BY <1>5, <2>2 DEF LoopAt
  <1>6. Loose(t, C \ {b})
    BY <1>2, <1>4 DEF Loose
  <1>7. LoopAt(t, C \ {b}, a)
    BY <1>2, <1>3, <1>5, <1>6 DEF LoopAt
  <1> QED
    BY <1>2, <1>7 DEF SameUse

(* A turn that has nothing to join leaves no free neighbours behind.       *)
LEMMA LoopMovesOn ==
  ASSUME NEW g, NEW C, NEW a, LoopAt(g, C, a), NEW b \in C, b = Next(g, a),
         ~ (a \in FreeIn(g, C) /\ b \in FreeIn(g, C))
  PROVE  LoopAt(g, C, b)
  <1>1. /\ a \in C /\ a \in Nat /\ b \in Nat
        /\ \A c, d \in C : c < d => Next(g, c) <= d
        /\ \A c \in C : c \in Nat
    BY TilesFacts DEF LoopAt, Loose, Sound
  <1>2. ASSUME NEW c \in FreeIn(g, C), c < b
        PROVE  Next(g, c) \notin FreeIn(g, C)
    <2>1. c \in C
      BY DEF FreeIn
    <2>2. c < a \/ c = a
      BY <1>1, <1>2, <2>1
    <2> QED
      BY <2>2 DEF LoopAt
  <1> QED
    BY <1>2 DEF LoopAt

(* One block less is ahead.                                                *)
LEMMA OneLessAhead ==
  ASSUME NEW g, NEW C, Tiles(g, C), NEW a \in C, NEW b \in C, b = Next(g, a)
  PROVE  /\ Cardinality({c \in C : c > b}) = Cardinality({c \in C : c > a}) - 1
         /\ Cardinality({c \in C \ {b} : c > a}) = Cardinality({c \in C : c > a}) - 1
         /\ Cardinality({c \in C : c > a}) \in Nat
  <1>1. /\ IsFiniteSet(C) /\ a \in Nat /\ b \in Nat /\ b > a
        /\ \A c \in C : c \in Nat
        /\ \A c \in C : a < c => b <= c
    <2>1. Next(g, a) > a + 1 /\ a \in Nat /\ b \in Nat
      BY TilesFacts
    <2> QED
      BY <2>1, TilesFacts
  <1>2. PICK S : S = {c \in C : c > a}
    OBVIOUS
  <1>3. IsFiniteSet(S) /\ b \in S
    <2>1. S \subseteq C
      BY <1>2
    <2> QED
      BY <1>1, <1>2, <2>1, FS_Subset
  <1>4. /\ Cardinality(S \ {b}) = Cardinality(S) - 1
        /\ Cardinality(S) \in Nat
    BY <1>3, FS_RemoveElement, FS_CardinalityType
  <1>5. {c \in C \ {b} : c > a} = S \ {b}
    BY <1>2
  <1>6. {c \in C : c > b} = S \ {b}
    <2>1. \A c \in C : c > b <=> (c > a /\ c # b)
      BY <1>1
    <2> QED
      BY <1>2, <2>1
  <1> QED
    BY <1>2, <1>4, <1>5, <1>6

(* Each turn joins, moves on or is the last: one more block is done with.  *)
LEMMA TurnIsDone ==
  ASSUME NEW h, NEW B, NEW D \in SUBSET Units, NEW x, NEW n \in Nat, NEW N \in Nat,
         InTurn(h, B, D, x, n, N)
  PROVE  InTurn(h, B, D, coalesce_at(x), n + 1, N)
  <1>1. PICK g, C, a :
          /\ x = [heap |-> g, at |-> a]
          /\ LoopAt(g, C, a)
          /\ SameUse(h, B, g, C, D)
          /\ \/ Next(g, a) = Epilogue(g)
             \/ Cardinality({c \in C : c > a}) + n <= N
    BY DEF InTurn
  <1>2. Tiles(g, C) /\ a \in C
    BY <1>1 DEF LoopAt, Loose, Sound
  <1>3. PICK b : b = Next(g, a)
    OBVIOUS
  <1>4. /\ b \in C \cup {Epilogue(g)} /\ Epilogue(g) \in Nat /\ b \in Nat
        /\ \A c \in C : c < Epilogue(g) /\ c \in Nat
    BY <1>2, <1>3, TilesFacts
  <1>5. x.heap = g /\ x.at = a
    BY <1>1
  <1>6. CASE b = Epilogue(g)
    <2>1. b >= Epilogue(g) /\ ~ (b < Epilogue(g))
      BY <1>4, <1>6
    <2>2. coalesce_at(x) = x
      BY <1>3, <1>5, <2>1 DEF coalesce_at
    <2> QED
      BY <1>1, <1>3, <1>6, <2>2 DEF InTurn
  <1>7. CASE b \in C /\ b # Epilogue(g)
    <2>0. b < Epilogue(g) /\ ~ (b >= Epilogue(g))
      BY <1>4, <1>7
    <2>c. /\ Cardinality({c \in C : c > b}) + (n + 1) <= N
          /\ Cardinality({c \in C \ {b} : c > a}) + (n + 1) <= N
      <3>1. /\ Cardinality({c \in C : c > b}) = Cardinality({c \in C : c > a}) - 1
            /\ Cardinality({c \in C \ {b} : c > a}) = Cardinality({c \in C : c > a}) - 1
            /\ Cardinality({c \in C : c > a}) \in Nat
        BY <1>2, <1>3, <1>7, OneLessAhead
      <3>2. Cardinality({c \in C : c > a}) + n <= N
        BY <1>1, <1>3, <1>7
      <3> QED
        BY <3>1, <3>2
    <2>1. CASE can_coalesce(g, a)
      <3>1. PICK t : t = coalesce(g, a, b)
        OBVIOUS
      <3>2. coalesce_at(x) = [x EXCEPT !.heap = coalesce(@, a, b)]
        BY <1>3, <1>5, <2>0, <2>1 DEF coalesce_at
      <3>3. coalesce_at(x) = [heap |-> t, at |-> a]
        BY <1>1, <3>1, <3>2
      <3>4. a \in FreeIn(g, C) /\ b \in FreeIn(g, C)
        BY <1>2, <1>3, <1>7, <2>1 DEF can_coalesce, FreeIn
      <3>5. LoopAt(t, C \ {b}, a) /\ SameUse(g, C, t, C \ {b}, D)
        BY <1>1, <1>3, <3>1, <3>4, BlocksAreJoined
      <3>6. SameUse(h, B, t, C \ {b}, D)
        BY <1>1, <3>5, SameUseIsTransitive
      <3> QED
        BY <2>c, <3>3, <3>5, <3>6 DEF InTurn
    <2>2. CASE ~ can_coalesce(g, a)
      <3>1. Header(g, b).size >= 2 /\ Header(g, b).size \in Nat
        BY <1>2, <1>7, TilesFacts
      <3>2. ~ (Header(g, b).size < MIN_BLOCK_SIZE)
        BY <3>1 DEF MIN_BLOCK_SIZE
      <3>3. coalesce_at(x) = [x EXCEPT !.at = b]
        BY <1>3, <1>5, <2>0, <2>2, <3>2 DEF coalesce_at
      <3>4. coalesce_at(x) = [heap |-> g, at |-> b]
        BY <1>1, <3>3
      <3>5. ~ (a \in FreeIn(g, C) /\ b \in FreeIn(g, C))
        BY <1>3, <2>2 DEF can_coalesce, FreeIn
      <3>6. LoopAt(g, C, b)
        BY <1>1, <1>3, <1>7, <3>5, LoopMovesOn
      <3> QED
        BY <1>1, <2>c, <3>4, <3>6 DEF InTurn
    <2> QED
      BY <2>1, <2>2
  <1> QED
    BY <1>4, <1>6, <1>7

(* The turns of the loop exist, for any number of them.                    *)
LEMMA TurnsExist ==
  ASSUME NEW x0
  PROVE  \A N \in Nat : \E f : f = [n \in 0 .. N |->
                                      IF n = 0 THEN x0 ELSE coalesce_at(f[n - 1])]
  <1> DEFINE Is(f, N) == f = [n \in 0 .. N |->
                                IF n = 0 THEN x0 ELSE coalesce_at(f[n - 1])]
             S == {N \in Nat : ~ \E f : Is(f, N)}
             R == OpToRel(LAMBDA x, y : x < y, Nat)
  <1> SUFFICES ASSUME S # {}
               PROVE  FALSE
    OBVIOUS
  <1>1. PICK N \in S : \A m \in S : ~ (m < N)
    <2>1. PICK N \in S : \A m \in S : ~ (<<m, N>> \in R)
      <3>1. S \subseteq Nat
        OBVIOUS
      <3> HIDE DEF S
      <3> QED
        BY <3>1, WFMin, NatLessThanWellFounded
    <2>2. \A m \in S : m < N => <<m, N>> \in R
      BY DEF OpToRel
    <2> QED
      BY <2>1, <2>2
  <1>2. CASE N = 0
    <2> DEFINE f == [n \in 0 .. 0 |-> x0]
    <2>1. \A n \in 0 .. 0 : n = 0
      OBVIOUS
    <2>2. f = [n \in 0 .. 0 |-> IF n = 0 THEN x0 ELSE coalesce_at(f[n - 1])]
      BY <2>1
    <2>3. Is(f, N)
      BY <1>2, <2>2
    <2> QED
      BY <2>3
  <1>3. CASE N # 0
    <2>1. PICK M \in Nat : N = M + 1
      <3>1. N - 1 \in Nat /\ N = (N - 1) + 1
        BY <1>3
      <3> QED
        BY <3>1
    <2>2. PICK g : Is(g, M)
      BY <1>1, <2>1
    <2>3. \A n \in 0 .. M : g[n] = IF n = 0 THEN x0 ELSE coalesce_at(g[n - 1])
      BY <2>2
    <2> DEFINE f == [n \in 0 .. N |-> IF n <= M THEN g[n] ELSE coalesce_at(g[M])]
    <2>4. \A n \in 0 .. N : f[n] = IF n <= M THEN g[n] ELSE coalesce_at(g[M])
      OBVIOUS
    <2>5. f = [n \in 0 .. N |-> f[n]]
      OBVIOUS
    <2> HIDE DEF f, Is
    <2>6. ASSUME NEW n \in 0 .. N
          PROVE  f[n] = IF n = 0 THEN x0 ELSE coalesce_at(f[n - 1])
      <3>1. CASE n = 0
        BY <2>1, <2>3, <2>4, <3>1
      <3>2. CASE n # 0 /\ n <= M
        <4>1. n \in 0 .. M /\ n - 1 \in 0 .. N /\ n - 1 <= M
          BY <2>1, <3>2
        <4> QED
          BY <2>3, <2>4, <3>2, <4>1
      <3>3. CASE n # 0 /\ ~ (n <= M)
        <4>1. n - 1 = M /\ n - 1 \in 0 .. N /\ n - 1 <= M
          BY <2>1, <3>3
        <4> QED
          BY <2>4, <3>3, <4>1
      <3> QED
        BY <3>1, <3>2, <3>3
    <2>7. f = [n \in 0 .. N |-> IF n = 0 THEN x0 ELSE coalesce_at(f[n - 1])]
      BY <2>5, <2>6
    <2>8. Is(f, N)
      BY <2>7 DEF Is
    <2> QED
      BY <2>8
  <1> QED
    BY <1>2, <1>3

(* There are as many turns as are made, by the least one that would not    *)
(* be.                                                                     *)
LEMMA AllTurnsAreDone ==
  ASSUME NEW h, NEW B, NEW D \in SUBSET Units, NEW N \in Nat, NEW f,
         NEW x0, InTurn(h, B, D, x0, 0, N),
         \A n \in 0 .. N : f[n] = IF n = 0 THEN x0 ELSE coalesce_at(f[n - 1])
  PROVE  InTurn(h, B, D, f[N], N, N)
  <1> DEFINE S == {n \in 0 .. N : ~ InTurn(h, B, D, f[n], n, N)}
             R == OpToRel(LAMBDA x, y : x < y, Nat)
  <1> SUFFICES ASSUME S # {}
               PROVE  FALSE
    <2>1. N \in 0 .. N
      OBVIOUS
    <2> QED
      BY <2>1
  <1>1. PICK n \in S : \A m \in S : ~ (m < n)
    <2>1. PICK n \in S : \A m \in S : ~ (<<m, n>> \in R)
      <3>1. S \subseteq Nat
        OBVIOUS
      <3> HIDE DEF S
      <3> QED
        BY <3>1, WFMin, NatLessThanWellFounded
    <2>2. \A m \in S : m < n => <<m, n>> \in R
      BY DEF OpToRel
    <2> QED
      BY <2>1, <2>2
  <1>2. n \in 0 .. N /\ ~ InTurn(h, B, D, f[n], n, N)
    OBVIOUS
  <1>3. CASE n = 0
    BY <1>2, <1>3
  <1>4. CASE n # 0
    <2>1. PICK m \in Nat : m + 1 = n /\ m \in 0 .. N /\ m < n /\ m = n - 1
      <3>1. n - 1 \in Nat /\ (n - 1) + 1 = n /\ n - 1 \in 0 .. N /\ n - 1 < n
        BY <1>2, <1>4
      <3> QED
        BY <3>1
    <2>2. InTurn(h, B, D, f[m], m, N)
      BY <1>1, <2>1
    <2>3. InTurn(h, B, D, coalesce_at(f[m]), m + 1, N)
      BY <2>1, <2>2, TurnIsDone
    <2>4. f[n] = coalesce_at(f[m])
      BY <1>2, <1>4, <2>1
    <2> QED
      BY <1>2, <2>1, <2>3, <2>4
  <1> QED
    BY <1>3, <1>4

(* do_coalesce leaves no two free blocks next to each other, and its       *)
(* turns, one for every block, are enough.                                 *)
LEMMA AllCoalesced ==
  ASSUME NEW h, NEW B, Loose(h, B), NEW D \in SUBSET Units,
         NEW t, t = do_coalesce(h)
  PROVE  \E C : Tidy(t, C) /\ SameUse(h, B, t, C, D)
  <1> DEFINE turns == Cardinality(walk_to_last(h))
             x0 == [heap |-> h, at |-> 0]
             Is(f) == f = [n \in 0 .. turns |->
                             IF n = 0 THEN x0 ELSE coalesce_at(f[n - 1])]
  <1>1. Tiles(h, B)
    BY DEF Loose, Sound
  <1>2. IsFiniteSet(B) /\ walk_to_last(h) = B
    BY <1>1, TilesFacts, WalkToLastFinds
  <1>3. turns = Cardinality(B) /\ turns \in Nat
    BY <1>2, FS_CardinalityType
  <1>4. PICK f : f = (CHOOSE g : Is(g))
    OBVIOUS
  <1>5. Is(f)
    <2>1. \E g : Is(g)
      <3>1. PICK N \in Nat : N = turns
        BY <1>3
      <3>2. PICK y : y = x0
        OBVIOUS
      <3>3. \E g : g = [n \in 0 .. N |-> IF n = 0 THEN y ELSE coalesce_at(g[n - 1])]
        BY TurnsExist, Zenon
      <3> HIDE DEF turns, x0
      <3> QED
        BY <3>1, <3>2, <3>3
    <2> HIDE DEF Is
    <2> QED
      BY <1>4, <2>1
  <1>6. t = f[turns].heap
    BY <1>4 DEF do_coalesce
  <1>7. \A n \in 0 .. turns : f[n] = IF n = 0 THEN x0 ELSE coalesce_at(f[n - 1])
    BY <1>5
  <1>8. InTurn(h, B, D, x0, 0, turns)
    <2>1. 0 \in B /\ \A c \in B : ~ (c < 0)
      <3>1. 0 \in B /\ \A c \in B : c \in Nat
        BY <1>1, TilesFacts
      <3>2. \A c \in Nat : ~ (c < 0)
        OBVIOUS
      <3> QED
        BY <3>1, <3>2
    <2>2. LoopAt(h, B, 0)
      <3>1. \A c \in FreeIn(h, B) : c \in B
        BY DEF FreeIn
      <3> QED
        BY <2>1, <3>1 DEF LoopAt
    <2>3. SameUse(h, B, h, B, D)
      BY KeepsIsReflexive DEF SameUse
    <2>4. Cardinality({c \in B : c > 0}) + 0 <= turns
      <3>1. PICK S \in SUBSET B : S = {c \in B : c > 0}
        OBVIOUS
      <3>2. Cardinality(S) <= Cardinality(B) /\ Cardinality(S) \in Nat
        BY <1>2, FS_Subset, FS_CardinalityType
      <3> HIDE DEF turns
      <3> QED
        BY <1>3, <3>1, <3>2
    <2> HIDE DEF turns
    <2> QED
      BY <2>2, <2>3, <2>4 DEF InTurn
  <1>9. InTurn(h, B, D, f[turns], turns, turns)
    <2> HIDE DEF turns, x0, Is
    <2> QED
      BY <1>3, <1>7, <1>8, AllTurnsAreDone
  <1>10. PICK g, C, a :
          /\ f[turns] = [heap |-> g, at |-> a]
          /\ LoopAt(g, C, a)
          /\ SameUse(h, B, g, C, D)
          /\ \/ Next(g, a) = Epilogue(g)
             \/ Cardinality({c \in C : c > a}) + turns <= turns
    <2> HIDE DEF turns
    <2> QED
      BY <1>9 DEF InTurn
  <1> HIDE DEF turns
  <1>11. g = t
    BY <1>6, <1>10
  <1>12. Tiles(g, C) /\ a \in C
    BY <1>10 DEF LoopAt, Loose, Sound
  <1>t. /\ IsFiniteSet(C) /\ Epilogue(g) \notin C
        /\ \A c \in C : /\ c \in Nat /\ Next(g, c) > c /\ Next(g, c) \in Nat
                        /\ Next(g, c) \in C \cup {Epilogue(g)}
                        /\ c < Epilogue(g)
        /\ \A c, d \in C : c < d => Next(g, c) <= d
    <2>1. \A c \in C : c \in Nat /\ Next(g, c) > c + 1 /\ Next(g, c) \in Nat
      BY <1>12, TilesFacts
    <2>2. \A c \in C : Next(g, c) > c
      BY <2>1
    <2> QED
      BY <1>12, <2>1, <2>2, TilesFacts
  <1>13. Next(g, a) = Epilogue(g)
    <2> SUFFICES ASSUME Cardinality({c \in C : c > a}) + turns <= turns,
                        Next(g, a) \in C
                 PROVE  FALSE
      BY <1>10, <1>12, <1>t
    <2>1. PICK S \in SUBSET C : S = {c \in C : c > a}
      OBVIOUS
    <2>2. IsFiniteSet(S) /\ Cardinality(S) \in Nat
      BY <1>t, FS_Subset, FS_CardinalityType
    <2>3. Cardinality(S) = 0
      BY <1>3, <2>1, <2>2
    <2>4. S = {}
      BY <2>2, <2>3, FS_EmptySet
    <2>5. Next(g, a) \in S
      BY <1>12, <1>t, <2>1
    <2> QED
      BY <2>4, <2>5
  <1>14. ASSUME NEW c \in FreeIn(g, C)
         PROVE  Next(g, c) \notin FreeIn(g, C)
    <2>1. c \in C
      BY DEF FreeIn
    <2>2. CASE c < a
      BY <1>10, <2>2 DEF LoopAt
    <2>3. CASE c = a
      BY <1>13, <1>t, <2>3 DEF FreeIn
    <2>4. CASE a < c
      BY <1>12, <1>13, <1>t, <2>1, <2>4
    <2> QED
      BY <1>12, <1>t, <2>1, <2>2, <2>3, <2>4
  <1>15. Tidy(g, C)
    BY <1>10, <1>14 DEF LoopAt, Loose, Tidy
  <1> QED
    BY <1>10, <1>11, <1>15

-----------------------------------------------------------------------------
(* The end of a call.                                                      *)

(* A block of a heap in order finds the block before it.                   *)
LEMMA PrevIsRight ==
  ASSUME NEW h, NEW B, Tiles(h, B), NEW s \in B, s # 0,
         \A c \in B : Next(h, c) = s => Agrees(h, c)
  PROVE  /\ PrevIsFound(h, B, s)
         /\ \E p \in B : /\ Next(h, p) = s /\ p # s
                         /\ Footer(h, s).size = Header(h, p).size
  <1>1. PICK p \in B : p < s /\ Next(h, p) = s
    BY PredecessorExists
  <1>2. Footer(h, s).size = Header(h, p).size
    BY <1>1 DEF Agrees
  <1>3. /\ p \in Nat /\ s \in Nat /\ s = p + Header(h, p).size
        /\ Header(h, p).size \in Nat
        /\ s <= Epilogue(h) /\ End(h) = Epilogue(h) + 1 /\ Epilogue(h) \in Nat
    BY <1>1, TilesFacts
  <1>4. Prev(h, s) = p
    BY <1>2, <1>3 DEF Prev
  <1>5. p \in 0 .. End(h) /\ p # s
    BY <1>1, <1>3
  <1> QED
    BY <1>1, <1>2, <1>4, <1>5 DEF PrevIsFound

(* A heap with the same blocks and lists is as tidy.                       *)
LEMMA MildIsTidy ==
  ASSUME NEW h, NEW B, Tidy(h, B), NEW t, Mild(h, t, B, {}), t.lists = h.lists,
         \A c \in B : Agrees(t, c), NEW D \in SUBSET Units
  PROVE  Tidy(t, B) /\ SameUse(h, B, t, B, D)
  <1>1. Tiles(h, B) /\ Lists(h.lists, FreeIn(h, B))
    BY DEF Tidy, Sound
  <1>2. /\ Tiles(t, B) /\ Epilogue(t) = Epilogue(h)
        /\ \A c \in B : Next(t, c) = Next(h, c)
    BY <1>1, MildKeepsTiles
  <1>3. FreeIn(t, B) = FreeIn(h, B) /\ UsedIn(t, B) = UsedIn(h, B)
    BY MildKeepsUse
  <1>4. Sound(t, B)
    BY <1>1, <1>2, <1>3 DEF Sound
  <1>5. ASSUME NEW c \in FreeIn(t, B)
        PROVE  Rests(t, c) /\ Next(t, c) \notin FreeIn(t, B)
    <2>1. c \in B /\ Next(t, c) = Next(h, c) /\ Header(t, c).size = Header(h, c).size
      BY <1>2 DEF FreeIn, Mild, SameHead
    <2>2. Rests(h, c) /\ Next(h, c) \notin FreeIn(h, B)
      BY <1>3 DEF Tidy
    <2> QED
      BY <1>2, <1>3, <2>1, <2>2 DEF Rests
  <1>6. Keeps(h, t, UsedIn(h, B), D)
    <2>1. UsedIn(h, B) \in SUBSET B
      BY DEF UsedIn
    <2> QED
      BY <1>1, <2>1, MildKeepsAll
  <1>7. t.pages = h.pages
    BY DEF Mild
  <1> QED
    BY <1>3, <1>4, <1>5, <1>6, <1>7 DEF Tidy, SameUse

(* The last block moves to the wilderness, or nothing happens.             *)
LEMMA PlacedInWilderness ==
  ASSUME NEW h, NEW B, Tidy(h, B), NEW a \in B, Next(h, a) = Epilogue(h),
         NEW D \in SUBSET Units, NEW t, t = place_in_wilderness(h, a)
  PROVE  Tidy(t, B) /\ SameUse(h, B, t, B, D) /\ Next(t, a) = Epilogue(t)
  <1>1. CASE t = h
    BY <1>1, KeepsIsReflexive DEF SameUse
  <1>2. CASE t # h
    <2> DEFINE F == FreeIn(h, B)
    <2>1. ~ Header(h, a).alloc /\ t = insert_block(isolate_block(h, a), a, NUM_FREE_LISTS - 1)
      BY <1>2 DEF place_in_wilderness
    <2>t. /\ Tiles(h, B) /\ Lists(h.lists, F) /\ \A c \in B : Agrees(h, c)
          /\ a \in F /\ a # 0
          /\ a \in Units /\ a + 1 \in Units /\ a + 1 \notin B \cup {Epilogue(h)}
      <3>1. /\ Tiles(h, B) /\ Lists(h.lists, F) /\ \A c \in B : Agrees(h, c)
            /\ a \in F /\ a # 0
        BY <2>1 DEF Tidy, Sound, FreeIn, Tiles
      <3>2. /\ a \in Units /\ a + 1 \in Units /\ a + 1 \notin B
            /\ Next(h, a) > a + 1 /\ a \in Nat /\ Next(h, a) \in Nat
        BY <3>1, TilesFacts
      <3>3. a + 1 # Epilogue(h)
        BY <3>2
      <3> QED
        BY <3>1, <3>2, <3>3
    <2>2. PICK g : g = isolate_block(h, a)
      OBVIOUS
    <2>3. \A s \in F \ {a} : PrevIsFound(h, B, s)
      <3> TAKE s \in F \ {a}
      <3>1. s \in B /\ s # 0
        BY <2>t DEF FreeIn, Tiles
      <3> QED
        BY <2>t, <3>1, PrevIsRight
    <2> HIDE DEF F
    <2>4. /\ Mild(h, g, B, {a + 1})
          /\ Lists(g.lists, F \ {a})
          /\ Loses(h.lists, g.lists, a)
          /\ \A c \in B : Agrees(h, c) => Agrees(g, c)
      BY <2>t, <2>2, <2>3, BlockIsolated
    <2>5. /\ Tiles(g, B) /\ Epilogue(g) = Epilogue(h)
          /\ \A c \in B : Next(g, c) = Next(h, c)
      BY <2>t, <2>4, MildKeepsTiles
    <2>6. PICK p \in B : Next(g, p) = a /\ Footer(g, a).size = Header(g, p).size
      BY <2>t, <2>4, <2>5, PrevIsRight
    <2>7. PICK i \in ListNumbers : i = NUM_FREE_LISTS - 1
      BY LastListIsAList
    <2>8. /\ Mild(g, t, B, {a + 1})
          /\ Lists(t.lists, (F \ {a}) \cup {a})
          /\ Gains(g.lists, t.lists, a, i)
          /\ \A c \in B : Agrees(g, c) => Agrees(t, c)
      <3>1. t = insert_block(g, a, i) /\ a \notin F \ {a}
        BY <2>1, <2>2, <2>7
      <3>2. Inserted(g, B, F \ {a}, t, a, p, i)
        BY <2>4, <2>5, <2>6, <3>1, BlockInserted
      <3> QED
        BY <3>2 DEF Inserted
    <2>9. Mild(h, t, B, {a + 1})
      <3>1. Mild(h, t, B, {a + 1} \cup {a + 1})
        BY <2>4, <2>8, MildIsTransitive
      <3>2. {a + 1} \cup {a + 1} = {a + 1}
        OBVIOUS
      <3> QED
        BY <3>1, <3>2
    <2>10. /\ Tiles(t, B) /\ Epilogue(t) = Epilogue(h)
           /\ \A c \in B : Next(t, c) = Next(h, c)
      BY <2>t, <2>9, MildKeepsTiles
    <2>11. FreeIn(t, B) = F /\ UsedIn(t, B) = UsedIn(h, B)
      BY <2>9, MildKeepsUse DEF F
    <2>12. Sound(t, B)
      <3>1. (F \ {a}) \cup {a} = F
        BY <2>t
      <3> QED
        BY <2>t, <2>4, <2>8, <2>10, <2>11, <3>1 DEF Sound
    <2>13. ASSUME NEW c \in F
           PROVE  Rests(t, c) /\ Next(t, c) \notin F
      <3>1. /\ c \in B /\ Rests(h, c) /\ Next(h, c) \notin F
        BY DEF Tidy, F, FreeIn
      <3>2. Next(t, c) = Next(h, c) /\ Header(t, c).size = Header(h, c).size
        BY <2>9, <2>10, <3>1 DEF Mild, SameHead
      <3>3. CASE c = a
        <4>1. a \in ToSet(t.lists[i])
          BY <2>8 DEF Gains
        <4> QED
          BY <2>7, <2>10, <3>1, <3>2, <3>3, <4>1 DEF Rests
      <3>4. CASE c # a
        <4>1. \A j \in ListNumbers : c \in ToSet(h.lists[j]) => c \in ToSet(t.lists[j])
          BY <2>4, <2>8, <3>4 DEF Gains, Loses
        <4> QED
          BY <2>10, <3>1, <3>2, <4>1, IndexIsAList, LastListIsAList DEF Rests
      <3> QED
        BY <3>3, <3>4
    <2>14. Keeps(h, t, UsedIn(h, B), D)
      <3>1. UsedIn(h, B) \in SUBSET (B \ {a})
        BY <2>1 DEF UsedIn
      <3> QED
        BY <2>t, <2>9, <3>1, MildKeepsOthers
    <2>15. t.pages = h.pages
      BY <2>9 DEF Mild
    <2> QED
      BY <2>10, <2>11, <2>12, <2>13, <2>14, <2>15 DEF Tidy, SameUse
  <1> QED
    BY <1>1, <1>2

(* reset_epilogue leaves a tidy heap tidy.                                 *)
LEMMA EpilogueIsReset ==
  ASSUME NEW h, NEW B, Tidy(h, B), NEW D \in SUBSET Units,
         NEW t, t = reset_epilogue(h)
  PROVE  Tidy(t, B) /\ SameUse(h, B, t, B, D)
  <1>1. Tiles(h, B)
    BY DEF Tidy, Sound
  <1>2. PICK a \in B : a = find_last_in_heap(h) /\ Next(h, a) = Epilogue(h)
    BY <1>1, LastIsFound
  <1>3. PICK g : g = place_in_wilderness(h, a)
    OBVIOUS
  <1>4. Tidy(g, B) /\ SameUse(h, B, g, B, D) /\ Next(g, a) = Epilogue(g)
    BY <1>2, <1>3, PlacedInWilderness
  <1>5. t = reset_footer(g, a)
    BY <1>2, <1>3 DEF reset_epilogue, reset_wilderness
  <1>6. Tiles(g, B) /\ \A c \in B : Agrees(g, c)
    BY <1>4 DEF Tidy, Sound
  <1>7. Mild(g, t, B, {}) /\ t.lists = g.lists /\ \A c \in B : Agrees(t, c)
    BY <1>4, <1>5, <1>6, ResetFooter
  <1>8. Tidy(t, B) /\ SameUse(g, B, t, B, D)
    BY <1>4, <1>7, MildIsTidy
  <1> QED
    BY <1>4, <1>8, SameUseIsTransitive

(* The end of sf_free and of sf_realloc leaves the heap tidy.              *)
LEMMA EndOfCall ==
  ASSUME NEW h, NEW B, Loose(h, B), NEW D \in SUBSET Units,
         NEW t, t = reset_epilogue(do_coalesce(h))
  PROVE  \E C : Tidy(t, C) /\ SameUse(h, B, t, C, D)
  <1>1. PICK g : g = do_coalesce(h)
    OBVIOUS
  <1>2. PICK C : Tidy(g, C) /\ SameUse(h, B, g, C, D)
    BY <1>1, AllCoalesced
  <1>3. Tidy(t, C) /\ SameUse(g, C, t, C, D)
    BY <1>1, <1>2, EpilogueIsReset
  <1> QED
    BY <1>2, <1>3, SameUseIsTransitive

-----------------------------------------------------------------------------
(* free_allocated_block and update_payload_size.                           *)

(* The header of a block changes, but not its size.                        *)
LEMMA HeaderChanged ==
  ASSUME NEW h, NEW B, Tiles(h, B), NEW b \in B, b # 0, NEW w \in Word,
         w.size = Header(h, b).size, w.prev = Header(h, b).prev,
         w.alloc \/ w.pay = 0,
         NEW t, t = SetHead(h, b, w)
  PROVE  /\ Tiles(t, B) /\ t.pages = h.pages /\ t.lists = h.lists
         /\ Epilogue(t) = Epilogue(h)
         /\ \A c \in B : Next(t, c) = Next(h, c)
         /\ Header(t, b) = w
         /\ \A v \in Units : v # b => t.mem[v] = h.mem[v]
         /\ \A v \in Units : Footer(t, v) = Footer(h, v)
         /\ \A c \in B : c # b /\ Agrees(h, c) => Agrees(t, c)
  <1>t. /\ h \in Heaps /\ b \in Units /\ b # Epilogue(h) /\ 0 \in B
        /\ B \cup {Epilogue(h)} \subseteq Units
        /\ \A c \in B : c \in Units /\ Next(h, c) \in Units
    BY TilesFacts
  <1>1. /\ OnlyMemory(h, t)
        /\ Header(t, b) = w
        /\ \A v \in Units : v # b => Header(t, v) = Header(h, v)
        /\ \A v \in Units : Footer(t, v) = Footer(h, v)
        /\ \A v \in Units : v # b => t.mem[v] = h.mem[v]
    BY <1>t, HeadIsSet
  <1>2. t \in Heaps /\ t.pages = h.pages /\ t.lists = h.lists /\ Epilogue(t) = Epilogue(h)
    BY <1>1 DEF OnlyMemory, Epilogue, End
  <1>3. \A c \in B : Header(t, c).size = Header(h, c).size /\ Next(t, c) = Next(h, c)
    BY <1>t, <1>1 DEF Next
  <1>4. Header(t, 0) = Header(h, 0) /\ Header(t, Epilogue(h)) = Header(h, Epilogue(h))
    BY <1>t, <1>1
  <1>p. \A c \in B : HoldsOrFree(t, c)
    BY <1>t, <1>1 DEF Tiles, HoldsOrFree
  <1>5. Tiles(t, B)
    BY <1>2, <1>3, <1>4, <1>p DEF Tiles
  <1>6. \A v \in Units : Header(t, v).prev = Header(h, v).prev
    BY <1>1
  <1>7. \A c \in B : c # b /\ Agrees(h, c) => Agrees(t, c)
    BY <1>t, <1>1, <1>3, <1>6 DEF Agrees
  <1> QED
    BY <1>1, <1>2, <1>3, <1>5, <1>7

(* free_allocated_block gives up one block and keeps all the others.       *)
LEMMA IsFreed ==
  ASSUME NEW h, NEW B, Tidy(h, B), NEW p \in UsedIn(h, B), p # 0,
         NEW D \in SUBSET Units, NEW t, t = free_allocated_block(h, p)
  PROVE  \E C : /\ Tidy(t, C) /\ t.pages = h.pages
                /\ UsedIn(t, C) = UsedIn(h, B) \ {p}
                /\ Keeps(h, t, UsedIn(h, B) \ {p}, D)
                /\ p \in D => ~ Header(t, p).alloc
  <1> DEFINE F == FreeIn(h, B)
             V == UsedIn(h, B) \ {p}
  <1>t. /\ Tiles(h, B) /\ Lists(h.lists, F) /\ \A c \in B : Agrees(h, c)
        /\ p \in B /\ Header(h, p).alloc /\ p \notin F
        /\ \A c \in F : Rests(h, c) /\ c \in B
    BY DEF Tidy, Sound, UsedIn, FreeIn
  <1>u. /\ p \in Units /\ Header(h, p).size \in Nat /\ Header(h, p).prev \in BOOLEAN
        /\ h \in Heaps
    BY <1>t, TilesFacts, WordTypes
  <1>v. V \in SUBSET (B \ {p})
    BY DEF UsedIn
  <1> HIDE DEF F
  <1>1. PICK i \in ListNumbers : i = find_allocation_index(Header(h, p).size)
    BY IndexIsAList
  <1>2. PICK g : g = insert_block(h, p, i)
    OBVIOUS
  <1>3. PICK q \in B : /\ Next(h, q) = p /\ q # p
                       /\ Footer(h, p).size = Header(h, q).size
    BY <1>t, PrevIsRight
  <1>4. /\ Mild(h, g, B, {p + 1})
        /\ Lists(g.lists, F \cup {p})
        /\ Gains(h.lists, g.lists, p, i)
        /\ \A c \in B : Agrees(g, c)
    <2>1. Inserted(h, B, F, g, p, q, i)
      BY <1>t, <1>1, <1>2, <1>3, BlockInserted
    <2> QED
      BY <1>t, <2>1 DEF Inserted
  <1>5. /\ Tiles(g, B) /\ Epilogue(g) = Epilogue(h)
        /\ \A c \in B : Next(g, c) = Next(h, c)
    BY <1>t, <1>4, MildKeepsTiles
  <1>6. PICK w : w = set_header(0, Header(h, p).size, FALSE, Header(h, p).prev)
    OBVIOUS
  <1>7. /\ w \in Word /\ w.pay = 0 /\ w.size = Header(g, p).size /\ ~ w.alloc
        /\ w.prev = Header(g, p).prev
    <2>1. w = [pay |-> 0, size |-> Header(h, p).size, alloc |-> FALSE,
               prev |-> Header(h, p).prev]
      BY <1>6 DEF set_header
    <2>2. FALSE \in BOOLEAN /\ 0 \in Nat
      OBVIOUS
    <2>3. w \in Word
      BY <1>u, <2>1, <2>2 DEF Word
    <2>4. /\ w.pay = 0 /\ w.size = Header(h, p).size /\ w.alloc = FALSE
          /\ w.prev = Header(h, p).prev
      BY <2>1
    <2>5. Header(g, p).size = Header(h, p).size
      BY <1>t, <1>4 DEF Mild, SameHead
    <2>6. Header(g, p).prev = Header(h, p).prev
      <3>1. Header(g, p).prev = Header(g, q).alloc
        BY <1>3, <1>4, <1>5 DEF Agrees
      <3>2. Header(h, p).prev = Header(h, q).alloc
        BY <1>t, <1>3 DEF Agrees
      <3>3. Header(g, q).alloc = Header(h, q).alloc
        BY <1>4 DEF Mild, SameHead
      <3> QED
        BY <3>1, <3>2, <3>3
    <2> QED
      BY <2>3, <2>4, <2>5, <2>6
  <1>8. PICK k : k = SetHead(g, p, w)
    OBVIOUS
  <1>9. /\ Tiles(k, B) /\ k.pages = g.pages /\ k.lists = g.lists
        /\ Epilogue(k) = Epilogue(g)
        /\ \A c \in B : Next(k, c) = Next(g, c)
        /\ Header(k, p) = w
        /\ \A v \in Units : v # p => k.mem[v] = g.mem[v]
        /\ \A v \in Units : Footer(k, v) = Footer(g, v)
        /\ \A c \in B : c # p => Agrees(k, c)
    BY <1>t, <1>4, <1>5, <1>7, <1>8, HeaderChanged
  <1>10. PICK m : m = touch_for_heap_update(k, p)
    OBVIOUS
  <1>11. /\ Mild(k, m, B, {}) /\ m.lists = k.lists
         /\ \A c \in B : Agrees(m, c)
    <2>1. Next(k, q) = p
      BY <1>3, <1>5, <1>9
    <2>2. Footer(k, p).size = Header(k, q).size
      BY <1>3, <1>9, <2>1 DEF Agrees
    <2>3. /\ Mild(k, m, B, {}) /\ m.lists = k.lists
          /\ Agrees(m, p) /\ \A c \in B : Agrees(k, c) => Agrees(m, c)
      BY <1>t, <1>9, <1>10, <2>1, <2>2, TouchInOrder
    <2> QED
      BY <1>9, <2>3
  <1>12. /\ Tiles(m, B) /\ Epilogue(m) = Epilogue(h)
         /\ \A c \in B : Next(m, c) = Next(h, c)
    BY <1>5, <1>9, <1>11, MildKeepsTiles
  <1>13. \A c \in B : c # p => SameHead(h, m, c)
    <2>1. \A c \in B : c \in Units
      BY <1>t, TilesFacts
    <2>2. \A c \in B : c # p => Header(k, c) = Header(g, c)
      BY <1>9, <2>1 DEF Header
    <2> QED
      BY <1>4, <1>11, <2>2 DEF Mild, SameHead
  <1>14. Header(m, p).size = Header(h, p).size /\ ~ Header(m, p).alloc
    <2>1. SameHead(k, m, p) /\ SameHead(h, g, p)
      BY <1>t, <1>4, <1>11 DEF Mild
    <2> QED
      BY <1>7, <1>9, <2>1 DEF SameHead
  <1>15. FreeIn(m, B) = F \cup {p} /\ UsedIn(m, B) = V
    BY <1>t, <1>13, <1>14 DEF F, FreeIn, UsedIn, SameHead
  <1>16. Loose(m, B)
    <2>1. Sound(m, B)
      BY <1>4, <1>9, <1>11, <1>12, <1>15 DEF Sound
    <2>2. Rests(m, p)
      <3>1. p \in ToSet(m.lists[i])
        BY <1>4, <1>9, <1>11 DEF Gains
      <3> QED
        BY <1>1, <1>14, <3>1 DEF Rests
    <2>3. ASSUME NEW c \in F
          PROVE  Rests(m, c)
      <3>1. c \in B /\ c # p /\ Rests(h, c)
        BY <1>t
      <3>2. Next(m, c) = Next(h, c) /\ Header(m, c).size = Header(h, c).size
        BY <1>12, <1>13, <3>1 DEF SameHead
      <3>3. \A j \in ListNumbers : c \in ToSet(h.lists[j]) => c \in ToSet(m.lists[j])
        BY <1>4, <1>9, <1>11 DEF Gains
      <3> QED
        BY <1>12, <3>1, <3>2, <3>3, IndexIsAList, LastListIsAList DEF Rests
    <2> QED
      BY <1>15, <2>1, <2>2, <2>3 DEF Loose
  <1>17. Keeps(h, m, V, D)
    <2>1. Keeps(h, g, V, D)
      BY <1>t, <1>4, <1>v, MildKeepsOthers
    <2>2. Keeps(g, k, V, D)
      <3>1. \A c \in V : c \in Units /\ c # p
        BY <1>t, <1>v, TilesFacts
      <3>2. \A c \in V : SameHead(g, k, c)
        BY <1>9, <3>1 DEF SameHead, Header
      <3>3. ASSUME NEW c \in V, NEW u \in c + 1 .. Next(g, c) - 1
            PROVE  k.mem[u] = g.mem[u]
        <4>1. u \in Units /\ u \notin B
          BY <1>5, <1>v, TilesFacts
        <4> QED
          BY <1>t, <1>9, <4>1
      <3>4. \A u \in D : ~ Header(g, u).alloc => ~ Header(k, u).alloc
        BY <1>7, <1>9 DEF Header
      <3> QED
        BY <3>2, <3>3, <3>4 DEF Keeps
    <2>3. Keeps(k, m, V, D)
      BY <1>9, <1>11, <1>v, MildKeepsAll
    <2> QED
      BY <2>1, <2>2, <2>3, KeepsIsTransitive
  <1>18. t = reset_epilogue(do_coalesce(m))
    BY <1>1, <1>2, <1>6, <1>8, <1>10 DEF free_allocated_block
  <1>19. PICK C : Tidy(t, C) /\ SameUse(m, B, t, C, D)
    BY <1>16, <1>18, EndOfCall
  <1>20. Keeps(h, t, V, D) /\ UsedIn(t, C) = V /\ t.pages = m.pages
    BY <1>15, <1>17, <1>19, KeepsIsTransitive DEF SameUse
  <1>21. m.pages = h.pages
    BY <1>4, <1>9, <1>11 DEF Mild
  <1>22. p \in D => ~ Header(t, p).alloc
    BY <1>14, <1>19 DEF SameUse, Keeps
  <1> QED
    BY <1>19, <1>20, <1>21, <1>22

(* A block stays in its place with that payload and that size, and keeps   *)
(* its contents up to it.                                                  *)
StaysInPlace(h, B, t, C, p, pay, size, D) ==
  /\ Tidy(t, C) /\ t.pages = h.pages
  /\ UsedIn(t, C) = UsedIn(h, B)
  /\ Keeps(h, t, UsedIn(h, B) \ {p}, D)
  /\ Header(t, p).pay = pay /\ Header(t, p).size = size
  /\ \A u \in p + 1 .. p + size - 1 : t.mem[u] = h.mem[u]

(* update_payload_size changes the payload size of one block.              *)
LEMMA PayloadUpdated ==
  ASSUME NEW h, NEW B, Tidy(h, B), NEW p \in UsedIn(h, B), p # 0,
         NEW pay \in Nat, NEW D \in SUBSET Units,
         NEW t, t = update_payload_size(h, p, pay),
         NEW size, size = Header(h, p).size
  PROVE  StaysInPlace(h, B, t, B, p, pay, size, D)
  <1> DEFINE F == FreeIn(h, B)
             V == UsedIn(h, B) \ {p}
  <1>t. /\ Tiles(h, B) /\ Lists(h.lists, F) /\ \A c \in B : Agrees(h, c)
        /\ p \in B /\ Header(h, p).alloc
    BY DEF Tidy, Sound, UsedIn, FreeIn
  <1>u. p \in Units /\ Header(h, p) \in Word
    BY <1>t, TilesFacts
  <1>v. V \in SUBSET B /\ \A c \in V : c # p /\ c \in Units
    BY <1>t, TilesFacts DEF UsedIn
  <1> HIDE DEF F
  <1>1. PICK w : w = [Header(h, p) EXCEPT !.pay = pay]
    OBVIOUS
  <1>2. /\ w \in Word /\ w.size = Header(h, p).size /\ w.prev = Header(h, p).prev
        /\ w.alloc = Header(h, p).alloc /\ w.pay = pay
    BY <1>1, <1>u DEF Word
  <1>3. PICK k : k = SetHead(h, p, w)
    OBVIOUS
  <1>4. /\ Tiles(k, B) /\ k.pages = h.pages /\ k.lists = h.lists
        /\ Epilogue(k) = Epilogue(h)
        /\ \A c \in B : Next(k, c) = Next(h, c)
        /\ Header(k, p) = w
        /\ \A v \in Units : v # p => k.mem[v] = h.mem[v]
        /\ \A v \in Units : Footer(k, v) = Footer(h, v)
        /\ \A c \in B : c # p => Agrees(k, c)
    <2>1. /\ Tiles(h, B) /\ p \in B /\ p # 0 /\ w \in Word
          /\ w.size = Header(h, p).size /\ w.prev = Header(h, p).prev
          /\ (w.alloc \/ w.pay = 0)
      BY <1>t, <1>2
    <2>2. /\ Tiles(k, B) /\ k.pages = h.pages /\ k.lists = h.lists
          /\ Epilogue(k) = Epilogue(h)
          /\ \A c \in B : Next(k, c) = Next(h, c)
          /\ Header(k, p) = w
          /\ \A v \in Units : v # p => k.mem[v] = h.mem[v]
          /\ \A v \in Units : Footer(k, v) = Footer(h, v)
          /\ \A c \in B : c # p /\ Agrees(h, c) => Agrees(k, c)
      BY <1>3, <2>1, HeaderChanged
    <2> QED
      BY <1>t, <2>2
  <1>5. PICK n : n = Next(h, p)
    OBVIOUS
  <1>n. n \in Units /\ n # p
    <2>1. n \in Units /\ n > p + 1 /\ p \in Nat /\ n \in Nat
      BY <1>t, <1>5, TilesFacts
    <2> QED
      BY <2>1
  <1>6. t = CopyFooter(k, n, p)
    BY <1>1, <1>3, <1>5 DEF update_payload_size
  <1>7. /\ Mild(k, t, B, {}) /\ t.lists = k.lists
        /\ \A v \in Units : Header(t, v) = Header(k, v)
        /\ \A c \in B : c # p => Agrees(t, c)
        /\ Header(k, n).prev = Header(k, p).alloc => Agrees(t, p)
    BY <1>t, <1>4, <1>5, <1>6, FooterCopied
  <1>8. \A c \in B : Agrees(t, c)
    <2>1. Header(k, n) = Header(h, n)
      BY <1>4, <1>n DEF Header
    <2>2. Header(h, n).prev = Header(h, p).alloc
      BY <1>t, <1>5 DEF Agrees
    <2> QED
      BY <1>2, <1>4, <1>7, <2>1, <2>2
  <1>9. /\ Tiles(t, B) /\ Epilogue(t) = Epilogue(h)
        /\ \A c \in B : Next(t, c) = Next(h, c)
    BY <1>4, <1>7, MildKeepsTiles
  <1>10. \A c \in B : /\ Header(t, c).alloc = Header(h, c).alloc
                      /\ Header(t, c).size = Header(h, c).size
    <2>1. \A c \in B : c \in Units
      BY <1>t, TilesFacts
    <2>2. \A c \in B : c # p => Header(k, c) = Header(h, c)
      BY <1>4, <2>1 DEF Header
    <2> QED
      BY <1>2, <1>4, <1>7, <2>1, <2>2
  <1>11. FreeIn(t, B) = F /\ UsedIn(t, B) = UsedIn(h, B)
    BY <1>10 DEF F, FreeIn, UsedIn
  <1>12. Tidy(t, B)
    <2>1. Sound(t, B)
      BY <1>t, <1>4, <1>7, <1>8, <1>9, <1>11 DEF Sound
    <2>2. \A c \in F : Rests(h, c) /\ Next(h, c) \notin F /\ c \in B
      BY DEF Tidy, F, FreeIn
    <2>3. \A c \in F : Rests(t, c) /\ Next(t, c) \notin F
      BY <1>4, <1>7, <1>9, <1>10, <2>2 DEF Rests
    <2> QED
      BY <1>11, <2>1, <2>3 DEF Tidy
  <1>13. Keeps(h, t, V, D)
    <2>1. Keeps(h, k, V, D)
      <3>1. \A c \in V : SameHead(h, k, c)
        BY <1>v, <1>4 DEF SameHead, Header
      <3>2. ASSUME NEW c \in V, NEW u \in c + 1 .. Next(h, c) - 1
            PROVE  k.mem[u] = h.mem[u]
        <4>1. u \in Units /\ u \notin B
          BY <1>t, <1>v, TilesFacts
        <4> QED
          BY <1>t, <1>4, <4>1
      <3>3. \A u \in D : ~ Header(h, u).alloc => ~ Header(k, u).alloc
        BY <1>2, <1>4 DEF Header
      <3> QED
        BY <3>1, <3>2, <3>3 DEF Keeps
    <2>2. Keeps(k, t, V, D)
      BY <1>4, <1>7, <1>v, MildKeepsAll
    <2> QED
      BY <2>1, <2>2, KeepsIsTransitive
  <1>14. ASSUME NEW u \in p + 1 .. p + size - 1
         PROVE  t.mem[u] = h.mem[u]
    <2>0. u \in p + 1 .. Next(h, p) - 1
      <3>1. p \in Nat /\ size \in Nat /\ Next(h, p) = p + size
        BY <1>t, TilesFacts
      <3> QED
        BY <3>1
    <2>1. u \in Units /\ u \notin B \cup {Epilogue(h)}
      BY <1>t, <2>0, TilesFacts
    <2> QED
      BY <1>t, <1>4, <1>7, <2>1 DEF Mild
  <1>15. t.pages = h.pages
    BY <1>4, <1>7 DEF Mild
  <1> QED
    BY <1>2, <1>4, <1>7, <1>u, <1>11, <1>12, <1>13, <1>14, <1>15 DEF StaysInPlace

-----------------------------------------------------------------------------
(* cut, split and take_block.                                              *)

(* One block becomes two: b, and r behind it.                              *)
BecomesTwo(h, B, t, b, r) ==
  /\ Tiles(t, B \cup {r})
  /\ r \in Units /\ r \notin B \cup {Epilogue(h)}
  /\ r \in b + 1 .. Next(h, b) - 1
  /\ Epilogue(t) = Epilogue(h)
  /\ Next(t, b) = r
  /\ Next(t, r) = Next(h, b)
  /\ \A c \in B : c # b => Next(t, c) = Next(h, c)

(* The two parts of a block are blocks.                                    *)
LEMMA TilesCut ==
  ASSUME NEW h, NEW B, Tiles(h, B), NEW b \in B, b # 0, NEW r \in Nat,
         NEW t \in Heaps, t.pages = h.pages,
         \A v \in B \cup {Epilogue(h)} : v # b => Header(t, v) = Header(h, v),
         Header(t, b).size \in Nat, Header(t, b).size >= 2,
         r = b + Header(t, b).size,
         Header(t, r).size \in Nat, Header(t, r).size >= 2,
         Header(t, b).size + Header(t, r).size = Header(h, b).size,
         HoldsOrFree(t, b), HoldsOrFree(t, r)
  PROVE  BecomesTwo(h, B, t, b, r)
  <1>0. PICK e : e = Epilogue(h)
    OBVIOUS
  <1>1. Epilogue(t) = e
    BY <1>0 DEF Epilogue, End
  <1>t. /\ e \in Nat /\ 0 \in B /\ e \notin B
        /\ \A c \in B : /\ c \in Nat /\ c < e
                        /\ Header(h, c).size \in Nat
                        /\ Header(h, c).size >= 2
                        /\ Next(h, c) = c + Header(h, c).size
                        /\ Next(h, c) \in B \cup {e}
                        /\ Next(h, c) \in Nat
                        /\ Next(h, c) <= e
        /\ \A c, d \in B : c < d => Next(h, c) <= d
    BY <1>0, TilesFacts
  <1>2. Next(t, b) = r /\ Next(t, r) = Next(h, b)
    <2>1. Next(t, r) = r + Header(t, r).size
      BY DEF Next
    <2>2. Next(h, b) = b + Header(h, b).size /\ b \in Nat
      BY <1>t
    <2>3. Next(t, r) = Next(h, b)
      BY <2>1, <2>2
    <2> QED
      BY <2>3 DEF Next
  <1>3. r > b + 1 /\ r < Next(h, b) /\ r \in b + 1 .. Next(h, b) - 1 /\ r < e
    <2>1. Next(h, b) = b + Header(h, b).size /\ b \in Nat /\ Next(h, b) <= e
          /\ Next(h, b) \in Nat
      BY <1>t
    <2>2. r > b + 1 /\ r < Next(h, b)
      BY <2>1
    <2> QED
      BY <1>t, <2>1, <2>2
  <1>4. r \in Units /\ r \notin B \cup {e}
    <2>1. \A v \in b + 1 .. Next(h, b) - 1 : v \in Units /\ v \notin B \cup {e}
      BY <1>0, TilesFacts
    <2> QED
      BY <1>3, <2>1
  <1>5. \A c \in B : c # b => Header(t, c) = Header(h, c) /\ Next(t, c) = Next(h, c)
    BY DEF Next
  <1>6. ASSUME NEW c \in B \cup {r}
        PROVE  Header(t, c).size >= 2 /\ Next(t, c) \in (B \cup {r}) \cup {e}
    <2>1. CASE c = b
      BY <1>2, <2>1
    <2>2. CASE c = r
      BY <1>2, <1>t, <2>2
    <2>3. CASE c \in B /\ c # b
      BY <1>5, <1>t, <2>3
    <2> QED
      BY <2>1, <2>2, <2>3
  <1>7. ASSUME NEW c \in B \cup {r}, NEW d \in B \cup {r}, c < d
        PROVE  Next(t, c) <= d
    <2>1. CASE c = b /\ d = r
      BY <1>2, <2>1
    <2>2. CASE c = b /\ d # r
      <3>1. d \in B /\ Next(h, b) <= d /\ d \in Nat /\ Next(h, b) \in Nat
        BY <1>7, <1>t, <2>2
      <3> QED
        BY <1>2, <1>3, <2>2, <3>1
    <2>3. CASE c = r
      <3>1. d \in B /\ b < d
        BY <1>7, <1>3, <1>t, <2>3
      <3> QED
        BY <1>2, <1>t, <2>3, <3>1
    <2>4. CASE c \in B /\ c # b /\ d = r
      <3>1. c < b
        <4>1. b < c => Next(h, b) <= c
          BY <1>t, <2>4
        <4> QED
          BY <1>7, <1>3, <1>t, <2>4, <4>1
      <3>2. Next(h, c) <= b /\ Next(h, c) \in Nat /\ b \in Nat
        BY <1>t, <2>4, <3>1
      <3> QED
        BY <1>3, <1>5, <2>4, <3>2
    <2>5. CASE c \in B /\ c # b /\ d \in B
      BY <1>7, <1>5, <1>t, <2>5
    <2> QED
      BY <2>1, <2>2, <2>3, <2>4, <2>5
  <1>8. 0 \in B \cup {r} /\ \A c \in B \cup {r} : c \in 0 .. e - 1
    BY <1>3, <1>t
  <1>9. /\ Header(h, 0).alloc /\ Header(h, 0).size = 2 /\ Header(h, 0).pay = 0
        /\ Header(h, e).size = 0 /\ Header(h, e).alloc /\ h.pages # 0
    BY <1>0 DEF Tiles
  <1>10. Header(t, 0) = Header(h, 0) /\ Header(t, e) = Header(h, e)
    BY <1>0, <1>t
  <1>11. \A c \in B \cup {r} : Header(t, c).size >= 2 /\ Next(t, c) \in (B \cup {r}) \cup {e}
    BY <1>6
  <1>13. \A c \in B \cup {r} : HoldsOrFree(t, c)
    BY <1>5 DEF Tiles, HoldsOrFree
  <1>12. Tiles(t, B \cup {r})
    BY <1>1, <1>7, <1>8, <1>9, <1>10, <1>11, <1>13 DEF Tiles
  <1> QED
    BY <1>0, <1>1, <1>2, <1>3, <1>4, <1>5, <1>12 DEF BecomesTwo

(* b has become b, with that header, and r behind it.                      *)
CutInTwo(h, B, F, t, b, r, head, rest) ==
  /\ Tiles(t, B \cup {r}) /\ t.pages = h.pages
  /\ r \notin B \cup {Epilogue(h)}
  /\ Epilogue(t) = Epilogue(h)
  /\ \A c \in B \cup {r} : Agrees(t, c)
  /\ Lists(t.lists, F \cup {r})
  /\ Gains(h.lists, t.lists, r, find_allocation_index(rest))
  /\ Header(t, b).pay = head.pay /\ Header(t, b).size = head.size
  /\ Header(t, b).alloc
  /\ Header(t, r).size = rest /\ ~ Header(t, r).alloc
  /\ \A c \in B : c # b => SameHead(h, t, c) /\ Next(t, c) = Next(h, c)
  /\ Next(t, b) = r
  /\ Next(t, r) = Next(h, b)
  /\ \A u \in b + 1 .. r - 1 : t.mem[u] = h.mem[u]

(* cut makes two blocks of one, the second free and in its list.           *)
LEMMA BlockIsCut ==
  ASSUME NEW h, NEW B, Tiles(h, B), NEW b \in B, b # 0, NEW F, Lists(h.lists, F),
         \A c \in F : c \in B,
         \A c \in B : c # b => Agrees(h, c),
         NEW head \in Word, head.alloc, head.prev = Header(h, b).prev, head.size >= 2,
         NEW rest \in Nat, rest >= 2, head.size + rest = Header(h, b).size,
         NEW P \in SUBSET B, b \notin P,
         NEW D \in SUBSET Units, b \in D => Header(h, b).alloc,
         NEW t, t = cut(h, b, head, rest)
  PROVE  /\ CutInTwo(h, B, F, t, b, b + head.size, head, rest)
         /\ Keeps(h, t, P, D)
  <1>t. /\ h \in Heaps /\ b \in Units /\ b \in Nat /\ head.size \in Nat
        /\ B \cup {Epilogue(h)} \subseteq Units /\ b # Epilogue(h)
        /\ \A c \in B : Next(h, c) \in B \cup {Epilogue(h)}
        /\ \A c \in B : \A v \in c + 1 .. Next(h, c) - 1 :
             v \in Units /\ v \notin B \cup {Epilogue(h)}
        /\ Next(h, b) = b + Header(h, b).size
        /\ Header(h, b).size \in Nat
    <2>1. head.size \in Nat
      BY DEF Word
    <2> QED
      BY <2>1, TilesFacts
  <1>1. PICK g : g = SetHead(h, b, head)
    OBVIOUS
  <1>2. PICK r \in Nat : r = b + head.size
    BY <1>t
  <1>3. r \in Units /\ r \notin B \cup {Epilogue(h)} /\ r # b
    <2>1. r \in b + 1 .. Next(h, b) - 1
      BY <1>t, <1>2
    <2> QED
      BY <1>t, <2>1
  <1>4. /\ OnlyMemory(h, g)
        /\ Header(g, b) = head
        /\ \A v \in Units : v # b => Header(g, v) = Header(h, v)
        /\ \A v \in Units : Footer(g, v) = Footer(h, v)
        /\ \A v \in Units : v # b => g.mem[v] = h.mem[v]
    BY <1>t, <1>1, HeadIsSet
  <1>5. PICK bit \in BOOLEAN : bit = TRUE
    OBVIOUS
  <1>6. PICK w : w = set_header(0, rest, FALSE, bit)
    OBVIOUS
  <1>7. w \in Word /\ w.pay = 0 /\ w.size = rest /\ ~ w.alloc /\ w.prev = bit
    <2>1. w = [pay |-> 0, size |-> rest, alloc |-> FALSE, prev |-> bit]
      BY <1>6 DEF set_header
    <2>2. FALSE \in BOOLEAN /\ 0 \in Nat
      OBVIOUS
    <2>3. w \in Word
      BY <2>1, <2>2 DEF Word
    <2>4. w.pay = 0 /\ w.size = rest /\ w.alloc = FALSE /\ w.prev = bit
      BY <2>1
    <2> QED
      BY <2>3, <2>4
  <1>8. PICK k : k = Write(g, r, head, w)
    OBVIOUS
  <1>9. /\ OnlyMemory(g, k)
        /\ \A v \in Units : k.mem[v] =
                     IF v = r THEN [foot |-> head, head |-> w] ELSE g.mem[v]
    <2>1. g \in Heaps
      BY <1>4 DEF OnlyMemory
    <2> QED
      BY <1>3, <1>7, <1>8, <2>1, WriteIsWritten
  <1>10. /\ k \in Heaps /\ k.pages = h.pages /\ k.lists = h.lists
         /\ Header(k, b) = head /\ Header(k, r) = w /\ Footer(k, r) = head
         /\ \A v \in Units : v # b /\ v # r => k.mem[v] = h.mem[v]
         /\ \A v \in Units : v # r => Footer(k, v) = Footer(h, v)
    <2>1. k.mem[r] = [foot |-> head, head |-> w]
      BY <1>3, <1>9
    <2>2. Header(k, r) = w /\ Footer(k, r) = head
      BY <2>1 DEF Header, Footer
    <2>3. \A v \in Units : v # r => k.mem[v] = g.mem[v]
      BY <1>9
    <2>4. \A v \in Units : v # r => Header(k, v) = Header(g, v) /\ Footer(k, v) = Footer(g, v)
      BY <2>3 DEF Header, Footer
    <2> QED
      BY <1>t, <1>3, <1>4, <1>9, <2>2, <2>3, <2>4 DEF OnlyMemory
  <1>11. PICK C : C = B \cup {r}
    OBVIOUS
  <1>h. \A v \in Units : v # b /\ v # r => Header(k, v) = Header(h, v)
    BY <1>10 DEF Header
  <1>12. /\ Tiles(k, C) /\ Epilogue(k) = Epilogue(h)
         /\ Next(k, b) = r /\ Next(k, r) = Next(h, b)
         /\ \A c \in B : c # b => Next(k, c) = Next(h, c)
         /\ r \in b + 1 .. Next(h, b) - 1
    <2>1. \A v \in B \cup {Epilogue(h)} : v # b => Header(k, v) = Header(h, v)
      BY <1>t, <1>3, <1>h
    <2>2. /\ Header(k, b).size \in Nat /\ Header(k, b).size >= 2
          /\ r = b + Header(k, b).size
          /\ Header(k, r).size \in Nat /\ Header(k, r).size >= 2
          /\ Header(k, b).size + Header(k, r).size = Header(h, b).size
      BY <1>t, <1>2, <1>7, <1>10
    <2>4. HoldsOrFree(k, b) /\ HoldsOrFree(k, r)
      BY <1>7, <1>10 DEF HoldsOrFree
    <2>3. BecomesTwo(h, B, k, b, r)
      BY <1>10, <2>1, <2>2, <2>4, TilesCut
    <2> QED
      BY <1>11, <2>3 DEF BecomesTwo
  <1>13. ASSUME NEW c \in B
         PROVE  Agrees(k, c)
    <2>1. CASE c = b
      <3>1. Header(k, r).prev = bit /\ head.alloc = bit
        BY <1>5, <1>7, <1>10 DEF Word
      <3> QED
        BY <1>10, <1>12, <2>1, <3>1 DEF Agrees
    <2>2. CASE c # b
      <3>1. PICK n : n = Next(h, c)
        OBVIOUS
      <3>2. n \in Units /\ n # r /\ c \in Units /\ c # r
        BY <1>t, <1>3, <3>1
      <3>3. Footer(k, n) = Footer(h, n) /\ Header(k, c) = Header(h, c) /\ Next(k, c) = n
        BY <1>10, <1>12, <1>h, <2>2, <3>1, <3>2
      <3>4. Header(k, n).prev = Header(h, n).prev
        BY <1>10, <1>h, <3>2
      <3> QED
        BY <2>2, <3>1, <3>3, <3>4 DEF Agrees
    <2> QED
      BY <2>1, <2>2
  <1>14. PICK i \in ListNumbers : i = find_allocation_index(rest)
    BY IndexIsAList
  <1>15. t = insert_block(k, r, i)
    BY <1>1, <1>2, <1>5, <1>6, <1>8, <1>14 DEF cut
  <1>16. /\ Mild(k, t, C, {r + 1})
         /\ Lists(t.lists, F \cup {r})
         /\ Gains(k.lists, t.lists, r, i)
         /\ Agrees(t, r)
         /\ \A c \in C : Agrees(k, c) => Agrees(t, c)
    <2>1. r \notin F /\ Footer(k, r).size = Header(k, b).size /\ r \in C /\ b \in C
      BY <1>3, <1>10, <1>11
    <2>2. Inserted(k, C, F, t, r, b, i)
      BY <1>10, <1>12, <1>15, <2>1, BlockInserted
    <2> QED
      BY <2>2 DEF Inserted
  <1>17. /\ Tiles(t, C) /\ Epilogue(t) = Epilogue(h)
         /\ \A c \in C : Next(t, c) = Next(k, c)
    BY <1>12, <1>16, MildKeepsTiles
  <1>18. \A c \in C : Agrees(t, c)
    BY <1>11, <1>13, <1>16
  <1>19. \A c \in B : c # b => SameHead(h, t, c) /\ Next(t, c) = Next(h, c)
    <2> TAKE c \in B
    <2> HAVE c # b
    <2>1. c \in C /\ c \in Units /\ c # r
      BY <1>t, <1>3, <1>11
    <2>2. SameHead(k, t, c) /\ Header(k, c) = Header(h, c)
      BY <1>16, <1>h, <2>1 DEF Mild
    <2> QED
      BY <1>12, <1>17, <2>1, <2>2 DEF SameHead
  <1>20. /\ Header(t, b).pay = head.pay /\ Header(t, b).size = head.size
         /\ Header(t, b).alloc
         /\ Header(t, r).size = rest /\ ~ Header(t, r).alloc
    <2>1. SameHead(k, t, b) /\ SameHead(k, t, r)
      BY <1>11, <1>16 DEF Mild
    <2> QED
      BY <1>7, <1>10, <2>1 DEF SameHead
  <1>21. ASSUME NEW c \in B, NEW u \in c + 1 .. Next(h, c) - 1,
                c # b \/ u \in b + 1 .. r - 1
         PROVE  t.mem[u] = h.mem[u]
    <2>1. u \in Units /\ u \notin B \cup {Epilogue(h)}
      BY <1>t
    <2>2. u # r /\ u # r + 1
      <3>1. CASE c = b
        <4>1. u \in b + 1 .. r - 1 /\ b \in Nat
          BY <1>21, <1>t, <3>1
        <4> QED
          BY <4>1
      <3>2. CASE c # b
        <4>1. c \in C /\ Next(k, c) = Next(h, c) /\ c # r
          BY <1>3, <1>11, <1>12, <3>2
        <4>2. r + 1 \notin c + 1 .. Next(k, c) - 1
          BY <1>11, <1>12, <4>1, LinksAreInside
        <4>3. u \notin C
          BY <1>12, <4>1, TilesFacts
        <4> QED
          BY <1>11, <4>1, <4>2, <4>3
      <3> QED
        BY <3>1, <3>2
    <2>3. t.mem[u] = k.mem[u]
      BY <1>11, <1>12, <1>16, <2>1, <2>2 DEF Mild
    <2> QED
      BY <1>10, <2>1, <2>2, <2>3
  <1>22. \A u \in b + 1 .. r - 1 : t.mem[u] = h.mem[u]
    <2> TAKE u \in b + 1 .. r - 1
    <2>1. u \in b + 1 .. Next(h, b) - 1
      BY <1>t, <1>12
    <2> QED
      BY <1>21, <2>1
  <1>23. Keeps(h, t, P, D)
    <2>1. \A p \in P : p \in B /\ p # b
      OBVIOUS
    <2>2. ASSUME NEW u \in D, ~ Header(h, u).alloc
          PROVE  ~ Header(t, u).alloc
      <3>1. u \in Units /\ u # b
        BY <2>2
      <3>2. CASE u = r
        BY <1>20, <3>2
      <3>3. CASE u = r + 1
        BY <1>16, <3>1, <3>3 DEF Mild
      <3>4. CASE u # r /\ u # r + 1
        <4>1. Header(k, u) = Header(h, u)
          BY <1>h, <3>1, <3>4
        <4>2. CASE u \in C \cup {Epilogue(k)}
          BY <1>16, <2>2, <4>1, <4>2 DEF Mild, SameHead
        <4>3. CASE u \notin C \cup {Epilogue(k)}
          BY <1>16, <2>2, <3>1, <3>4, <4>1, <4>3 DEF Mild, Header
        <4> QED
          BY <4>2, <4>3
      <3> QED
        BY <3>2, <3>3, <3>4
    <2>3. \A p \in P : \A u \in p + 1 .. Next(h, p) - 1 : t.mem[u] = h.mem[u]
      BY <1>21, <2>1
    <2> QED
      BY <1>19, <2>1, <2>2, <2>3 DEF Keeps
  <1>24. t.pages = h.pages
    BY <1>10, <1>16 DEF Mild
  <1>25. CutInTwo(h, B, F, t, b, r, head, rest)
    BY <1>3, <1>10, <1>11, <1>12, <1>14, <1>16, <1>17, <1>18, <1>19, <1>20, <1>22, <1>24
    DEF CutInTwo
  <1> QED
    BY <1>2, <1>23, <1>25

(* Every block but the last tells the truth, and the epilogue hears of the *)
(* last: sf_malloc writes the footer in the epilogue.                      *)
LEMMA EpilogueIsFixed ==
  ASSUME NEW h, NEW B, Tiles(h, B),
         \A c \in B : Next(h, c) # Epilogue(h) => Agrees(h, c),
         \A c \in B : Next(h, c) = Epilogue(h) =>
                        Header(h, Epilogue(h)).prev = Header(h, c).alloc,
         NEW t, t = fix_epilogue(h)
  PROVE  Mild(h, t, B, {}) /\ t.lists = h.lists /\ \A c \in B : Agrees(t, c)
  <1>1. PICK a \in B : /\ a = find_last_in_heap(h) /\ Next(h, a) = Epilogue(h)
                       /\ \A c \in B : Next(h, c) = Epilogue(h) <=> c = a
    BY LastIsFound
  <1>2. t = fix_footer(h, a)
    BY <1>1 DEF fix_epilogue
  <1>3. /\ Mild(h, t, B, {}) /\ t.lists = h.lists
        /\ Agrees(t, a) /\ \A c \in B : Agrees(h, c) => Agrees(t, c)
    BY <1>1, <1>2, FixedFooter
  <1> QED
    BY <1>1, <1>3

(* b is allocated and has that size; it is still in its list, and unless   *)
(* a block was split off it, what is behind it is not told yet.            *)
SplitOff(h, B, t, C, b, pay, total, D) ==
  /\ Tiles(t, C) /\ t.pages = h.pages
  /\ b \in C
  /\ \A c \in C : c # b => Agrees(t, c)
  /\ Lists(t.lists, FreeIn(t, C) \cup {b})
  /\ Header(t, b).pay = pay /\ Header(t, b).size = total /\ Header(t, b).alloc
  /\ UsedIn(t, C) = UsedIn(h, B) \cup {b}
  /\ \A c \in FreeIn(t, C) : Rests(t, c) /\ Next(t, c) \notin FreeIn(t, C)
  /\ Keeps(h, t, UsedIn(h, B), D)

(* split allocates a free block, which is still in its list.               *)
LEMMA BlockIsSplit ==
  ASSUME NEW h, NEW B, Tidy(h, B), NEW b \in FreeIn(h, B),
         NEW pay \in Nat, NEW total \in Nat, total >= 2,
         Header(h, b).size >= total, Header(h, b).size - total # 1,
         NEW D \in SUBSET Units, b \notin D,
         NEW t, t = split(h, b, Header(h, b), pay, total)
  PROVE  \E C : SplitOff(h, B, t, C, b, pay, total, D)
  <1> DEFINE F == FreeIn(h, B)
             V == UsedIn(h, B)
  <1>t. /\ Tiles(h, B) /\ Lists(h.lists, F) /\ \A c \in B : Agrees(h, c)
        /\ b \in B /\ b # 0 /\ ~ Header(h, b).alloc /\ b \in F
        /\ \A c \in F : Rests(h, c) /\ Next(h, c) \notin F /\ c \in B
        /\ \A c \in B : c \notin F <=> c \in V
        /\ \A c \in B : c \in F <=> ~ Header(h, c).alloc
        /\ V \in SUBSET B /\ b \notin V
    BY DEF Tidy, Sound, UsedIn, FreeIn, Tiles
  <1>u. /\ b \in Units /\ b \in Nat /\ Header(h, b) \in Word
        /\ Header(h, b).size \in Nat /\ Header(h, b).prev \in BOOLEAN
        /\ h \in Heaps
        /\ \A c \in B : c \in Units
    BY <1>t, TilesFacts, WordTypes
  <1> HIDE DEF F, V
  <1>1. PICK bit \in BOOLEAN : bit = TRUE
    OBVIOUS
  <1>2. PICK old : old = Header(h, b)
    OBVIOUS
  <1>3. CASE old.size - total >= 2
    <2>1. PICK rest \in Nat : rest = old.size - total
      BY <1>2, <1>3, <1>u
    <2>2. PICK w : w = set_header(pay, total, bit, old.prev)
      OBVIOUS
    <2>3. /\ w \in Word /\ w.pay = pay /\ w.size = total /\ w.alloc
          /\ w.prev = Header(h, b).prev
      <3>1. w = [pay |-> pay, size |-> total, alloc |-> bit, prev |-> old.prev]
        BY <2>2 DEF set_header
      <3>2. w.pay = pay /\ w.size = total /\ w.alloc = bit /\ w.prev = old.prev
        BY <3>1
      <3>3. old.prev \in BOOLEAN
        BY <1>2, <1>u
      <3>4. w \in Word
        BY <3>1, <3>3 DEF Word
      <3> QED
        BY <1>1, <1>2, <3>2, <3>4
    <2>4. t = cut(h, b, w, rest)
      BY <1>1, <1>2, <1>3, <2>1, <2>2 DEF split, MIN_BLOCK_SIZE
    <2>5. PICK r : r = b + w.size
      OBVIOUS
    <2>6. CutInTwo(h, B, F, t, b, r, w, rest) /\ Keeps(h, t, V, D)
      <3>1. w.size + rest = Header(h, b).size /\ rest >= 2 /\ w.size >= 2
        BY <1>2, <1>3, <1>u, <2>1, <2>3
      <3>2. \A c \in F : c \in B
        BY <1>t
      <3>3. \A c \in B : c # b => Agrees(h, c)
        BY <1>t
      <3> QED
        BY <1>t, <2>3, <2>4, <2>5, <3>1, <3>2, <3>3, BlockIsCut
    <2>7. PICK C : C = B \cup {r}
      OBVIOUS
    <2>8. /\ Tiles(t, C) /\ t.pages = h.pages /\ Epilogue(t) = Epilogue(h)
          /\ b \in C /\ r \notin B \cup {Epilogue(h)} /\ r # b
          /\ \A c \in C : Agrees(t, c)
          /\ Lists(t.lists, F \cup {r})
          /\ Header(t, b).pay = pay /\ Header(t, b).size = total
          /\ Header(t, b).alloc /\ ~ Header(t, r).alloc
          /\ Header(t, r).size = rest
          /\ Next(t, r) = Next(h, b)
          /\ \A c \in B : c # b => /\ Header(t, c).size = Header(h, c).size
                                   /\ Header(t, c).alloc = Header(h, c).alloc
                                   /\ Next(t, c) = Next(h, c)
      BY <1>t, <2>3, <2>6, <2>7 DEF CutInTwo, SameHead
    <2>9. Gains(h.lists, t.lists, r, find_allocation_index(rest))
      BY <2>6 DEF CutInTwo
    <2>10. FreeIn(t, C) = (F \ {b}) \cup {r} /\ UsedIn(t, C) = V \cup {b}
      <3>1. \A c : c \in FreeIn(t, C) <=> c \in (F \ {b}) \cup {r}
        BY <1>t, <2>7, <2>8 DEF FreeIn
      <3>2. \A c : c \in UsedIn(t, C) <=> c \in V \cup {b}
        BY <1>t, <2>7, <2>8 DEF UsedIn
      <3> QED
        BY <3>1, <3>2
    <2>11. FreeIn(t, C) \cup {b} = F \cup {r}
      BY <1>t, <2>10
    <2>12. ASSUME NEW c \in FreeIn(t, C)
           PROVE  Rests(t, c) /\ Next(t, c) \notin FreeIn(t, C)
      <3>1. CASE c = r
        <4>1. r \in ToSet(t.lists[find_allocation_index(rest)])
          BY <2>9, IndexIsAList DEF Gains
        <4>2. Rests(t, r)
          BY <2>8, <4>1 DEF Rests
        <4>3. Next(h, b) \notin F /\ Next(h, b) # r
          <5>1. Next(h, b) \in B \cup {Epilogue(h)}
            BY <1>t, TilesFacts
          <5> QED
            BY <1>t, <2>8, <5>1
        <4> QED
          BY <2>8, <2>10, <3>1, <4>2, <4>3
      <3>2. CASE c # r
        <4>1. c \in F /\ c # b /\ c \in B
          BY <1>t, <2>10, <3>2
        <4>2. Rests(h, c) /\ Next(h, c) \notin F
          BY <1>t, <4>1
        <4>3. \A j \in ListNumbers : c \in ToSet(h.lists[j]) => c \in ToSet(t.lists[j])
          BY <2>9 DEF Gains
        <4>4. Rests(t, c)
          BY <2>8, <4>1, <4>2, <4>3, IndexIsAList, LastListIsAList DEF Rests
        <4>5. Next(h, c) # r
          <5>1. Next(h, c) \in B \cup {Epilogue(h)}
            BY <1>t, <4>1, TilesFacts
          <5> QED
            BY <2>8, <5>1
        <4> QED
          BY <2>8, <2>10, <4>1, <4>2, <4>4, <4>5
      <3> QED
        BY <3>1, <3>2
    <2>13. SplitOff(h, B, t, C, b, pay, total, D)
      BY <2>6, <2>8, <2>10, <2>11, <2>12 DEF SplitOff, V
    <2> QED
      BY <2>13
  <1>4. CASE ~ (old.size - total >= 2)
    <2>1. old.size = total
      BY <1>2, <1>4, <1>u
    <2>2. PICK w : w = set_header(pay, old.size, bit, old.prev)
      OBVIOUS
    <2>3. /\ w \in Word /\ w.pay = pay /\ w.size = Header(h, b).size /\ w.alloc
          /\ w.size = total
          /\ w.prev = Header(h, b).prev
      <3>1. w = [pay |-> pay, size |-> old.size, alloc |-> bit, prev |-> old.prev]
        BY <2>2 DEF set_header
      <3>2. w.pay = pay /\ w.size = old.size /\ w.alloc = bit /\ w.prev = old.prev
        BY <3>1
      <3>3. old.prev \in BOOLEAN /\ old.size \in Nat
        BY <1>2, <1>u
      <3>4. w \in Word
        BY <3>1, <3>3 DEF Word
      <3> QED
        BY <1>1, <1>2, <2>1, <3>2, <3>4
    <2>4. t = SetHead(h, b, w)
      BY <1>1, <1>2, <1>4, <2>2 DEF split, MIN_BLOCK_SIZE
    <2>5. /\ Tiles(t, B) /\ t.pages = h.pages /\ t.lists = h.lists
          /\ Epilogue(t) = Epilogue(h)
          /\ \A c \in B : Next(t, c) = Next(h, c)
          /\ Header(t, b) = w
          /\ \A v \in Units : v # b => t.mem[v] = h.mem[v]
          /\ \A c \in B : c # b => Agrees(t, c)
      <3>1. /\ Tiles(h, B) /\ b \in B /\ b # 0 /\ w \in Word
            /\ w.size = Header(h, b).size /\ w.prev = Header(h, b).prev
            /\ (w.alloc \/ w.pay = 0)
        BY <1>t, <2>3
      <3>2. /\ Tiles(t, B) /\ t.pages = h.pages /\ t.lists = h.lists
            /\ Epilogue(t) = Epilogue(h)
            /\ \A c \in B : Next(t, c) = Next(h, c)
            /\ Header(t, b) = w
            /\ \A v \in Units : v # b => t.mem[v] = h.mem[v]
            /\ \A c \in B : c # b /\ Agrees(h, c) => Agrees(t, c)
        BY <2>4, <3>1, HeaderChanged
      <3> QED
        BY <1>t, <3>2
    <2>6. \A c \in B : c # b => SameHead(h, t, c)
      BY <1>u, <2>5 DEF SameHead, Header
    <2>7. FreeIn(t, B) = F \ {b} /\ UsedIn(t, B) = V \cup {b}
      <3>1. \A c \in B : c # b => Header(t, c).alloc = Header(h, c).alloc
        BY <2>6 DEF SameHead
      <3>2. \A c : c \in FreeIn(t, B) <=> c \in F \ {b}
        BY <1>t, <2>3, <2>5, <3>1 DEF FreeIn
      <3>3. \A c : c \in UsedIn(t, B) <=> c \in V \cup {b}
        BY <1>t, <2>3, <2>5, <3>1 DEF UsedIn
      <3> QED
        BY <3>2, <3>3
    <2>8. FreeIn(t, B) \cup {b} = F
      BY <1>t, <2>7
    <2>9. ASSUME NEW c \in FreeIn(t, B)
          PROVE  Rests(t, c) /\ Next(t, c) \notin FreeIn(t, B)
      <3>1. c \in F /\ c # b /\ c \in B
        BY <1>t, <2>7
      <3>2. Rests(h, c) /\ Next(h, c) \notin F
        BY <1>t, <3>1
      <3>3. Header(t, c).size = Header(h, c).size
        BY <2>6, <3>1 DEF SameHead
      <3>4. Rests(t, c)
        BY <2>5, <3>1, <3>2, <3>3 DEF Rests
      <3> QED
        BY <2>5, <2>7, <3>1, <3>2, <3>4
    <2>10. Keeps(h, t, V, D)
      <3>1. \A c \in V : SameHead(h, t, c)
        BY <1>t, <2>6
      <3>2. ASSUME NEW c \in V, NEW u \in c + 1 .. Next(h, c) - 1
            PROVE  t.mem[u] = h.mem[u]
        <4>1. u \in Units /\ u \notin B
          BY <1>t, TilesFacts
        <4> QED
          BY <1>t, <2>5, <4>1
      <3>3. \A u \in D : ~ Header(h, u).alloc => ~ Header(t, u).alloc
        BY <2>5 DEF Header
      <3> QED
        BY <3>1, <3>2, <3>3 DEF Keeps
    <2>11. SplitOff(h, B, t, B, b, pay, total, D)
      BY <1>t, <2>3, <2>5, <2>7, <2>8, <2>9, <2>10 DEF SplitOff, V
    <2> QED
      BY <2>11
  <1> QED
    BY <1>3, <1>4

(* A block is taken: the heap is tidy, the block has that size, and those  *)
(* in use before are as they were.                                         *)
Taken(h, B, t, C, b, pay, total, D) ==
  /\ Tidy(t, C) /\ t.pages = h.pages
  /\ UsedIn(t, C) = UsedIn(h, B) \cup {b}
  /\ Header(t, b).pay = pay /\ Header(t, b).size = total
  /\ Keeps(h, t, UsedIn(h, B), D)

(* take_block allocates a free block and takes it out of its list; the     *)
(* rest of it becomes a free block, which is no neighbour of another.      *)
LEMMA BlockIsTaken ==
  ASSUME NEW h, NEW B, Tidy(h, B), NEW b \in FreeIn(h, B),
         NEW pay \in Nat, NEW total \in Nat, total >= 2,
         Header(h, b).size >= total, Header(h, b).size - total # 1,
         NEW D \in SUBSET Units, b \notin D,
         NEW t, t = take_block(h, b, pay, total)
  PROVE  \E C : Taken(h, B, t, C, b, pay, total, D)
  <1> DEFINE V == UsedIn(h, B)
  <1>1. PICK g : g = split(h, b, Header(h, b), pay, total)
    OBVIOUS
  <1>2. PICK C : SplitOff(h, B, g, C, b, pay, total, D)
    BY <1>1, BlockIsSplit
  <1>t. /\ Tiles(g, C) /\ g.pages = h.pages /\ b \in C
        /\ \A c \in C : c # b => Agrees(g, c)
        /\ Lists(g.lists, FreeIn(g, C) \cup {b})
        /\ Header(g, b).pay = pay /\ Header(g, b).size = total /\ Header(g, b).alloc
        /\ UsedIn(g, C) = V \cup {b}
        /\ \A c \in FreeIn(g, C) : Rests(g, c) /\ Next(g, c) \notin FreeIn(g, C)
        /\ Keeps(h, g, V, D)
        /\ b # 0 /\ V \in SUBSET (C \ {b})
        /\ b \notin FreeIn(g, C)
        /\ \A c \in FreeIn(g, C) : c \in C /\ c # 0
    BY <1>2 DEF SplitOff, FreeIn, UsedIn, Tidy, Sound, Tiles
  <1>u. /\ b \in Units /\ b + 1 \in Units /\ b + 1 \notin C \cup {Epilogue(g)}
        /\ Next(g, b) \in C \cup {Epilogue(g)} /\ Next(g, b) = b + total
        /\ \A c \in C : c \in Units
    <2>1. /\ b \in Units /\ b + 1 \in Units /\ b + 1 \notin C
          /\ Next(g, b) > b + 1 /\ b \in Nat /\ Next(g, b) \in Nat
          /\ Next(g, b) <= Epilogue(g) /\ Epilogue(g) \in Nat
          /\ Next(g, b) \in C \cup {Epilogue(g)}
          /\ \A c \in C : c \in Units
      BY <1>t, TilesFacts
    <2>2. b + 1 # Epilogue(g)
      BY <2>1
    <2> QED
      BY <1>t, <2>1, <2>2 DEF Next
  <1>3. PICK k : k = touch_for_heap_update(g, b)
    OBVIOUS
  <1>4. Mild(g, k, C, {}) /\ k.lists = g.lists /\ \A c \in C : Agrees(k, c)
    <2>1. \A c \in C : Next(g, c) = b => Agrees(g, c)
      <3>1. Next(g, b) # b
        BY <1>t, TilesFacts
      <3> QED
        BY <1>t, <3>1
    <2>2. PICK p \in C : Next(g, p) = b /\ Footer(g, b).size = Header(g, p).size
      BY <1>t, <2>1, PrevIsRight
    <2> QED
      BY <1>t, <1>3, <2>2, TouchInOrder
  <1>5. /\ Tiles(k, C) /\ Epilogue(k) = Epilogue(g)
        /\ \A c \in C : Next(k, c) = Next(g, c)
    BY <1>t, <1>4, MildKeepsTiles
  <1>6. PICK m : m = isolate_block(k, b)
    OBVIOUS
  <1>7. PICK F : F = FreeIn(g, C) \cup {b}
    OBVIOUS
  <1>8. /\ Mild(k, m, C, {b + 1})
        /\ Lists(m.lists, F \ {b})
        /\ Loses(k.lists, m.lists, b)
        /\ \A c \in C : Agrees(m, c)
    <2>1. \A s \in F \ {b} : PrevIsFound(k, C, s)
      <3> TAKE s \in F \ {b}
      <3>1. s \in C /\ s # 0
        BY <1>t, <1>7
      <3> QED
        BY <1>4, <1>5, <3>1, PrevIsRight
    <2>2. Lists(k.lists, F) /\ b \in F
      BY <1>t, <1>4, <1>7
    <2> QED
      BY <1>4, <1>5, <1>6, <1>u, <2>1, <2>2, BlockIsolated
  <1>9. /\ Tiles(m, C) /\ Epilogue(m) = Epilogue(g)
        /\ \A c \in C : Next(m, c) = Next(g, c)
    BY <1>5, <1>8, MildKeepsTiles
  <1>10. SameHead(g, m, b) /\ Header(m, b).alloc
    <2>1. SameHead(g, k, b) /\ SameHead(k, m, b)
      BY <1>t, <1>4, <1>8 DEF Mild
    <2> QED
      BY <1>t, <2>1 DEF SameHead
  <1>11. PICK n : n = b + total
    OBVIOUS
  <1>12. PICK q : q = touch_for_heap_update(m, n)
    OBVIOUS
  <1>13. /\ Mild(m, q, C, {}) /\ q.lists = m.lists
         /\ \A c \in C : Next(m, c) # Epilogue(m) => Agrees(q, c)
         /\ \A c \in C : Next(m, c) = Epilogue(m) =>
                           Header(q, Epilogue(m)).prev = Header(q, c).alloc
    <2>1. Next(m, b) = n /\ Footer(m, n).size = Header(m, b).size
      BY <1>t, <1>8, <1>9, <1>11, <1>u DEF Agrees
    <2>2. CASE n \in C
      <3>1. /\ Mild(m, q, C, {}) /\ q.lists = m.lists
            /\ \A c \in C : Agrees(q, c)
        BY <1>t, <1>8, <1>9, <1>12, <2>1, <2>2, TouchInOrder
      <3>2. Tiles(q, C) /\ \A c \in C : Next(q, c) = Next(m, c)
        BY <1>9, <3>1, MildKeepsTiles
      <3> QED
        BY <3>1, <3>2 DEF Agrees
    <2>3. CASE n = Epilogue(m)
      <3>1. /\ Mild(m, q, C, {}) /\ q.lists = m.lists
            /\ Header(q, Epilogue(m)).prev = TRUE
            /\ \A c \in C : c # b /\ Agrees(m, c) => Agrees(q, c)
        <4>1. /\ Next(m, b) = Epilogue(m)
              /\ Footer(m, Epilogue(m)).size = Header(m, b).size
              /\ q = touch_for_heap_update(m, Epilogue(m))
              /\ Tiles(m, C) /\ b \in C /\ Header(m, b).alloc
          BY <1>t, <1>9, <1>10, <1>12, <2>1, <2>3
        <4> QED
          BY <4>1, EpilogueTouched, Zenon
      <3>2. \A c \in C : Next(m, c) = Epilogue(m) => c = b
        BY <1>t, <1>9, <2>1, <2>3, TilesFacts
      <3>3. SameHead(m, q, b)
        BY <1>t, <3>1 DEF Mild
      <3>4. Header(q, b).alloc = TRUE
        <4>1. Header(q, b).alloc \in BOOLEAN
          <5>1. q \in Heaps /\ b \in Units
            BY <1>u, <3>1 DEF Mild
          <5> QED
            BY <5>1, WordTypes
        <4> QED
          BY <1>10, <3>3, <4>1 DEF SameHead
      <3> QED
        BY <1>8, <2>1, <2>3, <3>1, <3>2, <3>4
    <2> QED
      BY <1>9, <1>11, <1>u, <2>2, <2>3
  <1>14. /\ Tiles(q, C) /\ Epilogue(q) = Epilogue(m)
         /\ \A c \in C : Next(q, c) = Next(m, c)
    BY <1>9, <1>13, MildKeepsTiles
  <1>15. t = fix_epilogue(q)
    BY <1>1, <1>3, <1>6, <1>11, <1>12 DEF take_block
  <1>16. Mild(q, t, C, {}) /\ t.lists = q.lists /\ \A c \in C : Agrees(t, c)
    BY <1>13, <1>14, <1>15, EpilogueIsFixed
  <1>17. Mild(g, t, C, {b + 1})
    <2>1. Mild(g, m, C, {} \cup {b + 1})
      BY <1>4, <1>8, MildIsTransitive
    <2>2. Mild(g, q, C, ({} \cup {b + 1}) \cup {})
      BY <1>13, <2>1, MildIsTransitive
    <2>3. Mild(g, t, C, (({} \cup {b + 1}) \cup {}) \cup {})
      BY <1>16, <2>2, MildIsTransitive
    <2>4. (({} \cup {b + 1}) \cup {}) \cup {} = {b + 1}
      OBVIOUS
    <2> QED
      BY <2>3, <2>4
  <1>18. /\ Tiles(t, C) /\ Epilogue(t) = Epilogue(g)
         /\ \A c \in C : Next(t, c) = Next(g, c)
    BY <1>t, <1>17, MildKeepsTiles
  <1>19. FreeIn(t, C) = FreeIn(g, C) /\ UsedIn(t, C) = UsedIn(g, C)
    BY <1>17, MildKeepsUse
  <1>20. Sound(t, C)
    <2>1. F \ {b} = FreeIn(g, C)
      BY <1>t, <1>7
    <2> QED
      BY <1>8, <1>13, <1>16, <1>18, <1>19, <2>1 DEF Sound
  <1>21. ASSUME NEW c \in FreeIn(t, C)
         PROVE  Rests(t, c) /\ Next(t, c) \notin FreeIn(t, C)
    <2>1. c \in C /\ c # b /\ Rests(g, c) /\ Next(g, c) \notin FreeIn(g, C)
      BY <1>t, <1>19
    <2>2. Next(t, c) = Next(g, c) /\ Header(t, c).size = Header(g, c).size
      BY <1>17, <1>18, <2>1 DEF Mild, SameHead
    <2>3. \A j \in ListNumbers : c \in ToSet(g.lists[j]) => c \in ToSet(t.lists[j])
      BY <1>4, <1>8, <1>13, <1>16, <2>1 DEF Loses
    <2> QED
      BY <1>18, <1>19, <2>1, <2>2, <2>3, IndexIsAList, LastListIsAList DEF Rests
  <1>22. Keeps(h, t, V, D)
    <2>1. Keeps(g, t, V, D)
      BY <1>t, <1>17, MildKeepsOthers
    <2> QED
      BY <1>t, <2>1, KeepsIsTransitive
  <1>23. SameHead(g, t, b) /\ t.pages = g.pages
    BY <1>t, <1>17 DEF Mild
  <1>24. Taken(h, B, t, C, b, pay, total, D)
    BY <1>t, <1>19, <1>20, <1>21, <1>22, <1>23 DEF Taken, Tidy, SameHead
  <1> QED
    BY <1>24

(* sf_realloc cuts an allocated block.                                     *)
LEMMA BlockIsShortened ==
  ASSUME NEW h, NEW B, Tidy(h, B), NEW b \in UsedIn(h, B), b # 0,
         NEW pay \in Nat, NEW size \in Nat, size >= 2,
         Header(h, b).size >= size + 2,
         NEW D \in SUBSET Units,
         NEW t, t = realloc_block(h, b, size, pay)
  PROVE  \E C : StaysInPlace(h, B, t, C, b, pay, size, D)
  <1> DEFINE F == FreeIn(h, B)
             V == UsedIn(h, B) \ {b}
  <1>t. /\ Tiles(h, B) /\ Lists(h.lists, F) /\ \A c \in B : Agrees(h, c)
        /\ b \in B /\ Header(h, b).alloc
        /\ \A c \in F : Rests(h, c) /\ c \in B /\ c # b
        /\ \A c : c \in F <=> c \in B /\ ~ Header(h, c).alloc
        /\ \A c : c \in UsedIn(h, B) <=> c \in B /\ Header(h, c).alloc
        /\ V \in SUBSET B /\ b \notin V
    BY DEF Tidy, Sound, UsedIn, FreeIn
  <1>u. /\ h \in Heaps /\ b \in Units /\ b \in Nat
        /\ Header(h, b) \in Word /\ Header(h, b).size \in Nat
        /\ Header(h, b).alloc \in BOOLEAN /\ Header(h, b).prev \in BOOLEAN
        /\ Next(h, b) \in Units /\ Next(h, b) = b + Header(h, b).size
        /\ \A c \in B : c \in Units /\ Next(h, c) \in Units
    BY <1>t, TilesFacts, WordTypes
  <1> HIDE DEF F, V
  <1>1. PICK old : old = Header(h, b)
    OBVIOUS
  <1>2. PICK rest \in Nat : rest = old.size - size
    BY <1>1, <1>u
  <1>3. PICK bit \in BOOLEAN : bit = TRUE
    OBVIOUS
  <1>4. PICK f : f = set_header(0, rest, FALSE, bit)
    OBVIOUS
  <1>5. f \in Word
    <2>1. f = [pay |-> 0, size |-> rest, alloc |-> FALSE, prev |-> bit]
      BY <1>4 DEF set_header
    <2>2. FALSE \in BOOLEAN /\ 0 \in Nat
      OBVIOUS
    <2> QED
      BY <2>1, <2>2 DEF Word
  <1>6. PICK n \in Units : n = Next(h, b)
    BY <1>u
  <1>7. PICK g : g = SetFoot(h, n, f)
    OBVIOUS
  <1>8. /\ OnlyMemory(h, g)
        /\ \A v \in Units : Header(g, v) = Header(h, v)
        /\ \A v \in Units : Footer(g, v) = IF v = n THEN f ELSE Footer(h, v)
        /\ \A v \in Units : v # n => g.mem[v] = h.mem[v]
    <2>1. h \in Heaps
      BY <1>u
    <2>2. /\ OnlyMemory(h, SetFoot(h, n, f))
          /\ \A v \in Units : Header(SetFoot(h, n, f), v) = Header(h, v)
          /\ \A v \in Units : Footer(SetFoot(h, n, f), v) =
                                IF v = n THEN f ELSE Footer(h, v)
          /\ \A v \in Units : v # n => SetFoot(h, n, f).mem[v] = h.mem[v]
      BY <1>5, <2>1, FootIsSet
    <2> QED
      BY <1>7, <2>2
  <1>9. Mild(h, g, B, {}) /\ g.lists = h.lists /\ g.pages = h.pages
    <2>1. n \in B \cup {Epilogue(h)}
      BY <1>t, <1>6, TilesFacts
    <2>2. B \cup {Epilogue(h)} \subseteq Units
      BY <1>t, TilesFacts
    <2> QED
      BY <1>8, <2>1, <2>2 DEF Mild, OnlyMemory, SameHead
  <1>10. /\ Tiles(g, B) /\ Epilogue(g) = Epilogue(h)
         /\ \A c \in B : Next(g, c) = Next(h, c)
    BY <1>t, <1>9, MildKeepsTiles
  <1>11. ASSUME NEW c \in B, c # b
         PROVE  Agrees(g, c)
    <2>1. Next(h, c) # n
      BY <1>t, <1>6, <1>11, TilesFacts
    <2>2. Agrees(h, c)
      BY <1>t
    <2>3. PICK m \in Units : m = Next(h, c) /\ m # n
      BY <1>u, <2>1
    <2>4. Footer(g, m) = Footer(h, m) /\ Header(g, m) = Header(h, m)
      BY <1>8, <2>3
    <2>5. Header(g, c) = Header(h, c)
      BY <1>8, <1>u
    <2> QED
      BY <1>10, <2>2, <2>3, <2>4, <2>5 DEF Agrees
  <1>12. PICK w : w = set_header(pay, size, old.alloc, old.prev)
    OBVIOUS
  <1>13. /\ w \in Word /\ w.pay = pay /\ w.size = size /\ w.alloc
         /\ w.prev = Header(g, b).prev
    <2>1. w = [pay |-> pay, size |-> size, alloc |-> old.alloc, prev |-> old.prev]
      BY <1>12 DEF set_header
    <2>2. w.pay = pay /\ w.size = size /\ w.alloc = old.alloc /\ w.prev = old.prev
      BY <2>1
    <2>3. old.alloc \in BOOLEAN /\ old.prev \in BOOLEAN
      BY <1>1, <1>u
    <2>4. w \in Word
      BY <2>1, <2>3 DEF Word
    <2>5. Header(g, b) = old /\ old.alloc
      BY <1>t, <1>u, <1>1, <1>8
    <2> QED
      BY <2>2, <2>4, <2>5
  <1>14. PICK k : k = cut(g, b, w, rest)
    OBVIOUS
  <1>15. PICK r : r = b + w.size
    OBVIOUS
  <1>16. CutInTwo(g, B, F, k, b, r, w, rest) /\ Keeps(g, k, V, D)
    <2>1. /\ w.size >= 2 /\ rest >= 2 /\ w.size + rest = Header(g, b).size
      BY <1>1, <1>2, <1>8, <1>13, <1>u
    <2>2. \A c \in F : c \in B
      BY <1>t
    <2>3. Lists(g.lists, F)
      BY <1>t, <1>9
    <2>4. b \in D => Header(g, b).alloc
      BY <1>t, <1>8, <1>u
    <2> QED
      BY <1>t, <1>10, <1>11, <1>13, <1>14, <1>15, <2>1, <2>2, <2>3, <2>4, BlockIsCut
  <1>17. PICK C : C = B \cup {r}
    OBVIOUS
  <1>18. /\ Tiles(k, C) /\ k.pages = h.pages /\ Epilogue(k) = Epilogue(h)
         /\ r \notin B \cup {Epilogue(h)} /\ r # b
         /\ \A c \in C : Agrees(k, c)
         /\ Lists(k.lists, F \cup {r})
         /\ Header(k, b).pay = pay /\ Header(k, b).size = size
         /\ Header(k, b).alloc /\ ~ Header(k, r).alloc
         /\ Header(k, r).size = rest
         /\ \A c \in B : c # b => /\ Header(k, c).size = Header(h, c).size
                                  /\ Header(k, c).alloc = Header(h, c).alloc
                                  /\ Next(k, c) = Next(h, c)
         /\ \A u \in b + 1 .. r - 1 : k.mem[u] = g.mem[u]
    <2>1. \A c \in B : Header(g, c) = Header(h, c)
      BY <1>8, <1>u
    <2> QED
      BY <1>t, <1>9, <1>10, <1>13, <1>16, <1>17, <2>1 DEF CutInTwo, SameHead
  <1>19. Gains(h.lists, k.lists, r, find_allocation_index(rest))
    BY <1>9, <1>16 DEF CutInTwo
  <1>20. FreeIn(k, C) = F \cup {r} /\ UsedIn(k, C) = UsedIn(h, B)
    <2>1. \A c : c \in FreeIn(k, C) <=> c \in F \cup {r}
      BY <1>t, <1>17, <1>18 DEF FreeIn
    <2>2. \A c : c \in UsedIn(k, C) <=> c \in UsedIn(h, B)
      BY <1>t, <1>17, <1>18 DEF UsedIn
    <2> QED
      BY <2>1, <2>2
  <1>21. Loose(k, C)
    <2>1. Sound(k, C)
      BY <1>18, <1>20 DEF Sound
    <2>2. ASSUME NEW c \in FreeIn(k, C)
          PROVE  Rests(k, c)
      <3>1. CASE c = r
        <4>1. r \in ToSet(k.lists[find_allocation_index(rest)])
          BY <1>19, IndexIsAList DEF Gains
        <4> QED
          BY <1>18, <3>1, <4>1 DEF Rests
      <3>2. CASE c # r
        <4>1. c \in F /\ c # b /\ c \in B /\ Rests(h, c)
          BY <1>t, <1>20, <3>2
        <4>2. \A j \in ListNumbers : c \in ToSet(h.lists[j]) => c \in ToSet(k.lists[j])
          BY <1>19 DEF Gains
        <4> QED
          BY <1>18, <4>1, <4>2, IndexIsAList, LastListIsAList DEF Rests
      <3> QED
        BY <3>1, <3>2
    <2> QED
      BY <2>1, <2>2 DEF Loose
  <1>22. t = reset_epilogue(do_coalesce(k))
    <2>1. b + old.size = n
      BY <1>1, <1>6, <1>u
    <2> QED
      BY <1>1, <1>2, <1>3, <1>4, <1>7, <1>12, <1>14, <2>1 DEF realloc_block
  <1>23. PICK E : Tidy(t, E) /\ SameUse(k, C, t, E, D)
    BY <1>21, <1>22, EndOfCall
  <1>24. Keeps(h, t, V, D)
    <2>1. Keeps(h, g, V, D)
      BY <1>t, <1>9, MildKeepsAll
    <2>2. Keeps(k, t, V, D)
      <3>1. \A c \in V : c \in UsedIn(k, C)
        BY <1>20 DEF V
      <3> QED
        BY <1>23, <3>1 DEF SameUse, Keeps
    <2> QED
      BY <1>16, <2>1, <2>2, KeepsIsTransitive
  <1>25. /\ SameHead(k, t, b)
         /\ \A u \in b + 1 .. Next(k, b) - 1 : t.mem[u] = k.mem[u]
    <2>1. b \in UsedIn(k, C)
      BY <1>20
    <2> QED
      BY <1>23, <2>1 DEF SameUse, Keeps
  <1>26. ASSUME NEW u \in b + 1 .. b + size - 1
         PROVE  t.mem[u] = h.mem[u]
    <2>1. Next(k, b) = b + size /\ r = b + size
      BY <1>13, <1>15, <1>18 DEF Next
    <2>5. u \in b + 1 .. Next(k, b) - 1 /\ u \in b + 1 .. r - 1
      BY <2>1, <1>u
    <2>2. t.mem[u] = k.mem[u]
      BY <1>25, <2>5, Zenon
    <2>3. k.mem[u] = g.mem[u]
      BY <1>18, <2>5, Zenon
    <2>4. u \in Units /\ u # n
      <3>1. u \in b + 1 .. Next(h, b) - 1
        BY <1>u
      <3>2. u \in Units /\ u \notin B \cup {Epilogue(h)}
        BY <1>t, <3>1, TilesFacts
      <3>3. n \in B \cup {Epilogue(h)}
        BY <1>t, <1>6, TilesFacts
      <3> QED
        BY <3>2, <3>3
    <2> QED
      BY <1>8, <2>2, <2>3, <2>4
  <1>27. StaysInPlace(h, B, t, E, b, pay, size, D)
    BY <1>18, <1>20, <1>23, <1>24, <1>25, <1>26
    DEF StaysInPlace, SameUse, SameHead, V
  <1> QED
    BY <1>27

-----------------------------------------------------------------------------
(* sf_mem_grow.                                                            *)

(* A new block at the end of the heap is listed and joined with the last   *)
(* one, p, which does not know of it yet.                                  *)
LEMMA BlockIsAdded ==
  ASSUME NEW h, NEW B, Tiles(h, B), NEW b \in B, Next(h, b) = Epilogue(h),
         ~ Header(h, b).alloc,
         NEW p \in B, p # b, Next(h, p) = b, Footer(h, b).size = Header(h, p).size,
         ~ Header(h, p).alloc => Agrees(h, p),
         \A c \in B : c # b /\ c # p => Agrees(h, c),
         NEW F, F = FreeIn(h, B) \ {b}, Lists(h.lists, F),
         \A c \in F : c # p => Rests(h, c),
         NEW D \in SUBSET Units, NEW t, t = add_block(h, b)
  PROVE  \E C : Tidy(t, C) /\ SameUse(h, B, t, C, D)
  <1>1. PICK i \in ListNumbers : i = NUM_FREE_LISTS - 1
    BY LastListIsAList
  <1>2. PICK g : g = insert_block(h, b, i)
    OBVIOUS
  <1>3. /\ Mild(h, g, B, {b + 1})
        /\ Lists(g.lists, F \cup {b})
        /\ Gains(h.lists, g.lists, b, i)
        /\ \A c \in B : Agrees(g, c)
    <2>1. b \notin F
      OBVIOUS
    <2>2. Inserted(h, B, F, g, b, p, i)
      BY <1>2, <2>1, BlockInserted
    <2> QED
      BY <2>2 DEF Inserted
  <1>4. /\ Tiles(g, B) /\ Epilogue(g) = Epilogue(h)
        /\ \A c \in B : Next(g, c) = Next(h, c)
    BY <1>3, MildKeepsTiles
  <1>5. PICK k : k = touch_for_heap_update(g, b)
    OBVIOUS
  <1>6. Mild(g, k, B, {}) /\ k.lists = g.lists /\ \A c \in B : Agrees(k, c)
    <2>1. Next(g, p) = b /\ Footer(g, b).size = Header(g, p).size
      BY <1>3, <1>4 DEF Agrees
    <2> QED
      BY <1>3, <1>4, <1>5, <2>1, TouchInOrder
  <1>7. /\ Tiles(k, B) /\ Epilogue(k) = Epilogue(h)
        /\ \A c \in B : Next(k, c) = Next(h, c)
    BY <1>4, <1>6, MildKeepsTiles
  <1>8. PICK m : m = fix_epilogue(k)
    OBVIOUS
  <1>9. Mild(k, m, B, {}) /\ m.lists = k.lists /\ \A c \in B : Agrees(m, c)
    <2>1. \A c \in B : Next(k, c) = Epilogue(k) =>
                         Header(k, Epilogue(k)).prev = Header(k, c).alloc
      BY <1>6 DEF Agrees
    <2> QED
      BY <1>6, <1>7, <1>8, <2>1, EpilogueIsFixed
  <1>10. Mild(h, m, B, {b + 1})
    <2>1. Mild(h, k, B, {b + 1} \cup {})
      BY <1>3, <1>6, MildIsTransitive
    <2>2. Mild(h, m, B, ({b + 1} \cup {}) \cup {})
      BY <1>9, <2>1, MildIsTransitive
    <2>3. ({b + 1} \cup {}) \cup {} = {b + 1}
      OBVIOUS
    <2> QED
      BY <2>2, <2>3
  <1>11. /\ Tiles(m, B) /\ Epilogue(m) = Epilogue(h)
         /\ \A c \in B : Next(m, c) = Next(h, c)
    BY <1>10, MildKeepsTiles
  <1>12. FreeIn(m, B) = FreeIn(h, B) /\ UsedIn(m, B) = UsedIn(h, B)
    BY <1>10, MildKeepsUse
  <1>13. b \in FreeIn(h, B) /\ FreeIn(h, B) = F \cup {b}
    BY DEF FreeIn
  <1>14. Loose(m, B)
    <2>1. Sound(m, B)
      BY <1>3, <1>6, <1>9, <1>11, <1>12, <1>13 DEF Sound
    <2>2. ASSUME NEW c \in FreeIn(m, B)
          PROVE  Rests(m, c) \/ Next(m, c) \in FreeIn(m, B)
      <3>1. CASE c = b
        <4>1. b \in ToSet(m.lists[i])
          BY <1>3, <1>6, <1>9 DEF Gains
        <4> QED
          BY <1>1, <1>11, <3>1, <4>1 DEF Rests
      <3>2. CASE c = p
        BY <1>11, <1>12, <1>13, <3>2
      <3>3. CASE c # b /\ c # p
        <4>1. c \in F /\ c \in B /\ Rests(h, c)
          BY <1>12, <3>3 DEF FreeIn
        <4>2. Next(m, c) = Next(h, c) /\ Header(m, c).size = Header(h, c).size
          BY <1>10, <1>11, <4>1 DEF Mild, SameHead
        <4>3. \A j \in ListNumbers : c \in ToSet(h.lists[j]) => c \in ToSet(m.lists[j])
          BY <1>3, <1>6, <1>9 DEF Gains
        <4> QED
          BY <1>11, <4>1, <4>2, <4>3, IndexIsAList, LastListIsAList DEF Rests
      <3> QED
        BY <3>1, <3>2, <3>3
    <2> QED
      BY <2>1, <2>2 DEF Loose
  <1>15. SameUse(h, B, m, B, D)
    <2>1. UsedIn(h, B) \in SUBSET (B \ {b})
      BY DEF UsedIn
    <2>2. Keeps(h, m, UsedIn(h, B), D)
      BY <1>10, <2>1, MildKeepsOthers
    <2>3. m.pages = h.pages
      BY <1>10 DEF Mild
    <2> QED
      BY <1>12, <2>2, <2>3 DEF SameUse
  <1>16. t = do_coalesce(m)
    BY <1>1, <1>2, <1>5, <1>8 DEF add_block
  <1>17. PICK C : Tidy(t, C) /\ SameUse(m, B, t, C, D)
    BY <1>14, <1>16, AllCoalesced
  <1> QED
    BY <1>15, <1>17, SameUseIsTransitive

(* A header that is made of numbers and bits is a word.                    *)
LEMMA HeaderFields ==
  ASSUME NEW pay \in Nat, NEW size \in Nat, NEW alloc \in BOOLEAN, NEW prev \in BOOLEAN,
         NEW w, w = set_header(pay, size, alloc, prev)
  PROVE  /\ w \in Word
         /\ w.pay = pay /\ w.size = size /\ w.alloc = alloc /\ w.prev = prev
  <1>1. w = [pay |-> pay, size |-> size, alloc |-> alloc, prev |-> prev]
    BY DEF set_header
  <1> QED
    BY <1>1 DEF Word

(* A heap without a page.                                                  *)
Started(h) == h \in Heaps /\ h.pages = 0 /\ Lists(h.lists, {})

(* The memory that sf_mem_grow adds ends with an epilogue.                 *)
LEMMA PageIsAdded ==
  ASSUME NEW h \in Heaps, h.pages < MaxPages, NEW t, t = [h EXCEPT !.pages = @ + 1]
  PROVE  /\ t \in Heaps /\ t.pages = h.pages + 1
         /\ t.lists = h.lists /\ t.mem = h.mem
         /\ End(t) = End(h) + PageUnits /\ Epilogue(t) = Epilogue(h) + PageUnits
         /\ End(h) \in Nat
         /\ Epilogue(t) \in Units
  <1>1. h.pages \in 0 .. MaxPages /\ PageUnits \in Nat /\ MaxPages \in Nat /\ PageUnits >= 8
    BY HeapTypes, ConstantsAreNumbers
  <1>2. t \in Heaps /\ t.pages = h.pages + 1 /\ t.lists = h.lists /\ t.mem = h.mem
    <2>1. h.pages + 1 \in 0 .. MaxPages
      BY <1>1
    <2> QED
      BY <2>1 DEF Heaps
  <1>3. End(t) \in Units /\ End(h) \in Units /\ Units \subseteq Nat
    BY <1>2, HeapTypes, ConstantsAreNumbers
  <1>4. End(t) = End(h) + PageUnits
    <2>1. \A m, n \in Nat : (m + 1) * n = m * n + n
      OBVIOUS
    <2>2. PICK m \in Nat : m = h.pages
      BY <1>1
    <2>3. (m + 1) * PageUnits = m * PageUnits + PageUnits
      BY <1>1, <2>1
    <2> QED
      BY <1>2, <2>2, <2>3, Zenon DEF End
  <1>5. Epilogue(t) \in Units
    BY <1>1, <1>3, <1>4 DEF Epilogue, Units
  <1>6. Epilogue(t) = Epilogue(h) + PageUnits
    BY <1>1, <1>3, <1>4 DEF Epilogue
  <1> QED
    BY <1>2, <1>3, <1>4, <1>5, <1>6

(* The first page: a prologue, a free block, an epilogue.                  *)
LEMMA FirstPageIsAdded ==
  ASSUME NEW h, Started(h), NEW t, t = grow(h)
  PROVE  \E C : Tidy(t, C) /\ t.pages = 1 /\ UsedIn(t, C) = {0}
  <1>t. h \in Heaps /\ h.pages = 0 /\ Lists(h.lists, {})
    BY DEF Started
  <1>c. /\ PageUnits \in Nat /\ PageUnits >= 8 /\ MaxPages \in Nat /\ MaxPages >= 1
    BY ConstantsAreNumbers
  <1>1. PICK g : g = [h EXCEPT !.pages = @ + 1]
    OBVIOUS
  <1>2. /\ g \in Heaps /\ g.pages = 1 /\ g.lists = h.lists
        /\ End(g) = PageUnits /\ Epilogue(g) = PageUnits - 1
        /\ Epilogue(g) \in Units
    <2>1. /\ g \in Heaps /\ g.pages = h.pages + 1 /\ g.lists = h.lists
          /\ End(g) = End(h) + PageUnits
          /\ Epilogue(g) \in Units
      BY <1>t, <1>c, <1>1, PageIsAdded
    <2>2. End(h) = 0
      <3>1. \A n \in Nat : 0 * n = 0
        OBVIOUS
      <3> QED
        BY <1>t, <1>c, <3>1 DEF End
    <2> QED
      BY <1>c, <1>t, <2>1, <2>2 DEF Epilogue
  <1>3. PICK e \in Nat : e = PageUnits - 1 /\ e \in Units /\ e >= 7
    BY <1>2, <1>c
  <1>4. 0 \in Units /\ 2 \in Units
    <2>1. PICK M \in Nat : M = MaxPages * PageUnits
      BY ConstantsAreNumbers
    <2>2. Units = 0 .. M
      BY <2>1 DEF Units
    <2> QED
      BY <1>3, <2>2
  <1>b. TRUE \in BOOLEAN /\ FALSE \in BOOLEAN
    OBVIOUS
  <1>5. PICK yes \in BOOLEAN, no \in BOOLEAN : yes = TRUE /\ no = FALSE
    BY <1>b
  <1>6. PICK w0, we, wf, wb :
          /\ w0 = set_header(0, 2, yes, no)
          /\ we = set_header(0, 0, yes, no)
          /\ wf = set_header(0, 2, no, no)
          /\ wb = set_header(0, PageUnits - 3, no, no)
    OBVIOUS
  <1>7. /\ w0 \in Word /\ w0.size = 2 /\ w0.alloc = yes /\ w0.pay = 0
        /\ we \in Word /\ we.size = 0 /\ we.alloc = yes
        /\ wf \in Word /\ wf.size = 2 /\ wf.alloc = no
        /\ wb \in Word /\ wb.size = PageUnits - 3 /\ wb.alloc = no /\ wb.pay = 0
    <2>1. PageUnits - 3 \in Nat
      BY <1>c
    <2> QED
      BY <1>6, <2>1, HeaderFields
  <1>8. PICK k : k = SetHead(g, 0, w0)
    OBVIOUS
  <1>9. /\ OnlyMemory(g, k)
        /\ \A v \in Units : Header(k, v) = IF v = 0 THEN w0 ELSE Header(g, v)
    BY <1>2, <1>4, <1>7, <1>8, HeadIsSet
  <1>10. k \in Heaps /\ k.pages = 1 /\ k.lists = h.lists /\ Epilogue(k) = e
    BY <1>2, <1>3, <1>9 DEF OnlyMemory, Epilogue, End
  <1>11. PICK m : m = SetHead(k, e, we)
    OBVIOUS
  <1>12. /\ OnlyMemory(k, m)
         /\ \A v \in Units : Header(m, v) = IF v = e THEN we ELSE Header(k, v)
    <2>1. k \in Heaps /\ e \in Units /\ we \in Word
      BY <1>3, <1>7, <1>10
    <2>2. /\ OnlyMemory(k, SetHead(k, e, we))
          /\ \A v \in Units : Header(SetHead(k, e, we), v) =
                                IF v = e THEN we ELSE Header(k, v)
      BY <2>1, HeadIsSet
    <2> QED
      BY <1>11, <2>2
  <1>13. m \in Heaps /\ m.pages = 1 /\ m.lists = h.lists /\ Epilogue(m) = e
    BY <1>10, <1>12 DEF OnlyMemory, Epilogue, End
  <1>14. PICK q : q = Write(m, 2, wf, wb)
    OBVIOUS
  <1>15. /\ OnlyMemory(m, q)
         /\ \A v \in Units : q.mem[v] =
                      IF v = 2 THEN [foot |-> wf, head |-> wb] ELSE m.mem[v]
    BY <1>4, <1>7, <1>13, <1>14, WriteIsWritten
  <1>16. /\ q \in Heaps /\ q.pages = 1 /\ q.lists = h.lists /\ Epilogue(q) = e
         /\ Header(q, 0) = w0 /\ Header(q, e) = we
         /\ Header(q, 2) = wb /\ Footer(q, 2) = wf
    <2>1. q \in Heaps /\ q.pages = 1 /\ q.lists = h.lists /\ Epilogue(q) = e
      BY <1>13, <1>15 DEF OnlyMemory, Epilogue, End
    <2>2. \A v \in Units : v # 2 => Header(q, v) = Header(m, v)
      BY <1>15 DEF Header
    <2>3. Header(q, 0) = w0 /\ Header(q, e) = we
      BY <1>3, <1>4, <1>9, <1>12, <2>2
    <2>4. q.mem[2] = [foot |-> wf, head |-> wb]
      BY <1>4, <1>15
    <2>5. Header(q, 2) = wb /\ Footer(q, 2) = wf
      BY <2>4 DEF Header, Footer
    <2> QED
      BY <2>1, <2>3, <2>5
  <1>17. PICK B : B = {0, 2}
    OBVIOUS
  <1>18. Next(q, 0) = 2 /\ Next(q, 2) = e
    BY <1>3, <1>7, <1>16, <1>c DEF Next
  <1>19. Tiles(q, B)
    <2>1. q.pages # 0 /\ B \subseteq 0 .. Epilogue(q) - 1 /\ 0 \in B
      BY <1>3, <1>16, <1>17
    <2>2. \A b \in B : /\ Header(q, b).size >= 2
                       /\ Next(q, b) \in B \cup {Epilogue(q)}
      BY <1>7, <1>c, <1>16, <1>17, <1>18
    <2>3. \A b, c \in B : b < c => Next(q, b) <= c
      BY <1>17, <1>18
    <2>4. /\ Header(q, 0).alloc /\ Header(q, 0).size = 2 /\ Header(q, 0).pay = 0
          /\ Header(q, Epilogue(q)).size = 0 /\ Header(q, Epilogue(q)).alloc
      BY <1>5, <1>7, <1>16
    <2>5. \A b \in B : HoldsOrFree(q, b)
      BY <1>7, <1>16, <1>17 DEF HoldsOrFree
    <2> QED
      BY <1>16, <2>1, <2>2, <2>3, <2>4, <2>5 DEF Tiles
  <1>20. FreeIn(q, B) = {2} /\ UsedIn(q, B) = {0}
    BY <1>5, <1>7, <1>16, <1>17 DEF FreeIn, UsedIn
  <1>21. t = add_block(q, 2)
    <2>1. m = get_more_memory(h)
      <3>1. g.pages = 1 /\ Epilogue(k) = e
        BY <1>2, <1>10
      <3>2. k = set_prologue(g)
        BY <3>1, <1>5, <1>6, <1>8 DEF set_prologue, MIN_BLOCK_SIZE
      <3> QED
        BY <3>1, <3>2, <1>1, <1>5, <1>6, <1>11 DEF get_more_memory, set_epilogue
    <2>2. q = Write(get_more_memory(h), MIN_BLOCK_SIZE,
                    set_header(0, MIN_BLOCK_SIZE, FALSE, FALSE),
                    set_header(0, PageUnits - 3, FALSE, FALSE))
      BY <1>5, <1>6, <1>14, <2>1 DEF MIN_BLOCK_SIZE
    <2> QED
      BY <1>t, <2>2 DEF grow, MIN_BLOCK_SIZE
  <1>22. PICK C : Tidy(t, C) /\ SameUse(q, B, t, C, {})
    <2>1. PICK F : F = FreeIn(q, B) \ {2}
      OBVIOUS
    <2>2. F = {} /\ Lists(q.lists, F)
      BY <1>t, <1>16, <1>20, <2>1
    <2>3. PICK D \in SUBSET Units : D = {}
      OBVIOUS
    <2>4. /\ 2 \in B /\ 0 \in B /\ Next(q, 2) = Epilogue(q) /\ ~ Header(q, 2).alloc
          /\ Footer(q, 2).size = Header(q, 0).size /\ Header(q, 0).alloc
          /\ Next(q, 0) = 2 /\ \A c \in B : ~ (c # 2 /\ c # 0)
      BY <1>5, <1>7, <1>16, <1>17, <1>18
    <2> QED
      BY <1>19, <1>21, <2>1, <2>2, <2>3, <2>4, BlockIsAdded
  <1> QED
    BY <1>16, <1>20, <1>22 DEF SameUse

(* Another page: its units and the old epilogue become a free block.       *)
LEMMA NextPageIsAdded ==
  ASSUME NEW h, NEW B, Tidy(h, B), h.pages < MaxPages,
         NEW D \in SUBSET Units, \A u \in D : u < Epilogue(h),
         NEW t, t = grow(h)
  PROVE  \E C : /\ Tidy(t, C) /\ t.pages = h.pages + 1
                /\ UsedIn(t, C) = UsedIn(h, B) /\ Keeps(h, t, UsedIn(h, B), D)
  <1> DEFINE F == FreeIn(h, B)
             V == UsedIn(h, B)
  <1>t. /\ Tiles(h, B) /\ Lists(h.lists, F) /\ \A c \in B : Agrees(h, c)
        /\ h \in Heaps /\ h.pages # 0
        /\ \A c \in F : Rests(h, c) /\ c \in B
        /\ \A c : c \in F <=> c \in B /\ ~ Header(h, c).alloc
        /\ \A c : c \in V <=> c \in B /\ Header(h, c).alloc
        /\ V \in SUBSET B
    BY DEF Tidy, Sound, UsedIn, FreeIn, Tiles
  <1>c. PageUnits \in Nat /\ PageUnits >= 8
    BY ConstantsAreNumbers
  <1> HIDE DEF F, V
  <1>1. PICK e : e = Epilogue(h)
    OBVIOUS
  <1>u. /\ e \in Units /\ e \in Nat /\ e \notin B
        /\ B \subseteq Units /\ B \subseteq Nat /\ 0 \in B
        /\ \A c \in B : /\ c < e /\ Next(h, c) \in B \cup {e}
                        /\ c \in Nat /\ c \in Units /\ Next(h, c) \in Nat
                        /\ Next(h, c) <= e /\ Next(h, c) \in Units
                        /\ Header(h, c).size >= 2
    BY <1>t, <1>1, TilesFacts
  <1>2. PICK g : g = [h EXCEPT !.pages = @ + 1]
    OBVIOUS
  <1>3. PICK f \in Nat : f = e + PageUnits
    BY <1>u, <1>c
  <1>4. /\ g \in Heaps /\ g.pages = h.pages + 1 /\ g.lists = h.lists
        /\ g.mem = h.mem /\ Epilogue(g) = f /\ f \in Units
    BY <1>1, <1>2, <1>3, <1>t, PageIsAdded
  <1>p. h.pages \in Nat /\ g.pages # 1
    <2>1. h.pages \in Nat
      BY <1>t, HeapTypes
    <2> QED
      BY <1>t, <1>4, <2>1
  <1>b. TRUE \in BOOLEAN /\ FALSE \in BOOLEAN
    OBVIOUS
  <1>5. PICK yes \in BOOLEAN, no \in BOOLEAN : yes = TRUE /\ no = FALSE
    BY <1>b
  <1>6. PICK we, wb : /\ we = set_header(0, 0, yes, no)
                      /\ wb = set_header(0, PageUnits, no, no)
    OBVIOUS
  <1>7. /\ we \in Word /\ we.size = 0 /\ we.alloc = yes
        /\ wb \in Word /\ wb.size = PageUnits /\ wb.alloc = no /\ wb.prev = no
        /\ wb.pay = 0
    BY <1>6, <1>c, HeaderFields
  <1>8. PICK m : m = SetHead(g, f, we)
    OBVIOUS
  <1>9. /\ OnlyMemory(g, m)
        /\ \A v \in Units : Footer(m, v) = Footer(g, v)
        /\ \A v \in Units : Header(m, v) = IF v = f THEN we ELSE Header(g, v)
        /\ \A v \in Units : v # f => m.mem[v] = g.mem[v]
    BY <1>4, <1>7, <1>8, HeadIsSet
  <1>10. m \in Heaps /\ m.pages = g.pages /\ m.lists = h.lists /\ Epilogue(m) = f
    BY <1>4, <1>9 DEF OnlyMemory, Epilogue, End
  <1>11. PICK q : q = SetHead(m, e, wb)
    OBVIOUS
  <1>12. /\ OnlyMemory(m, q)
         /\ \A v \in Units : Footer(q, v) = Footer(m, v)
         /\ \A v \in Units : Header(q, v) = IF v = e THEN wb ELSE Header(m, v)
         /\ \A v \in Units : v # e => q.mem[v] = m.mem[v]
    BY <1>7, <1>10, <1>11, <1>u, HeadIsSet
  <1>13. e # f /\ e < f
    BY <1>3, <1>c, <1>u
  <1>14. /\ q \in Heaps /\ q.pages = h.pages + 1 /\ q.lists = h.lists
         /\ Epilogue(q) = f
         /\ Header(q, e) = wb /\ Header(q, f) = we
         /\ \A v \in Units : Footer(q, v) = Footer(h, v)
         /\ \A v \in Units : v # e /\ v # f =>
              q.mem[v] = h.mem[v] /\ Header(q, v) = Header(h, v)
    <2>1. q \in Heaps /\ q.pages = h.pages + 1 /\ q.lists = h.lists /\ Epilogue(q) = f
      BY <1>4, <1>10, <1>12 DEF OnlyMemory, Epilogue, End
    <2>2. \A v \in Units : Footer(q, v) = Footer(h, v)
      BY <1>4, <1>9, <1>12 DEF Footer
    <2>3. \A v \in Units : v # e /\ v # f => q.mem[v] = h.mem[v]
      BY <1>4, <1>9, <1>12
    <2>4. Header(q, e) = wb /\ Header(q, f) = we
      BY <1>4, <1>9, <1>12, <1>13, <1>u
    <2> QED
      BY <2>1, <2>2, <2>3, <2>4 DEF Header
  <1>15. PICK B1 : B1 = B \cup {e}
    OBVIOUS
  <1>16. /\ Next(q, e) = f
         /\ \A c \in B : Next(q, c) = Next(h, c) /\ Header(q, c) = Header(h, c)
    <2>1. \A c \in B : Header(q, c) = Header(h, c)
      <3> TAKE c \in B
      <3>1. c \in Units /\ c # e /\ c # f
        BY <1>13, <1>u
      <3> QED
        BY <1>14, <3>1
    <2> QED
      BY <1>3, <1>7, <1>14, <2>1 DEF Next
  <1>17. Tiles(q, B1)
    <2>1. q.pages # 0
      BY <1>14, <1>p
    <2>2. B1 \subseteq 0 .. Epilogue(q) - 1 /\ 0 \in B1
      BY <1>13, <1>14, <1>15, <1>u
    <2>3. ASSUME NEW b \in B1
          PROVE  Header(q, b).size >= 2 /\ Next(q, b) \in B1 \cup {Epilogue(q)}
      <3>1. CASE b = e
        BY <1>7, <1>14, <1>16, <1>c, <3>1
      <3>2. CASE b \in B
        BY <1>15, <1>16, <1>u, <3>2
      <3> QED
        BY <1>15, <3>1, <3>2
    <2>4. ASSUME NEW b \in B1, NEW c \in B1, b < c
          PROVE  Next(q, b) <= c
      <3>1. b \in B
        BY <1>15, <1>u, <2>4
      <3>2. CASE c = e
        BY <1>16, <1>u, <3>1, <3>2
      <3>3. CASE c \in B
        <4>1. Next(h, b) <= c
          BY <1>t, <2>4, <3>1, <3>3, TilesFacts
        <4> QED
          BY <1>16, <3>1, <4>1
      <3> QED
        BY <1>15, <3>2, <3>3
    <2>5. Header(q, 0).alloc /\ Header(q, 0).size = 2 /\ Header(q, 0).pay = 0
      BY <1>t, <1>16, <1>u DEF Tiles
    <2>7. \A b \in B1 : HoldsOrFree(q, b)
      BY <1>t, <1>7, <1>14, <1>15, <1>16 DEF Tiles, HoldsOrFree
    <2>6. Header(q, Epilogue(q)).size = 0 /\ Header(q, Epilogue(q)).alloc
      BY <1>5, <1>7, <1>14
    <2> QED
      BY <1>14, <2>1, <2>2, <2>3, <2>4, <2>5, <2>6, <2>7 DEF Tiles
  <1>18. ~ Header(q, e).alloc /\ ~ Header(q, e).prev
    BY <1>5, <1>7, <1>14
  <1>19. FreeIn(q, B1) = F \cup {e} /\ UsedIn(q, B1) = V
    <2>1. \A c : c \in FreeIn(q, B1) <=> c \in F \cup {e}
      BY <1>t, <1>15, <1>16, <1>18 DEF FreeIn
    <2>2. \A c : c \in UsedIn(q, B1) <=> c \in V
      BY <1>t, <1>15, <1>16, <1>18, <1>u DEF UsedIn
    <2> QED
      BY <2>1, <2>2
  <1>20. PICK p \in B : /\ Next(h, p) = e
                        /\ \A c \in B : Next(h, c) = e => c = p
    <2>1. e \in B \cup {Epilogue(h)} /\ e # 0
      BY <1>1, <1>u
    <2>2. PICK p \in B : Next(h, p) = e
      BY <1>t, <2>1, PredecessorExists
    <2> QED
      BY <1>t, <2>2, TilesFacts
  <1>21. /\ Footer(q, e).size = Header(q, p).size
         /\ Footer(q, e).alloc = Header(q, p).alloc
    <2>1. Agrees(h, p)
      BY <1>t
    <2> QED
      BY <1>14, <1>16, <1>20, <1>u, <2>1 DEF Agrees
  <1>22. ~ Header(q, p).alloc => Agrees(q, p)
    <2> HAVE ~ Header(q, p).alloc
    <2>1. Next(q, p) = e
      BY <1>16, <1>20
    <2>2. Header(q, p).alloc \in BOOLEAN /\ Header(q, e).prev \in BOOLEAN
      BY <1>14, <1>u, WordTypes
    <2>3. Header(q, e).prev = Header(q, p).alloc
      BY <1>18, <2>2
    <2> QED
      BY <1>21, <2>1, <2>3 DEF Agrees
  <1>23. ASSUME NEW c \in B1, c # e, c # p
         PROVE  Agrees(q, c)
    <2>1. c \in B /\ Next(h, c) \in B
      BY <1>15, <1>20, <1>23, <1>u
    <2>2. Agrees(h, c)
      BY <1>t, <2>1
    <2>3. PICK n \in B : n = Next(h, c)
      BY <2>1
    <2>4. Footer(q, n) = Footer(h, n) /\ Header(q, n) = Header(h, n)
      BY <1>14, <1>16, <1>u, <2>3
    <2> QED
      BY <1>16, <2>1, <2>2, <2>3, <2>4 DEF Agrees
  <1>24. ASSUME NEW c \in F, c # p
         PROVE  Rests(q, c)
    <2>1. c \in B /\ Rests(h, c) /\ Next(h, c) # e
      BY <1>t, <1>20, <1>24
    <2>2. Header(q, c).size = Header(h, c).size /\ q.lists = h.lists
      BY <1>14, <1>16, <2>1
    <2> QED
      BY <1>1, <2>1, <2>2 DEF Rests
  <1>25. t = add_block(q, e)
    <2>1. g = set_prologue(g)
      BY <1>p DEF set_prologue
    <2>2. m = set_epilogue(g)
      BY <1>4, <1>5, <1>6, <1>8 DEF set_epilogue
    <2>3. m = get_more_memory(h)
      BY <1>2, <2>1, <2>2 DEF get_more_memory
    <2> QED
      BY <1>1, <1>t, <1>5, <1>6, <1>11, <2>3 DEF grow
  <1>26. PICK C : Tidy(t, C) /\ SameUse(q, B1, t, C, D)
    <2>1. PICK G : G = FreeIn(q, B1) \ {e}
      OBVIOUS
    <2>2. G = F
      BY <1>19, <1>t, <1>u, <2>1
    <2>3. /\ Lists(q.lists, G) /\ \A c \in G : c # p => Rests(q, c)
      BY <1>t, <1>14, <1>24, <2>2
    <2>4. /\ e \in B1 /\ p \in B1 /\ p # e /\ Next(q, e) = Epilogue(q) /\ Next(q, p) = e
      BY <1>14, <1>15, <1>16, <1>20, <1>u
    <2> QED
      BY <1>17, <1>18, <1>21, <1>22, <1>23, <1>25, <2>1, <2>3, <2>4, BlockIsAdded
  <1>27. Keeps(h, q, V, D)
    <2>1. \A c \in V : SameHead(h, q, c)
      BY <1>t, <1>16 DEF SameHead
    <2>2. ASSUME NEW c \in V, NEW u \in c + 1 .. Next(h, c) - 1
          PROVE  q.mem[u] = h.mem[u]
      <3>1. u \in Units /\ u \notin B \cup {Epilogue(h)}
        BY <1>t, TilesFacts
      <3>2. u \in Int /\ u < e
        BY <1>t, <1>u
      <3>3. u # e /\ u # f
        BY <1>13, <1>u, <3>2
      <3> QED
        BY <1>14, <3>1, <3>3
    <2>3. ASSUME NEW u \in D, ~ Header(h, u).alloc
          PROVE  ~ Header(q, u).alloc
      <3>1. u < e /\ u \in Units /\ u \in Nat
        BY <1>1, ConstantsAreNumbers
      <3>2. u # e /\ u # f
        BY <1>13, <1>u, <3>1
      <3> QED
        BY <1>14, <2>3, <3>1, <3>2
    <2> QED
      BY <2>1, <2>2, <2>3 DEF Keeps
  <1>28. Keeps(h, t, V, D)
    BY <1>19, <1>26, <1>27, KeepsIsTransitive DEF SameUse
  <1> QED
    BY <1>14, <1>19, <1>26, <1>28 DEF SameUse, V

-----------------------------------------------------------------------------
(* The search for a block.                                                 *)

(* The least element of a set of numbers that is not empty.                *)
LEMMA MinIsIn ==
  ASSUME NEW S \in SUBSET Nat, S # {}
  PROVE  Min(S) \in S
  <1> DEFINE R == OpToRel(LAMBDA x, y : x < y, Nat)
  <1>1. PICK n \in S : \A m \in S : ~ (<<m, n>> \in R)
    BY WFMin, NatLessThanWellFounded
  <1>2. \A m \in S : m < n => <<m, n>> \in R
    BY DEF OpToRel
  <1>3. \A m \in S : n <= m
    <2> TAKE m \in S
    <2>1. ~ (m < n) /\ m \in Nat /\ n \in Nat
      BY <1>1, <1>2
    <2> QED
      BY <2>1
  <1>4. Min(S) = (CHOOSE x \in S : \A y \in S : x <= y)
    BY DEF Min
  <1> QED
    BY <1>3, <1>4

(* What find_fit finds is a free block that is large enough.               *)
LEMMA FittingIsFree ==
  ASSUME NEW h \in Heaps, NEW F, Lists(h.lists, F), NEW total,
         NEW b, b = fitting(h, total), b # NoBlock
  PROVE  b \in F /\ Header(h, b).size >= total
  <1> DEFINE fits(j) == {k \in DOMAIN h.lists[j] :
                           /\ ~ Header(h, h.lists[j][k]).alloc
                           /\ Header(h, h.lists[j][k]).size >= total}
             found(i) == {j \in i .. NUM_FREE_LISTS - 1 : fits(j) # {}}
  <1>1. PICK i \in ListNumbers : i = find_allocation_index(total)
    BY IndexIsAList
  <1>2. b = find_fit(h, i, total)
    BY <1>1 DEF fitting
  <1>3. found(i) # {} /\ b = h.lists[Min(found(i))][Min(fits(Min(found(i))))]
    BY <1>2 DEF find_fit
  <1>4. PICK j : j = Min(found(i))
    OBVIOUS
  <1>5. j \in ListNumbers /\ fits(j) # {}
    <2>1. ListNumbers = 0 .. 9 /\ NUM_FREE_LISTS - 1 = 9
      BY ConstantsAreNumbers DEF NUM_FREE_LISTS
    <2>2. i \in 0 .. 9
      BY <2>1
    <2>3. \A k \in i .. 9 : k \in 0 .. 9 /\ k \in Nat
      BY <2>2
    <2>4. found(i) \subseteq i .. 9
      BY <2>1
    <2>5. found(i) \in SUBSET Nat
      BY <2>3, <2>4
    <2>6. j \in found(i)
      <3> HIDE DEF found
      <3> QED
        BY <1>3, <1>4, <2>5, MinIsIn
    <2>7. j \in i .. 9
      BY <2>4, <2>6
    <2> QED
      BY <2>1, <2>3, <2>6, <2>7
  <1>6. PICK s \in Seq(Units) : s = h.lists[j]
    BY <1>5 DEF Lists
  <1>7. PICK k \in fits(j) : k = Min(fits(j))
    <2>1. fits(j) \in SUBSET Nat
      <3>1. \A k \in DOMAIN s : k \in Nat
        OBVIOUS
      <3>2. fits(j) \subseteq DOMAIN s
        BY <1>6
      <3> QED
        BY <3>1, <3>2
    <2>2. Min(fits(j)) \in fits(j)
      <3> HIDE DEF fits
      <3> QED
        BY <1>5, <2>1, MinIsIn
    <2> QED
      BY <2>2
  <1>8. b = s[k] /\ k \in DOMAIN s /\ Header(h, b).size >= total
    BY <1>3, <1>4, <1>6, <1>7
  <1>9. b \in ToSet(h.lists[j])
    BY <1>6, <1>8 DEF ToSet
  <1> QED
    BY <1>5, <1>8, <1>9 DEF Lists

-----------------------------------------------------------------------------
(* The heap grows.                                                         *)

(* Between two calls: there is no page yet, or the heap is tidy.           *)
InOrder(h, B) == Tidy(h, B) \/ (B = {} /\ Started(h))

(* The blocks that the program has got.                                    *)
GivenOut(h, B) == UsedIn(h, B) \ {0}

(* They stay, and the heap may have become larger.                         *)
Grows(h, B, t, C, D) ==
  /\ InOrder(t, C)
  /\ GivenOut(t, C) = GivenOut(h, B)
  /\ Keeps(h, t, GivenOut(h, B), D)
  /\ End(h) <= End(t)

(* A heap that does not grow keeps everything.                             *)
LEMMA GrowsIsReflexive ==
  ASSUME NEW h, NEW B, InOrder(h, B), NEW D
  PROVE  Grows(h, B, h, B, D)
  <1>1. h \in Heaps
    BY DEF InOrder, Started, Tidy, Sound, Tiles
  <1>2. End(h) <= End(h)
    <2>1. End(h) \in Nat
      BY <1>1, HeapTypes, ConstantsAreNumbers
    <2> QED
      BY <2>1
  <1> QED
    BY <1>2, KeepsIsReflexive DEF Grows

(* A page that is added keeps the blocks in use and leaves the heap tidy.  *)
LEMMA GrownOnce ==
  ASSUME NEW h, NEW B, InOrder(h, B), NEW total,
         NEW D \in SUBSET Units, \A u \in D : u < Epilogue(h),
         NEW t, t = grow_to_fit(h, total)
  PROVE  \E C : Grows(h, B, t, C, D)
  <1>1. CASE t = h
    BY <1>1, GrowsIsReflexive
  <1>2. CASE t # h
    <2>1. t = grow(h) /\ h.pages < MaxPages
      BY <1>2 DEF grow_to_fit
    <2>2. h \in Heaps
      BY DEF InOrder, Started, Tidy, Sound, Tiles
    <2>3. \A g : g.pages = h.pages + 1 => End(h) <= End(g)
      <3> TAKE g
      <3> HAVE g.pages = h.pages + 1
      <3>1. PICK k : k = [h EXCEPT !.pages = @ + 1]
        OBVIOUS
      <3>2. /\ k.pages = h.pages + 1 /\ End(k) = End(h) + PageUnits /\ End(h) \in Nat
        BY <2>1, <2>2, <3>1, PageIsAdded
      <3>3. End(g) = End(k)
        BY <3>2 DEF End
      <3> QED
        BY <3>2, <3>3, ConstantsAreNumbers
    <2>4. CASE Tidy(h, B)
      <3>1. PICK C : /\ Tidy(t, C) /\ t.pages = h.pages + 1
                     /\ UsedIn(t, C) = UsedIn(h, B) /\ Keeps(h, t, UsedIn(h, B), D)
        BY <2>1, <2>4, NextPageIsAdded
      <3>2. GivenOut(t, C) = GivenOut(h, B) /\ Keeps(h, t, GivenOut(h, B), D)
        BY <3>1 DEF GivenOut, Keeps
      <3> QED
        BY <2>3, <3>1, <3>2 DEF Grows, InOrder
    <2>5. CASE B = {} /\ Started(h)
      <3>1. PICK C : Tidy(t, C) /\ t.pages = 1 /\ UsedIn(t, C) = {0}
        BY <2>1, <2>5, FirstPageIsAdded
      <3>2. h.pages = 0 /\ t.pages = h.pages + 1
        BY <2>5, <3>1 DEF Started
      <3>3. GivenOut(t, C) = {} /\ GivenOut(h, B) = {}
        BY <2>5, <3>1 DEF GivenOut, UsedIn
      <3>4. D = {}
        <4>1. Epilogue(h) < 0 /\ Epilogue(h) \in Int
          <5>1. \A n \in Nat : 0 * n = 0
            OBVIOUS
          <5>2. End(h) = 0
            BY <3>2, <5>1, ConstantsAreNumbers DEF End
          <5> QED
            BY <5>2 DEF Epilogue
        <4>2. \A u \in D : u \in Nat /\ u < Epilogue(h)
          BY ConstantsAreNumbers
        <4> QED
          BY <4>1, <4>2
      <3>5. Keeps(h, t, GivenOut(h, B), D)
        BY <3>3, <3>4 DEF Keeps
      <3> QED
        BY <2>3, <3>1, <3>2, <3>3, <3>5 DEF Grows, InOrder
    <2> QED
      BY <2>4, <2>5 DEF InOrder
  <1> QED
    BY <1>1, <1>2

(* A heap that grows twice grows.                                          *)
LEMMA GrowsIsTransitive ==
  ASSUME NEW h, NEW B, InOrder(h, B), NEW D, NEW t, NEW C, Grows(h, B, t, C, D),
         NEW r, NEW E, Grows(t, C, r, E, D)
  PROVE  Grows(h, B, r, E, D)
  <1>1. Keeps(h, r, GivenOut(h, B), D)
    BY KeepsIsTransitive DEF Grows
  <1>2. h \in Heaps /\ t \in Heaps /\ r \in Heaps
    BY DEF Grows, InOrder, Started, Tidy, Sound, Tiles
  <1>3. End(h) \in Nat /\ End(t) \in Nat /\ End(r) \in Nat
    BY <1>2, HeapTypes, ConstantsAreNumbers
  <1>4. End(h) <= End(t) /\ End(t) <= End(r)
    BY DEF Grows
  <1> QED
    BY <1>1, <1>3, <1>4 DEF Grows

(* The heap after each round of the loop, which exists for any number.     *)
Rounds(f, h, total, N) ==
  f = [n \in 0 .. N |-> IF n = 0 THEN h ELSE grow_to_fit(f[n - 1], total)]

(* The rounds of grown are those of a function.                            *)
LEMMA RoundsExist ==
  ASSUME NEW h, NEW total
  PROVE  \A N \in Nat : \E f : Rounds(f, h, total, N)
  <1> DEFINE Is(f, N) == f = [n \in 0 .. N |->
                           IF n = 0 THEN h ELSE grow_to_fit(f[n - 1], total)]
             S == {N \in Nat : ~ \E f : Is(f, N)}
             R == OpToRel(LAMBDA x, y : x < y, Nat)
  <1> SUFFICES ASSUME S # {}
               PROVE  FALSE
    BY DEF Rounds
  <1>1. PICK N \in S : \A m \in S : ~ (m < N)
    <2>1. PICK N \in S : \A m \in S : ~ (<<m, N>> \in R)
      <3>1. S \subseteq Nat
        OBVIOUS
      <3> HIDE DEF S
      <3> QED
        BY <3>1, WFMin, NatLessThanWellFounded
    <2>2. \A m \in S : m < N => <<m, N>> \in R
      BY DEF OpToRel
    <2> QED
      BY <2>1, <2>2
  <1>2. CASE N = 0
    <2> DEFINE f == [n \in 0 .. 0 |-> h]
    <2>1. \A n \in 0 .. 0 : n = 0
      OBVIOUS
    <2>2. f = [n \in 0 .. 0 |-> IF n = 0 THEN h ELSE grow_to_fit(f[n - 1], total)]
      BY <2>1
    <2>3. Is(f, N)
      BY <1>2, <2>2
    <2> QED
      BY <2>3
  <1>3. CASE N # 0
    <2>1. PICK M \in Nat : N = M + 1
      <3>1. N - 1 \in Nat /\ N = (N - 1) + 1
        BY <1>3
      <3> QED
        BY <3>1
    <2>2. PICK g : Is(g, M)
      BY <1>1, <2>1
    <2>3. \A n \in 0 .. M : g[n] = IF n = 0 THEN h ELSE grow_to_fit(g[n - 1], total)
      BY <2>2
    <2> DEFINE f == [n \in 0 .. N |-> IF n <= M THEN g[n]
                                      ELSE grow_to_fit(g[M], total)]
    <2>4. \A n \in 0 .. N : f[n] = IF n <= M THEN g[n] ELSE grow_to_fit(g[M], total)
      OBVIOUS
    <2>5. f = [n \in 0 .. N |-> f[n]]
      OBVIOUS
    <2> HIDE DEF f, Is
    <2>6. ASSUME NEW n \in 0 .. N
          PROVE  f[n] = IF n = 0 THEN h ELSE grow_to_fit(f[n - 1], total)
      <3>1. CASE n = 0
        BY <2>1, <2>3, <2>4, <3>1
      <3>2. CASE n # 0 /\ n <= M
        <4>1. n \in 0 .. M /\ n - 1 \in 0 .. N /\ n - 1 <= M
          BY <2>1, <3>2
        <4> QED
          BY <2>3, <2>4, <3>2, <4>1
      <3>3. CASE n # 0 /\ ~ (n <= M)
        <4>1. n - 1 = M /\ n - 1 \in 0 .. N /\ n - 1 <= M
          BY <2>1, <3>3
        <4> QED
          BY <2>4, <3>3, <4>1
      <3> QED
        BY <3>1, <3>2, <3>3
    <2>7. f = [n \in 0 .. N |-> IF n = 0 THEN h ELSE grow_to_fit(f[n - 1], total)]
      BY <2>5, <2>6
    <2>8. Is(f, N)
      BY <2>7 DEF Is
    <2> QED
      BY <2>8
  <1> QED
    BY <1>2, <1>3

(* One more round of grown.                                                *)
LEMMA RoundIsDone ==
  ASSUME NEW h, NEW B, InOrder(h, B), NEW total,
         NEW D \in SUBSET Units, \A u \in D : u < Epilogue(h),
         NEW g, NEW E, Grows(h, B, g, E, D),
         NEW t, t = grow_to_fit(g, total)
  PROVE  \E C : Grows(h, B, t, C, D)
  <1>1. InOrder(g, E) /\ End(h) <= End(g)
    BY DEF Grows
  <1>2. h \in Heaps /\ g \in Heaps
    BY <1>1 DEF InOrder, Started, Tidy, Sound, Tiles
  <1>3. End(h) \in Nat /\ End(g) \in Nat
    BY <1>2, HeapTypes, ConstantsAreNumbers
  <1>4. \A u \in D : u < Epilogue(g)
    <2> TAKE u \in D
    <2>1. u \in Nat /\ u < Epilogue(h)
      BY ConstantsAreNumbers
    <2> QED
      BY <1>1, <1>3, <2>1 DEF Epilogue
  <1>5. PICK C : Grows(g, E, t, C, D)
    BY <1>1, <1>4, GrownOnce
  <1> QED
    BY <1>5, GrowsIsTransitive

(* However often the heap grows, it is in order and keeps what is given    *)
(* out.                                                                    *)
LEMMA HeapIsGrown ==
  ASSUME NEW h, NEW B, InOrder(h, B), NEW total,
         NEW D \in SUBSET Units, \A u \in D : u < Epilogue(h),
         NEW t, t = grown(h, total)
  PROVE  \E C : Grows(h, B, t, C, D)
  <1> DEFINE Is(f) == f = [n \in 0 .. MaxPages |->
                        IF n = 0 THEN h ELSE grow_to_fit(f[n - 1], total)]
             R == OpToRel(LAMBDA x, y : x < y, Nat)
  <1>1. PICK N \in Nat : N = MaxPages
    BY ConstantsAreNumbers
  <1>2. PICK f : f = (CHOOSE g : Is(g))
    OBVIOUS
  <1>3. Is(f)
    <2>1. \E g : Is(g)
      <3>1. PICK g : Rounds(g, h, total, N)
        BY RoundsExist
      <3>2. Is(g)
        BY <1>1, <3>1 DEF Rounds
      <3> HIDE DEF Is
      <3> QED
        BY <3>2
    <2> HIDE DEF Is
    <2> QED
      BY <1>2, <2>1
  <1>4. t = f[N]
    BY <1>1, <1>2 DEF grown
  <1>5. \A n \in 0 .. N : f[n] = IF n = 0 THEN h ELSE grow_to_fit(f[n - 1], total)
    BY <1>1, <1>3
  <1> HIDE DEF Is
  <1> DEFINE S == {n \in 0 .. N : ~ \E C : Grows(h, B, f[n], C, D)}
  <1> SUFFICES ASSUME S # {}
               PROVE  FALSE
    <2>1. N \in 0 .. N
      OBVIOUS
    <2> QED
      BY <1>4, <2>1
  <1>6. PICK n \in S : \A m \in S : ~ (m < n)
    <2>1. PICK n \in S : \A m \in S : ~ (<<m, n>> \in R)
      <3>1. S \subseteq Nat
        OBVIOUS
      <3> HIDE DEF S
      <3> QED
        BY <3>1, WFMin, NatLessThanWellFounded
    <2>2. \A m \in S : m < n => <<m, n>> \in R
      BY DEF OpToRel
    <2> QED
      BY <2>1, <2>2
  <1>7. n \in 0 .. N /\ ~ \E C : Grows(h, B, f[n], C, D)
    OBVIOUS
  <1>8. CASE n = 0
    <2>1. f[n] = h
      BY <1>5, <1>7, <1>8
    <2> QED
      BY <1>7, <2>1, GrowsIsReflexive
  <1>9. CASE n # 0
    <2>1. PICK m \in Nat : m \in 0 .. N /\ m < n /\ m = n - 1
      <3>1. n - 1 \in Nat /\ n - 1 \in 0 .. N /\ n - 1 < n
        BY <1>7, <1>9
      <3> QED
        BY <3>1
    <2>2. PICK E : Grows(h, B, f[m], E, D)
      BY <1>6, <2>1
    <2>3. f[n] = grow_to_fit(f[m], total)
      BY <1>5, <1>7, <1>9, <2>1
    <2> QED
      BY <1>7, <2>2, <2>3, RoundIsDone
  <1> QED
    BY <1>8, <1>9

-----------------------------------------------------------------------------
(* Multiples.                                                              *)

Multiple(k, x) == \E m \in Int : x = m * k

(* Zero is a multiple of every number.                                     *)
LEMMA ZeroIsMultiple ==
  ASSUME NEW k \in Nat
  PROVE  Multiple(k, 0)
  <1>1. 0 = 0 * k
    OBVIOUS
  <1> QED
    BY <1>1 DEF Multiple

(* Sums and differences of multiples are multiples.                        *)
LEMMA SumIsMultiple ==
  ASSUME NEW k \in Nat, NEW x, NEW y, Multiple(k, x), Multiple(k, y)
  PROVE  Multiple(k, x + y) /\ Multiple(k, x - y)
  <1>1. PICK m \in Int, n \in Int : x = m * k /\ y = n * k
    BY DEF Multiple
  <1>2. \A i, j, l \in Int : i * l + j * l = (i + j) * l /\ i * l - j * l = (i - j) * l
    OBVIOUS
  <1>3. x + y = (m + n) * k /\ x - y = (m - n) * k
    <2>1. k \in Int
      OBVIOUS
    <2> QED
      BY <1>1, <1>2, <2>1, Zenon
  <1>4. PICK i \in Int, j \in Int : i = m + n /\ j = m - n
    OBVIOUS
  <1>5. x + y = i * k /\ x - y = j * k
    BY <1>3, <1>4
  <1> QED
    BY <1>5, Zenon DEF Multiple

(* One unit is no multiple of two or more.                                 *)
LEMMA OneIsNoMultiple ==
  ASSUME NEW k \in Nat, k >= 2
  PROVE  ~ Multiple(k, 1)
  <1> SUFFICES ASSUME NEW m \in Int, 1 = m * k
               PROVE  FALSE
    BY DEF Multiple
  <1>1. CASE m <= 0
    <2>1. \A i, l \in Int : i <= 0 /\ l >= 0 => i * l <= 0
      OBVIOUS
    <2>2. k \in Int /\ k >= 0
      OBVIOUS
    <2>3. m * k <= 0
      BY <1>1, <2>1, <2>2, Zenon
    <2> QED
      BY <2>3
  <1>2. CASE m >= 1
    <2>1. \A i, l \in Int : i >= 1 /\ l >= 0 => i * l >= l
      OBVIOUS
    <2>2. k \in Int /\ k >= 0
      OBVIOUS
    <2>3. m * k >= k
      BY <1>2, <2>1, <2>2, Zenon
    <2> QED
      BY <2>3
  <1> QED
    BY <1>1, <1>2

(* Every number is a multiple of 1.                                        *)
LEMMA EveryIsMultiple ==
  ASSUME NEW x \in Int
  PROVE  Multiple(1, x)
  <1>1. x = x * 1
    OBVIOUS
  <1> QED
    BY <1>1 DEF Multiple

(* Requests are not zero.                                                  *)
LEMMA NextSizes ==
  ASSUME NEW size \in Sizes
  PROVE  size \in Nat /\ size >= 1
  <1>1. PICK N \in Nat : N = MaxPages * PageUnits
    BY ConstantsAreNumbers
  <1>2. Sizes \subseteq 1 .. N * 16
    BY <1>1, SfmmAssumption
  <1>3. size \in 1 .. N * 16
    BY <1>2
  <1> QED
    BY <1>3

(* The size of every block that is requested is a multiple of k, and no    *)
(* page ends where a block of one unit would be left.                      *)
Regular(k) ==
  /\ k \in Nat /\ k >= 2
  /\ \A size \in Sizes : Multiple(k, calculate_block_size(size))
  /\ \A n \in 1 .. MaxPages : ~ Multiple(k, n * PageUnits - 4)

(* One such number, or 1, of which everything is a multiple.               *)
Grain == IF \E k : Regular(k) THEN CHOOSE k : Regular(k) ELSE 1

(* The sizes requested are multiples of the grain.                         *)
LEMMA GrainFacts ==
  /\ Grain \in Nat
  /\ \A size \in Sizes : Multiple(Grain, calculate_block_size(size))
  /\ (\E k : Regular(k)) => Regular(Grain)
  <1>1. CASE \E k : Regular(k)
    <2>1. Regular(Grain)
      BY <1>1 DEF Grain
    <2> QED
      BY <2>1 DEF Regular
  <1>2. CASE ~ \E k : Regular(k)
    <2>1. Grain = 1
      BY <1>2 DEF Grain
    <2>2. ASSUME NEW size \in Sizes
          PROVE  Multiple(1, calculate_block_size(size))
      <3>1. size \in Nat
        BY NextSizes
      <3>2. calculate_block_size(size) \in Int
        BY <3>1 DEF calculate_block_size
      <3> QED
        BY <3>2, EveryIsMultiple
    <2> QED
      BY <1>2, <2>1, <2>2
  <1> QED
    BY <1>1, <1>2

(* Where a block begins, from the end of the prologue on, and its size.    *)
Placed(b, size) == Multiple(Grain, b - 2) /\ Multiple(Grain, size)

-----------------------------------------------------------------------------
(* sf_malloc.                                                              *)

(* calculate_block_size has room for the payload and 16 bytes, and less    *)
(* than 32 bytes more than are needed.                                     *)
LEMMA BlockSizes ==
  ASSUME NEW size \in Nat
  PROVE  /\ calculate_block_size(size) \in Nat
         /\ calculate_block_size(size) >= 2
         /\ size + 16 <= 16 * calculate_block_size(size)
         /\ 16 * calculate_block_size(size) <= IF size < 16 THEN 32 ELSE size + 31
  BY DEF calculate_block_size

(* Block b of that size has been got.                                      *)
Got(h, B, t, C, b, size, total, D) ==
  /\ Tidy(t, C)
  /\ GivenOut(t, C) = GivenOut(h, B) \cup {b}
  /\ b \notin GivenOut(h, B)
  /\ b = 2 \/ \E p \in GivenOut(h, B) : b = Next(h, p)
  /\ Header(t, b).pay = size /\ Header(t, b).size = total
  /\ Keeps(h, t, GivenOut(h, B), D \ {b})
  /\ End(h) <= End(t)

(* Of the block that is found nothing is left that is too small.           *)
Cuts(h, total) ==
  fitting(grown(h, total), total) # NoBlock =>
    Header(grown(h, total), fitting(grown(h, total), total)).size - total # 1

(* No two free blocks are neighbours, so a free one is behind one in use.  *)
LEMMA FreeIsBehindUsed ==
  ASSUME NEW h, NEW B, Tidy(h, B), NEW b \in FreeIn(h, B)
  PROVE  \E p \in UsedIn(h, B) : Next(h, p) = b
  <1>1. Tiles(h, B) /\ b \in B /\ b # 0
    BY DEF Tidy, Sound, FreeIn, Tiles
  <1>2. PICK p \in B : Next(h, p) = b
    BY <1>1, PredecessorExists
  <1>3. p \notin FreeIn(h, B)
    BY <1>2 DEF Tidy
  <1> QED
    BY <1>2, <1>3 DEF FreeIn, UsedIn

(* sf_malloc returns a block that was not in use, of the size requested,   *)
(* or none; blocks in use stay as they are.                                *)
LEMMA BlockIsGot ==
  ASSUME NEW h, NEW B, InOrder(h, B), NEW size \in Nat,
         NEW total, total = calculate_block_size(size), Cuts(h, total),
         NEW D \in SUBSET Units, \A u \in D : u < Epilogue(h),
         NEW b, NEW t, sf_malloc(h, size) = [block |-> b, heap |-> t]
  PROVE  \/ b = NoBlock /\ \E C : Grows(h, B, t, C, D)
         \/ b # NoBlock /\ \E C : Got(h, B, t, C, b, size, total, D)
  <1>0. total \in Nat /\ total >= 2
    BY BlockSizes
  <1>1. PICK g : g = grown(h, total)
    OBVIOUS
  <1>2. PICK E : Grows(h, B, g, E, D)
    BY <1>1, HeapIsGrown
  <1>3. PICK a : a = fitting(g, total)
    OBVIOUS
  <1>4. PICK got : got = take_fitting(g, a, size, total)
    OBVIOUS
  <1>5. sf_malloc(h, size) = find_next_free_block(got)
    BY <1>1, <1>3, <1>4 DEF sf_malloc, get_free_block, get_from
  <1>6. CASE a = NoBlock
    <2>1. got = [block |-> NoBlock, heap |-> g]
      BY <1>4, <1>6 DEF take_fitting
    <2>2. got = [block |-> b, heap |-> t]
      BY <1>5, <2>1 DEF find_next_free_block
    <2>3. b = NoBlock /\ t = g
      BY <2>1, <2>2
    <2> QED
      BY <1>2, <2>3
  <1>7. CASE a # NoBlock
    <2>1. PICK k : k = take_block(g, a, size, total)
      OBVIOUS
    <2>2. got = [block |-> a, heap |-> k]
      BY <1>4, <1>7, <2>1 DEF take_fitting
    <2>3. g \in Heaps
      BY <1>2 DEF Grows, InOrder, Started, Tidy, Sound, Tiles
    <2>4. Tidy(g, E) /\ a \in FreeIn(g, E) /\ Header(g, a).size >= total
      <3>1. CASE Tidy(g, E)
        <4>1. Lists(g.lists, FreeIn(g, E))
          BY <3>1 DEF Tidy, Sound
        <4> QED
          BY <1>3, <1>7, <2>3, <3>1, <4>1, FittingIsFree
      <3>2. CASE Started(g)
        <4>1. PICK F : F = {} /\ Lists(g.lists, F)
          BY <3>2 DEF Started
        <4>2. a \in F
          BY <1>3, <1>7, <2>3, <4>1, FittingIsFree
        <4> QED
          BY <4>1, <4>2
      <3> QED
        BY <1>2, <3>1, <3>2 DEF Grows, InOrder
    <2>5. Header(g, a).size - total # 1
      BY <1>1, <1>3, <1>7 DEF Cuts
    <2>6. PICK D1 \in SUBSET Units : D1 = D \ {a}
      OBVIOUS
    <2>7. PICK C : Taken(g, E, k, C, a, size, total, D1)
      BY <1>0, <2>1, <2>4, <2>5, <2>6, BlockIsTaken
    <2>8. Tidy(k, C) /\ k.pages = g.pages /\ UsedIn(k, C) = UsedIn(g, E) \cup {a}
      BY <2>7 DEF Taken
    <2>9. PICK z \in C : z = find_last_in_heap(k) /\ Next(k, z) = Epilogue(k)
      <3>1. Tiles(k, C)
        BY <2>8 DEF Tidy, Sound
      <3> QED
        BY <3>1, LastIsFound
    <2>10. PICK r : r = place_in_wilderness(k, z)
      OBVIOUS
    <2>11. Tidy(r, C) /\ SameUse(k, C, r, C, D1)
      BY <2>6, <2>8, <2>9, <2>10, PlacedInWilderness
    <2>12. b = a /\ t = r
      <3>1. got.block # NoBlock /\ got.heap = k
        BY <1>7, <2>2
      <3>2. find_next_free_block(got) = [got EXCEPT !.heap = r]
        BY <2>9, <2>10, <3>1 DEF find_next_free_block
      <3>3. [got EXCEPT !.heap = r] = [block |-> a, heap |-> r]
        BY <2>2
      <3>4. [block |-> b, heap |-> t] = [block |-> a, heap |-> r]
        BY <1>5, <3>2, <3>3
      <3> QED
        BY <3>4
    <2>13. a # 0
      <3>1. Header(g, 0).alloc
        BY <2>4 DEF Tidy, Sound, Tiles
      <3> QED
        BY <2>4, <3>1 DEF FreeIn
    <2>14. a \notin GivenOut(h, B) /\ GivenOut(t, C) = GivenOut(h, B) \cup {a}
      <3>1. GivenOut(g, E) = GivenOut(h, B)
        BY <1>2 DEF Grows
      <3>2. a \notin UsedIn(g, E)
        BY <2>4 DEF UsedIn, FreeIn
      <3>3. UsedIn(t, C) = UsedIn(g, E) \cup {a}
        BY <2>8, <2>11, <2>12 DEF SameUse
      <3> QED
        BY <2>13, <3>1, <3>2, <3>3 DEF GivenOut
    <2>15. Header(t, a).pay = size /\ Header(t, a).size = total
      <3>1. a \in UsedIn(k, C)
        BY <2>8
      <3>2. SameHead(k, t, a)
        BY <2>11, <2>12, <3>1 DEF SameUse, Keeps
      <3> QED
        BY <2>7, <3>2 DEF Taken, SameHead
    <2>16. Keeps(h, t, GivenOut(h, B), D1)
      <3>1. Keeps(h, g, GivenOut(h, B), D1)
        BY <1>2, <2>6 DEF Grows, Keeps
      <3>2. GivenOut(h, B) \subseteq UsedIn(g, E)
        BY <1>2 DEF Grows, GivenOut
      <3>3. Keeps(g, k, GivenOut(h, B), D1)
        BY <2>7, <3>2 DEF Taken, Keeps
      <3>4. Keeps(k, t, GivenOut(h, B), D1)
        BY <2>8, <2>11, <2>12, <3>2 DEF SameUse, Keeps
      <3> QED
        BY <3>1, <3>3, <3>4, KeepsIsTransitive
    <2>17. End(h) <= End(t)
      <3>1. End(t) = End(g)
        BY <2>8, <2>11, <2>12 DEF SameUse, End
      <3> QED
        BY <1>2, <3>1 DEF Grows
    <2>18. b = 2 \/ \E p \in GivenOut(h, B) : b = Next(h, p)
      <3>1. PICK p \in UsedIn(g, E) : Next(g, p) = a
        BY <2>4, FreeIsBehindUsed
      <3>2. CASE p = 0
        <4>1. Header(g, 0).size = 2
          BY <2>4 DEF Tidy, Sound, Tiles
        <4> QED
          BY <2>12, <3>1, <3>2, <4>1 DEF Next
      <3>3. CASE p # 0
        <4>1. p \in GivenOut(h, B)
          BY <1>2, <3>1, <3>3 DEF Grows, GivenOut
        <4>2. Next(g, p) = Next(h, p)
          BY <1>2, <4>1 DEF Grows, Keeps, SameHead, Next
        <4> QED
          BY <2>12, <3>1, <4>1, <4>2
      <3> QED
        BY <3>2, <3>3
    <2>19. Got(h, B, t, C, b, size, total, D)
      BY <2>6, <2>11, <2>12, <2>14, <2>15, <2>16, <2>17, <2>18 DEF Got
    <2> QED
      BY <1>7, <2>12, <2>19
  <1> QED
    BY <1>6, <1>7

(* sf_malloc returns a block and a heap.                                   *)
LEMMA MallocReturnsBoth ==
  ASSUME NEW h, NEW size, NEW got, got = sf_malloc(h, size)
  PROVE  got = [block |-> got.block, heap |-> got.heap]
  <1>1. \A g, a, total : \E k, b :
          take_fitting(g, a, size, total) = [block |-> b, heap |-> k]
    BY DEF take_fitting
  <1>2. PICK x : x = get_free_block(h, size, calculate_block_size(size))
    OBVIOUS
  <1>3. PICK k, b : x = [block |-> b, heap |-> k]
    BY <1>1, <1>2 DEF get_free_block, get_from
  <1>4. got = find_next_free_block(x)
    BY <1>2 DEF sf_malloc
  <1>5. CASE x.block = NoBlock
    BY <1>3, <1>4, <1>5 DEF find_next_free_block
  <1>6. CASE x.block # NoBlock
    <2>1. PICK r : r = place_in_wilderness(x.heap, find_last_in_heap(x.heap))
      OBVIOUS
    <2>2. got = [x EXCEPT !.heap = r]
      BY <1>4, <1>6, <2>1 DEF find_next_free_block
    <2>3. got = [block |-> b, heap |-> r]
      BY <1>3, <2>2
    <2> QED
      BY <2>3
  <1> QED
    BY <1>5, <1>6

-----------------------------------------------------------------------------
(* What the program writes.                                                *)

(* Writing inside a block that is allocated changes nothing else.          *)
WrittenIn(h, C, t, p, D) ==
  /\ Tidy(t, C)
  /\ GivenOut(t, C) = GivenOut(h, C)
  /\ End(t) = End(h) /\ Epilogue(t) = Epilogue(h)
  /\ Keeps(h, t, GivenOut(h, C) \ {p}, D)
  /\ SameHead(h, t, p)

(* What the program writes to a block stays inside it.                     *)
LEMMA PayloadIsWritten ==
  ASSUME NEW h, NEW C, Tidy(h, C), NEW p \in UsedIn(h, C),
         NEW t \in Heaps, t.pages = h.pages, t.lists = h.lists,
         NEW S, \A v \in S : v \in p + 1 .. Next(h, p) - 1,
         \A v \in Units : v \notin S => t.mem[v] = h.mem[v],
         NEW D \in SUBSET Units, \A u \in D : u \notin p .. Next(h, p) - 1
  PROVE  WrittenIn(h, C, t, p, D)
  <1>t. /\ Tiles(h, C) /\ Lists(h.lists, FreeIn(h, C)) /\ \A c \in C : Agrees(h, c)
        /\ p \in C
        /\ \A c \in FreeIn(h, C) : Rests(h, c) /\ Next(h, c) \notin FreeIn(h, C)
    BY DEF Tidy, Sound, UsedIn
  <1>1. PICK e : e = Epilogue(h)
    OBVIOUS
  <1>u. /\ C \cup {e} \subseteq Units
        /\ \A c \in C : /\ c \in Nat /\ c \in Units
                        /\ Next(h, c) \in Nat /\ Next(h, c) \in C \cup {e}
        /\ 0 \in C
    BY <1>t, <1>1, TilesFacts
  <1>2. Epilogue(t) = e /\ End(t) = End(h)
    BY <1>1 DEF Epilogue, End
  <1>3. \A v \in C \cup {e} : v \notin S
    <2>1. \A v \in p + 1 .. Next(h, p) - 1 : v \notin C \cup {Epilogue(h)}
      BY <1>t, TilesFacts
    <2> QED
      BY <1>1, <2>1
  <1>4. \A v \in C \cup {e} : Header(t, v) = Header(h, v) /\ Footer(t, v) = Footer(h, v)
    BY <1>3, <1>u DEF Header, Footer
  <1>5. \A c \in C : Next(t, c) = Next(h, c)
    BY <1>4 DEF Next
  <1>v. \A c \in C : HoldsOrFree(t, c)
    BY <1>t, <1>4 DEF Tiles, HoldsOrFree
  <1>6. Tiles(t, C)
    BY <1>t, <1>1, <1>2, <1>4, <1>5, <1>v DEF Tiles
  <1>7. \A c \in C : Agrees(t, c)
    BY <1>t, <1>4, <1>5, <1>u DEF Agrees
  <1>8. FreeIn(t, C) = FreeIn(h, C) /\ UsedIn(t, C) = UsedIn(h, C)
    BY <1>4 DEF FreeIn, UsedIn
  <1>9. Tidy(t, C)
    <2>1. Sound(t, C)
      BY <1>t, <1>6, <1>7, <1>8 DEF Sound
    <2>2. ASSUME NEW c \in FreeIn(h, C)
          PROVE  Rests(t, c) /\ Next(t, c) \notin FreeIn(h, C)
      <3>1. c \in C /\ Rests(h, c) /\ Next(h, c) \notin FreeIn(h, C)
        BY <1>t DEF FreeIn
      <3> QED
        BY <1>1, <1>2, <1>4, <1>5, <3>1 DEF Rests
    <2> QED
      BY <1>8, <2>1, <2>2 DEF Tidy
  <1>10. ASSUME NEW c \in C, c # p, NEW u \in c + 1 .. Next(h, c) - 1
         PROVE  t.mem[u] = h.mem[u]
    <2>1. u \in Units /\ u \in Int /\ c < u /\ u < Next(h, c)
      BY <1>t, <1>u, TilesFacts
    <2>2. Next(h, c) <= p \/ Next(h, p) <= c
      <3>1. c < p \/ p < c
        BY <1>10, <1>t, <1>u
      <3> QED
        BY <1>t, <3>1, TilesFacts
    <2>3. u \notin p + 1 .. Next(h, p) - 1
      BY <1>t, <1>u, <2>1, <2>2
    <2> QED
      BY <2>1, <2>3
  <1>11. ASSUME NEW u \in D, ~ Header(h, u).alloc
         PROVE  ~ Header(t, u).alloc
    <2>1. u \notin S
      <3>1. p \in Nat /\ Next(h, p) \in Nat
        BY <1>t, <1>u
      <3>2. \A v \in p + 1 .. Next(h, p) - 1 : v \in p .. Next(h, p) - 1
        BY <3>1
      <3> QED
        BY <3>2
    <2> QED
      BY <1>11, <2>1 DEF Header
  <1>12. Keeps(h, t, GivenOut(h, C) \ {p}, D)
    <2>1. \A c \in GivenOut(h, C) \ {p} : c \in C /\ c # p
      BY DEF GivenOut, UsedIn
    <2>2. \A c \in GivenOut(h, C) \ {p} : SameHead(h, t, c)
      BY <1>4, <2>1 DEF SameHead
    <2> QED
      BY <1>10, <1>11, <2>1, <2>2 DEF Keeps
  <1>13. SameHead(h, t, p)
    BY <1>t, <1>4 DEF SameHead
  <1> QED
    BY <1>1, <1>2, <1>8, <1>9, <1>12, <1>13 DEF WrittenIn, GivenOut

(* Fill writes the payload and nothing else.                               *)
LEMMA FillFills ==
  ASSUME NEW h \in Heaps, NEW b, NEW n, NEW w \in Word, NEW t, t = Fill(h, b, n, w)
  PROVE  /\ OnlyMemory(h, t)
         /\ \A u \in Units : u \notin b + 1 .. b + n => t.mem[u] = h.mem[u]
         /\ \A u \in Units : u \in b + 1 .. b + n =>
              Header(t, u) = w /\ Footer(t, u) = w
  <1>1. PICK M : M = [u \in Units |-> IF u \in b + 1 .. b + n
                                     THEN [foot |-> w, head |-> w] ELSE h.mem[u]]
    OBVIOUS
  <1>2. t = [h EXCEPT !.mem = M]
    BY <1>1 DEF Fill
  <1>3. h.mem \in [Units -> Cell]
    BY DEF Heaps, Cell
  <1>4. M \in [Units -> Cell]
    BY <1>1, <1>3 DEF Cell
  <1>5. t \in Heaps /\ t.pages = h.pages /\ t.lists = h.lists /\ t.mem = M
    BY <1>2, <1>4 DEF Heaps, Cell
  <1>6. \A u \in Units : u \notin b + 1 .. b + n => t.mem[u] = h.mem[u]
    BY <1>1, <1>5
  <1>7. \A u \in Units : u \in b + 1 .. b + n => t.mem[u] = [foot |-> w, head |-> w]
    BY <1>1, <1>5
  <1> QED
    BY <1>5, <1>6, <1>7 DEF OnlyMemory, Header, Footer

(* Copy writes units of the new block, with what the old one holds.        *)
LEMMA CopyCopies ==
  ASSUME NEW h \in Heaps, NEW from, NEW to, NEW n, NEW w \in Word,
         NEW t, t = Copy(h, from, to, n, w)
  PROVE  /\ OnlyMemory(h, t)
         /\ \A u \in Units : u \notin to + 1 .. to + n => t.mem[u] = h.mem[u]
         /\ \A u \in Units : u \in to + 1 .. to + n /\ u - to + from \in Units =>
              t.mem[u] = h.mem[u - to + from]
  <1>1. PICK M : M = [u \in Units |->
                        IF u \notin to + 1 .. to + n THEN h.mem[u]
                        ELSE IF u - to + from \in Units THEN h.mem[u - to + from]
                        ELSE [foot |-> w, head |-> w]]
    OBVIOUS
  <1>2. t = [h EXCEPT !.mem = M]
    BY <1>1 DEF Copy
  <1>3. h.mem \in [Units -> Cell]
    BY DEF Heaps, Cell
  <1>4. M \in [Units -> Cell]
    <2>1. \A u \in Units : h.mem[u] \in Cell
      BY <1>3
    <2>2. [foot |-> w, head |-> w] \in Cell
      BY DEF Cell
    <2> QED
      BY <1>1, <2>1, <2>2
  <1>5. t \in Heaps /\ t.pages = h.pages /\ t.lists = h.lists /\ t.mem = M
    BY <1>2, <1>4 DEF Heaps, Cell
  <1>6. \A u \in Units : u \notin to + 1 .. to + n => t.mem[u] = h.mem[u]
    BY <1>1, <1>5
  <1>7. \A u \in Units : u \in to + 1 .. to + n /\ u - to + from \in Units =>
                           t.mem[u] = h.mem[u - to + from]
    BY <1>1, <1>5
  <1> QED
    BY <1>5, <1>6, <1>7 DEF OnlyMemory

-----------------------------------------------------------------------------
(* The program and its heap.                                               *)

Holding == [size : Nat, filled : Nat, word : Data]

(* Block p is what the program takes it for, and where blocks are placed.  *)
Serves(h, p, x) ==
  /\ Header(h, p).pay = x.size
  /\ x.size + 16 <= 16 * Header(h, p).size
  /\ 16 * x.filled <= x.size
  /\ Placed(p, Header(h, p).size)
  /\ \A u \in p + 1 .. p + x.filled : Header(h, u) = x.word /\ Footer(h, u) = x.word

(* No unit of the blocks in G, nor the header of an allocated block.       *)
Idle(h, G, u) ==
  /\ u \in Units /\ u < Epilogue(h)
  /\ ~ Header(h, u).alloc
  /\ \A p \in G : u \notin p .. Next(h, p) - 1

Served(h, B, hl, fr) ==
  /\ InOrder(h, B)
  /\ DOMAIN hl = GivenOut(h, B)
  /\ hl \in [DOMAIN hl -> Holding]
  /\ \A p \in DOMAIN hl : Serves(h, p, hl[p])
  /\ \A u \in fr : Idle(h, DOMAIN hl, u)

(* A block that was given out is an allocated one and not the prologue.    *)
LEMMA GivenOutFacts ==
  ASSUME NEW h, NEW B, InOrder(h, B)
  PROVE  /\ h \in Heaps
         /\ End(h) \in Nat /\ Epilogue(h) = End(h) - 1
         /\ \A p \in GivenOut(h, B) :
              /\ Tidy(h, B) /\ p \in B /\ p # 0 /\ p \in UsedIn(h, B)
              /\ Header(h, p).alloc
              /\ p \in Units /\ p \in Nat /\ p < Epilogue(h)
              /\ Header(h, p).size \in Nat /\ Header(h, p).size >= 2
              /\ Next(h, p) = p + Header(h, p).size
              /\ Next(h, p) \in Nat /\ Next(h, p) <= Epilogue(h)
  <1>1. h \in Heaps
    BY DEF InOrder, Started, Tidy, Sound, Tiles
  <1>2. End(h) \in Nat /\ Epilogue(h) = End(h) - 1
    BY <1>1, HeapTypes, ConstantsAreNumbers
  <1>3. ASSUME NEW p \in GivenOut(h, B)
        PROVE  /\ Tidy(h, B) /\ p \in B /\ p # 0 /\ p \in UsedIn(h, B)
               /\ Header(h, p).alloc
    <2>1. p \in B /\ p # 0 /\ p \in UsedIn(h, B) /\ Header(h, p).alloc
      BY DEF GivenOut, UsedIn
    <2> QED
      BY <2>1 DEF InOrder
  <1>4. ASSUME NEW p \in GivenOut(h, B)
        PROVE  /\ p \in Units /\ p \in Nat /\ p < Epilogue(h)
               /\ Header(h, p).size \in Nat /\ Header(h, p).size >= 2
               /\ Next(h, p) = p + Header(h, p).size
               /\ Next(h, p) \in Nat /\ Next(h, p) <= Epilogue(h)
    <2>1. Tiles(h, B) /\ p \in B
      BY <1>3 DEF Tidy, Sound
    <2> QED
      BY <2>1, TilesFacts
  <1> QED
    BY <1>1, <1>2, <1>3, <1>4

(* A block that is kept still holds what was written to it.                *)
LEMMA StillServes ==
  ASSUME NEW h, NEW t, NEW P, NEW D, Keeps(h, t, P, D), NEW p \in P, p \in Nat,
         Header(h, p).size \in Nat, NEW x \in Holding, Serves(h, p, x)
  PROVE  Serves(t, p, x) /\ Next(t, p) = Next(h, p)
  <1>1. SameHead(h, t, p) /\ \A u \in p + 1 .. Next(h, p) - 1 : t.mem[u] = h.mem[u]
    BY DEF Keeps
  <1>2. x.size \in Nat /\ x.filled \in Nat
    BY DEF Holding
  <1>3. ASSUME NEW u \in p + 1 .. p + x.filled
        PROVE  Header(t, u) = x.word /\ Footer(t, u) = x.word
    <2>1. x.size + 16 <= 16 * Header(h, p).size /\ 16 * x.filled <= x.size
      BY DEF Serves
    <2>2. u \in p + 1 .. Next(h, p) - 1
      BY <1>2, <2>1 DEF Next
    <2>3. Header(h, u) = x.word /\ Footer(h, u) = x.word
      BY DEF Serves
    <2> QED
      BY <1>1, <2>2, <2>3 DEF Header, Footer
  <1> QED
    BY <1>1, <1>3 DEF Serves, SameHead, Next

(* A pointer that was freed is still none to free.                         *)
LEMMA StillIdle ==
  ASSUME NEW h, NEW t, NEW G, NEW D, Keeps(h, t, G, D), NEW u \in D,
         Epilogue(h) \in Int, Epilogue(t) \in Int, Epilogue(h) <= Epilogue(t),
         Idle(h, G, u)
  PROVE  Idle(t, G, u)
  <1>1. u \in Units /\ u < Epilogue(t)
    BY ConstantsAreNumbers DEF Idle
  <1>2. \A p \in G : Next(t, p) = Next(h, p)
    BY DEF Keeps, SameHead, Next
  <1> QED
    BY <1>1, <1>2 DEF Idle, Keeps

(* The heap has grown, and no block was found.                             *)
LEMMA ServedAsBefore ==
  ASSUME NEW h, NEW B, NEW hl, NEW fr, Served(h, B, hl, fr),
         NEW t, NEW C, Grows(h, B, t, C, fr)
  PROVE  Served(t, C, hl, fr)
  <1>1. /\ InOrder(h, B) /\ InOrder(t, C) /\ End(h) <= End(t)
        /\ DOMAIN hl = GivenOut(h, B) /\ GivenOut(t, C) = GivenOut(h, B)
        /\ Keeps(h, t, DOMAIN hl, fr)
        /\ hl \in [DOMAIN hl -> Holding]
    BY DEF Served, Grows
  <1>2. Epilogue(h) \in Int /\ Epilogue(t) \in Int /\ Epilogue(h) <= Epilogue(t)
    BY <1>1, GivenOutFacts
  <1>3. ASSUME NEW p \in DOMAIN hl
        PROVE  Serves(t, p, hl[p])
    <2>1. p \in Nat /\ Header(h, p).size \in Nat
      BY <1>1, GivenOutFacts
    <2>2. Serves(h, p, hl[p]) /\ hl[p] \in Holding
      BY <1>1 DEF Served
    <2> QED
      BY <1>1, <2>1, <2>2, StillServes
  <1>4. ASSUME NEW u \in fr
        PROVE  Idle(t, DOMAIN hl, u)
    BY <1>1, <1>2, StillIdle DEF Served
  <1> QED
    BY <1>1, <1>3, <1>4 DEF Served

(* sf_malloc hands out block b; the program has not written to it yet.     *)
Handed(t, C, hl, fr, b, size) ==
  /\ Tidy(t, C)
  /\ b \notin DOMAIN hl
  /\ GivenOut(t, C) = DOMAIN hl \cup {b}
  /\ hl \in [DOMAIN hl -> Holding]
  /\ \A p \in DOMAIN hl : Serves(t, p, hl[p])
  /\ Header(t, b).pay = size /\ Header(t, b).size = calculate_block_size(size)
  /\ Placed(b, Header(t, b).size)
  /\ \A u \in fr : u \notin b .. Next(t, b) - 1 => Idle(t, DOMAIN hl \cup {b}, u)

(* The block that sf_malloc returns is new to the program, whose blocks    *)
(* and freed pointers are as they were.                                    *)
LEMMA BlockIsHanded ==
  ASSUME NEW h, NEW B, NEW hl, NEW fr, Served(h, B, hl, fr),
         NEW size \in Sizes, NEW total, total = calculate_block_size(size),
         NEW t, NEW C, NEW b, Got(h, B, t, C, b, size, total, fr)
  PROVE  Handed(t, C, hl, fr, b, size)
  <1>1. /\ InOrder(h, B) /\ Tidy(t, C) /\ End(h) <= End(t)
        /\ DOMAIN hl = GivenOut(h, B)
        /\ GivenOut(t, C) = DOMAIN hl \cup {b} /\ b \notin DOMAIN hl
        /\ Keeps(h, t, DOMAIN hl, fr \ {b})
        /\ hl \in [DOMAIN hl -> Holding]
        /\ Header(t, b).pay = size /\ Header(t, b).size = calculate_block_size(size)
    BY DEF Served, Got
  <1>2. InOrder(t, C)
    BY <1>1 DEF InOrder
  <1>3. /\ Epilogue(h) \in Int /\ Epilogue(t) \in Int /\ Epilogue(h) <= Epilogue(t)
        /\ b \in Nat /\ Next(t, b) = b + Header(t, b).size
        /\ Header(t, b).size \in Nat /\ Header(t, b).size >= 2
    BY <1>1, <1>2, GivenOutFacts
  <1>4. ASSUME NEW p \in DOMAIN hl
        PROVE  Serves(t, p, hl[p])
    <2>1. p \in Nat /\ Header(h, p).size \in Nat
      BY <1>1, GivenOutFacts
    <2>2. Serves(h, p, hl[p]) /\ hl[p] \in Holding
      BY <1>1 DEF Served
    <2> QED
      BY <1>1, <2>1, <2>2, StillServes
  <1>5. ASSUME NEW u \in fr, u \notin b .. Next(t, b) - 1
        PROVE  Idle(t, DOMAIN hl \cup {b}, u)
    <2>1. u # b
      <3>1. b \in b .. Next(t, b) - 1
        BY <1>3
      <3> QED
        BY <1>5, <3>1
    <2>2. u \in fr \ {b} /\ Idle(h, DOMAIN hl, u)
      BY <2>1 DEF Served
    <2>3. Idle(t, DOMAIN hl, u)
      BY <1>1, <1>3, <2>2, StillIdle
    <2> QED
      BY <1>5, <2>3 DEF Idle
  <1>6. Multiple(Grain, b - 2)
    <2>1. CASE b = 2
      <3>1. b - 2 = 0
        BY <2>1
      <3> QED
        BY <3>1, GrainFacts, ZeroIsMultiple
    <2>2. ASSUME NEW p \in DOMAIN hl, b = Next(h, p)
          PROVE  Multiple(Grain, b - 2)
      <3>1. Multiple(Grain, p - 2) /\ Multiple(Grain, Header(h, p).size)
        BY DEF Served, Serves, Placed
      <3>2. p \in Nat /\ Header(h, p).size \in Nat /\ b = p + Header(h, p).size
        BY <1>1, <2>2, GivenOutFacts
      <3>3. Multiple(Grain, (p - 2) + Header(h, p).size)
        BY <3>1, GrainFacts, SumIsMultiple
      <3>4. (p - 2) + Header(h, p).size = b - 2
        BY <3>2
      <3> QED
        BY <3>3, <3>4
    <2>3. b = 2 \/ \E p \in DOMAIN hl : b = Next(h, p)
      BY <1>1 DEF Got
    <2> QED
      BY <2>1, <2>2, <2>3
  <1>7. Placed(b, Header(t, b).size)
    BY <1>1, <1>6, GrainFacts DEF Placed
  <1> QED
    BY <1>1, <1>4, <1>5, <1>7 DEF Handed

(* Something is written to the block that is handed out.                   *)
LEMMA BlockIsServed ==
  ASSUME NEW h, NEW C, NEW hl, NEW fr, NEW b, NEW size \in Nat,
         Handed(h, C, hl, fr, b, size),
         NEW n \in Nat, 16 * n <= size,
         NEW t, OnlyMemory(h, t),
         \A u \in Units : u \notin b + 1 .. b + n => t.mem[u] = h.mem[u],
         NEW x \in Holding, x.size = size, x.filled <= n,
         \A u \in b + 1 .. b + x.filled : Header(t, u) = x.word /\ Footer(t, u) = x.word,
         NEW gl, gl = With(b, x, hl),
         NEW fs, fs \subseteq fr, \A u \in fs : u \notin b .. Next(h, b) - 1
  PROVE  Served(t, C, gl, fs) /\ Next(t, b) = Next(h, b)
  <1>1. /\ Tidy(h, C) /\ InOrder(h, C) /\ b \notin DOMAIN hl
        /\ GivenOut(h, C) = DOMAIN hl \cup {b}
        /\ hl \in [DOMAIN hl -> Holding]
        /\ Header(h, b).pay = size /\ Header(h, b).size = calculate_block_size(size)
        /\ t \in Heaps /\ t.pages = h.pages /\ t.lists = h.lists
    BY DEF Handed, InOrder, OnlyMemory
  <1>2. /\ b \in UsedIn(h, C) /\ b \in Nat
        /\ Next(h, b) = b + Header(h, b).size /\ Header(h, b).size \in Nat
    BY <1>1, GivenOutFacts
  <1>3. /\ size + 16 <= 16 * Header(h, b).size
    BY <1>1, BlockSizes
  <1>4. \A v \in b + 1 .. b + n : v \in b + 1 .. Next(h, b) - 1
    BY <1>2, <1>3
  <1>5. fs \in SUBSET Units
    BY DEF Handed, Idle
  <1>6. WrittenIn(h, C, t, b, fs)
    <2>1. PICK S : S = b + 1 .. b + n
      OBVIOUS
    <2>2. \A v \in S : v \in b + 1 .. Next(h, b) - 1
      BY <1>4, <2>1
    <2>3. \A u \in Units : u \notin S => t.mem[u] = h.mem[u]
      BY <2>1
    <2> QED
      BY <1>1, <1>2, <1>5, <2>2, <2>3, PayloadIsWritten
  <1>7. /\ Tidy(t, C) /\ GivenOut(t, C) = DOMAIN hl \cup {b}
        /\ Epilogue(t) = Epilogue(h)
        /\ Keeps(h, t, DOMAIN hl, fs)
        /\ SameHead(h, t, b)
    <2>1. GivenOut(h, C) \ {b} = DOMAIN hl
      BY <1>1
    <2> QED
      BY <1>1, <1>6, <2>1 DEF WrittenIn
  <1>8. Next(t, b) = Next(h, b)
    BY <1>7 DEF Next, SameHead
  <1>9. /\ gl = [q \in {b} \cup DOMAIN hl |-> IF q = b THEN x ELSE hl[q]]
    BY DEF With
  <1>10. /\ DOMAIN gl = DOMAIN hl \cup {b} /\ gl[b] = x
         /\ \A q \in DOMAIN hl : gl[q] = hl[q]
    BY <1>1, <1>9
  <1>11. gl \in [DOMAIN gl -> Holding]
    <2>1. \A q \in DOMAIN hl : hl[q] \in Holding
      BY <1>1
    <2> QED
      BY <1>9, <2>1
  <1>12. ASSUME NEW q \in DOMAIN gl
         PROVE  Serves(t, q, gl[q])
    <2>1. CASE q = b
      <3>1. 16 * x.filled <= x.size
        <4>1. x.filled \in Nat
          BY DEF Holding
        <4> QED
          BY <4>1
      <3>2. /\ Header(t, b).pay = x.size /\ x.size + 16 <= 16 * Header(t, b).size
            /\ Placed(b, Header(t, b).size)
        BY <1>1, <1>3, <1>7 DEF SameHead, Handed
      <3> QED
        BY <1>10, <2>1, <3>1, <3>2 DEF Serves
    <2>2. CASE q # b
      <3>1. q \in DOMAIN hl /\ gl[q] = hl[q] /\ hl[q] \in Holding
        BY <1>1, <1>10, <2>2
      <3>2. q \in Nat /\ Header(h, q).size \in Nat
        BY <1>1, <3>1, GivenOutFacts
      <3>3. Serves(h, q, hl[q])
        BY <3>1 DEF Handed
      <3> QED
        BY <1>7, <3>1, <3>2, <3>3, StillServes
    <2> QED
      BY <2>1, <2>2
  <1>13. ASSUME NEW u \in fs
         PROVE  Idle(t, DOMAIN gl, u)
    <2>1. Idle(h, DOMAIN hl \cup {b}, u)
      BY DEF Handed
    <2>2. Keeps(h, t, DOMAIN hl, fs) /\ \A q \in DOMAIN hl : Next(t, q) = Next(h, q)
      BY <1>7 DEF Keeps, SameHead, Next
    <2> QED
      BY <1>7, <1>8, <1>10, <2>1, <2>2 DEF Idle, Keeps
  <1> QED
    BY <1>7, <1>8, <1>10, <1>11, <1>12, <1>13 DEF Served, InOrder

(* A block is freed.                                                       *)
Dropped(hl, gl, p) == gl = [q \in DOMAIN hl \ {p} |-> hl[q]]

(* The program gives a block up.                                           *)
LEMMA ServedWithout ==
  ASSUME NEW h, NEW B, NEW hl, NEW fr, Served(h, B, hl, fr), NEW p \in DOMAIN hl,
         NEW t, t = free_allocated_block(h, p),
         NEW gl, Dropped(hl, gl, p)
  PROVE  \E C : Served(t, C, gl, {p})
  <1>1. /\ InOrder(h, B) /\ DOMAIN hl = GivenOut(h, B)
        /\ hl \in [DOMAIN hl -> Holding]
    BY DEF Served
  <1>2. /\ Tidy(h, B) /\ p \in UsedIn(h, B) /\ p # 0 /\ p \in Units
        /\ p \in Nat /\ p < Epilogue(h) /\ p \in B
    BY <1>1, GivenOutFacts
  <1>3. PICK D \in SUBSET Units : D = {p}
    BY <1>2
  <1>4. PICK C : /\ Tidy(t, C) /\ t.pages = h.pages
                 /\ UsedIn(t, C) = UsedIn(h, B) \ {p}
                 /\ Keeps(h, t, UsedIn(h, B) \ {p}, D)
                 /\ p \in D => ~ Header(t, p).alloc
    BY <1>2, <1>3, IsFreed
  <1>5. /\ GivenOut(t, C) = DOMAIN hl \ {p}
        /\ Keeps(h, t, DOMAIN hl \ {p}, D)
        /\ Epilogue(t) = Epilogue(h)
    BY <1>1, <1>4 DEF GivenOut, Keeps, Epilogue, End
  <1>6. DOMAIN gl = DOMAIN hl \ {p} /\ \A q \in DOMAIN gl : gl[q] = hl[q]
    BY DEF Dropped
  <1>7. gl \in [DOMAIN gl -> Holding]
    BY <1>1 DEF Dropped
  <1>8. ASSUME NEW q \in DOMAIN gl
        PROVE  Serves(t, q, gl[q]) /\ Next(t, q) = Next(h, q)
    <2>1. q \in DOMAIN hl /\ q \in DOMAIN hl \ {p} /\ gl[q] = hl[q] /\ hl[q] \in Holding
      BY <1>1, <1>6
    <2>2. q \in Nat /\ Header(h, q).size \in Nat /\ Serves(h, q, hl[q])
      BY <1>1, <2>1, GivenOutFacts DEF Served
    <2> QED
      BY <1>5, <2>1, <2>2, StillServes
  <1>9. Idle(t, DOMAIN gl, p)
    <2>1. ASSUME NEW q \in DOMAIN gl
          PROVE  p \notin q .. Next(t, q) - 1
      <3>1. q \in DOMAIN hl /\ q # p
        BY <1>6
      <3>2. q \in B /\ q \in Nat /\ Next(h, q) \in Nat
        BY <1>1, <3>1, GivenOutFacts
      <3>3. p < q \/ Next(h, q) <= p
        <4>1. p < q \/ q < p
          BY <1>2, <3>1, <3>2
        <4>2. Tiles(h, B)
          BY <1>2 DEF Tidy, Sound
        <4> QED
          BY <1>2, <3>2, <4>1, <4>2, TilesFacts
      <3> QED
        BY <1>2, <1>8, <3>2, <3>3
    <2>2. ~ Header(t, p).alloc
      BY <1>3, <1>4
    <2> QED
      BY <1>2, <1>5, <2>1, <2>2 DEF Idle
  <1>10. Served(t, C, gl, {p})
    BY <1>4, <1>5, <1>6, <1>7, <1>8, <1>9 DEF Served, InOrder
  <1> QED
    BY <1>10

(* Whole units of a payload.                                               *)
LEMMA DivisionRoundsDown ==
  ASSUME NEW n \in Nat
  PROVE  n \div 16 \in Nat /\ 16 * (n \div 16) <= n /\ n < 16 * (n \div 16) + 16
  OBVIOUS

(* A block keeps its place and gets another size.                          *)
Replaced(hl, gl, p, x) == gl = [hl EXCEPT ![p] = x]

(* A block stays where it is with another size, which its payload fits.    *)
LEMMA ServedInPlace ==
  ASSUME NEW h, NEW B, NEW hl, NEW fr, Served(h, B, hl, fr), NEW p \in DOMAIN hl,
         NEW t, NEW C, NEW rsize \in Nat, NEW s \in Nat,
         StaysInPlace(h, B, t, C, p, rsize, s, fr),
         s <= Header(h, p).size, rsize + 16 <= 16 * s, Multiple(Grain, s),
         NEW x \in Holding, x.size = rsize, x.filled <= hl[p].filled,
         16 * x.filled <= rsize, x.word = hl[p].word,
         NEW gl, Replaced(hl, gl, p, x)
  PROVE  Served(t, C, gl, fr)
  <1>0. /\ Tidy(t, C) /\ t.pages = h.pages /\ UsedIn(t, C) = UsedIn(h, B)
        /\ Keeps(h, t, UsedIn(h, B) \ {p}, fr)
        /\ Header(t, p).pay = rsize /\ Header(t, p).size = s
        /\ \A u \in p + 1 .. p + s - 1 : t.mem[u] = h.mem[u]
    BY DEF StaysInPlace
  <1>1. /\ InOrder(h, B) /\ InOrder(t, C) /\ DOMAIN hl = GivenOut(h, B)
        /\ hl \in [DOMAIN hl -> Holding]
    BY <1>0 DEF Served, InOrder
  <1>2. /\ GivenOut(t, C) = DOMAIN hl /\ Epilogue(t) = Epilogue(h)
        /\ Keeps(h, t, DOMAIN hl \ {p}, fr)
    BY <1>0, <1>1 DEF GivenOut, Epilogue, End, Keeps
  <1>3. /\ p \in Nat /\ Header(h, p).size \in Nat
        /\ Next(h, p) = p + Header(h, p).size
    BY <1>1, GivenOutFacts
  <1>4. DOMAIN gl = DOMAIN hl /\ gl[p] = x /\ \A q \in DOMAIN hl : q # p => gl[q] = hl[q]
    BY DEF Replaced
  <1>5. gl \in [DOMAIN gl -> Holding]
    BY <1>1 DEF Replaced
  <1>6. ASSUME NEW q \in DOMAIN hl, q # p
        PROVE  Serves(t, q, gl[q]) /\ Next(t, q) = Next(h, q)
    <2>1. q \in DOMAIN hl \ {p} /\ gl[q] = hl[q] /\ hl[q] \in Holding
      BY <1>1, <1>4, <1>6
    <2>2. q \in Nat /\ Header(h, q).size \in Nat /\ Serves(h, q, hl[q])
      BY <1>1, GivenOutFacts DEF Served
    <2> QED
      BY <1>2, <2>1, <2>2, StillServes
  <1>7. Serves(t, p, x)
    <2>1. x.filled \in Nat /\ hl[p].filled \in Nat
      BY <1>1 DEF Holding
    <2>2. ASSUME NEW u \in p + 1 .. p + x.filled
          PROVE  Header(t, u) = x.word /\ Footer(t, u) = x.word
      <3>1. u \in p + 1 .. p + hl[p].filled
        BY <1>3, <2>1
      <3>2. Header(h, u) = x.word /\ Footer(h, u) = x.word
        BY <3>1 DEF Served, Serves
      <3>3. u \in p + 1 .. p + s - 1
        BY <1>3, <2>1
      <3>4. t.mem[u] = h.mem[u]
        BY <1>0, <3>3
      <3> QED
        BY <3>2, <3>4 DEF Header, Footer
    <2>3. Placed(p, s)
      BY DEF Served, Serves, Placed
    <2> QED
      BY <1>0, <2>1, <2>2, <2>3 DEF Serves
  <1>8. ASSUME NEW u \in fr
        PROVE  Idle(t, DOMAIN gl, u)
    <2>1. Idle(h, DOMAIN hl, u)
      BY DEF Served
    <2>2. ~ Header(t, u).alloc
      BY <1>2, <2>1 DEF Idle, Keeps
    <2>3. u \in Nat
      BY <2>1, ConstantsAreNumbers DEF Idle
    <2>4. u \notin p .. Next(t, p) - 1
      <3>1. u \notin p .. Next(h, p) - 1
        BY <2>1 DEF Idle
      <3>2. Next(t, p) = p + s
        BY <1>0 DEF Next
      <3> QED
        BY <1>3, <2>3, <3>1, <3>2
    <2>5. \A q \in DOMAIN hl : u \notin q .. Next(t, q) - 1
      BY <1>6, <2>1, <2>4 DEF Idle
    <2> QED
      BY <1>2, <1>4, <2>1, <2>2, <2>5 DEF Idle
  <1>9. \A q \in DOMAIN gl : Serves(t, q, gl[q])
    BY <1>4, <1>6, <1>7
  <1> QED
    BY <1>1, <1>2, <1>4, <1>5, <1>8, <1>9 DEF Served

(* What sf_realloc has found out about the sizes.                          *)
LEMMA ReallocCases ==
  ASSUME NEW h, NEW p, NEW rsize \in Nat, Header(h, p).pay \in Nat
  PROVE  /\ can_realloc_without_splinter(h, p, rsize) = "update" =>
              \/ Header(h, p).size = calculate_block_size(rsize)
              \/ rsize <= Header(h, p).pay
         /\ can_realloc_without_splinter(h, p, rsize) = "split" =>
              rsize + 32 <= Header(h, p).pay
         /\ can_realloc_without_splinter(h, p, rsize) = "move" =>
              rsize > Header(h, p).pay
  <1>1. PICK pay \in Nat : pay = Header(h, p).pay
    OBVIOUS
  <1>2. CASE Header(h, p).size = calculate_block_size(rsize)
    <2>1. can_realloc_without_splinter(h, p, rsize) = "update"
      BY <1>2 DEF can_realloc_without_splinter
    <2> QED
      BY <1>2, <2>1
  <1>3. CASE Header(h, p).size # calculate_block_size(rsize)
    <2>1. can_realloc_without_splinter(h, p, rsize) =
            IF rsize > pay THEN "move"
            ELSE IF rsize = pay THEN "same"
            ELSE IF pay - rsize < 32 THEN "update"
            ELSE "split"
      BY <1>1, <1>3 DEF can_realloc_without_splinter
    <2>2. CASE rsize > pay
      BY <1>1, <2>1, <2>2
    <2>3. CASE rsize = pay
      BY <1>1, <2>1, <2>3
    <2>4. CASE rsize < pay /\ pay - rsize < 32
      BY <1>1, <2>1, <2>4
    <2>5. CASE rsize < pay /\ ~ (pay - rsize < 32)
      BY <1>1, <2>1, <2>5
    <2> QED
      BY <2>2, <2>3, <2>4, <2>5
  <1> QED
    BY <1>2, <1>3

(* What the program holds of a block that sf_realloc leaves in its place.  *)
Reduced(x, rsize) ==
  [x EXCEPT !.size = rsize,
            !.filled = IF x.filled < rsize \div 16 THEN x.filled
                       ELSE rsize \div 16]

(* What sf_realloc keeps of a payload is no more than there was.           *)
LEMMA ReducedIs ==
  ASSUME NEW x \in Holding, NEW rsize \in Nat, NEW y, y = Reduced(x, rsize)
  PROVE  /\ y \in Holding /\ y.size = rsize /\ y.word = x.word
         /\ y.filled <= x.filled /\ 16 * y.filled <= rsize
  <1>1. PICK n \in Nat : n = rsize \div 16 /\ 16 * n <= rsize
    BY DivisionRoundsDown
  <1>2. x.filled \in Nat /\ x.size \in Nat /\ x.word \in Data
    BY DEF Holding
  <1>3. PICK f \in Nat : f = (IF x.filled < n THEN x.filled ELSE n)
    BY <1>1, <1>2
  <1>4. y = [x EXCEPT !.size = rsize, !.filled = f]
    BY <1>1, <1>3 DEF Reduced
  <1>5. y \in Holding /\ y.size = rsize /\ y.word = x.word /\ y.filled = f
    BY <1>4 DEF Holding
  <1>6. f <= x.filled /\ 16 * f <= rsize
    BY <1>1, <1>2, <1>3
  <1> QED
    BY <1>5, <1>6

(* sf_realloc changes the payload size only.                               *)
LEMMA ServedUpdated ==
  ASSUME NEW h, NEW B, NEW hl, NEW fr, Served(h, B, hl, fr), NEW p \in DOMAIN hl,
         NEW rsize \in Nat,
         can_realloc_without_splinter(h, p, rsize) = "update",
         NEW t, t = update_payload_size(h, p, rsize),
         NEW gl, Replaced(hl, gl, p, Reduced(hl[p], rsize))
  PROVE  Served(t, B, gl, fr)
  <1>1. /\ InOrder(h, B) /\ DOMAIN hl = GivenOut(h, B) /\ hl[p] \in Holding
        /\ Serves(h, p, hl[p])
        /\ \A u \in fr : u \in Units
    BY DEF Served, Idle
  <1>2. /\ Tidy(h, B) /\ p \in UsedIn(h, B) /\ p # 0
        /\ Header(h, p).size \in Nat /\ Next(h, p) = p + Header(h, p).size
    BY <1>1, GivenOutFacts
  <1>3. PICK D \in SUBSET Units : D = fr
    BY <1>1
  <1>4. PICK s \in Nat : s = Header(h, p).size
    BY <1>2
  <1>5. PICK x : x = Reduced(hl[p], rsize)
    OBVIOUS
  <1>6. /\ x \in Holding /\ x.size = rsize /\ x.word = hl[p].word
        /\ x.filled <= hl[p].filled /\ 16 * x.filled <= rsize
    BY <1>1, <1>5, ReducedIs
  <1>7. StaysInPlace(h, B, t, B, p, rsize, s, D)
    BY <1>2, <1>4, PayloadUpdated
  <1>8. rsize + 16 <= 16 * s
    <2>1. hl[p].size \in Nat /\ Header(h, p).pay = hl[p].size
          /\ hl[p].size + 16 <= 16 * Header(h, p).size
      BY <1>1 DEF Holding, Serves
    <2>2. Header(h, p).size = calculate_block_size(rsize) \/ rsize <= Header(h, p).pay
      BY <2>1, ReallocCases
    <2>3. CASE Header(h, p).size = calculate_block_size(rsize)
      BY <1>4, <2>3, BlockSizes
    <2>4. CASE rsize <= Header(h, p).pay
      BY <1>4, <2>1, <2>4
    <2> QED
      BY <2>2, <2>3, <2>4
  <1>9. /\ StaysInPlace(h, B, t, B, p, rsize, s, fr)
        /\ s <= Header(h, p).size /\ Replaced(hl, gl, p, x)
    BY <1>3, <1>4, <1>5, <1>7
  <1>10. Multiple(Grain, s)
    BY <1>1, <1>4 DEF Serves, Placed
  <1> QED
    BY <1>6, <1>8, <1>9, <1>10, ServedInPlace

(* sf_realloc cuts the block.                                              *)
LEMMA ServedShortened ==
  ASSUME NEW h, NEW B, NEW hl, NEW fr, Served(h, B, hl, fr), NEW p \in DOMAIN hl,
         NEW rsize \in Sizes,
         can_realloc_without_splinter(h, p, rsize) = "split",
         NEW t, t = realloc_block(h, p, calculate_block_size(rsize), rsize),
         NEW gl, Replaced(hl, gl, p, Reduced(hl[p], rsize))
  PROVE  \E C : Served(t, C, gl, fr)
  <1>1. /\ InOrder(h, B) /\ DOMAIN hl = GivenOut(h, B) /\ hl[p] \in Holding
        /\ Serves(h, p, hl[p])
        /\ \A u \in fr : u \in Units
    BY DEF Served, Idle
  <1>2. /\ Tidy(h, B) /\ p \in UsedIn(h, B) /\ p # 0
        /\ Header(h, p).size \in Nat /\ Next(h, p) = p + Header(h, p).size
    BY <1>1, GivenOutFacts
  <1>3. PICK D \in SUBSET Units : D = fr
    BY <1>1
  <1>0. rsize \in Nat /\ rsize >= 1
    BY NextSizes
  <1>4. PICK s \in Nat : /\ s = calculate_block_size(rsize) /\ s >= 2
                         /\ rsize + 16 <= 16 * s
                         /\ 16 * s <= IF rsize < 16 THEN 32 ELSE rsize + 31
                         /\ Multiple(Grain, s)
    BY <1>0, BlockSizes, GrainFacts
  <1>5. Header(h, p).size >= s + 2
    <2>1. /\ hl[p].size \in Nat /\ Header(h, p).pay = hl[p].size
          /\ hl[p].size + 16 <= 16 * Header(h, p).size
      BY <1>1 DEF Holding, Serves
    <2>2. rsize + 32 <= hl[p].size
      BY <1>0, <2>1, ReallocCases
    <2> QED
      BY <1>0, <1>2, <1>4, <2>1, <2>2
  <1>6. PICK C : StaysInPlace(h, B, t, C, p, rsize, s, D)
    BY <1>0, <1>2, <1>4, <1>5, BlockIsShortened
  <1>7. PICK x : x = Reduced(hl[p], rsize)
    OBVIOUS
  <1>8. /\ x \in Holding /\ x.size = rsize /\ x.word = hl[p].word
        /\ x.filled <= hl[p].filled /\ 16 * x.filled <= rsize
    BY <1>0, <1>1, <1>7, ReducedIs
  <1>9. StaysInPlace(h, B, t, C, p, rsize, s, fr) /\ Replaced(hl, gl, p, x)
    BY <1>3, <1>6, <1>7
  <1>10. s <= Header(h, p).size
    BY <1>2, <1>5
  <1>11. Served(t, C, gl, fr)
    BY <1>0, <1>4, <1>8, <1>9, <1>10, ServedInPlace
  <1> QED
    BY <1>11

(* A block is moved: copied to the one handed out, and freed.              *)
LEMMA ServedElsewhere ==
  ASSUME NEW g, NEW C, NEW hl, NEW fr, NEW q, NEW rsize \in Nat,
         Handed(g, C, hl, fr, q, rsize), NEW p \in DOMAIN hl,
         rsize > hl[p].size, NEW w \in Word,
         NEW t, t = CopyAndFree(g, p, q, rsize \div 16, w),
         NEW wo, Dropped(hl, wo, p),
         NEW gl, gl = With(q, [hl[p] EXCEPT !.size = rsize], wo)
  PROVE  \E E : Served(t, E, gl, {p})
  <1>1. PICK n \in Nat : n = rsize \div 16 /\ 16 * n <= rsize /\ rsize < 16 * n + 16
    BY DivisionRoundsDown
  <1>2. PICK k : k = Copy(g, p, q, n, w)
    OBVIOUS
  <1>3. /\ Tidy(g, C) /\ InOrder(g, C) /\ GivenOut(g, C) = DOMAIN hl \cup {q}
        /\ q \notin DOMAIN hl /\ hl \in [DOMAIN hl -> Holding]
        /\ Serves(g, p, hl[p]) /\ hl[p] \in Holding
        /\ Header(g, q).size = calculate_block_size(rsize)
    BY DEF Handed, InOrder
  <1>4. /\ g \in Heaps /\ p \in C /\ q \in C /\ p \in Nat /\ q \in Nat
        /\ Header(g, p).size \in Nat /\ Next(g, p) = p + Header(g, p).size
        /\ Header(g, q).size \in Nat /\ Next(g, q) = q + Header(g, q).size
    BY <1>3, GivenOutFacts
  <1>5. /\ OnlyMemory(g, k)
        /\ \A u \in Units : u \notin q + 1 .. q + n => k.mem[u] = g.mem[u]
        /\ \A u \in Units : u \in q + 1 .. q + n /\ u - q + p \in Units =>
             k.mem[u] = g.mem[u - q + p]
    BY <1>2, <1>4, CopyCopies
  <1>6. PICK x : x = [hl[p] EXCEPT !.size = rsize]
    OBVIOUS
  <1>7. x \in Holding /\ x.size = rsize /\ x.filled = hl[p].filled /\ x.word = hl[p].word
    BY <1>3, <1>6 DEF Holding
  <1>8. /\ hl[p].filled \in Nat /\ hl[p].size \in Nat
        /\ 16 * hl[p].filled <= hl[p].size
        /\ hl[p].size + 16 <= 16 * Header(g, p).size
    BY <1>3 DEF Holding, Serves
  <1>9. x.filled <= n
    BY <1>1, <1>7, <1>8
  <1>10. rsize + 16 <= 16 * Header(g, q).size
    BY <1>3, BlockSizes
  <1>11. ASSUME NEW u \in q + 1 .. q + x.filled
         PROVE  Header(k, u) = x.word /\ Footer(k, u) = x.word
    <2>1. PICK v \in Int : v = u - q + p
      BY <1>4
    <2>2. v \in p + 1 .. p + hl[p].filled /\ v \in p + 1 .. Next(g, p) - 1
      BY <1>4, <1>7, <1>8, <2>1
    <2>3. u \in q + 1 .. q + n /\ u \in q + 1 .. Next(g, q) - 1
      BY <1>1, <1>4, <1>7, <1>8, <1>9, <1>10
    <2>4. Tiles(g, C)
      BY <1>3 DEF Tidy, Sound
    <2>5. u \in Units /\ v \in Units
      BY <1>4, <2>2, <2>3, <2>4, TilesFacts
    <2>6. k.mem[u] = g.mem[v]
      BY <1>5, <2>1, <2>3, <2>5
    <2>7. Header(g, v) = hl[p].word /\ Footer(g, v) = hl[p].word
      BY <1>3, <2>2 DEF Serves
    <2> QED
      BY <1>7, <2>6, <2>7 DEF Header, Footer
  <1>12. PICK ml : ml = With(q, x, hl)
    OBVIOUS
  <1>13. Served(k, C, ml, {})
    <2>1. {} \subseteq fr /\ \A u \in {} : u \notin q .. Next(g, q) - 1
      OBVIOUS
    <2> QED
      BY <1>1, <1>5, <1>7, <1>9, <1>11, <1>12, <2>1, BlockIsServed
  <1>14. ml = [r \in {q} \cup DOMAIN hl |-> IF r = q THEN x ELSE hl[r]]
    BY <1>12 DEF With
  <1>15. p \in DOMAIN ml
    BY <1>14
  <1>16. Dropped(ml, gl, p)
    <2>1. gl = [r \in {q} \cup DOMAIN wo |-> IF r = q THEN x ELSE wo[r]]
      BY <1>6 DEF With
    <2>2. DOMAIN wo = DOMAIN hl \ {p} /\ \A r \in DOMAIN wo : wo[r] = hl[r]
      BY DEF Dropped
    <2>3. p # q
      BY <1>3
    <2>4. {q} \cup DOMAIN wo = DOMAIN ml \ {p}
      BY <1>14, <2>2, <2>3
    <2>5. \A r \in DOMAIN ml \ {p} : ml[r] = IF r = q THEN x ELSE wo[r]
      BY <1>14, <2>2
    <2>6. gl = [r \in DOMAIN ml \ {p} |-> IF r = q THEN x ELSE wo[r]]
      BY <2>1, <2>4
    <2>7. gl = [r \in DOMAIN ml \ {p} |-> ml[r]]
      BY <2>5, <2>6
    <2> QED
      BY <2>7 DEF Dropped
  <1>17. t = free_allocated_block(k, p)
    BY <1>1, <1>2 DEF CopyAndFree
  <1>18. PICK E : Served(t, E, gl, {p})
    BY <1>13, <1>15, <1>16, <1>17, ServedWithout
  <1> QED
    BY <1>18

-----------------------------------------------------------------------------
(* The specification.                                                      *)

(* The inductive invariant: there are blocks, from the prologue to the     *)
(* epilogue, of which those given out are the ones the program holds.      *)
HeapInv ==
  /\ \E B : Served(heap, B, held, freed)
  /\ aborted \in BOOLEAN

(* NothingIsLeftOver, for a size that is requested next.                   *)
LEMMA NextCuts ==
  ASSUME NothingIsLeftOver, NEW size \in Sizes,
         NEW total, total = calculate_block_size(size)
  PROVE  Cuts(heap, total)
  <1>1. ASSUME fitting(grown(heap, total), total) # NoBlock
        PROVE  Header(grown(heap, total), fitting(grown(heap, total), total)).size - total
                 \notin 1 .. MIN_BLOCK_SIZE - 1
    BY <1>1 DEF NothingIsLeftOver
  <1>2. 1 \in 1 .. MIN_BLOCK_SIZE - 1
    BY DEF MIN_BLOCK_SIZE
  <1> QED
    BY <1>1, <1>2 DEF Cuts

(* sf_malloc serves the program or leaves it what it has.                  *)
LEMMA MallocServes ==
  ASSUME NEW h, NEW B, NEW hl, NEW fr, Served(h, B, hl, fr), NEW size \in Sizes,
         Cuts(h, calculate_block_size(size)), NEW got, got = sf_malloc(h, size)
  PROVE  /\ got.block = NoBlock => \E C : Served(got.heap, C, hl, fr)
         /\ got.block # NoBlock => \E C : Handed(got.heap, C, hl, fr, got.block, size)
  <1>0. size \in Nat
    BY NextSizes
  <1>1. PICK total : total = calculate_block_size(size)
    OBVIOUS
  <1>2. PICK b, t : b = got.block /\ t = got.heap
    OBVIOUS
  <1>3. got = [block |-> b, heap |-> t]
    BY <1>2, MallocReturnsBoth
  <1>4. InOrder(h, B) /\ \A u \in fr : u \in Units /\ u < Epilogue(h)
    BY DEF Served, Idle
  <1>5. PICK D \in SUBSET Units : D = fr
    BY <1>4
  <1>6. \/ b = NoBlock /\ \E C : Grows(h, B, t, C, D)
        \/ b # NoBlock /\ \E C : Got(h, B, t, C, b, size, total, D)
    <2>1. sf_malloc(h, size) = [block |-> b, heap |-> t]
      BY <1>3
    <2>2. Cuts(h, total) /\ \A u \in D : u < Epilogue(h)
      BY <1>1, <1>4, <1>5
    <2> QED
      BY <1>0, <1>1, <1>4, <2>1, <2>2, BlockIsGot
  <1>7. CASE b = NoBlock
    <2>1. PICK C : Grows(h, B, t, C, fr)
      BY <1>5, <1>6, <1>7
    <2>2. Served(t, C, hl, fr)
      BY <2>1, ServedAsBefore
    <2> QED
      BY <1>2, <1>7, <2>2
  <1>8. CASE b # NoBlock
    <2>1. PICK C : Got(h, B, t, C, b, size, total, fr)
      BY <1>5, <1>6, <1>8
    <2>2. Handed(t, C, hl, fr, b, size)
      BY <1>1, <2>1, BlockIsHanded
    <2> QED
      BY <1>2, <1>8, <2>2
  <1> QED
    BY <1>7, <1>8

(* At first there is no page and the lists are empty.                      *)
LEMMA HeapInvInit == Init => HeapInv
<1> SUFFICES ASSUME Init
             PROVE  HeapInv
  OBVIOUS
<1>1. PICK M, L : /\ M = [u \in Units |-> [foot |-> Zero, head |-> Zero]]
                  /\ L = [i \in 0 .. NUM_FREE_LISTS - 1 |-> <<>>]
  OBVIOUS
<1>2. heap = [mem |-> M, pages |-> 0, lists |-> L]
  BY <1>1 DEF Init
<1>3. heap.mem = M /\ heap.pages = 0 /\ heap.lists = L
  BY <1>2
<1>4. L \in [ListNumbers -> Seq(Units)] /\ \A i \in ListNumbers : L[i] = <<>>
  BY <1>1 DEF ListNumbers
<1>5. M \in [Units -> Cell]
  BY <1>1, ConstantsAreNumbers DEF Cell
<1>6. heap \in Heaps
  <2>1. 0 \in 0 .. MaxPages
    BY ConstantsAreNumbers
  <2> QED
    BY <1>2, <1>4, <1>5, <2>1 DEF Heaps, Cell, ListNumbers
<1>7. Lists(L, {})
  <2>1. ToSet(<<>>) = {} /\ IsInjective(<<>>)
    BY DEF ToSet, IsInjective
  <2> QED
    BY <1>4, <2>1 DEF Lists
<1>8. InOrder(heap, {})
  BY <1>3, <1>6, <1>7 DEF InOrder, Started
<1>9. DOMAIN held = {} /\ GivenOut(heap, {}) = {}
  BY DEF Init, GivenOut, UsedIn
<1>10. held \in [DOMAIN held -> Holding]
  BY DEF Init
<1>11. Served(heap, {}, held, freed)
  <2>1. freed = {}
    BY DEF Init
  <2> QED
    BY <1>8, <1>9, <1>10, <2>1 DEF Served
<1> QED
  BY <1>11 DEF HeapInv, Init

(* Every call preserves HeapInv if split leaves nothing over.              *)
LEMMA HeapInvStep ==
  HeapInv /\ NothingIsLeftOver /\ [Step]_vars => HeapInv'
<1> SUFFICES ASSUME HeapInv, NothingIsLeftOver, [Step]_vars
             PROVE  HeapInv'
  OBVIOUS
<1>1. PICK B : Served(heap, B, held, freed)
  BY DEF HeapInv
<1>2. aborted \in BOOLEAN
  BY DEF HeapInv
<1>3. ASSUME NEW size \in Sizes, NEW w \in Data, Malloc(size, w)
      PROVE  HeapInv'
  <2>1. PICK got : got = sf_malloc(heap, size)
    OBVIOUS
  <2>2. /\ got.block # NoBlock
        /\ heap' = Fill(got.heap, got.block, size \div 16, w)
        /\ held' = With(got.block, [size |-> size, filled |-> size \div 16,
                                    word |-> w], held)
        /\ freed' = Uncovered(got.heap, got.block)
        /\ aborted' = aborted
    BY <1>3, <2>1 DEF Malloc, MallocReturns
  <2>3. size \in Nat
    BY NextSizes
  <2>4. PICK g, b : g = got.heap /\ b = got.block
    OBVIOUS
  <2>5. PICK C : Handed(g, C, held, freed, b, size)
    <3>1. Cuts(heap, calculate_block_size(size))
      BY NextCuts
    <3> QED
      BY <1>1, <2>1, <2>2, <2>3, <2>4, <3>1, MallocServes
  <2>6. PICK n \in Nat : n = size \div 16 /\ 16 * n <= size
    BY <2>3, DivisionRoundsDown
  <2>7. PICK x : x = [size |-> size, filled |-> n, word |-> w]
    OBVIOUS
  <2>8. x \in Holding /\ x.size = size /\ x.filled = n /\ x.word = w
    BY <2>3, <2>7 DEF Holding
  <2>9. PICK t : t = Fill(g, b, n, w)
    OBVIOUS
  <2>10. g \in Heaps /\ w \in Word
    BY <2>5, SfmmAssumption DEF Handed, Tidy, Sound, Tiles
  <2>11. /\ OnlyMemory(g, t)
         /\ \A u \in Units : u \notin b + 1 .. b + n => t.mem[u] = g.mem[u]
         /\ \A u \in Units : u \in b + 1 .. b + n =>
              Header(t, u) = w /\ Footer(t, u) = w
    BY <2>9, <2>10, FillFills
  <2>12. \A u \in b + 1 .. b + x.filled : Header(t, u) = x.word /\ Footer(t, u) = x.word
    <3>1. \A u \in b + 1 .. b + n : u \in Units
      <4>1. Tidy(g, C) /\ InOrder(g, C) /\ b \in GivenOut(g, C)
            /\ Header(g, b).size = calculate_block_size(size)
        BY <2>5 DEF Handed, InOrder
      <4>2. /\ b \in C /\ b \in Nat /\ Next(g, b) = b + Header(g, b).size
            /\ Header(g, b).size \in Nat
        BY <4>1, GivenOutFacts
      <4>3. size + 16 <= 16 * Header(g, b).size
        BY <2>3, <4>1, BlockSizes
      <4>4. \A u \in b + 1 .. b + n : u \in b + 1 .. Next(g, b) - 1
        BY <2>3, <2>6, <4>2, <4>3
      <4>5. Tiles(g, C)
        BY <4>1 DEF Tidy, Sound
      <4> QED
        BY <4>2, <4>4, <4>5, TilesFacts
    <3> QED
      BY <2>8, <2>11, <3>1
  <2>13. PICK gl : gl = With(b, x, held)
    OBVIOUS
  <2>14. PICK fs : fs = Uncovered(g, b)
    OBVIOUS
  <2>15. fs \subseteq freed /\ \A u \in fs : u \notin b .. Next(g, b) - 1
    BY <2>14 DEF Uncovered
  <2>16. Served(t, C, gl, fs)
    <3>1. x.filled <= n
      BY <2>8
    <3> QED
      BY <2>3, <2>5, <2>6, <2>8, <2>11, <2>12, <2>13, <2>15, <3>1, BlockIsServed
  <2>17. heap' = t /\ held' = gl /\ freed' = fs
    BY <2>2, <2>4, <2>6, <2>7, <2>9, <2>13, <2>14
  <2> QED
    BY <1>2, <2>2, <2>16, <2>17 DEF HeapInv
<1>4. ASSUME NEW size \in Sizes, ReturnsNull(sf_malloc(heap, size))
      PROVE  HeapInv'
  <2>1. PICK got : got = sf_malloc(heap, size)
    OBVIOUS
  <2>2. /\ got.block = NoBlock /\ heap' = got.heap
        /\ held' = held /\ freed' = freed /\ aborted' = aborted
    BY <1>4, <2>1 DEF ReturnsNull
  <2>3. size \in Nat /\ Cuts(heap, calculate_block_size(size))
    BY NextSizes, NextCuts
  <2>4. PICK C : Served(got.heap, C, held, freed)
    BY <1>1, <2>1, <2>2, <2>3, MallocServes
  <2> QED
    BY <1>2, <2>2, <2>4 DEF HeapInv
<1>5. ASSUME NEW p \in DOMAIN held, Free(p)
      PROVE  HeapInv'
  <2>1. /\ heap' = free_allocated_block(heap, p) /\ held' = Without(p)
        /\ freed' = {p} /\ aborted' = aborted
    BY <1>5 DEF Free
  <2>2. PICK t, gl : t = free_allocated_block(heap, p) /\ gl = Without(p)
    OBVIOUS
  <2>3. Dropped(held, gl, p)
    BY <2>2 DEF Dropped, Without
  <2>4. PICK C : Served(t, C, gl, {p})
    BY <1>1, <2>2, <2>3, ServedWithout
  <2> QED
    BY <1>2, <2>1, <2>2, <2>4 DEF HeapInv
<1>6. ASSUME NEW p \in freed, FreeAborts(p)
      PROVE  HeapInv'
  <2>1. /\ heap' = heap /\ held' = held /\ freed' = freed /\ aborted' = TRUE
    BY <1>6 DEF FreeAborts
  <2> QED
    BY <1>1, <2>1 DEF HeapInv
<1>7. ASSUME NEW p \in DOMAIN held, NEW size \in Sizes, NEW how,
             ReallocInPlace(p, size, how)
      PROVE  /\ can_realloc_without_splinter(heap, p, size) = how
             /\ Replaced(held, held', p, Reduced(held[p], size))
             /\ freed' = freed /\ aborted' = aborted
  BY <1>7 DEF ReallocInPlace, Replaced, Reduced
<1>8. ASSUME NEW p \in DOMAIN held, NEW size \in Sizes, ReallocUpdate(p, size)
      PROVE  HeapInv'
  <2>1. /\ heap' = update_payload_size(heap, p, size)
        /\ ReallocInPlace(p, size, "update")
    BY <1>8 DEF ReallocUpdate
  <2>2. /\ can_realloc_without_splinter(heap, p, size) = "update"
        /\ Replaced(held, held', p, Reduced(held[p], size))
        /\ freed' = freed /\ aborted' = aborted
    BY <1>7, <2>1
  <2>3. PICK t, gl : t = heap' /\ gl = held'
    OBVIOUS
  <2>4. Served(t, B, gl, freed)
    BY <1>1, <2>1, <2>2, <2>3, NextSizes, ServedUpdated
  <2> QED
    BY <1>2, <2>2, <2>3, <2>4 DEF HeapInv
<1>9. ASSUME NEW p \in DOMAIN held, NEW size \in Sizes, ReallocSplit(p, size)
      PROVE  HeapInv'
  <2>1. /\ heap' = realloc_block(heap, p, calculate_block_size(size), size)
        /\ ReallocInPlace(p, size, "split")
    BY <1>9 DEF ReallocSplit
  <2>2. /\ can_realloc_without_splinter(heap, p, size) = "split"
        /\ Replaced(held, held', p, Reduced(held[p], size))
        /\ freed' = freed /\ aborted' = aborted
    BY <1>7, <2>1
  <2>3. PICK t, gl : t = heap' /\ gl = held'
    OBVIOUS
  <2>4. PICK C : Served(t, C, gl, freed)
    BY <1>1, <2>1, <2>2, <2>3, NextSizes, ServedShortened
  <2> QED
    BY <1>2, <2>2, <2>3, <2>4 DEF HeapInv
<1>10. ASSUME NEW p \in DOMAIN held, NEW size \in Sizes, NEW w \in Data,
              ReallocMove(p, size, w)
       PROVE  HeapInv'
  <2>1. PICK got : got = sf_malloc(heap, size)
    OBVIOUS
  <2>2. /\ can_realloc_without_splinter(heap, p, size) = "move"
        /\ got.block # NoBlock
        /\ heap' = CopyAndFree(got.heap, p, got.block, size \div 16, w)
        /\ held' = With(got.block, [held[p] EXCEPT !.size = size], Without(p))
        /\ freed' = {p} /\ aborted' = aborted
    BY <1>10, <2>1 DEF ReallocMove, Moved
  <2>3. size \in Nat /\ Cuts(heap, calculate_block_size(size)) /\ w \in Word
    BY NextSizes, NextCuts, SfmmAssumption
  <2>4. PICK g, b : g = got.heap /\ b = got.block
    OBVIOUS
  <2>5. PICK C : Handed(g, C, held, freed, b, size)
    BY <1>1, <2>1, <2>2, <2>3, <2>4, MallocServes
  <2>6. size > held[p].size
    <3>1. Header(heap, p).pay = held[p].size /\ held[p].size \in Nat
      BY <1>1 DEF Served, Serves, Holding
    <3> QED
      BY <2>2, <2>3, <3>1, ReallocCases
  <2>7. PICK wo : wo = Without(p) /\ Dropped(held, wo, p)
    BY DEF Dropped, Without
  <2>8. PICK t, gl : /\ t = CopyAndFree(g, p, b, size \div 16, w)
                     /\ gl = With(b, [held[p] EXCEPT !.size = size], wo)
    OBVIOUS
  <2>9. PICK E : Served(t, E, gl, {p})
    BY <2>3, <2>5, <2>6, <2>7, <2>8, ServedElsewhere
  <2>10. heap' = t /\ held' = gl
    BY <2>2, <2>4, <2>7, <2>8
  <2> QED
    BY <1>2, <2>2, <2>9, <2>10 DEF HeapInv
<1>11. CASE UNCHANGED vars
  BY <1>1, <1>2, <1>11 DEF HeapInv, vars
<1>12. CASE Step
  BY <1>3, <1>4, <1>5, <1>6, <1>8, <1>9, <1>10, <1>12 DEF Step, MallocFails, ReallocFails
<1> QED
  BY <1>11, <1>12

-----------------------------------------------------------------------------
(* The invariants.                                                         *)

(* The walk that the invariants speak of comes to the blocks.              *)
LEMMA BlocksAre ==
  ASSUME NEW B, InOrder(heap, B)
  PROVE  /\ Blocks = B
         /\ FreeBlocks = FreeIn(heap, B)
         /\ B # {} => Tidy(heap, B)
         /\ B = {} => Lists(heap.lists, FreeIn(heap, B))
  <1>1. CASE B = {} /\ Started(heap)
    <2>1. Blocks = {}
      BY <1>1 DEF Blocks, Started
    <2>2. FreeIn(heap, B) = {} /\ FreeBlocks = {}
      BY <1>1, <2>1 DEF FreeIn, FreeBlocks
    <2> QED
      BY <1>1, <2>1, <2>2 DEF Started
  <1>2. CASE Tidy(heap, B)
    <2>1. PICK on : on = {b \in 0 .. End(heap) :
                            /\ Next(heap, b) < Epilogue(heap)
                            /\ Header(heap, b).size >= MIN_BLOCK_SIZE}
      OBVIOUS
    <2>t. /\ Tiles(heap, B) /\ heap \in Heaps /\ heap.pages # 0 /\ 0 \in B
          /\ Epilogue(heap) \in Nat /\ End(heap) = Epilogue(heap) + 1
          /\ \A b \in B : /\ b \in Nat /\ b < Epilogue(heap)
                          /\ Next(heap, b) \in Nat
                          /\ Next(heap, b) <= Epilogue(heap)
                          /\ Header(heap, b).size \in Nat
                          /\ Header(heap, b).size >= 2
      <3>1. Tiles(heap, B)
        BY <1>2 DEF Tidy, Sound
      <3> QED
        BY <3>1, TilesFacts DEF Tiles
    <2>2. \A b \in on : Next(heap, b) \in 0 .. End(heap)
      <3> TAKE b \in on
      <3>1. b \in 0 .. End(heap) /\ Next(heap, b) < Epilogue(heap)
        BY <2>1
      <3>2. b \in Units
        BY <2>t, <3>1, HeapTypes
      <3>3. Header(heap, b).size \in Nat /\ b \in Nat
        BY <2>t, <3>2, WordTypes, ConstantsAreNumbers
      <3>4. Next(heap, b) \in Nat
        BY <3>3 DEF Next
      <3> QED
        BY <2>t, <3>1, <3>4
    <2>3. \A b \in B : b \in on <=> Next(heap, b) # Epilogue(heap)
      BY <2>1, <2>t DEF MIN_BLOCK_SIZE
    <2>4. on \in SUBSET (0 .. End(heap))
      BY <2>1
    <2>5. Walk(heap, on) = B
      BY <2>t, <2>2, <2>3, <2>4, WalkFinds
    <2>6. Blocks = B
      BY <2>1, <2>5, <2>t DEF Blocks
    <2> QED
      BY <1>2, <2>6, <2>t DEF FreeBlocks, FreeIn
  <1> QED
    BY <1>1, <1>2 DEF InOrder

(* HeapInv gives every part of the state its type.                         *)
LEMMA InvMeansTyped == HeapInv => TypeOK
<1> SUFFICES ASSUME HeapInv
             PROVE  TypeOK
  OBVIOUS
<1>1. PICK B : Served(heap, B, held, freed)
  BY DEF HeapInv
<1>2. InOrder(heap, B) /\ DOMAIN held = GivenOut(heap, B)
  BY <1>1 DEF Served
<1>3. heap \in Heaps /\ DOMAIN held \subseteq Units
  BY <1>2, GivenOutFacts
<1>4. held \in [DOMAIN held -> [size : Nat, filled : Nat, word : Data]]
  BY <1>1 DEF Served, Holding
<1>5. freed \subseteq Units
  BY <1>1 DEF Served, Idle
<1>6. aborted \in BOOLEAN
  BY DEF HeapInv
<1> QED
  BY <1>3, <1>4, <1>5, <1>6 DEF TypeOK

(* The walk finds the blocks of HeapInv, which are tiled.                  *)
LEMMA InvMeansTiled == HeapInv => HeapIsTiled
<1> SUFFICES ASSUME HeapInv
             PROVE  HeapIsTiled
  OBVIOUS
<1>1. PICK B : Served(heap, B, held, freed)
  BY DEF HeapInv
<1>2. InOrder(heap, B) /\ DOMAIN held = GivenOut(heap, B)
  BY <1>1 DEF Served
<1>3. /\ Blocks = B /\ FreeBlocks = FreeIn(heap, B)
      /\ B # {} => Tidy(heap, B)
  BY <1>2, BlocksAre
<1>4. ASSUME NEW b \in Blocks
      PROVE  /\ Header(heap, b).size >= MIN_BLOCK_SIZE
             /\ Next(heap, b) \in Blocks \cup {Epilogue(heap)}
  <2>1. Tiles(heap, B) /\ b \in B
    BY <1>3 DEF Tidy, Sound
  <2> QED
    BY <1>3, <2>1, TilesFacts DEF MIN_BLOCK_SIZE
<1>5. Blocks \ (FreeBlocks \cup {0}) = DOMAIN held
  BY <1>2, <1>3 DEF GivenOut, UsedIn, FreeIn
<1>6. \A p \in DOMAIN held : /\ Header(heap, p).pay = held[p].size
                             /\ held[p].size + 16 <= 16 * Header(heap, p).size
  BY <1>1 DEF Served, Serves
<1> QED
  BY <1>4, <1>5, <1>6 DEF HeapIsTiled

(* The neighbours of the blocks of HeapInv agree.                          *)
LEMMA InvMeansAgreed == HeapInv => NeighboursAgree
<1> SUFFICES ASSUME HeapInv, NEW b \in Blocks
             PROVE  Agrees(heap, b)
  BY DEF NeighboursAgree, Agrees
<1>1. PICK B : Served(heap, B, held, freed)
  BY DEF HeapInv
<1>2. Blocks = B /\ (B # {} => Tidy(heap, B))
  BY <1>1, BlocksAre DEF Served
<1> QED
  BY <1>2 DEF Tidy, Sound

(* Each free block is in one list only, so the list where it rests is the  *)
(* list it is in.                                                          *)
LEMMA InvMeansListed == HeapInv => ListsHoldFreeBlocks
<1> SUFFICES ASSUME HeapInv
             PROVE  ListsHoldFreeBlocks
  OBVIOUS
<1>1. PICK B : Served(heap, B, held, freed)
  BY DEF HeapInv
<1>2. InOrder(heap, B)
  BY <1>1 DEF Served
<1>3. /\ Blocks = B /\ FreeBlocks = FreeIn(heap, B)
      /\ B # {} => Tidy(heap, B)
      /\ B = {} => Lists(heap.lists, FreeIn(heap, B))
  BY <1>2, BlocksAre
<1>4. PICK F, L : F = FreeIn(heap, B) /\ L = heap.lists
  OBVIOUS
<1>5. Lists(L, F)
  BY <1>3, <1>4 DEF Tidy, Sound
<1>6. DOMAIN L = ListNumbers /\ \A i : Members(heap, i) = ToSet(L[i])
  BY <1>4, <1>5 DEF Lists, Members
<1>7. UNION {Members(heap, i) : i \in DOMAIN L} = FreeBlocks
  <2>1. \A b : b \in F <=> \E i \in ListNumbers : b \in Members(heap, i)
    BY <1>5, <1>6 DEF Lists
  <2> QED
    BY <1>3, <1>4, <1>6, <2>1
<1>8. \A i, j \in DOMAIN L : i # j => Members(heap, i) \cap Members(heap, j) = {}
  <2>1. \A i, j \in ListNumbers : i # j => \A b \in ToSet(L[i]) : b \notin ToSet(L[j])
    BY <1>5 DEF Lists
  <2> QED
    BY <1>6, <2>1
<1>9. ASSUME NEW i \in ListNumbers, NEW b \in Members(heap, i)
      PROVE  \/ i = find_allocation_index(Header(heap, b).size)
             \/ i = NUM_FREE_LISTS - 1 /\ b = find_last_in_heap(heap)
  <2>1. b \in ToSet(L[i]) /\ b \in F
    BY <1>5, <1>6 DEF Lists
  <2>2. Tidy(heap, B) /\ b \in B
    BY <1>3, <1>4, <2>1 DEF FreeIn
  <2>3. \A j \in ListNumbers : b \in ToSet(L[j]) => j = i
    BY <1>5, <2>1 DEF Lists
  <2>4. Rests(heap, b)
    BY <1>4, <2>1, <2>2 DEF Tidy
  <2>5. CASE b \in ToSet(L[find_allocation_index(Header(heap, b).size)])
    BY <2>3, <2>5, IndexIsAList
  <2>6. CASE b \in ToSet(L[NUM_FREE_LISTS - 1]) /\ Next(heap, b) = Epilogue(heap)
    <3>1. i = NUM_FREE_LISTS - 1
      BY <2>3, <2>6, LastListIsAList
    <3>2. b = find_last_in_heap(heap)
      BY <2>2, <2>6, LastIsFound DEF Tidy, Sound
    <3> QED
      BY <3>1, <3>2
  <2> QED
    BY <1>4, <2>4, <2>5, <2>6 DEF Rests
<1>10. \A b \in FreeBlocks : Next(heap, b) \notin FreeBlocks
  <2> TAKE b \in FreeBlocks
  <2>1. Tidy(heap, B)
    BY <1>3 DEF FreeIn
  <2> QED
    BY <1>3, <2>1 DEF Tidy
<1>11. \A i \in DOMAIN L : IsInjective(L[i])
  BY <1>5, <1>6 DEF Lists
<1> QED
  BY <1>4, <1>6, <1>7, <1>8, <1>9, <1>10, <1>11 DEF ListsHoldFreeBlocks

(* What the program wrote is what it holds.                                *)
LEMMA InvMeansKept == HeapInv => ContentsKept
<1> SUFFICES ASSUME HeapInv
             PROVE  ContentsKept
  OBVIOUS
<1>1. PICK B : Served(heap, B, held, freed)
  BY DEF HeapInv
<1> QED
  BY <1>1 DEF Served, Serves, ContentsKept

(* The block before one that is held has told it that it is allocated, or  *)
(* not; a freed pointer is no header of an allocated block.                *)
LEMMA InvMeansToldApart == HeapInv => FreeTellsThemApart
<1> SUFFICES ASSUME HeapInv
             PROVE  FreeTellsThemApart
  OBVIOUS
<1>1. PICK B : Served(heap, B, held, freed)
  BY DEF HeapInv
<1>2. ASSUME NEW p \in DOMAIN held
      PROVE  is_valid(heap, p)
  <2>1. InOrder(heap, B) /\ p \in GivenOut(heap, B)
    BY <1>1 DEF Served
  <2>2. /\ Tidy(heap, B) /\ p \in B /\ p # 0 /\ Header(heap, p).alloc
        /\ p \in Nat /\ p < Epilogue(heap)
    BY <2>1, GivenOutFacts
  <2>3. Tiles(heap, B) /\ \A b \in B : Agrees(heap, b)
    BY <2>2 DEF Tidy, Sound
  <2>4. PICK q \in B : q < p /\ Next(heap, q) = p
    BY <2>2, <2>3, PredecessorExists
  <2>5. Header(heap, p).prev = Footer(heap, p).alloc
    BY <2>3, <2>4 DEF Agrees
  <2>6. p >= 2
    BY <2>2, <2>3, <2>4, TilesFacts
  <2>7. p \in MIN_BLOCK_SIZE .. Epilogue(heap)
    <3>1. Epilogue(heap) \in Nat
      BY <2>3, TilesFacts
    <3> QED
      BY <2>2, <2>6, <3>1 DEF MIN_BLOCK_SIZE
  <2> QED
    BY <2>2, <2>5, <2>7 DEF is_valid
<1>3. \A p \in freed : ~ is_valid(heap, p)
  BY <1>1 DEF Served, Idle, is_valid
<1> QED
  BY <1>2, <1>3 DEF FreeTellsThemApart

-----------------------------------------------------------------------------
(* Sizes of which nothing is left over.                                    *)

(* A free block is a multiple of the grain, or it is the last one of a     *)
(* page that does not end where one unit would be left.                    *)
LEMMA NothingLeft ==
  ASSUME \E k : Regular(k), HeapInv
  PROVE  NothingIsLeftOver
  <1> SUFFICES ASSUME NEW size \in Sizes, NEW total, total = calculate_block_size(size),
                      NEW g, g = grown(heap, total),
                      NEW b, b = fitting(g, total), b # NoBlock
               PROVE  Header(g, b).size - total # 1
    BY DEF NothingIsLeftOver, MIN_BLOCK_SIZE
  <1>1. PICK B : Served(heap, B, held, freed)
    BY DEF HeapInv
  <1>2. InOrder(heap, B) /\ DOMAIN held = GivenOut(heap, B)
    BY <1>1 DEF Served
  <1>3. PICK E : Grows(heap, B, g, E, {})
    <2>1. PICK D \in SUBSET Units : D = {}
      OBVIOUS
    <2> QED
      BY <1>2, <2>1, HeapIsGrown
  <1>4. /\ Regular(Grain) /\ Grain \in Nat /\ Grain >= 2
        /\ Multiple(Grain, total)
    BY GrainFacts DEF Regular
  <1>5. total \in Nat
    BY NextSizes, BlockSizes
  <1>6. Tidy(g, E) /\ b \in FreeIn(g, E)
    <2>1. g \in Heaps
      BY <1>3 DEF Grows, InOrder, Started, Tidy, Sound, Tiles
    <2>2. CASE Tidy(g, E)
      <3>1. Lists(g.lists, FreeIn(g, E))
        BY <2>2 DEF Tidy, Sound
      <3> QED
        BY <2>1, <2>2, <3>1, FittingIsFree
    <2>3. CASE Started(g)
      <3>1. PICK F : F = {} /\ Lists(g.lists, F)
        BY <2>3 DEF Started
      <3>2. b \in F
        BY <2>1, <3>1, FittingIsFree
      <3> QED
        BY <3>1, <3>2
    <2> QED
      BY <1>3, <2>2, <2>3 DEF Grows, InOrder
  <1>7. /\ Tiles(g, E) /\ b \in E /\ b \in Nat
        /\ Header(g, b).size \in Nat
        /\ Next(g, b) = b + Header(g, b).size
        /\ Next(g, b) \in E \cup {Epilogue(g)} /\ Next(g, b) > b
    <2>1. Tiles(g, E) /\ b \in E
      BY <1>6 DEF Tidy, Sound, FreeIn
    <2> QED
      BY <2>1, TilesFacts
  <1>8. ASSUME NEW p \in UsedIn(g, E), p # 0
        PROVE  Multiple(Grain, p - 2) /\ Multiple(Grain, Next(g, p) - 2)
    <2>1. p \in DOMAIN held
      BY <1>2, <1>3, <1>8 DEF Grows, GivenOut
    <2>2. Multiple(Grain, p - 2) /\ Multiple(Grain, Header(heap, p).size)
      BY <1>1, <2>1 DEF Served, Serves, Placed
    <2>3. Header(g, p).size = Header(heap, p).size
      BY <1>2, <1>3, <2>1 DEF Grows, Keeps, SameHead
    <2>4. Multiple(Grain, (p - 2) + Header(g, p).size)
      BY <1>4, <2>2, <2>3, SumIsMultiple
    <2>5. (p - 2) + Header(g, p).size = Next(g, p) - 2
      <3>1. p \in E
        BY DEF UsedIn
      <3>2. p \in Nat /\ Header(g, p).size \in Nat /\ Next(g, p) = p + Header(g, p).size
        BY <1>7, <3>1, TilesFacts
      <3> QED
        BY <3>2
    <2> QED
      BY <2>2, <2>4, <2>5
  <1>9. Multiple(Grain, b - 2)
    <2>1. PICK p \in UsedIn(g, E) : Next(g, p) = b
      BY <1>6, FreeIsBehindUsed
    <2>2. CASE p = 0
      <3>1. Header(g, 0).size = 2
        BY <1>7 DEF Tiles
      <3>2. b - 2 = 0
        BY <2>1, <2>2, <3>1 DEF Next
      <3> QED
        BY <1>4, <3>2, ZeroIsMultiple
    <2>3. CASE p # 0
      BY <1>8, <2>1, <2>3
    <2> QED
      BY <2>2, <2>3
  <1>10. PICK s \in Nat : s = Header(g, b).size
    BY <1>7
  <1>11. CASE Next(g, b) \in E
    <2>1. Next(g, b) \in UsedIn(g, E) /\ Next(g, b) # 0
      BY <1>6, <1>7, <1>11 DEF Tidy, UsedIn, FreeIn
    <2>2. Multiple(Grain, Next(g, b) - 2)
      BY <1>8, <2>1
    <2>3. Multiple(Grain, ((Next(g, b) - 2) - (b - 2)) - total)
      BY <1>4, <1>9, <2>2, SumIsMultiple
    <2>4. ((Next(g, b) - 2) - (b - 2)) - total = s - total
      BY <1>5, <1>7, <1>10
    <2> QED
      BY <1>4, <1>10, <2>3, <2>4, OneIsNoMultiple
  <1>12. CASE Next(g, b) = Epilogue(g)
    <2> SUFFICES ASSUME s - total = 1
                 PROVE  FALSE
      BY <1>10
    <2>1. Multiple(Grain, total + (b - 2))
      BY <1>4, <1>9, SumIsMultiple
    <2>2. g.pages \in 1 .. MaxPages /\ g \in Heaps
      <3>1. g \in Heaps /\ g.pages # 0
        BY <1>7 DEF Tiles
      <3> QED
        BY <3>1, HeapTypes, ConstantsAreNumbers
    <2>3. total + (b - 2) = g.pages * PageUnits - 4
      <3>1. PICK e \in Nat : e = End(g)
        BY <2>2, HeapTypes, ConstantsAreNumbers
      <3>2. b + s = e - 1
        BY <1>7, <1>10, <1>12, <3>1 DEF Epilogue
      <3>3. total + (b - 2) = e - 4
        BY <1>5, <1>7, <3>2
      <3>4. e = g.pages * PageUnits
        BY <3>1 DEF End
      <3> QED
        BY <3>3, <3>4
    <2>4. ~ Multiple(Grain, g.pages * PageUnits - 4)
      BY <1>4, <2>2 DEF Regular
    <2> QED
      BY <2>1, <2>3, <2>4
  <1> QED
    BY <1>7, <1>11, <1>12

(* With the pages of the code, of 4096 bytes, blocks of 128 bytes, 256 and *)
(* so on are regular: between prologue and epilogue there always are 5     *)
(* units more than a multiple of 8.                                        *)
LEMMA EightIsRegular ==
  ASSUME PageUnits = 256, \A size \in Sizes : calculate_block_size(size) % 8 = 0
  PROVE  Regular(8)
  <1>1. ASSUME NEW size \in Sizes
        PROVE  Multiple(8, calculate_block_size(size))
    <2>1. PICK x \in Nat : x = calculate_block_size(size) /\ x % 8 = 0
      BY NextSizes, BlockSizes
    <2>2. x \div 8 \in Int /\ x = (x \div 8) * 8
      BY <2>1
    <2> QED
      BY <2>1, <2>2 DEF Multiple
  <1>2. ASSUME NEW n \in 1 .. MaxPages, NEW m \in Int, n * 256 - 4 = m * 8
        PROVE  FALSE
    BY <1>2
  <1> QED
    BY <1>1, <1>2 DEF Regular, Multiple

(* Of some finite sets one is smallest.                                    *)
LEMMA SmallestSet ==
  ASSUME NEW S, IsFiniteSet(S), NEW Bad \in SUBSET (SUBSET S), Bad # {}
  PROVE  \E s \in Bad : /\ IsFiniteSet(s) /\ Cardinality(s) \in Nat
                        /\ \A t \in Bad : Cardinality(t) >= Cardinality(s)
  <1> DEFINE T == {n \in Nat : \E s \in Bad : Cardinality(s) = n}
             R == OpToRel(<, Nat)
  <1>1. \A s \in Bad : IsFiniteSet(s) /\ Cardinality(s) \in Nat
    BY FS_Subset, FS_CardinalityType
  <1>2. T # {}
    BY <1>1
  <1>3. PICK n \in T : \A m \in T : ~ (m < n)
    <2>1. PICK n \in T : \A m \in T : ~ (<<m, n>> \in R)
      <3>1. T \subseteq Nat
        OBVIOUS
      <3> HIDE DEF T
      <3> QED
        BY <1>2, <3>1, WFMin, NatLessThanWellFounded
    <2>2. \A m \in T : m < n => <<m, n>> \in R
      BY DEF OpToRel
    <2> QED
      BY <2>1, <2>2
  <1>4. \A m \in T : m >= n
    BY <1>3
  <1>5. PICK s \in Bad : Cardinality(s) = n
    BY <1>3
  <1>6. \A t \in Bad : Cardinality(t) \in T
    BY <1>1
  <1> QED
    BY <1>1, <1>4, <1>5, <1>6

(* g[s] is the sum of f over s, in whatever order.                         *)
Adds(g, f, S) ==
  /\ g \in [SUBSET S -> Nat]
  /\ g[{}] = 0
  /\ \A s \in SUBSET S : \A x \in s : g[s] = f[x] + g[s \ {x}]

(* What there is to add up has a sum.                                      *)
LEMMA SumsExist ==
  ASSUME NEW S, IsFiniteSet(S), NEW f \in [S -> Nat]
  PROVE  \E g : Adds(g, f, S)
  <1> DEFINE Bad == {s \in SUBSET S : ~ \E g : Adds(g, f, s)}
  <1>1. ASSUME Bad # {}
        PROVE  FALSE
    <2>1. PICK s \in Bad : /\ IsFiniteSet(s) /\ Cardinality(s) \in Nat
                           /\ \A t \in Bad : Cardinality(t) >= Cardinality(s)
      <3>1. Bad \in SUBSET (SUBSET S)
        OBVIOUS
      <3> HIDE DEF Bad
      <3> QED
        BY <1>1, <3>1, SmallestSet
    <2>2. CASE s = {}
      <3>1. PICK g : g = [r \in SUBSET s |-> 0]
        OBVIOUS
      <3>2. Adds(g, f, s)
        BY <2>2, <3>1 DEF Adds
      <3> QED
        BY <3>2
    <2>3. CASE s # {}
      <3>1. PICK x \in s : TRUE
        BY <2>3
      <3>2. PICK t : t = s \ {x}
        OBVIOUS
      <3>3. t \notin Bad
        <4>1. Cardinality(t) = Cardinality(s) - 1
          BY <2>1, <3>1, <3>2, FS_RemoveElement
        <4> QED
          BY <2>1, <4>1
      <3>4. PICK g : Adds(g, f, t)
        BY <3>2, <3>3
      <3>5. f[x] \in Nat
        OBVIOUS
      <3>6. PICK k : k = [r \in SUBSET s |-> IF x \in r THEN f[x] + g[r \ {x}] ELSE g[r]]
        OBVIOUS
      <3>7. \A r \in SUBSET s : /\ r \ {x} \in SUBSET t
                                /\ x \notin r => r \in SUBSET t
        BY <3>2
      <3>8. k \in [SUBSET s -> Nat]
        BY <3>4, <3>5, <3>6, <3>7 DEF Adds
      <3>9. k[{}] = 0
        BY <3>4, <3>6 DEF Adds
      <3>10. ASSUME NEW r \in SUBSET s, NEW y \in r
             PROVE  k[r] = f[y] + k[r \ {y}]
        <4>0. r \ {y} \in SUBSET s /\ f[y] \in Nat
          OBVIOUS
        <4>1. CASE y = x
          BY <3>6, <4>0, <4>1
        <4>2. CASE y # x /\ x \notin r
          BY <3>4, <3>6, <3>7, <4>0, <4>2 DEF Adds
        <4>3. CASE y # x /\ x \in r
          <5>1. k[r] = f[x] + g[r \ {x}]
            BY <3>6, <4>3
          <5>2. k[r \ {y}] = f[x] + g[(r \ {y}) \ {x}]
            BY <3>6, <4>0, <4>3
          <5>3. (r \ {y}) \ {x} = (r \ {x}) \ {y} /\ y \in r \ {x}
            BY <4>3
          <5>4. /\ g[r \ {x}] = f[y] + g[(r \ {x}) \ {y}]
                /\ g[(r \ {x}) \ {y}] \in Nat
            BY <3>4, <3>7, <5>3 DEF Adds
          <5>5. PICK m \in Nat : m = g[(r \ {x}) \ {y}]
            BY <5>4
          <5>6. k[r] = f[x] + (f[y] + m) /\ k[r \ {y}] = f[x] + m
            BY <5>1, <5>2, <5>3, <5>4, <5>5
          <5> HIDE DEF Bad
          <5> QED
            BY <3>5, <4>0, <5>6
        <4> QED
          BY <4>1, <4>2, <4>3
      <3>11. Adds(k, f, s)
        BY <3>8, <3>9, <3>10 DEF Adds
      <3> QED
        BY <3>11
    <2> QED
      BY <2>2, <2>3
  <1>2. S \notin Bad
    BY <1>1
  <1> QED
    BY <1>2

(* Sums are the same when they differ in summands that are 0.              *)
LEMMA SumsAgree ==
  ASSUME NEW S, IsFiniteSet(S), NEW T \in SUBSET S, NEW f, NEW k, NEW g, NEW l,
         Adds(g, f, S), Adds(l, k, T),
         \A x \in T : f[x] = k[x], \A x \in S \ T : f[x] = 0
  PROVE  g[S] = l[T]
  <1> DEFINE Bad == {s \in SUBSET S : g[s] # l[s \cap T]}
  <1>1. ASSUME Bad # {}
        PROVE  FALSE
    <2>1. PICK s \in Bad : /\ IsFiniteSet(s) /\ Cardinality(s) \in Nat
                           /\ \A t \in Bad : Cardinality(t) >= Cardinality(s)
      <3>1. Bad \in SUBSET (SUBSET S)
        OBVIOUS
      <3> HIDE DEF Bad
      <3> QED
        BY <1>1, <3>1, SmallestSet
    <2>2. CASE s = {}
      <3>1. s \cap T = {}
        BY <2>2
      <3> QED
        BY <2>2, <3>1 DEF Adds
    <2>3. CASE s # {}
      <3>1. PICK x \in s : TRUE
        BY <2>3
      <3>2. PICK t : t = s \ {x}
        OBVIOUS
      <3>3. t \notin Bad
        <4>1. Cardinality(t) = Cardinality(s) - 1
          BY <2>1, <3>1, <3>2, FS_RemoveElement
        <4> QED
          BY <2>1, <4>1
      <3>4. g[t] = l[t \cap T] /\ t \in SUBSET S
        BY <3>2, <3>3
      <3>5. g[s] = f[x] + g[t] /\ g[t] \in Nat
        BY <3>1, <3>2, <3>4 DEF Adds
      <3>6. CASE x \in T
        <4>1. t \cap T = (s \cap T) \ {x} /\ x \in s \cap T /\ s \cap T \in SUBSET T
          BY <3>1, <3>2, <3>6
        <4>2. l[s \cap T] = k[x] + l[t \cap T]
          BY <4>1 DEF Adds
        <4>3. f[x] = k[x] /\ g[s] # l[s \cap T]
          BY <3>6
        <4>4. l[s \cap T] = f[x] + g[t]
          BY <3>4, <4>2, <4>3
        <4> QED
          BY <3>5, <4>3, <4>4
      <3>7. CASE x \notin T
        <4>1. t \cap T = s \cap T
          BY <3>2, <3>7
        <4>2. f[x] = 0
          BY <3>7
        <4>3. g[s] # l[s \cap T] /\ g[s] = g[t]
          BY <3>5, <4>2
        <4> QED
          BY <3>4, <4>1, <4>3
      <3> QED
        BY <3>6, <3>7
    <2> QED
      BY <2>2, <2>3
  <1>2. S \notin Bad /\ S \cap T = T
    BY <1>1
  <1> QED
    BY <1>2

(* A sum taken one element after another, in the order of CHOOSE.          *)
Pick(s) == CHOOSE x \in s : TRUE
AddsInTurn(g, f, S) ==
  \A s \in SUBSET S : g[s] = IF s = {} THEN 0 ELSE f[Pick(s)] + g[s \ {Pick(s)}]

(* The order makes no difference.                                          *)
LEMMA SumIsTheSum ==
  ASSUME NEW S, IsFiniteSet(S), NEW f, NEW a, Adds(a, f, S), NEW g,
         AddsInTurn(g, f, S)
  PROVE  g[S] = a[S]
  <1> DEFINE Bad == {s \in SUBSET S : g[s] # a[s]}
  <1>1. ASSUME Bad # {}
        PROVE  FALSE
    <2>1. PICK s \in Bad : /\ IsFiniteSet(s) /\ Cardinality(s) \in Nat
                           /\ \A t \in Bad : Cardinality(t) >= Cardinality(s)
      <3>1. Bad \in SUBSET (SUBSET S)
        OBVIOUS
      <3> HIDE DEF Bad
      <3> QED
        BY <1>1, <3>1, SmallestSet
    <2>2. CASE s = {}
      BY <2>2 DEF Adds, AddsInTurn
    <2>3. CASE s # {}
      <3>1. PICK x \in s : x = Pick(s)
        BY <2>3 DEF Pick
      <3>2. PICK t : t = s \ {x}
        OBVIOUS
      <3>3. t \notin Bad
        <4>1. Cardinality(t) = Cardinality(s) - 1
          BY <2>1, <3>1, <3>2, FS_RemoveElement
        <4> QED
          BY <2>1, <4>1
      <3>4. g[t] = a[t]
        BY <3>2, <3>3
      <3>5. a[s] = f[x] + a[t]
        BY <3>1, <3>2 DEF Adds
      <3>6. g[s] = f[x] + g[t]
        BY <2>3, <3>1, <3>2 DEF AddsInTurn
      <3> QED
        BY <2>1, <3>4, <3>5, <3>6
    <2> QED
      BY <2>2, <2>3
  <1>2. S \notin Bad
    BY <1>1
  <1> QED
    BY <1>2

(* What the blocks in S have as payload sizes, and as sizes in bytes, and  *)
(* what is held, all together.                                             *)
PaysOf(h, S) == MapThenSumSet(LAMBDA b : Header(h, b).pay, S)
SpacesOf(h, S) == MapThenSumSet(LAMBDA b : 16 * Header(h, b).size, S)
SizesOf(hl) == MapThenSumSet(LAMBDA p : hl[p].size, DOMAIN hl)

(* MapThenSumSet adds up the sizes of what is held.                        *)
LEMMA SizesAreSummed ==
  ASSUME NEW hl, NEW S, S = DOMAIN hl, IsFiniteSet(S), NEW f \in [S -> Nat],
         \A p \in S : f[p] = hl[p].size, NEW a, Adds(a, f, S)
  PROVE  SizesOf(hl) = a[S]
  <1> DEFINE IsSum(g) == g = [s \in SUBSET S |->
                               IF s = {} THEN 0
                               ELSE hl[(CHOOSE x \in s : TRUE)].size
                                    + g[s \ {CHOOSE x \in s : TRUE}]]
  <1>1. IsSum(a)
    <2>1. ASSUME NEW s \in SUBSET S, s # {}
          PROVE  a[s] = hl[(CHOOSE x \in s : TRUE)].size
                        + a[s \ {CHOOSE x \in s : TRUE}]
      <3>1. PICK x \in s : x = CHOOSE y \in s : TRUE
        BY <2>1
      <3>2. a[s] = f[x] + a[s \ {x}] /\ f[x] = hl[x].size
        BY <3>1 DEF Adds
      <3> QED
        BY <3>1, <3>2
    <2>2. a = [s \in SUBSET S |-> a[s]] /\ a[{}] = 0
      BY DEF Adds
    <2> QED
      BY <2>1, <2>2
  <1>2. PICK g : g = CHOOSE r : IsSum(r)
    OBVIOUS
  <1>3. IsSum(g)
    <2> HIDE DEF IsSum
    <2> QED
      BY <1>1, <1>2
  <1>4. SizesOf(hl) = g[S]
    <2>1. MapThenSumSet(LAMBDA p : hl[p].size, S) = g[S]
      BY <1>2 DEF MapThenSumSet, MapThenFoldSet
    <2>2. SizesOf(hl) = MapThenSumSet(LAMBDA p : hl[p].size, S)
      BY DEF SizesOf
    <2> QED
      BY <2>1, <2>2
  <1>5. ASSUME NEW s \in SUBSET S
        PROVE  g[s] = IF s = {} THEN 0 ELSE f[Pick(s)] + g[s \ {Pick(s)}]
    <2>1. g[s] = IF s = {} THEN 0
                 ELSE hl[(CHOOSE x \in s : TRUE)].size
                      + g[s \ {CHOOSE x \in s : TRUE}]
      BY <1>3
    <2>2. s # {} => Pick(s) \in S
      BY DEF Pick
    <2> QED
      BY <2>1, <2>2 DEF Pick
  <1>6. g[S] = a[S]
    <2> HIDE DEF IsSum
    <2>1. AddsInTurn(g, f, S)
      BY <1>5 DEF AddsInTurn
    <2> QED
      BY <2>1, SumIsTheSum
  <1> QED
    BY <1>4, <1>6

(* MapThenSumSet adds up payload sizes.                                    *)
LEMMA PaysAreSummed ==
  ASSUME NEW h, NEW S, IsFiniteSet(S), NEW f \in [S -> Nat],
         \A b \in S : f[b] = Header(h, b).pay, NEW a, Adds(a, f, S)
  PROVE  PaysOf(h, S) = a[S]
  <1> DEFINE IsSum(g) == g = [s \in SUBSET S |->
                               IF s = {} THEN 0
                               ELSE Header(h, CHOOSE x \in s : TRUE).pay
                                    + g[s \ {CHOOSE x \in s : TRUE}]]
  <1>1. IsSum(a)
    <2>1. ASSUME NEW s \in SUBSET S, s # {}
          PROVE  a[s] = Header(h, CHOOSE x \in s : TRUE).pay
                        + a[s \ {CHOOSE x \in s : TRUE}]
      <3>1. PICK x \in s : x = CHOOSE y \in s : TRUE
        BY <2>1
      <3>2. a[s] = f[x] + a[s \ {x}] /\ f[x] = Header(h, x).pay
        BY <3>1 DEF Adds
      <3> QED
        BY <3>1, <3>2
    <2>2. a = [s \in SUBSET S |-> a[s]] /\ a[{}] = 0
      BY DEF Adds
    <2> QED
      BY <2>1, <2>2
  <1>2. PICK g : g = CHOOSE r : IsSum(r)
    OBVIOUS
  <1>3. IsSum(g)
    <2> HIDE DEF IsSum
    <2> QED
      BY <1>1, <1>2
  <1>4. PaysOf(h, S) = g[S]
    BY <1>2 DEF PaysOf, MapThenSumSet, MapThenFoldSet
  <1>5. ASSUME NEW s \in SUBSET S
        PROVE  g[s] = IF s = {} THEN 0 ELSE f[Pick(s)] + g[s \ {Pick(s)}]
    <2>1. g[s] = IF s = {} THEN 0
                 ELSE Header(h, CHOOSE x \in s : TRUE).pay
                      + g[s \ {CHOOSE x \in s : TRUE}]
      BY <1>3
    <2>2. s # {} => Pick(s) \in S
      BY DEF Pick
    <2> QED
      BY <2>1, <2>2 DEF Pick
  <1>6. g[S] = a[S]
    <2> HIDE DEF IsSum
    <2>1. AddsInTurn(g, f, S)
      BY <1>5 DEF AddsInTurn
    <2> QED
      BY <2>1, SumIsTheSum
  <1> QED
    BY <1>4, <1>6

(* The larger of two numbers.                                              *)
LEMMA LargerOfTwo ==
  ASSUME NEW m \in Nat, NEW n \in Nat
  PROVE  /\ Max({m, n}) \in Nat
         /\ Max({m, n}) = m \/ (Max({m, n}) > m /\ Max({m, n}) = n)
         /\ Max({m, n}) >= n
  <1>1. \E x \in {m, n} : \A y \in {m, n} : x >= y
    <2>1. CASE m >= n
      BY <2>1
    <2>2. CASE ~ (m >= n)
      BY <2>2
    <2> QED
      BY <2>1, <2>2
  <1>2. /\ Max({m, n}) \in {m, n}
        /\ \A y \in {m, n} : Max({m, n}) >= y
    BY <1>1 DEF Max
  <1> QED
    BY <1>2


-----------------------------------------------------------------------------
(* Statistics.                                                             *)

(* The walk of get_utilization comes to the blocks, too.                   *)
LEMMA WalkOverIsBlocks ==
  ASSUME NEW h, NEW B, InOrder(h, B)
  PROVE  walk_over(h) = B
  <1>1. CASE B = {} /\ Started(h)
    BY <1>1 DEF walk_over, Started
  <1>2. CASE Tidy(h, B)
    <2>1. PICK on : on = {b \in 0 .. End(h) : /\ Next(h, b) < End(h)
                                              /\ Header(h, Next(h, b)).size # 0}
      OBVIOUS
    <2>t. /\ Tiles(h, B) /\ h \in Heaps /\ h.pages # 0
          /\ Epilogue(h) \in Nat /\ End(h) = Epilogue(h) + 1
          /\ Header(h, Epilogue(h)).size = 0
          /\ \A b \in B : /\ b \in Nat /\ b < Epilogue(h)
                          /\ Next(h, b) \in B \cup {Epilogue(h)}
                          /\ Header(h, b).size >= 2
                          /\ Header(h, b).size \in Nat
      <3>1. Tiles(h, B)
        BY <1>2 DEF Tidy, Sound
      <3> QED
        BY <3>1, TilesFacts DEF Tiles
    <2>2. \A b \in on : Next(h, b) \in 0 .. End(h)
      <3> TAKE b \in on
      <3>1. b \in 0 .. End(h) /\ Next(h, b) < End(h)
        BY <2>1
      <3>2. b \in Units
        BY <2>t, <3>1, HeapTypes
      <3>3. Header(h, b).size \in Nat /\ b \in Nat
        BY <2>t, <3>2, WordTypes, ConstantsAreNumbers
      <3>4. Next(h, b) \in Nat
        BY <3>3 DEF Next
      <3> QED
        BY <2>t, <3>1, <3>4
    <2>3. ASSUME NEW b \in B
          PROVE  b \in on <=> Next(h, b) # Epilogue(h)
      <3>1. b \in 0 .. End(h)
        BY <2>t
      <3>2. CASE Next(h, b) = Epilogue(h)
        BY <2>1, <2>t, <3>2
      <3>3. CASE Next(h, b) # Epilogue(h)
        <4>1. Next(h, b) \in B
          BY <2>t, <3>3
        <4>2. Next(h, b) < End(h) /\ Header(h, Next(h, b)).size # 0
          BY <2>t, <4>1
        <4> QED
          BY <2>1, <3>1, <3>3, <4>2
      <3> QED
        BY <3>2, <3>3
    <2>4. on \in SUBSET (0 .. End(h))
      BY <2>1
    <2>5. Walk(h, on) = B
      BY <2>t, <2>2, <2>3, <2>4, WalkFinds
    <2> QED
      BY <2>1, <2>5, <2>t DEF walk_over
  <1> QED
    BY <1>1, <1>2 DEF InOrder

(* What is in the headers is what is held.                                 *)
Weighs(h, B, hl) ==
  /\ InOrder(h, B)
  /\ DOMAIN hl = GivenOut(h, B)
  /\ \A p \in DOMAIN hl : hl[p].size \in Nat /\ Header(h, p).pay = hl[p].size

(* The prologue and the free blocks have no payload, so the payload of all *)
(* blocks is that of the blocks held.                                      *)
LEMMA PayloadIsHeld ==
  ASSUME NEW h, NEW B, NEW hl, Weighs(h, B, hl)
  PROVE  total_payload(h) = SizesOf(hl) /\ SizesOf(hl) \in Nat
  <1>1. PICK T : T = DOMAIN hl
    OBVIOUS
  <1>2. InOrder(h, B) /\ T = GivenOut(h, B)
    BY <1>1 DEF Weighs
  <1>3. IsFiniteSet(B) /\ \A b \in B : Header(h, b).pay \in Nat
    <2>1. CASE B = {}
      BY <2>1, FS_EmptySet
    <2>2. CASE B # {}
      <3>1. Tiles(h, B)
        BY <1>2, <2>2 DEF InOrder, Tidy, Sound
      <3> QED
        BY <3>1, TilesFacts DEF Word
    <2> QED
      BY <2>1, <2>2
  <1>4. T \in SUBSET B /\ IsFiniteSet(T)
    <2>1. T \subseteq B
      BY <1>2 DEF GivenOut, UsedIn
    <2> QED
      BY <1>3, <2>1, FS_Subset
  <1>5. PICK f : f = [b \in B |-> Header(h, b).pay]
    OBVIOUS
  <1>6. PICK k : k = [p \in T |-> hl[p].size]
    OBVIOUS
  <1>7. f \in [B -> Nat] /\ k \in [T -> Nat]
    BY <1>1, <1>3, <1>5, <1>6 DEF Weighs
  <1>8. PICK a, c : Adds(a, f, B) /\ Adds(c, k, T)
    BY <1>3, <1>4, <1>7, SumsExist
  <1>9. \A x \in T : f[x] = k[x]
    BY <1>1, <1>4, <1>5, <1>6 DEF Weighs
  <1>10. \A x \in B \ T : f[x] = 0
    <2> TAKE x \in B \ T
    <2>1. Tiles(h, B)
      BY <1>2 DEF InOrder, Tidy, Sound
    <2>2. x = 0 \/ ~ Header(h, x).alloc
      BY <1>2 DEF GivenOut, UsedIn
    <2>3. Header(h, x).pay = 0
      BY <2>1, <2>2 DEF Tiles, HoldsOrFree
    <2> QED
      BY <1>5, <2>3
  <1>11. a[B] = c[T]
    BY <1>3, <1>4, <1>8, <1>9, <1>10, SumsAgree
  <1>12. PaysOf(h, B) = a[B]
    BY <1>3, <1>5, <1>7, <1>8, PaysAreSummed
  <1>13. SizesOf(hl) = c[T]
    BY <1>1, <1>4, <1>6, <1>7, <1>8, SizesAreSummed
  <1>14. total_payload(h) = PaysOf(h, walk_over(h))
    BY DEF total_payload, PaysOf
  <1>15. walk_over(h) = B
    BY <1>2, WalkOverIsBlocks
  <1>16. c[T] \in Nat
    BY <1>8 DEF Adds
  <1> QED
    BY <1>11, <1>12, <1>13, <1>14, <1>15, <1>16

(* The blocks that sfmm_get_fragmentation counts are those that are held.  *)
LEMMA FragmentationIsHeld ==
  ASSUME NEW h, NEW B, NEW hl, Weighs(h, B, hl), \A p \in DOMAIN hl : hl[p].size # 0
  PROVE  sf_fragmentation(h) = [payload   |-> SizesOf(hl),
                                allocated |-> SpacesOf(h, DOMAIN hl)]
  <1>1. PICK T : T = DOMAIN hl
    OBVIOUS
  <1>2. InOrder(h, B) /\ T = GivenOut(h, B)
    BY <1>1 DEF Weighs
  <1>3. PICK W : W = {b \in walk_over(h) : Header(h, b).pay # 0 /\ Header(h, b).alloc}
    OBVIOUS
  <1>4. W = T
    <2>1. walk_over(h) = B
      BY <1>2, WalkOverIsBlocks
    <2>2. \A b \in T : b \in B /\ Header(h, b).pay # 0 /\ Header(h, b).alloc
      BY <1>1, <1>2 DEF Weighs, GivenOut, UsedIn
    <2>3. ASSUME NEW b \in B, Header(h, b).pay # 0, Header(h, b).alloc
          PROVE  b \in T
      <3>1. Tiles(h, B)
        BY <1>2 DEF InOrder, Tidy, Sound
      <3>2. b # 0
        BY <2>3, <3>1 DEF Tiles
      <3> QED
        BY <1>2, <2>3, <3>2 DEF GivenOut, UsedIn
    <2> QED
      BY <1>3, <2>1, <2>2, <2>3
  <1>5. IsFiniteSet(T)
    <2>1. T \subseteq B /\ (B # {} => Tiles(h, B))
      BY <1>2 DEF GivenOut, UsedIn, InOrder, Tidy, Sound
    <2>2. IsFiniteSet(B)
      <3>1. CASE B = {}
        BY <3>1, FS_EmptySet
      <3>2. CASE B # {}
        BY <2>1, <3>2, TilesFacts
      <3> QED
        BY <3>1, <3>2
    <2> QED
      BY <2>1, <2>2, FS_Subset
  <1>6. PICK k : k = [p \in T |-> hl[p].size]
    OBVIOUS
  <1>7. k \in [T -> Nat] /\ \A p \in T : k[p] = hl[p].size /\ k[p] = Header(h, p).pay
    BY <1>1, <1>6 DEF Weighs
  <1>8. PICK c : Adds(c, k, T)
    BY <1>5, <1>7, SumsExist
  <1>9. PaysOf(h, T) = c[T]
    BY <1>5, <1>7, <1>8, PaysAreSummed
  <1>10. SizesOf(hl) = c[T]
    BY <1>1, <1>5, <1>7, <1>8, SizesAreSummed
  <1>11. sf_fragmentation(h) = [payload |-> PaysOf(h, W), allocated |-> SpacesOf(h, W)]
    BY <1>3 DEF sf_fragmentation, PaysOf, SpacesOf
  <1> QED
    BY <1>1, <1>4, <1>9, <1>10, <1>11

(* What a program that is served holds is in the headers.                  *)
LEMMA ServedWeighs ==
  ASSUME NEW h, NEW B, NEW hl, NEW fr, Served(h, B, hl, fr)
  PROVE  Weighs(h, B, hl)
  BY DEF Served, Serves, Holding, Weighs

-----------------------------------------------------------------------------
(* What a call does to the statistics.                                     *)

(* What is held has been requested.                                        *)
Requested == \A p \in DOMAIN held : held[p].size \in Sizes

(* The peak is a number, and the sizes are the requested ones.             *)
Counted == peak \in Nat /\ Requested

(* The peak after a walk over a heap with what is held meanwhile.          *)
LEMMA PeakIsTaken ==
  ASSUME peak \in Nat, NEW h, NEW B, NEW hl, Weighs(h, B, hl),
         NEW m, m = get_utilization(h), NEW s, s = SizesOf(hl)
  PROVE  /\ m \in Nat
         /\ m = peak \/ (m > peak /\ m = s)
         /\ m >= s
  <1>1. total_payload(h) = s /\ s \in Nat
    BY PayloadIsHeld
  <1>2. m = Max({peak, s})
    BY <1>1 DEF get_utilization
  <1> QED
    BY <1>1, <1>2, LargerOfTwo

(* Two blocks together: the one that is got and those that are held.       *)
LEMMA HandedWeighs ==
  ASSUME NEW g, NEW C, NEW hl, NEW fr, NEW b, NEW size \in Nat,
         Handed(g, C, hl, fr, b, size), NEW ml,
         DOMAIN ml = DOMAIN hl \cup {b}, ml[b].size = size,
         \A p \in DOMAIN hl : ml[p] = hl[p]
  PROVE  Weighs(g, C, ml)
  <1>1. /\ InOrder(g, C) /\ GivenOut(g, C) = DOMAIN hl \cup {b}
        /\ Header(g, b).pay = size
    BY DEF Handed, InOrder
  <1>2. \A p \in DOMAIN hl : hl[p].size \in Nat /\ Header(g, p).pay = hl[p].size
    BY DEF Handed, Serves, Holding
  <1> QED
    BY <1>1, <1>2 DEF Weighs

(* What is held meanwhile is what is held after and, else, before.         *)
Together(gl, hl) ==
  [p \in DOMAIN gl \cup DOMAIN hl |-> IF p \in DOMAIN gl THEN gl[p] ELSE hl[p]]

(* A call keeps the statistics true.                                       *)
LEMMA StatisticsStep ==
  /\ HeapInv /\ HeapInv' /\ peak \in Nat /\ Requested /\ NothingIsLeftOver
  /\ [Step]_vars
  => peak' \in Nat /\ Requested' /\ [Measured]_<<heap, held, peak>>
<1> SUFFICES ASSUME HeapInv, HeapInv', peak \in Nat, Requested, NothingIsLeftOver,
                    [Step]_vars
             PROVE  peak' \in Nat /\ Requested' /\ [Measured]_<<heap, held, peak>>
  OBVIOUS
<1>1. PICK B : Served(heap, B, held, freed)
  BY DEF HeapInv
<1>2. PICK t, gl, fs, E : /\ t = heap' /\ gl = held' /\ fs = freed'
                          /\ Served(t, E, gl, fs)
  BY DEF HeapInv
<1>3. PICK ml : ml = Together(gl, held)
  OBVIOUS
<1>4. PICK s : s = SizesOf(ml)
  OBVIOUS
<1>5. HeldMeanwhile = s
  <2>1. SizesOf(Together(held', held)) = s
    BY <1>2, <1>3, <1>4
  <2>2. HeldMeanwhile = SizesOf(Together(held', held))
    BY DEF HeldMeanwhile, SizesOf, Together
  <2> QED
    BY <2>1, <2>2
<1>6. ASSUME \A p \in DOMAIN gl : gl[p].size \in Sizes,
             \/ peak' = peak
             \/ peak' > peak /\ peak' = s,
             DOMAIN gl \ DOMAIN held # {} => peak' >= s,
             peak' \in Nat
      PROVE  peak' \in Nat /\ Requested' /\ Measured
  <2>1. Requested'
    BY <1>2, <1>6 DEF Requested
  <2>2. Weighs(t, E, gl) /\ \A p \in DOMAIN gl : gl[p].size # 0
    BY <1>2, <1>6, NextSizes, ServedWeighs
  <2>3. sf_fragmentation(t) = [payload   |-> SizesOf(gl),
                               allocated |-> SpacesOf(t, DOMAIN gl)]
    BY <2>2, FragmentationIsHeld
  <2>4. sf_fragmentation(heap') =
          [payload   |-> MapThenSumSet(LAMBDA p : held'[p].size, DOMAIN held'),
           allocated |-> MapThenSumSet(LAMBDA p : 16 * Header(heap', p).size,
                                       DOMAIN held')]
    <3>1. sf_fragmentation(heap') =
            [payload |-> SizesOf(held'), allocated |-> SpacesOf(heap', DOMAIN held')]
      BY <1>2, <2>3
    <3> QED
      BY <3>1 DEF SizesOf, SpacesOf
  <2> QED
    BY <1>2, <1>5, <1>6, <2>1, <2>4 DEF Measured
<1>7. ASSUME NEW size \in Sizes, NEW got, got = sf_malloc(heap, size),
             got.block # NoBlock, NEW x, x.size = size,
             NEW lo, DOMAIN lo \subseteq DOMAIN held,
             \A p \in DOMAIN lo : lo[p] = held[p],
             gl = With(got.block, x, lo), peak' = get_utilization(got.heap)
      PROVE  peak' \in Nat /\ Requested' /\ Measured
  <2>1. PICK g, b : g = got.heap /\ b = got.block
    OBVIOUS
  <2>2. PICK C : Handed(g, C, held, freed, b, size)
    <3>1. Cuts(heap, calculate_block_size(size))
      BY NextCuts
    <3> QED
      BY <1>1, <1>7, <2>1, <3>1, MallocServes
  <2>3. b \notin DOMAIN held
    BY <2>2 DEF Handed
  <2>4. /\ DOMAIN gl = {b} \cup DOMAIN lo
        /\ gl[b] = x
        /\ \A p \in DOMAIN lo : gl[p] = held[p]
    BY <1>7, <2>1, <2>3 DEF With
  <2>5. /\ DOMAIN ml = DOMAIN held \cup {b}
        /\ ml[b].size = size
        /\ \A p \in DOMAIN held : ml[p] = held[p]
    <3>1. /\ DOMAIN ml = DOMAIN gl \cup DOMAIN held
          /\ \A p \in DOMAIN gl : ml[p] = gl[p]
          /\ \A p \in DOMAIN held : p \notin DOMAIN gl => ml[p] = held[p]
      BY <1>3 DEF Together
    <3> QED
      BY <1>7, <2>3, <2>4, <3>1
  <2>6. Weighs(g, C, ml)
    BY <1>7, <2>2, <2>5, NextSizes, HandedWeighs
  <2>7. PICK m : m = get_utilization(g)
    OBVIOUS
  <2>8. m \in Nat /\ (m = peak \/ (m > peak /\ m = s)) /\ m >= s
    BY <1>4, <2>6, <2>7, PeakIsTaken
  <2>9. peak' = m
    BY <1>7, <2>1, <2>7
  <2>10. \A p \in DOMAIN gl : gl[p].size \in Sizes
    BY <1>7, <2>4 DEF Requested
  <2> QED
    BY <1>6, <2>8, <2>9, <2>10
<1>8. ASSUME peak' = peak, DOMAIN gl \subseteq DOMAIN held,
             \A p \in DOMAIN gl : gl[p].size \in Sizes
      PROVE  peak' \in Nat /\ Requested' /\ Measured
  BY <1>6, <1>8
<1>9. ASSUME NEW size \in Sizes, NEW w \in Data, Malloc(size, w)
      PROVE  peak' \in Nat /\ Requested' /\ Measured
  <2>1. PICK got : got = sf_malloc(heap, size)
    OBVIOUS
  <2>2. PICK x : x = [size |-> size, filled |-> size \div 16, word |-> w]
    OBVIOUS
  <2>3. x.size = size
    BY <2>2
  <2>4. /\ got.block # NoBlock /\ gl = With(got.block, x, held)
        /\ peak' = get_utilization(got.heap)
    BY <1>2, <1>9, <2>1, <2>2 DEF Malloc, MallocReturns
  <2> QED
    BY <1>7, <2>1, <2>3, <2>4
<1>10. ASSUME NEW size \in Sizes, ReturnsNull(sf_malloc(heap, size))
       PROVE  peak' \in Nat /\ Requested' /\ Measured
  <2>1. peak' = peak /\ gl = held
    BY <1>2, <1>10 DEF ReturnsNull
  <2> QED
    BY <1>8, <2>1 DEF Requested
<1>11. ASSUME NEW p \in DOMAIN held, Free(p)
       PROVE  peak' \in Nat /\ Requested' /\ Measured
  <2>1. peak' = peak /\ gl = Without(p)
    BY <1>2, <1>11 DEF Free
  <2>2. DOMAIN gl \subseteq DOMAIN held /\ \A q \in DOMAIN gl : gl[q] = held[q]
    BY <2>1 DEF Without
  <2> QED
    BY <1>8, <2>1, <2>2 DEF Requested
<1>12. ASSUME NEW p \in freed, FreeAborts(p)
       PROVE  peak' \in Nat /\ Requested' /\ Measured
  <2>1. peak' = peak /\ gl = held
    BY <1>2, <1>12 DEF FreeAborts
  <2> QED
    BY <1>8, <2>1 DEF Requested
<1>13. ASSUME NEW p \in DOMAIN held, NEW size \in Sizes, NEW how,
              ReallocInPlace(p, size, how)
       PROVE  /\ DOMAIN gl = DOMAIN held
              /\ \A q \in DOMAIN gl : gl[q].size \in Sizes
  <2>1. PICK x : x = Reduced(held[p], size)
    OBVIOUS
  <2>2. gl = [held EXCEPT ![p] = x]
    BY <1>2, <1>13, <2>1 DEF ReallocInPlace, Reduced
  <2>3. x.size = size
    <3>1. held[p] \in Holding
      BY <1>1 DEF Served
    <3> QED
      BY <2>1, <3>1 DEF Reduced, Holding
  <2>4. held = [q \in DOMAIN held |-> held[q]]
    BY <1>1 DEF Served
  <2> QED
    BY <2>2, <2>3, <2>4 DEF Requested
<1>14. ASSUME NEW p \in DOMAIN held, NEW size \in Sizes, ReallocUpdate(p, size)
       PROVE  peak' \in Nat /\ Requested' /\ Measured
  <2>1. peak' = peak /\ ReallocInPlace(p, size, "update")
    BY <1>14 DEF ReallocUpdate
  <2> QED
    BY <1>8, <1>13, <2>1
<1>15. ASSUME NEW p \in DOMAIN held, NEW size \in Sizes, ReallocSplit(p, size)
       PROVE  peak' \in Nat /\ Requested' /\ Measured
  <2>1. peak' = get_utilization(t) /\ ReallocInPlace(p, size, "split")
    BY <1>2, <1>15 DEF ReallocSplit
  <2>2. /\ DOMAIN gl = DOMAIN held
        /\ \A q \in DOMAIN gl : gl[q].size \in Sizes
    BY <1>13, <2>1
  <2>3. DOMAIN ml = DOMAIN gl /\ \A q \in DOMAIN gl : ml[q] = gl[q]
    BY <1>3, <2>2 DEF Together
  <2>4. Weighs(t, E, ml)
    <3>1. Weighs(t, E, gl)
      BY <1>2, ServedWeighs
    <3> QED
      BY <2>3, <3>1 DEF Weighs
  <2>5. PICK m : m = get_utilization(t)
    OBVIOUS
  <2>6. m \in Nat /\ (m = peak \/ (m > peak /\ m = s)) /\ m >= s
    BY <1>4, <2>4, <2>5, PeakIsTaken
  <2> QED
    BY <1>6, <2>1, <2>2, <2>5, <2>6
<1>16. ASSUME NEW p \in DOMAIN held, NEW size \in Sizes, NEW w \in Data,
              ReallocMove(p, size, w)
       PROVE  peak' \in Nat /\ Requested' /\ Measured
  <2>1. PICK got : got = sf_malloc(heap, size)
    OBVIOUS
  <2>2. PICK x, lo : x = [held[p] EXCEPT !.size = size] /\ lo = Without(p)
    OBVIOUS
  <2>3. x.size = size
    <3>1. held[p] \in Holding
      BY <1>1 DEF Served
    <3> QED
      BY <2>2, <3>1 DEF Holding
  <2>4. /\ got.block # NoBlock /\ gl = With(got.block, x, lo)
        /\ peak' = get_utilization(got.heap)
    BY <1>2, <1>16, <2>1, <2>2 DEF ReallocMove, Moved
  <2>5. DOMAIN lo \subseteq DOMAIN held /\ \A q \in DOMAIN lo : lo[q] = held[q]
    BY <2>2 DEF Without
  <2> QED
    BY <1>7, <2>1, <2>3, <2>4, <2>5
<1>17. CASE UNCHANGED vars
  BY <1>17 DEF vars, Requested
<1>18. CASE Step
  BY <1>9, <1>10, <1>11, <1>12, <1>14, <1>15, <1>16, <1>18
  DEF Step, MallocFails, ReallocFails
<1> QED
  BY <1>17, <1>18

(* After any calls, in any order, for any page size, number of pages,      *)
(* sizes requested and words written: there are blocks that follow each    *)
(* other from the prologue to the epilogue, the footers agree with them,   *)
(* and the free ones are each in their list.  The hypothesis is            *)
(* NothingIsLeftOver, an invariant of the sizes that run sfmm requests:    *)
(* where split leaves a unit over, the code takes it for a block that is   *)
(* not there (run sfmm_splinter).                                          *)
THEOREM HeapInvHolds == Spec /\ []NothingIsLeftOver => []HeapInv
BY HeapInvInit, HeapInvStep, PTL DEF Spec

(* No size in a header ever is negative and no list has an address outside *)
(* the memory, under the same hypothesis as the theorems that follow.      *)
THEOREM HeapIsTyped == Spec /\ []NothingIsLeftOver => []TypeOK
BY HeapInvHolds, InvMeansTyped, PTL

(* The headers lead from the prologue exactly to the epilogue, and the     *)
(* allocated blocks on the way are those that sf_malloc and sf_realloc     *)
(* have returned and that have not been freed, each large enough.          *)
THEOREM HeapStaysTiled == Spec /\ []NothingIsLeftOver => []HeapIsTiled
BY HeapInvHolds, InvMeansTiled, PTL

(* The footer behind every block and the prv alloc bit of the next one are *)
(* what the header of the block says, whatever touch_for_heap_update,      *)
(* coalesce and the writes to the epilogue have done before.               *)
THEOREM FootersAgree == Spec /\ []NothingIsLeftOver => []NeighboursAgree
BY HeapInvHolds, InvMeansAgreed, PTL

(* Each free block is in one list, at one place, the right one, and no two *)
(* free blocks are neighbours when a call returns.                         *)
THEOREM ListsStayTrue == Spec /\ []NothingIsLeftOver => []ListsHoldFreeBlocks
BY HeapInvHolds, InvMeansListed, PTL

(* What the program wrote to a block it holds stays there, whatever it     *)
(* requests or frees, and moves with the block in sf_realloc.              *)
THEOREM ContentsStay == Spec /\ []NothingIsLeftOver => []ContentsKept
BY HeapInvHolds, InvMeansKept, PTL

(* sf_free never aborts for a pointer that is held, and always for one     *)
(* freed before whose memory has not been given out again.                 *)
THEOREM FreeIsRight == Spec /\ []NothingIsLeftOver => []FreeTellsThemApart
BY HeapInvHolds, InvMeansToldApart, PTL

(* The peak becomes the payload that is held during a call, if it is more, *)
(* and the fragmentation is that of the blocks held: the walks over the    *)
(* heap find what the program holds and nothing that it freed before.      *)
THEOREM StatisticsStayTrue == Spec /\ []NothingIsLeftOver => StatisticsAreTrue
<1>1. Init => Counted
  BY DEF Init, Requested, Counted
<1>2. Spec /\ []NothingIsLeftOver => []HeapInv
  BY HeapInvHolds
<1>3. HeapInv /\ HeapInv' /\ Counted /\ NothingIsLeftOver /\ [Step]_vars
      => Counted' /\ [Measured]_<<heap, held, peak>>
  BY StatisticsStep DEF Counted
<1> QED
  BY <1>1, <1>2, <1>3, PTL DEF Spec, StatisticsAreTrue

(* The hypothesis holds of itself when the sizes requested are regular:    *)
(* their blocks are multiples of k units and no page ends 4 units behind   *)
(* one (k = 5 for the sizes and pages of run sfmm).  Every block that the  *)
(* program holds then begins at a multiple of k behind the prologue.       *)
THEOREM NothingStaysOver ==
  ASSUME NEW k, Regular(k)
  PROVE  Spec => []NothingIsLeftOver
<1>1. \E j : Regular(j)
  OBVIOUS
<1>2. HeapInv => NothingIsLeftOver
  BY <1>1, NothingLeft
<1>3. HeapInv /\ [Step]_vars => HeapInv'
  BY <1>2, HeapInvStep
<1> QED
  BY <1>2, <1>3, HeapInvInit, PTL DEF Spec

(* So a program that requests regular sizes is served as it should be, for *)
(* as long as it runs, with no other hypothesis.                           *)
THEOREM RegularSizesAreServed ==
  ASSUME NEW k, Regular(k)
  PROVE  Spec => /\ [](/\ HeapIsTiled /\ NeighboursAgree /\ ListsHoldFreeBlocks
                       /\ ContentsKept /\ FreeTellsThemApart)
                 /\ StatisticsAreTrue
<1>1. Spec => []NothingIsLeftOver
  BY NothingStaysOver
<1>2. Spec => []HeapInv
  BY <1>1, HeapInvHolds, PTL
<1>3. Spec => StatisticsAreTrue
  BY <1>1, StatisticsStayTrue, PTL
<1> QED
  BY <1>2, <1>3, InvMeansTiled, InvMeansAgreed, InvMeansListed, InvMeansKept,
     InvMeansToldApart, PTL

(* Such sizes are, for one, those of blocks of 128 bytes, 256, and so on,  *)
(* with the pages of sf_mem_grow, however many there are.                  *)
THEOREM EighthsAreServed ==
  ASSUME PageUnits = 256, \A size \in Sizes : calculate_block_size(size) % 8 = 0
  PROVE  Spec => /\ [](HeapIsTiled /\ ContentsKept /\ FreeTellsThemApart)
                 /\ StatisticsAreTrue
<1>1. Regular(8)
  BY EightIsRegular
<1>2. Spec => /\ [](/\ HeapIsTiled /\ NeighboursAgree /\ ListsHoldFreeBlocks
                    /\ ContentsKept /\ FreeTellsThemApart)
              /\ StatisticsAreTrue
  BY <1>1, RegularSizesAreServed
<1> QED
  BY <1>2, PTL
=============================================================================
