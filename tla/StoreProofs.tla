----------------------------- MODULE StoreProofs -----------------------------
(***************************************************************************)
(* The counts of the store are right for any number of clients, of keys    *)
(* and of requests, and what is freed is used only after an abort.         *)
(*                                                                         *)
(* The argument: an operation changes the versions of one key.  What the   *)
(* counts lose or gain for the other keys is nothing, and for this one it  *)
(* is what the operation disposes of and adds, because a list has at most  *)
(* one version of a transaction: its creators are in order.  Freeing a     *)
(* transaction takes away, from the transactions it depends on, just the   *)
(* references that its dependency set stood for.                           *)
(***************************************************************************)
EXTENDS XactoStore, FiniteSetTheorems, SequenceTheorems, WellFoundedInduction,
        TLAPS

-----------------------------------------------------------------------------
(* The invariant.                                                          *)

MaybeBlob == Blobs \cup {NoBlob}
Version == [creator : Trans, blob : MaybeBlob]
Entry == [key : MaybeBlob, versions : Seq(Version)]

(* Where a thread is in the middle of a request.                           *)
BeforeStore == {"put_value", "put", "get"}
AfterStore == {"put_status", "put_refused", "get_status", "get_value"}

(* Every variable has a value of its type.                                 *)
Types ==
    /\ refcnt \in [Blobs -> Int]
    /\ keys \subseteq Blobs
    /\ entries \in [Keys -> Entry]
    /\ status \in [Trans -> {"pending", "committed", "aborted"}]
    /\ trefs \in [Trans -> Int]
    /\ depends \in [Trans -> SUBSET Trans]
    /\ pc \in [Trans -> {"receive", "done", "gone"} \cup BeforeStore
                        \cup AfterStore]
    /\ ops \in Nat
    /\ want \in [Trans -> Keys \cup {"none"}]
    /\ tmp_blob \in [Trans -> MaybeBlob]
    /\ value \in [Trans -> MaybeBlob]
    /\ undefined \in BOOLEAN

(* In a request a thread has a blob for the key, which it has made, and a  *)
(* PUT has a value.                                                        *)
LocalsAreRight(t) ==
    /\ IF pc[t] \in BeforeStore \cup AfterStore
         THEN want[t] \in Keys /\ tmp_blob[t] \in Blobs /\ tmp_blob[t][1] = t
         ELSE tmp_blob[t] = NoBlob
    /\ pc[t] \in {"receive", "done", "put_value", "get"} => value[t] = NoBlob
    /\ pc[t] \in {"put", "put_status", "put_refused"} => value[t] \in Blobs

(* Before the store has it, a KEY is the thread's alone; an operation that *)
(* is refused finds the key in the map, and disposes of the thread's.      *)
KeyIsRight(t) ==
    /\ pc[t] \in BeforeStore =>
         /\ tmp_blob[t] \in keys
         /\ \A k \in Keys : entries[k].key # tmp_blob[t]
    /\ pc[t] = "put_refused" => tmp_blob[t] \notin keys

RequestsAreRight == \A t \in Trans : LocalsAreRight(t) /\ KeyIsRight(t)

InOrder(vs) ==
    \A i, j \in 1 .. Len(vs) : i < j => vs[i].creator < vs[j].creator

EntriesAreInOrder ==
    \A k \in Keys : /\ InOrder(entries[k].versions)
                    /\ entries[k].versions # <<>> => entries[k].key # NoBlob

DependOnOlder(deps) == \A t \in Trans : \A u \in deps[t] : u < t

(* Only an aborted PUT disposes of the key of an entry.                    *)
KeysAreDisposedByAborts ==
    \A k \in Keys : entries[k].key # NoBlob /\ entries[k].key \notin keys =>
      \E t \in Trans : status[t] = "aborted" /\ pc[t] = "gone"

StoreInv ==
    /\ Types
    /\ RequestsAreRight
    /\ EntriesAreInOrder
    /\ DependOnOlder(depends)
    /\ KeysAreDisposedByAborts
    /\ RefcntsAreExact
    /\ TransactionsAreHeld
    /\ UndefinedOnlyOnAbort

-----------------------------------------------------------------------------
(* Least and greatest elements, and pieces of a list of versions.          *)

LEMMA LeastNatural ==
  ASSUME NEW S \in SUBSET Nat, S # {}
  PROVE  \E m \in S : \A n \in S : m <= n
<1> DEFINE R == OpToRel(<, Nat)
<1>1. IsWellFoundedOn(R, Nat)
  BY NatLessThanWellFounded
<1>2. \A x, y \in Nat : x < y => <<x, y>> \in R
  BY DEF OpToRel
<1> HIDE DEF R
<1>3. PICK m \in S : \A n \in S : ~ (<<n, m>> \in R)
  BY <1>1, WFMin
<1>4. \A n \in S : m \in Nat /\ n \in Nat /\ ~ (n < m)
  BY <1>2, <1>3
<1> QED
  BY <1>4

(* Min of a nonempty set of natural numbers is one of them.                *)
LEMMA MinIsIn ==
  ASSUME NEW S \in SUBSET Nat, S # {}
  PROVE  Min(S) \in S
BY LeastNatural DEF Min

(* Max of a nonempty bounded set of natural numbers is one of them.        *)
LEMMA MaxIsIn ==
  ASSUME NEW n \in Nat, NEW S \in SUBSET (0 .. n), S # {}
  PROVE  Max(S) \in S
<1> DEFINE T == {n - x : x \in S}
<1>1. T \in SUBSET Nat /\ T # {}
  <2>1. \A x \in S : n - x \in Nat
    OBVIOUS
  <2>2. PICK x \in S : TRUE
    OBVIOUS
  <2> QED
    BY <2>1, <2>2
<1>2. PICK d \in T : \A e \in T : d <= e
  BY <1>1, LeastNatural
<1>3. PICK m \in S : d = n - m
  BY <1>2
<1>4. \A x \in S : m >= x
  BY <1>2, <1>3
<1> QED
  BY <1>3, <1>4 DEF Max

(* What a member of a sequence is.                                         *)
LEMMA ElementsOf ==
  ASSUME NEW S, NEW s \in Seq(S)
  PROVE  /\ Len(s) \in Nat
         /\ ToSet(s) = {s[i] : i \in 1 .. Len(s)}
         /\ ToSet(s) \subseteq S
<1>1. DOMAIN s = 1 .. Len(s) /\ \A i \in 1 .. Len(s) : s[i] \in S
  OBVIOUS
<1> QED
  BY <1>1 DEF ToSet

(* A piece of a version list is again in order of the creators.            *)
LEMMA PieceOfVersions ==
  ASSUME NEW vs \in Seq(Version), InOrder(vs),
         NEW m \in Nat \ {0}, NEW n \in 0 .. Len(vs)
  PROVE  LET p == SubSeq(vs, m, n)
         IN  /\ p \in Seq(Version)
             /\ Len(p) = IF m <= n THEN n - m + 1 ELSE 0
             /\ \A j \in 1 .. Len(p) : p[j] = vs[m + j - 1]
             /\ InOrder(p)
             /\ ToSet(p) \subseteq ToSet(vs)
<1> DEFINE p == SubSeq(vs, m, n)
<1>1. /\ Len(vs) \in Nat
      /\ \A i \in 1 .. Len(vs) : vs[i] \in Version
  OBVIOUS
<1>2. \A i \in m .. n : vs[i] \in Version
  BY <1>1
<1>3. /\ p \in Seq(Version)
      /\ Len(p) = IF m <= n THEN n - m + 1 ELSE 0
      /\ \A j \in 1 .. n - m + 1 : p[j] = vs[m + j - 1]
  BY <1>1, <1>2, SubSeqProperties
<1> HIDE DEF p
<1>4. \A j \in 1 .. Len(p) : p[j] = vs[m + j - 1] /\ m + j - 1 \in 1 .. Len(vs)
  BY <1>1, <1>3
<1>5. InOrder(p)
  <2> SUFFICES ASSUME NEW i \in 1 .. Len(p), NEW j \in 1 .. Len(p), i < j
               PROVE  p[i].creator < p[j].creator
    BY DEF InOrder
  <2>1. /\ m + i - 1 \in 1 .. Len(vs) /\ m + j - 1 \in 1 .. Len(vs)
        /\ m + i - 1 < m + j - 1
    BY <1>3, <1>4
  <2> QED
    BY <1>4, <2>1 DEF InOrder
<1>6. ToSet(p) \subseteq ToSet(vs)
  <2>1. /\ ToSet(p) = {p[j] : j \in 1 .. Len(p)}
        /\ ToSet(vs) = {vs[i] : i \in 1 .. Len(vs)}
    BY <1>3, ElementsOf
  <2> QED
    BY <1>4, <2>1
<1> QED
  BY <1>3, <1>4, <1>5, <1>6 DEF p

(* What the garbage collection keeps is a piece of the list.               *)
LEMMA CollectedIsAPiece ==
  ASSUME NEW vs \in Seq(Version), InOrder(vs)
  PROVE  /\ Collected(vs) \in Seq(Version)
         /\ InOrder(Collected(vs))
         /\ ToSet(Collected(vs)) \subseteq ToSet(vs)
<1> DEFINE ends == {i - 1 : i \in {j \in 1 .. Len(vs) :
                            StatusOf(vs[j]) = "aborted"}} \cup {Len(vs)}
           st == Standing(vs)
           starts == {1} \cup {i \in 1 .. Len(st) :
                                 StatusOf(st[i]) = "committed"}
<1>1. Len(vs) \in Nat
  OBVIOUS
<1>2. ends \in SUBSET (0 .. Len(vs)) /\ ends # {}
  BY <1>1
<1>3. Min(ends) \in 0 .. Len(vs)
  <2>1. ends \in SUBSET Nat
    BY <1>2
  <2> HIDE DEF ends
  <2> QED
    BY <1>2, <2>1, MinIsIn
<1>4. st = SubSeq(vs, 1, Min(ends))
  BY Zenon DEF Standing
<1> HIDE DEF ends
<1>5. /\ st \in Seq(Version) /\ InOrder(st)
      /\ ToSet(st) \subseteq ToSet(vs)
  BY <1>3, <1>4, PieceOfVersions
<1>6. Collected(vs) = SubSeq(st, Max(starts), Len(st))
  BY DEF Collected
<1> HIDE DEF st
<1>7. Len(st) \in Nat
  BY <1>5
<1>8. starts \in SUBSET (0 .. Len(st) + 1) /\ starts # {} /\ 0 \notin starts
  BY <1>7
<1> HIDE DEF starts
<1>9. Max(starts) \in Nat \ {0}
  <2>1. Len(st) + 1 \in Nat
    BY <1>7
  <2>2. Max(starts) \in starts
    BY <1>8, <2>1, MaxIsIn
  <2>3. Max(starts) \in 0 .. Len(st) + 1 /\ Max(starts) # 0
    BY <1>8, <2>2
  <2> QED
    BY <1>7, <2>3
<1>10. Len(st) \in 0 .. Len(st)
  BY <1>7
<1>11. /\ Collected(vs) \in Seq(Version) /\ InOrder(Collected(vs))
       /\ ToSet(Collected(vs)) \subseteq ToSet(st)
  BY <1>5, <1>6, <1>9, <1>10, PieceOfVersions
<1> QED
  BY <1>5, <1>11

(* The versions an operation of t makes a new one of: all by older         *)
(* transactions.                                                           *)
Base(t) ==
    IF Kept(t) # <<>> /\ Last(Kept(t)).creator = t THEN Front(Kept(t))
                                                   ELSE Kept(t)

(* What an operation looks at, keeps and builds on are pieces of the       *)
(* version list of its key.                                                *)
LEMMA BaseIsAPiece ==
  ASSUME Types, EntriesAreInOrder, NEW t \in Trans, want[t] \in Keys
  PROVE  /\ Versions(t) \in Seq(Version) /\ InOrder(Versions(t))
         /\ Kept(t) \in Seq(Version) /\ InOrder(Kept(t))
         /\ ToSet(Kept(t)) \subseteq ToSet(Versions(t))
         /\ Base(t) \in Seq(Version) /\ InOrder(Base(t))
         /\ ToSet(Base(t)) \subseteq ToSet(Versions(t))
         /\ ~Refused(t) => \A v \in ToSet(Base(t)) : v.creator < t
<1> DEFINE vs == Versions(t)
           kept == Kept(t)
<1>1. vs \in Seq(Version) /\ InOrder(vs)
  BY DEF Types, Entry, EntriesAreInOrder, Versions
<1>2. /\ kept \in Seq(Version) /\ InOrder(kept)
      /\ ToSet(kept) \subseteq ToSet(vs)
  BY <1>1, CollectedIsAPiece DEF Kept
<1> HIDE DEF vs, kept
<1>3. Len(kept) \in Nat /\ \A i \in 1 .. Len(kept) : kept[i].creator \in Int
  <2>1. Len(kept) \in Nat /\ \A i \in 1 .. Len(kept) : kept[i] \in Version
    BY <1>2
  <2>2. Trans \subseteq Int
    BY DEF Trans
  <2> QED
    BY <2>1, <2>2 DEF Version
<1>4. CASE kept = <<>>
  <2>1. Base(t) = kept /\ ToSet(kept) = {}
    BY <1>4 DEF Base, kept, ToSet
  <2> QED
    BY <1>1, <1>2, <2>1 DEF vs, kept
<1>5. CASE kept # <<>> /\ Last(kept).creator = t
  <2>1. Len(kept) - 1 \in 0 .. Len(kept)
    BY <1>3, <1>5, <1>2, EmptySeq
  <2>2. Base(t) = SubSeq(kept, 1, Len(kept) - 1)
    BY <1>5 DEF Base, Front, kept
  <2>3. /\ Base(t) \in Seq(Version) /\ InOrder(Base(t))
        /\ ToSet(Base(t)) \subseteq ToSet(kept)
        /\ Len(Base(t)) = Len(kept) - 1
        /\ \A j \in 1 .. Len(Base(t)) : Base(t)[j] = kept[j]
    <3>1. /\ Base(t) \in Seq(Version)
          /\ Len(Base(t)) = IF 1 <= Len(kept) - 1
                            THEN Len(kept) - 1 - 1 + 1 ELSE 0
          /\ \A j \in 1 .. Len(Base(t)) : Base(t)[j] = kept[1 + j - 1]
          /\ InOrder(Base(t))
          /\ ToSet(Base(t)) \subseteq ToSet(kept)
      BY <1>2, <2>1, <2>2, PieceOfVersions
    <3>2. Len(kept) - 1 \in Nat
      BY <2>1, <1>3
    <3>3. Len(Base(t)) = Len(kept) - 1
      <4>1. \A n, l \in Nat : n - 1 \in Nat /\ l = (IF 1 <= n - 1
                                THEN n - 1 - 1 + 1 ELSE 0) => l = n - 1
        OBVIOUS
      <4>2. Len(kept) \in Nat /\ Len(Base(t)) \in Nat
        BY <1>3, <3>1, ElementsOf
      <4> QED
        BY <3>1, <3>2, <4>1, <4>2, Zenon
    <3>4. \A j \in 1 .. Len(kept) - 1 : 1 + j - 1 = j
      BY <3>2
    <3> QED
      BY <1>3, <2>2, <3>1, <3>3, <3>4
  <2>4. \A v \in ToSet(Base(t)) : v.creator < t
    <3> SUFFICES ASSUME NEW j \in 1 .. Len(Base(t))
                 PROVE  Base(t)[j].creator < t
      BY <2>3, ElementsOf
    <3>1. j \in 1 .. Len(kept) /\ Len(kept) \in 1 .. Len(kept) /\ j < Len(kept)
      BY <1>3, <2>1, <2>3
    <3> QED
      BY <1>2, <1>5, <2>3, <3>1 DEF InOrder, Last
  <2> QED
    BY <1>1, <1>2, <2>3, <2>4 DEF vs, kept
<1>6. CASE kept # <<>> /\ Last(kept).creator # t
  <2>1. Base(t) = kept
    BY <1>6 DEF Base, kept
  <2>2. ASSUME ~Refused(t)
        PROVE  \A v \in ToSet(kept) : v.creator < t
    <3>1. Len(kept) \in 1 .. Len(kept)
      BY <1>2, <1>3, <1>6, EmptySeq
    <3>2. t \in Int /\ ~(t < Last(kept).creator)
      BY <1>6, <2>2, XactoAssumption DEF Refused, kept, Trans
    <3>3. kept[Len(kept)].creator < t
      BY <1>3, <1>6, <3>1, <3>2 DEF Last
    <3> SUFFICES ASSUME NEW j \in 1 .. Len(kept)
                 PROVE  kept[j].creator < t
      BY <1>2, ElementsOf
    <3>4. j = Len(kept) \/ j < Len(kept)
      BY <1>3
    <3>5. kept[j].creator \in Int /\ kept[Len(kept)].creator \in Int
      BY <1>3, <3>1
    <3>6. j < Len(kept) => kept[j].creator < kept[Len(kept)].creator
      BY <1>2, <3>1 DEF InOrder
    <3> QED
      BY <3>2, <3>3, <3>4, <3>5, <3>6
  <2> QED
    BY <1>1, <1>2, <2>1, <2>2 DEF vs, kept
<1> QED
  BY <1>4, <1>5, <1>6

-----------------------------------------------------------------------------
(* Counting versions.                                                      *)

WithBlob(S, b) == {v \in S : v.blob = b}
ByCreator(S, t) == {v \in S : v.creator = t}

PairsWith(es, b) ==
    {p \in Keys \X (1 .. NTrans) : /\ p[2] <= Len(es[p[1]].versions)
                                   /\ es[p[1]].versions[p[2]].blob = b}
KeysBy(es, t) ==
    {k \in Keys : \E v \in ToSet(es[k].versions) : v.creator = t}

(* The references of the versions to a blob can be counted.                *)
LEMMA PairsAreFinite ==
  ASSUME NEW es, NEW b
  PROVE  /\ IsFiniteSet(PairsWith(es, b))
         /\ Cardinality(PairsWith(es, b)) \in Nat
<1>1. IsFiniteSet(Keys) /\ IsFiniteSet(1 .. NTrans)
  BY XactoAssumption, FS_Interval
<1>2. IsFiniteSet(Keys \X (1 .. NTrans))
  BY <1>1, FS_Product
<1>3. PairsWith(es, b) \in SUBSET (Keys \X (1 .. NTrans))
  BY DEF PairsWith
<1> QED
  BY <1>2, <1>3, FS_Subset, FS_CardinalityType

(* A version of a younger transaction, appended, keeps the list in order,  *)
(* and is new.                                                             *)
LEMMA AppendedVersion ==
  ASSUME NEW vs \in Seq(Version), InOrder(vs), NEW v \in Version,
         \A x \in ToSet(vs) : x.creator < v.creator
  PROVE  /\ Append(vs, v) \in Seq(Version) /\ InOrder(Append(vs, v))
         /\ ToSet(Append(vs, v)) = ToSet(vs) \cup {v}
         /\ v \notin ToSet(vs)
<1> DEFINE vs2 == Append(vs, v)
<1>1. /\ vs2 \in Seq(Version) /\ Len(vs) \in Nat
      /\ Len(vs2) = Len(vs) + 1
      /\ \A i \in 1 .. Len(vs) : vs2[i] = vs[i]
      /\ vs2[Len(vs) + 1] = v
  OBVIOUS
<1> HIDE DEF vs2
<1>2. /\ ToSet(vs) = {vs[i] : i \in 1 .. Len(vs)}
      /\ ToSet(vs2) = {vs2[i] : i \in 1 .. Len(vs2)}
  BY <1>1, ElementsOf
<1>3. InOrder(vs2)
  <2> SUFFICES ASSUME NEW i \in 1 .. Len(vs2), NEW j \in 1 .. Len(vs2), i < j
               PROVE  vs2[i].creator < vs2[j].creator
    BY DEF InOrder
  <2>1. i \in 1 .. Len(vs) /\ (j \in 1 .. Len(vs) \/ j = Len(vs) + 1)
    BY <1>1
  <2>2. CASE j \in 1 .. Len(vs)
    BY <1>1, <2>1, <2>2 DEF InOrder
  <2>3. CASE j = Len(vs) + 1
    BY <1>1, <1>2, <2>1, <2>3
  <2> QED
    BY <2>1, <2>2, <2>3
<1>4. ToSet(vs2) = ToSet(vs) \cup {v}
  <2>1. \A i : i \in 1 .. Len(vs2) <=> i \in 1 .. Len(vs) \/ i = Len(vs) + 1
    BY <1>1
  <2> QED
    BY <1>1, <1>2, <2>1
<1>5. v \notin ToSet(vs)
  <2>1. v.creator \in Int
    BY DEF Version, Trans
  <2> QED
    BY <2>1
<1> QED
  BY <1>1, <1>3, <1>4, <1>5 DEF vs2

(* A list has at most one version of each transaction.                     *)
LEMMA ListsAreInjective ==
  ASSUME NEW vs \in Seq(Version), InOrder(vs)
  PROVE  /\ \A i, j \in 1 .. Len(vs) : vs[i].creator = vs[j].creator => i = j
         /\ IsFiniteSet(ToSet(vs))
         /\ Len(vs) <= NTrans
         /\ \A u : Cardinality(ByCreator(ToSet(vs), u)) =
                     IF \E v \in ToSet(vs) : v.creator = u THEN 1 ELSE 0
<1>1. /\ Len(vs) \in Nat /\ NTrans \in Nat
      /\ \A i \in 1 .. Len(vs) : vs[i] \in Version /\ vs[i].creator \in Trans
      /\ ToSet(vs) = {vs[i] : i \in 1 .. Len(vs)}
  <2>1. \A i \in 1 .. Len(vs) : vs[i] \in Version
    OBVIOUS
  <2> QED
    BY <2>1, ElementsOf, XactoAssumption DEF Version
<1>2. ASSUME NEW i \in 1 .. Len(vs), NEW j \in 1 .. Len(vs),
             vs[i].creator = vs[j].creator
      PROVE  i = j
  <2>1. vs[i].creator \in Int /\ vs[j].creator \in Int
    BY <1>1 DEF Trans
  <2>2. ~(i < j) /\ ~(j < i)
    BY <1>2, <2>1 DEF InOrder
  <2> QED
    BY <1>1, <2>2
<1>3. IsFiniteSet(1 .. Len(vs)) /\ Cardinality(1 .. Len(vs)) = Len(vs)
  <2>1. 1 \in Int /\ Len(vs) \in Int
    BY <1>1
  <2>2. Cardinality(1 .. Len(vs)) =
          IF 1 > Len(vs) THEN 0 ELSE Len(vs) - 1 + 1
    BY <2>1, FS_Interval
  <2>3. \A n \in Nat : (IF 1 > n THEN 0 ELSE n - 1 + 1) = n
    OBVIOUS
  <2> QED
    BY <1>1, <2>1, <2>2, <2>3, FS_Interval
<1>4. IsFiniteSet(Trans) /\ Cardinality(Trans) = NTrans
  BY <1>1, FS_Interval DEF Trans
<1>5. IsFiniteSet(ToSet(vs))
  <2> DEFINE f == [i \in 1 .. Len(vs) |-> vs[i]]
  <2>1. f \in Surjection(1 .. Len(vs), ToSet(vs))
    BY <1>1 DEF Surjection
  <2> HIDE DEF f
  <2> QED
    BY <1>3, <2>1, FS_Surjection
<1>6. Len(vs) <= NTrans
  <2> DEFINE f == [i \in 1 .. Len(vs) |-> vs[i].creator]
  <2>1. f \in Injection(1 .. Len(vs), Trans)
    BY <1>1, <1>2 DEF Injection, IsInjective
  <2> HIDE DEF f
  <2>2. Cardinality(1 .. Len(vs)) <= Cardinality(Trans)
    BY <1>4, <2>1, FS_Injection
  <2> QED
    BY <1>3, <1>4, <2>2
<1>7. ASSUME NEW u
      PROVE  Cardinality(ByCreator(ToSet(vs), u)) =
               IF \E v \in ToSet(vs) : v.creator = u THEN 1 ELSE 0
  <2>1. CASE \E v \in ToSet(vs) : v.creator = u
    <3>1. PICK i \in 1 .. Len(vs) : vs[i].creator = u
      BY <1>1, <2>1
    <3>2. ByCreator(ToSet(vs), u) = {vs[i]}
      BY <1>1, <1>2, <3>1 DEF ByCreator
    <3> QED
      BY <2>1, <3>2, FS_Singleton
  <2>2. CASE ~ \E v \in ToSet(vs) : v.creator = u
    <3>1. ByCreator(ToSet(vs), u) = {}
      BY <2>2 DEF ByCreator
    <3> QED
      BY <2>2, <3>1, FS_EmptySet
  <2> QED
    BY <2>1, <2>2
<1> QED
  BY <1>2, <1>5, <1>6, <1>7

(* The references to a blob are those from one entry and those from the    *)
(* others.                                                                 *)
LEMMA PairsOfOneKey ==
  ASSUME NEW es \in [Keys -> Entry], NEW k \in Keys, NEW b,
         InOrder(es[k].versions)
  PROVE  LET others == {p \in PairsWith(es, b) : p[1] # k}
             own == WithBlob(ToSet(es[k].versions), b)
         IN  /\ IsFiniteSet(others) /\ IsFiniteSet(own)
             /\ Cardinality(PairsWith(es, b)) =
                  Cardinality(others) + Cardinality(own)
<1> DEFINE vs == es[k].versions
           all == PairsWith(es, b)
           others == {p \in all : p[1] # k}
           ofk == {p \in all : p[1] = k}
           own == WithBlob(ToSet(vs), b)
           pick == [p \in ofk |-> vs[p[2]]]
<1>1. /\ vs \in Seq(Version) /\ Len(vs) \in Nat /\ NTrans \in Nat
      /\ ToSet(vs) = {vs[i] : i \in 1 .. Len(vs)}
  BY ElementsOf, XactoAssumption DEF Entry
<1> HIDE DEF vs
<1>2. /\ IsFiniteSet(ToSet(vs)) /\ Len(vs) <= NTrans
      /\ \A i, j \in 1 .. Len(vs) : vs[i].creator = vs[j].creator => i = j
  BY <1>1, ListsAreInjective DEF vs
<1>3. IsFiniteSet(all) /\ IsFiniteSet(others) /\ IsFiniteSet(ofk)
  <2>1. IsFiniteSet(Keys) /\ IsFiniteSet(1 .. NTrans)
    BY <1>1, XactoAssumption, FS_Interval
  <2>2. IsFiniteSet(Keys \X (1 .. NTrans))
    BY <2>1, FS_Product
  <2> QED
    BY <2>2, FS_Subset DEF PairsWith
<1>4. ofk = {p \in {k} \X (1 .. Len(vs)) : vs[p[2]].blob = b}
  BY <1>1, <1>2 DEF PairsWith, vs
<1>5. own = {v \in ToSet(vs) : v.blob = b}
  BY DEF WithBlob
<1> HIDE DEF ofk, own
<1>6. pick \in Bijection(ofk, own)
  <2>1. pick \in [ofk -> own]
    BY <1>1, <1>4, <1>5
  <2>2. \A p, q \in ofk : pick[p] = pick[q] => p = q
    <3> SUFFICES ASSUME NEW p \in ofk, NEW q \in ofk, pick[p] = pick[q]
                 PROVE  p = q
      OBVIOUS
    <3>1. /\ p \in {k} \X (1 .. Len(vs)) /\ q \in {k} \X (1 .. Len(vs))
          /\ vs[p[2]] = vs[q[2]]
      BY <1>4
    <3> QED
      BY <1>2, <3>1
  <2>3. \A v \in own : \E p \in ofk : pick[p] = v
    <3> SUFFICES ASSUME NEW v \in own PROVE \E p \in ofk : pick[p] = v
      OBVIOUS
    <3>1. PICK i \in 1 .. Len(vs) : v = vs[i] /\ vs[i].blob = b
      BY <1>1, <1>5
    <3>2. <<k, i>> \in ofk
      BY <1>4, <3>1
    <3> QED
      BY <3>1, <3>2
  <2> HIDE DEF pick
  <2> QED
    BY <2>1, <2>2, <2>3 DEF Bijection, Injection, Surjection, IsInjective
<1>7. IsFiniteSet(own) /\ Cardinality(own) = Cardinality(ofk)
  BY <1>3, <1>6, FS_Bijection DEF ExistsBijection
<1>8. Cardinality(all) = Cardinality(others) + Cardinality(ofk)
  <2>1. all = others \cup ofk /\ others \cap ofk = {}
    BY DEF ofk
  <2>2. Cardinality(others) \in Nat /\ Cardinality(ofk) \in Nat
    BY <1>3, FS_CardinalityType
  <2>3. Cardinality(others \cup ofk) =
          Cardinality(others) + Cardinality(ofk) - Cardinality(others \cap ofk)
    BY <1>3, FS_Union
  <2>4. Cardinality(others \cap ofk) = 0
    BY <2>1, FS_EmptySet
  <2> HIDE DEF all, others
  <2> QED
    BY <2>1, <2>2, <2>3, <2>4
<1> QED
  BY <1>3, <1>7, <1>8 DEF vs, own

(* The entries with a version of a transaction are those other than k, and *)
(* k if it has one.                                                        *)
LEMMA KeysOfOneCreator ==
  ASSUME NEW es \in [Keys -> Entry], NEW k \in Keys, NEW t,
         InOrder(es[k].versions)
  PROVE  LET others == KeysBy(es, t) \ {k}
             own == ByCreator(ToSet(es[k].versions), t)
         IN  /\ IsFiniteSet(others) /\ Cardinality(own) \in Nat
             /\ Cardinality(KeysBy(es, t)) =
                  Cardinality(others) + Cardinality(own)
<1> DEFINE vs == es[k].versions
           all == KeysBy(es, t)
           has == \E v \in ToSet(vs) : v.creator = t
<1>1. IsFiniteSet(all) /\ Cardinality(all) \in Nat
  BY XactoAssumption, FS_Subset, FS_CardinalityType DEF KeysBy
<1>2. vs \in Seq(Version)
  BY DEF Entry
<1>3. Cardinality(ByCreator(ToSet(vs), t)) = IF has THEN 1 ELSE 0
  BY <1>2, ListsAreInjective
<1>4. k \in all <=> has
  BY DEF KeysBy
<1> HIDE DEF all, has, vs
<1>5. /\ IsFiniteSet(all \ {k})
      /\ Cardinality(all \ {k}) = IF k \in all THEN Cardinality(all) - 1
                                               ELSE Cardinality(all)
  BY <1>1, FS_RemoveElement
<1>6. Cardinality(all) =
        Cardinality(all \ {k}) + Cardinality(ByCreator(ToSet(vs), t))
  BY <1>1, <1>3, <1>4, <1>5
<1> QED
  BY <1>3, <1>5, <1>6 DEF all, vs

(* What is disposed of is the difference.                                  *)
LEMMA CountsOfDropped ==
  ASSUME NEW S, NEW T \in SUBSET S, IsFiniteSet(S)
  PROVE  /\ \A b : Cardinality(WithBlob(S \ T, b)) =
                     Cardinality(WithBlob(S, b)) - Cardinality(WithBlob(T, b))
         /\ \A t : Cardinality(ByCreator(S \ T, t)) =
                     Cardinality(ByCreator(S, t)) - Cardinality(ByCreator(T, t))
<1>1. ASSUME NEW A \in SUBSET S, NEW B \in SUBSET A
      PROVE  Cardinality(A \ B) = Cardinality(A) - Cardinality(B)
  <2>1. IsFiniteSet(A)
    BY FS_Subset
  <2>2. A \cap B = B
    OBVIOUS
  <2> QED
    BY <2>1, <2>2, FS_Difference
<1>2. ASSUME NEW b
      PROVE  Cardinality(WithBlob(S \ T, b)) =
               Cardinality(WithBlob(S, b)) - Cardinality(WithBlob(T, b))
  <2>1. /\ WithBlob(S, b) \in SUBSET S
        /\ WithBlob(T, b) \in SUBSET WithBlob(S, b)
        /\ WithBlob(S \ T, b) = WithBlob(S, b) \ WithBlob(T, b)
    BY DEF WithBlob
  <2> QED
    BY <1>1, <2>1
<1>3. ASSUME NEW t
      PROVE  Cardinality(ByCreator(S \ T, t)) =
               Cardinality(ByCreator(S, t)) - Cardinality(ByCreator(T, t))
  <2>1. /\ ByCreator(S, t) \in SUBSET S
        /\ ByCreator(T, t) \in SUBSET ByCreator(S, t)
        /\ ByCreator(S \ T, t) = ByCreator(S, t) \ ByCreator(T, t)
    BY DEF ByCreator
  <2> QED
    BY <1>1, <2>1
<1> QED
  BY <1>2, <1>3

(* One list of versions is replaced by another: T is what of the old one   *)
(* stays in it, D what is dropped, and N is new.                           *)
Replaced(es, es2, k, T, N, D) ==
    /\ es \in [Keys -> Entry] /\ es2 \in [Keys -> Entry] /\ k \in Keys
    /\ \A j \in Keys \ {k} : es2[j] = es[j]
    /\ InOrder(es[k].versions) /\ InOrder(es2[k].versions)
    /\ T \subseteq ToSet(es[k].versions) /\ D = ToSet(es[k].versions) \ T
    /\ T \cap N = {} /\ ToSet(es2[k].versions) = T \cup N

CountsFollow(es, es2, N, D) ==
    /\ \A b : /\ Cardinality(PairsWith(es, b)) \in Nat
              /\ Cardinality(WithBlob(N, b)) \in Nat
              /\ Cardinality(WithBlob(D, b)) \in Nat
              /\ Cardinality(PairsWith(es2, b)) =
                   Cardinality(PairsWith(es, b))
                   - Cardinality(WithBlob(D, b))
                   + Cardinality(WithBlob(N, b))
    /\ \A t : /\ Cardinality(KeysBy(es, t)) \in Nat
              /\ Cardinality(ByCreator(N, t)) \in Nat
              /\ Cardinality(ByCreator(D, t)) \in Nat
              /\ Cardinality(KeysBy(es2, t)) =
                   Cardinality(KeysBy(es, t))
                   - Cardinality(ByCreator(D, t))
                   + Cardinality(ByCreator(N, t))

(* The counts follow when the versions of one entry are replaced: T go and *)
(* N come.                                                                 *)
LEMMA ReplacedVersions ==
  ASSUME NEW es, NEW es2, NEW k, NEW T, NEW N, NEW D,
         Replaced(es, es2, k, T, N, D)
  PROVE  CountsFollow(es, es2, N, D)
<1> DEFINE S == ToSet(es[k].versions)
           S2 == ToSet(es2[k].versions)
<1> USE DEF Replaced
<1>1. IsFiniteSet(S) /\ IsFiniteSet(S2)
  BY ListsAreInjective DEF Entry
<1>2. D = S \ T /\ N = S2 \ T /\ T \in SUBSET S2 /\ T \in SUBSET S
  OBVIOUS
<1>3. IsFiniteSet(T) /\ IsFiniteSet(N) /\ IsFiniteSet(D)
  BY <1>1, <1>2, FS_Subset, FS_Difference
<1>4. /\ \A b : /\ Cardinality(WithBlob(D, b)) =
                    Cardinality(WithBlob(S, b)) - Cardinality(WithBlob(T, b))
                /\ Cardinality(WithBlob(N, b)) =
                    Cardinality(WithBlob(S2, b)) - Cardinality(WithBlob(T, b))
      /\ \A t : /\ Cardinality(ByCreator(D, t)) =
                    Cardinality(ByCreator(S, t)) - Cardinality(ByCreator(T, t))
                /\ Cardinality(ByCreator(N, t)) =
                    Cardinality(ByCreator(S2, t)) - Cardinality(ByCreator(T, t))
  <2> HIDE DEF S, S2
  <2>1. /\ \A b : Cardinality(WithBlob(S \ T, b)) =
                    Cardinality(WithBlob(S, b)) - Cardinality(WithBlob(T, b))
        /\ \A t : Cardinality(ByCreator(S \ T, t)) =
                    Cardinality(ByCreator(S, t)) - Cardinality(ByCreator(T, t))
    BY <1>1, <1>2, CountsOfDropped
  <2>2. /\ \A b : Cardinality(WithBlob(S2 \ T, b)) =
                    Cardinality(WithBlob(S2, b)) - Cardinality(WithBlob(T, b))
        /\ \A t : Cardinality(ByCreator(S2 \ T, t)) =
                    Cardinality(ByCreator(S2, t)) - Cardinality(ByCreator(T, t))
    BY <1>1, <1>2, CountsOfDropped
  <2> QED
    BY <1>2, <2>1, <2>2, Zenon
<1>5. ASSUME NEW b
      PROVE  /\ Cardinality(PairsWith(es, b)) \in Nat
             /\ Cardinality(WithBlob(N, b)) \in Nat
             /\ Cardinality(WithBlob(D, b)) \in Nat
             /\ Cardinality(PairsWith(es2, b)) =
                  Cardinality(PairsWith(es, b))
                  - Cardinality(WithBlob(D, b)) + Cardinality(WithBlob(N, b))
  <2> DEFINE O == {p \in PairsWith(es, b) : p[1] # k}
             O2 == {p \in PairsWith(es2, b) : p[1] # k}
  <2>1. O = O2
    BY DEF PairsWith
  <2>2. /\ IsFiniteSet(O) /\ IsFiniteSet(WithBlob(S, b))
        /\ Cardinality(PairsWith(es, b)) =
             Cardinality(O) + Cardinality(WithBlob(S, b))
    BY PairsOfOneKey
  <2>3. /\ IsFiniteSet(WithBlob(S2, b))
        /\ Cardinality(PairsWith(es2, b)) =
             Cardinality(O2) + Cardinality(WithBlob(S2, b))
    BY PairsOfOneKey
  <2>4. /\ Cardinality(WithBlob(D, b)) =
             Cardinality(WithBlob(S, b)) - Cardinality(WithBlob(T, b))
        /\ Cardinality(WithBlob(N, b)) =
             Cardinality(WithBlob(S2, b)) - Cardinality(WithBlob(T, b))
    BY <1>4
  <2>5. /\ WithBlob(T, b) \in SUBSET T /\ WithBlob(N, b) \in SUBSET N
        /\ WithBlob(D, b) \in SUBSET D
    BY DEF WithBlob
  <2>6. /\ Cardinality(WithBlob(T, b)) \in Nat
        /\ Cardinality(WithBlob(N, b)) \in Nat
        /\ Cardinality(WithBlob(D, b)) \in Nat
    BY <1>3, <2>5, FS_Subset, FS_CardinalityType
  <2>7. Cardinality(O) \in Nat
    BY <2>2, FS_CardinalityType
  <2>8. /\ Cardinality(WithBlob(S, b)) \in Nat
        /\ Cardinality(WithBlob(S2, b)) \in Nat
    BY <2>2, <2>3, FS_CardinalityType
  <2> HIDE DEF O, O2, S, S2
  <2> QED
    BY <2>1, <2>2, <2>3, <2>4, <2>6, <2>7, <2>8
<1>6. ASSUME NEW t
      PROVE  /\ Cardinality(KeysBy(es, t)) \in Nat
             /\ Cardinality(ByCreator(N, t)) \in Nat
             /\ Cardinality(ByCreator(D, t)) \in Nat
             /\ Cardinality(KeysBy(es2, t)) =
                  Cardinality(KeysBy(es, t))
                  - Cardinality(ByCreator(D, t))
                  + Cardinality(ByCreator(N, t))
  <2> DEFINE O == KeysBy(es, t) \ {k}
             O2 == KeysBy(es2, t) \ {k}
  <2>1. O = O2
    BY DEF KeysBy
  <2>2. /\ IsFiniteSet(O) /\ Cardinality(ByCreator(S, t)) \in Nat
        /\ Cardinality(KeysBy(es, t)) =
             Cardinality(O) + Cardinality(ByCreator(S, t))
    BY KeysOfOneCreator
  <2>3. /\ Cardinality(ByCreator(S2, t)) \in Nat
        /\ Cardinality(KeysBy(es2, t)) =
             Cardinality(O2) + Cardinality(ByCreator(S2, t))
    BY KeysOfOneCreator
  <2>4. /\ Cardinality(ByCreator(D, t)) =
             Cardinality(ByCreator(S, t)) - Cardinality(ByCreator(T, t))
        /\ Cardinality(ByCreator(N, t)) =
             Cardinality(ByCreator(S2, t)) - Cardinality(ByCreator(T, t))
    BY <1>4
  <2>5. /\ ByCreator(T, t) \in SUBSET T /\ ByCreator(N, t) \in SUBSET N
        /\ ByCreator(D, t) \in SUBSET D
    BY DEF ByCreator
  <2>6. /\ Cardinality(ByCreator(T, t)) \in Nat
        /\ Cardinality(ByCreator(N, t)) \in Nat
        /\ Cardinality(ByCreator(D, t)) \in Nat
    BY <1>3, <2>5, FS_Subset, FS_CardinalityType
  <2>7. Cardinality(O) \in Nat
    BY <2>2, FS_CardinalityType
  <2> HIDE DEF O, O2, S, S2
  <2> QED
    BY <2>1, <2>2, <2>3, <2>4, <2>6, <2>7
<1> QED
  BY <1>5, <1>6, Zenon DEF CountsFollow

-----------------------------------------------------------------------------
(* Counting transactions.                                                  *)

(* The recursion of Settled goes from the youngest transaction down.       *)
FreedUsers(f, deps, t) == {u \in t + 1 .. NTrans : f[u] = 0 /\ t \in deps[u]}

(* The recursion by which transactions free one another has a solution: it *)
(* goes from the youngest to the oldest.                                   *)
LEMMA SettledIsDefined ==
  ASSUME NEW deps, NEW tr \in [Trans -> Int]
  PROVE  \E f \in [Trans -> Int] :
           f = [t \in Trans |-> tr[t] - Cardinality(FreedUsers(f, deps, t))]
<1> DEFINE From(n) == {t \in Trans : n <= t}
           Solves(f, n) == \A t \in From(n) :
                   f[t] = tr[t] - Cardinality(FreedUsers(f, deps, t))
           S == {n \in Nat : \E f \in [Trans -> Int] : Solves(f, n)}
<1>1. NTrans + 1 \in S
  <2>1. NTrans \in Nat /\ NTrans + 1 \in Nat
    BY XactoAssumption
  <2>2. From(NTrans + 1) = {}
    BY <2>1 DEF Trans
  <2> QED
    BY <2>1, <2>2
<1>2. ASSUME NEW n \in S, n # 0
      PROVE  n - 1 \in S
  <2>1. PICK f \in [Trans -> Int] : Solves(f, n)
    BY <1>2
  <2> DEFINE m == n - 1
             c == Cardinality(FreedUsers(f, deps, m))
             g == [f EXCEPT ![m] = tr[m] - c]
  <2>2. m \in Nat /\ n = m + 1
    BY <1>2
  <2>3. \A t \in Nat : \A h : t >= m =>
          FreedUsers(h, deps, t) = {u \in t + 1 .. NTrans : h[u] = 0 /\ t \in deps[u]}
    BY DEF FreedUsers
  <2>4. CASE m \notin Trans
    <3>1. From(m) = From(n)
      BY <2>2, <2>4 DEF Trans
    <3> QED
      BY <2>1, <2>2, <3>1
  <2>5. CASE m \in Trans
    <3>1. IsFiniteSet(FreedUsers(f, deps, m))
      <4>1. IsFiniteSet(m + 1 .. NTrans)
        BY <2>2, XactoAssumption, FS_Interval
      <4>2. FreedUsers(f, deps, m) \in SUBSET (m + 1 .. NTrans)
        BY DEF FreedUsers
      <4> QED
        BY <4>1, <4>2, FS_Subset
    <3>2. c \in Int
      BY <3>1, FS_CardinalityType
    <3>3. g \in [Trans -> Int]
      BY <2>5, <3>2
    <3>4. ASSUME NEW t \in From(m)
          PROVE  FreedUsers(g, deps, t) = FreedUsers(f, deps, t)
      <4>1. \A u \in t + 1 .. NTrans : u \in Trans /\ u # m
        BY <2>2 DEF Trans
      <4> QED
        BY <4>1 DEF FreedUsers
    <3>5. ASSUME NEW t \in From(m)
          PROVE  g[t] = tr[t] - Cardinality(FreedUsers(g, deps, t))
      <4>1. t = m \/ t \in From(n)
        BY <2>2 DEF Trans
      <4>2. CASE t = m
        BY <2>5, <3>2, <3>4, <4>2
      <4>3. CASE t \in From(n) /\ t # m
        BY <2>1, <3>4, <4>3
      <4> QED
        BY <4>1, <4>2, <4>3
    <3> QED
      BY <2>2, <3>3, <3>5
  <2> QED
    BY <2>4, <2>5
<1>3. S \in SUBSET Nat
  OBVIOUS
<1>4. PICK n \in S : \A k \in S : n <= k
  BY <1>1, <1>3, LeastNatural
<1>5. n = 0
  <2>1. n # 0 => n - 1 \in S
    BY <1>2
  <2> QED
    BY <1>3, <1>4, <2>1
<1>6. PICK f \in [Trans -> Int] : Solves(f, 0)
  BY <1>5
<1>7. From(0) = Trans
  BY DEF Trans
<1> QED
  BY <1>6, <1>7

Dependents(deps, t) == {u \in Trans : t \in deps[u]}

(* What it computes: each transaction loses a reference for every younger  *)
(* one that is freed.                                                      *)
LEMMA SettledCounts ==
  ASSUME NEW tr \in [Trans -> Int]
  PROVE  /\ Settled(tr) \in [Trans -> Int]
         /\ \A t \in Trans : Settled(tr)[t] =
              tr[t] - Cardinality(FreedUsers(Settled(tr), depends, t))
<1> DEFINE Left(f) == [t \in Trans |->
             tr[t] - Cardinality({u \in t + 1 .. NTrans :
                                    f[u] = 0 /\ t \in depends[u]})]
           left == CHOOSE f : f = Left(f)
<1>1. PICK f \in [Trans -> Int] :
        f = [t \in Trans |-> tr[t] - Cardinality(FreedUsers(f, depends, t))]
  BY SettledIsDefined
<1>2. f = Left(f)
  BY <1>1, Zenon DEF FreedUsers
<1>3. left = Left(left)
  <2> HIDE DEF Left
  <2> QED
    BY <1>2
<1>4. Settled(tr) = left
  BY Zenon DEF Settled
<1>5. Settled(tr) = [t \in Trans |->
             tr[t] - Cardinality(FreedUsers(Settled(tr), depends, t))]
  BY <1>3, <1>4, Zenon DEF FreedUsers
<1>6. ASSUME NEW t \in Trans
      PROVE  tr[t] - Cardinality(FreedUsers(Settled(tr), depends, t)) \in Int
  <2>1. t + 1 \in Int /\ NTrans \in Int
    BY XactoAssumption DEF Trans
  <2>2. IsFiniteSet(t + 1 .. NTrans)
    BY <2>1, FS_Interval
  <2>3. FreedUsers(Settled(tr), depends, t) \in SUBSET (t + 1 .. NTrans)
    BY DEF FreedUsers
  <2>4. Cardinality(FreedUsers(Settled(tr), depends, t)) \in Nat
    BY <2>2, <2>3, FS_Subset, FS_CardinalityType
  <2> QED
    BY <2>4
<1> HIDE DEF left
<1>7. \A t \in Trans : Settled(tr)[t] =
        tr[t] - Cardinality(FreedUsers(Settled(tr), depends, t))
  BY <1>5, Zenon
<1> QED
  BY <1>5, <1>6, <1>7

(* The transactions that depend on one can be counted.                     *)
LEMMA DependentsAreFinite ==
  ASSUME NEW deps, NEW t
  PROVE  /\ IsFiniteSet(Trans)
         /\ IsFiniteSet(Dependents(deps, t))
         /\ Cardinality(Dependents(deps, t)) \in Nat
<1>1. IsFiniteSet(Trans)
  BY XactoAssumption, FS_Interval DEF Trans
<1>2. Dependents(deps, t) \in SUBSET Trans
  BY DEF Dependents
<1> QED
  BY <1>1, <1>2, FS_Subset, FS_CardinalityType

(* If the counts tr cover something and the dependents by deps, then what  *)
(* is left of them covers it and the dependents that are left.             *)
LEMMA CountsStillCover ==
  ASSUME depends \in [Trans -> SUBSET Trans], DependOnOlder(depends),
         NEW tr \in [Trans -> Int], NEW deps \in [Trans -> SUBSET Trans],
         DependOnOlder(deps), \A t \in Trans : depends[t] \subseteq deps[t],
         CountTransactions(tr, deps)
  PROVE  /\ trefs' \in [Trans -> Int]
         /\ depends' \in [Trans -> SUBSET Trans]
         /\ DependOnOlder(depends')
         /\ \A t \in Trans, n \in Int :
              tr[t] >= n + Cardinality(Dependents(deps, t)) =>
                trefs'[t] >= n + Cardinality(Dependents(depends', t))
<1> DEFINE left == Settled(tr)
<1>1. /\ left \in [Trans -> Int]
      /\ \A t \in Trans :
           left[t] = tr[t] - Cardinality(FreedUsers(left, depends, t))
  BY SettledCounts
<1>2. /\ trefs' = left
      /\ depends' = [t \in Trans |-> IF left[t] = 0 THEN {} ELSE deps[t]]
  BY DEF CountTransactions
<1> HIDE DEF left
<1>3. depends' \in [Trans -> SUBSET Trans] /\ DependOnOlder(depends')
  BY <1>2 DEF DependOnOlder
<1>4. ASSUME NEW t \in Trans, NEW n \in Int,
             tr[t] >= n + Cardinality(Dependents(deps, t))
      PROVE  left[t] >= n + Cardinality(Dependents(depends', t))
  <2> DEFINE F == FreedUsers(left, depends, t)
             K == Dependents(depends', t)
             A == Dependents(deps, t)
  <2>1. F \subseteq A /\ K \subseteq A /\ F \cap K = {}
    <3>1. \A u \in t + 1 .. NTrans : u \in Trans
      BY DEF Trans
    <3>2. F \subseteq A
      BY <3>1 DEF FreedUsers, Dependents
    <3>3. \A u \in Trans : u \in K <=> left[u] # 0 /\ t \in deps[u]
      BY <1>2 DEF Dependents
    <3>4. K \subseteq Trans /\ \A u \in F : left[u] = 0
      BY DEF Dependents, FreedUsers
    <3>5. K \subseteq A
      BY <3>3, <3>4 DEF Dependents
    <3> HIDE DEF K, F
    <3> QED
      BY <3>2, <3>3, <3>4, <3>5
  <2>2. IsFiniteSet(A) /\ IsFiniteSet(F) /\ IsFiniteSet(K)
    BY <2>1, DependentsAreFinite, FS_Subset
  <2> HIDE DEF F, K, A
  <2>3. /\ Cardinality(F \cup K) =
             Cardinality(F) + Cardinality(K) - Cardinality(F \cap K)
        /\ Cardinality(F \cap K) = 0
    BY <2>1, <2>2, FS_Union, FS_EmptySet
  <2>4. F \cup K \in SUBSET A
    BY <2>1
  <2>5. Cardinality(F \cup K) <= Cardinality(A)
    BY <2>2, <2>4, FS_Subset
  <2>6. /\ Cardinality(F) \in Nat /\ Cardinality(K) \in Nat
        /\ Cardinality(A) \in Nat
    BY <2>2, FS_CardinalityType
  <2>7. tr[t] \in Int /\ left[t] = tr[t] - Cardinality(F)
    BY <1>1 DEF F
  <2>8. tr[t] >= n + Cardinality(A)
    BY <1>4 DEF A
  <2>9. left[t] >= n + Cardinality(K)
    BY <2>3, <2>5, <2>6, <2>7, <2>8
  <2> QED
    BY <2>9 DEF K
<1> QED
  BY <1>1, <1>2, <1>3, <1>4

-----------------------------------------------------------------------------
(* What an operation of the store does to the counts.                      *)

LEMMA BlobsAreSomething == NoBlob \notin Blobs
<1>1. \A a, b : <<a, b>> # <<>>
  OBVIOUS
<1> QED
  BY <1>1 DEF NoBlob, Blobs

(* TransactionsAreHeld in terms of the operators these lemmas are about.   *)
LEMMA HeldInOtherWords ==
  /\ TransactionsAreHeld <=>
       \A t \in Trans : trefs[t] >=
         Cardinality(KeysBy(entries, t)) + Cardinality(Dependents(depends, t))
         + (IF pc[t] = "done" THEN 0 ELSE 1)
  /\ TransactionsAreHeld' <=>
       \A t \in Trans : trefs'[t] >=
         Cardinality(KeysBy(entries', t)) + Cardinality(Dependents(depends', t))
         + (IF pc'[t] = "done" THEN 0 ELSE 1)
BY Zenon DEF TransactionsAreHeld, VersionsBy, KeysBy, Dependents

(* Transactions stay held when the thread t gives its reference back, or   *)
(* keeps it, and the store is left alone.                                  *)
LEMMA HeldWithoutOperation ==
  ASSUME Types, DependOnOlder(depends), TransactionsAreHeld, NEW t \in Trans,
         NEW tr \in [Trans -> Int], CountTransactions(tr, depends),
         entries' = entries,
         \A u \in Trans : tr[u] - trefs[u] >=
           (IF pc'[u] = "done" THEN 0 ELSE 1) - (IF pc[u] = "done" THEN 0 ELSE 1)
  PROVE  /\ trefs' \in [Trans -> Int]
         /\ depends' \in [Trans -> SUBSET Trans]
         /\ DependOnOlder(depends')
         /\ TransactionsAreHeld'
<1>1. depends \in [Trans -> SUBSET Trans] /\ trefs \in [Trans -> Int]
  BY DEF Types
<1>2. /\ trefs' \in [Trans -> Int]
      /\ depends' \in [Trans -> SUBSET Trans]
      /\ DependOnOlder(depends')
      /\ \A u \in Trans, n \in Int :
           tr[u] >= n + Cardinality(Dependents(depends, u)) =>
             trefs'[u] >= n + Cardinality(Dependents(depends', u))
  BY <1>1, CountsStillCover
<1>3. ASSUME NEW u \in Trans
      PROVE  trefs'[u] >= Cardinality(KeysBy(entries', u))
               + Cardinality(Dependents(depends', u))
               + (IF pc'[u] = "done" THEN 0 ELSE 1)
  <2> DEFINE c == Cardinality(KeysBy(entries, u))
             d == Cardinality(Dependents(depends, u))
             d2 == Cardinality(Dependents(depends', u))
             a == IF pc[u] = "done" THEN 0 ELSE 1
             a2 == IF pc'[u] = "done" THEN 0 ELSE 1
  <2>1. c \in Nat /\ d \in Nat /\ d2 \in Nat
    <3>1. IsFiniteSet(KeysBy(entries, u))
      BY XactoAssumption, FS_Subset DEF KeysBy
    <3> QED
      BY <3>1, FS_CardinalityType, DependentsAreFinite
  <2>2. trefs[u] >= c + d + a
    BY HeldInOtherWords
  <2>3. a \in Int /\ a2 \in Int /\ c + a2 \in Int
    BY <2>1
  <2>4. tr[u] \in Int /\ trefs[u] \in Int /\ trefs'[u] \in Int
    BY <1>1, <1>2
  <2>5. tr[u] - trefs[u] >= a2 - a
    OBVIOUS
  <2> HIDE DEF c, d, d2, a, a2
  <2>6. tr[u] >= c + a2 + d
    BY <2>1, <2>2, <2>3, <2>4, <2>5
  <2>7. trefs'[u] >= c + a2 + d2
    <3>1. \A n \in Int : tr[u] >= n + d => trefs'[u] >= n + d2
      BY <1>2 DEF d, d2
    <3> QED
      BY <2>3, <2>6, <3>1
  <2>8. trefs'[u] >= c + d2 + a2
    BY <2>1, <2>3, <2>4, <2>7
  <2> QED
    BY <2>8 DEF c, d2, a2
<1> QED
  BY <1>2, <1>3, HeldInOtherWords

(* An operation of t that leaves T of the versions of its key and adds N,  *)
(* at most one version by t, and makes t depend on the transactions older; *)
(* rc and tr have the counts before any version is disposed of.            *)
Operates(t, vs, T, N, rc, older, tr) ==
    /\ vs \in Seq(Version) /\ InOrder(vs)
    /\ T \subseteq ToSet(Versions(t))
    /\ ToSet(vs) = T \cup N /\ T \cap N = {}
    /\ entries' = [entries EXCEPT ![want[t]] =
                     [key |-> EntryKey(t), versions |-> vs]]
    /\ rc \in [Blobs -> Int]
    /\ refcnt' = version_dispose(rc, ToSet(Versions(t)) \ T)
    /\ older \subseteq Trans /\ \A u \in older : u < t
    /\ tr \in [Trans -> Int]
    /\ \A u \in Trans : tr[u] >= trefs[u] + Cardinality(ByCreator(N, u))
                                 + (IF u \in older THEN 1 ELSE 0)
    /\ CountTransactions(CreatorsDropped(tr, ToSet(Versions(t)) \ T),
                         [depends EXCEPT ![t] = @ \cup older])

(* What it does to the counts.                                             *)
CountsChange(N, rc) ==
    /\ entries' \in [Keys -> Entry]
    /\ EntriesAreInOrder'
    /\ refcnt' \in [Blobs -> Int]
    /\ \A b \in Blobs :
         /\ Cardinality(PairsWith(entries, b)) \in Nat
         /\ Cardinality(PairsWith(entries', b)) \in Nat
         /\ Cardinality(WithBlob(N, b)) \in Nat
         /\ refcnt'[b] - Cardinality(PairsWith(entries', b)) =
              rc[b] - Cardinality(PairsWith(entries, b))
              - Cardinality(WithBlob(N, b))
    /\ trefs' \in [Trans -> Int]
    /\ depends' \in [Trans -> SUBSET Trans]
    /\ DependOnOlder(depends')
    /\ TransactionsAreHeld'

(* What an operation of the store does to the counts of blobs and of       *)
(* transactions.                                                           *)
LEMMA OperationCounts ==
  ASSUME Types, EntriesAreInOrder, DependOnOlder(depends), TransactionsAreHeld,
         NEW t \in Trans, want[t] \in Keys, EntryKey(t) \in Blobs,
         NEW vs, NEW T, NEW N, NEW rc, NEW older, NEW tr,
         Operates(t, vs, T, N, rc, older, tr),
         \A u \in Trans : pc[u] = "done" <=> pc'[u] = "done"
  PROVE  CountsChange(N, rc)
<1> USE DEF Operates
<1> DEFINE k == want[t]
           S == ToSet(Versions(t))
           D == S \ T
           deps == [depends EXCEPT ![t] = @ \cup older]
           tr2 == CreatorsDropped(tr, D)
<1>1. /\ depends \in [Trans -> SUBSET Trans] /\ trefs \in [Trans -> Int]
      /\ entries \in [Keys -> Entry] /\ k \in Keys
  BY DEF Types
<1>2. /\ entries' \in [Keys -> Entry]
      /\ \A j \in Keys \ {k} : entries'[j] = entries[j]
      /\ entries'[k].versions = vs /\ entries'[k].key = EntryKey(t)
  <2>1. [key |-> EntryKey(t), versions |-> vs] \in Entry
    BY DEF Entry, MaybeBlob
  <2> QED
    BY <1>1, <2>1
<1>3. /\ EntryKey(t) # NoBlob
      /\ InOrder(entries[k].versions) /\ InOrder(entries'[k].versions)
  BY <1>1, <1>2, BlobsAreSomething DEF EntriesAreInOrder
<1>4. EntriesAreInOrder'
  <2> SUFFICES ASSUME NEW j \in Keys
               PROVE  /\ InOrder(entries'[j].versions)
                      /\ entries'[j].versions # <<>> => entries'[j].key # NoBlob
    BY Zenon DEF EntriesAreInOrder, InOrder
  <2> QED
    BY <1>2, <1>3, Zenon DEF EntriesAreInOrder
<1>5. S = ToSet(entries[k].versions)
  BY DEF Versions
<1>6. /\ \A b : /\ Cardinality(PairsWith(entries, b)) \in Nat
                /\ Cardinality(WithBlob(N, b)) \in Nat
                /\ Cardinality(WithBlob(D, b)) \in Nat
                /\ Cardinality(PairsWith(entries', b)) =
                     Cardinality(PairsWith(entries, b))
                     - Cardinality(WithBlob(D, b)) + Cardinality(WithBlob(N, b))
      /\ \A u : /\ Cardinality(KeysBy(entries, u)) \in Nat
                /\ Cardinality(ByCreator(N, u)) \in Nat
                /\ Cardinality(ByCreator(D, u)) \in Nat
                /\ Cardinality(KeysBy(entries', u)) =
                     Cardinality(KeysBy(entries, u))
                     - Cardinality(ByCreator(D, u)) + Cardinality(ByCreator(N, u))
  <2>1. Replaced(entries, entries', k, T, N, D)
    BY <1>1, <1>2, <1>3, <1>5 DEF Replaced
  <2> HIDE DEF k, D
  <2>2. CountsFollow(entries, entries', N, D)
    BY <2>1, ReplacedVersions
  <2> QED
    BY <2>2, Zenon DEF CountsFollow
<1>7. \A b : b \in Blobs => Cardinality(PairsWith(entries', b)) \in Nat
  BY PairsAreFinite
<1>8. /\ refcnt' \in [Blobs -> Int]
      /\ \A b \in Blobs : refcnt'[b] = rc[b] - Cardinality(WithBlob(D, b))
  <2>1. refcnt' = [b \in Blobs |-> rc[b] - Cardinality(WithBlob(D, b))]
    BY Zenon DEF version_dispose, WithBlob
  <2> HIDE DEF D
  <2>2. \A b \in Blobs : rc[b] - Cardinality(WithBlob(D, b)) \in Int
    BY <1>6
  <2> QED
    BY <2>1, <2>2
<1>9. /\ tr2 \in [Trans -> Int]
      /\ \A u \in Trans : tr2[u] = tr[u] - Cardinality(ByCreator(D, u))
  <2>1. tr2 = [u \in Trans |-> tr[u] - Cardinality(ByCreator(D, u))]
    BY Zenon DEF CreatorsDropped, ByCreator
  <2> HIDE DEF D, tr2
  <2>2. \A u \in Trans : tr[u] - Cardinality(ByCreator(D, u)) \in Int
    BY <1>6
  <2> QED
    BY <2>1, <2>2
<1>10. /\ deps \in [Trans -> SUBSET Trans] /\ DependOnOlder(deps)
       /\ \A u \in Trans : depends[u] \subseteq deps[u]
  BY <1>1 DEF DependOnOlder
<1>11. ASSUME NEW u \in Trans
       PROVE  /\ Cardinality(Dependents(deps, u)) \in Nat
              /\ Cardinality(Dependents(deps, u)) <=
                   Cardinality(Dependents(depends, u))
                   + (IF u \in older THEN 1 ELSE 0)
  <2>1. IsFiniteSet(Dependents(depends, u))
    BY DependentsAreFinite
  <2>2. CASE u \in older
    <3>1. Dependents(deps, u) = Dependents(depends, u) \cup {t}
      BY <1>1, <2>2 DEF Dependents
    <3>2. Cardinality(Dependents(depends, u) \cup {t}) =
            IF t \in Dependents(depends, u)
              THEN Cardinality(Dependents(depends, u))
              ELSE Cardinality(Dependents(depends, u)) + 1
      BY <2>1, FS_AddElement
    <3>3. Cardinality(Dependents(depends, u)) \in Nat
      BY DependentsAreFinite
    <3> HIDE DEF deps
    <3> QED
      BY <2>2, <3>1, <3>2, <3>3
  <2>3. CASE u \notin older
    <3>1. Dependents(deps, u) = Dependents(depends, u)
      BY <1>1, <2>3 DEF Dependents
    <3> QED
      BY <2>3, <3>1, DependentsAreFinite
  <2> QED
    BY <2>2, <2>3
<1>12. /\ trefs' \in [Trans -> Int]
       /\ depends' \in [Trans -> SUBSET Trans]
       /\ DependOnOlder(depends')
       /\ \A u \in Trans, n \in Int :
            tr2[u] >= n + Cardinality(Dependents(deps, u)) =>
              trefs'[u] >= n + Cardinality(Dependents(depends', u))
  <2>1. CountTransactions(tr2, deps)
    OBVIOUS
  <2> HIDE DEF tr2, deps
  <2> QED
    BY <1>1, <1>9, <1>10, <2>1, CountsStillCover
<1>13. ASSUME NEW u \in Trans
       PROVE  trefs'[u] >= Cardinality(KeysBy(entries', u))
                + Cardinality(Dependents(depends', u))
                + (IF pc'[u] = "done" THEN 0 ELSE 1)
  <2> DEFINE c == Cardinality(KeysBy(entries, u))
             c2 == Cardinality(KeysBy(entries', u))
             x == Cardinality(ByCreator(D, u))
             y == Cardinality(ByCreator(N, u))
             o == IF u \in older THEN 1 ELSE 0
             d == Cardinality(Dependents(depends, u))
             e == Cardinality(Dependents(deps, u))
             d2 == Cardinality(Dependents(depends', u))
             a == IF pc[u] = "done" THEN 0 ELSE 1
  <2>1. /\ c \in Nat /\ x \in Nat /\ y \in Nat /\ o \in Nat /\ d \in Nat
        /\ e \in Nat /\ d2 \in Nat /\ a \in Nat
        /\ c2 = c - x + y
        /\ e <= d + o
    BY <1>6, <1>11, DependentsAreFinite
  <2>2. trefs[u] >= c + d + a
    BY HeldInOtherWords
  <2>3. tr[u] >= trefs[u] + y + o
    OBVIOUS
  <2>4. tr2[u] = tr[u] - x /\ tr2[u] \in Int
    BY <1>9
  <2>5. tr[u] \in Int /\ trefs[u] \in Int /\ trefs'[u] \in Int
    BY <1>1, <1>12
  <2>6. (IF pc'[u] = "done" THEN 0 ELSE 1) = a
    OBVIOUS
  <2>7. \A n \in Int : tr2[u] >= n + e => trefs'[u] >= n + d2
    BY <1>12
  <2> HIDE DEF c, c2, x, y, o, d, e, d2, a, tr2
  <2>8. c2 + a \in Int /\ tr2[u] >= (c2 + a) + e
    BY <2>1, <2>2, <2>3, <2>4, <2>5
  <2>9. trefs'[u] >= (c2 + a) + d2
    BY <2>7, <2>8
  <2>10. trefs'[u] >= c2 + d2 + a
    BY <2>1, <2>5, <2>9
  <2> QED
    BY <2>6, <2>10 DEF c2, d2
<1>14. ASSUME NEW b \in Blobs
       PROVE  refcnt'[b] - Cardinality(PairsWith(entries', b)) =
                rc[b] - Cardinality(PairsWith(entries, b))
                - Cardinality(WithBlob(N, b))
  <2> HIDE DEF D
  <2>1. /\ Cardinality(PairsWith(entries, b)) \in Nat
        /\ Cardinality(WithBlob(N, b)) \in Nat
        /\ Cardinality(WithBlob(D, b)) \in Nat
        /\ Cardinality(PairsWith(entries', b)) =
             Cardinality(PairsWith(entries, b))
             - Cardinality(WithBlob(D, b)) + Cardinality(WithBlob(N, b))
    BY <1>6
  <2>2. rc[b] \in Int /\ refcnt'[b] = rc[b] - Cardinality(WithBlob(D, b))
    BY <1>8
  <2> QED
    BY <2>1, <2>2
<1> QED
  BY <1>2, <1>4, <1>6, <1>7, <1>8, <1>12, <1>13, <1>14, HeldInOtherWords
  DEF CountsChange

-----------------------------------------------------------------------------
(* What the threads hold.                                                  *)

(* The references to b of a thread at p with the locals x and v.           *)
Share(p, x, v, b) ==
    (IF x = b THEN 1 ELSE 0)
    + (IF v = b /\ p \in {"put", "put_status", "get_status", "get_value", "gone"}
         THEN 1 ELSE 0)
    + (IF v = b /\ p = "get_status" THEN 1 ELSE 0)

(* The references of all the threads.                                      *)
HeldByThreads(ps, xs, vs, b) ==
    Cardinality({u \in Trans : xs[u] = b})
    + Cardinality({u \in Trans : vs[u] = b /\
        ps[u] \in {"put", "put_status", "get_status", "get_value", "gone"}})
    + Cardinality({u \in Trans : vs[u] = b /\ ps[u] = "get_status"})

(* Two sets of transactions that differ in t only differ by it in number.  *)
LEMMA OneMoves ==
  ASSUME NEW t \in Trans, NEW A \in SUBSET Trans, NEW B \in SUBSET Trans,
         A \ {t} = B \ {t}
  PROVE  /\ Cardinality(A) \in Nat /\ Cardinality(B) \in Nat
         /\ Cardinality(B) = Cardinality(A) + (IF t \in B THEN 1 ELSE 0)
                                            - (IF t \in A THEN 1 ELSE 0)
<1>1. IsFiniteSet(A) /\ IsFiniteSet(B)
  BY DependentsAreFinite, FS_Subset
<1>2. Cardinality(A) \in Nat /\ Cardinality(B) \in Nat
  BY <1>1, FS_CardinalityType
<1>3. /\ Cardinality(A \ {t}) = IF t \in A THEN Cardinality(A) - 1
                                           ELSE Cardinality(A)
      /\ Cardinality(B \ {t}) = IF t \in B THEN Cardinality(B) - 1
                                           ELSE Cardinality(B)
  BY <1>1, FS_RemoveElement
<1>4. Cardinality(A \ {t}) = Cardinality(B \ {t})
  BY Zenon
<1> QED
  BY <1>2, <1>3, <1>4

(* A step of one thread changes what threads hold by what that thread      *)
(* holds.                                                                  *)
LEMMA ThreadMoves ==
  ASSUME NEW t \in Trans, NEW b, NEW ps, NEW xs, NEW vs, NEW ps2, NEW xs2,
         NEW vs2,
         \A u \in Trans \ {t} : ps2[u] = ps[u] /\ xs2[u] = xs[u] /\ vs2[u] = vs[u]
  PROVE  /\ HeldByThreads(ps, xs, vs, b) \in Nat
         /\ HeldByThreads(ps2, xs2, vs2, b) \in Nat
         /\ HeldByThreads(ps2, xs2, vs2, b) - HeldByThreads(ps, xs, vs, b) =
              Share(ps2[t], xs2[t], vs2[t], b) - Share(ps[t], xs[t], vs[t], b)
<1> DEFINE L == {"put", "put_status", "get_status", "get_value", "gone"}
           A1 == {u \in Trans : xs[u] = b}
           A2 == {u \in Trans : vs[u] = b /\ ps[u] \in L}
           A3 == {u \in Trans : vs[u] = b /\ ps[u] = "get_status"}
           B1 == {u \in Trans : xs2[u] = b}
           B2 == {u \in Trans : vs2[u] = b /\ ps2[u] \in L}
           B3 == {u \in Trans : vs2[u] = b /\ ps2[u] = "get_status"}
<1>1. /\ A1 \ {t} = B1 \ {t} /\ A2 \ {t} = B2 \ {t} /\ A3 \ {t} = B3 \ {t}
      /\ A1 \in SUBSET Trans /\ A2 \in SUBSET Trans /\ A3 \in SUBSET Trans
      /\ B1 \in SUBSET Trans /\ B2 \in SUBSET Trans /\ B3 \in SUBSET Trans
  BY Zenon
<1>2. /\ HeldByThreads(ps, xs, vs, b) =
           Cardinality(A1) + Cardinality(A2) + Cardinality(A3)
      /\ HeldByThreads(ps2, xs2, vs2, b) =
           Cardinality(B1) + Cardinality(B2) + Cardinality(B3)
  BY Zenon DEF HeldByThreads
<1>3. /\ t \in A1 <=> xs[t] = b
      /\ t \in A2 <=> vs[t] = b /\ ps[t] \in L
      /\ t \in A3 <=> vs[t] = b /\ ps[t] = "get_status"
      /\ t \in B1 <=> xs2[t] = b
      /\ t \in B2 <=> vs2[t] = b /\ ps2[t] \in L
      /\ t \in B3 <=> vs2[t] = b /\ ps2[t] = "get_status"
  OBVIOUS
<1>4. /\ Share(ps[t], xs[t], vs[t], b) =
           (IF t \in A1 THEN 1 ELSE 0) + (IF t \in A2 THEN 1 ELSE 0)
           + (IF t \in A3 THEN 1 ELSE 0)
      /\ Share(ps2[t], xs2[t], vs2[t], b) =
           (IF t \in B1 THEN 1 ELSE 0) + (IF t \in B2 THEN 1 ELSE 0)
           + (IF t \in B3 THEN 1 ELSE 0)
  BY <1>3 DEF Share
<1> HIDE DEF A1, A2, A3, B1, B2, B3
<1>5. /\ Cardinality(A1) \in Nat /\ Cardinality(B1) \in Nat
      /\ Cardinality(B1) = Cardinality(A1) + (IF t \in B1 THEN 1 ELSE 0)
                                           - (IF t \in A1 THEN 1 ELSE 0)
  BY <1>1, OneMoves
<1>6. /\ Cardinality(A2) \in Nat /\ Cardinality(B2) \in Nat
      /\ Cardinality(B2) = Cardinality(A2) + (IF t \in B2 THEN 1 ELSE 0)
                                           - (IF t \in A2 THEN 1 ELSE 0)
  BY <1>1, OneMoves
<1>7. /\ Cardinality(A3) \in Nat /\ Cardinality(B3) \in Nat
      /\ Cardinality(B3) = Cardinality(A3) + (IF t \in B3 THEN 1 ELSE 0)
                                           - (IF t \in A3 THEN 1 ELSE 0)
  BY <1>1, OneMoves
<1> QED
  BY <1>2, <1>4, <1>5, <1>6, <1>7

(* RefcntsAreExact in terms of the operators these lemmas are about.       *)
LEMMA ExactInOtherWords ==
  /\ RefcntsAreExact <=>
       \A b \in Blobs : refcnt[b] = Cardinality(PairsWith(entries, b))
         + (IF b \in keys THEN 1 ELSE 0) + HeldByThreads(pc, tmp_blob, value, b)
  /\ RefcntsAreExact' <=>
       \A b \in Blobs : refcnt'[b] = Cardinality(PairsWith(entries', b))
         + (IF b \in keys' THEN 1 ELSE 0)
         + HeldByThreads(pc', tmp_blob', value', b)
<1>1. \A b \in Blobs :
        /\ VersionsWith(b) = PairsWith(entries, b)
        /\ VersionsWith(b)' = PairsWith(entries', b)
  BY Zenon DEF VersionsWith, PairsWith
<1>2. \A b \in Blobs :
        /\ HeldByThreads(pc, tmp_blob, value, b) = Cardinality(Holders(b))
             + Cardinality(HoldersOfValue(b)) + Cardinality(HoldersTwice(b))
        /\ HeldByThreads(pc', tmp_blob', value', b) = Cardinality(Holders(b)')
             + Cardinality(HoldersOfValue(b)') + Cardinality(HoldersTwice(b)')
  <2>1. \A b \in Blobs :
          /\ HoldersTwice(b) = {u \in Trans : value[u] = b /\ pc[u] = "get_status"}
          /\ HoldersTwice(b)' =
               {u \in Trans : value'[u] = b /\ pc'[u] = "get_status"}
    BY DEF HoldersTwice, HoldersOfValue
  <2> QED
    BY <2>1, Zenon DEF HeldByThreads, Holders, HoldersOfValue
<1>3. ASSUME NEW b \in Blobs
      PROVE  /\ Cardinality(PairsWith(entries, b)) \in Nat
             /\ Cardinality(PairsWith(entries', b)) \in Nat
             /\ Cardinality(Holders(b)) \in Nat
             /\ Cardinality(HoldersOfValue(b)) \in Nat
             /\ Cardinality(HoldersTwice(b)) \in Nat
             /\ Cardinality(Holders(b)') \in Nat
             /\ Cardinality(HoldersOfValue(b)') \in Nat
             /\ Cardinality(HoldersTwice(b)') \in Nat
  <2>1. /\ Cardinality(PairsWith(entries, b)) \in Nat
        /\ Cardinality(PairsWith(entries', b)) \in Nat
    BY PairsAreFinite
  <2>3. IsFiniteSet(Trans)
    BY DependentsAreFinite
  <2>4. /\ Holders(b) \in SUBSET Trans /\ HoldersOfValue(b) \in SUBSET Trans
        /\ HoldersTwice(b) \in SUBSET Trans /\ Holders(b)' \in SUBSET Trans
        /\ HoldersOfValue(b)' \in SUBSET Trans /\ HoldersTwice(b)' \in SUBSET Trans
    BY DEF Holders, HoldersOfValue, HoldersTwice
  <2> QED
    BY <2>1, <2>3, <2>4, FS_Subset, FS_CardinalityType
<1>4. \A b \in Blobs :
        /\ Cardinality(VersionsWith(b)) + (IF b \in keys THEN 1 ELSE 0)
           + Cardinality(Holders(b)) + Cardinality(HoldersOfValue(b))
           + Cardinality(HoldersTwice(b)) =
             Cardinality(PairsWith(entries, b)) + (IF b \in keys THEN 1 ELSE 0)
             + HeldByThreads(pc, tmp_blob, value, b)
        /\ Cardinality(VersionsWith(b)') + (IF b \in keys' THEN 1 ELSE 0)
           + Cardinality(Holders(b)') + Cardinality(HoldersOfValue(b)')
           + Cardinality(HoldersTwice(b)') =
             Cardinality(PairsWith(entries', b)) + (IF b \in keys' THEN 1 ELSE 0)
             + HeldByThreads(pc', tmp_blob', value', b)
  BY <1>1, <1>2, <1>3
<1> QED
  BY <1>4, Zenon DEF RefcntsAreExact

(* The counts stay exact when each changes by as much as its references.   *)
LEMMA ExactAfter ==
  ASSUME RefcntsAreExact, NEW t \in Trans,
         \A u \in Trans \ {t} : /\ pc'[u] = pc[u] /\ tmp_blob'[u] = tmp_blob[u]
                                /\ value'[u] = value[u],
         refcnt' \in [Blobs -> Int], NEW rc \in [Blobs -> Int],
         \A b \in Blobs : refcnt'[b] - Cardinality(PairsWith(entries', b)) =
                            rc[b] - Cardinality(PairsWith(entries, b)),
         \A b \in Blobs : rc[b] = refcnt[b]
           + (IF b \in keys' THEN 1 ELSE 0) - (IF b \in keys THEN 1 ELSE 0)
           + Share(pc'[t], tmp_blob'[t], value'[t], b)
           - Share(pc[t], tmp_blob[t], value[t], b)
  PROVE  RefcntsAreExact'
<1> SUFFICES ASSUME NEW b \in Blobs
             PROVE  refcnt'[b] = Cardinality(PairsWith(entries', b))
                      + (IF b \in keys' THEN 1 ELSE 0)
                      + HeldByThreads(pc', tmp_blob', value', b)
  BY ExactInOtherWords
<1> DEFINE p == Cardinality(PairsWith(entries, b))
           p2 == Cardinality(PairsWith(entries', b))
           h == HeldByThreads(pc, tmp_blob, value, b)
           h2 == HeldByThreads(pc', tmp_blob', value', b)
           s == Share(pc[t], tmp_blob[t], value[t], b)
           s2 == Share(pc'[t], tmp_blob'[t], value'[t], b)
<1>1. refcnt[b] = p + (IF b \in keys THEN 1 ELSE 0) + h
  BY ExactInOtherWords
<1>2. h \in Nat /\ h2 \in Nat /\ h2 - h = s2 - s
  BY ThreadMoves
<1>3. s \in Nat /\ s2 \in Nat
  BY DEF Share
<1>4. p \in Nat /\ p2 \in Nat
  BY PairsAreFinite
<1>5. rc[b] \in Int /\ refcnt'[b] \in Int /\ refcnt'[b] - p2 = rc[b] - p
  OBVIOUS
<1>6. rc[b] = refcnt[b] + (IF b \in keys' THEN 1 ELSE 0)
                - (IF b \in keys THEN 1 ELSE 0) + s2 - s
  OBVIOUS
<1> HIDE DEF p, p2, h, h2, s, s2
<1>7. refcnt'[b] = p2 + (IF b \in keys' THEN 1 ELSE 0) + h2
  BY <1>1, <1>2, <1>3, <1>4, <1>5, <1>6
<1> QED
  BY <1>7 DEF p2, h2

-----------------------------------------------------------------------------
(* Parts of the invariant that every step shares.                          *)

(* Only the thread t takes a step.                                         *)
Alone(t) ==
    \A u \in Trans \ {t} : /\ pc'[u] = pc[u] /\ tmp_blob'[u] = tmp_blob[u]
                           /\ value'[u] = value[u] /\ want'[u] = want[u]

(* What a step of t makes of the keys: none but its own come or go, and    *)
(* the key of an entry goes only with an abort.                            *)
KeysOfOthersStay(t) ==
    /\ \A b \in keys : b[1] # t => b \in keys'
    /\ \A b \in keys' : b[1] # t => b \in keys
    /\ \A k \in Keys :
         \/ entries'[k].key = entries[k].key
         \/ entries'[k].key = tmp_blob[t]

EntriesKeepKeys(t) ==
    \A k \in Keys : entries'[k].key # NoBlob /\ entries'[k].key \notin keys' =>
      \/ entries[k].key # NoBlob /\ entries[k].key \notin keys
      \/ status'[t] = "aborted" /\ pc'[t] = "gone"

(* A step of one thread leaves what is known of the requests of the        *)
(* others.                                                                 *)
LEMMA OthersAreRight ==
  ASSUME RequestsAreRight, NEW t \in Trans, Alone(t), KeysOfOthersStay(t),
         LocalsAreRight(t)', KeyIsRight(t)'
  PROVE  RequestsAreRight'
<1> SUFFICES ASSUME NEW u \in Trans, u # t
             PROVE  LocalsAreRight(u)' /\ KeyIsRight(u)'
  BY DEF RequestsAreRight
<1>1. /\ pc'[u] = pc[u] /\ tmp_blob'[u] = tmp_blob[u]
      /\ value'[u] = value[u] /\ want'[u] = want[u]
  BY DEF Alone
<1>2. LocalsAreRight(u) /\ KeyIsRight(u) /\ LocalsAreRight(t)
  BY DEF RequestsAreRight
<1>3. LocalsAreRight(u)'
  BY <1>1, <1>2 DEF LocalsAreRight
<1>4. ASSUME pc[u] \in BeforeStore
      PROVE  /\ tmp_blob[u] \in keys'
             /\ \A k \in Keys : entries'[k].key # tmp_blob[u]
  <2>1. tmp_blob[u] \in Blobs /\ tmp_blob[u][1] = u /\ tmp_blob[u] \in keys
    BY <1>2, <1>4 DEF LocalsAreRight, KeyIsRight
  <2>2. tmp_blob[t] # tmp_blob[u]
    BY <1>2, <2>1, BlobsAreSomething DEF LocalsAreRight
  <2> QED
    BY <1>2, <1>4, <2>1, <2>2 DEF KeysOfOthersStay, KeyIsRight
<1>5. ASSUME pc[u] = "put_refused" PROVE tmp_blob[u] \notin keys'
  <2>1. tmp_blob[u][1] = u /\ tmp_blob[u] \notin keys
    BY <1>2, <1>5 DEF LocalsAreRight, KeyIsRight, AfterStore
  <2> QED
    BY <2>1 DEF KeysOfOthersStay
<1> QED
  BY <1>1, <1>3, <1>4, <1>5 DEF KeyIsRight

(* A step that frees no key of an entry keeps what is known of freed keys. *)
LEMMA KeysStillDisposedByAborts ==
  ASSUME KeysAreDisposedByAborts, NEW t \in Trans, Alone(t), pc[t] # "gone",
         EntriesKeepKeys(t),
         \A u \in Trans : status[u] = "aborted" => status'[u] = "aborted"
  PROVE  KeysAreDisposedByAborts'
<1> SUFFICES ASSUME NEW k \in Keys, entries'[k].key # NoBlob,
                    entries'[k].key \notin keys'
             PROVE  \E u \in Trans : status'[u] = "aborted" /\ pc'[u] = "gone"
  BY DEF KeysAreDisposedByAborts
<1>1. CASE entries[k].key # NoBlob /\ entries[k].key \notin keys
  <2>1. PICK u \in Trans : status[u] = "aborted" /\ pc[u] = "gone"
    BY <1>1 DEF KeysAreDisposedByAborts
  <2> QED
    BY <2>1 DEF Alone
<1>2. CASE status'[t] = "aborted" /\ pc'[t] = "gone"
  BY <1>2
<1> QED
  BY <1>1, <1>2 DEF EntriesKeepKeys

(* A step of one thread: what is left to show for each action.             *)
LEMMA StepOfOne ==
  ASSUME StoreInv, NEW t \in Trans, Alone(t), pc[t] # "gone", undefined' = FALSE,
         Types', LocalsAreRight(t)', KeyIsRight(t)', KeysOfOthersStay(t),
         EntriesKeepKeys(t),
         \A u \in Trans : status[u] = "aborted" => status'[u] = "aborted",
         EntriesAreInOrder', DependOnOlder(depends'), TransactionsAreHeld',
         RefcntsAreExact'
  PROVE  StoreInv'
<1>1. RequestsAreRight'
  BY OthersAreRight DEF StoreInv
<1>2. KeysAreDisposedByAborts'
  BY KeysStillDisposedByAborts DEF StoreInv
<1>3. UndefinedOnlyOnAbort'
  BY DEF UndefinedOnlyOnAbort
<1>4. DependOnOlder(depends)'
  BY DEF DependOnOlder
<1> QED
  BY <1>1, <1>2, <1>3, <1>4 DEF StoreInv

(* A step of the thread t outside the store, which leaves its reference to *)
(* its transaction, or ends.                                               *)
LEMMA StepOutsideStore ==
  ASSUME StoreInv, NEW t \in Trans, Alone(t), pc[t] \notin {"gone", "done"},
         undefined' = FALSE,
         entries' = entries, ops' \in Nat,
         refcnt' \in [Blobs -> Int], keys' \subseteq Blobs,
         pc' \in [Trans -> {"receive", "done", "gone"} \cup BeforeStore
                           \cup AfterStore],
         want' \in [Trans -> Keys \cup {"none"}],
         tmp_blob' \in [Trans -> MaybeBlob], value' \in [Trans -> MaybeBlob],
         \/ UNCHANGED transactions /\ pc'[t] # "done"
         \/ /\ status' \in [Trans -> {"pending", "committed", "aborted"}]
            /\ \A u \in Trans : status[u] = "aborted" => status'[u] = "aborted"
            /\ CountTransactions([trefs EXCEPT ![t] = @ - 1], depends)
            /\ pc'[t] = "done",
         LocalsAreRight(t)', KeyIsRight(t)', KeysOfOthersStay(t),
         EntriesKeepKeys(t),
         \A b \in Blobs : refcnt'[b] = refcnt[b]
           + (IF b \in keys' THEN 1 ELSE 0) - (IF b \in keys THEN 1 ELSE 0)
           + Share(pc'[t], tmp_blob'[t], value'[t], b)
           - Share(pc[t], tmp_blob[t], value[t], b)
  PROVE  StoreInv'
<1>1. /\ Types /\ DependOnOlder(depends) /\ TransactionsAreHeld
      /\ RefcntsAreExact /\ EntriesAreInOrder
  BY DEF StoreInv
<1>2. EntriesAreInOrder'
  BY <1>1 DEF EntriesAreInOrder, InOrder
<1>3. RefcntsAreExact'
  <2>1. \A b \in Blobs : refcnt'[b] - Cardinality(PairsWith(entries', b)) =
                           refcnt'[b] - Cardinality(PairsWith(entries, b))
    OBVIOUS
  <2>2. \A u \in Trans \ {t} : /\ pc'[u] = pc[u] /\ tmp_blob'[u] = tmp_blob[u]
                               /\ value'[u] = value[u]
    BY DEF Alone
  <2> QED
    BY <1>1, <2>1, <2>2, ExactAfter
<1>4. /\ trefs' \in [Trans -> Int] /\ depends' \in [Trans -> SUBSET Trans]
      /\ DependOnOlder(depends') /\ TransactionsAreHeld'
      /\ status' \in [Trans -> {"pending", "committed", "aborted"}]
      /\ \A u \in Trans : status[u] = "aborted" => status'[u] = "aborted"
  <2>1. CASE UNCHANGED transactions /\ pc'[t] # "done"
    <3>1. trefs' = trefs /\ depends' = depends /\ status' = status
      BY <2>1 DEF transactions
    <3>2. \A u \in Trans : pc'[u] = "done" <=> pc[u] = "done"
      BY <2>1 DEF Alone
    <3>3. TransactionsAreHeld'
      BY <1>1, <3>1, <3>2, HeldInOtherWords
    <3> QED
      BY <1>1, <3>1, <3>3 DEF Types
  <2>2. CASE /\ status' \in [Trans -> {"pending", "committed", "aborted"}]
             /\ \A u \in Trans : status[u] = "aborted" => status'[u] = "aborted"
             /\ CountTransactions([trefs EXCEPT ![t] = @ - 1], depends)
             /\ pc'[t] = "done"
    <3> DEFINE tr == [trefs EXCEPT ![t] = @ - 1]
    <3>1. /\ tr \in [Trans -> Int] /\ trefs \in [Trans -> Int]
          /\ tr[t] = trefs[t] - 1
          /\ \A u \in Trans \ {t} : tr[u] = trefs[u] /\ pc'[u] = pc[u]
      BY <1>1 DEF Types, Alone
    <3>2. CountTransactions(tr, depends)
      BY <2>2
    <3> HIDE DEF tr
    <3>3. \A u \in Trans : tr[u] - trefs[u] >=
             (IF pc'[u] = "done" THEN 0 ELSE 1) - (IF pc[u] = "done" THEN 0 ELSE 1)
      BY <2>2, <3>1
    <3>4. /\ trefs' \in [Trans -> Int]
          /\ depends' \in [Trans -> SUBSET Trans]
          /\ DependOnOlder(depends')
          /\ TransactionsAreHeld'
      BY <1>1, <3>1, <3>2, <3>3, HeldWithoutOperation
    <3> QED
      BY <2>2, <3>4
  <2> QED
    BY <2>1, <2>2
<1>5. Types'
  BY <1>1, <1>4 DEF Types
<1> QED
  BY <1>2, <1>3, <1>4, <1>5, StepOfOne

-----------------------------------------------------------------------------
(* The actions that leave the store alone.                                 *)

LEMMA FreshIsNew ==
  ASSUME StoreInv, NEW t \in Trans, Unused(t) # {}
  PROVE  /\ Fresh(t) \in Blobs /\ Fresh(t)[1] = t
         /\ refcnt[Fresh(t)] = 0 /\ Fresh(t) \notin keys
         /\ \A k \in Keys : entries[k].key # Fresh(t)
<1>1. Unused(t) \in SUBSET Nat
  BY DEF Unused
<1>2. Min(Unused(t)) \in Unused(t)
  BY <1>1, MinIsIn
<1> QED
  BY <1>2 DEF Fresh, Unused, Blobs

(* What the guard At says besides the label.                               *)
LEMMA AtLabel ==
  ASSUME StoreInv, NEW t \in Trans, NEW l, At(t, l)
  PROVE  /\ undefined = FALSE /\ pc[t] = l
         /\ LocalsAreRight(t) /\ KeyIsRight(t) /\ Types
<1>1. undefined \in BOOLEAN /\ ~undefined
  BY DEF StoreInv, Types, At
<1>2. undefined = FALSE
  BY <1>1, Zenon
<1> QED
  BY <1>2 DEF StoreInv, At, RequestsAreRight

(* The thread ends between requests, and gives its transaction back.       *)
LEMMA ThreadEnds ==
  ASSUME StoreInv, NEW t \in Trans, At(t, "receive"), Goto(t, "done"),
         status' \in [Trans -> {"pending", "committed", "aborted"}],
         \A u \in Trans : status[u] = "aborted" => status'[u] = "aborted",
         CountTransactions([trefs EXCEPT ![t] = @ - 1], depends),
         UNCHANGED <<refcnt, keys, entries, request, locals, undefined>>
  PROVE  StoreInv'
<1>1. /\ undefined = FALSE /\ pc[t] = "receive" /\ LocalsAreRight(t)
      /\ KeyIsRight(t) /\ Types
  BY AtLabel
<1>2. /\ pc' = [pc EXCEPT ![t] = "done"]
      /\ UNCHANGED <<refcnt, keys, entries, ops, want, tmp_blob, value, undefined>>
  BY DEF Goto, request, locals
<1>3. /\ pc'[t] = "done"
      /\ pc' \in [Trans -> {"receive", "done", "gone"} \cup BeforeStore
                           \cup AfterStore]
      /\ Alone(t)
  BY <1>1, <1>2 DEF Types, Alone
<1>4. LocalsAreRight(t)' /\ KeyIsRight(t)'
  BY <1>1, <1>2, <1>3 DEF LocalsAreRight, KeyIsRight, BeforeStore, AfterStore
<1>5. KeysOfOthersStay(t) /\ EntriesKeepKeys(t)
  BY <1>2 DEF KeysOfOthersStay, EntriesKeepKeys
<1>6. \A b \in Blobs : refcnt'[b] = refcnt[b]
        + (IF b \in keys' THEN 1 ELSE 0) - (IF b \in keys THEN 1 ELSE 0)
        + Share(pc'[t], tmp_blob'[t], value'[t], b)
        - Share(pc[t], tmp_blob[t], value[t], b)
  BY <1>1, <1>2, <1>3, BlobsAreSomething
  DEF Types, LocalsAreRight, Share, BeforeStore, AfterStore
<1> QED
  BY <1>1, <1>2, <1>3, <1>4, <1>5, <1>6, StepOutsideStore DEF Types

(* The client has gone, or sent what is not a request: the transaction is  *)
(* aborted.                                                                *)
LEMMA ReceiveFailsKeeps ==
  ASSUME StoreInv, NEW t \in Trans, ReceiveFails(t)
  PROVE  StoreInv'
<1>1. Types
  BY DEF StoreInv
<1>2. /\ status' \in [Trans -> {"pending", "committed", "aborted"}]
      /\ \A u \in Trans : status[u] = "aborted" => status'[u] = "aborted"
  BY <1>1 DEF ReceiveFails, trans_abort, Types, Aborting
<1> QED
  BY <1>2, ThreadEnds DEF ReceiveFails, trans_abort

(* A COMMIT of a transaction that has been aborted.                        *)
LEMMA CommitAbortedKeeps ==
  ASSUME StoreInv, NEW t \in Trans, CommitAborted(t)
  PROVE  StoreInv'
<1>1. Types
  BY DEF StoreInv
<1>2. /\ status' \in [Trans -> {"pending", "committed", "aborted"}]
      /\ \A u \in Trans : status[u] = "aborted" => status'[u] = "aborted"
  BY <1>1 DEF CommitAborted, Types
<1> QED
  BY <1>2, ThreadEnds DEF CommitAborted

(* A COMMIT: the transaction commits, or aborts with one it depends on.    *)
LEMMA CommitKeeps ==
  ASSUME StoreInv, NEW t \in Trans, Commit(t)
  PROVE  StoreInv'
<1>1. Types /\ status[t] # "aborted"
  BY DEF StoreInv, Commit
<1>2. \/ status' = [status EXCEPT ![t] = "committed"]
      \/ status' = Aborting({t})
  BY Zenon DEF Commit
<1>3. /\ status' \in [Trans -> {"pending", "committed", "aborted"}]
      /\ \A u \in Trans : status[u] = "aborted" => status'[u] = "aborted"
  BY <1>1, <1>2 DEF Types, Aborting
<1>4. /\ At(t, "receive") /\ Goto(t, "done")
      /\ CountTransactions([trefs EXCEPT ![t] = @ - 1], depends)
      /\ UNCHANGED <<refcnt, keys, entries, request, locals, undefined>>
  BY Zenon DEF Commit
<1> QED
  BY <1>3, <1>4, ThreadEnds

(* A request with its key: a blob and a KEY are created.                   *)
LEMMA ReceiveKeeps ==
  ASSUME StoreInv, NEW t \in Trans, NEW k \in Keys,
         NEW l \in {"put_value", "get"}, Receive(t, k, l)
  PROVE  StoreInv'
<1> DEFINE b == Fresh(t)
<1>1. /\ undefined = FALSE /\ pc[t] = "receive" /\ LocalsAreRight(t)
      /\ KeyIsRight(t) /\ Types
  BY AtLabel DEF Receive
<1>2. /\ b \in Blobs /\ b[1] = t /\ refcnt[b] = 0 /\ b \notin keys
      /\ \A j \in Keys : entries[j].key # b
  BY FreshIsNew DEF Receive
<1>3. /\ ops' = ops + 1 /\ want' = [want EXCEPT ![t] = k]
      /\ tmp_blob' = [tmp_blob EXCEPT ![t] = b]
      /\ refcnt' = Ref(blob_create(refcnt, b), b) /\ keys' = keys \cup {b}
      /\ pc' = [pc EXCEPT ![t] = l]
      /\ UNCHANGED <<entries, transactions, value, undefined>>
  BY Zenon DEF Receive, key_create, Goto
<1> HIDE DEF b
<1>4. /\ pc'[t] = l /\ tmp_blob'[t] = b /\ want'[t] = k
      /\ ops' \in Nat /\ keys' \subseteq Blobs
      /\ want' \in [Trans -> Keys \cup {"none"}]
      /\ tmp_blob' \in [Trans -> MaybeBlob]
      /\ pc' \in [Trans -> {"receive", "done", "gone"} \cup BeforeStore
                           \cup AfterStore]
      /\ Alone(t)
  BY <1>1, <1>2, <1>3 DEF Types, Alone, MaybeBlob, BeforeStore
<1>5. /\ refcnt' \in [Blobs -> Int] /\ refcnt'[b] = 2
      /\ \A c \in Blobs : c # b => refcnt'[c] = refcnt[c]
  BY <1>1, <1>2, <1>3 DEF Types, Ref, blob_create
<1>6. LocalsAreRight(t)' /\ KeyIsRight(t)'
  BY <1>1, <1>2, <1>3, <1>4 DEF LocalsAreRight, KeyIsRight, BeforeStore, AfterStore
<1>7. KeysOfOthersStay(t) /\ EntriesKeepKeys(t)
  BY <1>2, <1>3 DEF KeysOfOthersStay, EntriesKeepKeys
<1>8. \A c \in Blobs : refcnt'[c] = refcnt[c]
        + (IF c \in keys' THEN 1 ELSE 0) - (IF c \in keys THEN 1 ELSE 0)
        + Share(pc'[t], tmp_blob'[t], value'[t], c)
        - Share(pc[t], tmp_blob[t], value[t], c)
  BY <1>1, <1>2, <1>3, <1>4, <1>5, BlobsAreSomething
  DEF Types, LocalsAreRight, Share, BeforeStore, AfterStore
<1> QED
  BY <1>1, <1>3, <1>4, <1>5, <1>6, <1>7, <1>8, StepOutsideStore DEF Types

(* The value of a PUT: a blob is created.                                  *)
LEMMA PutValueKeeps ==
  ASSUME StoreInv, NEW t \in Trans, PutValue(t)
  PROVE  StoreInv'
<1> DEFINE b == Fresh(t)
<1>1. /\ undefined = FALSE /\ pc[t] = "put_value" /\ LocalsAreRight(t)
      /\ KeyIsRight(t) /\ Types
  BY AtLabel DEF PutValue
<1>2. b \in Blobs /\ refcnt[b] = 0
  BY FreshIsNew DEF PutValue
<1>3. /\ refcnt' = [refcnt EXCEPT ![b] = 1]
      /\ value' = [value EXCEPT ![t] = b] /\ pc' = [pc EXCEPT ![t] = "put"]
      /\ UNCHANGED <<keys, entries, transactions, ops, want, tmp_blob, undefined>>
  BY DEF PutValue, blob_create, Goto, request
<1> HIDE DEF b
<1>4. /\ pc'[t] = "put" /\ value'[t] = b
      /\ value' \in [Trans -> MaybeBlob]
      /\ pc' \in [Trans -> {"receive", "done", "gone"} \cup BeforeStore
                           \cup AfterStore]
      /\ Alone(t)
  BY <1>1, <1>2, <1>3 DEF Types, Alone, MaybeBlob, BeforeStore
<1>5. /\ refcnt' \in [Blobs -> Int] /\ refcnt'[b] = 1
      /\ \A c \in Blobs : c # b => refcnt'[c] = refcnt[c]
  BY <1>1, <1>2, <1>3 DEF Types
<1>6. LocalsAreRight(t)' /\ KeyIsRight(t)'
  BY <1>1, <1>2, <1>3, <1>4 DEF LocalsAreRight, KeyIsRight, BeforeStore, AfterStore
<1>7. KeysOfOthersStay(t) /\ EntriesKeepKeys(t)
  BY <1>3 DEF KeysOfOthersStay, EntriesKeepKeys
<1>8. \A c \in Blobs : refcnt'[c] = refcnt[c]
        + (IF c \in keys' THEN 1 ELSE 0) - (IF c \in keys THEN 1 ELSE 0)
        + Share(pc'[t], tmp_blob'[t], value'[t], c)
        - Share(pc[t], tmp_blob[t], value[t], c)
  BY <1>1, <1>2, <1>3, <1>4, <1>5, BlobsAreSomething
  DEF Types, LocalsAreRight, Share, BeforeStore, AfterStore
<1> QED
  BY <1>1, <1>3, <1>4, <1>5, <1>6, <1>7, <1>8, StepOutsideStore DEF Types

(* The value of a PUT does not come: key and blob are given back.          *)
LEMMA PutValueFailsKeeps ==
  ASSUME StoreInv, NEW t \in Trans, PutValueFails(t)
  PROVE  StoreInv'
<1> DEFINE b == tmp_blob[t]
<1>1. /\ undefined = FALSE /\ pc[t] = "put_value" /\ LocalsAreRight(t)
      /\ KeyIsRight(t) /\ Types
  BY AtLabel DEF PutValueFails
<1>2. /\ b \in Blobs /\ b[1] = t /\ b \in keys /\ value[t] = NoBlob
      /\ \A j \in Keys : entries[j].key # b
  BY <1>1 DEF LocalsAreRight, KeyIsRight, BeforeStore
<1>3. /\ keys' = keys \ {b} /\ refcnt' = Unref(Unref(refcnt, b), b)
      /\ tmp_blob' = [tmp_blob EXCEPT ![t] = NoBlob]
      /\ value' = [value EXCEPT ![t] = NoBlob]
      /\ pc' = [pc EXCEPT ![t] = "done"]
      /\ status' = Aborting({t})
      /\ CountTransactions([trefs EXCEPT ![t] = @ - 1], depends)
      /\ UNCHANGED <<entries, ops, want, undefined>>
  BY DEF PutValueFails, key_dispose, Forget, Goto, trans_abort, request
<1>4. /\ pc'[t] = "done" /\ tmp_blob'[t] = NoBlob /\ value'[t] = NoBlob
      /\ tmp_blob' \in [Trans -> MaybeBlob] /\ value' \in [Trans -> MaybeBlob]
      /\ keys' \subseteq Blobs
      /\ pc' \in [Trans -> {"receive", "done", "gone"} \cup BeforeStore
                           \cup AfterStore]
      /\ Alone(t)
  BY <1>1, <1>2, <1>3 DEF Types, Alone, MaybeBlob
<1>5. /\ refcnt' \in [Blobs -> Int] /\ refcnt'[b] = refcnt[b] - 2
      /\ \A c \in Blobs : c # b => refcnt'[c] = refcnt[c]
  BY <1>1, <1>2, <1>3 DEF Types, Unref
<1>6. /\ status' \in [Trans -> {"pending", "committed", "aborted"}]
      /\ \A u \in Trans : status[u] = "aborted" => status'[u] = "aborted"
  BY <1>1, <1>3 DEF Types, Aborting
<1>7. LocalsAreRight(t)' /\ KeyIsRight(t)'
  BY <1>4 DEF LocalsAreRight, KeyIsRight, BeforeStore, AfterStore
<1>8. KeysOfOthersStay(t) /\ EntriesKeepKeys(t)
  BY <1>2, <1>3 DEF KeysOfOthersStay, EntriesKeepKeys
<1>9. \A c \in Blobs : refcnt'[c] = refcnt[c]
        + (IF c \in keys' THEN 1 ELSE 0) - (IF c \in keys THEN 1 ELSE 0)
        + Share(pc'[t], tmp_blob'[t], value'[t], c)
        - Share(pc[t], tmp_blob[t], value[t], c)
  BY <1>1, <1>2, <1>3, <1>4, <1>5, BlobsAreSomething DEF Types, Share
<1> HIDE DEF b
<1> QED
  BY <1>1, <1>3, <1>4, <1>5, <1>6, <1>7, <1>8, <1>9, StepOutsideStore DEF Types

(* A PUT that has succeeded is answered.                                   *)
LEMMA PutReplyKeeps ==
  ASSUME StoreInv, NEW t \in Trans, PutReply(t)
  PROVE  StoreInv'
<1> DEFINE b == tmp_blob[t]
           v == value[t]
<1>1. /\ undefined = FALSE /\ pc[t] = "put_status" /\ LocalsAreRight(t) /\ Types
  BY AtLabel DEF PutReply
<1>2. b \in Blobs /\ v \in Blobs
  BY <1>1 DEF LocalsAreRight, AfterStore
<1>3. /\ refcnt' = Unref(Unref(refcnt, v), b)
      /\ tmp_blob' = [tmp_blob EXCEPT ![t] = NoBlob]
      /\ value' = [value EXCEPT ![t] = NoBlob]
      /\ pc' = [pc EXCEPT ![t] = "receive"]
      /\ UNCHANGED <<keys, entries, transactions, ops, want, undefined>>
  BY DEF PutReply, Forget, Goto, request
<1>4. /\ pc'[t] = "receive" /\ tmp_blob'[t] = NoBlob /\ value'[t] = NoBlob
      /\ tmp_blob' \in [Trans -> MaybeBlob] /\ value' \in [Trans -> MaybeBlob]
      /\ pc' \in [Trans -> {"receive", "done", "gone"} \cup BeforeStore
                           \cup AfterStore]
      /\ Alone(t)
  BY <1>1, <1>3 DEF Types, Alone, MaybeBlob
<1>5. /\ refcnt' \in [Blobs -> Int]
      /\ \A c \in Blobs : refcnt'[c] = refcnt[c] - (IF c = b THEN 1 ELSE 0)
                                                 - (IF c = v THEN 1 ELSE 0)
  BY <1>1, <1>2, <1>3 DEF Types, Unref
<1>6. LocalsAreRight(t)' /\ KeyIsRight(t)'
  BY <1>4 DEF LocalsAreRight, KeyIsRight, BeforeStore, AfterStore
<1>7. KeysOfOthersStay(t) /\ EntriesKeepKeys(t)
  BY <1>3 DEF KeysOfOthersStay, EntriesKeepKeys
<1>8. \A c \in Blobs : refcnt'[c] = refcnt[c]
        + (IF c \in keys' THEN 1 ELSE 0) - (IF c \in keys THEN 1 ELSE 0)
        + Share(pc'[t], tmp_blob'[t], value'[t], c)
        - Share(pc[t], tmp_blob[t], value[t], c)
  BY <1>1, <1>3, <1>4, <1>5, BlobsAreSomething DEF Types, Share
<1> HIDE DEF b, v
<1> QED
  BY <1>1, <1>3, <1>4, <1>5, <1>6, <1>7, <1>8, StepOutsideStore DEF Types

(* A PUT finds that its transaction has been aborted: it disposes of a key *)
(* that may be the map's.                                                  *)
LEMMA PutAbortedKeeps ==
  ASSUME StoreInv, NEW t \in Trans, PutAborted(t)
  PROVE  StoreInv'
<1> DEFINE b == tmp_blob[t]
           v == value[t]
<1>1. /\ undefined = FALSE /\ pc[t] = "put_status" /\ LocalsAreRight(t) /\ Types
  <2>1. (At(t, "put_status") \/ At(t, "put_refused")) /\ KeyIsRight(t)
    BY AtLabel DEF PutAborted
  <2>2. At(t, "put_status")
    BY <2>1 DEF PutAborted, KeyIsRight, At
  <2> QED
    BY <2>2, AtLabel
<1>2. b \in Blobs /\ b[1] = t /\ v \in Blobs /\ b \in keys
  BY <1>1 DEF LocalsAreRight, AfterStore, PutAborted
<1>3. /\ keys' = keys \ {b}
      /\ refcnt' = Unref(Unref(Unref(refcnt, b), b), v)
      /\ tmp_blob' = [tmp_blob EXCEPT ![t] = NoBlob]
      /\ value' = [value EXCEPT ![t] = NoBlob]
      /\ pc' = [pc EXCEPT ![t] = "gone"] /\ status[t] = "aborted"
      /\ UNCHANGED <<entries, transactions, ops, want, undefined>>
  BY DEF PutAborted, key_dispose, Forget, Goto, request
<1>4. /\ pc'[t] = "gone" /\ tmp_blob'[t] = NoBlob /\ value'[t] = NoBlob
      /\ tmp_blob' \in [Trans -> MaybeBlob] /\ value' \in [Trans -> MaybeBlob]
      /\ keys' \subseteq Blobs
      /\ pc' \in [Trans -> {"receive", "done", "gone"} \cup BeforeStore
                           \cup AfterStore]
      /\ Alone(t)
  BY <1>1, <1>3 DEF Types, Alone, MaybeBlob
<1>5. /\ refcnt' \in [Blobs -> Int]
      /\ \A c \in Blobs : refcnt'[c] = refcnt[c] - (IF c = b THEN 2 ELSE 0)
                                                 - (IF c = v THEN 1 ELSE 0)
  BY <1>1, <1>2, <1>3 DEF Types, Unref
<1>6. LocalsAreRight(t)' /\ KeyIsRight(t)'
  BY <1>4 DEF LocalsAreRight, KeyIsRight, BeforeStore, AfterStore
<1>7. KeysOfOthersStay(t) /\ EntriesKeepKeys(t)
  BY <1>2, <1>3, <1>4 DEF KeysOfOthersStay, EntriesKeepKeys, transactions
<1>8. \A c \in Blobs : refcnt'[c] = refcnt[c]
        + (IF c \in keys' THEN 1 ELSE 0) - (IF c \in keys THEN 1 ELSE 0)
        + Share(pc'[t], tmp_blob'[t], value'[t], c)
        - Share(pc[t], tmp_blob[t], value[t], c)
  BY <1>1, <1>2, <1>3, <1>4, <1>5, BlobsAreSomething DEF Types, Share
<1> HIDE DEF b, v
<1> QED
  BY <1>1, <1>3, <1>4, <1>5, <1>6, <1>7, <1>8, StepOutsideStore DEF Types

(* A GET that has succeeded is answered.                                   *)
LEMMA GetReplyKeeps ==
  ASSUME StoreInv, NEW t \in Trans, GetReply(t)
  PROVE  StoreInv'
<1> DEFINE v == value[t]
<1>1. /\ undefined = FALSE /\ pc[t] = "get_status" /\ LocalsAreRight(t)
      /\ KeyIsRight(t) /\ Types
  BY AtLabel DEF GetReply
<1>2. /\ refcnt' = UnrefIfAny(refcnt, v) /\ pc' = [pc EXCEPT ![t] = "get_value"]
      /\ UNCHANGED <<keys, entries, transactions, ops, want, tmp_blob, value,
                     undefined>>
  BY DEF GetReply, Goto, request, locals
<1>3. /\ pc'[t] = "get_value"
      /\ pc' \in [Trans -> {"receive", "done", "gone"} \cup BeforeStore
                           \cup AfterStore]
      /\ Alone(t)
  BY <1>1, <1>2 DEF Types, Alone, AfterStore
<1>4. /\ refcnt' \in [Blobs -> Int]
      /\ \A c \in Blobs : refcnt'[c] = refcnt[c] - (IF c = v THEN 1 ELSE 0)
  BY <1>1, <1>2, BlobsAreSomething DEF Types, Unref, UnrefIfAny, MaybeBlob
<1>5. LocalsAreRight(t)' /\ KeyIsRight(t)'
  BY <1>1, <1>2, <1>3 DEF LocalsAreRight, KeyIsRight, BeforeStore, AfterStore
<1>6. KeysOfOthersStay(t) /\ EntriesKeepKeys(t)
  BY <1>2 DEF KeysOfOthersStay, EntriesKeepKeys
<1>7. \A c \in Blobs : refcnt'[c] = refcnt[c]
        + (IF c \in keys' THEN 1 ELSE 0) - (IF c \in keys THEN 1 ELSE 0)
        + Share(pc'[t], tmp_blob'[t], value'[t], c)
        - Share(pc[t], tmp_blob[t], value[t], c)
  BY <1>1, <1>2, <1>3, <1>4 DEF Types, Share
<1> HIDE DEF v
<1> QED
  BY <1>1, <1>2, <1>3, <1>4, <1>5, <1>6, <1>7, StepOutsideStore DEF Types

(* Its value, if there is one, is sent.                                    *)
LEMMA GetValueKeeps ==
  ASSUME StoreInv, NEW t \in Trans, GetValue(t)
  PROVE  StoreInv'
<1> DEFINE b == tmp_blob[t]
           v == value[t]
<1>1. /\ undefined = FALSE /\ pc[t] = "get_value" /\ LocalsAreRight(t) /\ Types
  BY AtLabel DEF GetValue
<1>2. b \in Blobs
  BY <1>1 DEF LocalsAreRight, AfterStore
<1>3. /\ refcnt' = UnrefIfAny(Unref(refcnt, b), v)
      /\ tmp_blob' = [tmp_blob EXCEPT ![t] = NoBlob]
      /\ value' = [value EXCEPT ![t] = NoBlob]
      /\ pc' = [pc EXCEPT ![t] = "receive"]
      /\ UNCHANGED <<keys, entries, transactions, ops, want, undefined>>
  BY DEF GetValue, Forget, Goto, request
<1>4. /\ pc'[t] = "receive" /\ tmp_blob'[t] = NoBlob /\ value'[t] = NoBlob
      /\ tmp_blob' \in [Trans -> MaybeBlob] /\ value' \in [Trans -> MaybeBlob]
      /\ pc' \in [Trans -> {"receive", "done", "gone"} \cup BeforeStore
                           \cup AfterStore]
      /\ Alone(t)
  BY <1>1, <1>3 DEF Types, Alone, MaybeBlob
<1>5. /\ refcnt' \in [Blobs -> Int]
      /\ \A c \in Blobs : refcnt'[c] = refcnt[c] - (IF c = b THEN 1 ELSE 0)
                                                 - (IF c = v THEN 1 ELSE 0)
  BY <1>1, <1>2, <1>3, BlobsAreSomething DEF Types, Unref, UnrefIfAny, MaybeBlob
<1>6. LocalsAreRight(t)' /\ KeyIsRight(t)'
  BY <1>4 DEF LocalsAreRight, KeyIsRight, BeforeStore, AfterStore
<1>7. KeysOfOthersStay(t) /\ EntriesKeepKeys(t)
  BY <1>3 DEF KeysOfOthersStay, EntriesKeepKeys
<1>8. \A c \in Blobs : refcnt'[c] = refcnt[c]
        + (IF c \in keys' THEN 1 ELSE 0) - (IF c \in keys THEN 1 ELSE 0)
        + Share(pc'[t], tmp_blob'[t], value'[t], c)
        - Share(pc[t], tmp_blob[t], value[t], c)
  BY <1>1, <1>3, <1>4, <1>5, BlobsAreSomething DEF Types, Share
<1> HIDE DEF b, v
<1> QED
  BY <1>1, <1>3, <1>4, <1>5, <1>6, <1>7, <1>8, StepOutsideStore DEF Types

(* A GET finds that its transaction has been aborted.                      *)
LEMMA GetAbortedKeeps ==
  ASSUME StoreInv, NEW t \in Trans, GetAborted(t)
  PROVE  StoreInv'
<1> DEFINE b == tmp_blob[t]
           v == value[t]
<1>1. /\ undefined = FALSE /\ pc[t] = "get_status" /\ LocalsAreRight(t) /\ Types
  BY AtLabel DEF GetAborted
<1>2. b \in Blobs /\ v \in Blobs
  BY <1>1 DEF LocalsAreRight, AfterStore, GetAborted, Types, MaybeBlob
<1>3. /\ refcnt' = Unref(Unref(refcnt, b), v)
      /\ tmp_blob' = [tmp_blob EXCEPT ![t] = NoBlob]
      /\ pc' = [pc EXCEPT ![t] = "gone"]
      /\ UNCHANGED <<keys, entries, transactions, ops, want, value, undefined>>
  BY DEF GetAborted, Goto, request
<1>4. /\ pc'[t] = "gone" /\ tmp_blob'[t] = NoBlob /\ value'[t] = v
      /\ tmp_blob' \in [Trans -> MaybeBlob]
      /\ pc' \in [Trans -> {"receive", "done", "gone"} \cup BeforeStore
                           \cup AfterStore]
      /\ Alone(t)
  BY <1>1, <1>3 DEF Types, Alone, MaybeBlob
<1>5. /\ refcnt' \in [Blobs -> Int]
      /\ \A c \in Blobs : refcnt'[c] = refcnt[c] - (IF c = b THEN 1 ELSE 0)
                                                 - (IF c = v THEN 1 ELSE 0)
  BY <1>1, <1>2, <1>3 DEF Types, Unref
<1>6. LocalsAreRight(t)' /\ KeyIsRight(t)'
  BY <1>4 DEF LocalsAreRight, KeyIsRight, BeforeStore, AfterStore
<1>7. KeysOfOthersStay(t) /\ EntriesKeepKeys(t)
  BY <1>3 DEF KeysOfOthersStay, EntriesKeepKeys
<1>8. \A c \in Blobs : refcnt'[c] = refcnt[c]
        + (IF c \in keys' THEN 1 ELSE 0) - (IF c \in keys THEN 1 ELSE 0)
        + Share(pc'[t], tmp_blob'[t], value'[t], c)
        - Share(pc[t], tmp_blob[t], value[t], c)
  BY <1>1, <1>3, <1>4, <1>5, BlobsAreSomething DEF Types, Share
<1> HIDE DEF b, v
<1> QED
  BY <1>1, <1>3, <1>4, <1>5, <1>6, <1>7, <1>8, StepOutsideStore DEF Types

-----------------------------------------------------------------------------
(* The operations of the store.                                            *)

LEMMA CountsOfOne ==
  ASSUME NEW v
  PROVE  /\ \A b : Cardinality(WithBlob({v}, b)) = IF v.blob = b THEN 1 ELSE 0
         /\ \A u : Cardinality(ByCreator({v}, u)) = IF v.creator = u THEN 1 ELSE 0
         /\ \A b : Cardinality(WithBlob({}, b)) = 0
         /\ \A u : Cardinality(ByCreator({}, u)) = 0
<1>1. Cardinality({v}) = 1 /\ Cardinality({}) = 0
  BY FS_Singleton, FS_EmptySet
<1>2. /\ \A b : WithBlob({v}, b) = IF v.blob = b THEN {v} ELSE {}
      /\ \A u : ByCreator({v}, u) = IF v.creator = u THEN {v} ELSE {}
      /\ \A b : WithBlob({}, b) = {}
      /\ \A u : ByCreator({}, u) = {}
  BY DEF WithBlob, ByCreator
<1> QED
  BY <1>1, <1>2

(* What a thread brings to an operation, and what find_entry does with it. *)
KeyFound(t, l) ==
    /\ Types /\ undefined = FALSE /\ pc[t] = l
    /\ want[t] \in Keys /\ tmp_blob[t] \in Blobs /\ tmp_blob[t][1] = t
    /\ EntryKey(t) \in Blobs /\ keys' \subseteq Blobs
    /\ l = "put" => value[t] \in Blobs
    /\ l = "get" => value[t] = NoBlob
    /\ KeysOfOthersStay(t) /\ EntriesKeepKeys(t)
    /\ ~IsNew(t) => tmp_blob[t] \notin keys'
    /\ CountsWhenFound(t) \in [Blobs -> Int]
    /\ \A b \in Blobs : CountsWhenFound(t)[b] = refcnt[b]
         + (IF b \in keys' THEN 1 ELSE 0) - (IF b \in keys THEN 1 ELSE 0)

(* What an operation does to the key: an entry takes it over, or it is     *)
(* freed.                                                                  *)
LEMMA KeyIsFound ==
  ASSUME StoreInv, NEW t \in Trans, NEW l \in {"put", "get"}, At(t, l),
         keys' = KeysWhenFound(t),
         entries'[want[t]].key = EntryKey(t),
         \A k \in Keys \ {want[t]} : entries'[k] = entries[k]
  PROVE  KeyFound(t, l)
<1> DEFINE x == tmp_blob[t]
<1>1. /\ Types /\ undefined = FALSE /\ pc[t] = l
      /\ LocalsAreRight(t) /\ KeyIsRight(t)
  BY AtLabel
<1>2. /\ want[t] \in Keys /\ x \in Blobs /\ x[1] = t /\ x \in keys
      /\ \A k \in Keys : entries[k].key # x
      /\ l = "put" => value[t] \in Blobs
      /\ l = "get" => value[t] = NoBlob
  BY <1>1 DEF LocalsAreRight, KeyIsRight, BeforeStore
<1>3. \A k \in Keys : entries[k].key \in MaybeBlob
  BY <1>1 DEF Types, Entry
<1>4. keys \subseteq Blobs /\ refcnt \in [Blobs -> Int]
  BY <1>1 DEF Types
<1> HIDE DEF x
<1>5. EntryKey(t) \in Blobs
  BY <1>2, <1>3 DEF EntryKey, IsNew, MaybeBlob, x
<1>6. CASE IsNew(t)
  <2>1. /\ keys' = keys /\ EntryKey(t) = x /\ CountsWhenFound(t) = refcnt
        /\ entries[want[t]].key = NoBlob
    BY <1>6 DEF KeysWhenFound, EntryKey, CountsWhenFound, IsNew, x
  <2>2. KeysOfOthersStay(t) /\ EntriesKeepKeys(t)
    BY <1>2, <2>1 DEF KeysOfOthersStay, EntriesKeepKeys, x
  <2>3. \A b \in Blobs : CountsWhenFound(t)[b] = refcnt[b]
              + (IF b \in keys' THEN 1 ELSE 0) - (IF b \in keys THEN 1 ELSE 0)
    BY <1>4, <2>1
  <2> QED
    BY <1>1, <1>2, <1>4, <1>5, <1>6, <2>1, <2>2, <2>3 DEF x, KeyFound
<1>7. CASE ~IsNew(t)
  <2>1. /\ keys' = keys \ {x} /\ EntryKey(t) = entries[want[t]].key
        /\ CountsWhenFound(t) = [refcnt EXCEPT ![x] = @ - 1]
    BY <1>7 DEF KeysWhenFound, EntryKey, CountsWhenFound, Unref, x
  <2>2. \A k \in Keys : entries'[k].key = entries[k].key
    BY <2>1
  <2>3. KeysOfOthersStay(t)
    BY <1>2, <2>1, <2>2 DEF KeysOfOthersStay
  <2>4. EntriesKeepKeys(t)
    BY <1>2, <2>1, <2>2 DEF EntriesKeepKeys
  <2>5. CountsWhenFound(t) \in [Blobs -> Int]
    BY <1>2, <1>4, <2>1
  <2>6. \A b \in Blobs : CountsWhenFound(t)[b] = refcnt[b]
              + (IF b \in keys' THEN 1 ELSE 0) - (IF b \in keys THEN 1 ELSE 0)
    BY <1>2, <1>4, <2>1
  <2> QED
    BY <1>1, <1>2, <1>4, <1>5, <2>1, <2>3, <2>4, <2>5, <2>6 DEF x, KeyFound
<1> QED
  BY <1>6, <1>7

(* How the thread t goes through an operation from l to l2, with v as the  *)
(* value it is left with: what rc counts more for it and for the versions  *)
(* N is what it refers to more.                                            *)
Goes(t, l, l2, v, N, rc) ==
    /\ At(t, l) /\ Goto(t, l2) /\ keys' = KeysWhenFound(t)
    /\ \E ts : status' = Aborting(ts)
    /\ v \in MaybeBlob /\ value' = [value EXCEPT ![t] = v]
    /\ UNCHANGED <<request, tmp_blob, undefined>>
    /\ l2 \in {"put_status", "put_refused"} => v \in Blobs
    /\ l2 = "put_refused" => ~IsNew(t)
    /\ \A b \in Blobs : rc[b] = CountsWhenFound(t)[b]
         + Cardinality(WithBlob(N, b))
         + Share(l2, tmp_blob[t], v, b) - Share(l, tmp_blob[t], value[t], b)

(* A step of a thread that operates on the store, in general.              *)
LEMMA OperationKeeps ==
  ASSUME StoreInv, NEW t \in Trans, NEW l \in {"put", "get"},
         NEW l2 \in {"put_status", "put_refused", "get_status"},
         NEW vs, NEW T, NEW N, NEW rc, NEW older, NEW tr, NEW v,
         Operates(t, vs, T, N, rc, older, tr), Goes(t, l, l2, v, N, rc)
  PROVE  StoreInv'
<1> USE DEF Goes
<1> DEFINE k == want[t]
<1>1. /\ TransactionsAreHeld /\ RefcntsAreExact /\ EntriesAreInOrder
      /\ DependOnOlder(depends) /\ Types
  BY DEF StoreInv
<1>2. k \in Keys
  BY AtLabel DEF LocalsAreRight, BeforeStore
<1>3. /\ entries'[k].key = EntryKey(t)
      /\ \A j \in Keys \ {k} : entries'[j] = entries[j]
  BY <1>1, <1>2 DEF Types, Operates
<1>4. /\ undefined = FALSE /\ pc[t] = l
      /\ tmp_blob[t] \in Blobs /\ tmp_blob[t][1] = t
      /\ EntryKey(t) \in Blobs /\ keys' \subseteq Blobs
      /\ l = "put" => value[t] \in Blobs
      /\ l = "get" => value[t] = NoBlob
      /\ KeysOfOthersStay(t) /\ EntriesKeepKeys(t)
      /\ ~IsNew(t) => tmp_blob[t] \notin keys'
      /\ CountsWhenFound(t) \in [Blobs -> Int]
      /\ \A b \in Blobs : CountsWhenFound(t)[b] = refcnt[b]
           + (IF b \in keys' THEN 1 ELSE 0) - (IF b \in keys THEN 1 ELSE 0)
  <2>1. KeyFound(t, l)
    BY <1>3, KeyIsFound
  <2> QED
    BY <2>1 DEF KeyFound
<1>5. /\ pc' = [pc EXCEPT ![t] = l2] /\ ops' = ops /\ want' = want
      /\ tmp_blob' = tmp_blob /\ undefined' = FALSE
  BY <1>4 DEF Goto, request
<1>6. /\ pc'[t] = l2 /\ value'[t] = v /\ tmp_blob'[t] = tmp_blob[t]
      /\ value' \in [Trans -> MaybeBlob]
      /\ pc' \in [Trans -> {"receive", "done", "gone"} \cup BeforeStore
                           \cup AfterStore]
      /\ Alone(t)
      /\ \A u \in Trans : pc[u] = "done" <=> pc'[u] = "done"
  BY <1>1, <1>4, <1>5 DEF Types, Alone, AfterStore
<1>7. /\ entries' \in [Keys -> Entry]
      /\ EntriesAreInOrder'
      /\ refcnt' \in [Blobs -> Int]
      /\ \A b \in Blobs :
           /\ Cardinality(PairsWith(entries, b)) \in Nat
           /\ Cardinality(PairsWith(entries', b)) \in Nat
           /\ Cardinality(WithBlob(N, b)) \in Nat
           /\ refcnt'[b] - Cardinality(PairsWith(entries', b)) =
                rc[b] - Cardinality(PairsWith(entries, b))
                - Cardinality(WithBlob(N, b))
      /\ trefs' \in [Trans -> Int]
      /\ depends' \in [Trans -> SUBSET Trans]
      /\ DependOnOlder(depends')
      /\ TransactionsAreHeld'
  <2>1. CountsChange(N, rc)
    BY <1>1, <1>2, <1>4, <1>6, OperationCounts
  <2> QED
    BY <2>1 DEF CountsChange
<1>8. RefcntsAreExact'
  <2> DEFINE rc2 == [b \in Blobs |-> rc[b] - Cardinality(WithBlob(N, b))]
  <2>1. \A b \in Blobs : rc[b] \in Int /\ Cardinality(WithBlob(N, b)) \in Nat
    BY <1>7 DEF Operates
  <2>2. /\ rc2 \in [Blobs -> Int]
        /\ \A b \in Blobs : rc2[b] = rc[b] - Cardinality(WithBlob(N, b))
    BY <2>1
  <2> HIDE DEF rc2
  <2>3. ASSUME NEW b \in Blobs
        PROVE  refcnt'[b] - Cardinality(PairsWith(entries', b)) =
                 rc2[b] - Cardinality(PairsWith(entries, b))
    <3>1. /\ Cardinality(PairsWith(entries, b)) \in Nat
          /\ Cardinality(PairsWith(entries', b)) \in Nat
          /\ refcnt'[b] - Cardinality(PairsWith(entries', b)) =
               rc[b] - Cardinality(PairsWith(entries, b))
               - Cardinality(WithBlob(N, b))
      BY <1>7
    <3>2. /\ rc[b] \in Int /\ Cardinality(WithBlob(N, b)) \in Nat
          /\ rc2[b] = rc[b] - Cardinality(WithBlob(N, b))
      BY <2>1, <2>2
    <3> QED
      BY <3>1, <3>2
  <2>4. ASSUME NEW b \in Blobs
        PROVE  rc2[b] = refcnt[b]
                 + (IF b \in keys' THEN 1 ELSE 0) - (IF b \in keys THEN 1 ELSE 0)
                 + Share(pc'[t], tmp_blob'[t], value'[t], b)
                 - Share(pc[t], tmp_blob[t], value[t], b)
    <3>1. /\ Share(pc'[t], tmp_blob'[t], value'[t], b) =
               Share(l2, tmp_blob[t], v, b)
          /\ Share(pc[t], tmp_blob[t], value[t], b) =
               Share(l, tmp_blob[t], value[t], b)
      BY <1>4, <1>6
    <3>2. /\ Share(l2, tmp_blob[t], v, b) \in Nat
          /\ Share(l, tmp_blob[t], value[t], b) \in Nat
      BY DEF Share
    <3>3. refcnt[b] \in Int
      BY <1>1 DEF Types
    <3>4. /\ rc[b] \in Int /\ Cardinality(WithBlob(N, b)) \in Nat
          /\ rc2[b] = rc[b] - Cardinality(WithBlob(N, b))
          /\ rc[b] = CountsWhenFound(t)[b] + Cardinality(WithBlob(N, b))
               + Share(l2, tmp_blob[t], v, b) - Share(l, tmp_blob[t], value[t], b)
          /\ CountsWhenFound(t)[b] = refcnt[b]
               + (IF b \in keys' THEN 1 ELSE 0) - (IF b \in keys THEN 1 ELSE 0)
      BY <1>4, <2>1, <2>2
    <3> QED
      BY <3>1, <3>2, <3>3, <3>4
  <2>5. \A u \in Trans \ {t} : /\ pc'[u] = pc[u] /\ tmp_blob'[u] = tmp_blob[u]
                               /\ value'[u] = value[u]
    BY <1>6 DEF Alone
  <2> QED
    BY <1>1, <1>7, <2>2, <2>3, <2>4, <2>5, ExactAfter
<1>9. /\ status' \in [Trans -> {"pending", "committed", "aborted"}]
      /\ \A u \in Trans : status[u] = "aborted" => status'[u] = "aborted"
  BY <1>1 DEF Types, Aborting
<1>10. LocalsAreRight(t)' /\ KeyIsRight(t)'
  BY <1>2, <1>4, <1>5, <1>6 DEF LocalsAreRight, KeyIsRight, BeforeStore, AfterStore
<1>11. Types'
  BY <1>1, <1>4, <1>5, <1>6, <1>7, <1>9 DEF Types
<1> QED
  BY <1>4, <1>5, <1>6, <1>7, <1>8, <1>9, <1>10, <1>11, StepOfOne

(* The creators an operation of t depends on are older transactions.       *)
LEMMA OlderAreOlder ==
  ASSUME Types, EntriesAreInOrder, NEW t \in Trans, want[t] \in Keys
  PROVE  /\ Older(t, Kept(t)) \in SUBSET Trans
         /\ \A u \in Older(t, Kept(t)) : u < t
<1>1. Kept(t) \in Seq(Version)
  BY BaseIsAPiece
<1>2. ToSet(Kept(t)) \subseteq Version
  BY <1>1, ElementsOf
<1> QED
  BY <1>2 DEF Older, Version

(* An operation that is granted.                                           *)
LEMMA GrantKeeps ==
  ASSUME StoreInv, NEW t \in Trans, NEW l \in {"put", "get"}, At(t, l),
         keys' = KeysWhenFound(t),
         NEW b \in MaybeBlob, NEW rc \in [Blobs -> Int], Grant(t, b, rc),
         NEW l2 \in {"put_status", "get_status"}, Goto(t, l2),
         value' = [value EXCEPT ![t] = b],
         UNCHANGED <<request, tmp_blob, undefined>>,
         l2 = "put_status" => b \in Blobs,
         \A c \in Blobs : rc[c] = CountsWhenFound(t)[c]
           + (IF b = c THEN 1 ELSE 0)
           + Share(l2, tmp_blob[t], b, c) - Share(l, tmp_blob[t], value[t], c)
  PROVE  StoreInv'
<1> DEFINE new == [creator |-> t, blob |-> b]
           older == Older(t, Kept(t))
           vs == Append(Base(t), new)
           T == ToSet(Base(t))
           tr == [u \in Trans |-> trefs[u]
                    + (IF u = t \/ u \in older THEN 1 ELSE 0)]
           S == Cascade(Versions(t))
<1>1. Types /\ EntriesAreInOrder /\ want[t] \in Keys
  BY AtLabel DEF StoreInv, LocalsAreRight, BeforeStore
<1>2. /\ ~Refused(t)
      /\ entries' = [entries EXCEPT ![want[t]] =
                       [key |-> EntryKey(t), versions |-> vs]]
      /\ refcnt' = version_dispose(rc, ToSet(Versions(t)) \ T)
      /\ CountTransactions(CreatorsDropped(tr, ToSet(Versions(t)) \ T),
                           [depends EXCEPT ![t] = @ \cup older])
      /\ status' = Aborting(S)
  BY Zenon DEF Grant, Base
<1>3. /\ Base(t) \in Seq(Version) /\ InOrder(Base(t))
      /\ T \in SUBSET ToSet(Versions(t))
      /\ \A v \in T : v.creator < t
  BY <1>1, <1>2, BaseIsAPiece
<1>4. new \in Version /\ new.creator = t /\ new.blob = b
  BY DEF Version
<1> HIDE DEF new
<1>5. /\ vs \in Seq(Version) /\ InOrder(vs)
      /\ ToSet(vs) = T \cup {new} /\ T \cap {new} = {}
  <2>1. \A v \in ToSet(Base(t)) : v.creator < new.creator
    BY <1>3, <1>4
  <2>2. /\ vs \in Seq(Version) /\ InOrder(vs)
        /\ ToSet(vs) = ToSet(Base(t)) \cup {new} /\ new \notin ToSet(Base(t))
    BY <1>3, <1>4, <2>1, AppendedVersion
  <2> QED
    BY <2>2
<1>6. older \in SUBSET Trans /\ \A u \in older : u < t
  BY <1>1, OlderAreOlder
<1> HIDE DEF older, vs, T, S
<1>7. /\ tr \in [Trans -> Int]
      /\ \A u \in Trans : tr[u] = trefs[u]
                            + (IF u = t \/ u \in older THEN 1 ELSE 0)
  BY <1>1 DEF Types
<1> HIDE DEF tr
<1>8. \A u \in Trans : tr[u] >= trefs[u] + Cardinality(ByCreator({new}, u))
                                + (IF u \in older THEN 1 ELSE 0)
  <2>1. \A u : Cardinality(ByCreator({new}, u)) =
                  IF new.creator = u THEN 1 ELSE 0
    BY CountsOfOne
  <2>2. \A u \in Trans : trefs[u] \in Int
    BY <1>1 DEF Types
  <2>3. t \notin older
    BY <1>6 DEF Trans
  <2> SUFFICES ASSUME NEW u \in Trans
               PROVE  tr[u] >= trefs[u] + (IF t = u THEN 1 ELSE 0)
                                 + (IF u \in older THEN 1 ELSE 0)
    BY <1>4, <2>1, Zenon
  <2> QED
    BY <1>7, <2>2, <2>3
<1>9. \A c \in Blobs : rc[c] = CountsWhenFound(t)[c]
        + Cardinality(WithBlob({new}, c))
        + Share(l2, tmp_blob[t], b, c) - Share(l, tmp_blob[t], value[t], c)
  <2>1. \A c : Cardinality(WithBlob({new}, c)) = IF new.blob = c THEN 1 ELSE 0
    BY CountsOfOne
  <2>2. \A c : Cardinality(WithBlob({new}, c)) = IF b = c THEN 1 ELSE 0
    BY <1>4, <2>1
  <2> QED
    BY <2>2
<1>10. Operates(t, vs, T, {new}, rc, older, tr)
  BY <1>2, <1>3, <1>5, <1>6, <1>7, <1>8 DEF Operates
<1> QED
  <2>1. Goes(t, l, l2, b, {new}, rc)
    BY <1>2, <1>9 DEF Goes
  <2> QED
    BY <1>10, <2>1, OperationKeeps

(* An operation that is refused.                                           *)
LEMMA RefuseKeeps ==
  ASSUME StoreInv, NEW t \in Trans, NEW l \in {"put", "get"}, At(t, l),
         keys' = KeysWhenFound(t),
         NEW rc \in [Blobs -> Int], Refuse(t, rc),
         NEW l2 \in {"put_refused", "get_status"}, Goto(t, l2),
         UNCHANGED <<request, tmp_blob, value, undefined>>,
         l2 = "put_refused" => l = "put",
         \A c \in Blobs : rc[c] = CountsWhenFound(t)[c]
           + Share(l2, tmp_blob[t], value[t], c)
           - Share(l, tmp_blob[t], value[t], c)
  PROVE  StoreInv'
<1> DEFINE older == Older(t, Kept(t))
           vs == Kept(t)
           T == ToSet(Kept(t))
           N == {}
           tr == [u \in Trans |-> trefs[u] + (IF u \in older THEN 1 ELSE 0)]
           S == Cascade(Versions(t)) \cup {t}
           v == value[t]
<1>1. /\ Types /\ EntriesAreInOrder /\ want[t] \in Keys
      /\ l = "put" => v \in Blobs
  BY AtLabel DEF StoreInv, LocalsAreRight, BeforeStore
<1>2. /\ Refused(t)
      /\ entries' = [entries EXCEPT ![want[t]] =
                       [key |-> EntryKey(t), versions |-> vs]]
      /\ refcnt' = version_dispose(rc, ToSet(Versions(t)) \ T)
      /\ CountTransactions(CreatorsDropped(tr, ToSet(Versions(t)) \ T),
                           [depends EXCEPT ![t] = @ \cup older])
      /\ status' = Aborting(S)
  BY Zenon DEF Refuse
<1>3. /\ vs \in Seq(Version) /\ InOrder(vs)
      /\ T \in SUBSET ToSet(Versions(t)) /\ Versions(t) \in Seq(Version)
      /\ ToSet(vs) = T \cup N /\ T \cap N = {}
  BY <1>1, BaseIsAPiece
<1>4. ~IsNew(t)
  <2>1. Kept(t) # <<>>
    BY <1>2 DEF Refused
  <2>2. Kept(t)[1] \in ToSet(Kept(t))
    BY <1>3, <2>1, ElementsOf, EmptySeq
  <2>3. Versions(t) # <<>>
    BY <1>3, <2>2, ElementsOf
  <2> QED
    BY <1>1, <2>3 DEF IsNew, Versions, EntriesAreInOrder
<1>5. older \in SUBSET Trans /\ \A u \in older : u < t
  BY <1>1, OlderAreOlder
<1>6. v \in MaybeBlob /\ value' = [value EXCEPT ![t] = v]
  BY <1>1 DEF Types
<1> HIDE DEF older, vs, T, S
<1>7. /\ tr \in [Trans -> Int]
      /\ \A u \in Trans : tr[u] = trefs[u] + (IF u \in older THEN 1 ELSE 0)
  BY <1>1 DEF Types
<1> HIDE DEF tr
<1>8. \A u \in Trans : tr[u] >= trefs[u] + Cardinality(ByCreator(N, u))
                                + (IF u \in older THEN 1 ELSE 0)
  <2>1. \A u \in Trans : Cardinality(ByCreator(N, u)) = 0
    BY CountsOfOne, Zenon
  <2>2. \A u \in Trans : trefs[u] \in Int
    BY <1>1 DEF Types
  <2> QED
    BY <1>7, <2>1, <2>2
<1>9. \A c \in Blobs : rc[c] = CountsWhenFound(t)[c]
        + Cardinality(WithBlob(N, c))
        + Share(l2, tmp_blob[t], v, c) - Share(l, tmp_blob[t], value[t], c)
  <2>1. \A c : Cardinality(WithBlob(N, c)) = 0
    BY CountsOfOne, Zenon
  <2>2. \A c \in Blobs : CountsWhenFound(t)[c] \in Int
    BY <1>1, AtLabel DEF CountsWhenFound, Types, Unref, LocalsAreRight,
                         BeforeStore
  <2> QED
    BY <2>1, <2>2
<1> HIDE DEF N, v
<1>10. Operates(t, vs, T, N, rc, older, tr)
  BY <1>2, <1>3, <1>5, <1>7, <1>8 DEF Operates
<1> QED
  <2>1. Goes(t, l, l2, v, N, rc)
    BY <1>1, <1>2, <1>4, <1>6, <1>9 DEF Goes
  <2> QED
    BY <1>10, <2>1, OperationKeeps

(* A PUT adds a version.                                                   *)
LEMMA StorePutKeeps ==
  ASSUME StoreInv, NEW t \in Trans, StorePut(t)
  PROVE  StoreInv'
<1> DEFINE v == value[t]
           rc == version_create(CountsWhenFound(t), v)
<1>1. v \in Blobs /\ want[t] \in Keys /\ tmp_blob[t] \in Blobs /\ Types
  BY AtLabel DEF StorePut, LocalsAreRight, BeforeStore
<1>2. /\ value' = [value EXCEPT ![t] = v]
      /\ UNCHANGED <<request, tmp_blob, undefined>>
  BY <1>1 DEF StorePut, locals, Types
<1>3. CountsWhenFound(t) \in [Blobs -> Int]
  BY <1>1 DEF CountsWhenFound, Types, Unref
<1>4. /\ rc \in [Blobs -> Int]
      /\ \A c \in Blobs : rc[c] = CountsWhenFound(t)[c] + (IF v = c THEN 1 ELSE 0)
  <2> DEFINE found == CountsWhenFound(t)
  <2>1. rc = [found EXCEPT ![v] = @ + 1]
    BY <1>1, BlobsAreSomething DEF version_create, Ref
  <2> HIDE DEF found, rc
  <2>2. found \in [Blobs -> Int]
    BY <1>3 DEF found
  <2>3. /\ rc \in [Blobs -> Int]
        /\ \A c \in Blobs : rc[c] = found[c] + (IF v = c THEN 1 ELSE 0)
    BY <1>1, <2>1, <2>2
  <2> QED
    BY <2>3 DEF found, rc
<1>5. /\ At(t, "put") /\ keys' = KeysWhenFound(t) /\ Grant(t, v, rc)
      /\ Goto(t, "put_status") /\ v \in MaybeBlob
  BY <1>1 DEF StorePut, MaybeBlob
<1> HIDE DEF rc, v
<1>6. \A c \in Blobs : rc[c] = CountsWhenFound(t)[c]
        + (IF v = c THEN 1 ELSE 0)
        + Share("put_status", tmp_blob[t], v, c)
        - Share("put", tmp_blob[t], value[t], c)
  <2>1. \A c \in Blobs : /\ Share("put_status", tmp_blob[t], v, c) \in Nat
                         /\ Share("put_status", tmp_blob[t], v, c) =
                              Share("put", tmp_blob[t], value[t], c)
    BY DEF Share, v
  <2> QED
    BY <1>3, <1>4, <2>1
<1> QED
  BY <1>1, <1>2, <1>4, <1>5, <1>6, GrantKeeps

(* A GET: the version that is there is read again, by this transaction.    *)
LEMMA StoreGetKeeps ==
  ASSUME StoreInv, NEW t \in Trans, StoreGet(t)
  PROVE  StoreInv'
<1> DEFINE b == IF Kept(t) = <<>> THEN NoBlob ELSE Last(Kept(t)).blob
           found == CountsWhenFound(t)
           rc == IF b = NoBlob THEN found
                 ELSE Ref(version_create(Ref(found, b), b), b)
<1>1. /\ value[t] = NoBlob /\ want[t] \in Keys /\ tmp_blob[t] \in Blobs /\ Types
      /\ EntriesAreInOrder
  BY AtLabel DEF StoreGet, LocalsAreRight, BeforeStore, StoreInv
<1>2. /\ At(t, "get") /\ keys' = KeysWhenFound(t) /\ Grant(t, b, rc)
      /\ Goto(t, "get_status") /\ value' = [value EXCEPT ![t] = b]
      /\ UNCHANGED <<request, tmp_blob, undefined>>
  BY Zenon DEF StoreGet
<1>3. b \in MaybeBlob
  <2>1. Kept(t) \in Seq(Version)
    BY <1>1, BaseIsAPiece
  <2>2. Kept(t) # <<>> => Last(Kept(t)) \in Version
    BY <2>1, EmptySeq DEF Last
  <2> QED
    BY <2>2 DEF MaybeBlob, Version
<1> HIDE DEF b
<1>4. found \in [Blobs -> Int]
  BY <1>1 DEF CountsWhenFound, Types, Unref
<1> HIDE DEF found
<1>5. /\ rc \in [Blobs -> Int]
      /\ \A c \in Blobs : rc[c] = found[c] + (IF b = c THEN 3 ELSE 0)
  <2>1. CASE b = NoBlob
    BY <1>4, <2>1, BlobsAreSomething
  <2>2. CASE b # NoBlob
    <3>1. b \in Blobs
      BY <1>3, <2>2 DEF MaybeBlob
    <3>2. rc = [[[found EXCEPT ![b] = @ + 1] EXCEPT ![b] = @ + 1]
                  EXCEPT ![b] = @ + 1]
      BY <2>2 DEF version_create, Ref
    <3> HIDE DEF rc
    <3> QED
      BY <1>4, <3>1, <3>2
  <2> QED
    BY <2>1, <2>2
<1> HIDE DEF rc
<1>6. \A c \in Blobs : rc[c] = CountsWhenFound(t)[c]
        + (IF b = c THEN 1 ELSE 0)
        + Share("get_status", tmp_blob[t], b, c)
        - Share("get", tmp_blob[t], value[t], c)
  <2>1. \A c \in Blobs :
          /\ Share("get_status", tmp_blob[t], b, c) =
               (IF tmp_blob[t] = c THEN 1 ELSE 0) + (IF b = c THEN 2 ELSE 0)
          /\ Share("get", tmp_blob[t], value[t], c) =
               (IF tmp_blob[t] = c THEN 1 ELSE 0)
    BY <1>1, BlobsAreSomething DEF Share
  <2>2. \A c \in Blobs : rc[c] = found[c]
          + (IF b = c THEN 1 ELSE 0)
          + Share("get_status", tmp_blob[t], b, c)
          - Share("get", tmp_blob[t], value[t], c)
    BY <1>4, <1>5, <2>1
  <2> QED
    BY <2>2 DEF found
<1> QED
  BY <1>2, <1>3, <1>5, <1>6, GrantKeeps

(* A PUT that is too late.                                                 *)
LEMMA StorePutRefusedKeeps ==
  ASSUME StoreInv, NEW t \in Trans, StorePutRefused(t)
  PROVE  StoreInv'
<1> DEFINE v == value[t]
           rc == Unref(CountsWhenFound(t), v)
<1>1. v \in Blobs /\ want[t] \in Keys /\ tmp_blob[t] \in Blobs /\ Types
  BY AtLabel DEF StorePutRefused, LocalsAreRight, BeforeStore
<1>2. CountsWhenFound(t) \in [Blobs -> Int]
  BY <1>1 DEF CountsWhenFound, Types, Unref
<1>3. /\ rc \in [Blobs -> Int]
      /\ \A c \in Blobs : rc[c] = CountsWhenFound(t)[c] - (IF v = c THEN 1 ELSE 0)
  <2> DEFINE found == CountsWhenFound(t)
  <2>1. rc = [found EXCEPT ![v] = @ - 1]
    BY DEF Unref
  <2> HIDE DEF found, rc
  <2>2. found \in [Blobs -> Int]
    BY <1>2 DEF found
  <2>3. /\ rc \in [Blobs -> Int]
        /\ \A c \in Blobs : rc[c] = found[c] - (IF v = c THEN 1 ELSE 0)
    BY <1>1, <2>1, <2>2
  <2> QED
    BY <2>3 DEF found, rc
<1>4. /\ At(t, "put") /\ keys' = KeysWhenFound(t) /\ Refuse(t, rc)
      /\ Goto(t, "put_refused")
      /\ UNCHANGED <<request, tmp_blob, value, undefined>>
  BY DEF StorePutRefused, locals
<1> HIDE DEF rc, v
<1>5. \A c \in Blobs : rc[c] = CountsWhenFound(t)[c]
        + Share("put_refused", tmp_blob[t], value[t], c)
        - Share("put", tmp_blob[t], value[t], c)
  <2>1. \A c \in Blobs :
          /\ Share("put_refused", tmp_blob[t], value[t], c) =
               (IF tmp_blob[t] = c THEN 1 ELSE 0)
          /\ Share("put", tmp_blob[t], value[t], c) =
               (IF tmp_blob[t] = c THEN 1 ELSE 0) + (IF v = c THEN 1 ELSE 0)
    BY DEF Share, v
  <2> QED
    BY <1>2, <1>3, <2>1
<1> QED
  BY <1>3, <1>4, <1>5, RefuseKeeps

(* A GET that is too late.                                                 *)
LEMMA StoreGetRefusedKeeps ==
  ASSUME StoreInv, NEW t \in Trans, StoreGetRefused(t)
  PROVE  StoreInv'
<1>1. value[t] = NoBlob /\ want[t] \in Keys /\ tmp_blob[t] \in Blobs /\ Types
  BY AtLabel DEF StoreGetRefused, LocalsAreRight, BeforeStore
<1>2. CountsWhenFound(t) \in [Blobs -> Int]
  BY <1>1 DEF CountsWhenFound, Types, Unref
<1>3. /\ At(t, "get") /\ keys' = KeysWhenFound(t)
      /\ Refuse(t, CountsWhenFound(t)) /\ Goto(t, "get_status")
      /\ UNCHANGED <<request, tmp_blob, value, undefined>>
  BY DEF StoreGetRefused, locals
<1>4. \A c \in Blobs : CountsWhenFound(t)[c] = CountsWhenFound(t)[c]
        + Share("get_status", tmp_blob[t], value[t], c)
        - Share("get", tmp_blob[t], value[t], c)
  <2>1. \A c \in Blobs :
          /\ Share("get_status", tmp_blob[t], value[t], c) \in Nat
          /\ Share("get_status", tmp_blob[t], value[t], c) =
               Share("get", tmp_blob[t], value[t], c)
    BY <1>1, BlobsAreSomething DEF Share
  <2>2. \A c \in Blobs : CountsWhenFound(t)[c] \in Int
    BY <1>2
  <2> QED
    BY <2>1, <2>2
<1> QED
  BY <1>2, <1>3, <1>4, RefuseKeeps

-----------------------------------------------------------------------------
(* The ways out of the program's rules.                                    *)

(* What is in the store is not freed.                                      *)
LEMMA NothingDangles ==
  ASSUME StoreInv, NEW t \in Trans, want[t] \in Keys,
         NEW v \in ToSet(Versions(t))
  PROVE  ~Dangling(v)
<1> DEFINE k == want[t]
           vs == entries[k].versions
<1>1. /\ Types /\ TransactionsAreHeld /\ RefcntsAreExact
      /\ vs \in Seq(Version) /\ InOrder(vs)
  BY DEF StoreInv, Types, Entry, EntriesAreInOrder
<1>2. PICK i \in 1 .. Len(vs) : v = vs[i]
  BY <1>1, ElementsOf DEF Versions
<1>3. v \in Version /\ v \in ToSet(vs)
  BY <1>1, <1>2 DEF Versions
<1>4. trefs[v.creator] # 0
  <2> DEFINE c == v.creator
  <2>1. IsFiniteSet(KeysBy(entries, c))
    BY XactoAssumption, FS_Subset DEF KeysBy
  <2>2. k \in KeysBy(entries, c)
    BY <1>3 DEF KeysBy
  <2>3. Cardinality(KeysBy(entries, c)) \in Nat \ {0}
    BY <2>1, <2>2, FS_CardinalityType, FS_EmptySet
  <2>4. Cardinality(Dependents(depends, c)) \in Nat
    BY DependentsAreFinite
  <2>5. c \in Trans
    BY <1>3 DEF Version
  <2> HIDE DEF c
  <2>6. trefs[c] >= Cardinality(KeysBy(entries, c))
          + Cardinality(Dependents(depends, c)) + (IF pc[c] = "done" THEN 0 ELSE 1)
    BY <1>1, <2>5, HeldInOtherWords
  <2>7. trefs[c] # 0
    BY <2>3, <2>4, <2>6
  <2> QED
    BY <2>7 DEF c
<1>5. v.blob # NoBlob => refcnt[v.blob] # 0
  <2> SUFFICES ASSUME v.blob # NoBlob PROVE refcnt[v.blob] # 0
    OBVIOUS
  <2> DEFINE b == v.blob
  <2>1. b \in Blobs
    BY <1>3 DEF Version, MaybeBlob
  <2>2. i \in 1 .. NTrans
    <3>1. Len(vs) <= NTrans /\ Len(vs) \in Nat /\ NTrans \in Nat
      BY <1>1, ListsAreInjective, XactoAssumption
    <3> HIDE DEF vs
    <3> QED
      BY <3>1
  <2>3. <<k, i>> \in PairsWith(entries, b)
    BY <1>1, <1>2, <2>2 DEF PairsWith
  <2>4. Cardinality(PairsWith(entries, b)) \in Nat \ {0}
    BY <2>3, PairsAreFinite, FS_EmptySet
  <2>5. HeldByThreads(pc, tmp_blob, value, b) \in Nat
    BY ThreadMoves
  <2> HIDE DEF b
  <2>6. refcnt[b] = Cardinality(PairsWith(entries, b))
          + (IF b \in keys THEN 1 ELSE 0) + HeldByThreads(pc, tmp_blob, value, b)
    BY <1>1, <2>1, ExactInOtherWords
  <2>7. refcnt[b] # 0
    BY <2>4, <2>5, <2>6
  <2> QED
    BY <2>7 DEF b
<1> QED
  BY <1>4, <1>5 DEF Dangling

(* A step that uses what is freed is only taken after an abort.            *)
LEMMA AstrayKeeps ==
  ASSUME StoreInv, GoAstray,
         \E t \in Trans : /\ status[t] = "aborted"
                          /\ pc[t] \in {"put_status", "put_refused",
                                        "get_status", "gone"}
  PROVE  StoreInv'
<1>1. /\ undefined' = TRUE /\ refcnt' = refcnt /\ keys' = keys
      /\ entries' = entries /\ status' = status /\ trefs' = trefs
      /\ depends' = depends /\ pc' = pc /\ ops' = ops /\ want' = want
      /\ tmp_blob' = tmp_blob /\ value' = value
  BY DEF GoAstray, transactions, request, locals
<1>2. /\ Types' /\ EntriesAreInOrder' /\ DependOnOlder(depends)'
      /\ KeysAreDisposedByAborts'
  BY <1>1 DEF StoreInv, Types, EntriesAreInOrder, InOrder, DependOnOlder,
              KeysAreDisposedByAborts
<1>3. RequestsAreRight'
  BY <1>1 DEF StoreInv, RequestsAreRight, LocalsAreRight, KeyIsRight
<1>4. RefcntsAreExact' /\ TransactionsAreHeld'
  BY <1>1, ExactInOtherWords, HeldInOtherWords DEF StoreInv
<1>5. UndefinedOnlyOnAbort'
  BY <1>1 DEF UndefinedOnlyOnAbort
<1> QED
  BY <1>2, <1>3, <1>4, <1>5 DEF StoreInv

(* The store compares keys with one that is freed.                         *)
LEMMA StoreTouchesFreedKeeps ==
  ASSUME StoreInv, NEW t \in Trans, StoreTouchesFreed(t)
  PROVE  StoreInv'
<1>1. want[t] \in Keys
  BY AtLabel DEF StoreTouchesFreed, LocalsAreRight, BeforeStore
<1>2. PICK k \in Keys : entries[k].key # NoBlob /\ entries[k].key \notin keys
  BY <1>1, NothingDangles DEF StoreTouchesFreed
<1>3. \E u \in Trans : status[u] = "aborted" /\ pc[u] = "gone"
  BY <1>2 DEF StoreInv, KeysAreDisposedByAborts
<1> QED
  BY <1>3, AstrayKeeps DEF StoreTouchesFreed

-----------------------------------------------------------------------------
(* The invariant holds.                                                    *)

LEMMA InitHasInv == Init => StoreInv
<1> SUFFICES ASSUME Init PROVE StoreInv
  OBVIOUS
<1>1. NTrans \in Nat
  BY XactoAssumption
<1>2. Types
  <2>1. undefined \in BOOLEAN
    BY DEF Init
  <2>2. entries \in [Keys -> Entry]
    BY DEF Init, Absent, Entry, MaybeBlob
  <2> QED
    BY <2>1, <2>2 DEF Init, Types, MaybeBlob
<1>3. RequestsAreRight
  BY DEF Init, RequestsAreRight, LocalsAreRight, KeyIsRight, BeforeStore,
         AfterStore
<1>4. \A k \in Keys : entries[k].versions = <<>> /\ entries[k].key = NoBlob
  BY DEF Init, Absent
<1>5. EntriesAreInOrder /\ KeysAreDisposedByAborts
  BY <1>4 DEF EntriesAreInOrder, KeysAreDisposedByAborts, InOrder
<1>6. DependOnOlder(depends) /\ UndefinedOnlyOnAbort
  BY DEF Init, DependOnOlder, UndefinedOnlyOnAbort
<1>7. RefcntsAreExact
  <2> SUFFICES ASSUME NEW b \in Blobs
               PROVE  refcnt[b] = Cardinality(PairsWith(entries, b))
                        + (IF b \in keys THEN 1 ELSE 0)
                        + HeldByThreads(pc, tmp_blob, value, b)
    BY ExactInOtherWords
  <2>1. PairsWith(entries, b) = {}
    BY <1>4 DEF PairsWith
  <2>2. b # NoBlob
    BY BlobsAreSomething
  <2>3. /\ {u \in Trans : tmp_blob[u] = b} = {}
        /\ {u \in Trans : value[u] = b /\ pc[u] \in {"put", "put_status",
                              "get_status", "get_value", "gone"}} = {}
        /\ {u \in Trans : value[u] = b /\ pc[u] = "get_status"} = {}
    BY <2>2 DEF Init
  <2>4. HeldByThreads(pc, tmp_blob, value, b) = 0
    <3>1. HeldByThreads(pc, tmp_blob, value, b) =
            Cardinality({}) + Cardinality({}) + Cardinality({})
      BY <2>3, Zenon DEF HeldByThreads
    <3> QED
      BY <3>1, FS_EmptySet
  <2> QED
    BY <2>1, <2>4, FS_EmptySet DEF Init
<1>8. TransactionsAreHeld
  <2> SUFFICES ASSUME NEW t \in Trans
               PROVE  trefs[t] >= Cardinality(KeysBy(entries, t))
                        + Cardinality(Dependents(depends, t))
                        + (IF pc[t] = "done" THEN 0 ELSE 1)
    BY HeldInOtherWords
  <2>1. KeysBy(entries, t) = {}
    <3>1. \A k \in Keys : ToSet(entries[k].versions) = {}
      BY <1>4 DEF ToSet
    <3> QED
      BY <3>1 DEF KeysBy
  <2>2. Dependents(depends, t) = {}
    BY DEF Dependents, Init
  <2>3. Cardinality({}) = 0 /\ trefs[t] = 1 /\ pc[t] = "receive"
    BY FS_EmptySet DEF Init
  <2> QED
    BY <2>1, <2>2, <2>3
<1> QED
  BY <1>2, <1>3, <1>5, <1>6, <1>7, <1>8 DEF StoreInv

(* Every step keeps the invariant.                                         *)
LEMMA StepKeepsInv == StoreInv /\ [Next]_vars => StoreInv'
<1> SUFFICES ASSUME StoreInv, [Next]_vars PROVE StoreInv'
  OBVIOUS
<1>1. CASE UNCHANGED vars
  <2>1. /\ undefined' = undefined /\ refcnt' = refcnt /\ keys' = keys
        /\ entries' = entries /\ status' = status /\ trefs' = trefs
        /\ depends' = depends /\ pc' = pc /\ ops' = ops /\ want' = want
        /\ tmp_blob' = tmp_blob /\ value' = value
    BY <1>1 DEF vars, transactions, request, locals
  <2>2. /\ Types' /\ EntriesAreInOrder' /\ DependOnOlder(depends)'
        /\ KeysAreDisposedByAborts'
    BY <2>1 DEF StoreInv, Types, EntriesAreInOrder, InOrder, DependOnOlder,
                KeysAreDisposedByAborts
  <2>3. RequestsAreRight'
    BY <2>1 DEF StoreInv, RequestsAreRight, LocalsAreRight, KeyIsRight
  <2>4. RefcntsAreExact' /\ TransactionsAreHeld'
    BY <2>1, ExactInOtherWords, HeldInOtherWords DEF StoreInv
  <2>5. UndefinedOnlyOnAbort'
    BY <2>1 DEF StoreInv, UndefinedOnlyOnAbort
  <2> QED
    BY <2>2, <2>3, <2>4, <2>5 DEF StoreInv
<1>2. ASSUME NEW t \in Trans, ReceiveFails(t) PROVE StoreInv'
  BY <1>2, ReceiveFailsKeeps
<1>3. ASSUME NEW t \in Trans, NEW k \in Keys, ReceivePut(t, k) \/ ReceiveGet(t, k)
      PROVE  StoreInv'
  BY <1>3, ReceiveKeeps DEF ReceivePut, ReceiveGet
<1>4. ASSUME NEW t \in Trans, PutValueFails(t) \/ PutValue(t) PROVE StoreInv'
  BY <1>4, PutValueFailsKeeps, PutValueKeeps
<1>5. ASSUME NEW t \in Trans, StorePut(t) \/ StorePutRefused(t) PROVE StoreInv'
  BY <1>5, StorePutKeeps, StorePutRefusedKeeps
<1>6. ASSUME NEW t \in Trans, PutReply(t) \/ PutAborted(t) PROVE StoreInv'
  BY <1>6, PutReplyKeeps, PutAbortedKeeps
<1>7. ASSUME NEW t \in Trans, PutDisposesTwice(t) \/ GetUnrefsNull(t)
      PROVE  StoreInv'
  BY <1>7, AstrayKeeps DEF PutDisposesTwice, GetUnrefsNull, At
<1>8. ASSUME NEW t \in Trans, StoreGet(t) \/ StoreGetRefused(t) PROVE StoreInv'
  BY <1>8, StoreGetKeeps, StoreGetRefusedKeeps
<1>9. ASSUME NEW t \in Trans, GetReply(t) \/ GetValue(t) \/ GetAborted(t)
      PROVE  StoreInv'
  BY <1>9, GetReplyKeeps, GetValueKeeps, GetAbortedKeeps
<1>10. ASSUME NEW t \in Trans, StoreTouchesFreed(t) PROVE StoreInv'
  BY <1>10, StoreTouchesFreedKeeps
<1>11. ASSUME NEW t \in Trans, CommitAborted(t) \/ Commit(t) PROVE StoreInv'
  BY <1>11, CommitAbortedKeeps, CommitKeeps
<1>12. Terminated => UNCHANGED vars
  BY DEF Terminated
<1> QED
  BY <1>1, <1>2, <1>3, <1>4, <1>5, <1>6, <1>7, <1>8, <1>9, <1>10, <1>11, <1>12
  DEF Next

(* The invariant of the store holds in every state the program reaches.    *)
THEOREM StoreInvHolds == Spec => []StoreInv
BY InitHasInv, StepKeepsInv, PTL DEF Spec

(* As long as nothing freed was used, the count of each blob is exactly    *)
(* the number of its references, and no transaction is freed while its     *)
(* thread, a version or a younger transaction refers to it; for any number *)
(* of clients, keys and requests.                                          *)
THEOREM CountsAreAlwaysRight == Spec => []CountsAreRight
<1>1. StoreInv => CountsAreRight
  BY DEF StoreInv, CountsAreRight
<1> QED
  BY <1>1, StoreInvHolds, PTL

(* Nothing freed and no NULL is used but after an abort that server.c      *)
(* handles wrongly.                                                        *)
THEOREM UndefinedOnlyAfterAbort == Spec => []UndefinedOnlyOnAbort
<1>1. StoreInv => UndefinedOnlyOnAbort
  BY DEF StoreInv
<1> QED
  BY <1>1, StoreInvHolds, PTL

(* The key of an entry is disposed of only by a PUT that was aborted and   *)
(* whose thread is gone: until then every entry has its key.               *)
THEOREM KeysLiveUntilAnAbort == Spec => []KeysAreDisposedByAborts
<1>1. StoreInv => KeysAreDisposedByAborts
  BY DEF StoreInv
<1> QED
  BY <1>1, StoreInvHolds, PTL
=============================================================================
