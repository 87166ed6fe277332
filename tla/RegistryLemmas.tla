--------------------------- MODULE RegistryLemmas ---------------------------
(***************************************************************************)
(* What the operations of the client registry do to its list, and that     *)
(* they keep it of the expected type, for the proofs about the modules     *)
(* that use the registry.                                                  *)
(***************************************************************************)
EXTENDS ClientRegistry, SequenceTheorems, FiniteSetTheorems, TLAPS

(* What unlinking one node does to the list of the registry: one element   *)
(* less, those before it in place, those after it one position earlier.    *)
LEMMA RemoveAtProperties ==
  ASSUME NEW S, NEW s \in Seq(S), NEW i \in 1 .. Len(s)
  PROVE  /\ RemoveAt(s, i) \in Seq(S)
         /\ Len(RemoveAt(s, i)) = Len(s) - 1
         /\ \A j \in 1 .. Len(s) - 1 :
              RemoveAt(s, i)[j] = IF j < i THEN s[j] ELSE s[j + 1]
<1> DEFINE a == SubSeq(s, 1, i - 1)
           b == SubSeq(s, i + 1, Len(s))
<1>0. Len(s) \in Nat /\ s \in [1 .. Len(s) -> S]
  BY LenProperties
<1>1. /\ a \in Seq(S)
      /\ Len(a) = i - 1
      /\ \A j \in 1 .. i - 1 : a[j] = s[j]
  <2>1. \A j \in 1 .. i - 1 : s[j] \in S
    BY <1>0
  <2> QED
    BY <2>1, <1>0, SubSeqProperties
<1>2. /\ b \in Seq(S)
      /\ Len(b) = Len(s) - i
      /\ \A j \in 1 .. Len(s) - i : b[j] = s[i + j]
  <2>1. \A j \in i + 1 .. Len(s) : s[j] \in S
    BY <1>0
  <2>2. /\ b \in Seq(S)
        /\ Len(b) = IF i + 1 <= Len(s) THEN Len(s) - (i + 1) + 1 ELSE 0
        /\ \A j \in 1 .. Len(s) - (i + 1) + 1 : b[j] = s[(i + 1) + j - 1]
    <3>1. i + 1 \in Int /\ Len(s) \in Int
      BY <1>0
    <3> QED
      BY <2>1, <3>1, SubSeqProperties
  <2> HIDE DEF b
  <2>3. Len(b) = Len(s) - i
    <3>1. i \in Int /\ Len(s) \in Int /\ i <= Len(s)
      BY <1>0
    <3>2. Len(b) = IF i + 1 <= Len(s) THEN Len(s) - (i + 1) + 1 ELSE 0
      BY <2>2
    <3>3. CASE i + 1 <= Len(s)
      BY <3>1, <3>2, <3>3
    <3>4. CASE ~ (i + 1 <= Len(s))
      BY <3>1, <3>2, <3>4
    <3> QED
      BY <3>3, <3>4
  <2>4. ASSUME NEW j \in 1 .. Len(s) - i
        PROVE  b[j] = s[i + j]
    <3>1. j \in 1 .. Len(s) - (i + 1) + 1
      BY <1>0
    <3>2. (i + 1) + j - 1 = i + j
      BY <1>0
    <3>3. b[j] = s[(i + 1) + j - 1]
      BY <2>2, <3>1
    <3> QED
      BY <3>2, <3>3
  <2> QED
    BY <2>2, <2>3, <2>4
<1>3. RemoveAt(s, i) = a \o b
  BY DEF RemoveAt
<1> HIDE DEF a, b
<1>4. /\ a \o b \in Seq(S)
      /\ Len(a \o b) = Len(a) + Len(b)
      /\ \A j \in 1 .. Len(a) + Len(b) :
           (a \o b)[j] = IF j <= Len(a) THEN a[j] ELSE b[j - Len(a)]
  BY <1>1, <1>2, ConcatProperties
<1> QED
  BY <1>0, <1>1, <1>2, <1>3, <1>4

(* Every operation of the registry keeps its data type correct.            *)
LEMMA OperationsKeepTypes ==
  ASSUME RegistryTypeOK, NEW t \in Threads
  PROVE  /\ Lock(t) => RegistryTypeOK'
         /\ \A fd \in Fds : creg_register(t, fd) => RegistryTypeOK'
         /\ \A fd \in Fds : creg_register_dup(t, fd) => RegistryTypeOK'
         /\ \A fd \in Fds : creg_unregister(t, fd) => RegistryTypeOK'
         /\ SemWait => RegistryTypeOK'
         /\ creg_wait_for_empty(t) => RegistryTypeOK'
         /\ creg_wait_again(t) => RegistryTypeOK'
         /\ creg_shutdown_all(t) => RegistryTypeOK'
<1> USE DEF RegistryTypeOK, Unlock
<1>1. ASSUME NEW fd \in Fds, creg_unregister(t, fd)
      PROVE  RegistryTypeOK'
  <2>1. PICK i \in 1 .. Len(clients) : clients' = RemoveAt(clients, i)
    BY <1>1 DEF creg_unregister, PositionsOf
  <2>2. clients' \in Seq(Fds)
    BY <2>1, RemoveAtProperties
  <2> QED
    BY <1>1, <2>2 DEF creg_unregister
<1>2. creg_shutdown_all(t) => RegistryTypeOK'
  <2>1. ToSet(clients) \subseteq Fds /\ Len(clients) \in Nat
    BY LenProperties DEF ToSet
  <2> QED
    BY <2>1 DEF creg_shutdown_all
<1>3. ASSUME NEW fd \in Fds, creg_register(t, fd)
      PROVE  RegistryTypeOK'
  <2>1. clients' \in Seq(Fds)
    BY <1>3 DEF creg_register
  <2> QED
    BY <1>3, <2>1 DEF creg_register
<1> QED
  BY <1>1, <1>2, <1>3
  DEF Lock, creg_register_dup, SemWait, creg_wait_for_empty, creg_wait_again

LEMMA PositionsFinite ==
  ASSUME RegistryTypeOK, NEW fd
  PROVE  IsFiniteSet(PositionsOf(fd))
<1>1. Len(clients) \in Nat
  BY DEF RegistryTypeOK
<1>2. IsFiniteSet(1 .. Len(clients))
  BY <1>1, FS_Interval
<1> QED
  BY <1>2, FS_Subset DEF PositionsOf

(* Appending a node adds a position to those of its descriptor.            *)
LEMMA PositionsAfterAppend ==
  ASSUME RegistryTypeOK, NEW fd \in Fds, NEW f \in Fds,
         clients' = Append(clients, fd)
  PROVE  Cardinality(PositionsOf(f)') =
           Cardinality(PositionsOf(f)) + IF f = fd THEN 1 ELSE 0
<1> DEFINE n == Len(clients) + 1
<1>1. /\ Len(clients) \in Nat
      /\ Len(clients') = n
      /\ \A i \in 1 .. Len(clients) : clients'[i] = clients[i]
      /\ clients'[n] = fd
  BY DEF RegistryTypeOK
<1>2. PositionsOf(f)' = PositionsOf(f) \cup IF f = fd THEN {n} ELSE {}
  BY <1>1 DEF PositionsOf
<1>3. n \notin PositionsOf(f)
  BY <1>1 DEF PositionsOf
<1>4. Cardinality(PositionsOf(f)) \in Nat
  BY PositionsFinite, FS_CardinalityType
<1>5. CASE f = fd
  BY <1>2, <1>3, <1>5, PositionsFinite, FS_AddElement
<1>6. CASE f # fd
  BY <1>2, <1>4, <1>6
<1> QED
  BY <1>5, <1>6

(* Unlinking a node takes one away, and moves those behind it.             *)
LEMMA PositionsAfterRemove ==
  ASSUME RegistryTypeOK, NEW fd \in Fds, NEW f \in Fds,
         NEW i \in PositionsOf(fd), clients' = RemoveAt(clients, i)
  PROVE  Cardinality(PositionsOf(f)') =
           Cardinality(PositionsOf(f)) - IF f = fd THEN 1 ELSE 0
<1> DEFINE P == PositionsOf(f) \ {i}
           R == PositionsOf(f)'
           moved == [j \in P |-> IF j < i THEN j ELSE j - 1]
<1>1. /\ Len(clients) \in Nat
      /\ i \in 1 .. Len(clients)
      /\ clients[i] = fd
  BY DEF RegistryTypeOK, PositionsOf
<1>2. /\ Len(clients') = Len(clients) - 1
      /\ \A j \in 1 .. Len(clients) - 1 :
           clients'[j] = IF j < i THEN clients[j] ELSE clients[j + 1]
  BY <1>1, RemoveAtProperties DEF RegistryTypeOK
<1>3. /\ P = {j \in 1 .. Len(clients) : clients[j] = f /\ j # i}
      /\ R = {j \in 1 .. Len(clients) - 1 : clients'[j] = f}
  BY <1>1, <1>2 DEF PositionsOf
<1> HIDE DEF P, R
<1>4. ExistsBijection(P, R)
  <2>1. moved \in [P -> R]
    BY <1>1, <1>2, <1>3
  <2>2. \A j, k \in P : moved[j] = moved[k] => j = k
    BY <1>1, <1>3
  <2>3. ASSUME NEW k \in R
        PROVE  \E j \in P : moved[j] = k
    <3>1. CASE k < i
      BY <1>1, <1>2, <1>3, <3>1
    <3>2. CASE ~ (k < i)
      <4>1. k + 1 \in P /\ moved[k + 1] = k
        BY <1>1, <1>2, <1>3, <3>2
      <4> QED
        BY <4>1
    <3> QED
      BY <3>1, <3>2
  <2> HIDE DEF moved
  <2>4. moved \in Bijection(P, R)
    BY <2>1, <2>2, <2>3 DEF Bijection, Injection, Surjection, IsInjective
  <2> QED
    BY <2>4 DEF ExistsBijection
<1>5. IsFiniteSet(P) /\ Cardinality(R) = Cardinality(P)
  BY <1>4, PositionsFinite, FS_RemoveElement, FS_Bijection DEF P
<1>6. i \in PositionsOf(f) <=> f = fd
  BY <1>1 DEF PositionsOf
<1>7. /\ Cardinality(PositionsOf(f)) \in Nat
      /\ Cardinality(P) = IF i \in PositionsOf(f)
                          THEN Cardinality(PositionsOf(f)) - 1
                          ELSE Cardinality(PositionsOf(f))
  BY PositionsFinite, FS_RemoveElement, FS_CardinalityType DEF P
<1> QED
  BY <1>5, <1>6, <1>7 DEF R
=============================================================================
