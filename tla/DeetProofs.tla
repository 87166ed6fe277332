----------------------------- MODULE DeetProofs -----------------------------
(***************************************************************************)
(* The debugger of hw4 keeps its children in view, for any number of       *)
(* processes and whatever the user, the children and SIGINT do: it exits   *)
(* without leaving one, it never shows one as stopped that it has          *)
(* continued, and no event is lost when one SIGCHLD stands for several.    *)
(*                                                                         *)
(* The argument: a stop that is still to be reported stops its process     *)
(* until a command resumes it, and cont resumes only a child whose stop    *)
(* has been reported; so no report can come between its two steps.  From   *)
(* handle_shutdown on, every child that exists is in the list, killed in   *)
(* the table and dying in the kernel, until the handler waits for it.      *)
(***************************************************************************)
EXTENDS Deet, SequenceTheorems, WellFoundedInduction, TLAPS

(* The places where main works on a child.                                 *)
WithChild == {"forked", "cont_set", "cont_resume", "kill_do", "stop_set",
              "stop_send", "release_set", "release_detach", "wait_check",
              "wait_suspend", "suspended"}

(* Every variable has a value of its type.                                 *)
Types ==
  /\ proc \in [Pids -> {"unborn", "running", "stopped", "dying", "reaped"}
                       \cup Zombie]
  /\ event \in [Pids -> {"none", "stopped", "continued"}]
  /\ ktraced \in [Pids -> BOOLEAN]
  /\ list \in Seq(Pids)
  /\ status \in [Pids -> PState]
  /\ trace \in [Pids -> BOOLEAN]
  /\ pc \in {"spin", "read", "quit"} \cup WithChild
  /\ arg \in Pids \cup {NoPid}
  /\ handler \in {"idle", "reaping"}
  /\ deet \in {"running", "failed", "crashed", "exited"}
  /\ lost \subseteq Pids

(* What main knows of the child it works on.                               *)
ArgIsRight ==
  /\ pc \in WithChild => arg \in Pids
  /\ pc = "forked" => ktraced[arg]
  /\ pc = "release_detach" => ~ trace[arg]

(* What waitpid will report is true of the process, and a child that the   *)
(* table shows as traced is.                                               *)
KernelAgrees ==
  \A p \in Pids :
    /\ event[p] # "none" => proc[p] \in {"running", "stopped"}
    /\ event[p] = "stopped" => proc[p] = "stopped"
    /\ trace[p] => ktraced[p]

(* A child that is dead in the table has been waited for.                  *)
DeadAreReaped == \A p \in Pids : status[p] = "dead" => proc[p] = "reaped"

(* The stop of a child that is shown as stopped has been reported, and it  *)
(* is the last there is.                                                   *)
StopsAreReported ==
  \A p \in Pids : status[p] = "stopped" /\ trace[p] =>
    event[p] = "none" /\ proc[p] \notin {"unborn", "running"}

(* So it is while cont goes from its check to the resumption.              *)
ContIsSafe ==
  pc \in {"cont_set", "cont_resume"} /\ trace[arg] =>
    /\ event[arg] = "none" /\ proc[arg] # "running"
    /\ pc = "cont_resume" => status[arg] # "stopped"

(* A process that exists is in the list, or about to enter it; from        *)
(* handle_shutdown on it is also dying, and waited for.                    *)
ChildrenAreKnown ==
  deet = "running" =>
    \A p \in Pids :
      \/ proc[p] \in {"unborn", "reaped"}
      \/ pc = "forked" /\ arg = p
      \/ /\ p \in ToSet(list)
         /\ drain => status[p] = "killed" /\ proc[p] \in {"dying"} \cup Zombie

DeetInv ==
  /\ Types
  /\ ArgIsRight
  /\ KernelAgrees
  /\ DeadAreReaped
  /\ StopsAreReported
  /\ ContIsSafe
  /\ ChildrenAreKnown
  /\ NoOrphans
  /\ EventsAreReported

-----------------------------------------------------------------------------
(* The list of children, as a set.                                         *)

LEMMA LeastNatural ==
  ASSUME NEW S \in SUBSET Nat, S # {}
  PROVE  \E m \in S : \A n \in S : m <= n
<1> DEFINE R == OpToRel(<, Nat)
<1>1. IsWellFoundedOn(R, Nat)
  BY NatLessThanWellFounded
<1>2. \A x, y \in Nat : x < y => <<x, y>> \in R
  BY DEF OpToRel
<1> HIDE DEF R
<1>3. PICK m \in S : \A n \in S : ~ (<<n, m>> \in R)
  BY <1>1, WFMin
<1>4. \A n \in S : m \in Nat /\ n \in Nat /\ ~ (n < m)
  BY <1>2, <1>3
<1> QED
  BY <1>4

(* What a member of a sequence is.                                         *)
LEMMA ElementsOf ==
  ASSUME NEW S, NEW s \in Seq(S)
  PROVE  /\ Len(s) \in Nat
         /\ ToSet(s) = {s[i] : i \in 1 .. Len(s)}
         /\ ToSet(s) \subseteq S
<1>1. DOMAIN s = 1 .. Len(s) /\ \A i \in 1 .. Len(s) : s[i] \in S
  OBVIOUS
<1> QED
  BY <1>1 DEF ToSet

(* The members of two sequences, one after the other.                      *)
LEMMA ElementsOfBoth ==
  ASSUME NEW S, NEW s \in Seq(S), NEW t \in Seq(S)
  PROVE  s \o t \in Seq(S) /\ ToSet(s \o t) = ToSet(s) \cup ToSet(t)
<1>1. /\ s \o t \in Seq(S) /\ Len(s \o t) = Len(s) + Len(t)
      /\ Len(s) \in Nat /\ Len(t) \in Nat
      /\ \A i \in 1 .. Len(s) + Len(t) :
           (s \o t)[i] = IF i <= Len(s) THEN s[i] ELSE t[i - Len(s)]
  OBVIOUS
<1>2. /\ ToSet(s \o t) = {(s \o t)[i] : i \in 1 .. Len(s) + Len(t)}
      /\ ToSet(s) = {s[i] : i \in 1 .. Len(s)}
      /\ ToSet(t) = {t[i] : i \in 1 .. Len(t)}
  BY <1>1, ElementsOf
<1>3. ToSet(s \o t) \subseteq ToSet(s) \cup ToSet(t)
  <2> SUFFICES ASSUME NEW i \in 1 .. Len(s) + Len(t)
               PROVE  (s \o t)[i] \in ToSet(s) \cup ToSet(t)
    BY <1>2
  <2>1. i \in 1 .. Len(s) \/ (~ (i <= Len(s)) /\ i - Len(s) \in 1 .. Len(t))
    BY <1>1
  <2>2. (s \o t)[i] = IF i <= Len(s) THEN s[i] ELSE t[i - Len(s)]
    BY <1>1
  <2>3. i \in 1 .. Len(s) => i <= Len(s)
    BY <1>1
  <2> QED
    BY <1>2, <2>1, <2>2, <2>3
<1>4. ToSet(s) \subseteq ToSet(s \o t)
  <2> SUFFICES ASSUME NEW i \in 1 .. Len(s)
               PROVE  s[i] \in ToSet(s \o t)
    BY <1>2
  <2>1. i \in 1 .. Len(s) + Len(t) /\ i <= Len(s)
    BY <1>1
  <2> QED
    BY <1>1, <1>2, <2>1
<1>5. ToSet(t) \subseteq ToSet(s \o t)
  <2> SUFFICES ASSUME NEW i \in 1 .. Len(t)
               PROVE  t[i] \in ToSet(s \o t)
    BY <1>2
  <2>1. /\ Len(s) + i \in 1 .. Len(s) + Len(t) /\ ~ (Len(s) + i <= Len(s))
        /\ Len(s) + i - Len(s) = i
    BY <1>1
  <2>2. (s \o t)[Len(s) + i] = t[i]
    BY <1>1, <2>1
  <2> QED
    BY <1>2, <2>1, <2>2
<1> QED
  BY <1>1, <1>3, <1>4, <1>5

(* The member of a sequence of one.                                        *)
LEMMA ElementsOfOne ==
  ASSUME NEW S, NEW e \in S
  PROVE  <<e>> \in Seq(S) /\ ToSet(<<e>>) = {e}
<1> DEFINE s == <<e>>
<1>1. s \in Seq(S) /\ Len(s) = 1 /\ s[1] = e
  OBVIOUS
<1>2. \A i : i \in 1 .. 1 <=> i = 1
  OBVIOUS
<1> HIDE DEF s
<1>3. s \in Seq(S) /\ ToSet(s) = {e}
  <2>1. ToSet(s) = {s[i] : i \in 1 .. Len(s)}
    BY <1>1, ElementsOf
  <2>2. ToSet(s) = {s[i] : i \in 1 .. 1}
    BY <1>1, <2>1
  <2>3. ToSet(s) \subseteq {e} /\ s[1] \in ToSet(s)
    BY <1>1, <1>2, <2>2
  <2> QED
    BY <1>1, <2>3
<1> QED
  BY <1>3 DEF s

(* The members of a sequence into which one is inserted.                   *)
LEMMA ElementsOfInserted ==
  ASSUME NEW S, NEW s \in Seq(S), NEW i \in 1 .. Len(s) + 1, NEW e \in S
  PROVE  /\ InsertAt(s, i, e) \in Seq(S)
         /\ ToSet(InsertAt(s, i, e)) = ToSet(s) \cup {e}
<1> DEFINE a == SubSeq(s, 1, i - 1)
           c == SubSeq(s, i, Len(s))
           n == Len(s)
<1>1. n \in Nat /\ i \in Nat /\ 1 <= i /\ i <= n + 1
  OBVIOUS
<1>2. /\ \A j \in 1 .. i - 1 : s[j] \in S
      /\ \A j \in i .. n : s[j] \in S
  BY <1>1
<1>3. /\ a \in Seq(S) /\ Len(a) = IF 1 <= i - 1 THEN i - 1 - 1 + 1 ELSE 0
      /\ \A j \in 1 .. i - 1 - 1 + 1 : a[j] = s[1 + j - 1]
  <2>1. 1 \in Int /\ i - 1 \in Int
    BY <1>1
  <2> QED
    BY <1>2, <2>1, SubSeqProperties
<1>4. /\ c \in Seq(S) /\ Len(c) = IF i <= n THEN n - i + 1 ELSE 0
      /\ \A j \in 1 .. n - i + 1 : c[j] = s[i + j - 1]
  <2>1. i \in Int /\ n \in Int
    BY <1>1
  <2> QED
    BY <1>2, <2>1, SubSeqProperties
<1> HIDE DEF a, c
<1>5. Len(a) = i - 1 /\ Len(c) = n - i + 1
  <2> HIDE DEF n
  <2> QED
    BY <1>1, <1>3, <1>4
<1>6. /\ \A j \in 1 .. i - 1 : a[j] = s[j]
      /\ \A j \in 1 .. n - i + 1 : c[j] = s[i + j - 1]
  <2>1. i - 1 - 1 + 1 = i - 1
    BY <1>1
  <2>2. \A j \in 1 .. i - 1 : 1 + j - 1 = j
    BY <1>1
  <2> HIDE DEF n
  <2> QED
    BY <1>3, <1>4, <2>1, <2>2
<1>7. /\ ToSet(s) = {s[j] : j \in 1 .. n}
      /\ ToSet(a) = {a[j] : j \in 1 .. i - 1}
      /\ ToSet(c) = {c[j] : j \in 1 .. n - i + 1}
  BY <1>3, <1>4, <1>5, ElementsOf
<1> HIDE DEF n
<1>8. ToSet(a) \cup ToSet(c) = ToSet(s)
  <2>1. ToSet(a) \subseteq ToSet(s)
    <3>1. \A j \in 1 .. i - 1 : j \in 1 .. n
      BY <1>1
    <3> QED
      BY <1>6, <1>7, <3>1
  <2>2. ToSet(c) \subseteq ToSet(s)
    <3>1. \A j \in 1 .. n - i + 1 : i + j - 1 \in 1 .. n
      BY <1>1
    <3> QED
      BY <1>6, <1>7, <3>1
  <2>3. ASSUME NEW j \in 1 .. n PROVE s[j] \in ToSet(a) \cup ToSet(c)
    <3>1. CASE j \in 1 .. i - 1
      BY <1>6, <1>7, <3>1
    <3>2. CASE j \notin 1 .. i - 1
      <4>1. j - i + 1 \in 1 .. n - i + 1 /\ i + (j - i + 1) - 1 = j
        BY <1>1, <3>2
      <4>2. c[j - i + 1] = s[j]
        BY <1>6, <4>1
      <4> QED
        BY <1>7, <4>1, <4>2
    <3> QED
      BY <3>1, <3>2
  <2> QED
    BY <1>7, <2>1, <2>2, <2>3
<1> DEFINE one == <<e>>
           ae == a \o one
<1>9. one \in Seq(S) /\ ToSet(one) = {e}
  BY ElementsOfOne
<1>10. InsertAt(s, i, e) = ae \o c
  BY DEF InsertAt, a, c
<1> HIDE DEF one
<1>11. ae \in Seq(S) /\ ToSet(ae) = ToSet(a) \cup {e}
  BY <1>3, <1>9, ElementsOfBoth
<1> HIDE DEF ae
<1>12. ae \o c \in Seq(S) /\ ToSet(ae \o c) = ToSet(ae) \cup ToSet(c)
  BY <1>4, <1>11, ElementsOfBoth
<1> QED
  BY <1>8, <1>10, <1>11, <1>12

(* The new child enters the list, and no other leaves it.                  *)
LEMMA ElementsOfConnected ==
  ASSUME NEW l \in Seq(Pids), NEW p \in Pids, NEW id
  PROVE  /\ connect_child(l, p, id) \in Seq(Pids)
         /\ ToSet(connect_child(l, p, id)) = ToSet(l) \cup {p}
<1> DEFINE fits == {i \in 1 .. Len(l) :
                      /\ deetId[l[i]] < id
                      /\ i = Len(l) \/ deetId[l[i + 1]] > id}
           first == CHOOSE i \in fits : \A j \in fits : i <= j
<1>1. connect_child(l, p, id) = IF fits = {} THEN <<p>> \o l
                                ELSE InsertAt(l, 1 + first, p)
  BY Zenon DEF connect_child
<1>2. fits \subseteq 1 .. Len(l) /\ Len(l) \in Nat
  OBVIOUS
<1> HIDE DEF fits
<1>3. CASE fits = {}
  <2> DEFINE one == <<p>>
  <2>1. one \in Seq(Pids) /\ ToSet(one) = {p}
    BY ElementsOfOne
  <2>2. connect_child(l, p, id) = one \o l
    BY <1>1, <1>3
  <2> HIDE DEF one
  <2>3. one \o l \in Seq(Pids) /\ ToSet(one \o l) = ToSet(one) \cup ToSet(l)
    BY <2>1, ElementsOfBoth
  <2> QED
    BY <2>1, <2>2, <2>3
<1>4. CASE fits # {}
  <2>1. fits \in SUBSET Nat
    BY <1>2
  <2>2. \E i \in fits : \A j \in fits : i <= j
    BY <1>4, <2>1, LeastNatural
  <2>3. first \in fits
    BY <2>2
  <2> HIDE DEF first
  <2>4. 1 + first \in 1 .. Len(l) + 1
    BY <1>2, <2>3
  <2> QED
    BY <1>1, <1>4, <2>4, ElementsOfInserted
<1> QED
  BY <1>3, <1>4

(* The function that LiveOnes defines by recursion exists.                 *)
LEMMA LiveOnesExist ==
  ASSUME NEW l \in Seq(Pids)
  PROVE  \E f : f = [n \in 0 .. Len(l) |->
                       IF n = 0 THEN <<>>
                       ELSE IF IsLive(l[n]) THEN Append(f[n - 1], l[n])
                       ELSE f[n - 1]]
<1> DEFINE L == Len(l)
           Next1(f, n) == IF n = 0 THEN <<>>
                          ELSE IF IsLive(l[n]) THEN Append(f[n - 1], l[n])
                          ELSE f[n - 1]
           Solves(f, n) == /\ f = [m \in 0 .. L |-> f[m]]
                           /\ \A m \in 0 .. n : f[m] = Next1(f, m)
           Bad == {n \in 0 .. L : ~ \E f : Solves(f, n)}
<1>1. L \in Nat
  OBVIOUS
<1> HIDE DEF L
<1>2. 0 \notin Bad
  <2> DEFINE f == [m \in 0 .. L |-> <<>>]
  <2>1. 0 \in 0 .. L /\ \A m \in 0 .. 0 : m = 0
    BY <1>1
  <2>2. Solves(f, 0)
    BY <2>1
  <2> QED
    BY <2>2
<1>3. ASSUME NEW n \in 0 .. L, n # 0, n - 1 \notin Bad
      PROVE  n \notin Bad
  <2>1. n - 1 \in 0 .. L
    BY <1>1, <1>3
  <2>2. PICK f : Solves(f, n - 1)
    BY <1>3, <2>1
  <2> DEFINE x == Next1(f, n)
             g == [m \in 0 .. L |-> IF m = n THEN x ELSE f[m]]
  <2>3. g = [m \in 0 .. L |-> g[m]]
    OBVIOUS
  <2>4. \A m \in 0 .. L : g[m] = IF m = n THEN x ELSE f[m]
    OBVIOUS
  <2> HIDE DEF g
  <2>5. ASSUME NEW m \in 0 .. n PROVE g[m] = Next1(g, m)
    <3>1. m \in 0 .. L /\ (m # 0 => m - 1 \in 0 .. L /\ m - 1 # n)
      BY <1>1
    <3>2. m # 0 => g[m - 1] = f[m - 1]
      BY <2>4, <3>1
    <3>3. Next1(g, m) = Next1(f, m)
      BY <3>2
    <3>4. CASE m = n
      BY <2>4, <3>1, <3>3, <3>4
    <3>5. CASE m # n
      <4>1. m \in 0 .. n - 1
        BY <1>1, <3>5
      <4>2. f[m] = Next1(f, m)
        BY <2>2, <4>1
      <4> QED
        BY <2>4, <3>1, <3>3, <3>5, <4>2
    <3> QED
      BY <3>4, <3>5
  <2>6. Solves(g, n)
    BY <2>3, <2>5
  <2> QED
    BY <2>6
<1>4. Bad = {}
  <2> SUFFICES ASSUME Bad # {} PROVE FALSE
    OBVIOUS
  <2>1. Bad \in SUBSET Nat
    OBVIOUS
  <2>2. PICK n \in Bad : \A m \in Bad : n <= m
    BY <2>1, LeastNatural
  <2>3. n \in 0 .. L /\ n # 0
    BY <1>2
  <2>4. n - 1 \notin Bad
    BY <2>1, <2>2
  <2> HIDE DEF Bad
  <2> QED
    BY <1>3, <2>3, <2>4
<1>5. PICK f : Solves(f, L)
  <2>1. L \in 0 .. L
    BY <1>1
  <2> HIDE DEF Solves
  <2> QED
    BY <1>4, <2>1
<1>6. f = [n \in 0 .. L |-> Next1(f, n)]
  BY <1>5
<1> QED
  BY <1>6 DEF L

(* The children that are left are those that are not dead.                 *)
LEMMA ElementsOfLive ==
  ASSUME NEW l \in Seq(Pids)
  PROVE  /\ LiveOnes(l) \in Seq(Pids)
         /\ ToSet(LiveOnes(l)) = {p \in ToSet(l) : IsLive(p)}
<1> DEFINE L == Len(l)
           Next1(f) == [n \in 0 .. Len(l) |->
                          IF n = 0 THEN <<>>
                          ELSE IF IsLive(l[n]) THEN Append(f[n - 1], l[n])
                          ELSE f[n - 1]]
           g == CHOOSE f : f = Next1(f)
           Among(n) == {p \in {l[i] : i \in 1 .. n} : IsLive(p)}
           Bad == {n \in 0 .. L : ~ (g[n] \in Seq(Pids) /\ ToSet(g[n]) = Among(n))}
<1>1. g = Next1(g)
  <2>1. \E f : f = Next1(f)
    BY LiveOnesExist
  <2> HIDE DEF Next1
  <2> QED
    BY <2>1
<1>2. LiveOnes(l) = g[L]
  BY Zenon DEF LiveOnes
<1>3. L \in Nat /\ \A n \in 1 .. L : l[n] \in Pids
  OBVIOUS
<1> HIDE DEF g
<1>4. /\ g[0] = <<>>
      /\ \A n \in 1 .. L : g[n] = IF IsLive(l[n]) THEN Append(g[n - 1], l[n])
                                  ELSE g[n - 1]
  <2>1. \A n \in 0 .. L : g[n] = IF n = 0 THEN <<>>
                            ELSE IF IsLive(l[n]) THEN Append(g[n - 1], l[n])
                            ELSE g[n - 1]
    BY <1>1
  <2>2. 0 \in 0 .. L /\ \A n \in 1 .. L : n \in 0 .. L /\ n # 0
    BY <1>3
  <2> HIDE DEF L
  <2> QED
    BY <2>1, <2>2
<1> HIDE DEF L
<1>5. 0 \notin Bad
  <2>1. Among(0) = {}
    OBVIOUS
  <2>2. <<>> \in Seq(Pids) /\ Len(<<>>) = 0
    OBVIOUS
  <2>3. ToSet(<<>>) = {}
    BY DEF ToSet
  <2> QED
    BY <1>4, <2>1, <2>2, <2>3
<1>6. ASSUME NEW n \in 1 .. L, n - 1 \notin Bad PROVE n \notin Bad
  <2>1. n - 1 \in 0 .. L /\ \A i : i \in 1 .. n <=> i \in 1 .. n - 1 \/ i = n
    BY <1>3
  <2>2. g[n - 1] \in Seq(Pids) /\ ToSet(g[n - 1]) = Among(n - 1)
    BY <1>6, <2>1
  <2>3. Among(n) = IF IsLive(l[n]) THEN Among(n - 1) \cup {l[n]} ELSE Among(n - 1)
    BY <2>1
  <2>4. /\ Append(g[n - 1], l[n]) \in Seq(Pids)
        /\ ToSet(Append(g[n - 1], l[n])) = ToSet(g[n - 1]) \cup {l[n]}
    <3>1. l[n] \in Pids
      BY <1>3
    <3> DEFINE one == <<l[n]>>
               old == g[n - 1]
    <3>2. one \in Seq(Pids) /\ ToSet(one) = {l[n]}
      BY <3>1, ElementsOfOne
    <3>3. old \in Seq(Pids)
      BY <2>2
    <3>4. Append(old, l[n]) = old \o one
      <4> HIDE DEF old
      <4> QED
        BY <3>1, <3>3
    <3> HIDE DEF one, old
    <3>5. old \o one \in Seq(Pids) /\ ToSet(old \o one) = ToSet(old) \cup ToSet(one)
      BY <3>2, <3>3, ElementsOfBoth
    <3>6. /\ Append(old, l[n]) \in Seq(Pids)
          /\ ToSet(Append(old, l[n])) = ToSet(old) \cup {l[n]}
      BY <3>2, <3>4, <3>5
    <3> QED
      BY <3>6 DEF old
  <2> HIDE DEF Among
  <2>5. g[n] \in Seq(Pids) /\ ToSet(g[n]) = Among(n)
    BY <1>4, <2>2, <2>3, <2>4
  <2> QED
    BY <2>5
<1>7. Bad = {}
  <2> SUFFICES ASSUME Bad # {} PROVE FALSE
    OBVIOUS
  <2>1. Bad \in SUBSET Nat /\ Bad \subseteq 0 .. L
    OBVIOUS
  <2> HIDE DEF Bad
  <2>2. PICK n \in Bad : \A m \in Bad : n <= m
    BY <2>1, LeastNatural
  <2>3. n \in 1 .. L /\ n - 1 \notin Bad
    BY <1>3, <1>5, <2>1, <2>2
  <2> QED
    BY <1>6, <2>3
<1>8. g[L] \in Seq(Pids) /\ ToSet(g[L]) = Among(L)
  <2>1. L \in 0 .. L
    BY <1>3
  <2> HIDE DEF Among
  <2> QED
    BY <1>7, <2>1
<1>9. ToSet(l) = {l[i] : i \in 1 .. L}
  BY ElementsOf DEF L
<1> QED
  BY <1>2, <1>8, <1>9

-----------------------------------------------------------------------------
(* The steps of main.                                                      *)

(* Before a step of main, nothing is being shut down.                      *)
LEMMA BeforeMain ==
  ASSUME DeetInv, NEW from, NEW to, MainStep(from, to)
  PROVE  /\ deet = "running" /\ handler = "idle" /\ ~ drain
         /\ pc = from /\ pc' = to
         /\ handler' = "idle" /\ ~ drain' /\ lost' = lost
BY DEF MainStep

(* A step of main that touches neither the kernel nor the table.           *)
LEMMA MainMoves ==
  ASSUME DeetInv, NEW to \in {"spin", "read", "quit"} \cup WithChild,
         MainStep(pc, to), pc # "forked",
         to \notin {"forked", "cont_resume", "release_detach"},
         to = "cont_set" => status[arg'] = "stopped",
         arg' \in Pids \cup {NoPid}, to \in WithChild => arg' \in Pids,
         UNCHANGED <<kernelVars, tableVars>>, deet' \in {"running", "failed"}
  PROVE  DeetInv'
<1>1. /\ deet = "running" /\ handler = "idle" /\ ~ drain
      /\ pc' = to /\ handler' = "idle" /\ ~ drain' /\ lost' = lost
  BY BeforeMain
<1>2. /\ proc' = proc /\ event' = event /\ ktraced' = ktraced
      /\ sigchld' = sigchld /\ list' = list /\ status' = status
      /\ trace' = trace
  BY DEF kernelVars, tableVars
<1>3. Types'
  BY <1>1, <1>2 DEF DeetInv, Types
<1>4. ArgIsRight'
  BY <1>1 DEF ArgIsRight
<1>5. KernelAgrees' /\ DeadAreReaped' /\ StopsAreReported'
  BY <1>2 DEF DeetInv, KernelAgrees, DeadAreReaped, StopsAreReported
<1>6. ContIsSafe'
  BY <1>1, <1>2 DEF DeetInv, ContIsSafe, StopsAreReported, WithChild
<1>7. ChildrenAreKnown'
  BY <1>1, <1>2 DEF DeetInv, ChildrenAreKnown
<1>8. NoOrphans' /\ EventsAreReported'
  BY <1>1, <1>2 DEF DeetInv, NoOrphans, EventsAreReported
<1> QED
  BY <1>3, <1>4, <1>5, <1>6, <1>7, <1>8 DEF DeetInv

(* The steps of main that change nothing but where it is.                  *)
LEMMA PlainStepsKeep ==
  ASSUME DeetInv,
         \/ Prompt \/ NoChange \/ ShowAll \/ ForkFails
         \/ WaitReached \/ WaitNotReached \/ Sigsuspend
  PROVE  DeetInv'
<1>1. arg \in Pids \cup {NoPid} /\ (pc \in WithChild => arg \in Pids)
  BY DEF DeetInv, Types, ArgIsRight
<1>2. CASE Prompt
  BY <1>1, <1>2, BeforeMain, MainMoves DEF Prompt, MainStep, WithChild
<1>3. CASE NoChange \/ ShowAll
  <2>1. /\ MainStep(pc, "spin") /\ pc = "read" /\ arg' = arg /\ deet' = deet
        /\ UNCHANGED <<kernelVars, tableVars>>
    BY <1>3 DEF NoChange, ShowAll, MainStep, tableVars, kernelVars
  <2> QED
    BY <1>1, <2>1, MainMoves DEF MainStep, WithChild
<1>4. CASE ForkFails
  BY <1>1, <1>4, MainMoves DEF ForkFails, MainStep, WithChild
<1>5. CASE WaitReached
  <2>1. /\ MainStep(pc, "spin") /\ pc = "wait_check" /\ arg' = NoPid
        /\ deet' = deet /\ UNCHANGED <<kernelVars, tableVars>>
    BY <1>5 DEF WaitReached, MainStep
  <2> QED
    BY <2>1, MainMoves DEF MainStep, WithChild
<1>6. CASE WaitNotReached
  BY <1>1, <1>6, MainMoves DEF WaitNotReached, MainStep, WithChild
<1>7. CASE Sigsuspend
  BY <1>1, <1>7, MainMoves DEF Sigsuspend, MainStep, WithChild
<1> QED
  BY <1>2, <1>3, <1>4, <1>5, <1>6, <1>7

(* The commands that look a child up.                                      *)
LEMMA StartsKeep ==
  ASSUME DeetInv, NEW p \in Pids,
         \/ Cont(p) \/ KillCommand(p) \/ Stop(p) \/ Release(p)
         \/ \E s \in WaitStates : Wait(p, s)
  PROVE  DeetInv'
<1>1. PICK to \in {"cont_set", "kill_do", "stop_set", "release_set",
                   "wait_check"} :
        \E alive : Starts(p, to, alive) /\ (to = "cont_set" => status[p] = "stopped")
  BY Zenon DEF Cont, KillCommand, Stop, Release, Wait
<1>2. /\ MainStep("read", to) /\ arg' = p /\ deet' = deet
      /\ UNCHANGED <<kernelVars, tableVars>>
      /\ to = "cont_set" => status[p] = "stopped"
  BY <1>1 DEF Starts
<1>3. MainStep(pc, to) /\ pc = "read" /\ deet = "running"
  BY <1>2 DEF MainStep
<1> QED
  BY <1>2, <1>3, MainMoves DEF WithChild

(* A step of main that gives its child another state.                      *)
LEMMA MainSetsStatus ==
  ASSUME DeetInv, NEW to \in {"cont_resume", "stop_send", "release_detach"},
         MainStep(pc, to), pc \in WithChild \ {"forked"},
         NEW s \in PState \ {"stopped", "dead"},
         status' = [status EXCEPT ![arg] = s],
         trace' = trace \/ trace' = [trace EXCEPT ![arg] = FALSE],
         to = "cont_resume" => pc = "cont_set",
         to = "release_detach" => ~ trace'[arg],
         arg' = arg, deet' = deet, list' = list, UNCHANGED kernelVars
  PROVE  DeetInv'
<1>1. /\ deet = "running" /\ handler = "idle" /\ ~ drain /\ arg \in Pids
      /\ pc' = to /\ handler' = "idle" /\ ~ drain' /\ lost' = lost
  BY BeforeMain DEF DeetInv, ArgIsRight
<1>2. /\ proc' = proc /\ event' = event /\ ktraced' = ktraced
      /\ sigchld' = sigchld
  BY DEF kernelVars
<1>3. /\ status \in [Pids -> PState] /\ trace \in [Pids -> BOOLEAN]
      /\ status'[arg] = s /\ \A p \in Pids \ {arg} : status'[p] = status[p]
      /\ trace' \in [Pids -> BOOLEAN]
      /\ \A p \in Pids : trace'[p] => trace[p]
  BY <1>1 DEF DeetInv, Types
<1>4. Types'
  BY <1>1, <1>2, <1>3 DEF DeetInv, Types, WithChild
<1>5. ArgIsRight'
  BY <1>1 DEF ArgIsRight
<1>6. KernelAgrees' /\ DeadAreReaped' /\ StopsAreReported'
  BY <1>2, <1>3 DEF DeetInv, KernelAgrees, DeadAreReaped, StopsAreReported
<1>7. ContIsSafe'
  BY <1>1, <1>2, <1>3 DEF DeetInv, ContIsSafe
<1>8. ChildrenAreKnown'
  BY <1>1, <1>2 DEF DeetInv, ChildrenAreKnown, WithChild
<1>9. NoOrphans' /\ EventsAreReported'
  BY <1>1, <1>2 DEF DeetInv, NoOrphans, EventsAreReported
<1> QED
  BY <1>4, <1>5, <1>6, <1>7, <1>8, <1>9 DEF DeetInv

(* The first halves of cont, stop and release.                             *)
LEMMA SetsKeep ==
  ASSUME DeetInv, ContSet \/ StopSet \/ ReleaseSet
  PROVE  DeetInv'
<1>1. CASE ContSet
  <2>1. /\ MainStep(pc, "cont_resume") /\ pc = "cont_set"
        /\ status' = [status EXCEPT ![arg] = IF trace[arg] THEN "running"
                                             ELSE "continuing"]
        /\ trace' = trace /\ arg' = arg /\ deet' = deet /\ list' = list
        /\ UNCHANGED kernelVars
    BY <1>1 DEF ContSet, SetStatus, MainStep
  <2>2. PICK s \in PState \ {"stopped", "dead"} :
          s = IF trace[arg] THEN "running" ELSE "continuing"
    BY DEF PState
  <2>3. status' = [status EXCEPT ![arg] = s]
    BY <2>1, <2>2
  <2> QED
    BY <2>1, <2>3, MainSetsStatus DEF WithChild
<1>2. CASE StopSet
  <2>1. /\ MainStep(pc, "stop_send") /\ pc = "stop_set"
        /\ status' = [status EXCEPT ![arg] = "stopping"]
        /\ trace' = trace /\ arg' = arg /\ deet' = deet /\ list' = list
        /\ UNCHANGED kernelVars
    BY <1>2 DEF StopSet, SetStatus, MainStep
  <2> QED
    BY <2>1, MainSetsStatus DEF PState, WithChild
<1>3. CASE ReleaseSet
  <2>1. /\ MainStep(pc, "release_detach") /\ pc = "release_set"
        /\ status' = [status EXCEPT ![arg] = "running"]
        /\ trace' = [trace EXCEPT ![arg] = FALSE]
        /\ arg' = arg /\ deet' = deet /\ list' = list
        /\ UNCHANGED kernelVars
    BY <1>3 DEF ReleaseSet, SetStatus, MainStep
  <2>2. ~ trace'[arg]
    BY <2>1 DEF DeetInv, Types, ArgIsRight, WithChild
  <2> QED
    BY <2>1, <2>2, MainSetsStatus DEF PState, WithChild
<1> QED
  BY <1>1, <1>2, <1>3

-----------------------------------------------------------------------------
(* The steps of main that reach a child.                                   *)

(* A command ends with a call that moves its child.                        *)
LEMMA MainMovesChild ==
  ASSUME DeetInv, NEW from \in WithChild \ {"forked"}, MainStep(from, "spin"),
         arg' = NoPid, deet' = deet, UNCHANGED <<list, trace>>,
         NEW to, NEW told \in {"none", "continued"}, NEW traced \in BOOLEAN,
         proc' = [proc EXCEPT ![arg] = to],
         event' = [event EXCEPT ![arg] = told],
         ktraced' = [ktraced EXCEPT ![arg] = traced],
         to \in {"dying", "running"},
         told = "continued" => to = "running" /\ sigchld',
         sigchld => sigchld',
         trace[arg] => traced,
         UNCHANGED status \/ (to = "dying" /\ status' = [status EXCEPT ![arg] = "killed"]),
         proc[arg] \in {"running", "stopped"},
         to = "running" => proc[arg] = "stopped" /\ ~ (trace[arg] /\ status[arg] = "stopped")
  PROVE  DeetInv'
<1>1. /\ deet = "running" /\ handler = "idle" /\ ~ drain /\ pc = from
      /\ pc' = "spin" /\ handler' = "idle" /\ ~ drain' /\ lost' = lost
  BY BeforeMain
<1>2. arg \in Pids /\ pc # "forked"
  BY <1>1 DEF DeetInv, ArgIsRight
<1>3. /\ proc \in [Pids -> {"unborn", "running", "stopped", "dying", "reaped"} \cup Zombie]
      /\ event \in [Pids -> {"none", "stopped", "continued"}]
      /\ ktraced \in [Pids -> BOOLEAN] /\ status \in [Pids -> PState]
  BY DEF DeetInv, Types
<1>4. /\ proc'[arg] = to /\ event'[arg] = told /\ ktraced'[arg] = traced
      /\ \A p \in Pids \ {arg} :
           /\ proc'[p] = proc[p] /\ event'[p] = event[p]
           /\ ktraced'[p] = ktraced[p] /\ status'[p] = status[p]
  BY <1>2, <1>3
<1>5. status' \in [Pids -> PState]
      /\ (status'[arg] = status[arg] \/ (to = "dying" /\ status'[arg] = "killed"))
  BY <1>2, <1>3 DEF PState
<1>6. Types'
  <2>1. proc' \in [Pids -> {"unborn", "running", "stopped", "dying", "reaped"} \cup Zombie]
    BY <1>3
  <2>2. event' \in [Pids -> {"none", "stopped", "continued"}]
    BY <1>3
  <2>3. ktraced' \in [Pids -> BOOLEAN]
    BY <1>3
  <2>4. pc' \in {"spin", "read", "quit"} \cup WithChild /\ arg' \in Pids \cup {NoPid}
        /\ handler' \in {"idle", "reaping"}
    BY <1>1
  <2> QED
    BY <1>1, <1>5, <2>1, <2>2, <2>3, <2>4 DEF DeetInv, Types
<1>7. ArgIsRight' /\ ContIsSafe'
  BY <1>1 DEF ArgIsRight, ContIsSafe, WithChild
<1>8. KernelAgrees'
  BY <1>4 DEF DeetInv, KernelAgrees
<1>9. DeadAreReaped'
  BY <1>2, <1>4, <1>5 DEF DeetInv, DeadAreReaped, Zombie
<1>10. StopsAreReported'
  BY <1>2, <1>4, <1>5 DEF DeetInv, StopsAreReported
<1>11. ChildrenAreKnown'
  BY <1>1, <1>2, <1>4 DEF DeetInv, ChildrenAreKnown
<1>12. NoOrphans'
  BY <1>1 DEF NoOrphans
<1>13. EventsAreReported'
  <2> SUFFICES ASSUME ~ sigchld', lost' = {}, NEW p \in Pids
               PROVE  proc'[p] \notin Zombie /\ event'[p] = "none"
    BY DEF EventsAreReported
  <2>1. \A q \in Pids : proc[q] \notin Zombie /\ event[q] = "none"
    BY <1>1 DEF DeetInv, EventsAreReported
  <2> QED
    BY <1>4, <2>1 DEF Zombie
<1> QED
  BY <1>6, <1>7, <1>8, <1>9, <1>10, <1>11, <1>12, <1>13 DEF DeetInv

(* A command ends without any effect on its child.                         *)
LEMMA MainEnds ==
  ASSUME DeetInv, NEW from \in WithChild \ {"forked"}, MainStep(from, "spin"),
         arg' = NoPid, deet' = deet,
         UNCHANGED <<proc, event, ktraced, list, trace>>, sigchld => sigchld',
         UNCHANGED status \/ status' = [status EXCEPT ![arg] = "killed"],
         status' = status \/ proc[arg] # "reaped" \/ status[arg] # "dead"
  PROVE  DeetInv'
<1>1. /\ deet = "running" /\ handler = "idle" /\ ~ drain /\ pc = from
      /\ pc' = "spin" /\ handler' = "idle" /\ ~ drain' /\ lost' = lost
  BY BeforeMain
<1>2. arg \in Pids /\ pc # "forked"
  BY <1>1 DEF DeetInv, ArgIsRight
<1>3. status \in [Pids -> PState]
  BY DEF DeetInv, Types
<1>4. /\ status' \in [Pids -> PState]
      /\ \A p \in Pids : status'[p] = status[p] \/ status'[p] = "killed"
  BY <1>2, <1>3 DEF PState
<1>5. Types'
  BY <1>1, <1>4 DEF DeetInv, Types
<1>6. ArgIsRight' /\ ContIsSafe' /\ NoOrphans'
  BY <1>1 DEF ArgIsRight, ContIsSafe, WithChild, NoOrphans
<1>7. KernelAgrees' /\ DeadAreReaped' /\ StopsAreReported'
  BY <1>4 DEF DeetInv, KernelAgrees, DeadAreReaped, StopsAreReported
<1>8. ChildrenAreKnown'
  BY <1>1, <1>2 DEF DeetInv, ChildrenAreKnown
<1>9. EventsAreReported'
  BY <1>1 DEF DeetInv, EventsAreReported
<1> QED
  BY <1>5, <1>6, <1>7, <1>8, <1>9 DEF DeetInv

(* What the calls of main do, said of the one process they are for.        *)
LEMMA Resumes ==
  ASSUME DeetInv, arg \in Pids, NEW detach \in BOOLEAN,
         PtraceResume(arg, detach)
  PROVE  /\ sigchld' = sigchld
         /\ IF ktraced[arg] /\ proc[arg] = "stopped"
              THEN /\ proc' = [proc EXCEPT ![arg] = "running"]
                   /\ event' = [event EXCEPT ![arg] = "none"]
                   /\ ktraced' = [ktraced EXCEPT ![arg] = ~ detach]
              ELSE UNCHANGED <<proc, event, ktraced>>
<1>1. /\ proc = [p \in Pids |-> proc[p]] /\ event = [p \in Pids |-> event[p]]
      /\ ktraced = [p \in Pids |-> ktraced[p]] /\ ktraced[arg] \in BOOLEAN
  BY DEF DeetInv, Types
<1>2. CASE ktraced[arg] /\ proc[arg] = "stopped"
  <2>1. (ktraced[arg] /\ ~ (ktraced[arg] /\ proc[arg] = "stopped" /\ detach))
          = ~ detach
    BY <1>2
  <2> QED
    BY <1>2, <2>1 DEF PtraceResume
<1>3. CASE ~ (ktraced[arg] /\ proc[arg] = "stopped")
  <2>1. (ktraced[arg] /\ ~ (ktraced[arg] /\ proc[arg] = "stopped" /\ detach))
          = ktraced[arg]
    BY <1>1, <1>3
  <2>2. /\ [proc EXCEPT ![arg] = proc[arg]] = proc
        /\ [event EXCEPT ![arg] = event[arg]] = event
        /\ [ktraced EXCEPT ![arg] = ktraced[arg]] = ktraced
    BY <1>1
  <2>3. /\ proc' = [proc EXCEPT ![arg] = proc[arg]]
        /\ event' = [event EXCEPT ![arg] = event[arg]]
        /\ ktraced' = [ktraced EXCEPT ![arg] = ktraced[arg]]
        /\ sigchld' = sigchld
    BY <1>3, <2>1 DEF PtraceResume
  <2> QED
    BY <1>3, <2>2, <2>3
<1> QED
  BY <1>2, <1>3

(* cont resumes the child: its stop has been reported, and set_status has  *)
(* been called, so it is not shown as stopped.                             *)
LEMMA ContResumeKeeps ==
  ASSUME DeetInv, ContResume
  PROVE  DeetInv'
<1>1. /\ MainStep("cont_resume", "spin") /\ pc = "cont_resume" /\ arg \in Pids
      /\ arg' = NoPid /\ deet' = deet /\ UNCHANGED <<list, trace, status>>
  BY DEF ContResume, Ends, MainStep, DeetInv, ArgIsRight, WithChild, tableVars
<1>2. CASE trace[arg]
  <2>1. status[arg] # "stopped" /\ PtraceResume(arg, FALSE)
    BY <1>1, <1>2 DEF ContResume, DeetInv, ContIsSafe
  <2>2. sigchld' = sigchld
    BY <1>1, <2>1, Resumes
  <2>3. CASE ktraced[arg] /\ proc[arg] = "stopped"
    <3>1. /\ proc' = [proc EXCEPT ![arg] = "running"]
          /\ event' = [event EXCEPT ![arg] = "none"]
          /\ ktraced' = [ktraced EXCEPT ![arg] = TRUE]
      BY <1>1, <2>1, <2>3, Resumes
    <3> QED
      BY <1>1, <2>1, <2>2, <2>3, <3>1, MainMovesChild DEF WithChild
  <2>4. CASE ~ (ktraced[arg] /\ proc[arg] = "stopped")
    <3>1. UNCHANGED <<proc, event, ktraced>>
      BY <1>1, <2>1, <2>4, Resumes
    <3> QED
      BY <1>1, <2>2, <3>1, MainEnds DEF WithChild
  <2> QED
    BY <2>3, <2>4
<1>3. CASE ~ trace[arg]
  <2>1. SendCont(arg)
    BY <1>3 DEF ContResume
  <2>2. /\ proc = [p \in Pids |-> proc[p]] /\ event = [p \in Pids |-> event[p]]
        /\ ktraced = [p \in Pids |-> ktraced[p]] /\ ktraced[arg] \in BOOLEAN
    BY <1>1 DEF DeetInv, Types
  <2>3. CASE proc[arg] = "stopped" /\ ~ ktraced[arg]
    <3>1. /\ proc' = [proc EXCEPT ![arg] = "running"]
          /\ event' = [event EXCEPT ![arg] = "continued"]
          /\ ktraced' = ktraced
      BY <2>1, <2>3 DEF SendCont
    <3>2. sigchld'
      BY <2>1, <2>3, Zenon DEF SendCont
    <3>3. ktraced' = [ktraced EXCEPT ![arg] = FALSE]
      BY <1>1, <2>2, <2>3, <3>1
    <3> QED
      BY <1>1, <1>3, <2>3, <3>1, <3>2, <3>3, MainMovesChild DEF WithChild
  <2>4. CASE ~ (proc[arg] = "stopped" /\ ~ ktraced[arg])
    <3>1. /\ proc' = [proc EXCEPT ![arg] = proc[arg]]
          /\ event' = [event EXCEPT ![arg] = event[arg]]
          /\ ktraced' = ktraced
      BY <2>1, <2>4 DEF SendCont
    <3>2. sigchld' = (sigchld \/ FALSE)
      BY <2>1, <2>4, Zenon DEF SendCont
    <3>3. proc' = proc /\ event' = event
      BY <2>2, <3>1
    <3> QED
      BY <1>1, <3>1, <3>2, <3>3, MainEnds DEF WithChild
  <2> QED
    BY <2>3, <2>4
<1> QED
  BY <1>2, <1>3

(* stop sends SIGSTOP, which takes effect later.                           *)
LEMMA StopSendKeeps ==
  ASSUME DeetInv, StopSend
  PROVE  DeetInv'
<1>1. /\ MainStep("stop_send", "spin") /\ arg' = NoPid /\ deet' = deet
      /\ UNCHANGED <<list, trace, status, proc, event, ktraced, sigchld>>
  BY DEF StopSend, Ends, SendStop, tableVars
<1> QED
  BY <1>1, MainEnds DEF WithChild

(* release detaches the child, which it no longer shows as traced.         *)
LEMMA ReleaseDetachKeeps ==
  ASSUME DeetInv, ReleaseDetach
  PROVE  DeetInv'
<1>1. /\ MainStep("release_detach", "spin") /\ arg \in Pids /\ ~ trace[arg]
      /\ arg' = NoPid /\ deet' = deet /\ UNCHANGED <<list, trace, status>>
      /\ PtraceResume(arg, TRUE)
  BY DEF ReleaseDetach, Ends, MainStep, DeetInv, ArgIsRight, WithChild, tableVars
<1>2. sigchld' = sigchld
  BY <1>1, Resumes
<1>3. CASE ktraced[arg] /\ proc[arg] = "stopped"
  <2>1. /\ proc' = [proc EXCEPT ![arg] = "running"]
        /\ event' = [event EXCEPT ![arg] = "none"]
        /\ ktraced' = [ktraced EXCEPT ![arg] = FALSE]
    BY <1>1, <1>3, Resumes
  <2> QED
    BY <1>1, <1>2, <1>3, <2>1, MainMovesChild DEF WithChild
<1>4. CASE ~ (ktraced[arg] /\ proc[arg] = "stopped")
  <2>1. UNCHANGED <<proc, event, ktraced>>
    BY <1>1, <1>4, Resumes
  <2> QED
    BY <1>1, <1>2, <2>1, MainEnds DEF WithChild
<1> QED
  BY <1>3, <1>4

(* SIGKILL, said of each process it may be sent to.                        *)
LEMMA Kills ==
  ASSUME Types, NEW S \in SUBSET Pids, SendKill(S)
  PROVE  /\ ktraced' = ktraced
         /\ \A p \in Pids :
              IF p \in S /\ proc[p] \in {"running", "stopped"}
                THEN proc'[p] = "dying" /\ event'[p] = "none"
                ELSE proc'[p] = proc[p] /\ event'[p] = event[p]
         /\ proc' \in [Pids -> {"unborn", "running", "stopped", "dying", "reaped"}
                              \cup Zombie]
         /\ event' \in [Pids -> {"none", "stopped", "continued"}]
<1>1. /\ ktraced' = ktraced
      /\ proc' = [p \in Pids |->
           IF p \in S /\ proc[p] \in {"running", "stopped"} THEN "dying" ELSE proc[p]]
      /\ event' = [p \in Pids |->
           IF p \in S /\ proc[p] \in {"running", "stopped"} THEN "none" ELSE event[p]]
  BY DEF SendKill
<1>2. /\ proc \in [Pids -> {"unborn", "running", "stopped", "dying", "reaped"} \cup Zombie]
      /\ event \in [Pids -> {"none", "stopped", "continued"}]
  BY DEF Types
<1> QED
  BY <1>1, <1>2

(* kill, whose state and signal are one step.                              *)
LEMMA KillChildKeeps ==
  ASSUME DeetInv, KillChild
  PROVE  DeetInv'
<1>1. /\ MainStep("kill_do", "spin") /\ arg \in Pids /\ pc = "kill_do"
      /\ arg' = NoPid /\ deet' = deet
      /\ UNCHANGED <<list, trace, sigchld>> /\ SendKill({arg})
      /\ status' = [status EXCEPT ![arg] = "killed"]
  BY DEF KillChild, Ends, SetStatus, MainStep, DeetInv, ArgIsRight, WithChild
<1>2. /\ deet = "running" /\ handler = "idle" /\ ~ drain
      /\ pc' = "spin" /\ handler' = "idle" /\ ~ drain' /\ lost' = lost
  BY <1>1, BeforeMain
<1>3. /\ ktraced' = ktraced
      /\ \A p \in Pids :
           IF p = arg /\ proc[p] \in {"running", "stopped"}
             THEN proc'[p] = "dying" /\ event'[p] = "none"
             ELSE proc'[p] = proc[p] /\ event'[p] = event[p]
      /\ proc' \in [Pids -> {"unborn", "running", "stopped", "dying", "reaped"}
                           \cup Zombie]
      /\ event' \in [Pids -> {"none", "stopped", "continued"}]
  BY <1>1, Kills DEF DeetInv
<1>4. /\ status' \in [Pids -> PState] /\ status'[arg] = "killed"
      /\ \A p \in Pids : p # arg => status'[p] = status[p]
  BY <1>1 DEF DeetInv, Types, PState
<1>5. Types'
  BY <1>1, <1>2, <1>3, <1>4 DEF DeetInv, Types
<1>6. ArgIsRight' /\ ContIsSafe' /\ NoOrphans'
  BY <1>1, <1>2 DEF ArgIsRight, ContIsSafe, WithChild, NoOrphans
<1>7. KernelAgrees'
  BY <1>1, <1>3 DEF DeetInv, KernelAgrees
<1>8. DeadAreReaped'
  BY <1>3, <1>4 DEF DeetInv, DeadAreReaped
<1>9. StopsAreReported'
  BY <1>1, <1>3, <1>4 DEF DeetInv, StopsAreReported
<1>10. ChildrenAreKnown'
  BY <1>1, <1>2, <1>3 DEF DeetInv, ChildrenAreKnown
<1>11. EventsAreReported'
  <2> SUFFICES ASSUME ~ sigchld', lost' = {}, NEW p \in Pids
               PROVE  proc'[p] \notin Zombie /\ event'[p] = "none"
    BY DEF EventsAreReported
  <2>1. \A q \in Pids : proc[q] \notin Zombie /\ event[q] = "none"
    BY <1>1, <1>2 DEF DeetInv, EventsAreReported
  <2> QED
    BY <1>3, <2>1 DEF Zombie
<1> QED
  BY <1>5, <1>6, <1>7, <1>8, <1>9, <1>10, <1>11 DEF DeetInv

(* SIGINT that frees the buffer a second time ends deet at once.           *)
LEMMA SigintFreesTwiceKeeps ==
  ASSUME DeetInv, SigintFreesTwice
  PROVE  DeetInv'
<1>1. /\ deet' = "crashed"
      /\ UNCHANGED <<kernelVars, tableVars, mainVars, handler, drain, lost>>
  BY DEF SigintFreesTwice
<1>2. /\ proc' = proc /\ event' = event /\ ktraced' = ktraced
      /\ list' = list /\ status' = status /\ trace' = trace
      /\ pc' = pc /\ arg' = arg /\ handler' = handler /\ lost' = lost
  BY <1>1 DEF kernelVars, tableVars, mainVars
<1>3. Types'
  BY <1>1, <1>2 DEF DeetInv, Types
<1>4. ArgIsRight' /\ KernelAgrees' /\ DeadAreReaped'
  BY <1>2 DEF DeetInv, ArgIsRight, KernelAgrees, DeadAreReaped
<1>5. StopsAreReported' /\ ContIsSafe'
  BY <1>2 DEF DeetInv, StopsAreReported, ContIsSafe
<1>6. ChildrenAreKnown' /\ NoOrphans' /\ EventsAreReported'
  BY <1>1 DEF ChildrenAreKnown, NoOrphans, EventsAreReported
<1> QED
  BY <1>3, <1>4, <1>5, <1>6 DEF DeetInv

(* A process is forked: it is new, so neither waitpid nor the table knows  *)
(* anything of it.                                                         *)
LEMMA ForkKeeps ==
  ASSUME DeetInv, NEW q \in Pids, Fork(q)
  PROVE  DeetInv'
<1>1. /\ MainStep("read", "forked") /\ proc[q] = "unborn" /\ arg' = q
      /\ proc' = [proc EXCEPT ![q] = "running"]
      /\ ktraced' = [ktraced EXCEPT ![q] = TRUE]
      /\ UNCHANGED <<event, sigchld, list, status, trace, deet>>
  BY DEF Fork, tableVars
<1>2. /\ deet = "running" /\ handler = "idle" /\ ~ drain /\ pc = "read"
      /\ pc' = "forked" /\ handler' = "idle" /\ ~ drain' /\ lost' = lost
  BY <1>1, BeforeMain
<1>3. /\ proc'[q] = "running" /\ ktraced'[q] = TRUE
      /\ \A p \in Pids : p # q => proc'[p] = proc[p] /\ ktraced'[p] = ktraced[p]
      /\ proc' \in [Pids -> {"unborn", "running", "stopped", "dying", "reaped"}
                           \cup Zombie]
      /\ ktraced' \in [Pids -> BOOLEAN]
  BY <1>1 DEF DeetInv, Types
<1>4. event[q] = "none" /\ status[q] # "dead"
      /\ ~ (status[q] = "stopped" /\ trace[q])
  BY <1>1 DEF DeetInv, KernelAgrees, DeadAreReaped, StopsAreReported
<1>5. Types'
  BY <1>1, <1>2, <1>3 DEF DeetInv, Types, WithChild
<1>6. ArgIsRight' /\ ContIsSafe' /\ NoOrphans'
  BY <1>1, <1>2, <1>3 DEF ArgIsRight, ContIsSafe, NoOrphans
<1>7. KernelAgrees'
  BY <1>1, <1>3, <1>4 DEF DeetInv, KernelAgrees
<1>8. DeadAreReaped'
  BY <1>1, <1>3, <1>4 DEF DeetInv, DeadAreReaped
<1>9. StopsAreReported'
  BY <1>1, <1>3, <1>4 DEF DeetInv, StopsAreReported
<1>10. ChildrenAreKnown'
  BY <1>1, <1>2, <1>3 DEF DeetInv, ChildrenAreKnown
<1>11. EventsAreReported'
  <2> SUFFICES ASSUME ~ sigchld', lost' = {}, NEW p \in Pids
               PROVE  proc'[p] \notin Zombie /\ event'[p] = "none"
    BY DEF EventsAreReported
  <2>1. \A r \in Pids : proc[r] \notin Zombie /\ event[r] = "none"
    BY <1>1, <1>2 DEF DeetInv, EventsAreReported
  <2> QED
    BY <1>1, <1>3, <2>1 DEF Zombie
<1> QED
  BY <1>5, <1>6, <1>7, <1>8, <1>9, <1>10, <1>11 DEF DeetInv

(* A child enters the list: the dead are freed, and they have been waited  *)
(* for.                                                                    *)
LEMMA SpawnChildKeeps ==
  ASSUME DeetInv, SpawnChild
  PROVE  DeetInv'
<1>1. /\ MainStep("forked", "spin") /\ deet' = deet /\ arg' = NoPid
      /\ list' = connect_child(LiveOnes(list), arg, find_next_deet_id)
      /\ status' = [p \in Pids |-> IF p \in DeadOnes THEN "none"
                                   ELSE IF p = arg THEN "running"
                                   ELSE status[p]]
      /\ trace' = [trace EXCEPT ![arg] = TRUE]
      /\ UNCHANGED <<proc, event, ktraced, sigchld>>
  BY DEF SpawnChild, kernelVars
<1>2. /\ deet = "running" /\ handler = "idle" /\ ~ drain /\ pc = "forked"
      /\ pc' = "spin" /\ handler' = "idle" /\ ~ drain' /\ lost' = lost
  BY <1>1, BeforeMain
<1>3. arg \in Pids /\ ktraced[arg] /\ list \in Seq(Pids)
      /\ trace \in [Pids -> BOOLEAN] /\ status \in [Pids -> PState]
  BY <1>2 DEF DeetInv, ArgIsRight, WithChild, Types
<1>4. /\ list' \in Seq(Pids)
      /\ \A p : p \in ToSet(list) /\ status[p] # "dead" => p \in ToSet(list')
      /\ arg \in ToSet(list')
  <2>1. /\ LiveOnes(list) \in Seq(Pids)
        /\ ToSet(LiveOnes(list)) = {p \in ToSet(list) : IsLive(p)}
    BY <1>3, ElementsOfLive
  <2> DEFINE id == find_next_deet_id
  <2>2. /\ connect_child(LiveOnes(list), arg, id) \in Seq(Pids)
        /\ ToSet(connect_child(LiveOnes(list), arg, id))
             = ToSet(LiveOnes(list)) \cup {arg}
    <3> HIDE DEF id
    <3> QED
      BY <1>3, <2>1, ElementsOfConnected
  <2>3. list' = connect_child(LiveOnes(list), arg, id)
    BY <1>1
  <2> HIDE DEF id
  <2>4. list' \in Seq(Pids) /\ ToSet(list') = ToSet(LiveOnes(list)) \cup {arg}
    BY <2>2, <2>3
  <2> QED
    BY <2>1, <2>4 DEF IsLive
<1>5. /\ status' \in [Pids -> PState] /\ trace' \in [Pids -> BOOLEAN]
      /\ status'[arg] \in {"none", "running"}
      /\ \A p \in Pids \ {arg} : /\ status'[p] \in {"none", status[p]}
                                 /\ trace'[p] = trace[p]
  BY <1>1, <1>3 DEF PState
<1>6. Types'
  BY <1>1, <1>2, <1>4, <1>5 DEF DeetInv, Types
<1>7. ArgIsRight' /\ ContIsSafe' /\ NoOrphans'
  BY <1>1, <1>2 DEF ArgIsRight, ContIsSafe, WithChild, NoOrphans
<1>8. KernelAgrees'
  BY <1>1, <1>3, <1>5 DEF DeetInv, KernelAgrees
<1>9. DeadAreReaped'
  BY <1>1, <1>5 DEF DeetInv, DeadAreReaped
<1>10. StopsAreReported'
  BY <1>1, <1>5 DEF DeetInv, StopsAreReported
<1>11. ChildrenAreKnown'
  BY <1>1, <1>2, <1>4 DEF DeetInv, ChildrenAreKnown, DeadAreReaped
<1>12. EventsAreReported'
  BY <1>1, <1>2 DEF DeetInv, EventsAreReported
<1> QED
  BY <1>6, <1>7, <1>8, <1>9, <1>10, <1>11, <1>12 DEF DeetInv

-----------------------------------------------------------------------------
(* Shutting down.                                                          *)

(* From here on every child in the list is killed: one that exists is not  *)
(* dead in the table, so it is among those handle_shutdown kills.          *)
LEMMA ShutdownKeeps ==
  ASSUME DeetInv, Quit \/ Sigint
  PROVE  DeetInv'
<1>1. /\ deet = "running" /\ deet' = deet /\ handler' = "idle" /\ drain'
      /\ (pc' = pc \/ (pc = "read" /\ pc' = "quit")) /\ arg' = arg
      /\ UNCHANGED <<list, trace, lost>> /\ ~ drain
      /\ SendKill(Doomed)
      /\ status' = [p \in Pids |-> IF p \in Doomed THEN "killed" ELSE status[p]]
  BY DEF Quit, Sigint, handle_shutdown, mainVars
<1>2. Doomed \in SUBSET Pids /\ list \in Seq(Pids) /\ status \in [Pids -> PState]
  BY ElementsOf DEF Doomed, DeetInv, Types
<1>3. /\ ktraced' = ktraced
      /\ \A p \in Pids :
           IF p \in Doomed /\ proc[p] \in {"running", "stopped"}
             THEN proc'[p] = "dying" /\ event'[p] = "none"
             ELSE proc'[p] = proc[p] /\ event'[p] = event[p]
      /\ proc' \in [Pids -> {"unborn", "running", "stopped", "dying", "reaped"}
                           \cup Zombie]
      /\ event' \in [Pids -> {"none", "stopped", "continued"}]
  BY <1>1, <1>2, Kills DEF DeetInv
<1>4. /\ status' \in [Pids -> PState]
      /\ \A p \in Pids : status'[p] = IF p \in Doomed THEN "killed" ELSE status[p]
  BY <1>1, <1>2 DEF PState
<1>5. Types'
  BY <1>1, <1>3, <1>4 DEF DeetInv, Types
<1>6. ArgIsRight'
  BY <1>1, <1>3 DEF DeetInv, ArgIsRight, WithChild
<1>7. KernelAgrees'
  BY <1>1, <1>3 DEF DeetInv, KernelAgrees
<1>8. DeadAreReaped'
  BY <1>3, <1>4 DEF DeetInv, DeadAreReaped
<1>9. StopsAreReported'
  BY <1>1, <1>3, <1>4 DEF DeetInv, StopsAreReported
<1>10. ContIsSafe'
  <2> SUFFICES ASSUME pc' \in {"cont_set", "cont_resume"}, trace'[arg']
               PROVE  /\ event'[arg'] = "none" /\ proc'[arg'] # "running"
                      /\ pc' = "cont_resume" => status'[arg'] # "stopped"
    BY DEF ContIsSafe
  <2>1. pc' = pc /\ arg \in Pids /\ trace[arg]
    BY <1>1 DEF DeetInv, ArgIsRight, WithChild
  <2>2. /\ event[arg] = "none" /\ proc[arg] # "running"
        /\ pc = "cont_resume" => status[arg] # "stopped"
    BY <2>1 DEF DeetInv, ContIsSafe
  <2> QED
    BY <1>1, <1>3, <1>4, <2>1, <2>2
<1>11. ChildrenAreKnown'
  <2> SUFFICES ASSUME NEW p \in Pids, proc'[p] \notin {"unborn", "reaped"},
                      ~ (pc' = "forked" /\ arg' = p)
               PROVE  /\ p \in ToSet(list') /\ status'[p] = "killed"
                      /\ proc'[p] \in {"dying"} \cup Zombie
    BY <1>1 DEF ChildrenAreKnown
  <2>1. proc[p] \notin {"unborn", "reaped"} /\ ~ (pc = "forked" /\ arg = p)
    BY <1>1, <1>3
  <2>2. p \in ToSet(list) /\ status[p] # "dead"
    BY <1>1, <2>1 DEF DeetInv, ChildrenAreKnown, DeadAreReaped
  <2>3. p \in Doomed
    BY <2>2 DEF Doomed
  <2>4. proc[p] \in {"running", "stopped", "dying"} \cup Zombie
    BY <2>1 DEF DeetInv, Types
  <2> QED
    BY <1>1, <1>3, <1>4, <2>2, <2>3, <2>4
<1>12. NoOrphans' /\ EventsAreReported'
  BY <1>1 DEF NoOrphans, EventsAreReported
<1> QED
  BY <1>5, <1>6, <1>7, <1>8, <1>9, <1>10, <1>11, <1>12 DEF DeetInv

(* deet exits when no child is in the killed state: so none exists.        *)
LEMMA DrainDoneKeeps ==
  ASSUME DeetInv, DrainDone
  PROVE  DeetInv'
<1>1. /\ deet = "running" /\ drain /\ KilledOnes = {} /\ deet' = "exited"
      /\ list' = <<>> /\ UNCHANGED <<kernelVars, status, trace, mainVars,
                                     handler, lost>>
  BY DEF DrainDone
<1>2. /\ proc' = proc /\ event' = event /\ ktraced' = ktraced
      /\ status' = status /\ trace' = trace
      /\ pc' = pc /\ arg' = arg /\ handler' = handler /\ lost' = lost
  BY <1>1 DEF kernelVars, mainVars
<1>3. <<>> \in Seq(Pids)
  OBVIOUS
<1>4. Types'
  BY <1>1, <1>2, <1>3 DEF DeetInv, Types
<1>5. ArgIsRight' /\ KernelAgrees' /\ DeadAreReaped'
  BY <1>2 DEF DeetInv, ArgIsRight, KernelAgrees, DeadAreReaped
<1>6. StopsAreReported' /\ ContIsSafe'
  BY <1>2 DEF DeetInv, StopsAreReported, ContIsSafe
<1>7. ChildrenAreKnown' /\ EventsAreReported'
  BY <1>1 DEF ChildrenAreKnown, EventsAreReported
<1>8. NoOrphans'
  <2> SUFFICES ASSUME NEW p \in Pids
               PROVE  proc[p] \in {"unborn", "reaped"} \/ (pc = "forked" /\ arg = p)
    BY <1>2 DEF NoOrphans
  <2>1. p \in ToSet(list) => status[p] # "killed"
    BY <1>1 DEF KilledOnes
  <2> QED
    BY <1>1, <2>1 DEF DeetInv, ChildrenAreKnown
<1> QED
  BY <1>4, <1>5, <1>6, <1>7, <1>8 DEF DeetInv

-----------------------------------------------------------------------------
(* The steps of the children.                                              *)

(* A running process stops or ends: SIGCHLD tells of it.  A child that the *)
(* table shows as stopped and traced does not run.                         *)
LEMMA ChildMoves ==
  ASSUME DeetInv, NEW q \in Pids,
         NEW to \in {"stopped"} \cup Zombie, NEW told \in {"none", "stopped"},
         proc[q] \in {"running", "dying"},
         told = "stopped" => to = "stopped",
         proc[q] = "dying" => to # "stopped",
         proc' = [proc EXCEPT ![q] = to],
         event' = [event EXCEPT ![q] = told],
         sigchld',
         UNCHANGED <<ktraced, tableVars, mainVars, handler, drain, deet, lost>>
  PROVE  DeetInv'
<1>1. /\ ktraced' = ktraced /\ list' = list /\ status' = status /\ trace' = trace
      /\ pc' = pc /\ arg' = arg /\ handler' = handler /\ drain' = drain
      /\ deet' = deet /\ lost' = lost
  BY DEF tableVars, mainVars
<1>2. /\ proc'[q] = to /\ event'[q] = told
      /\ \A p \in Pids : p # q => proc'[p] = proc[p] /\ event'[p] = event[p]
      /\ proc' \in [Pids -> {"unborn", "running", "stopped", "dying", "reaped"}
                           \cup Zombie]
      /\ event' \in [Pids -> {"none", "stopped", "continued"}]
  BY DEF DeetInv, Types
<1>3. status[q] # "dead" /\ proc[q] \notin {"unborn", "reaped"}
  BY DEF DeetInv, DeadAreReaped
<1>4. Types'
  BY <1>1, <1>2 DEF DeetInv, Types
<1>5. ArgIsRight'
  BY <1>1 DEF DeetInv, ArgIsRight
<1>6. KernelAgrees'
  BY <1>1, <1>2 DEF DeetInv, KernelAgrees
<1>7. DeadAreReaped'
  BY <1>1, <1>2, <1>3 DEF DeetInv, DeadAreReaped
<1>8. told = "none" \/ proc[q] = "running"
  OBVIOUS
<1>9. StopsAreReported'
  BY <1>1, <1>2, <1>8 DEF DeetInv, StopsAreReported, Zombie
<1>10. ContIsSafe'
  <2> SUFFICES ASSUME pc \in {"cont_set", "cont_resume"}, trace[arg]
               PROVE  event'[arg] = "none" /\ proc'[arg] # "running"
    BY <1>1 DEF DeetInv, ContIsSafe
  <2>1. arg \in Pids /\ event[arg] = "none" /\ proc[arg] # "running"
    BY DEF DeetInv, ContIsSafe, ArgIsRight, WithChild
  <2> QED
    BY <1>2, <1>8, <2>1 DEF Zombie
<1>11. ChildrenAreKnown'
  BY <1>1, <1>2, <1>3 DEF DeetInv, ChildrenAreKnown, Zombie
<1>12. NoOrphans'
  BY <1>1, <1>2, <1>3 DEF DeetInv, NoOrphans
<1>13. EventsAreReported'
  BY DEF EventsAreReported
<1> QED
  BY <1>4, <1>5, <1>6, <1>7, <1>9, <1>10, <1>11, <1>12, <1>13 DEF DeetInv

(* A step that changes nothing the invariant speaks of.                    *)
LEMMA NothingMoves ==
  ASSUME DeetInv,
         UNCHANGED <<proc, event, ktraced, sigchld, list, status, trace, pc, arg,
                     handler, drain, deet, lost>>
  PROVE  DeetInv'
<1>1. /\ proc' = proc /\ event' = event /\ ktraced' = ktraced
      /\ sigchld' = sigchld /\ list' = list /\ status' = status
      /\ trace' = trace /\ pc' = pc /\ arg' = arg /\ handler' = handler
      /\ drain' = drain /\ deet' = deet /\ lost' = lost
  OBVIOUS
<1>2. Types' /\ ArgIsRight' /\ KernelAgrees' /\ DeadAreReaped'
  BY <1>1 DEF DeetInv, Types, ArgIsRight, KernelAgrees, DeadAreReaped
<1>3. StopsAreReported' /\ ContIsSafe' /\ ChildrenAreKnown'
  BY <1>1 DEF DeetInv, StopsAreReported, ContIsSafe, ChildrenAreKnown
<1>4. NoOrphans' /\ EventsAreReported'
  BY <1>1 DEF DeetInv, NoOrphans, EventsAreReported
<1> QED
  BY <1>2, <1>3, <1>4 DEF DeetInv

(* The steps of a child are such moves.                                    *)
LEMMA ChildKeeps ==
  ASSUME DeetInv, NEW q \in Pids, Child(q)
  PROVE  DeetInv'
<1>1. CASE Exec(q) \/ Stops(q) \/ Faults(q)
  <2>1. CASE EntersStop(q)
    <3>1. /\ proc[q] = "running" /\ sigchld'
          /\ proc' = [proc EXCEPT ![q] = "stopped"]
          /\ event' = [event EXCEPT ![q] = "stopped"]
          /\ UNCHANGED <<ktraced, tableVars, mainVars, handler, drain, deet, lost>>
      BY <1>1, <2>1 DEF Exec, Stops, Faults, ChildStep, EntersStop
    <3> QED
      BY <3>1, ChildMoves
  <2>2. CASE BecomesZombie(q, "signaled") /\ ~ EntersStop(q)
    <3>1. /\ proc[q] = "running" /\ sigchld'
          /\ proc' = [proc EXCEPT ![q] = "signaled"]
          /\ event' = [event EXCEPT ![q] = "none"]
          /\ UNCHANGED <<ktraced, tableVars, mainVars, handler, drain, deet, lost>>
      BY <1>1, <2>2 DEF Exec, Stops, Faults, ChildStep, BecomesZombie
    <3> QED
      BY <3>1, ChildMoves DEF Zombie
  <2>3. CASE UNCHANGED <<proc, event, sigchld>>
    <3>1. UNCHANGED <<proc, event, ktraced, sigchld, list, status, trace, pc, arg,
                      handler, drain, deet, lost>>
      BY <1>1, <2>3 DEF Exec, Stops, Faults, ChildStep, tableVars, mainVars
    <3> QED
      BY <3>1, NothingMoves
  <2> QED
    BY <1>1, <2>1, <2>2, <2>3 DEF Exec, Stops, Faults
<1>2. CASE Exits(q)
  <2>1. /\ proc[q] = "running" /\ sigchld'
        /\ proc' = [proc EXCEPT ![q] = "exited"]
        /\ event' = [event EXCEPT ![q] = "none"]
        /\ UNCHANGED <<ktraced, tableVars, mainVars, handler, drain, deet, lost>>
    BY <1>2 DEF Exits, ChildStep, BecomesZombie
  <2> QED
    BY <2>1, ChildMoves DEF Zombie
<1>3. CASE Dies(q)
  <2>1. /\ proc[q] = "dying" /\ sigchld'
        /\ proc' = [proc EXCEPT ![q] = "killed"]
        /\ event' = [event EXCEPT ![q] = "none"]
        /\ UNCHANGED <<ktraced, tableVars, mainVars, handler, drain, deet, lost>>
    BY <1>3 DEF Dies, BecomesZombie
  <2> QED
    BY <2>1, ChildMoves DEF Zombie
<1> QED
  BY <1>1, <1>2, <1>3 DEF Child

-----------------------------------------------------------------------------
(* The steps of handle_sigchild.                                           *)

(* The handler starts, or returns: nothing is left to wait for then, or a  *)
(* process has been reaped before it was in the list.                      *)
LEMMA HandlerMoves ==
  ASSUME DeetInv, deet = "running",
         UNCHANGED <<proc, event, ktraced, tableVars, arg, drain, deet, lost>>,
         handler' \in {"idle", "reaping"},
         pc' = pc \/ (pc = "suspended" /\ pc' = "wait_check"),
         handler' = "idle" =>
           \A p \in Pids : proc[p] \notin Zombie /\ event[p] = "none"
  PROVE  DeetInv'
<1>1. /\ proc' = proc /\ event' = event /\ ktraced' = ktraced
      /\ list' = list /\ status' = status /\ trace' = trace
      /\ arg' = arg /\ drain' = drain /\ deet' = deet /\ lost' = lost
  BY DEF tableVars
<1>2. Types'
  BY <1>1 DEF DeetInv, Types, WithChild
<1>3. ArgIsRight' /\ ContIsSafe'
  BY <1>1 DEF DeetInv, ArgIsRight, WithChild, ContIsSafe
<1>4. KernelAgrees' /\ DeadAreReaped' /\ StopsAreReported'
  BY <1>1 DEF DeetInv, KernelAgrees, DeadAreReaped, StopsAreReported
<1>5. ChildrenAreKnown'
  BY <1>1 DEF DeetInv, ChildrenAreKnown
<1>6. NoOrphans' /\ EventsAreReported'
  BY <1>1 DEF NoOrphans, EventsAreReported
<1> QED
  BY <1>2, <1>3, <1>4, <1>5, <1>6 DEF DeetInv

(* The two steps of the handler that wait for nothing.                     *)
LEMMA HandlerEntersAndReturns ==
  ASSUME DeetInv, EnterSigchld \/ NothingToReap
  PROVE  DeetInv'
<1>1. CASE EnterSigchld
  <2>1. /\ deet = "running" /\ handler' = "reaping" /\ pc' = pc
        /\ UNCHANGED <<proc, event, ktraced, tableVars, arg, drain, deet, lost>>
    BY <1>1 DEF EnterSigchld, mainVars
  <2> QED
    BY <2>1, HandlerMoves
<1>2. CASE NothingToReap
  <2>1. /\ deet = "running" /\ handler' = "idle"
        /\ (pc' = pc \/ (pc = "suspended" /\ pc' = "wait_check"))
        /\ UNCHANGED <<proc, event, ktraced, tableVars, arg, drain, deet, lost>>
        /\ \A p \in Pids : proc[p] \notin Zombie /\ event[p] = "none"
    BY <1>2 DEF NothingToReap, HandlerReturns, kernelVars
  <2> QED
    BY <2>1, HandlerMoves
<1> QED
  BY <1>1, <1>2

(* waitpid reports on a child; a stop is reported only of a process that   *)
(* has stopped, and only a process that ends is shown as dead.             *)
LEMMA Reports ==
  ASSUME DeetInv, deet = "running", handler = "reaping", NEW q \in Pids,
         proc' = [proc EXCEPT ![q] = IF proc[q] \in Zombie THEN "reaped" ELSE proc[q]],
         event' = [event EXCEPT ![q] = "none"],
         UNCHANGED <<ktraced, list, trace, arg, drain, deet>>,
         pc' = pc \/ (pc = "suspended" /\ pc' = "wait_check"),
         lost' = lost \/ lost' = lost \cup {q},
         handler' = "reaping" \/ (handler' = "idle" /\ lost' = lost \cup {q}),
         NEW s \in PState, status' = status \/ status' = [status EXCEPT ![q] = s],
         status' = status \/ s = "running" \/ (s = "dead" /\ proc[q] \in Zombie)
           \/ (s = "stopped" /\ event[q] = "stopped"),
         status' = status \/ event[q] # "none" \/ proc[q] \in Zombie
  PROVE  DeetInv'
<1>1. /\ ktraced' = ktraced /\ list' = list /\ trace' = trace
      /\ arg' = arg /\ drain' = drain /\ deet' = deet
  OBVIOUS
<1>2. /\ proc'[q] = IF proc[q] \in Zombie THEN "reaped" ELSE proc[q]
      /\ event'[q] = "none"
      /\ \A p \in Pids : p # q => proc'[p] = proc[p] /\ event'[p] = event[p]
      /\ proc' \in [Pids -> {"unborn", "running", "stopped", "dying", "reaped"}
                           \cup Zombie]
      /\ event' \in [Pids -> {"none", "stopped", "continued"}]
  BY DEF DeetInv, Types
<1>3. /\ status' \in [Pids -> PState] /\ status'[q] \in {status[q], s}
      /\ status'[q] # status[q] => status'[q] = s /\ status' # status
      /\ \A p \in Pids : p # q => status'[p] = status[p]
  BY DEF DeetInv, Types
<1>4. Types'
  <2>1. lost' \subseteq Pids /\ handler' \in {"idle", "reaping"}
    BY DEF DeetInv, Types
  <2>2. pc' \in {"spin", "read", "quit"} \cup WithChild
    BY DEF DeetInv, Types, WithChild
  <2> QED
    BY <1>1, <1>2, <1>3, <2>1, <2>2 DEF DeetInv, Types
<1>5. ArgIsRight'
  BY <1>1 DEF DeetInv, ArgIsRight, WithChild
<1>6. KernelAgrees'
  BY <1>1, <1>2 DEF DeetInv, KernelAgrees
<1>7. DeadAreReaped'
  BY <1>2, <1>3 DEF DeetInv, DeadAreReaped, Zombie
<1>8. StopsAreReported'
  <2> SUFFICES ASSUME NEW p \in Pids, status'[p] = "stopped", trace[p]
               PROVE  event'[p] = "none" /\ proc'[p] \notin {"unborn", "running"}
    BY <1>1 DEF StopsAreReported
  <2>1. CASE p # q
    BY <1>2, <1>3, <2>1 DEF DeetInv, StopsAreReported
  <2>2. CASE p = q /\ status[q] = "stopped"
    BY <1>2, <2>2 DEF DeetInv, StopsAreReported
  <2>3. CASE p = q /\ status[q] # "stopped"
    <3>1. event[q] = "stopped"
      BY <1>3, <2>3
    <3>2. proc[q] = "stopped"
      BY <3>1 DEF DeetInv, KernelAgrees
    <3> QED
      BY <1>2, <2>3, <3>2 DEF Zombie
  <2> QED
    BY <2>1, <2>2, <2>3
<1>9. ContIsSafe'
  <2> SUFFICES ASSUME pc' \in {"cont_set", "cont_resume"}, trace[arg]
               PROVE  /\ event'[arg] = "none" /\ proc'[arg] # "running"
                      /\ pc' = "cont_resume" => status'[arg] # "stopped"
    BY <1>1 DEF ContIsSafe
  <2>1. /\ arg \in Pids /\ pc' = pc
        /\ event[arg] = "none" /\ proc[arg] # "running"
        /\ pc = "cont_resume" => status[arg] # "stopped"
    BY DEF DeetInv, ContIsSafe, ArgIsRight, WithChild
  <2>2. arg = q => status'[q] # "stopped" \/ status'[q] = status[q]
    BY <1>3, <2>1
  <2>3. CASE arg # q
    <3>1. /\ event'[arg] = event[arg] /\ proc'[arg] = proc[arg]
          /\ status'[arg] = status[arg]
      BY <1>2, <1>3, <2>1, <2>3
    <3> QED
      BY <2>1, <3>1
  <2>4. CASE arg = q
    <3>1. event'[q] = "none" /\ proc'[q] \in {"reaped", proc[q]}
      BY <1>2
    <3> QED
      BY <2>1, <2>2, <2>4, <3>1
  <2> QED
    BY <2>3, <2>4
<1>10. ChildrenAreKnown'
  <2> SUFFICES ASSUME NEW p \in Pids, proc'[p] \notin {"unborn", "reaped"},
                      ~ (pc' = "forked" /\ arg = p)
               PROVE  /\ p \in ToSet(list)
                      /\ drain => /\ status'[p] = "killed"
                                  /\ proc'[p] \in {"dying"} \cup Zombie
    BY <1>1 DEF ChildrenAreKnown
  <2>1. proc'[p] = proc[p] /\ ~ (pc = "forked" /\ arg = p)
        /\ (p = q => proc[p] \notin Zombie)
    BY <1>2
  <2>2. /\ p \in ToSet(list)
        /\ drain => status[p] = "killed" /\ proc[p] \in {"dying"} \cup Zombie
    BY <2>1 DEF DeetInv, ChildrenAreKnown
  <2>3. drain /\ p = q => event[q] = "none" /\ proc[q] \notin Zombie
    BY <2>1, <2>2 DEF DeetInv, KernelAgrees, Zombie
  <2> QED
    BY <1>3, <2>1, <2>2, <2>3
<1>11. NoOrphans'
  BY <1>1 DEF NoOrphans
<1>12. EventsAreReported'
  BY DEF EventsAreReported
<1> QED
  BY <1>4, <1>5, <1>6, <1>7, <1>8, <1>9, <1>10, <1>11, <1>12 DEF DeetInv

(* The four reports are such reports.                                      *)
LEMMA ReapKeeps ==
  ASSUME DeetInv, NEW q \in Pids, Reap(q)
  PROVE  DeetInv'
<1>1. /\ Reaps(q) /\ deet = "running" /\ handler = "reaping"
      /\ proc' = [proc EXCEPT ![q] = IF proc[q] \in Zombie THEN "reaped" ELSE proc[q]]
      /\ event' = [event EXCEPT ![q] = "none"]
      /\ UNCHANGED <<ktraced, list, trace, arg, drain, deet>>
  BY DEF Reap, ReapUnknown, ReapDead, ReapSignaled, ReapEvent, ReapKnown, Reaps,
         tableVars
<1>2. CASE ReapUnknown(q)
  <2>1. /\ status' = status /\ lost' = lost \cup {q} /\ handler' = "idle"
        /\ (pc' = pc \/ (pc = "suspended" /\ pc' = "wait_check"))
    BY <1>2 DEF ReapUnknown, HandlerReturns, tableVars
  <2>2. "none" \in PState
    BY DEF PState
  <2> QED
    BY <1>1, <2>1, <2>2, Reports
<1>3. ASSUME ReapKnown(q)
      PROVE  pc' = pc /\ lost' = lost /\ handler' = "reaping"
  BY <1>1, <1>3 DEF ReapKnown, KeepReaping
<1>4. CASE ReapDead(q)
  <2>1. /\ status' = [status EXCEPT ![q] = "dead"] /\ proc[q] \in Zombie
        /\ ReapKnown(q) /\ "dead" \in PState
    BY <1>4 DEF ReapDead, Zombie, PState
  <2> QED
    BY <1>1, <1>3, <2>1, Reports
<1>5. CASE ReapSignaled(q)
  <2>1. status' = status /\ ReapKnown(q) /\ "none" \in PState
    BY <1>5 DEF ReapSignaled, PState
  <2> QED
    BY <1>1, <1>3, <2>1, Reports
<1>6. CASE ReapEvent(q) /\ event[q] = "stopped"
  <2>1. /\ status' = [status EXCEPT ![q] = "stopped"] /\ ReapKnown(q)
        /\ "stopped" \in PState
    BY <1>6 DEF ReapEvent, SetStatus, PState
  <2> QED
    BY <1>1, <1>3, <1>6, <2>1, Reports
<1>7. CASE ReapEvent(q) /\ event[q] # "stopped"
  <2>1. /\ status' = [status EXCEPT ![q] = "running"] /\ ReapKnown(q)
        /\ "running" \in PState /\ event[q] # "none"
    BY <1>7 DEF ReapEvent, SetStatus, PState
  <2> QED
    BY <1>1, <1>3, <2>1, Reports
<1> QED
  BY <1>2, <1>4, <1>5, <1>6, <1>7 DEF Reap

-----------------------------------------------------------------------------
(* The theorems.                                                           *)

LEMMA InitEstablishesDeetInv == Init => DeetInv
<1> SUFFICES ASSUME Init PROVE DeetInv
  OBVIOUS
<1>1. /\ proc = [p \in Pids |-> "unborn"] /\ event = [p \in Pids |-> "none"]
      /\ ktraced = [p \in Pids |-> FALSE] /\ list = <<>>
      /\ status = [p \in Pids |-> "none"] /\ trace = [p \in Pids |-> FALSE]
      /\ pc = "spin" /\ arg = NoPid /\ handler = "idle"
      /\ deet = "running" /\ lost = {}
  BY DEF Init
<1>2. <<>> \in Seq(Pids)
  OBVIOUS
<1>3. Types
  BY <1>1, <1>2 DEF Types, PState
<1>4. ArgIsRight /\ KernelAgrees /\ DeadAreReaped
  BY <1>1 DEF ArgIsRight, KernelAgrees, DeadAreReaped, WithChild
<1>5. StopsAreReported /\ ContIsSafe
  BY <1>1 DEF StopsAreReported, ContIsSafe
<1>6. ChildrenAreKnown /\ NoOrphans /\ EventsAreReported
  BY <1>1 DEF ChildrenAreKnown, NoOrphans, EventsAreReported, Zombie
<1> QED
  BY <1>3, <1>4, <1>5, <1>6 DEF DeetInv

(* Every step keeps the invariant.                                         *)
LEMMA NextKeepsDeetInv ==
  ASSUME DeetInv, [Next]_vars
  PROVE  DeetInv'
<1>1. CASE UNCHANGED vars
  <2>1. UNCHANGED <<proc, event, ktraced, sigchld, list, status, trace, pc, arg,
                    handler, drain, deet, lost>>
    BY <1>1 DEF vars, kernelVars, tableVars, mainVars
  <2> QED
    BY <2>1, NothingMoves
<1>2. CASE User
  <2>1. ASSUME NEW p \in Pids, Command(p) PROVE DeetInv'
    BY <2>1, ForkKeeps, StartsKeep DEF Command
  <2> QED
    BY <1>2, <2>1, PlainStepsKeep, ShutdownKeeps, SigintFreesTwiceKeeps DEF User
<1>3. CASE Main
  BY <1>3, PlainStepsKeep, SpawnChildKeeps, SetsKeep, ContResumeKeeps,
     KillChildKeeps, StopSendKeeps, ReleaseDetachKeeps, DrainDoneKeeps DEF Main
<1>4. CASE Handler
  BY <1>4, HandlerEntersAndReturns, ReapKeeps DEF Handler
<1>5. CASE \E p \in Pids : Child(p)
  BY <1>5, ChildKeeps
<1> QED
  BY <1>1, <1>2, <1>3, <1>4, <1>5 DEF Next

(* The inductive invariant of the debugger holds in every run.             *)
THEOREM DeetInvHolds == Safety => []DeetInv
<1>1. DeetInv /\ [Next]_vars => DeetInv'
  BY NextKeepsDeetInv
<1> QED
  BY <1>1, InitEstablishesDeetInv, PTL DEF Safety

(* deet does not exit while a process it has forked exists, except one     *)
(* that SIGINT kept it from entering in the list.                          *)
THEOREM DeetLeavesNoOrphans == Safety => []NoOrphans
<1>1. DeetInv => NoOrphans
  BY DEF DeetInv
<1> QED
  BY <1>1, DeetInvHolds, PTL

(* A child that the table shows as traced and stopped is not running.      *)
THEOREM ShownStopsAreTrue == Safety => []StoppedIsStopped
<1>1. DeetInv => StoppedIsStopped
  BY ElementsOf DEF DeetInv, Types, StopsAreReported, StoppedIsStopped
<1> QED
  BY <1>1, DeetInvHolds, PTL

(* One SIGCHLD may stand for several events: none of them is missed.       *)
THEOREM NoEventIsMissed == Safety => []EventsAreReported
<1>1. DeetInv => EventsAreReported
  BY DEF DeetInv
<1> QED
  BY <1>1, DeetInvHolds, PTL

(* While deet runs, it knows of every process it has forked: the list      *)
(* holds it, or main is about to enter it.  What handle_shutdown waits for *)
(* has been sent SIGKILL.                                                  *)
THEOREM NoChildIsForgotten == Safety => []ChildrenAreKnown
<1>1. DeetInv => ChildrenAreKnown
  BY DEF DeetInv
<1> QED
  BY <1>1, DeetInvHolds, PTL

(* A number, or the memory of a child, is only reused once the kernel has  *)
(* let go of the process: what spawn_child frees has been waited for.      *)
THEOREM FreedChildrenAreReaped ==
  Safety => [](\A p \in DeadOnes : proc[p] = "reaped")
<1>1. DeetInv => \A p \in DeadOnes : proc[p] = "reaped"
  BY ElementsOf DEF DeetInv, Types, DeadAreReaped, DeadOnes, IsLive
<1> QED
  BY <1>1, DeetInvHolds, PTL

(* The runs check the same under fairness.                                 *)
THEOREM FairRunsAreSafe ==
  FairSpec => [](NoOrphans /\ StoppedIsStopped /\ EventsAreReported)
<1>1. FairSpec => Safety
  BY PTL DEF FairSpec
<1> QED
  BY <1>1, DeetLeavesNoOrphans, ShownStopsAreTrue, NoEventIsMissed, PTL
=============================================================================
