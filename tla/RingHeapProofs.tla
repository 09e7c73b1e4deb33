--------------------------- MODULE RingHeapProofs ---------------------------
(***************************************************************************)
(* What holds of RingHeap for any finite set of nodes and any keys.        *)
(*                                                                         *)
(*   Lists(s)  the sequence s has the allocated nodes, each once, in the   *)
(*             order of next, against the order of prev, from the root on  *)
(*   HeapInv   there is such a sequence, and a walk is at an allocated     *)
(*             node; inductive                                             *)
(*                                                                         *)
(* Each operation is shown to do to that sequence what it should do, place *)
(* by place; the loops of the model follow it; and the keys of its nodes   *)
(* are the abstract ring.                                                  *)
(***************************************************************************)
EXTENDS RingHeap, FiniteSetTheorems, SequenceTheorems, TLAPS

(* The lemmas about sequences of keys.                                       *)
Seqs == INSTANCE RingProofs

(* The places of a ring of l nodes, one after the other.                     *)
After(i, l) == IF i = l THEN 1 ELSE i + 1
Before(i, l) == IF i = 1 THEN l ELSE i - 1

(* The sequence s has the nodes of the ring in their order, from the root on. *)
Lists(s) ==
  /\ s \in Seq(Node)
  /\ \A n : n \in live <=> \E i \in 1..Len(s) : s[i] = n
  /\ \A i, j \in 1..Len(s) : s[i] = s[j] => i = j
  /\ \A i \in 1..Len(s) : next[s[i]] = s[After(i, Len(s))]
  /\ \A i \in 1..Len(s) : prev[s[i]] = s[Before(i, Len(s))]
  /\ root = IF Len(s) = 0 THEN NULL ELSE s[1]

HeapInv == TypeOK /\ CursorLive /\ \E s : Lists(s)

LEMMA Places ==
  ASSUME NEW l \in Nat, NEW i \in 1..l
  PROVE  /\ After(i, l) \in 1..l /\ Before(i, l) \in 1..l
         /\ Before(After(i, l), l) = i /\ After(Before(i, l), l) = i
BY DEF After, Before

LEMMA HeapInit == Init => HeapInv
<1> SUFFICES ASSUME Init PROVE HeapInv
  OBVIOUS
<1>1. TypeOK
  <2>1. PICK k \in Key : key = [n \in Node |-> k]
    BY DEF Init
  <2> QED
    BY <2>1 DEF Init, TypeOK
<1>2. CursorLive
  BY DEF Init, CursorLive
<1>3. Lists(<<>>)
  <2>1. <<>> \in Seq(Node) /\ Len(<<>>) = 0
    OBVIOUS
  <2> QED
    BY <2>1 DEF Init, Lists
<1> QED
  BY <1>1, <1>2, <1>3 DEF HeapInv
-----------------------------------------------------------------------------
(* The loop over next.                                                       *)

(* The function f goes on from r along nx, over the first m numbers.         *)
GoesOn(f, m, r, nx) ==
  /\ f = [i \in 1..m |-> f[i]]
  /\ \A i \in 1..m : f[i] = IF i = 1 THEN r ELSE nx[f[i - 1]]

(* There is a function that goes on along nx from r, over any interval.      *)
LEMMA Chain ==
  ASSUME NEW N \in Nat, NEW r, NEW nx
  PROVE  \E f : GoesOn(f, N, r, nx)
<1> USE DEF GoesOn
<1> DEFINE Is(f, m) == GoesOn(f, m, r, nx)
           T == {m \in Nat : ~ \E f : Is(f, m)}
<1>1. SUFFICES T = {}
  OBVIOUS
<1>2. SUFFICES ASSUME T # {} PROVE FALSE
  OBVIOUS
<1>3. PICK m \in T : \A y \in T : m <= y
  <2>1. T \in SUBSET Nat
    OBVIOUS
  <2> HIDE DEF T
  <2> QED
    BY <1>2, <2>1, Seqs!LeastNat
<1>4. m \in Nat /\ ~ \E f : Is(f, m)
  OBVIOUS
<1>5. CASE m = 0
  <2> DEFINE g == [i \in 1..0 |-> r]
  <2>1. Is(g, 0)
    OBVIOUS
  <2> QED
    BY <1>4, <1>5, <2>1
<1>6. CASE m # 0
  <2>1. m - 1 \in Nat /\ m - 1 \notin T
    <3> HIDE DEF T
    <3>1. m - 1 \in Nat /\ ~ (m <= m - 1)
      BY <1>4, <1>6
    <3> QED
      BY <1>3, <3>1
  <2>2. PICK g : Is(g, m - 1)
    BY <2>1
  <2> DEFINE h == [i \in 1..m |-> IF i = 1 THEN r ELSE IF i = m THEN nx[g[m - 1]] ELSE g[i]]
  <2>3. \A i \in 1..(m - 1) : h[i] = g[i]
    <3> SUFFICES ASSUME NEW i \in 1..(m - 1) PROVE h[i] = g[i]
      OBVIOUS
    <3>1. i \in 1..m /\ i # m
      BY <1>4, <1>6
    <3>2. h[i] = IF i = 1 THEN r ELSE g[i]
      BY <3>1
    <3>3. i = 1 => g[i] = r
      BY <2>2
    <3> QED
      BY <3>2, <3>3
  <2>4. ASSUME NEW i \in 1..m PROVE h[i] = IF i = 1 THEN r ELSE nx[h[i - 1]]
    <3>1. CASE i = 1
      BY <3>1
    <3>2. CASE i # 1 /\ i = m
      <4>1. h[i] = nx[g[m - 1]] /\ m - 1 \in 1..(m - 1)
        BY <1>4, <3>2
      <4> QED
        BY <2>3, <3>2, <4>1
    <3>3. CASE i # 1 /\ i # m
      <4>1. i \in 1..(m - 1) /\ i - 1 \in 1..(m - 1)
        BY <1>4, <3>3
      <4>2. h[i] = g[i] /\ h[i - 1] = g[i - 1]
        BY <2>3, <4>1
      <4>3. g[i] = nx[g[i - 1]]
        BY <2>2, <3>3, <4>1
      <4> QED
        BY <3>3, <4>2, <4>3
    <3> QED
      BY <3>1, <3>2, <3>3
  <2>5. Is(h, m)
    <3>1. h = [i \in 1..m |-> h[i]]
      OBVIOUS
    <3> HIDE DEF h
    <3> QED
      BY <2>4, <3>1
  <2> QED
    BY <1>4, <2>5
<1> QED
  BY <1>5, <1>6

LEMMA Turns ==
  /\ Cardinality(Node) \in Nat /\ DOMAIN Visited = 1..Cardinality(Node)
  /\ \A i \in 1..Cardinality(Node) : Visited[i] = IF i = 1 THEN root ELSE next[Visited[i - 1]]
<1>1. Cardinality(Node) \in Nat
  BY RingHeapAssumption, FS_CardinalityType
<1>2. \E f : f = [i \in 1..Cardinality(Node) |-> IF i = 1 THEN root ELSE next[f[i - 1]]]
  <2>1. PICK f : GoesOn(f, Cardinality(Node), root, next)
    BY <1>1, Chain
  <2>2. f = [i \in 1..Cardinality(Node) |-> IF i = 1 THEN root ELSE next[f[i - 1]]]
    BY <2>1 DEF GoesOn
  <2> QED
    BY <2>2
<1>3. Visited = [i \in 1..Cardinality(Node) |-> IF i = 1 THEN root ELSE next[Visited[i - 1]]]
  BY <1>2 DEF Visited
<1> QED
  BY <1>1, <1>3

(* A sequence of the nodes is as long as there are nodes.                    *)
LEMMA RingLength ==
  ASSUME TypeOK, NEW s, Lists(s)
  PROVE  Len(s) \in Nat /\ Len(s) = Cardinality(live) /\ Len(s) <= Cardinality(Node)
<1>1. /\ s \in Seq(Node) /\ Len(s) \in Nat
      /\ \A n : n \in live <=> \E i \in 1..Len(s) : s[i] = n
      /\ \A i, j \in 1..Len(s) : s[i] = s[j] => i = j
  BY DEF Lists
<1> DEFINE f == [i \in 1..Len(s) |-> s[i]]
<1>2. f \in [1..Len(s) -> live] /\ (\A i, j \in 1..Len(s) : f[i] = f[j] => i = j)
      /\ \A n \in live : \E i \in 1..Len(s) : f[i] = n
  BY <1>1
<1>3. DOMAIN f = 1..Len(s)
  OBVIOUS
<1> HIDE DEF f
<1>4. f \in Bijection(1..Len(s), live)
  BY <1>2, <1>3 DEF Bijection, Injection, Surjection, IsInjective
<1>5. IsFiniteSet(1..Len(s)) /\ Cardinality(1..Len(s)) = Len(s)
  <2>1. IsFiniteSet(1..Len(s)) /\ Cardinality(1..Len(s)) = IF 1 > Len(s) THEN 0 ELSE Len(s)-1+1
    BY <1>1, FS_Interval
  <2> QED
    BY <1>1, <2>1
<1>6. Cardinality(live) = Len(s)
  BY <1>4, <1>5, FS_Bijection DEF ExistsBijection
<1>7. Cardinality(live) <= Cardinality(Node)
  BY RingHeapAssumption, FS_Subset DEF TypeOK
<1> QED
  BY <1>1, <1>6, <1>7

(* Such a loop visits the nodes of the ring in their order.                  *)
LEMMA Visits ==
  ASSUME TypeOK, NEW s, Lists(s), Len(s) # 0
  PROVE  /\ \A i \in 1..Len(s) : Visited[i] = s[i]
         /\ \A i \in 1..Cardinality(Node) : Visited[i] \in live
<1>1. /\ s \in Seq(Node) /\ Len(s) \in Nat /\ root = s[1] /\ Len(s) <= Cardinality(Node)
      /\ Cardinality(Node) \in Nat
      /\ \A i \in 1..Len(s) : s[i] \in live
      /\ \A i \in 1..Len(s) : next[s[i]] = s[After(i, Len(s))]
  BY RingLength, Turns DEF Lists
<1>2. \A i \in 1..Len(s) : Visited[i] = s[i]
  <2> DEFINE T == {i \in 1..Len(s) : Visited[i] # s[i]}
  <2>1. SUFFICES ASSUME T # {} PROVE FALSE
    OBVIOUS
  <2>2. PICK m \in T : \A y \in T : m <= y
    <3>1. T \in SUBSET Nat
      BY <1>1
    <3> HIDE DEF T
    <3> QED
      BY <2>1, <3>1, Seqs!LeastNat
  <2>3. m \in 1..Len(s) /\ Visited[m] # s[m] /\ m \in 1..Cardinality(Node)
    BY <1>1
  <2>4. CASE m = 1
    BY <1>1, <2>3, <2>4, Turns
  <2>5. CASE m # 1
    <3>1. m - 1 \in 1..Len(s) /\ m - 1 \notin T /\ After(m - 1, Len(s)) = m
      BY <1>1, <2>2, <2>3, <2>5 DEF After
    <3>2. Visited[m - 1] = s[m - 1]
      BY <3>1
    <3>3. Visited[m] = next[s[m - 1]]
      BY <2>3, <2>5, <3>2, Turns
    <3> QED
      BY <1>1, <2>3, <3>1, <3>3
  <2> QED
    BY <2>4, <2>5
<1>3. \A i \in 1..Cardinality(Node) : Visited[i] \in live
  <2> DEFINE T == {i \in 1..Cardinality(Node) : Visited[i] \notin live}
  <2>1. SUFFICES ASSUME T # {} PROVE FALSE
    OBVIOUS
  <2>2. PICK m \in T : \A y \in T : m <= y
    <3>1. T \in SUBSET Nat
      BY <1>1
    <3> HIDE DEF T
    <3> QED
      BY <2>1, <3>1, Seqs!LeastNat
  <2>3. m \in 1..Cardinality(Node) /\ Visited[m] \notin live
    OBVIOUS
  <2>4. CASE m = 1
    <3>1. 1 \in 1..Len(s)
      BY <1>1
    <3> QED
      BY <1>1, <2>3, <2>4, <3>1, Turns
  <2>5. CASE m # 1
    <3>1. m - 1 \in 1..Cardinality(Node) /\ m - 1 \notin T
      BY <1>1, <2>2, <2>3, <2>5
    <3>2. Visited[m - 1] \in live
      BY <3>1
    <3>3. PICK i \in 1..Len(s) : s[i] = Visited[m - 1]
      BY <3>2 DEF Lists
    <3>4. After(i, Len(s)) \in 1..Len(s)
      BY <1>1, Places
    <3>5. Visited[m] = s[After(i, Len(s))]
      BY <1>1, <2>3, <2>5, <3>3, Turns
    <3> QED
      BY <1>1, <2>3, <3>4, <3>5
  <2> QED
    BY <2>4, <2>5
<1> QED
  BY <1>2, <1>3

LEMMA AllVisited ==
  ASSUME TypeOK, NEW s, Lists(s)
  PROVE  /\ ring_count = Len(s)
         /\ root # NULL => {Visited[i] : i \in DOMAIN Visited} = live
<1>1. Len(s) \in Nat /\ Len(s) = Cardinality(live) /\ Len(s) <= Cardinality(Node)
  BY RingLength
<1>2. CASE Len(s) = 0
  BY <1>2 DEF Lists, ring_count
<1>3. CASE Len(s) # 0
  <2>1. root # NULL
    <3>1. s[1] \in Node /\ root = s[1]
      BY <1>1, <1>3 DEF Lists
    <3> QED
      BY <3>1, RingHeapAssumption
  <2>2. {Visited[i] : i \in DOMAIN Visited} \subseteq live
    BY <1>3, Visits, Turns
  <2>3. live \subseteq {Visited[i] : i \in DOMAIN Visited}
    <3> SUFFICES ASSUME NEW n \in live PROVE \E i \in DOMAIN Visited : Visited[i] = n
      OBVIOUS
    <3>1. PICK i \in 1..Len(s) : s[i] = n
      BY DEF Lists
    <3>2. i \in DOMAIN Visited /\ Visited[i] = n
      BY <1>1, <1>3, <3>1, Visits, Turns
    <3> QED
      BY <3>2
  <2> QED
    BY <1>1, <2>1, <2>2, <2>3 DEF ring_count
<1> QED
  BY <1>2, <1>3

-----------------------------------------------------------------------------
(* The sequence t is s without its place i.                                  *)
CutAt(t, s, i) ==
  /\ Len(t) = Len(s) - 1
  /\ \A j \in 1..Len(t) : t[j] = s[IF j < i THEN j ELSE j + 1]

(* The sequence t is s with n behind it.                                     *)
With(t, s, n) ==
  /\ Len(t) = Len(s) + 1
  /\ \A j \in 1..Len(s) : t[j] = s[j]
  /\ t[Len(s) + 1] = n

(* The sequence t is s from its second place on, or from its last one on.    *)
Forth(t, s) == Len(t) = Len(s) /\ \A i \in 1..Len(s) : t[i] = s[After(i, Len(s))]
Back(t, s) == Len(t) = Len(s) /\ \A i \in 1..Len(s) : t[i] = s[Before(i, Len(s))]

LEMMA Listed ==
  ASSUME TypeOK, NEW s, Lists(s)
  PROVE  /\ s \in Seq(Node) /\ Len(s) \in Nat
         /\ \A i \in 1..Len(s) : s[i] \in live /\ s[i] \in Node
         /\ (root = NULL <=> Len(s) = 0)
         /\ (Len(s) # 0 => root = s[1] /\ 1 \in 1..Len(s) /\ Len(s) \in 1..Len(s))
<1>1. s \in Seq(Node) /\ Len(s) \in Nat
  BY DEF Lists
<1>2. \A i \in 1..Len(s) : s[i] \in live /\ s[i] \in Node
  BY <1>1 DEF Lists
<1>3. Len(s) # 0 => root = s[1] /\ 1 \in 1..Len(s) /\ Len(s) \in 1..Len(s)
  BY <1>1 DEF Lists
<1>4. root = NULL <=> Len(s) = 0
  <2>1. Len(s) # 0 => root # NULL
    BY <1>2, <1>3, RingHeapAssumption
  <2> QED
    BY <2>1 DEF Lists
<1> QED
  BY <1>1, <1>2, <1>3, <1>4

(* Going past the place that is cut out.                                     *)
LEMMA CutPlaces ==
  ASSUME NEW m \in Nat, NEW i \in 1..m, NEW j \in 1..(m - 1)
  PROVE  LET U(x) == IF x < i THEN x ELSE x + 1
         IN  /\ U(j) \in 1..m /\ U(j) # i
             /\ After(j, m - 1) \in 1..(m - 1) /\ Before(j, m - 1) \in 1..(m - 1)
             /\ U(After(j, m - 1)) = IF After(U(j), m) = i THEN After(i, m) ELSE After(U(j), m)
             /\ U(Before(j, m - 1)) = IF Before(U(j), m) = i THEN Before(i, m) ELSE Before(U(j), m)
             /\ (U(j) = Before(i, m) <=> After(U(j), m) = i)
             /\ (U(j) = After(i, m) <=> Before(U(j), m) = i)
BY DEF After, Before

(* The node that is removed, its neighbours, and the node before it.         *)
LEMMA RemovePlace ==
  ASSUME TypeOK, NEW s, Lists(s), NEW i \in 1..Len(s), NEW t, t \in Seq(Node), CutAt(t, s, i),
         next' = [next EXCEPT ![s[Before(i, Len(s))]] = s[After(i, Len(s))]],
         prev' = [prev EXCEPT ![s[After(i, Len(s))]] = s[Before(i, Len(s))]],
         live' = live \ {s[i]}, root' = RootAfter(i)
  PROVE  Lists(t)'
<1> DEFINE m == Len(s)
           U(x) == IF x < i THEN x ELSE x + 1
<1>1. /\ s \in Seq(Node) /\ m \in Nat /\ i \in 1..m
      /\ \A j \in 1..m : s[j] \in live /\ s[j] \in Node
      /\ \A x, y \in 1..m : s[x] = s[y] => x = y
      /\ root = s[1] /\ m # 0
  BY Listed DEF Lists
<1>2. Len(t) = m - 1 /\ \A j \in 1..(m - 1) : t[j] = s[U(j)]
  BY DEF CutAt
<1>3. \A j \in 1..(m - 1) :
        /\ U(j) \in 1..m /\ U(j) # i
        /\ After(j, m - 1) \in 1..(m - 1) /\ Before(j, m - 1) \in 1..(m - 1)
        /\ U(After(j, m - 1)) = IF After(U(j), m) = i THEN After(i, m) ELSE After(U(j), m)
        /\ U(Before(j, m - 1)) = IF Before(U(j), m) = i THEN Before(i, m) ELSE Before(U(j), m)
        /\ (U(j) = Before(i, m) <=> After(U(j), m) = i)
        /\ (U(j) = After(i, m) <=> Before(U(j), m) = i)
  BY <1>1, CutPlaces
<1>4. /\ Before(i, m) \in 1..m /\ After(i, m) \in 1..m
      /\ s[Before(i, m)] \in Node /\ s[After(i, m)] \in Node
  BY <1>1, Places
<1>5. \A n : n \in live' <=> \E j \in 1..(m - 1) : t[j] = n
  <2>1. ASSUME NEW n \in live' PROVE \E j \in 1..(m - 1) : t[j] = n
    <3>1. PICK x \in 1..m : s[x] = n /\ x # i
      BY DEF Lists
    <3>2. CASE x < i
      <4>1. x \in 1..(m - 1) /\ U(x) = x
        BY <1>1, <3>2
      <4> QED
        BY <1>2, <3>1, <4>1
    <3>3. CASE ~(x < i)
      <4>1. x - 1 \in 1..(m - 1) /\ U(x - 1) = x
        BY <1>1, <3>1, <3>3
      <4> QED
        BY <1>2, <3>1, <4>1
    <3> QED
      BY <3>2, <3>3
  <2>2. ASSUME NEW j \in 1..(m - 1) PROVE t[j] \in live'
    <3>1. U(j) \in 1..m /\ U(j) # i /\ t[j] = s[U(j)]
      BY <1>2, <1>3
    <3> HIDE DEF U
    <3> QED
      BY <1>1, <3>1
  <2> QED
    BY <2>1, <2>2
<1>6. \A x, y \in 1..(m - 1) : t[x] = t[y] => x = y
  <2> SUFFICES ASSUME NEW x \in 1..(m - 1), NEW y \in 1..(m - 1), t[x] = t[y] PROVE x = y
    OBVIOUS
  <2>1. U(x) \in 1..m /\ U(y) \in 1..m /\ s[U(x)] = s[U(y)]
    BY <1>2, <1>3
  <2>2. U(x) = U(y)
    <3> HIDE DEF U
    <3> QED
      BY <1>1, <2>1
  <2> QED
    BY <1>1, <2>2
<1>7. \A j \in 1..(m - 1) : next'[t[j]] = t[After(j, m - 1)]
  <2> SUFFICES ASSUME NEW j \in 1..(m - 1) PROVE next'[t[j]] = t[After(j, m - 1)]
    OBVIOUS
  <2> DEFINE u == U(j)
  <2>1. u \in 1..m /\ t[j] = s[u] /\ t[After(j, m - 1)] = s[U(After(j, m - 1))]
    BY <1>2, <1>3
  <2>2. /\ U(After(j, m - 1)) = IF After(u, m) = i THEN After(i, m) ELSE After(u, m)
        /\ u = Before(i, m) <=> After(u, m) = i
    BY <1>3
  <2> HIDE DEF u
  <2>3. s[u] = s[Before(i, m)] <=> u = Before(i, m)
    BY <1>1, <1>4, <2>1
  <2>4. s[u] \in Node /\ next[s[u]] = s[After(u, m)]
    BY <1>1, <2>1 DEF Lists
  <2>5. CASE After(u, m) = i
    <3>1. s[u] = s[Before(i, m)] /\ U(After(j, m - 1)) = After(i, m)
      BY <2>2, <2>3, <2>5
    <3>2. next'[s[u]] = s[After(i, m)]
      BY <2>4, <3>1 DEF TypeOK
    <3> QED
      BY <2>1, <3>1, <3>2
  <2>6. CASE After(u, m) # i
    <3>1. s[u] # s[Before(i, m)] /\ U(After(j, m - 1)) = After(u, m)
      BY <2>2, <2>3, <2>6
    <3>2. next'[s[u]] = s[After(u, m)]
      BY <2>4, <3>1 DEF TypeOK
    <3> QED
      BY <2>1, <3>1, <3>2
  <2> QED
    BY <2>5, <2>6
<1>8. \A j \in 1..(m - 1) : prev'[t[j]] = t[Before(j, m - 1)]
  <2> SUFFICES ASSUME NEW j \in 1..(m - 1) PROVE prev'[t[j]] = t[Before(j, m - 1)]
    OBVIOUS
  <2> DEFINE u == U(j)
  <2>1. u \in 1..m /\ t[j] = s[u] /\ t[Before(j, m - 1)] = s[U(Before(j, m - 1))]
    BY <1>2, <1>3
  <2>2. /\ U(Before(j, m - 1)) = IF Before(u, m) = i THEN Before(i, m) ELSE Before(u, m)
        /\ u = After(i, m) <=> Before(u, m) = i
    BY <1>3
  <2> HIDE DEF u
  <2>3. s[u] = s[After(i, m)] <=> u = After(i, m)
    BY <1>1, <1>4, <2>1
  <2>4. s[u] \in Node /\ prev[s[u]] = s[Before(u, m)]
    BY <1>1, <2>1 DEF Lists
  <2>5. CASE Before(u, m) = i
    <3>1. s[u] = s[After(i, m)] /\ U(Before(j, m - 1)) = Before(i, m)
      BY <2>2, <2>3, <2>5
    <3>2. prev'[s[u]] = s[Before(i, m)]
      BY <2>4, <3>1 DEF TypeOK
    <3> QED
      BY <2>1, <3>1, <3>2
  <2>6. CASE Before(u, m) # i
    <3>1. s[u] # s[After(i, m)] /\ U(Before(j, m - 1)) = Before(u, m)
      BY <2>2, <2>3, <2>6
    <3>2. prev'[s[u]] = s[Before(u, m)]
      BY <2>4, <3>1 DEF TypeOK
    <3> QED
      BY <2>1, <3>1, <3>2
  <2> QED
    BY <2>5, <2>6
<1>9. root' = IF m - 1 = 0 THEN NULL ELSE t[1]
  <2>1. CASE i > 1
    <3>1. root' = s[1] /\ m - 1 # 0 /\ 1 \in 1..(m - 1) /\ U(1) = 1
      BY <1>1, <2>1 DEF RootAfter
    <3> QED
      BY <1>2, <3>1
  <2>2. CASE i = 1
    <3>1. next[root] = s[After(1, m)] /\ (next[root] = root <=> After(1, m) = 1)
      BY <1>1, <1>4, <2>2 DEF Lists
    <3>2. CASE m = 1
      <4>1. After(1, m) = 1
        BY <3>2 DEF After
      <4>2. root' = NULL
        BY <2>2, <3>1, <4>1 DEF RootAfter
      <4> QED
        BY <3>2, <4>2
    <3>3. CASE m # 1
      <4>1. After(1, m) = 2 /\ m - 1 # 0 /\ 1 \in 1..(m - 1) /\ U(1) = 2
        <5>1. m \in Nat /\ m # 0 /\ m # 1
          BY <1>1, <3>3
        <5>2. After(1, m) = 2
          BY <3>3 DEF After
        <5>3. m - 1 # 0 /\ 1 \in 1..(m - 1)
          <6> HIDE DEF m
          <6> QED
            BY <5>1
        <5> QED
          BY <2>2, <5>2, <5>3
      <4>2. root' = s[2]
        BY <2>2, <3>1, <4>1 DEF RootAfter
      <4> QED
        BY <1>2, <4>1, <4>2
    <3> QED
      BY <3>2, <3>3
  <2> QED
    BY <1>1, <2>1, <2>2
<1> HIDE DEF m, U
<1>10. Len(t) = m - 1
  BY <1>2
<1> QED
  BY <1>5, <1>6, <1>7, <1>8, <1>9, <1>10 DEF Lists

(* The part of the type invariant that is about the heap.                    *)
HeapOK ==
  /\ next \in [Node -> Node \cup {NULL}] /\ prev \in [Node -> Node \cup {NULL}]
  /\ key \in [Node -> Key]
  /\ live \subseteq Node /\ root \in live \cup {NULL}

(* ring_remove leaves a ring without the key alone and cuts the first node   *)
(* with the key out of another.                                              *)
LEMMA RemoveFirstOf ==
  ASSUME TypeOK, NEW s, Lists(s), NEW k, ring_remove(k)
  PROVE  \/ /\ \A i \in 1..Len(s) : key[s[i]] # k
            /\ UNCHANGED <<heap, root>>
         \/ \E i \in 1..Len(s), t \in Seq(Node) :
              /\ key[s[i]] = k
              /\ \A j \in 1..Len(s) : key[s[j]] = k => i <= j
              /\ CutAt(t, s, i)
              /\ Lists(t)'
              /\ live' = live \ {s[i]} /\ key' = key /\ HeapOK'
<1>1. /\ s \in Seq(Node) /\ Len(s) \in Nat
      /\ \A i \in 1..Len(s) : s[i] \in live /\ s[i] \in Node
      /\ Len(s) # 0 => root = s[1]
      /\ ring_count = Len(s)
  BY Listed, AllVisited
<1>2. CASE Meets(k) = {}
  <2>1. UNCHANGED <<heap, root>>
    BY <1>2 DEF ring_remove
  <2>2. ASSUME NEW i \in 1..Len(s) PROVE key[s[i]] # k
    <3>1. Visited[i] = s[i]
      BY <1>1, Visits
    <3> QED
      BY <1>1, <1>2, <3>1 DEF Meets
  <2> QED
    BY <2>1, <2>2
<1>3. CASE Meets(k) # {}
  <2>1. PICK i \in Meets(k) :
          /\ \A j \in Meets(k) : i <= j
          /\ LET n == Visited[i]
                 before == IF i = 1 THEN prev[n] ELSE Visited[i - 1]
             IN  /\ next' = [next EXCEPT ![before] = next[n]]
                 /\ prev' = [prev EXCEPT ![next[n]] = before]
                 /\ live' = live \ {n}
          /\ root' = RootAfter(i)
          /\ UNCHANGED key
    BY <1>3 DEF ring_remove
  <2>2. i \in 1..Len(s) /\ Len(s) # 0
    BY <1>1, <2>1 DEF Meets
  <2>3. \A j \in 1..Len(s) : Visited[j] = s[j]
    BY <2>2, Visits
  <2>4. /\ key[s[i]] = k
        /\ \A j \in 1..Len(s) : key[s[j]] = k => i <= j
    BY <1>1, <2>1, <2>2, <2>3 DEF Meets
  <2>5. /\ Before(i, Len(s)) \in 1..Len(s) /\ After(i, Len(s)) \in 1..Len(s)
        /\ next[s[i]] = s[After(i, Len(s))] /\ prev[s[i]] = s[Before(i, Len(s))]
    BY <1>1, <2>2, Places DEF Lists
  <2>6. (IF i = 1 THEN prev[Visited[i]] ELSE Visited[i - 1]) = s[Before(i, Len(s))]
    <3>1. CASE i = 1
      BY <2>2, <2>3, <2>5, <3>1
    <3>2. CASE i # 1
      <4>1. i - 1 \in 1..Len(s) /\ Before(i, Len(s)) = i - 1
        BY <1>1, <2>2, <3>2 DEF Before
      <4> QED
        BY <2>3, <3>2, <4>1
    <3> QED
      BY <3>1, <3>2
  <2>7. /\ next' = [next EXCEPT ![s[Before(i, Len(s))]] = s[After(i, Len(s))]]
        /\ prev' = [prev EXCEPT ![s[After(i, Len(s))]] = s[Before(i, Len(s))]]
        /\ live' = live \ {s[i]} /\ root' = RootAfter(i) /\ key' = key
    BY <2>1, <2>2, <2>3, <2>5, <2>6
  <2> DEFINE t == [j \in 1..(Len(s) - 1) |-> s[IF j < i THEN j ELSE j + 1]]
  <2>8. t \in Seq(Node) /\ CutAt(t, s, i)
    <3>1. Len(s) - 1 \in Nat
      BY <1>1, <2>2
    <3>2. \A j \in 1..(Len(s) - 1) : (IF j < i THEN j ELSE j + 1) \in 1..Len(s)
      BY <1>1, <2>2
    <3>3. \A j \in 1..(Len(s) - 1) : s[IF j < i THEN j ELSE j + 1] \in Node
      BY <1>1, <3>2
    <3>4. t \in Seq(Node) /\ Len(t) = Len(s) - 1
      BY <3>1, <3>3
    <3> QED
      BY <3>4 DEF CutAt
  <2> HIDE DEF t
  <2>9. Lists(t)'
    BY <2>2, <2>7, <2>8, RemovePlace
  <2>10. HeapOK'
    <3>1. /\ next' \in [Node -> Node \cup {NULL}] /\ prev' \in [Node -> Node \cup {NULL}]
          /\ key' \in [Node -> Key] /\ live' \subseteq Node
      BY <1>1, <2>5, <2>7 DEF TypeOK
    <3>2. root' \in live' \cup {NULL}
      BY <2>9, <2>8 DEF Lists
    <3> QED
      BY <3>1, <3>2 DEF HeapOK
  <2> QED
    BY <2>2, <2>4, <2>7, <2>8, <2>9, <2>10
<1> QED
  BY <1>2, <1>3

(* ring_append puts a new node behind the last.                              *)
LEMMA AppendBehind ==
  ASSUME TypeOK, NEW s, Lists(s), NEW k \in Key, ring_append(k)
  PROVE  \E n \in Node \ live, t \in Seq(Node) :
           /\ With(t, s, n) /\ Lists(t)' /\ HeapOK'
           /\ live' = live \cup {n} /\ key' = [key EXCEPT ![n] = k]
<1> DEFINE m == Len(s)
<1>1. /\ s \in Seq(Node) /\ m \in Nat
      /\ \A i \in 1..m : s[i] \in live /\ s[i] \in Node
      /\ (root = NULL <=> m = 0)
      /\ (m # 0 => root = s[1] /\ 1 \in 1..m /\ m \in 1..m)
      /\ \A i, j \in 1..m : s[i] = s[j] => i = j
  BY Listed DEF Lists
<1>2. PICK n \in Node \ live :
        /\ live' = live \cup {n}
        /\ key' = [key EXCEPT ![n] = k]
        /\ IF root = NULL
           THEN /\ root' = n
                /\ next' = [next EXCEPT ![n] = n] /\ prev' = [prev EXCEPT ![n] = n]
           ELSE PushBefore(n) /\ UNCHANGED root
  BY DEF ring_append
<1> DEFINE t == Append(s, n)
<1>3. /\ t \in Seq(Node) /\ Len(t) = m + 1 /\ t[m + 1] = n
      /\ \A i \in 1..m : t[i] = s[i] /\ t[i] # n
  BY <1>1
<1>4. With(t, s, n)
  BY <1>3 DEF With
<1> HIDE DEF t
<1>5. \A x : x \in live' <=> \E i \in 1..(m + 1) : t[i] = x
  <2>1. ASSUME NEW x \in live' PROVE \E i \in 1..(m + 1) : t[i] = x
    <3>1. CASE x = n
      <4>1. m + 1 \in 1..(m + 1)
        BY <1>1
      <4> QED
        BY <1>3, <3>1, <4>1
    <3>2. CASE x \in live
      <4>1. PICK i \in 1..m : s[i] = x
        BY <3>2 DEF Lists
      <4>2. i \in 1..(m + 1) /\ t[i] = x
        BY <1>1, <1>3, <4>1
      <4> QED
        BY <4>2
    <3> QED
      BY <1>2, <3>1, <3>2
  <2>2. ASSUME NEW i \in 1..(m + 1) PROVE t[i] \in live'
    <3>1. i = m + 1 \/ i \in 1..m
      BY <1>1
    <3> QED
      BY <1>1, <1>2, <1>3, <3>1
  <2> QED
    BY <2>1, <2>2
<1>6. \A i, j \in 1..(m + 1) : t[i] = t[j] => i = j
  <2> SUFFICES ASSUME NEW i \in 1..(m + 1), NEW j \in 1..(m + 1), t[i] = t[j] PROVE i = j
    OBVIOUS
  <2>1. (i = m + 1 \/ i \in 1..m) /\ (j = m + 1 \/ j \in 1..m)
    BY <1>1
  <2> QED
    BY <1>1, <1>3, <2>1
<1>7. /\ \A i \in 1..(m + 1) : next'[t[i]] = t[After(i, m + 1)]
      /\ \A i \in 1..(m + 1) : prev'[t[i]] = t[Before(i, m + 1)]
      /\ root' = t[1]
      /\ next' \in [Node -> Node \cup {NULL}] /\ prev' \in [Node -> Node \cup {NULL}]
  <2>1. CASE m = 0
    <3>1. /\ root' = n
          /\ next' = [next EXCEPT ![n] = n] /\ prev' = [prev EXCEPT ![n] = n]
      BY <1>1, <1>2, <2>1
    <3>2. next'[n] = n /\ prev'[n] = n
      BY <3>1 DEF TypeOK
    <3>3. \A i \in 1..(m + 1) : i = 1 /\ After(i, m + 1) = 1 /\ Before(i, m + 1) = 1
      BY <2>1 DEF After, Before
    <3>4. t[1] = n
      BY <1>3, <2>1
    <3> QED
      BY <3>1, <3>2, <3>3, <3>4 DEF TypeOK
  <2>2. CASE m # 0
    <3>1. prev[root] = s[m]
      BY <1>1, <2>2 DEF Lists, Before
    <3>2. /\ prev' = [prev EXCEPT ![n] = s[m], ![s[1]] = n]
          /\ next' = [next EXCEPT ![s[m]] = n, ![n] = s[1]]
          /\ root' = s[1]
      BY <1>1, <1>2, <2>2, <3>1 DEF PushBefore
    <3>3. n \in Node /\ s[1] \in Node /\ s[m] \in Node /\ n # s[1] /\ n # s[m]
      BY <1>1, <1>2, <2>2
    <3>4. /\ prev'[n] = s[m] /\ prev'[s[1]] = n
          /\ next'[n] = s[1] /\ next'[s[m]] = n
      BY <3>2, <3>3 DEF TypeOK
    <3>5. ASSUME NEW i \in 1..(m + 1) PROVE next'[t[i]] = t[After(i, m + 1)]
      <4>1. CASE i = m + 1
        BY <1>3, <1>1, <2>2, <3>4, <4>1 DEF After
      <4>2. CASE i = m
        <5>1. After(i, m + 1) = m + 1
          BY <1>1, <4>2 DEF After
        <5> QED
          BY <1>1, <1>3, <2>2, <3>4, <4>2, <5>1
      <4>3. CASE i # m /\ i # m + 1
        <5>1. i \in 1..m /\ After(i, m + 1) = i + 1 /\ After(i, m) = i + 1 /\ i + 1 \in 1..m
          BY <1>1, <4>3 DEF After
        <5>2. s[i] # s[m] /\ s[i] # n /\ s[i] \in Node
          BY <1>1, <1>2, <2>2, <4>3, <5>1
        <5>3. next'[s[i]] = next[s[i]]
          BY <3>2, <5>2 DEF TypeOK
        <5>4. next[s[i]] = s[i + 1]
          BY <5>1 DEF Lists
        <5> QED
          BY <1>3, <5>1, <5>3, <5>4
      <4> QED
        BY <4>1, <4>2, <4>3
    <3>6. ASSUME NEW i \in 1..(m + 1) PROVE prev'[t[i]] = t[Before(i, m + 1)]
      <4>1. CASE i = m + 1
        <5>1. Before(i, m + 1) = m
          BY <1>1, <2>2, <4>1 DEF Before
        <5> QED
          BY <1>3, <1>1, <2>2, <3>4, <4>1, <5>1
      <4>2. CASE i = 1
        <5>1. Before(i, m + 1) = m + 1
          BY <4>2 DEF Before
        <5> QED
          BY <1>1, <1>3, <2>2, <3>4, <4>2, <5>1
      <4>3. CASE i # 1 /\ i # m + 1
        <5>1. i \in 1..m /\ Before(i, m + 1) = i - 1 /\ Before(i, m) = i - 1 /\ i - 1 \in 1..m
          BY <1>1, <4>3 DEF Before
        <5>2. s[i] # s[1] /\ s[i] # n /\ s[i] \in Node
          BY <1>1, <1>2, <2>2, <4>3, <5>1
        <5>3. prev'[s[i]] = prev[s[i]]
          BY <3>2, <5>2 DEF TypeOK
        <5>4. prev[s[i]] = s[i - 1]
          BY <5>1 DEF Lists
        <5> QED
          BY <1>3, <5>1, <5>3, <5>4
      <4> QED
        BY <4>1, <4>2, <4>3
    <3>7. next' \in [Node -> Node \cup {NULL}] /\ prev' \in [Node -> Node \cup {NULL}]
      BY <3>2, <3>3 DEF TypeOK
    <3>8. root' = t[1]
      BY <1>1, <1>3, <2>2, <3>2
    <3> QED
      BY <3>5, <3>6, <3>7, <3>8
  <2> QED
    BY <2>1, <2>2
<1>8. HeapOK'
  <2>1. 1 \in 1..(m + 1) /\ t[1] \in live'
    BY <1>1, <1>5
  <2>2. key' \in [Node -> Key] /\ live' \subseteq Node
    BY <1>2 DEF TypeOK
  <2> QED
    BY <1>7, <2>1, <2>2 DEF HeapOK
<1>9. Lists(t)'
  <2>1. m + 1 # 0 /\ Len(t) = m + 1
    BY <1>1, <1>3
  <2> HIDE DEF m
  <2> QED
    BY <1>3, <1>5, <1>6, <1>7, <2>1 DEF Lists
<1> QED
  BY <1>2, <1>3, <1>4, <1>8, <1>9

(* The root moves on, or back.                                               *)
LEMMA MoveOn ==
  ASSUME TypeOK, NEW s, Lists(s), root # NULL, root' = next[root], UNCHANGED heap
  PROVE  \E t \in Seq(Node) : Forth(t, s) /\ Lists(t)' /\ HeapOK'
<1> DEFINE m == Len(s)
<1>1. /\ s \in Seq(Node) /\ m \in Nat /\ m # 0
      /\ \A i \in 1..m : s[i] \in live /\ s[i] \in Node
      /\ root = s[1] /\ 1 \in 1..m
      /\ \A i, j \in 1..m : s[i] = s[j] => i = j
  BY Listed DEF Lists
<1>2. \A i \in 1..m : /\ After(i, m) \in 1..m /\ Before(i, m) \in 1..m
                      /\ Before(After(i, m), m) = i /\ After(Before(i, m), m) = i
  BY <1>1, Places
<1> DEFINE t == [i \in 1..m |-> s[After(i, m)]]
<1>3. t \in Seq(Node) /\ Len(t) = m /\ \A i \in 1..m : t[i] = s[After(i, m)]
  <2>1. \A i \in 1..m : s[After(i, m)] \in Node
    BY <1>1, <1>2
  <2> QED
    BY <1>1, <2>1
<1> HIDE DEF t
<1>4. \A x : x \in live' <=> \E i \in 1..m : t[i] = x
  <2>1. ASSUME NEW x \in live PROVE \E i \in 1..m : t[i] = x
    <3>1. PICK i \in 1..m : s[i] = x
      BY DEF Lists
    <3>2. Before(i, m) \in 1..m /\ t[Before(i, m)] = x
      BY <1>2, <1>3, <3>1
    <3> QED
      BY <3>2
  <2>2. \A i \in 1..m : t[i] \in live
    BY <1>1, <1>2, <1>3
  <2> QED
    BY <2>1, <2>2 DEF heap
<1>5. \A i, j \in 1..m : t[i] = t[j] => i = j
  <2> SUFFICES ASSUME NEW i \in 1..m, NEW j \in 1..m, t[i] = t[j] PROVE i = j
    OBVIOUS
  <2>1. After(i, m) = After(j, m)
    BY <1>1, <1>2, <1>3
  <2> QED
    BY <1>2, <2>1
<1>6. \A i \in 1..m : next'[t[i]] = t[After(i, m)]
  <2> SUFFICES ASSUME NEW i \in 1..m PROVE next[t[i]] = t[After(i, m)]
    BY DEF heap
  <2>1. After(i, m) \in 1..m /\ t[i] = s[After(i, m)]
    BY <1>2, <1>3
  <2>2. next[s[After(i, m)]] = s[After(After(i, m), m)]
    BY <2>1 DEF Lists
  <2>3. After(i, m) \in 1..m /\ t[After(i, m)] = s[After(After(i, m), m)]
    BY <1>2, <1>3
  <2>4. After(After(i, m), m) = After(After(i, m), m)
    BY <1>2
  <2> QED
    BY <2>1, <2>2, <2>3, <2>4
<1>7. \A i \in 1..m : prev'[t[i]] = t[Before(i, m)]
  <2> SUFFICES ASSUME NEW i \in 1..m PROVE prev[t[i]] = t[Before(i, m)]
    BY DEF heap
  <2>1. After(i, m) \in 1..m /\ t[i] = s[After(i, m)]
    BY <1>2, <1>3
  <2>2. prev[s[After(i, m)]] = s[Before(After(i, m), m)]
    BY <2>1 DEF Lists
  <2>3. Before(i, m) \in 1..m /\ t[Before(i, m)] = s[After(Before(i, m), m)]
    BY <1>2, <1>3
  <2>4. Before(After(i, m), m) = After(Before(i, m), m)
    BY <1>2
  <2> QED
    BY <2>1, <2>2, <2>3, <2>4
<1>8. root' = t[1]
  BY <1>1, <1>3 DEF Lists
<1>9. Lists(t)'
  <2> HIDE DEF m
  <2> QED
    BY <1>1, <1>3, <1>4, <1>5, <1>6, <1>7, <1>8 DEF Lists
<1>10. HeapOK'
  <2>1. t[1] \in live'
    BY <1>1, <1>4
  <2> QED
    BY <1>8, <2>1 DEF HeapOK, TypeOK, heap
<1> QED
  BY <1>3, <1>9, <1>10 DEF Forth

LEMMA MoveBack ==
  ASSUME TypeOK, NEW s, Lists(s), root # NULL, root' = prev[root], UNCHANGED heap
  PROVE  \E t \in Seq(Node) : Back(t, s) /\ Lists(t)' /\ HeapOK'
<1> DEFINE m == Len(s)
<1>1. /\ s \in Seq(Node) /\ m \in Nat /\ m # 0
      /\ \A i \in 1..m : s[i] \in live /\ s[i] \in Node
      /\ root = s[1] /\ 1 \in 1..m
      /\ \A i, j \in 1..m : s[i] = s[j] => i = j
  BY Listed DEF Lists
<1>2. \A i \in 1..m : /\ After(i, m) \in 1..m /\ Before(i, m) \in 1..m
                      /\ Before(After(i, m), m) = i /\ After(Before(i, m), m) = i
  BY <1>1, Places
<1> DEFINE t == [i \in 1..m |-> s[Before(i, m)]]
<1>3. t \in Seq(Node) /\ Len(t) = m /\ \A i \in 1..m : t[i] = s[Before(i, m)]
  <2>1. \A i \in 1..m : s[Before(i, m)] \in Node
    BY <1>1, <1>2
  <2> QED
    BY <1>1, <2>1
<1> HIDE DEF t
<1>4. \A x : x \in live' <=> \E i \in 1..m : t[i] = x
  <2>1. ASSUME NEW x \in live PROVE \E i \in 1..m : t[i] = x
    <3>1. PICK i \in 1..m : s[i] = x
      BY DEF Lists
    <3>2. After(i, m) \in 1..m /\ t[After(i, m)] = x
      BY <1>2, <1>3, <3>1
    <3> QED
      BY <3>2
  <2>2. \A i \in 1..m : t[i] \in live
    BY <1>1, <1>2, <1>3
  <2> QED
    BY <2>1, <2>2 DEF heap
<1>5. \A i, j \in 1..m : t[i] = t[j] => i = j
  <2> SUFFICES ASSUME NEW i \in 1..m, NEW j \in 1..m, t[i] = t[j] PROVE i = j
    OBVIOUS
  <2>1. Before(i, m) = Before(j, m)
    BY <1>1, <1>2, <1>3
  <2> QED
    BY <1>2, <2>1
<1>6. \A i \in 1..m : next'[t[i]] = t[After(i, m)]
  <2> SUFFICES ASSUME NEW i \in 1..m PROVE next[t[i]] = t[After(i, m)]
    BY DEF heap
  <2>1. Before(i, m) \in 1..m /\ t[i] = s[Before(i, m)]
    BY <1>2, <1>3
  <2>2. next[s[Before(i, m)]] = s[After(Before(i, m), m)]
    BY <2>1 DEF Lists
  <2>3. After(i, m) \in 1..m /\ t[After(i, m)] = s[Before(After(i, m), m)]
    BY <1>2, <1>3
  <2>4. After(Before(i, m), m) = Before(After(i, m), m)
    BY <1>2
  <2> QED
    BY <2>1, <2>2, <2>3, <2>4
<1>7. \A i \in 1..m : prev'[t[i]] = t[Before(i, m)]
  <2> SUFFICES ASSUME NEW i \in 1..m PROVE prev[t[i]] = t[Before(i, m)]
    BY DEF heap
  <2>1. Before(i, m) \in 1..m /\ t[i] = s[Before(i, m)]
    BY <1>2, <1>3
  <2>2. prev[s[Before(i, m)]] = s[Before(Before(i, m), m)]
    BY <2>1 DEF Lists
  <2>3. Before(i, m) \in 1..m /\ t[Before(i, m)] = s[Before(Before(i, m), m)]
    BY <1>2, <1>3
  <2>4. Before(Before(i, m), m) = Before(Before(i, m), m)
    BY <1>2
  <2> QED
    BY <2>1, <2>2, <2>3, <2>4
<1>8. root' = t[1]
  BY <1>1, <1>3 DEF Lists
<1>9. Lists(t)'
  <2> HIDE DEF m
  <2> QED
    BY <1>1, <1>3, <1>4, <1>5, <1>6, <1>7, <1>8 DEF Lists
<1>10. HeapOK'
  <2>1. t[1] \in live'
    BY <1>1, <1>4
  <2> QED
    BY <1>8, <2>1 DEF HeapOK, TypeOK, heap
<1> QED
  BY <1>3, <1>9, <1>10 DEF Back

-----------------------------------------------------------------------------
(* What a refusal does: the cursor moves from its place to the next one, and *)
(* the place that is cut out, not behind the one it was on, is not the one   *)
(* it moves to.                                                              *)
LEMMA RefusedStep ==
  ASSUME TypeOK, CursorLive, NEW s, Lists(s), Refused
  PROVE  \E p \in 1..Len(s), i \in 1..Len(s), t \in Seq(Node) :
           /\ s[p] = aux /\ key[s[i]] = key[s[p]]
           /\ \A j \in 1..Len(s) : key[s[j]] = key[s[p]] => i <= j
           /\ i <= p /\ After(p, Len(s)) # i
           /\ (walk = "check" => p # Len(s)) /\ (walk = "tell" => p # 1 /\ i # 1)
           /\ CutAt(t, s, i) /\ Lists(t)' /\ HeapOK'
           /\ aux' = s[After(p, Len(s))] /\ walk' = walk
           /\ live' = live \ {s[i]} /\ key' = key
<1>1. /\ s \in Seq(Node) /\ Len(s) \in Nat
      /\ \A i \in 1..Len(s) : s[i] \in live /\ s[i] \in Node
      /\ Len(s) # 0 => root = s[1] /\ 1 \in 1..Len(s)
      /\ \A i, j \in 1..Len(s) : s[i] = s[j] => i = j
  BY Listed DEF Lists
<1>2. aux \in live /\ walk \in {"check", "tell"}
  BY DEF Refused, CursorLive, TypeOK
<1>3. PICK p \in 1..Len(s) : s[p] = aux
  BY <1>2 DEF Lists
<1>4. /\ After(p, Len(s)) \in 1..Len(s) /\ Before(After(p, Len(s)), Len(s)) = p
      /\ next[aux] = s[After(p, Len(s))]
      /\ Len(s) # 0
  <2>1. After(p, Len(s)) \in 1..Len(s) /\ Before(After(p, Len(s)), Len(s)) = p
    BY <1>1, Places
  <2>2. next[aux] = s[After(p, Len(s))]
    BY <1>3 DEF Lists
  <2>3. Len(s) # 0
    BY <1>1
  <2> QED
    BY <2>1, <2>2, <2>3
<1>5. prev[next[aux]] = s[p]
  BY <1>4 DEF Lists
<1>6. ring_remove(key[s[p]])
  BY <1>5 DEF Refused, Dropped
<1>7. PICK i \in 1..Len(s), t \in Seq(Node) :
        /\ key[s[i]] = key[s[p]]
        /\ \A j \in 1..Len(s) : key[s[j]] = key[s[p]] => i <= j
        /\ CutAt(t, s, i)
        /\ Lists(t)'
        /\ live' = live \ {s[i]} /\ key' = key /\ HeapOK'
  BY <1>6, RemoveFirstOf
<1>8. i <= p
  BY <1>7
<1>9. walk = "check" => p # Len(s)
  <2>1. walk = "check" => next[aux] # root
    BY DEF Refused, Over
  <2> QED
    BY <1>1, <1>4, <2>1 DEF After
<1>10. walk = "tell" => p # 1 /\ i # 1
  <2> SUFFICES ASSUME walk = "tell" PROVE p # 1 /\ i # 1
    OBVIOUS
  <2>1. aux # root /\ key[aux] # key[root]
    BY DEF Refused, Over
  <2> QED
    BY <1>1, <1>3, <1>4, <1>7, <2>1
<1>11. After(p, Len(s)) # i
  <2>1. CASE p = Len(s)
    <3>1. walk = "tell" /\ After(p, Len(s)) = 1
      BY <1>2, <1>9, <2>1 DEF After
    <3> QED
      BY <1>10, <3>1
  <2>2. CASE p # Len(s)
    BY <1>1, <1>8, <2>2 DEF After
  <2> QED
    BY <2>1, <2>2
<1>12. aux' = s[After(p, Len(s))] /\ walk' = walk
  BY <1>4 DEF Refused
<1> QED
  BY <1>3, <1>7, <1>8, <1>9, <1>10, <1>11, <1>12

LEMMA HeapStep == HeapInv /\ [Next]_vars => HeapInv'
<1> SUFFICES ASSUME HeapInv, [Next]_vars PROVE HeapInv'
  OBVIOUS
<1>1. TypeOK /\ CursorLive
  BY DEF HeapInv
<1>2. PICK s : Lists(s)
  BY DEF HeapInv
<1>3. /\ s \in Seq(Node) /\ Len(s) \in Nat
      /\ \A i \in 1..Len(s) : s[i] \in live /\ s[i] \in Node
      /\ (root = NULL <=> Len(s) = 0)
      /\ (Len(s) # 0 => root = s[1] /\ 1 \in 1..Len(s))
  BY <1>1, <1>2, Listed
<1>4. ASSUME NEW t, Lists(t)', HeapOK', walk' \in {"none", "check", "tell"},
             aux' \in Node \cup {NULL}, walk' # "none" => aux' \in live'
      PROVE  HeapInv'
  <2>1. TypeOK'
    BY <1>4 DEF TypeOK, HeapOK
  <2>2. CursorLive'
    BY <1>4 DEF CursorLive
  <2>3. \E x : Lists(x)'
    BY <1>4
  <2> QED
    BY <2>1, <2>2, <2>3 DEF HeapInv
<1>5. UNCHANGED <<heap, root>> => Lists(s)' /\ HeapOK'
  BY <1>1, <1>2 DEF heap, Lists, HeapOK, TypeOK
<1>6. CASE Change
  <2>1. walk = "none" /\ walk' = walk /\ aux' = aux /\ aux' \in Node \cup {NULL}
    BY <1>1, <1>6 DEF Change, TypeOK
  <2>2. ASSUME NEW k \in Key, ring_append(k) PROVE HeapInv'
    BY <1>1, <1>2, <1>4, <2>1, <2>2, AppendBehind
  <2>3. ASSUME NEW k \in Key, ring_remove(k) PROVE HeapInv'
    BY <1>1, <1>2, <1>4, <1>5, <2>1, <2>3, RemoveFirstOf
  <2>4. CASE root # NULL /\ root' = next[root] /\ UNCHANGED heap
    BY <1>1, <1>2, <1>4, <2>1, <2>4, MoveOn
  <2>5. CASE root # NULL /\ root' = prev[root] /\ UNCHANGED heap
    BY <1>1, <1>2, <1>4, <2>1, <2>5, MoveBack
  <2> QED
    BY <1>6, <2>2, <2>3, <2>4, <2>5 DEF Change
<1>7. CASE Begin
  <2>1. /\ root # NULL /\ UNCHANGED <<heap, root>> /\ walk' \in {"check", "tell"}
        /\ (aux' = root \/ aux' = next[root]) /\ live' = live
    BY <1>7 DEF Begin, heap
  <2>2. /\ 1 \in 1..Len(s) /\ root = s[1] /\ After(1, Len(s)) \in 1..Len(s)
        /\ next[s[1]] = s[After(1, Len(s))]
    BY <1>2, <1>3, <2>1, Places DEF Lists
  <2>3. aux' \in live /\ aux' \in Node
    BY <1>3, <2>1, <2>2
  <2> QED
    BY <1>4, <1>5, <2>1, <2>3
<1>8. CASE Online
  <2>1. walk # "none" /\ UNCHANGED <<heap, root>> /\ walk' = walk /\ aux' = next[aux] /\ live' = live
    BY <1>8 DEF Online, heap
  <2>2. PICK p \in 1..Len(s) : s[p] = aux
    BY <1>1, <1>2, <2>1 DEF CursorLive, Lists
  <2>3. After(p, Len(s)) \in 1..Len(s) /\ next[s[p]] = s[After(p, Len(s))]
    BY <1>2, <1>3, Places DEF Lists
  <2>4. aux' \in live /\ aux' \in Node /\ walk' \in {"none", "check", "tell"}
    BY <1>1, <1>3, <2>1, <2>2, <2>3 DEF TypeOK
  <2> QED
    BY <1>4, <1>5, <2>1, <2>4
<1>9. CASE Refused
  <2>1. PICK p \in 1..Len(s), i \in 1..Len(s), t \in Seq(Node) :
           /\ After(p, Len(s)) # i
           /\ Lists(t)' /\ HeapOK'
           /\ aux' = s[After(p, Len(s))] /\ walk' = walk
           /\ live' = live \ {s[i]}
    BY <1>1, <1>2, <1>9, RefusedStep
  <2>2. After(p, Len(s)) \in 1..Len(s)
    BY <1>3, Places
  <2>3. s[After(p, Len(s))] # s[i] /\ s[After(p, Len(s))] \in live /\ s[After(p, Len(s))] \in Node
    BY <1>2, <1>3, <2>1, <2>2 DEF Lists
  <2>4. walk' \in {"none", "check", "tell"} /\ aux' \in Node /\ aux' \in live'
    BY <1>1, <2>1, <2>3 DEF TypeOK
  <2> QED
    BY <1>4, <2>1, <2>4
<1>10. CASE End
  <2>1. walk' = "none" /\ aux' = NULL /\ UNCHANGED <<heap, root>>
    BY <1>10 DEF End
  <2> QED
    BY <1>4, <1>5, <2>1
<1>11. CASE UNCHANGED vars
  <2>1. UNCHANGED <<heap, root>> /\ walk' = walk /\ aux' = aux /\ live' = live
    BY <1>11 DEF vars, heap
  <2>2. walk' \in {"none", "check", "tell"} /\ aux' \in Node \cup {NULL} /\ (walk' # "none" => aux' \in live')
    BY <1>1, <2>1 DEF TypeOK, CursorLive
  <2> QED
    BY <1>4, <1>5, <2>1, <2>2
<1> QED
  BY <1>6, <1>7, <1>8, <1>9, <1>10, <1>11 DEF Next

(* A heap in the order of a sequence is one ring.                            *)
LEMMA ListedOneRing == HeapInv => OneRing
<1> SUFFICES ASSUME HeapInv PROVE OneRing
  OBVIOUS
<1>1. TypeOK
  BY DEF HeapInv
<1>2. PICK s : Lists(s)
  BY DEF HeapInv
<1>3. /\ s \in Seq(Node) /\ Len(s) \in Nat
      /\ \A i \in 1..Len(s) : s[i] \in live
      /\ (root = NULL <=> Len(s) = 0)
      /\ (Len(s) # 0 => 1 \in 1..Len(s))
  BY <1>1, <1>2, Listed
<1>4. root = NULL <=> live = {}
  <2>1. Len(s) = 0 => live = {}
    BY <1>2 DEF Lists
  <2> QED
    BY <1>3, <2>1
<1>5. ASSUME NEW n \in live
      PROVE  /\ next[n] \in live /\ prev[next[n]] = n
             /\ prev[n] \in live /\ next[prev[n]] = n
  <2>1. PICK i \in 1..Len(s) : s[i] = n
    BY <1>2 DEF Lists
  <2>2. /\ After(i, Len(s)) \in 1..Len(s) /\ Before(i, Len(s)) \in 1..Len(s)
        /\ Before(After(i, Len(s)), Len(s)) = i /\ After(Before(i, Len(s)), Len(s)) = i
    BY <1>3, Places
  <2> QED
    BY <1>2, <1>3, <2>1, <2>2 DEF Lists
<1>6. root # NULL => {Visited[i] : i \in DOMAIN Visited} = live
  BY <1>1, <1>2, AllVisited
<1> QED
  BY <1>1, <1>4, <1>5, <1>6 DEF OneRing

(* The pointers keep to one ring: next and prev are inverse on the allocated *)
(* nodes and lead nowhere else, and a loop from the root visits all of them, *)
(* whatever is pushed, removed, and made the root (ring_list.c).             *)
THEOREM RingCorrect == Spec => []OneRing
<1>1. HeapInv => OneRing
  BY ListedOneRing
<1> QED
  BY HeapInit, HeapStep, <1>1, PTL DEF Spec

(* The loops over aux never hold a pointer to a freed node, although they    *)
(* free nodes next to it by keys that may occur more than once.              *)
THEOREM CursorCorrect == Spec => []CursorLive
<1>1. HeapInv => CursorLive
  BY DEF HeapInv
<1> QED
  BY HeapInit, HeapStep, <1>1, PTL DEF Spec

-----------------------------------------------------------------------------
(* The pointers implement the sequence.                                      *)

(* The keys are those of the nodes in their order, and the cursor is at the  *)
(* place of its node, behind the last when it is at the root again.          *)
KeysMapped ==
  \A s : TypeOK /\ Lists(s) =>
    /\ Keys \in Seq(Key) /\ Len(Keys) = Len(s)
    /\ \A i \in 1..Len(s) : Keys[i] = key[s[i]]

CursorMapped ==
  \A s : TypeOK /\ Lists(s) =>
    /\ walk = "none" => Cursor = 1
    /\ \A p \in 1..Len(s) : walk # "none" /\ s[p] = aux =>
         Cursor = IF walk = "tell" /\ p = 1 THEN Len(s) + 1 ELSE p

LEMMA KeysAre == KeysMapped
<1> SUFFICES ASSUME NEW s, TypeOK, Lists(s)
             PROVE  /\ Keys \in Seq(Key) /\ Len(Keys) = Len(s)
                    /\ \A i \in 1..Len(s) : Keys[i] = key[s[i]]
  BY DEF KeysMapped
<1>1. /\ Len(s) \in Nat /\ ring_count = Len(s)
      /\ \A i \in 1..Len(s) : s[i] \in Node
  BY Listed, AllVisited
<1>2. \A i \in 1..Len(s) : Visited[i] = s[i]
  BY Visits
<1>3. \A i \in 1..Len(s) : key[Visited[i]] \in Key
  BY <1>1, <1>2 DEF TypeOK
<1>4. Keys = [i \in 1..Len(s) |-> key[Visited[i]]]
  BY <1>1 DEF Keys
<1>5. Keys \in Seq(Key) /\ Len(Keys) = Len(s)
  BY <1>1, <1>3, <1>4
<1>6. \A i \in 1..Len(s) : Keys[i] = key[s[i]]
  BY <1>2, <1>4
<1> QED
  BY <1>5, <1>6

LEMMA CursorIs == CursorMapped
<1> SUFFICES ASSUME NEW s, TypeOK, Lists(s)
             PROVE  /\ walk = "none" => Cursor = 1
                    /\ \A p \in 1..Len(s) : walk # "none" /\ s[p] = aux =>
                         Cursor = IF walk = "tell" /\ p = 1 THEN Len(s) + 1 ELSE p
  BY DEF CursorMapped
<1>1. /\ Len(s) \in Nat /\ ring_count = Len(s)
      /\ Len(s) # 0 => root = s[1] /\ 1 \in 1..Len(s)
      /\ \A i, j \in 1..Len(s) : s[i] = s[j] => i = j
  BY Listed, AllVisited DEF Lists
<1>2. walk = "none" => Cursor = 1
  BY DEF Cursor
<1>3. ASSUME NEW p \in 1..Len(s), walk # "none", s[p] = aux
      PROVE  Cursor = IF walk = "tell" /\ p = 1 THEN Len(s) + 1 ELSE p
  <2>1. Len(s) # 0 /\ (aux = root <=> p = 1)
    BY <1>1, <1>3
  <2>2. \A i \in 1..Len(s) : Visited[i] = s[i]
    BY <2>1, Visits
  <2>3. \A i \in 1..Len(s) : Visited[i] = aux <=> i = p
    BY <1>1, <1>3, <2>2
  <2>4. (CHOOSE i \in 1..ring_count : Visited[i] = aux) = p
    BY <1>1, <2>3
  <2> QED
    BY <1>1, <1>3, <2>1, <2>4 DEF Cursor, Position
<1> QED
  BY <1>2, <1>3

LEMMA MappedNext == KeysMapped' /\ CursorMapped'
BY KeysAre, CursorIs, PTL

(* The operations on sequences, place by place.                              *)
LEMMA ForthSeq ==
  ASSUME NEW S, NEW r \in Seq(S), Len(r) # 0, NEW q \in Seq(S), Forth(q, r)
  PROVE  q = Append(Tail(r), Head(r))
<1> DEFINE a == Append(Tail(r), Head(r))
<1>1. Len(r) \in Nat /\ r # <<>>
  OBVIOUS
<1>2. /\ Tail(r) \in Seq(S) /\ Len(Tail(r)) = Len(r) - 1 /\ Head(r) = r[1] /\ Head(r) \in S
      /\ \A i \in 1..(Len(r) - 1) : Tail(r)[i] = r[i + 1]
  BY <1>1
<1>3. a \in Seq(S) /\ Len(a) = Len(r) /\ a[Len(r)] = r[1]
  BY <1>1, <1>2
<1>4. \A i \in 1..(Len(r) - 1) : a[i] = r[i + 1]
  BY <1>1, <1>2
<1> HIDE DEF a
<1>5. \A i \in 1..Len(r) : q[i] = a[i]
  <2> SUFFICES ASSUME NEW i \in 1..Len(r) PROVE q[i] = a[i]
    OBVIOUS
  <2>1. q[i] = r[After(i, Len(r))]
    BY DEF Forth
  <2>2. CASE i = Len(r)
    BY <1>3, <2>1, <2>2 DEF After
  <2>3. CASE i # Len(r)
    <3>1. i \in 1..(Len(r) - 1) /\ After(i, Len(r)) = i + 1
      BY <1>1, <2>3 DEF After
    <3> QED
      BY <1>4, <2>1, <3>1
  <2> QED
    BY <2>2, <2>3
<1>6. Len(q) = Len(r)
  BY DEF Forth
<1>7. q = a
  BY <1>3, <1>5, <1>6, SeqEqual
<1> QED
  BY <1>7 DEF a

LEMMA BackSeq ==
  ASSUME NEW S, NEW r \in Seq(S), Len(r) # 0, NEW q \in Seq(S), Back(q, r)
  PROVE  q = <<Sequence!Last(r)>> \o Sequence!Front(r)
<1> DEFINE f == SubSeq(r, 1, Len(r) - 1)
           a == <<r[Len(r)]>> \o f
<1>1. Len(r) \in Nat /\ Len(r) \in 1..Len(r) /\ r[Len(r)] \in S
  OBVIOUS
<1>2. /\ f \in Seq(S) /\ Len(f) = Len(r) - 1
      /\ \A i \in 1..(Len(r) - 1) : f[i] = r[i]
  <2>1. \A i \in 1..(Len(r) - 1) : r[i] \in S
    OBVIOUS
  <2>2. 1 \in Int /\ Len(r) - 1 \in Int
    BY <1>1
  <2>3. /\ f \in Seq(S)
        /\ Len(f) = IF 1 <= Len(r) - 1 THEN (Len(r) - 1) - 1 + 1 ELSE 0
        /\ \A i \in 1..((Len(r) - 1) - 1 + 1) : f[i] = r[1 + i - 1]
    BY <2>1, <2>2, SubSeqProperties
  <2> HIDE DEF f
  <2>4. Len(f) = Len(r) - 1
    <3>1. Len(r) \in Nat /\ Len(r) # 0
      BY <1>1
    <3>2. CASE Len(r) = 1
      <4>1. ~(1 <= Len(r) - 1) /\ Len(r) - 1 = 0
        BY <3>2
      <4> QED
        BY <2>3, <4>1
    <3>3. CASE Len(r) # 1
      <4>1. 1 <= Len(r) - 1 /\ (Len(r) - 1) - 1 + 1 = Len(r) - 1
        <5>1. \A x \in Nat : x # 0 /\ x # 1 => 1 <= x - 1 /\ (x - 1) - 1 + 1 = x - 1
          OBVIOUS
        <5> QED
          BY <3>1, <3>3, <5>1
      <4> QED
        BY <2>3, <4>1
    <3> QED
      BY <3>2, <3>3
  <2>5. ASSUME NEW i \in 1..(Len(r) - 1) PROVE f[i] = r[i]
    <3>1. i \in 1..((Len(r) - 1) - 1 + 1) /\ 1 + i - 1 = i
      BY <1>1
    <3> QED
      BY <2>3, <3>1
  <2> QED
    BY <2>3, <2>4, <2>5
<1>3. <<r[Len(r)]>> \in Seq(S) /\ Len(<<r[Len(r)]>>) = 1 /\ <<r[Len(r)]>>[1] = r[Len(r)]
  BY <1>1
<1> HIDE DEF f
<1>4. a \in Seq(S) /\ Len(a) = Len(r) /\ a[1] = r[Len(r)]
  BY <1>1, <1>2, <1>3
<1>5. \A i \in 2..Len(r) : a[i] = r[i - 1]
  BY <1>1, <1>2, <1>3
<1> HIDE DEF a
<1>6. \A i \in 1..Len(r) : q[i] = a[i]
  <2> SUFFICES ASSUME NEW i \in 1..Len(r) PROVE q[i] = a[i]
    OBVIOUS
  <2>1. q[i] = r[Before(i, Len(r))]
    BY DEF Back
  <2>2. CASE i = 1
    BY <1>4, <2>1, <2>2 DEF Before
  <2>3. CASE i # 1
    <3>1. i \in 2..Len(r) /\ Before(i, Len(r)) = i - 1
      BY <1>1, <2>3 DEF Before
    <3> QED
      BY <1>5, <2>1, <3>1
  <2> QED
    BY <2>2, <2>3
<1>7. Len(q) = Len(r)
  BY DEF Back
<1>8. q = a
  BY <1>4, <1>6, <1>7, SeqEqual
<1> QED
  BY <1>8 DEF a, f, Sequence!Last, Sequence!Front

LEMMA SameRemove ==
  ASSUME NEW r, NEW k
  PROVE  Sequence!ring_remove(r, k) = Seqs!ring_remove(r, k)
<1>1. ASSUME NEW T PROVE Sequence!Min(T) = Seqs!Min(T)
  BY DEF Sequence!Min, Seqs!Min
<1> QED
  BY <1>1 DEF Sequence!ring_remove, Seqs!ring_remove, Sequence!RemoveFirst, Seqs!RemoveFirst,
       Sequence!RemoveAt, Seqs!RemoveAt, Sequence!SelectInSeq, Seqs!SelectInSeq

LEMMA CutSeq ==
  ASSUME NEW S, NEW r \in Seq(S), NEW i \in 1..Len(r), NEW k, r[i] = k,
         \A j \in 1..Len(r) : r[j] = k => i <= j,
         NEW q \in Seq(S), CutAt(q, r, i)
  PROVE  q = Sequence!ring_remove(r, k)
<1>1. PICK j \in 1..Len(r) :
        /\ r[j] = k
        /\ \A x \in 1..Len(r) : x < j => r[x] # k
        /\ Seqs!ring_remove(r, k) \in Seq(S)
        /\ Len(Seqs!ring_remove(r, k)) = Len(r) - 1
        /\ \A x \in 1..(Len(r) - 1) :
             Seqs!ring_remove(r, k)[x] = IF x < j THEN r[x] ELSE r[x + 1]
  BY Seqs!RingRemoveKey
<1>2. Len(r) \in Nat
  OBVIOUS
<1>3. i = j
  BY <1>1, <1>2
<1>4. Len(q) = Len(r) - 1 /\ \A x \in 1..(Len(r) - 1) : q[x] = Seqs!ring_remove(r, k)[x]
  BY <1>1, <1>3 DEF CutAt
<1>5. q = Seqs!ring_remove(r, k)
  BY <1>1, <1>4, SeqEqual
<1> QED
  BY <1>5, SameRemove

LEMMA ImplementsInit == Init => Sequence!Init
<1> SUFFICES ASSUME Init PROVE Sequence!Init
  OBVIOUS
<1>1. ring_count = 0 /\ walk = "none"
  BY DEF Init, ring_count
<1>2. Keys = <<>> /\ Cursor = 1
  BY <1>1 DEF Keys, Cursor
<1> QED
  BY <1>1, <1>2 DEF Sequence!Init

LEMMA ImplementsStep == HeapInv /\ HeapInv' /\ [Next]_vars => [Sequence!Next]_Sequence!vars
<1> SUFFICES ASSUME HeapInv, HeapInv', [Next]_vars
             PROVE  Sequence!Next \/ UNCHANGED <<Keys, walk, Cursor>>
  BY DEF Sequence!vars
<1>1. TypeOK /\ CursorLive /\ TypeOK' /\ CursorLive'
  BY DEF HeapInv
<1>2. PICK s : Lists(s)
  BY DEF HeapInv
<1> DEFINE m == Len(s)
<1>3. /\ s \in Seq(Node) /\ m \in Nat
      /\ \A i \in 1..m : s[i] \in live /\ s[i] \in Node
      /\ (root = NULL <=> m = 0)
      /\ (m # 0 => root = s[1] /\ 1 \in 1..m)
      /\ \A i, j \in 1..m : s[i] = s[j] => i = j
      /\ \A i \in 1..m : next[s[i]] = s[After(i, m)]
  BY <1>1, <1>2, Listed DEF Lists
<1>4. /\ Keys \in Seq(Key) /\ Len(Keys) = m
      /\ \A i \in 1..m : Keys[i] = key[s[i]]
  BY <1>1, <1>2, KeysAre DEF KeysMapped
<1>5. /\ walk = "none" => Cursor = 1
      /\ \A p \in 1..m : walk # "none" /\ s[p] = aux =>
           Cursor = IF walk = "tell" /\ p = 1 THEN m + 1 ELSE p
  BY <1>1, <1>2, CursorIs DEF CursorMapped
<1>6. \A t : Lists(t)' =>
        /\ Keys' \in Seq(Key) /\ Len(Keys') = Len(t)
        /\ \A i \in 1..Len(t) : Keys'[i] = key'[t[i]]
        /\ walk' = "none" => Cursor' = 1
        /\ \A p \in 1..Len(t) : walk' # "none" /\ t[p] = aux' =>
             Cursor' = IF walk' = "tell" /\ p = 1 THEN Len(t) + 1 ELSE p
  BY <1>1, MappedNext DEF KeysMapped, CursorMapped
<1>7. UNCHANGED <<heap, root>> => Lists(s)' /\ Keys' = Keys
  <2> SUFFICES ASSUME UNCHANGED <<heap, root>> PROVE Lists(s)' /\ Keys' = Keys
    OBVIOUS
  <2>1. Lists(s)' /\ key' = key
    BY <1>2 DEF heap, Lists
  <2>2. /\ Keys' \in Seq(Key) /\ Len(Keys') = m
        /\ \A i \in 1..m : Keys'[i] = key[s[i]]
    BY <1>6, <2>1
  <2>3. \A i \in 1..Len(Keys) : Keys[i] = Keys'[i]
    BY <1>4, <2>2
  <2> QED
    BY <1>4, <2>1, <2>2, <2>3, SeqEqual
<1>8. walk # "none" => \E p \in 1..m : s[p] = aux
  BY <1>1, <1>2 DEF CursorLive, Lists
<1>9. ASSUME NEW p \in 1..m, s[p] = aux, walk # "none"
      PROVE  Sequence!Over <=> Over
  <2>1. Cursor = IF walk = "tell" /\ p = 1 THEN m + 1 ELSE p
    BY <1>5, <1>9
  <2>2. m # 0 /\ root = s[1]
    BY <1>3
  <2>3. next[aux] = s[After(p, m)] /\ After(p, m) \in 1..m
    BY <1>3, <1>9, Places
  <2>4. next[aux] = root <=> p = m
    <3>1. After(p, m) = 1 <=> p = m
      BY <1>3 DEF After
    <3> QED
      BY <1>3, <2>2, <2>3, <3>1
  <2>5. aux = root <=> p = 1
    BY <1>3, <1>9, <2>2
  <2>6. walk = "check" \/ walk = "tell"
    BY <1>1, <1>9 DEF TypeOK
  <2>7. CASE walk = "check"
    <3>1. Cursor = p
      BY <2>1, <2>7
    <3> QED
      BY <1>4, <2>4, <2>7, <3>1 DEF Over, Sequence!Over
  <2>8. CASE walk = "tell"
    <3>1. Cursor = m + 1 <=> p = 1
      BY <1>3, <2>1, <2>8
    <3> QED
      BY <1>4, <2>5, <2>8, <3>1 DEF Over, Sequence!Over
  <2> QED
    BY <2>6, <2>7, <2>8
<1>10. CASE Change
  <2>1. walk = "none" /\ walk' = walk /\ Cursor = 1 /\ Cursor' = 1
    <3>1. walk = "none" /\ walk' = walk
      BY <1>10 DEF Change
    <3>2. PICK t : Lists(t)'
      BY DEF HeapInv
    <3> QED
      BY <1>5, <1>6, <3>1, <3>2
  <2>2. ASSUME NEW k \in Key, ring_append(k) PROVE Sequence!Change
    <3>1. PICK n \in Node \ live, t \in Seq(Node) :
            /\ With(t, s, n) /\ Lists(t)'
            /\ live' = live \cup {n} /\ key' = [key EXCEPT ![n] = k]
      BY <1>1, <1>2, <2>2, AppendBehind
    <3>2. Len(t) = m + 1 /\ (\A i \in 1..m : t[i] = s[i]) /\ t[m + 1] = n
      BY <3>1 DEF With
    <3>3. /\ Keys' \in Seq(Key) /\ Len(Keys') = m + 1
          /\ \A i \in 1..(m + 1) : Keys'[i] = key'[t[i]]
      BY <1>6, <3>1, <3>2
    <3>4. m < Cardinality(Node)
      <4>1. Cardinality(live \cup {n}) = Cardinality(live) + 1
        <5>1. IsFiniteSet(live)
          BY <1>1, RingHeapAssumption, FS_Subset DEF TypeOK
        <5> QED
          BY <5>1, FS_AddElement
      <4>2. Cardinality(live \cup {n}) <= Cardinality(Node)
        <5>1. live \cup {n} \subseteq Node
          BY <1>1 DEF TypeOK
        <5> QED
          BY <5>1, RingHeapAssumption, FS_Subset
      <4>3. Cardinality(live) = m /\ Cardinality(Node) \in Nat
        BY <1>1, <1>2, RingLength, Turns
      <4> QED
        BY <1>3, <4>1, <4>2, <4>3
    <3>5. Keys' = Append(Keys, k)
      <4>1. /\ Append(Keys, k) \in Seq(Key) /\ Len(Append(Keys, k)) = m + 1
            /\ Append(Keys, k)[m + 1] = k
            /\ \A i \in 1..m : Append(Keys, k)[i] = Keys[i]
        BY <1>4
      <4>2. ASSUME NEW i \in 1..(m + 1) PROVE Keys'[i] = Append(Keys, k)[i]
        <5>1. CASE i = m + 1
          <6>1. key'[n] = k
            BY <1>1, <3>1 DEF TypeOK
          <6> QED
            BY <3>2, <3>3, <4>1, <5>1, <6>1
        <5>2. CASE i # m + 1
          <6>1. i \in 1..m
            BY <1>3, <5>2
          <6>2. s[i] \in Node /\ s[i] # n
            BY <1>3, <6>1
          <6>3. key'[s[i]] = key[s[i]]
            BY <1>1, <3>1, <6>2 DEF TypeOK
          <6> QED
            BY <1>4, <3>2, <3>3, <4>1, <6>1, <6>3
        <5> QED
          BY <5>1, <5>2
      <4> QED
        BY <3>3, <4>1, <4>2, SeqEqual
    <3> QED
      BY <1>4, <2>1, <3>4, <3>5 DEF Sequence!Change, Sequence!ring_append
  <2>3. ASSUME NEW k \in Key, ring_remove(k) PROVE Sequence!Change
    <3>1. Keys' = Sequence!ring_remove(Keys, k)
      <4>1. CASE (\A i \in 1..m : key[s[i]] # k) /\ UNCHANGED <<heap, root>>
        <5>1. ~ \E i \in 1..Len(Keys) : Keys[i] = k
          BY <1>4, <4>1
        <5>2. Seqs!ring_remove(Keys, k) = Keys
          BY <5>1, Seqs!RingRemoveNone
        <5> QED
          BY <1>7, <4>1, <5>2, SameRemove
      <4>2. ASSUME NEW i \in 1..m, NEW t \in Seq(Node), key[s[i]] = k,
                   \A j \in 1..m : key[s[j]] = k => i <= j,
                   CutAt(t, s, i), Lists(t)', key' = key
            PROVE  Keys' = Sequence!ring_remove(Keys, k)
        <5>1. i \in 1..Len(Keys) /\ Keys[i] = k /\ \A j \in 1..Len(Keys) : Keys[j] = k => i <= j
          BY <1>4, <4>2
        <5>2. Keys' \in Seq(Key) /\ CutAt(Keys', Keys, i)
          <6>1. Len(t) = m - 1 /\ \A j \in 1..(m - 1) : t[j] = s[IF j < i THEN j ELSE j + 1]
            BY <4>2 DEF CutAt
          <6>2. /\ Keys' \in Seq(Key) /\ Len(Keys') = m - 1
                /\ \A j \in 1..(m - 1) : Keys'[j] = key[t[j]]
            BY <1>6, <4>2, <6>1
          <6>3. \A j \in 1..(m - 1) : (IF j < i THEN j ELSE j + 1) \in 1..m
            BY <1>3
          <6>4. \A j \in 1..(m - 1) : Keys'[j] = Keys[IF j < i THEN j ELSE j + 1]
            BY <1>4, <6>1, <6>2, <6>3
          <6> QED
            BY <1>4, <6>2, <6>4 DEF CutAt
        <5> QED
          BY <1>4, <5>1, <5>2, CutSeq
      <4> QED
        BY <1>1, <1>2, <2>3, <4>1, <4>2, RemoveFirstOf
    <3> QED
      BY <2>1, <3>1 DEF Sequence!Change
  <2>4. root # NULL => Keys # <<>> /\ m # 0
    BY <1>3, <1>4
  <2>5. CASE root # NULL /\ root' = next[root] /\ UNCHANGED heap
    <3>1. PICK t \in Seq(Node) : Forth(t, s) /\ Lists(t)'
      BY <1>1, <1>2, <2>5, MoveOn
    <3>2. Len(t) = m /\ key' = key /\ \A i \in 1..m : t[i] = s[After(i, m)]
      BY <2>5, <3>1 DEF Forth, heap
    <3>3. Keys' \in Seq(Key) /\ Len(Keys') = m /\ \A i \in 1..m : Keys'[i] = key[t[i]]
      BY <1>6, <3>1, <3>2
    <3>4. \A i \in 1..m : Keys'[i] = Keys[After(i, m)]
      <4>1. \A i \in 1..m : After(i, m) \in 1..m
        BY <1>3, Places
      <4> QED
        BY <1>4, <3>2, <3>3, <4>1
    <3>5. Forth(Keys', Keys)
      BY <1>4, <3>3, <3>4 DEF Forth
    <3>6. Keys' = Append(Tail(Keys), Head(Keys))
      BY <1>4, <2>4, <2>5, <3>3, <3>5, ForthSeq
    <3>7. Keys' = Sequence!ring_next(Keys) /\ Keys # <<>>
      BY <2>4, <2>5, <3>6 DEF Sequence!ring_next
    <3> QED
      BY <2>1, <3>7 DEF Sequence!Change, Sequence!Next
  <2>6. CASE root # NULL /\ root' = prev[root] /\ UNCHANGED heap
    <3>1. PICK t \in Seq(Node) : Back(t, s) /\ Lists(t)'
      BY <1>1, <1>2, <2>6, MoveBack
    <3>2. Len(t) = m /\ key' = key /\ \A i \in 1..m : t[i] = s[Before(i, m)]
      BY <2>6, <3>1 DEF Back, heap
    <3>3. Keys' \in Seq(Key) /\ Len(Keys') = m /\ \A i \in 1..m : Keys'[i] = key[t[i]]
      BY <1>6, <3>1, <3>2
    <3>4. \A i \in 1..m : Keys'[i] = Keys[Before(i, m)]
      <4>1. \A i \in 1..m : Before(i, m) \in 1..m
        BY <1>3, Places
      <4> QED
        BY <1>4, <3>2, <3>3, <4>1
    <3>5. Back(Keys', Keys)
      BY <1>4, <3>3, <3>4 DEF Back
    <3>6. Keys' = <<Sequence!Last(Keys)>> \o Sequence!Front(Keys)
      BY <1>4, <2>4, <2>6, <3>3, <3>5, BackSeq
    <3>7. Keys # <<>> /\ UNCHANGED <<walk, Cursor>>
      BY <2>1, <2>4, <2>6
    <3> QED
      BY <2>1, <3>6, <3>7 DEF Sequence!Change, Sequence!Next
  <2> QED
    BY <1>10, <2>2, <2>3, <2>5, <2>6 DEF Change, Sequence!Next
<1>11. CASE Begin
  <2>1. walk = "none" /\ root # NULL /\ UNCHANGED <<heap, root>>
    BY <1>11 DEF Begin
  <2>2. Lists(s)' /\ Keys' = Keys /\ Keys # <<>> /\ m # 0
    BY <1>3, <1>4, <1>7, <2>1
  <2>3. root = s[1] /\ 1 \in 1..m
    BY <1>3, <2>2
  <2>4. CASE walk' = "check" /\ aux' = root
    <3>1. Cursor' = 1
      BY <1>6, <2>2, <2>3, <2>4
    <3> QED
      BY <2>1, <2>2, <2>4, <3>1 DEF Sequence!Begin, Sequence!Next
  <2>5. CASE walk' = "tell" /\ aux' = next[root]
    <3>1. aux' = s[After(1, m)] /\ After(1, m) \in 1..m
      BY <1>3, <2>3, <2>5, Places
    <3>2. Cursor' = IF After(1, m) = 1 THEN m + 1 ELSE After(1, m)
      BY <1>6, <2>2, <2>5, <3>1
    <3>3. Cursor' = 2
      <4>1. CASE m = 1
        <5>1. After(1, m) = 1
          BY <4>1 DEF After
        <5> QED
          BY <3>2, <4>1, <5>1
      <4>2. CASE m # 1
        <5>1. After(1, m) = 2
          BY <4>2 DEF After
        <5> QED
          BY <3>2, <5>1
      <4> QED
        BY <4>1, <4>2
    <3> QED
      BY <2>1, <2>2, <2>5, <3>3 DEF Sequence!Begin, Sequence!Next
  <2> QED
    BY <1>11, <2>4, <2>5 DEF Begin
<1>12. CASE Online
  <2>1. walk # "none" /\ ~Over /\ aux' = next[aux] /\ UNCHANGED <<heap, root>> /\ walk' = walk
    BY <1>12 DEF Online
  <2>2. PICK p \in 1..m : s[p] = aux
    BY <1>8, <2>1
  <2>3. ~Sequence!Over /\ Lists(s)' /\ Keys' = Keys
    BY <1>7, <1>9, <2>1, <2>2
  <2>4. Cursor = IF walk = "tell" /\ p = 1 THEN m + 1 ELSE p
    BY <1>5, <2>1, <2>2
  <2>5. aux' = s[After(p, m)] /\ After(p, m) \in 1..m
    BY <1>3, <2>1, <2>2, Places
  <2>6. Cursor' = IF walk = "tell" /\ After(p, m) = 1 THEN m + 1 ELSE After(p, m)
    BY <1>6, <2>1, <2>3, <2>5
  <2>7. Cursor' = Cursor + 1
    <3>1. walk = "check" => p # m
      BY <1>3, <2>1, <2>5 DEF Over, After
    <3>2. walk = "tell" => p # 1
      BY <1>3, <2>1, <2>2 DEF Over
    <3>3. walk = "check" \/ walk = "tell"
      BY <1>1, <2>1 DEF TypeOK
    <3>4. CASE walk = "check"
      <4>1. After(p, m) = p + 1
        BY <3>1, <3>4 DEF After
      <4> QED
        BY <2>4, <2>6, <3>4, <4>1
    <3>5. CASE walk = "tell"
      <4>1. Cursor = p
        BY <2>4, <3>2, <3>5
      <4>2. CASE p = m
        <5>1. After(p, m) = 1
          BY <4>2 DEF After
        <5> QED
          BY <2>6, <3>5, <4>1, <4>2, <5>1
      <4>3. CASE p # m
        <5>1. After(p, m) = p + 1 /\ p + 1 # 1
          BY <3>2, <3>5, <4>3 DEF After
        <5> QED
          BY <2>6, <3>5, <4>1, <5>1
      <4> QED
        BY <4>2, <4>3
    <3> QED
      BY <3>3, <3>4, <3>5
  <2> QED
    BY <2>1, <2>3, <2>7 DEF Sequence!Step, Sequence!Next
<1>13. CASE Refused
  <2>1. walk # "none" /\ ~Over
    BY <1>13 DEF Refused
  <2>2. PICK p \in 1..m, i \in 1..m, t \in Seq(Node) :
           /\ s[p] = aux /\ key[s[i]] = key[s[p]]
           /\ \A j \in 1..m : key[s[j]] = key[s[p]] => i <= j
           /\ i <= p /\ After(p, m) # i
           /\ (walk = "check" => p # m) /\ (walk = "tell" => p # 1 /\ i # 1)
           /\ CutAt(t, s, i) /\ Lists(t)'
           /\ aux' = s[After(p, m)] /\ walk' = walk /\ key' = key
    BY <1>1, <1>2, <1>13, RefusedStep
  <2>3. ~Sequence!Over
    BY <1>9, <2>1, <2>2
  <2>4. Cursor = p /\ Keys[p] = key[s[p]] /\ (walk = "check" \/ walk = "tell")
    BY <1>1, <1>4, <1>5, <2>1, <2>2 DEF TypeOK
  <2>5. Len(t) = m - 1 /\ \A j \in 1..(m - 1) : t[j] = s[IF j < i THEN j ELSE j + 1]
    BY <2>2 DEF CutAt
  <2>6. Keys' = Sequence!ring_remove(Keys, Keys[Cursor])
    <3>1. i \in 1..Len(Keys) /\ Keys[i] = Keys[p] /\ \A j \in 1..Len(Keys) : Keys[j] = Keys[p] => i <= j
      BY <1>4, <2>2
    <3>2. Keys' \in Seq(Key) /\ CutAt(Keys', Keys, i)
      <4>1. /\ Keys' \in Seq(Key) /\ Len(Keys') = m - 1
            /\ \A j \in 1..(m - 1) : Keys'[j] = key[t[j]]
        BY <1>6, <2>2, <2>5
      <4>2. \A j \in 1..(m - 1) : (IF j < i THEN j ELSE j + 1) \in 1..m
        BY <1>3
      <4>3. ASSUME NEW j \in 1..(m - 1) PROVE Keys'[j] = Keys[IF j < i THEN j ELSE j + 1]
        <5>1. Keys'[j] = key[s[IF j < i THEN j ELSE j + 1]]
          BY <2>5, <4>1
        <5>2. Keys[IF j < i THEN j ELSE j + 1] = key[s[IF j < i THEN j ELSE j + 1]]
          BY <1>4, <4>2
        <5> QED
          BY <5>1, <5>2
      <4> QED
        BY <1>4, <4>1, <4>3 DEF CutAt
    <3> QED
      BY <1>4, <2>4, <3>1, <3>2, CutSeq
  <2>7. Cursor' = Cursor
    <3>1. CASE p = m
      <4>1. walk = "tell" /\ After(p, m) = 1
        BY <2>2, <2>4, <3>1 DEF After
      <4>2. m - 1 # 0 /\ 1 \in 1..(m - 1) /\ 1 < i
        BY <1>3, <2>2, <3>1, <4>1
      <4>3. t[1] = aux' /\ walk' = "tell" /\ 1 \in 1..Len(t)
        BY <2>2, <2>5, <4>1, <4>2
      <4>4. Cursor' = Len(t) + 1
        BY <1>6, <2>2, <4>3
      <4> QED
        BY <1>3, <2>4, <2>5, <3>1, <4>4
    <3>2. CASE p # m
      <4>1. After(p, m) = p + 1 /\ p \in 1..(m - 1) /\ ~(p < i)
        BY <1>3, <2>2, <3>2 DEF After
      <4>2. t[p] = aux' /\ p \in 1..Len(t)
        BY <2>2, <2>5, <4>1
      <4>3. Cursor' = p
        BY <1>6, <2>1, <2>2, <4>2
      <4> QED
        BY <2>4, <4>3
    <3> QED
      BY <3>1, <3>2
  <2> QED
    BY <2>1, <2>2, <2>3, <2>6, <2>7 DEF Sequence!Step, Sequence!Next
<1>14. CASE End
  <2>1. walk # "none" /\ Over /\ walk' = "none" /\ UNCHANGED <<heap, root>>
    BY <1>14 DEF End
  <2>2. Sequence!Over
    BY <1>8, <1>9, <2>1
  <2>3. Keys' = Keys /\ Cursor' = 1
    BY <1>6, <1>7, <2>1
  <2> QED
    BY <2>1, <2>2, <2>3 DEF Sequence!End, Sequence!Next
<1>15. CASE UNCHANGED vars
  <2>1. UNCHANGED <<heap, root>> /\ walk' = walk /\ aux' = aux
    BY <1>15 DEF vars
  <2>2. Lists(s)' /\ Keys' = Keys
    BY <1>7, <2>1
  <2>3. Cursor' = Cursor
    <3>1. CASE walk = "none"
      BY <1>5, <1>6, <2>1, <2>2, <3>1
    <3>2. CASE walk # "none"
      <4>1. PICK p \in 1..m : s[p] = aux
        BY <1>8, <3>2
      <4> QED
        BY <1>5, <1>6, <2>1, <2>2, <3>2, <4>1
    <3> QED
      BY <3>1, <3>2
  <2> QED
    BY <2>1, <2>2, <2>3
<1> QED
  BY <1>10, <1>11, <1>12, <1>13, <1>14, <1>15 DEF Next

(* The pointers implement the sequence: append, remove and the moves of the  *)
(* root do to the keys what the operators of Ring say, and a cursor keeps    *)
(* its position when the node behind it goes.                                *)
THEOREM SequenceImplemented == Spec => ImplementsRing
<1>1. Init => Sequence!Init
  BY ImplementsInit
<1>2. HeapInv /\ HeapInv' /\ [Next]_vars => [Sequence!Next]_Sequence!vars
  BY ImplementsStep
<1> QED
  BY HeapInit, HeapStep, <1>1, <1>2, PTL DEF Spec, ImplementsRing, Sequence!Spec
=============================================================================
