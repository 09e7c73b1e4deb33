----------------------------- MODULE RingProofs -----------------------------
(***************************************************************************)
(* What the operations of the ring do to a sequence of any length: the     *)
(* lemmas the proofs about the modules built on Ring cite.                 *)
(***************************************************************************)
EXTENDS Ring, SequenceTheorems, WellFoundedInduction, TLAPS

(* Every set of natural numbers that is not empty has a least element.      *)
LEMMA LeastNat ==
  ASSUME NEW T \in SUBSET Nat, T # {}
  PROVE  /\ Min(T) \in T
         /\ \A y \in T : Min(T) <= y
<1>1. IsWellFoundedOn(OpToRel(<, Nat), Nat)
  BY NatLessThanWellFounded
<1>2. PICK x \in T : \A y \in T : ~(<<y, x>> \in OpToRel(<, Nat))
  BY <1>1, WFMin
<1>3. \A y \in T : x <= y
  <2>1. SUFFICES ASSUME NEW y \in T PROVE x <= y
    OBVIOUS
  <2>2. x \in Nat /\ y \in Nat
    OBVIOUS
  <2>3. ~(y < x)
    BY <1>2, <2>2 DEF OpToRel
  <2>. QED
    BY <2>2, <2>3
<1>. QED
  BY <1>3 DEF Min

(* The first position of a key in a ring that holds it.                     *)
LEMMA FirstPosition ==
  ASSUME NEW S, NEW r \in Seq(S), NEW k, \E i \in 1..Len(r) : r[i] = k
  PROVE  LET j == SelectInSeq(r, LAMBDA v : v = k)
         IN  /\ j \in 1..Len(r)
             /\ r[j] = k
             /\ \A i \in 1..Len(r) : i < j => r[i] # k
<1>. DEFINE I == {i \in 1..Len(r) : r[i] = k}
<1>1. I \in SUBSET Nat /\ I # {}
  OBVIOUS
<1>2. Min(I) \in I /\ \A y \in I : Min(I) <= y
  BY <1>1, LeastNat
<1>3. SelectInSeq(r, LAMBDA v : v = k) = Min(I)
  BY <1>1 DEF SelectInSeq
<1>4. \A i \in 1..Len(r) : i < Min(I) => r[i] # k
  BY <1>1, <1>2
<1>. QED
  BY <1>2, <1>3, <1>4

(* Cutting one position out of a sequence.                                  *)
LEMMA RemoveAtProperties ==
  ASSUME NEW S, NEW r \in Seq(S), NEW j \in 1..Len(r)
  PROVE  /\ RemoveAt(r, j) \in Seq(S)
         /\ Len(RemoveAt(r, j)) = Len(r) - 1
         /\ \A i \in 1..(Len(r) - 1) :
              RemoveAt(r, j)[i] = IF i < j THEN r[i] ELSE r[i + 1]
<1>. DEFINE s == SubSeq(r, 1, j - 1)
            t == SubSeq(r, j + 1, Len(r))
<1>1. /\ Len(r) \in Nat
      /\ \A i \in 1..Len(r) : r[i] \in S
  BY LenProperties, ElementOfSeq
<1>2. /\ s \in Seq(S)
      /\ Len(s) = j - 1
      /\ \A i \in 1..(j - 1) : s[i] = r[i]
  <2>1. \A i \in 1..(j - 1) : r[i] \in S
    BY <1>1
  <2>2. 1 \in Int /\ j - 1 \in Int
    BY <1>1
  <2>. QED
    BY <2>1, <2>2, SubSeqProperties
<1>3. /\ t \in Seq(S)
      /\ Len(t) = Len(r) - j
      /\ \A i \in 1..(Len(r) - j) : t[i] = r[j + i]
  <2>1. \A i \in (j + 1)..Len(r) : r[i] \in S
    BY <1>1
  <2>2. j + 1 \in Int /\ Len(r) \in Int
    BY <1>1
  <2>3. /\ t \in Seq(S)
        /\ Len(t) = IF j + 1 <= Len(r) THEN Len(r) - (j + 1) + 1 ELSE 0
        /\ \A i \in 1..(Len(r) - (j + 1) + 1) : t[i] = r[(j + 1) + i - 1]
    BY <2>1, <2>2, SubSeqProperties
  <2>. QED
    BY <1>1, <2>3
<1>4. RemoveAt(r, j) = s \o t
  BY DEF RemoveAt
<1>5. /\ s \o t \in Seq(S)
      /\ Len(s \o t) = Len(s) + Len(t)
      /\ \A i \in 1..(Len(s) + Len(t)) :
           (s \o t)[i] = IF i <= Len(s) THEN s[i] ELSE t[i - Len(s)]
  BY <1>2, <1>3, ConcatProperties
<1>. HIDE DEF s, t
<1>6. \A i \in 1..(Len(r) - 1) :
        (s \o t)[i] = IF i < j THEN r[i] ELSE r[i + 1]
  <2>1. SUFFICES ASSUME NEW i \in 1..(Len(r) - 1)
                 PROVE  (s \o t)[i] = IF i < j THEN r[i] ELSE r[i + 1]
    OBVIOUS
  <2>2. CASE i < j
    <3>1. i \in 1..(j - 1) /\ i <= Len(s) /\ i \in 1..(Len(s) + Len(t))
      BY <1>1, <1>2, <1>3, <2>2
    <3>. QED
      BY <1>2, <1>5, <2>2, <3>1
  <2>3. CASE ~(i < j)
    <3>1. /\ i - Len(s) \in 1..(Len(r) - j) /\ j + (i - Len(s)) = i + 1
          /\ ~(i <= Len(s)) /\ i \in 1..(Len(s) + Len(t))
      BY <1>1, <1>2, <1>3, <2>3
    <3>2. t[i - Len(s)] = r[i + 1]
      BY <1>3, <3>1
    <3>. QED
      BY <1>5, <2>3, <3>1, <3>2
  <2>. QED
    BY <2>2, <2>3
<1>. QED
  BY <1>1, <1>2, <1>3, <1>4, <1>5, <1>6

(* ring_remove cuts out the first node with the key, keeping the order of   *)
(* all others.                                                              *)
LEMMA RingRemoveKey ==
  ASSUME NEW S, NEW r \in Seq(S), NEW k, \E i \in 1..Len(r) : r[i] = k
  PROVE  \E j \in 1..Len(r) :
           /\ r[j] = k
           /\ \A i \in 1..Len(r) : i < j => r[i] # k
           /\ ring_remove(r, k) \in Seq(S)
           /\ Len(ring_remove(r, k)) = Len(r) - 1
           /\ \A i \in 1..(Len(r) - 1) :
                ring_remove(r, k)[i] = IF i < j THEN r[i] ELSE r[i + 1]
<1>. DEFINE j == SelectInSeq(r, LAMBDA v : v = k)
<1>1. /\ j \in 1..Len(r)
      /\ r[j] = k
      /\ \A i \in 1..Len(r) : i < j => r[i] # k
  BY FirstPosition
<1>2. ring_remove(r, k) = RemoveAt(r, j)
  BY DEF ring_remove, RemoveFirst
<1>. HIDE DEF j
<1>. QED
  BY <1>1, <1>2, RemoveAtProperties

(* A ring without the key is left alone.                                    *)
LEMMA RingRemoveNone ==
  ASSUME NEW r, NEW k, ~ \E i \in 1..Len(r) : r[i] = k
  PROVE  ring_remove(r, k) = r
BY DEF ring_remove, RemoveFirst

(* Either way the result is a ring of the same keys.                        *)
LEMMA RingRemoveType ==
  ASSUME NEW S, NEW r \in Seq(S), NEW k
  PROVE  ring_remove(r, k) \in Seq(S)
<1>1. CASE \E i \in 1..Len(r) : r[i] = k
  BY <1>1, RingRemoveKey
<1>2. CASE ~ \E i \in 1..Len(r) : r[i] = k
  BY <1>2, RingRemoveNone
<1>. QED
  BY <1>1, <1>2
-----------------------------------------------------------------------------
(* The next element becomes the root: nothing is lost or gained.            *)
LEMMA RingNext ==
  ASSUME NEW S, NEW r \in Seq(S), r # <<>>
  PROVE  /\ ring_next(r) \in Seq(S)
         /\ Len(ring_next(r)) = Len(r)
         /\ ToSet(ring_next(r)) = ToSet(r)
<1>1. /\ Head(r) \in S /\ Head(r) = r[1]
      /\ Tail(r) \in Seq(S)
      /\ Len(Tail(r)) = Len(r) - 1
      /\ \A i \in 1..(Len(r) - 1) : Tail(r)[i] = r[i + 1]
  BY HeadTailProperties
<1>0. Len(r) \in Nat /\ Len(r) >= 1
  BY EmptySeq
<1>2. /\ ring_next(r) \in Seq(S)
      /\ Len(ring_next(r)) = Len(r)
      /\ \A i \in 1..(Len(r) - 1) : ring_next(r)[i] = r[i + 1]
      /\ ring_next(r)[Len(r)] = r[1]
  BY <1>0, <1>1, AppendProperties DEF ring_next
<1>3. /\ DOMAIN r = 1..Len(r) /\ DOMAIN ring_next(r) = 1..Len(r)
  BY <1>2, LenProperties
<1>4. ToSet(ring_next(r)) \subseteq ToSet(r)
  <2>1. SUFFICES ASSUME NEW i \in 1..Len(r)
                 PROVE  \E h \in 1..Len(r) : ring_next(r)[i] = r[h]
    BY <1>3 DEF ToSet
  <2>2. CASE i = Len(r)
    BY <1>0, <1>2, <2>2
  <2>3. CASE i # Len(r)
    <3>1. i \in 1..(Len(r) - 1) /\ i + 1 \in 1..Len(r)
      BY <1>0, <2>3
    <3>. QED
      BY <1>2, <3>1
  <2>. QED
    BY <2>2, <2>3
<1>5. ToSet(r) \subseteq ToSet(ring_next(r))
  <2>1. SUFFICES ASSUME NEW i \in 1..Len(r)
                 PROVE  \E h \in 1..Len(r) : r[i] = ring_next(r)[h]
    BY <1>3 DEF ToSet
  <2>2. CASE i = 1
    BY <1>0, <1>2, <2>2
  <2>3. CASE i # 1
    <3>1. i - 1 \in 1..(Len(r) - 1) /\ i - 1 \in 1..Len(r) /\ (i - 1) + 1 = i
      BY <1>0, <2>3
    <3>. QED
      BY <1>2, <3>1
  <2>. QED
    BY <2>2, <2>3
<1>. QED
  BY <1>2, <1>4, <1>5

(* Removing a key loses no other.                                           *)
LEMMA RingRemoveLoses ==
  ASSUME NEW S, NEW r \in Seq(S), NEW k
  PROVE  ToSet(r) \ ToSet(ring_remove(r, k)) \subseteq {k}
<1>. DEFINE s == ring_remove(r, k)
<1>1. /\ s \in Seq(S)
      /\ DOMAIN r = 1..Len(r) /\ DOMAIN s = 1..Len(s)
      /\ Len(r) \in Nat
  BY RingRemoveType, LenProperties
<1>2. SUFFICES ASSUME NEW i \in 1..Len(r), r[i] # k
               PROVE  \E h \in 1..Len(s) : r[i] = s[h]
  BY <1>1 DEF ToSet
<1>3. CASE ~ \E n \in 1..Len(r) : r[n] = k
  BY <1>3, RingRemoveNone
<1>4. CASE \E n \in 1..Len(r) : r[n] = k
  <2>1. PICK j \in 1..Len(r) :
          /\ r[j] = k
          /\ Len(s) = Len(r) - 1
          /\ \A h \in 1..(Len(r) - 1) : s[h] = IF h < j THEN r[h] ELSE r[h + 1]
    BY <1>4, RingRemoveKey
  <2>. HIDE DEF s
  <2>2. CASE i < j
    <3>1. i \in 1..(Len(r) - 1)
      BY <1>1, <2>2
    <3>. QED
      BY <2>1, <2>2, <3>1
  <2>3. CASE i > j
    <3>1. i - 1 \in 1..(Len(r) - 1) /\ ~(i - 1 < j) /\ (i - 1) + 1 = i
      BY <1>1, <2>3
    <3>. QED
      BY <2>1, <3>1
  <2>4. i # j
    BY <1>2, <2>1
  <2>. QED
    BY <1>1, <2>2, <2>3, <2>4
<1>. QED
  BY <1>3, <1>4

(* Removing a key brings none in and loses no other.                        *)
LEMMA RingRemoveSet ==
  ASSUME NEW S, NEW r \in Seq(S), NEW k
  PROVE  /\ ring_remove(r, k) \in Seq(S)
         /\ ToSet(ring_remove(r, k)) \subseteq ToSet(r)
         /\ ToSet(r) \ {k} \subseteq ToSet(ring_remove(r, k))
<1>. DEFINE s == ring_remove(r, k)
<1>1. /\ s \in Seq(S)
      /\ DOMAIN r = 1..Len(r) /\ DOMAIN s = 1..Len(s)
      /\ Len(r) \in Nat
  BY RingRemoveType, LenProperties
<1>2. ToSet(s) \subseteq ToSet(r)
  <2>1. CASE ~ \E n \in 1..Len(r) : r[n] = k
    BY <2>1, RingRemoveNone
  <2>2. CASE \E n \in 1..Len(r) : r[n] = k
    <3>1. PICK j \in 1..Len(r) :
            /\ Len(s) = Len(r) - 1
            /\ \A h \in 1..(Len(r) - 1) : s[h] = IF h < j THEN r[h] ELSE r[h + 1]
      BY <2>2, RingRemoveKey
    <3>. HIDE DEF s
    <3>2. \A h \in 1..Len(s) : \E i \in 1..Len(r) : s[h] = r[i]
      BY <1>1, <3>1
    <3>. QED
      BY <1>1, <3>2 DEF ToSet
  <2>. QED
    BY <2>1, <2>2
<1>. QED
  BY <1>1, <1>2, RingRemoveLoses

(* A new node stands behind all others.                                     *)
LEMMA RingAppend ==
  ASSUME NEW S, NEW r \in Seq(S), NEW k \in S
  PROVE  /\ ring_append(r, k) \in Seq(S)
         /\ ring_append(r, k) # <<>>
         /\ Len(ring_append(r, k)) = Len(r) + 1
         /\ ring_append(r, k)[Len(r) + 1] = k
BY AppendProperties DEF ring_append

(* It is in the ring, with all others.                                      *)
LEMMA RingAppendSet ==
  ASSUME NEW S, NEW r \in Seq(S), NEW k \in S
  PROVE  ToSet(ring_append(r, k)) = ToSet(r) \cup {k}
<1>. DEFINE s == ring_append(r, k)
<1>1. /\ s \in Seq(S) /\ s # <<>> /\ Len(s) = Len(r) + 1
      /\ \A i \in 1..Len(r) : s[i] = r[i]
      /\ s[Len(r) + 1] = k
  BY AppendProperties DEF ring_append
<1>2. Len(r) \in Nat /\ DOMAIN r = 1..Len(r) /\ DOMAIN s = 1..(Len(r) + 1)
  BY <1>1, LenProperties
<1>. HIDE DEF s
<1>3. ToSet(s) \subseteq ToSet(r) \cup {k}
  <2>1. \A i \in 1..(Len(r) + 1) : i \in 1..Len(r) \/ i = Len(r) + 1
    BY <1>2
  <2>. QED
    BY <1>1, <1>2, <2>1 DEF ToSet
<1>4. ToSet(r) \cup {k} \subseteq ToSet(s)
  <2>1. 1..Len(r) \subseteq 1..(Len(r) + 1) /\ Len(r) + 1 \in 1..(Len(r) + 1)
    BY <1>2
  <2>. QED
    BY <1>1, <1>2, <2>1 DEF ToSet
<1>. QED
  BY <1>3, <1>4 DEF s
=============================================================================
