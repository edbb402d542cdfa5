------------------------------ MODULE SeqCount ------------------------------
(***************************************************************************)
(* Counting the elements of a queue that belong to a set, and what         *)
(* appending to and removing from the queue do to the count.               *)
(***************************************************************************)
EXTENDS Integers, Sequences, FiniteSets, Functions, FiniteSetTheorems,
        FunctionTheorems, SequenceTheorems, TLAPS

Places(q, T) == {n \in DOMAIN q : q[n] \in T}
Cnt(q, T) == Cardinality(Places(q, T))

(* A queue has finitely many places. *)
LEMMA CntType ==
  ASSUME NEW S, NEW q \in Seq(S), NEW T
  PROVE  /\ IsFiniteSet(Places(q, T))
         /\ Cnt(q, T) \in Nat /\ Cnt(q, T) <= Len(q)
<1>1. DOMAIN q = 1 .. Len(q) /\ Len(q) \in Nat
  BY LenProperties
<1>2. IsFiniteSet(DOMAIN q) /\ Cardinality(DOMAIN q) = Len(q)
  BY <1>1, FS_Interval
<1>3. Places(q, T) \in SUBSET (DOMAIN q)
  BY DEF Places
<1> QED
  BY <1>2, <1>3, FS_Subset, FS_CardinalityType DEF Cnt

LEMMA CntEmpty ==
  ASSUME NEW T
  PROVE  Cnt(<< >>, T) = 0
<1>1. Places(<< >>, T) = {}
  BY DEF Places
<1> QED
  BY <1>1, FS_EmptySet DEF Cnt

(* push_back adds the new element. *)
LEMMA CntAppend ==
  ASSUME NEW S, NEW q \in Seq(S), NEW e \in S, NEW T
  PROVE  Cnt(Append(q, e), T) = Cnt(q, T) + (IF e \in T THEN 1 ELSE 0)
<1> DEFINE p == Append(q, e)
<1>1. /\ DOMAIN q = 1 .. Len(q) /\ Len(q) \in Nat
      /\ DOMAIN p = 1 .. Len(q) + 1
      /\ p[Len(q) + 1] = e
      /\ \A n \in 1 .. Len(q) : p[n] = q[n]
  BY LenProperties, AppendProperties
<1> HIDE DEF p
<1>2. IsFiniteSet(Places(q, T)) /\ Cnt(q, T) \in Nat
  BY CntType
<1>3. Len(q) + 1 \notin Places(q, T)
  BY <1>1 DEF Places
<1>4. CASE e \in T
  <2>1. Places(p, T) = Places(q, T) \cup {Len(q) + 1}
    BY <1>1, <1>4 DEF Places
  <2> QED
    BY <1>2, <1>3, <1>4, <2>1, FS_AddElement DEF Cnt, p
<1>5. CASE e \notin T
  <2>1. Places(p, T) = Places(q, T)
    BY <1>1, <1>5 DEF Places
  <2> QED
    BY <1>2, <1>5, <2>1 DEF Cnt, p
<1> QED
  BY <1>4, <1>5

(* Taking out the element at place i closes the gap and loses only it. *)
LEMMA CntDrop ==
  ASSUME NEW S, NEW q \in Seq(S), NEW i \in 1 .. Len(q), NEW T,
         NEW p \in Seq(S), Len(p) = Len(q) - 1,
         \A n \in 1 .. Len(p) : p[n] = IF n < i THEN q[n] ELSE q[n + 1]
  PROVE  Cnt(p, T) = Cnt(q, T) - (IF q[i] \in T THEN 1 ELSE 0)
<1> DEFINE A == Places(p, T)
           B == Places(q, T) \ {i}
           f == [n \in A |-> IF n < i THEN n ELSE n + 1]
<1>1. /\ DOMAIN q = 1 .. Len(q) /\ Len(q) \in Nat
      /\ DOMAIN p = 1 .. Len(q) - 1
  BY LenProperties
<1>2. f \in [A -> B]
  <2> SUFFICES ASSUME NEW n \in A PROVE (IF n < i THEN n ELSE n + 1) \in B
    OBVIOUS
  <2> QED BY <1>1 DEF Places
<1>3. \A a, b \in A : f[a] = f[b] => a = b
  BY <1>1 DEF Places
<1>4. \A t \in B : \E s \in A : f[s] = t
  <2> SUFFICES ASSUME NEW t \in B PROVE \E s \in A : f[s] = t
    OBVIOUS
  <2>1. CASE t < i
    <3>1. t \in A
      BY <1>1, <2>1 DEF Places
    <3> QED BY <2>1, <3>1
  <2>2. CASE t > i
    <3>1. t - 1 \in A /\ ~(t - 1 < i) /\ (t - 1) + 1 = t
      BY <1>1, <2>2 DEF Places
    <3>2. f[t - 1] = t
      BY <3>1
    <3> QED BY <3>1, <3>2
  <2>3. t \in Nat /\ i \in Nat /\ t # i
    BY <1>1 DEF Places
  <2> QED BY <2>1, <2>2, <2>3
<1>5. f \in Bijection(A, B)
  BY <1>2, <1>3, <1>4, Fun_IsBij
<1>6. IsFiniteSet(A) /\ IsFiniteSet(Places(q, T)) /\ Cnt(q, T) \in Nat
  BY CntType
<1>7. ExistsBijection(A, B)
  BY <1>5, Fun_ExistsBij
<1>8. Cardinality(B) = Cardinality(A)
  BY <1>6, <1>7, FS_Bijection
<1>9. i \in Places(q, T) <=> q[i] \in T
  BY <1>1 DEF Places
<1>10. Cardinality(B) = IF i \in Places(q, T) THEN Cardinality(Places(q, T)) - 1
                                              ELSE Cardinality(Places(q, T))
  BY <1>6, FS_RemoveElement
<1> HIDE DEF B
<1> QED
  BY <1>6, <1>8, <1>9, <1>10 DEF Cnt

(* pop_front loses the head. *)
LEMMA CntTail ==
  ASSUME NEW S, NEW q \in Seq(S), q # << >>, NEW T
  PROVE  Cnt(Tail(q), T) = Cnt(q, T) - (IF Head(q) \in T THEN 1 ELSE 0)
<1> DEFINE p == Tail(q)
<1>1. /\ p \in Seq(S) /\ Len(p) = Len(q) - 1
      /\ \A n \in 1 .. Len(p) : p[n] = q[n + 1]
      /\ 1 \in 1 .. Len(q) /\ Head(q) = q[1]
  BY HeadTailProperties, EmptySeq, LenProperties
<1> HIDE DEF p
<1>2. p \in Seq(S) /\ 1 \in 1 .. Len(q) /\ Len(p) = Len(q) - 1
  BY <1>1
<1>3. \A n \in 1 .. Len(p) : p[n] = IF n < 1 THEN q[n] ELSE q[n + 1]
  BY <1>1
<1>4. Cnt(p, T) = Cnt(q, T) - (IF q[1] \in T THEN 1 ELSE 0)
  BY <1>2, <1>3, CntDrop
<1> QED
  BY <1>1, <1>4 DEF p

(* erase of place i *)
LEMMA CntRemove ==
  ASSUME NEW S, NEW q \in Seq(S), NEW i \in DOMAIN q, NEW T
  PROVE  Cnt(SubSeq(q, 1, i - 1) \o SubSeq(q, i + 1, Len(q)), T)
           = Cnt(q, T) - (IF q[i] \in T THEN 1 ELSE 0)
<1> DEFINE a == SubSeq(q, 1, i - 1)
           b == SubSeq(q, i + 1, Len(q))
           p == a \o b
<1>1. i \in 1 .. Len(q) /\ Len(q) \in Nat /\ DOMAIN q = 1 .. Len(q)
      /\ \A n \in 1 .. Len(q) : q[n] \in S
  BY LenProperties, ElementOfSeq
<1>2. a \in Seq(S) /\ Len(a) = i - 1 /\ \A n \in 1 .. i - 1 : a[n] = q[n]
  BY <1>1, SubSeqProperties
<1>3. b \in Seq(S) /\ Len(b) = Len(q) - i /\ \A n \in 1 .. Len(q) - i : b[n] = q[i + n]
  BY <1>1, SubSeqProperties
<1> HIDE DEF a, b
<1>4. /\ p \in Seq(S) /\ Len(p) = Len(q) - 1
      /\ \A n \in 1 .. Len(a) + Len(b) : p[n] = IF n <= Len(a) THEN a[n] ELSE b[n - Len(a)]
  <2>1. /\ p \in Seq(S) /\ Len(p) = Len(a) + Len(b)
        /\ \A n \in 1 .. Len(a) + Len(b) : p[n] = IF n <= Len(a) THEN a[n] ELSE b[n - Len(a)]
    BY <1>2, <1>3, ConcatProperties
  <2> HIDE DEF p
  <2> QED BY <1>1, <1>2, <1>3, <2>1
<1> HIDE DEF p
<1>5. ASSUME NEW n \in 1 .. Len(p) PROVE p[n] = IF n < i THEN q[n] ELSE q[n + 1]
  <2>1. CASE n < i
    BY <1>1, <1>2, <1>3, <1>4, <2>1
  <2>2. CASE ~(n < i)
    <3>0. n \in 1 .. Len(a) + Len(b) /\ ~(n <= Len(a)) /\ Len(a) = i - 1
      BY <1>1, <1>2, <1>3, <1>4, <2>2
    <3>1. p[n] = b[n - (i - 1)]
      BY <1>4, <3>0
    <3>2. n - (i - 1) \in 1 .. Len(q) - i /\ i + (n - (i - 1)) = n + 1
      BY <1>1, <1>4, <2>2
    <3> QED BY <1>3, <2>2, <3>1, <3>2
  <2> QED BY <2>1, <2>2
<1>6. Cnt(p, T) = Cnt(q, T) - (IF q[i] \in T THEN 1 ELSE 0)
  BY <1>1, <1>4, <1>5, CntDrop
<1> QED
  BY <1>6 DEF p, a, b
=============================================================================
