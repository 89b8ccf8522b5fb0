----------------------------- MODULE QueueLemmas -----------------------------
(***************************************************************************)
(* What several proofs about packet managers need.  In the proofs that one *)
(* implements PacketChannel the packets a channel took are those it wrote  *)
(* and then those of the queue, so accepting one and writing one are about *)
(* a concatenation; m_queued_count is about the places in a queue.         *)
(***************************************************************************)
EXTENDS Integers, Sequences, FiniteSets, SequenceTheorems, FiniteSetTheorems, TLAPS

\* Moving the front of one sequence to the end of another keeps their
\* concatenation, in which that element comes right after the first sequence.
LEMMA MoveFront ==
    ASSUME NEW S, NEW s \in Seq(S), NEW t \in Seq(S), t # <<>>
    PROVE  /\ Append(s, Head(t)) \o Tail(t) = s \o t
           /\ Len(s) < Len(s \o t)
           /\ (s \o t)[Len(s) + 1] = Head(t)
<1>1. /\ Head(t) \in S
      /\ Tail(t) \in Seq(S)
      /\ Len(Tail(t)) = Len(t) - 1
      /\ \A i \in 1..Len(Tail(t)) : Tail(t)[i] = t[i + 1]
  BY HeadTailProperties
<1>2. Len(t) \in Nat /\ Len(t) # 0 /\ Len(s) \in Nat /\ Head(t) = t[1]
  BY EmptySeq
<1> DEFINE a == Append(s, Head(t))
<1>3. /\ a \in Seq(S)
      /\ Len(a) = Len(s) + 1
      /\ \A i \in 1..Len(s) : a[i] = s[i]
      /\ a[Len(s) + 1] = Head(t)
  BY <1>1, AppendProperties
<1> HIDE DEF a
<1>4. /\ s \o t \in Seq(S)
      /\ Len(s \o t) = Len(s) + Len(t)
      /\ \A i \in 1..(Len(s) + Len(t)) :
            (s \o t)[i] = IF i <= Len(s) THEN s[i] ELSE t[i - Len(s)]
  BY ConcatProperties
<1>5. /\ a \o Tail(t) \in Seq(S)
      /\ Len(a \o Tail(t)) = Len(a) + Len(Tail(t))
      /\ \A i \in 1..(Len(a) + Len(Tail(t))) :
            (a \o Tail(t))[i] = IF i <= Len(a) THEN a[i] ELSE Tail(t)[i - Len(a)]
  BY <1>1, <1>3, ConcatProperties
<1>6. Len(a \o Tail(t)) = Len(s \o t)
  BY <1>1, <1>2, <1>3, <1>4, <1>5
<1>7. ASSUME NEW i \in 1..Len(a \o Tail(t))
      PROVE  (a \o Tail(t))[i] = (s \o t)[i]
  <2>1. CASE i <= Len(s)
    BY <1>1, <1>2, <1>3, <1>4, <1>5, <1>6, <2>1
  <2>2. CASE i = Len(s) + 1
    <3>1. (a \o Tail(t))[i] = Head(t)
      BY <1>1, <1>2, <1>3, <1>5, <2>2
    <3>2. i - Len(s) = 1 /\ ~(i <= Len(s)) /\ i \in 1..(Len(s) + Len(t))
      BY <1>2, <2>2
    <3>3. (s \o t)[i] = t[1]
      BY <1>4, <3>2
    <3>4. QED
      BY <1>2, <3>1, <3>3
  <2>3. CASE i > Len(s) + 1
    <3>1. (a \o Tail(t))[i] = Tail(t)[i - Len(a)]
      BY <1>1, <1>2, <1>3, <1>5, <2>3
    <3>2. i - Len(a) \in 1..Len(Tail(t)) /\ i - Len(a) + 1 = i - Len(s)
      BY <1>1, <1>2, <1>3, <1>4, <1>6, <2>3
    <3>3. Tail(t)[i - Len(a)] = t[i - Len(s)]
      BY <1>1, <3>2
    <3>4. i \in 1..(Len(s) + Len(t)) /\ ~(i <= Len(s))
      BY <1>2, <1>4, <1>6, <2>3
    <3>5. (s \o t)[i] = t[i - Len(s)]
      BY <1>4, <3>4
    <3>6. QED
      BY <3>1, <3>3, <3>5
  <2>4. i <= Len(s) \/ i = Len(s) + 1 \/ i > Len(s) + 1
    <3>1. i \in Int
      BY <1>1, <1>2, <1>3, <1>5
    <3>2. QED
      BY <1>2, <3>1
  <2>5. QED
    BY <2>1, <2>2, <2>3, <2>4
<1>8. a \o Tail(t) = s \o t
  BY <1>4, <1>5, <1>6, <1>7, SeqEqual
<1>9. QED
  BY <1>2, <1>4, <1>8 DEF a

\* Appending to the second of two sequences appends to their concatenation.
LEMMA AppendToConcat ==
    ASSUME NEW S, NEW s \in Seq(S), NEW t \in Seq(S), NEW e \in S
    PROVE  s \o Append(t, e) = Append(s \o t, e)
<1>1. <<e>> \in Seq(S) /\ s \o t \in Seq(S)
  BY ConcatProperties
<1>2. Append(t, e) = t \o <<e>> /\ Append(s \o t, e) = (s \o t) \o <<e>>
  BY <1>1, AppendIsConcat
<1>3. QED
  BY <1>1, <1>2, ConcatAssociative

\* The number of places an element has in a sequence.
Places(s, p) == Cardinality({i \in 1..Len(s) : s[i] = p})

\* The places of an element in a sequence are finitely many.
LEMMA PlacesType ==
    ASSUME NEW S, NEW s \in Seq(S), NEW p
    PROVE  /\ IsFiniteSet({i \in 1..Len(s) : s[i] = p})
           /\ Places(s, p) \in Nat
<1>1. Len(s) \in Int /\ 1 \in Int
  OBVIOUS
<1>2. IsFiniteSet(1..Len(s))
  BY <1>1, FS_Interval
<1>3. {i \in 1..Len(s) : s[i] = p} \in SUBSET (1..Len(s))
  OBVIOUS
<1>4. IsFiniteSet({i \in 1..Len(s) : s[i] = p})
  BY <1>2, <1>3, FS_Subset
<1>5. QED
  BY <1>4, FS_CardinalityType DEF Places

\* Appending an element adds a place to its own, and none to another's; ...
LEMMA PlacesAppend ==
    ASSUME NEW S, NEW s \in Seq(S), NEW e \in S, NEW p
    PROVE  /\ e = p => Places(Append(s, e), p) = Places(s, p) + 1
           /\ e # p => Places(Append(s, e), p) = Places(s, p)
<1> DEFINE A == {i \in 1..Len(s) : s[i] = p}
<1> DEFINE B == {i \in 1..Len(Append(s, e)) : Append(s, e)[i] = p}
<1>1. IsFiniteSet(A) /\ Cardinality(A) \in Nat
  BY PlacesType, FS_CardinalityType
<1>2. /\ Len(Append(s, e)) = Len(s) + 1
      /\ \A i \in 1..Len(s) : Append(s, e)[i] = s[i]
      /\ Append(s, e)[Len(s) + 1] = e
      /\ Len(s) \in Nat
  BY AppendProperties
<1>3. CASE e = p
  <2>1. B = A \cup {Len(s) + 1} /\ Len(s) + 1 \notin A
    BY <1>2, <1>3
  <2> HIDE DEF A, B
  <2>2. Cardinality(B) = Cardinality(A) + 1
    BY <1>1, <2>1, FS_AddElement
  <2>3. Places(Append(s, e), p) = Cardinality(B) /\ Places(s, p) = Cardinality(A)
    BY DEF Places, A, B
  <2>4. QED
    BY <1>3, <2>2, <2>3
<1>4. CASE e # p
  <2>1. B = A
    BY <1>2, <1>4
  <2>2. QED
    BY <1>1, <1>4, <2>1 DEF Places
<1>5. QED
  BY <1>3, <1>4

\* ... taking the front takes away one of its places.
LEMMA PlacesTail ==
    ASSUME NEW S, NEW s \in Seq(S), s # <<>>, NEW p
    PROVE  /\ Head(s) = p => Places(Tail(s), p) = Places(s, p) - 1
           /\ Head(s) # p => Places(Tail(s), p) = Places(s, p)
<1> DEFINE A == {i \in 1..Len(Tail(s)) : Tail(s)[i] = p}
<1> DEFINE B == {i \in 1..Len(s) : s[i] = p}
<1> DEFINE C == B \ {1}
<1>1. /\ Tail(s) \in Seq(S)
      /\ Len(Tail(s)) = Len(s) - 1
      /\ \A i \in 1..Len(Tail(s)) : Tail(s)[i] = s[i + 1]
      /\ Len(s) \in Nat
      /\ Len(s) # 0
      /\ Head(s) = s[1]
  BY HeadTailProperties, EmptySeq
<1>2. IsFiniteSet(A) /\ IsFiniteSet(B) /\ Cardinality(B) \in Nat
  <2>1. IsFiniteSet(A)
    BY <1>1, PlacesType
  <2>2. IsFiniteSet(B)
    BY PlacesType
  <2> HIDE DEF B
  <2>3. QED
    BY <2>1, <2>2, FS_CardinalityType
<1>3. Cardinality(C) = Cardinality(A)
  <2> DEFINE f == [i \in A |-> i + 1]
  <2>1. \A i \in A : i \in Int /\ i + 1 \in C
    BY <1>1
  <2>2. \A j \in C : j - 1 \in A /\ (j - 1) + 1 = j
    <3>1. SUFFICES ASSUME NEW j \in C PROVE j - 1 \in A /\ (j - 1) + 1 = j
      OBVIOUS
    <3>2. j \in Int /\ j > 1 /\ j <= Len(s) /\ s[j] = p
      BY <1>1
    <3>3. j - 1 \in 1..Len(Tail(s)) /\ (j - 1) + 1 = j
      BY <1>1, <3>2
    <3>4. QED
      BY <1>1, <3>2, <3>3
  <2>3. \A a, b \in A : f[a] = f[b] => a = b
    BY <2>1
  <2>4. f \in [A -> C] /\ \A j \in C : \E i \in A : f[i] = j
    BY <2>1, <2>2
  <2>5. f \in Bijection(A, C)
    BY <2>3, <2>4 DEF Bijection, Injection, Surjection, IsInjective
  <2>6. QED
    BY <1>2, <2>5, FS_Bijection DEF ExistsBijection
<1>4. Cardinality(C) = IF 1 \in B THEN Cardinality(B) - 1 ELSE Cardinality(B)
  BY <1>2, FS_RemoveElement
<1>5. 1 \in B <=> Head(s) = p
  BY <1>1
<1>6. Places(Tail(s), p) = Cardinality(A) /\ Places(s, p) = Cardinality(B)
  BY DEF Places
<1> HIDE DEF A, B, C
<1>7. QED
  BY <1>2, <1>3, <1>4, <1>5, <1>6
=============================================================================
