----------------------------- MODULE SequenceFacts -----------------------------
(***************************************************************************)
(* Facts about sequences that the proofs about queues and streams share:   *)
(* what Append, Tail and \o do to the elements of a sequence, to their     *)
(* order and to their being distinct.                                      *)
(***************************************************************************)
EXTENDS Integers, SequencesExt, SequenceTheorems, TLAPS

\* The numbers in s go up; all numbers in s are below all in t.
InOrder(s) == \A i, j \in 1..Len(s) : i < j => s[i] < s[j]
Before(s, t) == \A i \in 1..Len(s), j \in 1..Len(t) : s[i] < t[j]

\* The elements of a sequence.
LEMMA RangeFacts ==
    ASSUME NEW S, NEW s \in Seq(S)
    PROVE  /\ Range(s) = {s[i] : i \in 1..Len(s)} /\ Range(s) \subseteq S
           /\ Len(s) \in Nat /\ \A i \in 1..Len(s) : s[i] \in S
           /\ \A e \in Range(s) : \E i \in 1..Len(s) : s[i] = e
BY DEF Range

LEMMA ConcatRange ==
    ASSUME NEW S, NEW s \in Seq(S), NEW t \in Seq(S)
    PROVE  Range(s \o t) = Range(s) \cup Range(t)
<1>1. /\ s \o t \in Seq(S) /\ Len(s \o t) = Len(s) + Len(t)
      /\ \A i \in 1..(Len(s) + Len(t)) :
            (s \o t)[i] = IF i <= Len(s) THEN s[i] ELSE t[i - Len(s)]
  BY ConcatProperties
<1>2. Len(s) \in Nat /\ Len(t) \in Nat /\ DOMAIN s = 1..Len(s) /\ DOMAIN t = 1..Len(t)
  OBVIOUS
<1>3. DOMAIN (s \o t) = 1..(Len(s) + Len(t))
  BY <1>1
<1> HIDE DEF Range
<1>4. Range(s \o t) \subseteq Range(s) \cup Range(t)
  BY <1>1, <1>2, <1>3 DEF Range
<1>5. ASSUME NEW i \in 1..Len(s) PROVE s[i] \in Range(s \o t)
  <2>1. i \in 1..(Len(s) + Len(t)) /\ (s \o t)[i] = s[i]
    BY <1>1, <1>2
  <2> QED
    BY <2>1, <1>3 DEF Range
<1>6. ASSUME NEW i \in 1..Len(t) PROVE t[i] \in Range(s \o t)
  <2>1. Len(s) + i \in 1..(Len(s) + Len(t)) /\ (s \o t)[Len(s) + i] = t[i]
    BY <1>1, <1>2
  <2> QED
    BY <2>1, <1>3 DEF Range
<1> QED
  BY <1>2, <1>4, <1>5, <1>6 DEF Range

\* The elements of a sequence with one appended, and whether it still has no
\* repetition.
LEMMA AppendFacts ==
    ASSUME NEW S, NEW s \in Seq(S), NEW e \in S
    PROVE  /\ Append(s, e) \in Seq(S)
           /\ Range(Append(s, e)) = Range(s) \cup {e}
           /\ IsInjective(s) /\ e \notin Range(s) => IsInjective(Append(s, e))
<1>1. Append(s, e) \in Seq(S) /\ Len(Append(s, e)) = Len(s) + 1
  OBVIOUS
<1>2. \A i \in 1..Len(s) : Append(s, e)[i] = s[i]
  OBVIOUS
<1>3. Append(s, e)[Len(s) + 1] = e
  OBVIOUS
<1>4. DOMAIN Append(s, e) = (DOMAIN s) \cup {Len(s) + 1} /\ DOMAIN s = 1..Len(s)
  BY <1>1
<1>5. Range(Append(s, e)) = Range(s) \cup {e}
  BY <1>2, <1>3, <1>4 DEF Range
<1>6. ASSUME IsInjective(s), e \notin Range(s)
      PROVE  IsInjective(Append(s, e))
  BY <1>2, <1>3, <1>4, <1>6 DEF Range, IsInjective
<1> QED
  BY <1>1, <1>5, <1>6

\* The elements of a sequence without its head, and the fate of the head.
LEMMA TailFacts ==
    ASSUME NEW S, NEW s \in Seq(S), s # <<>>
    PROVE  /\ Tail(s) \in Seq(S) /\ Head(s) \in S
           /\ Len(Tail(s)) = Len(s) - 1
           /\ Head(s) \in Range(s)
           /\ Range(Tail(s)) \subseteq Range(s)
           /\ IsInjective(s) => /\ IsInjective(Tail(s))
                                /\ Head(s) \notin Range(Tail(s))
<1>1. Len(s) \in Nat /\ Len(s) > 0 /\ DOMAIN s = 1..Len(s)
  OBVIOUS
<1>2. Tail(s) \in Seq(S) /\ Head(s) \in S /\ Len(Tail(s)) = Len(s) - 1
  OBVIOUS
<1>3. Head(s) = s[1]
  BY <1>1
<1>4. \A i \in 1..(Len(s) - 1) : Tail(s)[i] = s[i + 1]
  OBVIOUS
<1>5. DOMAIN Tail(s) = 1..(Len(s) - 1)
  BY <1>1, <1>2
<1>6. Head(s) \in Range(s)
  BY <1>1, <1>3 DEF Range
<1>7. Range(Tail(s)) \subseteq Range(s)
  BY <1>1, <1>4, <1>5 DEF Range
<1>8. ASSUME IsInjective(s)
      PROVE  IsInjective(Tail(s)) /\ Head(s) \notin Range(Tail(s))
  <2>1. IsInjective(Tail(s))
    BY <1>1, <1>4, <1>5, <1>8 DEF IsInjective
  <2>2. \A i \in 1..(Len(s) - 1) : s[i + 1] # s[1]
    BY <1>1, <1>8 DEF IsInjective
  <2>3. Head(s) \notin Range(Tail(s))
    BY <2>2, <1>3, <1>4, <1>5 DEF Range
  <2> QED
    BY <2>1, <2>3
<1> QED
  BY <1>2, <1>6, <1>7, <1>8

\* The elements of a sequence are its head and those of its tail.
LEMMA HeadAndTail ==
    ASSUME NEW S, NEW s \in Seq(S), s # <<>>
    PROVE  Range(s) = {Head(s)} \cup Range(Tail(s))
<1>1. /\ Len(s) \in Nat /\ Len(s) > 0 /\ DOMAIN s = 1..Len(s) /\ Head(s) = s[1]
      /\ DOMAIN Tail(s) = 1..(Len(s) - 1)
      /\ \A i \in 1..(Len(s) - 1) : Tail(s)[i] = s[i + 1]
  OBVIOUS
<1>2. Head(s) \in Range(s) /\ Range(Tail(s)) \subseteq Range(s)
  BY TailFacts
<1>3. ASSUME NEW i \in 1..Len(s) PROVE s[i] \in {Head(s)} \cup Range(Tail(s))
  <2>1. CASE i = 1
    BY <2>1, <1>1
  <2>2. CASE i # 1
    <3>1. i - 1 \in 1..(Len(s) - 1) /\ Tail(s)[i - 1] = s[i]
      BY <2>2, <1>1
    <3> QED
      BY <3>1, <1>1 DEF Range
  <2> QED
    BY <2>1, <2>2
<1> QED
  BY <1>1, <1>2, <1>3 DEF Range

\* A sequence that goes on in order is in order.
LEMMA ConcatInOrder ==
    ASSUME NEW s \in Seq(Nat), NEW t \in Seq(Nat), InOrder(s), InOrder(t), Before(s, t)
    PROVE  /\ InOrder(s \o t)
           /\ \A u \in Seq(Nat) : Before(s, u) /\ Before(t, u) => Before(s \o t, u)
           /\ \A u \in Seq(Nat) : Before(u, s) /\ Before(u, t) => Before(u, s \o t)
<1>1. /\ Len(s \o t) = Len(s) + Len(t)
      /\ \A i \in 1..(Len(s) + Len(t)) :
            (s \o t)[i] = IF i <= Len(s) THEN s[i] ELSE t[i - Len(s)]
  BY ConcatProperties
<1>2. Len(s) \in Nat /\ Len(t) \in Nat
  OBVIOUS
<1> DEFINE c == s \o t
<1>3. \A i \in 1..Len(c) : \/ i \in 1..Len(s) /\ c[i] = s[i]
                          \/ \E k \in 1..Len(t) : i = Len(s) + k /\ c[i] = t[k]
  <2> SUFFICES ASSUME NEW i \in 1..Len(c)
               PROVE  \/ i \in 1..Len(s) /\ c[i] = s[i]
                      \/ \E k \in 1..Len(t) : i = Len(s) + k /\ c[i] = t[k]
    OBVIOUS
  <2>1. CASE i <= Len(s)
    BY <2>1, <1>1, <1>2
  <2>2. CASE i > Len(s)
    <3>1. i - Len(s) \in 1..Len(t) /\ c[i] = t[i - Len(s)] /\ i = Len(s) + (i - Len(s))
      BY <2>2, <1>1, <1>2
    <3> QED
      BY <3>1
  <2> QED
    BY <2>1, <2>2, <1>2, <1>1
<1> HIDE DEF c
<1>4. InOrder(c)
  <2> SUFFICES ASSUME NEW i \in 1..Len(c), NEW j \in 1..Len(c), i < j
               PROVE  c[i] < c[j]
    BY DEF InOrder
  <2>1. CASE i \in 1..Len(s) /\ c[i] = s[i]
    BY <2>1, <1>2, <1>3 DEF InOrder, Before
  <2>2. CASE \E k \in 1..Len(t) : i = Len(s) + k /\ c[i] = t[k]
    <3>1. PICK k \in 1..Len(t) : i = Len(s) + k /\ c[i] = t[k]
      BY <2>2
    <3>2. PICK l \in 1..Len(t) : j = Len(s) + l /\ c[j] = t[l]
      <4>1. j \notin 1..Len(s)
        BY <3>1, <1>2
      <4> QED
        BY <4>1, <1>3
    <3>3. k < l
      BY <3>1, <3>2, <1>2
    <3> QED
      BY <3>1, <3>2, <3>3 DEF InOrder
  <2> QED
    BY <2>1, <2>2, <1>3
<1>5. ASSUME NEW u \in Seq(Nat), Before(s, u), Before(t, u) PROVE Before(c, u)
  BY <1>3, <1>5 DEF Before
<1>6. ASSUME NEW u \in Seq(Nat), Before(u, s), Before(u, t) PROVE Before(u, c)
  BY <1>3, <1>6 DEF Before
<1> QED
  BY <1>4, <1>5, <1>6 DEF c

\* A number above all others may be appended.
LEMMA AppendInOrder ==
    ASSUME NEW S \in SUBSET Nat, NEW s \in Seq(S), NEW e \in S,
           InOrder(s), \A r \in Range(s) : r < e
    PROVE  InOrder(Append(s, e))
<1>1. /\ Len(Append(s, e)) = Len(s) + 1 /\ Len(s) \in Nat
      /\ \A i \in 1..Len(s) : Append(s, e)[i] = s[i]
      /\ Append(s, e)[Len(s) + 1] = e
  OBVIOUS
<1>2. \A i \in 1..Len(s) : s[i] \in Range(s)
  BY DEF Range
<1> QED
  BY <1>1, <1>2 DEF InOrder

\* The head of a sequence in order is below its tail, which is in order.
LEMMA TailInOrder ==
    ASSUME NEW S \in SUBSET Nat, NEW s \in Seq(S), s # <<>>, InOrder(s)
    PROVE  /\ InOrder(Tail(s))
           /\ \A r \in Range(Tail(s)) : Head(s) < r
           /\ \A r \in Range(s) : Head(s) <= r
<1>0. \A x \in S : x \in Int
  OBVIOUS
<1>1. /\ Len(s) \in Nat /\ Len(s) > 0 /\ Head(s) = s[1] /\ Head(s) \in S
      /\ Tail(s) \in Seq(S) /\ Len(Tail(s)) = Len(s) - 1
      /\ \A i \in 1..(Len(s) - 1) : Tail(s)[i] = s[i + 1]
  OBVIOUS
<1>2. InOrder(Tail(s))
  BY <1>1 DEF InOrder
<1>3. \A i \in 1..Len(s) : i > 1 => s[1] < s[i]
  BY <1>1 DEF InOrder
<1>4. \A r \in Range(Tail(s)) : Head(s) < r
  <2> SUFFICES ASSUME NEW r \in Range(Tail(s)) PROVE Head(s) < r
    OBVIOUS
  <2>1. PICK i \in 1..Len(Tail(s)) : Tail(s)[i] = r
    BY <1>1, RangeFacts
  <2> QED
    BY <2>1, <1>1, <1>3
<1>5. \A r \in Range(s) : Head(s) <= r
  <2> SUFFICES ASSUME NEW r \in Range(s) PROVE Head(s) <= r
    OBVIOUS
  <2>1. PICK i \in 1..Len(s) : s[i] = r
    BY RangeFacts
  <2>2. CASE i = 1
    <3>1. Head(s) = r /\ r \in Nat
      BY <2>1, <2>2, <1>1
    <3> QED
      BY <3>1
  <2>3. CASE i > 1
    <3>1. s[1] < s[i]
      BY <2>3, <1>3
    <3>2. s[1] \in S /\ s[i] \in S
      BY <1>1
    <3>3. s[1] \in Int /\ s[i] \in Int
      BY <1>0, <3>2
    <3>4. s[1] <= s[i]
      BY <3>1, <3>3
    <3> QED
      BY <2>1, <3>4, <1>1
  <2> QED
    BY <2>2, <2>3, <1>1
<1> QED
  BY <1>2, <1>4, <1>5

\* The empty sequence.
LEMMA EmptyFacts ==
    /\ Range(<<>>) = {} /\ InOrder(<<>>)
    /\ \A s : Before(s, <<>>) /\ Before(<<>>, s)
BY DEF Range, InOrder, Before


\* A sequence without one of its elements.
LEMMA RemoveAtType ==
    ASSUME NEW S, NEW s \in Seq(S), NEW i \in 1..Len(s)
    PROVE  RemoveAt(s, i) \in Seq(S)
<1>1. Len(s) \in Nat /\ i \in Nat /\ i >= 1 /\ i <= Len(s)
  OBVIOUS
<1>2. SubSeq(s, 1, i - 1) \in Seq(S)
  <2>1. \A k \in 1..(i - 1) : s[k] \in S
    BY <1>1
  <2> QED
    BY <1>1, <2>1, SubSeqProperties
<1>3. SubSeq(s, i + 1, Len(s)) \in Seq(S)
  <2>1. \A k \in (i + 1)..Len(s) : s[k] \in S
    BY <1>1
  <2> QED
    BY <1>1, <2>1, SubSeqProperties
<1>4. SubSeq(s, 1, i - 1) \o SubSeq(s, i + 1, Len(s)) \in Seq(S)
  BY <1>2, <1>3, ConcatProperties
<1> QED
  BY <1>4 DEF RemoveAt

=================================================================================
