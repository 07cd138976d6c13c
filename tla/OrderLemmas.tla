---------------------------- MODULE OrderLemmas ----------------------------
(***************************************************************************)
(* Lemmas about sequences whose elements increase, and about the turns (id *)
(* fields) of sequences of records: what the order proofs of Downlink and  *)
(* Uplink rest on. A packet that moves from the front of one queue to the  *)
(* end of the next leaves the queues' concatenation as it is, and one that *)
(* is lost is cut out of it.                                               *)
(***************************************************************************)
EXTENDS Naturals, Sequences, SequencesExt, SequenceTheorems, FiniteSetTheorems, TLAPS

Increasing(s) == \A i, j \in DOMAIN s : i < j => s[i] < s[j]

\* Every element of s is less than every element of t.
Before(s, t) == \A a \in ToSet(s), b \in ToSet(t) : a < b

Turns(s) == [i \in DOMAIN s |-> s[i].id]

\* Records that carry their turn.
Turned(S, N) == \A p \in S : p.id \in N
-----------------------------------------------------------------------------
\* The elements of a sequence, of its parts, and of no sequence at all.
LEMMA SetOfSeq ==
  ASSUME NEW S, NEW s \in Seq(S)
  PROVE  /\ ToSet(s) \in SUBSET S
         /\ \A i \in 1 .. Len(s) : s[i] \in ToSet(s)
         /\ \A e \in ToSet(s) : \E i \in 1 .. Len(s) : s[i] = e
BY DEF ToSet

LEMMA SetOfEmpty == ToSet(<<>>) = {}
BY DEF ToSet

LEMMA SetOfOne == ASSUME NEW e PROVE ToSet(<<e>>) = {e}
BY DEF ToSet

LEMMA SetOfConcat ==
  ASSUME NEW S, NEW s \in Seq(S), NEW t \in Seq(S)
  PROVE  ToSet(s \o t) = ToSet(s) \union ToSet(t)
<1>1. s \o t \in Seq(S) /\ Len(s \o t) = Len(s) + Len(t)
  BY ConcatProperties
<1>2. \A i \in 1 .. Len(s) + Len(t) : (s \o t)[i] = IF i <= Len(s) THEN s[i] ELSE t[i - Len(s)]
  BY ConcatProperties
<1>3. ASSUME NEW e \in ToSet(s \o t) PROVE e \in ToSet(s) \union ToSet(t)
  <2>1. PICK i \in 1 .. Len(s \o t) : (s \o t)[i] = e
    BY <1>1, SetOfSeq
  <2>2. CASE i <= Len(s)
    <3>1. i \in 1 .. Len(s) /\ s[i] = e
      BY <1>1, <1>2, <2>1, <2>2
    <3> QED
      BY <3>1, SetOfSeq
  <2>3. CASE i > Len(s)
    <3>1. i - Len(s) \in 1 .. Len(t) /\ t[i - Len(s)] = e
      BY <1>1, <1>2, <2>1, <2>3
    <3> QED
      BY <3>1, SetOfSeq
  <2> QED
    BY <2>2, <2>3, <1>1
<1>4. ASSUME NEW e \in ToSet(s) PROVE e \in ToSet(s \o t)
  <2>1. PICK i \in 1 .. Len(s) : s[i] = e
    BY SetOfSeq
  <2>2. i \in 1 .. Len(s \o t) /\ (s \o t)[i] = e
    BY <1>1, <1>2, <2>1
  <2> QED
    BY <1>1, <2>2, SetOfSeq
<1>5. ASSUME NEW e \in ToSet(t) PROVE e \in ToSet(s \o t)
  <2>1. PICK i \in 1 .. Len(t) : t[i] = e
    BY SetOfSeq
  <2>2. Len(s) + i \in 1 .. Len(s \o t) /\ (s \o t)[Len(s) + i] = e
    BY <1>1, <1>2, <2>1
  <2> QED
    BY <1>1, <2>2, SetOfSeq
<1> QED
  BY <1>3, <1>4, <1>5

\* A concatenation increases if its parts do, one before the other.
LEMMA IncreasingConcat ==
  ASSUME NEW s \in Seq(Nat), NEW t \in Seq(Nat)
  PROVE  Increasing(s \o t) <=> Increasing(s) /\ Increasing(t) /\ Before(s, t)
<1>1. s \o t \in Seq(Nat) /\ Len(s \o t) = Len(s) + Len(t)
  BY ConcatProperties
<1>2. \A i \in 1 .. Len(s) + Len(t) : (s \o t)[i] = IF i <= Len(s) THEN s[i] ELSE t[i - Len(s)]
  BY ConcatProperties
<1>3. /\ DOMAIN (s \o t) = 1 .. Len(s) + Len(t) /\ Len(s) \in Nat /\ Len(t) \in Nat
      /\ DOMAIN s = 1 .. Len(s) /\ DOMAIN t = 1 .. Len(t)
  BY <1>1
<1>4. /\ \A i \in 1 .. Len(s) : i \in 1 .. Len(s) + Len(t) /\ (s \o t)[i] = s[i]
      /\ \A i \in 1 .. Len(t) : /\ Len(s) + i \in 1 .. Len(s) + Len(t)
                                /\ (s \o t)[Len(s) + i] = t[i]
  BY <1>2, <1>3
<1>5. ASSUME Increasing(s \o t) PROVE Increasing(s) /\ Increasing(t) /\ Before(s, t)
  <2>1. Increasing(s)
    BY <1>3, <1>4, <1>5 DEF Increasing
  <2>2. ASSUME NEW i \in DOMAIN t, NEW j \in DOMAIN t, i < j PROVE t[i] < t[j]
    <3>1. Len(s) + i < Len(s) + j
      BY <1>3, <2>2
    <3> QED
      BY <1>3, <1>4, <1>5, <3>1 DEF Increasing
  <2>3. ASSUME NEW a \in ToSet(s), NEW b \in ToSet(t) PROVE a < b
    <3>1. PICK i \in 1 .. Len(s) : s[i] = a
      BY SetOfSeq
    <3>2. PICK j \in 1 .. Len(t) : t[j] = b
      BY SetOfSeq
    <3>3. i < Len(s) + j
      BY <1>3
    <3> QED
      BY <1>3, <1>4, <1>5, <3>1, <3>2, <3>3 DEF Increasing
  <2> QED
    BY <2>1, <2>2, <2>3 DEF Increasing, Before
<1>6. ASSUME Increasing(s), Increasing(t), Before(s, t) PROVE Increasing(s \o t)
  <2> SUFFICES ASSUME NEW i \in 1 .. Len(s) + Len(t), NEW j \in 1 .. Len(s) + Len(t), i < j
               PROVE  (s \o t)[i] < (s \o t)[j]
    BY <1>3 DEF Increasing
  <2>1. CASE j <= Len(s)
    <3>1. i \in DOMAIN s /\ j \in DOMAIN s
      BY <1>3, <2>1
    <3>2. (s \o t)[i] = s[i] /\ (s \o t)[j] = s[j]
      BY <1>3, <1>4, <3>1
    <3> QED
      BY <1>6, <3>1, <3>2 DEF Increasing
  <2>2. CASE i > Len(s)
    <3>1. i - Len(s) \in DOMAIN t /\ j - Len(s) \in DOMAIN t /\ i - Len(s) < j - Len(s)
      BY <1>3, <2>2
    <3>2. t[i - Len(s)] < t[j - Len(s)]
      BY <1>6, <3>1 DEF Increasing
    <3> QED
      BY <1>2, <1>3, <2>2, <3>2
  <2>3. CASE i <= Len(s) /\ j > Len(s)
    <3>1. i \in 1 .. Len(s) /\ j - Len(s) \in 1 .. Len(t)
      BY <1>3, <2>3
    <3>2. s[i] \in ToSet(s) /\ t[j - Len(s)] \in ToSet(t)
      BY <3>1, SetOfSeq
    <3>3. s[i] < t[j - Len(s)]
      BY <1>6, <3>2 DEF Before
    <3> QED
      BY <1>2, <1>3, <2>3, <3>3
  <2> QED
    BY <2>1, <2>2, <2>3, <1>3
<1> QED
  BY <1>5, <1>6

\* An increasing sequence has no element twice.
LEMMA IncreasingDisjoint ==
  ASSUME NEW s \in Seq(Nat), NEW t \in Seq(Nat), Increasing(s \o t)
  PROVE  ToSet(s) \intersect ToSet(t) = {}
<1>1. Before(s, t)
  BY IncreasingConcat
<1>2. ToSet(s) \in SUBSET Nat
  BY SetOfSeq
<1>3. \A a \in ToSet(s) \intersect ToSet(t) : a < a
  BY <1>1 DEF Before
<1> QED
  BY <1>2, <1>3

\* There are no more elements than numbers to choose them from.
LEMMA IncreasingShort ==
  ASSUME NEW n \in Nat, NEW s \in Seq(1 .. n), Increasing(s)
  PROVE  Len(s) <= n
<1>1. Len(s) \in Nat /\ s \in [1 .. Len(s) -> 1 .. n]
  OBVIOUS
<1>2. ASSUME NEW i \in 1 .. Len(s), NEW j \in 1 .. Len(s), s[i] = s[j]
      PROVE  i = j
  <2>1. s[i] \in Nat /\ s[j] \in Nat /\ (i < j => s[i] < s[j]) /\ (j < i => s[j] < s[i])
    BY <1>1 DEF Increasing
  <2> QED
    BY <1>1, <1>2, <2>1
<1>3. s \in Injection(1 .. Len(s), 1 .. n)
  BY <1>1, <1>2 DEF Injection, IsInjective
<1>4. IsFiniteSet(1 .. n) /\ Cardinality(1 .. n) = n /\ Cardinality(1 .. Len(s)) = Len(s)
  <2>1. ASSUME NEW m \in Nat
        PROVE  IsFiniteSet(1 .. m) /\ Cardinality(1 .. m) = m
    <3>1. 1 \in Int /\ m \in Int
      OBVIOUS
    <3>2. /\ IsFiniteSet(1 .. m)
          /\ Cardinality(1 .. m) = IF 1 > m THEN 0 ELSE m - 1 + 1
      BY <3>1, FS_Interval, Zenon
    <3>3. (IF 1 > m THEN 0 ELSE m - 1 + 1) = m
      OBVIOUS
    <3> QED
      BY <3>2, <3>3
  <2> QED
    BY <1>1, <2>1
<1>5. Cardinality(1 .. Len(s)) <= Cardinality(1 .. n)
  BY <1>3, <1>4, FS_Injection
<1> QED
  BY <1>4, <1>5

\* Concatenation of sequences of numbers.
LEMMA ConcatNat ==
  ASSUME NEW s \in Seq(Nat), NEW t \in Seq(Nat), NEW u \in Seq(Nat)
  PROVE  s \o t \in Seq(Nat) /\ (s \o t) \o u = s \o (t \o u)
BY ConcatProperties, ConcatAssociative

LEMMA JoinNat == \A s, t \in Seq(Nat) : s \o t \in Seq(Nat)
BY ConcatProperties

LEMMA AssocNat == \A s, t, u \in Seq(Nat) : (s \o t) \o u = s \o (t \o u)
BY ConcatAssociative

\* A part of an increasing sequence may be cut out.
LEMMA IncreasingCut ==
  ASSUME NEW s \in Seq(Nat), NEW t \in Seq(Nat), NEW u \in Seq(Nat), Increasing(s \o t \o u)
  PROVE  Increasing(s \o u)
<1>1. s \o t \in Seq(Nat) /\ ToSet(s \o t) = ToSet(s) \union ToSet(t)
  BY ConcatProperties, SetOfConcat
<1>2. Increasing(s \o t) /\ Increasing(u) /\ Before(s \o t, u)
  BY <1>1, IncreasingConcat
<1>3. Increasing(s)
  BY <1>2, IncreasingConcat
<1>4. Before(s, u)
  BY <1>1, <1>2 DEF Before
<1> QED
  BY <1>2, <1>3, <1>4, IncreasingConcat

\* It may be continued by a greater element.
LEMMA IncreasingAppend ==
  ASSUME NEW s \in Seq(Nat), NEW n \in Nat, Increasing(s), \A e \in ToSet(s) : e < n
  PROVE  Increasing(s \o <<n>>)
<1>1. <<n>> \in Seq(Nat) /\ Increasing(<<n>>)
  BY DEF Increasing
<1>2. Before(s, <<n>>)
  BY SetOfOne DEF Before
<1> QED
  BY <1>1, <1>2, IncreasingConcat
-----------------------------------------------------------------------------
\* The turns of a sequence of records, of its parts and of its ends.
LEMMA TurnsTyped ==
  ASSUME NEW S, NEW N, Turned(S, N), NEW s \in Seq(S)
  PROVE  /\ Turns(s) \in Seq(N) /\ Len(Turns(s)) = Len(s)
         /\ \A i \in 1 .. Len(s) : Turns(s)[i] = s[i].id
<1>1. \A i \in 1 .. Len(s) : s[i] \in S
  OBVIOUS
<1>2. \A i \in 1 .. Len(s) : s[i].id \in N
  BY <1>1 DEF Turned
<1>3. Turns(s) = [i \in 1 .. Len(s) |-> s[i].id]
  BY DEF Turns
<1> QED
  BY <1>2, <1>3

LEMMA TurnsOfEmpty == Turns(<<>>) = <<>>
<1>1. DOMAIN <<>> = {}
  OBVIOUS
<1> QED
  BY <1>1 DEF Turns

LEMMA TurnsOfOne ==
  ASSUME NEW S, NEW N, Turned(S, N), NEW p \in S
  PROVE  Turns(<<p>>) = <<p.id>>
<1>1. <<p>> \in Seq(S) /\ Len(<<p>>) = 1 /\ <<p>>[1] = p
  OBVIOUS
<1>2. Turns(<<p>>) \in Seq(N) /\ Len(Turns(<<p>>)) = 1 /\ Turns(<<p>>)[1] = p.id
  BY <1>1, TurnsTyped
<1>3. p.id \in N
  BY DEF Turned
<1>4. <<p.id>> \in Seq(N) /\ Len(<<p.id>>) = 1 /\ <<p.id>>[1] = p.id
  BY <1>3
<1> QED
  BY <1>2, <1>4, SeqEqual

LEMMA TurnsOfConcat ==
  ASSUME NEW S, NEW N, Turned(S, N), NEW s \in Seq(S), NEW t \in Seq(S)
  PROVE  Turns(s \o t) = Turns(s) \o Turns(t)
<1>1. /\ s \o t \in Seq(S) /\ Len(s \o t) = Len(s) + Len(t)
      /\ \A i \in 1 .. Len(s) + Len(t) : (s \o t)[i] = IF i <= Len(s) THEN s[i] ELSE t[i - Len(s)]
  BY ConcatProperties
<1>2. /\ Turns(s \o t) \in Seq(N) /\ Len(Turns(s \o t)) = Len(s) + Len(t)
      /\ \A i \in 1 .. Len(s) + Len(t) : Turns(s \o t)[i] = (s \o t)[i].id
  BY <1>1, TurnsTyped
<1>3. /\ Turns(s) \in Seq(N) /\ Len(Turns(s)) = Len(s) /\ Turns(t) \in Seq(N) /\ Len(Turns(t)) = Len(t)
      /\ \A i \in 1 .. Len(s) : Turns(s)[i] = s[i].id
      /\ \A i \in 1 .. Len(t) : Turns(t)[i] = t[i].id
  BY TurnsTyped
<1>4. /\ Turns(s) \o Turns(t) \in Seq(N) /\ Len(Turns(s) \o Turns(t)) = Len(s) + Len(t)
      /\ \A i \in 1 .. Len(s) + Len(t) :
           (Turns(s) \o Turns(t))[i] = IF i <= Len(s) THEN Turns(s)[i] ELSE Turns(t)[i - Len(s)]
  <2>1. /\ Turns(s) \o Turns(t) \in Seq(N)
        /\ Len(Turns(s) \o Turns(t)) = Len(Turns(s)) + Len(Turns(t))
        /\ \A i \in 1 .. Len(Turns(s)) + Len(Turns(t)) :
             (Turns(s) \o Turns(t))[i] =
               IF i <= Len(Turns(s)) THEN Turns(s)[i] ELSE Turns(t)[i - Len(Turns(s))]
    BY <1>3, ConcatProperties
  <2> QED
    BY <1>3, <2>1
<1>5. ASSUME NEW i \in 1 .. Len(s) + Len(t)
      PROVE  Turns(s \o t)[i] = (Turns(s) \o Turns(t))[i]
  <2>1. Len(s) \in Nat /\ Len(t) \in Nat
    OBVIOUS
  <2>2. CASE i <= Len(s)
    BY <1>1, <1>2, <1>3, <1>4, <2>1, <2>2
  <2>3. CASE i > Len(s)
    <3>1. i - Len(s) \in 1 .. Len(t)
      BY <2>1, <2>3
    <3>2. (s \o t)[i] = t[i - Len(s)]
      BY <1>1, <2>1, <2>3
    <3>3. (Turns(s) \o Turns(t))[i] = Turns(t)[i - Len(s)]
      BY <1>4, <2>1, <2>3
    <3> QED
      BY <1>2, <1>3, <3>1, <3>2, <3>3
  <2>4. i <= Len(s) \/ i > Len(s)
    BY <2>1
  <2> QED
    BY <2>2, <2>3, <2>4
<1> QED
  BY <1>2, <1>4, <1>5, SeqEqual

\* The first element apart.
LEMMA HeadFirst ==
  ASSUME NEW S, NEW s \in Seq(S), s # <<>>
  PROVE  /\ Head(s) \in S /\ Tail(s) \in Seq(S) /\ <<Head(s)>> \in Seq(S)
         /\ s = <<Head(s)>> \o Tail(s)
<1>1. /\ Head(s) \in S /\ Tail(s) \in Seq(S) /\ Len(Tail(s)) = Len(s) - 1
      /\ \A i \in 1 .. Len(Tail(s)) : Tail(s)[i] = s[i + 1]
  BY HeadTailProperties
<1>2. <<Head(s)>> \in Seq(S) /\ Len(<<Head(s)>>) = 1 /\ <<Head(s)>>[1] = Head(s) /\ Head(s) = s[1]
  BY <1>1
<1>3. /\ <<Head(s)>> \o Tail(s) \in Seq(S) /\ Len(<<Head(s)>> \o Tail(s)) = Len(s)
      /\ \A i \in 1 .. Len(s) :
           (<<Head(s)>> \o Tail(s))[i] = IF i <= 1 THEN <<Head(s)>>[i] ELSE Tail(s)[i - 1]
  BY <1>1, <1>2, ConcatProperties
<1>4. ASSUME NEW i \in 1 .. Len(s) PROVE s[i] = (<<Head(s)>> \o Tail(s))[i]
  <2>1. CASE i = 1
    BY <1>2, <1>3, <2>1
  <2>2. CASE i # 1
    <3>1. i - 1 \in 1 .. Len(Tail(s)) /\ (i - 1) + 1 = i
      BY <1>1, <2>2
    <3> QED
      BY <1>1, <1>3, <2>2, <3>1
  <2> QED
    BY <2>1, <2>2
<1> QED
  BY <1>1, <1>2, <1>3, <1>4, SeqEqual

\* Append is concatenation.
LEMMA AppendConcatenates ==
  ASSUME NEW S, NEW s \in Seq(S), NEW e \in S
  PROVE  Append(s, e) = s \o <<e>> /\ <<e>> \in Seq(S) /\ Append(s, e) \in Seq(S)
OBVIOUS
-----------------------------------------------------------------------------
(* Books on turns 1 .. m, of which n are taken: r is what has arrived, t is  *)
(* on its way, and fate tells of each turn what became of it.                *)

Books(r, t, n, m, fate, arrived) ==
  /\ r \in Seq(1 .. n) /\ t \in Seq(1 .. n) /\ n \in 0 .. m
  /\ Increasing(r \o t)
  /\ \A i \in 1 .. m :
       /\ fate[i] = "none" <=> (i > n \/ i \in ToSet(t))
       /\ fate[i] = arrived <=> i \in ToSet(r)

\* A wider bound on the elements.
LEMMA Wider ==
  ASSUME NEW n \in Nat, NEW k \in Nat, n <= k, NEW s \in Seq(1 .. n)
  PROVE  s \in Seq(1 .. k) /\ s \in Seq(Nat)
<1>1. \A i \in 1 .. Len(s) : s[i] \in 1 .. k /\ s[i] \in Nat
  OBVIOUS
<1> QED
  BY <1>1

\* What holds of a concatenation's elements holds of its parts' elements.
LEMMA PartsTyped ==
  ASSUME NEW S, NEW s \in Seq(Nat), NEW t \in Seq(Nat), s \o t \in Seq(S)
  PROVE  s \in Seq(S) /\ t \in Seq(S)
<1>1. /\ Len(s \o t) = Len(s) + Len(t) /\ Len(s) \in Nat /\ Len(t) \in Nat
      /\ \A i \in 1 .. Len(s) + Len(t) : (s \o t)[i] = IF i <= Len(s) THEN s[i] ELSE t[i - Len(s)]
  BY ConcatProperties
<1>2. \A i \in 1 .. Len(s) + Len(t) : (s \o t)[i] \in S
  BY <1>1, ElementOfSeq
<1>3. \A i \in 1 .. Len(s) : i \in 1 .. Len(s) + Len(t) /\ (s \o t)[i] = s[i]
  BY <1>1
<1>4. \A i \in 1 .. Len(t) : /\ Len(s) + i \in 1 .. Len(s) + Len(t)
                             /\ (s \o t)[Len(s) + i] = t[i]
  BY <1>1
<1>5. (\A i \in 1 .. Len(s) : s[i] \in S) /\ (\A i \in 1 .. Len(t) : t[i] \in S)
  BY <1>2, <1>3, <1>4
<1> QED
  BY <1>5

\* The next turn is taken and sets out.
LEMMA BooksSetOut ==
  ASSUME NEW r, NEW t, NEW m \in Nat, NEW n, n < m, NEW fate, NEW arrived,
         Books(r, t, n, m, fate, arrived)
  PROVE  Books(r, t \o <<n + 1>>, n + 1, m, fate, arrived)
<1>1. n \in Nat /\ n + 1 \in 0 .. m
  BY DEF Books
<1>2. /\ r \in Seq(1 .. n + 1) /\ t \in Seq(1 .. n + 1) /\ r \in Seq(Nat) /\ t \in Seq(Nat)
  BY <1>1, Wider DEF Books
<1>3. <<n + 1>> \in Seq(1 .. n + 1) /\ <<n + 1>> \in Seq(Nat)
  BY <1>1
<1>4. t \o <<n + 1>> \in Seq(1 .. n + 1)
  BY <1>2, <1>3, ConcatProperties
<1>5. r \o t \in Seq(Nat) /\ r \o (t \o <<n + 1>>) = (r \o t) \o <<n + 1>>
  BY <1>2, <1>3, ConcatProperties, ConcatAssociative
<1>6. \A e \in ToSet(r \o t) : e < n + 1
  <2>1. ToSet(r) \in SUBSET (1 .. n) /\ ToSet(t) \in SUBSET (1 .. n)
    BY SetOfSeq DEF Books
  <2>2. ToSet(r \o t) = ToSet(r) \union ToSet(t)
    BY <1>2, SetOfConcat
  <2> QED
    BY <1>1, <2>1, <2>2
<1>7. Increasing(r \o (t \o <<n + 1>>))
  <2>1. Increasing(r \o t) /\ n + 1 \in Nat
    BY <1>1 DEF Books
  <2>2. Increasing((r \o t) \o <<n + 1>>)
    BY <1>5, <1>6, <2>1, IncreasingAppend
  <2> QED
    BY <1>5, <2>2
<1>8. ToSet(t \o <<n + 1>>) = ToSet(t) \union {n + 1}
  <2>1. ToSet(<<n + 1>>) = {n + 1}
    BY SetOfOne
  <2>2. ToSet(t \o <<n + 1>>) = ToSet(t) \union ToSet(<<n + 1>>)
    BY <1>2, <1>3, SetOfConcat
  <2> QED
    BY <2>1, <2>2
<1>9. \A i \in 1 .. m : i > n <=> (i > n + 1 \/ i = n + 1)
  BY <1>1
<1> QED
  BY <1>1, <1>2, <1>4, <1>7, <1>8, <1>9 DEF Books

\* The next turn is taken and gone at once.
LEMMA BooksTurnedAway ==
  ASSUME NEW r, NEW t, NEW m \in Nat, NEW n, n < m, NEW fate, NEW arrived, NEW g,
         Books(r, t, n, m, fate, arrived),
         g[n + 1] # "none", g[n + 1] # arrived,
         \A i \in 1 .. m : i # n + 1 => g[i] = fate[i]
  PROVE  Books(r, t, n + 1, m, g, arrived)
<1>1. n \in Nat /\ n + 1 \in 0 .. m /\ n + 1 \in 1 .. m
  BY DEF Books
<1>2. r \in Seq(1 .. n + 1) /\ t \in Seq(1 .. n + 1)
  BY <1>1, Wider DEF Books
<1>3. ToSet(r) \in SUBSET (1 .. n) /\ ToSet(t) \in SUBSET (1 .. n)
  BY SetOfSeq DEF Books
<1>4. n + 1 \notin ToSet(r) /\ n + 1 \notin ToSet(t)
  BY <1>1, <1>3
<1>5. \A i \in 1 .. m : i # n + 1 => (i > n <=> i > n + 1)
  BY <1>1
<1>6. ~(n + 1 > n + 1)
  BY <1>1
<1>7. ASSUME NEW i \in 1 .. m
      PROVE  /\ g[i] = "none" <=> (i > n + 1 \/ i \in ToSet(t))
             /\ g[i] = arrived <=> i \in ToSet(r)
  <2>1. CASE i = n + 1
    BY <1>4, <1>6, <2>1
  <2>2. CASE i # n + 1
    BY <1>5, <2>2 DEF Books
  <2> QED
    BY <2>1, <2>2
<1> QED
  BY <1>1, <1>2, <1>7 DEF Books

\* Some of what is on its way is lost.
LEMMA BooksLost ==
  ASSUME NEW r, NEW x, NEW y, NEW z, NEW m \in Nat, NEW n, NEW fate, NEW arrived, NEW g,
         x \in Seq(Nat), y \in Seq(Nat), z \in Seq(Nat),
         Books(r, x \o y \o z, n, m, fate, arrived),
         \A i \in 1 .. m : IF i \in ToSet(y) THEN g[i] # "none" /\ g[i] # arrived
                                             ELSE g[i] = fate[i]
  PROVE  Books(r, x \o z, n, m, g, arrived)
<1>1. n \in Nat
  BY DEF Books
<1>2. r \in Seq(Nat)
  BY <1>1, Wider DEF Books
<1>3. x \in Seq(1 .. n) /\ y \in Seq(1 .. n) /\ z \in Seq(1 .. n)
  <2>1. x \o y \in Seq(Nat) /\ (x \o y) \o z \in Seq(1 .. n)
    BY ConcatProperties DEF Books
  <2>2. x \o y \in Seq(1 .. n) /\ z \in Seq(1 .. n)
    BY <2>1, PartsTyped
  <2> QED
    BY <2>2, PartsTyped
<1>4. x \o y \in Seq(Nat) /\ r \o x \in Seq(Nat) /\ x \o z \in Seq(Nat)
  BY <1>2, ConcatNat
<1>5. x \o z \in Seq(1 .. n)
  BY <1>3, ConcatProperties
<1>6. /\ (r \o x) \o y \o z = r \o (x \o y \o z)
      /\ (r \o x) \o z = r \o (x \o z)
  <2>1. (r \o x) \o y = r \o (x \o y)
    BY <1>2, ConcatNat
  <2>2. (r \o (x \o y)) \o z = r \o ((x \o y) \o z)
    BY <1>2, <1>4, ConcatNat
  <2>3. (r \o x) \o z = r \o (x \o z)
    BY <1>2, ConcatNat
  <2> QED
    BY <2>1, <2>2, <2>3
<1>7. Increasing(r \o (x \o z))
  BY <1>2, <1>4, <1>6, IncreasingCut DEF Books
<1>8. (r \o x) \o y \in Seq(Nat) /\ Increasing((r \o x) \o y) /\ Before((r \o x) \o y, z)
  BY <1>2, <1>4, <1>6, ConcatProperties, IncreasingConcat DEF Books
<1>9. ToSet(r \o x) \intersect ToSet(y) = {}
  BY <1>2, <1>4, <1>8, IncreasingDisjoint
<1>10. ToSet((r \o x) \o y) \intersect ToSet(z) = {}
  BY <1>2, <1>6, <1>8, IncreasingDisjoint DEF Books
<1>11. /\ ToSet(r \o x) = ToSet(r) \union ToSet(x)
      /\ ToSet((r \o x) \o y) = ToSet(r \o x) \union ToSet(y)
      /\ ToSet(x \o y) = ToSet(x) \union ToSet(y)
      /\ ToSet(x \o y \o z) = ToSet(x \o y) \union ToSet(z)
      /\ ToSet(x \o z) = ToSet(x) \union ToSet(z)
  <2>1. \A u, v \in Seq(Nat) : ToSet(u \o v) = ToSet(u) \union ToSet(v)
    BY SetOfConcat
  <2> QED
    BY <1>2, <1>4, <2>1
<1>12. ToSet(y) \in SUBSET (1 .. n)
  BY <1>3, SetOfSeq
<1>13. ASSUME NEW i \in 1 .. m
       PROVE  /\ g[i] = "none" <=> (i > n \/ i \in ToSet(x \o z))
              /\ g[i] = arrived <=> i \in ToSet(r)
  <2>1. CASE i \in ToSet(y)
    <3>1. ~(i > n)
      BY <1>1, <1>12, <2>1
    <3> QED
      BY <1>9, <1>10, <1>11, <2>1, <3>1
  <2>2. CASE i \notin ToSet(y)
    BY <1>11, <2>2 DEF Books
  <2> QED
    BY <2>1, <2>2
<1> QED
  BY <1>5, <1>7, <1>13 DEF Books

\* The first of what is on its way arrives.
LEMMA BooksArrive ==
  ASSUME NEW r, NEW y, NEW z, NEW m \in Nat, NEW n, NEW fate, NEW arrived, NEW g,
         y \in Seq(Nat), z \in Seq(Nat), arrived # "none",
         Books(r, y \o z, n, m, fate, arrived),
         \A i \in 1 .. m : g[i] = IF i \in ToSet(y) THEN arrived ELSE fate[i]
  PROVE  Books(r \o y, z, n, m, g, arrived)
<1>1. n \in Nat
  BY DEF Books
<1>2. r \in Seq(Nat)
  BY <1>1, Wider DEF Books
<1>3. r \in Seq(1 .. n) /\ y \in Seq(1 .. n) /\ z \in Seq(1 .. n)
  BY PartsTyped DEF Books
<1>4. r \o y \in Seq(Nat)
  BY <1>2, ConcatNat
<1>5. r \o y \in Seq(1 .. n)
  BY <1>3, ConcatProperties
<1>6. (r \o y) \o z = r \o (y \o z)
  BY <1>2, ConcatNat
<1>7. Increasing((r \o y) \o z)
  BY <1>6 DEF Books
<1>8. ToSet(r \o y) \intersect ToSet(z) = {}
  BY <1>2, <1>4, <1>7, IncreasingDisjoint
<1>9. ToSet(r \o y) = ToSet(r) \union ToSet(y) /\ ToSet(y \o z) = ToSet(y) \union ToSet(z)
  BY <1>2, SetOfConcat
<1>10. ToSet(y) \in SUBSET (1 .. n)
  BY <1>3, SetOfSeq
<1>11. ASSUME NEW i \in 1 .. m
      PROVE  /\ g[i] = "none" <=> (i > n \/ i \in ToSet(z))
             /\ g[i] = arrived <=> i \in ToSet(r \o y)
  <2>1. CASE i \in ToSet(y)
    <3>1. ~(i > n)
      BY <1>1, <1>10, <2>1
    <3> QED
      BY <1>8, <1>9, <2>1, <3>1
  <2>2. CASE i \notin ToSet(y)
    BY <1>9, <2>2 DEF Books
  <2> QED
    BY <2>1, <2>2
<1> QED
  BY <1>7, <1>11, <1>3, <1>5 DEF Books

\* What is on its way has met no end yet.
LEMMA BooksOpen ==
  ASSUME NEW r, NEW t, NEW m \in Nat, NEW n, NEW fate, NEW arrived,
         Books(r, t, n, m, fate, arrived)
  PROVE  /\ ToSet(t) \in SUBSET (1 .. m)
         /\ \A i \in ToSet(t) : fate[i] = "none"
         /\ \A i \in 1 .. m : i > n => fate[i] = "none"
<1>1. ToSet(t) \in SUBSET (1 .. n) /\ 1 .. n \subseteq 1 .. m
  BY SetOfSeq DEF Books
<1> QED
  BY <1>1 DEF Books

\* A turn before one that has arrived has met its end, too.
LEMMA BooksPast ==
  ASSUME NEW r, NEW t, NEW m \in Nat, NEW n, NEW fate, NEW arrived,
         Books(r, t, n, m, fate, arrived), NEW k \in DOMAIN r, NEW i \in 1 .. r[k]
  PROVE  /\ i \in 1 .. m
         /\ fate[i] # "none"
         /\ fate[i] = arrived <=> i \in ToSet(r)
<1>1. n \in Nat /\ n <= m /\ r \in Seq(1 .. n) /\ t \in Seq(1 .. n)
  BY DEF Books
<1>2. r \in Seq(Nat) /\ t \in Seq(Nat)
  BY <1>1, Wider
<1>3. r[k] \in ToSet(r) /\ r[k] \in 1 .. n
  BY <1>1, SetOfSeq
<1>4. i \in 1 .. n /\ i \in 1 .. m /\ i <= r[k]
  BY <1>1, <1>3
<1>5. i \notin ToSet(t)
  <2>1. \A b \in ToSet(t) : r[k] < b
    BY <1>2, <1>3, IncreasingConcat DEF Books, Before
  <2> QED
    BY <1>3, <1>4, <2>1
<1> QED
  BY <1>1, <1>4, <1>5 DEF Books
=============================================================================
