--------------------------- MODULE RingTheorems ---------------------------
(***************************************************************************)
(* Facts the proofs share, most of them about rings.  A vring index is a   *)
(* counter that wraps at M (2^16), and the entry it selects is its residue *)
(* modulo the number N of entries, which divides M.  What the driver and   *)
(* the device hold between two such counters is a window of the ring.      *)
(***************************************************************************)
EXTENDS Integers, Sequences, FiniteSets, Functions, FiniteSetTheorems, SequenceTheorems,
        WellFoundedInduction, TLAPS

(* A set of numbers that has an element has a least one. *)
LEMMA LeastNumber ==
  ASSUME NEW S \in SUBSET Nat, S # {}
  PROVE  \E x \in S : \A y \in S : x <= y
<1> DEFINE R == {ss \in Nat \X Nat : ss[1] < ss[2]}
<1>1. IsWellFoundedOn(R, Nat)
  BY NatLessThanWellFounded, Zenon DEF OpToRel
<1>2. PICK x \in S : \A y \in S : ~(<<y, x>> \in R)
  <2> HIDE DEF R
  <2> QED BY <1>1, WFMin
<1>3. ASSUME NEW y \in S, ~(x <= y) PROVE FALSE
  <2>1. x \in Nat /\ y \in Nat
    OBVIOUS
  <2>2. y < x
    BY <1>3, <2>1
  <2>3. <<y, x>> \in R
    BY <2>1, <2>2
  <2>4. QED BY <1>2, <2>3
<1>4. QED BY <1>3

----------------------------------------------------------------------------
(* Arithmetic of counters that wrap. *)

(* A positive multiple is at least as large as what it is a multiple of.   *)
LEMMA MultipleBound ==
  ASSUME NEW M \in Nat \ {0}, NEW k \in Int
  PROVE  /\ k >= 1 => M * k >= M
         /\ k <= -1 => M * k <= -M
OBVIOUS

(* Division with remainder. *)
LEMMA DivMod ==
  ASSUME NEW M \in Nat \ {0}, NEW a \in Int
  PROVE  /\ a % M \in 0 .. M - 1
         /\ a \div M \in Int
         /\ a = M * (a \div M) + (a % M)
OBVIOUS

(* The remainder is the only number in range that differs from the dividend *)
(* by a multiple.                                                           *)
LEMMA ModUnique ==
  ASSUME NEW M \in Nat \ {0}, NEW a \in Int, NEW q \in Int, NEW r \in 0 .. M - 1,
         a = M * q + r
  PROVE  a % M = r
<1> DEFINE p == a \div M
           s == a % M
<1>1. p \in Int /\ s \in 0 .. M - 1 /\ a = M * p + s
  BY DivMod
<1> HIDE DEF p, s
<1>2. M * (p - q) = r - s
  BY <1>1
<1>3. ~(p - q >= 1) /\ ~(p - q <= -1)
  BY <1>1, <1>2, MultipleBound
<1>4. p = q
  BY <1>1, <1>3
<1>5. s = r
  BY <1>1, <1>4
<1>6. QED BY <1>5 DEF s

(* Numbers in range are their own remainders. *)
LEMMA ModSmall ==
  ASSUME NEW M \in Nat \ {0}, NEW r \in 0 .. M - 1
  PROVE  r % M = r
<1>1. r = M * 0 + r
  OBVIOUS
<1>2. QED BY <1>1, ModUnique

(* Adding a multiple of the modulus changes no remainder. *)
LEMMA ModPlusMultiple ==
  ASSUME NEW M \in Nat \ {0}, NEW a \in Int, NEW k \in Int
  PROVE  (a + M * k) % M = a % M
<1> DEFINE p == a \div M
           r == a % M
<1>1. p \in Int /\ r \in 0 .. M - 1 /\ a = M * p + r
  BY DivMod
<1> HIDE DEF p, r
<1>2. p + k \in Int /\ M * k \in Int /\ a + M * k = M * (p + k) + r
  BY <1>1
<1>3. (a + M * k) % M = r
  BY <1>1, <1>2, ModUnique
<1>4. QED BY <1>3 DEF r

(* Congruent numbers differ by a multiple, and the other way around. *)
LEMMA Congruent ==
  ASSUME NEW M \in Nat \ {0}, NEW a \in Int, NEW b \in Int
  PROVE  (a % M = b % M) <=> (\E k \in Int : a = b + M * k)
<1>1. ASSUME NEW k \in Int, a = b + M * k PROVE a % M = b % M
  BY <1>1, ModPlusMultiple
<1>2. ASSUME a % M = b % M PROVE \E k \in Int : a = b + M * k
  <2> DEFINE p == a \div M
             q == b \div M
             r == b % M
  <2>1. p \in Int /\ q \in Int /\ r \in Int /\ a = M * p + r /\ b = M * q + r
    BY <1>2, DivMod
  <2> HIDE DEF p, q, r
  <2>2. p - q \in Int /\ a = b + M * (p - q)
    BY <2>1
  <2>3. QED BY <2>2
<1>3. QED BY <1>1, <1>2

(* Congruent numbers stay congruent when one is added to, or taken from,   *)
(* both.                                                                   *)
LEMMA ModStep ==
  ASSUME NEW M \in Nat \ {0}, NEW a \in Int, NEW b \in Int, a % M = b % M
  PROVE  /\ (a + 1) % M = (b + 1) % M
         /\ (a - 1) % M = (b - 1) % M
<1>1. PICK k \in Int : a = b + M * k
  BY Congruent
<1> DEFINE x == b + 1
           y == b - 1
<1>2. x \in Int /\ y \in Int /\ a + 1 = x + M * k /\ a - 1 = y + M * k
  BY <1>1
<1> HIDE DEF x, y
<1>3. (a + 1) % M = x % M /\ (a - 1) % M = y % M
  BY <1>2, ModPlusMultiple
<1>4. QED BY <1>3 DEF x, y

(* Numbers that differ by the modulus are congruent. *)
LEMMA ModShift ==
  ASSUME NEW M \in Nat \ {0}, NEW y \in Int
  PROVE  (y + M) % M = y % M
<1> DEFINE k == 1
<1>1. k \in Int /\ y + M = y + M * k
  OBVIOUS
<1> HIDE DEF k
<1>2. QED BY <1>1, ModPlusMultiple

(* A counter that wraps at M steps by one or back to 0. *)
LEMMA WrapStep ==
  ASSUME NEW M \in Nat, M > 1, NEW i \in 0 .. M - 1
  PROVE  /\ (i + 1) % M = IF i = M - 1 THEN 0 ELSE i + 1
         /\ (i + 1) % M \in 0 .. M - 1
         /\ (i + 1) % M # i
<1>1. CASE i = M - 1
  <2>1. i + 1 = M * 1 + 0
    BY <1>1
  <2>2. (i + 1) % M = 0
    BY <2>1, ModUnique
  <2>3. QED BY <1>1, <2>2
<1>2. CASE i # M - 1
  <2>1. i + 1 \in 0 .. M - 1
    BY <1>2
  <2>2. QED BY <1>2, <2>1, ModSmall
<1>3. QED BY <1>1, <1>2

(* Stepping a counter that wraps at a multiple of N steps its residue      *)
(* modulo N: where it wraps, the residue wraps with it.                    *)
LEMMA ResidueStep ==
  ASSUME NEW M \in Nat \ {0}, NEW N \in Nat \ {0}, M % N = 0, NEW x \in Int
  PROVE  (x + M) % N = x % N
<1> DEFINE q == M \div N
<1>1. q \in Int /\ M = N * q + (M % N)
  BY DivMod
<1>2. M = N * q
  BY <1>1
<1> HIDE DEF q
<1>3. x + M = x + N * q
  BY <1>2
<1>4. QED BY <1>1, <1>3, ModPlusMultiple

(* Numbers that are less than N apart have different residues. *)
LEMMA ResiduesDiffer ==
  ASSUME NEW N \in Nat \ {0}, NEW x \in Int, NEW y \in Int, x < y, y - x < N
  PROVE  x % N # y % N
<1> SUFFICES ASSUME x % N = y % N PROVE FALSE
  OBVIOUS
<1>1. PICK k \in Int : y = x + N * k
  BY Congruent
<1>2. ~(k >= 1)
  BY <1>1, MultipleBound
<1>3. N * k <= 0
  BY <1>2
<1>4. QED BY <1>1, <1>3

----------------------------------------------------------------------------
(* Sequences in which no element occurs twice. *)

(* Appending a new element repeats none. *)
LEMMA InjectiveAppend ==
  ASSUME NEW S, NEW s \in Seq(S), NEW v \in S, IsInjective(s), v \notin Range(s)
  PROVE  IsInjective(Append(s, v)) /\ Range(Append(s, v)) = Range(s) \cup {v}
<1> DEFINE t == Append(s, v)
<1>1. /\ Len(s) \in Nat /\ DOMAIN s = 1 .. Len(s) /\ DOMAIN t = 1 .. Len(s) + 1
      /\ \A i \in 1 .. Len(s) : t[i] = s[i]
      /\ t[Len(s) + 1] = v
  BY AppendProperties, LenProperties
<1> HIDE DEF t
<1>2. IsInjective(t)
  BY <1>1 DEF IsInjective, Range
<1>3. Range(t) = Range(s) \cup {v}
  BY <1>1 DEF Range
<1>4. QED BY <1>2, <1>3 DEF t

(* Taking the first element away leaves the others, once each. *)
LEMMA InjectiveTail ==
  ASSUME NEW S, NEW s \in Seq(S), s # <<>>, IsInjective(s)
  PROVE  /\ IsInjective(Tail(s))
         /\ Head(s) \in Range(s)
         /\ Range(Tail(s)) = Range(s) \ {Head(s)}
<1> DEFINE t == Tail(s)
<1>1. /\ Len(s) \in Nat \ {0} /\ DOMAIN s = 1 .. Len(s) /\ DOMAIN t = 1 .. Len(s) - 1
      /\ \A i \in 1 .. Len(s) - 1 : t[i] = s[i + 1]
      /\ Head(s) = s[1]
  BY HeadTailProperties, LenProperties, EmptySeq
<1> HIDE DEF t
<1>2. IsInjective(t)
  BY <1>1 DEF IsInjective
<1>3. Head(s) \in Range(s)
  BY <1>1 DEF Range
<1>4. Range(t) \subseteq Range(s) \ {Head(s)}
  BY <1>1 DEF Range, IsInjective
<1>5. ASSUME NEW x \in Range(s) \ {Head(s)} PROVE x \in Range(t)
  <2>1. PICK i \in 1 .. Len(s) : x = s[i]
    BY <1>1 DEF Range
  <2>2. i - 1 \in 1 .. Len(s) - 1 /\ t[i - 1] = s[i]
    BY <1>1, <2>1
  <2>3. QED BY <1>1, <2>1, <2>2 DEF Range
<1>6. QED BY <1>2, <1>3, <1>4, <1>5 DEF t

(* A sequence without repetition is as long as the set of its elements. *)
LEMMA InjectiveLen ==
  ASSUME NEW S, NEW s \in Seq(S), IsInjective(s)
  PROVE  IsFiniteSet(Range(s)) /\ Cardinality(Range(s)) = Len(s)
<1>1. Len(s) \in Nat /\ s \in [1 .. Len(s) -> S] /\ DOMAIN s = 1 .. Len(s)
  BY LenProperties
<1>2. s \in Bijection(1 .. Len(s), Range(s))
  BY <1>1 DEF Bijection, Injection, Surjection, IsInjective, Range
<1>3. ExistsBijection(1 .. Len(s), Range(s))
  BY <1>2 DEF ExistsBijection
<1>4. QED BY <1>1, <1>3, FS_CountingElements, FS_NatBijection

(* ... and so no longer than the finite set it draws from. *)
LEMMA InjectiveBound ==
  ASSUME NEW S, IsFiniteSet(S), NEW s \in Seq(S), IsInjective(s)
  PROVE  Len(s) <= Cardinality(S)
<1>1. Range(s) \in SUBSET S
  BY RangeOfSeq
<1>2. QED BY <1>1, InjectiveLen, FS_Subset

(* It is shorter when an element of the set is missing. *)
LEMMA InjectiveStrict ==
  ASSUME NEW S, IsFiniteSet(S), NEW s \in Seq(S), IsInjective(s), NEW v \in S, v \notin Range(s)
  PROVE  Len(s) < Cardinality(S)
<1>1. Range(s) \in SUBSET (S \ {v})
  BY RangeOfSeq
<1>2. IsFiniteSet(S \ {v}) /\ Cardinality(S \ {v}) = Cardinality(S) - 1 /\ Cardinality(S) \in Nat
  BY FS_RemoveElement, FS_CardinalityType
<1>3. Cardinality(Range(s)) <= Cardinality(S) - 1
  BY <1>1, <1>2, FS_Subset
<1>4. Len(s) \in Nat
  BY LenProperties
<1>5. QED BY <1>2, <1>3, <1>4, InjectiveLen

(* The sizes of disjoint finite sets add up. *)
LEMMA DisjointSizes ==
  ASSUME NEW A, NEW B, IsFiniteSet(A), IsFiniteSet(B), A \cap B = {}
  PROVE  IsFiniteSet(A \cup B) /\ Cardinality(A \cup B) = Cardinality(A) + Cardinality(B)
<1>1. Cardinality(A) \in Nat /\ Cardinality(B) \in Nat /\ Cardinality({}) = 0
  BY FS_CardinalityType, FS_EmptySet
<1>2. /\ IsFiniteSet(A \cup B)
      /\ Cardinality(A \cup B) = Cardinality(A) + Cardinality(B) - Cardinality(A \cap B)
  BY FS_Union, Zenon
<1>3. Cardinality(A \cap B) = 0
  BY <1>1
<1>4. Cardinality(A) + Cardinality(B) - 0 = Cardinality(A) + Cardinality(B)
  BY <1>1
<1>5. QED BY <1>2, <1>3, <1>4, Zenon

(* Moving the head of one queue to the end of the queue before it changes  *)
(* nothing of what is queued in both.                                      *)
LEMMA ConcatMove ==
  ASSUME NEW S, NEW s \in Seq(S), NEW t \in Seq(S), t # <<>>
  PROVE  Append(s, Head(t)) \o Tail(t) = s \o t
<1>1. Len(s) \in Nat /\ Len(t) \in Nat \ {0} /\ Head(t) = t[1]
  BY LenProperties, EmptySeq
<1>2. /\ Head(t) \in S /\ Tail(t) \in Seq(S) /\ Len(Tail(t)) = Len(t) - 1
      /\ \A i \in 1 .. Len(t) - 1 : Tail(t)[i] = t[i + 1]
  BY HeadTailProperties
<1> DEFINE a == Append(s, Head(t))
           b == Tail(t)
<1>3. /\ a \in Seq(S) /\ Len(a) = Len(s) + 1 /\ a[Len(s) + 1] = t[1]
      /\ \A i \in 1 .. Len(s) : a[i] = s[i]
  BY <1>1, <1>2, AppendProperties
<1>4. b \in Seq(S) /\ Len(b) = Len(t) - 1 /\ \A i \in 1 .. Len(t) - 1 : b[i] = t[i + 1]
  BY <1>2
<1> HIDE DEF a, b
<1>5. /\ a \o b \in Seq(S) /\ Len(a \o b) = Len(a) + Len(b)
      /\ \A i \in 1 .. Len(a) + Len(b) :
           (a \o b)[i] = IF i <= Len(a) THEN a[i] ELSE b[i - Len(a)]
  BY <1>3, <1>4, ConcatProperties
<1>6. /\ s \o t \in Seq(S) /\ Len(s \o t) = Len(s) + Len(t)
      /\ \A i \in 1 .. Len(s) + Len(t) :
           (s \o t)[i] = IF i <= Len(s) THEN s[i] ELSE t[i - Len(s)]
  BY ConcatProperties
<1>7. ASSUME NEW i \in 1 .. Len(s) + Len(t) PROVE (a \o b)[i] = (s \o t)[i]
  <2>0. i \in 1 .. Len(a) + Len(b) /\ Len(a) = Len(s) + 1
    BY <1>1, <1>3, <1>4
  <2>a. (a \o b)[i] = IF i <= Len(a) THEN a[i] ELSE b[i - Len(a)]
    BY <2>0, <1>5
  <2>b. (s \o t)[i] = IF i <= Len(s) THEN s[i] ELSE t[i - Len(s)]
    BY <1>6
  <2>1. CASE i <= Len(s)
    <3>1. i \in 1 .. Len(s) /\ i <= Len(a)
      BY <2>0, <2>1, <1>1
    <3>2. QED BY <2>1, <3>1, <2>a, <2>b, <1>3
  <2>2. CASE i = Len(s) + 1
    <3>1. i - Len(s) = 1 /\ ~(i <= Len(s)) /\ i <= Len(a)
      BY <2>0, <2>2, <1>1
    <3>2. QED BY <2>2, <3>1, <2>a, <2>b, <1>3
  <2>3. CASE i > Len(s) + 1
    <3> DEFINE j == i - Len(a)
    <3>1. j \in 1 .. Len(t) - 1 /\ j + 1 = i - Len(s) /\ ~(i <= Len(s)) /\ ~(i <= Len(a))
      BY <2>0, <2>3, <1>1
    <3> HIDE DEF j
    <3>2. b[j] = t[j + 1]
      BY <3>1, <1>4
    <3>3. (a \o b)[i] = b[j]
      BY <3>1, <2>a DEF j
    <3>4. QED BY <3>1, <3>2, <3>3, <2>b
  <2>4. i <= Len(s) \/ i = Len(s) + 1 \/ i > Len(s) + 1
    BY <1>1
  <2>5. QED BY <2>1, <2>2, <2>3, <2>4
<1>8. a \o b = s \o t
  <2>1. Len(a \o b) = Len(s) + Len(t)
    BY <1>1, <1>3, <1>4, <1>5
  <2>2. QED BY <2>1, <1>5, <1>6, <1>7, SeqEqual
<1>9. QED BY <1>8 DEF a, b

(* What is appended to the last queue is appended to the whole. *)
LEMMA ConcatAppend ==
  ASSUME NEW S, NEW s \in Seq(S), NEW t \in Seq(S), NEW v \in S
  PROVE  s \o Append(t, v) = Append(s \o t, v)
<1>1. <<v>> \in Seq(S)
  OBVIOUS
<1>2. s \o t \in Seq(S)
  BY ConcatProperties
<1>3. Append(t, v) = t \o <<v>> /\ Append(s \o t, v) = (s \o t) \o <<v>>
  BY <1>2, AppendIsConcat
<1>4. (s \o t) \o <<v>> = s \o (t \o <<v>>)
  BY <1>1, ConcatAssociative
<1>5. QED BY <1>3, <1>4

(* The head of the first queue is the head of the whole. *)
LEMMA ConcatTail ==
  ASSUME NEW S, NEW s \in Seq(S), NEW t \in Seq(S), s # <<>>
  PROVE  /\ s \o t # <<>>
         /\ Head(s \o t) = Head(s)
         /\ Tail(s \o t) = Tail(s) \o t
<1> DEFINE w == s \o t
           a == Tail(s)
<1>1. Len(s) \in Nat \ {0} /\ Len(t) \in Nat /\ Head(s) = s[1]
  BY LenProperties, EmptySeq
<1>2. /\ w \in Seq(S) /\ Len(w) = Len(s) + Len(t)
      /\ \A i \in 1 .. Len(s) + Len(t) : w[i] = IF i <= Len(s) THEN s[i] ELSE t[i - Len(s)]
  BY ConcatProperties
<1>3. /\ a \in Seq(S) /\ Len(a) = Len(s) - 1
      /\ \A i \in 1 .. Len(s) - 1 : a[i] = s[i + 1]
  BY HeadTailProperties
<1> HIDE DEF w, a
<1>4. w # <<>>
  BY <1>1, <1>2, EmptySeq
<1>5. Head(w) = Head(s)
  <2>1. Head(w) = w[1]
    BY <1>2, <1>4
  <2>2. QED BY <2>1, <1>1, <1>2
<1>6. /\ Tail(w) \in Seq(S) /\ Len(Tail(w)) = Len(s) + Len(t) - 1
      /\ \A i \in 1 .. Len(s) + Len(t) - 1 : Tail(w)[i] = w[i + 1]
  BY <1>1, <1>2, <1>4, HeadTailProperties
<1>7. /\ a \o t \in Seq(S) /\ Len(a \o t) = Len(a) + Len(t)
      /\ \A i \in 1 .. Len(a) + Len(t) :
           (a \o t)[i] = IF i <= Len(a) THEN a[i] ELSE t[i - Len(a)]
  BY <1>3, ConcatProperties
<1>8. ASSUME NEW i \in 1 .. Len(a) + Len(t) PROVE Tail(w)[i] = (a \o t)[i]
  <2>1. Tail(w)[i] = IF i + 1 <= Len(s) THEN s[i + 1] ELSE t[(i + 1) - Len(s)]
    <3>1. i + 1 \in 1 .. Len(s) + Len(t) /\ i \in 1 .. Len(s) + Len(t) - 1
      BY <1>1, <1>3
    <3>2. QED BY <3>1, <1>2, <1>6
  <2>2. (i + 1) - Len(s) = i - Len(a)
    BY <1>1, <1>3
  <2>3. (a \o t)[i] = IF i <= Len(a) THEN a[i] ELSE t[i - Len(a)]
    BY <1>7
  <2>4. CASE i + 1 <= Len(s)
    <3>1. i \in 1 .. Len(s) - 1 /\ i <= Len(a)
      BY <2>4, <1>1, <1>3
    <3>2. QED BY <2>1, <2>3, <2>4, <3>1, <1>3
  <2>5. CASE ~(i + 1 <= Len(s))
    <3>1. ~(i <= Len(a))
      BY <2>5, <1>1, <1>3
    <3>2. QED BY <2>1, <2>2, <2>3, <2>5, <3>1
  <2>6. QED BY <2>4, <2>5
<1>9. Tail(w) = a \o t
  <2>1. Len(Tail(w)) = Len(a) + Len(t)
    BY <1>1, <1>3, <1>6
  <2>2. QED BY <2>1, <1>6, <1>7, <1>8, SeqEqual
<1>10. QED BY <1>4, <1>5, <1>9 DEF w, a

----------------------------------------------------------------------------
(* What a sequence of buffer numbers stands for, given the buffers. *)
Contents(b, s) == [i \in 1 .. Len(s) |-> b[s[i]]]

(* The buffers are numbered by S and hold elements of T. *)
IsStore(b, s, S, T) == b \in [S -> T] /\ s \in Seq(S)

(* The contents of a sequence of buffers are a sequence of the same length. *)
LEMMA ContentsType ==
  ASSUME NEW b, NEW s, NEW S, NEW T, IsStore(b, s, S, T)
  PROVE  /\ Contents(b, s) \in Seq(T) /\ Len(Contents(b, s)) = Len(s)
         /\ \A i \in 1 .. Len(s) : Contents(b, s)[i] = b[s[i]]
<1>a. b \in [S -> T] /\ s \in Seq(S)
  BY DEF IsStore
<1> USE <1>a
<1> DEFINE c == Contents(b, s)
<1>1. Len(s) \in Nat /\ \A i \in 1 .. Len(s) : s[i] \in S
  BY LenProperties, ElementOfSeq
<1>2. c \in [1 .. Len(s) -> T] /\ \A i \in 1 .. Len(s) : c[i] = b[s[i]]
  BY <1>1 DEF Contents
<1>3. c \in Seq(T)
  BY <1>1, <1>2, SeqDef
<1> HIDE DEF c
<1>4. DOMAIN c = 1 .. Len(s) /\ DOMAIN c = 1 .. Len(c) /\ Len(c) \in Nat
  BY <1>2, <1>3, LenProperties
<1>5. Len(c) = Len(s)
  BY <1>1, <1>4
<1>6. QED BY <1>2, <1>3, <1>5 DEF c

(* Appending a buffer appends its content. *)
LEMMA ContentsAppend ==
  ASSUME NEW b, NEW s, NEW S, NEW T, IsStore(b, s, S, T), NEW v \in S
  PROVE  Contents(b, Append(s, v)) = Append(Contents(b, s), b[v])
<1>a. b \in [S -> T] /\ s \in Seq(S)
  BY DEF IsStore
<1> USE <1>a
<1> DEFINE t == Append(s, v)
           c == Contents(b, s)
           e == Contents(b, t)
           x == b[v]
<1>1. /\ t \in Seq(S) /\ Len(t) = Len(s) + 1 /\ t[Len(s) + 1] = v /\ Len(s) \in Nat
      /\ \A i \in 1 .. Len(s) : t[i] = s[i]
  BY AppendProperties, LenProperties
<1>2. c \in Seq(T) /\ Len(c) = Len(s) /\ \A i \in 1 .. Len(s) : c[i] = b[s[i]]
  BY ContentsType
<1>3. e \in Seq(T) /\ Len(e) = Len(t) /\ \A i \in 1 .. Len(t) : e[i] = b[t[i]]
  <2> HIDE DEF t
  <2>1. IsStore(b, t, S, T)
    BY <1>1 DEF IsStore
  <2>2. QED BY <2>1, ContentsType
<1>4. x \in T /\ x = b[v]
  OBVIOUS
<1> HIDE DEF t, c, e, x
<1>5. /\ Append(c, x) \in Seq(T) /\ Len(Append(c, x)) = Len(s) + 1
      /\ \A i \in 1 .. Len(s) : Append(c, x)[i] = c[i]
      /\ Append(c, x)[Len(s) + 1] = x
  BY <1>2, <1>4, AppendProperties
<1>6. ASSUME NEW i \in 1 .. Len(s) + 1 PROVE e[i] = Append(c, x)[i]
  <2>1. e[i] = b[t[i]]
    BY <1>1, <1>3
  <2>2. CASE i = Len(s) + 1
    BY <2>1, <2>2, <1>1, <1>4, <1>5
  <2>3. CASE i \in 1 .. Len(s)
    BY <2>1, <2>3, <1>1, <1>2, <1>5
  <2>4. i = Len(s) + 1 \/ i \in 1 .. Len(s)
    BY <1>1
  <2>5. QED BY <2>2, <2>3, <2>4
<1>7. e = Append(c, x)
  BY <1>1, <1>3, <1>5, <1>6, SeqEqual
<1>8. QED BY <1>7 DEF t, c, e, x

(* The first buffer has the first content. *)
LEMMA ContentsTail ==
  ASSUME NEW b, NEW s, NEW S, NEW T, IsStore(b, s, S, T), s # <<>>
  PROVE  /\ Contents(b, s) # <<>>
         /\ Head(Contents(b, s)) = b[Head(s)]
         /\ Contents(b, Tail(s)) = Tail(Contents(b, s))
<1>a. b \in [S -> T] /\ s \in Seq(S)
  BY DEF IsStore
<1> USE <1>a
<1> DEFINE t == Tail(s)
           c == Contents(b, s)
           e == Contents(b, t)
<1>1. /\ t \in Seq(S) /\ Len(t) = Len(s) - 1 /\ Len(s) \in Nat \ {0} /\ Head(s) = s[1]
      /\ \A i \in 1 .. Len(t) : t[i] = s[i + 1]
  BY HeadTailProperties, EmptySeq
<1>2. c \in Seq(T) /\ Len(c) = Len(s) /\ \A i \in 1 .. Len(s) : c[i] = b[s[i]]
  BY ContentsType
<1>3. e \in Seq(T) /\ Len(e) = Len(t) /\ \A i \in 1 .. Len(t) : e[i] = b[t[i]]
  <2> HIDE DEF t
  <2>1. IsStore(b, t, S, T)
    BY <1>1 DEF IsStore
  <2>2. QED BY <2>1, ContentsType
<1> HIDE DEF t, c, e
<1>4. c # <<>>
  BY <1>1, <1>2, EmptySeq
<1>5. Head(c) = b[Head(s)]
  <2>1. Head(c) = c[1]
    BY <1>2, <1>4
  <2>2. QED BY <2>1, <1>1, <1>2
<1>6. Tail(c) \in Seq(T) /\ Len(Tail(c)) = Len(s) - 1 /\ \A i \in 1 .. Len(s) - 1 : Tail(c)[i] = c[i + 1]
  BY <1>2, <1>4, HeadTailProperties
<1>7. ASSUME NEW i \in 1 .. Len(t) PROVE e[i] = Tail(c)[i]
  <2>1. i \in 1 .. Len(s) - 1 /\ i + 1 \in 1 .. Len(s)
    BY <1>1
  <2>2. e[i] = b[s[i + 1]]
    BY <1>1, <1>3
  <2>3. c[i + 1] = b[s[i + 1]]
    BY <2>1, <1>2
  <2>4. Tail(c)[i] = c[i + 1]
    BY <2>1, <1>6
  <2>5. QED BY <2>2, <2>3, <2>4
<1>8. e = Tail(c)
  BY <1>1, <1>3, <1>6, <1>7, SeqEqual
<1>9. QED BY <1>4, <1>5, <1>8 DEF t, c, e

(* Writing a buffer the sequence does not name changes nothing. *)
LEMMA ContentsWrite ==
  ASSUME NEW b, NEW s, NEW S, NEW T, IsStore(b, s, S, T), NEW v \in S, v \notin Range(s), NEW x
  PROVE  Contents([b EXCEPT ![v] = x], s) = Contents(b, s)
<1>a. b \in [S -> T] /\ s \in Seq(S)
  BY DEF IsStore
<1> USE <1>a
<1>1. \A i \in 1 .. Len(s) : s[i] \in S /\ s[i] # v
  BY LenProperties, ElementOfSeq DEF Range
<1>2. QED BY <1>1 DEF Contents

----------------------------------------------------------------------------
(* The entries of ring r from counter `from' up to counter `to'. *)
Window(r, from, to, M, N) ==
  [k \in 1 .. ((to - from) % M) |-> r[(from + k - 1) % N]]

(* The counters wrap at a multiple of the ring's size, and are wider.      *)
Geometry(M, N) == M \in Nat \ {0} /\ N \in Nat \ {0} /\ N < M /\ M % N = 0

(* Both counters are in range, and the ring r holds elements of S. *)
IsWindow(r, from, to, M, N, S) ==
  /\ Geometry(M, N)
  /\ r \in [0 .. N - 1 -> S]
  /\ from \in 0 .. M - 1
  /\ to \in 0 .. M - 1

(* A window is a sequence of the ring's entries. *)
LEMMA WindowType ==
  ASSUME NEW r, NEW from, NEW to, NEW M, NEW N, NEW S, IsWindow(r, from, to, M, N, S)
  PROVE  /\ Window(r, from, to, M, N) \in Seq(S)
         /\ Len(Window(r, from, to, M, N)) = (to - from) % M
         /\ (to - from) % M \in 0 .. M - 1
<1>a. /\ Geometry(M, N) /\ r \in [0 .. N - 1 -> S]
      /\ from \in 0 .. M - 1 /\ to \in 0 .. M - 1
  BY DEF IsWindow
<1> USE <1>a
<1> DEFINE n == (to - from) % M
           w == Window(r, from, to, M, N)
<1>1. n \in 0 .. M - 1 /\ n \in Nat
  <2>1. to - from \in Int /\ M \in Nat \ {0}
    BY DEF Geometry
  <2>2. n \in 0 .. M - 1
    BY <2>1, DivMod, Zenon
  <2>3. QED BY <2>1, <2>2
<1> HIDE DEF n
<1>2. ASSUME NEW k \in 1 .. n PROVE r[(from + k - 1) % N] \in S
  <2>1. from + k - 1 \in Int /\ N \in Nat \ {0}
    BY <1>1 DEF Geometry
  <2>2. (from + k - 1) % N \in 0 .. N - 1
    BY <2>1, DivMod, Zenon
  <2>3. QED BY <2>2
<1>3. w \in [1 .. n -> S]
  BY <1>2 DEF Window, n
<1>4. w \in Seq(S)
  BY <1>1, <1>3, SeqDef
<1>5. Len(w) = n
  <2> HIDE DEF w
  <2>1. DOMAIN w = 1 .. n /\ DOMAIN w = 1 .. Len(w) /\ Len(w) \in Nat
    BY <1>3, <1>4, LenProperties
  <2>2. QED BY <1>1, <2>1
<1>6. QED BY <1>1, <1>4, <1>5 DEF n

(* How far one counter is behind another. *)
LEMMA Distance ==
  ASSUME NEW M \in Nat \ {0}, NEW from \in 0 .. M - 1, NEW to \in 0 .. M - 1
  PROVE  (to - from) % M = IF from <= to THEN to - from ELSE to - from + M
<1> DEFINE a == to - from
<1>1. CASE from <= to
  <2>1. a \in Int /\ a \in 0 .. M - 1
    BY <1>1
  <2> HIDE DEF a
  <2>2. a % M = a
    BY <2>1, ModSmall
  <2>3. QED BY <1>1, <2>2 DEF a
<1>2. CASE ~(from <= to)
  <2> DEFINE b == a + M
  <2>1. a \in Int /\ b \in Int /\ b \in 0 .. M - 1 /\ b = a + M
    BY <1>2
  <2> HIDE DEF a, b
  <2>2. b % M = b
    BY <2>1, ModSmall
  <2>3. (a + M) % M = a % M
    BY <2>1, ModShift
  <2>4. a % M = a + M
    BY <2>1, <2>2, <2>3
  <2>5. QED BY <1>2, <2>4 DEF a
<1>3. QED BY <1>1, <1>2

(* The entry one counter selects, reached by stepping from the other. *)
LEMMA WindowEnd ==
  ASSUME NEW M, NEW N, Geometry(M, N), NEW from \in 0 .. M - 1, NEW to \in 0 .. M - 1
  PROVE  (from + ((to - from) % M)) % N = to % N
<1> DEFINE n == (to - from) % M
<1>0. M \in Nat \ {0} /\ N \in Nat \ {0} /\ M % N = 0
  BY DEF Geometry
<1>1. n = IF from <= to THEN to - from ELSE to - from + M
  BY <1>0, Distance
<1> HIDE DEF n
<1>2. to \in Int /\ (from + n = to \/ from + n = to + M)
  BY <1>0, <1>1
<1>3. (to + M) % N = to % N
  BY <1>0, <1>2, ResidueStep, Zenon
<1>4. (from + n) % N = to % N
  BY <1>2, <1>3
<1>5. QED BY <1>4 DEF n

(* As long as the window is shorter than the ring, the entry behind it is  *)
(* not one of its own.                                                     *)
LEMMA WindowGap ==
  ASSUME NEW M, NEW N, Geometry(M, N), NEW from \in 0 .. M - 1, NEW to \in 0 .. M - 1,
         (to - from) % M < N, NEW k \in 1 .. ((to - from) % M)
  PROVE  (from + k - 1) % N # to % N
<1> DEFINE n == (to - from) % M
           x == from + k - 1
           y == from + n
<1>0. M \in Nat \ {0} /\ N \in Nat \ {0}
  BY DEF Geometry
<1>1. n \in Int /\ k \in Int
  BY <1>0, Distance
<1>2. n < N /\ k \in 1 .. n
  OBVIOUS
<1>3. y % N = to % N
  BY WindowEnd
<1> HIDE DEF n
<1>4. x \in Int /\ y \in Int /\ x < y /\ y - x < N
  BY <1>0, <1>1, <1>2
<1> HIDE DEF x, y
<1>5. x % N # y % N
  BY <1>0, <1>4, ResiduesDiffer
<1>6. QED BY <1>3, <1>5 DEF x

(* The counter after from selects the entry after the one from selects. *)
LEMMA WindowNext ==
  ASSUME NEW M, NEW N, Geometry(M, N), NEW from \in 0 .. M - 1, NEW k \in Nat
  PROVE  (((from + 1) % M) + k) % N = (from + 1 + k) % N
<1> DEFINE up == (from + 1) % M
           a == up + k
<1>0. M \in Nat \ {0} /\ N \in Nat \ {0} /\ M % N = 0
  BY DEF Geometry
<1>1. a \in Int /\ (from + 1 + k = a \/ from + 1 + k = a + M)
  <2>1. M \in Nat /\ M > 1
    BY DEF Geometry
  <2>2. up = IF from = M - 1 THEN 0 ELSE from + 1
    BY <2>1, WrapStep
  <2> HIDE DEF up
  <2>3. QED BY <2>1, <2>2
<1> HIDE DEF a
<1>2. (a + M) % N = a % N
  BY <1>0, <1>1, ResidueStep
<1>3. a % N = (from + 1 + k) % N
  BY <1>1, <1>2
<1>4. QED BY <1>3 DEF a

(* A window is empty exactly when its two counters are equal. *)
LEMMA WindowEmpty ==
  ASSUME NEW r, NEW from, NEW to, NEW M, NEW N, NEW S, IsWindow(r, from, to, M, N, S)
  PROVE  Window(r, from, to, M, N) = <<>> <=> from = to
<1>a. /\ Geometry(M, N) /\ r \in [0 .. N - 1 -> S]
      /\ from \in 0 .. M - 1 /\ to \in 0 .. M - 1
  BY DEF IsWindow
<1> USE <1>a
<1> DEFINE w == Window(r, from, to, M, N)
<1>1. w \in Seq(S) /\ Len(w) = (to - from) % M
  BY WindowType
<1>2. M \in Nat \ {0}
  BY DEF Geometry
<1>3. (to - from) % M = 0 <=> from = to
  BY <1>2, Distance
<1> HIDE DEF w
<1>4. w = <<>> <=> Len(w) = 0
  BY <1>1, EmptySeq
<1>5. QED BY <1>1, <1>3, <1>4 DEF w

(* Writing the entry behind a window leaves the window as it is. *)
LEMMA WindowWrite ==
  ASSUME NEW r, NEW from, NEW to, NEW M, NEW N, NEW S, IsWindow(r, from, to, M, N, S),
         (to - from) % M < N, NEW v \in S
  PROVE  Window([r EXCEPT ![to % N] = v], from, to, M, N) = Window(r, from, to, M, N)
<1>a. /\ Geometry(M, N) /\ r \in [0 .. N - 1 -> S]
      /\ from \in 0 .. M - 1 /\ to \in 0 .. M - 1
  BY DEF IsWindow
<1> USE <1>a
<1> DEFINE n == (to - from) % M
<1>0. M \in Nat \ {0} /\ N \in Nat \ {0} /\ n \in Int
  BY Distance DEF Geometry
<1>1. ASSUME NEW k \in 1 .. n
      PROVE  [r EXCEPT ![to % N] = v][(from + k - 1) % N] = r[(from + k - 1) % N]
  <2>1. (from + k - 1) % N # to % N
    BY WindowGap
  <2>2. from + k - 1 \in Int
    BY <1>0
  <2>3. (from + k - 1) % N \in 0 .. N - 1
    BY <1>0, <2>2, DivMod, Zenon
  <2>4. QED BY <2>1, <2>3
<1>2. QED BY <1>1 DEF Window

(* Moving the upper counter on adds the entry behind the window. *)
LEMMA WindowGrow ==
  ASSUME NEW r, NEW from, NEW to, NEW M, NEW N, NEW S, IsWindow(r, from, to, M, N, S),
         (to - from) % M < N
  PROVE  Window(r, from, (to + 1) % M, M, N) =
           Append(Window(r, from, to, M, N), r[to % N])
<1>a. /\ Geometry(M, N) /\ r \in [0 .. N - 1 -> S]
      /\ from \in 0 .. M - 1 /\ to \in 0 .. M - 1
  BY DEF IsWindow
<1> USE <1>a
<1> DEFINE n == (to - from) % M
           up == (to + 1) % M
           w == Window(r, from, to, M, N)
           x == Window(r, from, up, M, N)
<1>0. M \in Nat \ {0} /\ N \in Nat \ {0} /\ M > 1 /\ N < M
  BY DEF Geometry
<1>1. up \in 0 .. M - 1 /\ n \in Nat /\ (up - from) % M = n + 1
  <2>1. up = IF to = M - 1 THEN 0 ELSE to + 1
    BY <1>0, WrapStep
  <2>2. n = IF from <= to THEN to - from ELSE to - from + M
    BY <1>0, Distance
  <2> HIDE DEF up, n
  <2>3. up \in 0 .. M - 1
    BY <1>0, <2>1
  <2>4. (up - from) % M = IF from <= up THEN up - from ELSE up - from + M
    BY <1>0, <2>3, Distance
  <2>5. n < N
    BY DEF n
  <2>6. n \in Nat /\ (up - from) % M = n + 1
    BY <1>0, <2>1, <2>2, <2>4, <2>5
  <2>7. QED BY <2>3, <2>6
<1>2. w \in Seq(S) /\ Len(w) = n
  BY WindowType
<1>3. x \in Seq(S) /\ Len(x) = n + 1
  <2> HIDE DEF up
  <2>1. IsWindow(r, from, up, M, N, S)
    BY <1>1 DEF IsWindow
  <2>2. x \in Seq(S) /\ Len(x) = (up - from) % M
    BY <2>1, WindowType
  <2>3. QED BY <1>1, <2>2
<1>4. to % N \in 0 .. N - 1
  <2>1. to \in Int
    BY <1>0
  <2>2. QED BY <1>0, <2>1, DivMod, Zenon
<1>5. /\ Append(w, r[to % N]) \in Seq(S)
      /\ Len(Append(w, r[to % N])) = n + 1
      /\ \A i \in 1 .. n : Append(w, r[to % N])[i] = w[i]
      /\ Append(w, r[to % N])[n + 1] = r[to % N]
  BY <1>2, <1>4, AppendProperties
<1>6. \A k \in 1 .. n : w[k] = r[(from + k - 1) % N]
  BY DEF Window
<1>7. \A k \in 1 .. n + 1 : x[k] = r[(from + k - 1) % N]
  BY <1>1 DEF Window
<1>8. r[(from + (n + 1) - 1) % N] = r[to % N]
  <2>1. (from + n) % N = to % N
    BY WindowEnd
  <2> HIDE DEF n
  <2>2. from + (n + 1) - 1 = from + n
    BY <1>1
  <2>3. QED BY <2>1, <2>2
<1> HIDE DEF n, up, w, x
<1>9. \A i \in 1 .. n + 1 : x[i] = Append(w, r[to % N])[i]
  BY <1>1, <1>5, <1>6, <1>7, <1>8
<1>10. x = Append(w, r[to % N])
  BY <1>3, <1>5, <1>9, SeqEqual
<1>11. QED BY <1>10 DEF w, x, up

(* Moving the lower counter on takes the first entry away. *)
LEMMA WindowShrink ==
  ASSUME NEW r, NEW from, NEW to, NEW M, NEW N, NEW S, IsWindow(r, from, to, M, N, S),
         from # to
  PROVE  /\ Window(r, (from + 1) % M, to, M, N) = Tail(Window(r, from, to, M, N))
         /\ Head(Window(r, from, to, M, N)) = r[from % N]
<1>a. /\ Geometry(M, N) /\ r \in [0 .. N - 1 -> S]
      /\ from \in 0 .. M - 1 /\ to \in 0 .. M - 1
  BY DEF IsWindow
<1> USE <1>a
<1> DEFINE n == (to - from) % M
           up == (from + 1) % M
           w == Window(r, from, to, M, N)
           x == Window(r, up, to, M, N)
<1>0. M \in Nat \ {0} /\ N \in Nat \ {0} /\ M > 1 /\ N < M
  BY DEF Geometry
<1>1. up \in 0 .. M - 1 /\ n \in Nat \ {0} /\ (to - up) % M = n - 1
  <2>1. up = IF from = M - 1 THEN 0 ELSE from + 1
    BY <1>0, WrapStep
  <2>2. n = IF from <= to THEN to - from ELSE to - from + M
    BY <1>0, Distance
  <2> HIDE DEF up, n
  <2>3. up \in 0 .. M - 1
    BY <1>0, <2>1
  <2>4. (to - up) % M = IF up <= to THEN to - up ELSE to - up + M
    BY <1>0, <2>3, Distance
  <2>5. QED BY <1>0, <2>1, <2>2, <2>3, <2>4
<1>2. w \in Seq(S) /\ Len(w) = n
  BY WindowType
<1>3. x \in Seq(S) /\ Len(x) = n - 1
  <2> HIDE DEF up
  <2>1. IsWindow(r, up, to, M, N, S)
    BY <1>1 DEF IsWindow
  <2>2. x \in Seq(S) /\ Len(x) = (to - up) % M
    BY <2>1, WindowType
  <2>3. QED BY <1>1, <2>2
<1>4. \A k \in 1 .. n : w[k] = r[(from + k - 1) % N]
  BY DEF Window
<1>5. \A k \in 1 .. n - 1 : x[k] = r[(up + k - 1) % N]
  BY <1>1 DEF Window
<1>6. ASSUME NEW k \in 1 .. n - 1 PROVE (up + k - 1) % N = (from + (k + 1) - 1) % N
  <2> DEFINE j == k - 1
  <2>1. j \in Nat /\ up + k - 1 = up + j /\ from + (k + 1) - 1 = from + 1 + j
    BY <1>1
  <2>2. (up + j) % N = (from + 1 + j) % N
    <3> HIDE DEF j
    <3> QED BY <2>1, WindowNext
  <2>3. QED BY <2>1, <2>2
<1> HIDE DEF n, up, w, x
<1>7. w # <<>>
  BY <1>1, <1>2, EmptySeq
<1>8. Head(w) = w[1]
  BY <1>2, <1>7
<1>9. w[1] = r[from % N]
  <2>1. 1 \in 1 .. n /\ from + 1 - 1 = from
    BY <1>1
  <2>2. QED BY <1>4, <2>1
<1>10. /\ Tail(w) \in Seq(S) /\ Len(Tail(w)) = n - 1
       /\ \A i \in 1 .. n - 1 : Tail(w)[i] = w[i + 1]
  BY <1>2, <1>7, HeadTailProperties
<1>11. ASSUME NEW i \in 1 .. n - 1 PROVE x[i] = Tail(w)[i]
  <2>1. i + 1 \in 1 .. n
    BY <1>1
  <2>2. w[i + 1] = r[(from + (i + 1) - 1) % N]
    BY <1>4, <2>1
  <2>3. QED BY <1>5, <1>6, <1>10, <2>2
<1>12. x = Tail(w)
  BY <1>3, <1>10, <1>11, SeqEqual
<1>13. QED BY <1>8, <1>9, <1>12 DEF w, x, up

----------------------------------------------------------------------------
(* Rings whose indices name entries and nothing more (e1000): the k-th     *)
(* entry from s on, the set of the first n entries, and what they hold.    *)
Nth(s, k, N) == (s + k) % N

Arc(s, n, N) == {Nth(s, k, N) : k \in 0 .. n - 1}

Slice(r, s, n, N) == [k \in 1 .. n |-> r[Nth(s, k - 1, N)]]

(* The k-th entry is an entry of the ring. *)
LEMMA NthType ==
  ASSUME NEW N \in Nat \ {0}, NEW s \in Int, NEW k \in Int
  PROVE  Nth(s, k, N) \in 0 .. N - 1
<1>1. s + k \in Int
  OBVIOUS
<1>2. QED BY <1>1, DivMod DEF Nth

(* Fewer than N steps do not come back. *)
LEMMA NthDiffer ==
  ASSUME NEW N \in Nat \ {0}, NEW s \in Int, NEW j \in 0 .. N - 1, NEW k \in 0 .. N - 1, j # k
  PROVE  Nth(s, j, N) # Nth(s, k, N)
<1> DEFINE x == s + j
           y == s + k
<1>1. x \in Int /\ y \in Int /\ (x < y \/ y < x) /\ y - x < N /\ x - y < N
  OBVIOUS
<1> HIDE DEF x, y
<1>2. x % N # y % N
  BY <1>1, ResiduesDiffer
<1>3. QED BY <1>2 DEF Nth, x, y

(* Counting from a residue, or from the number itself, is the same. *)
LEMMA NthMod ==
  ASSUME NEW N \in Nat \ {0}, NEW s \in Int, NEW k \in Int
  PROVE  Nth(s % N, k, N) = Nth(s, k, N)
<1> DEFINE q == s \div N
           r == s % N
           a == r + k
<1>1. q \in Int /\ r \in Int /\ s = N * q + r
  BY DivMod
<1> HIDE DEF q, r
<1>2. a \in Int /\ s + k = a + N * q
  BY <1>1
<1> HIDE DEF a
<1>3. (s + k) % N = a % N
  BY <1>1, <1>2, ModPlusMultiple
<1>4. QED BY <1>3 DEF Nth, a, r

(* Moving the start by one moves every entry by one. *)
LEMMA NthNext ==
  ASSUME NEW N \in Nat \ {0}, NEW s \in Int, NEW k \in Int
  PROVE  Nth((s + 1) % N, k, N) = Nth(s, k + 1, N)
<1> DEFINE t == s + 1
<1>1. t \in Int /\ t + k = s + (k + 1)
  OBVIOUS
<1> HIDE DEF t
<1>2. Nth(t % N, k, N) = Nth(t, k, N)
  BY <1>1, NthMod
<1>3. QED BY <1>1, <1>2 DEF Nth, t

(* The entry after the k-th. *)
LEMMA NthStep ==
  ASSUME NEW N \in Nat \ {0}, NEW s \in Int, NEW k \in Int
  PROVE  (Nth(s, k, N) + 1) % N = Nth(s, k + 1, N)
<1> DEFINE t == s + k
           i == 1
<1>1. t \in Int /\ i \in Int /\ t + i = s + (k + 1)
  OBVIOUS
<1> HIDE DEF t, i
<1>2. Nth(t % N, i, N) = Nth(t, i, N)
  BY <1>1, NthMod
<1>3. QED BY <1>1, <1>2 DEF Nth, t, i

(* Zero steps, and N steps, stay at an entry. *)
LEMMA NthSelf ==
  ASSUME NEW N \in Nat \ {0}, NEW s \in 0 .. N - 1
  PROVE  Nth(s, 0, N) = s /\ Nth(s, N, N) = s
<1>1. s % N = s
  BY ModSmall
<1>2. PICK y \in Int : y = s
  OBVIOUS
<1>5. (y + N) % N = y % N
  BY ModShift
<1>3. s + 0 = s
  OBVIOUS
<1>4. QED BY <1>1, <1>2, <1>3, <1>5 DEF Nth

(* Every entry is the k-th for some k. *)
LEMMA NthOnto ==
  ASSUME NEW N \in Nat \ {0}, NEW s \in 0 .. N - 1, NEW e \in 0 .. N - 1
  PROVE  \E k \in 0 .. N - 1 : Nth(s, k, N) = e
<1>1. CASE e >= s
  <2>1. e - s \in 0 .. N - 1 /\ s + (e - s) = e
    BY <1>1
  <2>2. QED BY <2>1, ModSmall DEF Nth
<1>2. CASE e < s
  <2>1. e + N - s \in 0 .. N - 1 /\ s + (e + N - s) = e + N
    BY <1>2
  <2>2. (e + N) % N = e
    BY ModShift, ModSmall
  <2>3. QED BY <2>1, <2>2 DEF Nth
<1>3. QED BY <1>1, <1>2

(* The first n entries are n entries. *)
LEMMA ArcSize ==
  ASSUME NEW N \in Nat \ {0}, NEW s \in Int, NEW n \in 0 .. N
  PROVE  /\ Arc(s, n, N) \subseteq 0 .. N - 1
         /\ IsFiniteSet(Arc(s, n, N)) /\ Cardinality(Arc(s, n, N)) = n
<1> DEFINE K == 0 .. n - 1
           f == [k \in K |-> Nth(s, k, N)]
           A == Arc(s, n, N)
<1>1. \A k \in K : k \in 0 .. N - 1 /\ k \in Int
  OBVIOUS
<1>2. A \subseteq 0 .. N - 1
  BY <1>1, NthType DEF Arc
<1>3. f \in [K -> A] /\ \A v \in A : \E k \in K : f[k] = v
  BY DEF Arc
<1>4. \A j, k \in K : f[j] = f[k] => j = k
  BY <1>1, NthDiffer
<1>5. f \in Bijection(K, A)
  BY <1>3, <1>4 DEF Bijection, Injection, Surjection, IsInjective
<1>6. ExistsBijection(K, A)
  BY <1>5 DEF ExistsBijection
<1>7. IsFiniteSet(K) /\ Cardinality(K) = n
  <2>1. /\ IsFiniteSet(0 .. n - 1)
        /\ Cardinality(0 .. n - 1) = IF 0 > n - 1 THEN 0 ELSE n - 1 - 0 + 1
    BY FS_Interval
  <2>2. QED BY <2>1
<1>8. IsFiniteSet(A) /\ Cardinality(A) = n
  BY <1>6, <1>7, FS_Bijection
<1>9. QED BY <1>2, <1>8

(* An arc grows by the entry after it, which was not in it. *)
LEMMA ArcGrow ==
  ASSUME NEW N \in Nat \ {0}, NEW s \in Int, NEW n \in 0 .. N - 1
  PROVE  /\ Arc(s, n + 1, N) = Arc(s, n, N) \cup {Nth(s, n, N)}
         /\ Nth(s, n, N) \notin Arc(s, n, N)
<1>1. 0 .. (n + 1) - 1 = (0 .. n - 1) \cup {n}
  OBVIOUS
<1>2. Arc(s, n + 1, N) = Arc(s, n, N) \cup {Nth(s, n, N)}
  BY <1>1 DEF Arc
<1>3. ASSUME NEW k \in 0 .. n - 1 PROVE Nth(s, k, N) # Nth(s, n, N)
  <2>1. k \in 0 .. N - 1 /\ k # n
    OBVIOUS
  <2>2. QED BY <2>1, NthDiffer
<1>4. QED BY <1>2, <1>3 DEF Arc

(* An arc shrinks by its first entry. *)
LEMMA ArcShrink ==
  ASSUME NEW N \in Nat \ {0}, NEW s \in 0 .. N - 1, NEW n \in 1 .. N
  PROVE  /\ s \in Arc(s, n, N)
         /\ Arc((s + 1) % N, n - 1, N) = Arc(s, n, N) \ {s}
<1> DEFINE u == (s + 1) % N
<1>0. s = Nth(s, 0, N) /\ 0 \in 0 .. n - 1
  BY NthSelf
<1>1. s \in Arc(s, n, N)
  BY <1>0 DEF Arc
<1>2. \A k \in Int : Nth(u, k, N) = Nth(s, k + 1, N)
  BY NthNext
<1> HIDE DEF u
<1>3. ASSUME NEW v \in Arc(u, n - 1, N) PROVE v \in Arc(s, n, N) /\ v # s
  <2>1. PICK k \in 0 .. (n - 1) - 1 : v = Nth(u, k, N)
    BY <1>3 DEF Arc
  <2> DEFINE j == k + 1
  <2>2. k \in Int /\ j \in 0 .. n - 1 /\ j \in 0 .. N - 1 /\ 0 \in 0 .. N - 1 /\ j # 0
    OBVIOUS
  <2>3. v = Nth(s, j, N)
    BY <1>2, <2>1, <2>2
  <2> HIDE DEF j
  <2>4. s \in Int
    OBVIOUS
  <2>6. Nth(s, j, N) # Nth(s, 0, N)
    BY <2>2, <2>4, NthDiffer
  <2>5. QED BY <1>0, <2>2, <2>3, <2>6 DEF Arc
<1>4. ASSUME NEW v \in Arc(s, n, N), v # s PROVE v \in Arc(u, n - 1, N)
  <2>1. PICK k \in 0 .. n - 1 : v = Nth(s, k, N)
    BY <1>4 DEF Arc
  <2>2. k # 0
    BY <1>0, <1>4, <2>1
  <2>3. k - 1 \in 0 .. (n - 1) - 1 /\ k - 1 \in Int /\ (k - 1) + 1 = k
    BY <2>2
  <2>4. Nth(u, k - 1, N) = v
    BY <1>2, <2>1, <2>3
  <2>5. QED BY <2>3, <2>4 DEF Arc
<1>5. Arc(u, n - 1, N) = Arc(s, n, N) \ {s}
  BY <1>3, <1>4
<1>6. QED BY <1>1, <1>5 DEF u

(* The first N entries are the ring. *)
LEMMA ArcFull ==
  ASSUME NEW N \in Nat \ {0}, NEW s \in 0 .. N - 1
  PROVE  Arc(s, N, N) = 0 .. N - 1
<1>1. Arc(s, N, N) \subseteq 0 .. N - 1
  BY ArcSize
<1>2. 0 .. N - 1 \subseteq Arc(s, N, N)
  BY NthOnto DEF Arc
<1>3. QED BY <1>1, <1>2

(* The ring r has N entries, elements of S. *)
IsRing(r, N, S) == N \in Nat \ {0} /\ r \in [0 .. N - 1 -> S]

(* Ring q is ring r after a write of v to entry e. *)
Wrote(q, r, e, v) == q = [r EXCEPT ![e] = v]

(* A slice is a sequence of the ring's entries. *)
LEMMA SliceType ==
  ASSUME NEW N, NEW S, NEW r, IsRing(r, N, S), NEW s \in Int, NEW n \in Nat
  PROVE  /\ Slice(r, s, n, N) \in Seq(S)
         /\ Len(Slice(r, s, n, N)) = n
         /\ \A k \in 1 .. n : Slice(r, s, n, N)[k] = r[Nth(s, k - 1, N)]
<1>0. N \in Nat \ {0} /\ r \in [0 .. N - 1 -> S]
  BY DEF IsRing
<1> DEFINE w == Slice(r, s, n, N)
<1>1. ASSUME NEW k \in 1 .. n PROVE w[k] = r[Nth(s, k - 1, N)] /\ w[k] \in S
  <2>1. w[k] = r[Nth(s, k - 1, N)]
    BY DEF Slice
  <2> DEFINE j == k - 1
  <2>2. j \in Int
    OBVIOUS
  <2> HIDE DEF j
  <2>3. Nth(s, j, N) \in 0 .. N - 1
    BY <1>0, <2>2, NthType
  <2>4. QED BY <1>0, <2>1, <2>3 DEF j
<1>2. w \in [1 .. n -> S]
  BY <1>1 DEF Slice
<1>3. w \in Seq(S) /\ Len(w) = n
  <2> HIDE DEF w
  <2>1. QED BY <1>2
<1>4. QED BY <1>1, <1>3

(* Writing an entry outside the slice does not change it. *)
LEMMA SliceWrite ==
  ASSUME NEW N, NEW S, NEW r, IsRing(r, N, S), NEW s \in Int, NEW n \in 0 .. N,
         NEW e \in 0 .. N - 1, e \notin Arc(s, n, N), NEW v, NEW q, Wrote(q, r, e, v)
  PROVE  Slice(q, s, n, N) = Slice(r, s, n, N)
<1>0. N \in Nat \ {0} /\ r \in [0 .. N - 1 -> S]
  BY DEF IsRing
<1>1. ASSUME NEW k \in 1 .. n
      PROVE  q[Nth(s, k - 1, N)] = r[Nth(s, k - 1, N)]
  <2> DEFINE j == k - 1
  <2>1. j \in 0 .. n - 1 /\ j \in Int
    OBVIOUS
  <2> HIDE DEF j
  <2>2. Nth(s, j, N) # e /\ Nth(s, j, N) \in 0 .. N - 1
    BY <1>0, <2>1, NthType DEF Arc
  <2>3. q[Nth(s, j, N)] = r[Nth(s, j, N)]
    BY <1>0, <2>2 DEF Wrote
  <2>4. QED BY <2>3 DEF j
<1>2. QED BY <1>1 DEF Slice

(* Writing the entry after a slice and counting it in appends to it. *)
LEMMA SliceAppend ==
  ASSUME NEW N, NEW S, NEW r, IsRing(r, N, S), NEW s \in Int, NEW n \in 0 .. N - 1,
         NEW v \in S, NEW q, Wrote(q, r, Nth(s, n, N), v)
  PROVE  Slice(q, s, n + 1, N) = Append(Slice(r, s, n, N), v)
<1> DEFINE e == Nth(s, n, N)
           x == Slice(q, s, n + 1, N)
           w == Slice(r, s, n, N)
           y == Append(w, v)
<1>0. N \in Nat \ {0} /\ r \in [0 .. N - 1 -> S]
  BY DEF IsRing
<1>1. n \in Int /\ n \in Nat /\ n + 1 \in Nat /\ n \in 0 .. N
  BY <1>0
<1>2. e \in 0 .. N - 1
  BY <1>0, <1>1, NthType
<1>3. e \notin Arc(s, n, N)
  BY <1>0, ArcGrow
<1>4. q[e] = v /\ IsRing(q, N, S)
  BY <1>0, <1>2 DEF IsRing, Wrote
<1>5. Slice(q, s, n, N) = w
  BY <1>1, <1>2, <1>3, SliceWrite
<1>6. w \in Seq(S) /\ Len(w) = n
  BY <1>1, SliceType
<1>7. /\ x \in Seq(S) /\ Len(x) = n + 1
      /\ \A k \in 1 .. n + 1 : x[k] = q[Nth(s, k - 1, N)]
  <2>1. QED BY <1>1, <1>4, SliceType
<1>8. \A k \in 1 .. n : w[k] = q[Nth(s, k - 1, N)]
  <2> HIDE DEF w
  <2>1. \A k \in 1 .. n : Slice(q, s, n, N)[k] = q[Nth(s, k - 1, N)]
    BY <1>1, <1>4, SliceType
  <2>2. QED BY <1>5, <2>1
<1>9. x[n + 1] = v
  <2>1. (n + 1) - 1 = n /\ n + 1 \in 1 .. n + 1
    BY <1>1
  <2> HIDE DEF x
  <2>2. x[n + 1] = q[Nth(s, n, N)]
    BY <1>7, <2>1
  <2>3. QED BY <1>4, <2>2
<1> HIDE DEF x, w, e
<1>10. y \in Seq(S) /\ Len(y) = n + 1 /\ y[n + 1] = v /\ \A k \in 1 .. n : y[k] = w[k]
  BY <1>6
<1> HIDE DEF y
<1>11. ASSUME NEW k \in 1 .. n + 1 PROVE x[k] = y[k]
  <2>1. CASE k = n + 1
    BY <1>9, <1>10, <2>1
  <2>2. CASE k \in 1 .. n
    BY <1>7, <1>8, <1>10, <2>2
  <2>3. QED BY <1>1, <2>1, <2>2
<1>12. x = y
  BY <1>7, <1>10, <1>11, SeqEqual
<1>13. QED BY <1>12 DEF x, y, w, e

(* Leaving out the first entry of a slice is its tail. *)
LEMMA SliceTail ==
  ASSUME NEW N, NEW S, NEW r, IsRing(r, N, S), NEW s \in 0 .. N - 1, NEW n \in 1 .. N
  PROVE  /\ Slice(r, s, n, N) # <<>>
         /\ Head(Slice(r, s, n, N)) = r[s]
         /\ Slice(r, (s + 1) % N, n - 1, N) = Tail(Slice(r, s, n, N))
<1> DEFINE u == (s + 1) % N
           w == Slice(r, s, n, N)
           x == Slice(r, u, n - 1, N)
           y == Tail(w)
<1>0. N \in Nat \ {0} /\ r \in [0 .. N - 1 -> S]
  BY DEF IsRing
<1>1. s \in Int /\ n \in Nat /\ n - 1 \in Nat /\ s + 1 \in Int
  BY <1>0
<1>2. u \in Int
  BY <1>0, <1>1, DivMod
<1>3. w \in Seq(S) /\ Len(w) = n /\ \A k \in 1 .. n : w[k] = r[Nth(s, k - 1, N)]
  BY <1>1, SliceType
<1>4. \A k \in Int : Nth(u, k, N) = Nth(s, k + 1, N)
  BY <1>0, <1>1, NthNext
<1>5. Nth(s, 0, N) = s
  BY <1>0, NthSelf
<1> HIDE DEF u
<1>6. x \in Seq(S) /\ Len(x) = n - 1 /\ \A k \in 1 .. n - 1 : x[k] = r[Nth(u, k - 1, N)]
  BY <1>1, <1>2, SliceType
<1>7. w[1] = r[s]
  BY <1>1, <1>3, <1>5
<1> HIDE DEF w, x
<1>8. w # <<>> /\ Head(w) = w[1]
  BY <1>3
<1>9. y \in Seq(S) /\ Len(y) = n - 1 /\ \A k \in 1 .. n - 1 : y[k] = w[k + 1]
  BY <1>3, <1>8
<1> HIDE DEF y
<1>10. ASSUME NEW k \in 1 .. n - 1 PROVE x[k] = y[k]
  <2>1. k - 1 \in Int /\ (k - 1) + 1 = k /\ k + 1 \in 1 .. n /\ (k + 1) - 1 = k
    OBVIOUS
  <2>2. Nth(u, k - 1, N) = Nth(s, k, N)
    BY <1>4, <2>1
  <2>3. w[k + 1] = r[Nth(s, k, N)]
    BY <1>3, <2>1
  <2>4. QED BY <1>6, <1>9, <2>2, <2>3
<1>11. x = y
  BY <1>6, <1>9, <1>10, SeqEqual
<1>12. QED BY <1>7, <1>8, <1>11 DEF w, x, y, u
=============================================================================
