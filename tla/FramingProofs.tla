----------------------------- MODULE FramingProofs -----------------------------
(***************************************************************************)
(* Framing for any base, header size, maximum frame size and payloads: the *)
(* reader stays on frame boundaries, refuses nothing encode_frame lets     *)
(* pass, and every step of the codec is a step of FrameStream or none.     *)
(*                                                                         *)
(* The recursive functions of the model, the digits of a number, the value *)
(* of digits and the concatenation of frames, are dealt with by induction  *)
(* over sets of natural numbers: the set of those for which a fact holds   *)
(* is named, and SetInduction says it is everything.                       *)
(***************************************************************************)
EXTENDS Framing, SequenceTheorems, WellFoundedInduction, TLAPS

----------------------------------------------------------------------------
(* Induction and recursion over the natural numbers.                       *)

LEMMA LeastNatural ==
    ASSUME NEW T, T \subseteq Nat, T # {}
    PROVE  \E m \in T : \A k \in T : m <= k
<1> DEFINE R == OpToRel(<, Nat)
<1>1. \E x \in T : \A y \in T : ~ (<<y, x>> \in R)
  BY NatLessThanWellFounded, WFMin
<1>2. \A x, y \in Nat : y < x => <<y, x>> \in R
  BY DEF OpToRel
<1> HIDE DEF R
<1>3. PICK x \in T : \A y \in T : ~ (<<y, x>> \in R)
  BY <1>1
<1>4. \A y \in T : ~ (y < x)
  BY <1>2, <1>3
<1> QED
  BY <1>4

\* A set that holds 0 and, below n, the successor of each of its members, holds
\* all numbers up to n.
LEMMA SetInduction ==
    ASSUME NEW n \in Nat, NEW T, 0 \in T, \A k \in 0..(n - 1) : k \in T => k + 1 \in T
    PROVE  0..n \subseteq T
<1> DEFINE D == (0..n) \ T
<1> SUFFICES ASSUME D # {}
             PROVE  FALSE
  OBVIOUS
<1>1. D \subseteq Nat /\ \A m \in 0..n : m \in T \/ m \in D
  OBVIOUS
<1>2. \A m \in D : m \in 0..n /\ m \notin T
  OBVIOUS
<1> HIDE DEF D
<1>3. PICK m \in D : \A k \in D : m <= k
  BY <1>1, LeastNatural
<1>4. m \in 1..n /\ m - 1 \in 0..(n - 1) /\ (m - 1) + 1 = m
  BY <1>2, <1>3
<1>5. m - 1 \in T
  BY <1>1, <1>3, <1>4
<1> QED
  BY <1>2, <1>3, <1>4, <1>5

\* A function on 0..n whose first value is c, and of each next value a step.
Follows(f, c, step, n) == f[0] = c /\ \A k \in 1..n : f[k] = step[<<f[k - 1], k>>]

IsStep(step, V, n) == step \in [V \X (1..n) -> V]

\* There is one.
LEMMA Recursion ==
    ASSUME NEW V, NEW c \in V, NEW n \in Nat, NEW step, IsStep(step, V, n)
    PROVE  \E f \in [0..n -> V] : Follows(f, c, step, n)
<1> USE DEF IsStep, Follows
<1> DEFINE Good(f, m) ==
              f \in [0..m -> V] /\ f[0] = c /\ \A k \in 1..m : f[k] = step[<<f[k - 1], k>>]
           T == {m \in 0..n : \E f : Good(f, m)}
<1>1. 0 \in T
  <2>1. Good([k \in 0..0 |-> c], 0)
    OBVIOUS
  <2> HIDE DEF Good
  <2> QED
    BY <2>1
<1>2. ASSUME NEW m \in 0..(n - 1), m \in T
      PROVE  m + 1 \in T
  <2>1. PICK f : Good(f, m)
    BY <1>2
  <2> DEFINE g == [k \in 0..(m + 1) |-> IF k <= m THEN f[k] ELSE step[<<f[m], m + 1>>]]
  <2>2. f[m] \in V /\ m + 1 \in 1..n
    BY <2>1
  <2>3. step[<<f[m], m + 1>>] \in V
    BY <2>2
  <2>4. g \in [0..(m + 1) -> V] /\ g[0] = c
    BY <2>1, <2>3
  <2>5. ASSUME NEW k \in 1..(m + 1)
        PROVE  g[k] = step[<<g[k - 1], k>>]
    <3>1. g[k - 1] = f[k - 1]
      OBVIOUS
    <3>2. CASE k <= m
      BY <2>1, <3>1, <3>2
    <3>3. CASE k = m + 1
      <4>1. g[k] = step[<<f[m], m + 1>>] /\ k - 1 = m
        BY <3>3
      <4> QED
        BY <3>1, <3>3, <4>1
    <3> QED
      BY <3>2, <3>3
  <2>6. Good(g, m + 1)
    BY <2>4, <2>5
  <2>7. m + 1 \in 0..n
    OBVIOUS
  <2> HIDE DEF Good, g
  <2> QED
    BY <2>6, <2>7
<1> HIDE DEF Good
<1> HIDE DEF T
<1>3. 0..n \subseteq T
  BY <1>1, <1>2, SetInduction
<1>4. n \in T
  BY <1>3
<1> QED
  BY <1>4 DEF Good, T

----------------------------------------------------------------------------
(* Numbers as bytes.                                                       *)

LEMMA Constants ==
    /\ Base \in Nat \ {0, 1} /\ HeaderSize \in Nat \ {0} /\ HeaderSize \in Nat
    /\ MaxFrameSize \in Nat
    /\ Types \subseteq Byte /\ Shifted(MaxFrameSize)[HeaderSize] = 0
    /\ \A p \in Payloads : p \in Seq(Byte)
  BY FramingAssumption

LEMMA Division ==
    ASSUME NEW q \in Nat
    PROVE  /\ q \div Base \in Nat /\ q % Base \in Byte
           /\ (q \div Base) * Base + (q % Base) = q
           /\ \A r \in Nat : q <= r => q \div Base <= r \div Base
<1>1. Base \in Nat \ {0}
  BY Constants
<1>2. q \div Base \in Nat /\ q % Base \in 0..(Base - 1) /\ (q \div Base) * Base + (q % Base) = q
  BY <1>1
<1>3. \A r \in Nat : q <= r => q \div Base <= r \div Base
  BY <1>1
<1> QED
  BY <1>2, <1>3 DEF Byte

\* The function Shifted names is there.
LEMMA ShiftedIs ==
    ASSUME NEW n \in Nat
    PROVE  /\ Shifted(n) \in [0..HeaderSize -> Nat] /\ Shifted(n)[0] = n
           /\ \A k \in 1..HeaderSize : Shifted(n)[k] = Shifted(n)[k - 1] \div Base
<1> DEFINE step == [x \in Nat \X (1..HeaderSize) |-> x[1] \div Base]
           Is(f) == f = [k \in 0..HeaderSize |-> IF k = 0 THEN n ELSE f[k - 1] \div Base]
<1>1. step \in [Nat \X (1..HeaderSize) -> Nat]
  BY Division
<1>2. \A v \in Nat : \A k \in 1..HeaderSize : step[<<v, k>>] = v \div Base
  OBVIOUS
<1> HIDE DEF step
<1>3. PICK f \in [0..HeaderSize -> Nat] : Follows(f, n, step, HeaderSize)
  <2>1. HeaderSize \in Nat
    BY Constants
  <2>2. IsStep(step, Nat, HeaderSize)
    BY <1>1 DEF IsStep
  <2> QED
    BY <2>1, <2>2, Recursion
<1>4. ASSUME NEW k \in 1..HeaderSize
      PROVE  f[k - 1] \in Nat /\ f[k] = f[k - 1] \div Base
  <2>1. k - 1 \in 0..HeaderSize
    BY Constants
  <2>2. f[k - 1] \in Nat
    BY <1>3, <2>1
  <2>3. f[k] = step[<<f[k - 1], k>>]
    BY <1>3 DEF Follows
  <2> QED
    BY <1>2, <2>2, <2>3
<1>5. Is(f)
  BY <1>3, <1>4, Constants DEF Follows
<1>6. Shifted(n) = CHOOSE g : Is(g)
  BY DEF Shifted
<1>7. Is(Shifted(n))
  BY <1>5, <1>6
<1> DEFINE s == Shifted(n)
           T == {k \in 0..HeaderSize : s[k] \in Nat}
<1>8. DOMAIN s = 0..HeaderSize /\ s[0] = n /\ \A k \in 1..HeaderSize : s[k] = s[k - 1] \div Base
  BY <1>7, Constants
<1>9. s = [k \in 0..HeaderSize |-> s[k]]
  BY <1>7
<1> HIDE DEF s, Is
<1>10. 0..HeaderSize \subseteq T
  <2>1. 0 \in T
    BY <1>8, Constants
  <2>2. ASSUME NEW k \in 0..(HeaderSize - 1), k \in T
        PROVE  k + 1 \in T
    <3>1. s[k] \in Nat /\ k + 1 \in 1..HeaderSize /\ (k + 1) - 1 = k
      BY <2>2, Constants
    <3>2. s[k + 1] = s[k] \div Base
      BY <1>8, <3>1
    <3>3. s[k] \div Base \in Nat
      BY <3>1, Division
    <3>4. k + 1 \in 0..HeaderSize
      BY Constants
    <3> QED
      BY <3>2, <3>3, <3>4
  <2> HIDE DEF T
  <2> QED
    BY <2>1, <2>2, SetInduction, Constants
<1>11. s \in [0..HeaderSize -> Nat]
  BY <1>9, <1>10
<1> QED
  BY <1>8, <1>11 DEF s

\* What fits into the header is anything up to the maximum.
LEMMA Fitting ==
    ASSUME NEW n \in 0..MaxFrameSize
    PROVE  Shifted(n)[HeaderSize] = 0
<1> DEFINE s == Shifted(n)
           t == Shifted(MaxFrameSize)
           T == {k \in 0..HeaderSize : s[k] <= t[k]}
<1>1. /\ s \in [0..HeaderSize -> Nat] /\ s[0] = n
      /\ \A k \in 1..HeaderSize : s[k] = s[k - 1] \div Base
  <2>1. n \in Nat
    BY Constants
  <2> QED
    BY <2>1, ShiftedIs
<1>2. /\ t \in [0..HeaderSize -> Nat] /\ t[0] = MaxFrameSize
      /\ \A k \in 1..HeaderSize : t[k] = t[k - 1] \div Base
  BY ShiftedIs, Constants
<1>3. t[HeaderSize] = 0
  BY Constants
<1> HIDE DEF s, t
<1>4. HeaderSize \in T
  <2>1. 0 \in T
    BY <1>1, <1>2, Constants
  <2>2. ASSUME NEW k \in 0..(HeaderSize - 1), k \in T
        PROVE  k + 1 \in T
    <3>1. s[k] \in Nat /\ t[k] \in Nat /\ s[k] <= t[k] /\ k + 1 \in 1..HeaderSize /\ (k + 1) - 1 = k
      BY <1>1, <1>2, <2>2, Constants
    <3>2. s[k + 1] = s[k] \div Base /\ t[k + 1] = t[k] \div Base
      BY <1>1, <1>2, <3>1
    <3>3. s[k + 1] <= t[k + 1]
      BY <3>1, <3>2, Division
    <3> QED
      BY <3>1, <3>3
  <2> HIDE DEF T
  <2>3. 0..HeaderSize \subseteq T
    BY <2>1, <2>2, SetInduction, Constants
  <2> QED
    BY <2>3, Constants
<1>5. s[HeaderSize] \in Nat
  BY <1>1, Constants
<1> QED
  BY <1>3, <1>4, <1>5 DEF s

LEMMA ToBytesIs ==
    ASSUME NEW n \in Nat
    PROVE  /\ ToBytes(n) \in [1..HeaderSize -> Byte] /\ ToBytes(n) \in Seq(Byte)
           /\ Len(ToBytes(n)) = HeaderSize
           /\ \A i \in 1..HeaderSize : ToBytes(n)[i] = Shifted(n)[HeaderSize - i] % Base
<1>1. ASSUME NEW i \in 1..HeaderSize
      PROVE  Shifted(n)[HeaderSize - i] % Base \in Byte
  <2>1. HeaderSize - i \in 0..HeaderSize
    BY Constants
  <2>2. Shifted(n)[HeaderSize - i] \in Nat
    BY <2>1, ShiftedIs
  <2> QED
    BY <2>2, Division
<1>2. ToBytes(n) \in [1..HeaderSize -> Byte]
  BY <1>1 DEF ToBytes
<1>3. HeaderSize \in Nat
  BY Constants
<1>4. ToBytes(n) \in Seq(Byte)
  BY <1>2, <1>3, SeqDef
<1>5. Len(ToBytes(n)) = HeaderSize
  BY <1>2, <1>3, <1>4, LenProperties
<1> QED
  BY <1>2, <1>4, <1>5 DEF ToBytes

\* The value FromBytes computes.
LEMMA FromBytesIs ==
    ASSUME NEW b \in Seq(Byte)
    PROVE  \E f \in [0..Len(b) -> Nat] :
              /\ f[0] = 0 /\ \A k \in 1..Len(b) : f[k] = f[k - 1] * Base + b[k]
              /\ FromBytes(b) = f[Len(b)]
<1> DEFINE n == Len(b)
           step == [x \in Nat \X (1..n) |-> x[1] * Base + b[x[2]]]
           Is(f) == f = [k \in 0..n |-> IF k = 0 THEN 0 ELSE f[k - 1] * Base + b[k]]
<1>1. n \in Nat /\ \A k \in 1..n : b[k] \in Nat
  <2>1. Len(b) \in Nat /\ \A k \in 1..Len(b) : b[k] \in Byte
    BY LenProperties
  <2>2. \A x \in Byte : x \in Nat
    BY Constants DEF Byte
  <2> QED
    BY <2>1, <2>2
<1> HIDE DEF n
<1>2. \A v \in Nat : \A k \in 1..n : v * Base + b[k] \in Nat
  BY <1>1, Constants
<1>3. step \in [Nat \X (1..n) -> Nat]
  BY <1>2
<1>4. \A v \in Nat : \A k \in 1..n : step[<<v, k>>] = v * Base + b[k]
  OBVIOUS
<1> HIDE DEF step
<1>5. PICK f \in [0..n -> Nat] : Follows(f, 0, step, n)
  <2>1. 0 \in Nat /\ IsStep(step, Nat, n)
    BY <1>3 DEF IsStep
  <2> QED
    BY <1>1, <2>1, Recursion
<1>6. ASSUME NEW k \in 1..n
      PROVE  f[k - 1] \in Nat /\ f[k] = f[k - 1] * Base + b[k]
  <2>1. k - 1 \in 0..n
    BY <1>1
  <2>2. f[k - 1] \in Nat
    BY <1>5, <2>1
  <2> QED
    BY <1>4, <1>5, <2>2 DEF Follows
<1>7. Is(f)
  BY <1>1, <1>5, <1>6 DEF Follows
<1> DEFINE v == CHOOSE g : Is(g)
<1>8. Is(v)
  BY <1>7
<1>9. FromBytes(b) = v[n]
  BY DEF FromBytes, n
<1>10. DOMAIN v = 0..n /\ v[0] = 0 /\ \A k \in 1..n : v[k] = v[k - 1] * Base + b[k]
  <2> HIDE DEF v
  <2>1. /\ DOMAIN v = 0..n
        /\ \A k \in 0..n : v[k] = IF k = 0 THEN 0 ELSE v[k - 1] * Base + b[k]
    BY <1>8
  <2>2. 0 \in 0..n /\ \A k \in 1..n : k \in 0..n /\ k # 0
    BY <1>1
  <2> QED
    BY <2>1, <2>2
<1>11. v = [k \in 0..n |-> v[k]]
  BY <1>8
<1> HIDE DEF v, Is
<1> DEFINE T == {k \in 0..n : v[k] \in Nat}
<1>12. 0..n \subseteq T
  <2>1. 0 \in T
    BY <1>1, <1>10
  <2>2. ASSUME NEW k \in 0..(n - 1), k \in T
        PROVE  k + 1 \in T
    <3>1. v[k] \in Nat /\ k + 1 \in 1..n /\ (k + 1) - 1 = k
      BY <1>1, <2>2
    <3>2. v[k + 1] = v[k] * Base + b[k + 1]
      BY <1>10, <3>1
    <3>3. v[k] * Base + b[k + 1] \in Nat
      BY <1>2, <3>1
    <3>4. k + 1 \in 0..n
      BY <1>1
    <3> QED
      BY <3>2, <3>3, <3>4
  <2> HIDE DEF T
  <2> QED
    BY <1>1, <2>1, <2>2, SetInduction
<1>13. v \in [0..n -> Nat]
  BY <1>11, <1>12
<1> QED
  BY <1>9, <1>10, <1>13 DEF n

\* A length in a header is read as it was written: what encode_frame() makes of
\* any length up to MAX_FRAME_SIZE, read_frame() makes that length of.
THEOREM RoundTrip ==
    ASSUME NEW n \in 0..MaxFrameSize
    PROVE  FromBytes(ToBytes(n)) = n
<1> DEFINE b == ToBytes(n)
           s == Shifted(n)
<1>1. n \in Nat /\ HeaderSize \in Nat /\ HeaderSize > 0
  BY Constants
<1>2. /\ b \in Seq(Byte) /\ Len(b) = HeaderSize
      /\ \A i \in 1..HeaderSize : b[i] = s[HeaderSize - i] % Base
  BY <1>1, ToBytesIs
<1>3. /\ s \in [0..HeaderSize -> Nat] /\ s[0] = n /\ s[HeaderSize] = 0
      /\ \A k \in 1..HeaderSize : s[k] = s[k - 1] \div Base
  BY <1>1, ShiftedIs, Fitting
<1> HIDE DEF b, s
<1>4. PICK f \in [0..Len(b) -> Nat] :
         /\ f[0] = 0 /\ \A k \in 1..Len(b) : f[k] = f[k - 1] * Base + b[k]
         /\ FromBytes(b) = f[Len(b)]
  BY <1>2, FromBytesIs
<1> DEFINE T == {k \in 0..HeaderSize : f[k] = s[HeaderSize - k]}
<1>5. 0 \in T
  BY <1>1, <1>3, <1>4
<1>6. ASSUME NEW k \in 0..(HeaderSize - 1), k \in T
      PROVE  k + 1 \in T
  <2> DEFINE j == HeaderSize - k
             q == s[j - 1]
  <2>1. /\ k + 1 \in 1..HeaderSize /\ k + 1 \in 0..HeaderSize /\ (k + 1) - 1 = k
        /\ j \in 1..HeaderSize /\ j - 1 \in 0..HeaderSize /\ HeaderSize - (k + 1) = j - 1
    BY <1>1
  <2>2. f[k] = s[j]
    BY <1>6
  <2> HIDE DEF j
  <2>3. f[k + 1] = f[k] * Base + b[k + 1]
    BY <1>2, <1>4, <2>1
  <2>4. b[k + 1] = q % Base
    BY <1>2, <2>1
  <2>5. f[k] = q \div Base
    BY <1>3, <2>1, <2>2
  <2>6. q \in Nat
    BY <1>3, <2>1
  <2>7. f[k + 1] = q
    BY <2>3, <2>4, <2>5, <2>6, Division
  <2> QED
    BY <2>1, <2>7
<1> HIDE DEF T
<1>7. 0..HeaderSize \subseteq T
  BY <1>1, <1>5, <1>6, SetInduction
<1>8. f[HeaderSize] = s[0]
  <2>1. HeaderSize \in T /\ HeaderSize - HeaderSize = 0
    BY <1>1, <1>7
  <2> QED
    BY <2>1 DEF T
<1> QED
  BY <1>2, <1>3, <1>4, <1>8 DEF b

----------------------------------------------------------------------------
(* Sequences.                                                              *)

\* Equal wholes with equally long first parts have equal parts.
LEMMA SameParts ==
    ASSUME NEW S, NEW a \in Seq(S), NEW b \in Seq(S), NEW c \in Seq(S), NEW d \in Seq(S),
           a \o b = c \o d, Len(a) = Len(c)
    PROVE  a = c /\ b = d
<1>1. /\ Len(a \o b) = Len(a) + Len(b) /\ Len(c \o d) = Len(c) + Len(d)
      /\ Len(a) \in Nat /\ Len(b) \in Nat /\ Len(d) \in Nat
  BY ConcatProperties, LenProperties
<1>2. Len(b) = Len(d)
  BY <1>1
<1>3. ASSUME NEW i \in 1..Len(a)
      PROVE  a[i] = c[i]
  <2>1. (a \o b)[i] = a[i] /\ (c \o d)[i] = c[i]
    BY ConcatProperties, <1>1
  <2> QED
    BY <2>1
<1>4. ASSUME NEW i \in 1..Len(b)
      PROVE  b[i] = d[i]
  <2> DEFINE j == Len(a) + i
  <2>1. j \in 1..(Len(a) + Len(b)) /\ j - Len(a) = i /\ ~ (j <= Len(a)) /\ ~ (j <= Len(c))
    BY <1>1
  <2> HIDE DEF j
  <2>2. (a \o b)[j] = b[j - Len(a)]
    BY ConcatProperties, <2>1
  <2>3. (c \o d)[j] = d[j - Len(c)]
    BY ConcatProperties, <1>2, <2>1
  <2> QED
    BY <2>1, <2>2, <2>3
<1>5. a = c
  BY <1>3, SeqEqual
<1>6. b = d
  BY <1>2, <1>4, SeqEqual
<1> QED
  BY <1>5, <1>6

\* A sequence cut in two.
LEMMA Cut ==
    ASSUME NEW S, NEW s \in Seq(S), NEW k \in 0..Len(s)
    PROVE  /\ SubSeq(s, 1, k) \in Seq(S) /\ Len(SubSeq(s, 1, k)) = k
           /\ SubSeq(s, k + 1, Len(s)) \in Seq(S) /\ Len(SubSeq(s, k + 1, Len(s))) = Len(s) - k
           /\ s = SubSeq(s, 1, k) \o SubSeq(s, k + 1, Len(s))
<1>1. Len(s) \in Nat
  BY LenProperties
<1>2. /\ SubSeq(s, 1, k) \in Seq(S) /\ Len(SubSeq(s, 1, k)) = k
      /\ SubSeq(s, k + 1, Len(s)) \in Seq(S) /\ Len(SubSeq(s, k + 1, Len(s))) = Len(s) - k
  BY <1>1, SubSeqProperties
<1>3. s = SubSeq(s, 1, k) \o SubSeq(s, k + 1, Len(s))
  <2>1. 1 \in 1..(Len(s) + 1) /\ k \in (1 - 1)..Len(s) /\ Len(s) \in k..Len(s)
    BY <1>1
  <2>2. SubSeq(s, 1, k) \o SubSeq(s, k + 1, Len(s)) = SubSeq(s, 1, Len(s))
    BY <2>1, ConcatAdjacentSubSeq
  <2> QED
    BY <2>2, SubSeqFull
<1> QED
  BY <1>2, <1>3

\* What follows of it for the sequences the codec is about.
Bytes == Seq(Byte)

\* a and then b: a name that hides what \o is, so that the laws below are all
\* the provers know of it.
Then(a, b) == a \o b

LEMMA Concatenation ==
    /\ <<>> \in Bytes /\ Len(<<>>) = 0
    /\ \A a \in Bytes : Len(a) \in Nat /\ Then(a, <<>>) = a /\ Then(<<>>, a) = a
    /\ \A a \in Bytes : Len(a) = 0 => a = <<>>
    /\ \A a, b \in Bytes : Then(a, b) \in Bytes /\ Len(Then(a, b)) = Len(a) + Len(b)
    /\ \A a, b, c \in Bytes : Then(Then(a, b), c) = Then(a, Then(b, c))
    /\ \A a, b, c, d \in Bytes : Then(a, b) = Then(c, d) /\ Len(a) = Len(c) => a = c /\ b = d
<1>1. <<>> \in Bytes /\ Len(<<>>) = 0
  BY DEF Bytes
<1>2. \A a \in Bytes : Len(a) \in Nat /\ a \o <<>> = a /\ <<>> \o a = a
  BY LenProperties, ConcatEmptySeq DEF Bytes
<1>3. \A a \in Bytes : Len(a) = 0 => a = <<>>
  BY EmptySeq DEF Bytes
<1>4. \A a, b \in Bytes : a \o b \in Bytes /\ Len(a \o b) = Len(a) + Len(b)
  BY ConcatProperties DEF Bytes
<1>5. \A a, b, c \in Bytes : (a \o b) \o c = a \o (b \o c)
  BY ConcatAssociative DEF Bytes
<1>6. \A a, b, c, d \in Bytes : a \o b = c \o d /\ Len(a) = Len(c) => a = c /\ b = d
  BY SameParts DEF Bytes
<1> QED
  BY <1>1, <1>2, <1>3, <1>4, <1>5, <1>6 DEF Then

LEMMA Cancel ==
    \A a, b, c, d \in Bytes : Then(a, b) = Then(c, d) /\ Len(a) = Len(c) => a = c /\ b = d
  BY Concatenation

LEMMA Regroup ==
    \A a, b, c, d \in Bytes : Then(Then(Then(a, b), c), d) = Then(a, Then(b, Then(c, d)))
<1> TAKE a, b, c, d \in Bytes
<1>1. Then(b, c) \in Bytes /\ Then(Then(a, b), c) = Then(a, Then(b, c))
  BY Concatenation
<1>2. Then(Then(a, Then(b, c)), d) = Then(a, Then(Then(b, c), d))
  BY <1>1, Concatenation
<1>3. Then(Then(b, c), d) = Then(b, Then(c, d))
  BY Concatenation
<1> QED
  BY <1>1, <1>2, <1>3

LEMMA RegroupUnread ==
    \A a, b, c, d, e \in Bytes :
        Then(Then(Then(a, Then(b, c)), d), e) = Then(a, Then(b, Then(Then(c, d), e)))
<1> TAKE a, b, c, d, e \in Bytes
<1> DEFINE u == Then(b, c)
           v == Then(c, d)
<1>1. u \in Bytes /\ v \in Bytes /\ Then(u, d) = Then(b, v)
  BY Concatenation
<1> HIDE DEF u, v
<1>2. Then(Then(Then(a, u), d), e) = Then(a, Then(u, Then(d, e)))
  BY <1>1, Regroup
<1>3. Then(u, Then(d, e)) = Then(Then(u, d), e)
  BY <1>1, Concatenation
<1>4. Then(Then(b, v), e) = Then(b, Then(v, e))
  BY <1>1, Concatenation
<1> QED
  BY <1>1, <1>2, <1>3, <1>4 DEF u, v

LEMMA RegroupPiece ==
    \A a, b, c, d \in Bytes : Then(Then(a, Then(b, c)), d) = Then(Then(a, b), Then(c, d))
<1> TAKE a, b, c, d \in Bytes
<1>1. Then(a, Then(b, c)) = Then(Then(a, b), c) /\ Then(a, b) \in Bytes
  BY Concatenation
<1> QED
  BY <1>1, Concatenation

LEMMA CutBytes ==
    ASSUME NEW s \in Bytes, NEW k \in 0..Len(s)
    PROVE  /\ SubSeq(s, 1, k) \in Bytes /\ Len(SubSeq(s, 1, k)) = k
           /\ SubSeq(s, k + 1, Len(s)) \in Bytes
           /\ s = Then(SubSeq(s, 1, k), SubSeq(s, k + 1, Len(s)))
  BY Cut DEF Bytes, Then

----------------------------------------------------------------------------
(* What FlattenSeq makes of a sequence of sequences.                       *)

\* f[k] is the first k of them, joined.
Joins(f, ss) == f[0] = <<>> /\ \A k \in 1..Len(ss) : f[k] = f[k - 1] \o ss[k]

LEMMA FlattenIs ==
    ASSUME NEW S, NEW ss \in Seq(Seq(S))
    PROVE  \E f \in [0..Len(ss) -> Seq(S)] : Joins(f, ss) /\ FlattenSeq(ss) = f[Len(ss)]
<1> DEFINE n == Len(ss)
           step == [x \in Seq(S) \X (1..n) |-> x[1] \o ss[x[2]]]
           Is(f) == f = [k \in 1..n |-> IF k = 1 THEN ss[k] ELSE f[k - 1] \o ss[k]]
<1>1. n \in Nat /\ \A k \in 1..n : ss[k] \in Seq(S)
  BY LenProperties
<1>2. n = 0 => ss = <<>>
  OBVIOUS
<1>3. FlattenSeq(ss) = IF n = 0 THEN ss ELSE (CHOOSE g : Is(g))[n]
  BY DEF FlattenSeq
<1> HIDE DEF n
<1>4. PICK f \in [0..n -> Seq(S)] : Follows(f, <<>>, step, n)
  <2>1. \A v \in Seq(S) : \A k \in 1..n : v \o ss[k] \in Seq(S)
    BY <1>1, ConcatProperties
  <2>2. <<>> \in Seq(S)
    OBVIOUS
  <2>3. IsStep(step, Seq(S), n)
    BY <2>1 DEF IsStep
  <2> HIDE DEF step
  <2> QED
    BY <1>1, <2>2, <2>3, Recursion
<1>5. ASSUME NEW k \in 1..n
      PROVE  k - 1 \in 0..n /\ f[k - 1] \in Seq(S) /\ f[k] = f[k - 1] \o ss[k]
  <2>1. k - 1 \in 0..n
    BY <1>1
  <2>2. f[k - 1] \in Seq(S)
    BY <1>4, <2>1
  <2>3. f[k] = step[<<f[k - 1], k>>]
    BY <1>4 DEF Follows
  <2> QED
    BY <2>1, <2>2, <2>3
<1>6. f[0] = <<>>
  BY <1>4 DEF Follows
<1>7. Joins(f, ss)
  BY <1>5, <1>6 DEF Joins, n
<1>8. FlattenSeq(ss) = f[n]
  <2>1. CASE n = 0
    BY <1>2, <1>3, <1>6, <2>1
  <2>2. CASE n # 0
    <3> DEFINE g == [k \in 1..n |-> f[k]]
               v == CHOOSE h : Is(h)
    <3>1. f[1] = ss[1]
      <4>1. 1 \in 1..n /\ 1 - 1 = 0
        BY <1>1, <2>2
      <4>2. ss[1] \in Seq(S) /\ f[1] = <<>> \o ss[1]
        BY <1>1, <1>5, <1>6, <4>1
      <4> QED
        BY <4>2, ConcatEmptySeq
    <3>2. \A k \in 1..n : k # 1 => k - 1 \in 1..n
      BY <1>1
    <3>3. Is(g)
      BY <1>5, <3>1, <3>2
    <3>4. Is(v)
      BY <3>3
    <3> HIDE DEF v
    <3>5. \A k \in 1..n : v[k] = IF k = 1 THEN ss[k] ELSE v[k - 1] \o ss[k]
      BY <3>4
    <3> DEFINE T == {k \in 0..n : k = 0 \/ v[k] = f[k]}
    <3>6. ASSUME NEW k \in 0..(n - 1), k \in T
          PROVE  k + 1 \in T
      <4>1. k + 1 \in 1..n /\ (k + 1) - 1 = k /\ k + 1 \in 0..n /\ (k + 1 = 1 <=> k = 0)
        BY <1>1
      <4>2. CASE k = 0
        BY <3>1, <3>5, <4>1, <4>2
      <4>3. CASE k # 0
        <5>1. v[k] = f[k] /\ k + 1 # 1
          BY <3>6, <4>3
        <5>2. v[k + 1] = v[k] \o ss[k + 1] /\ f[k + 1] = f[k] \o ss[k + 1]
          BY <1>5, <3>5, <4>1, <5>1
        <5> QED
          BY <4>1, <5>1, <5>2
      <4> QED
        BY <4>2, <4>3
    <3>7. 0 \in T
      BY <1>1
    <3> HIDE DEF T
    <3>8. 0..n \subseteq T
      BY <1>1, <3>6, <3>7, SetInduction
    <3>9. n \in T
      BY <1>1, <3>8
    <3>10. v[n] = f[n]
      BY <2>2, <3>9 DEF T
    <3> QED
      BY <1>3, <2>2, <3>10 DEF v
  <2> QED
    BY <2>1, <2>2
<1> QED
  BY <1>7, <1>8 DEF n

LEMMA FlattenEmpty ==
    FlattenSeq(<<>>) = <<>>
  BY DEF FlattenSeq

\* One more at the end.
LEMMA FlattenAppend ==
    ASSUME NEW ss \in Seq(Bytes), NEW tt \in Seq(Bytes),
           Len(tt) = Len(ss) + 1, \A i \in 1..Len(ss) : tt[i] = ss[i]
    PROVE  FlattenSeq(tt) = Then(FlattenSeq(ss), tt[Len(tt)])
<1> DEFINE n == Len(ss)
<1>1. n \in Nat
  BY LenProperties
<1>2. PICK f \in [0..n -> Bytes] : Joins(f, ss) /\ FlattenSeq(ss) = f[n]
  BY FlattenIs DEF Bytes
<1>3. PICK g \in [0..(n + 1) -> Bytes] : Joins(g, tt) /\ FlattenSeq(tt) = g[n + 1]
  BY FlattenIs DEF Bytes
<1> DEFINE T == {k \in 0..n : g[k] = f[k]}
<1>4. n \in 0..n /\ 0 \in T
  BY <1>1, <1>2, <1>3 DEF Joins
<1>5. ASSUME NEW k \in 0..(n - 1), k \in T
      PROVE  k + 1 \in T
  <2>1. k + 1 \in 1..n /\ k + 1 \in 1..(n + 1) /\ (k + 1) - 1 = k /\ k + 1 \in 0..n
    BY <1>1
  <2>2. g[k + 1] = g[k] \o tt[k + 1] /\ f[k + 1] = f[k] \o ss[k + 1]
    BY <1>2, <1>3, <2>1 DEF Joins
  <2> QED
    BY <1>5, <2>1, <2>2
<1> HIDE DEF T
<1>6. 0..n \subseteq T
  BY <1>1, <1>4, <1>5, SetInduction
<1>7. g[n] = f[n]
  <2>1. n \in T
    BY <1>4, <1>6
  <2> QED
    BY <2>1 DEF T
<1>8. g[n + 1] = Then(g[n], tt[n + 1])
  <2>1. n + 1 \in 1..Len(tt) /\ (n + 1) - 1 = n
    BY <1>1
  <2> QED
    BY <1>3, <2>1 DEF Joins, Then
<1> QED
  BY <1>2, <1>3, <1>7, <1>8

\* One more in front.
LEMMA FlattenCons ==
    ASSUME NEW ss \in Seq(Bytes), NEW tt \in Seq(Bytes),
           Len(tt) = Len(ss) + 1, \A i \in 1..Len(ss) : tt[i + 1] = ss[i]
    PROVE  FlattenSeq(tt) = Then(tt[1], FlattenSeq(ss))
<1> DEFINE n == Len(ss)
<1>1. /\ n \in Nat /\ tt[1] \in Bytes
      /\ \A k \in 1..n : ss[k] \in Bytes
  BY LenProperties
<1>2. PICK f \in [0..n -> Bytes] : Joins(f, ss) /\ FlattenSeq(ss) = f[n]
  BY FlattenIs DEF Bytes
<1>3. PICK g \in [0..(n + 1) -> Bytes] : Joins(g, tt) /\ FlattenSeq(tt) = g[n + 1]
  BY FlattenIs DEF Bytes
<1> DEFINE T == {k \in 0..n : g[k + 1] = Then(tt[1], f[k])}
<1>4. 0 \in T
  <2>1. 1 \in 1..Len(tt) /\ 1 - 1 = 0 /\ 0 + 1 = 1 /\ 0 \in 0..n
    BY <1>1
  <2>2. g[1] = Then(<<>>, tt[1]) /\ f[0] = <<>>
    BY <1>2, <1>3, <2>1 DEF Joins, Then
  <2>3. Then(<<>>, tt[1]) = tt[1] /\ Then(tt[1], <<>>) = tt[1]
    BY <1>1, Concatenation
  <2> QED
    BY <2>1, <2>2, <2>3
<1>5. ASSUME NEW k \in 0..(n - 1), k \in T
      PROVE  k + 1 \in T
  <2>1. /\ k + 1 \in 1..n /\ (k + 1) + 1 \in 1..Len(tt) /\ ((k + 1) + 1) - 1 = k + 1
        /\ (k + 1) - 1 = k /\ k + 1 \in 0..n
    BY <1>1
  <2>2. /\ g[(k + 1) + 1] = Then(g[k + 1], tt[(k + 1) + 1])
        /\ f[k + 1] = Then(f[k], ss[k + 1])
    BY <1>2, <1>3, <2>1 DEF Joins, Then
  <2>3. tt[(k + 1) + 1] = ss[k + 1] /\ g[k + 1] = Then(tt[1], f[k])
    BY <1>5, <2>1
  <2>4. f[k] \in Bytes
    <3>1. k \in 0..n
      BY <1>1
    <3> QED
      BY <1>2, <3>1
  <2>5. Then(Then(tt[1], f[k]), ss[k + 1]) = Then(tt[1], Then(f[k], ss[k + 1]))
    <3>1. ss[k + 1] \in Bytes
      BY <1>1, <2>1
    <3> QED
      BY <1>1, <2>4, <3>1, Concatenation
  <2> QED
    BY <2>1, <2>2, <2>3, <2>5
<1> HIDE DEF T
<1>6. 0..n \subseteq T
  BY <1>1, <1>4, <1>5, SetInduction
<1>7. g[n + 1] = Then(tt[1], f[n])
  <2>1. n \in T
    BY <1>1, <1>6
  <2> QED
    BY <2>1 DEF T
<1> QED
  BY <1>2, <1>3, <1>7

----------------------------------------------------------------------------
(* Frames as bytes.                                                        *)

LEMMA FrameBytes ==
    ASSUME NEW f \in Frame
    PROVE  /\ f.type \in Types /\ f.payload \in Bytes
           /\ Remainder(f) \in Bytes /\ Len(Remainder(f)) = Len(f.payload) + 2
           /\ Remainder(f)[1] = Magic /\ Remainder(f)[2] = f.type
           /\ SubSeq(Remainder(f), 3, Len(Remainder(f))) = f.payload
           /\ EncodeFrame(f) \in Bytes
<1> DEFINE p == f.payload
           t == f.type
           a == <<Magic, t>>
           r == Then(a, p)
<1>1. t \in Types /\ p \in Bytes
  BY Constants DEF Frame, Bytes
<1>2. a \in Bytes /\ Len(a) = 2 /\ a[1] = Magic /\ a[2] = t
  BY <1>1, FramingAssumption DEF Bytes
<1>3. r = Remainder(f)
  BY DEF Remainder, Then
<1> HIDE DEF a, p, t
<1>4. r \in Bytes /\ Len(r) = Len(p) + 2 /\ Len(p) \in Nat
  <2>1. a \in Bytes /\ p \in Bytes /\ Len(a) = 2
    BY <1>1, <1>2
  <2>2. r \in Bytes /\ Len(r) = Len(a) + Len(p)
    BY <2>1, Concatenation
  <2>3. Len(p) \in Nat
    BY <2>1, Concatenation
  <2> QED
    BY <2>1, <2>2, <2>3
<1>5. r[1] = Magic /\ r[2] = t
  <2>1. a \in Seq(Byte) /\ p \in Seq(Byte)
    BY <1>1, <1>2 DEF Bytes
  <2>2. \A i \in 1..(Len(a) + Len(p)) : (a \o p)[i] = IF i <= Len(a) THEN a[i] ELSE p[i - Len(a)]
    BY <2>1, ConcatProperties
  <2>3. r = a \o p
    BY DEF Then
  <2>4. 1 \in 1..(Len(a) + Len(p)) /\ 2 \in 1..(Len(a) + Len(p)) /\ 1 <= Len(a) /\ 2 <= Len(a)
    BY <1>2, <1>4
  <2> HIDE DEF r
  <2> QED
    BY <1>2, <2>2, <2>3, <2>4
<1>6. SubSeq(r, 3, Len(r)) = p
  <2> DEFINE u == SubSeq(r, 1, 2)
             v == SubSeq(r, 3, Len(r))
  <2>1. u \in Bytes /\ Len(u) = 2 /\ v \in Bytes /\ r = Then(u, v)
    <3>1. 2 \in 0..Len(r) /\ 2 + 1 = 3
      BY <1>4
    <3> QED
      BY <1>4, <3>1, CutBytes
  <2>2. a \in Bytes /\ p \in Bytes /\ Len(a) = 2 /\ Then(u, v) = Then(a, p)
    BY <1>1, <1>2, <2>1
  <2> HIDE DEF r, u, v
  <2>3. u = a /\ v = p
    BY <2>1, <2>2, Cancel
  <2> QED
    BY <2>3 DEF v
<1>7. ToBytes(Len(r)) \in Bytes
  BY <1>4, ToBytesIs, Concatenation DEF Bytes
<1>8. EncodeFrame(f) \in Bytes
  <2>1. EncodeFrame(f) = Then(ToBytes(Len(r)), r)
    BY <1>3 DEF EncodeFrame, Then
  <2> QED
    BY <1>4, <1>7, <2>1, Concatenation
<1> QED
  BY <1>1, <1>3, <1>4, <1>5, <1>6, <1>8 DEF p, t

\* The frames after the first k, and their bytes.
Pieces(frames, k) == [i \in 1..(Len(frames) - k) |-> EncodeFrame(frames[k + i])]

Coming(frames, k) == FlattenSeq(Pieces(frames, k))

LEMMA PiecesIs ==
    ASSUME NEW frames \in Seq(Frame), NEW k \in 0..Len(frames)
    PROVE  /\ Pieces(frames, k) \in Seq(Bytes) /\ Len(Pieces(frames, k)) = Len(frames) - k
           /\ \A i \in 1..(Len(frames) - k) :
                 k + i \in 1..Len(frames) /\ Pieces(frames, k)[i] = EncodeFrame(frames[k + i])
           /\ Coming(frames, k) \in Bytes
<1> DEFINE n == Len(frames) - k
           s == Pieces(frames, k)
<1>1. Len(frames) \in Nat /\ n \in Nat /\ \A i \in 1..Len(frames) : frames[i] \in Frame
  BY LenProperties
<1>2. \A i \in 1..n : k + i \in 1..Len(frames)
  BY <1>1
<1>3. \A i \in 1..n : EncodeFrame(frames[k + i]) \in Bytes
  BY <1>1, <1>2, FrameBytes
<1>4. s \in [1..n -> Bytes] /\ \A i \in 1..n : s[i] = EncodeFrame(frames[k + i])
  BY <1>3 DEF Pieces
<1> HIDE DEF n, s
<1>5. s \in Seq(Bytes)
  BY <1>1, <1>4, SeqDef
<1>6. Len(s) = n
  BY <1>1, <1>4, <1>5, LenProperties
<1>7. FlattenSeq(s) \in Bytes
  <2>1. PICK f \in [0..Len(s) -> Bytes] : Joins(f, s) /\ FlattenSeq(s) = f[Len(s)]
    BY <1>5, FlattenIs DEF Bytes
  <2> QED
    BY <1>1, <1>6, <2>1
<1> QED
  BY <1>2, <1>4, <1>5, <1>6, <1>7 DEF Coming, n, s

LEMMA NoneComing ==
    ASSUME NEW frames \in Seq(Frame)
    PROVE  Coming(frames, Len(frames)) = <<>>
<1>1. Len(frames) \in Nat
  BY LenProperties
<1>2. /\ Pieces(frames, Len(frames)) \in Seq(Bytes)
      /\ Len(Pieces(frames, Len(frames))) = 0
  BY <1>1, PiecesIs
<1>3. Pieces(frames, Len(frames)) = <<>>
  BY <1>2, EmptySeq
<1> QED
  BY <1>3, FlattenEmpty DEF Coming

LEMMA OneMoreComing ==
    ASSUME NEW frames \in Seq(Frame), NEW f \in Frame, NEW k \in 0..Len(frames)
    PROVE  /\ Append(frames, f) \in Seq(Frame)
           /\ Coming(Append(frames, f), k) = Then(Coming(frames, k), EncodeFrame(f))
<1> DEFINE more == Append(frames, f)
           ss == Pieces(frames, k)
           tt == Pieces(more, k)
<1>1. /\ Len(frames) \in Nat /\ more \in Seq(Frame) /\ Len(more) = Len(frames) + 1
      /\ \A i \in 1..Len(frames) : more[i] = frames[i]
      /\ more[Len(frames) + 1] = f
  BY LenProperties, AppendProperties
<1> HIDE DEF more
<1>2. /\ ss \in Seq(Bytes) /\ Len(ss) = Len(frames) - k
      /\ \A i \in 1..(Len(frames) - k) :
            k + i \in 1..Len(frames) /\ ss[i] = EncodeFrame(frames[k + i])
  BY PiecesIs
<1>3. k \in 0..Len(more)
  BY <1>1
<1>4. /\ tt \in Seq(Bytes) /\ Len(tt) = Len(more) - k
      /\ \A i \in 1..(Len(more) - k) :
            k + i \in 1..Len(more) /\ tt[i] = EncodeFrame(more[k + i])
  BY <1>1, <1>3, PiecesIs
<1> HIDE DEF ss, tt
<1>5. Len(tt) = Len(ss) + 1
  BY <1>1, <1>2, <1>4
<1>6. ASSUME NEW i \in 1..Len(ss)
      PROVE  tt[i] = ss[i]
  <2>1. i \in 1..(Len(frames) - k) /\ i \in 1..(Len(more) - k)
    BY <1>1, <1>2
  <2>2. ss[i] = EncodeFrame(frames[k + i]) /\ tt[i] = EncodeFrame(more[k + i])
    BY <1>2, <1>4, <2>1
  <2>3. more[k + i] = frames[k + i]
    BY <1>1, <1>2, <2>1
  <2> QED
    BY <2>2, <2>3
<1>7. tt[Len(tt)] = EncodeFrame(f)
  <2>1. Len(tt) \in 1..(Len(more) - k) /\ k + Len(tt) = Len(frames) + 1
    BY <1>1, <1>4
  <2>2. tt[Len(tt)] = EncodeFrame(more[k + Len(tt)])
    BY <1>4, <2>1
  <2> QED
    BY <1>1, <2>1, <2>2
<1>8. FlattenSeq(tt) = Then(FlattenSeq(ss), tt[Len(tt)])
  BY <1>2, <1>4, <1>5, <1>6, FlattenAppend
<1> QED
  BY <1>1, <1>7, <1>8 DEF Coming, more, ss, tt

LEMMA NextComing ==
    ASSUME NEW frames \in Seq(Frame), NEW k \in 0..(Len(frames) - 1)
    PROVE  Coming(frames, k) = Then(EncodeFrame(frames[k + 1]), Coming(frames, k + 1))
<1> DEFINE ss == Pieces(frames, k + 1)
           tt == Pieces(frames, k)
<1>1. Len(frames) \in Nat
  BY LenProperties
<1>2. k \in 0..Len(frames) /\ k + 1 \in 0..Len(frames)
  BY <1>1
<1>3. /\ tt \in Seq(Bytes) /\ Len(tt) = Len(frames) - k
      /\ \A i \in 1..(Len(frames) - k) : tt[i] = EncodeFrame(frames[k + i])
  BY <1>2, PiecesIs
<1>4. /\ ss \in Seq(Bytes) /\ Len(ss) = Len(frames) - (k + 1)
      /\ \A i \in 1..(Len(frames) - (k + 1)) : ss[i] = EncodeFrame(frames[(k + 1) + i])
  BY <1>2, PiecesIs
<1> HIDE DEF ss, tt
<1>5. Len(tt) = Len(ss) + 1
  BY <1>1, <1>2, <1>3, <1>4
<1>6. ASSUME NEW i \in 1..Len(ss)
      PROVE  tt[i + 1] = ss[i]
  <2>1. /\ i \in 1..(Len(frames) - (k + 1)) /\ i + 1 \in 1..(Len(frames) - k)
        /\ k + (i + 1) = (k + 1) + i
    BY <1>1, <1>2, <1>4
  <2> QED
    BY <1>3, <1>4, <2>1
<1>7. tt[1] = EncodeFrame(frames[k + 1])
  BY <1>1, <1>3
<1>8. FlattenSeq(tt) = Then(tt[1], FlattenSeq(ss))
  BY <1>3, <1>4, <1>5, <1>6, FlattenCons
<1> QED
  BY <1>7, <1>8 DEF Coming, ss, tt

----------------------------------------------------------------------------
(* What is no frame.                                                       *)

Bodies == {<<m, t>> : m \in Byte, t \in Byte} \ {<<Magic, t>> : t \in Types}

\* The reader refuses header h, or the two bytes that follow it.
Refusable(h, r) ==
    \/ FromBytes(h) \notin 2..MaxFrameSize
    \/ h = ToBytes(2) /\ \E b \in Bodies, rest \in Bytes : r = Then(b, rest)

Spoilt(s) ==
    \E h, r \in Bytes : s = Then(h, r) /\ Len(h) = HeaderSize /\ Refusable(h, r)

LEMMA BodiesAre ==
    ASSUME NEW b \in Bodies
    PROVE  b \in Bytes /\ Len(b) = 2 /\ ~ (b[1] = Magic /\ b[2] \in Types)
<1>1. PICK m \in Byte, t \in Byte : b = <<m, t>>
  BY DEF Bodies
<1>2. b \in Bytes /\ Len(b) = 2
  BY <1>1 DEF Bytes
<1>3. b[1] = m /\ b[2] = t
  BY <1>1
<1>4. ASSUME m = Magic, t \in Types
      PROVE  FALSE
  BY <1>1, <1>4 DEF Bodies
<1> QED
  BY <1>2, <1>3, <1>4

LEMMA NoFramesSpoil ==
    ASSUME NEW s \in NoFrames
    PROVE  s \in Bytes /\ Spoilt(s)
<1> DEFINE Headers == {h \in [1..HeaderSize -> Byte] : FromBytes(h) \notin 2..MaxFrameSize}
<1>1. s \in Headers \/ \E b \in Bodies : s = Then(ToBytes(2), b)
  BY DEF NoFrames, Bodies, Then
<1>2. CASE s \in Headers
  <2>1. s \in [1..HeaderSize -> Byte] /\ FromBytes(s) \notin 2..MaxFrameSize
    BY <1>2
  <2>2. HeaderSize \in Nat
    BY Constants
  <2>3. s \in Seq(Byte)
    BY <2>1, <2>2, SeqDef
  <2>4. Len(s) = HeaderSize
    BY <2>1, <2>2, <2>3, LenProperties
  <2>5. s \in Bytes
    BY <2>3 DEF Bytes
  <2>6. <<>> \in Bytes /\ s = Then(s, <<>>)
    BY <2>5, Concatenation
  <2>7. Refusable(s, <<>>)
    BY <2>1 DEF Refusable
  <2> QED
    BY <2>4, <2>5, <2>6, <2>7 DEF Spoilt
<1>3. CASE \E b \in Bodies : s = Then(ToBytes(2), b)
  <2>1. PICK b \in Bodies : s = Then(ToBytes(2), b)
    BY <1>3
  <2>2. ToBytes(2) \in Bytes /\ Len(ToBytes(2)) = HeaderSize
    BY ToBytesIs DEF Bytes
  <2>3. b \in Bytes /\ <<>> \in Bytes /\ b = Then(b, <<>>)
    BY BodiesAre, Concatenation
  <2>4. s \in Bytes
    BY <2>1, <2>2, <2>3, Concatenation
  <2>5. Refusable(ToBytes(2), b)
    BY <2>3 DEF Refusable
  <2> QED
    BY <2>1, <2>2, <2>3, <2>4, <2>5 DEF Spoilt
<1> QED
  BY <1>1, <1>2, <1>3

LEMMA StillSpoilt ==
    ASSUME NEW s \in Bytes, Spoilt(s), NEW more \in Bytes
    PROVE  Spoilt(Then(s, more))
<1>1. PICK h \in Bytes, r \in Bytes : s = Then(h, r) /\ Len(h) = HeaderSize /\ Refusable(h, r)
  BY DEF Spoilt
<1>2. Then(r, more) \in Bytes /\ Then(s, more) = Then(h, Then(r, more))
  BY <1>1, Concatenation
<1>3. Refusable(h, Then(r, more))
  <2>1. CASE FromBytes(h) \notin 2..MaxFrameSize
    BY <2>1 DEF Refusable
  <2>2. CASE h = ToBytes(2) /\ \E b \in Bodies, rest \in Bytes : r = Then(b, rest)
    <3>1. PICK b \in Bodies, rest \in Bytes : r = Then(b, rest)
      BY <2>2
    <3>2. b \in Bytes
      BY BodiesAre
    <3>3. Then(rest, more) \in Bytes /\ Then(r, more) = Then(b, Then(rest, more))
      BY <3>1, <3>2, Concatenation
    <3> QED
      BY <2>2, <3>3 DEF Refusable
  <2> QED
    BY <1>1, <2>1, <2>2 DEF Refusable
<1> QED
  BY <1>1, <1>2, <1>3 DEF Spoilt

----------------------------------------------------------------------------
(* The inductive invariant.                                                *)

\* The header that was read, if it was, and all that follows it.
Header == IF wanted = 0 THEN <<>> ELSE ToBytes(wanted)

Unread == Then(Then(Header, buffer), flight)

\* What was read is what was sent, and was fit to be sent.
Whole ==
    /\ Len(read) <= Len(sent)
    /\ \A i \in 1..Len(read) : read[i] = sent[i]
    /\ \A i \in 1..Len(sent) : Fits(sent[i])

\* With what the connection lost, the bytes not consumed are the frames not
\* returned and, once the sender broke the protocol, something refusable.
Explains(tail, lost) ==
    /\ Then(Unread, lost) = Then(Coming(sent, Len(read)), tail)
    /\ IF sound THEN tail = <<>> ELSE Spoilt(tail)
    /\ link = "open" => lost = <<>>

Aligned == ~over => \E tail, lost \in Bytes : Explains(tail, lost)

Inv == TypeOK /\ Whole /\ Aligned /\ OnlyBadFramesRefused

\* The types of what the invariant is about.
LEMMA Parts ==
    ASSUME TypeOK, Whole
    PROVE  /\ buffer \in Bytes /\ flight \in Bytes /\ Header \in Bytes
           /\ Then(Header, buffer) \in Bytes /\ Unread \in Bytes
           /\ wanted \in Nat /\ (wanted # 0 => Len(Header) = HeaderSize)
           /\ sent \in Seq(Frame) /\ read \in Seq(Frame)
           /\ Len(sent) \in Nat /\ Len(read) \in Nat /\ Len(read) \in 0..Len(sent)
           /\ Coming(sent, Len(read)) \in Bytes
<1>1. /\ buffer \in Bytes /\ flight \in Bytes
      /\ wanted \in 0..MaxFrameSize /\ sent \in Seq(Frame) /\ read \in Seq(Frame)
  BY DEF TypeOK, Bytes
<1>2. wanted \in Nat
  BY <1>1, Constants
<1>3. ToBytes(wanted) \in Bytes /\ Len(ToBytes(wanted)) = HeaderSize
  BY <1>2, ToBytesIs DEF Bytes
<1>4. Header \in Bytes /\ (wanted # 0 => Len(Header) = HeaderSize)
  BY <1>3, Concatenation DEF Header
<1>5. Then(Header, buffer) \in Bytes
  BY <1>1, <1>4, Concatenation
<1>6. Unread \in Bytes
  BY <1>1, <1>5, Concatenation DEF Unread
<1>7. Len(sent) \in Nat /\ Len(read) \in Nat /\ Len(read) \in 0..Len(sent)
  BY <1>1, LenProperties DEF Whole
<1>8. Coming(sent, Len(read)) \in Bytes
  BY <1>1, <1>7, PiecesIs
<1> QED
  BY <1>1, <1>2, <1>4, <1>5, <1>6, <1>7, <1>8

LEMMA Lengths ==
    ASSUME TypeOK, Whole, Len(read) < Len(sent)
    PROVE  LET f == sent[Len(read) + 1]
               n == Len(Remainder(f))
           IN  f \in Frame /\ n \in 2..MaxFrameSize /\ n \in Nat /\ FromBytes(ToBytes(n)) = n
<1> DEFINE f == sent[Len(read) + 1]
           n == Len(Remainder(f))
<1>1. Len(read) + 1 \in 1..Len(sent) /\ sent \in Seq(Frame)
  BY Parts
<1>2. f \in Frame /\ Fits(f)
  BY <1>1, LenProperties DEF Whole
<1> HIDE DEF f
<1>3. n = Len(f.payload) + 2 /\ Len(f.payload) \in Nat
  BY <1>2, FrameBytes, Concatenation
<1>4. n \in 2..MaxFrameSize /\ n \in Nat
  BY <1>2, <1>3, Constants DEF Fits
<1>5. FromBytes(ToBytes(n)) = n
  <2>1. n \in 0..MaxFrameSize
    BY <1>4, Constants
  <2> QED
    BY <2>1, RoundTrip
<1> QED
  BY <1>2, <1>4, <1>5 DEF f

\* A header h and what follows it, r, begin the next frame, or what is none.
FrameNext(h, r, tail) ==
    LET f == sent[Len(read) + 1] IN
    /\ Len(read) < Len(sent)
    /\ h = ToBytes(Len(Remainder(f)))
    /\ r = Then(Remainder(f), Then(Coming(sent, Len(read) + 1), tail))

NoFrameNext(h, r) == read = sent /\ ~sound /\ Refusable(h, r)

LEMMA AtFrame ==
    ASSUME TypeOK, Whole,
           NEW tail \in Bytes, NEW h \in Bytes, NEW r \in Bytes, Len(h) = HeaderSize,
           Then(h, r) = Then(Coming(sent, Len(read)), tail),
           IF sound THEN tail = <<>> ELSE Spoilt(tail)
    PROVE  FrameNext(h, r, tail) \/ NoFrameNext(h, r)
<1>1. /\ sent \in Seq(Frame) /\ read \in Seq(Frame)
      /\ Len(sent) \in Nat /\ Len(read) \in Nat /\ Len(read) \in 0..Len(sent)
  BY Parts
<1>2. CASE Len(read) < Len(sent)
  <2> DEFINE f == sent[Len(read) + 1]
             n == Len(Remainder(f))
             after == Coming(sent, Len(read) + 1)
  <2>1. f \in Frame /\ n \in Nat
    BY <1>2, Lengths
  <2>2. Remainder(f) \in Bytes /\ EncodeFrame(f) = Then(ToBytes(n), Remainder(f))
    BY <2>1, FrameBytes DEF EncodeFrame, Then
  <2>3. ToBytes(n) \in Bytes /\ Len(ToBytes(n)) = HeaderSize
    BY <2>1, ToBytesIs DEF Bytes
  <2>4. Coming(sent, Len(read)) = Then(EncodeFrame(f), after)
    <3>1. Len(read) \in 0..(Len(sent) - 1)
      BY <1>1, <1>2
    <3> QED
      BY <1>1, <3>1, NextComing
  <2>5. after \in Bytes
    <3>1. Len(read) + 1 \in 0..Len(sent)
      BY <1>1, <1>2
    <3> QED
      BY <1>1, <3>1, PiecesIs
  <2> DEFINE header == ToBytes(n)
             body == Remainder(f)
  <2>6. header \in Bytes /\ Len(header) = HeaderSize /\ body \in Bytes
    BY <2>2, <2>3
  <2>7. Then(h, r) = Then(Then(Then(header, body), after), tail)
    BY <2>2, <2>4
  <2> HIDE DEF header, body, after
  <2>8. Then(Then(Then(header, body), after), tail) = Then(header, Then(body, Then(after, tail)))
    <3>1. header \in Bytes /\ body \in Bytes /\ after \in Bytes
      BY <2>5, <2>6
    <3> QED
      BY <3>1, Regroup
  <2>9. Then(body, Then(after, tail)) \in Bytes
    BY <2>5, <2>6, Concatenation
  <2>10. h = header /\ r = Then(body, Then(after, tail))
    <3>1. Then(h, r) = Then(header, Then(body, Then(after, tail)))
      BY <2>7, <2>8
    <3>2. Len(h) = Len(header)
      BY <2>6
    <3> QED
      BY <2>6, <2>9, <3>1, <3>2, Cancel, Zenon
  <2> QED
    BY <1>2, <2>10 DEF FrameNext, header, body, after
<1>3. CASE ~ (Len(read) < Len(sent))
  <2>1. Len(read) = Len(sent)
    BY <1>1, <1>3
  <2>2. read = sent
    BY <1>1, <2>1, SeqEqual DEF Whole
  <2>3. Coming(sent, Len(read)) = <<>>
    BY <1>1, <2>1, NoneComing
  <2>4. Then(h, r) = tail
    BY <2>3, Concatenation
  <2>5. ~sound
    <3>1. Len(Then(h, r)) = HeaderSize + Len(r) /\ Len(r) \in Nat /\ HeaderSize \in Nat \ {0}
      BY Concatenation, Constants
    <3>2. Len(Then(h, r)) # 0
      BY <3>1
    <3> QED
      BY <2>4, <3>2, Concatenation
  <2>6. PICK h2 \in Bytes, r2 \in Bytes :
           tail = Then(h2, r2) /\ Len(h2) = HeaderSize /\ Refusable(h2, r2)
    BY <2>5 DEF Spoilt
  <2>7. h = h2 /\ r = r2
    <3>1. Then(h, r) = Then(h2, r2) /\ Len(h) = Len(h2)
      BY <2>4, <2>6
    <3> QED
      BY <3>1, Cancel, Zenon
  <2> QED
    BY <2>2, <2>5, <2>6, <2>7 DEF NoFrameNext
<1> QED
  BY <1>2, <1>3

LEMMA HeaderRead ==
    ASSUME Inv, ReadHeader
    PROVE  /\ Inv'
           /\ over' => read = sent /\ ~sound
<1> DEFINE h == SubSeq(buffer, 1, HeaderSize)
           rest == SubSeq(buffer, HeaderSize + 1, Len(buffer))
           n == FromBytes(h)
<1> USE DEF Inv
<1>1. /\ ~over /\ wanted = 0 /\ Len(buffer) >= HeaderSize /\ buffer' = rest
      /\ IF LengthInBounds(n) THEN wanted' = n /\ over' = over ELSE over' = TRUE /\ wanted' = wanted
      /\ UNCHANGED <<sent, writes, sound, flight, link, read>>
  BY DEF ReadHeader, CanRead, Take
<1>2. /\ buffer \in Bytes /\ flight \in Bytes /\ Len(buffer) \in Nat /\ Coming(sent, Len(read)) \in Bytes
  BY Parts, Concatenation
<1>3. h \in Bytes /\ Len(h) = HeaderSize /\ rest \in Bytes /\ buffer = Then(h, rest)
  <2>1. HeaderSize \in 0..Len(buffer)
    BY <1>1, <1>2, Constants
  <2> QED
    BY <1>2, <2>1, CutBytes
<1> HIDE DEF h, rest
<1>4. n \in Nat
  <2>1. Len(h) \in Nat /\ h \in Seq(Byte)
    BY <1>3, Concatenation DEF Bytes
  <2>2. PICK f \in [0..Len(h) -> Nat] : FromBytes(h) = f[Len(h)]
    BY <2>1, FromBytesIs
  <2> QED
    BY <2>1, <2>2
<1> HIDE DEF n
<1>5. PICK tail \in Bytes, lost \in Bytes : Explains(tail, lost)
  BY <1>1 DEF Aligned
<1> DEFINE r == Then(Then(rest, flight), lost)
<1>6. r \in Bytes /\ Unread = Then(Then(h, rest), flight) /\ Then(Unread, lost) = Then(h, r)
  <2>1. Unread = Then(Then(<<>>, Then(h, rest)), flight)
    BY <1>1, <1>3 DEF Unread, Header
  <2>2. Unread = Then(Then(h, rest), flight)
    BY <1>3, <2>1, Concatenation
  <2>3. Then(rest, flight) \in Bytes /\ Then(Then(h, rest), flight) = Then(h, Then(rest, flight))
    BY <1>2, <1>3, Concatenation
  <2>4. Then(Then(h, Then(rest, flight)), lost) = Then(h, r) /\ r \in Bytes
    BY <1>3, <2>3, Concatenation
  <2> QED
    BY <2>2, <2>3, <2>4
<1> HIDE DEF r
<1>7. FrameNext(h, r, tail) \/ NoFrameNext(h, r)
  BY <1>3, <1>5, <1>6, AtFrame DEF Explains
<1>8. LengthInBounds(n) => n \in 2..MaxFrameSize /\ h = ToBytes(n)
  <2> SUFFICES ASSUME LengthInBounds(n)
               PROVE  n \in 2..MaxFrameSize /\ h = ToBytes(n)
    OBVIOUS
  <2>1. n \in 2..MaxFrameSize /\ 2 \in 0..MaxFrameSize
    BY <1>4, Constants DEF LengthInBounds
  <2>2. CASE FrameNext(h, r, tail)
    BY <2>1, <2>2, Lengths DEF FrameNext, n
  <2>3. CASE NoFrameNext(h, r)
    <3>1. h = ToBytes(2)
      BY <2>1, <2>3 DEF NoFrameNext, Refusable, n
    <3> QED
      BY <2>1, <3>1, RoundTrip DEF n
  <2> QED
    BY <1>7, <2>1, <2>2, <2>3
<1>9. ~LengthInBounds(n) => read = sent /\ ~sound
  <2>1. CASE FrameNext(h, r, tail)
    <3>1. n \in 2..MaxFrameSize
      BY <2>1, Lengths DEF FrameNext, n
    <3> QED
      BY <3>1, Constants DEF LengthInBounds
  <2>2. CASE NoFrameNext(h, r)
    BY <2>2 DEF NoFrameNext
  <2> QED
    BY <1>7, <2>1, <2>2
<1>10. TypeOK'
  <2>1. buffer' \in Seq(Byte)
    BY <1>1, <1>3 DEF Bytes
  <2>2. wanted' \in 0..MaxFrameSize /\ wanted' # 1
    <3>1. CASE LengthInBounds(n)
      BY <1>1, <1>8, <3>1, Constants
    <3>2. CASE ~LengthInBounds(n)
      BY <1>1, <3>2, Constants
    <3> QED
      BY <3>1, <3>2
  <2>3. over' \in BOOLEAN
    BY <1>1 DEF TypeOK
  <2> QED
    BY <1>1, <2>1, <2>2, <2>3 DEF TypeOK
<1>11. Whole'
  BY <1>1 DEF Whole
<1>12. Aligned'
  <2> SUFFICES ASSUME ~over'
               PROVE  \E t, l \in Bytes : Explains(t, l)'
    BY DEF Aligned
  <2>1. wanted' = n /\ n \in 2..MaxFrameSize /\ h = ToBytes(n)
    BY <1>1, <1>8
  <2>2. Header' = h
    BY <2>1 DEF Header
  <2>3. Unread' = Unread
    BY <1>1, <1>6, <2>2 DEF Unread
  <2>4. Explains(tail, lost)'
    BY <1>1, <1>5, <2>3 DEF Explains
  <2> QED
    BY <2>4
<1>13. OnlyBadFramesRefused'
  BY <1>1, <1>9 DEF OnlyBadFramesRefused
<1> QED
  BY <1>1, <1>9, <1>10, <1>11, <1>12, <1>13

LEMMA BodyRead ==
    ASSUME Inv, ReadBody
    PROVE  /\ Inv'
           /\ \/ /\ ~over' /\ Len(read) < Len(sent)
                 /\ read' = Append(read, sent[Len(read) + 1])
              \/ over' /\ read' = read /\ read = sent /\ ~sound
<1> DEFINE body == SubSeq(buffer, 1, wanted)
           rest == SubSeq(buffer, wanted + 1, Len(buffer))
           good == body[1] = Magic /\ body[2] \in Types
           k == Len(read)
           f == sent[k + 1]
<1> USE DEF Inv
<1>1. /\ ~over /\ wanted # 0 /\ Len(buffer) >= wanted /\ buffer' = rest
      /\ UNCHANGED <<sent, writes, sound, flight, link>>
  BY DEF ReadBody, CanRead, Take
<1>2. good => /\ read' = Append(read, [type |-> body[2], payload |-> SubSeq(body, 3, Len(body))])
              /\ wanted' = 0 /\ over' = over
  BY DEF ReadBody
<1>3. ~good => over' = TRUE /\ read' = read /\ wanted' = wanted
  BY DEF ReadBody
<1>4. /\ buffer \in Bytes /\ flight \in Bytes /\ Len(buffer) \in Nat
      /\ Header \in Bytes /\ Len(Header) = HeaderSize /\ Header = ToBytes(wanted)
      /\ Coming(sent, k) \in Bytes
      /\ sent \in Seq(Frame) /\ read \in Seq(Frame) /\ k \in Nat /\ Len(sent) \in Nat
  <2>1. /\ buffer \in Bytes /\ flight \in Bytes
        /\ Header \in Bytes /\ Len(Header) = HeaderSize
        /\ Coming(sent, k) \in Bytes
        /\ sent \in Seq(Frame) /\ read \in Seq(Frame) /\ k \in Nat /\ Len(sent) \in Nat
    <3>1. TypeOK /\ Whole /\ wanted # 0
      BY <1>1
    <3> HIDE DEF Inv
    <3> QED
      BY <3>1, Parts
  <2>2. Len(buffer) \in Nat
    BY <2>1, Concatenation
  <2>3. Header = ToBytes(wanted)
    BY <1>1 DEF Header
  <2> QED
    BY <2>1, <2>2, <2>3
<1>5. wanted \in 2..MaxFrameSize /\ wanted \in Nat /\ FromBytes(Header) = wanted
  <2>1. wanted \in 0..MaxFrameSize /\ wanted \in 2..MaxFrameSize /\ wanted \in Nat
    BY <1>1, Constants DEF TypeOK
  <2> QED
    BY <1>4, <2>1, RoundTrip
<1>6. body \in Bytes /\ Len(body) = wanted /\ rest \in Bytes /\ buffer = Then(body, rest)
  <2>1. wanted \in 0..Len(buffer)
    BY <1>1, <1>4, <1>5
  <2> QED
    BY <1>4, <2>1, CutBytes
<1> HIDE DEF body, rest, good
<1>7. PICK tail \in Bytes, lost \in Bytes : Explains(tail, lost)
  BY <1>1 DEF Aligned
<1> DEFINE left == Then(Then(rest, flight), lost)
           r == Then(body, left)
<1>8. left \in Bytes /\ r \in Bytes /\ Then(Unread, lost) = Then(Header, r)
  <2>1. Then(rest, flight) \in Bytes /\ left \in Bytes /\ r \in Bytes
    BY <1>4, <1>6, Concatenation
  <2>2. Unread = Then(Then(Header, Then(body, rest)), flight)
    BY <1>6 DEF Unread
  <2>3. Header \in Bytes /\ body \in Bytes /\ rest \in Bytes /\ flight \in Bytes
    BY <1>4, <1>6
  <2>4. Then(Unread, lost) = Then(Header, r)
    BY <2>2, <2>3, RegroupUnread
  <2> QED
    BY <2>1, <2>4
<1> HIDE DEF left
<1>9. FrameNext(Header, r, tail) \/ NoFrameNext(Header, r)
  <2> HIDE DEF r
  <2> QED
    BY <1>4, <1>7, <1>8, AtFrame DEF Explains
<1>10. CASE FrameNext(Header, r, tail)
  <2>1. f \in Frame /\ k < Len(sent) /\ Len(Remainder(f)) = wanted
    BY <1>5, <1>10, Lengths DEF FrameNext
  <2> DEFINE after == Coming(sent, k + 1)
  <2>2. Then(body, left) = Then(Remainder(f), Then(after, tail))
    BY <1>10 DEF FrameNext
  <2>3. after \in Bytes /\ Then(after, tail) \in Bytes /\ Remainder(f) \in Bytes
    <3>1. k + 1 \in 0..Len(sent)
      BY <1>4, <2>1
    <3>2. after \in Bytes
      BY <1>4, <3>1, PiecesIs
    <3> QED
      BY <2>1, <3>2, FrameBytes, Concatenation
  <2>4. body = Remainder(f) /\ left = Then(after, tail)
    <3>1. Len(body) = Len(Remainder(f))
      BY <1>6, <2>1
    <3> HIDE DEF f, after
    <3> QED
      BY <1>6, <1>8, <2>2, <2>3, <3>1, Cancel
  <2>5. good
    BY <2>1, <2>4, FrameBytes DEF good
  <2>6. [type |-> body[2], payload |-> SubSeq(body, 3, Len(body))] = f
    <3>1. body[2] = f.type /\ SubSeq(body, 3, Len(body)) = f.payload
      BY <2>1, <2>4, FrameBytes
    <3>2. f = [type |-> f.type, payload |-> f.payload]
      BY <2>1 DEF Frame
    <3> QED
      BY <3>1, <3>2
  <2>7. read' = Append(read, f) /\ wanted' = 0 /\ over' = over
    BY <1>2, <2>5, <2>6
  <2>8. /\ read' \in Seq(Frame) /\ Len(read') = k + 1 /\ read'[k + 1] = f
        /\ \A i \in 1..k : read'[i] = read[i]
    BY <1>4, <2>1, <2>7, AppendProperties
  <2>9. TypeOK'
    BY <1>1, <1>6, <2>7, <2>8, Constants DEF TypeOK, Bytes
  <2>10. Whole'
    <3>1. k + 1 <= Len(sent)
      BY <1>4, <2>1
    <3>2. \A i \in 1..(k + 1) : read'[i] = sent[i]
      <4>1. \A i \in 1..(k + 1) : i \in 1..k \/ i = k + 1
        BY <1>4
      <4> QED
        BY <2>8, <4>1 DEF Whole
    <3> QED
      BY <1>1, <2>8, <3>1, <3>2 DEF Whole
  <2>11. Aligned'
    <3>1. Header' = <<>>
      BY <2>7 DEF Header
    <3>2. Unread' = Then(Then(<<>>, rest), flight)
      BY <1>1, <3>1 DEF Unread
    <3>3. Unread' = Then(rest, flight)
      BY <1>6, <3>2, Concatenation
    <3>4. Then(Unread', lost) = left
      BY <3>3 DEF left
    <3>5. Coming(sent', Len(read')) = after
      BY <1>1, <2>8
    <3>6. Explains(tail, lost)'
      BY <1>1, <1>7, <2>4, <3>4, <3>5 DEF Explains
    <3> QED
      BY <3>6 DEF Aligned
  <2>12. OnlyBadFramesRefused'
    BY <1>1, <2>7 DEF OnlyBadFramesRefused
  <2> QED
    BY <1>1, <2>1, <2>7, <2>9, <2>10, <2>11, <2>12
<1>11. CASE NoFrameNext(Header, r)
  <2>1. read = sent /\ ~sound /\ Refusable(Header, r)
    BY <1>11 DEF NoFrameNext
  <2>2. Header = ToBytes(2) /\ \E b \in Bodies, more \in Bytes : r = Then(b, more)
    BY <1>5, <2>1 DEF Refusable
  <2>3. wanted = 2
    <3>1. 2 \in 0..MaxFrameSize
      BY <1>5, Constants
    <3> QED
      BY <1>5, <2>2, <3>1, RoundTrip
  <2>4. PICK b \in Bodies, more \in Bytes : Then(body, left) = Then(b, more)
    BY <2>2
  <2>5. b \in Bytes /\ Len(b) = 2 /\ ~ (b[1] = Magic /\ b[2] \in Types)
    BY BodiesAre
  <2>6. body = b
    <3>1. Len(body) = Len(b)
      BY <1>6, <2>3, <2>5
    <3> QED
      BY <1>6, <1>8, <2>4, <2>5, <3>1, Cancel
  <2>7. ~good
    BY <2>5, <2>6 DEF good
  <2>8. over' = TRUE /\ read' = read /\ wanted' = wanted
    BY <1>3, <2>7
  <2>9. TypeOK'
    BY <1>1, <1>6, <2>8 DEF TypeOK, Bytes
  <2>10. Whole' /\ Aligned' /\ OnlyBadFramesRefused'
    BY <1>1, <2>1, <2>8 DEF Whole, Aligned, OnlyBadFramesRefused
  <2> QED
    BY <2>1, <2>8, <2>9, <2>10
<1> QED
  BY <1>9, <1>10, <1>11

\* Any write puts its bytes behind all others.
LEMMA Written ==
    ASSUME Inv, NEW e \in Bytes, Write(e)
    PROVE  /\ Unread' = Then(Unread, e)
           /\ flight' \in Seq(Byte) /\ writes' \in 0..MaxFrames
           /\ link = "open" /\ UNCHANGED <<buffer, link, wanted, over, read>>
           /\ ~over => \E tail \in Bytes : /\ Unread = Then(Coming(sent, Len(read)), tail)
                                          /\ IF sound THEN tail = <<>> ELSE Spoilt(tail)
<1>1. TypeOK /\ Whole /\ Aligned
  BY DEF Inv
<1>2. /\ flight' = Then(flight, e) /\ writes < MaxFrames /\ writes' = writes + 1
      /\ link = "open" /\ UNCHANGED <<buffer, link, wanted, over, read>>
  BY DEF Write, Then
<1>3. /\ flight \in Bytes /\ Then(Header, buffer) \in Bytes /\ Unread \in Bytes
      /\ Coming(sent, Len(read)) \in Bytes
  BY <1>1, Parts
<1>4. Unread' = Then(Unread, e)
  <2>1. Header' = Header
    BY <1>2 DEF Header
  <2>2. Unread' = Then(Then(Header, buffer), Then(flight, e))
    BY <1>2, <2>1 DEF Unread
  <2>3. Unread = Then(Then(Header, buffer), flight)
    BY DEF Unread
  <2> QED
    BY <1>3, <2>2, <2>3, Concatenation
<1>5. flight' \in Seq(Byte)
  BY <1>2, <1>3, Concatenation DEF Bytes
<1>6. writes' \in 0..MaxFrames
  BY <1>1, <1>2, FramingAssumption DEF TypeOK
<1>7. ASSUME ~over
      PROVE  \E tail \in Bytes : /\ Unread = Then(Coming(sent, Len(read)), tail)
                                 /\ IF sound THEN tail = <<>> ELSE Spoilt(tail)
  <2>1. PICK tail \in Bytes, lost \in Bytes : Explains(tail, lost)
    BY <1>1, <1>7 DEF Aligned
  <2>2. lost = <<>>
    BY <1>2, <2>1 DEF Explains
  <2>3. Unread = Then(Coming(sent, Len(read)), tail)
    BY <1>3, <2>1, <2>2, Concatenation DEF Explains
  <2> QED
    BY <2>1, <2>3 DEF Explains
<1> QED
  BY <1>2, <1>4, <1>5, <1>6, <1>7

LEMMA FrameWritten ==
    ASSUME Inv, NEW f \in Frame, WriteFrame(f)
    PROVE  Inv'
<1> DEFINE e == EncodeFrame(f)
<1>1. TypeOK /\ Whole /\ OnlyBadFramesRefused
  BY DEF Inv
<1>2. /\ Fits(f) /\ Write(e) /\ sound' = sound
      /\ sent' = IF sound THEN Append(sent, f) ELSE sent
  BY DEF WriteFrame
<1>3. e \in Bytes
  BY FrameBytes
<1> HIDE DEF e
<1>4. /\ Unread' = Then(Unread, e)
      /\ flight' \in Seq(Byte) /\ writes' \in 0..MaxFrames
      /\ link = "open" /\ UNCHANGED <<buffer, link, wanted, over, read>>
      /\ ~over => \E tail \in Bytes : /\ Unread = Then(Coming(sent, Len(read)), tail)
                                     /\ IF sound THEN tail = <<>> ELSE Spoilt(tail)
  BY <1>2, <1>3, Written
<1>5. /\ sent \in Seq(Frame) /\ Len(sent) \in Nat /\ Len(read) \in Nat
      /\ Len(read) \in 0..Len(sent) /\ Coming(sent, Len(read)) \in Bytes
  BY <1>1, Parts
<1>6. /\ sent' \in Seq(Frame) /\ Len(sent) <= Len(sent')
      /\ \A i \in 1..Len(sent) : sent'[i] = sent[i]
      /\ \A i \in 1..Len(sent') : i \in 1..Len(sent) \/ sent'[i] = f
  <2>1. CASE sound
    BY <1>2, <1>5, <2>1, AppendProperties
  <2>2. CASE ~sound
    BY <1>2, <1>5, <2>2
  <2> QED
    BY <2>1, <2>2
<1>7. TypeOK'
  BY <1>1, <1>2, <1>4, <1>6 DEF TypeOK
<1>8. Whole'
  <2>1. Len(read) <= Len(sent')
    BY <1>5, <1>6, LenProperties
  <2>2. \A i \in 1..Len(read) : read[i] = sent'[i]
    BY <1>1, <1>5, <1>6 DEF Whole
  <2>3. \A i \in 1..Len(sent') : Fits(sent'[i])
    BY <1>1, <1>2, <1>6 DEF Whole
  <2> QED
    BY <1>4, <2>1, <2>2, <2>3 DEF Whole
<1>9. Aligned'
  <2> SUFFICES ASSUME ~over
               PROVE  \E t, l \in Bytes : Explains(t, l)'
    BY <1>4 DEF Aligned
  <2>1. PICK tail \in Bytes : /\ Unread = Then(Coming(sent, Len(read)), tail)
                              /\ IF sound THEN tail = <<>> ELSE Spoilt(tail)
    BY <1>4
  <2>2. <<>> \in Bytes /\ Then(tail, e) \in Bytes /\ Then(Unread', <<>>) = Unread'
    <3>1. Unread \in Bytes
      BY <1>1, Parts
    <3>2. Then(Unread, e) \in Bytes
      BY <1>3, <3>1, Concatenation
    <3> QED
      BY <1>3, <1>4, <3>2, Concatenation
  <2>3. CASE sound
    <3>1. Coming(sent', Len(read')) = Then(Coming(sent, Len(read)), e)
      BY <1>2, <1>4, <1>5, <2>3, OneMoreComing DEF e
    <3>2. Then(Coming(sent, Len(read)), e) \in Bytes /\ Unread = Coming(sent, Len(read))
      BY <1>3, <1>5, <2>1, <2>3, Concatenation
    <3>3. Unread' = Then(Coming(sent', Len(read')), <<>>)
      BY <1>4, <3>1, <3>2, Concatenation
    <3>4. Explains(<<>>, <<>>)'
      BY <1>2, <2>2, <2>3, <3>3 DEF Explains
    <3> QED
      BY <2>2, <3>4
  <2>4. CASE ~sound
    <3>1. Spoilt(Then(tail, e))
      BY <1>3, <2>1, <2>4, StillSpoilt
    <3>2. Then(Then(Coming(sent, Len(read)), tail), e) = Then(Coming(sent, Len(read)), Then(tail, e))
      BY <1>3, <1>5, Concatenation
    <3>3. Unread' = Then(Coming(sent', Len(read')), Then(tail, e))
      BY <1>2, <1>4, <2>1, <2>4, <3>2
    <3>4. Explains(Then(tail, e), <<>>)'
      BY <1>2, <2>2, <2>4, <3>1, <3>3 DEF Explains
    <3> QED
      BY <2>2, <3>4
  <2> QED
    BY <2>3, <2>4
<1>10. OnlyBadFramesRefused'
  BY <1>1, <1>2, <1>4 DEF OnlyBadFramesRefused
<1> QED
  BY <1>7, <1>8, <1>9, <1>10 DEF Inv

LEMMA NoFrameWritten ==
    ASSUME Inv, WriteNoFrame
    PROVE  Inv'
<1>1. TypeOK /\ Whole
  BY DEF Inv
<1>2. PICK e \in NoFrames : Write(e) /\ sound' = FALSE /\ sent' = sent
  BY DEF WriteNoFrame
<1>3. e \in Bytes /\ Spoilt(e)
  BY NoFramesSpoil
<1>4. /\ Unread' = Then(Unread, e)
      /\ flight' \in Seq(Byte) /\ writes' \in 0..MaxFrames
      /\ link = "open" /\ UNCHANGED <<buffer, link, wanted, over, read>>
      /\ ~over => \E tail \in Bytes : /\ Unread = Then(Coming(sent, Len(read)), tail)
                                     /\ IF sound THEN tail = <<>> ELSE Spoilt(tail)
  BY <1>2, <1>3, Written
<1>5. TypeOK'
  BY <1>1, <1>2, <1>4 DEF TypeOK
<1>6. Whole'
  BY <1>1, <1>2, <1>4 DEF Whole
<1>7. Aligned'
  <2> SUFFICES ASSUME ~over
               PROVE  \E t, l \in Bytes : Explains(t, l)'
    BY <1>4 DEF Aligned
  <2>1. PICK tail \in Bytes : /\ Unread = Then(Coming(sent, Len(read)), tail)
                              /\ IF sound THEN tail = <<>> ELSE Spoilt(tail)
    BY <1>4
  <2>2. Unread \in Bytes /\ Coming(sent, Len(read)) \in Bytes
    BY <1>1, Parts
  <2>3. Then(Unread, e) \in Bytes
    BY <1>3, <2>2, Concatenation
  <2>4. <<>> \in Bytes /\ Then(tail, e) \in Bytes /\ Then(Unread', <<>>) = Unread'
    BY <1>3, <1>4, <2>3, Concatenation
  <2>5. Spoilt(Then(tail, e))
    <3>1. CASE sound
      BY <1>3, <2>1, <3>1, Concatenation
    <3>2. CASE ~sound
      BY <1>3, <2>1, <3>2, StillSpoilt
    <3> QED
      BY <3>1, <3>2
  <2>6. Then(Then(Coming(sent, Len(read)), tail), e) = Then(Coming(sent, Len(read)), Then(tail, e))
    BY <1>3, <2>2, Concatenation
  <2>7. Unread' = Then(Coming(sent', Len(read')), Then(tail, e))
    BY <1>2, <1>4, <2>1, <2>6
  <2>8. Explains(Then(tail, e), <<>>)'
    BY <1>2, <2>4, <2>5, <2>7 DEF Explains
  <2> QED
    BY <2>4, <2>8
<1>8. OnlyBadFramesRefused'
  BY <1>2 DEF OnlyBadFramesRefused
<1> QED
  BY <1>5, <1>6, <1>7, <1>8 DEF Inv

LEMMA PieceArrived ==
    ASSUME Inv, Arrive
    PROVE  Inv'
<1>1. TypeOK /\ Whole /\ Aligned /\ OnlyBadFramesRefused
  BY DEF Inv
<1>2. PICK k \in 1..Len(flight) : /\ buffer' = buffer \o SubSeq(flight, 1, k)
                                  /\ flight' = SubSeq(flight, k + 1, Len(flight))
  BY DEF Arrive
<1>3. UNCHANGED <<sent, writes, sound, link, wanted, over, read>>
  BY DEF Arrive
<1> DEFINE p == SubSeq(flight, 1, k)
           q == SubSeq(flight, k + 1, Len(flight))
<1>4. /\ Header \in Bytes /\ buffer \in Bytes /\ flight \in Bytes
  BY <1>1, Parts
<1>5. p \in Bytes /\ q \in Bytes /\ flight = Then(p, q)
  <2>1. k \in 0..Len(flight)
    BY <1>4, Concatenation
  <2> QED
    BY <1>4, <2>1, CutBytes
<1>6. buffer' = Then(buffer, p) /\ flight' = q
  BY <1>2 DEF Then
<1> HIDE DEF p, q
<1>7. Unread' = Unread
  <2>1. Header' = Header
    BY <1>3 DEF Header
  <2>2. Unread' = Then(Then(Header, Then(buffer, p)), q)
    BY <1>6, <2>1 DEF Unread
  <2>3. Unread = Then(Then(Header, buffer), Then(p, q))
    BY <1>5 DEF Unread
  <2> QED
    BY <1>4, <1>5, <2>2, <2>3, RegroupPiece
<1>8. buffer' \in Seq(Byte) /\ flight' \in Seq(Byte)
  BY <1>4, <1>5, <1>6, Concatenation DEF Bytes
<1>9. TypeOK'
  BY <1>1, <1>3, <1>8 DEF TypeOK
<1>10. Whole'
  BY <1>1, <1>3 DEF Whole
<1>11. ASSUME NEW t \in Bytes, NEW l \in Bytes, Explains(t, l)
       PROVE  Explains(t, l)'
  BY <1>3, <1>7, <1>11 DEF Explains
<1>12. Aligned'
  BY <1>1, <1>3, <1>11 DEF Aligned
<1>13. OnlyBadFramesRefused'
  BY <1>1, <1>3 DEF OnlyBadFramesRefused
<1> QED
  BY <1>9, <1>10, <1>12, <1>13 DEF Inv

LEMMA LinkBroken ==
    ASSUME Inv, Break
    PROVE  Inv'
<1>1. TypeOK /\ Whole /\ Aligned /\ OnlyBadFramesRefused
  BY DEF Inv
<1>2. /\ link = "open" /\ link' \in {"ended", "reset"} /\ flight' = <<>>
      /\ UNCHANGED <<sent, writes, sound, buffer, wanted, over, read>>
  BY DEF Break
<1>3. link' # "open"
  BY <1>2
<1>4. /\ flight \in Bytes /\ Then(Header, buffer) \in Bytes /\ Unread \in Bytes
  BY <1>1, Parts
<1>5. Then(Unread', flight) = Unread
  <2>1. Header' = Header
    BY <1>2 DEF Header
  <2>2. Unread' = Then(Then(Header, buffer), <<>>)
    BY <1>2, <2>1 DEF Unread
  <2>3. Unread' = Then(Header, buffer)
    BY <1>4, <2>2, Concatenation
  <2> QED
    BY <2>3 DEF Unread
<1>6. TypeOK'
  BY <1>1, <1>2, Concatenation DEF TypeOK, Bytes
<1>7. Whole'
  BY <1>1, <1>2 DEF Whole
<1>8. ASSUME NEW t \in Bytes, NEW l \in Bytes, Explains(t, l)
      PROVE  \E w \in Bytes : Explains(t, w)'
  <2> PICK w \in Bytes : w = flight
    BY <1>4
  <2>1. Then(Unread, l) = Unread
    BY <1>2, <1>4, <1>8, Concatenation DEF Explains
  <2>2. Then(Unread', w) = Then(Coming(sent', Len(read')), t)
    BY <1>2, <1>5, <1>8, <2>1 DEF Explains
  <2>3. Explains(t, w)'
    BY <1>2, <1>3, <1>8, <2>2 DEF Explains
  <2> QED
    BY <2>3
<1>9. Aligned'
  <2> SUFFICES ASSUME ~over'
               PROVE  \E t, l \in Bytes : Explains(t, l)'
    BY DEF Aligned
  <2>1. PICK t \in Bytes, l \in Bytes : Explains(t, l)
    BY <1>1, <1>2 DEF Aligned
  <2> QED
    BY <1>8, <2>1
<1>10. OnlyBadFramesRefused'
  BY <1>3 DEF OnlyBadFramesRefused
<1> QED
  BY <1>6, <1>7, <1>9, <1>10 DEF Inv

LEMMA GaveUp ==
    ASSUME Inv, Incomplete
    PROVE  Inv'
<1>1. TypeOK /\ Whole
  BY DEF Inv
<1>2. /\ link # "open" /\ over' = TRUE /\ (buffer' = <<>> \/ buffer' = buffer)
      /\ UNCHANGED <<sent, writes, sound, flight, link, wanted, read>>
  BY DEF Incomplete
<1>3. TypeOK'
  BY <1>1, <1>2, Concatenation DEF TypeOK, Bytes
<1>4. Whole' /\ Aligned' /\ OnlyBadFramesRefused'
  BY <1>1, <1>2 DEF Whole, Aligned, OnlyBadFramesRefused
<1> QED
  BY <1>3, <1>4 DEF Inv

LEMMA Stuttered ==
    ASSUME Inv, UNCHANGED vars
    PROVE  Inv'
<1>1. UNCHANGED <<sent, writes, sound, flight, buffer, link, wanted, over, read>>
  BY DEF vars
<1>2. Unread' = Unread
  BY <1>1 DEF Unread, Header
<1>3. ASSUME NEW t \in Bytes, NEW l \in Bytes, Explains(t, l)
      PROVE  Explains(t, l)'
  BY <1>1, <1>2, <1>3 DEF Explains
<1>4. Aligned'
  BY <1>1, <1>3 DEF Inv, Aligned
<1>5. TypeOK' /\ Whole' /\ OnlyBadFramesRefused'
  BY <1>1 DEF Inv, TypeOK, Whole, OnlyBadFramesRefused
<1> QED
  BY <1>4, <1>5 DEF Inv

LEMMA InitInv ==
    Init => Inv
<1> SUFFICES ASSUME Init
             PROVE  Inv
  OBVIOUS
<1>1. TypeOK
  <2>1. 0 \in 0..MaxFrames /\ 0 \in 0..MaxFrameSize
    BY FramingAssumption
  <2>2. <<>> \in Seq(Byte) /\ <<>> \in Seq(Frame)
    BY EmptySeq
  <2>3. sent \in Seq(Frame) /\ read \in Seq(Frame) /\ flight \in Seq(Byte) /\ buffer \in Seq(Byte)
    BY <2>2 DEF Init
  <2>4. writes \in 0..MaxFrames /\ wanted \in 0..MaxFrameSize /\ wanted # 1
    BY <2>1 DEF Init
  <2>5. sound \in BOOLEAN /\ over \in BOOLEAN /\ link \in {"open", "ended", "reset"}
    BY DEF Init
  <2> QED
    BY <2>3, <2>4, <2>5 DEF TypeOK
<1>2. Whole
  BY DEF Init, Whole
<1>3. Aligned
  <2>1. <<>> \in Bytes /\ Then(<<>>, <<>>) = <<>>
    BY Concatenation
  <2>2. Unread = <<>>
    BY <2>1 DEF Init, Unread, Header
  <2>3. Coming(sent, Len(read)) = <<>>
    <3>1. sent = <<>> /\ read = <<>> /\ sent \in Seq(Frame)
      BY DEF Init
    <3> QED
      BY <3>1, NoneComing
  <2>4. Explains(<<>>, <<>>)
    BY <2>1, <2>2, <2>3 DEF Init, Explains
  <2> QED
    BY <2>1, <2>4 DEF Aligned
<1>4. OnlyBadFramesRefused
  BY DEF Init, OnlyBadFramesRefused
<1> QED
  BY <1>1, <1>2, <1>3, <1>4 DEF Inv

LEMMA InvStep ==
    Inv /\ [Next]_vars => Inv'
<1> SUFFICES ASSUME Inv, [Next]_vars
             PROVE  Inv'
  OBVIOUS
<1>1. CASE \E f \in Frame : WriteFrame(f)
  BY <1>1, FrameWritten
<1>2. CASE WriteNoFrame
  BY <1>2, NoFrameWritten
<1>3. CASE Arrive
  BY <1>3, PieceArrived
<1>4. CASE Break
  BY <1>4, LinkBroken
<1>5. CASE ReadHeader
  BY <1>5, HeaderRead
<1>6. CASE ReadBody
  BY <1>6, BodyRead
<1>7. CASE Incomplete
  BY <1>7, GaveUp
<1>8. CASE UNCHANGED vars
  BY <1>8, Stuttered
<1> QED
  BY <1>1, <1>2, <1>3, <1>4, <1>5, <1>6, <1>7, <1>8 DEF Next, ReadFrame

\* The invariant: the bytes in the machine are those of the frames to come.
THEOREM AlwaysInv ==
    Spec => []Inv
  BY InitInv, InvStep, PTL DEF Spec

----------------------------------------------------------------------------
(* What the invariant implies.                                             *)

\* The state of the codec is what its types say, in particular every frame
\* read_frame() returns is one that can be sent.
THEOREM TypesHold ==
    Spec => []TypeOK
<1>1. Inv => TypeOK
  BY DEF Inv
<1> QED
  BY <1>1, AlwaysInv, PTL

\* read_frame() gives the stream up only when the sender broke the protocol or
\* the connection broke: what encode_frame() lets pass is taken, at any size.
THEOREM OnlyBadFramesAreRefused ==
    Spec => []OnlyBadFramesRefused
<1>1. Inv => OnlyBadFramesRefused
  BY DEF Inv
<1> QED
  BY <1>1, AlwaysInv, PTL

LEMMA PrefixOf ==
    ASSUME NEW a \in Bytes, NEW b \in Bytes
    PROVE  IsPrefix(a, Then(a, b))
<1> DEFINE s == Then(a, b)
<1>1. s \in Bytes /\ Len(s) = Len(a) + Len(b) /\ Len(a) \in Nat /\ Len(b) \in Nat
  BY Concatenation
<1> DEFINE u == SubSeq(s, 1, Len(a))
           v == SubSeq(s, Len(a) + 1, Len(s))
<1>2. u \in Bytes /\ Len(u) = Len(a) /\ v \in Bytes /\ s = Then(u, v)
  <2>1. Len(a) \in 0..Len(s)
    BY <1>1
  <2> HIDE DEF s
  <2> QED
    BY <1>1, <2>1, CutBytes
<1>3. u = a
  <2>1. Then(u, v) = Then(a, b)
    BY <1>2
  <2> HIDE DEF u, v
  <2> QED
    BY <1>2, <2>1, Cancel
<1>4. SubSeq(a, 1, Len(a)) = a
  BY SubSeqFull DEF Bytes
<1>5. Len(a) <= Len(s)
  BY <1>1
<1> QED
  BY <1>3, <1>4, <1>5 DEF IsPrefix

\* The reader is on a frame boundary, or behind the header of the next frame:
\* what it has not consumed is what it has not returned.
THEOREM AlwaysOnBoundary ==
    Spec => []OnBoundary
<1>1. Inv => OnBoundary
  <2> SUFFICES ASSUME Inv, sound, ~over
               PROVE  IF link = "open" THEN Unread = Coming(sent, Len(read))
                      ELSE IsPrefix(Unread, Coming(sent, Len(read)))
    BY DEF OnBoundary, Unread, Header, Then, Coming, Pieces
  <2>1. PICK tail \in Bytes, lost \in Bytes : Explains(tail, lost)
    BY DEF Inv, Aligned
  <2>2. Unread \in Bytes /\ Coming(sent, Len(read)) \in Bytes
    BY Parts DEF Inv
  <2>3. Then(Unread, lost) = Coming(sent, Len(read))
    BY <2>1, <2>2, Concatenation DEF Explains
  <2>4. CASE link = "open"
    <3>1. lost = <<>>
      BY <2>1, <2>4 DEF Explains
    <3> QED
      BY <2>2, <2>3, <2>4, <3>1, Concatenation
  <2>5. CASE link # "open"
    BY <2>2, <2>3, <2>5, PrefixOf
  <2> QED
    BY <2>4, <2>5
<1> QED
  BY <1>1, AlwaysInv, PTL

----------------------------------------------------------------------------
(* The codec and the stream of frames it implements.                       *)

LEMMA StreamStep ==
    Inv /\ [Next]_vars => [Stream!Next]_(Stream!vars)
<1> SUFFICES ASSUME Inv, [Next]_vars
             PROVE  Stream!Next \/ UNCHANGED Stream!vars
  OBVIOUS
<1>1. CASE \E f \in Frame : WriteFrame(f)
  <2>1. PICK f \in Frame : WriteFrame(f)
    BY <1>1
  <2>2. /\ link = "open" /\ UNCHANGED <<link, over, read, sound>>
        /\ sent' = IF sound THEN Append(sent, f) ELSE sent
    BY <2>1 DEF WriteFrame, Write
  <2>3. CASE sound
    <3>1. Stream!Send(f)
      BY <2>2, <2>3 DEF Stream!Send
    <3> QED
      BY <3>1 DEF Stream!Next
  <2>4. CASE ~sound
    BY <2>2, <2>4 DEF Stream!vars
  <2> QED
    BY <2>3, <2>4
<1>2. CASE WriteNoFrame
  <2>1. sound' = FALSE /\ UNCHANGED <<sent, link, over, read>>
    BY <1>2 DEF WriteNoFrame, Write
  <2>2. Stream!Spoil
    BY <2>1 DEF Stream!Spoil
  <2> QED
    BY <2>2 DEF Stream!Next
<1>3. CASE Arrive
  BY <1>3 DEF Arrive, Stream!vars
<1>4. CASE Break
  <2>1. link' # "open" /\ UNCHANGED <<sent, read, sound, over>>
    BY <1>4 DEF Break
  <2>2. Stream!Break
    BY <2>1 DEF Stream!Break
  <2> QED
    BY <2>2 DEF Stream!Next
<1>5. CASE ReadHeader
  <2>1. ~over /\ UNCHANGED <<sent, read, sound, link>> /\ over' \in {over, TRUE}
    BY <1>5 DEF ReadHeader, CanRead
  <2>2. over' => read = sent /\ ~sound
    BY <1>5, HeaderRead
  <2>3. CASE over' = over
    BY <2>1, <2>3 DEF Stream!vars
  <2>4. CASE over' = TRUE
    <3>1. Stream!GiveUp
      BY <2>1, <2>2, <2>4 DEF Stream!GiveUp
    <3> QED
      BY <3>1 DEF Stream!Next
  <2> QED
    BY <2>1, <2>3, <2>4
<1>6. CASE ReadBody
  <2>1. ~over /\ UNCHANGED <<sent, sound, link>> /\ over' \in {over, TRUE}
    BY <1>6 DEF ReadBody, CanRead
  <2>2. CASE /\ ~over' /\ Len(read) < Len(sent)
             /\ read' = Append(read, sent[Len(read) + 1])
    <3>1. Stream!Receive
      BY <2>1, <2>2 DEF Stream!Receive
    <3> QED
      BY <3>1 DEF Stream!Next
  <2>3. CASE over' /\ read' = read /\ read = sent /\ ~sound
    <3>1. Stream!GiveUp
      BY <2>1, <2>3 DEF Stream!GiveUp
    <3> QED
      BY <3>1 DEF Stream!Next
  <2> QED
    BY <1>6, <2>2, <2>3, BodyRead
<1>7. CASE Incomplete
  <2>1. ~over /\ link # "open" /\ over' = TRUE /\ UNCHANGED <<sent, read, sound, link>>
    BY <1>7 DEF Incomplete
  <2>2. Stream!GiveUp
    BY <2>1 DEF Stream!GiveUp
  <2> QED
    BY <2>2 DEF Stream!Next
<1>8. CASE UNCHANGED vars
  BY <1>8 DEF vars, Stream!vars
<1> QED
  BY <1>1, <1>2, <1>3, <1>4, <1>5, <1>6, <1>7, <1>8 DEF Next, ReadFrame

\* The codec implements a stream of frames, step by step: those sent are read,
\* whole, once and in order, and the stream is given up only when it is broken,
\* or spoilt and every frame that came before was read.  (That they are read in
\* the end is fairness, and not said here.)
THEOREM ImplementsStreamSteps ==
    Spec => Stream!Init /\ [][Stream!Next]_(Stream!vars)
<1>1. Init => Stream!Init
  BY DEF Init, Stream!Init
<1>2. Inv /\ [Next]_vars => [Stream!Next]_(Stream!vars)
  BY StreamStep
<1> QED
  BY <1>1, <1>2, AlwaysInv, PTL DEF Spec

=============================================================================
