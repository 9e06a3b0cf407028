--------------------------- MODULE ChecksumProofs ---------------------------
(***************************************************************************)
(* Proofs about Checksum, for bytes of two bits or more, and any contents  *)
(* up to the longest a length field can name.                              *)
(*                                                                         *)
(* A word as the host finds it, times Base, differs from the word as the   *)
(* receiver finds it by a multiple of Word - 1, and so do their totals.    *)
(* Folding changes the sum by a multiple of Word - 1, and the complement   *)
(* makes it up to Word - 1.  All this is about sums without a limit, and   *)
(* the limit is never reached, because half the words of the longest       *)
(* segment are less than it.                                               *)
(*                                                                         *)
(* Induction is over sets of numbers, from there being no infinite         *)
(* descent among the initial segments of the naturals.                     *)
(***************************************************************************)
EXTENDS Checksum, FiniteSetTheorems, SequenceTheorems, TLAPS

LEMMA LeastNatural ==
  ASSUME NEW T, T \subseteq Nat, T # {}
  PROVE  \E x \in T : \A y \in T : x <= y
<1> DEFINE U == {0 .. x : x \in T}
           R == StrictSubsetOrdering(Nat)
<1>1. U \subseteq FiniteSubsetsOf(Nat)
  <2>1. ASSUME NEW x \in T PROVE IsFiniteSet(0 .. x) /\ 0 .. x \subseteq Nat
    BY FS_Interval
  <2>2. QED
    BY <2>1 DEF FiniteSubsetsOf
<1>2. IsWellFoundedOn(R, FiniteSubsetsOf(Nat))
  BY FS_StrictSubsetOrderingWellFounded
<1>3. U # {}
  OBVIOUS
<1>4. \E u \in U : \A v \in U : ~(<<v, u>> \in R)
  <2> HIDE DEF U, R
  <2>1. QED
    BY <1>1, <1>2, <1>3, WFMin
<1>5. PICK x \in T : \A y \in T : ~(<<0 .. y, 0 .. x>> \in R)
  BY <1>4
<1>6. ASSUME NEW y \in T, ~(x <= y) PROVE FALSE
  <2>1. 0 .. y \subseteq 0 .. x /\ 0 .. y # 0 .. x
    BY <1>6
  <2>2. <<0 .. y, 0 .. x>> \in R
    BY <2>1 DEF StrictSubsetOrdering
  <2>3. QED
    BY <1>5, <2>2
<1>7. QED
  BY <1>6

\* A set that has 0 and with each number the next has all numbers up to k.
LEMMA UpTo ==
  ASSUME NEW k \in Nat, NEW T, 0 \in T, \A n \in Nat : n + 1 <= k /\ n \in T => n + 1 \in T
  PROVE  0 .. k \subseteq T
<1> SUFFICES ASSUME (0 .. k) \ T # {} PROVE FALSE
  OBVIOUS
<1>0. (0 .. k) \ T \subseteq Nat
  OBVIOUS
<1>1. PICK x \in (0 .. k) \ T : \A y \in (0 .. k) \ T : x <= y
  BY <1>0, LeastNatural
<1>2. x # 0 /\ x - 1 \in Nat /\ x - 1 \in 0 .. k /\ (x - 1) + 1 = x /\ x <= k
  OBVIOUS
<1>3. x - 1 \in T
  BY <1>1, <1>2
<1>4. QED
  BY <1>2, <1>3

-----------------------------------------------------------------------------
(***************************************************************************)
(* The totals of a sequence of words exist and are what their recursive    *)
(* definition says.                                                        *)
(***************************************************************************)
LEMMA TotalsExist ==
  ASSUME NEW w \in Seq(Nat)
  PROVE  \E t \in [0 .. Len(w) -> Nat] :
           t = [n \in 0 .. Len(w) |-> IF n = 0 THEN 0 ELSE t[n - 1] + w[n]]
<1> DEFINE P(m) == \E t \in [0 .. m -> Nat] :
                     t[0] = 0 /\ \A n \in 1 .. m : t[n] = t[n - 1] + w[n]
<1>1. P(0)
  <2> DEFINE z == [n \in 0 .. 0 |-> 0]
  <2>1. z \in [0 .. 0 -> Nat] /\ z[0] = 0 /\ 1 .. 0 = {}
    OBVIOUS
  <2> HIDE DEF z
  <2>2. QED
    BY <2>1
<1>2. ASSUME NEW m \in Nat, m + 1 <= Len(w), P(m) PROVE P(m + 1)
  <2>1. w[m + 1] \in Nat
    BY <1>2
  <2>2. PICK t \in [0 .. m -> Nat] :
               t[0] = 0 /\ \A n \in 1 .. m : t[n] = t[n - 1] + w[n]
    BY <1>2
  <2> DEFINE s == [n \in 0 .. m + 1 |-> IF n = m + 1 THEN t[m] + w[m + 1] ELSE t[n]]
  <2>3. s \in [0 .. m + 1 -> Nat]
    BY <2>1, <2>2
  <2>4. s[0] = 0
    BY <2>1, <2>2
  <2>5. ASSUME NEW n \in 1 .. m + 1 PROVE s[n] = s[n - 1] + w[n]
    <3>1. CASE n = m + 1
      BY <2>1, <3>1
    <3>2. CASE n # m + 1
      <4>1. n \in 1 .. m /\ n - 1 \in 0 .. m /\ n - 1 # m + 1
        BY <2>1, <3>2
      <4>2. QED
        BY <2>1, <2>2, <4>1
    <3>3. QED
      BY <3>1, <3>2
  <2> HIDE DEF s
  <2>6. QED
    BY <2>3, <2>4, <2>5
<1>3. 0 .. Len(w) \subseteq {n \in 0 .. Len(w) : P(n)}
  <2> DEFINE T == {n \in 0 .. Len(w) : P(n)}
  <2> HIDE DEF P
  <2>1. Len(w) \in Nat
    OBVIOUS
  <2>2. 0 \in T
    BY <1>1, <2>1
  <2>3. ASSUME NEW n \in Nat, n + 1 <= Len(w), n \in T PROVE n + 1 \in T
    BY <1>2, <2>1, <2>3
  <2> HIDE DEF T
  <2>4. 0 .. Len(w) \subseteq T
    BY <2>1, <2>2, <2>3, UpTo
  <2>5. QED
    BY <2>4 DEF T
<1>4. Len(w) \in Nat
  OBVIOUS
<1>p. P(Len(w))
  <2> HIDE DEF P
  <2>1. QED
    BY <1>3, <1>4
<1>5. PICK t \in [0 .. Len(w) -> Nat] :
             t[0] = 0 /\ \A n \in 1 .. Len(w) : t[n] = t[n - 1] + w[n]
  BY <1>p
<1>6. t = [n \in 0 .. Len(w) |-> IF n = 0 THEN 0 ELSE t[n - 1] + w[n]]
  BY <1>4, <1>5
<1>7. QED
  BY <1>6

LEMMA TotalsAre ==
  ASSUME NEW w \in Seq(Nat)
  PROVE  /\ Totals(w)[0] = 0
         /\ \A n \in 1 .. Len(w) : Totals(w)[n] = Totals(w)[n - 1] + w[n]
<1> DEFINE IsTotal(t) == t = [n \in 0 .. Len(w) |-> IF n = 0 THEN 0 ELSE t[n - 1] + w[n]]
<1>1. \E t : IsTotal(t)
  BY TotalsExist
<1>2. Totals(w) = CHOOSE t : IsTotal(t)
  BY DEF Totals
<1>3. IsTotal(Totals(w))
  BY <1>1, <1>2
<1>4. Len(w) \in Nat
  OBVIOUS
<1>5. QED
  BY <1>3, <1>4

\* Words below u have totals of at most n * u.
LEMMA TotalsBounded ==
  ASSUME NEW w \in Seq(Nat), NEW u \in Nat, \A j \in 1 .. Len(w) : w[j] <= u
  PROVE  \A n \in 0 .. Len(w) : Totals(w)[n] \in Nat /\ Totals(w)[n] <= n * u
<1> DEFINE P(n) == Totals(w)[n] \in Nat /\ Totals(w)[n] <= n * u
<1>1. P(0)
  BY TotalsAre
<1>2. ASSUME NEW n \in Nat, n + 1 <= Len(w), P(n) PROVE P(n + 1)
  <2>1. n + 1 \in 1 .. Len(w) /\ (n + 1) - 1 = n
    BY <1>2
  <2>2. Totals(w)[n + 1] = Totals(w)[n] + w[n + 1]
    BY <2>1, TotalsAre
  <2>3. w[n + 1] \in Nat /\ w[n + 1] <= u
    BY <2>1
  <2>4. n * u \in Nat /\ (n + 1) * u = n * u + u
    OBVIOUS
  <2>5. QED
    BY <1>2, <2>2, <2>3, <2>4
<1>3. 0 .. Len(w) \subseteq {n \in 0 .. Len(w) : P(n)}
  <2> DEFINE T == {n \in 0 .. Len(w) : P(n)}
  <2> HIDE DEF P
  <2>1. Len(w) \in Nat
    OBVIOUS
  <2>2. 0 \in T
    BY <1>1, <2>1
  <2>3. ASSUME NEW n \in Nat, n + 1 <= Len(w), n \in T PROVE n + 1 \in T
    BY <1>2, <2>1, <2>3
  <2> HIDE DEF T
  <2>4. 0 .. Len(w) \subseteq T
    BY <2>1, <2>2, <2>3, UpTo
  <2>5. QED
    BY <2>4 DEF T
<1>4. \A n \in 0 .. Len(w) : P(n)
  <2> HIDE DEF P
  <2>1. QED
    BY <1>3
<1>5. QED
  BY <1>4

\* The totals of numbers are numbers.
LEMMA TotalsNatural ==
  ASSUME NEW w \in Seq(Nat)
  PROVE  \A n \in 0 .. Len(w) : Totals(w)[n] \in Nat
<1> DEFINE P(n) == Totals(w)[n] \in Nat
<1>1. P(0)
  BY TotalsAre
<1>2. ASSUME NEW n \in Nat, n + 1 <= Len(w), P(n) PROVE P(n + 1)
  <2>1. n + 1 \in 1 .. Len(w) /\ (n + 1) - 1 = n /\ w[n + 1] \in Nat
    BY <1>2
  <2>2. Totals(w)[n + 1] = Totals(w)[n] + w[n + 1]
    BY <2>1, TotalsAre
  <2>3. QED
    BY <1>2, <2>1, <2>2
<1>3. 0 .. Len(w) \subseteq {n \in 0 .. Len(w) : P(n)}
  <2> DEFINE T == {n \in 0 .. Len(w) : P(n)}
  <2> HIDE DEF P
  <2>1. Len(w) \in Nat
    OBVIOUS
  <2>2. 0 \in T
    BY <1>1, <2>1
  <2>3. ASSUME NEW n \in Nat, n + 1 <= Len(w), n \in T PROVE n + 1 \in T
    BY <1>2, <2>1, <2>3
  <2> HIDE DEF T
  <2>4. 0 .. Len(w) \subseteq T
    BY <2>1, <2>2, <2>3, UpTo
  <2>5. QED
    BY <2>4 DEF T
<1>4. \A n \in 0 .. Len(w) : P(n)
  <2> HIDE DEF P
  <2>1. QED
    BY <1>3
<1>5. QED
  BY <1>4

(***************************************************************************)
(* Where two sequences differ in one word, so do their totals from there.  *)
(***************************************************************************)
LEMMA TotalsDiffer ==
  ASSUME NEW w \in Seq(Nat), NEW z \in Seq(Nat), Len(z) = Len(w),
         NEW m \in 1 .. Len(w), \A j \in 1 .. Len(w) : j # m => z[j] = w[j], w[m] = 0
  PROVE  Totals(z)[Len(w)] = Totals(w)[Len(w)] + z[m]
<1> DEFINE P(n) == /\ Totals(w)[n] \in Nat
                   /\ n < m => Totals(z)[n] = Totals(w)[n]
                   /\ n >= m => Totals(z)[n] = Totals(w)[n] + z[m]
<1>1. P(0)
  BY TotalsAre
<1>2. ASSUME NEW n \in Nat, n + 1 <= Len(w), P(n) PROVE P(n + 1)
  <2>1. n + 1 \in 1 .. Len(w) /\ (n + 1) - 1 = n
    BY <1>2
  <2>2. Totals(w)[n + 1] = Totals(w)[n] + w[n + 1]
    BY <2>1, TotalsAre
  <2>3. Totals(z)[n + 1] = Totals(z)[n] + z[n + 1]
    BY <2>1, TotalsAre
  <2>4. w[n + 1] \in Nat /\ z[n + 1] \in Nat /\ z[m] \in Nat
    BY <2>1
  <2> DEFINE h == Totals(w)[n]
             k == Totals(z)[n]
             u == w[n + 1]
             v == z[n + 1]
             c == z[m]
  <2>5. /\ h \in Nat /\ u \in Nat /\ v \in Nat /\ c \in Nat /\ m \in Nat
        /\ n < m => k = h
        /\ n >= m => k = h + c
    BY <1>2, <2>4
  <2>6. /\ n + 1 # m => v = u
        /\ n + 1 = m => u = 0 /\ v = c
    BY <2>1
  <2>7. Totals(w)[n + 1] = h + u /\ Totals(z)[n + 1] = k + v
    BY <2>2, <2>3
  <2> HIDE DEF h, k, u, v, c
  <2>8. /\ h + u \in Nat
        /\ n + 1 < m => k + v = h + u
        /\ n + 1 >= m => k + v = h + u + c
    BY <2>5, <2>6
  <2>9. QED
    BY <2>7, <2>8 DEF c
<1>3. 0 .. Len(w) \subseteq {n \in 0 .. Len(w) : P(n)}
  <2> DEFINE T == {n \in 0 .. Len(w) : P(n)}
  <2> HIDE DEF P
  <2>1. Len(w) \in Nat
    OBVIOUS
  <2>2. 0 \in T
    BY <1>1, <2>1
  <2>3. ASSUME NEW n \in Nat, n + 1 <= Len(w), n \in T PROVE n + 1 \in T
    BY <1>2, <2>1, <2>3
  <2> HIDE DEF T
  <2>4. 0 .. Len(w) \subseteq T
    BY <2>1, <2>2, <2>3, UpTo
  <2>5. QED
    BY <2>4 DEF T
<1>4. P(Len(w))
  <2> HIDE DEF P
  <2>1. Len(w) \in Nat
    OBVIOUS
  <2>2. QED
    BY <1>3, <2>1
<1>5. QED
  BY <1>4

LEMMA Distribute == \A a, x, y \in Int : a * (x + y) = a * x + a * y
  OBVIOUS

LEMMA AddCongruent ==
  ASSUME NEW b \in Nat, NEW d \in Nat, NEW w1 \in Nat, NEW w2 \in Nat,
         NEW z1 \in Nat, NEW z2 \in Nat, NEW q \in Nat, NEW r \in Nat,
         b * w1 = z1 + d * q, b * w2 = z2 + d * r
  PROVE  b * (w1 + w2) = (z1 + z2) + d * (q + r)
<1>1. b * (w1 + w2) = b * w1 + b * w2 /\ d * (q + r) = d * q + d * r
  BY Distribute
<1>2. d * q \in Nat /\ d * r \in Nat
  OBVIOUS
<1>3. QED
  BY <1>1, <1>2

(***************************************************************************)
(* Two sequences whose words agree up to a factor and multiples of d have  *)
(* totals that do.                                                         *)
(***************************************************************************)
Congruent(w, z, b, d) ==
  \A j \in 1 .. Len(w) : \E q \in Nat : b * w[j] = z[j] + d * q

LEMMA TotalsCongruent ==
  ASSUME NEW w \in Seq(Nat), NEW z \in Seq(Nat), Len(z) = Len(w),
         NEW b \in Nat, NEW d \in Nat,
         Congruent(w, z, b, d)
  PROVE  \E q \in Nat : b * Totals(w)[Len(w)] = Totals(z)[Len(w)] + d * q
<1> DEFINE P(n) == /\ Totals(w)[n] \in Nat /\ Totals(z)[n] \in Nat
                   /\ \E q \in Nat : b * Totals(w)[n] = Totals(z)[n] + d * q
<1>1. P(0)
  <2>1. Totals(w)[0] = 0 /\ Totals(z)[0] = 0
    BY TotalsAre
  <2>2. b * 0 = 0 + d * 0
    OBVIOUS
  <2>3. QED
    BY <2>1, <2>2
<1>2. ASSUME NEW n \in Nat, n + 1 <= Len(w), P(n) PROVE P(n + 1)
  <2>1. n + 1 \in 1 .. Len(w) /\ (n + 1) - 1 = n
    BY <1>2
  <2>2. Totals(w)[n + 1] = Totals(w)[n] + w[n + 1]
    BY <2>1, TotalsAre
  <2>3. Totals(z)[n + 1] = Totals(z)[n] + z[n + 1]
    BY <2>1, TotalsAre
  <2>4. w[n + 1] \in Nat /\ z[n + 1] \in Nat
    BY <2>1
  <2> DEFINE h == Totals(w)[n]
             k == Totals(z)[n]
             u == w[n + 1]
             v == z[n + 1]
  <2>5. PICK q \in Nat : b * h = k + d * q
    BY <1>2
  <2>6. PICK r \in Nat : b * u = v + d * r
    BY <2>1 DEF Congruent
  <2>7. h \in Nat /\ k \in Nat /\ u \in Nat /\ v \in Nat
    BY <1>2, <2>4
  <2>8. Totals(w)[n + 1] = h + u /\ Totals(z)[n + 1] = k + v
    BY <2>2, <2>3
  <2> HIDE DEF h, k, u, v
  <2>9. b * (h + u) = (k + v) + d * (q + r)
    BY <2>5, <2>6, <2>7, AddCongruent
  <2>10. h + u \in Nat /\ k + v \in Nat /\ q + r \in Nat
    BY <2>7
  <2>11. QED
    BY <2>8, <2>9, <2>10
<1>3. 0 .. Len(w) \subseteq {n \in 0 .. Len(w) : P(n)}
  <2> DEFINE T == {n \in 0 .. Len(w) : P(n)}
  <2> HIDE DEF P
  <2>1. Len(w) \in Nat
    OBVIOUS
  <2>2. 0 \in T
    BY <1>1, <2>1
  <2>3. ASSUME NEW n \in Nat, n + 1 <= Len(w), n \in T PROVE n + 1 \in T
    BY <1>2, <2>1, <2>3
  <2> HIDE DEF T
  <2>4. 0 .. Len(w) \subseteq T
    BY <2>1, <2>2, <2>3, UpTo
  <2>5. QED
    BY <2>4 DEF T
<1>4. P(Len(w))
  <2> HIDE DEF P
  <2>1. Len(w) \in Nat
    OBVIOUS
  <2>2. QED
    BY <1>3, <2>1
<1>5. QED
  BY <1>4

-----------------------------------------------------------------------------
(***************************************************************************)
(* Bytes and words.                                                        *)
(***************************************************************************)
LEMMA Monotone == \A a, x, y \in Nat : x <= y => a * x <= a * y
<1> SUFFICES ASSUME NEW a \in Nat, NEW x \in Nat, NEW y \in Nat, x <= y
             PROVE  a * x <= a * y
  OBVIOUS
<1>1. PICK d \in Nat : y = x + d
  <2>1. y - x \in Nat /\ y = x + (y - x)
    OBVIOUS
  <2>2. QED
    BY <2>1
<1>2. a * y = a * x + a * d /\ a * d \in Nat /\ a * x \in Nat
  BY <1>1
<1>3. QED
  BY <1>2

LEMMA DivMod ==
  ASSUME NEW b \in Nat, b >= 4, NEW c \in Nat
  PROVE  c = b * (c \div b) + (c % b) /\ c % b \in 0 .. b - 1 /\ c \div b \in Nat
  OBVIOUS

LEMMA DivBelow ==
  ASSUME NEW b \in Nat, b >= 4, NEW c \in Nat, c < b * b
  PROVE  c \div b \in 0 .. b - 1
<1>1. c = b * (c \div b) + (c % b) /\ c % b \in 0 .. b - 1 /\ c \div b \in Nat
  BY DivMod
<1>2. ASSUME c \div b >= b PROVE FALSE
  <2>1. b * (c \div b) >= b * b
    BY <1>1, <1>2, Monotone
  <2>2. QED
    BY <1>1, <2>1
<1>3. QED
  BY <1>1, <1>2

LEMMA ModZero ==
  ASSUME NEW b \in Nat, b >= 4, NEW k \in Int
  PROVE  (b * k) % b = 0
  OBVIOUS

LEMMA Square == \A b \in Nat : b >= 4 => b * b >= 16 /\ b * b \in Nat
  OBVIOUS

LEMMA Widths ==
  /\ Base \in Nat /\ Base >= 4
  /\ Word \in Nat /\ Word >= 16 /\ Word = Base * Base
  /\ Limit \in Nat /\ Limit = Word * Word /\ Limit >= 16 * Word
<1>1. Base \in Nat /\ Base >= 4
  BY ChecksumAssumption
<1>2. Word \in Nat /\ Word >= 16
  BY <1>1, Square DEF Word
<1>3. Word * Word \in Nat /\ Word * 16 <= Word * Word
  BY <1>2, Monotone, Square
<1>4. QED
  BY <1>1, <1>2, <1>3 DEF Word, Limit

\* A pair of bytes read either way.
LEMMA PairBelow ==
  ASSUME NEW a \in Byte, NEW b \in Byte
  PROVE  /\ a + Base * b \in 0 .. Word - 1
         /\ Base * (a + Base * b) = (Base * a + b) + (Word - 1) * b
         /\ Base * a + b \in Nat /\ Base * a \in Nat /\ a \in 0 .. Word - 1
<1>1. a \in Nat /\ b \in Nat /\ a <= Base - 1 /\ b <= Base - 1 /\ Base - 1 \in Nat
      /\ Base \in Nat
  BY Widths DEF Byte
<1>2. Base * b <= Base * (Base - 1) /\ Base * (Base - 1) = Base * Base - Base
      /\ Base * b \in Nat /\ Base * a \in Nat
  BY <1>1, Monotone
<1>3. a + Base * b \in 0 .. Word - 1
  BY <1>1, <1>2, Widths
<1>4. Base * (a + Base * b) = (Base * a + b) + (Word - 1) * b
  <2>1. Base * (a + Base * b) = Base * a + Base * (Base * b)
    BY <1>1, <1>2, Distribute
  <2>2. Base * (Base * b) = (Base * Base) * b
    BY <1>1
  <2>3. (Word - 1) * b = Word * b - b
    BY <1>1, Widths
  <2>4. Word * b \in Nat /\ Word * b = (Base * Base) * b
    BY <1>1, Widths
  <2>5. QED
    BY <1>1, <1>2, <2>1, <2>2, <2>3, <2>4
<1>5. QED
  BY <1>1, <1>2, <1>3, <1>4, Widths

\* The number of words of n bytes.
LEMMA Halves ==
  ASSUME NEW n \in Nat
  PROVE  /\ (n + 1) \div 2 \in Nat
         /\ n <= 2 * ((n + 1) \div 2) /\ 2 * ((n + 1) \div 2) <= n + 1
  OBVIOUS

LEMMA WordsAre ==
  ASSUME NEW s \in Seq(Byte)
  PROVE  LET k == (Len(s) + 1) \div 2
         IN  /\ HostWords(s) \in Seq(Nat) /\ Len(HostWords(s)) = k
             /\ \A j \in 1 .. k : HostWords(s)[j] <= Word - 1
             /\ NetworkWords(s) \in Seq(Nat) /\ Len(NetworkWords(s)) = k
             /\ Congruent(HostWords(s), NetworkWords(s), Base, Word - 1)
<1> DEFINE k == (Len(s) + 1) \div 2
<1>1. Len(s) \in Nat /\ k \in Nat /\ 2 * k <= Len(s) + 1
  BY Halves
<1> HIDE DEF k
<1>2. ASSUME NEW j \in 1 .. k
      PROVE  /\ HostWord(s, 2 * j - 1) \in 0 .. Word - 1
             /\ NetworkWord(s, 2 * j - 1) \in Nat
             /\ \E q \in Nat : Base * HostWord(s, 2 * j - 1) =
                               NetworkWord(s, 2 * j - 1) + (Word - 1) * q
  <2> DEFINE i == 2 * j - 1
  <2>1. i \in 1 .. Len(s)
    BY <1>1
  <2> HIDE DEF i
  <2>2. s[i] \in Byte
    BY <2>1
  <2>3. CASE i < Len(s)
    <3>1. s[i + 1] \in Byte
      BY <1>1, <2>1, <2>3
    <3>2. /\ HostWord(s, i) = s[i] + Base * s[i + 1]
          /\ NetworkWord(s, i) = Base * s[i] + s[i + 1]
      BY <2>3 DEF HostWord, NetworkWord
    <3>3. s[i + 1] \in Nat
      BY <3>1, Widths DEF Byte
    <3>4. QED
      BY <2>2, <3>1, <3>2, <3>3, PairBelow DEF i
  <2>4. CASE ~(i < Len(s))
    <3>1. Base * s[i] \in Nat /\ s[i] \in 0 .. Word - 1
      BY <2>2, PairBelow
    <3>2. HostWord(s, i) = s[i] /\ NetworkWord(s, i) = Base * s[i]
      BY <2>4, <3>1 DEF HostWord, NetworkWord
    <3>3. Base * s[i] = Base * s[i] + (Word - 1) * 0
      BY <3>1, Widths
    <3>4. QED
      BY <3>1, <3>2, <3>3 DEF i
  <2>5. QED
    BY <2>3, <2>4
<1>3. /\ HostWords(s) = [j \in 1 .. k |-> HostWord(s, 2 * j - 1)]
      /\ NetworkWords(s) = [j \in 1 .. k |-> NetworkWord(s, 2 * j - 1)]
  BY DEF HostWords, NetworkWords, k
<1>4. /\ HostWords(s) \in Seq(Nat) /\ Len(HostWords(s)) = k
      /\ \A j \in 1 .. k : HostWords(s)[j] <= Word - 1
  BY <1>1, <1>2, <1>3, Widths
<1>5. NetworkWords(s) \in Seq(Nat) /\ Len(NetworkWords(s)) = k
  BY <1>1, <1>2, <1>3
<1>6. Congruent(HostWords(s), NetworkWords(s), Base, Word - 1)
  BY <1>2, <1>3, <1>4 DEF Congruent
<1>7. QED
  BY <1>4, <1>5, <1>6 DEF k

LEMMA Joined ==
  \A x, y \in Seq(Byte) :
    /\ x \o y \in Seq(Byte) /\ Len(x \o y) = Len(x) + Len(y)
    /\ \A i \in 1 .. Len(x) + Len(y) :
         (x \o y)[i] = IF i <= Len(x) THEN x[i] ELSE y[i - Len(x)]
  BY ConcatProperties

(***************************************************************************)
(* The bytes that are summed: the pseudo header is a whole number of       *)
(* words, and the longest segment with it is short enough for the sum.     *)
(***************************************************************************)
LEMMA PseudoHeaderIs ==
  ASSUME NEW k, NEW a \in Addresses, NEW s \in Seq(Byte), Len(s) \in 2 .. Word - 1
  PROVE  /\ PseudoHeader(k, a, s) \in Seq(Byte)
         /\ \E n \in 0 .. 6 : Len(PseudoHeader(k, a, s)) = 2 * n
<1>1. CASE k \in {"TCP", "UDP"}
  <2> DEFINE t == <<0, Protocol, Len(s) \div Base, Len(s) % Base>>
  <2>1. a \in Seq(Byte) /\ \E n \in 0 .. 4 : Len(a) = 2 * n
    BY ChecksumAssumption
  <2>2. 0 \in Byte /\ Protocol \in Byte
    BY ChecksumAssumption, Widths DEF Byte
  <2>3. Len(s) \div Base \in Byte /\ Len(s) % Base \in Byte
    <3>1. Len(s) \in Nat /\ Len(s) < Base * Base
      BY Widths
    <3>2. QED
      BY <3>1, Widths, DivBelow, DivMod DEF Byte
  <2>4. t \in Seq(Byte) /\ Len(t) = 4
    BY <2>2, <2>3
  <2>5. PseudoHeader(k, a, s) = a \o t
    BY <1>1 DEF PseudoHeader
  <2> HIDE DEF t
  <2>6. a \o t \in Seq(Byte) /\ Len(a \o t) = Len(a) + 4
    <3>1. a \in Seq(Byte)
      BY <2>1
    <3>2. t \in Seq(Byte)
      BY <2>4
    <3>3. a \o t \in Seq(Byte) /\ Len(a \o t) = Len(a) + Len(t)
      BY <3>1, <3>2, Joined
    <3>4. Len(t) = 4
      BY <2>4
    <3>5. QED
      BY <3>3, <3>4
  <2>7. PICK n \in 0 .. 4 : Len(a) = 2 * n
    BY <2>1
  <2>8. n + 2 \in 0 .. 6 /\ Len(a) + 4 = 2 * (n + 2)
    BY <2>7
  <2>9. QED
    BY <2>5, <2>6, <2>8
<1>2. CASE k \notin {"TCP", "UDP"}
  <2>1. PseudoHeader(k, a, s) = <<>>
    BY <1>2 DEF PseudoHeader
  <2>2. Len(<<>>) = 2 * 0 /\ <<>> \in Seq(Byte)
    OBVIOUS
  <2>3. QED
    BY <2>1, <2>2
<1>3. QED
  BY <1>1, <1>2

LEMMA RoomForAll ==
  ASSUME NEW n \in Nat, 2 * n <= Word + 12
  PROVE  n * (Word - 1) \in Nat /\ n * (Word - 1) < Limit
<1>1. Word - 1 \in Nat /\ Word + 12 \in Nat /\ 2 * n \in Nat
  BY Widths
<1>2. (Word - 1) * (2 * n) <= (Word - 1) * (Word + 12)
  BY <1>1, Monotone
<1>3. (Word - 1) * (Word + 12) = Word * Word + 11 * Word - 12
  BY Widths
<1>4. (Word - 1) * (2 * n) = 2 * (n * (Word - 1)) /\ n * (Word - 1) \in Nat
  BY <1>1
<1>5. QED
  BY <1>2, <1>3, <1>4, Widths

(***************************************************************************)
(* What is stored, read as the receiver reads it, makes up for the         *)
(* complement.                                                             *)
(***************************************************************************)
LEMMA StoredIs ==
  ASSUME NEW k, NEW c \in 0 .. Word - 1
  PROVE  /\ Stored(k, c) \in Seq(Byte) /\ Len(Stored(k, c)) = 2
         /\ \E r \in Int : Base * c = (Base * Stored(k, c)[1] + Stored(k, c)[2])
                                       + (Word - 1) * r
<1>1. CASE k = "UDP" /\ c = 0
  <2>1. Stored(k, c) = <<Base - 1, Base - 1>>
    BY <1>1 DEF Stored
  <2>2. Base - 1 \in Byte /\ Base - 1 # 0
    BY Widths DEF Byte
  <2>3. Base * 0 = (Base * (Base - 1) + (Base - 1)) + (Word - 1) * (-1)
    BY Widths
  <2> DEFINE x == Base - 1
  <2>4. Base * c = (Base * x + x) + (Word - 1) * (-1) /\ -1 \in Int
    BY <1>1, <2>3
  <2>5. x \in Byte /\ x # 0 /\ Stored(k, c) = <<x, x>>
    BY <2>1, <2>2
  <2> HIDE DEF x
  <2>6. <<x, x>> \in Seq(Byte) /\ Len(<<x, x>>) = 2 /\ <<x, x>>[1] = x /\ <<x, x>>[2] = x
    BY <2>5
  <2>7. /\ Stored(k, c) \in Seq(Byte) /\ Len(Stored(k, c)) = 2
        /\ Stored(k, c)[1] = x /\ Stored(k, c)[2] = x
    BY <2>5, <2>6
  <2>8. \E r \in Int : Base * c = (Base * x + x) + (Word - 1) * r
    BY <2>4
  <2>9. QED
    BY <2>5, <2>7, <2>8
<1>2. CASE ~(k = "UDP" /\ c = 0)
  <2> DEFINE x == c % Base
             y == c \div Base
  <2>1. Stored(k, c) = <<x, y>>
    BY <1>2 DEF Stored
  <2>2. c \in Nat /\ c < Base * Base
    BY Widths
  <2>3. x \in Byte /\ y \in Byte /\ c = x + Base * y
    <3>1. c = Base * (c \div Base) + (c % Base) /\ c % Base \in 0 .. Base - 1
      BY <2>2, Widths, DivMod
    <3>2. c \div Base \in 0 .. Base - 1
      BY <2>2, Widths, DivBelow
    <3>3. QED
      BY <3>1, <3>2, Widths DEF Byte
  <2> HIDE DEF x, y
  <2>4. Base * c = (Base * x + y) + (Word - 1) * y /\ y \in Int
    BY <2>3, PairBelow, Widths DEF Byte
  <2>5. <<x, y>> \in Seq(Byte) /\ Len(<<x, y>>) = 2 /\ <<x, y>>[1] = x /\ <<x, y>>[2] = y
    BY <2>3
  <2>6. /\ Stored(k, c) \in Seq(Byte) /\ Len(Stored(k, c)) = 2
        /\ Stored(k, c)[1] = x /\ Stored(k, c)[2] = y
    BY <2>1, <2>5
  <2>7. \E r \in Int : Base * c = (Base * x + y) + (Word - 1) * r
    BY <2>4
  <2>8. QED
    BY <2>5, <2>6, <2>7
<1>3. QED
  BY <1>1, <1>2

-----------------------------------------------------------------------------
(***************************************************************************)
(* The computation: until the sum is complete it is the total of the words *)
(* passed, and then it differs from the total of all by a multiple of      *)
(* Word - 1.                                                               *)
(***************************************************************************)
HostTotal == Totals(HostWords(Summed))[Len(HostWords(Summed))]

SumInv ==
  /\ addresses \in Addresses
  /\ bytes \in Seq(Byte) /\ Len(bytes) \in 2 .. Word - 1
  /\ pc \in {"add", "fold", "done"}
  /\ sum \in 0 .. Limit - 1
  /\ pc \in {"add", "fold"} => bytes[1] = 0 /\ bytes[2] = 0
  /\ pc = "add" => \E n \in 0 .. Len(HostWords(Summed)) :
                     pos = 2 * n + 1 /\ sum = Totals(HostWords(Summed))[n]
  /\ pc = "fold" => \E q \in Nat : HostTotal = sum + (Word - 1) * q
  /\ Accepted

LEMMA SummedIs ==
  ASSUME SumInv
  PROVE  /\ Summed \in Seq(Byte)
         /\ Len(Summed) \in Nat /\ Len(Summed) <= Word + 11
         /\ HostWords(Summed) \in Seq(Nat)
         /\ Len(HostWords(Summed)) \in Nat
         /\ Len(Summed) <= 2 * Len(HostWords(Summed))
         /\ 2 * Len(HostWords(Summed)) <= Len(Summed) + 1
<1> DEFINE h == PseudoHeader(kind, addresses, bytes)
<1>1. h \in Seq(Byte) /\ \E n \in 0 .. 6 : Len(h) = 2 * n
  BY PseudoHeaderIs DEF SumInv
<1>2. bytes \in Seq(Byte) /\ Len(bytes) \in 2 .. Word - 1
  BY DEF SumInv
<1>3. Summed = h \o bytes
  BY DEF Summed
<1> HIDE DEF h
<1>4. Summed \in Seq(Byte) /\ Len(Summed) = Len(h) + Len(bytes)
  BY <1>1, <1>2, <1>3
<1>5. Len(Summed) \in Nat /\ Len(Summed) <= Word + 11
  BY <1>1, <1>2, <1>4, Widths
<1>6. /\ HostWords(Summed) \in Seq(Nat)
      /\ Len(HostWords(Summed)) = (Len(Summed) + 1) \div 2
  BY <1>4, WordsAre
<1>7. QED
  BY <1>4, <1>5, <1>6, Halves

\* No total of its words reaches the limit.
LEMMA TotalsFit ==
  ASSUME SumInv, NEW n \in 0 .. Len(HostWords(Summed))
  PROVE  Totals(HostWords(Summed))[n] \in 0 .. Limit - 1
<1> DEFINE w == HostWords(Summed)
<1>1. /\ w \in Seq(Nat) /\ Len(w) \in Nat /\ 2 * Len(w) <= Word + 12 /\ Summed \in Seq(Byte)
  BY SummedIs, Widths
<1>2. \A j \in 1 .. Len(w) : w[j] <= Word - 1
  BY <1>1, WordsAre
<1> HIDE DEF w
<1>3. n \in 0 .. Len(w)
  BY DEF w
<1>4. Totals(w)[n] \in Nat /\ Totals(w)[n] <= n * (Word - 1)
  <2>1. Word - 1 \in Nat
    BY Widths
  <2>2. QED
    BY <1>1, <1>2, <1>3, <2>1, TotalsBounded
<1>5. n \in Nat /\ 2 * n <= Word + 12
  BY <1>1, <1>3, Widths
<1>6. n * (Word - 1) \in Nat /\ n * (Word - 1) < Limit
  BY <1>5, RoomForAll
<1>7. Totals(w)[n] \in 0 .. Limit - 1
  BY <1>4, <1>6, Widths
<1>8. QED
  BY <1>7 DEF w

LEMMA SumInit == Init => SumInv
<1> SUFFICES ASSUME Init PROVE SumInv
  OBVIOUS
<1>1. PICK s \in Contents : bytes = Blank(s)
  BY DEF Init
<1>2. s \in Seq(Byte) /\ Len(s) \in 2 .. Word - 1
  BY ChecksumAssumption
<1>3. 0 \in Byte /\ 0 \in 0 .. Limit - 1
  BY Widths DEF Byte
<1>4. /\ bytes \in Seq(Byte) /\ Len(bytes) = Len(s)
      /\ bytes[1] = 0 /\ bytes[2] = 0
  BY <1>1, <1>2, <1>3 DEF Blank
<1>5. addresses \in Addresses /\ pc = "add" /\ pos = 1 /\ sum = 0
  BY DEF Init
<1>6. Summed \in Seq(Byte)
  BY <1>2, <1>4, <1>5, PseudoHeaderIs, Joined DEF Summed
<1> DEFINE w == HostWords(Summed)
<1>7. w \in Seq(Nat)
  BY <1>6, WordsAre
<1> HIDE DEF w
<1>8. 0 \in 0 .. Len(w) /\ Totals(w)[0] = 0 /\ 1 = 2 * 0 + 1
  BY <1>7, TotalsAre
<1>9. \E n \in 0 .. Len(w) : pos = 2 * n + 1 /\ sum = Totals(w)[n]
  BY <1>5, <1>8
<1>10. Accepted
  BY <1>5 DEF Accepted
<1>11. QED
  BY <1>2, <1>3, <1>4, <1>5, <1>9, <1>10 DEF SumInv, w

LEMMA AddKeeps == SumInv /\ Add => SumInv'
<1> SUFFICES ASSUME SumInv, Add PROVE SumInv'
  OBVIOUS
<1> DEFINE w == HostWords(Summed)
<1>1. /\ Summed \in Seq(Byte) /\ w \in Seq(Nat)
      /\ Len(Summed) \in Nat /\ Len(w) \in Nat /\ Len(Summed) <= 2 * Len(w)
      /\ Len(w) = (Len(Summed) + 1) \div 2
  BY SummedIs, WordsAre
<1>2. /\ pc = "add" /\ pos <= Len(Summed) /\ pos' = pos + 2
      /\ sum' = (sum + HostWord(Summed, pos)) % Limit
  BY DEF Add, Added
<1>3. /\ kind' = kind /\ addresses' = addresses /\ bytes' = bytes /\ pc' = pc
      /\ Summed' = Summed
  BY DEF Add, Summed
<1>4. PICK n \in 0 .. Len(w) : pos = 2 * n + 1 /\ sum = Totals(w)[n]
  BY <1>2 DEF SumInv
<1>5. /\ n \in Nat /\ n + 1 \in 0 .. Len(w) /\ n + 1 \in 1 .. Len(w) /\ (n + 1) - 1 = n
      /\ 2 * (n + 1) - 1 = pos /\ pos' = 2 * (n + 1) + 1
  BY <1>1, <1>2, <1>4
<1>6. w[n + 1] = HostWord(Summed, pos)
  BY <1>1, <1>5 DEF HostWords
<1>7. Totals(w)[n + 1] \in 0 .. Limit - 1
  BY <1>5, TotalsFit
<1> HIDE DEF w
<1>8. Totals(w)[n + 1] = Totals(w)[n] + w[n + 1]
  BY <1>1, <1>5, TotalsAre
<1>9. sum' = Totals(w)[n + 1]
  <2> DEFINE c == Totals(w)[n + 1]
  <2>1. sum' = c % Limit
    BY <1>2, <1>4, <1>6, <1>8
  <2>2. c \in Nat /\ c < Limit
    BY <1>7, Widths
  <2> HIDE DEF c
  <2>3. c % Limit = c
    BY <2>2, Widths
  <2>4. QED
    BY <2>1, <2>3 DEF c
<1>10. \E m \in 0 .. Len(w) : pos' = 2 * m + 1 /\ sum' = Totals(w)[m]
  BY <1>5, <1>9
<1>11. w' = w
  BY <1>3 DEF w
<1>12. Accepted'
  BY <1>2, <1>3 DEF Accepted
<1>13. sum' \in 0 .. Limit - 1
  BY <1>7, <1>9
<1>14. (\E m \in 0 .. Len(HostWords(Summed)) :
          pos = 2 * m + 1 /\ sum = Totals(HostWords(Summed))[m])'
  BY <1>3, <1>10 DEF w
<1>15. QED
  BY <1>2, <1>3, <1>12, <1>13, <1>14 DEF SumInv

LEMMA AddEndsKeeps == SumInv /\ AddEnds => SumInv'
<1> SUFFICES ASSUME SumInv, AddEnds PROVE SumInv'
  OBVIOUS
<1> DEFINE w == HostWords(Summed)
<1>1. /\ w \in Seq(Nat) /\ Len(Summed) \in Nat /\ Len(w) \in Nat
      /\ 2 * Len(w) <= Len(Summed) + 1
  BY SummedIs
<1>2. pc = "add" /\ pos > Len(Summed) /\ pc' = "fold"
  BY DEF AddEnds
<1>3. /\ kind' = kind /\ addresses' = addresses /\ bytes' = bytes /\ sum' = sum
      /\ Summed' = Summed
  BY DEF AddEnds, Summed
<1>4. PICK n \in 0 .. Len(w) : pos = 2 * n + 1 /\ sum = Totals(w)[n]
  BY <1>2 DEF SumInv
<1>5. HostTotal = Totals(w)[Len(w)] /\ HostTotal' = HostTotal
  BY <1>3 DEF HostTotal
<1> HIDE DEF w
<1>6. n = Len(w)
  BY <1>1, <1>2, <1>4
<1>7. sum \in Nat /\ HostTotal = sum
  BY <1>4, <1>5, <1>6, Widths DEF SumInv
<1>8. HostTotal = sum + (Word - 1) * 0
  BY <1>7, Widths
<1>9. \E q \in Nat : HostTotal' = sum' + (Word - 1) * q
  BY <1>3, <1>5, <1>8
<1>10. Accepted'
  BY <1>2 DEF Accepted
<1>11. QED
  BY <1>2, <1>3, <1>9, <1>10 DEF SumInv

\* The high word comes down: it is worth one, not Word.
LEMMA FoldKeeps == SumInv /\ Fold => SumInv'
<1> SUFFICES ASSUME SumInv, Fold PROVE SumInv'
  OBVIOUS
<1> DEFINE x == sum % Word
           y == sum \div Word
<1>1. /\ pc = "fold" /\ pc' = pc /\ sum' = (x + y) % Limit
      /\ kind' = kind /\ addresses' = addresses /\ bytes' = bytes /\ Summed' = Summed
  BY DEF Fold, Added, Summed
<1>2. sum \in Nat /\ sum < Word * Word /\ Word \in Nat /\ Word >= 4
  BY Widths DEF SumInv
<1>3. sum = Word * y + x /\ x \in 0 .. Word - 1 /\ y \in 0 .. Word - 1
  BY <1>2, DivMod, DivBelow
<1> HIDE DEF x, y
<1>4. x \in Nat /\ y \in Nat /\ x + y \in Nat /\ x + y < Limit
  BY <1>2, <1>3, Widths
<1>5. sum' = x + y /\ sum' \in 0 .. Limit - 1
  BY <1>1, <1>4, Widths
<1>6. PICK q \in Nat : HostTotal = sum + (Word - 1) * q
  BY <1>1 DEF SumInv
<1>7. sum + (Word - 1) * q = (x + y) + (Word - 1) * (q + y)
  <2>1. (Word - 1) * (q + y) = (Word - 1) * q + (Word - 1) * y
    BY <1>2, <1>4, Distribute
  <2>2. (Word - 1) * y = Word * y - y /\ Word * y \in Nat /\ (Word - 1) * q \in Nat
    BY <1>2, <1>4
  <2>3. QED
    BY <1>2, <1>3, <1>4, <2>1, <2>2
<1>8. HostTotal' = HostTotal /\ q + y \in Nat
  BY <1>1, <1>4 DEF HostTotal
<1>9. \E r \in Nat : HostTotal' = sum' + (Word - 1) * r
  BY <1>5, <1>6, <1>7, <1>8
<1>10. Accepted'
  BY <1>1 DEF Accepted
<1>11. bytes[1] = 0 /\ bytes[2] = 0
  BY <1>1 DEF SumInv
<1>12. QED
  BY <1>1, <1>5, <1>9, <1>10, <1>11 DEF SumInv

(***************************************************************************)
(* A word that was zero, behind a whole number of words, is added to what  *)
(* the receiver finds when it is filled in.                                *)
(***************************************************************************)
LEMMA Patched ==
  ASSUME NEW h \in Seq(Byte), NEW n \in Nat, Len(h) = 2 * n,
         NEW s \in Seq(Byte), NEW t \in Seq(Byte), Len(t) = Len(s), Len(s) >= 2,
         s[1] = 0, s[2] = 0, \A i \in 3 .. Len(s) : t[i] = s[i]
  PROVE  NetworkSum(h \o t) = NetworkSum(h \o s) + (Base * t[1] + t[2])
<1> DEFINE x == h \o s
           y == h \o t
           k == (Len(x) + 1) \div 2
<1>1. /\ x \in Seq(Byte) /\ y \in Seq(Byte)
      /\ Len(x) = 2 * n + Len(s) /\ Len(y) = Len(x)
  <2>1. x \in Seq(Byte) /\ Len(x) = Len(h) + Len(s)
    BY Joined
  <2>2. y \in Seq(Byte) /\ Len(y) = Len(h) + Len(t)
    BY Joined
  <2> HIDE DEF x, y
  <2>3. QED
    BY <2>1, <2>2
<1>2. \A i \in 1 .. Len(x) :
        /\ x[i] = IF i <= 2 * n THEN h[i] ELSE s[i - 2 * n]
        /\ y[i] = IF i <= 2 * n THEN h[i] ELSE t[i - 2 * n]
  BY Joined
<1>3. Len(x) \in Nat /\ Len(s) \in Nat /\ k \in Nat /\ Len(x) <= 2 * k /\ 2 * k <= Len(x) + 1
  <2> HIDE DEF x
  <2>1. Len(x) \in Nat /\ Len(s) \in Nat
    BY <1>1
  <2>2. QED
    BY <2>1, Halves
<1>4. /\ NetworkWords(x) \in Seq(Nat) /\ Len(NetworkWords(x)) = k
      /\ NetworkWords(y) \in Seq(Nat) /\ Len(NetworkWords(y)) = k
  BY <1>1, WordsAre
<1>5. \A j \in 1 .. k : /\ NetworkWords(x)[j] = NetworkWord(x, 2 * j - 1)
                        /\ NetworkWords(y)[j] = NetworkWord(y, 2 * j - 1)
  BY <1>1 DEF NetworkWords
<1>6. NetworkSum(x) = Totals(NetworkWords(x))[k] /\ NetworkSum(y) = Totals(NetworkWords(y))[k]
  BY <1>1 DEF NetworkSum
<1> HIDE DEF x, y, k
<1>7. n + 1 \in 1 .. k /\ 2 * (n + 1) - 1 = 2 * n + 1 /\ 2 * n + 1 < Len(x)
      /\ 2 * n + 1 \in 1 .. Len(x) /\ 2 * n + 2 \in 1 .. Len(x)
      /\ (2 * n + 1) + 1 = 2 * n + 2
  BY <1>1, <1>3
<1>8. x[2 * n + 1] = s[1] /\ x[2 * n + 2] = s[2] /\ y[2 * n + 1] = t[1] /\ y[2 * n + 2] = t[2]
  <2>1. (2 * n + 1) - 2 * n = 1 /\ (2 * n + 2) - 2 * n = 2
        /\ ~(2 * n + 1 <= 2 * n) /\ ~(2 * n + 2 <= 2 * n)
    OBVIOUS
  <2>2. QED
    BY <1>2, <1>7, <2>1
<1>9. NetworkWords(x)[n + 1] = 0
  <2>1. Base * 0 + 0 = 0
    BY Widths
  <2>2. NetworkWords(x)[n + 1] = Base * x[2 * n + 1] + x[2 * n + 2]
    BY <1>5, <1>7 DEF NetworkWord
  <2>3. QED
    BY <1>8, <2>1, <2>2
<1>10. NetworkWords(y)[n + 1] = Base * t[1] + t[2]
  <2>1. 2 * n + 1 < Len(y)
    BY <1>1, <1>7
  <2>2. NetworkWords(y)[n + 1] = NetworkWord(y, 2 * n + 1)
    BY <1>5, <1>7
  <2>3. NetworkWord(y, 2 * n + 1) = Base * y[2 * n + 1] + y[2 * n + 2]
    BY <1>7, <2>1 DEF NetworkWord
  <2>4. QED
    BY <1>8, <2>2, <2>3
<1>11. ASSUME NEW j \in 1 .. k, j # n + 1
       PROVE  NetworkWords(y)[j] = NetworkWords(x)[j]
  <2> DEFINE i == 2 * j - 1
  <2>1. /\ i \in 1 .. Len(x) /\ i # 2 * n + 1 /\ i # 2 * n + 2
        /\ i + 1 # 2 * n + 1 /\ i + 1 # 2 * n + 2
    BY <1>3, <1>11
  <2>2. /\ NetworkWords(x)[j] = NetworkWord(x, i)
        /\ NetworkWords(y)[j] = NetworkWord(y, i)
    BY <1>5
  <2> HIDE DEF i
  <2>3. ASSUME NEW l \in 1 .. Len(x), l # 2 * n + 1, l # 2 * n + 2 PROVE y[l] = x[l]
    <3>1. CASE l <= 2 * n
      BY <1>2, <3>1
    <3>2. CASE ~(l <= 2 * n)
      <4>1. l - 2 * n \in 3 .. Len(s)
        BY <1>1, <1>3, <2>3, <3>2
      <4>2. t[l - 2 * n] = s[l - 2 * n]
        BY <4>1
      <4>3. x[l] = s[l - 2 * n] /\ y[l] = t[l - 2 * n]
        BY <1>2, <3>2
      <4>4. QED
        BY <4>2, <4>3
    <3>3. QED
      BY <3>1, <3>2
  <2>4. y[i] = x[i]
    BY <2>1, <2>3
  <2>5. i < Len(x) => y[i + 1] = x[i + 1]
    <3>1. i < Len(x) => i + 1 \in 1 .. Len(x)
      BY <1>3, <2>1
    <3>2. QED
      BY <2>1, <2>3, <3>1
  <2>6. NetworkWord(y, i) = NetworkWord(x, i)
    BY <1>1, <2>4, <2>5 DEF NetworkWord
  <2>7. QED
    BY <2>2, <2>6
<1>12. Totals(NetworkWords(y))[k] = Totals(NetworkWords(x))[k] + NetworkWords(y)[n + 1]
  <2> DEFINE w == NetworkWords(x)
             z == NetworkWords(y)
  <2>1. /\ w \in Seq(Nat) /\ z \in Seq(Nat) /\ Len(z) = Len(w) /\ k = Len(w)
        /\ w[n + 1] = 0 /\ \A j \in 1 .. Len(w) : j # n + 1 => z[j] = w[j]
    BY <1>4, <1>9, <1>11
  <2> HIDE DEF w, z
  <2> DEFINE m == n + 1
  <2>2. m \in 1 .. Len(w) /\ w[m] = 0 /\ \A j \in 1 .. Len(w) : j # m => z[j] = w[j]
    BY <1>7, <2>1
  <2> HIDE DEF m
  <2>3. Totals(z)[Len(w)] = Totals(w)[Len(w)] + z[m]
    BY <2>1, <2>2, TotalsDiffer
  <2>4. QED
    BY <2>1, <2>3 DEF w, z, m
<1>13. NetworkSum(y) = NetworkSum(x) + (Base * t[1] + t[2])
  BY <1>6, <1>10, <1>12
<1>14. QED
  BY <1>13 DEF x, y

\* The total of the receiver's words is that of the host's, times Base.
LEMMA NetworkCongruent ==
  ASSUME NEW s \in Seq(Byte)
  PROVE  /\ Totals(HostWords(s))[Len(HostWords(s))] \in Nat
         /\ NetworkSum(s) \in Nat
         /\ \E q \in Nat : Base * Totals(HostWords(s))[Len(HostWords(s))] =
                           NetworkSum(s) + (Word - 1) * q
<1> DEFINE w == HostWords(s)
           z == NetworkWords(s)
           k == (Len(s) + 1) \div 2
<1>1. /\ w \in Seq(Nat) /\ Len(w) = k /\ z \in Seq(Nat) /\ Len(z) = k
      /\ Congruent(w, z, Base, Word - 1)
      /\ NetworkSum(s) = Totals(z)[k]
  BY WordsAre DEF NetworkSum
<1> HIDE DEF w, z, k
<1>2. Base \in Nat /\ Word - 1 \in Nat /\ Len(w) \in Nat /\ Len(w) \in 0 .. Len(w)
  BY <1>1, Widths
<1>3. \E q \in Nat : Base * Totals(w)[Len(w)] = Totals(z)[Len(w)] + (Word - 1) * q
  BY <1>1, <1>2, TotalsCongruent
<1>4. Totals(w)[Len(w)] \in Nat /\ Totals(z)[Len(w)] \in Nat
  BY <1>1, <1>2, TotalsNatural
<1>5. QED
  BY <1>1, <1>3, <1>4 DEF w

(***************************************************************************)
(* Word - 1 less the sum makes what the receiver adds up a multiple of it. *)
(***************************************************************************)
Complements(d, b, total, s, x, v) ==
  /\ \E p \in Nat : total = s + d * p
  /\ \E q \in Nat : b * total = x + d * q
  /\ \E r \in Int : b * (d - s) = v + d * r

LEMMA MadeUp ==
  ASSUME NEW d \in Nat, d >= 4, NEW b \in Nat, NEW total \in Nat, NEW s \in Nat,
         NEW x \in Nat, NEW v \in Nat, Complements(d, b, total, s, x, v)
  PROVE  (x + v) % d = 0
<1>1. PICK p \in Nat : total = s + d * p
  BY DEF Complements
<1>2. PICK q \in Nat : b * total = x + d * q
  BY DEF Complements
<1>3. PICK r \in Int : b * (d - s) = v + d * r
  BY DEF Complements
<1>4. b * total = b * s + d * (b * p)
  <2>1. b * (s + d * p) = b * s + b * (d * p)
    BY Distribute
  <2>2. b * (d * p) = d * (b * p)
    OBVIOUS
  <2>3. QED
    BY <1>1, <2>1, <2>2
<1>5. b * (d - s) = d * b - b * s
  OBVIOUS
<1>6. d * (b + b * p - q - r) = d * b + d * (b * p) - d * q - d * r
  <2> DEFINE e == b * p
  <2>1. e \in Nat
    OBVIOUS
  <2> HIDE DEF e
  <2>2. d * (b + e - q - r) = d * b + d * e - d * q - d * r
    BY <2>1
  <2>3. QED
    BY <2>2 DEF e
<1>7. /\ d * b \in Nat /\ d * (b * p) \in Nat /\ d * q \in Nat /\ d * r \in Int
      /\ b * s \in Nat /\ b + b * p - q - r \in Int
  OBVIOUS
<1>8. x + v = d * (b + b * p - q - r)
  BY <1>2, <1>3, <1>4, <1>5, <1>6, <1>7
<1>9. QED
  BY <1>7, <1>8, ModZero

LEMMA FinishKeeps == SumInv /\ Finish => SumInv'
<1> SUFFICES ASSUME SumInv, Finish PROVE SumInv'
  OBVIOUS
<1> DEFINE c == Word - 1 - sum
           t == Stored(kind, c)
           u == SubSeq(bytes, 3, Len(bytes))
           h == PseudoHeader(kind, addresses, bytes)
<1>1. /\ pc = "fold" /\ sum < Word /\ bytes' = t \o u /\ pc' = "done"
      /\ kind' = kind /\ addresses' = addresses /\ sum' = sum
  BY DEF Finish
<1>2. /\ bytes \in Seq(Byte) /\ Len(bytes) \in Nat /\ Len(bytes) >= 2
      /\ Len(bytes) \in 2 .. Word - 1 /\ bytes[1] = 0 /\ bytes[2] = 0
      /\ sum \in Nat /\ addresses \in Addresses
  BY <1>1, Widths DEF SumInv
<1>3. c \in 0 .. Word - 1 /\ c \in Nat /\ c = (Word - 1) - sum
  BY <1>1, <1>2, Widths
<1>4. /\ t \in Seq(Byte) /\ Len(t) = 2
      /\ \E r \in Int : Base * c = (Base * t[1] + t[2]) + (Word - 1) * r
  BY <1>3, StoredIs
<1>5. /\ u \in Seq(Byte) /\ Len(u) = Len(bytes) - 2
      /\ \A i \in 1 .. Len(bytes) - 2 : u[i] = bytes[i + 2]
  <2>1. \A i \in 3 .. Len(bytes) : bytes[i] \in Byte
    BY <1>2
  <2>2. 3 \in Int /\ Len(bytes) \in Int
    BY <1>2
  <2>3. /\ u \in Seq(Byte) /\ Len(u) = IF 3 <= Len(bytes) THEN Len(bytes) - 3 + 1 ELSE 0
        /\ \A i \in 1 .. Len(bytes) - 3 + 1 : u[i] = bytes[3 + i - 1]
    BY <2>1, <2>2, SubSeqProperties
  <2> HIDE DEF u
  <2>4. \A i \in 1 .. Len(bytes) - 2 : i \in 1 .. Len(bytes) - 3 + 1 /\ 3 + i - 1 = i + 2
    BY <1>2
  <2>5. Len(u) = Len(bytes) - 2
    <3>1. Len(u) = IF 3 <= Len(bytes) THEN Len(bytes) - 3 + 1 ELSE 0
      BY <2>3
    <3>2. Len(bytes) \in Nat /\ Len(bytes) >= 2
      BY <1>2
    <3> DEFINE n == Len(bytes)
               m == Len(u)
    <3>3. m = (IF 3 <= n THEN n - 3 + 1 ELSE 0) /\ n \in Nat /\ n >= 2
      BY <3>1, <3>2
    <3> HIDE DEF n, m
    <3>4. m = n - 2
      BY <3>3
    <3>5. QED
      BY <3>4 DEF n, m
  <2>6. \A i \in 1 .. Len(bytes) - 2 : u[i] = bytes[i + 2]
    BY <2>3, <2>4
  <2>7. QED
    BY <2>3, <2>5, <2>6
<1>6. h \in Seq(Byte) /\ \E n \in 0 .. 6 : Len(h) = 2 * n
  BY <1>2, PseudoHeaderIs
<1>7. Summed = h \o bytes
  BY DEF Summed
<1> HIDE DEF t, u, c
<1>8. /\ bytes' \in Seq(Byte) /\ Len(bytes') = Len(bytes)
      /\ bytes'[1] = t[1] /\ bytes'[2] = t[2]
      /\ \A i \in 3 .. Len(bytes) : bytes'[i] = bytes[i]
  <2>1. /\ bytes' \in Seq(Byte) /\ Len(bytes') = Len(t) + Len(u)
        /\ \A i \in 1 .. Len(t) + Len(u) : bytes'[i] = IF i <= Len(t) THEN t[i] ELSE u[i - Len(t)]
    BY <1>1, <1>4, <1>5, Joined
  <2>2. Len(t) + Len(u) = Len(bytes)
    BY <1>2, <1>4, <1>5
  <2>3. ASSUME NEW i \in 3 .. Len(bytes) PROVE bytes'[i] = bytes[i]
    <3>1. i - 2 \in 1 .. Len(bytes) - 2 /\ (i - 2) + 2 = i /\ ~(i <= 2)
      BY <1>2
    <3>2. QED
      BY <1>4, <1>5, <2>1, <2>2, <3>1
  <2>4. bytes'[1] = t[1] /\ bytes'[2] = t[2]
    BY <1>2, <1>4, <2>1, <2>2
  <2>5. QED
    BY <2>1, <2>2, <2>3, <2>4
<1>9. Summed' = h \o bytes'
  BY <1>1, <1>8 DEF Summed, PseudoHeader
<1> HIDE DEF h
<1>10. NetworkSum(h \o bytes') = NetworkSum(h \o bytes) + (Base * t[1] + t[2])
  <2>1. PICK n \in 0 .. 6 : Len(h) = 2 * n
    BY <1>6
  <2>2. n \in Nat
    OBVIOUS
  <2>3. QED
    BY <1>2, <1>6, <1>8, <2>1, <2>2, Patched
<1>11. h \o bytes \in Seq(Byte)
  BY <1>2, <1>6, Joined
<1>12. /\ HostTotal \in Nat /\ NetworkSum(Summed) \in Nat
       /\ \E q \in Nat : Base * HostTotal = NetworkSum(Summed) + (Word - 1) * q
  BY <1>7, <1>11, NetworkCongruent DEF HostTotal
<1>13. \E p \in Nat : HostTotal = sum + (Word - 1) * p
  BY <1>1 DEF SumInv
<1>14. Base * t[1] + t[2] \in Nat
  <2>1. t[1] \in Byte /\ t[2] \in Byte
    <3>1. t \in Seq(Byte) /\ 1 \in 1 .. Len(t) /\ 2 \in 1 .. Len(t)
      BY <1>4
    <3>2. QED
      BY <3>1
  <2>2. QED
    BY <2>1, PairBelow
<1>15. (NetworkSum(Summed) + (Base * t[1] + t[2])) % (Word - 1) = 0
  <2>1. Word - 1 \in Nat /\ Word - 1 >= 4 /\ Base \in Nat
    BY Widths
  <2> DEFINE v == Base * t[1] + t[2]
             d == Word - 1
             x == NetworkSum(Summed)
             y == HostTotal
  <2>2. Complements(d, Base, y, sum, x, v)
    BY <1>3, <1>4, <1>12, <1>13 DEF Complements
  <2>3. /\ d \in Nat /\ d >= 4 /\ v \in Nat /\ x \in Nat /\ y \in Nat
        /\ Base \in Nat /\ sum \in Nat
    BY <1>2, <1>12, <1>14, <2>1
  <2> HIDE DEF v, d, x, y
  <2>4. (x + v) % d = 0
    BY <2>2, <2>3, MadeUp
  <2>5. QED
    BY <2>4 DEF v, d, x
<1>16. Accepted'
  <2>1. NetworkSum(Summed') % (Word - 1) = 0
    BY <1>7, <1>9, <1>10, <1>15
  <2>2. QED
    BY <2>1 DEF Accepted
<1>17. sum' \in 0 .. Limit - 1 /\ Len(bytes') \in 2 .. Word - 1
  BY <1>1, <1>2, <1>8 DEF SumInv
<1>18. QED
  BY <1>1, <1>2, <1>8, <1>16, <1>17 DEF SumInv

LEMMA SumNext == SumInv /\ [Next]_vars => SumInv'
<1>1. ASSUME SumInv, UNCHANGED vars PROVE SumInv'
  BY <1>1 DEF SumInv, vars, Accepted, Summed, HostTotal
<1>2. QED
  BY <1>1, AddKeeps, AddEndsKeeps, FoldKeeps, FinishKeeps DEF Next

LEMMA SumAlways == Spec => []SumInv
  BY SumInit, SumNext, PTL DEF Spec

-----------------------------------------------------------------------------
(***************************************************************************)
(* common.cpp:143-160 and 169-212 add into 32 bits with no carry back in   *)
(* the loop: nothing is cut off, for any segment a length field can name.  *)
(***************************************************************************)
THEOREM SumHoldsAll == Spec => []NothingCut
<1>1. ASSUME SumInv PROVE NothingCut
  <2>1. SUFFICES ASSUME pc = "add"
                 PROVE  sum = Totals(HostWords(Summed))[(pos - 1) \div 2]
    BY DEF NothingCut
  <2>2. PICK n \in 0 .. Len(HostWords(Summed)) :
               pos = 2 * n + 1 /\ sum = Totals(HostWords(Summed))[n]
    BY <1>1, <2>1 DEF SumInv
  <2>3. n \in Nat
    BY <2>2
  <2>4. (pos - 1) \div 2 = n
    BY <2>2, <2>3
  <2>5. QED
    BY <2>2, <2>4
<1>2. QED
  BY <1>1, SumAlways, PTL

(***************************************************************************)
(* Every checksum the router stores (finalize_checksum, common.cpp:143-    *)
(* 160) makes the receiver's sum a multiple of Word - 1, zero in one's     *)
(* complement, for the header, ICMP, TCP and UDP, and for odd lengths.     *)
(***************************************************************************)
THEOREM ReceiversAccept == Spec => []Accepted
<1>1. SumInv => Accepted
  BY DEF SumInv
<1>2. QED
  BY <1>1, SumAlways, PTL
=============================================================================
