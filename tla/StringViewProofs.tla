---------------------------- MODULE StringViewProofs ----------------------------
(***************************************************************************)
(* The functions of StringView do what StringViewCheck asks of them, for   *)
(* every view and word over any alphabet.  Their loops are functions on    *)
(* the naturals, and induction over a set of naturals does for them.       *)
(***************************************************************************)
EXTENDS StringViewCheck, TLAPS, SequenceTheorems, WellFoundedInduction

-------------------------------------------------------------------------------
(* Induction on sets of naturals, and the ends of a set of integers.       *)

\* A set of naturals that is not empty has a least one.
LEMMA LeastOf ==
  ASSUME NEW T, T \subseteq Nat, T # {}
  PROVE  \E m \in T : \A n \in T : m <= n
<1>1. PICK m \in T : \A n \in T : ~(<<n, m>> \in OpToRel(<, Nat))
  BY NatLessThanWellFounded, WFMin, Zenon
<1>2. ASSUME NEW n \in T PROVE m <= n
  <2>1. m \in Nat /\ n \in Nat
    OBVIOUS
  <2>2. ~(<<n, m>> \in OpToRel(<, Nat))
    BY <1>1
  <2>3. ~(n < m)
    BY <2>1, <2>2 DEF OpToRel
  <2>4. QED
    BY <2>1, <2>3
<1>3. QED
  BY <1>2

LEMMA SetInduction ==
  ASSUME NEW T, 0 \in T, \A n \in Nat : n \in T => n + 1 \in T
  PROVE  \A n \in Nat : n \in T
<1> SUFFICES ASSUME {n \in Nat : n \notin T} # {} PROVE FALSE
  OBVIOUS
<1>1. PICK m \in {n \in Nat : n \notin T} :
        \A n \in {k \in Nat : k \notin T} : m <= n
  BY LeastOf
<1>2. m - 1 \in Nat /\ m - 1 \in T
  BY <1>1
<1>3. QED
  BY <1>1, <1>2

\* The least and the greatest of some integers, where there is one.
LEMMA MinIs ==
  ASSUME NEW T, T \subseteq Int, NEW m \in T, \A n \in T : m <= n
  PROVE  Min(T) = m
<1>1. Min(T) \in T /\ \A n \in T : Min(T) <= n
  BY DEF Min
<1>2. Min(T) <= m /\ m <= Min(T) /\ m \in Int /\ Min(T) \in Int
  BY <1>1
<1>3. QED
  BY <1>2

LEMMA MaxIs ==
  ASSUME NEW T, T \subseteq Int, NEW m \in T, \A n \in T : n <= m
  PROVE  Max(T) = m
<1>1. m \in Int /\ \A n \in T : n \in Int /\ m >= n
  OBVIOUS
<1>2. Max(T) \in T /\ \A n \in T : Max(T) >= n
  BY <1>1 DEF Max
<1>3. Max(T) <= m /\ Max(T) >= m /\ Max(T) \in Int
  BY <1>1, <1>2
<1>4. QED
  BY <1>1, <1>3

LEMMA MinOf ==
  ASSUME NEW T, T \subseteq Nat, T # {}
  PROVE  Min(T) \in T /\ \A n \in T : Min(T) <= n
<1>1. PICK m \in T : \A n \in T : m <= n
  BY LeastOf
<1>2. T \subseteq Int
  OBVIOUS
<1>3. Min(T) = m
  BY <1>1, <1>2, MinIs
<1>4. QED
  BY <1>1, <1>3

LEMMA MaxOf ==
  ASSUME NEW b \in Nat, NEW T, T \subseteq 0 .. b, T # {}
  PROVE  Max(T) \in T /\ \A n \in T : n <= Max(T)
<1> DEFINE R == {b - n : n \in T}
<1>1. \A n \in T : n \in Nat /\ b - n \in Nat /\ b - n \in R
  OBVIOUS
<1>2. R \subseteq Nat /\ R # {}
  BY <1>1
<1>3. PICK r \in R : \A n \in R : r <= n
  BY <1>2, LeastOf
<1>4. PICK m \in T : r = b - m
  OBVIOUS
<1>5. \A n \in T : n <= m
  <2> SUFFICES ASSUME NEW n \in T PROVE n <= m
    OBVIOUS
  <2>1. r <= b - n /\ m \in Nat /\ n \in Nat
    BY <1>1, <1>3
  <2>2. QED
    BY <1>4, <2>1
<1>6. T \subseteq Int
  BY <1>1
<1>7. Max(T) = m
  BY <1>5, <1>6, MaxIs
<1>8. QED
  BY <1>5, <1>7

\* A recursion that begins with a and goes on n times has a solution.
Solution(g, S, a, n, next) ==
  /\ g \in [0 .. n -> S]
  /\ g[0] = a
  /\ \A k \in 1 .. n : g[k] = next[k][g[k - 1]]

LEMMA Iteration ==
  ASSUME NEW S, NEW a \in S, NEW n \in Nat, NEW next \in [1 .. n -> [S -> S]]
  PROVE  \E g : Solution(g, S, a, n, next)
<1> DEFINE Solves(g, m) ==
             \A k \in 0 .. m : g[k] = IF k = 0 THEN a ELSE next[k][g[k - 1]]
           T == {m \in Nat : m <= n => \E g \in [0 .. m -> S] : Solves(g, m)}
<1>1. 0 \in T
  <2>1. [k \in 0 .. 0 |-> a] \in [0 .. 0 -> S] /\ Solves([k \in 0 .. 0 |-> a], 0)
    OBVIOUS
  <2>2. QED
    BY <2>1
<1>2. ASSUME NEW m \in Nat, m \in T PROVE m + 1 \in T
  <2> SUFFICES ASSUME m + 1 <= n
               PROVE  \E g \in [0 .. m + 1 -> S] : Solves(g, m + 1)
    OBVIOUS
  <2>1. PICK g \in [0 .. m -> S] : Solves(g, m)
    BY <1>2
  <2> DEFINE h == [k \in 0 .. m + 1 |-> IF k = m + 1 THEN next[m + 1][g[m]] ELSE g[k]]
  <2>2. m + 1 \in 1 .. n /\ g[m] \in S /\ next[m + 1][g[m]] \in S
    OBVIOUS
  <2>3. h \in [0 .. m + 1 -> S]
    BY <2>2
  <2>4. ASSUME NEW k \in 0 .. m + 1
        PROVE  h[k] = IF k = 0 THEN a ELSE next[k][h[k - 1]]
    <3>1. CASE k = m + 1
      <4>1. h[k] = next[m + 1][g[m]] /\ h[k - 1] = g[m] /\ k # 0
        BY <3>1
      <4>2. QED
        BY <3>1, <4>1
    <3>2. CASE k \in 0 .. m
      <4>1. h[k] = g[k] /\ (k # 0 => h[k - 1] = g[k - 1])
        BY <3>2
      <4>2. QED
        BY <2>1, <3>2, <4>1
    <3>3. QED
      BY <3>1, <3>2
  <2>5. Solves(h, m + 1)
    BY <2>4
  <2> HIDE DEF h, Solves
  <2>6. QED
    BY <2>3, <2>5
<1>3. n \in T
  <2> HIDE DEF T
  <2>1. QED
    BY <1>1, <1>2, SetInduction
<1>4. PICK g \in [0 .. n -> S] : Solves(g, n)
  BY <1>3
<1>5. Solution(g, S, a, n, next)
  BY <1>4 DEF Solution
<1>6. QED
  BY <1>5

-------------------------------------------------------------------------------
(* Numbers.                                                                *)

\* An int that is large enough holds what it is given.
LEMMA Wrapped ==
  ASSUME NEW n \in Int
  PROVE  WrapInt(n) \in Int /\ (n \in 0 .. INT_MAX => WrapInt(n) = n)
<1> DEFINE y == 2 * (INT_MAX + 1)
           x == n + INT_MAX + 1
<1>1. INT_MAX \in Nat /\ y \in Int /\ y > 0 /\ x \in Int
  BY IntAssumption DEF IntAssumption
<1>2. n \in 0 .. INT_MAX => 0 <= x /\ x < y
  BY <1>1
<1>3. WrapInt(n) = (x % y) - INT_MAX - 1
  BY DEF WrapInt
<1> HIDE DEF x, y
<1>4. x % y \in Int /\ (0 <= x /\ x < y => x % y = x)
  BY <1>1
<1>5. (0 <= x /\ x < y => WrapInt(n) = x - INT_MAX - 1) /\ WrapInt(n) \in Int
  BY <1>1, <1>3, <1>4
<1>6. QED
  BY <1>1, <1>2, <1>5 DEF x

\* Number and WrappedNumber are the last values of their recursions.
LEMMA NumberValues ==
  ASSUME NEW S, NEW v \in Seq(S), NEW base \in Nat, Digits(v, base)
  PROVE  \E f \in [0 .. Len(v) -> Nat] :
           /\ Number(v, base) = f[Len(v)]
           /\ f[0] = 0
           /\ \A k \in 1 .. Len(v) : f[k] = f[k - 1] * base + HexValue(v[k])
<1>1. \A k \in 1 .. Len(v) : HexValue(v[k]) \in Nat
  BY DEF Digits
<1> DEFINE n == Len(v)
           next == [k \in 1 .. n |-> [x \in Nat |-> x * base + HexValue(v[k])]]
           Runs(f) == f = [k \in 0 .. n |->
                             IF k = 0 THEN 0 ELSE f[k - 1] * base + HexValue(v[k])]
           value == CHOOSE f : Runs(f)
<1>2. n \in Nat
  OBVIOUS
<1>3. next \in [1 .. n -> [Nat -> Nat]]
  BY <1>1
<1>4. PICK g : Solution(g, Nat, 0, n, next)
  <2> HIDE DEF next, n
  <2>1. 0 \in Nat
    OBVIOUS
  <2>2. QED
    BY <1>2, <1>3, <2>1, Iteration
<1>5. /\ g \in [0 .. n -> Nat] /\ g[0] = 0
      /\ \A k \in 1 .. n : g[k] = g[k - 1] * base + HexValue(v[k])
  <2>1. /\ g \in [0 .. n -> Nat] /\ g[0] = 0
        /\ \A k \in 1 .. n : g[k] = next[k][g[k - 1]]
    BY <1>4 DEF Solution
  <2>2. ASSUME NEW k \in 1 .. n PROVE g[k] = g[k - 1] * base + HexValue(v[k])
    <3>1. g[k - 1] \in Nat
      BY <1>2, <2>1, SMTT(30)
    <3>2. QED
      BY <2>1, <3>1
  <2>3. QED
    BY <2>1, <2>2
<1>6. Runs(g)
  BY <1>5
<1>7. Runs(value)
  BY <1>6
<1>8. Number(v, base) = value[n]
  BY DEF Number
<1>9. /\ value[0] = 0
      /\ \A k \in 1 .. n : value[k] = value[k - 1] * base + HexValue(v[k])
  <2> HIDE DEF value
  <2>1. QED
    BY <1>2, <1>7
<1> HIDE DEF value
<1>10. \A k \in 0 .. n : value[k] \in Nat
  <2> DEFINE T == {k \in Nat : k <= n => value[k] \in Nat}
  <2>1. 0 \in T
    BY <1>9
  <2>2. ASSUME NEW k \in Nat, k \in T PROVE k + 1 \in T
    <3>1. CASE k + 1 <= n
      <4>1. k + 1 \in 1 .. n /\ (k + 1) - 1 = k /\ value[k] \in Nat
        BY <1>2, <2>2, <3>1
      <4>2. value[k + 1] = value[k] * base + HexValue(v[k + 1])
        BY <1>9, <4>1
      <4>3. HexValue(v[k + 1]) \in Nat
        BY <1>1, <4>1
      <4>4. value[k] * base \in Nat
        BY <4>1
      <4>5. QED
        BY <4>2, <4>3, <4>4
    <3>2. QED
      BY <3>1
  <2>3. \A k \in Nat : k \in T
    <3> HIDE DEF T
    <3>1. QED
      BY <2>1, <2>2, SetInduction
  <2>4. QED
    BY <1>2, <2>3
<1>11. value \in [0 .. n -> Nat]
  BY <1>7, <1>10
<1>12. QED
  BY <1>8, <1>9, <1>11

LEMMA WrappedValues ==
  ASSUME NEW S, NEW v \in Seq(S), NEW base \in Nat, Digits(v, base)
  PROVE  \E f \in [0 .. Len(v) -> Int] :
           /\ WrappedNumber(v, base) = f[Len(v)]
           /\ f[0] = 0
           /\ \A k \in 1 .. Len(v) :
                f[k] = WrapInt(f[k - 1] * base + HexValue(v[k]))
<1>1. \A k \in 1 .. Len(v) : HexValue(v[k]) \in Nat
  BY DEF Digits
<1>2. \A k \in 1 .. Len(v) : \A x \in Int : WrapInt(x * base + HexValue(v[k])) \in Int
  <2> SUFFICES ASSUME NEW k \in 1 .. Len(v), NEW x \in Int
               PROVE  WrapInt(x * base + HexValue(v[k])) \in Int
    OBVIOUS
  <2>1. x * base \in Int /\ HexValue(v[k]) \in Int
    BY <1>1
  <2>2. x * base + HexValue(v[k]) \in Int
    BY <2>1
  <2>3. QED
    BY <2>2, Wrapped
<1> DEFINE n == Len(v)
           next == [k \in 1 .. n |-> [x \in Int |-> WrapInt(x * base + HexValue(v[k]))]]
           Runs(f) == f = [k \in 0 .. n |->
                             IF k = 0 THEN 0
                             ELSE WrapInt(f[k - 1] * base + HexValue(v[k]))]
           parsed == CHOOSE f : Runs(f)
<1>3. n \in Nat
  OBVIOUS
<1>4. next \in [1 .. n -> [Int -> Int]]
  BY <1>2
<1>5. PICK g : Solution(g, Int, 0, n, next)
  <2> HIDE DEF next, n
  <2>1. 0 \in Int
    OBVIOUS
  <2>2. QED
    BY <1>3, <1>4, <2>1, Iteration
<1>6. /\ g \in [0 .. n -> Int] /\ g[0] = 0
      /\ \A k \in 1 .. n : g[k] = WrapInt(g[k - 1] * base + HexValue(v[k]))
  <2>1. /\ g \in [0 .. n -> Int] /\ g[0] = 0
        /\ \A k \in 1 .. n : g[k] = next[k][g[k - 1]]
    BY <1>5 DEF Solution
  <2>2. ASSUME NEW k \in 1 .. n PROVE g[k] = WrapInt(g[k - 1] * base + HexValue(v[k]))
    <3>1. g[k - 1] \in Int
      BY <1>3, <2>1
    <3>2. QED
      BY <2>1, <3>1
  <2>3. QED
    BY <2>1, <2>2
<1>7. Runs(g)
  BY <1>6
<1>8. Runs(parsed)
  BY <1>7
<1>9. WrappedNumber(v, base) = parsed[n]
  BY DEF WrappedNumber
<1>10. /\ parsed[0] = 0
       /\ \A k \in 1 .. n : parsed[k] = WrapInt(parsed[k - 1] * base + HexValue(v[k]))
  <2> HIDE DEF parsed
  <2>1. QED
    BY <1>3, <1>8
<1> HIDE DEF parsed
<1>11. \A k \in 0 .. n : parsed[k] \in Int
  <2> DEFINE T == {k \in Nat : k <= n => parsed[k] \in Int}
  <2>1. 0 \in T
    BY <1>10
  <2>2. ASSUME NEW k \in Nat, k \in T PROVE k + 1 \in T
    <3>1. CASE k + 1 <= n
      <4>1. k + 1 \in 1 .. n /\ (k + 1) - 1 = k /\ parsed[k] \in Int
        BY <1>3, <2>2, <3>1
      <4>2. parsed[k + 1] = WrapInt(parsed[k] * base + HexValue(v[k + 1]))
        BY <1>10, <4>1
      <4>3. WrapInt(parsed[k] * base + HexValue(v[k + 1])) \in Int
        BY <1>2, <4>1, Zenon
      <4>4. QED
        BY <4>2, <4>3
    <3>2. QED
      BY <3>1
  <2>3. \A k \in Nat : k \in T
    <3> HIDE DEF T
    <3>1. QED
      BY <2>1, <2>2, SetInduction
  <2>4. QED
    BY <1>3, <2>3
<1>12. parsed \in [0 .. n -> Int]
  BY <1>8, <1>11
<1>13. QED
  BY <1>9, <1>10, <1>12

\* The ints, and how many there are.
Ints == -(INT_MAX + 1) .. INT_MAX
CountOfInts == 2 * (INT_MAX + 1)

LEMMA CountIsPositive == CountOfInts \in Nat /\ CountOfInts > 0 /\ Ints \subseteq Int
  BY IntAssumption DEF IntAssumption, CountOfInts, Ints

\* Wrapping changes a number by a multiple of the number of ints.
LEMMA WrappedCongruent ==
  ASSUME NEW n \in Int
  PROVE  /\ WrapInt(n) \in Ints
         /\ \E j \in Int : n = WrapInt(n) + j * CountOfInts
<1> DEFINE x == n + INT_MAX + 1
<1>1. INT_MAX \in Nat /\ x \in Int
  BY IntAssumption DEF IntAssumption
<1>2. WrapInt(n) = (x % CountOfInts) - INT_MAX - 1
  BY DEF WrapInt, CountOfInts
<1>3. x % CountOfInts \in 0 .. CountOfInts - 1
  <2> HIDE DEF x
  <2>1. QED
    BY <1>1, CountIsPositive
<1>4. WrapInt(n) \in Ints
  <2> HIDE DEF x
  <2>1. \A m \in 0 .. CountOfInts - 1 : m - INT_MAX - 1 \in Ints
    BY <1>1 DEF CountOfInts, Ints
  <2>2. QED
    BY <1>2, <1>3, <2>1
<1>5. x \div CountOfInts \in Int /\ x = (x \div CountOfInts) * CountOfInts + (x % CountOfInts)
  <2> HIDE DEF x
  <2>1. QED
    BY <1>1, CountIsPositive
<1>6. n = WrapInt(n) + (x \div CountOfInts) * CountOfInts
  <2>1. PICK p \in Int, m \in Int :
          /\ p = (x \div CountOfInts) * CountOfInts
          /\ m = x % CountOfInts
    <3> HIDE DEF x
    <3>1. QED
      BY <1>3, <1>5, CountIsPositive
  <2>2. x = p + m /\ WrapInt(n) = m - INT_MAX - 1
    BY <1>2, <1>5, <2>1
  <2>3. QED
    BY <1>1, <2>1, <2>2
<1>7. QED
  BY <1>4, <1>5, <1>6

\* A multiple of the number of ints leaves nothing when it is divided by it.
LEMMA MultipleLeavesNothing ==
  ASSUME NEW q \in Int
  PROVE  (q * CountOfInts) % CountOfInts = 0
<1> DEFINE a == q * CountOfInts
           d == a \div CountOfInts
           m == a % CountOfInts
<1>1. a \in Int
  BY CountIsPositive
<1>2. d \in Int /\ m \in 0 .. CountOfInts - 1 /\ a = d * CountOfInts + m
  <2> HIDE DEF a
  <2>1. QED
    BY <1>1, CountIsPositive
<1>3. PICK e \in Int : e = q - d
  BY <1>2
<1>4. m = e * CountOfInts
  <2> HIDE DEF d, m
  <2>1. QED
    BY <1>2, <1>3, CountIsPositive
<1>5. e <= 0
  <2> HIDE DEF d, m, a
  <2>1. SUFFICES ASSUME e >= 1 PROVE FALSE
    BY <1>3
  <2>2. e * CountOfInts >= CountOfInts
    BY <2>1, CountIsPositive
  <2>3. QED
    BY <1>2, <1>4, <2>2, CountIsPositive
<1>6. e >= 0
  <2> HIDE DEF d, m, a
  <2>1. SUFFICES ASSUME e <= -1 PROVE FALSE
    BY <1>3
  <2>2. e * CountOfInts <= -CountOfInts
    BY <2>1, CountIsPositive
  <2>3. QED
    BY <1>2, <1>4, <2>2, CountIsPositive
<1>7. m = 0
  <2> HIDE DEF d, m, a
  <2>1. QED
    BY <1>3, <1>4, <1>5, <1>6, CountIsPositive
<1>8. QED
  BY <1>7

\* A number that an int holds is what its digits mean; any other differs from
\* what its digits mean by a multiple of the number of ints.
LEMMA WrappedNumberExact ==
  ASSUME NEW S, NEW v \in Seq(S), NEW base \in {10, 16}, Digits(v, base)
  PROVE  /\ WrappedNumber(v, base) \in Ints
         /\ Number(v, base) <= INT_MAX => WrappedNumber(v, base) = Number(v, base)
         /\ (Number(v, base) - WrappedNumber(v, base)) % CountOfInts = 0
<1>1. \A k \in 1 .. Len(v) : HexValue(v[k]) \in Nat
  BY DEF Digits
<1>2. base \in Nat
  OBVIOUS
<1>3. PICK f \in [0 .. Len(v) -> Nat] :
        /\ Number(v, base) = f[Len(v)]
        /\ f[0] = 0
        /\ \A k \in 1 .. Len(v) : f[k] = f[k - 1] * base + HexValue(v[k])
  BY <1>2, NumberValues
<1>4. PICK w \in [0 .. Len(v) -> Int] :
        /\ WrappedNumber(v, base) = w[Len(v)]
        /\ w[0] = 0
        /\ \A k \in 1 .. Len(v) : w[k] = WrapInt(w[k - 1] * base + HexValue(v[k]))
  BY <1>2, WrappedValues
<1> DEFINE n == Len(v)
<1>5. n \in Nat
  OBVIOUS
<1> HIDE DEF n
<1>6. ASSUME NEW k \in 1 .. n PROVE f[k - 1] <= f[k]
  <2>1. k - 1 \in 0 .. n /\ k \in 0 .. n
    BY <1>5
  <2>2. f[k - 1] \in Nat /\ HexValue(v[k]) \in Nat
    BY <1>1, <2>1 DEF n
  <2>3. f[k] = f[k - 1] * base + HexValue(v[k])
    BY <1>3 DEF n
  <2>4. f[k - 1] <= f[k - 1] * base
    BY <2>2
  <2>5. f[k - 1] * base \in Nat
    BY <1>2, <2>2
  <2>6. QED
    BY <2>2, <2>3, <2>4, <2>5
<1>7. ASSUME f[n] <= INT_MAX PROVE \A k \in 0 .. n : f[k] <= INT_MAX
  <2> DEFINE T == {d \in Nat : d <= n => f[n - d] <= INT_MAX}
  <2>1. 0 \in T
    BY <1>5, <1>7
  <2>2. ASSUME NEW d \in Nat, d \in T PROVE d + 1 \in T
    <3> SUFFICES ASSUME d + 1 <= n PROVE f[n - (d + 1)] <= INT_MAX
      OBVIOUS
    <3>1. PICK k : k = n - d
      OBVIOUS
    <3>2. k \in 1 .. n /\ k - 1 = n - (d + 1) /\ f[k] <= INT_MAX
      BY <1>5, <2>2, <3>1
    <3>3. f[k - 1] \in Nat /\ f[k] \in Nat /\ INT_MAX \in Nat
      BY <1>3, <1>5, <3>2, IntAssumption, SMTT(30) DEF n, IntAssumption
    <3>4. f[k - 1] <= INT_MAX
      BY <1>6, <3>2, <3>3
    <3>5. QED
      BY <3>2, <3>4
  <2>3. \A d \in Nat : d \in T
    <3> HIDE DEF T
    <3>1. QED
      BY <2>1, <2>2, SetInduction
  <2>4. ASSUME NEW k \in 0 .. n PROVE f[k] <= INT_MAX
    <3>1. n - k \in Nat /\ n - k <= n /\ n - (n - k) = k
      BY <1>5
    <3>2. QED
      BY <2>3, <3>1
  <2>5. QED
    BY <2>4
<1>8. ASSUME \A k \in 0 .. n : f[k] <= INT_MAX PROVE \A k \in 0 .. n : w[k] = f[k]
  <2> DEFINE T == {k \in Nat : k <= n => w[k] = f[k]}
  <2>1. 0 \in T
    BY <1>3, <1>4
  <2>2. ASSUME NEW k \in Nat, k \in T PROVE k + 1 \in T
    <3> SUFFICES ASSUME k + 1 <= n PROVE w[k + 1] = f[k + 1]
      OBVIOUS
    <3>1. PICK j : j = k + 1
      OBVIOUS
    <3>2. j \in 1 .. n /\ j - 1 = k /\ w[k] = f[k] /\ f[j] <= INT_MAX
      BY <1>5, <1>8, <2>2, <3>1
    <3>3. w[j] = WrapInt(f[j])
      BY <1>3, <1>4, <3>2 DEF n
    <3>4. f[j] \in 0 .. INT_MAX /\ f[j] \in Int
      <4>1. f[j] \in Nat /\ INT_MAX \in Nat
        BY <1>3, <3>2, IntAssumption DEF n, IntAssumption
      <4>2. QED
        BY <3>2, <4>1
    <3>5. QED
      BY <3>1, <3>3, <3>4, Wrapped
  <2>3. \A k \in Nat : k \in T
    <3> HIDE DEF T
    <3>1. QED
      BY <2>1, <2>2, SetInduction
  <2>4. QED
    BY <1>5, <2>3
<1>9. \A k \in 0 .. n : w[k] \in Ints /\ \E q \in Int : f[k] = w[k] + q * CountOfInts
  <2> DEFINE T == {k \in Nat : k <= n =>
                     w[k] \in Ints /\ \E q \in Int : f[k] = w[k] + q * CountOfInts}
  <2>1. 0 \in T
    <3>1. w[0] = 0 /\ f[0] = 0
      BY <1>3, <1>4
    <3>2. 0 \in Ints /\ 0 = 0 + 0 * CountOfInts
      BY CountIsPositive, IntAssumption DEF IntAssumption, Ints
    <3>3. QED
      BY <3>1, <3>2
  <2>2. ASSUME NEW k \in Nat, k \in T PROVE k + 1 \in T
    <3> SUFFICES ASSUME k + 1 <= n
                 PROVE  /\ w[k + 1] \in Ints
                        /\ \E q \in Int : f[k + 1] = w[k + 1] + q * CountOfInts
      OBVIOUS
    <3>1. PICK i : i = k + 1
      OBVIOUS
    <3>2. i \in 1 .. n /\ i - 1 = k
      BY <1>5, <3>1
    <3>3. f[i] = f[k] * base + HexValue(v[i]) /\ w[i] = WrapInt(w[k] * base + HexValue(v[i]))
      BY <1>3, <1>4, <3>2 DEF n
    <3>4. PICK q \in Int : f[k] = w[k] + q * CountOfInts
      BY <1>5, <2>2
    <3>5. f[k] \in Int /\ w[k] \in Int /\ HexValue(v[i]) \in Int
      <4>1. k \in 0 .. Len(v) /\ i \in 1 .. Len(v)
        BY <1>5, <3>2 DEF n
      <4>2. f[k] \in Nat /\ w[k] \in Int
        BY <4>1
      <4>3. HexValue(v[i]) \in Nat
        BY <1>1, <4>1
      <4>4. QED
        BY <4>2, <4>3
    <3>6. PICK next \in Int : next = w[k] * base + HexValue(v[i])
      BY <1>2, <3>5
    <3>7. PICK j \in Int : next = WrapInt(next) + j * CountOfInts
      BY WrappedCongruent
    <3>8. w[i] = WrapInt(next) /\ w[i] \in Ints
      BY <3>3, <3>6, WrappedCongruent
    <3>9. f[i] = w[i] + (q * base + j) * CountOfInts
      <4>1. w[k] * base + HexValue(v[i]) = w[i] + j * CountOfInts
        BY <3>6, <3>7, <3>8
      <4>2. w[i] \in Int
        BY <3>8, CountIsPositive
      <4>3. PICK number \in Int, int \in Int, digit \in Int, wrapped \in Int :
              number = f[k] /\ int = w[k] /\ digit = HexValue(v[i]) /\ wrapped = w[i]
        BY <3>5, <4>2
      <4>4. number = int + q * CountOfInts /\ int * base + digit = wrapped + j * CountOfInts
        BY <3>4, <4>1, <4>3
      <4>5. number * base + digit = wrapped + (q * base + j) * CountOfInts
        <5>1. PICK c \in Int : c = CountOfInts
          BY CountIsPositive
        <5>2. PICK qc \in Int : qc = q * c
          BY <5>1
        <5>3. PICK jc \in Int : jc = j * c
          BY <5>1
        <5>4. CASE base = 10
          <6>1. (q * 10 + j) * c = 10 * qc + jc
            BY <5>1, <5>2, <5>3
          <6>2. number = int + qc /\ int * 10 + digit = wrapped + jc
            BY <4>4, <5>1, <5>2, <5>3, <5>4
          <6>3. number * 10 + digit = wrapped + 10 * qc + jc
            BY <5>2, <5>3, <6>2
          <6>4. 10 * qc + jc \in Int
            BY <5>2, <5>3
          <6>5. QED
            BY <5>1, <5>2, <5>3, <5>4, <6>1, <6>3, <6>4
        <5>5. CASE base = 16
          <6>1. (q * 16 + j) * c = 16 * qc + jc
            BY <5>1, <5>2, <5>3
          <6>2. number = int + qc /\ int * 16 + digit = wrapped + jc
            BY <4>4, <5>1, <5>2, <5>3, <5>5
          <6>3. number * 16 + digit = wrapped + 16 * qc + jc
            BY <5>2, <5>3, <6>2
          <6>4. QED
            BY <5>1, <5>2, <5>3, <5>5, <6>1, <6>3
        <5>6. QED
          BY <5>4, <5>5
      <4>6. QED
        BY <3>3, <4>3, <4>5
    <3>10. q * base + j \in Int
      BY <1>2
    <3>11. QED
      BY <3>1, <3>8, <3>9, <3>10
  <2>3. \A k \in Nat : k \in T
    <3> HIDE DEF T
    <3>1. QED
      BY <2>1, <2>2, SetInduction
  <2>4. QED
    BY <2>3
<1>10. WrappedNumber(v, base) \in Ints
  BY <1>4, <1>5, <1>9 DEF n
<1>11. ASSUME Number(v, base) <= INT_MAX PROVE WrappedNumber(v, base) = Number(v, base)
  <2>1. f[n] <= INT_MAX
    BY <1>3, <1>11 DEF n
  <2>2. w[n] = f[n]
    BY <1>5, <1>7, <1>8, <2>1
  <2>3. QED
    BY <1>3, <1>4, <2>2 DEF n
<1>12. (Number(v, base) - WrappedNumber(v, base)) % CountOfInts = 0
  <2>1. PICK q \in Int : f[n] = w[n] + q * CountOfInts
    BY <1>5, <1>9
  <2>2. f[n] \in Int /\ w[n] \in Int /\ q * CountOfInts \in Int
    BY <1>3, <1>4, <1>5, CountIsPositive DEF n
  <2>3. f[n] - w[n] = q * CountOfInts
    BY <2>1, <2>2
  <2>4. QED
    BY <1>3, <1>4, <2>3, MultipleLeavesNothing DEF n
<1>13. QED
  BY <1>10, <1>11, <1>12

LEMMA ParsedWithBase ==
  ASSUME NEW S, NEW v \in Seq(S), NEW base \in {10, 16}
  PROVE  LET parsed == ParsePositiveNumberWithBase(v, base)
         IN  /\ parsed \in Int
             /\ ~Digits(v, base) => parsed = -1
             /\ Digits(v, base) =>
                  /\ Number(v, base) <= INT_MAX => parsed = Number(v, base)
                  /\ parsed \in Ints
                  /\ (Number(v, base) - parsed) % CountOfInts = 0
<1>1. CASE Digits(v, base)
  <2>1. ParsePositiveNumberWithBase(v, base) = WrappedNumber(v, base)
    BY <1>1 DEF Digits, ParsePositiveNumberWithBase
  <2>2. QED
    BY <1>1, <2>1, WrappedNumberExact, CountIsPositive
<1>2. CASE ~Digits(v, base)
  BY <1>2 DEF Digits, ParsePositiveNumberWithBase
<1>3. QED
  BY <1>1, <1>2

\* A part of a view is a view.
LEMMA PartOfView ==
  ASSUME NEW S, NEW v \in Seq(S), NEW a \in Nat, NEW b \in Nat, b <= Len(v)
  PROVE  /\ SubSeq(v, a + 1, b) \in Seq(S)
         /\ a <= b => Len(SubSeq(v, a + 1, b)) = b - a
         /\ a > b => SubSeq(v, a + 1, b) = <<>>
         /\ \A i \in 1 .. b - a : SubSeq(v, a + 1, b)[i] = v[a + i]
  OBVIOUS

\* What ParseExact says, of any view; and the result is always an int.
LEMMA Parsed ==
  ASSUME NEW S, NEW v \in Seq(S)
  PROVE  LET hex    == IsPrefix(<<"0", "x">>, v)
             digits == IF hex THEN SubSeq(v, 3, Len(v)) ELSE v
             base   == IF hex THEN 16 ELSE 10
         IN  /\ ParsePositiveNumber(v) \in Int
             /\ IF v # <<>> /\ Digits(digits, base)
                THEN /\ Number(digits, base) <= INT_MAX =>
                          ParsePositiveNumber(v) = Number(digits, base)
                     /\ ParsePositiveNumber(v) \in Ints
                     /\ (Number(digits, base) - ParsePositiveNumber(v)) % CountOfInts = 0
                ELSE ParsePositiveNumber(v) = -1
<1>1. CASE v = <<>>
  BY <1>1 DEF ParsePositiveNumber
<1>2. CASE v # <<>> /\ IsPrefix(<<"0", "x">>, v)
  <2>1. Len(v) >= 2
    BY <1>2 DEF IsPrefix
  <2>2. PopFront(v, 2) = SubSeq(v, 3, Len(v))
    BY <2>1 DEF PopFront
  <2>3. SubSeq(v, 3, Len(v)) \in Seq(S)
    BY <2>1, PartOfView, 2 + 1 = 3, Len(v) \in Nat
  <2>4. ParsePositiveNumber(v) = ParsePositiveNumberWithBase(SubSeq(v, 3, Len(v)), 16)
    BY <1>2, <2>2 DEF ParsePositiveNumber, StartsWith
  <2>5. QED
    BY <1>2, <2>3, <2>4, ParsedWithBase
<1>3. CASE v # <<>> /\ ~IsPrefix(<<"0", "x">>, v)
  <2>1. ParsePositiveNumber(v) = ParsePositiveNumberWithBase(v, 10)
    BY <1>3 DEF ParsePositiveNumber, StartsWith
  <2>2. QED
    BY <1>3, <2>1, ParsedWithBase
<1>4. QED
  BY <1>1, <1>2, <1>3

-------------------------------------------------------------------------------
\* All views are sequences of the characters of their test.
ViewOK == test \in Tests /\ view \in Seq(test.chars)

LEMMA ViewsOK == EveryView => []ViewOK
<1>1. AnyTest => ViewOK
  BY DEF AnyTest, ViewOK
<1>2. ViewOK /\ [Longer]_texts => ViewOK'
  BY DEF ViewOK, Longer, Extend, texts
<1>3. QED
  BY <1>1, <1>2, PTL DEF EveryView

\* Every number that an int can hold is parsed right, every larger one wraps
\* around to an int, and what is not a number gives -1 (ParseExact), for every
\* view and size of int.
THEOREM ParseExactCorrect == EveryView => []ParseExact
<1>1. ViewOK => ParseExact
  BY Parsed DEF ViewOK, ParseExact, Ints, CountOfInts
<1>2. QED
  BY <1>1, ViewsOK, PTL

-------------------------------------------------------------------------------
(* Copies.                                                                 *)

\* How many characters of v fit a buffer of some size with their terminator.
Fitting(v, size) == IF Len(v) > size - 1 THEN size - 1 ELSE Len(v)

\* What a copy of v in a buffer of some size begins with.
IsCopy(out, v, size) ==
  LET n == Fitting(v, size)
  IN  /\ Len(out) = size
      /\ n \in 0 .. size - 1 /\ n <= Len(v)
      /\ \A i \in 1 .. n : out[i] = v[i]
      /\ out[n + 1] = NUL

LEMMA Copied ==
  ASSUME NEW S, NEW v \in Seq(S), NEW D, NEW dst \in Seq(D), Len(dst) > 0
  PROVE  /\ CopyString(v, dst) \in Seq(S \cup D \cup {NUL})
         /\ IsCopy(CopyString(v, dst), v, Len(dst))
<1> DEFINE out == CopyString(v, dst)
<1>1. PICK n, size : n = Fitting(v, size) /\ size = Len(dst)
  OBVIOUS
<1>2. n \in 0 .. size - 1 /\ n <= Len(v) /\ Len(v) \in Nat /\ size \in Nat
  BY <1>1 DEF Fitting
<1>3. out = [i \in 1 .. size |-> IF i <= n THEN v[i]
                                 ELSE IF i = n + 1 THEN NUL ELSE dst[i]]
  BY <1>1 DEF CopyString, Fitting
<1>4. \A i \in 1 .. size : out[i] \in S \cup D \cup {NUL}
  BY <1>1, <1>2, <1>3
<1>5. out \in [1 .. size -> S \cup D \cup {NUL}]
  BY <1>3, <1>4
<1>6. (\A i \in 1 .. n : out[i] = v[i]) /\ out[n + 1] = NUL
  BY <1>2, <1>3
<1>7. out \in Seq(S \cup D \cup {NUL}) /\ Len(out) = size
  <2> HIDE DEF out
  <2>1. QED
    BY <1>2, <1>5
<1>8. QED
  BY <1>1, <1>2, <1>6, <1>7 DEF IsCopy

\* The terminator is the first NUL, unless there was one in v.
LEMMA CopyEnds ==
  ASSUME NEW S, NEW v \in Seq(S), NEW size \in Nat, NEW out, IsCopy(out, v, size)
  PROVE  LET ends == {i \in 1 .. size : out[i] = NUL}
         IN  /\ ends # {}
             /\ NUL \notin ToSet(v) => Min(ends) = Fitting(v, size) + 1
<1> DEFINE n   == Fitting(v, size)
           ends == {i \in 1 .. size : out[i] = NUL}
<1>1. /\ n \in 0 .. size - 1 /\ n <= Len(v)
      /\ \A i \in 1 .. n : out[i] = v[i]
      /\ out[n + 1] = NUL
  BY DEF IsCopy
<1> HIDE DEF n
<1>2. n + 1 \in ends
  BY <1>1
<1>3. ASSUME NUL \notin ToSet(v) PROVE Min(ends) = n + 1
  <2>1. \A i \in 1 .. n : v[i] \in ToSet(v)
    BY <1>1 DEF ToSet
  <2>2. \A i \in 1 .. n : out[i] # NUL
    BY <1>1, <1>3, <2>1
  <2>3. \A i \in ends : n + 1 <= i
    BY <1>1, <2>2
  <2>4. ends \subseteq Int
    OBVIOUS
  <2> HIDE DEF ends
  <2>5. QED
    BY <1>2, <2>3, <2>4, MinIs
<1>4. QED
  BY <1>2, <1>3 DEF n

\* CopyString leaves a terminated string inside its buffer (CopyTerminates), for
\* every view and size of buffer.
THEOREM CopyTerminatesCorrect == EveryView => []CopyTerminates
<1>1. ViewOK => CopyTerminates
  <2> SUFFICES ASSUME ViewOK, DstSize > 0 PROVE CopyTerminates
    BY DEF CopyTerminates
  <2> DEFINE dst == [i \in 1 .. DstSize |-> "?"]
             out == CopyString(view, dst)
             ends == {i \in 1 .. Len(out) : out[i] = NUL}
             n == Fitting(view, DstSize)
  <2>1. view \in Seq(test.chars) /\ DstSize \in Nat \ {0}
    BY ViewsAssumption DEF ViewOK, ViewsAssumption
  <2>2. dst \in Seq({"?"}) /\ Len(dst) = DstSize
    <3>1. dst \in [1 .. DstSize -> {"?"}]
      OBVIOUS
    <3> HIDE DEF dst
    <3>2. QED
      BY <2>1, <3>1
  <2>3. /\ Len(out) = DstSize
        /\ n \in 0 .. DstSize - 1 /\ n <= Len(view)
        /\ \A i \in 1 .. n : out[i] = view[i]
        /\ out \in Seq(test.chars \cup {"?"} \cup {NUL})
        /\ ends # {} /\ (NUL \notin ToSet(view) => Min(ends) = n + 1)
    <3> HIDE DEF dst
    <3>1. out \in Seq(test.chars \cup {"?"} \cup {NUL}) /\ IsCopy(out, view, DstSize)
      BY <2>1, <2>2, Copied
    <3> HIDE DEF out
    <3> DEFINE places == {i \in 1 .. DstSize : out[i] = NUL}
    <3>2. places # {} /\ (NUL \notin ToSet(view) => Min(places) = n + 1)
      BY <2>1, <3>1, CopyEnds, Zenon
    <3>3. QED
      BY <3>1, <3>2 DEF IsCopy
  <2>4. SelectInSeq(out, LAMBDA c : c = NUL) = Min(ends)
    <3> HIDE DEF out
    <3>1. QED
      BY <2>3 DEF SelectInSeq
  <2>5. Min(ends) > 0
    <3>1. ends \subseteq Nat /\ \A e \in ends : e > 0
      BY <2>1, <2>3
    <3> HIDE DEF ends
    <3>2. QED
      BY <2>3, <3>1, MinOf
  <2>6. n = Min({Len(view), DstSize - 1})
    <3> DEFINE two == {Len(view), DstSize - 1}
    <3>1. n \in two /\ two \subseteq Int /\ \A m \in two : n <= m
      BY <2>1 DEF Fitting
    <3> HIDE DEF n, two
    <3>2. Min(two) = n
      BY <3>1, MinIs
    <3>3. QED
      BY <3>2 DEF two
  <2>7. IsPrefix(SubSeq(out, 1, n), view)
    <3> HIDE DEF out, n
    <3>1. SubSeq(out, 1, n) = SubSeq(view, 1, n) /\ Len(SubSeq(out, 1, n)) = n
      BY <2>1, <2>3
    <3>2. QED
      BY <2>1, <2>3, <3>1 DEF IsPrefix
  <2>8. QED
    BY <2>3, <2>4, <2>5, <2>6, <2>7 DEF CopyTerminates
<1>2. QED
  BY <1>1, ViewsOK, PTL

-------------------------------------------------------------------------------
(* Searches.                                                               *)

\* IndexOfChar finds the first c, unless there is a NUL before it.
LEMMA CharFound ==
  ASSUME NEW S, NEW v \in Seq(S), NEW c
  PROVE  \/ /\ IndexOfChar(v, c) = -1
            /\ \A k \in 1 .. Len(v) : v[k] = c => \E j \in 1 .. k - 1 : v[j] = NUL
         \/ \E k \in 1 .. Len(v) :
              /\ IndexOfChar(v, c) = k - 1 /\ v[k] = c
              /\ \A j \in 1 .. k - 1 : v[j] \notin {c, NUL}
<1> DEFINE I == {k \in 1 .. Len(v) : v[k] \in {c, NUL}}
           stop == IF I # {} THEN Min(I) ELSE 0
<1>1. IndexOfChar(v, c) = IF stop > 0 /\ v[stop] = c THEN stop - 1 ELSE -1
  BY DEF IndexOfChar, SelectInSeq
<1>2. CASE I = {}
  <2>1. IndexOfChar(v, c) = -1
    BY <1>1, <1>2
  <2>2. \A k \in 1 .. Len(v) : v[k] # c
    BY <1>2
  <2>3. QED
    BY <2>1, <2>2
<1>3. CASE I # {}
  <2>1. I \subseteq Nat
    OBVIOUS
  <2>2. PICK k : k = Min(I)
    OBVIOUS
  <2>3. k \in I /\ \A j \in I : k <= j
    <3> HIDE DEF I
    <3>1. QED
      BY <1>3, <2>1, <2>2, MinOf
  <2>4. /\ k \in 1 .. Len(v) /\ v[k] \in {c, NUL}
        /\ \A j \in 1 .. k - 1 : v[j] \notin {c, NUL}
    BY <2>3
  <2>5. IndexOfChar(v, c) = IF v[k] = c THEN k - 1 ELSE -1
    BY <1>1, <1>3, <2>2, <2>4
  <2>6. CASE v[k] = c
    BY <2>4, <2>5, <2>6
  <2>7. CASE v[k] # c
    <3>1. v[k] = NUL /\ IndexOfChar(v, c) = -1
      BY <2>4, <2>5, <2>7
    <3>2. \A i \in 1 .. Len(v) : v[i] = c => k \in 1 .. i - 1
      BY <2>3, <2>4, <2>7
    <3>3. QED
      BY <3>1, <3>2
  <2>8. QED
    BY <2>6, <2>7
<1>4. QED
  BY <1>2, <1>3

\* What is left of a view behind its first s characters.
LEMMA Popped ==
  ASSUME NEW S, NEW v \in Seq(S), NEW s \in Nat
  PROVE  /\ PopFront(v, s) \in Seq(S)
         /\ s > Len(v) => Len(PopFront(v, s)) = 0
         /\ s <= Len(v) => /\ Len(PopFront(v, s)) = Len(v) - s
                           /\ \A i \in 1 .. Len(v) - s : PopFront(v, s)[i] = v[s + i]
  BY DEF PopFront, kEmptyStringView

LEMMA PoppedTwice ==
  ASSUME NEW S, NEW v \in Seq(S), NEW s \in Nat, NEW t \in Nat, s + t <= Len(v)
  PROVE  PopFront(PopFront(v, s), t) = PopFront(v, s + t)
<1> DEFINE a == PopFront(v, s)
           b == PopFront(a, t)
           c == PopFront(v, s + t)
<1>1. /\ s <= Len(v) /\ s + t \in Nat /\ Len(v) \in Nat
      /\ t <= Len(v) - s /\ (Len(v) - s) - t = Len(v) - (s + t)
  OBVIOUS
<1>2. /\ a \in Seq(S) /\ Len(a) = Len(v) - s
      /\ \A i \in 1 .. Len(v) - s : a[i] = v[s + i]
  BY <1>1, Popped
<1> HIDE DEF a
<1>3. /\ b \in Seq(S) /\ Len(b) = Len(v) - (s + t)
      /\ \A i \in 1 .. Len(v) - (s + t) : b[i] = a[t + i]
  <2>1. t <= Len(a) /\ Len(a) - t = Len(v) - (s + t)
    BY <1>1, <1>2
  <2>2. /\ b \in Seq(S) /\ Len(b) = Len(a) - t
        /\ \A i \in 1 .. Len(a) - t : b[i] = a[t + i]
    BY <1>2, <2>1, Popped
  <2> HIDE DEF b
  <2>3. QED
    BY <2>1, <2>2
<1>4. /\ c \in Seq(S) /\ Len(c) = Len(v) - (s + t)
      /\ \A i \in 1 .. Len(v) - (s + t) : c[i] = v[(s + t) + i]
  BY <1>1, Popped
<1> HIDE DEF b, c
<1>5. \A i \in 1 .. Len(v) - (s + t) :
        t + i \in 1 .. Len(v) - s /\ s + (t + i) = (s + t) + i
  BY <1>1
<1>6. \A i \in 1 .. Len(b) : b[i] = c[i]
  BY <1>2, <1>3, <1>4, <1>5, ZenonT(30)
<1>7. b = c
  BY <1>3, <1>4, <1>6, SeqEqual
<1>8. QED
  BY <1>7 DEF a, b, c

\* StartsWith, as an occurrence in the whole view.
LEMMA StartsAt ==
  ASSUME NEW S, NEW v \in Seq(S), NEW sub \in Seq(S), sub # <<>>,
         NEW p \in Nat, p <= Len(v)
  PROVE  StartsWith(PopFront(v, p), sub) <=> p \in Occurrences(v, sub)
<1> DEFINE rest == PopFront(v, p)
           m == Len(sub)
<1>1. rest \in Seq(S) /\ Len(rest) = Len(v) - p /\ m \in Nat /\ Len(v) \in Nat
  BY Popped
<1>2. SubSeq(sub, 1, m) = sub
  OBVIOUS
<1>3. m <= Len(v) - p => SubSeq(rest, 1, m) = SubSeq(v, p + 1, p + m)
  BY DEF PopFront
<1> HIDE DEF rest, m
<1>4. StartsWith(rest, sub) <=> m <= Len(v) - p /\ sub = SubSeq(rest, 1, m)
  BY <1>1, <1>2 DEF StartsWith, IsPrefix, m
<1>5. p \in Occurrences(v, sub) <=> p \in 0 .. Len(v) - m /\ SubSeq(v, p + 1, p + m) = sub
  BY DEF Occurrences, m
<1>6. p \in 0 .. Len(v) - m <=> m <= Len(v) - p
  BY <1>1
<1>7. QED
  BY <1>3, <1>4, <1>5, <1>6 DEF rest

\* The first character of an occurrence.
LEMMA OccurrenceBegins ==
  ASSUME NEW S, NEW v \in Seq(S), NEW sub \in Seq(S), sub # <<>>,
         NEW p \in Occurrences(v, sub)
  PROVE  /\ p \in Nat /\ p + Len(sub) <= Len(v) /\ p + 1 \in 1 .. Len(v)
         /\ v[p + 1] = sub[1]
<1>1. /\ p \in Nat /\ p + Len(sub) <= Len(v) /\ p + 1 \in 1 .. Len(v)
      /\ Len(sub) >= 1
      /\ SubSeq(v, p + 1, p + Len(sub)) = sub
  BY DEF Occurrences
<1>2. SubSeq(v, p + 1, p + Len(sub))[1] = v[p + 1]
  BY <1>1
<1>3. QED
  BY <1>1, <1>2

\* The occurrences that a search from s on comes to: no NUL stops it.
Reached(v, sub, s) ==
  {p \in Occurrences(v, sub) : s <= p /\ \A j \in s + 1 .. p : v[j] # NUL}

\* A word that does not begin with NUL, or a view without NUL.
Searchable(v, sub) == sub # <<>> /\ (sub[1] # NUL \/ \A j \in 1 .. Len(v) : v[j] # NUL)

\* One turn of the loop of IndexOf: what it passes is no occurrence.
LEMMA Jump ==
  ASSUME NEW S, NEW v \in Seq(S), NEW sub \in Seq(S), Searchable(v, sub), NEW s \in Nat
  PROVE  LET remainder == PopFront(v, s)
             found     == IndexOfChar(remainder, sub[1])
         IN  /\ Len(remainder) < Len(sub) \/ found < 0 => Reached(v, sub, s) = {}
             /\ ~(Len(remainder) < Len(sub) \/ found < 0) =>
                  /\ found \in Nat /\ s + found < Len(v)
                  /\ StartsWith(PopFront(remainder, found), sub) =>
                       /\ s + found \in Reached(v, sub, s)
                       /\ \A q \in Reached(v, sub, s) : s + found <= q
                  /\ ~StartsWith(PopFront(remainder, found), sub) =>
                       Reached(v, sub, s) = Reached(v, sub, s + found + 1)
<1> DEFINE remainder == PopFront(v, s)
           c == sub[1]
           found == IndexOfChar(remainder, c)
<1>1. /\ remainder \in Seq(S) /\ Len(v) \in Nat /\ Len(sub) \in Nat \ {0}
      /\ s > Len(v) => Len(remainder) = 0
      /\ s <= Len(v) => /\ Len(remainder) = Len(v) - s
                        /\ \A i \in 1 .. Len(v) - s : remainder[i] = v[s + i]
  <2>1. Len(v) \in Nat /\ Len(sub) \in Nat \ {0}
    BY DEF Searchable
  <2>2. QED
    BY <2>1, Popped, Zenon
<1>2. \A q \in Occurrences(v, sub) :
        /\ q \in Nat /\ q + Len(sub) <= Len(v) /\ q + 1 \in 1 .. Len(v)
        /\ v[q + 1] = c
  BY OccurrenceBegins DEF Searchable
<1>3. \/ /\ found = -1
         /\ \A k \in 1 .. Len(remainder) :
              remainder[k] = c => \E j \in 1 .. k - 1 : remainder[j] = NUL
      \/ \E k \in 1 .. Len(remainder) :
           /\ found = k - 1 /\ remainder[k] = c
           /\ \A j \in 1 .. k - 1 : remainder[j] \notin {c, NUL}
  BY <1>1, CharFound
<1> HIDE DEF remainder, found, c
<1>4. ASSUME Len(remainder) < Len(sub) PROVE Reached(v, sub, s) = {}
  <2> SUFFICES ASSUME NEW q \in Occurrences(v, sub), s <= q PROVE FALSE
    BY DEF Reached
  <2>1. q \in Nat /\ q + Len(sub) <= Len(v) /\ s <= Len(v)
    BY <1>1, <1>2
  <2>2. QED
    BY <1>1, <1>4, <2>1
<1>5. ASSUME Len(remainder) >= Len(sub) PROVE s <= Len(v)
  BY <1>1, <1>5
<1>6. ASSUME Len(remainder) >= Len(sub), found < 0 PROVE Reached(v, sub, s) = {}
  <2> SUFFICES ASSUME NEW q \in Reached(v, sub, s) PROVE FALSE
    OBVIOUS
  <2>1. /\ q \in Nat /\ s <= q /\ q + 1 \in 1 .. Len(v) /\ v[q + 1] = c
        /\ \A j \in s + 1 .. q : v[j] # NUL
    BY <1>2 DEF Reached
  <2>2. PICK k : k = q + 1 - s
    OBVIOUS
  <2>3. k \in 1 .. Len(v) - s /\ s + k = q + 1
    BY <1>1, <2>1, <2>2
  <2>4. k \in 1 .. Len(remainder) /\ remainder[k] = c
    BY <1>1, <1>5, <1>6, <2>1, <2>3
  <2>5. PICK j \in 1 .. k - 1 : remainder[j] = NUL
    BY <1>3, <1>6, <2>4
  <2>6. s + j \in s + 1 .. q /\ j \in 1 .. Len(v) - s
    BY <2>1, <2>3
  <2>7. QED
    BY <1>1, <1>5, <1>6, <2>1, <2>5, <2>6
<1>7. ASSUME Len(remainder) >= Len(sub), ~(found < 0)
      PROVE  /\ found \in Nat /\ s + found < Len(v) /\ v[s + found + 1] = c
             /\ \A j \in s + 1 .. s + found : v[j] \notin {c, NUL}
  <2>1. PICK k \in 1 .. Len(remainder) :
          /\ found = k - 1 /\ remainder[k] = c
          /\ \A j \in 1 .. k - 1 : remainder[j] \notin {c, NUL}
    BY <1>3, <1>7
  <2>2. /\ Len(remainder) = Len(v) - s
        /\ \A i \in 1 .. Len(v) - s : remainder[i] = v[s + i]
    BY <1>1, <1>5, <1>7
  <2>3. /\ found \in Nat /\ s + found < Len(v) /\ s + k = s + found + 1
        /\ k \in 1 .. Len(v) - s
    BY <1>1, <2>1, <2>2
  <2>4. v[s + found + 1] = c
    BY <2>1, <2>2, <2>3
  <2>5. ASSUME NEW j \in s + 1 .. s + found PROVE v[j] \notin {c, NUL}
    <3>1. PICK i : i = j - s
      OBVIOUS
    <3>2. i \in 1 .. k - 1 /\ i \in 1 .. Len(v) - s /\ s + i = j
      BY <1>1, <2>1, <2>3, <3>1
    <3>3. QED
      BY <2>1, <2>2, <3>2
  <2>6. QED
    BY <2>3, <2>4, <2>5
<1>8. ASSUME Len(remainder) >= Len(sub), ~(found < 0)
      PROVE  \A q \in Reached(v, sub, s) : s + found <= q
  <2> SUFFICES ASSUME NEW q \in Reached(v, sub, s), ~(s + found <= q) PROVE FALSE
    OBVIOUS
  <2>1. q \in Nat /\ s <= q /\ v[q + 1] = c
    BY <1>2 DEF Reached
  <2>2. q + 1 \in s + 1 .. s + found
    BY <1>7, <1>8, <2>1
  <2>3. QED
    BY <1>7, <1>8, <2>1, <2>2
<1>9. ASSUME Len(remainder) >= Len(sub), ~(found < 0)
      PROVE  StartsWith(PopFront(remainder, found), sub) <=> s + found \in Occurrences(v, sub)
  <2>1. /\ found \in Nat /\ s + found \in Nat /\ s + found <= Len(v)
    BY <1>1, <1>7, <1>9
  <2>2. PopFront(remainder, found) = PopFront(v, s + found)
    BY <2>1, PoppedTwice DEF remainder
  <2>3. QED
    BY <2>1, <2>2, StartsAt DEF Searchable
<1>10. ASSUME Len(remainder) >= Len(sub), ~(found < 0), s + found \in Occurrences(v, sub)
       PROVE  s + found \in Reached(v, sub, s)
  BY <1>7, <1>10 DEF Reached
<1>11. ASSUME Len(remainder) >= Len(sub), ~(found < 0), s + found \notin Occurrences(v, sub)
       PROVE  Reached(v, sub, s) = Reached(v, sub, s + found + 1)
  <2>1. /\ found \in Nat /\ s + found < Len(v) /\ v[s + found + 1] = c
        /\ \A j \in s + 1 .. s + found : v[j] \notin {c, NUL}
    BY <1>7, <1>11
  <2>2. c # NUL
    <3>1. s + found + 1 \in 1 .. Len(v)
      BY <1>1, <2>1
    <3>2. QED
      BY <2>1, <3>1 DEF Searchable, c
  <2>3. ASSUME NEW q \in Reached(v, sub, s) PROVE q \in Reached(v, sub, s + found + 1)
    <3>1. /\ q \in Occurrences(v, sub) /\ q \in Nat /\ s + found <= q /\ q # s + found
          /\ \A j \in s + 1 .. q : v[j] # NUL
      BY <1>2, <1>8, <1>11 DEF Reached
    <3>2. s + found + 1 <= q
      BY <2>1, <3>1
    <3>3. \A j \in (s + found + 1) + 1 .. q : j \in s + 1 .. q
      BY <2>1
    <3>4. QED
      BY <3>1, <3>2, <3>3 DEF Reached
  <2>4. ASSUME NEW q \in Reached(v, sub, s + found + 1) PROVE q \in Reached(v, sub, s)
    <3>1. /\ q \in Occurrences(v, sub) /\ q \in Nat /\ s + found + 1 <= q
          /\ \A j \in (s + found + 1) + 1 .. q : v[j] # NUL
      BY <1>2 DEF Reached
    <3>2. ASSUME NEW j \in s + 1 .. q PROVE v[j] # NUL
      <4>1. \/ j \in s + 1 .. s + found \/ j = s + found + 1
            \/ j \in (s + found + 1) + 1 .. q
        BY <2>1
      <4>2. QED
        BY <2>1, <2>2, <3>1, <4>1
    <3>3. s <= q
      BY <2>1, <3>1
    <3>4. QED
      BY <3>1, <3>2, <3>3 DEF Reached
  <2>5. QED
    BY <2>3, <2>4
<1>12. Len(remainder) < Len(sub) \/ Len(remainder) >= Len(sub)
  BY <1>1
<1>13. QED
  BY <1>4, <1>6, <1>7, <1>8, <1>9, <1>10, <1>11, <1>12 DEF remainder, found, c

\* The first of some places, or -1.
First(R) == IF R = {} THEN -1 ELSE Min(R)

LEMMA FirstReached ==
  ASSUME NEW S, NEW v \in Seq(S), NEW sub \in Seq(S), sub # <<>>, NEW s \in Nat,
         NEW m \in Reached(v, sub, s), \A q \in Reached(v, sub, s) : m <= q
  PROVE  First(Reached(v, sub, s)) = m
<1>1. Reached(v, sub, s) \subseteq Int
  BY OccurrenceBegins DEF Reached
<1>2. QED
  BY <1>1, MinIs DEF First

\* IndexOf finds the first occurrence, unless there is a NUL before it.
LEMMA WordFound ==
  ASSUME NEW S, NEW v \in Seq(S), NEW sub \in Seq(S), Searchable(v, sub)
  PROVE  IndexOf(v, sub) = First(Reached(v, sub, 0))
<1> DEFINE remainder(s) == PopFront(v, s)
           found(s) == IndexOfChar(remainder(s), sub[1])
           Ends(s) == Len(remainder(s)) < Len(sub) \/ found(s) < 0
           Hit(s) == StartsWith(PopFront(remainder(s), found(s)), sub)
           Runs(f) == f = [s \in Nat |-> IF Ends(s) THEN -1
                                         ELSE IF Hit(s) THEN s + found(s)
                                         ELSE f[s + found(s) + 1]]
           from == CHOOSE f : Runs(f)
           R(s) == Reached(v, sub, s)
           target == [s \in Nat |-> First(R(s))]
<1>1. sub # <<>>
  BY DEF Searchable
<1>2. IndexOf(v, sub) = from[0]
  BY <1>1 DEF IndexOf
<1>3. ASSUME NEW s \in Nat
      PROVE  /\ Ends(s) => First(R(s)) = -1
             /\ ~Ends(s) => found(s) \in Nat /\ s + found(s) < Len(v)
             /\ ~Ends(s) /\ Hit(s) => First(R(s)) = s + found(s)
             /\ ~Ends(s) /\ ~Hit(s) => First(R(s)) = First(R(s + found(s) + 1))
  <2>1. /\ Ends(s) => R(s) = {}
        /\ ~Ends(s) =>
             /\ found(s) \in Nat /\ s + found(s) < Len(v)
             /\ Hit(s) => s + found(s) \in R(s) /\ \A q \in R(s) : s + found(s) <= q
             /\ ~Hit(s) => R(s) = R(s + found(s) + 1)
    BY Jump, Zenon
  <2> HIDE DEF Ends, Hit, found
  <2>2. ASSUME ~Ends(s), Hit(s) PROVE First(R(s)) = s + found(s)
    BY <1>1, <2>1, <2>2, FirstReached
  <2> HIDE DEF R
  <2>3. QED
    BY <2>1, <2>2 DEF First
<1> HIDE DEF Ends, Hit, found, R
<1>4. Runs(target)
  <2>1. ASSUME NEW s \in Nat
        PROVE  target[s] = IF Ends(s) THEN -1 ELSE IF Hit(s) THEN s + found(s)
                           ELSE target[s + found(s) + 1]
    <3>1. ~Ends(s) => s + found(s) + 1 \in Nat
      BY <1>3
    <3>2. QED
      BY <1>3, <3>1
  <2>2. QED
    BY <2>1
<1>5. Runs(from)
  BY <1>4
<1>6. \A s \in Nat : from[s] = IF Ends(s) THEN -1 ELSE IF Hit(s) THEN s + found(s)
                               ELSE from[s + found(s) + 1]
  <2> HIDE DEF from
  <2>1. QED
    BY <1>5
<1> HIDE DEF from
<1>7. \A s \in Nat : from[s] = First(R(s))
  <2> DEFINE Bad == {s \in Nat : from[s] # First(R(s))}
             Left == {Len(v) - s : s \in Bad}
  <2>1. ASSUME NEW s \in Bad PROVE s < Len(v) /\ \E t \in Bad : s < t
    <3>1. s \in Nat /\ ~Ends(s) /\ ~Hit(s)
      BY <1>3, <1>6
    <3>2. PICK t : t = s + found(s) + 1
      OBVIOUS
    <3>3. found(s) \in Nat /\ s + found(s) < Len(v) /\ Len(v) \in Nat
      BY <1>3, <3>1
    <3>4. t \in Nat /\ s < t /\ s < Len(v)
      BY <3>1, <3>2, <3>3
    <3>5. from[s] = from[t] /\ First(R(s)) = First(R(t))
      BY <1>3, <1>6, <3>1, <3>2
    <3>6. QED
      BY <3>4, <3>5
  <2>2. Left \subseteq Nat
    BY <2>1
  <2>3. ASSUME Left # {} PROVE FALSE
    <3>1. PICK least \in Left : \A x \in Left : least <= x
      <4> HIDE DEF Left
      <4>1. QED
        BY <2>2, <2>3, LeastOf
    <3>2. PICK s \in Bad : least = Len(v) - s
      OBVIOUS
    <3>3. PICK t \in Bad : s < t
      BY <2>1
    <3>4. Len(v) - t \in Left /\ s \in Nat /\ t \in Nat /\ Len(v) \in Nat
      OBVIOUS
    <3>5. least <= Len(v) - t
      BY <3>1, <3>4
    <3>6. QED
      BY <3>2, <3>3, <3>4, <3>5
  <2>4. QED
    BY <2>3
<1>8. QED
  BY <1>2, <1>7 DEF R

-------------------------------------------------------------------------------
(* Keys and values.                                                        *)

\* Nothing is left of white space around a view.
LEMMA TrimmedEnds ==
  ASSUME NEW S, NEW v \in Seq(S)
  PROVE  LET t == TrimWhitespace(v)
         IN  t = <<>> \/ (t[1] \notin Spaces /\ Last(t) \notin Spaces)
<1> DEFINE I == {i \in 1 .. Len(v) : v[i] \notin Spaces}
<1>1. CASE I = {}
  BY <1>1 DEF TrimWhitespace, SelectInSeq
<1>2. CASE I # {}
  <2>1. PICK a, b : a = Min(I) /\ b = Max(I)
    OBVIOUS
  <2>2. a \in I /\ b \in I /\ a <= b
    <3>1. I \subseteq Nat /\ I \subseteq 0 .. Len(v) /\ Len(v) \in Nat
      OBVIOUS
    <3> HIDE DEF I
    <3>2. QED
      BY <1>2, <2>1, <3>1, MinOf, MaxOf
  <2>3. TrimWhitespace(v) = IF a = 0 THEN <<>> ELSE SubSeq(v, a, b)
    BY <1>2, <2>1 DEF TrimWhitespace, SelectInSeq, SelectLastInSeq
  <2>4. /\ a \in 1 .. Len(v) /\ b \in a .. Len(v)
        /\ v[a] \notin Spaces /\ v[b] \notin Spaces
    BY <2>2
  <2>5. PICK t : t = SubSeq(v, a, b)
    OBVIOUS
  <2>6. /\ Len(t) = b - a + 1 /\ t[1] = v[a] /\ t[b - a + 1] = v[b]
    BY <2>4, <2>5
  <2>7. TrimWhitespace(v) = t
    BY <2>3, <2>4, <2>5
  <2>8. QED
    BY <2>4, <2>6, <2>7 DEF Last
<1>3. QED
  BY <1>1, <1>2

\* What BeforeNul keeps.
LEMMA KeptBeforeNul ==
  ASSUME NEW S, NEW v \in Seq(S)
  PROVE  \E n \in 0 .. Len(v) :
           /\ BeforeNul(v) = SubSeq(v, 1, n)
           /\ \A j \in 1 .. n : v[j] # NUL
           /\ n < Len(v) => v[n + 1] = NUL
<1> DEFINE I == {i \in 1 .. Len(v) : v[i] = NUL}
<1>1. CASE I = {}
  <2>1. BeforeNul(v) = v
    BY <1>1 DEF BeforeNul, SelectInSeq
  <2>2. v = SubSeq(v, 1, Len(v)) /\ Len(v) \in 0 .. Len(v)
    OBVIOUS
  <2>3. \A j \in 1 .. Len(v) : v[j] # NUL
    BY <1>1
  <2>4. ~(Len(v) < Len(v))
    OBVIOUS
  <2>5. QED
    BY <2>1, <2>2, <2>3, <2>4, Zenon
<1>2. CASE I # {}
  <2>1. PICK m : m = Min(I)
    OBVIOUS
  <2>2. m \in I /\ \A j \in I : m <= j
    <3>1. I \subseteq Nat
      OBVIOUS
    <3> HIDE DEF I
    <3>2. QED
      BY <1>2, <2>1, <3>1, MinOf
  <2>3. BeforeNul(v) = IF m = 0 THEN v ELSE KeepFront(v, m - 1)
    BY <1>2, <2>1 DEF BeforeNul, SelectInSeq
  <2>4. PICK n : n = m - 1
    OBVIOUS
  <2>5. /\ n \in 0 .. Len(v) /\ v[n + 1] = NUL /\ m # 0
        /\ \A j \in 1 .. n : v[j] # NUL
    BY <2>2, <2>4
  <2>6. BeforeNul(v) = SubSeq(v, 1, n)
    BY <2>3, <2>4, <2>5 DEF KeepFront
  <2>7. QED
    BY <2>5, <2>6
<1>3. QED
  BY <1>1, <1>2

\* A word without NUL is reached wherever it occurs before the first NUL.
LEMMA ReachedBeforeNul ==
  ASSUME NEW S, NEW v \in Seq(S), NEW sub \in Seq(S), \A k \in 1 .. Len(sub) : sub[k] # NUL
  PROVE  Reached(v, sub, 0) = Occurrences(BeforeNul(v), sub)
<1>1. PICK n \in 0 .. Len(v) :
        /\ BeforeNul(v) = SubSeq(v, 1, n)
        /\ \A j \in 1 .. n : v[j] # NUL
        /\ n < Len(v) => v[n + 1] = NUL
  BY KeptBeforeNul
<1> DEFINE m == Len(sub)
           w == SubSeq(v, 1, n)
<1>2. w \in Seq(S) /\ Len(w) = n /\ n \in Nat /\ m \in Nat /\ Len(v) \in Nat
  OBVIOUS
<1>3. ASSUME NEW p \in 0 .. n - m PROVE SubSeq(w, p + 1, p + m) = SubSeq(v, p + 1, p + m)
  OBVIOUS
<1> HIDE DEF w, m
<1>4. ASSUME NEW p \in Reached(v, sub, 0) PROVE p \in Occurrences(w, sub)
  <2>1. /\ p \in 0 .. Len(v) - m /\ SubSeq(v, p + 1, p + m) = sub
        /\ \A j \in 0 + 1 .. p : v[j] # NUL
    BY DEF Reached, Occurrences, m
  <2>2. ASSUME p + m > n PROVE FALSE
    <3>1. v[n + 1] = NUL /\ n + 1 \in 1 .. p + m
      BY <1>1, <1>2, <2>1, <2>2
    <3>2. n + 1 \notin 1 .. p
      BY <2>1, <3>1
    <3>3. PICK k : k = n + 1 - p
      OBVIOUS
    <3>4. k \in 1 .. m /\ p + k = n + 1
      BY <1>2, <2>1, <3>1, <3>2, <3>3
    <3>5. SubSeq(v, p + 1, p + m)[k] = v[p + k]
      BY <1>2, <2>1, <3>4
    <3>6. QED
      BY <2>1, <3>1, <3>4, <3>5 DEF m
  <2>3. p \in 0 .. n - m
    BY <1>2, <2>1, <2>2
  <2>4. QED
    BY <1>2, <1>3, <2>1, <2>3 DEF Occurrences, m
<1>5. ASSUME NEW p \in Occurrences(w, sub) PROVE p \in Reached(v, sub, 0)
  <2>1. p \in 0 .. n - m /\ SubSeq(w, p + 1, p + m) = sub
    BY <1>2 DEF Occurrences, m
  <2>2. p \in 0 .. Len(v) - m /\ SubSeq(v, p + 1, p + m) = sub
    BY <1>2, <1>3, <2>1
  <2>3. \A j \in 0 + 1 .. p : v[j] # NUL
    BY <1>1, <1>2, <2>1
  <2>4. QED
    BY <1>2, <2>1, <2>2, <2>3 DEF Reached, Occurrences, m
<1>6. QED
  BY <1>1, <1>4, <1>5 DEF w

LEMMA TwoChars ==
  ASSUME NEW S, NEW a \in S, NEW b \in S
  PROVE  /\ <<a, b>> \in Seq(S) /\ Len(<<a, b>>) = 2 /\ <<a, b>> # <<>>
         /\ <<a, b>>[1] = a /\ <<a, b>>[2] = b
  OBVIOUS

\* A line is split at its first ": " (KeyValueSplits), for every line.
THEOREM KeyValueSplitsCorrect == EveryView => []KeyValueSplits
<1>1. ViewOK => KeyValueSplits
  <2> SUFFICES ASSUME ViewOK PROVE KeyValueSplits
    OBVIOUS
  <2> DEFINE S == test.chars \cup {":", " "}
             sep == KeyValueSeparator
             seps == Occurrences(BeforeNul(view), sep)
             kv == GetAttributeKeyValue(view)
  <2>1. /\ view \in Seq(S) /\ sep \in Seq(S) /\ Len(sep) = 2 /\ sep # <<>>
        /\ \A k \in 1 .. Len(sep) : sep[k] # NUL
    <3>0. view \in Seq(S)
      <4>1. view \in Seq(test.chars)
        BY DEF ViewOK
      <4>2. test.chars \subseteq S
        BY Zenon
      <4> HIDE DEF S
      <4>3. QED
        BY <4>1, <4>2
    <3>1. view \in Seq(S) /\ sep \in Seq(S) /\ Len(sep) = 2 /\ sep # <<>>
      <4>1. ":" \in S /\ " " \in S
        OBVIOUS
      <4> HIDE DEF S
      <4>2. QED
        BY <3>0, <4>1, TwoChars, Zenon DEF KeyValueSeparator
    <3>2. sep[1] = ":" /\ sep[2] = " "
      BY TwoChars, Zenon DEF KeyValueSeparator
    <3>3. sep[1] # NUL /\ sep[2] # NUL
      BY <3>2, CharAssumption, Zenon DEF CharAssumption
    <3>4. \A k \in 1 .. 2 : k = 1 \/ k = 2
      OBVIOUS
    <3>5. QED
      BY <3>1, <3>3, <3>4, Zenon
  <2> HIDE DEF S, sep
  <2>2. Searchable(view, sep)
    BY <2>1 DEF Searchable
  <2>3. Reached(view, sep, 0) = seps
    BY <2>1, ReachedBeforeNul
  <2>4. IndexOf(view, sep) = First(seps)
    BY <2>1, <2>2, <2>3, WordFound
  <2>5. \A p \in seps : p \in Nat /\ p + 2 <= Len(view)
    BY <2>1, <2>3, OccurrenceBegins DEF Reached
  <2> HIDE DEF seps
  <2>6. CASE seps = {}
    <3>1. kv = [found |-> FALSE]
      BY <2>4, <2>6 DEF GetAttributeKeyValue, First, sep
    <3>2. QED
      BY <2>6, <3>1 DEF KeyValueSplits, seps, sep
  <2>7. CASE seps # {}
    <3>1. PICK at : at = Min(seps)
      OBVIOUS
    <3>2. at \in Nat /\ at + 2 <= Len(view) /\ Len(view) \in Nat
      <4>1. seps \subseteq Nat
        BY <2>5
      <4>2. at \in seps
        BY <2>7, <3>1, <4>1, MinOf
      <4>3. QED
        BY <2>1, <2>5, <4>2
    <3> DEFINE key == SubSeq(view, 1, at)
               value == SubSeq(view, at + 3, Len(view))
    <3>3. KeepFront(view, at) = key /\ PopFront(view, at + 2) = value
      BY <3>2 DEF KeepFront, PopFront
    <3>4. kv = [found |-> TRUE, key |-> TrimWhitespace(key), value |-> TrimWhitespace(value)]
      <4>1. IndexOf(view, sep) = at /\ ~(at < 0)
        BY <2>4, <2>7, <3>1, <3>2 DEF First
      <4> HIDE DEF key, value
      <4>2. QED
        BY <2>1, <3>3, <4>1 DEF GetAttributeKeyValue, sep
    <3>5. key \in Seq(S) /\ value \in Seq(S)
      BY <2>1, <3>2
    <3> HIDE DEF key, value
    <3> DEFINE Trimmed(s) == s = <<>> \/ (s[1] \notin Spaces /\ Last(s) \notin Spaces)
    <3>6. Trimmed(TrimWhitespace(key)) /\ Trimmed(TrimWhitespace(value))
      BY <3>5, TrimmedEnds
    <3>7. kv.found = TRUE /\ kv.key = TrimWhitespace(key) /\ kv.value = TrimWhitespace(value)
      BY <3>4
    <3> HIDE DEF kv
    <3>8. QED
      BY <2>7, <3>1, <3>6, <3>7 DEF KeyValueSplits, kv, seps, sep, key, value
  <2>8. QED
    BY <2>6, <2>7
<1>2. QED
  BY <1>1, ViewsOK, PTL

-------------------------------------------------------------------------------
(* Words.                                                                  *)

\* The neighbours of a part of a line.
LEMMA BoundedAt ==
  ASSUME NEW S, NEW line \in Seq(S), NEW at \in Nat, NEW len \in Nat,
         at + len <= Len(line), NEW c
  PROVE  Bounded(line, at, len, c)
           <=> /\ at = 0 \/ line[at] = c
               /\ at + len = Len(line) \/ line[at + len + 1] = c
<1> DEFINE before == KeepFront(line, at)
           after == PopFront(line, at + len)
<1>1. at <= Len(line) /\ at + len \in Nat /\ Len(line) \in Nat
  OBVIOUS
<1>2. before = SubSeq(line, 1, at)
  BY <1>1 DEF KeepFront
<1>3. (before = <<>> <=> at = 0) /\ (at # 0 => before[Len(before)] = line[at])
  BY <1>1, <1>2
<1>4. /\ after \in Seq(S) /\ Len(after) = Len(line) - (at + len)
      /\ \A i \in 1 .. Len(line) - (at + len) : after[i] = line[at + len + i]
  BY <1>1, Popped
<1> HIDE DEF before, after
<1>5. after = <<>> <=> at + len = Len(line)
  BY <1>1, <1>4
<1>6. at + len # Len(line) => after[1] = line[at + len + 1]
  BY <1>1, <1>4
<1>7. Bounded(line, at, len, c)
        <=> /\ before = <<>> \/ before[Len(before)] = c
            /\ after = <<>> \/ after[1] = c
  BY DEF Bounded, before, after
<1>8. QED
  BY <1>3, <1>5, <1>6, <1>7

\* The characters of an occurrence.
LEMMA OccurrenceHolds ==
  ASSUME NEW S, NEW v \in Seq(S), NEW sub \in Seq(S), NEW p \in Occurrences(v, sub)
  PROVE  /\ p \in Nat /\ p + Len(sub) <= Len(v)
         /\ \A k \in 1 .. Len(sub) : v[p + k] = sub[k]
<1>1. /\ p \in Nat /\ p + Len(sub) <= Len(v) /\ Len(sub) \in Nat
      /\ SubSeq(v, p + 1, p + Len(sub)) = sub
  BY DEF Occurrences
<1>2. \A k \in 1 .. Len(sub) : SubSeq(v, p + 1, p + Len(sub))[k] = v[p + k]
  BY <1>1
<1>3. QED
  BY <1>1, <1>2

\* The occurrences in what is left of a view are those of the view.
LEMMA OccurrencesPopped ==
  ASSUME NEW S, NEW v \in Seq(S), NEW sub \in Seq(S), sub # <<>>, NEW s \in Nat, NEW q \in Nat
  PROVE  q \in Occurrences(PopFront(v, s), sub) <=> s + q \in Occurrences(v, sub)
<1>1. Len(v) \in Nat /\ Len(sub) \in Nat \ {0} /\ s + q \in Nat
  OBVIOUS
<1>2. PopFront(v, s) \in Seq(S)
  BY Popped
<1>3. CASE s + q <= Len(v)
  <2>1. s <= Len(v) /\ Len(PopFront(v, s)) = Len(v) - s
    <3>1. s <= Len(v)
      BY <1>1, <1>3
    <3>2. QED
      BY <3>1, Popped
  <2>2. q <= Len(PopFront(v, s))
    BY <1>1, <1>3, <2>1
  <2>3. StartsWith(PopFront(PopFront(v, s), q), sub) <=> q \in Occurrences(PopFront(v, s), sub)
    BY <1>2, <2>2, StartsAt
  <2>4. PopFront(PopFront(v, s), q) = PopFront(v, s + q)
    BY <1>3, PoppedTwice
  <2>5. StartsWith(PopFront(v, s + q), sub) <=> s + q \in Occurrences(v, sub)
    BY <1>1, <1>3, StartsAt
  <2>6. QED
    BY <2>3, <2>4, <2>5
<1>4. CASE ~(s + q <= Len(v))
  <2>1. s + q \notin Occurrences(v, sub)
    BY <1>1, <1>4, OccurrenceHolds
  <2>2. Len(PopFront(v, s)) < q + Len(sub)
    <3>1. CASE s <= Len(v)
      BY <1>1, <1>4, <3>1, Popped
    <3>2. CASE ~(s <= Len(v))
      <4>1. s > Len(v)
        BY <1>1, <3>2
      <4>2. Len(PopFront(v, s)) = 0
        BY <4>1, Popped
      <4>3. QED
        BY <1>1, <4>2
    <3>3. QED
      BY <3>1, <3>2
  <2>3. q \notin Occurrences(PopFront(v, s), sub)
    <3>1. ASSUME q \in Occurrences(PopFront(v, s), sub) PROVE FALSE
      <4>1. q + Len(sub) <= Len(PopFront(v, s))
        BY <1>2, <3>1, OccurrenceHolds
      <4>2. Len(PopFront(v, s)) \in Nat
        BY <1>2
      <4>3. QED
        BY <1>1, <2>2, <4>1, <4>2
    <3>2. QED
      BY <3>1
  <2>4. QED
    BY <2>1, <2>3
<1>5. QED
  BY <1>3, <1>4

\* Where a search behind the first s characters of a text comes to.
LEMMA NextWord ==
  ASSUME NEW S, NEW v \in Seq(S), NEW sub \in Seq(S), sub # <<>>, NUL \notin ToSet(v),
         NEW s \in Nat
  PROVE  LET at == IndexOf(PopFront(v, s), sub)
         IN  \/ at = -1 /\ \A p \in Occurrences(v, sub) : p < s
             \/ /\ at \in Nat /\ s + at \in Occurrences(v, sub)
                /\ \A p \in Occurrences(v, sub) : p < s \/ s + at <= p
<1> DEFINE rest == PopFront(v, s)
           R == Reached(rest, sub, 0)
           at == IndexOf(rest, sub)
<1>1. /\ rest \in Seq(S) /\ Len(v) \in Nat
      /\ s > Len(v) => Len(rest) = 0
      /\ s <= Len(v) => /\ Len(rest) = Len(v) - s
                        /\ \A i \in 1 .. Len(v) - s : rest[i] = v[s + i]
  <2>1. Len(v) \in Nat
    OBVIOUS
  <2>2. QED
    BY <2>1, Popped, Zenon
<1> HIDE DEF rest
<1>2. \A j \in 1 .. Len(rest) : rest[j] # NUL
  <2> SUFFICES ASSUME NEW j \in 1 .. Len(rest) PROVE rest[j] # NUL
    OBVIOUS
  <2>1. s <= Len(v) /\ j \in 1 .. Len(v) - s /\ s + j \in 1 .. Len(v)
    <3>1. s <= Len(v)
      BY <1>1
    <3>2. QED
      BY <1>1, <3>1
  <2>2. rest[j] = v[s + j] /\ v[s + j] \in ToSet(v)
    <3>1. rest[j] = v[s + j]
      BY <1>1, <2>1
    <3>2. v[s + j] \in ToSet(v)
      BY <2>1 DEF ToSet
    <3>3. QED
      BY <3>1, <3>2
  <2>3. QED
    BY <2>2
<1>3. Searchable(rest, sub)
  BY <1>2 DEF Searchable
<1>4. at = First(R)
  BY <1>1, <1>3, WordFound
<1>5. R = Occurrences(rest, sub)
  <2>1. ASSUME NEW p \in Occurrences(rest, sub) PROVE p \in R
    <3>1. p \in Nat /\ p <= Len(rest) /\ Len(rest) \in Nat
      BY <1>1, OccurrenceBegins
    <3>2. QED
      BY <1>2, <3>1 DEF Reached
  <2>2. QED
    BY <2>1 DEF Reached
<1>6. \A q \in R : q \in Nat
  BY <1>1, <1>5, OccurrenceBegins
<1>7. ASSUME NEW p \in Occurrences(v, sub), ~(p < s) PROVE p - s \in R /\ p - s \in Nat
  <2>1. p \in Nat
    BY OccurrenceBegins
  <2>2. PICK q : q = p - s
    OBVIOUS
  <2>3. q \in Nat /\ s + q = p
    BY <1>7, <2>1, <2>2
  <2>4. q \in Occurrences(rest, sub)
    BY <2>3, OccurrencesPopped DEF rest
  <2>5. QED
    BY <1>5, <2>2, <2>3, <2>4
<1> HIDE DEF R, at
<1>8. CASE R = {}
  <2>1. at = -1
    BY <1>4, <1>8 DEF First
  <2>2. \A p \in Occurrences(v, sub) : p < s
    BY <1>7, <1>8
  <2>3. QED
    BY <2>1, <2>2 DEF at, rest
<1>9. CASE R # {}
  <2>1. at \in R /\ \A q \in R : at <= q
    <3>1. at = Min(R) /\ R \subseteq Nat
      BY <1>4, <1>6, <1>9 DEF First
    <3>2. QED
      BY <1>9, <3>1, MinOf
  <2>2. at \in Nat /\ at \in Occurrences(rest, sub)
    BY <1>5, <1>6, <2>1
  <2>3. s + at \in Occurrences(v, sub)
    BY <2>2, OccurrencesPopped DEF rest
  <2>4. ASSUME NEW p \in Occurrences(v, sub), ~(p < s) PROVE s + at <= p
    <3>1. at <= p - s /\ p \in Nat
      BY <1>7, <2>1, <2>4, OccurrenceBegins
    <3>2. QED
      BY <2>2, <3>1
  <2>5. QED
    BY <2>2, <2>3, <2>4 DEF at, rest
<1>10. QED
  BY <1>8, <1>9

\* HasWord comes to every separated occurrence, although it goes on behind one
\* that is not separated: what overlaps that one has a character of the word,
\* not a separator, before it.
LEMMA WordSeparated ==
  ASSUME NEW S, NEW v \in Seq(S), NEW sub \in Seq(S), sub # <<>>, NUL \notin ToSet(v),
         NEW c, c \notin ToSet(sub)
  PROVE  HasWord(v, sub, c) <=> \E p \in Occurrences(v, sub) : Bounded(v, p, Len(sub), c)
<1> DEFINE at(s) == IndexOf(PopFront(v, s), sub)
           B(p) == Bounded(v, p, Len(sub), c)
           Runs(f) == f = [s \in Nat |-> at(s) >= 0 /\ \/ B(s + at(s))
                                                       \/ f[s + at(s) + Len(sub)]]
           try == CHOOSE f : Runs(f)
           Ahead(s) == \E p \in Occurrences(v, sub) : s <= p /\ B(p)
           target == [s \in Nat |-> Ahead(s)]
<1>1. HasWord(v, sub, c) = try[0]
  BY DEF HasWord
<1>2. /\ Len(v) \in Nat /\ Len(sub) \in Nat \ {0}
      /\ \A p \in Occurrences(v, sub) : p \in Nat /\ p + Len(sub) <= Len(v)
  BY OccurrenceHolds
<1>3. ASSUME NEW m \in Occurrences(v, sub), NEW p \in Occurrences(v, sub),
             m < p, p < m + Len(sub)
      PROVE  ~B(p)
  <2>1. m \in Nat /\ p \in Nat /\ p + Len(sub) <= Len(v)
    BY <1>2
  <2>2. PICK k : k = p - m
    OBVIOUS
  <2>3. k \in 1 .. Len(sub) /\ m + k = p
    BY <1>2, <1>3, <2>1, <2>2
  <2>4. v[p] = sub[k]
    BY <2>3, OccurrenceHolds
  <2>5. sub[k] # c
    BY <2>3 DEF ToSet
  <2>6. p # 0
    BY <1>3, <2>1
  <2>7. QED
    BY <1>2, <2>1, <2>4, <2>5, <2>6, BoundedAt
<1>4. ASSUME NEW s \in Nat
      PROVE  /\ at(s) >= 0 => at(s) \in Nat /\ s + at(s) < Len(v)
             /\ Ahead(s) <=> at(s) >= 0 /\ \/ B(s + at(s))
                                           \/ Ahead(s + at(s) + Len(sub))
  <2>1. \/ at(s) = -1 /\ \A p \in Occurrences(v, sub) : p < s
        \/ /\ at(s) \in Nat /\ s + at(s) \in Occurrences(v, sub)
           /\ \A p \in Occurrences(v, sub) : p < s \/ s + at(s) <= p
    BY NextWord, Zenon
  <2> HIDE DEF at, B
  <2>2. CASE at(s) = -1 /\ \A p \in Occurrences(v, sub) : p < s
    <3>1. \A p \in Occurrences(v, sub) : ~(s <= p)
      BY <1>2, <2>2
    <3>2. QED
      BY <2>2, <3>1
  <2>3. CASE /\ at(s) \in Nat /\ s + at(s) \in Occurrences(v, sub)
             /\ \A p \in Occurrences(v, sub) : p < s \/ s + at(s) <= p
    <3>1. PICK m : m = s + at(s)
      OBVIOUS
    <3>2. /\ m \in Nat /\ m \in Occurrences(v, sub) /\ s <= m /\ m < Len(v)
          /\ at(s) >= 0
      BY <1>2, <2>3, <3>1
    <3>3. ASSUME B(m) PROVE Ahead(s)
      BY <3>2, <3>3
    <3>4. ASSUME Ahead(m + Len(sub)) PROVE Ahead(s)
      <4>1. PICK p \in Occurrences(v, sub) : m + Len(sub) <= p /\ B(p)
        BY <3>4
      <4>2. s <= p
        BY <1>2, <3>2, <4>1
      <4>3. QED
        BY <4>1, <4>2
    <3>5. ASSUME Ahead(s) PROVE B(m) \/ Ahead(m + Len(sub))
      <4>1. PICK p \in Occurrences(v, sub) : s <= p /\ B(p)
        BY <3>5
      <4>2. m <= p /\ p \in Nat
        BY <1>2, <2>3, <3>1, <4>1
      <4>3. ~(m < p /\ p < m + Len(sub))
        BY <1>3, <3>2, <4>1
      <4>4. p = m \/ m + Len(sub) <= p
        BY <1>2, <3>2, <4>2, <4>3
      <4>5. QED
        BY <4>1, <4>4
    <3>6. s + at(s) = m /\ s + at(s) + Len(sub) = m + Len(sub)
      BY <3>1
    <3> HIDE DEF Ahead
    <3>7. QED
      BY <2>3, <3>2, <3>3, <3>4, <3>5, <3>6
  <2>4. QED
    BY <2>1, <2>2, <2>3
<1> HIDE DEF at, B, Ahead
<1>5. Runs(target)
  <2>1. ASSUME NEW s \in Nat
        PROVE  target[s] = (at(s) >= 0 /\ \/ B(s + at(s))
                                          \/ target[s + at(s) + Len(sub)])
    <3>1. at(s) >= 0 => s + at(s) + Len(sub) \in Nat
      BY <1>2, <1>4
    <3>2. at(s) >= 0 => target[s + at(s) + Len(sub)] = Ahead(s + at(s) + Len(sub))
      BY <3>1
    <3>3. target[s] = Ahead(s) /\ Ahead(s) \in BOOLEAN
      BY DEF Ahead
    <3>4. QED
      BY <1>4, <3>2, <3>3
  <2>2. QED
    BY <2>1
<1>6. Runs(try)
  BY <1>5
<1>7. \A s \in Nat : try[s] <=> at(s) >= 0 /\ \/ B(s + at(s))
                                              \/ try[s + at(s) + Len(sub)]
  <2> HIDE DEF try
  <2>1. QED
    BY <1>6
<1> HIDE DEF try
<1>8. \A s \in Nat : try[s] <=> Ahead(s)
  <2> DEFINE Bad == {s \in Nat : ~(try[s] <=> Ahead(s))}
             Left == {Len(v) - s : s \in Bad}
  <2>1. ASSUME NEW s \in Bad PROVE s < Len(v) /\ \E t \in Bad : s < t
    <3>1. s \in Nat /\ at(s) >= 0
      BY <1>4, <1>7
    <3>2. PICK t : t = s + at(s) + Len(sub)
      OBVIOUS
    <3>3. at(s) \in Nat /\ s + at(s) < Len(v)
      BY <1>4, <3>1
    <3>4. t \in Nat /\ s < t /\ s < Len(v)
      BY <1>2, <3>1, <3>2, <3>3
    <3>5. ~(try[t] <=> Ahead(t))
      BY <1>4, <1>7, <3>1, <3>2
    <3>6. QED
      BY <3>4, <3>5
  <2>2. Left \subseteq Nat
    BY <1>2, <2>1
  <2>3. ASSUME Left # {} PROVE FALSE
    <3>1. PICK least \in Left : \A x \in Left : least <= x
      <4> HIDE DEF Left
      <4>1. QED
        BY <2>2, <2>3, LeastOf
    <3>2. PICK s \in Bad : least = Len(v) - s
      OBVIOUS
    <3>3. PICK t \in Bad : s < t
      BY <2>1
    <3>4. Len(v) - t \in Left /\ s \in Nat /\ t \in Nat /\ Len(v) \in Nat
      OBVIOUS
    <3>5. least <= Len(v) - t
      BY <3>1, <3>4
    <3>6. QED
      BY <3>2, <3>3, <3>4, <3>5
  <2>4. QED
    BY <2>3
<1>9. try[0] <=> Ahead(0)
  BY <1>8
<1>10. Ahead(0) <=> \E p \in Occurrences(v, sub) : B(p)
  BY <1>2 DEF Ahead
<1>11. QED
  BY <1>1, <1>9, <1>10 DEF B

\* The separated occurrences are the fields.
LEMMA FieldSeparated ==
  ASSUME NEW S, NEW v \in Seq(S), NEW sub \in Seq(S), NEW c, c \notin ToSet(sub)
  PROVE  IsField(sub, v, c) <=> \E p \in Occurrences(v, sub) : Bounded(v, p, Len(sub), c)
<1> DEFINE m == Len(sub)
           L == Len(v)
<1>1. m \in Nat /\ L \in Nat
  OBVIOUS
<1>2. ASSUME NEW p \in Occurrences(v, sub)
      PROVE  /\ p \in Nat /\ p + m <= L /\ SubSeq(v, p + 1, p + m) = sub
             /\ \A k \in p + 1 .. p + m : v[k] # c
  <2>1. /\ p \in Nat /\ p + m <= L /\ SubSeq(v, p + 1, p + m) = sub
        /\ \A k \in 1 .. m : v[p + k] = sub[k]
    BY OccurrenceHolds DEF Occurrences
  <2>2. ASSUME NEW k \in p + 1 .. p + m PROVE v[k] # c
    <3>1. PICK i : i = k - p
      OBVIOUS
    <3>2. i \in 1 .. m /\ p + i = k
      BY <1>1, <2>1, <3>1
    <3>3. sub[i] # c
      BY <3>2 DEF ToSet
    <3>4. QED
      BY <2>1, <3>2, <3>3
  <2>3. QED
    BY <2>1, <2>2
<1>3. ASSUME NEW p \in Occurrences(v, sub), Bounded(v, p, m, c) PROVE IsField(sub, v, c)
  <2>1. /\ p = 0 \/ v[p] = c
        /\ p + m = L \/ v[p + m + 1] = c
    BY <1>1, <1>2, <1>3, BoundedAt
  <2>2. PICK j : j = p + m
    OBVIOUS
  <2>3. p \in 0 .. L /\ j \in 0 .. L /\ p <= j /\ sub = SubSeq(v, p + 1, j)
    BY <1>1, <1>2, <2>2
  <2>4. \A k \in p + 1 .. j : v[k] # c
    BY <1>2, <2>2
  <2>5. j = L \/ v[j + 1] = c
    BY <2>1, <2>2
  <2>6. QED
    BY <2>1, <2>3, <2>4, <2>5, Zenon DEF IsField
<1>4. ASSUME IsField(sub, v, c)
      PROVE  \E p \in Occurrences(v, sub) : Bounded(v, p, m, c)
  <2>1. PICK i \in 0 .. L, j \in 0 .. L :
          /\ i <= j /\ sub = SubSeq(v, i + 1, j)
          /\ i = 0 \/ v[i] = c
          /\ j = L \/ v[j + 1] = c
    BY <1>4, Zenon DEF IsField
  <2>2. i \in Nat /\ j \in Nat /\ j <= L
    BY <1>1
  <2>3. m = j - i
    BY <1>1, <2>1, <2>2, PartOfView
  <2>4. i + m = j /\ i \in 0 .. L - m
    BY <1>1, <2>1, <2>2, <2>3
  <2>5. i \in Occurrences(v, sub)
    BY <2>1, <2>4 DEF Occurrences
  <2>6. Bounded(v, i, m, c)
    BY <1>1, <2>1, <2>2, <2>4, BoundedAt
  <2>7. QED
    BY <2>5, <2>6
<1>5. QED
  BY <1>3, <1>4

\* What HasWordExact says, of any text, word and separator.
LEMMA HasWordField ==
  ASSUME NEW S, NEW v \in Seq(S), NEW sub \in Seq(S), NUL \notin ToSet(v),
         NEW c, c \notin ToSet(sub)
  PROVE  HasWord(v, sub, c) <=> sub # <<>> /\ IsField(sub, v, c)
<1>1. CASE sub # <<>>
  BY <1>1, WordSeparated, FieldSeparated
<1>2. CASE sub = <<>>
  <2> DEFINE at(s) == IndexOf(PopFront(v, s), sub)
             Runs(f) == f = [s \in Nat |->
                at(s) >= 0 /\ \/ Bounded(v, s + at(s), Len(sub), c)
                              \/ f[s + at(s) + Len(sub)]]
             try == CHOOSE f : Runs(f)
             never == [s \in Nat |-> FALSE]
  <2>1. \A s \in Nat : ~(at(s) >= 0)
    <3>1. \A s \in Nat : at(s) = -1
      BY <1>2 DEF IndexOf
    <3> HIDE DEF at
    <3>2. QED
      BY <3>1
  <2>2. Runs(never)
    <3> HIDE DEF at
    <3>1. ASSUME NEW s \in Nat
          PROVE  never[s] = (at(s) >= 0 /\ \/ Bounded(v, s + at(s), Len(sub), c)
                                           \/ never[s + at(s) + Len(sub)])
      <4>1. ~(at(s) >= 0) /\ never[s] = FALSE
        BY <2>1
      <4>2. QED
        BY <4>1
    <3>2. QED
      BY <3>1
  <2>3. Runs(try)
    BY <2>2
  <2>4. ~try[0]
    <3> HIDE DEF try, at
    <3>1. try[0] = (at(0) >= 0 /\ \/ Bounded(v, 0 + at(0), Len(sub), c)
                                  \/ try[0 + at(0) + Len(sub)])
      BY <2>3
    <3>2. QED
      BY <2>1, <3>1
  <2>5. HasWord(v, sub, c) = try[0]
    BY DEF HasWord
  <2>6. QED
    BY <1>2, <2>4, <2>5
<1>3. QED
  BY <1>1, <1>2

\* HasWord finds exactly the separated words of a text (HasWordExact), for every
\* text, word and separator.
THEOREM HasWordExactCorrect == EveryView => []HasWordExact
<1>1. ViewOK => HasWordExact
  <2> SUFFICES ASSUME ViewOK, Separator \notin ToSet(word), NUL \notin ToSet(view)
               PROVE  HasWord(view, word, Separator)
                        <=> word # <<>> /\ IsField(word, view, Separator)
    BY DEF HasWordExact
  <2> DEFINE W == {test.word[i] : i \in DOMAIN test.word}
             S == test.chars \cup W
  <2>1. view \in Seq(test.chars) /\ word \in Seq(W)
    BY ViewsAssumption DEF ViewOK, ViewsAssumption, word
  <2>2. test.chars \subseteq S /\ W \subseteq S
    OBVIOUS
  <2> HIDE DEF S, W
  <2>3. view \in Seq(S) /\ word \in Seq(S)
    BY <2>1, <2>2
  <2>4. QED
    BY <2>3, HasWordField
<1>2. QED
  BY <1>1, ViewsOK, PTL

-------------------------------------------------------------------------------
(* CPU lists.                                                              *)

\* The characters of a list that are no digits.
LEMMA NoDigit == HexValue("-") = -1 /\ HexValue(",") = -1
<1>1. /\ HexDigits[1] = "0" /\ HexDigits[2] = "1" /\ HexDigits[3] = "2"
      /\ HexDigits[4] = "3" /\ HexDigits[5] = "4" /\ HexDigits[6] = "5"
      /\ HexDigits[7] = "6" /\ HexDigits[8] = "7" /\ HexDigits[9] = "8"
      /\ HexDigits[10] = "9" /\ HexDigits[11] = "a" /\ HexDigits[12] = "b"
      /\ HexDigits[13] = "c" /\ HexDigits[14] = "d" /\ HexDigits[15] = "e"
      /\ HexDigits[16] = "f"
      /\ UpperDigits[1] = "A" /\ UpperDigits[2] = "B" /\ UpperDigits[3] = "C"
      /\ UpperDigits[4] = "D" /\ UpperDigits[5] = "E" /\ UpperDigits[6] = "F"
  BY DEF HexDigits, UpperDigits
<1>2. Len(HexDigits) = 16 /\ Len(UpperDigits) = 6
  BY DEF HexDigits, UpperDigits
<1>3. \A i \in 1 .. 16 : i \in {1,2,3,4,5,6,7,8,9,10,11,12,13,14,15,16}
  OBVIOUS
<1>4. \A i \in 1 .. 6 : i \in {1,2,3,4,5,6}
  OBVIOUS
<1>5. /\ ~Contains(HexDigits, "-") /\ ~Contains(HexDigits, ",")
      /\ ~Contains(UpperDigits, "-") /\ ~Contains(UpperDigits, ",")
  <2> HIDE DEF HexDigits, UpperDigits
  <2>1. QED
    BY <1>1, <1>2, <1>3, <1>4 DEF Contains
<1>6. QED
  BY <1>5, Zenon DEF HexValue

\* Slices, from a first to a last character.
LEMMA SliceOfView ==
  ASSUME NEW S, NEW v \in Seq(S), NEW i \in Nat, i > 0, NEW j \in Nat, j <= Len(v)
  PROVE  /\ SubSeq(v, i, j) \in Seq(S)
         /\ i > j => SubSeq(v, i, j) = <<>>
         /\ i <= j => Len(SubSeq(v, i, j)) = j - i + 1
         /\ \A k \in 1 .. j - i + 1 : SubSeq(v, i, j)[k] = v[i - 1 + k]
  OBVIOUS
LEMMA SliceOfSlice ==
  ASSUME NEW S, NEW v \in Seq(S), NEW a \in Nat, NEW b \in Nat, b <= Len(v),
         NEW i \in Nat, i > 0, NEW j \in Nat, i <= b - a, j <= b - a
  PROVE  SubSeq(SubSeq(v, a + 1, b), i, j) = SubSeq(v, a + i, a + j)
<1>1. PICK x \in Nat : x = a + i
  OBVIOUS
<1>2. PICK y \in Nat : y = a + j
  OBVIOUS
<1>3. x > 0 /\ y <= Len(v) /\ (x > y <=> i > j) /\ y - x = j - i
  BY <1>1, <1>2
<1>4. PICK p : /\ p = SubSeq(v, a + 1, b) /\ p \in Seq(S) /\ Len(p) = b - a
               /\ \A k \in 1 .. b - a : p[k] = v[a + k]
  <2>1. a <= b
    OBVIOUS
  <2>2. /\ SubSeq(v, a + 1, b) \in Seq(S) /\ Len(SubSeq(v, a + 1, b)) = b - a
        /\ \A k \in 1 .. b - a : SubSeq(v, a + 1, b)[k] = v[a + k]
    BY <2>1, PartOfView
  <2>3. QED
    BY <2>2, Zenon
<1>5. PICK q : q = SubSeq(p, i, j)
  OBVIOUS
<1>6. PICK r : r = SubSeq(v, x, y)
  OBVIOUS
<1>7. /\ q \in Seq(S)
      /\ i > j => q = <<>>
      /\ i <= j => Len(q) = j - i + 1
      /\ \A k \in 1 .. j - i + 1 : q[k] = p[i - 1 + k]
  BY <1>4, <1>5, SliceOfView
<1>8. /\ r \in Seq(S)
      /\ x > y => r = <<>>
      /\ x <= y => Len(r) = y - x + 1
      /\ \A k \in 1 .. y - x + 1 : r[k] = v[x - 1 + k]
  BY <1>3, <1>6, SliceOfView
<1>9. CASE i > j
  BY <1>1, <1>2, <1>3, <1>4, <1>5, <1>6, <1>7, <1>8, <1>9
<1>10. CASE i <= j
  <2>1. Len(q) = j - i + 1 /\ Len(r) = j - i + 1
    BY <1>1, <1>2, <1>3, <1>7, <1>8, <1>10
  <2>2. ASSUME NEW k \in 1 .. j - i + 1 PROVE q[k] = r[k]
    <3>1. i - 1 + k \in 1 .. b - a /\ a + (i - 1 + k) = x - 1 + k /\ k \in 1 .. y - x + 1
      BY <1>1, <1>2, <1>3
    <3>2. q[k] = p[i - 1 + k] /\ p[i - 1 + k] = v[a + (i - 1 + k)] /\ r[k] = v[x - 1 + k]
      BY <1>4, <1>7, <1>8, <3>1
    <3>3. QED
      BY <3>1, <3>2
  <2>3. q = r
    BY <1>7, <1>8, <2>1, <2>2, SeqEqual
  <2>4. QED
    BY <1>1, <1>2, <1>4, <1>5, <1>6, <2>3
<1>11. QED
  BY <1>9, <1>10

\* A part of a list is a list.
LEMMA PartOfList ==
  ASSUME NEW S, NEW v \in Seq(S), IsCpuList(v), NEW a \in Nat, NEW b \in Nat, b <= Len(v)
  PROVE  IsCpuList(SubSeq(v, a + 1, b))
<1> DEFINE p == SubSeq(v, a + 1, b)
<1>1. /\ p \in Seq(S)
      /\ a <= b => Len(p) = b - a
      /\ a > b => Len(p) = 0
      /\ \A i \in 1 .. b - a : p[i] = v[a + i]
  BY PartOfView
<1> HIDE DEF p
<1>2. /\ Len(p) \in Nat
      /\ \A i \in 1 .. Len(p) : a + i \in 1 .. Len(v) /\ p[i] = v[a + i] /\ a + i <= b
  BY <1>1
<1>3. {NUL, "x"} \cap ToSet(p) = {}
  BY <1>2 DEF IsCpuList, ToSet
<1>4. ASSUME NEW i \in 1 .. Len(p), NEW j \in 1 .. Len(p)
      PROVE  SubSeq(p, i, j) = SubSeq(v, a + i, a + j)
  <2>1. /\ i \in Nat /\ i > 0 /\ j \in Nat
        /\ i <= b - a /\ j <= b - a
    BY <1>1, <1>2
  <2>2. QED
    BY <2>1, SliceOfSlice DEF p
<1>5. ASSUME NEW i \in DOMAIN p, NEW j \in DOMAIN p, Digits(SubSeq(p, i, j), 10)
      PROVE  Number(SubSeq(p, i, j), 10) < INT_MAX
  <2>1. i \in 1 .. Len(p) /\ j \in 1 .. Len(p)
    BY <1>1
  <2>2. SubSeq(p, i, j) = SubSeq(v, a + i, a + j)
    BY <1>4, <2>1
  <2>3. a + i \in DOMAIN v /\ a + j \in DOMAIN v
    BY <1>2, <2>1
  <2>4. QED
    BY <1>5, <2>2, <2>3, Zenon DEF IsCpuList
<1>6. IsCpuList(p)
  BY <1>3, <1>5, Zenon DEF IsCpuList
<1>7. QED
  BY <1>6 DEF p

\* In a list every text of digits is a number that an int can hold.
LEMMA ListNumber ==
  ASSUME NEW S, NEW p \in Seq(S), IsCpuList(p)
  PROVE  IF p # <<>> /\ Digits(p, 10)
         THEN ParsePositiveNumber(p) = Number(p, 10) /\ Number(p, 10) \in Nat
         ELSE ParsePositiveNumber(p) = -1
<1>1. ~IsPrefix(<<"0", "x">>, p)
  <2>1. SUFFICES ASSUME IsPrefix(<<"0", "x">>, p) PROVE FALSE
    OBVIOUS
  <2>2. Len(p) >= 2 /\ p[2] = "x"
    BY <2>1 DEF IsPrefix
  <2>3. "x" \in ToSet(p)
    BY <2>2 DEF ToSet
  <2>4. QED
    BY <2>3 DEF IsCpuList
<1>2. IF p # <<>> /\ Digits(p, 10)
      THEN Number(p, 10) <= INT_MAX => ParsePositiveNumber(p) = Number(p, 10)
      ELSE ParsePositiveNumber(p) = -1
  BY <1>1, Parsed
<1>3. ASSUME p # <<>>, Digits(p, 10)
      PROVE  Number(p, 10) <= INT_MAX /\ Number(p, 10) \in Nat
  <2>1. Number(p, 10) \in Nat
    BY <1>3, NumberValues
  <2>2. 1 \in DOMAIN p /\ Len(p) \in DOMAIN p
    BY <1>3
  <2>3. SubSeq(p, 1, Len(p)) = p
    OBVIOUS
  <2>4. Number(p, 10) < INT_MAX
    BY <1>3, <2>2, <2>3, Zenon DEF IsCpuList
  <2>5. QED
    BY <2>1, <2>4, IntAssumption DEF IntAssumption
<1>4. QED
  BY <1>2, <1>3

\* What one entry adds to a mask.
LEMMA EntryParsed ==
  ASSUME NEW S, NEW v \in Seq(S), IsCpuList(v), NEW mask
  PROVE  parse_cpu_mask(v, mask) = mask \cup CpusOf(v)
<1> DEFINE dash == IndexOfChar(v, "-")
           Part(d) == SubSeq(v, 1, d - 1)
           Rest(d) == SubSeq(v, d + 1, Len(v))
           InRange(d, c) ==
             /\ v[d] = "-" /\ Part(d) # <<>> /\ Rest(d) # <<>>
             /\ Digits(Part(d), 10) /\ Digits(Rest(d), 10)
             /\ Number(Part(d), 10) <= c /\ c <= Number(Rest(d), 10)
<1>1. \A k \in 1 .. Len(v) : v[k] # NUL
  BY DEF IsCpuList, ToSet
<1>2. \A c : c \in CpusOf(v) <=>
               /\ c \in MaskBits
               /\ \/ v # <<>> /\ Digits(v, 10) /\ c = Number(v, 10)
                  \/ \E d \in DOMAIN v : InRange(d, c)
  BY Zenon DEF CpusOf
<1>3. ASSUME NEW d \in 1 .. Len(v)
      PROVE  /\ Part(d) \in Seq(S) /\ IsCpuList(Part(d))
             /\ Len(Part(d)) = d - 1 /\ \A k \in 1 .. d - 1 : Part(d)[k] = v[k]
             /\ Rest(d) \in Seq(S) /\ IsCpuList(Rest(d))
             /\ Len(Rest(d)) = Len(v) - d
             /\ \A k \in 1 .. Len(v) - d : Rest(d)[k] = v[d + k]
  <2>1. d - 1 \in Nat /\ d - 1 <= Len(v) /\ d \in Nat /\ Len(v) \in Nat /\ d <= Len(v)
    OBVIOUS
  <2>2. /\ Part(d) \in Seq(S)
        /\ Len(Part(d)) = d - 1 /\ \A k \in 1 .. d - 1 : Part(d)[k] = v[k]
    BY <2>1
  <2>3. IsCpuList(Part(d))
    <3>1. \A x \in Nat : x + 1 = 1 => IsCpuList(SubSeq(v, x + 1, d - 1))
      BY <2>1, PartOfList
    <3>2. 0 \in Nat /\ 0 + 1 = 1
      OBVIOUS
    <3>3. QED
      BY <3>1, <3>2
  <2>4. /\ Rest(d) \in Seq(S) /\ IsCpuList(Rest(d))
        /\ Len(Rest(d)) = Len(v) - d
        /\ \A k \in 1 .. Len(v) - d : Rest(d)[k] = v[d + k]
    BY <2>1, PartOfView, PartOfList
  <2>5. QED
    BY <2>2, <2>3, <2>4
<1>4. \A t : \A k \in DOMAIN t : t[k] = "-" => ~Digits(t, 10)
  <2>1. HexValue("-") = -1
    BY NoDigit
  <2>2. HexValue("-") \notin 0 .. 10 - 1
    BY <2>1
  <2>3. QED
    BY <2>2, Zenon DEF Digits
<1> HIDE DEF Part, Rest
<1>5. CASE \A k \in 1 .. Len(v) : v[k] # "-"
  <2>1. dash = -1
    BY <1>5, CharFound
  <2>2. parse_cpu_mask(v, mask) =
          IF ParsePositiveNumber(v) < 0 THEN mask
          ELSE mask \cup ({ParsePositiveNumber(v)} \cap MaskBits)
    BY <2>1 DEF parse_cpu_mask, set_cpu_mask_bit
  <2>3. \A c : c \in CpusOf(v) <=>
                 c \in MaskBits /\ v # <<>> /\ Digits(v, 10) /\ c = Number(v, 10)
    BY <1>2, <1>5
  <2>4. CASE v # <<>> /\ Digits(v, 10)
    <3>1. ParsePositiveNumber(v) = Number(v, 10) /\ Number(v, 10) \in Nat
      BY <2>4, ListNumber
    <3>2. parse_cpu_mask(v, mask) = mask \cup ({Number(v, 10)} \cap MaskBits)
      BY <2>2, <3>1
    <3>3. CpusOf(v) = {Number(v, 10)} \cap MaskBits
      BY <2>3, <2>4
    <3>4. QED
      BY <3>2, <3>3
  <2>5. CASE ~(v # <<>> /\ Digits(v, 10))
    <3>1. ParsePositiveNumber(v) = -1
      BY <2>5, ListNumber
    <3>2. parse_cpu_mask(v, mask) = mask
      BY <2>2, <3>1
    <3>3. CpusOf(v) = {}
      BY <2>3, <2>5
    <3>4. QED
      BY <3>2, <3>3
  <2>6. QED
    BY <2>4, <2>5
<1>6. CASE \E k \in 1 .. Len(v) : v[k] = "-"
  <2>1. PICK d \in 1 .. Len(v) :
          /\ dash = d - 1 /\ v[d] = "-"
          /\ \A j \in 1 .. d - 1 : v[j] # "-"
    BY <1>1, <1>6, CharFound
  <2>2. KeepFront(v, dash) = Part(d) /\ PopFront(v, dash + 1) = Rest(d)
    BY <2>1, SMTT(30) DEF KeepFront, PopFront, Part, Rest
  <2>3. dash \in Nat
    BY <2>1
  <2> DEFINE a == ParsePositiveNumber(Part(d))
             b == ParsePositiveNumber(Rest(d))
  <2>4. parse_cpu_mask(v, mask) =
          IF a < 0 \/ b < 0 THEN mask ELSE mask \cup (a .. b \cap MaskBits)
    <3>1. ~(dash < 0)
      BY <2>3
    <3>2. QED
      BY <2>2, <3>1, Zenon DEF parse_cpu_mask
  <2>5. ~Digits(v, 10)
    BY <1>4, <2>1
  <2>6. ASSUME NEW e \in DOMAIN v, NEW c, InRange(e, c) PROVE e = d
    <3>1. e \in 1 .. Len(v) /\ e \in Int /\ d \in Int /\ d >= 1 /\ e >= 1 /\ Len(v) \in Nat
      OBVIOUS
    <3>2. v[e] = "-" /\ Digits(Part(e), 10) /\ Digits(Rest(e), 10)
      BY <2>6
    <3>3. ~(e < d)
      BY <2>1, <3>1, <3>2
    <3>4. ~(d < e)
      <4>1. SUFFICES ASSUME d < e PROVE FALSE
        OBVIOUS
      <4>2. d \in 1 .. e - 1
        BY <3>1, <4>1
      <4>3. Part(e)[d] = "-" /\ d \in DOMAIN Part(e)
        <5>1. /\ Len(Part(e)) = e - 1 /\ Part(e) \in Seq(S)
              /\ \A k \in 1 .. e - 1 : Part(e)[k] = v[k]
          BY <1>3, <3>1
        <5>2. QED
          BY <2>1, <4>2, <5>1
      <4>4. QED
        BY <1>4, <3>2, <4>3
    <3>5. QED
      BY <3>1, <3>3, <3>4
  <2>7. \A c : c \in CpusOf(v) <=> c \in MaskBits /\ InRange(d, c)
    <3> HIDE DEF InRange
    <3>1. d \in DOMAIN v
      OBVIOUS
    <3>2. QED
      BY <1>2, <2>5, <2>6, <3>1, Zenon
  <2>8. /\ Part(d) \in Seq(S) /\ IsCpuList(Part(d))
        /\ Rest(d) \in Seq(S) /\ IsCpuList(Rest(d))
    BY <1>3
  <2>9. CASE /\ Part(d) # <<>> /\ Digits(Part(d), 10)
             /\ Rest(d) # <<>> /\ Digits(Rest(d), 10)
    <3>1. /\ a = Number(Part(d), 10) /\ a \in Nat
          /\ b = Number(Rest(d), 10) /\ b \in Nat
      BY <2>8, <2>9, ListNumber, Zenon
    <3> HIDE DEF a, b
    <3>2. \A c \in MaskBits : InRange(d, c) <=> c \in a .. b
      BY <2>1, <2>9, <3>1 DEF MaskBits
    <3>3. CpusOf(v) = a .. b \cap MaskBits
      <4> HIDE DEF InRange
      <4>1. QED
        BY <2>7, <3>2
    <3>4. parse_cpu_mask(v, mask) = mask \cup (a .. b \cap MaskBits)
      BY <2>4, <3>1
    <3>5. QED
      BY <3>3, <3>4
  <2>10. CASE ~(/\ Part(d) # <<>> /\ Digits(Part(d), 10)
                /\ Rest(d) # <<>> /\ Digits(Rest(d), 10))
    <3>1. a = -1 \/ b = -1
      BY <2>8, <2>10, ListNumber, Zenon
    <3>2. \A c : ~InRange(d, c)
      BY <2>10, Zenon
    <3>3. CpusOf(v) = {}
      <4> HIDE DEF InRange
      <4>1. QED
        BY <2>7, <3>2
    <3> HIDE DEF a, b
    <3>4. parse_cpu_mask(v, mask) = mask
      <4>1. a < 0 \/ b < 0
        BY <3>1
      <4>2. QED
        BY <2>4, <4>1
    <3>5. QED
      BY <3>3, <3>4
  <2>11. QED
    BY <2>9, <2>10
<1>7. QED
  BY <1>5, <1>6

\* What the entry from i to j names.
Cpus(list, i, j) == CpusOf(SubSeq(list, i, j))

\* An empty entry names nothing.
LEMMA NothingListed == CpusOf(<<>>) = {}
<1>1. \A c : c \notin CpusOf(<<>>)
  <2>1. DOMAIN <<>> = {}
    OBVIOUS
  <2>2. QED
    BY <2>1, Zenon DEF CpusOf
<1>2. QED
  BY <1>1

\* The entries from offset s on, if an entry begins there, and what they name.
EntriesFrom(list, sep, s) ==
  {e \in (1 .. Len(list)) \X (1 .. Len(list)) :
     /\ s < e[1]
     /\ e[1] = s + 1 \/ list[e[1] - 1] = sep
     /\ e[2] = Len(list) \/ list[e[2] + 1] = sep
     /\ \A k \in e[1] .. e[2] : list[k] # sep}

ListedFrom(list, sep, s) == UNION {Cpus(list, e[1], e[2]) : e \in EntriesFrom(list, sep, s)}

\* Only entries that are not empty name anything.
LEMMA ListedAhead ==
  ASSUME NEW S, NEW v \in Seq(S), NEW sep, NEW s \in Nat
  PROVE  \A c : c \in ListedFrom(v, sep, s) <=>
           \E i \in 1 .. Len(v), j \in 1 .. Len(v) :
             /\ s < i /\ i <= j
             /\ i = s + 1 \/ v[i - 1] = sep
             /\ j = Len(v) \/ v[j + 1] = sep
             /\ \A k \in i .. j : v[k] # sep
             /\ c \in Cpus(v, i, j)
<1>1. ASSUME NEW i \in 1 .. Len(v), NEW j \in 1 .. Len(v), NEW c, c \in Cpus(v, i, j)
      PROVE  i <= j
  <2>1. SUFFICES ASSUME i > j PROVE FALSE
    OBVIOUS
  <2>2. SubSeq(v, i, j) = <<>>
    BY <2>1, SliceOfView
  <2>3. QED
    BY <1>1, <2>2, NothingListed DEF Cpus
<1>2. ASSUME NEW c, c \in ListedFrom(v, sep, s)
      PROVE  \E i \in 1 .. Len(v), j \in 1 .. Len(v) :
               /\ s < i /\ i <= j
               /\ i = s + 1 \/ v[i - 1] = sep
               /\ j = Len(v) \/ v[j + 1] = sep
               /\ \A k \in i .. j : v[k] # sep
               /\ c \in Cpus(v, i, j)
  <2>1. PICK e \in EntriesFrom(v, sep, s) : c \in Cpus(v, e[1], e[2])
    BY <1>2 DEF ListedFrom
  <2>2. /\ e[1] \in 1 .. Len(v) /\ e[2] \in 1 .. Len(v) /\ s < e[1]
        /\ e[1] = s + 1 \/ v[e[1] - 1] = sep
        /\ e[2] = Len(v) \/ v[e[2] + 1] = sep
        /\ \A k \in e[1] .. e[2] : v[k] # sep
    BY DEF EntriesFrom
  <2>3. QED
    BY <1>1, <2>1, <2>2, Zenon
<1>3. ASSUME NEW c, NEW i \in 1 .. Len(v), NEW j \in 1 .. Len(v),
             s < i, i = s + 1 \/ v[i - 1] = sep, j = Len(v) \/ v[j + 1] = sep,
             \A k \in i .. j : v[k] # sep, c \in Cpus(v, i, j)
      PROVE  c \in ListedFrom(v, sep, s)
  <2>1. <<i, j>> \in EntriesFrom(v, sep, s)
    BY <1>3 DEF EntriesFrom
  <2>2. QED
    BY <1>3, <2>1 DEF ListedFrom
<1>4. QED
  BY <1>2, <1>3, Zenon

\* An entry, and what is behind its comma.
LEMMA ListedSplit ==
  ASSUME NEW S, NEW v \in Seq(S), NEW sep, NEW s \in Nat
  PROVE  /\ s >= Len(v) => ListedFrom(v, sep, s) = {}
         /\ s < Len(v) /\ (\A k \in s + 1 .. Len(v) : v[k] # sep) =>
              ListedFrom(v, sep, s) = Cpus(v, s + 1, Len(v))
         /\ \A p \in s + 1 .. Len(v) :
              v[p] = sep /\ (\A k \in s + 1 .. p - 1 : v[k] # sep) =>
                ListedFrom(v, sep, s) = Cpus(v, s + 1, p - 1) \cup ListedFrom(v, sep, p)
<1>1. Len(v) \in Nat
  OBVIOUS
<1>2. ASSUME s >= Len(v) PROVE ListedFrom(v, sep, s) = {}
  <2>1. \A i \in 1 .. Len(v) : ~(s < i)
    BY <1>1, <1>2
  <2>2. \A c : c \notin ListedFrom(v, sep, s)
    BY <2>1, ListedAhead
  <2>3. QED
    BY <2>2
<1>3. ASSUME s < Len(v), \A k \in s + 1 .. Len(v) : v[k] # sep
      PROVE  ListedFrom(v, sep, s) = Cpus(v, s + 1, Len(v))
  <2>1. ASSUME NEW c, c \in ListedFrom(v, sep, s) PROVE c \in Cpus(v, s + 1, Len(v))
    <3>1. PICK i \in 1 .. Len(v), j \in 1 .. Len(v) :
             /\ s < i /\ i <= j
             /\ i = s + 1 \/ v[i - 1] = sep
             /\ j = Len(v) \/ v[j + 1] = sep
             /\ c \in Cpus(v, i, j)
      BY <2>1, ListedAhead
    <3>2. i = s + 1
      <4>1. i # s + 1 => i - 1 \in s + 1 .. Len(v)
        BY <1>1, <3>1
      <4>2. QED
        BY <1>3, <3>1, <4>1
    <3>3. j = Len(v)
      <4>1. j # Len(v) => j + 1 \in s + 1 .. Len(v)
        BY <1>1, <3>1
      <4>2. QED
        BY <1>3, <3>1, <4>1
    <3>4. QED
      BY <3>1, <3>2, <3>3
  <2>2. ASSUME NEW c, c \in Cpus(v, s + 1, Len(v)) PROVE c \in ListedFrom(v, sep, s)
    <3>1. PICK i : i = s + 1
      OBVIOUS
    <3>2. i \in 1 .. Len(v) /\ Len(v) \in 1 .. Len(v) /\ s < i /\ i <= Len(v)
      BY <1>1, <1>3, <3>1
    <3>3. QED
      BY <1>3, <2>2, <3>1, <3>2, ListedAhead, Zenon
  <2>3. QED
    BY <2>1, <2>2
<1>4. ASSUME NEW p \in s + 1 .. Len(v), v[p] = sep, \A k \in s + 1 .. p - 1 : v[k] # sep
      PROVE  ListedFrom(v, sep, s) = Cpus(v, s + 1, p - 1) \cup ListedFrom(v, sep, p)
  <2>1. p \in Nat /\ s < p /\ p <= Len(v) /\ p \in 1 .. Len(v)
    BY <1>1
  <2>2. ASSUME NEW c, c \in ListedFrom(v, sep, s)
        PROVE  c \in Cpus(v, s + 1, p - 1) \/ c \in ListedFrom(v, sep, p)
    <3>1. PICK i \in 1 .. Len(v), j \in 1 .. Len(v) :
             /\ s < i /\ i <= j
             /\ i = s + 1 \/ v[i - 1] = sep
             /\ j = Len(v) \/ v[j + 1] = sep
             /\ \A k \in i .. j : v[k] # sep
             /\ c \in Cpus(v, i, j)
      BY <2>2, ListedAhead
    <3>2. ~(i <= p /\ p <= j)
      BY <1>4, <2>1, <3>1
    <3>3. CASE j < p
      <4>1. j + 1 \in s + 1 .. p /\ (j + 1 # p => j + 1 \in s + 1 .. p - 1) /\ j # Len(v)
        BY <1>1, <2>1, <3>1, <3>3
      <4>2. j + 1 = p
        BY <1>4, <3>1, <4>1
      <4>3. i # s + 1 => i - 1 \in s + 1 .. p - 1
        BY <2>1, <3>1, <3>3
      <4>4. i = s + 1
        BY <1>4, <3>1, <4>3
      <4>5. j = p - 1
        BY <2>1, <4>2
      <4>6. QED
        BY <3>1, <4>4, <4>5
    <3>4. CASE p < i
      <4>1. v[i - 1] = sep
        <5>1. i # s + 1
          BY <2>1, <3>4
        <5>2. QED
          BY <3>1, <5>1
      <4>2. QED
        BY <3>1, <3>4, <4>1, <2>1, ListedAhead, Zenon
    <3>5. QED
      BY <2>1, <3>1, <3>2, <3>3, <3>4
  <2>3. ASSUME NEW c, c \in Cpus(v, s + 1, p - 1) PROVE c \in ListedFrom(v, sep, s)
    <3>1. PICK i, j : i = s + 1 /\ j = p - 1
      OBVIOUS
    <3>2. i <= j
      <4>1. SUFFICES ASSUME i > j PROVE FALSE
        BY <2>1, <3>1
      <4>2. i \in Nat /\ i > 0 /\ j \in Nat /\ j <= Len(v)
        BY <1>1, <2>1, <3>1
      <4>3. SubSeq(v, i, j) = <<>>
        BY <4>1, <4>2, SliceOfView
      <4>4. QED
        BY <2>3, <3>1, <4>3, NothingListed DEF Cpus
    <3>3. /\ i \in 1 .. Len(v) /\ j \in 1 .. Len(v) /\ s < i /\ v[j + 1] = sep
          /\ \A k \in i .. j : v[k] # sep
      BY <1>1, <1>4, <2>1, <3>1, <3>2
    <3>4. c \in Cpus(v, i, j)
      BY <2>3, <3>1
    <3>5. QED
      BY <3>1, <3>2, <3>3, <3>4, ListedAhead, Zenon
  <2>4. ASSUME NEW c, c \in ListedFrom(v, sep, p) PROVE c \in ListedFrom(v, sep, s)
    <3>1. PICK i \in 1 .. Len(v), j \in 1 .. Len(v) :
             /\ p < i /\ i <= j
             /\ i = p + 1 \/ v[i - 1] = sep
             /\ j = Len(v) \/ v[j + 1] = sep
             /\ \A k \in i .. j : v[k] # sep
             /\ c \in Cpus(v, i, j)
      BY <2>1, <2>4, ListedAhead
    <3>2. s < i /\ v[i - 1] = sep
      <4>1. i = p + 1 => i - 1 = p
        BY <2>1
      <4>2. QED
        BY <1>4, <2>1, <3>1, <4>1
    <3>3. QED
      BY <3>1, <3>2, ListedAhead, Zenon
  <2>5. QED
    BY <2>2, <2>3, <2>4
<1>5. QED
  BY <1>2, <1>3, <1>4

\* The loop over the entries adds what they name, whatever the mask was.
LEMMA ListParsed ==
  ASSUME NEW S, NEW v \in Seq(S), IsCpuList(v), NEW cpu_mask \in SUBSET MaskBits
  PROVE  parse_cpu_mask_entries(v, cpu_mask) = cpu_mask \cup Listed(v)
<1> DEFINE Loops == [passed : Nat, mask : SUBSET MaskBits]
           rest(l) == PopFront(v, l.passed)
           comma(l) == IndexOfChar(rest(l), ",")
           rest_parsed(l) == parse_cpu_mask(rest(l), l.mask)
           next(l) == [passed |-> l.passed + comma(l) + 1,
                       mask |-> parse_cpu_mask(KeepFront(rest(l), comma(l)), l.mask)]
           Runs(f) == f = [l \in Loops |-> IF rest(l) = <<>> THEN l.mask
                                           ELSE IF comma(l) < 0 THEN rest_parsed(l)
                                           ELSE f[next(l)]]
           from == CHOOSE f : Runs(f)
           start == [passed |-> 0, mask |-> cpu_mask]
           Ahead(s) == ListedFrom(v, ",", s)
           Result(l) == l.mask \cup Ahead(l.passed)
           target == [l \in Loops |-> Result(l)]
<1>1. parse_cpu_mask_entries(v, cpu_mask) = from[start]
  BY DEF parse_cpu_mask_entries
<1>2. Len(v) \in Nat /\ \A k \in 1 .. Len(v) : v[k] # NUL
  BY DEF IsCpuList, ToSet
<1>3. ASSUME NEW l \in Loops
      PROVE  /\ rest(l) = <<>> => Result(l) = l.mask
             /\ rest(l) # <<>> /\ comma(l) < 0 => Result(l) = rest_parsed(l)
             /\ rest(l) # <<>> /\ ~(comma(l) < 0) =>
                  /\ next(l) \in Loops /\ Result(next(l)) = Result(l)
                  /\ l.passed < next(l).passed /\ next(l).passed <= Len(v)
  <2>1. PICK s \in Nat, mask \in SUBSET MaskBits : s = l.passed /\ mask = l.mask
    OBVIOUS
  <2>2. PICK r : r = PopFront(v, s)
    OBVIOUS
  <2>3. PICK c : c = ","
    OBVIOUS
  <2>4. PICK at : at = IndexOfChar(r, c)
    OBVIOUS
  <2>5. /\ rest(l) = r /\ comma(l) = at
        /\ rest_parsed(l) = parse_cpu_mask(r, mask)
        /\ next(l) = [passed |-> s + at + 1,
                      mask |-> parse_cpu_mask(KeepFront(r, at), mask)]
        /\ Result(l) = mask \cup ListedFrom(v, c, s)
    BY <2>1, <2>2, <2>3, <2>4, Zenon
  <2> HIDE DEF rest, comma, rest_parsed, next, Result
  <2>6. /\ r \in Seq(S)
        /\ s > Len(v) => Len(r) = 0
        /\ s <= Len(v) => /\ Len(r) = Len(v) - s
                          /\ \A i \in 1 .. Len(v) - s : r[i] = v[s + i]
    BY <2>2, Popped
  <2>7. CASE r = <<>>
    <3>1. s >= Len(v)
      BY <1>2, <2>6, <2>7
    <3>2. ListedFrom(v, c, s) = {}
      BY <3>1, ListedSplit
    <3>3. Result(l) = mask
      BY <2>5, <3>2
    <3>4. QED
      BY <2>1, <2>5, <2>7, <3>3, Zenon
  <2>8. CASE r # <<>>
    <3>1. s < Len(v)
      BY <1>2, <2>6, <2>8
    <3>2. r = SubSeq(v, s + 1, Len(v))
      BY <1>2, <2>2, <3>1 DEF PopFront
    <3>3. \A k \in 1 .. Len(r) : r[k] # NUL
      <4>1. \A k \in 1 .. Len(r) : s + k \in 1 .. Len(v) /\ r[k] = v[s + k]
        BY <1>2, <2>6, <3>1
      <4>2. QED
        BY <1>2, <4>1
    <3>4. CASE at = -1 /\ \A k \in 1 .. Len(r) : r[k] # c
      <4>1. \A k \in s + 1 .. Len(v) : v[k] # c
        <5>1. SUFFICES ASSUME NEW k \in s + 1 .. Len(v) PROVE v[k] # c
          OBVIOUS
        <5>2. PICK i : i = k - s
          OBVIOUS
        <5>3. i \in 1 .. Len(r) /\ i \in 1 .. Len(v) - s /\ s + i = k
          BY <1>2, <2>6, <3>1, <5>2
        <5>4. r[i] = v[k]
          BY <1>2, <2>6, <3>1, <5>3
        <5>5. QED
          BY <3>4, <5>3, <5>4
      <4>2. ListedFrom(v, c, s) = CpusOf(r)
        BY <3>1, <3>2, <4>1, ListedSplit DEF Cpus
      <4>3. IsCpuList(r)
        BY <1>2, <3>2, PartOfList
      <4>4. parse_cpu_mask(r, mask) = mask \cup CpusOf(r)
        BY <2>6, <4>3, EntryParsed
      <4>5. comma(l) < 0 /\ Result(l) = rest_parsed(l)
        BY <2>5, <3>4, <4>2, <4>4
      <4>6. QED
        BY <2>5, <2>8, <4>5, Zenon
    <3>5. CASE \E k \in 1 .. Len(r) :
                 /\ at = k - 1 /\ r[k] = c
                 /\ \A j \in 1 .. k - 1 : r[j] # c
      <4>1. PICK k \in 1 .. Len(r) :
                 /\ at = k - 1 /\ r[k] = c
                 /\ \A j \in 1 .. k - 1 : r[j] # c
        BY <3>5
      <4>2. PICK p \in Nat : p = s + k
        OBVIOUS
      <4>3. p \in s + 1 .. Len(v) /\ s + at + 1 = p /\ at \in Nat /\ at <= Len(r) /\ s + at = p - 1
        BY <1>2, <2>6, <3>1, <4>1, <4>2
      <4>4. v[p] = c
        BY <1>2, <2>6, <3>1, <4>1, <4>2
      <4>5. \A j \in s + 1 .. p - 1 : v[j] # c
        <5>1. SUFFICES ASSUME NEW j \in s + 1 .. p - 1 PROVE v[j] # c
          OBVIOUS
        <5>2. PICK i : i = j - s
          OBVIOUS
        <5>3. i \in 1 .. k - 1 /\ i \in 1 .. Len(v) - s /\ s + i = j
          BY <1>2, <3>1, <4>2, <4>3, <5>2
        <5>4. r[i] = v[j]
          BY <1>2, <2>6, <3>1, <5>3
        <5>5. QED
          BY <4>1, <5>3, <5>4
      <4>6. ListedFrom(v, c, s) = CpusOf(SubSeq(v, s + 1, p - 1)) \cup ListedFrom(v, c, p)
        BY <4>3, <4>4, <4>5, ListedSplit DEF Cpus
      <4>7. KeepFront(r, at) = SubSeq(v, s + 1, p - 1)
        <5>1. PICK n \in Nat : n = Len(v)
          BY <1>2
        <5>2. KeepFront(r, at) = SubSeq(r, 1, at)
          BY <4>3 DEF KeepFront
        <5>3. \A one \in Nat : one = 1 =>
                SubSeq(SubSeq(v, s + 1, Len(v)), one, at) = SubSeq(v, s + one, s + at)
          BY <1>2, <2>6, <3>1, <4>3, SliceOfSlice
        <5>4. SubSeq(r, 1, at) = SubSeq(v, s + 1, s + at)
          BY <3>2, <5>3
        <5>5. QED
          BY <4>3, <5>2, <5>4
      <4>8. PICK entry : entry = SubSeq(v, s + 1, p - 1)
        OBVIOUS
      <4>9. p - 1 \in Nat /\ p - 1 <= Len(v)
        BY <1>2, <4>3
      <4>10. IsCpuList(entry) /\ entry \in Seq(S)
        BY <4>8, <4>9, PartOfList, PartOfView
      <4>11. parse_cpu_mask(entry, mask) = mask \cup CpusOf(entry)
        BY <4>10, EntryParsed
      <4>12. next(l) = [passed |-> p, mask |-> mask \cup CpusOf(entry)]
        BY <2>5, <4>3, <4>7, <4>8, <4>11, Zenon
      <4>13. CpusOf(entry) \subseteq MaskBits
        BY Zenon DEF CpusOf
      <4>14. next(l) \in Loops /\ next(l).passed = p /\ next(l).mask = mask \cup CpusOf(entry)
        BY <4>12, <4>13
      <4>15. Result(next(l)) = (mask \cup CpusOf(entry)) \cup ListedFrom(v, c, p)
        BY <2>3, <4>14, Zenon DEF Result
      <4>16. Result(next(l)) = Result(l)
        BY <2>5, <4>6, <4>8, <4>15
      <4>17. /\ l.passed < next(l).passed /\ next(l).passed <= Len(v)
             /\ ~(comma(l) < 0)
        BY <1>2, <2>1, <2>5, <4>3, <4>14
      <4>18. QED
        BY <2>5, <2>8, <4>14, <4>16, <4>17, Zenon
    <3>6. \/ at = -1 /\ \A k \in 1 .. Len(r) : r[k] # c
          \/ \E k \in 1 .. Len(r) :
               /\ at = k - 1 /\ r[k] = c
               /\ \A j \in 1 .. k - 1 : r[j] # c
      <4>1. \/ /\ at = -1
               /\ \A k \in 1 .. Len(r) : r[k] = c => \E j \in 1 .. k - 1 : r[j] = NUL
            \/ \E k \in 1 .. Len(r) :
                 /\ at = k - 1 /\ r[k] = c
                 /\ \A j \in 1 .. k - 1 : r[j] \notin {c, NUL}
        BY <2>4, <2>6, CharFound
      <4>2. \A k \in 1 .. Len(r) : \A j \in 1 .. k - 1 : j \in 1 .. Len(r)
        BY <2>6
      <4>3. QED
        BY <3>3, <4>1, <4>2
    <3>7. QED
      BY <3>4, <3>5, <3>6, Zenon
  <2>9. QED
    BY <2>7, <2>8
<1> HIDE DEF rest, comma, rest_parsed, next, Ahead
<1>4. Runs(target)
  <2>1. ASSUME NEW l \in Loops
        PROVE  target[l] = IF rest(l) = <<>> THEN l.mask
                           ELSE IF comma(l) < 0 THEN rest_parsed(l)
                           ELSE target[next(l)]
    <3> HIDE DEF Loops
    <3>1. next(l) \in Loops => target[next(l)] = Result(next(l))
      BY Zenon
    <3>2. target[l] = Result(l)
      BY Zenon
    <3> HIDE DEF target, Result
    <3>3. QED
      BY <1>3, <3>1, <3>2, Zenon
  <2>2. QED
    BY <2>1, Zenon
<1>5. Runs(from)
  BY <1>4, Zenon
<1>6. \A l \in Loops : from[l] = IF rest(l) = <<>> THEN l.mask
                                  ELSE IF comma(l) < 0 THEN rest_parsed(l)
                                  ELSE from[next(l)]
  <2> HIDE DEF from, Loops
  <2>1. QED
    BY <1>5, Zenon
<1> HIDE DEF from, Result
<1>7. \A l \in Loops : from[l] = Result(l)
  <2> DEFINE Bad == {l \in Loops : from[l] # Result(l)}
             Left == {Len(v) - l.passed : l \in Bad}
  <2>1. ASSUME NEW l \in Bad
        PROVE  /\ l.passed \in Nat /\ l.passed < Len(v)
               /\ \E t \in Bad : l.passed < t.passed
    <3>1. l \in Loops /\ l.passed \in Nat
      OBVIOUS
    <3> HIDE DEF Loops
    <3>2. rest(l) # <<>> /\ ~(comma(l) < 0)
      BY <1>3, <1>6, Zenon
    <3>3. next(l) \in Bad
      BY <1>3, <1>6, <3>1, <3>2, Zenon
    <3>4. l.passed < next(l).passed /\ next(l).passed <= Len(v)
      BY <1>3, <3>1, <3>2
    <3>5. next(l).passed \in Nat
      BY <3>3 DEF Loops
    <3>6. QED
      BY <1>2, <3>1, <3>3, <3>4, <3>5
  <2> HIDE DEF Bad
  <2>2. Left \subseteq Nat
    BY <1>2, <2>1
  <2>3. ASSUME Left # {} PROVE FALSE
    <3>1. PICK least \in Left : \A x \in Left : least <= x
      <4> HIDE DEF Left
      <4>1. QED
        BY <2>2, <2>3, LeastOf
    <3>2. PICK l \in Bad : least = Len(v) - l.passed
      OBVIOUS
    <3>3. PICK t \in Bad : l.passed < t.passed
      BY <2>1
    <3>4. Len(v) - t.passed \in Left /\ l.passed \in Nat /\ t.passed \in Nat
      BY <2>1
    <3>5. least <= Len(v) - t.passed
      BY <3>1, <3>4
    <3>6. QED
      BY <1>2, <3>2, <3>3, <3>4, <3>5
  <2>4. Bad = {}
    BY <2>3
  <2>5. QED
    BY <2>4 DEF Bad
<1>8. start \in Loops /\ start.passed = 0 /\ start.mask = cpu_mask
  OBVIOUS
<1>9. from[start] = cpu_mask \cup ListedFrom(v, ",", 0)
  <2>1. from[start] = Result(start)
    BY <1>7, <1>8, Zenon
  <2>2. QED
    BY <1>8, <2>1, Zenon DEF Result, Ahead
<1>10. ListedFrom(v, ",", 0) = Listed(v)
  <2>1. \A e \in (1 .. Len(v)) \X (1 .. Len(v)) :
          0 < e[1] /\ (e[1] = 0 + 1 <=> e[1] = 1)
    BY <1>2
  <2>2. EntriesFrom(v, ",", 0) = Entries(v)
    <3>1. ASSUME NEW e
          PROVE  e \in EntriesFrom(v, ",", 0) <=> e \in Entries(v)
      BY <2>1, Zenon DEF EntriesFrom, Entries
    <3>2. QED
      BY <3>1, Zenon
  <2>3. QED
    BY <2>2, Zenon DEF ListedFrom, Listed, Cpus
<1>11. QED
  BY <1>1, <1>9, <1>10, Zenon

\* What a mask file adds to the mask: the list, if all of its line is there.
LEMMA FileParsed ==
  ASSUME NEW S, NEW list \in Seq(S), IsCpuList(list), NEW g \in Endings,
         NEW mask \in SUBSET MaskBits
  PROVE  update_cpu_mask_from_file(MaskFile(list, g), mask)
           = mask \cup (IF g = "newline" THEN Listed(list) ELSE {})
<1>1. /\ MaskFile(list, g).line = list /\ MaskFile(list, g).ending = g
  BY DEF MaskFile
<1> DEFINE result == FirstResult(MaskFile(list, g))
           nothing == g = "eof" /\ list = <<>>
<1>2. /\ result.line = list /\ result.eof = nothing
      /\ result.full_line = (nothing \/ g = "newline")
  BY <1>1 DEF FirstResult
<1> HIDE DEF result
<1>3. CASE g = "newline"
  <2>1. g # "missing" /\ result.full_line /\ ~result.eof
    BY <1>2, <1>3
  <2>2. update_cpu_mask_from_file(MaskFile(list, g), mask)
          = parse_cpu_mask_entries(list, mask)
    BY <1>1, <1>2, <2>1, Zenon
       DEF update_cpu_mask_from_file, parse_cpu_mask_line, result
  <2>3. parse_cpu_mask_entries(list, mask) = mask \cup Listed(list)
    BY ListParsed
  <2>4. QED
    BY <1>3, <2>2, <2>3
<1>4. CASE g # "newline"
  <2>1. ~result.full_line \/ result.eof
    BY <1>2, <1>4
  <2>2. update_cpu_mask_from_file(MaskFile(list, g), mask) = mask
    BY <2>1, Zenon DEF update_cpu_mask_from_file, parse_cpu_mask_line, result
  <2>3. QED
    BY <1>4, <2>2
<1>5. QED
  BY <1>3, <1>4

\* The CPUs that the two mask files list are counted once (CpuCountExact), for
\* every list, and whatever became of either file.
THEOREM CpuCountExactCorrect == EveryView => []CpuCountExact
<1>1. ViewOK => CpuCountExact
  <2> SUFFICES ASSUME ViewOK, IsCpuList(view), IsCpuList(word),
                      NEW e \in Endings, NEW f \in Endings
               PROVE  get_cpu_count(MaskFile(view, e), MaskFile(word, f)) =
                        Cardinality((IF e = "newline" THEN Listed(view) ELSE {})
                                      \cup (IF f = "newline" THEN Listed(word) ELSE {}))
    BY Zenon DEF CpuCountExact
  <2> DEFINE W == {test.word[i] : i \in DOMAIN test.word}
  <2>1. view \in Seq(test.chars) /\ word \in Seq(W)
    BY ViewsAssumption DEF ViewOK, ViewsAssumption, word
  <2> HIDE DEF W
  <2>3. \A list : Listed(list) \subseteq MaskBits
    <3>1. \A t : CpusOf(t) \subseteq MaskBits
      BY Zenon DEF CpusOf
    <3>2. QED
      BY <3>1 DEF Listed
  <2> DEFINE present == IF e = "newline" THEN Listed(view) ELSE {}
             possible == IF f = "newline" THEN Listed(word) ELSE {}
  <2>4. present \in SUBSET MaskBits
    BY <2>3
  <2>5. update_cpu_mask_from_file(MaskFile(view, e), {}) = present
    <3>1. PICK none \in SUBSET MaskBits : none = {}
      OBVIOUS
    <3>2. update_cpu_mask_from_file(MaskFile(view, e), none) = none \cup present
      BY <2>1, FileParsed
    <3> HIDE DEF present
    <3>3. QED
      BY <3>1, <3>2
  <2> HIDE DEF present
  <2>6. update_cpu_mask_from_file(MaskFile(word, f), present) = present \cup possible
    BY <2>1, <2>4, FileParsed
  <2>7. get_cpu_count(MaskFile(view, e), MaskFile(word, f)) = Cardinality(present \cup possible)
    BY <2>5, <2>6, Zenon DEF get_cpu_count
  <2>8. QED
    BY <2>7 DEF present
<1>2. QED
  BY <1>1, ViewsOK, PTL
===============================================================================
