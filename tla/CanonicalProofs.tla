-------------------------- MODULE CanonicalProofs --------------------------
(***************************************************************************)
(* Theorems about Canonical for any observations, scales, width of the      *)
(* integers and limits of f64 that meet the assumption.                     *)
(*                                                                          *)
(* PipelineInv says only where a canonical value came from; the theorems    *)
(* are about the functions it went through.  Rounding is within half a step *)
(* (RoundedIs) and the only integer that is within less (RoundedUnique).  A *)
(* normalised component, which the model finds by comparing squares, exists *)
(* and is one (NearestExists, NearestIsOne) and depends on the direction    *)
(* alone (QuantisedMultiple).                                               *)
(***************************************************************************)
EXTENDS Canonical, WellFoundedInduction, TLAPS

(* Comparing products of a positive factor.                                 *)
LEMMA Times ==
    ASSUME NEW n \in Nat \ {0}, NEW a \in Int, NEW b \in Int
    PROVE  /\ n * a \in Int
           /\ a < b <=> n * a < n * b
           /\ a = b <=> n * a = n * b
           /\ a <= b => n * a <= n * b
  OBVIOUS

(* Division with remainder.                                                 *)
LEMMA Divided ==
    ASSUME NEW num \in Int, NEW den \in Nat \ {0}
    PROVE  /\ num \div den \in Int /\ num % den \in Nat
           /\ num = den * (num \div den) + (num % den)
           /\ num % den < den
  <1>1. den \in Int /\ den > 0
    OBVIOUS
  <1>2. num = den * (num \div den) + (num % den)
    BY <1>1, SMT
  <1>3. num \div den \in Int
    OBVIOUS
  <1>4. num % den \in 0..(den - 1)
    OBVIOUS
  <1> QED
    BY <1>2, <1>3, <1>4

(* Rounding is to within half a step, and nothing else is nearer.           *)
LEMMA RoundedIs ==
    ASSUME NEW num \in Int, NEW den \in Nat \ {0}
    PROVE  LET r == RoundedEven(num, den)
           IN  /\ r \in Int
               /\ -den <= 2 * (num - den * r) /\ 2 * (num - den * r) <= den
  <1> DEFINE f == num \div den
             m == num % den
  <1>1. f \in Int /\ m \in Nat /\ num = den * f + m /\ m < den
    BY Divided
  <1>2. RoundedEven(num, den) = IF 2 * m > den \/ (2 * m = den /\ f % 2 = 1) THEN f + 1 ELSE f
    BY DEF RoundedEven
  <1> HIDE DEF f, m
  <1>3. den * f \in Int /\ den * (f + 1) = den * f + den
    BY <1>1
  <1> DEFINE p == den * f
             pp == den * (f + 1)
  <1>4. p \in Int /\ pp = p + den /\ num - p = m /\ num - pp = m - den
    BY <1>1, <1>3
  <1> HIDE DEF p, pp
  <1>5. CASE RoundedEven(num, den) = f + 1 /\ 2 * m >= den
    <2>1. -den <= 2 * (num - pp) /\ 2 * (num - pp) <= den
      BY <1>1, <1>4, <1>5
    <2> QED
      BY <1>1, <1>5, <2>1 DEF pp
  <1>6. CASE RoundedEven(num, den) = f /\ 2 * m <= den
    <2>1. -den <= 2 * (num - p) /\ 2 * (num - p) <= den
      BY <1>1, <1>4, <1>6
    <2> QED
      BY <1>1, <1>6, <2>1 DEF p
  <1> QED
    BY <1>1, <1>2, <1>5, <1>6

(* An integer less than half a step away is the one that is rounded to.     *)
LEMMA RoundedUnique ==
    ASSUME NEW num \in Int, NEW den \in Nat \ {0}, NEW c \in Int,
           -den < 2 * (num - den * c), 2 * (num - den * c) < den
    PROVE  RoundedEven(num, den) = c
  <1> DEFINE r == RoundedEven(num, den)
             x == den * r
             y == den * c
  <1>1. r \in Int /\ -den <= 2 * (num - x) /\ 2 * (num - x) <= den
    BY RoundedIs
  <1> HIDE DEF r
  <1>2. x \in Int /\ y \in Int
    BY <1>1
  <1>3. r < c => x + den <= y
    <2> SUFFICES ASSUME r < c PROVE x + den <= y
      OBVIOUS
    <2>1. den * (r + 1) = x + den
      BY <1>1
    <2>2. den * (r + 1) <= y
      BY <1>1, Times
    <2> QED
      BY <2>1, <2>2
  <1>4. c < r => y + den <= x
    <2> SUFFICES ASSUME c < r PROVE y + den <= x
      OBVIOUS
    <2>1. den * (c + 1) = y + den
      BY <1>1
    <2>2. den * (c + 1) <= x
      BY <1>1, Times
    <2> QED
      BY <2>1, <2>2
  <1>5. -den < 2 * (num - y) /\ 2 * (num - y) < den
    OBVIOUS
  <1> HIDE DEF x, y
  <1>6. ~(x + den <= y) /\ ~(y + den <= x)
    BY <1>1, <1>2, <1>5
  <1>7. r = c
    BY <1>1, <1>3, <1>4, <1>6
  <1> QED
    BY <1>7 DEF r

-----------------------------------------------------------------------------
(* k is w * Scale / sqrt(square) rounded to the nearest, for w >= 0, e      *)
(* being the square of twice the product.                                   *)
Square(k) == k * k

Above(k, e, square) ==
    \/ Square(2 * k + 1) * square > e
    \/ Square(2 * k + 1) * square = e /\ k % 2 = 0

Below(k, e, square) ==
    k > 0 => \/ Square(2 * k - 1) * square < e
             \/ Square(2 * k - 1) * square = e /\ k % 2 = 0

Nearest(k, e, square) == Below(k, e, square) /\ Above(k, e, square)

(* A set of naturals that is not empty has a least element.                 *)
LEMMA LeastNatural ==
    ASSUME NEW T \in SUBSET Nat, T # {}
    PROVE  \E x \in T : \A y \in T : x <= y
  <1> DEFINE Less == {p \in Nat \X Nat : p[1] < p[2]}
  <1>1. IsWellFoundedOn(Less, Nat)
    <2>1. OpToRel(<, Nat) = Less
      BY DEF OpToRel
    <2> QED
      BY <2>1, NatLessThanWellFounded
  <1> HIDE DEF Less
  <1>2. PICK x \in T : \A y \in T : <<y, x>> \notin Less
    BY <1>1, WFMin
  <1>3. ASSUME NEW y \in T PROVE x <= y
    <2>1. x \in Nat /\ y \in Nat
      OBVIOUS
    <2>2. ~(y < x)
      BY <1>2, <2>1 DEF Less
    <2> QED
      BY <2>1, <2>2
  <1> QED
    BY <1>3

(* Squares of naturals are in the order of the naturals.                    *)
LEMMA SquareGrows ==
    ASSUME NEW a \in Nat, NEW b \in Nat, a <= b
    PROVE  /\ Square(a) \in Nat /\ Square(b) \in Nat
           /\ Square(a) <= Square(b)
           /\ Square(a) = Square(b) => a = b
  BY DEF Square

(* Of two numbers only one is nearest.                                      *)
LEMMA NearestIsOne ==
    ASSUME NEW j \in Nat, NEW k \in Nat, NEW e \in Int, NEW square \in Nat \ {0},
           Nearest(j, e, square), Nearest(k, e, square)
    PROVE  ~(j < k)
  <1> SUFFICES ASSUME j < k PROVE FALSE
    OBVIOUS
  <1> DEFINE a == 2 * j + 1
             b == 2 * k - 1
             x == square * Square(a)
             y == square * Square(b)
  <1>1. a \in Nat /\ b \in Nat /\ a <= b /\ (a = b => k = j + 1)
    OBVIOUS
  <1>2. /\ Square(a) \in Nat /\ Square(b) \in Nat /\ Square(a) <= Square(b)
        /\ Square(a) = Square(b) => a = b
    <2> HIDE DEF a, b
    <2> QED
      BY <1>1, SquareGrows
  <1>3. x \in Int /\ y \in Int /\ x <= y /\ (x = y => Square(a) = Square(b))
    <2> DEFINE p == Square(a)
               q == Square(b)
    <2>1. p \in Int /\ q \in Int /\ p <= q
      BY <1>2
    <2> HIDE DEF p, q
    <2>2. square * p \in Int /\ square * q \in Int /\ square * p <= square * q
          /\ (p = q <=> square * p = square * q)
      BY <2>1, Times
    <2> QED
      BY <2>2 DEF p, q
  <1>4. x > e \/ (x = e /\ j % 2 = 0)
    <2>1. Square(a) * square = x
      BY <1>2
    <2> QED
      BY <2>1 DEF Nearest, Above
  <1>5. y < e \/ (y = e /\ k % 2 = 0)
    <2>1. Square(b) * square = y /\ k > 0
      BY <1>2
    <2> QED
      BY <2>1 DEF Nearest, Below
  <1> HIDE DEF x, y, a, b
  <1>6. x = y /\ j % 2 = 0 /\ k % 2 = 0
    BY <1>3, <1>4, <1>5
  <1>7. k = j + 1
    BY <1>1, <1>2, <1>3, <1>6
  <1>8. (j + 1) % 2 # 0
    BY <1>6
  <1> QED
    BY <1>6, <1>7, <1>8

(* There is one among those Quantised looks at.                             *)
LEMMA NearestExists ==
    ASSUME NEW x \in Nat, NEW square \in Nat \ {0}
    PROVE  \E k \in 0..x : Nearest(k, Square(2 * x), square)
  <1> DEFINE e == Square(2 * x)
             Enough == {k \in 0..x : Above(k, e, square)}
  <1>1. e \in Nat
    BY DEF Square
  <1>2. Above(x, e, square)
    <2> DEFINE s == Square(2 * x + 1)
    <2>1. s \in Nat /\ e < s
      BY DEF Square
    <2> HIDE DEF s, e
    <2>2. s <= s * square
      BY <2>1
    <2>3. s * square \in Int
      BY <2>1
    <2>4. s * square > e
      BY <1>1, <2>1, <2>2, <2>3
    <2> QED
      BY <2>4 DEF Above, s
  <1>3. Enough \in SUBSET Nat /\ Enough # {}
    BY <1>2
  <1>4. PICK k \in Enough : \A j \in Enough : k <= j
    <2> HIDE DEF Enough
    <2> QED
      BY <1>3, LeastNatural
  <1>5. k \in 0..x /\ Above(k, e, square)
    OBVIOUS
  <1>6. Below(k, e, square)
    <2> SUFFICES ASSUME k > 0
                 PROVE  \/ Square(2 * k - 1) * square < e
                        \/ Square(2 * k - 1) * square = e /\ k % 2 = 0
      BY DEF Below
    <2>1. k - 1 \in 0..x /\ ~(k <= k - 1)
      BY <1>5
    <2>2. ~Above(k - 1, e, square)
      BY <1>4, <2>1
    <2> DEFINE y == Square(2 * k - 1) * square
    <2>3. Square(2 * (k - 1) + 1) * square = y /\ y \in Int
      BY <1>5 DEF Square
    <2>4. ~(y > e) /\ ~(y = e /\ (k - 1) % 2 = 0)
      BY <2>2, <2>3 DEF Above
    <2> HIDE DEF y, e
    <2>5. y < e \/ (y = e /\ (k - 1) % 2 # 0)
      BY <1>1, <2>3, <2>4
    <2>6. (k - 1) % 2 # 0 => k % 2 = 0
      BY <1>5
    <2> QED
      BY <2>5, <2>6 DEF y
  <1> QED
    BY <1>5, <1>6 DEF Nearest

(* What Quantised returns: the nearest, with the sign of w.                 *)
LEMMA QuantisedIs ==
    ASSUME NEW w \in Int, NEW square \in Nat \ {0}
    PROVE  \E k \in Nat :
              /\ k <= Scale * Abs(w)
              /\ Nearest(k, Square(2 * (Scale * Abs(w))), square)
              /\ Quantised(w, square) = IF w < 0 THEN -k ELSE k
  <1> DEFINE x == Scale * Abs(w)
             exact2 == 4 * Scale * Scale * w * w
             Right(k) == /\ k > 0 => \/ (2 * k - 1) * (2 * k - 1) * square < exact2
                                     \/ /\ (2 * k - 1) * (2 * k - 1) * square = exact2
                                        /\ k % 2 = 0
                         /\ \/ (2 * k + 1) * (2 * k + 1) * square > exact2
                            \/ /\ (2 * k + 1) * (2 * k + 1) * square = exact2
                               /\ k % 2 = 0
             size == CHOOSE k \in 0..x : Right(k)
  <1>1. Scale \in Nat \ {0}
    BY CanonicalAssumption
  <1>2. Abs(w) \in Nat /\ Abs(w) * Abs(w) = w * w
    BY DEF Abs
  <1>3. x \in Nat
    BY <1>1, <1>2
  <1>4. exact2 = Square(2 * x)
    <2> DEFINE v == Abs(w)
    <2>1. exact2 = 4 * Scale * Scale * (w * w)
      BY <1>1
    <2>2. 4 * Scale * Scale * (v * v) = (2 * (Scale * v)) * (2 * (Scale * v))
      BY <1>1, <1>2
    <2> QED
      BY <1>2, <2>1, <2>2 DEF Square
  <1> HIDE DEF exact2
  <1>5. \A k \in 0..x : Right(k) <=> Nearest(k, Square(2 * x), square)
    BY <1>4 DEF Nearest, Above, Below, Square
  <1>6. \E k \in 0..x : Right(k)
    <2>1. PICK k \in 0..x : Nearest(k, Square(2 * x), square)
      <3> HIDE DEF x
      <3> QED
        BY <1>3, NearestExists
    <2> QED
      BY <1>5, <2>1
  <1>7. Quantised(w, square) = IF w < 0 THEN -size ELSE size
    BY DEF Quantised, exact2
  <1>8. size \in 0..x /\ Right(size)
    <2> HIDE DEF Right, x
    <2> QED
      BY <1>6
  <1>9. Nearest(size, Square(2 * x), square) /\ size \in Nat /\ size <= x
    <2> HIDE DEF Right, size, x
    <2> QED
      BY <1>3, <1>5, <1>8
  <1> HIDE DEF size
  <1> QED
    BY <1>7, <1>9

(* Being the nearest is a matter of the ratio only.                         *)
LEMMA NearestOfMultiple ==
    ASSUME NEW k \in Nat, NEW e \in Int, NEW square \in Nat \ {0}, NEW n \in Nat \ {0},
           Nearest(k, e, square)
    PROVE  Nearest(k, n * e, n * square)
  <1> DEFINE a == Square(2 * k + 1) * square
             b == Square(2 * k - 1) * square
  <1>1. a \in Int /\ b \in Int
    BY DEF Square
  <1>2. Square(2 * k + 1) * (n * square) = n * a /\ Square(2 * k - 1) * (n * square) = n * b
    <2> DEFINE p == Square(2 * k + 1)
               q == Square(2 * k - 1)
    <2>1. p \in Int /\ q \in Int
      BY DEF Square
    <2> HIDE DEF p, q
    <2>2. p * (n * square) = n * (p * square) /\ q * (n * square) = n * (q * square)
      BY <2>1
    <2> QED
      BY <2>2 DEF p, q
  <1>3. a > e \/ (a = e /\ k % 2 = 0)
    BY DEF Nearest, Above
  <1>4. k > 0 => b < e \/ (b = e /\ k % 2 = 0)
    BY DEF Nearest, Below
  <1> HIDE DEF a, b
  <1>5. (e < a => n * e < n * a) /\ (b < e => n * b < n * e)
    BY <1>1, Times
  <1>6. n * a > n * e \/ (n * a = n * e /\ k % 2 = 0)
    BY <1>1, <1>3, <1>5
  <1>7. k > 0 => n * b < n * e \/ (n * b = n * e /\ k % 2 = 0)
    BY <1>1, <1>4, <1>5
  <1> QED
    BY <1>2, <1>6, <1>7 DEF Nearest, Above, Below

(* A multiple of a vector and of its length is the same direction.          *)
LEMMA QuantisedMultiple ==
    ASSUME NEW w \in Int, NEW square \in Nat \ {0}, NEW n \in Nat \ {0}
    PROVE  Quantised(n * w, (n * n) * square) = Quantised(w, square)
  <1> DEFINE x  == Scale * Abs(w)
             nx == Scale * Abs(n * w)
             e  == Square(2 * x)
  <1>1. n * n \in Nat \ {0} /\ (n * n) * square \in Nat \ {0} /\ n * w \in Int
    <2>1. n * n \in Nat \ {0}
      OBVIOUS
    <2> DEFINE m == n * n
    <2> HIDE DEF m
    <2>2. m \in Nat \ {0} => m * square \in Nat \ {0}
      OBVIOUS
    <2> QED
      BY <2>1, <2>2 DEF m
  <1>2. PICK k \in Nat : /\ Nearest(k, e, square)
                         /\ Quantised(w, square) = IF w < 0 THEN -k ELSE k
    BY QuantisedIs
  <1>3. PICK j \in Nat : /\ Nearest(j, Square(2 * nx), (n * n) * square)
                         /\ Quantised(n * w, (n * n) * square) = IF n * w < 0 THEN -j ELSE j
    BY <1>1, QuantisedIs
  <1>4. Scale \in Nat /\ Abs(w) \in Nat /\ Abs(n * w) = n * Abs(w) /\ (n * w < 0 <=> w < 0)
    BY CanonicalAssumption DEF Abs
  <1>5. Square(2 * nx) = (n * n) * e /\ e \in Int
    <2> DEFINE v == Abs(w)
    <2>1. v \in Nat /\ nx = Scale * (n * v)
      BY <1>4
    <2>2. (2 * (Scale * (n * v))) * (2 * (Scale * (n * v)))
            = (n * n) * ((2 * (Scale * v)) * (2 * (Scale * v)))
      BY <1>4
    <2>3. (2 * (Scale * v)) * (2 * (Scale * v)) \in Int
      BY <1>4
    <2> QED
      BY <2>1, <2>2, <2>3 DEF Square
  <1> HIDE DEF e, nx
  <1>6. Nearest(k, (n * n) * e, (n * n) * square)
    BY <1>1, <1>2, <1>5, NearestOfMultiple
  <1> DEFINE ne == (n * n) * e
             ns == (n * n) * square
  <1>7. /\ ne \in Int /\ ns \in Nat \ {0}
        /\ Nearest(k, ne, ns) /\ Nearest(j, ne, ns)
    BY <1>1, <1>3, <1>5, <1>6
  <1> HIDE DEF ne, ns
  <1>8. ~(j < k) /\ ~(k < j)
    BY <1>7, NearestIsOne
  <1>9. j = k
    BY <1>8
  <1> QED
    BY <1>2, <1>3, <1>4, <1>9

(* Zero is zero; no sign is turned; a component of which eight squares make *)
(* up the square of the length is seen.                                     *)
LEMMA QuantisedSign ==
    ASSUME NEW w \in Int, NEW square \in Nat \ {0}
    PROVE  /\ Quantised(w, square) \in Int
           /\ w = 0 => Quantised(w, square) = 0
           /\ w > 0 => Quantised(w, square) >= 0
           /\ 8 * (w * w) >= square => Quantised(w, square) # 0
  <1> DEFINE x == Scale * Abs(w)
  <1>1. PICK k \in Nat : /\ k <= x
                         /\ Nearest(k, Square(2 * x), square)
                         /\ Quantised(w, square) = IF w < 0 THEN -k ELSE k
    BY QuantisedIs
  <1>2. Scale \in Nat /\ Scale > 1 /\ Abs(w) \in Nat /\ (w = 0 => Abs(w) = 0)
    BY CanonicalAssumption DEF Abs
  <1>3. w = 0 => k = 0
    BY <1>1, <1>2
  <1>4. ASSUME 8 * (w * w) >= square, k = 0 PROVE FALSE
    <2>0. w # 0
      BY <1>4
    <2>1. Square(1) * square >= Square(2 * x)
      <3>1. Above(0, Square(2 * x), square)
        BY <1>1, <1>4 DEF Nearest
      <3> DEFINE e == Square(2 * x)
                 p == Square(1) * square
      <3>2. e \in Int /\ p \in Int
        BY <1>2 DEF Square
      <3>3. 2 * 0 + 1 = 1
        OBVIOUS
      <3>4. p > e \/ p = e
        <4> HIDE DEF x
        <4> QED
          BY <3>1, <3>3 DEF Above
      <3> HIDE DEF e, p
      <3>5. p >= e
        BY <3>2, <3>4
      <3> QED
        BY <3>5 DEF e, p
    <2>2. Square(1) * square = square
      BY DEF Square
    <2> DEFINE v == w * w
    <2>3. Square(2 * x) = (Scale * Scale) * (4 * v)
      <3> DEFINE a == Abs(w)
      <3>1. a * a = w * w
        BY DEF Abs
      <3>2. (2 * (Scale * a)) * (2 * (Scale * a)) = (Scale * Scale) * (4 * (a * a))
        BY <1>2
      <3> QED
        BY <3>1, <3>2 DEF Square
    <2>4. v \in Nat /\ v > 0 /\ Scale * Scale >= 4
      BY <1>2, <2>0
    <2> HIDE DEF v
    <2> DEFINE s == Scale * Scale
    <2>5. s \in Nat /\ s >= 4
      BY <1>2, <2>4
    <2> HIDE DEF s
    <2>6. 4 * (4 * v) <= s * (4 * v) /\ s * (4 * v) \in Int
      BY <2>4, <2>5
    <2>7. square >= s * (4 * v)
      BY <2>1, <2>2, <2>3 DEF s
    <2>8. 8 * v >= square
      BY <1>4 DEF v
    <2> QED
      BY <2>4, <2>6, <2>7, <2>8
  <1> QED
    BY <1>1, <1>3, <1>4

-----------------------------------------------------------------------------
(* The cells of f64 are finer than the steps of the canonical form, so the  *)
(* way to f64 and back ends where it began.                                 *)
LEMMA RequantisedSame ==
    ASSUME NEW c \in Int
    PROVE  RoundedEven(RoundedEven(c * Grid, Scale) * Scale, Grid) = c
  <1> DEFINE x == RoundedEven(c * Grid, Scale)
             cG == c * Grid
             Sx == Scale * x
  <1>1. Scale \in Nat \ {0} /\ Grid \in Nat \ {0} /\ Grid > Scale
    BY CanonicalAssumption
  <1>2. cG \in Int
    BY <1>1
  <1>3. x \in Int /\ -Scale <= 2 * (cG - Sx) /\ 2 * (cG - Sx) <= Scale
    <2> HIDE DEF cG
    <2>1. LET r == RoundedEven(cG, Scale)
          IN  /\ r \in Int
              /\ -Scale <= 2 * (cG - Scale * r) /\ 2 * (cG - Scale * r) <= Scale
      BY <1>1, <1>2, RoundedIs
    <2> QED
      BY <2>1 DEF cG
  <1> HIDE DEF x
  <1>4. Sx \in Int /\ x * Scale = Sx /\ Grid * c = cG
    BY <1>1, <1>3
  <1> HIDE DEF cG, Sx
  <1>5. -Grid < 2 * (Sx - cG) /\ 2 * (Sx - cG) < Grid
    BY <1>1, <1>2, <1>3, <1>4
  <1>6. RoundedEven(Sx, Grid) = c
    <2>1. -Grid < 2 * (Sx - Grid * c) /\ 2 * (Sx - Grid * c) < Grid
      BY <1>4, <1>5
    <2> QED
      BY <1>1, <1>4, <2>1, RoundedUnique
  <1> QED
    BY <1>4, <1>6 DEF x, cG

(* A quantised length is faithful, saturated or not.                        *)
LEMMA QuantizedFaithful ==
    ASSUME NEW length \in Int, NEW scale \in Nat \ {0}
    PROVE  Faithful(length, scale, Saturated(RoundedEven(length * scale, Fine)))
  <1> DEFINE l == length * scale
             r == RoundedEven(l, Fine)
             Fr == Fine * r
             c == Saturated(r)
             Fc == Fine * c
  <1>1. Fine \in Nat \ {0} /\ IMax \in Nat \ {0}
    BY CanonicalAssumption
  <1>2. l \in Int
    OBVIOUS
  <1>3. r \in Int /\ -Fine <= 2 * (l - Fr) /\ 2 * (l - Fr) <= Fine
    <2> HIDE DEF l
    <2> QED
      BY <1>1, <1>2, RoundedIs
  <1> HIDE DEF l, r
  <1>4. Fr \in Int
    BY <1>1, <1>3
  <1>5. CASE r > IMax
    <2>1. c = IMax
      BY <1>5 DEF Saturated
    <2>2. Fine * (IMax + 1) <= Fr
      <3>1. IMax + 1 \in Int /\ IMax + 1 <= r
        BY <1>1, <1>3, <1>5
      <3> QED
        BY <1>1, <1>3, <3>1, Times
    <2>3. Fine * (IMax + 1) = Fine * IMax + Fine /\ Fine * IMax \in Int
      BY <1>1
    <2> HIDE DEF Fr
    <2>4. 2 * (l - IMax * Fine) > 0
      <3> DEFINE m == Fine * IMax
      <3>1. IMax * Fine = m /\ m \in Int /\ m + Fine <= Fr
        BY <1>1, <2>2, <2>3
      <3> HIDE DEF m
      <3>2. 2 * (l - m) > 0
        BY <1>1, <1>2, <1>3, <1>4, <3>1
      <3> QED
        BY <3>1, <3>2
    <2> QED
      BY <2>1, <2>4 DEF Faithful, l, r
  <1>6. CASE r < -IMax - 1
    <2>1. c = -IMax - 1
      BY <1>1, <1>3, <1>6 DEF Saturated
    <2> DEFINE low == -IMax - 1
    <2>2. Fr <= Fine * (low - 1)
      <3>1. low - 1 \in Int /\ r <= low - 1
        BY <1>1, <1>3, <1>6
      <3> QED
        BY <1>1, <1>3, <3>1, Times
    <2>3. Fine * (low - 1) = Fine * low - Fine /\ Fine * low \in Int /\ low \in Int
      BY <1>1
    <2> HIDE DEF Fr, low
    <2>4. 2 * (l - low * Fine) < 0
      <3> DEFINE m == Fine * low
      <3>1. low * Fine = m /\ m \in Int /\ Fr <= m - Fine
        BY <1>1, <2>2, <2>3
      <3> HIDE DEF m
      <3>2. 2 * (l - m) < 0
        BY <1>1, <1>2, <1>3, <1>4, <3>1
      <3> QED
        BY <3>1, <3>2
    <2> QED
      BY <2>1, <2>4 DEF Faithful, l, r, low
  <1>7. CASE ~(r > IMax) /\ ~(r < -IMax - 1)
    <2>1. c = r
      BY <1>7 DEF Saturated
    <2>2. r * Fine = Fr
      BY <1>1, <1>3
    <2>3. -Fine <= 2 * (l - r * Fine) /\ 2 * (l - r * Fine) <= Fine
      BY <1>3, <2>2
    <2> QED
      BY <2>1, <2>3 DEF Faithful, l, r
  <1> QED
    BY <1>5, <1>6, <1>7

-----------------------------------------------------------------------------
Vector == [Axes -> Int]

Nonzero(v) == {a \in Axes : v[a] # 0}

(* The least axis that is not zero.                                         *)
LEMMA MinIs ==
    ASSUME NEW T \in SUBSET Axes, T # {}
    PROVE  Min(T) \in T /\ \A a \in T : Min(T) <= a
  <1>1. T \in SUBSET Nat
    BY DEF Axes
  <1>2. \E x \in T : \A y \in T : x <= y
    BY <1>1, LeastNatural
  <1> QED
    BY <1>2 DEF Min

(* The sign makes the first component that is not zero positive.            *)
LEMMA SignIs ==
    ASSUME NEW v \in Vector
    PROVE  /\ Sign(v) \in {-1, 1}
           /\ Nonzero(v) # {} => Sign(v) * v[Min(Nonzero(v))] > 0
  <1>1. Sign(v) = IF Nonzero(v) # {} /\ v[Min(Nonzero(v))] > 0 THEN 1 ELSE -1
    BY DEF Sign, Nonzero
  <1>2. Nonzero(v) # {} => v[Min(Nonzero(v))] \in Int \ {0}
    <2> SUFFICES ASSUME Nonzero(v) # {} PROVE v[Min(Nonzero(v))] \in Int \ {0}
      OBVIOUS
    <2>1. Min(Nonzero(v)) \in Nonzero(v)
      BY MinIs DEF Nonzero
    <2> QED
      BY <2>1 DEF Nonzero, Vector
  <1> QED
    BY <1>1, <1>2

(* A square as f64 holds it is a natural, the same for the opposite, zero   *)
(* for zero, and where it is not zero at most twice the true one.           *)
LEMMA SquaredIs ==
    ASSUME NEW w \in Int
    PROVE  /\ Squared(w) \in Nat /\ Squared(-w) = Squared(w)
           /\ w = 0 => Squared(w) = 0
           /\ Squared(w) <= 2 * (w * w)
  <1> DEFINE v == w * w
             r == RoundedEven(v, LeastStep)
             Dr == LeastStep * r
  <1>1. v \in Nat /\ (-w) * (-w) = v /\ (w = 0 => v = 0)
    OBVIOUS
  <1>2. LeastStep \in Nat \ {0} /\ LeastNormal \in Nat
    BY CanonicalAssumption
  <1>3. Squared(w) = IF v >= LeastNormal THEN v ELSE Dr
    BY DEF Squared
  <1>4. Squared(-w) = Squared(w)
    BY <1>1 DEF Squared
  <1> HIDE DEF v
  <1>5. r \in Int /\ -LeastStep <= 2 * (v - Dr) /\ 2 * (v - Dr) <= LeastStep
    BY <1>1, <1>2, RoundedIs
  <1> HIDE DEF r
  <1>6. r <= 0 \/ 1 <= r
    BY <1>5
  <1>7. CASE r <= 0
    <2>1. Dr \in Int /\ Dr <= 0
      BY <1>2, <1>5, <1>7
    <2>2. r = 0
      <3>1. r <= -1 => LeastStep * r <= LeastStep * (-1)
        BY <1>2, <1>5, Times
      <3>2. LeastStep * (-1) = -LeastStep
        BY <1>2
      <3> QED
        BY <1>1, <1>2, <1>5, <1>7, <2>1, <3>1, <3>2
    <2>3. Dr = 0
      BY <1>2, <2>2
    <2> QED
      BY <1>1, <1>3, <1>4, <2>3 DEF v
  <1>8. CASE 1 <= r
    <2>1. Dr \in Int /\ LeastStep <= Dr
      <3>1. LeastStep * 1 <= LeastStep * r
        BY <1>2, <1>5, <1>8, Times
      <3> QED
        BY <1>2, <1>5, <3>1
    <2> HIDE DEF Dr
    <2>2. v > 0 /\ Dr <= 2 * v /\ Dr \in Nat
      BY <1>1, <1>2, <1>5, <2>1
    <2> QED
      BY <1>1, <1>3, <1>4, <2>2 DEF v
  <1> QED
    BY <1>6, <1>7, <1>8

(* A vector that has a length has a component, one of which eight squares   *)
(* make up the square of the length.                                        *)
LEMMA NormIs ==
    ASSUME NEW v \in Vector
    PROVE  /\ SquareNorm(v) \in Nat
           /\ \E a \in Axes : 8 * (v[a] * v[a]) >= SquareNorm(v)
           /\ SquareNorm(v) > 0 => Nonzero(v) # {}
  <1> DEFINE s(a) == Squared(v[a])
             w(a) == v[a] * v[a]
  <1>1. \A a \in Axes : /\ s(a) \in Nat /\ w(a) \in Nat
                        /\ v[a] = 0 => s(a) = 0
                        /\ s(a) <= 2 * w(a)
    BY SquaredIs DEF Vector
  <1>2. 1 \in Axes /\ 2 \in Axes /\ 3 \in Axes /\ 4 \in Axes
    BY DEF Axes
  <1>3. SquareNorm(v) = s(1) + s(2) + s(3) + s(4)
    BY DEF SquareNorm
  <1> HIDE DEF s
  <1>4. SquareNorm(v) > 0 => Nonzero(v) # {}
    <2> SUFFICES ASSUME Nonzero(v) = {} PROVE SquareNorm(v) = 0
      BY <1>1, <1>2, <1>3
    <2>1. \A a \in Axes : s(a) = 0
      BY <1>1 DEF Nonzero
    <2> QED
      BY <1>2, <1>3, <2>1
  <1> HIDE DEF w
  <1>5. \E a \in Axes : 8 * w(a) >= SquareNorm(v)
    <2>1. \/ 4 * s(1) >= s(1) + s(2) + s(3) + s(4)
          \/ 4 * s(2) >= s(1) + s(2) + s(3) + s(4)
          \/ 4 * s(3) >= s(1) + s(2) + s(3) + s(4)
          \/ 4 * s(4) >= s(1) + s(2) + s(3) + s(4)
      BY <1>1, <1>2
    <2>2. PICK a \in Axes : 4 * s(a) >= SquareNorm(v)
      BY <1>2, <1>3, <2>1
    <2>3. SquareNorm(v) \in Nat
      BY <1>1, <1>2, <1>3
    <2> QED
      BY <1>1, <2>2, <2>3
  <1> QED
    BY <1>1, <1>2, <1>3, <1>4, <1>5 DEF w

(* A component of which eight squares make up the length does not vanish.   *)
LEMMA VanishesNot ==
    ASSUME NEW w \in Int, NEW square \in Nat \ {0}, 8 * (w * w) >= square
    PROVE  ~Vanishes(w, square)
  <1> DEFINE v == w * w
             s == Tiny * Tiny
  <1>1. Tiny \in Nat /\ Tiny >= 3
    BY CanonicalAssumption
  <1>2. (w * Tiny) * (w * Tiny) = s * v
    BY <1>1
  <1>3. s \in Nat /\ s >= 9
    BY <1>1
  <1>4. v \in Nat /\ v > 0 /\ 8 * v >= square
    OBVIOUS
  <1> HIDE DEF s, v
  <1>5. s * v >= 9 * v /\ s * v \in Int
    BY <1>3, <1>4
  <1>6. ~(s * v <= square)
    BY <1>4, <1>5
  <1>7. ~((w * Tiny) * (w * Tiny) <= square)
    BY <1>2, <1>6
  <1> QED
    BY <1>7 DEF Vanishes

(* What is left of the components after the division.                       *)
Seen(q) == [a \in Axes |-> IF Vanishes(q[a], SquareNorm(q)) THEN 0 ELSE q[a]]

(* Vanished or not, a component is an integer; not all of them vanish.      *)
LEMMA SeenIs ==
    ASSUME NEW q \in Vector
    PROVE  /\ Seen(q) \in Vector
           /\ \A a \in Axes : Seen(q)[a] # 0 => q[a] # 0
           /\ SquareNorm(q) > 0 =>
                 \E a \in Axes : 8 * (Seen(q)[a] * Seen(q)[a]) >= SquareNorm(q)
  <1>1. \A a \in Axes : /\ q[a] \in Int
                        /\ Seen(q)[a] = IF Vanishes(q[a], SquareNorm(q)) THEN 0 ELSE q[a]
    BY DEF Seen, Vector
  <1>2. Seen(q) \in Vector
    BY <1>1 DEF Seen, Vector
  <1>3. ASSUME SquareNorm(q) > 0
        PROVE  \E a \in Axes : 8 * (Seen(q)[a] * Seen(q)[a]) >= SquareNorm(q)
    <2>1. PICK a \in Axes : 8 * (q[a] * q[a]) >= SquareNorm(q)
      BY NormIs
    <2>2. Seen(q)[a] = q[a]
      BY <1>1, <1>3, <2>1, NormIs, VanishesNot
    <2> QED
      BY <2>1, <2>2
  <1> QED
    BY <1>1, <1>2, <1>3

(* Where the squares do not overflow, the canonical attitude is this.       *)
LEMMA AttitudeIs ==
    ASSUME NEW q \in Vector, SquareNorm(q) <= Overflow
    PROVE  ToCanonical(Canonicalized(q)) =
              [a \in Axes |-> Quantised(Sign(Seen(q)) * Seen(q)[a], SquareNorm(q))]
  <1> DEFINE s == Seen(q)
             turned == [a \in Axes |-> Sign(s) * s[a]]
  <1>1. Normalised(q) = [vector |-> s, square |-> SquareNorm(q)]
    BY DEF Normalised, Seen
  <1> HIDE DEF s
  <1>2. Canonicalized(q) = [vector |-> turned, square |-> SquareNorm(q)]
    BY <1>1 DEF Canonicalized
  <1> QED
    BY <1>2 DEF ToCanonical, s

(* Where they do, it is zero.                                               *)
LEMMA OverflowIs ==
    ASSUME NEW q \in Vector, SquareNorm(q) > Overflow
    PROVE  ToCanonical(Canonicalized(q)) = [a \in Axes |-> 0]
  <1> DEFINE z == [a \in Axes |-> 0]
             sz == [a \in Axes |-> Sign(z) * z[a]]
  <1>1. SquareNorm(q) \in Int /\ Overflow \in Nat
    BY NormIs, CanonicalAssumption
  <1>2. Normalised(q) = [vector |-> z, square |-> 1]
    BY <1>1 DEF Normalised
  <1>3. Canonicalized(q) = [vector |-> sz, square |-> 1]
    BY <1>2 DEF Canonicalized
  <1>4. z \in Vector
    BY DEF Vector
  <1>5. Sign(z) \in {-1, 1}
    BY <1>4, SignIs
  <1>6. \A a \in Axes : sz[a] = 0
    BY <1>5
  <1>7. Quantised(0, 1) = 0
    BY QuantisedSign
  <1>8. ToCanonical(Canonicalized(q)) = [a \in Axes |-> Quantised(sz[a], 1)]
    BY <1>3 DEF ToCanonical
  <1> QED
    BY <1>6, <1>7, <1>8

(* The multiples of a vector whose squares multiply with it, and whose      *)
(* components vanish together with its own, are one canonical attitude.     *)
LEMMA MultipleSame ==
    ASSUME NEW q \in Vector, NEW k \in Int \ {0}, NEW m \in Vector,
           m = [a \in Axes |-> k * q[a]],
           SquareNorm(q) > 0,
           SquareNorm(q) <= Overflow, SquareNorm(m) <= Overflow,
           SquareNorm(m) = (k * k) * SquareNorm(q)
    PROVE  ToCanonical(Canonicalized(m)) = ToCanonical(Canonicalized(q))
  <1> DEFINE n == Abs(k)
             N == SquareNorm(q)
             u == Seen(q)
             v == Seen(m)
  <1>1. /\ n \in Nat \ {0} /\ n * n = k * k
        /\ (k > 0 => n = k) /\ (k < 0 => n = -k)
    BY DEF Abs
  <1>2. u \in Vector /\ v \in Vector /\ N \in Nat \ {0}
    BY SeenIs, NormIs
  <1>3. \A a \in Axes : v[a] = k * u[a]
    <2> SUFFICES ASSUME NEW a \in Axes PROVE v[a] = k * u[a]
      OBVIOUS
    <2> DEFINE x == q[a]
               e == (x * Tiny) * (x * Tiny)
               kk == k * k
    <2>1. x \in Int /\ m[a] = k * x /\ Tiny \in Nat
      BY CanonicalAssumption DEF Vector
    <2>2. ((k * x) * Tiny) * ((k * x) * Tiny) = kk * e
      BY <2>1
    <2>3. e \in Int /\ kk \in Nat \ {0}
      BY <2>1
    <2> HIDE DEF e, kk, N
    <2>4. kk * e <= kk * N <=> e <= N
      <3>1. /\ N < e <=> kk * N < kk * e
            /\ kk * N \in Int /\ kk * e \in Int
        BY <1>2, <2>3, Times
      <3> QED
        BY <1>2, <2>3, <3>1
    <2>5. Vanishes(k * x, kk * N) <=> Vanishes(x, N)
      BY <2>2, <2>4 DEF Vanishes, e
    <2>6. SquareNorm(m) = kk * N
      BY DEF kk, N
    <2>7. /\ u[a] = IF Vanishes(x, N) THEN 0 ELSE x
          /\ v[a] = IF Vanishes(k * x, kk * N) THEN 0 ELSE k * x
      BY <2>1, <2>6 DEF Seen, N
    <2> HIDE DEF x, u, v
    <2> QED
      BY <2>1, <2>5, <2>7
  <1>4. Nonzero(v) = Nonzero(u) /\ Nonzero(u) # {}
    <2>1. \A a \in Axes : u[a] \in Int
      BY <1>2 DEF Vector
    <2>2. \A a \in Axes : v[a] = 0 <=> u[a] = 0
      BY <1>3, <2>1
    <2>3. PICK a \in Axes : 8 * (u[a] * u[a]) >= N
      BY SeenIs
    <2>4. u[a] # 0
      BY <1>2, <2>3
    <2> QED
      BY <2>2, <2>4 DEF Nonzero
  <1> HIDE DEF u, v
  <1> DEFINE b == Min(Nonzero(u))
  <1>5. /\ Sign(u) \in {-1, 1} /\ Sign(v) \in {-1, 1}
        /\ Sign(u) * u[b] > 0 /\ Sign(v) * v[b] > 0
    BY <1>2, <1>4, SignIs
  <1>6. u[b] \in Int /\ v[b] = k * u[b]
    <2>1. b \in Axes
      BY <1>4, MinIs DEF Nonzero
    <2> QED
      BY <1>2, <1>3, <2>1 DEF Vector
  <1>7. Sign(v) = IF k > 0 THEN Sign(u) ELSE -Sign(u)
    <2> DEFINE s == Sign(u)
               t == Sign(v)
               x == u[b]
    <2>1. s \in {-1, 1} /\ t \in {-1, 1} /\ x \in Int /\ s * x > 0 /\ t * (k * x) > 0
      BY <1>5, <1>6
    <2> HIDE DEF s, t, x
    <2>2. (x > 0 /\ s = 1) \/ (x < 0 /\ s = -1)
      BY <2>1
    <2>3. (k * x > 0 /\ t = 1) \/ (k * x < 0 /\ t = -1)
      BY <2>1
    <2>4. /\ k > 0 /\ x > 0 => k * x > 0
          /\ k > 0 /\ x < 0 => k * x < 0
          /\ k < 0 /\ x > 0 => k * x < 0
          /\ k < 0 /\ x < 0 => k * x > 0
      BY <2>1
    <2> QED
      BY <2>1, <2>2, <2>3, <2>4 DEF s, t
  <1> HIDE DEF b
  <1>8. ASSUME NEW a \in Axes
        PROVE  Quantised(Sign(v) * v[a], SquareNorm(m)) = Quantised(Sign(u) * u[a], N)
    <2> DEFINE w == Sign(u) * u[a]
    <2>1. u[a] \in Int /\ v[a] = k * u[a]
      BY <1>2, <1>3 DEF Vector
    <2>2. w \in Int /\ Sign(v) * v[a] = n * w
      <3> DEFINE s == Sign(u)
                 t == Sign(v)
                 x == u[a]
      <3>1. /\ s \in {-1, 1} /\ x \in Int /\ v[a] = k * x
            /\ t = IF k > 0 THEN s ELSE -s
        BY <1>5, <1>7, <2>1
      <3> HIDE DEF s, t, x, n
      <3>2. s * x \in Int /\ t * (k * x) = n * (s * x)
        <4>1. CASE k > 0
          BY <1>1, <3>1, <4>1
        <4>2. CASE k < 0
          <5>1. CASE s = 1
            BY <1>1, <3>1, <4>2, <5>1
          <5>2. CASE s = -1
            BY <1>1, <3>1, <4>2, <5>2
          <5> QED
            BY <3>1, <5>1, <5>2
        <4> QED
          BY <4>1, <4>2
      <3> QED
        BY <3>1, <3>2 DEF s, t, x
    <2>3. SquareNorm(m) = (n * n) * N
      BY <1>1
    <2> HIDE DEF w, N, n
    <2>4. Quantised(n * w, (n * n) * N) = Quantised(w, N)
      BY <1>1, <1>2, <2>2, QuantisedMultiple
    <2> QED
      BY <2>2, <2>3, <2>4 DEF w
  <1>9. /\ ToCanonical(Canonicalized(m)) =
              [a \in Axes |-> Quantised(Sign(v) * v[a], SquareNorm(m))]
        /\ ToCanonical(Canonicalized(q)) =
              [a \in Axes |-> Quantised(Sign(u) * u[a], N)]
    BY AttitudeIs DEF u, v
  <1> HIDE DEF N
  <1> QED
    BY <1>8, <1>9

(* All zero only on overflow; otherwise the first component seen is         *)
(* positive, or one before it was rounded away.                             *)
LEMMA HemisphereOf ==
    ASSUME NEW q \in Vector, SquareNorm(q) > 0
    PROVE  LET c       == ToCanonical(Canonicalized(q))
               nonzero == Nonzero(c)
           IN  IF nonzero = {} THEN SquareNorm(q) > Overflow
               ELSE \/ c[Min(nonzero)] > 0
                    \/ \E a \in Axes : a < Min(nonzero) /\ q[a] # 0
  <1> DEFINE c == ToCanonical(Canonicalized(q))
             N == SquareNorm(q)
             u == Seen(q)
             s == Sign(u)
  <1>1. N \in Nat \ {0} /\ Overflow \in Nat
    BY NormIs, CanonicalAssumption
  <1>2. CASE N > Overflow
    <2>1. c = [a \in Axes |-> 0]
      BY <1>2, OverflowIs
    <2>2. Nonzero(c) = {}
      BY <2>1 DEF Nonzero
    <2> QED
      BY <1>2, <2>2
  <1>3. CASE ~(N > Overflow)
    <2>1. c = [a \in Axes |-> Quantised(s * u[a], N)]
      BY <1>1, <1>3, AttitudeIs
    <2>2. /\ u \in Vector
          /\ s \in {-1, 1}
          /\ \A a \in Axes : /\ u[a] \in Int /\ s * u[a] \in Int
                             /\ u[a] # 0 => q[a] # 0
      BY SeenIs, SignIs DEF Vector
    <2>3. PICK a \in Axes : 8 * (u[a] * u[a]) >= N
      BY SeenIs
    <2>4. Nonzero(u) # {} => s * u[Min(Nonzero(u))] > 0
      BY <2>2, SignIs
    <2> HIDE DEF c, s, u
    <2>5. \A x \in Axes :
             /\ c[x] \in Int
             /\ u[x] = 0 => c[x] = 0
             /\ s * u[x] > 0 => c[x] >= 0
             /\ 8 * (u[x] * u[x]) >= N => c[x] # 0
      <3> SUFFICES ASSUME NEW x \in Axes
                   PROVE  /\ c[x] \in Int
                          /\ u[x] = 0 => c[x] = 0
                          /\ s * u[x] > 0 => c[x] >= 0
                          /\ 8 * (u[x] * u[x]) >= N => c[x] # 0
        OBVIOUS
      <3> DEFINE w == s * u[x]
      <3>1. w \in Int /\ (u[x] = 0 => w = 0) /\ w * w = u[x] * u[x]
        BY <2>2
      <3>2. c[x] = Quantised(w, N)
        BY <2>1
      <3> HIDE DEF w, N
      <3>3. /\ Quantised(w, N) \in Int
            /\ w = 0 => Quantised(w, N) = 0
            /\ w > 0 => Quantised(w, N) >= 0
            /\ 8 * (w * w) >= N => Quantised(w, N) # 0
        BY <1>1, <3>1, QuantisedSign
      <3>4. w > 0 <=> s * u[x] > 0
        BY DEF w
      <3> HIDE DEF w
      <3> QED
        BY <3>1, <3>2, <3>3, <3>4
    <2>6. Nonzero(c) # {}
      BY <2>3, <2>5 DEF Nonzero
    <2> DEFINE b == Min(Nonzero(c))
    <2>7. b \in Axes /\ c[b] # 0
      BY <2>6, MinIs DEF Nonzero
    <2>8. u[b] # 0
      BY <2>5, <2>7
    <2>9. c[b] > 0 \/ \E x \in Axes : x < b /\ q[x] # 0
      <3> SUFFICES ASSUME ~\E x \in Axes : x < b /\ q[x] # 0 PROVE c[b] > 0
        OBVIOUS
      <3> DEFINE d == Min(Nonzero(u))
      <3>1. Nonzero(u) # {} /\ b \in Nonzero(u)
        BY <2>7, <2>8 DEF Nonzero
      <3>2. d \in Nonzero(u) /\ d <= b
        BY <3>1, MinIs DEF Nonzero
      <3>3. s * u[d] > 0
        BY <2>4, <3>1
      <3> HIDE DEF b, d
      <3>4. d \in Axes /\ q[d] # 0
        BY <2>2, <3>2 DEF Nonzero
      <3>5. d = b
        BY <2>7, <3>2, <3>4 DEF Axes
      <3> QED
        BY <2>5, <2>7, <3>3, <3>5
    <2> QED
      BY <2>6, <2>9 DEF c
  <1> QED
    BY <1>2, <1>3

-----------------------------------------------------------------------------
(* What is canonical came from an observation that passed every check.      *)
PipelineInv ==
    /\ raw \in Observations
    /\ stage \in {"raw", "refused", "canonical", "again"}
    /\ stage \in {"canonical", "again"} =>
          /\ Valid(raw) /\ Normal(raw.attitude)
          /\ value = CanonicalState(raw)

(* An observation that passes holds integers, and its attitude has a length. *)
LEMMA ValidIs ==
    ASSUME NEW o \in Observations, Valid(o), Normal(o.attitude)
    PROVE  /\ o.position \in [1..3 -> Int] /\ o.velocity \in [1..3 -> Int]
           /\ o.attitude \in Vector /\ SquareNorm(o.attitude) > 0
  <1>1. /\ o.position \in [1..3 -> Int \cup NotFinite]
        /\ o.velocity \in [1..3 -> Int \cup NotFinite]
        /\ o.attitude \in [1..4 -> Int \cup NotFinite]
    BY CanonicalAssumption
  <1>2. /\ \A a \in 1..3 : o.position[a] \notin NotFinite /\ o.velocity[a] \notin NotFinite
        /\ \A a \in 1..4 : o.attitude[a] \notin NotFinite
    BY <1>1 DEF Valid, Range
  <1>3. /\ o.position \in [1..3 -> Int] /\ o.velocity \in [1..3 -> Int]
        /\ o.attitude \in Vector
    BY <1>1, <1>2 DEF Vector, Axes
  <1> QED
    BY <1>1, <1>3, NormIs DEF Normal

(* The canonical attitude is of integers.                                   *)
LEMMA AttitudeType ==
    ASSUME NEW q \in Vector, SquareNorm(q) > 0
    PROVE  ToCanonical(Canonicalized(q)) \in Vector
  <1> DEFINE unit == Canonicalized(q)
  <1>1. SquareNorm(q) \in Nat \ {0}
    BY NormIs
  <1>2. Normalised(q).vector \in Vector /\ Normalised(q).square \in Nat \ {0}
    BY <1>1, SeenIs DEF Normalised, Seen, Vector
  <1> DEFINE v == Normalised(q).vector
  <1>3. \A a \in Axes : v[a] \in Int /\ Sign(v) \in {-1, 1}
    BY <1>2, SignIs DEF Vector
  <1>4. Normalised(q) = [vector |-> v, square |-> Normalised(q).square]
    BY DEF Normalised
  <1>5. unit.vector = [a \in Axes |-> Sign(v) * v[a]] /\ unit.square \in Nat \ {0}
    BY <1>2, <1>4 DEF Canonicalized
  <1>6. \A a \in Axes : Sign(v) * v[a] \in Int
    BY <1>3
  <1> HIDE DEF unit, v
  <1>7. \A a \in Axes : unit.vector[a] \in Int
    BY <1>5, <1>6
  <1>8. \A a \in Axes : Quantised(unit.vector[a], unit.square) \in Int
    BY <1>5, <1>7, QuantisedSign
  <1> QED
    BY <1>8 DEF ToCanonical, Vector, unit

(* Canonicalising again changes nothing.                                    *)
LEMMA AgainIsSame ==
    ASSUME PipelineInv, stage = "canonical"
    PROVE  [value EXCEPT !.attitude = Requantised(value.attitude)] = value
  <1> DEFINE c == ToCanonical(Canonicalized(raw.attitude))
  <1>1. /\ value = [position |-> Quantize(raw.position, PositionScale),
                    velocity |-> Quantize(raw.velocity, VelocityScale),
                    attitude |-> c]
        /\ raw \in Observations /\ Valid(raw) /\ Normal(raw.attitude)
    BY DEF PipelineInv, CanonicalState
  <1>2. c \in Vector
    BY <1>1, ValidIs, AttitudeType
  <1> HIDE DEF c
  <1>3. Requantised(c) = [a \in Axes |-> c[a]]
    <2>1. \A a \in Axes :
             RoundedEven(RoundedEven(c[a] * Grid, Scale) * Scale, Grid) = c[a]
      BY <1>2, RequantisedSame DEF Vector
    <2> QED
      BY <2>1 DEF Requantised
  <1>4. [a \in Axes |-> c[a]] = c
    BY <1>2 DEF Vector
  <1> QED
    BY <1>1, <1>3, <1>4

(* The pipeline keeps to the observation it was given.                      *)
LEMMA PipelineInvStep == PipelineInv /\ [Next]_vars => PipelineInv'
  <1> SUFFICES ASSUME PipelineInv, [Next]_vars PROVE PipelineInv'
    OBVIOUS
  <1>1. CASE Refuse
    BY <1>1 DEF Refuse, PipelineInv
  <1>2. CASE Canonicalize
    BY <1>2 DEF Canonicalize, PipelineInv
  <1>3. CASE Recanonicalize
    <2>1. value' = value
      BY <1>3, AgainIsSame DEF Recanonicalize
    <2> QED
      BY <1>3, <2>1 DEF Recanonicalize, PipelineInv
  <1>4. CASE UNCHANGED vars
    BY <1>4 DEF vars, PipelineInv
  <1> QED
    BY <1>1, <1>2, <1>3, <1>4 DEF Next

(* So a canonical value is always that of its observation.                  *)
LEMMA AlwaysPipeline == Spec => []PipelineInv
  <1>1. Init => PipelineInv
    BY DEF Init, PipelineInv
  <1> QED
    BY <1>1, PipelineInvStep, PTL DEF Spec

(* S02's resolution, for any scales, any width of the integers and any      *)
(* observation: canonical lengths are within half a step, or at the end of  *)
(* the range the observed one is beyond.                                    *)
THEOREM LengthsAreFaithful == Spec => []ErrorWithinHalfStep
  <1>1. PipelineInv => ErrorWithinHalfStep
    <2> SUFFICES ASSUME PipelineInv, stage \in {"canonical", "again"}, NEW a \in 1..3
                 PROVE  /\ Faithful(raw.position[a], PositionScale, value.position[a])
                        /\ Faithful(raw.velocity[a], VelocityScale, value.velocity[a])
      BY DEF ErrorWithinHalfStep
    <2>1. /\ raw.position \in [1..3 -> Int] /\ raw.velocity \in [1..3 -> Int]
          /\ value = CanonicalState(raw)
      BY ValidIs DEF PipelineInv
    <2>2. /\ value.position[a] =
                Saturated(RoundedEven(raw.position[a] * PositionScale, Fine))
          /\ value.velocity[a] =
                Saturated(RoundedEven(raw.velocity[a] * VelocityScale, Fine))
      BY <2>1 DEF CanonicalState, Quantize
    <2>3. PositionScale \in Nat \ {0} /\ VelocityScale \in Nat \ {0}
      BY CanonicalAssumption
    <2>4. raw.position[a] \in Int /\ raw.velocity[a] \in Int
      BY <2>1
    <2> QED
      BY <2>2, <2>3, <2>4, QuantizedFaithful
  <1> QED
    BY <1>1, AlwaysPipeline, PTL

(* The norm of the opposite is the norm; that of a double is the double     *)
(* where every square has all its digits.                                   *)
LEMMA NormOfMultiple ==
    ASSUME NEW q \in Vector, NEW k \in {-2, -1, 2}, NEW m,
           m = [a \in Axes |-> k * q[a]],
           k = -1 \/ (Represented(q) /\ Represented(m))
    PROVE  m \in Vector /\ SquareNorm(m) = (k * k) * SquareNorm(q)
  <1>1. m \in Vector
    BY DEF Vector
  <1>2. \A a \in Axes : /\ q[a] \in Int /\ m[a] = k * q[a]
                        /\ Squared(q[a]) \in Nat
                        /\ Squared(m[a]) = (k * k) * Squared(q[a])
    <2> SUFFICES ASSUME NEW a \in Axes
                 PROVE  /\ q[a] \in Int /\ m[a] = k * q[a]
                        /\ Squared(q[a]) \in Nat
                        /\ Squared(m[a]) = (k * k) * Squared(q[a])
      OBVIOUS
    <2> DEFINE x == q[a]
               y == m[a]
    <2>1. x \in Int /\ y \in Int /\ y = k * x /\ Squared(x) \in Nat
      BY SquaredIs DEF Vector
    <2>2. CASE k = -1
      <3>1. y = -x /\ k * k = 1
        BY <2>1, <2>2
      <3> QED
        BY <2>1, <3>1, SquaredIs
    <2>3. CASE k # -1
      <3>1. CASE x = 0
        <4>1. y = 0 /\ Squared(x) = 0 /\ Squared(y) = 0
          BY <2>1, <3>1, SquaredIs
        <4> QED
          BY <2>1, <4>1
      <3>2. CASE x # 0
        <4>1. y # 0
          BY <2>1, <3>2
        <4>2. x * x >= LeastNormal /\ y * y >= LeastNormal
          BY <2>3, <3>2, <4>1 DEF Represented
        <4>3. Squared(x) = x * x /\ Squared(y) = y * y
          BY <4>2 DEF Squared
        <4>4. y * y = (k * k) * (x * x)
          BY <2>1
        <4> QED
          BY <2>1, <4>3, <4>4
      <3> QED
        BY <3>1, <3>2
    <2> QED
      BY <2>2, <2>3
  <1>3. 1 \in Axes /\ 2 \in Axes /\ 3 \in Axes /\ 4 \in Axes
    BY DEF Axes
  <1> DEFINE A == Squared(q[1])
             B == Squared(q[2])
             C == Squared(q[3])
             D == Squared(q[4])
             n == k * k
  <1>4. /\ A \in Nat /\ B \in Nat /\ C \in Nat /\ D \in Nat /\ n \in Nat
        /\ Squared(m[1]) = n * A /\ Squared(m[2]) = n * B
        /\ Squared(m[3]) = n * C /\ Squared(m[4]) = n * D
    BY <1>2, <1>3
  <1>5. /\ SquareNorm(q) = A + B + C + D
        /\ SquareNorm(m) = Squared(m[1]) + Squared(m[2]) + Squared(m[3]) + Squared(m[4])
    BY DEF SquareNorm
  <1> HIDE DEF A, B, C, D, n
  <1>6. n * A + n * B + n * C + n * D = n * (A + B + C + D)
    BY <1>4
  <1>7. SquareNorm(m) = n * SquareNorm(q)
    BY <1>4, <1>5, <1>6
  <1> QED
    BY <1>1, <1>7 DEF n

(* Invariants 1 and 3: a quaternion and its opposite, and where no square   *)
(* loses digits their doubles, have one canonical form and so one evidence  *)
(* identity.                                                                *)
THEOREM RotationIsIdentity == Spec => []SameRotationSameIdentity
  <1>1. PipelineInv => SameRotationSameIdentity
    <2> DEFINE multiple(k) == [a \in Axes |-> k * raw.attitude[a]]
    <2> SUFFICES ASSUME PipelineInv, stage = "canonical", NEW k \in {-2, -1, 2},
                        k = -1 \/ (Represented(raw.attitude) /\ Represented(multiple(k)))
                 PROVE  /\ Normal(multiple(k))
                        /\ CanonicalState([raw EXCEPT !.attitude = multiple(k)]) = value
      BY DEF SameRotationSameIdentity
    <2> DEFINE q == raw.attitude
               m == multiple(k)
               N == SquareNorm(q)
    <2>1. /\ q \in Vector /\ N > 0
          /\ value = CanonicalState(raw)
      BY ValidIs DEF PipelineInv
    <2>2. m \in Vector /\ SquareNorm(m) = (k * k) * N
      BY <2>1, NormOfMultiple
    <2>3. N \in Nat \ {0} /\ Overflow \in Nat /\ k \in Int \ {0}
      BY <2>1, NormIs, CanonicalAssumption
    <2> DEFINE turned == [raw EXCEPT !.attitude = m]
    <2>4. raw = [position |-> raw.position, velocity |-> raw.velocity,
                 attitude |-> raw.attitude]
      BY CanonicalAssumption DEF PipelineInv
    <2>5. ToCanonical(Canonicalized(m)) = ToCanonical(Canonicalized(q))
      <3>1. CASE N > Overflow
        <4>1. k = -1
          BY <2>3, <3>1 DEF Represented
        <4>2. SquareNorm(m) = N
          <5> HIDE DEF N, m
          <5> QED
            BY <2>2, <2>3, <4>1
        <4> QED
          BY <2>1, <2>2, <3>1, <4>2, OverflowIs
      <3>2. CASE ~(N > Overflow)
        <4>1. N <= Overflow
          BY <2>3, <3>2
        <4>2. SquareNorm(m) <= Overflow
          <5>1. CASE k = -1
            <6>1. SquareNorm(m) = N
              <7> HIDE DEF N, m
              <7> QED
                BY <2>2, <2>3, <5>1
            <6> QED
              BY <4>1, <6>1
          <5>2. CASE k # -1
            BY <5>2 DEF Represented
          <5> QED
            BY <5>1, <5>2
        <4>3. m = [a \in Axes |-> k * q[a]]
          OBVIOUS
        <4> HIDE DEF m
        <4> QED
          BY <2>1, <2>2, <2>3, <4>1, <4>2, <4>3, MultipleSame
      <3> QED
        BY <3>1, <3>2
    <2>6. SquareNorm(m) > 0
      <3> HIDE DEF N, m
      <3> QED
        BY <2>2, <2>3
    <2> HIDE DEF multiple
    <2>7. /\ turned.position = raw.position /\ turned.velocity = raw.velocity
          /\ turned.attitude = m
      BY <2>4
    <2> HIDE DEF turned
    <2>8. CanonicalState(turned) = CanonicalState(raw)
      BY <2>5, <2>7 DEF CanonicalState
    <2> QED
      BY <2>1, <2>6, <2>8 DEF turned, Normal
  <1> QED
    BY <1>1, AlwaysPipeline, PTL

(* Invariant 2: canonicalising a canonical state changes nothing, as long   *)
(* as f64 is finer than the step of the quantisation.                       *)
THEOREM AgainChangesNothing == Spec => RecanonicalizeIsIdentity
  <1>1. PipelineInv /\ [Next]_vars => [stage = "canonical" => value' = value]_vars
    <2> SUFFICES ASSUME PipelineInv, Next, stage = "canonical" PROVE value' = value
      BY DEF vars
    <2>1. Recanonicalize
      BY DEF Next, Refuse, Canonicalize
    <2> QED
      BY <2>1, AgainIsSame DEF Recanonicalize
  <1> QED
    BY <1>1, AlwaysPipeline, PTL DEF Spec, RecanonicalizeIsIdentity

(* The docs' "canonical hemisphere", as far as the code keeps it.           *)
THEOREM HemisphereKept == Spec => []HemisphereUpToRounding
  <1>1. PipelineInv => HemisphereUpToRounding
    <2> SUFFICES ASSUME PipelineInv, stage = "canonical"
                 PROVE  HemisphereUpToRounding
      BY DEF HemisphereUpToRounding
    <2> DEFINE c == ToCanonical(Canonicalized(raw.attitude))
    <2>1. /\ raw.attitude \in Vector /\ SquareNorm(raw.attitude) > 0
          /\ value.attitude = c
      BY ValidIs DEF PipelineInv, CanonicalState
    <2>2. IF Nonzero(c) = {} THEN SquareNorm(raw.attitude) > Overflow
          ELSE \/ c[Min(Nonzero(c))] > 0
               \/ \E a \in Axes : a < Min(Nonzero(c)) /\ raw.attitude[a] # 0
      BY <2>1, HemisphereOf
    <2> HIDE DEF c
    <2> QED
      BY <2>1, <2>2 DEF HemisphereUpToRounding, Nonzero
  <1> QED
    BY <1>1, AlwaysPipeline, PTL
=============================================================================
