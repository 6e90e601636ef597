---------------------------- MODULE ImageProofs ----------------------------
(***************************************************************************)
(* Proofs about the pure functions of MCAlgorithms that handle images and  *)
(* what is like them, for inputs of any size: the extents of the networks, *)
(* siglip2's search for a size, the patches and windows feature maps are   *)
(* cut into and put together from, the samplers and filters between sizes; *)
(* then prompts, boxes and their overlaps, the suppression of detections,  *)
(* the components of masks, dilation and erosion, and the box filter.      *)
(*                                                                         *)
(* Recursive functions and folds are followed step by step, by the search  *)
(* for the least counterexample (LeastNat, SmallestSet).  Tensors are      *)
(* looked at element by element: a lemma says for every function what its  *)
(* result has at the place with given coordinates.  Components are the     *)
(* least sets that contain the neighbours of their pixels.                 *)
(***************************************************************************)
EXTENDS MCAlgorithms, FiniteSetTheorems, SequenceTheorems, WellFoundedInduction, TLAPS

-----------------------------------------------------------------------------
(***************************************************************************)
(* Arithmetic.  What follows needs products and quotients of variables,    *)
(* which the provers only have the definitions of.                         *)
(***************************************************************************)

\* Every set of natural numbers has a least element: induction on numbers, as
\* the search for the least counterexample.
LEMMA LeastNat ==
  ASSUME NEW Z \in SUBSET Nat, Z # {}
  PROVE  \E n \in Z : \A m \in Z : n <= m
<1> DEFINE R == OpToRel(<, Nat)
<1>1. PICK x \in Z : \A y \in Z : <<y, x>> \notin R
  BY WFMin, NatLessThanWellFounded
<1>2. \A y \in Z : ~ (y < x)
  BY <1>1 DEF OpToRel
<1> QED
  BY <1>2

\* Multiplication by a natural number keeps order.
LEMMA TimesMono ==
  ASSUME NEW a \in Int, NEW b \in Int, NEW s \in Nat, a <= b
  PROVE  a * s <= b * s
<1>1. PICK d \in Nat : b = a + d
  <2>1. b - a \in Nat /\ b = a + (b - a)
    OBVIOUS
  <2> QED
    BY <2>1
<1>2. b * s = a * s + d * s
  BY <1>1
<1>3. d * s >= 0
  OBVIOUS
<1> QED
  BY <1>2, <1>3

\* By a positive one, it keeps strict order, and reflects order.
LEMMA TimesStrict ==
  ASSUME NEW a \in Int, NEW b \in Int, NEW s \in Nat \ {0}
  PROVE  /\ a < b => a * s + s <= b * s
         /\ a * s < b * s => a < b
         /\ a * s <= b * s => a <= b
<1>1. a < b => a * s + s <= b * s
  <2> SUFFICES ASSUME a < b PROVE a * s + s <= b * s
    OBVIOUS
  <2>1. (a + 1) * s <= b * s
    BY TimesMono
  <2>2. (a + 1) * s = a * s + s
    OBVIOUS
  <2> QED
    BY <2>1, <2>2
<1>2. b <= a => b * s <= a * s
  BY TimesMono
<1>3. b < a => b * s + s <= a * s
  <2> SUFFICES ASSUME b < a PROVE b * s + s <= a * s
    OBVIOUS
  <2>1. (b + 1) * s <= a * s
    BY TimesMono
  <2>2. (b + 1) * s = b * s + s
    OBVIOUS
  <2> QED
    BY <2>1, <2>2
<1>4. a * s \in Int /\ b * s \in Int
  OBVIOUS
<1> QED
  BY <1>1, <1>2, <1>3, <1>4

\* Products of natural and of positive numbers.
LEMMA TimesNat ==
  ASSUME NEW a \in Nat, NEW b \in Nat
  PROVE  a * b \in Nat /\ (a > 0 /\ b > 0 => a * b > 0) /\ a * b = b * a
<1>1. a * b \in Nat /\ a * b = b * a
  OBVIOUS
<1>2. ASSUME a > 0, b > 0 PROVE a * b > 0
  <2>1. 1 * b <= a * b
    BY <1>2, TimesMono
  <2> QED
    BY <1>1, <1>2, <2>1
<1> QED
  BY <1>1, <1>2

\* Quotient and remainder.
LEMMA DivMod ==
  ASSUME NEW x \in Int, NEW m \in Nat \ {0}
  PROVE  /\ x \div m \in Int /\ x % m \in 0 .. m - 1
         /\ x = (x \div m) * m + (x % m)
         /\ (x \div m) * m <= x /\ x < (x \div m) * m + m
<1> DEFINE q == x \div m
           r == x % m
<1>1. q \in Int /\ r \in 0 .. m - 1 /\ x = m * q + r
  OBVIOUS
<1> HIDE DEF q, r
<1>2. m * q = q * m /\ q * m \in Int
  BY <1>1
<1>3. x = q * m + r /\ q * m <= x /\ x < q * m + m
  BY <1>1, <1>2
<1> QED
  BY <1>1, <1>3 DEF q, r

\* A quotient is at least, or at most, what fits, or does not.
LEMMA DivBounds ==
  ASSUME NEW x \in Int, NEW m \in Nat \ {0}, NEW q \in Int
  PROVE  /\ q * m <= x <=> q <= x \div m
         /\ x < q * m <=> x \div m < q
<1> DEFINE d == x \div m
<1>1. d \in Int /\ d * m <= x /\ x < d * m + m
  BY DivMod
<1> HIDE DEF d
<1>2. d * m \in Int /\ q * m \in Int
  BY <1>1
<1>3. q <= d => q * m <= d * m
  BY <1>1, TimesMono
<1>4. d < q => d * m + m <= q * m
  BY <1>1, TimesStrict
<1>5. q * m <= x <=> q <= d
  BY <1>1, <1>2, <1>3, <1>4
<1> QED
  BY <1>1, <1>2, <1>3, <1>4, <1>5 DEF d

\* Quotient and remainder are the only such pair.
LEMMA DivUnique ==
  ASSUME NEW n, NEW q, NEW r,
         n \in Nat \ {0}, q \in Int, r \in 0 .. n - 1
  PROVE  (q * n + r) \div n = q /\ (q * n + r) % n = r
<1> DEFINE x == q * n + r
<1>1. x \in Int /\ q * n \in Int /\ (q + 1) * n = q * n + n
  OBVIOUS
<1>2. q * n <= x /\ x < (q + 1) * n
  BY <1>1
<1> HIDE DEF x
<1> DEFINE d == x \div n
<1>3. q <= d /\ d < q + 1
  <2>1. q <= d
    BY <1>1, <1>2, DivBounds
  <2>2. d < q + 1
    BY <1>1, <1>2, DivBounds, q + 1 \in Int
  <2> QED
    BY <2>1, <2>2
<1>4. d = q
  <2>1. d \in Int
    BY <1>1, DivMod
  <2> HIDE DEF d
  <2> QED
    BY <1>3, <2>1
<1>5. x = q * n + (x % n) /\ x % n \in Int
  <2>1. x = d * n + (x % n) /\ x % n \in Int
    BY <1>1, DivMod
  <2> HIDE DEF d
  <2> QED
    BY <1>4, <2>1
<1>6. x % n = r
  BY <1>1, <1>5 DEF x
<1> QED
  BY <1>4, <1>6 DEF x

-----------------------------------------------------------------------------
(***************************************************************************)
(* The extents of the networks (Extents).                                  *)
(***************************************************************************)

\* The next multiple is one, and the first that is no less.
LEMMA NextMultipleFacts ==
  ASSUME NEW x \in Nat, NEW m \in Nat \ {0}
  PROVE  LET n == X!NextMultiple(x, m)
         IN  n \in Nat /\ n % m = 0 /\ x <= n /\ n < x + m
<1> DEFINE q == (x + m - 1) \div m
<1>1. q \in Int /\ q * m <= x + m - 1 /\ x + m - 1 < q * m + m
  BY DivMod
<1>2. 0 <= q
  <2>1. 0 * m <= x + m - 1
    OBVIOUS
  <2> QED
    BY <2>1, DivBounds
<1> HIDE DEF q
<1>3. q * m \in Nat
  BY <1>1, <1>2
<1>4. (q * m + 0) % m = 0 /\ q * m + 0 = q * m
  BY <1>1, <1>3, DivUnique
<1>5. X!NextMultiple(x, m) = q * m
  BY DEF X!NextMultiple, X!DivCeil, q
<1> QED
  BY <1>1, <1>3, <1>4, <1>5

\* The next multiple of more is no less.
LEMMA NextMultipleMono ==
  ASSUME NEW x \in Nat, NEW y \in Nat, NEW m \in Nat \ {0}, x <= y
  PROVE  X!NextMultiple(x, m) <= X!NextMultiple(y, m)
<1> DEFINE p == (x + m - 1) \div m
           q == (y + m - 1) \div m
<1>1. p \in Int /\ q \in Int /\ p * m <= x + m - 1
  BY DivMod
<1>2. p * m <= y + m - 1
  <2> HIDE DEF p
  <2>1. p * m \in Int
    BY <1>1
  <2> QED
    BY <1>1, <2>1
<1>3. p <= q
  <2>1. \A k \in Int : k * m <= y + m - 1 => k <= q
    BY DivBounds
  <2> HIDE DEF p, q
  <2> QED
    BY <1>1, <1>2, <2>1
<1>4. p * m <= q * m
  <2> HIDE DEF p, q
  <2> QED
    BY <1>1, <1>3, TimesMono
<1> QED
  BY <1>4 DEF X!NextMultiple, X!DivCeil

\* The root of a quotient, rounded down, exists.
LEMMA RootExists ==
  ASSUME NEW c \in Nat \ {0}, NEW d \in Nat, NEW s \in Nat, d < s * s * c
  PROVE  \E k \in 0 .. s : k * k * c <= d /\ d < (k + 1) * (k + 1) * c
<1> DEFINE Z == {k \in Nat : d < (k + 1) * (k + 1) * c}
<1>1. s \in Z
  <2>1. (s + 1) * (s + 1) * c = s * s * c + 2 * (s * c) + c
    OBVIOUS
  <2>2. s * s * c \in Nat /\ s * c \in Nat
    OBVIOUS
  <2> QED
    BY <2>1, <2>2
<1>2. PICK n \in Z : \A k \in Z : n <= k
  BY <1>1, LeastNat
<1>3. n \in 0 .. s /\ d < (n + 1) * (n + 1) * c
  BY <1>1, <1>2
<1>4. n * n * c <= d
  <2>1. CASE n = 0
    BY <2>1
  <2>2. CASE n > 0
    <3>1. n - 1 \in Nat /\ n - 1 \notin Z /\ n - 1 + 1 = n
      BY <1>2, <1>3, <2>2
    <3>2. n * n * c \in Nat
      BY <1>3
    <3> QED
      BY <3>1, <3>2
  <2> QED
    BY <1>3, <2>1, <2>2
<1> QED
  BY <1>3, <1>4

\* The side of an image that does not fit, reduced: its square is as small as the
\* allocation asks for.
LEMMA ScaledFacts ==
  ASSUME NEW side \in Nat \ {0}, NEW other \in Nat \ {0}, NEW A \in Nat,
         side * other * X!PixelBytes > A
  PROVE  LET k == X!Scaled(side, other, A)
         IN  k \in 0 .. side /\ k * k * other * X!PixelBytes <= side * A
<1> DEFINE c == other * X!PixelBytes
<1>1. X!PixelBytes = 960 /\ c \in Nat \ {0} /\ side * c > A
  BY DEF X!PixelBytes
<1>2. side * A < side * side * c
  <2> HIDE DEF c
  <2>1. A * side + side <= (side * c) * side
    BY <1>1, TimesStrict, side * c \in Int
  <2>2. (side * c) * side = side * side * c /\ A * side = side * A
    BY <1>1
  <2>3. side * A \in Nat /\ side * side * c \in Nat
    BY <1>1
  <2> QED
    BY <2>1, <2>2, <2>3
<1>3. \A k \in 0 .. side : /\ k * k * other * X!PixelBytes = k * k * c
                           /\ (k + 1) * (k + 1) * other * X!PixelBytes = (k + 1) * (k + 1) * c
  BY <1>1
<1>4. \E k \in 0 .. side : k * k * c <= side * A /\ side * A < (k + 1) * (k + 1) * c
  <2> HIDE DEF c
  <2>1. side * A \in Nat
    OBVIOUS
  <2> QED
    BY <1>1, <1>2, <2>1, RootExists
<1> HIDE DEF c
<1> QED
  BY <1>3, <1>4 DEF X!Scaled

\* A number whose square is no greater is no greater.
LEMMA SquaresReflect ==
  ASSUME NEW a \in Nat, NEW b \in Nat, a * a <= b * b
  PROVE  a <= b
<1> SUFFICES ASSUME b < a PROVE FALSE
  OBVIOUS
<1>1. a \in Nat \ {0} /\ b * a + a <= a * a
  BY TimesStrict
<1>2. b * b <= a * b /\ a * b = b * a
  BY TimesMono
<1>3. a * a \in Nat /\ b * b \in Nat /\ b * a \in Nat
  OBVIOUS
<1> QED
  BY <1>1, <1>2, <1>3

\* Both sides reduced: their product fits.
LEMMA ReducedFits ==
  ASSUME NEW w \in Nat \ {0}, NEW h \in Nat \ {0}, NEW A \in Nat, NEW P \in Nat \ {0},
         NEW k \in Nat, NEW j \in Nat,
         k * k * h * P <= w * A, j * j * w * P <= h * A
  PROVE  k * j * P <= A
<1> DEFINE x == k * k * h * P
           y == j * j * w * P
           u == k * j * P
           z == w * h
<1>1. x \in Nat /\ y \in Nat /\ u \in Nat /\ z \in Nat \ {0} /\ w * A \in Nat /\ h * A \in Nat
  BY TimesNat
<1>2. x * y <= (w * A) * (h * A)
  <2> HIDE DEF x, y
  <2> DEFINE p == w * A
             q == h * A
  <2>1. x <= p /\ y <= q /\ p \in Nat /\ q \in Nat
    BY <1>1 DEF x, y
  <2> HIDE DEF p, q
  <2>2. x * y <= p * y /\ y * p <= q * p /\ p * y = y * p /\ q * p = p * q
    BY <1>1, <2>1, TimesMono
  <2>3. x * y \in Nat /\ y * p \in Nat /\ p * q \in Nat
    BY <1>1, <2>1
  <2> QED
    BY <2>2, <2>3 DEF p, q
<1>3. x * y = (u * u) * z
  OBVIOUS
<1>4. (w * A) * (h * A) = (A * A) * z
  OBVIOUS
<1>5. (u * u) * z <= (A * A) * z
  BY <1>2, <1>3, <1>4
<1> HIDE DEF x, y, u, z
<1>6. u * u <= A * A
  <2>1. u * u \in Int /\ A * A \in Int
    BY <1>1
  <2> QED
    BY <1>1, <1>5, <2>1, TimesStrict
<1>7. u <= A
  BY <1>1, <1>6, SquaresReflect
<1> QED
  BY <1>7 DEF u

\* A dynamic BiRefNet computes on every pixel of every image that fits the
\* device's allocations and on less than a patch beyond; any other is reduced to
\* fit, unless a side is down to one patch (birefnet_image_extent).
THEOREM BirefnetCoversAll ==
  \A w, h \in Nat \ {0}, mult \in Nat \ {0}, A \in Nat : X!BirefnetCovers(<<w, h>>, mult, A)
<1> SUFFICES ASSUME NEW w \in Nat \ {0}, NEW h \in Nat \ {0}, NEW mult \in Nat \ {0},
                    NEW A \in Nat
             PROVE  X!BirefnetCovers(<<w, h>>, mult, A)
  BY Zenon
<1> DEFINE ext == <<w, h>>
           e   == X!BirefnetExtent(ext, -1, mult, A)
           n(x) == X!NextMultiple(x, mult)
<1>1. \A x \in Nat : n(x) \in Nat /\ n(x) % mult = 0 /\ x <= n(x) /\ n(x) < x + mult
  BY NextMultipleFacts
<1>2. CASE X!FitsAlloc(ext, A)
  <2>1. e = <<n(w), n(h)>>
    BY <1>2 DEF X!BirefnetExtent
  <2> HIDE DEF n
  <2>2. /\ n(w) % mult = 0 /\ w <= n(w) /\ n(w) < w + mult
        /\ n(h) % mult = 0 /\ h <= n(h) /\ n(h) < h + mult
    BY <1>1
  <2> HIDE DEF e
  <2>3. X!BirefnetCovers(ext, mult, A) <=>
           /\ X!IsPatches(e, mult)
           /\ \A i \in 1 .. 2 : e[i] < ext[i] + mult
           /\ \A i \in 1 .. 2 : ext[i] <= e[i]
    BY <1>2 DEF X!BirefnetCovers, e
  <2> QED
    BY <2>1, <2>2, <2>3 DEF X!IsPatches
<1>3. CASE ~X!FitsAlloc(ext, A)
  <2> DEFINE k == X!Scaled(w, h, A)
             j == X!Scaled(h, w, A)
             r(x) == X!MaxOf(1, x - mult)
  <2>1. e = <<n(r(k)), n(r(j))>>
    BY <1>3 DEF X!BirefnetExtent
  <2>2. X!PixelBytes = 960
    BY DEF X!PixelBytes
  <2>3. w * h * X!PixelBytes > A /\ h * w * X!PixelBytes > A
    BY <1>3, <2>2 DEF X!FitsAlloc
  <2>4. k \in 0 .. w /\ k * k * h * X!PixelBytes <= w * A
    BY <2>3, ScaledFacts
  <2>5. j \in 0 .. h /\ j * j * w * X!PixelBytes <= h * A
    BY <2>3, ScaledFacts
  <2> HIDE DEF k, j
  <2>6. \A x \in Nat : /\ r(x) \in Nat \ {0} /\ r(x) <= X!MaxOf(1, x)
                       /\ r(x) > 1 => r(x) + mult = x
    BY DEF X!MaxOf
  <2> HIDE DEF r, n
  <2>7. r(k) \in Nat /\ r(j) \in Nat /\ r(k) <= w /\ r(j) <= h
    BY <2>4, <2>5, <2>6 DEF X!MaxOf
  <2>8. /\ n(r(k)) \in Nat /\ n(r(k)) % mult = 0 /\ n(r(k)) < r(k) + mult
        /\ n(r(j)) \in Nat /\ n(r(j)) % mult = 0 /\ n(r(j)) < r(j) + mult
    BY <1>1, <2>7
  <2>9. ASSUME n(r(k)) > mult, n(r(j)) > mult
        PROVE  n(r(k)) * n(r(j)) * X!PixelBytes <= A
    <3>1. r(k) > 1 /\ r(j) > 1
      BY <2>7, <2>8, <2>9
    <3>2. r(k) + mult = k /\ r(j) + mult = j
      BY <2>4, <2>5, <2>6, <2>7, <3>1
    <3> DEFINE a == n(r(k))
               b == n(r(j))
    <3>3. a \in Nat /\ b \in Nat /\ a <= k /\ b <= j /\ k \in Nat /\ j \in Nat
      BY <2>4, <2>5, <2>8, <3>2
    <3>4. k * j * X!PixelBytes <= A
      BY <2>2, <2>4, <2>5, <3>3, ReducedFits
    <3> HIDE DEF a, b
    <3>5. a * b <= k * j
      <4>1. a * b <= k * b /\ b * k <= j * k /\ k * b = b * k /\ j * k = k * j
        BY <3>3, TimesMono
      <4>2. a * b \in Nat /\ b * k \in Nat /\ k * j \in Nat
        BY <3>3
      <4> QED
        BY <4>1, <4>2
    <3>6. a * b * X!PixelBytes <= A
      <4>1. a * b \in Nat /\ k * j \in Nat
        BY <3>3
      <4> QED
        BY <2>2, <3>4, <3>5, <4>1
    <3> QED
      BY <3>6 DEF a, b
  <2> HIDE DEF e
  <2>10. X!BirefnetCovers(ext, mult, A) <=>
           /\ X!IsPatches(e, mult)
           /\ \A i \in 1 .. 2 : e[i] < ext[i] + mult
           /\ (\A i \in 1 .. 2 : e[i] > mult) => X!FitsAlloc(e, A)
    BY <1>3 DEF X!BirefnetCovers, e
  <2>11. X!IsPatches(e, mult)
    BY <2>1, <2>8 DEF X!IsPatches
  <2>12. \A i \in 1 .. 2 : e[i] < ext[i] + mult
    BY <2>1, <2>7, <2>8
  <2>13. (\A i \in 1 .. 2 : e[i] > mult) => X!FitsAlloc(e, A)
    <3>1. SUFFICES ASSUME \A i \in 1 .. 2 : e[i] > mult PROVE X!FitsAlloc(e, A)
      OBVIOUS
    <3>2. e[1] = n(r(k)) /\ e[2] = n(r(j))
      BY <2>1
    <3>3. e[1] > mult /\ e[2] > mult
      BY <3>1
    <3> QED
      BY <2>9, <3>2, <3>3 DEF X!FitsAlloc
  <2> QED
    BY <2>10, <2>11, <2>12, <2>13
<1> QED
  BY <1>2, <1>3

\* Two sides scaled by one quotient keep their proportion, rounded down.
LEMMA SidesScale ==
  ASSUME NEW a \in Nat, NEW b \in Nat, NEW t \in Nat, NEW s \in Nat \ {0}
  PROVE  ((a * t) \div s) * b <= ((b * t) \div s + 1) * a
<1> DEFINE p == (a * t) \div s
           q == (b * t) \div s
<1>1. p \in Int /\ p * s <= a * t
  BY DivMod
<1>2. q \in Int /\ b * t < q * s + s
  BY DivMod
<1> HIDE DEF p, q
<1>3. (p * s) * b <= (a * t) * b
  BY <1>1, TimesMono
<1>4. (b * t) * a <= (q * s + s) * a
  BY <1>2, TimesMono
<1>5. (a * t) * b = (b * t) * a
  OBVIOUS
<1>6. (p * s) * b = (p * b) * s
  BY <1>1
<1>7. (q * s + s) * a = ((q + 1) * a) * s
  BY <1>2
<1>8. (p * b) * s <= ((q + 1) * a) * s
  <2>1. (p * b) * s \in Int /\ ((q + 1) * a) * s \in Int /\ (a * t) * b \in Int
    BY <1>1, <1>2
  <2> QED
    BY <1>3, <1>4, <1>5, <1>6, <1>7, <2>1
<1>9. p * b <= (q + 1) * a
  <2>1. p * b \in Int /\ (q + 1) * a \in Int
    BY <1>1, <1>2
  <2> QED
    BY <1>8, <2>1, TimesStrict
<1> QED
  BY <1>9 DEF p, q

\* Depth Anything V2 computes on whole patches, on no fewer pixels than the image
\* has or the caller asked for, in the image's proportions
\* (depthany_image_extent).
THEOREM DepthanyKeepsAll ==
  \A w, h \in Nat \ {0}, size \in Nat, mult \in Nat \ {0} :
      X!DepthanyKeepsDetail(<<w, h>>, size, mult)
<1> SUFFICES ASSUME NEW w \in Nat \ {0}, NEW h \in Nat \ {0}, NEW size \in Nat,
                    NEW mult \in Nat \ {0}
             PROVE  X!DepthanyKeepsDetail(<<w, h>>, size, mult)
  OBVIOUS
<1> DEFINE ext  == <<w, h>>
           side == X!MinOf(w, h)
           tgt  == X!MaxOf(size, X!NextMultiple(side, mult))
           q(i) == (ext[i] * tgt) \div side
           e    == X!DepthanyExtent(ext, size, mult)
<1>1. side \in Nat \ {0} /\ side <= w /\ side <= h
  BY DEF X!MinOf
<1>2. tgt \in Nat /\ size <= tgt /\ side <= tgt
  <2> HIDE DEF side
  <2>1. X!NextMultiple(side, mult) \in Nat /\ side <= X!NextMultiple(side, mult)
    BY <1>1, NextMultipleFacts
  <2> QED
    BY <1>1, <2>1 DEF X!MaxOf
<1>3. \A i \in 1 .. 2 : ext[i] \in Nat \ {0} /\ side <= ext[i]
  BY <1>1
<1>4. \A i \in 1 .. 2 : e[i] = X!NextMultiple(q(i), mult)
  BY DEF X!DepthanyExtent
<1> HIDE DEF side, tgt, ext, e
<1>5. ASSUME NEW i \in 1 .. 2 PROVE q(i) \in Nat /\ q(i) >= tgt /\ q(i) >= ext[i]
  <2> DEFINE x == ext[i]
  <2>1. x \in Nat \ {0} /\ side <= x
    BY <1>3
  <2> HIDE DEF x
  <2>2. x * tgt \in Int
    BY <2>1, <1>2
  <2>3. tgt * side <= x * tgt
    <3>1. side * tgt <= x * tgt
      BY <1>1, <1>2, <2>1, TimesMono
    <3>2. side * tgt = tgt * side
      BY <1>1, <1>2
    <3> QED
      BY <3>1, <3>2
  <2>4. x * side <= x * tgt
    <3>1. side * x <= tgt * x
      BY <1>1, <1>2, <2>1, TimesMono
    <3>2. side * x = x * side /\ tgt * x = x * tgt
      BY <1>1, <1>2, <2>1
    <3> QED
      BY <3>1, <3>2
  <2>5. (x * tgt) \div side \in Int
    BY <1>1, <2>2, DivMod
  <2>6. tgt <= (x * tgt) \div side
    BY <1>1, <1>2, <2>2, <2>3, DivBounds
  <2>7. x <= (x * tgt) \div side
    BY <1>1, <2>1, <2>2, <2>4, DivBounds
  <2>8. q(i) = (x * tgt) \div side
    BY DEF x
  <2> HIDE DEF q
  <2> QED
    BY <1>2, <2>1, <2>5, <2>6, <2>7, <2>8 DEF x
<1>6. ASSUME NEW i \in 1 .. 2, NEW j \in 1 .. 2, ext[i] <= ext[j] PROVE q(i) <= q(j)
  <2>1. ext[i] * tgt <= ext[j] * tgt
    BY <1>2, <1>3, <1>6, TimesMono
  <2>2. ext[i] * tgt \in Int /\ ext[j] * tgt \in Int
    BY <1>2, <1>3
  <2>3. q(i) \in Int /\ q(i) * side <= ext[i] * tgt
    BY <1>1, <2>2, DivMod
  <2>4. q(i) * side <= ext[j] * tgt
    <3> HIDE DEF q
    <3>1. q(i) * side \in Int
      BY <1>1, <2>3
    <3> QED
      BY <2>1, <2>2, <2>3, <3>1
  <2> DEFINE k == q(i)
             y == ext[j] * tgt
  <2>5. k \in Int /\ k * side <= y /\ y \in Int
    BY <2>2, <2>3, <2>4
  <2>6. q(j) = y \div side
    OBVIOUS
  <2> HIDE DEF k, y, q
  <2>7. k <= y \div side
    BY <1>1, <2>5, DivBounds
  <2> QED
    BY <2>6, <2>7 DEF k
<1>7. ASSUME NEW i \in 1 .. 2, NEW j \in 1 .. 2 PROVE q(i) * ext[j] <= (q(j) + 1) * ext[i]
  BY <1>1, <1>2, <1>3, SidesScale
<1> HIDE DEF q
<1>8. \A i \in 1 .. 2 : e[i] \in Nat /\ e[i] % mult = 0 /\ q(i) <= e[i] /\ e[i] < q(i) + mult
  BY <1>4, <1>5, NextMultipleFacts
<1>9. \A i \in 1 .. 2 : e[i] >= size /\ e[i] >= ext[i]
  BY <1>2, <1>3, <1>5, <1>8
<1>10. \A i, j \in 1 .. 2 : ext[i] <= ext[j] => e[i] <= e[j]
  BY <1>4, <1>5, <1>6, NextMultipleMono
<1>11. ASSUME NEW i \in 1 .. 2, NEW j \in 1 .. 2
       PROVE  e[i] * ext[j] < (e[j] + 1) * ext[i] + mult * ext[j]
  <2> DEFINE a == ext[i]
             b == ext[j]
             p == q(i)
             r == q(j)
             f == e[i]
             g == e[j]
  <2>1. a \in Nat \ {0} /\ b \in Nat \ {0} /\ p \in Nat /\ r \in Nat /\ f \in Nat /\ g \in Nat
    BY <1>3, <1>5, <1>8
  <2>2. p * b <= (r + 1) * a /\ f + 1 <= p + mult /\ r <= g
    BY <1>7, <1>8, <2>1
  <2> HIDE DEF a, b, p, r, f, g
  <2>3. (f + 1) * b <= (p + mult) * b
    BY <2>1, <2>2, TimesMono
  <2>4. (r + 1) * a <= (g + 1) * a
    BY <2>1, <2>2, TimesMono
  <2>5. (f + 1) * b = f * b + b /\ (p + mult) * b = p * b + mult * b
    BY <2>1
  <2>6. f * b \in Int /\ p * b \in Int /\ mult * b \in Int /\ (r + 1) * a \in Int /\ (g + 1) * a \in Int
    BY <2>1
  <2>7. f * b < (g + 1) * a + mult * b
    BY <2>1, <2>2, <2>3, <2>4, <2>5, <2>6
  <2> QED
    BY <2>7 DEF a, b, p, r, f, g
<1> QED
  BY <1>8, <1>9, <1>10, <1>11 DEF X!DepthanyKeepsDetail, X!IsPatches, e, ext

\* The nearest multiple of a patch that is not none of them.
LEMMA NearestPatches ==
  ASSUME NEW s \in Nat \ {0}, NEW m \in Nat \ {0}
  PROVE  LET down == (s \div m) * m
             up   == down + m
             e    == IF up - s <= s - down THEN up ELSE X!MaxOf(down, m)
         IN  /\ e \in Nat /\ e % m = 0 /\ e >= m
             /\ 2 * e >= 2 * s - m
             /\ e > m \/ s >= m => 2 * e <= 2 * s + m
<1> DEFINE q    == s \div m
           down == q * m
           up   == down + m
           e    == IF up - s <= s - down THEN up ELSE X!MaxOf(down, m)
<1>1. q \in Int /\ down <= s /\ s < down + m
  BY DivMod
<1>2. 0 <= q /\ (m <= s => 1 <= q)
  <2>1. 0 * m <= s /\ 1 * m = m
    OBVIOUS
  <2>2. 0 <= q
    BY <2>1, DivBounds
  <2>3. m <= s => 1 <= q
    <3>1. 1 * m <= s <=> 1 <= s \div m
      BY DivBounds
    <3> QED
      BY <2>1, <3>1
  <2> QED
    BY <2>2, <2>3
<1> HIDE DEF q
<1>3. down \in Nat /\ (q >= 1 => down >= m)
  <2>1. q * m \in Nat
    BY <1>1, <1>2
  <2>2. q >= 1 => 1 * m <= q * m
    BY <1>1, TimesMono
  <2> QED
    BY <2>1, <2>2
<1>4. down % m = 0 /\ up % m = 0 /\ m % m = 0
  <2>1. (q * m + 0) % m = 0 /\ ((q + 1) * m + 0) % m = 0 /\ (1 * m + 0) % m = 0
    BY <1>1, DivUnique
  <2>2. q * m + 0 = down /\ (q + 1) * m + 0 = up /\ 1 * m + 0 = m
    BY <1>1
  <2> QED
    BY <2>1, <2>2
<1> HIDE DEF down
<1>5. /\ e \in Nat /\ e % m = 0 /\ e >= m
      /\ 2 * e >= 2 * s - m
      /\ e > m \/ s >= m => 2 * e <= 2 * s + m
  BY <1>1, <1>2, <1>3, <1>4 DEF X!MaxOf
<1> QED
  BY <1>5 DEF down, q

\* Depth Anything 3 computes on whole patches, never on none, with the longest
\* side nearest to what was asked for and the other in proportion
\* (depthany3_image_extent).
THEOREM Depthany3KeepsAll ==
  \A w, h \in Nat \ {0}, size \in Nat, mult \in Nat \ {0} :
      X!Depthany3KeepsShape(<<w, h>>, size, mult)
<1> SUFFICES ASSUME NEW w \in Nat \ {0}, NEW h \in Nat \ {0}, NEW size \in Nat,
                    NEW mult \in Nat \ {0}
             PROVE  X!Depthany3KeepsShape(<<w, h>>, size, mult)
  OBVIOUS
<1> DEFINE ext  == <<w, h>>
           J    == X!MaxOf(w, h)
           e    == X!Depthany3Extent(ext, size, mult)
<1>1. J \in Nat \ {0} /\ \A i \in 1 .. 2 : ext[i] \in Nat \ {0} /\ ext[i] <= J
  BY DEF X!MaxOf
<1>2. \A i \in 1 .. 2 : e[i] = X!RoundToPatch(ext[i], size, J, mult)
  BY DEF X!Depthany3Extent
<1> HIDE DEF ext, J, e
<1>3. ASSUME NEW i \in 1 .. 2
      PROVE  /\ e[i] \in Nat /\ e[i] % mult = 0 /\ e[i] >= mult
             /\ ext[i] = J /\ size >= mult =>
                  2 * e[i] <= 2 * size + mult /\ 2 * e[i] >= 2 * size - mult
             /\ e[i] > mult => 2 * e[i] * J <= 2 * ext[i] * size + (mult + 1) * J
             /\ 2 * e[i] * J >= 2 * ext[i] * size - (mult + 1) * J
  <2> DEFINE v == ext[i]
             n == 2 * v * size
             d == 2 * J
             k == (n + J) \div d
             s == X!MaxOf(1, k)
             f == e[i]
  <2>1. v \in Nat \ {0} /\ v <= J
    BY <1>1
  <2> HIDE DEF v
  <2>2. n \in Nat /\ d \in Nat \ {0}
    BY <1>1, <2>1
  <2>3. k \in Int /\ k * d <= n + J /\ n + J < k * d + d
    <3> DEFINE y == n + J
    <3>1. y \in Int
      BY <1>1, <2>2
    <3> HIDE DEF y, d
    <3>2. y \div d \in Int /\ (y \div d) * d <= y /\ y < (y \div d) * d + d
      BY <2>2, <3>1, DivMod
    <3> QED
      BY <3>2 DEF y
  <2>4. k >= 0
    <3> HIDE DEF n, d
    <3>1. 0 * d <= n + J
      BY <1>1, <2>2
    <3> QED
      BY <1>1, <2>2, <3>1, DivBounds
  <2>5. v = J => k = size
    <3> SUFFICES ASSUME v = J PROVE k = size
      OBVIOUS
    <3>1. n + J = size * d + J /\ J \in 0 .. d - 1
      BY <1>1
    <3>2. (size * d + J) \div d = size
      BY <1>1, <2>2, <3>1, DivUnique
    <3> QED
      BY <3>1, <3>2
  <2>6. f = LET down == (s \div mult) * mult
                up   == down + mult
            IN  IF up - s <= s - down THEN up ELSE X!MaxOf(down, mult)
    BY <1>2 DEF X!RoundToPatch, v
  <2> HIDE DEF k
  <2>7. s \in Nat \ {0} /\ s >= k /\ (k >= 1 => s = k) /\ (k = 0 => s = 1)
    BY <2>3, <2>4 DEF X!MaxOf
  <2> HIDE DEF s
  <2> HIDE DEF f
  <2>8. /\ f \in Nat /\ f % mult = 0 /\ f >= mult
        /\ 2 * f >= 2 * s - mult
        /\ f > mult \/ s >= mult => 2 * f <= 2 * s + mult
    BY <2>6, <2>7, NearestPatches
  <2>9. f > mult => s = k
    <3> SUFFICES ASSUME f > mult, k = 0 PROVE FALSE
      BY <2>3, <2>4, <2>7
    <3>1. s = 1
      BY <2>7
    <3>2. CASE mult = 1
      <4>1. 1 \div 1 = 1 /\ 1 * 1 = 1
        BY SMT
      <4> QED
        BY <2>6, <3>1, <3>2, <4>1 DEF X!MaxOf
    <3>3. CASE mult > 1
      <4>1. 1 \div mult = 0 /\ 0 * mult = 0
        <5>1. 0 * mult + 1 = 1 /\ 1 \in 0 .. mult - 1
          BY <3>3
        <5> QED
          BY <5>1, DivUnique
      <4> QED
        BY <2>6, <3>1, <3>3, <4>1 DEF X!MaxOf
    <3> QED
      BY <3>2, <3>3
  <2>10. v = J /\ size >= mult => 2 * f <= 2 * size + mult /\ 2 * f >= 2 * size - mult
    BY <2>5, <2>7, <2>8
  <2>11. 2 * k * J = k * d
    BY <2>3, <1>1
  <2>12. 2 * f * J \in Int /\ 2 * s * J \in Int /\ k * d \in Int /\ mult * J \in Int
         /\ (mult + 1) * J = mult * J + J
    BY <1>1, <2>2, <2>3, <2>7, <2>8
  <2>13. f > mult => 2 * f * J <= n + (mult + 1) * J
    <3> SUFFICES ASSUME f > mult PROVE 2 * f * J <= n + (mult + 1) * J
      OBVIOUS
    <3>1. (2 * f) * J <= (2 * s + mult) * J
      BY <1>1, <2>7, <2>8, TimesMono
    <3>2. (2 * s + mult) * J = 2 * s * J + mult * J
      BY <1>1, <2>7
    <3>3. 2 * s * J = k * d
      BY <2>9, <2>11
    <3> HIDE DEF n, d
    <3> QED
      BY <1>1, <2>2, <2>3, <2>12, <3>1, <3>2, <3>3
  <2>14. 2 * f * J >= n - (mult + 1) * J
    <3>1. (2 * k - mult) * J <= (2 * f) * J
      BY <1>1, <2>3, <2>7, <2>8, TimesMono
    <3>2. (2 * k - mult) * J = 2 * k * J - mult * J
      BY <1>1, <2>3
    <3> HIDE DEF n
    <3> QED
      BY <1>1, <2>2, <2>3, <2>11, <2>12, <3>1, <3>2
  <2> QED
    BY <2>8, <2>10, <2>13, <2>14 DEF v, f
<1> QED
  BY <1>3 DEF X!Depthany3KeepsShape, X!IsPatches, e, ext, J

-----------------------------------------------------------------------------
(***************************************************************************)
(* Recursive functions.  What a definition f[k \in 0 .. n] computes is the *)
(* sequence of values of a step, each in the set the step leads to.         *)
(***************************************************************************)
Leads(step, n, D) == \A k \in 1 .. n : \A d \in D[k - 1] : step[k][d] \in D[k]

\* f is what the definition computes.
Iterates(f, a, step, n, D) ==
    /\ f[0] = a
    /\ \A k \in 1 .. n : f[k] = step[k][f[k - 1]]
    /\ \A k \in 0 .. n : f[k] \in D[k]

\* A recursive definition whose steps lead from one set of values to the next
\* has the function it defines.
LEMMA IterationExists ==
  ASSUME NEW n \in Nat, NEW E, NEW D \in [0 .. n -> SUBSET E], NEW a \in D[0],
         NEW step \in [1 .. n -> [E -> E]],
         Leads(step, n, D)
  PROVE  \E f \in [0 .. n -> E] : Iterates(f, a, step, n, D)
<1> DEFINE Upto(m) == \E f \in [0 .. m -> E] :
                         /\ f[0] = a
                         /\ \A k \in 1 .. m : f[k] = step[k][f[k - 1]]
                         /\ \A k \in 0 .. m : f[k] \in D[k]
           Z == {m \in Nat : m <= n /\ ~Upto(m)}
<1>1. Upto(0)
  <2> DEFINE f == [k \in 0 .. 0 |-> a]
  <2>1. /\ f \in [0 .. 0 -> E] /\ f[0] = a /\ \A k \in 1 .. 0 : f[k] = step[k][f[k - 1]]
        /\ \A k \in 0 .. 0 : f[k] \in D[k]
    OBVIOUS
  <2> QED
    BY <2>1
<1>2. ASSUME NEW m \in 1 .. n, Upto(m - 1) PROVE Upto(m)
  <2>1. PICK g \in [0 .. m - 1 -> E] :
               /\ g[0] = a
               /\ \A k \in 1 .. m - 1 : g[k] = step[k][g[k - 1]]
               /\ \A k \in 0 .. m - 1 : g[k] \in D[k]
    BY <1>2
  <2> DEFINE f == [k \in 0 .. m |-> IF k = m THEN step[m][g[m - 1]] ELSE g[k]]
  <2>2. step[m][g[m - 1]] \in D[m] /\ D[m] \in SUBSET E
    <3>1. g[m - 1] \in D[m - 1]
      BY <2>1
    <3> QED
      BY <3>1 DEF Leads
  <2>3. f \in [0 .. m -> E]
    BY <2>1, <2>2
  <2>4. f[0] = a
    BY <2>1
  <2>5. \A k \in 1 .. m : f[k] = step[k][f[k - 1]]
    BY <2>1
  <2>6. \A k \in 0 .. m : f[k] \in D[k]
    BY <2>1, <2>2
  <2> QED
    BY <2>3, <2>4, <2>5, <2>6
<1> HIDE DEF Upto
<1>3. Z = {}
  <2> SUFFICES ASSUME Z # {} PROVE FALSE
    OBVIOUS
  <2>1. PICK m \in Z : \A k \in Z : m <= k
    BY LeastNat
  <2>2. m # 0 /\ m \in 1 .. n
    BY <1>1, <2>1
  <2>3. m - 1 \notin Z
    BY <2>1
  <2>4. Upto(m - 1)
    BY <2>2, <2>3
  <2> QED
    BY <1>2, <2>2, <2>4
<1>4. Upto(n)
  BY <1>3
<1> QED
  BY <1>4 DEF Upto, Iterates

-----------------------------------------------------------------------------
(***************************************************************************)
(* The size siglip2 resizes an image to (Siglip2).                         *)
(***************************************************************************)
LEMMA MaxTwo ==
  ASSUME NEW a \in Int, NEW b \in Int
  PROVE  /\ S!Max({a, b}) = IF a >= b THEN a ELSE b
         /\ S!Min({a, b}) = IF a <= b THEN a ELSE b
<1>1. \A x : (x \in {a, b} /\ \A y \in {a, b} : x >= y) => x = IF a >= b THEN a ELSE b
  OBVIOUS
<1>2. \E x \in {a, b} : \A y \in {a, b} : x >= y
  <2>1. CASE a >= b
    BY <2>1
  <2>2. CASE ~(a >= b)
    BY <2>2
  <2> QED
    BY <2>1, <2>2
<1>3. \A x : (x \in {a, b} /\ \A y \in {a, b} : x <= y) => x = IF a <= b THEN a ELSE b
  OBVIOUS
<1>4. \E x \in {a, b} : \A y \in {a, b} : x <= y
  <2>1. CASE a <= b
    BY <2>1
  <2>2. CASE ~(a <= b)
    BY <2>2
  <2> QED
    BY <2>1, <2>2
<1> DEFINE P(x) == \A y \in {a, b} : x >= y
           Q(x) == \A y \in {a, b} : x <= y
<1>5. S!Max({a, b}) \in {a, b} /\ P(S!Max({a, b}))
  <2>1. \E x \in {a, b} : P(x)
    BY <1>2
  <2>2. S!Max({a, b}) = CHOOSE x \in {a, b} : P(x)
    BY DEF S!Max
  <2> HIDE DEF P
  <2> QED
    BY <2>1, <2>2
<1>6. S!Min({a, b}) \in {a, b} /\ Q(S!Min({a, b}))
  <2>1. \E x \in {a, b} : Q(x)
    BY <1>4
  <2>2. S!Min({a, b}) = CHOOSE x \in {a, b} : Q(x)
    BY DEF S!Min
  <2> HIDE DEF Q
  <2> QED
    BY <2>1, <2>2
<1> QED
  BY <1>1, <1>3, <1>5, <1>6

\* A quotient rounded up is the least multiplier that reaches the numerator.
LEMMA CeilFacts ==
  ASSUME NEW a \in Int, NEW b \in Nat \ {0}
  PROVE  /\ S!Ceil(a, b) \in Int
         /\ a <= S!Ceil(a, b) * b /\ S!Ceil(a, b) * b < a + b
         /\ \A q \in Int : S!Ceil(a, b) <= q <=> a <= q * b
<1> DEFINE d == (-a) \div b
<1>1. d \in Int /\ d * b <= -a /\ -a < d * b + b
  BY DivMod
<1>2. \A q \in Int : -q <= d <=> (-q) * b <= -a
  <2> SUFFICES ASSUME NEW q \in Int PROVE -q <= d <=> (-q) * b <= -a
    OBVIOUS
  <2> DEFINE m == -q
  <2>1. m \in Int
    OBVIOUS
  <2> HIDE DEF m
  <2>2. m * b <= -a <=> m <= d
    BY <2>1, DivBounds
  <2> HIDE DEF d
  <2> QED
    BY <2>2 DEF m
<1>3. S!Ceil(a, b) = -d
  BY DEF S!Ceil
<1> HIDE DEF d
<1>4. (-d) * b = -(d * b) /\ d * b \in Int
  BY <1>1
<1>5. \A q \in Int : (-q) * b = -(q * b) /\ q * b \in Int
  OBVIOUS
<1>6. \A q \in Int : -d <= q <=> a <= q * b
  <2> SUFFICES ASSUME NEW q \in Int PROVE -d <= q <=> a <= q * b
    OBVIOUS
  <2>1. -q <= d <=> (-q) * b <= -a
    BY <1>2
  <2>2. (-q) * b = -(q * b) /\ q * b \in Int
    BY <1>5
  <2> QED
    BY <1>1, <2>1, <2>2
<1> QED
  BY <1>1, <1>3, <1>4, <1>6

\* The patches along a side of that size.
SidePatches(scale, unit, size, patch) ==
    LET c == S!Ceil(size * scale, unit * patch) IN IF c <= 1 THEN 1 ELSE c

\* A scaled side is a positive number of whole patches.
LEMMA ScaledSizeIsPatches ==
  ASSUME NEW scale \in Nat, NEW unit \in Nat \ {0}, NEW size \in Nat, NEW patch \in Nat \ {0}
  PROVE  LET p == SidePatches(scale, unit, size, patch)
             z == S!ScaledSize(scale, unit, size, patch)
         IN  /\ p \in Nat \ {0}
             /\ z = p * patch /\ z > 0 /\ z % patch = 0 /\ z \div patch = p
<1> DEFINE c == S!Ceil(size * scale, unit * patch)
           p == SidePatches(scale, unit, size, patch)
           z == S!ScaledSize(scale, unit, size, patch)
<1>1. size * scale \in Nat /\ unit * patch \in Nat \ {0}
  BY TimesNat
<1>2. c \in Int
  BY <1>1, CeilFacts
<1>3. p \in Nat \ {0} /\ (c <= 1 => p = 1) /\ (c > 1 => p = c)
  <2>1. p = IF c <= 1 THEN 1 ELSE c
    BY DEF SidePatches
  <2> HIDE DEF c, p
  <2> QED
    BY <1>2, <2>1
<1>4. z = S!Max({patch, c * patch})
  BY DEF S!ScaledSize
<1> HIDE DEF c, p, z
<1>5. z = IF patch >= c * patch THEN patch ELSE c * patch
  BY <1>2, <1>4, MaxTwo, c * patch \in Int
<1>6. z = p * patch
  <2>1. c <= 1 => c * patch <= 1 * patch
    BY <1>2, TimesMono
  <2>2. c > 1 => 1 * patch + patch <= c * patch
    BY <1>2, TimesStrict
  <2>3. 1 * patch = patch /\ c * patch \in Int
    BY <1>2
  <2> QED
    BY <1>2, <1>3, <1>5, <2>1, <2>2, <2>3
<1>7. p * patch \in Nat \ {0}
  BY <1>3, TimesNat
<1>8. (p * patch + 0) \div patch = p /\ (p * patch + 0) % patch = 0 /\ p * patch + 0 = p * patch
  BY <1>3, <1>7, DivUnique
<1> QED
  BY <1>3, <1>6, <1>7, <1>8 DEF p, z

\* A larger scale gives no fewer patches: along a side,
LEMMA SidePatchesMono ==
  ASSUME NEW s \in Nat, NEW t \in Nat, s <= t,
         NEW unit \in Nat \ {0}, NEW size \in Nat, NEW patch \in Nat \ {0}
  PROVE  SidePatches(s, unit, size, patch) <= SidePatches(t, unit, size, patch)
<1> DEFINE u == unit * patch
           c == S!Ceil(size * s, u)
           d == S!Ceil(size * t, u)
<1>1. u \in Nat \ {0} /\ size * s \in Int /\ size * t \in Int
  BY TimesNat
<1>2. size * s <= size * t
  <2>1. s * size <= t * size
    BY TimesMono
  <2>2. s * size = size * s /\ t * size = size * t
    OBVIOUS
  <2> QED
    BY <2>1, <2>2
<1>3. SidePatches(s, unit, size, patch) = IF c <= 1 THEN 1 ELSE c
  BY DEF SidePatches
<1>4. SidePatches(t, unit, size, patch) = IF d <= 1 THEN 1 ELSE d
  BY DEF SidePatches
<1> HIDE DEF u
<1>5. c \in Int /\ d \in Int /\ size * t <= d * u
  BY <1>1, CeilFacts
<1>6. c <= d
  <2> DEFINE e == d
  <2>1. e \in Int /\ size * s <= e * u
    <3> HIDE DEF d
    <3>1. d * u \in Int
      BY <1>1, <1>5
    <3> QED
      BY <1>1, <1>2, <1>5, <3>1
  <2> HIDE DEF e
  <2>2. c <= e
    BY <1>1, <2>1, CeilFacts
  <2> QED
    BY <2>2 DEF e
<1> HIDE DEF c, d
<1> QED
  BY <1>3, <1>4, <1>5, <1>6

\* and in the image.
LEMMA PatchesAtMono ==
  ASSUME NEW s \in Nat, NEW t \in Nat, s <= t,
         NEW unit \in Nat \ {0}, NEW h \in Nat, NEW w \in Nat, NEW patch \in Nat \ {0}
  PROVE  /\ S!PatchesAt(s, unit, h, w, patch) \in Nat
         /\ S!PatchesAt(t, unit, h, w, patch) \in Nat
         /\ S!PatchesAt(s, unit, h, w, patch) <= S!PatchesAt(t, unit, h, w, patch)
<1> DEFINE P(x, z) == SidePatches(x, unit, z, patch)
<1>1. \A x \in Nat : \A z \in Nat : P(x, z) \in Nat
  BY ScaledSizeIsPatches
<1>2. \A x \in Nat : S!PatchesAt(x, unit, h, w, patch) = P(x, h) * P(x, w)
  BY ScaledSizeIsPatches DEF S!PatchesAt
<1>3. P(s, h) <= P(t, h) /\ P(s, w) <= P(t, w)
  BY SidePatchesMono
<1> HIDE DEF P
<1> DEFINE a == P(s, h)
           b == P(s, w)
           c == P(t, h)
           d == P(t, w)
<1>4. a \in Nat /\ b \in Nat /\ c \in Nat /\ d \in Nat /\ a <= c /\ b <= d
  BY <1>1, <1>3
<1> HIDE DEF a, b, c, d
<1>5. a * b <= c * b /\ b * c <= d * c
  BY <1>4, TimesMono
<1>6. a * b \in Nat /\ c * b \in Nat /\ c * b = b * c /\ d * c = c * d /\ c * d \in Nat
  BY <1>4, TimesNat
<1>7. a * b \in Nat /\ c * d \in Nat /\ a * b <= c * d
  BY <1>5, <1>6
<1> QED
  BY <1>2, <1>7 DEF a, b, c, d

\* What the search keeps: its lower bound fits, its upper one does not unless it
\* is the one it began with, and they have come nearer.
Searched(b, h, w, patch, budget, k) ==
    {i \in [lo : Nat, hi : Nat] :
        /\ i.lo <= i.hi /\ i.hi <= b.high
        /\ S!PatchesAt(i.lo, b.unit, h, w, patch) <= budget
        /\ i.hi = b.high \/ S!PatchesAt(i.hi, b.unit, h, w, patch) > budget
        /\ i.hi - i.lo < b.eps \/ i.hi - i.lo + k <= b.high - b.low}

\* One round of it.
Round(b, h, w, patch, budget, i) ==
    LET mid == (i.lo + i.hi) \div 2
    IN  IF i.hi - i.lo < b.eps THEN i
        ELSE IF S!PatchesAt(mid, b.unit, h, w, patch) <= budget
             THEN [i EXCEPT !.lo = mid]
             ELSE [i EXCEPT !.hi = mid]

\* Scales: the search's bounds, in units.
GoodScales == {b \in [unit : Nat \ {0}, low : Nat, high : Nat, eps : Nat] :
                  b.low <= b.high /\ 2 <= b.eps}

\* The patches of an image are those along one side times those along the other.
LEMMA PatchesAtIs ==
  ASSUME NEW s \in Nat, NEW unit \in Nat \ {0}, NEW h \in Nat, NEW w \in Nat,
         NEW patch \in Nat \ {0}
  PROVE  S!PatchesAt(s, unit, h, w, patch)
            = SidePatches(s, unit, h, patch) * SidePatches(s, unit, w, patch)
  BY ScaledSizeIsPatches DEF S!PatchesAt

\* Their number is a natural one.
LEMMA PatchesAtNat ==
  ASSUME NEW s \in Nat, NEW unit \in Nat \ {0}, NEW h \in Nat, NEW w \in Nat,
         NEW patch \in Nat \ {0}
  PROVE  S!PatchesAt(s, unit, h, w, patch) \in Nat
<1>1. s <= s
  OBVIOUS
<1> QED
  BY <1>1, PatchesAtMono

\* A round of the search keeps what is searched for between its bounds, and
\* brings them nearer.
LEMMA RoundSearches ==
  ASSUME NEW b \in GoodScales, NEW h \in Nat, NEW w \in Nat, NEW patch \in Nat \ {0},
         NEW budget \in Nat, NEW k \in Nat,
         NEW i \in Searched(b, h, w, patch, budget, k)
  PROVE  Round(b, h, w, patch, budget, i) \in Searched(b, h, w, patch, budget, k + 1)
<1> DEFINE mid == (i.lo + i.hi) \div 2
           at(s) == S!PatchesAt(s, b.unit, h, w, patch)
<1>1. /\ i \in [lo : Nat, hi : Nat] /\ i.lo <= i.hi /\ i.hi <= b.high
      /\ at(i.lo) <= budget
      /\ i.hi = b.high \/ at(i.hi) > budget
      /\ i.hi - i.lo < b.eps \/ i.hi - i.lo + k <= b.high - b.low
  BY DEF Searched
<1>2. b.low \in Nat /\ b.high \in Nat /\ b.eps \in Nat /\ 2 <= b.eps /\ b.unit \in Nat \ {0}
  BY DEF GoodScales
<1>3. mid \in Nat /\ (i.hi - i.lo >= 2 => i.lo < mid /\ mid < i.hi)
  BY <1>1
<1>4. at(mid) \in Nat
  <2> DEFINE u == b.unit
             m == mid
  <2>1. u \in Nat \ {0} /\ m \in Nat
    BY <1>2, <1>3
  <2> HIDE DEF u, m, at, mid
  <2>2. S!PatchesAt(m, u, h, w, patch) \in Nat
    BY <2>1, PatchesAtNat
  <2> QED
    BY <2>2 DEF u, m, at
<1> HIDE DEF mid, at
<1>5. CASE i.hi - i.lo < b.eps
  <2>1. Round(b, h, w, patch, budget, i) = i
    BY <1>5 DEF Round
  <2> QED
    BY <1>1, <1>5, <2>1 DEF Searched, at
<1>6. CASE ~(i.hi - i.lo < b.eps) /\ at(mid) <= budget
  <2> DEFINE j == [i EXCEPT !.lo = mid]
  <2>1. Round(b, h, w, patch, budget, i) = j
    BY <1>6 DEF Round, mid, at
  <2>2. j \in [lo : Nat, hi : Nat] /\ j.lo = mid /\ j.hi = i.hi
    BY <1>1, <1>3
  <2> HIDE DEF j
  <2>3. j.hi - j.lo + (k + 1) <= b.high - b.low /\ j.lo <= j.hi
    BY <1>1, <1>2, <1>3, <1>6, <2>2
  <2> QED
    BY <1>1, <1>6, <2>1, <2>2, <2>3 DEF Searched, at
<1>7. CASE ~(i.hi - i.lo < b.eps) /\ at(mid) > budget
  <2> DEFINE j == [i EXCEPT !.hi = mid]
  <2>1. Round(b, h, w, patch, budget, i) = j
    BY <1>4, <1>7 DEF Round, mid, at
  <2>2. j \in [lo : Nat, hi : Nat] /\ j.lo = i.lo /\ j.hi = mid
    BY <1>1, <1>3
  <2> HIDE DEF j
  <2>3. j.hi - j.lo + (k + 1) <= b.high - b.low /\ j.lo <= j.hi /\ j.hi <= b.high
    BY <1>1, <1>2, <1>3, <1>7, <2>2
  <2> QED
    BY <1>1, <1>7, <2>1, <2>2, <2>3 DEF Searched, at
<1>8. at(mid) <= budget \/ at(mid) > budget
  BY <1>4
<1> QED
  BY <1>5, <1>6, <1>7, <1>8

\* The whole search.
LEMMA BisectionSearches ==
  ASSUME NEW b \in GoodScales, NEW h \in Nat, NEW w \in Nat, NEW patch \in Nat \ {0},
         NEW budget \in Nat, NEW rounds \in Nat,
         S!PatchesAt(b.low, b.unit, h, w, patch) <= budget
  PROVE  S!Bisection(b, h, w, patch, budget, rounds)
            \in Searched(b, h, w, patch, budget, rounds)
<1> DEFINE E == [lo : Nat, hi : Nat]
           D == [k \in 0 .. rounds |-> Searched(b, h, w, patch, budget, k)]
           a == [lo |-> b.low, hi |-> b.high]
           turn(i) == Round(b, h, w, patch, budget, i)
           step == [k \in 1 .. rounds |-> [i \in E |-> IF turn(i) \in E THEN turn(i) ELSE a]]
           body(g, k) == IF k = 0 THEN a ELSE turn(g[k - 1])
           at == CHOOSE g : g = [k \in 0 .. rounds |-> body(g, k)]
<1>1. b.low \in Nat /\ b.high \in Nat /\ b.low <= b.high
  BY DEF GoodScales
<1>2. a \in E /\ a \in D[0]
  BY <1>1 DEF Searched
<1>3. \A k \in 0 .. rounds : D[k] = Searched(b, h, w, patch, budget, k) /\ D[k] \subseteq E
  BY DEF Searched
<1>4. \A k \in 1 .. rounds : \A i \in D[k - 1] : turn(i) \in D[k] /\ turn(i) \in E /\ i \in E
  <2> SUFFICES ASSUME NEW k \in 1 .. rounds, NEW i \in D[k - 1]
               PROVE  turn(i) \in D[k] /\ turn(i) \in E /\ i \in E
    OBVIOUS
  <2>1. k - 1 \in Nat /\ (k - 1) + 1 = k /\ i \in Searched(b, h, w, patch, budget, k - 1)
    BY <1>3
  <2>2. turn(i) \in Searched(b, h, w, patch, budget, k)
    BY <2>1, RoundSearches
  <2> QED
    BY <1>3, <2>2, <2>1
<1>5. D \in [0 .. rounds -> SUBSET E]
  BY <1>3
<1> HIDE DEF D, turn, a, E
<1>6. step \in [1 .. rounds -> [E -> E]]
  BY <1>2
<1>7. \A k \in 1 .. rounds : \A i \in D[k - 1] : step[k][i] = turn(i) /\ step[k][i] \in D[k]
  BY <1>4
<1>7a. Leads(step, rounds, D)
  BY <1>7 DEF Leads
<1> HIDE DEF step, body, at
<1>7b. \E f \in [0 .. rounds -> E] : Iterates(f, a, step, rounds, D)
  BY <1>2, <1>5, <1>6, <1>7a, IterationExists
<1>8. PICK f \in [0 .. rounds -> E] : /\ f[0] = a
                                      /\ \A k \in 1 .. rounds : f[k] = step[k][f[k - 1]]
                                      /\ \A k \in 0 .. rounds : f[k] \in D[k]
  BY <1>7b DEF Iterates
<1>9. f = [k \in 0 .. rounds |-> body(f, k)]
  <2>1. \A k \in 0 .. rounds : f[k] = body(f, k)
    <3> SUFFICES ASSUME NEW k \in 0 .. rounds PROVE f[k] = body(f, k)
      OBVIOUS
    <3>1. CASE k = 0
      BY <1>8, <3>1 DEF body
    <3>2. CASE k # 0
      <4>1. k \in 1 .. rounds /\ k - 1 \in 0 .. rounds
        BY <3>2
      <4>2. f[k] = turn(f[k - 1])
        BY <1>7, <1>8, <4>1
      <4> QED
        BY <3>2, <4>2 DEF body
    <3> QED
      BY <3>1, <3>2
  <2> QED
    BY <2>1, <1>8
<1>10. at = [k \in 0 .. rounds |-> body(at, k)]
  <2>1. \E g : g = [k \in 0 .. rounds |-> body(g, k)]
    BY <1>9
  <2> QED
    BY <2>1 DEF at
<1>11. at[0] = a /\ \A k \in 1 .. rounds : at[k] = turn(at[k - 1])
  BY <1>10 DEF body
<1>12. \A k \in 0 .. rounds : at[k] \in D[k]
  <2> DEFINE Z == {k \in Nat : k <= rounds /\ at[k] \notin D[k]}
  <2> SUFFICES ASSUME Z # {} PROVE FALSE
    OBVIOUS
  <2>1. PICK k \in Z : \A j \in Z : k <= j
    BY LeastNat
  <2>2. k # 0
    BY <1>2, <1>11, <2>1
  <2>3. k \in 1 .. rounds /\ k - 1 \in 0 .. rounds /\ k - 1 \notin Z
    BY <2>1, <2>2
  <2>4. at[k - 1] \in D[k - 1]
    BY <2>3
  <2>5. at[k] \in D[k]
    BY <1>4, <1>11, <2>3, <2>4
  <2> QED
    BY <2>1, <2>5
<1>13. S!Bisection(b, h, w, patch, budget, rounds) = at[rounds]
  BY DEF S!Bisection, at, body, a, turn, Round
<1> QED
  BY <1>3, <1>12, <1>13

\* The sides it ends with are whole patches.
LEMMA TargetIsPatches ==
  ASSUME NEW y \in Nat, NEW u \in Nat \ {0}, NEW h \in Nat, NEW w \in Nat,
         NEW patch \in Nat \ {0}
  PROVE  LET v == S!ScaledSize(y, u, h, patch)
             x == S!ScaledSize(y, u, w, patch)
         IN  /\ v % patch = 0 /\ v > 0 /\ x % patch = 0 /\ x > 0
             /\ (v \div patch) * (x \div patch) = S!PatchesAt(y, u, h, w, patch)
  BY ScaledSizeIsPatches, PatchesAtIs

\* A side of z pixels is no longer than a patch at the scale s.
InPatch(z, s, unit, patch) == z * s <= unit * patch

\* At such a scale the image is one patch.
LEMMA OnePatch ==
  ASSUME NEW s \in Nat, NEW unit \in Nat \ {0}, NEW h \in Nat, NEW w \in Nat,
         NEW patch \in Nat \ {0}, InPatch(h, s, unit, patch), InPatch(w, s, unit, patch)
  PROVE  S!PatchesAt(s, unit, h, w, patch) = 1
<1>1. \A z \in {h, w} : SidePatches(s, unit, z, patch) = 1
  <2> SUFFICES ASSUME NEW z \in {h, w} PROVE SidePatches(s, unit, z, patch) = 1
    OBVIOUS
  <2> DEFINE u == unit * patch
             y == z * s
  <2>1. u \in Nat \ {0}
    BY TimesNat
  <2>2. y \in Nat
    BY TimesNat
  <2>3. y <= u
    BY DEF InPatch
  <2> HIDE DEF u, y
  <2>4. u \in Nat \ {0} /\ y \in Nat /\ y <= 1 * u
    BY <2>1, <2>2, <2>3
  <2>5. S!Ceil(y, u) <= 1
    BY <2>4, CeilFacts
  <2> QED
    BY <2>5 DEF SidePatches, u, y
<1>2. SidePatches(s, unit, h, patch) = 1 /\ SidePatches(s, unit, w, patch) = 1
  BY <1>1
<1>3. S!PatchesAt(s, unit, h, w, patch)
        = SidePatches(s, unit, h, patch) * SidePatches(s, unit, w, patch)
  BY PatchesAtIs
<1>4. S!PatchesAt(s, unit, h, w, patch) = 1 * 1
  BY <1>2, <1>3
<1> QED
  BY <1>4

\* siglip2 resizes every image to whole patches within the budget, and to a size
\* that could not be a step larger (compute_target_size), whatever the bounds and
\* the step of the search, if the smallest scale makes the image one patch.
THEOREM BudgetIsUsedAlways ==
  \A b \in GoodScales, h, w, patch, budget \in Nat \ {0}, rounds \in Nat :
      /\ h * b.low <= b.unit * patch /\ w * b.low <= b.unit * patch
      /\ b.high - b.low <= rounds
      => S!BudgetIsUsed(b, h, w, patch, budget, rounds)
<1> SUFFICES ASSUME NEW b \in GoodScales, NEW h \in Nat \ {0}, NEW w \in Nat \ {0},
                    NEW patch \in Nat \ {0}, NEW budget \in Nat \ {0}, NEW rounds \in Nat,
                    InPatch(h, b.low, b.unit, patch), InPatch(w, b.low, b.unit, patch),
                    b.high - b.low <= rounds
             PROVE  S!BudgetIsUsed(b, h, w, patch, budget, rounds)
  BY DEF InPatch
<1> DEFINE i == S!Bisection(b, h, w, patch, budget, rounds)
           t == S!TargetSize(b, h, w, patch, budget, rounds)
           at(s) == S!PatchesAt(s, b.unit, h, w, patch)
<1>1. b.low \in Nat /\ b.high \in Nat /\ b.eps \in Nat /\ 2 <= b.eps /\ b.unit \in Nat \ {0}
      /\ b.low <= b.high
  BY DEF GoodScales
<1>2. at(b.low) = 1
  BY <1>1, OnePatch
<1>3. i \in Searched(b, h, w, patch, budget, rounds)
  <2>1. S!PatchesAt(b.low, b.unit, h, w, patch) <= budget
    BY <1>2
  <2> QED
    BY <2>1, BisectionSearches
<1> HIDE DEF i
<1>4. /\ i.lo \in Nat /\ i.hi \in Nat /\ i.lo <= i.hi /\ i.hi <= b.high
      /\ at(i.lo) <= budget
      /\ i.hi = b.high \/ at(i.hi) > budget
      /\ i.hi - i.lo < b.eps \/ i.hi - i.lo + rounds <= b.high - b.low
  BY <1>3 DEF Searched
<1>5. i.hi - i.lo < b.eps
  BY <1>1, <1>4
<1>6. t = [h |-> S!ScaledSize(i.lo, b.unit, h, patch), w |-> S!ScaledSize(i.lo, b.unit, w, patch)]
  BY DEF S!TargetSize, i
<1>7. /\ t.h % patch = 0 /\ t.w % patch = 0 /\ t.h > 0 /\ t.w > 0
      /\ (t.h \div patch) * (t.w \div patch) = at(i.lo)
  <2> DEFINE y == i.lo
             u == b.unit
             v == S!ScaledSize(y, u, h, patch)
             x == S!ScaledSize(y, u, w, patch)
  <2>1. y \in Nat /\ u \in Nat \ {0} /\ h \in Nat /\ w \in Nat
    BY <1>1, <1>4
  <2>2. t.h = v /\ t.w = x
    BY <1>6
  <2> HIDE DEF y, u, at, t
  <2>3. /\ v % patch = 0 /\ v > 0 /\ x % patch = 0 /\ x > 0
        /\ (v \div patch) * (x \div patch) = S!PatchesAt(y, u, h, w, patch)
    BY <2>1, TargetIsPatches
  <2>4. at(i.lo) = S!PatchesAt(y, u, h, w, patch)
    BY DEF at, y, u
  <2> HIDE DEF v, x
  <2> QED
    BY <2>2, <2>3, <2>4
<1>8. ASSUME NEW s \in (i.lo + b.eps) .. (b.high - 1) PROVE at(s) > budget
  <2>1. s \in Nat /\ i.hi <= s /\ i.hi # b.high
    BY <1>1, <1>4, <1>5
  <2>2. at(i.hi) \in Nat /\ at(s) \in Nat /\ at(i.hi) <= at(s)
    BY <1>1, <1>4, <2>1, PatchesAtMono
  <2> HIDE DEF at
  <2> QED
    BY <1>4, <2>1, <2>2
<1> HIDE DEF t
<1>9. /\ i.hi - i.lo < b.eps
      /\ t.h % patch = 0 /\ t.w % patch = 0 /\ t.h > 0 /\ t.w > 0
      /\ (t.h \div patch) * (t.w \div patch) <= budget
      /\ \A s \in (i.lo + b.eps) .. (b.high - 1) : at(s) > budget
  BY <1>4, <1>5, <1>7, <1>8
<1> QED
  BY <1>9 DEF S!BudgetIsUsed, i, t

-----------------------------------------------------------------------------
(***************************************************************************)
(* Indices of rows of rows.                                                *)
(***************************************************************************)

\* Place a of row b, of n rows of m places, and back.
LEMMA PairIndex ==
  ASSUME NEW m \in Nat \ {0}, NEW n \in Nat, NEW a \in 0 .. m - 1, NEW b \in 0 .. n - 1
  PROVE  /\ b * m + a \in 0 .. n * m - 1
         /\ (b * m + a) % m = a /\ (b * m + a) \div m = b
<1>1. (b + 1) * m <= n * m
  <2>1. b + 1 \in Int /\ b + 1 <= n
    OBVIOUS
  <2> DEFINE c == b + 1
  <2>2. c \in Int /\ c <= n
    BY <2>1
  <2> HIDE DEF c
  <2>3. c * m <= n * m
    BY <2>2, TimesMono
  <2> QED
    BY <2>3 DEF c
<1>2. (b + 1) * m = b * m + m
  OBVIOUS
<1>3. b * m \in Nat /\ n * m \in Nat
  OBVIOUS
<1>4. (b * m + a) % m = a /\ (b * m + a) \div m = b
  BY DivUnique
<1> QED
  BY <1>1, <1>2, <1>3, <1>4

\* Every index is that of a place in a row.
LEMMA IndexPair ==
  ASSUME NEW m \in Nat \ {0}, NEW n \in Nat, NEW i \in 0 .. n * m - 1
  PROVE  /\ i % m \in 0 .. m - 1 /\ i \div m \in 0 .. n - 1
         /\ i = (i \div m) * m + (i % m)
<1>1. n * m \in Nat /\ i \in Int /\ 0 * m <= i /\ i < n * m
  OBVIOUS
<1>2. /\ i \div m \in Int /\ i % m \in 0 .. m - 1
      /\ i = (i \div m) * m + (i % m)
  BY <1>1, DivMod
<1>3. 0 <= i \div m
  BY <1>1, DivBounds
<1>4. i \div m < n
  BY <1>1, DivBounds
<1> QED
  BY <1>2, <1>3, <1>4

\* Whole multiples.
LEMMA WholeMultiple ==
  ASSUME NEW w \in Nat \ {0}, NEW m \in Nat \ {0}, w % m = 0
  PROVE  w \div m \in Nat \ {0} /\ w = (w \div m) * m
<1> DEFINE q == w \div m
<1>1. q \in Int /\ w = q * m + 0
  BY DivMod
<1> HIDE DEF q
<1>2. q * m \in Int
  BY <1>1
<1>3. ~(q <= 0)
  <2> SUFFICES ASSUME q <= 0 PROVE FALSE
    OBVIOUS
  <2>1. q * m <= 0 * m
    BY <1>1, TimesMono
  <2> QED
    BY <1>1, <1>2, <2>1
<1>4. q \in Nat \ {0} /\ w = q * m
  BY <1>1, <1>2, <1>3
<1> QED
  BY <1>4 DEF q

-----------------------------------------------------------------------------
(***************************************************************************)
(* The layouts of feature maps and images (Sam3Layouts, Siglip2).          *)
(***************************************************************************)

\* The perceiver's windows put every place of a map of whole windows back where
\* it was (edgetam_window_partition_cpu, edgetam_window_unpartition_cpu).
THEOREM CpuWindowsComeBack ==
  \A w, h, ws \in Nat \ {0} : L!CpuWindowsAreSquares(w, h, ws)
<1> SUFFICES ASSUME NEW w \in Nat \ {0}, NEW h \in Nat \ {0}, NEW ws \in Nat \ {0},
                    w % ws = 0, h % ws = 0,
                    NEW x \in 0 .. w - 1, NEW y \in 0 .. h - 1
             PROVE  L!CpuPartition(w, h, ws)[L!CpuUnpartition(w, h, ws)[<<x, y>>]] = <<x, y>>
  BY DEF L!CpuWindowsAreSquares
<1> DEFINE nw == w \div ws
           nh == h \div ws
           wx == x \div ws
           wy == y \div ws
           tx == x % ws
           ty == y % ws
           win == wy * nw + wx
           tok == ty * ws + tx
<1>1. nw \in Nat \ {0} /\ w = nw * ws /\ nh \in Nat \ {0} /\ h = nh * ws
  BY WholeMultiple
<1>2. L!CpuUnpartition(w, h, ws)[<<x, y>>] = <<win, tok>>
  BY DEF L!CpuUnpartition
<1> HIDE DEF nw, nh
<1>3. tx \in 0 .. ws - 1 /\ wx \in 0 .. nw - 1 /\ x = wx * ws + tx
  BY <1>1, IndexPair
<1>4. ty \in 0 .. ws - 1 /\ wy \in 0 .. nh - 1 /\ y = wy * ws + ty
  BY <1>1, IndexPair
<1> HIDE DEF wx, wy, tx, ty
<1>5. win \in 0 .. nh * nw - 1 /\ win % nw = wx /\ win \div nw = wy
  BY <1>1, <1>3, <1>4, PairIndex
<1>6. tok \in 0 .. ws * ws - 1 /\ tok % ws = tx /\ tok \div ws = ty
  BY <1>3, <1>4, PairIndex
<1>7. nh * nw = nw * nh
  BY <1>1
<1> HIDE DEF win, tok
<1>8. L!CpuPartition(w, h, ws)[<<win, tok>>]
         = <<(win % nw) * ws + (tok % ws), (win \div nw) * ws + (tok \div ws)>>
  BY <1>5, <1>6, <1>7 DEF L!CpuPartition, nw, nh
<1>9. <<(win % nw) * ws + (tok % ws), (win \div nw) * ws + (tok \div ws)>> = <<x, y>>
  BY <1>3, <1>4, <1>5, <1>6
<1> QED
  BY <1>2, <1>8, <1>9

\* The network's input has every element of the image once, a plane for each
\* channel (sam3_preprocess_image, sam2_preprocess_image).
THEOREM PlanesOfAllSizes == \A size \in Nat \ {0} : L!PlanesAreChannels(size)
<1> SUFFICES ASSUME NEW size \in Nat \ {0} PROVE L!PlanesAreChannels(size)
  OBVIOUS
<1> DEFINE sq == size * size
           n == 3 * size * size
<1>1. sq \in Nat \ {0} /\ n = 3 * sq
  <2>1. sq \in Nat \ {0}
    BY TimesNat
  <2> QED
    BY <2>1
<1>2. ASSUME NEW i \in 0 .. n - 1
      PROVE  /\ L!PlanarFrom(i, size) \in 0 .. n - 1
             /\ L!PlanarFrom(i, size) % 3 = i \div sq
  <2> DEFINE c == i \div sq
             p == i % sq
             y == p \div size
             x == p % size
  <2>1. c \in 0 .. 2 /\ p \in 0 .. sq - 1 /\ i = c * sq + p
    BY <1>1, IndexPair
  <2> HIDE DEF p, c
  <2>2. y \in 0 .. size - 1 /\ x \in 0 .. size - 1 /\ p = y * size + x
    BY <2>1, IndexPair
  <2> HIDE DEF x, y
  <2>3. i = (c * size + y) * size + x
    BY <2>1, <2>2
  <2>4. i % size = x /\ i \div size = c * size + y
    BY <2>1, <2>2, <2>3, DivUnique, c * size + y \in Int
  <2>5. (c * size + y) % size = y
    BY <2>1, <2>2, DivUnique
  <2>6. L!PlanarFrom(i, size) = p * 3 + c
    BY <2>2, <2>4, <2>5 DEF L!PlanarFrom, c
  <2>7. p * 3 + c \in 0 .. sq * 3 - 1 /\ (p * 3 + c) % 3 = c
    BY <1>1, <2>1, PairIndex
  <2>8. sq * 3 = n
    BY <1>1
  <2> HIDE DEF sq, n
  <2> QED
    BY <2>6, <2>7, <2>8 DEF c
<1>3. ASSUME NEW j \in 0 .. n - 1 PROVE \E i \in 0 .. n - 1 : L!PlanarFrom(i, size) = j
  <2> DEFINE c == j % 3
             p == j \div 3
             y == p \div size
             x == p % size
             i == c * sq + p
  <2>0. n = sq * 3
    BY <1>1
  <2>1. c \in 0 .. 2 /\ p \in 0 .. sq - 1 /\ j = p * 3 + c
    BY <1>1, <2>0, IndexPair
  <2> HIDE DEF p, c
  <2>2. y \in 0 .. size - 1 /\ x \in 0 .. size - 1 /\ p = y * size + x
    BY <2>1, IndexPair
  <2> HIDE DEF x, y
  <2>3. i \in 0 .. 3 * sq - 1 /\ i \div sq = c
    BY <1>1, <2>1, PairIndex
  <2>4. i = (c * size + y) * size + x
    BY <2>1, <2>2
  <2>5. i % size = x /\ i \div size = c * size + y
    BY <2>1, <2>2, <2>4, DivUnique, c * size + y \in Int
  <2>6. (c * size + y) % size = y
    BY <2>1, <2>2, DivUnique
  <2>7. L!PlanarFrom(i, size) = p * 3 + c
    <3> HIDE DEF i
    <3> QED
      BY <2>2, <2>3, <2>5, <2>6 DEF L!PlanarFrom
  <2> HIDE DEF i, sq, n
  <2> QED
    BY <1>1, <2>1, <2>3, <2>7
<1> HIDE DEF n
<1>4. {L!PlanarFrom(i, size) : i \in 0 .. (n - 1)} = 0 .. (n - 1)
  BY <1>2, <1>3
<1>5. \A i \in 0 .. (n - 1) : L!PlanarFrom(i, size) % 3 = i \div (size * size)
  BY <1>2
<1> QED
  BY <1>4, <1>5 DEF L!PlanesAreChannels, n

\* siglip2's patches are squares of the image, each pixel in one of them
\* (rescale_normalize_patchify).
THEOREM PatchesOfAllImages ==
  \A rows, columns, patch \in Nat \ {0} : S!PatchesAreSquares(rows, columns, patch)
<1> SUFFICES ASSUME NEW rows \in Nat \ {0}, NEW columns \in Nat \ {0}, NEW patch \in Nat \ {0}
             PROVE  S!PatchesAreSquares(rows, columns, patch)
  OBVIOUS
<1> DEFINE height == rows * patch
           width == columns * patch
           at == S!Patchified(height, width, patch)
           sq == patch * patch
           n == rows * columns
           last == n * sq - 1
           Page(o) == o \div sq
           Px(o) == ((o \div sq) % columns) * patch + ((o % sq) % patch)
           Py(o) == ((o \div sq) \div columns) * patch + ((o % sq) \div patch)
<1>1. width \div patch = columns /\ height \div patch = rows
  <2>1. (columns * patch + 0) \div patch = columns
    BY DivUnique
  <2>2. (rows * patch + 0) \div patch = rows
    BY DivUnique
  <2>3. columns * patch + 0 = width /\ rows * patch + 0 = height
    OBVIOUS
  <2> QED
    BY <2>1, <2>2, <2>3
<1>2. sq \in Nat \ {0} /\ n \in Nat \ {0} /\ n * sq \in Nat
  <2>1. sq \in Nat \ {0} /\ n \in Nat \ {0}
    BY TimesNat
  <2> HIDE DEF sq, n
  <2> QED
    BY <2>1, TimesNat
<1>3. at = [o \in 0 .. last |-> <<Px(o), Py(o)>>]
  <2>1. (height \div patch) * (width \div patch) * patch * patch - 1 = last
    <3>1. rows * columns * patch * patch = n * sq
      OBVIOUS
    <3> QED
      BY <1>1, <3>1
  <2> HIDE DEF last, height, width
  <2> QED
    BY <1>1, <2>1 DEF S!Patchified
<1> HIDE DEF at
<1>4. DOMAIN at = 0 .. last /\ \A o \in 0 .. last : at[o] = <<Px(o), Py(o)>>
  <2> HIDE DEF last, Px, Py
  <2> QED
    BY <1>3
\* The page and the place on it, from an index.
<1>5. ASSUME NEW o \in 0 .. last
      PROVE  /\ o \div sq \in 0 .. n - 1 /\ o % sq \in 0 .. sq - 1
             /\ o = (o \div sq) * sq + (o % sq)
             /\ (o \div sq) % columns \in 0 .. columns - 1
             /\ (o \div sq) \div columns \in 0 .. rows - 1
             /\ o \div sq = ((o \div sq) \div columns) * columns + ((o \div sq) % columns)
             /\ (o % sq) % patch \in 0 .. patch - 1 /\ (o % sq) \div patch \in 0 .. patch - 1
             /\ o % sq = ((o % sq) \div patch) * patch + ((o % sq) % patch)
  <2> HIDE DEF last, sq, n
  <2>1. /\ o \div sq \in 0 .. n - 1 /\ o % sq \in 0 .. sq - 1
        /\ o = (o \div sq) * sq + (o % sq)
    BY <1>2, IndexPair DEF last
  <2> DEFINE p == o \div sq
             f == o % sq
  <2>2. p \in 0 .. n - 1 /\ f \in 0 .. sq - 1
    BY <2>1
  <2> HIDE DEF p, f
  <2>3. p % columns \in 0 .. columns - 1 /\ p \div columns \in 0 .. rows - 1
        /\ p = (p \div columns) * columns + (p % columns)
    BY <2>2, IndexPair DEF n
  <2>4. f % patch \in 0 .. patch - 1 /\ f \div patch \in 0 .. patch - 1
        /\ f = (f \div patch) * patch + (f % patch)
    BY <2>2, IndexPair DEF sq
  <2> QED
    BY <2>1, <2>3, <2>4 DEF p, f
<1>6. ASSUME NEW o \in 0 .. last
      PROVE  /\ Px(o) \in 0 .. width - 1 /\ Py(o) \in 0 .. height - 1
             /\ Px(o) \div patch = (o \div sq) % columns /\ Px(o) % patch = (o % sq) % patch
             /\ Py(o) \div patch = (o \div sq) \div columns /\ Py(o) % patch = (o % sq) \div patch
  <2> DEFINE a == (o \div sq) % columns
             b == (o % sq) % patch
             c == (o \div sq) \div columns
             d == (o % sq) \div patch
  <2>1. a \in 0 .. columns - 1 /\ b \in 0 .. patch - 1 /\ c \in 0 .. rows - 1 /\ d \in 0 .. patch - 1
    BY <1>5
  <2> HIDE DEF a, b, c, d
  <2>2. a * patch + b \in 0 .. columns * patch - 1 /\ (a * patch + b) \div patch = a
        /\ (a * patch + b) % patch = b
    BY <2>1, PairIndex
  <2>3. c * patch + d \in 0 .. rows * patch - 1 /\ (c * patch + d) \div patch = c
        /\ (c * patch + d) % patch = d
    BY <2>1, PairIndex
  <2> QED
    BY <2>2, <2>3 DEF a, b, c, d
<1>7. ASSUME NEW x \in 0 .. width - 1, NEW y \in 0 .. height - 1
      PROVE  \E o \in 0 .. last : Px(o) = x /\ Py(o) = y
  <2> DEFINE a == x \div patch
             b == x % patch
             c == y \div patch
             d == y % patch
             p == c * columns + a
             f == d * patch + b
             o == p * sq + f
  <2>1. a \in 0 .. columns - 1 /\ b \in 0 .. patch - 1 /\ x = a * patch + b
    BY IndexPair
  <2>2. c \in 0 .. rows - 1 /\ d \in 0 .. patch - 1 /\ y = c * patch + d
    BY IndexPair
  <2> HIDE DEF a, b, c, d
  <2>3. p \in 0 .. n - 1 /\ p % columns = a /\ p \div columns = c
    BY <2>1, <2>2, PairIndex
  <2>4. f \in 0 .. sq - 1 /\ f % patch = b /\ f \div patch = d
    BY <2>1, <2>2, PairIndex
  <2> HIDE DEF p, f, sq, n
  <2>5. o \in 0 .. n * sq - 1 /\ o % sq = f /\ o \div sq = p
    BY <1>2, <2>3, <2>4, PairIndex
  <2> HIDE DEF o
  <2>6. o \in 0 .. last /\ Px(o) = x /\ Py(o) = y
    BY <2>1, <2>2, <2>3, <2>4, <2>5
  <2> QED
    BY <2>6
<1>8. ASSUME NEW o \in 0 .. last, NEW u \in 0 .. last, Px(o) = Px(u), Py(o) = Py(u)
      PROVE  o = u
  <2>1. (o \div sq) % columns = (u \div sq) % columns /\ (o % sq) % patch = (u % sq) % patch
    BY <1>6, <1>8
  <2>2. (o \div sq) \div columns = (u \div sq) \div columns
        /\ (o % sq) \div patch = (u % sq) \div patch
    BY <1>6, <1>8
  <2> HIDE DEF Px, Py, sq, last
  <2>3. o \div sq = u \div sq
    BY <1>5, <2>1, <2>2
  <2>4. o % sq = u % sq
    BY <1>5, <2>1, <2>2
  <2> QED
    BY <1>5, <2>3, <2>4
<1>9. ASSUME NEW o \in 0 .. last, NEW u \in 0 .. last, o \div sq = u \div sq
      PROVE  Px(o) \div patch = Px(u) \div patch /\ Py(o) \div patch = Py(u) \div patch
  BY <1>6, <1>9
<1> HIDE DEF Px, Py, last, width, height
<1>10. {at[o] : o \in DOMAIN at} = (0 .. (width - 1)) \X (0 .. (height - 1))
  <2>1. ASSUME NEW o \in 0 .. last PROVE at[o] \in (0 .. (width - 1)) \X (0 .. (height - 1))
    <3>1. at[o] = <<Px(o), Py(o)>>
      BY <1>4
    <3>2. Px(o) \in 0 .. width - 1 /\ Py(o) \in 0 .. height - 1
      BY <1>6
    <3> QED
      BY <3>1, <3>2
  <2>2. ASSUME NEW q \in (0 .. (width - 1)) \X (0 .. (height - 1))
        PROVE  \E o \in 0 .. last : at[o] = q
    <3>1. q[1] \in 0 .. width - 1 /\ q[2] \in 0 .. height - 1 /\ q = <<q[1], q[2]>>
      OBVIOUS
    <3>2. PICK o \in 0 .. last : Px(o) = q[1] /\ Py(o) = q[2]
      BY <1>7, <3>1
    <3> QED
      BY <1>4, <3>1, <3>2
  <2> QED
    BY <1>4, <2>1, <2>2
<1>11. \A o, u \in DOMAIN at : at[o] = at[u] => o = u
  BY <1>4, <1>8
<1>12. \A o, u \in DOMAIN at : o \div sq = u \div sq =>
          \A d \in 1 .. 2 : at[o][d] \div patch = at[u][d] \div patch
  <2> SUFFICES ASSUME NEW o \in 0 .. last, NEW u \in 0 .. last, o \div sq = u \div sq,
                      NEW d \in 1 .. 2
               PROVE  at[o][d] \div patch = at[u][d] \div patch
    BY <1>4
  <2>1. Px(o) \div patch = Px(u) \div patch /\ Py(o) \div patch = Py(u) \div patch
    BY <1>9
  <2>2. at[o][1] = Px(o) /\ at[o][2] = Py(o) /\ at[u][1] = Px(u) /\ at[u][2] = Py(u)
    BY <1>4
  <2>3. CASE d = 1
    BY <2>1, <2>2, <2>3
  <2>4. CASE d = 2
    BY <2>1, <2>2, <2>4
  <2> QED
    BY <2>3, <2>4
<1> QED
  BY <1>10, <1>11, <1>12 DEF S!PatchesAreSquares, at, width, height

-----------------------------------------------------------------------------
\* The hat: what a sample at f, of m steps to a pixel, gives to pixel p.
Hat(p, f, m) ==
    LET d == m * p - f
        a == IF d < 0 THEN -d ELSE d
    IN  IF a <= m THEN m - a ELSE 0

\* The hat is symmetric.
LEMMA HatMirrored ==
  ASSUME NEW p \in Int, NEW f \in Int, NEW m \in Int, NEW e \in Int
  PROVE  Hat(e - p, m * e - f, m) = Hat(p, f, m)
<1>1. m * (e - p) - (m * e - f) = -(m * p - f)
  OBVIOUS
<1> QED
  BY <1>1 DEF Hat

\* Two neighbours share a sample between them as its hat does.
LEMMA NeighboursShare ==
  ASSUME NEW src \in Nat, NEW dst \in Nat \ {0},
         NEW y0 \in Int, NEW y1 \in Int, NEW k \in 0 .. 2 * dst,
         y1 = y0 + 1 \/ (y1 = y0 /\ k = 0),
         NEW p \in 0 .. src - 1
  PROVE  L!Weights(<<y0, y1, k>>, src, dst)[p] = Hat(p, y0 * (2 * dst) + k, 2 * dst)
<1> DEFINE m == 2 * dst
           d == m * p - (y0 * m + k)
<1>1. m \in Nat \ {0}
  OBVIOUS
<1>2. L!Weights(<<y0, y1, k>>, src, dst)[p]
         = (IF p = y0 THEN m - k ELSE 0) + (IF p = y1 THEN k ELSE 0)
  BY DEF L!Weights
<1> HIDE DEF m
<1>3. m * p \in Int /\ m * p = p * m /\ y0 * m \in Int /\ k \in 0 .. m
  BY <1>1 DEF m
<1>4. p < y0 => p * m + m <= y0 * m
  BY <1>1, TimesStrict
<1>5. p > y0 + 1 => (y0 + 1) * m + m <= p * m
  BY <1>1, TimesStrict, y0 + 1 \in Int
<1>6. (y0 + 1) * m = y0 * m + m
  BY <1>1
<1>7. Hat(p, y0 * m + k, m) = (IF p = y0 THEN m - k ELSE 0) + (IF p = y1 THEN k ELSE 0)
  <2>1. CASE p < y0
    BY <1>1, <1>3, <1>4, <2>1 DEF Hat
  <2>2. CASE p = y0
    BY <1>1, <1>3, <2>2 DEF Hat
  <2>3. CASE p = y0 + 1
    BY <1>1, <1>3, <1>6, <2>3 DEF Hat
  <2>4. CASE p > y0 + 1
    BY <1>1, <1>3, <1>5, <1>6, <2>4 DEF Hat
  <2> QED
    BY <2>1, <2>2, <2>3, <2>4
<1> QED
  BY <1>2, <1>7 DEF m

\* The place of a sample, brought into the image.
Place(c, src, dst) ==
    LET end == (src - 1) * (2 * dst) IN IF c < 0 THEN 0 ELSE IF c > end THEN end ELSE c

\* Resampling by rows gives every pixel what the hat of its place gives it
\* (sam3_resize_bilinear).
LEMMA ResizeIsHat ==
  ASSUME NEW src \in Nat \ {0}, NEW dst \in Nat \ {0}, NEW y \in 0 .. dst - 1
  PROVE  LET r == L!Resize(y, src, dst)
         IN  /\ {r[1], r[2]} \subseteq 0 .. (src - 1) /\ r[3] \in 0 .. (2 * dst)
             /\ \A p \in 0 .. (src - 1) :
                  L!Weights(r, src, dst)[p] = Hat(p, Place(L!Centre(y, src, dst), src, dst), 2 * dst)
<1> DEFINE m == 2 * dst
           c == L!Centre(y, src, dst)
           f == L!Larger(0, c)
           y0 == f \div m
           y1 == IF y0 < src - 1 THEN y0 + 1 ELSE y0
           k == f - y0 * m
           end == (src - 1) * m
<1>1. m \in Nat \ {0} /\ c \in Int
  BY DEF L!Centre
<1>2. c < src * m
  <2>1. (2 * y + 1) * src <= m * src
    BY TimesMono, 2 * y + 1 \in Int, 2 * y + 1 <= m
  <2>2. m * src = src * m /\ (2 * y + 1) * src \in Int /\ src * m \in Int
    BY <1>1
  <2>3. c = (2 * y + 1) * src - dst
    BY DEF L!Centre
  <2> HIDE DEF c, m
  <2> QED
    BY <2>1, <2>2, <2>3
<1>3. f \in Nat /\ f < src * m /\ (f = c \/ (f = 0 /\ c < 0)) /\ (c >= 0 => f = c)
  <2>1. f = IF 0 >= c THEN 0 ELSE c
    BY DEF L!Larger
  <2>2. src * m \in Nat \ {0}
    BY <1>1, TimesNat
  <2> HIDE DEF f, c, m
  <2> QED
    BY <1>1, <1>2, <2>1, <2>2
<1>4. L!Resize(y, src, dst) = <<y0, y1, k>>
  <2>1. y0 * 2 * dst = y0 * m
    <3>1. y0 \in Int
      <4> HIDE DEF f, m, c
      <4> QED
        BY <1>1, <1>3, DivMod
    <3> HIDE DEF y0
    <3> QED
      BY <3>1
  <2> QED
    BY <2>1 DEF L!Resize
<1> HIDE DEF f, c, m
<1>5. y0 \in Int /\ y0 * m <= f /\ f < y0 * m + m
  BY <1>1, <1>3, DivMod
<1>6. 0 <= y0 /\ y0 < src
  <2>1. 0 * m <= f
    BY <1>1, <1>3
  <2> QED
    BY <1>1, <1>3, <2>1, DivBounds
<1> HIDE DEF y0
<1>7. k \in 0 .. m /\ y0 * m \in Int /\ f = y0 * m + k
  BY <1>1, <1>3, <1>5
<1>8. y0 \in 0 .. src - 1 /\ y1 \in 0 .. src - 1
  BY <1>5, <1>6
<1>9. end \in Int
  BY <1>1
<1>10. ASSUME NEW p \in 0 .. src - 1
       PROVE  L!Weights(<<y0, y1, k>>, src, dst)[p] = Hat(p, Place(c, src, dst), m)
  <2>1. CASE y0 < src - 1
    <3>1. y1 = y0 + 1
      BY <2>1
    <3>2. (y0 + 1) * m <= end
      BY <1>1, <1>6, <1>5, <2>1, TimesMono
    <3>3. (y0 + 1) * m = y0 * m + m
      BY <1>1, <1>5
    <3>4. f <= end
      <4> HIDE DEF end, k, y1
      <4> QED
        BY <1>1, <1>3, <1>5, <1>7, <1>9, <3>2, <3>3
    <3>5. Place(c, src, dst) = f
      <4> HIDE DEF end, k, y1
      <4>1. Place(c, src, dst) = IF c < 0 THEN 0 ELSE IF c > end THEN end ELSE c
        BY DEF Place, end, m
      <4> QED
        BY <1>1, <1>3, <1>9, <3>4, <4>1
    <3>6. L!Weights(<<y0, y1, k>>, src, dst)[p] = Hat(p, y0 * m + k, m)
      <4> HIDE DEF k, y1
      <4> QED
        BY <1>5, <1>7, <3>1, NeighboursShare DEF m
    <3> QED
      BY <1>7, <3>5, <3>6
  <2>2. CASE y0 = src - 1
    <3>1. y1 = y0 /\ end = y0 * m
      BY <1>1, <1>5, <2>2
    <3>2. Place(c, src, dst) = end
      <4> HIDE DEF end, k, y1
      <4>1. Place(c, src, dst) = IF c < 0 THEN 0 ELSE IF c > end THEN end ELSE c
        BY DEF Place, end, m
      <4> QED
        BY <1>1, <1>3, <1>5, <1>6, <1>7, <1>9, <3>1, <4>1
    <3>3. L!Weights(<<y0, y1, k>>, src, dst) = L!Weights(<<y0, y0, 0>>, src, dst)
      <4> HIDE DEF k, y1
      <4>1. \A q \in 0 .. src - 1 :
              (IF q = y0 THEN m - k ELSE 0) + (IF q = y0 THEN k ELSE 0)
                 = (IF q = y0 THEN m - 0 ELSE 0) + (IF q = y0 THEN 0 ELSE 0)
        BY <1>1, <1>7
      <4> QED
        BY <3>1, <4>1 DEF L!Weights, m
    <3>4. L!Weights(<<y0, y0, 0>>, src, dst)[p] = Hat(p, y0 * m + 0, m)
      BY <1>1, <1>5, NeighboursShare DEF m
    <3>5. y0 * m + 0 = end
      BY <1>7, <3>1
    <3> QED
      BY <3>2, <3>3, <3>4, <3>5
  <2> QED
    BY <1>8, <2>1, <2>2
<1> HIDE DEF k, y1
<1> QED
  BY <1>4, <1>7, <1>8, <1>10 DEF m, c

\* So does resampling by four neighbours (sam3_bilinear_interpolate).
LEMMA InterpolateIsHat ==
  ASSUME NEW src \in Nat \ {0}, NEW dst \in Nat \ {0}, NEW y \in 0 .. dst - 1, src >= 2
  PROVE  LET r == L!Interpolate(y, src, dst)
         IN  /\ {r[1], r[2]} \subseteq 0 .. (src - 1) /\ r[3] \in 0 .. (2 * dst)
             /\ \A p \in 0 .. (src - 1) :
                  L!Weights(r, src, dst)[p] = Hat(p, Place(L!Centre(y, src, dst), src, dst), 2 * dst)
<1> DEFINE m == 2 * dst
           c == L!Centre(y, src, dst)
           end == (src - 1) * m
           f == L!Larger(0, L!Smaller(c, end))
           q == f \div m
           y0 == L!Smaller(q, src - 2)
           k == f - y0 * m
<1>1. m \in Nat \ {0} /\ c \in Int
  BY DEF L!Centre
<1>2. end \in Nat /\ end = (src - 2) * m + m /\ (src - 2) * m \in Nat
  <2>1. src - 1 \in Nat /\ src - 2 \in Nat
    OBVIOUS
  <2> HIDE DEF m
  <2>2. (src - 1) * m \in Nat /\ (src - 2) * m \in Nat
    BY <1>1, <2>1, TimesNat
  <2>3. (src - 1) * m = (src - 2) * m + m
    BY <1>1, <2>1
  <2> QED
    BY <2>2, <2>3
<1>3. L!Interpolate(y, src, dst) = <<y0, y0 + 1, k>>
  <2>1. (src - 1) * 2 * dst = end
    OBVIOUS
  <2>2. \A z \in Int : z * 2 * dst = z * m
    OBVIOUS
  <2>3. f \in Int
    <3> HIDE DEF c, end, m
    <3> QED
      BY <1>1, <1>2 DEF L!Larger, L!Smaller
  <2>4. q \in Int
    <3> HIDE DEF f, m
    <3> QED
      BY <1>1, <2>3, DivMod
  <2>5. y0 \in Int
    <3> HIDE DEF q
    <3> QED
      BY <2>4 DEF L!Smaller
  <2>6. y0 * 2 * dst = y0 * m
    <3> HIDE DEF y0, m
    <3> QED
      BY <2>2, <2>5
  <2> QED
    BY <2>1, <2>6 DEF L!Interpolate
<1> HIDE DEF c, m, end
<1>4. f = Place(c, src, dst) /\ f \in 0 .. end
  <2>1. f = IF c < 0 THEN 0 ELSE IF c > end THEN end ELSE c
    BY <1>1, <1>2 DEF L!Larger, L!Smaller
  <2> HIDE DEF f
  <2> QED
    BY <1>1, <1>2, <2>1 DEF Place, end, m
<1> HIDE DEF f
<1>5. q \in Int /\ q * m <= f /\ f < q * m + m /\ 0 <= q
  <2>1. 0 * m <= f /\ f \in Int
    BY <1>1, <1>2, <1>4
  <2> QED
    BY <1>1, <2>1, DivMod, DivBounds
<1> HIDE DEF q
<1>6. y0 = IF q <= src - 2 THEN q ELSE src - 2
  BY <1>5 DEF L!Smaller
<1> HIDE DEF y0
<1>7. y0 \in 0 .. src - 2
  BY <1>5, <1>6
<1>8. y0 * m \in Int /\ y0 * m <= f /\ f <= y0 * m + m
  <2>1. CASE q <= src - 2
    <3>1. y0 = q
      BY <1>6, <2>1
    <3> QED
      BY <1>1, <1>2, <1>4, <1>5, <3>1
  <2>2. CASE q > src - 2
    <3>1. y0 = src - 2
      BY <1>5, <1>6, <2>2
    <3>2. (src - 2) * m <= q * m
      BY <1>1, <1>5, <2>2, TimesMono
    <3>3. q * m \in Int
      BY <1>1, <1>5
    <3> QED
      BY <1>2, <1>4, <1>5, <3>1, <3>2, <3>3
  <2> QED
    BY <1>5, <2>1, <2>2
<1>9. k \in 0 .. m /\ f = y0 * m + k
  BY <1>1, <1>2, <1>4, <1>8
<1> HIDE DEF k
<1>10. ASSUME NEW p \in 0 .. src - 1
       PROVE  L!Weights(<<y0, y0 + 1, k>>, src, dst)[p] = Hat(p, f, m)
  <2> DEFINE y1 == y0 + 1
  <2>1. y1 \in Int /\ y1 = y0 + 1 /\ y0 \in Int
    BY <1>7
  <2> HIDE DEF y1
  <2>2. L!Weights(<<y0, y1, k>>, src, dst)[p] = Hat(p, y0 * m + k, m)
    BY <1>9, <2>1, NeighboursShare DEF m
  <2> QED
    BY <1>9, <2>2 DEF y1
<1>11. {y0, y0 + 1} \subseteq 0 .. (src - 1)
  BY <1>7
<1> QED
  BY <1>3, <1>4, <1>9, <1>10, <1>11 DEF m, c

\* The two samplers read inside the image, weigh its pixels alike, and from the
\* right as from the left, whatever the two sizes.
THEOREM SamplersAlwaysAgree == \A src, dst \in Nat \ {0} : L!SamplersAgree(src, dst)
<1> SUFFICES ASSUME NEW src \in Nat \ {0}, NEW dst \in Nat \ {0} PROVE L!SamplersAgree(src, dst)
  OBVIOUS
<1> DEFINE R(y) == L!Resize(y, src, dst)
           I(y) == L!Interpolate(y, src, dst)
           W(r) == L!Weights(r, src, dst)
           P(y) == Place(L!Centre(y, src, dst), src, dst)
<1>1. ASSUME NEW y \in 0 .. dst - 1
      PROVE  /\ {R(y)[1], R(y)[2]} \subseteq 0 .. (src - 1) /\ R(y)[3] \in 0 .. (2 * dst)
             /\ \A p \in 0 .. (src - 1) : W(R(y))[p] = Hat(p, P(y), 2 * dst)
  BY ResizeIsHat
<1>2. ASSUME NEW y \in 0 .. dst - 1, src >= 2
      PROVE  /\ {I(y)[1], I(y)[2]} \subseteq 0 .. (src - 1) /\ I(y)[3] \in 0 .. (2 * dst)
             /\ \A p \in 0 .. (src - 1) : W(I(y))[p] = Hat(p, P(y), 2 * dst)
  BY <1>2, InterpolateIsHat
<1>3. \A r : W(r) = [p \in 0 .. src - 1 |-> W(r)[p]]
  BY DEF L!Weights
<1>4. ASSUME NEW y \in 0 .. dst - 1 PROVE P(y) \in Int /\ P(dst - 1 - y) = (2 * dst) * (src - 1) - P(y)
  <2> DEFINE z == dst - 1 - y
             c == L!Centre(y, src, dst)
             d == L!Centre(z, src, dst)
             end == (src - 1) * (2 * dst)
  <2>1. z \in Int /\ c \in Int /\ d \in Int
    BY DEF L!Centre
  <2>2. end \in Nat /\ end = (2 * dst) * (src - 1)
    OBVIOUS
  <2>3. d = end - c
    BY DEF L!Centre
  <2>4. P(y) = IF c < 0 THEN 0 ELSE IF c > end THEN end ELSE c
    BY DEF Place
  <2>5. P(z) = IF d < 0 THEN 0 ELSE IF d > end THEN end ELSE d
    BY DEF Place
  <2> HIDE DEF c, d, end, P
  <2>6. P(y) \in Int /\ P(z) = end - P(y)
    BY <2>1, <2>2, <2>3, <2>4, <2>5
  <2> QED
    BY <2>2, <2>6
<1> HIDE DEF R, I, W, P
<1>5. ASSUME NEW y \in 0 .. dst - 1, src >= 2 PROVE W(I(y)) = W(R(y))
  <2>1. \A p \in 0 .. src - 1 : W(I(y))[p] = W(R(y))[p]
    BY <1>1, <1>2, <1>5
  <2>2. W(I(y)) = [p \in 0 .. src - 1 |-> W(I(y))[p]] /\ W(R(y)) = [p \in 0 .. src - 1 |-> W(R(y))[p]]
    BY <1>3
  <2> DEFINE H(p) == W(I(y))[p]
             G(p) == W(R(y))[p]
  <2>3. \A p \in 0 .. src - 1 : H(p) = G(p)
    BY <2>1
  <2>4. W(I(y)) = [p \in 0 .. src - 1 |-> H(p)] /\ W(R(y)) = [p \in 0 .. src - 1 |-> G(p)]
    BY <2>2
  <2> HIDE DEF H, G
  <2> QED
    BY <2>3, <2>4
<1>6. ASSUME NEW y \in 0 .. dst - 1, NEW p \in 0 .. src - 1
      PROVE  W(R(y))[p] = W(R(dst - 1 - y))[src - 1 - p]
  <2> DEFINE z == dst - 1 - y
             q == src - 1 - p
             m == 2 * dst
             e == src - 1
  <2>1. z \in 0 .. dst - 1 /\ q \in 0 .. src - 1 /\ q = e - p /\ m \in Int /\ e \in Int
    OBVIOUS
  <2>2. P(y) \in Int /\ P(z) = m * e - P(y)
    BY <1>4
  <2>3. W(R(y))[p] = Hat(p, P(y), m) /\ W(R(z))[q] = Hat(q, P(z), m)
    <3> HIDE DEF z, q
    <3> QED
      BY <1>1, <2>1
  <2> HIDE DEF z, q, m, e
  <2>4. Hat(e - p, m * e - P(y), m) = Hat(p, P(y), m)
    <3> DEFINE f == P(y)
    <3>1. f \in Int
      BY <2>2
    <3> HIDE DEF f
    <3>2. Hat(e - p, m * e - f, m) = Hat(p, f, m)
      BY <2>1, <3>1, HatMirrored
    <3> QED
      BY <3>2 DEF f
  <2> QED
    BY <2>1, <2>2, <2>3, <2>4 DEF z, q
<1> QED
  BY <1>1, <1>2, <1>5, <1>6 DEF L!SamplersAgree, R, I, W

-----------------------------------------------------------------------------
(***************************************************************************)
(* Folds over finite sets.                                                 *)
(***************************************************************************)

\* Induction on subsets: the smallest counterexample.
LEMMA SmallestSet ==
  ASSUME NEW A, IsFiniteSet(A), NEW Z \in SUBSET (SUBSET A), Z # {}
  PROVE  \E s \in Z : /\ IsFiniteSet(s)
                      /\ \A x \in s : s \ {x} \notin Z
<1> DEFINE N == {n \in Nat : \E s \in Z : Cardinality(s) = n}
<1>1. \A s \in Z : IsFiniteSet(s) /\ Cardinality(s) \in Nat
  BY FS_Subset, FS_CardinalityType
<1>2. N # {} /\ N \in SUBSET Nat
  BY <1>1
<1>3. PICK n \in N : \A m \in N : n <= m
  <2> HIDE DEF N
  <2> QED
    BY <1>2, LeastNat
<1>4. PICK s \in Z : Cardinality(s) = n
  BY <1>3
<1>5. ASSUME NEW x \in s, s \ {x} \in Z PROVE FALSE
  <2>1. IsFiniteSet(s)
    BY <1>1
  <2>2. Cardinality(s \ {x}) = Cardinality(s) - 1
    BY <2>1, FS_RemoveElement
  <2>3. Cardinality(s \ {x}) \in N
    BY <1>1, <1>5
  <2>4. n <= n - 1 /\ n \in Nat
    BY <1>3, <1>4, <2>2, <2>3
  <2> QED
    BY <2>4
<1> QED
  BY <1>1, <1>4, <1>5

\* What a fold computes, from the subsets of a set.
Folding(g, A, base, step, pick) ==
    g = [s \in SUBSET A |-> IF s = {} THEN base ELSE step[pick[s]][g[s \ {pick[s]}]]]

\* One element of every subset.
Picks(pick, A) == \A s \in SUBSET A : s # {} => pick[s] \in s

\* There is such a function.
LEMMA FoldingExists ==
  ASSUME NEW A, IsFiniteSet(A), NEW V, NEW base \in V, NEW step \in [A -> [V -> V]],
         NEW pick, Picks(pick, A)
  PROVE  \E g \in [SUBSET A -> V] : Folding(g, A, base, step, pick)
<1> DEFINE Small(n) == {s \in SUBSET A : Cardinality(s) <= n}
           Value(g, s) == IF s = {} THEN base ELSE step[pick[s]][g[s \ {pick[s]}]]
           Upto(n) == \E g \in [Small(n) -> V] : \A s \in Small(n) : g[s] = Value(g, s)
           Z == {n \in Nat : ~Upto(n)}
<1>1. \A s \in SUBSET A : /\ IsFiniteSet(s) /\ Cardinality(s) \in Nat
                          /\ Cardinality(s) <= Cardinality(A)
  BY FS_Subset, FS_CardinalityType
<1>2. \A s \in SUBSET A : s # {} =>
         /\ pick[s] \in A /\ s \ {pick[s]} \in SUBSET A
         /\ Cardinality(s \ {pick[s]}) = Cardinality(s) - 1
  BY <1>1, FS_RemoveElement DEF Picks
<1>3. Upto(0)
  <2> DEFINE g == [s \in Small(0) |-> base]
  <2>1. \A s \in Small(0) : s = {}
    BY <1>1, FS_EmptySet
  <2>2. g \in [Small(0) -> V]
    OBVIOUS
  <2>3. \A s \in Small(0) : g[s] = Value(g, s)
    BY <2>1
  <2> QED
    BY <2>2, <2>3
<1>4. ASSUME NEW n \in Nat \ {0}, Upto(n - 1) PROVE Upto(n)
  <2>1. PICK h \in [Small(n - 1) -> V] : \A s \in Small(n - 1) : h[s] = Value(h, s)
    BY <1>4
  <2> DEFINE g == [s \in Small(n) |-> IF s \in Small(n - 1) THEN h[s] ELSE Value(h, s)]
  <2>2. \A s \in Small(n) : s # {} => s \ {pick[s]} \in Small(n - 1)
    BY <1>1, <1>2
  <2>3. Small(n - 1) \subseteq Small(n)
    BY <1>1
  <2>4. \A s \in Small(n) : Value(h, s) \in V
    <3> SUFFICES ASSUME NEW s \in Small(n), s # {} PROVE step[pick[s]][h[s \ {pick[s]}]] \in V
      OBVIOUS
    <3>1. pick[s] \in A /\ h[s \ {pick[s]}] \in V
      BY <1>2, <2>1, <2>2
    <3>2. step[pick[s]] \in [V -> V]
      BY <3>1
    <3> QED
      BY <3>1, <3>2
  <2> HIDE DEF Small
  <2>5. g \in [Small(n) -> V]
    <3> HIDE DEF Value
    <3> QED
      BY <2>1, <2>4
  <2>6. \A s \in Small(n) : g[s] = Value(h, s)
    <3> HIDE DEF Value
    <3> QED
      BY <2>1
  <2>7. \A s \in Small(n) : s # {} => g[s \ {pick[s]}] = h[s \ {pick[s]}]
    BY <2>1, <2>2, <2>3
  <2> HIDE DEF g
  <2>8. \A s \in Small(n) : g[s] = Value(g, s)
    BY <2>6, <2>7
  <2> QED
    BY <2>5, <2>8
<1> HIDE DEF Upto
<1>5. Z = {}
  <2> SUFFICES ASSUME Z # {} PROVE FALSE
    OBVIOUS
  <2>1. PICK n \in Z : \A m \in Z : n <= m
    <3>1. Z \in SUBSET Nat
      OBVIOUS
    <3> HIDE DEF Z
    <3> QED
      BY <3>1, LeastNat
  <2>2. n \in Nat \ {0}
    BY <1>3, <2>1
  <2>3. n - 1 \notin Z /\ n - 1 \in Nat
    BY <2>1, <2>2
  <2>4. Upto(n - 1)
    BY <2>3
  <2> QED
    BY <1>4, <2>1, <2>2, <2>4
<1>6. Upto(Cardinality(A))
  BY <1>1, <1>5
<1>7. Small(Cardinality(A)) = SUBSET A
  BY <1>1
<1>8. PICK g \in [SUBSET A -> V] : \A s \in SUBSET A : g[s] = Value(g, s)
  BY <1>6, <1>7 DEF Upto
<1>9. g = [s \in SUBSET A |-> Value(g, s)]
  <2> HIDE DEF Value
  <2> QED
    BY <1>8
<1> QED
  BY <1>9 DEF Folding

\* The step of a fold leads from the values of a set without an element to those
\* of the set.
StepKeeps(D, A, step, pick) ==
    \A s \in SUBSET A : s # {} => \A v \in D[s \ {pick[s]}] : step[pick[s]][v] \in D[s]

\* And it keeps what each step keeps.
LEMMA FoldingKeeps ==
  ASSUME NEW A, IsFiniteSet(A), NEW base, NEW step, NEW pick, NEW g, NEW D,
         Folding(g, A, base, step, pick), Picks(pick, A),
         base \in D[{}],
         StepKeeps(D, A, step, pick)
  PROVE  \A s \in SUBSET A : g[s] \in D[s]
<1> DEFINE Z == {s \in SUBSET A : g[s] \notin D[s]}
<1> SUFFICES ASSUME Z # {} PROVE FALSE
  OBVIOUS
<1>1. PICK s \in Z : \A x \in s : s \ {x} \notin Z
  <2>1. Z \in SUBSET (SUBSET A)
    OBVIOUS
  <2> HIDE DEF Z
  <2> QED
    BY <2>1, SmallestSet
<1>2. \A r \in SUBSET A : g[r] = IF r = {} THEN base ELSE step[pick[r]][g[r \ {pick[r]}]]
  BY DEF Folding
<1>3. s # {}
  BY <1>2
<1>4. g[s \ {pick[s]}] \in D[s \ {pick[s]}]
  BY <1>1, <1>3 DEF Picks
<1>5. g[s] \in D[s]
  BY <1>2, <1>3, <1>4 DEF StepKeeps
<1> QED
  BY <1>5

-----------------------------------------------------------------------------
(***************************************************************************)
(* Sums.                                                                   *)
(***************************************************************************)
Total(f, A) == S!MapThenSumSet(LAMBDA k : f[k], A)

\* What a fold of the community modules takes next.
Some(s) == CHOOSE x \in s : TRUE

\* The sums of f over the subsets of A.
Summing(g, f, A) ==
    /\ g \in [SUBSET A -> Int]
    /\ \A s \in SUBSET A : g[s] = IF s = {} THEN 0 ELSE f[Some(s)] + g[s \ {Some(s)}]

\* There is such a function, and Total is its value.
LEMMA SummingExists ==
  ASSUME NEW A, IsFiniteSet(A), NEW f, \A x \in A : f[x] \in Int
  PROVE  \E g : Summing(g, f, A) /\ Total(f, A) = g[A]
<1> DEFINE pick == [s \in SUBSET A |-> Some(s)]
           step == [x \in A |-> [v \in Int |-> f[x] + v]]
           Body(g) == [s \in SUBSET A |-> IF s = {} THEN 0 ELSE f[Some(s)] + g[s \ {Some(s)}]]
           g0 == CHOOSE g : g = Body(g)
<1>1. \A s \in SUBSET A : s # {} => pick[s] \in s /\ pick[s] = Some(s)
  BY DEF Some
<1>2. step \in [A -> [Int -> Int]]
  OBVIOUS
<1> HIDE DEF pick, step
<1>2a. Picks(pick, A)
  BY <1>1 DEF Picks
<1>3. \E h \in [SUBSET A -> Int] : Folding(h, A, 0, step, pick)
  <2> DEFINE z == 0
             V == Int
  <2>1. z \in V /\ step \in [A -> [V -> V]]
    BY <1>2
  <2> HIDE DEF z, V, Body, g0
  <2>2. \E h \in [SUBSET A -> V] : Folding(h, A, z, step, pick)
    BY <1>2a, <2>1, FoldingExists
  <2> QED
    BY <2>2 DEF z, V
<1>3a. PICK h \in [SUBSET A -> Int] : Folding(h, A, 0, step, pick)
  BY <1>3
<1>4. \A s \in SUBSET A : h[s] = IF s = {} THEN 0 ELSE f[Some(s)] + h[s \ {Some(s)}]
  <2> SUFFICES ASSUME NEW s \in SUBSET A
               PROVE  h[s] = IF s = {} THEN 0 ELSE f[Some(s)] + h[s \ {Some(s)}]
    OBVIOUS
  <2>1. h[s] = IF s = {} THEN 0 ELSE step[pick[s]][h[s \ {pick[s]}]]
    BY <1>3a DEF Folding
  <2>2. ASSUME s # {} PROVE step[pick[s]][h[s \ {pick[s]}]] = f[Some(s)] + h[s \ {Some(s)}]
    <3>1. pick[s] = Some(s) /\ Some(s) \in A /\ h[s \ {Some(s)}] \in Int
      BY <1>1, <2>2
    <3> QED
      BY <3>1 DEF step
  <2> QED
    BY <2>1, <2>2
<1>5. h = Body(h)
  BY <1>4
<1>6. g0 = Body(g0)
  <2> HIDE DEF Body
  <2> QED
    BY <1>5
<1>7. Total(f, A) = g0[A]
  BY DEF Total, S!MapThenSumSet, S!MapThenFoldSet, Some
<1> HIDE DEF g0
<1>8. \A s \in SUBSET A : g0[s] = IF s = {} THEN 0 ELSE f[Some(s)] + g0[s \ {Some(s)}]
  BY <1>6
<1>9. \A s \in SUBSET A : g0[s] \in Int
  <2> DEFINE Z == {s \in SUBSET A : g0[s] \notin Int}
  <2> SUFFICES ASSUME Z # {} PROVE FALSE
    OBVIOUS
  <2>1. PICK s \in Z : \A x \in s : s \ {x} \notin Z
    <3>1. Z \in SUBSET (SUBSET A)
      OBVIOUS
    <3> HIDE DEF Z
    <3> QED
      BY <3>1, SmallestSet
  <2>0. s \in SUBSET A /\ g0[s] \notin Int
    BY <2>1
  <2>2. s # {}
    BY <1>8, <2>0
  <2>3. Some(s) \in s
    BY <2>2 DEF Some
  <2>4. g0[s \ {Some(s)}] \in Int /\ f[Some(s)] \in Int
    BY <2>1, <2>3
  <2>5. g0[s] = f[Some(s)] + g0[s \ {Some(s)}]
    BY <1>8, <2>0, <2>2
  <2> HIDE DEF Z
  <2> QED
    BY <2>0, <2>4, <2>5
<1>10. g0 \in [SUBSET A -> Int]
  BY <1>6, <1>9
<1> QED
  BY <1>7, <1>8, <1>10 DEF Summing

\* The order of the summands does not matter.
LEMMA SummingSteps ==
  ASSUME NEW A, IsFiniteSet(A), NEW f, \A x \in A : f[x] \in Int, NEW g, Summing(g, f, A)
  PROVE  \A s \in SUBSET A : \A x \in s : g[s] = f[x] + g[s \ {x}]
<1> DEFINE Z == {s \in SUBSET A : \E x \in s : g[s] # f[x] + g[s \ {x}]}
<1> SUFFICES ASSUME Z # {} PROVE FALSE
  OBVIOUS
<1>1. PICK s \in Z : \A x \in s : s \ {x} \notin Z
  <2>1. Z \in SUBSET (SUBSET A)
    OBVIOUS
  <2> HIDE DEF Z
  <2> QED
    BY <2>1, SmallestSet
<1>2. PICK x \in s : g[s] # f[x] + g[s \ {x}]
  BY <1>1
<1> DEFINE c == Some(s)
<1>3. c \in s /\ s \in SUBSET A
  BY <1>1, <1>2 DEF Some
<1>4. g[s] = f[c] + g[s \ {c}]
  BY <1>2, <1>3 DEF Summing
<1>5. c # x
  BY <1>2, <1>4
<1> HIDE DEF c
<1>6. g[s \ {c}] = f[x] + g[(s \ {c}) \ {x}]
  BY <1>1, <1>3, <1>5
<1>7. g[s \ {x}] = f[c] + g[(s \ {x}) \ {c}]
  BY <1>1, <1>2, <1>3, <1>5
<1>8. (s \ {c}) \ {x} = (s \ {x}) \ {c} /\ (s \ {x}) \ {c} \in SUBSET A
  BY <1>3
<1>9. f[x] \in Int /\ f[c] \in Int /\ g[(s \ {x}) \ {c}] \in Int
  BY <1>3, <1>8 DEF Summing
<1> DEFINE r == g[(s \ {x}) \ {c}]
           a == f[x]
           b == f[c]
<1>10. g[s] # a + (b + r) /\ g[s] = b + (a + r) /\ a \in Int /\ b \in Int /\ r \in Int
  BY <1>2, <1>4, <1>6, <1>7, <1>8, <1>9
<1> HIDE DEF r, a, b
<1> QED
  BY <1>10

\* Two summations of the same agree.
LEMMA SummingAgrees ==
  ASSUME NEW A, IsFiniteSet(A), NEW Z \in SUBSET A, NEW f, \A x \in A : f[x] \in Int,
         NEW g, Summing(g, f, A)
  PROVE  Total(f, Z) = g[Z]
<1>1. IsFiniteSet(Z) /\ \A x \in Z : f[x] \in Int
  BY FS_Subset
<1>2. PICK h : Summing(h, f, Z) /\ Total(f, Z) = h[Z]
  BY <1>1, SummingExists
<1> DEFINE U == {s \in SUBSET Z : h[s] # g[s]}
<1>3. U = {}
  <2> SUFFICES ASSUME U # {} PROVE FALSE
    OBVIOUS
  <2>1. PICK s \in U : \A x \in s : s \ {x} \notin U
    <3>1. U \in SUBSET (SUBSET Z)
      OBVIOUS
    <3> HIDE DEF U
    <3> QED
      BY <1>1, <3>1, SmallestSet
  <2>2. h[s] = IF s = {} THEN 0 ELSE f[Some(s)] + h[s \ {Some(s)}]
    BY <1>2 DEF Summing
  <2>3. g[s] = IF s = {} THEN 0 ELSE f[Some(s)] + g[s \ {Some(s)}]
    BY DEF Summing
  <2>4. s # {} => h[s \ {Some(s)}] = g[s \ {Some(s)}]
    BY <2>1 DEF Some
  <2> QED
    BY <2>1, <2>2, <2>3, <2>4
<1> QED
  BY <1>2, <1>3

\* A sum of one summand more.
LEMMA TotalFacts ==
  ASSUME NEW A, IsFiniteSet(A), NEW f, \A x \in A : f[x] \in Int
  PROVE  /\ Total(f, A) \in Int
         /\ Total(f, {}) = 0
         /\ \A x \in A : Total(f, A \ {x}) \in Int /\ Total(f, A) = f[x] + Total(f, A \ {x})
<1>1. PICK g : Summing(g, f, A)
  BY SummingExists
<1>2. \A Z \in SUBSET A : Total(f, Z) = g[Z] /\ g[Z] \in Int
  <2>1. \A Z \in SUBSET A : Total(f, Z) = g[Z]
    BY <1>1, SummingAgrees
  <2>2. \A Z \in SUBSET A : g[Z] \in Int
    BY <1>1 DEF Summing
  <2> QED
    BY <2>1, <2>2
<1>3. g[{}] = 0
  BY <1>1 DEF Summing
<1>4. \A x \in A : g[A] = f[x] + g[A \ {x}]
  BY <1>1, SummingSteps
<1>5. {} \in SUBSET A /\ A \in SUBSET A /\ \A x \in A : A \ {x} \in SUBSET A
  OBVIOUS
<1> QED
  BY <1>2, <1>3, <1>4, <1>5

\* A sum of natural numbers is one, and no less than any of them.
LEMMA TotalNat ==
  ASSUME NEW A, IsFiniteSet(A), NEW f, \A x \in A : f[x] \in Nat
  PROVE  Total(f, A) \in Nat /\ \A x \in A : f[x] <= Total(f, A)
<1>1. \A s \in SUBSET A : IsFiniteSet(s) /\ \A x \in s : f[x] \in Int
  BY FS_Subset
<1> DEFINE Z == {s \in SUBSET A : Total(f, s) \notin Nat}
<1>2. \A s \in SUBSET A : Total(f, s) \in Int /\ Total(f, {}) = 0
                          /\ \A x \in s : Total(f, s) = f[x] + Total(f, s \ {x})
  BY <1>1, TotalFacts
<1>3. Z = {}
  <2> SUFFICES ASSUME Z # {} PROVE FALSE
    OBVIOUS
  <2>1. PICK s \in Z : \A x \in s : s \ {x} \notin Z
    <3>1. Z \in SUBSET (SUBSET A)
      OBVIOUS
    <3> HIDE DEF Z
    <3> QED
      BY <3>1, SmallestSet
  <2>2a. s \in SUBSET A /\ Total(f, s) \notin Nat
    BY <2>1
  <2>2b. Total(f, {}) = 0
    BY <1>2
  <2>2. s # {} /\ s \in SUBSET A /\ Total(f, s) \notin Nat
    BY <2>2a, <2>2b
  <2>3. PICK x \in s : TRUE
    BY <2>2
  <2>4. Total(f, s \ {x}) \in Nat
    BY <2>1, <2>2, <2>3
  <2>5. Total(f, s) = f[x] + Total(f, s \ {x})
    BY <1>2, <2>2
  <2>6. f[x] \in Nat
    BY <2>2, <2>3
  <2> QED
    BY <2>2, <2>4, <2>5, <2>6
<1>4. \A s \in SUBSET A : Total(f, s) \in Nat
  BY <1>3
<1>5. ASSUME NEW x \in A PROVE f[x] <= Total(f, A)
  <2>1. Total(f, A) = f[x] + Total(f, A \ {x})
    BY <1>2
  <2>2. Total(f, A \ {x}) \in Nat /\ f[x] \in Nat
    BY <1>4
  <2> QED
    BY <2>1, <2>2
<1> QED
  BY <1>4, <1>5

\* A sum of nothing but zeros.
LEMMA TotalZero ==
  ASSUME NEW A, IsFiniteSet(A), NEW f, \A x \in A : f[x] = 0
  PROVE  Total(f, A) = 0
<1>1. \A s \in SUBSET A : IsFiniteSet(s) /\ \A x \in s : f[x] \in Int
  BY FS_Subset
<1> DEFINE Z == {s \in SUBSET A : Total(f, s) # 0}
<1>2. \A s \in SUBSET A : Total(f, s) \in Int /\ Total(f, {}) = 0
                          /\ \A x \in s : Total(f, s) = f[x] + Total(f, s \ {x})
  BY <1>1, TotalFacts
<1>3. Z = {}
  <2> SUFFICES ASSUME Z # {} PROVE FALSE
    OBVIOUS
  <2>1. PICK s \in Z : \A x \in s : s \ {x} \notin Z
    <3>1. Z \in SUBSET (SUBSET A)
      OBVIOUS
    <3> HIDE DEF Z
    <3> QED
      BY <3>1, SmallestSet
  <2>2. s # {} /\ s \in SUBSET A /\ Total(f, s) # 0
    BY <1>2, <2>1
  <2>3. PICK x \in s : TRUE
    BY <2>2
  <2>4. Total(f, s \ {x}) = 0 /\ f[x] = 0
    BY <2>1, <2>2, <2>3
  <2>5. Total(f, s) = f[x] + Total(f, s \ {x})
    BY <1>2, <2>2
  <2> QED
    BY <2>2, <2>4, <2>5
<1> QED
  BY <1>3

-----------------------------------------------------------------------------
(***************************************************************************)
(* The filter siglip2 resizes with (build_aa_filter).                      *)
(***************************************************************************)
LEMMA FilterTaps ==
  ASSUME NEW src \in Nat \ {0}, NEW dst \in Nat \ {0}, NEW i \in Int
  PROVE  LET m == 2 * dst
             c == S!Center(i, src, dst)
             r == S!Radius(src, dst)
             a == S!FirstTap(i, src, dst)
             b == S!LastTap(i, src, dst)
         IN  /\ m \in Nat \ {0} /\ c \in Int /\ r \in Nat /\ m <= r /\ 2 * src <= r
             /\ src >= dst => r = 2 * src
             /\ a \in Int /\ b \in Int
             /\ \A k \in Int : k \in a .. b <=> c - r <= k * m /\ k * m <= c + r
<1> DEFINE m == 2 * dst
           c == S!Center(i, src, dst)
           r == S!Radius(src, dst)
           a == S!FirstTap(i, src, dst)
           b == S!LastTap(i, src, dst)
<1>1. m \in Nat \ {0} /\ c \in Int
  BY DEF S!Center
<1>2. r \in Nat /\ m <= r /\ 2 * src <= r /\ (src >= dst => r = 2 * src)
  <2>1. S!Max({src, dst}) = IF src >= dst THEN src ELSE dst
    BY MaxTwo
  <2> QED
    BY <2>1 DEF S!Radius
<1>3. a = S!Ceil(c - r, m) /\ b = (c + r) \div m
  BY DEF S!FirstTap, S!LastTap, S!Floor
<1> HIDE DEF m, c, r, a, b
<1>4. a \in Int /\ \A k \in Int : a <= k <=> c - r <= k * m
  <2> DEFINE n == c - r
  <2>1. n \in Int
    BY <1>1, <1>2
  <2> HIDE DEF n
  <2>2. S!Ceil(n, m) \in Int /\ \A k \in Int : S!Ceil(n, m) <= k <=> n <= k * m
    BY <1>1, <2>1, CeilFacts
  <2> QED
    BY <1>3, <2>2 DEF n
<1>5. b \in Int /\ \A k \in Int : k <= b <=> k * m <= c + r
  <2> DEFINE n == c + r
  <2>1. n \in Int
    BY <1>1, <1>2
  <2> HIDE DEF n
  <2>2. n \div m \in Int
    BY <1>1, <2>1, DivMod
  <2>3. \A k \in Int : k <= n \div m <=> k * m <= n
    BY <1>1, <2>1, DivBounds
  <2> QED
    BY <1>3, <2>2, <2>3 DEF n
<1>6. \A k \in Int : k \in a .. b <=> c - r <= k * m /\ k * m <= c + r
  BY <1>4, <1>5
<1> QED
  BY <1>1, <1>2, <1>4, <1>5, <1>6 DEF m, c, r, a, b

\* The weight of a pixel is the hat of the filter.
LEMMA WeightIs ==
  ASSUME NEW src \in Nat \ {0}, NEW dst \in Nat \ {0}, NEW i \in Int, NEW k \in Int
  PROVE  LET d == k * (2 * dst) - S!Center(i, src, dst)
             r == S!Radius(src, dst)
             a == IF d < 0 THEN -d ELSE d
         IN  S!Weight(k, i, src, dst) = IF a <= r THEN r - a ELSE 0
<1> DEFINE c == S!Center(i, src, dst)
           d == k * (2 * dst) - c
           r == S!Radius(src, dst)
           a == IF d < 0 THEN -d ELSE d
<1>1. d \in Int /\ r \in Nat /\ 2 * dst * k = k * (2 * dst)
  <2>1. c \in Int /\ r \in Nat
    BY FilterTaps
  <2> HIDE DEF c, r
  <2> QED
    BY <2>1
<1>2. S!Weight(k, i, src, dst) = S!Max({0, r - a})
  BY <1>1 DEF S!Weight
<1> HIDE DEF d, r
<1>3. S!Max({0, r - a}) = IF 0 >= r - a THEN 0 ELSE r - a
  <2>1. r - a \in Int
    BY <1>1
  <2> HIDE DEF a
  <2> QED
    BY <2>1, MaxTwo
<1>4. S!Weight(k, i, src, dst) = IF a <= r THEN r - a ELSE 0
  BY <1>1, <1>2, <1>3
<1> QED
  BY <1>4 DEF d, r

\* The centres are as far apart from the right as from the left.
LEMMA CenterMirrored ==
  ASSUME NEW src \in Nat \ {0}, NEW dst \in Nat \ {0}, NEW i \in Int
  PROVE  S!Center(dst - 1 - i, src, dst) = (src - 1) * (2 * dst) - S!Center(i, src, dst)
  BY DEF S!Center

\* f gives what the pixels of A give to pixel i, and what pixel k gives to those of A.
Gives(f, A, i, src, dst) == \A k \in A : f[k] = S!Weight(k, i, src, dst)
IsGiven(f, A, k, src, dst) == \A i \in A : f[i] = S!Weight(k, i, src, dst)

\* The two sums of the filter, as sums of a function.
LEMMA TotalWeightIs ==
  ASSUME NEW src, NEW dst, NEW i, NEW f, NEW A,
         A = S!FirstTap(i, src, dst) .. S!LastTap(i, src, dst),
         Gives(f, A, i, src, dst)
  PROVE  S!TotalWeight(i, src, dst) = Total(f, A)
<1> DEFINE P(g) == [s \in SUBSET A |-> IF s = {} THEN 0
                       ELSE S!Weight(CHOOSE x \in s : TRUE, i, src, dst)
                               + g[s \ {CHOOSE x \in s : TRUE}]]
           Q(g) == [s \in SUBSET A |-> IF s = {} THEN 0
                       ELSE f[CHOOSE x \in s : TRUE] + g[s \ {CHOOSE x \in s : TRUE}]]
<1>1. \A g : P(g) = Q(g)
  <2> SUFFICES ASSUME NEW s \in SUBSET A, s # {}
               PROVE  S!Weight(CHOOSE x \in s : TRUE, i, src, dst) = f[CHOOSE x \in s : TRUE]
    OBVIOUS
  <2>1. (CHOOSE x \in s : TRUE) \in A
    OBVIOUS
  <2> QED
    BY <2>1 DEF Gives
<1>2. (CHOOSE g : g = P(g)) = (CHOOSE g : g = Q(g))
  <2> HIDE DEF P, Q
  <2> QED
    BY <1>1
<1>3. S!TotalWeight(i, src, dst) = (CHOOSE g : g = P(g))[A]
  BY DEF S!TotalWeight, S!MapThenSumSet, S!MapThenFoldSet
<1>4. Total(f, A) = (CHOOSE g : g = Q(g))[A]
  BY DEF Total, S!MapThenSumSet, S!MapThenFoldSet
<1> HIDE DEF P, Q
<1> QED
  BY <1>2, <1>3, <1>4

\* The weights counted for a destination are a sum over the pixels.
LEMMA SharedWeightIs ==
  ASSUME NEW src, NEW dst, NEW k, NEW f, NEW A,
         A = 0 .. (dst - 1),
         IsGiven(f, A, k, src, dst)
  PROVE  S!CountedWeight(k, src, dst) = Total(f, A)
<1> DEFINE P(g) == [s \in SUBSET A |-> IF s = {} THEN 0
                       ELSE S!Weight(k, CHOOSE x \in s : TRUE, src, dst)
                               + g[s \ {CHOOSE x \in s : TRUE}]]
           Q(g) == [s \in SUBSET A |-> IF s = {} THEN 0
                       ELSE f[CHOOSE x \in s : TRUE] + g[s \ {CHOOSE x \in s : TRUE}]]
<1>1. \A g : P(g) = Q(g)
  <2> SUFFICES ASSUME NEW s \in SUBSET A, s # {}
               PROVE  S!Weight(k, CHOOSE x \in s : TRUE, src, dst) = f[CHOOSE x \in s : TRUE]
    OBVIOUS
  <2>1. (CHOOSE x \in s : TRUE) \in A
    OBVIOUS
  <2> QED
    BY <2>1 DEF IsGiven
<1>2. (CHOOSE g : g = P(g)) = (CHOOSE g : g = Q(g))
  <2> HIDE DEF P, Q
  <2> QED
    BY <1>1
<1>3. S!CountedWeight(k, src, dst) = (CHOOSE g : g = P(g))[A]
  BY DEF S!CountedWeight, S!MapThenSumSet, S!MapThenFoldSet
<1>4. Total(f, A) = (CHOOSE g : g = Q(g))[A]
  BY DEF Total, S!MapThenSumSet, S!MapThenFoldSet
<1> HIDE DEF P, Q
<1> QED
  BY <1>2, <1>3, <1>4

\* The filter of siglip2 fits in its row, weighs something, reads the image as
\* well from the right, and shrinking counts every pixel alike, whatever the
\* two sizes.
THEOREM FilterIsAlwaysFair == \A src, dst \in Nat \ {0} : S!FilterIsFair(src, dst)
<1> SUFFICES ASSUME NEW src \in Nat \ {0}, NEW dst \in Nat \ {0} PROVE S!FilterIsFair(src, dst)
  OBVIOUS
<1> DEFINE m == 2 * dst
           c(i) == S!Center(i, src, dst)
           r == S!Radius(src, dst)
           a(i) == S!FirstTap(i, src, dst)
           b(i) == S!LastTap(i, src, dst)
           w(k, i) == S!Weight(k, i, src, dst)
<1>1. m \in Nat \ {0} /\ r \in Nat /\ m <= r /\ 2 * src <= r /\ (src >= dst => r = 2 * src)
  BY FilterTaps, 0 \in Int
<1>2. ASSUME NEW i \in Int
      PROVE  /\ c(i) \in Int /\ a(i) \in Int /\ b(i) \in Int
             /\ \A k \in Int : k \in a(i) .. b(i) <=> c(i) - r <= k * m /\ k * m <= c(i) + r
  BY FilterTaps
<1>3. ASSUME NEW i \in Int, NEW k \in Int
      PROVE  LET d == k * m - c(i)
                 e == IF d < 0 THEN -d ELSE d
             IN  w(k, i) = IF e <= r THEN r - e ELSE 0
  BY WeightIs
<1>4. ASSUME NEW i \in Int
      PROVE  c(dst - 1 - i) = (src - 1) * m - c(i)
  BY CenterMirrored
<1>5. S!MaxTaps(src, dst) = S!Ceil(2 * r, m) + 2
  BY DEF S!MaxTaps
<1>6. c(0) = src - dst /\ \A i \in Int : c(i) = i * (2 * src) + c(0)
  BY DEF S!Center
<1>7. \A i \in Int : dst - 1 - i \in Int
  OBVIOUS
<1> HIDE DEF m, c, r, a, b, w
<1>8. ASSUME NEW i \in Int, NEW k \in Int PROVE w(k, i) \in Nat
  <2> DEFINE d == k * m - c(i)
             e == IF d < 0 THEN -d ELSE d
  <2>1. d \in Int
    BY <1>1, <1>2
  <2>2. w(k, i) = IF e <= r THEN r - e ELSE 0
    BY <1>3
  <2> HIDE DEF d
  <2> QED
    BY <1>1, <2>1, <2>2
\* The pixel below the centre.
<1>9. ASSUME NEW i \in Int
      PROVE  \E k \in a(i) .. b(i) : w(k, i) > 0
  <2> DEFINE x == c(i)
             k == x \div m
             d == k * m - c(i)
             e == IF d < 0 THEN -d ELSE d
  <2>1. x \in Int
    BY <1>2
  <2> HIDE DEF x
  <2>2. k \in Int /\ k * m <= x /\ x < k * m + m
    BY <1>1, <2>1, DivMod
  <2> HIDE DEF k
  <2>3. k * m \in Int
    BY <1>1, <2>2
  <2>4. c(i) - r <= k * m /\ k * m <= c(i) + r
    BY <1>1, <2>1, <2>2, <2>3 DEF x
  <2>5. k \in a(i) .. b(i)
    BY <1>2, <2>2, <2>4
  <2>6. d \in Int /\ d <= 0 /\ -d < m
    BY <1>1, <2>1, <2>2, <2>3 DEF x
  <2>7. w(k, i) = IF e <= r THEN r - e ELSE 0
    BY <1>3, <2>2
  <2> HIDE DEF d
  <2>8. w(k, i) > 0
    BY <1>1, <2>6, <2>7
  <2> QED
    BY <2>5, <2>8
<1>10. ASSUME NEW i \in Int PROVE b(i) - a(i) + 1 \in 1 .. S!MaxTaps(src, dst)
  <2> DEFINE x == c(i)
             p == a(i)
             q == b(i)
             n == S!Ceil(2 * r, m)
  <2>1. x \in Int /\ p \in Int /\ q \in Int
    BY <1>2
  <2>2. p <= q
    BY <1>9, <2>1
  <2>3. x - r <= p * m /\ q * m <= x + r
    <3>1. p \in p .. q /\ q \in p .. q
      BY <2>1, <2>2
    <3> QED
      BY <1>2, <2>1, <3>1
  <2>4. n \in Int /\ 2 * r <= n * m
    <3> DEFINE rr == 2 * r
    <3>1. rr \in Int
      BY <1>1
    <3> HIDE DEF rr
    <3>2. S!Ceil(rr, m) \in Int /\ rr <= S!Ceil(rr, m) * m
      BY <1>1, <3>1, CeilFacts
    <3> QED
      BY <3>2 DEF rr
  <2> HIDE DEF x, p, q, n
  <2>5. q - p <= n
    <3> DEFINE z == q - p
    <3>1. z \in Int /\ z * m = q * m - p * m
      BY <1>1, <2>1
    <3>2. p * m \in Int /\ q * m \in Int /\ n * m \in Int
      BY <1>1, <2>1, <2>4
    <3>3. z * m <= n * m
      <4> HIDE DEF z
      <4> QED
        BY <1>1, <2>1, <2>3, <2>4, <3>1, <3>2
    <3> HIDE DEF z
    <3>4. z <= n
      BY <1>1, <2>4, <3>1, <3>3, TimesStrict
    <3> QED
      BY <3>4 DEF z
  <2> QED
    BY <1>5, <2>1, <2>2, <2>4, <2>5 DEF p, q, n
<1>11. ASSUME NEW i \in Int PROVE S!TotalWeight(i, src, dst) > 0
  <2> DEFINE A == a(i) .. b(i)
             f == [k \in A |-> w(k, i)]
  <2>1. IsFiniteSet(A) /\ A \subseteq Int
    BY <1>2, FS_Interval
  <2>2. \A k \in A : f[k] = S!Weight(k, i, src, dst) /\ f[k] \in Nat
    <3>1. \A k \in A : f[k] = w(k, i)
      OBVIOUS
    <3> HIDE DEF A, f
    <3> QED
      BY <1>8, <2>1, <3>1 DEF w
  <2>4. PICK k \in A : f[k] > 0
    BY <1>9
  <2>5a. Gives(f, A, i, src, dst)
    BY DEF w, Gives
  <2>5b. A = S!FirstTap(i, src, dst) .. S!LastTap(i, src, dst)
    BY DEF a, b
  <2> HIDE DEF A, f
  <2>5. S!TotalWeight(i, src, dst) = Total(f, A)
    BY <2>5a, <2>5b, TotalWeightIs
  <2>6. Total(f, A) \in Nat /\ f[k] <= Total(f, A)
    BY <2>1, <2>2, TotalNat
  <2> QED
    BY <2>2, <2>4, <2>5, <2>6
<1>12. ASSUME NEW i \in Int, NEW k \in a(i) .. b(i)
       PROVE  /\ S!Source(k, src) \in 0 .. (src - 1)
              /\ w(src - 1 - k, dst - 1 - i) = w(k, i)
              /\ src - 1 - k \in a(dst - 1 - i) .. b(dst - 1 - i)
  <2> DEFINE j == dst - 1 - i
             l == src - 1 - k
             x == c(i)
             y == c(j)
             d == k * m - x
             e == l * m - y
  <2>1. k \in Int /\ l \in Int /\ j \in Int /\ x \in Int /\ y \in Int
    BY <1>2
  <2>2. y = (src - 1) * m - x
    BY <1>4
  <2>3. l * m = (src - 1) * m - k * m /\ k * m \in Int /\ (src - 1) * m \in Int
    BY <1>1, <2>1
  <2>4. x - r <= k * m /\ k * m <= x + r
    BY <1>2, <2>1
  <2>5. S!Source(k, src) \in 0 .. (src - 1)
    <3>1. S!Min({k, src - 1}) = IF k <= src - 1 THEN k ELSE src - 1
      BY <2>1, MaxTwo, src - 1 \in Int
    <3> DEFINE z == S!Min({k, src - 1})
    <3>2. z \in Int /\ z <= src - 1
      BY <2>1, <3>1
    <3> HIDE DEF z
    <3>3. S!Max({0, z}) = IF 0 >= z THEN 0 ELSE z
      BY <3>2, MaxTwo
    <3> QED
      BY <3>2, <3>3 DEF S!Source, z
  <2> HIDE DEF j, l, x, y
  <2>6. y - r <= l * m /\ l * m <= y + r /\ d \in Int /\ e = -d
    BY <1>1, <2>1, <2>2, <2>3, <2>4
  <2>7. l \in a(j) .. b(j)
    <3>1. \A h \in Int : h \in a(j) .. b(j) <=> c(j) - r <= h * m /\ h * m <= c(j) + r
      BY <1>2, <2>1
    <3> QED
      BY <2>1, <2>6, <3>1 DEF y
  <2>8. w(k, i) = LET g == IF d < 0 THEN -d ELSE d IN IF g <= r THEN r - g ELSE 0
    BY <1>3, <2>1 DEF x
  <2>9. w(l, j) = LET g == IF e < 0 THEN -e ELSE e IN IF g <= r THEN r - g ELSE 0
    BY <1>3, <2>1 DEF y
  <2> HIDE DEF d, e
  <2>10. w(l, j) = w(k, i)
    BY <1>1, <2>6, <2>8, <2>9
  <2> QED
    BY <2>5, <2>7, <2>10 DEF l, j
<1>13. ASSUME src >= dst, NEW k \in 0 .. src - 1, k * m \in c(0) .. c(dst - 1)
       PROVE  S!CountedWeight(k, src, dst) = r
  <2> DEFINE A == 0 .. (dst - 1)
             f == [i \in A |-> w(k, i)]
             x == k * m - c(0)
             j == x \div r
             o == x % r
  <2>1. r \in Nat \ {0} /\ r = 2 * src
    BY <1>1, <1>13
  <2>2. c(0) \in Int /\ k \in Int /\ k * m \in Int
    <3>1. c(0) \in Int /\ k \in Int
      BY <1>2
    <3> QED
      BY <1>1, <3>1
  <2>3. x \in Nat /\ x <= (dst - 1) * r
    <3>1. c(dst - 1) = (dst - 1) * r + c(0) /\ (dst - 1) * r \in Int
      BY <1>6, <2>1, dst - 1 \in Int
    <3> QED
      BY <1>13, <2>2, <3>1
  <2> HIDE DEF x
  <2>4. j \in Int /\ o \in 0 .. r - 1 /\ x = j * r + o
    <3>1. x \in Int /\ r \in Nat \ {0}
      BY <2>1, <2>3
    <3>2. x \div r \in Int /\ x % r \in 0 .. r - 1 /\ x = (x \div r) * r + (x % r)
      <4> HIDE DEF j, o
      <4> QED
        BY <3>1, DivMod
    <3> QED
      BY <3>2
  <2>5. 0 <= j
    <3>1. 0 * r <= x
      BY <2>1, <2>3
    <3> QED
      BY <2>1, <2>3, <3>1, DivBounds
  <2> HIDE DEF j, o
  <2>6. j * r \in Int /\ (dst - 1) * r \in Int
    BY <2>1, <2>4
  <2>7. j <= dst - 1
    <3>1. j * r <= (dst - 1) * r
      BY <2>3, <2>4, <2>6
    <3> QED
      BY <2>1, <2>4, <3>1, TimesStrict
  <2>8. j = dst - 1 => o = 0
    BY <2>3, <2>4, <2>6
  <2>9. ASSUME NEW i \in A
        PROVE  /\ i = j => f[i] = r - o
               /\ i = j + 1 => f[i] = o
               /\ i \notin {j, j + 1} => f[i] = 0
    <3> DEFINE d == k * m - c(i)
               z == (j - i) * r
    <3>1. d = z + o /\ z \in Int
      <4>1. c(i) = i * r + c(0) /\ i * r \in Int
        BY <1>6, <2>1
      <4>2. z = j * r - i * r
        BY <2>1, <2>4
      <4> QED
        BY <2>2, <2>4, <2>6, <4>1, <4>2 DEF x
    <3>2. f[i] = LET e == IF d < 0 THEN -d ELSE d IN IF e <= r THEN r - e ELSE 0
      BY <1>3, <2>2
    <3>3. i = j => z = 0
      BY <2>1, <2>4
    <3>4. i = j + 1 => z = -r
      BY <2>1, <2>4
    <3>5. i < j => z >= r
      <4> SUFFICES ASSUME i < j PROVE z >= r
        OBVIOUS
      <4>1. 1 * r <= z
        BY <2>1, <2>4, TimesMono, j - i \in Int, 1 <= j - i
      <4> QED
        BY <2>1, <4>1
    <3>6. i > j + 1 => z <= -(2 * r)
      <4> SUFFICES ASSUME i > j + 1 PROVE z <= -(2 * r)
        OBVIOUS
      <4>1. z <= (-2) * r
        BY <2>1, <2>4, TimesMono, j - i \in Int, j - i <= -2, -2 \in Int
      <4> QED
        BY <2>1, <4>1
    <3> HIDE DEF d, z, f
    <3>7. CASE i < j
      BY <2>1, <2>4, <3>1, <3>2, <3>5, <3>7
    <3>8. CASE i = j
      BY <2>1, <2>4, <3>1, <3>2, <3>3, <3>8
    <3>9. CASE i = j + 1
      BY <2>1, <2>4, <3>1, <3>2, <3>4, <3>9
    <3>10. CASE i > j + 1
      BY <2>1, <2>4, <3>1, <3>2, <3>6, <3>10
    <3> QED
      BY <2>4, <3>7, <3>8, <3>9, <3>10
  <2>10. IsFiniteSet(A) /\ j \in A
    BY <2>4, <2>5, <2>7, FS_Interval
  <2>11. \A i \in A : f[i] \in Int
    <3>1. ASSUME NEW i \in A PROVE f[i] \in Int
      <4>1. i \in Int /\ k \in Int
        BY <2>2
      <4>2. w(k, i) \in Nat
        BY <1>8, <4>1
      <4> QED
        BY <4>2
    <3> QED
      BY <3>1
  <2>11a. S!CountedWeight(k, src, dst) = Total(f, A)
    <3>1. IsGiven(f, A, k, src, dst) /\ A = 0 .. (dst - 1)
      BY DEF w, IsGiven
    <3> HIDE DEF A, f
    <3> QED
      BY <3>1, SharedWeightIs
  <2>12. j + 1 \in A \/ o = 0
    BY <2>4, <2>5, <2>7, <2>8
  <2> DEFINE B == A \ {j}
             C == B \ {j + 1}
  <2> HIDE DEF A, f
  <2>13. Total(f, A) = f[j] + Total(f, B)
    BY <2>10, <2>11, TotalFacts
  <2>14. IsFiniteSet(B) /\ IsFiniteSet(C)
    BY <2>10, FS_Subset
  <2>15. CASE j + 1 \in A
    <3>1. Total(f, B) = f[j + 1] + Total(f, C)
      <4> DEFINE h == j + 1
      <4>1. h \in B
        BY <2>4, <2>15
      <4>2. \A i \in B : f[i] \in Int
        BY <2>11
      <4> HIDE DEF h, B
      <4>3. Total(f, B) = f[h] + Total(f, B \ {h})
        BY <2>14, <4>1, <4>2, TotalFacts
      <4> QED
        BY <4>3 DEF h
    <3>2. Total(f, C) = 0
      <4>1. \A i \in C : f[i] = 0
        BY <2>9
      <4> HIDE DEF C
      <4> QED
        BY <2>14, <4>1, TotalZero
    <3>3. f[j] = r - o /\ f[j + 1] = o
      BY <2>9, <2>10, <2>15
    <3>4. Total(f, A) = r
      BY <2>1, <2>4, <2>13, <3>2, <3>1, <3>3
    <3> QED
      BY <2>11a, <3>4 DEF A
  <2>16. CASE j + 1 \notin A
    <3>1. \A i \in B : f[i] = 0
      BY <2>9, <2>16
    <3> HIDE DEF B
    <3>2. Total(f, B) = 0
      BY <2>14, <3>1, TotalZero
    <3>3. f[j] = r - o /\ o = 0
      BY <2>9, <2>10, <2>12, <2>16
    <3>4. Total(f, A) = r
      BY <2>1, <2>4, <2>13, <3>2, <3>3
    <3> QED
      BY <2>11a, <3>4 DEF A
  <2> QED
    BY <2>15, <2>16
<1>14. \A i \in 0 .. (dst - 1) : i \in Int
  OBVIOUS
<1>15. ASSUME src >= dst, NEW k \in 0 .. src - 1,
              2 * dst * k \in S!Center(0, src, dst) .. S!Center(dst - 1, src, dst)
       PROVE  S!CountedWeight(k, src, dst) = S!Radius(src, dst)
  <2>1. 2 * dst * k = k * m
    BY DEF m
  <2> QED
    BY <1>13, <1>15, <2>1 DEF c, r
<1> QED
  BY <1>10, <1>11, <1>12, <1>14, <1>15 DEF S!FilterIsFair, a, b, w

-----------------------------------------------------------------------------
(***************************************************************************)
(* Tensors of four extents.                                                *)
(***************************************************************************)

\* The index of an element, from its coordinates.
Index(n1, n2, n3, a, b, c, d) == a + n1 * (b + n2 * (c + n3 * d))

\* A multiple leaves no rest.
LEMMA MultipleRest ==
  ASSUME NEW n, NEW q, n \in Nat \ {0}, q \in Int
  PROVE  (q * n) % n = 0 /\ (q * n) \div n = q
<1> DEFINE z == 0
<1>1. z \in 0 .. n - 1
  OBVIOUS
<1> HIDE DEF z
<1>2. (q * n + z) % n = z /\ (q * n + z) \div n = q
  BY <1>1, DivUnique
<1>3. q * n + 0 = q * n
  OBVIOUS
<1> QED
  BY <1>2, <1>3 DEF z

\* An index lies in the tensor, and tells its coordinates.
LEMMA IndexIn ==
  ASSUME NEW n1, NEW n2, NEW n3, NEW n4, NEW a, NEW b, NEW c, NEW d,
         n1 \in Nat \ {0}, n2 \in Nat \ {0}, n3 \in Nat \ {0}, n4 \in Nat, a \in 0 .. n1 - 1,
         b \in 0 .. n2 - 1, c \in 0 .. n3 - 1, d \in 0 .. n4 - 1
  PROVE  /\ Index(n1, n2, n3, a, b, c, d) \in 0 .. L!Size(<<n1, n2, n3, n4>>) - 1
         /\ L!Position(Index(n1, n2, n3, a, b, c, d), <<n1, n2, n3, n4>>) = <<a, b, c, d>>
<1> DEFINE x3 == d * n3 + c
           x2 == x3 * n2 + b
           i  == x2 * n1 + a
           y2 == b * n1 + a
           y3 == c * (n1 * n2) + y2
           m3 == n4 * n3
           m2 == m3 * n2
           k2 == n1 * n2
           k3 == n1 * n2 * n3
<1>1. x3 \in 0 .. m3 - 1 /\ m3 \in Nat
  BY PairIndex
<1> HIDE DEF m3
<1>2. x2 \in 0 .. m2 - 1 /\ x2 % n2 = b /\ x2 \div n2 = x3 /\ m2 \in Nat
  <2> HIDE DEF x3
  <2> QED
    BY <1>1, PairIndex
<1>3. i \in 0 .. m2 * n1 - 1 /\ i % n1 = a /\ i \div n1 = x2
  <2> HIDE DEF x2, m2
  <2> QED
    BY <1>2, PairIndex
<1>4. y2 \in 0 .. n2 * n1 - 1
  BY PairIndex
<1>5. k2 \in Nat \ {0} /\ k2 = n2 * n1 /\ k3 \in Nat \ {0} /\ k3 = n3 * k2
  <2>1. k2 \in Nat \ {0}
    BY TimesNat
  <2>2. k2 * n3 \in Nat \ {0}
    <3> HIDE DEF k2
    <3> QED
      BY <2>1, TimesNat
  <2> QED
    BY <2>1, <2>2
<1>6. i = x3 * k2 + y2
  <2>1. x3 \in Int
    BY <1>1
  <2> HIDE DEF x3
  <2> QED
    BY <2>1
<1>7. y3 \in 0 .. n3 * k2 - 1
  <2> HIDE DEF y2, k2
  <2> QED
    BY <1>4, <1>5, PairIndex DEF k2
<1>8. i = d * k3 + y3
  BY <1>5
<1>9. i \div k2 = x3
  <2> HIDE DEF i, x3, y2, k2
  <2> QED
    BY <1>1, <1>4, <1>5, <1>6, PairIndex
<1>10. i \div k3 = d
  <2> HIDE DEF i, y3, k3, k2
  <2> QED
    BY <1>5, <1>7, <1>8, PairIndex
<1>11. x3 % n3 = c
  BY PairIndex
<1>12. i = Index(n1, n2, n3, a, b, c, d)
  BY DEF Index
<1>13. m2 * n1 = n1 * n2 * n3 * n4
  BY DEF m3
<1> HIDE DEF i, m2, x2, x3, y2, y3
<1>14. L!Position(i, <<n1, n2, n3, n4>>)
         = <<i % n1, (i \div n1) % n2, (i \div k2) % n3, i \div k3>>
  BY DEF L!Position
<1>15. L!Size(<<n1, n2, n3, n4>>) = n1 * n2 * n3 * n4
  BY DEF L!Size
<1> QED
  BY <1>2, <1>3, <1>9, <1>10, <1>11, <1>12, <1>13, <1>14, <1>15

\* Every element of the tensor has coordinates.
LEMMA IndexOf ==
  ASSUME NEW n1, NEW n2, NEW n3, NEW n4, NEW i,
         n1 \in Nat \ {0}, n2 \in Nat \ {0}, n3 \in Nat \ {0}, n4 \in Nat,
         i \in 0 .. L!Size(<<n1, n2, n3, n4>>) - 1
  PROVE  \E a \in 0 .. n1 - 1, b \in 0 .. n2 - 1, c \in 0 .. n3 - 1, d \in 0 .. n4 - 1 :
            i = Index(n1, n2, n3, a, b, c, d) /\ L!Position(i, <<n1, n2, n3, n4>>) = <<a, b, c, d>>
<1> DEFINE x2 == i \div n1
           x3 == x2 \div n2
           m3 == n4 * n3
           m2 == m3 * n2
<1>1. m3 \in Nat /\ m2 \in Nat
  BY TimesNat
<1>2. i \in 0 .. m2 * n1 - 1
  BY <1>1 DEF L!Size
<1> HIDE DEF m2
<1>3. x2 \in 0 .. m2 - 1 /\ i % n1 \in 0 .. n1 - 1 /\ i = x2 * n1 + (i % n1)
  BY <1>1, <1>2, IndexPair
<1> HIDE DEF x2
<1>4. x3 \in 0 .. m3 - 1 /\ x2 % n2 \in 0 .. n2 - 1 /\ x2 = x3 * n2 + (x2 % n2)
  <2>1. x2 \in 0 .. m3 * n2 - 1
    BY <1>3 DEF m2
  <2> HIDE DEF m3
  <2> QED
    BY <1>1, <2>1, IndexPair
<1> HIDE DEF x3
<1>5. x3 \div n3 \in 0 .. n4 - 1 /\ x3 % n3 \in 0 .. n3 - 1 /\ x3 = (x3 \div n3) * n3 + (x3 % n3)
  BY <1>4, IndexPair
<1> DEFINE a == i % n1
           b == x2 % n2
           c == x3 % n3
           d == x3 \div n3
<1>6. a \in 0 .. n1 - 1 /\ b \in 0 .. n2 - 1 /\ c \in 0 .. n3 - 1 /\ d \in 0 .. n4 - 1
  BY <1>3, <1>4, <1>5
<1>7. i = x2 * n1 + a /\ x2 = x3 * n2 + b /\ x3 = d * n3 + c
  BY <1>3, <1>4, <1>5
<1> HIDE DEF a, b, c, d
<1>8. i = Index(n1, n2, n3, a, b, c, d)
  BY <1>6, <1>7 DEF Index
<1>9. L!Position(i, <<n1, n2, n3, n4>>) = <<a, b, c, d>>
  <2>1. L!Position(Index(n1, n2, n3, a, b, c, d), <<n1, n2, n3, n4>>) = <<a, b, c, d>>
    BY <1>6, IndexIn
  <2> QED
    BY <1>8, <2>1
<1> QED
  BY <1>6, <1>8, <1>9

\* The windows along a side cover it, and the last one begins in it.
LEMMA CutUp ==
  ASSUME NEW n \in Nat \ {0}, NEW w \in Nat \ {0}
  PROVE  /\ L!Ceil(n, w) \in Nat \ {0}
         /\ n <= L!Ceil(n, w) * w /\ L!Ceil(n, w) * w < n + w
<1> DEFINE x == n + w - 1
           q == x \div w
<1>1. x \in Int
  OBVIOUS
<1>2. q \in Int /\ q * w <= x /\ x < q * w + w
  <2> HIDE DEF x
  <2> QED
    BY <1>1, DivMod
<1>3. L!Ceil(n, w) = q
  BY DEF L!Ceil
<1>4. 1 <= q
  <2>1. 1 * w <= x
    OBVIOUS
  <2> HIDE DEF x
  <2> QED
    BY <1>1, <2>1, DivBounds
<1> HIDE DEF q
<1>5. q * w \in Int
  BY <1>2
<1> QED
  BY <1>2, <1>3, <1>4, <1>5

\* The number of elements of a tensor.
LEMMA SizeIs ==
  ASSUME NEW n1, NEW n2, NEW n3, NEW n4
  PROVE  L!Size(<<n1, n2, n3, n4>>) = n1 * n2 * n3 * n4
  BY DEF L!Size

\* The element a view takes from an index.
At(t, i) == t.at[i]

\* The index a view with strides s1, s2 and s3 reads.
AddressOf(s1, s2, s3, a, b, c, d) == a + b * s1 + c * s2 + d * s3

\* A view reads where its strides point.
LEMMA ViewAt ==
  ASSUME NEW t, NEW n1, NEW n2, NEW n3, NEW n4, NEW s1, NEW s2, NEW s3, NEW a, NEW b, NEW c,
         NEW d,
         n1 \in Nat \ {0}, n2 \in Nat \ {0}, n3 \in Nat \ {0}, n4 \in Nat, a \in 0 .. n1 - 1,
         b \in 0 .. n2 - 1, c \in 0 .. n3 - 1, d \in 0 .. n4 - 1
  PROVE  At(L!View(t, <<n1, n2, n3, n4>>, <<s1, s2, s3>>), Index(n1, n2, n3, a, b, c, d))
           = At(t, AddressOf(s1, s2, s3, a, b, c, d))
<1> DEFINE ne == <<n1, n2, n3, n4>>
           i == Index(n1, n2, n3, a, b, c, d)
<1>1. i \in 0 .. L!Size(ne) - 1 /\ L!Position(i, ne) = <<a, b, c, d>>
  BY IndexIn, SizeIs
<1> HIDE DEF ne, i
<1>2. At(L!View(t, ne, <<s1, s2, s3>>), i)
        = t.at[L!Position(i, ne)[1] + L!Position(i, ne)[2] * s1
                 + L!Position(i, ne)[3] * s2 + L!Position(i, ne)[4] * s3]
  BY <1>1 DEF L!View, At
<1> QED
  BY <1>1, <1>2 DEF ne, i, At, AddressOf

\* The index of a place of one image.
Spot(n1, w, h, a, x, y) == Index(n1, w, h, a, x, y, 0)

\* A place of a map is an index of its tensor, and tells its coordinates.
LEMMA PlaneIn ==
  ASSUME NEW n1, NEW w, NEW h, NEW a, NEW x, NEW y,
         n1 \in Nat \ {0}, w \in Nat \ {0}, h \in Nat \ {0}, a \in 0 .. n1 - 1,
         x \in 0 .. w - 1, y \in 0 .. h - 1
  PROVE  /\ Spot(n1, w, h, a, x, y) \in 0 .. L!Size(<<n1, w, h, 1>>) - 1
         /\ L!Position(Spot(n1, w, h, a, x, y), <<n1, w, h, 1>>) = <<a, x, y, 0>>
<1> DEFINE z == 0
           o == 1
<1>1. z \in 0 .. o - 1 /\ o \in Nat
  OBVIOUS
<1> HIDE DEF z, o
<1>2. /\ Index(n1, w, h, a, x, y, z) \in 0 .. L!Size(<<n1, w, h, o>>) - 1
      /\ L!Position(Index(n1, w, h, a, x, y, z), <<n1, w, h, o>>) = <<a, x, y, z>>
  BY <1>1, IndexIn
<1>3. L!Size(<<n1, w, h, o>>) = n1 * w * h * o
  BY SizeIs
<1> QED
  BY <1>2, <1>3 DEF z, o, Spot

\* What a map has at a place is the place.
LEMMA MapAt ==
  ASSUME NEW n1, NEW w, NEW h, NEW a, NEW x, NEW y,
         n1 \in Nat \ {0}, w \in Nat \ {0}, h \in Nat \ {0}, a \in 0 .. n1 - 1,
         x \in 0 .. w - 1, y \in 0 .. h - 1
  PROVE  At(L!Map(n1, w, h), Spot(n1, w, h, a, x, y)) = <<a, x, y, 0>>
<1> DEFINE ne == <<n1, w, h, 1>>
           i == Spot(n1, w, h, a, x, y)
<1>1. i \in 0 .. L!Size(ne) - 1 /\ L!Position(i, ne) = <<a, x, y, 0>>
  BY PlaneIn
<1> HIDE DEF i
<1>2. L!Map(n1, w, h).at[i] = L!Position(i, ne)
  BY <1>1 DEF L!Map
<1> QED
  BY <1>1, <1>2 DEF At, i

\* The element of place <<a, x, y>> of a padded map.
Padded(a, x, y, w, h) == IF x < w /\ y < h THEN <<a, x, y, 0>> ELSE L!Pad

\* Padding keeps the map, and is empty around it (ggml_pad).
LEMMA PadMapAt ==
  ASSUME NEW n1, NEW w, NEW h, NEW w2, NEW h2, NEW a, NEW x, NEW y,
         n1 \in Nat \ {0}, w \in Nat \ {0}, h \in Nat \ {0}, w2 \in Nat \ {0},
         h2 \in Nat \ {0}, a \in 0 .. n1 - 1, x \in 0 .. w2 - 1, y \in 0 .. h2 - 1
  PROVE  At(L!PadTo(L!Map(n1, w, h), w2, h2), Spot(n1, w2, h2, a, x, y))
           = Padded(a, x, y, w, h)
<1> DEFINE t == L!Map(n1, w, h)
           ne == <<n1, w2, h2, 1>>
           i == Spot(n1, w2, h2, a, x, y)
<1>1. i \in 0 .. L!Size(ne) - 1 /\ L!Position(i, ne) = <<a, x, y, 0>>
  BY PlaneIn
<1>2. t.ne = <<n1, w, h, 1>>
  BY DEF L!Map
<1> HIDE DEF t, i
<1>3. At(L!PadTo(t, w2, h2), i)
        = IF x < w /\ y < h THEN At(t, a + n1 * (x + w * (y + h * 0))) ELSE L!Pad
  BY <1>1, <1>2 DEF L!PadTo, At
<1>4. ASSUME x < w, y < h PROVE At(t, a + n1 * (x + w * (y + h * 0))) = <<a, x, y, 0>>
  <2>1. x \in 0 .. w - 1 /\ y \in 0 .. h - 1
    BY <1>4
  <2>2. a + n1 * (x + w * (y + h * 0)) = Spot(n1, w, h, a, x, y)
    BY DEF Index, Spot
  <2>3. At(L!Map(n1, w, h), Spot(n1, w, h, a, x, y)) = <<a, x, y, 0>>
    BY <2>1, MapAt
  <2> QED
    BY <2>2, <2>3 DEF t
<1> QED
  BY <1>3, <1>4 DEF t, i, Padded

\* An extent w is cut into nx windows of ws.
CutsInto(w, ws, nx) == nx = L!Ceil(w, ws)

\* Window u of row v, of nx in a row; place b of window u.
WindowNo(nx, u, v) == v * nx + u

\* The place of a pixel of a window.
Within(ws, u, b) == u * ws + b

\* What sam3_win_part puts in window u of row v.
LEMMA WinPartAt ==
  ASSUME NEW n1, NEW w, NEW h, NEW ws, NEW nx, NEW ny, NEW a, NEW b, NEW c, NEW u, NEW v,
         n1 \in Nat \ {0}, w \in Nat \ {0}, h \in Nat \ {0}, ws \in Nat \ {0},
         nx \in Nat \ {0}, ny \in Nat \ {0}, CutsInto(w, ws, nx), CutsInto(h, ws, ny),
         a \in 0 .. n1 - 1, b \in 0 .. ws - 1, c \in 0 .. ws - 1, u \in 0 .. nx - 1,
         v \in 0 .. ny - 1
  PROVE  At(L!WinPart(L!Map(n1, w, h), ws), Index(n1, ws, ws, a, b, c, WindowNo(nx, u, v)))
           = Padded(a, Within(ws, u, b), Within(ws, v, c), w, h)
<1> DEFINE t == L!Map(n1, w, h)
           m == n1 * ws
           w2 == nx * ws
           h2 == ny * ws
           s1 == m * nx
           s2 == n1 * nx * ws
           s3 == n1 * nx * ws * ws
           s4 == m * nx * ws
           pad == L!PadTo(t, w2, h2)
           cut == L!View(pad, <<m, nx, ws, ny>>, <<m, s2, s3>>)
           swap == L!View(cut, <<m, ws, nx, ny>>, <<s1, m, s4>>)
           q == b * n1 + a
           x == u * ws + b
           y == v * ws + c
<1>1. t.ne = <<n1, w, h, 1>>
  BY DEF L!Map
<1>2. L!WinPart(t, ws).at = swap.at
  <2>1. cut.ne = <<m, nx, ws, ny>>
    BY DEF L!View
  <2>2. L!SwapMiddle(cut) = swap
    <3> HIDE DEF cut
    <3> QED
      BY <2>1 DEF L!SwapMiddle
  <2>3. L!WinPart(t, ws).at = L!SwapMiddle(cut).at
    <3> HIDE DEF t
    <3> QED
      BY <1>1 DEF L!WinPart, L!Reshape, CutsInto
  <2> HIDE DEF swap, cut
  <2> QED
    BY <2>2, <2>3
<1>3. m \in Nat \ {0} /\ w2 \in Nat \ {0} /\ h2 \in Nat \ {0}
  BY TimesNat
<1>4. q \in 0 .. m - 1
  <2>1. q \in 0 .. ws * n1 - 1
    BY PairIndex
  <2> QED
    BY <2>1
<1>5. x \in 0 .. w2 - 1 /\ y \in 0 .. h2 - 1
  BY PairIndex
<1>6. Index(n1, ws, ws, a, b, c, WindowNo(nx, u, v)) = Index(m, ws, nx, q, c, u, v)
  BY DEF Index, WindowNo
<1>7. AddressOf(s1, m, s4, q, c, u, v) = Index(m, nx, ws, q, u, c, v)
  <2> HIDE DEF q
  <2>1. q \in Int
    BY <1>3, <1>4
  <2> QED
    BY <2>1 DEF Index, AddressOf
<1>8. AddressOf(m, s2, s3, q, u, c, v) = Spot(n1, w2, h2, a, x, y)
  BY DEF Index, AddressOf, Spot
<1> HIDE DEF t, m, w2, h2, s1, s2, s3, s4, q, x, y, pad
<1>9. At(cut, Index(m, nx, ws, q, u, c, v)) = At(pad, AddressOf(m, s2, s3, q, u, c, v))
  BY <1>3, <1>4, ViewAt
<1> HIDE DEF cut
<1>10. At(swap, Index(m, ws, nx, q, c, u, v)) = At(cut, AddressOf(s1, m, s4, q, c, u, v))
  BY <1>3, <1>4, ViewAt
<1> HIDE DEF swap
<1>11. At(pad, Spot(n1, w2, h2, a, x, y)) = Padded(a, x, y, w, h)
  <2>1. At(L!PadTo(L!Map(n1, w, h), w2, h2), Spot(n1, w2, h2, a, x, y)) = Padded(a, x, y, w, h)
    BY <1>3, <1>5, PadMapAt
  <2> QED
    BY <2>1 DEF pad, t
<1>12. At(L!WinPart(t, ws), Index(n1, ws, ws, a, b, c, WindowNo(nx, u, v))) =
         Padded(a, x, y, w, h)
  BY <1>2, <1>6, <1>7, <1>8, <1>9, <1>10, <1>11 DEF At
<1> QED
  BY <1>12 DEF t, x, y, Within

\* Each of the k windows of t shows a square of a map that is w wide and h high.
Shows(t, n1, w, h, ws, k) ==
    \A d \in 0 .. k - 1 : \E u, v \in Nat :
        /\ u * ws < w /\ v * ws < h
        /\ \A a \in 0 .. n1 - 1, b \in 0 .. ws - 1, c \in 0 .. ws - 1 :
             At(t, Index(n1, ws, ws, a, b, c, d)) = Padded(a, u * ws + b, v * ws + c, w, h)

\* An index has coordinates.
HasPlace(i, n1, n2, n3, n4) ==
    \E a \in 0 .. n1 - 1, b \in 0 .. n2 - 1, c \in 0 .. n3 - 1, d \in 0 .. n4 - 1 :
       i = Index(n1, n2, n3, a, b, c, d) /\ L!Position(i, <<n1, n2, n3, n4>>) = <<a, b, c, d>>

\* So has every index of a tensor.
LEMMA PlaceOf ==
  ASSUME NEW n1, NEW n2, NEW n3, NEW n4, NEW i,
         n1 \in Nat \ {0}, n2 \in Nat \ {0}, n3 \in Nat \ {0}, n4 \in Nat,
         i \in 0 .. L!Size(<<n1, n2, n3, n4>>) - 1
  PROVE  HasPlace(i, n1, n2, n3, n4)
  BY IndexOf DEF HasPlace

\* Windows that show their part of the map are squares of it.
LEMMA SquaresAreShown ==
  ASSUME NEW t, NEW n1, NEW w, NEW h, NEW ws, NEW k,
         n1 \in Nat \ {0}, w \in Nat \ {0}, h \in Nat \ {0}, ws \in Nat \ {0}, k \in Nat,
         t.ne = <<n1, ws, ws, k>>, DOMAIN t.at = 0 .. L!Size(t.ne) - 1,
         Shows(t, n1, w, h, ws, k)
  PROVE  L!IsSquares(t, ws)
<1> SUFFICES ASSUME NEW i \in 0 .. L!Size(<<n1, ws, ws, k>>) - 1
             PROVE  t.at[i] # L!Pad =>
                    LET p     == L!Position(i, t.ne)
                        first == t.at[p[4] * t.ne[1] * ws * ws]
                    IN  /\ t.at[i] = <<p[1], first[2] + p[2], first[3] + p[3], 0>>
                        /\ first[2] % ws = 0 /\ first[3] % ws = 0
  BY DEF L!IsSquares
<1>1. PICK a \in 0 .. n1 - 1, b \in 0 .. ws - 1, c \in 0 .. ws - 1, d \in 0 .. k - 1 :
         i = Index(n1, ws, ws, a, b, c, d) /\ L!Position(i, <<n1, ws, ws, k>>) = <<a, b, c, d>>
  <2>1. HasPlace(i, n1, ws, ws, k)
    BY PlaceOf
  <2> QED
    BY <2>1 DEF HasPlace
<1>2. L!Position(i, t.ne) = <<a, b, c, d>>
  BY <1>1
<1>3. PICK u \in Nat, v \in Nat :
         /\ u * ws < w /\ v * ws < h
         /\ \A a1 \in 0 .. n1 - 1, b1 \in 0 .. ws - 1, c1 \in 0 .. ws - 1 :
              At(t, Index(n1, ws, ws, a1, b1, c1, d)) = Padded(a1, u * ws + b1, v * ws + c1, w, h)
  BY <1>1 DEF Shows
<1> DEFINE x == u * ws
           y == v * ws
<1>4. x \in Nat /\ y \in Nat /\ x < w /\ y < h /\ x % ws = 0 /\ y % ws = 0
  <2>1. x \in Nat /\ y \in Nat
    BY TimesNat
  <2>2. x % ws = 0 /\ y % ws = 0
    BY MultipleRest
  <2> QED
    BY <1>3, <2>1, <2>2
<1>5. At(t, Index(n1, ws, ws, 0, 0, 0, d)) = <<0, x, y, 0>>
  <2>1. 0 \in 0 .. n1 - 1 /\ 0 \in 0 .. ws - 1
    OBVIOUS
  <2>2. At(t, Index(n1, ws, ws, 0, 0, 0, d)) = Padded(0, u * ws + 0, v * ws + 0, w, h)
    BY <1>3, <2>1
  <2>3. u * ws + 0 = x /\ v * ws + 0 = y
    BY <1>4
  <2> HIDE DEF x, y
  <2> QED
    BY <1>4, <2>2, <2>3 DEF Padded
<1>6. Index(n1, ws, ws, 0, 0, 0, d) = d * n1 * ws * ws
  BY DEF Index
<1>7. t.at[d * n1 * ws * ws] = <<0, x, y, 0>>
  BY <1>5, <1>6 DEF At
<1>8. t.at[i] = Padded(a, x + b, y + c, w, h)
  BY <1>1, <1>3 DEF At
<1> HIDE DEF x, y
<1>9. t.at[i] # L!Pad => t.at[i] = <<a, x + b, y + c, 0>>
  BY <1>8 DEF Padded
<1>10. L!Position(i, t.ne)[4] * t.ne[1] * ws * ws = d * n1 * ws * ws
  BY <1>2
<1> DEFINE p == L!Position(i, t.ne)
           first == t.at[p[4] * t.ne[1] * ws * ws]
<1>11. first = <<0, x, y, 0>> /\ p = <<a, b, c, d>>
  BY <1>2, <1>7, <1>10
<1> HIDE DEF first, p
<1>12. t.at[i] # L!Pad => t.at[i] = <<p[1], first[2] + p[2], first[3] + p[3], 0>> /\ first[2] % ws = 0 /\ first[3] % ws = 0
  BY <1>4, <1>9, <1>11
<1> QED
  BY <1>12 DEF first, p

\* What is cut covers the map, and every window has some of it.
LEMMA WindowStarts ==
  ASSUME NEW w, NEW ws, NEW nx, w \in Nat \ {0}, ws \in Nat \ {0}, CutsInto(w, ws, nx)
  PROVE  /\ nx \in Nat \ {0} /\ w <= nx * ws /\ nx * ws \in Nat \ {0}
         /\ \A u \in 0 .. nx - 1 : u \in Nat /\ u * ws < w
<1>1. nx \in Nat \ {0} /\ w <= nx * ws /\ nx * ws < w + ws
  BY CutUp DEF CutsInto
<1>2. ASSUME NEW u \in 0 .. nx - 1 PROVE u * ws < w
  <2>1. (u + 1) * ws <= nx * ws
    <3> DEFINE z == u + 1
    <3>1. z \in Int /\ z <= nx
      BY <1>1
    <3> HIDE DEF z
    <3>2. z * ws <= nx * ws
      BY <1>1, <3>1, TimesMono
    <3> QED
      BY <3>2 DEF z
  <2>2. (u + 1) * ws = u * ws + ws /\ u * ws \in Int /\ nx * ws \in Int
    BY <1>1
  <2> QED
    BY <1>1, <2>1, <2>2
<1>3. \A u \in 0 .. nx - 1 : u \in Nat
  BY <1>1
<1> QED
  BY <1>1, <1>2, <1>3, TimesNat

\* Their number.
AllWindows(nx, ny) == nx * ny

\* ggml_win_part cuts into windows that show their parts.
LEMMA WinPartShows ==
  ASSUME NEW n1, NEW w, NEW h, NEW ws, NEW nx, NEW ny,
         n1 \in Nat \ {0}, w \in Nat \ {0}, h \in Nat \ {0}, ws \in Nat \ {0},
         CutsInto(w, ws, nx), CutsInto(h, ws, ny)
  PROVE  LET t == L!WinPart(L!Map(n1, w, h), ws)
         IN  /\ t.ne = <<n1, ws, ws, AllWindows(nx, ny)>>
             /\ DOMAIN t.at = 0 .. L!Size(t.ne) - 1
             /\ Shows(t, n1, w, h, ws, AllWindows(nx, ny))
<1> DEFINE t == L!WinPart(L!Map(n1, w, h), ws)
<1>1. /\ nx \in Nat \ {0} /\ \A u \in 0 .. nx - 1 : u \in Nat /\ u * ws < w
      /\ ny \in Nat \ {0} /\ \A v \in 0 .. ny - 1 : v \in Nat /\ v * ws < h
  BY WindowStarts
<1>2. t.ne = <<n1, ws, ws, nx * ny>>
  <2>1. L!Map(n1, w, h).ne = <<n1, w, h, 1>>
    BY DEF L!Map
  <2> QED
    BY <2>1 DEF L!WinPart, L!Reshape, CutsInto
<1>3. DOMAIN t.at = 0 .. L!Size(t.ne) - 1
  <2> DEFINE a == L!Map(n1, w, h)
             cut == L!View(L!PadTo(a, nx * ws, ny * ws), <<n1 * ws, nx, ws, ny>>,
                           <<n1 * ws, n1 * nx * ws, n1 * nx * ws * ws>>)
  <2>1. a.ne = <<n1, w, h, 1>>
    BY DEF L!Map
  <2>2. t.at = L!SwapMiddle(cut).at
    <3> HIDE DEF a
    <3>1. L!WinPart(a, ws) = L!Reshape(L!SwapMiddle(cut), <<n1, ws, ws, nx * ny>>)
      BY <2>1 DEF L!WinPart, CutsInto
    <3> HIDE DEF cut
    <3> QED
      BY <3>1 DEF L!Reshape, a
  <2>3. cut.ne = <<n1 * ws, nx, ws, ny>>
    BY DEF L!View
  <2> HIDE DEF cut
  <2>4. DOMAIN L!SwapMiddle(cut).at = 0 .. L!Size(<<n1 * ws, ws, nx, ny>>) - 1
    BY <2>3 DEF L!SwapMiddle, L!View
  <2>5. L!Size(<<n1 * ws, ws, nx, ny>>) = L!Size(<<n1, ws, ws, nx * ny>>)
    <3>1. /\ L!Size(<<n1 * ws, ws, nx, ny>>) = (n1 * ws) * ws * nx * ny
          /\ L!Size(<<n1, ws, ws, nx * ny>>) = n1 * ws * ws * (nx * ny)
      BY DEF L!Size
    <3> QED
      BY <1>1, <3>1
  <2> QED
    BY <1>2, <2>2, <2>4, <2>5
<1> HIDE DEF t
<1>4. ASSUME NEW d \in 0 .. nx * ny - 1
      PROVE  \E u, v \in Nat :
        /\ u * ws < w /\ v * ws < h
        /\ \A a \in 0 .. n1 - 1, b \in 0 .. ws - 1, c \in 0 .. ws - 1 :
             At(t, Index(n1, ws, ws, a, b, c, d)) = Padded(a, u * ws + b, v * ws + c, w, h)
  <2> DEFINE u == d % nx
             v == d \div nx
  <2>1. u \in 0 .. nx - 1 /\ v \in 0 .. ny - 1 /\ d = v * nx + u
    <3>1. d \in 0 .. ny * nx - 1
      BY <1>1
    <3> HIDE DEF u, v
    <3>2. /\ d % nx \in 0 .. nx - 1 /\ d \div nx \in 0 .. ny - 1
          /\ d = (d \div nx) * nx + (d % nx)
      BY <1>1, <3>1, IndexPair
    <3> QED
      BY <3>2 DEF u, v
  <2> HIDE DEF u, v
  <2>2. ASSUME NEW a, NEW b, NEW c,
               a \in 0 .. n1 - 1, b \in 0 .. ws - 1, c \in 0 .. ws - 1
        PROVE  At(t, Index(n1, ws, ws, a, b, c, d)) = Padded(a, u * ws + b, v * ws + c, w, h)
    <3>1. At(L!WinPart(L!Map(n1, w, h), ws), Index(n1, ws, ws, a, b, c, WindowNo(nx, u, v)))
            = Padded(a, Within(ws, u, b), Within(ws, v, c), w, h)
      BY <1>1, <2>1, <2>2, WinPartAt
    <3> QED
      BY <2>1, <3>1 DEF t, WindowNo, Within
  <2>3. u \in Nat /\ v \in Nat /\ u * ws < w /\ v * ws < h
    BY <1>1, <2>1
  <2>4. \A a \in 0 .. n1 - 1, b \in 0 .. ws - 1, c \in 0 .. ws - 1 :
           At(t, Index(n1, ws, ws, a, b, c, d)) = Padded(a, u * ws + b, v * ws + c, w, h)
    BY <2>2
  <2> QED
    BY <2>3, <2>4
<1>5. Shows(t, n1, w, h, ws, nx * ny)
  BY <1>4 DEF Shows
<1> QED
  BY <1>2, <1>3, <1>5 DEF t, AllWindows

\* A tensor of one image; two with the same elements.
Tensor(t, n1, w, h) ==
    t = [ne |-> <<n1, w, h, 1>>, at |-> [i \in 0 .. (L!Size(<<n1, w, h, 1>>) - 1) |-> t.at[i]]]

\* Two tensors have the same at every place.
Alike(t, r, n1, w, h) ==
    \A a \in 0 .. n1 - 1, x \in 0 .. w - 1, y \in 0 .. h - 1 :
        At(t, Spot(n1, w, h, a, x, y)) = At(r, Spot(n1, w, h, a, x, y))

\* Every index of a map is that of a place.
LEMMA SpotOf ==
  ASSUME NEW n1, NEW w, NEW h, NEW i,
         n1 \in Nat \ {0}, w \in Nat \ {0}, h \in Nat \ {0}, i \in 0 .. L!Size(<<n1, w, h, 1>>) - 1
  PROVE  \E a \in 0 .. n1 - 1, x \in 0 .. w - 1, y \in 0 .. h - 1 : i = Spot(n1, w, h, a, x, y)
<1> DEFINE o == 1
<1>1. o \in Nat /\ i \in 0 .. L!Size(<<n1, w, h, o>>) - 1
  OBVIOUS
<1> HIDE DEF o
<1>2. \E a \in 0 .. n1 - 1, x \in 0 .. w - 1, y \in 0 .. h - 1, d \in 0 .. o - 1 :
         i = Index(n1, w, h, a, x, y, d)
  BY <1>1, IndexOf
<1>3. \A d \in 0 .. o - 1 : d = 0
  BY DEF o
<1> QED
  BY <1>2, <1>3 DEF Spot

\* Tensors of one shape that are alike are the same.
LEMMA SameTensors ==
  ASSUME NEW t, NEW r, NEW n1, NEW w, NEW h,
         n1 \in Nat \ {0}, w \in Nat \ {0}, h \in Nat \ {0},
         Tensor(t, n1, w, h), Tensor(r, n1, w, h), Alike(t, r, n1, w, h)
  PROVE  t = r
<1> DEFINE D == 0 .. (L!Size(<<n1, w, h, 1>>) - 1)
<1>1. ASSUME NEW i \in D PROVE t.at[i] = r.at[i]
  <2>1. \E a \in 0 .. n1 - 1, x \in 0 .. w - 1, y \in 0 .. h - 1 : i = Spot(n1, w, h, a, x, y)
    BY SpotOf
  <2> HIDE DEF D
  <2> QED
    BY <2>1 DEF Alike, At
<1> DEFINE f == [i \in D |-> t.at[i]]
           g == [i \in D |-> r.at[i]]
<1>2. t = [ne |-> <<n1, w, h, 1>>, at |-> f] /\ r = [ne |-> <<n1, w, h, 1>>, at |-> g]
  BY DEF Tensor
<1>3. f = g
  BY <1>1
<1> HIDE DEF f, g
<1> QED
  BY <1>2, <1>3

\* The number of channels of a tensor.
Channels(t, n1) == t.ne[1] = n1

\* Where sam3_win_unpart takes a place from.
LEMMA WinUnpartAt ==
  ASSUME NEW t, NEW n1, NEW w, NEW h, NEW ws, NEW nx, NEW ny,
         NEW a, NEW b, NEW c, NEW u, NEW v,
         n1 \in Nat \ {0}, w \in Nat \ {0}, h \in Nat \ {0}, ws \in Nat \ {0},
         nx \in Nat \ {0}, ny \in Nat \ {0}, CutsInto(w, ws, nx), CutsInto(h, ws, ny),
         Channels(t, n1),
         a \in 0 .. n1 - 1, b \in 0 .. ws - 1, c \in 0 .. ws - 1, u \in 0 .. nx - 1,
         v \in 0 .. ny - 1, Within(ws, u, b) < w, Within(ws, v, c) < h
  PROVE  At(L!WinUnpart(t, w, h, ws), Spot(n1, w, h, a, Within(ws, u, b), Within(ws, v, c)))
           = At(t, Index(n1, ws, ws, a, b, c, WindowNo(nx, u, v)))
<1> DEFINE m == n1 * ws
           s1 == n1 * ws * ws
           s3 == n1 * ws * ws * nx
           w2 == nx * ws
           h2 == ny * ws
           r2 == n1 * w2
           r3 == n1 * w2 * h2
           z == 0
           o == 1
           cut == L!View(t, <<m, nx, ws, ny>>, <<s1, m, s3>>)
           flat == [ne |-> <<n1, w2, h2, o>>, at |-> cut.at]
           crop == L!View(flat, <<n1, w, h, o>>, <<n1, r2, r3>>)
           q == b * n1 + a
           x == Within(ws, u, b)
           y == Within(ws, v, c)
<1>1. L!WinUnpart(t, w, h, ws) = crop
  <2>1. L!WinUnpart(t, w, h, ws) = L!Crop(L!Reshape(cut, <<n1, w2, h2, o>>), w, h)
    BY DEF L!WinUnpart, CutsInto, Channels
  <2>2. L!Reshape(cut, <<n1, w2, h2, o>>) = flat
    BY DEF L!Reshape
  <2> HIDE DEF cut
  <2>3. L!Crop(flat, w, h) = crop
    BY DEF L!Crop
  <2> HIDE DEF flat, crop
  <2> QED
    BY <2>1, <2>2, <2>3
<1>2. m \in Nat \ {0} /\ w2 \in Nat \ {0}
  BY TimesNat
<1>3. q \in 0 .. m - 1
  <2>1. q \in 0 .. ws * n1 - 1
    BY PairIndex
  <2> QED
    BY <2>1
<1>4. x \in 0 .. w - 1 /\ y \in 0 .. h - 1
  <2>1. u * ws \in Nat /\ v * ws \in Nat
    OBVIOUS
  <2> QED
    BY <2>1 DEF Within
<1>5. z \in 0 .. o - 1 /\ o \in Nat
  OBVIOUS
<1>6. AddressOf(n1, r2, r3, a, x, y, z) = Index(m, nx, ws, q, u, c, v)
  BY DEF AddressOf, Index, Within
<1>7. AddressOf(s1, m, s3, q, u, c, v) = Index(n1, ws, ws, a, b, c, WindowNo(nx, u, v))
  BY DEF AddressOf, Index, WindowNo
<1>8. Spot(n1, w, h, a, x, y) = Index(n1, w, h, a, x, y, z)
  BY DEF Spot
<1>9. flat.at = cut.at
  OBVIOUS
<1> HIDE DEF m, s1, s3, w2, h2, r2, r3, z, o, q, x, y, flat
<1>10. At(crop, Index(n1, w, h, a, x, y, z)) = At(flat, AddressOf(n1, r2, r3, a, x, y, z))
  BY <1>4, <1>5, ViewAt
<1>11. At(cut, Index(m, nx, ws, q, u, c, v)) = At(t, AddressOf(s1, m, s3, q, u, c, v))
  BY <1>2, <1>3, ViewAt
<1> HIDE DEF crop, cut
<1>12. At(crop, Spot(n1, w, h, a, x, y)) = At(t, Index(n1, ws, ws, a, b, c, WindowNo(nx, u, v)))
  BY <1>6, <1>7, <1>8, <1>9, <1>10, <1>11 DEF At
<1> QED
  BY <1>1, <1>12 DEF x, y

\* A place of a line lies in one of the windows it is cut into.
InWindow(x, ws, nx) == \E u \in 0 .. nx - 1, b \in 0 .. ws - 1 : x = Within(ws, u, b)

\* Every pixel is in a window.
LEMMA WindowOf ==
  ASSUME NEW w, NEW ws, NEW nx, NEW x,
         w \in Nat \ {0}, ws \in Nat \ {0}, CutsInto(w, ws, nx), x \in 0 .. w - 1
  PROVE  InWindow(x, ws, nx)
<1>1. nx \in Nat \ {0} /\ w <= nx * ws /\ nx * ws \in Nat
  BY WindowStarts
<1>2. x \in 0 .. nx * ws - 1
  BY <1>1
<1>3. x % ws \in 0 .. ws - 1 /\ x \div ws \in 0 .. nx - 1 /\ x = (x \div ws) * ws + (x % ws)
  BY <1>1, <1>2, IndexPair
<1> DEFINE u == x \div ws
           b == x % ws
<1>4. u \in 0 .. nx - 1 /\ b \in 0 .. ws - 1 /\ x = u * ws + b
  BY <1>3
<1> HIDE DEF u, b
<1> QED
  BY <1>4 DEF Within, InWindow

\* Maps, views and what is put together from windows are tensors of their shape.
LEMMA MapIsTensor ==
  ASSUME NEW n1, NEW w, NEW h
  PROVE  Tensor(L!Map(n1, w, h), n1, w, h)
<1> DEFINE ne == <<n1, w, h, 1>>
           D == 0 .. (L!Size(ne) - 1)
           f == [i \in D |-> L!Position(i, ne)]
           g == [i \in D |-> L!Map(n1, w, h).at[i]]
<1>1. L!Map(n1, w, h) = [ne |-> ne, at |-> f]
  BY DEF L!Map
<1>2. f = g
  BY <1>1
<1> HIDE DEF f
<1>3. L!Map(n1, w, h) = [ne |-> ne, at |-> g]
  BY <1>1, <1>2
<1> QED
  BY <1>3 DEF Tensor

\* A view is,
LEMMA ViewIsTensor ==
  ASSUME NEW t, NEW n1, NEW w, NEW h, NEW nb
  PROVE  Tensor(L!View(t, <<n1, w, h, 1>>, nb), n1, w, h)
<1> DEFINE ne == <<n1, w, h, 1>>
           D == 0 .. (L!Size(ne) - 1)
           v == L!View(t, ne, nb)
           g == [i \in D |-> v.at[i]]
<1>1. v.ne = ne /\ v.at = g /\ v = [ne |-> v.ne, at |-> v.at]
  BY DEF L!View
<1> HIDE DEF v, g
<1>2. v = [ne |-> ne, at |-> g]
  BY <1>1
<1> QED
  BY <1>2 DEF Tensor, v, g

\* and what ggml_win_unpart makes.
LEMMA UnpartIsTensor ==
  ASSUME NEW t, NEW n1, NEW w, NEW h, NEW ws, NEW k, t.ne = <<n1, ws, ws, k>>
  PROVE  Tensor(L!WinUnpart(t, w, h, ws), n1, w, h)
<1> DEFINE nx == L!Ceil(w, ws)
           ny == L!Ceil(h, ws)
           cut == L!View(t, <<n1 * ws, nx, ws, ny>>,
                         <<n1 * ws * ws, n1 * ws, n1 * ws * ws * nx>>)
           flat == L!Reshape(cut, <<n1, nx * ws, ny * ws, 1>>)
           nb == <<n1, n1 * (nx * ws), n1 * (nx * ws) * (ny * ws)>>
<1>1. L!WinUnpart(t, w, h, ws) = L!Crop(flat, w, h)
  BY DEF L!WinUnpart
<1>2. L!Crop(flat, w, h) = L!View(flat, <<n1, w, h, 1>>, nb)
  <2>1. flat.ne = <<n1, nx * ws, ny * ws, 1>>
    BY DEF L!Reshape
  <2> HIDE DEF flat
  <2> QED
    BY <2>1 DEF L!Crop
<1> HIDE DEF flat, nb
<1>3. Tensor(L!View(flat, <<n1, w, h, 1>>, nb), n1, w, h)
  BY ViewIsTensor
<1> QED
  BY <1>1, <1>2, <1>3

\* Every feature map, cut into windows of any size, is cut into squares, and the
\* windows put together are the map (sam3_win_part, sam3_win_unpart).
THEOREM WindowsOfAllMaps == \A n1, w, h, ws \in Nat \ {0} : L!WindowsAreSquares(n1, w, h, ws)
<1> SUFFICES ASSUME NEW n1, NEW w, NEW h, NEW ws,
                    n1 \in Nat \ {0}, w \in Nat \ {0}, h \in Nat \ {0}, ws \in Nat \ {0}
             PROVE  L!WindowsAreSquares(n1, w, h, ws)
  OBVIOUS
<1> DEFINE a == L!Map(n1, w, h)
           t == L!WinPart(a, ws)
           nx == L!Ceil(w, ws)
           ny == L!Ceil(h, ws)
           k == AllWindows(nx, ny)
           back == L!WinUnpart(t, w, h, ws)
<1>1. CutsInto(w, ws, nx) /\ CutsInto(h, ws, ny)
  BY DEF CutsInto
<1> HIDE DEF nx, ny
<1>2. nx \in Nat \ {0} /\ ny \in Nat \ {0}
  BY <1>1, WindowStarts
<1>3. t.ne = <<n1, ws, ws, k>> /\ DOMAIN t.at = 0 .. L!Size(t.ne) - 1 /\ Shows(t, n1, w, h, ws, k)
  <2>1. Shows(L!WinPart(L!Map(n1, w, h), ws), n1, w, h, ws, AllWindows(nx, ny))
    BY <1>1, WinPartShows
  <2>2. L!WinPart(L!Map(n1, w, h), ws).ne = <<n1, ws, ws, AllWindows(nx, ny)>>
    BY <1>1, <2>1, WinPartShows
  <2>3. DOMAIN (L!WinPart(L!Map(n1, w, h), ws).at) = 0 .. L!Size(L!WinPart(L!Map(n1, w, h), ws).ne) - 1
    BY <1>1, <2>1, WinPartShows
  <2> QED
    BY <2>1, <2>2, <2>3
<1>4. L!IsSquares(t, ws)
  <2>1. k \in Nat
    BY <1>2 DEF AllWindows
  <2> HIDE DEF t, k
  <2> QED
    BY <1>3, <2>1, SquaresAreShown
<1>5. ASSUME NEW p, NEW x, NEW y, p \in 0 .. n1 - 1, x \in 0 .. w - 1, y \in 0 .. h - 1
      PROVE  At(back, Spot(n1, w, h, p, x, y)) = At(a, Spot(n1, w, h, p, x, y))
  <2>1. InWindow(x, ws, nx)
    BY <1>1, <1>5, WindowOf
  <2>2. InWindow(y, ws, ny)
    BY <1>1, <1>5, WindowOf
  <2>3. PICK u, b : u \in 0 .. nx - 1 /\ b \in 0 .. ws - 1 /\ x = Within(ws, u, b)
    BY <2>1 DEF InWindow
  <2>4. PICK v, c : v \in 0 .. ny - 1 /\ c \in 0 .. ws - 1 /\ y = Within(ws, v, c)
    BY <2>2 DEF InWindow
  <2>5. Within(ws, u, b) < w /\ Within(ws, v, c) < h
    BY <1>5, <2>3, <2>4
  <2> HIDE DEF k
  <2>6. At(L!WinUnpart(t, w, h, ws), Spot(n1, w, h, p, Within(ws, u, b), Within(ws, v, c)))
          = At(t, Index(n1, ws, ws, p, b, c, WindowNo(nx, u, v)))
    <3>1. Channels(t, n1)
      <4> HIDE DEF t, k
      <4> QED
        BY <1>3 DEF Channels
    <3> HIDE DEF t, back
    <3> QED
      BY <1>1, <1>2, <3>1, <1>5, <2>3, <2>4, <2>5, WinUnpartAt
  <2>7. At(L!WinPart(L!Map(n1, w, h), ws), Index(n1, ws, ws, p, b, c, WindowNo(nx, u, v)))
          = Padded(p, Within(ws, u, b), Within(ws, v, c), w, h)
    <3> HIDE DEF t, back, a
    <3> QED
      BY <1>1, <1>2, <1>5, <2>3, <2>4, WinPartAt
  <2>8. Padded(p, x, y, w, h) = <<p, x, y, 0>>
    BY <1>5 DEF Padded
  <2>9. At(L!Map(n1, w, h), Spot(n1, w, h, p, x, y)) = <<p, x, y, 0>>
    <3> HIDE DEF t, back, a
    <3> QED
      BY <1>5, MapAt
  <2> QED
    BY <2>3, <2>4, <2>6, <2>7, <2>8, <2>9
<1>6. Tensor(a, n1, w, h)
  BY MapIsTensor
<1>7. Tensor(back, n1, w, h)
  <2> HIDE DEF t, k
  <2> QED
    BY <1>3, UnpartIsTensor
<1>8. Alike(back, a, n1, w, h)
  BY <1>5 DEF Alike
<1>9. back = a
  <2> HIDE DEF back, a
  <2> QED
    BY <1>6, <1>7, <1>8, SameTensors
<1> QED
  BY <1>4, <1>9 DEF L!WindowsAreSquares

\* What sam2_window_partition puts in window u of row v.
LEMMA PartitionAt ==
  ASSUME NEW n1, NEW w, NEW h, NEW ws, NEW nx, NEW ny, NEW a, NEW b, NEW c, NEW u, NEW v,
         n1 \in Nat \ {0}, w \in Nat \ {0}, h \in Nat \ {0}, ws \in Nat \ {0},
         nx \in Nat \ {0}, ny \in Nat \ {0}, CutsInto(w, ws, nx), CutsInto(h, ws, ny),
         a \in 0 .. n1 - 1, b \in 0 .. ws - 1, c \in 0 .. ws - 1, u \in 0 .. nx - 1,
         v \in 0 .. ny - 1
  PROVE  At(L!Partition(L!Map(n1, w, h), ws), Index(n1, ws, ws, a, b, c, WindowNo(ny, v, u)))
           = Padded(a, Within(ws, u, b), Within(ws, v, c), w, h)
<1> DEFINE t == L!Map(n1, w, h)
           m == n1 * ws
           w2 == nx * ws
           h2 == ny * ws
           s1 == m * nx
           s3 == m * nx * h2
           z == 0
           o == 1
           pad == L!PadTo(t, w2, h2)
           flat == [ne |-> <<m, nx, h2, o>>, at |-> pad.at]
           swap == L!View(flat, <<m, h2, nx, o>>, <<s1, m, s3>>)
           q == b * n1 + a
           x == Within(ws, u, b)
           y == Within(ws, v, c)
<1>1. t.ne = <<n1, w, h, 1>>
  BY DEF L!Map
<1>2. L!Partition(t, ws).at = swap.at
  <2>1. w2 \div ws = nx /\ h2 \div ws = ny
    BY MultipleRest
  <2>2. L!Reshape(pad, <<n1 * ws, w2 \div ws, h2, 1>>) = flat
    <3> HIDE DEF pad, h2, w2
    <3> QED
      BY <2>1 DEF L!Reshape
  <2>3. L!SwapMiddle(flat) = swap
    BY DEF L!SwapMiddle
  <2>4. L!Partition(t, ws).at = L!SwapMiddle(L!Reshape(pad, <<n1 * ws, w2 \div ws, h2, 1>>)).at
    <3> HIDE DEF t
    <3> QED
      BY <1>1 DEF L!Partition, L!Reshape, CutsInto
  <2> HIDE DEF swap, flat, pad
  <2> QED
    BY <2>2, <2>3, <2>4
<1>3. m \in Nat \ {0} /\ w2 \in Nat \ {0} /\ h2 \in Nat \ {0}
  BY TimesNat
<1>4. q \in 0 .. m - 1
  <2>1. q \in 0 .. ws * n1 - 1
    BY PairIndex
  <2> QED
    BY <2>1
<1>5. x \in 0 .. w2 - 1 /\ y \in 0 .. h2 - 1
  BY PairIndex DEF Within
<1>6. z \in 0 .. o - 1 /\ o \in Nat
  OBVIOUS
<1>7. Index(n1, ws, ws, a, b, c, WindowNo(ny, v, u)) = Index(m, h2, nx, q, y, u, z)
  BY DEF Index, WindowNo, Within
<1>8. AddressOf(s1, m, s3, q, y, u, z) = Spot(n1, w2, h2, a, x, y)
  BY DEF Index, AddressOf, Spot, Within
<1>9. flat.at = pad.at
  OBVIOUS
<1> HIDE DEF t, m, w2, h2, s1, s3, z, o, q, x, y, pad, flat
<1>10. At(swap, Index(m, h2, nx, q, y, u, z)) = At(flat, AddressOf(s1, m, s3, q, y, u, z))
  BY <1>3, <1>4, <1>5, <1>6, ViewAt
<1> HIDE DEF swap
<1>11. At(pad, Spot(n1, w2, h2, a, x, y)) = Padded(a, x, y, w, h)
  <2>1. At(L!PadTo(L!Map(n1, w, h), w2, h2), Spot(n1, w2, h2, a, x, y)) = Padded(a, x, y, w, h)
    BY <1>3, <1>5, PadMapAt
  <2> QED
    BY <2>1 DEF pad, t
<1>12. At(L!Partition(t, ws), Index(n1, ws, ws, a, b, c, WindowNo(ny, v, u))) = Padded(a, x, y, w, h)
  BY <1>2, <1>7, <1>8, <1>9, <1>10, <1>11 DEF At
<1> QED
  BY <1>12 DEF t, x, y

\* sam2_window_partition cuts into windows that show their parts.
LEMMA PartitionShows ==
  ASSUME NEW n1, NEW w, NEW h, NEW ws, NEW nx, NEW ny,
         n1 \in Nat \ {0}, w \in Nat \ {0}, h \in Nat \ {0}, ws \in Nat \ {0},
         CutsInto(w, ws, nx), CutsInto(h, ws, ny)
  PROVE  LET t == L!Partition(L!Map(n1, w, h), ws)
         IN  /\ t.ne = <<n1, ws, ws, AllWindows(nx, ny)>>
             /\ DOMAIN t.at = 0 .. L!Size(t.ne) - 1
             /\ Shows(t, n1, w, h, ws, AllWindows(nx, ny))
<1> DEFINE t == L!Partition(L!Map(n1, w, h), ws)
           w2 == nx * ws
           h2 == ny * ws
<1>1. /\ nx \in Nat \ {0} /\ \A u \in 0 .. nx - 1 : u \in Nat /\ u * ws < w
      /\ ny \in Nat \ {0} /\ \A v \in 0 .. ny - 1 : v \in Nat /\ v * ws < h
  BY WindowStarts
<1>2. w2 \div ws = nx /\ h2 \div ws = ny
  BY <1>1, MultipleRest
<1>3. t.ne = <<n1, ws, ws, AllWindows(nx, ny)>> /\ DOMAIN t.at = 0 .. L!Size(t.ne) - 1
  <2> DEFINE a == L!Map(n1, w, h)
             flat == L!Reshape(L!PadTo(a, w2, h2), <<n1 * ws, w2 \div ws, h2, 1>>)
  <2>1. a.ne = <<n1, w, h, 1>>
    BY DEF L!Map
  <2>2. /\ t.at = L!SwapMiddle(flat).at
        /\ t.ne = <<n1, ws, ws, (w2 \div ws) * (h2 \div ws) * 1>>
    <3>1. L!Partition(a, ws)
            = L!Reshape(L!Reshape(L!SwapMiddle(flat),
                                  <<n1 * ws, ws, h2 \div ws, (w2 \div ws) * 1>>),
                        <<n1, ws, ws, (w2 \div ws) * (h2 \div ws) * 1>>)
      <4> HIDE DEF a
      <4> QED
        BY <2>1 DEF L!Partition, CutsInto
    <3> HIDE DEF flat
    <3> QED
      BY <3>1 DEF L!Reshape
  <2>3. t.ne = <<n1, ws, ws, AllWindows(nx, ny)>>
    <3> HIDE DEF t, w2, h2
    <3> QED
      BY <1>1, <1>2, <2>2 DEF AllWindows
  <2>4. flat.ne = <<n1 * ws, nx, h2, 1>>
    <3> HIDE DEF w2, h2, a
    <3> QED
      BY <1>2 DEF L!Reshape
  <2> HIDE DEF flat
  <2>5. DOMAIN L!SwapMiddle(flat).at = 0 .. L!Size(<<n1 * ws, h2, nx, 1>>) - 1
    <3> HIDE DEF h2
    <3> QED
      BY <2>4 DEF L!SwapMiddle, L!View
  <2>6. L!Size(<<n1 * ws, h2, nx, 1>>) = L!Size(<<n1, ws, ws, AllWindows(nx, ny)>>)
    <3>1. /\ L!Size(<<n1 * ws, h2, nx, 1>>) = (n1 * ws) * (ny * ws) * nx * 1
          /\ L!Size(<<n1, ws, ws, AllWindows(nx, ny)>>) = n1 * ws * ws * (nx * ny)
      BY DEF L!Size, AllWindows
    <3> QED
      BY <1>1, <3>1
  <2> HIDE DEF t, h2, w2
  <2> QED
    BY <2>2, <2>3, <2>5, <2>6
<1> HIDE DEF t
<1>4. ASSUME NEW d \in 0 .. nx * ny - 1
      PROVE  \E u, v \in Nat :
        /\ u * ws < w /\ v * ws < h
        /\ \A a \in 0 .. n1 - 1, b \in 0 .. ws - 1, c \in 0 .. ws - 1 :
             At(t, Index(n1, ws, ws, a, b, c, d)) = Padded(a, u * ws + b, v * ws + c, w, h)
  <2> DEFINE v == d % ny
             u == d \div ny
  <2>1. u \in 0 .. nx - 1 /\ v \in 0 .. ny - 1 /\ d = u * ny + v
    <3> HIDE DEF u, v
    <3>2. /\ d % ny \in 0 .. ny - 1 /\ d \div ny \in 0 .. nx - 1
          /\ d = (d \div ny) * ny + (d % ny)
      BY <1>1, IndexPair
    <3> QED
      BY <3>2 DEF u, v
  <2> HIDE DEF u, v
  <2>2. ASSUME NEW a, NEW b, NEW c,
               a \in 0 .. n1 - 1, b \in 0 .. ws - 1, c \in 0 .. ws - 1
        PROVE  At(t, Index(n1, ws, ws, a, b, c, d)) = Padded(a, u * ws + b, v * ws + c, w, h)
    <3>1. At(L!Partition(L!Map(n1, w, h), ws), Index(n1, ws, ws, a, b, c, WindowNo(ny, v, u)))
            = Padded(a, Within(ws, u, b), Within(ws, v, c), w, h)
      BY <1>1, <2>1, <2>2, PartitionAt
    <3> QED
      BY <2>1, <3>1 DEF t, WindowNo, Within
  <2>3. u \in Nat /\ v \in Nat /\ u * ws < w /\ v * ws < h
    BY <1>1, <2>1
  <2>4. \A a \in 0 .. n1 - 1, b \in 0 .. ws - 1, c \in 0 .. ws - 1 :
           At(t, Index(n1, ws, ws, a, b, c, d)) = Padded(a, u * ws + b, v * ws + c, w, h)
    BY <2>2
  <2> QED
    BY <2>3, <2>4
<1>5. Shows(t, n1, w, h, ws, nx * ny)
  BY <1>4 DEF Shows
<1> QED
  BY <1>3, <1>5 DEF t, AllWindows

\* Where sam2_window_unpartition takes a place from, of an image of w by h.
LEMMA UnpartitionAt ==
  ASSUME NEW t, NEW n1, NEW w, NEW h, NEW ws, NEW nx, NEW ny,
         NEW a, NEW b, NEW c, NEW u, NEW v,
         n1 \in Nat \ {0}, w \in Nat \ {0}, h \in Nat \ {0}, ws \in Nat \ {0},
         nx \in Nat \ {0}, ny \in Nat \ {0}, Channels(t, n1),
         a \in 0 .. n1 - 1, b \in 0 .. ws - 1, c \in 0 .. ws - 1, u \in 0 .. nx - 1,
         v \in 0 .. ny - 1, Within(ws, u, b) < w, Within(ws, v, c) < h
  PROVE  At(L!Unpartition(t, ws, AllWindows(nx, ws), AllWindows(ny, ws), w, h),
            Spot(n1, w, h, a, Within(ws, u, b), Within(ws, v, c)))
           = At(t, Index(n1, ws, ws, a, b, c, WindowNo(ny, v, u)))
<1> DEFINE m == n1 * ws
           w2 == AllWindows(nx, ws)
           h2 == AllWindows(ny, ws)
           s1 == m * h2
           s3 == m * h2 * nx
           r2 == n1 * w2
           r3 == n1 * w2 * h2
           z == 0
           o == 1
           side == [ne |-> <<m, h2, nx, o>>, at |-> t.at]
           swap == L!View(side, <<m, nx, h2, o>>, <<s1, m, s3>>)
           flat == [ne |-> <<n1, w2, h2, o>>, at |-> swap.at]
           crop == L!View(flat, <<n1, w, h, o>>, <<n1, r2, r3>>)
           q == b * n1 + a
           x == Within(ws, u, b)
           y == Within(ws, v, c)
<1>1. L!Unpartition(t, ws, w2, h2, w, h) = crop
  <2>1. w2 \div ws = nx
    BY MultipleRest DEF AllWindows
  <2> HIDE DEF w2, h2
  <2>2. L!Unpartition(t, ws, w2, h2, w, h)
          = L!Crop(L!Reshape(L!SwapMiddle(side), <<n1, w2, h2, o>>), w, h)
    BY <2>1 DEF L!Unpartition, L!Reshape, Channels
  <2>3. L!SwapMiddle(side) = swap
    BY DEF L!SwapMiddle
  <2> HIDE DEF side, swap
  <2>4. L!Reshape(swap, <<n1, w2, h2, o>>) = flat
    BY DEF L!Reshape
  <2>5. L!Crop(flat, w, h) = crop
    BY DEF L!Crop
  <2> HIDE DEF flat, crop
  <2> QED
    BY <2>2, <2>3, <2>4, <2>5
<1>2. m \in Nat \ {0} /\ w2 \in Nat \ {0} /\ h2 \in Nat \ {0}
  BY TimesNat DEF AllWindows
<1>3. q \in 0 .. m - 1
  <2>1. q \in 0 .. ws * n1 - 1
    BY PairIndex
  <2> QED
    BY <2>1
<1>4. x \in 0 .. w - 1 /\ y \in 0 .. h - 1 /\ y \in 0 .. h2 - 1
  <2>1. u * ws \in Nat /\ v * ws \in Nat
    OBVIOUS
  <2>2. y \in 0 .. h2 - 1
    BY PairIndex DEF Within, AllWindows
  <2> QED
    BY <2>1, <2>2 DEF Within
<1>5. z \in 0 .. o - 1 /\ o \in Nat
  OBVIOUS
<1>6. AddressOf(n1, r2, r3, a, x, y, z) = Index(m, nx, h2, q, u, y, z)
  BY DEF AddressOf, Index, Within, AllWindows
<1>7. AddressOf(s1, m, s3, q, u, y, z) = Index(n1, ws, ws, a, b, c, WindowNo(ny, v, u))
  BY DEF AddressOf, Index, WindowNo, Within, AllWindows
<1>8. Spot(n1, w, h, a, x, y) = Index(n1, w, h, a, x, y, z)
  BY DEF Spot
<1>9. flat.at = swap.at /\ side.at = t.at
  OBVIOUS
<1> HIDE DEF m, s1, s3, w2, h2, r2, r3, z, o, q, x, y, flat, side
<1>10. At(crop, Index(n1, w, h, a, x, y, z)) = At(flat, AddressOf(n1, r2, r3, a, x, y, z))
  BY <1>4, <1>5, ViewAt
<1>11. At(swap, Index(m, nx, h2, q, u, y, z)) = At(side, AddressOf(s1, m, s3, q, u, y, z))
  BY <1>2, <1>3, <1>4, <1>5, ViewAt
<1> HIDE DEF crop, swap
<1>12. At(crop, Spot(n1, w, h, a, x, y)) = At(t, Index(n1, ws, ws, a, b, c, WindowNo(ny, v, u)))
  BY <1>6, <1>7, <1>8, <1>9, <1>10, <1>11 DEF At
<1> QED
  BY <1>1, <1>12 DEF x, y, w2, h2

\* Extents that are even in the plane, and the four places pooled into one.
Even(t, n1, e, f, k) == t.ne = <<n1, 2 * e, 2 * f, k>>

\* The four elements that are pooled into one.
Quad(t, n1, e, f, a, b, c, d) ==
    {At(t, Index(n1, 2 * e, 2 * f, a, 2 * b + dx, 2 * c + dy, d)) : dx, dy \in 0 .. 1}

\* Twice a number, halved.
LEMMA Halves ==
  ASSUME NEW e, e \in Nat
  PROVE  (2 * e) \div 2 = e /\ (2 * e) % 2 = 0
<1> DEFINE n == 2
<1>1. n \in Nat \ {0}
  OBVIOUS
<1> HIDE DEF n
<1>2. (e * n) \div n = e /\ (e * n) % n = 0
  BY <1>1, MultipleRest
<1>3. e * 2 = 2 * e
  OBVIOUS
<1> QED
  BY <1>2, <1>3 DEF n

\* Pooling halves a map of even extents, and takes its elements by fours.
LEMMA PoolAt ==
  ASSUME NEW t, NEW n1, NEW e, NEW f, NEW k, NEW a, NEW b, NEW c, NEW d,
         n1 \in Nat \ {0}, e \in Nat \ {0}, f \in Nat \ {0}, k \in Nat, Even(t, n1, e, f, k),
         a \in 0 .. n1 - 1, b \in 0 .. e - 1, c \in 0 .. f - 1, d \in 0 .. k - 1
  PROVE  /\ L!Pool2(t).ne = <<n1, e, f, k>>
         /\ At(L!Pool2(t), Index(n1, e, f, a, b, c, d)) = Quad(t, n1, e, f, a, b, c, d)
<1> DEFINE i == Index(n1, e, f, a, b, c, d)
           ne == <<n1, e, f, k>>
<1>1. i \in 0 .. L!Size(ne) - 1 /\ L!Position(i, ne) = <<a, b, c, d>>
  BY IndexIn
<1>2. (2 * e) \div 2 = e /\ (2 * f) \div 2 = f
  BY Halves
<1>3. t.ne = <<n1, 2 * e, 2 * f, k>>
  BY DEF Even
<1> HIDE DEF i
<1>4. L!Pool2(t).ne = ne
  <2> DEFINE e2 == (2 * e) \div 2
             f2 == (2 * f) \div 2
  <2>1. L!Pool2(t).ne = <<n1, e2, f2, k>>
    BY <1>3 DEF L!Pool2
  <2> HIDE DEF e2, f2
  <2>2. e2 = e /\ f2 = f
    BY <1>2 DEF e2, f2
  <2> QED
    BY <2>1, <2>2
<1>5. At(L!Pool2(t), i)
        = {t.at[a + n1 * (2 * b + dx + (2 * e) * (2 * c + dy + (2 * f) * d))] : dx, dy \in 0 .. 1}
  <2> DEFINE m == L!Pool2(t).ne
             p == L!Position(i, m)
  <2>1. m = ne /\ p = <<a, b, c, d>>
    BY <1>1, <1>4
  <2>2. L!Pool2(t).at
          = [j \in 0 .. (L!Size(m) - 1) |->
               LET r == L!Position(j, m)
               IN  {t.at[r[1] + t.ne[1] * (2 * r[2] + dx + t.ne[2] * (2 * r[3] + dy + t.ne[3] * r[4]))]
                      : dx, dy \in 0 .. 1}]
    BY DEF L!Pool2
  <2> HIDE DEF m
  <2>3. At(L!Pool2(t), i)
          = {t.at[p[1] + t.ne[1] * (2 * p[2] + dx + t.ne[2] * (2 * p[3] + dy + t.ne[3] * p[4]))]
               : dx, dy \in 0 .. 1}
    BY <1>1, <2>1, <2>2 DEF At
  <2> HIDE DEF p
  <2> QED
    BY <1>3, <2>1, <2>3
<1>6. \A dx, dy \in 0 .. 1 :
         a + n1 * (2 * b + dx + (2 * e) * (2 * c + dy + (2 * f) * d))
           = Index(n1, 2 * e, 2 * f, a, 2 * b + dx, 2 * c + dy, d)
  BY DEF Index
<1>7. At(L!Pool2(t), i) = Quad(t, n1, e, f, a, b, c, d)
  BY <1>5, <1>6 DEF Quad, At
<1> QED
  BY <1>4, <1>7 DEF i

\* A map of twice the extents is cut into as many windows of twice the size.
LEMMA DoubleCuts ==
  ASSUME NEW e, NEW s, NEW nx, e \in Nat \ {0}, s \in Nat \ {0}, CutsInto(2 * e, 2 * s, nx)
  PROVE  CutsInto(e, s, nx)
<1> DEFINE w == 2 * e
           ws == 2 * s
           q == L!Ceil(e, s)
<1>1. nx \in Nat \ {0} /\ w <= nx * ws /\ nx * ws < w + ws
  <2>1. w \in Nat \ {0} /\ ws \in Nat \ {0} /\ CutsInto(w, ws, nx)
    OBVIOUS
  <2> HIDE DEF w, ws
  <2> QED
    BY <2>1, CutUp DEF CutsInto
<1>2. q \in Nat \ {0} /\ e <= q * s /\ q * s < e + s
  BY CutUp
<1> HIDE DEF q
<1>3. nx * ws = 2 * (nx * s) /\ nx * s \in Nat /\ q * s \in Nat
  BY <1>1, <1>2
<1>4. e <= nx * s /\ nx * s < e + s
  BY <1>1, <1>3
<1> DEFINE n1 == nx - 1
           q1 == q - 1
<1>5. n1 * s = nx * s - s /\ q1 * s = q * s - s /\ n1 \in Int /\ q1 \in Int
  BY <1>1, <1>2
<1>6. q1 < nx
  <2>1. ~(nx * s <= q1 * s)
    BY <1>2, <1>3, <1>4, <1>5
  <2> HIDE DEF q1, n1
  <2>2. ~(nx <= q1)
    BY <1>1, <1>5, <2>1, TimesMono
  <2> QED
    BY <1>1, <1>5, <2>2
<1>7. n1 < q
  <2>1. ~(q * s <= n1 * s)
    BY <1>2, <1>3, <1>4, <1>5
  <2> HIDE DEF q1, n1
  <2>2. ~(q <= n1)
    BY <1>2, <1>5, <2>1, TimesMono
  <2> QED
    BY <1>2, <1>5, <2>2
<1>8. q = nx
  BY <1>1, <1>2, <1>6, <1>7
<1> QED
  BY <1>8 DEF q, CutsInto

\* A map pooled as a whole,
PooledMap(n1, e, f) == L!Pool2(L!Map(n1, 2 * e, 2 * f))

\* and window by window.
PooledBack(n1, e, f, s, nx, ny) ==
    L!Unpartition(L!Pool2(L!Partition(L!Map(n1, 2 * e, 2 * f), 2 * s)), s,
                  AllWindows(nx, s), AllWindows(ny, s), e, f)

\* Pooled in its windows of twice the size, and put back from windows of half
\* of that.
LEMMA PooledWindows ==
  ASSUME NEW n1, NEW e, NEW f, NEW s, NEW nx, NEW ny, NEW a, NEW x, NEW y,
         n1 \in Nat \ {0}, e \in Nat \ {0}, f \in Nat \ {0}, s \in Nat \ {0},
         CutsInto(2 * e, 2 * s, nx), CutsInto(2 * f, 2 * s, ny),
         a \in 0 .. n1 - 1, x \in 0 .. e - 1, y \in 0 .. f - 1
  PROVE  At(PooledBack(n1, e, f, s, nx, ny), Spot(n1, e, f, a, x, y))
           = At(PooledMap(n1, e, f), Spot(n1, e, f, a, x, y))
<1> DEFINE w == 2 * e
           h == 2 * f
           ws == 2 * s
           k == AllWindows(nx, ny)
           map == L!Map(n1, w, h)
           cut == L!Partition(map, ws)
           pool == L!Pool2(cut)
<1>1. w \in Nat \ {0} /\ h \in Nat \ {0} /\ ws \in Nat \ {0} /\ CutsInto(w, ws, nx) /\ CutsInto(h, ws, ny)
  OBVIOUS
<1>2. CutsInto(e, s, nx) /\ CutsInto(f, s, ny)
  BY DoubleCuts
<1>3. nx \in Nat \ {0} /\ ny \in Nat \ {0}
  BY <1>2, WindowStarts
<1>4. PICK u, b : u \in 0 .. nx - 1 /\ b \in 0 .. s - 1 /\ x = Within(s, u, b)
  <2>1. InWindow(x, s, nx)
    BY <1>2, WindowOf
  <2> QED
    BY <2>1 DEF InWindow
<1>5. PICK v, c : v \in 0 .. ny - 1 /\ c \in 0 .. s - 1 /\ y = Within(s, v, c)
  <2>1. InWindow(y, s, ny)
    BY <1>2, WindowOf
  <2> QED
    BY <2>1 DEF InWindow
<1> DEFINE d == WindowNo(ny, v, u)
<1>6. k \in Nat /\ d \in 0 .. k - 1
  BY <1>3, <1>4, <1>5, PairIndex DEF WindowNo, AllWindows
<1>7. Even(cut, n1, s, s, k) /\ Even(map, n1, e, f, 1)
  <2>1. Shows(L!Partition(L!Map(n1, w, h), ws), n1, w, h, ws, AllWindows(nx, ny))
    <3> HIDE DEF w, h, ws, k, map, cut, pool
    <3> QED
      BY <1>1, PartitionShows
  <2>2. L!Partition(L!Map(n1, w, h), ws).ne = <<n1, ws, ws, AllWindows(nx, ny)>>
    <3> HIDE DEF w, h, ws, k, map, cut, pool
    <3> QED
      BY <1>1, <2>1, PartitionShows
  <2> HIDE DEF k
  <2>3. map.ne = <<n1, w, h, 1>>
    BY DEF L!Map
  <2> QED
    BY <2>2, <2>3 DEF Even, k
<1> HIDE DEF w, h, ws, k, d, map, cut, pool
<1>8. pool.ne = <<n1, s, s, k>> /\ At(pool, Index(n1, s, s, a, b, c, d)) = Quad(cut, n1, s, s, a, b, c, d)
  BY <1>4, <1>5, <1>6, <1>7, PoolAt DEF pool
<1>9. At(L!Unpartition(pool, s, AllWindows(nx, s), AllWindows(ny, s), e, f),
         Spot(n1, e, f, a, Within(s, u, b), Within(s, v, c)))
        = At(pool, Index(n1, s, s, a, b, c, WindowNo(ny, v, u)))
  <2>1. Channels(pool, n1)
    BY <1>8 DEF Channels
  <2>2. Within(s, u, b) < e /\ Within(s, v, c) < f
    BY <1>4, <1>5
  <2> QED
    BY <1>3, <1>4, <1>5, <2>1, <2>2, UnpartitionAt
<1>10. At(L!Pool2(map), Spot(n1, e, f, a, x, y)) = Quad(map, n1, e, f, a, x, y, 0)
  <2> DEFINE z == 0
             o == 1
  <2>1. z \in 0 .. o - 1 /\ o \in Nat /\ Even(map, n1, e, f, o)
    BY <1>7
  <2> HIDE DEF z, o
  <2>2. At(L!Pool2(map), Index(n1, e, f, a, x, y, z)) = Quad(map, n1, e, f, a, x, y, z)
    BY <2>1, PoolAt
  <2> QED
    BY <2>2 DEF z, Spot
<1>11. ASSUME NEW dx, NEW dy, dx \in 0 .. 1, dy \in 0 .. 1
       PROVE  At(cut, Index(n1, 2 * s, 2 * s, a, 2 * b + dx, 2 * c + dy, d))
                = At(map, Index(n1, 2 * e, 2 * f, a, 2 * x + dx, 2 * y + dy, 0))
  <2> DEFINE b2 == 2 * b + dx
             c2 == 2 * c + dy
             x2 == 2 * x + dx
             y2 == 2 * y + dy
  <2>1. b2 \in 0 .. ws - 1 /\ c2 \in 0 .. ws - 1
    BY <1>4, <1>5, <1>11 DEF ws
  <2>2. x2 \in 0 .. w - 1 /\ y2 \in 0 .. h - 1
    BY <1>11 DEF w, h
  <2>3. x2 = Within(ws, u, b2) /\ y2 = Within(ws, v, c2)
    BY <1>4, <1>5, <1>11 DEF Within, ws
  <2> HIDE DEF b2, c2, x2, y2
  <2>4. At(L!Partition(L!Map(n1, w, h), ws), Index(n1, ws, ws, a, b2, c2, WindowNo(ny, v, u)))
          = Padded(a, Within(ws, u, b2), Within(ws, v, c2), w, h)
    BY <1>1, <1>3, <1>4, <1>5, <2>1, PartitionAt
  <2>5. Padded(a, x2, y2, w, h) = <<a, x2, y2, 0>>
    BY <1>1, <2>2 DEF Padded
  <2>6. At(L!Map(n1, w, h), Spot(n1, w, h, a, x2, y2)) = <<a, x2, y2, 0>>
    BY <1>1, <2>2, MapAt
  <2>7. At(cut, Index(n1, ws, ws, a, b2, c2, d)) = At(map, Index(n1, w, h, a, x2, y2, 0))
    BY <2>3, <2>4, <2>5, <2>6 DEF Spot, cut, map, d
  <2> QED
    BY <2>7 DEF b2, c2, x2, y2, ws, w, h
<1>12. Quad(cut, n1, s, s, a, b, c, d) = Quad(map, n1, e, f, a, x, y, 0)
  BY <1>11 DEF Quad
<1> QED
  <2>1. At(L!Unpartition(pool, s, AllWindows(nx, s), AllWindows(ny, s), e, f), Spot(n1, e, f, a, x, y))
          = At(L!Pool2(map), Spot(n1, e, f, a, x, y))
    BY <1>4, <1>5, <1>8, <1>9, <1>10, <1>12 DEF d
  <2> QED
    BY <2>1 DEF pool, cut, map, w, h, ws, PooledBack, PooledMap

\* What sam2_window_unpartition and pooling make are tensors of their shape.
LEMMA UnpartitionIsTensor ==
  ASSUME NEW t, NEW n1, NEW w, NEW h, NEW ws, NEW w2, NEW h2, Channels(t, n1)
  PROVE  Tensor(L!Unpartition(t, ws, w2, h2, w, h), n1, w, h)
<1> DEFINE flat == L!Reshape(L!SwapMiddle(L!Reshape(L!Reshape(t, <<n1 * ws, ws, h2 \div ws, w2 \div ws>>),
                                                    <<n1 * ws, h2, w2 \div ws, 1>>)),
                             <<n1, w2, h2, 1>>)
           nb == <<n1, n1 * w2, n1 * w2 * h2>>
<1>1. L!Unpartition(t, ws, w2, h2, w, h) = L!Crop(flat, w, h)
  BY DEF L!Unpartition, Channels
<1>2. L!Crop(flat, w, h) = L!View(flat, <<n1, w, h, 1>>, nb)
  <2>1. flat.ne = <<n1, w2, h2, 1>>
    BY DEF L!Reshape
  <2> HIDE DEF flat
  <2> QED
    BY <2>1 DEF L!Crop
<1> HIDE DEF flat, nb
<1>3. Tensor(L!View(flat, <<n1, w, h, 1>>, nb), n1, w, h)
  BY ViewIsTensor
<1> QED
  BY <1>1, <1>2, <1>3

\* Pooling makes one of half the extents.
LEMMA PoolIsTensor ==
  ASSUME NEW t, NEW n1, NEW e, NEW f, Even(t, n1, e, f, 1), e \in Nat \ {0}, f \in Nat \ {0}
  PROVE  Tensor(L!Pool2(t), n1, e, f)
<1> DEFINE ne == <<n1, e, f, 1>>
           D == 0 .. (L!Size(ne) - 1)
           v == L!Pool2(t)
           g == [i \in D |-> v.at[i]]
<1>1. v.ne = ne
  <2>1. (2 * e) \div 2 = e /\ (2 * f) \div 2 = f
    BY Halves
  <2>2. t.ne = <<n1, 2 * e, 2 * f, 1>>
    BY DEF Even
  <2> DEFINE e2 == (2 * e) \div 2
             f2 == (2 * f) \div 2
  <2>3. L!Pool2(t).ne = <<n1, e2, f2, 1>>
    BY <2>2 DEF L!Pool2
  <2> HIDE DEF e2, f2
  <2>4. e2 = e /\ f2 = f
    BY <2>1 DEF e2, f2
  <2> QED
    BY <2>3, <2>4
<1>2. v.at = [i \in 0 .. (L!Size(v.ne) - 1) |-> v.at[i]] /\ v = [ne |-> v.ne, at |-> v.at]
  BY SMTT(30) DEF L!Pool2
<1> HIDE DEF v
<1>3. v = [ne |-> ne, at |-> g]
  BY <1>1, <1>2
<1> QED
  BY <1>3 DEF Tensor, v

\* Every feature map, cut into the windows of a Hiera block, is cut into squares,
\* and the windows put together are the map; pooled in its windows it is the map
\* pooled (sam2_window_partition, sam2_window_unpartition,
\* sam2_hiera_block_forward).
THEOREM HieraWindowsOfAllMaps ==
  \A n1, w, h, ws \in Nat \ {0} : L!HieraWindowsAreSquares(n1, w, h, ws)
<1> SUFFICES ASSUME NEW n1, NEW w, NEW h, NEW ws,
                    n1 \in Nat \ {0}, w \in Nat \ {0}, h \in Nat \ {0}, ws \in Nat \ {0}
             PROVE  L!HieraWindowsAreSquares(n1, w, h, ws)
  OBVIOUS
<1> DEFINE a == L!Map(n1, w, h)
           t == L!Partition(a, ws)
           nx == L!Ceil(w, ws)
           ny == L!Ceil(h, ws)
           k == AllWindows(nx, ny)
           back == L!Unpartition(t, ws, AllWindows(nx, ws), AllWindows(ny, ws), w, h)
<1>1. CutsInto(w, ws, nx) /\ CutsInto(h, ws, ny)
  BY DEF CutsInto
<1>2a. AllWindows(nx, ws) = L!Ceil(w, ws) * ws /\ AllWindows(ny, ws) = L!Ceil(h, ws) * ws
  BY DEF AllWindows
<1> HIDE DEF nx, ny
<1>2. nx \in Nat \ {0} /\ ny \in Nat \ {0}
  BY <1>1, WindowStarts
<1>3. t.ne = <<n1, ws, ws, k>> /\ DOMAIN t.at = 0 .. L!Size(t.ne) - 1 /\ Shows(t, n1, w, h, ws, k)
  <2>1. Shows(L!Partition(L!Map(n1, w, h), ws), n1, w, h, ws, AllWindows(nx, ny))
    BY <1>1, PartitionShows
  <2>2. L!Partition(L!Map(n1, w, h), ws).ne = <<n1, ws, ws, AllWindows(nx, ny)>>
    BY <1>1, <2>1, PartitionShows
  <2>3. DOMAIN (L!Partition(L!Map(n1, w, h), ws).at)
          = 0 .. L!Size(L!Partition(L!Map(n1, w, h), ws).ne) - 1
    BY <1>1, <2>1, PartitionShows
  <2> QED
    BY <2>1, <2>2, <2>3
<1>3a. Channels(t, n1)
  <2> HIDE DEF t, k
  <2> QED
    BY <1>3 DEF Channels
<1>4. L!IsSquares(t, ws)
  <2>1. k \in Nat
    BY <1>2 DEF AllWindows
  <2> HIDE DEF t, k
  <2> QED
    BY <1>3, <2>1, SquaresAreShown
<1>5. ASSUME NEW p, NEW x, NEW y, p \in 0 .. n1 - 1, x \in 0 .. w - 1, y \in 0 .. h - 1
      PROVE  At(back, Spot(n1, w, h, p, x, y)) = At(a, Spot(n1, w, h, p, x, y))
  <2>1. InWindow(x, ws, nx)
    BY <1>1, <1>5, WindowOf
  <2>2. InWindow(y, ws, ny)
    BY <1>1, <1>5, WindowOf
  <2>3. PICK u, b : u \in 0 .. nx - 1 /\ b \in 0 .. ws - 1 /\ x = Within(ws, u, b)
    BY <2>1 DEF InWindow
  <2>4. PICK v, c : v \in 0 .. ny - 1 /\ c \in 0 .. ws - 1 /\ y = Within(ws, v, c)
    BY <2>2 DEF InWindow
  <2>5. Within(ws, u, b) < w /\ Within(ws, v, c) < h
    BY <1>5, <2>3, <2>4
  <2> HIDE DEF k
  <2>6. At(back, Spot(n1, w, h, p, Within(ws, u, b), Within(ws, v, c)))
          = At(t, Index(n1, ws, ws, p, b, c, WindowNo(ny, v, u)))
    <3> HIDE DEF t
    <3> QED
      BY <1>2, <1>3a, <1>5, <2>3, <2>4, <2>5, UnpartitionAt
  <2>7. At(L!Partition(L!Map(n1, w, h), ws), Index(n1, ws, ws, p, b, c, WindowNo(ny, v, u)))
          = Padded(p, Within(ws, u, b), Within(ws, v, c), w, h)
    <3> HIDE DEF t, back, a
    <3> QED
      BY <1>1, <1>2, <1>5, <2>3, <2>4, PartitionAt
  <2>8. Padded(p, x, y, w, h) = <<p, x, y, 0>>
    BY <1>5 DEF Padded
  <2>9. At(L!Map(n1, w, h), Spot(n1, w, h, p, x, y)) = <<p, x, y, 0>>
    <3> HIDE DEF t, back, a
    <3> QED
      BY <1>5, MapAt
  <2> QED
    BY <2>3, <2>4, <2>6, <2>7, <2>8, <2>9
<1>6. back = a
  <2>1. Tensor(a, n1, w, h)
    BY MapIsTensor
  <2>2. Tensor(back, n1, w, h)
    <3> HIDE DEF t, k
    <3> QED
      BY <1>3a, UnpartitionIsTensor
  <2>3. Alike(back, a, n1, w, h)
    BY <1>5 DEF Alike
  <2> HIDE DEF back, a
  <2> QED
    BY <2>1, <2>2, <2>3, SameTensors
<1>7. ASSUME w % 2 = 0, h % 2 = 0, ws % 2 = 0
      PROVE  L!Unpartition(L!Pool2(t), ws \div 2, L!PooledExtent(w, ws), L!PooledExtent(h, ws),
                           w \div 2, h \div 2) = L!Pool2(a)
  <2> DEFINE e == w \div 2
             f == h \div 2
             s == ws \div 2
  <2>1. /\ e \in Nat \ {0} /\ f \in Nat \ {0} /\ s \in Nat \ {0}
        /\ w = 2 * e /\ h = 2 * f /\ ws = 2 * s
    <3> DEFINE n == 2
    <3>1. n \in Nat \ {0} /\ w % n = 0 /\ h % n = 0 /\ ws % n = 0
      BY <1>7
    <3>2. w \div n \in Nat \ {0} /\ w = (w \div n) * n
      <4> HIDE DEF n
      <4> QED
        BY <3>1, WholeMultiple
    <3>3. h \div n \in Nat \ {0} /\ h = (h \div n) * n
      <4> HIDE DEF n
      <4> QED
        BY <3>1, WholeMultiple
    <3>4. ws \div n \in Nat \ {0} /\ ws = (ws \div n) * n
      <4> HIDE DEF n
      <4> QED
        BY <3>1, WholeMultiple
    <3> QED
      BY <3>2, <3>3, <3>4
  <2>2. L!PooledExtent(w, ws) = L!Ceil(e, s) * s /\ L!PooledExtent(h, ws) = L!Ceil(f, s) * s
    BY DEF L!PooledExtent
  <2> HIDE DEF e, f, s
  <2>3. CutsInto(2 * e, 2 * s, nx) /\ CutsInto(2 * f, 2 * s, ny)
    BY <1>1, <2>1
  <2>4. L!PooledExtent(w, ws) = AllWindows(nx, s) /\ L!PooledExtent(h, ws) = AllWindows(ny, s)
    <3>1. CutsInto(e, s, nx) /\ CutsInto(f, s, ny)
      BY <2>1, <2>3, DoubleCuts
    <3> QED
      BY <2>2, <3>1 DEF CutsInto, AllWindows
  <2> DEFINE pa == L!Pool2(L!Map(n1, 2 * e, 2 * f))
             pt == L!Pool2(L!Partition(L!Map(n1, 2 * e, 2 * f), 2 * s))
             pb == L!Unpartition(pt, s, AllWindows(nx, s), AllWindows(ny, s), e, f)
  <2>5. pa = L!Pool2(a) /\ pt = L!Pool2(t)
    BY <2>1
  <2>6. Alike(pb, pa, n1, e, f)
    <3>1. ASSUME NEW p, NEW x, NEW y, p \in 0 .. n1 - 1, x \in 0 .. e - 1, y \in 0 .. f - 1
          PROVE  At(PooledBack(n1, e, f, s, nx, ny), Spot(n1, e, f, p, x, y))
                   = At(PooledMap(n1, e, f), Spot(n1, e, f, p, x, y))
      BY <2>1, <2>3, <3>1, PooledWindows
    <3> QED
      BY <3>1 DEF Alike, PooledBack, PooledMap
  <2>7. Tensor(pa, n1, e, f)
    <3>1. Even(L!Map(n1, 2 * e, 2 * f), n1, e, f, 1)
      BY DEF L!Map, Even
    <3> QED
      BY <2>1, <3>1, PoolIsTensor
  <2>8. Tensor(pb, n1, e, f)
    <3>1. Channels(pt, n1)
      <4>1. t.ne[1] = n1
        BY <1>3a DEF Channels
      <4>2. L!Pool2(t).ne[1] = t.ne[1]
        BY DEF L!Pool2
      <4> HIDE DEF pt, t
      <4> QED
        BY <2>5, <4>1, <4>2 DEF Channels
    <3> HIDE DEF pt
    <3> QED
      BY <3>1, UnpartitionIsTensor
  <2>9. pb = pa
    <3> HIDE DEF pa, pb, pt
    <3> QED
      BY <2>1, <2>6, <2>7, <2>8, SameTensors
  <2> QED
    BY <2>4, <2>5, <2>9 DEF e, f, s
<1> QED
  BY <1>2a, <1>4, <1>6, <1>7 DEF L!HieraWindowsAreSquares

-----------------------------------------------------------------------------
(***************************************************************************)
(* The runs' properties, for all sizes of the inputs.                      *)
(***************************************************************************)
WindowArguments ==
    (1 .. 2) \X (1 .. MaxExtent) \X (1 .. MaxExtent) \X (2 .. 4)
SizePairs == (1 .. 2 * MaxExtent) \X (1 .. 2 * MaxExtent)
ExtentArguments ==
    (1 .. 4 * MaxExtent) \X (1 .. 4 * MaxExtent) \X (1 .. 2 * MaxExtent) \X (2 .. 5)
BudgetArguments ==
    (1 .. 2 * MaxExtent) \X (1 .. 2 * MaxExtent) \X (1 .. 3) \X (1 .. MaxBudget)
PatchArguments == (1 .. 3) \X (1 .. 3) \X (1 .. 3)

\* The arguments a function has been given are its own.
Arguments ==
    /\ what = "none" => input = <<>>
    /\ Given("windows") => input \in WindowArguments
    /\ Given("samples") => input \in SizePairs
    /\ Given("filter") => input \in SizePairs
    /\ Given("patchify") => input \in PatchArguments
    /\ Given("extent") => input \in ExtentArguments
    /\ Given("budget") => input \in BudgetArguments

\* A function is given one of its arguments (Choose).
LEMMA ArgumentsAlways == Spec => []Arguments
<1>1. Init => Arguments
  BY DEF Init, Arguments, Given
<1>2. Arguments /\ [Next]_vars => Arguments'
  <2> SUFFICES ASSUME Arguments, [Next]_vars PROVE Arguments'
    OBVIOUS
  <2>1. CASE Pick
    BY <2>1 DEF Pick, Arguments, Given
  <2>2. CASE CutWindows
    BY <2>2 DEF CutWindows, Choose, Arguments, Given, WindowArguments
  <2>3. CASE Resample
    BY <2>3 DEF Resample, Choose, Arguments, Given, SizePairs
  <2>4. CASE Filter
    BY <2>4 DEF Filter, Choose, Arguments, Given, SizePairs
  <2>5. CASE Patchify
    BY <2>5 DEF Patchify, Choose, Arguments, Given, PatchArguments
  <2>6. CASE Extend
    BY <2>6 DEF Extend, Choose, Arguments, Given, ExtentArguments
  <2>7. CASE Budget
    BY <2>7 DEF Budget, Choose, Arguments, Given, BudgetArguments
  <2>8. ASSUME NEW name \in {"mask", "overlap", "nms", "boxes", "corners", "text", "bpe", "bytes",
                             "context", "prompt", "blur", "offset", "pieces"},
             what = name, what' = what
       PROVE  Arguments'
    BY <2>8 DEF Arguments, Given
  <2>9. CASE CleanMask
    BY <2>8, <2>9 DEF CleanMask, Choose
  <2>10. CASE ResolveMasks
    BY <2>8, <2>10 DEF ResolveMasks, Choose
  <2>11. CASE Suppress
    BY <2>8, <2>11 DEF Suppress, Choose
  <2>12. CASE CompareBoxes
    BY <2>8, <2>12 DEF CompareBoxes, Choose
  <2>13. CASE CornerBoxes
    BY <2>8, <2>13 DEF CornerBoxes, Choose
  <2>14. CASE Split
    BY <2>8, <2>14 DEF Split, Choose
  <2>15. CASE Encode
    BY <2>8, <2>15 DEF Encode, Choose
  <2>16. CASE TellBytes
    BY <2>8, <2>16 DEF TellBytes, Choose
  <2>17. CASE Frame
    BY <2>8, <2>17 DEF Frame, Choose
  <2>18. CASE Ask
    BY <2>8, <2>18 DEF Ask, Choose
  <2>19. CASE Blur
    BY <2>8, <2>19 DEF Blur, Choose
  <2>20. CASE Offset
    BY <2>8, <2>20 DEF Offset, Choose
  <2>21. CASE Pad
    BY <2>8, <2>21 DEF Pad, Choose
  <2>22. CASE UNCHANGED vars
    BY <2>22 DEF vars, Arguments, Given
  <2> QED
    BY <2>1, <2>2, <2>3, <2>4, <2>5, <2>6, <2>7, <2>9, <2>10, <2>11, <2>12, <2>13, <2>14, <2>15, <2>16, <2>17, <2>18, <2>19, <2>20, <2>21, <2>22 DEF Next
<1> QED
  BY <1>1, <1>2, PTL DEF Spec

\* Nothing is lost or moved between the layouts of a feature map, for maps,
\* images and lines of any size.
THEOREM LayoutsAgreeAlways == Spec => []LayoutsAgree
<1>1. Arguments => LayoutsAgree
  <2> SUFFICES ASSUME Arguments PROVE LayoutsAgree
    OBVIOUS
  <2>0. /\ \A n \in Nat : \A i \in 1 .. n : i \in Nat \ {0}
        /\ MaxExtent \in Nat /\ 2 * MaxExtent \in Nat
    BY SizeAssumption
  <2>1. WindowsComeBack
    <3> SUFFICES ASSUME Given("windows")
                 PROVE  /\ L!WindowsAreSquares(input[1], input[2], input[3], input[4])
                        /\ L!HieraWindowsAreSquares(input[1], input[2], input[3], input[4])
                        /\ L!CpuWindowsAreSquares(input[2], input[3], input[4])
                        /\ L!PlanesAreChannels(input[2])
      BY DEF WindowsComeBack
    <3> DEFINE a == input[1]
               b == input[2]
               c == input[3]
               d == input[4]
    <3>1. a \in Nat \ {0} /\ b \in Nat \ {0} /\ c \in Nat \ {0} /\ d \in Nat \ {0}
      BY <2>0 DEF Arguments, WindowArguments
    <3> HIDE DEF a, b, c, d
    <3>2. /\ L!WindowsAreSquares(a, b, c, d) /\ L!HieraWindowsAreSquares(a, b, c, d)
          /\ L!CpuWindowsAreSquares(b, c, d) /\ L!PlanesAreChannels(b)
      BY <3>1, WindowsOfAllMaps, HieraWindowsOfAllMaps, CpuWindowsComeBack, PlanesOfAllSizes
    <3> QED
      BY <3>2 DEF a, b, c, d
  <2>2. SamplesAgree
    <3> SUFFICES ASSUME Given("samples") PROVE L!SamplersAgree(input[1], input[2])
      BY DEF SamplesAgree
    <3> DEFINE a == input[1]
               b == input[2]
    <3>1. a \in Nat \ {0} /\ b \in Nat \ {0}
      BY <2>0 DEF Arguments, SizePairs
    <3> HIDE DEF a, b
    <3>2. L!SamplersAgree(a, b)
      BY <3>1, SamplersAlwaysAgree
    <3> QED
      BY <3>2 DEF a, b
  <2>3. Given("filter") => S!FilterIsFair(input[1], input[2])
    <3> SUFFICES ASSUME Given("filter") PROVE S!FilterIsFair(input[1], input[2])
      OBVIOUS
    <3> DEFINE a == input[1]
               b == input[2]
    <3>1. a \in Nat \ {0} /\ b \in Nat \ {0}
      BY <2>0 DEF Arguments, SizePairs
    <3> HIDE DEF a, b
    <3>2. S!FilterIsFair(a, b)
      BY <3>1, FilterIsAlwaysFair
    <3> QED
      BY <3>2 DEF a, b
  <2>4. Given("patchify") => S!PatchesAreSquares(input[1], input[2], input[3])
    <3> SUFFICES ASSUME Given("patchify") PROVE S!PatchesAreSquares(input[1], input[2], input[3])
      OBVIOUS
    <3> DEFINE a == input[1]
               b == input[2]
               c == input[3]
    <3>1. a \in Nat \ {0} /\ b \in Nat \ {0} /\ c \in Nat \ {0}
      BY <2>0 DEF Arguments, PatchArguments
    <3> HIDE DEF a, b, c
    <3>2. S!PatchesAreSquares(a, b, c)
      BY <3>1, PatchesOfAllImages
    <3> QED
      BY <3>2 DEF a, b, c
  <2> QED
    BY <2>1, <2>2, <2>3, <2>4 DEF LayoutsAgree, PatchesComeEvenly
<1> QED
  BY <1>1, ArgumentsAlways, PTL

\* Every network, and siglip2, gets whole patches: as many as the image needs or
\* the budget allows, in its shape, for images of any size.
THEOREM ExtentsAlwaysKeepTheImage == Spec => []ExtentsKeepTheImage
<1>1. Arguments => ExtentsKeepTheImage
  <2> SUFFICES ASSUME Arguments PROVE ExtentsKeepTheImage
    OBVIOUS
  <2>0. /\ \A n \in Nat : \A i \in 1 .. n : i \in Nat \ {0}
        /\ MaxExtent \in Nat /\ 2 * MaxExtent \in Nat /\ 4 * MaxExtent \in Nat
        /\ MaxBudget \in Nat /\ ScaleUnit \in Nat \ {0} /\ 2 * MaxExtent <= ScaleUnit
    BY SizeAssumption
  <2>1. ExtentsCover
    <3> SUFFICES ASSUME Given("extent")
                 PROVE  LET extent == <<input[1], input[2]>>
                        IN  /\ X!BirefnetCovers(extent, input[4],
                                                input[3] * MaxExtent * X!PixelBytes)
                            /\ X!DepthanyKeepsDetail(extent, input[3], input[4])
                            /\ X!Depthany3KeepsShape(extent, input[3], input[4])
      BY DEF ExtentsCover
    <3> DEFINE a == input[1]
               b == input[2]
               c == input[3]
               d == input[4]
    <3>1. a \in Nat \ {0} /\ b \in Nat \ {0} /\ c \in Nat /\ d \in Nat \ {0}
      BY <2>0 DEF Arguments, ExtentArguments
    <3> HIDE DEF a, b, c, d
    <3>2. X!DepthanyKeepsDetail(<<a, b>>, c, d) /\ X!Depthany3KeepsShape(<<a, b>>, c, d)
      BY <3>1, DepthanyKeepsAll, Depthany3KeepsAll
    <3>3. X!BirefnetCovers(<<a, b>>, d, c * MaxExtent * X!PixelBytes)
      <4>1. c * MaxExtent * X!PixelBytes \in Nat
        BY <2>0, <3>1 DEF X!PixelBytes
      <4> QED
        BY <3>1, <4>1, BirefnetCoversAll
    <3> QED
      BY <3>2, <3>3 DEF a, b, c, d
  <2>2. BudgetsAreUsed
    <3> SUFFICES ASSUME Given("budget")
                 PROVE  S!BudgetIsUsed(Scales, input[1], input[2], input[3], input[4], Rounds)
      BY DEF BudgetsAreUsed
    <3> DEFINE h == input[1]
               w == input[2]
               patch == input[3]
               budget == input[4]
               b == Scales
               r == Rounds
    <3>1. /\ h \in Nat \ {0} /\ w \in Nat \ {0} /\ patch \in Nat \ {0} /\ budget \in Nat \ {0}
          /\ h <= 2 * MaxExtent /\ w <= 2 * MaxExtent
      BY <2>0 DEF Arguments, BudgetArguments
    <3>2. /\ b \in GoodScales /\ b.low = 1 /\ b.unit = ScaleUnit /\ b.high = 5 * ScaleUnit
          /\ r = 5 * ScaleUnit /\ r \in Nat
      BY <2>0 DEF GoodScales, Scales, Rounds
    <3> HIDE DEF h, w, patch, budget, b, r
    <3>3. ScaleUnit <= ScaleUnit * patch
      <4>1. 1 * ScaleUnit <= patch * ScaleUnit
        <5> DEFINE o == 1
        <5>1. o \in Int /\ o <= patch /\ patch \in Int
          BY <3>1
        <5> HIDE DEF o
        <5>2. o * ScaleUnit <= patch * ScaleUnit
          BY <2>0, <5>1, TimesMono
        <5> QED
          BY <5>2 DEF o
      <4> QED
        BY <2>0, <3>1, <4>1
    <3>4. h * b.low <= b.unit * patch /\ w * b.low <= b.unit * patch /\ b.high - b.low <= r
      BY <2>0, <3>1, <3>2, <3>3
    <3>5. S!BudgetIsUsed(b, h, w, patch, budget, r)
      BY <3>1, <3>2, <3>4, BudgetIsUsedAlways
    <3> QED
      BY <3>5 DEF b, h, w, patch, budget, r
  <2> QED
    BY <2>1, <2>2 DEF ExtentsKeepTheImage
<1> QED
  BY <1>1, ArgumentsAlways, PTL

-----------------------------------------------------------------------------
(* Masks, boxes and prompts. *)

-----------------------------------------------------------------------------
(***************************************************************************)
(* Prompts and boxes.                                                      *)
(***************************************************************************)

\* Every prompt fills the tensor of its tokens, the box first and the padding
\* last (sam3_collect_pvs_prompt_tokens, sam3_build_sam_pe).
THEOREM PromptsFillTheirTensors ==
  \A use_box \in BOOLEAN, n_pos, n_neg \in Nat : M!PromptFillsItsTensor(use_box, n_pos, n_neg)
<1> SUFFICES ASSUME NEW use_box \in BOOLEAN, NEW n_pos \in Nat, NEW n_neg \in Nat
             PROVE  M!PromptFillsItsTensor(use_box, n_pos, n_neg)
  OBVIOUS
<1> DEFINE box == IF use_box THEN <<2, 3>> ELSE <<>>
           pos == [i \in 1 .. n_pos |-> 1]
           neg == [i \in 1 .. n_neg |-> 0]
           labels == box \o pos \o neg \o <<-1>>
           b == IF use_box THEN 2 ELSE 0
<1>1. /\ box \in Seq(Int) /\ Len(box) = b /\ b \in Nat
      /\ pos \in Seq(Int) /\ Len(pos) = n_pos /\ neg \in Seq(Int) /\ Len(neg) = n_neg
  OBVIOUS
<1>2. /\ \A i \in 1 .. n_pos : pos[i] = 1
      /\ \A i \in 1 .. n_neg : neg[i] = 0
      /\ b = 2 => use_box
      /\ b \in {0, 2}
  OBVIOUS
<1> HIDE DEF box, pos, neg, b
<1>3. /\ box \o pos \in Seq(Int) /\ Len(box \o pos) = b + n_pos
      /\ \A i \in 1 .. (b + n_pos) : (box \o pos)[i] = IF i <= b THEN box[i] ELSE pos[i - b]
  BY <1>1, ConcatProperties
<1> DEFINE first == box \o pos
           m == b + n_pos
<1>13. first \in Seq(Int) /\ Len(first) = m /\ m \in Nat
  BY <1>1, <1>3
<1> HIDE DEF first, m
<1>14. /\ first \o neg \in Seq(Int) /\ Len(first \o neg) = m + n_neg
       /\ \A i \in 1 .. (m + n_neg) :
            (first \o neg)[i] = IF i <= m THEN first[i] ELSE neg[i - m]
  BY <1>1, <1>13, ConcatProperties
<1>4. /\ first \o neg \in Seq(Int) /\ Len(first \o neg) = b + n_pos + n_neg
      /\ \A i \in 1 .. (b + n_pos + n_neg) :
           (first \o neg)[i] = IF i <= b + n_pos THEN first[i] ELSE neg[i - (b + n_pos)]
  BY <1>14 DEF m
<1> DEFINE second == first \o neg
<1> HIDE DEF second
<1>5. /\ Len(second \o <<-1>>) = b + n_pos + n_neg + 1
      /\ DOMAIN (second \o <<-1>>) = 1 .. (b + n_pos + n_neg + 1)
      /\ \A i \in 1 .. (b + n_pos + n_neg + 1) :
           (second \o <<-1>>)[i] = IF i <= b + n_pos + n_neg THEN second[i] ELSE -1
  BY <1>1, <1>4 DEF second
<1>6. labels = second \o <<-1>>
  BY DEF first, second
<1> HIDE DEF labels
<1>7. /\ Len(labels) = b + n_pos + n_neg + 1
      /\ DOMAIN labels = 1 .. (b + n_pos + n_neg + 1)
      /\ labels[b + n_pos + n_neg + 1] = -1
  BY <1>1, <1>5, <1>6
<1>8. ASSUME NEW i \in DOMAIN labels, labels[i] \in {2, 3}
      PROVE  i <= b
  <2>1. i \in 1 .. (b + n_pos + n_neg + 1)
    BY <1>7
  <2>2. labels[i] = IF i <= b + n_pos + n_neg THEN second[i] ELSE -1
    BY <1>5, <1>6, <2>1
  <2>3. i <= b + n_pos + n_neg
    BY <1>8, <2>2
  <2>4. second[i] = IF i <= b + n_pos THEN first[i] ELSE neg[i - (b + n_pos)]
    BY <1>1, <1>4, <2>1, <2>3 DEF second
  <2>5. CASE i > b + n_pos
    <3>1. i - (b + n_pos) \in 1 .. n_neg
      BY <1>1, <2>1, <2>3, <2>5
    <3>2. neg[i - (b + n_pos)] = 0
      BY <1>2, <3>1
    <3> QED
      BY <1>1, <1>8, <2>1, <2>2, <2>3, <2>4, <2>5, <3>2
  <2>6. CASE i <= b + n_pos /\ i > b
    <3>1. i - b \in 1 .. n_pos
      BY <1>1, <2>1, <2>6
    <3>2. first[i] = pos[i - b]
      BY <1>1, <1>3, <2>1, <2>6 DEF first
    <3>3. pos[i - b] = 1
      BY <1>2, <3>1
    <3> QED
      BY <1>8, <2>2, <2>3, <2>4, <2>6, <3>2, <3>3
  <2> QED
    BY <1>1, <2>1, <2>5, <2>6
<1>9. M!PromptLabels(use_box, n_pos, n_neg) = labels
  BY DEF M!PromptLabels, labels, box, pos, neg
<1>10. M!TokenCount(use_box, n_pos, n_neg) = b + n_pos + n_neg + 1
  <2>1. M!TokenCount(use_box, n_pos, n_neg) = n_pos + n_neg + 1 + b
    BY DEF M!TokenCount, b
  <2> QED
    BY <1>1, <2>1
<1>11. \A i \in DOMAIN labels : labels[i] \in {2, 3} => use_box /\ i <= 2
  <2> SUFFICES ASSUME NEW i \in DOMAIN labels, labels[i] \in {2, 3} PROVE use_box /\ i <= 2
    OBVIOUS
  <2>1. i <= b /\ i \in Int /\ 1 <= i
    BY <1>1, <1>7, <1>8
  <2> QED
    BY <1>2, <2>1
<1> QED
  BY <1>7, <1>9, <1>10, <1>11 DEF M!PromptFillsItsTensor

\* A box that the network gives by its centre and its extents lies in the image
\* and is not inside out (sam3_cxcywh_to_xyxy).
THEOREM BoxesInImages ==
  \A x, y \in Int, bw, bh, img_w, img_h, unit \in Nat :
      M!BoxInImage(<<x, y, bw, bh>>, img_w, img_h, unit)
<1>1. ASSUME NEW c \in Int, NEW d \in Nat, NEW n \in Nat, NEW unit \in Nat
      PROVE  /\ 0 <= M!Clamp((2 * c - d) * n, 2 * unit * n)
             /\ M!Clamp((2 * c - d) * n, 2 * unit * n) <= M!Clamp((2 * c + d) * n, 2 * unit * n)
             /\ M!Clamp((2 * c + d) * n, 2 * unit * n) <= 2 * unit * n
  <2> DEFINE u == (2 * c - d) * n
             v == (2 * c + d) * n
             m == 2 * unit * n
  <2>1. u <= v
    <3> DEFINE a == 2 * c - d
               b == 2 * c + d
    <3>1. a \in Int /\ b \in Int /\ a <= b
      OBVIOUS
    <3> HIDE DEF a, b
    <3>2. a * n <= b * n
      BY <3>1, TimesMono
    <3> QED
      BY <3>2 DEF a, b
  <2>2. u \in Int /\ v \in Int /\ m \in Nat
    <3>1. 2 * unit \in Nat
      OBVIOUS
    <3>2. (2 * unit) * n \in Nat
      BY <3>1, TimesNat
    <3> QED
      BY <3>2
  <2> HIDE DEF u, v, m
  <2>3. /\ 0 <= M!Clamp(u, m) /\ M!Clamp(u, m) <= M!Clamp(v, m) /\ M!Clamp(v, m) <= m
    BY <2>1, <2>2 DEF M!Clamp, M!MaxOf2, M!MinOf2
  <2> QED
    BY <2>3 DEF u, v, m
<1> SUFFICES ASSUME NEW x \in Int, NEW y \in Int, NEW bw \in Nat, NEW bh \in Nat,
                    NEW img_w \in Nat, NEW img_h \in Nat, NEW unit \in Nat
             PROVE  M!BoxInImage(<<x, y, bw, bh>>, img_w, img_h, unit)
  OBVIOUS
<1> DEFINE lo(c, d, n) == M!Clamp((2 * c - d) * n, 2 * unit * n)
           hi(c, d, n) == M!Clamp((2 * c + d) * n, 2 * unit * n)
<1>2. /\ 0 <= lo(x, bw, img_w) /\ lo(x, bw, img_w) <= hi(x, bw, img_w)
      /\ hi(x, bw, img_w) <= 2 * unit * img_w
  BY <1>1
<1>3. /\ 0 <= lo(y, bh, img_h) /\ lo(y, bh, img_h) <= hi(y, bh, img_h)
      /\ hi(y, bh, img_h) <= 2 * unit * img_h
  BY <1>1
<1>4. M!ToCorners(<<x, y, bw, bh>>, img_w, img_h, unit)
        = <<lo(x, bw, img_w), lo(y, bh, img_h), hi(x, bw, img_w), hi(y, bh, img_h)>>
  BY DEF M!ToCorners
<1> HIDE DEF lo, hi
<1>5. LET c == M!ToCorners(<<x, y, bw, bh>>, img_w, img_h, unit)
      IN  /\ 0 <= c[1] /\ c[1] <= c[3] /\ c[3] <= 2 * unit * img_w
          /\ 0 <= c[2] /\ c[2] <= c[4] /\ c[4] <= 2 * unit * img_h
  BY <1>2, <1>3, <1>4
<1> QED
  BY <1>5 DEF M!BoxInImage

-----------------------------------------------------------------------------
(***************************************************************************)
(* Several masks.                                                          *)
(***************************************************************************)

\* Sorted detections with overlapping masks are resolved so that each claimed
\* pixel is left to one of them, which claimed it with the best score
\* (sam3_resolve_overlaps).
THEOREM OverlapsAreResolved ==
  \A P : \A dets \in Seq([score : Int, mask : SUBSET P]) :
      M!Sorted(dets) => M!OnePixelOneObject(dets)
<1> SUFFICES ASSUME NEW P, NEW dets \in Seq([score : Int, mask : SUBSET P]), M!Sorted(dets)
             PROVE  M!OnePixelOneObject(dets)
  OBVIOUS
<1> DEFINE r == M!ResolveOverlaps(dets)
<1>1. \A i \in DOMAIN dets : dets[i] \in [score : Int, mask : SUBSET P]
  <2> DEFINE D == [score : Int, mask : SUBSET P]
  <2>1. dets \in Seq(D)
    OBVIOUS
  <2> HIDE DEF D
  <2>2. \A i \in DOMAIN dets : dets[i] \in D
    BY <2>1
  <2> QED
    BY <2>2 DEF D
<1>2. DOMAIN dets = 1 .. Len(dets) /\ Len(dets) \in Nat
  OBVIOUS
<1>3. \A i \in DOMAIN dets : r[i].mask = dets[i].mask \ M!Claimed(dets, i)
  BY <1>1 DEF M!ResolveOverlaps
<1> HIDE DEF r
<1>4. ASSUME NEW i \in DOMAIN dets, NEW p \in dets[i].mask
      PROVE  \E j \in DOMAIN dets :
                /\ p \in r[j].mask /\ p \in dets[j].mask
                /\ dets[j].score >= dets[i].score
                /\ \A k \in DOMAIN dets \ {j} : p \notin r[k].mask
  <2> DEFINE Z == {k \in DOMAIN dets : p \in dets[k].mask}
  <2>1. Z \in SUBSET Nat /\ Z # {}
    BY <1>2, <1>4
  <2>2. PICK j \in Z : \A k \in Z : j <= k
    <3> HIDE DEF Z
    <3> QED
      BY <2>1, LeastNat
  <2>3. j \in DOMAIN dets /\ p \in dets[j].mask /\ j <= i
    BY <2>2
  <2>4. p \notin M!Claimed(dets, j)
    <3> SUFFICES ASSUME NEW k \in 1 .. (j - 1), p \in dets[k].mask PROVE FALSE
      BY DEF M!Claimed
    <3>1. k \in Z /\ k < j
      BY <1>2, <2>3
    <3>2. j <= k
      BY <2>2, <3>1
    <3> QED
      BY <1>2, <2>3, <3>1, <3>2
  <2>5. p \in r[j].mask
    BY <1>3, <2>3, <2>4
  <2>6. dets[j].score >= dets[i].score
    <3>1. CASE j = i
      BY <1>1, <3>1
    <3>2. CASE j < i
      BY <2>3, <3>2 DEF M!Sorted
    <3> QED
      BY <1>2, <2>3, <3>1, <3>2
  <2>7. ASSUME NEW k \in DOMAIN dets \ {j}, p \in r[k].mask PROVE FALSE
    <3>1. p \in dets[k].mask /\ p \notin M!Claimed(dets, k)
      BY <1>3, <2>7
    <3>2. j <= k /\ j # k
      BY <2>2, <2>7, <3>1
    <3>3. j \in 1 .. (k - 1)
      BY <1>2, <2>3, <3>2
    <3>4. p \in M!Claimed(dets, k)
      BY <2>3, <3>3 DEF M!Claimed
    <3> QED
      BY <3>1, <3>4
  <2> QED
    BY <2>3, <2>5, <2>6, <2>7
<1> QED
  BY <1>4 DEF M!OnePixelOneObject, r

\* A box that is the least around the pixels of s, or the one the loop begins with.
Fits(b, s, w, h) ==
    IF s = {} THEN b = <<w, h, 0, 0>>
    ELSE /\ \A p \in s : b[1] <= p[1] /\ p[1] <= b[3] /\ b[2] <= p[2] /\ p[2] <= b[4]
         /\ \E p, q \in s : p[1] = b[1] /\ q[1] = b[3]
         /\ \E p, q \in s : p[2] = b[2] /\ q[2] = b[4]

\* The box, grown to contain p.
Grow(p, b) == <<M!MinOf2(b[1], p[1]), M!MinOf2(b[2], p[2]),
                M!MaxOf2(b[3], p[1]), M!MaxOf2(b[4], p[2])>>

\* Boxes with corners of whole numbers.
Corners == Int \X Int \X Int \X Int

\* One pixel more.
LEMMA GrowFits ==
  ASSUME NEW w \in Nat, NEW h \in Nat, NEW s \in SUBSET M!Pixels(w, h), NEW p \in s,
         NEW b \in Corners, Fits(b, s \ {p}, w, h)
  PROVE  Grow(p, b) \in Corners /\ Fits(Grow(p, b), s, w, h)
<1> DEFINE c == Grow(p, b)
           r == s \ {p}
<1>1. \A q \in s : q[1] \in 0 .. w - 1 /\ q[2] \in 0 .. h - 1
  BY DEF M!Pixels
<1>2. b[1] \in Int /\ b[2] \in Int /\ b[3] \in Int /\ b[4] \in Int /\ p[1] \in Int /\ p[2] \in Int
  BY <1>1 DEF Corners
<1>3. /\ c[1] = IF b[1] <= p[1] THEN b[1] ELSE p[1]
      /\ c[2] = IF b[2] <= p[2] THEN b[2] ELSE p[2]
      /\ c[3] = IF b[3] >= p[1] THEN b[3] ELSE p[1]
      /\ c[4] = IF b[4] >= p[2] THEN b[4] ELSE p[2]
  BY DEF Grow, M!MinOf2, M!MaxOf2
<1>4. c \in Corners
  BY <1>2 DEF Grow, M!MinOf2, M!MaxOf2, Corners
<1> HIDE DEF c
<1>5. CASE r = {}
  <2>1. b = <<w, h, 0, 0>>
    BY <1>5 DEF Fits
  <2>2. b[1] = w /\ b[2] = h /\ b[3] = 0 /\ b[4] = 0
    BY <2>1
  <2>3. c[1] = p[1] /\ c[2] = p[2] /\ c[3] = p[1] /\ c[4] = p[2]
    BY <1>1, <1>3, <2>2
  <2>4. \A q \in s : q = p
    BY <1>5
  <2> QED
    BY <1>2, <1>4, <2>3, <2>4 DEF Fits, c
<1>6. CASE r # {}
  <2>1. /\ \A q \in r : b[1] <= q[1] /\ q[1] <= b[3] /\ b[2] <= q[2] /\ q[2] <= b[4]
        /\ \E q, x \in r : q[1] = b[1] /\ x[1] = b[3]
        /\ \E q, x \in r : q[2] = b[2] /\ x[2] = b[4]
    BY <1>6 DEF Fits
  <2>2. \A q \in s : q \in r \/ q = p
    OBVIOUS
  <2>3. \A q \in s : c[1] <= q[1] /\ q[1] <= c[3] /\ c[2] <= q[2] /\ q[2] <= c[4]
    <3> SUFFICES ASSUME NEW q \in s
                 PROVE  c[1] <= q[1] /\ q[1] <= c[3] /\ c[2] <= q[2] /\ q[2] <= c[4]
      OBVIOUS
    <3>1. q[1] \in Int /\ q[2] \in Int
      BY <1>1
    <3>2. c[1] <= b[1] /\ c[1] <= p[1] /\ c[2] <= b[2] /\ c[2] <= p[2]
          /\ b[3] <= c[3] /\ p[1] <= c[3] /\ b[4] <= c[4] /\ p[2] <= c[4]
      BY <1>2, <1>3
    <3>3. c[1] \in Int /\ c[2] \in Int /\ c[3] \in Int /\ c[4] \in Int
      BY <1>2, <1>3
    <3>4. CASE q = p
      BY <3>2, <3>4
    <3>5. CASE q \in r
      BY <1>2, <2>1, <3>1, <3>2, <3>3, <3>5
    <3> QED
      BY <2>2, <3>4, <3>5
  <2>4. \E q \in s : q[1] = c[1]
    BY <1>3, <2>1
  <2>5. \E q \in s : q[1] = c[3]
    BY <1>3, <2>1
  <2>6. \E q \in s : q[2] = c[2]
    BY <1>3, <2>1
  <2>7. \E q \in s : q[2] = c[4]
    BY <1>3, <2>1
  <2> QED
    BY <1>4, <2>3, <2>4, <2>5, <2>6, <2>7 DEF Fits, c
<1> QED
  BY <1>5, <1>6

\* The box sam3_segment_pvs reports for a mask of any image holds it and touches
\* it on four sides.
THEOREM BoxesFitTheirMasks ==
  \A w, h \in Nat : \A mask \in SUBSET M!Pixels(w, h) : M!BoxFits(mask, w, h)
<1> SUFFICES ASSUME NEW w \in Nat, NEW h \in Nat, NEW mask \in SUBSET M!Pixels(w, h), mask # {}
             PROVE  LET b == M!MaskBox(mask, w, h)
                    IN  /\ \A p \in mask : b[1] <= p[1] /\ p[1] <= b[3]
                                             /\ b[2] <= p[2] /\ p[2] <= b[4]
                        /\ \E p, q \in mask : p[1] = b[1] /\ q[1] = b[3]
                        /\ \E p, q \in mask : p[2] = b[2] /\ q[2] = b[4]
  BY DEF M!BoxFits
<1> DEFINE base == <<w, h, 0, 0>>
           V == Corners
           pick == [s \in SUBSET mask |-> Some(s)]
           step == [p \in mask |-> [b \in V |-> Grow(p, b)]]
           Body(g) == [s \in SUBSET mask |->
                         IF s = {} THEN base ELSE Grow(Some(s), g[s \ {Some(s)}])]
           g0 == CHOOSE g : g = Body(g)
<1>1. IsFiniteSet(mask)
  <2>1. IsFiniteSet(0 .. w - 1) /\ IsFiniteSet(0 .. h - 1)
    BY FS_Interval
  <2>2. IsFiniteSet((0 .. w - 1) \X (0 .. h - 1))
    BY <2>1, FS_Product
  <2> QED
    BY <2>2, FS_Subset DEF M!Pixels
<1>2. \A s \in SUBSET mask : s # {} => Some(s) \in s /\ pick[s] = Some(s)
  BY DEF Some
<1>3. base \in V
  BY DEF Corners
<1>4. \A p \in mask, b \in V : Grow(p, b) \in V
  BY DEF Grow, Corners, M!MinOf2, M!MaxOf2, M!Pixels
<1>5. \A p \in mask, b \in V : step[p][b] = Grow(p, b)
  OBVIOUS
<1>6. step \in [mask -> [V -> V]]
  BY <1>4
<1> HIDE DEF pick, step, V, base
<1>7. Picks(pick, mask)
  BY <1>2 DEF Picks
<1>8. PICK f \in [SUBSET mask -> V] : Folding(f, mask, base, step, pick)
  BY <1>1, <1>3, <1>6, <1>7, FoldingExists
<1>9. \A s \in SUBSET mask : f[s] = IF s = {} THEN base ELSE Grow(Some(s), f[s \ {Some(s)}])
  <2> SUFFICES ASSUME NEW s \in SUBSET mask, s # {}
               PROVE  f[s] = Grow(Some(s), f[s \ {Some(s)}])
    BY <1>8 DEF Folding
  <2>1. f[s] = step[pick[s]][f[s \ {pick[s]}]]
    BY <1>8 DEF Folding
  <2>2. Some(s) \in mask /\ f[s \ {Some(s)}] \in V /\ pick[s] = Some(s)
    BY <1>2
  <2> QED
    BY <1>5, <2>1, <2>2
<1>10. f = Body(f)
  BY <1>9
<1>11. g0 = Body(g0)
  <2> HIDE DEF Body
  <2> QED
    BY <1>10
<1>12. M!MaskBox(mask, w, h) = g0[mask]
  BY DEF M!MaskBox, M!FoldSet, M!MapThenFoldSet, Some, Grow, M!Bounds, base
<1> HIDE DEF g0
<1>13. \A s \in SUBSET mask : g0[s] = IF s = {} THEN base ELSE Grow(Some(s), g0[s \ {Some(s)}])
  BY <1>11
<1> HIDE DEF Body
<1> DEFINE Z == {s \in SUBSET mask : ~(g0[s] \in V /\ Fits(g0[s], s, w, h))}
<1>14. Z = {}
  <2> SUFFICES ASSUME Z # {} PROVE FALSE
    OBVIOUS
  <2>1. PICK s \in Z : \A x \in s : s \ {x} \notin Z
    <3>1. Z \in SUBSET (SUBSET mask)
      OBVIOUS
    <3> HIDE DEF Z
    <3> QED
      BY <1>1, <3>1, SmallestSet
  <2>2. s \in SUBSET mask /\ ~(g0[s] \in V /\ Fits(g0[s], s, w, h))
    BY <2>1
  <2>3. s # {}
    BY <1>3, <1>13, <2>2 DEF Fits, base
  <2>4. Some(s) \in s
    BY <1>2, <2>2, <2>3
  <2>5. g0[s \ {Some(s)}] \in V /\ Fits(g0[s \ {Some(s)}], s \ {Some(s)}, w, h)
    BY <2>1, <2>2, <2>4
  <2>6. Grow(Some(s), g0[s \ {Some(s)}]) \in Corners
        /\ Fits(Grow(Some(s), g0[s \ {Some(s)}]), s, w, h)
    BY <2>2, <2>4, <2>5, GrowFits DEF V
  <2>7. g0[s] = Grow(Some(s), g0[s \ {Some(s)}])
    BY <1>13, <2>2, <2>3
  <2> HIDE DEF Z
  <2> QED
    BY <2>2, <2>6, <2>7 DEF V
<1>15. Fits(g0[mask], mask, w, h)
  BY <1>14
<1> QED
  BY <1>12, <1>15 DEF Fits

\* The instance's cardinality is the standard one.
LEMMA CountIs == \A U : M!Cardinality(U) = Cardinality(U)
  BY DEF M!Cardinality, Cardinality

\* The pixels of a box.
Rect(x0, y0, x1, y1) == (x0 .. x1 - 1) \X (y0 .. y1 - 1)

\* The extent of a range, and
Extent(a, b) == M!MaxOf2(0, b - a)

\* the area of a box.
RectArea(x0, y0, x1, y1) == Extent(x0, x1) * Extent(y0, y1)

\* The box has as many pixels as its area.
LEMMA RectSize ==
  ASSUME NEW x0 \in Int, NEW y0 \in Int, NEW x1 \in Int, NEW y1 \in Int
  PROVE  /\ IsFiniteSet(Rect(x0, y0, x1, y1))
         /\ Cardinality(Rect(x0, y0, x1, y1)) = RectArea(x0, y0, x1, y1)
<1>1. \A a, b \in Int : IsFiniteSet(a .. b - 1) /\ Cardinality(a .. b - 1) = Extent(a, b)
  <2> SUFFICES ASSUME NEW a \in Int, NEW b \in Int
               PROVE  IsFiniteSet(a .. b - 1) /\ Cardinality(a .. b - 1) = Extent(a, b)
    OBVIOUS
  <2> DEFINE c == b - 1
  <2>1. c \in Int /\ b = c + 1
    OBVIOUS
  <2> HIDE DEF c
  <2>2. IsFiniteSet(a .. c) /\ Cardinality(a .. c) = IF a > c THEN 0 ELSE c - a + 1
    BY <2>1, FS_Interval
  <2>3. Cardinality(a .. c) = Extent(a, b)
    BY <2>1, <2>2 DEF Extent, M!MaxOf2
  <2> QED
    BY <2>2, <2>3 DEF c
<1> DEFINE X0 == x0 .. x1 - 1
           Y0 == y0 .. y1 - 1
<1>2. /\ IsFiniteSet(X0) /\ Cardinality(X0) = Extent(x0, x1)
      /\ IsFiniteSet(Y0) /\ Cardinality(Y0) = Extent(y0, y1)
  BY <1>1
<1>3. Rect(x0, y0, x1, y1) = X0 \X Y0
  BY DEF Rect
<1> HIDE DEF X0, Y0
<1> QED
  BY <1>2, <1>3, FS_Product DEF RectArea

\* A box in the image of 8 by 8 pixels, not inside out and not empty.
PlainBox(b) ==
    /\ b[1] \in 0 .. 8 /\ b[2] \in 0 .. 8 /\ b[3] \in 0 .. 8 /\ b[4] \in 0 .. 8
    /\ b[1] < b[3] /\ b[2] < b[4]

\* Of boxes between pixels, the overlap that non-maximum suppression computes is
\* the one of their masks (sam3_box_iou, sam3_mask_iou).
THEOREM BoxesOverlapAsTheirMasks ==
  \A a, b : PlainBox(a) /\ PlainBox(b) => M!BoxesOverlapAsMasks(a, b)
<1> SUFFICES ASSUME NEW a, NEW b, PlainBox(a), PlainBox(b) PROVE M!BoxesOverlapAsMasks(a, b)
  OBVIOUS
<1> DEFINE cells(box) == {p \in M!Pixels(8, 8) : box[1] <= p[1] /\ p[1] < box[3]
                                                  /\ box[2] <= p[2] /\ p[2] < box[4]}
           A == Rect(a[1], a[2], a[3], a[4])
           B == Rect(b[1], b[2], b[3], b[4])
           x0 == M!MaxOf2(a[1], b[1])
           y0 == M!MaxOf2(a[2], b[2])
           x1 == M!MinOf2(a[3], b[3])
           y1 == M!MinOf2(a[4], b[4])
<1>1. /\ a[1] \in Int /\ a[2] \in Int /\ a[3] \in Int /\ a[4] \in Int
      /\ b[1] \in Int /\ b[2] \in Int /\ b[3] \in Int /\ b[4] \in Int
  BY DEF PlainBox
<1>2. ASSUME NEW c, PlainBox(c) PROVE cells(c) = Rect(c[1], c[2], c[3], c[4])
  <2>1. \A p : p \in cells(c) <=> p \in Rect(c[1], c[2], c[3], c[4])
    <3> SUFFICES ASSUME NEW p PROVE p \in cells(c) <=> p \in Rect(c[1], c[2], c[3], c[4])
      OBVIOUS
    <3>1. ASSUME p \in cells(c) PROVE p \in Rect(c[1], c[2], c[3], c[4])
      <4>1. PICK x \in 0 .. 7, y \in 0 .. 7 : p = <<x, y>>
        BY <3>1 DEF M!Pixels
      <4>2. c[1] <= x /\ x < c[3] /\ c[2] <= y /\ y < c[4]
        BY <3>1, <4>1
      <4> QED
        BY <1>2, <4>1, <4>2 DEF Rect, PlainBox
    <3>2. ASSUME p \in Rect(c[1], c[2], c[3], c[4]) PROVE p \in cells(c)
      <4>1. PICK x \in c[1] .. c[3] - 1, y \in c[2] .. c[4] - 1 : p = <<x, y>>
        BY <3>2 DEF Rect
      <4>2. x \in 0 .. 7 /\ y \in 0 .. 7 /\ c[1] <= x /\ x < c[3] /\ c[2] <= y /\ y < c[4]
        BY <1>2 DEF PlainBox
      <4> QED
        BY <4>1, <4>2 DEF M!Pixels
    <3> QED
      BY <3>1, <3>2
  <2> QED
    BY <2>1
<1>3. cells(a) = A /\ cells(b) = B
  BY <1>2
<1>4. A \cap B = Rect(x0, y0, x1, y1)
  <2>1. \A x, y \in Int : <<x, y>> \in A <=> a[1] <= x /\ x < a[3] /\ a[2] <= y /\ y < a[4]
    BY <1>1 DEF Rect
  <2>2. \A x, y \in Int : <<x, y>> \in B <=> b[1] <= x /\ x < b[3] /\ b[2] <= y /\ y < b[4]
    BY <1>1 DEF Rect
  <2>3. x0 \in Int /\ y0 \in Int /\ x1 \in Int /\ y1 \in Int
    BY <1>1 DEF M!MaxOf2, M!MinOf2
  <2>4. \A x, y \in Int : <<x, y>> \in Rect(x0, y0, x1, y1) <=> x0 <= x /\ x < x1 /\ y0 <= y /\ y < y1
    <3> HIDE DEF x0, y0, x1, y1
    <3> QED
      BY <2>3 DEF Rect
  <2>5. \A x, y \in Int : <<x, y>> \in A \cap B <=> <<x, y>> \in Rect(x0, y0, x1, y1)
    <3> HIDE DEF A, B
    <3> SUFFICES ASSUME NEW x \in Int, NEW y \in Int
                 PROVE  <<x, y>> \in A \cap B <=> <<x, y>> \in Rect(x0, y0, x1, y1)
      OBVIOUS
    <3>1. x0 <= x <=> a[1] <= x /\ b[1] <= x
      BY <1>1 DEF M!MaxOf2
    <3>2. y0 <= y <=> a[2] <= y /\ b[2] <= y
      BY <1>1 DEF M!MaxOf2
    <3>3. x < x1 <=> x < a[3] /\ x < b[3]
      BY <1>1 DEF M!MinOf2
    <3>4. y < y1 <=> y < a[4] /\ y < b[4]
      BY <1>1 DEF M!MinOf2
    <3> HIDE DEF x0, y0, x1, y1
    <3>5. <<x, y>> \in A \cap B <=> <<x, y>> \in A /\ <<x, y>> \in B
      OBVIOUS
    <3> QED
      BY <2>1, <2>2, <2>4, <3>1, <3>2, <3>3, <3>4, <3>5
  <2>6. A \subseteq Int \X Int /\ Rect(x0, y0, x1, y1) \subseteq Int \X Int
    BY DEF Rect
  <2> HIDE DEF A, B, x0, y0, x1, y1
  <2>7. \A p \in Int \X Int : \E x, y \in Int : p = <<x, y>>
    OBVIOUS
  <2> QED
    BY <2>5, <2>6, <2>7
<1>5. IsFiniteSet(A) /\ Cardinality(A) = M!Area(a)
  <2>1. M!MaxOf2(0, a[3] - a[1]) = a[3] - a[1] /\ M!MaxOf2(0, a[4] - a[2]) = a[4] - a[2]
    BY <1>1 DEF PlainBox, M!MaxOf2
  <2>2. /\ IsFiniteSet(A)
        /\ Cardinality(A) = RectArea(a[1], a[2], a[3], a[4])
    BY <1>1, RectSize
  <2> QED
    BY <2>1, <2>2 DEF M!Area, RectArea, Extent
<1>6. IsFiniteSet(B) /\ Cardinality(B) = M!Area(b)
  <2>1. M!MaxOf2(0, b[3] - b[1]) = b[3] - b[1] /\ M!MaxOf2(0, b[4] - b[2]) = b[4] - b[2]
    BY <1>1 DEF PlainBox, M!MaxOf2
  <2>2. /\ IsFiniteSet(B)
        /\ Cardinality(B) = RectArea(b[1], b[2], b[3], b[4])
    BY <1>1, RectSize
  <2> QED
    BY <2>1, <2>2 DEF M!Area, RectArea, Extent
<1>7. Cardinality(A \cap B) = M!Intersection(a, b)
  <2>1. x0 \in Int /\ y0 \in Int /\ x1 \in Int /\ y1 \in Int
    BY <1>1 DEF M!MaxOf2, M!MinOf2
  <2>2. Cardinality(Rect(x0, y0, x1, y1)) = RectArea(x0, y0, x1, y1)
    <3> HIDE DEF x0, y0, x1, y1
    <3> QED
      BY <2>1, RectSize
  <2> QED
    BY <1>4, <2>2 DEF M!Intersection, RectArea, Extent
<1> HIDE DEF A, B
<1>8. Cardinality(A \cup B) = Cardinality(A) + Cardinality(B) - Cardinality(A \cap B)
  BY <1>5, <1>6, FS_Union
<1>9. M!BoxIou(a, b) = M!MaskIou(A, B)
  <2>1. Cardinality(A \cup B) = M!Area(a) + M!Area(b) - M!Intersection(a, b)
    BY <1>5, <1>6, <1>7, <1>8
  <2>2. M!BoxIou(a, b) = <<M!Intersection(a, b), M!Area(a) + M!Area(b) - M!Intersection(a, b)>>
    BY DEF M!BoxIou
  <2>3. M!MaskIou(A, B) = <<Cardinality(A \cap B), Cardinality(A \cup B)>>
    BY CountIs DEF M!MaskIou
  <2> QED
    BY <1>7, <2>1, <2>2, <2>3
<1>10. M!BoxIou(a, b) = M!MaskIou(cells(a), cells(b))
  BY <1>3, <1>9
<1> QED
  BY <1>10 DEF M!BoxesOverlapAsMasks

-----------------------------------------------------------------------------
(***************************************************************************)
(* Indices in their order.                                                 *)
(***************************************************************************)

\* A finite set of numbers has a greatest.
LEMMA FiniteMax ==
  ASSUME NEW A, IsFiniteSet(A), A \subseteq Int, A # {}
  PROVE  \E m \in A : \A x \in A : x <= m
<1> DEFINE Z == {s \in SUBSET A : s # {} /\ \A m \in s : \E x \in s : ~ (x <= m)}
<1> SUFFICES ASSUME Z # {} PROVE FALSE
  OBVIOUS
<1>1. PICK s \in Z : \A x \in s : s \ {x} \notin Z
  <2>1. Z \in SUBSET (SUBSET A)
    OBVIOUS
  <2> HIDE DEF Z
  <2> QED
    BY <2>1, SmallestSet
<1>2. s \in SUBSET A /\ s # {} /\ \A m \in s : \E x \in s : ~ (x <= m)
  BY <1>1
<1>3. PICK y \in s : TRUE
  BY <1>2
<1>4. PICK z \in s : ~ (z <= y)
  BY <1>2
<1>5. s \ {y} # {} /\ y \in Int /\ z \in Int
  BY <1>2, <1>4
<1>6. PICK m \in s \ {y} : \A x \in s \ {y} : x <= m
  BY <1>1, <1>2, <1>5
<1>7. m \in Int /\ z <= m
  BY <1>2, <1>4, <1>5, <1>6
<1>8. \A x \in s : x <= m
  BY <1>4, <1>5, <1>6, <1>7
<1> QED
  BY <1>2, <1>6, <1>8

\* The instance's maximum is the greatest.
LEMMA MaxIs ==
  ASSUME NEW A, IsFiniteSet(A), A \subseteq Int, A # {}
  PROVE  M!Max(A) \in A /\ \A x \in A : x <= M!Max(A)
<1>1. PICK m \in A : \A x \in A : x <= m
  BY FiniteMax
<1>2. \A x \in A : m >= x
  BY <1>1
<1>3. M!Max(A) \in A /\ \A x \in A : M!Max(A) >= x
  BY <1>2 DEF M!Max
<1> QED
  BY <1>3

\* s lists the numbers of A in their order.
Lists(s, A) ==
    /\ s \in [1 .. Cardinality(A) -> A]
    /\ \A i, j \in DOMAIN s : i < j => s[i] < s[j]

\* Every finite set of numbers can be listed, and a list has all of it.
LEMMA ListExists ==
  ASSUME NEW A, IsFiniteSet(A), A \subseteq Int
  PROVE  \E s : Lists(s, A)
<1> DEFINE Z == {r \in SUBSET A : ~ \E s : Lists(s, r)}
<1> SUFFICES ASSUME Z # {} PROVE FALSE
  OBVIOUS
<1>1. PICK r \in Z : \A x \in r : r \ {x} \notin Z
  <2>1. Z \in SUBSET (SUBSET A)
    OBVIOUS
  <2> HIDE DEF Z
  <2> QED
    BY <2>1, SmallestSet
<1>2. r \in SUBSET A /\ ~ \E s : Lists(s, r)
  BY <1>1
<1>3. IsFiniteSet(r) /\ Cardinality(r) \in Nat
  BY <1>2, FS_Subset, FS_CardinalityType
<1>4. r # {}
  <2> SUFFICES ASSUME r = {} PROVE FALSE
    OBVIOUS
  <2>1. Cardinality(r) = 0
    BY FS_EmptySet
  <2>2. Lists([i \in 1 .. 0 |-> i], r)
    BY <2>1 DEF Lists
  <2> QED
    BY <1>2, <2>2
<1>5. PICK m \in r : \A x \in r : x <= m
  BY <1>2, <1>3, <1>4, FiniteMax
<1> DEFINE q == r \ {m}
           n == Cardinality(q)
<1>6. IsFiniteSet(q) /\ n \in Nat /\ Cardinality(r) = n + 1
  <2>1. IsFiniteSet(q) /\ n = Cardinality(r) - 1
    BY <1>3, <1>5, FS_RemoveElement
  <2>2. n \in Nat
    BY <2>1, FS_CardinalityType
  <2> HIDE DEF n, q
  <2> QED
    BY <1>3, <2>1, <2>2
<1>7. PICK s : Lists(s, q)
  <2>1. q \in SUBSET A /\ q \notin Z
    BY <1>1, <1>2, <1>5
  <2> QED
    BY <2>1
<1>8. s \in [1 .. n -> q] /\ \A i, j \in 1 .. n : i < j => s[i] < s[j]
  BY <1>7 DEF Lists
<1>9. \A x \in q : x \in r /\ x < m
  BY <1>2, <1>5
<1> HIDE DEF n, q
<1> DEFINE t == [i \in 1 .. n + 1 |-> IF i = n + 1 THEN m ELSE s[i]]
<1>10. t \in [1 .. n + 1 -> r]
  BY <1>5, <1>6, <1>8, <1>9
<1>11. ASSUME NEW i \in 1 .. n + 1, NEW j \in 1 .. n + 1, i < j
       PROVE  t[i] < t[j]
  <2>1. i \in 1 .. n /\ t[i] = s[i]
    BY <1>6, <1>11
  <2>2. CASE j = n + 1
    BY <1>8, <1>9, <2>1, <2>2
  <2>3. CASE j # n + 1
    <3>1. j \in 1 .. n /\ t[j] = s[j]
      BY <1>6, <2>3
    <3> QED
      BY <1>8, <1>11, <2>1, <3>1
  <2> QED
    BY <2>2, <2>3
<1>12. Lists(t, r)
  <2>1. DOMAIN t = 1 .. n + 1
    OBVIOUS
  <2> HIDE DEF t
  <2> QED
    BY <1>6, <1>10, <1>11, <2>1 DEF Lists
<1> QED
  BY <1>2, <1>12

\* Listed, a set has as many elements as it has, each in its place.
LEMMA ListHasAll ==
  ASSUME NEW A, IsFiniteSet(A), A \subseteq Int, NEW s, Lists(s, A)
  PROVE  /\ DOMAIN s = 1 .. Cardinality(A) /\ Cardinality(A) \in Nat
         /\ \A i \in DOMAIN s : s[i] \in A
         /\ \A x \in A : \E i \in DOMAIN s : s[i] = x
<1> DEFINE n == Cardinality(A)
<1>1. n \in Nat
  BY FS_CardinalityType
<1>2. IsFiniteSet(1 .. n) /\ Cardinality(1 .. n) = n
  <2> HIDE DEF n
  <2>1. Cardinality(1 .. n) = IF 1 > n THEN 0 ELSE n - 1 + 1
    BY <1>1, FS_Interval
  <2> QED
    BY <1>1, <2>1, FS_Interval
<1>3. s \in [1 .. n -> A] /\ \A i, j \in 1 .. n : i < j => s[i] < s[j]
  BY DEF Lists
<1>4. s \in Injection(1 .. n, A)
  <2>1. \A i, j \in 1 .. n : s[i] = s[j] => i = j
    <3> SUFFICES ASSUME NEW i \in 1 .. n, NEW j \in 1 .. n, s[i] = s[j], i # j PROVE FALSE
      OBVIOUS
    <3> HIDE DEF n
    <3>1. s[i] \in A /\ s[j] \in A
      BY <1>3
    <3>2. s[i] \in Int /\ s[j] \in Int
      BY <3>1
    <3>3. i < j \/ j < i
      BY <1>1
    <3> QED
      BY <1>3, <3>2, <3>3
  <2> QED
    BY <1>3, <2>1 DEF Injection, IsInjective
<1>5. s \in Surjection(1 .. n, A)
  <2> HIDE DEF n
  <2>1. n = Cardinality(A)
    BY DEF n
  <2> QED
    BY <1>2, <1>4, <2>1, FS_Injection
<1>6. \A x \in A : \E i \in 1 .. n : s[i] = x
  BY <1>5 DEF Surjection
<1> QED
  BY <1>1, <1>3, <1>6

\* InOrder lists a finite set of indices in ascending order.
LEMMA InOrderLists ==
  ASSUME NEW A, IsFiniteSet(A), A \subseteq Int
  PROVE  Lists(M!InOrder(A), A)
<1>1. \E s \in [1 .. Cardinality(A) -> A] : \A i, j \in DOMAIN s : i < j => s[i] < s[j]
  BY ListExists DEF Lists
<1> QED
  BY <1>1, CountIs DEF M!InOrder, Lists

-----------------------------------------------------------------------------
(***************************************************************************)
(* Non-maximum suppression.                                                *)
(***************************************************************************)

\* Detection j overlaps detection i.
Over(dets, threshold, j, i) == M!Exceeds(M!BoxIou(dets[j].box, dets[i].box), threshold)

\* K is what is left of the indices s.
LeftOf(K, s, dets, threshold) ==
    /\ K \in SUBSET s
    /\ \A i, j \in K : i < j => ~ Over(dets, threshold, i, j)
    /\ \A i \in s \ K : \E j \in K : j < i /\ Over(dets, threshold, j, i)

\* One index more, greater than the others.
LEMMA LeftOfMore ==
  ASSUME NEW s, s \subseteq Int, NEW m \in s, \A x \in s : x <= m,
         NEW dets, NEW threshold, NEW K, LeftOf(K, s \ {m}, dets, threshold)
  PROVE  LeftOf(IF M!Keeps(K, dets, m, threshold) THEN K \cup {m} ELSE K, s, dets, threshold)
<1>1. \A x \in s \ {m} : x < m
  OBVIOUS
<1>2. /\ K \in SUBSET (s \ {m})
      /\ \A i, j \in K : i < j => ~ Over(dets, threshold, i, j)
      /\ \A i \in (s \ {m}) \ K : \E j \in K : j < i /\ Over(dets, threshold, j, i)
  BY DEF LeftOf
<1>3. M!Keeps(K, dets, m, threshold) <=> \A j \in K : ~ Over(dets, threshold, j, m)
  BY DEF M!Keeps, Over
<1>4. CASE M!Keeps(K, dets, m, threshold)
  <2> DEFINE J == K \cup {m}
  <2>1. J \in SUBSET s
    BY <1>2
  <2>2. \A i, j \in J : i < j => ~ Over(dets, threshold, i, j)
    <3> SUFFICES ASSUME NEW i \in J, NEW j \in J, i < j PROVE ~ Over(dets, threshold, i, j)
      OBVIOUS
    <3>1. i \in K
      BY <1>1, <1>2
    <3> QED
      BY <1>2, <1>3, <1>4, <3>1
  <2>3. \A i \in s \ J : \E j \in J : j < i /\ Over(dets, threshold, j, i)
    BY <1>2
  <2> HIDE DEF J
  <2>4. LeftOf(J, s, dets, threshold)
    BY <2>1, <2>2, <2>3 DEF LeftOf
  <2> QED
    BY <1>4, <2>4 DEF J
<1>5. CASE ~ M!Keeps(K, dets, m, threshold)
  <2>1. PICK k \in K : Over(dets, threshold, k, m)
    BY <1>3, <1>5
  <2>2. k < m
    BY <1>1, <1>2
  <2>3. \A i \in s \ K : \E j \in K : j < i /\ Over(dets, threshold, j, i)
    BY <1>2, <2>1, <2>2
  <2>4. LeftOf(K, s, dets, threshold)
    BY <1>2, <2>3 DEF LeftOf
  <2> QED
    BY <1>5, <2>4
<1> QED
  BY <1>4, <1>5

\* sam3_nms.
LEMMA NmsLeaves ==
  ASSUME NEW n \in Nat, NEW dets, DOMAIN dets = 1 .. n, NEW threshold
  PROVE  LeftOf(M!Nms(dets, threshold), 1 .. n, dets, threshold)
<1> DEFINE A == 1 .. n
           idx == [i \in DOMAIN dets |-> i]
           Next1(K, i) == IF M!Keeps(K, dets, i, threshold) THEN K \cup {i} ELSE K
           V == SUBSET A
           pick == [s \in SUBSET A |-> M!Max(s)]
           step == [i \in A |-> [K \in V |-> Next1(K, i)]]
           Body(g) == [s \in SUBSET (DOMAIN idx) |->
                         IF s = {} THEN {} ELSE Next1(g[s \ {M!Max(s)}], idx[M!Max(s)])]
           g0 == CHOOSE g : g = Body(g)
<1>1. DOMAIN idx = A /\ \A i \in A : idx[i] = i
  OBVIOUS
<1>2. IsFiniteSet(A) /\ A \subseteq Int
  BY FS_Interval
<1>3. ASSUME NEW s \in SUBSET A, s # {}
      PROVE  M!Max(s) \in s /\ (\A x \in s : x <= M!Max(s)) /\ pick[s] = M!Max(s)
  <2>1. IsFiniteSet(s) /\ s \subseteq Int
    BY <1>2, FS_Subset
  <2> QED
    BY <1>3, <2>1, MaxIs
<1>4. step \in [A -> [V -> V]]
  <2>1. \A i \in A, K \in V : Next1(K, i) \in V
    OBVIOUS
  <2> HIDE DEF Next1, V
  <2> QED
    BY <2>1
<1>5. \A i \in A, K \in V : step[i][K] = Next1(K, i)
  <2> HIDE DEF Next1, V
  <2> QED
    OBVIOUS
<1>6. Picks(pick, A)
  BY <1>3 DEF Picks
<1> HIDE DEF pick, step
<1>7. \E f \in [SUBSET A -> V] : Folding(f, A, {}, step, pick)
  <2> DEFINE z == {}
  <2>1. z \in V
    OBVIOUS
  <2> HIDE DEF z, V, A, Body, g0, idx, Next1
  <2>2. \E f \in [SUBSET A -> V] : Folding(f, A, z, step, pick)
    BY <1>2, <1>4, <1>6, <2>1, FoldingExists
  <2> QED
    BY <2>2 DEF z
<1>8. PICK f \in [SUBSET A -> V] : Folding(f, A, {}, step, pick)
  BY <1>7
<1> HIDE DEF Next1, idx, A
<1>9. \A s \in SUBSET A :
         f[s] = IF s = {} THEN {} ELSE Next1(f[s \ {M!Max(s)}], idx[M!Max(s)])
  <2> SUFFICES ASSUME NEW s \in SUBSET A
               PROVE  f[s] = IF s = {} THEN {} ELSE Next1(f[s \ {M!Max(s)}], idx[M!Max(s)])
    OBVIOUS
  <2>1. f[s] = IF s = {} THEN {} ELSE step[pick[s]][f[s \ {pick[s]}]]
    BY <1>8 DEF Folding
  <2>2. ASSUME s # {}
        PROVE  step[pick[s]][f[s \ {pick[s]}]] = Next1(f[s \ {M!Max(s)}], idx[M!Max(s)])
    <3>1. M!Max(s) \in A /\ pick[s] = M!Max(s) /\ idx[M!Max(s)] = M!Max(s)
      BY <1>1, <1>3, <2>2
    <3>2. f[s \ {M!Max(s)}] \in V
      BY <1>8
    <3> HIDE DEF V
    <3> QED
      BY <1>5, <3>1, <3>2
  <2> QED
    BY <2>1, <2>2
<1>10. f = Body(f)
  <2>1. DOMAIN f = SUBSET (DOMAIN idx)
    BY <1>1, <1>8
  <2> HIDE DEF V
  <2> QED
    BY <1>1, <1>8, <1>9
<1>11. g0 = Body(g0)
  <2> HIDE DEF Body
  <2> QED
    BY <1>10
<1>12. M!Nms(dets, threshold) = g0[DOMAIN idx]
  BY DEF M!Nms, M!FoldLeftDomain, M!FoldLeft, M!MapThenFoldSet, idx, Next1
<1> HIDE DEF g0
<1>13. \A s \in SUBSET A :
         g0[s] = IF s = {} THEN {} ELSE Next1(g0[s \ {M!Max(s)}], M!Max(s))
  <2> SUFFICES ASSUME NEW s \in SUBSET A
               PROVE  g0[s] = IF s = {} THEN {} ELSE Next1(g0[s \ {M!Max(s)}], M!Max(s))
    OBVIOUS
  <2>1. g0[s] = IF s = {} THEN {} ELSE Next1(g0[s \ {M!Max(s)}], idx[M!Max(s)])
    BY <1>1, <1>11
  <2>2. s # {} => idx[M!Max(s)] = M!Max(s)
    BY <1>1, <1>3
  <2> QED
    BY <2>1, <2>2
<1> HIDE DEF Body
<1> DEFINE Z == {s \in SUBSET A : ~ LeftOf(g0[s], s, dets, threshold)}
<1>14. Z = {}
  <2> SUFFICES ASSUME Z # {} PROVE FALSE
    OBVIOUS
  <2>1. PICK s \in Z : \A x \in s : s \ {x} \notin Z
    <3>1. Z \in SUBSET (SUBSET A)
      OBVIOUS
    <3> HIDE DEF Z
    <3> QED
      BY <1>2, <3>1, SmallestSet
  <2>2. s \in SUBSET A /\ ~ LeftOf(g0[s], s, dets, threshold)
    BY <2>1
  <2>3. s # {}
    <3> SUFFICES ASSUME s = {} PROVE FALSE
      OBVIOUS
    <3>1. g0[s] = {}
      BY <1>13, <2>2
    <3> QED
      BY <2>2, <3>1 DEF LeftOf
  <2> DEFINE m == M!Max(s)
             K == g0[s \ {m}]
  <2>4. m \in s /\ (\A x \in s : x <= m) /\ s \subseteq Int
    BY <1>2, <1>3, <2>2, <2>3
  <2>5. LeftOf(K, s \ {m}, dets, threshold)
    BY <2>1, <2>2, <2>4
  <2>6. g0[s] = IF M!Keeps(K, dets, m, threshold) THEN K \cup {m} ELSE K
    BY <1>13, <2>2, <2>3 DEF Next1
  <2> HIDE DEF m, K, Z
  <2>7. LeftOf(IF M!Keeps(K, dets, m, threshold) THEN K \cup {m} ELSE K, s, dets, threshold)
    BY <2>4, <2>5, LeftOfMore
  <2> QED
    BY <2>2, <2>6, <2>7
<1>15. LeftOf(g0[A], A, dets, threshold)
  BY <1>14
<1> QED
  BY <1>1, <1>12, <1>15 DEF A

\* Overlapping is mutual.
LEMMA OverIsMutual ==
  ASSUME NEW a \in Corners, NEW b \in Corners
  PROVE  M!BoxIou(a, b) = M!BoxIou(b, a)
<1>1. /\ a[1] \in Int /\ a[2] \in Int /\ a[3] \in Int /\ a[4] \in Int
      /\ b[1] \in Int /\ b[2] \in Int /\ b[3] \in Int /\ b[4] \in Int
  BY DEF Corners
<1>2. \A x, y \in Int : M!MaxOf2(x, y) = M!MaxOf2(y, x) /\ M!MinOf2(x, y) = M!MinOf2(y, x)
  BY DEF M!MaxOf2, M!MinOf2
<1>3. /\ M!MaxOf2(a[1], b[1]) = M!MaxOf2(b[1], a[1]) /\ M!MaxOf2(a[2], b[2]) = M!MaxOf2(b[2], a[2])
      /\ M!MinOf2(a[3], b[3]) = M!MinOf2(b[3], a[3]) /\ M!MinOf2(a[4], b[4]) = M!MinOf2(b[4], a[4])
  BY <1>1, <1>2
<1>4. M!Intersection(a, b) = M!Intersection(b, a)
  BY <1>3 DEF M!Intersection
<1>5. M!Area(a) \in Int /\ M!Area(b) \in Int
  BY <1>1 DEF M!Area
<1>6. M!Area(a) + M!Area(b) = M!Area(b) + M!Area(a)
  BY <1>5
<1>7. M!Area(a) + M!Area(b) - M!Intersection(a, b) = M!Area(b) + M!Area(a) - M!Intersection(b, a)
  <2>1. \A x, y \in Int : M!MaxOf2(x, y) \in Int /\ M!MinOf2(x, y) \in Int
    BY DEF M!MaxOf2, M!MinOf2
  <2> DEFINE p == M!MaxOf2(0, M!MinOf2(a[3], b[3]) - M!MaxOf2(a[1], b[1]))
             q == M!MaxOf2(0, M!MinOf2(a[4], b[4]) - M!MaxOf2(a[2], b[2]))
  <2>2. p \in Int /\ q \in Int
    <3> DEFINE u == M!MinOf2(a[3], b[3])
               v == M!MaxOf2(a[1], b[1])
               s == M!MinOf2(a[4], b[4])
               t == M!MaxOf2(a[2], b[2])
    <3>1. u \in Int /\ v \in Int /\ s \in Int /\ t \in Int
      BY <1>1, <2>1
    <3>2. p = M!MaxOf2(0, u - v) /\ q = M!MaxOf2(0, s - t)
      OBVIOUS
    <3> HIDE DEF u, v, s, t, p, q
    <3>3. 0 \in Int /\ u - v \in Int /\ s - t \in Int
      BY <3>1
    <3> QED
      BY <2>1, <3>2, <3>3
  <2>3. M!Intersection(a, b) = p * q
    BY DEF M!Intersection
  <2> HIDE DEF p, q
  <2>4. M!Intersection(a, b) \in Int
    BY <2>2, <2>3
  <2> QED
    BY <1>4, <1>5, <2>4
<1>8. /\ M!BoxIou(a, b) = <<M!Intersection(a, b), M!Area(a) + M!Area(b) - M!Intersection(a, b)>>
      /\ M!BoxIou(b, a) = <<M!Intersection(b, a), M!Area(b) + M!Area(a) - M!Intersection(b, a)>>
  BY DEF M!BoxIou
<1> QED
  BY <1>4, <1>7, <1>8

\* Detections with boxes.
Boxed == [score : Int, box : Corners]

\* Of sorted detections, what is returned overlaps too little pairwise, and what
\* is dropped overlaps a better one that is kept; the ids are 1, 2, 3, ...
\* (sam3_nms, the end of sam3_segment_pcs).
THEOREM NmsSuppressesTheRest ==
  \A dets \in Seq(Boxed), score \in Int : \A threshold :
      M!Sorted(dets) => M!SuppressesTheRest(dets, score, threshold)
<1> SUFFICES ASSUME NEW dets \in Seq(Boxed), NEW score \in Int, NEW threshold, M!Sorted(dets)
             PROVE  M!SuppressesTheRest(dets, score, threshold)
  OBVIOUS
<1> DEFINE E == {i \in DOMAIN dets : dets[i].score >= score}
           enough == M!InOrder(E)
           above == M!AboveThreshold(dets, score)
           n == Cardinality(E)
           K == M!Nms(above, threshold)
           kept == M!InOrder(K)
           out == M!Detections(dets, score, threshold)
<1>1. DOMAIN dets = 1 .. Len(dets) /\ Len(dets) \in Nat /\ \A i \in DOMAIN dets : dets[i] \in Boxed
  OBVIOUS
<1>2. E \subseteq DOMAIN dets /\ IsFiniteSet(E) /\ E \subseteq Int
  <2>1. IsFiniteSet(1 .. Len(dets))
    BY <1>1, FS_Interval
  <2>2. E \in SUBSET (1 .. Len(dets))
    BY <1>1
  <2> HIDE DEF E
  <2>3. IsFiniteSet(E)
    BY <2>1, <2>2, FS_Subset
  <2>4. E \subseteq Int
    BY <1>1, <2>2
  <2> QED
    BY <1>1, <2>2, <2>3, <2>4
<1>3. above = [k \in DOMAIN enough |-> dets[enough[k]]]
  BY DEF M!AboveThreshold
<1>4. out = [i \in DOMAIN kept |-> [box |-> above[kept[i]].box, score |-> above[kept[i]].score,
                                    instance_id |-> i]]
  BY DEF M!Detections
<1>5. \A i \in DOMAIN dets : i \in E <=> dets[i].score >= score
  OBVIOUS
<1> HIDE DEF E, enough, above, kept, out, K, n
<1>6. Lists(enough, E)
  BY <1>2, InOrderLists DEF enough
<1>7. /\ DOMAIN enough = 1 .. n /\ n \in Nat
      /\ \A k \in 1 .. n : enough[k] \in E
      /\ \A x \in E : \E k \in 1 .. n : enough[k] = x
  BY <1>2, <1>6, ListHasAll DEF n
<1>8. \A i, j \in 1 .. n : i < j => enough[i] < enough[j]
  BY <1>6, <1>7 DEF Lists
<1>9. DOMAIN above = 1 .. n /\ \A k \in 1 .. n : above[k] = dets[enough[k]]
  BY <1>3, <1>7
<1>10. \A k \in 1 .. n : above[k].box \in Corners /\ above[k].score \in Int /\ above[k].score >= score
  <2> SUFFICES ASSUME NEW k \in 1 .. n
               PROVE  /\ above[k].box \in Corners /\ above[k].score \in Int
                      /\ above[k].score >= score
    OBVIOUS
  <2>1. enough[k] \in DOMAIN dets /\ enough[k] \in E /\ above[k] = dets[enough[k]]
    BY <1>2, <1>7, <1>9
  <2>2. dets[enough[k]] \in Boxed
    BY <1>1, <2>1
  <2> QED
    BY <1>5, <2>1, <2>2 DEF Boxed
<1>11. \A i, j \in 1 .. n : i < j => above[i].score >= above[j].score
  <2> SUFFICES ASSUME NEW i \in 1 .. n, NEW j \in 1 .. n, i < j
               PROVE  above[i].score >= above[j].score
    OBVIOUS
  <2>1. enough[i] \in DOMAIN dets /\ enough[j] \in DOMAIN dets /\ enough[i] < enough[j]
    BY <1>2, <1>7, <1>8
  <2>2. dets[enough[i]].score >= dets[enough[j]].score
    BY <2>1 DEF M!Sorted
  <2> QED
    BY <1>9, <2>2
<1>12. LeftOf(K, 1 .. n, above, threshold)
  BY <1>7, <1>9, NmsLeaves DEF K
<1>13. /\ K \subseteq 1 .. n
       /\ \A i, j \in K : i < j => ~ Over(above, threshold, i, j)
       /\ \A i \in (1 .. n) \ K : \E j \in K : j < i /\ Over(above, threshold, j, i)
  BY <1>12 DEF LeftOf
<1>14. IsFiniteSet(K) /\ K \subseteq Int
  <2>1. IsFiniteSet(1 .. n)
    BY <1>7, FS_Interval
  <2>2. K \in SUBSET (1 .. n)
    BY <1>13
  <2>3. IsFiniteSet(K)
    BY <2>1, <2>2, FS_Subset
  <2>4. K \subseteq Int
    BY <1>7, <2>2
  <2> QED
    BY <2>3, <2>4
<1>15. Lists(kept, K)
  BY <1>14, InOrderLists DEF kept
<1> DEFINE m == Cardinality(K)
<1>16. /\ DOMAIN kept = 1 .. m /\ m \in Nat
       /\ \A k \in 1 .. m : kept[k] \in K
       /\ \A x \in K : \E k \in 1 .. m : kept[k] = x
  <2>1. /\ DOMAIN kept = 1 .. Cardinality(K) /\ Cardinality(K) \in Nat
        /\ \A k \in DOMAIN kept : kept[k] \in K
        /\ \A x \in K : \E k \in DOMAIN kept : kept[k] = x
    BY <1>14, <1>15, ListHasAll
  <2> QED
    BY <2>1
<1>17. \A i, j \in 1 .. m : i < j => kept[i] < kept[j]
  BY <1>15, <1>16 DEF Lists
<1> HIDE DEF m
<1>18. DOMAIN out = 1 .. m
  BY <1>4, <1>16
<1>19. \A i \in 1 .. m : /\ out[i].box = above[kept[i]].box /\ out[i].score = above[kept[i]].score
                         /\ out[i].instance_id = i /\ kept[i] \in 1 .. n
  BY <1>4, <1>13, <1>16
<1> DEFINE overlap(a, b) == M!Exceeds(M!BoxIou(a.box, b.box), threshold)
<1>20. \A i, j \in 1 .. m : overlap(out[i], out[j]) <=> Over(above, threshold, kept[i], kept[j])
  BY <1>19 DEF Over
<1>21. \A i, j \in 1 .. n : Over(above, threshold, i, j) <=> Over(above, threshold, j, i)
  <2> SUFFICES ASSUME NEW i \in 1 .. n, NEW j \in 1 .. n
               PROVE  Over(above, threshold, i, j) <=> Over(above, threshold, j, i)
    OBVIOUS
  <2>1. M!BoxIou(above[i].box, above[j].box) = M!BoxIou(above[j].box, above[i].box)
    BY <1>10, OverIsMutual
  <2> QED
    BY <2>1 DEF Over
<1> HIDE DEF overlap
<1>22. \A i, j \in 1 .. m : i # j => ~ overlap(out[i], out[j])
  <2> SUFFICES ASSUME NEW i \in 1 .. m, NEW j \in 1 .. m, i # j, overlap(out[i], out[j]) PROVE FALSE
    OBVIOUS
  <2>1. Over(above, threshold, kept[i], kept[j]) /\ Over(above, threshold, kept[j], kept[i])
    BY <1>19, <1>20, <1>21
  <2>2. i < j \/ j < i
    BY <1>16
  <2>3. kept[i] \in K /\ kept[j] \in K
    BY <1>16
  <2> QED
    BY <1>13, <1>17, <2>1, <2>2, <2>3
<1>23. \A i \in DOMAIN dets : dets[i].score >= score =>
          \E j \in 1 .. m : /\ out[j].score >= dets[i].score
                            /\ out[j].box = dets[i].box \/ overlap(out[j], dets[i])
  <2> SUFFICES ASSUME NEW i \in DOMAIN dets, dets[i].score >= score
               PROVE  \E j \in 1 .. m : /\ out[j].score >= dets[i].score
                                        /\ out[j].box = dets[i].box \/ overlap(out[j], dets[i])
    OBVIOUS
  <2>1. PICK k \in 1 .. n : enough[k] = i
    BY <1>5, <1>7
  <2>2. above[k] = dets[i] /\ above[k].score \in Int
    BY <1>9, <1>10, <2>1
  <2>3. CASE k \in K
    <3>1. PICK j \in 1 .. m : kept[j] = k
      BY <1>16, <2>3
    <3>2. out[j].score = dets[i].score /\ out[j].box = dets[i].box
      BY <1>19, <2>2, <3>1
    <3> QED
      BY <2>2, <3>2
  <2>4. CASE k \notin K
    <3>1. PICK p \in K : p < k /\ Over(above, threshold, p, k)
      BY <1>13, <2>4
    <3>2. PICK j \in 1 .. m : kept[j] = p
      BY <1>16, <3>1
    <3>3. out[j].score = above[p].score /\ out[j].box = above[p].box
      BY <1>19, <3>2
    <3>4. above[p].score >= above[k].score
      BY <1>11, <1>13, <3>1
    <3>5. overlap(out[j], dets[i])
      BY <2>2, <3>1, <3>3 DEF overlap, Over
    <3> QED
      BY <2>2, <3>3, <3>4, <3>5
  <2> QED
    BY <2>3, <2>4
<1>24. \A i \in 1 .. m : out[i].instance_id = i /\ out[i].score >= score
  BY <1>10, <1>19
<1> QED
  BY <1>18, <1>22, <1>23, <1>24 DEF M!SuppressesTheRest, overlap, out

-----------------------------------------------------------------------------
(***************************************************************************)
(* Connected components.                                                   *)
(***************************************************************************)

\* No pixel of region outside C touches C.
Alone(C, region) == \A p \in C : \A q \in region : q \in M!Neighbours(p) => q \in C

\* A component: alone, and no part of it is.
IsComponent(C, region) ==
    /\ C \in SUBSET region /\ C # {} /\ Alone(C, region)
    /\ \A D \in SUBSET C : D # {} /\ Alone(D, region) => D = C

\* P is a region's components.
Splits(P, region) ==
    /\ \A C \in P : IsComponent(C, region)
    /\ \A p \in region : \E C \in P : p \in C

\* The places of an unbounded grid.
Cells == Int \X Int

\* Neighbours are so mutually.
LEMMA MutualNeighbours ==
  ASSUME NEW p \in Cells, NEW q \in Cells, q \in M!Neighbours(p)
  PROVE  p \in M!Neighbours(q)
<1>1. p = <<p[1], p[2]>> /\ q = <<q[1], q[2]>> /\ p[1] \in Int /\ p[2] \in Int
      /\ q[1] \in Int /\ q[2] \in Int
  BY DEF Cells
<1> DEFINE a == p[1]
           b == p[2]
<1>2. q \in {<<a - 1, b>>, <<a + 1, b>>, <<a, b - 1>>, <<a, b + 1>>}
  BY DEF M!Neighbours
<1>3. CASE q = <<a - 1, b>>
  <2>1. q[1] + 1 = a /\ q[2] = b
    BY <1>1, <1>3
  <2>2. p = <<q[1] + 1, q[2]>>
    BY <1>1, <2>1
  <2> QED
    BY <2>2 DEF M!Neighbours
<1>4. CASE q = <<a + 1, b>>
  <2>1. q[1] - 1 = a /\ q[2] = b
    BY <1>1, <1>4
  <2>2. p = <<q[1] - 1, q[2]>>
    BY <1>1, <2>1
  <2> QED
    BY <2>2 DEF M!Neighbours
<1>5. CASE q = <<a, b - 1>>
  <2>1. q[2] + 1 = b /\ q[1] = a
    BY <1>1, <1>5
  <2>2. p = <<q[1], q[2] + 1>>
    BY <1>1, <2>1
  <2> QED
    BY <2>2 DEF M!Neighbours
<1>6. CASE q = <<a, b + 1>>
  <2>1. q[2] - 1 = b /\ q[1] = a
    BY <1>1, <1>6
  <2>2. p = <<q[1], q[2] - 1>>
    BY <1>1, <2>1
  <2> QED
    BY <2>2 DEF M!Neighbours
<1> QED
  BY <1>2, <1>3, <1>4, <1>5, <1>6

\* One pixel more.
LEMMA JoinedSplits ==
  ASSUME NEW region \in SUBSET Cells, NEW p \in region, NEW P, Splits(P, region \ {p})
  PROVE  Splits(M!Joined(p, P), region)
<1> DEFINE Y == region \ {p}
           near == {C \in P : C \cap M!Neighbours(p) # {}}
           N == {p} \cup UNION near
<1>1. M!Joined(p, P) = (P \ near) \cup {N}
  BY DEF M!Joined
<1>2. \A C \in P : IsComponent(C, Y)
  BY DEF Splits
<1>3. \A q \in Y : \E C \in P : q \in C
  BY DEF Splits
<1>4. \A C \in P : /\ C \in SUBSET Y /\ C # {} /\ Alone(C, Y)
                   /\ \A D \in SUBSET C : D # {} /\ Alone(D, Y) => D = C
  BY <1>2 DEF IsComponent
<1>5. \A q, r \in region : r \in M!Neighbours(q) => q \in M!Neighbours(r)
  BY MutualNeighbours
<1>6. ASSUME NEW C \in P \ near PROVE IsComponent(C, region)
  <2>1. C \in SUBSET region /\ C # {} /\ C \in SUBSET Y
    BY <1>4
  <2>2. Alone(C, region)
    <3> SUFFICES ASSUME NEW q \in C, NEW r \in region, r \in M!Neighbours(q) PROVE r \in C
      BY DEF Alone
    <3>1. CASE r = p
      <4>1. q \in M!Neighbours(p)
        BY <1>5, <2>1, <3>1
      <4> QED
        BY <4>1
    <3>2. CASE r # p
      BY <1>4, <3>2 DEF Alone
    <3> QED
      BY <3>1, <3>2
  <2>3. ASSUME NEW D \in SUBSET C, D # {}, Alone(D, region) PROVE D = C
    <3>1. Alone(D, Y)
      BY <2>3 DEF Alone
    <3> QED
      BY <1>4, <2>3, <3>1
  <2> QED
    BY <2>1, <2>2, <2>3 DEF IsComponent
<1>7. \A C \in near : C \in P /\ C \cap M!Neighbours(p) # {}
  OBVIOUS
<1>8. IsComponent(N, region)
  <2>1. N \in SUBSET region /\ N # {}
    BY <1>4
  <2>2. Alone(N, region)
    <3> SUFFICES ASSUME NEW q \in N, NEW r \in region, r \in M!Neighbours(q), r # p PROVE r \in N
      BY DEF Alone
    <3>1. r \in Y
      OBVIOUS
    <3>2. CASE q = p
      <4>1. PICK C \in P : r \in C
        BY <1>3, <3>1
      <4>2. C \in near
        BY <3>2, <4>1
      <4> QED
        BY <4>1, <4>2
    <3>3. CASE q # p
      <4>1. PICK C \in near : q \in C
        BY <3>3
      <4>2. r \in C
        BY <1>4, <1>7, <3>1, <4>1 DEF Alone
      <4> QED
        BY <4>1, <4>2
    <3> QED
      BY <3>2, <3>3
  <2>3. ASSUME NEW D \in SUBSET N, D # {}, Alone(D, region) PROVE D = N
    <3> HIDE DEF near
    <3>1. ASSUME NEW C \in near, D \cap C # {} PROVE C \subseteq D
      <4>1. Alone(D \cap C, Y)
        <5> SUFFICES ASSUME NEW q \in D \cap C, NEW r \in Y, r \in M!Neighbours(q)
                     PROVE  r \in D \cap C
          BY DEF Alone
        <5>1. r \in D
          BY <2>3 DEF Alone
        <5>2. r \in C
          BY <1>4, <1>7 DEF Alone
        <5> QED
          BY <5>1, <5>2
      <4>2. D \cap C = C
        <5> DEFINE E == D \cap C
        <5>1. C \in P /\ E \in SUBSET C /\ E # {} /\ Alone(E, Y)
          BY <1>7, <3>1, <4>1
        <5>2. \A B \in SUBSET C : B # {} /\ Alone(B, Y) => B = C
          BY <1>4, <5>1
        <5> HIDE DEF E, Y
        <5>3. E = C
          BY <5>1, <5>2
        <5> QED
          BY <5>3 DEF E
      <4> QED
        BY <4>2
    <3>2. \A C \in near : C \subseteq region /\ \E q \in C : q \in M!Neighbours(p)
      BY <1>4, <1>7
    <3>3. p \in D
      <4> SUFFICES ASSUME p \notin D PROVE FALSE
        OBVIOUS
      <4>1. PICK C \in near : D \cap C # {}
        BY <2>3
      <4>2. PICK q \in C : q \in M!Neighbours(p)
        BY <3>2
      <4>3. q \in D /\ q \in region
        BY <3>1, <3>2, <4>1
      <4>4. p \in M!Neighbours(q)
        BY <1>5, <4>2, <4>3
      <4> QED
        BY <2>3, <4>3, <4>4 DEF Alone
    <3>4. \A C \in near : C \subseteq D
      <4> SUFFICES ASSUME NEW C \in near PROVE C \subseteq D
        OBVIOUS
      <4>1. PICK q \in C : q \in M!Neighbours(p)
        BY <3>2
      <4>2. q \in D
        BY <2>3, <3>2, <3>3, <4>1 DEF Alone
      <4> QED
        BY <3>1, <4>2
    <3> QED
      BY <3>3, <3>4
  <2> QED
    BY <2>1, <2>2, <2>3 DEF IsComponent
<1>9. \A q \in region : \E C \in (P \ near) \cup {N} : q \in C
  BY <1>3
<1> HIDE DEF near, N
<1> QED
  BY <1>1, <1>6, <1>8, <1>9 DEF Splits

\* The components the searches find are the components.
LEMMA ComponentsSplit ==
  ASSUME NEW region \in SUBSET Cells, IsFiniteSet(region)
  PROVE  Splits(M!Components(region), region)
<1> DEFINE V == SUBSET (SUBSET region)
           pick == [s \in SUBSET region |-> Some(s)]
           step == [p \in region |-> [P \in V |-> M!Joined(p, P)]]
           Body(g) == [s \in SUBSET region |->
                         IF s = {} THEN {} ELSE M!Joined(Some(s), g[s \ {Some(s)}])]
           g0 == CHOOSE g : g = Body(g)
<1>1. \A s \in SUBSET region : s # {} => Some(s) \in s /\ pick[s] = Some(s)
  BY DEF Some
<1>2. \A p \in region, P \in V : M!Joined(p, P) \in V
  BY DEF M!Joined
<1>3. \A p \in region, P \in V : step[p][P] = M!Joined(p, P)
  <2> HIDE DEF V
  <2> QED
    OBVIOUS
<1>4. step \in [region -> [V -> V]]
  <2> HIDE DEF V
  <2> QED
    BY <1>2
<1> HIDE DEF pick, step
<1>5. Picks(pick, region)
  BY <1>1 DEF Picks
<1>6. \E f \in [SUBSET region -> V] : Folding(f, region, {}, step, pick)
  <2> DEFINE z == {}
  <2>1. z \in V
    OBVIOUS
  <2> HIDE DEF z, V, Body, g0
  <2>2. \E f \in [SUBSET region -> V] : Folding(f, region, z, step, pick)
    BY <1>4, <1>5, <2>1, FoldingExists
  <2> QED
    BY <2>2 DEF z
<1>7. PICK f \in [SUBSET region -> V] : Folding(f, region, {}, step, pick)
  BY <1>6
<1> HIDE DEF V
<1>8. \A s \in SUBSET region : f[s] = IF s = {} THEN {} ELSE M!Joined(Some(s), f[s \ {Some(s)}])
  <2> SUFFICES ASSUME NEW s \in SUBSET region, s # {}
               PROVE  f[s] = M!Joined(Some(s), f[s \ {Some(s)}])
    BY <1>7 DEF Folding
  <2>1. f[s] = step[pick[s]][f[s \ {pick[s]}]]
    BY <1>7 DEF Folding
  <2>2. Some(s) \in region /\ f[s \ {Some(s)}] \in V /\ pick[s] = Some(s)
    BY <1>1, <1>7
  <2> QED
    BY <1>3, <2>1, <2>2
<1>9. f = Body(f)
  BY <1>8
<1>10. g0 = Body(g0)
  <2> HIDE DEF Body
  <2> QED
    BY <1>9
<1>11. M!Components(region) = g0[region]
  BY DEF M!Components, M!FoldSet, M!MapThenFoldSet, Some
<1> HIDE DEF g0
<1>12. \A s \in SUBSET region :
          g0[s] = IF s = {} THEN {} ELSE M!Joined(Some(s), g0[s \ {Some(s)}])
  BY <1>10
<1> HIDE DEF Body
<1> DEFINE Z == {s \in SUBSET region : ~ Splits(g0[s], s)}
<1>13. Z = {}
  <2> SUFFICES ASSUME Z # {} PROVE FALSE
    OBVIOUS
  <2>1. PICK s \in Z : \A x \in s : s \ {x} \notin Z
    <3>1. Z \in SUBSET (SUBSET region)
      OBVIOUS
    <3> HIDE DEF Z
    <3> QED
      BY <3>1, SmallestSet
  <2>2. s \in SUBSET region /\ ~ Splits(g0[s], s)
    BY <2>1
  <2>3. s # {}
    BY <1>12, <2>2 DEF Splits
  <2>4. Some(s) \in s
    BY <1>1, <2>2, <2>3
  <2>5. Splits(g0[s \ {Some(s)}], s \ {Some(s)})
    BY <2>1, <2>2, <2>4
  <2>6. s \in SUBSET Cells
    BY <2>2
  <2>7. Splits(M!Joined(Some(s), g0[s \ {Some(s)}]), s)
    BY <2>4, <2>5, <2>6, JoinedSplits
  <2> QED
    BY <1>12, <2>2, <2>3, <2>7
<1>14. Splits(g0[region], region)
  BY <1>13
<1> QED
  BY <1>11, <1>14

\* What components are good for.
LEMMA ComponentsAre ==
  ASSUME NEW region \in SUBSET Cells, IsFiniteSet(region)
  PROVE  /\ \A C \in M!Components(region) : IsComponent(C, region)
         /\ \A C : IsComponent(C, region) => C \in M!Components(region)
         /\ \A p \in region : \E C \in M!Components(region) : p \in C
<1> DEFINE P == M!Components(region)
<1>1. (\A C \in P : IsComponent(C, region)) /\ \A p \in region : \E C \in P : p \in C
  BY ComponentsSplit DEF Splits
<1>2. ASSUME NEW C, IsComponent(C, region) PROVE C \in P
  <2> HIDE DEF P
  <2>1. C \in SUBSET region /\ C # {} /\ Alone(C, region)
        /\ \A D \in SUBSET C : D # {} /\ Alone(D, region) => D = C
    BY <1>2 DEF IsComponent
  <2>2. PICK B \in P : B \cap C # {}
    BY <1>1, <2>1
  <2>3. B \in SUBSET region /\ Alone(B, region)
        /\ \A D \in SUBSET B : D # {} /\ Alone(D, region) => D = B
    BY <1>1 DEF IsComponent
  <2>4. Alone(B \cap C, region)
    BY <2>1, <2>3 DEF Alone
  <2>5. B \cap C \in SUBSET B /\ B \cap C \in SUBSET C
    OBVIOUS
  <2>6. B \cap C = B
    BY <2>2, <2>3, <2>4, <2>5
  <2>7. B \cap C = C
    BY <2>1, <2>2, <2>4, <2>5
  <2> QED
    BY <2>6, <2>7
<1> HIDE DEF P
<1> QED
  BY <1>1, <1>2 DEF P

\* A component of a smaller region lies in every component of a larger one that
\* it touches.
LEMMA SmallerInLarger ==
  ASSUME NEW small, NEW large, small \subseteq large,
         NEW C, IsComponent(C, small), NEW D, IsComponent(D, large), C \cap D # {}
  PROVE  C \subseteq D
<1>1. \A B \in SUBSET C : B # {} /\ Alone(B, small) => B = C
  BY DEF IsComponent
<1>2. Alone(C, small) /\ Alone(D, large)
  BY DEF IsComponent
<1>3. Alone(C \cap D, small)
  BY <1>2 DEF Alone
<1>4. C \cap D \in SUBSET C
  OBVIOUS
<1>5. C \cap D = C
  BY <1>1, <1>3, <1>4
<1> QED
  BY <1>5

\* Taking components away leaves the others as they are.
LEMMA OthersStay ==
  ASSUME NEW region \in SUBSET Cells, NEW P, \A C \in P : IsComponent(C, region),
         NEW C, IsComponent(C, region \ UNION P)
  PROVE  IsComponent(C, region)
<1> DEFINE rest == region \ UNION P
<1>1. /\ C \in SUBSET rest /\ C # {} /\ Alone(C, rest)
      /\ \A D \in SUBSET C : D # {} /\ Alone(D, rest) => D = C
  BY DEF IsComponent
<1>2. \A q, r \in region : r \in M!Neighbours(q) => q \in M!Neighbours(r)
  BY MutualNeighbours
<1>3. Alone(C, region)
  <2> SUFFICES ASSUME NEW p \in C, NEW q \in region, q \in M!Neighbours(p) PROVE q \in C
    BY DEF Alone
  <2>1. p \in region /\ p \in rest
    BY <1>1
  <2>2. CASE q \in rest
    BY <1>1, <2>2 DEF Alone
  <2>3. CASE q \notin rest
    <3>1. PICK D \in P : q \in D
      BY <2>3
    <3>2. p \in M!Neighbours(q)
      BY <1>2, <2>1
    <3>3. p \in D
      BY <2>1, <3>1, <3>2 DEF IsComponent, Alone
    <3> QED
      BY <2>1, <3>3
  <2> QED
    BY <2>2, <2>3
<1>4. ASSUME NEW D \in SUBSET C, D # {}, Alone(D, region) PROVE D = C
  <2>1. Alone(D, rest)
    BY <1>4 DEF Alone
  <2> HIDE DEF rest
  <2> QED
    BY <1>1, <1>4, <2>1
<1>5. C \in SUBSET region
  BY <1>1
<1> QED
  BY <1>1, <1>3, <1>4, <1>5 DEF IsComponent

\* What has no neighbours in the image reaches its border.
LEMMA ReachesBorder ==
  ASSUME NEW w \in Nat, NEW h \in Nat, NEW C \in SUBSET M!Pixels(w, h), C # {},
         Alone(C, M!Pixels(w, h))
  PROVE  \E p \in C : M!OnBorder(p, w, h)
<1> DEFINE X0 == {p[1] : p \in C}
<1>1. \A p \in C : p = <<p[1], p[2]>> /\ p[1] \in 0 .. w - 1 /\ p[2] \in 0 .. h - 1
  BY DEF M!Pixels
<1>2. X0 \subseteq Nat /\ X0 # {}
  BY <1>1
<1>3. PICK x \in X0 : \A y \in X0 : x <= y
  <2> HIDE DEF X0
  <2> QED
    BY <1>2, LeastNat
<1>4. PICK p \in C : p[1] = x
  BY <1>3
<1>5. x = 0
  <2> SUFFICES ASSUME x # 0 PROVE FALSE
    OBVIOUS
  <2> DEFINE q == <<p[1] - 1, p[2]>>
  <2>1. q \in M!Neighbours(p)
    BY DEF M!Neighbours
  <2>2. q \in M!Pixels(w, h)
    BY <1>1, <1>4 DEF M!Pixels
  <2>3. q \in C
    <3> HIDE DEF q
    <3> QED
      BY <2>1, <2>2 DEF Alone
  <2>4. x - 1 \in X0
    BY <1>4, <2>3
  <2>5. x \in Nat
    BY <1>2
  <2> HIDE DEF X0
  <2> QED
    BY <1>3, <2>4, <2>5
<1> QED
  BY <1>4, <1>5 DEF M!OnBorder

\* Cleaning a mask of any image leaves no small hole and no sprinkle, whichever
\* of the two makes the other, and touches small regions only, those of
\* background inside the image (sam3_fill_holes, sam3_remove_sprinkles).
THEOREM MasksAlwaysSettle ==
  \A w, h \in Nat : \A mask \in SUBSET M!Pixels(w, h) : \A area \in Int :
      M!Settles(mask, w, h, area)
<1> SUFFICES ASSUME NEW w \in Nat, NEW h \in Nat, NEW mask \in SUBSET M!Pixels(w, h),
                    NEW area \in Int
             PROVE  M!Settles(mask, w, h, area)
  OBVIOUS
<1> DEFINE A == M!Pixels(w, h)
           holes == M!Holes(mask, w, h, area)
           filled == M!FillHoles(mask, w, h, area)
           sprinkles == M!Sprinkles(filled, area)
           m == M!Cleaned(mask, w, h, area)
<1>1. A \in SUBSET Cells /\ IsFiniteSet(A)
  <2>1. A \in SUBSET Cells
    BY DEF M!Pixels, Cells
  <2>2. IsFiniteSet(0 .. w - 1) /\ IsFiniteSet(0 .. h - 1)
    BY FS_Interval
  <2>3. IsFiniteSet((0 .. w - 1) \X (0 .. h - 1))
    BY <2>2, FS_Product
  <2> QED
    BY <2>1, <2>3 DEF M!Pixels
<1>2. \A R : R \subseteq A => R \in SUBSET Cells /\ IsFiniteSet(R)
  <2> HIDE DEF A
  <2>1. \A R : R \subseteq A => IsFiniteSet(R)
    BY <1>1, FS_Subset
  <2> QED
    BY <1>1, <2>1
<1>3. mask \subseteq A
  OBVIOUS
<1>4. holes = {C \in M!Components(A \ mask) :
                 M!Cardinality(C) <= area /\ \A p \in C : ~ M!OnBorder(p, w, h)}
  BY DEF M!Holes
<1>5. filled = mask \cup UNION holes
  BY DEF M!FillHoles
<1>6. sprinkles = {C \in M!Components(filled) : M!Cardinality(C) <= area}
  BY DEF M!Sprinkles
<1>7. m = filled \ UNION sprinkles
  BY DEF M!Cleaned, M!RemoveSprinkles
<1>8. M!Holes(m, w, h, area) = {C \in M!Components(A \ m) :
                 M!Cardinality(C) <= area /\ \A p \in C : ~ M!OnBorder(p, w, h)}
  BY DEF M!Holes
<1>9. M!Sprinkles(m, area) = {C \in M!Components(m) : M!Cardinality(C) <= area}
  BY DEF M!Sprinkles
<1> HIDE DEF A, holes, filled, sprinkles, m
<1>10. \A C \in holes : /\ IsComponent(C, A \ mask) /\ C \in M!Components(A \ mask)
                        /\ M!Cardinality(C) <= area
                        /\ \A p \in C : ~ M!OnBorder(p, w, h)
  <2>1. A \ mask \in SUBSET Cells /\ IsFiniteSet(A \ mask)
    BY <1>2
  <2> QED
    BY <1>4, <2>1, ComponentsAre
<1>11. filled \subseteq A
  BY <1>3, <1>5, <1>10 DEF IsComponent
<1>12. m \subseteq filled /\ m \subseteq A
  BY <1>7, <1>11
<1>13. \A C \in sprinkles : IsComponent(C, filled) /\ M!Cardinality(C) <= area
  <2>1. filled \in SUBSET Cells /\ IsFiniteSet(filled)
    BY <1>2, <1>11
  <2> QED
    BY <1>6, <2>1, ComponentsAre
<1>14. A \ filled = (A \ mask) \ UNION holes
  BY <1>5
<1>15. \A C, D : C \subseteq D /\ D \subseteq A => M!Cardinality(C) <= M!Cardinality(D)
                   /\ M!Cardinality(C) \in Int /\ M!Cardinality(D) \in Int
  <2> SUFFICES ASSUME NEW C, NEW D, C \subseteq D, D \subseteq A
               PROVE  M!Cardinality(C) <= M!Cardinality(D)
                        /\ M!Cardinality(C) \in Int /\ M!Cardinality(D) \in Int
    OBVIOUS
  <2>1. IsFiniteSet(C) /\ IsFiniteSet(D)
    <3>1. C \subseteq A
      OBVIOUS
    <3> QED
      BY <1>2, <3>1
  <2>2. Cardinality(C) \in Nat /\ Cardinality(D) \in Nat
    BY <2>1, FS_CardinalityType
  <2>3. Cardinality(C) <= Cardinality(D)
    BY <2>1, FS_Subset
  <2>4. M!Cardinality(C) = Cardinality(C) /\ M!Cardinality(D) = Cardinality(D)
    BY CountIs
  <2> QED
    BY <2>2, <2>3, <2>4
<1>16. M!Sprinkles(m, area) = {}
  <2> SUFFICES ASSUME NEW C \in M!Components(m), M!Cardinality(C) <= area PROVE FALSE
    BY <1>9
  <2>1. IsComponent(C, m)
    BY <1>2, <1>12, ComponentsAre
  <2>2. filled \in SUBSET Cells /\ IsFiniteSet(filled)
    BY <1>2, <1>11
  <2>3. IsComponent(C, filled \ UNION sprinkles)
    BY <1>7, <2>1
  <2>4. IsComponent(C, filled)
    BY <1>13, <2>2, <2>3, OthersStay
  <2>5. C \in M!Components(filled)
    BY <2>2, <2>4, ComponentsAre
  <2>6. C \in sprinkles
    BY <1>6, <2>5
  <2> QED
    BY <1>7, <2>1, <2>6 DEF IsComponent
<1>17. M!Holes(m, w, h, area) = {}
  <2> SUFFICES ASSUME NEW C \in M!Components(A \ m), M!Cardinality(C) <= area,
                      \A p \in C : ~ M!OnBorder(p, w, h)
               PROVE  FALSE
    BY <1>8
  <2>1. A \ m \in SUBSET Cells /\ IsFiniteSet(A \ m)
    BY <1>2
  <2>2. IsComponent(C, A \ m)
    BY <2>1, ComponentsAre
  <2>3. C \in SUBSET (A \ m) /\ C # {} /\ Alone(C, A \ m)
    BY <2>2 DEF IsComponent
  <2>4. A \ filled \subseteq A \ m /\ A \ filled \in SUBSET Cells /\ IsFiniteSet(A \ filled)
    BY <1>2, <1>12
  <2>5. CASE C \cap (A \ filled) # {}
    <3>1. PICK p \in C : p \in A \ filled
      BY <2>5
    <3>2. PICK D \in M!Components(A \ filled) : p \in D
      BY <2>4, <3>1, ComponentsAre
    <3>3. IsComponent(D, A \ filled)
      BY <2>4, ComponentsAre
    <3>4. D \cap C # {}
      BY <3>1, <3>2
    <3>5. D \subseteq C
      BY <2>2, <2>4, <3>3, <3>4, SmallerInLarger
    <3>6. A \ mask \in SUBSET Cells /\ IsFiniteSet(A \ mask)
      BY <1>2
    <3>7. IsComponent(D, (A \ mask) \ UNION holes)
      BY <1>14, <3>3
    <3>8. IsComponent(D, A \ mask)
      BY <1>10, <3>6, <3>7, OthersStay
    <3>9. D \in M!Components(A \ mask)
      BY <3>6, <3>8, ComponentsAre
    <3>10. M!Cardinality(D) <= area
      <4>1. C \subseteq A
        BY <2>3
      <4> QED
        BY <1>15, <3>5, <4>1
    <3>11. \A q \in D : ~ M!OnBorder(q, w, h)
      BY <3>5
    <3>12. D \in holes
      BY <1>4, <3>9, <3>10, <3>11
    <3> QED
      BY <1>5, <3>1, <3>2, <3>12
  <2>6. CASE C \cap (A \ filled) = {}
    <3>1. C \subseteq filled /\ C \subseteq A
      BY <2>3, <2>6
    <3>2. Alone(C, A)
      <4> SUFFICES ASSUME NEW p \in C, NEW q \in A, q \in M!Neighbours(p) PROVE q \in C
        BY DEF Alone
      <4>1. CASE q \in A \ m
        BY <2>3, <4>1 DEF Alone
      <4>2. CASE q \in m
        <5>1. PICK D \in sprinkles : p \in D
          BY <1>7, <2>3, <3>1
        <5>2. q \in filled
          BY <1>12, <4>2
        <5>3. q \in D
          BY <1>13, <5>1, <5>2 DEF IsComponent, Alone
        <5> QED
          BY <1>7, <4>2, <5>3
      <4> QED
        BY <4>1, <4>2
    <3>3. \E p \in C : M!OnBorder(p, w, h)
      BY <2>3, <3>1, <3>2, ReachesBorder DEF A
    <3> QED
      BY <3>3
  <2> QED
    BY <2>5, <2>6
<1> DEFINE small(region) == UNION {C \in M!Components(region) : M!Cardinality(C) <= area}
<1>18. m \ mask \subseteq {p \in small(A \ mask) : ~ M!OnBorder(p, w, h)}
  <2> SUFFICES ASSUME NEW p \in m, p \notin mask
               PROVE  p \in small(A \ mask) /\ ~ M!OnBorder(p, w, h)
    OBVIOUS
  <2>1. PICK C \in holes : p \in C
    BY <1>5, <1>12
  <2> QED
    BY <1>10, <2>1
<1>19. mask \ m \subseteq small(mask)
  <2> SUFFICES ASSUME NEW p \in mask, p \notin m PROVE p \in small(mask)
    OBVIOUS
  <2>1. p \in filled /\ mask \subseteq filled
    BY <1>5
  <2>2. PICK D \in sprinkles : p \in D
    BY <1>7, <2>1
  <2>3. mask \in SUBSET Cells /\ IsFiniteSet(mask)
    BY <1>2, <1>3
  <2>4. PICK C \in M!Components(mask) : p \in C
    BY <2>3, ComponentsAre
  <2>5. IsComponent(C, mask)
    BY <2>3, ComponentsAre
  <2>6. IsComponent(D, filled) /\ M!Cardinality(D) <= area
    BY <1>13
  <2>7. C \cap D # {}
    BY <2>2, <2>4
  <2>8. C \subseteq D
    BY <2>1, <2>5, <2>6, <2>7, SmallerInLarger
  <2>9. D \subseteq A
    BY <1>11, <2>6 DEF IsComponent
  <2>10. M!Cardinality(C) <= area
    BY <1>15, <2>6, <2>8, <2>9
  <2> QED
    BY <2>4, <2>10
<1> QED
  BY <1>16, <1>17, <1>18, <1>19 DEF M!Settles, m, A

-----------------------------------------------------------------------------
(***************************************************************************)
(* Filters.                                                                *)
(***************************************************************************)

\* The values of an image within a distance of p.
Around(image, p, r) ==
    {image[q] : q \in {q \in DOMAIN image :
                    /\ q[1] - p[1] \in (-r) .. r /\ q[2] - p[2] \in (-r) .. r}}

\* Those under the square around p, cut off at the border.
UnderSquare(image, w, h, p, r) ==
    {image[<<F!Clamped(p[1] + dx, w), F!Clamped(p[2] + dy, h)>>] :
        dx \in (-r) .. r, dy \in (-r) .. r}

\* The pixels of an image.
Grid(w, h) == (0 .. (w - 1)) \X (0 .. (h - 1))

\* Cutting off goes towards the middle.
LEMMA ClampedIsNear ==
  ASSUME NEW n \in Nat, NEW i \in 0 .. (n - 1), NEW r \in Nat, NEW d \in (-r) .. r
  PROVE  /\ F!Clamped(i + d, n) \in 0 .. (n - 1)
         /\ F!Clamped(i + d, n) - i \in (-r) .. r
  BY SMT DEF F!Clamped

\* What is inside is not cut off.
LEMMA ClampedIsItself ==
  ASSUME NEW n \in Nat, NEW i \in 0 .. (n - 1), NEW j \in 0 .. (n - 1)
  PROVE  F!Clamped(i + (j - i), n) = j
  BY SMT DEF F!Clamped

\* What erosion takes the least of are the values near a pixel, those outside the
\* image being repetitions of its border.
LEMMA SquareIsAround ==
  ASSUME NEW w \in Nat, NEW h \in Nat, NEW image, DOMAIN image = Grid(w, h), NEW r \in Nat,
         NEW p \in Grid(w, h)
  PROVE  UnderSquare(image, w, h, p, r) = Around(image, p, r)
<1> DEFINE x == p[1]
           y == p[2]
           R == (-r) .. r
           X0 == 0 .. (w - 1)
           Y0 == 0 .. (h - 1)
<1>1. x \in X0 /\ y \in Y0
  BY DEF Grid
<1>2. \A d \in R : F!Clamped(x + d, w) \in X0 /\ F!Clamped(x + d, w) - x \in R
  BY <1>1, ClampedIsNear
<1>3. \A d \in R : F!Clamped(y + d, h) \in Y0 /\ F!Clamped(y + d, h) - y \in R
  BY <1>1, ClampedIsNear
<1>4. \A i \in X0 : F!Clamped(x + (i - x), w) = i
  BY <1>1, ClampedIsItself
<1>5. \A i \in Y0 : F!Clamped(y + (i - y), h) = i
  BY <1>1, ClampedIsItself
<1>6. UnderSquare(image, w, h, p, r) =
        {image[<<F!Clamped(x + dx, w), F!Clamped(y + dy, h)>>] : dx \in R, dy \in R}
  BY DEF UnderSquare
<1>7. Around(image, p, r) = {image[q] : q \in {q \in Grid(w, h) : q[1] - x \in R /\ q[2] - y \in R}}
  BY DEF Around
<1>8. Grid(w, h) = X0 \X Y0
  BY DEF Grid
<1> HIDE DEF x, y, R, X0, Y0
<1>9. ASSUME NEW dx \in R, NEW dy \in R
      PROVE  <<F!Clamped(x + dx, w), F!Clamped(y + dy, h)>>
                \in {q \in Grid(w, h) : q[1] - x \in R /\ q[2] - y \in R}
  <2> DEFINE a == F!Clamped(x + dx, w)
             b == F!Clamped(y + dy, h)
  <2>1. a \in X0 /\ a - x \in R /\ b \in Y0 /\ b - y \in R
    BY <1>2, <1>3
  <2> HIDE DEF a, b
  <2>2. <<a, b>> \in {q \in Grid(w, h) : q[1] - x \in R /\ q[2] - y \in R}
    BY <1>8, <2>1
  <2> QED
    BY <2>2 DEF a, b
<1>10. ASSUME NEW q \in Grid(w, h), q[1] - x \in R, q[2] - y \in R
       PROVE  \E dx \in R, dy \in R : q = <<F!Clamped(x + dx, w), F!Clamped(y + dy, h)>>
  <2>1. q = <<q[1], q[2]>> /\ q[1] \in X0 /\ q[2] \in Y0
    BY <1>8
  <2>2. F!Clamped(x + (q[1] - x), w) = q[1] /\ F!Clamped(y + (q[2] - y), h) = q[2]
    BY <1>4, <1>5, <2>1
  <2> DEFINE a == q[1] - x
             b == q[2] - y
  <2>3. F!Clamped(x + a, w) = q[1] /\ F!Clamped(y + b, h) = q[2] /\ a \in R /\ b \in R
    BY <1>10, <2>2
  <2> HIDE DEF a, b
  <2> QED
    BY <2>1, <2>3
<1> DEFINE U == {image[<<F!Clamped(x + dx, w), F!Clamped(y + dy, h)>>] : dx \in R, dy \in R}
           N == {q \in Grid(w, h) : q[1] - x \in R /\ q[2] - y \in R}
           W == {image[q] : q \in N}
<1>11. ASSUME NEW v \in U PROVE v \in W
  <2>1. PICK dx \in R, dy \in R : v = image[<<F!Clamped(x + dx, w), F!Clamped(y + dy, h)>>]
    OBVIOUS
  <2>2. <<F!Clamped(x + dx, w), F!Clamped(y + dy, h)>> \in N
    BY <1>9
  <2> HIDE DEF N
  <2> QED
    BY <2>1, <2>2
<1>12. ASSUME NEW v \in W PROVE v \in U
  <2>1. PICK q \in N : v = image[q]
    OBVIOUS
  <2>2. PICK dx \in R, dy \in R : q = <<F!Clamped(x + dx, w), F!Clamped(y + dy, h)>>
    BY <1>10
  <2> QED
    BY <2>1, <2>2
<1>13. UnderSquare(image, w, h, p, r) = U /\ Around(image, p, r) = W
  BY <1>6, <1>7
<1> HIDE DEF U, W, N
<1>14. U = W
  BY <1>11, <1>12
<1> QED
  BY <1>13, <1>14

\* The least and the greatest of finitely many numbers.
LEMMA LeastAndGreatest ==
  ASSUME NEW A, IsFiniteSet(A), A \subseteq Int, A # {}
  PROVE  /\ F!Max(A) \in A /\ \A x \in A : x <= F!Max(A)
         /\ F!Min(A) \in A /\ \A x \in A : F!Min(A) <= x
<1>1. F!Max(A) \in A /\ \A x \in A : x <= F!Max(A)
  <2>1. PICK m \in A : \A x \in A : x <= m
    BY FiniteMax
  <2>2. \A x \in A : m >= x
    BY <2>1
  <2>3. F!Max(A) \in A /\ \A x \in A : F!Max(A) >= x
    BY <2>2 DEF F!Max
  <2> QED
    BY <2>3
<1>2. F!Min(A) \in A /\ \A x \in A : F!Min(A) <= x
  <2> DEFINE B == {0 - x : x \in A}
             f == [x \in A |-> 0 - x]
  <2>1. IsFiniteSet(B)
    <3>1. f \in Surjection(A, B)
      BY DEF Surjection
    <3> HIDE DEF f, B
    <3> QED
      BY <3>1, FS_Surjection
  <2>2. B \subseteq Int /\ B # {}
    <3>1. PICK a \in A : TRUE
      OBVIOUS
    <3>2. 0 - a \in B
      BY <3>1
    <3>3. \A v \in B : v \in Int
      OBVIOUS
    <3> HIDE DEF B
    <3> QED
      BY <3>2, <3>3
  <2>3. PICK m \in B : \A x \in B : x <= m
    <3> HIDE DEF B
    <3> QED
      BY <2>1, <2>2, FiniteMax
  <2>4. PICK k \in A : m = 0 - k
    BY <2>3
  <2>5. \A x \in A : k <= x
    BY <2>3, <2>4
  <2>6. F!Min(A) \in A /\ \A x \in A : F!Min(A) <= x
    BY <2>5 DEF F!Min
  <2> QED
    BY <2>6
<1> QED
  BY <1>1, <1>2

\* There are some such values, and finitely many.
LEMMA AroundIsFinite ==
  ASSUME NEW w \in Nat, NEW h \in Nat, NEW image \in [Grid(w, h) -> Int], NEW r \in Nat,
         NEW p \in Grid(w, h)
  PROVE  /\ IsFiniteSet(Around(image, p, r)) /\ Around(image, p, r) \subseteq Int
         /\ image[p] \in Around(image, p, r)
<1> DEFINE N == {q \in Grid(w, h) : q[1] - p[1] \in (-r) .. r /\ q[2] - p[2] \in (-r) .. r}
           W == {image[q] : q \in N}
           f == [q \in N |-> image[q]]
<1>1. IsFiniteSet(Grid(w, h))
  <2>1. IsFiniteSet(0 .. (w - 1)) /\ IsFiniteSet(0 .. (h - 1))
    BY FS_Interval
  <2> QED
    BY <2>1, FS_Product DEF Grid
<1>2. N \subseteq Grid(w, h) /\ IsFiniteSet(N)
  <2>1. N \subseteq Grid(w, h)
    OBVIOUS
  <2> HIDE DEF N
  <2> QED
    BY <1>1, <2>1, FS_Subset
<1>3. Around(image, p, r) = W
  BY DEF Around
<1>4. p \in N
  <2>1. p[1] \in Int /\ p[2] \in Int
    BY DEF Grid
  <2>2. p[1] - p[1] \in (-r) .. r /\ p[2] - p[2] \in (-r) .. r
    BY <2>1
  <2> QED
    BY <2>2
<1> HIDE DEF N
<1>5. IsFiniteSet(W)
  <2>1. f \in Surjection(N, W)
    BY DEF Surjection
  <2> HIDE DEF f, W
  <2> QED
    BY <1>2, <2>1, FS_Surjection
<1>6. W \subseteq Int /\ image[p] \in W
  BY <1>2, <1>4
<1> QED
  BY <1>3, <1>5, <1>6

\* What erosion computes.
LEMMA ErodedIsLeast ==
  ASSUME NEW w \in Nat, NEW h \in Nat, NEW image \in [Grid(w, h) -> Int], NEW r \in Nat,
         NEW p \in Grid(w, h)
  PROVE  F!Erosion(image, w, h, r)[p] = F!Min(Around(image, p, r))
<1>1. F!Erosion(image, w, h, r)[p] = F!Min(UnderSquare(image, w, h, p, r))
  BY DEF F!Erosion, UnderSquare, Grid
<1>2. DOMAIN image = Grid(w, h)
  OBVIOUS
<1>3. UnderSquare(image, w, h, p, r) = Around(image, p, r)
  BY <1>2, SquareIsAround
<1> QED
  BY <1>1, <1>3

\* The least value of the complement is the complement of the greatest.
LEMMA LeastOfInverted ==
  ASSUME NEW w \in Nat, NEW h \in Nat, NEW image \in [Grid(w, h) -> Int], NEW r \in Nat,
         NEW p \in Grid(w, h), NEW one \in Int
  PROVE  one - F!Min(Around(F!Inverted(image, one), p, r)) = F!Max(Around(image, p, r))
<1> DEFINE inverted == F!Inverted(image, one)
           N == {q \in Grid(w, h) : q[1] - p[1] \in (-r) .. r /\ q[2] - p[2] \in (-r) .. r}
           A == Around(image, p, r)
           B == Around(inverted, p, r)
<1>1. inverted \in [Grid(w, h) -> Int] /\ \A q \in Grid(w, h) : inverted[q] = one - image[q]
  BY DEF F!Inverted
<1>2. A = {image[q] : q \in N}
  BY DEF Around
<1> HIDE DEF inverted
<1>3. B = {inverted[q] : q \in N}
  BY <1>1 DEF Around
<1>4. /\ IsFiniteSet(A) /\ A \subseteq Int /\ A # {}
      /\ IsFiniteSet(B) /\ B \subseteq Int /\ B # {}
  BY <1>1, AroundIsFinite
<1>5. N \subseteq Grid(w, h)
  OBVIOUS
<1> HIDE DEF A, B, N
<1>6. /\ F!Max(A) \in A /\ \A x \in A : x <= F!Max(A)
      /\ F!Min(B) \in B /\ \A x \in B : F!Min(B) <= x
  BY <1>4, LeastAndGreatest
<1>7. \A x \in A : one - x \in B
  <2> SUFFICES ASSUME NEW x \in A PROVE one - x \in B
    OBVIOUS
  <2>1. PICK q \in N : x = image[q]
    BY <1>2
  <2>2. inverted[q] = one - x
    BY <1>1, <1>5, <2>1
  <2>3. inverted[q] \in B
    BY <1>3
  <2> QED
    BY <2>2, <2>3
<1>8. \A y \in B : one - y \in A
  <2> SUFFICES ASSUME NEW y \in B PROVE one - y \in A
    OBVIOUS
  <2>1. PICK q \in N : y = inverted[q]
    BY <1>3
  <2>2. y = one - image[q] /\ image[q] \in Int
    BY <1>1, <1>5, <2>1
  <2>3. image[q] = one - y
    BY <2>2
  <2>4. image[q] \in A
    BY <1>2
  <2> QED
    BY <2>3, <2>4
<1>9. F!Min(B) <= one - F!Max(A)
  BY <1>6, <1>7
<1>10. one - F!Min(B) <= F!Max(A)
  BY <1>6, <1>8
<1>11. F!Max(A) \in Int /\ F!Min(B) \in Int
  BY <1>4, <1>6
<1>12. one - F!Min(B) = F!Max(A)
  BY <1>9, <1>10, <1>11
<1> QED
  BY <1>12 DEF A, B, inverted

\* mask_offset moves the border of a mask of any size by the radius and no
\* farther: a pixel gets the least (the greatest) value of those in the image
\* within it.
THEOREM OffsetsMoveBorders ==
  \A w, h \in Nat : \A image \in [Grid(w, h) -> Int] : \A radius, one \in Int :
      F!OffsetMovesBorder(image, w, h, radius, one)
<1> SUFFICES ASSUME NEW w \in Nat, NEW h \in Nat, NEW image \in [Grid(w, h) -> Int],
                    NEW radius \in Int, NEW one \in Int
             PROVE  F!OffsetMovesBorder(image, w, h, radius, one)
  OBVIOUS
<1> DEFINE r0 == IF radius < 0 THEN -radius ELSE radius
<1>1. ASSUME NEW p \in Grid(w, h)
      PROVE  F!MaskOffset(image, w, h, radius, one)[p] =
               IF radius <= 0 THEN F!Min(Around(image, p, r0)) ELSE F!Max(Around(image, p, r0))
  <2>1. CASE radius < 0
    <3> DEFINE r == -radius
    <3>1. r \in Nat
      BY <2>1
    <3>2. F!MaskOffset(image, w, h, radius, one) = F!Erosion(image, w, h, r)
      BY <2>1 DEF F!MaskOffset
    <3>3. radius <= 0
      BY <2>1
    <3> HIDE DEF r
    <3>4. F!MaskOffset(image, w, h, radius, one)[p] = F!Min(Around(image, p, r))
      BY <3>1, <3>2, ErodedIsLeast
    <3> QED
      BY <2>1, <3>3, <3>4 DEF r
  <2>2. CASE radius = 0
    <3>1. F!MaskOffset(image, w, h, radius, one) = image
      BY <2>2 DEF F!MaskOffset
    <3> DEFINE A == Around(image, p, 0)
    <3>2. p[1] \in Int /\ p[2] \in Int
      BY DEF Grid
    <3>3. \A v \in A : v = image[p]
      <4> SUFFICES ASSUME NEW q \in Grid(w, h), q[1] - p[1] \in (-0) .. 0, q[2] - p[2] \in (-0) .. 0
                   PROVE  image[q] = image[p]
        BY DEF Around
      <4>1. q[1] \in Int /\ q[2] \in Int /\ q = <<q[1], q[2]>> /\ p = <<p[1], p[2]>>
        BY DEF Grid
      <4>2. q[1] = p[1] /\ q[2] = p[2]
        BY <3>2, <4>1
      <4> QED
        BY <4>1, <4>2
    <3>4. IsFiniteSet(A) /\ A \subseteq Int /\ image[p] \in A
      BY AroundIsFinite
    <3> HIDE DEF A
    <3>5. F!Min(A) \in A
      BY <3>4, LeastAndGreatest
    <3>6. F!MaskOffset(image, w, h, radius, one)[p] = F!Min(A)
      BY <3>1, <3>3, <3>5
    <3> QED
      BY <2>2, <3>6 DEF A
  <2>3. CASE radius > 0
    <3> DEFINE inverted == F!Inverted(image, one)
               eroded == F!Erosion(inverted, w, h, radius)
    <3>1. radius \in Nat /\ ~(radius < 0) /\ ~(radius <= 0) /\ radius # 0
      BY <2>3
    <3>2. F!MaskOffset(image, w, h, radius, one) = F!Inverted(eroded, one)
      BY <3>1 DEF F!MaskOffset
    <3>3. inverted \in [Grid(w, h) -> Int]
      BY DEF F!Inverted
    <3>4. DOMAIN eroded = Grid(w, h)
      BY DEF F!Erosion, Grid
    <3> HIDE DEF inverted
    <3>5. eroded[p] = F!Min(Around(inverted, p, radius))
      BY <3>1, <3>3, ErodedIsLeast
    <3> HIDE DEF eroded
    <3>6. F!Inverted(eroded, one)[p] = one - eroded[p]
      BY <3>4 DEF F!Inverted
    <3>7. one - F!Min(Around(inverted, p, radius)) = F!Max(Around(image, p, radius))
      BY <3>1, LeastOfInverted DEF inverted
    <3>8. F!MaskOffset(image, w, h, radius, one)[p] = F!Max(Around(image, p, radius))
      BY <3>2, <3>5, <3>6, <3>7
    <3> QED
      BY <3>1, <3>8
  <2> QED
    BY <2>1, <2>2, <2>3
<1>2. DOMAIN image = Grid(w, h)
  OBVIOUS
<1> HIDE DEF r0
<1>3. \A p \in DOMAIN image :
         F!MaskOffset(image, w, h, radius, one)[p] =
             IF radius <= 0 THEN F!Min(Around(image, p, r0)) ELSE F!Max(Around(image, p, r0))
  BY <1>1, <1>2
<1> QED
  BY <1>3 DEF F!OffsetMovesBorder, Around, r0

\* A sum of one summand more or less.
LEMMA TotalWith ==
  ASSUME NEW A, IsFiniteSet(A), NEW x, x \notin A, NEW f, f[x] \in Int, \A y \in A : f[y] \in Int
  PROVE  Total(f, A \cup {x}) = f[x] + Total(f, A) /\ Total(f, A) \in Int
<1>1. IsFiniteSet(A \cup {x}) /\ \A y \in A \cup {x} : f[y] \in Int
  BY FS_AddElement
<1>2. x \in A \cup {x}
  OBVIOUS
<1>3. /\ Total(f, (A \cup {x}) \ {x}) \in Int
      /\ Total(f, A \cup {x}) = f[x] + Total(f, (A \cup {x}) \ {x})
  BY <1>1, <1>2, TotalFacts
<1>4. (A \cup {x}) \ {x} = A
  OBVIOUS
<1> QED
  BY <1>3, <1>4

\* Equal summands make equal sums.
LEMMA TotalSame ==
  ASSUME NEW A, NEW f, NEW g, \A x \in A : f[x] = g[x]
  PROVE  Total(f, A) = Total(g, A)
<1> DEFINE P(s0) == [s \in SUBSET A |-> IF s = {} THEN 0
                       ELSE f[CHOOSE x \in s : TRUE] + s0[s \ {CHOOSE x \in s : TRUE}]]
           Q(s0) == [s \in SUBSET A |-> IF s = {} THEN 0
                       ELSE g[CHOOSE x \in s : TRUE] + s0[s \ {CHOOSE x \in s : TRUE}]]
<1>1. \A s0 : P(s0) = Q(s0)
  <2> SUFFICES ASSUME NEW s \in SUBSET A, s # {}
               PROVE  f[CHOOSE x \in s : TRUE] = g[CHOOSE x \in s : TRUE]
    OBVIOUS
  <2>1. (CHOOSE x \in s : TRUE) \in A
    OBVIOUS
  <2> QED
    BY <2>1
<1>2. (CHOOSE s0 : s0 = P(s0)) = (CHOOSE s0 : s0 = Q(s0))
  <2> HIDE DEF P, Q
  <2> QED
    BY <1>1
<1>3. Total(f, A) = (CHOOSE s0 : s0 = P(s0))[A]
  BY DEF Total, S!MapThenSumSet, S!MapThenFoldSet
<1>4. Total(g, A) = (CHOOSE s0 : s0 = Q(s0))[A]
  BY DEF Total, S!MapThenSumSet, S!MapThenFoldSet
<1> HIDE DEF P, Q
<1> QED
  BY <1>2, <1>3, <1>4

\* c is a column of f that U does not have.
IsColumn(c, f, A, b, U) ==
    /\ \A a \in A : <<a, b>> \notin U
    /\ \A a \in A : f[<<a, b>>] = c[a]
    /\ \A a \in A : c[a] \in Int

\* The sum of one column more.
LEMMA ColumnSum ==
  ASSUME NEW A, IsFiniteSet(A), NEW U, IsFiniteSet(U), NEW b, NEW f, NEW c,
         IsColumn(c, f, A, b, U), \A u \in U : f[u] \in Int
  PROVE  Total(f, U \cup (A \X {b})) = Total(f, U) + Total(c, A)
<1>0. /\ \A a \in A : <<a, b>> \notin U
      /\ \A a \in A : f[<<a, b>>] = c[a]
      /\ \A a \in A : c[a] \in Int
  BY DEF IsColumn
<1> DEFINE W(s) == U \cup (s \X {b})
           Z == {s \in SUBSET A : Total(f, W(s)) # Total(f, U) + Total(c, s)}
<1>1. Total(f, U) \in Int
  BY TotalFacts
<1>2. \A s \in SUBSET A : IsFiniteSet(W(s)) /\ \A u \in W(s) : f[u] \in Int
  <2> SUFFICES ASSUME NEW s \in SUBSET A
               PROVE  IsFiniteSet(W(s)) /\ \A u \in W(s) : f[u] \in Int
    OBVIOUS
  <2>1. IsFiniteSet(s) /\ IsFiniteSet({b})
    BY FS_Subset, FS_Singleton
  <2>2. IsFiniteSet(s \X {b})
    BY <2>1, FS_Product
  <2>3. IsFiniteSet(W(s))
    BY <2>2, FS_Union
  <2>4. \A u \in s \X {b} : \E a \in A : u = <<a, b>>
    OBVIOUS
  <2> QED
    BY <1>0, <2>3, <2>4
<1>3. Z = {}
  <2> SUFFICES ASSUME Z # {} PROVE FALSE
    OBVIOUS
  <2>1. PICK s \in Z : \A x \in s : s \ {x} \notin Z
    <3>1. Z \in SUBSET (SUBSET A)
      OBVIOUS
    <3> HIDE DEF Z
    <3> QED
      BY <3>1, SmallestSet
  <2>2. s \in SUBSET A /\ Total(f, W(s)) # Total(f, U) + Total(c, s)
    BY <2>1
  <2>3. s # {}
    <3> SUFFICES ASSUME s = {} PROVE FALSE
      OBVIOUS
    <3>1. W(s) = U
      OBVIOUS
    <3>2. Total(c, {}) = 0
      BY <1>0, TotalFacts
    <3> HIDE DEF W
    <3> QED
      BY <1>1, <2>2, <3>1, <3>2
  <2>4. PICK a \in s : TRUE
    BY <2>3
  <2> DEFINE t == s \ {a}
  <2>5. t \in SUBSET A /\ t \notin Z /\ a \in A
    BY <2>1, <2>2, <2>4
  <2>6. Total(f, W(t)) = Total(f, U) + Total(c, t)
    BY <2>5
  <2>7. W(s) = W(t) \cup {<<a, b>>} /\ <<a, b>> \notin W(t)
    BY <1>0, <2>5
  <2>8. IsFiniteSet(s) /\ \A x \in s : c[x] \in Int
    BY <1>0, <2>2, FS_Subset
  <2>9. Total(c, s) = c[a] + Total(c, t) /\ Total(c, t) \in Int /\ c[a] \in Int
    BY <2>4, <2>8, TotalFacts
  <2>10. f[<<a, b>>] = c[a]
    BY <1>0, <2>5
  <2> HIDE DEF W, t, Z
  <2>11. IsFiniteSet(W(t)) /\ \A u \in W(t) : f[u] \in Int
    BY <1>2, <2>5
  <2>12. Total(f, W(s)) = f[<<a, b>>] + Total(f, W(t))
    <3> DEFINE V == W(t)
               u0 == <<a, b>>
    <3>1. IsFiniteSet(V) /\ u0 \notin V /\ f[u0] \in Int /\ \A u \in V : f[u] \in Int
      BY <2>7, <2>9, <2>10, <2>11
    <3>2. W(s) = V \cup {u0}
      BY <2>7
    <3> HIDE DEF V, u0
    <3>3. Total(f, W(s)) = f[u0] + Total(f, V)
      BY <3>1, <3>2, TotalWith
    <3> QED
      BY <3>3 DEF V, u0
  <2> DEFINE x1 == Total(f, W(s))
             x2 == Total(f, W(t))
             x3 == Total(f, U)
             x4 == Total(c, s)
             x5 == Total(c, t)
             x6 == c[a]
  <2>13. /\ x1 # x3 + x4 /\ x2 = x3 + x5 /\ x4 = x6 + x5 /\ x1 = x6 + x2
         /\ x3 \in Int /\ x5 \in Int /\ x6 \in Int
    BY <1>1, <2>2, <2>6, <2>9, <2>10, <2>12
  <2> HIDE DEF x1, x2, x3, x4, x5, x6
  <2> QED
    BY <2>13
<1> QED
  BY <1>3

\* The columns of f, and their sums.
AreColumns(c, g, f, A, B) ==
    /\ \A b \in B : \A a \in A : f[<<a, b>>] = c[b][a] /\ c[b][a] \in Int
    /\ \A b \in B : g[b] = Total(c[b], A)

\* A sum over a rectangle, column by column.
LEMMA RectangleSum ==
  ASSUME NEW A, IsFiniteSet(A), NEW B, IsFiniteSet(B), NEW f, NEW c, NEW g,
         AreColumns(c, g, f, A, B)
  PROVE  Total(f, A \X B) = Total(g, B)
<1>0. /\ \A b \in B : \A a \in A : f[<<a, b>>] = c[b][a] /\ c[b][a] \in Int
      /\ \A b \in B : g[b] = Total(c[b], A)
  BY DEF AreColumns
<1> DEFINE Z == {s \in SUBSET B : Total(f, A \X s) # Total(g, s)}
<1>1. \A b \in B : g[b] \in Int
  BY <1>0, TotalFacts
<1>2. \A s \in SUBSET B : /\ IsFiniteSet(s) /\ IsFiniteSet(A \X s)
                          /\ \A u \in A \X s : f[u] \in Int
  <2> SUFFICES ASSUME NEW s \in SUBSET B
               PROVE  /\ IsFiniteSet(s) /\ IsFiniteSet(A \X s)
                      /\ \A u \in A \X s : f[u] \in Int
    OBVIOUS
  <2>1. IsFiniteSet(s)
    BY FS_Subset
  <2>2. IsFiniteSet(A \X s)
    BY <2>1, FS_Product
  <2>3. \A u \in A \X s : \E a \in A, b \in B : u = <<a, b>>
    OBVIOUS
  <2>4. \A u \in A \X s : f[u] \in Int
    BY <1>0, <2>3
  <2> QED
    BY <2>1, <2>2, <2>4
<1>3. Z = {}
  <2> SUFFICES ASSUME Z # {} PROVE FALSE
    OBVIOUS
  <2>1. PICK s \in Z : \A x \in s : s \ {x} \notin Z
    <3>1. Z \in SUBSET (SUBSET B)
      OBVIOUS
    <3> HIDE DEF Z
    <3> QED
      BY <3>1, SmallestSet
  <2>2. s \in SUBSET B /\ Total(f, A \X s) # Total(g, s)
    BY <2>1
  <2>3. s # {}
    <3> SUFFICES ASSUME s = {} PROVE FALSE
      OBVIOUS
    <3>1. A \X s = {}
      OBVIOUS
    <3>2. IsFiniteSet({}) /\ \A x \in {} : f[x] \in Int
      BY FS_EmptySet
    <3>3. Total(f, {}) = 0 /\ Total(g, {}) = 0
      BY <1>1, <3>2, TotalFacts
    <3> QED
      BY <2>2, <3>1, <3>3
  <2>4. PICK b \in s : TRUE
    BY <2>3
  <2> DEFINE t == s \ {b}
             U == A \X t
  <2>5. t \in SUBSET B /\ t \notin Z /\ b \in B
    BY <2>1, <2>2, <2>4
  <2>6. Total(f, U) = Total(g, t)
    BY <2>5
  <2>7. A \X s = U \cup (A \X {b}) /\ \A a \in A : <<a, b>> \notin U
    BY <2>4
  <2>8. IsFiniteSet(U) /\ \A u \in U : f[u] \in Int
    BY <1>2, <2>5
  <2>9. IsFiniteSet(s) /\ \A x \in s : g[x] \in Int
    BY <1>1, <1>2, <2>2
  <2>10. Total(g, s) = g[b] + Total(g, t) /\ Total(g, t) \in Int /\ g[b] \in Int
    <3>1. \A x \in s : Total(g, s \ {x}) \in Int /\ Total(g, s) = g[x] + Total(g, s \ {x})
      BY <2>9, TotalFacts
    <3> QED
      BY <2>4, <2>9, <3>1
  <2> HIDE DEF U, t, Z
  <2> DEFINE k == c[b]
  <2>11. (\A a \in A : f[<<a, b>>] = k[a]) /\ (\A a \in A : k[a] \in Int) /\ g[b] = Total(k, A)
    BY <1>0, <2>5
  <2> HIDE DEF k
  <2>12. Total(f, U \cup (A \X {b})) = Total(f, U) + Total(k, A)
    <3>1. IsFiniteSet(A) /\ IsFiniteSet(U)
      BY <2>8
    <3>2. IsColumn(k, f, A, b, U)
      BY <2>7, <2>11 DEF IsColumn
    <3>3. \A u \in U : f[u] \in Int
      BY <2>8
    <3> QED
      BY <3>1, <3>2, <3>3, ColumnSum
  <2>13. Total(f, A \X s) = Total(g, t) + g[b]
    BY <2>6, <2>7, <2>11, <2>12
  <2> DEFINE x1 == Total(f, A \X s)
             x2 == Total(g, t)
             x3 == Total(g, s)
             x4 == g[b]
  <2>14. x1 # x3 /\ x1 = x2 + x4 /\ x3 = x4 + x2 /\ x2 \in Int /\ x4 \in Int
    BY <2>2, <2>10, <2>13
  <2> HIDE DEF x1, x2, x3, x4
  <2> QED
    BY <2>14
<1>4. Total(f, A \X B) = Total(g, B)
  BY <1>3
<1> QED
  BY <1>4

\* One more of c.
LEMMA Distribution ==
  ASSUME NEW a \in Int, NEW c \in Int
  PROVE  (a + 1) * c = a * c + c
  OBVIOUS

\* A line continued by its ends.
Continued(line, n) == [k \in Int |-> line[F!Clamped(k, n)]]

\* What the box filter is to sum up: the window around x.
Window(line, n, radius, x) == Total(Continued(line, n), (x - radius) .. (x + radius))

\* A line is continued by its own values.
LEMMA ContinuedIn ==
  ASSUME NEW n \in Nat \ {0}, NEW line \in [0 .. (n - 1) -> Int]
  PROVE  /\ Continued(line, n) \in [Int -> Int]
         /\ \A k \in Int : F!Clamped(k, n) \in 0 .. (n - 1)
<1>1. \A k \in Int : F!Clamped(k, n) \in 0 .. (n - 1)
  BY DEF F!Clamped
<1> QED
  BY <1>1 DEF Continued

\* One value enters the window and one leaves it.
LEMMA WindowSlides ==
  ASSUME NEW g \in [Int -> Int], NEW r \in Nat, NEW x \in Int
  PROVE  /\ Total(g, (x - r) .. (x + r)) =
                Total(g, (x - 1 - r) .. (x - 1 + r)) - g[x - r - 1] + g[x + r]
         /\ Total(g, (x - r) .. (x + r)) \in Int
<1> DEFINE lo == x - r - 1
           hi == x + r
           A == (x - r) .. (x + r)
           B == (x - 1 - r) .. (x - 1 + r)
           C == lo .. hi
<1>1. lo \in Int /\ hi \in Int /\ g[lo] \in Int /\ g[hi] \in Int
  OBVIOUS
<1>2. /\ C = A \cup {lo} /\ lo \notin A
      /\ C = B \cup {hi} /\ hi \notin B
  BY SMT
<1>3. IsFiniteSet(A) /\ IsFiniteSet(B)
  <2>1. x - r \in Int /\ x + r \in Int /\ x - 1 - r \in Int /\ x - 1 + r \in Int
    OBVIOUS
  <2> QED
    BY <2>1, FS_Interval
<1>4. (\A y \in A : g[y] \in Int) /\ (\A y \in B : g[y] \in Int)
  OBVIOUS
<1>5. Total(g, (x - r) .. (x + r)) = Total(g, A)
      /\ Total(g, (x - 1 - r) .. (x - 1 + r)) = Total(g, B)
  OBVIOUS
<1>6. g[x - r - 1] = g[lo] /\ g[x + r] = g[hi]
  OBVIOUS
<1> HIDE DEF lo, hi, A, B, C
<1>7. Total(g, A \cup {lo}) = g[lo] + Total(g, A) /\ Total(g, A) \in Int
  BY <1>1, <1>2, <1>3, <1>4, TotalWith
<1>8. Total(g, B \cup {hi}) = g[hi] + Total(g, B) /\ Total(g, B) \in Int
  BY <1>1, <1>2, <1>3, <1>4, TotalWith
<1>9. Total(g, A) = Total(g, B) - g[lo] + g[hi]
  <2> DEFINE a == Total(g, A)
             b == Total(g, B)
             u == g[lo]
             v == g[hi]
  <2>1. u + a = v + b /\ a \in Int /\ b \in Int /\ u \in Int /\ v \in Int
    BY <1>1, <1>2, <1>7, <1>8
  <2> HIDE DEF a, b, u, v
  <2>2. a = b - u + v
    BY <2>1
  <2> QED
    BY <2>2 DEF a, b, u, v
<1> QED
  BY <1>5, <1>6, <1>7, <1>9

\* The window at the left end: the first value stands for those missing.
LEMMA WindowAtStart ==
  ASSUME NEW n \in Nat \ {0}, NEW line \in [0 .. (n - 1) -> Int], NEW r \in 0 .. (n - 1)
  PROVE  F!FirstSum(line, r) = Window(line, n, r, 0)
<1> DEFINE g == Continued(line, n)
           c == line[0]
           S0 == Total(g, 0 .. r)
           Z == {k \in Nat : Total(g, (0 - k) .. r) # k * c + S0}
<1>1. g \in [Int -> Int]
  BY ContinuedIn
<1>2. c \in Int /\ S0 \in Int
  <2>1. c \in Int
    OBVIOUS
  <2>2. IsFiniteSet(0 .. r)
    BY FS_Interval
  <2>3. \A y \in 0 .. r : g[y] \in Int
    BY <1>1
  <2> HIDE DEF g
  <2> QED
    BY <2>1, <2>2, <2>3, TotalFacts
<1>3. \A k \in Int : k < 0 => g[k] = c
  BY DEF Continued, F!Clamped
<1>4. \A k \in 0 .. r : g[k] = line[k]
  <2> SUFFICES ASSUME NEW k \in 0 .. r PROVE g[k] = line[k]
    OBVIOUS
  <2>1. ~(k < 0) /\ ~(k >= n) /\ k \in Int
    OBVIOUS
  <2> QED
    BY <2>1 DEF Continued, F!Clamped
<1>5. F!FirstSum(line, r) = r * c + Total(line, 0 .. r)
  BY DEF F!FirstSum, F!MapThenSumSet, F!MapThenFoldSet, Total, S!MapThenSumSet, S!MapThenFoldSet
<1> HIDE DEF g, c
<1>6. Total(line, 0 .. r) = S0
  BY <1>4, TotalSame
<1> HIDE DEF S0
<1>7. Z = {}
  <2> SUFFICES ASSUME Z # {} PROVE FALSE
    OBVIOUS
  <2>1. PICK k \in Z : \A j \in Z : k <= j
    <3>1. Z \in SUBSET Nat
      OBVIOUS
    <3> HIDE DEF Z
    <3> QED
      BY <3>1, LeastNat
  <2>2. k \in Nat /\ Total(g, (0 - k) .. r) # k * c + S0
    BY <2>1
  <2>3. CASE k = 0
    <3>1. Total(g, (0 - k) .. r) = Total(g, 0 .. r)
      BY <2>3
    <3>2. Total(g, 0 .. r) = S0
      BY DEF S0
    <3> QED
      BY <1>2, <2>2, <2>3, <3>1, <3>2
  <2>4. CASE k # 0
    <3> DEFINE j == k - 1
               A == (0 - j) .. r
               u == 0 - k
    <3>1. j \in Nat /\ k = j + 1 /\ u \in Int /\ u < 0
      BY <2>2, <2>4
    <3>2. j \notin Z
      BY <2>1, <3>1
    <3>3. Total(g, A) = j * c + S0
      BY <3>1, <3>2
    <3>4. (0 - k) .. r = A \cup {u} /\ u \notin A
      BY <3>1
    <3>5. IsFiniteSet(A) /\ \A y \in A : g[y] \in Int
      <4>1. 0 - j \in Int /\ r \in Int
        BY <3>1
      <4>2. IsFiniteSet(A)
        BY <4>1, FS_Interval
      <4>3. \A y \in A : y \in Int
        BY <4>1
      <4> HIDE DEF A
      <4> QED
        BY <1>1, <4>2, <4>3
    <3>6. g[u] = c
      BY <1>3, <3>1
    <3> HIDE DEF A, u, j, Z
    <3>7. Total(g, A \cup {u}) = g[u] + Total(g, A)
      BY <1>2, <3>4, <3>5, <3>6, TotalWith
    <3>8. Total(g, (0 - k) .. r) = c + (j * c + S0)
      BY <3>3, <3>4, <3>6, <3>7
    <3>9. k * c = j * c + c
      BY <1>2, <3>1, Distribution
    <3>10. j * c \in Int
      BY <1>2, <3>1
    <3> DEFINE p == j * c
               q == k * c
               t == Total(g, (0 - k) .. r)
    <3>11. t # q + S0 /\ t = c + (p + S0) /\ q = p + c /\ p \in Int
      BY <2>2, <3>8, <3>9, <3>10
    <3> HIDE DEF p, q, t
    <3> QED
      BY <1>2, <3>11
  <2> QED
    BY <2>3, <2>4
<1>8. Total(g, (0 - r) .. r) = r * c + S0
  BY <1>7
<1>9. Window(line, n, r, 0) = Total(g, (0 - r) .. (0 + r))
  BY DEF Window, g
<1>10. (0 - r) .. (0 + r) = (0 - r) .. r
  OBVIOUS
<1> QED
  BY <1>5, <1>6, <1>8, <1>9, <1>10

\* What one pass of the box filter leaves of a line.
LEMMA LineBlurred ==
  ASSUME NEW n \in Nat \ {0}, NEW line \in [0 .. (n - 1) -> Int], NEW r \in 0 .. (n - 1)
  PROVE  F!BlurLine(line, n, r) = [x \in 0 .. (n - 1) |-> Window(line, n, r, x)]
<1> DEFINE N == 0 .. (n - 1)
           f0 == [x \in N |-> Window(line, n, r, x)]
           Body(g) == [x \in N |-> IF x = 0 THEN F!FirstSum(line, r)
                                   ELSE g[x - 1] - line[F!Clamped(x - r - 1, n)]
                                                 + line[F!Clamped(x + r, n)]]
           g0 == CHOOSE g : g = Body(g)
<1>1. F!FirstSum(line, r) = Window(line, n, r, 0)
  BY WindowAtStart
<1>2. \A x \in Int : Window(line, n, r, x) =
         Window(line, n, r, x - 1) - line[F!Clamped(x - r - 1, n)] + line[F!Clamped(x + r, n)]
  <2> SUFFICES ASSUME NEW x \in Int
               PROVE  Window(line, n, r, x) =
                        Window(line, n, r, x - 1) - line[F!Clamped(x - r - 1, n)]
                                                  + line[F!Clamped(x + r, n)]
    OBVIOUS
  <2> DEFINE g == Continued(line, n)
  <2>1. g \in [Int -> Int]
    BY ContinuedIn
  <2>2. g[x - r - 1] = line[F!Clamped(x - r - 1, n)] /\ g[x + r] = line[F!Clamped(x + r, n)]
    <3>1. x - r - 1 \in Int /\ x + r \in Int
      OBVIOUS
    <3> QED
      BY <3>1 DEF Continued
  <2>3. r \in Nat
    OBVIOUS
  <2> HIDE DEF g
  <2>4. Total(g, (x - r) .. (x + r)) =
          Total(g, (x - 1 - r) .. (x - 1 + r)) - g[x - r - 1] + g[x + r]
    BY <2>1, <2>3, WindowSlides
  <2> QED
    BY <2>2, <2>4 DEF Window, g
<1>3. f0 = Body(f0)
  <2> SUFFICES ASSUME NEW x \in N, x # 0
               PROVE  f0[x] = f0[x - 1] - line[F!Clamped(x - r - 1, n)] + line[F!Clamped(x + r, n)]
    BY <1>1
  <2>1. x - 1 \in N /\ x \in Int
    OBVIOUS
  <2>2. f0[x] = Window(line, n, r, x) /\ f0[x - 1] = Window(line, n, r, x - 1)
    BY <2>1
  <2> HIDE DEF f0
  <2> QED
    BY <1>2, <2>1, <2>2
<1>4. g0 = Body(g0)
  <2> HIDE DEF Body
  <2> QED
    BY <1>3
<1>5. F!BlurLine(line, n, r) = g0
  BY DEF F!BlurLine
<1> HIDE DEF g0
<1>6. DOMAIN g0 = N /\ \A x \in N : g0[x] = IF x = 0 THEN F!FirstSum(line, r)
                                   ELSE g0[x - 1] - line[F!Clamped(x - r - 1, n)]
                                                  + line[F!Clamped(x + r, n)]
  BY <1>4
<1>7. g0 = [x \in N |-> g0[x]]
  BY <1>4
<1> HIDE DEF Body
<1> DEFINE Z == {x \in N : g0[x] # Window(line, n, r, x)}
<1>8. Z = {}
  <2> SUFFICES ASSUME Z # {} PROVE FALSE
    OBVIOUS
  <2>1. PICK x \in Z : \A y \in Z : x <= y
    <3>1. Z \in SUBSET Nat
      OBVIOUS
    <3> HIDE DEF Z
    <3> QED
      BY <3>1, LeastNat
  <2>2. x \in N /\ g0[x] # Window(line, n, r, x)
    BY <2>1
  <2>3. x # 0
    BY <1>1, <1>6, <2>2
  <2>4. x - 1 \in N /\ x \in Int /\ ~(x <= x - 1)
    BY <2>2, <2>3
  <2>5. x - 1 \notin Z
    BY <2>1, <2>4
  <2>6. g0[x - 1] = Window(line, n, r, x - 1)
    BY <2>4, <2>5
  <2>7. g0[x] = g0[x - 1] - line[F!Clamped(x - r - 1, n)] + line[F!Clamped(x + r, n)]
    BY <1>6, <2>2, <2>3
  <2>8. Window(line, n, r, x) =
          Window(line, n, r, x - 1) - line[F!Clamped(x - r - 1, n)] + line[F!Clamped(x + r, n)]
    BY <1>2, <2>4
  <2> HIDE DEF N, Z
  <2> QED
    BY <2>2, <2>6, <2>7, <2>8
<1>9. \A x \in N : g0[x] = Window(line, n, r, x)
  BY <1>8
<1>10. g0 = f0
  BY <1>7, <1>9
<1> QED
  BY <1>5, <1>10

\* A window of the neighbours at a distance.
LEMMA WindowShifts ==
  ASSUME NEW g \in [Int -> Int], NEW r \in Nat, NEW x \in Int
  PROVE  Total([d \in Int |-> g[x + d]], (-r) .. r) = Total(g, (x - r) .. (x + r))
<1> DEFINE f == [d \in Int |-> g[x + d]]
           lo == 0 - r
           A(k) == lo .. (k - 1 - r)
           B(k) == (x - r) .. (x + k - 1 - r)
           Z == {k \in Nat : Total(f, A(k)) # Total(g, B(k))}
<1>1. f \in [Int -> Int] /\ \A d \in Int : f[d] = g[x + d]
  OBVIOUS
<1> HIDE DEF f
<1>2. \A k \in Nat : /\ IsFiniteSet(A(k)) /\ IsFiniteSet(B(k))
                     /\ A(k) \subseteq Int /\ B(k) \subseteq Int
  <2> SUFFICES ASSUME NEW k \in Nat
               PROVE  /\ IsFiniteSet(A(k)) /\ IsFiniteSet(B(k))
                      /\ A(k) \subseteq Int /\ B(k) \subseteq Int
    OBVIOUS
  <2>1. lo \in Int /\ k - 1 - r \in Int /\ x - r \in Int /\ x + k - 1 - r \in Int
    OBVIOUS
  <2>2. IsFiniteSet(A(k)) /\ IsFiniteSet(B(k))
    BY <2>1, FS_Interval
  <2> QED
    BY <2>1, <2>2
<1>3. Z = {}
  <2> SUFFICES ASSUME Z # {} PROVE FALSE
    OBVIOUS
  <2>1. PICK k \in Z : \A j \in Z : k <= j
    <3>1. Z \in SUBSET Nat
      OBVIOUS
    <3> HIDE DEF Z
    <3> QED
      BY <3>1, LeastNat
  <2>2. k \in Nat /\ Total(f, A(k)) # Total(g, B(k))
    BY <2>1
  <2>3. k # 0
    <3> SUFFICES ASSUME k = 0 PROVE FALSE
      OBVIOUS
    <3>1. A(k) = {} /\ B(k) = {}
      <4>1. A(k) = lo .. (lo - 1) /\ B(k) = (x - r) .. (x - r - 1)
        <5>1. k - 1 - r = lo - 1 /\ x + k - 1 - r = x - r - 1
          OBVIOUS
        <5> QED
          BY <5>1
      <4>2. \A a \in Int : a .. (a - 1) = {}
        OBVIOUS
      <4>3. lo \in Int /\ x - r \in Int
        OBVIOUS
      <4> HIDE DEF lo, A, B
      <4> QED
        BY <4>1, <4>2, <4>3
    <3>2. IsFiniteSet({}) /\ (\A y \in {} : f[y] \in Int) /\ (\A y \in {} : g[y] \in Int)
      BY FS_EmptySet
    <3>3. Total(f, {}) = 0 /\ Total(g, {}) = 0
      BY <3>2, TotalFacts
    <3> HIDE DEF A, B
    <3> QED
      BY <2>2, <3>1, <3>3
  <2> DEFINE j == k - 1
             u == k - 1 - r
             v == x + u
  <2>4. j \in Nat /\ k = j + 1 /\ u \in Int /\ v \in Int
    BY <2>2, <2>3
  <2>5. j \notin Z
    <3> HIDE DEF Z, A, B
    <3> QED
      BY <2>1, <2>2, <2>4
  <2>6. Total(f, A(j)) = Total(g, B(j))
    BY <2>4, <2>5
  <2>0. \A a, b \in Int : a <= b => a .. b = (a .. (b - 1)) \cup {b} /\ b \notin a .. (b - 1)
    <3> SUFFICES ASSUME NEW a \in Int, NEW b \in Int, a <= b
                 PROVE  a .. b = (a .. (b - 1)) \cup {b} /\ b \notin a .. (b - 1)
      OBVIOUS
    <3>0. a .. b \subseteq Int /\ a .. (b - 1) \subseteq Int /\ b \in Int
      OBVIOUS
    <3>1. \A y \in Int : y \in a .. b <=> y \in a .. (b - 1) \/ y = b
      <4> SUFFICES ASSUME NEW y \in Int PROVE (y \in a .. b) <=> (y \in a .. (b - 1) \/ y = b)
        OBVIOUS
      <4>1. y \in a .. b <=> a <= y /\ y <= b
        OBVIOUS
      <4>2. y \in a .. (b - 1) <=> a <= y /\ y <= b - 1
        OBVIOUS
      <4>3. y <= b /\ ~(y <= b - 1) => y = b
        OBVIOUS
      <4>4. y = b => a <= y /\ y <= b
        OBVIOUS
      <4>5. y <= b - 1 => y <= b
        OBVIOUS
      <4> QED
        BY <4>1, <4>2, <4>3, <4>4, <4>5, Zenon
    <3>2. b \notin a .. (b - 1)
      OBVIOUS
    <3>3. a .. b = (a .. (b - 1)) \cup {b}
      <4> DEFINE P == a .. b
                 Q == a .. (b - 1)
      <4>1. P \subseteq Int /\ Q \subseteq Int /\ \A y \in Int : y \in P <=> y \in Q \/ y = b
        BY <3>0, <3>1
      <4> HIDE DEF P, Q
      <4>2. P = Q \cup {b}
        BY <3>0, <4>1
      <4> QED
        BY <4>2 DEF P, Q
    <3> QED
      BY <3>2, <3>3
  <2>7. A(k) = A(j) \cup {u} /\ u \notin A(j)
    <3>1. lo <= u /\ lo \in Int /\ A(k) = lo .. u /\ A(j) = lo .. (u - 1)
      <4>1. k - 1 - r = u /\ j - 1 - r = u - 1
        BY <2>4
      <4> QED
        BY <2>4, <4>1
    <3> HIDE DEF lo, u, A, j
    <3> QED
      BY <2>0, <2>4, <3>1
  <2>8. B(k) = B(j) \cup {v} /\ v \notin B(j)
    <3> DEFINE l1 == x - r
    <3>1. l1 <= v /\ l1 \in Int /\ B(k) = l1 .. v /\ B(j) = l1 .. (v - 1)
      <4>1. x + k - 1 - r = v /\ x + j - 1 - r = v - 1
        BY <2>4
      <4> QED
        BY <2>4, <4>1
    <3> HIDE DEF l1, v, u, B, j
    <3> QED
      BY <2>0, <2>4, <3>1
  <2>9. f[u] = g[v]
    BY <1>1, <2>4
  <2>10. g[v] \in Int /\ f[u] \in Int
    BY <2>4, <2>9
  <2> HIDE DEF A, B, Z, u, v, j
  <2>11. /\ IsFiniteSet(A(j)) /\ \A y \in A(j) : f[y] \in Int
         /\ IsFiniteSet(B(j)) /\ \A y \in B(j) : g[y] \in Int
    BY <1>1, <1>2, <2>4
  <2> DEFINE P == A(j)
             Q == B(j)
  <2>12. /\ IsFiniteSet(P) /\ \A y \in P : f[y] \in Int
         /\ IsFiniteSet(Q) /\ \A y \in Q : g[y] \in Int
         /\ u \notin P /\ v \notin Q
         /\ A(k) = P \cup {u} /\ B(k) = Q \cup {v}
         /\ Total(f, P) = Total(g, Q)
    BY <2>6, <2>7, <2>8, <2>11
  <2> HIDE DEF P, Q
  <2>13. Total(f, P \cup {u}) = f[u] + Total(f, P)
    BY <2>10, <2>12, TotalWith
  <2>14. Total(g, Q \cup {v}) = g[v] + Total(g, Q)
    BY <2>10, <2>12, TotalWith
  <2> QED
    BY <2>2, <2>9, <2>12, <2>13, <2>14
<1> DEFINE m == 2 * r + 1
<1>4. m \in Nat
  OBVIOUS
<1>5. Total(f, A(m)) = Total(g, B(m))
  <2> HIDE DEF A, B, m
  <2> QED
    BY <1>3, <1>4
<1>6. A(m) = (-r) .. r /\ B(m) = (x - r) .. (x + r)
  BY SMT
<1> HIDE DEF A, B, m
<1> QED
  BY <1>5, <1>6 DEF f

\* The pixels under a square, as a sum.
LEMMA BoxSumIs ==
  ASSUME NEW image, NEW w, NEW h, NEW radius, NEW p, NEW f, NEW A,
         A = ((-radius) .. radius) \X ((-radius) .. radius),
         \A d \in A : f[d] = image[<<F!Clamped(p[1] + d[1], w), F!Clamped(p[2] + d[2], h)>>]
  PROVE  F!BoxSum(image, w, h, radius, p) = Total(f, A)
<1> DEFINE under(d) == image[<<F!Clamped(p[1] + d[1], w), F!Clamped(p[2] + d[2], h)>>]
           P(g) == [s \in SUBSET A |-> IF s = {} THEN 0
                       ELSE under(CHOOSE x \in s : TRUE) + g[s \ {CHOOSE x \in s : TRUE}]]
           Q(g) == [s \in SUBSET A |-> IF s = {} THEN 0
                       ELSE f[CHOOSE x \in s : TRUE] + g[s \ {CHOOSE x \in s : TRUE}]]
<1>1. \A g : P(g) = Q(g)
  <2> SUFFICES ASSUME NEW s \in SUBSET A, s # {}
               PROVE  under(CHOOSE x \in s : TRUE) = f[CHOOSE x \in s : TRUE]
    OBVIOUS
  <2>1. (CHOOSE x \in s : TRUE) \in A
    OBVIOUS
  <2> QED
    BY <2>1
<1>2. (CHOOSE g : g = P(g)) = (CHOOSE g : g = Q(g))
  <2> HIDE DEF P, Q
  <2> QED
    BY <1>1
<1>3. F!BoxSum(image, w, h, radius, p) = (CHOOSE g : g = P(g))[A]
  BY DEF F!BoxSum, F!MapThenSumSet, F!MapThenFoldSet
<1>4. Total(f, A) = (CHOOSE g : g = Q(g))[A]
  BY DEF Total, S!MapThenSumSet, S!MapThenFoldSet
<1> HIDE DEF P, Q
<1> QED
  BY <1>2, <1>3, <1>4

\* The row of an image, the column of another.
RowAt(image, w, y) == [x \in 0 .. (w - 1) |-> image[<<x, y>>]]

\* The horizontal pass, then the vertical one.
LEMMA TwoPasses ==
  ASSUME NEW w \in Nat \ {0}, NEW h \in Nat \ {0}, NEW image \in [Grid(w, h) -> Int],
         NEW r \in Nat, r < w, r < h
  PROVE  F!Blur(image, w, h, r) =
           [p \in Grid(w, h) |->
              Window([y \in 0 .. (h - 1) |-> Window(RowAt(image, w, y), w, r, p[1])],
                     h, r, p[2])]
<1> DEFINE X0 == 0 .. (w - 1)
           Y0 == 0 .. (h - 1)
           temp == [y \in Y0 |-> F!BlurLine(RowAt(image, w, y), w, r)]
           column(x) == [y \in Y0 |-> temp[y][x]]
           dst == [x \in X0 |-> F!BlurLine(column(x), h, r)]
           passed(x) == [y \in Y0 |-> Window(RowAt(image, w, y), w, r, x)]
<1>1. F!Blur(image, w, h, r) = [p \in Grid(w, h) |-> dst[p[1]][p[2]]]
  BY DEF F!Blur, RowAt, Grid
<1>2. \A y \in Y0 : RowAt(image, w, y) \in [X0 -> Int]
  <2> SUFFICES ASSUME NEW y \in Y0, NEW x \in X0 PROVE image[<<x, y>>] \in Int
    BY DEF RowAt
  <2>1. <<x, y>> \in Grid(w, h)
    BY DEF Grid
  <2> QED
    BY <2>1
<1>3. r \in 0 .. (w - 1) /\ r \in 0 .. (h - 1)
  OBVIOUS
<1>4. \A y \in Y0 : temp[y] = [x \in X0 |-> Window(RowAt(image, w, y), w, r, x)]
  <2> SUFFICES ASSUME NEW y \in Y0
               PROVE  F!BlurLine(RowAt(image, w, y), w, r) =
                        [x \in X0 |-> Window(RowAt(image, w, y), w, r, x)]
    OBVIOUS
  <2> DEFINE line == RowAt(image, w, y)
  <2>1. line \in [0 .. (w - 1) -> Int]
    BY <1>2
  <2> HIDE DEF line
  <2>2. F!BlurLine(line, w, r) = [x \in 0 .. (w - 1) |-> Window(line, w, r, x)]
    BY <1>3, <2>1, LineBlurred
  <2> QED
    BY <2>2 DEF line
<1> HIDE DEF temp
<1>5. \A x \in X0 : column(x) = passed(x)
  BY <1>4
<1>6. \A y \in Y0, x \in X0 : Window(RowAt(image, w, y), w, r, x) \in Int
  <2> SUFFICES ASSUME NEW y \in Y0, NEW x \in X0
               PROVE  Window(RowAt(image, w, y), w, r, x) \in Int
    OBVIOUS
  <2> DEFINE line == RowAt(image, w, y)
             g == Continued(line, w)
  <2>1. line \in [0 .. (w - 1) -> Int]
    BY <1>2
  <2> HIDE DEF line
  <2>2. g \in [Int -> Int]
    BY <2>1, ContinuedIn
  <2>3. x \in Int
    OBVIOUS
  <2>4. Window(line, w, r, x) = Total(g, (x - r) .. (x + r))
    BY DEF Window
  <2> HIDE DEF g
  <2>5. Total(g, (x - r) .. (x + r)) \in Int
    BY <2>2, <2>3, WindowSlides
  <2> QED
    BY <2>4, <2>5 DEF line
<1>7. \A x \in X0 : passed(x) \in [Y0 -> Int]
  BY <1>6
<1>8. \A x \in X0 : dst[x] = [y \in Y0 |-> Window(passed(x), h, r, y)]
  <2> SUFFICES ASSUME NEW x \in X0
               PROVE  dst[x] = [y \in Y0 |-> Window(passed(x), h, r, y)]
    OBVIOUS
  <2> DEFINE line == passed(x)
  <2>1. line \in [0 .. (h - 1) -> Int]
    BY <1>7
  <2>2. dst[x] = F!BlurLine(line, h, r)
    BY <1>5
  <2> HIDE DEF line, dst
  <2>3. F!BlurLine(line, h, r) = [y \in 0 .. (h - 1) |-> Window(line, h, r, y)]
    BY <1>3, <2>1, LineBlurred
  <2> QED
    BY <2>2, <2>3 DEF line
<1> HIDE DEF dst
<1>9. \A p \in Grid(w, h) : p[1] \in X0 /\ p[2] \in Y0
  BY DEF Grid
<1>10. \A p \in Grid(w, h) : dst[p[1]][p[2]] = Window(passed(p[1]), h, r, p[2])
  <2> SUFFICES ASSUME NEW p \in Grid(w, h)
               PROVE  dst[p[1]][p[2]] = Window(passed(p[1]), h, r, p[2])
    OBVIOUS
  <2> DEFINE x == p[1]
             y == p[2]
  <2>1. x \in X0 /\ y \in Y0
    BY <1>9
  <2> HIDE DEF x, y, X0, Y0, passed
  <2>2. dst[x] = [j \in Y0 |-> Window(passed(x), h, r, j)]
    BY <1>8, <2>1
  <2>3. dst[x][y] = Window(passed(x), h, r, y)
    BY <2>1, <2>2
  <2> QED
    BY <2>3 DEF x, y
<1> QED
  BY <1>1, <1>10

\* The box filter of an image of any size is one: "box filter with kernel size
\* 2*radius + 1" (image.h), for every radius below the image's sides.
THEOREM BlursAreBoxes ==
  \A w, h \in Nat \ {0} : \A image \in [Grid(w, h) -> Int] : \A radius \in Nat :
      radius < w /\ radius < h => F!BlurIsBox(image, w, h, radius)
<1> SUFFICES ASSUME NEW w \in Nat \ {0}, NEW h \in Nat \ {0}, NEW image \in [Grid(w, h) -> Int],
                    NEW r \in Nat, r < w, r < h
             PROVE  F!BlurIsBox(image, w, h, r)
  OBVIOUS
<1> DEFINE passed(x) == [y \in 0 .. (h - 1) |-> Window(RowAt(image, w, y), w, r, x)]
           R == (-r) .. r
<1>1. F!Blur(image, w, h, r) = [p \in Grid(w, h) |-> Window(passed(p[1]), h, r, p[2])]
  BY TwoPasses
<1>2. ASSUME NEW p \in Grid(w, h)
      PROVE  Window(passed(p[1]), h, r, p[2]) = F!BoxSum(image, w, h, r, p)
  <2> DEFINE x == p[1]
             y == p[2]
             at(j, k) == image[<<F!Clamped(x + j, w), F!Clamped(y + k, h)>>]
             f == [d \in R \X R |-> at(d[1], d[2])]
             c == [k \in Int |-> [j \in Int |-> at(j, k)]]
             line == passed(x)
             far == Continued(line, h)
             g == [k \in Int |-> far[y + k]]
  <2>1. x \in 0 .. (w - 1) /\ y \in 0 .. (h - 1) /\ x \in Int /\ y \in Int
    BY DEF Grid
  <2>2. (\A k \in Int : F!Clamped(k, w) \in 0 .. (w - 1))
        /\ (\A k \in Int : F!Clamped(k, h) \in 0 .. (h - 1))
    BY DEF F!Clamped
  <2>3. \A j, k \in Int : at(j, k) \in Int
    <3> SUFFICES ASSUME NEW j \in Int, NEW k \in Int PROVE at(j, k) \in Int
      OBVIOUS
    <3> DEFINE a == F!Clamped(x + j, w)
               b == F!Clamped(y + k, h)
    <3>1. a \in 0 .. (w - 1) /\ b \in 0 .. (h - 1)
      BY <2>1, <2>2
    <3> HIDE DEF a, b
    <3>2. <<a, b>> \in Grid(w, h)
      BY <3>1 DEF Grid
    <3>3. image[<<a, b>>] \in Int
      BY <3>2
    <3> QED
      BY <3>3 DEF a, b
  <2>4. \A k \in Int : RowAt(image, w, F!Clamped(y + k, h)) \in [0 .. (w - 1) -> Int]
    <3> SUFFICES ASSUME NEW k \in Int, NEW i \in 0 .. (w - 1)
                 PROVE  image[<<i, F!Clamped(y + k, h)>>] \in Int
      BY DEF RowAt
    <3> DEFINE b == F!Clamped(y + k, h)
    <3>1. b \in 0 .. (h - 1)
      BY <2>1, <2>2
    <3> HIDE DEF b
    <3>2. <<i, b>> \in Grid(w, h)
      BY <3>1 DEF Grid
    <3>3. image[<<i, b>>] \in Int
      BY <3>2
    <3> QED
      BY <3>3 DEF b
  \* A window of a row is a column of the square.
  <2>5. \A k \in Int : g[k] = Total(c[k], R)
    <3> SUFFICES ASSUME NEW k \in Int PROVE far[y + k] = Total(c[k], R)
      OBVIOUS
    <3> DEFINE b == F!Clamped(y + k, h)
               row == RowAt(image, w, b)
               e == Continued(row, w)
               e1 == [j \in Int |-> e[x + j]]
    <3>1. b \in 0 .. (h - 1) /\ y + k \in Int
      BY <2>1, <2>2
    <3>2. far[y + k] = Window(row, w, r, x)
      BY <3>1 DEF Continued
    <3>3. row \in [0 .. (w - 1) -> Int]
      BY <2>4
    <3>4. \A j \in Int : e1[j] = c[k][j]
      <4> SUFFICES ASSUME NEW j \in Int PROVE e[x + j] = at(j, k)
        OBVIOUS
      <4> DEFINE a == F!Clamped(x + j, w)
      <4>1. x + j \in Int /\ a \in 0 .. (w - 1)
        BY <2>1, <2>2
      <4>2. e[x + j] = row[a]
        BY <4>1 DEF Continued
      <4>3. row[a] = image[<<a, b>>]
        BY <4>1 DEF RowAt
      <4> QED
        BY <4>2, <4>3
    <3> HIDE DEF row
    <3>5. e \in [Int -> Int]
      BY <3>3, ContinuedIn
    <3>6. Window(row, w, r, x) = Total(e, (x - r) .. (x + r))
      BY DEF Window
    <3> HIDE DEF e, c, x, far
    <3>7. Total(e1, R) = Total(e, (x - r) .. (x + r))
      BY <2>1, <3>5, WindowShifts
    <3> HIDE DEF e1
    <3>8. Total(e1, R) = Total(c[k], R)
      <4>1. \A j \in R : e1[j] = c[k][j]
        BY <3>4
      <4> DEFINE ck == c[k]
      <4>2. \A j \in R : e1[j] = ck[j]
        BY <4>1
      <4> HIDE DEF ck, R
      <4>3. Total(e1, R) = Total(ck, R)
        BY <4>2, TotalSame
      <4> QED
        BY <4>3 DEF ck
    <3> QED
      BY <3>2, <3>6, <3>7, <3>8
  <2>6. far \in [Int -> Int]
    <3>1. \A j \in 0 .. (h - 1) : Window(RowAt(image, w, j), w, r, x) \in Int
      <4> SUFFICES ASSUME NEW j \in 0 .. (h - 1) PROVE Window(RowAt(image, w, j), w, r, x) \in Int
        OBVIOUS
      <4> DEFINE row == RowAt(image, w, j)
                 e == Continued(row, w)
      <4>1. row \in [0 .. (w - 1) -> Int]
        <5> SUFFICES ASSUME NEW i \in 0 .. (w - 1) PROVE image[<<i, j>>] \in Int
          BY DEF RowAt
        <5>1. <<i, j>> \in Grid(w, h)
          BY DEF Grid
        <5> QED
          BY <5>1
      <4> HIDE DEF row
      <4>2. e \in [Int -> Int]
        BY <4>1, ContinuedIn
      <4>3. Window(row, w, r, x) = Total(e, (x - r) .. (x + r))
        BY DEF Window
      <4> HIDE DEF e, x
      <4>4. Total(e, (x - r) .. (x + r)) \in Int
        BY <2>1, <4>2, WindowSlides
      <4> QED
        BY <4>3, <4>4 DEF row
    <3>2. line \in [0 .. (h - 1) -> Int]
      BY <3>1
    <3> HIDE DEF line
    <3> QED
      BY <3>2, ContinuedIn
  <2>7. Window(line, h, r, y) = Total(far, (y - r) .. (y + r))
    BY DEF Window
  <2>8. F!BoxSum(image, w, h, r, p) = Total(f, R \X R)
    <3> DEFINE A == R \X R
    <3>1. A = ((-r) .. r) \X ((-r) .. r)
      OBVIOUS
    <3>2. \A d \in A : f[d] = image[<<F!Clamped(p[1] + d[1], w), F!Clamped(p[2] + d[2], h)>>]
      OBVIOUS
    <3> HIDE DEF A, f
    <3>3. F!BoxSum(image, w, h, r, p) = Total(f, A)
      BY <3>1, <3>2, BoxSumIs
    <3> QED
      BY <3>3 DEF A
  <2>9. IsFiniteSet(R) /\ R \subseteq Int
    <3>1. -r \in Int /\ r \in Int
      OBVIOUS
    <3>2. IsFiniteSet(R)
      BY <3>1, FS_Interval
    <3> QED
      BY <3>1, <3>2
  <2>10. \A k \in R : \A j \in R : f[<<j, k>>] = c[k][j] /\ c[k][j] \in Int
    <3> SUFFICES ASSUME NEW k \in R, NEW j \in R
                 PROVE  f[<<j, k>>] = c[k][j] /\ c[k][j] \in Int
      OBVIOUS
    <3>1. <<j, k>> \in R \X R /\ j \in Int /\ k \in Int
      BY <2>9
    <3>2. f[<<j, k>>] = at(j, k) /\ c[k][j] = at(j, k)
      BY <3>1
    <3> QED
      BY <2>3, <3>1, <3>2
  <2> HIDE DEF f, c, far, x, y, line, R
  <2>11. \A k \in R : g[k] = Total(c[k], R)
    BY <2>5, <2>9
  <2> HIDE DEF g
  <2>12. Total(f, R \X R) = Total(g, R)
    <3>1. AreColumns(c, g, f, R, R)
      BY <2>10, <2>11 DEF AreColumns
    <3> QED
      BY <2>9, <3>1, RectangleSum
  <2>13. Total(g, R) = Total(far, (y - r) .. (y + r))
    BY <2>1, <2>6, WindowShifts DEF g, R
  <2> QED
    BY <2>7, <2>8, <2>12, <2>13 DEF line, x, y
<1> HIDE DEF passed
<1>3. F!Blur(image, w, h, r) = [p \in Grid(w, h) |-> F!BoxSum(image, w, h, r, p)]
  BY <1>1, <1>2
<1> QED
  BY <1>3 DEF F!BlurIsBox, Grid

-----------------------------------------------------------------------------
\* What the checks of MCAlgorithms give the functions: scored masks and
ScoredMask == [score : Int, mask : SUBSET M!Pixels(2, 2)]

\* images.
SmallImages == [Grid(4, 5) -> Int]
MaskImages == [Grid(MaskWidth, MaskHeight) -> Int]

\* The arguments a function of masks and boxes has been given are its own.
MaskArguments ==
    /\ what = "none" => input = <<>>
    /\ Given("mask") => input \in Masks \X (0 .. MaxArea)
    /\ Given("overlap") => input \in Seq(ScoredMask) /\ M!Sorted(input)
    /\ Given("nms") => input \in Seq(Boxed) /\ M!Sorted(input)
    /\ Given("boxes") => input \in PlainBoxes \X PlainBoxes
    /\ Given("corners") => input \in (0 .. 4) \X (0 .. 4) \X (0 .. 4) \X (0 .. 4)
    /\ Given("prompt") => input \in BOOLEAN \X (0 .. 3) \X (0 .. 3)
    /\ Given("blur") => input \in SmallImages \X {1, 2}
    /\ Given("offset") => input \in MaskImages \X Int

\* Sequences of n.
LEMMA SequencesAre ==
  ASSUME NEW n \in Nat, NEW X1, NEW Y1, X1 \subseteq Y1, NEW s \in [1 .. n -> X1]
  PROVE  s \in Seq(Y1) /\ Len(s) = n
<1>1. \A i \in 1 .. n : s[i] \in Y1
  OBVIOUS
<1>2. s \in [1 .. n -> Y1]
  BY <1>1
<1>3. s \in Seq(Y1)
  BY <1>2, SeqDef
<1> QED
  BY <1>2, <1>3

\* A function of masks and boxes is given one of its arguments (Choose).
LEMMA MaskArgumentsAlways == Spec => []MaskArguments
<1>1. Init => MaskArguments
  BY DEF Init, MaskArguments, Given
<1>2. MaskArguments /\ [Next]_vars => MaskArguments'
  <2> SUFFICES ASSUME MaskArguments, [Next]_vars PROVE MaskArguments'
    OBVIOUS
  <2>1. CASE Pick
    BY <2>1 DEF Pick, MaskArguments, Given
  <2>2. CASE CleanMask
    BY <2>2 DEF CleanMask, Choose, MaskArguments, Given
  <2>3. CASE ResolveMasks
    <3>1. what = "overlap" /\ what' = what /\ input' \in ScoredMasks
      BY <2>3 DEF ResolveMasks, Choose
    <3>2. M!Sorted(input') /\ input' \in [1 .. 3 -> [score : 1 .. 2, mask : SmallMasks]]
      BY <3>1 DEF ScoredMasks
    <3>3. [score : 1 .. 2, mask : SmallMasks] \subseteq ScoredMask
      BY DEF ScoredMask, SmallMasks
    <3>4. input' \in Seq(ScoredMask)
      <4> DEFINE X1 == [score : 1 .. 2, mask : SmallMasks]
                 n == 3
                 s == input'
      <4>1. n \in Nat /\ X1 \subseteq ScoredMask /\ s \in [1 .. n -> X1]
        BY <3>2, <3>3
      <4> HIDE DEF X1, n, s
      <4>2. s \in Seq(ScoredMask)
        BY <4>1, SequencesAre
      <4> QED
        BY <4>2 DEF s
    <3> QED
      BY <3>1, <3>2, <3>4 DEF MaskArguments, Given
  <2>4. CASE Suppress
    <3>1. what = "nms" /\ what' = what /\ input' \in UNION {ScoredBoxes(n) : n \in 0 .. 3}
      BY <2>4 DEF Suppress, Choose
    <3>2. PICK n \in 0 .. 3 : input' \in ScoredBoxes(n)
      BY <3>1
    <3>3. M!Sorted(input') /\ input' \in [1 .. n -> [score : 1 .. 3, box : Boxes]]
      BY <3>2 DEF ScoredBoxes
    <3>4. Boxes \subseteq Corners
      BY DEF Boxes, Corners
    <3>5. [score : 1 .. 3, box : Boxes] \subseteq Boxed
      BY <3>4 DEF Boxed
    <3>6. input' \in Seq(Boxed)
      <4> DEFINE X1 == [score : 1 .. 3, box : Boxes]
                 s == input'
      <4>1. n \in Nat /\ X1 \subseteq Boxed /\ s \in [1 .. n -> X1]
        BY <3>3, <3>5
      <4> HIDE DEF X1, s
      <4>2. s \in Seq(Boxed)
        BY <4>1, SequencesAre
      <4> QED
        BY <4>2 DEF s
    <3> QED
      BY <3>1, <3>3, <3>6 DEF MaskArguments, Given
  <2>5. CASE CompareBoxes
    BY <2>5 DEF CompareBoxes, Choose, MaskArguments, Given
  <2>6. CASE CornerBoxes
    BY <2>6 DEF CornerBoxes, Choose, MaskArguments, Given
  <2>7. CASE Ask
    BY <2>7 DEF Ask, Choose, MaskArguments, Given
  <2>8. CASE Blur
    <3>1. what = "blur" /\ what' = what /\ input' \in Dots \X {1, 2}
      BY <2>8 DEF Blur, Choose
    <3>2. Dots \subseteq SmallImages
      BY DEF Dots, SmallImages, Grid, M!Pixels
    <3>3. input' \in SmallImages \X {1, 2}
      BY <3>1, <3>2
    <3> QED
      BY <3>1, <3>3 DEF MaskArguments, Given
  <2>9. CASE Offset
    <3>1. what = "offset" /\ what' = what
          /\ input' \in [M!Pixels(MaskWidth, MaskHeight) -> 0 .. 1] \X (-MaskHeight .. MaskHeight)
      BY <2>9 DEF Offset, Choose
    <3>2. [M!Pixels(MaskWidth, MaskHeight) -> 0 .. 1] \subseteq MaskImages
      BY DEF MaskImages, Grid, M!Pixels
    <3>3. (-MaskHeight .. MaskHeight) \subseteq Int
      BY SizeAssumption
    <3>4. input' \in MaskImages \X Int
      BY <3>1, <3>2, <3>3
    <3> QED
      BY <3>1, <3>4 DEF MaskArguments, Given
  <2>10. ASSUME NEW name \in {"windows", "samples", "extent", "text", "bpe", "bytes", "context",
                              "budget", "filter", "patchify", "pieces"},
                what = name, what' = what
         PROVE  MaskArguments'
    BY <2>10 DEF MaskArguments, Given
  <2>11. CASE CutWindows
    BY <2>10, <2>11 DEF CutWindows, Choose
  <2>12. CASE Resample
    BY <2>10, <2>12 DEF Resample, Choose
  <2>13. CASE Extend
    BY <2>10, <2>13 DEF Extend, Choose
  <2>14. CASE Split
    BY <2>10, <2>14 DEF Split, Choose
  <2>15. CASE Encode
    BY <2>10, <2>15 DEF Encode, Choose
  <2>16. CASE TellBytes
    BY <2>10, <2>16 DEF TellBytes, Choose
  <2>17. CASE Frame
    BY <2>10, <2>17 DEF Frame, Choose
  <2>18. CASE Budget
    BY <2>10, <2>18 DEF Budget, Choose
  <2>19. CASE Filter
    BY <2>10, <2>19 DEF Filter, Choose
  <2>20. CASE Patchify
    BY <2>10, <2>20 DEF Patchify, Choose
  <2>21. CASE Pad
    BY <2>10, <2>21 DEF Pad, Choose
  <2>22. CASE UNCHANGED vars
    BY <2>22 DEF vars, MaskArguments, Given
  <2> QED
    BY <2>1, <2>2, <2>3, <2>4, <2>5, <2>6, <2>7, <2>8, <2>9, <2>11, <2>12, <2>13, <2>14, <2>15, <2>16, <2>17, <2>18, <2>19, <2>20, <2>21, <2>22 DEF Next
<1> QED
  BY <1>1, <1>2, PTL DEF Spec

\* Each step between the networks and the result does what it is for, for masks
\* of any size.
THEOREM MasksAndBoxesAlways == Spec => []MasksAndBoxes
<1>1. MaskArguments => MasksAndBoxes
  <2> SUFFICES ASSUME MaskArguments PROVE MasksAndBoxes
    OBVIOUS
  <2>0. MaskWidth \in Nat /\ MaskHeight \in Nat /\ MaxArea \in Nat
    BY SizeAssumption
  <2>1. Given("mask") => /\ M!Settles(input[1], MaskWidth, MaskHeight, input[2])
                         /\ M!BoxFits(input[1], MaskWidth, MaskHeight)
    <3> SUFFICES ASSUME Given("mask")
                 PROVE  /\ M!Settles(input[1], MaskWidth, MaskHeight, input[2])
                        /\ M!BoxFits(input[1], MaskWidth, MaskHeight)
      OBVIOUS
    <3> DEFINE m == input[1]
               a == input[2]
    <3>1. m \in SUBSET M!Pixels(MaskWidth, MaskHeight) /\ a \in Int
      BY <2>0 DEF MaskArguments, Masks
    <3> HIDE DEF m, a
    <3>2. M!Settles(m, MaskWidth, MaskHeight, a) /\ M!BoxFits(m, MaskWidth, MaskHeight)
      BY <2>0, <3>1, MasksAlwaysSettle, BoxesFitTheirMasks
    <3> QED
      BY <3>2 DEF m, a
  <2>2. PixelsHaveOneObject
    <3> SUFFICES ASSUME Given("overlap") PROVE M!OnePixelOneObject(input)
      BY DEF PixelsHaveOneObject
    <3>1. input \in Seq([score : Int, mask : SUBSET M!Pixels(2, 2)]) /\ M!Sorted(input)
      BY DEF MaskArguments, ScoredMask
    <3> QED
      BY <3>1, OverlapsAreResolved
  <2>3. BestBoxesStay
    <3> SUFFICES ASSUME Given("nms") PROVE M!SuppressesTheRest(input, 2, <<1, 3>>)
      BY DEF BestBoxesStay
    <3>1. input \in Seq(Boxed) /\ M!Sorted(input) /\ 2 \in Int
      BY DEF MaskArguments
    <3> QED
      BY <3>1, NmsSuppressesTheRest
  <2>4. Given("boxes") => M!BoxesOverlapAsMasks(input[1], input[2])
    <3> SUFFICES ASSUME Given("boxes") PROVE M!BoxesOverlapAsMasks(input[1], input[2])
      OBVIOUS
    <3> DEFINE a == input[1]
               b == input[2]
    <3>1. a \in PlainBoxes /\ b \in PlainBoxes
      BY DEF MaskArguments
    <3>2. \A c \in PlainBoxes : PlainBox(c)
      BY DEF PlainBoxes, PlainBox
    <3> HIDE DEF a, b
    <3>3. M!BoxesOverlapAsMasks(a, b)
      BY <3>1, <3>2, BoxesOverlapAsTheirMasks
    <3> QED
      BY <3>3 DEF a, b
  <2>5. Given("corners") => M!BoxInImage(input, 3, 5, 4)
    <3> SUFFICES ASSUME Given("corners") PROVE M!BoxInImage(input, 3, 5, 4)
      OBVIOUS
    <3> DEFINE x == input[1]
               y == input[2]
               bw == input[3]
               bh == input[4]
    <3>1. input = <<x, y, bw, bh>> /\ x \in Int /\ y \in Int /\ bw \in Nat /\ bh \in Nat
      BY DEF MaskArguments
    <3> HIDE DEF x, y, bw, bh
    <3>2. 3 \in Nat /\ 5 \in Nat /\ 4 \in Nat
      OBVIOUS
    <3>3. M!BoxInImage(<<x, y, bw, bh>>, 3, 5, 4)
      BY <3>1, <3>2, BoxesInImages
    <3> QED
      BY <3>1, <3>3
  <2>6. PromptsFillTheirTensor
    <3> SUFFICES ASSUME Given("prompt")
                 PROVE  M!PromptFillsItsTensor(input[1], input[2], input[3])
      BY DEF PromptsFillTheirTensor
    <3> DEFINE u == input[1]
               p == input[2]
               n == input[3]
    <3>1. u \in BOOLEAN /\ p \in Nat /\ n \in Nat
      BY DEF MaskArguments
    <3> HIDE DEF u, p, n
    <3>2. M!PromptFillsItsTensor(u, p, n)
      BY <3>1, PromptsFillTheirTensors
    <3> QED
      BY <3>2 DEF u, p, n
  <2>7. Given("blur") => F!BlurIsBox(input[1], 4, 5, input[2])
    <3> SUFFICES ASSUME Given("blur") PROVE F!BlurIsBox(input[1], 4, 5, input[2])
      OBVIOUS
    <3> DEFINE i == input[1]
               r == input[2]
               w == 4
               h == 5
    <3>1. /\ i \in [Grid(w, h) -> Int] /\ r \in Nat /\ r < w /\ r < h
          /\ w \in Nat \ {0} /\ h \in Nat \ {0}
      BY DEF MaskArguments, SmallImages
    <3> HIDE DEF i, r, w, h
    <3>2. F!BlurIsBox(i, w, h, r)
      BY <3>1, BlursAreBoxes
    <3> QED
      BY <3>2 DEF i, r, w, h
  <2>8. Given("offset") => F!OffsetMovesBorder(input[1], MaskWidth, MaskHeight, input[2], 1)
    <3> SUFFICES ASSUME Given("offset")
                 PROVE  F!OffsetMovesBorder(input[1], MaskWidth, MaskHeight, input[2], 1)
      OBVIOUS
    <3> DEFINE i == input[1]
               r == input[2]
    <3>1. i \in [Grid(MaskWidth, MaskHeight) -> Int] /\ r \in Int /\ 1 \in Int
      BY DEF MaskArguments, MaskImages
    <3> HIDE DEF i, r
    <3>2. F!OffsetMovesBorder(i, MaskWidth, MaskHeight, r, 1)
      BY <2>0, <3>1, OffsetsMoveBorders
    <3> QED
      BY <3>2 DEF i, r
  <2> QED
    BY <2>1, <2>2, <2>3, <2>4, <2>5, <2>6, <2>7, <2>8
       DEF MasksAndBoxes, MasksSettle, BoxesFrameMasks, EdgesMoveEvenly
<1> QED
  BY <1>1, MaskArgumentsAlways, PTL
=============================================================================
