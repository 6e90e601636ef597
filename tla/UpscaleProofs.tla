--------------------------- MODULE UpscaleProofs ---------------------------
(***************************************************************************)
(* Proofs about Tiling and Upscale.  First what tile_layout and tile_merge *)
(* promise for every image, tile size, overlap and alignment: the tiles    *)
(* cover an axis, neighbours share exactly the overlap, and the weights of *)
(* a position add up to one.  Then esrgan_compute, for images of every     *)
(* size and every tile size, overlap, alignment and scale that             *)
(* UpscaleAssumption allows.                                               *)
(***************************************************************************)
EXTENDS Upscale, TLAPS

\* A layout whose tiles reach the end of the axis, and of which a tile shares
\* pixels with its two neighbours only.
WellTiled(l) ==
    /\ l.len \in Nat \ {0} /\ l.overlap \in Nat
    /\ l.n \in Nat \ {0} /\ l.size \in Nat \ {0}
    /\ (l.n - 1) * Stride(l) + l.size >= l.len
    /\ l.n = 1 \/ Stride(l) >= l.overlap

-----------------------------------------------------------------------------
\* div_ceil is the least multiplier that reaches x.
LEMMA DivCeilFacts ==
  ASSUME NEW x \in Nat, NEW m \in Nat \ {0}
  PROVE  /\ DivCeil(x, m) \in Nat
         /\ x <= DivCeil(x, m) * m /\ DivCeil(x, m) * m < x + m
         /\ x > 0 => DivCeil(x, m) > 0
<1> DEFINE q == (x + m - 1) \div m
<1>1. q \in Int /\ q * m <= x + m - 1 /\ x + m - 1 < q * m + m
  OBVIOUS
<1>2. q >= 0
  OBVIOUS
<1>3. x > 0 => q > 0
  <2> SUFFICES ASSUME x > 0, q = 0 PROVE FALSE
    BY <1>1, <1>2
  <2>1. x + m - 1 < m
    BY <1>1
  <2> QED
    BY <2>1
<1> HIDE DEF q
<1>4. x <= q * m /\ q * m < x + m
  <2>1. q * m \in Int
    BY <1>1
  <2> QED
    BY <1>1, <2>1
<1> QED
  BY <1>1, <1>2, <1>3, <1>4 DEF DivCeil, q

\* Multiplication by a natural number keeps order.
LEMMA TimesMono ==
  ASSUME NEW a \in Int, NEW b \in Int, NEW s \in Nat, a <= b
  PROVE  a * s <= b * s
<1>1. PICK d \in Nat : b = a + d
  <2>1. b - a \in Nat /\ b = a + (b - a)
    OBVIOUS
  <2> QED
    BY <2>1
<1>2. b * s = a * s + d * s
  BY <1>1
<1>3. d * s >= 0
  OBVIOUS
<1> QED
  BY <1>2, <1>3

\* A product of positive numbers is positive, and zero times anything is zero.
LEMMA ProductPositive ==
  ASSUME NEW k \in Nat \ {0}
  PROVE  /\ \A a \in Nat : a * k \in Nat
         /\ \A a \in Nat \ {0} : a * k \in Nat \ {0}
<1>1. \A a \in Nat : a * k \in Nat
  OBVIOUS
<1>2. ASSUME NEW a \in Nat \ {0} PROVE a * k > 0
  <2>1. 1 * k <= a * k
    BY TimesMono
  <2> QED
    BY <1>1, <2>1
<1> QED
  BY <1>1, <1>2

\* The constructor's tiles reach the end of the axis.
LEMMA LayoutTiles ==
  ASSUME NEW len \in Nat \ {0}, NEW max \in Nat \ {0}, NEW o \in Nat,
         NEW align \in Nat \ {0}
  PROVE  LET l == TileLayout(len, max, o, align)
         IN  /\ l.len = len /\ l.overlap = o
             /\ l.n \in Nat \ {0} /\ l.size \in Nat \ {0}
             /\ l.n = DivCeil(len, max)
             /\ (l.n - 1) * Stride(l) + l.size >= l.len
<1> DEFINE n    == DivCeil(len, max)
           all  == len + (n - 1) * o
           even == DivCeil(all, n)
           size == NextMultiple(even, align)
<1>1. n \in Nat \ {0}
  BY DivCeilFacts
<1>2. all \in Nat \ {0}
  <2> HIDE DEF n
  <2>1. (n - 1) * o >= 0
    BY <1>1
  <2> QED
    BY <1>1, <2>1
<1>3. even \in Nat \ {0} /\ all <= even * n
  <2> HIDE DEF all, n
  <2> QED
    BY <1>1, <1>2, DivCeilFacts
<1>4. size \in Nat \ {0} /\ even <= size
  <2> HIDE DEF even, all, n
  <2>1. DivCeil(even, align) \in Nat \ {0} /\ even <= DivCeil(even, align) * align
    <3>1. even \in Nat /\ even > 0
      BY <1>3
    <3> QED
      BY <3>1, DivCeilFacts
  <2>2. DivCeil(even, align) * align \in Nat
    BY <2>1
  <2> QED
    BY <1>3, <2>1, <2>2 DEF NextMultiple
<1>5. all <= size * n
  <2> HIDE DEF even, size, n, all
  <2>1. even * n <= size * n
    BY <1>1, <1>3, <1>4, TimesMono
  <2>2. even * n \in Int /\ size * n \in Int
    BY <1>1, <1>3, <1>4
  <2> QED
    BY <1>2, <1>3, <2>1, <2>2
<1>6. (n - 1) * (size - o) + size >= len
  <2>1. len + (n - 1) * o <= size * n
    BY <1>5
  <2> HIDE DEF even, size, n, all
  <2>2. (n - 1) * (size - o) + size = size * n - (n - 1) * o
    BY <1>1, <1>4
  <2>3. size * n \in Int /\ (n - 1) * o \in Int
    BY <1>1, <1>4
  <2> QED
    BY <2>1, <2>2, <2>3
<1> HIDE DEF n, size
<1> QED
  BY <1>1, <1>4, <1>6 DEF TileLayout, Stride, n, size, even, all

-----------------------------------------------------------------------------
\* Every position lies under one tile, which gives it all its weight, or under
\* two neighbours, whose weights are positive and add up to the norm of both:
\* tile_merge neither brightens nor darkens a seam.
THEOREM WeightsAddUp ==
  ASSUME NEW l, WellTiled(l), NEW x \in 0 .. l.len - 1
  PROVE  \E i \in 0 .. l.n - 1 :
           \/ /\ \A j \in 0 .. l.n - 1 : Covers(l, j, x) <=> j = i
              /\ Weight(l, i, x) = 1 /\ Norm(l, i, x) = 1
           \/ /\ i + 1 \in 0 .. l.n - 1
              /\ \A j \in 0 .. l.n - 1 : Covers(l, j, x) <=> j \in {i, i + 1}
              /\ Weight(l, i, x) > 0 /\ Weight(l, i + 1, x) > 0
              /\ Weight(l, i, x) + Weight(l, i + 1, x) = l.overlap + 1
              /\ Norm(l, i, x) = l.overlap + 1 /\ Norm(l, i + 1, x) = l.overlap + 1
<1> DEFINE n == l.n
           o == l.overlap
           s == Stride(l)
           len == l.len
<1>1. /\ len \in Nat \ {0} /\ o \in Nat /\ n \in Nat \ {0} /\ l.size = s + o
      /\ l.size \in Nat \ {0} /\ s \in Int /\ n * s + o >= len
      /\ n = 1 \/ (s >= o /\ s > 0)
  <2>1. len \in Nat \ {0} /\ o \in Nat /\ n \in Nat \ {0} /\ l.size \in Nat \ {0}
        /\ (n = 1 \/ s >= o) /\ (n - 1) * s + l.size >= len
    BY DEF WellTiled
  <2>2. s = l.size - o /\ s \in Int /\ l.size = s + o
    BY <2>1 DEF Stride
  <2> HIDE DEF s, n, o, len
  <2>3. (n - 1) * s + (s + o) = n * s + o
    BY <2>1, <2>2
  <2> QED
    BY <2>1, <2>2, <2>3
<1> DEFINE pos(i) == i * s
<1>2. \A i \in 0 .. n - 1 :
        /\ pos(i) \in Int
        /\ Start(l, i, 0) = pos(i)
        /\ Start(l, i, o) = IF i = 0 THEN 0 ELSE pos(i) + o
        /\ End(l, i, 0) = MinOf(pos(i) + s + o, len)
        /\ End(l, i, o) = IF i = n - 1 THEN MinOf(pos(i) + s + o, len)
                          ELSE MinOf(pos(i) + s, len)
  <2> TAKE i \in 0 .. n - 1
  <2>1. pos(i) \in Int /\ (i = 0 => pos(i) = 0)
    BY <1>1
  <2> QED
    BY <1>1, <2>1 DEF Start, End, MinOf
<1>3. \A i \in 0 .. n - 1 :
        /\ Covers(l, i, x) <=> pos(i) <= x /\ x < pos(i) + s + o
        /\ Before(l, i, x) <=> i # 0 /\ x < pos(i) + o
        /\ After(l, i, x) <=> ~Before(l, i, x) /\
             IF i = n - 1 THEN x >= pos(i) + s + o ELSE x >= pos(i) + s
  <2> TAKE i \in 0 .. n - 1
  <2> HIDE DEF n, s, o, len, pos
  <2>1. x \in Nat /\ x < len /\ pos(i) \in Int
    BY <1>1, <1>2 DEF len
  <2> QED
    BY <1>1, <1>2, <2>1 DEF Covers, Before, After, MinOf, o
<1> HIDE DEF n, s, o, len, pos
<1>4. x \in Nat /\ x < len
  BY <1>1 DEF len
<1>5. CASE n = 1
  <2>1. pos(0) = 0 /\ s + o >= len
    BY <1>1, <1>5 DEF pos
  <2>2. \A j \in 0 .. n - 1 : Covers(l, j, x) <=> j = 0
    BY <1>1, <1>3, <1>4, <1>5, <2>1
  <2>3. ~Before(l, 0, x) /\ ~After(l, 0, x)
    BY <1>1, <1>3, <1>4, <1>5, <2>1
  <2> QED
    BY <1>5, <2>2, <2>3 DEF Weight, Norm, n
<1>6. CASE n > 1
  <2>1. s \in Nat /\ s >= o /\ s > 0
    BY <1>1, <1>6
  <2>2. \A a, b \in Int : a <= b => pos(a) <= pos(b)
    BY <2>1, TimesMono DEF pos
  <2>3. \A a \in Int : pos(a) \in Int /\ pos(a + 1) = pos(a) + s
    BY <2>1 DEF pos
  \* i is the last tile that starts at x or before.
  <2>4. PICK i \in 0 .. n - 1 : pos(i) <= x /\ (i < n - 1 => x < pos(i + 1))
    <3> DEFINE d == x \div s
    <3>1. d \in Nat /\ d * s <= x /\ x < d * s + s
      BY <1>4, <2>1
    <3> HIDE DEF d
    <3>2. pos(d) <= x /\ x < pos(d + 1)
      BY <2>3, <3>1 DEF pos
    <3>3. CASE d <= n - 1
      <4>1. d \in 0 .. n - 1
        BY <1>1, <3>1, <3>3
      <4> QED
        BY <3>2, <4>1
    <3>4. CASE d > n - 1
      <4>1. n - 1 \in 0 .. n - 1 /\ pos(n - 1) <= pos(d)
        BY <1>1, <2>2, <3>1, <3>4
      <4>2. pos(n - 1) \in Int /\ pos(d) \in Int
        BY <1>1, <2>3, <3>1
      <4> QED
        BY <1>1, <1>4, <3>2, <4>1, <4>2
    <3> QED
      BY <1>1, <3>1, <3>3, <3>4
  <2>5. x < pos(i) + s + o
    <3>1. CASE i < n - 1
      BY <1>1, <1>4, <2>1, <2>3, <2>4, <3>1
    <3>2. CASE i = n - 1
      <4>1. pos(n) = pos(i) + s /\ pos(n) = n * s /\ pos(i) \in Int
        BY <1>1, <2>3, <3>2 DEF pos
      <4> QED
        BY <1>1, <1>4, <2>1, <4>1
    <3> QED
      BY <1>1, <3>1, <3>2
  \* No tile but i and the one before it can reach x.
  <2>6. \A j \in 0 .. n - 1 : Covers(l, j, x) => j = i \/ j = i - 1
    <3> SUFFICES ASSUME NEW j \in 0 .. n - 1, Covers(l, j, x), j # i, j # i - 1
                 PROVE FALSE
      OBVIOUS
    <3>1. pos(j) <= x /\ x < pos(j) + s + o
      BY <1>3
    <3>2. pos(j) \in Int /\ pos(i) \in Int
      BY <2>3
    <3>3. CASE j > i
      <4>1. i < n - 1 /\ i + 1 <= j /\ pos(i + 1) \in Int
        BY <1>1, <2>3, <3>3
      <4>2. pos(i + 1) <= pos(j)
        BY <2>2, <4>1
      <4> QED
        BY <1>4, <2>4, <3>1, <3>2, <4>1, <4>2
    <3>4. CASE j < i
      <4>1. j + 1 + 1 <= i
        BY <3>4
      <4>2. pos(j + 1 + 1) <= pos(i) /\ pos(j + 1 + 1) = pos(j) + s + s
        BY <2>1, <2>2, <2>3, <4>1
      <4> QED
        BY <1>1, <1>4, <2>1, <2>4, <3>1, <3>2, <4>2
    <3> QED
      BY <3>3, <3>4
  <2>7. CASE i # 0 /\ x < pos(i) + o
    <3>1. i - 1 \in 0 .. n - 1 /\ i - 1 + 1 = i /\ i - 1 # n - 1
      BY <1>1, <2>7
    <3>2. pos(i) = pos(i - 1) + s /\ pos(i) \in Int /\ pos(i - 1) \in Int
      BY <2>3, <3>1
    <3>3. Covers(l, i, x) /\ Covers(l, i - 1, x)
      BY <1>1, <1>3, <1>4, <2>1, <2>4, <2>5, <2>7, <3>1, <3>2
    <3>4. Before(l, i, x)
      BY <1>3, <2>7
    <3>5. ~Before(l, i - 1, x)
      BY <1>1, <1>3, <1>4, <2>1, <2>4, <3>1, <3>2
    <3>6. After(l, i - 1, x)
      BY <1>1, <1>3, <1>4, <2>4, <3>1, <3>2, <3>5
    <3>7. Weight(l, i, x) = o - (pos(i) + o - x) + 1
      <4>1. Start(l, i, o) = pos(i) + o
        BY <1>2, <2>7
      <4> QED
        BY <1>1, <1>4, <3>2, <3>4, <4>1 DEF Weight, o
    <3>8. Weight(l, i - 1, x) = o - (x - pos(i))
      <4>1. End(l, i - 1, o) = MinOf(pos(i), len)
        BY <1>2, <3>1, <3>2
      <4>2. MinOf(pos(i), len) = pos(i)
        BY <1>1, <1>4, <2>4, <3>2 DEF MinOf
      <4> QED
        BY <3>5, <3>6, <4>1, <4>2 DEF Weight, o
    <3>9. Norm(l, i, x) = o + 1 /\ Norm(l, i - 1, x) = o + 1
      BY <3>4, <3>6 DEF Norm, o
    <3>10. Weight(l, i, x) > 0 /\ Weight(l, i - 1, x) > 0
           /\ Weight(l, i - 1, x) + Weight(l, i, x) = o + 1
      BY <1>1, <1>4, <2>4, <2>7, <3>2, <3>7, <3>8
    <3>11. \A j \in 0 .. n - 1 : Covers(l, j, x) <=> j \in {i - 1, i - 1 + 1}
      BY <2>6, <3>1, <3>3
    <3>12. PICK k \in 0 .. n - 1 : k = i - 1
      BY <3>1
    <3>13. k + 1 = i
      BY <3>1, <3>12
    <3>14. \A j \in 0 .. n - 1 : Covers(l, j, x) <=> j \in {k, k + 1}
      BY <3>11, <3>12
    <3> QED
      BY <2>4, <3>9, <3>10, <3>12, <3>13, <3>14 DEF n, o
  <2>8. CASE ~(i # 0 /\ x < pos(i) + o)
    <3>1. Covers(l, i, x)
      BY <1>3, <2>4, <2>5
    <3>2. ~Before(l, i, x)
      BY <1>3, <2>8
    <3>3. ~After(l, i, x)
      <4>1. pos(i) \in Int /\ pos(i + 1) = pos(i) + s
        BY <2>3
      <4> QED
        BY <1>1, <1>3, <1>4, <2>4, <2>5, <4>1
    <3>4. i # 0 => ~Covers(l, i - 1, x)
      <4> SUFFICES ASSUME i # 0 PROVE ~Covers(l, i - 1, x)
        OBVIOUS
      <4>1. i - 1 \in 0 .. n - 1 /\ pos(i) = pos(i - 1) + s
            /\ pos(i) \in Int /\ pos(i - 1) \in Int
        <5>1. i - 1 \in Int /\ i - 1 + 1 = i
          OBVIOUS
        <5> QED
          BY <1>1, <2>3, <5>1
      <4> QED
        BY <1>1, <1>3, <1>4, <2>8, <4>1
    <3>5. \A j \in 0 .. n - 1 : Covers(l, j, x) <=> j = i
      BY <2>6, <3>1, <3>4
    <3> QED
      BY <3>2, <3>3, <3>5 DEF Weight, Norm, n
  <2> QED
    BY <2>7, <2>8
<1> QED
  BY <1>1, <1>5, <1>6

-----------------------------------------------------------------------------
\* tile_scale keeps a layout's tiles in place on the larger image.
LEMMA ScaleTiles ==
  ASSUME NEW l, WellTiled(l), NEW k \in Nat \ {0}
  PROVE  /\ WellTiled(TileScale(l, k))
         /\ TileScale(l, k).n = l.n
         /\ TileScale(l, k).len = l.len * k
         /\ TileScale(l, k).overlap = l.overlap * k
<1>1. /\ l.len \in Nat \ {0} /\ l.overlap \in Nat
      /\ l.n \in Nat \ {0} /\ l.size \in Nat \ {0}
      /\ (l.n - 1) * (l.size - l.overlap) + l.size >= l.len
      /\ l.n = 1 \/ l.size - l.overlap >= l.overlap
  BY DEF WellTiled, Stride
<1> DEFINE m == TileScale(l, k)
<1>2. m = [len |-> l.len * k, overlap |-> l.overlap * k, n |-> l.n,
           size |-> l.size * k]
  BY DEF TileScale
<1> HIDE DEF m
<1>3. m.len = l.len * k /\ m.overlap = l.overlap * k /\ m.n = l.n
      /\ m.size = l.size * k
  BY <1>2
<1>4. m.len \in Nat \ {0} /\ m.overlap \in Nat /\ m.size \in Nat \ {0}
  BY <1>1, <1>3, ProductPositive
<1>5. Stride(m) = (l.size - l.overlap) * k
  BY <1>1, <1>3 DEF Stride
<1>6. m.n = 1 \/ Stride(m) >= m.overlap
  <2>1. l.overlap <= l.size - l.overlap => l.overlap * k <= (l.size - l.overlap) * k
    <3>1. l.overlap \in Int /\ l.size - l.overlap \in Int
      BY <1>1
    <3> QED
      BY <3>1, TimesMono
  <2> QED
    BY <1>1, <1>3, <1>5, <2>1
<1>7. (m.n - 1) * Stride(m) + m.size >= m.len
  <2> DEFINE reach == (l.n - 1) * (l.size - l.overlap) + l.size
  <2>1. reach \in Int /\ l.len <= reach
    BY <1>1
  <2>2. (m.n - 1) * Stride(m) + m.size = reach * k
    BY <1>1, <1>3, <1>5
  <2> HIDE DEF reach
  <2>3. l.len * k <= reach * k
    BY <1>1, <2>1, TimesMono
  <2>4. \A u, v \in Int : u * v \in Int
    OBVIOUS
  <2> QED
    BY <1>1, <1>3, <2>1, <2>2, <2>3, <2>4
<1> QED
  BY <1>1, <1>3, <1>4, <1>6, <1>7 DEF WellTiled, m

\* If the tile size and the overlap are multiples of the alignment (224, 16 and
\* 16 in esrgan_compute), every tile begins inside the image.
THEOREM TilesBeginInside ==
  ASSUME NEW len \in Nat \ {0}, NEW align \in Nat \ {0},
         NEW a \in Nat \ {0}, NEW b \in Nat
  PROVE  LET l == TileLayout(len, a * align, b * align, align)
         IN  \A i \in 0 .. l.n - 1 : Start(l, i, 0) < len
<1> DEFINE max == a * align
           o   == b * align
           l   == TileLayout(len, max, o, align)
           n   == DivCeil(len, max)
           all == len + (n - 1) * o
           even == DivCeil(all, n)
<1>1. max \in Nat \ {0} /\ o \in Nat
  BY TimesMono
<1>2. l.n = n /\ l.overlap = o /\ l.size = NextMultiple(even, align)
  BY DEF TileLayout
<1> HIDE DEF max, o, l
<1>3. n \in Nat \ {0} /\ len <= n * max /\ n * max < len + max
  BY <1>1, DivCeilFacts
<1> HIDE DEF n
<1>4. (n - 1) * max < len
  <2>1. (n - 1) * max = n * max - max /\ n * max \in Int
    BY <1>1, <1>3
  <2> QED
    BY <1>1, <1>3, <2>1
<1>5. all \in Nat /\ all <= n * (max + o)
  <2>1. (n - 1) * o \in Nat /\ n * o \in Nat /\ n * max \in Nat
        /\ (n - 1) * o = n * o - o /\ n * (max + o) = n * max + n * o
    BY <1>1, <1>3
  <2> QED
    BY <1>1, <1>3, <2>1
<1> HIDE DEF all
<1>6. even \in Nat /\ even <= max + o
  <2>1. even \in Nat /\ even * n < all + n
    BY <1>3, <1>5, DivCeilFacts
  <2> HIDE DEF even
  <2> SUFFICES ASSUME even > max + o PROVE FALSE
    BY <1>1, <2>1
  <2>2. max + o + 1 <= even
    BY <1>1, <2>1
  <2>3. (max + o + 1) * n <= even * n
    BY <1>1, <1>3, <2>1, <2>2, TimesMono
  <2>4. (max + o + 1) * n = n * (max + o) + n /\ n * (max + o) \in Int
        /\ even * n \in Int
    BY <1>1, <1>3, <2>1
  <2> QED
    BY <1>3, <1>5, <2>1, <2>3, <2>4
<1> HIDE DEF even
<1>7. l.size \in Nat /\ l.size <= max + o
  <2> DEFINE q == DivCeil(even, align)
  <2>1. q \in Nat /\ q * align < even + align
    BY <1>6, DivCeilFacts
  <2> HIDE DEF q
  <2>2. max + o = (a + b) * align
    BY DEF max, o
  <2>3. q <= a + b
    <3> SUFFICES ASSUME q > a + b PROVE FALSE
      BY <2>1
    <3>1. a + b + 1 <= q
      BY <2>1
    <3>2. (a + b + 1) * align <= q * align
      BY <2>1, <3>1, TimesMono
    <3>3. (a + b + 1) * align = (a + b) * align + align
          /\ (a + b) * align \in Int /\ q * align \in Int
      BY <2>1
    <3> QED
      BY <1>6, <2>1, <2>2, <3>2, <3>3
  <2>4. q * align <= (a + b) * align /\ q * align \in Nat
    BY <2>1, <2>3, TimesMono
  <2> QED
    BY <1>2, <2>2, <2>4 DEF NextMultiple, q
<1>8. Stride(l) \in Int /\ Stride(l) <= max
  BY <1>1, <1>2, <1>7 DEF Stride
<1>9. \A i \in 0 .. n - 1 : Start(l, i, 0) < len
  <2> TAKE i \in 0 .. n - 1
  <2>1. i * Stride(l) <= i * max
    <3>1. Stride(l) * i <= max * i
      BY <1>1, <1>3, <1>8, TimesMono
    <3> QED
      BY <1>1, <1>3, <1>8, <3>1
  <2>2. i * max <= (n - 1) * max
    BY <1>1, <1>3, TimesMono
  <2>3. i * Stride(l) \in Int /\ i * max \in Int /\ (n - 1) * max \in Int
    BY <1>1, <1>3, <1>8
  <2>4. Start(l, i, 0) = i * Stride(l)
    BY <2>3 DEF Start
  <2> QED
    BY <1>4, <2>1, <2>2, <2>3, <2>4
<1> QED
  BY <1>2, <1>9 DEF l, max, o

\* With tiles of at least three overlaps (224 and 16 in esrgan_compute) no
\* tile reaches past its neighbours.
LEMMA LayoutIsWellTiled ==
  ASSUME NEW len \in Nat \ {0}, NEW max \in Nat \ {0}, NEW o \in Nat,
         NEW align \in Nat \ {0}, max >= 3 * o
  PROVE  WellTiled(TileLayout(len, max, o, align))
<1> DEFINE l == TileLayout(len, max, o, align)
           n == DivCeil(len, max)
<1>1. /\ l.len = len /\ l.overlap = o
      /\ l.n \in Nat \ {0} /\ l.size \in Nat \ {0} /\ l.n = n
      /\ (l.n - 1) * Stride(l) + l.size >= l.len
  BY LayoutTiles
<1>2. n * max < len + max
  BY DivCeilFacts
<1> HIDE DEF l, n
<1>3. l.n = 1 \/ Stride(l) >= l.overlap
  <2>a. Stride(l) = l.size - o /\ l.size \in Nat \ {0} /\ n \in Nat \ {0}
    BY <1>1 DEF Stride
  <2> SUFFICES ASSUME n >= 2, l.size - o < o PROVE FALSE
    <3>1. n = 1 \/ n >= 2
      BY <2>a
    <3>2. l.size - o < o \/ l.size - o >= o
      BY <2>a
    <3> QED
      BY <1>1, <2>a, <3>1, <3>2
  <2> DEFINE w == n * o
             z == n * l.size
             v == n * max
  <2>1. w \in Nat /\ z \in Int /\ v \in Int
    BY <1>1
  <2>2. 2 * o <= w
    BY <1>1, TimesMono
  <2>3. z <= 2 * w - n
    <3>1. l.size * n <= (2 * o - 1) * n
      BY <1>1, TimesMono
    <3>2. (2 * o - 1) * n = 2 * w - n /\ l.size * n = z
      BY <1>1
    <3> QED
      BY <3>1, <3>2
  <2>4. len <= z - (w - o)
    <3>1. (n - 1) * (l.size - o) + l.size = z - (w - o)
      BY <1>1
    <3> QED
      BY <1>1, <3>1 DEF Stride
  <2>5. v - max >= 3 * (w - o)
    <3>1. 3 * o * (n - 1) <= max * (n - 1)
      <4>1. 3 * o \in Int /\ n - 1 \in Nat
        BY <1>1
      <4> QED
        BY <4>1, TimesMono
    <3>2. n \in Int
      BY <2>a
    <3>3. 3 * o * (n - 1) = 3 * (n * o - o)
      BY <3>2
    <3>4. max * (n - 1) = n * max - max
      BY <3>2
    <3> QED
      BY <3>1, <3>3, <3>4
  <2> HIDE DEF w, z, v
  <2>6. v < len + max
    BY <1>2 DEF v
  <2> QED
    BY <1>1, <2>1, <2>2, <2>3, <2>4, <2>5, <2>6
<1> QED
  BY <1>1, <1>3 DEF WellTiled, l

-----------------------------------------------------------------------------
(***************************************************************************)
(* The same fact as a running sum, which is how tile_merge builds it up.   *)
(***************************************************************************)

\* What tile i gives position x, in units of 1 / (overlap + 1).
Share(l, i, x) ==
    IF ~Covers(l, i, x) THEN 0
    ELSE IF Norm(l, i, x) = 1 THEN (l.overlap + 1) * Weight(l, i, x)
    ELSE Weight(l, i, x)

\* f[i] is what the tiles before tile i have given.
IsRunningSum(f, l, x) ==
    /\ f \in [0 .. l.n -> 0 .. l.overlap + 1]
    /\ f[0] = 0 /\ f[l.n] = l.overlap + 1
    /\ \A i \in 0 .. l.n - 1 : f[i + 1] = f[i] + Share(l, i, x)

RunningSum(l, x) ==
    CHOOSE f \in [0 .. l.n -> 0 .. l.overlap + 1] : IsRunningSum(f, l, x)

\* A covering tile has a positive weight, and divides it by 1 or overlap + 1.
LEMMA CoveringWeight ==
  ASSUME NEW l, WellTiled(l), NEW x \in 0 .. l.len - 1,
         NEW i \in 0 .. l.n - 1, Covers(l, i, x)
  PROVE  /\ Weight(l, i, x) \in Nat \ {0}
         /\ Norm(l, i, x) \in {1, l.overlap + 1}
<1>1. l.overlap \in Nat /\ l.n \in Nat \ {0}
  BY DEF WellTiled
<1>2. PICK k \in 0 .. l.n - 1 :
           \/ /\ \A j \in 0 .. l.n - 1 : Covers(l, j, x) <=> j = k
              /\ Weight(l, k, x) = 1 /\ Norm(l, k, x) = 1
           \/ /\ k + 1 \in 0 .. l.n - 1
              /\ \A j \in 0 .. l.n - 1 : Covers(l, j, x) <=> j \in {k, k + 1}
              /\ Weight(l, k, x) > 0 /\ Weight(l, k + 1, x) > 0
              /\ Weight(l, k, x) + Weight(l, k + 1, x) = l.overlap + 1
              /\ Norm(l, k, x) = l.overlap + 1 /\ Norm(l, k + 1, x) = l.overlap + 1
  BY WeightsAddUp
<1>3. Weight(l, i, x) \in Int
  <2>1. l.len \in Nat /\ l.size \in Nat
    BY DEF WellTiled
  <2>2. Stride(l) \in Int
    BY <1>1, <2>1 DEF Stride
  <2>3. \A p \in {0, l.overlap} : Start(l, i, p) \in Int /\ End(l, i, p) \in Int
    <3>1. i * Stride(l) \in Int
      BY <2>2
    <3> QED
      BY <1>1, <2>1, <3>1 DEF Start, End, MinOf
  <2> QED
    BY <1>1, <2>3 DEF Weight
<1>4. i \in {k, k + 1} /\ Weight(l, i, x) > 0 /\ Norm(l, i, x) \in {1, l.overlap + 1}
  BY <1>2
<1> QED
  BY <1>3, <1>4

\* The running sum exists: it begins at 0 and ends at overlap + 1.
LEMMA RunningSumExists ==
  ASSUME NEW l, WellTiled(l), NEW x \in 0 .. l.len - 1
  PROVE  IsRunningSum(RunningSum(l, x), l, x)
<1>1. l.overlap \in Nat /\ l.n \in Nat \ {0}
  BY DEF WellTiled
<1>2. PICK k \in 0 .. l.n - 1 :
           \/ /\ \A j \in 0 .. l.n - 1 : Covers(l, j, x) <=> j = k
              /\ Weight(l, k, x) = 1 /\ Norm(l, k, x) = 1
           \/ /\ k + 1 \in 0 .. l.n - 1
              /\ \A j \in 0 .. l.n - 1 : Covers(l, j, x) <=> j \in {k, k + 1}
              /\ Weight(l, k, x) > 0 /\ Weight(l, k + 1, x) > 0
              /\ Weight(l, k, x) + Weight(l, k + 1, x) = l.overlap + 1
              /\ Norm(l, k, x) = l.overlap + 1 /\ Norm(l, k + 1, x) = l.overlap + 1
  BY WeightsAddUp
<1>3. \E f \in [0 .. l.n -> 0 .. l.overlap + 1] : IsRunningSum(f, l, x)
  <2>1. CASE /\ \A j \in 0 .. l.n - 1 : Covers(l, j, x) <=> j = k
             /\ Weight(l, k, x) = 1 /\ Norm(l, k, x) = 1
    <3> DEFINE f == [i \in 0 .. l.n |-> IF i <= k THEN 0 ELSE l.overlap + 1]
    <3>1. f \in [0 .. l.n -> 0 .. l.overlap + 1]
      BY <1>1
    <3>2. f[0] = 0 /\ f[l.n] = l.overlap + 1
      BY <1>1
    <3>3. ASSUME NEW i \in 0 .. l.n - 1 PROVE f[i + 1] = f[i] + Share(l, i, x)
      <4>1. i \in 0 .. l.n /\ i + 1 \in 0 .. l.n
        BY <1>1
      <4>2. Share(l, i, x) = IF i = k THEN l.overlap + 1 ELSE 0
        BY <1>1, <2>1 DEF Share
      <4> QED
        BY <1>1, <4>1, <4>2
    <3> QED
      BY <3>1, <3>2, <3>3 DEF IsRunningSum
  <2>2. CASE /\ k + 1 \in 0 .. l.n - 1
             /\ \A j \in 0 .. l.n - 1 : Covers(l, j, x) <=> j \in {k, k + 1}
             /\ Weight(l, k, x) > 0 /\ Weight(l, k + 1, x) > 0
             /\ Weight(l, k, x) + Weight(l, k + 1, x) = l.overlap + 1
             /\ Norm(l, k, x) = l.overlap + 1 /\ Norm(l, k + 1, x) = l.overlap + 1
    <3> DEFINE w == Weight(l, k, x)
               f == [i \in 0 .. l.n |-> IF i <= k THEN 0
                                        ELSE IF i = k + 1 THEN w
                                        ELSE l.overlap + 1]
    <3>0. w \in Nat \ {0} /\ Weight(l, k + 1, x) \in Nat \ {0}
      BY <2>2, CoveringWeight
    <3>1. w \in 0 .. l.overlap + 1 /\ Weight(l, k + 1, x) = l.overlap + 1 - w
          /\ l.overlap > 0
      BY <1>1, <2>2, <3>0
    <3>2. Share(l, k, x) = w /\ Share(l, k + 1, x) = l.overlap + 1 - w
      <4>1. Covers(l, k, x) /\ Covers(l, k + 1, x)
        BY <2>2
      <4>2. Norm(l, k, x) # 1 /\ Norm(l, k + 1, x) # 1
        BY <1>1, <2>2, <3>1
      <4> QED
        BY <3>1, <4>1, <4>2 DEF Share
    <3>3. \A i \in 0 .. l.n - 1 : i \notin {k, k + 1} => Share(l, i, x) = 0
      BY <2>2 DEF Share
    <3> HIDE DEF w
    <3>4. f \in [0 .. l.n -> 0 .. l.overlap + 1]
      BY <1>1, <3>1
    <3>5. f[0] = 0 /\ f[l.n] = l.overlap + 1
      BY <1>1, <2>2
    <3>6. ASSUME NEW i \in 0 .. l.n - 1 PROVE f[i + 1] = f[i] + Share(l, i, x)
      <4>1. i \in 0 .. l.n /\ i + 1 \in 0 .. l.n
        BY <1>1
      <4>2. CASE i < k
        BY <1>1, <3>3, <4>1, <4>2
      <4>3. CASE i = k
        BY <1>1, <3>1, <3>2, <4>1, <4>3
      <4>4. CASE i = k + 1
        BY <1>1, <3>1, <3>2, <4>1, <4>4
      <4>5. CASE i > k + 1
        BY <1>1, <3>3, <4>1, <4>5
      <4> QED
        BY <4>2, <4>3, <4>4, <4>5
    <3> QED
      BY <3>4, <3>5, <3>6 DEF IsRunningSum
  <2> QED
    BY <1>2, <2>1, <2>2
<1> QED
  BY <1>3 DEF RunningSum


-----------------------------------------------------------------------------
(***************************************************************************)
(* Tiles in the order of esrgan_compute's loop: row by row.                *)
(***************************************************************************)

\* Quotient and remainder are the only such pair.
LEMMA DivUnique ==
  ASSUME NEW n \in Nat \ {0}, NEW q \in Int, NEW r \in 0 .. n - 1
  PROVE  (q * n + r) \div n = q /\ (q * n + r) % n = r
<1> DEFINE x == q * n + r
           d == x \div n
           m == x % n
<1>1. x \in Int
  OBVIOUS
<1>2. d \in Int /\ m \in 0 .. n - 1 /\ x = n * d + m
  <2> HIDE DEF x
  <2> QED
    BY <1>1
<1> HIDE DEF d, m
<1>3. d * n + m = q * n + r /\ d * n \in Int /\ q * n \in Int
  <2>1. n * d = d * n
    BY <1>2
  <2> QED
    BY <1>2, <2>1 DEF x
<1>4. ~(d < q)
  <2> SUFFICES ASSUME d + 1 <= q PROVE FALSE
    BY <1>2
  <2>1. (d + 1) * n <= q * n /\ (d + 1) * n = d * n + n
    BY <1>2, TimesMono
  <2> QED
    BY <1>2, <1>3, <2>1
<1>5. ~(q < d)
  <2> SUFFICES ASSUME q + 1 <= d PROVE FALSE
    BY <1>2
  <2>1. (q + 1) * n <= d * n /\ (q + 1) * n = q * n + n
    BY <1>2, TimesMono
  <2> QED
    BY <1>2, <1>3, <2>1
<1>6. d = q /\ m = r
  <2>1. d = q
    BY <1>2, <1>4, <1>5
  <2> QED
    BY <1>2, <1>3, <2>1
<1> QED
  BY <1>6 DEF d, m, x

\* The tile after the one in column i of row j is in the next column, or in
\* the first of the next row.
LEMMA TileOrder ==
  ASSUME NEW n1 \in Nat \ {0}, NEW n2 \in Nat \ {0}, NEW t \in 0 .. n1 * n2 - 1
  PROVE  LET i == t % n1
             j == t \div n1
         IN  /\ i \in 0 .. n1 - 1 /\ j \in 0 .. n2 - 1
             /\ i < n1 - 1 => /\ t + 1 < n1 * n2
                              /\ (t + 1) % n1 = i + 1 /\ (t + 1) \div n1 = j
             /\ i = n1 - 1 /\ j < n2 - 1 =>
                              /\ t + 1 < n1 * n2
                              /\ (t + 1) % n1 = 0 /\ (t + 1) \div n1 = j + 1
             /\ i = n1 - 1 /\ j = n2 - 1 => t + 1 = n1 * n2
<1> DEFINE i == t % n1
           j == t \div n1
           N == n2 * n1
<1>1. n1 * n2 = N /\ N \in Int
  OBVIOUS
<1>2. t \in Nat /\ t < N
  BY <1>1
<1>3. i \in 0 .. n1 - 1 /\ j \in Int /\ t = n1 * j + i
  BY <1>2
<1> HIDE DEF i, j
<1>4. t = j * n1 + i /\ j * n1 \in Int
  BY <1>3
<1>5. j >= 0
  <2> SUFFICES ASSUME j + 1 <= 0 PROVE FALSE
    BY <1>3
  <2>1. (j + 1) * n1 <= 0 * n1 /\ (j + 1) * n1 = j * n1 + n1
    BY <1>3, TimesMono
  <2> QED
    BY <1>2, <1>3, <1>4, <2>1
<1>6. j < n2
  <2> SUFFICES ASSUME n2 <= j PROVE FALSE
    BY <1>3
  <2>1. N <= j * n1
    BY <1>3, TimesMono
  <2> QED
    BY <1>1, <1>2, <1>3, <1>4, <2>1
<1> HIDE DEF N
<1>7. ASSUME i < n1 - 1
      PROVE  t + 1 < N /\ (t + 1) % n1 = i + 1 /\ (t + 1) \div n1 = j
  <2>1. i + 1 \in 0 .. n1 - 1 /\ t + 1 = j * n1 + (i + 1)
    BY <1>3, <1>4, <1>7
  <2>2. (t + 1) % n1 = i + 1 /\ (t + 1) \div n1 = j
    BY <1>3, <2>1, DivUnique
  <2>3. (j + 1) * n1 <= N /\ (j + 1) * n1 = j * n1 + n1
    BY <1>3, <1>6, TimesMono DEF N
  <2> QED
    BY <1>1, <1>3, <1>4, <1>7, <2>2, <2>3
<1>8. ASSUME i = n1 - 1, j < n2 - 1
      PROVE  t + 1 < N /\ (t + 1) % n1 = 0 /\ (t + 1) \div n1 = j + 1
  <2>1. 0 \in 0 .. n1 - 1 /\ t + 1 = (j + 1) * n1 + 0
    BY <1>3, <1>4, <1>8
  <2>2. (t + 1) % n1 = 0 /\ (t + 1) \div n1 = j + 1
    BY <1>3, <2>1, DivUnique
  <2>3. (j + 1 + 1) * n1 <= N /\ (j + 1 + 1) * n1 = j * n1 + n1 + n1
    BY <1>3, <1>8, TimesMono DEF N
  <2> QED
    BY <1>1, <1>3, <1>4, <1>8, <2>2, <2>3
<1>9. i = n1 - 1 /\ j = n2 - 1 => t + 1 = N
  BY <1>3, <1>4 DEF N
<1> QED
  BY <1>1, <1>3, <1>5, <1>6, <1>7, <1>8, <1>9 DEF i, j

\* What the tiles before tile t have given position (x, y): all of the rows
\* above, and in t's row the columns before.
Given(l1, l2, x, y, t) ==
    (l1.overlap + 1) * RunningSum(l2, y)[t \div l1.n]
        + RunningSum(l1, x)[t % l1.n] * Share(l2, t \div l1.n, y)

\* Every tile adds the product of its two shares, and the last one completes
\* the sum.
LEMMA GivenStep ==
  ASSUME NEW l1, WellTiled(l1), NEW l2, WellTiled(l2), l1.overlap = l2.overlap,
         NEW x \in 0 .. l1.len - 1, NEW y \in 0 .. l2.len - 1,
         NEW t \in 0 .. l1.n * l2.n - 1
  PROVE  LET o    == l1.overlap
             sum  == Given(l1, l2, x, y, t)
                       + Share(l1, t % l1.n, x) * Share(l2, t \div l1.n, y)
         IN  /\ Given(l1, l2, x, y, t) \in 0 .. (o + 1) * (o + 1)
             /\ t + 1 < l1.n * l2.n => sum = Given(l1, l2, x, y, t + 1)
             /\ t + 1 = l1.n * l2.n => sum = (o + 1) * (o + 1)
<1> DEFINE o  == l1.overlap
           n1 == l1.n
           n2 == l2.n
           i  == t % n1
           j  == t \div n1
           A  == RunningSum(l1, x)
           B  == RunningSum(l2, y)
           u  == Share(l1, i, x)
           v  == Share(l2, j, y)
<1>1. o \in Nat /\ n1 \in Nat \ {0} /\ n2 \in Nat \ {0}
  BY DEF WellTiled
<1>2. /\ i \in 0 .. n1 - 1 /\ j \in 0 .. n2 - 1
      /\ i < n1 - 1 => /\ t + 1 < n1 * n2
                       /\ (t + 1) % n1 = i + 1 /\ (t + 1) \div n1 = j
      /\ i = n1 - 1 /\ j < n2 - 1 =>
                       /\ t + 1 < n1 * n2
                       /\ (t + 1) % n1 = 0 /\ (t + 1) \div n1 = j + 1
      /\ i = n1 - 1 /\ j = n2 - 1 => t + 1 = n1 * n2
  BY <1>1, TileOrder
<1>3. /\ IsRunningSum(A, l1, x) /\ IsRunningSum(B, l2, y)
  BY RunningSumExists
<1> HIDE DEF A, B
<1>4. /\ A[i] \in 0 .. o + 1 /\ A[i + 1] \in 0 .. o + 1 /\ A[i + 1] = A[i] + u
      /\ A[0] = 0 /\ A[n1] = o + 1
  <2>1. i \in 0 .. n1 /\ i + 1 \in 0 .. n1
    BY <1>1, <1>2
  <2> HIDE DEF i
  <2> QED
    BY <1>1, <1>2, <1>3, <2>1 DEF IsRunningSum
<1>5. /\ B[j] \in 0 .. o + 1 /\ B[j + 1] \in 0 .. o + 1 /\ B[j + 1] = B[j] + v
      /\ B[n2] = o + 1
  <2>1. j \in 0 .. n2 /\ j + 1 \in 0 .. n2
    BY <1>1, <1>2
  <2> HIDE DEF j
  <2> QED
    BY <1>1, <1>2, <1>3, <2>1 DEF IsRunningSum
<1>6. u \in Int /\ v \in Int
  <2>1. i \in 0 .. n1 - 1 => u \in Nat
    BY CoveringWeight, <1>1 DEF Share
  <2>2. j \in 0 .. n2 - 1 => v \in Nat
    BY CoveringWeight, <1>1 DEF Share
  <2> QED
    BY <1>2, <2>1, <2>2
<1>7. Given(l1, l2, x, y, t) = (o + 1) * B[j] + A[i] * v
  BY DEF Given, A, B
<1>8. Given(l1, l2, x, y, t + 1)
        = (o + 1) * B[(t + 1) \div n1] + A[(t + 1) % n1] * Share(l2, (t + 1) \div n1, y)
  BY DEF Given, A, B
<1>9. Given(l1, l2, x, y, t) \in 0 .. (o + 1) * (o + 1)
  <2>1. v >= 0
    BY <1>2, CoveringWeight, <1>1 DEF Share
  <2> HIDE DEF u, v, i, j, o, n1, n2
  <2>2. (o + 1) * B[j] >= 0 /\ A[i] * v >= 0
        /\ (o + 1) * B[j] \in Int /\ A[i] * v \in Int
    BY <1>1, <1>4, <1>5, <1>6, <2>1
  <2>3. A[i] * v <= (o + 1) * v
    BY <1>1, <1>4, <1>6, <2>1, TimesMono
  <2>4. (o + 1) * B[j] + (o + 1) * v = B[j + 1] * (o + 1)
    <3>1. \A a, b, c \in Int : c * a + c * b = (a + b) * c
      OBVIOUS
    <3>2. B[j] \in Int /\ o + 1 \in Int
      BY <1>1, <1>5
    <3> QED
      BY <1>5, <1>6, <3>1, <3>2
  <2>5. B[j + 1] * (o + 1) <= (o + 1) * (o + 1)
    BY <1>1, <1>5, TimesMono
  <2>6. (o + 1) * v \in Int /\ B[j + 1] * (o + 1) \in Int /\ (o + 1) * (o + 1) \in Int
    BY <1>1, <1>5, <1>6
  <2> QED
    BY <1>7, <2>2, <2>3, <2>4, <2>5, <2>6
<1> DEFINE sum == Given(l1, l2, x, y, t) + u * v
<1>10. CASE i < n1 - 1
  <2>1. Given(l1, l2, x, y, t + 1) = (o + 1) * B[j] + A[i + 1] * v
    BY <1>2, <1>8, <1>10
  <2> HIDE DEF u, v, i, j, o, n1, n2
  <2>2. A[i + 1] * v = A[i] * v + u * v
    BY <1>4, <1>6
  <2>3. sum = Given(l1, l2, x, y, t + 1)
    <3>1. (o + 1) * B[j] \in Int /\ A[i] * v \in Int /\ u * v \in Int
      BY <1>1, <1>4, <1>5, <1>6
    <3> QED
      BY <1>7, <2>1, <2>2, <3>1
  <2>4. t + 1 < n1 * n2
    BY <1>2, <1>10
  <2> HIDE DEF sum
  <2> QED
    BY <1>1, <1>9, <2>3, <2>4 DEF sum, u, v, i, j, o, n1, n2
<1>11. CASE i = n1 - 1
  <2> HIDE DEF u, v, i, j, o, n1, n2
  <2>1. A[i] + u = o + 1
    <3>1. i + 1 = n1
      BY <1>1, <1>11
    <3> QED
      BY <1>4, <3>1
  <2>2. sum = (o + 1) * B[j + 1]
    <3>1. A[i] * v + u * v = (o + 1) * v
      <4>1. A[i] * v + u * v = (A[i] + u) * v
        BY <1>4, <1>6
      <4> QED
        BY <2>1, <4>1
    <3>2. (o + 1) * B[j] + (o + 1) * v = (o + 1) * B[j + 1]
      <4>1. \A a, b, c \in Int : c * a + c * b = c * (a + b)
        OBVIOUS
      <4>2. B[j] \in Int /\ o + 1 \in Int
        BY <1>1, <1>5
      <4> QED
        BY <1>5, <1>6, <4>1, <4>2
    <3>3. (o + 1) * B[j] \in Int /\ A[i] * v \in Int /\ u * v \in Int
          /\ (o + 1) * v \in Int
      BY <1>1, <1>4, <1>5, <1>6
    <3> QED
      BY <1>7, <3>1, <3>2, <3>3
  <2>3. CASE j < n2 - 1
    <3>1. (t + 1) % n1 = 0 /\ (t + 1) \div n1 = j + 1 /\ t + 1 < n1 * n2
      BY <1>2, <1>11, <2>3
    <3>2. Share(l2, j + 1, y) \in Nat
      <4>1. j + 1 \in 0 .. n2 - 1
        BY <1>1, <1>2, <2>3
      <4> QED
        BY <1>1, <4>1, CoveringWeight DEF Share, o, n2
    <3>3. Given(l1, l2, x, y, t + 1) = (o + 1) * B[j + 1]
      <4>1. A[0] * Share(l2, j + 1, y) = 0
        BY <1>4, <3>2
      <4>2. (o + 1) * B[j + 1] \in Int
        BY <1>1, <1>5
      <4> QED
        BY <1>8, <3>1, <4>1, <4>2
    <3> HIDE DEF sum
    <3> QED
      BY <1>1, <1>9, <2>2, <3>1, <3>3 DEF sum, u, v, i, j, o, n1, n2
  <2>4. CASE j = n2 - 1
    <3>1. t + 1 = n1 * n2 /\ j + 1 = n2
      BY <1>1, <1>2, <1>11, <2>4
    <3>2. sum = (o + 1) * (o + 1)
      BY <1>5, <2>2, <3>1
    <3> HIDE DEF sum
    <3> QED
      BY <1>1, <1>9, <3>1, <3>2 DEF sum, u, v, i, j, o, n1, n2
  <2> QED
    BY <1>1, <1>2, <2>3, <2>4
<1> QED
  BY <1>1, <1>2, <1>10, <1>11

\* Before the first tile nothing has been given.
LEMMA GivenStart ==
  ASSUME NEW l1, WellTiled(l1), NEW l2, WellTiled(l2),
         NEW x \in 0 .. l1.len - 1, NEW y \in 0 .. l2.len - 1
  PROVE  Given(l1, l2, x, y, 0) = 0
<1>1. l1.n \in Nat \ {0} /\ l2.n \in Nat \ {0} /\ l1.overlap \in Nat
      /\ l2.overlap \in Nat
  BY DEF WellTiled
<1>2. 0 \div l1.n = 0 /\ 0 % l1.n = 0
  <2>1. 0 \in 0 .. l1.n - 1 /\ 0 * l1.n + 0 = 0
    BY <1>1
  <2> QED
    BY <1>1, <2>1, DivUnique
<1>3. RunningSum(l1, x)[0] = 0 /\ RunningSum(l2, y)[0] = 0
  BY RunningSumExists DEF IsRunningSum
<1>4. Share(l2, 0, y) \in Nat
  <2>1. 0 \in 0 .. l2.n - 1
    BY <1>1
  <2> QED
    BY <1>1, <2>1, CoveringWeight DEF Share
<1> QED
  BY <1>1, <1>2, <1>3, <1>4 DEF Given

-----------------------------------------------------------------------------
(***************************************************************************)
(* The invariant.  The blended image is a function of the loop variable,   *)
(* and the graph kept by the model is as large as tile_size says.          *)
(***************************************************************************)
Loop == {"convert", "compute", "merge"}

ImageOK == pc \in Loop \cup {"graph", "return"} => image.extent \in ImageExtents

GraphOK ==
    /\ graph # "none" => graph_input = tile_size
    /\ pc \in Loop => graph # "none" /\ tile_size = WantedSize

GivenTo(p, t) == Given(OutAxis(1), OutAxis(2), p[1], p[2], t)

LoopOK ==
    pc \in Loop => /\ tile \in 0 .. Total - 1
                   /\ output = [p \in OutPixels |-> GivenTo(p, tile)]

IInv == TypeOK /\ ImageOK /\ GraphOK /\ LoopOK /\ BlendsToOne

\* The layouts esrgan_compute works with are well tiled.
LEMMA AxisFacts ==
  ASSUME image.extent \in ImageExtents, NEW a \in {1, 2}
  PROVE  /\ image.extent[a] \in Nat \ {0}
         /\ Axis(a).n \in Nat \ {0} /\ Axis(a).size \in Nat \ {0}
         /\ WellTiled(OutAxis(a))
         /\ OutAxis(a).n = Axis(a).n
         /\ OutAxis(a).len = image.extent[a] * Scale
         /\ OutAxis(a).overlap = Overlap * Scale
<1>1. image.extent[a] \in Nat \ {0}
  BY UpscaleAssumption
<1>2. /\ MaxTileSize \in Nat \ {0} /\ Overlap \in Nat /\ Align \in Nat \ {0}
      /\ Scale \in Nat \ {0} /\ MaxTileSize >= 3 * Overlap
  <2>1. PICK u \in 1 .. MaxTileSize, v \in 0 .. Overlap :
            MaxTileSize = u * Align /\ Overlap = v * Align
    BY UpscaleAssumption
  <2>2. Align \in Nat \ {0} /\ u \in Nat \ {0} /\ v \in Nat
    BY UpscaleAssumption
  <2>3. u * Align \in Nat \ {0} /\ v * Align \in Nat
    BY <2>2, ProductPositive
  <2> QED
    BY <2>1, <2>3, UpscaleAssumption
<1> DEFINE l == TileLayout(image.extent[a], MaxTileSize, Overlap, Align)
<1>3. WellTiled(l)
  BY <1>1, <1>2, LayoutIsWellTiled
<1>4. l.len = image.extent[a] /\ l.overlap = Overlap
      /\ l.n \in Nat \ {0} /\ l.size \in Nat \ {0}
  <2>1. l.len = image.extent[a] /\ l.overlap = Overlap
    BY DEF TileLayout
  <2> HIDE DEF l
  <2> QED
    BY <1>3, <2>1 DEF WellTiled
<1>5. Axis(a) = l /\ OutAxis(a) = TileScale(l, Scale)
  BY DEF Axis, OutAxis
<1> HIDE DEF l
<1>6. /\ WellTiled(TileScale(l, Scale))
      /\ TileScale(l, Scale).n = l.n
      /\ TileScale(l, Scale).len = l.len * Scale
      /\ TileScale(l, Scale).overlap = l.overlap * Scale
  BY <1>2, <1>3, ScaleTiles
<1> QED
  BY <1>1, <1>4, <1>5, <1>6

\* tile_merge adds to a pixel the product of the tile's two shares.
LEMMA MergeAdds ==
  ASSUME image.extent \in ImageExtents, tile \in 0 .. Total - 1,
         NEW p \in OutPixels, output[p] \in Int
  PROVE  Merged(Coord, p) =
           output[p] + Share(OutAxis(1), tile % Axis(1).n, p[1])
                         * Share(OutAxis(2), tile \div Axis(1).n, p[2])
<1> DEFINE l1 == OutAxis(1)
           l2 == OutAxis(2)
           i  == tile % Axis(1).n
           j  == tile \div Axis(1).n
           o  == Overlap * Scale
<1>1. /\ WellTiled(l1) /\ WellTiled(l2) /\ l1.overlap = o /\ l2.overlap = o
      /\ Axis(1).n \in Nat \ {0} /\ Axis(2).n \in Nat \ {0}
      /\ l1.n = Axis(1).n /\ l2.n = Axis(2).n
      /\ l1.len = image.extent[1] * Scale /\ l2.len = image.extent[2] * Scale
  BY AxisFacts
<1>2. o \in Nat
  BY <1>1 DEF WellTiled
<1>3. i \in 0 .. l1.n - 1 /\ j \in 0 .. l2.n - 1
  BY <1>1, TileOrder DEF Total
<1>4. p[1] \in 0 .. l1.len - 1 /\ p[2] \in 0 .. l2.len - 1
  BY <1>1 DEF OutPixels
<1>5. Coord[1] = i /\ Coord[2] = j
  BY DEF Coord
<1>6. Whole = (o + 1) * (o + 1)
  BY DEF Whole
<1> HIDE DEF l1, l2, i, j, o
<1>7. CASE Covers(l1, i, p[1]) /\ Covers(l2, j, p[2])
  <2> DEFINE w1 == Weight(l1, i, p[1])
             w2 == Weight(l2, j, p[2])
             m1 == Norm(l1, i, p[1])
             m2 == Norm(l2, j, p[2])
  <2>1. w1 \in Nat \ {0} /\ w2 \in Nat \ {0} /\ m1 \in {1, o + 1} /\ m2 \in {1, o + 1}
    BY <1>1, <1>3, <1>4, <1>7, CoveringWeight
  <2>2. w1 * w2 > 0
    <3> HIDE DEF w1, w2
    <3>1. w1 * w2 \in Nat \ {0}
      BY <2>1, ProductPositive
    <3> QED
      BY <3>1
  <2>3. Merged(Coord, p) = output[p] + w1 * w2 * (Whole \div (m1 * m2))
    BY <1>5, <1>7, <2>2 DEF Merged, l1, l2
  <2>4. /\ Share(l1, i, p[1]) = IF m1 = 1 THEN (o + 1) * w1 ELSE w1
        /\ Share(l2, j, p[2]) = IF m2 = 1 THEN (o + 1) * w2 ELSE w2
    BY <1>1, <1>7 DEF Share
  <2> HIDE DEF w1, w2, m1, m2
  <2>5. w1 * w2 * (Whole \div (m1 * m2)) = Share(l1, i, p[1]) * Share(l2, j, p[2])
    <3> DEFINE q == o + 1
    <3>1. q \in Nat \ {0} /\ q * q \in Nat \ {0}
      BY <1>2, ProductPositive
    <3>2. (q * q) \div (q * q) = 1
      <4>1. 0 \in 0 .. q * q - 1 /\ 1 * (q * q) + 0 = q * q
        BY <3>1
      <4> QED
        BY <3>1, <4>1, DivUnique
    <3>3. (q * q) \div q = q
      <4>1. 0 \in 0 .. q - 1 /\ q * q + 0 = q * q
        BY <3>1
      <4> QED
        BY <3>1, <4>1, DivUnique
    <3>4. (q * q) \div 1 = q * q
      BY <3>1
    <3>5. Whole = q * q
      BY <1>6
    <3>6. /\ Share(l1, i, p[1]) = IF m1 = 1 THEN q * w1 ELSE w1
          /\ Share(l2, j, p[2]) = IF m2 = 1 THEN q * w2 ELSE w2
          /\ m1 \in {1, q} /\ m2 \in {1, q}
      BY <2>1, <2>4
    <3> HIDE DEF q
    <3>7. CASE m1 = 1 /\ m2 = 1
      <4>1. w1 * w2 * (q * q) = q * w1 * (q * w2) /\ m1 * m2 = 1
        BY <2>1, <3>1, <3>7
      <4> QED
        BY <3>4, <3>5, <3>6, <3>7, <4>1
    <3>8. CASE m1 = 1 /\ m2 # 1
      <4>1. w1 * w2 * q = q * w1 * w2 /\ m1 * m2 = q
        BY <2>1, <3>1, <3>6, <3>8
      <4> QED
        BY <3>3, <3>5, <3>6, <3>8, <4>1
    <3>9. CASE m1 # 1 /\ m2 = 1
      <4>1. w1 * w2 * q = w1 * (q * w2) /\ m1 * m2 = q
        BY <2>1, <3>1, <3>6, <3>9
      <4> QED
        BY <3>3, <3>5, <3>6, <3>9, <4>1
    <3>10. CASE m1 # 1 /\ m2 # 1
      <4>1. w1 * w2 * 1 = w1 * w2 /\ m1 * m2 = q * q
        BY <2>1, <3>1, <3>6, <3>10
      <4> QED
        BY <3>2, <3>5, <3>6, <3>10, <4>1
    <3> QED
      BY <3>7, <3>8, <3>9, <3>10
  <2> QED
    BY <2>3, <2>5 DEF l1, l2, i, j
<1>8. CASE ~(Covers(l1, i, p[1]) /\ Covers(l2, j, p[2]))
  <2>1. Merged(Coord, p) = output[p]
    BY <1>5, <1>8 DEF Merged, l1, l2
  <2>2. Share(l1, i, p[1]) \in Int /\ Share(l2, j, p[2]) \in Int
    BY <1>1, <1>2, <1>3, <1>4, CoveringWeight DEF Share
  <2>3. Share(l1, i, p[1]) = 0 \/ Share(l2, j, p[2]) = 0
    BY <1>8 DEF Share
  <2>4. Share(l1, i, p[1]) * Share(l2, j, p[2]) = 0
    BY <2>2, <2>3
  <2> QED
    BY <2>1, <2>4 DEF l1, l2, i, j
<1> QED
  BY <1>7, <1>8

\* The first state.
LEMMA InitInvariant == Init => IInv
<1> SUFFICES ASSUME Init PROVE IInv
  OBVIOUS
<1>1. output = << >> /\ DOMAIN output = {}
  <2>1. DOMAIN << >> = {}
    BY SMT
  <2> QED
    BY <2>1 DEF Init
<1>2. TypeOK
  BY <1>1 DEF Init, TypeOK, NoImage, NoExtent, Extent
<1> QED
  BY <1>2 DEF Init, IInv, ImageOK, GraphOK, LoopOK, Loop, BlendsToOne

\* The sizes asked for are a pair of integers.
LEMMA WantedIsExtent ==
  ASSUME image.extent \in ImageExtents
  PROVE  WantedSize \in Extent
<1>1. Axis(1).size \in Int /\ Axis(2).size \in Int
  BY AxisFacts
<1> QED
  BY <1>1 DEF WantedSize, Extent

\* A loop that begins has given nothing to any pixel.
LEMMA BeginLoop ==
  ASSUME image.extent \in ImageExtents
  PROVE  /\ 0 \in 0 .. Total - 1
         /\ Cleared = [p \in OutPixels |-> GivenTo(p, 0)]
         /\ \A p \in DOMAIN Cleared : Cleared[p] \in 0 .. Whole
<1>1. Total \in Nat \ {0}
  BY AxisFacts, ProductPositive DEF Total
<1>2. ASSUME NEW p \in OutPixels PROVE GivenTo(p, 0) = 0
  <2>1. p[1] \in 0 .. OutAxis(1).len - 1 /\ p[2] \in 0 .. OutAxis(2).len - 1
    BY AxisFacts DEF OutPixels
  <2>2. WellTiled(OutAxis(1)) /\ WellTiled(OutAxis(2))
    BY AxisFacts
  <2> QED
    BY <2>1, <2>2, GivenStart DEF GivenTo
<1>3. Whole \in Nat
  <2>1. Overlap * Scale \in Nat
    <3>1. OutAxis(1).overlap \in Nat
      BY AxisFacts DEF WellTiled
    <3> QED
      BY <3>1, AxisFacts
  <2> DEFINE q == Overlap * Scale + 1
  <2>2. q \in Nat
    BY <2>1
  <2> HIDE DEF q
  <2>3. q * q \in Nat
    BY <2>2
  <2> QED
    BY <2>3 DEF Whole, q
<1> QED
  BY <1>1, <1>2, <1>3 DEF Cleared

\* One merge carries the blended image from one tile to the next, or to the end.
LEMMA MergeLoop ==
  ASSUME image.extent \in ImageExtents, tile \in 0 .. Total - 1,
         output = [p \in OutPixels |-> GivenTo(p, tile)],
         NEW p \in OutPixels
  PROVE  /\ output[p] \in 0 .. Whole
         /\ tile + 1 < Total => Merged(Coord, p) = GivenTo(p, tile + 1)
         /\ tile + 1 = Total => Merged(Coord, p) = Whole
         /\ tile + 1 < Total => GivenTo(p, tile + 1) \in 0 .. Whole
         /\ Whole \in Nat
<1> DEFINE l1 == OutAxis(1)
           l2 == OutAxis(2)
           o  == Overlap * Scale
<1>1. /\ WellTiled(l1) /\ WellTiled(l2) /\ l1.overlap = o /\ l2.overlap = o
      /\ l1.n = Axis(1).n /\ l2.n = Axis(2).n
      /\ Axis(1).n \in Nat \ {0} /\ Axis(2).n \in Nat \ {0}
      /\ l1.len = image.extent[1] * Scale /\ l2.len = image.extent[2] * Scale
  BY AxisFacts
<1>2. o \in Nat /\ Whole = (o + 1) * (o + 1) /\ Total = l1.n * l2.n
  <2>1. o \in Nat
    BY <1>1 DEF WellTiled
  <2> QED
    BY <1>1, <2>1 DEF Whole, Total
<1>3. p[1] \in 0 .. l1.len - 1 /\ p[2] \in 0 .. l2.len - 1
  BY <1>1 DEF OutPixels
<1>4. Total \in Nat /\ Whole \in Nat
  <2> HIDE DEF o, l1, l2
  <2>1. Total \in Nat
    BY <1>1, ProductPositive DEF Total
  <2>2. o + 1 \in Nat
    BY <1>2
  <2> QED
    BY <1>2, <2>1, <2>2
<1> DEFINE give(t) == Given(l1, l2, p[1], p[2], t)
           sum == give(tile) + Share(l1, tile % l1.n, p[1])
                                * Share(l2, tile \div l1.n, p[2])
<1>5. output[p] = give(tile)
  BY DEF GivenTo
<1> HIDE DEF l1, l2, o
<1>6. \A t \in 0 .. Total - 1 :
        /\ give(t) \in 0 .. Whole
  BY <1>1, <1>2, <1>3, GivenStep
<1>7. /\ tile + 1 < Total => sum = give(tile + 1)
      /\ tile + 1 = Total => sum = Whole
  BY <1>1, <1>2, <1>3, GivenStep
<1>8. Merged(Coord, p) = sum
  <2>1. output[p] \in Int
    BY <1>5, <1>6
  <2> QED
    BY <1>1, <1>5, <2>1, MergeAdds DEF l1, l2
<1>9. tile + 1 < Total => tile + 1 \in 0 .. Total - 1
  BY <1>4
<1> QED
  BY <1>4, <1>5, <1>6, <1>7, <1>8, <1>9 DEF GivenTo, l1, l2

-----------------------------------------------------------------------------
\* Whoever leaves the image alone leaves what is computed from it alone.
LEMMA SameImage ==
  ASSUME UNCHANGED image
  PROVE  /\ WantedSize' = WantedSize /\ Total' = Total /\ OutPixels' = OutPixels
         /\ \A p, t : (GivenTo(p, t))' = GivenTo(p, t)
  BY DEF WantedSize, Total, OutPixels, GivenTo, Given, OutAxis, Axis

\* The loop starts the same way on a kept and on a new graph.
LEMMA BeginInvariant ==
  ASSUME IInv, pc = "graph", Begin, graph' = "ready" \/ graph' = graph,
         graph' \in {"none", "unallocated", "ready"}, graph' # "none",
         tile_size' = WantedSize, graph_input' = WantedSize
  PROVE  IInv'
<1>1. image.extent \in ImageExtents /\ image' = image
  BY DEF IInv, ImageOK, Begin
<1>2. WantedSize' = WantedSize /\ Total' = Total /\ OutPixels' = OutPixels
      /\ \A p, t : (GivenTo(p, t))' = GivenTo(p, t)
  BY <1>1, SameImage
<1>3. /\ 0 \in 0 .. Total - 1
      /\ Cleared = [p \in OutPixels |-> GivenTo(p, 0)]
      /\ \A p \in DOMAIN Cleared : Cleared[p] \in 0 .. Whole
  BY <1>1, BeginLoop
<1>4. WantedSize \in Extent
  BY <1>1, WantedIsExtent
<1>5. pc' = "convert" /\ tile' = 0 /\ input_tile' = "unset" /\ output' = Cleared
  BY DEF Begin
<1>6. TypeOK'
  BY <1>1, <1>3, <1>4, <1>5 DEF IInv, TypeOK
<1>7. LoopOK'
  <2>1. output' = [p \in OutPixels |-> GivenTo(p, 0)]
    BY <1>3, <1>5
  <2>2. tile' \in 0 .. Total' - 1
    BY <1>2, <1>3, <1>5
  <2>3. output' = [p \in OutPixels' |-> (GivenTo(p, tile))']
    BY <1>2, <1>5, <2>1
  <2> QED
    BY <2>2, <2>3 DEF LoopOK
<1> QED
  BY <1>1, <1>2, <1>5, <1>6, <1>7 DEF IInv, ImageOK, GraphOK, BlendsToOne, Loop

\* Steps that change neither the image nor what has been blended.
LEMMA QuietInvariant ==
  ASSUME IInv, UNCHANGED <<image, tile, output, graph, tile_size, graph_input>>,
         input_tile' \in {"unset", "pixels"},
         \/ pc' \in {"idle", "crashed"}
         \/ pc \in Loop /\ pc' \in Loop
         \/ pc' = pc
  PROVE  IInv'
<1>1. WantedSize' = WantedSize /\ Total' = Total /\ OutPixels' = OutPixels
      /\ \A p, t : (GivenTo(p, t))' = GivenTo(p, t)
  BY SameImage
<1>2. TypeOK'
  BY DEF IInv, TypeOK, Loop
<1>3. LoopOK'
  <2> SUFFICES ASSUME pc \in Loop
               PROVE  tile' \in 0 .. Total' - 1
                      /\ output' = [p \in OutPixels' |-> (GivenTo(p, tile))']
    BY DEF LoopOK, Loop
  <2>1. tile \in 0 .. Total - 1 /\ output = [p \in OutPixels |-> GivenTo(p, tile)]
    BY DEF IInv, LoopOK
  <2> QED
    BY <1>1, <2>1
<1>4. BlendsToOne'
  BY <1>1 DEF IInv, BlendsToOne, Loop
<1>5. ImageOK' /\ GraphOK'
  BY <1>1 DEF IInv, ImageOK, GraphOK, Loop
<1> QED
  BY <1>2, <1>3, <1>4, <1>5 DEF IInv

\* Every step keeps the invariant.
LEMMA StepInvariant == IInv /\ [Next]_vars => IInv'
<1> SUFFICES ASSUME IInv, [Next]_vars PROVE IInv'
  OBVIOUS
<1>1. CASE Call
  <2>1. PICK e \in ImageExtents, c \in Formats : image' = [extent |-> e, channels |-> c]
    BY <1>1 DEF Call
  <2>2. image'.extent \in ImageExtents /\ c \in {1, 3, 4}
    BY <2>1, UpscaleAssumption
  <2>3. TypeOK'
    BY <1>1, <2>1, <2>2 DEF Call, model, IInv, TypeOK
  <2> QED
    BY <1>1, <2>2, <2>3
    DEF Call, model, IInv, ImageOK, GraphOK, LoopOK, Loop, BlendsToOne
<1>2. CASE KeepGraph
  <2>1. pc = "graph" /\ graph # "none" /\ tile_size = WantedSize /\ Begin
        /\ UNCHANGED model
    BY <1>2 DEF KeepGraph, NeedsGraph
  <2>2. graph_input = tile_size /\ graph \in {"none", "unallocated", "ready"}
    BY <2>1 DEF IInv, GraphOK, TypeOK
  <2> QED
    BY <2>1, <2>2, BeginInvariant DEF model
<1>3. CASE BuildGraph
  BY <1>3, BeginInvariant DEF BuildGraph
<1>4. CASE AllocateFails
  <2>1. WantedSize \in Extent
    BY <1>4, WantedIsExtent DEF IInv, ImageOK, AllocateFails
  <2>2. TypeOK'
    BY <1>4, <2>1 DEF AllocateFails, IInv, TypeOK
  <2> QED
    BY <1>4, <2>2
    DEF AllocateFails, IInv, ImageOK, GraphOK, LoopOK, Loop, BlendsToOne
<1>5. CASE Convert
  BY <1>5, QuietInvariant DEF Convert, model, Loop, IInv, TypeOK
<1>6. CASE Compute
  BY <1>6, QuietInvariant DEF Compute, model, Loop, IInv, TypeOK
<1>7. CASE ComputeUnallocated
  BY <1>7, QuietInvariant DEF ComputeUnallocated, model, IInv, TypeOK
<1>8. CASE TileMerge
  <2>1. /\ image' = image /\ image.extent \in ImageExtents
        /\ tile \in 0 .. Total - 1
        /\ output = [p \in OutPixels |-> GivenTo(p, tile)]
        /\ graph # "none" /\ tile_size = WantedSize /\ graph_input = tile_size
        /\ UNCHANGED <<graph, tile_size, graph_input, input_tile>>
    BY <1>8 DEF TileMerge, model, IInv, ImageOK, GraphOK, LoopOK, Loop
  <2>2. WantedSize' = WantedSize /\ Total' = Total /\ OutPixels' = OutPixels
        /\ \A p, t : (GivenTo(p, t))' = GivenTo(p, t)
    BY <2>1, SameImage
  <2>a. Total \in Nat
    BY <2>1, AxisFacts, ProductPositive DEF Total
  <2>3. \A p \in OutPixels :
          /\ tile + 1 < Total => Merged(Coord, p) = GivenTo(p, tile + 1)
          /\ tile + 1 = Total => Merged(Coord, p) = Whole
          /\ tile + 1 < Total => GivenTo(p, tile + 1) \in 0 .. Whole
          /\ Whole \in Nat
    BY <2>1, MergeLoop
  <2>4. output' = [p \in OutPixels |-> Merged(Coord, p)]
    BY <1>8 DEF TileMerge
  <2>5. CASE tile + 1 < Total
    <3>1. tile' = tile + 1 /\ pc' = "convert"
      BY <1>8, <2>5 DEF TileMerge
    <3>2. output' = [p \in OutPixels' |-> (GivenTo(p, tile))']
      BY <2>2, <2>3, <2>4, <2>5, <3>1
    <3>3. tile' \in 0 .. Total' - 1 /\ tile' \in Nat
      BY <2>a, <2>1, <2>2, <2>5, <3>1
    <3>4. \A p \in DOMAIN output' : output'[p] \in 0 .. Whole
      BY <2>3, <2>4, <2>5
    <3>5. TypeOK'
      BY <2>1, <3>1, <3>3, <3>4 DEF IInv, TypeOK
    <3> QED
      BY <2>1, <2>2, <3>1, <3>2, <3>3, <3>5
      DEF IInv, ImageOK, GraphOK, LoopOK, Loop, BlendsToOne
  <2>6. CASE ~(tile + 1 < Total)
    <3>1. tile' = tile /\ pc' = "return"
      BY <1>8, <2>6 DEF TileMerge
    <3>2. tile + 1 = Total
      BY <2>a, <2>1, <2>6
    <3>3. \A p \in OutPixels' : output'[p] = Whole
      BY <2>2, <2>3, <2>4, <3>2
    <3>4. \A p \in DOMAIN output' : output'[p] \in 0 .. Whole
      BY <2>3, <2>4, <3>2
    <3>5. TypeOK'
      BY <2>1, <3>1, <3>4 DEF IInv, TypeOK
    <3> QED
      BY <2>1, <2>2, <3>1, <3>3, <3>5
      DEF IInv, ImageOK, GraphOK, LoopOK, Loop, BlendsToOne
  <2> QED
    BY <2>5, <2>6
<1>9. CASE Return
  BY <1>9, QuietInvariant DEF Return, model, IInv, TypeOK
<1>10. CASE UNCHANGED vars
  BY <1>10, QuietInvariant DEF vars, IInv, TypeOK
<1> QED
  BY <1>1, <1>2, <1>3, <1>4, <1>5, <1>6, <1>7, <1>8, <1>9, <1>10 DEF Next

\* The invariant holds of every behaviour of esrgan_compute, call after call.
THEOREM Invariant == Spec => []IInv
<1> QED
  BY InitInvariant, StepInvariant, PTL DEF Spec

-----------------------------------------------------------------------------
\* Types, and no pixel ever receives more than its whole value.
THEOREM TypeCorrect == Spec => []TypeOK
<1>1. IInv => TypeOK
  BY DEF IInv
<1> QED
  BY <1>1, Invariant, PTL

\* tile_merge's result is neither darker nor brighter anywhere than the tiles
\* it was blended from.
THEOREM Blend == Spec => []BlendsToOne
<1>1. IInv => BlendsToOne
  BY DEF IInv
<1> QED
  BY <1>1, Invariant, PTL

\* Keeping a graph by tile size alone never runs one on a tile of another size.
THEOREM GraphFits == Spec => []GraphFitsTile
<1>1. IInv => GraphFitsTile
  BY DEF IInv, GraphOK, GraphFitsTile, Loop
<1> QED
  BY <1>1, Invariant, PTL

\* No tile of the loop lies wholly outside the image.
THEOREM TilesShow == Spec => []EveryTileShows
<1>1. IInv => EveryTileShows
  <2> SUFFICES ASSUME IInv, pc = "compute", NEW a \in {1, 2}
               PROVE  Start(Axis(a), Coord[a], 0) < image.extent[a]
    BY DEF EveryTileShows
  <2>1. image.extent \in ImageExtents /\ tile \in 0 .. Total - 1
    BY DEF IInv, ImageOK, LoopOK, Loop
  <2>2. Axis(1).n \in Nat \ {0} /\ Axis(2).n \in Nat \ {0}
        /\ image.extent[a] \in Nat \ {0}
    BY <2>1, AxisFacts
  <2>3. Coord[a] \in 0 .. Axis(a).n - 1
    <3>1. tile % Axis(1).n \in 0 .. Axis(1).n - 1
          /\ tile \div Axis(1).n \in 0 .. Axis(2).n - 1
      BY <2>1, <2>2, TileOrder DEF Total
    <3> QED
      BY <3>1 DEF Coord
  <2>4. PICK u \in 1 .. MaxTileSize, v \in 0 .. Overlap :
            MaxTileSize = u * Align /\ Overlap = v * Align
    BY UpscaleAssumption
  <2>5. Align \in Nat \ {0} /\ u \in Nat \ {0} /\ v \in Nat
    BY UpscaleAssumption
  <2>6. \A i \in 0 .. Axis(a).n - 1 : Start(Axis(a), i, 0) < image.extent[a]
    BY <2>2, <2>4, <2>5, TilesBeginInside DEF Axis
  <2> QED
    BY <2>3, <2>6
<1> QED
  BY <1>1, Invariant, PTL
=============================================================================
