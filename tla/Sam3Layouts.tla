----------------------------- MODULE Sam3Layouts -----------------------------
(***************************************************************************)
(* Where depend/sam3/sam3.cpp takes each number from when it resamples an  *)
(* image or cuts a feature map into attention windows and puts it back:    *)
(* arithmetic on indices that no type checks.                              *)
(*                                                                         *)
(* A tensor is [ne, at]: its four extents, fastest first, and its elements *)
(* in the order of memory.  Padding is the element Pad.                    *)
(***************************************************************************)
EXTENDS Integers, Sequences, FiniteSets

Pad == "pad"

Smaller(a, b) == IF a <= b THEN a ELSE b
Larger(a, b)  == IF a >= b THEN a ELSE b
Ceil(a, b)    == (a + b - 1) \div b

Size(ne) == ne[1] * ne[2] * ne[3] * ne[4]

\* The position of the i-th element of a contiguous tensor.
Position(i, ne) == <<i % ne[1], (i \div ne[1]) % ne[2],
                     (i \div (ne[1] * ne[2])) % ne[3], i \div (ne[1] * ne[2] * ne[3])>>

-----------------------------------------------------------------------------
(* The ggml operations the layouts are made of. *)

Reshape(t, ne) == [ne |-> ne, at |-> t.at]

\* ggml_cont of a ggml_view_4d with the strides nb of dimensions 1, 2 and 3.
View(t, ne, nb) ==
    [ne |-> ne,
     at |-> [i \in 0 .. (Size(ne) - 1) |->
               LET p == Position(i, ne)
               IN  t.at[p[1] + p[2] * nb[1] + p[3] * nb[2] + p[4] * nb[3]]]]

\* ggml_cont of ggml_permute(0, 2, 1, 3).
SwapMiddle(t) ==
    LET n == t.ne
    IN  View(t, <<n[1], n[3], n[2], n[4]>>, <<n[1] * n[2], n[1], n[1] * n[2] * n[3]>>)

\* The first w and h of dimensions 1 and 2.
Crop(t, w, h) ==
    LET n == t.ne
    IN  View(t, <<n[1], w, h, n[4]>>, <<n[1], n[1] * n[2], n[1] * n[2] * n[3]>>)

\* ggml_pad of dimensions 1 and 2 up to w and h.
PadTo(t, w, h) ==
    LET n == t.ne
        m == <<n[1], w, h, n[4]>>
    IN  [ne |-> m,
         at |-> [i \in 0 .. (Size(m) - 1) |->
                   LET p == Position(i, m)
                   IN  IF p[2] < n[2] /\ p[3] < n[3]
                       THEN t.at[p[1] + n[1] * (p[2] + n[2] * (p[3] + n[3] * p[4]))]
                       ELSE Pad]]

\* ggml_pool_2d, maximum over 2 x 2 in dimensions 1 and 2: what it looks at.
Pool2(t) ==
    LET n == t.ne
        m == <<n[1], n[2] \div 2, n[3] \div 2, n[4]>>
    IN  [ne |-> m,
         at |-> [i \in 0 .. (Size(m) - 1) |->
                   LET p == Position(i, m)
                   IN  {t.at[p[1] + n[1] * (2 * p[2] + dx + n[2] * (2 * p[3] + dy + n[3] * p[4]))]
                          : dx, dy \in 0 .. 1}]]

-----------------------------------------------------------------------------
(* Windows. *)

\* Mutant: windows are counted down the columns.
WinPartByColumn(a, w) ==
    LET n   == a.ne
        npx == Ceil(n[2], w)
        npy == Ceil(n[3], w)
        v   == View(PadTo(a, npx * w, npy * w), <<n[1] * w, npx, w, npy>>,
                    <<n[1] * w, n[1] * npx * w, n[1] * npx * w * w>>)
    IN  Reshape(v, <<n[1], w, w, npx * npy>>)

\* sam3_win_part.
WinPart(a, w) ==
    LET n   == a.ne
        npx == Ceil(n[2], w)
        npy == Ceil(n[3], w)
        v   == View(PadTo(a, npx * w, npy * w), <<n[1] * w, npx, w, npy>>,
                    <<n[1] * w, n[1] * npx * w, n[1] * npx * w * w>>)
    IN  Reshape(SwapMiddle(v), <<n[1], w, w, npx * npy>>)

\* sam3_win_unpart.
WinUnpart(a, w0, h0, w) ==
    LET n   == a.ne
        npx == Ceil(w0, w)
        npy == Ceil(h0, w)
        v   == View(a, <<n[1] * w, npx, w, npy>>,
                    <<n[1] * w * w, n[1] * w, n[1] * w * w * npx>>)
    IN  Crop(Reshape(v, <<n[1], npx * w, npy * w, 1>>), w0, h0)

\* sam2_window_partition, of one image: windows are numbered down the columns.
Partition(x, ws) ==
    LET n  == x.ne
        wp == Ceil(n[2], ws) * ws
        hp == Ceil(n[3], ws) * ws
        c1 == SwapMiddle(Reshape(PadTo(x, wp, hp), <<n[1] * ws, wp \div ws, hp, n[4]>>))
    IN  Reshape(Reshape(c1, <<n[1] * ws, ws, hp \div ws, (wp \div ws) * n[4]>>),
                <<n[1], ws, ws, (wp \div ws) * (hp \div ws) * n[4]>>)

\* sam2_window_unpartition to the padded extents wp and hp, cropped.
Unpartition(x, ws, wp, hp, w0, h0) ==
    LET n  == x.ne
        r1 == Reshape(x, <<n[1] * ws, ws, hp \div ws, wp \div ws>>)
        r2 == Reshape(r1, <<n[1] * ws, hp, wp \div ws, 1>>)
    IN  Crop(Reshape(SwapMiddle(r2), <<n[1], wp, hp, 1>>), w0, h0)

\* sam2_hiera_block_forward computes the padded extent of the pooled map anew.
PooledExtent(w, ws) == Ceil(w \div 2, ws \div 2) * (ws \div 2)

\* edgetam_window_partition_cpu, of positions: token by token, row by row; what
\* does not fill a window is not copied.
CpuPartition(w, h, ws) ==
    [t \in (0 .. ((w \div ws) * (h \div ws) - 1)) \X (0 .. (ws * ws - 1)) |->
        <<(t[1] % (w \div ws)) * ws + (t[2] % ws), (t[1] \div (w \div ws)) * ws + (t[2] \div ws)>>]

\* edgetam_window_unpartition_cpu: the <<window, token>> a position is read from.
CpuUnpartition(w, h, ws) ==
    [p \in (0 .. (w - 1)) \X (0 .. (h - 1)) |->
        <<(p[2] \div ws) * (w \div ws) + (p[1] \div ws), (p[2] % ws) * ws + (p[1] % ws)>>]

-----------------------------------------------------------------------------
(* Resampling along one axis, at positions that are multiples of          *)
(* 1/(2 * dst): <<first pixel, second pixel, weight of the second>>.       *)

Centre(y, src, dst) == (2 * y + 1) * src - dst

\* sam3_bilinear_interpolate, for masks.
Interpolate(y, src, dst) ==
    LET f  == Larger(0, Smaller(Centre(y, src, dst), (src - 1) * 2 * dst))
        y0 == Smaller(f \div (2 * dst), src - 2)
    IN  <<y0, y0 + 1, f - y0 * 2 * dst>>

\* sam3_resize_bilinear, for images.
Resize(y, src, dst) ==
    LET f  == Larger(0, Centre(y, src, dst))
        y0 == f \div (2 * dst)
    IN  <<y0, IF y0 < src - 1 THEN y0 + 1 ELSE y0, f - y0 * 2 * dst>>

\* The weight a sample gives each pixel of the source.
Weights(s, src, dst) ==
    [i \in 0 .. (src - 1) |-> (IF i = s[1] THEN 2 * dst - s[3] ELSE 0)
                                + (IF i = s[2] THEN s[3] ELSE 0)]

\* sam3_preprocess_image, sam2_preprocess_image: the element of the image (a
\* pixel's channels side by side) that becomes the i-th of the network's input
\* (a plane for each channel).
PlanarFrom(i, size) ==
    LET c == i \div (size * size)
        y == (i \div size) % size
        x == i % size
    IN  (y * size + x) * 3 + c

-----------------------------------------------------------------------------
(* What they promise. *)

\* A feature map whose elements are their own positions.
Map(c, w, h) ==
    LET ne == <<c, w, h, 1>>
    IN  [ne |-> ne, at |-> [i \in 0 .. (Size(ne) - 1) |-> Position(i, ne)]]

\* Each window holds, in rows, one square of the map and nothing else.
IsSquares(t, w) ==
    \A i \in DOMAIN t.at :
        LET p     == Position(i, t.ne)
            first == t.at[p[4] * t.ne[1] * w * w]
        IN  t.at[i] # Pad =>
              t.at[i] = <<p[1], first[2] + p[2], first[3] + p[3], 0>>
                /\ first[2] % w = 0 /\ first[3] % w = 0

\* Cutting a map into windows loses, doubles and mixes nothing, and putting
\* the windows back gives the map, padded or not.
WindowsAreSquares(c, w, h, ws) ==
    LET a == Map(c, w, h)
    IN  /\ IsSquares(WinPart(a, ws), ws)
        /\ WinUnpart(WinPart(a, ws), w, h, ws) = a

\* The same of the Hiera windows; and a map of even extents that is pooled in
\* its windows and put back from windows of half the size is the map pooled.
HieraWindowsAreSquares(c, w, h, ws) ==
    LET a      == Map(c, w, h)
        cut    == Partition(a, ws)
        pooled == Unpartition(Pool2(cut), ws \div 2, PooledExtent(w, ws), PooledExtent(h, ws),
                              w \div 2, h \div 2)
    IN  /\ IsSquares(cut, ws)
        /\ Unpartition(cut, ws, Ceil(w, ws) * ws, Ceil(h, ws) * ws, w, h) = a
        /\ w % 2 = 0 /\ h % 2 = 0 /\ ws % 2 = 0 => pooled = Pool2(a)

\* The windows of the perceiver, on maps of whole windows.
CpuWindowsAreSquares(w, h, ws) ==
    w % ws = 0 /\ h % ws = 0 =>
        LET to   == CpuPartition(w, h, ws)
            from == CpuUnpartition(w, h, ws)
        IN  \A x \in 0 .. (w - 1), y \in 0 .. (h - 1) : to[from[<<x, y>>]] = <<x, y>>

\* The two samplers read pixels of the source only, weigh them alike, and from
\* the right what they weigh from the left.
SamplersAgree(src, dst) ==
    \A y \in 0 .. (dst - 1) :
        LET r == Resize(y, src, dst)
            i == Interpolate(y, src, dst)
        IN  /\ {r[1], r[2]} \subseteq 0 .. (src - 1) /\ r[3] \in 0 .. (2 * dst)
            /\ src >= 2 =>
                 /\ {i[1], i[2]} \subseteq 0 .. (src - 1) /\ i[3] \in 0 .. (2 * dst)
                 /\ Weights(i, src, dst) = Weights(r, src, dst)
            /\ \A p \in 0 .. (src - 1) :
                 Weights(r, src, dst)[p]
                   = Weights(Resize(dst - 1 - y, src, dst), src, dst)[src - 1 - p]

\* The network's input takes every element of the image once, a plane from one
\* channel.
PlanesAreChannels(size) ==
    LET n == 3 * size * size
    IN  /\ {PlanarFrom(i, size) : i \in 0 .. (n - 1)} = 0 .. (n - 1)
        /\ \A i \in 0 .. (n - 1) : PlanarFrom(i, size) % 3 = i \div (size * size)
=============================================================================
