-------------------------------- MODULE Ggml --------------------------------
(***************************************************************************)
(* The operations of the ggml library that build the networks of           *)
(* depend/sam3/sam3.cpp, as far as the shapes of their results go, and the *)
(* assertions each makes about its arguments.  ggml is not part of the     *)
(* repository: this is what the graph code relies on.                      *)
(*                                                                         *)
(* A tensor is [ne, nb]: its four extents, fastest first, and its strides  *)
(* in elements.  An operation whose assertion fails is NoTensor, and so is *)
(* one that is given NoTensor: the program would have been aborted.        *)
(***************************************************************************)
EXTENDS Integers, Sequences

NoTensor == [ne |-> <<0, 0, 0, 0>>, nb |-> <<0, 0, 0, 0>>]

Tensor(ne) == [ne |-> ne, nb |-> <<1, ne[1], ne[1] * ne[2], ne[1] * ne[2] * ne[3]>>]
T1(a) == Tensor(<<a, 1, 1, 1>>)
T2(a, b) == Tensor(<<a, b, 1, 1>>)
T3(a, b, c) == Tensor(<<a, b, c, 1>>)
T4(a, b, c, d) == Tensor(<<a, b, c, d>>)

Dims == 1 .. 4
Elements(t) == t.ne[1] * t.ne[2] * t.ne[3] * t.ne[4]
Exists(t)   == \A d \in Dims : t.ne[d] > 0

\* From the first element of a tensor to its last.
Span(t) == 1 + (t.ne[1] - 1) * t.nb[1] + (t.ne[2] - 1) * t.nb[2]
             + (t.ne[3] - 1) * t.nb[3] + (t.ne[4] - 1) * t.nb[4]

IsContiguous(t) ==
    LET plain == Tensor(t.ne)
    IN  \A d \in Dims : t.ne[d] = 1 \/ t.nb[d] = plain.nb[d]

Asserted(condition, result) == IF condition THEN result ELSE NoTensor

-----------------------------------------------------------------------------
\* Whether a can be repeated to the extents of b.
CanRepeat(a, b) == Exists(a) /\ Exists(b) /\ \A d \in Dims : b.ne[d] % a.ne[d] = 0

\* ggml_add, ggml_sub, ggml_mul, and the same in place.
Add(a, b) == Asserted(CanRepeat(b, a), Tensor(a.ne))

Repeat(a, b) == Asserted(CanRepeat(a, b), Tensor(b.ne))

MulMat(a, b) ==
    Asserted(/\ Exists(a) /\ Exists(b)
             /\ a.ne[1] = b.ne[1] /\ b.ne[3] % a.ne[3] = 0 /\ b.ne[4] % a.ne[4] = 0
             /\ a.nb[1] <= a.nb[2],
             T4(a.ne[2], b.ne[2], b.ne[3], b.ne[4]))

-----------------------------------------------------------------------------
\* ggml_cont, and what computes element by element.
Cont(t) == Asserted(Exists(t), Tensor(t.ne))

Reshape(t, a, b, c, d) ==
    Asserted(Exists(t) /\ IsContiguous(t) /\ Elements(t) = a * b * c * d, T4(a, b, c, d))

\* Dimension d of t becomes dimension axes[d], counted from 0.
Permute(t, p, q, r, s) ==
    LET axes   == <<p + 1, q + 1, r + 1, s + 1>>
        old(d) == CHOOSE e \in Dims : axes[e] = d
    IN  Asserted(Exists(t),
                 [ne |-> [d \in Dims |-> t.ne[old(d)]], nb |-> [d \in Dims |-> t.nb[old(d)]]])

Permuted(t, p, q, r, s) == Cont(Permute(t, p, q, r, s))

\* ggml_view_4d with strides of t or of one's own.  ggml lets a view be as large
\* as its tensor; that what it reads is inside is up to the caller.
View(t, ne, nb, offset) ==
    LET v == [ne |-> ne, nb |-> <<t.nb[1]>> \o nb]
    IN  Asserted(Exists(t) /\ Exists(v) /\ offset >= 0 /\ offset + Span(v) <= Span(t), v)

\* A view with the strides of t.
Part(t, ne, offset) == View(t, ne, <<t.nb[2], t.nb[3], t.nb[4]>>, offset)

\* ggml_concat along dimension d, counted from 0.
Concat(a, b, d) ==
    Asserted(/\ Exists(a) /\ Exists(b)
             /\ \A e \in Dims \ {d + 1} : a.ne[e] = b.ne[e],
             Tensor([a.ne EXCEPT ![d + 1] = @ + b.ne[d + 1]]))

\* ggml_get_rows.
GetRows(a, rows) ==
    Asserted(Exists(a) /\ Exists(rows) /\ a.ne[3] = rows.ne[2],
             T4(a.ne[1], rows.ne[1], rows.ne[2], rows.ne[3]))

\* ggml_pad at the end of each dimension.
PadBy(t, a, b, c, d) ==
    Asserted(Exists(t), T4(t.ne[1] + a, t.ne[2] + b, t.ne[3] + c, t.ne[4] + d))

\* ggml_sum_rows.
SumRows(t) == Asserted(Exists(t), T4(1, t.ne[2], t.ne[3], t.ne[4]))

-----------------------------------------------------------------------------
\* Convolutions work on [width, height, channels, images], their weights are
\* [width, height, channels in, channels out].
Out(extent, kernel, stride, pad) == (extent + 2 * pad - kernel) \div stride + 1

\* ggml_conv_2d: through im2col.
Conv(w, x, stride, pad) ==
    LET r == <<Out(x.ne[1], w.ne[1], stride, pad), Out(x.ne[2], w.ne[2], stride, pad),
               w.ne[4], x.ne[4]>>
    IN  Asserted(Exists(w) /\ Exists(x) /\ w.ne[3] = x.ne[3] /\ Exists(Tensor(r)), Tensor(r))

\* ggml_conv_2d_sk_p0, ggml_conv_2d_s1_ph.
ConvPatches(w, x) == Conv(w, x, w.ne[1], 0)
ConvSame(w, x)    == Conv(w, x, 1, w.ne[1] \div 2)

\* ggml_conv_2d_dw_direct: a kernel for each channel.
ConvDw(w, x, stride, pad) ==
    LET r == <<Out(x.ne[1], w.ne[1], stride, pad), Out(x.ne[2], w.ne[2], stride, pad),
               x.ne[3], x.ne[4]>>
    IN  Asserted(/\ Exists(w) /\ Exists(x) /\ w.ne[3] = 1 /\ w.ne[4] = x.ne[3]
                 /\ Exists(Tensor(r)), Tensor(r))

\* ggml_conv_transpose_2d_p0.
ConvTranspose(w, x, stride) ==
    Asserted(Exists(w) /\ Exists(x) /\ w.ne[4] = x.ne[3],
             T4((x.ne[1] - 1) * stride + w.ne[1], (x.ne[2] - 1) * stride + w.ne[2],
                w.ne[3], x.ne[4]))

\* ggml_pool_2d without padding.
Pool(x, kw, kh) ==
    LET r == <<Out(x.ne[1], kw, kw, 0), Out(x.ne[2], kh, kh, 0), x.ne[3], x.ne[4]>>
    IN  Asserted(Exists(x) /\ Exists(Tensor(r)), Tensor(r))

\* ggml_upscale, ggml_interpolate.
Upscale(x, f) == Asserted(Exists(x), T4(x.ne[1] * f, x.ne[2] * f, x.ne[3], x.ne[4]))

-----------------------------------------------------------------------------
\* ggml_flash_attn_ext: [head, queries, heads, images] against as many keys and
\* values; a mask holds a number for each key and query.
NoMask == [ne |-> <<0, 0, 0, 0>>, nb |-> <<0, 0, 0, 0>>, absent |-> TRUE]

MaskFits(mask, keys, queries) ==
    mask = NoMask \/ (mask.ne[1] = keys /\ mask.ne[2] >= queries /\ IsContiguous(mask))

FlashAttn(q, k, v, mask) ==
    Asserted(/\ Exists(q) /\ Exists(k) /\ Exists(v)
             /\ q.ne[1] = k.ne[1] /\ k.ne[2] = v.ne[2]
             /\ \A d \in {3, 4} : q.ne[d] % k.ne[d] = 0 /\ q.ne[d] % v.ne[d] = 0
             /\ MaskFits(mask, k.ne[2], q.ne[2]),
             T4(v.ne[1], q.ne[3], q.ne[2], q.ne[4]))

\* ggml_soft_max_ext.
SoftMax(t, mask) ==
    Asserted(Exists(t) /\ (mask = NoMask \/ (mask.ne[1] = t.ne[1] /\ mask.ne[2] >= t.ne[2]
                                                /\ t.ne[3] % mask.ne[3] = 0)),
             Tensor(t.ne))
=============================================================================
