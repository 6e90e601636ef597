----------------------------- MODULE Sam3Graphs -----------------------------
(***************************************************************************)
(* The image encoders and the text encoder of depend/sam3/sam3.cpp as      *)
(* graphs of tensors: what each operation makes of the shapes it is given. *)
(* A graph that trips an assertion of ggml ends as NoTensor.               *)
(***************************************************************************)
EXTENDS Sam3Weights, FiniteSets, Folds

CONSTANT
    FlashKernel     \* whether the device has flash attention for these heads

Ceil(a, b) == (a + b - 1) \div b

-----------------------------------------------------------------------------
(* Helpers of the graph code. *)

Through(l, x) == Add(MulMat(l.w, x), l.b)
Through2(x, fc1, fc2) == Through(fc2, Through(fc1, x))

\* sam3_layer_norm, sam3_layer_norm_2d.
LayerNorm(x, n) == Add(Add(x, n.w), n.b)

\* The second half of every transformer block.
FeedForward(x, norm, blk) == Add(x, Through2(LayerNorm(x, norm), blk.fc1, blk.fc2))

\* Between [channels, width, height, images] and what convolutions work on.
ToPlanes(x)   == Permuted(x, 2, 0, 1, 3)
FromPlanes(x) == Permuted(x, 1, 2, 0, 3)

\* The bias of a convolution.
AddBias(x, b) == Add(x, Reshape(b, 1, 1, b.ne[1], 1))

ScoresAttn(q, k, v, mask) ==
    LET kq  == SoftMax(MulMat(k, q), mask)
        out == MulMat(Permuted(v, 1, 0, 2, 3), kq)
    IN  Permuted(out, 0, 2, 1, 3)

\* sam3_attn_ext, with no mask or one of half precision.
AttnExt(q, k, v, mask) ==
    IF FlashKernel THEN FlashAttn(q, k, v, mask) ELSE ScoresAttn(q, k, v, mask)

WinPart(a, w) ==
    LET e   == a.ne[1]
        npx == Ceil(a.ne[2], w)
        npy == Ceil(a.ne[3], w)
        v   == View(PadBy(a, 0, npx * w - a.ne[2], npy * w - a.ne[3], 0), <<e * w, npx, w, npy>>,
                    <<e * w, e * npx * w, e * npx * w * w>>, 0)
    IN  Asserted(a.ne[4] = 1 /\ IsContiguous(a),
                 Reshape(Permuted(v, 0, 2, 1, 3), e, w, w, npx * npy))

WinUnpart(a, w0, h0, w) ==
    LET e   == a.ne[1]
        npx == Ceil(w0, w)
        npy == Ceil(h0, w)
        v   == View(a, <<e * w, npx, w, npy>>, <<e * w * w, e * w, e * w * w * npx>>, 0)
        c   == Reshape(Cont(v), e, npx * w, npy * w, 1)
    IN  Asserted(IsContiguous(a) /\ a.ne = <<e, w, w, npx * npy>>,
                 Cont(Part(c, <<e, w0, h0, 1>>, 0)))

\* sam3_conv_transpose_2d_sk: a matrix product and a shuffle where taps do not
\* overlap.
ConvTransposeSk(w, x, stride) ==
    LET kw == w.ne[1]
        kh == w.ne[2]
        out == w.ne[3]
        w2 == Reshape(Permuted(w, 1, 2, 3, 0), w.ne[4], kw * kh * out, 1, 1)
        x2 == Reshape(FromPlanes(x), w.ne[4], x.ne[1] * x.ne[2], 1, 1)
        r1 == Reshape(MulMat(w2, x2), kw, kh * out, x.ne[1], x.ne[2])
        r2 == Reshape(Permuted(r1, 0, 2, 1, 3), kw * x.ne[1], kh, out, x.ne[2])
        r3 == Permuted(r2, 0, 1, 3, 2)
    IN  IF kw # stride \/ kh # stride \/ x.ne[3] # w.ne[4] \/ x.ne[4] # 1
        THEN ConvTranspose(w, x, stride)
        ELSE Reshape(r3, kw * x.ne[1], kh * x.ne[2], out, 1)

-----------------------------------------------------------------------------
(* The vision transformer and the neck of SAM 3. *)

\* sam3_apply_rope.
ApplyRope(x, freqs) ==
    LET half  == x.ne[1] \div 2
        pairs == Reshape(x, 2, half, x.ne[2], x.ne[3])
        fc    == Reshape(freqs, 2, half, x.ne[2], 1)
        One(t, offset) == Part(t, <<1, t.ne[2], t.ne[3], t.ne[4]>>, offset)
        re    == Add(Add(One(pairs, 0), One(fc, 0)), Add(One(pairs, 1), One(fc, 1)))
        im    == Add(Add(One(pairs, 0), One(fc, 1)), Add(One(pairs, 1), One(fc, 0)))
    IN  Reshape(Concat(re, im, 0), x.ne[1], x.ne[2], x.ne[3], 1)

\* Heads of [channels, tokens, images]: [head, tokens, heads, images].
Heads(x, head, heads) ==
    Permute(Reshape(x, head, heads, x.ne[2], x.ne[3]), 0, 2, 1, 3)

\* Attention among the w * h places of each window: qkv is [E, w * h, windows, 3].
VitAttention(qkv, freqs, w, h) ==
    LET nh == hp.vit_num_heads
        hd == E \div nh
        b  == qkv.ne[3]
        Third(i) == Reshape(Part(qkv, <<E, w * h, b, 1>>, i * qkv.nb[4]), E, w * h, b, 1)
        Roped(x) == Reshape(ApplyRope(Reshape(Cont(Heads(x, hd, nh)), hd, w * h, nh * b, 1), freqs),
                            hd, w * h, nh, b)
    IN  Reshape(AttnExt(Roped(Third(0)), Roped(Third(1)), Heads(Third(2), hd, nh), NoMask),
                E, w, h, b)

VitAttended(x, blk) ==
    LET qkv == Reshape(Through(blk.qkv, x), E, 3, x.ne[2] * x.ne[3], x.ne[4])
    IN  Through(blk.proj, VitAttention(Permuted(qkv, 0, 3, 1, 2), blk.freqs_cis, x.ne[2], x.ne[3]))

\* sam3_vit_block_forward: a global block takes the whole map for its window.
VitBlockForward(x, blk, global) ==
    LET n   == LayerNorm(x, blk.norm1)
        ws  == hp.vit_window_size
        out == IF global THEN VitAttended(n, blk)
               ELSE WinUnpart(VitAttended(WinPart(n, ws), blk), x.ne[2], x.ne[3], ws)
    IN  FeedForward(Add(x, out), blk.norm2, blk)

\* Mutant: the grid is that of the model's own image size.
VitPrefixNative(input) ==
    LET x   == FromPlanes(ConvPatches(Vit.patch_embed, input))
        pos == T4(E, NativeGrid, NativeGrid, 1)
    IN  LayerNorm(Add(x, Repeat(Vit.pos_embed, pos)), Vit.ln_pre)

\* sam3_build_vit_prefix_graph: the positions are repeated beyond the grid and
\* cut to it.
VitPrefix(input) ==
    LET x     == FromPlanes(ConvPatches(Vit.patch_embed, input))
        w     == x.ne[2]
        h     == x.ne[3]
        pg    == Vit.pos_embed.ne[2]
        tiled == Repeat(Vit.pos_embed, T4(E, Ceil(w, pg) * pg, Ceil(h, pg) * pg, 1))
    IN  LayerNorm(Add(x, Cont(Part(tiled, <<E, w, h, 1>>, 0))), Vit.ln_pre)

\* The rotations of a block: sam3_create_state makes new ones for the global
\* blocks when the grid is not the model's.
RopeOf(i, grid) ==
    IF IsGlobal(i) /\ grid # NativeGrid THEN T3(2, (E \div hp.vit_num_heads) \div 2, grid * grid)
    ELSE Vit.blocks[i].freqs_cis

\* sam3_build_neck_graph: four times, twice, once and half the grid.
NeckGraph(vit) ==
    LET x == ToPlanes(vit)
        Up(w, t) == AddBias(ConvTransposeSk(w.w, t, 2), w.b)
        Finish(s, t) == FromPlanes(AddBias(ConvSame(s.conv3x3.w,
                          AddBias(ConvPatches(s.conv1x1.w, t), s.conv1x1.b)), s.conv3x3.b))
    IN  <<Finish(Neck[1], Up(Neck[1].deconv2, Up(Neck[1].deconv1, x))),
          Finish(Neck[2], Up(Neck[2].deconv1, x)),
          Finish(Neck[3], x),
          Finish(Neck[4], Pool(x, 2, 2))>>

\* sam3_effective_feat_size.
Sam3FeatSize(size) == size \div hp.patch_size

-----------------------------------------------------------------------------
(* The text encoder. *)

\* Attention among the n tokens of a text: qkv is [TW, n, 3].
TextAttention(qkv, n) ==
    LET Third(i) == Heads(Reshape(Part(qkv, <<TW, n, 1, 1>>, i * qkv.nb[3]), TW, n, 1, 1),
                          TW \div hp.text_heads, hp.text_heads)
        mask == T2(hp.text_ctx_len, hp.text_ctx_len)
    IN  Reshape(AttnExt(Cont(Third(0)), Cont(Third(1)), Third(2), mask), TW, n, 1, 1)

\* sam3_text_block_forward, masked by sam3_build_causal_mask.
TextBlock(x, blk) ==
    LET n   == x.ne[2]
        qkv == Reshape(Through(blk.attn.in_proj, LayerNorm(x, blk.ln1)), TW, 3, n, 1)
        out == Through(blk.attn.out_proj, TextAttention(Permuted(qkv, 0, 2, 1, 3), n))
    IN  FeedForward(Add(x, out), blk.ln2, blk)

\* The ends of sam3_build_text_encoder_graph.
TextEmbedding(tokens) == Add(GetRows(TextEncoder.token_embed, tokens), TextEncoder.pos_embed)
TextFeatures(x) == Through(TextEncoder.resizer, LayerNorm(x, TextEncoder.ln_final))

-----------------------------------------------------------------------------
(* SAM 2: the Hiera transformer and its neck. *)

\* sam2_window_partition.
Partition(x, ws) ==
    LET c  == x.ne[1]
        wp == Ceil(x.ne[2], ws) * ws
        hp2 == Ceil(x.ne[3], ws) * ws
        r1 == Reshape(PadBy(x, 0, wp - x.ne[2], hp2 - x.ne[3], 0), c * ws, wp \div ws, hp2, x.ne[4])
        r2 == Reshape(Permuted(r1, 0, 2, 1, 3), c * ws, ws, hp2 \div ws, (wp \div ws) * x.ne[4])
    IN  Reshape(r2, c, ws, ws, (wp \div ws) * (hp2 \div ws) * x.ne[4])

\* sam2_window_unpartition from the padded extents wp and hpad.
Unpartition(x, ws, wp, hpad, w, h) ==
    LET c  == x.ne[1]
        r1 == Reshape(x, c * ws, ws, hpad \div ws, wp \div ws)
        r2 == Reshape(r1, c * ws, hpad, wp \div ws, 1)
        t  == Reshape(Permuted(r2, 0, 2, 1, 3), c, wp, hpad, 1)
    IN  Cont(Part(t, <<c, w, h, 1>>, 0))

\* sam2_maxpool_2d.
MaxPool(x) == FromPlanes(Pool(ToPlanes(x), 2, 2))

\* Pooled where the block halves the map.
Halved(x, blk) == IF blk.q_stride THEN MaxPool(x) ELSE x
HalvedExtent(n, blk) == IF blk.q_stride THEN n \div 2 ELSE n

\* The queries, keys and values that one projection makes.
HieraThird(qkv, i, blk) ==
    Cont(Part(qkv, <<blk.dim_out, qkv.ne[2], qkv.ne[3], 1>>, i * blk.dim_out))

\* Attention from the places of the windows q to all that the windows had.
HieraAttention(q, qkv, blk, proj) ==
    LET out == blk.dim_out
        n   == q.ne[2] * q.ne[3]
        Headed(x) == Heads(x, out \div blk.heads, blk.heads)
        att == AttnExt(Cont(Headed(Reshape(q, out, n, q.ne[4], 1))), Cont(Headed(HieraThird(qkv, 1, blk))),
                       Headed(HieraThird(qkv, 2, blk)), NoMask)
    IN  Reshape(Through(proj, Reshape(att, out, n, q.ne[4], 1)), out, q.ne[2], q.ne[3], q.ne[4])

HieraWindows(x, qkv, blk, proj) ==
    LET q == Reshape(HieraThird(qkv, 0, blk), blk.dim_out, x.ne[2], x.ne[3], x.ne[4])
    IN  HieraAttention(Halved(q, blk), qkv, blk, proj)

\* Blocks without windows take the whole map for one.
HieraAttended(x, blk, W) ==
    HieraWindows(x, Through(W.qkv, Reshape(x, blk.dim_in, x.ne[2] * x.ne[3], x.ne[4], 1)),
                 blk, W.proj)

HieraSpatial(x, w, h, blk, W) ==
    LET ws == HalvedExtent(blk.window, blk)
    IN  IF blk.window = 0 THEN HieraAttended(x, blk, W)
        ELSE Unpartition(HieraAttended(Partition(x, blk.window), blk, W), ws,
                         Ceil(w, ws) * ws, Ceil(h, ws) * ws, w, h)

\* The residual, projected from the norm where the channels change.
HieraShortcut(x, norm, blk, W) ==
    LET flat == Reshape(norm, blk.dim_in, x.ne[2] * x.ne[3], 1, 1)
    IN  IF blk.dim_in = blk.dim_out THEN Halved(x, blk)
        ELSE Halved(Reshape(Through(W.dim_proj, flat), blk.dim_out, x.ne[2], x.ne[3], 1), blk)

HieraMlp(x, W) ==
    LET flat == Reshape(LayerNorm(x, W.norm2), x.ne[1], x.ne[2] * x.ne[3], 1, 1)
    IN  Add(x, Reshape(Through2(flat, W.fc1, W.fc2), x.ne[1], x.ne[2], x.ne[3], 1))

HieraResidual(x, norm, blk, W) ==
    Add(HieraShortcut(x, norm, blk, W),
        HieraSpatial(norm, HalvedExtent(x.ne[2], blk), HalvedExtent(x.ne[3], blk), blk, W))

\* sam2_hiera_block_forward.
HieraBlockForward(x, blk, W) == HieraMlp(HieraResidual(x, LayerNorm(x, W.norm1), blk, W), W)

\* The start of sam2_build_hiera_graph, and the positions it adds.
HieraPatches(image) ==
    FromPlanes(Add(Conv(HieraPatchEmbed.w, image, 4, 3),
                   Reshape(HieraPatchEmbed.b, 1, 1, hp.hiera_embed_dim, 1)))
HieraPositions(patches) == T4(hp.hiera_embed_dim, patches.ne[2], patches.ne[2], 1)

\* What sam2_encode_image_hiera uploads as positions.
HieraPe(size) == T4(hp.hiera_embed_dim, size \div 4, size \div 4, 1)

\* sam2_build_fpn_neck_graph: the last of the four levels is left out (scalp).
FpnNeck(stages) ==
    LET Lateral(i) == FromPlanes(AddBias(ConvPatches(HieraFpn[3 - i].w, ToPlanes(stages[i])),
                                         HieraFpn[3 - i].b))
        Double(t)  == FromPlanes(Upscale(ToPlanes(t), 2))
    IN  [i \in 0 .. (3 - hp.scalp) |->
            IF i \in hp.fpn_top_down_levels THEN Add(Lateral(i), Double(Lateral(i + 1)))
            ELSE Lateral(i)]

\* sam3_effective_feat_size: three halvings, and one doubling for the level
\* left out.
Sam2FeatSize(size) == ((((size \div 4) \div 2) \div 2) \div 2) * 2

-----------------------------------------------------------------------------
(* EdgeTAM: RepViT and its neck. *)

\* edgetam_conv1x1_mulmat.
Conv1x1(x, c) ==
    LET w  == x.ne[1]
        h  == x.ne[2]
        co == c.w.ne[4]
        y  == MulMat(Reshape(c.w, x.ne[3], co, 1, 1), Reshape(FromPlanes(x), x.ne[3], w * h, 1, 1))
    IN  AddBias(ToPlanes(Reshape(y, co, w, h, 1)), c.b)

\* edgetam_repvit_block_forward.
RepVitForward(x, blk) ==
    LET tm   == AddBias(ConvDw(blk.tm.w, x, 1, 1), blk.tm.b)
        se   == AddBias(Conv(blk.se_fc2.w, AddBias(Conv(blk.se_fc1.w, Pool(tm, tm.ne[1], tm.ne[2]),
                                                        1, 0), blk.se_fc1.b), 1, 0), blk.se_fc2.b)
        y    == IF blk.se THEN Add(tm, se) ELSE tm
    IN  IF Exists(tm) THEN Add(Conv1x1(Conv1x1(y, blk.cm1), blk.cm2), y) ELSE NoTensor

\* edgetam_repvit_downsample_forward.
DownsampleForward(x, ds) ==
    LET y == Conv1x1(AddBias(ConvDw(ds.spatial.w, RepVitForward(x, ds.pre), 2, 1), ds.spatial.b),
                     ds.channel)
    IN  Add(Conv1x1(Conv1x1(y, ds.ffn1), ds.ffn2), y)

\* The start of edgetam_build_repvit_graph.
RepVitStart(image) ==
    LET half == AddBias(Conv(RepVitStem[1].w, image, 2, 1), RepVitStem[1].b)
    IN  AddBias(Conv(RepVitStem[2].w, half, 2, 1), RepVitStem[2].b)

\* edgetam_build_fpn_neck_graph.
EdgeTamNeck(stages) ==
    LET Lateral(i) == Conv1x1(stages[i], RepVitFpn[3 - i])
    IN  [i \in 0 .. (3 - hp.scalp) |->
            FromPlanes(IF i \in hp.fpn_top_down_levels
                       THEN Add(Lateral(i), Upscale(Lateral(i + 1), 2)) ELSE Lateral(i))]

EdgeTamFeatSize(size) == size \div 16
=============================================================================
