----------------------------- MODULE Sam3Memory ------------------------------
(***************************************************************************)
(* The memory of the trackers in depend/sam3/sam3.cpp: how a mask and the  *)
(* features of a frame become a memory, how EdgeTAM's perceiver compresses *)
(* it, and how a later frame attends to the memories and object pointers.  *)
(***************************************************************************)
EXTENDS Sam3Heads

\* One of the four halvings of sam3_encode_memory's mask.
MaskHalved(x, s, enc) ==
    LET y == Conv(enc.ds[s].w, x, 2, 1)
    IN  ToPlanes(LayerNorm(FromPlanes(AddBias(y, enc.ds[s].b)), enc.ds_norm[s]))

\* sam3_cxblock_forward.
CxBlockForward(x, blk) ==
    LET dw   == AddBias(ConvDw(blk.dw.w, ToPlanes(x), 1, 3), blk.dw.b)
        nrm  == LayerNorm(FromPlanes(dw), blk.norm)
        flat == Through2(Reshape(nrm, D, x.ne[2] * x.ne[3], 1, 1), blk.fc1, blk.fc2)
    IN  Add(x, Add(Reshape(flat, D, x.ne[2], x.ne[3], 1), Reshape(blk.gamma, D, 1, 1, 1)))

\* The rest of sam3_encode_memory's graph, from the halved mask and the features.
MemoryOf(mask, pix, enc) ==
    LET ds == FromPlanes(AddBias(ConvPatches(enc.ds[5].w, mask), enc.ds[5].b))
        px == FromPlanes(AddBias(ConvPatches(enc.pix_proj.w, ToPlanes(pix)), enc.pix_proj.b))
        fused == CxBlockForward(CxBlockForward(Add(px, ds), enc.fuser), enc.fuser)
    IN  FromPlanes(AddBias(ConvPatches(enc.out_proj.w, ToPlanes(fused)), enc.out_proj.b))

-----------------------------------------------------------------------------
(* The perceiver. *)

NumLatents == hp.perceiver_n_latents
WindowsPerSide == 16

\* The test at the head of edgetam_perceiver_forward, and the windows that its
\* buffer is then made for.
WindowSize(side) == side \div WindowsPerSide
PerceiverTakes(side) == WindowSize(side) >= 1 /\ side % WindowSize(side) = 0
PerceiverWindows(side) == (side \div WindowSize(side)) * (side \div WindowSize(side))

\* Attention of q to the keys and values that one projection makes; pos is
\* NoMask where there is none.
PerceiverAttention(attn, q, kv, pos) ==
    LET d == q.ne[1]
        half(i) == Part(kv, <<d, kv.ne[2], kv.ne[3], 1>>, i * d)
        With(x) == IF pos = NoMask THEN Cont(x) ELSE Add(x, pos)
        One(x)  == Reshape(x, d, x.ne[2], 1, x.ne[3])
        att == AttnExt(One(MulMat(attn.q, q)), One(With(half(0))), One(With(half(1))), NoMask)
    IN  MulMat(attn.out, Reshape(att, d, q.ne[2], q.ne[3], 1))

PerceiverFeedForward(x, ff) == Add(x, MulMat(ff.fc2, MulMat(ff.fc1, LayerNorm(x, ff.norm))))

PerceiverCross(latents, x, pos, ly) ==
    Add(latents, PerceiverAttention(ly.ca, LayerNorm(latents, ly.ca_norm_latents),
                                    MulMat(ly.ca.kv, LayerNorm(x, ly.ca_norm_x)), pos))

PerceiverSelf(latents, norm, ly) ==
    Add(latents, PerceiverAttention(ly.sa, norm, MulMat(ly.sa.kv, norm), NoMask))

LatentsAttended(latents, ly) == PerceiverSelf(latents, LayerNorm(latents, ly.sa_norm), ly)

\* edgetam_perceiver_layer_forward.
PerceiverForward(latents, x, pos, ly) ==
    LET ca == PerceiverFeedForward(PerceiverCross(latents, x, pos, ly), ly.ff)
    IN  PerceiverFeedForward(LatentsAttended(ca, ly), ly.sa_ff)

-----------------------------------------------------------------------------
(* Memory attention. *)

\* How many tokens a memory holds, and where each pointer becomes several.
SlotTokens(side, perceiver) == IF perceiver THEN 2 * NumLatents ELSE side * side
PointerTokens == D \div MD

\* Attention with one head.
OneHead(q, k, v, out) ==
    LET One(x) == Permute(Reshape(x, D, 1, x.ne[2], 1), 0, 2, 1, 3)
    IN  Through(out, Reshape(AttnExt(Cont(One(q)), Cont(One(k)), One(v), NoMask), D, q.ne[2], 1, 1))

\* Among the places of the image.
PlacesAttended(x, norm, rope, sa) ==
    Add(x, OneHead(ApplyRope(Through(sa.q, norm), rope), ApplyRope(Through(sa.k, norm), rope),
                   Through(sa.v, norm), sa.out))

\* The keys of the prompt, but for its last "pointers" tokens rotated.
RotatedKeys(k, spatial, pointers, rope) ==
    LET ks == ApplyRope(Cont(Part(k, <<D, spatial, 1, 1>>, 0)), rope)
        kp == Cont(Part(k, <<D, pointers, 1, 1>>, spatial * k.nb[2]))
    IN  IF spatial = 0 THEN k ELSE IF pointers = 0 THEN ks ELSE Concat(ks, kp, 1)

MemoriesAttended(x, norm, prompt, prompt_pos, rope_q, rope_k, pointers, ca) ==
    LET k == Through(ca.k, Add(prompt, prompt_pos))
    IN  Add(x, OneHead(ApplyRope(Through(ca.q, LayerNorm(x, norm)), rope_q),
                       RotatedKeys(k, prompt.ne[2] - pointers, pointers, rope_k),
                       Through(ca.v, prompt), ca.out))

\* A layer of sam3_build_mem_attn_graph.
MemoryAttentionForward(x, prompt, prompt_pos, rope_q, rope_k, pointers, ly) ==
    LET sa == PlacesAttended(x, LayerNorm(x, ly.norm1), rope_q, ly.sa)
        ca == MemoriesAttended(sa, ly.norm2, prompt, prompt_pos, rope_q, rope_k, pointers, ly.ca)
    IN  FeedForward(ca, ly.norm3, ly)
=============================================================================
