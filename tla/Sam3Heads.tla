------------------------------ MODULE Sam3Heads ------------------------------
(***************************************************************************)
(* What depend/sam3/sam3.cpp builds on the features of an image: the       *)
(* geometry encoder, the fusion encoder, the decoder of boxes and the      *)
(* segmentation head for prompts in words and exemplars, and the mask      *)
(* decoder for points and boxes.  Graphs of tensors, as in Sam3Graphs.     *)
(***************************************************************************)
EXTENDS Sam3Graphs

\* Several layers of a perceptron.
Mlp(x, layers) ==
    LET after[i \in 0 .. Len(layers)] == IF i = 0 THEN x ELSE Through(layers[i], after[i - 1])
    IN  after[Len(layers)]

\* One of the three projections that an in_proj holds.
Projection(attn, i, x) ==
    LET w == attn.in_proj.w
        d == w.ne[1]
    IN  Add(MulMat(Part(w, <<d, d, 1, 1>>, i * d * w.nb[2]), x),
            Part(attn.in_proj.b, <<d, 1, 1, 1>>, i * d))

\* sam3_multihead_attn_fused, and the copies of it in the layers below; one of
\* them computes the scores itself on any device.
Mha(fused, attn, q, k, v, heads, mask) ==
    LET d  == q.ne[1]
        hd == d \div heads
        hq == Cont(Heads(Projection(attn, 0, q), hd, heads))
        hk == Cont(Heads(Projection(attn, 1, k), hd, heads))
        hv == Heads(Projection(attn, 2, v), hd, heads)
        out == IF fused THEN AttnExt(hq, hk, hv, mask) ELSE ScoresAttn(hq, hk, hv, mask)
    IN  Through(attn.out_proj, Reshape(out, d, q.ne[2], q.ne[3], 1))

\* sam3_expand_token_attn_bias.
ExpandBias(bias, queries, heads, batch) ==
    Cont(Repeat(Reshape(bias, bias.ne[1], 1, 1, batch), T4(bias.ne[1], queries, heads, batch)))

-----------------------------------------------------------------------------
(* Exemplars and fusion. *)

\* Attention to something else, as the layers of both have it.
CrossAttended(x, k, v, ly, heads, mask) ==
    Add(x, Mha(TRUE, ly.ca, LayerNorm(x, ly.norm2), k, v, heads, mask))

\* A layer of sam3_build_geom_enc_graph.
GeometryForward(x, img, pe, ly) ==
    LET n  == LayerNorm(x, ly.norm1)
        sa == Add(x, Mha(TRUE, ly.sa, n, n, n, 8, NoMask))
    IN  FeedForward(CrossAttended(sa, Add(img, pe), img, ly, 8, NoMask), ly.norm3, ly)

\* sam3_fenc_layer_forward.
FusionForward(x, prompt, pos, bias, ly) ==
    LET nh == hp.fenc_heads
        n  == LayerNorm(x, ly.norm1)
        sa == Add(x, Mha(TRUE, ly.sa, Add(n, pos), Add(n, pos), n, nh, NoMask))
        ca == CrossAttended(sa, prompt, prompt, ly, nh, ExpandBias(bias, x.ne[2], nh, x.ne[3]))
    IN  FeedForward(ca, ly.norm3, ly)

-----------------------------------------------------------------------------
(* The decoder of boxes. *)

\* sam3_build_sine_pos_embed_4d.
SinePosEmbed(boxes, dim_t) ==
    LET nq == boxes.ne[2]
        Angles(c) == Reshape(MulMat(dim_t, Part(boxes, <<1, nq, 1, 1>>, c)), 1, 64, nq, 1)
        Coord(c)  == Reshape(Concat(Angles(c), Angles(c), 0), 128, nq, 1, 1)
    IN  Concat(Concat(Concat(Coord(1), Coord(0), 0), Coord(2), 0), Coord(3), 0)

\* sam3_build_query_pos: with the presence token before the queries.
QueryPos(boxes, dim_t) ==
    LET head == Decoder.ref_point_head
    IN  Concat(T3(D, 1, 1),
               Reshape(Through2(SinePosEmbed(boxes, dim_t), head[1], head[2]), D, boxes.ne[2], 1, 1), 1)

\* sam3_compute_box_rpb: how far each place of the grid is from the edges of
\* each box, as a mask with a row more for the presence token.
BoxRpb(boxes, coords, feat) ==
    LET nq == boxes.ne[2]
        nh == hp.ddec_heads
        grid == T2(feat, nq)
        full == T4(nh, feat, feat, nq)
        edge == Add(Cont(Part(boxes, <<1, nq, 1, 1>>, 0)), Cont(Part(boxes, <<1, nq, 1, 1>>, 2)))
        delta == Add(Repeat(Reshape(coords, feat, 1, 1, 1), grid),
                     Repeat(Reshape(Permuted(edge, 1, 0, 2, 3), 1, nq, 1, 1), grid))
        flat == Reshape(delta, 1, feat, nq, 1)
        pair == Reshape(Concat(flat, flat, 0), 2, feat * nq, 1, 1)
        Axis(a) == Reshape(Mlp(pair, Decoder.boxRPB[a]), nh, feat, nq, 1)
        rpb == Add(Repeat(Reshape(Axis("y"), nh, 1, feat, nq), full),
                   Repeat(Reshape(Axis("x"), nh, feat, 1, nq), full))
    IN  Concat(T4(feat * feat, 1, nh, 1),
               Permuted(Reshape(rpb, nh, feat * feat, nq, 1), 2, 0, 1, 3), 1)

\* Queries x with their positions attend to k and v.
Queried(fused, attn, x, pos, k, v, mask, norm) ==
    LayerNorm(Add(x, Mha(fused, attn, Add(x, pos), k, v, hp.ddec_heads, mask)), norm)

\* The second half of a block that normalises its result.
NormedFeedForward(x, blk, norm) == LayerNorm(Add(x, Through2(x, blk.fc1, blk.fc2)), norm)

\* sam3_ddec_layer_forward.  The mask of places is of full precision, which
\* flash attention does not take.
DecoderForward(x, pos, enc, enc_pos, text, bias, rpb, ly) ==
    LET sa == Queried(TRUE, ly.sa, x, pos, Add(x, pos), x, NoMask, ly.norm2)
        ct == Queried(TRUE, ly.ca_text, sa, pos, text, text,
                      ExpandBias(bias, x.ne[2], hp.ddec_heads, x.ne[3]), ly.norm3)
        ci == Queried(FALSE, ly.ca, ct, pos, Add(enc, enc_pos), enc, rpb, ly.norm1)
    IN  NormedFeedForward(ci, ly, ly.norm4)

\* The queries without the presence token, which comes first.
ObjectQueries(queries)  == Cont(Part(queries, <<D, hp.ddec_num_queries, 1, 1>>, queries.nb[2]))
PresenceToken(queries)  == Cont(Part(queries, <<D, 1, 1, 1>>, 0))

\* How a layer of sam3_build_ddec_graph moves the boxes.
RefinedBoxes(queries, boxes, dec) ==
    Add(boxes, Mlp(LayerNorm(ObjectQueries(queries), dec.norm), dec.bbox_embed))

\* sam3_dot_product_scoring.
DotProductScoring(queries, text, valid, sc) ==
    LET mlp  == LayerNorm(Add(Mlp(text, sc.prompt_mlp), text), sc.out_norm)
        rows == SumRows(Add(Permuted(mlp, 1, 0, 2, 3), valid))
        pooled == Through(sc.prompt_proj, Permuted(rows, 1, 0, 2, 3))
    IN  Reshape(MulMat(pooled, Through(sc.hs_proj, queries)), queries.ne[2], text.ne[3], 1, 1)

\* What sam3_build_ddec_graph starts from and what it returns.
DecoderQueries ==
    Concat(Reshape(Decoder.presence_token, D, 1, 1, 1),
           Reshape(Decoder.query_embed, D, hp.ddec_num_queries, 1, 1), 1)

Results(objects, token, boxes, text, valid, dec) ==
    [queries |-> Concat(token, objects, 1), pred_boxes |-> boxes,
     class_scores |-> DotProductScoring(objects, text, valid, Scoring),
     presence_score |-> Reshape(Mlp(LayerNorm(token, dec.presence_token_out_norm),
                                    dec.presence_token_head), 1, 1, 1, 1)]

DecoderResult(queries, boxes, text, valid, dec) ==
    Results(LayerNorm(ObjectQueries(queries), dec.norm), PresenceToken(queries), boxes, text, valid, dec)

-----------------------------------------------------------------------------
(* The segmentation head. *)

\* sam3_grid_from_spatial: the side of a square grid, or 0.
GridFromSpatial(n) ==
    LET sides == {g \in 1 .. n : g * g = n} IN
    IF sides = {} THEN 0 ELSE CHOOSE g \in sides : TRUE

\* A level of sam3_pixel_decoder.
MergeLevel(prev, fpn, head) ==
    LET sum  == Add(ToPlanes(fpn), Upscale(prev, 2))
        conv == AddBias(ConvSame(head.up_conv.w, sum), head.up_conv.b)
    IN  AddBias(AddBias(conv, head.up_norm.w), head.up_norm.b)

PixelDecoder(fpn0, fpn1, fpn2, head) ==
    FromPlanes(MergeLevel(MergeLevel(ToPlanes(fpn2), fpn1, head), fpn0, head))

\* What the queries make of the pixels.
MasksOf(pix, queries, head) ==
    LET emb == FromPlanes(AddBias(ConvPatches(head.instance_seg_head.w, ToPlanes(pix)),
                                  head.instance_seg_head.b))
    IN  MulMat(Reshape(emb, D, pix.ne[2] * pix.ne[3], pix.ne[4], 1), Mlp(queries, head.mask_embed))

\* sam3_build_seg_head_graph.
SegHeadMasks(enc, fpn0, fpn1, queries, text, bias, head) ==
    LET ca == Mha(TRUE, head.ca_prompt, LayerNorm(enc, head.cross_attn_norm), text, text,
                  8, ExpandBias(bias, enc.ne[2], 8, enc.ne[3]))
        side == GridFromSpatial(enc.ne[2])
        pix  == PixelDecoder(fpn0, fpn1, Reshape(Add(enc, ca), D, side, side, enc.ne[3]), head)
    IN  MasksOf(pix, queries, head)

-----------------------------------------------------------------------------
(* The mask decoder. *)

\* sam3_sam_attention.
SamAttention(q, k, v, attn) ==
    LET d  == attn.q.w.ne[2]
        hd == d \div 8
        out == AttnExt(Cont(Heads(Through(attn.q, q), hd, 8)), Cont(Heads(Through(attn.k, k), hd, 8)),
                       Cont(Heads(Through(attn.v, v), hd, 8)), NoMask)
    IN  Through(attn.out, Reshape(out, d, q.ne[2], q.ne[3], 1))

\* The attention between the tokens, the first block's without their positions
\* and without the residual.
SelfAttended(q, query_pe, blk, first) ==
    LET qs == Add(q, query_pe)
    IN  LayerNorm(IF first THEN SamAttention(q, q, q, blk.self_attn)
                  ELSE Add(q, SamAttention(qs, qs, q, blk.self_attn)), blk.norm1)

\* The queries or keys x attend to the keys or queries y.
Crossed(x, x_pe, y, y_pe, attn, norm) ==
    LayerNorm(Add(x, SamAttention(Add(x, x_pe), Add(y, y_pe), y, attn)), norm)

Both(queries, query_pe, keys, key_pe, blk) ==
    [queries |-> queries,
     keys |-> Crossed(keys, key_pe, queries, query_pe, blk.ca_img2tok, blk.norm4)]

\* sam3_twoway_block_forward.
TwoWayForward(t, query_pe, key_pe, blk, first) ==
    LET sa == SelfAttended(t.queries, query_pe, blk, first)
        ca == Crossed(sa, query_pe, t.keys, key_pe, blk.ca_tok2img, blk.norm2)
    IN  Both(NormedFeedForward(ca, blk, blk.norm3), query_pe, t.keys, key_pe, blk)

\* The tokens of sam3_build_sam_dec_graph: the score of the object, if the model
\* has it, the IoU, four masks, and the prompt.
DecTokens(sparse, scored, dec) ==
    LET special == IF scored THEN Concat(dec.obj_score_token, dec.iou_token, 1)
                   ELSE Reshape(dec.iou_token, D, 1, 1, 1)
        output == Reshape(Concat(special, dec.mask_tokens, 1), D, IF scored THEN 6 ELSE 5, 1, 1)
    IN  Concat(output, sparse, 1)

DecStart(image_feats, dense, sparse, scored) ==
    LET side == image_feats.ne[2]
    IN  [queries |-> DecTokens(sparse, scored, MaskDecoder),
         keys |-> Reshape(Add(image_feats, dense), D, side * side, 1, 1)]

\* Twice the extents, with what the encoder has of that size.
UpscaledWith(src, s, up, conv) ==
    Add(AddBias(ConvTransposeSk(up.w, src, 2), up.b), AddBias(ConvPatches(conv.w, ToPlanes(s)), conv.b))

\* The features at four times the grid.
DecUpscaled(keys, s0, s1, side, dec) ==
    LET src == ToPlanes(Reshape(keys, D, side, side, 1))
        up1 == UpscaledWith(src, s1, dec.up1, dec.conv_s1)
        nrm == ToPlanes(LayerNorm(FromPlanes(up1), dec.up1_norm))
    IN  FromPlanes(UpscaledWith(nrm, s0, dec.up2, dec.conv_s0))

\* Of the queries q, the mask tokens come after the IoU's, which is the second
\* if the score of the object has a token.
DecOutputs(q, up, scored, dec) ==
    LET first == IF scored THEN 1 ELSE 0
        Tokens(n, at) == Cont(Part(q, <<D, n, 1, 1>>, at * q.nb[2]))
        Mask(m) == MulMat(up, Mlp(Cont(Part(Tokens(4, first + 1), <<D, 1, 1, 1>>, m * D)), dec.hyper))
    IN  [masks |-> Concat(Concat(Concat(Mask(0), Mask(1), 1), Mask(2), 1), Mask(3), 1),
         iou_pred |-> Reshape(Mlp(Tokens(1, first), dec.iou_head), 4, 1, 1, 1),
         obj_score |-> IF scored THEN Reshape(Mlp(Tokens(1, 0), dec.obj_head), 1, 1, 1, 1)
                       ELSE T2(1, 1),
         sam_token |-> Tokens(1, first + 1)]

\* The end of sam3_build_sam_dec_graph.
DecResult(t, query_pe, key_pe, s0, s1, scored, dec) ==
    LET side == GridFromSpatial(t.keys.ne[2])
        up   == Reshape(DecUpscaled(t.keys, s0, s1, side, dec), 32, (4 * side) * (4 * side), 1, 1)
    IN  DecOutputs(Crossed(t.queries, query_pe, t.keys, key_pe, dec.final_attn, dec.final_norm),
                   up, scored, dec)
=============================================================================
