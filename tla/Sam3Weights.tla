----------------------------- MODULE Sam3Weights -----------------------------
(***************************************************************************)
(* The weights each model of depend/sam3/sam3.cpp registers before it      *)
(* reads its file, with their shapes.  Names become the fields of records, *)
(* nested as the structs of the code are.                                  *)
(***************************************************************************)
EXTENDS Ggml

\* struct sam3_hparams with its initial values: the SAM 3 model, the large
\* SAM 2 model and the EdgeTAM backbone.  The perceiver, off by default, has
\* the sizes that its code names.
hp == [img_size |-> 1008, patch_size |-> 14, vit_embed_dim |-> 1024, vit_depth |-> 32,
       vit_num_heads |-> 16, vit_mlp_dim |-> 4736, vit_window_size |-> 24,
       global_attn_idx |-> {7, 15, 23, 31},
       text_width |-> 1024, text_heads |-> 16, text_layers |-> 24, text_ctx_len |-> 32,
       text_vocab_size |-> 49408, text_out_dim |-> 256,
       neck_dim |-> 256, fenc_layers |-> 6, fenc_heads |-> 8, fenc_ffn_dim |-> 2048,
       ddec_layers |-> 6, ddec_heads |-> 8, ddec_num_queries |-> 200, geom_layers |-> 3,
       sam_dec_depth |-> 2, mem_out_dim |-> 64, mem_attn_layers |-> 4, num_maskmem |-> 7,
       max_obj_ptrs |-> 16,
       hiera_embed_dim |-> 144, hiera_num_heads |-> 2, hiera_stages |-> <<2, 6, 36, 4>>,
       hiera_q_pool |-> 3, hiera_window_spec |-> <<8, 4, 16, 8>>,
       hiera_global_idx |-> {23, 33, 43}, hiera_pos_embed_bkg |-> 7,
       fpn_top_down_levels |-> {2, 3}, scalp |-> 1,
       repvit_stages |-> <<2, 2, 14, 2>>, repvit_channels |-> <<48, 96, 192, 384>>,
       repvit_se_ratio_x100 |-> 25,
       perceiver_depth |-> 2, perceiver_dim |-> 64, perceiver_n_latents |-> 256,
       perceiver_ff_mult |-> 4]

D   == hp.neck_dim
MD  == hp.mem_out_dim
FFN == 2048

-----------------------------------------------------------------------------
(* What most weights are. *)

Linear(in, out) == [w |-> T2(in, out), b |-> T1(out)]
Filter(k, in, out) == [w |-> T4(k, k, in, out), b |-> T1(out)]
Deconv(out, in) == [w |-> T4(2, 2, out, in), b |-> T1(out)]
Norm(d) == [w |-> T1(d), b |-> T1(d)]

\* One projection for queries, keys and values, and one for the result.
FusedAttn(d) == [in_proj |-> Linear(d, 3 * d), out_proj |-> Linear(d, d)]

-----------------------------------------------------------------------------
(* sam3_register_tensors. *)

E   == hp.vit_embed_dim
MLP == hp.vit_mlp_dim

IsGlobal(i) == i \in hp.global_attn_idx

NativeGrid == hp.img_size \div hp.patch_size

VitBlock(i) ==
    [norm1 |-> Norm(E), qkv |-> Linear(E, 3 * E), proj |-> Linear(E, E),
     norm2 |-> Norm(E), fc1 |-> Linear(E, MLP), fc2 |-> Linear(MLP, E),
     freqs_cis |-> T3(2, 32, IF IsGlobal(i) THEN NativeGrid * NativeGrid
                                            ELSE hp.vit_window_size * hp.vit_window_size)]

Vit ==
    LET grid == (hp.img_size \div hp.patch_size) \div 3
    IN  [patch_embed |-> T4(hp.patch_size, hp.patch_size, 3, E),
         pos_embed |-> T4(E, grid, grid, 1), ln_pre |-> Norm(E),
         blocks |-> [i \in 0 .. (hp.vit_depth - 1) |-> VitBlock(i)]]

Neck ==
    <<[deconv1 |-> Deconv(512, E), deconv2 |-> Deconv(D, 512),
       conv1x1 |-> Filter(1, D, D), conv3x3 |-> Filter(3, D, D)],
      [deconv1 |-> Deconv(512, E), conv1x1 |-> Filter(1, 512, D), conv3x3 |-> Filter(3, D, D)],
      [conv1x1 |-> Filter(1, E, D), conv3x3 |-> Filter(3, D, D)],
      [conv1x1 |-> Filter(1, E, D), conv3x3 |-> Filter(3, D, D)]>>

TW == hp.text_width
TextEncoder ==
    [token_embed |-> T2(TW, hp.text_vocab_size), pos_embed |-> T2(TW, hp.text_ctx_len),
     ln_final |-> Norm(TW), resizer |-> Linear(TW, hp.text_out_dim),
     block |-> [attn |-> FusedAttn(TW), ln1 |-> Norm(TW), ln2 |-> Norm(TW),
                fc1 |-> Linear(TW, 4 * TW), fc2 |-> Linear(4 * TW, TW)]]

\* A layer of the fusion encoder, and of the geometry encoder.
FusionLayer ==
    [sa |-> FusedAttn(D), norm1 |-> Norm(D), ca |-> FusedAttn(D), norm2 |-> Norm(D),
     fc1 |-> Linear(D, hp.fenc_ffn_dim), fc2 |-> Linear(hp.fenc_ffn_dim, D), norm3 |-> Norm(D)]

DecoderLayer ==
    [sa |-> FusedAttn(D), norm1 |-> Norm(D), ca |-> FusedAttn(D), norm2 |-> Norm(D),
     ca_text |-> FusedAttn(D), norm3 |-> Norm(D),
     fc1 |-> Linear(D, FFN), fc2 |-> Linear(FFN, D), norm4 |-> Norm(D)]

Decoder ==
    [query_embed |-> T2(D, hp.ddec_num_queries), presence_token |-> T2(D, 1),
     reference_points |-> T2(4, hp.ddec_num_queries), norm |-> Norm(D),
     bbox_embed |-> <<Linear(D, D), Linear(D, D), Linear(D, 4)>>,
     ref_point_head |-> <<Linear(512, D), Linear(D, D)>>,
     boxRPB |-> [axis \in {"x", "y"} |-> <<Linear(2, D), Linear(D, hp.ddec_heads)>>],
     presence_token_head |-> <<Linear(D, D), Linear(D, D), Linear(D, 1)>>,
     presence_token_out_norm |-> Norm(D), layer |-> DecoderLayer]

Scoring ==
    [prompt_proj |-> Linear(D, D), hs_proj |-> Linear(D, D),
     prompt_mlp |-> <<Linear(D, FFN), Linear(FFN, D)>>, out_norm |-> Norm(D)]

Geometry ==
    [point_proj |-> Linear(2, D), box_proj |-> Linear(4, D),
     point_pool_proj |-> Linear(D, D), box_pool_proj |-> Filter(7, D, D),
     point_pos_proj |-> Linear(D, D), box_pos_proj |-> Linear(258, D),
     type_embed |-> T2(D, 2), cls_token |-> T2(D, 1), post_proj |-> Linear(D, D),
     norm |-> Norm(D), encode_norm |-> Norm(D), img_pre_norm |-> Norm(D),
     layer |-> FusionLayer]

SegHead ==
    [up_conv |-> Filter(3, D, D), up_norm |-> Norm(D),
     mask_embed |-> <<Linear(D, D), Linear(D, D), Linear(D, D)>>,
     ca_prompt |-> FusedAttn(D), cross_attn_norm |-> Norm(D),
     instance_seg_head |-> Filter(1, D, D), semantic_seg_head |-> Filter(1, D, 1)]

-----------------------------------------------------------------------------
(* What all models register: the mask decoder and the memory.              *)

\* Separate projections of the queries, keys and values.
SamAttn(in, out) ==
    [q |-> Linear(in, out), k |-> Linear(in, out), v |-> Linear(in, out), out |-> Linear(out, in)]

TwoWayBlock ==
    [self_attn |-> SamAttn(D, D), ca_tok2img |-> SamAttn(D, 128), ca_img2tok |-> SamAttn(D, 128),
     norm1 |-> Norm(D), norm2 |-> Norm(D), norm3 |-> Norm(D), norm4 |-> Norm(D),
     fc1 |-> Linear(D, FFN), fc2 |-> Linear(FFN, D)]

MaskDecoder ==
    [iou_token |-> T2(D, 1), mask_tokens |-> T2(D, 4), obj_score_token |-> T2(D, 1),
     twoway |-> TwoWayBlock, final_attn |-> SamAttn(D, 128), final_norm |-> Norm(D),
     up1 |-> Deconv(64, D), up1_norm |-> Norm(64), up2 |-> Deconv(32, 64),
     conv_s0 |-> Filter(1, D, 32), conv_s1 |-> Filter(1, D, 64),
     hyper |-> <<Linear(D, D), Linear(D, D), Linear(D, 32)>>,
     iou_head |-> <<Linear(D, D), Linear(D, D), Linear(D, 4)>>,
     obj_head |-> <<Linear(D, D), Linear(D, D), Linear(D, 1)>>]

MemoryEncoder ==
    LET channels == <<1, 4, 16, 64, 256>>
    IN  [ds |-> [s \in 1 .. 5 |-> IF s < 5 THEN Filter(3, channels[s], channels[s + 1])
                                           ELSE Filter(1, D, D)],
         ds_norm |-> [s \in 1 .. 4 |-> Norm(channels[s + 1])],
         pix_proj |-> Filter(1, D, D),
         fuser |-> [dw |-> Filter(7, 1, D), norm |-> Norm(D), fc1 |-> Linear(D, 1024),
                    fc2 |-> Linear(1024, D), gamma |-> T1(D)],
         out_proj |-> Filter(1, D, MD), tpos |-> T4(MD, 1, 1, hp.num_maskmem)]

MemoryAttention ==
    [sa |-> SamAttn(D, D), norm1 |-> Norm(D),
     ca |-> [q |-> Linear(D, D), k |-> Linear(MD, D), v |-> Linear(MD, D), out |-> Linear(D, D)],
     norm2 |-> Norm(D), fc1 |-> Linear(D, FFN), fc2 |-> Linear(FFN, D), norm3 |-> Norm(D)]

-----------------------------------------------------------------------------
(* sam2_register_tensors, after sam2_precompute_hiera_metadata. *)

\* The stage of the i-th block, and its last block.
StageEnd(s) ==
    LET n == hp.hiera_stages
    IN  (CASE s = 0 -> n[1] [] s = 1 -> n[1] + n[2] [] s = 2 -> n[1] + n[2] + n[3]
           [] s = 3 -> n[1] + n[2] + n[3] + n[4]) - 1
Stage(i) == CHOOSE s \in 0 .. 3 : i <= StageEnd(s) /\ (s = 0 \/ i > StageEnd(s - 1))
TotalBlocks == StageEnd(3) + 1

\* The channels and heads double from stage to stage.
Doublings == <<1, 2, 4, 8>>
StageDim(s) == hp.hiera_embed_dim * Doublings[s + 1]

\* The first block of a stage has the windows of the stage before, doubles the
\* channels and heads, and halves the map.
HieraBlock(i) ==
    LET s    == Stage(i)
        new  == s > 0 /\ i = StageEnd(s - 1) + 1
        from == IF new THEN s - 1 ELSE s
    IN  [window |-> IF i \in hp.hiera_global_idx THEN 0 ELSE hp.hiera_window_spec[from + 1],
         dim_in |-> StageDim(from), dim_out |-> StageDim(s),
         heads |-> hp.hiera_num_heads * Doublings[s + 1], q_stride |-> new /\ s <= hp.hiera_q_pool]

HieraWeights(in, out) ==
    [norm1 |-> Norm(in), qkv |-> Linear(in, 3 * out), proj |-> Linear(out, out),
     norm2 |-> Norm(out), fc1 |-> Linear(out, 4 * out), fc2 |-> Linear(4 * out, out),
     dim_proj |-> Linear(in, out)]

HieraPatchEmbed == Filter(7, 3, hp.hiera_embed_dim)

\* The neck's i-th convolution takes the features of the i-th last stage.
HieraFpn == [i \in 0 .. 3 |-> Filter(1, StageDim(3 - i), D)]

-----------------------------------------------------------------------------
(* edgetam_register_tensors. *)

\* edgetam_make_divisible by 8, and not below 90% of v.
MakeDivisible(v) ==
    LET rounded == ((v + 4) \div 8) * 8
        up      == IF rounded < 8 THEN 8 ELSE rounded
    IN  IF up < (9 * v) \div 10 THEN up + 8 ELSE up

\* Squeeze and excitation in the blocks of even index.
RepVitBlock(ch, se) ==
    LET rd == MakeDivisible((ch * hp.repvit_se_ratio_x100) \div 100)
    IN  [tm |-> Filter(3, 1, ch), se |-> se, se_fc1 |-> Filter(1, ch, rd),
         se_fc2 |-> Filter(1, rd, ch), cm1 |-> Filter(1, ch, 2 * ch), cm2 |-> Filter(1, 2 * ch, ch)]

RepVitDownsample(prev, ch) ==
    [pre |-> RepVitBlock(prev, FALSE), spatial |-> Filter(3, 1, prev),
     channel |-> Filter(1, prev, ch), ffn1 |-> Filter(1, ch, 2 * ch), ffn2 |-> Filter(1, 2 * ch, ch)]

RepVitStem == <<Filter(3, 3, 24), Filter(3, 24, 48)>>

RepVitFpn == [i \in 0 .. 3 |-> Filter(1, hp.repvit_channels[4 - i], D)]

Perceiver ==
    LET pd == hp.perceiver_dim
        ff == pd * hp.perceiver_ff_mult
    IN  [latents_1d |-> T2(pd, hp.perceiver_n_latents), latents_2d |-> T2(pd, hp.perceiver_n_latents),
         norm |-> Norm(pd), ca_norm_latents |-> Norm(pd), ca_norm_x |-> Norm(pd),
         ca |-> [q |-> T2(pd, pd), kv |-> T2(pd, 2 * pd), out |-> T2(pd, pd)],
         ff |-> [norm |-> Norm(pd), fc1 |-> T2(pd, ff), fc2 |-> T2(ff, pd)],
         sa_norm |-> Norm(pd),
         sa |-> [q |-> T2(pd, pd), kv |-> T2(pd, 2 * pd), out |-> T2(pd, pd)],
         sa_ff |-> [norm |-> Norm(pd), fc1 |-> T2(pd, ff), fc2 |-> T2(ff, pd)]]
=============================================================================
