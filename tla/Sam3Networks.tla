---------------------------- MODULE Sam3Networks ----------------------------
(***************************************************************************)
(* The graphs that depend/sam3/sam3.cpp builds, runs and reads, one after  *)
(* the other: the encoder of the image, the five graphs of a prompt in     *)
(* words, the mask decoder, the memory of a mask and the propagation to    *)
(* another frame.  A step adds a layer to the graph under construction;    *)
(* the last one sends the inputs, runs it and reads the results.           *)
(***************************************************************************)
EXTENDS Integers, Sequences, FiniteSets

CONSTANTS
    Sam3Sizes, Sam2Sizes, EdgeTamSizes,   \* image sizes each model is asked to encode
    Exemplars,                            \* numbers of exemplar boxes
    SparseTokens,                         \* numbers of prompt tokens
    Slots, Pointers                       \* numbers of memories and pointers in the banks

VARIABLES
    job,      \* the model, the image size, the kernel, and what is asked for
    graph,    \* the graph under construction or the last one run
    ran,      \* whether it has been run
    layer,    \* how many layers it has
    t,        \* its tensors
    inputs,   \* its input tensors, in the order of their creation
    sent,     \* by name, how many numbers were sent to an input
    read,     \* which tensors were read, into how large a buffer
    feats     \* the features of the image that the state keeps

vars == <<job, graph, ran, layer, t, inputs, sent, read, feats>>

INSTANCE Sam3Memory WITH FlashKernel <- job.flash

\* encode_img_size is taken as it is (sam3_create_state): these are the sizes whose graphs
\* fit together. SAM 3's neck halves the grid, so one place is too little; SAM 2 and EdgeTAM
\* halve the image five times, and the perceiver has as many windows as latents.
SizesFit ==
    /\ \A s \in Sam3Sizes : s \in Nat /\ Sam3FeatSize(s) >= 2
    /\ \A s \in Sam2Sizes : s \in Nat /\ s % 32 = 0 /\ Sam2FeatSize(s) >= 2
    /\ \A s \in EdgeTamSizes :
         LET g == EdgeTamFeatSize(s)
         IN  s \in Nat /\ s % 32 = 0 /\ g >= 2 /\ (PerceiverTakes(g) => PerceiverWindows(g) = NumLatents)
    /\ Exemplars \subseteq Nat /\ SparseTokens \subseteq Nat \ {0}
    /\ Slots \subseteq Nat \ {0} /\ Pointers \subseteq Nat

ASSUME SizesAssumption == SizesFit

-----------------------------------------------------------------------------
(* What the code computes from the state: sam3_eff_feat_size. *)

Grid ==
    CASE job.model = "sam3" -> Sam3FeatSize(job.size)
      [] job.model = "sam2" -> Sam2FeatSize(job.size)
      [] job.model = "edgetam" -> EdgeTamFeatSize(job.size)

Places == Grid * Grid
L == hp.text_ctx_len
NQ == hp.ddec_num_queries
PromptTokens == L + job.boxes + 1

In(name, tensor)    == [name |-> name, of |-> tensor]
Send(name, size)    == [name |-> name, size |-> size]
Read(tensor, size)  == [of |-> tensor, size |-> size]

\* How many times finer than the grid each level of the features is.
Scales == <<4, 2, 1>>

\* Mutant: the levels are taken to be in the order of growing size.
FeatureReversed(i) == T4(D, Grid * Scales[3 - i], Grid * Scales[3 - i], 1)

Feature(i) == T4(D, Grid * Scales[i + 1], Grid * Scales[i + 1], 1)

\* The features are read into buffers of the size that the grid tells.
ReadFeatures(levels) == {Read(feats[i + 1], Elements(Feature(i))) : i \in levels}

-----------------------------------------------------------------------------
(* Steps of every graph. *)

\* Mutant: what was sent to the last graph and read from it is taken for this one's.
StartKeepsTransfers(name, tensors, ins) ==
    /\ ran
    /\ graph' = name /\ ran' = FALSE /\ layer' = 0
    /\ t' = tensors /\ inputs' = ins
    /\ UNCHANGED <<sent, read, feats>>

Start(name, tensors, ins) ==
    /\ ran
    /\ graph' = name /\ ran' = FALSE /\ layer' = 0
    /\ t' = tensors /\ inputs' = ins
    /\ sent' = {} /\ read' = {}
    /\ UNCHANGED feats

Layer(name, count, tensors) ==
    /\ graph = name /\ ~ran /\ layer < count
    /\ layer' = layer + 1
    /\ t' = tensors
    /\ UNCHANGED <<job, graph, ran, sent, read, feats>>

Run(name, count, tensors, sends, reads) ==
    /\ graph = name /\ ~ran /\ layer = count
    /\ ran' = TRUE
    /\ t' = tensors
    /\ sent' = sends /\ read' = reads
    /\ UNCHANGED <<job, graph, layer, inputs>>

Image == T4(job.size, job.size, 3, 1)
SendImage == Send("input_image", job.size * job.size * 3)

-----------------------------------------------------------------------------
(* sam3_encode_image. *)

EncodeSam3 ==
    /\ job.model = "sam3" /\ graph = "none"
    /\ Start("vit", [x |-> VitPrefix(Image)], <<In("input_image", Image)>>)
    /\ UNCHANGED job

VitLayer ==
    /\ Layer("vit", hp.vit_depth,
             [x |-> VitBlockForward(t.x, [VitBlock(layer) EXCEPT !.freqs_cis = RopeOf(layer, Grid)],
                                    IsGlobal(layer))])
    /\ UNCHANGED inputs

RunVit ==
    /\ Run("vit", hp.vit_depth, t, {SendImage}, {})
    /\ feats' = NeckGraph(t.x)

-----------------------------------------------------------------------------
(* sam2_encode_image_hiera. *)

EncodeSam2 ==
    /\ job.model = "sam2" /\ graph = "none"
    /\ LET patches == HieraPatches(Image)
           pe      == HieraPositions(patches)
       IN  Start("hiera", [x |-> Add(patches, pe), stages |-> <<>>],
                 <<In("input_image", Image), In("hiera_pos_embed", pe)>>)
    /\ UNCHANGED job

HieraTo(x) ==
    LET ends == \E s \in 0 .. 3 : layer = StageEnd(s)
    IN  Layer("hiera", TotalBlocks,
              [x |-> x, stages |-> IF ends THEN Append(t.stages, x) ELSE t.stages])

HieraForward(blk) == HieraTo(HieraBlockForward(t.x, blk, HieraWeights(blk.dim_in, blk.dim_out)))

HieraLayer ==
    /\ graph = "hiera"
    /\ HieraForward(HieraBlock(layer))
    /\ UNCHANGED inputs

RunHiera ==
    /\ Run("hiera", TotalBlocks, t,
           {SendImage, Send("hiera_pos_embed", Elements(HieraPe(job.size)))}, {})
    /\ LET levels == FpnNeck([s \in 0 .. 3 |-> t.stages[s + 1]])
       IN  feats' = [i \in 1 .. (4 - hp.scalp) |-> levels[i - 1]]

-----------------------------------------------------------------------------
(* edgetam_encode_image: the blocks of each stage are counted anew. *)

EncodeEdgeTam ==
    /\ job.model = "edgetam" /\ graph = "none"
    /\ Start("repvit", [x |-> RepVitStart(Image), stages |-> <<>>], <<In("input_image", Image)>>)
    /\ UNCHANGED job

StageBlocks == hp.repvit_stages[Len(t.stages) + 1]
StageChannels == hp.repvit_channels[Len(t.stages) + 1]

RepVitLayer ==
    /\ graph = "repvit" /\ Len(t.stages) < 4
    /\ Layer("repvit", StageBlocks,
             [t EXCEPT !.x = RepVitForward(@, RepVitBlock(StageChannels, layer % 2 = 0))])
    /\ UNCHANGED inputs

\* The end of a stage, and the downsampling at the head of the next one.
RepVitStage ==
    /\ graph = "repvit" /\ ~ran /\ Len(t.stages) < 4
    /\ layer = StageBlocks
    /\ t' = [x |-> IF Len(t.stages) = 3 THEN t.x
                   ELSE DownsampleForward(t.x, RepVitDownsample(StageChannels,
                                                    hp.repvit_channels[Len(t.stages) + 2])),
             stages |-> Append(t.stages, t.x)]
    /\ layer' = 0
    /\ UNCHANGED <<job, graph, ran, inputs, sent, read, feats>>

RunRepVit ==
    /\ graph = "repvit" /\ Len(t.stages) = 4
    /\ Run("repvit", 0, t, {SendImage}, {})
    /\ LET levels == EdgeTamNeck([s \in 0 .. 3 |-> t.stages[s + 1]])
       IN  feats' = [i \in 1 .. (4 - hp.scalp) |-> levels[i - 1]]

Encoded == ran /\ graph # "none"

-----------------------------------------------------------------------------
(* sam3_segment_pcs: five graphs, each with fresh inputs. *)

BeginText(boxes) ==
    /\ Encoded /\ job.model = "sam3" /\ graph = "vit"
    /\ job' = [job EXCEPT !.boxes = boxes]
    /\ LET tokens == T1(L)
       IN  Start("text", [x |-> TextEmbedding(tokens)],
                 <<In("text_token_ids", tokens), In("causal_mask", T2(L, L))>>)

TextLayer ==
    /\ Layer("text", hp.text_layers, [x |-> TextBlock(t.x, TextEncoder.block)])
    /\ UNCHANGED inputs

TextRan(out) ==
    Run("text", hp.text_layers, [x |-> out],
        {Send("text_token_ids", L), Send("causal_mask", L * L)},
        {Read(out, D * L)} \cup ReadFeatures({2}))

RunText ==
    /\ graph = "text"
    /\ TextRan(TextFeatures(t.x))
    /\ UNCHANGED feats

BeginGeometry ==
    /\ Encoded /\ graph = "text"
    /\ LET x == T3(D, job.boxes + 1, 1)
           img == T3(D, Places, 1)
       IN  Start("geometry", [x |-> x, img |-> img],
                 <<In("geo_img", img), In("geo_pe", img), In("geom_post_final_proj", x)>>)
    /\ UNCHANGED job

GeometryLayer ==
    /\ graph = "geometry"
    /\ Layer("geometry", hp.geom_layers,
             [t EXCEPT !.x = GeometryForward(@, t.img, t.img, Geometry.layer)])
    /\ UNCHANGED inputs

\* sam3_precompute_geom_input makes a row for each box and one more.
GeometryInput == D * (job.boxes + 1)

RunGeometry ==
    /\ graph = "geometry"
    /\ LET out == LayerNorm(t.x, Geometry.encode_norm)
       IN  Run("geometry", hp.geom_layers, [x |-> out],
               {Send("geo_img", D * Places), Send("geo_pe", D * Places),
                Send("geom_post_final_proj", GeometryInput)},
               {Read(out, D * (job.boxes + 1))})
    /\ UNCHANGED feats

BeginFusion ==
    /\ Encoded /\ graph = "geometry"
    /\ LET img == T3(D, Places, 1)
           prompt == T3(D, PromptTokens, 1)
           bias == T3(PromptTokens, 1, 1)
       IN  Start("fusion", [x |-> img, prompt |-> prompt, pos |-> img, bias |-> bias],
                 <<In("fenc_img", img), In("fenc_pe", img), In("fenc_prompt", prompt),
                   In("fenc_bias", bias)>>)
    /\ UNCHANGED job

FusionLayers ==
    /\ graph = "fusion"
    /\ Layer("fusion", hp.fenc_layers,
             [t EXCEPT !.x = FusionForward(@, t.prompt, t.pos, t.bias, FusionLayer)])
    /\ UNCHANGED inputs

RunFusion ==
    /\ Run("fusion", hp.fenc_layers, t,
           {Send("fenc_img", D * Places), Send("fenc_pe", D * Places),
            Send("fenc_prompt", D * PromptTokens), Send("fenc_bias", PromptTokens)},
           {Read(t.x, D * Places)})
    /\ UNCHANGED feats

BeginDecoder ==
    /\ Encoded /\ graph = "fusion"
    /\ LET enc == T3(D, Places, 1)
           text == T3(D, PromptTokens, 1)
           bias == T3(PromptTokens, 1, 1)
           dim_t == T2(1, 64)
           coords == T1(Grid)
       IN  Start("decoder",
                 [x |-> DecoderQueries, boxes |-> Reshape(Decoder.reference_points, 4, NQ, 1, 1),
                  enc |-> enc, text |-> text, bias |-> bias, dim_t |-> dim_t, coords |-> coords],
                 <<In("ddec_enc", enc), In("ddec_pe", enc), In("ddec_text", text),
                   In("sine_dim_t", dim_t), In("rpb_coords", coords), In("text_attn_bias", bias),
                   In("text_valid_mask", bias)>>)
    /\ UNCHANGED job

DecoderTo(x) ==
    Layer("decoder", hp.ddec_layers, [t EXCEPT !.x = x, !.boxes = RefinedBoxes(x, t.boxes, Decoder)])

\* Each layer makes input tensors of its own for the presence token's position
\* and mask, under the same two names.
DecoderStep ==
    /\ graph = "decoder"
    /\ DecoderTo(DecoderForward(t.x, QueryPos(t.boxes, t.dim_t), t.enc, t.enc, t.text, t.bias,
                                BoxRpb(t.boxes, t.coords, GridFromSpatial(t.enc.ne[2])),
                                DecoderLayer))
    /\ inputs' = inputs \o <<In("ddec_query_pos_pres", T3(D, 1, 1)),
                             In("rpb_pres_zeros", T4(Places, 1, hp.ddec_heads, 1))>>

\* ggml_get_tensor finds the first tensor of a name.
FirstOf(name) == CHOOSE i \in DOMAIN inputs : inputs[i].name = name
                                              /\ \A j \in 1 .. (i - 1) : inputs[j].name # name

DecoderRan(r) ==
    Run("decoder", hp.ddec_layers,
        [x |-> r.queries, boxes |-> r.pred_boxes, scores |-> r.class_scores,
         presence |-> r.presence_score],
        {Send("ddec_enc", D * Places), Send("ddec_pe", D * Places),
         Send("ddec_text", D * PromptTokens), Send("sine_dim_t", 64),
         Send("rpb_coords", Grid), Send("text_attn_bias", PromptTokens),
         Send("text_valid_mask", PromptTokens), Send("ddec_query_pos_pres", D),
         Send("rpb_pres_zeros", Elements(inputs[FirstOf("rpb_pres_zeros")].of))},
        {Read(r.class_scores, NQ), Read(r.pred_boxes, 4 * NQ), Read(r.presence_score, 1),
         Read(r.queries, D * (NQ + 1))})

RunDecoder ==
    /\ graph = "decoder"
    /\ DecoderRan(DecoderResult(t.x, t.boxes, t.text, T3(t.bias.ne[1], 1, 1), Decoder))
    /\ UNCHANGED feats

BeginMasks ==
    /\ Encoded /\ graph = "decoder"
    /\ LET enc == T3(D, Places, 1)
           queries == T3(D, NQ, 1)
           text == T3(D, PromptTokens, 1)
           bias == T3(PromptTokens, 1, 1)
       IN  Start("masks", [enc |-> enc, fpn0 |-> Feature(0), fpn1 |-> Feature(1),
                           queries |-> queries, text |-> text, bias |-> bias],
                 <<In("seg_enc", enc), In("seg_fpn0", Feature(0)), In("seg_fpn1", Feature(1)),
                   In("seg_queries", queries), In("seg_text", text), In("seg_bias", bias)>>)
    /\ UNCHANGED job

MasksRan(out) ==
    Run("masks", 0, [x |-> out],
        {Send("seg_enc", D * Places), Send("seg_fpn0", Elements(Feature(0))),
         Send("seg_fpn1", Elements(Feature(1))), Send("seg_queries", D * NQ),
         Send("seg_text", D * PromptTokens), Send("seg_bias", PromptTokens)},
        {Read(out, NQ * (Grid * 4) * (Grid * 4))} \cup ReadFeatures({0, 1}))

RunMasks ==
    /\ graph = "masks"
    /\ MasksRan(SegHeadMasks(t.enc, t.fpn0, t.fpn1, t.queries, t.text, t.bias, SegHead))
    /\ UNCHANGED feats

-----------------------------------------------------------------------------
(* The mask decoder, for sam3_segment_pvs and at the end of a propagation. *)

DecoderInputs(sparse) ==
    <<In("sparse", sparse), In("image_pe", Feature(2)), In("dense", Feature(2)),
      In("feat_s0", Feature(0)), In("feat_s1", Feature(1))>>
        \o (IF job.scored THEN <<>> ELSE <<In("sam_dec_obj_score", T2(1, 1))>>)

\* Mutant: the default score of an object is not sent.
DecoderSendsNoScore(tokens) ==
    {Send("sparse", tokens * D), Send("image_pe", D * Places), Send("dense", D * Places),
     Send("feat_s0", Elements(Feature(0))), Send("feat_s1", Elements(Feature(1)))}

DecoderSends(tokens) ==
    {Send("sparse", tokens * D), Send("image_pe", D * Places), Send("dense", D * Places),
     Send("feat_s0", Elements(Feature(0))), Send("feat_s1", Elements(Feature(1)))}
        \cup (IF job.scored THEN {} ELSE {Send("sam_dec_obj_score", 1)})

DecoderReads(r) ==
    {Read(r.masks, (Grid * 4) * (Grid * 4) * 4), Read(r.iou_pred, 4), Read(r.obj_score, 1),
     Read(r.sam_token, D)} \cup ReadFeatures({0, 1, 2})

\* The decoder's layers work on the tokens and on the places of the image.
DecodingFrom(start, side) ==
    [queries |-> start.queries, keys |-> start.keys, tokens |-> start.queries,
     key_pe |-> Reshape(Feature(2), D, side * side, 1, 1)]

Decoding(image_feats, sparse) ==
    DecodingFrom(DecStart(image_feats, Feature(2), sparse, job.scored), image_feats.ne[2])

DecoderLayerTo(r) == [t EXCEPT !.queries = r.queries, !.keys = r.keys]

TwoWay == DecoderLayerTo(TwoWayForward(t, t.tokens, t.key_pe, TwoWayBlock, layer = 0))

DecodedMasks ==
    DecResult(t, t.tokens, t.key_pe, Feature(0), Feature(1), job.scored, MaskDecoder)

BeginPvs(tokens) ==
    /\ Encoded /\ graph \in {"vit", "hiera", "repvit"}
    /\ job' = [job EXCEPT !.tokens = tokens]
    /\ LET sparse == T3(D, tokens, 1)
       IN  Start("pvs", Decoding(Feature(2), sparse),
                 DecoderInputs(sparse) \o <<In("sam_dec_image_feats", Feature(2))>>)

PvsLayer ==
    /\ graph = "pvs"
    /\ Layer("pvs", hp.sam_dec_depth, TwoWay)
    /\ UNCHANGED inputs

PvsRan(r) ==
    Run("pvs", hp.sam_dec_depth, r,
        DecoderSends(job.tokens) \cup {Send("sam_dec_image_feats", D * Places)},
        DecoderReads(r))

RunPvs ==
    /\ graph = "pvs"
    /\ PvsRan(DecodedMasks)
    /\ UNCHANGED feats

-----------------------------------------------------------------------------
(* sam3_encode_memory, and edgetam_perceiver_forward where the model has it. *)

HasPerceiver == job.model = "edgetam"

BeginMemory ==
    /\ Encoded /\ graph = "pvs"
    /\ LET mask == T4(16 * Grid, 16 * Grid, 1, 1)
       IN  Start("memory", [x |-> mask], <<In("mem_mask", mask), In("mem_pix_feat", Feature(2))>>)
    /\ UNCHANGED job

MemoryLayer ==
    /\ graph = "memory"
    /\ Layer("memory", 4, [x |-> MaskHalved(t.x, layer + 1, MemoryEncoder)])
    /\ UNCHANGED inputs

MemoryRan(out) ==
    Run("memory", 4, [x |-> out],
        {Send("mem_mask", (16 * Grid) * (16 * Grid)), Send("mem_pix_feat", D * Places)},
        {Read(out, MD * Places)} \cup ReadFeatures({2}))

RunMemory ==
    /\ graph = "memory"
    /\ MemoryRan(MemoryOf(t.x, Feature(2), MemoryEncoder))
    /\ UNCHANGED feats

BeginLatents ==
    /\ Encoded /\ graph = "memory" /\ HasPerceiver
    /\ PerceiverTakes(Grid)
    /\ LET latents == T3(MD, NumLatents, 1)
           x == T3(MD, Places, 1)
       IN  Start("latents", [x |-> latents, feats |-> x],
                 <<In("lat_1d_in", latents), In("feat_1d_in", x), In("pos_1d_in", x)>>)
    /\ UNCHANGED job

LatentsLayer ==
    /\ graph = "latents"
    /\ Layer("latents", hp.perceiver_depth, [t EXCEPT !.x = PerceiverForward(@, t.feats, t.feats, Perceiver)])
    /\ UNCHANGED inputs

RunLatents ==
    /\ graph = "latents"
    /\ LET out == LayerNorm(t.x, Perceiver.norm)
       IN  Run("latents", hp.perceiver_depth, [x |-> out],
               {Send("lat_1d_in", MD * NumLatents), Send("feat_1d_in", MD * Places),
                Send("pos_1d_in", MD * Places)},
               {Read(out, MD * NumLatents)})
    /\ UNCHANGED feats

\* One latent for each window.
BeginWindows ==
    /\ Encoded /\ graph = "latents"
    /\ LET ws == WindowSize(Grid)
           latents == T3(MD, 1, NumLatents)
           x == T3(MD, ws * ws, NumLatents)
       IN  Start("windows", [x |-> latents, feats |-> x],
                 <<In("feat_2d_in", x), In("lat_2d_in", latents)>>)
    /\ UNCHANGED job

WindowsLayer ==
    /\ graph = "windows"
    /\ Layer("windows", hp.perceiver_depth, [t EXCEPT !.x = PerceiverForward(@, t.feats, NoMask, Perceiver)])
    /\ UNCHANGED inputs

\* edgetam_window_partition_cpu cuts the memory into the windows there are.
WindowsSent == MD * WindowSize(Grid) * WindowSize(Grid) * PerceiverWindows(Grid)

RunWindows ==
    /\ graph = "windows"
    /\ LET out == LayerNorm(Reshape(t.x, MD, NumLatents, 1, 1), Perceiver.norm)
       IN  Run("windows", hp.perceiver_depth, [x |-> out],
               {Send("feat_2d_in", WindowsSent), Send("lat_2d_in", MD * NumLatents)},
               {Read(out, MD * NumLatents)})
    /\ UNCHANGED feats

-----------------------------------------------------------------------------
(* sam3_propagate_single: the memory attention and the mask decoder in one *)
(* graph.                                                                  *)

Remembered == (graph = "memory" /\ ~HasPerceiver) \/ graph = "windows"

\* A memory as sam3_encode_memory stores it.
SlotTensor == IF HasPerceiver THEN T2(MD, 2 * NumLatents) ELSE T4(MD, Grid, Grid, 1)

\* sam3_build_prompt_and_pos.
SpatialTokens == job.slots * SlotTokens(Grid, HasPerceiver)
PointerTokensOf == job.pointers * PointerTokens
AllTokens == SpatialTokens + PointerTokensOf

BeginPropagation(slots, pointers) ==
    /\ Encoded /\ Remembered
    /\ job' = [job EXCEPT !.slots = slots, !.pointers = pointers]
    /\ LET n == slots * SlotTokens(Grid, HasPerceiver)
           m == n + pointers * PointerTokens
           curr == T3(D, Places, 1)
           prompt == T3(MD, m, 1)
           rope_q == T3(2, D \div 2, Places)
           rope_k == T3(2, D \div 2, n)
       IN  Start("propagate", [x |-> Add(curr, curr), prompt |-> prompt, rope_q |-> rope_q, rope_k |-> rope_k],
                 <<In("prop_curr", curr), In("src_pos", curr), In("prompt", prompt),
                   In("prompt_pos", prompt), In("rope_q", rope_q), In("rope_k", rope_k)>>)

PropagateLayer ==
    /\ graph = "propagate"
    /\ Layer("propagate", hp.mem_attn_layers,
             [t EXCEPT !.x = MemoryAttentionForward(@, t.prompt, t.prompt, t.rope_q, t.rope_k,
                                                    PointerTokensOf, MemoryAttention)])
    /\ UNCHANGED inputs

\* The mask decoder takes over in the same graph.
DecodeFrame ==
    /\ graph = "propagate" /\ ~ran /\ layer = hp.mem_attn_layers
    /\ LET x      == LayerNorm(t.x, Norm(D))
           sparse == T3(D, 1, 1)
       IN  /\ t' = Decoding(Reshape(x, D, Grid, Grid, 1), sparse)
           /\ inputs' = inputs \o DecoderInputs(sparse)
    /\ graph' = "frame" /\ layer' = 0
    /\ UNCHANGED <<job, ran, sent, read, feats>>

FrameLayer ==
    /\ graph = "frame"
    /\ Layer("frame", hp.sam_dec_depth, TwoWay)
    /\ UNCHANGED inputs

FrameRan(r) ==
    Run("frame", hp.sam_dec_depth, r,
        DecoderSends(1) \cup
        {Send("prop_curr", D * Places), Send("src_pos", D * Places),
         Send("prompt", MD * AllTokens), Send("prompt_pos", MD * AllTokens),
         Send("rope_q", D * Places), Send("rope_k", D * SpatialTokens)},
        DecoderReads(r) \cup {Read(SlotTensor, MD * SlotTokens(Grid, HasPerceiver))})

RunFrame ==
    /\ graph = "frame"
    /\ FrameRan(DecodedMasks)
    /\ UNCHANGED feats

-----------------------------------------------------------------------------
Jobs(model, sizes, scored) ==
    {[model |-> model, size |-> s, flash |-> f, scored |-> b, boxes |-> 0, tokens |-> 0,
      slots |-> 0, pointers |-> 0] : s \in sizes, f \in BOOLEAN, b \in scored}

\* Only SAM 2 and EdgeTAM come without the score of the object.
Init ==
    /\ job \in Jobs("sam3", Sam3Sizes, {TRUE}) \cup Jobs("sam2", Sam2Sizes, BOOLEAN)
                 \cup Jobs("edgetam", EdgeTamSizes, BOOLEAN)
    /\ graph = "none" /\ ran = TRUE /\ layer = 0
    /\ t = [x |-> Image]
    /\ inputs = <<>> /\ sent = {} /\ read = {} /\ feats = <<>>

EncoderStep ==
    \/ EncodeSam3 \/ VitLayer \/ RunVit
    \/ EncodeSam2 \/ HieraLayer \/ RunHiera
    \/ EncodeEdgeTam \/ RepVitLayer \/ RepVitStage \/ RunRepVit

PcsStep ==
    \/ \E n \in Exemplars : BeginText(n)
    \/ TextLayer \/ RunText
    \/ BeginGeometry \/ GeometryLayer \/ RunGeometry
    \/ BeginFusion \/ FusionLayers \/ RunFusion
    \/ BeginDecoder \/ DecoderStep \/ RunDecoder
    \/ BeginMasks \/ RunMasks

PvsStep ==
    \/ \E n \in SparseTokens : BeginPvs(n)
    \/ PvsLayer \/ RunPvs

MemoryStep ==
    \/ BeginMemory \/ MemoryLayer \/ RunMemory
    \/ BeginLatents \/ LatentsLayer \/ RunLatents
    \/ BeginWindows \/ WindowsLayer \/ RunWindows

PropagationStep ==
    \/ \E s \in Slots, p \in Pointers : BeginPropagation(s, p)
    \/ PropagateLayer \/ DecodeFrame \/ FrameLayer \/ RunFrame

Next == EncoderStep \/ PcsStep \/ PvsStep \/ MemoryStep \/ PropagationStep

Spec == Init /\ [][Next]_vars

-----------------------------------------------------------------------------
Graphs == {"none", "vit", "hiera", "repvit", "text", "geometry", "fusion", "decoder", "masks",
           "pvs", "memory", "latents", "windows", "propagate", "frame"}

\* The job keeps its model, every graph stays within its layers, and only a
\* graph that ran has been sent and read anything.
TypeOK ==
    /\ job.model \in {"sam3", "sam2", "edgetam"}
    /\ graph \in Graphs
    /\ layer \in 0 .. TotalBlocks
    /\ Len(feats) \in {0, 3, 4}
    /\ ~ran => sent = {} /\ read = {}

\* No tensor fails an assertion of ggml, whatever the size of the image, the
\* prompt and the memories, and whichever attention kernel the device has.
NothingAborts ==
    /\ \A name \in DOMAIN t \ {"stages"} : Exists(t[name])
    /\ \A i \in DOMAIN feats : Exists(feats[i])

\* The features have the extents that everything after the encoder works out
\* from the image size alone (sam3_effective_feat_size).
FeaturesFitTheState == feats # <<>> => \A i \in 0 .. 2 : feats[i + 1] = Feature(i)

\* Whoever runs a graph has sent every input tensor it has, all of it and no
\* more; what is sent by name reaches the first tensor of that name.
Written(i) ==
    /\ FirstOf(inputs[i].name) = i
    /\ \E s \in sent : s.name = inputs[i].name /\ s.size = Elements(inputs[i].of)

InputsAreWritten == ran /\ graph # "decoder" => \A i \in DOMAIN inputs : Written(i)

\* "zeros -- set by caller": so are the inputs that the decoder makes itself.
DecoderInputsAreWritten == ran /\ graph = "decoder" => \A i \in DOMAIN inputs : Written(i)

\* A buffer that a tensor is read into has the size of the tensor.
BuffersFit == \A r \in read : r.size = Elements(r.of)

\* No graph runs on an input that nobody wrote, and no transfer to or from the
\* device is longer or shorter than the tensor it is meant for.
TransfersFit == InputsAreWritten /\ BuffersFit
=============================================================================
