---------------------------- MODULE MCAlgorithms ----------------------------
(***************************************************************************)
(* The pure functions of the program, each on all inputs of a small size:  *)
(* one step chooses a function and an input, the invariants compare what   *)
(* the function computes with what it is for.                              *)
(***************************************************************************)
EXTENDS Integers, Sequences, FiniteSets

M == INSTANCE Sam3Masks
L == INSTANCE Sam3Layouts
T == INSTANCE Sam3Text
X == INSTANCE Extents
F == INSTANCE ImageFilters
S == INSTANCE Siglip2

CONSTANTS
    MaskWidth, MaskHeight,   \* masks: all of one size
    MaxArea,                 \* what counts as a small hole
    MaxExtent,               \* feature maps, resampled lines, images
    MaxText,                 \* characters of a prompt
    MaxWord,                 \* letters of a word to encode
    MaxContext,              \* length of a context
    MaxBudget,               \* patches an image may have
    ScaleUnit                \* scales tried: multiples of 1 / ScaleUnit

\* The smallest scale makes one patch of the largest image: in the code it is a
\* millionth (compute_target_size).
ASSUME SizeAssumption ==
    /\ MaskWidth \in Nat /\ MaskHeight \in Nat /\ MaxArea \in Nat
    /\ MaxExtent \in Nat /\ MaxText \in Nat /\ MaxWord \in Nat /\ MaxContext \in Nat
    /\ MaxBudget \in Nat /\ ScaleUnit \in Nat \ {0}
    /\ 2 * MaxExtent <= ScaleUnit

VARIABLES
    what,    \* the function
    input    \* its arguments

vars == <<what, input>>

Init == what = "none" /\ input = <<>>

Functions == {"mask", "overlap", "nms", "boxes", "corners", "windows", "samples",
              "extent", "text", "bpe", "bytes", "context", "prompt",
              "blur", "offset", "budget", "filter", "patchify", "pieces"}

Pick == what = "none" /\ what' \in Functions /\ UNCHANGED input

Choose(name, arguments) ==
    /\ what = name /\ input = <<>>
    /\ input' \in arguments
    /\ UNCHANGED what

Masks == SUBSET M!Pixels(MaskWidth, MaskHeight)

CleanMask == Choose("mask", Masks \X (0 .. MaxArea))

\* Three small masks in the order of their scores.
SmallMasks == SUBSET M!Pixels(2, 2)
ScoredMasks == {d \in [1 .. 3 -> [score : 1 .. 2, mask : SmallMasks]] : M!Sorted(d)}
ResolveMasks == Choose("overlap", ScoredMasks)

\* Boxes that overlap, touch, contain each other and do not, one inside out.
Boxes == {<<0, 0, 4, 2>>, <<1, 0, 5, 2>>, <<2, 0, 6, 2>>, <<4, 0, 8, 2>>, <<0, 0, 8, 2>>,
          <<1, 3, 3, 5>>, <<5, 1, 3, 5>>}
ScoredBoxes(n) == {d \in [1 .. n -> [score : 1 .. 3, box : Boxes]] : M!Sorted(d)}
Suppress == Choose("nms", UNION {ScoredBoxes(n) : n \in 0 .. 3})

PlainBoxes == {b \in (0 .. 3) \X (0 .. 3) \X (1 .. 4) \X (1 .. 4) : b[1] < b[3] /\ b[2] < b[4]}
CompareBoxes == Choose("boxes", PlainBoxes \X PlainBoxes)

CornerBoxes == Choose("corners", (0 .. 4) \X (0 .. 4) \X (0 .. 4) \X (0 .. 4))

CutWindows == Choose("windows", (1 .. 2) \X (1 .. MaxExtent) \X (1 .. MaxExtent) \X (2 .. 4))

Resample == Choose("samples", (1 .. 2 * MaxExtent) \X (1 .. 2 * MaxExtent))

Extend == Choose("extent", (1 .. 4 * MaxExtent) \X (1 .. 4 * MaxExtent)
                             \X (1 .. 2 * MaxExtent) \X (2 .. 5))

\* Well-formed texts: the lead byte of a letter and its continuation together.
Symbols == {<<b>> : b \in T!Bytes \ {"lead", "cont"}} \cup {<<"lead", "cont">>}
Texts   == {T!FlattenSeq(t) : t \in UNION {[1 .. n -> Symbols] : n \in 1 .. MaxText}}
Split   == Choose("text", {<<t>> : t \in Texts})

\* Up to two merges, the second perhaps of what the first made.
Tokens == {<<"a">>, <<"b">>, <<"a", "</w>">>, <<"b", "</w>">>, <<"a", "b">>, <<"a", "a">>,
           <<"a", "b", "</w>">>}
Merges == UNION {[1 .. n -> Tokens \X Tokens] : n \in 0 .. 2}
Words  == UNION {[1 .. n -> {"a", "b"}] : n \in 1 .. MaxWord}
Encode == Choose("bpe", Words \X Merges)

TellBytes == Choose("bytes", {<<0>>})

\* Prompts of short words, a merge or none, and vocabularies that have some of
\* these tokens, under one of two ids; the one of "l" within a word in none.
Prompts    == UNION {[1 .. n -> {"a", "l", " "}] : n \in 0 .. MaxWord}
Vocabulary == {<<"a">>, <<"a", "</w>">>, <<"l", "</w>">>, <<"a", "l", "</w>">>}
Encoders   == UNION {[known -> {0, 7}] : known \in SUBSET Vocabulary}
FewMerges  == UNION {[1 .. n -> {<<<<"a">>, <<"l", "</w>">>>>}] : n \in 0 .. 1}
Frame      == Choose("context", Prompts \X FewMerges \X Encoders \X (2 .. MaxContext))

Ask == Choose("prompt", BOOLEAN \X (0 .. 3) \X (0 .. 3))

\* Blurred by no more than half their size, two pixels set (the filter is
\* linear); offset beyond it.
Dots == {[p \in M!Pixels(4, 5) |-> IF p \in {q, r} THEN 1 ELSE 0] : q, r \in M!Pixels(4, 5)}
Blur   == Choose("blur", Dots \X {1, 2})
Offset == Choose("offset", [M!Pixels(MaskWidth, MaskHeight) -> 0 .. 1]
                             \X (-MaskHeight .. MaskHeight))

\* The search's bounds, coarser: from 1 unit to 5, until it knows 2 units.
Scales == [unit |-> ScaleUnit, low |-> 1, high |-> 5 * ScaleUnit, eps |-> 2]
Rounds == 5 * ScaleUnit   \* each takes a unit at least off the interval
Budget == Choose("budget", (1 .. 2 * MaxExtent) \X (1 .. 2 * MaxExtent) \X (1 .. 3)
                             \X (1 .. MaxBudget))

Filter   == Choose("filter", (1 .. 2 * MaxExtent) \X (1 .. 2 * MaxExtent))
Patchify == Choose("patchify", (1 .. 3) \X (1 .. 3) \X (1 .. 3))

Pieces == UNION {[1 .. n -> {4, 7}] : n \in 0 .. MaxContext}
Pad    == Choose("pieces", Pieces \X {S!NoEos, 1} \X (0 .. MaxContext))

Given(name) == what = name /\ input # <<>>

Next ==
    \/ Pick
    \/ CleanMask \/ ResolveMasks \/ Suppress \/ CompareBoxes \/ CornerBoxes
    \/ CutWindows \/ Resample
    \/ Extend \/ Split \/ Encode \/ TellBytes \/ Frame \/ Ask
    \/ Blur \/ Offset \/ Budget \/ Filter \/ Patchify \/ Pad

Spec == Init /\ [][Next]_vars

-----------------------------------------------------------------------------
\* Clean-up leaves neither hole nor sprinkle (sam3_fill_holes,
\* sam3_remove_sprinkles).
MasksSettle == Given("mask") => M!Settles(input[1], MaskWidth, MaskHeight, input[2])

\* Every pixel that was claimed goes to one object, the best that claims it
\* (sam3_resolve_overlaps).
PixelsHaveOneObject == Given("overlap") => M!OnePixelOneObject(input)

\* Non-maximum suppression drops what a better detection covers and nothing
\* else (sam3_nms, the end of sam3_segment_pcs).
BestBoxesStay == Given("nms") => M!SuppressesTheRest(input, 2, <<1, 3>>)

\* The overlap of boxes is that of the masks they frame, and a box computed
\* from a mask or from the network's numbers frames it in the image.
BoxesFrameMasks ==
    /\ Given("boxes") => M!BoxesOverlapAsMasks(input[1], input[2])
    /\ Given("corners") => M!BoxInImage(input, 3, 5, 4)
    /\ Given("mask") => M!BoxFits(input[1], MaskWidth, MaskHeight)

\* Cutting feature maps into attention windows and back, with and without
\* padding and pooling, moves every element to its place.
WindowsComeBack ==
    Given("windows") =>
        /\ L!WindowsAreSquares(input[1], input[2], input[3], input[4])
        /\ L!HieraWindowsAreSquares(input[1], input[2], input[3], input[4])
        /\ L!CpuWindowsAreSquares(input[2], input[3], input[4])
        /\ L!PlanesAreChannels(input[2])

\* Resampling images and masks reads inside them, alike and symmetrically.
SamplesAgree == Given("samples") => L!SamplersAgree(input[1], input[2])

\* Every network gets whole patches, as large and of the shape its function
\* promises (birefnet_, depthany_, depthany3_image_extent).
ExtentsCover ==
    Given("extent") =>
        LET extent == <<input[1], input[2]>>
        IN  /\ X!BirefnetCovers(extent, input[4], input[3] * MaxExtent * X!PixelBytes)
            /\ X!DepthanyKeepsDetail(extent, input[3], input[4])
            /\ X!Depthany3KeepsShape(extent, input[3], input[4])

\* The words of a prompt are the prompt (sam3_pretokenize).
PromptIsItsWords == Given("text") => T!WordsAreTheText(input[1])

\* Its tokens are the word, merged as far as can be, and its bytes can be told
\* apart in them (sam3_bpe_encode, sam3_init_byte_encoder).
TokensAreTheWord ==
    /\ Given("bpe") => T!MergesAreExhausted(input[1], input[2])
    /\ Given("bytes") => T!BytesAreTold

\* The context of the text encoder is begun, ended and padded, and holds the
\* known tokens of the prompt in their order (sam3_tokenize).
ContextsAreFramed ==
    Given("context") => T!PromptIsFramed(input[1], input[2], input[3], input[4])

\* The tensor of the prompt tokens is as long as the prompt (sam3_build_sam_pe,
\* sam3_collect_pvs_prompt_tokens).
PromptsFillTheirTensor == Given("prompt") => M!PromptFillsItsTensor(input[1], input[2], input[3])

\* The refined edge of a mask is blurred evenly and moved as far as asked
\* (blur, mask_offset).
EdgesMoveEvenly ==
    /\ Given("blur") => F!BlurIsBox(input[1], 4, 5, input[2])
    /\ Given("offset") => F!OffsetMovesBorder(input[1], MaskWidth, MaskHeight, input[2], 1)

\* siglip2 fills the budget of patches and does not exceed it
\* (compute_target_size).
BudgetsAreUsed ==
    Given("budget") => S!BudgetIsUsed(Scales, input[1], input[2], input[3], input[4], Rounds)

\* Its filter weighs pixels evenly and its patches are squares of the image
\* (build_aa_filter, rescale_normalize_patchify).
PatchesComeEvenly ==
    /\ Given("filter") => S!FilterIsFair(input[1], input[2])
    /\ Given("patchify") => S!PatchesAreSquares(input[1], input[2], input[3])

\* Its texts are cut and padded to the length asked for, and ended
\* (Tokenizer::encode).
TextsAreEnded == Given("pieces") => S!TextIsEnded(input[1], input[2], 0, input[3])

-----------------------------------------------------------------------------
\* Each step between the networks and the result does what it is for: one object
\* to a pixel, one box to an object, no holes and no sprinkles, every box where
\* its mask is.
MasksAndBoxes ==
    /\ MasksSettle /\ PixelsHaveOneObject /\ BestBoxesStay /\ BoxesFrameMasks
    /\ PromptsFillTheirTensor /\ EdgesMoveEvenly

\* Nothing is lost or moved between the layouts of a feature map.
LayoutsAgree == WindowsComeBack /\ SamplesAgree /\ PatchesComeEvenly

\* The words of a prompt are the prompt, its tokens the words, and the text
\* encoder gets the tokens of the vocabulary in their order, from the first until
\* there is no more room; a text of siglip2 is cut and ended likewise.
PromptsArrive == PromptIsItsWords /\ TokensAreTheWord /\ ContextsAreFramed /\ TextsAreEnded

\* Every network, and siglip2, gets whole patches: as many as the image needs or
\* the budget allows, in its shape.
ExtentsKeepTheImage == ExtentsCover /\ BudgetsAreUsed
=============================================================================
