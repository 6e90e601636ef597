------------------------------ MODULE Upscale ------------------------------
(***************************************************************************)
(* esrgan_compute: an image is cut into overlapping tiles of one size, the *)
(* network runs on each, and the results are blended into an image that    *)
(* starts out black.  The model keeps the graph for the last tile size.    *)
(*                                                                         *)
(* Of the pixels only the weight they have received is kept, in units of   *)
(* 1 / Whole, so that every blend is a whole number.                       *)
(***************************************************************************)
EXTENDS Tiling

CONSTANTS
    ImageExtents,   \* sizes of the images sent
    Formats,        \* channels of the images sent: a subset of {1, 3, 4}
    MaxTileSize, Overlap, Align,
    Scale           \* the upscaling factor of the model file

\* esrgan_compute has 224, 16 and 16 for the three sizes.
ASSUME UpscaleAssumption ==
    /\ ImageExtents \subseteq (Nat \ {0}) \X (Nat \ {0})
    /\ Formats \subseteq {1, 3, 4}
    /\ Align \in Nat \ {0} /\ Scale \in Nat \ {0}
    /\ \E a \in 1 .. MaxTileSize : MaxTileSize = a * Align
    /\ \E b \in 0 .. Overlap : Overlap = b * Align
    /\ MaxTileSize >= 3 * Overlap

VARIABLES
    pc,          \* where esrgan_compute is
    image,       \* its argument
    tile,        \* its loop variable t
    input_tile,  \* what the buffer of that name holds
    output,      \* weight received by each pixel of output_image
    graph,       \* model.graph: "none", "unallocated" or "ready"
    tile_size,   \* model.tile_size
    graph_input  \* the extent of model.input, the graph's input tensor

vars == <<pc, image, tile, input_tile, output, graph, tile_size, graph_input>>
model == <<graph, tile_size, graph_input>>

Extent == Int \X Int
NoExtent == <<0, 0>>
NoImage == [extent |-> NoExtent, channels |-> 3]

Init ==
    /\ pc = "idle" /\ image = NoImage /\ tile = 0
    /\ input_tile = "unset" /\ output = <<>>
    /\ graph = "none" /\ tile_size = NoExtent /\ graph_input = NoExtent

Axis(a)   == TileLayout(image.extent[a], MaxTileSize, Overlap, Align)
OutAxis(a) == TileScale(Axis(a), Scale)
WantedSize == <<Axis(1).size, Axis(2).size>>
Total == Axis(1).n * Axis(2).n

\* Mutant: the axes swapped.
SwappedCoord == <<tile \div Axis(1).n, tile % Axis(1).n>>

\* tile_layout::coord.
Coord == <<tile % Axis(1).n, tile \div Axis(1).n>>

OutPixels == (0 .. image.extent[1] * Scale - 1) \X (0 .. image.extent[2] * Scale - 1)
Whole == (Overlap * Scale + 1) * (Overlap * Scale + 1)

Call ==
    /\ pc = "idle"
    /\ \E e \in ImageExtents, c \in Formats : image' = [extent |-> e, channels |-> c]
    /\ pc' = "graph"
    /\ UNCHANGED <<tile, input_tile, output, model>>

\* Mutant: a graph once built serves every image.
NeverRebuilds == graph = "none"
NeedsGraph == graph = "none" \/ tile_size # WantedSize

\* Mutant: no image_clear; the memory was last used for another image.
Uncleared == [p \in OutPixels |-> IF p \in DOMAIN output THEN output[p] ELSE 0]
Cleared   == [p \in OutPixels |-> 0]

\* The tile buffers are allocated, not cleared; output_image is cleared.
Begin ==
    /\ pc' = "convert" /\ tile' = 0 /\ input_tile' = "unset"
    /\ output' = Cleared
    /\ UNCHANGED image

KeepGraph ==
    /\ pc = "graph" /\ ~NeedsGraph
    /\ Begin
    /\ UNCHANGED model

BuildGraph ==
    /\ pc = "graph" /\ NeedsGraph
    /\ graph' = "ready" /\ tile_size' = WantedSize /\ graph_input' = WantedSize
    /\ Begin

\* compute_graph_allocate throws; the new graph and tile_size stay.
AllocateFails ==
    /\ pc = "graph" /\ NeedsGraph
    /\ graph' = "unallocated" /\ tile_size' = WantedSize /\ graph_input' = WantedSize
    /\ pc' = "idle"
    /\ UNCHANGED <<image, tile, input_tile, output>>

\* image_u8_to_f32 to three channels: an image with one channel is not copied
\* at all, and the buffer keeps what it held.
Convert ==
    /\ pc = "convert"
    /\ input_tile' = IF image.channels = 1 THEN input_tile ELSE "pixels"
    /\ pc' = "compute"
    /\ UNCHANGED <<image, tile, output, model>>

Compute ==
    /\ pc = "compute" /\ graph = "ready"
    /\ pc' = "merge"
    /\ UNCHANGED <<image, tile, input_tile, output, model>>

\* A kept graph without memory: ggml aborts.
ComputeUnallocated ==
    /\ pc = "compute" /\ graph = "unallocated"
    /\ pc' = "crashed"
    /\ UNCHANGED <<image, tile, input_tile, output, model>>

\* What pixel p has received once the tile at coord is merged into it.  A pixel
\* of weight 0 or less would replace what is there.
Merged(coord, p) ==
    LET w(a)   == Weight(OutAxis(a), coord[a], p[a])
        n(a)   == Norm(OutAxis(a), coord[a], p[a])
        weight == w(1) * w(2)
    IN  IF \E a \in {1, 2} : ~Covers(OutAxis(a), coord[a], p[a])
        THEN output[p]
        ELSE IF weight > 0 THEN output[p] + weight * (Whole \div (n(1) * n(2)))
        ELSE Whole

TileMerge ==
    /\ pc = "merge"
    /\ output' = [p \in OutPixels |-> Merged(Coord, p)]
    /\ IF tile + 1 < Total
       THEN tile' = tile + 1 /\ pc' = "convert"
       ELSE tile' = tile /\ pc' = "return"
    /\ UNCHANGED <<image, input_tile, model>>

Return ==
    /\ pc = "return"
    /\ pc' = "idle"
    /\ UNCHANGED <<image, tile, input_tile, output, model>>

Next ==
    \/ Call \/ KeepGraph \/ BuildGraph \/ AllocateFails
    \/ Convert \/ Compute \/ ComputeUnallocated \/ TileMerge \/ Return

Spec == Init /\ [][Next]_vars

-----------------------------------------------------------------------------
(***************************************************************************)
(* Properties.                                                             *)
(***************************************************************************)
TypeOK ==
    /\ pc \in {"idle", "graph", "convert", "compute", "merge", "return", "crashed"}
    /\ image \in [extent : ImageExtents \cup {NoExtent}, channels : {1, 3, 4}]
    /\ tile \in Nat
    /\ input_tile \in {"unset", "pixels"}
    /\ \A p \in DOMAIN output : output[p] \in 0 .. Whole
    /\ graph \in {"none", "unallocated", "ready"}
    /\ tile_size \in Extent /\ graph_input \in Extent

\* Every pixel of the result has received weights that add up to exactly one,
\* whatever tiles it lies under: no seam is brighter or darker than the rest.
BlendsToOne == pc = "return" => \A p \in OutPixels : output[p] = Whole

\* The network runs on a graph whose input is as large as the tile put in.
GraphFitsTile == pc = "compute" => graph_input = WantedSize

\* Every tile overlaps the image: none is computed for nothing.
EveryTileShows ==
    pc = "compute" => \A a \in {1, 2} : Start(Axis(a), Coord[a], 0) < image.extent[a]

(***************************************************************************)
(* What a comment says and the code does not do.                           *)
(***************************************************************************)

\* image.h: `src' of image_u8_to_f32 "can have any image format".
TilesHoldPixels == pc = "compute" => input_tile = "pixels"
=============================================================================
