------------------------------- MODULE Tiling -------------------------------
(***************************************************************************)
(* tile_layout and the blending weights of tile_merge, along one axis: the *)
(* two axes of an image are laid out independently, and what a tile adds   *)
(* to a pixel is the product of the two.                                   *)
(***************************************************************************)
EXTENDS Extents

\* tile_layout::tile_layout.
TileLayout(len, max_size, overlap, align) ==
    LET n    == DivCeil(len, max_size)
        even == DivCeil(len + (n - 1) * overlap, n)
    IN  [len |-> len, overlap |-> overlap, n |-> n,
         size |-> NextMultiple(even, align)]

\* tile_scale: the same tiles on the output of a network that upscales.
TileScale(layout, k) ==
    [len |-> layout.len * k, overlap |-> layout.overlap * k, n |-> layout.n,
     size |-> layout.size * k]

Stride(layout) == layout.size - layout.overlap

\* tile_layout::start and end; pad leaves out what a neighbour shares.
Start(layout, i, pad) == i * Stride(layout) + IF i = 0 THEN 0 ELSE pad
End(layout, i, pad) ==
    MinOf(Start(layout, i, 0) + layout.size - (IF i = layout.n - 1 THEN 0 ELSE pad),
          layout.len)

Covers(layout, i, x) == Start(layout, i, 0) <= x /\ x < End(layout, i, 0)

\* tile_merge: a ramp up over the overlap with the tile before, a ramp down
\* over the overlap with the tile after, both to be divided by overlap + 1.
Before(layout, i, x) == x < Start(layout, i, layout.overlap)
After(layout, i, x)  == ~Before(layout, i, x) /\ x >= End(layout, i, layout.overlap)

\* Mutant: the ramp up starts at 0.
WeightFromZero(layout, i, x) ==
    IF Before(layout, i, x)
    THEN layout.overlap - (Start(layout, i, layout.overlap) - x)
    ELSE IF After(layout, i, x)
    THEN layout.overlap - (x - End(layout, i, layout.overlap))
    ELSE 1

Weight(layout, i, x) ==
    IF Before(layout, i, x)
    THEN layout.overlap - (Start(layout, i, layout.overlap) - x) + 1
    ELSE IF After(layout, i, x)
    THEN layout.overlap - (x - End(layout, i, layout.overlap))
    ELSE 1

Norm(layout, i, x) ==
    IF Before(layout, i, x) \/ After(layout, i, x) THEN layout.overlap + 1 ELSE 1
=============================================================================
