------------------------------- MODULE Extents -------------------------------
(***************************************************************************)
(* The resolution each network computes at, from the resolution asked for  *)
(* and the size of the image.  A change of this extent is what makes the   *)
(* *_compute functions of vision.cpp rebuild their graph.                  *)
(***************************************************************************)
EXTENDS Integers

\* div_ceil and next_multiple, for a non-negative x and a positive mult.
DivCeil(x, mult)      == (x + mult - 1) \div mult
NextMultiple(x, mult) == DivCeil(x, mult) * mult

MaxOf(x, y) == IF x >= y THEN x ELSE y
MinOf(x, y) == IF x <= y THEN x ELSE y

\* A pixel of BiRefNet-dynamic's largest layer: 240 floats.
PixelBytes == 240 * 4

\* int(side * scale), for the scale at which the layer takes max_alloc bytes:
\* the root of what there is over what the image needs.  The root is exact
\* here; the code's float may differ from it when the side is nearly whole.
Scaled(side, other, max_alloc) ==
    CHOOSE k \in 0 .. side :
        /\ k * k * other * PixelBytes <= side * max_alloc
        /\ side * max_alloc < (k + 1) * (k + 1) * other * PixelBytes

FitsAlloc(extent, max_alloc) == extent[1] * extent[2] * PixelBytes <= max_alloc

\* birefnet_image_extent: the network's fixed square, or for a dynamic model
\* (image_size -1) the image, reduced if its largest layer does not fit
\* max_alloc, and rounded up.
BirefnetExtent(extent, size, mult, max_alloc) ==
    LET side(i) ==
            IF FitsAlloc(extent, max_alloc) THEN extent[i]
            ELSE MaxOf(1, Scaled(extent[i], extent[3 - i], max_alloc) - mult)
    IN  IF size = -1
        THEN <<NextMultiple(side(1), mult), NextMultiple(side(2), mult)>>
        ELSE <<size, size>>

\* Mutant: the target is not rounded up before the sides are scaled to it.
DepthanyExtentUnrounded(extent, size, mult) ==
    LET side == MinOf(extent[1], extent[2])
        tgt  == MaxOf(size, (side \div mult) * mult)
    IN  <<NextMultiple((extent[1] * tgt) \div side, mult),
          NextMultiple((extent[2] * tgt) \div side, mult)>>

\* depthany_image_extent: size is a floor on the shortest side.
DepthanyExtent(extent, size, mult) ==
    LET side == MinOf(extent[1], extent[2])
        tgt  == MaxOf(size, NextMultiple(side, mult))
    IN  <<NextMultiple((extent[1] * tgt) \div side, mult),
          NextMultiple((extent[2] * tgt) \div side, mult)>>

\* depthany3_image_extent: size bounds the longest side, and each side goes to
\* the nearest multiple, up when in doubt.  lround is taken of the exact
\* quotient; the code's double may differ from it when that is a near tie.
RoundToPatch(value, size, longest, mult) ==
    LET scaled == MaxOf(1, (2 * value * size + longest) \div (2 * longest))
        down   == (scaled \div mult) * mult
        up     == down + mult
    IN  IF up - scaled <= scaled - down THEN up ELSE MaxOf(down, mult)

Depthany3Extent(extent, size, mult) ==
    LET longest == MaxOf(extent[1], extent[2])
    IN  <<RoundToPatch(extent[1], size, longest, mult),
          RoundToPatch(extent[2], size, longest, mult)>>

-----------------------------------------------------------------------------
(* What they promise. *)

IsPatches(e, mult) == e[1] % mult = 0 /\ e[2] % mult = 0

\* A dynamic BiRefNet sees every pixel of an image that fits, and less than a
\* patch beyond.  One that does not is reduced until its largest layer does fit,
\* although its sides are rounded up again, unless a side is down to one patch.
BirefnetCovers(extent, mult, max_alloc) ==
    LET e == BirefnetExtent(extent, -1, mult, max_alloc)
    IN  /\ IsPatches(e, mult)
        /\ \A i \in 1 .. 2 : e[i] < extent[i] + mult
        /\ IF FitsAlloc(extent, max_alloc)
           THEN \A i \in 1 .. 2 : extent[i] <= e[i]
           ELSE (\A i \in 1 .. 2 : e[i] > mult) => FitsAlloc(e, max_alloc)

\* Depth Anything V2 computes on whole patches, no side shorter than what was
\* asked for and none shorter than the image's, and a side that is no shorter
\* in the image is none in the network.  No side is stretched against the
\* other by more than the patch it is rounded up to and a pixel.
DepthanyKeepsDetail(extent, size, mult) ==
    LET e == DepthanyExtent(extent, size, mult)
    IN  /\ IsPatches(e, mult)
        /\ \A i \in 1 .. 2 : e[i] >= size /\ e[i] >= extent[i]
        /\ \A i, j \in 1 .. 2 :
             /\ extent[i] <= extent[j] => e[i] <= e[j]
             /\ e[i] * extent[j] < (e[j] + 1) * extent[i] + mult * extent[j]

\* Depth Anything 3 computes on whole patches; the longest side is the nearest
\* number of them to what was asked for, no side is empty, and a side is off
\* its share of the longest by no more than a patch.
Depthany3KeepsShape(extent, size, mult) ==
    LET e       == Depthany3Extent(extent, size, mult)
        longest == MaxOf(extent[1], extent[2])
    IN  /\ IsPatches(e, mult)
        /\ \A i \in 1 .. 2 :
             /\ e[i] >= mult
             /\ extent[i] = longest /\ size >= mult => 2 * e[i] <= 2 * size + mult /\ 2 * e[i] >= 2 * size - mult
             /\ e[i] > mult => 2 * e[i] * longest <= 2 * extent[i] * size + (mult + 1) * longest
             /\ 2 * e[i] * longest >= 2 * extent[i] * size - (mult + 1) * longest
=============================================================================
