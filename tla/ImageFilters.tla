---------------------------- MODULE ImageFilters ----------------------------
(***************************************************************************)
(* The filters visp/image.cpp runs over masks when /remove refines an edge *)
(* (render_png): a box blur by running sums, and erosion, which grows what *)
(* it is given upside down.                                                *)
(*                                                                         *)
(* An image is a function from <<x, y>>, counted from 0.  Values are       *)
(* integers; a blurred one is in units of 1 / (2 * radius + 1)^2, so sums  *)
(* are exact and the rounding of floats is left out.                       *)
(***************************************************************************)
EXTENDS Integers, FiniteSetsExt

Clamped(i, n) == IF i < 0 THEN 0 ELSE IF i >= n THEN n - 1 ELSE i

-----------------------------------------------------------------------------
(* blur: one pass over a line of n values, then one over its results. *)

\* The sum begins with the border repeated to the left of the first value.
FirstSum(line, radius) == radius * line[0] + MapThenSumSet(LAMBDA x : line[x], 0 .. radius)

BlurLine(line, n, radius) ==
    LET sum[x \in 0 .. (n - 1)] ==
            IF x = 0 THEN FirstSum(line, radius)
            ELSE sum[x - 1] - line[Clamped(x - radius - 1, n)]
                            + line[Clamped(x + radius, n)]
    IN  sum

Blur(image, w, h, radius) ==
    LET temp == [y \in 0 .. (h - 1) |->
                   BlurLine([x \in 0 .. (w - 1) |-> image[<<x, y>>]], w, radius)]
        dst  == [x \in 0 .. (w - 1) |->
                   BlurLine([y \in 0 .. (h - 1) |-> temp[y][x]], h, radius)]
    IN  [p \in (0 .. (w - 1)) \X (0 .. (h - 1)) |-> dst[p[1]][p[2]]]

-----------------------------------------------------------------------------
(* erosion, and mask_offset, which erodes by a negative offset and erodes   *)
(* the complement by a positive one.                                        *)
Erosion(image, w, h, radius) ==
    [p \in (0 .. (w - 1)) \X (0 .. (h - 1)) |->
        Min({image[<<Clamped(p[1] + dx, w), Clamped(p[2] + dy, h)>>] :
                dx \in (-radius) .. radius, dy \in (-radius) .. radius})]

\* Values go up to one.
Inverted(image, one) == [p \in DOMAIN image |-> one - image[p]]

MaskOffset(image, w, h, radius, one) ==
    IF radius < 0 THEN Erosion(image, w, h, -radius)
    ELSE IF radius = 0 THEN image
    ELSE Inverted(Erosion(Inverted(image, one), w, h, radius), one)

-----------------------------------------------------------------------------
(* What they promise. *)

\* The sum of the square around p, the image being continued by its border.
BoxSum(image, w, h, radius, p) ==
    MapThenSumSet(LAMBDA d : image[<<Clamped(p[1] + d[1], w), Clamped(p[2] + d[2], h)>>],
                  ((-radius) .. radius) \X ((-radius) .. radius))

\* "Box filter with kernel size 2*radius + 1" (image.h): a pixel gets the mean
\* of the square around it.
BlurIsBox(image, w, h, radius) ==
    Blur(image, w, h, radius) =
        [p \in (0 .. (w - 1)) \X (0 .. (h - 1)) |-> BoxSum(image, w, h, radius, p)]

\* An offset moves the border of a mask that far and no farther: a pixel gets
\* the least (the greatest) value of those in the image within the distance.
OffsetMovesBorder(image, w, h, radius, one) ==
    LET r == IF radius < 0 THEN -radius ELSE radius
        near(p) == {image[q] : q \in {q \in DOMAIN image :
                        /\ q[1] - p[1] \in (-r) .. r /\ q[2] - p[2] \in (-r) .. r}}
    IN  \A p \in DOMAIN image :
            MaskOffset(image, w, h, radius, one)[p] =
                IF radius <= 0 THEN Min(near(p)) ELSE Max(near(p))
=============================================================================
