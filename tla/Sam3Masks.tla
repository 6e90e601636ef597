------------------------------ MODULE Sam3Masks ------------------------------
(***************************************************************************)
(* What depend/sam3/sam3.cpp does to masks and boxes after a network has   *)
(* run: clean-up of the binary masks, overlaps, non-maximum suppression,   *)
(* boxes, and the prompt tokens that go in.                                *)
(*                                                                         *)
(* A mask is the set of its foreground pixels <<x, y>>.  Coordinates and   *)
(* scores are integers of a common denominator; a quotient is compared by  *)
(* cross-multiplication.                                                   *)
(***************************************************************************)
EXTENDS Integers, Sequences, FiniteSets, SequencesExt, FiniteSetsExt

Pixels(w, h) == (0 .. w - 1) \X (0 .. h - 1)

MaxOf2(a, b) == IF a >= b THEN a ELSE b
MinOf2(a, b) == IF a <= b THEN a ELSE b

-----------------------------------------------------------------------------
(* Connected components, four neighbours to a pixel. *)

Neighbours(p) == {<<p[1] - 1, p[2]>>, <<p[1] + 1, p[2]>>, <<p[1], p[2] - 1>>, <<p[1], p[2] + 1>>}

\* A pixel joins the components it touches into one: what the breadth-first
\* searches from every unlabelled pixel find, pixel by pixel.
Joined(p, components) ==
    LET near == {c \in components : c \cap Neighbours(p) # {}}
    IN  (components \ near) \cup {{p} \cup UNION near}

Components(region) == FoldSet(Joined, {}, region)

OnBorder(p, w, h) == p[1] \in {0, w - 1} \/ p[2] \in {0, h - 1}

\* sam3_fill_holes: background inside the image, of no more than area pixels.
Holes(mask, w, h, area) ==
    {c \in Components(Pixels(w, h) \ mask) :
        Cardinality(c) <= area /\ \A p \in c : ~OnBorder(p, w, h)}

FillHoles(mask, w, h, area) == mask \cup UNION Holes(mask, w, h, area)

\* sam3_remove_sprinkles.
Sprinkles(mask, area) == {c \in Components(mask) : Cardinality(c) <= area}

RemoveSprinkles(mask, area) == mask \ UNION Sprinkles(mask, area)

\* The clean-up at the end of a frame.
Cleaned(mask, w, h, area) == RemoveSprinkles(FillHoles(mask, w, h, area), area)

-----------------------------------------------------------------------------
(* Several masks.  std::sort leaves the order of equal scores open: dets is *)
(* a sequence of [score, mask] or [score, box] in an order it may leave.    *)

Sorted(dets) == \A i, j \in DOMAIN dets : i < j => dets[i].score >= dets[j].score

\* Pixels claimed by the detections before the i-th.
Claimed(dets, i) == UNION {dets[j].mask : j \in 1 .. (i - 1)}

\* sam3_resolve_overlaps.  Both callers pass masks of the frame's size only
\* (add_mask_to_result), so the return for a first detection without a mask is
\* the return of a frame without pixels.
ResolveOverlaps(dets) ==
    [i \in DOMAIN dets |-> [dets[i] EXCEPT !.mask = @ \ Claimed(dets, i)]]

\* sam3_mask_iou of two masks, as <<intersection, union>>; an empty union
\* counts as no overlap.
MaskIou(a, b) == <<Cardinality(a \cap b), Cardinality(a \cup b)>>

\* A box is <<x0, y0, x1, y1>>.
Area(box) == (box[3] - box[1]) * (box[4] - box[2])

Intersection(a, b) ==
      MaxOf2(0, MinOf2(a[3], b[3]) - MaxOf2(a[1], b[1]))
    * MaxOf2(0, MinOf2(a[4], b[4]) - MaxOf2(a[2], b[2]))

\* sam3_box_iou.
BoxIou(a, b) == <<Intersection(a, b), Area(a) + Area(b) - Intersection(a, b)>>

Exceeds(iou, threshold) == iou[2] > 0 /\ iou[1] * threshold[2] > threshold[1] * iou[2]

\* Mutant: the suppressed suppress as well.
KeepsChained(kept, dets, i, threshold) ==
    \A j \in 1 .. (i - 1) : ~Exceeds(BoxIou(dets[j].box, dets[i].box), threshold)

\* A detection is kept if no kept one before it overlaps it.
Keeps(kept, dets, i, threshold) ==
    \A j \in kept : ~Exceeds(BoxIou(dets[j].box, dets[i].box), threshold)

\* sam3_nms: the indices kept.
Nms(dets, threshold) ==
    LET step(kept, i) == IF Keeps(kept, dets, i, threshold) THEN kept \cup {i} ELSE kept
    IN  FoldLeftDomain(step, {}, dets)

\* A loop that skips some indices.
InOrder(indices) ==
    CHOOSE s \in [1 .. Cardinality(indices) -> indices] :
        \A i, j \in DOMAIN s : i < j => s[i] < s[j]

\* The end of sam3_segment_pcs: what scores too little goes before NMS, what
\* is left is numbered from 1.
AboveThreshold(dets, score) ==
    LET enough == InOrder({i \in DOMAIN dets : dets[i].score >= score})
    IN  [k \in DOMAIN enough |-> dets[enough[k]]]

Detections(dets, score, threshold) ==
    LET above == AboveThreshold(dets, score)
        kept  == InOrder(Nms(above, threshold))
    IN  [i \in DOMAIN kept |-> [box |-> above[kept[i]].box, score |-> above[kept[i]].score,
                                instance_id |-> i]]

-----------------------------------------------------------------------------
(* Boxes. *)

Clamp(v, max) == MaxOf2(0, MinOf2(v, max))

\* sam3_cxcywh_to_xyxy: the box in units of 1/(2 * unit) pixels, the arguments
\* in units of 1/unit of the image.
ToCorners(b, img_w, img_h, unit) ==
    <<Clamp((2 * b[1] - b[3]) * img_w, 2 * unit * img_w),
      Clamp((2 * b[2] - b[4]) * img_h, 2 * unit * img_h),
      Clamp((2 * b[1] + b[3]) * img_w, 2 * unit * img_w),
      Clamp((2 * b[2] + b[4]) * img_h, 2 * unit * img_h)>>

\* What the loop over the pixels begins with.
Bounds(mask, w, h) == <<w, h, 0, 0>>

\* The box sam3_segment_pvs reports for a mask.
MaskBox(mask, w, h) ==
    LET grow(p, b) == <<MinOf2(b[1], p[1]), MinOf2(b[2], p[2]),
                        MaxOf2(b[3], p[1]), MaxOf2(b[4], p[2])>>
    IN  FoldSet(grow, Bounds(mask, w, h), mask)

-----------------------------------------------------------------------------
(* Prompts. *)

\* sam3_collect_pvs_prompt_tokens: the label of every token; a box is two.
PromptLabels(use_box, n_pos, n_neg) ==
    (IF use_box THEN <<2, 3>> ELSE <<>>)
      \o [i \in 1 .. n_pos |-> 1] \o [i \in 1 .. n_neg |-> 0] \o <<-1>>

\* sam3_build_sam_pe: the rows of the tensor the labels are embedded into.
TokenCount(use_box, n_pos, n_neg) == n_pos + n_neg + 1 + (IF use_box THEN 2 ELSE 0)

-----------------------------------------------------------------------------
(* What they promise. *)

\* Cleaning up leaves no small hole and no sprinkle, whichever of the two
\* makes the other (a second clean-up changes nothing), and it touches small
\* regions only, those of background inside the image.
Settles(mask, w, h, area) ==
    LET m == Cleaned(mask, w, h, area)
        small(region) == UNION {c \in Components(region) : Cardinality(c) <= area}
    IN  /\ Holes(m, w, h, area) = {} /\ Sprinkles(m, area) = {}
        /\ m \ mask \subseteq {p \in small(Pixels(w, h) \ mask) : ~OnBorder(p, w, h)}
        /\ mask \ m \subseteq small(mask)

\* After resolving, no pixel shows two objects, none is lost, and each one
\* went to the best-scoring detection that had it.
OnePixelOneObject(dets) ==
    LET r == ResolveOverlaps(dets)
    IN  \A i \in DOMAIN dets : \A p \in dets[i].mask :
            \E j \in DOMAIN dets :
                /\ p \in r[j].mask /\ p \in dets[j].mask
                /\ dets[j].score >= dets[i].score
                /\ \A k \in DOMAIN dets \ {j} : p \notin r[k].mask

\* What NMS returns overlaps too little pairwise, everything it drops overlaps
\* a better one it keeps, and the ids of a frame are 1, 2, 3, ...
SuppressesTheRest(dets, score, threshold) ==
    LET kept == Detections(dets, score, threshold)
        overlap(a, b) == Exceeds(BoxIou(a.box, b.box), threshold)
    IN  /\ \A i, j \in DOMAIN kept : i # j => ~overlap(kept[i], kept[j])
        /\ \A i \in DOMAIN dets : dets[i].score >= score =>
               \E j \in DOMAIN kept : /\ kept[j].score >= dets[i].score
                                      /\ kept[j].box = dets[i].box \/ overlap(kept[j], dets[i])
        /\ \A i \in DOMAIN kept : kept[i].instance_id = i /\ kept[i].score >= score

\* Of boxes between pixels, the overlap NMS computes is the one of their masks.
BoxesOverlapAsMasks(a, b) ==
    LET cells(box) == {p \in Pixels(8, 8) : box[1] <= p[1] /\ p[1] < box[3]
                                              /\ box[2] <= p[2] /\ p[2] < box[4]}
    IN  BoxIou(a, b) = MaskIou(cells(a), cells(b))

\* A detected box lies in the image and is not inside out.
BoxInImage(b, img_w, img_h, unit) ==
    LET c == ToCorners(b, img_w, img_h, unit)
    IN  /\ 0 <= c[1] /\ c[1] <= c[3] /\ c[3] <= 2 * unit * img_w
        /\ 0 <= c[2] /\ c[2] <= c[4] /\ c[4] <= 2 * unit * img_h

\* The box of a mask holds it and touches it on four sides.
BoxFits(mask, w, h) ==
    mask # {} =>
        LET b == MaskBox(mask, w, h)
        IN  /\ \A p \in mask : b[1] <= p[1] /\ p[1] <= b[3] /\ b[2] <= p[2] /\ p[2] <= b[4]
            /\ \E p, q \in mask : p[1] = b[1] /\ q[1] = b[3]
            /\ \E p, q \in mask : p[2] = b[2] /\ q[2] = b[4]

\* The prompt tokens fill the tensor made for them, the box first, the padding
\* last.
PromptFillsItsTensor(use_box, n_pos, n_neg) ==
    LET labels == PromptLabels(use_box, n_pos, n_neg)
    IN  /\ Len(labels) = TokenCount(use_box, n_pos, n_neg)
        /\ labels[Len(labels)] = -1
        /\ \A i \in DOMAIN labels : labels[i] \in {2, 3} => use_box /\ i <= 2
=============================================================================
