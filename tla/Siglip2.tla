------------------------------- MODULE Siglip2 -------------------------------
(***************************************************************************)
(* How siglip2 prepares an image (preproc.cpp) and a text (tokenizer.cpp): *)
(* the size whose patches fill a budget, the filter that resizes to it, the *)
(* order of the patches, and the ids a text is cut and padded to.          *)
(*                                                                         *)
(* Scales and filter weights are rationals over a common denominator; the  *)
(* code's doubles may differ from them in a near tie.                      *)
(***************************************************************************)
EXTENDS Integers, Sequences, FiniteSets, FiniteSetsExt

\* Quotients rounded down and up, of any numerator (b > 0).
Floor(a, b) == a \div b
Ceil(a, b)  == -((-a) \div b)

-----------------------------------------------------------------------------
(* compute_target_size: bisection for the largest scale whose patches fit.  *)
(* A scale is a number of units, `unit' of them to 1; the code's bounds are *)
(* `low' = 1e-6, `high' = 100 and `eps' = 1e-5.                             *)

ScaledSize(scale, unit, size, patch) ==
    Max({patch, Ceil(size * scale, unit * patch) * patch})

PatchesAt(scale, unit, height, width, patch) ==
    (ScaledSize(scale, unit, height, patch) \div patch)
        * (ScaledSize(scale, unit, width, patch) \div patch)

\* The interval [lo, hi] the search ends with, in at most that many rounds.
Bisection(b, height, width, patch, budget, rounds) ==
    LET at[k \in 0 .. rounds] ==
            IF k = 0 THEN [lo |-> b.low, hi |-> b.high]
            ELSE LET i   == at[k - 1]
                     mid == (i.lo + i.hi) \div 2
                 IN  IF i.hi - i.lo < b.eps THEN i
                     ELSE IF PatchesAt(mid, b.unit, height, width, patch) <= budget
                          THEN [i EXCEPT !.lo = mid]
                          ELSE [i EXCEPT !.hi = mid]
    IN  at[rounds]

TargetSize(b, height, width, patch, budget, rounds) ==
    LET scale == Bisection(b, height, width, patch, budget, rounds).lo
    IN  [h |-> ScaledSize(scale, b.unit, height, patch),
         w |-> ScaledSize(scale, b.unit, width, patch)]

-----------------------------------------------------------------------------
(* build_aa_filter, in units of 1 / (2 * dst).                             *)
Center(i, src, dst) == (2 * i + 1) * src - dst
Radius(src, dst)    == 2 * Max({src, dst})

MaxTaps(src, dst)       == Ceil(2 * Radius(src, dst), 2 * dst) + 2
FirstTap(i, src, dst)   == Ceil(Center(i, src, dst) - Radius(src, dst), 2 * dst)
LastTap(i, src, dst)    == Floor(Center(i, src, dst) + Radius(src, dst), 2 * dst)

\* What source pixel k gives to pixel i, before weights are made to add up to 1;
\* a whole weight is Radius.
Weight(k, i, src, dst) ==
    LET d == 2 * dst * k - Center(i, src, dst)
    IN  Max({0, Radius(src, dst) - (IF d < 0 THEN -d ELSE d)})

TotalWeight(i, src, dst) ==
    MapThenSumSet(LAMBDA k : Weight(k, i, src, dst), FirstTap(i, src, dst) .. LastTap(i, src, dst))

\* resize_bilinear_u8 reads pixels beyond the border as the border's.
Source(k, src) == Max({0, Min({k, src - 1})})

-----------------------------------------------------------------------------
(* rescale_normalize_patchify: the pixel of each place of the output.      *)
Patchified(height, width, patch) ==
    LET n_w == width \div patch
    IN  [o \in 0 .. ((height \div patch) * n_w * patch * patch - 1) |->
            LET p   == o \div (patch * patch)
                off == o % (patch * patch)
            IN  <<(p % n_w) * patch + (off % patch), (p \div n_w) * patch + (off \div patch)>>]

-----------------------------------------------------------------------------
(* Tokenizer::encode, after sentencepiece.                                 *)
NoEos == -1

Encode(pieces, eos, pad, max_length) ==
    LET ids == IF eos = NoEos THEN pieces ELSE Append(pieces, eos)
        kept == Min({Len(ids), max_length})
    IN  IF max_length <= 0
        THEN [ids |-> ids, mask |-> [i \in 1 .. Len(ids) |-> 1]]
        ELSE [ids  |-> [i \in 1 .. max_length |->
                          IF i = max_length /\ eos # NoEos /\ Len(ids) > max_length THEN eos
                          ELSE IF i <= kept THEN ids[i] ELSE pad],
              mask |-> [i \in 1 .. max_length |-> IF i <= kept THEN 1 ELSE 0]]

-----------------------------------------------------------------------------
(* What they promise. *)

\* The patches are within the budget, whatever the image's shape; and any scale
\* larger by eps would exceed it, unless that is beyond the largest tried.
BudgetIsUsed(b, height, width, patch, budget, rounds) ==
    LET i == Bisection(b, height, width, patch, budget, rounds)
        t == TargetSize(b, height, width, patch, budget, rounds)
    IN  /\ i.hi - i.lo < b.eps
        /\ t.h % patch = 0 /\ t.w % patch = 0 /\ t.h > 0 /\ t.w > 0
        /\ (t.h \div patch) * (t.w \div patch) <= budget
        /\ \A s \in (i.lo + b.eps) .. (b.high - 1) :
              PatchesAt(s, b.unit, height, width, patch) > budget

\* What source pixel k gives to all the pixels of a row together.
CountedWeight(k, src, dst) == MapThenSumSet(LAMBDA i : Weight(k, i, src, dst), 0 .. (dst - 1))

\* A filter's taps fit into the row reserved for them, its weights do not add up
\* to 0, it reads the image mirrored as it mirrors the image; and shrinking, each
\* source pixel between the first and the last centre counts as much as another.
FilterIsFair(src, dst) ==
    /\ \A i \in 0 .. (dst - 1) :
         /\ LastTap(i, src, dst) - FirstTap(i, src, dst) + 1 \in 1 .. MaxTaps(src, dst)
         /\ TotalWeight(i, src, dst) > 0
         /\ \A k \in FirstTap(i, src, dst) .. LastTap(i, src, dst) :
              /\ Source(k, src) \in 0 .. (src - 1)
              /\ Weight(src - 1 - k, dst - 1 - i, src, dst) = Weight(k, i, src, dst)
              /\ src - 1 - k \in FirstTap(dst - 1 - i, src, dst) .. LastTap(dst - 1 - i, src, dst)
    /\ src >= dst =>
         \A k \in 0 .. (src - 1) :
            2 * dst * k \in Center(0, src, dst) .. Center(dst - 1, src, dst) =>
               CountedWeight(k, src, dst) = Radius(src, dst)

\* Every pixel is in one place, and the places of a patch are a square.
PatchesAreSquares(rows, columns, patch) ==
    LET at == Patchified(rows * patch, columns * patch, patch)
    IN  /\ {at[o] : o \in DOMAIN at} = (0 .. (columns * patch - 1)) \X (0 .. (rows * patch - 1))
        /\ \A o, u \in DOMAIN at :
              /\ at[o] = at[u] => o = u
              /\ o \div (patch * patch) = u \div (patch * patch) =>
                   \A d \in 1 .. 2 : at[o][d] \div patch = at[u][d] \div patch

\* Whatever its length, a text is cut or padded to the length asked for, begins
\* with its own pieces, and ends with the end token unless there is none.
TextIsEnded(pieces, eos, pad, max_length) ==
    LET out  == Encode(pieces, eos, pad, max_length)
        real == {i \in DOMAIN out.mask : out.mask[i] = 1}
        n    == Cardinality(real)
    IN  /\ max_length > 0 => Len(out.ids) = max_length /\ Len(out.mask) = max_length
        /\ real = 1 .. n
        /\ eos # NoEos /\ n > 0 => out.ids[n] = eos
        /\ \A i \in 1 .. n : i < n \/ eos = NoEos => out.ids[i] = pieces[i]
        /\ \A i \in DOMAIN out.ids \ real : out.ids[i] = pad
=============================================================================
