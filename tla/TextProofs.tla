----------------------------- MODULE TextProofs -----------------------------
(***************************************************************************)
(* Proofs about the pure functions of MCAlgorithms that handle texts, for  *)
(* texts, words, merges and contexts of any length: the context of the     *)
(* text encoder, the characters of bytes, the words of a text, byte-pair   *)
(* encoding.                                                               *)
(*                                                                         *)
(* What the loops of the tokenizer compute from a position on is written   *)
(* from the end (ForwardExists says that it is defined), and proved about  *)
(* from the end, by the search for the last counterexample (Backward).     *)
(* The words of a text are followed from boundary to boundary of its       *)
(* characters.  Rounds of merges come to an end because each makes the     *)
(* parts of the word fewer.                                                *)
(***************************************************************************)
EXTENDS ImageProofs

-----------------------------------------------------------------------------
(* The context of the text encoder, and the texts of siglip2. *)

\* A context keeps the ids as far as they fit, and what stands where
\* (sam3_tokenize).
LEMMA ContextHolds ==
  ASSUME NEW ids \in Seq(Int), NEW ctx_len \in Nat, ctx_len >= 2
  PROVE  /\ Len(T!Framed(ids, ctx_len)) = ctx_len
         /\ DOMAIN T!Framed(ids, ctx_len) = 1 .. ctx_len
         /\ \A i \in 1 .. ctx_len : T!Framed(ids, ctx_len)[i] =
              IF i = 1 THEN T!SOT
              ELSE IF i = ctx_len /\ Len(ids) + 2 > ctx_len THEN T!EOT
              ELSE IF i <= Len(ids) + 1 THEN ids[i - 1]
              ELSE IF i = Len(ids) + 2 THEN T!EOT ELSE 0
<1> DEFINE all == <<T!SOT>> \o ids \o <<T!EOT>>
           pad == [i \in 1 .. (ctx_len - Len(all)) |-> 0]
           cut == SubSeq(all, 1, ctx_len - 1)
<1>1. T!SOT \in Int /\ T!EOT \in Int /\ T!SOT # T!EOT
  BY DEF T!SOT, T!EOT
<1>2. /\ all \in Seq(Int) /\ Len(all) = Len(ids) + 2 /\ Len(ids) \in Nat
      /\ \A i \in 1 .. (Len(ids) + 2) : all[i] = IF i = 1 THEN T!SOT
                                                  ELSE IF i <= Len(ids) + 1 THEN ids[i - 1]
                                                  ELSE T!EOT
  <2>1. /\ <<T!SOT>> \in Seq(Int) /\ Len(<<T!SOT>>) = 1 /\ <<T!SOT>>[1] = T!SOT
        /\ <<T!EOT>> \in Seq(Int) /\ Len(<<T!EOT>>) = 1 /\ <<T!EOT>>[1] = T!EOT
    BY <1>1
  <2> DEFINE b == <<T!SOT>> e == <<T!EOT>>
  <2> HIDE DEF b, e
  <2>2. /\ b \in Seq(Int) /\ Len(b) = 1 /\ b[1] = T!SOT
        /\ e \in Seq(Int) /\ Len(e) = 1 /\ e[1] = T!EOT
        /\ all = (b \o ids) \o e
    BY <2>1 DEF b, e
  <2> HIDE DEF all
  <2>3. /\ b \o ids \in Seq(Int) /\ Len(b \o ids) = Len(b) + Len(ids)
        /\ \A i \in 1 .. (Len(b) + Len(ids)) :
             (b \o ids)[i] = IF i <= Len(b) THEN b[i] ELSE ids[i - Len(b)]
    BY <2>2, ConcatProperties
  <2>5. Len(ids) \in Nat
    BY <2>2
  <2> DEFINE c == b \o ids
  <2> HIDE DEF c
  <2>4. /\ c \o e \in Seq(Int) /\ Len(c \o e) = Len(c) + Len(e)
        /\ \A i \in 1 .. (Len(c) + Len(e)) : (c \o e)[i] = IF i <= Len(c) THEN c[i] ELSE e[i - Len(c)]
    BY <2>2, <2>3, ConcatProperties DEF c
  <2>6. Len(c) = 1 + Len(ids) /\ Len(all) = Len(ids) + 2 /\ all \in Seq(Int)
    BY <2>2, <2>3, <2>4, <2>5 DEF c
  <2>7. ASSUME NEW i \in 1 .. (Len(ids) + 2)
        PROVE  all[i] = IF i = 1 THEN T!SOT ELSE IF i <= Len(ids) + 1 THEN ids[i - 1] ELSE T!EOT
    <3>1. i \in 1 .. (Len(c) + Len(e)) /\ all[i] = IF i <= Len(c) THEN c[i] ELSE e[i - Len(c)]
      BY <2>2, <2>4, <2>5, <2>6 DEF c
    <3>2. i <= Len(c) => c[i] = IF i <= Len(b) THEN b[i] ELSE ids[i - Len(b)]
      BY <2>2, <2>3, <2>5, <2>6 DEF c
    <3> QED
      BY <2>2, <2>5, <2>6, <3>1, <3>2
  <2> QED
    BY <2>5, <2>6, <2>7
<1> HIDE DEF all
<1>3. T!Framed(ids, ctx_len) = IF Len(all) > ctx_len THEN Append(cut, T!EOT) ELSE all \o pad
  BY DEF T!Framed, T!Fit, all, cut, pad
<1>4. CASE Len(all) > ctx_len
  <2>0. \A i \in 1 .. (ctx_len - 1) : all[i] \in Int
    BY <1>2, <1>4, ElementOfSeq
  <2>1. /\ cut \in Seq(Int) /\ Len(cut) = ctx_len - 1
        /\ \A i \in 1 .. (ctx_len - 1) : cut[i] = all[i]
    BY <2>0
  <2> HIDE DEF cut
  <2>2. /\ Len(Append(cut, T!EOT)) = ctx_len
        /\ \A i \in 1 .. (ctx_len - 1) : Append(cut, T!EOT)[i] = cut[i]
        /\ Append(cut, T!EOT)[ctx_len] = T!EOT
        /\ Append(cut, T!EOT) \in Seq(Int)
    BY <1>1, <2>1, AppendProperties
  <2>3. DOMAIN Append(cut, T!EOT) = 1 .. ctx_len
    BY <2>2
  <2> DEFINE context == T!Framed(ids, ctx_len)
  <2>4. context = Append(cut, T!EOT)
    BY <1>3, <1>4
  <2> HIDE DEF context
  <2>5. ASSUME NEW i \in 1 .. ctx_len
        PROVE  context[i] = IF i = ctx_len THEN T!EOT ELSE all[i]
    BY <2>1, <2>2, <2>4
  <2>6. ASSUME NEW i \in 1 .. ctx_len
        PROVE  context[i] = IF i = 1 THEN T!SOT
                            ELSE IF i = ctx_len /\ Len(ids) + 2 > ctx_len THEN T!EOT
                            ELSE IF i <= Len(ids) + 1 THEN ids[i - 1]
                            ELSE IF i = Len(ids) + 2 THEN T!EOT ELSE 0
    <3>1. i < ctx_len => i \in 1 .. (Len(ids) + 2) /\ i <= Len(ids) + 1
      BY <1>2, <1>4
    <3>2. i < ctx_len => context[i] = IF i = 1 THEN T!SOT ELSE ids[i - 1]
      BY <1>2, <2>5, <3>1, SMTT(30)
    <3>3. i = ctx_len => context[i] = T!EOT /\ i # 1 /\ Len(ids) + 2 > ctx_len
      BY <1>2, <1>4, <2>5
    <3> QED
      BY <3>1, <3>2, <3>3
  <2> QED
    BY <2>2, <2>3, <2>4, <2>6 DEF context
<1>5. CASE Len(all) <= ctx_len
  <2>1. pad \in Seq(Int) /\ Len(pad) = ctx_len - Len(all)
        /\ \A i \in 1 .. (ctx_len - Len(all)) : pad[i] = 0
    BY <1>2, <1>5
  <2> HIDE DEF pad
  <2>2. /\ all \o pad \in Seq(Int) /\ Len(all \o pad) = Len(all) + Len(pad)
        /\ \A i \in 1 .. (Len(all) + Len(pad)) :
             (all \o pad)[i] = IF i <= Len(all) THEN all[i] ELSE pad[i - Len(all)]
    BY <1>2, <2>1, ConcatProperties
  <2>3. Len(all \o pad) = ctx_len /\ DOMAIN (all \o pad) = 1 .. ctx_len
    BY <1>2, <2>1, <2>2
  <2>4. \A i \in 1 .. ctx_len : i > Len(all) => (all \o pad)[i] = 0
    BY <1>2, <2>1, <2>2
  <2> DEFINE context == T!Framed(ids, ctx_len)
  <2>5. context = all \o pad
    BY <1>2, <1>3, <1>5
  <2> HIDE DEF context
  <2>6. ASSUME NEW i \in 1 .. ctx_len
        PROVE  context[i] = IF i = 1 THEN T!SOT
                            ELSE IF i = ctx_len /\ Len(ids) + 2 > ctx_len THEN T!EOT
                            ELSE IF i <= Len(ids) + 1 THEN ids[i - 1]
                            ELSE IF i = Len(ids) + 2 THEN T!EOT ELSE 0
    <3>1. i <= Len(all) => context[i] = all[i] /\ i \in 1 .. (Len(ids) + 2)
      BY <1>2, <1>5, <2>1, <2>2, <2>5
    <3>2. i > Len(all) => context[i] = 0
      BY <2>4, <2>5
    <3> QED
      BY <1>2, <1>5, <3>1, <3>2, SMTT(30)
  <2> QED
    BY <2>3, <2>5, <2>6 DEF context
<1> QED
  BY <1>2, <1>4, <1>5

\* The places of the tokens the vocabulary has, and how many of them are among
\* the first n.
KnownAt(tokens, encoder) == {i \in 1 .. Len(tokens) : tokens[i] \in DOMAIN encoder}
Rank(tokens, encoder, n) == Cardinality(KnownAt(tokens, encoder) \cap (1 .. n))

\* One more token is one more of them, or none.
LEMMA RankIs ==
  ASSUME NEW tokens, Len(tokens) \in Nat, NEW encoder
  PROVE  /\ Rank(tokens, encoder, 0) = 0
         /\ \A n \in 0 .. Len(tokens) : Rank(tokens, encoder, n) \in Nat
         /\ \A n \in 1 .. Len(tokens) : Rank(tokens, encoder, n) =
              IF n \in KnownAt(tokens, encoder) THEN Rank(tokens, encoder, n - 1) + 1
              ELSE Rank(tokens, encoder, n - 1)
<1> DEFINE K == KnownAt(tokens, encoder)
           upto(n) == K \cap (1 .. n)
<1>1. \A n \in Int : IsFiniteSet(upto(n)) /\ Cardinality(upto(n)) \in Nat
  <2> SUFFICES ASSUME NEW n \in Int PROVE IsFiniteSet(upto(n)) /\ Cardinality(upto(n)) \in Nat
    OBVIOUS
  <2>1. IsFiniteSet(1 .. n) /\ upto(n) \in SUBSET (1 .. n)
    BY FS_Interval, SMTT(30)
  <2> QED
    BY <2>1, FS_Subset, FS_CardinalityType
<1>2. Cardinality(upto(0)) = 0
  <2>1. upto(0) = {}
    OBVIOUS
  <2> QED
    BY <2>1, FS_EmptySet
<1>3. ASSUME NEW n \in 1 .. Len(tokens)
      PROVE  Cardinality(upto(n)) = IF n \in K THEN Cardinality(upto(n - 1)) + 1
                                    ELSE Cardinality(upto(n - 1))
  <2>1. n \notin upto(n - 1) /\ n - 1 \in Int
    OBVIOUS
  <2>2. CASE n \in K
    <3>1. upto(n) = upto(n - 1) \cup {n}
      BY <2>2
    <3> HIDE DEF upto
    <3> QED
      BY <1>1, <2>1, <2>2, <3>1, FS_AddElement
  <2>3. CASE n \notin K
    <3>1. upto(n) = upto(n - 1)
      BY <2>3
    <3> QED
      BY <2>3, <3>1
  <2> QED
    BY <2>2, <2>3
<1>4. \A n : Rank(tokens, encoder, n) = Cardinality(upto(n))
  BY DEF Rank
<1> HIDE DEF upto
<1> QED
  BY <1>1, <1>2, <1>3, <1>4

\* These are the ids of the known ones of the first n tokens.
Takes(ids, tokens, encoder, n) ==
    /\ ids \in Seq(Int) /\ Len(ids) = Rank(tokens, encoder, n)
    /\ \A i \in KnownAt(tokens, encoder) : i <= n =>
         /\ Rank(tokens, encoder, i) \in 1 .. Len(ids)
         /\ ids[Rank(tokens, encoder, i)] = encoder[tokens[i]]
    /\ \A k \in 1 .. Len(ids) :
         \E i \in KnownAt(tokens, encoder) : i <= n /\ Rank(tokens, encoder, i) = k

\* The loop takes the next token if it is known.
TakeNext(ids, tokens, encoder, n) ==
    IF tokens[n] \in DOMAIN encoder THEN Append(ids, encoder[tokens[n]]) ELSE ids

LEMMA TakesOneMore ==
  ASSUME NEW tokens, Len(tokens) \in Nat, NEW encoder,
         \A t \in DOMAIN encoder : encoder[t] \in Int,
         NEW n \in 1 .. Len(tokens), NEW ids, Takes(ids, tokens, encoder, n - 1)
  PROVE  Takes(TakeNext(ids, tokens, encoder, n), tokens, encoder, n)
<1> DEFINE K == KnownAt(tokens, encoder)
           R(i) == Rank(tokens, encoder, i)
           m == Len(ids)
           next == TakeNext(ids, tokens, encoder, n)
<1>1. /\ K \subseteq 1 .. Len(tokens) /\ R(n) \in Nat /\ R(n - 1) \in Nat
      /\ R(n) = IF n \in K THEN R(n - 1) + 1 ELSE R(n - 1)
      /\ n \in K <=> tokens[n] \in DOMAIN encoder
  <2>1. n \in 0 .. Len(tokens) /\ n - 1 \in 0 .. Len(tokens)
    OBVIOUS
  <2> QED
    BY <2>1, RankIs DEF KnownAt
<1>2. /\ ids \in Seq(Int) /\ m = R(n - 1) /\ m \in Nat
      /\ \A i \in K : i <= n - 1 => R(i) \in 1 .. m /\ ids[R(i)] = encoder[tokens[i]]
      /\ \A k \in 1 .. m : \E i \in K : i <= n - 1 /\ R(i) = k
  BY DEF Takes
<1> HIDE DEF K, R
<1>3. CASE n \in K
  <2> DEFINE e == encoder[tokens[n]]
  <2>1. next = Append(ids, e) /\ e \in Int
    BY <1>1, <1>3 DEF TakeNext
  <2> HIDE DEF e, next
  <2>2. /\ next \in Seq(Int) /\ Len(next) = m + 1 /\ next[m + 1] = e
        /\ \A k \in 1 .. m : next[k] = ids[k]
    BY <1>2, <2>1, AppendProperties
  <2>3. R(n) = m + 1
    BY <1>1, <1>2, <1>3
  <2>4. ASSUME NEW i \in K, i <= n
        PROVE  R(i) \in 1 .. Len(next) /\ next[R(i)] = encoder[tokens[i]]
    <3>1. CASE i = n
      BY <1>2, <2>2, <2>3, <3>1 DEF e
    <3>2. CASE i # n
      <4>1. i <= n - 1
        BY <1>1, <2>4, <3>2
      <4>2. R(i) \in 1 .. m /\ ids[R(i)] = encoder[tokens[i]]
        BY <1>2, <4>1
      <4> QED
        BY <1>2, <2>2, <4>2
    <3> QED
      BY <3>1, <3>2
  <2>5. ASSUME NEW k \in 1 .. Len(next) PROVE \E i \in K : i <= n /\ R(i) = k
    <3>1. CASE k = m + 1
      BY <1>3, <2>3, <3>1
    <3>2. CASE k # m + 1
      <4>1. k \in 1 .. m
        BY <1>2, <2>2, <3>2
      <4>2. PICK i \in K : i <= n - 1 /\ R(i) = k
        BY <1>2, <4>1
      <4>3. i <= n
        BY <1>1, <4>2
      <4> QED
        BY <4>2, <4>3
    <3> QED
      BY <3>1, <3>2
  <2> QED
    BY <2>2, <2>3, <2>4, <2>5 DEF Takes, K, R, next
<1>4. CASE n \notin K
  <2>1. next = ids
    BY <1>1, <1>4 DEF TakeNext
  <2>2. R(n) = m
    BY <1>1, <1>2, <1>4
  <2>3. \A i \in K : i <= n => i <= n - 1
    BY <1>1, <1>4
  <2>4. \A i \in K : i <= n - 1 => i <= n
    BY <1>1
  <2> HIDE DEF next
  <2> QED
    BY <1>2, <2>1, <2>2, <2>3, <2>4 DEF Takes, K, R, next
<1> QED
  BY <1>3, <1>4

\* The ids are those of the known tokens, in their order.
LEMMA KnownIdsAre ==
  ASSUME NEW tokens, Len(tokens) \in Nat, NEW encoder,
         \A t \in DOMAIN encoder : encoder[t] \in Int
  PROVE  Takes(T!KnownIds(tokens, encoder), tokens, encoder, Len(tokens))
<1> DEFINE E == Seq(Int)
           n == Len(tokens)
           turn(k, d) == IF tokens[k] \in DOMAIN encoder THEN Append(d, encoder[tokens[k]]) ELSE d
           D == [k \in 0 .. n |-> E]
           step == [k \in 1 .. n |-> [d \in E |-> turn(k, d)]]
           body(g, k) == IF k = 0 THEN <<>> ELSE turn(k, g[k - 1])
           ids == CHOOSE g : g = [k \in 0 .. n |-> body(g, k)]
<1>1. n \in Nat
  OBVIOUS
<1>2. \A k \in 1 .. n : \A d \in E : turn(k, d) \in E
  <2> SUFFICES ASSUME NEW k \in 1 .. n, NEW d \in E PROVE turn(k, d) \in E
    OBVIOUS
  <2>1. tokens[k] \in DOMAIN encoder => Append(d, encoder[tokens[k]]) \in E
    BY AppendProperties
  <2> QED
    BY <2>1
<1>3. D \in [0 .. n -> SUBSET E] /\ <<>> \in D[0] /\ <<>> \in E
  <2>1. <<>> \in E
    BY EmptySeq
  <2> HIDE DEF E
  <2> QED
    BY <1>1, <2>1
<1> HIDE DEF turn, E
<1>4. step \in [1 .. n -> [E -> E]] /\ \A k \in 1 .. n : \A d \in E : step[k][d] = turn(k, d)
  BY <1>2
<1>5. \A k \in 0 .. n : D[k] = E
  OBVIOUS
<1> HIDE DEF D, step
<1>6. Leads(step, n, D)
  <2>1. \A k \in 1 .. n : D[k - 1] = E /\ D[k] = E
    BY <1>1, <1>5
  <2> QED
    BY <1>2, <1>4, <2>1 DEF Leads
<1> DEFINE a == <<>>
<1>7. a \in D[0]
  BY <1>3
<1> HIDE DEF n, a
<1>8. \E f \in [0 .. n -> E] : Iterates(f, a, step, n, D)
  BY <1>1, <1>3, <1>4, <1>6, <1>7, IterationExists
<1>9. PICK f \in [0 .. n -> E] : Iterates(f, a, step, n, D)
  BY <1>8
<1>10. f[0] = a /\ \A k \in 1 .. n : f[k] = turn(k, f[k - 1])
  <2> SUFFICES ASSUME NEW k \in 1 .. n PROVE f[k] = turn(k, f[k - 1])
    BY <1>9 DEF Iterates
  <2>1. k - 1 \in 0 .. n
    BY <1>1
  <2>2. f[k - 1] \in E
    BY <1>9, <2>1
  <2> QED
    BY <1>4, <1>9, <2>2 DEF Iterates
<1>11. \A k \in 0 .. n : f[k] = body(f, k)
  <2> SUFFICES ASSUME NEW k \in 0 .. n PROVE f[k] = body(f, k)
    OBVIOUS
  <2>1. k # 0 => k \in 1 .. n
    BY <1>1
  <2> QED
    BY <1>10, <2>1 DEF a
<1>12. f = [k \in 0 .. n |-> body(f, k)]
  <2> DEFINE h == [k \in 0 .. n |-> body(f, k)]
  <2>1. \A k \in 0 .. n : f[k] = h[k]
    BY <1>11
  <2> HIDE DEF body
  <2> QED
    BY <2>1
<1> HIDE DEF body
<1>13. ids = [k \in 0 .. n |-> body(ids, k)]
  BY <1>12
<1>14. \A k \in 0 .. n : ids[k] = body(ids, k)
  BY <1>13
<1>15. T!KnownIds(tokens, encoder) = ids[n]
  BY DEF T!KnownIds, turn, body, n
<1> HIDE DEF ids
<1>16. ids[0] = <<>> /\ \A k \in 1 .. n : ids[k] = turn(k, ids[k - 1])
  <2>1. 0 \in 0 .. n /\ \A k \in 1 .. n : k \in 0 .. n /\ k # 0
    BY <1>1
  <2> QED
    BY <1>14, <2>1 DEF body
<1> DEFINE Good(k) == Takes(ids[k], tokens, encoder, k)
<1>17. Good(0)
  <2>1. KnownAt(tokens, encoder) \subseteq 1 .. n /\ Rank(tokens, encoder, 0) = 0
    BY <1>1, RankIs DEF KnownAt, n
  <2> DEFINE e == <<>>
  <2>2. e \in Seq(Int) /\ Len(e) = 0
    BY EmptySeq
  <2> HIDE DEF e
  <2>3. Takes(e, tokens, encoder, 0)
    BY <2>1, <2>2 DEF Takes
  <2> QED
    BY <1>16, <2>3 DEF e
<1>18. ASSUME NEW k \in 1 .. n, Good(k - 1) PROVE Good(k)
  <2> DEFINE d == ids[k - 1]
  <2>1. Takes(d, tokens, encoder, k - 1) /\ k \in 1 .. Len(tokens)
    BY <1>18 DEF n
  <2> HIDE DEF d
  <2>2. Takes(TakeNext(d, tokens, encoder, k), tokens, encoder, k)
    BY <2>1, TakesOneMore
  <2>3. ids[k] = TakeNext(d, tokens, encoder, k)
    BY <1>16 DEF turn, TakeNext, d
  <2> QED
    BY <2>2, <2>3
<1> HIDE DEF Good
<1>19. \A k \in 0 .. n : Good(k)
  <2> DEFINE Z == {k \in Nat : k \in 0 .. n /\ ~Good(k)}
  <2>1. ASSUME Z # {} PROVE FALSE
    <3>1. PICK k \in Z : \A j \in Z : k <= j
      BY <2>1, LeastNat
    <3>2. k \in 1 .. n
      BY <1>1, <1>17, <3>1
    <3>3. k - 1 \in Nat /\ k - 1 \in 0 .. n /\ ~(k <= k - 1)
      BY <1>1, <3>2
    <3>4. Good(k - 1)
      BY <3>1, <3>3
    <3> QED
      BY <1>18, <3>1, <3>2, <3>4
  <2> QED
    BY <1>1, <2>1
<1>20. Good(n)
  BY <1>1, <1>19
<1> QED
  BY <1>15, <1>20 DEF Good, n

\* The context of known and unknown tokens is framed, and holds the known ones
\* that have room in it, in their order.
LEMMA ContextFrames ==
  ASSUME NEW tokens, Len(tokens) \in Nat, DOMAIN tokens = 1 .. Len(tokens), NEW encoder,
         \A t \in DOMAIN encoder : encoder[t] \in Int /\ encoder[t] # T!EOT,
         NEW ctx_len \in Nat, ctx_len >= 2
  PROVE  T!ContextIsFramed(T!Framed(T!KnownIds(tokens, encoder), ctx_len), tokens, encoder, ctx_len)
<1> DEFINE ids == T!KnownIds(tokens, encoder)
           K == KnownAt(tokens, encoder)
           n == Len(tokens)
           R(i) == Rank(tokens, encoder, i)
           c == T!Framed(ids, ctx_len)
           m == Len(ids)
           last == IF m + 2 <= ctx_len THEN m + 2 ELSE ctx_len
           kept == {i \in K : R(i) + 1 < last}
           zeros == {R(i) + 1 : i \in {k \in kept : encoder[tokens[k]] = 0}}
<1>1. Takes(ids, tokens, encoder, n)
  BY KnownIdsAre
<1> HIDE DEF ids
<1>2. /\ ids \in Seq(Int) /\ m \in Nat /\ m = R(n) /\ K \subseteq 1 .. n
      /\ \A i \in K : R(i) \in 1 .. m /\ ids[R(i)] = encoder[tokens[i]]
      /\ \A k \in 1 .. m : \E i \in K : R(i) = k
  <2>1. \A i \in K : i <= n
    BY DEF KnownAt
  <2> QED
    BY <1>1, <2>1 DEF Takes, KnownAt
<1>3. /\ Len(c) = ctx_len /\ DOMAIN c = 1 .. ctx_len
      /\ \A i \in 1 .. ctx_len : c[i] =
              IF i = 1 THEN T!SOT
              ELSE IF i = ctx_len /\ m + 2 > ctx_len THEN T!EOT
              ELSE IF i <= m + 1 THEN ids[i - 1]
              ELSE IF i = m + 2 THEN T!EOT ELSE 0
  BY <1>2, ContextHolds
<1>4. T!SOT # T!EOT /\ T!EOT # 0 /\ T!SOT # 0
  BY DEF T!SOT, T!EOT
<1>5. \A k \in 1 .. m : ids[k] # T!EOT /\ ids[k] \in Int
  <2> SUFFICES ASSUME NEW k \in 1 .. m PROVE ids[k] # T!EOT /\ ids[k] \in Int
    OBVIOUS
  <2>1. PICK i \in K : R(i) = k
    BY <1>2
  <2>2. ids[k] = encoder[tokens[i]] /\ tokens[i] \in DOMAIN encoder
    BY <1>2, <2>1 DEF KnownAt
  <2> QED
    BY <2>2
<1>k. \A i \in K : tokens[i] \in DOMAIN encoder
  BY DEF KnownAt
<1> HIDE DEF c, K, R, m
<1>m. m \in Nat
  BY <1>2
<1>6. last \in 2 .. ctx_len /\ last <= m + 2
  BY <1>m
<1>7. ASSUME NEW i \in 1 .. ctx_len PROVE c[i] = T!EOT <=> i = last
  <2>1. c[i] = IF i = 1 THEN T!SOT
               ELSE IF i = ctx_len /\ m + 2 > ctx_len THEN T!EOT
               ELSE IF i <= m + 1 THEN ids[i - 1]
               ELSE IF i = m + 2 THEN T!EOT ELSE 0
    BY <1>3
  <2>2. CASE i = 1
    BY <1>4, <1>6, <2>1, <2>2
  <2>3. CASE i # 1 /\ i < last
    <3>1. i - 1 \in 1 .. m /\ c[i] = ids[i - 1]
      BY <1>m, <2>1, <2>3
    <3>2. ids[i - 1] # T!EOT
      BY <1>5, <3>1
    <3> QED
      BY <2>3, <3>1, <3>2
  <2>4. CASE i # 1 /\ i = last
    BY <1>m, <2>1, <2>4
  <2>5. CASE i # 1 /\ i > last
    <3>1. c[i] = 0
      BY <1>m, <2>1, <2>5
    <3> QED
      BY <1>4, <2>5, <3>1
  <2> QED
    BY <1>6, <2>2, <2>3, <2>4, <2>5
<1>8. ASSUME NEW i \in 2 .. (last - 1)
      PROVE  i - 1 \in 1 .. m /\ c[i] = ids[i - 1] /\ i \in 1 .. ctx_len
  <2>1. i \in 1 .. ctx_len
    BY <1>6
  <2>2. c[i] = IF i = 1 THEN T!SOT
               ELSE IF i = ctx_len /\ m + 2 > ctx_len THEN T!EOT
               ELSE IF i <= m + 1 THEN ids[i - 1]
               ELSE IF i = m + 2 THEN T!EOT ELSE 0
    BY <1>3, <2>1
  <2> QED
    BY <1>m, <2>1, <2>2
<1>9. ASSUME NEW i \in kept PROVE c[R(i) + 1] = encoder[tokens[i]] /\ R(i) + 1 \in 2 .. (last - 1)
  <2>1. i \in K /\ R(i) \in 1 .. m /\ ids[R(i)] = encoder[tokens[i]] /\ R(i) + 1 < last
    BY <1>2, <1>9
  <2>a. R(i) \in Int /\ R(i) >= 1 /\ R(i) + 1 < last
    BY <1>m, <2>1
  <2> HIDE DEF last, kept
  <2>2. R(i) + 1 \in 2 .. (last - 1) /\ (R(i) + 1) - 1 = R(i)
    BY <1>6, <2>a
  <2>3. c[R(i) + 1] = ids[(R(i) + 1) - 1]
    BY <1>8, <2>2
  <2> QED
    BY <2>1, <2>2, <2>3
<1>10. {i \in 1 .. ctx_len : c[i] = 0} = zeros \cup ((last + 1) .. ctx_len)
  <2>1. ASSUME NEW i \in 1 .. ctx_len, c[i] = 0 PROVE i \in zeros \/ i \in (last + 1) .. ctx_len
    <3>1. CASE i > last
      BY <1>6, <3>1
    <3>2. CASE i <= last
      <4>1. i # 1 /\ i # last
        BY <1>3, <1>4, <1>7, <2>1
      <4>2. i \in 2 .. (last - 1)
        BY <1>6, <3>2, <4>1
      <4>3. i - 1 \in 1 .. m /\ ids[i - 1] = 0
        BY <1>8, <2>1, <4>2
      <4>4. PICK k \in K : R(k) = i - 1
        BY <1>2, <4>3
      <4>5. encoder[tokens[k]] = 0 /\ R(k) + 1 = i /\ k \in kept
        BY <1>2, <4>2, <4>3, <4>4
      <4> QED
        BY <4>5
    <3> QED
      BY <1>6, <3>1, <3>2
  <2>2. ASSUME NEW i \in (last + 1) .. ctx_len PROVE i \in 1 .. ctx_len /\ c[i] = 0
    BY <1>2, <1>3, <1>6
  <2>3. ASSUME NEW i \in zeros PROVE i \in 1 .. ctx_len /\ c[i] = 0
    <3>1. PICK k \in kept : encoder[tokens[k]] = 0 /\ i = R(k) + 1
      BY <2>3
    <3>2. c[i] = 0 /\ i \in 2 .. (last - 1)
      BY <1>9, <3>1
    <3> QED
      BY <1>8, <3>2
  <2> HIDE DEF zeros
  <2> QED
    BY <2>1, <2>2, <2>3
<1>11. c[1] = T!SOT
  BY <1>3, <1>6
<1>12. T!ContextIsFramed(c, tokens, encoder, ctx_len) <=>
         /\ Len(c) = ctx_len /\ c[1] = T!SOT
         /\ \A i \in DOMAIN c : c[i] = T!EOT <=> i = last
         /\ \A i \in kept : c[R(i) + 1] = encoder[tokens[i]]
         /\ {i \in DOMAIN c : c[i] = 0} = zeros \cup ((last + 1) .. ctx_len)
  <2> DEFINE known == {i \in DOMAIN tokens : tokens[i] \in DOMAIN encoder}
             place(i) == 1 + T!Cardinality(known \cap (1 .. i))
             end == IF T!Cardinality(known) + 2 <= ctx_len THEN T!Cardinality(known) + 2 ELSE ctx_len
             held == {i \in known : place(i) < end}
  <2>1. T!ContextIsFramed(c, tokens, encoder, ctx_len) <=>
         /\ Len(c) = ctx_len /\ c[1] = T!SOT
         /\ \A i \in DOMAIN c : c[i] = T!EOT <=> i = end
         /\ \A i \in held : c[place(i)] = encoder[tokens[i]]
         /\ {i \in DOMAIN c : c[i] = 0} =
              {place(i) : i \in {k \in held : encoder[tokens[k]] = 0}} \cup ((end + 1) .. ctx_len)
    BY DEF T!ContextIsFramed, T!Masked
  <2>2. known = K
    BY DEF K, KnownAt
  <2>3. \A U : T!Cardinality(U) = Cardinality(U)
    BY DEF T!Cardinality, Cardinality
  <2>4. K \cap (1 .. n) = K
    BY <1>2
  <2>5. T!Cardinality(known) = m
    <3>1. R(n) = Cardinality(K \cap (1 .. n))
      BY DEF R, Rank, K
    <3> QED
      BY <1>2, <2>2, <2>3, <2>4, <3>1
  <2>6. end = last
    BY <2>5
  <2>7. \A i \in K : place(i) = R(i) + 1
    <3> SUFFICES ASSUME NEW i \in K PROVE place(i) = R(i) + 1
      OBVIOUS
    <3>1. T!Cardinality(known \cap (1 .. i)) = R(i)
      BY <2>2, <2>3 DEF R, Rank, K
    <3>2. R(i) \in Nat
      BY <1>2
    <3> HIDE DEF known
    <3> QED
      BY <3>1, <3>2
  <2> HIDE DEF end, place, known, last
  <2>8. held = kept
    BY <2>2, <2>6, <2>7
  <2>9. {place(i) : i \in {k \in held : encoder[tokens[k]] = 0}} = zeros
    BY <2>2, <2>7, <2>8
  <2>10. \A i \in held : place(i) = R(i) + 1
    BY <2>2, <2>7
  <2> HIDE DEF held, zeros, kept
  <2>11. /\ \A i \in kept : c[place(i)] = c[R(i) + 1]
         /\ (\A i \in held : c[place(i)] = encoder[tokens[i]]) <=>
               \A i \in kept : c[R(i) + 1] = encoder[tokens[i]]
    BY <2>8, <2>10
  <2> QED
    BY <2>1, <2>6, <2>9, <2>11
<1>13. /\ \A i \in DOMAIN c : c[i] = T!EOT <=> i = last
       /\ \A i \in kept : c[R(i) + 1] = encoder[tokens[i]]
       /\ {i \in DOMAIN c : c[i] = 0} = zeros \cup ((last + 1) .. ctx_len)
  BY <1>3, <1>7, <1>9, <1>10
<1> HIDE DEF last, kept, zeros
<1>14. T!ContextIsFramed(c, tokens, encoder, ctx_len)
  BY <1>3, <1>11, <1>12, <1>13
<1> QED
  BY <1>14 DEF c, ids

\* siglip2's texts have the length asked for, their mask is a beginning of them,
\* and what it covers is the text, ended (Tokenizer::encode).
THEOREM TextEnded ==
  ASSUME NEW pieces \in Seq(Int), NEW eos \in Int, NEW pad \in Int, NEW max_length \in Nat
  PROVE  S!TextIsEnded(pieces, eos, pad, max_length)
<1> DEFINE ids == IF eos = S!NoEos THEN pieces ELSE Append(pieces, eos)
           kept == IF max_length = 0 \/ Len(ids) <= max_length THEN Len(ids) ELSE max_length
           out == S!Encode(pieces, eos, pad, max_length)
           real == {i \in DOMAIN out.mask : out.mask[i] = 1}
<1>1. /\ ids \in Seq(Int) /\ Len(ids) \in Nat /\ Len(pieces) \in Nat
      /\ Len(ids) = IF eos = S!NoEos THEN Len(pieces) ELSE Len(pieces) + 1
      /\ \A i \in 1 .. Len(pieces) : ids[i] = pieces[i]
      /\ eos # S!NoEos => ids[Len(ids)] = eos
  BY AppendProperties
<1> HIDE DEF ids
<1>2. max_length > 0 => S!Min({Len(ids), max_length}) = kept
  <2> SUFFICES ASSUME max_length > 0 PROVE S!Min({Len(ids), max_length}) = kept
    OBVIOUS
  <2>1. S!Min({Len(ids), max_length}) = CHOOSE x \in {Len(ids), max_length} :
                                            \A y \in {Len(ids), max_length} : x =< y
    BY DEF S!Min
  <2>2. kept \in {Len(ids), max_length} /\ \A y \in {Len(ids), max_length} : kept =< y
    BY <1>1
  <2>3. \A x \in {Len(ids), max_length} :
           (\A y \in {Len(ids), max_length} : x =< y) => x = kept
    BY <1>1, <2>2
  <2> HIDE DEF kept
  <2> QED
    BY <2>1, <2>2, <2>3
<1>3. max_length = 0 => out = [ids |-> ids, mask |-> [i \in 1 .. Len(ids) |-> 1]]
  BY DEF S!Encode, ids
<1>4. max_length > 0 =>
        out = [ids  |-> [i \in 1 .. max_length |->
                           IF i = max_length /\ eos # S!NoEos /\ Len(ids) > max_length THEN eos
                           ELSE IF i <= kept THEN ids[i] ELSE pad],
               mask |-> [i \in 1 .. max_length |-> IF i <= kept THEN 1 ELSE 0]]
  <2> SUFFICES ASSUME max_length > 0 PROVE
        out = [ids  |-> [i \in 1 .. max_length |->
                           IF i = max_length /\ eos # S!NoEos /\ Len(ids) > max_length THEN eos
                           ELSE IF i <= kept THEN ids[i] ELSE pad],
               mask |-> [i \in 1 .. max_length |-> IF i <= kept THEN 1 ELSE 0]]
    OBVIOUS
  <2> DEFINE least == S!Min({Len(ids), max_length})
  <2>1. ~(max_length <= 0)
    OBVIOUS
  <2>2. out = [ids  |-> [i \in 1 .. max_length |->
                           IF i = max_length /\ eos # S!NoEos /\ Len(ids) > max_length THEN eos
                           ELSE IF i <= least THEN ids[i] ELSE pad],
               mask |-> [i \in 1 .. max_length |-> IF i <= least THEN 1 ELSE 0]]
    BY <2>1 DEF S!Encode, ids
  <2>3. least = kept
    BY <1>2
  <2> HIDE DEF least, kept, out
  <2> QED
    BY <2>2, <2>3
<1> HIDE DEF out
<1>5. kept \in Nat /\ kept <= Len(ids) /\ (max_length > 0 => kept <= max_length)
  BY <1>1
<1>6. real = 1 .. kept /\ DOMAIN out.mask = DOMAIN out.ids
      /\ (max_length > 0 => Len(out.ids) = max_length /\ Len(out.mask) = max_length)
  <2>1. CASE max_length = 0
    <3>1. out.mask = [i \in 1 .. Len(ids) |-> 1] /\ out.ids = ids /\ kept = Len(ids)
      BY <1>3, <2>1
    <3> QED
      BY <1>1, <2>1, <3>1
  <2>2. CASE max_length > 0
    <3> DEFINE mask == [i \in 1 .. max_length |-> IF i <= kept THEN 1 ELSE 0]
    <3>1. out.mask = mask /\ DOMAIN out.ids = 1 .. max_length /\ Len(out.ids) = max_length
      BY <1>4, <2>2
    <3>2. {i \in DOMAIN mask : mask[i] = 1} = 1 .. kept
      BY <1>5, <2>2
    <3>3. DOMAIN mask = 1 .. max_length /\ Len(mask) = max_length
      OBVIOUS
    <3> QED
      BY <3>1, <3>2, <3>3
  <2> QED
    BY <2>1, <2>2
<1>7. Cardinality(real) = kept
  <2>1. Cardinality(1 .. kept) = kept
    BY <1>5, FS_Interval
  <2> QED
    BY <1>6, <2>1
<1>8. eos # S!NoEos /\ kept > 0 => out.ids[kept] = eos
  <2>1. CASE max_length = 0
    BY <1>1, <1>3, <2>1
  <2>2. CASE max_length > 0
    BY <1>1, <1>4, <1>5, <2>2
  <2> QED
    BY <2>1, <2>2
<1>9. \A i \in 1 .. kept : i < kept \/ eos = S!NoEos => out.ids[i] = pieces[i]
  <2> SUFFICES ASSUME NEW i \in 1 .. kept, i < kept \/ eos = S!NoEos
               PROVE  out.ids[i] = pieces[i]
    OBVIOUS
  <2>1. i \in 1 .. Len(pieces) /\ ids[i] = pieces[i]
    BY <1>1, <1>5
  <2>2. CASE max_length = 0
    BY <1>3, <2>1, <2>2
  <2>3. CASE max_length > 0
    <3>1. ~(i = max_length /\ eos # S!NoEos /\ Len(ids) > max_length) /\ i \in 1 .. max_length
      BY <1>5, <2>3
    <3> QED
      BY <1>4, <1>5, <2>1, <2>3, <3>1
  <2> QED
    BY <2>2, <2>3
<1>10. \A i \in DOMAIN out.ids \ real : out.ids[i] = pad
  <2>1. CASE max_length = 0
    BY <1>1, <1>3, <1>6, <2>1
  <2>2. CASE max_length > 0
    <3> SUFFICES ASSUME NEW i \in DOMAIN out.ids \ real PROVE out.ids[i] = pad
      OBVIOUS
    <3>1. i \in 1 .. max_length /\ ~(i <= kept)
      BY <1>4, <1>5, <1>6, <2>2
    <3>2. ~(i = max_length /\ Len(ids) > max_length)
      BY <2>2, <3>1
    <3> QED
      BY <1>4, <2>2, <3>1, <3>2
  <2> QED
    BY <2>1, <2>2
<1>11. S!TextIsEnded(pieces, eos, pad, max_length) <=>
         /\ max_length > 0 => Len(out.ids) = max_length /\ Len(out.mask) = max_length
         /\ real = 1 .. Cardinality(real)
         /\ eos # S!NoEos /\ Cardinality(real) > 0 => out.ids[Cardinality(real)] = eos
         /\ \A i \in 1 .. Cardinality(real) :
               i < Cardinality(real) \/ eos = S!NoEos => out.ids[i] = pieces[i]
         /\ \A i \in DOMAIN out.ids \ real : out.ids[i] = pad
  <2>1. S!Cardinality(real) = Cardinality(real)
    BY DEF S!Cardinality, Cardinality
  <2>2. S!TextIsEnded(pieces, eos, pad, max_length) <=>
         /\ max_length > 0 => Len(out.ids) = max_length /\ Len(out.mask) = max_length
         /\ real = 1 .. S!Cardinality(real)
         /\ eos # S!NoEos /\ S!Cardinality(real) > 0 => out.ids[S!Cardinality(real)] = eos
         /\ \A i \in 1 .. S!Cardinality(real) :
               i < S!Cardinality(real) \/ eos = S!NoEos => out.ids[i] = pieces[i]
         /\ \A i \in DOMAIN out.ids \ real : out.ids[i] = pad
    BY DEF S!TextIsEnded, out
  <2> HIDE DEF real, out
  <2> QED
    BY <2>1, <2>2
<1> QED
  BY <1>6, <1>7, <1>8, <1>9, <1>10, <1>11

-----------------------------------------------------------------------------
(* Bytes as characters. *)

\* No two bytes have one character (sam3_init_byte_encoder).
LEMMA CharactersDiffer ==
  ASSUME NEW a \in 0 .. 255, NEW b \in 0 .. 255, a < b
  PROVE  T!ByteEncoder(a) # T!ByteEncoder(b)
<1>0. \A U : T!Cardinality(U) = Cardinality(U)
  BY DEF T!Cardinality, Cardinality
<1> DEFINE rest(x) == {c \in 0 .. (x - 1) : c \notin T!Printable}
<1>1. \A x \in 0 .. 255 : /\ IsFiniteSet(rest(x)) /\ Cardinality(rest(x)) \in Nat
                          /\ T!ByteEncoder(x) = IF x \in T!Printable THEN x
                                                ELSE 256 + Cardinality(rest(x))
  <2> SUFFICES ASSUME NEW x \in 0 .. 255
               PROVE  /\ IsFiniteSet(rest(x)) /\ Cardinality(rest(x)) \in Nat
                      /\ T!ByteEncoder(x) = IF x \in T!Printable THEN x
                                            ELSE 256 + Cardinality(rest(x))
    OBVIOUS
  <2>1. IsFiniteSet(0 .. (x - 1)) /\ rest(x) \in SUBSET (0 .. (x - 1))
    BY FS_Interval
  <2>2. IsFiniteSet(rest(x))
    BY <2>1, FS_Subset
  <2> QED
    BY <1>0, <2>2, FS_CardinalityType DEF T!ByteEncoder
<1>2. CASE a \in T!Printable \/ b \in T!Printable
  <2> HIDE DEF rest
  <2>1. \A x \in 0 .. 255 : T!ByteEncoder(x) = x \/ T!ByteEncoder(x) > 255
    BY <1>1, SMTT(30)
  <2>2. CASE a \in T!Printable
    <3>1. T!ByteEncoder(a) = a
      BY <1>1, <2>2, SMTT(30)
    <3>2. T!ByteEncoder(b) = b \/ T!ByteEncoder(b) > 255
      BY <2>1, SMT
    <3> QED
      BY <3>1, <3>2, SMT
  <2>3. CASE b \in T!Printable
    <3>1. T!ByteEncoder(b) = b
      BY <1>1, <2>3, SMT
    <3>2. T!ByteEncoder(a) = a \/ T!ByteEncoder(a) > 255
      BY <2>1, SMT
    <3> QED
      BY <3>1, <3>2, SMT
  <2> QED
    BY <1>2, <2>2, <2>3
<1>3. CASE a \notin T!Printable /\ b \notin T!Printable
  <2>1. rest(a) \in SUBSET rest(b) /\ a \in rest(b) /\ a \notin rest(a)
    BY <1>3
  <2>2. Cardinality(rest(a)) # Cardinality(rest(b))
    <3> HIDE DEF rest
    <3> QED
      BY <1>1, <2>1, FS_Subset
  <2> DEFINE m == Cardinality(rest(a)) n == Cardinality(rest(b))
  <2>3. T!ByteEncoder(a) = 256 + m /\ T!ByteEncoder(b) = 256 + n /\ m \in Nat /\ n \in Nat
    BY <1>1, <1>3
  <2> HIDE DEF m, n
  <2>4. m # n
    BY <2>2 DEF m, n
  <2> QED
    BY <2>3, <2>4
<1> QED
  BY <1>2, <1>3

\* Bytes of a character, whose length the first one tells.
Told(u) == /\ T!LenFromLead(u[1]) = Len(u)
           /\ \A i \in 2 .. Len(u) : u[i] \in 128 .. 191

\* The first byte of a character tells its length, the others are marked
\* (sam3_codepoint_to_utf8, sam3_utf8_len).
LEMMA LengthTold ==
  ASSUME NEW cp \in Nat, cp <= 1114111
  PROVE  Told(T!ToUtf8(cp))
<1> DEFINE bits(unit) == 128 + ((cp \div unit) % 64)
           u == T!ToUtf8(cp)
<1>1. u = IF cp < 128 THEN <<cp>>
          ELSE IF cp < 2048 THEN <<192 + cp \div 64, bits(1)>>
          ELSE IF cp < 65536 THEN <<224 + cp \div 4096, bits(64), bits(1)>>
          ELSE <<240 + cp \div 262144, bits(4096), bits(64), bits(1)>>
  BY SMT DEF T!ToUtf8
<1>2. \A unit \in {1, 64, 4096} : bits(unit) \in 128 .. 191
  <2> SUFFICES ASSUME NEW unit \in {1, 64, 4096} PROVE bits(unit) \in 128 .. 191
    BY SMT
  <2>1. cp \div unit \in Int
    BY SMT
  <2> QED
    BY <2>1, SMT
<1>3. /\ cp < 2048 /\ cp >= 128 => 192 + cp \div 64 \in 192 .. 223
      /\ cp < 65536 /\ cp >= 2048 => 224 + cp \div 4096 \in 224 .. 239
      /\ cp >= 65536 => 240 + cp \div 262144 \in 240 .. 244
  BY SMT
<1>4. \A x \in Int : T!LenFromLead(x) =
         IF x < 192 THEN 1 ELSE IF x < 224 THEN 2 ELSE IF x < 240 THEN 3 ELSE 4
  BY SMT DEF T!LenFromLead
<1> HIDE DEF u, bits
<1> SUFFICES T!LenFromLead(u[1]) = Len(u) /\ \A i \in 2 .. Len(u) : u[i] \in 128 .. 191
  BY SMT DEF u, Told
<1>5. CASE cp < 128
  BY <1>1, <1>4, <1>5, SMT
<1>6. CASE cp >= 128 /\ cp < 2048
  <2> DEFINE x == 192 + cp \div 64
  <2>1. u = <<x, bits(1)>> /\ x \in 192 .. 223
    BY <1>1, <1>3, <1>6, SMT
  <2> HIDE DEF x
  <2> QED
    BY <1>2, <1>4, <2>1, SMT
<1>7. CASE cp >= 2048 /\ cp < 65536
  <2> DEFINE x == 224 + cp \div 4096
  <2>1. u = <<x, bits(64), bits(1)>> /\ x \in 224 .. 239
    BY <1>1, <1>3, <1>7, SMT
  <2> HIDE DEF x
  <2> QED
    BY <1>2, <1>4, <2>1, SMT
<1>8. CASE cp >= 65536
  <2> DEFINE x == 240 + cp \div 262144
  <2>1. u = <<x, bits(4096), bits(64), bits(1)>> /\ x \in 240 .. 244
    BY <1>1, <1>3, <1>8, SMT
  <2> HIDE DEF x
  <2> QED
    BY <1>2, <1>4, <2>1, SMT
<1> QED
  BY <1>5, <1>6, <1>7, <1>8, SMT

\* What was encoded can be told apart.
THEOREM BytesTold == T!BytesAreTold
<1>1. ASSUME NEW a \in 0 .. 255, NEW b \in 0 .. 255, T!ByteEncoder(a) = T!ByteEncoder(b)
      PROVE  a = b
  <2>1. CASE a < b
    BY <1>1, <2>1, CharactersDiffer, SMTT(30)
  <2>2. CASE b < a
    BY <1>1, <2>2, CharactersDiffer, SMTT(30)
  <2> QED
    BY <2>1, <2>2, SMT
<1>2. \A cp \in T!CodePoints : cp \in Nat /\ cp <= 1114111
  BY SMT DEF T!CodePoints
<1>3. \A cp \in T!CodePoints : Told(T!ToUtf8(cp))
  BY <1>2, LengthTold, SMT
<1> QED
  BY <1>1, <1>3 DEF T!BytesAreTold, Told

-----------------------------------------------------------------------------

(***************************************************************************)
(* Definitions that look forward: the value at a position is made of the   *)
(* value at a later one, until the end.                                    *)
(***************************************************************************)

\* The positions of goes look at a later one, and come before the end.
Forward(goes, to, end) == \A j \in goes : j < end /\ to[j] \in Nat /\ j < to[j]

\* What stands at j: something of its own, what stands at to[j], or that behind
\* the head of j.
Made(f, goes, takes, to, head, base, j) ==
    IF j \notin goes THEN base[j]
    ELSE IF j \in takes THEN head[j] \o f[to[j]] ELSE f[to[j]]

\* Such a definition defines something.
Defines(goes, takes, to, head, base) ==
    \E f : f = [j \in Nat |-> Made(f, goes, takes, to, head, base, j)]

\* Such a definition has a function it defines.
LEMMA ForwardExists ==
  ASSUME NEW goes \in SUBSET Nat, NEW takes, NEW to, NEW head, NEW base, NEW end \in Nat,
         Forward(goes, to, end)
  PROVE  Defines(goes, takes, to, head, base)
<1> DEFINE Body(f, j) == Made(f, goes, takes, to, head, base, j)
           Down(n) == \E f : /\ f = [j \in Nat |-> f[j]]
                             /\ \A j \in Nat : j + n >= end => f[j] = Body(f, j)
           Z == {n \in Nat : ~Down(n)}
<1>1. \A f, g : \A j \in Nat : (j \in goes => f[to[j]] = g[to[j]]) => Body(f, j) = Body(g, j)
  BY DEF Made
<1>2. \A j \in goes : j < end /\ to[j] \in Nat /\ j < to[j]
  BY DEF Forward
<1> HIDE DEF Body
<1>3. Down(0)
  <2> DEFINE f == [j \in Nat |-> base[j]]
  <2>1. ASSUME NEW j \in Nat, j + 0 >= end PROVE f[j] = Body(f, j)
    <3>1. j \notin goes
      BY <1>2, <2>1
    <3> QED
      BY <3>1 DEF Body, Made
  <2>2. f = [j \in Nat |-> f[j]]
    OBVIOUS
  <2> QED
    BY <2>1, <2>2
<1>4. ASSUME NEW n \in Nat, Down(n) PROVE Down(n + 1)
  <2>1. PICK g : /\ g = [j \in Nat |-> g[j]]
                 /\ \A j \in Nat : j + n >= end => g[j] = Body(g, j)
    BY <1>4
  <2> DEFINE f == [j \in Nat |-> IF j + n >= end THEN g[j] ELSE Body(g, j)]
  <2>2. f = [j \in Nat |-> f[j]]
    OBVIOUS
  <2>3. ASSUME NEW j \in Nat, j + (n + 1) >= end PROVE f[j] = Body(f, j)
    <3>1. j \in goes => to[j] \in Nat /\ to[j] + n >= end
      BY <1>2, <2>3
    <3>2. j \in goes => f[to[j]] = g[to[j]]
      BY <3>1
    <3>3. f[j] = Body(g, j)
      BY <2>1
    <3> HIDE DEF f
    <3> QED
      BY <1>1, <3>2, <3>3
  <2> HIDE DEF f
  <2> QED
    BY <2>2, <2>3
<1> HIDE DEF Down
<1>5. Z = {}
  <2> SUFFICES ASSUME Z # {} PROVE FALSE
    OBVIOUS
  <2>1. PICK n \in Z : \A m \in Z : n <= m
    BY LeastNat
  <2>2. n \in Nat /\ n # 0
    BY <1>3, <2>1
  <2>3. n - 1 \in Nat /\ n - 1 \notin Z /\ (n - 1) + 1 = n
    BY <2>1, <2>2
  <2>4. Down(n - 1)
    BY <2>3
  <2> QED
    BY <1>4, <2>1, <2>3, <2>4
<1>6. Down(end)
  BY <1>5
<1>7. PICK f : /\ f = [j \in Nat |-> f[j]]
               /\ \A j \in Nat : j + end >= end => f[j] = Body(f, j)
  BY <1>6 DEF Down
<1>8. \A j \in Nat : f[j] = Body(f, j)
  BY <1>7
<1>9. f = [j \in Nat |-> Body(f, j)]
  BY <1>7, <1>8
<1> QED
  BY <1>9 DEF Body, Defines

\* Induction from the end of a text to its beginning: if a set of positions holds
\* the one it looks at, it holds the position.
LEMMA Backward ==
  ASSUME NEW Z \in SUBSET Nat, NEW end \in Nat, Z # {}, \A j \in Z : j <= end
  PROVE  \E j \in Z : \A k \in Z : k <= j
<1> DEFINE Y == {n \in Nat : \E j \in Z : j + n = end}
<1>1. \A j \in Z : end - j \in Y
  OBVIOUS
<1>2. Y # {} /\ Y \in SUBSET Nat
  BY <1>1
<1>3. PICK n \in Y : \A m \in Y : n <= m
  BY <1>2, LeastNat
<1>4. PICK j \in Z : j + n = end
  BY <1>3
<1>5. \A k \in Z : k <= j
  BY <1>1, <1>3, <1>4
<1> QED
  BY <1>4, <1>5

-----------------------------------------------------------------------------
(* The tokens of a text. *)

\* A run of letters goes on behind the first one.
LEMMA LetterRunIs ==
  ASSUME NEW text, Len(text) \in Nat, NEW i \in Nat
  PROVE  T!LetterRun(text, i) =
           IF i <= Len(text) /\ T!IsLetter(text[i])
           THEN T!LetterRun(text, i + T!Utf8Len(text[i])) ELSE i
<1> DEFINE goes == {j \in Nat : j <= Len(text) /\ T!IsLetter(text[j])}
           to == [j \in Nat |-> j + T!Utf8Len(text[j])]
           own == [j \in Nat |-> j]
           body(f, j) == IF j <= Len(text) /\ T!IsLetter(text[j])
                         THEN f[j + T!Utf8Len(text[j])] ELSE j
           next == CHOOSE f : f = [j \in Nat |-> body(f, j)]
<1>1. \A j \in Nat : T!Utf8Len(text[j]) \in {1, 2}
  BY DEF T!Utf8Len
<1>2. Forward(goes, to, Len(text) + 1)
  BY <1>1 DEF Forward
<1>3. \A f : \A j \in Nat : Made(f, goes, {}, to, own, own, j) = body(f, j)
  BY DEF Made
<1>4. \E f : f = [j \in Nat |-> Made(f, goes, {}, to, own, own, j)]
  <2> HIDE DEF goes, to, own
  <2>1. goes \in SUBSET Nat /\ Len(text) + 1 \in Nat
    BY DEF goes
  <2>2. Defines(goes, {}, to, own, own)
    BY <1>2, <2>1, ForwardExists
  <2> QED
    BY <2>2 DEF Defines
<1> HIDE DEF goes, to, own, body
<1>5. \E f : f = [j \in Nat |-> body(f, j)]
  BY <1>3, <1>4
<1>6. next = [j \in Nat |-> body(next, j)]
  BY <1>5
<1>7. \A j \in Nat : T!LetterRun(text, j) = next[j]
  BY DEF T!LetterRun, body
<1> HIDE DEF next
<1>8. i + T!Utf8Len(text[i]) \in Nat
  BY <1>1
<1>9. T!LetterRun(text, i) = body(next, i)
  BY <1>6, <1>7
<1> QED
  BY <1>7, <1>8, <1>9 DEF body

\* So does a run of other characters.
LEMMA OtherRunIs ==
  ASSUME NEW text, Len(text) \in Nat, NEW i \in Nat
  PROVE  T!OtherRun(text, i) =
           IF i <= Len(text) /\ T!IsOther(text[i]) THEN T!OtherRun(text, i + 1) ELSE i
<1> DEFINE goes == {j \in Nat : j <= Len(text) /\ T!IsOther(text[j])}
           to == [j \in Nat |-> j + 1]
           own == [j \in Nat |-> j]
           body(f, j) == IF j <= Len(text) /\ T!IsOther(text[j]) THEN f[j + 1] ELSE j
           next == CHOOSE f : f = [j \in Nat |-> body(f, j)]
<1>2. Forward(goes, to, Len(text) + 1)
  BY DEF Forward
<1>3. \A f : \A j \in Nat : Made(f, goes, {}, to, own, own, j) = body(f, j)
  BY DEF Made
<1>4. \E f : f = [j \in Nat |-> Made(f, goes, {}, to, own, own, j)]
  <2> HIDE DEF goes, to, own
  <2>1. goes \in SUBSET Nat /\ Len(text) + 1 \in Nat
    BY DEF goes
  <2>2. Defines(goes, {}, to, own, own)
    BY <1>2, <2>1, ForwardExists
  <2> QED
    BY <2>2 DEF Defines
<1> HIDE DEF goes, to, own, body
<1>5. \E f : f = [j \in Nat |-> body(f, j)]
  BY <1>3, <1>4
<1>6. next = [j \in Nat |-> body(next, j)]
  BY <1>5
<1>7. \A j \in Nat : T!OtherRun(text, j) = next[j]
  BY DEF T!OtherRun, body
<1> HIDE DEF next
<1>9. T!OtherRun(text, i) = body(next, i)
  BY <1>6, <1>7
<1> QED
  BY <1>7, <1>9 DEF body

\* Runs do not go back.
LEMMA RunsGoOn ==
  ASSUME NEW text, Len(text) \in Nat, NEW i \in Nat
  PROVE  /\ T!LetterRun(text, i) \in Nat /\ i <= T!LetterRun(text, i)
         /\ T!OtherRun(text, i) \in Nat /\ i <= T!OtherRun(text, i)
<1> DEFINE Good(j) == /\ T!LetterRun(text, j) \in Nat /\ j <= T!LetterRun(text, j)
                      /\ T!OtherRun(text, j) \in Nat /\ j <= T!OtherRun(text, j)
           Z == {j \in Nat : ~Good(j)}
<1>1. \A j \in Nat : T!Utf8Len(text[j]) \in {1, 2}
  BY DEF T!Utf8Len
<1>2. ASSUME NEW j \in Nat, \A k \in Nat : k > j => Good(k) PROVE Good(j)
  <2> DEFINE k == j + T!Utf8Len(text[j])
  <2>0. k \in Nat /\ k > j /\ j + 1 \in Nat /\ j + 1 > j
    BY <1>1
  <2> HIDE DEF k, Good
  <2>3. Good(j + 1) /\ Good(k)
    BY <1>2, <2>0
  <2>1. Good(j + 1) /\ Good(j + T!Utf8Len(text[j])) /\ j + T!Utf8Len(text[j]) \in Nat
        /\ j + T!Utf8Len(text[j]) > j
    BY <2>0, <2>3 DEF k
  <2> USE DEF Good
  <2>2. /\ T!LetterRun(text, j) = j \/ T!LetterRun(text, j) = T!LetterRun(text, j + T!Utf8Len(text[j]))
        /\ T!OtherRun(text, j) = j \/ T!OtherRun(text, j) = T!OtherRun(text, j + 1)
    BY LetterRunIs, OtherRunIs
  <2> QED
    BY <2>1, <2>2
<1>3. \A j \in Nat : j > Len(text) => Good(j)
  BY LetterRunIs, OtherRunIs
<1> HIDE DEF Good
<1>4. Z = {}
  <2> SUFFICES ASSUME Z # {} PROVE FALSE
    OBVIOUS
  <2>1. \A j \in Z : j <= Len(text)
    BY <1>3
  <2>2. PICK j \in Z : \A k \in Z : k <= j
    BY <2>1, Backward
  <2>3. \A k \in Nat : k > j => Good(k)
    BY <2>2
  <2> QED
    BY <1>2, <2>2, <2>3
<1> QED
  BY <1>4 DEF Good

\* A contraction in a text.
LEMMA ContractionAt ==
  ASSUME NEW text, Len(text) \in Nat, NEW i \in Nat
  PROVE  /\ T!At(text, i, <<"'", "s">>) <=>
              i + 1 <= Len(text) /\ text[i] = "'" /\ text[i + 1] = "s"
         /\ T!At(text, i, <<"'", "l", "l">>) <=>
              i + 2 <= Len(text) /\ text[i] = "'" /\ text[i + 1] = "l" /\ text[i + 2] = "l"
<1>1. /\ Len(<<"'", "s">>) = 2 /\ Len(<<"'", "l", "l">>) = 3
      /\ i + 2 - 1 = i + 1 /\ i + 3 - 1 = i + 2
  OBVIOUS
<1> DEFINE two == SubSeq(text, i, i + 1)
           three == SubSeq(text, i, i + 2)
<1>2. two = <<text[i], text[i + 1]>>
  <2>1. two = [k \in 1 .. 2 |-> text[i + k - 1]]
    OBVIOUS
  <2>2. \A k \in 1 .. 2 : text[i + k - 1] = IF k = 1 THEN text[i] ELSE text[i + 1]
    BY \A k \in 1 .. 2 : i + k - 1 = IF k = 1 THEN i ELSE i + 1
  <2> DEFINE a == text[i] b == text[i + 1]
  <2>3. two = [k \in 1 .. 2 |-> IF k = 1 THEN a ELSE b]
    BY <2>1, <2>2
  <2> HIDE DEF a, b, two
  <2>4. <<a, b>> = [k \in 1 .. 2 |-> IF k = 1 THEN a ELSE b]
    OBVIOUS
  <2> QED
    BY <2>3, <2>4 DEF a, b
<1>3. three = <<text[i], text[i + 1], text[i + 2]>>
  <2>1. three = [k \in 1 .. 3 |-> text[i + k - 1]]
    OBVIOUS
  <2>2. \A k \in 1 .. 3 : text[i + k - 1] = IF k = 1 THEN text[i]
                                            ELSE IF k = 2 THEN text[i + 1] ELSE text[i + 2]
    BY \A k \in 1 .. 3 : i + k - 1 = IF k = 1 THEN i ELSE IF k = 2 THEN i + 1 ELSE i + 2
  <2> DEFINE a == text[i] b == text[i + 1] c == text[i + 2]
  <2>3. three = [k \in 1 .. 3 |-> IF k = 1 THEN a ELSE IF k = 2 THEN b ELSE c]
    BY <2>1, <2>2
  <2> HIDE DEF a, b, c, three
  <2>4. <<a, b, c>> = [k \in 1 .. 3 |-> IF k = 1 THEN a ELSE IF k = 2 THEN b ELSE c]
    OBVIOUS
  <2> QED
    BY <2>3, <2>4 DEF a, b, c
<1> HIDE DEF two, three
<1>4. T!At(text, i, <<"'", "s">>) <=> i + 1 <= Len(text) /\ two = <<"'", "s">>
  BY <1>1 DEF T!At, two
<1>5. T!At(text, i, <<"'", "l", "l">>) <=> i + 2 <= Len(text) /\ three = <<"'", "l", "l">>
  BY <1>1 DEF T!At, three
<1> QED
  BY <1>2, <1>3, <1>4, <1>5

\* The kinds of tokens do not overlap.
Ll(text, i) == /\ i + 2 <= Len(text) /\ text[i] = "'"
               /\ text[i + 1] = "l" /\ text[i + 2] = "l"

\* The contractions stand at i.
Ess(text, i) == i + 1 <= Len(text) /\ text[i] = "'" /\ text[i + 1] = "s"

\* Where a token ends, its cases in their order (sam3_pretokenize).
LEMMA TokenEndIs ==
  ASSUME NEW text, Len(text) \in Nat, NEW i \in Nat
  PROVE  T!TokenEnd(text, i) =
           IF Ess(text, i) THEN i + 2
           ELSE IF Ll(text, i) THEN i + 3
           ELSE IF T!IsLetter(text[i]) THEN T!LetterRun(text, i)
           ELSE IF T!IsDigit(text[i]) THEN i + 1
           ELSE T!OtherRun(text, i)
<1>1. /\ T!At(text, i, <<"'", "s">>) <=> Ess(text, i)
      /\ T!At(text, i, <<"'", "l", "l">>) <=> Ll(text, i)
  BY ContractionAt DEF Ess, Ll
<1>2. /\ Ess(text, i) => ~Ll(text, i) /\ ~T!IsLetter(text[i]) /\ ~T!IsDigit(text[i])
      /\ Ll(text, i) => ~T!IsLetter(text[i]) /\ ~T!IsDigit(text[i])
      /\ T!IsLetter(text[i]) => ~T!IsDigit(text[i])
  BY DEF Ess, Ll, T!IsLetter, T!IsDigit
<1> DEFINE ess == T!At(text, i, <<"'", "s">>) ll == T!At(text, i, <<"'", "l", "l">>)
           letter == T!IsLetter(text[i]) digit == T!IsDigit(text[i])
           run == T!LetterRun(text, i) others == T!OtherRun(text, i)
<1>3. T!TokenEnd(text, i) = CASE ess -> i + 2 [] ll -> i + 3 [] letter -> run
                              [] digit -> i + 1 [] OTHER -> others
  BY DEF T!TokenEnd
<1>4. (ess <=> Ess(text, i)) /\ (ll <=> Ll(text, i))
  BY <1>1
<1>5. /\ ess => ~ll /\ ~letter /\ ~digit
      /\ ll => ~letter /\ ~digit
      /\ letter => ~digit
  BY <1>2, <1>4
<1> HIDE DEF ess, ll, letter, digit, run, others
<1>6. T!TokenEnd(text, i) = IF ess THEN i + 2 ELSE IF ll THEN i + 3 ELSE IF letter THEN run
                            ELSE IF digit THEN i + 1 ELSE others
  BY <1>3, <1>5
<1> QED
  BY <1>4, <1>6 DEF letter, digit, run, others

\* A token is not empty.
LEMMA TokenGoesOn ==
  ASSUME NEW text, Len(text) \in Nat, NEW i \in Nat, i <= Len(text), ~T!IsSpace(text[i])
  PROVE  T!TokenEnd(text, i) \in Nat /\ i < T!TokenEnd(text, i)
<1> DEFINE k == i + T!Utf8Len(text[i])
<1>1. k \in Nat /\ k > i
  BY DEF T!Utf8Len
<1> HIDE DEF k
<1>2. T!IsLetter(text[i]) => /\ T!LetterRun(text, i) = T!LetterRun(text, k)
                             /\ T!LetterRun(text, k) \in Nat /\ k <= T!LetterRun(text, k)
  <2>1. T!IsLetter(text[i]) => T!LetterRun(text, i) = T!LetterRun(text, k)
    BY LetterRunIs DEF k
  <2> QED
    BY <1>1, <2>1, RunsGoOn
<1>3. T!IsOther(text[i]) => /\ T!OtherRun(text, i) = T!OtherRun(text, i + 1)
                            /\ T!OtherRun(text, i + 1) \in Nat
                            /\ i + 1 <= T!OtherRun(text, i + 1)
  <2>1. T!IsOther(text[i]) => T!OtherRun(text, i) = T!OtherRun(text, i + 1)
    BY OtherRunIs
  <2>2. i + 1 \in Nat
    OBVIOUS
  <2> QED
    BY <2>1, <2>2, RunsGoOn
<1>4. ~T!IsLetter(text[i]) /\ ~T!IsDigit(text[i]) => T!IsOther(text[i])
  BY DEF T!IsOther
<1>5. T!TokenEnd(text, i) =
           IF Ess(text, i) THEN i + 2
           ELSE IF Ll(text, i) THEN i + 3
           ELSE IF T!IsLetter(text[i]) THEN T!LetterRun(text, i)
           ELSE IF T!IsDigit(text[i]) THEN i + 1
           ELSE T!OtherRun(text, i)
  BY TokenEndIs
<1> QED
  BY <1>1, <1>2, <1>3, <1>4, <1>5

\* A lead byte and its continuation are together.
WellFormed(text) ==
    \A i \in 1 .. Len(text) : /\ text[i] = "lead" => i < Len(text) /\ text[i + 1] = "cont"
                              /\ text[i] = "cont" => i > 1 /\ text[i - 1] = "lead"

\* No character is cut before i.
Boundary(text, i) == i \in 1 .. (Len(text) + 1) /\ (i <= Len(text) => text[i] # "cont")

\* From one character to the next.
LEMMA BoundaryMoves ==
  ASSUME NEW text \in Seq(T!Bytes), WellFormed(text), NEW i \in 1 .. Len(text), Boundary(text, i)
  PROVE  /\ T!Utf8Len(text[i]) \in {1, 2}
         /\ i + T!Utf8Len(text[i]) \in 1 .. (Len(text) + 1)
         /\ Boundary(text, i + T!Utf8Len(text[i]))
         /\ T!Utf8Len(text[i]) = 2 => text[i + 1] = "cont"
         /\ T!Utf8Len(text[i]) = 1 <=> text[i] # "lead"
<1>1. Len(text) \in Nat
  OBVIOUS
<1>2. \A k \in 1 .. Len(text) : /\ text[k] = "lead" => k < Len(text) /\ text[k + 1] = "cont"
                                /\ text[k] = "cont" => k > 1 /\ text[k - 1] = "lead"
  BY DEF WellFormed
<1>3. T!Utf8Len(text[i]) = IF text[i] = "lead" THEN 2 ELSE 1
  BY DEF T!Utf8Len
<1>4. CASE text[i] = "lead"
  <2>1. i + 1 \in 1 .. Len(text) /\ text[i + 1] = "cont"
    BY <1>1, <1>2, <1>4
  <2>2. ASSUME i + 2 <= Len(text) PROVE text[i + 2] # "cont"
    <3>1. i + 2 \in 1 .. Len(text) /\ (i + 2) - 1 = i + 1
      BY <1>1, <2>2
    <3> QED
      BY <1>2, <2>1, <3>1
  <2> QED
    BY <1>1, <1>3, <1>4, <2>1, <2>2 DEF Boundary
<1>5. CASE text[i] # "lead"
  <2>1. ASSUME i + 1 <= Len(text) PROVE text[i + 1] # "cont"
    <3>1. i + 1 \in 1 .. Len(text) /\ (i + 1) - 1 = i
      BY <1>1, <2>1
    <3> QED
      BY <1>2, <1>5, <3>1
  <2> QED
    BY <1>1, <1>3, <1>5, <2>1 DEF Boundary
<1> QED
  BY <1>4, <1>5

\* What is not a space.
LEMMA NotSpaces ==
  \A c : T!IsLetter(c) \/ T!IsDigit(c) \/ T!IsOther(c) \/ c \in {"cont", "'", "s", "l"}
           => ~T!IsSpace(c)
BY Zenon DEF T!IsLetter, T!IsDigit, T!IsOther, T!IsSpace

\* What a run of letters is: letters, as many as there are.
IsLetterRun(text, i, e) ==
    /\ e \in i .. (Len(text) + 1) /\ Boundary(text, e)
    /\ \A k \in i .. (e - 1) : T!IsLetter(text[k]) \/ text[k] = "cont"
    /\ e <= Len(text) => ~T!IsLetter(text[e])

\* A run of other characters.
IsOtherRun(text, i, e) ==
    /\ e \in i .. (Len(text) + 1) /\ Boundary(text, e)
    /\ \A k \in i .. (e - 1) : T!IsOther(text[k]) /\ text[k] # "cont"
    /\ e <= Len(text) => ~T!IsOther(text[e])

\* The code's run of letters is one: it cuts no character.
LEMMA LettersAreARun ==
  ASSUME NEW text \in Seq(T!Bytes), WellFormed(text), NEW i \in 1 .. (Len(text) + 1),
         Boundary(text, i)
  PROVE  IsLetterRun(text, i, T!LetterRun(text, i))
<1> DEFINE Good(j) == Boundary(text, j) => IsLetterRun(text, j, T!LetterRun(text, j))
           Z == {j \in 1 .. (Len(text) + 1) : ~Good(j)}
<1>1. Len(text) \in Nat
  OBVIOUS
<1>2. ASSUME NEW j \in 1 .. (Len(text) + 1), Boundary(text, j),
             \A k \in 1 .. (Len(text) + 1) : k > j => Good(k)
      PROVE  IsLetterRun(text, j, T!LetterRun(text, j))
  <2>1. CASE j <= Len(text) /\ T!IsLetter(text[j])
    <3> DEFINE k == j + T!Utf8Len(text[j])
               e == T!LetterRun(text, k)
    <3>1. /\ T!Utf8Len(text[j]) \in {1, 2}
          /\ k \in 1 .. (Len(text) + 1) /\ Boundary(text, k)
          /\ T!Utf8Len(text[j]) = 2 => text[j + 1] = "cont"
      BY <1>1, <1>2, <2>1, BoundaryMoves
    <3>2. k > j /\ (k = j + 1 \/ (k = j + 2 /\ text[j + 1] = "cont"))
      BY <3>1
    <3>3. T!LetterRun(text, j) = e
      BY <1>1, <2>1, LetterRunIs
    <3> HIDE DEF k
    <3>4. IsLetterRun(text, k, e)
      BY <1>2, <3>1, <3>2
    <3> HIDE DEF e
    <3>5. /\ e \in k .. (Len(text) + 1) /\ Boundary(text, e)
          /\ \A n \in k .. (e - 1) : T!IsLetter(text[n]) \/ text[n] = "cont"
          /\ e <= Len(text) => ~T!IsLetter(text[e])
      BY <3>4 DEF IsLetterRun
    <3>6. ASSUME NEW n \in j .. (e - 1) PROVE T!IsLetter(text[n]) \/ text[n] = "cont"
      <4>1. n = j \/ n = j + 1 \/ n \in k .. (e - 1)
        BY <3>1, <3>2, <3>5
      <4> QED
        BY <2>1, <3>2, <3>5, <4>1
    <3>7. e \in j .. (Len(text) + 1)
      BY <1>1, <3>1, <3>2, <3>5
    <3>8. IsLetterRun(text, j, e)
      BY <3>5, <3>6, <3>7 DEF IsLetterRun
    <3> QED
      BY <3>3, <3>8
  <2>2. CASE ~(j <= Len(text) /\ T!IsLetter(text[j]))
    <3>1. T!LetterRun(text, j) = j
      BY <1>1, <2>2, LetterRunIs
    <3> QED
      BY <1>1, <1>2, <2>2, <3>1 DEF IsLetterRun
  <2> QED
    BY <2>1, <2>2
<1>3. Z = {}
  <2> SUFFICES ASSUME Z # {} PROVE FALSE
    OBVIOUS
  <2>1. Z \in SUBSET Nat /\ (\A j \in Z : j <= Len(text) + 1) /\ Len(text) + 1 \in Nat
    BY <1>1
  <2>2. PICK j \in Z : \A k \in Z : k <= j
    BY <2>1, Backward
  <2> HIDE DEF Good
  <2>3. \A k \in 1 .. (Len(text) + 1) : k > j => Good(k)
    BY <1>1, <2>2
  <2>4. j \in 1 .. (Len(text) + 1) /\ ~Good(j)
    BY <2>2
  <2> USE DEF Good
  <2> QED
    BY <1>2, <2>3, <2>4
<1> QED
  BY <1>3

\* So is its run of other characters.
LEMMA OthersAreARun ==
  ASSUME NEW text \in Seq(T!Bytes), WellFormed(text), NEW i \in 1 .. (Len(text) + 1),
         Boundary(text, i)
  PROVE  IsOtherRun(text, i, T!OtherRun(text, i))
<1> DEFINE Good(j) == Boundary(text, j) => IsOtherRun(text, j, T!OtherRun(text, j))
           Z == {j \in 1 .. (Len(text) + 1) : ~Good(j)}
<1>1. Len(text) \in Nat
  OBVIOUS
<1>2. ASSUME NEW j \in 1 .. (Len(text) + 1), Boundary(text, j),
             \A k \in 1 .. (Len(text) + 1) : k > j => Good(k)
      PROVE  IsOtherRun(text, j, T!OtherRun(text, j))
  <2>1. CASE j <= Len(text) /\ T!IsOther(text[j])
    <3> DEFINE k == j + 1
               e == T!OtherRun(text, k)
    <3>0. text[j] # "lead" /\ text[j] # "cont"
      BY <1>2, <2>1 DEF Boundary, T!IsOther, T!IsLetter
    <3>1. k \in 1 .. (Len(text) + 1) /\ Boundary(text, k) /\ k > j
      BY <1>1, <1>2, <2>1, <3>0, BoundaryMoves
    <3>3. T!OtherRun(text, j) = e
      BY <1>1, <2>1, OtherRunIs
    <3>2. k = j + 1
      OBVIOUS
    <3> HIDE DEF k
    <3>4. IsOtherRun(text, k, e)
      BY <1>2, <3>1, <3>2
    <3> HIDE DEF e
    <3>5. /\ e \in k .. (Len(text) + 1) /\ Boundary(text, e)
          /\ \A n \in k .. (e - 1) : T!IsOther(text[n]) /\ text[n] # "cont"
          /\ e <= Len(text) => ~T!IsOther(text[e])
      BY <3>4 DEF IsOtherRun
    <3>6. ASSUME NEW n \in j .. (e - 1) PROVE T!IsOther(text[n]) /\ text[n] # "cont"
      <4>1. n = j \/ n \in k .. (e - 1)
        BY <3>1, <3>2, <3>5
      <4> QED
        BY <2>1, <3>0, <3>5, <4>1
    <3>7. e \in j .. (Len(text) + 1)
      BY <1>1, <3>1, <3>2, <3>5
    <3>8. IsOtherRun(text, j, e)
      BY <3>5, <3>6, <3>7 DEF IsOtherRun
    <3> QED
      BY <3>3, <3>8
  <2>2. CASE ~(j <= Len(text) /\ T!IsOther(text[j]))
    <3>1. T!OtherRun(text, j) = j
      BY <1>1, <2>2, OtherRunIs
    <3> QED
      BY <1>1, <1>2, <2>2, <3>1 DEF IsOtherRun
  <2> QED
    BY <2>1, <2>2
<1>3. Z = {}
  <2> SUFFICES ASSUME Z # {} PROVE FALSE
    OBVIOUS
  <2>1. Z \in SUBSET Nat /\ (\A j \in Z : j <= Len(text) + 1) /\ Len(text) + 1 \in Nat
    BY <1>1
  <2>2. PICK j \in Z : \A k \in Z : k <= j
    BY <2>1, Backward
  <2> HIDE DEF Good
  <2>3. \A k \in 1 .. (Len(text) + 1) : k > j => Good(k)
    BY <1>1, <2>2
  <2>4. j \in 1 .. (Len(text) + 1) /\ ~Good(j)
    BY <2>2
  <2> USE DEF Good
  <2> QED
    BY <1>2, <2>3, <2>4
<1> QED
  BY <1>3

\* The bytes of a token, by its kind.
ContractionToken(text, i, e) ==
    \/ e = i + 2 /\ text[i] = "'" /\ text[i + 1] = "s"
    \/ e = i + 3 /\ text[i] = "'" /\ text[i + 1] = "l" /\ text[i + 2] = "l"

\* A token is of one of four kinds.
TokenKind(text, i, e) ==
    \/ ContractionToken(text, i, e)
    \/ T!IsLetter(text[i]) /\ IsLetterRun(text, i, e)
    \/ T!IsDigit(text[i]) /\ e = i + 1
    \/ T!IsOther(text[i]) /\ IsOtherRun(text, i, e)

\* A token is not empty, cuts no character and has no space in it.
IsToken(text, i, e) ==
    /\ e \in (i + 1) .. (Len(text) + 1) /\ Boundary(text, e)
    /\ \A k \in i .. (e - 1) : ~T!IsSpace(text[k])
    /\ TokenKind(text, i, e)

\* Each token of a well-formed text is one of them.
LEMMA TokensAre ==
  ASSUME NEW text \in Seq(T!Bytes), WellFormed(text), NEW i \in 1 .. Len(text),
         Boundary(text, i), ~T!IsSpace(text[i])
  PROVE  IsToken(text, i, T!TokenEnd(text, i))
<1>0. Len(text) \in Nat
  OBVIOUS
<1>1. Len(text) \in Nat /\ i \in Nat /\ i \in 1 .. (Len(text) + 1) /\ i <= Len(text)
  BY <1>0
<1> DEFINE e == T!TokenEnd(text, i)
<1>2. e \in Nat /\ i < e
  BY <1>1, TokenGoesOn
<1>3. e = IF Ess(text, i) THEN i + 2
           ELSE IF Ll(text, i) THEN i + 3
           ELSE IF T!IsLetter(text[i]) THEN T!LetterRun(text, i)
           ELSE IF T!IsDigit(text[i]) THEN i + 1
           ELSE T!OtherRun(text, i)
  BY <1>1, TokenEndIs
<1> SUFFICES IsToken(text, i, e)
  OBVIOUS
<1> HIDE DEF e
<1>4. \A k \in 1 .. Len(text) : Boundary(text, k) /\ text[k] # "lead" => Boundary(text, k + 1)
  BY BoundaryMoves
<1>5. CASE Ess(text, i)
  <2>1. e = i + 2 /\ i + 1 <= Len(text) /\ text[i] = "'" /\ text[i + 1] = "s"
    BY <1>3, <1>5 DEF Ess
  <2>2. i + 1 \in 1 .. Len(text) /\ (i + 1) + 1 = i + 2
    BY <1>1, <2>1
  <2>3. Boundary(text, i + 1)
    BY <1>4, <2>1
  <2>4. Boundary(text, i + 2)
    BY <1>4, <2>1, <2>2, <2>3
  <2>5. \A k \in i .. (e - 1) : k = i \/ k = i + 1
    BY <2>1
  <2> QED
    BY <1>1, <2>1, <2>4, <2>5, NotSpaces DEF IsToken, TokenKind, ContractionToken
<1>6. CASE ~Ess(text, i) /\ Ll(text, i)
  <2>1. e = i + 3 /\ i + 2 <= Len(text) /\ text[i] = "'" /\ text[i + 1] = "l"
        /\ text[i + 2] = "l"
    BY <1>3, <1>6 DEF Ll
  <2>2. /\ i + 1 \in 1 .. Len(text) /\ (i + 1) + 1 = i + 2
        /\ i + 2 \in 1 .. Len(text) /\ (i + 2) + 1 = i + 3
    BY <1>1, <2>1
  <2>3. Boundary(text, i + 1)
    BY <1>4, <2>1
  <2>4. Boundary(text, i + 2)
    BY <1>4, <2>1, <2>2, <2>3
  <2>4a. Boundary(text, i + 3)
    BY <1>4, <2>1, <2>2, <2>4
  <2>5. \A k \in i .. (e - 1) : k = i \/ k = i + 1 \/ k = i + 2
    BY <2>1
  <2> QED
    BY <1>1, <2>1, <2>4a, <2>5, NotSpaces DEF IsToken, TokenKind, ContractionToken
<1>7. CASE ~Ess(text, i) /\ ~Ll(text, i) /\ T!IsLetter(text[i])
  <2>1. IsLetterRun(text, i, e)
    BY <1>1, <1>3, <1>7, LettersAreARun
  <2>2. \A k \in i .. (e - 1) : ~T!IsSpace(text[k])
    BY <2>1, NotSpaces DEF IsLetterRun
  <2>3. e \in i .. (Len(text) + 1) /\ Boundary(text, e)
    BY <2>1 DEF IsLetterRun
  <2> QED
    BY <1>1, <1>2, <1>7, <2>1, <2>2, <2>3 DEF IsToken, TokenKind
<1>8. CASE ~Ess(text, i) /\ ~Ll(text, i) /\ ~T!IsLetter(text[i]) /\ T!IsDigit(text[i])
  <2>1. e = i + 1 /\ text[i] # "lead"
    BY <1>3, <1>8 DEF T!IsDigit
  <2>2. Boundary(text, e)
    BY <1>4, <2>1
  <2>3. \A k \in i .. (e - 1) : k = i
    BY <1>1, <2>1
  <2> QED
    BY <1>1, <1>8, <2>1, <2>2, <2>3, NotSpaces DEF IsToken, TokenKind
<1>9. CASE ~Ess(text, i) /\ ~Ll(text, i) /\ ~T!IsLetter(text[i]) /\ ~T!IsDigit(text[i])
  <2>1. IsOtherRun(text, i, e)
    BY <1>1, <1>3, <1>9, OthersAreARun
  <2>2. \A k \in i .. (e - 1) : ~T!IsSpace(text[k])
    BY <2>1, NotSpaces DEF IsOtherRun
  <2>3. e \in i .. (Len(text) + 1) /\ Boundary(text, e)
    BY <2>1 DEF IsOtherRun
  <2>4. T!IsOther(text[i])
    BY <1>9 DEF T!IsOther
  <2> QED
    BY <1>1, <1>2, <2>1, <2>2, <2>3, <2>4 DEF IsToken, TokenKind
<1> QED
  BY <1>5, <1>6, <1>7, <1>8, <1>9 DEF e

-----------------------------------------------------------------------------

(***************************************************************************)
(* Sequences put together (FlattenSeq).                                    *)
(***************************************************************************)

\* f[i] is the first i sequences together.
Together(f, seqs, B) ==
    /\ \A i \in 1 .. Len(seqs) : f[i] \in Seq(B)
    /\ f[1] = seqs[1]
    /\ \A i \in 2 .. Len(seqs) : f[i] = f[i - 1] \o seqs[i]
    /\ T!FlattenSeq(seqs) = f[Len(seqs)]

\* FlattenSeq is computed from the front.
LEMMA FlattenIs ==
  ASSUME NEW B, NEW seqs \in Seq(Seq(B)), Len(seqs) # 0
  PROVE  \E f : Together(f, seqs, B)
<1> DEFINE n == Len(seqs) - 1
           E == Seq(B)
           D == [k \in 0 .. n |-> E]
           step == [k \in 1 .. n |-> [d \in E |-> d \o seqs[k + 1]]]
           body(g, i) == IF i = 1 THEN seqs[i] ELSE g[i - 1] \o seqs[i]
           flatten == CHOOSE g : g = [i \in 1 .. Len(seqs) |-> body(g, i)]
<1>1. Len(seqs) \in Nat /\ n \in Nat /\ \A i \in 1 .. Len(seqs) : seqs[i] \in E
  OBVIOUS
<1>2. \A d \in E, k \in 1 .. n : d \o seqs[k + 1] \in E
  <2> SUFFICES ASSUME NEW d \in E, NEW k \in 1 .. n PROVE d \o seqs[k + 1] \in E
    OBVIOUS
  <2>1. seqs[k + 1] \in Seq(B)
    BY <1>1
  <2> QED
    BY <2>1, ConcatProperties
<1>3. D \in [0 .. n -> SUBSET E] /\ seqs[1] \in D[0]
  BY <1>1
<1>4. step \in [1 .. n -> [E -> E]]
  BY <1>2
<1>5. Leads(step, n, D)
  <2>1. ASSUME NEW k \in 1 .. n, NEW d \in D[k - 1] PROVE step[k][d] \in D[k]
    <3>1. k - 1 \in 0 .. n /\ k \in 0 .. n
      BY <1>1
    <3>2. D[k - 1] = E /\ D[k] = E
      BY <3>1
    <3>3. step[k][d] = d \o seqs[k + 1]
      BY <3>2
    <3> QED
      BY <1>2, <3>2, <3>3
  <2> HIDE DEF D, step
  <2> QED
    BY <2>1 DEF Leads
<1> HIDE DEF D, step, E
<1> DEFINE a == seqs[1]
<1> HIDE DEF a
<1>6a. a \in D[0]
  BY <1>3 DEF a
<1> HIDE DEF n
<1>6. \E f \in [0 .. n -> E] : Iterates(f, a, step, n, D)
  BY <1>1, <1>3, <1>4, <1>5, <1>6a, IterationExists
<1> USE DEF n
<1>7. PICK f \in [0 .. n -> E] : /\ f[0] = a
                                 /\ \A k \in 1 .. n : f[k] = step[k][f[k - 1]]
  BY <1>6 DEF Iterates
<1>8. ASSUME NEW k \in 1 .. n PROVE f[k] = f[k - 1] \o seqs[k + 1]
  <2>0. k - 1 \in 0 .. n
    BY <1>1
  <2>1. f[k - 1] \in E
    BY <1>7, <2>0
  <2> QED
    BY <1>7, <2>1 DEF step
<1> DEFINE g == [i \in 1 .. Len(seqs) |-> f[i - 1]]
<1>9. \A i \in 1 .. Len(seqs) : g[i] = body(g, i) /\ g[i] \in E
  <2> SUFFICES ASSUME NEW i \in 1 .. Len(seqs) PROVE g[i] = body(g, i) /\ g[i] \in E
    OBVIOUS
  <2>1. CASE i = 1
    BY <1>1, <1>7, <2>1 DEF a
  <2>2. CASE i # 1
    <3>1. i - 1 \in 1 .. n /\ i - 1 \in 1 .. Len(seqs) /\ (i - 1) + 1 = i /\ i - 1 \in 0 .. n
      BY <1>1, <2>2
    <3>2. f[i - 1] = f[(i - 1) - 1] \o seqs[i]
      BY <1>8, <3>1
    <3> QED
      BY <1>7, <2>2, <3>1, <3>2
  <2> QED
    BY <2>1, <2>2
<1>10. g = [i \in 1 .. Len(seqs) |-> body(g, i)]
  <2> DEFINE h == [i \in 1 .. Len(seqs) |-> body(g, i)]
  <2>1. \A i \in 1 .. Len(seqs) : g[i] = h[i]
    BY <1>9
  <2> QED
    BY <2>1
<1> HIDE DEF g
<1>11. flatten = [i \in 1 .. Len(seqs) |-> body(flatten, i)]
  BY <1>10
<1>12. \A i \in 1 .. Len(seqs) : flatten[i] = body(flatten, i)
  BY <1>11
<1>13. T!FlattenSeq(seqs) = flatten[Len(seqs)]
  BY DEF T!FlattenSeq
<1> HIDE DEF flatten
<1>14. \A i \in 2 .. Len(seqs) : flatten[i] = flatten[i - 1] \o seqs[i]
  <2> SUFFICES ASSUME NEW i \in 2 .. Len(seqs) PROVE flatten[i] = flatten[i - 1] \o seqs[i]
    OBVIOUS
  <2>1. i \in 1 .. Len(seqs) /\ i # 1
    BY <1>1
  <2> QED
    BY <1>12, <2>1
<1>15. flatten[1] = seqs[1]
  BY <1>1, <1>12
<1>16. \A i \in 1 .. Len(seqs) : flatten[i] \in E
  <2> DEFINE Z == {i \in Nat : i \in 1 .. Len(seqs) /\ flatten[i] \notin E}
  <2>0. ASSUME Z # {} PROVE FALSE
    <3>1. PICK i \in Z : \A j \in Z : i <= j
      BY <2>0, LeastNat
    <3>2. i # 1 /\ i \in 1 .. Len(seqs)
      BY <1>1, <1>15, <3>1
    <3>3. i - 1 \in 1 .. Len(seqs) /\ i \in 2 .. Len(seqs) /\ i - 1 \in 1 .. n
        /\ (i - 1) + 1 = i /\ i - 1 \in Nat /\ ~(i <= i - 1)
      BY <1>1, <3>2
    <3>4. flatten[i - 1] \in E
      BY <3>1, <3>3
    <3>5. flatten[i - 1] \o seqs[(i - 1) + 1] \in E
      BY <1>2, <3>3, <3>4
    <3> QED
      BY <1>14, <3>1, <3>3, <3>5
  <2>1. \A i \in 1 .. Len(seqs) : i \in Nat
    BY <1>1
  <2> HIDE DEF E
  <2> QED
    BY <2>0, <2>1
<1>17. Together(flatten, seqs, B)
  BY <1>13, <1>14, <1>15, <1>16 DEF Together, E
<1> QED
  BY <1>17

\* It gives nothing of nothing, and bytes of bytes.
LEMMA FlattenOne ==
  /\ T!FlattenSeq(<<>>) = <<>>
  /\ \A B : \A seqs \in Seq(Seq(B)) : T!FlattenSeq(seqs) \in Seq(B)
<1>1. T!FlattenSeq(<<>>) = <<>>
  BY DEF T!FlattenSeq
<1>2. ASSUME NEW B, NEW seqs \in Seq(Seq(B)) PROVE T!FlattenSeq(seqs) \in Seq(B)
  <2>1. CASE Len(seqs) = 0
    <3>1. seqs = <<>>
      BY <2>1, EmptySeq
    <3>2. T!FlattenSeq(seqs) = <<>>
      BY <1>1, <3>1
    <3> QED
      BY <3>2, EmptySeq
  <2>2. CASE Len(seqs) # 0
    <3>1. PICK f : Together(f, seqs, B)
      BY <2>2, FlattenIs
    <3>2. Len(seqs) \in 1 .. Len(seqs)
      BY <2>2
    <3> QED
      BY <3>1, <3>2 DEF Together
  <2> QED
    BY <2>1, <2>2
<1> QED
  BY <1>1, <1>2

\* The first of the sequences is the beginning of them together.
LEMMA FlattenCons ==
  ASSUME NEW B, NEW x \in Seq(B), NEW seqs \in Seq(Seq(B))
  PROVE  T!FlattenSeq(<<x>> \o seqs) = x \o T!FlattenSeq(seqs)
<1> DEFINE all == <<x>> \o seqs
           n == Len(seqs)
<1>1. n \in Nat /\ \A i \in 1 .. n : seqs[i] \in Seq(B)
  OBVIOUS
<1>2. /\ all \in Seq(Seq(B)) /\ Len(all) = n + 1 /\ all[1] = x
      /\ \A i \in 1 .. n : all[i + 1] = seqs[i]
  <2> DEFINE b == <<x>>
  <2>1. b \in Seq(Seq(B)) /\ Len(b) = 1 /\ b[1] = x
    OBVIOUS
  <2> HIDE DEF b
  <2>2. /\ b \o seqs \in Seq(Seq(B)) /\ Len(b \o seqs) = Len(b) + Len(seqs)
        /\ \A i \in 1 .. Len(b) + Len(seqs) : (b \o seqs)[i] =
                     IF i <= Len(b) THEN b[i] ELSE seqs[i - Len(b)]
    BY <2>1, ConcatProperties
  <2>3. all = b \o seqs
    BY DEF b
  <2> HIDE DEF all
  <2>4. \A i \in 1 .. n : i + 1 \in 1 .. Len(b) + Len(seqs) /\ ~(i + 1 <= Len(b))
                          /\ (i + 1) - Len(b) = i
    BY <1>1, <2>1
  <2> QED
    BY <1>1, <2>1, <2>2, <2>3, <2>4
<1> HIDE DEF all
<1>3. PICK g : Together(g, all, B)
  <2>1. Len(all) # 0
    BY <1>1, <1>2
  <2> QED
    BY <1>2, <2>1, FlattenIs
<1>4. /\ g[1] = x
      /\ \A i \in 1 .. n : g[i + 1] = g[i] \o seqs[i]
      /\ T!FlattenSeq(all) = g[n + 1]
  <2>1. \A i \in 1 .. n : i + 1 \in 2 .. Len(all) /\ (i + 1) - 1 = i
    BY <1>1, <1>2
  <2> QED
    BY <1>2, <1>3, <2>1 DEF Together
<1>5. CASE n = 0
  <2>1. seqs = <<>> /\ T!FlattenSeq(seqs) = <<>>
    BY <1>5, EmptySeq, FlattenOne
  <2> QED
    BY <1>4, <1>5, <2>1, ConcatEmptySeq DEF all
<1>6. CASE n # 0
  <2>1. PICK f : Together(f, seqs, B)
    BY <1>6, FlattenIs
  <2>2. /\ f[1] = seqs[1] /\ T!FlattenSeq(seqs) = f[n]
        /\ \A i \in 1 .. n : f[i] \in Seq(B)
        /\ \A i \in 2 .. n : f[i] = f[i - 1] \o seqs[i]
    BY <2>1 DEF Together
  <2> DEFINE Z == {i \in Nat : i \in 1 .. n /\ g[i + 1] # x \o f[i]}
  <2>3. Z = {}
    <3> SUFFICES ASSUME Z # {} PROVE FALSE
      OBVIOUS
    <3>1. PICK i \in Z : \A j \in Z : i <= j
      BY LeastNat
    <3>2. i # 1 /\ i \in 1 .. n
      BY <1>1, <1>4, <1>6, <2>2, <3>1
    <3>3a. i - 1 \in 1 .. n /\ i - 1 \in Nat /\ i \in 2 .. n /\ (i - 1) + 1 = i /\ ~(i <= i - 1)
      BY <1>1, <3>2
    <3>3b. i - 1 \notin Z
      BY <3>1, <3>3a
    <3>3. i - 1 \in 1 .. n /\ i - 1 \notin Z /\ i \in 2 .. n /\ (i - 1) + 1 = i
      BY <3>3a, <3>3b
    <3>4. g[i] = x \o f[i - 1]
      BY <3>3a, <3>3b
    <3>5. (x \o f[i - 1]) \o seqs[i] = x \o (f[i - 1] \o seqs[i])
      <4>1. f[i - 1] \in Seq(B) /\ seqs[i] \in Seq(B)
        BY <1>1, <2>2, <3>3
      <4> DEFINE u == f[i - 1] v == seqs[i]
      <4>2. x \in Seq(B) /\ u \in Seq(B) /\ v \in Seq(B)
        BY <4>1
      <4> HIDE DEF u, v
      <4>3. (x \o u) \o v = x \o (u \o v)
        <5> HIDE DEF Z
        <5> QED
        BY <4>2
      <4> QED
        BY <4>3 DEF u, v
    <3>6. g[i + 1] = x \o f[i]
      BY <1>4, <2>2, <3>3, <3>4, <3>5
    <3> QED
      BY <3>1, <3>6
  <2>4. n \in 1 .. n
    BY <1>1, <1>6
  <2>5. g[n + 1] = x \o f[n]
    BY <1>1, <2>3, <2>4
  <2> QED
    BY <1>4, <2>2, <2>5 DEF all
<1> QED
  BY <1>5, <1>6

-----------------------------------------------------------------------------
(* The words of a text. *)

\* An element before a sequence.
LEMMA ConsIs ==
  ASSUME NEW E, NEW x \in E, NEW s \in Seq(E)
  PROVE  /\ <<x>> \o s \in Seq(E) /\ Len(<<x>> \o s) = Len(s) + 1 /\ Len(s) \in Nat
         /\ (<<x>> \o s)[1] = x
         /\ \A k \in 1 .. Len(s) : (<<x>> \o s)[k + 1] = s[k]
<1> DEFINE b == <<x>>
<1>1. b \in Seq(E) /\ Len(b) = 1 /\ b[1] = x /\ Len(s) \in Nat
  OBVIOUS
<1> HIDE DEF b
<1>2. /\ b \o s \in Seq(E) /\ Len(b \o s) = Len(b) + Len(s)
      /\ \A i \in 1 .. Len(b) + Len(s) : (b \o s)[i] =
                     IF i <= Len(b) THEN b[i] ELSE s[i - Len(b)]
  BY <1>1, ConcatProperties
<1>3. \A i \in 1 .. Len(s) : i + 1 \in 1 .. Len(b) + Len(s) /\ ~(i + 1 <= Len(b))
                          /\ (i + 1) - Len(b) = i
  BY <1>1
<1>4. b \o s \in Seq(E) /\ Len(b \o s) = Len(s) + 1 /\ Len(s) \in Nat
      /\ (b \o s)[1] = x /\ \A k \in 1 .. Len(s) : (b \o s)[k + 1] = s[k]
  BY <1>1, <1>2, <1>3
<1> QED
  BY <1>4 DEF b

\* Where a definition of T looks from: sam3_pretokenize from i on.
WordsFrom(text, i) ==
    LET from[j \in Nat] ==
            IF j > Len(text) THEN <<>>
            ELSE IF T!IsSpace(text[j]) THEN from[j + 1]
            ELSE <<SubSeq(text, j, T!TokenEnd(text, j) - 1)>> \o from[T!TokenEnd(text, j)]
    IN  from[i]

\* The text without spaces from i on.
RestFrom(text, i) ==
    LET from[j \in Nat] ==
            IF j > Len(text) THEN <<>>
            ELSE IF T!IsSpace(text[j]) THEN from[j + 1]
            ELSE <<text[j]>> \o from[j + 1]
    IN  from[i]

\* The words of a text are those from its first byte on.
LEMMA FromTheFirst ==
  \A text : T!Pretokenize(text) = WordsFrom(text, 1) /\ T!Unspaced(text) = RestFrom(text, 1)
BY DEF T!Pretokenize, T!Unspaced, WordsFrom, RestFrom

\* One step of sam3_pretokenize.
LEMMA WordsFromIs ==
  ASSUME NEW text, Len(text) \in Nat, NEW i \in Nat
  PROVE  WordsFrom(text, i) =
           IF i > Len(text) THEN <<>>
           ELSE IF T!IsSpace(text[i]) THEN WordsFrom(text, i + 1)
           ELSE <<SubSeq(text, i, T!TokenEnd(text, i) - 1)>> \o WordsFrom(text, T!TokenEnd(text, i))
<1> DEFINE goes == {j \in Nat : j <= Len(text)}
           takes == {j \in Nat : ~T!IsSpace(text[j])}
           to == [j \in Nat |-> IF T!IsSpace(text[j]) THEN j + 1 ELSE T!TokenEnd(text, j)]
           head == [j \in Nat |-> <<SubSeq(text, j, T!TokenEnd(text, j) - 1)>>]
           base == [j \in Nat |-> <<>>]
           body(f, j) == IF j > Len(text) THEN <<>>
                         ELSE IF T!IsSpace(text[j]) THEN f[j + 1]
                         ELSE <<SubSeq(text, j, T!TokenEnd(text, j) - 1)>>
                                  \o f[T!TokenEnd(text, j)]
           from == CHOOSE f : f = [j \in Nat |-> body(f, j)]
<1>1. ASSUME NEW j \in goes
      PROVE  /\ j \in Nat /\ j <= Len(text)
             /\ to[j] = IF T!IsSpace(text[j]) THEN j + 1 ELSE T!TokenEnd(text, j)
             /\ ~T!IsSpace(text[j]) => T!TokenEnd(text, j) \in Nat /\ j < T!TokenEnd(text, j)
  <2>1. j \in Nat /\ j <= Len(text)
    OBVIOUS
  <2> QED
    BY <2>1, TokenGoesOn
<1> HIDE DEF to
<1>2. Forward(goes, to, Len(text) + 1)
  BY <1>1 DEF Forward
<1>3. ASSUME NEW f, NEW j \in Nat PROVE Made(f, goes, takes, to, head, base, j) = body(f, j)
  <2>1. j \in goes <=> ~(j > Len(text))
    OBVIOUS
  <2>2. j \in takes <=> ~T!IsSpace(text[j])
    OBVIOUS
  <2>3. to[j] = IF T!IsSpace(text[j]) THEN j + 1 ELSE T!TokenEnd(text, j)
    BY DEF to
  <2>4. head[j] = <<SubSeq(text, j, T!TokenEnd(text, j) - 1)>> /\ base[j] = <<>>
    OBVIOUS
  <2> HIDE DEF goes, takes, head, base
  <2> QED
    BY <2>1, <2>2, <2>3, <2>4 DEF Made
<1>4. \E f : f = [j \in Nat |-> Made(f, goes, takes, to, head, base, j)]
  <2>1. goes \in SUBSET Nat /\ Len(text) + 1 \in Nat
    OBVIOUS
  <2> HIDE DEF goes, to, head, base, takes
  <2>2. Defines(goes, takes, to, head, base)
    BY <1>2, <2>1, ForwardExists
  <2> QED
    BY <2>2 DEF Defines
<1> HIDE DEF goes, to, head, base, takes, body
<1>5. \E f : f = [j \in Nat |-> body(f, j)]
  BY <1>3, <1>4
<1>6. from = [j \in Nat |-> body(from, j)]
  BY <1>5
<1>7. \A j \in Nat : WordsFrom(text, j) = from[j]
  BY DEF WordsFrom, body
<1> HIDE DEF from
<1>8. WordsFrom(text, i) = body(from, i)
  BY <1>6, <1>7
<1>9. ~(i > Len(text)) /\ ~T!IsSpace(text[i]) => T!TokenEnd(text, i) \in Nat
  BY TokenGoesOn
<1>10. i + 1 \in Nat
  OBVIOUS
<1> QED
  BY <1>7, <1>8, <1>9, <1>10 DEF body

\* One byte of the text without spaces.
LEMMA RestFromIs ==
  ASSUME NEW text, Len(text) \in Nat, NEW i \in Nat
  PROVE  RestFrom(text, i) =
           IF i > Len(text) THEN <<>>
           ELSE IF T!IsSpace(text[i]) THEN RestFrom(text, i + 1)
           ELSE <<text[i]>> \o RestFrom(text, i + 1)
<1> DEFINE goes == {j \in Nat : j <= Len(text)}
           takes == {j \in Nat : ~T!IsSpace(text[j])}
           to == [j \in Nat |-> j + 1]
           head == [j \in Nat |-> <<text[j]>>]
           base == [j \in Nat |-> <<>>]
           body(f, j) == IF j > Len(text) THEN <<>>
                         ELSE IF T!IsSpace(text[j]) THEN f[j + 1]
                         ELSE <<text[j]>> \o f[j + 1]
           from == CHOOSE f : f = [j \in Nat |-> body(f, j)]
<1>2. Forward(goes, to, Len(text) + 1)
  BY DEF Forward
<1>3. ASSUME NEW f, NEW j \in Nat PROVE Made(f, goes, takes, to, head, base, j) = body(f, j)
  <2>1. j \in goes <=> ~(j > Len(text))
    OBVIOUS
  <2>2. j \in takes <=> ~T!IsSpace(text[j])
    OBVIOUS
  <2>3. to[j] = j + 1
    BY DEF to
  <2>4. head[j] = <<text[j]>> /\ base[j] = <<>>
    OBVIOUS
  <2> HIDE DEF goes, takes, head, base, to
  <2> QED
    BY <2>1, <2>2, <2>3, <2>4 DEF Made
<1>4. \E f : f = [j \in Nat |-> Made(f, goes, takes, to, head, base, j)]
  <2>1. goes \in SUBSET Nat /\ Len(text) + 1 \in Nat
    OBVIOUS
  <2> HIDE DEF goes, to, head, base, takes
  <2>2. Defines(goes, takes, to, head, base)
    BY <1>2, <2>1, ForwardExists
  <2> QED
    BY <2>2 DEF Defines
<1> HIDE DEF goes, to, head, base, takes, body
<1>5. \E f : f = [j \in Nat |-> body(f, j)]
  BY <1>3, <1>4
<1>6. from = [j \in Nat |-> body(from, j)]
  BY <1>5
<1>7. \A j \in Nat : RestFrom(text, j) = from[j]
  BY DEF RestFrom, body
<1> HIDE DEF from
<1>8. RestFrom(text, i) = body(from, i)
  BY <1>6, <1>7
<1>10. i + 1 \in Nat
  OBVIOUS
<1> QED
  BY <1>7, <1>8, <1>10 DEF body

\* What is left is a text.
LEMMA RestIsText ==
  ASSUME NEW text \in Seq(T!Bytes), NEW i \in Nat \ {0}
  PROVE  RestFrom(text, i) \in Seq(T!Bytes)
<1> DEFINE R(j) == RestFrom(text, j) \in Seq(T!Bytes)
           Z == {j \in Nat \ {0} : ~R(j)}
<1>1. Len(text) \in Nat /\ \A j \in 1 .. Len(text) : text[j] \in T!Bytes
  OBVIOUS
<1>2. \A j \in Nat : j > Len(text) => R(j)
  BY <1>1, RestFromIs, EmptySeq
<1>3. ASSUME NEW j \in 1 .. Len(text), R(j + 1) PROVE R(j)
  <2>1. j \in Nat /\ ~(j > Len(text)) /\ text[j] \in T!Bytes
    BY <1>1
  <2>2. RestFrom(text, j) = IF T!IsSpace(text[j]) THEN RestFrom(text, j + 1)
                            ELSE <<text[j]>> \o RestFrom(text, j + 1)
    BY <1>1, <2>1, RestFromIs
  <2>3. <<text[j]>> \o RestFrom(text, j + 1) \in Seq(T!Bytes)
    BY <1>3, <2>1, ConsIs
  <2> QED
    BY <1>3, <2>2, <2>3
<1> HIDE DEF R
<1>4. ASSUME Z # {} PROVE FALSE
  <2>1. Z \in SUBSET Nat /\ \A j \in Z : j <= Len(text)
    BY <1>1, <1>2
  <2>2. PICK j \in Z : \A k \in Z : k <= j
    BY <1>1, <1>4, <2>1, Backward
  <2>3. j \in 1 .. Len(text) /\ j + 1 \in Nat \ {0} /\ ~(j + 1 <= j)
    BY <1>1, <2>1, <2>2
  <2>4. R(j + 1)
    BY <2>2, <2>3
  <2> QED
    BY <1>3, <2>2, <2>3, <2>4
<1>5. R(i)
  BY <1>4
<1> QED
  BY <1>5 DEF R

\* What is no space is kept, in its order.
LEMMA RestOfRun ==
  ASSUME NEW text \in Seq(T!Bytes), NEW e \in 1 .. (Len(text) + 1), NEW i \in 1 .. e,
         \A k \in i .. (e - 1) : ~T!IsSpace(text[k])
  PROVE  RestFrom(text, i) = SubSeq(text, i, e - 1) \o RestFrom(text, e)
<1> DEFINE rest == RestFrom(text, e)
           Same(j) == RestFrom(text, j) = SubSeq(text, j, e - 1) \o rest
           Z == {j \in i .. e : ~Same(j)}
<1>0. Len(text) \in Nat /\ e \in Nat \ {0} /\ i \in Nat \ {0}
  OBVIOUS
<1>1. Len(text) \in Nat /\ e \in Nat \ {0} /\ rest \in Seq(T!Bytes) /\ i \in Nat \ {0}
  BY <1>0, RestIsText
<1> HIDE DEF rest
<1>2. Same(e)
  <2>1. SubSeq(text, e, e - 1) = <<>>
    BY <1>1, SubSeqEmpty
  <2> QED
    BY <1>1, <2>1, ConcatEmptySeq DEF rest
<1>3. ASSUME NEW j \in i .. (e - 1), Same(j + 1) PROVE Same(j)
  <2>1. j \in Nat \ {0} /\ j \in 1 .. Len(text) /\ ~(j > Len(text)) /\ ~T!IsSpace(text[j])
        /\ e - 1 \in j .. Len(text) /\ e - 1 \in Nat /\ j + 1 \in Nat
    BY <1>1
  <2> DEFINE b == <<text[j]>> mid == SubSeq(text, j + 1, e - 1)
  <2>2. RestFrom(text, j) = b \o RestFrom(text, j + 1)
    BY <1>1, <2>1, RestFromIs
  <2>3. b \in Seq(T!Bytes)
    <3>1. text[j] \in T!Bytes
      BY <2>1
    <3> QED
      BY <3>1
  <2>4. mid \in Seq(T!Bytes)
    <3>1. \A k \in (j + 1) .. (e - 1) : text[k] \in T!Bytes
      BY <1>1, <2>1
    <3> QED
      BY <2>1, <3>1, SubSeqProperties
  <2>5. SubSeq(text, j, e - 1) = b \o mid
    BY <2>1, SubSeqRecursiveFirst
  <2> HIDE DEF b, mid
  <2>6. (b \o mid) \o rest = b \o (mid \o rest)
    BY <1>1, <2>3, <2>4
  <2>7. RestFrom(text, j + 1) = mid \o rest
    BY <1>3 DEF mid
  <2> QED
    BY <2>2, <2>5, <2>6, <2>7
<1> HIDE DEF Same
<1>4. ASSUME Z # {} PROVE FALSE
  <2>1. Z \in SUBSET Nat /\ \A j \in Z : j <= e
    BY <1>1
  <2>2. PICK j \in Z : \A k \in Z : k <= j
    BY <1>1, <1>4, <2>1, Backward
  <2>3. j \in i .. (e - 1) /\ j + 1 \in i .. e /\ ~(j + 1 <= j)
    BY <1>1, <1>2, <2>1, <2>2
  <2>4. Same(j + 1)
    BY <2>2, <2>3
  <2> QED
    BY <1>3, <2>2, <2>3, <2>4
<1>5. Same(i)
  BY <1>1, <1>4
<1> QED
  BY <1>5 DEF Same, rest

\* The token at p of a text.
TokenAt(text, p) == SubSeq(text, p, T!TokenEnd(text, p) - 1)

\* Where a token begins.
Begins(text, p) == p \in 1 .. Len(text) /\ Boundary(text, p) /\ ~T!IsSpace(text[p])

\* The bytes of a token.
LEMMA TokenBytes ==
  ASSUME NEW text \in Seq(T!Bytes), WellFormed(text), NEW p \in Nat, Begins(text, p)
  PROVE  /\ IsToken(text, p, T!TokenEnd(text, p))
         /\ T!TokenEnd(text, p) \in (p + 1) .. (Len(text) + 1)
         /\ TokenAt(text, p) \in Seq(T!Bytes)
         /\ Len(TokenAt(text, p)) = T!TokenEnd(text, p) - p
         /\ \A k \in 1 .. (T!TokenEnd(text, p) - p) : TokenAt(text, p)[k] = text[p + k - 1]
<1>1. Len(text) \in Nat /\ p \in 1 .. Len(text) /\ Boundary(text, p) /\ ~T!IsSpace(text[p])
  BY DEF Begins
<1> DEFINE e == T!TokenEnd(text, p)
<1>2. IsToken(text, p, e)
  BY <1>1, TokensAre
<1> HIDE DEF e
<1>3. e \in (p + 1) .. (Len(text) + 1)
  BY <1>2 DEF IsToken
<1> DEFINE w == SubSeq(text, p, e - 1)
<1>4. \A k \in p .. (e - 1) : text[k] \in T!Bytes
  BY <1>1, <1>3
<1>5. p \in Int /\ e - 1 \in Int /\ (e - 1) - p + 1 = e - p /\ p <= e - 1
  BY <1>1, <1>3
<1>6. /\ w \in Seq(T!Bytes) /\ Len(w) = (e - 1) - p + 1
      /\ \A k \in 1 .. (e - 1) - p + 1 : w[k] = text[p + k - 1]
  BY <1>4, <1>5, SubSeqProperties
<1>7. TokenAt(text, p) = w
  BY DEF TokenAt, e
<1> HIDE DEF w
<1> QED
  BY <1>2, <1>3, <1>5, <1>6, <1>7 DEF e

\* From a boundary on, the words are tokens, and together the text.
Worded(text, i) ==
    LET words == WordsFrom(text, i)
    IN  /\ words \in Seq(Seq(T!Bytes))
        /\ T!FlattenSeq(words) = RestFrom(text, i)
        /\ \A k \in 1 .. Len(words) : \E p \in 1 .. Len(text) :
               Begins(text, p) /\ words[k] = TokenAt(text, p)

\* Without spaces, each begins where the one before ends.
Linked(text, i) ==
    LET words == WordsFrom(text, i)
    IN  /\ i <= Len(text) => Len(words) >= 1 /\ words[1] = TokenAt(text, i)
        /\ \A k \in 1 .. (Len(words) - 1) : \E p \in 1 .. Len(text) :
               /\ Begins(text, p) /\ Begins(text, T!TokenEnd(text, p))
               /\ words[k] = TokenAt(text, p)
               /\ words[k + 1] = TokenAt(text, T!TokenEnd(text, p))

\* So it is from every boundary of a well-formed text.
LEMMA WordsAreTokens ==
  ASSUME NEW text \in Seq(T!Bytes), WellFormed(text), NEW i \in 1 .. (Len(text) + 1),
         Boundary(text, i)
  PROVE  /\ Worded(text, i)
         /\ (\A k \in 1 .. Len(text) : ~T!IsSpace(text[k])) => Linked(text, i)
<1> DEFINE Spaceless == \A k \in 1 .. Len(text) : ~T!IsSpace(text[k])
           Good(j) == Boundary(text, j) => Worded(text, j) /\ (Spaceless => Linked(text, j))
           Z == {j \in 1 .. (Len(text) + 1) : ~Good(j)}
<1>1. Len(text) \in Nat
  OBVIOUS
<1>2. ASSUME NEW j \in 1 .. (Len(text) + 1), Boundary(text, j),
             \A k \in 1 .. (Len(text) + 1) : k > j => Good(k)
      PROVE  Worded(text, j) /\ (Spaceless => Linked(text, j))
  <2>1. CASE j > Len(text)
    <3>0. j \in Nat
      BY <1>1
    <3>1. WordsFrom(text, j) = <<>> /\ RestFrom(text, j) = <<>>
      BY <1>1, <2>1, <3>0, WordsFromIs, RestFromIs
    <3>2. T!FlattenSeq(<<>>) = <<>> /\ Len(<<>>) = 0 /\ <<>> \in Seq(Seq(T!Bytes))
      BY FlattenOne, EmptySeq
    <3> QED
      BY <1>1, <2>1, <3>1, <3>2 DEF Worded, Linked
  <2>2. CASE j <= Len(text) /\ T!IsSpace(text[j])
    <3>1. text[j] # "lead" /\ j \in 1 .. Len(text) /\ j + 1 \in 1 .. (Len(text) + 1) /\ j + 1 > j
          /\ ~(j > Len(text)) /\ j \in Nat
      BY <1>1, <2>2, NotSpaces DEF T!IsLetter
    <3>2. Boundary(text, j + 1)
      BY <1>2, <3>1, BoundaryMoves
    <3>3. Good(j + 1)
      BY <1>2, <3>1
    <3>4. Worded(text, j + 1)
      BY <3>2, <3>3
    <3>5. WordsFrom(text, j) = WordsFrom(text, j + 1) /\ RestFrom(text, j) = RestFrom(text, j + 1)
      BY <1>1, <2>2, <3>1, WordsFromIs, RestFromIs
    <3>6. ~Spaceless
      BY <2>2, <3>1
    <3> HIDE DEF Spaceless
    <3> QED
      BY <3>4, <3>5, <3>6 DEF Worded
  <2>3. CASE j <= Len(text) /\ ~T!IsSpace(text[j])
    <3> DEFINE e == T!TokenEnd(text, j)
               w == TokenAt(text, j)
               later == WordsFrom(text, e)
               all == WordsFrom(text, j)
    <3>1. j \in 1 .. Len(text) /\ Begins(text, j) /\ j \in Nat
      BY <1>1, <1>2, <2>3 DEF Begins
    <3>2. /\ IsToken(text, j, e) /\ e \in (j + 1) .. (Len(text) + 1)
          /\ w \in Seq(T!Bytes)
      BY <3>1, TokenBytes
    <3>3. all = <<w>> \o later
      BY <1>1, <2>3, <3>1, WordsFromIs DEF TokenAt
    <3> HIDE DEF e
    <3>4. Boundary(text, e) /\ \A k \in j .. (e - 1) : ~T!IsSpace(text[k])
      BY <3>2 DEF IsToken
    <3>5. e \in 1 .. (Len(text) + 1) /\ e > j
      BY <1>1, <3>1, <3>2
    <3>6. Good(e)
      BY <1>2, <3>5
    <3>7. Worded(text, e) /\ (Spaceless => Linked(text, e))
      BY <3>4, <3>6
    <3>8. /\ later \in Seq(Seq(T!Bytes)) /\ T!FlattenSeq(later) = RestFrom(text, e)
          /\ \A k \in 1 .. Len(later) : \E p \in 1 .. Len(text) :
               Begins(text, p) /\ later[k] = TokenAt(text, p)
      BY <3>7 DEF Worded
    <3>9. RestFrom(text, j) = w \o RestFrom(text, e)
      <4>1. j \in 1 .. e
        BY <3>1, <3>5
      <4>2. RestFrom(text, j) = SubSeq(text, j, e - 1) \o RestFrom(text, e)
        BY <3>4, <3>5, <4>1, RestOfRun
      <4>3. w = SubSeq(text, j, e - 1)
        BY DEF TokenAt, e
      <4> QED
        BY <4>2, <4>3
    <3> HIDE DEF w, later, all
    <3>10. /\ all \in Seq(Seq(T!Bytes)) /\ Len(all) = Len(later) + 1 /\ Len(later) \in Nat
           /\ all[1] = w /\ \A k \in 1 .. Len(later) : all[k + 1] = later[k]
      BY <3>2, <3>3, <3>8, ConsIs
    <3>11. T!FlattenSeq(all) = RestFrom(text, j)
      BY <3>2, <3>3, <3>8, <3>9, FlattenCons
    <3>12. ASSUME NEW k \in 1 .. Len(all)
           PROVE  \E p \in 1 .. Len(text) : Begins(text, p) /\ all[k] = TokenAt(text, p)
      <4>1. CASE k = 1
        BY <3>1, <3>10, <4>1 DEF w
      <4>2. CASE k # 1
        <5>1. k - 1 \in 1 .. Len(later) /\ (k - 1) + 1 = k
          BY <3>10, <4>2
        <5>2. all[k] = later[k - 1]
          BY <3>10, <5>1
        <5> QED
          BY <3>8, <5>1, <5>2
      <4> QED
        BY <4>1, <4>2
    <3>13. Worded(text, j)
      BY <3>10, <3>11, <3>12 DEF Worded, all
    <3>14. ASSUME Spaceless PROVE Linked(text, j)
      <4>1. /\ e <= Len(text) => Len(later) >= 1 /\ later[1] = TokenAt(text, e)
            /\ \A k \in 1 .. (Len(later) - 1) : \E p \in 1 .. Len(text) :
                 /\ Begins(text, p) /\ Begins(text, T!TokenEnd(text, p))
                 /\ later[k] = TokenAt(text, p)
                 /\ later[k + 1] = TokenAt(text, T!TokenEnd(text, p))
        BY <3>7, <3>14 DEF Linked, later
      <4>2. e > Len(text) => Len(later) = 0
        <5>1. e > Len(text) => later = <<>>
          <6>1. e \in Nat
            BY <1>1, <3>5
          <6> QED
            BY <1>1, <6>1, WordsFromIs DEF later
        <5> QED
          BY <5>1
      <4>3. ASSUME NEW k \in 1 .. (Len(all) - 1)
            PROVE  \E p \in 1 .. Len(text) :
                     /\ Begins(text, p) /\ Begins(text, T!TokenEnd(text, p))
                     /\ all[k] = TokenAt(text, p)
                     /\ all[k + 1] = TokenAt(text, T!TokenEnd(text, p))
        <5>0. k \in 1 .. Len(later)
          BY <3>10
        <5>1. CASE k = 1
          <6>1. e <= Len(text) /\ e \in 1 .. Len(text) /\ later[1] = TokenAt(text, e)
            BY <1>1, <3>5, <3>10, <4>1, <4>2, <5>0, <5>1
          <6>2. all[k + 1] = TokenAt(text, e) /\ all[k] = TokenAt(text, j)
            BY <3>10, <5>0, <5>1, <6>1 DEF w
          <6>3. Begins(text, e)
            BY <3>4, <3>14, <6>1 DEF Begins
          <6> QED
            BY <3>1, <6>2, <6>3 DEF e
        <5>2. CASE k # 1
          <6>1. k - 1 \in 1 .. (Len(later) - 1) /\ (k - 1) + 1 = k /\ k - 1 \in 1 .. Len(later)
            BY <3>10, <5>0, <5>2
          <6>2. all[k] = later[k - 1] /\ all[k + 1] = later[k]
            BY <3>10, <5>0, <6>1
          <6>3. PICK p \in 1 .. Len(text) :
                  /\ Begins(text, p) /\ Begins(text, T!TokenEnd(text, p))
                  /\ later[k - 1] = TokenAt(text, p)
                  /\ later[(k - 1) + 1] = TokenAt(text, T!TokenEnd(text, p))
            BY <4>1, <6>1
          <6> QED
            BY <6>1, <6>2, <6>3
        <5> QED
          BY <5>1, <5>2
      <4>4. Len(all) >= 1 /\ all[1] = TokenAt(text, j)
        BY <3>10 DEF w
      <4> QED
        BY <4>3, <4>4 DEF Linked, all
    <3> HIDE DEF Spaceless
    <3> QED
      BY <3>13, <3>14
  <2> HIDE DEF Spaceless
  <2> QED
    BY <1>1, <2>1, <2>2, <2>3
<1> HIDE DEF Spaceless
<1>3. Z = {}
  <2> SUFFICES ASSUME Z # {} PROVE FALSE
    OBVIOUS
  <2>1. Z \in SUBSET Nat /\ (\A j \in Z : j <= Len(text) + 1) /\ Len(text) + 1 \in Nat
    BY <1>1
  <2>2. PICK j \in Z : \A k \in Z : k <= j
    BY <2>1, Backward
  <2> HIDE DEF Good
  <2>3. \A k \in 1 .. (Len(text) + 1) : k > j => Good(k)
    BY <1>1, <2>2
  <2>4. j \in 1 .. (Len(text) + 1) /\ ~Good(j)
    BY <2>2
  <2> USE DEF Good
  <2> QED
    BY <1>2, <2>3, <2>4
<1>4. Good(i)
  BY <1>3
<1> QED
  BY <1>4 DEF Spaceless

-----------------------------------------------------------------------------
(* Kinds of words. *)

\* The kind WordsAreTheText gives a word.
KindOf(w) == CASE w \in T!Contractions -> "contraction"
               [] T!IsLetter(w[1])      -> "letters"
               [] T!IsDigit(w[1])       -> "digit"
               [] OTHER                 -> "others"

\* Short sequences are tuples.
LEMMA ShortTuples ==
  ASSUME NEW E, NEW w \in Seq(E)
  PROVE  /\ Len(w) = 2 => w = <<w[1], w[2]>>
         /\ Len(w) = 3 => w = <<w[1], w[2], w[3]>>
<1>1. ASSUME Len(w) = 2 PROVE w = <<w[1], w[2]>>
  <2>1. w \in [1 .. 2 -> E]
    BY <1>1, SMTT(30)
  <2> DEFINE v == <<w[1], w[2]>>
  <2>2. DOMAIN v = 1 .. 2 /\ v[1] = w[1] /\ v[2] = w[2] /\ v = [i \in 1 .. 2 |-> v[i]]
    OBVIOUS
  <2>3. w = [i \in 1 .. 2 |-> w[i]]
    BY <2>1
  <2> HIDE DEF v
  <2>4. \A i \in 1 .. 2 : v[i] = w[i]
    BY <2>2
  <2>5. v = w
    BY <2>2, <2>3, <2>4
  <2> QED
    BY <2>5 DEF v
<1>2. ASSUME Len(w) = 3 PROVE w = <<w[1], w[2], w[3]>>
  <2>1. w \in [1 .. 3 -> E]
    BY <1>2
  <2> DEFINE v == <<w[1], w[2], w[3]>>
  <2>2. /\ DOMAIN v = 1 .. 3 /\ v[1] = w[1] /\ v[2] = w[2] /\ v[3] = w[3]
        /\ v = [i \in 1 .. 3 |-> v[i]]
    OBVIOUS
  <2>3. w = [i \in 1 .. 3 |-> w[i]]
    BY <2>1
  <2> HIDE DEF v
  <2>4. \A i \in 1 .. 3 : v[i] = w[i]
    BY <2>2
  <2>5. v = w
    BY <2>2, <2>3, <2>4
  <2> QED
    BY <2>5 DEF v
<1> QED
  BY <1>1, <1>2

\* The kinds in their order.
LEMMA KindIs ==
  ASSUME NEW w
  PROVE  KindOf(w) = IF w \in T!Contractions THEN "contraction"
                     ELSE IF T!IsLetter(w[1]) THEN "letters"
                     ELSE IF T!IsDigit(w[1]) THEN "digit" ELSE "others"
<1> DEFINE short == w \in T!Contractions
           letter == T!IsLetter(w[1])
           digit == T!IsDigit(w[1])
<1>1. short => w[1] = "'"
  BY DEF T!Contractions
<1>2. (letter => ~digit) /\ (short => ~letter /\ ~digit)
  BY <1>1 DEF T!IsLetter, T!IsDigit
<1>3. KindOf(w) = CASE short -> "contraction" [] letter -> "letters" [] digit -> "digit"
                    [] OTHER -> "others"
  BY DEF KindOf
<1> HIDE DEF short, letter, digit
<1>4. KindOf(w) = IF short THEN "contraction" ELSE IF letter THEN "letters"
                  ELSE IF digit THEN "digit" ELSE "others"
  BY <1>2, <1>3
<1> QED
  BY <1>4 DEF short, letter, digit

\* The token at p is of one kind, as long as it can be.
LEMMA TokenIsOfOneKind ==
  ASSUME NEW text \in Seq(T!Bytes), WellFormed(text), NEW p \in Nat, Begins(text, p)
  PROVE  LET w == TokenAt(text, p)
             e == T!TokenEnd(text, p)
         IN  /\ KindOf(w) = "digit" => Len(w) = 1
             /\ KindOf(w) = "letters" =>
                   /\ \A k \in 1 .. Len(w) : T!IsLetter(w[k]) \/ w[k] = "cont"
                   /\ e <= Len(text) => ~T!IsLetter(text[e])
             /\ KindOf(w) = "others" =>
                   /\ \A k \in 1 .. Len(w) : T!IsOther(w[k]) /\ w[k] # "cont"
                   /\ e <= Len(text) => ~T!IsOther(text[e])
<1> DEFINE w == TokenAt(text, p)
           e == T!TokenEnd(text, p)
<1>1. /\ IsToken(text, p, e) /\ e \in (p + 1) .. (Len(text) + 1)
      /\ w \in Seq(T!Bytes) /\ Len(w) = e - p
      /\ \A k \in 1 .. (e - p) : w[k] = text[p + k - 1]
  BY TokenBytes
<1> HIDE DEF w, e
<1>2. Len(text) \in Nat
  OBVIOUS
<1>3. w[1] = text[p]
  <2>1. 1 \in 1 .. (e - p) /\ p + 1 - 1 = p
    BY <1>1, <1>2
  <2> QED
    BY <1>1, <2>1
<1>4. TokenKind(text, p, e)
  BY <1>1 DEF IsToken
<1>5. ContractionToken(text, p, e) => w \in T!Contractions
  <2>1. ASSUME e = p + 2, text[p] = "'", text[p + 1] = "s" PROVE w \in T!Contractions
    <3>1. Len(w) = 2 /\ 2 \in 1 .. (e - p) /\ p + 2 - 1 = p + 1
      BY <1>1, <2>1
    <3>2. w[2] = "s"
      BY <1>1, <2>1, <3>1
    <3>3. w = <<w[1], w[2]>>
      BY <1>1, <3>1, ShortTuples
    <3> QED
      BY <1>3, <2>1, <3>2, <3>3 DEF T!Contractions
  <2>2. ASSUME e = p + 3, text[p] = "'", text[p + 1] = "l", text[p + 2] = "l"
        PROVE  w \in T!Contractions
    <3>1. /\ Len(w) = 3 /\ 2 \in 1 .. (e - p) /\ p + 2 - 1 = p + 1
          /\ 3 \in 1 .. (e - p) /\ p + 3 - 1 = p + 2
      BY <1>1, <2>2
    <3>2. w[2] = "l" /\ w[3] = "l"
      BY <1>1, <2>2, <3>1
    <3>3. w = <<w[1], w[2], w[3]>>
      BY <1>1, <3>1, ShortTuples
    <3> QED
      BY <1>3, <2>2, <3>2, <3>3 DEF T!Contractions
  <2> QED
    BY <2>1, <2>2 DEF ContractionToken
<1>6. /\ KindOf(w) = "digit" => w \notin T!Contractions /\ ~T!IsLetter(w[1]) /\ T!IsDigit(w[1])
      /\ KindOf(w) = "letters" => w \notin T!Contractions /\ T!IsLetter(w[1])
      /\ KindOf(w) = "others" => /\ w \notin T!Contractions /\ ~T!IsLetter(w[1])
                                 /\ ~T!IsDigit(w[1])
  BY KindIs
<1>7. \A c : (T!IsOther(c) => ~T!IsLetter(c) /\ ~T!IsDigit(c)) /\ (T!IsLetter(c) => ~T!IsDigit(c))
  BY DEF T!IsOther, T!IsLetter, T!IsDigit
<1>8. \A k \in 1 .. Len(w) : w[k] = text[p + k - 1] /\ p + k - 1 \in p .. (e - 1)
  BY <1>1, <1>2
<1>9. KindOf(w) = "digit" => Len(w) = 1
  <2> SUFFICES ASSUME KindOf(w) = "digit" PROVE Len(w) = 1
    OBVIOUS
  <2>1. e = p + 1
    BY <1>3, <1>4, <1>5, <1>6, <1>7 DEF TokenKind
  <2> QED
    BY <1>1, <2>1
<1>10. ASSUME KindOf(w) = "letters"
       PROVE  /\ \A k \in 1 .. Len(w) : T!IsLetter(w[k]) \/ w[k] = "cont"
              /\ e <= Len(text) => ~T!IsLetter(text[e])
  <2>1. IsLetterRun(text, p, e)
    BY <1>3, <1>4, <1>5, <1>6, <1>7, <1>10 DEF TokenKind
  <2> QED
    BY <1>8, <2>1 DEF IsLetterRun
<1>11. ASSUME KindOf(w) = "others"
       PROVE  /\ \A k \in 1 .. Len(w) : T!IsOther(w[k]) /\ w[k] # "cont"
              /\ e <= Len(text) => ~T!IsOther(text[e])
  <2>1. IsOtherRun(text, p, e)
    BY <1>3, <1>4, <1>5, <1>6, <1>7, <1>11 DEF TokenKind
  <2> QED
    BY <1>8, <2>1 DEF IsOtherRun
<1> QED
  BY <1>9, <1>10, <1>11 DEF w, e

\* Two tokens that touch are not both letters, nor both other characters.
LEMMA TokensAreLongest ==
  ASSUME NEW text \in Seq(T!Bytes), WellFormed(text), NEW p \in Nat, Begins(text, p),
         Begins(text, T!TokenEnd(text, p))
  PROVE  ~(/\ KindOf(TokenAt(text, p)) = KindOf(TokenAt(text, T!TokenEnd(text, p)))
           /\ KindOf(TokenAt(text, p)) \in {"letters", "others"})
<1> DEFINE e == T!TokenEnd(text, p)
           w == TokenAt(text, p)
           v == TokenAt(text, e)
           end == T!TokenEnd(text, e)
<1>0. Len(text) \in Nat
  OBVIOUS
<1>1. /\ KindOf(w) = "letters" => (e <= Len(text) => ~T!IsLetter(text[e]))
      /\ KindOf(w) = "others" => (e <= Len(text) => ~T!IsOther(text[e]))
  BY TokenIsOfOneKind
<1> HIDE DEF e
<1>2. e \in 1 .. Len(text) /\ ~T!IsSpace(text[e]) /\ e \in Nat /\ Begins(text, e)
  BY <1>0 DEF Begins, e
<1> HIDE DEF w
<1>3. v[1] = text[e]
  <2>1. /\ end \in (e + 1) .. (Len(text) + 1)
        /\ \A k \in 1 .. (end - e) : v[k] = text[e + k - 1]
    BY <1>2, TokenBytes
  <2> HIDE DEF end, v
  <2>2. 1 \in 1 .. (end - e) /\ e + 1 - 1 = e
    BY <1>0, <1>2, <2>1
  <2> QED
    BY <2>1, <2>2
<1> HIDE DEF v
<1>4. /\ KindOf(v) = "letters" => T!IsLetter(v[1])
      /\ KindOf(v) = "others" => ~T!IsLetter(v[1]) /\ ~T!IsDigit(v[1])
  BY KindIs
<1>5. KindOf(v) = "others" => T!IsOther(text[e])
  BY <1>2, <1>3, <1>4 DEF T!IsOther
<1>6. ~(KindOf(w) = KindOf(v) /\ KindOf(w) \in {"letters", "others"})
  BY <1>1, <1>2, <1>3, <1>4, <1>5
<1> QED
  BY <1>6 DEF w, v, e

-----------------------------------------------------------------------------
(* White space. *)

\* What sam3_tokenize makes of the first n bytes.
Shrinks(first, text) ==
    /\ first \in [0 .. Len(text) -> Seq(T!Bytes)]
    /\ first[0] = <<>>
    /\ \A n \in 1 .. Len(text) :
         first[n] = IF T!IsSpace(text[n]) /\ (first[n - 1] = <<>> \/ T!IsSpace(T!Last(first[n - 1])))
                    THEN first[n - 1] ELSE Append(first[n - 1], text[n])
    /\ LET all == first[Len(text)]
       IN  T!Clean(text) = IF all # <<>> /\ T!IsSpace(T!Last(all)) THEN T!Front(all) ELSE all

\* Collapsing white space adds byte after byte, but for spaces that follow one.
LEMMA CleanIs ==
  ASSUME NEW text \in Seq(T!Bytes)
  PROVE  \E first : Shrinks(first, text)
<1> DEFINE E == Seq(T!Bytes)
           n == Len(text)
           turn(k, d) == IF T!IsSpace(text[k]) /\ (d = <<>> \/ T!IsSpace(T!Last(d)))
                         THEN d ELSE Append(d, text[k])
           D == [k \in 0 .. n |-> E]
           step == [k \in 1 .. n |-> [d \in E |-> turn(k, d)]]
           body(g, k) == IF k = 0 THEN <<>> ELSE turn(k, g[k - 1])
           first == CHOOSE g : g = [k \in 0 .. n |-> body(g, k)]
<1>1. n \in Nat /\ \A k \in 1 .. n : text[k] \in T!Bytes
  OBVIOUS
<1>2. \A k \in 1 .. n : \A d \in E : turn(k, d) \in E
  <2> SUFFICES ASSUME NEW k \in 1 .. n, NEW d \in E PROVE turn(k, d) \in E
    OBVIOUS
  <2>1. Append(d, text[k]) \in E
    BY <1>1, AppendProperties
  <2> QED
    BY <2>1
<1>3. D \in [0 .. n -> SUBSET E] /\ <<>> \in D[0] /\ <<>> \in E
  <2>1. <<>> \in E
    BY EmptySeq
  <2> HIDE DEF E
  <2> QED
    BY <1>1, <2>1
<1> HIDE DEF turn, E
<1>4. step \in [1 .. n -> [E -> E]] /\ \A k \in 1 .. n : \A d \in E : step[k][d] = turn(k, d)
  BY <1>2
<1>5. \A k \in 0 .. n : D[k] = E
  OBVIOUS
<1> HIDE DEF D, step
<1>6. Leads(step, n, D)
  <2>1. \A k \in 1 .. n : D[k - 1] = E /\ D[k] = E
    BY <1>1, <1>5
  <2> QED
    BY <1>2, <1>4, <2>1 DEF Leads
<1> DEFINE a == <<>>
<1>7. a \in D[0]
  BY <1>3
<1> HIDE DEF n, a
<1>8. \E f \in [0 .. n -> E] : Iterates(f, a, step, n, D)
  BY <1>1, <1>3, <1>4, <1>6, <1>7, IterationExists
<1>9. PICK f \in [0 .. n -> E] : Iterates(f, a, step, n, D)
  BY <1>8
<1>10. f[0] = a /\ \A k \in 1 .. n : f[k] = turn(k, f[k - 1])
  <2> SUFFICES ASSUME NEW k \in 1 .. n PROVE f[k] = turn(k, f[k - 1])
    BY <1>9 DEF Iterates
  <2>1. k - 1 \in 0 .. n
    BY <1>1
  <2>2. f[k - 1] \in E
    BY <1>9, <2>1
  <2> QED
    BY <1>4, <1>9, <2>2 DEF Iterates
<1>11. \A k \in 0 .. n : f[k] = body(f, k)
  <2> SUFFICES ASSUME NEW k \in 0 .. n PROVE f[k] = body(f, k)
    OBVIOUS
  <2>1. k # 0 => k \in 1 .. n
    BY <1>1
  <2> QED
    BY <1>10, <2>1 DEF a
<1>12. f = [k \in 0 .. n |-> body(f, k)]
  <2> DEFINE h == [k \in 0 .. n |-> body(f, k)]
  <2>1. \A k \in 0 .. n : f[k] = h[k]
    BY <1>11
  <2> HIDE DEF body
  <2> QED
    BY <2>1
<1> HIDE DEF body
<1>13. first = [k \in 0 .. n |-> body(first, k)]
  BY <1>12
<1>14. \A k \in 0 .. n : first[k] = body(first, k)
  BY <1>13
<1>15. T!Clean(text) = IF first[n] # <<>> /\ T!IsSpace(T!Last(first[n]))
                       THEN T!Front(first[n]) ELSE first[n]
  BY DEF T!Clean, turn, body, n
<1>16. DOMAIN first = 0 .. n
  BY <1>13
<1> DEFINE same == first = [k \in 0 .. n |-> first[k]]
<1>17. same
  BY <1>13
<1> HIDE DEF first
<1>18. first[0] = <<>> /\ \A k \in 1 .. n : first[k] = turn(k, first[k - 1])
  <2>1. 0 \in 0 .. n /\ \A k \in 1 .. n : k \in 0 .. n /\ k # 0
    BY <1>1
  <2> QED
    BY <1>14, <2>1 DEF body
<1>19. \A k \in 0 .. n : first[k] \in E
  <2> DEFINE Z == {k \in Nat : k \in 0 .. n /\ first[k] \notin E}
  <2>1. ASSUME Z # {} PROVE FALSE
    <3>1. PICK k \in Z : \A j \in Z : k <= j
      BY <2>1, LeastNat
    <3>2. k \in 1 .. n
      BY <1>1, <1>3, <1>18, <3>1
    <3>3. k - 1 \in Nat /\ k - 1 \in 0 .. n /\ ~(k <= k - 1)
      BY <1>1, <3>2
    <3>4. first[k - 1] \in E
      BY <3>1, <3>3
    <3> QED
      BY <1>2, <1>18, <3>1, <3>2, <3>4
  <2> QED
    BY <1>1, <2>1
<1>20. first \in [0 .. n -> E]
  BY <1>17, <1>19
<1>21. Shrinks(first, text)
  BY <1>15, <1>18, <1>20 DEF Shrinks, turn, n, E
<1> QED
  BY <1>21

\* Where the bytes of a text are in the clean one: those before i are the first
\* f[i - 1], a space may have gone.
Collapses(text, c, f) ==
    /\ f \in [0 .. Len(text) -> Nat] /\ f[0] = 0
    /\ \A n \in 1 .. Len(text) : ~T!IsSpace(text[n]) =>
         f[n] = f[n - 1] + 1 /\ f[n] <= Len(c) /\ c[f[n]] = text[n]
    /\ \A n \in 1 .. Len(text) : T!IsSpace(text[n]) =>
         \/ f[n] = f[n - 1] /\ (n = 1 \/ T!IsSpace(text[n - 1]))
         \/ f[n] = f[n - 1] + 1 /\ (f[n] <= Len(c) => T!IsSpace(c[f[n]]))
    /\ f[Len(text)] >= Len(c)

\* The clean text is such a copy, but perhaps for a space at its end.
LEMMA CleanCollapses ==
  ASSUME NEW text \in Seq(T!Bytes)
  PROVE  T!Clean(text) \in Seq(T!Bytes) /\ \E f : Collapses(text, T!Clean(text), f)
<1> DEFINE E == Seq(T!Bytes)
           n == Len(text)
           c == T!Clean(text)
<1>1. PICK first : Shrinks(first, text)
  BY CleanIs
<1> DEFINE all == first[n]
           f == [k \in 0 .. n |-> Len(first[k])]
<1>2. n \in Nat /\ \A k \in 1 .. n : text[k] \in T!Bytes /\ k \in 0 .. n /\ k - 1 \in 0 .. n
  OBVIOUS
<1>3. \A k \in 0 .. n : first[k] \in E /\ f[k] = Len(first[k]) /\ f[k] \in Nat
  <2>1. \A k \in 0 .. n : first[k] \in E
    BY <1>1 DEF Shrinks
  <2> QED
    BY <2>1
<1>4. /\ first[0] = <<>>
      /\ \A k \in 1 .. n :
           first[k] = IF T!IsSpace(text[k]) /\ (first[k - 1] = <<>> \/ T!IsSpace(T!Last(first[k - 1])))
                      THEN first[k - 1] ELSE Append(first[k - 1], text[k])
  BY <1>1 DEF Shrinks
<1>5. c = IF all # <<>> /\ T!IsSpace(T!Last(all)) THEN T!Front(all) ELSE all
  BY <1>1 DEF Shrinks
<1>6. f \in [0 .. n -> Nat]
  BY <1>3
<1> HIDE DEF f, n, c, E
<1>7. ASSUME NEW k \in 1 .. n, first[k] = Append(first[k - 1], text[k])
      PROVE  /\ f[k] = f[k - 1] + 1 /\ first[k][f[k]] = text[k] /\ first[k] # <<>>
             /\ \A j \in 1 .. f[k - 1] : first[k][j] = first[k - 1][j]
             /\ T!Last(first[k]) = text[k]
  <2>1. first[k - 1] \in Seq(T!Bytes) /\ text[k] \in T!Bytes
    BY <1>2, <1>3 DEF E
  <2>2. /\ Len(first[k]) = Len(first[k - 1]) + 1
        /\ first[k] # <<>>
        /\ \A j \in 1 .. Len(first[k - 1]) : first[k][j] = first[k - 1][j]
        /\ first[k][Len(first[k - 1]) + 1] = text[k]
    BY <1>7, <2>1, AppendProperties
  <2>3. f[k] = Len(first[k]) /\ f[k - 1] = Len(first[k - 1])
    BY <1>2, <1>3
  <2> QED
    BY <2>2, <2>3 DEF T!Last
<1>8. \A k \in 1 .. n : f[k - 1] <= f[k] /\ \A j \in 1 .. f[k - 1] : first[k][j] = first[k - 1][j]
  <2> SUFFICES ASSUME NEW k \in 1 .. n
               PROVE f[k - 1] <= f[k] /\ \A j \in 1 .. f[k - 1] : first[k][j] = first[k - 1][j]
    OBVIOUS
  <2>0. f[k - 1] \in Nat /\ f[k] \in Nat /\ f[k - 1] = Len(first[k - 1]) /\ f[k] = Len(first[k])
    BY <1>2, <1>3
  <2>1. CASE first[k] = Append(first[k - 1], text[k])
    BY <1>7, <2>0, <2>1
  <2>2. CASE first[k] = first[k - 1]
    BY <2>0, <2>2
  <2> QED
    BY <1>4, <2>1, <2>2
\* What is there stays.
<1>9. \A k \in 0 .. n : f[k] <= Len(all) /\ \A j \in 1 .. f[k] : all[j] = first[k][j]
  <2> DEFINE Stays(k) == f[k] <= Len(all) /\ \A j \in 1 .. f[k] : all[j] = first[k][j]
             Z == {k \in 0 .. n : ~Stays(k)}
  <2>1. Stays(n)
    BY <1>2, <1>3
  <2>2. ASSUME NEW k \in 1 .. n, Stays(k) PROVE Stays(k - 1)
    <3>0. f[k - 1] \in Nat /\ f[k] \in Nat /\ Len(all) \in Nat /\ f[k - 1] <= f[k]
      BY <1>2, <1>3, <1>8
    <3>1. ASSUME NEW j \in 1 .. f[k - 1] PROVE all[j] = first[k - 1][j]
      <4>1. j \in 1 .. f[k]
        BY <3>0
      <4>2. all[j] = first[k][j]
        BY <2>2, <4>1
      <4> QED
        BY <1>8, <4>2
    <3> QED
      BY <2>2, <3>0, <3>1
  <2> HIDE DEF Stays
  <2>3. ASSUME Z # {} PROVE FALSE
    <3>1. PICK k \in Z : \A j \in Z : j <= k
      <4>1. Z \in SUBSET Nat /\ \A j \in Z : j <= n
        BY <1>2
      <4> QED
        BY <1>2, <2>3, <4>1, Backward
    <3>2. k \in 0 .. n /\ k # n /\ ~Stays(k)
      BY <2>1, <3>1
    <3>3. k + 1 \in 1 .. n /\ k + 1 \in 0 .. n /\ ~(k + 1 <= k) /\ (k + 1) - 1 = k
      BY <1>2, <3>2
    <3>4. Stays(k + 1)
      BY <3>1, <3>3
    <3>5. Stays((k + 1) - 1)
      BY <2>2, <3>3, <3>4
    <3> QED
      BY <3>2, <3>3, <3>5
  <2>4. \A k \in 0 .. n : Stays(k)
    BY <2>3
  <2> QED
    BY <2>4 DEF Stays
\* Only a space at the end is cut.
<1>10. /\ c \in E /\ Len(c) \in Nat /\ Len(c) <= Len(all) /\ Len(all) \in Nat
       /\ \A j \in 1 .. Len(c) : c[j] = all[j]
       /\ \A j \in 1 .. Len(all) : j > Len(c) => T!IsSpace(all[j])
  <2>1. all \in E /\ Len(all) \in Nat
    BY <1>2, <1>3 DEF E
  <2>2. CASE all # <<>> /\ T!IsSpace(T!Last(all))
    <3>1. Len(all) # 0
      BY <2>1, <2>2, EmptySeq DEF E
    <3>2. c = SubSeq(all, 1, Len(all) - 1)
      BY <1>5, <2>2 DEF T!Front
    <3>3. \A j \in 1 .. (Len(all) - 1) : all[j] \in T!Bytes
      BY <2>1 DEF E
    <3> HIDE DEF all
    <3>4. 1 \in Int /\ Len(all) - 1 \in Int
      BY <2>1
    <3>5. /\ c \in Seq(T!Bytes)
          /\ Len(c) = IF 1 <= Len(all) - 1 THEN (Len(all) - 1) - 1 + 1 ELSE 0
          /\ \A j \in 1 .. (Len(all) - 1) - 1 + 1 : c[j] = all[1 + j - 1]
      BY <3>2, <3>3, <3>4, SubSeqProperties
    <3>6. Len(c) = Len(all) - 1 /\ \A j \in 1 .. (Len(all) - 1) : c[j] = all[j]
      <4>1. (Len(all) - 1) - 1 + 1 = Len(all) - 1 /\ \A j \in 1 .. (Len(all) - 1) : 1 + j - 1 = j
        BY <2>1
      <4>2. ASSUME NEW j \in 1 .. (Len(all) - 1) PROVE c[j] = all[j]
        <5>1. j \in 1 .. (Len(all) - 1) - 1 + 1 /\ 1 + j - 1 = j
          BY <2>1
        <5> QED
          BY <3>5, <5>1
      <4>3. Len(c) = Len(all) - 1
        <5> DEFINE m == Len(all)
        <5>1. m \in Nat /\ m # 0 /\ Len(c) = IF 1 <= m - 1 THEN (m - 1) - 1 + 1 ELSE 0
          BY <2>1, <3>1, <3>5
        <5> HIDE DEF m
        <5>2. Len(c) = m - 1
          BY <5>1
        <5> QED
          BY <5>2 DEF m
      <4> QED
        BY <4>2, <4>3
    <3>7. T!IsSpace(all[Len(all)])
      BY <2>2 DEF T!Last
    <3>8. \A j \in 1 .. Len(all) : j > Len(c) => j = Len(all)
      BY <2>1, <3>6
    <3> QED
      BY <2>1, <3>1, <3>5, <3>6, <3>7, <3>8 DEF E
  <2>3. CASE ~(all # <<>> /\ T!IsSpace(T!Last(all)))
    <3>1. c = all
      BY <1>5, <2>3
    <3> HIDE DEF all
    <3> QED
      BY <2>1, <3>1
  <2> QED
    BY <2>2, <2>3
<1> HIDE DEF all
<1>11. ASSUME NEW k \in 1 .. n, ~T!IsSpace(text[k])
       PROVE  f[k] = f[k - 1] + 1 /\ f[k] <= Len(c) /\ c[f[k]] = text[k]
  <2>1. f[k] = f[k - 1] + 1 /\ first[k][f[k]] = text[k]
    BY <1>4, <1>7, <1>11
  <2>2. f[k] \in 1 .. f[k] /\ f[k] \in 1 .. Len(all) /\ f[k] \in Nat /\ f[k - 1] \in Nat
    BY <1>2, <1>3, <1>9, <1>10, <2>1, SMTT(30)
  <2>3. all[f[k]] = text[k]
    BY <1>2, <1>9, <2>1, <2>2
  <2>4. f[k] <= Len(c)
    BY <1>10, <1>11, <2>2, <2>3, SMTT(30)
  <2>5. f[k] \in 1 .. Len(c)
    BY <1>10, <2>2, <2>4
  <2> QED
    BY <1>10, <2>1, <2>3, <2>4, <2>5
<1>12. ASSUME NEW k \in 1 .. n, T!IsSpace(text[k])
       PROVE  \/ f[k] = f[k - 1] /\ (k = 1 \/ T!IsSpace(text[k - 1]))
              \/ f[k] = f[k - 1] + 1 /\ (f[k] <= Len(c) => T!IsSpace(c[f[k]]))
  <2>1. CASE first[k - 1] = <<>> \/ T!IsSpace(T!Last(first[k - 1]))
    <3>1. first[k] = first[k - 1]
      BY <1>4, <1>12, <2>1
    <3>2. f[k] = f[k - 1]
      BY <1>2, <1>3, <3>1
    <3>3. ASSUME k # 1, ~T!IsSpace(text[k - 1]) PROVE FALSE
      <4>1. k - 1 \in 1 .. n
        BY <1>2, <3>3
      <4>2. first[k - 1] = Append(first[(k - 1) - 1], text[k - 1])
        BY <1>4, <3>3, <4>1
      <4>3. first[k - 1] # <<>> /\ T!Last(first[k - 1]) = text[k - 1]
        BY <1>7, <4>1, <4>2
      <4> QED
        BY <2>1, <3>3, <4>3
    <3> QED
      BY <3>2, <3>3
  <2>2. CASE ~(first[k - 1] = <<>> \/ T!IsSpace(T!Last(first[k - 1])))
    <3>1. f[k] = f[k - 1] + 1 /\ first[k][f[k]] = text[k]
      BY <1>4, <1>7, <2>2
    <3>2. f[k] \in 1 .. f[k] /\ f[k] \in 1 .. Len(all) /\ f[k] \in Nat
      BY <1>2, <1>3, <1>9, <1>10, <3>1, SMTT(30)
    <3>3. all[f[k]] = text[k]
      BY <1>2, <1>9, <3>1, <3>2
    <3>4. f[k] <= Len(c) => c[f[k]] = text[k]
      BY <1>10, <3>2, <3>3
    <3> QED
      BY <1>12, <3>1, <3>4
  <2> QED
    BY <2>1, <2>2
<1>13. f[0] = 0 /\ f[n] >= Len(c)
  <2>1. f[0] = Len(first[0]) /\ f[n] = Len(all)
    BY <1>2, <1>3 DEF all
  <2>2. Len(<<>>) = 0
    OBVIOUS
  <2> QED
    BY <1>4, <1>10, <2>1, <2>2
<1>14. Collapses(text, c, f)
  BY <1>6, <1>11, <1>12, <1>13 DEF Collapses, n
<1>15. c \in Seq(T!Bytes) /\ \E g : Collapses(text, c, g)
  BY <1>10, <1>14 DEF E
<1> QED
  BY <1>15 DEF c

\* The same r bytes in two texts, without a space and up to one.
SameRun(s, i, t, j, r) ==
    /\ i + r <= Len(s) + 1 /\ j + r <= Len(t) + 1
    /\ \A k \in 0 .. (r - 1) : s[i + k] = t[j + k] /\ ~T!IsSpace(s[i + k])
    /\ i + r <= Len(s) => T!IsSpace(s[i + r])
    /\ j + r <= Len(t) => T!IsSpace(t[j + r])

\* A run of letters in both.
LEMMA LettersShift ==
  ASSUME NEW s \in Seq(T!Bytes), WellFormed(s), NEW t \in Seq(T!Bytes),
         NEW i \in Nat \ {0}, NEW j \in Nat \ {0}, NEW r \in Nat, SameRun(s, i, t, j, r)
  PROVE  \A k \in 0 .. r : T!LetterRun(s, i + k) - i = T!LetterRun(t, j + k) - j
<1> DEFINE Good(k) == T!LetterRun(s, i + k) - i = T!LetterRun(t, j + k) - j
           Z == {k \in 0 .. r : ~Good(k)}
<1>1. Len(s) \in Nat /\ Len(t) \in Nat
  OBVIOUS
<1>2. /\ i + r <= Len(s) + 1 /\ j + r <= Len(t) + 1
      /\ \A k \in 0 .. (r - 1) : s[i + k] = t[j + k] /\ ~T!IsSpace(s[i + k])
      /\ i + r <= Len(s) => T!IsSpace(s[i + r])
      /\ j + r <= Len(t) => T!IsSpace(t[j + r])
  BY DEF SameRun
<1>3. Good(r)
  <2>1. ~(i + r <= Len(s) /\ T!IsLetter(s[i + r])) /\ ~(j + r <= Len(t) /\ T!IsLetter(t[j + r]))
    BY <1>2, NotSpaces
  <2>2. i + r \in Nat /\ j + r \in Nat
    OBVIOUS
  <2>3. T!LetterRun(s, i + r) = i + r /\ T!LetterRun(t, j + r) = j + r
    BY <1>1, <2>1, <2>2, LetterRunIs
  <2> QED
    BY <2>3
<1>4. ASSUME NEW k \in 0 .. (r - 1), \A m \in (k + 1) .. r : Good(m) PROVE Good(k)
  <2> DEFINE a == i + k b == j + k len == T!Utf8Len(s[a])
  <2>1. a \in 1 .. Len(s) /\ b \in 1 .. Len(t) /\ a \in Nat /\ b \in Nat /\ k \in Nat
    BY <1>1, <1>2
  <2>2. s[a] = t[b]
    BY <1>2
  <2>3. len \in {1, 2} /\ (len = 2 => s[a] = "lead")
    BY DEF T!Utf8Len
  <2>4. s[a] = "lead" => a + 1 \in 1 .. Len(s) /\ s[a + 1] = "cont"
    BY <1>1, <2>1 DEF WellFormed
  <2> HIDE DEF len
  <2>5. k + len \in (k + 1) .. r
    <3>1. CASE len = 1
      BY <3>1
    <3>2. CASE len = 2
      <4>1. a + 1 \in 1 .. Len(s) /\ ~T!IsSpace(s[a + 1])
        BY <2>3, <2>4, <3>2, NotSpaces
      <4>2. a + 1 # i + r
        BY <1>1, <1>2, <4>1
      <4> QED
        BY <3>2, <4>2
    <3> QED
      BY <2>3, <3>1, <3>2
  <2>6. Good(k + len)
    BY <1>4, <2>5
  <2>7. /\ T!LetterRun(s, a) = IF T!IsLetter(s[a]) THEN T!LetterRun(s, a + len) ELSE a
        /\ T!LetterRun(t, b) = IF T!IsLetter(t[b]) THEN T!LetterRun(t, b + len) ELSE b
    BY <1>1, <2>1, <2>2, LetterRunIs DEF len
  <2>8. a + len = i + (k + len) /\ b + len = j + (k + len)
    BY <2>3
  <2>9. CASE T!IsLetter(s[a])
    <3>1. T!LetterRun(s, a + len) - i = T!LetterRun(t, b + len) - j
      BY <2>6, <2>8
    <3> QED
      BY <2>2, <2>7, <2>9, <3>1
  <2>10. CASE ~T!IsLetter(s[a])
    BY <2>2, <2>7, <2>10
  <2> QED
    BY <2>9, <2>10
<1> HIDE DEF Good
<1>5. ASSUME Z # {} PROVE FALSE
  <2>1. Z \in SUBSET Nat /\ \A k \in Z : k <= r
    OBVIOUS
  <2>2. PICK k \in Z : \A m \in Z : m <= k
    BY <1>5, <2>1, Backward
  <2>3. k \in 0 .. (r - 1)
    BY <1>3, <2>2
  <2>4. \A m \in (k + 1) .. r : Good(m)
    BY <2>2, <2>3
  <2> QED
    BY <1>4, <2>2, <2>3, <2>4
<1>6. \A k \in 0 .. r : Good(k)
  BY <1>5
<1> QED
  BY <1>6 DEF Good

\* A run of other characters in both.
LEMMA OthersShift ==
  ASSUME NEW s \in Seq(T!Bytes), NEW t \in Seq(T!Bytes),
         NEW i \in Nat \ {0}, NEW j \in Nat \ {0}, NEW r \in Nat, SameRun(s, i, t, j, r)
  PROVE  \A k \in 0 .. r : T!OtherRun(s, i + k) - i = T!OtherRun(t, j + k) - j
<1> DEFINE Good(k) == T!OtherRun(s, i + k) - i = T!OtherRun(t, j + k) - j
           Z == {k \in 0 .. r : ~Good(k)}
<1>1. Len(s) \in Nat /\ Len(t) \in Nat
  OBVIOUS
<1>2. /\ i + r <= Len(s) + 1 /\ j + r <= Len(t) + 1
      /\ \A k \in 0 .. (r - 1) : s[i + k] = t[j + k] /\ ~T!IsSpace(s[i + k])
      /\ i + r <= Len(s) => T!IsSpace(s[i + r])
      /\ j + r <= Len(t) => T!IsSpace(t[j + r])
  BY DEF SameRun
<1>3. Good(r)
  <2>1. ~(i + r <= Len(s) /\ T!IsOther(s[i + r])) /\ ~(j + r <= Len(t) /\ T!IsOther(t[j + r]))
    BY <1>2, NotSpaces
  <2>2. i + r \in Nat /\ j + r \in Nat
    OBVIOUS
  <2>3. T!OtherRun(s, i + r) = i + r /\ T!OtherRun(t, j + r) = j + r
    BY <1>1, <2>1, <2>2, OtherRunIs
  <2> QED
    BY <2>3
<1>4. ASSUME NEW k \in 0 .. (r - 1), \A m \in (k + 1) .. r : Good(m) PROVE Good(k)
  <2> DEFINE a == i + k b == j + k
  <2>1. a \in 1 .. Len(s) /\ b \in 1 .. Len(t) /\ a \in Nat /\ b \in Nat /\ k \in Nat
    BY <1>1, <1>2
  <2>2. s[a] = t[b]
    BY <1>2
  <2>6. Good(k + 1)
    <3>1. k + 1 \in (k + 1) .. r
      BY <2>1
    <3> HIDE DEF Good
    <3> QED
      BY <1>4, <3>1
  <2>7. /\ T!OtherRun(s, a) = IF T!IsOther(s[a]) THEN T!OtherRun(s, a + 1) ELSE a
        /\ T!OtherRun(t, b) = IF T!IsOther(t[b]) THEN T!OtherRun(t, b + 1) ELSE b
    BY <1>1, <2>1, <2>2, OtherRunIs
  <2>8. a + 1 = i + (k + 1) /\ b + 1 = j + (k + 1)
    OBVIOUS
  <2>9. CASE T!IsOther(s[a])
    <3>1. T!OtherRun(s, a + 1) - i = T!OtherRun(t, b + 1) - j
      BY <2>6, <2>8
    <3> QED
      BY <2>2, <2>7, <2>9, <3>1
  <2>10. CASE ~T!IsOther(s[a])
    BY <2>2, <2>7, <2>10
  <2> QED
    BY <2>9, <2>10
<1> HIDE DEF Good
<1>5. ASSUME Z # {} PROVE FALSE
  <2>1. Z \in SUBSET Nat /\ \A k \in Z : k <= r
    OBVIOUS
  <2>2. PICK k \in Z : \A m \in Z : m <= k
    BY <1>5, <2>1, Backward
  <2>3. k \in 0 .. (r - 1)
    BY <1>3, <2>2
  <2>4. \A m \in (k + 1) .. r : Good(m)
    BY <2>2, <2>3
  <2> QED
    BY <1>4, <2>2, <2>3, <2>4
<1>6. \A k \in 0 .. r : Good(k)
  BY <1>5
<1> QED
  BY <1>6 DEF Good

\* A token is as long in both.
LEMMA TokenShifts ==
  ASSUME NEW s \in Seq(T!Bytes), WellFormed(s), NEW t \in Seq(T!Bytes),
         NEW i \in Nat \ {0}, NEW j \in Nat \ {0}, NEW r \in Nat \ {0}, SameRun(s, i, t, j, r)
  PROVE  T!TokenEnd(s, i) - i = T!TokenEnd(t, j) - j
<1>1. Len(s) \in Nat /\ Len(t) \in Nat
  OBVIOUS
<1>2. /\ i + r <= Len(s) + 1 /\ j + r <= Len(t) + 1
      /\ \A k \in 0 .. (r - 1) : s[i + k] = t[j + k] /\ ~T!IsSpace(s[i + k])
      /\ i + r <= Len(s) => T!IsSpace(s[i + r])
      /\ j + r <= Len(t) => T!IsSpace(t[j + r])
  BY DEF SameRun
<1>3. s[i] = t[j]
  <2>1. 0 \in 0 .. (r - 1) /\ i + 0 = i /\ j + 0 = j
    OBVIOUS
  <2> QED
    BY <1>2, <2>1
<1>4. i <= Len(s) /\ j <= Len(t)
  BY <1>1, <1>2
\* What follows is the same byte, or a space or nothing.
<1>5. ASSUME NEW d \in {1, 2}, d <= r
      PROVE  /\ d < r => i + d <= Len(s) /\ j + d <= Len(t) /\ s[i + d] = t[j + d]
             /\ d = r => /\ i + d <= Len(s) => T!IsSpace(s[i + d])
                         /\ j + d <= Len(t) => T!IsSpace(t[j + d])
  <2>1. d < r => d \in 0 .. (r - 1)
    OBVIOUS
  <2> QED
    BY <1>1, <1>2, <2>1, SMTT(30)
<1>6. Ess(s, i) <=> Ess(t, j)
  BY <1>3, <1>5, NotSpaces DEF Ess
<1>7. Ll(s, i) <=> Ll(t, j)
  <2>1. CASE r = 1
    <3>1. (i + 1 <= Len(s) => T!IsSpace(s[i + 1])) /\ (j + 1 <= Len(t) => T!IsSpace(t[j + 1]))
      BY <1>5, <2>1
    <3>2. ~T!IsSpace("l")
      BY NotSpaces
    <3>3. (i + 2 <= Len(s) => i + 1 <= Len(s)) /\ (j + 2 <= Len(t) => j + 1 <= Len(t))
      BY <1>1
    <3> QED
      BY <3>1, <3>2, <3>3 DEF Ll
  <2>2. CASE r # 1
    <3>1. i + 1 <= Len(s) /\ j + 1 <= Len(t) /\ s[i + 1] = t[j + 1]
      BY <1>5, <2>2
    <3>2. /\ 2 < r => i + 2 <= Len(s) /\ j + 2 <= Len(t) /\ s[i + 2] = t[j + 2]
          /\ 2 = r => /\ i + 2 <= Len(s) => T!IsSpace(s[i + 2])
                      /\ j + 2 <= Len(t) => T!IsSpace(t[j + 2])
      BY <1>5
    <3>3. ~T!IsSpace("l")
      BY NotSpaces
    <3> QED
      BY <1>3, <2>2, <3>1, <3>2, <3>3 DEF Ll
  <2> QED
    BY <2>1, <2>2
<1>8. /\ T!LetterRun(s, i) - i = T!LetterRun(t, j) - j
      /\ T!OtherRun(s, i) - i = T!OtherRun(t, j) - j
  <2>1. 0 \in 0 .. r /\ i + 0 = i /\ j + 0 = j
    OBVIOUS
  <2>2. /\ T!LetterRun(s, i + 0) - i = T!LetterRun(t, j + 0) - j
        /\ T!OtherRun(s, i + 0) - i = T!OtherRun(t, j + 0) - j
    <3>1. \A k \in 0 .. r : T!LetterRun(s, i + k) - i = T!LetterRun(t, j + k) - j
      BY LettersShift
    <3>2. \A k \in 0 .. r : T!OtherRun(s, i + k) - i = T!OtherRun(t, j + k) - j
      BY OthersShift
    <3> QED
      BY <2>1, <3>1, <3>2
  <2> QED
    BY <2>1, <2>2
<1>9. /\ T!TokenEnd(s, i) = IF Ess(s, i) THEN i + 2
           ELSE IF Ll(s, i) THEN i + 3
           ELSE IF T!IsLetter(s[i]) THEN T!LetterRun(s, i)
           ELSE IF T!IsDigit(s[i]) THEN i + 1
           ELSE T!OtherRun(s, i)
      /\ T!TokenEnd(t, j) = IF Ess(t, j) THEN j + 2
           ELSE IF Ll(t, j) THEN j + 3
           ELSE IF T!IsLetter(t[j]) THEN T!LetterRun(t, j)
           ELSE IF T!IsDigit(t[j]) THEN j + 1
           ELSE T!OtherRun(t, j)
  BY <1>1, TokenEndIs
<1> QED
  BY <1>3, <1>6, <1>7, <1>8, <1>9

\* The r bytes at i up to a space or the end.
RunAt(text, i, r) ==
    /\ i + r <= Len(text) + 1
    /\ \A k \in 0 .. (r - 1) : ~T!IsSpace(text[i + k])
    /\ i + r <= Len(text) => T!IsSpace(text[i + r])

\* What begins a token goes on up to a space or the end.
LEMMA RunEnds ==
  ASSUME NEW text \in Seq(T!Bytes), NEW i \in 1 .. Len(text), ~T!IsSpace(text[i])
  PROVE  \E r \in Nat \ {0} : RunAt(text, i, r)
<1> DEFINE Z == {r \in Nat \ {0} : i + r > Len(text) \/ T!IsSpace(text[i + r])}
<1>1. Len(text) \in Nat /\ i \in Nat
  OBVIOUS
<1>2. Len(text) + 1 - i \in Z
  BY <1>1
<1>3. PICK r \in Z : \A m \in Z : r <= m
  BY <1>2, LeastNat
<1>4. r \in Nat \ {0} /\ r <= Len(text) + 1 - i
  BY <1>2, <1>3
<1>5. ASSUME NEW k \in 0 .. (r - 1) PROVE ~T!IsSpace(text[i + k])
  <2>1. CASE k = 0
    BY <1>1, <2>1
  <2>2. CASE k # 0
    <3>1. k \in Nat \ {0} /\ ~(r <= k)
      BY <1>4, <2>2
    <3>2. k \notin Z
      BY <1>3, <3>1
    <3> QED
      BY <3>1, <3>2
  <2> QED
    BY <2>1, <2>2
<1>6. i + r > Len(text) \/ T!IsSpace(text[i + r])
  BY <1>3
<1>7. i + r <= Len(text) + 1 /\ (i + r <= Len(text) => ~(i + r > Len(text)))
  BY <1>1, <1>4
<1> HIDE DEF Z
<1>8. RunAt(text, i, r)
  BY <1>5, <1>6, <1>7 DEF RunAt
<1> QED
  BY <1>4, <1>8

\* A run is the same in the clean text, where f says.
LEMMA RunsCollapse ==
  ASSUME NEW text \in Seq(T!Bytes), NEW c \in Seq(T!Bytes), NEW f, Collapses(text, c, f),
         NEW i \in 1 .. Len(text), NEW r \in Nat \ {0}, RunAt(text, i, r)
  PROVE  /\ SameRun(text, i, c, f[i - 1] + 1, r)
         /\ f[i - 1] \in Nat
         /\ \A k \in 0 .. (r - 1) : f[i + k] = f[i - 1] + 1 + k
<1> DEFINE j == f[i - 1] + 1
<1>0. /\ i + r <= Len(text) + 1
      /\ \A k \in 0 .. (r - 1) : ~T!IsSpace(text[i + k])
      /\ i + r <= Len(text) => T!IsSpace(text[i + r])
  BY DEF RunAt
<1>1. /\ Len(text) \in Nat /\ Len(c) \in Nat /\ i \in Nat /\ i - 1 \in 0 .. Len(text)
      /\ i + r <= Len(text) + 1
  BY <1>0
<1>2. /\ f \in [0 .. Len(text) -> Nat]
      /\ \A n \in 1 .. Len(text) : ~T!IsSpace(text[n]) =>
           f[n] = f[n - 1] + 1 /\ f[n] <= Len(c) /\ c[f[n]] = text[n]
      /\ \A n \in 1 .. Len(text) : T!IsSpace(text[n]) =>
           \/ f[n] = f[n - 1] /\ (n = 1 \/ T!IsSpace(text[n - 1]))
           \/ f[n] = f[n - 1] + 1 /\ (f[n] <= Len(c) => T!IsSpace(c[f[n]]))
      /\ f[Len(text)] >= Len(c)
  BY DEF Collapses
<1>3. f[i - 1] \in Nat /\ j \in Nat
  <2>1. f[i - 1] \in Nat
    BY <1>1, <1>2
  <2> QED
    BY <2>1
<1>4. \A k \in 0 .. (r - 1) : i + k \in 1 .. Len(text) /\ ~T!IsSpace(text[i + k])
  <2>1. \A k \in 0 .. (r - 1) : i + k \in 1 .. Len(text)
    BY <1>1
  <2> QED
    BY <1>0, <2>1
<1> DEFINE Z == {k \in Nat : k \in 0 .. (r - 1) /\ f[i + k] # j + k}
<1>5. ASSUME Z # {} PROVE FALSE
  <2>1. PICK k \in Z : \A m \in Z : k <= m
    BY <1>5, LeastNat
  <2>2. k \in 0 .. (r - 1) /\ f[i + k] # j + k
    BY <2>1
  <2>3. f[i + k] = f[(i + k) - 1] + 1
    BY <1>2, <1>4, <2>2
  <2>4. CASE k = 0
    <3>1. (i + k) - 1 = i - 1 /\ j + k = j
      BY <1>1, <1>3, <2>4
    <3> QED
      BY <2>2, <2>3, <3>1
  <2>5. CASE k # 0
    <3>1. k - 1 \in Nat /\ k - 1 \in 0 .. (r - 1) /\ ~(k <= k - 1) /\ (i + k) - 1 = i + (k - 1)
      BY <1>1, <2>2, <2>5
    <3>2. f[i + (k - 1)] = j + (k - 1)
      BY <2>1, <3>1
    <3> HIDE DEF j
    <3>3. f[i + k] = (j + (k - 1)) + 1
      BY <2>3, <3>1, <3>2
    <3> QED
      BY <1>3, <2>2, <3>1, <3>3
  <2> QED
    BY <2>4, <2>5
<1>6. \A k \in 0 .. (r - 1) : f[i + k] = j + k
  BY <1>5
<1> HIDE DEF j, Z
<1>7. \A k \in 0 .. (r - 1) : j + k <= Len(c) /\ c[j + k] = text[i + k]
  BY <1>2, <1>4, <1>6
<1>8. r - 1 \in 0 .. (r - 1) /\ i + (r - 1) = (i + r) - 1 /\ j + (r - 1) + 1 = j + r
  BY <1>1, <1>3
<1>9. j + r <= Len(c) + 1
  <2>1. j + (r - 1) <= Len(c)
    BY <1>7, <1>8
  <2> QED
    BY <1>1, <1>3, <2>1
<1>10. ASSUME j + r <= Len(c) PROVE T!IsSpace(c[j + r])
  <2>1. f[(i + r) - 1] = j + (r - 1) /\ ~T!IsSpace(text[(i + r) - 1])
    BY <1>4, <1>6, <1>8
  <2>2. CASE i + r <= Len(text)
    <3>1. i + r \in 1 .. Len(text) /\ T!IsSpace(text[i + r]) /\ i + r # 1
      BY <1>0, <1>1, <2>2
    <3>2. /\ f[i + r] = f[(i + r) - 1] + 1
          /\ f[i + r] <= Len(c) => T!IsSpace(c[f[i + r]])
      BY <1>2, <2>1, <3>1
    <3>3. f[i + r] = j + r
      BY <1>8, <2>1, <3>2
    <3> QED
      BY <1>10, <3>2, <3>3
  <2>3. CASE i + r = Len(text) + 1
    <3>1. (i + r) - 1 = Len(text)
      BY <1>1, <2>3
    <3>2. j + (r - 1) >= Len(c)
      BY <1>2, <2>1, <3>1
    <3> QED
      BY <1>1, <1>3, <1>10, <3>2
  <2> QED
    BY <1>1, <2>2, <2>3
<1>11. SameRun(text, i, c, j, r)
  <2>1. \A k \in 0 .. (r - 1) : text[i + k] = c[j + k] /\ ~T!IsSpace(text[i + k])
    BY <1>4, <1>7
  <2> QED
    BY <1>0, <2>1, <1>9, <1>10 DEF SameRun
<1> QED
  BY <1>3, <1>6, <1>11 DEF j

\* The words of a text are those of the clean one.
LEMMA SameWords ==
  ASSUME NEW text \in Seq(T!Bytes), WellFormed(text), NEW c \in Seq(T!Bytes),
         NEW f, Collapses(text, c, f), Boundary(text, 1)
  PROVE  WordsFrom(text, 1) = WordsFrom(c, 1)
<1> DEFINE Good(i) == Boundary(text, i) => WordsFrom(text, i) = WordsFrom(c, f[i - 1] + 1)
           Z == {i \in 1 .. (Len(text) + 1) : ~Good(i)}
<1>1. Len(text) \in Nat /\ Len(c) \in Nat
  OBVIOUS
<1>2. /\ f \in [0 .. Len(text) -> Nat] /\ f[0] = 0
      /\ \A n \in 1 .. Len(text) : ~T!IsSpace(text[n]) =>
           f[n] = f[n - 1] + 1 /\ f[n] <= Len(c) /\ c[f[n]] = text[n]
      /\ \A n \in 1 .. Len(text) : T!IsSpace(text[n]) =>
           \/ f[n] = f[n - 1]
           \/ f[n] = f[n - 1] + 1 /\ (f[n] <= Len(c) => T!IsSpace(c[f[n]]))
      /\ f[Len(text)] >= Len(c)
  BY DEF Collapses
<1>3. ASSUME NEW i \in 1 .. (Len(text) + 1), Boundary(text, i),
             \A k \in 1 .. (Len(text) + 1) : k > i => Good(k)
      PROVE  WordsFrom(text, i) = WordsFrom(c, f[i - 1] + 1)
  <2> DEFINE j == f[i - 1] + 1
  <2>1. i \in Nat /\ i - 1 \in 0 .. Len(text) /\ f[i - 1] \in Nat /\ j \in Nat \ {0}
    <3>1. i \in Nat /\ i - 1 \in 0 .. Len(text)
      BY <1>1
    <3>2. f[i - 1] \in Nat
      BY <1>2, <3>1
    <3> QED
      BY <3>1, <3>2
  <2>2. CASE i > Len(text)
    <3>1. i - 1 = Len(text)
      BY <1>1, <2>2
    <3>2. j > Len(c)
      BY <1>1, <1>2, <2>1, <3>1
    <3> HIDE DEF j
    <3>3. WordsFrom(text, i) = <<>> /\ WordsFrom(c, j) = <<>>
      BY <1>1, <2>1, <2>2, <3>2, WordsFromIs
    <3> QED
      BY <3>3 DEF j
  <2>3. CASE i <= Len(text) /\ T!IsSpace(text[i])
    <3>1. /\ text[i] # "lead" /\ i \in 1 .. Len(text) /\ i + 1 \in 1 .. (Len(text) + 1) /\ i + 1 > i
          /\ ~(i > Len(text)) /\ (i + 1) - 1 = i
      BY <1>1, <2>3, NotSpaces DEF T!IsLetter
    <3>2. Boundary(text, i + 1)
      BY <1>3, <3>1, BoundaryMoves
    <3>3. Good(i + 1)
      BY <1>3, <3>1
    <3>4. WordsFrom(text, i + 1) = WordsFrom(c, f[i] + 1)
      BY <3>1, <3>2, <3>3
    <3>5. WordsFrom(text, i) = WordsFrom(text, i + 1)
      BY <1>1, <2>1, <2>3, <3>1, WordsFromIs
    <3>6. CASE f[i] = f[i - 1]
      BY <3>4, <3>5, <3>6
    <3>7. CASE f[i] = j /\ (f[i] <= Len(c) => T!IsSpace(c[f[i]]))
      <4> HIDE DEF j
      <4>1. j + 1 \in Nat
        BY <2>1
      <4>2. WordsFrom(c, j) = WordsFrom(c, j + 1)
        <5>1. CASE j <= Len(c)
          <6>1. T!IsSpace(c[j]) /\ ~(j > Len(c))
            BY <1>1, <2>1, <3>7, <5>1
          <6> QED
            BY <1>1, <2>1, <6>1, WordsFromIs
        <5>2. CASE j > Len(c)
          <6>1. j + 1 > Len(c)
            BY <1>1, <2>1, <5>2
          <6>2. WordsFrom(c, j) = <<>>
            BY <1>1, <2>1, <5>2, WordsFromIs
          <6>3. WordsFrom(c, j + 1) = <<>>
            BY <1>1, <4>1, <6>1, WordsFromIs
          <6> QED
            BY <6>2, <6>3
        <5> QED
          BY <1>1, <2>1, <5>1, <5>2
      <4>3. WordsFrom(text, i) = WordsFrom(c, j)
        BY <3>4, <3>5, <3>7, <4>2
      <4> QED
        BY <4>3 DEF j
    <3> QED
      BY <1>2, <2>3, <3>1, <3>6, <3>7
  <2>4. CASE i <= Len(text) /\ ~T!IsSpace(text[i])
    <3>1. i \in 1 .. Len(text) /\ Begins(text, i) /\ ~(i > Len(text))
      BY <1>1, <1>3, <2>4 DEF Begins
    <3>20. PICK r \in Nat \ {0} : RunAt(text, i, r)
      BY <2>4, <3>1, RunEnds
    <3>2. i + r <= Len(text) + 1 /\ (i + r <= Len(text) => T!IsSpace(text[i + r]))
      BY <3>20 DEF RunAt
    <3>3. SameRun(text, i, c, j, r) /\ \A k \in 0 .. (r - 1) : f[i + k] = j + k
      <4> HIDE DEF Good, Z
      <4> QED
        BY <3>1, <3>20, RunsCollapse
    <3> DEFINE e == T!TokenEnd(text, i) d == T!TokenEnd(c, j)
    <3>4. e - i = d - j
      <4> HIDE DEF j
      <4>1. i \in Nat \ {0}
        BY <3>1
      <4> QED
        BY <2>1, <3>3, <4>1, TokenShifts
    <3>5. /\ IsToken(text, i, e) /\ e \in (i + 1) .. (Len(text) + 1)
          /\ TokenAt(text, i) \in Seq(T!Bytes) /\ Len(TokenAt(text, i)) = e - i
          /\ \A k \in 1 .. (e - i) : TokenAt(text, i)[k] = text[i + k - 1]
      BY <2>1, <3>1, TokenBytes
    <3>6. WordsFrom(text, i) = <<TokenAt(text, i)>> \o WordsFrom(text, e)
      BY <1>1, <2>1, <2>4, <3>1, WordsFromIs DEF TokenAt
    <3> HIDE DEF j
    <3>7. j <= Len(c) /\ ~T!IsSpace(c[j])
      BY <1>1, <1>2, <2>4, <3>1 DEF j
    <3>8. d \in Nat /\ j < d
      BY <1>1, <2>1, <3>7, TokenGoesOn
    <3>9. ~(j > Len(c))
      BY <1>1, <2>1, <3>7
    <3>10. WordsFrom(c, j) = <<SubSeq(c, j, d - 1)>> \o WordsFrom(c, d)
      BY <1>1, <2>1, <3>7, <3>9, WordsFromIs
    <3> HIDE DEF e, d
    <3>11. Boundary(text, e) /\ \A k \in i .. (e - 1) : ~T!IsSpace(text[k])
      BY <3>5 DEF IsToken
    <3>12. e <= i + r
      <4>1. i + r <= e - 1 => i + r \in i .. (e - 1) /\ i + r <= Len(text)
        BY <1>1, <2>1, <3>5
      <4> QED
        BY <1>1, <2>1, <3>2, <3>5, <3>11, <4>1
    <3>13. /\ (e - 1) - i \in 0 .. (r - 1) /\ e - 1 = i + ((e - 1) - i)
           /\ d = (j + ((e - 1) - i)) + 1
      BY <1>1, <2>1, <3>4, <3>5, <3>8, <3>12
    <3>14. f[e - 1] + 1 = d
      BY <3>3, <3>13
    <3>15. \A k \in 0 .. (r - 1) : text[i + k] = c[j + k]
      BY <3>3 DEF SameRun
    <3>16. j + r <= Len(c) + 1
      BY <3>3 DEF SameRun
    <3>17. SubSeq(c, j, d - 1) = TokenAt(text, i)
      <4> DEFINE w == TokenAt(text, i) v == SubSeq(c, j, d - 1)
      <4>1. \A k \in j .. (d - 1) : c[k] \in T!Bytes
        <5>1. \A k \in j .. (d - 1) : k \in 1 .. Len(c)
          BY <1>1, <2>1, <3>8, <3>12, <3>13, <3>16, SMTT(30)
        <5> QED
          BY <5>1
      <4>2. j \in Int /\ d - 1 \in Int /\ (d - 1) - j + 1 = e - i /\ j <= d - 1
        BY <1>1, <2>1, <3>4, <3>5, <3>8
      <4>3. /\ v \in Seq(T!Bytes) /\ Len(v) = (d - 1) - j + 1
            /\ \A k \in 1 .. (d - 1) - j + 1 : v[k] = c[j + k - 1]
        BY <4>1, <4>2, SubSeqProperties
      <4> HIDE DEF w, v
      <4>4. ASSUME NEW k \in 1 .. (e - i) PROVE v[k] = w[k]
        <5>1. /\ k - 1 \in 0 .. (r - 1) /\ i + k - 1 = i + (k - 1) /\ j + k - 1 = j + (k - 1)
          BY <1>1, <2>1, <3>5, <3>12
        <5>2. w[k] = text[i + (k - 1)]
          BY <3>5, <5>1 DEF w
        <5>3. v[k] = c[j + (k - 1)]
          BY <4>2, <4>3, <5>1
        <5> QED
          BY <3>15, <5>1, <5>2, <5>3
      <4>5. w \in Seq(T!Bytes) /\ Len(w) = e - i
        BY <3>5 DEF w
      <4>6. v = w
        BY <4>2, <4>3, <4>4, <4>5, SeqEqual
      <4> QED
        BY <4>6 DEF v, w
    <3>18. e \in 1 .. (Len(text) + 1) /\ e > i
      BY <1>1, <2>1, <3>5
    <3>19. Good(e)
      BY <1>3, <3>18
    <3>21. WordsFrom(text, e) = WordsFrom(c, d)
      BY <3>11, <3>14, <3>19
    <3> QED
      BY <3>6, <3>10, <3>17, <3>21 DEF j
  <2> QED
    BY <1>1, <2>1, <2>2, <2>3, <2>4
<1>4. Z = {}
  <2> SUFFICES ASSUME Z # {} PROVE FALSE
    OBVIOUS
  <2>1. Z \in SUBSET Nat /\ (\A i \in Z : i <= Len(text) + 1) /\ Len(text) + 1 \in Nat
    BY <1>1
  <2>2. PICK i \in Z : \A k \in Z : k <= i
    BY <2>1, Backward
  <2> HIDE DEF Good
  <2>3. \A k \in 1 .. (Len(text) + 1) : k > i => Good(k)
    BY <1>1, <2>2
  <2>4. i \in 1 .. (Len(text) + 1) /\ ~Good(i)
    BY <2>2
  <2> USE DEF Good
  <2> QED
    BY <1>3, <2>3, <2>4
<1>5. Good(1)
  <2>1. 1 \in 1 .. (Len(text) + 1)
    BY <1>1
  <2> QED
    BY <1>4, <2>1
<1>6. f[1 - 1] + 1 = 1
  BY <1>2
<1> QED
  BY <1>5, <1>6

-----------------------------------------------------------------------------
(* The words are the text. *)

\* Of a well-formed text no byte is lost or moved, and its words are of one kind
\* each (sam3_pretokenize).
THEOREM WordsHold ==
  ASSUME NEW text \in Seq(T!Bytes), WellFormed(text)
  PROVE  T!WordsAreTheText(text)
<1> DEFINE words == T!Pretokenize(text)
           c == T!Clean(text)
           Spaceless == \A k \in 1 .. Len(text) : ~T!IsSpace(text[k])
<1>1. Len(text) \in Nat /\ 1 \in 1 .. (Len(text) + 1)
  OBVIOUS
<1>2. Boundary(text, 1)
  BY <1>1 DEF Boundary, WellFormed
<1>3. words = WordsFrom(text, 1) /\ T!Unspaced(text) = RestFrom(text, 1)
  BY FromTheFirst
<1>4. Worded(text, 1) /\ (Spaceless => Linked(text, 1))
  BY <1>1, <1>2, WordsAreTokens
<1> HIDE DEF words, Spaceless
<1>5. /\ words \in Seq(Seq(T!Bytes)) /\ T!FlattenSeq(words) = T!Unspaced(text)
      /\ \A k \in 1 .. Len(words) : \E p \in 1 .. Len(text) :
               Begins(text, p) /\ words[k] = TokenAt(text, p)
  BY <1>3, <1>4 DEF Worded
<1>6. Spaceless => \A k \in 1 .. (Len(words) - 1) : \E p \in 1 .. Len(text) :
               /\ Begins(text, p) /\ Begins(text, T!TokenEnd(text, p))
               /\ words[k] = TokenAt(text, p)
               /\ words[k + 1] = TokenAt(text, T!TokenEnd(text, p))
  BY <1>3, <1>4 DEF Linked
<1>7. T!Pretokenize(c) = words
  <2>1. c \in Seq(T!Bytes)
    BY CleanCollapses
  <2>2. PICK f : Collapses(text, c, f)
    BY CleanCollapses
  <2> HIDE DEF c
  <2>3. WordsFrom(text, 1) = WordsFrom(c, 1)
    BY <1>2, <2>1, <2>2, SameWords
  <2>4. T!Pretokenize(c) = WordsFrom(c, 1)
    BY FromTheFirst
  <2> QED
    BY <1>3, <2>3, <2>4
<1>8. ASSUME NEW k \in 1 .. Len(words)
      PROVE  /\ KindOf(words[k]) = "digit" => Len(words[k]) = 1
             /\ KindOf(words[k]) = "letters" =>
                   \A i \in 1 .. Len(words[k]) : T!IsLetter(words[k][i]) \/ words[k][i] = "cont"
             /\ KindOf(words[k]) = "others" =>
                   \A i \in 1 .. Len(words[k]) : T!IsOther(words[k][i]) /\ words[k][i] # "cont"
  <2>1. PICK p \in 1 .. Len(text) : Begins(text, p) /\ words[k] = TokenAt(text, p)
    BY <1>5
  <2>2. p \in Nat
    BY <1>1
  <2> DEFINE w == TokenAt(text, p)
  <2>3. /\ KindOf(w) = "digit" => Len(w) = 1
        /\ KindOf(w) = "letters" => \A i \in 1 .. Len(w) : T!IsLetter(w[i]) \/ w[i] = "cont"
        /\ KindOf(w) = "others" => \A i \in 1 .. Len(w) : T!IsOther(w[i]) /\ w[i] # "cont"
    BY <2>1, <2>2, TokenIsOfOneKind
  <2> HIDE DEF w
  <2>4. words[k] = w
    BY <2>1 DEF w
  <2> QED
    BY <2>3, <2>4
<1>9. ASSUME Spaceless, NEW k \in 1 .. Len(words), k < Len(words)
      PROVE  ~(/\ KindOf(words[k]) = KindOf(words[k + 1])
               /\ KindOf(words[k]) \in {"letters", "others"})
  <2>1. k \in 1 .. (Len(words) - 1)
    BY <1>9
  <2>2. PICK p \in 1 .. Len(text) :
               /\ Begins(text, p) /\ Begins(text, T!TokenEnd(text, p))
               /\ words[k] = TokenAt(text, p)
               /\ words[k + 1] = TokenAt(text, T!TokenEnd(text, p))
    BY <1>6, <1>9, <2>1
  <2>3. p \in Nat
    BY <1>1
  <2>4. ~(/\ KindOf(TokenAt(text, p)) = KindOf(TokenAt(text, T!TokenEnd(text, p)))
          /\ KindOf(TokenAt(text, p)) \in {"letters", "others"})
    BY <2>2, <2>3, TokensAreLongest
  <2> QED
    BY <2>2, <2>4
<1>10. /\ DOMAIN words = 1 .. Len(words) /\ DOMAIN text = 1 .. Len(text)
       /\ \A k \in 1 .. Len(words) : DOMAIN words[k] = 1 .. Len(words[k])
  BY <1>5
<1>11. T!WordsAreTheText(text) <=>
         /\ T!FlattenSeq(words) = T!Unspaced(text)
         /\ T!Pretokenize(c) = words
         /\ \A k \in DOMAIN words :
             /\ KindOf(words[k]) = "digit" => Len(words[k]) = 1
             /\ KindOf(words[k]) = "letters" =>
                  \A i \in DOMAIN words[k] : T!IsLetter(words[k][i]) \/ words[k][i] = "cont"
             /\ KindOf(words[k]) = "others" => \A i \in DOMAIN words[k] :
                  T!IsOther(words[k][i]) /\ words[k][i] # "cont"
             /\ (\A i \in DOMAIN text : ~T!IsSpace(text[i])) /\ k < Len(words) =>
                  ~(/\ KindOf(words[k]) = KindOf(words[k + 1])
                    /\ KindOf(words[k]) \in {"letters", "others"})
  BY DEF T!WordsAreTheText, KindOf, words
<1>12. Spaceless <=> \A i \in DOMAIN text : ~T!IsSpace(text[i])
  BY <1>10 DEF Spaceless
<1>13. \A k \in DOMAIN words :
         /\ KindOf(words[k]) = "digit" => Len(words[k]) = 1
         /\ KindOf(words[k]) = "letters" =>
              \A i \in DOMAIN words[k] : T!IsLetter(words[k][i]) \/ words[k][i] = "cont"
         /\ KindOf(words[k]) = "others" => \A i \in DOMAIN words[k] :
              T!IsOther(words[k][i]) /\ words[k][i] # "cont"
  BY <1>8, <1>10
<1>14. \A k \in DOMAIN words : (\A i \in DOMAIN text : ~T!IsSpace(text[i])) /\ k < Len(words) =>
              ~(/\ KindOf(words[k]) = KindOf(words[k + 1])
                /\ KindOf(words[k]) \in {"letters", "others"})
  BY <1>9, <1>10, <1>12
<1> QED
  BY <1>5, <1>7, <1>11, <1>13, <1>14

\* A well-formed text of bytes.
Whole(text) == text \in Seq(T!Bytes) /\ WellFormed(text)

\* A character is one byte, or a lead byte and its continuation.
LEMMA SymbolsAre ==
  ASSUME NEW s \in Symbols
  PROVE  /\ s \in Seq(T!Bytes)
         /\ \/ Len(s) = 1 /\ s[1] \notin {"lead", "cont"}
            \/ Len(s) = 2 /\ s[1] = "lead" /\ s[2] = "cont"
<1>1. CASE s = <<"lead", "cont">>
  BY <1>1 DEF T!Bytes
<1>2. CASE \E b \in T!Bytes \ {"lead", "cont"} : s = <<b>>
  <2>1. PICK b \in T!Bytes \ {"lead", "cont"} : s = <<b>>
    BY <1>2
  <2> QED
    BY <2>1
<1> QED
  BY <1>1, <1>2 DEF Symbols

\* Another character leaves a text well formed.
LEMMA WholeGrows ==
  ASSUME NEW text, Whole(text), NEW s \in Symbols
  PROVE  Whole(text \o s)
<1> DEFINE n == Len(text)
           all == text \o s
<1>1. /\ text \in Seq(T!Bytes)
      /\ \A k \in 1 .. n : /\ text[k] = "lead" => k < n /\ text[k + 1] = "cont"
                           /\ text[k] = "cont" => k > 1 /\ text[k - 1] = "lead"
  BY DEF Whole, WellFormed
<1>2. /\ s \in Seq(T!Bytes)
      /\ \/ Len(s) = 1 /\ s[1] \notin {"lead", "cont"}
         \/ Len(s) = 2 /\ s[1] = "lead" /\ s[2] = "cont"
  BY SymbolsAre
<1>3. /\ all \in Seq(T!Bytes) /\ Len(all) = n + Len(s)
      /\ \A k \in 1 .. (n + Len(s)) : all[k] = IF k <= n THEN text[k] ELSE s[k - n]
  BY <1>1, <1>2, ConcatProperties
<1>4. n \in Nat
  BY <1>1
<1> HIDE DEF n, all
<1>5. Len(s) \in {1, 2}
  BY <1>2
<1>6. ASSUME NEW k \in 1 .. (n + Len(s))
      PROVE  /\ all[k] = "lead" => k < n + Len(s) /\ all[k + 1] = "cont"
             /\ all[k] = "cont" => k > 1 /\ all[k - 1] = "lead"
  <2>1. CASE k <= n
    <3>1. all[k] = text[k] /\ k \in 1 .. n
      BY <1>3, <1>4, <1>5, <2>1
    <3>2. ASSUME all[k] = "lead" PROVE k < n + Len(s) /\ all[k + 1] = "cont"
      <4>1. k < n /\ text[k + 1] = "cont"
        BY <1>1, <3>1, <3>2
      <4>2. k + 1 \in 1 .. (n + Len(s)) /\ k + 1 <= n /\ k < n + Len(s)
        BY <1>4, <1>5, <4>1
      <4> QED
        BY <1>3, <4>1, <4>2
    <3>3. ASSUME all[k] = "cont" PROVE k > 1 /\ all[k - 1] = "lead"
      <4>1. k > 1 /\ text[k - 1] = "lead"
        BY <1>1, <3>1, <3>3
      <4>2. k - 1 \in 1 .. (n + Len(s)) /\ k - 1 <= n
        BY <1>4, <1>5, <2>1, <4>1
      <4> QED
        BY <1>3, <4>1, <4>2
    <3> QED
      BY <3>2, <3>3
  <2>2. CASE k = n + 1
    <3>1. ~(k <= n) /\ k - n = 1
      BY <1>4, <2>2
    <3>2. all[k] = s[1]
      BY <1>3, <3>1
    <3>3. CASE Len(s) = 1
      BY <1>2, <3>2, <3>3
    <3>4. CASE Len(s) = 2
      <4>1. k + 1 \in 1 .. (n + Len(s)) /\ ~(k + 1 <= n) /\ (k + 1) - n = 2 /\ k < n + Len(s)
        BY <1>4, <2>2, <3>4
      <4>2. all[k + 1] = s[2]
        BY <1>3, <4>1
      <4> QED
        BY <1>2, <3>2, <3>4, <4>1, <4>2
    <3> QED
      BY <1>5, <3>3, <3>4
  <2>3. CASE k > n + 1
    <3>1. Len(s) = 2 /\ k = n + 2
      <4>1. k \in Nat /\ k <= n + Len(s)
        BY <1>4, <1>5
      <4>2. CASE Len(s) = 1
        BY <1>4, <2>3, <4>1, <4>2
      <4>3. CASE Len(s) = 2
        BY <1>4, <2>3, <4>1, <4>3
      <4> QED
        BY <1>5, <4>2, <4>3
    <3>2. ~(k <= n) /\ k - n = 2 /\ ~(k - 1 <= n) /\ (k - 1) - n = 1 /\ k > 1
          /\ k - 1 \in 1 .. (n + Len(s))
      BY <1>4, <3>1
    <3>3. all[k] = s[2] /\ all[k - 1] = s[1]
      BY <1>3, <3>2
    <3> QED
      BY <1>2, <3>1, <3>2, <3>3
  <2> QED
    BY <1>4, <2>1, <2>2, <2>3
<1> QED
  BY <1>3, <1>6 DEF all, Whole, WellFormed

\* What is put together from characters is well formed.
LEMMA TextsAreWhole ==
  ASSUME NEW t \in Seq(Symbols), Len(t) # 0
  PROVE  Whole(T!FlattenSeq(t))
<1> DEFINE n == Len(t)
<1>1. n \in Nat \ {0}
  OBVIOUS
<1>2. \A s \in Symbols : s \in Seq(T!Bytes)
  BY SymbolsAre
<1>3. t \in Seq(Seq(T!Bytes)) /\ \A k \in 1 .. n : t[k] \in Symbols
  <2>1. \A k \in 1 .. n : t[k] \in Symbols
    OBVIOUS
  <2>2. \A k \in 1 .. n : t[k] \in Seq(T!Bytes)
    BY <1>2, <2>1
  <2>3. t = [k \in 1 .. n |-> t[k]]
    OBVIOUS
  <2>4. [k \in 1 .. n |-> t[k]] \in Seq(Seq(T!Bytes))
    <3> HIDE DEF n
    <3> QED
      BY <1>1, <2>2, IsASeq
  <2> QED
    BY <2>1, <2>3, <2>4
<1>4. PICK f : Together(f, t, T!Bytes)
  BY <1>3, FlattenIs
<1> HIDE DEF n
<1>5. /\ f[1] = t[1] /\ \A i \in 2 .. n : f[i] = f[i - 1] \o t[i]
      /\ T!FlattenSeq(t) = f[n]
  BY <1>4 DEF Together, n
<1> DEFINE Z == {k \in Nat \ {0} : k <= n /\ ~Whole(f[k])}
<1>6. ASSUME Z # {} PROVE FALSE
  <2>1. PICK k \in Z : \A m \in Z : k <= m
    BY <1>6, LeastNat
  <2>2. CASE k = 1
    <3> DEFINE s == t[1] e == <<>>
    <3>1. s \in Symbols
      BY <1>1, <1>3
    <3> HIDE DEF s
    <3>2. e \in Seq(T!Bytes) /\ Len(e) = 0
      OBVIOUS
    <3>3. Whole(e)
      BY <3>2 DEF Whole, WellFormed
    <3>4. Whole(e \o s)
      <4> HIDE DEF e
      <4> QED
        BY <3>1, <3>3, WholeGrows
    <3>5. s \in Seq(T!Bytes)
      BY <1>2, <3>1
    <3>6. e \o s = s
      BY <3>5
    <3> QED
      BY <1>5, <2>1, <2>2, <3>4, <3>6 DEF s
  <2>3. CASE k # 1
    <3>1. k - 1 \in Nat \ {0} /\ k - 1 <= n /\ ~(k <= k - 1) /\ k \in 2 .. n /\ k \in 1 .. n
      BY <1>1, <2>1, <2>3
    <3>2. Whole(f[k - 1])
      BY <2>1, <3>1
    <3> DEFINE b == f[k - 1] s == t[k]
    <3>3. s \in Symbols
      BY <1>3, <3>1
    <3>4. f[k] = b \o s
      BY <1>5, <3>1
    <3> HIDE DEF b, s
    <3>5. Whole(b \o s)
      BY <3>2, <3>3, WholeGrows DEF b
    <3> QED
      BY <2>1, <3>4, <3>5
  <2> QED
    BY <2>2, <2>3
<1>7. Whole(f[n])
  <2>1. n \in Nat \ {0} /\ n <= n
    BY <1>1
  <2> QED
    BY <1>6, <2>1
<1> QED
  BY <1>5, <1>7

-----------------------------------------------------------------------------
(* Byte-pair encoding. *)

\* What merging a pair makes of the word from i on.
MergedFrom(word, pair, i) ==
    LET from[j \in Nat] ==
            IF j > Len(word) THEN <<>>
            ELSE IF j < Len(word) /\ <<word[j], word[j + 1]>> = pair
                 THEN <<word[j] \o word[j + 1]>> \o from[j + 2]
                 ELSE <<word[j]>> \o from[j + 1]
    IN  from[i]

\* The pair stands at j.
Occurs(word, pair, j) == j < Len(word) /\ <<word[j], word[j + 1]>> = pair

\* One step of the merging loop.
LEMMA MergedIs ==
  ASSUME NEW word, Len(word) \in Nat, NEW pair, NEW i \in Nat
  PROVE  MergedFrom(word, pair, i) =
           IF i > Len(word) THEN <<>>
           ELSE IF Occurs(word, pair, i)
                THEN <<word[i] \o word[i + 1]>> \o MergedFrom(word, pair, i + 2)
                ELSE <<word[i]>> \o MergedFrom(word, pair, i + 1)
<1> DEFINE goes == {j \in Nat : j <= Len(word)}
           takes == Nat
           to == [j \in Nat |-> IF Occurs(word, pair, j) THEN j + 2 ELSE j + 1]
           head == [j \in Nat |-> IF Occurs(word, pair, j) THEN <<word[j] \o word[j + 1]>>
                                  ELSE <<word[j]>>]
           base == [j \in Nat |-> <<>>]
           body(f, j) == IF j > Len(word) THEN <<>>
                         ELSE IF Occurs(word, pair, j)
                              THEN <<word[j] \o word[j + 1]>> \o f[j + 2]
                              ELSE <<word[j]>> \o f[j + 1]
           from == CHOOSE f : f = [j \in Nat |-> body(f, j)]
<1>1. \A j \in goes : /\ j \in Nat /\ j <= Len(word)
                      /\ to[j] = IF Occurs(word, pair, j) THEN j + 2 ELSE j + 1
  OBVIOUS
<1> HIDE DEF to
<1>2. Forward(goes, to, Len(word) + 1)
  BY <1>1 DEF Forward
<1>3. ASSUME NEW f, NEW j \in Nat PROVE Made(f, goes, takes, to, head, base, j) = body(f, j)
  <2>1. (j \in goes <=> ~(j > Len(word))) /\ j \in takes
    OBVIOUS
  <2>2. to[j] = IF Occurs(word, pair, j) THEN j + 2 ELSE j + 1
    BY DEF to
  <2>3. head[j] = (IF Occurs(word, pair, j) THEN <<word[j] \o word[j + 1]>> ELSE <<word[j]>>)
        /\ base[j] = <<>>
    OBVIOUS
  <2> HIDE DEF goes, takes, head, base
  <2> QED
    BY <2>1, <2>2, <2>3 DEF Made
<1>4. \E f : f = [j \in Nat |-> Made(f, goes, takes, to, head, base, j)]
  <2>1. goes \in SUBSET Nat /\ Len(word) + 1 \in Nat
    OBVIOUS
  <2> HIDE DEF goes, to, head, base, takes
  <2>2. Defines(goes, takes, to, head, base)
    BY <1>2, <2>1, ForwardExists
  <2> QED
    BY <2>2 DEF Defines
<1> HIDE DEF goes, to, head, base, takes, body
<1>5. \E f : f = [j \in Nat |-> body(f, j)]
  BY <1>3, <1>4
<1>6. from = [j \in Nat |-> body(from, j)]
  BY <1>5
<1>7. \A j \in Nat : MergedFrom(word, pair, j) = from[j]
  BY DEF MergedFrom, body, Occurs
<1> HIDE DEF from
<1>8. MergedFrom(word, pair, i) = body(from, i)
  BY <1>6, <1>7
<1>9. i + 1 \in Nat /\ i + 2 \in Nat
  OBVIOUS
<1> QED
  BY <1>7, <1>8, <1>9 DEF body

\* x is a part of y.
Lies(x, y) == \E j \in Nat : j + Len(x) <= Len(y) /\ \A k \in 1 .. Len(x) : y[j + k] = x[k]

\* What is put together has its parts.
LEMMA PartsLie ==
  ASSUME NEW C, NEW x \in Seq(C), NEW y \in Seq(C)
  PROVE  Lies(x, x) /\ Lies(x, x \o y) /\ Lies(y, x \o y)
<1>1. Len(x) \in Nat /\ Len(y) \in Nat
  OBVIOUS
<1>2. /\ Len(x \o y) = Len(x) + Len(y)
      /\ \A i \in 1 .. (Len(x) + Len(y)) : (x \o y)[i] = IF i <= Len(x) THEN x[i] ELSE y[i - Len(x)]
  BY ConcatProperties
<1> DEFINE z == x \o y
<1> HIDE DEF z
<1>3. /\ Len(z) = Len(x) + Len(y)
      /\ \A i \in 1 .. (Len(x) + Len(y)) : z[i] = IF i <= Len(x) THEN x[i] ELSE y[i - Len(x)]
  BY <1>2 DEF z
<1>4. 0 \in Nat /\ 0 + Len(x) <= Len(x) /\ \A k \in 1 .. Len(x) : x[0 + k] = x[k]
  BY <1>1
<1>5. 0 + Len(x) <= Len(z) /\ \A k \in 1 .. Len(x) : z[0 + k] = x[k]
  BY <1>1, <1>3
<1>6. Len(x) + Len(y) <= Len(z) /\ \A k \in 1 .. Len(y) : z[Len(x) + k] = y[k]
  <2>1. \A k \in 1 .. Len(y) : /\ Len(x) + k \in 1 .. (Len(x) + Len(y)) /\ ~(Len(x) + k <= Len(x))
                               /\ (Len(x) + k) - Len(x) = k
    BY <1>1
  <2> QED
    BY <1>1, <1>3, <2>1
<1>7. Lies(x, x)
  BY <1>4 DEF Lies
<1>8. Lies(x, z)
  BY <1>4, <1>5 DEF Lies
<1>9. Lies(y, z)
  BY <1>1, <1>6 DEF Lies
<1> QED
  BY <1>7, <1>8, <1>9 DEF z

\* A part of a part is one.
LEMMA PartsOfParts ==
  ASSUME NEW x, NEW y, NEW z, Len(x) \in Nat, Len(y) \in Nat, Len(z) \in Nat,
         Lies(x, y), Lies(y, z)
  PROVE  Lies(x, z)
<1>1. PICK i \in Nat : i + Len(x) <= Len(y) /\ \A k \in 1 .. Len(x) : y[i + k] = x[k]
  BY DEF Lies
<1>2. PICK j \in Nat : j + Len(y) <= Len(z) /\ \A k \in 1 .. Len(y) : z[j + k] = y[k]
  BY DEF Lies
<1>3. (j + i) \in Nat /\ (j + i) + Len(x) <= Len(z)
  BY <1>1, <1>2
<1>4. ASSUME NEW k \in 1 .. Len(x) PROVE z[(j + i) + k] = x[k]
  <2>1. i + k \in 1 .. Len(y) /\ (j + i) + k = j + (i + k)
    BY <1>1, <1>2
  <2> QED
    BY <1>1, <1>2, <2>1
<1> QED
  BY <1>3, <1>4 DEF Lies

\* A sequence from i on.
LEMMA TailIs ==
  ASSUME NEW E, NEW w \in Seq(E), NEW i \in 1 .. Len(w)
  PROVE  /\ SubSeq(w, i, Len(w)) = <<w[i]>> \o SubSeq(w, i + 1, Len(w))
         /\ SubSeq(w, i + 1, Len(w)) \in Seq(E) /\ w[i] \in E
<1>1. Len(w) \in Nat /\ i \in Nat /\ i <= Len(w) /\ Len(w) \in i .. Len(w) /\ w[i] \in E
  OBVIOUS
<1>2. SubSeq(w, i, Len(w)) = <<w[i]>> \o SubSeq(w, i + 1, Len(w))
  BY <1>1, SubSeqRecursiveFirst
<1>3. \A k \in (i + 1) .. Len(w) : w[k] \in E
  BY <1>1
<1>4. SubSeq(w, i + 1, Len(w)) \in Seq(E)
  BY <1>1, <1>3, SubSeqProperties
<1> QED
  BY <1>1, <1>2, <1>4

\* The word is kept from i on, in no more parts, each within one.
Kept(w, pair, i, C) ==
    LET out == MergedFrom(w, pair, i)
    IN  /\ out \in Seq(Seq(C))
        /\ T!FlattenSeq(out) = T!FlattenSeq(SubSeq(w, i, Len(w)))
        /\ Len(out) <= Len(w) - i + 1
        /\ \A k \in i .. Len(w) : \E m \in 1 .. Len(out) : Lies(w[k], out[m])

\* Where the pair stands the parts become fewer, and one of them is the pair.
Merged(w, pair, i) ==
    \A k \in i .. Len(w) : Occurs(w, pair, k) =>
        /\ Len(MergedFrom(w, pair, i)) <= Len(w) - i
        /\ \E m \in 1 .. Len(MergedFrom(w, pair, i)) :
               MergedFrom(w, pair, i)[m] = w[k] \o w[k + 1]

\* In front of what is behind.
LEMMA HeadKept ==
  ASSUME NEW C, NEW x \in Seq(C), NEW rest \in Seq(Seq(C))
  PROVE  /\ <<x>> \o rest \in Seq(Seq(C)) /\ Len(<<x>> \o rest) = Len(rest) + 1
         /\ Len(rest) \in Nat
         /\ T!FlattenSeq(<<x>> \o rest) = x \o T!FlattenSeq(rest)
         /\ 1 \in 1 .. Len(<<x>> \o rest) /\ (<<x>> \o rest)[1] = x
         /\ \A m \in 1 .. Len(rest) : m + 1 \in 1 .. Len(<<x>> \o rest)
                                      /\ (<<x>> \o rest)[m + 1] = rest[m]
<1> DEFINE E == Seq(C)
<1>1. x \in E /\ rest \in Seq(E)
  OBVIOUS
<1> HIDE DEF E
<1>2. /\ <<x>> \o rest \in Seq(E) /\ Len(<<x>> \o rest) = Len(rest) + 1 /\ Len(rest) \in Nat
      /\ (<<x>> \o rest)[1] = x
      /\ \A k \in 1 .. Len(rest) : (<<x>> \o rest)[k + 1] = rest[k]
  BY <1>1, ConsIs
<1>3. T!FlattenSeq(<<x>> \o rest) = x \o T!FlattenSeq(rest)
  BY FlattenCons
<1> DEFINE all == <<x>> \o rest
<1> HIDE DEF all
<1>4. 1 \in 1 .. Len(all) /\ \A m \in 1 .. Len(rest) : m + 1 \in 1 .. Len(all)
  BY <1>2 DEF all
<1> QED
  BY <1>2, <1>3, <1>4 DEF all, E

\* Merging a pair in all its places keeps the word and every part of it.
LEMMA MergeKeeps ==
  ASSUME NEW C, NEW w \in Seq(Seq(C)), NEW pair, NEW i \in 1 .. (Len(w) + 1)
  PROVE  Kept(w, pair, i, C) /\ Merged(w, pair, i)
<1> DEFINE n == Len(w)
           Good(j) == Kept(w, pair, j, C) /\ Merged(w, pair, j)
           Z == {j \in 1 .. (n + 1) : ~Good(j)}
<1>1. n \in Nat /\ \A j \in 1 .. n : w[j] \in Seq(C)
  OBVIOUS
<1> HIDE DEF n
<1>2. ASSUME NEW j \in 1 .. (n + 1), \A k \in 1 .. (n + 1) : k > j => Good(k)
      PROVE  Good(j)
  <2> DEFINE out == MergedFrom(w, pair, j)
             tail(k) == SubSeq(w, k, n)
  <2>0. j \in Nat
    BY <1>1
  <2>1. CASE j > n
    <3>1. out = <<>>
      BY <1>1, <2>0, <2>1, MergedIs DEF n
    <3>2. SubSeq(w, j, n) = <<>>
      BY <1>1, <2>0, <2>1, SubSeqEmpty
    <3>3. T!FlattenSeq(<<>>) = <<>> /\ Len(<<>>) = 0 /\ <<>> \in Seq(Seq(C))
      BY FlattenOne, EmptySeq
    <3>4. n - j + 1 = 0 /\ j .. n = {}
      BY <1>1, <2>1
    <3> QED
      BY <3>1, <3>2, <3>3, <3>4 DEF Kept, Merged, n
  <2>2. CASE j <= n /\ ~Occurs(w, pair, j)
    <3> DEFINE rest == MergedFrom(w, pair, j + 1)
               x == w[j]
               after == SubSeq(w, j + 1, n)
    <3>1. j \in 1 .. n /\ ~(j > n) /\ j + 1 \in 1 .. (n + 1) /\ j + 1 > j /\ j + 1 \in Nat
      BY <1>1, <2>2
    <3>2. out = <<x>> \o rest
      BY <1>1, <2>0, <2>2, <3>1, MergedIs DEF n
    <3>3. Kept(w, pair, j + 1, C) /\ Merged(w, pair, j + 1)
      BY <1>2, <3>1
    <3>4. /\ rest \in Seq(Seq(C)) /\ T!FlattenSeq(rest) = T!FlattenSeq(after)
          /\ Len(rest) <= n - (j + 1) + 1
          /\ \A k \in (j + 1) .. n : \E m \in 1 .. Len(rest) : Lies(w[k], rest[m])
      BY <3>3 DEF Kept, n
    <3>5. \A k \in (j + 1) .. n : Occurs(w, pair, k) =>
            Len(rest) <= n - (j + 1) /\ \E m \in 1 .. Len(rest) : rest[m] = w[k] \o w[k + 1]
      BY <3>3 DEF Merged, n
    <3>6. SubSeq(w, j, n) = <<x>> \o after /\ after \in Seq(Seq(C)) /\ x \in Seq(C)
      BY <3>1, TailIs DEF n
    <3> HIDE DEF out, rest, x, after
    <3>7. /\ out \in Seq(Seq(C)) /\ Len(out) = Len(rest) + 1 /\ Len(rest) \in Nat
          /\ T!FlattenSeq(out) = x \o T!FlattenSeq(rest)
          /\ 1 \in 1 .. Len(out) /\ out[1] = x
          /\ \A m \in 1 .. Len(rest) : m + 1 \in 1 .. Len(out) /\ out[m + 1] = rest[m]
      <4>1. rest \in Seq(Seq(C)) /\ x \in Seq(C)
        BY <3>4, <3>6
      <4> DEFINE all == <<x>> \o rest
      <4>2. all \in Seq(Seq(C)) /\ Len(all) = Len(rest) + 1 /\ Len(rest) \in Nat
        BY <4>1, HeadKept
      <4>3. T!FlattenSeq(all) = x \o T!FlattenSeq(rest)
        BY <4>1, HeadKept
      <4>4. 1 \in 1 .. Len(all) /\ all[1] = x
        BY <4>1, HeadKept
      <4>5. \A m \in 1 .. Len(rest) : m + 1 \in 1 .. Len(all) /\ all[m + 1] = rest[m]
        BY <4>1, HeadKept
      <4> QED
        BY <3>2, <4>2, <4>3, <4>4, <4>5
    <3>8. T!FlattenSeq(<<x>> \o after) = x \o T!FlattenSeq(after)
      BY <3>6, FlattenCons
    <3>9. ASSUME NEW k \in j .. n PROVE \E m \in 1 .. Len(out) : Lies(w[k], out[m])
      <4>1. CASE k = j
        <5>1. Lies(x, x)
          BY <3>6, PartsLie
        <5> QED
          BY <3>7, <4>1, <5>1 DEF x
      <4>2. CASE k # j
        <5>1. k \in (j + 1) .. n
          BY <1>1, <2>0, <4>2
        <5>2. PICK m \in 1 .. Len(rest) : Lies(w[k], rest[m])
          BY <3>4, <5>1
        <5> QED
          BY <3>7, <5>2
      <4> QED
        BY <4>1, <4>2
    <3>10. ASSUME NEW k \in j .. n, Occurs(w, pair, k)
           PROVE  Len(out) <= n - j /\ \E m \in 1 .. Len(out) : out[m] = w[k] \o w[k + 1]
      <4>1. k \in (j + 1) .. n
        <5>1. k # j
          BY <2>2, <3>10
        <5> QED
          BY <1>1, <2>0, <5>1
      <4>2. PICK m \in 1 .. Len(rest) : rest[m] = w[k] \o w[k + 1]
        BY <3>5, <3>10, <4>1
      <4>3. Len(rest) <= n - (j + 1)
        BY <3>5, <3>10, <4>1
      <4>4. Len(out) <= n - j
        BY <1>1, <2>0, <3>7, <4>3
      <4> QED
        BY <3>7, <4>2, <4>4
    <3>11. Len(out) <= n - j + 1
      BY <1>1, <2>0, <3>4, <3>7
    <3>12. T!FlattenSeq(out) = T!FlattenSeq(SubSeq(w, j, n))
      BY <3>4, <3>6, <3>7, <3>8
    <3>13. Kept(w, pair, j, C)
      BY <3>7, <3>9, <3>11, <3>12 DEF Kept, out, n
    <3>14. Merged(w, pair, j)
      BY <3>10 DEF Merged, out, n
    <3> QED
      BY <3>13, <3>14
  <2>3. CASE j <= n /\ Occurs(w, pair, j)
    <3> DEFINE rest == MergedFrom(w, pair, j + 2)
               x == w[j]
               y == w[j + 1]
               z == x \o y
               next == SubSeq(w, j + 1, n)
               after == SubSeq(w, j + 2, n)
    <3>1. /\ j \in 1 .. n /\ ~(j > n) /\ j + 1 \in 1 .. n /\ j + 2 \in 1 .. (n + 1) /\ j + 2 > j
          /\ j + 2 \in Nat /\ (j + 1) + 1 = j + 2
      <4>1. j < n
        BY <2>3 DEF Occurs, n
      <4> QED
        BY <1>1, <4>1
    <3>2. out = <<z>> \o rest
      BY <1>1, <2>0, <2>3, <3>1, MergedIs DEF n
    <3>3. Kept(w, pair, j + 2, C)
      BY <1>2, <3>1
    <3>4. /\ rest \in Seq(Seq(C)) /\ T!FlattenSeq(rest) = T!FlattenSeq(after)
          /\ Len(rest) <= n - (j + 2) + 1
          /\ \A k \in (j + 2) .. n : \E m \in 1 .. Len(rest) : Lies(w[k], rest[m])
      BY <3>3 DEF Kept, n
    <3>5. SubSeq(w, j, n) = <<x>> \o next /\ next \in Seq(Seq(C)) /\ x \in Seq(C)
      BY <3>1, TailIs DEF n
    <3>6. next = <<y>> \o after /\ after \in Seq(Seq(C)) /\ y \in Seq(C)
      <4> DEFINE p == j + 1
      <4>1. p \in 1 .. Len(w) /\ p + 1 = j + 2
        BY <3>1 DEF n
      <4> HIDE DEF p
      <4>2. /\ SubSeq(w, p, Len(w)) = <<w[p]>> \o SubSeq(w, p + 1, Len(w))
            /\ SubSeq(w, p + 1, Len(w)) \in Seq(Seq(C)) /\ w[p] \in Seq(C)
        BY <4>1, TailIs
      <4> QED
        BY <4>1, <4>2 DEF p, n
    <3>60. z \in Seq(C)
      <4> HIDE DEF x, y
      <4> QED
        BY <3>5, <3>6, ConcatProperties
    <3> HIDE DEF out, rest, x, y, z, next, after
    <3>7. /\ out \in Seq(Seq(C)) /\ Len(out) = Len(rest) + 1 /\ Len(rest) \in Nat
          /\ T!FlattenSeq(out) = z \o T!FlattenSeq(rest)
          /\ 1 \in 1 .. Len(out) /\ out[1] = z
          /\ \A m \in 1 .. Len(rest) : m + 1 \in 1 .. Len(out) /\ out[m + 1] = rest[m]
      <4>1. rest \in Seq(Seq(C)) /\ z \in Seq(C)
        BY <3>4, <3>60
      <4> DEFINE all == <<z>> \o rest
      <4>2. all \in Seq(Seq(C)) /\ Len(all) = Len(rest) + 1 /\ Len(rest) \in Nat
        BY <4>1, HeadKept
      <4>3. T!FlattenSeq(all) = z \o T!FlattenSeq(rest)
        BY <4>1, HeadKept
      <4>4. 1 \in 1 .. Len(all) /\ all[1] = z
        BY <4>1, HeadKept
      <4>5. \A m \in 1 .. Len(rest) : m + 1 \in 1 .. Len(all) /\ all[m + 1] = rest[m]
        BY <4>1, HeadKept
      <4> QED
        BY <3>2, <4>2, <4>3, <4>4, <4>5
    <3>8. T!FlattenSeq(<<x>> \o next) = z \o T!FlattenSeq(after)
      <4> DEFINE all == T!FlattenSeq(after)
      <4>1. all \in Seq(C)
        BY <3>6, FlattenOne
      <4>2. T!FlattenSeq(next) = y \o all
        BY <3>6, FlattenCons
      <4>3. T!FlattenSeq(<<x>> \o next) = x \o T!FlattenSeq(next)
        BY <3>5, FlattenCons
      <4> HIDE DEF all
      <4>4. (x \o y) \o all = x \o (y \o all)
        <5>1. x \in Seq(C) /\ y \in Seq(C)
          BY <3>5, <3>6
        <5> QED
          BY <4>1, <5>1, SMTT(30)
      <4> QED
        BY <4>2, <4>3, <4>4 DEF z, all
    <3>9. ASSUME NEW k \in j .. n PROVE \E m \in 1 .. Len(out) : Lies(w[k], out[m])
      <4>1. Lies(x, z) /\ Lies(y, z)
        <5>1. Lies(x, x \o y) /\ Lies(y, x \o y)
          BY <3>5, <3>6, PartsLie
        <5> QED
          BY <5>1 DEF z
      <4>2. CASE k = j
        BY <3>7, <4>1, <4>2 DEF x
      <4>3. CASE k = j + 1
        BY <3>7, <4>1, <4>3 DEF y
      <4>4. CASE k # j /\ k # j + 1
        <5>1. k \in (j + 2) .. n
          BY <1>1, <2>0, <4>4
        <5>2. PICK m \in 1 .. Len(rest) : Lies(w[k], rest[m])
          BY <3>4, <5>1
        <5> QED
          BY <3>7, <5>2
      <4> QED
        BY <4>2, <4>3, <4>4
    <3>10. ASSUME NEW k \in j .. n, Occurs(w, pair, k)
           PROVE  Len(out) <= n - j /\ \E m \in 1 .. Len(out) : out[m] = w[k] \o w[k + 1]
      <4>1. Len(out) <= n - j
        BY <1>1, <2>0, <3>4, <3>7
      <4>2. <<w[k], w[k + 1]>> = <<x, y>>
        BY <2>3, <3>10 DEF Occurs, x, y
      <4>3. w[k] = x /\ w[k + 1] = y
        BY <4>2
      <4> QED
        BY <3>7, <4>1, <4>3 DEF z
    <3>11. Len(out) <= n - j + 1
      BY <1>1, <2>0, <3>4, <3>7
    <3>12. T!FlattenSeq(out) = T!FlattenSeq(SubSeq(w, j, n))
      BY <3>4, <3>5, <3>7, <3>8
    <3>13. Kept(w, pair, j, C)
      BY <3>7, <3>9, <3>11, <3>12 DEF Kept, out, n
    <3>14. Merged(w, pair, j)
      BY <3>10 DEF Merged, out, n
    <3> QED
      BY <3>13, <3>14
  <2> QED
    BY <1>1, <2>0, <2>1, <2>2, <2>3
<1> HIDE DEF Good
<1>3. Z = {}
  <2> SUFFICES ASSUME Z # {} PROVE FALSE
    OBVIOUS
  <2>1. Z \in SUBSET Nat /\ (\A j \in Z : j <= n + 1) /\ n + 1 \in Nat
    BY <1>1
  <2>2. PICK j \in Z : \A k \in Z : k <= j
    BY <2>1, Backward
  <2>3. \A k \in 1 .. (n + 1) : k > j => Good(k)
    BY <1>1, <2>2
  <2>4. j \in 1 .. (n + 1) /\ ~Good(j)
    BY <2>2
  <2> QED
    BY <1>2, <2>3, <2>4
<1>4. Good(i)
  BY <1>3 DEF n
<1> QED
  BY <1>4 DEF Good

\* No merge applies.
Exhausted(w, merges) == \A r \in DOMAIN merges : merges[r] \notin T!Pairs(w)

\* One round of sam3_bpe_encode.
BpeRound(w, merges) ==
    IF \E r \in DOMAIN merges : merges[r] \in T!Pairs(w)
    THEN T!MergeAll(w, merges[T!Best(w, merges)]) ELSE w

\* The merge of the lowest rank.
Lowest(w, merges, r) ==
    /\ r \in DOMAIN merges /\ merges[r] \in T!Pairs(w)
    /\ \A q \in 1 .. (r - 1) : merges[q] \notin T!Pairs(w)

\* Merging begins at the first part.
LEMMA MergesFromTheFirst == \A w, pair : T!MergeAll(w, pair) = MergedFrom(w, pair, 1)
BY DEF T!MergeAll, MergedFrom

\* The code's best pair is that of the lowest rank.
LEMMA BestIsLowest ==
  ASSUME NEW w, NEW M1, NEW merges \in Seq(M1)
  PROVE  /\ ~Exhausted(w, merges) => Lowest(w, merges, T!Best(w, merges))
         /\ \A r : Lowest(w, merges, r) => T!Best(w, merges) = r
<1> DEFINE Z == {r \in Nat : r \in DOMAIN merges /\ merges[r] \in T!Pairs(w)}
<1>1. DOMAIN merges = 1 .. Len(merges) /\ Len(merges) \in Nat
  OBVIOUS
<1>2. T!Best(w, merges) = CHOOSE r \in DOMAIN merges : Lowest(w, merges, r)
  BY DEF T!Best, Lowest
<1>3. ASSUME ~Exhausted(w, merges) PROVE \E r \in DOMAIN merges : Lowest(w, merges, r)
  <2>1. Z # {}
    BY <1>1, <1>3 DEF Exhausted
  <2>2. PICK r \in Z : \A q \in Z : r <= q
    BY <2>1, LeastNat
  <2>3. \A q \in 1 .. (r - 1) : q \in Nat /\ q \in DOMAIN merges /\ ~(r <= q)
    BY <1>1, <2>2
  <2>4. Lowest(w, merges, r)
    BY <2>2, <2>3 DEF Lowest
  <2> QED
    BY <2>2, <2>4
<1>4. ASSUME NEW r, Lowest(w, merges, r), NEW q, Lowest(w, merges, q) PROVE q = r
  <2>1. r \in Nat \ {0} /\ q \in Nat \ {0}
    BY <1>1, <1>4 DEF Lowest
  <2>2. ~(q < r)
    <3>1. q < r => q \in 1 .. (r - 1)
      BY <2>1
    <3> QED
      BY <1>4, <3>1 DEF Lowest
  <2>3. ~(r < q)
    <3>1. r < q => r \in 1 .. (q - 1)
      BY <2>1
    <3> QED
      BY <1>4, <3>1 DEF Lowest
  <2> QED
    BY <2>1, <2>2, <2>3
<1>5. \A r : Lowest(w, merges, r) => r \in DOMAIN merges
  BY DEF Lowest
<1> DEFINE best == T!Best(w, merges)
<1>6. (\E r \in DOMAIN merges : Lowest(w, merges, r)) => Lowest(w, merges, best)
  BY <1>2
<1> HIDE DEF best
<1>7. \A r : Lowest(w, merges, r) => best = r
  BY <1>4, <1>5, <1>6
<1> QED
  BY <1>3, <1>6, <1>7 DEF best

\* The merge of the lowest rank is made.
LowestMade(w, merges) ==
    \A r : Lowest(w, merges, r) => \E k \in 1 .. (Len(w) - 1) :
        /\ <<w[k], w[k + 1]>> = merges[r]
        /\ \E m \in 1 .. Len(BpeRound(w, merges)) : BpeRound(w, merges)[m] = w[k] \o w[k + 1]

\* What a round does.
LEMMA RoundMerges ==
  ASSUME NEW C, NEW w \in Seq(Seq(C)), NEW M1, NEW merges \in Seq(M1)
  PROVE  /\ BpeRound(w, merges) \in Seq(Seq(C))
         /\ T!FlattenSeq(BpeRound(w, merges)) = T!FlattenSeq(w)
         /\ Exhausted(w, merges) => BpeRound(w, merges) = w
         /\ ~Exhausted(w, merges) => Len(BpeRound(w, merges)) <= Len(w) - 1
         /\ \A k \in 1 .. Len(w) : \E m \in 1 .. Len(BpeRound(w, merges)) :
              Lies(w[k], BpeRound(w, merges)[m])
         /\ LowestMade(w, merges)
<1> DEFINE next == BpeRound(w, merges)
<1>1. Len(w) \in Nat /\ \A k \in 1 .. Len(w) : w[k] \in Seq(C)
  OBVIOUS
<1>2. CASE Exhausted(w, merges)
  <2>1. next = w
    BY <1>2 DEF BpeRound, Exhausted
  <2>2. \A r : ~Lowest(w, merges, r)
    BY <1>2 DEF Exhausted, Lowest
  <2>3. \A k \in 1 .. Len(w) : Lies(w[k], w[k])
    BY <1>1, PartsLie
  <2> HIDE DEF next
  <2>4. \A k \in 1 .. Len(w) : \E m \in 1 .. Len(next) : Lies(w[k], next[m])
    BY <2>1, <2>3
  <2> QED
    BY <1>2, <2>1, <2>2, <2>4 DEF next, LowestMade
<1>3. CASE ~Exhausted(w, merges)
  <2> DEFINE best == T!Best(w, merges)
             pair == merges[best]
  <2>1. Lowest(w, merges, best) /\ \A r : Lowest(w, merges, r) => best = r
    BY <1>3, BestIsLowest
  <2>2. next = MergedFrom(w, pair, 1)
    BY <1>3, MergesFromTheFirst DEF BpeRound, Exhausted
  <2>3. pair \in T!Pairs(w)
    BY <2>1 DEF Lowest
  <2> HIDE DEF best
  <2>4. PICK k \in 1 .. (Len(w) - 1) : <<w[k], w[k + 1]>> = pair
    BY <2>3 DEF T!Pairs
  <2> HIDE DEF pair
  <2>5. 1 \in 1 .. (Len(w) + 1)
    BY <1>1
  <2>6. Kept(w, pair, 1, C) /\ Merged(w, pair, 1)
    BY <2>5, MergeKeeps
  <2>7. SubSeq(w, 1, Len(w)) = w
    BY SubSeqFull
  <2> HIDE DEF next
  <2>8. /\ next \in Seq(Seq(C)) /\ T!FlattenSeq(next) = T!FlattenSeq(w)
        /\ \A i \in 1 .. Len(w) : \E m \in 1 .. Len(next) : Lies(w[i], next[m])
    BY <2>2, <2>6, <2>7 DEF Kept
  <2>9. k \in 1 .. Len(w) /\ Occurs(w, pair, k)
    BY <1>1, <2>4 DEF Occurs
  <2>10. Len(next) <= Len(w) - 1 /\ \E m \in 1 .. Len(next) : next[m] = w[k] \o w[k + 1]
    BY <2>2, <2>6, <2>9 DEF Merged
  <2>11. \A r : Lowest(w, merges, r) => merges[r] = pair
    BY <2>1 DEF pair
  <2>12. \A r : Lowest(w, merges, r) => \E i \in 1 .. (Len(w) - 1) :
              <<w[i], w[i + 1]>> = merges[r] /\ \E m \in 1 .. Len(next) : next[m] = w[i] \o w[i + 1]
    BY <2>4, <2>10, <2>11
  <2> QED
    BY <1>3, <2>8, <2>10, <2>12 DEF next, LowestMade
<1> QED
  BY <1>2, <1>3

\* f is what the rounds make of a word.
Encodes(f, word, merges, C) ==
    /\ \A n \in 0 .. Len(word) : f[n] \in Seq(Seq(C))
    /\ f[0] = T!Characters(word)
    /\ \A n \in 1 .. Len(word) : f[n] = BpeRound(f[n - 1], merges)
    /\ T!BpeEncode(word, merges) = f[Len(word)]

\* Encoding is round after round.
LEMMA EncodeIs ==
  ASSUME NEW C, NEW word, Len(word) \in Nat, T!Characters(word) \in Seq(Seq(C)),
         NEW M1, NEW merges \in Seq(M1)
  PROVE  \E f : Encodes(f, word, merges, C)
<1> DEFINE E == Seq(Seq(C))
           n == Len(word)
           turn(d) == BpeRound(d, merges)
           D == [k \in 0 .. n |-> E]
           step == [k \in 1 .. n |-> [d \in E |-> turn(d)]]
           a == T!Characters(word)
           body(g, k) == IF k = 0 THEN a ELSE turn(g[k - 1])
           round == CHOOSE g : g = [k \in 0 .. n |-> body(g, k)]
<1>1. n \in Nat
  OBVIOUS
<1>2. \A d \in E : turn(d) \in E
  BY RoundMerges
<1> HIDE DEF E, a, turn
<1>3. a \in E
  BY DEF E, a
<1>4. D \in [0 .. n -> SUBSET E] /\ a \in D[0]
  BY <1>1, <1>3
<1>5. step \in [1 .. n -> [E -> E]] /\ \A k \in 1 .. n : \A d \in E : step[k][d] = turn(d)
  BY <1>2
<1>6. \A k \in 0 .. n : D[k] = E
  OBVIOUS
<1> HIDE DEF D, step, n
<1>7. Leads(step, n, D)
  <2>1. \A k \in 1 .. n : D[k - 1] = E /\ D[k] = E
    BY <1>1, <1>6
  <2> QED
    BY <1>2, <1>5, <2>1 DEF Leads
<1>8. \E f \in [0 .. n -> E] : Iterates(f, a, step, n, D)
  BY <1>1, <1>4, <1>5, <1>7, IterationExists
<1>9. PICK f \in [0 .. n -> E] : Iterates(f, a, step, n, D)
  BY <1>8
<1>10. f[0] = a /\ \A k \in 1 .. n : f[k] = turn(f[k - 1])
  <2> SUFFICES ASSUME NEW k \in 1 .. n PROVE f[k] = turn(f[k - 1])
    BY <1>9 DEF Iterates
  <2>1. k - 1 \in 0 .. n
    BY <1>1
  <2>2. f[k - 1] \in E
    BY <1>9, <2>1
  <2> QED
    BY <1>5, <1>9, <2>2 DEF Iterates
<1>11. f = [k \in 0 .. n |-> body(f, k)]
  <2> DEFINE h == [k \in 0 .. n |-> body(f, k)]
  <2>1. ASSUME NEW k \in 0 .. n PROVE f[k] = body(f, k)
    <3>1. k # 0 => k \in 1 .. n
      BY <1>1
    <3> QED
      BY <1>10, <3>1
  <2>2. \A k \in 0 .. n : f[k] = h[k]
    BY <2>1
  <2> HIDE DEF body
  <2> QED
    BY <2>2
<1> HIDE DEF body
<1>12. round = [k \in 0 .. n |-> body(round, k)]
  BY <1>11
<1>13. T!BpeEncode(word, merges) = round[n]
  BY DEF T!BpeEncode, body, turn, BpeRound, a, n
<1> HIDE DEF round
<1>14. \A k \in 0 .. n : round[k] = body(round, k)
  BY <1>12
<1>15. round[0] = a /\ \A k \in 1 .. n : round[k] = turn(round[k - 1])
  <2>1. 0 \in 0 .. n /\ \A k \in 1 .. n : k \in 0 .. n /\ k # 0
    BY <1>1
  <2> QED
    BY <1>14, <2>1 DEF body
<1>16. \A k \in 0 .. n : round[k] \in E
  <2> DEFINE Z == {k \in Nat : k \in 0 .. n /\ round[k] \notin E}
  <2>1. ASSUME Z # {} PROVE FALSE
    <3>1. PICK k \in Z : \A j \in Z : k <= j
      BY <2>1, LeastNat
    <3>2. k \in 1 .. n
      BY <1>1, <1>3, <1>15, <3>1
    <3>3. k - 1 \in Nat /\ k - 1 \in 0 .. n /\ ~(k <= k - 1)
      BY <1>1, <3>2
    <3>4. round[k - 1] \in E
      BY <3>1, <3>3
    <3>5. round[k] \in E
      BY <1>2, <1>15, <3>2, <3>4
    <3> QED
      BY <3>1, <3>5
  <2> QED
    BY <2>1
<1>17. Encodes(round, word, merges, C)
  BY <1>13, <1>15, <1>16 DEF Encodes, E, turn, a, n
<1> QED
  BY <1>17

\* The characters of a word are the word, ended.
LEMMA CharactersAre ==
  ASSUME NEW C, "</w>" \in C, NEW word \in Seq(C), Len(word) # 0
  PROVE  /\ T!Characters(word) \in Seq(Seq(C)) /\ Len(T!Characters(word)) = Len(word)
         /\ \A i \in 1 .. Len(word) : Len(T!Characters(word)[i]) \in Nat \ {0}
         /\ T!FlattenSeq(T!Characters(word)) = Append(word, "</w>")
<1> DEFINE n == Len(word)
           mark == "</w>"
           parts == T!Characters(word)
           tail(i) == SubSeq(word, i, n)
           Good(i) == T!FlattenSeq(SubSeq(parts, i, n)) = SubSeq(word, i, n) \o <<mark>>
           Z == {i \in 1 .. n : ~Good(i)}
<1>1. n \in Nat \ {0} /\ (\A i \in 1 .. n : word[i] \in C) /\ DOMAIN word = 1 .. n /\ n \in 1 .. n
  OBVIOUS
<1>2. parts = [i \in 1 .. n |-> IF i = n THEN <<word[i], mark>> ELSE <<word[i]>>]
  BY <1>1 DEF T!Characters
<1>3. mark \in C
  OBVIOUS
<1> HIDE DEF n, mark, parts
<1>4. \A i \in 1 .. n : /\ parts[i] = IF i = n THEN <<word[i], mark>> ELSE <<word[i]>>
                        /\ parts[i] \in Seq(C) /\ Len(parts[i]) \in Nat \ {0}
  <2> SUFFICES ASSUME NEW i \in 1 .. n
               PROVE  /\ parts[i] = IF i = n THEN <<word[i], mark>> ELSE <<word[i]>>
                      /\ parts[i] \in Seq(C) /\ Len(parts[i]) \in Nat \ {0}
    OBVIOUS
  <2>1. parts[i] = IF i = n THEN <<word[i], mark>> ELSE <<word[i]>>
    BY <1>2
  <2>2. <<word[i], mark>> \in Seq(C) /\ Len(<<word[i], mark>>) = 2
    BY <1>1, <1>3
  <2>3. <<word[i]>> \in Seq(C) /\ Len(<<word[i]>>) = 1
    BY <1>1
  <2> QED
    BY <2>1, <2>2, <2>3
<1>5. parts \in Seq(Seq(C)) /\ Len(parts) = n
  <2> DEFINE E == Seq(C)
  <2>1. \A i \in 1 .. n : parts[i] \in E
    BY <1>4
  <2>2. parts = [i \in 1 .. n |-> parts[i]]
    BY <1>2
  <2> HIDE DEF E
  <2>3. parts \in [1 .. n -> E]
    BY <2>1, <2>2
  <2>4. parts \in Seq(E)
    BY <1>1, <2>3, SeqDef
  <2>5. Len(parts) = n
    BY <1>1, <2>3, <2>4
  <2> QED
    BY <2>4, <2>5 DEF E
<1>6. Good(n)
  <2> DEFINE last == <<word[n], mark>>
  <2>1. last \in Seq(C)
    BY <1>1, <1>3
  <2>2. n \in 1 .. Len(parts)
    BY <1>1, <1>5
  <2>3. SubSeq(parts, n, Len(parts)) = <<parts[n]>> \o SubSeq(parts, n + 1, Len(parts))
    BY <1>5, <2>2, TailIs
  <2>4. parts[n] = last
    BY <1>1, <1>4
  <2>5. SubSeq(parts, n + 1, n) = <<>>
    BY <1>1, SubSeqEmpty
  <2>6. last = <<word[n]>> \o <<mark>>
    OBVIOUS
  <2>7. SubSeq(word, n, n) = <<word[n]>> \o SubSeq(word, n + 1, n)
    BY <1>1, SubSeqRecursiveFirst DEF n
  <2>8. SubSeq(word, n + 1, n) = <<>>
    BY <1>1, SubSeqEmpty
  <2>9. SubSeq(word, n, n) = <<word[n]>>
    <3> DEFINE h == <<word[n]>>
    <3>1. h \in Seq(C)
      BY <1>1
    <3> HIDE DEF h
    <3>2. h \o <<>> = h
      BY <3>1
    <3> QED
      BY <2>7, <2>8, <3>2 DEF h
  <2> HIDE DEF last
  <2> DEFINE e == <<>>
  <2>10. e \in Seq(Seq(C)) /\ T!FlattenSeq(e) = <<>>
    BY FlattenOne
  <2>11. T!FlattenSeq(<<last>> \o e) = last \o T!FlattenSeq(e)
    <3> HIDE DEF e
    <3> QED
      BY <2>1, <2>10, FlattenCons
  <2>12. last \o <<>> = last
    BY <2>1
  <2> HIDE DEF e
  <2>13. SubSeq(parts, n, n) = <<last>> \o e
    BY <1>5, <2>3, <2>4, <2>5 DEF e
  <2> QED
    BY <2>6, <2>9, <2>10, <2>11, <2>12, <2>13
<1>7. ASSUME NEW i \in 1 .. n, i # n, Good(i + 1) PROVE Good(i)
  <2> DEFINE x == <<word[i]>>
             rest == SubSeq(parts, i + 1, n)
             after == SubSeq(word, i + 1, n)
             m == <<mark>>
  <2>1. x \in Seq(C) /\ m \in Seq(C)
    BY <1>1, <1>3
  <2>2. i \in 1 .. Len(parts) /\ parts[i] = x
    BY <1>4, <1>5, <1>7
  <2>3. SubSeq(parts, i, n) = <<x>> \o rest /\ rest \in Seq(Seq(C))
    BY <1>5, <2>2, TailIs
  <2>4. SubSeq(word, i, n) = x \o after /\ after \in Seq(C)
    BY TailIs DEF n
  <2>5. T!FlattenSeq(rest) = after \o m
    BY <1>7
  <2> HIDE DEF x, rest, after, m
  <2>6. T!FlattenSeq(<<x>> \o rest) = x \o T!FlattenSeq(rest)
    BY <2>1, <2>3, FlattenCons
  <2>7. (x \o after) \o m = x \o (after \o m)
    <3>1. after \in Seq(C)
      BY <2>4
    <3> QED
      BY <2>1, <3>1, SMTT(30)
  <2>8. T!FlattenSeq(SubSeq(parts, i, n)) = SubSeq(word, i, n) \o m
    BY <2>3, <2>4, <2>5, <2>6, <2>7
  <2> QED
    BY <2>8 DEF m
<1> HIDE DEF Good
<1>8. Z = {}
  <2> SUFFICES ASSUME Z # {} PROVE FALSE
    OBVIOUS
  <2>1. Z \in SUBSET Nat /\ (\A i \in Z : i <= n) /\ n \in Nat
    BY <1>1
  <2>2. PICK i \in Z : \A k \in Z : k <= i
    BY <2>1, Backward
  <2>3. i # n
    BY <1>6, <2>2
  <2>4. i + 1 \in 1 .. n /\ ~(i + 1 <= i)
    BY <1>1, <2>2, <2>3
  <2>5. Good(i + 1)
    BY <2>2, <2>4
  <2> QED
    BY <1>7, <2>2, <2>3, <2>5
<1>9. Good(1)
  BY <1>1, <1>8
<1>10. SubSeq(parts, 1, n) = parts /\ SubSeq(word, 1, n) = word
  BY <1>5, SubSeqFull DEF n
<1>11. Append(word, mark) = word \o <<mark>>
  BY <1>3, AppendIsConcat
<1>12. T!FlattenSeq(parts) = Append(word, mark)
  BY <1>9, <1>10, <1>11 DEF Good
<1> QED
  BY <1>4, <1>5, <1>12 DEF parts, mark, n

\* A part stands somewhere.
LEMMA PartsStand ==
  ASSUME NEW C, NEW x \in Seq(C), NEW y \in Seq(C), Len(x) # 0, Lies(x, y)
  PROVE  \E j \in DOMAIN y : T!At(y, j, x)
<1>1. Len(x) \in Nat \ {0} /\ Len(y) \in Nat /\ DOMAIN y = 1 .. Len(y)
  OBVIOUS
<1>2. PICK i \in Nat : i + Len(x) <= Len(y) /\ \A k \in 1 .. Len(x) : y[i + k] = x[k]
  BY DEF Lies
<1> DEFINE j == i + 1 e == j + Len(x) - 1 z == SubSeq(y, j, e)
<1>3. /\ j \in 1 .. Len(y) /\ e <= Len(y) /\ j \in Int /\ e \in Int /\ j <= e
      /\ e - j + 1 = Len(x) /\ \A k \in 1 .. Len(x) : j + k - 1 = i + k
  BY <1>1, <1>2
<1>4. \A k \in j .. e : y[k] \in C
  <2>1. \A k \in j .. e : k \in 1 .. Len(y)
    BY <1>1, <1>3
  <2> QED
    BY <2>1
<1> HIDE DEF j, e
<1>5. /\ z \in Seq(C) /\ Len(z) = e - j + 1
      /\ \A k \in 1 .. e - j + 1 : z[k] = y[j + k - 1]
  BY <1>3, <1>4, SubSeqProperties
<1> HIDE DEF z
<1>6. Len(z) = Len(x) /\ \A k \in 1 .. Len(z) : z[k] = x[k]
  BY <1>2, <1>3, <1>5
<1>7. z = x
  BY <1>5, <1>6, SeqEqual
<1>8. T!At(y, j, x)
  BY <1>3, <1>7 DEF T!At, z, e
<1> QED
  BY <1>1, <1>3, <1>8

\* Encoding keeps the word and leaves nothing to merge; the pair of the lowest
\* rank is in one token (sam3_bpe_encode).
THEOREM MergesHold ==
  ASSUME NEW C, "</w>" \in C, NEW word \in Seq(C), Len(word) # 0, NEW M1, NEW merges \in Seq(M1)
  PROVE  T!MergesAreExhausted(word, merges)
<1> DEFINE n == Len(word)
           parts == T!Characters(word)
           tokens == T!BpeEncode(word, merges)
           all == Append(word, "</w>")
<1>1. n \in Nat \ {0} /\ 0 \in 0 .. n /\ n \in 0 .. n /\ 1 \in 1 .. n
  OBVIOUS
<1>2. /\ parts \in Seq(Seq(C)) /\ Len(parts) = n /\ T!FlattenSeq(parts) = all
      /\ \A i \in 1 .. n : Len(parts[i]) \in Nat \ {0}
  BY CharactersAre
<1>3. \E f : Encodes(f, word, merges, C)
  BY <1>1, <1>2, EncodeIs
<1>4. PICK f : Encodes(f, word, merges, C)
  BY <1>3
<1> HIDE DEF n, parts, tokens, all
<1>5. /\ \A k \in 0 .. n : f[k] \in Seq(Seq(C))
      /\ f[0] = parts /\ tokens = f[n]
      /\ \A k \in 1 .. n : f[k] = BpeRound(f[k - 1], merges)
  BY <1>4 DEF Encodes, n, parts, tokens
<1> DEFINE Kind(k) == /\ T!FlattenSeq(f[k]) = all
                      /\ Exhausted(f[k], merges) \/ Len(f[k]) <= n - k
                      /\ k >= 1 => \A r : Lowest(parts, merges, r) =>
                           \E m \in 1 .. Len(f[k]) : Lies(merges[r][1] \o merges[r][2], f[k][m])
           Z == {k \in Nat : k <= n /\ ~Kind(k)}
<1>6. Kind(0)
  BY <1>1, <1>2, <1>5
<1>7. ASSUME NEW k \in 1 .. n, Kind(k - 1) PROVE Kind(k)
  <2> DEFINE v == f[k - 1] w == f[k]
  <2>1. k - 1 \in 0 .. n /\ k \in 0 .. n /\ k - 1 \in Nat /\ k \in Nat
    BY <1>1
  <2>2. v \in Seq(Seq(C)) /\ w \in Seq(Seq(C)) /\ w = BpeRound(v, merges)
    BY <1>5, <2>1
  <2>3. /\ T!FlattenSeq(v) = all /\ (Exhausted(v, merges) \/ Len(v) <= n - (k - 1))
        /\ k - 1 >= 1 => \A r : Lowest(parts, merges, r) =>
                           \E m \in 1 .. Len(v) : Lies(merges[r][1] \o merges[r][2], v[m])
    BY <1>7
  <2>4. k = 1 => v = parts
    BY <1>5
  <2> HIDE DEF v, w
  <2>5. /\ T!FlattenSeq(w) = T!FlattenSeq(v)
        /\ Exhausted(v, merges) => w = v
        /\ ~Exhausted(v, merges) => Len(w) <= Len(v) - 1
    BY <2>2, RoundMerges
  <2>6. \A i \in 1 .. Len(v) : \E m \in 1 .. Len(w) : Lies(v[i], w[m])
    BY <2>2, RoundMerges
  <2>7. \A r : Lowest(v, merges, r) => \E i \in 1 .. (Len(v) - 1) :
              /\ <<v[i], v[i + 1]>> = merges[r]
              /\ \E m \in 1 .. Len(w) : w[m] = v[i] \o v[i + 1]
    <3> DEFINE u == BpeRound(v, merges)
    <3>1. \A r : Lowest(v, merges, r) => \E i \in 1 .. (Len(v) - 1) :
              /\ <<v[i], v[i + 1]>> = merges[r]
              /\ \E m \in 1 .. Len(u) : u[m] = v[i] \o v[i + 1]
      <4>1. v \in Seq(Seq(C))
        BY <2>2
      <4>2. LowestMade(v, merges)
        BY <4>1, RoundMerges
      <4> QED
        BY <4>2 DEF LowestMade
    <3>2. w = u
      BY <2>2
    <3> HIDE DEF u
    <3> QED
      BY <3>1, <3>2
  <2>8. Len(v) \in Nat /\ Len(w) \in Nat
    BY <2>2
  <2>9. Exhausted(w, merges) \/ Len(w) <= n - k
    <3>1. CASE Exhausted(v, merges)
      BY <2>5, <3>1
    <3>2. CASE ~Exhausted(v, merges)
      BY <1>1, <2>1, <2>3, <2>5, <2>8, <3>2
    <3> QED
      BY <3>1, <3>2
  <2>10. ASSUME NEW r, Lowest(parts, merges, r)
         PROVE  \E m \in 1 .. Len(w) : Lies(merges[r][1] \o merges[r][2], w[m])
    <3>1. CASE k = 1
      <4>1. PICK i \in 1 .. (Len(v) - 1) :
              /\ <<v[i], v[i + 1]>> = merges[r]
              /\ \E m \in 1 .. Len(w) : w[m] = v[i] \o v[i + 1]
        BY <2>4, <2>7, <2>10, <3>1
      <4>2. PICK m \in 1 .. Len(w) : w[m] = v[i] \o v[i + 1]
        BY <4>1
      <4>3. merges[r][1] = v[i] /\ merges[r][2] = v[i + 1]
        BY <4>1
      <4>4. w[m] \in Seq(C)
        BY <2>2
      <4>5. Lies(w[m], w[m])
        BY <4>4, PartsLie
      <4> QED
        BY <4>2, <4>3, <4>5
    <3>2. CASE k # 1
      <4> DEFINE x == merges[r][1] \o merges[r][2]
      <4>1. k - 1 >= 1
        BY <2>1, <3>2
      <4>2. PICK i \in 1 .. Len(v) : Lies(x, v[i])
        BY <2>3, <2>10, <4>1
      <4>3. PICK m \in 1 .. Len(w) : Lies(v[i], w[m])
        BY <2>6
      <4>4. Len(v[i]) \in Nat /\ Len(w[m]) \in Nat
        <5>1. v[i] \in Seq(C) /\ w[m] \in Seq(C)
          BY <2>2
        <5> QED
          BY <5>1
      <4>5. Len(x) \in Nat
        <5>1. PICK j \in 1 .. (Len(parts) - 1) : <<parts[j], parts[j + 1]>> = merges[r]
          BY <2>10 DEF Lowest, T!Pairs
        <5>2. merges[r][1] = parts[j] /\ merges[r][2] = parts[j + 1]
          BY <5>1
        <5>3. j \in 1 .. Len(parts) /\ j + 1 \in 1 .. Len(parts)
          BY <1>1, <1>2, <5>1
        <5>4. parts[j] \in Seq(C) /\ parts[j + 1] \in Seq(C)
          BY <1>2, <5>3
        <5>5. x \in Seq(C)
          BY <5>2, <5>4, ConcatProperties
        <5> HIDE DEF x
        <5> QED
          BY <5>5
      <4> HIDE DEF x
      <4>6. Lies(x, w[m])
        BY <4>2, <4>3, <4>4, <4>5, PartsOfParts
      <4> QED
        BY <4>6 DEF x
    <3> QED
      BY <3>1, <3>2
  <2>11. T!FlattenSeq(w) = all
    BY <2>3, <2>5
  <2> QED
    BY <2>9, <2>10, <2>11 DEF w
<1> HIDE DEF Kind
<1>8. ASSUME Z # {} PROVE FALSE
  <2>1. PICK k \in Z : \A m \in Z : k <= m
    BY <1>8, LeastNat
  <2>2. k \in 1 .. n
    BY <1>1, <1>6, <2>1
  <2>3. k - 1 \in Nat /\ k - 1 <= n /\ ~(k <= k - 1)
    BY <1>1, <2>2
  <2>4. Kind(k - 1)
    BY <2>1, <2>3
  <2> QED
    BY <1>7, <2>1, <2>2, <2>4
<1>9. Kind(n)
  BY <1>1, <1>8
<1>10. /\ T!FlattenSeq(tokens) = all
       /\ Exhausted(tokens, merges) \/ Len(tokens) <= n - n
       /\ \A r : Lowest(parts, merges, r) =>
            \E m \in 1 .. Len(tokens) : Lies(merges[r][1] \o merges[r][2], tokens[m])
  BY <1>1, <1>5, <1>9 DEF Kind
<1>11. tokens \in Seq(Seq(C))
  BY <1>1, <1>5
<1>12. Exhausted(tokens, merges)
  <2>1. Len(tokens) \in Nat
    BY <1>11
  <2>2. Len(tokens) <= n - n => T!Pairs(tokens) = {}
    BY <1>1, <2>1 DEF T!Pairs
  <2> QED
    BY <1>10, <2>2 DEF Exhausted
<1>13. ASSUME NEW r, Lowest(parts, merges, r)
       PROVE  \E i \in DOMAIN tokens : \E j \in DOMAIN tokens[i] :
                 T!At(tokens[i], j, merges[r][1] \o merges[r][2])
  <2> DEFINE x == merges[r][1] \o merges[r][2]
  <2>1. PICK m \in 1 .. Len(tokens) : Lies(x, tokens[m])
    BY <1>10, <1>13
  <2>2. x \in Seq(C) /\ Len(x) # 0
    <3>1. PICK j \in 1 .. (Len(parts) - 1) : <<parts[j], parts[j + 1]>> = merges[r]
      BY <1>13 DEF Lowest, T!Pairs
    <3>2. merges[r][1] = parts[j] /\ merges[r][2] = parts[j + 1]
      BY <3>1
    <3>3. j \in 1 .. n /\ j \in 1 .. Len(parts) /\ j + 1 \in 1 .. Len(parts)
      BY <1>1, <1>2, <3>1
    <3>4. parts[j] \in Seq(C) /\ parts[j + 1] \in Seq(C) /\ Len(parts[j]) \in Nat \ {0}
      BY <1>2, <3>3
    <3>5. x \in Seq(C) /\ Len(x) = Len(parts[j]) + Len(parts[j + 1])
      BY <3>2, <3>4, ConcatProperties
    <3>6. Len(parts[j + 1]) \in Nat
      BY <3>4
    <3> DEFINE a == Len(parts[j]) b == Len(parts[j + 1])
    <3>7. a \in Nat \ {0} /\ b \in Nat /\ Len(x) = a + b
      BY <3>4, <3>5, <3>6
    <3>8. a + b # 0
      <4> HIDE DEF a, b
      <4> QED
        BY <3>7
    <3> HIDE DEF a, b
    <3>9. Len(x) # 0
      BY <3>7, <3>8
    <3> QED
      BY <3>5, <3>9
  <2> HIDE DEF x
  <2>3. m \in DOMAIN tokens /\ tokens[m] \in Seq(C)
    BY <1>11
  <2>4. \E j \in DOMAIN tokens[m] : T!At(tokens[m], j, x)
    BY <2>1, <2>2, <2>3, PartsStand
  <2> QED
    BY <2>3, <2>4 DEF x
<1>14. \A r \in DOMAIN merges :
         (merges[r] \in T!Pairs(parts) /\ \A q \in 1 .. (r - 1) : merges[q] \notin T!Pairs(parts))
           => Lowest(parts, merges, r)
  BY DEF Lowest
<1>15. T!MergesAreExhausted(word, merges) <=>
         /\ T!FlattenSeq(tokens) = all
         /\ \A r \in DOMAIN merges : merges[r] \notin T!Pairs(tokens)
         /\ \A r \in DOMAIN merges :
              merges[r] \in T!Pairs(parts)
                /\ (\A q \in 1 .. (r - 1) : merges[q] \notin T!Pairs(parts))
                => \E i \in DOMAIN tokens : \E j \in DOMAIN tokens[i] :
                     T!At(tokens[i], j, merges[r][1] \o merges[r][2])
  BY DEF T!MergesAreExhausted, tokens, parts, all
<1> QED
  BY <1>10, <1>12, <1>13, <1>14, <1>15 DEF Exhausted

-----------------------------------------------------------------------------
(* The tokens of a prompt. *)

\* The tokens of a well-formed prompt are a sequence.
LEMMA TokensAreASequence ==
  ASSUME NEW text \in Seq(T!Bytes), WellFormed(text), NEW M1, NEW merges \in Seq(M1)
  PROVE  \E Q : T!PromptTokens(text, merges) \in Seq(Q)
<1> DEFINE C == T!Bytes \cup {"</w>"}
           words == T!Pretokenize(T!Clean(text))
           each == [k \in DOMAIN words |-> T!BpeEncode(words[k], merges)]
<1>1. Len(text) \in Nat /\ 1 \in 1 .. (Len(text) + 1)
  OBVIOUS
<1>2. Boundary(text, 1)
  BY <1>1 DEF Boundary, WellFormed
<1>3. T!Pretokenize(T!Clean(text)) = T!Pretokenize(text)
  BY WordsHold DEF T!WordsAreTheText
<1>4. words = WordsFrom(text, 1)
  BY <1>3, FromTheFirst
<1>5. Worded(text, 1)
  BY <1>1, <1>2, WordsAreTokens
<1> HIDE DEF words
<1>6. /\ words \in Seq(Seq(T!Bytes))
      /\ \A k \in 1 .. Len(words) : \E p \in 1 .. Len(text) :
               Begins(text, p) /\ words[k] = TokenAt(text, p)
  BY <1>4, <1>5 DEF Worded
<1>7. DOMAIN words = 1 .. Len(words) /\ Len(words) \in Nat
  BY <1>6
<1>c. T!Bytes \subseteq C /\ "</w>" \in C
  OBVIOUS
<1> HIDE DEF C
<1>8. ASSUME NEW k \in 1 .. Len(words) PROVE T!BpeEncode(words[k], merges) \in Seq(Seq(C))
  <2> DEFINE w == words[k]
  <2>1. PICK p \in 1 .. Len(text) : Begins(text, p) /\ w = TokenAt(text, p)
    BY <1>6
  <2>2. w \in Seq(T!Bytes) /\ Len(w) # 0
    BY <2>1, TokenBytes
  <2> HIDE DEF w
  <2>3. w \in Seq(C) /\ Len(w) \in Nat /\ Len(w) \in 0 .. Len(w)
    <3>1. Len(w) \in Nat /\ w \in [1 .. Len(w) -> T!Bytes]
      BY <2>2
    <3>2. w \in Seq(C)
      BY <1>c, <3>1, SequencesAre
    <3> QED
      BY <3>1, <3>2
  <2>4. T!Characters(w) \in Seq(Seq(C))
    BY <1>c, <2>2, <2>3, CharactersAre
  <2>5. PICK f : Encodes(f, w, merges, C)
    BY <2>3, <2>4, EncodeIs
  <2>6. T!BpeEncode(w, merges) \in Seq(Seq(C))
    BY <2>3, <2>5 DEF Encodes
  <2> QED
    BY <2>6 DEF w
<1>9. each \in Seq(Seq(Seq(C)))
  BY <1>7, <1>8
<1>10. T!PromptTokens(text, merges) = T!FlattenSeq(each)
  BY DEF T!PromptTokens, words
<1> HIDE DEF each
<1>11. T!FlattenSeq(each) \in Seq(Seq(C))
  BY <1>9, FlattenOne
<1> QED
  BY <1>10, <1>11

\* Whatever the prompt, the merges, the vocabulary and the length of the
\* context, the text encoder gets the known tokens in their order, framed.
THEOREM ContextFramed ==
  ASSUME NEW text \in Seq(T!Bytes), WellFormed(text), NEW M1, NEW merges \in Seq(M1),
         NEW encoder, \A t \in DOMAIN encoder : encoder[t] \in Int /\ encoder[t] # T!EOT,
         NEW ctx_len \in Nat, ctx_len >= 2
  PROVE  T!PromptIsFramed(text, merges, encoder, ctx_len)
<1> DEFINE tokens == T!PromptTokens(text, merges)
<1>1. PICK Q : tokens \in Seq(Q)
  BY TokensAreASequence
<1>2. T!PromptIsFramed(text, merges, encoder, ctx_len) <=>
        T!ContextIsFramed(T!Framed(T!KnownIds(tokens, encoder), ctx_len), tokens, encoder, ctx_len)
  BY DEF T!PromptIsFramed, T!Tokenize
<1> HIDE DEF tokens
<1>3. Len(tokens) \in Nat /\ DOMAIN tokens = 1 .. Len(tokens)
  BY <1>1
<1> QED
  BY <1>2, <1>3, ContextFrames

-----------------------------------------------------------------------------
(* Every prompt. *)

\* What the tokenizer is given: a text, merges, a vocabulary and a length.
ContextArguments(i) ==
    /\ Whole(i[1])
    /\ \E M1 : i[2] \in Seq(M1)
    /\ \A t \in DOMAIN i[3] : i[3][t] \in {0, 7}
    /\ i[4] \in Nat /\ i[4] >= 2

\* What the functions of texts are given.
TextArguments ==
    /\ what = "none" => input = <<>>
    /\ Given("text") => Whole(input[1])
    /\ Given("bpe") => /\ input[1] \in Seq({"a", "b", "</w>"}) /\ Len(input[1]) # 0
                       /\ input[2] \in Seq(Tokens \X Tokens)
    /\ Given("context") => ContextArguments(input)
    /\ Given("pieces") => input[1] \in Seq(Int) /\ input[2] \in Int /\ input[3] \in Nat

\* A function of texts is given one of its arguments (Choose).
LEMMA TextArgumentsAlways == Spec => []TextArguments
<1>1. Init => TextArguments
  BY DEF Init, TextArguments, Given
<1>2. TextArguments /\ [Next]_vars => TextArguments'
  <2> SUFFICES ASSUME TextArguments, [Next]_vars PROVE TextArguments'
    OBVIOUS
  <2>0. MaxText \in Nat /\ MaxWord \in Nat /\ MaxContext \in Nat
    BY SizeAssumption
  <2>1. CASE Pick
    BY <2>1 DEF Pick, TextArguments, Given
  <2>2. CASE Split
    <3>1. what = "text" /\ what' = what /\ input' \in {<<t>> : t \in Texts}
      BY <2>2 DEF Split, Choose
    <3>2. PICK t \in Texts : input' = <<t>>
      BY <3>1
    <3>3. PICK n \in 1 .. MaxText : \E u \in [1 .. n -> Symbols] : t = T!FlattenSeq(u)
      BY <3>2 DEF Texts
    <3>4. PICK u \in [1 .. n -> Symbols] : t = T!FlattenSeq(u)
      BY <3>3
    <3>5. n \in Nat /\ n # 0
      BY <2>0
    <3>6. u \in Seq(Symbols) /\ Len(u) = n
      BY <3>5, SequencesAre
    <3>7. Whole(t)
      BY <3>4, <3>5, <3>6, TextsAreWhole
    <3>8. Whole(input'[1])
      BY <3>2, <3>7
    <3> QED
      BY <3>1, <3>8 DEF TextArguments, Given
  <2>3. CASE Encode
    <3> DEFINE C == {"a", "b", "</w>"}
    <3>1. what = "bpe" /\ what' = what /\ input' \in Words \X Merges
      BY <2>3 DEF Encode, Choose
    <3>2. PICK n \in 1 .. MaxWord : input'[1] \in [1 .. n -> {"a", "b"}]
      BY <3>1 DEF Words
    <3>3. PICK m \in 0 .. 2 : input'[2] \in [1 .. m -> Tokens \X Tokens]
      BY <3>1 DEF Merges
    <3>4. n \in Nat /\ n # 0 /\ m \in Nat /\ {"a", "b"} \subseteq C
      BY <2>0
    <3> DEFINE s == input'[1] t == input'[2] B == {"a", "b"} P == Tokens \X Tokens
    <3>5. s \in [1 .. n -> B] /\ t \in [1 .. m -> P] /\ P \subseteq P /\ B \subseteq C
      BY <3>2, <3>3, <3>4
    <3> HIDE DEF s, t, B, C, P
    <3>6. s \in Seq(C) /\ Len(s) = n
      BY <3>4, <3>5, SequencesAre
    <3>7. t \in Seq(P)
      BY <3>4, <3>5, SequencesAre
    <3>8. input'[1] \in Seq({"a", "b", "</w>"}) /\ Len(input'[1]) # 0
          /\ input'[2] \in Seq(Tokens \X Tokens)
      BY <3>4, <3>6, <3>7 DEF s, t, C, P
    <3> QED
      BY <3>1, <3>8 DEF TextArguments, Given
  <2>4. CASE Frame
    <3>1. what = "context" /\ what' = what
          /\ input' \in Prompts \X FewMerges \X Encoders \X (2 .. MaxContext)
      BY <2>4 DEF Frame, Choose
    <3>2. PICK n \in 0 .. MaxWord : input'[1] \in [1 .. n -> {"a", "l", " "}]
      BY <3>1 DEF Prompts
    <3>3. PICK m \in 0 .. 1 : input'[2] \in [1 .. m -> {<<<<"a">>, <<"l", "</w>">>>>}]
      BY <3>1 DEF FewMerges
    <3>4. PICK known \in SUBSET Vocabulary : input'[3] \in [known -> {0, 7}]
      BY <3>1 DEF Encoders
    <3>5. input'[4] \in Nat /\ input'[4] >= 2 /\ n \in Nat /\ m \in Nat
      BY <2>0, <3>1
    <3> DEFINE s == input'[1] r == input'[2] B == {"a", "l", " "} P == {<<<<"a">>, <<"l", "</w>">>>>}
    <3>6. s \in [1 .. n -> B] /\ B \subseteq T!Bytes /\ r \in [1 .. m -> P] /\ P \subseteq P
          /\ \A b \in B : b # "lead" /\ b # "cont"
      BY <3>2, <3>3 DEF T!Bytes
    <3> HIDE DEF s, r, B, P
    <3>7. s \in Seq(T!Bytes) /\ Len(s) = n
      BY <3>5, <3>6, SequencesAre
    <3>8. r \in Seq(P)
      BY <3>5, <3>6, SequencesAre
    <3>9. WellFormed(s)
      <4>1. \A i \in 1 .. Len(s) : s[i] # "lead" /\ s[i] # "cont"
        BY <3>6, <3>7
      <4> QED
        BY <4>1 DEF WellFormed
    <3>10. ContextArguments(input')
      BY <3>4, <3>5, <3>7, <3>8, <3>9 DEF ContextArguments, Whole, s, r
    <3> QED
      BY <3>1, <3>10 DEF TextArguments, Given
  <2>5. CASE Pad
    <3>1. what = "pieces" /\ what' = what
          /\ input' \in Pieces \X {S!NoEos, 1} \X (0 .. MaxContext)
      BY <2>5 DEF Pad, Choose
    <3>2. PICK n \in 0 .. MaxContext : input'[1] \in [1 .. n -> {4, 7}]
      BY <3>1 DEF Pieces
    <3>3. input'[2] \in Int /\ input'[3] \in Nat /\ n \in Nat
      BY <2>0, <3>1 DEF S!NoEos
    <3> DEFINE s == input'[1] B == {4, 7}
    <3>4. s \in [1 .. n -> B] /\ B \subseteq Int
      BY <3>2
    <3> HIDE DEF s, B
    <3>5. s \in Seq(Int)
      BY <3>3, <3>4, SequencesAre
    <3>6. input'[1] \in Seq(Int)
      BY <3>5 DEF s
    <3> QED
      BY <3>1, <3>3, <3>6 DEF TextArguments, Given
  <2>6. ASSUME NEW name \in {"mask", "overlap", "nms", "boxes", "corners", "windows", "samples",
                             "extent", "bytes", "prompt", "blur", "offset", "budget", "filter",
                             "patchify"},
               what = name, what' = what
        PROVE  TextArguments'
    BY <2>6 DEF TextArguments, Given
  <2>7. CASE CleanMask \/ ResolveMasks \/ Suppress \/ CompareBoxes \/ CornerBoxes
    BY <2>6, <2>7 DEF CleanMask, ResolveMasks, Suppress, CompareBoxes, CornerBoxes, Choose
  <2>8. CASE CutWindows \/ Resample \/ Extend \/ TellBytes \/ Ask
    BY <2>6, <2>8 DEF CutWindows, Resample, Extend, TellBytes, Ask, Choose
  <2>9. CASE Blur \/ Offset \/ Budget \/ Filter \/ Patchify
    BY <2>6, <2>9 DEF Blur, Offset, Budget, Filter, Patchify, Choose
  <2>10. CASE UNCHANGED vars
    BY <2>10 DEF vars, TextArguments, Given
  <2> QED
    BY <2>1, <2>2, <2>3, <2>4, <2>5, <2>7, <2>8, <2>9, <2>10 DEF Next
<1> QED
  BY <1>1, <1>2, PTL DEF Spec

\* The words of a prompt are the prompt, its tokens the words, and the text
\* encoder gets the known tokens in their order, for prompts, words and contexts
\* of any length.
THEOREM PromptsAlwaysArrive == Spec => []PromptsArrive
<1>1. TextArguments => PromptsArrive
  <2> SUFFICES ASSUME TextArguments PROVE PromptsArrive
    OBVIOUS
  <2>1. PromptIsItsWords
    <3> SUFFICES ASSUME Given("text") PROVE T!WordsAreTheText(input[1])
      BY DEF PromptIsItsWords
    <3> DEFINE t == input[1]
    <3>1. t \in Seq(T!Bytes) /\ WellFormed(t)
      BY DEF TextArguments, Whole
    <3> HIDE DEF t
    <3>2. T!WordsAreTheText(t)
      BY <3>1, WordsHold
    <3> QED
      BY <3>2 DEF t
  <2>2. Given("bpe") => T!MergesAreExhausted(input[1], input[2])
    <3> SUFFICES ASSUME Given("bpe") PROVE T!MergesAreExhausted(input[1], input[2])
      OBVIOUS
    <3> DEFINE w == input[1]
               m == input[2]
               C == {"a", "b", "</w>"}
               P == Tokens \X Tokens
    <3>1. w \in Seq(C) /\ Len(w) # 0 /\ m \in Seq(P)
      BY DEF TextArguments
    <3>2. "</w>" \in C
      OBVIOUS
    <3> HIDE DEF w, m, C, P
    <3>3. T!MergesAreExhausted(w, m)
      BY <3>1, <3>2, MergesHold
    <3> QED
      BY <3>3 DEF w, m
  <2>3. ContextsAreFramed
    <3> SUFFICES ASSUME Given("context")
                 PROVE  T!PromptIsFramed(input[1], input[2], input[3], input[4])
      BY DEF ContextsAreFramed
    <3> DEFINE t == input[1]
               m == input[2]
               e == input[3]
               n == input[4]
    <3>1. ContextArguments(input)
      BY DEF TextArguments
    <3>2. PICK M1 : m \in Seq(M1)
      BY <3>1 DEF ContextArguments
    <3>3. /\ t \in Seq(T!Bytes) /\ WellFormed(t) /\ n \in Nat /\ n >= 2
          /\ \A k \in DOMAIN e : e[k] \in {0, 7}
      BY <3>1 DEF ContextArguments, Whole
    <3> HIDE DEF t, m, e, n
    <3>4. \A i \in {0, 7} : i # T!EOT /\ i \in Int
      BY DEF T!EOT
    <3>5. T!PromptIsFramed(t, m, e, n)
      BY <3>2, <3>3, <3>4, ContextFramed
    <3> QED
      BY <3>5 DEF t, m, e, n
  <2>4. TextsAreEnded
    <3> SUFFICES ASSUME Given("pieces") PROVE S!TextIsEnded(input[1], input[2], 0, input[3])
      BY DEF TextsAreEnded
    <3> DEFINE t == input[1]
               e == input[2]
               n == input[3]
               z == 0
    <3>1. t \in Seq(Int) /\ e \in Int /\ n \in Nat /\ z \in Int
      BY DEF TextArguments
    <3> HIDE DEF t, e, n, z
    <3>2. S!TextIsEnded(t, e, z, n)
      BY <3>1, TextEnded
    <3> QED
      BY <3>2 DEF t, e, n, z
  <2> QED
    BY <2>1, <2>2, <2>3, <2>4, BytesTold DEF PromptsArrive, TokensAreTheWord
<1> QED
  BY <1>1, TextArgumentsAlways, PTL
=============================================================================
