------------------------------- MODULE Sam3Text -------------------------------
(***************************************************************************)
(* The CLIP tokenizer of depend/sam3/sam3.cpp, from a prompt to the        *)
(* numbers the text encoder reads.                                         *)
(*                                                                         *)
(* A text is a sequence of bytes, and a byte is one of the few the code    *)
(* tells apart: letters that begin contractions and one that does not, a   *)
(* digit, a space, an apostrophe, another character, and the lead and      *)
(* continuation byte of a two-byte letter.  A token is a sequence of them; *)
(* "</w>" at its end marks the end of a word.  The two special tokens      *)
(* written out in a text are left out.                                     *)
(***************************************************************************)
EXTENDS Integers, Sequences, FiniteSets, SequencesExt

Bytes == {"a", "s", "l", "1", " ", "'", "!", "lead", "cont"}

\* sam3_utf8_len: bytes of the character that begins with this one.
Utf8Len(c) == IF c = "lead" THEN 2 ELSE 1

\* sam3_is_letter: any byte that begins a character of several is a letter.
IsLetter(c) == c \in {"a", "s", "l", "lead"}
IsDigit(c)  == c = "1"
IsSpace(c)  == c = " "
IsOther(c)  == ~IsLetter(c) /\ ~IsDigit(c) /\ ~IsSpace(c)

-----------------------------------------------------------------------------
(* Bytes as characters. *)

\* Bytes that are printed as themselves.
Printable == (33 .. 126) \cup (161 .. 172) \cup (174 .. 255)

\* sam3_init_byte_encoder: the code point of a byte.
ByteEncoder(b) ==
    IF b \in Printable THEN b
    ELSE 256 + Cardinality({c \in 0 .. (b - 1) : c \notin Printable})

\* sam3_codepoint_to_utf8; a lead byte holds its bits below the marker, each
\* of the others six.
ToUtf8(cp) ==
    LET bits(unit) == 128 + ((cp \div unit) % 64)
    IN  IF cp < 128 THEN <<cp>>
        ELSE IF cp < 2048 THEN <<192 + cp \div 64, bits(1)>>
        ELSE IF cp < 65536 THEN <<224 + cp \div 4096, bits(64), bits(1)>>
        ELSE <<240 + cp \div 262144, bits(4096), bits(64), bits(1)>>

\* sam3_utf8_len of a byte's value.
LenFromLead(b) == IF b < 192 THEN 1 ELSE IF b < 224 THEN 2 ELSE IF b < 240 THEN 3 ELSE 4

-----------------------------------------------------------------------------
(* Words. *)

\* White space collapsed and trimmed, as sam3_tokenize does first.
Clean(text) ==
    LET first[n \in 0 .. Len(text)] ==
            IF n = 0 THEN <<>>
            ELSE IF IsSpace(text[n]) /\ (first[n - 1] = <<>> \/ IsSpace(Last(first[n - 1])))
                 THEN first[n - 1]
            ELSE Append(first[n - 1], text[n])
        all == first[Len(text)]
    IN  IF all # <<>> /\ IsSpace(Last(all)) THEN Front(all) ELSE all

At(text, i, token) ==
    i + Len(token) - 1 <= Len(text) /\ SubSeq(text, i, i + Len(token) - 1) = token

Contractions == {<<"'", "s">>, <<"'", "l", "l">>}

\* The first position after the run of letters, characters or digits at i.
LetterRun(text, i) ==
    LET next[j \in Nat] ==
            IF j <= Len(text) /\ IsLetter(text[j]) THEN next[j + Utf8Len(text[j])] ELSE j
    IN  next[i]

OtherRun(text, i) ==
    LET next[j \in Nat] == IF j <= Len(text) /\ IsOther(text[j]) THEN next[j + 1] ELSE j
    IN  next[i]

\* Where the token that begins at i ends.
TokenEnd(text, i) ==
    CASE At(text, i, <<"'", "s">>)      -> i + 2
      [] At(text, i, <<"'", "l", "l">>) -> i + 3
      [] IsLetter(text[i])                -> LetterRun(text, i)
      [] IsDigit(text[i])                 -> i + 1
      [] OTHER                            -> OtherRun(text, i)

\* sam3_pretokenize.
Pretokenize(text) ==
    LET from[i \in Nat] ==
            IF i > Len(text) THEN <<>>
            ELSE IF IsSpace(text[i]) THEN from[i + 1]
            ELSE <<SubSeq(text, i, TokenEnd(text, i) - 1)>> \o from[TokenEnd(text, i)]
    IN  from[1]

-----------------------------------------------------------------------------
(* Byte-pair encoding. *)

\* The characters of a word, the last one marked.
Characters(word) ==
    [i \in DOMAIN word |-> IF i = Len(word) THEN <<word[i], "</w>">> ELSE <<word[i]>>]

Pairs(word) == {<<word[i], word[i + 1]>> : i \in 1 .. (Len(word) - 1)}

\* The lowest rank of a pair of the word.
Best(word, merges) ==
    CHOOSE r \in DOMAIN merges : merges[r] \in Pairs(word)
                                   /\ \A q \in 1 .. (r - 1) : merges[q] \notin Pairs(word)

\* All occurrences of a pair, from the left.
MergeAll(word, pair) ==
    LET from[i \in Nat] ==
            IF i > Len(word) THEN <<>>
            ELSE IF i < Len(word) /\ <<word[i], word[i + 1]>> = pair
                 THEN <<word[i] \o word[i + 1]>> \o from[i + 2]
                 ELSE <<word[i]>> \o from[i + 1]
    IN  from[1]

\* sam3_bpe_encode; its cache maps a word to what it gave the first time.
BpeEncode(word, merges) ==
    LET round[n \in 0 .. Len(word)] ==
            IF n = 0 THEN Characters(word)
            ELSE LET w == round[n - 1]
                 IN  IF \E r \in DOMAIN merges : merges[r] \in Pairs(w)
                     THEN MergeAll(w, merges[Best(w, merges)])
                     ELSE w
    IN  round[Len(word)]

-----------------------------------------------------------------------------
(* The context. *)

SOT == 49406
EOT == 49407

\* The end of sam3_tokenize: cut with an end-of-text, or filled with zeros.
Fit(ids, ctx_len) ==
    IF Len(ids) > ctx_len THEN Append(SubSeq(ids, 1, ctx_len - 1), EOT)
    ELSE ids \o [i \in 1 .. (ctx_len - Len(ids)) |-> 0]

Framed(ids, ctx_len) == Fit(<<SOT>> \o ids \o <<EOT>>, ctx_len)

\* The tokens of a prompt are those of its words, one word after the other.
PromptTokens(text, merges) ==
    LET words == Pretokenize(Clean(text))
    IN  FlattenSeq([k \in DOMAIN words |-> BpeEncode(words[k], merges)])

\* Mutant: a token the vocabulary does not have becomes padding.
KnownIdsPadded(tokens, encoder) ==
    [n \in DOMAIN tokens |-> IF tokens[n] \in DOMAIN encoder THEN encoder[tokens[n]] ELSE 0]

\* The ids of those the vocabulary has; the others are dropped without a word.
KnownIds(tokens, encoder) ==
    LET ids[n \in 0 .. Len(tokens)] ==
            IF n = 0 THEN <<>>
            ELSE IF tokens[n] \in DOMAIN encoder
                 THEN Append(ids[n - 1], encoder[tokens[n]])
            ELSE ids[n - 1]
    IN  ids[Len(tokens)]

\* sam3_tokenize.
Tokenize(text, merges, encoder, ctx_len) ==
    Framed(KnownIds(PromptTokens(text, merges), encoder), ctx_len)

\* The key positions sam3_segment_pcs keeps the decoder from attending to.
Masked(ids) == {i \in DOMAIN ids : ids[i] = 0}

-----------------------------------------------------------------------------
(* What they promise. *)

Unspaced(text) ==
    LET from[i \in Nat] ==
            IF i > Len(text) THEN <<>>
            ELSE IF IsSpace(text[i]) THEN from[i + 1]
            ELSE <<text[i]>> \o from[i + 1]
    IN  from[1]

\* Of a well-formed text no byte is lost, doubled or moved between words, and
\* collapsing its spaces changes no word.  Each word is of one kind, as long
\* as it can be: the pattern the comment on sam3_pretokenize gives.
WordsAreTheText(text) ==
    LET words == Pretokenize(text)
        kind(w) == CASE w \in Contractions  -> "contraction"
                     [] IsLetter(w[1])      -> "letters"
                     [] IsDigit(w[1])       -> "digit"
                     [] OTHER               -> "others"
    IN  /\ FlattenSeq(words) = Unspaced(text)
        /\ Pretokenize(Clean(text)) = words
        /\ \A k \in DOMAIN words :
             /\ kind(words[k]) = "digit" => Len(words[k]) = 1
             /\ kind(words[k]) = "letters" =>
                  \A i \in DOMAIN words[k] : IsLetter(words[k][i]) \/ words[k][i] = "cont"
             /\ kind(words[k]) = "others" => \A i \in DOMAIN words[k] :
                  IsOther(words[k][i]) /\ words[k][i] # "cont"
             /\ (\A i \in DOMAIN text : ~IsSpace(text[i])) /\ k < Len(words) =>
                  ~(kind(words[k]) = kind(words[k + 1]) /\ kind(words[k]) \in {"letters", "others"})

\* Encoding keeps the word, ends it once, and leaves nothing to merge; the pair
\* of the lowest rank the word has is in one token, whatever else it overlaps.
MergesAreExhausted(word, merges) ==
    LET tokens == BpeEncode(word, merges)
    IN  /\ FlattenSeq(tokens) = Append(word, "</w>")
        /\ \A r \in DOMAIN merges : merges[r] \notin Pairs(tokens)
        /\ \A r \in DOMAIN merges :
             merges[r] \in Pairs(Characters(word))
               /\ (\A q \in 1 .. (r - 1) : merges[q] \notin Pairs(Characters(word)))
                 => \E i \in DOMAIN tokens : \E j \in DOMAIN tokens[i] :
                        At(tokens[i], j, merges[r][1] \o merges[r][2])

\* Code points about the ends of each length.
CodePoints == (0 .. 600) \cup {2047, 2048, 65535, 65536, 1114111}

\* Every byte has a character of its own, whose length its first byte tells:
\* what was encoded can be split and merged without mixing bytes up.
BytesAreTold ==
    /\ \A a, b \in 0 .. 255 : ByteEncoder(a) = ByteEncoder(b) => a = b
    /\ \A cp \in CodePoints :
           LET u == ToUtf8(cp)
           IN  /\ LenFromLead(u[1]) = Len(u)
               /\ \A i \in 2 .. Len(u) : u[i] \in 128 .. 191

\* The context of a prompt's tokens has its length, begins with the start of
\* text, ends with its end exactly once, and has between them the tokens of the
\* vocabulary in their order: the token at i comes after the known ones before
\* it, and is lost only when there is no room for it.  The decoder reads all of
\* this and no padding, but for a token whose id is 0, which it takes for
\* padding too.
ContextIsFramed(context, tokens, encoder, ctx_len) ==
    LET known    == {i \in DOMAIN tokens : tokens[i] \in DOMAIN encoder}
        place(i) == 1 + Cardinality(known \cap (1 .. i))
        last     == IF Cardinality(known) + 2 <= ctx_len THEN Cardinality(known) + 2 ELSE ctx_len
        kept     == {i \in known : place(i) < last}
    IN  /\ Len(context) = ctx_len /\ context[1] = SOT
        /\ \A i \in DOMAIN context : context[i] = EOT <=> i = last
        /\ \A i \in kept : context[place(i)] = encoder[tokens[i]]
        /\ Masked(context) = {place(i) : i \in {k \in kept : encoder[tokens[k]] = 0}}
                                \cup ((last + 1) .. ctx_len)

\* So it is of every prompt.
PromptIsFramed(text, merges, encoder, ctx_len) ==
    ContextIsFramed(Tokenize(text, merges, encoder, ctx_len), PromptTokens(text, merges),
                    encoder, ctx_len)
=============================================================================
