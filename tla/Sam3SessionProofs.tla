-------------------------- MODULE Sam3SessionProofs --------------------------
(***************************************************************************)
(* Proofs of Sam3Session's properties, for any number of models of every   *)
(* kind and runs of any length.                                            *)
(*                                                                         *)
(* Memory is a matter of who owns what: a state changes by replacing the   *)
(* blocks it owned by those it owns now (StateStep), and only loading and  *)
(* freeing a model does anything else.  That a state's tensors lie in what *)
(* it owns and show its image is a fact about one state (Sound); of its    *)
(* position encodings it says so unless the state lacks them.              *)
(***************************************************************************)
EXTENDS Sam3Session, TLAPS

Names == {"backend", "weights_ctx", "weights", "rope_ctx", "rope", "ctx", "galloc",
          "feat_ctx", "feat_buf", "pe_ctx", "pe_buf"}

StateRec == [exists : BOOLEAN, size : Sizes, dims : Int, ret : BOOLEAN, vit : Int,
             neck_det : Int, neck_trk : Int, pe : Int, own : SUBSET AllBlocks,
             pe_cache_valid : BOOLEAN]

Types ==
    /\ pcs_only \in BOOLEAN
    /\ loaded \subseteq Models
    /\ state \in [Models -> StateRec]
    /\ heap \subseteq AllBlocks
    /\ call \in 0..MaxCalls

\* What holds of the state of one model after n calls.
Tensors(s, n) == /\ s.dims \in 0..n /\ s.vit \in 0..n /\ s.neck_det \in 0..n
                 /\ s.neck_trk \in 0..n /\ s.pe \in 0..n

Owns(m, s) == \A b \in s.own : b[2] = m /\ b[1] \notin ModelBlocks

\* The encodings are there, of the image, and with the features that need them.
Encoded(m, s) ==
    /\ s.pe # 0 => Blocks(PeBlocks, m, s.pe) \subseteq s.own
    /\ s.ret => s.pe \in {0, s.dims}
    /\ s.neck_det # 0 => s.pe # 0

\* Features are whole: in memory of the state, and of its image.
Sound(m, s) ==
    /\ \A n \in {s.vit, s.neck_det, s.neck_trk} \ {0} : Blocks(Feature(m), m, n) \subseteq s.own
    /\ s.ret => {s.vit, s.neck_det, s.neck_trk} \subseteq {0, s.dims}
    /\ Encoded(m, s) \/ LacksEncodings(s)

Good(m, s, n) ==
    /\ Tensors(s, n)
    /\ Owns(m, s)
    /\ s.exists \/ s.own = {}
    /\ ~Sam3(m) => s.vit = 0 /\ s.neck_det = 0
    /\ Sound(m, s)

\* What was read and is not in memory is the encodings a state lacks.
ReadOK == \A b \in read \ heap : /\ b[1] \in PeBlocks /\ b[2] \in Models
                                 /\ LacksEncodings(state[b[2]])

\* Every block is a loaded model's or some state's, and the states have theirs.
Accounted ==
    /\ \A m \in Models : state[m].own \subseteq heap
    /\ \A b \in heap : \/ b[1] \in ModelBlocks /\ b[2] \in loaded
                       \/ \E m \in Models : b \in state[m].own

IInv ==
    /\ Types
    /\ \A m \in Models : Good(m, state[m], call) /\ (state[m].exists => m \in loaded)
    /\ Accounted
    /\ ActiveIsLoaded
    /\ ReadOK

-----------------------------------------------------------------------------
(***************************************************************************)
(* Blocks.                                                                 *)
(***************************************************************************)

\* The blocks a call allocates are named, and its model's.
LEMMA NewBlocks ==
    ASSUME NEW W \in SUBSET Names, NEW m \in Models, NEW n \in 1..MaxCalls
    PROVE  /\ Blocks(W, m, n) \subseteq AllBlocks
           /\ \A b \in Blocks(W, m, n) : b[1] \in W /\ b[2] = m
BY DEF Blocks, Block, AllBlocks, Names

\* More names are more blocks.
LEMMA MoreBlocks ==
    ASSUME NEW V, NEW W, V \subseteq W, NEW m, NEW n
    PROVE  Blocks(V, m, n) \subseteq Blocks(W, m, n)
BY DEF Blocks

\* The names a state's blocks have.
LEMMA StateNames ==
    ASSUME NEW m
    PROVE  /\ Feature(m) \cup PeBlocks \cup {"rope_ctx", "rope"} \subseteq Names \ ModelBlocks
           /\ "pe_ctx" \in PeBlocks
BY DEF Feature, PeBlocks, Names, ModelBlocks

\* A call that segments nothing reads nothing.
LEMMA ReadNothing == ASSUME read' = {} PROVE ReadOK'
BY DEF ReadOK

\* No way out of a call leaves blocks behind.
LEMMA NoLeftover ==
    ASSUME NEW m, NEW outcome
    PROVE  Leaked(m, outcome) = {}
BY DEF Leaked, FreedOnFailure, Blocks

-----------------------------------------------------------------------------
(***************************************************************************)
(* Steps.                                                                  *)
(***************************************************************************)

\* A call that replaces the state of m by s, and its blocks by those of s.
LEMMA StateStep ==
    ASSUME IInv, Called, NEW m \in Models, NEW s \in StateRec, Good(m, s, call'),
           s.exists => m \in loaded,
           state' = [state EXCEPT ![m] = s],
           heap' = (heap \ state[m].own) \cup s.own,
           loaded' = loaded, active' \in loaded \cup {NoModel},
           ReadOK'
    PROVE  IInv'
<1>0. /\ Types /\ Accounted /\ call \in 0..MaxCalls /\ call' = call + 1 /\ call' \in 0..MaxCalls
      /\ \A k \in Models : Good(k, state[k], call) /\ (state[k].exists => k \in loaded)
      /\ state \in [Models -> StateRec]
  BY Bounds DEF IInv, Types, Called
<1>1. Types'
  BY <1>0 DEF Types, StateRec, Called
<1>2. state'[m] = s /\ \A k \in Models \ {m} : state'[k] = state[k]
  BY <1>0
<1>3. ASSUME NEW k \in Models \ {m} PROVE Good(k, state'[k], call')
  <2>1. Tensors(state[k], call')
    BY <1>0 DEF Good, Tensors
  <2> QED BY <1>0, <1>2, <2>1 DEF Good
<1>4. \A k \in Models : state[k].own \subseteq heap /\ Owns(k, state[k])
  BY <1>0 DEF Accounted, Good
<1>5. \A k \in Models : state'[k].own \subseteq heap'
  BY <1>2, <1>4 DEF Owns
<1>6. ASSUME NEW b \in heap' PROVE \/ b[1] \in ModelBlocks /\ b[2] \in loaded
                                   \/ \E k \in Models : b \in state'[k].own
  <2>1. CASE b \in s.own
    BY <1>2, <2>1
  <2>2. CASE b \in heap /\ b \notin state[m].own
    BY <1>0, <1>2, <2>2 DEF Accounted
  <2> QED BY <2>1, <2>2
<1>7. Accounted'
  BY <1>5, <1>6 DEF Accounted
<1>8. ActiveIsLoaded'
  BY DEF ActiveIsLoaded
<1>9. \A k \in Models : Good(k, state'[k], call') /\ (state'[k].exists => k \in loaded')
  BY <1>0, <1>2, <1>3
<1>10. \A k \in Models : Good(k, state[k], call)' /\ (state[k].exists => k \in loaded)'
  BY <1>9 DEF Good, Tensors, Owns, Sound, Encoded, LacksEncodings, Blocks, Block, Feature, Sam3
<1> QED BY <1>1, <1>7, <1>8, <1>10 DEF IInv

\* Loading and freeing a model.
LEMMA ModelStep ==
    ASSUME IInv, NEW m \in Models,
           (\E outcome \in {"bad_file", "no_memory", "bad_tensors", "ok"} : LoadModel(m, outcome))
             \/ FreeModel(m)
    PROVE  IInv'
<1>0. /\ Types /\ Accounted /\ Called /\ state' = state /\ read' = {}
      /\ call \in 0..MaxCalls /\ call' = call + 1 /\ call' \in 1..MaxCalls
      /\ \A k \in Models : Good(k, state[k], call) /\ (state[k].exists => k \in loaded)
  BY Bounds DEF IInv, Types, LoadModel, FreeModel, Called, NoRead
<1>1. \A k \in Models : Good(k, state[k], call)'
  <2>1. \A k \in Models : Tensors(state[k], call')
    BY <1>0 DEF Good, Tensors
  <2> QED BY <1>0, <2>1 DEF Good, Tensors, Owns, Sound, Encoded, LacksEncodings, Blocks, Block, Feature, Sam3
<1>2. \A k \in Models : \A b \in state[k].own : b[1] \notin ModelBlocks
  BY <1>0 DEF Good, Owns
<1>3. CASE \E outcome \in {"bad_file", "no_memory", "bad_tensors", "ok"} : LoadModel(m, outcome)
  <2>1. PICK outcome : LoadModel(m, outcome)
    BY <1>3
  <2>2. CASE outcome = "ok"
    <3>1. /\ loaded' = loaded \cup {m} /\ active' = m
          /\ heap' = heap \cup Blocks(ModelBlocks, m, call')
      BY <2>1, <2>2 DEF LoadModel
    <3>2. /\ Blocks(ModelBlocks, m, call') \subseteq AllBlocks
          /\ \A b \in Blocks(ModelBlocks, m, call') : b[1] \in ModelBlocks /\ b[2] = m
      BY <1>0, NewBlocks DEF ModelBlocks, Names
    <3>3. Types'
      BY <1>0, <3>1, <3>2 DEF Types, Called
    <3>4. Accounted'
      BY <1>0, <3>1, <3>2 DEF Accounted
    <3> QED BY <1>0, <1>1, <3>1, <3>3, <3>4, ReadNothing DEF IInv, ActiveIsLoaded
  <2>3. CASE outcome # "ok"
    <3>1. loaded' = loaded /\ active' \in {active, NoModel} /\ heap' = heap
      BY <2>1, <2>3 DEF LoadModel
    <3>2. Types' /\ Accounted'
      BY <1>0, <3>1 DEF Types, Accounted, Called
    <3> QED BY <1>0, <1>1, <3>1, <3>2, ReadNothing DEF IInv, ActiveIsLoaded
  <2> QED BY <2>2, <2>3
<1>4. CASE FreeModel(m)
  <2>1. /\ loaded' = loaded \ {m} /\ active' = BackendAfter(m) /\ ~state[m].exists
        /\ heap' = {b \in heap : ~(b[1] \in ModelBlocks /\ b[2] = m)}
    BY <1>4 DEF FreeModel, MayFree
  <2>2. Types'
    BY <1>0, <2>1 DEF Types, Called
  <2>3. Accounted'
    BY <1>0, <1>2, <2>1 DEF Accounted
  <2>4. ActiveIsLoaded'
    BY <2>1 DEF IInv, ActiveIsLoaded, BackendAfter
  <2> QED BY <1>0, <1>1, <2>1, <2>2, <2>3, <2>4, ReadNothing DEF IInv
<1> QED BY <1>3, <1>4

\* Making and freeing a state.
LEMMA NewStateStep ==
    ASSUME IInv, NEW m \in Models,
           \/ \E size \in Sizes, rope_fits \in BOOLEAN : CreateState(m, size, rope_fits)
           \/ \E size \in Sizes : CreateStateFails(m, size)
           \/ FreeState(m)
    PROVE  IInv'
<1>0. /\ Called /\ read' = {} /\ call \in 0..MaxCalls /\ call' = call + 1 /\ call' \in 1..MaxCalls
      /\ active' = active /\ loaded' = loaded /\ active \in loaded \cup {NoModel}
      /\ state \in [Models -> StateRec] /\ state[m].own \subseteq heap
      /\ Good(m, state[m], call) /\ (state[m].exists => m \in loaded)
  <2>1. Called /\ NoRead /\ UNCHANGED <<loaded, active>>
    BY DEF CreateState, CreateStateFails, FreeState
  <2> QED BY <2>1, Bounds DEF IInv, Types, Accounted, ActiveIsLoaded, Called, NoRead
<1>1. NoState \in StateRec /\ Good(m, NoState, call') /\ NoState.own = {} /\ ~NoState.exists
  <2>1. NoState \in StateRec
    BY DEF NoState, StateRec, Sizes
  <2> QED BY <1>0, <2>1 DEF NoState, Good, Tensors, Owns, Sound, Encoded
<1>2. CASE FreeState(m)
  <2>1. state' = [state EXCEPT ![m] = NoState] /\ heap' = (heap \ state[m].own) \cup NoState.own
    BY <1>1, <1>2 DEF FreeState
  <2> QED BY <1>0, <1>1, <2>1, ReadNothing, StateStep
<1>3. CASE \E size \in Sizes : CreateStateFails(m, size)
  <2>1. state' = state /\ heap' = heap
    BY <1>3 DEF CreateStateFails
  <2>2. state' = [state EXCEPT ![m] = state[m]] /\ heap' = (heap \ state[m].own) \cup state[m].own
    BY <1>0, <2>1
  <2>3. Good(m, state[m], call')
    BY <1>0 DEF Good, Tensors
  <2> QED BY <1>0, <2>2, <2>3, ReadNothing, StateStep
<1>4. CASE \E size \in Sizes, rope_fits \in BOOLEAN : CreateState(m, size, rope_fits)
  <2>1. PICK size \in Sizes, rope_fits \in BOOLEAN : CreateState(m, size, rope_fits)
    BY <1>4
  <2>2. PICK rope : rope = IF NeedsRope(m, size) THEN Blocks({"rope_ctx", "rope"}, m, call') ELSE {}
    OBVIOUS
  <2>3. PICK s : s = [NoState EXCEPT !.exists = TRUE, !.size = size, !.own = rope]
    OBVIOUS
  <2>4. state' = [state EXCEPT ![m] = s] /\ heap' = heap \cup rope /\ m \in loaded /\ ~state[m].exists
    BY <2>1, <2>2, <2>3 DEF CreateState
  <2>5. rope \subseteq AllBlocks /\ \A b \in rope : b[1] \notin ModelBlocks /\ b[2] = m
    BY <1>0, <2>2, NewBlocks, StateNames DEF Names, ModelBlocks
  <2>6. s \in StateRec /\ s.own = rope
    BY <2>3, <2>5, <1>1 DEF NoState, StateRec
  <2>7. Good(m, s, call')
    <3>1. /\ s.dims = 0 /\ s.vit = 0 /\ s.neck_det = 0 /\ s.neck_trk = 0 /\ s.pe = 0 /\ ~s.ret
          /\ s.exists
      BY <2>3 DEF NoState
    <3>2. Sound(m, s)
      BY <3>1 DEF Sound, Encoded
    <3> QED BY <1>0, <2>5, <2>6, <3>1, <3>2 DEF Good, Tensors, Owns
  <2>8. heap' = (heap \ state[m].own) \cup s.own
    BY <1>0, <2>4, <2>6 DEF Good
  <2> QED BY <1>0, <2>4, <2>6, <2>7, <2>8, ReadNothing, StateStep
<1> QED BY <1>2, <1>3, <1>4

-----------------------------------------------------------------------------
(***************************************************************************)
(* Encoding.                                                               *)
(***************************************************************************)

\* What an encoding finds.
Encoding(m) ==
    /\ IInv /\ Called /\ m \in loaded /\ state[m].exists
    /\ loaded' = loaded /\ active' \in {m, active} /\ read' = {}

\* What that gives.
LEMMA EncodingFacts ==
    ASSUME NEW m \in Models, Encoding(m)
    PROVE  /\ call \in 0..MaxCalls /\ call' = call + 1 /\ call' \in 1..MaxCalls
           /\ active' \in loaded \cup {NoModel}
           /\ state \in [Models -> StateRec] /\ state[m] \in StateRec /\ state[m].own \subseteq heap
           /\ Good(m, state[m], call)
BY Bounds DEF Encoding, IInv, Types, Accounted, ActiveIsLoaded, Called

\* A failing encoder.
LEMMA EncodeFailsStep ==
    ASSUME NEW m \in Models, NEW outcome, Encoding(m), EncodeFails(m, outcome)
    PROVE  IInv'
<1>0. /\ call \in 0..MaxCalls /\ call' = call + 1 /\ call' \in 1..MaxCalls
      /\ active' \in loaded \cup {NoModel}
      /\ state \in [Models -> StateRec] /\ state[m] \in StateRec /\ state[m].own \subseteq heap
      /\ Good(m, state[m], call)
  BY EncodingFacts
<1>1. PICK s : s = [state[m] EXCEPT !.dims = call', !.ret = Returns(outcome)]
  OBVIOUS
<1>2. state' = [state EXCEPT ![m] = s] /\ heap' = heap
  BY <1>0, <1>1, NoLeftover DEF EncodeFails
<1>3. Returns(outcome) = FALSE
  BY DEF EncodeFails, Returns
<1>4. /\ s \in StateRec /\ s.own = state[m].own /\ ~s.ret /\ s.exists = state[m].exists
      /\ s.dims = call' /\ s.vit = state[m].vit /\ s.neck_det = state[m].neck_det
      /\ s.neck_trk = state[m].neck_trk /\ s.pe = state[m].pe
  <2>1. /\ s.own = state[m].own /\ s.exists = state[m].exists
        /\ s.dims = call' /\ s.vit = state[m].vit /\ s.neck_det = state[m].neck_det
        /\ s.neck_trk = state[m].neck_trk /\ s.pe = state[m].pe
    BY <1>0, <1>1 DEF StateRec
  <2>2. s.ret = FALSE
    BY <1>0, <1>1, <1>3 DEF StateRec
  <2>3. PICK r \in StateRec : r = state[m]
    BY <1>0
  <2>4. s = [exists |-> r.exists, size |-> r.size, dims |-> call', ret |-> FALSE, vit |-> r.vit,
             neck_det |-> r.neck_det, neck_trk |-> r.neck_trk, pe |-> r.pe, own |-> r.own,
             pe_cache_valid |-> r.pe_cache_valid]
    BY <1>1, <1>3, <2>3 DEF StateRec
  <2>5. s \in StateRec
    BY <1>0, <2>3, <2>4 DEF StateRec
  <2> QED BY <2>1, <2>2, <2>5
<1>5. Good(m, s, call')
  <2>1. Tensors(s, call')
    BY <1>0, <1>4 DEF Good, Tensors
  <2>2. Sound(m, state[m]) => Sound(m, s)
    BY <1>4 DEF Sound, Encoded, LacksEncodings
  <2> QED BY <1>0, <1>4, <2>1, <2>2 DEF Good, Owns
<1>6. heap' = (heap \ state[m].own) \cup s.own
  BY <1>0, <1>2, <1>4
<1> QED BY <1>0, <1>2, <1>4, <1>5, <1>6, ReadNothing, StateStep DEF Encoding

\* A successful one, whatever features it keeps.
LEMMA SucceedsStep ==
    ASSUME NEW m \in Models, Encoding(m), NEW W \in SUBSET (Feature(m) \cup PeBlocks),
           NEW f \in StateRec, Succeeds(m, W, f), Feature(m) \subseteq W,
           f.exists, f.vit \in {0, call'}, f.neck_det \in {0, call'}, f.neck_trk \in {0, call'},
           f.pe \in {state[m].pe, 0, call'}, ~Sam3(m) => f.vit = 0 /\ f.neck_det = 0,
           \/ f.pe = 0 /\ f.neck_det = 0
           \/ f.pe = call' /\ PeBlocks \subseteq W
           \/ "pe_ctx" \in W /\ "pe_buf" \notin W
    PROVE  IInv'
<1>0. /\ call \in 0..MaxCalls /\ call' = call + 1 /\ call' \in 1..MaxCalls
      /\ active' \in loaded \cup {NoModel}
      /\ state \in [Models -> StateRec] /\ state[m] \in StateRec /\ state[m].own \subseteq heap
      /\ Good(m, state[m], call)
  BY EncodingFacts
<1>1. PICK old : old = Owned(m, Replaced(m))
  OBVIOUS
<1>2. PICK new : new = Blocks(W, m, call')
  OBVIOUS
<1>3. PICK s : s = [f EXCEPT !.own = (state[m].own \ old) \cup new, !.dims = call', !.ret = TRUE]
  OBVIOUS
<1>4. state' = [state EXCEPT ![m] = s] /\ heap' = (heap \ old) \cup new
  BY <1>1, <1>2, <1>3 DEF Succeeds
<1>5. new \subseteq AllBlocks /\ \A b \in new : b[1] \notin ModelBlocks /\ b[2] = m
  <2>1. W \in SUBSET Names /\ W \cap ModelBlocks = {}
    BY StateNames
  <2> QED BY <1>0, <1>2, <2>1, NewBlocks
<1>6. old \subseteq state[m].own
  BY <1>1 DEF Owned
<1>7. /\ s \in StateRec /\ s.own = (state[m].own \ old) \cup new /\ s.dims = call' /\ s.exists
      /\ s.vit = f.vit /\ s.neck_det = f.neck_det /\ s.neck_trk = f.neck_trk /\ s.pe = f.pe
  <2>1. PICK o \in SUBSET AllBlocks : o = (state[m].own \ old) \cup new
    BY <1>0, <1>5 DEF StateRec
  <2>2. s = [exists |-> f.exists, size |-> f.size, dims |-> call', ret |-> TRUE, vit |-> f.vit,
             neck_det |-> f.neck_det, neck_trk |-> f.neck_trk, pe |-> f.pe, own |-> o,
             pe_cache_valid |-> f.pe_cache_valid]
    BY <1>3, <2>1 DEF StateRec
  <2>3. s \in StateRec
    BY <1>0, <2>2 DEF StateRec
  <2> QED BY <2>1, <2>2, <2>3
<1>8. heap' = (heap \ state[m].own) \cup s.own
  BY <1>0, <1>4, <1>6, <1>7
<1>9. Tensors(s, call')
  BY <1>0, <1>7 DEF Good, Tensors
<1>10. Owns(m, s)
  BY <1>0, <1>5, <1>7 DEF Good, Owns
<1>11. Sound(m, s)
  <2>1. Blocks(Feature(m), m, call') \subseteq s.own
    BY <1>2, <1>7, MoreBlocks
  <2>2. PeBlocks \subseteq W => Blocks(PeBlocks, m, call') \subseteq s.own
    BY <1>2, <1>7, MoreBlocks
  <2>3. CASE "pe_ctx" \in W /\ "pe_buf" \notin W
    <3>1. Block("pe_ctx", m, call') \in s.own
      BY <1>2, <1>7, <2>3 DEF Blocks
    <3>2. Block("pe_ctx", m, call')[1] = "pe_ctx"
      BY DEF Block
    <3>3. ASSUME NEW b \in s.own PROVE b[1] # "pe_buf"
      <4>1. CASE b \in new
        BY <1>2, <2>3, <4>1 DEF Blocks, Block
      <4>2. CASE b \in state[m].own \ old
        BY <1>1, <4>2 DEF Owned, Replaced, PeBlocks
      <4> QED BY <1>7, <3>3, <4>1, <4>2
    <3>4. LacksEncodings(s)
      BY <3>1, <3>2, <3>3 DEF LacksEncodings
    <3> QED BY <1>7, <2>1, <3>4 DEF Sound
  <2>4. CASE \/ f.pe = 0 /\ f.neck_det = 0
             \/ f.pe = call' /\ PeBlocks \subseteq W
    <3>1. Encoded(m, s)
      BY <1>0, <1>7, <2>2, <2>4 DEF Encoded
    <3> QED BY <1>7, <2>1, <3>1 DEF Sound
  <2> QED BY <2>3, <2>4
<1>12. Good(m, s, call')
  BY <1>7, <1>9, <1>10, <1>11 DEF Good
<1> QED BY <1>0, <1>4, <1>7, <1>8, <1>12, ReadNothing, StateStep DEF Encoding

\* The SAM 3 encoder.
LEMMA Sam3Step ==
    ASSUME NEW m \in Models, NEW outcome \in Outcomes, Encoding(m), EncodeSam3(m, outcome)
    PROVE  IInv'
<1>0. state[m] \in StateRec /\ call' \in Int /\ Sam3(m) /\ state[m].exists
  BY EncodingFacts DEF EncodeSam3, Encoding
<1>1. CASE EncodeFails(m, outcome)
  BY <1>1, EncodeFailsStep
<1>2. CASE ~EncodeFails(m, outcome)
  <2>1. PICK W : W = Feature(m) \cup (IF outcome = "ok" THEN PeBlocks ELSE {"pe_ctx"})
    OBVIOUS
  <2>2. PICK f : f = [state[m] EXCEPT !.vit = call',
                                      !.neck_det = IF Kind[m] = "sam3" THEN call' ELSE 0,
                                      !.neck_trk = Trk(m),
                                      !.pe = IF outcome = "ok" THEN call' ELSE @,
                                      !.pe_cache_valid = FALSE]
    OBVIOUS
  <2>3. Succeeds(m, W, f) /\ outcome \in {"no_pe", "ok"}
    BY <1>2, <2>1, <2>2 DEF EncodeSam3
  <2>4. W \in SUBSET (Feature(m) \cup PeBlocks) /\ Feature(m) \subseteq W
    BY <2>1, StateNames
  <2>5. Trk(m) \in {0, call'}
    BY DEF Trk
  <2>6. /\ f \in StateRec /\ f.exists = state[m].exists /\ f.vit = call' /\ f.neck_det \in {0, call'}
        /\ f.neck_trk = Trk(m)
    <3>1. PICK r \in StateRec : r = state[m]
      BY <1>0
    <3>2. PICK d, t, p : /\ d = (IF Kind[m] = "sam3" THEN call' ELSE 0) /\ t = Trk(m)
                         /\ p = (IF outcome = "ok" THEN call' ELSE r.pe)
      OBVIOUS
    <3>3. d \in {0, call'} /\ t \in Int /\ p \in Int
      BY <1>0, <2>5, <3>2 DEF StateRec
    <3>4. f = [exists |-> r.exists, size |-> r.size, dims |-> r.dims, ret |-> r.ret, vit |-> call',
               neck_det |-> d, neck_trk |-> t, pe |-> p, own |-> r.own, pe_cache_valid |-> FALSE]
      BY <2>2, <3>1, <3>2 DEF StateRec
    <3>5. f \in StateRec
      BY <1>0, <3>3, <3>4 DEF StateRec
    <3> QED BY <3>1, <3>2, <3>3, <3>4, <3>5
  <2>7. f.pe = (IF outcome = "ok" THEN call' ELSE state[m].pe)
    BY <1>0, <2>2 DEF StateRec
  <2>8. /\ f.pe \in {state[m].pe, 0, call'}
        /\ \/ f.pe = call' /\ PeBlocks \subseteq W
           \/ "pe_ctx" \in W /\ "pe_buf" \notin W
    <3>1. CASE outcome = "ok"
      BY <2>1, <2>7, <3>1
    <3>2. CASE outcome = "no_pe"
      <4>1. W = Feature(m) \cup {"pe_ctx"}
        BY <2>1, <3>2
      <4> QED BY <2>7, <3>2, <4>1 DEF Feature
    <3> QED BY <2>3, <3>1, <3>2
  <2> QED BY <1>0, <2>3, <2>4, <2>5, <2>6, <2>8, SucceedsStep
<1> QED BY <1>1, <1>2

\* The encoders of SAM 2 and EdgeTAM.
LEMMA Sam2Step ==
    ASSUME NEW m \in Models, NEW outcome \in Outcomes, Encoding(m), EncodeSam2(m, outcome)
    PROVE  IInv'
<1>0. /\ state[m] \in StateRec /\ call' \in Int /\ ~Sam3(m) /\ state[m].exists
      /\ state[m].vit = 0 /\ state[m].neck_det = 0
  BY EncodingFacts DEF EncodeSam2, Encoding, Good
<1>1. CASE EncodeFails(m, outcome)
  BY <1>1, EncodeFailsStep
<1>2. CASE ~EncodeFails(m, outcome)
  <2>1. PICK W : W = Feature(m) \cup PeBlocks
    OBVIOUS
  <2>2. PICK f : f = [state[m] EXCEPT !.neck_trk = Trk(m), !.pe = call']
    OBVIOUS
  <2>3. Succeeds(m, W, f)
    BY <1>2, <2>1, <2>2 DEF EncodeSam2
  <2>4. W \in SUBSET (Feature(m) \cup PeBlocks) /\ Feature(m) \subseteq W /\ PeBlocks \subseteq W
    BY <2>1
  <2>5. Trk(m) \in {0, call'}
    BY DEF Trk
  <2>6. /\ f \in StateRec /\ f.exists = state[m].exists /\ f.vit = state[m].vit
        /\ f.neck_det = state[m].neck_det /\ f.neck_trk = Trk(m) /\ f.pe = call'
    BY <1>0, <2>2, <2>5 DEF StateRec
  <2> QED BY <1>0, <2>3, <2>4, <2>5, <2>6, SucceedsStep
<1> QED BY <1>1, <1>2

\* The backbone alone.
LEMMA VitStep ==
    ASSUME IInv, NEW m \in Models, NEW outcome \in Outcomes, EncodeVit(m, outcome)
    PROVE  IInv'
<1>0. Encoding(m) /\ Sam3(m)
  BY DEF Encoding, EncodeVit
<1>1. state[m] \in StateRec /\ call' \in Int /\ state[m].exists
  BY <1>0, EncodingFacts DEF Encoding
<1>2. CASE EncodeFails(m, outcome)
  BY <1>0, <1>2, EncodeFailsStep
<1>3. CASE ~EncodeFails(m, outcome)
  <2>1. PICK W : W = Feature(m)
    OBVIOUS
  <2>2. PICK f : f = [ClearEncoder(state[m]) EXCEPT !.vit = call', !.pe_cache_valid = FALSE]
    OBVIOUS
  <2>3. Succeeds(m, W, f)
    BY <1>3, <2>1, <2>2 DEF EncodeVit
  <2>4. W \in SUBSET (Feature(m) \cup PeBlocks) /\ Feature(m) \subseteq W
    BY <2>1
  <2>5. /\ f \in StateRec /\ f.exists = state[m].exists /\ f.vit = call' /\ f.neck_det = 0
        /\ f.neck_trk = 0 /\ f.pe = 0
    <3>1. PICK r \in StateRec : r = state[m]
      BY <1>1
    <3>2. f = [exists |-> r.exists, size |-> r.size, dims |-> r.dims, ret |-> r.ret, vit |-> call',
               neck_det |-> 0, neck_trk |-> 0, pe |-> 0, own |-> r.own, pe_cache_valid |-> FALSE]
      BY <2>2, <3>1 DEF ClearEncoder, StateRec
    <3>3. f \in StateRec
      BY <1>1, <3>2 DEF StateRec
    <3> QED BY <3>1, <3>2, <3>3
  <2> QED BY <1>0, <1>1, <2>3, <2>4, <2>5, SucceedsStep
<1> QED BY <1>2, <1>3

\* Every entry point that encodes.
LEMMA EncodeStep ==
    ASSUME IInv, NEW m \in Models, NEW outcome \in Outcomes,
           EncodeImage(m, outcome) \/ EncodePreprocessed(m, outcome) \/ EncodeVit(m, outcome)
    PROVE  IInv'
<1>1. CASE EncodeImage(m, outcome)
  <2>1. Encoding(m) /\ (EncodeSam3(m, outcome) \/ EncodeSam2(m, outcome))
    BY <1>1 DEF EncodeImage, Encoding
  <2> QED BY <2>1, Sam3Step, Sam2Step
<1>2. CASE EncodePreprocessed(m, outcome)
  <2>1. Encoding(m) /\ (EncodeSam3(m, outcome) \/ EncodeSam2(m, outcome))
    BY <1>2 DEF EncodePreprocessed, PreprocessedEdgeTam, PreprocessedSam2, PreprocessedSam3, Encoding
  <2> QED BY <2>1, Sam3Step, Sam2Step
<1> QED BY <1>1, <1>2, VitStep

-----------------------------------------------------------------------------
(***************************************************************************)
(* Segmenting.                                                             *)
(***************************************************************************)

\* What a whole state points to is in memory, its encodings unless it lacks them.
LEMMA FeaturesAreThere ==
    ASSUME IInv, NEW m \in Models
    PROVE  /\ state[m].neck_trk # 0 => Blocks(Feature(m), m, state[m].neck_trk) \subseteq heap
           /\ state[m].neck_det # 0 =>
                 /\ Blocks(Feature(m), m, state[m].neck_det) \subseteq heap
                 /\ \/ Blocks(PeBlocks, m, state[m].pe) \subseteq heap
                    \/ LacksEncodings(state[m])
<1>1. Sound(m, state[m]) /\ state[m].own \subseteq heap
  BY DEF IInv, Good, Accounted
<1> QED BY <1>1 DEF Sound, Encoded

\* A segmentation leaves the memory as it is, and what it reads is there.
LEMMA SegmentStep ==
    ASSUME IInv, NEW m \in Models, NEW outcome,
           SegmentPcs(m, outcome) \/ SegmentPvs(m, outcome)
    PROVE  IInv'
<1>0. /\ call \in 0..MaxCalls /\ call' = call + 1 /\ call' \in 1..MaxCalls
      /\ active' \in loaded \cup {NoModel} /\ loaded' = loaded /\ Called
      /\ state \in [Models -> StateRec] /\ state[m] \in StateRec /\ state[m].own \subseteq heap
      /\ Good(m, state[m], call) /\ m \in loaded /\ state[m].exists
  <2>1. Called /\ active' = m /\ m \in loaded /\ loaded' = loaded /\ state[m].exists
    BY DEF SegmentPcs, SegmentPvs
  <2> QED BY <2>1, Bounds DEF IInv, Types, Accounted, Called
<1>1. heap' = heap /\ state'[m].own = state[m].own
  <2>1. CASE SegmentPcs(m, outcome)
    BY <2>1, NoLeftover DEF SegmentPcs
  <2>2. CASE SegmentPvs(m, outcome)
    <3>1. state' = state \/ \E c : state' = [state EXCEPT ![m].pe_cache_valid = c]
      BY <2>2 DEF SegmentPvs
    <3> QED BY <1>0, <2>2, <3>1, NoLeftover DEF SegmentPvs, StateRec
  <2> QED BY <2>1, <2>2
<1>1a. ReadOK'
  <2>1. \A b \in Blocks(PeBlocks, m, state[m].pe) : b[1] \in PeBlocks /\ b[2] = m
    BY DEF Blocks, Block
  <2>2. LacksEncodings(state[m]) => LacksEncodings(state'[m])
    BY <1>1 DEF LacksEncodings
  <2>3. \/ read' \subseteq heap
        \/ /\ LacksEncodings(state[m])
           /\ read' \subseteq heap \cup Blocks(PeBlocks, m, state[m].pe)
    BY FeaturesAreThere DEF SegmentPcs, SegmentPvs, HasDetector
  <2> QED BY <1>1, <2>1, <2>2, <2>3 DEF ReadOK
<1>2. Good(m, state[m], call')
  BY <1>0 DEF Good, Tensors
<1>3. CASE state' = state
  <2>1. state' = [state EXCEPT ![m] = state[m]] /\ heap' = (heap \ state[m].own) \cup state[m].own
    BY <1>0, <1>1, <1>3
  <2> QED BY <1>0, <1>1, <1>1a, <1>2, <2>1, StateStep
<1>4. CASE state' # state
  <2>1. PICK c \in BOOLEAN : state' = [state EXCEPT ![m].pe_cache_valid = c]
    <3>1. state' = [state EXCEPT ![m].pe_cache_valid = @ \/ outcome \notin {"no_ctx", "no_memory"}]
      BY <1>4 DEF SegmentPcs, SegmentPvs
    <3>2. state' = [state EXCEPT ![m].pe_cache_valid =
                      state[m].pe_cache_valid \/ outcome \notin {"no_ctx", "no_memory"}]
      BY <3>1, Zenon
    <3>3. (state[m].pe_cache_valid \/ outcome \notin {"no_ctx", "no_memory"}) \in BOOLEAN
      OBVIOUS
    <3> QED BY <3>2, <3>3, Zenon
  <2>2. PICK r \in StateRec : r = state[m]
    BY <1>0
  <2>3. PICK s : s = [r EXCEPT !.pe_cache_valid = c]
    OBVIOUS
  <2>4. state' = [state EXCEPT ![m] = s]
    BY <2>1, <2>2, <2>3, Zenon
  <2>5. s = [exists |-> r.exists, size |-> r.size, dims |-> r.dims, ret |-> r.ret, vit |-> r.vit,
             neck_det |-> r.neck_det, neck_trk |-> r.neck_trk, pe |-> r.pe, own |-> r.own,
             pe_cache_valid |-> c]
    BY <2>3 DEF StateRec
  <2>6. s \in StateRec
    BY <2>5 DEF StateRec
  <2>7. Good(m, s, call')
    <3>1. Good(m, r, call')
      BY <1>2, <2>2
    <3>2. /\ (s.exists <=> r.exists) /\ (s.ret <=> r.ret)
          /\ s.dims = r.dims /\ s.vit = r.vit /\ s.neck_det = r.neck_det
          /\ s.neck_trk = r.neck_trk /\ s.pe = r.pe /\ s.own = r.own
      BY <2>5
    <3>3. Sound(m, r) => Sound(m, s)
      BY <3>2 DEF Sound, Encoded, LacksEncodings
    <3> QED BY <3>1, <3>2, <3>3 DEF Good, Tensors, Owns
  <2>8. heap' = (heap \ state[m].own) \cup s.own
    BY <1>0, <1>1, <2>2, <2>5
  <2> QED BY <1>0, <1>1, <1>1a, <2>4, <2>6, <2>7, <2>8, StateStep
<1> QED BY <1>3, <1>4

-----------------------------------------------------------------------------
(***************************************************************************)
(* The theorems.                                                           *)
(***************************************************************************)

\* Nothing is loaded, owned or allocated at first.
LEMMA InitIInv == Init => IInv
<1> SUFFICES ASSUME Init PROVE IInv
  OBVIOUS
<1>1. NoState \in StateRec
  BY DEF NoState, StateRec, Sizes
<1>2. Types
  BY <1>1, Bounds DEF Init, Types
<1>3. \A m \in Models : Good(m, state[m], call) /\ ~state[m].exists
  BY DEF Init, NoState, Good, Tensors, Owns, Sound, Encoded
<1>4. \A m \in Models : state[m].own = {}
  BY DEF Init, NoState
<1> QED BY <1>2, <1>3, <1>4 DEF Init, IInv, Accounted, ActiveIsLoaded, ReadOK

\* Every call keeps the invariant.
LEMMA StepIInv == IInv /\ [Next]_vars => IInv'
<1> SUFFICES ASSUME IInv, [Next]_vars PROVE IInv'
  OBVIOUS
<1>1. CASE UNCHANGED vars
  <2>1. /\ pcs_only' = pcs_only /\ loaded' = loaded /\ active' = active /\ state' = state
        /\ heap' = heap /\ call' = call /\ read' = read
    BY <1>1 DEF vars
  <2>2. \A m \in Models : Good(m, state[m], call)'
    BY <2>1, SMTT(30) DEF IInv, Good, Tensors, Owns, Sound, Encoded, LacksEncodings, Blocks, Block, Feature, Sam3
  <2>3. Types' /\ Accounted' /\ ActiveIsLoaded' /\ ReadOK'
    BY <2>1 DEF IInv, Types, Accounted, ActiveIsLoaded, ReadOK, LacksEncodings
  <2> QED BY <2>1, <2>2, <2>3 DEF IInv
<1>2. CASE Next
  <2>1. PICK m \in Models :
          \/ \E outcome \in {"bad_file", "no_memory", "bad_tensors", "ok"} : LoadModel(m, outcome)
          \/ FreeModel(m)
          \/ \E size \in Sizes, rope_fits \in BOOLEAN : CreateState(m, size, rope_fits)
          \/ \E size \in Sizes : CreateStateFails(m, size)
          \/ FreeState(m)
          \/ \E outcome \in Outcomes :
                EncodeImage(m, outcome) \/ EncodePreprocessed(m, outcome) \/ EncodeVit(m, outcome)
          \/ \E outcome \in Outcomes \ {"no_pe"} : SegmentPcs(m, outcome) \/ SegmentPvs(m, outcome)
    BY <1>2 DEF Next
  <2> QED BY <2>1, ModelStep, NewStateStep, EncodeStep, SegmentStep
<1> QED BY <1>1, <1>2

\* The inductive invariant: every block has one owner, a state's tensors are of
\* calls made, of its image and in its memory, but for encodings it lacks.
THEOREM Invariant == Spec => []IInv
BY InitIInv, StepIInv, PTL DEF Spec

\* Type correctness.
THEOREM TypeCorrect == Spec => []TypeOK
<1>1. IInv => TypeOK
  <2> SUFFICES ASSUME IInv PROVE TypeOK
    OBVIOUS
  <2>1. ASSUME NEW m \in Models
        PROVE  /\ state[m].exists => m \in loaded
               /\ state[m].size \in Sizes
               /\ {state[m].dims, state[m].vit, state[m].neck_det, state[m].neck_trk, state[m].pe}
                     \subseteq 0..call
               /\ state[m].own \subseteq AllBlocks
    <3>1. state[m] \in StateRec /\ Good(m, state[m], call) /\ (state[m].exists => m \in loaded)
      BY DEF IInv, Types
    <3> QED BY <3>1 DEF StateRec, Good, Tensors
  <2> QED BY <2>1 DEF IInv, Types, ActiveIsLoaded, TypeOK
<1> QED BY <1>1, Invariant, PTL

\* No way out of a call leaks memory or frees what somebody goes on using.
THEOREM NoLeak == Spec => []NothingLeaks
<1>1. IInv => NothingLeaks
  <2> SUFFICES ASSUME Accounted PROVE NothingLeaks
    BY DEF IInv
  <2>1. \A b : b \in UNION {state[m].own : m \in Models} <=> \E m \in Models : b \in state[m].own
    OBVIOUS
  <2> QED BY <2>1 DEF Accounted, NothingLeaks
<1> QED BY <1>1, Invariant, PTL

\* A model freed or half-loaded never stays behind as the one to ask.
THEOREM ActiveStaysLoaded == Spec => []ActiveIsLoaded
<1>1. IInv => ActiveIsLoaded
  BY DEF IInv
<1> QED BY <1>1, Invariant, PTL

\* A segmentation reads no null and no freed tensor, whatever was encoded, failed
\* or freed before, but for the position encodings of a state that lacks them.
THEOREM ReadsLive == Spec => []ReadsAreLive
<1>1. IInv => ReadsAreLive
  <2> SUFFICES ASSUME IInv PROVE ReadsAreLive
    OBVIOUS
  <2>1. \A m \in Models : Sound(m, state[m])
    BY DEF IInv, Good
  <2>2. NothingDangles
    BY <2>1 DEF NothingDangles, Sound, Encoded
  <2> QED BY <2>2 DEF IInv, ReadOK, ReadsAreLive
<1> QED BY <1>1, Invariant, PTL

\* And after an encoding that returned true all features are of its image, and
\* so are the position encodings of a state that has them.
THEOREM FeaturesShow == Spec => []FeaturesShowTheImage
<1>1. IInv => FeaturesShowTheImage
  <2> SUFFICES ASSUME IInv PROVE FeaturesShowTheImage
    OBVIOUS
  <2>1. \A m \in Models : Sound(m, state[m])
    BY DEF IInv, Good
  <2> QED BY <2>1 DEF FeaturesShowTheImage, Sound, Encoded
<1> QED BY <1>1, Invariant, PTL
=============================================================================
