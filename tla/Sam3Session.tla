----------------------------- MODULE Sam3Session -----------------------------
(***************************************************************************)
(* Models, inference states and image features of depend/sam3/sam3.cpp:    *)
(* which memory each call allocates, hands over to the state and frees on  *)
(* each of its ways out, and which tensors a segmentation then reads.      *)
(*                                                                         *)
(* A block of memory is <<what, model, call>>: the call that allocated it. *)
(* A tensor is the number of the call that computed it, 0 for a null       *)
(* pointer; the same number stands for the image it shows.  Every model    *)
(* has one state, made for it.  The numbers in the tensors are left out.   *)
(***************************************************************************)
EXTENDS Integers, FiniteSets

CONSTANTS
    Models,       \* model files, each loaded on a backend of its own
    NoModel,      \* the null backend
    Kind,         \* model -> "sam3", "visual" (SAM 3 without detector), "sam2", "edgetam"
    MaxCalls      \* bound: calls of a run

ASSUME Kinds  == Kind \in [Models -> {"sam3", "visual", "sam2", "edgetam"}]
ASSUME NoneOf == NoModel \notin Models
ASSUME Bounds == MaxCalls \in Nat

\* Sizes a caller may ask a state for: the model's own, one whose grid is a
\* whole number of windows, one whose grid is not, one without any grid.
Sizes == {"native", "whole", "partial", "empty"}

\* How a call that computes a graph may end: no context, a graph that does not
\* fit, a graph that does not compute, success without the position encodings.
Outcomes == {"no_ctx", "no_memory", "no_compute", "no_pe", "ok"}

VARIABLES
    pcs_only,   \* SAM3_PCS_ONLY is set: no tracker neck
    loaded,     \* models alive
    active,     \* g_sam3_active_backend
    state,      \* model -> its sam3_state
    heap,       \* blocks allocated and not freed
    call,       \* number of the last call
    read,       \* tensors the last segmentation read, each with its blocks
    probed      \* <<model, backend>> of the last graph: for which model it was
                \* built and which backend was asked what it supports

vars == <<pcs_only, loaded, active, state, heap, call, read, probed>>

NoState == [exists |-> FALSE, size |-> "native", dims |-> 0, ret |-> FALSE,
            vit |-> 0, neck_det |-> 0, neck_trk |-> 0, pe |-> 0, own |-> {},
            pe_cache_valid |-> FALSE]

Init ==
    /\ pcs_only \in BOOLEAN
    /\ loaded = {}
    /\ active = NoModel
    /\ state = [m \in Models |-> NoState]
    /\ heap = {}
    /\ call = 0
    /\ read = {}
    /\ probed = {}

Sam3(m)   == Kind[m] \in {"sam3", "visual"}
Called    == call < MaxCalls /\ call' = call + 1 /\ UNCHANGED pcs_only
Block(what, m, n)   == <<what, m, n>>
Blocks(whats, m, n) == {Block(w, m, n) : w \in whats}

\* The blocks of the given names that the state of m owns.
Owned(m, whats) == {b \in state[m].own : b[1] \in whats}

NoRead == read' = {} /\ UNCHANGED probed

-----------------------------------------------------------------------------
(* Models and states. *)

ModelBlocks == {"backend", "weights_ctx", "weights"}

\* sam3_load_model: the file is no model, the weights do not fit, a tensor or
\* the tokenizer is not as registered.  The destructor of the half-built model
\* clears the global if it is its own.
LoadModel(m, outcome) ==
    /\ Called /\ NoRead
    /\ m \notin loaded
    /\ loaded' = IF outcome = "ok" THEN loaded \cup {m} ELSE loaded
    /\ active' = CASE outcome = "ok"       -> m
                   [] outcome = "bad_file" -> active
                   [] OTHER                -> NoModel
    /\ heap' = IF outcome = "ok" THEN heap \cup Blocks(ModelBlocks, m, call') ELSE heap
    /\ UNCHANGED state

\* Mutant: a model freed stays the one to ask.
ForgetsNoBackend(m) == active

\* sam3_free_model: the global is cleared if it is the model's.
BackendAfter(m) == IF active = m THEN NoModel ELSE active

\* Mutant: the model goes first.
MayFreeAny(m) == TRUE

\* unload_sam3 of the worker lets the state go before the model.
MayFree(m) == ~state[m].exists

\* sam3_free_model, by the destructor.
FreeModel(m) ==
    /\ Called /\ NoRead
    /\ m \in loaded /\ MayFree(m)
    /\ loaded' = loaded \ {m}
    /\ active' = BackendAfter(m)
    /\ heap' = {b \in heap : ~(b[1] \in ModelBlocks /\ b[2] = m)}
    /\ UNCHANGED state

\* sam3_create_state builds a rotary table for a grid that is not the model's.
NeedsRope(m, size) == Sam3(m) /\ size # "native"

CreateState(m, size, rope_fits) ==
    /\ Called /\ NoRead
    /\ m \in loaded /\ ~state[m].exists
    /\ ~(NeedsRope(m, size) /\ (size = "empty" \/ ~rope_fits))
    /\ LET rope == IF NeedsRope(m, size) THEN Blocks({"rope_ctx", "rope"}, m, call') ELSE {}
       IN  /\ state' = [state EXCEPT ![m] =
                           [NoState EXCEPT !.exists = TRUE, !.size = size, !.own = rope]]
           /\ heap' = heap \cup rope
    /\ UNCHANGED <<loaded, active>>

\* Null: the deleter of the half-built state has freed what it had.
CreateStateFails(m, size) ==
    /\ Called /\ NoRead
    /\ m \in loaded /\ ~state[m].exists
    /\ NeedsRope(m, size)
    /\ UNCHANGED <<loaded, active, state, heap>>

FreeState(m) ==
    /\ Called /\ NoRead
    /\ state[m].exists
    /\ state' = [state EXCEPT ![m] = NoState]
    /\ heap' = heap \ state[m].own
    /\ UNCHANGED <<loaded, active>>

-----------------------------------------------------------------------------
(* Encoding an image. *)

\* What a SAM 3 encoder keeps is its graph; the others copy the features into
\* a buffer of their own and free the graph.
Feature(m) == IF Sam3(m) THEN {"ctx", "galloc"} ELSE {"feat_ctx", "feat_buf"}
PeBlocks   == {"pe_ctx", "pe_buf"}

\* The graph of the call, whatever became of it.
GraphBlocks(outcome) ==
    CASE outcome = "no_ctx" -> {}
      [] OTHER              -> {"ctx", "galloc"}

\* Mutant: the early return after the computation frees the context only.
FreedEarly(outcome) ==
    CASE outcome = "no_ctx"     -> {}
      [] outcome = "no_compute" -> {"ctx"}
      [] OTHER                  -> {"ctx", "galloc"}

\* What a failing call frees before it returns false.
FreedOnFailure(outcome) == GraphBlocks(outcome)

\* What it thereby leaves behind.
Leaked(m, outcome) == Blocks(GraphBlocks(outcome) \ FreedOnFailure(outcome), m, call')

Failed(outcome) == outcome \in {"no_ctx", "no_memory", "no_compute"}

\* Mutant: the result of the computation is not looked at.
ReturnsAnyway(outcome) == outcome \notin {"no_ctx", "no_memory"}

Returns(outcome) == ~Failed(outcome)

\* A failing encoder leaves the features and has set the size of the image.
EncodeFails(m, outcome) ==
    /\ Failed(outcome)
    /\ state' = [state EXCEPT ![m].dims = call', ![m].ret = Returns(outcome)]
    /\ heap' = heap \cup Leaked(m, outcome)

\* The tracker neck: SAM3_PCS_ONLY leaves it null.
Trk(m) == IF pcs_only /\ Sam3(m) THEN 0 ELSE call'

\* What an encoder frees of the image before, once it has succeeded.
Replaced(m) == Feature(m) \cup PeBlocks

\* It hands the kept blocks over to the state, with the tensors of features.
Succeeds(m, kept, features) ==
    LET old == Owned(m, Replaced(m))
        new == Blocks(kept, m, call')
    IN  /\ heap' = (heap \ old) \cup new
        /\ state' = [state EXCEPT ![m] =
               [features EXCEPT !.own = (state[m].own \ old) \cup new,
                                !.dims = call', !.ret = TRUE]]

\* sam3_encode_image for SAM 3.  Without the buffer of the encodings there is
\* an encoding context, the old pointers, and success.
EncodeSam3(m, outcome) ==
    /\ Sam3(m)
    /\ ~(pcs_only /\ Kind[m] = "visual")   \* an empty graph: ggml stops the process
    /\ \/ EncodeFails(m, outcome)
       \/ /\ outcome \in {"no_pe", "ok"}
          /\ Succeeds(m, Feature(m) \cup (IF outcome = "ok" THEN PeBlocks ELSE {"pe_ctx"}),
                 [state[m] EXCEPT !.vit = call',
                                  !.neck_det = IF Kind[m] = "sam3" THEN call' ELSE 0,
                                  !.neck_trk = Trk(m),
                                  !.pe = IF outcome = "ok" THEN call' ELSE @,
                                  !.pe_cache_valid = FALSE])

\* sam2_encode_image_hiera and edgetam_encode_image.  Neither checks the
\* allocations of what it copies to: ggml stops the process when one fails.
EncodeSam2(m, outcome) ==
    /\ ~Sam3(m)
    /\ \/ EncodeFails(m, outcome)
       \/ /\ outcome = "ok"
          /\ Succeeds(m, Feature(m) \cup PeBlocks,
                 [state[m] EXCEPT !.neck_trk = Trk(m), !.pe = call'])

\* sam3_encode_image; it parks the backend the graph builders ask.
EncodeImage(m, outcome) ==
    /\ Called
    /\ m \in loaded /\ state[m].exists
    /\ active' = m
    /\ EncodeSam3(m, outcome) \/ EncodeSam2(m, outcome)
    /\ probed' = {<<m, m>>}
    /\ read' = {}
    /\ UNCHANGED loaded

\* sam3_encode_image_from_preprocessed repeats each encoder after its own
\* preparation of the input: RepViT, Hiera and ViT.
PreprocessedEdgeTam(m, outcome) == Kind[m] = "edgetam" /\ EncodeSam2(m, outcome)
PreprocessedSam2(m, outcome)    == Kind[m] = "sam2" /\ EncodeSam2(m, outcome)
PreprocessedSam3(m, outcome)    == EncodeSam3(m, outcome)

\* It takes the model's own size only; it compares with the model's, not with
\* the state's, which the callers make native.
EncodePreprocessed(m, outcome) ==
    /\ Called
    /\ m \in loaded /\ state[m].exists
    /\ state[m].size = "native"
    /\ active' = m
    /\ \/ PreprocessedEdgeTam(m, outcome)
       \/ PreprocessedSam2(m, outcome)
       \/ PreprocessedSam3(m, outcome)
    /\ probed' = {<<m, m>>}
    /\ read' = {}
    /\ UNCHANGED loaded

\* Mutant: the pointers into the freed buffers are kept.
ClearNothing(s) == s

\* sam3_clear_encoder_state.
ClearEncoder(s) == [s EXCEPT !.vit = 0, !.neck_det = 0, !.neck_trk = 0, !.pe = 0]

\* sam3_encode_vit_from_preprocessed_selective: the backbone alone.  A tensor
\* asked for by a wrong name ends it like "no_ctx", with the context freed.
EncodeVit(m, outcome) ==
    /\ Called
    /\ m \in loaded /\ state[m].exists
    /\ Sam3(m) /\ state[m].size = "native"
    /\ \/ EncodeFails(m, outcome)
       \/ /\ outcome = "ok"
          /\ Succeeds(m, Feature(m),
                 [ClearEncoder(state[m]) EXCEPT !.vit = call', !.pe_cache_valid = FALSE])
    /\ probed' = {<<m, active>>}
    /\ read' = {}
    /\ UNCHANGED <<loaded, active>>

-----------------------------------------------------------------------------
(* Segmenting it. *)

\* What sam3_segment_pcs refuses: a model without text head, and a state whose
\* last successful encoding left no detector features.
HasDetector(m) == Kind[m] = "sam3" /\ state[m].neck_det # 0

\* The five sub-graphs of sam3_segment_pcs are computed one by one, each with
\* memory of its own; whichever fails ends the call with no detections.
SegmentPcs(m, outcome) ==
    /\ Called
    /\ outcome # "no_ctx"   \* a context that cannot be had is not checked for
    /\ m \in loaded /\ state[m].exists
    /\ active' = m
    /\ IF HasDetector(m)
       THEN /\ read' = Blocks(Feature(m), m, state[m].neck_det)
                         \cup Blocks(PeBlocks, m, state[m].pe)
            /\ heap' = heap \cup Leaked(m, outcome)
            /\ probed' = {<<m, m>>}
       ELSE read' = {} /\ UNCHANGED <<heap, probed>>
    /\ UNCHANGED <<loaded, state>>

\* sam3_segment_pvs: one graph, and the prompt encoder's cache filled once the
\* graph is allocated.
SegmentPvs(m, outcome) ==
    /\ Called
    /\ m \in loaded /\ state[m].exists
    /\ active' = m
    /\ IF state[m].neck_trk # 0
       THEN /\ read' = IF outcome \in {"no_ctx", "no_memory"} THEN {}
                       ELSE Blocks(Feature(m), m, state[m].neck_trk)
            /\ heap' = heap \cup Leaked(m, outcome)
            /\ state' = [state EXCEPT ![m].pe_cache_valid =
                            @ \/ outcome \notin {"no_ctx", "no_memory"}]
            /\ probed' = IF outcome = "no_ctx" THEN {} ELSE {<<m, m>>}
       ELSE read' = {} /\ UNCHANGED <<heap, state, probed>>
    /\ UNCHANGED loaded

Next ==
    \E m \in Models :
        \/ \E outcome \in {"bad_file", "no_memory", "bad_tensors", "ok"} : LoadModel(m, outcome)
        \/ FreeModel(m)
        \/ \E size \in Sizes, rope_fits \in BOOLEAN : CreateState(m, size, rope_fits)
        \/ \E size \in Sizes : CreateStateFails(m, size)
        \/ FreeState(m)
        \/ \E outcome \in Outcomes :
              \/ EncodeImage(m, outcome)
              \/ EncodePreprocessed(m, outcome)
              \/ EncodeVit(m, outcome)
        \/ \E outcome \in Outcomes \ {"no_pe"} :
              \/ SegmentPcs(m, outcome)
              \/ SegmentPvs(m, outcome)

Spec == Init /\ [][Next]_vars

-----------------------------------------------------------------------------
(* Properties. *)

AllBlocks == {"backend", "weights_ctx", "weights", "rope_ctx", "rope", "ctx", "galloc",
              "feat_ctx", "feat_buf", "pe_ctx", "pe_buf"} \X Models \X (1..MaxCalls)

TypeOK ==
    /\ pcs_only \in BOOLEAN
    /\ loaded \subseteq Models
    /\ active \in Models \cup {NoModel}
    /\ \A m \in Models :
           /\ state[m].exists => m \in loaded
           /\ state[m].size \in Sizes
           /\ {state[m].dims, state[m].vit, state[m].neck_det, state[m].neck_trk, state[m].pe}
                 \subseteq 0..call
           /\ state[m].own \subseteq AllBlocks
    /\ heap \subseteq AllBlocks
    /\ call \in 0..MaxCalls

\* Between two calls, memory is held by a model that is loaded or by a state
\* that exists, each block by one of them: no way out of a call leaks, and none
\* frees what the state goes on using.
NothingLeaks ==
    heap = {b \in heap : b[1] \in ModelBlocks /\ b[2] \in loaded}
             \cup UNION {state[m].own : m \in Models}

\* The buffer of the position encodings could not be had: the encoder says so in
\* the log, returns true, and leaves a context without memory and the pointers as
\* they were, to the encodings of an image before, which it has freed, or to none.
LacksEncodings(s) ==
    /\ \E b \in s.own : b[1] = "pe_ctx"
    /\ \A b \in s.own : b[1] # "pe_buf"

\* What the state points to lies in memory the state holds, the encodings of a
\* state that lacks them excepted.
NothingDangles ==
    \A m \in Models :
        LET s == state[m]
        IN  /\ \A n \in {s.vit, s.neck_det, s.neck_trk} \ {0} : Blocks(Feature(m), m, n) \subseteq s.own
            /\ s.pe # 0 => Blocks(PeBlocks, m, s.pe) \subseteq s.own \/ LacksEncodings(s)

\* When the last encoding of a state returned true, all its features are of
\* that image, whose size is the one results are scaled to; and so are their
\* position encodings, unless the state lacks them.
FeaturesShowTheImage ==
    \A m \in Models :
        LET s == state[m]
        IN  s.ret => /\ {s.vit, s.neck_det, s.neck_trk} \subseteq {0, s.dims}
                     /\ s.pe \in {0, s.dims} \/ LacksEncodings(s)

\* A segmentation reads no null and no freed tensor, in any order of calls, and
\* no pointer is left into freed memory for the next one to read: after every
\* failure but the one of the encodings' buffer, whose encodings alone are read
\* where they are not (EncodingsSurvive).
ReadsAreLive ==
    /\ \A b \in read \ heap : b[1] \in PeBlocks /\ LacksEncodings(state[b[2]])
    /\ NothingDangles

\* What a comment in the encoders says: "PEs live in a separate buffer so they
\* survive gallocr teardown".  They do not survive the failure to allocate the
\* next ones: a segmentation then reads freed tensors, or null ones.
EncodingsSurvive == read \subseteq heap

\* What the comment in sam3_create_state says: a SAM 3 grid off the model's own
\* "must be a whole multiple of 24" (and worker.cpp: sam3_create_state "rejects
\* anything else").  It warns of a partial window and goes on.
OnlyWholeGrids ==
    \A m \in Models : state[m].exists /\ Sam3(m) => state[m].size \in {"native", "whole"}

\* The active backend is one that is alive: a model freed or half-loaded never
\* stays behind as the one to ask.
ActiveIsLoaded == active \in loaded \cup {NoModel}

\* What the comment on g_sam3_active_backend says: it is "parked here by every
\* public entry point that builds a graph".  sam3_encode_vit_from_preprocessed_
\* selective does not.
EveryEntryParks == \A p \in probed : p[1] = p[2]
=============================================================================
