---------------------------- MODULE WorkerModels ----------------------------
(***************************************************************************)
(* The inside of the worker process: one device and one lazily loaded slot *)
(* per model family, the two heavyweights (matting and SAM 3) evicting     *)
(* each other, and the compute graph each slot keeps for one resolution.   *)
(*                                                                         *)
(* The process has one thread.  A handler is several steps here because    *)
(* what is resident in between is what the VRAM budget is about, and       *)
(* because a step that fails leaves what the steps before it did.          *)
(***************************************************************************)
EXTENDS Extents

CONSTANTS
    Configured,      \* families given a model path
    TokenizerGiven,  \* SIGLIP_TOKENIZER_PATH is set
    FileSize,        \* image_size in each model file; -1: a dynamic BiRefNet
    Multiple,        \* image_multiple of the model files
    MaxAlloc,        \* backend_device::max_alloc, in bytes
    Resolutions,     \* values of process_res / image_size in a request
    ImageExtents     \* sizes of the images sent

GraphModels == {"matting", "depth2", "depth3"}
Families    == GraphModels \cup {"siglip", "sam3"}
SiglipOps   == {"embed", "text", "classify"}

ASSUME WorkerAssumption ==
    /\ Configured \subseteq Families
    /\ TokenizerGiven \in BOOLEAN
    /\ FileSize \in [GraphModels -> Int]
    /\ \A m \in GraphModels : FileSize[m] > 0 \/ (m = "matting" /\ FileSize[m] = -1)
    /\ Multiple \in Nat \ {0}
    /\ MaxAlloc \in Nat
    /\ Resolutions \subseteq Int
    /\ ImageExtents \subseteq (Nat \ {0}) \X (Nat \ {0})

VARIABLES
    pc,       \* where run_worker is
    job,      \* the request being handled
    model,    \* the slots matting, depth2, depth3 and their graphs
    native,   \* matting_native_size, depth2_native_size, depth3_native_size
    sam3,     \* sam3 and sam3_state
    siglip,   \* siglip, siglip_vision, siglip_text, siglip_tokenizer
    last      \* the extent the last successful compute ran at, and its job

vars == <<pc, job, model, native, sam3, siglip, last>>

(***************************************************************************)
(* Types.                                                                  *)
(***************************************************************************)
Extent == Int \X Int
NoExtent == <<0, 0>>

Job == [family : Families, res : Resolutions \cup {0}, image : Extent,
        op : SiglipOps]
NoJob == [family |-> "siglip", res |-> 0, image |-> NoExtent, op |-> "embed"]

\* graph "unallocated": compute_graph_init ran, compute_graph_allocate threw.
Empty == [loaded |-> FALSE, image_size |-> 0, extent |-> NoExtent,
          graph |-> "none"]
Slot == {Empty} \cup [loaded : {TRUE}, image_size : Int, extent : Extent,
                      graph : {"none", "unallocated", "ready"}]

\* "null": the unique_ptr is empty.  "empty": an object whose load failed.
Siglip == [model : {"null", "loaded"}, vision : {"null", "empty", "loaded"},
           text : {"null", "empty", "loaded"},
           tokenizer : {"null", "empty", "loaded"}]
NoSiglip == [model |-> "null", vision |-> "null", text |-> "null",
             tokenizer |-> "null"]

TypeOK ==
    /\ pc \in {"boot", "recv", "evict", "load", "state", "infer", "exited",
               "crashed"}
    /\ job \in Job
    /\ model \in [GraphModels -> Slot]
    /\ native \in [GraphModels -> Int]
    /\ sam3 \in {"absent", "model", "ready"}
    /\ siglip \in Siglip
    /\ last \in [job : Job, extent : Extent]

Init ==
    /\ pc = "boot"
    /\ job = NoJob
    /\ model = [m \in GraphModels |-> Empty]
    /\ native = [m \in GraphModels |-> 0]
    /\ sam3 = "absent"
    /\ siglip = NoSiglip
    /\ last = [job |-> NoJob, extent |-> NoExtent]

-----------------------------------------------------------------------------
(***************************************************************************)
(* Loading.                                                                *)
(***************************************************************************)
ImageExtent(m, image, size) ==
    CASE m = "matting" -> BirefnetExtent(image, size, Multiple, MaxAlloc)
      [] m = "depth2"  -> DepthanyExtent(image, size, Multiple)
      [] m = "depth3"  -> Depthany3Extent(image, size, Multiple)

\* What *_load_model leaves in the slot; it has no graph yet.
Loaded(m) == [loaded |-> TRUE, image_size |-> FileSize[m], extent |-> NoExtent,
              graph |-> "none"]

LoadGraphModel(m) ==
    /\ model' = [model EXCEPT ![m] = Loaded(m)]
    /\ native' = [native EXCEPT ![m] = FileSize[m]]

\* run_worker: load_matting at start-up, then HELLO; ERR and exit if it fails.
Boot ==
    /\ pc = "boot"
    /\ IF "matting" \in Configured
       THEN LoadGraphModel("matting")
       ELSE UNCHANGED <<model, native>>
    /\ pc' = "recv"
    /\ UNCHANGED <<job, sam3, siglip, last>>

BootFails ==
    /\ pc = "boot"
    /\ pc' = "exited"
    /\ UNCHANGED <<job, model, native, sam3, siglip, last>>

\* A reply, OK or ERR, ends the handler; the loop comes round with a new frame.
Reply == pc' = "recv" /\ job' = NoJob

\* A well-formed request frame arrives.  (A malformed one is answered with ERR
\* before anything is touched.)
Receive ==
    /\ pc = "recv"
    /\ \E f \in Families, r \in Resolutions, x \in ImageExtents, o \in SiglipOps :
         job' = [family |-> f, res |-> IF f \in GraphModels THEN r ELSE 0,
                 image |-> x, op |-> IF f = "siglip" THEN o ELSE "embed"]
    /\ pc' = "evict"
    /\ UNCHANGED <<model, native, sam3, siglip, last>>

\* The parent closed the socket, or sent SHUTDOWN.
Exit ==
    /\ pc = "recv"
    /\ pc' = "exited"
    /\ UNCHANGED <<job, model, native, sam3, siglip, last>>

Resident(f) ==
    CASE f = "siglip" -> siglip.model = "loaded"
      [] f = "sam3"   -> sam3 # "absent"
      [] OTHER        -> model[f].loaded

\* The early return of every load_*: the slot is taken to be complete.
AlreadyLoaded ==
    /\ pc = "evict" /\ Resident(job.family)
    /\ pc' = "infer"
    /\ UNCHANGED <<job, model, native, sam3, siglip, last>>

NotConfigured ==
    /\ pc = "evict" /\ ~Resident(job.family)
    /\ job.family \notin Configured
    /\ Reply
    /\ UNCHANGED <<model, native, sam3, siglip, last>>

\* unload_sam3 / unload_matting, before the peer is loaded.
\* Mutant: load_sam3 does not evict matting.
EvictPeerOneWay(f) ==
    /\ sam3' = IF f = "matting" THEN "absent" ELSE sam3
    /\ UNCHANGED <<model, native>>

\* Mutant: the weights are dropped, the graph over them is not.
EvictPeerKeepsGraph(f) ==
    /\ sam3' = IF f = "matting" THEN "absent" ELSE sam3
    /\ model' = [model EXCEPT !["matting"].loaded = @ /\ f # "sam3"]
    /\ UNCHANGED native

EvictPeer(f) ==
    /\ sam3' = IF f = "matting" THEN "absent" ELSE sam3
    /\ model' = IF f = "sam3" THEN [model EXCEPT !["matting"] = Empty] ELSE model
    /\ native' = IF f = "sam3" THEN [native EXCEPT !["matting"] = 0] ELSE native

Evict ==
    /\ pc = "evict" /\ ~Resident(job.family)
    /\ job.family \in Configured
    /\ EvictPeer(job.family)
    /\ pc' = "load"
    /\ UNCHANGED <<job, siglip, last>>

LoadGraph ==
    /\ pc = "load" /\ job.family \in GraphModels
    /\ LoadGraphModel(job.family)
    /\ pc' = "infer"
    /\ UNCHANGED <<job, sam3, siglip, last>>

\* sam3_load_model gives a model; one without a text head is dropped again.
LoadSam3Model ==
    /\ pc = "load" /\ job.family = "sam3"
    /\ sam3' = "model"
    /\ pc' = "state"
    /\ UNCHANGED <<job, model, native, siglip, last>>

LoadSam3State ==
    /\ pc = "state"
    /\ sam3' = "ready"
    /\ pc' = "infer"
    /\ UNCHANGED <<job, model, native, siglip, last>>

\* Mutant: the failed state allocation does not reset the model.
KeepSam3Model == "model"
DropSam3 == "absent"

LoadSam3StateFails ==
    /\ pc = "state"
    /\ sam3' = DropSam3
    /\ Reply
    /\ UNCHANGED <<model, native, siglip, last>>

\* load_siglip fills four slots in order and throws at the first that fails.
SiglipPartial ==
    {NoSiglip,
     [NoSiglip EXCEPT !.model = "loaded", !.vision = "empty"],
     [NoSiglip EXCEPT !.model = "loaded", !.vision = "loaded", !.text = "empty"],
     [model |-> "loaded", vision |-> "loaded", text |-> "loaded",
      tokenizer |-> IF TokenizerGiven THEN "empty" ELSE "null"]}

SiglipComplete == [model |-> "loaded", vision |-> "loaded", text |-> "loaded",
                   tokenizer |-> "loaded"]

LoadSiglip ==
    /\ pc = "load" /\ job.family = "siglip" /\ TokenizerGiven
    /\ siglip' = SiglipComplete
    /\ pc' = "infer"
    /\ UNCHANGED <<job, model, native, sam3, last>>

\* Any load may throw; only load_siglip leaves something behind when it does.
LoadFails ==
    /\ pc = "load"
    /\ siglip' \in (IF job.family = "siglip" THEN SiglipPartial ELSE {siglip})
    /\ Reply
    /\ UNCHANGED <<model, native, sam3, last>>

-----------------------------------------------------------------------------
(***************************************************************************)
(* Inference of the matting and depth networks.  The resolution is set on  *)
(* every request: a 0 goes back to the model's own.  Matting keeps its     *)
(* image_size untouched when it is a dynamic model.                        *)
(***************************************************************************)
ImageSize(m) ==
    IF m = "matting" /\ native[m] <= 0 THEN model[m].image_size
    ELSE IF job.res > 0 THEN job.res ELSE native[m]

WantedExtent(m) == ImageExtent(m, job.image, ImageSize(m))

\* Mutant: a graph once built is kept for every resolution.
NoGraph(m) == model[m].graph = "none"
NeedsGraph(m) ==
    model[m].graph = "none" \/ WantedExtent(m) # model[m].extent

SetModel(m, graph) ==
    model' = [model EXCEPT ![m] =
                [loaded |-> TRUE, image_size |-> ImageSize(m), graph |-> graph,
                 extent |-> IF NeedsGraph(m) THEN WantedExtent(m)
                            ELSE model[m].extent]]

\* The graph fits (after a rebuild if need be), and the network runs.
Compute(m) ==
    /\ pc = "infer" /\ job.family = m
    /\ NeedsGraph(m) \/ model[m].graph = "ready"
    /\ SetModel(m, "ready")
    /\ last' = [job |-> job, extent |-> model'[m].extent]
    /\ Reply
    /\ UNCHANGED <<native, sam3, siglip>>

\* compute_graph_allocate throws: ERR.  The new extent and the graph without
\* memory stay in the slot.
AllocateFails(m) ==
    /\ pc = "infer" /\ job.family = m
    /\ NeedsGraph(m)
    /\ SetModel(m, "unallocated")
    /\ Reply
    /\ UNCHANGED <<native, sam3, siglip, last>>

\* A graph without memory is taken for usable: ggml aborts the process.
ComputeUnallocated(m) ==
    /\ pc = "infer" /\ job.family = m
    /\ ~NeedsGraph(m) /\ model[m].graph = "unallocated"
    /\ pc' = "crashed"
    /\ UNCHANGED <<job, model, native, sam3, siglip, last>>

\* /parts encodes and decodes within sam3_state.
Segment ==
    /\ pc = "infer" /\ job.family = "sam3" /\ sam3 = "ready"
    /\ Reply
    /\ UNCHANGED <<model, native, sam3, siglip, last>>

\* embed uses the vision tower, text the tokenizer and the text tower,
\* classify all of them.  An object that is there but empty reports an error.
NullDeref == job.op # "embed" /\ siglip.tokenizer = "null"
                /\ (job.op = "classify" => siglip.vision = "loaded")

Embed ==
    /\ pc = "infer" /\ job.family = "siglip" /\ ~NullDeref
    /\ Reply
    /\ UNCHANGED <<model, native, sam3, siglip, last>>

EmbedCrashes ==
    /\ pc = "infer" /\ job.family = "siglip" /\ NullDeref
    /\ pc' = "crashed"
    /\ UNCHANGED <<job, model, native, sam3, siglip, last>>

Next ==
    \/ Boot \/ BootFails \/ Receive \/ Exit
    \/ AlreadyLoaded \/ NotConfigured \/ Evict
    \/ LoadGraph \/ LoadSam3Model \/ LoadSam3State \/ LoadSam3StateFails
    \/ LoadSiglip \/ LoadFails
    \/ \E m \in GraphModels : Compute(m) \/ AllocateFails(m) \/ ComputeUnallocated(m)
    \/ Segment \/ Embed \/ EmbedCrashes

Spec == Init /\ [][Next]_vars

-----------------------------------------------------------------------------
(***************************************************************************)
(* Properties.                                                             *)
(***************************************************************************)

\* "The two models never stack": matting and SAM 3 are never resident
\* together, not even while the one is loading after the other was evicted
\* or when a load fails half-way.
PeersNeverStack == ~(model["matting"].loaded /\ sam3 # "absent")

\* Once SAM 3 counts as loaded between requests it has its state: no failure
\* leaves a model that the next /parts would dereference a null state of.
Sam3IsWhole == pc \in {"recv", "evict"} => sam3 # "model"

\* Every computation ran at the resolution its own request asked for, or at
\* the model file's own when it asked for none, whatever resolutions came
\* before it and however often the model was evicted and reloaded.
OwnResolution ==
    LET j == last.job
        size == IF j.res > 0 /\ FileSize[j.family] > 0 THEN j.res
                ELSE FileSize[j.family]
    IN  j.family \in GraphModels =>
            last.extent = ImageExtent(j.family, j.image, size)

(***************************************************************************)
(* What comments say and the code does not do.                             *)
(***************************************************************************)

\* worker.cpp: "one lazily-loaded slot per model family".  A failed load_siglip
\* leaves part of the slot, which the next request takes for all of it.
SiglipIsWhole == pc = "recv" => siglip \in {NoSiglip, SiglipComplete}

\* vision.cpp keeps a graph to reuse it; a kept graph should have its memory.
KeptGraphsAreReady ==
    pc = "recv" => \A m \in GraphModels : model[m].graph # "unallocated"
=============================================================================
