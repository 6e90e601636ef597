# hbd-vision: a TLA+ verification project

hbd-vision is a C++ inference library on top of ggml (`src/src/visp`,
`src/include/visp`), with a command line tool, a C API with a Python binding,
and a server (`src/src/server`) that offers matting, depth estimation, image and
text embedding and part segmentation over HTTP. The server is where the program
is concurrent and where it fails in pieces: handler threads share one worker
process that is spawned, killed, evicted and talked to over a socketpair. This
project starts there and works inwards: to the models a worker keeps, and to the
segmentation engine it drives (`src/depend/sam3`), which is the largest part of the
repository, tracks objects through a video, manages device memory by hand and builds
some thirty networks out of shapes that have to agree.

* [The system](#the-system)
* [Modules](#modules)
* [How the model corresponds to the code](#how-the-model-corresponds-to-the-code)
* [What is checked](#what-is-checked)
* [Bounds and fairness](#bounds-and-fairness)
* [What is proved](#what-is-proved)
* [Where the code and its words part](#where-the-code-and-its-words-part)
* [What is not modelled](#what-is-not-modelled)
* [Plan](#plan)

## The system

```
 HTTP client --> handler threads --mtx--> worker_pid/fd --socketpair--> worker process
                     |   ^                    ^                          slots: matting
                in_flight|last_request_ms     |                                 depth2, depth3
                     v   |                    |                                 siglip (4 parts)
                 watchdog thread --try_lock---+                                 sam3 + state
```

| Component | State it keeps | Operations | Hard because | Correct if |
|---|---|---|---|---|
| **Server process** (`server_state.*`, `main.cpp`) | `mtx`, worker handle (`worker_pid`, `worker_fd`, `worker_bt`, `worker_gpu`, `worker_backend_name`), `next_gpu`, `in_flight`, `last_request_ms` | `ensure_worker_locked`, `request_locked`, `kill_worker_locked`, `/unload`, `/v1/admin/load`, watchdog | threads interleave; the worker may die at any point; start-up has many error paths; eviction races arrivals | one worker at a time, nothing leaked, handle true, evicted only at rest, and evicted in the end |
| **Endpoints** (`*_endpoints.cpp`) | one request each, `InFlightGuard` | validate, lock, ensure, exchange frames, answer | every early return and exception must undo the counter; a batch spans many exchanges | counted exactly while served; the batch stays on one worker |
| **IPC** (`server_ipc.*`) | bytes in the socketpair | `send_frame`, `recv_frame`, `spawn_worker` | `req_id` is never compared; no timeout; payload limit | the reply read is the reply to the frame sent; every exchange ends |
| **Worker** (`worker.cpp`) | one lazily loaded slot per family | `load_*`, `unload_*`, `handle_*` | heavy models evict each other; loads fail half-way; resolution is a per-request change of a shared model | heavy models never stack; a slot is whole; each request gets its own resolution |
| **Library run-time** (`vision.cpp`, `ml.cpp`) | model parameters and a cached compute graph | `*_compute` | the graph is rebuilt only when the extent changes; allocation may throw | the graph run is the one for this input, and has memory |
| **Input extents** (`arch/*.cpp`, `util/math.h`) | none | `*_image_extent` | integer rounding | multiples of the patch size, bounded |
| **Upscaling** (`esrgan_compute`) | cached graph, `tile_size`; per call the tile buffers and the output | tile, convert, compute, merge | the loop reuses buffers and the model reuses graphs | no visible seam; every tile runs on a graph of its size |
| **SAM 3 tracker** (`sam3.cpp`, `sam3_tracker`) | masklets and candidates, a memory bank and a pointer bank for each id, `frame_index`, `next_inst_id` | `sam3_track_frame`, `sam3_propagate_frame`, `sam3_tracker_add_instance`, `sam3_refine_instance`, `sam3_tracker_reset` | objects are found, confirmed, hidden and lost over many frames, in separate loops over two vectors; any graph may fail | banks in order and bounded; ids without a past; nobody overdue; nothing reported twice |
| **SAM 3 state** (`sam3_model`, `sam3_state`) | device buffers, feature tensors, cached position encodings, the active backend | load, create, encode (three families, two entry points), segment, clear, free | every function allocates several blocks and has an exit after each; the state's pointers outlive them | freed exactly once; features are those of the image they claim; nothing freed is read |
| **SAM 3 networks** | weights by shape; per graph its inputs | build, upload inputs by name, compute, read | sizes are derived from the image size in many places; ggml aborts the process when two do not agree | no assertion fails, inputs are written whole, reads fit their buffers |
| **SAM 3 pure functions** | none | masks, boxes, window layouts, tokenizer | borders, padding, ties, bytes of UTF-8 | see `MCAlgorithms` |
| **Image operations** (`image.cpp`) | none | tiling, conversion, blur, erosion | borders, overlap | tiles cover the image, weights sum to one |
| **siglip2** (`preproc.cpp`, `tokenizer.cpp`) | loaded towers, tokenizer | resize to a budget of patches, patchify, tokenize, embed | searches and rounds; borders; texts longer than the context | the budget is used and kept; patches are the image; texts end |
| **MobileSAM, MI-GAN, C API, Python, CLI** | see *What is not modelled* | | | |

The parts interact as follows. A handler thread counts itself in `in_flight`,
touches `last_request_ms`, validates its request, takes `mtx`, sets `next_gpu`
if the request names a card, has `ensure_worker_locked` find or replace the
worker, exchanges one frame per image with `request_locked`, releases `mtx`,
composes its answer and uncounts itself. The watchdog looks at the counter and
the clock, first without and then with the lock, and kills. The worker is a
single-threaded loop over its end of the socket. The only things that cross from
one process to the other are frames, command line flags, the environment, and
the end of the stream.

`PROJECT.json` lists every hazard of this code at its line, with the property
that would catch it going wrong.

## Modules

| Module | Models |
|---|---|
| `DeviceService` | the abstract specification: what the server promises about its one device |
| `VisionServer` | the parent process: handler threads, mutex, worker handle, watchdog, kernel process table, socketpairs, and the worker as seen from its socket |
| `MCVisionServer` | small instances of it |
| `VisionSystem`, `MCVisionSystem` | the whole server: `VisionServer` with `WorkerModels` inside its worker |
| `VisionSystemProofs` | the inductive invariant and theorems of `VisionServer`; that it implements `DeviceService`, and what handle, sockets and watchdog promise; that the whole server is a `VisionServer`, and when its worker answers |
| `Extents` | the resolution each network computes at, as functions of image and model |
| `WorkerModels` | the inside of the worker: slots, mutual eviction, partial loads, per-request resolution, cached graphs |
| `MCWorkerModels` | small instances of it |
| `WorkerModelsProofs` | its inductive invariant and theorems |
| `Tiling` | `tile_layout`, `tile_scale` and the blending weights of `tile_merge`, along one axis |
| `Upscale` | `esrgan_compute`: the tile loop, the buffers, the merged image and the graph kept between images; built on `Tiling` |
| `MCUpscale` | small instances of it |
| `UpscaleProofs` | what a layout of tiles promises along one axis, and the inductive invariant and theorems of the whole loop |
| `Sam3Tracker`, `MCSam3Tracker` | the video tracker: objects, their status and their banks, frame by frame |
| `Sam3TrackerProofs` | its inductive invariant and theorems |
| `Sam3Session`, `MCSam3Session` | models, states and device memory: what each call allocates, keeps and frees on each way out |
| `Sam3SessionProofs` | their inductive invariant and theorems |
| `Ggml` | external: the shape rules and assertions of the ggml operations that the networks are built of |
| `Sam3Weights` | the shapes of all weights, as the three families register them |
| `Sam3Graphs` | the image encoders (ViT, Hiera, RepViT) and the text encoder as functions on shapes |
| `Sam3Heads` | geometry encoder, fusion, box decoder, segmentation head, mask decoder |
| `Sam3Memory` | memory encoder, perceiver, memory attention |
| `Sam3Networks`, `MCSam3Networks` | the state machine that builds these graphs layer by layer, sends their inputs, runs and reads them |
| `Sam3NetworksProofs` | what each part of the networks does to extents, for every extent, and the inductive invariant and theorems of the state machine |
| `Sam3Masks` | clean-up, overlaps, suppression, boxes, prompt tokens |
| `Sam3Layouts` | window partitions, resampling, image layouts: where each element goes |
| `Sam3Text` | the CLIP tokenizer |
| `ImageFilters` | box blur, erosion and mask offset |
| `Siglip2` | target size, resizing filter, patches and token ids of siglip2 |
| `MCAlgorithms` | the last five and `Extents` on all inputs of a small size |
| `ImageProofs` | what the functions of extents, layouts, samplers, filters, masks, boxes and blurs do for every size |
| `TextProofs` | what the tokenizers do with every text, vocabulary and context length |

`VisionSystem` composes the first two state machines. Each has the other as a
nondeterministic environment: to `VisionServer` a worker is `OK`, `ERR`, silence or
death, to `WorkerModels` a parent is any family at any time. In `VisionSystem` every step
of the worker is a step of both: `Boot` with HELLO, `Receive` with the frame taken off
the socket, `Reply` with the frame sent, a crash with the death the parent sees as the
end of the stream, and a new process with a new memory. `Upscale` is a third
one, of a library call the CLI and the C API make and the server does not. `LoadSam3Model`
and `LoadSam3State` of WorkerModels are `LoadModel` and `CreateState` of Sam3Session
seen from the worker. Sam3Tracker takes from the networks only whether a graph failed
and what its mask shows; Sam3Session, only whether it failed; Sam3Networks gives the
graphs themselves and nothing of objects or memory. No RECURSIVE operator is used, so
all can be proved about.

## How the model corresponds to the code

Grain. Between two synchronisation points (lock, unlock, an atomic, a blocking
system call) a thread's work is one action. `ensure_worker_locked` is one action
up to the fork and one more for what `recv_frame` finds (`EnsureWarm`,
`EnsureSpawn`, `EnsureForkFails`; `HelloArrives`, `HelloFails`). It never gives up
the lock in between, but the *watchdog* and arriving requests run meanwhile, and
the worker does. `request_locked` is a send and a receive (`Send`, `SendFails`;
`Recv`, `RecvError`, `RecvFails`), repeated for each image of the request. A reply of
the right type may still be of the wrong size, which kills the worker (`ChecksSizes`), or
hold what its reader does not take, JSON that does not parse or a mask of another extent,
which does not (`ReadsContent`); either may happen to any such reply. The
counter and the clock are changed by `Arrive`, `Respond`, `Leave`: they are
atomics, not under the lock, exactly where the code changes them. `respond` is where an
answer is composed without the lock: after a success in every endpoint that reads
`worker_backend_name` for it, `/v1/admin/load` included, which has no guard and touches
no clock, and in the siglip routes after a failure too, since they touch the clock either
way.

State. Frames are their type and the <<thread, image>> they belong to, which is
what `req_id` would identify had anybody compared it. A pid names the socketpair
made for it as well. `proc` is the kernel's table of our children: `none`
(free), `loading`, `ready`, `busy`, `dead` (exited and not waited for). A pid that
has been waited for may be handed out again. Time is the ticks since
`last_request_ms`, no more than `Threshold`.

What the environment does. A worker may die in any state (`WorkerDies`): an abort
in ggml, the OOM killer. It loses what it has not read. Start-up may fail with
`ERR` or silently; `fork` and `socketpair` may fail; a request may exceed the
payload limit (`big_request`), and so may a reply (`big_reply`).

Configuration. `load_config` takes each model path from the environment or from a
flag. The worker is exec'ed with the environment and with the flags that
`ensure_worker_locked` writes for it. `CliModels`, `EnvModels`, `WorkerArgs` and
`WorkerConfig` follow the two ways separately, because they do not agree
(see below).

The worker inside. `WorkerModels` has one thread, but each handler is several steps:
evict the peer, load the weights, allocate the state, build the graph, compute.
What is resident in between is what the VRAM budget is about, and a step that
fails leaves what was done before it. In `VisionSystem` these steps are the progress of a
busy worker (`Prepare`), and `harm` remembers that a load, an allocation or an encoding
failed since the process started. `Resident` is the early return at the top
of each `load_*`, which looks at one member of a slot. `model` keeps
`image_size` (the mutable parameter), `extent` (of the cached graph) and whether
the graph has memory; `native` is the `*_native_size` remembered at load time.
`Extents` computes the resolutions with the code's own integer arithmetic, except
that `lround` of a double quotient in `round_to_patch` is taken exactly, and so is the
square root by which `birefnet_image_extent` reduces an image whose largest layer exceeds
the device's `max_alloc` (`Scaled`).

Upscaling. `Upscale` has one action per call that `esrgan_compute` makes in its
loop: `Convert` (`image_u8_to_f32`), `Compute`, `TileMerge`. The model's `graph`,
`tile_size` and input tensor outlive the call; `input_tile` and `output` do not.
Of the pixels only the weight received is kept. `tile_merge` works on floats,
`weight / norm` with `norm` up to (overlap + 1)^2; the model counts in units of
1 / (overlap + 1)^2, where every such quotient is a whole number, so what it says
is exact arithmetic and leaves float rounding out. A weight that is not positive
*replaces* the pixel, as in the code.

The device service. `DeviceService` knows threads that wait for the device, hold it or
fail, what each asked for, and which worker is in place; no process, socket, pid,
counter or clock. A handler thread is `waiting` while it is `queued`, `holding` at every
label inside the locked region, `failing` on its way out of it after an exception; the
worker in place is the one in the handle. The step from the mutex to the worker, a
failed start, the death of a process that nobody has noticed yet, the watchdog's
unlocked look: all of these are stutters or one abstract step, which
`ServesTheDevice` says.

The tracker. One action per public call; `sam3_track_frame` is all of it, from
propagation to `sam3_update_tracker`. A network is what it can answer about an object
on a frame (`fail`, `blank`, `hidden`, `seen`), a mask is the thing it shows, and
IoU above the threshold is showing the same thing. Which memory graphs failed is
`kept`. Banks are sequences of slots and of frames, as in the code, and so is what is
dropped when one is full. `result` and `shown` are what the call returned and a history
of what it propagated.

Memory of the engine. A block is named by what it is, whose, and the call that allocated
it, so that a second free, a leak and a dangling pointer can be told apart. `Outcomes`
are the exits of an encoding (no context, no memory, no computation, no position
encodings, success); the blocks that exist at each exit and those it frees come from the
code. The exit without position encodings is one the caller cannot tell from success: the
encoder logs the failure and returns true (6577-6581, 7862-7864), having freed the old
buffer. `LacksEncodings` is a state after it. The C++ deleters of model and state are actions of their own, guarded by the order
the worker destroys them in (`MayFree`).

Networks. A tensor is its four extents and its strides. Each operation of ggml is its
shape rule with its assertions; a failed one is `NoTensor`, which spreads. A graph is
built by the state machine one layer at a time, in the code's order, with the weights'
shapes from the registration functions; then its inputs are sent by name
(`ggml_get_tensor` finds the first of a name), it runs, and results are read into
buffers whose size the code computes from the state. `FlashKernel` is whether the device
has the fused kernel: `sam3_attn_ext` falls back to explicit scores, whose mask must have
other extents. hparams are those in the struct and the file header's native values.

Text. `Tokenize` is `sam3_tokenize` from the bytes of a prompt to the ids of its context:
white space, words, merges, the vocabulary, the frame of start and end, cut and padding. A
character stands for the bytes of its encoding, which `ByteEncoder` keeps apart. A token
that the vocabulary lacks is dropped (`KnownIds`; the comment at 1729 knows, since CLIP's
vocabulary has all bytes), words at the end of a long prompt are cut, and the token whose id
is 0 is masked as if it were padding (10111): `ContextIsFramed` says so where it says
everything else arrives.

Overlaps. `sam3_resolve_overlaps` returns early when the first detection has no mask. Its two
callers pass detections that `add_mask_to_result` made, which leaves out those without a
mask, so that return is left out of `ResolveOverlaps`.

Filters and siglip2. A blurred value is kept as the sum it is the mean of, a filter
weight and a scale as integers over a common denominator, so all sums are exact: what is
said is about indices, borders and searches and not about rounding. The two passes of
`blur` carry the running sum of the code, not the window they stand for.

`"map"` in PROJECT.json names the source lines of every definition.

## What is checked

| Run | Question | States |
|---|---|---|
| `MCVisionServer` | Two threads calling `/remove`, the siglip routes and `/v1/admin/load` on both backends, with and without a card, against `/unload`, the watchdog, fork and load failures, oversize requests, malformed replies and death of the worker anywhere. One worker, no leak, handle true, replies matched, counter exact, eviction at rest, a batch on one worker; and every step is one of `DeviceService`. | 421 k |
| `MCVisionSystem` | One client calling `/remove`, `/depth`, the siglip routes and `/parts`, with models by flag and by environment, replies that fit and that do not, against the watchdog, `/unload` and every failure of fork, load, allocation and encoding. The worker does what `VisionServer` lets it, with its fairness; unharmed (no load, allocation, encoding or segmentation failed in it), it reports no error and does not crash. | 131 k |
| `MCVisionServerLive` | `/depth` with a model given by a flag, `/parts` with one given by the environment. Liveness under `FairSpec`: every queued request is answered; a server left alone loses its worker for good. | 52 k |
| `MCWorkerModels` | A worker without Depth Anything V2, asked for every family in every order (the matting one a dynamic BiRefNet), at resolutions -1, 0, below and above the native one, for landscape, square and narrow images, the square one too large for the device's allocations; every load and allocation allowed to fail. Matting and SAM 3 never stack; SAM 3 is never left without its state; each computation at its own resolution. | 884 k |
| `MCUpscale` | Images of one to nine tiles, from a single pixel to just above a multiple of the tile size, one after another on one model, with allocation allowed to fail. Weights add up to one, graphs fit their tiles, every tile shows. | 4 k |
| `MCSam3Tracker` | Two things in a video of three frames, two ids, banks of three: every outcome of every graph, every detection, refinements and resets in between. | 32 k |
| `MCSam3Session` | A SAM 3 and an EdgeTAM model with a state each, seven calls in any order, each ending in any of its ways, the one without position encodings among them. | 126 k |
| `MCSam3Networks` | Every graph of SAM 3 at 28, 41, 336, 500 and 1008 pixels, of SAM 2 at 256, 512 and 1024, of EdgeTAM at 256 and 1024, with and without flash attention and the object score, prompts without and with exemplars, one memory and all seven, no pointer and all sixteen. | 5 k |
| `MCAlgorithms` | Each pure function on every input of a small size, against what it is for. | 314 k |

The properties, and why each is not obvious:

* `OneWorker`: the old worker is gone before the new one exists, *dying* and
  *loading* ones included.
* `NothingLeaks`: unreaped children = open descriptors = the handle or the one
  being started. No path leaks, and no pid is signalled after it was reaped.
* `HandleIsTrue`: what `/health` reports about the worker is what it was started
  with, across respawns, failures and evictions.
* `RepliesMatch`: nothing is left in the socket from an exchange that ended in an
  error. This is the one thing that makes the unchecked `req_id` harmless.
* `ServesTheDevice` (refinement): requests for different backends and cards alternate
  on one handle, and `next_gpu` is shared; a frame is still computed where it was asked,
  the device has one holder, a request that lost its worker computes no more, and
  nobody exchanges a worker but its holder, or the watchdog and `/unload` while there is
  none.
* `BatchOnOneWorker` (action property): while a thread is between frames nobody
  replaces the worker under it.
* `InFlightCounts`: the counter that guards against eviction is exact.
* `EvictsAtRest`: after the check and before the kill no thread holds the lock, no frame
  is under way, and no guarded request is composing an answer (which reads
  `worker_backend_name` without the lock). `/v1/admin/load` is not guarded and is the
  exception (`NoAnswerUnderEviction`, below).
* `ServerAllows` (refinement, with fairness): in the assembled server each frame is
  answered once or ends with the process, on every path through the handlers, and a
  result comes only from a model the worker was given. The worker's many small steps are
  enough for the progress that `Answered` and `IdleEvicts` assume of it.
* `ErrorsAreEarned`: the parent's idea of what is configured is the worker's, and no
  order of loading, evicting and rebuilding leaves a worker that refuses or crashes: that
  takes a failure, and what the failure leaves behind ends with the process.
* `Answered`, `IdleEvicts`: liveness. `IdleEvicts` rests on the timed wait: the
  `notify_all` of `~InFlightGuard` is issued without the watchdog's mutex, can be
  lost, and does not occur in the model.
* `PeersNeverStack`, `Sam3IsWhole`, `OwnResolution`: see above.
* `BlendsToOne`: up to four tiles give a pixel its value, in four loop iterations,
  with integer ramps that have to meet exactly in layouts rounded three times.
* `GraphFitsTile`: images of different sizes often share a tile size, and an
  allocation may have failed in between.
* `EveryTileShows`: rounding up does not push the last tile out of the image,
  where it would be computed from a replicated border and thrown away.

* `MemoriesInOrder`: what the memory attention reads after any history: the slot the
  object was defined on first and never dropped, the rest in the order of their frames
  and none twice, but for frame 0 of an object added before any frame was tracked (its
  slot is made of frame 0, 12415-12416, and so is the one of the first propagation), each
  with its own row of the learned temporal table, which the code
  skips silently when it runs out; pointers bounded and none from the future.
* `FreshIdsHaveNoPast`: ids begin again at 1 after a reset.
* `NobodyOverdue`: the decision about a candidate and the end of an object come in the
  frame they are due, across calls that do not count frames.
* `ReportedOnce`: an object that was propagated *and* detected is not in the result as a
  new one too. `LostStaysLost` (action property): an object given up takes its banks
  along; the banks that stay behind (of candidates turned down) are never written again.
* `NothingLeaks` (Sam3Session): blocks alive between calls = those of the loaded models
  and of the states that exist. `FeaturesShowTheImage`: after a failed encode the old
  features stay, and the call says so; after one that returned true all are of the new
  image. `ReadsAreLive`: what a segmentation reads was
  allocated and not freed, and no pointer is left into freed memory. Both except the
  position encodings of a state that could not get a buffer for them, and nothing else:
  every other tensor is the right one in such a state too.
  `ActiveIsLoaded`: the global backend is never one that was freed.
* `NothingAborts`, `FeaturesFitTheState`, `TransfersFit`: shapes that are computed in
  different places (the image size, the state's grid, the neck's halvings, windows, the
  file) agree in every graph.
* `MasksAndBoxes`, `LayoutsAgree`, `PromptsArrive`, `ExtentsKeepTheImage`: one clean-up
  leaves neither hole nor sprinkle, although removing either may make the other; suppression keeps
  exactly the detections no kept better one covers; windows are squares of the map and
  come back as they were, for extents that do not divide; a prompt's words are the
  prompt, merging stops only when no merge is left, and each token the vocabulary has is in
  the context at its place, while there is room; extents are whole patches that
  keep the image's shape, and fit the device's allocations if they had to be reduced. In the same four: a blur by running sums is the mean of the
  square around each pixel up to the border, and an offset moves a border exactly that
  far; siglip2's filter weighs the pixels it shrinks alike and its patches are squares
  that hold every pixel once; a text is ended at any length; the size found by bisection
  keeps within the budget of patches and no scale a step larger would.

Every property has a mutant in PROJECT.json: a definition of the model changed the
way a plausible mistake in its code would, under which TLC finds the property
violated. The mutated forms stand beside the definitions, marked *Mutant*.

## Bounds and fairness

* **Threads, pids.** Two handler threads make every pairwise race; the watchdog
  and `/unload` come on top. Two pids in the safety run let a pid be reused and
  let an old and a new worker coexist if the code allowed it; `NothingLeaks` then
  says it does not, so the other runs need one. (The proofs drop both bounds.)
* **Batches.** `MaxBatch = 2` gives a first, a middle and a last exchange.
* **The assembled server.** One client, one card: a worker hears of one request at a time,
  and what several clients do to each other before that is `MCVisionServer`'s. All
  families but one, each in every order; one resolution and one image (`MCWorkerModels`
  varies them), so graphs are built after a load or an eviction and kept otherwise.
* **Threshold.** One tick: idle or not. The code only compares.
* **Pure functions.** Sizes up to 14, images up to 4 x 5, texts up to five pieces: every
  size below, at and above a window, a patch, a radius or a context. Blur is linear, so
  images with two pixels set are enough. The search for siglip2's size starts from scales
  1/16 to 5 and ends at 2/16 (the code: 1e-6, 100 and 1e-5).
* **Video.** Banks of three, three frames and two ids: an object added before the first
  frame has its conditioning slot and two more when the third frame comes and pushes one
  out, so the victim is one of two and the order of what is left can be wrong. An object
  can be given up
  (`MaxKeepAlive = 0`) and a candidate decided (`HotstartDelay = 1`) with a frame to
  spare, and a reset makes both ids fresh again. (The proofs drop these bounds.)
* **Calls.** Seven calls load a model, make a state, encode twice, segment, free both
  and, with one less, go through a failure in between. Every failure may happen, also that
  of the position encodings alone.
* **Networks.** Shapes are the real ones. The image sizes are the native ones, some
  that leave partial windows or partial patches (41, 500), and the smallest grid the
  neck can halve (28). (The proofs drop these bounds.)
* **Algorithms.** Masks of 4 x 3 (enough for a hole, a ring against the border and two
  components), three detections, extents up to 7 with windows up to 4, texts of up to
  five characters and words of four with two merges. Contexts of two to five ids under
  every vocabulary of the four tokens: each is unknown, has an id, or has the id 0.
* **Sizes.** Native size 4, patch multiple 2: every branch of the extent functions.
* **Tiles.** `MaxTileSize = 6`, `Overlap = 2`, `Align = 2` stand for 224, 16 and 16:
  sides of 1, 2, 5, 6, 7, 12 and 13 pixels are one, two or three tiles, with and
  without a remainder. (The proofs drop these bounds.)
* **CHECK_DEADLOCK FALSE** in the runs of `WorkerModels` and `Upscale`, where the
  process exits or aborts and then really has stopped, and in the runs of SAM 3, where
  the video, the calls or the sequence of graphs come to their end.
* **Symmetry** over threads and pids in `MCVisionServer`, and over the things a video
  shows in `MCSam3Tracker`: runs without a liveness property, and no definition tells
  the elements apart.

`FairSpec` assumes: a thread inside the locked region, or on its way out, keeps
running (WF: the scheduler); a worker that is loading or has a frame in its socket
goes on, or dies (WF; a model that computes forever is outside the model); the
watchdog's loop runs and the clock ticks (WF). A thread waiting for `mtx` gets it
eventually if it is free again and again (SF). The last one is an assumption
about `std::mutex`, which promises no order; weak fairness would not do, since
another thread can take the lock each time it is released. The watchdog's `try_lock` gets
the same (SF of `WatchdogLocks`): the C++ standard lets it fail spuriously on a free mutex,
which `WatchdogMissesLock` allows at any time, and asks that it does not do so consistently
(it "should ensure that try_lock() does not consistently return false in the absence of
contending mutex acquisitions"); each loop of the watchdog is another try. Nothing is assumed of
clients: they may stop calling at any time, and liveness never depends on a call.

## What is proved

`VisionSystemProofs`, its first part, on `VisionServer` (for any finite set of threads, any
pids, cards, configuration, batch size and threshold):

| Theorem | States |
|---|---|
| `Invariant` | `Spec => []IInv` |
| `TypeCorrect` | `Spec => []TypeOK` |
| `Mutex` | `Spec => []MutexDiscipline` |
| `Counting` | `Spec => []InFlightCounts` |
| `NoLeak` | `Spec => []NothingLeaks` |
| `SingleWorker` | `Spec => []OneWorker` |

None of the properties is inductive alone. `TypeOK` needs `InFlightCounts`, or
`in_flight - 1` might not be a natural number. `InFlightCounts` needs that a
`/v1/admin/load` never reaches `Leave` (`RequestsOK`). `NothingLeaks` needs that
`KillWorker` happens only when no start is under way, and that `HelloFails` reaps
a process the handle does not name (`HandleOK`). `HandleOK` speaks of *some*
thread being at `hello`; that it is the one taking the step needs
`MutexDiscipline`. So `IInv` is their conjunction with the types of the
variables. One section per conjunct shows it preserved (`ClientType`,
`WorkerType`, `OtherType`; `MutexStep`; `CountStep`; `ProcessStep`), and
`StepIInv` joins them. `OneWorker` follows without another induction: unreaped
pids are those of the handle and the start, and the two are never both set.
Counting uses the library's theorems on cardinality; the only assumptions are
`ConstantsAssumption`, of which every run evaluates its instance.

On top of this invariant, in the same module (`AcceptedReaches` for configurations that do
not have SAM 3 by flag alone, where the property fails, see below):

| Theorem | States |
|---|---|
| `Implements` | `Spec => ServesTheDevice` |
| `HandleTrue` | `Spec => []HandleIsTrue` |
| `RepliesInOrder` | `Spec => []RepliesMatch` |
| `BatchStays` | `Spec => BatchOnOneWorker` |
| `EvictionAtRest` | `Spec => []EvictsAtRest` |
| `AcceptedReaches` | `Spec => []AcceptedIsConfigured` |

The refinement adds one conjunct, `WishOK`: what the owner of the lock relies on at each
label. A card asked for is the next card at `ensure`, the card of the start at `hello`
and that of the worker from `send` on; no image is left at `unlock`. With it
`OutsideRefines` and `LockedRefines` give each action its abstract step or stutter;
`ThreadMoves` (a step of one thread changes that thread's phase and wish only) and
`FreeDevice` (nobody inside a locked region: nobody holds the device) are what they
share. `FramesOK` is the content of the sockets: the worker in place has at most one
frame, somewhere between request and reply, and it belongs to the thread at `recv`; the
one being started has said at most its HELLO or ERR. Only a worker's own steps and the
owner's move frames, so the reply read is the reply awaited; and `EvictsAtRest` follows
with `Decided`, because a thread that arrives after the watchdog's decision waits for
the lock; what `Decided` cannot exclude is the answer of `/v1/admin/load`, which is not
counted. `Asked` and `Carried` follow the family of a request from the endpoint's check
to the frame the worker takes.

`WorkerModelsProofs` (for any configured families, file sizes, patch multiple,
requested resolutions and images):

| Theorem | States |
|---|---|
| `TypeCorrect` | `Spec => []TypeOK` |
| `Peers` | `Spec => []PeersNeverStack` |
| `Sam3Whole` | `Spec => []Sam3IsWhole` |
| `Resolution` | `Spec => []OwnResolution` |

`IInv` adds `LoadsInOrder` (what each step of a load relies on the one before
having done) and `SizesAreFiles` (the remembered native size is the loaded
file's, and a dynamic model's size is never overwritten). Without the latter a
graph kept from before, or a native size lost on eviction, could give a request
the wrong resolution.

`UpscaleProofs` (for images of every size and every tile size,
overlap, alignment and scale with `UpscaleAssumption`: the tile size and the
overlap are multiples of the alignment and a tile is at least three overlaps
long, as 224, 16 and 16 are):

| Theorem | States |
|---|---|
| `WeightsAddUp` | a position lies under one tile with weight 1, or under two neighbours whose weights add up to the norm |
| `TilesBeginInside` | every tile of a layout begins inside the image |
| `TypeCorrect` | `Spec => []TypeOK` |
| `Blend` | `Spec => []BlendsToOne` |
| `GraphFits` | `Spec => []GraphFitsTile` |
| `TilesShow` | `Spec => []EveryTileShows` |

`LayoutIsWellTiled` shows that the constructor's three roundings leave tiles that
reach the end of the axis and overlap their neighbours only; `WeightsAddUp` needs
just that. An image is two axes and a loop: `RunningSum` is what the tiles before
the i-th have given a position of one axis (that such a sum exists, begins at 0
and ends at overlap + 1 is `RunningSumExists`), and `Given` combines the two sums in
the order of the loop, whole rows above and the columns before. The invariant
(`LoopOK`) is that `output` *is* `Given` at the loop variable. `MergeAdds` shows that
`tile_merge` adds the product of the tile's two shares, whatever branch it takes;
`GivenStep` that this is the step from one tile to the next, across the end of a
row too, and that the last step completes the whole. `GraphOK` is what makes
keeping a graph by tile size alone correct, even after a failed allocation.

`Sam3TrackerProofs` (for every length of a video, any number of ids, any finite set of
things, banks of two slots or more, pointer banks of any size, every hot-start delay
and keep-alive):

| Theorem | States |
|---|---|
| `Invariant` | `Spec => [](IInv /\ ReportedOnce)` |
| `TypeCorrect` | `Spec => []TypeOK` |
| `MemoriesStayInOrder` | `Spec => []MemoriesInOrder` |
| `FreshIdsStayFresh` | `Spec => []FreshIdsHaveNoPast` |
| `NobodyGetsOverdue` | `Spec => []NobodyOverdue` |
| `NothingReportedTwice` | `Spec => []ReportedOnce` |
| `LostStaysGone` | `Spec => LostStaysLost` |

The banks come first, without any state: `NextSlot` shows that a frame appended to a
bank in order leaves one, because the slot to be erased is then always the second (its
first is the conditioning one, the second is not), so that the `erase` at position 1 and
the search for the oldest agree; `NextPtr` does the same for pointers. `IInv` says that
every memory bank is in order before `frame_index` and every pointer bank up to
`LastFrame`, and adds three things. A fresh id has empty banks: it is why the slot a new
object pushes is its first, and why a remembered object that is not new has a bank
already. Nobody is overdue. And no pending object is of the frame to come: `ReportedOnce`
needs it, to know that a pending object of this frame is one this frame detected and did
not match. `FrameStep` proves that the end of a frame keeps all this, from what the two
kinds of frame have in common; `TrackStep` and `PropagateStep` supply it. `LostStaysLost`
needs only the types.

`Sam3SessionProofs` (any number of models of each kind, any images, runs of any length,
any allocation failing):

| Theorem | States |
|---|---|
| `Invariant` | `Spec => []IInv` |
| `TypeCorrect` | `Spec => []TypeOK` |
| `NoLeak` | `Spec => []NothingLeaks` |
| `ActiveStaysLoaded` | `Spec => []ActiveIsLoaded` |
| `ReadsLive` | `Spec => []ReadsAreLive` |
| `FeaturesShow` | `Spec => []FeaturesShowTheImage` |

Who owns which block is the whole argument. `Accounted` says that every block is a loaded
model's or some state's, and `StateStep`, stated once for all calls, that a state is
changed by replacing the blocks it owned by others that are new or were its own; each
encoder and each of its exits has only to show that it does just that (`EncodeStep`,
`SegmentStep`; `ModelStep` and `NewStateStep` for loading, creating and freeing). Blocks
are named by the call that allocated them, so a new one is nobody else's. `Good` and
`Sound` say of a state's tensors that they lie in memory the state owns and are of the
image it encoded last, or are the position encodings of a state that lacks them: the buffer
it had is gone from what it owns, and its context is there, which no other exit leaves
so.

`VisionSystemProofs`, its second part, on `VisionSystem` (the constants of both components; `FailuresEarned` for a server that
is given the matting model and SAM 3 not by flag alone):

| Theorem | States |
|---|---|
| `SystemInvariant` | `SystemSpec => []SysInv` |
| `Assembled` | `SystemSpec => Spec` of VisionServer |
| `SystemServes` | `SystemSpec => ServesTheDevice /\ BatchOnOneWorker /\ []RepliesMatch` |
| `FailuresEarned` | `SystemSpec => []ErrorsAreEarned` |

That an answer is one VisionServer expects needs to know what a busy worker is doing:
`Handling` (the job inside is for the family of the frame taken, and between eviction and
inference) and `Given` (what is loaded, and what a handler gets past loading with, was
configured). `StepAllowed` then turns every step into one of VisionServer, and all that is
proved there holds here. The parent's steps need one fact more, that a process which is
gone leaves nothing to read (`Ended`): it is why the memory of a new worker can begin
empty. `Intact` is what `ErrorsAreEarned` rests on: while nothing failed, every graph has
memory and siglip's four objects came together; `NothingToRefuse` shows that nothing is
then left to refuse or to crash on, using `Carried` for what the parent lets through.
Without its first assumption (SAM 3 by flag alone) and without a matting model the
worker refuses requests although nothing failed.

`Sam3NetworksProofs` (for image sizes that are `SizesFit`, any number of exemplar boxes,
prompt tokens, memories and pointers, either attention kernel, with or without object
scores):

| Theorem | States |
|---|---|
| `NetworksInvariant` | `Spec => []IInv` |
| `NetworksTypeOK` | `Spec => []TypeOK` |
| `NetworksNothingAborts` | `Spec => []NothingAborts` |
| `NetworksFeaturesFit` | `Spec => []FeaturesFitTheState` |
| `NetworksTransfersFit` | `Spec => []TransfersFit` |

`SizesFit` says which sizes: SAM 3 takes every image with a grid of at least two places,
whether or not patches and windows go into it without a remainder; SAM 2 every multiple of
32; EdgeTAM the multiples of 32 at which the perceiver, if it takes the grid at all, has as
many windows as latents. What becomes of others is listed below (`encode_img_size`), so the
assumption is what the code needs, although it checks nothing of it. At least one prompt
token and one memory are the callers' (the padding token; a propagation without memories
is not started). Extents are numbers of any size: overflow is not part of it.

`NothingAborts` says that each tensor under construction exists, which is not inductive: a
layer passes its assertions only on tensors of the right extents. So `IInv` says what the
extents are. `Builds` has one formula for each of the fourteen graphs, giving all of its
tensors and inputs from the grid, the job and the number of layers; Hiera and RepViT, which
halve their maps from stage to stage, speak of the sides `a`, `b`, `c` and `d` of the four
stages (`Sides`). `FeatsFit` and `GridFits` carry the extents over from one graph to the
next, and `Transferred` says that inputs have names of their own and were sent whole; the
decoder's, which repeat names, are what `MCSam3NetworksZeros` is about.

The proof goes up in three levels. A tensor is its extents and strides: for every operation
of ggml one lemma says when its assertions hold and what it makes (`ReshapeOf`, `MulMatAll`,
`PartOf`, the permutations one by one). The parts of the networks are compositions of these
(`VitBlockOf`, `HieraBlockForwardOf`, `PerceiverForwardOf`, `MemoryAttentionForwardOf`...): a window attention
that pads partial windows, pools queries inside them and puts them together again gives the
map that the next block takes, for every side. At last each action keeps `IInv`, by the
lemma about its part. TLC does not check `IInv`, which quantifies over all numbers, but the
four properties that it implies.

`ImageProofs`, its first part (for every extent, window, patch, scale and image; the last two for every
value of the constants of `MCAlgorithms` with `SizeAssumption`: the bounds are natural
numbers, and the smallest scale of siglip2's search makes the largest image one patch):

| Theorem | States |
|---|---|
| `BirefnetCoversAll`, `DepthanyKeepsAll`, `Depthany3KeepsAll` | what `birefnet_image_extent`, `depthany_image_extent` and `depthany3_image_extent` make of an image |
| `BudgetIsUsedAlways` | siglip2's binary search ends within the budget, and a step more would not |
| `PatchesOfAllImages`, `PlanesOfAllSizes` | patches and colour planes have each pixel once |
| `FilterIsAlwaysFair` | siglip2's filter counts every pixel alike when it shrinks |
| `SamplersAlwaysAgree` | SAM 3's two bilinear samplers stay inside the image and give pixels the same weights |
| `WindowsOfAllMaps`, `HieraWindowsOfAllMaps`, `CpuWindowsComeBack` | the three ways of cutting a map into windows lose, double and mix nothing, and pooling in windows is pooling the map |
| `LayoutsAgreeAlways` | `Spec => []LayoutsAgree` |
| `ExtentsAlwaysKeepTheImage` | `Spec => []ExtentsKeepTheImage` |

`ImageProofs`, its second part (for every extent of a mask, every image, radius, offset, number of
detections and threshold):

| Theorem | States |
|---|---|
| `MasksAlwaysSettle` | one pass of hole filling and sprinkle removal leaves neither |
| `OverlapsAreResolved` | each claimed pixel is left to one detection, one of the best that claimed it |
| `NmsSuppressesTheRest` | what is kept overlaps too little, what is dropped overlaps something better that is kept |
| `BoxesFitTheirMasks`, `BoxesOverlapAsTheirMasks`, `BoxesInImages` | boxes are the least around their masks, overlap as the pixels in them do, and lie in the image |
| `PromptsFillTheirTensors` | the tokens of a prompt are as many as its tensor has |
| `BlursAreBoxes` | the running sums of both passes are the sums over squares |
| `OffsetsMoveBorders` | an offset moves the border of a mask that far and no farther |
| `MasksAndBoxesAlways` | `Spec => []MasksAndBoxes` |

These functions have loops, folds and recursion in them, and the library's induction
theorems cannot be used with the installed provers. Two of its other theorems can be
(`LeastNat`: a set of natural numbers that is not empty has a least; `SmallestSet`: a set
of finite sets that is not empty has one that is minimal): whatever holds of a
loop's start and is kept by its step holds throughout, or there would be a least
counterexample. `IterationExists`, `SummingExists` and `JoinedSplits` each do this once,
for a recursive definition, for a fold and for the merging of components. Recursive
definitions and folds are chosen functions in TLA+ (CHOOSE), so it is also shown that there *is* one.

Three ideas carry the rest. A tensor is looked at element by element: `IndexIn` and
`IndexOf` say that indices and coordinates are the same, `ViewAt` what a strided view
shows, and `Shows` is what is true of a window whichever way it was cut; cutting and putting
together are then compositions of places. A component is a least set of pixels that
contains the neighbours of its members (`IsComponent`); merging neighbours one by one
ends with those sets (`ComponentsSplit`). Taking components away leaves the others what they
were (`OthersStay`), and a component of a region lies within one of any larger region
(`SmallerInLarger`); so a small hole left after the sprinkles were removed would contain a
small hole that had been filled, or consist of sprinkles alone and reach the border
(`ReachesBorder`). And a running sum is a window that slides
(`WindowSlides`): one value enters and one leaves, with the border repeated, so a row pass
gives row windows, a column pass of those gives squares (`RectangleSum`).

`TextProofs` (for every text, word, list of merges and context length; the last for every
value of the constants of `MCAlgorithms` with `SizeAssumption`):

| Theorem | States |
|---|---|
| `WordsHold` | the words of a text are its letters in order, the same however many spaces are between them, each of one kind and as long as its kind allows |
| `MergesHold` | byte-pair encoding keeps the word, applies the merge of the lowest rank first, and stops only when no merge applies to two neighbours |
| `BytesTold` | the 256 characters that stand for bytes are distinct, and a first byte tells the length of its character (`LengthTold`: for every code point) |
| `ContextFramed` | the context of every prompt, under every table of merges and every vocabulary, has its length, begins with start, ends with end exactly once, and has between them the known tokens of the prompt, each at its rank, as far as they fit |
| `TextEnded` | siglip2's ids end with the end token as far as they fit, and the mask covers them |
| `PromptsAlwaysArrive` | `Spec => []PromptsArrive` |

`WordsHold` asks that a text is `WellFormed`, what UTF-8 is in the model's alphabet: the
first byte of a character outside ASCII and its continuation stand together, neither alone.
`TextArgumentsAlways` shows it of every text that the run takes.

What the tokenizer's loops make of the rest of a text, from some position on, is a recursive
function that looks forward. `ForwardExists` shows once that such a function is there, and
`Backward` that what holds at the end and is kept by a step back holds everywhere, by the last
counterexample. The words are followed from one `Boundary` between characters to the next
(`BoundaryMoves`): `TokenIsOfOneKind` and `TokensAreLongest` say what a word is, `RestIsText`
that nothing is lost. That spaces do not matter compares two texts: `CleanCollapses` maps the
positions of a text to those of the same text with its spaces collapsed, runs of letters and
of others shift along with it (`TokenShifts`), and so do the words (`SameWords`). A round
of merges (`MergeKeeps`) keeps the word as a whole, leaves each part inside one of the new
parts and makes the parts fewer; `BestIsLowest` says that the pair merged is the one of
lowest rank. Since each round makes the parts fewer, as many rounds as the word has letters
reach a list with nothing left to merge (`EncodeIs`), which is why the model's bound on the
rounds is none. The ids of a prompt are the known tokens by their `Rank`: a token that is
known takes the next place (`TakesOneMore`), one that is not leaves the places as they were,
so what is read off from the front is in order and without a gap (`KnownIdsAre`), and
`ContextFrames` puts it between start and end.

Only model-checked: `Answered`, `IdleEvicts` and the fairness in `ServerAllows`, since
liveness under fairness is out of the prover's reach; of the worker, what its runs are
expected to refute. Every other property of a run that passes is a theorem.

## Where the code and its words part

Each of these is a run expected to end in a violation; PROJECT.json quotes the words.

* `MCWorkerModelsSiglip`: `load_siglip` throws half-way and its next call takes the
  half for the whole; a text request then dereferences a null tokenizer.
* `MCWorkerModelsGraph`: a graph whose allocation failed stays in the model with
  the new extent, and the next request of that size computes on it.
* `MCSam3NetworksZeros`: the decoder layers' inputs for the presence token, "zeros — set
  by caller" (8672, 8816), are found by name; layers 1 to 5 have the first one's names
  and are never written.

Configurations to be run by hand show more of them:

* `MCVisionServerUntargeted.cfg` (`UntargetedOnDefault`): `next_gpu` outlives the request
  that set it, so `WORKER_DEFAULT_GPU` is not the card "for un-targeted requests"
  (main.cpp:37) after the first targeted one.
* `MCVisionServerQueued.cfg` (`NeverEvictsUnderneath`): a request that arrives between
  the watchdog's last look at `in_flight` and its kill is counted and loses the worker
  anyway (server_state.h:64). It is answered all the same, after a reload.
* `MCVisionServerFlags.cfg` (`AcceptedIsConfigured`, what the parent accepts the worker
  is configured with): `--sam3-model` is not passed on to
  the worker; `/parts` is accepted by the parent and always fails in the worker.
* `MCVisionServerBigReply.cfg` (`Answered`): a reply over `MAX_FRAME_PAYLOAD` is dropped
  by the worker without a word; the requester waits for ever, with `mtx`.
* `MCSam3TrackerPending.cfg` (`MatchedAgainstPending`): detections are to be matched
  against pending objects too (sam3.cpp:12195), but only active ones have a mask to
  match. While a candidate waits for its decision each frame that detects it makes
  another one.
* `MCVisionServerLoadAnswer.cfg` (`NoAnswerUnderEviction`): `/v1/admin/load` answers
  `"worker_alive": true` and reads `worker_backend_name` after it gave up the lock, without
  an `InFlightGuard` (main.cpp:271-281), which is there "so the idle watchdog can't evict
  underneath" (server_state.h). The watchdog may be killing the worker and clearing the name
  at that moment.
* `MCUpscaleGray.cfg` (`TilesHoldPixels`): `image_u8_to_f32` has no case for a one-channel
  source and a three-channel target: a grayscale file is upscaled from uninitialized
  memory.
* `MCSam3SessionEncodings.cfg` (`EncodingsSurvive`): when only the buffer of the position
  encodings cannot be allocated, the encoder logs it and returns true (6577-6581,
  7862-7864), having freed the old buffer that `neck_det_pe` still points into, and the next
  segmentation reads it. A comment says the encodings survive what goes before.
* `MCSam3SessionSizes.cfg` (`OnlyWholeGrids`): worker.cpp:202-204 says `encode_img_size`
  "must be a multiple of 336 (24 patches)" and that `sam3_create_state` "rejects anything
  else", and sam3.cpp:3695-3698 that "the grid must be a whole multiple of 24". The code
  below that comment warns of partial windows and goes on ("Allowed", 3707-3717), refusing
  an empty grid only, and the position embedding is tiled to the next multiple and cropped
  (4176-4180). So `MCSam3Networks` runs at 28, 41 and 500 pixels too, and the theorems are
  about all such sizes: the shapes agree, which is what is checked; what the network makes
  of padded windows is not.
* `EveryEntryParks` (Sam3Session): the comment at 1056 says every
  entry point that builds a graph parks the active backend;
  `sam3_encode_vit_from_preprocessed_selective` does not.

And modelling brought up, outside the runs:

* What `encode_img_size` (sam3.h:101) may be is said in comments that the code does not
  keep to (above), and for SAM 2 and EdgeTAM nowhere. With Sam3Networks at other sizes: SAM 3 takes any size with a grid of at least 2 (proved); one patch (14, 15) aborts in
  the neck. SAM 2 takes the multiples of 32 (proved); 1000, 1008 and 1026 abort,
  1022 gives features of other extents than the state's. EdgeTAM takes the multiples of
  32 up to 256, 512, 768 and 1024; 1056 is refused by the perceiver; at 320, 480, 544 and
  640 the perceiver has more windows than its tensor holds; 272, 1000 and 1008 abort; 1022
  gives features of other extents.
* `sam3_encode_image_from_preprocessed` compares its argument with the model's image
  size, not with the state's.
* `birefnet_image_extent` compares the image with `max_alloc` before it rounds the sides up:
  an image just below the limit is rounded to an extent whose layer is above it.
  `BirefnetCovers` promises the limit for images that were reduced.
* An object added with `sam3_tracker_add_instance` before any frame was tracked gets a slot
  of frame 0 and, when frame 0 is propagated, a second one: its bank holds one frame twice,
  both in front of the attention (`TwiceFrameZero`).
* A state that has only the visual decoder, with `SAM3_PCS_ONLY` set, builds an empty
  graph, on which ggml aborts.
* A memory that could not be encoded is not reported: the object never propagates, is not
  counted as missed, and a candidate is confirmed all the same.
* A candidate that is confirmed in a frame (at once, with a hot-start delay of 0) is not
  in that frame's result, and neither kind of failure of a frame can be told from an
  empty one.
* `sam3_track_frame` resolves overlaps and then fills holes (12338-12343): filling a small
  hole can cover another object that lies in it, so a pixel may show two objects after all.
* `tracker.ctx` has room for 4096 tensors and frees none before a reset; a memory takes
  two and a pointer one.

## What is not modelled

* `/health` and `/v1/gpu/status` only read. The race on `worker_backend_name`, read
  by a responding thread after it gave up the lock, is covered against the
  watchdog (`EvictsAtRest` for the guarded endpoints, `NoAnswerUnderEviction` for
  `/v1/admin/load`, where it is lost), not against other requests or `/unload`.
* Partial reads and writes and EINTR: `read_exact` and `write_exact` loop, so a
  frame is one step. Malformed request frames: the worker answers `ERR` and
  touches nothing.
* What is inside requests and replies: PNG, JSON, base64, the edge refinement's
  sensitivity and compositing, embeddings, scores. No control depends on it beyond accept or reject.
* The numbers in the tensors: networks are modelled by shapes and transfers.
  Interpolation weights and the normalisation of images are floating-point.
* In SAM 3: debug dumps and the test entry points at the end of sam3.cpp; the two
  special tokens written out in a prompt; video decoding and image files; reading the
  weights (`sam3_load_tensors`), beyond success or failure.
* The networks of visp (`src/src/visp/arch`) and siglip2: the same kind of graph as SAM 3's,
  fixed shapes for the most part. sentencepiece, which makes the pieces of siglip2's texts.
* MobileSAM and MI-GAN (used by the CLI and the C API, not by the server), resampling by
  stb and foreground estimation, model files, the C API and the Python binding: see the plan.
* The CLI's copy of the upscaling loop (`run_esrgan`), which takes the tile size from
  `--tile`: with a size that is not a multiple of 16 `UpscaleAssumption` does not
  hold and `EveryTileShows` is not claimed.
* The CLI and the conversion scripts: sequential I/O, off-line tools.

## Plan

Done: the server, its worker, the two assembled, the device service and the refinement,
upscaling, the extents, the filters over masks, siglip2's inputs, SAM 3, and the proofs
about all of the state machines and about the pure functions. What
comes next, in order of importance:

1. **MobileSAM, MI-GAN**: the encode-then-compute protocol and the graph cache of the
   library's other models; **model files** (`model_transfer`) and backend selection.
2. **C API and Python binding**: lifetime of handles and the thread-local error.
3. **Endpoints' parsing**: payload framing of the siglip routes, `parse_prompts` of
   `/parts`.
