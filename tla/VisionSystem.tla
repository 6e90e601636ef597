---------------------------- MODULE VisionSystem ----------------------------
(***************************************************************************)
(* The whole server: VisionServer with WorkerModels inside its worker.     *)
(*                                                                         *)
(* In VisionServer the worker answers OK or ERR, or dies, as it pleases.   *)
(* Here what it answers follows from what is in its memory, which begins   *)
(* empty with each process and is gone with it.  There is one memory       *)
(* because there is one worker (OneWorker).  A frame says which family it  *)
(* is for; the image and the resolution in it are chosen as it is read.    *)
(***************************************************************************)
EXTENDS VisionServer

CONSTANTS
    TokenizerGiven,  \* SIGLIP_TOKENIZER_PATH is set
    FileSize,        \* image_size in each model file
    Multiple,        \* image_multiple of the model files
    MaxAlloc,        \* backend_device::max_alloc, in bytes
    Resolutions,     \* values of process_res / image_size in a request
    ImageExtents     \* sizes of the images sent

VARIABLES
    at, job, model, native, sam3, siglip, last,  \* the worker's memory
    harm    \* history: some load, allocation or encoding failed in this worker

memory     == <<at, job, model, native, sam3, siglip, last>>
systemVars == <<vars, memory, harm>>

\* The frame types, as the slots they are served from.
SlotOf(family) ==
    CASE family = "matte" -> "matting"
      [] family = "parts" -> "sam3"
      [] OTHER            -> family

Inside == INSTANCE WorkerModels WITH
    pc <- at, Configured <- {SlotOf(f) : f \in WorkerConfig}

NewMemory ==
    /\ at' = "boot"
    /\ job' = Inside!NoJob
    /\ model' = [m \in Inside!GraphModels |-> Inside!Empty]
    /\ native' = [m \in Inside!GraphModels |-> 0]
    /\ sam3' = "absent"
    /\ siglip' = Inside!NoSiglip
    /\ last' = [job |-> Inside!NoJob, extent |-> Inside!NoExtent]

SystemInit == Init /\ Inside!Init /\ harm = FALSE

-----------------------------------------------------------------------------
(***************************************************************************)
(* The parent.  It touches processes only to end one and to start another. *)
(***************************************************************************)
Parent(A) ==
    /\ A
    /\ IF proc' = proc THEN UNCHANGED <<memory, harm>>
                       ELSE NewMemory /\ harm' = FALSE

(***************************************************************************)
(* The worker: one handler at a time, one answer per frame taken.          *)
(***************************************************************************)
Boot(p)      == WorkerHello(p) /\ Inside!Boot /\ UNCHANGED harm
BootFails(p) == WorkerLoadFails(p) /\ Inside!BootFails /\ harm' = TRUE

Take(p) ==
    /\ WorkerTakes(p)
    /\ Inside!Receive
    /\ job'.family = SlotOf(proc'[p].cur.type)
    /\ UNCHANGED harm

Busy(p) == proc[p].state = "busy"

\* Evicting the peer and loading, before the handler has anything to answer.
Prepare(p) ==
    /\ Busy(p)
    /\ \/ Inside!AlreadyLoaded \/ Inside!Evict \/ Inside!LoadGraph
       \/ Inside!LoadSam3Model \/ Inside!LoadSam3State \/ Inside!LoadSiglip
    /\ UNCHANGED <<vars, harm>>

\* send_frame and send_error; a reply that is too long is not sent.
Answer(p, type) ==
    /\ proc' = [proc EXCEPT ![p].state = "ready", ![p].cur = NoFrame]
    /\ sock' = IF type # "ERR" /\ proc[p].cur.size = "big_reply" THEN sock
               ELSE [sock EXCEPT ![p].from =
                        Append(@, [proc[p].cur EXCEPT !.type = type])]
    /\ UNCHANGED parent

\* Mutant: the handler reports the error and does not return.
FailsAndGoesOn(p) ==
    /\ Busy(p)
    /\ \/ Inside!LoadFails \/ Inside!LoadSam3StateFails
       \/ Inside!Segment \/ Inside!Embed
       \/ \E m \in Inside!GraphModels : Inside!AllocateFails(m)
    /\ sock' = [sock EXCEPT ![p].from = Append(@, [proc[p].cur EXCEPT !.type = "ERR"])]
    /\ UNCHANGED <<parent, proc>>
    /\ harm' = TRUE

\* What throws, or has send_error called, on the way to an answer.
FailsInside(p) ==
    /\ Busy(p)
    /\ \/ Inside!LoadFails \/ Inside!LoadSam3StateFails
       \/ Inside!Segment \/ Inside!Embed
       \/ \E m \in Inside!GraphModels : Inside!AllocateFails(m)
    /\ Answer(p, "ERR")
    /\ harm' = TRUE

\* An object that is there, but was never loaded, reports an error when used.
TowersLoaded ==
    /\ job.op \in {"embed", "classify"} => siglip.vision = "loaded"
    /\ job.op \in {"text", "classify"} =>
          siglip.text = "loaded" /\ siglip.tokenizer = "loaded"

\* The family has no model, or the objects of an earlier failure are asked.
Refuse(p) ==
    /\ Busy(p)
    /\ Inside!NotConfigured \/ (Inside!Embed /\ ~TowersLoaded)
    /\ Answer(p, "ERR")
    /\ UNCHANGED harm

Serve(p) ==
    /\ Busy(p)
    /\ \/ \E m \in Inside!GraphModels : Inside!Compute(m)
       \/ Inside!Segment
       \/ Inside!Embed /\ TowersLoaded
    /\ Answer(p, proc[p].cur.type)
    /\ UNCHANGED harm

\* A null tokenizer dereferenced, or a graph without memory run.
Crash(p) ==
    /\ Busy(p)
    /\ Inside!EmbedCrashes \/ \E m \in Inside!GraphModels : Inside!ComputeUnallocated(m)
    /\ WorkerDies(p)
    /\ UNCHANGED harm

\* Death from outside, at any time.
Dies(p) == WorkerDies(p) /\ NewMemory /\ harm' = TRUE

WorkerRuns(p) ==
    \/ Boot(p) \/ BootFails(p) \/ Take(p) \/ Prepare(p) \/ Refuse(p)
    \/ FailsInside(p) \/ Serve(p) \/ Crash(p)

SystemNext ==
    \/ Parent(\E t \in Clients : ClientStep(t))
    \/ Parent(Unload \/ WatchdogStep \/ Tick)
    \/ \E p \in Pids : WorkerRuns(p) \/ Dies(p)

SystemSpec == SystemInit /\ [][SystemNext]_systemVars

\* The fairness of VisionServer, with a worker that goes on until it answers.
FairSystem ==
    /\ SystemSpec
    /\ \A t \in Clients :
          /\ WF_systemVars(Parent(LockedStep(t)))
          /\ WF_systemVars(Parent(Respond(t) \/ Leave(t)))
          /\ SF_systemVars(Parent(Acquire(t)))
    /\ \A p \in Pids : WF_systemVars(WorkerRuns(p))
    /\ WF_systemVars(Parent(WatchdogStep))
    /\ SF_systemVars(Parent(WatchdogLocks))
    /\ WF_systemVars(Parent(Tick))

-----------------------------------------------------------------------------
(***************************************************************************)
(* Properties.                                                             *)
(***************************************************************************)

\* Assembled, the two are a VisionServer: what it lets a worker do is all that a
\* worker does (an answer or its death to every frame, nothing unasked, a result
\* only with a model for it), and the step by step progress inside the worker
\* is the progress it assumes (so Answered and IdleEvicts hold here too).
ServerAllows == FairSpec

\* A worker in which nothing has failed answers every request the parent let
\* through, and never dies by itself: each family accepted is one the worker was
\* given, whatever was evicted or loaded before, and what one failure leaves
\* behind (a half-loaded slot, a graph without memory) ends with the process.
ErrorsAreEarned ==
    ~harm => /\ at # "crashed"
             /\ \A p \in Pids : \A i \in DOMAIN sock[p].from : sock[p].from[i].type # "ERR"
=============================================================================
