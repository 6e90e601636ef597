----------------------------- MODULE Sam3Tracker -----------------------------
(***************************************************************************)
(* The video tracker of depend/sam3/sam3.cpp: objects found by the text    *)
(* detector or added by a prompt, each carried from frame to frame through *)
(* a bank of memory slots and a bank of object pointers.                   *)
(*                                                                         *)
(* A mask is abstracted to the thing it shows: masks of one thing overlap  *)
(* by more than assoc_iou_threshold, masks of two things do not.  The      *)
(* vectors masklets and pending are the objects with status "active" and   *)
(* "pending"; their order only says which of two objects showing the same  *)
(* thing takes a detection, and either has last_seen = fi by then.         *)
(***************************************************************************)
EXTENDS Integers, Sequences, FiniteSets

CONSTANTS
    Things,         \* what a video may show
    NoThing,        \* none of them
    NumMaskmem,     \* hparams.num_maskmem: slots of a memory bank
    MaxObjPtrs,     \* hparams.max_obj_ptrs: pointers of a pointer bank
    HotstartDelay,  \* params.hotstart_delay
    MaxKeepAlive,   \* params.max_keep_alive
    MaxFrames,      \* bound: frames of a video
    MaxInstances    \* bound: instance ids handed out between two resets

ASSUME BankSizes == NumMaskmem \in Nat /\ NumMaskmem >= 2 /\ MaxObjPtrs \in Nat \ {0}
ASSUME NoneOfThem == NoThing \notin Things /\ IsFiniteSet(Things)
ASSUME Delays    == HotstartDelay \in Nat /\ MaxKeepAlive \in Nat
ASSUME Bounds    == MaxFrames \in Nat /\ MaxInstances \in Nat

Ids == 1..MaxInstances

\* What sam3_propagate_single finds of one object on one frame: nothing, for a
\* graph that failed; a mask below the coverage threshold; a mask of the object
\* with obj_score <= 0; the object.
Outcomes == {"fail", "blank", "hidden", "seen"}

VARIABLES
    frame_index,   \* next frame to process
    next_inst_id,
    obj,           \* id -> the masklet, in whichever vector it is
    mem_banks,     \* id -> slots, <<>> where the map has no entry
    ptr_banks,     \* id -> frames of the object pointers
    result,        \* ids of the detections the last call returned
    shown          \* history: ids whose mask that call propagated and showed them

vars == <<frame_index, next_inst_id, obj, mem_banks, ptr_banks, result, shown>>

NoMasklet == [status |-> "none", thing |-> NoThing, first_frame |-> 0,
              last_seen |-> 0, mds_sum |-> 0]

\* A masklet as track_frame and add_instance create it on frame fi.
NewMasklet(status, thing, fi) ==
    [status |-> status, thing |-> thing, first_frame |-> fi, last_seen |-> fi, mds_sum |-> 1]

Active  == {id \in Ids : obj[id].status = "active"}
Pending == {id \in Ids : obj[id].status = "pending"}
Tracked == Active \cup Pending

NoBanks == [id \in Ids |-> <<>>]

Init ==
    /\ frame_index = 0
    /\ next_inst_id = 1
    /\ obj = [id \in Ids |-> NoMasklet]
    /\ mem_banks = NoBanks
    /\ ptr_banks = NoBanks
    /\ result = {}
    /\ shown = {}

-----------------------------------------------------------------------------
(* The banks. *)

DropAt(bank, i) == SubSeq(bank, 1, i - 1) \o SubSeq(bank, i + 1, Len(bank))

IsOldestNonCond(bank, i) ==
    /\ ~bank[i].is_cond_frame
    /\ \A j \in 1..(i - 1) : bank[j].is_cond_frame

\* The slot to give up: the oldest that is not a conditioning frame, and the
\* second one when all of them are.
Victim(bank) ==
    IF \E i \in DOMAIN bank : IsOldestNonCond(bank, i)
    THEN CHOOSE i \in DOMAIN bank : IsOldestNonCond(bank, i)
    ELSE 2

\* Mutant: the oldest slot goes, conditioning or not.
PushSlotFifo(bank, slot) ==
    LET b == Append(bank, slot)
    IN  IF Len(b) > NumMaskmem THEN Tail(b) ELSE b

PushSlot(bank, slot) ==
    LET b == Append(bank, slot)
    IN  IF Len(b) > NumMaskmem THEN DropAt(b, Victim(b)) ELSE b

PushPtr(bank, fi) ==
    LET b == Append(bank, fi)
    IN  IF Len(b) > MaxObjPtrs THEN Tail(b) ELSE b

Slot(fi, cond) == [frame |-> fi, is_cond_frame |-> cond]

\* sam3_select_memory_frames and the temporal position of each slot it selects:
\* a bank holds no more than NumMaskmem slots, so all of them are selected.
SpatialTpos(bank, i) == IF bank[i].is_cond_frame THEN 0 ELSE Len(bank) - (i - 1)

-----------------------------------------------------------------------------
(* One frame. *)

\* Objects the loops propagate: those with a memory to propagate from.
Propagates(out) == {id \in Tracked : mem_banks[id] # <<>> /\ out[id] # "fail"}

Propagated(out) ==
    [id \in Ids |->
        IF id \in Propagates(out)
        THEN [obj[id] EXCEPT !.last_seen = frame_index,
                             !.mds_sum = @ + (IF out[id] = "seen" THEN 1 ELSE -1)]
        ELSE obj[id]]

Shows(out) == {id \in Propagates(out) : out[id] \in {"hidden", "seen"}}

\* Mutant: no detection is matched.
MatchedNever(out, thing) == FALSE

\* sam3_match_detections: the masks it is given are those of the map pm, which
\* track_frame fills for the active objects only.
Matched(out, thing) == \E id \in Shows(out) \cap Active : obj[id].thing = thing

\* The detections that become new objects.
Unmatched(out, dets) == {thing \in dets : ~Matched(out, thing)}

\* The orders in which the detector may have found them.
Orders(things) == {s \in [1..Cardinality(things) -> things] :
                      \A i, j \in DOMAIN s : s[i] = s[j] => i = j}

\* New objects, numbered from next_inst_id.
Spawn(masklets, new) ==
    [id \in Ids |->
        IF id >= next_inst_id /\ id < next_inst_id + Len(new)
        THEN NewMasklet("pending", new[id - next_inst_id + 1], frame_index)
        ELSE masklets[id]]

\* Mutant: the decision comes a frame late.
DecideLate(masklet, fi) ==
    IF masklet.status # "pending" \/ fi - masklet.first_frame <= HotstartDelay THEN masklet
    ELSE IF masklet.mds_sum > 0 THEN [masklet EXCEPT !.status = "active"]
    ELSE NoMasklet

\* sam3_update_tracker, pending objects: old enough, confirmed or given up.
Decide(masklet, fi) ==
    IF masklet.status # "pending" \/ fi - masklet.first_frame < HotstartDelay THEN masklet
    ELSE IF masklet.mds_sum > 0 THEN [masklet EXCEPT !.status = "active"]
    ELSE NoMasklet

\* sam3_update_tracker, active objects: given up with their banks.
Expired(masklet, fi) ==
    masklet.status = "active" /\ fi - masklet.last_seen > MaxKeepAlive

Forget(banks, masklets, fi) ==
    [id \in Ids |-> IF Expired(masklets[id], fi) THEN <<>> ELSE banks[id]]

\* What the loops of a frame leave: masklets0 are the objects after propagation
\* and detection, remember the ids whose mask went into memory on this frame,
\* kept those of them whose memory graph did not fail.
EndOfFrame(masklets0, remember, kept, new) ==
    LET fi      == frame_index
        cond(id) == id \in new
        decided == [id \in Ids |-> Decide(masklets0[id], fi)]
        mems    == [id \in Ids |->
                      IF id \in kept THEN PushSlot(mem_banks[id], Slot(fi, cond(id)))
                      ELSE mem_banks[id]]
        ptrs    == [id \in Ids |->
                      IF id \in remember THEN PushPtr(ptr_banks[id], fi) ELSE ptr_banks[id]]
    IN  /\ obj' = [id \in Ids |-> IF Expired(decided[id], fi) THEN NoMasklet ELSE decided[id]]
        /\ mem_banks' = Forget(mems, decided, fi)
        /\ ptr_banks' = Forget(ptrs, decided, fi)

StillTracked == {id \in Ids : obj'[id].status # "none"}

\* sam3_track_frame: propagate, detect, match, remember, update.  A new object
\* is in the result while it is pending; one that HotstartDelay = 0 confirms at
\* once is not.
TrackFrame(out, new, kept) ==
    LET newIds   == next_inst_id .. (next_inst_id + Len(new) - 1)
        remember == Propagates(out) \cup newIds
    IN  /\ frame_index < MaxFrames
        /\ next_inst_id + Len(new) <= MaxInstances + 1
        /\ kept \subseteq remember
        /\ EndOfFrame(Spawn(Propagated(out), new), remember, kept, newIds)
        /\ result' = (Propagates(out) \cap Active \cap StillTracked)
                        \cup {id \in newIds : obj'[id].status = "pending"}
        /\ shown' = Shows(out)
        /\ next_inst_id' = next_inst_id + Len(new)
        /\ frame_index' = frame_index + 1

\* sam3_propagate_frame: no detector, and the pending masks are in the result.
PropagateFrame(out, kept) ==
    /\ frame_index < MaxFrames
    /\ kept \subseteq Propagates(out)
    /\ EndOfFrame(Propagated(out), Propagates(out), kept, {})
    /\ result' = Propagates(out) \cap StillTracked
    /\ shown' = Shows(out)
    /\ frame_index' = frame_index + 1
    /\ UNCHANGED next_inst_id

\* A call that returns no detections.
NoResult == result' = {} /\ shown' = {}

\* Either of them when sam3_encode_image fails: an empty result, the frame is
\* not counted.
FrameFails ==
    /\ NoResult
    /\ UNCHANGED <<frame_index, next_inst_id, obj, mem_banks, ptr_banks>>

\* Mutant: the frame before the first is frame -1.
LastFrameUnclamped == frame_index - 1

\* The frame an interactive call is about: frame_index is the next one.
LastFrame == IF frame_index = 0 THEN 0 ELSE frame_index - 1

\* sam3_tracker_add_instance; the id is spent even when the memory graph fails.
AddInstance(thing) ==
    LET id == next_inst_id
    IN  /\ id \in Ids
        /\ obj' = [obj EXCEPT ![id] = NewMasklet("active", thing, LastFrame)]
        /\ mem_banks' = [mem_banks EXCEPT ![id] = PushSlot(@, Slot(LastFrame, TRUE))]
        /\ ptr_banks' = [ptr_banks EXCEPT ![id] = PushPtr(@, LastFrame)]
        /\ next_inst_id' = id + 1
        /\ NoResult
        /\ UNCHANGED frame_index

AddInstanceFails ==
    /\ next_inst_id \in Ids
    /\ next_inst_id' = next_inst_id + 1
    /\ NoResult
    /\ UNCHANGED <<frame_index, obj, mem_banks, ptr_banks>>

\* Mutant: any id that was handed out may be refined.
RefineAny(id) ==
    /\ id < next_inst_id
    /\ obj' = [obj EXCEPT ![id].last_seen = LastFrame]
    /\ ptr_banks' = [ptr_banks EXCEPT ![id] = PushPtr(@, LastFrame)]
    /\ NoResult
    /\ UNCHANGED <<frame_index, next_inst_id, mem_banks>>

\* sam3_refine_instance.
Refine(id) ==
    /\ id \in Tracked
    /\ obj' = [obj EXCEPT ![id].last_seen = LastFrame]
    /\ ptr_banks' = [ptr_banks EXCEPT ![id] = PushPtr(@, LastFrame)]
    /\ NoResult
    /\ UNCHANGED <<frame_index, next_inst_id, mem_banks>>

\* Mutant: the pointers survive a reset.
ClearBanks(banks) == banks

Cleared(banks) == NoBanks

\* sam3_tracker_reset.
Reset ==
    /\ frame_index' = 0
    /\ next_inst_id' = 1
    /\ obj' = [id \in Ids |-> NoMasklet]
    /\ mem_banks' = Cleared(mem_banks)
    /\ ptr_banks' = Cleared(ptr_banks)
    /\ NoResult

\* What the detector may return on one frame: NMS leaves one box per thing.
Detections == SUBSET Things

Next ==
    \/ \E out \in [Tracked -> Outcomes], kept \in SUBSET Ids :
          \/ \E dets \in Detections : \E new \in Orders(Unmatched(out, dets)) :
                 TrackFrame(out, new, kept)
          \/ PropagateFrame(out, kept)
    \/ FrameFails
    \/ \E thing \in Things : AddInstance(thing)
    \/ AddInstanceFails
    \/ \E id \in Ids : Refine(id)
    \/ Reset

Spec == Init /\ [][Next]_vars

-----------------------------------------------------------------------------
(* Properties. *)

Slots == [frame : 0..MaxFrames, is_cond_frame : BOOLEAN]
Masklets == [status : {"none", "pending", "active"}, thing : Things \cup {NoThing},
             first_frame : 0..MaxFrames, last_seen : 0..MaxFrames, mds_sum : Int]

TypeOK ==
    /\ frame_index \in 0..MaxFrames
    /\ next_inst_id \in 1..(MaxInstances + 1)
    /\ obj \in [Ids -> Masklets]
    /\ mem_banks \in [Ids -> Seq(Slots)]
    /\ ptr_banks \in [Ids -> Seq(0..MaxFrames)]
    /\ result \subseteq Ids
    /\ shown \subseteq Ids

\* The frame an object is added on before any was tracked is tracked after it,
\* so that the object's own slot and its first one from propagation may both be
\* of frame 0.
TwiceFrameZero(bank, i, j) == i = 1 /\ bank[i].frame = 0 /\ bank[j].frame = 0

\* A memory bank is the conditioning slot the object began with, then frames
\* since, oldest first, and no frame is in it twice but for frame 0 of an object
\* added before it was tracked.
BankInOrder(bank) ==
    /\ Len(bank) <= NumMaskmem
    /\ \A i \in DOMAIN bank : bank[i].is_cond_frame <=> i = 1
    /\ \A i, j \in DOMAIN bank :
           i < j => bank[i].frame < bank[j].frame \/ TwiceFrameZero(bank, i, j)

\* However objects are found, confirmed, refined and lost, no bank loses the
\* frame the object was defined on, and none is written twice by the separate
\* pending and active loops of one frame.
BanksInOrder ==
    \A id \in Ids :
        /\ BankInOrder(mem_banks[id])
        /\ \A i \in DOMAIN mem_banks[id] : i > 1 => mem_banks[id][i].frame < frame_index

\* sam3_build_prompt_and_pos skips a slot whose temporal position is outside
\* the learned table, silently: every slot of every bank has a row of its own.
EverySlotHasItsTpos ==
    \A id \in Ids :
        LET bank == mem_banks[id]
        IN  /\ \A i \in DOMAIN bank : SpatialTpos(bank, i) \in 0..(NumMaskmem - 1)
            /\ \A i, j \in DOMAIN bank :
                   SpatialTpos(bank, i) = SpatialTpos(bank, j) => i = j

\* Pointers are kept oldest first, no more than the memory attention reads, and
\* none is of a frame to come: the temporal distance is never negative.
PtrsInOrder ==
    \A id \in Ids :
        LET bank == ptr_banks[id]
        IN  /\ Len(bank) <= MaxObjPtrs
            /\ \A i, j \in DOMAIN bank : i < j => bank[i] <= bank[j]
            /\ \A i \in DOMAIN bank : bank[i] <= LastFrame

\* What the memory attention of the next frame reads is in order: slots, their
\* temporal positions, and pointers.
MemoriesInOrder == BanksInOrder /\ EverySlotHasItsTpos /\ PtrsInOrder

\* An id that was not handed out yet, since the tracker began or was reset, has
\* no memory and no pointer: a new object never starts with another's past.
FreshIdsHaveNoPast ==
    \A id \in Ids : id >= next_inst_id =>
        obj[id] = NoMasklet /\ mem_banks[id] = <<>> /\ ptr_banks[id] = <<>>

\* No pending object is overdue for its decision, and no active one has been
\* out of sight for more than MaxKeepAlive frames.
NobodyOverdue ==
    /\ \A id \in Pending : LastFrame - obj[id].first_frame < HotstartDelay
    /\ \A id \in Active  : LastFrame - obj[id].last_seen <= MaxKeepAlive

\* What a call reports by a propagated mask it does not report as a new object
\* as well: the same thing is not in the result twice by detection.
ReportedOnce ==
    \A a \in result \cap shown, b \in Pending :
        a # b /\ obj[b].first_frame = LastFrame => obj[a].thing # obj[b].thing

\* What the comment on the matching of track_frame says: matched "against ALL
\* tracked objects (both active AND pending) so that the same object isn't
\* detected as a new instance every frame".  The pending ones never match.
MatchedAgainstPending ==
    \A a \in shown, b \in Pending :
        a # b /\ obj[b].first_frame = LastFrame => obj[a].thing # obj[b].thing

\* An active object that is given up takes its banks with it; none that is
\* given up comes back, and its banks, where the tracker keeps them (those of
\* rejected candidates), are not written again until a reset.
Loses ==
    \A id \in 1..(next_inst_id - 1) :
        /\ obj[id].status = "active" /\ obj'[id].status = "none"
              => mem_banks'[id] = <<>> /\ ptr_banks'[id] = <<>>
        /\ obj[id].status = "none" /\ next_inst_id' # 1
              => /\ obj'[id].status = "none"
                 /\ mem_banks'[id] = mem_banks[id]
                 /\ ptr_banks'[id] = ptr_banks[id]

LostStaysLost == [][Loses]_vars
=============================================================================
