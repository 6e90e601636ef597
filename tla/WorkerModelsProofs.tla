------------------------- MODULE WorkerModelsProofs -------------------------
(***************************************************************************)
(* Proofs of WorkerModels' safety properties, for any set of configured    *)
(* families, any model files, resolutions and images.                      *)
(*                                                                         *)
(* None of them is inductive alone.  That matting and SAM 3 never stack    *)
(* while one of them loads rests on the eviction before it having been     *)
(* done (LoadsInOrder).  That a computation has its own resolution rests   *)
(* on matting_native_size and its fellows being the loaded file's, and on  *)
(* a dynamic model keeping its -1 (SizesAreFiles).                         *)
(***************************************************************************)
EXTENDS WorkerModels, WellFoundedInduction, TLAPS

\* What each step of a load relies on the steps before it having done.
LoadsInOrder ==
    /\ pc \in {"evict", "load", "state", "infer"} => job.image \in ImageExtents
    /\ pc = "load" /\ job.family = "matting" => sam3 = "absent"
    /\ pc = "load" /\ job.family = "sam3" => ~model["matting"].loaded
    /\ pc = "boot" => sam3 = "absent"
    /\ sam3 = "model" <=> pc = "state"
    /\ pc = "state" => job.family = "sam3" /\ ~model["matting"].loaded
    /\ pc = "infer" /\ job.family \in GraphModels => model[job.family].loaded

\* The native size of a loaded model is its file's, and the image_size of a
\* dynamic one never changes.
SizesAreFiles ==
    \A m \in GraphModels : model[m].loaded =>
        /\ native[m] = FileSize[m]
        /\ FileSize[m] <= 0 => model[m].image_size = FileSize[m]

\* The inductive invariant.
IInv ==
    /\ TypeOK
    /\ LoadsInOrder
    /\ PeersNeverStack
    /\ SizesAreFiles
    /\ OwnResolution

-----------------------------------------------------------------------------
\* Rounding up to the patch size gives an integer.
LEMMA NextMultipleType ==
  ASSUME NEW x \in Int
  PROVE  NextMultiple(x, Multiple) \in Int
  BY WorkerAssumption DEF WorkerAssumption, NextMultiple, DivCeil

\* So does rounding to the nearest multiple.
LEMMA RoundType ==
  ASSUME NEW v \in Nat \ {0}, NEW s \in Int, NEW l \in Nat \ {0}
  PROVE  RoundToPatch(v, s, l, Multiple) \in Int
<1> DEFINE scaled == MaxOf(1, (2 * v * s + l) \div (2 * l))
           down   == (scaled \div Multiple) * Multiple
<1>1. Multiple \in Int /\ Multiple > 0
  BY WorkerAssumption DEF WorkerAssumption
<1>2. 2 * v * s + l \in Int /\ 2 * l \in Int /\ 2 * l > 0
  OBVIOUS
<1>3. scaled \in Int
  BY <1>2 DEF MaxOf
<1> HIDE DEF scaled
<1>4. down \in Int
  BY <1>1, <1>3
<1> HIDE DEF down
<1>5. MaxOf(down, Multiple) \in Int /\ down + Multiple \in Int
  BY <1>1, <1>4 DEF MaxOf
<1> QED
  BY <1>3, <1>4, <1>5 DEF RoundToPatch, scaled, down

\* Every set of natural numbers has a least element.
LEMMA LeastNatural ==
  ASSUME NEW Z \in SUBSET Nat, Z # {}
  PROVE  \E n \in Z : \A m \in Z : n <= m
<1> DEFINE R == OpToRel(<, Nat)
<1>1. PICK x \in Z : \A y \in Z : <<y, x>> \notin R
  BY WFMin, NatLessThanWellFounded
<1>2. \A y \in Z : ~ (y < x)
  BY <1>1 DEF OpToRel
<1> QED
  BY <1>2

\* A side reduced to what fits is a natural number, no greater than it was.
LEMMA ScaledType ==
  ASSUME NEW side \in Nat \ {0}, NEW other \in Nat \ {0},
         side * other * PixelBytes > MaxAlloc
  PROVE  Scaled(side, other, MaxAlloc) \in 0 .. side
<1> DEFINE need(k) == k * k * other * PixelBytes
           Z == {k \in Nat : side * MaxAlloc < need(k + 1)}
<1>0. MaxAlloc \in Nat /\ PixelBytes = 960
  BY WorkerAssumption DEF WorkerAssumption, PixelBytes
<1>1. side * MaxAlloc \in Nat /\ \A k \in Nat : need(k) \in Nat
  BY <1>0
<1>2. side * MaxAlloc < need(side + 1)
  <2> DEFINE c == other * PixelBytes
  <2>1. c \in Nat /\ side * c > MaxAlloc
    BY <1>0
  <2> HIDE DEF c
  <2>2. side * (side * c) >= side * (MaxAlloc + 1)
    BY <1>0, <2>1
  <2>3. need(side + 1) = (side + 1) * (side + 1) * c
    BY <1>0 DEF c
  <2>4. (side + 1) * (side + 1) * c = side * (side * c) + 2 * (side * c) + c
    BY <2>1
  <2> QED
    BY <1>0, <2>1, <2>2, <2>3, <2>4
<1>3. PICK n \in Z : \A k \in Z : n <= k
  BY <1>2, LeastNatural
<1>4. n \in 0 .. side /\ side * MaxAlloc < need(n + 1)
  BY <1>2, <1>3
<1>5. need(n) <= side * MaxAlloc
  <2>1. CASE n = 0
    BY <1>0, <1>1, <2>1
  <2>2. CASE n > 0
    <3>1. n - 1 \in Nat /\ n - 1 \notin Z /\ n - 1 + 1 = n
      BY <1>3, <1>4, <2>2
    <3> QED
      BY <1>1, <3>1
  <2> QED
    BY <1>4, <2>1, <2>2
<1> QED
  BY <1>4, <1>5 DEF Scaled

\* The extent a network computes at is a pair of integers for every image.
LEMMA ExtentType ==
  ASSUME NEW m \in GraphModels, NEW image \in ImageExtents, NEW size \in Int
  PROVE  ImageExtent(m, image, size) \in Extent
<1>1. image[1] \in Nat \ {0} /\ image[2] \in Nat \ {0}
  BY WorkerAssumption DEF WorkerAssumption
<1>2. CASE m = "matting"
  <2>1. CASE size # -1
    BY <1>2, <2>1 DEF ImageExtent, BirefnetExtent, Extent
  <2>2. CASE size = -1 /\ FitsAlloc(image, MaxAlloc)
    BY <1>1, <1>2, <2>2, NextMultipleType DEF ImageExtent, BirefnetExtent, Extent
  <2>3. CASE size = -1 /\ ~FitsAlloc(image, MaxAlloc)
    <3> DEFINE side(i) == MaxOf(1, Scaled(image[i], image[3 - i], MaxAlloc) - Multiple)
    <3>1. \A i \in 1 .. 2 : /\ image[i] \in Nat \ {0} /\ image[3 - i] \in Nat \ {0}
                             /\ image[i] * image[3 - i] * PixelBytes > MaxAlloc
      <4>1. MaxAlloc \in Nat /\ PixelBytes = 960
        BY WorkerAssumption DEF WorkerAssumption, PixelBytes
      <4>2. image[1] * image[2] * PixelBytes > MaxAlloc
        BY <1>1, <2>3, <4>1 DEF FitsAlloc
      <4>3. image[2] * image[1] = image[1] * image[2]
        BY <1>1
      <4> QED
        BY <1>1, <4>2, <4>3
    <3>2. \A i \in 1 .. 2 : Scaled(image[i], image[3 - i], MaxAlloc) \in Int
      BY <3>1, ScaledType
    <3>3. \A i \in 1 .. 2 : side(i) \in Int
      BY <3>2, WorkerAssumption DEF MaxOf, WorkerAssumption
    <3>4. ImageExtent(m, image, size)
            = <<NextMultiple(side(1), Multiple), NextMultiple(side(2), Multiple)>>
      BY <1>2, <2>3 DEF ImageExtent, BirefnetExtent
    <3> HIDE DEF side
    <3> QED
      BY <3>3, <3>4, NextMultipleType DEF Extent
  <2> QED
    BY <2>1, <2>2, <2>3
<1>3. CASE m = "depth2"
  <2> DEFINE side == MinOf(image[1], image[2])
             tgt  == MaxOf(size, NextMultiple(side, Multiple))
  <2>1. side \in Nat \ {0}
    BY <1>1 DEF MinOf
  <2>2. tgt \in Int
    BY <2>1, NextMultipleType DEF MaxOf
  <2>3. (image[1] * tgt) \div side \in Int /\ (image[2] * tgt) \div side \in Int
    <3> HIDE DEF side, tgt
    <3> QED
      BY <1>1, <2>1, <2>2
  <2> QED
    BY <1>3, <2>3, NextMultipleType DEF ImageExtent, DepthanyExtent, Extent
<1>4. CASE m = "depth3"
  <2>1. MaxOf(image[1], image[2]) \in Nat \ {0}
    BY <1>1 DEF MaxOf
  <2> QED
    BY <1>1, <1>4, <2>1, RoundType DEF ImageExtent, Depthany3Extent, Extent
<1> QED
  BY <1>2, <1>3, <1>4 DEF GraphModels

-----------------------------------------------------------------------------
\* The invariant holds at first.
LEMMA InitIInv == Init => IInv
<1> SUFFICES ASSUME Init PROVE IInv
  OBVIOUS
<1> USE DEF Init
<1>1. NoJob \in Job /\ NoExtent \in Extent
  BY DEF NoJob, Job, NoExtent, Extent, Families, SiglipOps
<1>2. TypeOK
  BY <1>1 DEF TypeOK, Slot, NoSiglip, Siglip
<1>3. LoadsInOrder /\ PeersNeverStack /\ SizesAreFiles
  BY DEF LoadsInOrder, PeersNeverStack, SizesAreFiles, Empty, GraphModels
<1>4. OwnResolution
  BY DEF OwnResolution, NoJob, GraphModels
<1> QED
  BY <1>2, <1>3, <1>4 DEF IInv

-----------------------------------------------------------------------------
\* A compute or a failed allocation touches one slot, leaves in it the extent
\* the request wants, and neither loads nor unloads anything.
LEMMA SetModelFacts ==
  ASSUME IInv, pc = "infer", NEW m \in GraphModels, job.family = m,
         NEW g \in {"unallocated", "ready"}, SetModel(m, g), UNCHANGED native
  PROVE  /\ model' \in [GraphModels -> Slot]
         /\ \A k \in GraphModels : model'[k].loaded = model[k].loaded
         /\ SizesAreFiles'
         /\ model'[m].extent = WantedExtent(m)
         /\ WantedExtent(m) = ImageExtent(m, job.image,
                                IF job.res > 0 /\ FileSize[m] > 0 THEN job.res
                                ELSE FileSize[m])
<1> USE DEF IInv
<1>1. model \in [GraphModels -> Slot] /\ native \in [GraphModels -> Int]
      /\ job \in Job /\ job.image \in ImageExtents
  BY DEF TypeOK, LoadsInOrder
<1>2. model[m].loaded
  BY DEF LoadsInOrder
<1>3. model[m] \in [loaded : {TRUE}, image_size : Int, extent : Extent,
                    graph : {"none", "unallocated", "ready"}]
  <2>1. model[m] \in Slot
    BY <1>1
  <2>2. model[m] # Empty
    BY <1>2 DEF Empty
  <2> QED
    BY <2>1, <2>2 DEF Slot
<1>4. native[m] = FileSize[m]
      /\ (FileSize[m] <= 0 => model[m].image_size = FileSize[m])
  BY <1>2 DEF SizesAreFiles
<1>5. FileSize[m] \in Int /\ (FileSize[m] > 0 \/ m = "matting")
  BY WorkerAssumption DEF WorkerAssumption
<1>6. job.res \in Int
  <2>1. job.res \in Resolutions \cup {0}
    BY <1>1 DEF Job
  <2>2. Resolutions \cup {0} \subseteq Int
    BY WorkerAssumption DEF WorkerAssumption
  <2> QED
    BY <2>1, <2>2
<1>7. ImageSize(m) \in Int
      /\ ImageSize(m) = (IF job.res > 0 /\ FileSize[m] > 0 THEN job.res
                         ELSE FileSize[m])
  BY <1>4, <1>5, <1>6 DEF ImageSize
<1>8. WantedExtent(m) \in Extent
  BY <1>1, <1>7, ExtentType DEF WantedExtent
<1> DEFINE slot == [loaded |-> TRUE, image_size |-> ImageSize(m), graph |-> g,
                    extent |-> WantedExtent(m)]
<1>9. model' = [model EXCEPT ![m] = slot]
  <2>1. (IF NeedsGraph(m) THEN WantedExtent(m) ELSE model[m].extent)
          = WantedExtent(m)
    BY DEF NeedsGraph
  <2> QED
    BY <2>1 DEF SetModel
<1>10. slot \in Slot
  BY <1>2, <1>7, <1>8 DEF Slot
<1>11. model' \in [GraphModels -> Slot]
  BY <1>1, <1>9, <1>10
<1>12. \A k \in GraphModels : model'[k] = IF k = m THEN slot ELSE model[k]
  BY <1>1, <1>9
<1>13. \A k \in GraphModels : model'[k].loaded = model[k].loaded
  <2>1. model[m].loaded = TRUE /\ slot.loaded = TRUE
    BY <1>3
  <2> HIDE DEF slot
  <2> QED
    BY <2>1, <1>12
<1>14. SizesAreFiles'
  BY <1>4, <1>5, <1>7, <1>12 DEF SizesAreFiles
<1>15. model'[m].extent = WantedExtent(m)
  BY <1>12
<1> QED
  BY <1>7, <1>11, <1>13, <1>14, <1>15 DEF WantedExtent

-----------------------------------------------------------------------------
\* Every step preserves it: one case per action.
LEMMA NextIInv == IInv /\ [Next]_vars => IInv'
<1> SUFFICES ASSUME IInv, [Next]_vars PROVE IInv'
  OBVIOUS
<1> USE DEF IInv
<1>0. TypeOK /\ WorkerAssumption
  BY WorkerAssumption
<1>a. NoJob \in Job
  BY DEF NoJob, Job, NoExtent, Extent, Families, SiglipOps
<1>b. \A m \in GraphModels : Loaded(m) \in Slot /\ FileSize[m] \in Int
  BY <1>0 DEF Loaded, Slot, WorkerAssumption, NoExtent, Extent
<1>c. Empty \in Slot /\ ~Empty.loaded
  BY DEF Slot, Empty
<1>d. "matting" \in GraphModels /\ GraphModels \subseteq Families
  BY DEF GraphModels, Families
<1>1. CASE Boot
  <2>1. TypeOK'
    BY <1>0, <1>1, <1>b DEF Boot, LoadGraphModel, TypeOK
  <2>2. LoadsInOrder' /\ PeersNeverStack' /\ OwnResolution'
    BY <1>1 DEF Boot, LoadsInOrder, PeersNeverStack, OwnResolution
  <2>3. SizesAreFiles'
    BY <1>0, <1>1 DEF Boot, LoadGraphModel, Loaded, SizesAreFiles, TypeOK
  <2> QED
    BY <2>1, <2>2, <2>3
<1>2. CASE BootFails \/ Exit
  BY <1>0, <1>2 DEF BootFails, Exit, TypeOK, LoadsInOrder, PeersNeverStack,
                    SizesAreFiles, OwnResolution
<1>3. CASE Receive
  <2> PICK f \in Families, r \in Resolutions, x \in ImageExtents, o \in SiglipOps :
        job' = [family |-> f, res |-> IF f \in GraphModels THEN r ELSE 0,
                image |-> x, op |-> IF f = "siglip" THEN o ELSE "embed"]
    BY <1>3 DEF Receive
  <2>1. x \in Extent
    BY <1>0 DEF WorkerAssumption, Extent
  <2>2. job' \in Job /\ job'.image \in ImageExtents
    BY <2>1 DEF Job, SiglipOps
  <2>3. TypeOK'
    BY <1>0, <1>3, <2>2 DEF Receive, TypeOK
  <2> QED
    BY <1>3, <2>2, <2>3 DEF Receive, LoadsInOrder, PeersNeverStack,
                            SizesAreFiles, OwnResolution
<1>4. CASE AlreadyLoaded
  <2>1. job.family \in GraphModels => model[job.family].loaded
    BY <1>4 DEF AlreadyLoaded, Resident, GraphModels
  <2> QED
    BY <1>0, <1>4, <2>1 DEF AlreadyLoaded, TypeOK, LoadsInOrder,
                            PeersNeverStack, SizesAreFiles, OwnResolution
<1>5. CASE NotConfigured \/ Segment \/ Embed
  BY <1>0, <1>5, <1>a DEF NotConfigured, Segment, Embed, Reply, TypeOK,
       LoadsInOrder, PeersNeverStack, SizesAreFiles, OwnResolution
<1>6. CASE EmbedCrashes
  BY <1>0, <1>6 DEF EmbedCrashes, TypeOK, LoadsInOrder, PeersNeverStack,
                    SizesAreFiles, OwnResolution
<1>7. CASE Evict
  <2>1. TypeOK'
    BY <1>0, <1>7, <1>c, <1>d DEF Evict, EvictPeer, TypeOK
  <2>2. \A m \in GraphModels : model'[m] = model[m] \/ ~model'[m].loaded
    BY <1>0, <1>7, <1>c DEF Evict, EvictPeer, TypeOK
  <2>3. LoadsInOrder'
    <3>1. sam3' = (IF job.family = "matting" THEN "absent" ELSE sam3)
          /\ sam3 # "model" /\ pc = "evict" /\ pc' = "load" /\ job' = job
      BY <1>7 DEF Evict, EvictPeer, LoadsInOrder
    <3>2. job.family = "sam3" => ~model'["matting"].loaded
      BY <1>0, <1>7, <1>c, <1>d DEF Evict, EvictPeer, TypeOK
    <3> QED
      BY <3>1, <3>2 DEF LoadsInOrder
  <2>4. PeersNeverStack'
    BY <1>7, <2>2, <1>d DEF Evict, EvictPeer, PeersNeverStack
  <2>5. SizesAreFiles'
    BY <1>0, <1>7, <2>2, <1>c DEF Evict, EvictPeer, SizesAreFiles, TypeOK
  <2>6. OwnResolution'
    BY <1>7 DEF Evict, OwnResolution
  <2> QED
    BY <2>1, <2>3, <2>4, <2>5, <2>6
<1>8. CASE LoadGraph
  <2>1. TypeOK'
    BY <1>0, <1>8, <1>b DEF LoadGraph, LoadGraphModel, TypeOK
  <2>2. model'[job.family].loaded
    BY <1>0, <1>8 DEF LoadGraph, LoadGraphModel, Loaded, TypeOK
  <2>3. LoadsInOrder'
    BY <1>8, <2>2 DEF LoadGraph, LoadsInOrder
  <2>4. PeersNeverStack'
    BY <1>0, <1>8, <1>d DEF LoadGraph, LoadGraphModel, PeersNeverStack,
                            LoadsInOrder, TypeOK
  <2>5. SizesAreFiles'
    BY <1>0, <1>8 DEF LoadGraph, LoadGraphModel, Loaded, SizesAreFiles, TypeOK
  <2>6. OwnResolution'
    BY <1>8 DEF LoadGraph, OwnResolution
  <2> QED
    BY <2>1, <2>3, <2>4, <2>5, <2>6
<1>9. CASE LoadSam3Model
  BY <1>0, <1>9 DEF LoadSam3Model, TypeOK, LoadsInOrder,
                    PeersNeverStack, SizesAreFiles, OwnResolution
<1>16. CASE LoadSam3State
  <2>1. job.family \notin GraphModels
    BY <1>16 DEF LoadSam3State, LoadsInOrder, GraphModels
  <2>2. pc = "state" /\ pc' = "infer" /\ sam3' = "ready"
        /\ UNCHANGED <<job, model, native, siglip, last>>
    BY <1>16 DEF LoadSam3State
  <2>3. TypeOK'
    BY <1>0, <2>2 DEF TypeOK
  <2>4. LoadsInOrder' /\ PeersNeverStack'
    BY <2>1, <2>2 DEF LoadsInOrder, PeersNeverStack
  <2>5. SizesAreFiles' /\ OwnResolution'
    BY <2>2 DEF SizesAreFiles, OwnResolution
  <2> QED
    BY <2>3, <2>4, <2>5
<1>10. CASE LoadSam3StateFails
  BY <1>0, <1>10, <1>a DEF LoadSam3StateFails, DropSam3, Reply, TypeOK,
       LoadsInOrder, PeersNeverStack, SizesAreFiles, OwnResolution
<1>11. CASE LoadSiglip \/ LoadFails
  <2>1. siglip' \in Siglip
    <3>1. SiglipComplete \in Siglip
      BY DEF SiglipComplete, Siglip
    <3>2. SiglipPartial \subseteq Siglip
      <4>1. NoSiglip \in Siglip
        BY DEF NoSiglip, Siglip
      <4>2. [NoSiglip EXCEPT !.model = "loaded", !.vision = "empty"] \in Siglip
        BY DEF NoSiglip, Siglip
      <4>3. [NoSiglip EXCEPT !.model = "loaded", !.vision = "loaded",
                             !.text = "empty"] \in Siglip
        BY DEF NoSiglip, Siglip
      <4>4. [model |-> "loaded", vision |-> "loaded", text |-> "loaded",
             tokenizer |-> IF TokenizerGiven THEN "empty" ELSE "null"] \in Siglip
        BY DEF Siglip
      <4> QED
        BY <4>1, <4>2, <4>3, <4>4 DEF SiglipPartial
    <3> QED
      BY <1>0, <1>11, <3>1, <3>2 DEF LoadSiglip, LoadFails, TypeOK
  <2> QED
    BY <1>0, <1>11, <2>1, <1>a DEF LoadSiglip, LoadFails, Reply, TypeOK,
         LoadsInOrder, PeersNeverStack, SizesAreFiles, OwnResolution, GraphModels
<1>12. CASE \E m \in GraphModels : Compute(m)
  <2> PICK m \in GraphModels : Compute(m)
    BY <1>12
  <2>1. pc = "infer" /\ job.family = m /\ SetModel(m, "ready")
        /\ last' = [job |-> job, extent |-> model'[m].extent]
        /\ pc' = "recv" /\ job' = NoJob /\ UNCHANGED <<native, sam3, siglip>>
    BY DEF Compute, Reply
  <2>2. /\ model' \in [GraphModels -> Slot]
        /\ \A k \in GraphModels : model'[k].loaded = model[k].loaded
        /\ SizesAreFiles'
        /\ model'[m].extent = WantedExtent(m)
        /\ WantedExtent(m) = ImageExtent(m, job.image,
                               IF job.res > 0 /\ FileSize[m] > 0 THEN job.res
                               ELSE FileSize[m])
    BY <2>1, SetModelFacts
  <2>3. model'[m].extent \in Extent
    <3>1. model[m].loaded
      BY <2>1 DEF LoadsInOrder
    <3> QED
      <4>1. model'[m] \in Slot /\ model'[m] # Empty
        BY <2>2, <3>1 DEF Empty
      <4> QED
        BY <4>1 DEF Slot
  <2>4. TypeOK'
    BY <1>0, <1>a, <2>1, <2>2, <2>3 DEF TypeOK
  <2>5. LoadsInOrder'
    BY <2>1 DEF LoadsInOrder
  <2>6. PeersNeverStack'
    BY <2>1, <2>2, <1>d DEF PeersNeverStack
  <2>7. OwnResolution'
    <3>1. last'.job = job /\ last'.extent = WantedExtent(m)
      BY <2>1, <2>2
    <3> QED
      BY <2>1, <2>2, <3>1 DEF OwnResolution
  <2> QED
    BY <2>2, <2>4, <2>5, <2>6, <2>7
<1>13. CASE \E m \in GraphModels : AllocateFails(m)
  <2> PICK m \in GraphModels : AllocateFails(m)
    BY <1>13
  <2>1. pc = "infer" /\ job.family = m /\ SetModel(m, "unallocated")
        /\ pc' = "recv" /\ job' = NoJob /\ UNCHANGED <<native, sam3, siglip, last>>
    BY DEF AllocateFails, Reply
  <2>2. /\ model' \in [GraphModels -> Slot]
        /\ \A k \in GraphModels : model'[k].loaded = model[k].loaded
        /\ SizesAreFiles'
    BY <2>1, SetModelFacts
  <2>3. TypeOK'
    BY <1>0, <1>a, <2>1, <2>2 DEF TypeOK
  <2>4. LoadsInOrder'
    BY <2>1 DEF LoadsInOrder
  <2>5. PeersNeverStack' /\ OwnResolution'
    BY <2>1, <2>2, <1>d DEF PeersNeverStack, OwnResolution
  <2> QED
    BY <2>2, <2>3, <2>4, <2>5
<1>14. CASE \E m \in GraphModels : ComputeUnallocated(m)
  BY <1>0, <1>14 DEF ComputeUnallocated, TypeOK, LoadsInOrder,
                     PeersNeverStack, SizesAreFiles, OwnResolution
<1>15. CASE UNCHANGED vars
  BY <1>0, <1>15 DEF vars, TypeOK, LoadsInOrder, PeersNeverStack,
                     SizesAreFiles, OwnResolution
<1> QED
  BY <1>1, <1>2, <1>3, <1>4, <1>5, <1>6, <1>7, <1>8, <1>9, <1>10, <1>11,
     <1>12, <1>13, <1>14, <1>15, <1>16 DEF Next

-----------------------------------------------------------------------------
\* IInv holds in every state of the worker, for any model files and requests.
THEOREM Invariant == Spec => []IInv
  BY InitIInv, NextIInv, PTL DEF Spec

\* The worker's state keeps its types, whatever loads and allocations fail.
THEOREM TypeCorrect == Spec => []TypeOK
<1>1. IInv => TypeOK
  BY DEF IInv
<1> QED
  BY <1>1, Invariant, PTL

\* load_matting and load_sam3 keep the two heavyweights from being resident
\* together, for any set of configured families.
THEOREM Peers == Spec => []PeersNeverStack
<1>1. IInv => PeersNeverStack
  BY DEF IInv
<1> QED
  BY <1>1, Invariant, PTL

\* A SAM 3 model without its state is never left for the next request.
THEOREM Sam3Whole == Spec => []Sam3IsWhole
<1>1. IInv => Sam3IsWhole
  BY DEF IInv, LoadsInOrder, Sam3IsWhole
<1> QED
  BY <1>1, Invariant, PTL

\* No computation runs at a resolution left over from another request, for any
\* model sizes, patch multiple, requested resolutions and images.
THEOREM Resolution == Spec => []OwnResolution
<1>1. IInv => OwnResolution
  BY DEF IInv
<1> QED
  BY <1>1, Invariant, PTL
=============================================================================
