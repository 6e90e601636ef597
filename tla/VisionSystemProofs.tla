------------------------- MODULE VisionSystemProofs -------------------------
(***************************************************************************)
(* Proofs of VisionServer's safety properties, for any number of handler   *)
(* threads, pids and cards, any configuration, batch size and threshold;   *)
(* and, from those, of the whole server with WorkerModels inside its       *)
(* worker, for any configuration, model files, resolutions and images.     *)
(*                                                                         *)
(* The inductive invariant IInv of VisionServer has six conjuncts.         *)
(* StateOK types the state.  MutexDiscipline says who may be in a locked   *)
(* region: two threads never are, so every fact about "the thread that     *)
(* holds the lock" is one about a single thread.  HandleOK says what that  *)
(* thread may rely on: a worker_pid while it exchanges frames, none while  *)
(* it awaits HELLO.  NothingLeaks ties the process table and the open      *)
(* descriptors to the handle.  RequestsOK and InFlightCounts keep the      *)
(* counter true.  One section per conjunct shows that every step preserves *)
(* it; they come together in StepIInv.  The sections after that build on   *)
(* IInv.                                                                   *)
(*                                                                         *)
(* The last part is about the worker with its models (SysInv).  A busy     *)
(* worker is handling what the frame it took asks for (Handling), and gets *)
(* past loading only with a model that it was given (Given): so what it    *)
(* answers is among the Answers of VisionServer, and all that is proved of *)
(* a VisionServer holds of the system.  What a failure leaves in memory is *)
(* gone with the process (Ended), which is why a worker unharmed is a      *)
(* worker intact (Intact).                                                 *)
(***************************************************************************)
EXTENDS VisionSystem, FiniteSetTheorems, TLAPS

(***************************************************************************)
(* The server: threads, mutex, worker handle and watchdog.                 *)
(***************************************************************************)

\* Every conjunct of TypeOK but the first, which needs InFlightCounts.
StateOK ==
    /\ since \in 0 .. Threshold
    /\ mtx \in Clients \cup {NoThread, "watchdog"}
    /\ next_gpu \in Gpus \cup {NoGpu}
    /\ worker \in Handle
    /\ spawning \in Pids \cup {NoPid}
    /\ pc \in [Clients -> PCs]
    /\ req \in [Clients -> Request]
    /\ wd \in {"wait", "try", "check", "kill"}
    /\ proc \in [Pids -> Process]
    /\ sock \in [Pids -> Socket]

\* Who exchanges frames has one to exchange; a call of /v1/admin/load has none,
\* and is not counted in_flight.
RequestsOK ==
    /\ \A t \in Clients : pc[t] \in {"send", "recv"} => req[t].left > 0
    /\ \A t \in Clients : req[t].family = "load" =>
           req[t].left = 0 /\ pc[t] # "leaving"

\* A locked region has the process it is about to use.
HandleOK ==
    /\ spawning # NoPid <=> \E t \in Clients : pc[t] = "hello"
    /\ spawning # NoPid => ~Alive
    /\ \A t \in Clients : pc[t] \in {"send", "recv"} => Alive

\* The inductive invariant.
IInv ==
    /\ StateOK
    /\ RequestsOK
    /\ HandleOK
    /\ NothingLeaks
    /\ MutexDiscipline
    /\ InFlightCounts

\* The constant frames and the initial process and socket have their types.
LEMMA FrameTypes ==
  /\ NoFrame \in Frame
  /\ ErrFrame \in Frame
  /\ Unborn \in Process
  /\ Closed \in Socket
  BY ConstantsAssumption DEF ConstantsAssumption, NoFrame, ErrFrame, Frame,
     Unborn, Process, Closed, Socket, Backends, Families

\* So does the request of a thread that was turned away or that loads.
LEMMA NoRequestType == \A f \in Families \cup {"load"} :
                          [NoRequest EXCEPT !.family = f] \in Request
  BY ConstantsAssumption DEF ConstantsAssumption, NoRequest, Request, Backends, Families

\* What Send puts on the socket is a frame.
LEMMA RequestFrameType ==
  ASSUME req \in [Clients -> Request], NEW t \in Clients,
         req[t].family # "load"
  PROVE  RequestFrame(t) \in Frame
  BY DEF RequestFrame, Request, Frame

\* The initial state has its types.
LEMMA InitType == Init => StateOK
<1> SUFFICES ASSUME Init PROVE StateOK
  OBVIOUS
<1>1. NoRequest \in Request
  BY NoRequestType DEF NoRequest
<1>2. req \in [Clients -> Request] /\ pc \in [Clients -> PCs]
  BY <1>1 DEF Init, PCs
<1>3. proc \in [Pids -> Process] /\ sock \in [Pids -> Socket]
  BY FrameTypes DEF Init
<1>4. worker \in Handle
  BY ConstantsAssumption DEF ConstantsAssumption, Init, Handle
<1>5. since \in 0 .. Threshold
  <2>1. Threshold \in 0 .. Threshold
    BY ConstantsAssumption DEF ConstantsAssumption
  <2> QED
    BY <2>1 DEF Init
<1> QED
  BY <1>2, <1>3, <1>4, <1>5 DEF Init, StateOK

\* Waiting for a child keeps the process table's type.
LEMMA ReapType ==
  ASSUME NEW procs \in [Pids -> Process], NEW p
  PROVE  Reap(procs, p) \in [Pids -> Process]
  BY FrameTypes DEF Reap

\* Closing a descriptor keeps the socket table's type.
LEMMA CloseType ==
  ASSUME NEW socks \in [Pids -> Socket], NEW p
  PROVE  Close(socks, p) \in [Pids -> Socket]
  BY FrameTypes DEF Close

\* Forgetting a worker, and giving the handle a card, keep its type.
LEMMA ForgetType ==
  ASSUME worker \in Handle
  PROVE  /\ Forget(worker) \in Handle
         /\ \A g \in Gpus \cup {NoGpu} : [Forget(worker) EXCEPT !.gpu = g] \in Handle
  BY DEF Handle, Forget

\* A socket may be replaced by any other.
LEMMA SetSocketType ==
  ASSUME NEW socks \in [Pids -> Socket], NEW p \in Pids, NEW s \in Socket
  PROVE  [socks EXCEPT ![p] = s] \in [Pids -> Socket]
  OBVIOUS

\* Both directions of a socket are sequences of frames.
LEMMA StreamType ==
  ASSUME sock \in [Pids -> Socket], NEW p \in Pids
  PROVE  sock[p].from \in Seq(Frame) /\ sock[p].to \in Seq(Frame)
  BY DEF Socket

\* Either direction may be replaced by any sequence of frames.
LEMMA SocketType ==
  ASSUME sock \in [Pids -> Socket], NEW p \in Pids, NEW s \in Seq(Frame)
  PROVE  /\ [sock EXCEPT ![p].from = s] \in [Pids -> Socket]
         /\ [sock EXCEPT ![p].to = s] \in [Pids -> Socket]
  BY DEF Socket

\* Reading the first frame of a stream keeps the types.
LEMMA ReadType ==
  ASSUME sock \in [Pids -> Socket], NEW p \in Pids
  PROVE  /\ sock[p].from # <<>> => [sock EXCEPT ![p].from = Tail(@)] \in [Pids -> Socket]
         /\ sock[p].to # <<>> => [sock EXCEPT ![p].to = Tail(@)] \in [Pids -> Socket]
<1>1. ASSUME NEW s \in Seq(Frame), s # <<>>
      PROVE  Tail(s) \in Seq(Frame)
  BY <1>1
<1> QED
  BY <1>1, StreamType, SocketType

\* Appending a frame to a stream keeps the types.
LEMMA WriteType ==
  ASSUME sock \in [Pids -> Socket], NEW p \in Pids, NEW f \in Frame
  PROVE  /\ [sock EXCEPT ![p].from = Append(@, f)] \in [Pids -> Socket]
         /\ [sock EXCEPT ![p].to = Append(@, f)] \in [Pids -> Socket]
<1>1. ASSUME NEW s \in Seq(Frame)
      PROVE  Append(s, f) \in Seq(Frame)
  BY <1>1
<1> QED
  BY <1>1, StreamType, SocketType

\* A thread that goes to a label of PCs keeps pc's type.
LEMMA GotoType ==
  ASSUME pc \in [Clients -> PCs], NEW t \in Clients, NEW l \in PCs, Goto(t, l)
  PROVE  pc' \in [Clients -> PCs]
  BY DEF Goto

\* The labels the actions use are labels.
LEMMA PCLabels == \A l \in {"idle", "queued", "respond", "leaving", "ensure",
                     "hello", "send", "recv", "unlock", "fail"} : l \in PCs
  BY DEF PCs, Locked

\* kill_worker_locked keeps the types.
LEMMA KillType ==
  ASSUME StateOK, KillWorker
  PROVE  worker' \in Handle /\ proc' \in [Pids -> Process] /\ sock' \in [Pids -> Socket]
  BY ReapType, CloseType, ForgetType DEF StateOK, KillWorker

\* A request put together from well-typed parts is one.
LEMMA RequestType ==
  ASSUME NEW f \in Families \cup {"load"}, NEW b \in Backends,
         NEW n \in 0 .. MaxBatch, NEW g \in Gpus \cup {NoGpu}, NEW s \in Sizes
  PROVE  [family |-> f, backend |-> b, gpu |-> g, left |-> n, size |-> s] \in Request
  BY ConstantsAssumption DEF ConstantsAssumption, Request

\* Every request an endpoint queues has its type.
LEMMA QueueType ==
  ASSUME StateOK, NEW t \in Clients, NEW F, NEW B, NEW N,
         F \subseteq Families, B \subseteq Backends, N \subseteq 0 .. MaxBatch,
         Queue(t, F, B, N)
  PROVE  req' \in [Clients -> Request] /\ pc' \in [Clients -> PCs]
<1>1. pc' \in [Clients -> PCs]
  BY GotoType, PCLabels DEF Queue, StateOK
<1>2. PICK f \in F, b \in B, n \in N, g \in Gpus \cup {NoGpu}, s \in Sizes :
         req' = [req EXCEPT ![t] = [family |-> f, backend |-> b, gpu |-> g,
                                    left |-> n, size |-> s]]
  BY DEF Queue
<1>3. [family |-> f, backend |-> b, gpu |-> g, left |-> n, size |-> s] \in Request
  BY RequestType
<1> QED
  BY <1>1, <1>2, <1>3 DEF StateOK

\* And so does the one of an early return.
LEMMA RejectType ==
  ASSUME StateOK, NEW t \in Clients, NEW f \in Families, Reject(t, f)
  PROVE  req' \in [Clients -> Request] /\ pc' \in [Clients -> PCs]
  BY NoRequestType, GotoType, PCLabels DEF Reject, StateOK

\* The four counted endpoints keep the types.
LEMMA EndpointType ==
  ASSUME StateOK, NEW t \in Clients, NEW e, Arrive(t, e),
         NEW F, NEW B, NEW N, NEW f \in Families,
         F \subseteq Families, B \subseteq Backends, N \subseteq 0 .. MaxBatch,
         Queue(t, F, B, N) \/ Reject(t, f)
  PROVE  StateOK'
<1>1. req' \in [Clients -> Request] /\ pc' \in [Clients -> PCs]
  BY QueueType, RejectType
<1>2. since' \in 0 .. Threshold
  BY ConstantsAssumption DEF ConstantsAssumption, Arrive
<1> QED
  BY <1>1, <1>2 DEF Arrive, StateOK

\* Every step of a handler thread keeps the types.
LEMMA ClientType ==
  ASSUME IInv, NEW t \in Clients, ClientStep(t)
  PROVE  StateOK'
<1>0. StateOK /\ HandleOK /\ RequestsOK /\ NothingLeaks
  BY DEF IInv
<1>1. CASE Remove(t)
  <2>1. "matte" \in Families /\ 1 .. MaxBatch \subseteq 0 .. MaxBatch
    BY DEF Families
  <2>2. Arrive(t, "remove") /\ (Queue(t, {"matte"}, Backends, 1 .. MaxBatch) \/ Reject(t, "matte"))
    BY <1>1 DEF Remove
  <2> QED
    BY <1>0, <2>1, <2>2, EndpointType
<1>2. CASE Depth(t)
  <2>1. /\ "depth2" \in Families /\ {"depth2", "depth3"} \cap ParentConfig \subseteq Families
        /\ Backends \subseteq Backends /\ 1 .. MaxBatch \subseteq 0 .. MaxBatch
    BY ConstantsAssumption DEF ConstantsAssumption, Families
  <2>2. /\ Arrive(t, "depth")
        /\ \/ Queue(t, {"depth2", "depth3"} \cap ParentConfig, Backends, 1 .. MaxBatch)
           \/ Reject(t, "depth2")
    BY <1>2 DEF Depth
  <2> QED
    BY <1>0, <2>1, <2>2, EndpointType
<1>3. CASE Siglip(t)
  <2>1. /\ "siglip" \in Families /\ {"siglip"} \cap ParentConfig \subseteq Families
        /\ {DefaultBackend} \subseteq Backends /\ {1} \subseteq 0 .. MaxBatch
    BY ConstantsAssumption DEF ConstantsAssumption, Families
  <2>2. /\ Arrive(t, "siglip")
        /\ \/ Queue(t, {"siglip"} \cap ParentConfig, {DefaultBackend}, {1})
           \/ Reject(t, "siglip")
    BY <1>3 DEF Siglip
  <2> QED
    BY <1>0, <2>1, <2>2, EndpointType
<1>4. CASE Parts(t)
  <2>1. /\ "parts" \in Families /\ {"parts"} \cap ParentConfig \subseteq Families
        /\ Backends \subseteq Backends /\ {1} \subseteq 0 .. MaxBatch
    BY ConstantsAssumption DEF ConstantsAssumption, Families
  <2>2. /\ Arrive(t, "parts")
        /\ \/ Queue(t, {"parts"} \cap ParentConfig, Backends, {1})
           \/ Reject(t, "parts")
    BY <1>4 DEF Parts
  <2> QED
    BY <1>0, <2>1, <2>2, EndpointType
<1>5. CASE AdminLoad(t)
  <2>1. NoRequest \in Request
    BY NoRequestType DEF NoRequest
  <2> QED
    BY <1>0, <1>5, <2>1, GotoType, PCLabels DEF AdminLoad, StateOK, server
<1>6. CASE Acquire(t)
  <2>1. next_gpu' \in Gpus \cup {NoGpu}
    BY <1>0, <1>6 DEF Acquire, TakeRequestGpu, Request, StateOK
  <2> QED
    BY <1>0, <1>6, <2>1, GotoType, PCLabels DEF Acquire, StateOK
<1>7. CASE EnsureWarm(t)
  BY <1>0, <1>7, GotoType, PCLabels DEF EnsureWarm, AfterEnsure, StateOK, server
<1>8. CASE EnsureSpawn(t)
  <2>1. WantGpu \in Gpus \cup {NoGpu}
    BY <1>0, ConstantsAssumption DEF ConstantsAssumption, WantGpu, StateOK
  <2>2. PICK p \in Pids :
          /\ proc' = [BeforeFork EXCEPT ![p] =
                        [state |-> "loading", backend |-> req[t].backend,
                         gpu |-> WantGpu, cur |-> NoFrame]]
          /\ sock' = [Close(sock, worker.fd) EXCEPT ![p] =
                        [open |-> TRUE, to |-> <<>>, from |-> <<>>]]
          /\ spawning' = p
    BY <1>8 DEF EnsureSpawn
  <2>3. proc' \in [Pids -> Process]
    <3>1. BeforeFork \in [Pids -> Process]
      BY <1>0, ReapType DEF StateOK, BeforeFork
    <3>2. [state |-> "loading", backend |-> req[t].backend, gpu |-> WantGpu,
           cur |-> NoFrame] \in Process
      BY <1>0, <2>1, FrameTypes DEF StateOK, Process, Request
    <3> QED
      BY <2>2, <3>1, <3>2
  <2>4. sock' \in [Pids -> Socket]
    <3>1. Close(sock, worker.fd) \in [Pids -> Socket]
      BY <1>0, CloseType DEF StateOK
    <3>2. [open |-> TRUE, to |-> <<>>, from |-> <<>>] \in Socket
      BY DEF Socket
    <3> QED
      BY <2>2, <3>1, <3>2
  <2> QED
    BY <1>0, <1>8, <2>1, <2>2, <2>3, <2>4, ForgetType, GotoType, PCLabels
    DEF EnsureSpawn, StateOK
<1>9. CASE EnsureForkFails(t)
  <2>1. WantGpu \in Gpus \cup {NoGpu}
    BY <1>0, ConstantsAssumption DEF ConstantsAssumption, WantGpu, StateOK
  <2> QED
    BY <1>0, <1>9, <2>1, GotoType, PCLabels, ReapType, CloseType, ForgetType
    DEF EnsureForkFails, BeforeFork, StateOK
<1>10. CASE HelloArrives(t)
  <2>1. spawning \in Pids
    BY <1>0, <1>10 DEF HelloArrives, HandleOK, StateOK
  <2>2. worker' \in Handle
    BY <1>0, <1>10, <2>1 DEF HelloArrives, StateOK, Handle, Process, Request
  <2>3. sock' \in [Pids -> Socket]
    BY <1>0, <1>10, <2>1, ReadType DEF HelloArrives, StateOK
  <2> QED
    BY <1>0, <1>10, <2>2, <2>3, GotoType, PCLabels DEF HelloArrives, AfterEnsure, StateOK
<1>11. CASE HelloFails(t)
  BY <1>0, <1>11, GotoType, PCLabels, ReapType, CloseType DEF HelloFails, StateOK
<1>12. CASE Send(t)
  <2>1. worker.fd \in Pids
    BY <1>0, <1>12 DEF Send, HandleOK, NothingLeaks, StateOK, Alive, Handle
  <2>2. req[t].family # "load"
    BY <1>0, <1>12 DEF Send, RequestsOK
  <2> QED
    BY <1>0, <1>12, <2>1, <2>2, GotoType, PCLabels, WriteType, RequestFrameType
    DEF Send, StateOK, server
<1>13. CASE SendFails(t)
  BY <1>0, <1>13, GotoType, PCLabels, KillType DEF SendFails, StateOK
<1>14. CASE Recv(t)
  <2>1. worker.fd \in Pids
    BY <1>0, <1>14 DEF Recv, HandleOK, NothingLeaks, StateOK, Alive, Handle
  <2>2. sock' \in [Pids -> Socket]
    BY <1>0, <1>14, <2>1, ReadType DEF Recv, StateOK
  <2>3. req' \in [Clients -> Request]
    <3>1. req[t].left - 1 \in 0 .. MaxBatch
      <4>1. req[t].left \in 0 .. MaxBatch /\ req[t].left > 0
        BY <1>0, <1>14 DEF Recv, RequestsOK, StateOK, Request
      <4> QED
        BY <4>1, ConstantsAssumption DEF ConstantsAssumption
    <3>2. [req[t] EXCEPT !.left = @ - 1] \in Request
      BY <1>0, <3>1 DEF StateOK, Request
    <3> QED
      BY <1>0, <1>14, <3>2 DEF Recv, StateOK
  <2> QED
    BY <1>0, <1>14, <2>2, <2>3, GotoType, PCLabels DEF Recv, StateOK, server
<1>15. CASE RecvError(t)
  <2>1. worker.fd \in Pids
    BY <1>0, <1>15 DEF RecvError, HandleOK, NothingLeaks, StateOK, Alive, Handle
  <2> QED
    BY <1>0, <1>15, <2>1, GotoType, PCLabels, ReadType DEF RecvError, StateOK, server
<1>16. CASE RecvFails(t)
  BY <1>0, <1>16, GotoType, PCLabels, KillType DEF RecvFails, StateOK
<1>17. CASE Unlock(t)
  BY <1>0, <1>17, GotoType, PCLabels DEF Unlock, StateOK
<1>18. CASE Fail(t)
  BY <1>0, <1>18, ConstantsAssumption, GotoType, PCLabels
  DEF Fail, AfterFail, StateOK, ConstantsAssumption
<1>19. CASE Respond(t)
  BY <1>0, <1>19, ConstantsAssumption, GotoType, PCLabels
  DEF Respond, StateOK, ConstantsAssumption
<1>20. CASE Leave(t)
  BY <1>0, <1>20, GotoType, PCLabels DEF Leave, StateOK
<1> QED
  BY <1>1, <1>2, <1>3, <1>4, <1>5, <1>6, <1>7, <1>8, <1>9, <1>10, <1>11, <1>12,
     <1>13, <1>14, <1>15, <1>16, <1>17, <1>18, <1>19, <1>20
  DEF ClientStep, LockedStep

\* Every step of a worker process keeps the types.
LEMMA WorkerType ==
  ASSUME IInv, NEW p \in Pids, WorkerServes(p) \/ WorkerDies(p)
  PROVE  StateOK'
<1>1. StateOK /\ proc \in [Pids -> Process] /\ sock \in [Pids -> Socket]
  BY DEF IInv, StateOK
<1>2. ASSUME NEW st \in {"loading", "ready", "busy", "dead"}, NEW f \in Frame
      PROVE  /\ [proc EXCEPT ![p].state = st] \in [Pids -> Process]
             /\ [proc EXCEPT ![p].state = st, ![p].cur = f] \in [Pids -> Process]
  BY <1>1 DEF Process
<1>3. ASSUME UNCHANGED parent, proc' \in [Pids -> Process], sock' \in [Pids -> Socket]
      PROVE  StateOK'
  BY <1>1, <1>3 DEF StateOK, parent
<1>4. CASE WorkerHello(p)
  BY <1>1, <1>2, <1>3, <1>4, FrameTypes, WriteType DEF WorkerHello
<1>5. CASE WorkerLoadFails(p)
  <2>1. sock' \in [Pids -> Socket]
    <3>1. CASE WorkerConfig = {}
      <4>1. sock' = [sock EXCEPT ![p].from = @]
        BY <1>5, <3>1 DEF WorkerLoadFails
      <4> QED
        BY <1>1, <4>1, StreamType, SocketType
    <3>2. CASE WorkerConfig # {}
      BY <1>1, <1>5, <3>2, FrameTypes, WriteType DEF WorkerLoadFails
    <3> QED
      BY <3>1, <3>2
  <2> QED
    BY <1>2, <1>3, <1>5, <2>1, FrameTypes DEF WorkerLoadFails
<1>6. CASE WorkerTakes(p)
  <2>1. Head(sock[p].to) \in Frame
    <3>1. ASSUME NEW s \in Seq(Frame), s # <<>>
          PROVE  Head(s) \in Frame
      BY <3>1
    <3> QED
      BY <1>1, <1>6, <3>1, StreamType DEF WorkerTakes
  <2> QED
    BY <1>1, <1>2, <1>3, <1>6, <2>1, ReadType DEF WorkerTakes
<1>7. CASE WorkerReplies(p)
  <2>1. proc[p].cur \in Frame
    BY <1>1 DEF Process
  <2>2. ASSUME NEW a \in Answers(proc[p].cur)
        PROVE  [proc[p].cur EXCEPT !.type = a] \in Frame
    BY <2>1, <2>2 DEF Answers, Frame
  <2>3. sock' \in [Pids -> Socket]
    <3>1. PICK a \in Answers(proc[p].cur) :
            \/ UNCHANGED sock
            \/ sock' = [sock EXCEPT ![p].from =
                          Append(@, [proc[p].cur EXCEPT !.type = a])]
      BY <1>7 DEF WorkerReplies
    <3>2. [proc[p].cur EXCEPT !.type = a] \in Frame
      BY <2>2
    <3>3. CASE UNCHANGED sock
      BY <1>1, <3>3
    <3>4. CASE sock' = [sock EXCEPT ![p].from =
                         Append(@, [proc[p].cur EXCEPT !.type = a])]
      BY <1>1, <3>2, <3>4, WriteType
    <3> QED
      BY <3>1, <3>3, <3>4
  <2> QED
    BY <1>2, <1>3, <1>7, <2>3, FrameTypes DEF WorkerReplies
<1>8. CASE WorkerDies(p)
  <2>1. <<>> \in Seq(Frame)
    OBVIOUS
  <2> QED
    BY <1>1, <1>2, <1>3, <1>8, <2>1, FrameTypes, SocketType DEF WorkerDies
<1> QED
  BY <1>4, <1>5, <1>6, <1>7, <1>8 DEF WorkerServes

\* Every step of the watchdog, of /unload and of time keeps the types.
LEMMA OtherType ==
  ASSUME IInv, Unload \/ WatchdogStep \/ Tick \/ UNCHANGED vars
  PROVE  StateOK'
<1>1. StateOK
  BY DEF IInv
<1>2. CASE Unload
  BY <1>1, <1>2, KillType DEF Unload, StateOK
<1>3. CASE WatchdogKills
  BY <1>1, <1>3, KillType DEF WatchdogKills, Watchdog, StateOK
<1>4. CASE WatchdogWakes \/ WatchdogLocks \/ WatchdogMissesLock
             \/ WatchdogDecides \/ WatchdogGivesUp
  BY <1>1, <1>4 DEF WatchdogWakes, WatchdogLocks, WatchdogMissesLock,
     WatchdogDecides, WatchdogGivesUp, Watchdog, StateOK, server
<1>5. CASE Tick
  BY <1>1, <1>5, ConstantsAssumption DEF ConstantsAssumption, Tick, StateOK
<1>6. CASE UNCHANGED vars
  BY <1>1, <1>6 DEF vars, StateOK
<1> QED
  BY <1>2, <1>3, <1>4, <1>5, <1>6 DEF WatchdogStep

-----------------------------------------------------------------------------
(***************************************************************************)
(* The lock.                                                               *)
(***************************************************************************)
\* The four ways a handler thread moves with respect to the lock.
Moves(t) ==
    /\ UNCHANGED wd
    /\ \E l \in PCs :
          /\ Goto(t, l)
          /\ \/ pc[t] \notin Locked /\ l \notin Locked /\ mtx' = mtx
             \/ pc[t] \notin Locked /\ l \in Locked /\ mtx = NoThread /\ mtx' = t
             \/ pc[t] \in Locked /\ l \in Locked /\ mtx' = mtx
             \/ pc[t] \in Locked /\ l \notin Locked /\ mtx' = NoThread

\* A handler thread takes the lock from nobody, keeps it, or gives it back.
LEMMA ClientMoves ==
  ASSUME NEW t \in Clients, ClientStep(t)
  PROVE  Moves(t)
<1> USE DEF Moves, PCs, Locked
<1>1. CASE Remove(t) \/ Depth(t) \/ Siglip(t) \/ Parts(t)
  <2>1. UNCHANGED <<wd, mtx>> /\ pc[t] = "idle"
    BY <1>1 DEF Remove, Depth, Siglip, Parts, Arrive
  <2>2. Goto(t, "queued") \/ Goto(t, "leaving")
    BY <1>1 DEF Remove, Depth, Siglip, Parts, Queue, Reject
  <2> QED
    BY <2>1, <2>2
<1>2. CASE AdminLoad(t)
  BY <1>2 DEF AdminLoad, server
<1>3. CASE Acquire(t)
  BY <1>3 DEF Acquire
<1>4. CASE EnsureWarm(t) \/ EnsureSpawn(t) \/ EnsureForkFails(t)
  BY <1>4 DEF EnsureWarm, EnsureSpawn, EnsureForkFails, AfterEnsure, server
<1>5. CASE HelloArrives(t) \/ HelloFails(t)
  BY <1>5 DEF HelloArrives, HelloFails, AfterEnsure
<1>6. CASE Send(t) \/ SendFails(t)
  BY <1>6 DEF Send, SendFails, server
<1>7. CASE Recv(t) \/ RecvError(t) \/ RecvFails(t)
  BY <1>7 DEF Recv, RecvError, RecvFails, server
<1>8. CASE Unlock(t) \/ Fail(t)
  BY <1>8 DEF Unlock, Fail, AfterFail
<1>9. CASE Respond(t) \/ Leave(t)
  BY <1>9 DEF Respond, Leave
<1> QED
  BY <1>1, <1>2, <1>3, <1>4, <1>5, <1>6, <1>7, <1>8, <1>9 DEF ClientStep, LockedStep

\* Every step keeps the lock with the one thread in a locked region.
LEMMA MutexStep ==
  ASSUME IInv, [Next]_vars
  PROVE  MutexDiscipline'
<1>1. pc \in [Clients -> PCs] /\ MutexDiscipline
  BY DEF IInv, StateOK
<1>2. NoThread \notin Clients /\ "watchdog" \notin Clients /\ NoThread # "watchdog"
  BY ConstantsAssumption DEF ConstantsAssumption
<1>3. CASE \E t \in Clients : ClientStep(t)
  <2>1. PICK t \in Clients : Moves(t)
    BY <1>3, ClientMoves
  <2> QED
    BY <1>1, <1>2, <2>1 DEF Moves, Goto, MutexDiscipline
<1>4. CASE UNCHANGED <<pc, mtx, wd>>
  BY <1>1, <1>4 DEF MutexDiscipline
<1>5. CASE Unload \/ Tick \/ UNCHANGED vars
  BY <1>4, <1>5 DEF Unload, Tick, vars
<1>6. CASE \E p \in Pids : WorkerServes(p) \/ WorkerDies(p)
  BY <1>4, <1>6 DEF WorkerServes, WorkerHello, WorkerLoadFails, WorkerTakes,
     WorkerReplies, WorkerDies, parent
<1>7. CASE WatchdogStep
  BY <1>1, <1>2, <1>7 DEF WatchdogStep, WatchdogWakes, WatchdogLocks,
     WatchdogMissesLock, WatchdogDecides, WatchdogGivesUp, WatchdogKills,
     Watchdog, MutexDiscipline, server
<1> QED
  BY <1>3, <1>5, <1>6, <1>7 DEF Next

-----------------------------------------------------------------------------
(***************************************************************************)
(* in_flight.                                                              *)
(***************************************************************************)
Counted == {t \in Clients : pc[t] # "idle" /\ req[t].family # "load"}

\* The guarded requests are finitely many, so counting them makes sense.
LEMMA CountedFinite == IsFiniteSet(Counted) /\ IsFiniteSet(Counted')
<1>1. IsFiniteSet(Clients)
  BY ConstantsAssumption DEF ConstantsAssumption
<1>2. Counted \subseteq Clients /\ Counted' \subseteq Clients
  BY DEF Counted
<1> QED
  BY <1>1, <1>2, FS_Subset

\* An endpoint that counts itself adds one thread to those counted.
LEMMA ArriveCounts ==
  ASSUME IInv, NEW t \in Clients, NEW e, Arrive(t, e), NEW F, NEW B, NEW N,
         NEW f \in Families, F \subseteq Families,
         Queue(t, F, B, N) \/ Reject(t, f)
  PROVE  InFlightCounts' /\ RequestsOK'
<1>1. pc \in [Clients -> PCs] /\ req \in [Clients -> Request] /\ RequestsOK
  BY DEF IInv, StateOK
<1>2. "load" \notin Families
  BY DEF Families
<1>3. pc' = [pc EXCEPT ![t] = "queued"] \/ pc' = [pc EXCEPT ![t] = "leaving"]
  BY DEF Queue, Reject, Goto
<1>4. /\ req'[t].family # "load"
      /\ \A u \in Clients \ {t} : req'[u] = req[u]
  BY <1>1, <1>2 DEF Queue, Reject, NoRequest
<1>5. Counted' = Counted \cup {t} /\ t \notin Counted
  BY <1>1, <1>3, <1>4 DEF Counted, Arrive
<1>6. Cardinality(Counted') = Cardinality(Counted) + 1
  BY <1>5, CountedFinite, FS_AddElement
<1>7. InFlightCounts'
  BY <1>6 DEF IInv, InFlightCounts, Counted, Arrive
<1>8. RequestsOK'
  BY <1>1, <1>3, <1>4 DEF RequestsOK
<1> QED
  BY <1>7, <1>8

\* A step that changes neither in_flight nor who is counted.
LEMMA SameCount ==
  ASSUME InFlightCounts, UNCHANGED in_flight, Counted' = Counted
  PROVE  InFlightCounts'
  BY DEF InFlightCounts, Counted

\* Nothing under the lock changes who is counted.
LEMMA LockedCounts ==
  ASSUME IInv, NEW t \in Clients, LockedStep(t)
  PROVE  InFlightCounts' /\ RequestsOK'
<1>1. /\ pc \in [Clients -> PCs] /\ req \in [Clients -> Request]
      /\ RequestsOK /\ InFlightCounts
  BY DEF IInv, StateOK
<1>2. req[t].left \in Nat
  <2>1. req[t].left \in 0 .. MaxBatch
    BY <1>1 DEF Request
  <2> QED
    BY <2>1
<1>3. UNCHANGED in_flight
  BY DEF LockedStep, EnsureWarm, EnsureSpawn, EnsureForkFails, HelloArrives,
     HelloFails, Send, SendFails, Recv, RecvError, RecvFails, Unlock, Fail, server
<1>4. CASE Recv(t)
  <2>1. req' = [req EXCEPT ![t].left = @ - 1]
    BY <1>4 DEF Recv
  <2>2. /\ \A u \in Clients \ {t} : req'[u] = req[u]
        /\ req'[t].family = req[t].family /\ req'[t].left = req[t].left - 1
    BY <1>1, <2>1 DEF Request
  <2>3. /\ pc[t] = "recv"
        /\ pc' = [pc EXCEPT ![t] = IF req[t].left > 1 THEN "send" ELSE "unlock"]
    BY <1>4 DEF Recv, Goto
  <2>4. req[t].family # "load"
    BY <1>1, <2>3 DEF RequestsOK
  <2>5. Counted' = Counted
    BY <1>1, <2>2, <2>3 DEF Counted
  <2>6. RequestsOK'
    BY <1>1, <1>2, <2>2, <2>3, <2>4 DEF RequestsOK
  <2> QED
    BY <1>1, <1>3, <2>5, <2>6, SameCount
<1>5. CASE EnsureWarm(t) \/ EnsureSpawn(t) \/ EnsureForkFails(t)
             \/ HelloArrives(t) \/ HelloFails(t) \/ Send(t) \/ SendFails(t)
             \/ RecvError(t) \/ RecvFails(t) \/ Unlock(t) \/ Fail(t)
  <2>1. UNCHANGED req
    BY <1>5 DEF EnsureWarm, EnsureSpawn, EnsureForkFails, HelloArrives,
       HelloFails, Send, SendFails, RecvError, RecvFails, Unlock, Fail
  <2>2. PICK l \in PCs :
          /\ pc[t] # "idle" /\ pc' = [pc EXCEPT ![t] = l]
          /\ l = "idle" => req[t].family = "load"
          /\ l = "send" => req[t].left > 0
          /\ l = "recv" => pc[t] = "send"
          /\ l = "leaving" => req[t].family # "load"
    BY <1>5 DEF EnsureWarm, EnsureSpawn, EnsureForkFails, HelloArrives,
       HelloFails, Send, SendFails, RecvError, RecvFails, Unlock, Fail,
       AfterEnsure, AfterFail, Goto, PCs, Locked
  <2>3. Counted' = Counted
    BY <1>1, <2>1, <2>2 DEF Counted
  <2>4. RequestsOK'
    BY <1>1, <1>2, <2>1, <2>2 DEF RequestsOK
  <2> QED
    BY <1>1, <1>3, <2>3, <2>4, SameCount
<1> QED
  BY <1>4, <1>5 DEF LockedStep

\* Every step keeps in_flight at the number of guarded requests.
LEMMA CountStep ==
  ASSUME IInv, [Next]_vars
  PROVE  InFlightCounts' /\ RequestsOK'
<1>1. /\ pc \in [Clients -> PCs] /\ req \in [Clients -> Request]
      /\ RequestsOK /\ InFlightCounts
  BY DEF IInv, StateOK
<1>2. ASSUME NEW t \in Clients, Remove(t) \/ Depth(t) \/ Siglip(t) \/ Parts(t)
      PROVE  InFlightCounts' /\ RequestsOK'
  <2>1. /\ {"matte", "depth2", "siglip", "parts"} \subseteq Families
        /\ {"matte"} \subseteq Families
        /\ {"depth2", "depth3"} \cap ParentConfig \subseteq Families
        /\ {"siglip"} \cap ParentConfig \subseteq Families
        /\ {"parts"} \cap ParentConfig \subseteq Families
    BY DEF Families
  <2> QED
    BY <1>2, <2>1, ArriveCounts DEF Remove, Depth, Siglip, Parts
<1>3. ASSUME NEW t \in Clients, AdminLoad(t)
      PROVE  InFlightCounts' /\ RequestsOK'
  <2>1. /\ pc[t] = "idle" /\ pc' = [pc EXCEPT ![t] = "queued"]
        /\ req' = [req EXCEPT ![t] = NoRequest] /\ UNCHANGED in_flight
        /\ NoRequest.family = "load" /\ NoRequest.left = 0
    BY <1>3 DEF AdminLoad, Goto, NoRequest, server
  <2>2. Counted' = Counted
    BY <1>1, <2>1 DEF Counted
  <2>3. RequestsOK'
    BY <1>1, <2>1 DEF RequestsOK
  <2> QED
    BY <1>1, <2>1, <2>2, <2>3, SameCount
<1>4. ASSUME NEW t \in Clients, Acquire(t) \/ Respond(t)
      PROVE  InFlightCounts' /\ RequestsOK'
  <2>1. /\ UNCHANGED <<req, in_flight>>
        /\ \/ pc[t] = "queued" /\ pc' = [pc EXCEPT ![t] = "ensure"]
           \/ /\ pc[t] = "respond" /\ req[t].family # "load"
              /\ pc' = [pc EXCEPT ![t] = "leaving"]
           \/ /\ pc[t] = "respond" /\ req[t].family = "load"
              /\ pc' = [pc EXCEPT ![t] = "idle"]
    BY <1>4 DEF Acquire, Respond, Goto
  <2>2. Counted' = Counted
    BY <1>1, <2>1 DEF Counted
  <2>3. RequestsOK'
    BY <1>1, <2>1 DEF RequestsOK
  <2> QED
    BY <1>1, <2>1, <2>2, <2>3, SameCount
<1>5. ASSUME NEW t \in Clients, Leave(t)
      PROVE  InFlightCounts' /\ RequestsOK'
  <2>1. /\ UNCHANGED req /\ in_flight' = in_flight - 1
        /\ pc[t] = "leaving" /\ pc' = [pc EXCEPT ![t] = "idle"]
    BY <1>5 DEF Leave, Goto
  <2>2. Counted' = Counted \ {t} /\ t \in Counted
    BY <1>1, <2>1 DEF Counted, RequestsOK
  <2>3. Cardinality(Counted') = Cardinality(Counted) - 1
    BY <2>2, CountedFinite, FS_RemoveElement
  <2>4. InFlightCounts'
    BY <1>1, <2>1, <2>3 DEF InFlightCounts, Counted
  <2>5. RequestsOK'
    BY <1>1, <2>1 DEF RequestsOK
  <2> QED
    BY <2>4, <2>5
<1>6. CASE UNCHANGED <<pc, req, in_flight>>
  BY <1>1, <1>6 DEF InFlightCounts, RequestsOK
<1>7. CASE Unload \/ Tick \/ WatchdogStep \/ UNCHANGED vars
  BY <1>6, <1>7 DEF Unload, Tick, vars, WatchdogStep, WatchdogWakes,
     WatchdogLocks, WatchdogMissesLock, WatchdogDecides, WatchdogGivesUp,
     WatchdogKills, server
<1>8. CASE \E p \in Pids : WorkerServes(p) \/ WorkerDies(p)
  BY <1>6, <1>8 DEF WorkerServes, WorkerHello, WorkerLoadFails, WorkerTakes,
     WorkerReplies, WorkerDies, parent
<1> QED
  BY <1>2, <1>3, <1>4, <1>5, <1>7, <1>8, LockedCounts DEF Next, ClientStep

-----------------------------------------------------------------------------
(***************************************************************************)
(* Processes, descriptors and the handle.                                  *)
(***************************************************************************)
Open == {p \in Pids : sock[p].open}

\* While a thread holds the lock the others are outside, so what HandleOK says
\* of some thread it says of the owner.
LEMMA OwnerAlone ==
  ASSUME IInv, NEW t \in Clients, pc[t] \in Locked
  PROVE  /\ \A u \in Clients : u # t => pc[u] \notin Locked
         /\ spawning # NoPid <=> pc[t] = "hello"
  BY DEF IInv, MutexDiscipline, HandleOK, Locked

\* Waiting for p removes p from the children and nothing else.
LEMMA ReapLeaves ==
  ASSUME NEW procs \in [Pids -> Process], NEW p
  PROVE  {q \in Pids : Reap(procs, p)[q].state # "none"}
           = {q \in Pids : procs[q].state # "none"} \ {p}
  BY DEF Reap, Unborn

\* Closing p removes p from the open descriptors and nothing else.
LEMMA CloseLeaves ==
  ASSUME NEW socks \in [Pids -> Socket], NEW p
  PROVE  {q \in Pids : Close(socks, p)[q].open}
           = {q \in Pids : socks[q].open} \ {p}
  BY DEF Close, Closed, Socket

\* After kill_worker_locked there is no child left (nobody is spawning).
LEMMA KillLeaves ==
  ASSUME IInv, KillWorker, spawning = NoPid
  PROVE  /\ Unreaped' = {} /\ Open' = {}
         /\ worker'.pid = NoPid /\ worker'.fd = NoPid
<1>1. proc \in [Pids -> Process] /\ sock \in [Pids -> Socket] /\ worker \in Handle
  BY DEF IInv, StateOK
<1>2. /\ Unreaped = {worker.pid} \ {NoPid}
      /\ Open = Unreaped /\ worker.fd = worker.pid
  BY DEF IInv, NothingLeaks, Open
<1>3. Unreaped' = Unreaped \ {worker.pid}
  BY <1>1, ReapLeaves DEF KillWorker, Unreaped
<1>4. Open' = Open \ {worker.fd}
  BY <1>1, CloseLeaves DEF KillWorker, Open
<1>5. worker'.pid = NoPid /\ worker'.fd = NoPid
  BY <1>1 DEF KillWorker, Forget, Handle
<1> QED
  BY <1>2, <1>3, <1>4, <1>5

\* A step that leaves the handle, the children and the descriptors alone.
LEMMA SameProcesses ==
  ASSUME IInv, UNCHANGED <<worker, spawning>>, Unreaped' = Unreaped, Open' = Open
  PROVE  NothingLeaks'
  BY DEF IInv, NothingLeaks, Open, Unreaped

\* Every step under the lock keeps handle, children and descriptors together.
LEMMA LockedProcesses ==
  ASSUME IInv, NEW t \in Clients, LockedStep(t)
  PROVE  NothingLeaks' /\ HandleOK'
<1>1. /\ proc \in [Pids -> Process] /\ sock \in [Pids -> Socket]
      /\ worker \in Handle /\ spawning \in Pids \cup {NoPid}
      /\ pc \in [Clients -> PCs] /\ NoPid \notin Pids
      /\ NothingLeaks /\ HandleOK
  BY ConstantsAssumption DEF IInv, StateOK, ConstantsAssumption
<1>2. pc[t] \in Locked
  BY DEF LockedStep, EnsureWarm, EnsureSpawn, EnsureForkFails, HelloArrives,
     HelloFails, Send, SendFails, Recv, RecvError, RecvFails, Unlock, Fail, Locked
<1>3. /\ \A u \in Clients : u # t => pc[u] \notin Locked
      /\ spawning # NoPid <=> pc[t] = "hello"
  BY <1>2, OwnerAlone
<1>4. \A u \in Clients : u # t => pc'[u] \notin Locked
  <2>1. \A u \in Clients : u # t => pc'[u] = pc[u]
    BY <1>1, ClientMoves DEF Moves, Goto, ClientStep
  <2> QED
    BY <1>3, <2>1
\* What HandleOK' comes to.
<1>5. ASSUME spawning' # NoPid <=> pc'[t] = "hello",
             spawning' # NoPid => worker'.pid = NoPid,
             pc'[t] \in {"send", "recv"} => worker'.pid # NoPid
      PROVE  HandleOK'
  BY <1>4, <1>5 DEF HandleOK, Alive, Locked
<1>6. CASE EnsureSpawn(t)
  <2>1. spawning = NoPid
    BY <1>3, <1>6 DEF EnsureSpawn
  <2>2. PICK p \in Pids :
          /\ proc' = [BeforeFork EXCEPT ![p] =
                        [state |-> "loading", backend |-> req[t].backend,
                         gpu |-> WantGpu, cur |-> NoFrame]]
          /\ sock' = [Close(sock, worker.fd) EXCEPT ![p] =
                        [open |-> TRUE, to |-> <<>>, from |-> <<>>]]
          /\ spawning' = p
    BY <1>6 DEF EnsureSpawn
  <2>3. {q \in Pids : BeforeFork[q].state # "none"} = {}
    BY <1>1, <2>1, ReapLeaves DEF BeforeFork, NothingLeaks, Unreaped
  <2>4. {q \in Pids : Close(sock, worker.fd)[q].open} = {}
    BY <1>1, <2>1, CloseLeaves DEF NothingLeaks, Unreaped
  <2>5. BeforeFork \in [Pids -> Process] /\ Close(sock, worker.fd) \in [Pids -> Socket]
    BY <1>1, ReapType, CloseType DEF BeforeFork
  <2>6. Unreaped' = {p}
    BY <2>2, <2>3, <2>5 DEF Unreaped
  <2>7. Open' = {p}
    BY <2>2, <2>4, <2>5 DEF Open
  <2>8. worker'.pid = NoPid /\ worker'.fd = NoPid
    BY <1>1, <1>6 DEF EnsureSpawn, Forget, Handle
  <2>9. pc'[t] = "hello"
    BY <1>1, <1>6 DEF EnsureSpawn, Goto
  <2>10. NothingLeaks'
    BY <1>1, <2>2, <2>6, <2>7, <2>8 DEF NothingLeaks, Open, Unreaped
  <2> QED
    BY <1>1, <1>5, <2>2, <2>8, <2>9, <2>10
<1>7. CASE EnsureForkFails(t)
  <2>1. spawning = NoPid /\ UNCHANGED spawning /\ pc'[t] = "fail"
    BY <1>1, <1>3, <1>7 DEF EnsureForkFails, Goto
  <2>2. Unreaped' = {}
    BY <1>1, <1>7, <2>1, ReapLeaves DEF EnsureForkFails, BeforeFork, NothingLeaks, Unreaped
  <2>3. Open' = {}
    BY <1>1, <1>7, <2>1, CloseLeaves DEF EnsureForkFails, NothingLeaks, Unreaped, Open
  <2>4. worker'.pid = NoPid /\ worker'.fd = NoPid
    BY <1>1, <1>7 DEF EnsureForkFails, Forget, Handle
  <2>5. NothingLeaks'
    BY <2>1, <2>2, <2>3, <2>4 DEF NothingLeaks, Open, Unreaped
  <2> QED
    BY <1>5, <2>1, <2>5
<1>8. CASE HelloArrives(t)
  <2>1. /\ spawning \in Pids /\ worker.pid = NoPid
        /\ spawning' = NoPid /\ pc'[t] # "hello"
    BY <1>1, <1>3, <1>8 DEF HelloArrives, HandleOK, Alive, AfterEnsure, Goto
  <2>2. worker'.pid = spawning /\ worker'.fd = spawning
    BY <1>1, <1>8 DEF HelloArrives, Handle
  <2>3. Unreaped' = Unreaped /\ Open' = Open
    <3>1. UNCHANGED proc /\ sock' = [sock EXCEPT ![spawning].from = Tail(@)]
      BY <1>8 DEF HelloArrives
    <3> QED
      BY <1>1, <3>1 DEF Unreaped, Open, Socket
  <2>4. NothingLeaks'
    BY <1>1, <2>1, <2>2, <2>3 DEF NothingLeaks, Open, Unreaped
  <2> QED
    BY <1>1, <1>5, <2>1, <2>2, <2>4
<1>9. CASE HelloFails(t)
  <2>1. /\ spawning \in Pids /\ worker.pid = NoPid /\ UNCHANGED worker
        /\ spawning' = NoPid /\ pc'[t] = "fail"
    BY <1>1, <1>3, <1>9 DEF HelloFails, HandleOK, Alive, Goto
  <2>2. Unreaped' = {}
    BY <1>1, <1>9, <2>1, ReapLeaves DEF HelloFails, NothingLeaks, Unreaped
  <2>3. Open' = {}
    BY <1>1, <1>9, <2>1, CloseLeaves DEF HelloFails, NothingLeaks, Unreaped, Open
  <2>4. NothingLeaks'
    BY <1>1, <2>1, <2>2, <2>3 DEF NothingLeaks, Open, Unreaped
  <2> QED
    BY <1>5, <2>1, <2>4
<1>10. CASE SendFails(t) \/ RecvFails(t)
  <2>1. /\ KillWorker /\ spawning = NoPid /\ UNCHANGED spawning
        /\ pc'[t] = "fail"
    BY <1>1, <1>3, <1>10 DEF SendFails, RecvFails, Goto
  <2>2. /\ Unreaped' = {} /\ Open' = {}
        /\ worker'.pid = NoPid /\ worker'.fd = NoPid
    BY <2>1, KillLeaves
  <2>3. NothingLeaks'
    BY <2>1, <2>2 DEF NothingLeaks, Open, Unreaped
  <2> QED
    BY <1>5, <2>1, <2>3
<1>11. CASE EnsureWarm(t) \/ Send(t) \/ Recv(t) \/ RecvError(t) \/ Unlock(t) \/ Fail(t)
  <2>1. UNCHANGED <<worker, spawning, proc>> /\ spawning = NoPid
    BY <1>3, <1>11 DEF EnsureWarm, Send, Recv, RecvError, Unlock, Fail, server
  <2>2. Open' = Open
    <3>1. \/ UNCHANGED sock
          \/ sock' = [sock EXCEPT ![worker.fd].to = Append(@, RequestFrame(t))]
          \/ sock' = [sock EXCEPT ![worker.fd].from = Tail(@)]
      BY <1>11 DEF EnsureWarm, Send, Recv, RecvError, Unlock, Fail
    <3> QED
      BY <1>1, <3>1, ZenonT(30) DEF Open, Socket
  <2>3. NothingLeaks'
    BY <2>1, <2>2, SameProcesses DEF Unreaped
  <2>4. /\ pc'[t] # "hello"
        /\ pc'[t] \in {"send", "recv"} => worker.pid # NoPid
    BY <1>1, <1>11 DEF EnsureWarm, Send, Recv, RecvError, Unlock, Fail, Matches,
       AfterEnsure, AfterFail, Goto, HandleOK, Alive
  <2> QED
    BY <1>5, <2>1, <2>3, <2>4
<1> QED
  BY <1>6, <1>7, <1>8, <1>9, <1>10, <1>11 DEF LockedStep

\* So does every other step.
LEMMA ProcessStep ==
  ASSUME IInv, [Next]_vars
  PROVE  NothingLeaks' /\ HandleOK'
<1>1. /\ proc \in [Pids -> Process] /\ sock \in [Pids -> Socket]
      /\ worker \in Handle /\ pc \in [Clients -> PCs] /\ NoPid \notin Pids
      /\ NoThread \notin Clients /\ "watchdog" \notin Clients
      /\ NothingLeaks /\ HandleOK /\ MutexDiscipline
  BY ConstantsAssumption DEF IInv, StateOK, ConstantsAssumption
<1>2. ASSUME NEW t \in Clients, ClientStep(t), ~LockedStep(t)
      PROVE  NothingLeaks' /\ HandleOK'
  <2>1. UNCHANGED <<worker, spawning, proc, sock>>
    BY <1>2 DEF ClientStep, Remove, Depth, Siglip, Parts, Arrive, AdminLoad,
       Acquire, Respond, Leave, server
  <2>2. \A u \in Clients : (pc'[u] \in {"hello", "send", "recv"})
                               <=> (pc[u] \in {"hello", "send", "recv"})
    BY <1>1, <1>2 DEF ClientStep, Remove, Depth, Siglip, Parts, Arrive, Queue,
       Reject, AdminLoad, Acquire, Respond, Leave, Goto
  <2>3. \A u \in Clients : pc[u] \in {"hello", "send", "recv"} => pc'[u] = pc[u]
    BY <1>1, <1>2 DEF ClientStep, Remove, Depth, Siglip, Parts, Arrive, Queue,
       Reject, AdminLoad, Acquire, Respond, Leave, Goto
  <2> QED
    BY <1>1, <2>1, <2>2, <2>3 DEF NothingLeaks, HandleOK, Unreaped, Alive
\* Unload and the watchdog kill while no client is inside.
<1>3. CASE Unload \/ WatchdogKills
  <2>1. mtx \notin Clients /\ KillWorker /\ UNCHANGED <<pc, spawning>>
    BY <1>1, <1>3 DEF Unload, WatchdogKills, Watchdog, MutexDiscipline
  <2>2. \A u \in Clients : pc[u] \notin Locked
    BY <1>1, <2>1 DEF MutexDiscipline
  <2>3. spawning = NoPid
    BY <1>1, <2>2 DEF HandleOK, Locked
  <2>4. /\ Unreaped' = {} /\ Open' = {}
        /\ worker'.pid = NoPid /\ worker'.fd = NoPid
    BY <2>1, <2>3, KillLeaves
  <2>5. NothingLeaks'
    BY <2>1, <2>3, <2>4 DEF NothingLeaks, Open, Unreaped
  <2>6. HandleOK'
    BY <2>1, <2>2, <2>3 DEF HandleOK, Locked
  <2> QED
    BY <2>5, <2>6
<1>4. CASE UNCHANGED <<worker, spawning, pc, proc, sock>>
  BY <1>1, <1>4 DEF NothingLeaks, HandleOK, Unreaped, Alive
<1>5. CASE WatchdogWakes \/ WatchdogLocks \/ WatchdogMissesLock
             \/ WatchdogDecides \/ WatchdogGivesUp \/ Tick \/ UNCHANGED vars
  BY <1>4, <1>5 DEF WatchdogWakes, WatchdogLocks, WatchdogMissesLock,
     WatchdogDecides, WatchdogGivesUp, Tick, server, vars
\* A worker writes, reads and dies, but it is waited for by the parent only.
<1>6. ASSUME NEW p \in Pids, WorkerServes(p) \/ WorkerDies(p)
      PROVE  NothingLeaks' /\ HandleOK'
  <2>1. UNCHANGED <<worker, spawning, pc>> /\ proc[p].state # "none"
    BY <1>6 DEF WorkerServes, WorkerHello, WorkerLoadFails, WorkerTakes,
       WorkerReplies, WorkerDies, parent
  <2>2. proc'[p].state # "none" /\ \A q \in Pids \ {p} : proc'[q] = proc[q]
    BY <1>1, <1>6 DEF WorkerServes, WorkerHello, WorkerLoadFails, WorkerTakes,
       WorkerReplies, WorkerDies, Process
  <2>3. Unreaped' = Unreaped
    BY <2>1, <2>2 DEF Unreaped
  <2>4. \E s : \/ sock' = [sock EXCEPT ![p].from = s]
               \/ sock' = [sock EXCEPT ![p].to = s]
               \/ UNCHANGED sock
    BY <1>6 DEF WorkerServes, WorkerHello, WorkerLoadFails, WorkerTakes,
       WorkerReplies, WorkerDies
  <2>5. Open' = Open
    BY <1>1, <2>4 DEF Open, Socket
  <2>6. NothingLeaks'
    BY <2>1, <2>3, <2>5, SameProcesses
  <2>7. HandleOK'
    BY <1>1, <2>1 DEF HandleOK, Alive
  <2> QED
    BY <2>6, <2>7
<1> QED
  BY <1>2, <1>3, <1>5, <1>6, LockedProcesses DEF Next, WatchdogStep

-----------------------------------------------------------------------------
(***************************************************************************)
(* The theorems.                                                           *)
(***************************************************************************)
\* The invariant holds at first.
LEMMA InitIInv == Init => IInv
<1> SUFFICES ASSUME Init PROVE IInv
  OBVIOUS
<1>1. StateOK
  BY InitType
<1>2. \A t \in Clients : pc[t] = "idle" /\ req[t] = NoRequest
  BY DEF Init
<1>3. RequestsOK
  BY <1>2 DEF RequestsOK, NoRequest
<1>4. HandleOK
  BY <1>2 DEF Init, HandleOK, Alive
<1>5. NothingLeaks
  BY ConstantsAssumption DEF ConstantsAssumption, Init, NothingLeaks, Unreaped,
     Unborn, Closed
<1>6. MutexDiscipline
  BY <1>2, ConstantsAssumption DEF ConstantsAssumption, Init, MutexDiscipline, Locked
<1>7. InFlightCounts
  <2>1. Counted = {}
    BY <1>2 DEF Counted
  <2> QED
    BY <2>1, FS_EmptySet DEF Init, InFlightCounts, Counted
<1> QED
  BY <1>1, <1>3, <1>4, <1>5, <1>6, <1>7 DEF IInv

\* Every step preserves it.
LEMMA StepIInv == IInv /\ [Next]_vars => IInv'
<1> SUFFICES ASSUME IInv, [Next]_vars PROVE IInv'
  OBVIOUS
<1>1. StateOK'
  BY ClientType, WorkerType, OtherType DEF Next
<1> QED
  BY <1>1, MutexStep, CountStep, ProcessStep DEF IInv

\* The inductive invariant holds in every reachable state.
THEOREM Invariant == Spec => []IInv
  BY InitIInv, StepIInv, PTL DEF Spec

\* Every variable keeps its type; in particular in_flight, which every endpoint
\* increments and every path out of it decrements, never becomes negative.
THEOREM TypeCorrect == Spec => []TypeOK
<1>1. IInv => TypeOK
  <2> SUFFICES ASSUME IInv PROVE TypeOK
    OBVIOUS
  <2>1. in_flight \in Nat
    <3>1. in_flight = Cardinality(Counted)
      BY DEF IInv, InFlightCounts, Counted
    <3> QED
      BY <3>1, CountedFinite, FS_CardinalityType
  <2> QED
    BY <2>1 DEF IInv, StateOK, TypeOK
<1> QED
  BY <1>1, Invariant, PTL

\* The *_locked functions are entered with the lock held and left without it,
\* whatever they throw.
THEOREM Mutex == Spec => []MutexDiscipline
<1>1. IInv => MutexDiscipline
  BY DEF IInv
<1> QED
  BY <1>1, Invariant, PTL

\* in_flight counts the guarded requests, on every early return and error path.
THEOREM Counting == Spec => []InFlightCounts
<1>1. IInv => InFlightCounts
  BY DEF IInv
<1> QED
  BY <1>1, Invariant, PTL

\* No error path of ensure_worker_locked, request_locked or kill_worker_locked
\* leaks a child or a descriptor, and no pid is signalled after it was reaped.
THEOREM NoLeak == Spec => []NothingLeaks
<1>1. IInv => NothingLeaks
  BY DEF IInv
<1> QED
  BY <1>1, Invariant, PTL

\* One worker at a time, counting the one that is starting and the one that died.
THEOREM SingleWorker == Spec => []OneWorker
<1>1. IInv => OneWorker
  BY DEF IInv, NothingLeaks, HandleOK, Alive, OneWorker
<1> QED
  BY <1>1, Invariant, PTL

-----------------------------------------------------------------------------
(***************************************************************************)
(* More proofs, on top of the invariant IInv:                              *)
(*                                                                         *)
(*   - it implements DeviceService.  The strengthening is WishOK: what the *)
(*     owner of the lock relies on at each label (the card to be started,  *)
(*     the one being started, the worker in place, no image left);         *)
(*   - what the handle says of the worker is true: StartedAsAsked;         *)
(*   - a reply is the reply to what was asked, and the watchdog kills a    *)
(*     worker at rest: FramesOK says what may be in a socket, Decided what *)
(*     the watchdog has seen;                                              *)
(*   - the worker is asked for what it has been configured for: Asked and  *)
(*     Carried follow a request from its endpoint to the worker.           *)
(***************************************************************************)

\* The worker in the handle is one for what thread t asked.
Serves(t) ==
    /\ worker.bt = req[t].backend
    /\ req[t].gpu # NoGpu => worker.gpu = req[t].gpu

\* What each label relies on: the card of the request is the one to be started,
\* the one being started, the one in place; after the last image none is left.
WishOK ==
    \A t \in Clients :
        /\ pc[t] = "ensure" /\ req[t].gpu # NoGpu => next_gpu = req[t].gpu
        /\ pc[t] = "hello" /\ req[t].gpu # NoGpu => worker.gpu = req[t].gpu
        /\ pc[t] \in {"send", "recv", "unlock"} => Alive /\ Serves(t)
        /\ pc[t] = "unlock" => req[t].left = 0

SInv == IInv /\ WishOK

\* A thread's phase follows from where it is.
LEMMA PhaseOf ==
    ASSUME NEW t \in Clients
    PROVE  /\ pc[t] = "queued" => Phase(t) = "waiting"
           /\ pc[t] \in {"ensure", "hello", "send", "recv", "unlock"} => Phase(t) = "holding"
           /\ pc[t] = "fail" => Phase(t) = "failing"
           /\ pc[t] \in {"idle", "respond", "leaving"} => Phase(t) = "away"
BY DEF Phase, Locked

\* And so does its next phase.
LEMMA PhaseOf2 ==
    ASSUME NEW t \in Clients
    PROVE  /\ pc'[t] = "queued" => Phase(t)' = "waiting"
           /\ pc'[t] \in {"ensure", "hello", "send", "recv", "unlock"} => Phase(t)' = "holding"
           /\ pc'[t] = "fail" => Phase(t)' = "failing"
           /\ pc'[t] \in {"idle", "respond", "leaving"} => Phase(t)' = "away"
BY DEF Phase, Locked

\* Initially everybody is away and the device is empty.
LEMMA Initial == Init => Service!Init
<1> SUFFICES ASSUME Init PROVE Service!Init
  OBVIOUS
<1>1. \A t \in Clients : Phase(t) = "away"
  BY PhaseOf DEF Init
<1>2. ~Alive
  BY DEF Init, Alive
<1>3. ServicePhase = [t \in Clients |-> "away"]
  BY <1>1 DEF ServicePhase
<1>4. ServiceWish = [t \in Clients |-> Service!NoWish]
  BY <1>1 DEF ServiceWish, Service!NoWish
<1>5. ServiceResident = Service!None
  BY <1>2 DEF ServiceResident, Service!None
<1> QED BY <1>3, <1>4, <1>5 DEF Service!Init

\* A handler thread touches no other's request.
LEMMA OnlyItself ==
    ASSUME IInv, NEW t \in Clients, ClientStep(t)
    PROVE  \A u \in Clients \ {t} : pc'[u] = pc[u] /\ req'[u] = req[u]
<1>1. pc \in [Clients -> PCs] /\ req \in [Clients -> Request]
  BY DEF IInv, StateOK
<1>2. \A u \in Clients \ {t} : pc'[u] = pc[u]
  BY <1>1, ClientMoves DEF Moves, Goto
<1>3. CASE Remove(t) \/ Depth(t) \/ Siglip(t) \/ Parts(t)
  <2>1. \E r : req' = [req EXCEPT ![t] = r]
    BY <1>3, Zenon DEF Remove, Depth, Siglip, Parts, Queue, Reject
  <2> QED BY <1>1, <1>2, <2>1
<1>4. CASE AdminLoad(t)
  BY <1>1, <1>2, <1>4 DEF AdminLoad
<1>5. CASE Acquire(t) \/ Respond(t) \/ Leave(t)
  BY <1>2, <1>5 DEF Acquire, Respond, Leave
<1>6. CASE LockedStep(t) /\ ~Recv(t)
  BY <1>2, <1>6 DEF LockedStep, EnsureWarm, EnsureSpawn, EnsureForkFails, HelloArrives,
     HelloFails, Send, SendFails, RecvError, RecvFails, Unlock, Fail
<1>7. CASE Recv(t)
  BY <1>1, <1>2, <1>7 DEF Recv
<1> QED BY <1>3, <1>4, <1>5, <1>6, <1>7 DEF ClientStep

\* Where the lock is not held, what is done leaves handle and card alone.
LEMMA OutsideLock ==
    ASSUME IInv, NEW t \in Clients, ClientStep(t), pc[t] \notin Locked, ~Acquire(t)
    PROVE  UNCHANGED <<worker, next_gpu, spawning, mtx, proc, sock>> /\ pc'[t] \notin Locked
<1>1. pc \in [Clients -> PCs]
  BY DEF IInv, StateOK
<1>2. ~LockedStep(t)
  BY DEF LockedStep, EnsureWarm, EnsureSpawn, EnsureForkFails, HelloArrives,
     HelloFails, Send, SendFails, Recv, RecvError, RecvFails, Unlock, Fail, Locked
<1>3. CASE Remove(t) \/ Depth(t) \/ Siglip(t) \/ Parts(t)
  <2>1. UNCHANGED <<mtx, next_gpu, worker, spawning, proc, sock>>
    BY <1>3 DEF Remove, Depth, Siglip, Parts, Arrive
  <2>2. Goto(t, "queued") \/ Goto(t, "leaving")
    BY <1>3 DEF Remove, Depth, Siglip, Parts, Queue, Reject
  <2> QED BY <1>1, <2>1, <2>2 DEF Goto, Locked
<1>4. CASE AdminLoad(t)
  BY <1>1, <1>4 DEF AdminLoad, Goto, server, Locked
<1>5. CASE Respond(t) \/ Leave(t)
  BY <1>1, <1>5 DEF Respond, Leave, Goto, Locked
<1> QED BY <1>2, <1>3, <1>4, <1>5 DEF ClientStep

\* Nobody is in a locked region while the lock is free or the watchdog's.
LEMMA NobodyInside ==
    ASSUME IInv, mtx = NoThread \/ mtx = "watchdog"
    PROVE  \A t \in Clients : pc[t] \notin Locked
BY ConstantsAssumption DEF ConstantsAssumption, IInv, MutexDiscipline

\* WishOK of one thread.
WishAt(t) ==
    /\ pc[t] = "ensure" /\ req[t].gpu # NoGpu => next_gpu = req[t].gpu
    /\ pc[t] = "hello" /\ req[t].gpu # NoGpu => worker.gpu = req[t].gpu
    /\ pc[t] \in {"send", "recv", "unlock"} => Alive /\ Serves(t)
    /\ pc[t] = "unlock" => req[t].left = 0

\* Each step of the owner keeps what its next label relies on.
LEMMA OwnWish ==
    ASSUME SInv, NEW t \in Clients, ClientStep(t)
    PROVE  WishAt(t)'
<1>1. /\ pc \in [Clients -> PCs] /\ req \in [Clients -> Request] /\ worker \in Handle
      /\ next_gpu \in Gpus \cup {NoGpu} /\ NoPid \notin Pids /\ IInv /\ WishAt(t)
      /\ NoGpu \notin Gpus
  BY ConstantsAssumption DEF SInv, IInv, StateOK, ConstantsAssumption, WishOK, WishAt
<1>2. req[t].left \in Nat /\ req[t].gpu \in Gpus \cup {NoGpu}
  BY <1>1 DEF Request
<1>3. CASE pc[t] \notin Locked /\ ~Acquire(t)
  BY <1>1, <1>3, OutsideLock DEF WishAt, Locked
<1>4. CASE Acquire(t)
  BY <1>1, <1>4 DEF Acquire, Goto, TakeRequestGpu, WishAt
<1>5. CASE EnsureWarm(t)
  <2>1. UNCHANGED <<worker, req, next_gpu>> /\ Matches(t) /\ pc[t] = "ensure"
    BY <1>5 DEF EnsureWarm, server
  <2>2. pc'[t] = AfterEnsure(t)
    BY <1>1, <1>5 DEF EnsureWarm, Goto
  <2>3. req[t].gpu # NoGpu => worker.gpu = req[t].gpu
    BY <1>1, <2>1 DEF Matches, WantGpu, WishAt
  <2> QED BY <1>2, <2>1, <2>2, <2>3 DEF AfterEnsure, Matches, WishAt, Serves, Alive
<1>6. CASE EnsureSpawn(t)
  <2>1. /\ worker' = [Forget(worker) EXCEPT !.gpu = WantGpu]
        /\ pc'[t] = "hello" /\ req' = req /\ pc[t] = "ensure"
    BY <1>1, <1>6 DEF EnsureSpawn, Goto
  <2>2. worker'.gpu = WantGpu
    BY <1>1, <2>1 DEF Forget, Handle
  <2> QED BY <1>1, <2>1, <2>2 DEF WishAt, WantGpu
<1>7. CASE HelloArrives(t)
  <2>1. /\ req' = req /\ pc[t] = "hello" /\ pc'[t] = AfterEnsure(t)
        /\ worker' = [worker EXCEPT !.pid = spawning, !.fd = spawning, !.bt = req[t].backend,
                                    !.name = proc[spawning].backend]
    BY <1>1, <1>7 DEF HelloArrives, Goto
  <2>2. spawning \in Pids
    BY <1>1, <2>1 DEF IInv, HandleOK, StateOK
  <2>3. worker'.pid = spawning /\ worker'.bt = req[t].backend /\ worker'.gpu = worker.gpu
    BY <1>1, <2>1 DEF Handle
  <2> QED BY <1>1, <1>2, <2>1, <2>2, <2>3 DEF WishAt, AfterEnsure, Alive, Serves
<1>8. CASE Send(t)
  <2>1. UNCHANGED <<worker, req, next_gpu>> /\ pc[t] = "send" /\ pc'[t] = "recv"
    BY <1>1, <1>8 DEF Send, server, Goto
  <2> QED BY <1>1, <2>1 DEF WishAt, Alive, Serves
<1>9. CASE Recv(t)
  <2>1. /\ UNCHANGED <<worker, next_gpu>> /\ pc[t] = "recv"
        /\ pc'[t] = (IF req[t].left > 1 THEN "send" ELSE "unlock")
        /\ req' = [req EXCEPT ![t].left = @ - 1]
    BY <1>1, <1>9 DEF Recv, server, Goto
  <2>2. /\ req'[t].left = req[t].left - 1 /\ req'[t].gpu = req[t].gpu
        /\ req'[t].backend = req[t].backend
    BY <1>1, <2>1 DEF Request
  <2>3. req[t].left > 0
    BY <1>1, <2>1 DEF IInv, RequestsOK
  <2> QED BY <1>1, <1>2, <2>1, <2>2, <2>3 DEF WishAt, Alive, Serves
<1>10. CASE EnsureForkFails(t) \/ HelloFails(t) \/ SendFails(t) \/ RecvError(t) \/ RecvFails(t)
  <2>1. pc'[t] = "fail"
    BY <1>1, <1>10 DEF EnsureForkFails, HelloFails, SendFails, RecvError, RecvFails, Goto
  <2> QED BY <2>1 DEF WishAt
<1>11. CASE Unlock(t) \/ Fail(t)
  <2>1. pc'[t] \in {"idle", "respond", "leaving"}
    BY <1>1, <1>11 DEF Unlock, Fail, AfterFail, Goto
  <2> QED BY <2>1 DEF WishAt
<1>12. pc[t] \in Locked /\ ~Acquire(t) => LockedStep(t)
  BY DEF ClientStep, Locked, Remove, Depth, Siglip, Parts, Arrive, AdminLoad, Respond, Leave
<1> QED BY <1>3, <1>4, <1>5, <1>6, <1>7, <1>8, <1>9, <1>10, <1>11, <1>12 DEF LockedStep

\* WishOK is kept by every step.
LEMMA WishStep ==
    ASSUME SInv, [Next]_vars
    PROVE  WishOK'
<1>0. IInv /\ WishOK
  BY DEF SInv
<1>1. ASSUME NEW t \in Clients, ClientStep(t) PROVE WishOK'
  <2>1. ASSUME NEW u \in Clients \ {t} PROVE WishAt(u)'
    <3>1. pc'[u] = pc[u] /\ req'[u] = req[u] /\ WishAt(u)
      BY <1>0, <1>1, OnlyItself DEF WishOK, WishAt
    <3>2. CASE pc[u] \notin Locked
      BY <3>1, <3>2 DEF WishAt, Locked
    <3>3. CASE pc[u] \in Locked
      <4>1. pc[t] \notin Locked /\ mtx = u
        BY <1>0, <3>3 DEF IInv, MutexDiscipline
      <4>2. ~Acquire(t)
        BY <4>1, ConstantsAssumption DEF Acquire, ConstantsAssumption
      <4>3. UNCHANGED <<worker, next_gpu>>
        BY <1>0, <1>1, <4>1, <4>2, OutsideLock
      <4> QED BY <3>1, <4>3 DEF WishAt, Alive, Serves
    <3> QED BY <3>2, <3>3
  <2>2. WishAt(t)'
    BY <1>1, OwnWish
  <2> QED BY <2>1, <2>2 DEF WishOK, WishAt
<1>2. CASE UNCHANGED <<worker, next_gpu, pc, req>>
  BY <1>0, <1>2 DEF WishOK, Alive, Serves
<1>3. CASE Unload \/ WatchdogKills
  <2>1. \A t \in Clients : pc'[t] \notin Locked
    <3>1. pc' = pc /\ (mtx = NoThread \/ mtx = "watchdog")
      BY <1>0, <1>3 DEF Unload, WatchdogKills, Watchdog, IInv, MutexDiscipline
    <3> QED BY <1>0, <3>1, NobodyInside
  <2> QED BY <2>1 DEF WishOK, Locked
<1>4. CASE WatchdogStep /\ ~WatchdogKills
  BY <1>2, <1>4 DEF WatchdogStep, WatchdogWakes, WatchdogLocks, WatchdogMissesLock,
     WatchdogDecides, WatchdogGivesUp, server
<1>5. CASE Tick \/ UNCHANGED vars
  BY <1>2, <1>5 DEF Tick, vars
<1>6. CASE \E p \in Pids : WorkerServes(p) \/ WorkerDies(p)
  BY <1>2, <1>6 DEF WorkerServes, WorkerHello, WorkerLoadFails, WorkerTakes,
     WorkerReplies, WorkerDies, parent
<1> QED BY <1>1, <1>3, <1>4, <1>5, <1>6 DEF Next

-----------------------------------------------------------------------------
(***************************************************************************)
(* The refinement.                                                         *)
(***************************************************************************)

\* The abstract wish of one thread.
WishOf(t) ==
    IF Phase(t) = "away" THEN Service!NoWish
    ELSE [backend |-> req[t].backend, gpu |-> req[t].gpu, left |-> req[t].left]

\* A step of one thread is a step of its phase and its wish.
LEMMA ThreadMoves ==
    ASSUME IInv, NEW t \in Clients, ClientStep(t)
    PROVE  /\ ServicePhase' = [ServicePhase EXCEPT ![t] = Phase(t)']
           /\ ServiceWish' = [ServiceWish EXCEPT ![t] = WishOf(t)']
           /\ ServicePhase[t] = Phase(t) /\ ServiceWish[t] = WishOf(t)
<1>1. \A u \in Clients \ {t} : pc'[u] = pc[u] /\ req'[u] = req[u]
  BY OnlyItself
<1>2. \A u \in Clients \ {t} : Phase(u)' = Phase(u)
  BY <1>1 DEF Phase
<1>3. \A u \in Clients \ {t} : WishOf(u)' = WishOf(u)
  BY <1>1, <1>2 DEF WishOf, Service!NoWish
<1>4. /\ ServicePhase = [u \in Clients |-> Phase(u)]
      /\ ServicePhase' = [u \in Clients |-> Phase(u)']
  BY DEF ServicePhase
<1>5. /\ ServiceWish = [u \in Clients |-> WishOf(u)]
      /\ ServiceWish' = [u \in Clients |-> WishOf(u)']
  BY DEF ServiceWish, WishOf, Service!NoWish
<1>6. ServicePhase' = [ServicePhase EXCEPT ![t] = Phase(t)']
  BY <1>2, <1>4, Zenon
<1>7. ServiceWish' = [ServiceWish EXCEPT ![t] = WishOf(t)']
  BY <1>3, <1>5, Zenon
<1>8. ServicePhase[t] = Phase(t) /\ ServiceWish[t] = WishOf(t)
  BY <1>4, <1>5
<1> QED BY <1>6, <1>7, <1>8

\* A step that leaves phase and wish of its thread leaves those of all.
LEMMA ThreadStays ==
    ASSUME IInv, NEW t \in Clients, ClientStep(t), Phase(t)' = Phase(t), WishOf(t)' = WishOf(t)
    PROVE  UNCHANGED <<ServicePhase, ServiceWish>>
<1>1. ServicePhase' = [ServicePhase EXCEPT ![t] = ServicePhase[t]]
  BY ThreadMoves
<1>2. ServiceWish' = [ServiceWish EXCEPT ![t] = ServiceWish[t]]
  BY ThreadMoves
<1>3. [ServicePhase EXCEPT ![t] = ServicePhase[t]] = ServicePhase
  BY DEF ServicePhase
<1>4. [ServiceWish EXCEPT ![t] = ServiceWish[t]] = ServiceWish
  BY DEF ServiceWish
<1> QED BY <1>1, <1>2, <1>3, <1>4

\* Nobody inside a locked region: the device is free.
LEMMA FreeDevice ==
    ASSUME IInv, \A t \in Clients : pc[t] \notin Locked
    PROVE  Service!Free
<1>1. ASSUME NEW t \in Clients PROVE ServicePhase[t] \in {"away", "waiting"}
  <2>1. pc[t] \in {"idle", "queued", "respond", "leaving"}
    BY DEF IInv, StateOK, PCs
  <2> QED BY <2>1, PhaseOf DEF ServicePhase
<1> QED BY <1>1 DEF Service!Free

\* A worker that is gone, and one in place.
LEMMA ResidentIs ==
    /\ ~Alive => ServiceResident = Service!None
    /\ Alive => ServiceResident = [backend |-> worker.bt, gpu |-> worker.gpu]
BY DEF ServiceResident, Service!None

\* The same of the next state.
LEMMA ResidentIsNext ==
    /\ worker'.pid = NoPid => ServiceResident' = Service!None
    /\ worker'.pid # NoPid => ServiceResident' = [backend |-> worker'.bt, gpu |-> worker'.gpu]
BY DEF ServiceResident, Service!None, Alive

\* Outside the lock: a request asks, takes the device, or is turned away.
LEMMA OutsideRefines ==
    ASSUME SInv, SInv', NEW t \in Clients, ClientStep(t), pc[t] \notin Locked
    PROVE  Service!Next \/ UNCHANGED Service!vars
<1>0. /\ IInv /\ pc \in [Clients -> PCs] /\ req \in [Clients -> Request]
      /\ req' \in [Clients -> Request] /\ pc' \in [Clients -> PCs]
  BY DEF SInv, IInv, StateOK
<1>1. CASE Acquire(t)
  <2>1. /\ pc[t] = "queued" /\ pc'[t] = "ensure" /\ mtx = NoThread
        /\ UNCHANGED <<worker, req>>
    BY <1>0, <1>1 DEF Acquire, Goto
  <2>2. Phase(t) = "waiting" /\ Phase(t)' = "holding"
    BY <2>1, PhaseOf, PhaseOf2
  <2>3. WishOf(t)' = WishOf(t)
    BY <2>1, <2>2 DEF WishOf, Service!NoWish
  <2>4. UNCHANGED <<ServiceWish, ServiceResident>>
    <3>1. [ServiceWish EXCEPT ![t] = ServiceWish[t]] = ServiceWish
      BY DEF ServiceWish
    <3> QED BY <1>0, <2>1, <2>3, <3>1, ThreadMoves DEF ServiceResident, Alive
  <2>5. Service!Free
    BY <1>0, <2>1, NobodyInside, FreeDevice
  <2>6. Service!Take(t)
    BY <1>0, <2>2, <2>4, <2>5, ThreadMoves DEF Service!Take, Service!Step
  <2> QED BY <2>6 DEF Service!Next
<1>2. CASE ~Acquire(t)
  <2>1. UNCHANGED <<worker, ServiceResident>>
    BY <1>0, <1>2, OutsideLock DEF ServiceResident, Alive
  <2>2. CASE pc'[t] = "queued" /\ pc[t] = "idle"
    <3>1. Phase(t) = "away" /\ Phase(t)' = "waiting"
      BY <2>2, PhaseOf, PhaseOf2
    <3>2. WishOf(t)' \in Service!Wishes
      <4>1. req'[t] \in Request
        BY <1>0
      <4>2. WishOf(t)' = [backend |-> req'[t].backend, gpu |-> req'[t].gpu,
                          left |-> req'[t].left]
        BY <3>1 DEF WishOf
      <4> QED BY <4>1, <4>2 DEF Service!Wishes, Request
    <3>3. Service!Ask(t)
      BY <1>0, <2>1, <3>1, <3>2, ThreadMoves DEF Service!Ask, Service!Step
    <3> QED BY <3>3 DEF Service!Next
  <2>3. CASE pc[t] \in {"idle", "respond", "leaving"} /\ pc'[t] \in {"idle", "leaving"}
    <3>1. Phase(t) = "away" /\ Phase(t)' = "away"
      BY <2>3, PhaseOf, PhaseOf2
    <3>2. WishOf(t)' = WishOf(t)
      BY <3>1 DEF WishOf, Service!NoWish
    <3> QED BY <1>0, <2>1, <3>1, <3>2, ThreadStays DEF Service!vars
  <2>4. \/ pc'[t] = "queued" /\ pc[t] = "idle"
        \/ pc[t] \in {"idle", "respond", "leaving"} /\ pc'[t] \in {"idle", "leaving"}
    <3>1. ~LockedStep(t)
      BY DEF LockedStep, EnsureWarm, EnsureSpawn, EnsureForkFails, HelloArrives,
         HelloFails, Send, SendFails, Recv, RecvError, RecvFails, Unlock, Fail, Locked
    <3>2. CASE Remove(t) \/ Depth(t) \/ Siglip(t) \/ Parts(t)
      <4>1. pc[t] = "idle" /\ (Goto(t, "queued") \/ Goto(t, "leaving"))
        BY <3>2 DEF Remove, Depth, Siglip, Parts, Arrive, Queue, Reject
      <4> QED BY <1>0, <4>1 DEF Goto
    <3>3. CASE AdminLoad(t)
      BY <1>0, <3>3 DEF AdminLoad, Goto
    <3>4. CASE Respond(t) \/ Leave(t)
      BY <1>0, <3>4 DEF Respond, Leave, Goto
    <3> QED BY <1>2, <3>1, <3>2, <3>3, <3>4 DEF ClientStep
  <2> QED BY <2>2, <2>3, <2>4
<1> QED BY <1>1, <1>2

\* A step under the lock that goes on holding it, with the wish untouched.
LEMMA HoldsOn ==
    ASSUME IInv, NEW t \in Clients, ClientStep(t), req' = req,
           pc[t] \in {"ensure", "hello", "send", "recv", "unlock"},
           pc'[t] \in {"ensure", "hello", "send", "recv", "unlock"}
    PROVE  UNCHANGED <<ServicePhase, ServiceWish>> /\ ServicePhase[t] = "holding"
<1>1. Phase(t) = "holding" /\ Phase(t)' = "holding"
  BY PhaseOf, PhaseOf2
<1>2. WishOf(t)' = WishOf(t)
  BY <1>1 DEF WishOf
<1>3. ServicePhase[t] = "holding"
  BY <1>1, ThreadMoves
<1> QED BY <1>1, <1>2, <1>3, ThreadStays

\* A step under the lock that fails.
LEMMA HoldsThenFails ==
    ASSUME IInv, NEW t \in Clients, ClientStep(t), req' = req,
           pc[t] \in {"ensure", "hello", "send", "recv", "unlock"}, pc'[t] = "fail",
           ServiceResident' \in {ServiceResident, Service!None}
    PROVE  Service!Lose(t)
<1>1. Phase(t) = "holding" /\ Phase(t)' = "failing"
  BY PhaseOf, PhaseOf2
<1>2. WishOf(t)' = WishOf(t)
  BY <1>1 DEF WishOf
<1>3. UNCHANGED ServiceWish
  <2>1. ServiceWish' = [ServiceWish EXCEPT ![t] = ServiceWish[t]]
    BY <1>2, ThreadMoves
  <2>2. [ServiceWish EXCEPT ![t] = ServiceWish[t]] = ServiceWish
    BY DEF ServiceWish
  <2> QED BY <2>1, <2>2
<1> QED BY <1>1, <1>3, ThreadMoves DEF Service!Lose, Service!Step

\* Under the lock: the worker is discarded or installed, an image computed, the
\* request answered or lost.
LEMMA LockedRefines ==
    ASSUME SInv, SInv', NEW t \in Clients, LockedStep(t)
    PROVE  Service!Next \/ UNCHANGED Service!vars
<1>0. /\ IInv /\ pc \in [Clients -> PCs] /\ req \in [Clients -> Request]
      /\ worker \in Handle /\ worker' \in Handle /\ ClientStep(t) /\ NoPid \notin Pids
      /\ spawning \in Pids \cup {NoPid} /\ next_gpu \in Gpus \cup {NoGpu}
      /\ DefaultGpu \in Gpus \cup {NoGpu} /\ WishAt(t)
  BY ConstantsAssumption
     DEF SInv, IInv, StateOK, ClientStep, ConstantsAssumption, WishOK, WishAt
<1>s. req[t] \in Request /\ req[t].left \in Nat
  BY <1>0 DEF Request
<1>1. CASE EnsureWarm(t) \/ Send(t)
  <2>1. UNCHANGED <<worker, req>> /\ pc[t] \in {"ensure", "send"}
        /\ pc'[t] \in {"send", "unlock", "recv"}
    BY <1>0, <1>1 DEF EnsureWarm, Send, AfterEnsure, Goto, server
  <2> QED BY <1>0, <2>1, HoldsOn DEF Service!vars, ServiceResident, Alive
<1>2. CASE EnsureSpawn(t)
  <2>1. /\ req' = req /\ pc[t] = "ensure" /\ pc'[t] = "hello"
        /\ worker' = [Forget(worker) EXCEPT !.gpu = WantGpu]
    BY <1>0, <1>2 DEF EnsureSpawn, Goto
  <2>2. worker'.pid = NoPid
    BY <1>0, <2>1 DEF Forget, Handle
  <2>3. Service!Discard(t)
    BY <1>0, <2>1, <2>2, HoldsOn, ResidentIsNext DEF Service!Discard
  <2> QED BY <2>3 DEF Service!Next
<1>3. CASE EnsureForkFails(t) \/ HelloFails(t) \/ SendFails(t) \/ RecvError(t) \/ RecvFails(t)
  <2>1. /\ req' = req /\ pc'[t] = "fail"
        /\ pc[t] \in {"ensure", "hello", "send", "recv", "unlock"}
    BY <1>0, <1>3 DEF EnsureForkFails, HelloFails, SendFails, RecvError, RecvFails, Goto
  <2>2. ServiceResident' \in {ServiceResident, Service!None}
    <3>1. CASE HelloFails(t) \/ RecvError(t)
      BY <3>1 DEF HelloFails, RecvError, server, ServiceResident, Alive
    <3>2. CASE EnsureForkFails(t) \/ SendFails(t) \/ RecvFails(t)
      <4>1. worker'.pid = NoPid
        BY <1>0, <3>2 DEF EnsureForkFails, SendFails, RecvFails, KillWorker, Forget, Handle
      <4> QED BY <4>1, ResidentIsNext
    <3> QED BY <1>3, <3>1, <3>2, Zenon
  <2>3. Service!Lose(t)
    BY <1>0, <2>1, <2>2, HoldsThenFails
  <2> QED BY <2>3 DEF Service!Next
<1>4. CASE HelloArrives(t)
  <2>1. /\ req' = req /\ pc[t] = "hello" /\ pc'[t] = AfterEnsure(t)
        /\ worker' = [worker EXCEPT !.pid = spawning, !.fd = spawning, !.bt = req[t].backend,
                                    !.name = proc[spawning].backend]
    BY <1>0, <1>4 DEF HelloArrives, Goto
  <2>2. spawning \in Pids /\ ~Alive
    BY <1>0, <2>1 DEF IInv, HandleOK
  <2>3. worker'.pid = spawning /\ worker'.bt = req[t].backend /\ worker'.gpu = worker.gpu
    BY <1>0, <2>1 DEF Handle
  <2>4. UNCHANGED <<ServicePhase, ServiceWish>> /\ ServicePhase[t] = "holding"
    BY <1>0, <2>1, HoldsOn DEF AfterEnsure
  <2>5. ServiceResident = Service!None
    BY <2>2, ResidentIs
  <2>6. ServiceResident' = [backend |-> req[t].backend, gpu |-> worker.gpu]
    BY <1>0, <2>2, <2>3, ResidentIsNext
  <2>7. ServiceWish[t] = [backend |-> req[t].backend, gpu |-> req[t].gpu, left |-> req[t].left]
    BY <1>0, <2>1, PhaseOf, ThreadMoves DEF WishOf
  <2>8. Service!Suits(ServiceResident', ServiceWish[t])
    BY <1>0, <2>1, <2>6, <2>7 DEF Service!Suits, WishAt
  <2>9. worker.gpu \in Gpus \cup {NoGpu} /\ ServiceWish[t].backend = req[t].backend
    <3>1. worker.gpu \in Gpus \cup {NoGpu}
      BY <1>0 DEF Handle
    <3>2. ServiceWish[t].backend = req[t].backend
      <4>1. PICK w : w = ServiceWish[t]
        OBVIOUS
      <4>2. w.backend = req[t].backend
        BY <2>7, <4>1
      <4> QED BY <4>1, <4>2
    <3> QED BY <3>1, <3>2
  <2>10. Service!Install(t)
    BY <2>4, <2>5, <2>6, <2>8, <2>9 DEF Service!Install
  <2> QED BY <2>10 DEF Service!Next
<1>5. CASE Recv(t)
  <2>1. /\ worker' = worker /\ pc[t] = "recv" /\ pc'[t] \in {"send", "unlock"}
        /\ req' = [req EXCEPT ![t].left = @ - 1]
    BY <1>0, <1>5 DEF Recv, server, Goto
  <2>2. Phase(t) = "holding" /\ Phase(t)' = "holding"
    BY <2>1, PhaseOf, PhaseOf2
  <2>3. ServiceWish[t] = [backend |-> req[t].backend, gpu |-> req[t].gpu, left |-> req[t].left]
    BY <1>0, <2>2, ThreadMoves DEF WishOf
  <2>4. WishOf(t)' = [backend |-> req[t].backend, gpu |-> req[t].gpu, left |-> req[t].left - 1]
    <3>1. /\ req'[t].left = req[t].left - 1 /\ req'[t].gpu = req[t].gpu
          /\ req'[t].backend = req[t].backend
      BY <1>0, <2>1 DEF Request
    <3> QED BY <2>2, <3>1 DEF WishOf
  <2>5. ServiceWish' = [ServiceWish EXCEPT ![t].left = @ - 1]
    <3>1. ServiceWish' = [ServiceWish EXCEPT ![t] = WishOf(t)']
      BY <1>0, ThreadMoves
    <3>2. PICK w : w = ServiceWish[t]
      OBVIOUS
    <3>3. WishOf(t)' = [w EXCEPT !.left = w.left - 1]
      BY <2>3, <2>4, <3>2
    <3> QED BY <3>1, <3>2, <3>3
  <2>6. UNCHANGED <<ServicePhase, ServiceResident>>
    <3>1. [ServicePhase EXCEPT ![t] = ServicePhase[t]] = ServicePhase
      BY DEF ServicePhase
    <3> QED BY <1>0, <2>1, <2>2, <3>1, ThreadMoves DEF ServiceResident, Alive
  <2>7. Alive /\ Serves(t) /\ req[t].left > 0
    BY <1>0, <2>1 DEF WishAt, IInv, RequestsOK
  <2>8. Service!Suits(ServiceResident, ServiceWish[t]) /\ ServiceWish[t].left > 0
    BY <2>3, <2>7, ResidentIs DEF Service!Suits, Serves
  <2>9. Service!Compute(t)
    BY <1>0, <2>2, <2>5, <2>6, <2>8, ThreadMoves DEF Service!Compute
  <2> QED BY <2>9 DEF Service!Next
<1>6. CASE Unlock(t)
  <2>1. /\ UNCHANGED <<worker, req>> /\ pc[t] = "unlock" /\ pc'[t] \in {"idle", "respond"}
    BY <1>0, <1>6 DEF Unlock, Goto
  <2>2. Phase(t) = "holding" /\ Phase(t)' = "away"
    BY <2>1, PhaseOf, PhaseOf2
  <2>3. ServiceWish[t] = [backend |-> req[t].backend, gpu |-> req[t].gpu, left |-> req[t].left]
    BY <1>0, <2>2, ThreadMoves DEF WishOf
  <2>4. WishOf(t)' = Service!NoWish
    BY <2>2 DEF WishOf, Service!NoWish
  <2>5. Alive /\ Serves(t) /\ req[t].left = 0
    BY <1>0, <2>1 DEF WishAt
  <2>6. Service!Suits(ServiceResident, ServiceWish[t]) /\ ServiceWish[t].left = 0
    BY <2>3, <2>5, ResidentIs DEF Service!Suits, Serves
  <2>7. UNCHANGED ServiceResident
    BY <2>1 DEF ServiceResident, Alive
  <2>8. Service!Finish(t)
    BY <1>0, <2>2, <2>4, <2>6, <2>7, ThreadMoves DEF Service!Finish, Service!Step
  <2> QED BY <2>8 DEF Service!Next
<1>7. CASE Fail(t)
  <2>1. /\ UNCHANGED <<worker, req>> /\ pc[t] = "fail"
        /\ pc'[t] \in {"idle", "respond", "leaving"}
    BY <1>0, <1>7 DEF Fail, AfterFail, Goto
  <2>2. Phase(t) = "failing" /\ Phase(t)' = "away"
    BY <2>1, PhaseOf, PhaseOf2
  <2>3. WishOf(t)' = Service!NoWish
    BY <2>2 DEF WishOf, Service!NoWish
  <2>4. UNCHANGED ServiceResident
    BY <2>1 DEF ServiceResident, Alive
  <2>5. Service!GiveUp(t)
    BY <1>0, <2>2, <2>3, <2>4, ThreadMoves DEF Service!GiveUp, Service!Step
  <2> QED BY <2>5 DEF Service!Next
<1> QED BY <1>1, <1>2, <1>3, <1>4, <1>5, <1>6, <1>7 DEF LockedStep

\* Every step of the server is one of the service, or none.
LEMMA StepRefines ==
    ASSUME SInv, SInv', [Next]_vars
    PROVE  [Service!Next]_(Service!vars)
<1>0. IInv
  BY DEF SInv
<1>1. ASSUME NEW t \in Clients, ClientStep(t) PROVE Service!Next \/ UNCHANGED Service!vars
  <2>1. pc[t] \in Locked => LockedStep(t)
    BY <1>1 DEF ClientStep, Locked, Remove, Depth, Siglip, Parts, Arrive, AdminLoad,
       Acquire, Respond, Leave
  <2> QED BY <1>1, <2>1, OutsideRefines, LockedRefines
<1>2. CASE UNCHANGED <<pc, req, worker>>
  BY <1>2 DEF Service!vars, ServicePhase, ServiceWish, ServiceResident, Phase, Alive
<1>3. CASE Unload \/ WatchdogKills
  <2>1. UNCHANGED <<pc, req>> /\ KillWorker /\ (mtx = NoThread \/ mtx = "watchdog")
    BY <1>0, <1>3 DEF Unload, WatchdogKills, Watchdog, IInv, MutexDiscipline
  <2>2. Service!Free
    BY <1>0, <2>1, NobodyInside, FreeDevice
  <2>3. worker'.pid = NoPid
    BY <1>0, <2>1 DEF IInv, StateOK, KillWorker, Forget, Handle
  <2>4. UNCHANGED <<ServicePhase, ServiceWish>>
    BY <2>1 DEF ServicePhase, ServiceWish, Phase
  <2>5. Service!Evict
    BY <2>2, <2>3, <2>4, ResidentIsNext DEF Service!Evict
  <2> QED BY <2>5 DEF Service!Next
<1>4. CASE WatchdogStep /\ ~WatchdogKills
  BY <1>2, <1>4 DEF WatchdogStep, WatchdogWakes, WatchdogLocks, WatchdogMissesLock,
     WatchdogDecides, WatchdogGivesUp, server
<1>5. CASE Tick \/ UNCHANGED vars
  BY <1>2, <1>5 DEF Tick, vars
<1>6. CASE \E p \in Pids : WorkerServes(p) \/ WorkerDies(p)
  BY <1>2, <1>6 DEF WorkerServes, WorkerHello, WorkerLoadFails, WorkerTakes,
     WorkerReplies, WorkerDies, parent
<1> QED BY <1>1, <1>2, <1>3, <1>4, <1>5, <1>6 DEF Next

\* The refined invariant.
LEMMA ServiceInvariant == Spec => []SInv
<1>1. Init => SInv
  <2> SUFFICES ASSUME Init PROVE SInv
    OBVIOUS
  <2>1. WishOK
    BY DEF Init, WishOK
  <2> QED BY <2>1, InitIInv DEF SInv
<1>2. SInv /\ [Next]_vars => SInv'
  <2> SUFFICES ASSUME SInv, [Next]_vars PROVE SInv'
    OBVIOUS
  <2> QED BY WishStep, StepIInv DEF SInv
<1> QED BY <1>1, <1>2, PTL DEF Spec

\* The server with its threads, processes, sockets and failures implements the
\* service: one holder of the device, computing on the backend and card it asked
\* for, never past the loss of its worker.
THEOREM Implements == Spec => ServesTheDevice
<1>1. SInv /\ SInv' /\ [Next]_vars => [Service!Next]_(Service!vars)
  BY StepRefines
<1> QED BY <1>1, Initial, ServiceInvariant, PTL DEF Spec, ServesTheDevice, Service!Spec
-----------------------------------------------------------------------------
(***************************************************************************)
(* What the handle says, and who may change it.                            *)
(***************************************************************************)

\* The process being started is the one that was asked for.
StartedAsAsked ==
    \A t \in Clients : pc[t] = "hello" =>
        proc[spawning].backend = req[t].backend /\ proc[spawning].gpu = worker.gpu

\* A process goes through its life with the backend and the card it was given.
LEMMA ProcessKeeps ==
    ASSUME IInv, NEW p \in Pids, WorkerServes(p) \/ WorkerDies(p)
    PROVE  /\ UNCHANGED parent
           /\ \A q \in Pids : proc'[q].backend = proc[q].backend /\ proc'[q].gpu = proc[q].gpu
<1>1. proc \in [Pids -> Process]
  BY DEF IInv, StateOK
<1>2. UNCHANGED parent
  BY DEF WorkerServes, WorkerHello, WorkerLoadFails, WorkerTakes, WorkerReplies, WorkerDies
<1>3. \E s, f : \/ proc' = [proc EXCEPT ![p].state = s]
                \/ proc' = [proc EXCEPT ![p].state = s, ![p].cur = f]
  BY Zenon DEF WorkerServes, WorkerHello, WorkerLoadFails, WorkerTakes, WorkerReplies, WorkerDies
<1>4. PICK s, f : \/ proc' = [proc EXCEPT ![p].state = s]
                  \/ proc' = [proc EXCEPT ![p].state = s, ![p].cur = f]
  BY <1>3
<1> QED BY <1>1, <1>2, <1>4 DEF Process

\* Killing the worker empties the handle.
LEMMA KillEmpties ==
    ASSUME IInv, KillWorker
    PROVE  worker'.pid = NoPid /\ worker'.name = ""
BY DEF IInv, StateOK, KillWorker, Forget, Handle

\* The owner of the lock keeps both.
LEMMA OwnHandle ==
    ASSUME IInv, HandleIsTrue, StartedAsAsked, NEW t \in Clients, LockedStep(t)
    PROVE  HandleIsTrue' /\ StartedAsAsked'
<1>0. /\ pc \in [Clients -> PCs] /\ req \in [Clients -> Request] /\ worker \in Handle
      /\ proc \in [Pids -> Process] /\ spawning \in Pids \cup {NoPid} /\ NoPid \notin Pids
  BY ConstantsAssumption DEF ConstantsAssumption, IInv, StateOK
<1>1. pc[t] \in Locked /\ ClientStep(t)
  BY DEF LockedStep, ClientStep, EnsureWarm, EnsureSpawn, EnsureForkFails, HelloArrives,
     HelloFails, Send, SendFails, Recv, RecvError, RecvFails, Unlock, Fail, Locked
<1>2. \A u \in Clients \ {t} : pc'[u] # "hello"
  BY <1>0, <1>1, OnlyItself DEF IInv, MutexDiscipline, Locked
<1>3. CASE EnsureSpawn(t)
  <2>1. PICK p \in Pids :
          /\ proc' = [BeforeFork EXCEPT ![p] = [state |-> "loading", backend |-> req[t].backend,
                                                gpu |-> WantGpu, cur |-> NoFrame]]
          /\ spawning' = p
    BY <1>3 DEF EnsureSpawn
  <2>2. worker' = [Forget(worker) EXCEPT !.gpu = WantGpu] /\ req' = req
    BY <1>3 DEF EnsureSpawn
  <2>3. worker'.pid = NoPid /\ worker'.name = "" /\ worker'.gpu = WantGpu
    BY <1>0, <2>2 DEF Forget, Handle
  <2>4. proc'[p].backend = req[t].backend /\ proc'[p].gpu = WantGpu
    BY <2>1 DEF BeforeFork, Reap
  <2> QED BY <1>2, <2>1, <2>2, <2>3, <2>4 DEF HandleIsTrue, Alive, StartedAsAsked
<1>4. CASE HelloArrives(t)
  <2>1. /\ UNCHANGED <<req, proc>> /\ pc[t] = "hello" /\ pc'[t] # "hello"
        /\ worker' = [worker EXCEPT !.pid = spawning, !.fd = spawning, !.bt = req[t].backend,
                                    !.name = proc[spawning].backend]
    BY <1>0, <1>4 DEF HelloArrives, Goto, AfterEnsure
  <2>2. /\ worker'.pid = spawning /\ worker'.bt = req[t].backend
        /\ worker'.name = proc[spawning].backend /\ worker'.gpu = worker.gpu
    BY <1>0, <2>1 DEF Handle
  <2>3. spawning # NoPid
    BY <2>1 DEF IInv, HandleOK
  <2> QED BY <1>2, <2>1, <2>2, <2>3 DEF HandleIsTrue, Alive, StartedAsAsked
<1>5. CASE HelloFails(t)
  <2>1. UNCHANGED worker /\ pc[t] = "hello" /\ pc'[t] = "fail"
    BY <1>0, <1>5 DEF HelloFails, Goto
  <2>2. ~Alive
    BY <2>1 DEF IInv, HandleOK
  <2> QED BY <1>2, <2>1, <2>2 DEF HandleIsTrue, Alive, StartedAsAsked
<1>6. CASE EnsureForkFails(t) \/ SendFails(t) \/ RecvFails(t)
  <2>1. worker'.pid = NoPid /\ worker'.name = ""
    BY <1>0, <1>6, KillEmpties DEF EnsureForkFails, SendFails, RecvFails, Forget, Handle
  <2>2. pc'[t] = "fail"
    BY <1>0, <1>6 DEF EnsureForkFails, SendFails, RecvFails, Goto
  <2> QED BY <1>2, <2>1, <2>2 DEF HandleIsTrue, Alive, StartedAsAsked
<1>7. CASE EnsureWarm(t) \/ Send(t) \/ Recv(t) \/ RecvError(t) \/ Unlock(t) \/ Fail(t)
  <2>1. UNCHANGED <<worker, proc>> /\ pc'[t] # "hello"
    BY <1>0, <1>7 DEF EnsureWarm, Send, Recv, RecvError, Unlock, Fail, AfterEnsure, AfterFail,
       Goto, server
  <2> QED BY <1>2, <2>1 DEF HandleIsTrue, Alive, StartedAsAsked
<1> QED BY <1>3, <1>4, <1>5, <1>6, <1>7 DEF LockedStep

\* Every step keeps both.
LEMMA HandleStep ==
    ASSUME IInv, IInv', HandleIsTrue, StartedAsAsked, [Next]_vars
    PROVE  HandleIsTrue' /\ StartedAsAsked'
<1>1. ASSUME NEW t \in Clients, ClientStep(t) PROVE HandleIsTrue' /\ StartedAsAsked'
  <2>1. CASE LockedStep(t)
    BY <2>1, OwnHandle
  <2>2. CASE ~LockedStep(t)
    <3>1. UNCHANGED <<worker, spawning, proc>> /\ pc[t] # "hello" /\ pc'[t] # "hello"
      <4>1. CASE Acquire(t)
        BY <4>1 DEF Acquire, Goto, IInv, StateOK
      <4>2. CASE ~Acquire(t)
        <5>1. pc[t] \notin Locked
          BY <1>1, <2>2, <4>2 DEF ClientStep, Locked, Remove, Depth, Siglip, Parts, Arrive,
             AdminLoad, Respond, Leave
        <5> QED BY <1>1, <4>2, <5>1, OutsideLock DEF Locked
      <4> QED BY <4>1, <4>2
    <3>2. \A u \in Clients \ {t} : pc'[u] = pc[u] /\ req'[u] = req[u]
      BY <1>1, OnlyItself
    <3> QED BY <3>1, <3>2 DEF HandleIsTrue, Alive, StartedAsAsked
  <2> QED BY <2>1, <2>2
<1>2. CASE UNCHANGED <<worker, spawning, proc, pc, req>>
  BY <1>2 DEF HandleIsTrue, Alive, StartedAsAsked
<1>3. CASE Unload \/ WatchdogKills
  <2>1. UNCHANGED <<pc, req>> /\ KillWorker /\ (mtx = NoThread \/ mtx = "watchdog")
    BY <1>3 DEF Unload, WatchdogKills, Watchdog, IInv, MutexDiscipline
  <2>2. \A t \in Clients : pc'[t] # "hello"
    BY <2>1, NobodyInside DEF Locked
  <2> QED BY <2>1, <2>2, KillEmpties DEF HandleIsTrue, Alive, StartedAsAsked
<1>4. CASE WatchdogStep /\ ~WatchdogKills
  BY <1>2, <1>4 DEF WatchdogStep, WatchdogWakes, WatchdogLocks, WatchdogMissesLock,
     WatchdogDecides, WatchdogGivesUp, server
<1>5. CASE Tick \/ UNCHANGED vars
  BY <1>2, <1>5 DEF Tick, vars
<1>6. CASE \E p \in Pids : WorkerServes(p) \/ WorkerDies(p)
  <2>1. /\ UNCHANGED parent
        /\ \A q \in Pids : proc'[q].backend = proc[q].backend /\ proc'[q].gpu = proc[q].gpu
    BY <1>6, ProcessKeeps
  <2>2. Alive => worker.pid \in Pids
    BY DEF IInv, StateOK, Handle, Alive
  <2>3. \A t \in Clients : pc[t] = "hello" => spawning \in Pids
    BY DEF IInv, StateOK, HandleOK
  <2> QED BY <2>1, <2>2, <2>3 DEF parent, HandleIsTrue, Alive, StartedAsAsked
<1> QED BY <1>1, <1>3, <1>4, <1>5, <1>6 DEF Next

\* What is reported of the worker (backend, card) is what it was started with.
THEOREM HandleTrue == Spec => []HandleIsTrue
<1>1. Init => HandleIsTrue /\ StartedAsAsked
  <2> SUFFICES ASSUME Init PROVE HandleIsTrue /\ StartedAsAsked
    OBVIOUS
  <2>1. worker.pid = NoPid /\ worker.name = ""
    BY DEF Init
  <2>2. \A t \in Clients : pc[t] = "idle"
    BY DEF Init
  <2> QED BY <2>1, <2>2 DEF HandleIsTrue, StartedAsAsked, Alive
<1>2. IInv /\ IInv' /\ HandleIsTrue /\ StartedAsAsked /\ [Next]_vars
        => HandleIsTrue' /\ StartedAsAsked'
  BY HandleStep
<1> QED BY <1>1, <1>2, Invariant, PTL DEF Spec

\* While a thread exchanges frames nobody else touches the handle.
LEMMA WorkerStays ==
    ASSUME IInv, [Next]_vars, NEW t \in Clients, Exchanging(t), Exchanging(t)'
    PROVE  UNCHANGED worker
<1>0. mtx = t /\ pc[t] \in Locked /\ pc \in [Clients -> PCs]
  BY DEF Exchanging, IInv, StateOK, MutexDiscipline, Locked
<1>1. CASE ClientStep(t)
  <2>1. ~(EnsureWarm(t) \/ EnsureSpawn(t) \/ EnsureForkFails(t) \/ HelloArrives(t)
          \/ HelloFails(t) \/ SendFails(t) \/ RecvError(t) \/ RecvFails(t) \/ Unlock(t) \/ Fail(t))
    BY <1>0 DEF Exchanging, EnsureWarm, EnsureSpawn, EnsureForkFails, HelloArrives,
       HelloFails, SendFails, RecvError, RecvFails, Unlock, Fail, Goto
  <2>2. LockedStep(t)
    BY <1>0, <1>1 DEF ClientStep, Locked, Remove, Depth, Siglip, Parts, Arrive,
       AdminLoad, Acquire, Respond, Leave
  <2> QED BY <2>1, <2>2 DEF LockedStep, Send, Recv, server
<1>2. ASSUME NEW u \in Clients \ {t}, ClientStep(u) PROVE UNCHANGED worker
  <2>1. pc[u] \notin Locked
    BY <1>0 DEF IInv, MutexDiscipline
  <2>2. ~Acquire(u)
    BY <1>0, ConstantsAssumption DEF Acquire, ConstantsAssumption
  <2> QED BY <1>2, <2>1, <2>2, OutsideLock
<1>3. ~Unload /\ ~WatchdogKills
  BY <1>0, NobodyInside DEF Unload, WatchdogKills, Watchdog, IInv, MutexDiscipline
<1>4. CASE WatchdogStep
  BY <1>3, <1>4 DEF WatchdogStep, WatchdogWakes, WatchdogLocks, WatchdogMissesLock,
     WatchdogDecides, WatchdogGivesUp, server
<1>5. CASE Tick \/ UNCHANGED vars
  BY <1>5 DEF Tick, vars
<1>6. CASE \E p \in Pids : WorkerServes(p) \/ WorkerDies(p)
  BY <1>6, ProcessKeeps DEF parent
<1> QED BY <1>1, <1>2, <1>3, <1>4, <1>5, <1>6 DEF Next

\* All images of a request are computed by the same process.
THEOREM BatchStays == Spec => BatchOnOneWorker
<1>1. IInv /\ [Next]_vars =>
        [\A t \in Clients : Exchanging(t) /\ Exchanging(t)' => UNCHANGED worker]_vars
  BY WorkerStays
<1> QED BY <1>1, Invariant, PTL DEF Spec, BatchOnOneWorker
-----------------------------------------------------------------------------
(***************************************************************************)
(* What is in the sockets.                                                 *)
(***************************************************************************)

\* No frame of an exchange is in the socket or in the worker's hands.
Quiet(p) == sock[p].to = <<>> /\ sock[p].from = <<>> /\ proc[p].state # "busy"

\* One frame is, and it is the one thread t waits to have answered.
UnderWay(p, t) ==
    \E f \in Frame :
        /\ f.for = t /\ f.left = req[t].left
        /\ \/ sock[p].to = <<f>> /\ sock[p].from = <<>> /\ proc[p].state # "busy"
           \/ sock[p].to = <<>> /\ sock[p].from = <<>> /\ proc[p].state = "busy" /\ proc[p].cur = f
           \/ sock[p].to = <<>> /\ sock[p].from = <<f>> /\ proc[p].state # "busy"

\* The worker in the handle has said HELLO, and holds at most the frame of the
\* thread at recv; the one being started holds at most its HELLO or ERR.
WorkerFrames ==
    Alive => /\ proc[worker.pid].state # "loading"
             /\ \/ Quiet(worker.pid)
                \/ \E t \in Clients : pc[t] = "recv" /\ UnderWay(worker.pid, t)
StarterFrames ==
    spawning # NoPid =>
        /\ sock[spawning].to = <<>> /\ proc[spawning].state # "busy"
        /\ \/ sock[spawning].from = <<>>
           \/ proc[spawning].state # "loading" /\ \E f \in Frame : sock[spawning].from = <<f>>
FramesOK == WorkerFrames /\ StarterFrames

\* Sequences of one element.
LEMMA OneFrame ==
    ASSUME NEW f \in Frame
    PROVE  /\ <<f>> # <<>> /\ Len(<<f>>) = 1 /\ Append(<<>>, f) = <<f>>
           /\ Head(<<f>>) = f /\ Tail(<<f>>) = <<>>
OBVIOUS

\* What the owner of the lock does to the sockets.
LEMMA OwnFrames ==
    ASSUME IInv, IInv', FramesOK, NEW t \in Clients, LockedStep(t)
    PROVE  FramesOK'
<1>0. /\ pc \in [Clients -> PCs] /\ req \in [Clients -> Request] /\ worker \in Handle
      /\ proc \in [Pids -> Process] /\ sock \in [Pids -> Socket]
      /\ spawning \in Pids \cup {NoPid} /\ NoPid \notin Pids
  BY ConstantsAssumption DEF ConstantsAssumption, IInv, StateOK
<1>1. pc[t] \in Locked /\ ClientStep(t)
  BY DEF LockedStep, ClientStep, EnsureWarm, EnsureSpawn, EnsureForkFails, HelloArrives,
     HelloFails, Send, SendFails, Recv, RecvError, RecvFails, Unlock, Fail, Locked
<1>2. \A u \in Clients \ {t} : pc[u] # "recv" /\ pc'[u] # "recv"
  BY <1>0, <1>1, OnlyItself, OwnerAlone DEF Locked
<1>3. spawning # NoPid <=> pc[t] = "hello"
  BY <1>1, OwnerAlone
<1>4. Alive => worker.pid \in Pids /\ worker.fd = worker.pid
  BY <1>0 DEF Alive, Handle, IInv, NothingLeaks
<1>5. Alive /\ pc[t] # "recv" => Quiet(worker.pid) /\ proc[worker.pid].state # "loading"
  BY <1>2 DEF FramesOK, WorkerFrames
<1>6. CASE EnsureWarm(t) \/ Unlock(t) \/ Fail(t)
  <2>1. UNCHANGED <<worker, spawning, sock, proc>> /\ pc[t] \notin {"recv", "hello"}
    BY <1>6 DEF EnsureWarm, Unlock, Fail, server
  <2>2. Alive' => Alive
    BY <2>1 DEF Alive
  <2> QED BY <1>3, <1>5, <2>1, <2>2 DEF FramesOK, WorkerFrames, StarterFrames, Quiet
<1>7. CASE EnsureSpawn(t)
  <2>1. PICK p \in Pids :
          /\ proc' = [BeforeFork EXCEPT ![p] = [state |-> "loading", backend |-> req[t].backend,
                                                gpu |-> WantGpu, cur |-> NoFrame]]
          /\ sock' = [Close(sock, worker.fd) EXCEPT ![p] =
                           [open |-> TRUE, to |-> <<>>, from |-> <<>>]]
          /\ spawning' = p
    BY <1>7 DEF EnsureSpawn
  <2>2. worker'.pid = NoPid
    BY <1>0, <1>7 DEF EnsureSpawn, Forget, Handle
  <2>3. proc'[p].state = "loading" /\ sock'[p].to = <<>> /\ sock'[p].from = <<>>
    BY <2>1 DEF BeforeFork, Reap, Close
  <2> QED BY <2>1, <2>2, <2>3 DEF FramesOK, WorkerFrames, StarterFrames, Alive
<1>8. CASE EnsureForkFails(t) \/ SendFails(t) \/ RecvFails(t)
  <2>1. worker'.pid = NoPid
    BY <1>0, <1>8, KillEmpties DEF EnsureForkFails, SendFails, RecvFails, Forget, Handle
  <2>2. spawning' = NoPid
    BY <1>3, <1>8 DEF EnsureForkFails, SendFails, RecvFails
  <2> QED BY <2>1, <2>2 DEF FramesOK, WorkerFrames, StarterFrames, Alive
<1>9. CASE HelloArrives(t)
  <2>1. /\ pc[t] = "hello" /\ spawning' = NoPid /\ UNCHANGED proc /\ sock[spawning].from # <<>>
        /\ sock' = [sock EXCEPT ![spawning].from = Tail(@)]
        /\ worker' = [worker EXCEPT !.pid = spawning, !.fd = spawning, !.bt = req[t].backend,
                                    !.name = proc[spawning].backend]
    BY <1>9 DEF HelloArrives
  <2>2. spawning \in Pids /\ worker'.pid = spawning
    BY <1>0, <1>3, <2>1 DEF Handle
  <2>3. PICK f \in Frame : sock[spawning].from = <<f>>
    BY <2>1, <2>2, <1>0 DEF FramesOK, StarterFrames
  <2>4. /\ sock'[spawning].from = <<>> /\ sock'[spawning].to = sock[spawning].to
    BY <1>0, <2>1, <2>2, <2>3, OneFrame DEF Socket
  <2>5. /\ sock[spawning].to = <<>> /\ proc[spawning].state \notin {"busy", "loading"}
    BY <1>0, <2>1, <2>2 DEF FramesOK, StarterFrames
  <2> QED BY <2>1, <2>2, <2>4, <2>5 DEF FramesOK, WorkerFrames, StarterFrames, Alive, Quiet
<1>10. CASE HelloFails(t)
  <2>1. UNCHANGED worker /\ spawning' = NoPid /\ pc[t] = "hello"
    BY <1>10 DEF HelloFails
  <2>2. ~Alive
    BY <1>3, <2>1 DEF IInv, HandleOK
  <2> QED BY <2>1, <2>2 DEF FramesOK, WorkerFrames, StarterFrames, Alive
<1>11. CASE Send(t)
  <2>1. /\ pc[t] = "send" /\ pc'[t] = "recv" /\ UNCHANGED <<worker, spawning, proc, req>>
        /\ sock' = [sock EXCEPT ![worker.fd].to = Append(@, RequestFrame(t))]
    BY <1>0, <1>11 DEF Send, Goto, server
  <2>2. Alive
    BY <2>1 DEF IInv, HandleOK
  <2>3. RequestFrame(t) \in Frame
    BY <1>0, <2>1, RequestFrameType DEF IInv, RequestsOK
  <2>4. PICK f \in Frame : f = RequestFrame(t)
    BY <2>3
  <2>5. f.for = t /\ f.left = req[t].left
    BY <2>4 DEF RequestFrame
  <2>6. Quiet(worker.pid) /\ proc[worker.pid].state # "loading" /\ spawning = NoPid
    BY <1>3, <1>5, <2>1, <2>2
  <2>7. sock'[worker.pid].to = <<f>> /\ sock'[worker.pid].from = <<>>
    BY <1>0, <1>4, <2>1, <2>2, <2>4, <2>6, OneFrame DEF Quiet, Socket
  <2>8. UnderWay(worker.pid, t)'
    BY <2>1, <2>5, <2>6, <2>7 DEF UnderWay, Quiet
  <2> QED BY <2>1, <2>6, <2>8 DEF FramesOK, WorkerFrames, StarterFrames
<1>12. CASE Recv(t) \/ RecvError(t)
  <2>1. /\ pc[t] = "recv" /\ UNCHANGED <<worker, spawning, proc>> /\ sock[worker.fd].from # <<>>
        /\ sock' = [sock EXCEPT ![worker.fd].from = Tail(@)]
    BY <1>12 DEF Recv, RecvError, server
  <2>2. Alive
    BY <2>1 DEF IInv, HandleOK
  <2>3. ~Quiet(worker.pid)
    BY <1>4, <2>1, <2>2 DEF Quiet
  <2>4. UnderWay(worker.pid, t) /\ proc[worker.pid].state # "loading" /\ spawning = NoPid
    BY <1>2, <1>3, <2>1, <2>2, <2>3 DEF FramesOK, WorkerFrames
  <2>5. PICK f \in Frame : /\ sock[worker.pid].to = <<>> /\ sock[worker.pid].from = <<f>>
                           /\ proc[worker.pid].state # "busy"
    BY <1>4, <2>1, <2>2, <2>4 DEF UnderWay
  <2>6. sock'[worker.pid].to = <<>> /\ sock'[worker.pid].from = <<>>
    BY <1>0, <1>4, <2>1, <2>2, <2>5, OneFrame DEF Socket
  <2> QED BY <2>1, <2>4, <2>5, <2>6 DEF FramesOK, WorkerFrames, StarterFrames, Quiet
<1> QED BY <1>6, <1>7, <1>8, <1>9, <1>10, <1>11, <1>12 DEF LockedStep
\* What the worker process does to the sockets.
LEMMA ProcessFrames ==
    ASSUME IInv, FramesOK, NEW p \in Pids, WorkerServes(p) \/ WorkerDies(p)
    PROVE  FramesOK'
<1>0. /\ proc \in [Pids -> Process] /\ sock \in [Pids -> Socket] /\ NoPid \notin Pids
      /\ UNCHANGED <<worker, spawning, pc, req>>
  BY ConstantsAssumption, ProcessKeeps DEF ConstantsAssumption, IInv, StateOK, parent
<1>1. proc[p].state # "none"
  BY DEF WorkerServes, WorkerHello, WorkerLoadFails, WorkerTakes, WorkerReplies, WorkerDies
<1>2. p \in {worker.pid, spawning} \ {NoPid}
  BY <1>1 DEF IInv, NothingLeaks, Unreaped
<1>3. spawning # NoPid => ~Alive
  BY DEF IInv, HandleOK
<1>4. CASE p = worker.pid
  <2>1. Alive /\ spawning = NoPid /\ proc[p].state # "loading"
    BY <1>2, <1>3, <1>4 DEF Alive, FramesOK, WorkerFrames
  <2>2. SUFFICES /\ proc'[p].state # "loading"
                 /\ Quiet(p)' \/ \E t \in Clients : pc[t] = "recv" /\ UnderWay(p, t)'
    BY <1>0, <1>4, <2>1 DEF FramesOK, WorkerFrames, StarterFrames
  <2>3. CASE WorkerTakes(p)
    <3>1. /\ proc' = [proc EXCEPT ![p].state = "busy", ![p].cur = Head(sock[p].to)]
          /\ sock' = [sock EXCEPT ![p].to = Tail(@)] /\ sock[p].to # <<>>
      BY <2>3 DEF WorkerTakes
    <3>2. PICK t \in Clients : pc[t] = "recv" /\ UnderWay(p, t)
      BY <1>4, <2>1, <3>1 DEF FramesOK, WorkerFrames, Quiet
    <3>3. PICK f \in Frame : /\ f.for = t /\ f.left = req[t].left
                             /\ sock[p].to = <<f>> /\ sock[p].from = <<>>
      BY <3>1, <3>2 DEF UnderWay
    <3>4. /\ sock'[p].to = <<>> /\ sock'[p].from = <<>>
          /\ proc'[p].state = "busy" /\ proc'[p].cur = f
      BY <1>0, <3>1, <3>3, OneFrame DEF Socket, Process
    <3> QED BY <1>0, <3>2, <3>3, <3>4 DEF UnderWay
  <2>4. CASE WorkerReplies(p)
    <3>1. PICK a \in Answers(proc[p].cur) :
            \/ sock' = sock
            \/ sock' = [sock EXCEPT ![p].from = Append(@, [proc[p].cur EXCEPT !.type = a])]
      BY <2>4 DEF WorkerReplies
    <3>2. proc[p].state = "busy" /\ proc' = [proc EXCEPT ![p].state = "ready", ![p].cur = NoFrame]
      BY <2>4 DEF WorkerReplies
    <3>3. PICK t \in Clients : pc[t] = "recv" /\ UnderWay(p, t)
      BY <1>4, <2>1, <3>2 DEF FramesOK, WorkerFrames, Quiet
    <3>4. PICK f \in Frame : /\ f.for = t /\ f.left = req[t].left /\ proc[p].cur = f
                             /\ sock[p].to = <<>> /\ sock[p].from = <<>>
      BY <3>2, <3>3 DEF UnderWay
    <3>5. proc'[p].state = "ready"
      BY <1>0, <3>2 DEF Process
    <3>6. CASE sock' = sock
      BY <3>4, <3>5, <3>6 DEF Quiet
    <3>7. CASE sock' = [sock EXCEPT ![p].from = Append(@, [proc[p].cur EXCEPT !.type = a])]
      <4>1. PICK g : g = [f EXCEPT !.type = a]
        OBVIOUS
      <4>2. g \in Frame /\ g.for = f.for /\ g.left = f.left
        BY <4>1, <3>1, <3>4 DEF Frame, Answers
      <4>3. sock'[p].to = <<>> /\ sock'[p].from = <<g>>
        BY <1>0, <3>4, <3>7, <4>1, <4>2, OneFrame, SMTT(30) DEF Socket
      <4> QED BY <1>0, <3>3, <3>4, <3>5, <4>2, <4>3 DEF UnderWay
    <3> QED BY <3>1, <3>5, <3>6, <3>7
  <2>5. CASE WorkerDies(p)
    <3>1. /\ proc'[p].state = "dead" /\ sock'[p].to = <<>> /\ sock'[p].from = sock[p].from
      BY <1>0, <2>5 DEF WorkerDies, Process, Socket
    <3>2. CASE Quiet(p)
      BY <3>1, <3>2 DEF Quiet
    <3>3. CASE \E t \in Clients : pc[t] = "recv" /\ UnderWay(p, t)
      <4>1. PICK t \in Clients : pc[t] = "recv" /\ UnderWay(p, t)
        BY <3>3
      <4>2. PICK f \in Frame : /\ f.for = t /\ f.left = req[t].left
                               /\ sock[p].from = <<>> \/ sock[p].from = <<f>>
        BY <4>1 DEF UnderWay
      <4> QED BY <1>0, <3>1, <4>1, <4>2 DEF UnderWay, Quiet
    <3> QED BY <1>4, <2>1, <3>1, <3>2, <3>3 DEF FramesOK, WorkerFrames
  <2>6. ~WorkerHello(p) /\ ~WorkerLoadFails(p)
    BY <2>1 DEF WorkerHello, WorkerLoadFails
  <2> QED BY <2>3, <2>4, <2>5, <2>6 DEF WorkerServes
<1>5. CASE p = spawning
  <2>1. ~Alive /\ p # NoPid
    BY <1>2, <1>3, <1>5
  <2>2. SUFFICES /\ sock'[p].to = <<>> /\ proc'[p].state # "busy"
                 /\ \/ sock'[p].from = <<>>
                    \/ proc'[p].state # "loading" /\ \E f \in Frame : sock'[p].from = <<f>>
    BY <1>0, <1>5, <2>1 DEF FramesOK, WorkerFrames, StarterFrames, Alive
  <2>3. /\ sock[p].to = <<>> /\ proc[p].state # "busy"
        /\ \/ sock[p].from = <<>>
           \/ proc[p].state # "loading" /\ \E f \in Frame : sock[p].from = <<f>>
    BY <1>5, <2>1 DEF FramesOK, StarterFrames
  <2>4. CASE WorkerHello(p)
    <3>1. sock[p].from = <<>> /\ proc'[p].state = "ready"
      BY <1>0, <2>3, <2>4 DEF WorkerHello, Process
    <3>2. PICK f \in Frame : f = NoFrame
      BY FrameTypes
    <3>3. sock'[p].to = <<>> /\ sock'[p].from = <<f>>
      BY <1>0, <2>3, <2>4, <3>1, <3>2, OneFrame DEF WorkerHello, Socket
    <3> QED BY <3>1, <3>3
  <2>5. CASE WorkerLoadFails(p)
    <3>1. sock[p].from = <<>> /\ proc'[p].state = "dead"
      BY <1>0, <2>3, <2>5 DEF WorkerLoadFails, Process
    <3>2. PICK f \in Frame : f = ErrFrame
      BY FrameTypes
    <3>3. sock' = [sock EXCEPT ![p].from = IF WorkerConfig = {} THEN <<>> ELSE Append(@, f)]
      BY <2>5, <3>1, <3>2 DEF WorkerLoadFails
    <3>4. sock'[p].to = <<>> /\ (sock'[p].from = <<>> \/ sock'[p].from = <<f>>)
      BY <1>0, <2>3, <3>1, <3>3, OneFrame DEF Socket
    <3> QED BY <3>1, <3>4
  <2>6. CASE WorkerDies(p)
    <3>1. /\ proc'[p].state = "dead" /\ sock'[p].to = <<>> /\ sock'[p].from = sock[p].from
      BY <1>0, <2>6 DEF WorkerDies, Process, Socket
    <3> QED BY <2>3, <3>1
  <2>7. ~WorkerTakes(p) /\ ~WorkerReplies(p)
    BY <2>3 DEF WorkerTakes, WorkerReplies
  <2> QED BY <2>4, <2>5, <2>6, <2>7 DEF WorkerServes
<1> QED BY <1>2, <1>4, <1>5

\* A step outside the lock disturbs no exchange.
LEMMA OutsideFrames ==
    ASSUME IInv, FramesOK, NEW t \in Clients, ClientStep(t), ~LockedStep(t)
    PROVE  FramesOK'
<1>1. UNCHANGED <<worker, spawning, proc, sock>> /\ pc[t] # "recv"
  <2>1. CASE Acquire(t)
    BY <2>1 DEF Acquire
  <2>2. CASE ~Acquire(t)
    <3>1. pc[t] \notin Locked
      BY <2>2 DEF ClientStep, Locked, Remove, Depth, Siglip, Parts, Arrive,
         AdminLoad, Respond, Leave
    <3> QED BY <2>2, <3>1, OutsideLock DEF Locked
  <2> QED BY <2>1, <2>2
<1>2. \A u \in Clients \ {t} : pc'[u] = pc[u] /\ req'[u] = req[u]
  BY OnlyItself
<1>3. ASSUME NEW u \in Clients, pc[u] = "recv", UnderWay(worker.pid, u)
      PROVE  pc'[u] = "recv" /\ UnderWay(worker.pid, u)'
  BY <1>1, <1>2, <1>3 DEF UnderWay
<1>4. Quiet(worker.pid) => Quiet(worker.pid)'
  BY <1>1 DEF Quiet
<1> QED BY <1>1, <1>3, <1>4 DEF FramesOK, WorkerFrames, StarterFrames, Alive

\* Every step keeps the sockets in order.
LEMMA FramesStep ==
    ASSUME IInv, IInv', FramesOK, [Next]_vars
    PROVE  FramesOK'
<1>1. ASSUME NEW t \in Clients, ClientStep(t) PROVE FramesOK'
  BY <1>1, OwnFrames, OutsideFrames
<1>2. CASE UNCHANGED <<worker, spawning, proc, sock, pc, req>>
  BY <1>2 DEF FramesOK, WorkerFrames, StarterFrames, Alive, Quiet, UnderWay
<1>3. CASE Unload \/ WatchdogKills
  <2>1. UNCHANGED <<pc, spawning>> /\ KillWorker /\ (mtx = NoThread \/ mtx = "watchdog")
    BY <1>3 DEF Unload, WatchdogKills, Watchdog, IInv, MutexDiscipline
  <2>2. spawning' = NoPid
    BY <2>1, NobodyInside DEF IInv, HandleOK, Locked
  <2> QED BY <2>1, <2>2, KillEmpties DEF FramesOK, WorkerFrames, StarterFrames, Alive
<1>4. CASE WatchdogStep /\ ~WatchdogKills
  BY <1>2, <1>4 DEF WatchdogStep, WatchdogWakes, WatchdogLocks, WatchdogMissesLock,
     WatchdogDecides, WatchdogGivesUp, server
<1>5. CASE Tick \/ UNCHANGED vars
  BY <1>2, <1>5 DEF Tick, vars
<1>6. CASE \E p \in Pids : WorkerServes(p) \/ WorkerDies(p)
  BY <1>6, ProcessFrames
<1> QED BY <1>1, <1>3, <1>4, <1>5, <1>6 DEF Next

\* Hence the sockets are in order at all times.
LEMMA Frames == Spec => []FramesOK
<1>1. Init => FramesOK
  <2> SUFFICES ASSUME Init PROVE FramesOK
    OBVIOUS
  <2>1. worker.pid = NoPid /\ spawning = NoPid
    BY DEF Init
  <2> QED BY <2>1 DEF FramesOK, WorkerFrames, StarterFrames, Alive
<1>2. IInv /\ IInv' /\ FramesOK /\ [Next]_vars => FramesOK'
  BY FramesStep
<1> QED BY <1>1, <1>2, Invariant, PTL DEF Spec
\* The reply a request reads is the reply to the frame it has just sent.
THEOREM RepliesInOrder == Spec => []RepliesMatch
<1>1. IInv /\ FramesOK => RepliesMatch
  <2> SUFFICES ASSUME IInv, FramesOK, Alive PROVE RepliesMatch
    BY DEF RepliesMatch
  <2>1. PICK p : p = worker.pid /\ p = worker.fd
    BY DEF IInv, NothingLeaks
  <2>2. CASE Quiet(p)
    <3>1. InSocket(p) = {}
      BY <2>2 DEF Quiet, InSocket
    <3> QED BY <2>1, <3>1 DEF RepliesMatch
  <2>3. CASE \E t \in Clients : pc[t] = "recv" /\ UnderWay(p, t)
    <3>1. PICK t \in Clients : pc[t] = "recv" /\ UnderWay(p, t)
      BY <2>3
    <3>2. PICK f \in Frame :
            /\ f.for = t /\ f.left = req[t].left
            /\ \/ sock[p].to = <<f>> /\ sock[p].from = <<>> /\ proc[p].state # "busy"
               \/ sock[p].to = <<>> /\ sock[p].from = <<>> /\ proc[p].cur = f
               \/ sock[p].to = <<>> /\ sock[p].from = <<f>> /\ proc[p].state # "busy"
      BY <3>1 DEF UnderWay
    <3>3. InSocket(p) \subseteq {f}
      BY <3>2 DEF InSocket
    <3>4. Len(sock[p].to) + Len(sock[p].from) <= 1
      <4>1. Len(<<>>) = 0 /\ Len(<<f>>) = 1
        BY OneFrame
      <4>2. /\ Len(sock[p].to) = 0 \/ Len(sock[p].to) = 1
            /\ Len(sock[p].from) = 0 \/ Len(sock[p].from) = 1
            /\ Len(sock[p].to) = 0 \/ Len(sock[p].from) = 0
        BY <3>2, <4>1, Zenon
      <4>3. PICK a, b : a = Len(sock[p].to) /\ b = Len(sock[p].from)
        OBVIOUS
      <4>4. a \in {0, 1} /\ b \in {0, 1} /\ (a = 0 \/ b = 0)
        BY <4>2, <4>3
      <4>5. a + b <= 1
        BY <4>4
      <4> QED BY <4>3, <4>5, Zenon
    <3>5. \A g \in InSocket(p) : g.for = t /\ g.left = req[t].left
      BY <3>2, <3>3
    <3> QED BY <2>1, <3>1, <3>4, <3>5 DEF RepliesMatch
  <2> QED BY <2>1, <2>2, <2>3 DEF FramesOK, WorkerFrames
<1> QED BY <1>1, Invariant, Frames, PTL

-----------------------------------------------------------------------------
(***************************************************************************)
(* The watchdog.                                                           *)
(***************************************************************************)

\* Between the watchdog's decision and its kill there is a worker, and nobody
\* but /v1/admin/load, which has no guard, is composing an answer.
Unguarded(t) == req[t].family = "load"
Decided == wd = "kill" => Alive /\ \A t \in Clients : pc[t] = "respond" => Unguarded(t)

\* While the watchdog holds the lock no handler comes to compose an answer.
LEMMA DecidedStays ==
    ASSUME IInv, Decided, NEW t \in Clients, ClientStep(t), wd = "kill"
    PROVE  Decided'
<1>1. mtx = "watchdog" /\ pc \in [Clients -> PCs]
  BY DEF IInv, StateOK, MutexDiscipline
<1>2. \A u \in Clients : pc[u] \notin Locked
  BY <1>1, NobodyInside
<1>3. ~Acquire(t)
  BY <1>1, ConstantsAssumption DEF Acquire, ConstantsAssumption
<1>4. UNCHANGED worker
  BY <1>2, <1>3, OutsideLock
<1>5. ~LockedStep(t)
  BY <1>2 DEF LockedStep, EnsureWarm, EnsureSpawn, EnsureForkFails, HelloArrives,
     HelloFails, Send, SendFails, Recv, RecvError, RecvFails, Unlock, Fail, Locked
<1>6. pc'[t] # "respond"
  <2>1. CASE Remove(t) \/ Depth(t) \/ Siglip(t) \/ Parts(t)
    <3>1. Goto(t, "queued") \/ Goto(t, "leaving")
      BY <2>1 DEF Remove, Depth, Siglip, Parts, Queue, Reject
    <3> QED BY <1>1, <3>1 DEF Goto
  <2>2. CASE AdminLoad(t) \/ Respond(t) \/ Leave(t)
    BY <1>1, <2>2 DEF AdminLoad, Respond, Leave, Goto
  <2> QED BY <1>3, <1>5, <2>1, <2>2 DEF ClientStep
<1>7. \A u \in Clients \ {t} : pc'[u] = pc[u] /\ req'[u] = req[u]
  BY OnlyItself
<1> QED BY <1>4, <1>6, <1>7 DEF Decided, Alive, Unguarded

\* Under the lock, with nothing in flight, nobody else is composing an answer.
LEMMA NobodyAnswers ==
    ASSUME IInv, in_flight = 0
    PROVE  \A t \in Clients : pc[t] = "respond" => Unguarded(t)
<1>1. IsFiniteSet({t \in Clients : pc[t] # "idle" /\ req[t].family # "load"})
  BY CountedFinite DEF Counted
<1>2. {t \in Clients : pc[t] # "idle" /\ req[t].family # "load"} = {}
  BY <1>1, FS_EmptySet DEF IInv, InFlightCounts
<1> QED BY <1>2 DEF Unguarded

\* Every step keeps what the watchdog has seen true.
LEMMA DecidedStep ==
    ASSUME IInv, Decided, [Next]_vars
    PROVE  Decided'
<1>1. ASSUME NEW t \in Clients, ClientStep(t) PROVE Decided'
  <2>1. wd' = wd
    <3>1. ASSUME Remove(t) \/ Depth(t) \/ Siglip(t) \/ Parts(t) PROVE wd' = wd
      BY <3>1 DEF Remove, Depth, Siglip, Parts, Arrive
    <3>2. ASSUME LockedStep(t) PROVE wd' = wd
      BY <3>2 DEF LockedStep, EnsureWarm, EnsureSpawn, EnsureForkFails, HelloArrives,
         HelloFails, Send, SendFails, Recv, RecvError, RecvFails, Unlock, Fail
    <3> QED BY <1>1, <3>1, <3>2 DEF ClientStep, AdminLoad, Acquire, Respond, Leave
  <2>2. CASE wd = "kill"
    BY <1>1, <2>2, DecidedStays
  <2> QED BY <2>1, <2>2 DEF Decided
<1>2. CASE UNCHANGED <<wd, worker, pc, req>>
  BY <1>2 DEF Decided, Alive, Unguarded
<1>3. CASE Unload
  <2>1. wd # "kill"
    BY <1>3, ConstantsAssumption DEF Unload, IInv, MutexDiscipline, ConstantsAssumption
  <2> QED BY <1>3, <2>1 DEF Unload, Decided
<1>4. CASE WatchdogDecides
  <2>1. Alive /\ in_flight = 0 /\ UNCHANGED <<worker, pc, req>>
    BY <1>4 DEF WatchdogDecides, Evictable, server
  <2> QED BY <2>1, NobodyAnswers DEF Decided, Alive, Unguarded
<1>5. CASE WatchdogStep /\ ~WatchdogDecides
  <2>1. wd' # "kill"
    BY <1>5 DEF WatchdogStep, WatchdogWakes, WatchdogLocks, WatchdogMissesLock,
       WatchdogGivesUp, WatchdogKills, Watchdog
  <2> QED BY <2>1 DEF Decided
<1>6. CASE Tick \/ UNCHANGED vars
  BY <1>2, <1>6 DEF Tick, vars
<1>7. CASE \E p \in Pids : WorkerServes(p) \/ WorkerDies(p)
  BY <1>2, <1>7, ProcessKeeps DEF parent
<1> QED BY <1>1, <1>3, <1>4, <1>5, <1>6, <1>7 DEF Next

\* The watchdog kills a worker nobody uses, with nothing in its socket; what may
\* still be under way is the answer of /v1/admin/load, and no other.
THEOREM EvictionAtRest == Spec => []EvictsAtRest
<1>1. Init => Decided
  BY DEF Init, Decided
<1>2. IInv /\ Decided /\ [Next]_vars => Decided'
  BY DecidedStep
<1>3. IInv /\ Decided /\ FramesOK => EvictsAtRest
  <2> SUFFICES ASSUME IInv, Decided, FramesOK, wd = "kill" PROVE EvictsAtRest
    BY DEF EvictsAtRest
  <2>1. \A t \in Clients : pc[t] \notin Locked
    BY NobodyInside DEF IInv, MutexDiscipline
  <2>2. Alive /\ \A t \in Clients : pc[t] = "respond" => req[t].family = "load"
    BY DEF Decided, Unguarded
  <2>3. PICK p : p = worker.pid /\ p = worker.fd
    BY DEF IInv, NothingLeaks
  <2>4. Quiet(p)
    BY <2>1, <2>2, <2>3 DEF FramesOK, WorkerFrames, Locked
  <2>5. InSocket(p) = {}
    BY <2>4 DEF Quiet, InSocket
  <2> QED BY <2>1, <2>2, <2>3, <2>5 DEF EvictsAtRest
<1> QED BY <1>1, <1>2, <1>3, Invariant, Frames, PTL DEF Spec
-----------------------------------------------------------------------------
(***************************************************************************)
(* What the worker is asked for.                                           *)
(***************************************************************************)

\* The families a request can be queued for.
Offered == {"matte"} \cup ParentConfig

\* A request on its way to the worker is for one of them (or loads), and so is
\* the frame the worker has, or is about to take.
Asked ==
    \A t \in Clients : pc[t] \in {"queued", "ensure", "hello", "send", "recv"} =>
        req[t].family \in Offered \cup {"load"}
Carried ==
    \A p \in Pids :
        /\ sock[p].to = <<>> \/ \E f \in Frame : sock[p].to = <<f>> /\ f.type \in Offered
        /\ proc[p].state = "busy" => proc[p].cur.type \in Offered

\* A step that puts no frame on a socket and makes no process busy.
LEMMA CarriesOn ==
    ASSUME Carried,
           \A q \in Pids : sock'[q].to = sock[q].to \/ sock'[q].to = <<>>,
           \A q \in Pids : proc'[q] = proc[q] \/ proc'[q].state # "busy"
    PROVE  Carried'
BY DEF Carried

\* A thread asks for what is offered.
LEMMA AskedStep ==
    ASSUME IInv, Asked, NEW t \in Clients, ClientStep(t)
    PROVE  Asked'
<1>0. pc \in [Clients -> PCs] /\ req \in [Clients -> Request]
  BY DEF IInv, StateOK
<1>1. \A u \in Clients \ {t} : pc'[u] = pc[u] /\ req'[u] = req[u]
  BY OnlyItself
<1>2. SUFFICES pc'[t] \in {"queued", "ensure", "hello", "send", "recv"} =>
                   req'[t].family \in Offered \cup {"load"}
  BY <1>1 DEF Asked
<1>3. ASSUME NEW F, NEW B, NEW N, F \subseteq Offered, Queue(t, F, B, N)
      PROVE  req'[t].family \in Offered
  <2>1. PICK f \in F, b \in B, n \in N, g \in Gpus \cup {NoGpu}, s \in Sizes :
           req' = [req EXCEPT ![t] = [family |-> f, backend |-> b, gpu |-> g,
                                      left |-> n, size |-> s]]
    BY <1>3, Zenon DEF Queue
  <2> QED BY <1>0, <1>3, <2>1
<1>4. ASSUME NEW f, Reject(t, f) PROVE pc'[t] = "leaving"
  BY <1>0, <1>4 DEF Reject, Goto
<1>5. CASE Remove(t)
  <2>1. Queue(t, {"matte"}, Backends, 1 .. MaxBatch) \/ Reject(t, "matte")
    BY <1>5 DEF Remove
  <2> QED BY <1>3, <1>4, <2>1 DEF Offered
<1>6. CASE Depth(t)
  <2>1. \/ Queue(t, {"depth2", "depth3"} \cap ParentConfig, Backends, 1 .. MaxBatch)
        \/ Reject(t, "depth2")
    BY <1>6 DEF Depth
  <2>2. {"depth2", "depth3"} \cap ParentConfig \subseteq Offered
    BY DEF Offered
  <2> QED BY <1>3, <1>4, <2>1, <2>2
<1>7. CASE Siglip(t)
  <2>1. \/ Queue(t, {"siglip"} \cap ParentConfig, {DefaultBackend}, {1})
        \/ Reject(t, "siglip")
    BY <1>7 DEF Siglip
  <2>2. {"siglip"} \cap ParentConfig \subseteq Offered
    BY DEF Offered
  <2> QED BY <1>3, <1>4, <2>1, <2>2
<1>8. CASE Parts(t)
  <2>1. Queue(t, {"parts"} \cap ParentConfig, Backends, {1}) \/ Reject(t, "parts")
    BY <1>8 DEF Parts
  <2>2. {"parts"} \cap ParentConfig \subseteq Offered
    BY DEF Offered
  <2> QED BY <1>3, <1>4, <2>1, <2>2
<1>9. CASE AdminLoad(t)
  BY <1>0, <1>9 DEF AdminLoad, NoRequest
<1>10. CASE Acquire(t) \/ Respond(t) \/ Leave(t)
  BY <1>0, <1>2, <1>10 DEF Asked, Acquire, Respond, Leave, Goto
<1>11. CASE LockedStep(t) /\ ~Recv(t)
  <2>1. req' = req /\ (pc[t] \in {"ensure", "hello", "send", "recv"}
                       \/ pc'[t] \in {"idle", "respond", "leaving"})
    BY <1>0, <1>11 DEF LockedStep, EnsureWarm, EnsureSpawn, EnsureForkFails, HelloArrives,
       HelloFails, Send, SendFails, RecvError, RecvFails, Unlock, Fail, AfterFail, Goto
  <2> QED BY <2>1 DEF Asked
<1>12. CASE Recv(t)
  <2>1. pc[t] = "recv" /\ req' = [req EXCEPT ![t].left = @ - 1]
    BY <1>12 DEF Recv
  <2>2. req'[t].family = req[t].family
    BY <1>0, <2>1 DEF Request
  <2> QED BY <2>1, <2>2 DEF Asked
<1> QED BY <1>5, <1>6, <1>7, <1>8, <1>9, <1>10, <1>11, <1>12 DEF ClientStep

\* The frame a thread sends is for what it asks.
LEMMA SendCarries ==
    ASSUME IInv, FramesOK, Asked, Carried, NEW t \in Clients, Send(t)
    PROVE  Carried'
<1>0. sock \in [Pids -> Socket] /\ worker \in Handle /\ req \in [Clients -> Request]
  BY DEF IInv, StateOK
<1>1. /\ pc[t] = "send" /\ proc' = proc
      /\ sock' = [sock EXCEPT ![worker.fd].to = Append(@, RequestFrame(t))]
  BY DEF Send
<1>2. Alive /\ req[t].family # "load" /\ worker.fd = worker.pid
  BY <1>1 DEF IInv, HandleOK, RequestsOK, NothingLeaks
<1>3. PICK f \in Frame : f = RequestFrame(t)
  BY <1>0, <1>2, RequestFrameType
<1>4. f.type \in Offered
  BY <1>1, <1>2, <1>3 DEF RequestFrame, Asked
<1>5. \A u \in Clients : pc[u] # "recv"
  BY <1>1, OwnerAlone DEF Locked
<1>6. PICK p : p = worker.fd
  OBVIOUS
<1>7. p \in Pids /\ sock[p].to = <<>>
  BY <1>0, <1>2, <1>5, <1>6 DEF Handle, Alive, FramesOK, WorkerFrames, Quiet
<1>8. sock'[p].to = <<f>> /\ \A q \in Pids \ {p} : sock'[q] = sock[q]
  BY <1>0, <1>1, <1>3, <1>6, <1>7, OneFrame DEF Socket
<1>9. ASSUME NEW q \in Pids
      PROVE  sock'[q].to = <<>> \/ \E g \in Frame : sock'[q].to = <<g>> /\ g.type \in Offered
  <2>1. CASE q = p
    BY <1>4, <1>8, <2>1, Zenon
  <2>2. CASE q # p
    BY <1>8, <2>2 DEF Carried
  <2> QED BY <2>1, <2>2
<1>10. \A q \in Pids : proc'[q].state = "busy" => proc'[q].cur.type \in Offered
  BY <1>1 DEF Carried
<1> QED BY <1>9, <1>10 DEF Carried

\* Every step keeps both.
LEMMA CarriedStep ==
    ASSUME IInv, FramesOK, Asked, Carried, [Next]_vars
    PROVE  Asked' /\ Carried'
<1>0. /\ proc \in [Pids -> Process] /\ sock \in [Pids -> Socket] /\ pc \in [Clients -> PCs]
  BY DEF IInv, StateOK
<1>1. ASSUME NEW p PROVE \A q \in Pids : /\ Reap(proc, p)[q] = proc[q] \/ Reap(proc, p)[q].state # "busy"
                                         /\ Close(sock, p)[q].to = sock[q].to \/ Close(sock, p)[q].to = <<>>
  BY DEF Reap, Close, Unborn, Closed
<1>2. KillWorker => Carried'
  BY <1>1, CarriesOn DEF KillWorker
<1>3. ASSUME NEW t \in Clients, ClientStep(t) PROVE Asked' /\ Carried'
  <2>1. CASE EnsureSpawn(t)
    <3>1. PICK p \in Pids :
            /\ proc' = [BeforeFork EXCEPT ![p] = [state |-> "loading", backend |-> req[t].backend,
                                                  gpu |-> WantGpu, cur |-> NoFrame]]
            /\ sock' = [Close(sock, worker.fd) EXCEPT ![p] =
                             [open |-> TRUE, to |-> <<>>, from |-> <<>>]]
      BY <2>1 DEF EnsureSpawn
    <3>2. proc'[p].state = "loading" /\ sock'[p].to = <<>>
      BY <3>1 DEF BeforeFork, Reap, Close
    <3>3. \A q \in Pids \ {p} : /\ proc'[q] = Reap(proc, worker.pid)[q]
                                /\ sock'[q] = Close(sock, worker.fd)[q]
      BY <3>1 DEF BeforeFork, Reap, Close
    <3> QED BY <1>1, <3>2, <3>3, CarriesOn, AskedStep, <1>3
  <2>2. CASE Send(t)
    BY <1>3, <2>2, SendCarries, AskedStep
  <2>3. CASE EnsureForkFails(t) \/ HelloFails(t) \/ SendFails(t) \/ RecvFails(t)
    BY <1>1, <1>2, <1>3, <2>3, CarriesOn, AskedStep
    DEF EnsureForkFails, HelloFails, SendFails, RecvFails, BeforeFork
  <2>4. CASE HelloArrives(t) \/ Recv(t) \/ RecvError(t)
    <3>1. PICK p : UNCHANGED proc /\ sock' = [sock EXCEPT ![p].from = Tail(@)]
      BY <2>4 DEF HelloArrives, Recv, RecvError
    <3>2. \A q \in Pids : sock'[q].to = sock[q].to
      BY <1>0, <3>1 DEF Socket
    <3> QED BY <1>3, <3>1, <3>2, CarriesOn, AskedStep
  <2>5. CASE EnsureWarm(t) \/ Unlock(t) \/ Fail(t)
    BY <1>3, <2>5, CarriesOn, AskedStep DEF EnsureWarm, Unlock, Fail, server
  <2>6. CASE ~LockedStep(t)
    <3>1. UNCHANGED <<proc, sock>>
      BY <1>3, <2>6 DEF ClientStep, Remove, Depth, Siglip, Parts, Arrive, AdminLoad,
         Acquire, Respond, Leave
    <3> QED BY <1>3, <3>1, CarriesOn, AskedStep
  <2> QED BY <2>1, <2>2, <2>3, <2>4, <2>5, <2>6 DEF LockedStep
<1>4. CASE UNCHANGED <<pc, req, proc, sock>>
  BY <1>4 DEF Asked, Carried
<1>5. CASE Unload \/ WatchdogKills
  BY <1>2, <1>5 DEF Unload, WatchdogKills, Asked
<1>6. CASE WatchdogStep /\ ~WatchdogKills
  BY <1>4, <1>6 DEF WatchdogStep, WatchdogWakes, WatchdogLocks, WatchdogMissesLock,
     WatchdogDecides, WatchdogGivesUp, server
<1>7. CASE Tick \/ UNCHANGED vars
  BY <1>4, <1>7 DEF Tick, vars
<1>8. ASSUME NEW p \in Pids, WorkerServes(p) \/ WorkerDies(p) PROVE Asked' /\ Carried'
  <2>1. Asked'
    BY <1>8, ProcessKeeps DEF parent, Asked
  <2>2. CASE WorkerTakes(p)
    <3>1. /\ proc' = [proc EXCEPT ![p].state = "busy", ![p].cur = Head(sock[p].to)]
          /\ sock' = [sock EXCEPT ![p].to = Tail(@)] /\ sock[p].to # <<>>
      BY <2>2 DEF WorkerTakes
    <3>2. PICK f \in Frame : sock[p].to = <<f>> /\ f.type \in Offered
      BY <3>1 DEF Carried
    <3>3. proc'[p].cur = f /\ sock'[p].to = <<>>
      BY <1>0, <3>1, <3>2, OneFrame DEF Process, Socket
    <3>4. \A q \in Pids \ {p} : proc'[q] = proc[q] /\ sock'[q] = sock[q]
      BY <1>0, <3>1
    <3> QED BY <2>1, <3>2, <3>3, <3>4 DEF Carried
  <2>3. CASE ~WorkerTakes(p)
    <3>1. proc'[p].state # "busy" /\ \A q \in Pids \ {p} : proc'[q] = proc[q]
      BY <1>0, <1>8, <2>3 DEF WorkerServes, WorkerHello, WorkerLoadFails, WorkerReplies,
         WorkerDies, Process
    <3>2. \E s : \/ sock' = sock \/ sock' = [sock EXCEPT ![p].from = s]
                 \/ sock' = [sock EXCEPT ![p].to = <<>>]
      BY <1>8, <2>3, Zenon DEF WorkerServes, WorkerHello, WorkerLoadFails, WorkerReplies, WorkerDies
    <3>3. \A q \in Pids : sock'[q].to = sock[q].to \/ sock'[q].to = <<>>
      BY <1>0, <3>2 DEF Socket
    <3> QED BY <2>1, <3>1, <3>3, CarriesOn
  <2> QED BY <2>2, <2>3
<1> QED BY <1>3, <1>5, <1>6, <1>7, <1>8 DEF Next

\* Both hold in every reachable state.
LEMMA Reaching == Spec => [](Asked /\ Carried)
<1>1. Init => Asked /\ Carried
  <2> SUFFICES ASSUME Init PROVE Asked /\ Carried
    OBVIOUS
  <2>1. /\ \A t \in Clients : pc[t] = "idle"
        /\ \A p \in Pids : proc[p].state = "none" /\ sock[p].to = <<>>
    BY DEF Init, Unborn, Closed
  <2> QED BY <2>1 DEF Asked, Carried
<1>2. IInv /\ FramesOK /\ Asked /\ Carried /\ [Next]_vars => Asked' /\ Carried'
  BY CarriedStep
<1> QED BY <1>1, <1>2, Invariant, Frames, PTL DEF Spec

\* Where SAM 3 is not configured by flag alone, the worker has a path for each
\* family the parent has one for; and what it is asked for is one of those, or a
\* matte, which /remove sends whether there is a model for it or not.
THEOREM AcceptedReaches ==
    ASSUME "parts" \in CliModels => "parts" \in EnvModels
    PROVE  Spec => []AcceptedIsConfigured
<1>1. ParentConfig \subseteq WorkerConfig
  BY DEF ParentConfig, WorkerConfig, WorkerArgs
<1>2. Carried => AcceptedIsConfigured
  BY <1>1 DEF Carried, AcceptedIsConfigured, Offered
<1> QED BY <1>2, Reaching, PTL

-----------------------------------------------------------------------------
(***************************************************************************)
(* The worker with its models.                                             *)
(***************************************************************************)

Slots == {SlotOf(f) : f \in WorkerConfig}

\* What is loaded, and what is worked on past loading, is configured.
Given ==
    /\ model = [m \in Inside!GraphModels |-> model[m]]
    /\ \A m \in Inside!GraphModels : model[m].loaded => m \in Slots
    /\ sam3 # "absent" => "sam3" \in Slots
    /\ siglip.model = "loaded" => "siglip" \in Slots
    /\ at \in {"load", "state", "infer"} => job.family \in Slots
    /\ at = "state" => sam3 = "model" /\ job.family = "sam3"

Handling ==
    \A p \in Pids : Busy(p) =>
        /\ at \in {"evict", "load", "state", "infer"}
        /\ job.family = SlotOf(proc[p].cur.type)
        /\ job.family \in Inside!Families

\* A process that is gone has left nothing to be read.
Ended == \A p \in Pids : proc[p].state = "none" => sock[p].from = <<>>

SysInv == IInv /\ Given /\ Handling /\ Ended

-----------------------------------------------------------------------------
(***************************************************************************)
(* Every step is one that VisionServer allows.                             *)
(***************************************************************************)

\* A slot comes from one family.
LEMMA OneFamily ==
    /\ \A f \in Families, g \in Families \cup {"HELLO", "ERR"} : SlotOf(f) = SlotOf(g) => f = g
    /\ \A f \in Families \cup {"HELLO", "ERR"} : SlotOf(f) \in Inside!Families => f \in Families
BY DEF SlotOf, Families, Inside!Families, Inside!GraphModels

LEMMA ConfigIsFamilies == WorkerConfig \subseteq Families
BY ConstantsAssumption DEF ConstantsAssumption, WorkerConfig, WorkerArgs, ParentConfig

\* An answer is one of those VisionServer expects.
LEMMA AnswerAllowed ==
    ASSUME IInv, Handling, NEW p \in Pids, Busy(p), NEW type,
           type = "ERR" \/ (type = proc[p].cur.type /\ job.family \in Slots),
           Answer(p, type)
    PROVE  WorkerReplies(p)
<1>1. proc[p].cur.type \in Families \cup {"HELLO", "ERR"}
  BY DEF IInv, StateOK, Process, Frame
<1>2. job.family = SlotOf(proc[p].cur.type) /\ job.family \in Inside!Families
  BY DEF Handling
<1>3. proc[p].cur.type \in Families
  BY <1>1, <1>2, OneFamily
<1>4. proc[p].cur.type # "ERR"
  BY <1>3 DEF Families
<1>5. type \in Answers(proc[p].cur)
  <2>1. CASE type = "ERR"
    BY <2>1 DEF Answers
  <2>2. CASE type = proc[p].cur.type /\ job.family \in Slots
    <3>1. PICK f \in WorkerConfig : SlotOf(f) = SlotOf(proc[p].cur.type)
      BY <1>2, <2>2 DEF Slots
    <3>2. f = proc[p].cur.type
      BY <1>1, <3>1, OneFamily, ConfigIsFamilies
    <3> QED BY <2>2, <3>1, <3>2 DEF Answers
  <2> QED BY <2>1, <2>2
<1>6. IF type = proc[p].cur.type /\ proc[p].cur.size = "big_reply"
      THEN UNCHANGED sock
      ELSE sock' = [sock EXCEPT ![p].from = Append(@, [proc[p].cur EXCEPT !.type = type])]
  BY <1>4, <1>5 DEF Answer, Answers
<1> QED BY <1>5, <1>6 DEF Answer, WorkerReplies, Busy

LEMMA StepAllowed ==
    ASSUME SysInv, [SystemNext]_systemVars
    PROVE  [Next]_vars
<1>1. ASSUME NEW p \in Pids, WorkerRuns(p) PROVE [Next]_vars
  <2>1. CASE Boot(p) \/ BootFails(p) \/ Take(p) \/ Crash(p)
    BY <2>1 DEF Boot, BootFails, Take, Crash, Next, WorkerServes
  <2>2. CASE Prepare(p)
    BY <2>2 DEF Prepare
  <2>3. CASE Refuse(p) \/ FailsInside(p)
    <3>1. Busy(p) /\ Answer(p, "ERR")
      BY <2>3 DEF Refuse, FailsInside
    <3> QED BY <3>1, AnswerAllowed DEF SysInv, Next, WorkerServes
  <2>4. CASE Serve(p)
    <3>1. Busy(p) /\ Answer(p, proc[p].cur.type) /\ at = "infer"
      BY <2>4 DEF Serve, Inside!Compute, Inside!Segment, Inside!Embed
    <3>2. job.family \in Slots
      BY <3>1 DEF SysInv, Given
    <3> QED BY <3>1, <3>2, AnswerAllowed DEF SysInv, Next, WorkerServes
  <2> QED BY <1>1, <2>1, <2>2, <2>3, <2>4 DEF WorkerRuns
<1>2. ASSUME NEW p \in Pids, Dies(p) PROVE [Next]_vars
  BY <1>2 DEF Dies, Next
<1>3. CASE Parent(\E t \in Clients : ClientStep(t)) \/ Parent(Unload \/ WatchdogStep \/ Tick)
  BY <1>3 DEF Parent, Next
<1>4. CASE UNCHANGED systemVars
  BY <1>4 DEF systemVars
<1> QED BY <1>1, <1>2, <1>3, <1>4 DEF SystemNext
-----------------------------------------------------------------------------
(***************************************************************************)
(* What the parent's steps do to processes and sockets.                    *)
(***************************************************************************)

\* Killing the worker in place empties the process table.
LEMMA KillEnds ==
    ASSUME IInv, IInv', Ended, KillWorker, spawning' = spawning
    PROVE  /\ \A q \in Pids : sock'[q].from = sock[q].from \/ sock'[q].from = <<>>
           /\ Ended'
           /\ proc' # proc => \A q \in Pids : proc'[q].state = "none"
<1>1. /\ proc \in [Pids -> Process] /\ sock \in [Pids -> Socket] /\ NoPid \notin Pids
      /\ worker \in Handle /\ worker.fd = worker.pid
  BY ConstantsAssumption DEF ConstantsAssumption, IInv, StateOK, NothingLeaks
<1>2. \A q \in Pids : /\ q = worker.pid => proc'[q].state = "none" /\ sock'[q].from = <<>>
                      /\ q # worker.pid => proc'[q] = proc[q] /\ sock'[q] = sock[q]
  BY <1>1 DEF KillWorker, Reap, Close, Unborn, Closed
<1>3. ASSUME proc' # proc, NEW q \in Pids PROVE proc'[q].state = "none"
  <2>1. worker.pid # NoPid
    <3>1. proc' = [x \in Pids |-> IF x = worker.pid THEN Unborn ELSE proc[x]]
      BY DEF KillWorker, Reap
    <3> QED BY <1>1, <1>3, <3>1
  <2>2. spawning = NoPid
    BY <2>1 DEF IInv, HandleOK, Alive
  <2>3. worker'.pid = NoPid
    BY <1>1 DEF KillWorker, Forget, Handle
  <2>4. Unreaped' = {}
    BY <2>2, <2>3 DEF IInv, NothingLeaks
  <2> QED BY <1>3, <2>4 DEF Unreaped
<1> QED BY <1>2, <1>3 DEF Ended

\* The parent reads what was sent, and reaps or starts no process beside another.
LEMMA ParentTouches ==
    ASSUME IInv, IInv', Ended,
           (\E t \in Clients : ClientStep(t)) \/ Unload \/ WatchdogStep \/ Tick
    PROVE  /\ \A q \in Pids : \/ sock'[q].from = sock[q].from
                              \/ sock'[q].from = <<>>
                              \/ sock[q].from # <<>> /\ sock'[q].from = Tail(sock[q].from)
           /\ Ended'
           /\ proc' # proc => \A q \in Pids : proc'[q].state \in {"none", "loading"}
                                             /\ sock'[q].from = <<>>
<1>0. /\ proc \in [Pids -> Process] /\ sock \in [Pids -> Socket] /\ NoPid \notin Pids
      /\ worker \in Handle /\ worker.fd = worker.pid /\ spawning \in Pids \cup {NoPid}
      /\ pc \in [Clients -> PCs]
  BY ConstantsAssumption DEF ConstantsAssumption, IInv, StateOK, NothingLeaks
<1>1. ASSUME proc' = proc, \A q \in Pids : sock'[q].from = sock[q].from
      PROVE  Ended'
  BY <1>1 DEF Ended
<1>2. ASSUME KillWorker, spawning' = spawning
      PROVE  /\ \A q \in Pids : sock'[q].from = sock[q].from \/ sock'[q].from = <<>>
             /\ Ended'
             /\ proc' # proc => \A q \in Pids : proc'[q].state = "none" /\ sock'[q].from = <<>>
  BY <1>2, KillEnds DEF Ended
<1>3. CASE Unload \/ WatchdogKills
  BY <1>2, <1>3 DEF Unload, WatchdogKills
<1>4. CASE Tick \/ (WatchdogStep /\ ~WatchdogKills)
  <2>1. proc' = proc /\ sock' = sock
    BY <1>4 DEF Tick, WatchdogStep, WatchdogWakes, WatchdogLocks, WatchdogMissesLock,
       WatchdogDecides, WatchdogGivesUp, server
  <2> QED BY <1>1, <2>1
<1>5. ASSUME NEW t \in Clients, SendFails(t) \/ RecvFails(t)
      PROVE  KillWorker /\ spawning' = spawning
  BY <1>5 DEF SendFails, RecvFails
<1>6. ASSUME NEW t \in Clients, Recv(t) \/ RecvError(t) \/ HelloArrives(t)
      PROVE  /\ proc' = proc
             /\ \A q \in Pids : \/ sock'[q] = sock[q]
                                \/ sock[q].from # <<>> /\ sock'[q].from = Tail(sock[q].from)
  <2>1. PICK p : /\ proc' = proc /\ sock[p].from # <<>>
                 /\ sock' = [sock EXCEPT ![p].from = Tail(@)]
    BY <1>6 DEF Recv, RecvError, HelloArrives
  <2>2. \A q \in Pids : sock'[q] = IF q = p THEN [sock[p] EXCEPT !.from = Tail(@)] ELSE sock[q]
    BY <1>0, <2>1
  <2>3. \A q \in Pids : sock[q] \in Socket
    BY <1>0
  <2>4. ASSUME NEW q \in Pids, q = p PROVE sock'[q].from = Tail(sock[q].from)
    BY <2>2, <2>3, <2>4 DEF Socket
  <2> QED BY <2>1, <2>2, <2>4
<1>7. ASSUME NEW t \in Clients, Send(t)
      PROVE  proc' = proc /\ \A q \in Pids : sock'[q].from = sock[q].from
  BY <1>0, <1>7 DEF Send, Socket
<1>8. ASSUME NEW t \in Clients, HelloFails(t)
      PROVE  \A q \in Pids : proc'[q].state = "none" /\ sock'[q].from = <<>>
  <2>1. ~Alive /\ spawning' = NoPid /\ worker' = worker
    BY <1>0, <1>8 DEF HelloFails, IInv, HandleOK
  <2>2. Unreaped' = {}
    BY <2>1 DEF IInv, NothingLeaks, Alive
  <2>3. \A q \in Pids : sock'[q] = IF q = spawning THEN Closed ELSE sock[q]
    BY <1>8 DEF HelloFails, Close
  <2>4. \A q \in Pids \ {spawning} : proc[q].state = "none"
    BY <2>1 DEF IInv, NothingLeaks, Alive, Unreaped
  <2> QED BY <2>2, <2>3, <2>4 DEF Unreaped, Ended, Closed
<1>9. ASSUME NEW t \in Clients, EnsureForkFails(t)
      PROVE  \A q \in Pids : proc'[q].state = "none" /\ sock'[q].from = <<>>
  <2>1. spawning = NoPid /\ spawning' = NoPid /\ worker'.pid = NoPid
    <3>1. pc[t] = "ensure" /\ spawning' = spawning /\ worker'.pid = NoPid
      BY <1>0, <1>9 DEF EnsureForkFails, Forget, Handle
    <3>2. \A u \in Clients : pc[u] # "hello"
      BY <3>1, OwnerAlone DEF IInv, Locked
    <3> QED BY <3>1, <3>2 DEF IInv, HandleOK
  <2>2. Unreaped' = {}
    BY <2>1 DEF IInv, NothingLeaks
  <2>3. \A q \in Pids : sock'[q] = IF q = worker.fd THEN Closed ELSE sock[q]
    BY <1>9 DEF EnsureForkFails, Close
  <2>4. \A q \in Pids \ {worker.fd} : proc[q].state = "none"
    BY <1>0, <2>1 DEF IInv, NothingLeaks, Unreaped
  <2> QED BY <2>2, <2>3, <2>4 DEF Unreaped, Ended, Closed
<1>10. ASSUME NEW t \in Clients, EnsureSpawn(t)
       PROVE  \A q \in Pids : proc'[q].state \in {"none", "loading"} /\ sock'[q].from = <<>>
  <2>1. PICK p \in Pids : /\ proc' = [Reap(proc, worker.pid) EXCEPT ![p] =
                                 [state |-> "loading", backend |-> req[t].backend,
                                  gpu |-> WantGpu, cur |-> NoFrame]]
                         /\ sock' = [Close(sock, worker.fd) EXCEPT ![p] =
                                 [open |-> TRUE, to |-> <<>>, from |-> <<>>]]
                         /\ spawning' = p
    BY <1>10 DEF EnsureSpawn, BeforeFork
  <2>2. spawning = NoPid
    <3>1. pc[t] = "ensure"
      BY <1>10 DEF EnsureSpawn
    <3>2. \A u \in Clients : pc[u] # "hello"
      BY <3>1, OwnerAlone DEF IInv, Locked
    <3> QED BY <3>2 DEF IInv, HandleOK
  <2>3. \A q \in Pids \ {worker.fd} : proc[q].state = "none"
    BY <1>0, <2>2 DEF IInv, NothingLeaks, Unreaped
  <2>4. /\ proc'[p].state = "loading" /\ sock'[p].from = <<>>
        /\ \A q \in Pids \ {p} : /\ q = worker.fd => proc'[q] = Unborn /\ sock'[q] = Closed
                                 /\ q # worker.fd => proc'[q] = proc[q] /\ sock'[q] = sock[q]
    BY <1>0, <2>1 DEF Reap, Close
  <2>5. \A q \in Pids \ {worker.fd} : sock[q].from = <<>>
    BY <2>3 DEF Ended
  <2>6. Unborn.state = "none" /\ Closed.from = <<>>
    BY DEF Unborn, Closed
  <2> SUFFICES ASSUME NEW q \in Pids
               PROVE  proc'[q].state \in {"none", "loading"} /\ sock'[q].from = <<>>
    OBVIOUS
  <2> QED BY <2>3, <2>4, <2>5, <2>6
<1>11. ASSUME NEW t \in Clients, ClientStep(t), ~LockedStep(t)
       PROVE  proc' = proc /\ sock' = sock
  BY <1>11 DEF ClientStep, Remove, Depth, Siglip, Parts, AdminLoad, Acquire, Respond, Leave, Arrive
<1>12. ASSUME NEW t \in Clients, EnsureWarm(t) \/ Unlock(t) \/ Fail(t)
       PROVE  proc' = proc /\ sock' = sock
  BY <1>12 DEF EnsureWarm, Unlock, Fail
<1>13. ASSUME NEW t \in Clients, LockedStep(t)
       PROVE  \/ EnsureWarm(t) \/ Unlock(t) \/ Fail(t)
              \/ SendFails(t) \/ RecvFails(t)
              \/ Recv(t) \/ RecvError(t) \/ HelloArrives(t)
              \/ Send(t) \/ HelloFails(t) \/ EnsureForkFails(t) \/ EnsureSpawn(t)
  BY <1>13 DEF LockedStep
<1>14. CASE \E t \in Clients : ClientStep(t)
  <2> PICK t \in Clients : ClientStep(t)
    BY <1>14
  <2>1. CASE ~LockedStep(t) \/ EnsureWarm(t) \/ Unlock(t) \/ Fail(t) \/ Send(t)
    <3>1. proc' = proc /\ \A q \in Pids : sock'[q].from = sock[q].from
      BY <2>1, <1>7, <1>11, <1>12
    <3> QED BY <1>1, <3>1
  <2>2. CASE SendFails(t) \/ RecvFails(t)
    BY <1>2, <1>5, <2>2
  <2>3. CASE Recv(t) \/ RecvError(t) \/ HelloArrives(t)
    BY <1>6, <2>3 DEF Ended
  <2>4. CASE HelloFails(t) \/ EnsureForkFails(t) \/ EnsureSpawn(t)
    BY <1>8, <1>9, <1>10, <2>4 DEF Ended
  <2> QED BY <1>13, <2>1, <2>2, <2>3, <2>4
<1> QED BY <1>3, <1>4, <1>14 DEF WatchdogStep
-----------------------------------------------------------------------------
(***************************************************************************)
(* What is in the worker's memory.                                         *)
(***************************************************************************)

\* The worker that runs is the only process there is.
LEMMA WorkerAlone ==
    ASSUME IInv, NEW p \in Pids, WorkerServes(p) \/ WorkerDies(p)
    PROVE  /\ proc[p].state # "none" /\ proc'[p].state # "none"
           /\ \A q \in Pids \ {p} : /\ proc[q].state = "none"
                                   /\ proc'[q] = proc[q] /\ sock'[q] = sock[q]
<1>1. proc \in [Pids -> Process] /\ sock \in [Pids -> Socket]
  BY DEF IInv, StateOK
<1>2. /\ proc[p].state # "none" /\ proc'[p].state # "none"
      /\ \A q \in Pids \ {p} : proc'[q] = proc[q] /\ sock'[q] = sock[q]
  <2>1. /\ proc[p].state # "none"
        /\ \E s \in {"ready", "busy", "dead"} : \E f :
              \/ proc' = [proc EXCEPT ![p].state = s]
              \/ proc' = [proc EXCEPT ![p].state = s, ![p].cur = f]
    BY DEF WorkerServes, WorkerHello, WorkerLoadFails, WorkerTakes, WorkerReplies, WorkerDies
  <2>2. \E s : \/ UNCHANGED sock
              \/ sock' = [sock EXCEPT ![p].from = s]
              \/ sock' = [sock EXCEPT ![p].to = s]
    BY DEF WorkerServes, WorkerHello, WorkerLoadFails, WorkerTakes, WorkerReplies, WorkerDies
  <2>3. \A q \in Pids \ {p} : sock'[q] = sock[q]
    BY <1>1, <2>2
  <2> QED BY <1>1, <2>1, <2>3 DEF Process
<1>3. \A q \in Unreaped : q = p
  BY <1>2 DEF IInv, NothingLeaks, HandleOK, Alive, Unreaped
<1> QED BY <1>2, <1>3 DEF Unreaped

\* Loading leaves nothing in memory that was not configured.
LEMMA InsideGiven ==
    ASSUME Given, at = "evict" => job.family \in Inside!Families,
           \/ Inside!Boot \/ Inside!BootFails \/ Inside!Receive
           \/ Inside!AlreadyLoaded \/ Inside!Evict \/ Inside!LoadGraph
           \/ Inside!LoadSam3Model \/ Inside!LoadSam3State \/ Inside!LoadSiglip
           \/ Inside!NotConfigured \/ Inside!LoadFails \/ Inside!LoadSam3StateFails
           \/ Inside!Segment \/ Inside!Embed \/ Inside!EmbedCrashes
           \/ \E m \in Inside!GraphModels :
                 Inside!Compute(m) \/ Inside!AllocateFails(m) \/ Inside!ComputeUnallocated(m)
    PROVE  Given'
<1>1. ASSUME NEW m \in Inside!GraphModels, NEW e, model' = [model EXCEPT ![m] = e],
             e.loaded => m \in Slots
      PROVE  /\ model' = [x \in Inside!GraphModels |-> model'[x]]
             /\ \A x \in Inside!GraphModels : model'[x].loaded => x \in Slots
  BY <1>1 DEF Given
<1>2. ASSUME NEW m \in Inside!GraphModels, m \in Slots, Inside!LoadGraphModel(m)
      PROVE  /\ model' = [x \in Inside!GraphModels |-> model'[x]]
             /\ \A x \in Inside!GraphModels : model'[x].loaded => x \in Slots
  BY <1>1, <1>2 DEF Inside!LoadGraphModel
<1>3. CASE Inside!Boot
  <2>1. "matting" \in Inside!GraphModels
    BY DEF Inside!GraphModels
  <2>2. CASE "matting" \in Slots
    BY <1>2, <1>3, <2>1, <2>2 DEF Inside!Boot, Given, Slots
  <2>3. CASE "matting" \notin Slots
    BY <1>3, <2>3 DEF Inside!Boot, Given, Slots
  <2> QED BY <2>2, <2>3
<1>4. CASE Inside!BootFails \/ Inside!Receive \/ Inside!NotConfigured \/ Inside!Segment
           \/ Inside!Embed \/ Inside!EmbedCrashes
           \/ \E m \in Inside!GraphModels : Inside!ComputeUnallocated(m)
  BY <1>4 DEF Given, Inside!BootFails, Inside!Receive, Inside!NotConfigured, Inside!Segment,
     Inside!Embed, Inside!EmbedCrashes, Inside!ComputeUnallocated, Inside!Reply
<1>5. CASE Inside!AlreadyLoaded
  <2>1. job.family \in Slots
    BY <1>5 DEF Given, Inside!AlreadyLoaded, Inside!Resident, Inside!Families
  <2> QED BY <1>5, <2>1 DEF Given, Inside!AlreadyLoaded
<1>6. CASE Inside!Evict
  <2>1. job.family \in Slots /\ "matting" \in Inside!GraphModels
    BY <1>6 DEF Inside!Evict, Slots, Inside!GraphModels
  <2>2. /\ model' = [x \in Inside!GraphModels |-> model'[x]]
        /\ \A x \in Inside!GraphModels : model'[x].loaded => x \in Slots
    <3>1. CASE job.family = "sam3"
      BY <1>1, <1>6, <2>1, <3>1 DEF Inside!Evict, Inside!EvictPeer, Inside!Empty
    <3>2. CASE job.family # "sam3"
      BY <1>6, <3>2 DEF Inside!Evict, Inside!EvictPeer, Given
    <3> QED BY <3>1, <3>2
  <2> QED BY <1>6, <2>1, <2>2 DEF Given, Inside!Evict, Inside!EvictPeer
<1>7. CASE Inside!LoadGraph
  <2>1. job.family \in Slots /\ job.family \in Inside!GraphModels
    BY <1>7 DEF Given, Inside!LoadGraph
  <2> QED BY <1>2, <1>7, <2>1 DEF Given, Inside!LoadGraph
<1>8. CASE Inside!LoadSam3Model \/ Inside!LoadSam3State \/ Inside!LoadSam3StateFails
  BY <1>8 DEF Given, Inside!LoadSam3Model, Inside!LoadSam3State, Inside!LoadSam3StateFails,
     Inside!Reply, Inside!DropSam3
<1>9. CASE Inside!LoadSiglip \/ Inside!LoadFails
  BY <1>9 DEF Given, Inside!LoadSiglip, Inside!LoadFails, Inside!Reply
<1>10. ASSUME NEW m \in Inside!GraphModels, Inside!Compute(m) \/ Inside!AllocateFails(m)
       PROVE  Given'
  <2>1. m \in Slots /\ \E g : Inside!SetModel(m, g)
    BY <1>10 DEF Given, Inside!Compute, Inside!AllocateFails
  <2>2. /\ model' = [x \in Inside!GraphModels |-> model'[x]]
        /\ \A x \in Inside!GraphModels : model'[x].loaded => x \in Slots
    BY <1>1, <2>1 DEF Inside!SetModel
  <2> QED BY <1>10, <2>2 DEF Given, Inside!Compute, Inside!AllocateFails, Inside!Reply
<1> QED BY <1>3, <1>4, <1>5, <1>6, <1>7, <1>8, <1>9, <1>10

LEMMA GivenStep ==
    ASSUME SysInv, [SystemNext]_systemVars
    PROVE  Given'
<1>1. NewMemory => Given'
  BY DEF NewMemory, Given, Inside!Empty, Inside!NoSiglip
<1>2. UNCHANGED memory => Given'
  <2>1. UNCHANGED memory => UNCHANGED <<at, job.family, model, sam3, siglip>>
    BY DEF memory
  <2> QED BY <2>1 DEF SysInv, Given, Slots
<1>3. ASSUME NEW p \in Pids, WorkerRuns(p) PROVE Given'
  <2>1. at = "evict" /\ Busy(p) => job.family \in Inside!Families
    BY DEF SysInv, Handling
  <2>2. Boot(p) \/ BootFails(p) \/ Take(p) => at # "evict"
    BY DEF Boot, BootFails, Take, Inside!Boot, Inside!BootFails, Inside!Receive
  <2> QED
    BY <1>3, <2>1, <2>2, InsideGiven DEF WorkerRuns, Boot, BootFails, Take, Prepare, Refuse,
       FailsInside, Serve, Crash, SysInv
<1> QED BY <1>1, <1>2, <1>3 DEF SystemNext, Dies, Parent, systemVars, memory

\* A worker works on the frame it took, and is done with it when it answers.
LEMMA HandlingStep ==
    ASSUME SysInv, IInv', [SystemNext]_systemVars
    PROVE  Handling'
<1>0. proc \in [Pids -> Process]
  BY DEF SysInv, IInv, StateOK
<1>1. ASSUME \A q \in Pids : proc'[q].state # "busy" PROVE Handling'
  BY <1>1 DEF Handling, Busy
<1>2. ASSUME UNCHANGED <<proc, memory>> PROVE Handling'
  BY <1>2 DEF SysInv, Handling, Busy, memory
<1>3. ASSUME (\E t \in Clients : ClientStep(t)) \/ Unload \/ WatchdogStep \/ Tick,
             proc' = proc => UNCHANGED memory
      PROVE  Handling'
  <2>1. proc' # proc => \A q \in Pids : proc'[q].state # "busy"
    BY <1>3, ParentTouches DEF SysInv
  <2> QED BY <1>1, <1>2, <1>3, <2>1
<1>4. ASSUME NEW p \in Pids, WorkerServes(p) \/ WorkerDies(p), proc'[p].state # "busy"
      PROVE  Handling'
  <2>1. \A q \in Pids \ {p} : proc'[q].state # "busy"
    BY <1>4, WorkerAlone DEF SysInv
  <2> QED BY <1>1, <1>4, <2>1
<1>5. ASSUME NEW p \in Pids, WorkerRuns(p) PROVE Handling'
  <2>1. CASE Boot(p) \/ BootFails(p) \/ Crash(p)
    <3>1. WorkerServes(p) \/ WorkerDies(p)
      BY <2>1 DEF Boot, BootFails, Crash, WorkerServes
    <3>2. proc'[p].state # "busy"
      BY <1>0, <2>1 DEF Boot, BootFails, Crash, WorkerHello, WorkerLoadFails, WorkerDies, Process
    <3> QED BY <1>4, <3>1, <3>2
  <2>2. CASE Refuse(p) \/ FailsInside(p) \/ Serve(p)
    <3>1. \E type : Answer(p, type)
      BY <2>2 DEF Refuse, FailsInside, Serve
    <3>2. proc'[p].state # "busy"
      BY <1>0, <3>1 DEF Answer, Process
    <3>3. WorkerReplies(p)
      <4>1. CASE Serve(p)
        <5>1. Busy(p) /\ Answer(p, proc[p].cur.type) /\ at = "infer"
          BY <4>1 DEF Serve, Inside!Compute, Inside!Segment, Inside!Embed
        <5>2. job.family \in Slots
          BY <5>1 DEF SysInv, Given
        <5> QED BY <5>1, <5>2, AnswerAllowed DEF SysInv
      <4>2. CASE Refuse(p) \/ FailsInside(p)
        <5>1. Busy(p) /\ Answer(p, "ERR")
          BY <4>2 DEF Refuse, FailsInside
        <5> QED BY <5>1, AnswerAllowed DEF SysInv
      <4> QED BY <2>2, <4>1, <4>2
    <3> QED BY <1>4, <3>2, <3>3 DEF WorkerServes
  <2>3. CASE Take(p)
    <3>1. \A q \in Pids \ {p} : proc'[q].state # "busy"
      BY <2>3, WorkerAlone DEF SysInv, Take, WorkerServes
    <3>2. /\ at' = "evict" /\ job'.family = SlotOf(proc'[p].cur.type)
          /\ job'.family \in Inside!Families
      BY <2>3 DEF Take, Inside!Receive
    <3> QED BY <3>1, <3>2 DEF Handling, Busy
  <2>4. CASE Prepare(p)
    <3>1. /\ proc' = proc /\ job' = job
          /\ at' \in {"load", "state", "infer"}
      BY <2>4 DEF Prepare, vars, Inside!AlreadyLoaded, Inside!Evict, Inside!LoadGraph,
         Inside!LoadSam3Model, Inside!LoadSam3State, Inside!LoadSiglip
    <3> QED BY <3>1 DEF SysInv, Handling, Busy
  <2> QED BY <1>5, <2>1, <2>2, <2>3, <2>4 DEF WorkerRuns
<1>6. ASSUME NEW p \in Pids, Dies(p) PROVE Handling'
  <2>1. WorkerDies(p) /\ proc'[p].state # "busy"
    BY <1>0, <1>6 DEF Dies, WorkerDies, Process
  <2> QED BY <1>4, <2>1
<1>7. CASE Parent(\E t \in Clients : ClientStep(t)) \/ Parent(Unload \/ WatchdogStep \/ Tick)
  BY <1>3, <1>7 DEF Parent
<1>8. CASE UNCHANGED systemVars
  BY <1>2, <1>8 DEF systemVars, vars
<1> QED BY <1>5, <1>6, <1>7, <1>8 DEF SystemNext

LEMMA EndedStep ==
    ASSUME SysInv, IInv', [SystemNext]_systemVars
    PROVE  Ended'
<1>1. [Next]_vars
  BY StepAllowed
<1>2. ASSUME NEW p \in Pids, WorkerServes(p) \/ WorkerDies(p) PROVE Ended'
  BY <1>2, WorkerAlone DEF SysInv, Ended
<1>3. CASE UNCHANGED vars
  BY <1>3 DEF SysInv, Ended, vars
<1> QED BY <1>1, <1>2, <1>3, ParentTouches DEF SysInv, Next

LEMMA InitSysInv == SystemInit => SysInv
<1> SUFFICES ASSUME SystemInit PROVE SysInv
  OBVIOUS
<1>1. Given
  BY DEF SystemInit, Given, Inside!Init, Inside!Empty, Inside!NoSiglip
<1>2. \A p \in Pids : proc[p].state = "none" /\ sock[p].from = <<>>
  BY DEF SystemInit, Init, Unborn, Closed
<1> QED BY <1>1, <1>2, InitIInv DEF SysInv, Handling, Busy, Ended, SystemInit

-----------------------------------------------------------------------------
\* The inductive invariant holds in every reachable state of the whole server:
\* whatever was loaded, evicted or failed before, what a worker holds was given
\* to it and what it works on is the frame it took.
THEOREM SystemInvariant == SystemSpec => []SysInv
<1>1. SysInv /\ [SystemNext]_systemVars => SysInv'
  <2> SUFFICES ASSUME SysInv, [SystemNext]_systemVars PROVE SysInv'
    OBVIOUS
  <2>1. IInv'
    BY StepAllowed, StepIInv DEF SysInv
  <2> QED BY <2>1, GivenStep, HandlingStep, EndedStep DEF SysInv
<1> QED BY <1>1, InitSysInv, PTL DEF SystemSpec

\* The whole server is a VisionServer: whatever its worker has in memory, it
\* answers each frame once, gives a result only with a model for it, and says
\* nothing unasked.  (That it makes progress as FairSpec says is model-checked.)
THEOREM Assembled == SystemSpec => Spec
<1>1. SystemInit => Init
  BY DEF SystemInit
<1>2. SysInv /\ [SystemNext]_systemVars => [Next]_vars
  BY StepAllowed
<1> QED BY <1>1, <1>2, SystemInvariant, PTL DEF SystemSpec, Spec

\* So it serves its clients as DeviceService promises, every image of a batch
\* by one worker process, each reply to the request that waits for it.
THEOREM SystemServes ==
    SystemSpec => ServesTheDevice /\ BatchOnOneWorker /\ []RepliesMatch
BY Assembled, Implements, BatchStays, RepliesInOrder, PTL

-----------------------------------------------------------------------------
(***************************************************************************)
(* A worker in which nothing failed.                                       *)
(***************************************************************************)
NoErrors == \A p \in Pids : \A i \in DOMAIN sock[p].from : sock[p].from[i].type # "ERR"

\* Every graph it has is allocated, and its four siglip objects came together.
Intact ==
    ~harm => /\ at # "crashed"
             /\ \A m \in Inside!GraphModels : model[m].graph # "unallocated"
             /\ siglip \in {Inside!NoSiglip, Inside!SiglipComplete}
             /\ at = "infer" /\ job.family = "siglip" => siglip = Inside!SiglipComplete
             /\ NoErrors

\* A worker intact has nothing to refuse and nothing to crash on, when all that
\* the parent lets through was given to it.
LEMMA NothingToRefuse ==
    ASSUME "parts" \in CliModels => "parts" \in EnvModels, "matte" \in ParentConfig,
           SysInv, Carried, Intact, ~harm, NEW p \in Pids
    PROVE  ~Refuse(p) /\ ~Crash(p)
<1>1. ASSUME Busy(p) PROVE job.family \in Slots
  <2>1. Offered \subseteq WorkerConfig
    BY DEF Offered, ParentConfig, WorkerConfig, WorkerArgs
  <2>2. proc[p].cur.type \in Offered /\ job.family = SlotOf(proc[p].cur.type)
    BY <1>1 DEF Carried, SysInv, Handling, Busy
  <2> QED BY <2>1, <2>2 DEF Slots
<1>2. ~Busy(p) \/ ~Inside!NotConfigured
  BY <1>1 DEF Inside!NotConfigured, Slots
<1>3. Inside!Embed \/ Inside!EmbedCrashes => siglip = Inside!SiglipComplete
  BY DEF Intact, Inside!Embed, Inside!EmbedCrashes
<1>4. siglip = Inside!SiglipComplete => TowersLoaded /\ ~Inside!NullDeref
  BY DEF Inside!SiglipComplete, TowersLoaded, Inside!NullDeref
<1>5. ~Inside!EmbedCrashes
  BY <1>3, <1>4 DEF Inside!EmbedCrashes
<1>6. \A m \in Inside!GraphModels : ~Inside!ComputeUnallocated(m)
  BY DEF Intact, Inside!ComputeUnallocated
<1> QED BY <1>2, <1>3, <1>4, <1>5, <1>6 DEF Refuse, Crash

\* What a step that goes well does to memory keeps it intact.
LEMMA InsideIntact ==
    ASSUME Given, Intact, ~harm,
           \/ Inside!Boot \/ Inside!Receive
           \/ Inside!AlreadyLoaded \/ Inside!Evict \/ Inside!LoadGraph
           \/ Inside!LoadSam3Model \/ Inside!LoadSam3State \/ Inside!LoadSiglip
           \/ Inside!Segment \/ Inside!Embed
           \/ \E m \in Inside!GraphModels : Inside!Compute(m),
           NoErrors'
    PROVE  Intact'
<1>1. ASSUME NEW m \in Inside!GraphModels, NEW e, model' = [model EXCEPT ![m] = e],
             e.graph # "unallocated"
      PROVE  \A x \in Inside!GraphModels : model'[x].graph # "unallocated"
  BY <1>1 DEF Given, Intact
<1>2. ASSUME NEW m \in Inside!GraphModels, Inside!LoadGraphModel(m)
      PROVE  \A x \in Inside!GraphModels : model'[x].graph # "unallocated"
  <2>1. Inside!Loaded(m).graph # "unallocated"
    BY DEF Inside!Loaded
  <2>2. model' = [model EXCEPT ![m] = Inside!Loaded(m)]
    BY <1>2 DEF Inside!LoadGraphModel
  <2> QED BY <1>1, <2>1, <2>2
<1>3. CASE Inside!Boot
  <2>1. "matting" \in Inside!GraphModels
    BY DEF Inside!GraphModels
  <2>2. \A x \in Inside!GraphModels : model'[x].graph # "unallocated"
    BY <1>2, <1>3, <2>1 DEF Inside!Boot, Intact
  <2> QED BY <1>3, <2>2 DEF Intact, Inside!Boot
<1>4. CASE Inside!Receive \/ Inside!Segment \/ Inside!Embed
  BY <1>4 DEF Intact, Inside!Receive, Inside!Segment, Inside!Embed, Inside!Reply
<1>5. CASE Inside!AlreadyLoaded
  <2>1. job.family = "siglip" => siglip = Inside!SiglipComplete
    BY <1>5 DEF Intact, Inside!AlreadyLoaded, Inside!Resident, Inside!NoSiglip
  <2> QED BY <1>5, <2>1 DEF Intact, Inside!AlreadyLoaded
<1>6. CASE Inside!Evict
  <2>1. \A x \in Inside!GraphModels : model'[x].graph # "unallocated"
    <3>1. "matting" \in Inside!GraphModels /\ Inside!Empty.graph # "unallocated"
      BY DEF Inside!GraphModels, Inside!Empty
    <3>2. CASE job.family = "sam3"
      BY <1>1, <1>6, <3>1, <3>2 DEF Inside!Evict, Inside!EvictPeer
    <3>3. CASE job.family # "sam3"
      BY <1>6, <3>3 DEF Inside!Evict, Inside!EvictPeer, Intact
    <3> QED BY <3>2, <3>3
  <2> QED BY <1>6, <2>1 DEF Intact, Inside!Evict
<1>7. CASE Inside!LoadGraph
  <2>1. job.family # "siglip"
    BY <1>7 DEF Inside!LoadGraph, Inside!GraphModels
  <2>2. \A x \in Inside!GraphModels : model'[x].graph # "unallocated"
    BY <1>2, <1>7 DEF Inside!LoadGraph
  <2> QED BY <1>7, <2>1, <2>2 DEF Intact, Inside!LoadGraph
<1>8. CASE Inside!LoadSam3Model
  BY <1>8 DEF Intact, Inside!LoadSam3Model
<1>9. CASE Inside!LoadSam3State
  BY <1>9 DEF Given, Intact, Inside!LoadSam3State
<1>10. CASE Inside!LoadSiglip
  BY <1>10 DEF Intact, Inside!LoadSiglip
<1>11. ASSUME NEW m \in Inside!GraphModels, Inside!Compute(m) PROVE Intact'
  <2>1. \A x \in Inside!GraphModels : model'[x].graph # "unallocated"
    <3>1. PICK e : e = [loaded |-> TRUE, image_size |-> Inside!ImageSize(m),
                         graph |-> "ready",
                         extent |-> IF Inside!NeedsGraph(m) THEN Inside!WantedExtent(m)
                                    ELSE model[m].extent]
      OBVIOUS
    <3>2. e.graph = "ready" /\ model' = [model EXCEPT ![m] = e]
      BY <1>11, <3>1 DEF Inside!Compute, Inside!SetModel
    <3> QED BY <1>1, <3>2
  <2> QED BY <1>11, <2>1 DEF Intact, Inside!Compute, Inside!Reply
<1> QED BY <1>3, <1>4, <1>5, <1>6, <1>7, <1>8, <1>9, <1>10, <1>11

\* What the worker adds to its socket is no error, while nothing fails.
LEMMA NothingToReport ==
    ASSUME IInv, NoErrors, NEW p \in Pids,
           \/ proc' = proc /\ \A q \in Pids : \/ sock'[q].from = sock[q].from
                                           \/ sock'[q].from = <<>>
                                           \/ /\ sock[q].from # <<>>
                                              /\ sock'[q].from = Tail(sock[q].from)
           \/ UNCHANGED sock \/ \E f : sock' = [sock EXCEPT ![p].to = f]
           \/ \E f \in Frame : f.type # "ERR" /\ sock' = [sock EXCEPT ![p].from = Append(@, f)]
    PROVE  NoErrors'
<1>0. /\ sock \in [Pids -> Socket]
      /\ \A q \in Pids : sock[q] \in Socket /\ sock[q].from \in Seq(Frame)
  BY DEF IInv, StateOK, Socket
<1>1. ASSUME NEW q \in Pids, sock'[q].from = sock[q].from \/ sock'[q].from = <<>>
      PROVE  \A i \in DOMAIN sock'[q].from : sock'[q].from[i].type # "ERR"
  BY <1>1 DEF NoErrors
<1>2. ASSUME NEW q \in Pids, sock[q].from # <<>>, sock'[q].from = Tail(sock[q].from)
      PROVE  \A i \in DOMAIN sock'[q].from : sock'[q].from[i].type # "ERR"
  <2> PICK s : s = sock[q].from
    OBVIOUS
  <2>1. s \in Seq(Frame) /\ s # <<>> /\ \A i \in DOMAIN s : s[i].type # "ERR"
    BY <1>0, <1>2 DEF NoErrors
  <2>2. \A i \in DOMAIN Tail(s) : i + 1 \in DOMAIN s /\ Tail(s)[i] = s[i + 1]
    BY <2>1
  <2> QED BY <1>2, <2>1, <2>2
<1>3. CASE UNCHANGED sock \/ \E f : sock' = [sock EXCEPT ![p].to = f]
  <2>1. ASSUME NEW f, sock' = [sock EXCEPT ![p].to = f], NEW q \in Pids
        PROVE  sock'[q].from = sock[q].from
    BY <1>0, <2>1 DEF Socket
  <2>2. \A q \in Pids : sock'[q].from = sock[q].from
    BY <1>3, <2>1
  <2> QED BY <1>1, <2>2 DEF NoErrors
<1>4. ASSUME NEW f \in Frame, f.type # "ERR", sock' = [sock EXCEPT ![p].from = Append(@, f)]
      PROVE  NoErrors'
  <2> PICK s : s = sock[p].from
    OBVIOUS
  <2>1. s \in Seq(Frame) /\ \A i \in DOMAIN s : s[i].type # "ERR"
    BY <1>0 DEF NoErrors
  <2>2. sock'[p].from = Append(s, f) /\ \A q \in Pids \ {p} : sock'[q] = sock[q]
    BY <1>0, <1>4 DEF Socket
  <2>3. \A i \in DOMAIN Append(s, f) : Append(s, f)[i].type # "ERR"
    BY <1>4, <2>1
  <2> QED BY <1>1, <2>2, <2>3 DEF NoErrors
<1> QED BY <1>1, <1>2, <1>3, <1>4 DEF NoErrors

LEMMA IntactStep ==
    ASSUME "parts" \in CliModels => "parts" \in EnvModels, "matte" \in ParentConfig,
           SysInv, SysInv', Carried, Intact, [SystemNext]_systemVars
    PROVE  Intact'
<1>0. /\ proc \in [Pids -> Process]
      /\ \A f \in Frame : [f EXCEPT !.type = f.type] = f
  BY DEF SysInv, IInv, StateOK, Frame
<1>1. ASSUME NoErrors => NoErrors', UNCHANGED <<memory, harm>> PROVE Intact'
  <2>1. UNCHANGED <<at, job, model, siglip, harm>>
    BY <1>1 DEF memory
  <2> QED BY <1>1, <2>1 DEF Intact
<1>2. ASSUME harm' = TRUE PROVE Intact'
  BY <1>2 DEF Intact
<1>3. ASSUME (\E t \in Clients : ClientStep(t)) \/ Unload \/ WatchdogStep \/ Tick,
             IF proc' = proc THEN UNCHANGED <<memory, harm>> ELSE NewMemory /\ harm' = FALSE
      PROVE  Intact'
  <2>1. CASE proc' = proc
    <3>1. NoErrors => NoErrors'
      <4>1. CASE Pids = {}
        BY <4>1 DEF NoErrors
      <4>2. CASE Pids # {}
        BY <1>3, <2>1, <4>2, ParentTouches, NothingToReport DEF SysInv
      <4> QED BY <4>1, <4>2
    <3> QED BY <1>1, <1>3, <2>1, <3>1
  <2>2. CASE proc' # proc
    <3>1. \A q \in Pids : sock'[q].from = <<>>
      BY <1>3, <2>2, ParentTouches DEF SysInv
    <3>2. NoErrors'
      BY <3>1 DEF NoErrors
    <3> QED BY <1>3, <2>2, <3>2 DEF Intact, NewMemory, Inside!Empty
  <2> QED BY <2>1, <2>2
<1>4. ASSUME NEW p \in Pids, WorkerRuns(p) PROVE Intact'
  <2>1. CASE BootFails(p) \/ FailsInside(p)
    BY <1>2, <2>1 DEF BootFails, FailsInside
  <2>2. CASE harm = TRUE /\ (Boot(p) \/ Take(p) \/ Prepare(p) \/ Refuse(p) \/ Serve(p) \/ Crash(p))
    BY <2>2 DEF Intact, Boot, Take, Prepare, Refuse, Serve, Crash
  <2>3. CASE ~harm /\ Boot(p)
    <3>1. NoFrame \in Frame /\ NoFrame.type # "ERR"
      BY FrameTypes DEF NoFrame
    <3>2. NoErrors'
      BY <2>3, <3>1, NothingToReport DEF Intact, SysInv, Boot, WorkerHello
    <3> QED BY <2>3, <3>2, InsideIntact DEF SysInv, Boot
  <2>4. CASE ~harm /\ Take(p)
    <3>1. NoErrors'
      BY <2>4, NothingToReport DEF Intact, SysInv, Take, WorkerTakes
    <3> QED BY <2>4, <3>1, InsideIntact DEF SysInv, Take
  <2>5. CASE ~harm /\ Prepare(p)
    <3>1. NoErrors'
      BY <2>5, NothingToReport DEF Intact, SysInv, Prepare, vars
    <3> QED BY <2>5, <3>1, InsideIntact DEF SysInv, Prepare
  <2>6. CASE ~harm /\ Serve(p)
    <3>1. proc[p].cur \in Frame
      BY <1>0 DEF Process
    <3>2. proc[p].cur.type \in Families
      <4>1. /\ SlotOf(proc[p].cur.type) \in Inside!Families
            /\ proc[p].cur.type \in Families \cup {"HELLO", "ERR"}
        BY <2>6, <3>1 DEF SysInv, Handling, Serve, Frame
      <4> QED BY <4>1, OneFamily
    <3>3. proc[p].cur.type # "ERR" /\ [proc[p].cur EXCEPT !.type = proc[p].cur.type] = proc[p].cur
      BY <1>0, <3>1, <3>2 DEF Families
    <3>4. NoErrors'
      <4>1. UNCHANGED sock \/ sock' = [sock EXCEPT ![p].from = Append(@, proc[p].cur)]
        BY <2>6, <3>3 DEF Serve, Answer
      <4> QED BY <2>6, <3>1, <3>3, <4>1, NothingToReport DEF Intact, SysInv
    <3> QED BY <2>6, <3>4, InsideIntact DEF SysInv, Serve
  <2>7. CASE ~harm /\ (Refuse(p) \/ Crash(p))
    BY <2>7, NothingToRefuse
  <2> QED BY <1>4, <2>1, <2>2, <2>3, <2>4, <2>5, <2>6, <2>7 DEF WorkerRuns
<1>5. ASSUME NEW p \in Pids, Dies(p) PROVE Intact'
  BY <1>2, <1>5 DEF Dies
<1>6. CASE Parent(\E t \in Clients : ClientStep(t)) \/ Parent(Unload \/ WatchdogStep \/ Tick)
  BY <1>3, <1>6 DEF Parent
<1>7. CASE UNCHANGED systemVars
  BY <1>1, <1>7 DEF systemVars, vars, NoErrors
<1> QED BY <1>4, <1>5, <1>6, <1>7 DEF SystemNext

\* A worker in which nothing failed answers what the parent let through, whatever
\* was loaded and evicted before, where the matting model is given and SAM 3
\* not by flag alone (which the worker would not hear of).
THEOREM FailuresEarned ==
    ASSUME "parts" \in CliModels => "parts" \in EnvModels, "matte" \in ParentConfig
    PROVE  SystemSpec => []ErrorsAreEarned
<1>1. SystemInit => Intact
  <2> SUFFICES ASSUME SystemInit PROVE Intact
    OBVIOUS
  <2>1. \A p \in Pids : sock[p].from = <<>>
    BY DEF SystemInit, Init, Closed
  <2>2. NoErrors
    BY <2>1 DEF NoErrors
  <2> QED BY <2>2 DEF SystemInit, Intact, Inside!Init, Inside!Empty
<1>2. SysInv /\ SysInv' /\ Carried /\ Intact /\ [SystemNext]_systemVars => Intact'
  BY IntactStep
<1>3. SystemSpec => []Carried
  BY Assembled, Reaching, PTL
<1>4. Intact => ErrorsAreEarned
  BY DEF Intact, NoErrors, ErrorsAreEarned
<1> QED BY <1>1, <1>2, <1>3, <1>4, SystemInvariant, PTL DEF SystemSpec
=============================================================================
