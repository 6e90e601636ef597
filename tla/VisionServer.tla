---------------------------- MODULE VisionServer ----------------------------
(***************************************************************************)
(* The parent process of vision-server: its HTTP handler threads, the      *)
(* mutex that serialises them, the worker process they spawn, kill and     *)
(* exchange frames with over a socketpair, and the idle-evict watchdog.    *)
(*                                                                         *)
(* Data is abstracted to what the control flow tells apart.  A frame is    *)
(* its type and the <<thread, image>> it belongs to (the role of req_id,   *)
(* which the code writes and never reads back); a pid also names the       *)
(* parent's end of the socketpair made for it; time is the number of clock *)
(* ticks since last_request_ms, capped at the idle threshold.              *)
(***************************************************************************)
EXTENDS Naturals, Sequences, FiniteSets

CONSTANTS
    Clients,         \* httplib handler threads; each serves one call at a time
    Pids,            \* process ids the kernel can hand out (reused once reaped)
    Gpus,            \* values of a request's gpu field
    CliModels,       \* families whose model path is given by a CLI flag
    EnvModels,       \* families whose model path is given by the environment
    Sizes,           \* which of "fits", "big_request", "big_reply" requests are
    Calls,           \* which of the endpoints below clients call
    DefaultBackend,  \* MATTING_BACKEND
    DefaultGpu,      \* WORKER_DEFAULT_GPU, or NoGpu
    Threshold,       \* IDLE_UNLOAD_SECONDS in clock ticks
    KeepResident,    \* MATTING_KEEP_RESIDENT: no watchdog is started
    MaxBatch,        \* bound: images of one multipart request
    NoPid, NoGpu, NoThread

Backends == {"cpu", "gpu"}
Families == {"matte", "depth2", "depth3", "siglip", "parts"}

ASSUME ConstantsAssumption ==
    /\ Clients # {} /\ IsFiniteSet(Clients) /\ Pids # {}
    /\ CliModels \cup EnvModels \subseteq Families
    /\ CliModels \cup EnvModels # {}
    /\ Sizes \subseteq {"fits", "big_request", "big_reply"} /\ Sizes # {}
    /\ Calls \subseteq {"remove", "depth", "siglip", "parts", "load"}
    /\ KeepResident \in BOOLEAN
    /\ DefaultBackend \in Backends
    /\ NoGpu \notin Gpus /\ DefaultGpu \in Gpus \cup {NoGpu}
    /\ NoPid \notin Pids
    /\ NoThread \notin Clients /\ "watchdog" \notin Clients
    /\ NoThread # "watchdog"
    /\ Threshold \in Nat /\ MaxBatch \in Nat \ {0}

-----------------------------------------------------------------------------
VARIABLES
    in_flight,   \* ServerState::in_flight
    since,       \* ticks since ServerState::last_request_ms, at most Threshold
    mtx,         \* owner of ServerState::mtx
    next_gpu,    \* ServerState::next_gpu
    worker,      \* ServerState::worker_{pid,fd,bt,gpu,backend_name}
    spawning,    \* the local `pid' of ensure_worker_locked, until HELLO
    pc, req,     \* per thread: where it is, and the request it serves
    wd,          \* where the watchdog thread is
    proc,        \* the kernel's process table for our children
    sock         \* the socketpairs: is our end open, bytes each way

server == <<in_flight, since, mtx, next_gpu, worker, spawning>>
vars   == <<in_flight, since, mtx, next_gpu, worker, spawning, pc, req, wd,
            proc, sock>>

(***************************************************************************)
(* Records and their types.                                                *)
(***************************************************************************)
Request == [family  : Families \cup {"load"},
            backend : Backends,
            gpu     : Gpus \cup {NoGpu},
            left    : 0 .. MaxBatch,      \* images still to be exchanged
            size    : {"fits", "big_request", "big_reply"}]

NoRequest == [family |-> "load", backend |-> DefaultBackend, gpu |-> NoGpu,
              left |-> 0, size |-> "fits"]

Frame == [type : Families \cup {"HELLO", "ERR"},
          for  : Clients \cup {NoThread},
          left : 0 .. MaxBatch,
          size : {"fits", "big_request", "big_reply"}]

NoFrame  == [type |-> "HELLO", for |-> NoThread, left |-> 0, size |-> "fits"]
ErrFrame == [type |-> "ERR", for |-> NoThread, left |-> 0, size |-> "fits"]

\* "none": the pid is free (never forked, or waited for).  "dead": exited or
\* killed by someone else, not waited for yet.
Process == [state   : {"none", "loading", "ready", "busy", "dead"},
            backend : Backends,
            gpu     : Gpus \cup {NoGpu},
            cur     : Frame]

Unborn == [state |-> "none", backend |-> DefaultBackend, gpu |-> NoGpu,
           cur |-> NoFrame]

Socket == [open : BOOLEAN, to : Seq(Frame), from : Seq(Frame)]
Closed == [open |-> FALSE, to |-> <<>>, from |-> <<>>]

\* The parent's handle on its worker.
Handle == [pid : Pids \cup {NoPid}, fd : Pids \cup {NoPid}, bt : Backends,
           gpu : Gpus \cup {NoGpu}, name : Backends \cup {""}]

Locked == {"ensure", "hello", "send", "recv", "unlock", "fail"}
PCs    == {"idle", "queued", "respond", "leaving"} \cup Locked

TypeOK ==
    /\ in_flight \in Nat
    /\ since \in 0 .. Threshold
    /\ mtx \in Clients \cup {NoThread, "watchdog"}
    /\ next_gpu \in Gpus \cup {NoGpu}
    /\ worker \in Handle
    /\ spawning \in Pids \cup {NoPid}
    /\ pc \in [Clients -> PCs]
    /\ req \in [Clients -> Request]
    /\ wd \in {"wait", "try", "check", "kill"}
    /\ proc \in [Pids -> Process]
    /\ sock \in [Pids -> Socket]

Init ==
    /\ in_flight = 0
    /\ since = Threshold        \* last_request_ms{0}: long ago
    /\ mtx = NoThread
    /\ next_gpu = NoGpu
    /\ worker = [pid |-> NoPid, fd |-> NoPid, bt |-> DefaultBackend,
                 gpu |-> NoGpu, name |-> ""]
    /\ spawning = NoPid
    /\ pc = [t \in Clients |-> "idle"]
    /\ req = [t \in Clients |-> NoRequest]
    /\ wd = "wait"
    /\ proc = [p \in Pids |-> Unborn]
    /\ sock = [p \in Pids |-> Closed]

(***************************************************************************)
(* Configuration.  load_config reads the environment, then the flags; the  *)
(* worker inherits the environment and gets the flags ensure_worker_locked *)
(* writes for it.                                                          *)
(***************************************************************************)
ParentConfig == CliModels \cup EnvModels
\* Mutant: --depth3-model is not pushed either.
WorkerArgsForgetDepth3 == ParentConfig \ {"parts", "depth3"}
WorkerArgs   == ParentConfig \ {"parts"}   \* no --sam3-model is pushed
WorkerConfig == EnvModels \cup WorkerArgs

(***************************************************************************)
(* kill_worker_locked: SIGKILL, waitpid, close, forget pid, fd and name.   *)
(* worker_bt and worker_gpu keep their values.                             *)
(***************************************************************************)
Reap(procs, p)  == [q \in Pids |-> IF q = p THEN Unborn ELSE procs[q]]
Close(socks, p) == [q \in Pids |-> IF q = p THEN Closed ELSE socks[q]]
\* Mutant: worker_backend_name.clear() is missing.
ForgetNotName(w) == [w EXCEPT !.pid = NoPid, !.fd = NoPid]
Forget(w)       == [w EXCEPT !.pid = NoPid, !.fd = NoPid, !.name = ""]

KillWorker ==
    /\ proc' = Reap(proc, worker.pid)
    /\ sock' = Close(sock, worker.fd)
    /\ worker' = Forget(worker)

Alive == worker.pid # NoPid                 \* worker_alive()
Idle  == since >= Threshold

Goto(t, label) == pc' = [pc EXCEPT ![t] = label]

-----------------------------------------------------------------------------
(***************************************************************************)
(* Handler threads, up to the lock.  Each endpoint counts itself in_flight *)
(* and touches the clock before it looks at the request; a request that    *)
(* fails validation (or names a family the parent has no model for) leaves *)
(* without queueing.                                                       *)
(***************************************************************************)
Arrive(t, endpoint) ==
    /\ endpoint \in Calls
    /\ pc[t] = "idle"
    /\ in_flight' = in_flight + 1
    /\ since' = 0
    /\ UNCHANGED <<mtx, next_gpu, worker, spawning, wd, proc, sock>>

\* Mutant: an early return before the guard is made (or after it is gone).
RejectUnguarded(t, f) ==
    /\ Goto(t, "idle")
    /\ req' = [req EXCEPT ![t] = [NoRequest EXCEPT !.family = f]]

Reject(t, f) ==
    /\ Goto(t, "leaving")
    /\ req' = [req EXCEPT ![t] = [NoRequest EXCEPT !.family = f]]

Queue(t, families, backends, batches) ==
    /\ \E f \in families, b \in backends, n \in batches,
          g \in Gpus \cup {NoGpu}, s \in Sizes :
          req' = [req EXCEPT ![t] = [family |-> f, backend |-> b, gpu |-> g,
                                     left |-> n, size |-> s]]
    /\ Goto(t, "queued")

\* POST /remove: no configuration check, any backend, one frame per image.
Remove(t) ==
    /\ Arrive(t, "remove")
    /\ Queue(t, {"matte"}, Backends, 1 .. MaxBatch) \/ Reject(t, "matte")

\* POST /depth: 503 unless the family asked for is configured.
Depth(t) ==
    /\ Arrive(t, "depth")
    /\ \/ Queue(t, {"depth2", "depth3"} \cap ParentConfig, Backends,
                1 .. MaxBatch)
       \/ Reject(t, "depth2")

\* POST /v1/embeddings and the three other siglip routes: default backend.
Siglip(t) ==
    /\ Arrive(t, "siglip")
    /\ \/ Queue(t, {"siglip"} \cap ParentConfig, {DefaultBackend}, {1})
       \/ Reject(t, "siglip")

\* POST /parts: one image.
Parts(t) ==
    /\ Arrive(t, "parts")
    /\ Queue(t, {"parts"} \cap ParentConfig, Backends, {1}) \/ Reject(t, "parts")

\* POST /v1/admin/load: neither counted in_flight nor touching the clock.
AdminLoad(t) ==
    /\ "load" \in Calls /\ pc[t] = "idle"
    /\ req' = [req EXCEPT ![t] = NoRequest]
    /\ Goto(t, "queued")
    /\ UNCHANGED <<server, wd, proc, sock>>

\* scoped_lock, then take_request_gpu_locked.
TakeRequestGpu(t) ==
    next_gpu' = IF req[t].gpu # NoGpu THEN req[t].gpu ELSE next_gpu

Acquire(t) ==
    /\ pc[t] = "queued" /\ mtx = NoThread
    /\ mtx' = t
    /\ TakeRequestGpu(t)
    /\ Goto(t, "ensure")
    /\ UNCHANGED <<in_flight, since, worker, spawning, req, wd, proc, sock>>

(***************************************************************************)
(* ensure_worker_locked.                                                   *)
(***************************************************************************)
WantGpu == IF next_gpu = NoGpu THEN DefaultGpu ELSE next_gpu

\* Mutant: the card is not compared.
MatchesAnyGpu(t) == Alive /\ worker.bt = req[t].backend
Matches(t) == Alive /\ worker.bt = req[t].backend /\ worker.gpu = WantGpu

\* Where a thread goes once the worker is up.
AfterEnsure(t) == IF req[t].left > 0 THEN "send" ELSE "unlock"

EnsureWarm(t) ==
    /\ pc[t] = "ensure" /\ Matches(t)
    /\ Goto(t, AfterEnsure(t))
    /\ UNCHANGED <<server, req, wd, proc, sock>>

\* The old worker, if any, is killed and reaped before the fork.
\* Mutant: it is forgotten but left running.
BeforeForkKeepsOld == proc
BeforeFork == Reap(proc, worker.pid)

EnsureSpawn(t) ==
    /\ pc[t] = "ensure" /\ ~Matches(t)
    /\ LET procs == BeforeFork
       IN  \E p \in Pids :
             /\ procs[p].state = "none"
             /\ proc' = [procs EXCEPT ![p] =
                           [state |-> "loading", backend |-> req[t].backend,
                            gpu |-> WantGpu, cur |-> NoFrame]]
             /\ sock' = [Close(sock, worker.fd) EXCEPT ![p] =
                           [open |-> TRUE, to |-> <<>>, from |-> <<>>]]
             /\ spawning' = p
    /\ worker' = [Forget(worker) EXCEPT !.gpu = WantGpu]
    /\ Goto(t, "hello")
    /\ UNCHANGED <<in_flight, since, mtx, next_gpu, req, wd>>

\* socketpair or fork failed.
EnsureForkFails(t) ==
    /\ pc[t] = "ensure" /\ ~Matches(t)
    /\ proc' = BeforeFork
    /\ sock' = Close(sock, worker.fd)
    /\ worker' = [Forget(worker) EXCEPT !.gpu = WantGpu]
    /\ Goto(t, "fail")
    /\ UNCHANGED <<in_flight, since, mtx, next_gpu, spawning, req, wd>>

Eof(p) == proc[p].state = "dead" /\ sock[p].from = <<>>

HelloArrives(t) ==
    /\ pc[t] = "hello" /\ sock[spawning].from # <<>>
    /\ Head(sock[spawning].from).type = "HELLO"
    /\ sock' = [sock EXCEPT ![spawning].from = Tail(@)]
    /\ worker' = [worker EXCEPT !.pid = spawning, !.fd = spawning,
                                !.bt = req[t].backend,
                                !.name = proc[spawning].backend]
    /\ spawning' = NoPid
    /\ Goto(t, AfterEnsure(t))
    /\ UNCHANGED <<in_flight, since, mtx, next_gpu, req, wd, proc>>

\* ERR instead of HELLO, or EOF: kill, wait and close the newcomer, throw.
\* Mutant: the newcomer is killed but its socket stays open.
HelloFailsLeaksFd(t) ==
    /\ pc[t] = "hello"
    /\ \/ Eof(spawning)
       \/ sock[spawning].from # <<>> /\ Head(sock[spawning].from).type # "HELLO"
    /\ proc' = Reap(proc, spawning)
    /\ spawning' = NoPid
    /\ Goto(t, "fail")
    /\ UNCHANGED <<in_flight, since, mtx, next_gpu, worker, req, wd, sock>>

HelloFails(t) ==
    /\ pc[t] = "hello"
    /\ \/ Eof(spawning)
       \/ sock[spawning].from # <<>> /\ Head(sock[spawning].from).type # "HELLO"
    /\ proc' = Reap(proc, spawning)
    /\ sock' = Close(sock, spawning)
    /\ spawning' = NoPid
    /\ Goto(t, "fail")
    /\ UNCHANGED <<in_flight, since, mtx, next_gpu, worker, req, wd>>

(***************************************************************************)
(* request_locked, called once per image by matte_locked, depth_locked and *)
(* parts_locked and once by call_worker.  A reply of the right type may    *)
(* still hold something its reader does not take, which its type does not  *)
(* tell: every such reader may or may not be content with it.              *)
(***************************************************************************)
RequestFrame(t) == [type |-> req[t].family, for |-> t, left |-> req[t].left,
                    size |-> req[t].size]

Send(t) ==
    /\ pc[t] = "send"
    /\ req[t].size # "big_request"
    /\ proc[worker.fd].state # "dead"
    /\ sock' = [sock EXCEPT ![worker.fd].to = Append(@, RequestFrame(t))]
    /\ Goto(t, "recv")
    /\ UNCHANGED <<server, req, wd, proc>>

\* EPIPE, or a payload over MAX_FRAME_PAYLOAD: the worker is killed.
SendFails(t) ==
    /\ pc[t] = "send"
    /\ req[t].size = "big_request" \/ proc[worker.fd].state = "dead"
    /\ KillWorker
    /\ Goto(t, "fail")
    /\ UNCHANGED <<in_flight, since, mtx, next_gpu, spawning, req, wd>>

Recv(t) ==
    /\ pc[t] = "recv" /\ sock[worker.fd].from # <<>>
    /\ Head(sock[worker.fd].from).type = req[t].family
    /\ sock' = [sock EXCEPT ![worker.fd].from = Tail(@)]
    /\ req' = [req EXCEPT ![t].left = @ - 1]
    /\ Goto(t, IF req[t].left > 1 THEN "send" ELSE "unlock")
    /\ UNCHANGED <<server, wd, proc>>

\* json::parse throws, or the mask has another extent: the worker is kept.
ReadsContent == {"siglip", "parts", "matte"}

\* The worker answered ERR, or what nobody can read: it is kept, the call fails.
RecvError(t) ==
    /\ pc[t] = "recv" /\ sock[worker.fd].from # <<>>
    /\ \/ Head(sock[worker.fd].from).type = "ERR"
       \/ /\ Head(sock[worker.fd].from).type = req[t].family
          /\ req[t].family \in ReadsContent
    /\ sock' = [sock EXCEPT ![worker.fd].from = Tail(@)]
    /\ Goto(t, "fail")
    /\ UNCHANGED <<server, req, wd, proc>>

\* The sizes in the reply do not add up to its length.
ChecksSizes == {"matte", "depth2", "depth3", "parts"}

\* EOF, a frame of another type, or of another size: the worker is killed.
RecvFails(t) ==
    /\ pc[t] = "recv"
    /\ \/ Eof(worker.fd)
       \/ /\ sock[worker.fd].from # <<>>
          /\ Head(sock[worker.fd].from).type # "ERR"
          /\ \/ Head(sock[worker.fd].from).type # req[t].family
             \/ req[t].family \in ChecksSizes
    /\ KillWorker
    /\ Goto(t, "fail")
    /\ UNCHANGED <<in_flight, since, mtx, next_gpu, spawning, req, wd>>

(***************************************************************************)
(* Leaving the lock, and answering without it.  /remove, /depth and        *)
(* /v1/admin/load read worker_backend_name for their answer.  Whatever     *)
(* becomes of the request, the siglip routes touch the clock after it; the *)
(* others only when it succeeded; /v1/admin/load never, and it is not      *)
(* counted in_flight while it answers.                                     *)
(***************************************************************************)
Unlock(t) ==
    /\ pc[t] = "unlock"
    /\ mtx' = NoThread
    /\ Goto(t, "respond")
    /\ UNCHANGED <<in_flight, since, next_gpu, worker, spawning, req, wd, proc,
                   sock>>

\* Mutant: the error path of /v1/admin/load leaves a guard it never made.
AfterFailGuarded(t) == IF req[t].family = "siglip" THEN "respond" ELSE "leaving"
AfterFail(t) ==
    CASE req[t].family = "load"   -> "idle"
      [] req[t].family = "siglip" -> "respond"
      [] OTHER                    -> "leaving"

Fail(t) ==
    /\ pc[t] = "fail"
    /\ mtx' = NoThread
    /\ Goto(t, AfterFail(t))
    /\ UNCHANGED <<in_flight, since, next_gpu, worker, spawning, req, wd, proc,
                   sock>>

Respond(t) ==
    /\ pc[t] = "respond"
    /\ IF req[t].family = "load"
       THEN Goto(t, "idle") /\ UNCHANGED since
       ELSE Goto(t, "leaving") /\ since' = 0
    /\ UNCHANGED <<in_flight, mtx, next_gpu, worker, spawning, req, wd, proc,
                   sock>>

\* ~InFlightGuard.  Its notify_all only shortens the watchdog's timed wait.
Leave(t) ==
    /\ pc[t] = "leaving"
    /\ in_flight' = in_flight - 1
    /\ Goto(t, "idle")
    /\ UNCHANGED <<since, mtx, next_gpu, worker, spawning, req, wd, proc, sock>>

\* Mutant: the worker is killed without taking the lock.
UnloadUnlocked ==
    /\ KillWorker
    /\ UNCHANGED <<in_flight, since, mtx, next_gpu, spawning, pc, req, wd>>

\* POST /unload and /v1/admin/unload hold the lock for this one step.
Unload ==
    /\ mtx = NoThread
    /\ KillWorker
    /\ UNCHANGED <<in_flight, since, mtx, next_gpu, spawning, pc, req, wd>>

-----------------------------------------------------------------------------
(***************************************************************************)
(* The watchdog: wait at most a second, look without the lock, try the     *)
(* lock, look again, kill.  A wake-up that finds work in flight goes back  *)
(* to waiting and changes nothing.                                         *)
(***************************************************************************)
Watchdog(from, to) == wd = from /\ wd' = to

WatchdogWakes ==
    /\ ~KeepResident
    /\ Watchdog("wait", "try")
    /\ in_flight = 0 /\ Idle
    /\ UNCHANGED <<server, pc, req, proc, sock>>

WatchdogLocks ==
    /\ Watchdog("try", "check")
    /\ mtx = NoThread
    /\ mtx' = "watchdog"
    /\ UNCHANGED <<in_flight, since, next_gpu, worker, spawning, pc, req, proc,
                   sock>>

\* Mutant: `break' where the code says `continue'.
WatchdogStops ==
    /\ Watchdog("try", "stopped")
    /\ mtx # NoThread
    /\ UNCHANGED <<server, pc, req, proc, sock>>

\* The lock is held, or try_lock fails without a reason, as it may.
WatchdogMissesLock ==
    /\ Watchdog("try", "wait")
    /\ UNCHANGED <<server, pc, req, proc, sock>>

\* Mutant: in_flight is not looked at again under the lock.
EvictableUnchecked == Alive /\ Idle
Evictable == in_flight = 0 /\ Alive /\ Idle

WatchdogDecides ==
    /\ Watchdog("check", "kill")
    /\ Evictable
    /\ UNCHANGED <<server, pc, req, proc, sock>>

WatchdogGivesUp ==
    /\ Watchdog("check", "wait")
    /\ ~Evictable
    /\ mtx' = NoThread
    /\ UNCHANGED <<in_flight, since, next_gpu, worker, spawning, pc, req, proc,
                   sock>>

WatchdogKills ==
    /\ Watchdog("kill", "wait")
    /\ KillWorker
    /\ mtx' = NoThread
    /\ UNCHANGED <<in_flight, since, next_gpu, spawning, pc, req>>

Tick ==
    /\ since < Threshold
    /\ since' = since + 1
    /\ UNCHANGED <<in_flight, mtx, next_gpu, worker, spawning, pc, req, wd,
                   proc, sock>>

-----------------------------------------------------------------------------
(***************************************************************************)
(* The worker process, seen from its socket: run_worker's start-up and its *)
(* receive loop, one reply per request.  What it does to compute a reply   *)
(* is the subject of module WorkerModels.                                  *)
(***************************************************************************)
parent == <<in_flight, since, mtx, next_gpu, worker, spawning, pc, req, wd>>

WorkerHello(p) ==
    /\ proc[p].state = "loading" /\ WorkerConfig # {}
    /\ proc' = [proc EXCEPT ![p].state = "ready"]
    /\ sock' = [sock EXCEPT ![p].from = Append(@, NoFrame)]
    /\ UNCHANGED parent

\* The device or the matting model does not load: ERR, then exit.  A worker
\* that was given no model at all exits before it opens the socket.
WorkerLoadFails(p) ==
    /\ proc[p].state = "loading"
    /\ proc' = [proc EXCEPT ![p].state = "dead"]
    /\ sock' = [sock EXCEPT ![p].from =
                   IF WorkerConfig = {} THEN @ ELSE Append(@, ErrFrame)]
    /\ UNCHANGED parent

WorkerTakes(p) ==
    /\ proc[p].state = "ready" /\ sock[p].to # <<>>
    /\ proc' = [proc EXCEPT ![p].state = "busy", ![p].cur = Head(sock[p].to)]
    /\ sock' = [sock EXCEPT ![p].to = Tail(@)]
    /\ UNCHANGED parent

Answers(f) == IF f.type \in WorkerConfig THEN {f.type, "ERR"} ELSE {"ERR"}

\* Mutant: a handler that returns on an error without reporting it.
WorkerStaysSilent(p) ==
    /\ proc[p].state = "busy"
    /\ proc' = [proc EXCEPT ![p].state = "ready", ![p].cur = NoFrame]
    /\ \/ UNCHANGED sock
       \/ sock' = [sock EXCEPT ![p].from = Append(@, proc[p].cur)]
    /\ UNCHANGED parent

\* Mutant: a handler that reports an error and does not return.
WorkerRepliesTwice(p) ==
    /\ proc[p].state = "busy"
    /\ proc' = [proc EXCEPT ![p].state = "ready", ![p].cur = NoFrame]
    /\ LET f == proc[p].cur
       IN  sock' = [sock EXCEPT ![p].from = @ \o <<[f EXCEPT !.type = "ERR"], f>>]
    /\ UNCHANGED parent

WorkerReplies(p) ==
    /\ proc[p].state = "busy"
    /\ proc' = [proc EXCEPT ![p].state = "ready", ![p].cur = NoFrame]
    /\ LET f == proc[p].cur
       IN  \E a \in Answers(f) :
             IF a = f.type /\ f.size = "big_reply"
             THEN UNCHANGED sock   \* send_frame returns false; nobody looks
             ELSE sock' = [sock EXCEPT ![p].from =
                             Append(@, [f EXCEPT !.type = a])]
    /\ UNCHANGED parent

\* abort, OOM kill: what was not read is lost, the socket then reports EOF.
WorkerDies(p) ==
    /\ proc[p].state \in {"loading", "ready", "busy"}
    /\ proc' = [proc EXCEPT ![p].state = "dead", ![p].cur = NoFrame]
    /\ sock' = [sock EXCEPT ![p].to = <<>>]
    /\ UNCHANGED parent

-----------------------------------------------------------------------------
LockedStep(t) ==
    \/ EnsureWarm(t) \/ EnsureSpawn(t) \/ EnsureForkFails(t)
    \/ HelloArrives(t) \/ HelloFails(t)
    \/ Send(t) \/ SendFails(t)
    \/ Recv(t) \/ RecvError(t) \/ RecvFails(t)
    \/ Unlock(t) \/ Fail(t)

ClientStep(t) ==
    \/ Remove(t) \/ Depth(t) \/ Siglip(t) \/ Parts(t) \/ AdminLoad(t)
    \/ Acquire(t) \/ LockedStep(t) \/ Respond(t) \/ Leave(t)

WatchdogStep ==
    \/ WatchdogWakes \/ WatchdogLocks \/ WatchdogMissesLock
    \/ WatchdogDecides \/ WatchdogGivesUp \/ WatchdogKills

WorkerServes(p) ==
    \/ WorkerHello(p) \/ WorkerLoadFails(p) \/ WorkerTakes(p) \/ WorkerReplies(p)

Next ==
    \/ \E t \in Clients : ClientStep(t)
    \/ Unload
    \/ WatchdogStep
    \/ \E p \in Pids : WorkerServes(p) \/ WorkerDies(p)
    \/ Tick

Spec == Init /\ [][Next]_vars

(***************************************************************************)
(* Fairness.  The scheduler runs every thread and process that can step.   *)
(* std::mutex promises no queueing order: that a thread which again and    *)
(* again finds the mutex free gets it in the end is an assumption (SF); a  *)
(* try_lock that finds it free "should not consistently return false" (the *)
(* C++ standard on try_lock), which is an SF as well.                      *)
(* Nothing makes clients call, workers die or time stand still.            *)
(***************************************************************************)
FairSpec ==
    /\ Spec
    /\ \A t \in Clients :
          /\ WF_vars(LockedStep(t))
          /\ WF_vars(Respond(t) \/ Leave(t))
          /\ SF_vars(Acquire(t))
    /\ \A p \in Pids : WF_vars(WorkerServes(p))
    /\ WF_vars(WatchdogStep)
    /\ SF_vars(WatchdogLocks)
    /\ WF_vars(Tick)

-----------------------------------------------------------------------------
(***************************************************************************)
(* Properties.                                                             *)
(***************************************************************************)

\* Only the owner of mtx is inside a locked region, whatever path it leaves
\* by, and the watchdog is only past its try_lock when it got the lock
\* (the *_locked functions "require the caller to hold mtx").
MutexDiscipline ==
    /\ \A t \in Clients : pc[t] \in Locked <=> mtx = t
    /\ wd \in {"check", "kill"} <=> mtx = "watchdog"

Unreaped == {p \in Pids : proc[p].state # "none"}

\* There is never a second worker process, dying or loading ones included:
\* one worker owns the device, so two never share the VRAM budget.
OneWorker == \A p, q \in Unreaped : p = q

\* Every child not yet waited for and every socket end still open is the one
\* in worker_pid/worker_fd or the one ensure_worker_locked is waiting for:
\* no error path leaks a process or a descriptor, and kill() never hits a
\* pid that has been reaped and may belong to somebody else.
NothingLeaks ==
    /\ Unreaped = {worker.pid, spawning} \ {NoPid}
    /\ {p \in Pids : sock[p].open} = Unreaped
    /\ worker.fd = worker.pid

\* What /health and /v1/gpu/status report of a worker (backend, card) is what
\* the process in worker_pid was started with; without a worker no backend
\* is reported.
HandleIsTrue ==
    IF Alive
    THEN /\ proc[worker.pid].backend = worker.bt
         /\ proc[worker.pid].gpu = worker.gpu
         /\ worker.name = worker.bt
    ELSE worker.name = ""

InSocket(p) == {sock[p].to[i] : i \in DOMAIN sock[p].to}
                 \cup {sock[p].from[i] : i \in DOMAIN sock[p].from}
                 \cup (IF proc[p].state = "busy" THEN {proc[p].cur} ELSE {})

\* The reply a request reads is the reply to the frame it has just sent.
\* req_id is never compared, so this rests on the socket holding at most one
\* frame of the exchange under way and nothing between exchanges.
RepliesMatch ==
    Alive => \/ InSocket(worker.fd) = {}
             \/ \E t \in Clients :
                  /\ pc[t] = "recv"
                  /\ \A f \in InSocket(worker.fd) :
                       f.for = t /\ f.left = req[t].left
                  /\ Len(sock[worker.fd].to) + Len(sock[worker.fd].from) <= 1

\* All images of one multipart request are computed by the same process: while
\* the lock is held across request_locked calls nobody evicts or switches the
\* worker under it ("one lock-hold: [...] run all N inferences while warm").
Exchanging(t) == pc[t] \in {"send", "recv"}
BatchOnOneWorker ==
    [][\A t \in Clients : Exchanging(t) /\ Exchanging(t)' => UNCHANGED worker]_vars

\* in_flight counts exactly the guarded requests between arrival and answer,
\* on every early return and error path.
InFlightCounts ==
    in_flight = Cardinality({t \in Clients : pc[t] # "idle"
                                              /\ req[t].family # "load"})

\* When the watchdog has made up its mind nobody is being served, no frame is
\* under way, and no request with an InFlightGuard is composing an answer
\* (which reads worker_backend_name without the lock).  /v1/admin/load has no
\* guard: its answer is the one the watchdog may come between (NoAnswerUnderEviction).
EvictsAtRest ==
    wd = "kill" =>
        /\ \A t \in Clients : /\ pc[t] \notin Locked
                               /\ pc[t] = "respond" => req[t].family = "load"
        /\ Alive /\ InSocket(worker.fd) = {}

\* Liveness: a queued request is answered, whatever the worker process does,
\* provided replies fit into a frame.
Answered == \A t \in Clients : pc[t] = "queued" ~> pc[t] = "idle"

\* Liveness: when requests stop, the worker is evicted and stays away, even
\* if every notify_all is lost.
IdleEvicts ==
    <>[](\A t \in Clients : pc[t] = "idle") => <>[](~Alive)

-----------------------------------------------------------------------------
(***************************************************************************)
(* Refinement.  What a client may rely on is DeviceService: of a thread    *)
(* the abstract phase, of the handle the worker the parent believes in.    *)
(***************************************************************************)
Phase(t) ==
    CASE pc[t] = "queued"                       -> "waiting"
      [] pc[t] \in Locked \ {"fail"}            -> "holding"
      [] pc[t] = "fail"                         -> "failing"
      [] pc[t] \in {"idle", "respond", "leaving"} -> "away"

\* The phases, the wishes and the worker of DeviceService, read off the server.
ServicePhase == [t \in Clients |-> Phase(t)]

ServiceWish ==
    [t \in Clients |->
        IF Phase(t) = "away" THEN [backend |-> "none", gpu |-> NoGpu, left |-> 0]
        ELSE [backend |-> req[t].backend, gpu |-> req[t].gpu, left |-> req[t].left]]

ServiceResident ==
    IF Alive THEN [backend |-> worker.bt, gpu |-> worker.gpu]
    ELSE [backend |-> "none", gpu |-> NoGpu]

Service == INSTANCE DeviceService WITH
    Threads  <- Clients,
    phase    <- ServicePhase,
    wish     <- ServiceWish,
    resident <- ServiceResident

\* The server with its processes, sockets, watchdog and failures implements
\* the service: every step of it is a step of DeviceService or none.
ServesTheDevice == Service!Spec

-----------------------------------------------------------------------------
(***************************************************************************)
(* What comments and documents say and the code does not do.               *)
(***************************************************************************)

\* main.cpp: WORKER_DEFAULT_GPU is the card "for un-targeted requests".
UntargetedOnDefault ==
    \A p \in Pids : proc[p].state = "busy" =>
        LET t == proc[p].cur.for
        IN  req[t].gpu = NoGpu => proc[p].gpu = DefaultGpu

\* server_state.h: the guard is there "so the idle watchdog can't evict
\* underneath" a request.  /v1/admin/load answers "worker_alive": true and reads
\* the worker's name with neither guard nor lock: the watchdog may be killing the
\* worker and clearing the name as it does.
NoAnswerUnderEviction ==
    [][WatchdogKills => \A t \in Clients : pc[t] # "respond"]_vars

\* server_state.h: a request is live "running OR queued" so that the watchdog
\* "can't evict underneath it".
NeverEvictsUnderneath == [][WatchdogKills => in_flight = 0]_vars

\* main.cpp: every model path is configured by "env, overridable by CLI
\* flags".  A request the worker computes is for a family the parent has a path
\* for, unless it is a matte (/remove asks for no configuration), and what the
\* parent has a path for the worker has one for.
AcceptedIsConfigured ==
    \A p \in Pids : proc[p].state = "busy" =>
        LET family == proc[p].cur.type
        IN  /\ family = "matte" \/ family \in ParentConfig
            /\ family \in ParentConfig => family \in WorkerConfig
=============================================================================
