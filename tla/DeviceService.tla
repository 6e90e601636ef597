---------------------------- MODULE DeviceService ----------------------------
(***************************************************************************)
(* What vision-server promises of its one device, whatever processes and   *)
(* sockets it takes: requests hold the device one at a time; a request is  *)
(* computed image by image on a worker of the backend it asked for and, if *)
(* it named a card, on that card; a worker is exchanged or lost only by    *)
(* the request that holds the device, or given up while nobody holds it; a *)
(* request that lost its worker computes no more.                          *)
(***************************************************************************)
EXTENDS Naturals

CONSTANTS
    Threads,    \* who may ask for the device
    Backends,
    Gpus, NoGpu,
    MaxBatch

None == [backend |-> "none", gpu |-> NoGpu]    \* no worker is resident
NoWish == [backend |-> "none", gpu |-> NoGpu, left |-> 0]

VARIABLES
    phase,     \* thread -> "away", "waiting", "holding", "failing"
    wish,      \* thread -> what it asked for, and how many images are left
    resident   \* the worker in place

vars == <<phase, wish, resident>>

Wishes == [backend : Backends, gpu : Gpus \cup {NoGpu}, left : 0 .. MaxBatch]

Init ==
    /\ phase = [t \in Threads |-> "away"]
    /\ wish = [t \in Threads |-> NoWish]
    /\ resident = None

Free == \A t \in Threads : phase[t] \in {"away", "waiting"}

\* The worker a thread's wish allows.
Suits(worker, w) == worker.backend = w.backend /\ (w.gpu # NoGpu => worker.gpu = w.gpu)

Step(t, from, to) == phase[t] = from /\ phase' = [phase EXCEPT ![t] = to]

Ask(t) ==
    /\ Step(t, "away", "waiting")
    /\ \E w \in Wishes : wish' = [wish EXCEPT ![t] = w]
    /\ UNCHANGED resident

Take(t) ==
    /\ Free
    /\ Step(t, "waiting", "holding")
    /\ UNCHANGED <<wish, resident>>

Discard(t) ==
    /\ phase[t] = "holding" /\ resident' = None
    /\ UNCHANGED <<phase, wish>>

Install(t) ==
    /\ phase[t] = "holding" /\ resident = None
    /\ \E g \in Gpus \cup {NoGpu} : resident' = [backend |-> wish[t].backend, gpu |-> g]
    /\ Suits(resident', wish[t])
    /\ UNCHANGED <<phase, wish>>

Compute(t) ==
    /\ phase[t] = "holding" /\ Suits(resident, wish[t])
    /\ wish[t].left > 0
    /\ wish' = [wish EXCEPT ![t].left = @ - 1]
    /\ UNCHANGED <<phase, resident>>

\* An answer: every image was computed and the worker stays.
Finish(t) ==
    /\ wish[t].left = 0 /\ Suits(resident, wish[t])
    /\ Step(t, "holding", "away")
    /\ wish' = [wish EXCEPT ![t] = NoWish]
    /\ UNCHANGED resident

\* The request fails, with its worker or without.
Lose(t) ==
    /\ Step(t, "holding", "failing")
    /\ resident' \in {resident, None}
    /\ UNCHANGED wish

GiveUp(t) ==
    /\ Step(t, "failing", "away")
    /\ wish' = [wish EXCEPT ![t] = NoWish]
    /\ UNCHANGED resident

Evict == Free /\ resident' = None /\ UNCHANGED <<phase, wish>>

Next ==
    \/ \E t \in Threads : \/ Ask(t) \/ Take(t) \/ Discard(t) \/ Install(t) \/ Compute(t)
                          \/ Finish(t) \/ Lose(t) \/ GiveUp(t)
    \/ Evict

Spec == Init /\ [][Next]_vars
=============================================================================
