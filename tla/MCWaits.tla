------------------------------ MODULE MCWaits ------------------------------
(***************************************************************************)
(* Waits that must return: a behaviour of this module is one of wait       *)
(* queues with their most general client, of a mutex, or of a semaphore.   *)
(* The mutex and the semaphore are used by callers that never pass a       *)
(* finite timeout and never destroy them.                                  *)
(***************************************************************************)
EXTENDS Mutex, Semaphore

VARIABLE part   \* the component that runs

(* The most general client has the other queues. *)
Client == INSTANCE WaitQueue WITH Queues <- Queues \ {m, s}

waitsvars == <<part, wqvars, mvars, svars>>

WaitsInit == part \in {"wait_queue", "mutex", "semaphore"} /\ Init /\ SemInit

WaitsNext ==
  /\ UNCHANGED part
  /\ \/ part = "wait_queue" /\ Client!WQNext /\ UNCHANGED <<mvars, svars>>
     \/ part = "mutex" /\ Next /\ UNCHANGED svars
     \/ part = "semaphore" /\ SemNext /\ UNCHANGED mvars

(* The fairness of WaitQueue, and a thread of the mutex that is scheduled  *)
(* again and a holder that releases.  A behaviour belongs to one component,*)
(* so strong fairness of a disjunction over the components is strong       *)
(* fairness of each.                                                       *)
Returns(t) ==
  \/ part = "wait_queue" /\ Client!wait_queue_block_return(t) /\ UNCHANGED mvars
  \/ part = "mutex" /\ mutex_acquire_return(t)
Fires(t) ==
  \/ part = "wait_queue" /\ (\E c \in CPUs : Client!timer_tick(c, t)) /\ UNCHANGED mvars
  \/ part = "mutex" /\ mutex_release(t)
WaitsSpec ==
  /\ WaitsInit /\ [][WaitsNext]_waitsvars
  /\ \A t \in Threads : SF_<<wqvars, mvars>>(Returns(t)) /\ SF_<<wqvars, mvars>>(Fires(t))
  /\ \A c \in CPUs : WF_wqvars(part = "wait_queue" /\ \E t \in Threads : Client!wait_queue_timeout_handler(c, t))

(* A wait_queue_block() with a finite timeout always comes back, whoever   *)
(* else waits, wakes or times out ("this function returns ... at the end   *)
(* of the timeout period", thread.c:1115).                                 *)
FiniteBlockReturns == \A t \in Threads : call[t] = "finite" ~> call[t] = "none"
=============================================================================
