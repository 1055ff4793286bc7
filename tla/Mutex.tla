------------------------------- MODULE Mutex -------------------------------
(***************************************************************************)
(* kernel/mutex.c over the wait queues of module WaitQueue.  A critical    *)
(* section under the thread lock is one step; mutex_acquire_timeout() and  *)
(* mutex_destroy() go on in another when wait_queue_block() or             *)
(* wait_queue_destroy() gave the lock away in the middle.                  *)
(***************************************************************************)
EXTENDS WaitQueue

CONSTANTS
  m,              \* the mutex's wait queue, m->wait
  AcquireTimeouts,\* the timeouts callers pass to mutex_acquire_timeout()
  Destroyers      \* the threads that may call mutex_destroy() and mutex_init()

ASSUME MutexQueue == m \in Queues
ASSUME AcquireTimeoutsType == AcquireTimeouts \subseteq Timeouts \cup {"zero"}

VARIABLES
  count,          \* m->count
  holder,         \* m->holder
  magic,          \* m->magic = MUTEX_MAGIC
  pc              \* where t is with respect to m

mvars == <<count, holder, magic, pc>>
vars == <<wqvars, mvars>>

Init ==
  /\ WQInit
  /\ count = 0
  /\ holder = NULL
  /\ magic = TRUE
  /\ pc = [t \in Threads |-> "out"]

(* The test of mutex_acquire_timeout(): ++m->count > 1 is contention.      *)
(* Mutants: the count before the increment; the holder instead.            *)
Free_old_count == count <= 1
Free_no_holder == holder = NULL
Free == count + 1 <= 1

(* The uncontended acquire: ++m->count is 1. *)
mutex_acquire_free(t) ==
  /\ Running(t) /\ pc[t] = "out" /\ magic
  /\ Free
  /\ count' = count + 1
  /\ holder' = t
  /\ pc' = [pc EXCEPT ![t] = "held"]
  /\ UNCHANGED <<wqvars, magic>>

(* The contended acquire.  With timeout zero wait_queue_block() returns    *)
(* ERR_TIMED_OUT at once and the count is backed out in the same section.  *)
mutex_acquire_contended(t, timeout) ==
  /\ Running(t) /\ pc[t] = "out" /\ magic
  /\ ~Free
  /\ \/ /\ timeout = "zero"
        /\ UNCHANGED <<wqvars, count, pc>>
     \/ /\ timeout # "zero"
        /\ wait_queue_block(t, m, timeout)
        /\ count' = count + 1
        /\ pc' = [pc EXCEPT ![t] = "acquiring"]
  /\ UNCHANGED <<holder, magic>>

(* The count a failed acquire leaves. *)
Backout_not(t) == count   \* mutant
Backout(t) == IF block_ret[t] = "ERR_TIMED_OUT" THEN count - 1 ELSE count

(* The rest of a contended acquire, after wait_queue_block() returns. *)
mutex_acquire_return(t) ==
  /\ pc[t] = "acquiring"
  /\ wait_queue_block_return(t)
  /\ \/ /\ block_ret[t] = "NO_ERROR"
        /\ holder' = t
        /\ pc' = [pc EXCEPT ![t] = "held"]
        /\ UNCHANGED count
     \/ /\ block_ret[t] # "NO_ERROR"
        /\ count' = Backout(t)
        /\ pc' = [pc EXCEPT ![t] = "out"]
        /\ UNCHANGED holder
  /\ UNCHANGED magic

(* mutex_release() wakes a waiter; mutant: a lone waiter is left alone. *)
Wakes_off_by_one == count - 1 > 1
Wakes == count - 1 >= 1

(* What mutex_release() leaves in m->holder. *)
Released_not == holder   \* mutant
Released == NULL

mutex_release(t) ==
  /\ Running(t) /\ pc[t] = "held" /\ magic /\ holder = t
  /\ holder' = Released
  /\ count' = count - 1
  /\ IF Wakes THEN wait_queue_wake_one(m, "NO_ERROR") ELSE UNCHANGED wqvars
  /\ pc' = [pc EXCEPT ![t] = "out"]
  /\ UNCHANGED magic

(* What mutex_destroy() leaves in m->magic. *)
Destroyed == FALSE

(* mutex_destroy() of a free mutex looks at m->holder, for its panic,      *)
(* before it takes the thread lock.                                        *)
mutex_destroy_check(t) ==
  /\ t \in Destroyers
  /\ Running(t) /\ pc[t] = "out" /\ magic /\ holder = NULL
  /\ pc' = [pc EXCEPT ![t] = "destroying"]
  /\ UNCHANGED <<wqvars, count, holder, magic>>

(* The locked part up to the reschedule in wait_queue_destroy().  What the *)
(* holder itself has looked at does not change before it gets the lock.    *)
mutex_destroy(t) ==
  /\ t \in Destroyers
  /\ Running(t)
  /\ \/ pc[t] = "destroying"
     \/ pc[t] = "held" /\ magic /\ holder = t
  /\ magic' = Destroyed
  /\ count' = 0
  /\ wait_queue_wake_all(m, "ERR_OBJECT_DESTROYED")
  /\ pc' = [pc EXCEPT ![t] = "destroyed"]
  /\ UNCHANGED holder

(* The rest, once t runs again: m->wait.magic is cleared. *)
mutex_destroy_return(t) ==
  /\ t \in Destroyers
  /\ Running(t) /\ pc[t] = "destroyed"
  /\ pc' = [pc EXCEPT ![t] = "out"]
  /\ UNCHANGED <<wqvars, count, holder, magic>>

(* mutex_init() of a destroyed mutex, which nobody may be using any more. *)
mutex_init(t) ==
  /\ t \in Destroyers
  /\ Running(t) /\ ~magic
  /\ \A u \in Threads : pc[u] = "out"
  /\ magic' = TRUE
  /\ count' = 0
  /\ holder' = NULL
  /\ wait' = [wait EXCEPT ![m] = <<>>]
  /\ UNCHANGED <<state, block_ret, call, timer, callback, pc>>

Next ==
  \/ \E t \in Threads :
       \/ mutex_acquire_free(t)
       \/ \E timeout \in AcquireTimeouts : mutex_acquire_contended(t, timeout)
       \/ mutex_acquire_return(t)
       \/ mutex_release(t)
       \/ mutex_destroy_check(t) \/ mutex_destroy(t) \/ mutex_destroy_return(t)
       \/ mutex_init(t)
  \/ TimerStep /\ UNCHANGED mvars

Spec == Init /\ [][Next]_vars

(***************************************************************************)
(* Properties.                                                             *)
(***************************************************************************)
(* Threads the mutex has been handed to by mutex_release() and that have   *)
(* not run since.                                                          *)
Granted == {t \in Threads : pc[t] = "acquiring" /\ state[t] = "READY" /\ block_ret[t] = "NO_ERROR"}
Holding == {t \in Threads : pc[t] = "held"}
Owners == Holding \cup Granted

(* Every thread that m->count counts: it owns the mutex, waits for it, or  *)
(* has timed out and not yet backed its increment out.                     *)
Users == {t \in Threads : pc[t] \in {"acquiring", "held"}}

TypeOK ==
  /\ WQTypeOK
  /\ count \in Int
  /\ holder \in Threads \cup {NULL}
  /\ magic \in BOOLEAN
  /\ pc \in [Threads -> {"out", "acquiring", "held", "destroying", "destroyed"}]

(* At most one thread is between a successful mutex_acquire_timeout() and  *)
(* its mutex_release(), whatever times out or destroys the mutex meanwhile.*)
MutualExclusion == \A t, u \in Holding : t = u

(* The mutex has one owner at a time even while it is being handed over:   *)
(* between mutex_release() and the run of the woken thread m->holder is    *)
(* NULL, and nobody else may take it in that window.                       *)
SingleOwner == \A t, u \in Owners : t = u

(* m->holder, which guards the panics of acquire, release and destroy,     *)
(* names the holding thread of a live mutex and nobody else.               *)
HolderIsHolding == magic => \A t \in Threads : (holder = t) <=> (pc[t] = "held")

(* m->count of a live mutex is the number of its users: no increment is    *)
(* lost or backed out twice by a timeout, a release or a zero timeout.     *)
CountIsUsers == magic => count = Cardinality(Users)

(* Until a mutex is destroyed its waiters are woken by a release or by a   *)
(* timeout only; mutex_acquire_timeout() backs out its count for no other  *)
(* status, so any other one would leak a count.                            *)
LiveWakeStatus ==
  magic => \A t \in Threads : pc[t] = "acquiring" => block_ret[t] \in {"NO_ERROR", "ERR_TIMED_OUT"}

(* The inductive invariant behind MutualExclusion. *)
MutexInv == TypeOK /\ SingleOwner /\ HolderIsHolding /\ CountIsUsers /\ LiveWakeStatus

(* "Release the mutex. This will wake up one thread waiting on the mutex,  *)
(* if any" (mutex.h:55): nobody stays blocked on a live mutex that has no  *)
(* owner and no acquire left to run.                                       *)
NoStrandedWaiter ==
  magic /\ wait[m] # <<>> => \E t \in Users : t \in Owners \/ state[t] = "READY"

(* "Acquire the mutex, blocking until it is available" (mutex.h:47): as    *)
(* every holder releases, every acquire returns.                           *)
AcquireReturns == \A t \in Threads : pc[t] = "acquiring" ~> pc[t] # "acquiring"

Abstract == INSTANCE FairLock WITH owners <- Owners, waiters <- wait[m]

(* A mutex that is not destroyed and whose acquires do not time out        *)
(* implements the fair lock of its interface: only a thread that finds the *)
(* mutex owned waits, and mutex_release() hands it to the thread that has  *)
(* waited longest.                                                         *)
ImplementsFairLock == Abstract!Spec
=============================================================================
