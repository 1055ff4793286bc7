----------------------------- MODULE Semaphore -----------------------------
(***************************************************************************)
(* kernel/semaphore.c over the wait queues of module WaitQueue.  posted    *)
(* and taken are history: they count the permits that went in and out.     *)
(***************************************************************************)
EXTENDS WaitQueue

CONSTANTS
  s,             \* the semaphore's wait queue, sem->wait
  InitialCount,  \* the argument of sem_init()
  MaxPosts,      \* bound on the sem_post() calls between two sem_init() calls
  SemTimeouts,   \* the timeouts callers pass to sem_timedwait()
  SemDestroyers  \* the threads that may call sem_destroy() and sem_init()

ASSUME SemQueue == s \in Queues
ASSUME InitialCountType == InitialCount \in Nat
ASSUME MaxPostsType == MaxPosts \in Nat
ASSUME SemTimeoutsType == SemTimeouts \subseteq Timeouts \cup {"zero"}

VARIABLES
  sem_count,  \* sem->count
  live,       \* FALSE from sem_destroy() to the next sem_init()
  sem_pc,     \* the call t is inside, where it gave the thread lock away; else "out"
  posted, taken

svars == <<sem_count, live, sem_pc, posted, taken>>
semvars == <<wqvars, svars>>

SemInit ==
  /\ WQInit
  /\ sem_count = InitialCount
  /\ live = TRUE
  /\ sem_pc = [t \in Threads |-> "out"]
  /\ posted = 0 /\ taken = 0

(* The test of the waits.  Mutant: the count before the decrement. *)
SemFree_old_count == sem_count >= 0
SemFree == sem_count - 1 >= 0

(* sem_wait(), sem_trywait() and sem_timedwait() when a permit is there. *)
sem_wait_free(t) ==
  /\ Running(t) /\ live
  /\ SemFree
  /\ sem_count' = sem_count - 1
  /\ taken' = taken + 1
  /\ UNCHANGED <<wqvars, live, sem_pc, posted>>

(* sem_wait() without a permit. *)
sem_wait_block(t) ==
  /\ Running(t) /\ live
  /\ ~SemFree
  /\ wait_queue_block(t, s, "infinite")
  /\ sem_count' = sem_count - 1
  /\ sem_pc' = [sem_pc EXCEPT ![t] = "sem_wait"]
  /\ UNCHANGED <<live, posted, taken>>

(* sem_timedwait() without a permit.  With timeout zero the count is put   *)
(* back in the same critical section, and the call leaves no trace, like a *)
(* sem_trywait() that finds no permit.                                     *)
sem_timedwait_block(t, timeout) ==
  /\ Running(t) /\ live
  /\ ~SemFree
  /\ \/ /\ timeout = "zero"
        /\ UNCHANGED <<wqvars, sem_count, sem_pc>>
     \/ /\ timeout # "zero"
        /\ wait_queue_block(t, s, timeout)
        /\ sem_count' = sem_count - 1
        /\ sem_pc' = [sem_pc EXCEPT ![t] = "sem_timedwait"]
  /\ UNCHANGED <<live, posted, taken>>

(* The count a wait that blocked leaves.  Mutant: sem_timedwait() backs    *)
(* out whatever the wait returned.                                         *)
SemBackout_always(t) == IF sem_pc[t] = "sem_timedwait" THEN sem_count + 1 ELSE sem_count
SemBackout(t) == IF sem_pc[t] = "sem_timedwait" /\ block_ret[t] = "ERR_TIMED_OUT" THEN sem_count + 1 ELSE sem_count

(* The rest of both, after wait_queue_block() returns: only                *)
(* sem_timedwait() backs its decrement out.                                *)
sem_wait_return(t) ==
  /\ sem_pc[t] \in {"sem_wait", "sem_timedwait"}
  /\ wait_queue_block_return(t)
  /\ sem_count' = SemBackout(t)
  /\ taken' = IF block_ret[t] = "NO_ERROR" THEN taken + 1 ELSE taken
  /\ sem_pc' = [sem_pc EXCEPT ![t] = "out"]
  /\ UNCHANGED <<live, posted>>

(* sem_post() wakes a waiter; mutant: the last one is left alone. *)
SemWakes_off_by_one == sem_count + 1 < 0
SemWakes == sem_count + 1 <= 0

(* sem_post(), from a thread or from an interrupt handler. *)
sem_post ==
  /\ live /\ CanExecute
  /\ posted < MaxPosts
  /\ sem_count' = sem_count + 1
  /\ posted' = posted + 1
  /\ IF SemWakes THEN wait_queue_wake_one(s, "NO_ERROR") ELSE UNCHANGED wqvars
  /\ UNCHANGED <<live, sem_pc, taken>>

(* sem_destroy() up to the reschedule in wait_queue_destroy(), and the     *)
(* rest, which clears sem->wait.magic.                                     *)
sem_destroy(t) ==
  /\ t \in SemDestroyers
  /\ Running(t) /\ live
  /\ sem_count' = 0
  /\ live' = FALSE
  /\ wait_queue_wake_all(s, "ERR_OBJECT_DESTROYED")
  /\ sem_pc' = [sem_pc EXCEPT ![t] = "sem_destroy"]
  /\ UNCHANGED <<posted, taken>>

sem_destroy_return(t) ==
  /\ t \in SemDestroyers
  /\ Running(t) /\ sem_pc[t] = "sem_destroy"
  /\ sem_pc' = [sem_pc EXCEPT ![t] = "out"]
  /\ UNCHANGED <<wqvars, sem_count, live, posted, taken>>

(* sem_init() of a destroyed semaphore that nobody uses any more. *)
sem_init(t) ==
  /\ t \in SemDestroyers
  /\ Running(t) /\ ~live
  /\ \A u \in Threads : sem_pc[u] = "out"
  /\ sem_count' = InitialCount
  /\ live' = TRUE
  /\ posted' = 0 /\ taken' = 0
  /\ wait' = [wait EXCEPT ![s] = <<>>]
  /\ UNCHANGED <<state, block_ret, call, timer, callback, sem_pc>>

SemNext ==
  \/ \E t \in Threads :
       \/ sem_wait_free(t)
       \/ sem_wait_block(t)
       \/ \E timeout \in SemTimeouts : sem_timedwait_block(t, timeout)
       \/ sem_wait_return(t)
       \/ sem_destroy(t) \/ sem_destroy_return(t)
       \/ sem_init(t)
  \/ sem_post
  \/ TimerStep /\ UNCHANGED svars

SemSpec == SemInit /\ [][SemNext]_semvars

(***************************************************************************)
(* Properties.                                                             *)
(***************************************************************************)
Waiting == {t \in Threads : sem_pc[t] \in {"sem_wait", "sem_timedwait"}}

(* Waiters a sem_post() has given its permit to. *)
SemGranted == {t \in Waiting : state[t] = "READY" /\ block_ret[t] = "NO_ERROR"}

(* Permits that no caller has been given: a waiter that was not granted    *)
(* one has decremented sem->count without taking any.                      *)
Available == sem_count + Cardinality(Waiting \ SemGranted)

SemTypeOK ==
  /\ WQTypeOK
  /\ sem_count \in Int
  /\ live \in BOOLEAN
  /\ sem_pc \in [Threads -> {"out", "sem_wait", "sem_timedwait", "sem_destroy"}]
  /\ posted \in Nat /\ taken \in Nat

(* Never are more callers let through than permits were put in, counting   *)
(* the ones that were granted a permit and have not run yet.               *)
NeverOverGranted ==
  live => taken + Cardinality(SemGranted) <= InitialCount + posted

(* The inductive invariant behind NeverOverGranted.  The count is not more *)
(* than the permits left for the callers inside a wait; with several CPUs  *)
(* it may be less, as a sem_wait() that timed out keeps its decrement.     *)
CountBound == live => sem_count <= InitialCount + posted - taken - Cardinality(Waiting)
SemInv == SemTypeOK /\ CountBound /\ NeverOverGranted

(* "sit in the wait queue until sem_post adds some" (semaphore.c:57):      *)
(* nobody stays blocked while a permit is available and no timed-out wait  *)
(* is about to give its count back.                                        *)
NoStrandedSemWaiter ==
  live /\ wait[s] # <<>> /\ Available > 0 => \E t \in Waiting \ SemGranted : state[t] = "READY"

AbstractSemaphore == INSTANCE FairSemaphore WITH permits <- Available, waiters <- wait[s]

(* A semaphore that is not destroyed and whose waits do not time out       *)
(* implements the fair semaphore of its documentation: a wait blocks only  *)
(* when no permit is available and sem_post() serves the longest waiter.   *)
ImplementsFairSemaphore == AbstractSemaphore!Spec
=============================================================================
