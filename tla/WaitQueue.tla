----------------------------- MODULE WaitQueue -----------------------------
(***************************************************************************)
(* The kernel wait queue (kernel/thread.c, "Wait Queue") as the blocking   *)
(* primitives see it.  Every operation runs with the thread lock held, so  *)
(* it is one atomic step; a call that reschedules inside (wait_queue_block)*)
(* is split at the point where the thread gives the lock away.             *)
(*                                                                         *)
(* Scheduling is abstracted: THREAD_READY and THREAD_RUNNING are both      *)
(* "READY", and any READY thread may take its next step.  Module Thread    *)
(* keeps run queues and CPUs, and is shown to implement this module.       *)
(*                                                                         *)
(* The timeout of a wait is a timer on the waiter's stack.  timer_tick()   *)
(* takes it off its queue, drops the timer lock and then calls             *)
(* wait_queue_timeout_handler(), which takes the thread lock.  Between the *)
(* two steps threads run on the other CPUs; with one CPU they do not.      *)
(***************************************************************************)
EXTENDS Integers, Sequences, FiniteSets

CONSTANTS
  Threads,     \* the threads that may block
  Queues,      \* the wait queues
  CPUs,        \* the CPUs
  NULL         \* no thread

ASSUME ThreadsFinite == IsFiniteSet(Threads)
ASSUME NullIsNoThread == NULL \notin Threads

VARIABLES
  state,       \* t->state, "READY" or "BLOCKED"
  wait,        \* wait->list of each queue, head first (wait->count is its length)
  block_ret,   \* t->wait_queue_block_ret
  call,        \* the timeout of the wait_queue_block() call t is inside, or "none"
  timer,       \* TRUE iff the timer of that call is on a timer queue
  callback     \* the thread whose timeout handler each CPU has entered and not run

wqvars == <<state, wait, block_ret, call, timer, callback>>

Timeouts == {"finite", "infinite"}   \* a zero timeout never blocks
Status == {"NO_ERROR", "ERR_TIMED_OUT", "ERR_OBJECT_DESTROYED", "ERR_THREAD_DETACHED",
           "ERR_CANCELLED"}
WakeStatus == Status \ {"ERR_TIMED_OUT"}

(* The list without its i-th node. *)
list_delete(list, i) == SubSeq(list, 1, i - 1) \o SubSeq(list, i + 1, Len(list))

(* A CPU inside a timer callback runs no thread and takes no interrupt. *)
CanExecute == \E c \in CPUs : callback[c] = NULL
CanRun(t) == state[t] = "READY" /\ CanExecute

(* t runs, and is not in the middle of a wait_queue_block() call. *)
Running(t) == CanRun(t) /\ call[t] = "none"

WQInit ==
  /\ state = [t \in Threads |-> "READY"]
  /\ wait = [q \in Queues |-> <<>>]
  /\ block_ret = [t \in Threads |-> "NO_ERROR"]
  /\ call = [t \in Threads |-> "none"]
  /\ timer = [t \in Threads |-> FALSE]
  /\ callback = [c \in CPUs |-> NULL]

(* The state t blocks in, and whether its timeout gets a timer. *)
Blocked_state_wrong == "SLEEPING"   \* mutant
Blocked_state == "BLOCKED"
Armed_never(timeout) == FALSE       \* mutant
Armed(timeout) == timeout = "finite"

(* wait_queue_block() with a nonzero timeout, up to thread_resched(). *)
wait_queue_block(t, q, timeout) ==
  /\ wait' = [wait EXCEPT ![q] = Append(@, t)]
  /\ state' = [state EXCEPT ![t] = Blocked_state]
  /\ block_ret' = [block_ret EXCEPT ![t] = "NO_ERROR"]
  /\ call' = [call EXCEPT ![t] = timeout]
  /\ timer' = [timer EXCEPT ![t] = @ \/ Armed(timeout)]
  /\ UNCHANGED callback

timer_cancel_not(t) == timer   \* mutant
timer_cancel(t) == [timer EXCEPT ![t] = FALSE]

(* The rest of wait_queue_block(), once t is scheduled again: cancel the   *)
(* timer, which has no effect on a handler that was already entered.       *)
wait_queue_block_return(t) ==
  /\ CanRun(t)
  /\ call[t] # "none"
  /\ call' = [call EXCEPT ![t] = "none"]
  /\ timer' = timer_cancel(t)
  /\ UNCHANGED <<state, wait, block_ret, callback>>

(* The waiter wait_queue_wake_one() takes off the list. *)
ToWake_last(q) == Len(wait[q])   \* mutant
ToWake(q) == 1

wait_queue_wake_one(q, error) ==
  \/ wait[q] = <<>> /\ UNCHANGED wqvars
  \/ /\ wait[q] # <<>>
     /\ wait' = [wait EXCEPT ![q] = list_delete(@, ToWake(q))]
     /\ state' = [state EXCEPT ![wait[q][ToWake(q)]] = "READY"]
     /\ block_ret' = [block_ret EXCEPT ![wait[q][ToWake(q)]] = error]
     /\ UNCHANGED <<call, timer, callback>>

wait_queue_wake_all(q, error) ==
  LET woken == {wait[q][i] : i \in DOMAIN wait[q]} IN
  /\ wait' = [wait EXCEPT ![q] = <<>>]
  /\ state' = [t \in Threads |-> IF t \in woken THEN "READY" ELSE state[t]]
  /\ block_ret' = [t \in Threads |-> IF t \in woken THEN error ELSE block_ret[t]]
  /\ UNCHANGED <<call, timer, callback>>

(* Mutant: the thread is not taken off the list. *)
unblock_still_linked(t, error) ==
  /\ wait' = wait
  /\ state' = [state EXCEPT ![t] = "READY"]
  /\ block_ret' = [block_ret EXCEPT ![t] = error]

(* thread_unblock_from_wait_queue() for a thread that is BLOCKED. *)
unblock(t, error) ==
  /\ \E q \in Queues : \E i \in 1..Len(wait[q]) :
       /\ wait[q][i] = t
       /\ wait' = [wait EXCEPT ![q] = list_delete(@, i)]
  /\ state' = [state EXCEPT ![t] = "READY"]
  /\ block_ret' = [block_ret EXCEPT ![t] = error]

(* Mutant: the status is stored before the state is looked at. *)
thread_unblock_from_wait_queue_stores_first(t, error) ==
  \/ state[t] = "BLOCKED" /\ unblock(t, error)
  \/ /\ state[t] # "BLOCKED"
     /\ block_ret' = [block_ret EXCEPT ![t] = error]
     /\ UNCHANGED <<wait, state>>

thread_unblock_from_wait_queue(t, error) ==
  \/ state[t] = "BLOCKED" /\ unblock(t, error)
  \/ state[t] # "BLOCKED" /\ UNCHANGED <<wait, state, block_ret>>

(* timer_tick() on CPU c up to the call of t's callback. *)
timer_tick(c, t) ==
  /\ timer[t]
  /\ callback[c] = NULL
  /\ timer' = [timer EXCEPT ![t] = FALSE]
  /\ callback' = [callback EXCEPT ![c] = t]
  /\ UNCHANGED <<state, wait, block_ret, call>>

wait_queue_timeout_handler(c, t) ==
  /\ callback[c] = t
  /\ callback' = [callback EXCEPT ![c] = NULL]
  /\ thread_unblock_from_wait_queue(t, "ERR_TIMED_OUT")
  /\ UNCHANGED <<call, timer>>

(* The steps of the timer interrupt, common to every client. *)
TimerStep == \E c \in CPUs, t \in Threads : timer_tick(c, t) \/ wait_queue_timeout_handler(c, t)

(***************************************************************************)
(* A wait queue with the most general client: a running thread blocks on   *)
(* any queue; a thread or an interrupt handler wakes one or all of a queue *)
(* or unblocks a given thread.                                             *)
(***************************************************************************)
Block(t) == /\ Running(t)
            /\ \E q \in Queues, timeout \in Timeouts : wait_queue_block(t, q, timeout)

WakeOne == /\ CanExecute
           /\ \E q \in Queues, error \in WakeStatus : wait_queue_wake_one(q, error)

WakeAll == /\ CanExecute
           /\ \E q \in Queues, error \in WakeStatus : wait_queue_wake_all(q, error)

Unblock == /\ CanExecute
           /\ \E t \in Threads, error \in WakeStatus : thread_unblock_from_wait_queue(t, error)
           /\ UNCHANGED <<call, timer, callback>>

(* thread_create_etc() uses t's structure for a new thread. *)
Create(t) == /\ call[t] = "none"
             /\ block_ret' = [block_ret EXCEPT ![t] = "NO_ERROR"]
             /\ UNCHANGED <<state, wait, call, timer, callback>>

WQNext ==
  \/ \E t \in Threads : Block(t) \/ wait_queue_block_return(t) \/ Create(t)
  \/ WakeOne \/ WakeAll \/ Unblock
  \/ TimerStep

WQSpec == WQInit /\ [][WQNext]_wqvars

(* Time passes, an entered handler gets the thread lock, and a READY       *)
(* thread is eventually scheduled.  The first and the last are strong      *)
(* fairness: other timers may fire again and again, but timer queues are   *)
(* ordered by expiry, and a READY thread is on a run queue and gets its    *)
(* CPU back between any two interrupts.                                    *)
TimerFairness ==
  /\ \A t \in Threads : SF_wqvars(\E c \in CPUs : timer_tick(c, t))
  /\ \A c \in CPUs : WF_wqvars(\E t \in Threads : wait_queue_timeout_handler(c, t))
WQFairness == TimerFairness /\ \A t \in Threads : SF_wqvars(wait_queue_block_return(t))
WQFairSpec == WQSpec /\ WQFairness

(***************************************************************************)
(* Properties.                                                             *)
(***************************************************************************)
WQTypeOK ==
  /\ state \in [Threads -> {"READY", "BLOCKED"}]
  /\ wait \in [Queues -> Seq(Threads)]
  /\ block_ret \in [Threads -> Status]
  /\ call \in [Threads -> Timeouts \cup {"none"}]
  /\ timer \in [Threads -> BOOLEAN]
  /\ callback \in [CPUs -> Threads \cup {NULL}]

(* A thread is BLOCKED exactly when it is linked into one wait queue, once:*)
(* queue_node is one list node shared by every queue, so a second link     *)
(* would corrupt both lists.                                               *)
LinkedIffBlocked ==
  /\ \A q \in Queues : \A i \in DOMAIN wait[q] : state[wait[q][i]] = "BLOCKED"
  /\ \A t \in Threads : state[t] = "BLOCKED" => \E q \in Queues : \E i \in DOMAIN wait[q] : wait[q][i] = t
  /\ \A p, q \in Queues : \A i \in DOMAIN wait[p] : \A j \in DOMAIN wait[q] :
       wait[p][i] = wait[q][j] => p = q /\ i = j

(* A thread blocked with a finite timeout always has a pending timer or an *)
(* entered handler: wait_queue_block() arms the timer before it gives the  *)
(* lock away and nothing else cancels it.                                  *)
TimeoutPending ==
  \A t \in Threads : state[t] = "BLOCKED" /\ call[t] = "finite" =>
    timer[t] \/ \E c \in CPUs : callback[c] = t

(* Wait queues hold exactly the blocked threads, each once, and a blocked  *)
(* thread with a finite timeout has its timer or its handler pending:      *)
(* thread.c shares one queue_node and one timer among all these lists, and *)
(* wakes, timeouts and destroys race for them.                             *)
WQSound == WQTypeOK /\ LinkedIffBlocked /\ TimeoutPending

(* A wake is final: once a waiter has been made READY the status it will   *)
(* return does not change, although its timer may fire, and its queue may  *)
(* be woken or destroyed, before it runs (thread_unblock_from_wait_queue() *)
(* looks at the state first).                                              *)
WakeIsFinal ==
  [][\A t \in Threads : call[t] # "none" /\ state[t] = "READY" /\ call'[t] = call[t] =>
       block_ret'[t] = block_ret[t] /\ state'[t] = "READY"]_wqvars

(* "If the timeout is INFINITE_TIME, this function waits indefinitely"     *)
(* (thread.c:1114): such a call never reports ERR_TIMED_OUT.               *)
InfiniteNeverTimesOut ==
  \A t \in Threads : call[t] = "infinite" => block_ret[t] # "ERR_TIMED_OUT"
=============================================================================
