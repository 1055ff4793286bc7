------------------------------- MODULE Event -------------------------------
(***************************************************************************)
(* kernel/event.c over the wait queues of module WaitQueue.  Only          *)
(* event_unsignal() changes e->signaled without the thread lock, by one    *)
(* atomic store.  A store between a load and a store of a critical section *)
(* has the effect of a store just before or just after it, so the critical *)
(* sections stay single steps.                                             *)
(*                                                                         *)
(* signals, cleared and released are history since the last event_init():  *)
(* signals that found the event unsignaled, the initial one included;      *)
(* signals that event_unsignal() withdrew; waits that returned NO_ERROR.   *)
(***************************************************************************)
EXTENDS WaitQueue

CONSTANTS
  e,               \* the event's wait queue, e->wait
  MaxSignals,      \* bound on signals between two event_init() calls
  MaxReleased,     \* bound on waits let through without blocking, likewise
  EventTimeouts,   \* the timeouts callers pass to event_wait_timeout()
  EventDestroyers  \* the threads that may call event_destroy() and event_init()

ASSUME EventQueue == e \in Queues
ASSUME BoundsType == MaxSignals \in Nat /\ MaxReleased \in Nat
ASSUME EventTimeoutsType == EventTimeouts \subseteq Timeouts \cup {"zero"}

VARIABLES
  signaled,      \* e->signaled
  autounsignal,  \* e->flags & EVENT_FLAG_AUTOUNSIGNAL
  event_magic,   \* e->magic = EVENT_MAGIC
  event_pc,      \* the call t is inside, where it gave the thread lock away; else "out"
  signals, cleared, released

evars == <<signaled, autounsignal, event_magic, event_pc, signals, cleared, released>>
eventvars == <<wqvars, evars>>

EventInit ==
  /\ WQInit
  /\ signaled \in {0, 1}
  /\ autounsignal \in BOOLEAN
  /\ event_magic = TRUE
  /\ event_pc = [t \in Threads |-> "out"]
  /\ signals = signaled /\ cleared = 0 /\ released = 0

(* What a wait that falls through leaves in e->signaled. *)
Passed == IF autounsignal THEN 0 ELSE signaled

(* event_wait_timeout() of a signaled event. *)
event_wait_pass(t) ==
  /\ Running(t) /\ event_pc[t] = "out" /\ event_magic
  /\ signaled = 1
  /\ released < MaxReleased
  /\ released' = released + 1
  /\ signaled' = Passed
  /\ UNCHANGED <<wqvars, autounsignal, event_magic, event_pc, signals, cleared>>

(* event_wait_timeout() of an unsignaled event; timeout zero returns. *)
event_wait_block(t, timeout) ==
  /\ Running(t) /\ event_pc[t] = "out" /\ event_magic
  /\ signaled = 0
  /\ \/ timeout = "zero" /\ UNCHANGED <<wqvars, event_pc>>
     \/ /\ timeout # "zero"
        /\ wait_queue_block(t, e, timeout)
        /\ event_pc' = [event_pc EXCEPT ![t] = "event_wait"]
  /\ UNCHANGED <<signaled, autounsignal, event_magic, signals, cleared, released>>

event_wait_return(t) ==
  /\ event_pc[t] = "event_wait"
  /\ wait_queue_block_return(t)
  /\ event_pc' = [event_pc EXCEPT ![t] = "out"]
  /\ released' = IF block_ret[t] = "NO_ERROR" THEN released + 1 ELSE released
  /\ UNCHANGED <<signaled, autounsignal, event_magic, signals, cleared>>

(* What an AUTOUNSIGNAL signal leaves in e->signaled, and whom it wakes;   *)
(* whom a manual one wakes.  Mutants: all of the waiters wake; only one    *)
(* does.                                                                   *)
AutoSignaled == IF wait[e] = <<>> THEN 1 ELSE 0
WakeAuto_all == wait_queue_wake_all(e, "NO_ERROR")
WakeAuto == wait_queue_wake_one(e, "NO_ERROR")
WakeManual_one == wait_queue_wake_one(e, "NO_ERROR")
WakeManual == wait_queue_wake_all(e, "NO_ERROR")

(* event_signal(), from a thread or from an interrupt handler: nothing if  *)
(* already signaled; AUTOUNSIGNAL wakes one waiter, or stays signaled if   *)
(* there is none; otherwise it stays signaled and wakes all of them.       *)
event_signal ==
  /\ event_magic /\ CanExecute
  /\ \/ /\ signaled = 1
        /\ UNCHANGED <<wqvars, signaled, signals>>
     \/ /\ signaled = 0 /\ autounsignal /\ signals < MaxSignals
        /\ WakeAuto
        /\ signaled' = AutoSignaled
        /\ signals' = signals + 1
     \/ /\ signaled = 0 /\ ~autounsignal /\ signals < MaxSignals
        /\ signaled' = 1
        /\ WakeManual
        /\ signals' = signals + 1
  /\ UNCHANGED <<autounsignal, event_magic, event_pc, cleared, released>>

(* event_unsignal(), without any lock. *)
event_unsignal ==
  /\ event_magic
  /\ signaled' = 0
  /\ cleared' = cleared + signaled
  /\ UNCHANGED <<wqvars, autounsignal, event_magic, event_pc, signals, released>>

(* event_destroy() up to the reschedule in wait_queue_destroy(), and the   *)
(* rest, which clears e->wait.magic.                                       *)
event_destroy(t) ==
  /\ t \in EventDestroyers
  /\ Running(t) /\ event_magic
  /\ event_magic' = FALSE
  /\ signaled' = 0
  /\ autounsignal' = FALSE
  /\ wait_queue_wake_all(e, "ERR_OBJECT_DESTROYED")
  /\ event_pc' = [event_pc EXCEPT ![t] = "event_destroy"]
  /\ UNCHANGED <<signals, cleared, released>>

event_destroy_return(t) ==
  /\ t \in EventDestroyers
  /\ Running(t) /\ event_pc[t] = "event_destroy"
  /\ event_pc' = [event_pc EXCEPT ![t] = "out"]
  /\ UNCHANGED <<wqvars, signaled, autounsignal, event_magic, signals, cleared, released>>

(* event_init() of a destroyed event that nobody uses any more. *)
event_init(t, initial, auto) ==
  /\ t \in EventDestroyers
  /\ Running(t) /\ ~event_magic
  /\ \A u \in Threads : event_pc[u] = "out"
  /\ event_magic' = TRUE
  /\ signaled' = initial
  /\ autounsignal' = auto
  /\ wait' = [wait EXCEPT ![e] = <<>>]
  /\ signals' = initial /\ cleared' = 0 /\ released' = 0
  /\ UNCHANGED <<state, block_ret, call, timer, callback, event_pc>>

EventNext ==
  \/ \E t \in Threads :
       \/ event_wait_pass(t)
       \/ \E timeout \in EventTimeouts : event_wait_block(t, timeout)
       \/ event_wait_return(t)
       \/ event_destroy(t) \/ event_destroy_return(t)
       \/ \E initial \in {0, 1}, auto \in BOOLEAN : event_init(t, initial, auto)
  \/ event_signal
  \/ event_unsignal
  \/ TimerStep /\ UNCHANGED evars

EventSpec == EventInit /\ [][EventNext]_eventvars

(***************************************************************************)
(* Properties.                                                             *)
(***************************************************************************)
EventTypeOK ==
  /\ WQTypeOK
  /\ signaled \in {0, 1}
  /\ autounsignal \in BOOLEAN /\ event_magic \in BOOLEAN
  /\ event_pc \in [Threads -> {"out", "event_wait", "event_destroy"}]
  /\ signals \in Nat /\ cleared \in Nat /\ released \in Nat

(* "If the event has already been signaled, this function returns          *)
(* immediately" (event.c:70), and no wakeup is lost: a signaled event has  *)
(* no waiter in its queue, however waits, timeouts, signals and unlocked   *)
(* unsignals interleave.                                                   *)
SignaledHasNoWaiter == signaled = 1 => wait[e] = <<>>

(* Waits that a signal ended and that have not returned yet. *)
EventGranted == {t \in Threads : event_pc[t] = "event_wait" /\ state[t] = "READY" /\ block_ret[t] = "NO_ERROR"}

(* "one signal releases only one thread, at which point it is              *)
(* automatically cleared" (event.c:20): with AUTOUNSIGNAL every signal is  *)
(* spent on one wait that returns NO_ERROR, withdrawn by event_unsignal(), *)
(* or still there.                                                         *)
OneSignalOneThread ==
  event_magic /\ autounsignal =>
    released + Cardinality(EventGranted) + cleared + signaled = signals
=============================================================================
