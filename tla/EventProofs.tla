---------------------------- MODULE EventProofs ----------------------------
(***************************************************************************)
(* An event loses no wakeup, and one signal of an auto-unsignal event lets *)
(* one wait through, for any number of threads and CPUs, any timeouts, and *)
(* any use of event_unsignal(), event_destroy() and event_init().          *)
(***************************************************************************)
EXTENDS Event, WaitQueueProofs, FiniteSetTheorems

(* The inductive invariant behind SignaledHasNoWaiter. *)
EventInv == EventTypeOK /\ SignaledHasNoWaiter

LEMMA InitInv == EventInit => EventInv
<1> SUFFICES ASSUME EventInit  PROVE EventInv
  OBVIOUS
<1>1. WQTypeOK
  BY DEF EventInit, WQInit, WQTypeOK, Status, Timeouts
<1>2. event_magic \in BOOLEAN
  BY Zenon DEF EventInit
<1>3. EventTypeOK
  BY <1>1, <1>2 DEF EventInit, EventTypeOK
<1>4. SignaledHasNoWaiter
  BY EventQueue DEF EventInit, WQInit, SignaledHasNoWaiter
<1> QED  BY <1>3, <1>4 DEF EventInv

(* Facts about the types, for the arithmetic of the steps below. *)
LEMMA Counters ==
  ASSUME EventInv
  PROVE  /\ signaled \in {0, 1}
         /\ signals \in Nat /\ cleared \in Nat /\ released \in Nat
         /\ wait[e] \in Seq(Threads)
BY EventQueue DEF EventInv, EventTypeOK, WQTypeOK

LEMMA WaitPassInv ==
  ASSUME EventInv, NEW t \in Threads, event_wait_pass(t)
  PROVE  EventInv'
<1>1. /\ signaled = 1 /\ released' = released + 1
      /\ signaled' = IF autounsignal THEN 0 ELSE signaled
      /\ UNCHANGED <<wqvars, autounsignal, event_magic, event_pc, signals, cleared>>
  BY DEF event_wait_pass, Passed
<1>2. EventTypeOK'
  BY <1>1 DEF EventInv, EventTypeOK, WQTypeOK, wqvars
<1>3. SignaledHasNoWaiter'
  BY <1>1 DEF EventInv, SignaledHasNoWaiter, wqvars
<1> QED  BY <1>2, <1>3 DEF EventInv

LEMMA WaitBlockInv ==
  ASSUME EventInv, NEW t \in Threads, NEW timeout \in Timeouts \cup {"zero"}, event_wait_block(t, timeout)
  PROVE  EventInv'
<1>1. /\ signaled = 0
      /\ UNCHANGED <<signaled, autounsignal, event_magic, signals, cleared, released>>
  BY DEF event_wait_block
<1>2. EventTypeOK'
  <2>1. CASE timeout = "zero"
    BY <1>1, <2>1 DEF event_wait_block, EventInv, EventTypeOK, WQTypeOK, wqvars
  <2>2. CASE timeout # "zero"
    <3>1. timeout \in Timeouts /\ wait_queue_block(t, e, timeout) /\ event_pc' = [event_pc EXCEPT ![t] = "event_wait"]
      BY <2>2 DEF event_wait_block
    <3>2. WQTypeOK'
      BY <3>1, BlockType, EventQueue DEF EventInv, EventTypeOK
    <3> QED  BY <1>1, <3>1, <3>2 DEF EventInv, EventTypeOK
  <2> QED  BY <2>1, <2>2
<1>3. SignaledHasNoWaiter'
  BY <1>1 DEF EventInv, SignaledHasNoWaiter
<1> QED  BY <1>2, <1>3 DEF EventInv

LEMMA WaitReturnInv ==
  ASSUME EventInv, NEW t \in Threads, event_wait_return(t)
  PROVE  EventInv'
<1>1. /\ wait' = wait /\ event_pc' = [event_pc EXCEPT ![t] = "out"]
      /\ released' = IF block_ret[t] = "NO_ERROR" THEN released + 1 ELSE released
      /\ UNCHANGED <<signaled, autounsignal, event_magic, signals, cleared>>
  BY DEF event_wait_return, wait_queue_block_return
<1>2. WQTypeOK'
  BY BlockReturnType DEF EventInv, EventTypeOK, event_wait_return
<1>3. EventTypeOK'
  BY <1>1, <1>2 DEF EventInv, EventTypeOK
<1>4. SignaledHasNoWaiter'
  BY <1>1 DEF EventInv, SignaledHasNoWaiter
<1> QED  BY <1>3, <1>4 DEF EventInv

(* A signal wakes one waiter or stays, and a manual one empties the queue. *)
LEMMA SignalInv ==
  ASSUME EventInv, event_signal
  PROVE  EventInv'
<1>1. UNCHANGED <<autounsignal, event_magic, event_pc, cleared, released>>
  BY DEF event_signal
<1>2. "NO_ERROR" \in Status /\ e \in Queues /\ WQTypeOK
  BY EventQueue DEF Status, EventInv, EventTypeOK
<1>3. CASE UNCHANGED <<wqvars, signaled, signals>>
  BY <1>1, <1>3 DEF EventInv, EventTypeOK, WQTypeOK, wqvars, SignaledHasNoWaiter
<1>4. CASE /\ wait_queue_wake_one(e, "NO_ERROR")
           /\ signaled' = AutoSignaled
           /\ signals' = signals + 1
  <2>1. WQTypeOK' /\ (wait[e] = <<>> => UNCHANGED wqvars)
    BY <1>2, <1>4, WakeOneType
  <2>2. EventTypeOK'
    BY <1>1, <1>4, <2>1 DEF EventInv, EventTypeOK, AutoSignaled
  <2>3. SignaledHasNoWaiter'
    BY <1>4, <2>1 DEF SignaledHasNoWaiter, AutoSignaled, wqvars
  <2> QED  BY <2>2, <2>3 DEF EventInv
<1>5. CASE /\ signaled' = 1
           /\ wait_queue_wake_all(e, "NO_ERROR")
           /\ signals' = signals + 1
  <2>1. WQTypeOK'
    BY <1>2, <1>5, WakeAllType
  <2>2. EventTypeOK'
    BY <1>1, <1>5, <2>1 DEF EventInv, EventTypeOK
  <2>3. SignaledHasNoWaiter'
    BY <1>2, <1>5 DEF SignaledHasNoWaiter, wait_queue_wake_all, WQTypeOK
  <2> QED  BY <2>2, <2>3 DEF EventInv
<1> QED  BY <1>3, <1>4, <1>5 DEF event_signal, WakeAuto, WakeManual

LEMMA UnsignalInv ==
  ASSUME EventInv, event_unsignal
  PROVE  EventInv'
<1>1. /\ signaled' = 0 /\ cleared' = cleared + signaled
      /\ UNCHANGED <<wqvars, autounsignal, event_magic, event_pc, signals, released>>
  BY DEF event_unsignal
<1>2. EventTypeOK'
  BY <1>1, Counters DEF EventInv, EventTypeOK, WQTypeOK, wqvars
<1>3. SignaledHasNoWaiter'
  BY <1>1 DEF SignaledHasNoWaiter
<1> QED  BY <1>2, <1>3 DEF EventInv

LEMMA DestroyInv ==
  ASSUME EventInv, NEW t \in Threads, event_destroy(t)
  PROVE  EventInv'
<1>1. /\ event_magic' = FALSE /\ autounsignal' = FALSE /\ signaled' = 0
      /\ event_pc' = [event_pc EXCEPT ![t] = "event_destroy"]
      /\ UNCHANGED <<signals, cleared, released>>
  BY DEF event_destroy
<1>2. WQTypeOK'
  BY WakeAllType, EventQueue DEF EventInv, EventTypeOK, event_destroy, Status
<1>3. event_magic' \in BOOLEAN /\ autounsignal' \in BOOLEAN
  BY <1>1, Zenon
<1>4. EventTypeOK'
  BY <1>1, <1>2, <1>3 DEF EventInv, EventTypeOK
<1> QED  BY <1>1, <1>4 DEF EventInv, SignaledHasNoWaiter

LEMMA DestroyReturnInv ==
  ASSUME EventInv, NEW t \in Threads, event_destroy_return(t)
  PROVE  EventInv'
BY DEF event_destroy_return, EventInv, EventTypeOK, WQTypeOK, SignaledHasNoWaiter, wqvars

LEMMA ReinitInv ==
  ASSUME EventInv, NEW t \in Threads, NEW initial \in {0, 1}, NEW auto \in BOOLEAN,
         event_init(t, initial, auto)
  PROVE  EventInv'
<1>1. /\ event_magic' = TRUE /\ autounsignal' = auto /\ signaled' = initial
      /\ signals' = initial /\ cleared' = 0 /\ released' = 0
      /\ wait' = [wait EXCEPT ![e] = <<>>]
      /\ UNCHANGED <<state, block_ret, call, timer, callback, event_pc>>
  BY DEF event_init
<1>2. event_magic' \in BOOLEAN /\ autounsignal' \in BOOLEAN
  BY <1>1, Zenon
<1>3. WQTypeOK'
  BY <1>1, EventQueue, EmptySeq DEF EventInv, EventTypeOK, WQTypeOK
<1>4. EventTypeOK'
  BY <1>1, <1>2, <1>3 DEF EventInv, EventTypeOK
<1>5. SignaledHasNoWaiter'
  BY <1>1, EventQueue DEF EventInv, EventTypeOK, WQTypeOK, SignaledHasNoWaiter
<1> QED  BY <1>4, <1>5 DEF EventInv

(* A timeout takes a thread out of a queue and puts none in. *)
LEMMA TimerStepInv ==
  ASSUME EventInv, TimerStep, UNCHANGED evars
  PROVE  EventInv'
<1>1. EventTypeOK'
  BY TimerStepType DEF EventInv, EventTypeOK, evars
<1>2. wait[e] = <<>> => wait'[e] = <<>>
  <2> SUFFICES ASSUME wait[e] = <<>>  PROVE wait'[e] = <<>>
    OBVIOUS
  <2>1. ASSUME NEW c \in CPUs, NEW t \in Threads, timer_tick(c, t)  PROVE wait'[e] = <<>>
    BY <2>1 DEF timer_tick
  <2>2. ASSUME NEW c \in CPUs, NEW t \in Threads, wait_queue_timeout_handler(c, t)
        PROVE  wait'[e] = <<>>
    <3>1. CASE unblock(t, "ERR_TIMED_OUT")
      <4>1. PICK q \in Queues : \E i \in 1..Len(wait[q]) :
              wait[q][i] = t /\ wait' = [wait EXCEPT ![q] = list_delete(@, i)]
        BY <3>1, Zenon DEF unblock
      <4>2. 1..Len(wait[e]) = {}
        BY DEF EventInv
      <4>3. q # e
        BY <4>1, <4>2
      <4> QED  BY <4>1, <4>3, EventQueue DEF EventInv, EventTypeOK, WQTypeOK
    <3>2. CASE UNCHANGED wait
      BY <3>2
    <3> QED  BY <2>2, <3>1, <3>2 DEF wait_queue_timeout_handler, thread_unblock_from_wait_queue
  <2> QED  BY <2>1, <2>2 DEF TimerStep
<1>3. SignaledHasNoWaiter'
  BY <1>2 DEF EventInv, evars, SignaledHasNoWaiter
<1> QED  BY <1>1, <1>3 DEF EventInv

(* The inductive invariant of the event. *)
THEOREM EventInvariant == EventSpec => []EventInv
<1>1. EventInv /\ [EventNext]_eventvars => EventInv'
  <2> SUFFICES ASSUME EventInv, [EventNext]_eventvars  PROVE EventInv'
    OBVIOUS
  <2>1. CASE EventNext
    <3>1. ASSUME NEW t \in Threads, NEW timeout \in EventTimeouts, event_wait_block(t, timeout)
          PROVE  EventInv'
      BY <3>1, EventTimeoutsType, WaitBlockInv
    <3> QED
      BY <2>1, <3>1, WaitPassInv, WaitReturnInv, SignalInv, UnsignalInv, DestroyInv, DestroyReturnInv,
         ReinitInv, TimerStepInv
      DEF EventNext
  <2>2. CASE UNCHANGED eventvars
    BY <2>2 DEF eventvars, wqvars, evars, EventInv, EventTypeOK, WQTypeOK, SignaledHasNoWaiter
  <2> QED  BY <2>1, <2>2
<1> QED  BY InitInv, <1>1, PTL DEF EventSpec

(* A signaled event never has a thread in its wait queue: no wakeup is     *)
(* lost between event_wait_timeout(), its timeout and event_signal().      *)
THEOREM EventSignaledHasNoWaiter == EventSpec => []SignaledHasNoWaiter
BY EventInvariant, PTL DEF EventInv
-----------------------------------------------------------------------------
(* The wait queues under the event. *)

(* Only threads inside event_wait_timeout() are on the event's queue. *)
WaitersWait == \A i \in DOMAIN wait[e] : event_pc[wait[e][i]] = "event_wait"

EventWaitInv == EventInv /\ WQSound /\ WaitersWait

(* Every step of the event keeps the queues sound and its waiters inside a *)
(* wait.  event_init() empties the queue, so it needs that nobody is on it.*)
LEMMA EventWaitStep ==
  ASSUME EventWaitInv, [EventNext]_eventvars
  PROVE  WQSound' /\ WaitersWait'
<1> USE EventQueue
<1>0. WQTypeOK /\ event_pc \in [Threads -> {"out", "event_wait", "event_destroy"}]
  BY DEF EventWaitInv, EventInv, EventTypeOK
<1>1. ASSUME UNCHANGED <<wqvars, event_pc>>  PROVE WQSound' /\ WaitersWait'
  BY <1>1 DEF EventWaitInv, WaitersWait, WQSound, WQTypeOK, LinkedIffBlocked, TimeoutPending, wqvars
<1>2. ASSUME NEW t \in Threads, NEW timeout \in EventTimeouts, event_wait_block(t, timeout)
      PROVE  WQSound' /\ WaitersWait'
  <2>1. CASE timeout = "zero"
    BY <1>1, <1>2, <2>1 DEF event_wait_block
  <2>2. CASE timeout # "zero"
    <3>1. /\ state[t] = "READY" /\ wait_queue_block(t, e, timeout) /\ timeout \in Timeouts
          /\ event_pc' = [event_pc EXCEPT ![t] = "event_wait"]
      BY <1>2, <2>2, EventTimeoutsType DEF event_wait_block, Running, CanRun
    <3>2. WQSound'
      BY <3>1, BlockSound DEF EventWaitInv
    <3>3. wait[e] \in Seq(Threads) /\ wait'[e] = Append(wait[e], t)
      BY <1>0, <3>1 DEF WQTypeOK, wait_queue_block
    <3>4. \A i \in DOMAIN wait'[e] : (i \in DOMAIN wait[e] /\ wait'[e][i] = wait[e][i]) \/ wait'[e][i] = t
      BY <3>3, AppendProperties, LenProperties
    <3>5. WaitersWait'
      BY <1>0, <3>1, <3>4, ReadyIsUnlinked DEF EventWaitInv, WaitersWait
    <3> QED  BY <3>2, <3>5
  <2> QED  BY <2>1, <2>2
<1>3. ASSUME NEW t \in Threads, event_wait_return(t)  PROVE WQSound' /\ WaitersWait'
  <2>1. WQSound'
    BY <1>3, BlockReturnSound DEF EventWaitInv, event_wait_return
  <2>2. UNCHANGED wait /\ state[t] = "READY" /\ \A u \in Threads : u # t => event_pc'[u] = event_pc[u]
    BY <1>0, <1>3 DEF event_wait_return, wait_queue_block_return, CanRun
  <2> QED  BY <2>1, <2>2, ReadyIsUnlinked DEF EventWaitInv, WaitersWait
<1>4. ASSUME NEW error \in Status, wait_queue_wake_all(e, error)  PROVE WQSound' /\ WaitersWait'
  <2>1. WQSound'
    BY <1>4, WakeAllSound DEF EventWaitInv
  <2>2. wait'[e] = <<>>
    BY <1>0, <1>4 DEF WQTypeOK, wait_queue_wake_all
  <2> QED  BY <2>1, <2>2 DEF WaitersWait
<1>5. ASSUME event_signal  PROVE WQSound' /\ WaitersWait'
  <2>1. UNCHANGED event_pc
    BY <1>5 DEF event_signal
  <2>2. CASE UNCHANGED wqvars
    BY <1>1, <2>1, <2>2
  <2>3. CASE wait_queue_wake_one(e, "NO_ERROR")
    <3>1. WQSound'
      BY <2>3, WakeOneSound DEF EventWaitInv, Status
    <3>2. \A i \in DOMAIN wait'[e] : \E j \in DOMAIN wait[e] : wait[e][j] = wait'[e][i]
      BY <1>0, <2>3, WakeOneShrinks DEF Status
    <3> QED  BY <2>1, <3>1, <3>2 DEF EventWaitInv, WaitersWait
  <2>4. CASE wait_queue_wake_all(e, "NO_ERROR")
    BY <1>4, <2>4 DEF Status
  <2> QED  BY <1>5, <2>2, <2>3, <2>4 DEF event_signal, WakeAuto, WakeManual
<1>6. ASSUME NEW t \in Threads, event_destroy(t)  PROVE WQSound' /\ WaitersWait'
  BY <1>4, <1>6 DEF event_destroy, Status
<1>7. ASSUME NEW t \in Threads, NEW initial, NEW auto, event_init(t, initial, auto)
      PROVE  WQSound' /\ WaitersWait'
  <2>1. DOMAIN wait[e] = {}
    BY <1>7, ReadyIsUnlinked DEF EventWaitInv, WaitersWait, event_init
  <2>2. wait[e] = <<>>
    BY <1>0, <2>1, NobodyLinked
  <2>3. UNCHANGED <<wqvars, event_pc>>
    BY <1>0, <1>7, <2>2 DEF event_init, WQTypeOK, wqvars
  <2> QED  BY <1>1, <2>3
<1>8. CASE TimerStep /\ UNCHANGED evars
  <2>1. WQSound'
    BY <1>8, TimerStepSound DEF EventWaitInv
  <2>2. \A i \in DOMAIN wait'[e] : \E j \in DOMAIN wait[e] : wait[e][j] = wait'[e][i]
    BY <1>0, <1>8, TimerStepShrinks
  <2> QED  BY <1>8, <2>1, <2>2 DEF EventWaitInv, WaitersWait, evars
<1>9. ASSUME (\E t \in Threads : event_wait_pass(t)) \/ event_unsignal  PROVE UNCHANGED <<wqvars, event_pc>>
  BY <1>9 DEF event_wait_pass, event_unsignal
<1>10. CASE UNCHANGED eventvars
  BY <1>1, <1>10 DEF eventvars, evars
<1>11. ASSUME NEW t \in Threads, event_destroy_return(t)  PROVE WQSound' /\ WaitersWait'
  <2>1. UNCHANGED wqvars /\ \A u \in Threads : event_pc[u] = "event_wait" => event_pc'[u] = "event_wait"
    BY <1>0, <1>11 DEF event_destroy_return
  <2>2. WQSound'
    BY <2>1 DEF EventWaitInv, WQSound, WQTypeOK, LinkedIffBlocked, TimeoutPending, wqvars
  <2>3. \A i \in DOMAIN wait[e] : wait[e][i] \in Threads
    BY <1>0 DEF WQTypeOK
  <2> QED  BY <2>1, <2>2, <2>3 DEF EventWaitInv, WaitersWait, wqvars
<1> QED  BY <1>1, <1>2, <1>3, <1>5, <1>6, <1>7, <1>8, <1>9, <1>10, <1>11 DEF EventNext

LEMMA EventWaitInvariant == EventSpec => []EventWaitInv
<1>1. EventInit => WQSound /\ WaitersWait
  <2> SUFFICES ASSUME EventInit  PROVE WQSound /\ WaitersWait
    OBVIOUS
  <2>1. WQTypeOK
    BY InitInv DEF EventInv, EventTypeOK
  <2>2. LinkedIffBlocked /\ TimeoutPending
    BY DEF EventInit, WQInit, LinkedIffBlocked, TimeoutPending
  <2>3. WaitersWait
    BY EventQueue DEF EventInit, WQInit, WaitersWait
  <2> QED  BY <2>1, <2>2, <2>3 DEF WQSound
<1>2. EventInv /\ (WQSound /\ WaitersWait) /\ [EventNext]_eventvars => (WQSound /\ WaitersWait)'
  BY EventWaitStep DEF EventWaitInv
<1> QED  BY <1>1, <1>2, EventInvariant, PTL DEF EventSpec, EventWaitInv

(* The wait queues stay sound under an event that is waited for with any   *)
(* timeouts, signaled, unsignaled, destroyed and initialised again.        *)
THEOREM EventWaitsSound == EventSpec => []WQSound
BY EventWaitInvariant, PTL DEF EventWaitInv
-----------------------------------------------------------------------------
(* The threads a signal lets through. *)

LEMMA GrantedFinite == IsFiniteSet(EventGranted) /\ Cardinality(EventGranted) \in Nat
BY ThreadsFinite, FS_Subset, FS_CardinalityType DEF EventGranted

LEMMA ReturnOneSignal ==
  ASSUME EventInv, OneSignalOneThread, NEW t \in Threads, event_wait_return(t)
  PROVE  OneSignalOneThread'
<1>1. /\ event_pc[t] = "event_wait" /\ state[t] = "READY"
      /\ event_pc' = [event_pc EXCEPT ![t] = "out"]
      /\ UNCHANGED <<state, block_ret, signaled, autounsignal, event_magic, signals, cleared>>
  BY DEF event_wait_return, wait_queue_block_return, CanRun
<1>2. EventGranted' = EventGranted \ {t}
  BY <1>1 DEF EventInv, EventTypeOK, EventGranted
<1>3. CASE block_ret[t] = "NO_ERROR"
  <2>1. t \in EventGranted
    BY <1>1, <1>3 DEF EventGranted
  <2>2. Cardinality(EventGranted') = Cardinality(EventGranted) - 1
    BY <1>2, <2>1, GrantedFinite, FS_RemoveElement, Zenon
  <2>3. released' = released + 1
    BY <1>3 DEF event_wait_return
  <2> QED  BY <1>1, <2>2, <2>3, GrantedFinite, Counters DEF OneSignalOneThread
<1>4. CASE block_ret[t] # "NO_ERROR"
  <2>1. EventGranted' = EventGranted
    BY <1>2, <1>4 DEF EventGranted
  <2>2. released' = released
    BY <1>4 DEF event_wait_return
  <2> QED  BY <1>1, <2>1, <2>2 DEF OneSignalOneThread
<1> QED  BY <1>3, <1>4

(* The waiter a signal wakes was blocked, so it is granted only now. *)
LEMMA SignalOneSignal ==
  ASSUME EventWaitInv, OneSignalOneThread, event_signal
  PROVE  OneSignalOneThread'
<1>0. EventInv /\ WQTypeOK /\ "NO_ERROR" \in Status
  BY DEF EventWaitInv, WQSound, Status
<1>1. UNCHANGED <<autounsignal, event_magic, event_pc, cleared, released>>
  BY DEF event_signal
<1>2. CASE UNCHANGED <<wqvars, signaled, signals>>
  BY <1>1, <1>2 DEF OneSignalOneThread, EventGranted, wqvars
<1>3. CASE ~autounsignal
  BY <1>1, <1>3 DEF OneSignalOneThread
<1>4. CASE /\ signaled = 0 /\ wait_queue_wake_one(e, "NO_ERROR")
           /\ signaled' = AutoSignaled /\ signals' = signals + 1
  <2>1. CASE wait[e] = <<>>
    <3>1. EventGranted' = EventGranted
      BY <1>0, <1>1, <1>4, <2>1, WakeOneType, EventQueue DEF EventGranted, wqvars
    <3>2. signaled' = 1
      BY <1>4, <2>1 DEF AutoSignaled
    <3> QED  BY <1>0, <1>1, <1>4, <3>1, <3>2, GrantedFinite, Counters DEF OneSignalOneThread
  <2>2. CASE wait[e] # <<>>
    <3>1. 1 \in DOMAIN wait[e]
      BY <1>0, <2>2, EmptySeq, LenProperties, EventQueue DEF WQTypeOK
    <3>2. PICK w \in Threads : w = wait[e][1]
      BY <1>0, <1>4, <2>2, WakeOneType, EventQueue
    <3>3. event_pc[w] = "event_wait" /\ state[w] = "BLOCKED"
      BY <3>1, <3>2, EventQueue DEF EventWaitInv, WaitersWait, WQSound, LinkedIffBlocked
    <3>4. /\ state' = [state EXCEPT ![w] = "READY"]
          /\ block_ret' = [block_ret EXCEPT ![w] = "NO_ERROR"]
      BY <1>0, <1>4, <2>2, <3>2, WakeOneType, EventQueue
    <3>5. w \notin EventGranted /\ EventGranted' = EventGranted \cup {w}
      BY <1>0, <1>1, <3>3, <3>4 DEF EventGranted, WQTypeOK
    <3>6. Cardinality(EventGranted') = Cardinality(EventGranted) + 1
      BY <3>5, GrantedFinite, FS_AddElement, Zenon
    <3>7. signaled' = 0
      BY <1>4, <2>2 DEF AutoSignaled
    <3> QED  BY <1>0, <1>1, <1>4, <3>6, <3>7, GrantedFinite, Counters DEF OneSignalOneThread
  <2> QED  BY <2>1, <2>2
<1> QED  BY <1>2, <1>3, <1>4 DEF event_signal, WakeAuto

LEMMA TimerOneSignal ==
  ASSUME EventInv, OneSignalOneThread, TimerStep, UNCHANGED evars
  PROVE  OneSignalOneThread'
<1>1. ASSUME NEW c \in CPUs, NEW t \in Threads, timer_tick(c, t)  PROVE EventGranted' = EventGranted
  BY <1>1 DEF evars, timer_tick, EventGranted
<1>2. ASSUME NEW c \in CPUs, NEW t \in Threads, wait_queue_timeout_handler(c, t)
      PROVE  EventGranted' = EventGranted
  BY <1>2 DEF EventInv, EventTypeOK, WQTypeOK, evars, wait_queue_timeout_handler,
     thread_unblock_from_wait_queue, unblock, EventGranted
<1>3. EventGranted' = EventGranted
  BY <1>1, <1>2 DEF TimerStep
<1> QED  BY <1>3 DEF OneSignalOneThread, evars

(* Every signal of an auto-unsignal event lets one wait through, is        *)
(* withdrawn by event_unsignal(), or is pending: event_wait_timeout()      *)
(* returns NO_ERROR once for a signal, however waits time out meanwhile.   *)
THEOREM EventOneSignalOneThread == EventSpec => []OneSignalOneThread
<1>1. EventInit => OneSignalOneThread
  <2> SUFFICES ASSUME EventInit  PROVE OneSignalOneThread
    OBVIOUS
  <2>1. EventGranted = {}
    BY DEF EventInit, EventGranted
  <2>2. Cardinality(EventGranted) = 0
    BY <2>1, FS_EmptySet
  <2> QED  BY <2>2 DEF EventInit, OneSignalOneThread
<1>2. EventWaitInv /\ OneSignalOneThread /\ [EventNext]_eventvars => OneSignalOneThread'
  <2> SUFFICES ASSUME EventWaitInv, OneSignalOneThread, [EventNext]_eventvars
               PROVE  OneSignalOneThread'
    OBVIOUS
  <2>0. EventInv
    BY DEF EventWaitInv
  <2>1. ASSUME NEW t \in Threads, event_wait_pass(t)  PROVE OneSignalOneThread'
    <3>1. EventGranted' = EventGranted
      BY <2>1 DEF event_wait_pass, EventGranted, wqvars
    <3>2. /\ released' = released + 1 /\ signaled = 1
          /\ UNCHANGED <<autounsignal, event_magic, signals, cleared>>
      BY <2>1 DEF event_wait_pass
    <3>3. autounsignal => signaled' = 0
      BY <2>1 DEF event_wait_pass, Passed
    <3> QED  BY <2>0, <3>1, <3>2, <3>3, GrantedFinite, Counters DEF OneSignalOneThread
  <2>2. ASSUME NEW t \in Threads, NEW timeout \in EventTimeouts, event_wait_block(t, timeout)
        PROVE  OneSignalOneThread'
    <3>1. EventGranted' = EventGranted
      BY <2>0, <2>2 DEF EventInv, EventTypeOK, WQTypeOK, event_wait_block, wait_queue_block,
         Blocked_state, EventGranted, wqvars
    <3> QED  BY <2>2, <3>1 DEF event_wait_block, OneSignalOneThread
  <2>3. ASSUME event_unsignal  PROVE OneSignalOneThread'
    <3>1. EventGranted' = EventGranted
      BY <2>3 DEF event_unsignal, EventGranted, wqvars
    <3>2. /\ signaled' = 0 /\ cleared' = cleared + signaled
          /\ UNCHANGED <<autounsignal, event_magic, signals, released>>
      BY <2>3 DEF event_unsignal
    <3> QED  BY <2>0, <3>1, <3>2, GrantedFinite, Counters DEF OneSignalOneThread
  <2>4. ASSUME NEW t \in Threads, event_destroy(t)  PROVE OneSignalOneThread'
    BY <2>4 DEF event_destroy, OneSignalOneThread
  <2>5. ASSUME NEW t \in Threads, event_destroy_return(t)  PROVE OneSignalOneThread'
    <3>1. EventGranted' = EventGranted
      BY <2>0, <2>5 DEF EventInv, EventTypeOK, event_destroy_return, EventGranted, wqvars
    <3> QED  BY <2>5, <3>1 DEF event_destroy_return, OneSignalOneThread
  <2>6. ASSUME NEW t \in Threads, NEW initial \in {0, 1}, NEW auto \in BOOLEAN, event_init(t, initial, auto)
        PROVE  OneSignalOneThread'
    <3>1. EventGranted' = {}
      BY <2>6 DEF event_init, EventGranted
    <3>2. Cardinality(EventGranted') = 0
      BY <3>1, FS_EmptySet
    <3> QED  BY <2>6, <3>2 DEF event_init, OneSignalOneThread
  <2>7. CASE UNCHANGED eventvars
    BY <2>7 DEF eventvars, wqvars, evars, OneSignalOneThread, EventGranted
  <2> QED
    BY <2>0, <2>1, <2>2, <2>3, <2>4, <2>5, <2>6, <2>7, ReturnOneSignal, SignalOneSignal, TimerOneSignal
    DEF EventNext
<1> QED  BY <1>1, <1>2, EventWaitInvariant, PTL DEF EventSpec
=============================================================================
