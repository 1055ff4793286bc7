-------------------------- MODULE SemaphoreProofs ---------------------------
(***************************************************************************)
(* The semaphore lets no more callers through than permits were put in,    *)
(* for any number of threads, one or several CPUs, any timeouts, and any   *)
(* use of sem_destroy() and sem_init(); without finite timeouts and        *)
(* destroys it serves its callers in order.                                *)
(***************************************************************************)
EXTENDS Semaphore, WaitQueueProofs, FiniteSetTheorems

(* The sets the invariant counts are finite, before and after a step. *)
LEMMA WaitingFinite ==
  /\ IsFiniteSet(Waiting) /\ Cardinality(Waiting) \in Nat
  /\ IsFiniteSet(SemGranted) /\ Cardinality(SemGranted) \in Nat
<1>1. IsFiniteSet(Waiting)
  BY ThreadsFinite, FS_Subset DEF Waiting
<1>2. IsFiniteSet(SemGranted)
  BY <1>1, FS_Subset DEF SemGranted
<1> QED  BY <1>1, <1>2, FS_CardinalityType

LEMMA WaitingFiniteNext ==
  /\ IsFiniteSet(Waiting') /\ Cardinality(Waiting') \in Nat
  /\ IsFiniteSet(SemGranted') /\ Cardinality(SemGranted') \in Nat
<1>1. IsFiniteSet(Waiting')
  BY ThreadsFinite, FS_Subset DEF Waiting
<1>2. IsFiniteSet(SemGranted')
  BY <1>1, FS_Subset DEF SemGranted
<1> QED  BY <1>1, <1>2, FS_CardinalityType

(* What adding or removing one element does to a cardinality. *)
LEMMA AtMostOneMore ==
  ASSUME NEW S, IsFiniteSet(S), NEW x, NEW T, T \subseteq S \cup {x}
  PROVE  Cardinality(T) <= Cardinality(S) + 1
<1>0. Cardinality(S) \in Nat
  BY FS_CardinalityType
<1>1. IsFiniteSet(S \cup {x}) /\ Cardinality(S \cup {x}) <= Cardinality(S) + 1
  <2>1. CASE x \in S
    <3>1. S \cup {x} = S
      BY <2>1
    <3>2. Cardinality(S) <= Cardinality(S) + 1
      BY <1>0
    <3> QED  BY <3>1, <3>2
  <2>2. CASE x \notin S
    <3>1. IsFiniteSet(S \cup {x}) /\ Cardinality(S \cup {x}) = Cardinality(S) + 1
      BY <2>2, FS_AddElement
    <3> QED  BY <1>0, <3>1
  <2> QED  BY <2>1, <2>2
<1>2. IsFiniteSet(T) /\ Cardinality(T) <= Cardinality(S \cup {x})
  BY <1>1, FS_Subset
<1>3. Cardinality(T) \in Nat /\ Cardinality(S) \in Nat /\ Cardinality(S \cup {x}) \in Nat
  BY <1>1, <1>2, FS_CardinalityType
<1> QED  BY <1>1, <1>2, <1>3

LEMMA SemInitInv == SemInit => SemInv
<1> SUFFICES ASSUME SemInit  PROVE SemInv
  OBVIOUS
<1>1. SemTypeOK
  BY InitialCountType DEF SemInit, WQInit, SemTypeOK, WQTypeOK, Status, Timeouts
<1>2. Waiting = {} /\ SemGranted = {}
  BY DEF SemInit, Waiting, SemGranted
<1>3. Cardinality(Waiting) = 0 /\ Cardinality(SemGranted) = 0
  BY <1>2, FS_EmptySet
<1>4. sem_count = InitialCount /\ posted = 0 /\ taken = 0
  BY DEF SemInit
<1> QED  BY <1>1, <1>3, <1>4, InitialCountType DEF SemInv, CountBound, NeverOverGranted

LEMMA WaitFreeInv ==
  ASSUME SemInv, NEW t \in Threads, sem_wait_free(t)
  PROVE  SemInv'
<1>1. SemTypeOK'
  BY DEF SemInv, SemTypeOK, WQTypeOK, sem_wait_free, wqvars
<1>2. Waiting' = Waiting /\ SemGranted' = SemGranted
  BY DEF sem_wait_free, wqvars, Waiting, SemGranted
<1>3. Cardinality(SemGranted) <= Cardinality(Waiting)
  BY WaitingFinite, FS_Subset DEF SemGranted
<1>4. /\ live /\ sem_count - 1 >= 0
      /\ sem_count' = sem_count - 1 /\ taken' = taken + 1 /\ posted' = posted /\ live' = live
  BY DEF sem_wait_free, SemFree
<1>5. sem_count <= InitialCount + posted - taken - Cardinality(Waiting)
  BY <1>4 DEF SemInv, CountBound
<1>6. sem_count \in Int /\ posted \in Nat /\ taken \in Nat
  BY DEF SemInv, SemTypeOK
<1>7. Cardinality(Waiting') = Cardinality(Waiting) /\ Cardinality(SemGranted') = Cardinality(SemGranted)
  BY <1>2
<1>8. CountBound'
  BY <1>4, <1>5, <1>6, <1>7, WaitingFinite, InitialCountType DEF CountBound
<1>9. NeverOverGranted'
  BY <1>3, <1>4, <1>5, <1>6, <1>7, WaitingFinite, InitialCountType DEF NeverOverGranted
<1> QED  BY <1>1, <1>8, <1>9 DEF SemInv

(* A caller that blocks: one decrement, one more thread inside a wait. *)
LEMMA BlockInv ==
  ASSUME SemInv, NEW t \in Threads, NEW timeout \in Timeouts, NEW kind \in {"sem_wait", "sem_timedwait"},
         wait_queue_block(t, s, timeout), sem_count' = sem_count - 1,
         sem_pc' = [sem_pc EXCEPT ![t] = kind], UNCHANGED <<live, posted, taken>>
  PROVE  SemInv'
<1>1. SemTypeOK'
  BY BlockType, SemQueue DEF SemInv, SemTypeOK
<1>2. Waiting' \subseteq Waiting \cup {t}
  BY DEF SemInv, SemTypeOK, Waiting
<1>3. SemGranted' \subseteq SemGranted
  BY DEF SemInv, SemTypeOK, WQTypeOK, Waiting, SemGranted, wait_queue_block, Blocked_state
<1>4. Cardinality(Waiting') <= Cardinality(Waiting) + 1
  BY <1>2, AtMostOneMore, WaitingFinite, Zenon
<1>5. Cardinality(SemGranted') <= Cardinality(SemGranted)
  BY <1>3, FS_Subset, WaitingFinite
<1>6. sem_count \in Int /\ posted \in Nat /\ taken \in Nat
  BY DEF SemInv, SemTypeOK
<1>7. CountBound'
  BY <1>4, <1>6, WaitingFinite, WaitingFiniteNext, InitialCountType DEF SemInv, CountBound
<1>8. NeverOverGranted'
  BY <1>5, <1>6, WaitingFinite, WaitingFiniteNext, InitialCountType DEF SemInv, NeverOverGranted
<1> QED  BY <1>1, <1>7, <1>8 DEF SemInv

LEMMA TimedwaitBlockInv ==
  ASSUME SemInv, NEW t \in Threads, NEW timeout \in SemTimeouts, sem_timedwait_block(t, timeout)
  PROVE  SemInv'
<1>1. CASE timeout = "zero"
  BY <1>1 DEF sem_timedwait_block, SemInv, SemTypeOK, WQTypeOK, wqvars, CountBound, NeverOverGranted,
     Waiting, SemGranted
<1>2. CASE timeout # "zero"
  BY <1>2, BlockInv, SemTimeoutsType DEF sem_timedwait_block
<1> QED  BY <1>1, <1>2

(* A wait that returns with a permit was granted it; one that returns      *)
(* without gives back at most its own decrement.                           *)
LEMMA WaitReturnInv ==
  ASSUME SemInv, NEW t \in Threads, sem_wait_return(t)
  PROVE  SemInv'
<1>1. /\ t \in Waiting /\ state[t] = "READY"
      /\ UNCHANGED <<state, block_ret, live, posted>>
      /\ sem_pc' = [sem_pc EXCEPT ![t] = "out"]
  BY DEF sem_wait_return, wait_queue_block_return, CanRun, Waiting
<1>2. sem_count \in Int /\ posted \in Nat /\ taken \in Nat
  BY DEF SemInv, SemTypeOK
<1>3. SemTypeOK'
  BY BlockReturnType, <1>1, <1>2 DEF SemInv, SemTypeOK, sem_wait_return, SemBackout
<1>4. Waiting' = Waiting \ {t}
  BY <1>1 DEF SemInv, SemTypeOK, Waiting
<1>5. Cardinality(Waiting') = Cardinality(Waiting) - 1
  BY <1>1, <1>4, WaitingFinite, FS_RemoveElement, Zenon
<1>6. SemGranted' = SemGranted \ {t}
  BY <1>1, <1>4 DEF SemGranted
<1>7. CASE block_ret[t] = "NO_ERROR"
  <2>1. sem_count' = sem_count /\ taken' = taken + 1
    BY <1>7 DEF sem_wait_return, SemBackout
  <2>2. t \in SemGranted
    BY <1>1, <1>7 DEF SemGranted
  <2>3. Cardinality(SemGranted') = Cardinality(SemGranted) - 1
    BY <1>6, <2>2, WaitingFinite, FS_RemoveElement, Zenon
  <2>4. CountBound'
    BY <1>1, <1>2, <1>5, <2>1, WaitingFinite, InitialCountType DEF SemInv, CountBound
  <2>5. NeverOverGranted'
    BY <1>1, <1>2, <2>1, <2>3, WaitingFinite, InitialCountType DEF SemInv, NeverOverGranted
  <2> QED  BY <1>3, <2>4, <2>5 DEF SemInv
<1>8. CASE block_ret[t] # "NO_ERROR"
  <2>1. sem_count' \in Int /\ sem_count' <= sem_count + 1 /\ taken' = taken
    BY <1>2, <1>8 DEF sem_wait_return, SemBackout
  <2>2. Cardinality(SemGranted') <= Cardinality(SemGranted)
    BY <1>6, WaitingFinite, FS_Subset
  <2>3. CountBound'
    BY <1>1, <1>2, <1>5, <2>1, WaitingFinite, InitialCountType DEF SemInv, CountBound
  <2>4. NeverOverGranted'
    BY <1>1, <1>2, <2>1, <2>2, WaitingFinite, WaitingFiniteNext, InitialCountType
       DEF SemInv, NeverOverGranted
  <2> QED  BY <1>3, <2>3, <2>4 DEF SemInv
<1> QED  BY <1>7, <1>8

(* A post puts one permit in and grants at most one. *)
LEMMA PostInv ==
  ASSUME SemInv, sem_post
  PROVE  SemInv'
<1>1. /\ sem_count' = sem_count + 1 /\ posted' = posted + 1
      /\ UNCHANGED <<live, sem_pc, taken>>
  BY DEF sem_post
<1>2. sem_count \in Int /\ posted \in Nat /\ taken \in Nat
  BY DEF SemInv, SemTypeOK
<1>3. WQTypeOK' /\ \E x : SemGranted' \subseteq SemGranted \cup {x}
  <2>1. CASE UNCHANGED wqvars
    <3>1. WQTypeOK'
      BY <2>1 DEF SemInv, SemTypeOK, WQTypeOK, wqvars
    <3>2. SemGranted' \subseteq SemGranted \cup {NULL}
      BY <1>1, <2>1 DEF wqvars, Waiting, SemGranted
    <3> QED  BY <3>1, <3>2
  <2>2. CASE wait_queue_wake_one(s, "NO_ERROR") /\ wait[s] # <<>>
    <3>1. "NO_ERROR" \in Status /\ s \in Queues /\ WQTypeOK
      BY SemQueue DEF Status, SemInv, SemTypeOK
    <3>2. WQTypeOK'
      BY <2>2, <3>1, WakeOneType
    <3>3. /\ state' = [state EXCEPT ![wait[s][1]] = "READY"]
          /\ block_ret' = [block_ret EXCEPT ![wait[s][1]] = "NO_ERROR"]
      BY <2>2, <3>1, WakeOneType
    <3>4. SemGranted' \subseteq SemGranted \cup {wait[s][1]}
      BY <1>1, <3>1, <3>3 DEF WQTypeOK, Waiting, SemGranted
    <3> QED  BY <3>2, <3>4
  <2>3. UNCHANGED wqvars \/ (wait_queue_wake_one(s, "NO_ERROR") /\ wait[s] # <<>>)
    <3>1. UNCHANGED wqvars \/ wait_queue_wake_one(s, "NO_ERROR")
      BY DEF sem_post
    <3>2. "NO_ERROR" \in Status /\ s \in Queues /\ WQTypeOK
      BY SemQueue DEF Status, SemInv, SemTypeOK
    <3>3. ASSUME wait_queue_wake_one(s, "NO_ERROR"), wait[s] = <<>>  PROVE UNCHANGED wqvars
      BY <3>2, <3>3, WakeOneType
    <3> QED  BY <3>1, <3>3
  <2> QED  BY <2>1, <2>2, <2>3
<1>4. SemTypeOK'
  BY <1>1, <1>2, <1>3 DEF SemInv, SemTypeOK
<1>5. Waiting' = Waiting
  BY <1>1 DEF Waiting
<1>6. Cardinality(Waiting') = Cardinality(Waiting)
  BY <1>5
<1>7. Cardinality(SemGranted') <= Cardinality(SemGranted) + 1
  <2>1. PICK x : SemGranted' \subseteq SemGranted \cup {x}
    BY <1>3
  <2>2. IsFiniteSet(SemGranted)
    BY WaitingFinite
  <2> QED  BY <2>1, <2>2, AtMostOneMore, Zenon
<1>8. CountBound'
  BY <1>1, <1>2, <1>6, WaitingFinite, InitialCountType DEF SemInv, CountBound
<1>9. NeverOverGranted'
  BY <1>1, <1>2, <1>7, WaitingFinite, WaitingFiniteNext, InitialCountType DEF SemInv, NeverOverGranted
<1> QED  BY <1>4, <1>8, <1>9 DEF SemInv

LEMMA SemDestroyInv ==
  ASSUME SemInv, NEW t \in Threads, sem_destroy(t)
  PROVE  SemInv'
<1>1. WQTypeOK'
  BY WakeAllType, SemQueue DEF SemInv, SemTypeOK, sem_destroy, Status
<1>2. /\ live' = FALSE /\ sem_count' = 0 /\ UNCHANGED <<posted, taken>>
      /\ sem_pc' = [sem_pc EXCEPT ![t] = "sem_destroy"]
  BY DEF sem_destroy
<1>3. live' \in BOOLEAN
  BY <1>2, Zenon
<1>4. SemTypeOK'
  BY <1>1, <1>2, <1>3 DEF SemInv, SemTypeOK
<1> QED  BY <1>2, <1>4 DEF SemInv, CountBound, NeverOverGranted

LEMMA SemDestroyReturnInv ==
  ASSUME SemInv, NEW t \in Threads, sem_destroy_return(t)
  PROVE  SemInv'
<1>1. /\ UNCHANGED <<wqvars, sem_count, live, posted, taken>>
      /\ sem_pc[t] = "sem_destroy" /\ sem_pc' = [sem_pc EXCEPT ![t] = "out"]
  BY DEF sem_destroy_return
<1>2. SemTypeOK'
  BY <1>1 DEF SemInv, SemTypeOK, WQTypeOK, wqvars
<1>3. Waiting' = Waiting
  BY <1>1 DEF SemInv, SemTypeOK, Waiting
<1>4. SemGranted' = SemGranted
  BY <1>1, <1>3 DEF SemGranted, wqvars
<1> QED  BY <1>1, <1>2, <1>3, <1>4 DEF SemInv, CountBound, NeverOverGranted

LEMMA SemReinitInv ==
  ASSUME SemInv, NEW t \in Threads, sem_init(t)
  PROVE  SemInv'
<1>1. SemTypeOK'
  BY SemQueue, InitialCountType, EmptySeq DEF SemInv, SemTypeOK, WQTypeOK, sem_init
<1>2. Waiting' = {} /\ SemGranted' = {}
  BY Zenon DEF sem_init, Waiting, SemGranted
<1>3. Cardinality(Waiting') = 0 /\ Cardinality(SemGranted') = 0
  BY <1>2, FS_EmptySet
<1>4. sem_count' = InitialCount /\ posted' = 0 /\ taken' = 0
  BY DEF sem_init
<1> QED  BY <1>1, <1>3, <1>4, InitialCountType DEF SemInv, CountBound, NeverOverGranted

(* A timeout grants nothing. *)
LEMMA SemTimerStepInv ==
  ASSUME SemInv, TimerStep, UNCHANGED svars
  PROVE  SemInv'
<1>1. SemTypeOK'
  BY TimerStepType DEF SemInv, SemTypeOK, svars
<1>2. ASSUME NEW c \in CPUs, NEW t \in Threads, timer_tick(c, t)
      PROVE  SemGranted' \subseteq SemGranted
  BY <1>2 DEF svars, timer_tick, Waiting, SemGranted
<1>3. ASSUME NEW c \in CPUs, NEW t \in Threads, wait_queue_timeout_handler(c, t)
      PROVE  SemGranted' \subseteq SemGranted
  BY <1>3 DEF SemInv, SemTypeOK, WQTypeOK, svars, wait_queue_timeout_handler,
     thread_unblock_from_wait_queue, unblock, Waiting, SemGranted
<1>4. SemGranted' \subseteq SemGranted
  BY <1>2, <1>3 DEF TimerStep
<1>5. Cardinality(SemGranted') <= Cardinality(SemGranted)
  BY <1>4, WaitingFinite, FS_Subset
<1>6. CountBound'
  BY DEF SemInv, svars, CountBound, Waiting
<1>7. posted \in Nat /\ taken \in Nat /\ UNCHANGED <<live, posted, taken>>
  BY DEF SemInv, SemTypeOK, svars
<1>8. NeverOverGranted'
  BY <1>5, <1>7, WaitingFinite, WaitingFiniteNext, InitialCountType DEF SemInv, NeverOverGranted
<1> QED  BY <1>1, <1>6, <1>8 DEF SemInv

(* The inductive invariant of the semaphore: types, the bound on           *)
(* sem->count, and the bound on what was granted.                          *)
THEOREM SemaphoreInvariant == SemSpec => []SemInv
<1>1. SemInv /\ [SemNext]_semvars => SemInv'
  <2> SUFFICES ASSUME SemInv, [SemNext]_semvars  PROVE SemInv'
    OBVIOUS
  <2>1. ASSUME NEW t \in Threads, sem_wait_block(t)  PROVE SemInv'
    BY <2>1, BlockInv, Zenon DEF sem_wait_block, Timeouts
  <2>2. CASE SemNext
    BY <2>1, <2>2, WaitFreeInv, TimedwaitBlockInv, WaitReturnInv, PostInv, SemDestroyInv,
       SemDestroyReturnInv, SemReinitInv, SemTimerStepInv DEF SemNext
  <2>3. CASE UNCHANGED semvars
    BY <2>3 DEF semvars, wqvars, svars, SemInv, SemTypeOK, WQTypeOK, CountBound, NeverOverGranted,
       Waiting, SemGranted
  <2> QED  BY <2>2, <2>3
<1> QED  BY SemInitInv, <1>1, PTL DEF SemSpec

(* Never are more waits granted a permit than permits were put in by       *)
(* sem_init() and sem_post(), on any number of CPUs.                       *)
THEOREM SemaphoreNeverOverGranted == SemSpec => []NeverOverGranted
BY SemaphoreInvariant, PTL DEF SemInv

(* sem->count of a live semaphore is at most what is left of the permits   *)
(* once every caller inside a wait is served, whatever times out.          *)
THEOREM SemaphoreCountBound == SemSpec => []CountBound
BY SemaphoreInvariant, PTL DEF SemInv
-----------------------------------------------------------------------------
(* The wait queues under the semaphore. *)

(* Only threads inside a wait are on the semaphore's queue. *)
WaitersInside == \A i \in DOMAIN wait[s] : sem_pc[wait[s][i]] \in {"sem_wait", "sem_timedwait"}

SemWaitInv == SemInv /\ WQSound /\ WaitersInside

(* A thread that joins the queue is inside a wait from then on. *)
LEMMA BlockInside ==
  ASSUME SemWaitInv, NEW t \in Threads, NEW timeout \in Timeouts, NEW kind \in {"sem_wait", "sem_timedwait"},
         state[t] = "READY", wait_queue_block(t, s, timeout), sem_pc' = [sem_pc EXCEPT ![t] = kind]
  PROVE  WQSound' /\ WaitersInside'
<1>1. WQSound'
  BY SemQueue, BlockSound DEF SemWaitInv
<1>2. wait[s] \in Seq(Threads) /\ wait'[s] = Append(wait[s], t)
  BY SemQueue DEF SemWaitInv, WQSound, WQTypeOK, wait_queue_block
<1>3. \A i \in DOMAIN wait'[s] : (i \in DOMAIN wait[s] /\ wait'[s][i] = wait[s][i]) \/ wait'[s][i] = t
  <2>1. PICK q, p : q \in Seq(Threads) /\ q = wait[s] /\ p = wait'[s] /\ p = Append(q, t)
    BY <1>2, Zenon
  <2>2. /\ p \in Seq(Threads) /\ Len(p) = Len(q) + 1 /\ p[Len(q) + 1] = t
        /\ \A i \in 1..Len(q) : p[i] = q[i]
    BY <2>1, AppendProperties
  <2>3. Len(q) \in Nat /\ DOMAIN q = 1..Len(q) /\ DOMAIN p = 1..Len(p)
    BY <2>2, LenProperties
  <2>4. \A i \in 1..(Len(q) + 1) : i \in 1..Len(q) \/ i = Len(q) + 1
    BY <2>3
  <2> QED  BY <2>1, <2>2, <2>3, <2>4, Zenon
<1>4. WaitersInside'
  <2> SUFFICES ASSUME NEW i \in DOMAIN wait'[s]  PROVE sem_pc'[wait'[s][i]] \in {"sem_wait", "sem_timedwait"}
    BY DEF WaitersInside
  <2>1. sem_pc \in [Threads -> {"out", "sem_wait", "sem_timedwait", "sem_destroy"}]
    BY DEF SemWaitInv, SemInv, SemTypeOK
  <2>2. CASE i \in DOMAIN wait[s] /\ wait'[s][i] = wait[s][i]
    <3>1. PICK u : u = wait[s][i]
      OBVIOUS
    <3>2. u \in Threads /\ sem_pc[u] \in {"sem_wait", "sem_timedwait"}
      BY <2>2, <3>1, ReadyIsUnlinked, SemQueue DEF SemWaitInv, WaitersInside
    <3> QED  BY <2>1, <2>2, <3>1, <3>2
  <2>3. CASE wait'[s][i] = t
    BY <2>1, <2>3
  <2> QED  BY <1>3, <2>2, <2>3
<1> QED  BY <1>1, <1>4

(* Every step of the semaphore keeps the queues sound and its waiters      *)
(* inside a wait.  sem_init() empties the queue, so it needs that nobody   *)
(* is on it.                                                               *)
LEMMA SemWaitStep ==
  ASSUME SemWaitInv, [SemNext]_semvars
  PROVE  WQSound' /\ WaitersInside'
<1> USE SemQueue
<1>0. WQTypeOK /\ sem_pc \in [Threads -> {"out", "sem_wait", "sem_timedwait", "sem_destroy"}]
  BY DEF SemWaitInv, SemInv, SemTypeOK
<1>1. ASSUME UNCHANGED <<wqvars, sem_pc>>  PROVE WQSound' /\ WaitersInside'
  <2>1. WQSound'
    <3>1. WQSound /\ UNCHANGED <<state, wait, block_ret, call, timer, callback>>
      BY <1>1 DEF SemWaitInv, wqvars
    <3>2. WQTypeOK'
      BY <3>1 DEF WQSound, WQTypeOK
    <3>3. LinkedIffBlocked'
      BY <3>1 DEF WQSound, LinkedIffBlocked
    <3>4. TimeoutPending'
      BY <3>1, Zenon DEF WQSound, TimeoutPending
    <3> QED  BY <3>2, <3>3, <3>4, Zenon DEF WQSound
  <2>2. WaitersInside'
    BY <1>1 DEF SemWaitInv, WaitersInside, wqvars
  <2> QED  BY <2>1, <2>2
<1>2. ASSUME NEW t \in Threads, sem_wait_block(t)  PROVE WQSound' /\ WaitersInside'
  BY <1>2, BlockInside, Zenon DEF sem_wait_block, Running, CanRun, Timeouts
<1>3. ASSUME NEW t \in Threads, NEW timeout \in SemTimeouts, sem_timedwait_block(t, timeout)
      PROVE  WQSound' /\ WaitersInside'
  <2>1. CASE timeout = "zero"
    BY <1>1, <1>3, <2>1 DEF sem_timedwait_block
  <2>2. CASE timeout # "zero"
    BY <1>3, <2>2, BlockInside, SemTimeoutsType DEF sem_timedwait_block, Running, CanRun
  <2> QED  BY <2>1, <2>2
<1>4. ASSUME NEW t \in Threads, sem_wait_return(t)  PROVE WQSound' /\ WaitersInside'
  <2>1. WQSound'
    BY <1>4, BlockReturnSound DEF SemWaitInv, sem_wait_return
  <2>2. UNCHANGED wait /\ state[t] = "READY" /\ \A u \in Threads : u # t => sem_pc'[u] = sem_pc[u]
    BY <1>0, <1>4 DEF sem_wait_return, wait_queue_block_return, CanRun
  <2> QED  BY <2>1, <2>2, ReadyIsUnlinked DEF SemWaitInv, WaitersInside
<1>5. ASSUME sem_post  PROVE WQSound' /\ WaitersInside'
  <2>1. UNCHANGED sem_pc
    BY <1>5 DEF sem_post
  <2>2. CASE UNCHANGED wqvars
    BY <1>1, <2>1, <2>2
  <2>3. CASE wait_queue_wake_one(s, "NO_ERROR")
    <3>1. WQSound'
      BY <2>3, WakeOneSound DEF SemWaitInv, Status
    <3>2. \A i \in DOMAIN wait'[s] : \E j \in DOMAIN wait[s] : wait[s][j] = wait'[s][i]
      BY <1>0, <2>3, WakeOneShrinks DEF Status
    <3> QED  BY <2>1, <3>1, <3>2 DEF SemWaitInv, WaitersInside
  <2> QED  BY <1>5, <2>2, <2>3 DEF sem_post
<1>6. ASSUME NEW t \in Threads, sem_destroy(t)  PROVE WQSound' /\ WaitersInside'
  <2>1. wait_queue_wake_all(s, "ERR_OBJECT_DESTROYED")
    BY <1>6 DEF sem_destroy
  <2>2. WQSound'
    BY <2>1, WakeAllSound DEF SemWaitInv, Status
  <2>3. wait'[s] = <<>>
    BY <1>0, <2>1 DEF WQTypeOK, wait_queue_wake_all
  <2> QED  BY <2>2, <2>3 DEF WaitersInside
<1>7. ASSUME NEW t \in Threads, sem_init(t)  PROVE WQSound' /\ WaitersInside'
  <2>1. DOMAIN wait[s] = {}
    BY <1>7, ReadyIsUnlinked DEF SemWaitInv, WaitersInside, sem_init
  <2>2. wait[s] = <<>>
    BY <1>0, <2>1, NobodyLinked
  <2>3. UNCHANGED <<wqvars, sem_pc>>
    BY <1>0, <1>7, <2>2 DEF sem_init, WQTypeOK, wqvars
  <2> QED  BY <1>1, <2>3
<1>8. CASE TimerStep /\ UNCHANGED svars
  <2>1. WQSound'
    BY <1>8, TimerStepSound DEF SemWaitInv
  <2>2. \A i \in DOMAIN wait'[s] : \E j \in DOMAIN wait[s] : wait[s][j] = wait'[s][i]
    BY <1>0, <1>8, TimerStepShrinks
  <2> QED  BY <1>8, <2>1, <2>2 DEF SemWaitInv, WaitersInside, svars
<1>9. ASSUME NEW t \in Threads, sem_wait_free(t)  PROVE UNCHANGED <<wqvars, sem_pc>>
  BY <1>9 DEF sem_wait_free
<1>10. CASE UNCHANGED semvars
  BY <1>1, <1>10 DEF semvars, svars
<1>11. ASSUME NEW t \in Threads, sem_destroy_return(t)  PROVE WQSound' /\ WaitersInside'
  <2>1. UNCHANGED wqvars /\ \A u \in Threads : sem_pc[u] # "sem_destroy" => sem_pc'[u] = sem_pc[u]
    BY <1>0, <1>11 DEF sem_destroy_return
  <2>2. WQSound'
    <3>1. WQTypeOK /\ LinkedIffBlocked /\ TimeoutPending
      BY DEF SemWaitInv, WQSound
    <3>2. WQTypeOK'
      BY <2>1, <3>1 DEF WQTypeOK, wqvars
    <3>3. LinkedIffBlocked' /\ TimeoutPending'
      BY <2>1, <3>1 DEF LinkedIffBlocked, TimeoutPending, wqvars
    <3> QED  BY <3>2, <3>3 DEF WQSound
  <2>3. \A i \in DOMAIN wait[s] : wait[s][i] \in Threads
    BY <1>0 DEF WQTypeOK
  <2> QED  BY <2>1, <2>2, <2>3 DEF SemWaitInv, WaitersInside, wqvars
<1> QED  BY <1>1, <1>2, <1>3, <1>4, <1>5, <1>6, <1>7, <1>8, <1>9, <1>10, <1>11 DEF SemNext

LEMMA SemWaitInit == SemInit => WQSound /\ WaitersInside
<1> SUFFICES ASSUME SemInit  PROVE WQSound /\ WaitersInside
  OBVIOUS
<1>1. WQTypeOK
  BY SemInitInv DEF SemInv, SemTypeOK
<1>2. LinkedIffBlocked /\ TimeoutPending
  BY DEF SemInit, WQInit, LinkedIffBlocked, TimeoutPending
<1>3. WaitersInside
  BY SemQueue DEF SemInit, WQInit, WaitersInside
<1> QED  BY <1>1, <1>2, <1>3 DEF WQSound

(* The wait queues stay sound under a semaphore that is waited for with    *)
(* any timeouts, posted, destroyed and initialised again.                  *)
THEOREM SemaphoreWaitsSound == SemSpec => []WQSound
<1>1. SemInv /\ (WQSound /\ WaitersInside) /\ [SemNext]_semvars => (WQSound /\ WaitersInside)'
  BY SemWaitStep DEF SemWaitInv
<1> QED  BY <1>1, SemWaitInit, SemaphoreInvariant, PTL DEF SemSpec
-----------------------------------------------------------------------------
(* The fair semaphore.  Without finite timeouts no timer is ever armed,    *)
(* and a waiter without a permit is one that is on the queue.              *)
Ungranted == Waiting \ SemGranted

SemFairInv ==
  /\ SemWaitInv
  /\ live
  /\ \A t \in Threads : timer[t] = FALSE
  /\ \A c \in CPUs : callback[c] = NULL
  /\ \A t \in Threads : sem_pc[t] \in {"sem_wait", "sem_timedwait"} => block_ret[t] = "NO_ERROR" /\ call[t] # "none"
  /\ \A q \in Queues : q # s => wait[q] = <<>>
  /\ Available >= 0
  /\ wait[s] # <<>> => Available = 0

(* Who has no permit yet is BLOCKED. *)
LEMMA UngrantedIsBlocked ==
  ASSUME SemFairInv
  PROVE  /\ Ungranted = {t \in Threads : sem_pc[t] \in {"sem_wait", "sem_timedwait"} /\ state[t] = "BLOCKED"}
         /\ IsFiniteSet(Ungranted) /\ Cardinality(Ungranted) \in Nat
         /\ sem_count \in Int /\ Available = sem_count + Cardinality(Ungranted)
<1>1. Ungranted = {t \in Threads : sem_pc[t] \in {"sem_wait", "sem_timedwait"} /\ state[t] = "BLOCKED"}
  BY DEF SemFairInv, SemWaitInv, WQSound, WQTypeOK, Ungranted, Waiting, SemGranted
<1>2. IsFiniteSet(Ungranted)
  BY WaitingFinite, FS_Subset DEF Ungranted
<1> QED  BY <1>1, <1>2, FS_CardinalityType DEF Available, Ungranted, SemFairInv, SemWaitInv, SemInv, SemTypeOK

(* Nobody on the queue, nobody without a permit. *)
LEMMA EmptyQueue ==
  ASSUME SemFairInv, wait[s] = <<>>
  PROVE  Available = sem_count
<1>1. ASSUME NEW t \in Ungranted  PROVE FALSE
  <2>1. t \in Threads /\ state[t] = "BLOCKED"
    BY UngrantedIsBlocked
  <2>2. PICK q \in Queues : \E i \in DOMAIN wait[q] : wait[q][i] = t
    BY <2>1 DEF SemFairInv, SemWaitInv, WQSound, LinkedIffBlocked
  <2>3. wait[q] = <<>>
    BY DEF SemFairInv
  <2> QED  BY <2>2, <2>3
<1>2. Cardinality(Ungranted) = 0
  BY <1>1, FS_EmptySet
<1> QED  BY <1>2, UngrantedIsBlocked

(* The head of the queue has no permit yet. *)
LEMMA HeadIsUngranted ==
  ASSUME SemFairInv, wait[s] # <<>>
  PROVE  /\ wait[s] \in Seq(Threads) /\ 1 \in 1..Len(wait[s])
         /\ wait[s][1] \in Threads /\ wait[s][1] \in Ungranted
<1>1. wait[s] \in Seq(Threads) /\ 1 \in 1..Len(wait[s]) /\ 1 \in DOMAIN wait[s]
  BY SemQueue, EmptySeq, LenProperties DEF SemFairInv, SemWaitInv, WQSound, WQTypeOK
<1>2. wait[s][1] \in Threads /\ state[wait[s][1]] = "BLOCKED" /\ sem_pc[wait[s][1]] \in {"sem_wait", "sem_timedwait"}
  BY <1>1, SemQueue, ReadyIsUnlinked DEF SemFairInv, SemWaitInv, WaitersInside
<1> QED  BY <1>1, <1>2, UngrantedIsBlocked

(* Each step of the semaphore is a step of the fair semaphore, or none. *)
LEMMA FreeIsTake ==
  ASSUME SemFairInv, NEW t \in Threads, sem_wait_free(t)
  PROVE  AbstractSemaphore!Take /\ SemFairInv'
<1>0. SemWaitInv'
  BY WaitFreeInv, SemWaitStep DEF SemFairInv, SemWaitInv, SemNext
<1>1. /\ sem_count - 1 >= 0 /\ sem_count' = sem_count - 1
      /\ UNCHANGED <<wqvars, live, sem_pc>>
  BY DEF sem_wait_free, SemFree
<1>2. Ungranted' = Ungranted
  BY <1>1 DEF Ungranted, Waiting, SemGranted, wqvars
<1>3. Available' = sem_count' + Cardinality(Ungranted')
  BY DEF Available, Ungranted
<1>4. Available > 0 /\ Available' = Available - 1 /\ Available \in Int
  BY <1>1, <1>2, <1>3, UngrantedIsBlocked
<1>5. wait[s] = <<>>
  BY <1>4 DEF SemFairInv
<1>6. AbstractSemaphore!Take
  BY <1>1, <1>4, <1>5 DEF AbstractSemaphore!Take, wqvars
<1>7. Available' >= 0
  BY <1>4
<1> QED  BY <1>0, <1>1, <1>5, <1>6, <1>7 DEF SemFairInv, wqvars

LEMMA BlockIsRequest ==
  ASSUME SemFairInv, SemWaitInv', NEW t \in Threads, NEW kind \in {"sem_wait", "sem_timedwait"},
         Running(t), ~SemFree, wait_queue_block(t, s, "infinite"), sem_count' = sem_count - 1,
         sem_pc' = [sem_pc EXCEPT ![t] = kind], UNCHANGED live
  PROVE  AbstractSemaphore!Request(t) /\ SemFairInv'
<1>0. /\ WQTypeOK /\ sem_pc \in [Threads -> {"out", "sem_wait", "sem_timedwait", "sem_destroy"}]
      /\ sem_count \in Int
  BY Zenon DEF SemFairInv, SemWaitInv, SemInv, SemTypeOK
<1>1. sem_pc[t] \notin {"sem_wait", "sem_timedwait"} /\ state[t] = "READY"
  BY DEF SemFairInv, Running, CanRun
<1>2. Available = 0
  <2>1. CASE wait[s] = <<>>
    <3>1. Available = sem_count
      BY <2>1, EmptyQueue
    <3>2. Available >= 0
      BY DEF SemFairInv
    <3>3. sem_count <= 0
      BY <1>0 DEF SemFree
    <3> QED  BY <1>0, <3>1, <3>2, <3>3
  <2>2. CASE wait[s] # <<>>
    BY <2>2 DEF SemFairInv
  <2> QED  BY <2>1, <2>2
<1>3. /\ wait'[s] = Append(wait[s], t) /\ \A q \in Queues : q # s => wait'[q] = wait[q]
      /\ state' = [state EXCEPT ![t] = "BLOCKED"]
      /\ block_ret' = [block_ret EXCEPT ![t] = "NO_ERROR"]
      /\ call' = [call EXCEPT ![t] = "infinite"]
      /\ UNCHANGED callback
  BY <1>0, SemQueue DEF WQTypeOK, wait_queue_block, Blocked_state
<1>4. \A u \in Threads : timer'[u] = FALSE
  BY <1>0 DEF SemFairInv, WQTypeOK, wait_queue_block, Armed
<1>5. \A u \in Threads : sem_pc'[u] \in {"sem_wait", "sem_timedwait"} => block_ret'[u] = "NO_ERROR" /\ call'[u] # "none"
  BY <1>0, <1>3 DEF SemFairInv, WQTypeOK
<1>6. Ungranted' = Ungranted \cup {t} /\ t \notin Ungranted
  BY <1>0, <1>1, <1>3 DEF WQTypeOK, Ungranted, Waiting, SemGranted
<1>7. Cardinality(Ungranted') = Cardinality(Ungranted) + 1
  BY <1>6, UngrantedIsBlocked, FS_AddElement, Zenon
<1>8. Available' = 0
  <2>1. Available' = sem_count' + Cardinality(Ungranted')
    BY DEF Available, Ungranted
  <2> QED  BY <1>2, <1>7, <2>1, UngrantedIsBlocked
<1>9. AbstractSemaphore!Request(t)
  BY <1>2, <1>3, <1>8 DEF AbstractSemaphore!Request
<1>10. Available' >= 0
  BY <1>8
<1> QED  BY <1>3, <1>4, <1>5, <1>8, <1>9, <1>10 DEF SemFairInv

LEMMA WaitReturnIsStutter ==
  ASSUME SemFairInv, NEW t \in Threads, sem_wait_return(t)
  PROVE  UNCHANGED <<Available, wait[s]>> /\ SemFairInv'
<1>0. /\ SemWaitInv' /\ WQTypeOK /\ sem_pc \in [Threads -> {"out", "sem_wait", "sem_timedwait", "sem_destroy"}]
  BY WaitReturnInv, SemWaitStep, Zenon DEF SemFairInv, SemWaitInv, SemNext, SemInv, SemTypeOK
<1>1. /\ sem_pc[t] \in {"sem_wait", "sem_timedwait"} /\ state[t] = "READY" /\ block_ret[t] = "NO_ERROR"
      /\ sem_pc' = [sem_pc EXCEPT ![t] = "out"]
      /\ call' = [call EXCEPT ![t] = "none"]
      /\ timer' = [timer EXCEPT ![t] = FALSE]
      /\ UNCHANGED <<state, wait, block_ret, callback, live>>
  BY Zenon DEF SemFairInv, sem_wait_return, wait_queue_block_return, CanRun, timer_cancel
<1>2. sem_count' = sem_count
  BY <1>1 DEF sem_wait_return, SemBackout
<1>3. Ungranted' = Ungranted
  BY <1>0, <1>1 DEF Ungranted, Waiting, SemGranted
<1>4. Available' = Available
  BY <1>2, <1>3 DEF Available, Ungranted
<1>5. \A u \in Threads : /\ timer'[u] = FALSE
                         /\ sem_pc'[u] \in {"sem_wait", "sem_timedwait"} => block_ret'[u] = "NO_ERROR" /\ call'[u] # "none"
  BY <1>0, <1>1 DEF SemFairInv, WQTypeOK
<1> QED  BY <1>0, <1>1, <1>4, <1>5 DEF SemFairInv
LEMMA PostIsPost ==
  ASSUME SemFairInv, sem_post
  PROVE  AbstractSemaphore!Post /\ SemFairInv'
<1>0. SemWaitInv' /\ WQTypeOK
  BY PostInv, SemWaitStep, Zenon DEF SemFairInv, SemWaitInv, SemNext, WQSound
<1>1. sem_count' = sem_count + 1 /\ UNCHANGED <<live, sem_pc>>
  BY DEF sem_post
<1>2. Available' = sem_count' + Cardinality(Ungranted')
  BY DEF Available, Ungranted
<1>3. CASE wait[s] = <<>>
  <2>1. UNCHANGED wqvars
    BY <1>3 DEF sem_post, wait_queue_wake_one
  <2>2. Ungranted' = Ungranted
    BY <1>1, <2>1 DEF Ungranted, Waiting, SemGranted, wqvars
  <2>3. Available' = Available + 1 /\ Available \in Int
    BY <1>1, <1>2, <2>2, UngrantedIsBlocked
  <2>4. Available >= 0
    BY DEF SemFairInv
  <2>5. Available' >= 0
    BY <2>3, <2>4
  <2>6. AbstractSemaphore!Post
    BY <1>3, <2>1, <2>3 DEF AbstractSemaphore!Post, wqvars
  <2> QED  BY <1>0, <1>1, <1>3, <2>1, <2>5, <2>6 DEF SemFairInv, wqvars
<1>4. CASE wait[s] # <<>>
  <2> DEFINE w == wait[s][1]
  <2>1. w \in Threads /\ w \in Ungranted
    BY <1>4, HeadIsUngranted
  <2>2. Cardinality(Ungranted \ {w}) = Cardinality(Ungranted) - 1 /\ Cardinality(Ungranted \ {w}) \in Nat
    BY <2>1, UngrantedIsBlocked, FS_RemoveElement, FS_CardinalityType
  <2>3. Available = 0
    BY <1>4 DEF SemFairInv
  <2>4. SemWakes
    BY <2>2, <2>3, UngrantedIsBlocked DEF SemWakes
  <2>5. /\ wait' = [wait EXCEPT ![s] = list_delete(wait[s], 1)]
        /\ state' = [state EXCEPT ![w] = "READY"]
        /\ block_ret' = [block_ret EXCEPT ![w] = "NO_ERROR"]
        /\ UNCHANGED <<call, timer, callback>>
    BY <1>4, <2>4 DEF sem_post, wait_queue_wake_one, ToWake
  <2>6. wait'[s] = Tail(wait[s]) /\ \A q \in Queues : q # s => wait'[q] = wait[q]
    <3>1. wait[s] \in Seq(Threads) /\ 1 \in 1..Len(wait[s])
      BY <1>4, HeadIsUngranted
    <3>2. list_delete(wait[s], 1) = Tail(wait[s])
      BY <3>1, DeleteHead, Zenon
    <3> QED  BY <1>0, <2>5, <3>2, SemQueue DEF WQTypeOK
  <2>7. Ungranted' = Ungranted \ {w}
    BY <1>0, <1>1, <2>1, <2>5 DEF WQTypeOK, Ungranted, Waiting, SemGranted
  <2>8. Available' = 0
    BY <1>1, <1>2, <2>2, <2>3, <2>7, UngrantedIsBlocked
  <2>9. AbstractSemaphore!Post
    BY <1>4, <2>3, <2>6, <2>8 DEF AbstractSemaphore!Post
  <2>10. \A u \in Threads : sem_pc'[u] \in {"sem_wait", "sem_timedwait"} => block_ret'[u] = "NO_ERROR" /\ call'[u] # "none"
    BY <1>0, <1>1, <2>5 DEF SemFairInv, WQTypeOK
  <2>11. Available' >= 0
    BY <2>8
  <2> QED  BY <1>0, <1>1, <2>5, <2>6, <2>8, <2>9, <2>10, <2>11 DEF SemFairInv
<1> QED  BY <1>3, <1>4

(* A semaphore that nobody destroys and that is waited for without finite  *)
(* timeouts is a fair semaphore: a wait blocks only when no permit is      *)
(* available, and sem_post() serves the thread that has waited longest,    *)
(* for any number of threads and CPUs and any initial count.               *)
THEOREM SemaphoreIsFair ==
  ASSUME "finite" \notin SemTimeouts, SemDestroyers = {}
  PROVE  SemSpec => ImplementsFairSemaphore
<1>1. SemInit => SemFairInv /\ AbstractSemaphore!Init
  <2> SUFFICES ASSUME SemInit  PROVE SemFairInv /\ AbstractSemaphore!Init
    OBVIOUS
  <2>1. SemWaitInv
    BY SemInitInv, SemWaitInit DEF SemWaitInv
  <2>2. Waiting \ SemGranted = {}
    BY DEF SemInit, Waiting
  <2>3. Cardinality(Waiting \ SemGranted) = 0
    BY <2>2, FS_EmptySet
  <2>4. Available = InitialCount /\ wait[s] = <<>>
    BY <2>3, InitialCountType, SemQueue DEF SemInit, WQInit, Available
  <2>5. Available >= 0
    BY <2>4, InitialCountType
  <2>6. AbstractSemaphore!Init
    BY <2>4 DEF AbstractSemaphore!Init
  <2> QED  BY <2>1, <2>4, <2>5, <2>6 DEF SemInit, WQInit, SemFairInv
<1>2. SemFairInv /\ [SemNext]_semvars =>
        SemFairInv' /\ [AbstractSemaphore!Next]_<<Available, wait[s]>>
  <2> SUFFICES ASSUME SemFairInv, [SemNext]_semvars
               PROVE  SemFairInv' /\ [AbstractSemaphore!Next]_<<Available, wait[s]>>
    OBVIOUS
  <2>0. SemWaitInv /\ SemInv
    BY DEF SemFairInv, SemWaitInv
  <2>1. ASSUME NEW t \in Threads, sem_wait_free(t)  PROVE SemFairInv' /\ AbstractSemaphore!Next
    BY <2>1, FreeIsTake DEF AbstractSemaphore!Next
  <2>2. ASSUME NEW t \in Threads, sem_wait_block(t)  PROVE SemFairInv' /\ AbstractSemaphore!Next
    <3>1. SemWaitInv'
      BY <2>0, <2>2, BlockInv, SemWaitStep, Zenon DEF SemWaitInv, SemNext, sem_wait_block, Timeouts
    <3> QED  BY <2>2, <3>1, BlockIsRequest, Zenon DEF sem_wait_block, AbstractSemaphore!Next
  <2>3. ASSUME UNCHANGED <<wqvars, sem_count, sem_pc, live>>, SemWaitInv'
        PROVE  SemFairInv' /\ UNCHANGED <<Available, wait[s]>>
    <3>1. UNCHANGED Available
      BY <2>3 DEF Available, Waiting, SemGranted, wqvars
    <3> QED  BY <2>3, <3>1, Zenon DEF SemFairInv, wqvars
  <2>4. ASSUME NEW t \in Threads, NEW timeout \in SemTimeouts, sem_timedwait_block(t, timeout)
        PROVE  SemFairInv' /\ [AbstractSemaphore!Next]_<<Available, wait[s]>>
    <3>1. SemWaitInv'
      BY <2>0, <2>4, TimedwaitBlockInv, SemWaitStep DEF SemWaitInv, SemNext
    <3>2. CASE timeout = "zero"
      BY <2>3, <2>4, <3>1, <3>2, Zenon DEF sem_timedwait_block
    <3>3. CASE timeout # "zero"
      <4>1. timeout = "infinite"
        BY <3>3, SemTimeoutsType DEF Timeouts
      <4> QED  BY <2>4, <3>1, <4>1, BlockIsRequest DEF sem_timedwait_block, AbstractSemaphore!Next
    <3> QED  BY <3>2, <3>3
  <2>5. ASSUME NEW t \in Threads, sem_wait_return(t)
        PROVE  SemFairInv' /\ UNCHANGED <<Available, wait[s]>>
    BY <2>5, WaitReturnIsStutter
  <2>6. CASE sem_post
    BY <2>6, PostIsPost DEF AbstractSemaphore!Next
  <2>7. ~TimerStep
    BY NullIsNoThread DEF SemFairInv, TimerStep, timer_tick, wait_queue_timeout_handler
  <2>8. ~\E t \in Threads : sem_destroy(t) \/ sem_destroy_return(t) \/ sem_init(t)
    BY DEF sem_destroy, sem_destroy_return, sem_init
  <2>9. CASE UNCHANGED semvars
    <3>1. UNCHANGED <<wqvars, sem_count, sem_pc, live>>
      BY <2>9 DEF semvars, svars
    <3>2. SemWaitInv'
      BY <2>0, <2>9, SemWaitStep DEF SemWaitInv, SemInv, SemTypeOK, WQTypeOK, CountBound, NeverOverGranted,
         Waiting, SemGranted, semvars, wqvars, svars
    <3> QED  BY <2>3, <3>1, <3>2
  <2> QED  BY <2>1, <2>2, <2>4, <2>5, <2>6, <2>7, <2>8, <2>9 DEF SemNext
<1> QED  BY <1>1, <1>2, PTL DEF SemSpec, ImplementsFairSemaphore, AbstractSemaphore!Spec
=============================================================================
