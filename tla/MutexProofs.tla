---------------------------- MODULE MutexProofs -----------------------------
(***************************************************************************)
(* The mutex is a mutex, for any number of threads, one or several CPUs,   *)
(* any timeouts, and any use of mutex_destroy() and mutex_init(); without  *)
(* finite timeouts and destroys it is a fair lock.                         *)
(***************************************************************************)
EXTENDS Mutex, WaitQueueProofs, FiniteSetTheorems

LEMMA InitInv == Init => MutexInv
<1> SUFFICES ASSUME Init  PROVE MutexInv
  OBVIOUS
<1>1. TypeOK
  BY DEF Init, WQInit, TypeOK, WQTypeOK, Status, Timeouts
<1>2. Users = {} /\ Owners = {} /\ count = 0
  BY DEF Init, Users, Owners, Holding, Granted
<1>3. CountIsUsers
  BY <1>2, FS_EmptySet DEF CountIsUsers
<1>4. HolderIsHolding
  BY NullIsNoThread DEF Init, HolderIsHolding
<1>5. LiveWakeStatus
  BY DEF Init, LiveWakeStatus
<1> QED  BY <1>1, <1>2, <1>3, <1>4, <1>5 DEF MutexInv, SingleOwner

LEMMA UsersFinite == IsFiniteSet(Users)
BY ThreadsFinite, FS_Subset DEF Users

(* A live mutex whose count is zero has no user at all. *)
LEMMA FreeHasNoUser ==
  ASSUME MutexInv, magic, Free
  PROVE  Users = {} /\ Owners = {} /\ count = 0
<1>1. Cardinality(Users) \in Nat /\ count = Cardinality(Users)
  BY UsersFinite, FS_CardinalityType DEF MutexInv, CountIsUsers
<1>2. count = 0
  BY <1>1 DEF Free
<1>3. Users = {}
  BY <1>1, <1>2, UsersFinite, FS_EmptySet, Zenon
<1> QED  BY <1>2, <1>3 DEF Users, Owners, Holding, Granted

LEMMA AcquireFreeInv ==
  ASSUME MutexInv, NEW t \in Threads, mutex_acquire_free(t)
  PROVE  MutexInv'
<1>1. Users = {} /\ Owners = {} /\ count = 0
  BY FreeHasNoUser DEF mutex_acquire_free
<1>2. TypeOK'
  BY DEF MutexInv, TypeOK, WQTypeOK, mutex_acquire_free, wqvars
<1>3. Users' = {t} /\ Owners' = {t}
  BY <1>1 DEF MutexInv, TypeOK, mutex_acquire_free, Users, Owners, Holding, Granted, wqvars
<1>4. CountIsUsers'
  <2>1. count' = 1
    BY <1>1 DEF mutex_acquire_free
  <2>2. Cardinality(Users') = 1
    BY <1>3, FS_Singleton
  <2> QED  BY <2>1, <2>2 DEF CountIsUsers
<1>5. HolderIsHolding'
  BY <1>1 DEF MutexInv, TypeOK, mutex_acquire_free, HolderIsHolding, Users
<1>6. LiveWakeStatus'
  BY DEF MutexInv, TypeOK, LiveWakeStatus, mutex_acquire_free, wqvars
<1> QED  BY <1>2, <1>3, <1>4, <1>5, <1>6 DEF MutexInv, SingleOwner

LEMMA AcquireContendedInv ==
  ASSUME MutexInv, NEW t \in Threads, NEW timeout \in AcquireTimeouts,
         mutex_acquire_contended(t, timeout)
  PROVE  MutexInv'
<1>1. CASE UNCHANGED <<wqvars, count, pc>>
  BY <1>1 DEF MutexInv, TypeOK, WQTypeOK, SingleOwner, HolderIsHolding, CountIsUsers, LiveWakeStatus,
     Owners, Holding, Granted, Users, mutex_acquire_contended, wqvars
<1>2. CASE timeout # "zero" /\ wait_queue_block(t, m, timeout)
  <2>1. timeout \in Timeouts
    BY <1>2, AcquireTimeoutsType
  <2>2. WQTypeOK'
    BY <1>2, <2>1, BlockType, MutexQueue DEF MutexInv, TypeOK
  <2>3. /\ magic /\ pc[t] = "out"
        /\ count' = count + 1
        /\ pc' = [pc EXCEPT ![t] = "acquiring"]
        /\ UNCHANGED <<holder, magic>>
    BY <1>2 DEF mutex_acquire_contended
  <2>4. TypeOK'
    BY <2>2, <2>3 DEF MutexInv, TypeOK
  <2>5. Owners' = Owners
    BY <1>2, <2>3 DEF MutexInv, TypeOK, WQTypeOK, wait_queue_block, Blocked_state, Owners, Holding, Granted
  <2>6. Users' = Users \cup {t} /\ t \notin Users
    BY <2>3 DEF MutexInv, TypeOK, Users
  <2>7. CountIsUsers'
    BY <2>3, <2>6, UsersFinite, FS_AddElement, Zenon DEF MutexInv, CountIsUsers
  <2>8. HolderIsHolding'
    BY <2>3 DEF MutexInv, TypeOK, HolderIsHolding
  <2>9. LiveWakeStatus'
    BY <1>2, <2>3 DEF MutexInv, TypeOK, WQTypeOK, LiveWakeStatus, wait_queue_block
  <2> QED  BY <2>4, <2>5, <2>7, <2>8, <2>9 DEF MutexInv, SingleOwner
<1> QED  BY <1>1, <1>2 DEF mutex_acquire_contended

LEMMA AcquireReturnInv ==
  ASSUME MutexInv, NEW t \in Threads, mutex_acquire_return(t)
  PROVE  MutexInv'
<1>1. /\ pc[t] = "acquiring" /\ state[t] = "READY"
      /\ UNCHANGED <<state, block_ret, magic>>
  BY DEF mutex_acquire_return, wait_queue_block_return, CanRun
<1>2. WQTypeOK'
  BY BlockReturnType DEF MutexInv, TypeOK, mutex_acquire_return
<1>3. CASE block_ret[t] = "NO_ERROR"
  <2>1. holder' = t /\ pc' = [pc EXCEPT ![t] = "held"] /\ UNCHANGED count
    BY <1>3 DEF mutex_acquire_return
  <2>2. TypeOK'
    BY <1>1, <1>2, <2>1 DEF MutexInv, TypeOK
  <2>3. t \in Owners /\ Owners' = Owners
    BY <1>1, <1>3, <2>1 DEF MutexInv, TypeOK, Owners, Holding, Granted
  <2>4. Users' = Users
    BY <1>1, <2>1 DEF MutexInv, TypeOK, Users
  <2>5. \A u \in Threads : pc[u] = "held" => u = t
    BY <2>3 DEF MutexInv, SingleOwner, Owners, Holding
  <2>6. HolderIsHolding'
    BY <2>1, <2>5 DEF MutexInv, TypeOK, HolderIsHolding
  <2>7. CountIsUsers'
    BY <1>1, <2>1, <2>4 DEF MutexInv, CountIsUsers
  <2>8. LiveWakeStatus'
    BY <1>1, <2>1 DEF MutexInv, TypeOK, LiveWakeStatus
  <2> QED  BY <2>2, <2>3, <2>6, <2>7, <2>8 DEF MutexInv, SingleOwner
<1>4. CASE block_ret[t] # "NO_ERROR"
  <2>1. /\ count' = IF block_ret[t] = "ERR_TIMED_OUT" THEN count - 1 ELSE count
        /\ pc' = [pc EXCEPT ![t] = "out"]
        /\ UNCHANGED holder
    BY <1>4 DEF mutex_acquire_return, Backout
  <2>2. TypeOK'
    BY <1>1, <1>2, <2>1 DEF MutexInv, TypeOK
  <2>3. Owners' = Owners
    BY <1>1, <1>4, <2>1 DEF MutexInv, TypeOK, Owners, Holding, Granted
  <2>4. Users' = Users \ {t} /\ t \in Users
    BY <1>1, <2>1 DEF MutexInv, TypeOK, Users
  <2>5. HolderIsHolding'
    BY <1>1, <2>1 DEF MutexInv, TypeOK, HolderIsHolding
  <2>6. CountIsUsers'
    <3>1. magic => count' = count - 1
      BY <1>1, <1>4, <2>1 DEF MutexInv, LiveWakeStatus
    <3> QED  BY <1>1, <2>4, <3>1, UsersFinite, FS_RemoveElement, Zenon DEF MutexInv, CountIsUsers
  <2>7. LiveWakeStatus'
    BY <1>1, <2>1 DEF MutexInv, TypeOK, LiveWakeStatus
  <2> QED  BY <2>2, <2>3, <2>5, <2>6, <2>7 DEF MutexInv, SingleOwner
<1> QED  BY <1>3, <1>4

LEMMA ReleaseInv ==
  ASSUME MutexInv, NEW t \in Threads, mutex_release(t)
  PROVE  MutexInv'
<1>1. /\ pc[t] = "held" /\ magic
      /\ holder' = NULL /\ count' = count - 1
      /\ pc' = [pc EXCEPT ![t] = "out"]
      /\ UNCHANGED magic
  BY DEF mutex_release, Released
<1>2. Owners = {t}
  BY <1>1 DEF MutexInv, SingleOwner, Owners, Holding, TypeOK
<1>3. Users' = Users \ {t} /\ t \in Users
  BY <1>1 DEF MutexInv, TypeOK, Users
<1>4. CountIsUsers'
  BY <1>1, <1>3, UsersFinite, FS_RemoveElement DEF MutexInv, CountIsUsers
<1>5. HolderIsHolding'
  BY <1>1, <1>2, NullIsNoThread DEF MutexInv, TypeOK, HolderIsHolding, Owners, Holding
<1>6. CASE UNCHANGED wqvars
  <2>1. TypeOK'
    BY <1>1, <1>6 DEF MutexInv, TypeOK, WQTypeOK, wqvars
  <2>2. Owners' = {}
    BY <1>1, <1>2, <1>6 DEF MutexInv, TypeOK, Owners, Holding, Granted, wqvars
  <2>3. LiveWakeStatus'
    BY <1>1, <1>6 DEF MutexInv, TypeOK, LiveWakeStatus, wqvars
  <2> QED  BY <1>4, <1>5, <2>1, <2>2, <2>3 DEF MutexInv, SingleOwner
<1>7. CASE wait[m] # <<>> /\ wait_queue_wake_one(m, "NO_ERROR")
  <2>0. "NO_ERROR" \in Status
    BY DEF Status
  <2>1. wait[m][1] \in Threads /\ WQTypeOK'
    BY <1>7, <2>0, WakeOneType, MutexQueue DEF MutexInv, TypeOK
  <2>2. /\ state' = [state EXCEPT ![wait[m][1]] = "READY"]
        /\ block_ret' = [block_ret EXCEPT ![wait[m][1]] = "NO_ERROR"]
    BY <1>7, <2>0, WakeOneType, MutexQueue DEF MutexInv, TypeOK
  <2>3. TypeOK'
    BY <1>1, <2>1 DEF MutexInv, TypeOK
  <2>4. Owners' \subseteq {wait[m][1]}
    BY <1>1, <1>2, <2>1, <2>2 DEF MutexInv, TypeOK, WQTypeOK, Owners, Holding, Granted
  <2>5. LiveWakeStatus'
    BY <1>1, <2>1, <2>2 DEF MutexInv, TypeOK, WQTypeOK, LiveWakeStatus
  <2> QED  BY <1>4, <1>5, <2>3, <2>4, <2>5 DEF MutexInv, SingleOwner
<1> QED  BY <1>6, <1>7 DEF mutex_release, wait_queue_wake_one

LEMMA DestroyInv ==
  ASSUME MutexInv, NEW t \in Threads, mutex_destroy(t)
  PROVE  MutexInv'
<1>1. /\ magic' = FALSE /\ count' = 0
      /\ pc' = [pc EXCEPT ![t] = "destroyed"]
      /\ UNCHANGED holder
      /\ wait_queue_wake_all(m, "ERR_OBJECT_DESTROYED")
  BY DEF mutex_destroy, Destroyed
<1>2. "ERR_OBJECT_DESTROYED" \in Status
  BY DEF Status
<1>3. TypeOK'
  <2>1. WQTypeOK
    BY DEF MutexInv, TypeOK
  <2>2. WQTypeOK'
    BY <1>1, <1>2, <2>1, WakeAllType, MutexQueue
  <2>3. magic' \in BOOLEAN
    BY <1>1, Zenon
  <2> QED  BY <1>1, <2>2, <2>3 DEF MutexInv, TypeOK
<1>4. Holding' \subseteq Holding
  BY <1>1 DEF MutexInv, TypeOK, Holding
<1>5. Granted' \subseteq Granted
  <2> SUFFICES ASSUME NEW u \in Granted'  PROVE u \in Granted
    OBVIOUS
  <2>1. u \in Threads /\ pc'[u] = "acquiring" /\ state'[u] = "READY" /\ block_ret'[u] = "NO_ERROR"
    BY DEF Granted
  <2>2. pc[u] = "acquiring"
    BY <1>1, <2>1 DEF MutexInv, TypeOK
  <2>3. state'[u] = state[u] /\ block_ret'[u] = block_ret[u]
    BY <1>1, <2>1 DEF wait_queue_wake_all
  <2> QED  BY <2>1, <2>2, <2>3 DEF Granted
<1> QED
  BY <1>1, <1>3, <1>4, <1>5
  DEF MutexInv, SingleOwner, Owners, HolderIsHolding, CountIsUsers, LiveWakeStatus

(* A destroyer that is not in the locked section changes nothing else. *)
LEMMA DestroyerMovesInv ==
  ASSUME MutexInv, NEW t \in Threads, mutex_destroy_check(t) \/ mutex_destroy_return(t)
  PROVE  MutexInv'
<1>1. /\ UNCHANGED <<wqvars, count, holder, magic>>
      /\ \E x \in {"destroying", "out"} : pc' = [pc EXCEPT ![t] = x]
      /\ pc[t] \in {"out", "destroyed"}
  BY DEF mutex_destroy_check, mutex_destroy_return
<1>2. TypeOK'
  BY <1>1 DEF MutexInv, TypeOK, WQTypeOK, wqvars
<1>3. \A u \in Threads : /\ pc'[u] = "held" <=> pc[u] = "held"
                         /\ pc'[u] = "acquiring" <=> pc[u] = "acquiring"
  BY <1>1 DEF MutexInv, TypeOK
<1>4. Users' = Users /\ Owners' = Owners
  BY <1>1, <1>3 DEF Users, Owners, Holding, Granted, wqvars
<1>5. CountIsUsers'
  BY <1>1, <1>4 DEF MutexInv, CountIsUsers
<1>6. HolderIsHolding' /\ LiveWakeStatus'
  BY <1>1, <1>3 DEF MutexInv, HolderIsHolding, LiveWakeStatus, wqvars
<1> QED  BY <1>2, <1>4, <1>5, <1>6 DEF MutexInv, SingleOwner

LEMMA ReinitInv ==
  ASSUME MutexInv, NEW t \in Threads, mutex_init(t)
  PROVE  MutexInv'
<1>1. TypeOK'
  BY MutexQueue DEF MutexInv, TypeOK, WQTypeOK, mutex_init
<1>2. Users' = {} /\ Owners' = {} /\ count' = 0
  BY DEF MutexInv, TypeOK, mutex_init, Users, Owners, Holding, Granted
<1>3. CountIsUsers'
  BY <1>2, FS_EmptySet DEF CountIsUsers
<1>4. HolderIsHolding' /\ LiveWakeStatus'
  BY NullIsNoThread DEF mutex_init, HolderIsHolding, LiveWakeStatus
<1> QED  BY <1>1, <1>2, <1>3, <1>4 DEF MutexInv, SingleOwner

(* A timeout never makes its thread an owner, and takes no count away. *)
LEMMA TimerStepInv ==
  ASSUME MutexInv, TimerStep, UNCHANGED mvars
  PROVE  MutexInv'
<1>1. TypeOK'
  BY TimerStepType DEF MutexInv, TypeOK, mvars
<1>2. ASSUME NEW c \in CPUs, NEW t \in Threads, timer_tick(c, t)
      PROVE  Owners' = Owners /\ LiveWakeStatus'
  BY <1>2 DEF MutexInv, mvars, timer_tick, Owners, Holding, Granted, LiveWakeStatus
<1>3. ASSUME NEW c \in CPUs, NEW t \in Threads, wait_queue_timeout_handler(c, t)
      PROVE  Owners' \subseteq Owners /\ LiveWakeStatus'
  BY <1>3 DEF MutexInv, TypeOK, WQTypeOK, mvars, wait_queue_timeout_handler,
     thread_unblock_from_wait_queue, unblock, Owners, Holding, Granted, LiveWakeStatus
<1>4. CountIsUsers' /\ HolderIsHolding'
  BY DEF MutexInv, mvars, CountIsUsers, HolderIsHolding, Users
<1> QED  BY <1>1, <1>2, <1>3, <1>4 DEF MutexInv, SingleOwner, TimerStep

(* Every step of the mutex keeps the invariant. *)
LEMMA MutexStep ==
  ASSUME MutexInv, [Next]_vars
  PROVE  MutexInv'
<1>1. CASE Next
  BY <1>1, AcquireFreeInv, AcquireContendedInv, AcquireReturnInv, ReleaseInv, DestroyInv,
     DestroyerMovesInv, ReinitInv, TimerStepInv DEF Next
<1>2. CASE UNCHANGED vars
  BY <1>2 DEF vars, wqvars, mvars, MutexInv, TypeOK, WQTypeOK, SingleOwner, HolderIsHolding,
     CountIsUsers, LiveWakeStatus, Owners, Holding, Granted, Users
<1> QED  BY <1>1, <1>2

(* The inductive invariant holds throughout: types, one owner, the holder  *)
(* field, the count, and the statuses a live mutex wakes with.             *)
THEOREM MutexInvariant == Spec => []MutexInv
<1>1. MutexInv /\ [Next]_vars => MutexInv'
  BY MutexStep
<1> QED  BY InitInv, <1>1, PTL DEF Spec

(* At most one thread at a time is between mutex_acquire_timeout() and     *)
(* mutex_release().                                                        *)
THEOREM MutexMutualExclusion == Spec => []MutualExclusion
<1>1. MutexInv => MutualExclusion
  BY DEF MutexInv, SingleOwner, MutualExclusion, Owners
<1> QED  BY <1>1, MutexInvariant, PTL

(* The mutex has a single owner also while it is handed from a releaser to *)
(* the thread it woke.                                                     *)
THEOREM MutexSingleOwner == Spec => []SingleOwner
BY MutexInvariant, PTL DEF MutexInv

(* m->count of a live mutex counts its users exactly. *)
THEOREM MutexCount == Spec => []CountIsUsers
BY MutexInvariant, PTL DEF MutexInv

-----------------------------------------------------------------------------
(* The wait queues under the mutex. *)

(* Only threads inside mutex_acquire_timeout() are on the mutex's queue. *)
WaitersAcquire == \A i \in DOMAIN wait[m] : pc[wait[m][i]] = "acquiring"

MutexWaitInv == MutexInv /\ WQSound /\ WaitersAcquire

(* Every step of the mutex keeps the queues sound and its waiters inside   *)
(* an acquire.  mutex_init() empties the queue, so it needs that nobody is *)
(* on it.                                                                  *)
LEMMA MutexWaitStep ==
  ASSUME MutexWaitInv, [Next]_vars
  PROVE  WQSound' /\ WaitersAcquire'
<1> USE MutexQueue
<1>0. WQTypeOK /\ pc \in [Threads -> {"out", "acquiring", "held", "destroying", "destroyed"}]
  BY DEF MutexWaitInv, MutexInv, TypeOK
<1>1. ASSUME NEW t \in Threads, mutex_acquire_free(t)  PROVE WQSound' /\ WaitersAcquire'
  <2>1. UNCHANGED wqvars /\ pc' = [pc EXCEPT ![t] = "held"] /\ state[t] = "READY"
    BY <1>1 DEF mutex_acquire_free, Running, CanRun
  <2>2. WaitersAcquire'
    BY <1>0, <2>1, ReadyIsUnlinked DEF MutexWaitInv, WaitersAcquire, wqvars
  <2> QED  BY <2>1, <2>2 DEF MutexWaitInv, WQSound, WQTypeOK, LinkedIffBlocked, TimeoutPending, wqvars
<1>2. ASSUME NEW t \in Threads, NEW timeout \in AcquireTimeouts, mutex_acquire_contended(t, timeout)
      PROVE  WQSound' /\ WaitersAcquire'
  <2>1. CASE UNCHANGED <<wqvars, count, pc>>
    BY <2>1 DEF MutexWaitInv, WaitersAcquire, WQSound, WQTypeOK, LinkedIffBlocked, TimeoutPending, wqvars
  <2>2. CASE /\ timeout # "zero" /\ wait_queue_block(t, m, timeout)
             /\ pc' = [pc EXCEPT ![t] = "acquiring"]
    <3>1. WQSound'
      BY <1>2, <2>2, AcquireTimeoutsType, BlockSound
         DEF MutexWaitInv, mutex_acquire_contended, Running, CanRun
    <3>2. wait[m] \in Seq(Threads) /\ wait'[m] = Append(wait[m], t)
      BY <1>0, <2>2 DEF WQTypeOK, wait_queue_block
    <3>3. \A i \in DOMAIN wait'[m] : (i \in DOMAIN wait[m] /\ wait'[m][i] = wait[m][i]) \/ wait'[m][i] = t
      BY <3>2, AppendProperties, LenProperties
    <3>4. WaitersAcquire'
      BY <1>0, <2>2, <3>3, ReadyIsUnlinked DEF MutexWaitInv, WaitersAcquire
    <3> QED  BY <3>1, <3>4
  <2> QED  BY <1>2, <2>1, <2>2 DEF mutex_acquire_contended
<1>3. ASSUME NEW t \in Threads, mutex_acquire_return(t)  PROVE WQSound' /\ WaitersAcquire'
  <2>1. WQSound'
    BY <1>3, BlockReturnSound DEF MutexWaitInv, mutex_acquire_return
  <2>2. UNCHANGED wait /\ state[t] = "READY" /\ \A u \in Threads : u # t => pc'[u] = pc[u]
    BY <1>0, <1>3 DEF mutex_acquire_return, wait_queue_block_return, CanRun
  <2> QED  BY <2>1, <2>2, ReadyIsUnlinked DEF MutexWaitInv, WaitersAcquire
<1>4. ASSUME NEW t \in Threads, mutex_release(t)  PROVE WQSound' /\ WaitersAcquire'
  <2>1. pc[t] = "held" /\ pc' = [pc EXCEPT ![t] = "out"]
    BY <1>4 DEF mutex_release
  <2>2. CASE UNCHANGED wqvars
    <3>1. WaitersAcquire'
      BY <1>0, <2>1, <2>2, ReadyIsUnlinked DEF MutexWaitInv, WaitersAcquire, wqvars
    <3> QED  BY <2>2, <3>1 DEF MutexWaitInv, WQSound, WQTypeOK, LinkedIffBlocked, TimeoutPending, wqvars
  <2>3. CASE wait_queue_wake_one(m, "NO_ERROR")
    <3>1. WQSound'
      BY <2>3, WakeOneSound DEF MutexWaitInv, Status
    <3>2. \A i \in DOMAIN wait'[m] : \E j \in DOMAIN wait[m] : wait[m][j] = wait'[m][i]
      BY <1>0, <2>3, WakeOneShrinks DEF Status
    <3> QED  BY <1>0, <2>1, <3>1, <3>2, ReadyIsUnlinked DEF MutexWaitInv, WaitersAcquire
  <2> QED  BY <1>4, <2>2, <2>3 DEF mutex_release
<1>5. ASSUME NEW t \in Threads, mutex_destroy(t)  PROVE WQSound' /\ WaitersAcquire'
  <2>1. wait_queue_wake_all(m, "ERR_OBJECT_DESTROYED")
    BY <1>5 DEF mutex_destroy
  <2>2. WQSound'
    BY <2>1, WakeAllSound DEF MutexWaitInv, Status
  <2>3. wait'[m] = <<>>
    BY <1>0, <2>1 DEF WQTypeOK, wait_queue_wake_all
  <2> QED  BY <2>2, <2>3 DEF WaitersAcquire
<1>6. ASSUME NEW t \in Threads, mutex_init(t)  PROVE WQSound' /\ WaitersAcquire'
  <2>1. DOMAIN wait[m] = {}
    BY <1>6, ReadyIsUnlinked DEF MutexWaitInv, WaitersAcquire, mutex_init
  <2>2. wait[m] = <<>>
    BY <1>0, <2>1, NobodyLinked
  <2>3. UNCHANGED wqvars
    BY <1>0, <1>6, <2>2 DEF mutex_init, WQTypeOK, wqvars
  <2>4. WaitersAcquire'
    BY <2>1, <2>3 DEF WaitersAcquire, wqvars
  <2> QED  BY <2>3, <2>4 DEF MutexWaitInv, WQSound, WQTypeOK, LinkedIffBlocked, TimeoutPending, wqvars
<1>7. CASE TimerStep /\ UNCHANGED mvars
  <2>1. WQSound'
    BY <1>7, TimerStepSound DEF MutexWaitInv
  <2>2. \A i \in DOMAIN wait'[m] : \E j \in DOMAIN wait[m] : wait[m][j] = wait'[m][i]
    BY <1>0, <1>7, TimerStepShrinks
  <2> QED  BY <1>7, <2>1, <2>2 DEF MutexWaitInv, WaitersAcquire, mvars
<1>8. CASE UNCHANGED vars
  BY <1>8 DEF MutexWaitInv, WaitersAcquire, WQSound, WQTypeOK, LinkedIffBlocked, TimeoutPending,
              vars, wqvars, mvars
<1>9. ASSUME NEW t \in Threads, mutex_destroy_check(t) \/ mutex_destroy_return(t)
      PROVE  WQSound' /\ WaitersAcquire'
  <2>1. UNCHANGED wqvars /\ \A u \in Threads : pc[u] = "acquiring" => pc'[u] = "acquiring"
    BY <1>0, <1>9 DEF mutex_destroy_check, mutex_destroy_return
  <2>2. WQSound'
    BY <2>1 DEF MutexWaitInv, WQSound, WQTypeOK, LinkedIffBlocked, TimeoutPending, wqvars
  <2>3. \A i \in DOMAIN wait[m] : wait[m][i] \in Threads
    BY <1>0 DEF WQTypeOK
  <2> QED  BY <2>1, <2>2, <2>3 DEF MutexWaitInv, WaitersAcquire, wqvars
<1> QED  BY <1>1, <1>2, <1>3, <1>4, <1>5, <1>6, <1>7, <1>8, <1>9 DEF Next

LEMMA MutexWaitInit == Init => WQSound /\ WaitersAcquire
<1> SUFFICES ASSUME Init  PROVE WQSound /\ WaitersAcquire
  OBVIOUS
<1>1. WQTypeOK
  BY InitInv DEF MutexInv, TypeOK
<1>2. LinkedIffBlocked /\ TimeoutPending
  BY DEF Init, WQInit, LinkedIffBlocked, TimeoutPending
<1>3. WaitersAcquire
  BY MutexQueue DEF Init, WQInit, WaitersAcquire
<1> QED  BY <1>1, <1>2, <1>3 DEF WQSound

(* The wait queues stay sound under a mutex that is acquired with any      *)
(* timeouts, released, destroyed and initialised again.                    *)
THEOREM MutexWaitsSound == Spec => []WQSound
<1>1. MutexInv /\ (WQSound /\ WaitersAcquire) /\ [Next]_vars => (WQSound /\ WaitersAcquire)'
  BY MutexWaitStep DEF MutexWaitInv
<1> QED  BY <1>1, MutexWaitInit, MutexInvariant, PTL DEF Spec

-----------------------------------------------------------------------------
(* The fair lock.  Without finite timeouts no timer is ever armed, every   *)
(* user of the mutex owns it or is on its queue, and a queue means that    *)
(* somebody owns the mutex and will release it.                            *)
FairInv ==
  /\ MutexWaitInv
  /\ magic
  /\ \A t \in Threads : timer[t] = FALSE
  /\ \A c \in CPUs : callback[c] = NULL
  /\ \A t \in Threads : pc[t] = "acquiring" => block_ret[t] = "NO_ERROR"
  /\ \A q \in Queues : q # m => wait[q] = <<>>
  /\ wait[m] # <<>> => Owners # {}

(* A user is an owner or is on the queue. *)
LEMMA UserOwnsOrWaits ==
  ASSUME FairInv, NEW t \in Users
  PROVE  t \in Owners \/ wait[m] # <<>>
<1>1. t \in Threads /\ pc[t] \in {"acquiring", "held"} /\ state[t] \in {"READY", "BLOCKED"}
  BY DEF Users, FairInv, MutexWaitInv, WQSound, WQTypeOK
<1>2. CASE pc[t] = "held" \/ state[t] = "READY"
  BY <1>1, <1>2 DEF FairInv, Owners, Holding, Granted
<1>3. CASE state[t] = "BLOCKED"
  <2>1. PICK q \in Queues : \E i \in DOMAIN wait[q] : wait[q][i] = t
    BY <1>1, <1>3 DEF FairInv, MutexWaitInv, WQSound, LinkedIffBlocked
  <2>2. DOMAIN wait[q] # {}
    BY <2>1
  <2>3. wait[q] # <<>>
    BY <2>2
  <2> QED  BY <2>3 DEF FairInv
<1> QED  BY <1>1, <1>2, <1>3

(* On the queue of a mutex is a user that does not own it. *)
LEMMA WaiterIsUser ==
  ASSUME FairInv, wait[m] # <<>>
  PROVE  /\ wait[m] \in Seq(Threads) /\ 1 \in 1..Len(wait[m])
         /\ wait[m][1] \in Users /\ wait[m][1] \notin Owners
<1>1. /\ wait[m] \in Seq(Threads) /\ 1 \in 1..Len(wait[m]) /\ 1 \in DOMAIN wait[m]
  BY MutexQueue, EmptySeq, LenProperties DEF FairInv, MutexWaitInv, WQSound, WQTypeOK
<1>2. wait[m][1] \in Threads /\ state[wait[m][1]] = "BLOCKED" /\ pc[wait[m][1]] = "acquiring"
  BY <1>1, MutexQueue, ReadyIsUnlinked DEF FairInv, MutexWaitInv, WaitersAcquire
<1> QED  BY <1>1, <1>2 DEF Users, Owners, Holding, Granted

(* Each step of the mutex is a step of the fair lock, or none. *)
LEMMA AcquireFreeIsTake ==
  ASSUME FairInv, NEW t \in Threads, mutex_acquire_free(t)
  PROVE  Abstract!Take(t) /\ FairInv'
<1>0. MutexInv /\ MutexWaitInv /\ MutexWaitInv'
  BY AcquireFreeInv, MutexWaitStep DEF FairInv, MutexWaitInv, Next
<1>1. Users = {} /\ Owners = {}
  BY <1>0, FreeHasNoUser DEF mutex_acquire_free
<1>2. wait[m] = <<>>
  BY <1>1, WaiterIsUser
<1>3. Owners' = {t}
  BY <1>0, <1>1 DEF MutexInv, TypeOK, mutex_acquire_free, Users, Owners, Holding, Granted, wqvars
<1>4. UNCHANGED wqvars /\ UNCHANGED magic /\ pc' = [pc EXCEPT ![t] = "held"]
  BY DEF mutex_acquire_free
<1>5. Abstract!Take(t)
  BY <1>1, <1>2, <1>3, <1>4 DEF Abstract!Take, wqvars
<1>6. \A u \in Threads : pc'[u] = "acquiring" => pc[u] = "acquiring"
  BY <1>0, <1>4 DEF MutexInv, TypeOK
<1> QED  BY <1>0, <1>2, <1>4, <1>5, <1>6 DEF FairInv, wqvars

LEMMA AcquireContendedIsRequest ==
  ASSUME FairInv, "finite" \notin AcquireTimeouts,
         NEW t \in Threads, NEW timeout \in AcquireTimeouts, mutex_acquire_contended(t, timeout)
  PROVE  (Abstract!Request(t) \/ UNCHANGED <<Owners, wait[m]>>) /\ FairInv'
<1>0. MutexInv /\ MutexWaitInv /\ MutexWaitInv' /\ WQTypeOK
  BY AcquireContendedInv, MutexWaitStep DEF FairInv, MutexWaitInv, Next, WQSound
<1>1. CASE UNCHANGED <<wqvars, count, pc>>
  <2>1. UNCHANGED Owners /\ UNCHANGED magic
    BY <1>1 DEF mutex_acquire_contended, Owners, Holding, Granted, wqvars
  <2> QED  BY <1>0, <1>1, <2>1 DEF FairInv, wqvars
<1>2. CASE timeout # "zero" /\ wait_queue_block(t, m, timeout)
  <2>1. /\ timeout = "infinite" /\ pc[t] = "out" /\ ~Free
        /\ pc' = [pc EXCEPT ![t] = "acquiring"] /\ UNCHANGED magic
    BY <1>2, AcquireTimeoutsType DEF mutex_acquire_contended, Timeouts
  <2>2. Users # {}
    <3>1. count = Cardinality(Users) /\ count \in Int
      BY DEF FairInv, MutexWaitInv, MutexInv, CountIsUsers, TypeOK
    <3>2. count # 0
      BY <2>1, <3>1 DEF Free
    <3> QED  BY <3>1, <3>2, FS_EmptySet
  <2>3. Owners # {}
    BY <2>2, UserOwnsOrWaits, Zenon DEF FairInv
  <2>4. t \notin Owners
    BY <2>1 DEF Owners, Holding, Granted
  <2>5. Owners' = Owners
    BY <1>0, <1>2, <2>1 DEF MutexInv, TypeOK, WQTypeOK, wait_queue_block, Blocked_state, Owners, Holding, Granted
  <2>6. wait'[m] = Append(wait[m], t) /\ \A q \in Queues : q # m => wait'[q] = wait[q]
    BY <1>0, <1>2, MutexQueue DEF WQTypeOK, wait_queue_block
  <2>7. Abstract!Request(t)
    BY <2>3, <2>4, <2>5, <2>6 DEF Abstract!Request
  <2>8. \A u \in Threads : timer'[u] = FALSE
    BY <1>0, <1>2, <2>1 DEF FairInv, WQTypeOK, wait_queue_block, Armed
  <2>9. \A u \in Threads : pc'[u] = "acquiring" => block_ret'[u] = "NO_ERROR"
    BY <1>0, <1>2, <2>1 DEF FairInv, MutexInv, TypeOK, WQTypeOK, wait_queue_block
  <2>10. UNCHANGED callback
    BY <1>2 DEF wait_queue_block
  <2> QED  BY <1>0, <2>1, <2>3, <2>5, <2>6, <2>7, <2>8, <2>9, <2>10 DEF FairInv
<1> QED  BY <1>1, <1>2 DEF mutex_acquire_contended

LEMMA AcquireReturnIsStutter ==
  ASSUME FairInv, NEW t \in Threads, mutex_acquire_return(t)
  PROVE  UNCHANGED <<Owners, wait[m]>> /\ FairInv'
<1>0. MutexInv /\ MutexWaitInv /\ MutexWaitInv' /\ WQTypeOK
  BY AcquireReturnInv, MutexWaitStep DEF FairInv, MutexWaitInv, Next, WQSound
<1>1. /\ pc[t] = "acquiring" /\ state[t] = "READY" /\ block_ret[t] = "NO_ERROR"
      /\ pc' = [pc EXCEPT ![t] = "held"]
      /\ timer' = [timer EXCEPT ![t] = FALSE]
      /\ UNCHANGED <<state, wait, block_ret, callback, magic>>
  BY DEF FairInv, mutex_acquire_return, wait_queue_block_return, CanRun, timer_cancel
<1>2. Owners' = Owners
  BY <1>0, <1>1 DEF MutexInv, TypeOK, Owners, Holding, Granted
<1>3. \A u \in Threads : (pc'[u] = "acquiring" => pc[u] = "acquiring") /\ timer'[u] = FALSE
  BY <1>0, <1>1 DEF FairInv, MutexInv, TypeOK, WQTypeOK
<1> QED  BY <1>0, <1>1, <1>2, <1>3 DEF FairInv

LEMMA ReleaseIsRelease ==
  ASSUME FairInv, NEW t \in Threads, mutex_release(t)
  PROVE  Abstract!Release(t) /\ FairInv'
<1>0. MutexInv /\ MutexWaitInv /\ MutexWaitInv' /\ WQTypeOK
  BY ReleaseInv, MutexWaitStep DEF FairInv, MutexWaitInv, Next, WQSound
<1>1. pc[t] = "held" /\ pc' = [pc EXCEPT ![t] = "out"] /\ UNCHANGED magic
  BY DEF mutex_release
<1>2. Owners = {t} /\ t \in Users
  BY <1>0, <1>1 DEF MutexInv, SingleOwner, Owners, Holding, Users
<1>3. \A u \in Threads : pc'[u] = "acquiring" => pc[u] = "acquiring" /\ u # t
  BY <1>0, <1>1 DEF MutexInv, TypeOK
<1>4. CASE wait[m] = <<>>
  <2>1. UNCHANGED wqvars
    BY <1>4 DEF mutex_release, wait_queue_wake_one
  <2>2. Owners' = {}
    BY <1>0, <1>1, <1>2, <2>1 DEF MutexInv, TypeOK, Owners, Holding, Granted, wqvars
  <2>3. Abstract!Release(t)
    BY <1>2, <1>4, <2>1, <2>2 DEF Abstract!Release, wqvars
  <2> QED  BY <1>0, <1>1, <1>3, <1>4, <2>1, <2>3 DEF FairInv, wqvars
<1>5. CASE wait[m] # <<>>
  <2> DEFINE w == wait[m][1]
  <2>1. /\ wait[m] \in Seq(Threads) /\ 1 \in 1..Len(wait[m])
        /\ w \in Users /\ w \notin Owners /\ w \in Threads /\ w # t /\ pc[w] = "acquiring"
    <3>1. /\ wait[m] \in Seq(Threads) /\ 1 \in 1..Len(wait[m])
          /\ wait[m][1] \in Users /\ wait[m][1] \notin Owners
      BY <1>5, WaiterIsUser
    <3> QED  BY <1>2, <3>1 DEF Users, Owners, Holding
  <2>2. Wakes
    <3>1. count = Cardinality(Users) /\ count \in Int
      BY DEF FairInv, MutexWaitInv, MutexInv, CountIsUsers, TypeOK
    <3>2. Cardinality(Users) # 1
      <4>1. ASSUME Cardinality(Users) = 1  PROVE FALSE
        <5>1. PICK x : Users = {x}
          BY <4>1, UsersFinite, FS_Singleton, Zenon
        <5> QED  BY <1>2, <2>1, <5>1
      <4> QED  BY <4>1
    <3>3. Cardinality(Users) # 0 /\ Cardinality(Users) \in Nat
      BY <1>2, UsersFinite, FS_EmptySet, FS_CardinalityType
    <3> QED  BY <3>1, <3>2, <3>3 DEF Wakes
  <2>3. /\ wait' = [wait EXCEPT ![m] = list_delete(wait[m], 1)]
        /\ state' = [state EXCEPT ![w] = "READY"]
        /\ block_ret' = [block_ret EXCEPT ![w] = "NO_ERROR"]
        /\ UNCHANGED <<call, timer, callback>>
    BY <1>5, <2>2 DEF mutex_release, wait_queue_wake_one, ToWake
  <2>4. Owners' = {w}
    <3>1. pc'[w] = "acquiring" /\ state'[w] = "READY" /\ block_ret'[w] = "NO_ERROR"
      BY <1>0, <1>1, <2>1, <2>3 DEF MutexInv, TypeOK, WQTypeOK
    <3>2. ASSUME NEW u \in Owners', u # w  PROVE FALSE
      <4>1. u \in Threads /\ u # t
        BY <1>0, <1>1 DEF Owners, Holding, Granted, MutexInv, TypeOK
      <4>2. pc'[u] = pc[u] /\ state'[u] = state[u] /\ block_ret'[u] = block_ret[u]
        BY <1>0, <1>1, <2>1, <2>3, <3>2, <4>1 DEF MutexInv, TypeOK, WQTypeOK
      <4>3. u \in Owners
        BY <4>1, <4>2 DEF Owners, Holding, Granted
      <4> QED  BY <1>2, <4>1, <4>3
    <3>3. w \in Owners'
      BY <2>1, <3>1 DEF Owners, Granted
    <3> QED  BY <3>2, <3>3
  <2>5. wait'[m] = Tail(wait[m]) /\ Head(wait[m]) = w /\ \A q \in Queues : q # m => wait'[q] = wait[q]
    <3>1. list_delete(wait[m], 1) = Tail(wait[m])
      <4> HIDE DEF w
      <4>1. wait[m] \in Seq(Threads) /\ 1 \in 1..Len(wait[m])
        BY <2>1
      <4> QED  BY <4>1, DeleteHead, Zenon
    <3>2. Head(wait[m]) = w
      BY <1>5, <2>1, HeadTailProperties
    <3> QED  BY <1>0, <2>3, <3>1, <3>2, MutexQueue DEF WQTypeOK
  <2>6. Abstract!Release(t)
    BY <1>2, <1>5, <2>4, <2>5 DEF Abstract!Release
  <2>7. \A u \in Threads : pc'[u] = "acquiring" => block_ret'[u] = "NO_ERROR"
    BY <1>0, <1>3, <2>1, <2>3 DEF FairInv, WQTypeOK
  <2> QED  BY <1>0, <1>1, <2>3, <2>4, <2>5, <2>6, <2>7 DEF FairInv
<1> QED  BY <1>4, <1>5

(* A mutex that nobody destroys and that is acquired without finite        *)
(* timeouts is a fair lock: a thread waits only while somebody owns the    *)
(* mutex, and mutex_release() hands it to the thread that has waited       *)
(* longest, for any number of threads and CPUs.                            *)
THEOREM MutexIsFairLock ==
  ASSUME "finite" \notin AcquireTimeouts, Destroyers = {}
  PROVE  Spec => ImplementsFairLock
<1>1. Init => FairInv /\ Abstract!Init
  <2> SUFFICES ASSUME Init  PROVE FairInv /\ Abstract!Init
    OBVIOUS
  <2>1. MutexWaitInv
    BY InitInv, MutexWaitInit DEF MutexWaitInv
  <2>2. Owners = {} /\ wait[m] = <<>>
    BY MutexQueue DEF Init, WQInit, Owners, Holding, Granted
  <2>3. Abstract!Init
    BY <2>2 DEF Abstract!Init
  <2> QED  BY <2>1, <2>2, <2>3 DEF FairInv, Init, WQInit
<1>2. FairInv /\ [Next]_vars => FairInv' /\ [Abstract!Next]_<<Owners, wait[m]>>
  <2> SUFFICES ASSUME FairInv, [Next]_vars
               PROVE  FairInv' /\ (Abstract!Next \/ UNCHANGED <<Owners, wait[m]>>)
    OBVIOUS
  <2>1. ASSUME NEW t \in Threads, mutex_acquire_free(t)
        PROVE  FairInv' /\ Abstract!Next
    BY <2>1, AcquireFreeIsTake DEF Abstract!Next
  <2>2. ASSUME NEW t \in Threads, NEW timeout \in AcquireTimeouts, mutex_acquire_contended(t, timeout)
        PROVE  FairInv' /\ (Abstract!Next \/ UNCHANGED <<Owners, wait[m]>>)
    BY <2>2, AcquireContendedIsRequest DEF Abstract!Next
  <2>3. ASSUME NEW t \in Threads, mutex_acquire_return(t)
        PROVE  FairInv' /\ UNCHANGED <<Owners, wait[m]>>
    BY <2>3, AcquireReturnIsStutter
  <2>4. ASSUME NEW t \in Threads, mutex_release(t)
        PROVE  FairInv' /\ Abstract!Next
    BY <2>4, ReleaseIsRelease DEF Abstract!Next
  <2>5. ASSUME NEW t \in Threads,
               mutex_destroy_check(t) \/ mutex_destroy(t) \/ mutex_destroy_return(t) \/ mutex_init(t)
        PROVE  FALSE
    BY <2>5 DEF mutex_destroy_check, mutex_destroy, mutex_destroy_return, mutex_init
  <2>6. ASSUME TimerStep  PROVE FALSE
    BY <2>6, NullIsNoThread DEF FairInv, TimerStep, timer_tick, wait_queue_timeout_handler
  <2>7. CASE UNCHANGED vars
    <3>1. MutexWaitInv'
      BY MutexStep, MutexWaitStep DEF FairInv, MutexWaitInv
    <3>2. UNCHANGED <<Owners, wait[m]>>
      BY <2>7 DEF vars, wqvars, mvars, Owners, Holding, Granted
    <3> QED  BY <2>7, <3>1, <3>2 DEF FairInv, vars, wqvars, mvars
  <2> QED  BY <2>1, <2>2, <2>3, <2>4, <2>5, <2>6, <2>7 DEF Next
<1> QED  BY <1>1, <1>2, PTL DEF Spec, ImplementsFairLock, Abstract!Spec
=============================================================================
