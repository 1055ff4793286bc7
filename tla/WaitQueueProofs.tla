-------------------------- MODULE WaitQueueProofs --------------------------
(***************************************************************************)
(* Proofs about the wait queue: for any set of threads and queues, and for *)
(* one or several CPUs.                                                    *)
(***************************************************************************)
EXTENDS WaitQueue, SequenceTheorems, TLAPS

(* Taking the i-th element out of a sequence keeps the elements before it  *)
(* and moves the ones after it one place down.                             *)
LEMMA DeleteProperties ==
  ASSUME NEW S, NEW s \in Seq(S), NEW i \in 1..Len(s)
  PROVE  /\ list_delete(s, i) \in Seq(S)
         /\ Len(list_delete(s, i)) = Len(s) - 1
         /\ \A j \in 1..(Len(s) - 1) : list_delete(s, i)[j] = s[IF j < i THEN j ELSE j + 1]
<1> DEFINE a == SubSeq(s, 1, i - 1)
           b == SubSeq(s, i + 1, Len(s))
<1>1. /\ a \in Seq(S) /\ Len(a) = i - 1
      /\ \A j \in 1..(i - 1) : a[j] = s[j]
  BY SubSeqProperties, ElementOfSeq
<1>2. /\ b \in Seq(S) /\ Len(b) = Len(s) - i
      /\ \A j \in 1..(Len(s) - i) : b[j] = s[i + j]
  BY SubSeqProperties, ElementOfSeq
<1>3. /\ a \o b \in Seq(S)
      /\ Len(a \o b) = Len(s) - 1
      /\ \A j \in 1..(Len(s) - 1) : (a \o b)[j] = IF j <= i - 1 THEN a[j] ELSE b[j - (i - 1)]
  <2> HIDE DEF a, b
  <2>1. Len(a) + Len(b) = Len(s) - 1
    BY <1>1, <1>2
  <2>2. /\ a \o b \in Seq(S)
        /\ Len(a \o b) = Len(a) + Len(b)
        /\ \A j \in 1..(Len(a) + Len(b)) : (a \o b)[j] = IF j <= Len(a) THEN a[j] ELSE b[j - Len(a)]
    BY <1>1, <1>2, ConcatProperties, Zenon
  <2> QED  BY <1>1, <2>1, <2>2
<1>4. ASSUME NEW j \in 1..(Len(s) - 1)
      PROVE  (a \o b)[j] = s[IF j < i THEN j ELSE j + 1]
  <2> HIDE DEF a, b
  <2>1. CASE j < i
    BY <1>1, <1>3, <2>1
  <2>2. CASE ~(j < i)
    <3>1. /\ (a \o b)[j] = b[j - (i - 1)]
          /\ j - (i - 1) \in 1..(Len(s) - i)
      BY <1>3, <2>2
    <3> QED  BY <1>2, <2>2, <3>1
  <2> QED  BY <2>1, <2>2, Zenon
<1> QED  BY <1>3, <1>4, Zenon DEF list_delete

(* Taking out the first element is taking the tail. *)
LEMMA DeleteHead ==
  ASSUME NEW S, NEW s \in Seq(S), 1 \in 1..Len(s)
  PROVE  list_delete(s, 1) = Tail(s)
<1>1. /\ list_delete(s, 1) \in Seq(S) /\ Len(list_delete(s, 1)) = Len(s) - 1
      /\ \A j \in 1..(Len(s) - 1) : list_delete(s, 1)[j] = s[j + 1]
  BY DeleteProperties
<1>2. s # <<>>
  BY EmptySeq
<1>3. /\ Tail(s) \in Seq(S) /\ Len(Tail(s)) = Len(s) - 1
      /\ \A j \in 1..Len(Tail(s)) : Tail(s)[j] = s[j + 1]
  BY <1>2, HeadTailProperties
<1>4. \A j \in 1..Len(Tail(s)) : list_delete(s, 1)[j] = Tail(s)[j]
  BY <1>1, <1>3
<1> QED  BY <1>1, <1>3, <1>4, SeqEqual

(* Each wait-queue operation keeps the types, whoever calls it. *)
LEMMA BlockType ==
  ASSUME WQTypeOK, NEW t \in Threads, NEW q \in Queues, NEW timeout \in Timeouts,
         wait_queue_block(t, q, timeout)
  PROVE  WQTypeOK'
BY AppendProperties DEF WQTypeOK, wait_queue_block, Blocked_state, Armed, Timeouts, Status

LEMMA BlockReturnType ==
  ASSUME WQTypeOK, NEW t \in Threads, wait_queue_block_return(t)
  PROVE  WQTypeOK'
BY DEF WQTypeOK, wait_queue_block_return, timer_cancel

LEMMA WakeOneType ==
  ASSUME WQTypeOK, NEW q \in Queues, NEW error \in Status, wait_queue_wake_one(q, error)
  PROVE  /\ WQTypeOK'
         /\ wait[q] # <<>> =>
              /\ wait[q][1] \in Threads
              /\ wait' = [wait EXCEPT ![q] = list_delete(wait[q], 1)]
              /\ state' = [state EXCEPT ![wait[q][1]] = "READY"]
              /\ block_ret' = [block_ret EXCEPT ![wait[q][1]] = error]
              /\ UNCHANGED <<call, timer, callback>>
         /\ wait[q] = <<>> => UNCHANGED wqvars
<1>1. CASE wait[q] = <<>>
  BY <1>1 DEF WQTypeOK, wait_queue_wake_one, wqvars
<1>2. CASE wait[q] # <<>>
  <2>1. 1 \in 1..Len(wait[q])
    BY <1>2, EmptySeq, LenProperties DEF WQTypeOK
  <2>2. wait[q][1] \in Threads /\ list_delete(wait[q], 1) \in Seq(Threads)
    BY <2>1, ElementOfSeq, DeleteProperties DEF WQTypeOK
  <2>3. /\ wait' = [wait EXCEPT ![q] = list_delete(wait[q], 1)]
        /\ state' = [state EXCEPT ![wait[q][1]] = "READY"]
        /\ block_ret' = [block_ret EXCEPT ![wait[q][1]] = error]
        /\ UNCHANGED <<call, timer, callback>>
    BY <1>2 DEF wait_queue_wake_one, ToWake
  <2> QED  BY <1>2, <2>2, <2>3 DEF WQTypeOK
<1> QED  BY <1>1, <1>2

LEMMA WakeAllType ==
  ASSUME WQTypeOK, NEW q \in Queues, NEW error \in Status, wait_queue_wake_all(q, error)
  PROVE  WQTypeOK'
BY DEF WQTypeOK, wait_queue_wake_all

LEMMA UnblockType ==
  ASSUME WQTypeOK, NEW t \in Threads, NEW error \in Status,
         thread_unblock_from_wait_queue(t, error)
  PROVE  /\ state' \in [Threads -> {"READY", "BLOCKED"}]
         /\ wait' \in [Queues -> Seq(Threads)]
         /\ block_ret' \in [Threads -> Status]
<1>1. CASE state[t] = "BLOCKED" /\ unblock(t, error)
  <2>1. PICK q \in Queues : \E i \in 1..Len(wait[q]) :
          wait[q][i] = t /\ wait' = [wait EXCEPT ![q] = list_delete(@, i)]
    BY <1>1, Zenon DEF unblock
  <2>2. PICK i \in 1..Len(wait[q]) : wait' = [wait EXCEPT ![q] = list_delete(@, i)]
    BY <2>1, Zenon
  <2>3. list_delete(wait[q], i) \in Seq(Threads)
    BY DeleteProperties DEF WQTypeOK
  <2> QED  BY <1>1, <2>2, <2>3, Zenon DEF WQTypeOK, unblock
<1>2. CASE UNCHANGED <<wait, state, block_ret>>
  BY <1>2 DEF WQTypeOK
<1> QED  BY <1>1, <1>2 DEF thread_unblock_from_wait_queue

LEMMA TimerStepType ==
  ASSUME WQTypeOK, TimerStep
  PROVE  WQTypeOK'
<1>1. ASSUME NEW c \in CPUs, NEW t \in Threads, timer_tick(c, t)  PROVE WQTypeOK'
  BY <1>1 DEF WQTypeOK, timer_tick
<1>2. ASSUME NEW c \in CPUs, NEW t \in Threads, wait_queue_timeout_handler(c, t)  PROVE WQTypeOK'
  <2>1. thread_unblock_from_wait_queue(t, "ERR_TIMED_OUT") /\ "ERR_TIMED_OUT" \in Status
    BY <1>2 DEF wait_queue_timeout_handler, Status
  <2> QED  BY <1>2, <2>1, UnblockType DEF WQTypeOK, wait_queue_timeout_handler
<1> QED  BY <1>1, <1>2 DEF TimerStep

-----------------------------------------------------------------------------
(* The list link that all queues share. *)

(* Linking a READY thread, as wait_queue_block() does. *)
LEMMA BlockLinks ==
  ASSUME WQTypeOK, LinkedIffBlocked, NEW t \in Threads, NEW q \in Queues,
         state[t] = "READY",
         wait' = [wait EXCEPT ![q] = Append(@, t)],
         state' = [state EXCEPT ![t] = "BLOCKED"]
  PROVE  LinkedIffBlocked'
<1>1. /\ Len(wait'[q]) = Len(wait[q]) + 1
      /\ \A i \in 1..Len(wait[q]) : wait'[q][i] = wait[q][i]
      /\ wait'[q][Len(wait[q]) + 1] = t
  BY AppendProperties DEF WQTypeOK
<1>2. \A p \in Queues : p # q => wait'[p] = wait[p]
  BY DEF WQTypeOK
<1>3. \A p \in Queues : /\ Len(wait[p]) \in Nat /\ DOMAIN wait[p] = 1..Len(wait[p])
                        /\ DOMAIN wait'[p] = 1..Len(wait'[p])
  BY AppendProperties, LenProperties DEF WQTypeOK
<1>4. \A p \in Queues : \A i \in DOMAIN wait[p] : wait[p][i] \in Threads /\ wait[p][i] # t
  BY ElementOfSeq, <1>3 DEF WQTypeOK, LinkedIffBlocked
<1>5. \A p \in Queues : \A i \in DOMAIN wait'[p] :
        \/ i \in DOMAIN wait[p] /\ wait'[p][i] = wait[p][i]
        \/ p = q /\ i = Len(wait[q]) + 1 /\ wait'[p][i] = t
  BY <1>1, <1>2, <1>3
<1>6. \A p \in Queues : \A i \in DOMAIN wait[p] : i \in DOMAIN wait'[p] /\ wait'[p][i] = wait[p][i]
  BY <1>1, <1>2, <1>3
<1>7. \A p \in Queues : \A i \in DOMAIN wait'[p] : state'[wait'[p][i]] = "BLOCKED"
  BY <1>4, <1>5 DEF WQTypeOK, LinkedIffBlocked
<1>8. ASSUME NEW u \in Threads, state'[u] = "BLOCKED"
      PROVE  \E p \in Queues : \E i \in DOMAIN wait'[p] : wait'[p][i] = u
  <2>1. CASE u = t
    <3>1. Len(wait[q]) + 1 \in DOMAIN wait'[q]
      BY <1>1, <1>3
    <3> QED  BY <1>1, <2>1, <3>1
  <2>2. CASE u # t
    <3>1. state[u] = "BLOCKED"
      BY <1>8, <2>2 DEF WQTypeOK
    <3> QED  BY <1>6, <3>1 DEF LinkedIffBlocked
  <2> QED  BY <2>1, <2>2
<1>9. \A p, r \in Queues : \A i \in DOMAIN wait'[p] : \A j \in DOMAIN wait'[r] :
        wait'[p][i] = wait'[r][j] => p = r /\ i = j
  BY <1>4, <1>5 DEF LinkedIffBlocked
<1> QED  BY <1>7, <1>8, <1>9 DEF LinkedIffBlocked

(* Unlinking one thread, as a wake, a timeout and an unblock do. *)
LEMMA RemoveLinks ==
  ASSUME WQTypeOK, LinkedIffBlocked, NEW q \in Queues, NEW n \in 1..Len(wait[q]),
         wait' = [wait EXCEPT ![q] = list_delete(@, n)],
         state' = [state EXCEPT ![wait[q][n]] = "READY"]
  PROVE  LinkedIffBlocked'
<1> DEFINE t == wait[q][n]
           Old(i) == IF i < n THEN i ELSE i + 1
<1>1. /\ wait'[q] \in Seq(Threads)
      /\ Len(wait'[q]) = Len(wait[q]) - 1
      /\ \A i \in 1..(Len(wait[q]) - 1) : wait'[q][i] = wait[q][Old(i)]
  <2>1. wait[q] \in Seq(Threads) /\ wait'[q] = list_delete(wait[q], n)
    BY DEF WQTypeOK
  <2> QED  BY <2>1, DeleteProperties, ZenonT(60)
<1>2. \A p \in Queues : p # q => wait'[p] = wait[p]
  BY DEF WQTypeOK
<1>3. \A p \in Queues : /\ Len(wait[p]) \in Nat /\ DOMAIN wait[p] = 1..Len(wait[p])
                        /\ DOMAIN wait'[p] = 1..Len(wait'[p])
  BY <1>1, <1>2, LenProperties DEF WQTypeOK
<1>4. /\ t \in Threads
      /\ \A p \in Queues : \A i \in DOMAIN wait[p] :
           wait[p][i] \in Threads /\ (wait[p][i] = t => p = q /\ i = n)
  BY ElementOfSeq, <1>3 DEF WQTypeOK, LinkedIffBlocked
<1>5. \A i \in DOMAIN wait'[q] : Old(i) \in DOMAIN wait[q] /\ Old(i) # n /\ wait'[q][i] = wait[q][Old(i)]
  BY <1>1, <1>3
<1>6. ASSUME NEW p \in Queues, NEW i \in DOMAIN wait'[p]
      PROVE  wait'[p][i] \in Threads /\ wait'[p][i] # t /\ state'[wait'[p][i]] = "BLOCKED"
  <2>1. wait'[p][i] \in Threads /\ wait'[p][i] # t /\ state[wait'[p][i]] = "BLOCKED"
    <3>1. CASE p = q
      <4>1. Old(i) \in DOMAIN wait[q] /\ Old(i) # n /\ wait'[q][i] = wait[q][Old(i)]
        BY <1>5, <3>1
      <4> HIDE DEF Old, t
      <4> QED  BY <1>4, <3>1, <4>1 DEF LinkedIffBlocked
    <3>2. CASE p # q
      BY <1>2, <1>4, <3>2 DEF LinkedIffBlocked
    <3> QED  BY <3>1, <3>2
  <2> QED  BY <2>1, <1>4 DEF WQTypeOK
<1>7. ASSUME NEW u \in Threads, state'[u] = "BLOCKED"
      PROVE  \E p \in Queues : \E i \in DOMAIN wait'[p] : wait'[p][i] = u
  <2>1. u # t /\ state[u] = "BLOCKED"
    BY <1>7, <1>4 DEF WQTypeOK
  <2>2. PICK p \in Queues : \E i \in DOMAIN wait[p] : wait[p][i] = u
    BY <2>1 DEF LinkedIffBlocked
  <2>3. PICK i \in DOMAIN wait[p] : wait[p][i] = u
    BY <2>2
  <2>4. CASE p # q
    BY <1>2, <2>3, <2>4
  <2>5. CASE p = q /\ i < n
    <3>1. i \in DOMAIN wait'[q] /\ wait'[q][i] = wait[q][i]
      BY <1>1, <1>3, <2>3, <2>5
    <3> QED  BY <2>3, <2>5, <3>1
  <2>6. CASE p = q /\ i > n
    <3>1. i - 1 \in DOMAIN wait'[q] /\ wait'[q][i - 1] = wait[q][i]
      BY <1>1, <1>3, <2>3, <2>6
    <3> QED  BY <2>3, <2>6, <3>1
  <2>7. i \in Nat /\ (p = q => i # n)
    BY <1>3, <2>1, <2>3
  <2> QED  BY <2>4, <2>5, <2>6, <2>7
<1>8. ASSUME NEW p \in Queues, NEW r \in Queues, NEW i \in DOMAIN wait'[p], NEW j \in DOMAIN wait'[r],
             wait'[p][i] = wait'[r][j]
      PROVE  p = r /\ i = j
  <2>1. CASE p = q /\ r = q
    <3>1. /\ Old(i) \in DOMAIN wait[q] /\ wait'[q][i] = wait[q][Old(i)]
          /\ Old(j) \in DOMAIN wait[q] /\ wait'[q][j] = wait[q][Old(j)]
      BY <1>5, <2>1
    <3>2. Old(i) = Old(j)
      <4> HIDE DEF Old
      <4> QED  BY <1>8, <2>1, <3>1 DEF LinkedIffBlocked
    <3>3. i \in Nat /\ j \in Nat
      BY <1>1, <1>3, <2>1
    <3> QED  BY <2>1, <3>2, <3>3
  <2>2. CASE p = q /\ r # q
    <3>1. /\ Old(i) \in DOMAIN wait[q] /\ wait'[q][i] = wait[q][Old(i)]
          /\ j \in DOMAIN wait[r] /\ wait'[r][j] = wait[r][j]
      BY <1>2, <1>5, <2>2
    <3> HIDE DEF Old
    <3> QED  BY <1>8, <2>2, <3>1 DEF LinkedIffBlocked
  <2>3. CASE p # q /\ r = q
    <3>1. /\ Old(j) \in DOMAIN wait[q] /\ wait'[q][j] = wait[q][Old(j)]
          /\ i \in DOMAIN wait[p] /\ wait'[p][i] = wait[p][i]
      BY <1>2, <1>5, <2>3
    <3> HIDE DEF Old
    <3> QED  BY <1>8, <2>3, <3>1 DEF LinkedIffBlocked
  <2>4. CASE p # q /\ r # q
    BY <1>2, <1>8, <2>4 DEF LinkedIffBlocked
  <2> QED  BY <2>1, <2>2, <2>3, <2>4
<1> QED  BY <1>6, <1>7, <1>8 DEF LinkedIffBlocked

(* Unlinking every thread of one queue, as wake_all and destroy do. *)
LEMMA WakeAllLinks ==
  ASSUME WQTypeOK, LinkedIffBlocked, NEW q \in Queues, NEW error \in Status,
         wait_queue_wake_all(q, error)
  PROVE  LinkedIffBlocked'
<1> DEFINE woken == {wait[q][i] : i \in DOMAIN wait[q]}
<1>1. /\ wait'[q] = <<>>
      /\ \A p \in Queues : p # q => wait'[p] = wait[p]
      /\ state' = [t \in Threads |-> IF t \in woken THEN "READY" ELSE state[t]]
  BY DEF WQTypeOK, wait_queue_wake_all
<1>2. \A p \in Queues : \A i \in DOMAIN wait[p] : wait[p][i] \in Threads
  BY ElementOfSeq, LenProperties DEF WQTypeOK
<1>3. \A p \in Queues : \A i \in DOMAIN wait'[p] : p # q /\ i \in DOMAIN wait[p] /\ wait'[p][i] = wait[p][i]
  BY <1>1
<1>4. \A p \in Queues : \A i \in DOMAIN wait'[p] : wait'[p][i] \in Threads \ woken
  BY <1>2, <1>3 DEF LinkedIffBlocked
<1>5. \A p \in Queues : \A i \in DOMAIN wait'[p] : state'[wait'[p][i]] = "BLOCKED"
  <2> HIDE DEF woken
  <2> QED  BY <1>1, <1>3, <1>4 DEF LinkedIffBlocked
<1>6. ASSUME NEW t \in Threads, state'[t] = "BLOCKED"
      PROVE  \E p \in Queues : \E i \in DOMAIN wait'[p] : wait'[p][i] = t
  <2>1. t \notin woken /\ state[t] = "BLOCKED"
    <3> HIDE DEF woken
    <3> QED  BY <1>1, <1>6
  <2>2. PICK p \in Queues : \E i \in DOMAIN wait[p] : wait[p][i] = t
    BY <2>1 DEF LinkedIffBlocked
  <2> QED  BY <1>1, <2>1, <2>2
<1>7. \A p, r \in Queues : \A i \in DOMAIN wait'[p] : \A j \in DOMAIN wait'[r] :
        wait'[p][i] = wait'[r][j] => p = r /\ i = j
  BY <1>3 DEF LinkedIffBlocked
<1> QED  BY <1>5, <1>6, <1>7 DEF LinkedIffBlocked

(* The wait queue keeps its types for every client. *)
THEOREM WQTypeCorrect == WQSpec => []WQTypeOK
<1>1. WQInit => WQTypeOK
  BY DEF WQInit, WQTypeOK, Status, Timeouts
<1>2. WQTypeOK /\ [WQNext]_wqvars => WQTypeOK'
  <2> SUFFICES ASSUME WQTypeOK, [WQNext]_wqvars  PROVE WQTypeOK'
    OBVIOUS
  <2>1. ASSUME NEW t \in Threads, Block(t)  PROVE WQTypeOK'
    BY <2>1, BlockType DEF Block
  <2>2. ASSUME WakeOne  PROVE WQTypeOK'
    BY <2>2, WakeOneType DEF WakeOne, WakeStatus
  <2>3. ASSUME WakeAll  PROVE WQTypeOK'
    BY <2>3, WakeAllType DEF WakeAll, WakeStatus
  <2>4. ASSUME Unblock  PROVE WQTypeOK'
    BY <2>4, UnblockType DEF Unblock, WakeStatus, WQTypeOK
  <2>5. ASSUME NEW t \in Threads, wait_queue_block_return(t)  PROVE WQTypeOK'
    BY <2>5, BlockReturnType
  <2>6. ASSUME NEW t \in Threads, Create(t)  PROVE WQTypeOK'
    BY <2>6 DEF Create, WQTypeOK, Status
  <2>7. CASE TimerStep
    BY <2>7, TimerStepType
  <2>8. CASE UNCHANGED wqvars
    BY <2>8 DEF WQTypeOK, wqvars
  <2> QED  BY <2>1, <2>2, <2>3, <2>4, <2>5, <2>6, <2>7, <2>8 DEF WQNext
<1> QED  BY <1>1, <1>2, PTL DEF WQSpec

-----------------------------------------------------------------------------
(* Each wait-queue operation keeps WQSound, whoever calls it. *)
LEMMA BlockSound ==
  ASSUME WQSound, NEW t \in Threads, NEW q \in Queues, NEW timeout \in Timeouts,
         state[t] = "READY", wait_queue_block(t, q, timeout)
  PROVE  WQSound'
<1>1. WQTypeOK' /\ WQTypeOK
  BY BlockType DEF WQSound
<1>2. LinkedIffBlocked'
  BY BlockLinks, Zenon DEF WQSound, wait_queue_block, Blocked_state
<1>3. TimeoutPending'
  BY <1>1, Zenon DEF WQSound, WQTypeOK, TimeoutPending, wait_queue_block, Armed
<1> QED  BY <1>1, <1>2, <1>3 DEF WQSound

LEMMA BlockReturnSound ==
  ASSUME WQSound, NEW t \in Threads, wait_queue_block_return(t)
  PROVE  WQSound'
<1>1. WQTypeOK'
  BY BlockReturnType DEF WQSound
<1>2. LinkedIffBlocked'
  BY DEF WQSound, LinkedIffBlocked, wait_queue_block_return
<1>3. TimeoutPending'
  BY DEF WQSound, WQTypeOK, TimeoutPending, wait_queue_block_return, timer_cancel, CanRun
<1> QED  BY <1>1, <1>2, <1>3 DEF WQSound

LEMMA WakeOneSound ==
  ASSUME WQSound, NEW q \in Queues, NEW error \in Status, wait_queue_wake_one(q, error)
  PROVE  WQSound'
<1>1. WQTypeOK /\ WQTypeOK'
  BY WakeOneType DEF WQSound
<1>2. CASE wait[q] = <<>>
  <2>1. UNCHANGED wqvars
    BY <1>1, <1>2, WakeOneType
  <2> QED  BY <2>1 DEF WQSound, WQTypeOK, LinkedIffBlocked, TimeoutPending, wqvars
<1>3. CASE wait[q] # <<>>
  <2>1. 1 \in 1..Len(wait[q])
    BY <1>1, <1>3, EmptySeq, LenProperties DEF WQTypeOK
  <2>2. /\ wait[q][1] \in Threads
        /\ wait' = [wait EXCEPT ![q] = list_delete(wait[q], 1)]
        /\ state' = [state EXCEPT ![wait[q][1]] = "READY"]
        /\ UNCHANGED <<call, timer, callback>>
    BY <1>1, <1>3, WakeOneType
  <2>3. LinkedIffBlocked'
    BY <2>1, <2>2, RemoveLinks, Zenon DEF WQSound
  <2>4. TimeoutPending'
    BY <1>1, <2>2 DEF WQSound, WQTypeOK, TimeoutPending
  <2> QED  BY <1>1, <2>3, <2>4 DEF WQSound
<1> QED  BY <1>2, <1>3

LEMMA WakeAllSound ==
  ASSUME WQSound, NEW q \in Queues, NEW error \in Status, wait_queue_wake_all(q, error)
  PROVE  WQSound'
<1>1. WQTypeOK' /\ LinkedIffBlocked'
  BY WakeAllType, WakeAllLinks DEF WQSound
<1>2. TimeoutPending'
  BY DEF WQSound, WQTypeOK, TimeoutPending, wait_queue_wake_all
<1> QED  BY <1>1, <1>2 DEF WQSound

(* An unblock leaves the lists and states in order, and the thread READY. *)
LEMMA UnblockLinks ==
  ASSUME WQTypeOK, LinkedIffBlocked, NEW t \in Threads, NEW error \in Status,
         thread_unblock_from_wait_queue(t, error)
  PROVE  /\ LinkedIffBlocked'
         /\ state'[t] = "READY"
         /\ \A u \in Threads : u # t => state'[u] = state[u] /\ block_ret'[u] = block_ret[u]
         /\ state[t] = "READY" => block_ret'[t] = block_ret[t]
<1>1. CASE state[t] = "BLOCKED" /\ unblock(t, error)
  <2>1. PICK q \in Queues : \E i \in 1..Len(wait[q]) :
          wait[q][i] = t /\ wait' = [wait EXCEPT ![q] = list_delete(@, i)]
    BY <1>1, Zenon DEF unblock
  <2>2. PICK i \in 1..Len(wait[q]) : wait[q][i] = t /\ wait' = [wait EXCEPT ![q] = list_delete(@, i)]
    BY <2>1, Zenon
  <2>3. state' = [state EXCEPT ![wait[q][i]] = "READY"]
    BY <1>1, <2>2 DEF unblock
  <2>4. LinkedIffBlocked'
    BY <2>2, <2>3, RemoveLinks, Zenon
  <2> QED  BY <1>1, <2>4 DEF WQTypeOK, unblock
<1>2. CASE state[t] # "BLOCKED" /\ UNCHANGED <<wait, state, block_ret>>
  BY <1>2 DEF WQTypeOK, LinkedIffBlocked
<1> QED  BY <1>1, <1>2 DEF thread_unblock_from_wait_queue

LEMMA TimerStepSound ==
  ASSUME WQSound, TimerStep
  PROVE  WQSound'
<1>1. WQTypeOK /\ WQTypeOK'
  BY TimerStepType DEF WQSound
<1>2. ASSUME NEW c \in CPUs, NEW t \in Threads, timer_tick(c, t)
      PROVE  LinkedIffBlocked' /\ TimeoutPending'
  <2>1. LinkedIffBlocked'
    BY <1>2 DEF WQSound, LinkedIffBlocked, timer_tick
  <2>2. ASSUME NEW u \in Threads, state'[u] = "BLOCKED", call'[u] = "finite"
        PROVE  timer'[u] \/ \E d \in CPUs : callback'[d] = u
    <3>1. timer[u] \/ \E d \in CPUs : callback[d] = u
      BY <1>2, <2>2 DEF WQSound, TimeoutPending, timer_tick
    <3>2. u # t => timer'[u] = timer[u]
      BY <1>1, <1>2 DEF WQTypeOK, timer_tick
    <3>3. callback'[c] = t /\ \A d \in CPUs : callback[d] = u => callback'[d] = u
      BY <1>1, <1>2, NullIsNoThread DEF WQTypeOK, timer_tick
    <3> QED  BY <3>1, <3>2, <3>3
  <2> QED  BY <2>1, <2>2 DEF TimeoutPending
<1>3. ASSUME NEW c \in CPUs, NEW t \in Threads, wait_queue_timeout_handler(c, t)
      PROVE  LinkedIffBlocked' /\ TimeoutPending'
  <2>1. thread_unblock_from_wait_queue(t, "ERR_TIMED_OUT") /\ "ERR_TIMED_OUT" \in Status
    BY <1>3 DEF wait_queue_timeout_handler, Status
  <2>2. /\ LinkedIffBlocked' /\ state'[t] = "READY"
        /\ \A u \in Threads : u # t => state'[u] = state[u]
    BY <2>1, UnblockLinks DEF WQSound
  <2>3. ASSUME NEW u \in Threads, state'[u] = "BLOCKED", call'[u] = "finite"
        PROVE  timer'[u] \/ \E d \in CPUs : callback'[d] = u
    <3>1. u # t /\ state[u] = "BLOCKED" /\ call[u] = "finite"
      BY <1>3, <2>2, <2>3 DEF wait_queue_timeout_handler
    <3>2. timer[u] \/ \E d \in CPUs : callback[d] = u
      BY <3>1 DEF WQSound, TimeoutPending
    <3>3. \A d \in CPUs : callback[d] = u => callback'[d] = u
      BY <1>1, <1>3, <3>1 DEF WQTypeOK, wait_queue_timeout_handler
    <3> QED  BY <1>3, <3>2, <3>3 DEF wait_queue_timeout_handler
  <2> QED  BY <2>2, <2>3 DEF TimeoutPending
<1> QED  BY <1>1, <1>2, <1>3 DEF WQSound, TimerStep

(* Every step of the general client keeps WQSound. *)
LEMMA WQStepSound ==
  ASSUME WQSound, [WQNext]_wqvars
  PROVE  WQSound'
<1>1. ASSUME NEW t \in Threads, Block(t)  PROVE WQSound'
  BY <1>1, BlockSound DEF Block, Running, CanRun
<1>2. ASSUME NEW t \in Threads, wait_queue_block_return(t)  PROVE WQSound'
  BY <1>2, BlockReturnSound
<1>3. ASSUME NEW t \in Threads, Create(t)  PROVE WQSound'
  BY <1>3 DEF Create, WQSound, WQTypeOK, LinkedIffBlocked, TimeoutPending, Status
<1>4. ASSUME WakeOne  PROVE WQSound'
  BY <1>4, WakeOneSound DEF WakeOne, WakeStatus
<1>5. ASSUME WakeAll  PROVE WQSound'
  BY <1>5, WakeAllSound DEF WakeAll, WakeStatus
<1>6. ASSUME Unblock  PROVE WQSound'
  <2>1. PICK t \in Threads : \E error \in WakeStatus : thread_unblock_from_wait_queue(t, error)
    BY <1>6 DEF Unblock
  <2>2. PICK error \in Status : thread_unblock_from_wait_queue(t, error)
    BY <2>1 DEF WakeStatus
  <2>3. WQTypeOK'
    BY <1>6, <2>2, UnblockType DEF WQSound, WQTypeOK, Unblock
  <2>4. /\ LinkedIffBlocked' /\ state'[t] = "READY"
        /\ \A u \in Threads : u # t => state'[u] = state[u]
    BY <2>2, UnblockLinks DEF WQSound
  <2>5. TimeoutPending'
    BY <1>6, <2>4 DEF Unblock, WQSound, TimeoutPending
  <2> QED  BY <2>3, <2>4, <2>5 DEF WQSound
<1>7. CASE TimerStep
  BY <1>7, TimerStepSound
<1>8. CASE UNCHANGED wqvars
  BY <1>8 DEF WQSound, WQTypeOK, LinkedIffBlocked, TimeoutPending, wqvars
<1> QED  BY <1>1, <1>2, <1>3, <1>4, <1>5, <1>6, <1>7, <1>8 DEF WQNext

(* Wait queues are sound for every client: a thread is BLOCKED exactly     *)
(* when it is linked into one queue, once, and a finite wait has its timer *)
(* or its handler pending, whatever blocks, wakes, timeouts and destroys   *)
(* race in thread.c.                                                       *)
THEOREM WaitQueuesSound == WQSpec => []WQSound
<1>1. WQInit => WQSound
  <2> SUFFICES ASSUME WQInit  PROVE WQSound
    OBVIOUS
  <2>1. WQTypeOK
    BY DEF WQInit, WQTypeOK, Status, Timeouts
  <2>2. LinkedIffBlocked /\ TimeoutPending
    BY DEF WQInit, LinkedIffBlocked, TimeoutPending
  <2> QED  BY <2>1, <2>2 DEF WQSound
<1> QED  BY <1>1, WQStepSound, PTL DEF WQSpec

(* On any number of CPUs a thread is BLOCKED exactly while one wait queue  *)
(* links it, once: wakes, timeouts and destroys never take the node of     *)
(* thread.c from a list it is not in.                                      *)
THEOREM WaitsLinked == WQSpec => []LinkedIffBlocked
BY WaitQueuesSound, PTL DEF WQSound

(* wait_queue_block() with a finite timeout never sleeps without its timer *)
(* queued or its handler entered.                                          *)
THEOREM WaitsTimed == WQSpec => []TimeoutPending
BY WaitQueuesSound, PTL DEF WQSound

(* A wake is final for every client: of the wake, the timeout and the      *)
(* destroy that race for a waiter, the first decides its status, and       *)
(* nothing takes it back before wait_queue_block() returns it.             *)
THEOREM WakesAreFinal == WQSpec => WakeIsFinal
<1> DEFINE Final == \A t \in Threads : call[t] # "none" /\ state[t] = "READY" /\ call'[t] = call[t] =>
                      block_ret'[t] = block_ret[t] /\ state'[t] = "READY"
<1>1. WQSound /\ [WQNext]_wqvars => [Final]_wqvars
  <2> SUFFICES ASSUME WQSound, WQNext,
                      NEW t \in Threads, call[t] # "none", state[t] = "READY", call'[t] = call[t]
               PROVE  block_ret'[t] = block_ret[t] /\ state'[t] = "READY"
    OBVIOUS
  <2>0. WQTypeOK /\ \A q \in Queues : \A i \in DOMAIN wait[q] : wait[q][i] # t
    BY DEF WQSound, LinkedIffBlocked
  <2>1. ASSUME NEW u \in Threads, Block(u)  PROVE block_ret'[t] = block_ret[t] /\ state'[t] = "READY"
    BY <2>0, <2>1 DEF Block, Running, wait_queue_block, WQTypeOK
  <2>2. ASSUME NEW u \in Threads, wait_queue_block_return(u)
        PROVE  block_ret'[t] = block_ret[t] /\ state'[t] = "READY"
    BY <2>2 DEF wait_queue_block_return
  <2>3. ASSUME NEW u \in Threads, Create(u)  PROVE block_ret'[t] = block_ret[t] /\ state'[t] = "READY"
    BY <2>0, <2>3 DEF Create, WQTypeOK
  <2>4. ASSUME NEW q \in Queues, NEW error \in Status, wait_queue_wake_one(q, error)
        PROVE  block_ret'[t] = block_ret[t] /\ state'[t] = "READY"
    <3>1. CASE wait[q] = <<>>
      BY <2>0, <2>4, <3>1, WakeOneType DEF wqvars
    <3>2. CASE wait[q] # <<>>
      <4>1. wait[q][1] # t
        BY <2>0, <3>2, EmptySeq, LenProperties DEF WQTypeOK
      <4> QED  BY <2>0, <2>4, <3>2, <4>1, WakeOneType DEF WQTypeOK
    <3> QED  BY <3>1, <3>2
  <2>5. ASSUME NEW q \in Queues, NEW error \in Status, wait_queue_wake_all(q, error)
        PROVE  block_ret'[t] = block_ret[t] /\ state'[t] = "READY"
    BY <2>0, <2>5 DEF wait_queue_wake_all
  <2>6. ASSUME NEW u \in Threads, NEW error \in Status, thread_unblock_from_wait_queue(u, error)
        PROVE  block_ret'[t] = block_ret[t] /\ state'[t] = "READY"
    BY <2>6, UnblockLinks DEF WQSound
  <2>7. ASSUME NEW c \in CPUs, NEW u \in Threads, timer_tick(c, u) \/ wait_queue_timeout_handler(c, u)
        PROVE  block_ret'[t] = block_ret[t] /\ state'[t] = "READY"
    <3>1. CASE timer_tick(c, u)
      BY <3>1 DEF timer_tick
    <3>2. CASE wait_queue_timeout_handler(c, u)
      BY <2>6, <3>2 DEF wait_queue_timeout_handler, Status
    <3> QED  BY <2>7, <3>1, <3>2
  <2> QED  BY <2>1, <2>2, <2>3, <2>4, <2>5, <2>6, <2>7
           DEF WQNext, WakeOne, WakeAll, Unblock, TimerStep, WakeStatus
<1>2. WQSpec => [][Final]_wqvars
  BY <1>1, WaitQueuesSound, PTL DEF WQSpec
<1> QED  BY <1>2 DEF WakeIsFinal

-----------------------------------------------------------------------------
(* What the objects on a wait queue need to know of it. *)

(* A thread that is not BLOCKED is on no queue. *)
LEMMA ReadyIsUnlinked ==
  ASSUME WQSound, NEW q \in Queues, NEW i \in DOMAIN wait[q]
  PROVE  wait[q][i] \in Threads /\ state[wait[q][i]] = "BLOCKED"
BY ElementOfSeq, LenProperties DEF WQSound, WQTypeOK, LinkedIffBlocked

(* What is left of a queue after a removal was on it before. *)
LEMMA RemovedFrom ==
  ASSUME NEW S, NEW s \in Seq(S), NEW n \in 1..Len(s), NEW i \in DOMAIN list_delete(s, n)
  PROVE  \E j \in DOMAIN s : s[j] = list_delete(s, n)[i]
<1>1. i \in 1..(Len(s) - 1) /\ Len(s) \in Nat
  BY DeleteProperties, LenProperties
<1>2. list_delete(s, n)[i] = s[IF i < n THEN i ELSE i + 1]
  BY <1>1, DeleteProperties, Zenon
<1>3. (IF i < n THEN i ELSE i + 1) \in DOMAIN s
  BY <1>1, LenProperties
<1> QED  BY <1>2, <1>3

(* wait_queue_wake_one() and a timeout add nobody to a queue. *)
LEMMA WakeOneShrinks ==
  ASSUME WQTypeOK, NEW q \in Queues, NEW error \in Status, wait_queue_wake_one(q, error)
  PROVE  \A p \in Queues : \A i \in DOMAIN wait'[p] : \E j \in DOMAIN wait[p] : wait[p][j] = wait'[p][i]
<1>1. CASE wait[q] = <<>>
  BY <1>1, WakeOneType DEF wqvars
<1>2. CASE wait[q] # <<>>
  <2>1. /\ wait[q] \in Seq(Threads) /\ 1 \in 1..Len(wait[q])
        /\ wait'[q] = list_delete(wait[q], 1)
        /\ \A p \in Queues : p # q => wait'[p] = wait[p]
    BY <1>2, WakeOneType, EmptySeq, LenProperties DEF WQTypeOK
  <2> QED  BY <2>1, RemovedFrom
<1> QED  BY <1>1, <1>2

LEMMA TimerStepShrinks ==
  ASSUME WQTypeOK, TimerStep
  PROVE  \A p \in Queues : \A i \in DOMAIN wait'[p] : \E j \in DOMAIN wait[p] : wait[p][j] = wait'[p][i]
<1>1. CASE UNCHANGED wait
  BY <1>1
<1>2. CASE \E q \in Queues : \E n \in 1..Len(wait[q]) : wait' = [wait EXCEPT ![q] = list_delete(@, n)]
  <2>1. PICK q \in Queues : \E n \in 1..Len(wait[q]) : wait' = [wait EXCEPT ![q] = list_delete(@, n)]
    BY <1>2, Zenon
  <2>2. PICK n \in 1..Len(wait[q]) : wait' = [wait EXCEPT ![q] = list_delete(@, n)]
    BY <2>1, Zenon
  <2>3. /\ wait[q] \in Seq(Threads) /\ wait'[q] = list_delete(wait[q], n)
        /\ \A p \in Queues : p # q => wait'[p] = wait[p]
    BY <2>2 DEF WQTypeOK
  <2> QED  BY <2>3, RemovedFrom
<1> QED
  BY <1>1, <1>2 DEF TimerStep, timer_tick, wait_queue_timeout_handler, thread_unblock_from_wait_queue, unblock

(* A list without a thread on it is empty. *)
LEMMA NobodyLinked ==
  ASSUME WQTypeOK, NEW q \in Queues, DOMAIN wait[q] = {}
  PROVE  wait[q] = <<>>
<1>1. /\ wait[q] \in Seq(Threads) /\ Len(wait[q]) \in Nat
      /\ DOMAIN wait[q] = 1..Len(wait[q])
  BY LenProperties, Zenon DEF WQTypeOK
<1>2. 1 \notin 1..Len(wait[q])
  BY <1>1, Zenon
<1>3. Len(wait[q]) = 0
  BY <1>1, <1>2
<1> QED  BY <1>1, <1>3, EmptySeq
=============================================================================
