------------------------------- MODULE Timer -------------------------------
(***************************************************************************)
(* kernel/timer.c with PLATFORM_HAS_DYNAMIC_TIMER: per-CPU queues ordered  *)
(* by a wrapping clock, a one-shot hardware timer per CPU, and timer_tick()*)
(* as the steps between which it holds timer_lock.                         *)
(*                                                                         *)
(* left[tm] is history: the time to the real expiry of tm, as an integer   *)
(* that does not wrap.                                                     *)
(***************************************************************************)
EXTENDS Integers, Sequences, FiniteSets, SequencesExt

CONSTANTS
  CPUs,
  Timers,
  Half,          \* 2^31: times are modulo 2 * Half (lk_time_t is 32 bits wide)
  Delays,        \* the delays callers of timer_set_oneshot() pass
  Periods,       \* the periods callers of timer_set_periodic() pass
  MaxLate,       \* bound on the delay of an interrupt, a handler, a lock
  NULL

ASSUME DelaysType == Delays \cup Periods \subseteq Nat
ASSUME HalfType == Half \in Nat \ {0}
ASSUME LateType == MaxLate \in Nat
ASSUME CPUsType == "thread" \notin CPUs

(* What a timer_set() that has read the clock still needs.                 *)
Settings == [delay : Nat, context : CPUs \cup {"thread"}]
ASSUME TimersType == IsFiniteSet(Timers) /\ NULL \notin Timers \cup Int \cup Settings

(* The wrapping comparisons see times less than Half apart: a delay, and   *)
(* what an interrupt, a handler and a lock can add to it, fit in there.    *)
Spread == 3 * MaxLate
ASSUME DelaysFit == \A d \in Delays \cup Periods \cup {1} : d + Spread <= Half

VARIABLES
  now,           \* current_time()
  queue,         \* timers[cpu].timer_queue, head first
  scheduled_time, periodic_time,
  callback,      \* timer->callback # NULL
  setting,       \* a timer_set() of tm that has read the clock, or NULL
  hw,            \* time to the interrupt of the CPU's hardware timer, or NULL
  tick,          \* where the CPU's timer_tick() is, and its locals
  left

timervars == <<queue, scheduled_time, periodic_time, callback>>
alltimervars == <<now, timervars, setting, hw, tick, left>>

(* The comparisons of sys/types.h, on the 32 bit difference as signed. *)
TimeWrap(x) == x % (2 * Half)
Signed(x) == IF TimeWrap(x) >= Half THEN TimeWrap(x) - 2 * Half ELSE TimeWrap(x)
TIME_GT_unsigned(a, b) == a > b   \* mutants: comparisons that ignore the wrap
TIME_LT_unsigned(a, b) == a < b
TIME_GT(a, b) == Signed(a - b) > 0
TIME_LT(a, b) == Signed(a - b) < 0

InQueue(tm, q) == \E c \in CPUs : \E i \in DOMAIN q[c] : q[c][i] = tm
NoTick == [phase |-> "idle", timer |-> NULL, now |-> 0, periodic |-> FALSE]
InFlight(tm) == \E c \in CPUs : tick[c].timer = tm
Active(tm) == InQueue(tm, queue) \/ InFlight(tm) \/ setting[tm] # NULL

TimerInit ==
  /\ now = 0
  /\ queue = [c \in CPUs |-> <<>>]
  /\ scheduled_time = [tm \in Timers |-> 0]
  /\ periodic_time = [tm \in Timers |-> 0]
  /\ callback = [tm \in Timers |-> FALSE]
  /\ setting = [tm \in Timers |-> NULL]
  /\ hw = [c \in CPUs |-> NULL]
  /\ tick = [c \in CPUs |-> NoTick]
  /\ left = [tm \in Timers |-> 0]

LateFloor == -Spread   \* left[tm] is not counted further down

(* A millisecond passes.  An interrupt is taken, a timer_set() that has    *)
(* read the clock takes the lock, and a timer_tick() ends within MaxLate.  *)
Clock ==
  /\ \A c \in CPUs : /\ hw[c] # NULL => hw[c] > -MaxLate
                     /\ tick[c].phase # "idle" => TimeWrap(now - tick[c].now) < MaxLate
  /\ \A tm \in Timers : setting[tm] # NULL => left[tm] > setting[tm].delay - MaxLate
  /\ now' = TimeWrap(now + 1)
  /\ hw' = [c \in CPUs |-> IF hw[c] = NULL THEN NULL ELSE hw[c] - 1]
  /\ left' = [tm \in Timers |-> IF ~Active(tm) THEN 0 ELSE IF left[tm] = LateFloor THEN LateFloor ELSE left[tm] - 1]
  /\ UNCHANGED <<timervars, setting, tick>>

(* The queue q with tm before the first entry that expires later. *)
insert_timer_in_queue(q, tm, time) ==
  LET later == SelectInSeq(q, LAMBDA entry : TIME_GT(scheduled_time[entry], time))
  IN  InsertAt(q, IF later = 0 THEN Len(q) + 1 ELSE later, tm)

(* Code that may call timer_set() and timer_cancel() on CPU c: threads and *)
(* other handlers, which may move to another CPU, or a timer's callback.   *)
Runs(c) == tick[c].phase \in {"idle", "callback"}
Context(c) == IF tick[c].phase = "callback" THEN c ELSE "thread"

Expiry_no_wrap(delay) == now + delay   \* mutant
Expiry(delay) == TimeWrap(now + delay)

(* timer_set() up to the lock.  A linked timer is the panic of timer_set().*)
(* Of its callers the model assumes only that two do not set one timer at  *)
(* once; another CPU may have it off the queue to call it.                 *)
timer_set(c, tm, delay, period) ==
  /\ Runs(c)
  /\ ~InQueue(tm, queue) /\ setting[tm] = NULL
  /\ scheduled_time' = [scheduled_time EXCEPT ![tm] = Expiry(delay)]
  /\ periodic_time' = [periodic_time EXCEPT ![tm] = period]
  /\ callback' = [callback EXCEPT ![tm] = TRUE]
  /\ setting' = [setting EXCEPT ![tm] = [delay |-> delay, context |-> Context(c)]]
  /\ left' = [left EXCEPT ![tm] = delay]
  /\ UNCHANGED <<now, queue, hw, tick>>

timer_set_oneshot(c, tm, delay) == timer_set(c, tm, IF delay = 0 THEN 1 ELSE delay, 0)

timer_set_periodic(c, tm, period) ==
  LET p == IF period = 0 THEN 1 ELSE period IN timer_set(c, tm, p, p)

IsHead_unchecked(q, tm) == TRUE   \* mutant
IsHead(q, tm) == Head(q) = tm

(* The rest of timer_set(), under the lock, on the CPU it runs on by now.  *)
(* A periodic timer that a timer_tick() has requeued since is linked twice,*)
(* and the lists are broken.                                               *)
timer_set_insert(c, tm) ==
  /\ setting[tm] # NULL
  /\ Runs(c) /\ setting[tm].context = Context(c)
  /\ \/ /\ InQueue(tm, queue)
        /\ tick' = [tick EXCEPT ![c].phase = "broken"]
        /\ UNCHANGED <<queue, hw>>
     \/ /\ ~InQueue(tm, queue)
        /\ LET q == insert_timer_in_queue(queue[c], tm, scheduled_time[tm]) IN
             /\ queue' = [queue EXCEPT ![c] = q]
             /\ hw' = IF IsHead(q, tm) THEN [hw EXCEPT ![c] = setting[tm].delay] ELSE hw
        /\ UNCHANGED tick
  /\ setting' = [setting EXCEPT ![tm] = NULL]
  /\ UNCHANGED <<now, scheduled_time, periodic_time, callback, left>>

(* Time until the hardware timer must fire for tm, as timer_cancel() and   *)
(* timer_tick() compute it at time t.                                      *)
DelayAt(tm, t) == IF TIME_LT(scheduled_time[tm], t) THEN 0 ELSE TimeWrap(scheduled_time[tm] - t)

Unlinked(tm) == [d \in CPUs |-> SelectSeq(queue[d], LAMBDA entry : entry # tm)]

(* timer_cancel(), at any time: also of a timer that a timer_set() is      *)
(* about to queue, or that another CPU has taken off its queue to call.    *)
timer_cancel(c, tm) ==
  /\ Runs(c)
  /\ LET q == Unlinked(tm) IN
       /\ queue' = q
       /\ hw' = [hw EXCEPT ![c] =
                   IF q[c] = <<>> THEN NULL
                   ELSE IF Head(q[c]) # Head(queue[c]) THEN DelayAt(Head(q[c]), now)
                   ELSE @]
  /\ periodic_time' = [periodic_time EXCEPT ![tm] = 0]
  /\ callback' = [callback EXCEPT ![tm] = FALSE]
  /\ UNCHANGED <<now, scheduled_time, setting, tick, left>>

(* What timer_tick() leaves the hardware timer at. *)
Rearm(q, t, armed) == IF q = <<>> THEN armed ELSE TimeWrap(scheduled_time'[Head(q)] - t)

(* The loop of timer_tick() with the lock held: dequeue the head if it has *)
(* expired at time t, else program the hardware for it and leave.          *)
timer_tick_scan(c, q, t, armed) ==
  LET expired == q # <<>> /\ ~TIME_LT(t, scheduled_time'[Head(q)]) IN
  \/ /\ expired
     /\ queue' = [queue EXCEPT ![c] = Tail(q)]
     /\ tick' = [tick EXCEPT ![c] = [phase |-> "dequeued", timer |-> Head(q), now |-> t, periodic |-> FALSE]]
     /\ hw' = [hw EXCEPT ![c] = armed]
  \/ /\ ~expired
     /\ queue' = [queue EXCEPT ![c] = q]
     /\ tick' = [tick EXCEPT ![c] = NoTick]
     /\ hw' = [hw EXCEPT ![c] = Rearm(q, t, armed)]

(* The hardware timer interrupt. *)
timer_tick(c) ==
  /\ hw[c] # NULL /\ hw[c] <= 0
  /\ tick[c].phase = "idle"
  /\ UNCHANGED scheduled_time
  /\ timer_tick_scan(c, queue[c], now, NULL)
  /\ UNCHANGED <<now, periodic_time, callback, setting, left>>

(* The call of timer->callback, without the lock. *)
timer_tick_call(c) ==
  LET tm == tick[c].timer IN
  /\ tick[c].phase = "dequeued"
  /\ tick' = [tick EXCEPT ![c].phase = IF callback[tm] THEN "callback" ELSE "null_call",
                          ![c].periodic = periodic_time[tm] > 0]
  /\ UNCHANGED <<now, timervars, setting, hw, left>>

(* Whether the timer of c's tick goes back to the queue.  Mutant: even if  *)
(* the callback has set it.                                                *)
Requeued_twice(c) == tick[c].periodic /\ periodic_time[tick[c].timer] > 0
Requeued(c) ==
  tick[c].periodic /\ ~InQueue(tick[c].timer, queue) /\ periodic_time[tick[c].timer] > 0

(* The callback returns and the loop goes on: requeue a periodic timer     *)
(* that the callback has neither set nor cancelled.                        *)
timer_tick_return(c) ==
  LET tm == tick[c].timer
      t == tick[c].now
      next == TimeWrap(scheduled_time[tm] + periodic_time[tm])
      skip == TIME_LT(next, t)
      time == IF skip THEN TimeWrap(t + periodic_time[tm]) ELSE next
  IN
  /\ tick[c].phase = "callback"
  /\ \A x \in Timers : setting[x] # NULL => setting[x].context # c
  /\ scheduled_time' = IF Requeued(c) THEN [scheduled_time EXCEPT ![tm] = time] ELSE scheduled_time
  /\ left' = IF ~Requeued(c) THEN left
             ELSE [left EXCEPT ![tm] = periodic_time[tm] + IF skip THEN -TimeWrap(now - t) ELSE @]
  /\ timer_tick_scan(c, IF Requeued(c) THEN insert_timer_in_queue(queue[c], tm, time) ELSE queue[c], t, hw[c])
  /\ UNCHANGED <<now, periodic_time, callback, setting>>

(* A call through NULL stops the machine, and with broken lists nothing is *)
(* promised any more.                                                      *)
Faulted == \E c \in CPUs : tick[c].phase \in {"null_call", "broken"}

TimerNext ==
  /\ ~Faulted
  /\ \/ Clock
     \/ \E c \in CPUs :
          \/ timer_tick(c) \/ timer_tick_call(c) \/ timer_tick_return(c)
          \/ \E tm \in Timers :
               \/ \E d \in Delays : timer_set_oneshot(c, tm, d)
               \/ \E p \in Periods : timer_set_periodic(c, tm, p)
               \/ timer_set_insert(c, tm)
               \/ timer_cancel(c, tm)

TimerSpec == TimerInit /\ [][TimerNext]_alltimervars

(***************************************************************************)
(* Properties.                                                             *)
(***************************************************************************)
TimerTypeOK ==
  /\ now \in 0..(2 * Half - 1)
  /\ queue \in [CPUs -> Seq(Timers)]
  /\ scheduled_time \in [Timers -> 0..(2 * Half - 1)]
  /\ periodic_time \in [Timers -> Nat]
  /\ callback \in [Timers -> BOOLEAN]
  /\ setting \in [Timers -> {NULL} \cup Settings]
  /\ hw \in [CPUs -> Int \cup {NULL}]
  /\ tick \in [CPUs -> [phase : {"idle", "dequeued", "callback", "null_call", "broken"},
                        timer : Timers \cup {NULL}, now : 0..(2 * Half - 1), periodic : BOOLEAN]]
  /\ left \in [Timers -> Int]

(* A timer is linked into at most one queue, once: list_in_list() is the   *)
(* only guard timer_set() and the requeue of a periodic timer have.        *)
LinkedOnce ==
  \A c, d \in CPUs : \A i \in DOMAIN queue[c], j \in DOMAIN queue[d] :
    queue[c][i] = queue[d][j] => c = d /\ i = j

(* Queues are ordered by real expiry although scheduled_time wraps, so the *)
(* head is always the first timer to expire and timer_tick() may stop at   *)
(* the first one that has not.                                             *)
OrderedByExpiry ==
  \A c \in CPUs : \A i, j \in DOMAIN queue[c] : i < j => left[queue[c][i]] <= left[queue[c][j]]

(* "a callback function to be called after a specified delay"              *)
(* (timer.c:110): timer_tick() takes no timer off its queue to call it     *)
(* before the delay or the period of its last setting has passed.          *)
NeverEarly ==
  [][\A c \in CPUs : tick[c].phase # "dequeued" /\ tick'[c].phase = "dequeued" =>
       left'[tick'[c].timer] <= 0]_alltimervars

(* timer_cancel() "preventing it from firing ... The callback will not be  *)
(* called again after this" (timer.h): timer_tick() never calls through    *)
(* the NULL pointer that timer_cancel() leaves.                            *)
NoNullCallback == ~Faulted

(* No timer is lost: a CPU with queued timers has its hardware timer set,  *)
(* for a time at most MaxLate after the first expiry, or is in             *)
(* timer_tick(); timer_set(), timer_cancel() and timer_tick() each program *)
(* it only in some cases.                                                  *)
HardwareArmed ==
  \A c \in CPUs : queue[c] # <<>> /\ tick[c].phase = "idle" =>
    hw[c] # NULL /\ (hw[c] <= 0 \/ hw[c] <= left[Head(queue[c])] + MaxLate)
=============================================================================
