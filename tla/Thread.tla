------------------------------- MODULE Thread -------------------------------
(***************************************************************************)
(* The scheduler and the thread life cycle: kernel/thread.c, with the      *)
(* reschedule interrupts of kernel/mp.c.  One master thread_lock guards    *)
(* everything here, so each section under it is one step, taken by a CPU.  *)
(* A CPU that is inside a timer callback, or on its way out of an          *)
(* interrupt that returned INT_RESCHEDULE, executes no thread and takes no *)
(* other interrupt.                                                        *)
(*                                                                         *)
(* The idle thread of CPU c is c itself: it is never on a run queue.  The  *)
(* wait queue t->retcode_wait_queue is the queue named t.                  *)
(***************************************************************************)
EXTENDS Integers, Sequences, FiniteSets, SequencesExt

CONSTANTS
  CPUs, Threads, Queues, NULL,
  Boot,             \* the thread bootstrap2, READY when the CPUs start to schedule
  PinCalls,         \* the <<caller, t, cpu>> of thread_set_pinned_cpu(t, cpu), NULL for -1
  StartPriority,    \* the priority each thread is created with
  DEFAULT_PRIORITY, HIGHEST_PRIORITY,
  Quantum,          \* the 5 ticks thread_resched() refills
  NewPriorities,    \* the arguments of thread_set_priority()
  RealTimeCalls,    \* the <<caller, t>> of thread_set_real_time(t)
  Sleepers,         \* the threads that call thread_sleep()
  Creators,         \* the threads that create and resume threads
  Joiners,          \* the threads that call thread_join()
  Detachers,        \* the threads that call thread_detach()
  WaitTimeouts,     \* the timeouts of wait_queue_block()
  Reschedules       \* the reschedule argument of wait_queue_wake_one/all()

ASSUME ThreadsFinite == IsFiniteSet(Threads)
ASSUME NullIsNoThread == NULL \notin Threads
ASSUME IdleIsNoThread == CPUs \cap (Threads \cup {NULL}) = {}
ASSUME BootIsThread == Boot \in Threads
ASSUME PinCallsType == PinCalls \subseteq Threads \X Threads \X (CPUs \cup {NULL})
ASSUME PriorityType == /\ HIGHEST_PRIORITY \in Nat \ {0}
                       /\ DEFAULT_PRIORITY \in Nat
                       /\ StartPriority \in [Threads -> 1..HIGHEST_PRIORITY]
                       /\ NewPriorities \subseteq Int
ASSUME QuantumType == Quantum \in Nat \ {0}

VARIABLES
  state,            \* t->state
  priority,         \* t->priority
  quantum,          \* t->remaining_quantum, 0 standing for every value <= 0
  pinned,           \* t->pinned_cpu, NULL for -1
  real_time,        \* the threads with THREAD_FLAG_REAL_TIME
  detached,         \* the threads with THREAD_FLAG_DETACHED
  magic,            \* the thread structures that exist: t->magic = THREAD_MAGIC
  run,              \* run_queue, head first, and run_queue_bitmap
  current,          \* get_current_thread() of each CPU
  active_cpus, idle_cpus, realtime_cpus,   \* the masks of mp.c
  preempt_timer,    \* preempt_timer of each CPU: "off", "on", or "panic" if set twice
  wait,             \* the list of each wait queue
  block_ret,        \* t->wait_queue_block_ret
  call,             \* the timeout of the wait_queue_block() t is inside, or "none"
  timer,            \* the <<t, kind, cpu>> of the timers on timer queues: t's "wait" or "sleep"
  callback,         \* the timer callback each CPU has entered and not yet run, or NULL
  ipi,              \* the CPUs with a reschedule interrupt pending
  preempt,          \* the CPUs about to call thread_preempt() as they leave an interrupt
  op                \* "yield": t is about to yield in thread_resume(); u: t is in thread_join(u)

schedvars == <<state, quantum, run, current, idle_cpus, realtime_cpus, preempt_timer>>
flagvars == <<priority, pinned, real_time, detached, magic>>
waitvars == <<wait, block_ret, call>>
timervars == <<timer, callback>>
vars == <<schedvars, flagvars, waitvars, timervars, active_cpus, ipi, preempt, op>>

Levels == 1..HIGHEST_PRIORITY
Timeouts == {"finite", "infinite"}
Status == {"NO_ERROR", "ERR_TIMED_OUT", "ERR_OBJECT_DESTROYED", "ERR_THREAD_DETACHED"}
WakeStatus == Status \ {"ERR_TIMED_OUT"}

(***************************************************************************)
(* Run queues.                                                             *)
(***************************************************************************)
insert_in_run_queue_head(r, p, t) ==
  [queue |-> [r.queue EXCEPT ![p] = <<t>> \o @], bitmap |-> r.bitmap \cup {p}]

insert_in_run_queue_tail(r, p, t) ==
  [queue |-> [r.queue EXCEPT ![p] = Append(@, t)], bitmap |-> r.bitmap \cup {p}]

(* wait_queue_wake_all() inserts its threads at the head, the last first. *)
insert_woken(r, s) ==
  [queue |-> [p \in Levels |-> SelectSeq(s, LAMBDA t : priority[t] = p) \o r.queue[p]],
   bitmap |-> r.bitmap \cup {priority[s[i]] : i \in DOMAIN s}]

(* The run queue bitmap once q is what is left at level p. *)
Bitmap_stale(r, p, q) == r.bitmap   \* mutant
Bitmap(r, p, q) == IF q = <<>> THEN r.bitmap \ {p} ELSE r.bitmap

(* get_top_thread() takes thread i off its queue. *)
Rest_kept(q, i) == q   \* mutant
Rest(q, i) == RemoveAt(q, i)

Eligible(t, c) == pinned[t] \in {NULL, c}

(* The first eligible thread of the highest level that has one, or idle. *)
get_top_thread(r, c) ==
  LET at(p) == {i \in DOMAIN r.queue[p] : Eligible(r.queue[p][i], c)}
      levels == {p \in r.bitmap : at(p) # {}}
      p == Max(levels)
      i == Min(at(p))
      rest == Rest(r.queue[p], i)
  IN IF levels = {} THEN [thread |-> c, run |-> r]
     ELSE [thread |-> r.queue[p][i],
           run |-> [queue |-> [r.queue EXCEPT ![p] = rest], bitmap |-> Bitmap(r, p, rest)]]

thread_is_realtime(x) == x \in real_time /\ priority[x] > DEFAULT_PRIORITY
thread_is_real_time_or_idle(x) == x \in CPUs \cup real_time

(* What a switch from old to new does to the preemption timer of CPU c;    *)
(* setting a timer that is set already is the panic of timer_set().        *)
PreemptTimer_off(c, old, new) ==   \* mutant: it is set up for a thread that follows the idle one only
  IF thread_is_real_time_or_idle(new) THEN "off" ELSE IF old = c THEN "on" ELSE preempt_timer[c]
PreemptTimer(c, old, new) ==
  CASE thread_is_real_time_or_idle(new) ->
         IF thread_is_real_time_or_idle(old) THEN preempt_timer[c] ELSE "off"
    [] ~thread_is_real_time_or_idle(new) /\ thread_is_real_time_or_idle(old) ->
         IF preempt_timer[c] = "off" THEN "on" ELSE "panic"
    [] OTHER -> preempt_timer[c]

(* The mask of idle CPUs as c switches to new. *)
IdleMask_stays(c, new) == IF new = c THEN idle_cpus \cup {c} ELSE idle_cpus   \* mutant
IdleMask(c, new) == IF new = c THEN idle_cpus \cup {c} ELSE idle_cpus \ {c}

(* The mask of CPUs that run realtime code, likewise. *)
RealtimeMask_stays(c, new) ==   \* mutant
  IF thread_is_realtime(new) THEN realtime_cpus \cup {c} ELSE realtime_cpus
RealtimeMask(c, new) ==
  IF thread_is_realtime(new) THEN realtime_cpus \cup {c} ELSE realtime_cpus \ {c}

(* thread_resched() on CPU c, where st, qn and r are the states, quanta    *)
(* and run queues its caller has left.                                     *)
thread_resched(c, st, qn, r) ==
  \E top \in {get_top_thread(r, c)} :
  LET old == current[c]
      new == top.thread
  IN /\ run' = top.run
     /\ state' = [t \in Threads |-> IF t = new THEN "RUNNING" ELSE st[t]]
     /\ current' = [current EXCEPT ![c] = new]
     /\ \/ new = old /\ quantum' = qn /\ UNCHANGED <<idle_cpus, realtime_cpus, preempt_timer>>
        \/ /\ new # old
           /\ quantum' = [t \in Threads |-> IF t = new /\ qn[t] <= 0 THEN Quantum ELSE qn[t]]
           /\ idle_cpus' = IdleMask(c, new)
           /\ realtime_cpus' = RealtimeMask(c, new)
           /\ preempt_timer' = [preempt_timer EXCEPT ![c] = PreemptTimer(c, old, new)]

(* Threads became READY on the run queues, and CPU c goes on as before. *)
no_resched(st, r) ==
  /\ state' = st
  /\ run' = r
  /\ UNCHANGED <<quantum, current, idle_cpus, realtime_cpus, preempt_timer>>

(* mp_reschedule() from CPU c: the CPUs that the woken threads may use,    *)
(* but not c, not an inactive one, and not one that runs realtime code.    *)
mp_reschedule(c, cpus) ==
  ipi' = ipi \cup ((cpus \cap active_cpus) \ (realtime_cpus \cup {c}))

(* The CPUs wakeup_cpu_for_thread() and wait_queue_wake_all() signal. *)
MayRun(woken) == {c \in CPUs : \E t \in woken : Eligible(t, c)}

(***************************************************************************)
(* CPU c executes thread u; u is not in the middle of a kernel call.       *)
(***************************************************************************)
InterruptsOn(c) == c \in active_cpus /\ callback[c] = NULL /\ c \notin preempt
Executes(c, u) == InterruptsOn(c) /\ current[c] = u
Calls(c, u) == Executes(c, u) /\ call[u] = "none" /\ op[u] = NULL

Init ==
  /\ state = [t \in Threads |-> IF t = Boot THEN "READY" ELSE "SUSPENDED"]
  /\ priority = StartPriority
  /\ quantum = [t \in Threads |-> 0]
  /\ pinned = [t \in Threads |-> NULL]
  /\ real_time = {}
  /\ detached = {Boot}
  /\ magic = {Boot}
  /\ run = insert_in_run_queue_head([queue |-> [p \in Levels |-> <<>>], bitmap |-> {}], priority[Boot], Boot)
  /\ current = [c \in CPUs |-> c]
  /\ active_cpus = {}
  /\ idle_cpus = {}
  /\ realtime_cpus = {}
  /\ preempt_timer = [c \in CPUs |-> "off"]
  /\ wait = [q \in Queues \cup Threads |-> <<>>]
  /\ block_ret = [t \in Threads |-> "NO_ERROR"]
  /\ call = [t \in Threads |-> "none"]
  /\ timer = {}
  /\ callback = [c \in CPUs |-> NULL]
  /\ ipi = {}
  /\ preempt = {}
  /\ op = [t \in Threads |-> NULL]

(* The idle thread of c marks its CPU active and yields; for an idle       *)
(* thread that is what thread_preempt() does.                              *)
thread_become_idle(c) ==
  /\ c \notin active_cpus
  /\ active_cpus' = active_cpus \cup {c}
  /\ idle_cpus' = idle_cpus \cup {c}
  /\ preempt' = preempt \cup {c}
  /\ UNCHANGED <<state, quantum, run, current, realtime_cpus, preempt_timer>>
  /\ UNCHANGED <<flagvars, waitvars, timervars, ipi, op>>

(***************************************************************************)
(* Yielding, preemption, priorities.                                       *)
(***************************************************************************)
thread_yield(c, u) ==
  /\ Executes(c, u) /\ call[u] = "none" /\ op[u] \in {NULL, "yield"}
  /\ op' = [op EXCEPT ![u] = NULL]
  /\ thread_resched(c, [state EXCEPT ![u] = "READY"], [quantum EXCEPT ![u] = 0],
                    insert_in_run_queue_tail(run, priority[u], u))
  /\ UNCHANGED <<flagvars, waitvars, timervars, active_cpus, ipi, preempt>>

(* Where a preempted thread goes: to the head while it has quantum left. *)
Preempted_to_head(u) == insert_in_run_queue_head(run, priority[u], u)   \* mutant
Preempted(u) ==
  IF quantum[u] > 0 THEN insert_in_run_queue_head(run, priority[u], u)
                    ELSE insert_in_run_queue_tail(run, priority[u], u)

thread_preempt(c) ==
  /\ c \in preempt
  /\ preempt' = preempt \ {c}
  /\ IF current[c] = c THEN thread_resched(c, state, quantum, run)
     ELSE thread_resched(c, [state EXCEPT ![current[c]] = "READY"], quantum, Preempted(current[c]))
  /\ UNCHANGED <<flagvars, waitvars, timervars, active_cpus, ipi, op>>

(* What a tick leaves of a quantum. *)
Spent_up(n) == n + 1   \* mutant
Spent(n) == IF n > 0 THEN n - 1 ELSE 0

(* The preemption tick: periodic while a regular thread runs. *)
thread_timer_tick(c) ==
  /\ InterruptsOn(c) /\ preempt_timer[c] = "on"
  /\ ~thread_is_real_time_or_idle(current[c])
  /\ LET left == Spent(quantum[current[c]])
     IN /\ quantum' = [quantum EXCEPT ![current[c]] = left]
        /\ preempt' = IF left = 0 THEN preempt \cup {c} ELSE preempt
  /\ UNCHANGED <<state, run, current, idle_cpus, realtime_cpus, preempt_timer>>
  /\ UNCHANGED <<flagvars, waitvars, timervars, active_cpus, ipi, op>>

mp_mbx_reschedule_irq(c) ==
  /\ InterruptsOn(c) /\ c \in ipi
  /\ ipi' = ipi \ {c}
  /\ preempt' = preempt \cup {c}
  /\ UNCHANGED <<schedvars, flagvars, waitvars, timervars, active_cpus, op>>

Clamp(p) == IF p <= 0 THEN 1 ELSE IF p > HIGHEST_PRIORITY THEN HIGHEST_PRIORITY ELSE p

thread_set_priority(c, u, p) ==
  /\ Calls(c, u)
  /\ priority' = [priority EXCEPT ![u] = Clamp(p)]
  /\ thread_resched(c, [state EXCEPT ![u] = "READY"], quantum,
                    insert_in_run_queue_head(run, Clamp(p), u))
  /\ UNCHANGED <<pinned, real_time, detached, magic, waitvars, timervars, active_cpus, ipi, preempt, op>>

(* A store without the lock: the thread moves when it is next scheduled. *)
thread_set_pinned_cpu(c, u, t, cpu) ==
  /\ Calls(c, u) /\ <<u, t, cpu>> \in PinCalls /\ t \in magic
  /\ pinned' = [pinned EXCEPT ![t] = cpu]
  /\ UNCHANGED <<schedvars, priority, real_time, detached, magic>>
  /\ UNCHANGED <<waitvars, timervars, active_cpus, ipi, preempt, op>>

thread_set_real_time(c, u, t) ==
  /\ Calls(c, u) /\ <<u, t>> \in RealTimeCalls /\ t \in magic
  /\ real_time' = real_time \cup {t}
  /\ preempt_timer' = IF t = u THEN [preempt_timer EXCEPT ![c] = "off"] ELSE preempt_timer
  /\ UNCHANGED <<state, quantum, run, current, idle_cpus, realtime_cpus>>
  /\ UNCHANGED <<priority, pinned, detached, magic, waitvars, timervars, active_cpus, ipi, preempt, op>>

(***************************************************************************)
(* Wait queues.                                                            *)
(***************************************************************************)
wait_queue_block(c, u, q, timeout) ==
  /\ wait' = [wait EXCEPT ![q] = Append(@, u)]
  /\ block_ret' = [block_ret EXCEPT ![u] = "NO_ERROR"]
  /\ call' = [call EXCEPT ![u] = timeout]
  /\ timer' = IF timeout = "finite" THEN timer \cup {<<u, "wait", c>>} ELSE timer
  /\ thread_resched(c, [state EXCEPT ![u] = "BLOCKED"], quantum, run)
  /\ UNCHANGED callback

timer_cancel_not(u) == timer   \* mutant
timer_cancel(u) == {x \in timer : x[1] # u \/ x[2] # "wait"}

(* The rest of wait_queue_block() once u runs again, on whatever CPU. *)
wait_queue_block_return(c, u) ==
  /\ Executes(c, u) /\ call[u] # "none"
  /\ call' = [call EXCEPT ![u] = "none"]
  /\ timer' = timer_cancel(u)
  /\ UNCHANGED <<wait, block_ret, callback>>

(* The first n threads of q become READY, at the head of the run queue in  *)
(* the order they waited.                                                  *)
woken_set(q, n) == {wait[q][i] : i \in 1..n}
dequeue(q, n, error) ==
  /\ wait' = [wait EXCEPT ![q] = SubSeq(@, n + 1, Len(@))]
  /\ block_ret' = [t \in Threads |-> IF t \in woken_set(q, n) THEN error ELSE block_ret[t]]
woken_states(st, q, n) == [t \in Threads |-> IF t \in woken_set(q, n) THEN "READY" ELSE st[t]]
woken_run(r, q, n) == insert_woken(r, SubSeq(wait[q], 1, n))

(* wait_queue_wake_one() for n = 1 and wait_queue_wake_all() for n = Len,  *)
(* without and with reschedule.                                            *)
wait_queue_wake(c, q, n, error) ==
  /\ dequeue(q, n, error)
  /\ mp_reschedule(c, MayRun(woken_set(q, n)))
  /\ no_resched(woken_states(state, q, n), woken_run(run, q, n))

wait_queue_wake_resched(c, q, n, error) ==
  /\ dequeue(q, n, error)
  /\ mp_reschedule(c, MayRun(woken_set(q, n)))
  /\ thread_resched(c, woken_states([state EXCEPT ![current[c]] = "READY"], q, n), quantum,
       woken_run(insert_in_run_queue_head(run, priority[current[c]], current[c]), q, n))

(* Thread u blocks on a queue, comes back, or wakes others. *)
Block(c, u) ==
  /\ Calls(c, u)
  /\ \E q \in Queues, timeout \in WaitTimeouts : wait_queue_block(c, u, q, timeout)
  /\ UNCHANGED <<flagvars, active_cpus, ipi, preempt, op>>

BlockReturn(c, u) ==
  /\ op[u] = NULL
  /\ wait_queue_block_return(c, u)
  /\ UNCHANGED <<schedvars, flagvars, active_cpus, ipi, preempt, op>>

Wake(c, u) ==
  /\ Calls(c, u)
  /\ \E q \in Queues : \E n \in {1, Len(wait[q])} :
       /\ wait[q] # <<>>
       /\ \/ FALSE \in Reschedules /\ wait_queue_wake(c, q, n, "NO_ERROR")
          \/ TRUE \in Reschedules /\ wait_queue_wake_resched(c, q, n, "NO_ERROR")
  /\ UNCHANGED <<flagvars, call, timervars, active_cpus, preempt, op>>

(* A device's interrupt handler that wakes a thread asks for a reschedule. *)
IrqWake(c) ==
  /\ InterruptsOn(c)
  /\ \E q \in Queues : \E n \in {1, Len(wait[q])} :
       wait[q] # <<>> /\ wait_queue_wake(c, q, n, "NO_ERROR")
  /\ preempt' = preempt \cup {c}
  /\ UNCHANGED <<flagvars, call, timervars, active_cpus, op>>

(***************************************************************************)
(* Timers: the timeout of a wait, and thread_sleep().                      *)
(***************************************************************************)
thread_sleep(c, u) ==
  /\ Calls(c, u) /\ u \in Sleepers
  /\ timer' = timer \cup {<<u, "sleep", c>>}
  /\ thread_resched(c, [state EXCEPT ![u] = "SLEEPING"], quantum, run)
  /\ UNCHANGED <<flagvars, waitvars, callback, active_cpus, ipi, preempt, op>>

(* timer_tick() on c takes a timer of t off the queue and enters the       *)
(* callback it was set with.                                               *)
timer_tick(c, t) ==
  /\ InterruptsOn(c)
  /\ \E kind \in {"wait", "sleep"} :
       /\ <<t, kind, c>> \in timer
       /\ timer' = timer \ {<<t, kind, c>>}
       /\ callback' = [callback EXCEPT ![c] = <<t, kind>>]
  /\ UNCHANGED <<schedvars, flagvars, waitvars, active_cpus, ipi, preempt, op>>

ready(t) == no_resched([state EXCEPT ![t] = "READY"], insert_in_run_queue_head(run, priority[t], t))

thread_sleep_handler(c, t) ==
  /\ callback[c] = <<t, "sleep">>
  /\ callback' = [callback EXCEPT ![c] = NULL]
  /\ ready(t)
  /\ preempt' = preempt \cup {c}
  /\ UNCHANGED <<flagvars, waitvars, timer, active_cpus, ipi, op>>

(* The status a timeout gives its thread. *)
Timeout_status_ok == "NO_ERROR"   \* mutant
Timeout_status == "ERR_TIMED_OUT"

(* wait_queue_timeout_handler() of a thread that is still blocked, and of  *)
(* one that something else woke first.                                     *)
wait_queue_timeout_handler(c, t) ==
  /\ callback[c] = <<t, "wait">>
  /\ callback' = [callback EXCEPT ![c] = NULL]
  /\ \/ /\ state[t] = "BLOCKED"
        /\ \E q \in Queues \cup Threads : \E i \in DOMAIN wait[q] :
             wait[q][i] = t /\ wait' = [wait EXCEPT ![q] = RemoveAt(@, i)]
        /\ block_ret' = [block_ret EXCEPT ![t] = Timeout_status]
        /\ ready(t)
        /\ mp_reschedule(c, MayRun({t}))
        /\ preempt' = preempt \cup {c}
     \/ state[t] # "BLOCKED" /\ UNCHANGED <<schedvars, wait, block_ret, ipi, preempt>>
  /\ UNCHANGED <<flagvars, call, timer, active_cpus, op>>

(***************************************************************************)
(* Life cycle.                                                             *)
(***************************************************************************)
thread_create_etc(c, u, t) ==
  /\ Calls(c, u) /\ u \in Creators /\ t \notin magic
  /\ state' = [state EXCEPT ![t] = "SUSPENDED"]
  /\ priority' = [priority EXCEPT ![t] = StartPriority[t]]
  /\ quantum' = [quantum EXCEPT ![t] = 0]
  /\ pinned' = [pinned EXCEPT ![t] = NULL]
  /\ real_time' = real_time \ {t}
  /\ detached' = detached \ {t}
  /\ magic' = magic \cup {t}
  /\ block_ret' = [block_ret EXCEPT ![t] = "NO_ERROR"]
  /\ wait' = [wait EXCEPT ![t] = <<>>]
  /\ UNCHANGED <<run, current, idle_cpus, realtime_cpus, preempt_timer, call>>
  /\ UNCHANGED <<timervars, active_cpus, ipi, preempt, op>>

(* thread_resume() up to its thread_yield(). *)
thread_resume(c, u, t) ==
  /\ Calls(c, u) /\ u \in Creators /\ t \in magic /\ state[t] # "DEATH"
  /\ mp_reschedule(c, MayRun({t}))
  /\ \/ state[t] = "SUSPENDED" /\ ready(t) /\ op' = [op EXCEPT ![u] = "yield"]
     \/ state[t] # "SUSPENDED" /\ UNCHANGED <<schedvars, op>>
  /\ UNCHANGED <<flagvars, waitvars, timervars, active_cpus, preempt>>

thread_exit(c, u) ==
  LET n == Len(wait[u])
      dead == [state EXCEPT ![u] = "DEATH"]
  IN /\ Calls(c, u)
     /\ \/ /\ u \in detached
           /\ magic' = magic \ {u}
           /\ thread_resched(c, dead, quantum, run)
           /\ UNCHANGED <<wait, block_ret, ipi>>
        \/ /\ u \notin detached
           /\ dequeue(u, n, "NO_ERROR")
           /\ mp_reschedule(c, MayRun(woken_set(u, n)))
           /\ thread_resched(c, woken_states(dead, u, n), quantum, woken_run(run, u, n))
           /\ UNCHANGED magic
     /\ UNCHANGED <<priority, pinned, real_time, detached, call, timervars, active_cpus, preempt, op>>

(* thread_join() up to the wait: the thread is detached, dead, or alive.   *)
(* thread_detach() of a dead thread ends in a thread_join() too.           *)
thread_join(c, u, t) ==
  /\ Executes(c, u) /\ call[u] = "none" /\ op[u] \in {NULL, t}
  /\ op[u] = NULL => u \in Joiners /\ t \in magic \ {u}
  /\ \/ /\ t \in detached
        /\ op' = [op EXCEPT ![u] = NULL]
        /\ UNCHANGED <<schedvars, magic, waitvars, timer>>
     \/ /\ t \notin detached /\ state[t] = "DEATH"
        /\ op' = [op EXCEPT ![u] = NULL]
        /\ magic' = magic \ {t}
        /\ UNCHANGED <<schedvars, waitvars, timer>>
     \/ /\ t \notin detached /\ state[t] # "DEATH" /\ op[u] = NULL
        /\ op' = [op EXCEPT ![u] = t]
        /\ \E timeout \in WaitTimeouts : wait_queue_block(c, u, t, timeout)
        /\ UNCHANGED magic
  /\ UNCHANGED <<priority, pinned, real_time, detached, callback, active_cpus, ipi, preempt>>

(* thread_join() after the wait: it reaps t unless the wait failed. *)
Reaped_always(u) == magic \ {op[u]}   \* mutant
Reaped(u) == IF block_ret[u] = "NO_ERROR" THEN magic \ {op[u]} ELSE magic

thread_join_return(c, u) ==
  /\ op[u] \in Threads
  /\ wait_queue_block_return(c, u)
  /\ op' = [op EXCEPT ![u] = NULL]
  /\ magic' = Reaped(u)
  /\ UNCHANGED <<schedvars, priority, pinned, real_time, detached, active_cpus, ipi, preempt>>

thread_detach(c, u, t) ==
  LET n == Len(wait[t])
  IN /\ Calls(c, u) /\ u \in Detachers /\ t \in magic
     /\ dequeue(t, n, "ERR_THREAD_DETACHED")
     /\ mp_reschedule(c, MayRun(woken_set(t, n)))
     /\ no_resched(woken_states(state, t, n), woken_run(run, t, n))
     /\ detached' = IF state[t] = "DEATH" THEN detached \ {t} ELSE detached \cup {t}
     /\ op' = IF state[t] = "DEATH" THEN [op EXCEPT ![u] = t] ELSE op
     /\ UNCHANGED <<priority, pinned, real_time, magic, call, timervars, active_cpus, preempt>>

ThreadStep(c, u) ==
  \/ thread_yield(c, u)
  \/ \E p \in NewPriorities : thread_set_priority(c, u, p)
  \/ Block(c, u) \/ BlockReturn(c, u) \/ Wake(c, u)
  \/ thread_sleep(c, u) \/ thread_exit(c, u) \/ thread_join_return(c, u)
  \/ \E t \in Threads : \/ thread_set_real_time(c, u, t)
                        \/ \E cpu \in CPUs \cup {NULL} : thread_set_pinned_cpu(c, u, t, cpu)
                        \/ thread_create_etc(c, u, t) \/ thread_resume(c, u, t)
                        \/ thread_join(c, u, t) \/ thread_detach(c, u, t)

TimerStep(c, t) ==
  timer_tick(c, t) \/ thread_sleep_handler(c, t) \/ wait_queue_timeout_handler(c, t)

CPUStep(c) ==
  \/ thread_become_idle(c) \/ thread_preempt(c) \/ thread_timer_tick(c)
  \/ mp_mbx_reschedule_irq(c) \/ IrqWake(c)

(* A panic stops the machine. *)
Panicked == \E c \in CPUs : preempt_timer[c] = "panic"

Next ==
  /\ ~Panicked
  /\ \E c \in CPUs : \/ CPUStep(c)
                     \/ \E t \in Threads : ThreadStep(c, t) \/ TimerStep(c, t)

Spec == Init /\ [][Next]_vars

(* Scheduling needs no fairness of its own beyond the hardware's: a CPU    *)
(* leaves its interrupt, the preemption tick recurs while a regular thread *)
(* runs, and an entered callback gets the thread lock.                     *)
Fairness ==
  \A c \in CPUs : /\ WF_vars(thread_become_idle(c))
                  /\ WF_vars(thread_preempt(c))
                  /\ SF_vars(thread_timer_tick(c))
                  /\ WF_vars(\E t \in Threads : thread_sleep_handler(c, t) \/ wait_queue_timeout_handler(c, t))
FairSpec == Spec /\ Fairness

(***************************************************************************)
(* Properties.                                                             *)
(***************************************************************************)
TypeOK ==
  /\ state \in [Threads -> {"SUSPENDED", "READY", "RUNNING", "BLOCKED", "SLEEPING", "DEATH"}]
  /\ priority \in [Threads -> Levels]
  /\ quantum \in [Threads -> 0..Quantum]
  /\ pinned \in [Threads -> CPUs \cup {NULL}]
  /\ real_time \subseteq Threads /\ detached \subseteq Threads /\ magic \subseteq Threads
  /\ run.queue \in [Levels -> Seq(Threads)] /\ run.bitmap \subseteq Levels
  /\ current \in [CPUs -> CPUs \cup Threads]
  /\ active_cpus \subseteq CPUs /\ idle_cpus \subseteq CPUs /\ realtime_cpus \subseteq CPUs
  /\ preempt_timer \in [CPUs -> {"off", "on", "panic"}]
  /\ wait \in [Queues \cup Threads -> Seq(Threads)]
  /\ block_ret \in [Threads -> Status]
  /\ call \in [Threads -> Timeouts \cup {"none"}]
  /\ timer \subseteq Threads \X {"sleep", "wait"} \X CPUs
  /\ callback \in [CPUs -> (Threads \X {"sleep", "wait"}) \cup {NULL}]
  /\ ipi \subseteq CPUs /\ preempt \subseteq CPUs
  /\ op \in [Threads -> Threads \cup {NULL, "yield"}]

(* A thread is in one place, and its state says which: t->queue_node is    *)
(* one link for every list and two CPUs must not run one stack.  READY is  *)
(* once on the run queue of its priority, BLOCKED once on a wait queue,    *)
(* RUNNING on one CPU, and the others nowhere.                             *)
OnePlace ==
  /\ \A p \in Levels : /\ IsInjective(run.queue[p])
                       /\ \A t \in Range(run.queue[p]) : state[t] = "READY" /\ priority[t] = p
  /\ \A q \in DOMAIN wait : /\ IsInjective(wait[q])
                            /\ \A t \in Range(wait[q]) : state[t] = "BLOCKED"
  /\ \A q, r \in DOMAIN wait : q # r => Range(wait[q]) \cap Range(wait[r]) = {}
  /\ IsInjective(current)
  /\ \A t \in Threads :
       /\ state[t] = "READY" => t \in Range(run.queue[priority[t]])
       /\ state[t] = "BLOCKED" => \E q \in DOMAIN wait : t \in Range(wait[q])
       /\ state[t] = "RUNNING" <=> \E c \in CPUs : current[c] = t

(* The bitmap get_top_thread() searches agrees with the queues: a lost bit *)
(* hides READY threads for good.                                           *)
BitmapExact == run.bitmap = {p \in Levels : run.queue[p] # <<>>}

(* mp.c's mask of idle CPUs is exact on the CPUs that schedule. *)
IdleMaskExact == \A c \in active_cpus : c \in idle_cpus <=> current[c] = c

(* A regular thread never has a CPU without the preemption timer, which    *)
(* would let it keep the CPU for good, whichever threads are made real     *)
(* time, by whom, and whatever they switch to.                             *)
RegularIsPreempted ==
  \A c \in CPUs : preempt_timer[c] = "off" => thread_is_real_time_or_idle(current[c])

(* "Reschedule IPIs: Wake up remote CPUs for newly ready threads" (docs/   *)
(* threading_and_scheduler.md): while a CPU idles beside a READY thread it *)
(* may run, some CPU that may run it is about to look at the run queues.   *)
WorkConserving ==
  \A c \in active_cpus, t \in Threads :
    current[c] = c /\ state[t] = "READY" /\ Eligible(t, c) =>
      \E d \in ipi \cup preempt : Eligible(t, d)

(* A CPU that mp_reschedule() spares runs a thread flagged real time: an   *)
(* idle CPU, or one with a regular thread, is never deaf to the reschedule *)
(* interrupts, whatever threads do to their priorities.                    *)
RealtimeCPUIsBusy == \A c \in realtime_cpus : current[c] \in real_time

(* "DEBUG_ASSERT(t->magic == THREAD_MAGIC)" and "DEBUG_ASSERT(t->state ==  *)
(* THREAD_DEATH)" (thread.c:331-332): the thread that thread_join() waited *)
(* for is still there, and dead, when a wait that succeeded returns.       *)
JoinedThreadIsThere ==
  \A c \in CPUs, u, t \in Threads :
    Executes(c, u) /\ op[u] = t /\ call[u] # "none" /\ block_ret[u] = "NO_ERROR" =>
      t \in magic /\ state[t] = "DEATH"

(* A thread structure is freed only when nobody can reach it any more:     *)
(* thread_exit() frees a detached thread and thread_join() a dead one, so  *)
(* no CPU, run queue, wait queue or sleep timer holds a freed thread and   *)
(* nobody is left waiting to join one, while one thread at a time joins or *)
(* detaches another.                                                       *)
FreedIsUnreachable ==
  \A t \in Threads \ magic :
    /\ t \notin Range(current)
    /\ \A p \in Levels : t \notin Range(run.queue[p])
    /\ \A q \in DOMAIN wait : t \notin Range(wait[q])
    /\ \A c \in CPUs : <<t, "sleep", c>> \notin timer /\ callback[c] # <<t, "sleep">>
    /\ wait[t] = <<>>

(* Round robin: threads of one priority share the CPU, whoever wakes,      *)
(* blocks, yields or is created in front of them.                          *)
NoStarvation == \A t \in Threads : state[t] = "READY" ~> state[t] # "READY"

(* The scheduler implements the wait queues as the blocking primitives see *)
(* them: READY and RUNNING are one, and so is every state that is not      *)
(* BLOCKED.                                                                *)
Abstract == INSTANCE WaitQueue WITH
  Queues <- Queues \cup Threads,
  state <- [t \in Threads |-> IF state[t] = "BLOCKED" THEN "BLOCKED" ELSE "READY"],
  timer <- [t \in Threads |-> \E c \in CPUs : <<t, "wait", c>> \in timer],
  callback <- [c \in CPUs |-> IF callback[c] # NULL /\ callback[c][2] = "wait" THEN callback[c][1] ELSE NULL]
ImplementsWaitQueue == Abstract!WQSpec
=============================================================================
