# LK in TLA+

A formal model of the core of LK (Little Kernel). The modules under this
directory are translated from `src/`; TLC checks them on small instances and
TLAPS proves the main results for every value of the constants. `PROJECT.json`
maps every modelling definition to the lines it stands for.

## 1. The system

LK is a preemptive, optionally SMP, real-time kernel with a set of libraries
linked into one image. What follows is the inventory this project works from.

| Part | Source | State | Operations | Talks to |
|---|---|---|---|---|
| threads and scheduler | `kernel/thread.c` | thread structs, per-priority run queues and bitmap, current thread of each CPU, idle/real-time masks | create, resume, exit, join, detach, sleep, yield, preempt, resched, tick, set_priority | wait queues, timers, mp |
| wait queues | `kernel/thread.c` | list and count of each queue, status word of each thread | block, wake_one, wake_all, destroy, unblock, timeout handler | threads, timers |
| mutex | `kernel/mutex.c` | count, holder, magic | init, acquire(timeout), release, destroy | wait queues |
| semaphore | `kernel/semaphore.c` | count | init, wait, trywait, timedwait, post, destroy | wait queues |
| event | `kernel/event.c` | signaled, flags | init, wait(timeout), signal, unsignal, destroy | wait queues |
| ports | `kernel/port.c` | named write ports, read ports, groups, ring buffers | create, open, group, group_add, group_remove, write, read, close, destroy | wait queues, heap |
| timers | `kernel/timer.c` | per-CPU ordered queues | set_oneshot, set_periodic, cancel, tick | platform timer |
| cross-CPU calls | `kernel/mp.c` | online/active/idle/real-time masks, per-CPU pending IPI | reschedule, sync_exec, IPI handlers, set_curr_cpu_active | arch IPIs |
| physical memory | `kernel/vm/pmm.c` | arenas, page states, free lists | alloc_pages, alloc_range, alloc_contiguous, free | vmm, heap |
| virtual memory | `kernel/vm/vmm.c` | address spaces, ordered region lists | reserve, alloc, free_region, create/free_aspace | pmm, arch mmu |
| page allocator without MMU | `kernel/novm/novm.c` | arenas with a byte map | alloc_pages, alloc_specific_pages, free_pages | heap |
| address space ids | `arch/*/asid` | bitmap of ids | alloc, free | vmm |
| boot | `top/main.c`, `top/init.c` | init level | lk_main, lk_init_level | everything |
| heap | `lib/heap` | free list, delayed-free list | malloc, memalign, realloc, free, delayed_free, trim | pmm/novm, mutex |
| block devices | `lib/bio`, `lib/bcache` | device list with references; block cache LRU | open, close, read, write, erase; get/put/flush | fs |
| circular buffer | `lib/cbuf` | head, tail, event | write, read, write_char, read_char, reset | event, spinlock |
| deferred calls | `lib/dpc` | work list, event | queue, worker | event |
| network stack | `lib/minip` | sockets, pktbufs, ARP cache, DHCP state | TCP/UDP/ARP/ICMP/DHCP handlers | timers, events, drivers |
| file systems | `lib/fs`, `lib/norfs`, `lib/sysparam` | mounts, files | mount, open, read, write | bio |

### What is hard to test here

* The kernel has one master spinlock, `thread_lock`. A critical section under it
  is atomic, except where it calls `thread_resched()` in the middle: the thread
  gives the lock away, anything may run, and the section goes on later with the
  state it read before (`wait_queue_block()` in the middle of
  `mutex_acquire_timeout()`, `sem_timedwait()`, `event_wait_timeout()`,
  `port_read()`, `thread_join()`).
* A timeout is a timer callback. `timer_tick()` removes the timer, drops the timer
  lock and only then calls back, so with several CPUs a wake, a cancel and a new
  wait can all happen between the removal and the callback.
* Wakeups and timeouts race for the same waiter, and a woken waiter runs only later.
* Counters (`m->count`, `sem->count`) include threads that have already left the
  wait list.
* Destroy wakes everybody and the woken threads touch the object once more.
* Time is a 32 bit millisecond counter that wraps.

## 2. The modules

A section of code under `thread_lock` is one step. The one exception is a section
that reschedules in the middle: it is split there, into the part up to
`thread_resched()` and the part that runs when the thread has a CPU again. That
holds for the blocking calls and for `mutex_destroy()`, `sem_destroy()` and
`event_destroy()`, whose `wait_queue_destroy()` reschedules before it clears the
queue's magic. What a function reads before it takes the lock is a step of its own
(`mutex_destroy_check`, `timer_set`).

| Module | Models | State and actions |
|---|---|---|
| `WaitQueue` | wait queues of `kernel/thread.c`, as their users see them | `wait` is `wait->list`, `block_ret` is `wait_queue_block_ret`, `call` the timeout of the call a thread is in. `timer` and `callback` are the two ends of a timeout: on a timer queue, or entered by a CPU. READY and RUNNING are one state. |
| `Mutex`, `Semaphore`, `Event` | `kernel/mutex.c`, `semaphore.c`, `event.c` | Each extends `WaitQueue` with the object's fields and a `pc`, where each thread is in the object's code. One action per operation, and a second one (`..._return`) for the part after a reschedule. `posted`, `taken`, `signals`, `cleared`, `released` are history; `released` counts a wait when it returns `NO_ERROR`. |
| `FairLock`, `FairSemaphore` | what `mutex.h` and `docs/blocking_primitives.md` promise | abstract specifications |
| `Timer` | `kernel/timer.c` with a dynamic hardware timer, the comparisons of `sys/types.h` | Per-CPU queues, a clock modulo `2 * Half`, the hardware timer `hw`. `timer_set()` is two steps, as it reads the clock before it takes the lock; `timer_tick()` is split where it drops the lock to call back. Anyone may cancel any timer at any time and set any timer that is not queued, also while another CPU has it off its queue to call it. A call through NULL, and a timer linked twice, end a behaviour (`Faulted`). `left` is history: time to the real expiry, without wrap. |
| `Thread` | the scheduler and life cycle in `kernel/thread.c`, reschedule interrupts and masks of `kernel/mp.c` | Run queues and bitmap, current thread of each CPU, quanta, masks, preemption timers, IPIs, and the fields of `WaitQueue`. A CPU inside a timer callback (`callback`), or leaving an interrupt that returned `INT_RESCHEDULE` (`preempt`), runs no thread. The idle thread of a CPU is the CPU itself. A timer is a triple of thread, kind (`wait`, `sleep`) and CPU. The panic of `timer_set()` on a preemption timer that is already set ends a behaviour (`Panicked`). |
| `WaitQueueProofs`, `MutexProofs`, `SemaphoreProofs`, `EventProofs` | | theorems and proofs |
| `MCWaits`, `MCObjects` | | one specification for several components: a behaviour is one of the component that `part` names |
| `MCThread`, `MCThreadSMP`, `MCTimer` | | values of constants, symmetry; `MCThreadSMP` and `MCTimer` split the behaviours in two parts (section 3) |

How they fit together: `Mutex`, `Semaphore` and `Event` are checked over the
abstract `WaitQueue`. `Thread` has the real scheduler, and the run `thread_life`
shows that it implements `WaitQueue` (`ImplementsWaitQueue`, with the refinement
mapping at the end of `Thread`). So what is shown of a primitive over the abstract
wait queues holds over the scheduled ones. Those wait queues wake and time out
through callbacks; `Timer` shows what such a callback can rely on.

A definition whose name ends in a suffix such as `_not` or `_always`, with the
comment "mutant", is a deliberately wrong variant of the definition after it. It is
used by no specification. Each property has one that breaks it, which shows that
the property depends on that line of code.

## 3. The runs

| Run | Instance | Shows |
|---|---|---|
| `waits` | 3 threads, 1 CPU. Part wait_queue: 2 queues, most general client. Parts mutex and semaphore: no finite timeout, no destroy | A thread is BLOCKED iff linked once (`LinkedIffBlocked`); a finite wait has its timer (`TimeoutPending`) and returns (`FiniteBlockReturns`); a woken thread's status is final (`WakeIsFinal`); an infinite wait never times out. The mutex implements `FairLock`, the semaphore `FairSemaphore`, and every acquire returns. |
| `wait_queue_smp_infinite` | the general client, 2 CPUs | An infinite wait times out: see section 6. |
| `objects` | 3 threads, 2 CPUs, all timeouts, destroy and init; initial count 1, 2 posts; 2 signals, events of both kinds, signaled at first or not | Mutex: one owner, also during a hand-over and with an unlocked look at the holder in `mutex_destroy()`; `m->holder` and `m->count` of a live mutex agree with its users. Semaphore: no more waits succeed than permits were put in. Event: a signaled event has no waiter, and for one signal of an auto-unsignal event one wait returns `NO_ERROR`. |
| `mutex_stranded`, `semaphore_stranded` | 3 and 2 threads, 1 CPU, finite timeouts | A waiter can be stranded: see section 6. |
| `timer` | 2 timers, 2 CPUs, clock modulo 10, delay 2, period 0 (which the code makes 1), lateness 1 | Queues are ordered by real expiry across the wrap, nothing is called early, no timer is linked twice but by the race of section 6, the hardware is armed for the head. |
| `timer_cancelled` | 1 timer, 2 CPUs | A cancelled timer is called through NULL: see section 6. |
| `thread_life` | 2 threads, 2 CPUs, create, exit, join, detach, sleep, timeouts | A freed thread is on no CPU, queue or sleep timer, and nobody waits to join it; `WaitQueue` is implemented. |
| `thread_join` | 3 threads, 1 CPU, a joiner and a detacher of one thread | The assertion after the wait of `thread_join()` fails: see section 6. |
| `thread_smp` | 3 threads, 2 CPUs, 2 priorities. Part pinned: one thread pins itself. Part realtime: it is made real-time by itself or by another, and threads lower their priority | Each thread in one place; bitmap and idle mask agree with the queues; a CPU that `mp_reschedule()` spares runs a real-time thread; a regular thread never has a CPU without the preemption timer. |
| `thread_idle` | 2 threads, 2 CPUs, one sleeps | A CPU idles beside a READY thread: see section 6. |
| `thread_live` | 3 threads of one priority, 1 CPU, quantum 2 | Round robin: a READY thread gets the CPU. |

Bounds and why they are enough:

* Three threads give an owner, a waiter and a thread that times out or arrives in
  between, which is what the hand-over of a mutex and the count of a semaphore
  need. More threads only lengthen the queue.
* Two CPUs give a step of another thread between the two halves of a timeout. The
  properties that hold with one CPU only are in `waits`, and section 6 says why.
* `MaxPosts`, `MaxSignals` and `MaxReleased` bound history counters. They are reset
  by every init, so the runs go through them again and again.
* `Half` stands for 2^31. It is larger than the longest delay plus the largest
  lateness, as the code needs it to be, and small enough that the clock wraps
  while timers are pending.
* `MCTimer` sets timers in two ways. In part "alone" a timer is set only while no
  other is in use, in every way the code allows. In part "together" both are in use,
  and the one thing left out is that another CPU sets a timer while one fires it.
  The whole space without either limit has 3.2 million states and no violation; TLC
  needs 8 minutes for it.
* `MCThreadSMP` has pinned threads and changes of class and priority in different
  behaviours. Together they have 1.9 million states, no violation, and take TLC 19
  minutes.
* `Quantum` stands for the 5 ticks of `thread_resched()`, and two priority levels
  for the 32.
* `SYMMETRY` is used in `objects` (threads that destroy nothing), `timer` (CPUs and
  timers) and `thread_smp` (CPUs). None has a liveness property, and the modules tell
  the members of these sets apart nowhere.
* Deadlock is not checked: every thread may be blocked without timeout, every bound
  reached, every thread dead, or the machine stopped by a panic.

### Fairness

`FiniteBlockReturns`, `AcquireReturns` and `NoStarvation` are liveness properties.

* `WaitQueue`: an entered timeout handler gets the thread lock (weak); a due timer
  fires and a READY thread is scheduled (strong, as other timers and threads come
  in between; timer queues are ordered by expiry and run queues rotate).
* `Mutex`: a holder releases, and a READY thread leaves `wait_queue_block()`.
  Nothing makes a thread acquire.
* `Thread`: a CPU leaves its interrupts (weak) and the preemption tick recurs while
  a regular thread runs (strong). A thread is not assumed to do anything.

## 4. What is proved

TLAPS proves these for any finite set of threads, any queues and CPUs and any
timeouts. The assumptions are the named `ASSUME`s of the modules (`ThreadsFinite`,
`NullIsNoThread`, the types of the constants, and that the object's queue is a
queue). `MutexIsFairLock` and `SemaphoreIsFair` also assume what their runs do: no
finite timeout and no destroy.

| Module | Theorem | Property |
|---|---|---|
| `WaitQueueProofs` | `WQTypeCorrect`, `WaitQueuesSound`, and from it `WaitsLinked`, `WaitsTimed`, `WakesAreFinal` | `WQTypeOK`, `LinkedIffBlocked`, `TimeoutPending`, `WakeIsFinal` |
| `MutexProofs` | `MutexInvariant`, and from it `MutexMutualExclusion`, `MutexSingleOwner`, `MutexCount` | `MutualExclusion`, `SingleOwner`, `CountIsUsers` |
| | `MutexWaitsSound`, `MutexIsFairLock` | `WQSound`, `ImplementsFairLock` |
| `SemaphoreProofs` | `SemaphoreInvariant`, and from it `SemaphoreNeverOverGranted`, `SemaphoreCountBound` | `NeverOverGranted`, `CountBound` |
| | `SemaphoreWaitsSound`, `SemaphoreIsFair` | `WQSound`, `ImplementsFairSemaphore` |
| `EventProofs` | `EventInvariant`, and from it `EventSignaledHasNoWaiter`; `EventWaitsSound`, `EventOneSignalOneThread` | `SignaledHasNoWaiter`, `WQSound`, `OneSignalOneThread` |

**Wait queues.** `WQSound` (types, `LinkedIffBlocked`, `TimeoutPending`) is inductive.
What a step does to the lists is in three lemmas: `BlockLinks` (a running thread joins
one queue at the tail), `RemoveLinks` (a wake or a timeout takes one element out,
wherever it is) and `WakeAllLinks` (a queue is emptied). The arithmetic of indices is
in `DeleteProperties`, and every object that extends `WaitQueue` uses the same lemmas.
`WakesAreFinal` needs `WQSound`: a wake takes the head of a list and does not look at
its state, so a woken thread must not be linked any more.

**Mutex.** Mutual exclusion alone is not inductive. `mutex_acquire_timeout()` takes the
mutex when `m->count` was 0, so one has to know that the count is the number of
threads that own the mutex, wait for it or have timed out and not run since
(`CountIsUsers`). A waiter that returns with `NO_ERROR` takes the mutex without any
test, so the mutex must have been handed to it and to nobody else: `SingleOwner`
counts it as owner from the release on. A release is done by the thread in
`m->holder` (`HolderIsHolding`). And a waiter that returns with another status backs
out its count only for `ERR_TIMED_OUT`, so a live mutex must give no other
(`LiveWakeStatus`). `MutexInv` is the conjunction of these with the types, and the
proof has one lemma per action. For `WQSound` the invariant is `MutexWaitInv`:
`mutex_init()` empties the list, so every linked thread must be inside an acquire
(`WaitersAcquire`), which no thread is when the mutex is initialised.

**Semaphore.** A wait that finds `sem->count` above zero takes a permit at once, so the
count must not exceed the permits left for it once every thread inside a wait has been
served: `CountBound`. It is an inequality because with several CPUs a `sem_wait()` can
time out (section 6) and keep its decrement. `SemWaitInv` adds the wait queue, as for
the mutex.

**Refinements.** The mapping takes the owners of the lock from the threads that hold it
or have been handed it, and the permits of the semaphore from `sem->count` plus the
waiters that have been granted none. Without timeouts the count is exact, so a thread
blocks only when the abstract one does, and a release or a post serves the head.

**Event.** `SignaledHasNoWaiter` is inductive given the types. The delicate step is the
timeout, which removes a thread from a queue it must not be able to add to.
`OneSignalOneThread` needs the wait queue too: a signal makes the head of the list
READY, and only because it was BLOCKED is it one more granted wait (`EventWaitInv`).

Only model-checked: the liveness properties (they need fairness and `ENABLED`), that
`Thread` implements `WaitQueue`, and everything of `Timer` and `Thread`.

## 5. What is not modelled

* The build of `timer.c` without a dynamic timer: it has the same queues and does
  not program the hardware.
* In `thread.c`: thread-local storage, stack bounds checks, statistics, the memory
  of a freed thread structure.
* `mp_sync_exec()`, ports, memory management, libraries, network and file systems:
  see the plan.
* Spinlocks, context switch, page tables, drivers and boards. A lock is mutual
  exclusion of what it guards, and a driver's interrupt handler is an action that
  wakes or signals without a thread.

## 6. Where the code and its documentation disagree

Six runs end in a violation.

* `wait_queue_smp_infinite`. `wait_queue_block()` cancels its timer as it returns.
  If another CPU has already entered the handler, the handler runs later, finds the
  thread BLOCKED in its *next* wait and ends that with `ERR_TIMED_OUT`. An infinite
  wait can return this way, against the comment on the function. With one CPU this
  cannot happen. When the thread has exited meanwhile, the late handler reads a freed
  structure; the model leaves that readable, so no property shows it.
* `mutex_stranded`. `m->count` still counts a thread that timed out until it runs.
  A release in between wakes nobody. A thread that acquires then sees a count
  above zero and blocks on a mutex without owner, and nobody is left to wake it.
* `semaphore_stranded`. The same with `sem->count`: a post is spent on a thread that
  timed out, and a later waiter sits beside the permit the thread gives back, against
  `semaphore.c:56`.
* `timer_cancelled`. `timer_cancel()` clears the callback of a timer that another CPU
  has dequeued, and `timer_tick()` then calls NULL. `timer.h` allows the cancel, and
  `wait_queue_block()` does it as it returns.
* `thread_join`. A thread exits and wakes its joiner; before the joiner runs, a third
  thread detaches the dead one and so reaps it. The joiner finds a freed structure,
  against the assertion at `thread.c:331`.
* `thread_idle`. `thread_sleep_handler()` readies the sleeper and does not call
  `wakeup_cpu_for_thread()`. Its own CPU may go on with the thread it ran while another
  idles, against `docs/threading_and_scheduler.md:90`.

Other cases are reached inside passing runs, whose properties say what holds there.

* `thread_smp`, a real-time thread lowers its priority: the early return of
  `thread_resched()` leaves its CPU in the mask of realtime CPUs although
  `thread_is_realtime()` no longer holds of it, against `mp.h:111`. What holds is
  `RealtimeCPUIsBusy`: it is still a thread flagged real-time that runs there, and the
  next switch corrects the mask.
* `thread_smp`, `thread_set_real_time()` on a thread that runs elsewhere: its CPU's
  preemption timer stays set, and the next switch to a regular thread sets it again,
  the panic of `timer_set()`. The behaviour ends there (`Panicked`). What holds up to
  there is `RegularIsPreempted`.
* `timer`, a timer made periodic while another CPU fires it: `timer_set()` has seen it
  off the queue, `timer_tick()` requeues it, and it is linked twice. The behaviour ends
  there (`Faulted`).
* `objects`, `mutex_destroy()` looks at `m->holder` without the lock: another thread can
  take the mutex before it is destroyed, and holds a mutex whose magic is gone.
  `MutualExclusion` and `SingleOwner` hold all the same; `HolderIsHolding` and
  `CountIsUsers` are about a live mutex.

One is outside the bounds: a delay of `Half` or more (2^31 ms) counts as expired at the
next tick. `INFINITE_TIME` never gets a timer, but other such delays are accepted. The
assumption `DelaysFit` excludes them.

## 7. Plan

In this order. Each step adds a module, its properties and, where it says so, proofs.

1. `Mp`: `mp_sync_exec()`. Tasks on the callers' stacks, two callers waiting for
   each other; every task runs once on every target, and every call returns.
2. `Port`: write and read ports, groups, the ring buffers and their hand-over
   between ports, over `WaitQueue`. No packet is lost, duplicated or reordered; no
   reader sleeps beside a packet.
3. `Cbuf` and `Dpc`: the event of module `Event` agrees with the buffer; work that is
   queued runs once.
4. `Pmm`, `Novm`, `Vmm`, `Asid`: pages are free or allocated, never both; regions are
   disjoint and ordered; search results against a reference definition.
5. `Heap`: `miniheap` free list and delayed frees. `Bcache` and `Bio`: LRU,
   references, arithmetic of unaligned access.
6. `Init`: order of init levels on the boot CPU and the secondary ones.
7. `Tcp`, `Arp`, `Pktbuf` of `minip`.
8. Proofs: `OnePlace` and `BitmapExact` of `Thread`, `OrderedByExpiry` of `Timer`; the
   invariants of the modules above.
