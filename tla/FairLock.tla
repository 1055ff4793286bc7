------------------------------ MODULE FairLock ------------------------------
(***************************************************************************)
(* What a mutex promises its callers (kernel/include/kernel/mutex.h): one  *)
(* owner at a time, a caller waits only while somebody owns the lock, and  *)
(* a release passes the lock to the caller that has waited longest.        *)
(***************************************************************************)
EXTENDS Sequences

CONSTANT Threads

VARIABLES
  owners,    \* the threads the lock has been given to
  waiters    \* the callers waiting for it, oldest first

Init == owners = {} /\ waiters = <<>>

Take(t) == /\ owners = {} /\ waiters = <<>>
           /\ owners' = {t}
           /\ UNCHANGED waiters

Request(t) == /\ owners # {} /\ t \notin owners
              /\ waiters' = Append(waiters, t)
              /\ UNCHANGED owners

Release(t) == /\ owners = {t}
              /\ \/ waiters = <<>> /\ owners' = {} /\ UNCHANGED waiters
                 \/ waiters # <<>> /\ owners' = {Head(waiters)} /\ waiters' = Tail(waiters)

Next == \E t \in Threads : Take(t) \/ Request(t) \/ Release(t)

Spec == Init /\ [][Next]_<<owners, waiters>>
=============================================================================
