--------------------------- MODULE FairSemaphore ---------------------------
(***************************************************************************)
(* What a counting semaphore promises (docs/blocking_primitives.md): a     *)
(* caller waits only while no permit is available, and a posted permit     *)
(* goes to the caller that has waited longest, or becomes available.       *)
(***************************************************************************)
EXTENDS Integers, Sequences

CONSTANTS Threads, InitialCount

VARIABLES
  permits,   \* permits available to the next caller
  waiters    \* the callers waiting for one, oldest first

Init == permits = InitialCount /\ waiters = <<>>

Take == /\ permits > 0 /\ waiters = <<>>
        /\ permits' = permits - 1
        /\ UNCHANGED waiters

Request(t) == /\ permits = 0
              /\ waiters' = Append(waiters, t)
              /\ UNCHANGED permits

Post == \/ waiters = <<>> /\ permits' = permits + 1 /\ UNCHANGED waiters
        \/ waiters # <<>> /\ waiters' = Tail(waiters) /\ UNCHANGED permits

Next == Take \/ Post \/ \E t \in Threads : Request(t)

Spec == Init /\ [][Next]_<<permits, waiters>>
=============================================================================
