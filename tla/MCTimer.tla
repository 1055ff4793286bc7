------------------------------ MODULE MCTimer ------------------------------
(***************************************************************************)
(* Module Timer for TLC, in two parts.  "alone": a timer is set only while *)
(* no other is in use, in every way.  "together": both timers are in use,  *)
(* and a timer that a CPU has taken off its queue to call is set again     *)
(* only by its own callback.                                               *)
(***************************************************************************)
EXTENDS Timer, TLC

VARIABLE part

MCInit == TimerInit /\ part \in {"alone", "together"}

Sets(tm) == setting[tm] = NULL /\ setting'[tm] # NULL

MCNext ==
  /\ TimerNext
  /\ UNCHANGED part
  /\ part = "alone" =>
       \A tm, other \in Timers : Sets(tm) /\ other # tm => ~Active(other)
  /\ part = "together" =>
       \A tm \in Timers, c \in CPUs :
         Sets(tm) /\ tick[c].timer = tm => setting'[tm].context = c

MCSpec == MCInit /\ [][MCNext]_<<part, alltimervars>>

(* Neither the CPUs nor the timers are told apart. *)
Symmetry == Permutations(CPUs) \cup Permutations(Timers)
=============================================================================
