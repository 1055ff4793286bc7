------------------------------ MODULE MCThread ------------------------------
(* Values for the constants of module Thread that are functions or pairs. *)
EXTENDS Thread, TLC

CONSTANTS t1, t2, t3, c1, c2

(* t2 pins itself to any CPU. *)
SecondPinsItself == {t2} \X {t2} \X CPUs

EqualPriority == [t \in Threads |-> 1]
TwoPriorities == [t \in Threads |-> IF t = t2 THEN 2 ELSE 1]

(* t2 becomes a real-time thread by its own call or by one of t1. *)
AnyRealTime == {<<t1, t2>>, <<t2, t2>>}

(* The CPUs are alike: a call may name any of them. *)
CPUSymmetry == Permutations(CPUs)
=============================================================================
