----------------------------- MODULE MCObjects -----------------------------
(***************************************************************************)
(* The objects that are built on wait queues: a behaviour is one of a      *)
(* mutex, of a semaphore or of an event, with every timeout and with       *)
(* threads that destroy them.                                              *)
(***************************************************************************)
EXTENDS Mutex, Semaphore, Event, TLC

CONSTANT Others   \* threads that destroy nothing and are not told apart

VARIABLE part     \* the object that is used

objectvars == <<part, wqvars, mvars, svars, evars>>

ObjectsInit ==
  /\ part \in {"mutex", "semaphore", "event"}
  /\ Init /\ SemInit /\ EventInit
  /\ part # "event" => signaled = 0 /\ autounsignal = FALSE

ObjectsNext ==
  /\ UNCHANGED part
  /\ \/ part = "mutex" /\ Next /\ UNCHANGED <<svars, evars>>
     \/ part = "semaphore" /\ SemNext /\ UNCHANGED <<mvars, evars>>
     \/ part = "event" /\ EventNext /\ UNCHANGED <<mvars, svars>>

ObjectsSpec == ObjectsInit /\ [][ObjectsNext]_objectvars

Symmetry == Permutations(Others)
=============================================================================
