---------------------------- MODULE MCThreadSMP ----------------------------
(***************************************************************************)
(* Module Thread on several CPUs, in two parts.  "pinned": threads pin     *)
(* themselves and keep their class and priority.  "realtime": they change  *)
(* class and priority and are not pinned.                                  *)
(***************************************************************************)
EXTENDS MCThread

VARIABLE part

SMPInit == Init /\ part \in {"pinned", "realtime"}

SMPNext ==
  /\ Next
  /\ UNCHANGED part
  /\ part = "pinned" => real_time' = {} /\ priority' = StartPriority
  /\ part = "realtime" => UNCHANGED pinned

SMPSpec == SMPInit /\ [][SMPNext]_<<part, vars>>
=============================================================================
