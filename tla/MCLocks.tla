------------------------------ MODULE MCLocks ------------------------------
(* UnfairLock and CpuQuiesce for TLC: a behavior is of one of them, and the *)
(* variables of the other keep their initial values.  Liveness is checked,  *)
(* so there is no symmetry.                                                 *)
EXTENDS UnfairLock, CpuQuiesce

VARIABLE object

MCInit == object \in {"lock", "counter"} /\ Init /\ QuiesceInit

LockNext == object = "lock" /\ Next /\ UNCHANGED <<quiesceVars, object>>
CounterNext == object = "counter" /\ QuiesceNext /\ UNCHANGED <<vars, object>>

\* The fairness of FairSpec and QuiesceFairSpec.
MCSpec ==
  /\ MCInit /\ [][LockNext \/ CounterNext]_<<vars, quiesceVars, object>>
  /\ \A t \in Threads : WF_vars(object = "lock" /\ FairStep(t))
  /\ \A c \in CPUs :
       /\ WF_quiesceVars(object = "counter" /\ Tick(c))
       /\ WF_quiesceVars(object = "counter" /\ cpu_quiescent_counter_checkin(c))
=============================================================================
