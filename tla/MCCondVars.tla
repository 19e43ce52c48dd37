----------------------------- MODULE MCCondVars ----------------------------
(* Condition variables of either kind for TLC: a behavior is one of them,   *)
(* and the variables of the other keep their initial values.  Only safety   *)
(* is checked, so threads that are alike are interchangeable.  Two of the   *)
(* threads of the one kind are the sleepers of the other, which keeps the   *)
(* number of permutations small.                                            *)
EXTENDS UlockCond, PsynchCond

VARIABLE object

AnyInit ==
  /\ object \in {"ulock", "psynch"} /\ CondInit /\ PsynchInit
  /\ object = "ulock" => c_useq = c_lseq

UlockNext == object = "ulock" /\ CondNext /\ UNCHANGED <<psynchVars, object>>
KextNext == object = "psynch" /\ PsynchNext /\ UNCHANGED <<condVars, object>>

AnySpec == AnyInit /\ [][UlockNext \/ KextNext]_<<condVars, psynchVars, object>>

Alike == Permutations(Sleepers) \cup Permutations(Signallers)
=============================================================================
