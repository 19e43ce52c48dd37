-------------------------- MODULE MCMachSemaphore --------------------------
(* MachSemaphore for TLC.                                                   *)
EXTENDS MachSemaphore, TLC

CONSTANTS t1, t2

\* One thread creates semaphores, and waits and signals in one call; the
\* other does everything else.
Roles ==
  /\ trap[t1].at \notin {"destroy", "notify"}
  /\ trap[t1].at \in {"signal_name", "wait_name"} =>
       trap[t1].opt = "deadline" /\ trap[t1].signal # NoSema
  /\ trap[t2].at = "wait_name" =>
       trap[t2].opt \in {"deadline", "noblock"} /\ trap[t2].signal = NoSema
  /\ trap[t2].at = "signal_name" => trap[t2].opt \in {"any", "all", t1}

MCNext == MachNext /\ Roles'

MCSpec == MachInit /\ [][MCNext]_machVars

Symmetric == Permutations(Semas)
=============================================================================
