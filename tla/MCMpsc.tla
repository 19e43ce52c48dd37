------------------------------- MODULE MCMpsc ------------------------------
(* MpscQueue and MpscDaemon for TLC: a behavior is of one of them, and the  *)
(* variables of the other keep their initial values.  Liveness is checked,  *)
(* so there is no symmetry.                                                 *)
EXTENDS MpscQueue, MpscDaemon

CONSTANTS n1, n2

VARIABLE object

AloneOrNested == {{}, {n1, n2}}

MCInit ==
  /\ object \in {"queue", "daemon"}
  /\ QueueInit /\ DaemonInit
  /\ object = "queue" => Nested = {} /\ sched = "idle"

ListNext == object = "queue" /\ QueueNext /\ UNCHANGED <<daemonVars, object>>
DrainNext == object = "daemon" /\ DaemonNext /\ UNCHANGED <<queueVars, object>>

\* The fairness of QueueFairSpec and DaemonFairSpec.
MCSpec ==
  /\ MCInit /\ [][ListNext \/ DrainNext]_<<queueVars, daemonVars, object>>
  /\ \A p \in Producers : WF_queueVars(object = "queue" /\ append_update_prev(p))
  /\ WF_queueVars(object = "queue" /\ Consumes)
  /\ SF_queueVars(object = "queue" /\ batch_foreach)
  /\ \A t \in DaemonThreads : WF_daemonVars(object = "daemon" /\ Enqueue(t))
  /\ WF_daemonVars(object = "daemon" /\ Drain)
  /\ WF_daemonVars(object = "daemon" /\ Cancel)
=============================================================================
