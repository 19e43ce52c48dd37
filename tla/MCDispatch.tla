----------------------------- MODULE MCDispatch -----------------------------
(* DispatchSemaphore, DispatchGroup and OnceGate for TLC: a behavior is of  *)
(* one of them, and the variables of the others keep their initial values.  *)
(* Liveness is checked, so there is no symmetry; the threads that use a     *)
(* semaphore or a group have roles instead.                                 *)
EXTENDS DispatchSemaphore, DispatchGroup, OnceGate

CONSTANTS t1, t2, t3, b1, b2

VARIABLE object

\* One thread signals, creates and disposes of the semaphores, one signals and
\* waits with a timeout, and one waits.
SemaRoles ==
  /\ call[t1] \notin DISPATCH_TIMES
  /\ call[t2] # "DISPATCH_TIME_FOREVER"
  /\ call[t3] \notin {"signal", "timed"}

DisposedByT1 == alive /\ ~alive' => \A t \in Callers \ {t1} : cache'[t] = cache[t]

\* Two threads enter and leave, one of these and a third one notify, and the
\* third one waits.
GroupRoles ==
  /\ group_pc[t1] \notin Waits /\ local[t1].block = NoBlock
  /\ group_pc[t2] \notin Waits /\ local[t2].block \in {NoBlock, b1}
  /\ group_pc[t3] \notin {"enter", "clear"} /\ local[t3].block \in {NoBlock, b2}

MCInit ==
  /\ object \in {"semaphore", "group", "gate"}
  /\ SemaInit /\ GroupInit /\ OnceInit

SemaphoreNext == /\ object = "semaphore" /\ SemaNext
                 /\ SemaRoles' /\ DisposedByT1
                 /\ UNCHANGED <<groupVars, gateVars, object>>
EnterLeaveNext == /\ object = "group" /\ GroupNext
                  /\ GroupRoles'
                  /\ UNCHANGED <<semaVars, gateVars, object>>
GateNext == /\ object = "gate" /\ OnceNext
            /\ UNCHANGED <<semaVars, groupVars, object>>

\* The objects that are not chosen have no step that is enabled.
MCSpec ==
  /\ MCInit
  /\ [][SemaphoreNext \/ EnterLeaveNext \/ GateNext]_<<semaVars, groupVars, gateVars, object>>
  /\ SemaFairness /\ GroupFairness
  /\ \A t \in Threads : WF_gateVars(FairOnceStep(t))
=============================================================================
