------------------------- MODULE CountingSemaphore -------------------------
(***************************************************************************)
(* What a dispatch semaphore promises: permits that each signal adds one   *)
(* to and each wait that returns 0 takes one from, never more than there   *)
(* are; a wait may give up only if it has a timeout.                       *)
(***************************************************************************)
EXTENDS Integers

CONSTANTS Threads

VARIABLES permits,    \* how many waits can still succeed
          status      \* "idle", "timed" or "forever" while waiting, or
                      \* "granted" when a wait is about to return 0

vars == <<permits, status>>

Init == permits \in Nat /\ status = [t \in Threads |-> "idle"]

\* dispatch_semaphore_signal.
Signal == permits' = permits + 1 /\ UNCHANGED status

\* dispatch_semaphore_wait: succeeds at once, or has to wait.
Acquire == permits > 0 /\ permits' = permits - 1 /\ UNCHANGED status

Wait(t) ==
  /\ status[t] = "idle"
  /\ \E s \in {"timed", "forever"} : status' = [status EXCEPT ![t] = s]
  /\ UNCHANGED permits

\* A waiting thread gets a permit, and later returns.
Grant(t) ==
  /\ status[t] \in {"timed", "forever"} /\ permits > 0
  /\ permits' = permits - 1
  /\ status' = [status EXCEPT ![t] = "granted"]

Return(t) ==
  /\ status[t] = "granted"
  /\ status' = [status EXCEPT ![t] = "idle"]
  /\ UNCHANGED permits

\* A wait times out: it takes nothing.
TimeOut(t) ==
  /\ status[t] = "timed"
  /\ status' = [status EXCEPT ![t] = "idle"]
  /\ UNCHANGED permits

\* The semaphore is disposed of, and a new one created.
Renew ==
  /\ \A t \in Threads : status[t] = "idle"
  /\ permits' \in Nat
  /\ UNCHANGED status

Next ==
  \/ Signal \/ Acquire \/ Renew
  \/ \E t \in Threads : Wait(t) \/ Grant(t) \/ Return(t) \/ TimeOut(t)

Spec == Init /\ [][Next]_vars
=============================================================================
