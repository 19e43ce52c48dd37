-------------------------- MODULE SemaphoreService --------------------------
(***************************************************************************)
(* What the kernel's semaphores promise to their callers, without counts   *)
(* of -1, references or locks: a live semaphore has units or sleepers,     *)
(* never both, and a signal that finds a sleeper wakes it and adds no      *)
(* unit.  Module MachSemaphore implements it; module DispatchSemaphore     *)
(* uses it.                                                                *)
(***************************************************************************)
EXTENDS Integers

CONSTANTS Callers, Semas

VARIABLES live,       \* the semaphores that are active
          units,      \* of each semaphore
          sleepers    \* the threads asleep on each semaphore

serviceVars == <<live, units, sleepers>>

ServiceInit ==
  /\ live = {}
  /\ units = [s \in Semas |-> 0]
  /\ sleepers = [s \in Semas |-> {}]

\* With no units, and with the units that its creator asks for.
Create(s) ==
  /\ s \notin live
  /\ live' = live \cup {s}
  /\ UNCHANGED <<units, sleepers>>

CreateWithUnits(s) ==
  /\ s \notin live
  /\ live' = live \cup {s}
  /\ units'[s] \in Nat /\ units' = [units EXCEPT ![s] = units'[s]]
  /\ UNCHANGED sleepers

\* Everyone asleep on it is woken, and its units are gone.
Destroy(s) ==
  /\ s \in live
  /\ live' = live \ {s}
  /\ units' = [units EXCEPT ![s] = 0]
  /\ sleepers' = [sleepers EXCEPT ![s] = {}]

\* A wait takes a unit, or sleeps if there is none.
Take(s) ==
  /\ s \in live /\ units[s] > 0
  /\ units' = [units EXCEPT ![s] = @ - 1]
  /\ UNCHANGED <<live, sleepers>>

Sleep(t, s) ==
  /\ s \in live /\ units[s] = 0
  /\ sleepers' = [sleepers EXCEPT ![s] = @ \cup {t}]
  /\ UNCHANGED <<live, units>>

\* A sleeper leaves: its deadline, or an abort.
Leave(t, s) ==
  /\ t \in sleepers[s]
  /\ sleepers' = [sleepers EXCEPT ![s] = @ \ {t}]
  /\ UNCHANGED <<live, units>>

\* A signal wakes a sleeper, or leaves a unit if nobody sleeps.
Wake(s, W) ==
  /\ s \in live /\ W # {} /\ W \subseteq sleepers[s]
  /\ sleepers' = [sleepers EXCEPT ![s] = @ \ W]
  /\ UNCHANGED <<live, units>>

Post(s) ==
  /\ s \in live /\ sleepers[s] = {}
  /\ units' = [units EXCEPT ![s] = @ + 1]
  /\ UNCHANGED <<live, sleepers>>

ServiceNext ==
  \E s \in Semas :
    \/ CreateWithUnits(s) \/ Destroy(s) \/ Take(s) \/ Post(s)
    \/ \E t \in Callers : Sleep(t, s) \/ Leave(t, s) \/ Wake(s, {t})
    \/ Wake(s, sleepers[s])

ServiceSpec == ServiceInit /\ [][ServiceNext]_serviceVars
=============================================================================
