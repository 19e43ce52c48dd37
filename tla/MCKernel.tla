------------------------------ MODULE MCKernel ------------------------------
(* UlockTable and CpuQuiesce for TLC: an initial state chooses one of two    *)
(* instances of the table, or the counter; what it does not choose keeps its *)
(* initial values.                                                           *)
EXTENDS UlockTableService, CpuQuiesce, TLC

CONSTANTS k1, k2, t1, t2, t3, zero

VARIABLE instance

\* A value that is a thread or MACH_PORT_DEAD names itself, and any other
\* value names no thread.
MCOwnerOf == [v \in Values |-> IF v \in Threads \cup {MACH_PORT_DEAD} THEN v ELSE NoThread]

Uses(t, k, V, O) ==
  /\ args[t].key = k /\ args[t].op \in O
  /\ "value" \in DOMAIN args[t] => args[t].value \in V

\* Two threads and both operations on one key, with another key in the bucket.
TwoThreads ==
  /\ word[k1] \in {t1, MACH_PORT_DEAD} /\ word[k2] = zero
  /\ args[t3] = NoCall
  /\ \A t \in {t1, t2} : \/ args[t] = NoCall
                         \/ Uses(t, k1, {t1, MACH_PORT_DEAD}, ClientOps)
                         \/ Uses(t, k2, {zero}, {"UL_COMPARE_AND_WAIT"})

\* Three threads and one lock.
OneLock ==
  /\ word[k1] \in {t1, zero} /\ word[k2] = zero
  /\ \A t \in Threads : args[t] = NoCall \/ Uses(t, k1, {t1, zero}, {"UL_UNFAIR_LOCK"})

Bounds == IF instance = "one lock" THEN OneLock ELSE TwoThreads

MCInit ==
  /\ Init /\ QuiesceInit
  /\ instance \in {"two threads", "one lock", "counter"} /\ Bounds
  /\ instance = "counter" => word[k1] = t1

TableNext == instance # "counter" /\ Next /\ UNCHANGED <<quiesceVars, instance>> /\ Bounds'

\* The behavior ends where a join disturbs the once word: DoneIsVisible says
\* nothing from there on, and without the word it is another of the behaviors.
\* It also ends with the bound.
CounterNext ==
  /\ instance = "counter" /\ UNCHANGED <<vars, instance>>
  /\ \/ QuiesceNext /\ ~disturbed'
     \/ ticks = MaxTicks /\ UNCHANGED quiesceVars

MCSpec == MCInit /\ [][TableNext \/ CounterNext]_<<vars, quiesceVars, instance>>

Symmetric == Permutations(Ulls) \cup Permutations(CPUs)
=============================================================================
