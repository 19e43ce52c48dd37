------------------------------ MODULE OnceGate ------------------------------
(***************************************************************************)
(* os_once of libplatform (src/os/lock.c) over the kernel's ulock, with    *)
(* __os_once_reset, which pthread_once runs when the thread in the         *)
(* initializer is cancelled.  Without resets it is dispatch_once as well   *)
(* (libdispatch src/once.c and src/shims/lock.c).                          *)
(*                                                                         *)
(* The once word is 0, all ones, the port of the initializing thread (low  *)
(* two bits set), that port with the nowaiters bit cleared, or a           *)
(* generation (low two bits 01).  Which generation it is, and when enough  *)
(* of them have passed, is the matter of module CpuQuiesce: here the       *)
(* comparison may go either way.                                           *)
(***************************************************************************)
EXTENDS Ulock, Integers

CONSTANTS UseQuiescentCounter,  \* OS_ONCE_USE_QUIESCENT_COUNTER
          Cancellation,         \* whether initializers can be cancelled
          GateMisuse            \* whether an initializer calls os_once on
                                    \* its own gate, or exits without a reset

ASSUME OnceAssumption ==
  UseQuiescentCounter \in BOOLEAN /\ Cancellation \in BOOLEAN /\ GateMisuse \in BOOLEAN

VARIABLES ogo_once,     \* the once word
          gate_pc,      \* where each thread is in _os_once
          gate_current,      \* the word that the thread read or wrote last
          initialized,  \* whether an initializer has run to its end
          returned,     \* threads that have returned from os_once
          gate_crash    \* why the process aborted, and the thread that did it

onceVars == <<ogo_once, gate_pc, gate_current, initialized, returned, gate_crash>>

gateVars == <<ulockVars, onceVars>>

GateWords == [kind : {"INIT", "OWNED", "GEN", "DONE"},
              owner : Threads \cup {NoThread}, nowaiters : {0, 1}]

OS_ONCE_INIT == [kind |-> "INIT", owner |-> NoThread, nowaiters |-> 0]
OS_ONCE_DONE == [kind |-> "DONE", owner |-> NoThread, nowaiters |-> 1]
Generation   == [kind |-> "GEN",  owner |-> NoThread, nowaiters |-> 1]

Owned(t, n) == [kind |-> "OWNED", owner |-> t, nowaiters |-> n]

GateLabels == {"idle", "cmpxchg", "func", "gate_wait", "ulock_wait", "kernel",
               "mark_done", "broadcast", "broadcast_exit", "exited"}

GateNotCrashed == [why |-> "none", who |-> NoThread]

GateCrashes == [why : {"none", "recursive", "unowned", "corrupt", "no_waiters"},
                who : Threads \cup {NoThread}]

OnceTypeOK ==
  /\ ogo_once \in GateWords
  /\ gate_pc \in [Threads -> GateLabels]
  /\ gate_current \in [Threads -> GateWords]
  /\ initialized \in {0, 1}
  /\ returned \in SUBSET Threads
  /\ gate_crash \in GateCrashes

\* Type invariant of the gate and of the kernel's record of it.
GateTypeOK == UlockTypeOK /\ OnceTypeOK

OnceInit ==
  /\ UlockInit
  /\ ogo_once = OS_ONCE_INIT
  /\ gate_pc = [t \in Threads |-> "idle"]
  /\ gate_current = [t \in Threads |-> OS_ONCE_INIT]
  /\ initialized = 0
  /\ returned = {}
  /\ gate_crash = GateNotCrashed

gate_goto(t, label) == gate_pc' = [gate_pc EXCEPT ![t] = label]

gate_abort(t, why) ==
  /\ gate_crash' = [why |-> why, who |-> t]
  /\ UNCHANGED <<gate_pc, gate_current, initialized, returned>>

\* _os_once returns to its caller.
return(t) == gate_goto(t, "idle") /\ returned' = returned \cup {t}
-----------------------------------------------------------------------------
\* os_once and the first load of _os_once: the word is DONE (the inline fast
\* path), or a generation, or has to be looked at with a compare-and-swap.
os_once(t) ==
  /\ gate_pc[t] = "idle"
  /\ \/ ogo_once = OS_ONCE_DONE /\ return(t)
     \/ ogo_once = Generation /\ gate_goto(t, "mark_done") /\ UNCHANGED returned
     \/ /\ ogo_once \notin {Generation, OS_ONCE_DONE}
        /\ gate_goto(t, "cmpxchg") /\ UNCHANGED returned
  /\ UNCHANGED <<ogo_once, gate_current, initialized, gate_crash, ulockVars>>

\* The initializer calls os_once on the same gate.
os_once_recursive(t) ==
  /\ GateMisuse
  /\ gate_pc[t] = "func"
  /\ gate_goto(t, "cmpxchg")
  /\ UNCHANGED <<ogo_once, gate_current, initialized, returned, gate_crash, ulockVars>>

\* The rest of _os_once: the swap that makes t the initializer.
os_once_cmpxchg(t) ==
  /\ gate_pc[t] = "cmpxchg"
  /\ IF ogo_once = OS_ONCE_INIT
     THEN ogo_once' = Owned(t, 1) /\ gate_goto(t, "func")
     ELSE UNCHANGED ogo_once /\ gate_goto(t, "gate_wait")
  /\ UNCHANGED <<gate_current, initialized, returned, gate_crash, ulockVars>>

\* Mutant: a waiter that finds the gate reset enters it without the swap.
gate_wait_enters(t) ==
  /\ gate_pc[t] = "gate_wait"
  /\ IF ogo_once = OS_ONCE_INIT
     THEN gate_goto(t, "func") /\ UNCHANGED <<ogo_once, gate_current>>
     ELSE /\ ogo_once.kind = "OWNED"
          /\ ogo_once' = [ogo_once EXCEPT !.nowaiters = 0]
          /\ gate_current' = [gate_current EXCEPT ![t] = ogo_once']
          /\ gate_goto(t, "ulock_wait")
  /\ UNCHANGED <<initialized, returned, gate_crash, ulockVars>>

\* One pass of the loop of _os_once_gate_wait up to the system call.
os_once_gate_wait(t) ==
  /\ gate_pc[t] = "gate_wait"
  /\ \/ /\ ogo_once = OS_ONCE_DONE
        /\ return(t)
        /\ UNCHANGED <<ogo_once, gate_current, initialized, gate_crash>>
     \/ /\ ogo_once = Generation
        /\ gate_goto(t, "mark_done")
        /\ UNCHANGED <<ogo_once, gate_current, initialized, returned, gate_crash>>
     \/ /\ ogo_once = OS_ONCE_INIT
        /\ ogo_once' = Owned(t, 1)
        /\ gate_goto(t, "func")
        /\ UNCHANGED <<gate_current, initialized, returned, gate_crash>>
     \/ /\ ogo_once.kind = "OWNED"
        /\ ogo_once' = [ogo_once EXCEPT !.nowaiters = 0]
        /\ IF ogo_once.owner = t
           THEN gate_abort(t, "recursive")
           ELSE /\ gate_current' = [gate_current EXCEPT ![t] = ogo_once']
                /\ gate_goto(t, "ulock_wait")
                /\ UNCHANGED <<initialized, returned, gate_crash>>
  /\ UNCHANGED ulockVars

\* __ulock_wait while the word has the expected value: it blocks, or finds
\* that the owner is no thread any more.
gate_wait_block(t) ==
  /\ gate_pc[t] = "ulock_wait"
  /\ ogo_once = gate_current[t]
  /\ \/ /\ gate_pc[ogo_once.owner] # "exited"
        /\ ulock_wait_block(t, ogo_once.owner)
        /\ gate_goto(t, "kernel")
        /\ UNCHANGED <<ogo_once, gate_current, initialized, returned, gate_crash>>
     \/ /\ gate_pc[ogo_once.owner] = "exited"
        /\ ulock_wait_bail(t)
        /\ gate_abort(t, "corrupt")
        /\ UNCHANGED ogo_once

\* __ulock_wait after the word changed, or with a copyin that faults.
gate_wait_bail(t) ==
  /\ gate_pc[t] = "ulock_wait"
  /\ ulock_wait_bail(t)
  /\ gate_goto(t, "gate_wait")
  /\ UNCHANGED <<ogo_once, gate_current, initialized, returned, gate_crash>>

\* A signal takes t off the wait queue.
gate_interrupt(t) ==
  /\ waitq_abort(t, "THREAD_INTERRUPTED")
  /\ UNCHANGED onceVars

\* Mutant: a woken thread takes the initialization to be done.
return_unchecked(t) ==
  /\ gate_pc[t] = "kernel"
  /\ ulock_wait_continue(t)
  /\ return(t)
  /\ UNCHANGED <<ogo_once, gate_current, initialized, gate_crash>>

\* Return from the kernel, whatever the result.
gate_wait_return(t) ==
  /\ gate_pc[t] = "kernel"
  /\ ulock_wait_continue(t)
  /\ gate_goto(t, "gate_wait")
  /\ UNCHANGED <<ogo_once, gate_current, initialized, returned, gate_crash>>

\* _os_once_mark_done_if_quiesced.
mark_done_if_quiesced(t) ==
  /\ gate_pc[t] = "mark_done"
  /\ ogo_once' \in {ogo_once, OS_ONCE_DONE}
  /\ return(t)
  /\ UNCHANGED <<gate_current, initialized, gate_crash, ulockVars>>

\* Mutant: no return before the broadcast.
callout_always_broadcasts(t) ==
  /\ gate_pc[t] = "func"
  /\ initialized' = 1
  /\ ogo_once' = IF UseQuiescentCounter THEN Generation ELSE OS_ONCE_DONE
  /\ gate_current' = [gate_current EXCEPT ![t] = ogo_once]
  /\ gate_goto(t, "broadcast")
  /\ UNCHANGED <<returned, gate_crash, ulockVars>>

\* _os_once_callout after the initializer has run: the exchange, and the
\* return when there are no waiters.
os_once_callout(t) ==
  /\ gate_pc[t] = "func"
  /\ initialized' = 1
  /\ ogo_once' = IF UseQuiescentCounter THEN Generation ELSE OS_ONCE_DONE
  /\ gate_current' = [gate_current EXCEPT ![t] = ogo_once]
  /\ IF ogo_once = Owned(t, 1)
     THEN return(t)
     ELSE gate_goto(t, "broadcast") /\ UNCHANGED returned
  /\ UNCHANGED <<gate_crash, ulockVars>>

\* Mutant: the reset does not wake the waiters.
reset_silently(t) ==
  /\ Cancellation
  /\ gate_pc[t] = "func"
  /\ ogo_once' = OS_ONCE_INIT
  /\ gate_goto(t, "exited")
  /\ UNCHANGED <<gate_current, initialized, returned, gate_crash, ulockVars>>

\* __os_once_reset by the cleanup handler of a cancelled initializer; the
\* thread does not come back to _os_once.
os_once_reset(t) ==
  /\ Cancellation
  /\ gate_pc[t] = "func"
  /\ ogo_once' = OS_ONCE_INIT
  /\ gate_current' = [gate_current EXCEPT ![t] = ogo_once]
  /\ gate_goto(t, IF ogo_once = Owned(t, 1) THEN "exited" ELSE "broadcast_exit")
  /\ UNCHANGED <<initialized, returned, gate_crash, ulockVars>>

\* Mutant: ulock_wake without ULF_WAKE_ALL.
broadcast_wakes_one(t) ==
  /\ gate_pc[t] \in {"broadcast", "broadcast_exit"}
  /\ ulock_wake_owner(t)
  /\ IF gate_pc[t] = "broadcast" THEN return(t)
     ELSE gate_goto(t, "exited") /\ UNCHANGED returned
  /\ UNCHANGED <<ogo_once, gate_current, initialized, gate_crash>>

\* _os_once_gate_broadcast; ENOENT counts as success.
os_once_gate_broadcast(t) ==
  /\ gate_pc[t] \in {"broadcast", "broadcast_exit"}
  /\ \/ /\ gate_current[t].owner # t \/ gate_current[t].nowaiters = 1
        /\ gate_abort(t, IF gate_current[t].owner # t THEN "unowned" ELSE "no_waiters")
        /\ UNCHANGED ulockVars
     \/ /\ gate_current[t] = Owned(t, 0)
        /\ ulock_wake_owner_all(t)
        /\ IF gate_pc[t] = "broadcast" THEN return(t)
           ELSE gate_goto(t, "exited") /\ UNCHANGED returned
        /\ UNCHANGED <<gate_current, initialized, gate_crash>>
  /\ UNCHANGED ogo_once

\* The thread exits in an initializer that is not under pthread_once.
gate_terminate(t) ==
  /\ GateMisuse
  /\ gate_pc[t] = "func"
  /\ gate_goto(t, "exited")
  /\ UNCHANGED <<ogo_once, gate_current, initialized, returned, gate_crash, ulockVars>>

OnceStep(t) ==
  \/ os_once_cmpxchg(t) \/ os_once_gate_wait(t) \/ gate_wait_block(t)
  \/ gate_wait_bail(t) \/ gate_wait_return(t) \/ mark_done_if_quiesced(t)
  \/ os_once_callout(t) \/ os_once_reset(t) \/ os_once_gate_broadcast(t)

OnceNext ==
  /\ gate_crash = GateNotCrashed
  /\ \E t \in Threads : \/ os_once(t) \/ OnceStep(t) \/ gate_interrupt(t)
                        \/ os_once_recursive(t) \/ gate_terminate(t)

OnceSpec == OnceInit /\ [][OnceNext]_gateVars

\* Threads are scheduled, and an initializer ends or is cancelled.
FairOnceStep(t) == gate_crash = GateNotCrashed /\ OnceStep(t)
OnceFairSpec == OnceSpec /\ \A t \in Threads : WF_gateVars(FairOnceStep(t))
-----------------------------------------------------------------------------
\* One thread at a time is in the initializer, none after an initializer has
\* run to its end, and the word names it: resets, late broadcasts and
\* waiters that become initializers themselves included.
RunsOnce ==
  \A t \in Threads : gate_pc[t] = "func" => ogo_once.owner = t /\ initialized = 0

\* No caller returns before an initializer has run to its end, by whichever
\* of the five ways out; so the loop of pthread_once never turns.
ReturnsInitialized == returned # {} => initialized = 1

\* No lost wakeup: while a thread sleeps at the gate, the owner that the
\* kernel knows is a thread that is in the initializer with the nowaiters
\* bit cleared, or on its way to the broadcast.  It is not always the thread
\* that was the owner when the sleeper came.
NoLostBroadcast ==
  waitq # {} =>
    /\ ull_owner \in Threads
    /\ \/ ogo_once = Owned(ull_owner, 0)
       \/ gate_pc[ull_owner] \in {"broadcast", "broadcast_exit"}

\* The gate aborts only on misuse: an initializer that enters its own gate,
\* or a thread that exits in the initializer without a reset.
GateAbortOnlyOnMisuse ==
  /\ ~GateMisuse => gate_crash = GateNotCrashed
  /\ gate_crash.why \in {"none", "recursive", "corrupt"}
  /\ gate_crash.why = "recursive" => ogo_once.owner = gate_crash.who
  /\ gate_crash.why = "corrupt" => gate_pc[ogo_once.owner] = "exited"

\* The assumption that os_once and pthread_once pass on to the compiler when
\* _os_once has returned: the word is all ones.
AssumedDone == returned # {} => ogo_once = OS_ONCE_DONE

\* The initializer exited without a reset: the gate is owned for ever.
Abandoned == \E t \in Threads : gate_pc[t] = "exited" /\ ogo_once.owner = t

\* Every call returns, or its thread is cancelled in the initializer; unless
\* a client misused the gate and was aborted, or abandoned it.
CallsEnd ==
  \A t \in Threads :
    []<>(gate_pc[t] \in {"idle", "exited"} \/ gate_crash # GateNotCrashed \/ Abandoned)
=============================================================================
