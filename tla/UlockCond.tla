----------------------------- MODULE UlockCond -----------------------------
(***************************************************************************)
(* pthread condition variables over ulock (libpthread, pthread_cond.c),    *)
(* which a mutex that uses ulock selects: one 64-bit word with a sequence  *)
(* number, the waiters and the signals that are on their way to them.      *)
(* Waiters sleep on the sequence number.                                   *)
(*                                                                         *)
(* The kernel's wait queue is that of module Ulock; it is ordered by       *)
(* priority, so a wake may go to any waiter.  The mutex is its owner, taken *)
(* and given up in one step.                                               *)
(***************************************************************************)
EXTENDS Ulock, Integers, FiniteSets

CONSTANT MaxSeq     \* bound on the sequence number
ASSUME CondAssumption == MaxSeq \in Nat

VARIABLES
  c_state,      \* pthread_ulock_cond_state_u: [seq, waiters, signal]
  mutex,        \* the owner of the mutex
  cond_pc,      \* where each thread is
  origseq,      \* origstate.seq of a wait
  target,       \* what the wake is for: "one", "all" or a thread
  canceled,     \* threads that were cancelled in their wait
  lost          \* the ways in which a signal has gone astray

condVars == <<ulockVars, c_state, mutex, cond_pc, origseq, target, canceled, lost>>

CondInit ==
  /\ UlockInit
  /\ c_state = [seq |-> 0, waiters |-> 0, signal |-> 0]
  /\ mutex = NoThread
  /\ cond_pc = [t \in Threads |-> "idle"]
  /\ origseq = [t \in Threads |-> 0]
  /\ target = [t \in Threads |-> "one"]
  /\ canceled = {} /\ lost = {}

CondGoto(t, label) == cond_pc' = [cond_pc EXCEPT ![t] = label]

-----------------------------------------------------------------------------
\* The mutex is taken when it is free, and given up by its owner; how each
\* kind of mutex waits for it is left out.
pthread_mutex_lock(t) ==
  /\ cond_pc[t] = "idle" /\ mutex = NoThread /\ t \notin canceled
  /\ mutex' = t
  /\ UNCHANGED <<ulockVars, c_state, cond_pc, origseq, target, canceled, lost>>

pthread_mutex_unlock(t) ==
  /\ cond_pc[t] = "idle" /\ mutex = t
  /\ mutex' = NoThread
  /\ UNCHANGED <<ulockVars, c_state, cond_pc, origseq, target, canceled, lost>>

\* _pthread_ulock_cond_wait: the waiter counts itself, and lets the mutex go.
_pthread_ulock_cond_wait(t) ==
  /\ cond_pc[t] = "idle" /\ mutex = t /\ t \notin canceled
  /\ c_state' = [c_state EXCEPT !.waiters = @ + 1]
  /\ origseq' = [origseq EXCEPT ![t] = c_state.seq]
  /\ CondGoto(t, "unlock")
  /\ UNCHANGED <<ulockVars, mutex, target, canceled, lost>>

cond_unlock(t) ==
  /\ cond_pc[t] = "unlock"
  /\ mutex' = NoThread
  /\ CondGoto(t, "ulock_wait")
  /\ UNCHANGED <<ulockVars, c_state, origseq, target, canceled, lost>>

\* __ulock_wait2: sleeps, or finds another number, or faults.
cond_ulock_wait(t) ==
  /\ cond_pc[t] = "ulock_wait"
  /\ \/ /\ c_state.seq = origseq[t]
        /\ ulock_wait_block(t, NoThread)
        /\ CondGoto(t, "kernel")
     \/ ulock_wait_bail(t) /\ CondGoto(t, "check")
  /\ UNCHANGED <<c_state, mutex, origseq, target, canceled, lost>>

\* A signal to the thread or the timeout ends its sleep.
cond_abort(t) ==
  /\ cond_pc[t] = "kernel"
  /\ \E wr \in WaitResults : waitq_abort(t, wr)
  /\ UNCHANGED <<c_state, mutex, cond_pc, origseq, target, canceled, lost>>

\* __ulock_wait2 returns.
cond_kernel_return(t) ==
  /\ cond_pc[t] = "kernel"
  /\ ulock_wait_continue(t)
  /\ CondGoto(t, IF kstate[t] = "THREAD_AWAKENED" THEN "check" ELSE "relock")
  /\ UNCHANGED <<c_state, mutex, origseq, target, canceled, lost>>

\* The cancellation point at either end of the system call:
\* _pthread_ulock_cond_cleanup.
cond_testcancel(t) ==
  /\ \/ cond_pc[t] = "ulock_wait" /\ UNCHANGED ulockVars
     \/ cond_pc[t] = "kernel" /\ ulock_wait_continue(t)
  /\ canceled' = canceled \cup {t}
  /\ CondGoto(t, "relock")
  /\ UNCHANGED <<c_state, mutex, origseq, target, lost>>

\* The condition of the loop.
cond_check(t) ==
  /\ cond_pc[t] = "check"
  /\ CondGoto(t, IF c_state.seq = origseq[t] THEN "ulock_wait" ELSE "relock")
  /\ UNCHANGED <<ulockVars, c_state, mutex, origseq, target, canceled, lost>>

\* _pthread_ulock_cond_wait_complete: the mutex, and then the counts.
cond_relock(t) ==
  /\ cond_pc[t] = "relock" /\ mutex = NoThread
  /\ mutex' = t
  /\ CondGoto(t, "complete")
  /\ UNCHANGED <<ulockVars, c_state, origseq, target, canceled, lost>>

\* Mutant: a waiter that was not signalled leaves the signals alone.
complete_keeps_signal(t) ==
  /\ cond_pc[t] = "complete"
  /\ c_state' = [c_state EXCEPT !.waiters = @ - 1]
  /\ origseq' = [origseq EXCEPT ![t] = 0]
  /\ CondGoto(t, IF t \in canceled THEN "cleanup" ELSE "idle")
  /\ UNCHANGED <<ulockVars, mutex, target, canceled, lost>>

_pthread_ulock_cond_wait_complete(t) ==
  /\ cond_pc[t] = "complete"
  /\ c_state' = [c_state EXCEPT !.waiters = @ - 1,
                                !.signal = IF @ > 0 THEN @ - 1 ELSE 0]
  /\ origseq' = [origseq EXCEPT ![t] = 0]
  /\ CondGoto(t, IF t \in canceled THEN "cleanup" ELSE "idle")
  /\ UNCHANGED <<ulockVars, mutex, target, canceled, lost>>

-----------------------------------------------------------------------------
\* The call of pthread_cond_signal, _broadcast or _signal_thread_np that t
\* makes: as a client, with or without the mutex, from the cleanup of a
\* cancelled wait, or when a signal to a thread becomes a broadcast.
Calls(t, goal) ==
  \/ cond_pc[t] = "idle" /\ t \notin canceled
  \/ cond_pc[t] = "cleanup" /\ goal = "one"
  \/ cond_pc[t] = "promote" /\ goal = "all"

\* The loop of _pthread_ulock_cond_signal.
_pthread_ulock_cond_signal(t, goal) ==
  /\ Calls(t, goal)
  /\ IF c_state.waiters = 0 \/ c_state.waiters = c_state.signal
     THEN /\ CondGoto(t, "idle")
          /\ lost' = IF cond_pc[t] = "promote" THEN lost \cup {"promoted"} ELSE lost
          /\ UNCHANGED <<c_state, target>>
     ELSE /\ c_state.seq < MaxSeq
          /\ c_state' = [c_state EXCEPT !.seq = @ + 1,
                           !.signal = IF goal = "all" THEN c_state.waiters ELSE @ + 1]
          /\ target' = [target EXCEPT ![t] = goal]
          /\ CondGoto(t, "wake")
          /\ UNCHANGED lost
  /\ UNCHANGED <<ulockVars, mutex, origseq, canceled>>

\* __ulock_wake, after which a waiter that came when the number had been
\* counted already will sleep again; EALREADY makes it a broadcast.
cond_wake(t) ==
  /\ cond_pc[t] = "wake"
  /\ \/ target[t] = "one" /\ ulock_wake_one /\ CondGoto(t, "idle")
     \/ target[t] = "all" /\ ulock_wake_all /\ CondGoto(t, "idle")
     \/ /\ target[t] \in Threads
        /\ ulock_wake_thread(target[t])
        /\ CondGoto(t, IF target[t] \in waitq \/ ull_waiters = {} THEN "idle" ELSE "promote")
  /\ lost' = IF \E w \in Threads : kstate[w] # kstate'[w] /\ origseq[w] = c_state.seq
             THEN lost \cup {"late"} ELSE lost
  /\ target' = [target EXCEPT ![t] = "one"]
  /\ UNCHANGED <<c_state, mutex, origseq, canceled>>

CondStep(t) ==
  \/ cond_unlock(t) \/ cond_ulock_wait(t) \/ cond_kernel_return(t) \/ cond_check(t)
  \/ cond_relock(t) \/ _pthread_ulock_cond_wait_complete(t) \/ cond_wake(t)
  \/ cond_testcancel(t)

CondNext ==
  \E t \in Threads :
    \/ pthread_mutex_lock(t) \/ pthread_mutex_unlock(t)
    \/ _pthread_ulock_cond_wait(t) \/ cond_abort(t) \/ CondStep(t)
    \/ \E goal \in {"one", "all"} \cup Threads : _pthread_ulock_cond_signal(t, goal)

CondSpec == CondInit /\ [][CondNext]_condVars
-----------------------------------------------------------------------------
InWait == {t \in Threads : cond_pc[t] \in {"unlock", "ulock_wait", "kernel", "check",
                                           "relock", "complete"}}

\* Waiters that sleep, and those that will sleep again as things stand.
Blocked ==
  {t \in InWait :
     \/ kstate[t] = "THREAD_WAITING"
     \/ /\ cond_pc[t] \in {"unlock", "ulock_wait", "check"} \/ kstate[t] = "THREAD_AWAKENED"
        /\ origseq[t] = c_state.seq}

\* The waiters that the threads on their way to __ulock_wake will wake.
Owed ==
  LET wakers == {t \in Threads : cond_pc[t] \in {"wake", "promote"}}
  IN IF \E t \in wakers : cond_pc[t] = "promote" \/ target[t] # "one"
     THEN Cardinality(Threads) ELSE Cardinality(wakers)

\* The signals that were counted have each unblocked a waiter, or will.
SignalUnblocks ==
  Cardinality(Blocked) <= c_state.waiters - c_state.signal + Owed

\* Although a waiter may time out, be interrupted or be cancelled while it is
\* being signalled, and takes a signal with it that was for another, signals
\* get lost in two ways only: the wake goes to a thread that came to wait
\* after the signal was counted, or a signal to a thread that does not wait
\* is to become a broadcast and finds all the waiters signalled already.
SignalsLostInTwoWays == lost = {} => SignalUnblocks
=============================================================================
