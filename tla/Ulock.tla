------------------------------- MODULE Ulock -------------------------------
(***************************************************************************)
(* What the kernel's ulock calls promise for one user address:             *)
(* compare-and-block, wake, and the bookkeeping of the waiters and of the  *)
(* owner that the kernel believes in.  Each operator below is one critical *)
(* section of ull_lock in bsd/kern/sys_ulock.c, taken to happen at the     *)
(* instant of its copyin.  Module UlockTable has the hash table, the       *)
(* reference counts and the locks that implement it.                       *)
(*                                                                         *)
(* kstate[t] is where thread t stands in ulock_wait: outside ("USER"),     *)
(* on the wait queue ("THREAD_WAITING"), or off the queue with a wait      *)
(* result and not yet through ulock_wait_cleanup.  ull_nwaiters is the     *)
(* number of threads that are not in "USER"; a ull_t exists while it is    *)
(* not zero.                                                               *)
(***************************************************************************)
CONSTANTS Threads,      \* threads of the process, named by their ports
          NoThread      \* THREAD_NULL, and the owner in an unlocked word

ASSUME ThreadsAssumption == NoThread \notin Threads

VARIABLES kstate,       \* [Threads -> WaitStates]
          ull_owner     \* ull_t.ull_owner, NoThread when there is no ull_t

ulockVars == <<kstate, ull_owner>>

WaitResults == {"THREAD_AWAKENED", "THREAD_TIMED_OUT", "THREAD_INTERRUPTED"}

WaitStates == {"USER", "THREAD_WAITING"} \cup WaitResults

UlockTypeOK ==
  /\ kstate \in [Threads -> WaitStates]
  /\ ull_owner \in Threads \cup {NoThread}

UlockInit ==
  /\ kstate = [t \in Threads |-> "USER"]
  /\ ull_owner = NoThread

waitq == {t \in Threads : kstate[t] = "THREAD_WAITING"}

\* The threads that ull_nwaiters counts.
ull_waiters == {t \in Threads : kstate[t] # "USER"}

\* ulock_wait2 past the comparison: the word held the expected value, and
\* o is the thread that the value names (NoThread for an operation without
\* an owner).
ulock_wait_block(t, o) ==
  /\ kstate[t] = "USER"
  /\ kstate' = [kstate EXCEPT ![t] = "THREAD_WAITING"]
  /\ ull_owner' = o

\* ulock_wait2 leaving through out_locked before it blocks: nwaiters goes up
\* and down again under one hold of ull_lock.
ulock_wait_bail(t) ==
  /\ kstate[t] = "USER"
  /\ UNCHANGED ulockVars

\* *retval after ulock_wait_cleanup by t: the number of other waiters.
ull_more_waiters(t) == ull_waiters \ {t} # {}

\* ulock_wait_continue and ulock_wait_cleanup.
ulock_wait_continue(t) ==
  /\ kstate[t] \in WaitResults
  /\ kstate' = [kstate EXCEPT ![t] = "USER"]
  /\ ull_owner' = IF ull_more_waiters(t) THEN ull_owner ELSE NoThread

\* The wait queue gives up t: a signal, an abort, or the deadline.
waitq_abort(t, wr) ==
  /\ kstate[t] = "THREAD_WAITING"
  /\ wr \in {"THREAD_TIMED_OUT", "THREAD_INTERRUPTED"}
  /\ kstate' = [kstate EXCEPT ![t] = wr]
  /\ UNCHANGED ull_owner

\* ulock_wake(UL_UNFAIR_LOCK) by t: without a ull_t (ENOENT), or when t is
\* not the owner that the kernel knows, it does nothing; else one waiter is
\* woken and becomes the known owner.
ulock_wake_owner(t) ==
  \/ (ull_waiters = {} \/ ull_owner # t) /\ UNCHANGED ulockVars
  \/ /\ ull_waiters # {} /\ ull_owner = t /\ waitq = {}
     /\ ull_owner' = NoThread
     /\ UNCHANGED kstate
  \/ /\ ull_waiters # {} /\ ull_owner = t
     /\ \E w \in waitq :
          /\ kstate' = [kstate EXCEPT ![w] = "THREAD_AWAKENED"]
          /\ ull_owner' = w

\* ulock_wake(UL_UNFAIR_LOCK | ULF_WAKE_ALL) by t.
ulock_wake_owner_all(t) ==
  IF ull_waiters = {} \/ ull_owner # t
  THEN UNCHANGED ulockVars
  ELSE /\ kstate' = [w \in Threads |-> IF w \in waitq THEN "THREAD_AWAKENED"
                                                     ELSE kstate[w]]
       /\ ull_owner' = NoThread

\* ulock_wake(UL_COMPARE_AND_WAIT): one waiter, any thread may call it.
ulock_wake_one ==
  /\ \/ waitq = {} /\ UNCHANGED kstate
     \/ \E w \in waitq : kstate' = [kstate EXCEPT ![w] = "THREAD_AWAKENED"]
  /\ UNCHANGED ull_owner

\* ulock_wake(UL_COMPARE_AND_WAIT | ULF_WAKE_ALL).
ulock_wake_all ==
  /\ kstate' = [w \in Threads |-> IF w \in waitq THEN "THREAD_AWAKENED"
                                                ELSE kstate[w]]
  /\ UNCHANGED ull_owner

\* ulock_wake(UL_COMPARE_AND_WAIT | ULF_WAKE_THREAD); EALREADY if w is not
\* on the wait queue.
ulock_wake_thread(w) ==
  /\ kstate' = IF w \in waitq THEN [kstate EXCEPT ![w] = "THREAD_AWAKENED"] ELSE kstate
  /\ UNCHANGED ull_owner
=============================================================================
