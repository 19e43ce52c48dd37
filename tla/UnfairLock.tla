----------------------------- MODULE UnfairLock -----------------------------
(***************************************************************************)
(* os_unfair_lock of libplatform (src/os/lock.c) over the kernel's ulock.  *)
(*                                                                         *)
(* The lock word holds the owner's port name, whose low bit is set in      *)
(* every thread port; the low bit cleared tells the unlocker that there    *)
(* are waiters.  A word is modelled as the owner and that bit; the word 0  *)
(* has no owner and the bit clear.                                         *)
(*                                                                         *)
(* An action performs the thread-local code up to and including one access *)
(* to the shared word or one ulock critical section.  A crash of the       *)
(* process (an abort of the library) stops every thread.                   *)
(***************************************************************************)
EXTENDS Ulock, Integers

CONSTANT Misuse     \* whether clients lock recursively, unlock a lock they
                    \* do not own, or exit while holding the lock
ASSUME MisuseAssumption == Misuse \in BOOLEAN

VARIABLES
  oul_value,        \* the lock word
  pc,               \* where each thread is in the library
  current,          \* local variable current of lock_slow and unlock_slow
  waiters_mask,     \* local waiters_mask of lock_slow
  critical,         \* threads whose lock call returned and that have not
                    \* called unlock since
  crash             \* why the process aborted, and the thread that did it

lockVars == <<oul_value, pc, current, waiters_mask, critical, crash>>

vars == <<ulockVars, lockVars>>

Words == [owner : Threads \cup {NoThread}, nowaiters : {0, 1}]

OS_LOCK_NO_OWNER == [owner |-> NoThread, nowaiters |-> 0]

Self(t) == [owner |-> t, nowaiters |-> 1]

\* Where lock_slow and unlock_slow can be between two atomic steps.
Labels == {"idle", "load", "retry", "ulock_wait", "kernel", "acquire",
           "unlock_slow", "ulock_wake", "terminated"}

NotCrashed == [why |-> "none", who |-> NoThread]

Crashes == [why : {"none", "recursive", "unowned", "corrupt", "no_waiters"},
            who : Threads \cup {NoThread}]

UnfairTypeOK ==
  /\ oul_value \in Words
  /\ pc \in [Threads -> Labels]
  /\ current \in [Threads -> Words]
  /\ waiters_mask \in [Threads -> {0, 1}]
  /\ critical \in SUBSET Threads
  /\ crash \in Crashes

\* Type invariant of the lock and of the kernel's record of it.
TypeOK == UlockTypeOK /\ UnfairTypeOK

Init ==
  /\ UlockInit
  /\ oul_value = OS_LOCK_NO_OWNER
  /\ pc = [t \in Threads |-> "idle"]
  /\ current = [t \in Threads |-> OS_LOCK_NO_OWNER]
  /\ waiters_mask = [t \in Threads |-> 0]
  /\ critical = {}
  /\ crash = NotCrashed

abort(t, why) ==
  /\ crash' = [why |-> why, who |-> t]
  /\ UNCHANGED <<oul_value, pc, current, waiters_mask, critical>>

goto(t, label) == pc' = [pc EXCEPT ![t] = label]

-----------------------------------------------------------------------------
\* os_unfair_lock_lock and its variants: the fast path, or into lock_slow.
os_unfair_lock_lock(t) ==
  /\ pc[t] = "idle"
  /\ t \notin critical \/ Misuse
  /\ \/ /\ oul_value = OS_LOCK_NO_OWNER
        /\ oul_value' = Self(t)
        /\ critical' = critical \cup {t}
        /\ UNCHANGED <<pc, waiters_mask>>
     \/ /\ oul_value # OS_LOCK_NO_OWNER
        /\ goto(t, "load")
        /\ waiters_mask' = [waiters_mask EXCEPT ![t] = 0]
        /\ UNCHANGED <<oul_value, critical>>
  /\ UNCHANGED <<current, crash, ulockVars>>

\* os_unfair_lock_trylock when it returns true; when it returns false it
\* has changed nothing.
os_unfair_lock_trylock(t) ==
  /\ pc[t] = "idle"
  /\ oul_value = OS_LOCK_NO_OWNER
  /\ oul_value' = Self(t)
  /\ critical' = critical \cup {t}
  /\ UNCHANGED <<pc, current, waiters_mask, crash, ulockVars>>

\* The load of the while condition.
lock_slow_load(t) ==
  /\ pc[t] = "load"
  /\ IF oul_value = OS_LOCK_NO_OWNER
     THEN goto(t, "acquire") /\ UNCHANGED current
     ELSE goto(t, "retry") /\ current' = [current EXCEPT ![t] = oul_value]
  /\ UNCHANGED <<oul_value, waiters_mask, critical, crash, ulockVars>>

\* From _retry to the system call: the recursion check, then the
\* compare-and-swap that clears the nowaiters bit.
lock_slow_retry(t) ==
  LET new == [current[t] EXCEPT !.nowaiters = 0] IN
  /\ pc[t] = "retry"
  /\ \/ current[t].owner = t /\ abort(t, "recursive")
     \/ /\ current[t].owner # t /\ current[t] = new
        /\ goto(t, "ulock_wait")
        /\ UNCHANGED <<oul_value, current, waiters_mask, critical, crash>>
     \/ /\ current[t].owner # t /\ current[t] # new
        /\ IF oul_value = current[t]
           THEN /\ oul_value' = new
                /\ current' = [current EXCEPT ![t] = new]
                /\ goto(t, "ulock_wait")
           ELSE goto(t, "load") /\ UNCHANGED <<oul_value, current>>
        /\ UNCHANGED <<waiters_mask, critical, crash>>
  /\ UNCHANGED ulockVars

\* __ulock_wait while the word still has the expected value: it blocks, or
\* finds that the owner is not another thread of the task (EOWNERDEAD).
lock_slow_wait(t) ==
  /\ pc[t] = "ulock_wait"
  /\ oul_value = current[t]
  /\ \/ /\ pc[oul_value.owner] # "terminated" /\ oul_value.owner # t
        /\ ulock_wait_block(t, oul_value.owner)
        /\ goto(t, "kernel")
        /\ UNCHANGED <<oul_value, current, waiters_mask, critical, crash>>
     \/ /\ pc[oul_value.owner] = "terminated" \/ oul_value.owner = t
        /\ ulock_wait_bail(t)
        /\ abort(t, "corrupt")

\* __ulock_wait after the word changed: ret is the number of other waiters,
\* or 0 when the adaptive spin noticed it before ull_get.
lock_slow_changed(t) ==
  /\ pc[t] = "ulock_wait"
  /\ oul_value # current[t]
  /\ ulock_wait_bail(t)
  /\ \/ UNCHANGED waiters_mask
     \/ /\ ull_more_waiters(t)
        /\ waiters_mask' = [waiters_mask EXCEPT ![t] = 1]
  /\ goto(t, "load")
  /\ UNCHANGED <<oul_value, current, critical, crash>>

\* __ulock_wait whose copyin would have faulted (EFAULT), whatever the word.
lock_slow_fault(t) ==
  /\ pc[t] = "ulock_wait"
  /\ ulock_wait_bail(t)
  /\ goto(t, "load")
  /\ UNCHANGED <<oul_value, current, waiters_mask, critical, crash>>

\* A signal takes t off the wait queue.
interrupt(t) ==
  /\ waitq_abort(t, "THREAD_INTERRUPTED")
  /\ UNCHANGED lockVars

\* Mutant: the number of other waiters is ignored.
return_forgets_waiters(t) ==
  /\ pc[t] = "kernel"
  /\ ulock_wait_continue(t)
  /\ goto(t, "load")
  /\ UNCHANGED <<oul_value, current, waiters_mask, critical, crash>>

\* Return from the kernel: EINTR, or the number of other waiters.
lock_slow_return(t) ==
  /\ pc[t] = "kernel"
  /\ ulock_wait_continue(t)
  /\ IF kstate[t] = "THREAD_AWAKENED" /\ ull_more_waiters(t)
     THEN waiters_mask' = [waiters_mask EXCEPT ![t] = 1]
     ELSE UNCHANGED waiters_mask
  /\ goto(t, "load")
  /\ UNCHANGED <<oul_value, current, critical, crash>>

\* Mutant: a store in place of the compare-and-swap.
acquire_by_store(t) ==
  /\ pc[t] = "acquire"
  /\ oul_value' = [owner |-> t, nowaiters |-> 1 - waiters_mask[t]]
  /\ critical' = critical \cup {t}
  /\ goto(t, "idle")
  /\ UNCHANGED <<current, waiters_mask, crash, ulockVars>>

\* The compare-and-swap that takes the lock, after the loop.
lock_slow_acquire(t) ==
  /\ pc[t] = "acquire"
  /\ IF oul_value = OS_LOCK_NO_OWNER
     THEN /\ oul_value' = [owner |-> t, nowaiters |-> 1 - waiters_mask[t]]
          /\ critical' = critical \cup {t}
          /\ goto(t, "idle")
          /\ UNCHANGED current
     ELSE /\ current' = [current EXCEPT ![t] = oul_value]
          /\ goto(t, "retry")
          /\ UNCHANGED <<oul_value, critical>>
  /\ UNCHANGED <<waiters_mask, crash, ulockVars>>

\* Mutant: no fast path.
unlock_always_slow(t) ==
  /\ pc[t] = "idle"
  /\ t \in critical \/ Misuse
  /\ oul_value' = OS_LOCK_NO_OWNER
  /\ critical' = critical \ {t}
  /\ goto(t, "unlock_slow")
  /\ current' = [current EXCEPT ![t] = oul_value]
  /\ UNCHANGED <<waiters_mask, crash, ulockVars>>

\* os_unfair_lock_unlock: the exchange, done unless the word was not self.
os_unfair_lock_unlock(t) ==
  /\ pc[t] = "idle"
  /\ t \in critical \/ Misuse
  /\ oul_value' = OS_LOCK_NO_OWNER
  /\ critical' = critical \ {t}
  /\ IF oul_value = Self(t)
     THEN UNCHANGED <<pc, current>>
     ELSE /\ goto(t, "unlock_slow")
          /\ current' = [current EXCEPT ![t] = oul_value]
  /\ UNCHANGED <<waiters_mask, crash, ulockVars>>

\* The checks of _os_unfair_lock_unlock_slow.
unlock_slow_check(t) ==
  /\ pc[t] = "unlock_slow"
  /\ \/ current[t].owner # t /\ abort(t, "unowned")
     \/ current[t] = Self(t) /\ abort(t, "no_waiters")
     \/ /\ current[t] = [owner |-> t, nowaiters |-> 0]
        /\ goto(t, "ulock_wake")
        /\ UNCHANGED <<oul_value, current, waiters_mask, critical, crash>>
  /\ UNCHANGED ulockVars

\* Mutant: no wake when another thread has taken the lock meanwhile.
wake_if_free(t) ==
  /\ pc[t] = "ulock_wake"
  /\ IF oul_value = OS_LOCK_NO_OWNER THEN ulock_wake_owner(t)
                                     ELSE UNCHANGED ulockVars
  /\ goto(t, "idle")
  /\ UNCHANGED <<oul_value, current, waiters_mask, critical, crash>>

\* __ulock_wake; ENOENT counts as success.
unlock_slow_wake(t) ==
  /\ pc[t] = "ulock_wake"
  /\ ulock_wake_owner(t)
  /\ goto(t, "idle")
  /\ UNCHANGED <<oul_value, current, waiters_mask, critical, crash>>

\* A client thread exits with the lock held.
terminate(t) ==
  /\ Misuse
  /\ pc[t] = "idle" /\ t \in critical
  /\ goto(t, "terminated")
  /\ UNCHANGED <<oul_value, current, waiters_mask, critical, crash, ulockVars>>

Step(t) ==
  \/ lock_slow_load(t) \/ lock_slow_retry(t) \/ lock_slow_wait(t)
  \/ lock_slow_changed(t) \/ lock_slow_fault(t) \/ lock_slow_return(t)
  \/ lock_slow_acquire(t)
  \/ os_unfair_lock_unlock(t) \/ unlock_slow_check(t) \/ unlock_slow_wake(t)

NewCall(t) == os_unfair_lock_lock(t) \/ os_unfair_lock_trylock(t)

Next ==
  /\ crash = NotCrashed
  /\ \E t \in Threads : NewCall(t) \/ Step(t) \/ interrupt(t) \/ terminate(t)

Spec == Init /\ [][Next]_vars

\* Threads are scheduled, and a thread that holds the lock unlocks it; no
\* thread has to lock or to unlock what it does not hold, no signal has to come.
FairStep(t) == crash = NotCrashed /\ (pc[t] # "idle" \/ t \in critical) /\ Step(t)
FairSpec == Spec /\ \A t \in Threads : WF_vars(FairStep(t))
-----------------------------------------------------------------------------
\* Some thread has exchanged away a word that was not its own and is on its
\* way to _os_unfair_lock_unowned_abort: the lock means nothing any more.
Doomed == \E t \in Threads : pc[t] = "unlock_slow" /\ current[t].owner # t

\* Mutual exclusion: a thread between a lock call that returned and its
\* unlock is the owner that the lock word names, so there is at most one;
\* an unlock by a thread that does not own the lock can break this, and then
\* the process is about to abort.
MutualExclusion == Doomed \/ \A t \in critical : oul_value.owner = t

\* Thread o is bound to wake, or to make another thread wake, the waiters:
\* it holds the lock with the nowaiters bit cleared, it is on its way to
\* ulock_wake, it has been woken and will see that there are more waiters,
\* or it has seen that and is still trying to take the lock.
CarriesTorch(o) ==
  \/ oul_value = [owner |-> o, nowaiters |-> 0]
  \/ /\ pc[o] \in {"unlock_slow", "ulock_wake"}
     /\ current[o] = [owner |-> o, nowaiters |-> 0]
  \/ kstate[o] = "THREAD_AWAKENED"
  \/ pc[o] \in {"load", "retry", "ulock_wait", "acquire"} /\ waiters_mask[o] = 1

\* No lost wakeup: while a thread sleeps in ulock_wait, the owner that the
\* kernel knows is a thread that carries the torch.  It is what the comment
\* in ulock_wake says of a late wake by another thread: the current owner
\* "knows the lock is contended and will redrive wakes".
NoLostWakeup ==
  Doomed \/ waitq = {} \/ (ull_owner \in Threads /\ CarriesTorch(ull_owner))

\* The library aborts only clients that misuse the lock: by locking it
\* again, by unlocking a lock they do not own, or by exiting with it; never
\* with "unlock_slow with no waiters".
AbortOnlyOnMisuse ==
  /\ ~Misuse => crash = NotCrashed
  /\ \/ Doomed
     \/ crash = NotCrashed
     \/ crash.why = "recursive" /\ crash.who \in critical
     \/ crash.why = "corrupt" /\ \E t \in critical : pc[t] = "terminated"

\* A thread that holds the lock never sleeps on it: a recursive lock is
\* caught before ulock_wait whatever races with it.
HolderNeverSleeps == Doomed \/ \A t \in critical : kstate[t] = "USER"

\* When clients stop asking for the lock, every thread that was in lock or
\* unlock gets through and the lock is left free, however many waiters there
\* were and whichever of them were interrupted; unless a client misused it
\* and was aborted, or exited with it.
Drains ==
  ( /\ <>[][\A t \in Threads : ~NewCall(t)]_vars
    /\ [](crash = NotCrashed /\ \A t \in Threads : pc[t] # "terminated") )
  => <>[](oul_value = OS_LOCK_NO_OWNER /\ \A t \in Threads : pc[t] = "idle")
=============================================================================
