-------------------------- MODULE UnfairLockProofs --------------------------
(***************************************************************************)
(* Safety of os_unfair_lock for any set of threads, with clients that may  *)
(* misuse the lock.                                                        *)
(***************************************************************************)
EXTENDS UnfairLock, TLAPS

\* The word 0 is the only one without an owner.
WordInv == oul_value.owner = NoThread => oul_value = OS_LOCK_NO_OWNER

\* What lock_slow and unlock_slow know of their local variables.
LocalInv ==
  \A t \in Threads :
    /\ pc[t] = "kernel" <=> kstate[t] # "USER"
    /\ pc[t] \in {"retry", "ulock_wait"} => current[t].owner # NoThread
    /\ pc[t] = "ulock_wait" => current[t].nowaiters = 0 /\ current[t].owner # t
    /\ pc[t] = "unlock_slow" => current[t] # Self(t)
    /\ pc[t] = "ulock_wake" => current[t] = [owner |-> t, nowaiters |-> 0]

\* The word names a thread exactly while that thread is in its critical
\* section, and only such a thread finds its own name in the word.
OwnerInv ==
  /\ oul_value.owner # NoThread => oul_value.owner \in critical
  /\ \A t \in Threads :
       pc[t] = "retry" /\ current[t].owner = t => t \in critical

\* Well-behaved clients are never doomed and are outside the slow path of
\* lock while they hold the lock.
ClientInv ==
  ~Misuse => /\ ~Doomed
             /\ crash = NotCrashed
             /\ \A t \in critical : pc[t] = "idle"

IInv ==
  /\ TypeOK
  /\ WordInv
  /\ LocalInv
  /\ ClientInv
  /\ Doomed \/ OwnerInv
  /\ MutualExclusion
  /\ NoLostWakeup
  /\ AbortOnlyOnMisuse
  /\ HolderNeverSleeps
-----------------------------------------------------------------------------
\* Every step of the lock preserves the type invariant.
LEMMA TypeStep == TypeOK /\ [Next]_vars => TypeOK'
  <1> SUFFICES ASSUME TypeOK, Next PROVE TypeOK'
    BY DEF TypeOK, UlockTypeOK, UnfairTypeOK, vars, lockVars, ulockVars
  <1> PICK t \in Threads : NewCall(t) \/ Step(t) \/ interrupt(t) \/ terminate(t)
    BY DEF Next
  <1> USE ThreadsAssumption DEF TypeOK, UlockTypeOK, UnfairTypeOK, Words,
          Labels, WaitStates, WaitResults
  <1>1. CASE os_unfair_lock_lock(t)
    BY <1>1 DEF os_unfair_lock_lock, goto, ulockVars, OS_LOCK_NO_OWNER,
        Self, Crashes, NotCrashed
  <1>2. CASE os_unfair_lock_trylock(t)
    BY <1>2 DEF os_unfair_lock_trylock, goto, ulockVars, OS_LOCK_NO_OWNER,
        Self, Crashes, NotCrashed
  <1>3. CASE lock_slow_load(t)
    BY <1>3 DEF lock_slow_load, goto, ulockVars, OS_LOCK_NO_OWNER, Self,
        Crashes, NotCrashed
  <1>4. CASE lock_slow_retry(t)
    BY <1>4 DEF lock_slow_retry, goto, abort, ulockVars, OS_LOCK_NO_OWNER,
        Self, Crashes, NotCrashed
  <1>5. CASE lock_slow_wait(t)
    BY <1>5 DEF lock_slow_wait, goto, abort, ulock_wait_block,
        ulock_wait_bail, ulockVars, OS_LOCK_NO_OWNER, Self, Crashes,
        NotCrashed
  <1>6. CASE lock_slow_changed(t)
    BY <1>6 DEF lock_slow_changed, goto, ulock_wait_bail, ulockVars,
        OS_LOCK_NO_OWNER, Self, Crashes, NotCrashed
  <1>7. CASE lock_slow_fault(t)
    BY <1>7 DEF lock_slow_fault, goto, ulock_wait_bail, ulockVars,
        OS_LOCK_NO_OWNER, Self, Crashes, NotCrashed
  <1>8. CASE lock_slow_return(t)
    BY <1>8 DEF lock_slow_return, goto, ulock_wait_continue,
        OS_LOCK_NO_OWNER, Self, Crashes, NotCrashed
  <1>9. CASE lock_slow_acquire(t)
    BY <1>9 DEF lock_slow_acquire, goto, ulockVars, OS_LOCK_NO_OWNER,
        Self, Crashes, NotCrashed
  <1>10. CASE os_unfair_lock_unlock(t)
    BY <1>10 DEF os_unfair_lock_unlock, goto, ulockVars, OS_LOCK_NO_OWNER,
        Self, Crashes, NotCrashed
  <1>11. CASE unlock_slow_check(t)
    BY <1>11 DEF unlock_slow_check, goto, abort, ulockVars,
        OS_LOCK_NO_OWNER, Self, Crashes, NotCrashed
  <1>12. CASE unlock_slow_wake(t)
    BY <1>12 DEF unlock_slow_wake, goto, ulock_wake_owner, ulockVars,
        waitq, OS_LOCK_NO_OWNER, Self, Crashes, NotCrashed
  <1>13. CASE interrupt(t)
    BY <1>13 DEF interrupt, waitq_abort, lockVars, OS_LOCK_NO_OWNER, Self,
        Crashes, NotCrashed
  <1>14. CASE terminate(t)
    BY <1>14 DEF terminate, goto, ulockVars, OS_LOCK_NO_OWNER, Self,
        Crashes, NotCrashed
  <1> QED
    BY <1>1, <1>2, <1>3, <1>4, <1>5, <1>6, <1>7, <1>8, <1>9, <1>10, <1>11,
        <1>12, <1>13, <1>14 DEF NewCall, Step

\* Once a thread has unlocked what it did not own, nothing but the abort can
\* follow for it.
LEMMA DoomedStep == TypeOK /\ Doomed /\ [Next]_vars => Doomed'
  <1> SUFFICES ASSUME TypeOK, Doomed, Next PROVE Doomed'
    BY DEF Doomed, vars, lockVars, ulockVars
  <1> PICK d \in Threads : pc[d] = "unlock_slow" /\ current[d].owner # d
    BY DEF Doomed
  <1> PICK t \in Threads : NewCall(t) \/ Step(t) \/ interrupt(t) \/ terminate(t)
    BY DEF Next
  <1> SUFFICES pc'[d] = "unlock_slow" /\ current'[d] = current[d]
    BY DEF Doomed
  <1> USE DEF TypeOK, UlockTypeOK, UnfairTypeOK, Self
  <1>1. CASE os_unfair_lock_lock(t)
    BY <1>1 DEF os_unfair_lock_lock, goto, ulockVars
  <1>2. CASE os_unfair_lock_trylock(t)
    BY <1>2 DEF os_unfair_lock_trylock, goto, ulockVars
  <1>3. CASE lock_slow_load(t)
    BY <1>3 DEF lock_slow_load, goto, ulockVars
  <1>4. CASE lock_slow_retry(t)
    BY <1>4 DEF lock_slow_retry, goto, abort, ulockVars
  <1>5. CASE lock_slow_wait(t)
    BY <1>5 DEF lock_slow_wait, goto, abort, ulock_wait_block,
        ulock_wait_bail, ulockVars
  <1>6. CASE lock_slow_changed(t)
    BY <1>6 DEF lock_slow_changed, goto, ulock_wait_bail, ulockVars
  <1>7. CASE lock_slow_fault(t)
    BY <1>7 DEF lock_slow_fault, goto, ulock_wait_bail, ulockVars
  <1>8. CASE lock_slow_return(t)
    BY <1>8 DEF lock_slow_return, goto, ulock_wait_continue, WaitResults
  <1>9. CASE lock_slow_acquire(t)
    BY <1>9 DEF lock_slow_acquire, goto, ulockVars
  <1>10. CASE os_unfair_lock_unlock(t)
    BY <1>10 DEF os_unfair_lock_unlock, goto, ulockVars
  <1>11. CASE unlock_slow_check(t)
    BY <1>11 DEF unlock_slow_check, goto, abort, ulockVars
  <1>12. CASE unlock_slow_wake(t)
    BY <1>12 DEF unlock_slow_wake, goto, ulock_wake_owner, ulockVars, waitq
  <1>13. CASE interrupt(t)
    BY <1>13 DEF interrupt, waitq_abort, lockVars
  <1>14. CASE terminate(t)
    BY <1>14 DEF terminate, goto, ulockVars
  <1> QED
    BY <1>1, <1>2, <1>3, <1>4, <1>5, <1>6, <1>7, <1>8, <1>9, <1>10, <1>11,
        <1>12, <1>13, <1>14 DEF NewCall, Step

\* The word and the local variables of lock_slow and unlock_slow.
LEMMA LocalStep ==
  TypeOK /\ WordInv /\ LocalInv /\ [Next]_vars => WordInv' /\ LocalInv'
  <1> SUFFICES ASSUME TypeOK, WordInv, LocalInv, Next
               PROVE  WordInv' /\ LocalInv'
    BY DEF WordInv, LocalInv, vars, lockVars, ulockVars
  <1> PICK t \in Threads : NewCall(t) \/ Step(t) \/ interrupt(t) \/ terminate(t)
    BY DEF Next
  <1> USE ThreadsAssumption
      DEF TypeOK, UlockTypeOK, UnfairTypeOK, WordInv, LocalInv, Words, Self,
          OS_LOCK_NO_OWNER
  <1>1. CASE os_unfair_lock_lock(t)
    BY <1>1 DEF os_unfair_lock_lock, goto, ulockVars
  <1>2. CASE os_unfair_lock_trylock(t)
    BY <1>2 DEF os_unfair_lock_trylock, goto, ulockVars
  <1>3. CASE lock_slow_load(t)
    BY <1>3 DEF lock_slow_load, goto, ulockVars
  <1>4. CASE lock_slow_retry(t)
    BY <1>4 DEF lock_slow_retry, goto, abort, ulockVars
  <1>5. CASE lock_slow_wait(t)
    BY <1>5 DEF lock_slow_wait, goto, abort, ulock_wait_block,
        ulock_wait_bail, ulockVars
  <1>6. CASE lock_slow_changed(t)
    BY <1>6 DEF lock_slow_changed, goto, ulock_wait_bail, ulockVars
  <1>7. CASE lock_slow_fault(t)
    BY <1>7 DEF lock_slow_fault, goto, ulock_wait_bail, ulockVars
  <1>8. CASE lock_slow_return(t)
    BY <1>8 DEF lock_slow_return, goto, ulock_wait_continue, WaitResults
  <1>9. CASE lock_slow_acquire(t)
    BY <1>9 DEF lock_slow_acquire, goto, ulockVars
  <1>10. CASE os_unfair_lock_unlock(t)
    BY <1>10 DEF os_unfair_lock_unlock, goto, ulockVars
  <1>11. CASE unlock_slow_check(t)
    BY <1>11 DEF unlock_slow_check, goto, abort, ulockVars
  <1>12. CASE unlock_slow_wake(t)
    BY <1>12 DEF unlock_slow_wake, goto, ulock_wake_owner, ulockVars, waitq
  <1>13. CASE interrupt(t)
    BY <1>13 DEF interrupt, waitq_abort, lockVars
  <1>14. CASE terminate(t)
    BY <1>14 DEF terminate, goto, ulockVars
  <1> QED
    BY <1>1, <1>2, <1>3, <1>4, <1>5, <1>6, <1>7, <1>8, <1>9, <1>10, <1>11,
        <1>12, <1>13, <1>14 DEF NewCall, Step

\* While no thread is doomed, the word names the one thread in its critical
\* section, and that thread is not asleep; a step keeps it so or dooms the
\* process.
LEMMA OwnerStep ==
  ASSUME TypeOK, WordInv, LocalInv, ~Doomed, OwnerInv, MutualExclusion,
         HolderNeverSleeps, [Next]_vars
  PROVE  Doomed' \/ (OwnerInv /\ MutualExclusion /\ HolderNeverSleeps)'
  <1> SUFFICES ASSUME Next
               PROVE  Doomed' \/ (OwnerInv /\ MutualExclusion /\ HolderNeverSleeps)'
    BY DEF OwnerInv, MutualExclusion, HolderNeverSleeps, Doomed, vars,
        lockVars, ulockVars
  <1> DEFINE Safe == /\ OwnerInv
                     /\ \A u \in critical : oul_value.owner = u
                     /\ \A u \in critical : kstate[u] = "USER"
  <1> SUFFICES Doomed' \/ Safe'
    BY DEF MutualExclusion, HolderNeverSleeps
  <1> Safe
    BY DEF MutualExclusion, HolderNeverSleeps
  <1> PICK t \in Threads : NewCall(t) \/ Step(t) \/ interrupt(t) \/ terminate(t)
    BY DEF Next
  <1> USE ThreadsAssumption
      DEF TypeOK, UlockTypeOK, UnfairTypeOK, WordInv, LocalInv, OwnerInv,
          Words, Self,
          OS_LOCK_NO_OWNER
  <1>1. CASE os_unfair_lock_lock(t)
    BY <1>1 DEF os_unfair_lock_lock, goto, ulockVars
  <1>2. CASE os_unfair_lock_trylock(t)
    BY <1>2 DEF os_unfair_lock_trylock, goto, ulockVars
  <1>3. CASE lock_slow_load(t)
    BY <1>3 DEF lock_slow_load, goto, ulockVars
  <1>4. CASE lock_slow_retry(t)
    BY <1>4 DEF lock_slow_retry, goto, abort, ulockVars
  <1>5. CASE lock_slow_wait(t)
    BY <1>5 DEF lock_slow_wait, goto, abort, ulock_wait_block,
        ulock_wait_bail, ulockVars
  <1>6. CASE lock_slow_changed(t)
    BY <1>6 DEF lock_slow_changed, goto, ulock_wait_bail, ulockVars
  <1>7. CASE lock_slow_fault(t)
    BY <1>7 DEF lock_slow_fault, goto, ulock_wait_bail, ulockVars
  <1>8. CASE lock_slow_return(t)
    BY <1>8 DEF lock_slow_return, goto, ulock_wait_continue, WaitResults
  <1>9. CASE lock_slow_acquire(t)
    BY <1>9 DEF lock_slow_acquire, goto, ulockVars
  <1>10. CASE os_unfair_lock_unlock(t)
    BY <1>10 DEF os_unfair_lock_unlock, goto, ulockVars, Doomed
  <1>11. CASE unlock_slow_check(t)
    BY <1>11 DEF unlock_slow_check, goto, abort, ulockVars
  <1>12. CASE unlock_slow_wake(t)
    BY <1>12 DEF unlock_slow_wake, goto, ulock_wake_owner, ulockVars, waitq
  <1>13. CASE interrupt(t)
    BY <1>13 DEF interrupt, waitq_abort, lockVars
  <1>14. CASE terminate(t)
    BY <1>14 DEF terminate, goto, ulockVars
  <1> QED
    BY <1>1, <1>2, <1>3, <1>4, <1>5, <1>6, <1>7, <1>8, <1>9, <1>10, <1>11,
        <1>12, <1>13, <1>14 DEF NewCall, Step

\* The torch is handed on: whatever a step does to the known owner, to the
\* word or to the carrier, some known owner carries the torch afterwards.
LEMMA TorchStep ==
  ASSUME TypeOK, WordInv, LocalInv, ~Doomed, NoLostWakeup, [Next]_vars
  PROVE  Doomed' \/ NoLostWakeup'
  <1> SUFFICES ASSUME Next, waitq' # {}
               PROVE  \/ Doomed'
                      \/ ull_owner' \in Threads /\ CarriesTorch(ull_owner)'
    BY DEF NoLostWakeup, CarriesTorch, Doomed, waitq, vars, lockVars, ulockVars
  <1> PICK t \in Threads : NewCall(t) \/ Step(t) \/ interrupt(t) \/ terminate(t)
    BY DEF Next
  <1> USE ThreadsAssumption
      DEF TypeOK, UlockTypeOK, UnfairTypeOK, WordInv, LocalInv, NoLostWakeup,
          CarriesTorch, waitq, Words, Self, OS_LOCK_NO_OWNER
  <1>1. CASE os_unfair_lock_lock(t)
    BY <1>1 DEF os_unfair_lock_lock, goto, ulockVars
  <1>2. CASE os_unfair_lock_trylock(t)
    BY <1>2 DEF os_unfair_lock_trylock, goto, ulockVars
  <1>3. CASE lock_slow_load(t)
    BY <1>3 DEF lock_slow_load, goto, ulockVars
  <1>4. CASE lock_slow_retry(t)
    BY <1>4 DEF lock_slow_retry, goto, abort, ulockVars
  <1>5. CASE lock_slow_wait(t)
    BY <1>5 DEF lock_slow_wait, goto, abort, ulock_wait_block,
        ulock_wait_bail, ulockVars
  <1>6. CASE lock_slow_changed(t)
    BY <1>6 DEF lock_slow_changed, goto, ulock_wait_bail, ulockVars
  <1>7. CASE lock_slow_fault(t)
    BY <1>7 DEF lock_slow_fault, goto, ulock_wait_bail, ulockVars
  <1>8. CASE lock_slow_return(t)
    <2>1. waitq' = waitq /\ ull_more_waiters(t)
      BY <1>8 DEF lock_slow_return, ulock_wait_continue, WaitResults,
         ull_more_waiters, ull_waiters
    <2> QED
      BY <1>8, <2>1 DEF lock_slow_return, goto, ulock_wait_continue,
          WaitResults
  <1>9. CASE lock_slow_acquire(t)
    BY <1>9 DEF lock_slow_acquire, goto, ulockVars
  <1>10. CASE os_unfair_lock_unlock(t)
    BY <1>10 DEF os_unfair_lock_unlock, goto, ulockVars, Doomed
  <1>11. CASE unlock_slow_check(t)
    BY <1>11 DEF unlock_slow_check, goto, abort, ulockVars
  <1>12. CASE unlock_slow_wake(t)
    BY <1>12 DEF unlock_slow_wake, goto, ulock_wake_owner, ulockVars,
        ull_waiters
  <1>13. CASE interrupt(t)
    BY <1>13 DEF interrupt, waitq_abort, lockVars
  <1>14. CASE terminate(t)
    BY <1>14 DEF terminate, goto, ulockVars
  <1> QED
    BY <1>1, <1>2, <1>3, <1>4, <1>5, <1>6, <1>7, <1>8, <1>9, <1>10, <1>11,
        <1>12, <1>13, <1>14 DEF NewCall, Step

\* Well-behaved clients stay clear of the abort paths.
LEMMA ClientStep ==
  ASSUME TypeOK, WordInv, LocalInv, OwnerInv, MutualExclusion, ClientInv,
         ~Misuse, [Next]_vars
  PROVE  ClientInv'
  <1> SUFFICES ASSUME Next PROVE ClientInv'
    BY DEF ClientInv, Doomed, vars, lockVars, ulockVars
  <1> PICK t \in Threads : NewCall(t) \/ Step(t) \/ interrupt(t) \/ terminate(t)
    BY DEF Next
  <1> USE ThreadsAssumption
      DEF TypeOK, UlockTypeOK, UnfairTypeOK, WordInv, LocalInv, OwnerInv,
          MutualExclusion, ClientInv, Doomed, NotCrashed, Words, Self,
          OS_LOCK_NO_OWNER
  <1>1. CASE os_unfair_lock_lock(t)
    BY <1>1 DEF os_unfair_lock_lock, goto, ulockVars
  <1>2. CASE os_unfair_lock_trylock(t)
    BY <1>2 DEF os_unfair_lock_trylock, goto, ulockVars
  <1>3. CASE lock_slow_load(t)
    BY <1>3 DEF lock_slow_load, goto, ulockVars
  <1>4. CASE lock_slow_retry(t)
    BY <1>4 DEF lock_slow_retry, goto, abort, ulockVars
  <1>5. CASE lock_slow_wait(t)
    BY <1>5 DEF lock_slow_wait, goto, abort, ulock_wait_block,
        ulock_wait_bail, ulockVars
  <1>6. CASE lock_slow_changed(t)
    BY <1>6 DEF lock_slow_changed, goto, ulock_wait_bail, ulockVars
  <1>7. CASE lock_slow_fault(t)
    BY <1>7 DEF lock_slow_fault, goto, ulock_wait_bail, ulockVars
  <1>8. CASE lock_slow_return(t)
    BY <1>8 DEF lock_slow_return, goto, ulock_wait_continue, WaitResults
  <1>9. CASE lock_slow_acquire(t)
    BY <1>9 DEF lock_slow_acquire, goto, ulockVars
  <1>10. CASE os_unfair_lock_unlock(t)
    BY <1>10 DEF os_unfair_lock_unlock, goto, ulockVars
  <1>11. CASE unlock_slow_check(t)
    BY <1>11 DEF unlock_slow_check, goto, abort, ulockVars
  <1>12. CASE unlock_slow_wake(t)
    BY <1>12 DEF unlock_slow_wake, goto, ulock_wake_owner, ulockVars
  <1>13. CASE interrupt(t)
    BY <1>13 DEF interrupt, waitq_abort, lockVars
  <1>14. CASE terminate(t)
    BY <1>14 DEF terminate, goto, ulockVars
  <1> QED
    BY <1>1, <1>2, <1>3, <1>4, <1>5, <1>6, <1>7, <1>8, <1>9, <1>10, <1>11,
        <1>12, <1>13, <1>14 DEF NewCall, Step

\* An abort names the misuse that caused it.
LEMMA AbortStep ==
  ASSUME TypeOK, WordInv, LocalInv, ClientInv, ClientInv', ~Doomed, OwnerInv,
         AbortOnlyOnMisuse, [Next]_vars
  PROVE  AbortOnlyOnMisuse'
  <1> SUFFICES ASSUME Next, ~Doomed'
               PROVE  \/ crash' = NotCrashed
                      \/ crash'.why = "recursive" /\ crash'.who \in critical'
                      \/ /\ crash'.why = "corrupt"
                         /\ \E u \in critical' : pc'[u] = "terminated"
    BY DEF ClientInv, AbortOnlyOnMisuse, Doomed, vars, lockVars, ulockVars
  <1> PICK t \in Threads : NewCall(t) \/ Step(t) \/ interrupt(t) \/ terminate(t)
    BY DEF Next
  <1> crash = NotCrashed
    BY DEF Next
  <1> USE ThreadsAssumption
      DEF TypeOK, UlockTypeOK, UnfairTypeOK, WordInv, LocalInv, OwnerInv,
          NotCrashed,
          Words, Self, OS_LOCK_NO_OWNER
  <1>1. CASE os_unfair_lock_lock(t)
    BY <1>1 DEF os_unfair_lock_lock, goto, ulockVars
  <1>2. CASE os_unfair_lock_trylock(t)
    BY <1>2 DEF os_unfair_lock_trylock, goto, ulockVars
  <1>3. CASE lock_slow_load(t)
    BY <1>3 DEF lock_slow_load, goto, ulockVars
  <1>4. CASE lock_slow_retry(t)
    BY <1>4 DEF lock_slow_retry, goto, abort, ulockVars
  <1>5. CASE lock_slow_wait(t)
    BY <1>5 DEF lock_slow_wait, goto, abort, ulock_wait_block,
        ulock_wait_bail, ulockVars
  <1>6. CASE lock_slow_changed(t)
    BY <1>6 DEF lock_slow_changed, goto, ulock_wait_bail, ulockVars
  <1>7. CASE lock_slow_fault(t)
    BY <1>7 DEF lock_slow_fault, goto, ulock_wait_bail, ulockVars
  <1>8. CASE lock_slow_return(t)
    BY <1>8 DEF lock_slow_return, goto, ulock_wait_continue, WaitResults
  <1>9. CASE lock_slow_acquire(t)
    BY <1>9 DEF lock_slow_acquire, goto, ulockVars
  <1>10. CASE os_unfair_lock_unlock(t)
    BY <1>10 DEF os_unfair_lock_unlock, goto, ulockVars, Doomed
  <1>11. CASE unlock_slow_check(t)
    BY <1>11 DEF unlock_slow_check, goto, abort, ulockVars, Doomed
  <1>12. CASE unlock_slow_wake(t)
    BY <1>12 DEF unlock_slow_wake, goto, ulock_wake_owner, ulockVars
  <1>13. CASE interrupt(t)
    BY <1>13 DEF interrupt, waitq_abort, lockVars
  <1>14. CASE terminate(t)
    BY <1>14 DEF terminate, goto, ulockVars
  <1> QED
    BY <1>1, <1>2, <1>3, <1>4, <1>5, <1>6, <1>7, <1>8, <1>9, <1>10, <1>11,
        <1>12, <1>13, <1>14 DEF NewCall, Step

\* The initial states satisfy the inductive invariant.
LEMMA InitIInv == Init => IInv
  BY ThreadsAssumption
  DEF Init, UlockInit, IInv, TypeOK, UlockTypeOK, UnfairTypeOK, WordInv,
      LocalInv, ClientInv, Doomed, OwnerInv, MutualExclusion, NoLostWakeup,
      AbortOnlyOnMisuse, HolderNeverSleeps, waitq, Words, Labels, WaitStates,
      Crashes, NotCrashed, OS_LOCK_NO_OWNER

\* Every step preserves the inductive invariant.
LEMMA NextIInv == IInv /\ [Next]_vars => IInv'
  <1> SUFFICES ASSUME IInv, [Next]_vars PROVE IInv'
    OBVIOUS
  <1>1. TypeOK' /\ WordInv' /\ LocalInv'
    BY TypeStep, LocalStep DEF IInv
  <1>2. CASE Doomed
    <2>1. Doomed'
      BY <1>2, DoomedStep DEF IInv
    <2>2. Misuse
      BY <1>2 DEF IInv, ClientInv
    <2> QED
      BY <1>1, <2>1, <2>2
      DEF IInv, ClientInv, MutualExclusion, NoLostWakeup, AbortOnlyOnMisuse,
          HolderNeverSleeps
  <1>3. CASE ~Doomed
    <2>1. Doomed' \/ (OwnerInv /\ MutualExclusion /\ HolderNeverSleeps)'
      BY <1>3, OwnerStep DEF IInv
    <2>2. Doomed' \/ NoLostWakeup'
      BY <1>3, TorchStep DEF IInv
    <2>3. ClientInv'
      BY <1>3, ClientStep DEF IInv, ClientInv
    <2>4. AbortOnlyOnMisuse'
      BY <1>3, <2>3, AbortStep DEF IInv
    <2> QED
      BY <1>1, <2>1, <2>2, <2>3, <2>4
      DEF IInv, MutualExclusion, NoLostWakeup, HolderNeverSleeps
  <1> QED
    BY <1>2, <1>3

\* Every reachable state of the lock satisfies the inductive invariant.
THEOREM Invariance == Spec => []IInv
  BY InitIInv, NextIInv, PTL DEF Spec

\* Type correctness of the lock word, of the locals of the slow paths and of
\* the kernel's record of the waiters.
THEOREM TypeCorrect == Spec => []TypeOK
  BY Invariance, PTL DEF IInv

\* Mutual exclusion of os_unfair_lock for any number of threads: a thread in
\* its critical section is the owner that the word names, unless the process
\* is about to abort for an unlock by a thread that did not own the lock.
THEOREM Exclusion == Spec => []MutualExclusion
  BY Invariance, PTL DEF IInv

\* No wakeup is lost, for any number of waiters, interrupted or not: while a
\* thread sleeps, the owner that the kernel knows carries the torch.
THEOREM WakeupNotLost == Spec => []NoLostWakeup
  BY Invariance, PTL DEF IInv

\* The library's aborts hit only clients that misuse the lock.
THEOREM AbortJustified == Spec => []AbortOnlyOnMisuse
  BY Invariance, PTL DEF IInv

\* A recursive lock aborts instead of sleeping on the caller's own lock.
THEOREM NoSelfDeadlock == Spec => []HolderNeverSleeps
  BY Invariance, PTL DEF IInv
=============================================================================
