--------------------------- MODULE OnceGateProofs ---------------------------
(***************************************************************************)
(* Safety of os_once for any set of threads, with or without the quiescent *)
(* counter, cancelled initializers and clients that misuse the gate.       *)
(***************************************************************************)
EXTENDS OnceGate, TLAPS

\* The word is one of those that the code writes, and holds a generation or
\* DONE exactly when an initializer has run to its end.
WordInv ==
  /\ \/ ogo_once \in {OS_ONCE_INIT, Generation, OS_ONCE_DONE}
     \/ \E o \in Threads, n \in {0, 1} : ogo_once = Owned(o, n)
  /\ initialized = 1 <=> ogo_once \in {Generation, OS_ONCE_DONE}

\* What the position of a thread says of its local variable and of the word.
LocalInv ==
  \A t \in Threads :
    /\ gate_pc[t] = "kernel" <=> kstate[t] # "USER"
    /\ gate_pc[t] = "ulock_wait" =>
              \E o \in Threads : o # t /\ gate_current[t] = Owned(o, 0)
    /\ gate_pc[t] \in {"broadcast", "broadcast_exit"} => gate_current[t] = Owned(t, 0)
    /\ gate_pc[t] \in {"broadcast", "mark_done"} => initialized = 1

\* Without misuse the thread that the word names is in the initializer.
ClientInv ==
  ~GateMisuse => /\ gate_crash = GateNotCrashed
                 /\ ogo_once.kind = "OWNED" => gate_pc[ogo_once.owner] = "func"

IInv ==
  /\ GateTypeOK
  /\ WordInv
  /\ LocalInv
  /\ ClientInv
  /\ RunsOnce
  /\ ReturnsInitialized
  /\ NoLostBroadcast
  /\ GateAbortOnlyOnMisuse
-----------------------------------------------------------------------------
\* Every step of the gate preserves the type invariant.
LEMMA TypeStep ==
  ASSUME GateTypeOK, [OnceNext]_gateVars
  PROVE  GateTypeOK'
  <1> SUFFICES ASSUME OnceNext PROVE GateTypeOK'
    BY DEF gateVars, onceVars, ulockVars, GateTypeOK, UlockTypeOK, OnceTypeOK
  <1> PICK t \in Threads : \/ os_once(t) \/ OnceStep(t) \/ gate_interrupt(t)
                           \/ os_once_recursive(t) \/ gate_terminate(t)
    BY DEF OnceNext
  <1> USE ThreadsAssumption DEF GateTypeOK, UlockTypeOK, OnceTypeOK, GateWords,
          GateLabels, WaitStates, WaitResults, GateCrashes, OS_ONCE_INIT,
              OS_ONCE_DONE, Generation, Owned
  <1>1. CASE os_once(t)
    BY <1>1 DEF os_once, return, gate_goto, ulockVars
  <1>2. CASE os_once_recursive(t)
    BY <1>2 DEF os_once_recursive, gate_goto, ulockVars
  <1>3. CASE os_once_cmpxchg(t)
    BY <1>3 DEF os_once_cmpxchg, gate_goto, ulockVars
  <1>4. CASE os_once_gate_wait(t)
    BY <1>4 DEF os_once_gate_wait, return, gate_abort, gate_goto, ulockVars
  <1>5. CASE gate_wait_block(t)
    BY <1>5 DEF gate_wait_block, gate_abort, ulock_wait_block, ulock_wait_bail,
        gate_goto, ulockVars
  <1>6. CASE gate_wait_bail(t)
    BY <1>6 DEF gate_wait_bail, ulock_wait_bail, gate_goto, ulockVars
  <1>7. CASE gate_wait_return(t)
    BY <1>7 DEF gate_wait_return, ulock_wait_continue, gate_goto, ulockVars
  <1>8. CASE mark_done_if_quiesced(t)
    BY <1>8 DEF mark_done_if_quiesced, return, gate_goto, ulockVars
  <1>9. CASE os_once_callout(t)
    BY <1>9 DEF os_once_callout, return, gate_goto, ulockVars
  <1>10. CASE os_once_reset(t)
    BY <1>10 DEF os_once_reset, gate_goto, ulockVars
  <1>11. CASE os_once_gate_broadcast(t)
    BY <1>11 DEF os_once_gate_broadcast, return, gate_abort,
        ulock_wake_owner_all, gate_goto, ulockVars
  <1>12. CASE gate_interrupt(t)
    BY <1>12 DEF gate_interrupt, waitq_abort, onceVars, gate_goto, ulockVars
  <1>13. CASE gate_terminate(t)
    BY <1>13 DEF gate_terminate, gate_goto, ulockVars
  <1> QED
    BY <1>1, <1>2, <1>3, <1>4, <1>5, <1>6, <1>7, <1>8, <1>9, <1>10, <1>11,
        <1>12, <1>13 DEF OnceStep

\* The word stays one that the code writes.
LEMMA WordStep ==
  ASSUME GateTypeOK, WordInv, LocalInv, RunsOnce, [OnceNext]_gateVars
  PROVE  WordInv'
  <1> SUFFICES ASSUME OnceNext PROVE WordInv'
    BY DEF gateVars, onceVars, ulockVars, WordInv
  <1> PICK t \in Threads : \/ os_once(t) \/ OnceStep(t) \/ gate_interrupt(t)
                           \/ os_once_recursive(t) \/ gate_terminate(t)
    BY DEF OnceNext
  <1> USE ThreadsAssumption DEF GateTypeOK, OnceTypeOK, WordInv, LocalInv,
      RunsOnce,
          OS_ONCE_INIT, OS_ONCE_DONE, Generation, Owned
  <1>1. CASE os_once(t)
    BY <1>1 DEF os_once, return, gate_goto, ulockVars
  <1>2. CASE os_once_recursive(t)
    BY <1>2 DEF os_once_recursive, gate_goto, ulockVars
  <1>3. CASE os_once_cmpxchg(t)
    BY <1>3 DEF os_once_cmpxchg, gate_goto, ulockVars
  <1>4. CASE os_once_gate_wait(t)
    BY <1>4 DEF os_once_gate_wait, return, gate_abort, gate_goto, ulockVars
  <1>5. CASE gate_wait_block(t)
    BY <1>5 DEF gate_wait_block, gate_abort, ulock_wait_block, ulock_wait_bail,
        gate_goto, ulockVars
  <1>6. CASE gate_wait_bail(t)
    BY <1>6 DEF gate_wait_bail, ulock_wait_bail, gate_goto, ulockVars
  <1>7. CASE gate_wait_return(t)
    BY <1>7 DEF gate_wait_return, ulock_wait_continue, gate_goto, ulockVars
  <1>8. CASE mark_done_if_quiesced(t)
    BY <1>8 DEF mark_done_if_quiesced, return, gate_goto, ulockVars
  <1>9. CASE os_once_callout(t)
    BY <1>9 DEF os_once_callout, return, gate_goto, ulockVars
  <1>10. CASE os_once_reset(t)
    BY <1>10 DEF os_once_reset, gate_goto, ulockVars
  <1>11. CASE os_once_gate_broadcast(t)
    BY <1>11 DEF os_once_gate_broadcast, return, gate_abort,
        ulock_wake_owner_all, gate_goto, ulockVars
  <1>12. CASE gate_interrupt(t)
    BY <1>12 DEF gate_interrupt, waitq_abort, onceVars, gate_goto, ulockVars
  <1>13. CASE gate_terminate(t)
    BY <1>13 DEF gate_terminate, gate_goto, ulockVars
  <1> QED
    BY <1>1, <1>2, <1>3, <1>4, <1>5, <1>6, <1>7, <1>8, <1>9, <1>10, <1>11,
        <1>12, <1>13 DEF OnceStep

\* Threads keep what they know of their local variable and of the word.
LEMMA LocalStep ==
  ASSUME GateTypeOK, WordInv, LocalInv, RunsOnce, [OnceNext]_gateVars
  PROVE  LocalInv'
  <1> SUFFICES ASSUME OnceNext PROVE LocalInv'
    BY DEF gateVars, onceVars, ulockVars, LocalInv
  <1> PICK t \in Threads : \/ os_once(t) \/ OnceStep(t) \/ gate_interrupt(t)
                           \/ os_once_recursive(t) \/ gate_terminate(t)
    BY DEF OnceNext
  <1> USE ThreadsAssumption DEF GateTypeOK, UlockTypeOK, OnceTypeOK, WordInv,
      LocalInv, RunsOnce,
          WaitResults, OS_ONCE_INIT, OS_ONCE_DONE, Generation, Owned
  <1>1. CASE os_once(t)
    BY <1>1 DEF os_once, return, gate_goto, ulockVars
  <1>2. CASE os_once_recursive(t)
    BY <1>2 DEF os_once_recursive, gate_goto, ulockVars
  <1>3. CASE os_once_cmpxchg(t)
    BY <1>3 DEF os_once_cmpxchg, gate_goto, ulockVars
  <1>4. CASE os_once_gate_wait(t)
    BY <1>4 DEF os_once_gate_wait, return, gate_abort, gate_goto, ulockVars
  <1>5. CASE gate_wait_block(t)
    BY <1>5 DEF gate_wait_block, gate_abort, ulock_wait_block, ulock_wait_bail,
        gate_goto, ulockVars
  <1>6. CASE gate_wait_bail(t)
    BY <1>6 DEF gate_wait_bail, ulock_wait_bail, gate_goto, ulockVars
  <1>7. CASE gate_wait_return(t)
    BY <1>7 DEF gate_wait_return, ulock_wait_continue, gate_goto, ulockVars
  <1>8. CASE mark_done_if_quiesced(t)
    BY <1>8 DEF mark_done_if_quiesced, return, gate_goto, ulockVars
  <1>9. CASE os_once_callout(t)
    BY <1>9 DEF os_once_callout, return, gate_goto, ulockVars
  <1>10. CASE os_once_reset(t)
    BY <1>10 DEF os_once_reset, gate_goto, ulockVars
  <1>11. CASE os_once_gate_broadcast(t)
    <2>1. /\ ogo_once' = ogo_once /\ gate_current' = gate_current
          /\ initialized' = initialized
          /\ \E l \in {"idle", "exited"} : gate_pc' = [gate_pc EXCEPT ![t] = l]
      BY <1>11 DEF os_once_gate_broadcast, return, gate_abort, gate_goto
    <2>2. \A u \in Threads : kstate'[u] # "USER" <=> kstate[u] # "USER"
      BY <1>11 DEF os_once_gate_broadcast, ulock_wake_owner_all,
          ulockVars, waitq
    <2> QED
      BY <1>11, <2>1, <2>2 DEF os_once_gate_broadcast
  <1>12. CASE gate_interrupt(t)
    BY <1>12 DEF gate_interrupt, waitq_abort, onceVars, gate_goto, ulockVars
  <1>13. CASE gate_terminate(t)
    BY <1>13 DEF gate_terminate, gate_goto, ulockVars
  <1> QED
    BY <1>1, <1>2, <1>3, <1>4, <1>5, <1>6, <1>7, <1>8, <1>9, <1>10, <1>11,
        <1>12, <1>13 DEF OnceStep

\* Two threads never meet in the initializer.
LEMMA RunsOnceStep ==
  ASSUME GateTypeOK, WordInv, LocalInv, RunsOnce, [OnceNext]_gateVars
  PROVE  RunsOnce'
  <1> SUFFICES ASSUME OnceNext PROVE RunsOnce'
    BY DEF gateVars, onceVars, ulockVars, RunsOnce
  <1> PICK t \in Threads : \/ os_once(t) \/ OnceStep(t) \/ gate_interrupt(t)
                           \/ os_once_recursive(t) \/ gate_terminate(t)
    BY DEF OnceNext
  <1> USE ThreadsAssumption DEF GateTypeOK, OnceTypeOK, WordInv, LocalInv,
      RunsOnce,
          OS_ONCE_INIT, OS_ONCE_DONE, Generation, Owned
  <1>1. CASE os_once(t)
    BY <1>1 DEF os_once, return, gate_goto, ulockVars
  <1>2. CASE os_once_recursive(t)
    BY <1>2 DEF os_once_recursive, gate_goto, ulockVars
  <1>3. CASE os_once_cmpxchg(t)
    BY <1>3 DEF os_once_cmpxchg, gate_goto, ulockVars
  <1>4. CASE os_once_gate_wait(t)
    BY <1>4 DEF os_once_gate_wait, return, gate_abort, gate_goto, ulockVars
  <1>5. CASE gate_wait_block(t)
    BY <1>5 DEF gate_wait_block, gate_abort, ulock_wait_block, ulock_wait_bail,
        gate_goto, ulockVars
  <1>6. CASE gate_wait_bail(t)
    BY <1>6 DEF gate_wait_bail, ulock_wait_bail, gate_goto, ulockVars
  <1>7. CASE gate_wait_return(t)
    BY <1>7 DEF gate_wait_return, ulock_wait_continue, gate_goto, ulockVars
  <1>8. CASE mark_done_if_quiesced(t)
    BY <1>8 DEF mark_done_if_quiesced, return, gate_goto, ulockVars
  <1>9. CASE os_once_callout(t)
    BY <1>9 DEF os_once_callout, return, gate_goto, ulockVars
  <1>10. CASE os_once_reset(t)
    BY <1>10 DEF os_once_reset, gate_goto, ulockVars
  <1>11. CASE os_once_gate_broadcast(t)
    BY <1>11 DEF os_once_gate_broadcast, return, gate_abort,
        ulock_wake_owner_all, gate_goto, ulockVars
  <1>12. CASE gate_interrupt(t)
    BY <1>12 DEF gate_interrupt, waitq_abort, onceVars, gate_goto, ulockVars
  <1>13. CASE gate_terminate(t)
    BY <1>13 DEF gate_terminate, gate_goto, ulockVars
  <1> QED
    BY <1>1, <1>2, <1>3, <1>4, <1>5, <1>6, <1>7, <1>8, <1>9, <1>10, <1>11,
        <1>12, <1>13 DEF OnceStep

\* A caller returns only when the initialization is done.
LEMMA ReturnStep ==
  ASSUME GateTypeOK, WordInv, LocalInv, ReturnsInitialized, [OnceNext]_gateVars
  PROVE  ReturnsInitialized'
  <1> SUFFICES ASSUME OnceNext PROVE ReturnsInitialized'
    BY DEF gateVars, onceVars, ulockVars, ReturnsInitialized
  <1> PICK t \in Threads : \/ os_once(t) \/ OnceStep(t) \/ gate_interrupt(t)
                           \/ os_once_recursive(t) \/ gate_terminate(t)
    BY DEF OnceNext
  <1> USE ThreadsAssumption DEF GateTypeOK, OnceTypeOK, WordInv, LocalInv,
      ReturnsInitialized,
          OS_ONCE_INIT, OS_ONCE_DONE, Generation, Owned
  <1>1. CASE os_once(t)
    BY <1>1 DEF os_once, return, gate_goto, ulockVars
  <1>2. CASE os_once_recursive(t)
    BY <1>2 DEF os_once_recursive, gate_goto, ulockVars
  <1>3. CASE os_once_cmpxchg(t)
    BY <1>3 DEF os_once_cmpxchg, gate_goto, ulockVars
  <1>4. CASE os_once_gate_wait(t)
    BY <1>4 DEF os_once_gate_wait, return, gate_abort, gate_goto, ulockVars
  <1>5. CASE gate_wait_block(t)
    BY <1>5 DEF gate_wait_block, gate_abort, ulock_wait_block, ulock_wait_bail,
        gate_goto, ulockVars
  <1>6. CASE gate_wait_bail(t)
    BY <1>6 DEF gate_wait_bail, ulock_wait_bail, gate_goto, ulockVars
  <1>7. CASE gate_wait_return(t)
    BY <1>7 DEF gate_wait_return, ulock_wait_continue, gate_goto, ulockVars
  <1>8. CASE mark_done_if_quiesced(t)
    BY <1>8 DEF mark_done_if_quiesced, return, gate_goto, ulockVars
  <1>9. CASE os_once_callout(t)
    BY <1>9 DEF os_once_callout, return, gate_goto, ulockVars
  <1>10. CASE os_once_reset(t)
    BY <1>10 DEF os_once_reset, gate_goto, ulockVars
  <1>11. CASE os_once_gate_broadcast(t)
    BY <1>11 DEF os_once_gate_broadcast, return, gate_abort,
        ulock_wake_owner_all, gate_goto, ulockVars
  <1>12. CASE gate_interrupt(t)
    BY <1>12 DEF gate_interrupt, waitq_abort, onceVars, gate_goto, ulockVars
  <1>13. CASE gate_terminate(t)
    BY <1>13 DEF gate_terminate, gate_goto, ulockVars
  <1> QED
    BY <1>1, <1>2, <1>3, <1>4, <1>5, <1>6, <1>7, <1>8, <1>9, <1>10, <1>11,
        <1>12, <1>13 DEF OnceStep

\* A sleeper keeps a thread that has to wake it.
LEMMA WakeupStep ==
  ASSUME GateTypeOK, WordInv, LocalInv, RunsOnce, NoLostBroadcast, [OnceNext]_gateVars
  PROVE  NoLostBroadcast'
  <1> SUFFICES ASSUME OnceNext PROVE NoLostBroadcast'
    BY DEF gateVars, onceVars, ulockVars, NoLostBroadcast, waitq
  <1> PICK t \in Threads : \/ os_once(t) \/ OnceStep(t) \/ gate_interrupt(t)
                           \/ os_once_recursive(t) \/ gate_terminate(t)
    BY DEF OnceNext
  <1> USE ThreadsAssumption DEF GateTypeOK, UlockTypeOK, OnceTypeOK, WordInv,
      LocalInv, RunsOnce,
          NoLostBroadcast, waitq, WaitResults, OS_ONCE_INIT, OS_ONCE_DONE,
              Generation, Owned
  <1>1. CASE os_once(t)
    BY <1>1 DEF os_once, return, gate_goto, ulockVars
  <1>2. CASE os_once_recursive(t)
    BY <1>2 DEF os_once_recursive, gate_goto, ulockVars
  <1>3. CASE os_once_cmpxchg(t)
    BY <1>3 DEF os_once_cmpxchg, gate_goto, ulockVars
  <1>4. CASE os_once_gate_wait(t)
    BY <1>4 DEF os_once_gate_wait, return, gate_abort, gate_goto, ulockVars
  <1>5. CASE gate_wait_block(t)
    BY <1>5 DEF gate_wait_block, gate_abort, ulock_wait_block, ulock_wait_bail,
        gate_goto, ulockVars
  <1>6. CASE gate_wait_bail(t)
    BY <1>6 DEF gate_wait_bail, ulock_wait_bail, gate_goto, ulockVars
  <1>7. CASE gate_wait_return(t)
    BY <1>7 DEF gate_wait_return, ulock_wait_continue, gate_goto, ulockVars,
        ull_more_waiters, ull_waiters
  <1>8. CASE mark_done_if_quiesced(t)
    BY <1>8 DEF mark_done_if_quiesced, return, gate_goto, ulockVars
  <1>9. CASE os_once_callout(t)
    BY <1>9 DEF os_once_callout, return, gate_goto, ulockVars
  <1>10. CASE os_once_reset(t)
    BY <1>10 DEF os_once_reset, gate_goto, ulockVars
  <1>11. CASE os_once_gate_broadcast(t)
    BY <1>11 DEF os_once_gate_broadcast, return, gate_abort,
        ulock_wake_owner_all, gate_goto, ulockVars, ull_waiters
  <1>12. CASE gate_interrupt(t)
    BY <1>12 DEF gate_interrupt, waitq_abort, onceVars, gate_goto, ulockVars
  <1>13. CASE gate_terminate(t)
    BY <1>13 DEF gate_terminate, gate_goto, ulockVars
  <1> QED
    BY <1>1, <1>2, <1>3, <1>4, <1>5, <1>6, <1>7, <1>8, <1>9, <1>10, <1>11,
        <1>12, <1>13 DEF OnceStep

\* A well-behaved owner is in the initializer.
LEMMA ClientStep ==
  ASSUME GateTypeOK, WordInv, LocalInv, RunsOnce, ClientInv, [OnceNext]_gateVars
  PROVE  ClientInv'
  <1> SUFFICES ASSUME OnceNext PROVE ClientInv'
    BY DEF gateVars, onceVars, ulockVars, ClientInv
  <1> PICK t \in Threads : \/ os_once(t) \/ OnceStep(t) \/ gate_interrupt(t)
                           \/ os_once_recursive(t) \/ gate_terminate(t)
    BY DEF OnceNext
  <1> USE ThreadsAssumption DEF GateTypeOK, OnceTypeOK, WordInv, LocalInv,
      RunsOnce, ClientInv,
          OS_ONCE_INIT, OS_ONCE_DONE, Generation, Owned
  <1>1. CASE os_once(t)
    BY <1>1 DEF os_once, return, gate_goto, ulockVars
  <1>2. CASE os_once_recursive(t)
    BY <1>2 DEF os_once_recursive, gate_goto, ulockVars
  <1>3. CASE os_once_cmpxchg(t)
    BY <1>3 DEF os_once_cmpxchg, gate_goto, ulockVars
  <1>4. CASE os_once_gate_wait(t)
    BY <1>4 DEF os_once_gate_wait, return, gate_abort, gate_goto, ulockVars
  <1>5. CASE gate_wait_block(t)
    BY <1>5 DEF gate_wait_block, gate_abort, ulock_wait_block, ulock_wait_bail,
        gate_goto, ulockVars
  <1>6. CASE gate_wait_bail(t)
    BY <1>6 DEF gate_wait_bail, ulock_wait_bail, gate_goto, ulockVars
  <1>7. CASE gate_wait_return(t)
    BY <1>7 DEF gate_wait_return, ulock_wait_continue, gate_goto, ulockVars
  <1>8. CASE mark_done_if_quiesced(t)
    BY <1>8 DEF mark_done_if_quiesced, return, gate_goto, ulockVars
  <1>9. CASE os_once_callout(t)
    BY <1>9 DEF os_once_callout, return, gate_goto, ulockVars
  <1>10. CASE os_once_reset(t)
    BY <1>10 DEF os_once_reset, gate_goto, ulockVars
  <1>11. CASE os_once_gate_broadcast(t)
    BY <1>11 DEF os_once_gate_broadcast, return, gate_abort,
        ulock_wake_owner_all, gate_goto, ulockVars
  <1>12. CASE gate_interrupt(t)
    BY <1>12 DEF gate_interrupt, waitq_abort, onceVars, gate_goto, ulockVars
  <1>13. CASE gate_terminate(t)
    BY <1>13 DEF gate_terminate, gate_goto, ulockVars
  <1> QED
    BY <1>1, <1>2, <1>3, <1>4, <1>5, <1>6, <1>7, <1>8, <1>9, <1>10, <1>11,
        <1>12, <1>13 DEF OnceStep

\* An abort has the cause that it names.
LEMMA AbortStep ==
  ASSUME GateTypeOK, WordInv, LocalInv, ClientInv', GateAbortOnlyOnMisuse, [OnceNext]_gateVars
  PROVE  GateAbortOnlyOnMisuse'
  <1> SUFFICES ASSUME OnceNext PROVE GateAbortOnlyOnMisuse'
    BY DEF gateVars, onceVars, ulockVars, GateAbortOnlyOnMisuse
  <1> PICK t \in Threads : \/ os_once(t) \/ OnceStep(t) \/ gate_interrupt(t)
                           \/ os_once_recursive(t) \/ gate_terminate(t)
    BY DEF OnceNext
  <1> gate_crash = GateNotCrashed
    BY DEF OnceNext
  <1> USE ThreadsAssumption DEF GateTypeOK, OnceTypeOK, WordInv, LocalInv,
      ClientInv,
          GateAbortOnlyOnMisuse, GateNotCrashed, OS_ONCE_INIT, OS_ONCE_DONE,
              Generation, Owned
  <1>1. CASE os_once(t)
    BY <1>1 DEF os_once, return, gate_goto, ulockVars
  <1>2. CASE os_once_recursive(t)
    BY <1>2 DEF os_once_recursive, gate_goto, ulockVars
  <1>3. CASE os_once_cmpxchg(t)
    BY <1>3 DEF os_once_cmpxchg, gate_goto, ulockVars
  <1>4. CASE os_once_gate_wait(t)
    BY <1>4 DEF os_once_gate_wait, return, gate_abort, gate_goto, ulockVars
  <1>5. CASE gate_wait_block(t)
    BY <1>5 DEF gate_wait_block, gate_abort, ulock_wait_block, ulock_wait_bail,
        gate_goto, ulockVars
  <1>6. CASE gate_wait_bail(t)
    BY <1>6 DEF gate_wait_bail, ulock_wait_bail, gate_goto, ulockVars
  <1>7. CASE gate_wait_return(t)
    BY <1>7 DEF gate_wait_return, ulock_wait_continue, gate_goto, ulockVars
  <1>8. CASE mark_done_if_quiesced(t)
    BY <1>8 DEF mark_done_if_quiesced, return, gate_goto, ulockVars
  <1>9. CASE os_once_callout(t)
    BY <1>9 DEF os_once_callout, return, gate_goto, ulockVars
  <1>10. CASE os_once_reset(t)
    BY <1>10 DEF os_once_reset, gate_goto, ulockVars
  <1>11. CASE os_once_gate_broadcast(t)
    BY <1>11 DEF os_once_gate_broadcast, return, gate_abort,
        ulock_wake_owner_all, gate_goto, ulockVars
  <1>12. CASE gate_interrupt(t)
    BY <1>12 DEF gate_interrupt, waitq_abort, onceVars, gate_goto, ulockVars
  <1>13. CASE gate_terminate(t)
    BY <1>13 DEF gate_terminate, gate_goto, ulockVars
  <1> QED
    BY <1>1, <1>2, <1>3, <1>4, <1>5, <1>6, <1>7, <1>8, <1>9, <1>10, <1>11,
        <1>12, <1>13 DEF OnceStep

\* The initial states satisfy the inductive invariant.
LEMMA InitIInv == OnceInit => IInv
  BY ThreadsAssumption
  DEF OnceInit, IInv, UlockInit, GateTypeOK, UlockTypeOK, OnceTypeOK, WordInv,
      LocalInv,
      ClientInv, RunsOnce, ReturnsInitialized, NoLostBroadcast, GateAbortOnlyOnMisuse,
      waitq, GateWords, GateLabels, WaitStates, GateCrashes, GateNotCrashed, OS_ONCE_INIT,
      OS_ONCE_DONE, Generation

\* Every step preserves the inductive invariant.
LEMMA NextIInv == IInv /\ [OnceNext]_gateVars => IInv'
  BY TypeStep, WordStep, LocalStep, RunsOnceStep, ReturnStep, WakeupStep,
     ClientStep, AbortStep DEF IInv

\* The inductive invariant holds in every reachable state.
THEOREM Invariance == OnceSpec => []IInv
  BY InitIInv, NextIInv, PTL DEF OnceSpec

\* The initializer of os_once runs to its end at most once, and never in two
\* threads at a time, for any number of threads, resets and interrupts.
THEOREM InitializerRunsOnce == OnceSpec => []RunsOnce
  <1>1. IInv => RunsOnce
    BY DEF IInv
  <1> QED
    BY <1>1, Invariance, PTL

\* No call of os_once returns before the initializer has run to its end.
THEOREM ReturnsAfterInit == OnceSpec => []ReturnsInitialized
  <1>1. IInv => ReturnsInitialized
    BY DEF IInv
  <1> QED
    BY <1>1, Invariance, PTL

\* No thread sleeps at the gate without another that has to wake it.
THEOREM WakeupNotLost == OnceSpec => []NoLostBroadcast
  <1>1. IInv => NoLostBroadcast
    BY DEF IInv
  <1> QED
    BY <1>1, Invariance, PTL

\* The gate aborts the process only on misuse.
THEOREM AbortJustified == OnceSpec => []GateAbortOnlyOnMisuse
  <1>1. IInv => GateAbortOnlyOnMisuse
    BY DEF IInv
  <1> QED
    BY <1>1, Invariance, PTL
=============================================================================
