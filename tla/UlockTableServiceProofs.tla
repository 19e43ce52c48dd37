----------------------- MODULE UlockTableServiceProofs -----------------------
(***************************************************************************)
(* Memory safety and exact counts of the ull_t table for any number of     *)
(* threads, objects and keys, and that the table implements the service.   *)
(***************************************************************************)
EXTENDS UlockTableService, UlockTableProofs

\* Every step keeps ull_lock and the wait queue with the threads whose position
\* says so.
LEMMA LockStep ==
  ASSUME TypeOK, CallInv, SoleInv, LockInv, NoUseAfterFree, StepEffect
  PROVE  LockInv'
  <1> USE TableAssumption DEF TypeOK, Busy, CallInv, SoleInv, LockInv, NoUseAfterFree
  <1>1. CASE UNCHANGED <<kernelVars, threadVars>> /\ word' \in [Keys -> Values]
    BY <1>1, SMTT(30) DEF kernelVars, threadVars
  <1>2. ASSUME NEW t \in Threads, ull_alloc(t) PROVE LockInv'
    BY <1>2, SMTT(30) DEF ull_alloc, At, Fresh
  <1>3. ASSUME NEW t \in Threads, ulock_wake(t) PROVE LockInv'
    BY <1>3, SMTT(30) DEF ulock_wake, At, kernelVars
  <1>4. ASSUME NEW t \in Threads, ull_bucket_lock(t) PROVE LockInv'
    BY <1>4, SMTT(30) DEF ull_bucket_lock, At
  <1>5. ASSUME NEW t \in Threads, ull_get_pass(t) PROVE LockInv'
    BY <1>5 DEF ull_get_pass, kernelVars
  <1>6. ASSUME NEW t \in Threads, ull_get_found(t) PROVE LockInv'
    BY <1>6 DEF ull_get_found, At, ull_refcount_inc
  <1>7. ASSUME NEW t \in Threads, ull_get_insert(t) PROVE LockInv'
    BY <1>7, SMTT(30) DEF ull_get_insert, At, ull_refcount_inc, Fresh
  <1>8. ASSUME NEW t \in Threads, ull_get_none(t) PROVE LockInv'
    BY <1>8, SMTT(30) DEF ull_get_none, Return
  <1>9. ASSUME NEW t \in Threads, waitq_assert_wait(t) PROVE LockInv'
    BY <1>9, SMTT(30) DEF waitq_assert_wait, At
  <1>10. ASSUME NEW t \in Threads, waitq_abort(t) PROVE LockInv'
    BY <1>10, SMTT(30) DEF waitq_abort, At
  <1>11. ASSUME NEW t \in Threads, remqueue(t) PROVE LockInv'
    BY <1>11, SMTT(30) DEF remqueue, At
  <1>12. ASSUME NEW t \in Threads, ull_free(t) PROVE LockInv'
    BY <1>12, SMTT(30) DEF ull_free, Return, Fresh
  <1>13. ASSUME NEW t \in Threads, pc[t] \in {"locked", "continue"}, args[t] \in WaitCalls,
               NEW p \in ClientOps \cup {"none"}, LastLeaves(t, mine[t], p)
        PROVE  LockInv'
    BY <1>13, SMTT(30) DEF LastLeaves, Fields
  <1> HIDE DEF TypeOK, Busy, CallInv, SoleInv, LockInv, NoUseAfterFree
  <1>14. ASSUME NEW t \in Threads, pc[t] \in {"locked", "continue"}, args[t] \in WaitCalls,
               NEW m \in Nat \ {0}, OneLeaves(t, mine[t], m)
        PROVE  LockInv'
    <2>1. mine[t] \in Ulls
      BY <1>14, Zenon DEF TypeOK, CallInv, Busy
    <2>2. /\ pc'[t] = "user" /\ mine'[t] = NoUll
          /\ \A x \in Threads \ {t} : pc'[x] = pc[x] /\ mine'[x] = mine[x]
      BY <1>14, ZenonT(60) DEF OneLeaves, Return, TypeOK
    <2>3. /\ ull_lock'[mine[t]] = NoThread /\ ull_lock[mine[t]] \in {t, NoThread}
          /\ \A u \in Ulls \ {mine[t]} : ull_lock'[u] = ull_lock[u]
          /\ ts_waitq' = ts_waitq
      BY <1>14, <2>1, Zenon DEF OneLeaves, TypeOK
    <2> QED BY <1>14, <2>1, <2>2, <2>3, TableAssumption DEF LockInv
  <1>15. ASSUME NEW t \in Threads, pc[t] = "locked", args[t] \in WaitCalls,
               NEW o \in Threads \cup {NoThread}, Blocks(t, mine[t], o)
        PROVE  LockInv'
    <2>1. /\ pc'[t] = "assert_wait" /\ mine' = mine
          /\ \A x \in Threads \ {t} : pc'[x] = pc[x]
          /\ ull_lock' = ull_lock /\ ts_waitq' = ts_waitq
      BY <1>15, ZenonT(60) DEF Blocks, TypeOK
    <2> QED BY <1>15, <2>1 DEF LockInv
  <1>16. ASSUME NEW t \in Threads, pc[t] = "locked", args[t] \in WakeCalls,
               NEW W \in SUBSET Threads,
               NEW o \in Threads \cup {NoThread}, WakeLeaves(t, mine[t], W, o)
        PROVE  LockInv'
    <2>1. mine[t] \in Ulls /\ ull_lock[mine[t]] = t
      BY <1>16, SMTT(30) DEF TypeOK, CallInv, LockInv, Busy
    <2>2. /\ pc'[t] = "user" /\ mine'[t] = NoUll /\ W \subseteq ts_waitq[mine[t]]
          /\ \A x \in Threads \ {t} : /\ mine'[x] = mine[x]
                                     /\ pc'[x] = IF x \in W THEN "continue" ELSE pc[x]
      BY <1>16, SMTT(30) DEF WakeLeaves, TypeOK
    <2>3. /\ ull_lock'[mine[t]] = NoThread /\ ts_waitq'[mine[t]] = ts_waitq[mine[t]] \ W
          /\ \A u \in Ulls \ {mine[t]} :
               ull_lock'[u] = ull_lock[u] /\ ts_waitq'[u] = ts_waitq[u]
      BY <1>16, <2>1 DEF WakeLeaves, TypeOK
    <2>4. \A x \in W : mine[x] = mine[t] /\ pc[x] = "block"
      BY <2>1, <2>2, Zenon DEF LockInv
    <2> SUFFICES ASSUME NEW u \in Ulls, NEW x \in Threads PROVE LockInv!(u, x)'
      BY Zenon DEF LockInv
    <2>5. CASE x = t
      BY <1>16, <2>1, <2>2, <2>3, <2>4, <2>5, TableAssumption DEF LockInv
    <2>6. CASE x # t
      <3>1. ull_lock'[u] = x <=> ull_lock[u] = x
        BY <2>1, <2>3, <2>6, TableAssumption, Zenon
      <3>2. x \in ts_waitq'[u] <=> x \in ts_waitq[u] /\ x \notin W
        BY <2>3, <2>4 DEF LockInv
      <3> QED BY <2>2, <2>4, <2>6, <3>1, <3>2 DEF LockInv
    <2> QED BY <2>5, <2>6, Zenon
  <1> QED BY <1>1, <1>2, <1>3, <1>4, <1>5, <1>6, <1>7, <1>8,
         <1>9, <1>10, <1>11, <1>12, <1>13, <1>14, <1>15, <1>16, Zenon DEF StepEffect

\* A waiter leaves others behind.
LEMMA OneStep ==
  ASSUME TypeOK, CallInv, LockInv, TableInv, NEW t \in Threads,
         pc[t] \in {"locked", "continue"}, NEW m \in Nat \ {0}, OneLeaves(t, mine[t], m)
  PROVE  TableInv'
  <1>1. PICK u \in Ulls : u = mine[t] /\ u \in ulb_head /\ u # NoUll /\ ulb_head \subseteq Ulls
    BY TableAssumption DEF TypeOK, CallInv, Busy
  <1>2. /\ ull'[u].key = ull[u].key /\ ull'[u].refcount = m + 1 /\ ull'[u].nwaiters = m
        /\ ull'[u].owner = ull[u].owner /\ ull'[u].opcode = ull[u].opcode
        /\ \A v \in Ulls \ {u} : ull'[v] = ull[v]
    BY <1>1, Zenon DEF OneLeaves, Fields, TypeOK
  <1>3. /\ \A x \in Threads \ {t} : pc'[x] = pc[x] /\ mine'[x] = mine[x] /\ args'[x] = args[x]
        /\ pc'[t] = "user" /\ mine'[t] = NoUll
    BY Zenon DEF OneLeaves, Return, TypeOK
  <1>4. UNCHANGED <<live, ulb_head>>
    BY Zenon DEF OneLeaves
  <1>5. PICK y \in Threads \ {t} : mine[y] = u /\ pc[y] \in Busy /\ args[y] \in WaitCalls
    BY <1>1, Zenon DEF OneLeaves, BusyOn, CallInv, Busy
  <1>6. /\ ull_lock'[u] = NoThread
        /\ \A v \in Ulls \ {u} : ull_lock'[v] = ull_lock[v] /\ ull_lock[v] # t
    BY <1>1 DEF OneLeaves, LockInv, TypeOK
  <1>7. UseInv'
    BY <1>1, <1>2, <1>3, <1>4, <1>5 DEF TableInv, UseInv, Busy
  <1>8. KeyInv'
    BY <1>1, <1>2, <1>4 DEF TableInv, KeyInv
  <1>9. OpInv'
    <2>1. \A x \in Threads : pc[x] \in Busy => mine[x] \in Ulls
      BY <1>1, Zenon DEF CallInv
    <2>2. \A x \in Threads : pc'[x] \in Busy => ull'[mine'[x]].opcode = args'[x].op
      BY <1>2, <1>3, <2>1 DEF TableInv, OpInv, Busy
    <2> QED BY <1>1, <1>2, <1>3, <1>4, <1>5, <2>2 DEF TableInv, OpInv
  <1>10. RefInv'
    BY <1>1, <1>2, <1>3, <1>4, <1>6, TableAssumption DEF TableInv, RefInv
  <1>11. WaitersInv'
    <2> SUFFICES ASSUME NEW v \in ulb_head, ull'[v].key # InvalidKey
                 PROVE  ull'[v].nwaiters = Cardinality(BusyOn(v)')
      BY <1>4, Zenon DEF WaitersInv
    <2>1. CASE v = u
      <3>1. BusyOn(u)' = BusyOn(u) \ {t}
        BY <1>1, <1>3, TableAssumption, Zenon DEF BusyOn, Busy
      <3> QED BY <1>1, <1>2, <2>1, <3>1, Zenon DEF OneLeaves
    <2>2. CASE v # u
      <3>1. BusyOn(v)' = BusyOn(v)
        BY <1>1, <1>3, <2>2, TableAssumption, Zenon DEF BusyOn, Busy
      <3> QED BY <1>1, <1>2, <2>2, <3>1, Zenon DEF TableInv, WaitersInv
    <2> QED BY <2>1, <2>2, Zenon
  <1> QED BY <1>7, <1>8, <1>9, <1>10, <1>11, Zenon DEF TableInv

\* A step that the objects in the table do not notice: they keep their fields,
\* and their waiters stay waiters.
Quiet ==
  /\ \A u \in ulb_head' :
       /\ u \in ulb_head /\ u \in live' /\ ull'[u] = ull[u]
       /\ \/ ull_lock'[u] = ull_lock[u]
          \/ ull_lock'[u] = NoThread /\ pc[ull_lock[u]] = "assert_wait"
  /\ \A x \in Threads :
       \/ pc'[x] = pc[x] /\ mine'[x] = mine[x] /\ args'[x] = args[x]
       \/ /\ pc[x] \in Busy /\ pc'[x] \in Busy
          /\ mine'[x] = mine[x] /\ args'[x] = args[x]
       \/ /\ pc[x] \notin Busy \cup {"locked"} /\ pc'[x] \notin Busy \cup {"locked"}
          /\ pc[x] # "remqueue" \/ mine[x] \notin ulb_head'
  /\ \A x \in Threads : pc[x] \in Busy => mine[x] \in ulb_head'

LEMMA QuietStep ==
  ASSUME TableInv, Quiet
  PROVE  TableInv'
  <1>1. /\ \A u \in ulb_head' :
             /\ u \in ulb_head /\ u \in live' /\ ull'[u] = ull[u]
        /\ \A x \in Threads :
             /\ pc[x] \in Busy \cup {"locked"} \/ pc'[x] \in Busy \cup {"locked"}
                => mine'[x] = mine[x] /\ args'[x] = args[x]
             /\ pc'[x] \in Busy <=> pc[x] \in Busy
             /\ pc'[x] = "locked" <=> pc[x] = "locked"
             /\ pc[x] = "remqueue" /\ mine[x] \in ulb_head'
                => mine'[x] = mine[x] /\ pc'[x] = "remqueue"
        /\ \A x \in Threads : pc[x] \in Busy => mine[x] \in ulb_head'
    BY Zenon DEF Quiet, Busy
  <1>2. UseInv'
    BY <1>1 DEF TableInv, UseInv
  <1>3. KeyInv'
    BY <1>1 DEF TableInv, KeyInv
  <1>4. OpInv'
    BY <1>1 DEF TableInv, OpInv
  <1>5. RefInv'
    <2>1. \A u \in ulb_head' :
            (ull_lock'[u] \in Threads /\ pc'[ull_lock'[u]] = "locked")
            <=> (ull_lock[u] \in Threads /\ pc[ull_lock[u]] = "locked")
      BY <1>1, TableAssumption DEF Quiet
    <2> QED BY <1>1, <2>1 DEF TableInv, RefInv
  <1>6. WaitersInv'
    <2>1. ASSUME NEW v \in ulb_head' PROVE BusyOn(v)' = BusyOn(v)
      BY <1>1, Zenon DEF BusyOn
    <2> QED BY <1>1, <2>1, Zenon DEF TableInv, WaitersInv
  <1> QED BY <1>2, <1>3, <1>4, <1>5, <1>6, Zenon DEF TableInv

\* The steps of a call that has no object in the table, or leaves it alone.
LEMMA QuietSteps ==
  ASSUME TypeOK, CallInv, SoleInv, LockInv, UseInv, NEW t \in Threads,
         \/ ull_alloc(t) \/ ulock_wake(t) \/ ull_bucket_lock(t) \/ ull_get_pass(t)
         \/ ull_get_none(t) \/ waitq_assert_wait(t) \/ waitq_abort(t) \/ remqueue(t)
         \/ ull_free(t)
  PROVE  Quiet
  <1>1. /\ ulb_head \subseteq live /\ live \subseteq Ulls /\ NoUll \notin ulb_head
        /\ \A x \in Threads : pc[x] \in Busy => mine[x] \in ulb_head
    BY TableAssumption, Zenon DEF UseInv, TypeOK, CallInv
  <1>2. ASSUME \A x \in Threads \ {t} : pc'[x] = pc[x] /\ mine'[x] = mine[x] /\ args'[x] = args[x],
               ulb_head' = ulb_head, live \subseteq live',
               \A u \in ulb_head : ull'[u] = ull[u] /\ ull_lock'[u] = ull_lock[u],
               pc[t] \in {"user", "ull_get", "scan"}, pc'[t] \in {"user", "ull_get", "scan"}
        PROVE  Quiet
    <2>a. \A u \in ulb_head' :
            /\ u \in ulb_head /\ u \in live' /\ ull'[u] = ull[u]
            /\ \/ ull_lock'[u] = ull_lock[u]
               \/ ull_lock'[u] = NoThread /\ pc[ull_lock[u]] = "assert_wait"
      BY <1>1, <1>2, Zenon
    <2>b. \A x \in Threads : pc[x] \in Busy => mine[x] \in ulb_head'
      BY <1>1, <1>2, Zenon
    <2> QED BY <1>1, <1>2, <2>a, <2>b, Zenon DEF Quiet, Busy
  <1>3. CASE ull_alloc(t)
    <2>1. PICK u \in Ulls \ live : /\ live' = live \cup {u}
                                   /\ \A v \in Ulls \ {u} : ull'[v] = ull[v]
      BY <1>3, Zenon DEF ull_alloc, TypeOK
    <2> QED BY <1>1, <1>2, <1>3, <2>1 DEF ull_alloc, At, TypeOK
  <1>4. CASE ulock_wake(t)
    BY <1>2, <1>4, Zenon DEF ulock_wake, At, TypeOK, kernelVars
  <1>5. CASE ull_bucket_lock(t)
    BY <1>2, <1>5, Zenon DEF ull_bucket_lock, At, TypeOK
  <1>6. CASE ull_get_pass(t)
    BY <1>2, <1>6, Zenon DEF ull_get_pass, TypeOK, kernelVars
  <1>7. CASE ull_get_none(t)
    BY <1>2, <1>7, Zenon DEF ull_get_none, Return, TypeOK
  <1>8. CASE waitq_assert_wait(t)
    <2>1. /\ pc[t] = "assert_wait" /\ pc'[t] \in {"block", "continue"}
          /\ \A x \in Threads \ {t} : pc'[x] = pc[x]
          /\ UNCHANGED <<live, ull, ulb_head, args, mine>>
          /\ mine[t] \in Ulls
          /\ ull_lock' = [ull_lock EXCEPT ![mine[t]] = NoThread]
      BY <1>1, <1>8, Zenon DEF waitq_assert_wait, At, TypeOK, Busy
    <2>2. ull_lock[mine[t]] = t
      BY <2>1 DEF LockInv
    <2>a. \A u \in ulb_head' :
            /\ u \in ulb_head /\ u \in live' /\ ull'[u] = ull[u]
            /\ \/ ull_lock'[u] = ull_lock[u]
               \/ ull_lock'[u] = NoThread /\ pc[ull_lock[u]] = "assert_wait"
      BY <1>1, <2>1, <2>2, Zenon DEF TypeOK
    <2>b. \A x \in Threads : pc[x] \in Busy => mine[x] \in ulb_head'
      BY <1>1, <2>1, Zenon
    <2> QED BY <1>1, <2>1, <2>a, <2>b, Zenon DEF Quiet, Busy
  <1>9. CASE waitq_abort(t)
    <2>1. /\ pc[t] = "block" /\ pc'[t] = "continue"
          /\ \A x \in Threads \ {t} : pc'[x] = pc[x]
          /\ UNCHANGED <<live, ull, ulb_head, ull_lock, args, mine>>
      BY <1>9, Zenon DEF waitq_abort, At, TypeOK
    <2>a. \A u \in ulb_head' :
            /\ u \in ulb_head /\ u \in live' /\ ull'[u] = ull[u]
            /\ \/ ull_lock'[u] = ull_lock[u]
               \/ ull_lock'[u] = NoThread /\ pc[ull_lock[u]] = "assert_wait"
      BY <1>1, <2>1, Zenon
    <2>b. \A x \in Threads : pc[x] \in Busy => mine[x] \in ulb_head'
      BY <1>1, <2>1, Zenon
    <2> QED BY <1>1, <2>1, <2>a, <2>b, Zenon DEF Quiet, Busy
  <1>10. CASE remqueue(t)
    <2>1. /\ pc[t] = "remqueue" /\ pc'[t] = "ull_free"
          /\ \A x \in Threads \ {t} : pc'[x] = pc[x]
          /\ UNCHANGED <<live, ull, ull_lock, args, mine>>
          /\ ulb_head' = ulb_head \ {mine[t]}
      BY <1>10, Zenon DEF remqueue, At, TypeOK
    <2>2. \A x \in Threads : pc[x] \in Busy => mine[x] # mine[t]
      BY <1>1, <2>1, Zenon DEF SoleInv, CallInv, Busy
    <2>a. \A u \in ulb_head' :
            /\ u \in ulb_head /\ u \in live' /\ ull'[u] = ull[u]
            /\ \/ ull_lock'[u] = ull_lock[u]
               \/ ull_lock'[u] = NoThread /\ pc[ull_lock[u]] = "assert_wait"
      BY <1>1, <2>1, <2>2, Zenon
    <2>b. \A x \in Threads : pc[x] \in Busy => mine[x] \in ulb_head'
      BY <1>1, <2>1, <2>2, Zenon
    <2> QED BY <1>1, <2>1, <2>2, <2>a, <2>b, Zenon DEF Quiet, Busy
  <1>11. CASE ull_free(t)
    <2>1. /\ pc[t] = "ull_free" /\ pc'[t] = "user"
          /\ \A x \in Threads \ {t} : pc'[x] = pc[x] /\ mine'[x] = mine[x] /\ args'[x] = args[x]
          /\ UNCHANGED <<ulb_head, ull_lock>>
          /\ live' = live \ {mine[t]}
          /\ \A v \in Ulls \ {mine[t]} : ull'[v] = ull[v]
      BY <1>11, Zenon DEF ull_free, Return, TypeOK
    <2>2. mine[t] \notin ulb_head
      BY <2>1, Zenon DEF CallInv
    <2>a. \A u \in ulb_head' :
            /\ u \in ulb_head /\ u \in live' /\ ull'[u] = ull[u]
            /\ \/ ull_lock'[u] = ull_lock[u]
               \/ ull_lock'[u] = NoThread /\ pc[ull_lock[u]] = "assert_wait"
      BY <1>1, <2>1, <2>2, Zenon
    <2>b. \A x \in Threads : pc[x] \in Busy => mine[x] \in ulb_head'
      BY <1>1, <2>1, <2>2, Zenon
    <2> QED BY <1>1, <2>1, <2>2, <2>a, <2>b, Zenon DEF Quiet, Busy
  <1> QED BY <1>3, <1>4, <1>5, <1>6, <1>7, <1>8, <1>9, <1>10, <1>11, Zenon
\* What TableInv says of one object.
Sound(u) ==
  /\ u \in live
  /\ \E t \in Threads :
       /\ mine[t] = u
       /\ IF ull[u].key = InvalidKey THEN pc[t] = "remqueue"
          ELSE /\ pc[t] \in Busy \cup {"locked"}
               /\ args[t] \in WaitCalls
  /\ \A v \in ulb_head : ull[u].key = ull[v].key /\ ull[u].key # InvalidKey => u = v
  /\ set_owner(ull[u].opcode) \/ ull[u].owner = NoThread
  /\ \/ ull[u].opcode = "none" \/ ull[u].key = InvalidKey
     \/ \E t \in Threads : mine[t] = u /\ pc[t] \in Busy
  /\ \A t \in Threads : pc[t] \in Busy /\ mine[t] = u => ull[u].opcode = args[t].op
  /\ ull[u].key # InvalidKey =>
       /\ ull[u].refcount = ull[u].nwaiters
            + (IF ull_lock[u] \in Threads /\ pc[ull_lock[u]] = "locked" THEN 2 ELSE 1)
       /\ ull[u].nwaiters = Cardinality(BusyOn(u))

\* A step in which t changes the one object u, and no other thread starts or
\* ends to wait.
Touches(t, u) ==
  /\ ulb_head' = ulb_head \cup {u}
  /\ \A v \in ulb_head \ {u} :
       ull'[v] = ull[v] /\ v \in live' /\ ull_lock'[v] = ull_lock[v]
  /\ \A x \in Threads \ {t} :
       /\ mine'[x] = mine[x] /\ args'[x] = args[x]
       /\ pc'[x] = pc[x] \/ (pc[x] = "block" /\ pc'[x] = "continue" /\ mine[x] = u)
  /\ mine[t] = u \/ mine[t] \notin ulb_head
  /\ mine'[t] \in {u, NoUll} /\ (pc'[t] \in Busy => mine'[t] = u)

\* Such a step leaves the table in order if it leaves u in order.
LEMMA OneObject ==
  ASSUME TypeOK, CallInv, LockInv, TableInv, NEW t \in Threads, NEW u \in Ulls,
         Touches(t, u), Sound(u)'
  PROVE  TableInv'
  <1> USE DEF Touches
  <1>1. /\ ulb_head \subseteq Ulls
        /\ \A v \in ulb_head \ {u} : /\ v # NoUll /\ ull_lock[v] # t
                                     /\ mine[t] # v /\ mine'[t] # v
    BY TableAssumption DEF TypeOK, LockInv
  <1>2. \A x \in Threads \ {t} : /\ pc'[x] \in Busy <=> pc[x] \in Busy
                                 /\ pc'[x] = "locked" <=> pc[x] = "locked"
                                 /\ mine[x] # u => pc'[x] = pc[x]
    BY Zenon DEF Busy
  <1>3. UseInv'
    <2>1. ASSUME NEW v \in ulb_head \ {u}
          PROVE  \E x \in Threads \ {t} :
                    /\ mine'[x] = v
                    /\ IF ull[v].key = InvalidKey THEN pc'[x] = "remqueue"
                       ELSE /\ pc'[x] \in Busy \cup {"locked"}
                            /\ args'[x] \in WaitCalls
      BY <1>1, <1>2 DEF TableInv, UseInv
    <2> QED BY <2>1 DEF UseInv, Sound
  <1>4. KeyInv'
    BY DEF TableInv, KeyInv, Sound
  <1>5. OpInv'
    <2>1. ASSUME NEW v \in ulb_head \ {u}
          PROVE  \/ ull[v].opcode = "none" \/ ull[v].key = InvalidKey
                 \/ \E x \in Threads \ {t} : mine'[x] = v /\ pc'[x] \in Busy
      BY <1>1, <1>2 DEF TableInv, OpInv
    <2>2. \A v \in ulb_head \ {u} : set_owner(ull[v].opcode) \/ ull[v].owner = NoThread
      BY Zenon DEF TableInv, OpInv
    <2>3. ASSUME NEW x \in Threads, pc'[x] \in Busy, mine'[x] # u
          PROVE  ull'[mine'[x]].opcode = args'[x].op
      <3>1. x # t /\ pc[x] \in Busy /\ mine[x] \in ulb_head \ {u}
        BY <1>2, <2>3, Zenon DEF CallInv
      <3> QED BY <2>3, <3>1 DEF TableInv, OpInv
    <2> QED BY <2>1, <2>2, <2>3 DEF OpInv, Sound
  <1>6. RefInv'
    <2>1. ASSUME NEW v \in ulb_head \ {u}, ull[v].key # InvalidKey
          PROVE  ull'[v].refcount = ull'[v].nwaiters
            + (IF ull_lock'[v] \in Threads /\ pc'[ull_lock'[v]] = "locked" THEN 2 ELSE 1)
      BY <1>1, <1>2, <2>1 DEF TableInv, RefInv
    <2> QED BY <2>1 DEF RefInv, Sound
  <1>7. WaitersInv'
    <2>1. ASSUME NEW v \in ulb_head \ {u}, ull'[v].key # InvalidKey
          PROVE  ull'[v].nwaiters = Cardinality(BusyOn(v)')
      <3>1. BusyOn(v)' = BusyOn(v)
        BY <1>1, <1>2 DEF BusyOn
      <3> QED BY <2>1, <3>1 DEF TableInv, WaitersInv
    <2> QED BY <2>1, Zenon DEF WaitersInv, Sound
  <1> QED BY <1>3, <1>4, <1>5, <1>6, <1>7, Zenon DEF TableInv

\* ull_get finds the object of the key, which somebody uses.
LEMMA FoundStep ==
  ASSUME TypeOK, CallInv, LockInv, SoleInv, TableInv, NEW t \in Threads, ull_get_found(t)
  PROVE  TableInv'
  <1>1. PICK u \in ulb_head \ seen[t] :
          /\ ull_lock[u] = NoThread
          /\ ull[u].key = args[t].key
          /\ ull_lock'[u] = t /\ \A v \in Ulls \ {u} : ull_lock'[v] = ull_lock[v]
          /\ ull'[u] = ull_refcount_inc(u) /\ \A v \in Ulls \ {u} : ull'[v] = ull[v]
          /\ mine'[t] = u /\ \A x \in Threads \ {t} : mine'[x] = mine[x]
    BY Zenon DEF ull_get_found, TypeOK
  <1>2. /\ u \in Ulls /\ ull[u] \in UllRecords /\ ull[u].key # InvalidKey
        /\ pc[t] = "scan" /\ mine[t] \notin ulb_head
    <2>1. u \in Ulls /\ ull[u] \in UllRecords /\ pc[t] = "scan" /\ NoUll \notin ulb_head
      BY <1>1, TableAssumption, ZenonT(60) DEF ull_get_found, TypeOK
    <2>2. mine[t] \notin ulb_head /\ args[t].key \in Keys
      BY <2>1, Zenon DEF CallInv, WaitCalls, WakeCalls
    <2> QED BY <1>1, <2>1, <2>2, TableAssumption
  <1>3. /\ ull'[u] = Fields(ull[u].key, ull[u].refcount + 1, ull[u].nwaiters,
                            ull[u].owner, ull[u].opcode)
        /\ \A v \in Ulls \ {u} : ull'[v] = ull[v]
    BY <1>1, <1>2, Zenon DEF TypeOK, UllRecords, Fields, ull_refcount_inc
  <1>4. /\ ull'[u].key = ull[u].key /\ ull'[u].refcount = ull[u].refcount + 1
        /\ ull'[u].nwaiters = ull[u].nwaiters
        /\ ull'[u].owner = ull[u].owner /\ ull'[u].opcode = ull[u].opcode
        /\ ull[u].nwaiters \in Nat
    BY <1>2, <1>3 DEF Fields, UllRecords
  <1>5. /\ \A x \in Threads \ {t} : pc'[x] = pc[x] /\ mine'[x] = mine[x] /\ args'[x] = args[x]
        /\ pc'[t] = "locked" /\ mine'[t] = u
        /\ ull_lock'[u] = t /\ \A v \in Ulls \ {u} : ull_lock'[v] = ull_lock[v]
        /\ ulb_head' = ulb_head /\ live' = live \ {mine[t]}
    BY <1>1, <1>2 DEF ull_get_found, At, TypeOK
  <1>6. Sound(u)'
    <2>1. u \in live'
      BY <1>2, <1>5, Zenon DEF TableInv, UseInv
    <2>2. \E x \in Threads : /\ mine'[x] = u /\ pc'[x] \in Busy \cup {"locked"}
                             /\ args'[x] \in WaitCalls
      BY <1>2, <1>5 DEF TableInv, UseInv, Busy
    <2>3. \A v \in ulb_head' : ull'[u].key = ull'[v].key => u = v
      <3>1. \A v \in ulb_head : v # u => ull'[v] = ull[v]
        BY <1>3, Zenon DEF TypeOK
      <3>2. \A v \in ulb_head : ull'[v].key = ull[v].key
        BY <1>4, <3>1, Zenon
      <3> QED BY <1>1, <1>2, <1>5, <3>2 DEF TableInv, KeyInv
    <2>4. /\ set_owner(ull'[u].opcode) \/ ull'[u].owner = NoThread
          /\ \/ ull'[u].opcode = "none"
             \/ \E x \in Threads : mine'[x] = u /\ pc'[x] \in Busy
          /\ \A x \in Threads : pc'[x] \in Busy /\ mine'[x] = u => ull'[u].opcode = args'[x].op
      BY <1>2, <1>4, <1>5 DEF TableInv, OpInv, Busy
    <2>5. ull'[u].refcount = ull'[u].nwaiters + 2
      BY <1>1, <1>2, <1>4, TableAssumption DEF TableInv, RefInv
    <2>6. ull'[u].nwaiters = Cardinality(BusyOn(u)')
      <3>1. BusyOn(u)' = BusyOn(u)
        BY <1>2, <1>5, ZenonT(60) DEF BusyOn, Busy
      <3> QED BY <1>2, <1>4, <3>1, Zenon DEF TableInv, WaitersInv
    <2> QED BY <1>2, <1>4, <1>5, <2>1, <2>2, <2>3, <2>4, <2>5, <2>6, ZenonT(60) DEF Sound
  <1> QED
    <2>1. \A v \in ulb_head : v \in live' /\ v \in Ulls
      BY <1>2, <1>5, Zenon DEF TableInv, UseInv, TypeOK
    <2>2. pc'[t] \notin Busy
      BY <1>5, Zenon DEF Busy
    <2>3. ulb_head' = ulb_head \cup {u}
      BY <1>1, <1>5, Zenon
    <2>4. \A v \in ulb_head \ {u} : /\ ull'[v] = ull[v] /\ v \in live'
                                      /\ ull_lock'[v] = ull_lock[v]
      BY <1>3, <1>5, <2>1, Zenon
    <2>5. \A x \in Threads \ {t} :
            /\ mine'[x] = mine[x] /\ args'[x] = args[x]
            /\ pc'[x] = pc[x] \/ (pc[x] = "block" /\ pc'[x] = "continue" /\ mine[x] = u)
      BY <1>5, Zenon
    <2>6. Touches(t, u)
      BY <1>2, <1>5, <2>2, <2>3, <2>4, <2>5, Zenon DEF Touches
    <2> QED BY <1>2, <1>6, <2>6, OneObject, Zenon
\* ull_get links the new object, after the lookup has passed all the others.
LEMMA InsertStep ==
  ASSUME ThreadsCount, TypeOK, CallInv, ScanInv, LockInv, SoleInv, TableInv, NEW t \in Threads,
         ull_get_insert(t)
  PROVE  TableInv'
  <1>1. /\ pc[t] = "scan" /\ args[t] \in WaitCalls /\ mine[t] \in live \ ulb_head
        /\ ull[mine[t]] = Fresh(args[t].key) /\ seen[t] = ulb_head
    BY Zenon DEF ull_get_insert, CallInv, WakeCalls
  <1>2. PICK u \in Ulls : u = mine[t]
    BY <1>1, Zenon DEF TypeOK
  <1>3. args[t].key # InvalidKey /\ u # NoUll
    BY <1>1, <1>2, TableAssumption, Zenon DEF WaitCalls
  <1>4. /\ ull'[u] = Fields(args[t].key, 2, 0, NoThread, "none")
        /\ \A v \in Ulls \ {u} : ull'[v] = ull[v]
    BY <1>1, <1>2 DEF ull_get_insert, TypeOK, Fields, Fresh, ull_refcount_inc
  <1>5. /\ ull'[u].key = args[t].key /\ ull'[u].refcount = 2 /\ ull'[u].nwaiters = 0
        /\ ull'[u].owner = NoThread /\ ull'[u].opcode = "none"
    BY <1>4 DEF Fields
  <1>6. /\ \A x \in Threads \ {t} : pc'[x] = pc[x]
        /\ pc'[t] = "locked" /\ mine' = mine /\ args' = args
        /\ ull_lock'[u] = t /\ \A v \in Ulls \ {u} : ull_lock'[v] = ull_lock[v]
        /\ ulb_head' = ulb_head \cup {u} /\ live' = live
    BY <1>2, Zenon DEF ull_get_insert, At, TypeOK
  <1>7. \A x \in Threads \ {t} : mine[x] # u
    BY <1>1, <1>2, <1>3, ZenonT(60) DEF SoleInv
  <1>8. Sound(u)'
    <2>1. \A v \in ulb_head' : ull'[u].key = ull'[v].key => u = v
      <3>1. \A v \in ulb_head : v # u /\ v \in Ulls /\ ull[v].key # args[t].key
        BY <1>1, <1>2, Zenon DEF ScanInv, TypeOK
      <3> QED BY <1>4, <1>5, <1>6, <3>1, ZenonT(60)
    <2>2. BusyOn(u)' = {}
      BY <1>6, <1>7, Zenon DEF BusyOn, Busy
    <2>3. \A x \in Threads : ~(pc'[x] \in Busy /\ mine'[x] = u)
      BY <1>6, <1>7, Zenon DEF Busy
    <2>4. Cardinality({}) = 0
      BY Zenon DEF ThreadsCount
    <2> QED BY <1>1, <1>2, <1>3, <1>5, <1>6, <2>1, <2>2, <2>3, <2>4 DEF Sound
  <1>9. Touches(t, u)
    <2>1. \A v \in ulb_head \ {u} :
            ull'[v] = ull[v] /\ v \in live' /\ ull_lock'[v] = ull_lock[v]
      BY <1>4, <1>6, Zenon DEF TypeOK, TableInv, UseInv
    <2>2. pc'[t] \notin Busy
      BY <1>6, Zenon DEF Busy
    <2> QED BY <1>2, <1>6, <2>1, <2>2, Zenon DEF Touches
  <1> QED BY <1>8, <1>9, OneObject, Zenon

\* The last waiter leaves: the object has no key any more, and t takes it out.
LEMMA LastStep ==
  ASSUME TypeOK, CallInv, LockInv, TableInv, NEW t \in Threads,
         pc[t] \in {"locked", "continue"}, NEW p, LastLeaves(t, mine[t], p)
  PROVE  TableInv'
  <1>1. PICK u \in Ulls : u = mine[t] /\ u \in ulb_head
    BY Zenon DEF TypeOK, CallInv, Busy
  <1>2. /\ ull'[u].key = InvalidKey /\ ull'[u].owner = NoThread
        /\ \A v \in Ulls \ {u} : ull'[v] = ull[v]
    BY <1>1, Zenon DEF LastLeaves, Fields, TypeOK
  <1>3. /\ \A x \in Threads \ {t} : pc'[x] = pc[x] /\ mine[x] # u
        /\ pc'[t] = "remqueue" /\ mine' = mine /\ args' = args
        /\ ulb_head' = ulb_head /\ live' = live
        /\ \A v \in Ulls \ {u} : ull_lock'[v] = ull_lock[v]
    BY <1>1, Zenon DEF LastLeaves, TypeOK
  <1>4. pc'[t] \notin Busy
    BY <1>3, Zenon DEF Busy
  <1>5. Sound(u)'
    <2>1. u \in live
      BY <1>1, Zenon DEF TableInv, UseInv
    <2> QED BY <1>1, <1>2, <1>3, <1>4, <2>1, Zenon DEF Sound
  <1>6. Touches(t, u)
    <2>1. \A v \in ulb_head \ {u} :
            ull'[v] = ull[v] /\ v \in live' /\ ull_lock'[v] = ull_lock[v]
      BY <1>2, <1>3, Zenon DEF TypeOK, TableInv, UseInv
    <2>2. ulb_head' = ulb_head \cup {u}
      BY <1>1, <1>3, Zenon
    <2> QED BY <1>1, <1>3, <1>4, <2>1, <2>2, Zenon DEF Touches
  <1> QED BY <1>5, <1>6, OneObject, Zenon

\* A thread goes on to wait: it is counted, and keeps its reference.
LEMMA BlocksStep ==
  ASSUME ThreadsCount, TypeOK, CallInv, LockInv, TableInv, NEW t \in Threads, pc[t] = "locked",
         args[t] \in WaitCalls, NEW o \in Threads \cup {NoThread}, Blocks(t, mine[t], o)
  PROVE  TableInv'
  <1>1. PICK u \in Ulls : u = mine[t] /\ u \in ulb_head
    BY Zenon DEF TypeOK, CallInv
  <1>2. /\ ull[u].key # InvalidKey /\ ull[u] \in UllRecords
        /\ args[t].op # "none"
    BY <1>1, TableAssumption DEF CallInv, WaitCalls, TypeOK
  <1>3. /\ ull'[u] = Fields(ull[u].key, ull[u].refcount, ull[u].nwaiters + 1, o, args[t].op)
        /\ \A v \in Ulls \ {u} : ull'[v] = ull[v]
    BY <1>1, ZenonT(60) DEF Blocks, TypeOK
  <1>4. /\ ull'[u].key = ull[u].key /\ ull'[u].refcount = ull[u].refcount
        /\ ull'[u].nwaiters = ull[u].nwaiters + 1 /\ ull[u].nwaiters \in Nat
        /\ ull'[u].owner = o /\ ull'[u].opcode = args[t].op
    <2>1. ull[u].nwaiters \in Nat
      BY <1>2, Zenon DEF UllRecords
    <2> QED BY <1>3, <2>1 DEF Fields
  <1>5. /\ \A x \in Threads \ {t} : pc'[x] = pc[x]
        /\ pc'[t] = "assert_wait" /\ mine' = mine /\ args' = args
        /\ ulb_head' = ulb_head /\ live' = live /\ ull_lock' = ull_lock
    BY Zenon DEF Blocks, TypeOK
  <1>6. ull_lock[u] = t /\ u \in live
    BY <1>1, ZenonT(60) DEF LockInv, TableInv, UseInv
  <1>7. Sound(u)'
    <2>1. \A v \in ulb_head' : ull'[u].key = ull'[v].key => u = v
      <3>1. \A v \in ulb_head : v # u => ull'[v] = ull[v]
        BY <1>3, Zenon DEF TypeOK
      <3>2. \A v \in ulb_head : ull'[v].key = ull[v].key
        BY <1>4, <3>1, Zenon
      <3> QED BY <1>1, <1>2, <1>5, <3>2, Zenon DEF TableInv, KeyInv
    <2>2. set_owner(ull'[u].opcode) \/ ull'[u].owner = NoThread
      BY <1>1, <1>4, Zenon DEF TableInv, OpInv, Blocks, set_owner
    <2>3. \A x \in Threads : pc'[x] \in Busy /\ mine'[x] = u => ull'[u].opcode = args'[x].op
      <3>1. \A x \in BusyOn(u) : args[x].op = args[t].op
        BY <1>1, Zenon DEF Blocks
      <3> QED BY <1>4, <1>5, <3>1, Zenon DEF BusyOn
    <2>4. ull'[u].refcount = ull'[u].nwaiters + 1
      BY <1>1, <1>2, <1>4, <1>6 DEF TableInv, RefInv
    <2>5. ull'[u].nwaiters = Cardinality(BusyOn(u)')
      <3>1. BusyOn(u)' = BusyOn(u) \cup {t} /\ t \notin BusyOn(u)
        BY <1>1, <1>5, Zenon DEF BusyOn, Busy
      <3>2. BusyOn(u) \in SUBSET Threads
        BY Zenon DEF BusyOn
      <3>3. Cardinality(BusyOn(u) \cup {t}) = Cardinality(BusyOn(u)) + 1
        BY <3>1, <3>2, Zenon DEF ThreadsCount
      <3>4. Cardinality(BusyOn(u)') = Cardinality(BusyOn(u)) + 1
        BY <3>1, <3>3, Zenon
      <3> QED BY <1>1, <1>2, <1>4, <3>4, Zenon DEF TableInv, WaitersInv
    <2>6. pc'[t] \in Busy /\ pc'[t] # "locked" /\ mine'[t] = u /\ args'[t] \in WaitCalls
      BY <1>1, <1>5, Zenon DEF Busy
    <2> QED BY <1>2, <1>4, <1>5, <1>6, <2>1, <2>2, <2>3, <2>4, <2>5, <2>6, Zenon DEF Sound
  <1>8. Touches(t, u)
    <2>1. \A v \in ulb_head \ {u} :
            ull'[v] = ull[v] /\ v \in live' /\ ull_lock'[v] = ull_lock[v]
      BY <1>3, <1>5, Zenon DEF TypeOK, TableInv, UseInv
    <2>2. ulb_head' = ulb_head \cup {u}
      BY <1>1, <1>5, Zenon
    <2> QED BY <1>1, <1>5, <2>1, <2>2, Zenon DEF Touches
  <1> QED BY <1>7, <1>8, OneObject, Zenon

\* A wake takes threads off the queue; they wait until they have cleaned up.
LEMMA WakeStep ==
  ASSUME TypeOK, CallInv, LockInv, TableInv, NEW t \in Threads, pc[t] = "locked",
         args[t] \in WakeCalls, NEW W \in SUBSET Threads, NEW o, WakeLeaves(t, mine[t], W, o)
  PROVE  TableInv'
  <1>1. PICK u \in Ulls : u = mine[t] /\ u \in ulb_head /\ u # NoUll
    BY TableAssumption, ZenonT(60) DEF TypeOK, CallInv
  <1>2. ull[u].key # InvalidKey /\ ull[u] \in UllRecords
    BY <1>1, TableAssumption DEF CallInv, WakeCalls, TypeOK
  <1>3. /\ ull'[u] = Fields(ull[u].key, ull[u].refcount - 1, ull[u].nwaiters, o, ull[u].opcode)
        /\ \A v \in Ulls \ {u} : ull'[v] = ull[v]
    BY <1>1, Zenon DEF WakeLeaves, TypeOK
  <1>4. /\ ull'[u].key = ull[u].key /\ ull'[u].refcount = ull[u].refcount - 1
        /\ ull'[u].nwaiters = ull[u].nwaiters /\ ull[u].nwaiters \in Nat
        /\ ull'[u].owner = o /\ ull'[u].opcode = ull[u].opcode
    BY <1>2, <1>3 DEF Fields, UllRecords
  <1>5. /\ \A x \in Threads \ {t} : /\ mine'[x] = mine[x] /\ args'[x] = args[x]
                                    /\ pc'[x] = IF x \in W THEN "continue" ELSE pc[x]
        /\ pc'[t] = "user" /\ mine'[t] = NoUll
        /\ ulb_head' = ulb_head /\ live' = live
        /\ ull_lock'[u] = NoThread /\ \A v \in Ulls \ {u} : ull_lock'[v] = ull_lock[v]
    BY <1>1, Zenon DEF WakeLeaves, TypeOK
  <1>6. \A x \in W : pc[x] = "block" /\ mine[x] = u
    BY <1>1, Zenon DEF WakeLeaves, LockInv
  <1>7. /\ \A x \in Threads : (pc'[x] \in Busy /\ mine'[x] = u) <=> (pc[x] \in Busy /\ mine[x] = u)
        /\ \A x \in Threads : pc[x] \in Busy /\ mine[x] = u => args'[x] = args[x]
        /\ pc'[t] \notin Busy
    BY <1>5, <1>6, Zenon DEF Busy
  <1>8. ull_lock[u] = t /\ u \in live
    BY <1>1 DEF LockInv, TableInv, UseInv
  <1>9. Sound(u)'
    <2>1. \A v \in ulb_head' : ull'[u].key = ull'[v].key => u = v
      <3>1. \A v \in ulb_head : v # u => ull'[v] = ull[v]
        BY <1>3, Zenon DEF TypeOK
      <3>2. \A v \in ulb_head : ull'[v].key = ull[v].key
        BY <1>4, <3>1, Zenon
      <3> QED BY <1>1, <1>2, <1>5, <3>2, ZenonT(60) DEF TableInv, KeyInv
    <2>2. set_owner(ull'[u].opcode) \/ ull'[u].owner = NoThread
      BY <1>1, <1>4, Zenon DEF TableInv, OpInv, WakeLeaves
    <2>3. /\ \A x \in Threads : pc'[x] \in Busy /\ mine'[x] = u => ull'[u].opcode = args'[x].op
          /\ ull'[u].opcode = "none" \/ \E x \in Threads : mine'[x] = u /\ pc'[x] \in Busy
      BY <1>1, <1>2, <1>4, <1>7 DEF TableInv, OpInv
    <2>4. ull'[u].refcount = ull'[u].nwaiters + 1
      BY <1>1, <1>2, <1>4, <1>8 DEF TableInv, RefInv
    <2>5. ull'[u].nwaiters = Cardinality(BusyOn(u)')
      <3>1. BusyOn(u)' = BusyOn(u)
        BY <1>7, Zenon DEF BusyOn
      <3> QED BY <1>1, <1>2, <1>4, <3>1, Zenon DEF TableInv, WaitersInv
    <2>6. \E x \in Threads : mine'[x] = u /\ pc'[x] \in Busy /\ args'[x] \in WaitCalls
      <3>1. PICK x \in Threads : /\ mine[x] = u /\ pc[x] \in Busy \cup {"locked"}
                                 /\ args[x] \in WaitCalls
        BY <1>1, <1>2, Zenon DEF TableInv, UseInv
      <3>2. x # t
        BY <3>1, Zenon DEF WaitCalls, WakeCalls
      <3>3. pc[x] \in Busy
        BY <1>1, <1>8, <3>1, <3>2, Zenon DEF LockInv
      <3> QED BY <1>7, <3>1, <3>3, Zenon
    <2> QED BY <1>2, <1>4, <1>5, <1>8, <2>1, <2>2, <2>3, <2>4, <2>5, <2>6, TableAssumption, Zenon
            DEF Sound
  <1>10. Touches(t, u)
    <2>1. \A v \in ulb_head \ {u} :
            ull'[v] = ull[v] /\ v \in live' /\ ull_lock'[v] = ull_lock[v]
      BY <1>3, <1>5, Zenon DEF TypeOK, TableInv, UseInv
    <2>2. ulb_head' = ulb_head \cup {u}
      BY <1>1, <1>5, Zenon
    <2> QED BY <1>1, <1>5, <1>6, <1>7, <2>1, <2>2, Zenon DEF Touches
  <1> QED BY <1>9, <1>10, OneObject, Zenon

\* Every step keeps the table in order.
LEMMA TableStep ==
  ASSUME ThreadsCount, TypeOK, CallInv, ScanInv, SoleInv, LockInv, TableInv, StepEffect
  PROVE  TableInv'
  <1>1. CASE UNCHANGED <<kernelVars, threadVars>> /\ word' \in [Keys -> Values]
    <2>1. Quiet
      <3>1. \A x \in Threads : pc[x] \in Busy => mine[x] \in ulb_head
        BY Zenon DEF CallInv
      <3> QED BY <1>1, <3>1, Zenon DEF Quiet, kernelVars, threadVars, TableInv, UseInv
    <2> QED BY <2>1, QuietStep, Zenon
  <1>2. ASSUME NEW t \in Threads,
               \/ ull_alloc(t) \/ ulock_wake(t) \/ ull_bucket_lock(t) \/ ull_get_pass(t)
               \/ ull_get_none(t) \/ waitq_assert_wait(t) \/ waitq_abort(t) \/ remqueue(t)
               \/ ull_free(t)
        PROVE  TableInv'
    <2>1. UseInv
      BY Zenon DEF TableInv
    <2> QED BY <1>2, <2>1, QuietSteps, QuietStep, Zenon
  <1>3. ASSUME NEW t \in Threads, ull_get_found(t) PROVE TableInv'
    BY <1>3, FoundStep, Zenon
  <1>4. ASSUME NEW t \in Threads, ull_get_insert(t) PROVE TableInv'
    BY <1>4, InsertStep, Zenon
  <1>5. ASSUME NEW t \in Threads, pc[t] \in {"locked", "continue"},
               NEW p \in ClientOps \cup {"none"}, LastLeaves(t, mine[t], p)
        PROVE  TableInv'
    BY <1>5, LastStep, Zenon
  <1>6. ASSUME NEW t \in Threads, pc[t] \in {"locked", "continue"},
               NEW m \in Nat \ {0}, OneLeaves(t, mine[t], m)
        PROVE  TableInv'
    BY <1>6, OneStep, Zenon
  <1>7. ASSUME NEW t \in Threads, pc[t] = "locked", args[t] \in WaitCalls,
               NEW o \in Threads \cup {NoThread}, Blocks(t, mine[t], o)
        PROVE  TableInv'
    BY <1>7, BlocksStep, Zenon
  <1>8. ASSUME NEW t \in Threads, pc[t] = "locked", args[t] \in WakeCalls,
               NEW W \in SUBSET Threads,
               NEW o \in Threads \cup {NoThread}, WakeLeaves(t, mine[t], W, o)
        PROVE  TableInv'
    BY <1>8, WakeStep, Zenon
  <1> QED BY <1>1, <1>2, <1>3, <1>4, <1>5, <1>6, <1>7, <1>8, Zenon DEF StepEffect

-----------------------------------------------------------------------------
\* Before the first call the table is empty.
LEMMA InitInv == Init => IInv
  <1> SUFFICES ASSUME Init PROVE IInv
    BY Zenon
  <1> USE TableAssumption DEF Init
  <1>1. TypeOK
    BY Zenon DEF TypeOK, UllRecords, Fresh
  <1>2. CallInv /\ ScanInv /\ SoleInv /\ LockInv
    BY Zenon DEF CallInv, ScanInv, SoleInv, LockInv, Busy
  <1>3. TableInv
    BY Zenon DEF TableInv, UseInv, KeyInv, OpInv, RefInv, WaitersInv, Busy
  <1> QED BY <1>1, <1>2, <1>3, Zenon DEF IInv

\* The invariant is inductive.
LEMMA StepInv ==
  ASSUME ThreadsCount, IInv, [Next]_vars
  PROVE  IInv'
  <1>1. StepEffect
    BY StepCases, Zenon
  <1>2. NoUseAfterFree
    BY Consequences, Zenon
  <1>3. TypeOK /\ CallInv /\ ScanInv /\ SoleInv /\ LockInv /\ TableInv
    BY Zenon DEF IInv
  <1>4. TypeOK' /\ CallInv'
    BY <1>1, <1>2, <1>3, TypeStep, CallStep, Zenon
  <1>5. ScanInv' /\ SoleInv'
    BY <1>1, <1>2, <1>3, ScanStep, SoleStep, Zenon
  <1>6. LockInv' /\ TableInv'
    BY <1>1, <1>2, <1>3, LockStep, TableStep, Zenon
  <1> QED BY <1>4, <1>5, <1>6, Zenon DEF IInv
-----------------------------------------------------------------------------
\* ulock_wake has checked its flags.
FlagsInv == \A t \in Threads : args[t] \in WakeCalls => FlagsOK(args[t])

LEMMA FlagsStep ==
  ASSUME TypeOK, FlagsInv, StepEffect
  PROVE  FlagsInv'
  <1>1. ASSUME args' = args PROVE FlagsInv'
    BY <1>1, Zenon DEF FlagsInv, WakeCalls, FlagsOK
  <1>2. ASSUME NEW t \in Threads, NEW c, args' = [args EXCEPT ![t] = c],
               c \in WakeCalls => FlagsOK(c)
        PROVE  FlagsInv'
    BY <1>2, Zenon DEF FlagsInv, TypeOK
  <1>3. NoCall \notin WakeCalls /\ \A c \in WaitCalls : c \notin WakeCalls
    BY Zenon DEF NoCall, WakeCalls, WaitCalls
  <1>4. CASE UNCHANGED <<kernelVars, threadVars>> /\ word' \in [Keys -> Values]
    BY <1>1, <1>4, Zenon DEF threadVars
  <1>5. ASSUME NEW t \in Threads, ull_alloc(t) PROVE FlagsInv'
    BY <1>2, <1>3, <1>5, Zenon DEF ull_alloc
  <1>6. ASSUME NEW t \in Threads, ulock_wake(t) PROVE FlagsInv'
    BY <1>2, <1>6, Zenon DEF ulock_wake
  <1>7. ASSUME NEW t \in Threads, \/ ull_get_none(t) \/ ull_free(t)
        PROVE  FlagsInv'
    BY <1>2, <1>3, <1>7, Zenon DEF ull_get_none, ull_free, Return
  <1>8. ASSUME NEW t \in Threads,
               \/ ull_bucket_lock(t) \/ ull_get_pass(t) \/ ull_get_found(t)
               \/ ull_get_insert(t) \/ waitq_assert_wait(t) \/ waitq_abort(t) \/ remqueue(t)
        PROVE  FlagsInv'
    <2>1. args' = args
      BY <1>8, Zenon DEF ull_bucket_lock, ull_get_pass, ull_get_found, ull_get_insert,
                  waitq_assert_wait, waitq_abort, remqueue
    <2> QED BY <1>1, <2>1, Zenon
  <1>9. ASSUME NEW t \in Threads, NEW p, NEW o,
               LastLeaves(t, mine[t], p) \/ Blocks(t, mine[t], o)
        PROVE  FlagsInv'
    BY <1>1, <1>9, Zenon DEF LastLeaves, Blocks
  <1>10. ASSUME NEW t \in Threads, NEW m, OneLeaves(t, mine[t], m)
         PROVE  FlagsInv'
    BY <1>2, <1>3, <1>10, Zenon DEF OneLeaves, Return
  <1>11. ASSUME NEW t \in Threads, NEW W, NEW o, WakeLeaves(t, mine[t], W, o)
         PROVE  FlagsInv'
    BY <1>2, <1>3, <1>11, Zenon DEF WakeLeaves
  <1> QED BY <1>4, <1>5, <1>6, <1>7, <1>8, <1>9, <1>10, <1>11, Zenon DEF StepEffect

\* The threads that wait on AnyKey, and where one of them stands.
Waiters == {t \in Threads : pc[t] \in Busy /\ args[t].key = AnyKey}

Stand(t) == IF t \notin Waiters THEN "USER"
            ELSE IF pc[t] = "continue" THEN wr[t] ELSE "THREAD_WAITING"

\* What the service of AnyKey sees depends on its waiters and on the object
\* that they have in common.
ViewOK ==
  /\ KState = [t \in Threads |-> Stand(t)]
  /\ Expect = [t \in Threads |-> IF t \in Waiters THEN args[t].value ELSE NoThread]
  /\ Waiters = {} => Owner = NoThread /\ Opcode = "none"
  /\ \A t \in Waiters :
       /\ Owner = ull[mine[t]].owner /\ Opcode = args[t].op
       /\ args[t] \in WaitCalls /\ Stand(t) # "USER"

LEMMA View == IInv => ViewOK
  <1> SUFFICES ASSUME IInv PROVE ViewOK
    BY Zenon
  <1> USE DEF IInv, TableInv
  <1>1. \A t \in Threads : pc[t] \in Busy => /\ args[t] \in WaitCalls
                                             /\ args[t].call = "ulock_wait"
                                             /\ mine[t] \in ulb_head
                                             /\ ull[mine[t]].key = args[t].key
                                             /\ ull[mine[t]].opcode = args[t].op
    BY Zenon DEF CallInv, WaitCalls, OpInv, Busy
  <1>2. \A t \in Waiters : Stand(t) # "USER"
    BY Zenon DEF Waiters, Stand, ScanInv, WaitResults
  <1>3. \A t \in Threads : KState[t] = Stand(t)
    BY <1>1, Zenon DEF KState, Stand, Waiters, Busy
  <1>4. KState = [t \in Threads |-> Stand(t)]
    BY <1>3, Zenon DEF KState
  <1>5. Expect = [t \in Threads |-> IF t \in Waiters THEN args[t].value ELSE NoThread]
    BY <1>2, <1>3, Zenon DEF Expect, Stand
  <1>6. \A u, v \in OfKey : u = v
    BY TableAssumption, Zenon DEF OfKey, KeyInv
  <1>7. ASSUME NEW t \in Waiters
        PROVE  Owner = ull[mine[t]].owner /\ Opcode = args[t].op /\ args[t] \in WaitCalls
    <2>1. t \in Threads /\ pc[t] \in Busy /\ args[t].key = AnyKey
      BY Zenon DEF Waiters
    <2>2. mine[t] \in OfKey
      BY <1>1, <2>1, Zenon DEF OfKey
    <2>3. (CHOOSE u \in OfKey : TRUE) = mine[t]
      BY <1>6, <2>2, Zenon
    <2>4. Owner = ull[mine[t]].owner
      BY <2>2, <2>3, Zenon DEF Owner
    <2>5. KState[t] # "USER"
      BY <1>2, <1>3, <2>1, Zenon
    <2>6. Opcode = ull[mine[t]].opcode
      BY <2>1, <2>3, <2>5, Zenon DEF Opcode
    <2> QED BY <1>1, <2>1, <2>4, <2>6, Zenon
  <1>8. ASSUME Waiters = {} PROVE Owner = NoThread /\ Opcode = "none"
    <2>1. Opcode = "none"
      BY <1>3, <1>8, Zenon DEF Opcode, Stand
    <2>2. ASSUME NEW u \in OfKey PROVE ull[u].owner = NoThread
      <3>1. u \in ulb_head /\ ull[u].key = AnyKey /\ AnyKey # InvalidKey
        BY TableAssumption, Zenon DEF OfKey
      <3>2. ~ \E t \in Threads : mine[t] = u /\ pc[t] \in Busy
        BY <1>1, <1>8, <3>1, Zenon DEF Waiters
      <3>3. ull[u].opcode = "none"
        BY <3>1, <3>2, Zenon DEF OpInv
      <3> QED BY <3>1, <3>3, Zenon DEF OpInv, set_owner
    <2>3. Owner = NoThread
      BY <2>2, Zenon DEF Owner
    <2> QED BY <2>1, <2>3, Zenon
  <1> QED BY <1>2, <1>4, <1>5, <1>7, <1>8, Zenon DEF ViewOK

\* A step that the service does not see, except for a store to the word.
Unseen ==
  /\ word' \in [Keys -> Values] /\ Waiters' = Waiters
  /\ \A t \in Waiters : /\ pc'[t] = "continue" <=> pc[t] = "continue"
                        /\ wr'[t] = wr[t] /\ args'[t] = args[t]
                        /\ ull'[mine'[t]].owner = ull[mine[t]].owner

LEMMA UnseenStep ==
  ASSUME ViewOK, ViewOK', Unseen
  PROVE  Service!store
  <1>1. \A t \in Threads : Stand(t)' = Stand(t)
    BY Zenon DEF Unseen, Stand
  <1>2. KState' = KState
    BY <1>1, Zenon DEF ViewOK
  <1>3. Expect' = Expect
    BY Zenon DEF ViewOK, Unseen
  <1>4. Owner' = Owner /\ Opcode' = Opcode
    BY DEF ViewOK, Unseen
  <1>5. word'[AnyKey] \in Values
    BY TableAssumption, Zenon DEF Unseen
  <1> QED BY <1>2, <1>3, <1>4, <1>5, Zenon DEF Service!store, Service!ulockVars
\* The other threads stay where they are, and t does not wait on AnyKey.
Alone(t) ==
  /\ word' \in [Keys -> Values] /\ t \notin Waiters /\ t \notin Waiters'
  /\ \A x \in Threads \ {t} :
       /\ pc'[x] = pc[x] /\ wr'[x] = wr[x] /\ args'[x] = args[x] /\ mine'[x] = mine[x]
       /\ x \in Waiters => ull'[mine[x]].owner = ull[mine[x]].owner

LEMMA AloneUnseen ==
  ASSUME NEW t \in Threads, Alone(t)
  PROVE  Unseen
  <1>1. Waiters' = Waiters
    BY ZenonT(30) DEF Alone, Waiters
  <1>2. \A x \in Waiters : x \in Threads \ {t}
    BY Zenon DEF Alone, Waiters
  <1> QED BY <1>1, <1>2, Zenon DEF Alone, Unseen

\* Allocation, lookup and removal are not seen.
LEMMA LookupUnseen ==
  ASSUME IInv, IInv', NEW t \in Threads,
         \/ ull_alloc(t) \/ ulock_wake(t) \/ ull_bucket_lock(t) \/ ull_get_pass(t)
         \/ ull_get_found(t) \/ ull_get_insert(t) \/ ull_get_none(t)
         \/ remqueue(t) \/ ull_free(t)
  PROVE  Alone(t)
  <1> USE DEF IInv
  <1>1. /\ ulb_head \subseteq live /\ ulb_head \subseteq Ulls
        /\ \A x \in Threads : pc[x] \in Busy => mine[x] \in ulb_head
    BY Zenon DEF TableInv, UseInv, TypeOK, CallInv
  <1>2. word' \in [Keys -> Values]
    BY ZenonT(60) DEF TypeOK
  <1>3. pc[t] \notin Busy /\ pc'[t] \notin Busy
    BY DEF Busy, ull_alloc, ulock_wake, ull_bucket_lock, ull_get_pass, ull_get_found,
           ull_get_insert, ull_get_none, remqueue, ull_free, Return, At, TypeOK
  <1>4. t \notin Waiters /\ t \notin Waiters'
    BY <1>3, ZenonT(60) DEF Waiters
  <1>5. \A x \in Threads \ {t} :
          pc'[x] = pc[x] /\ wr'[x] = wr[x] /\ args'[x] = args[x] /\ mine'[x] = mine[x]
    BY DEF ull_alloc, ulock_wake, ull_bucket_lock, ull_get_pass, ull_get_found,
           ull_get_insert, ull_get_none, remqueue, ull_free, Return, At, TypeOK
  <1>6. ASSUME NEW u \in ulb_head PROVE ull'[u].owner = ull[u].owner
    <2>1. CASE ull' = ull
      BY <2>1, Zenon
    <2>2. CASE ull_alloc(t)
      BY <1>1, <2>2, ZenonT(60) DEF ull_alloc, TypeOK
    <2>3. CASE ull_get_found(t)
      <3>1. PICK v \in ulb_head : ull' = [ull EXCEPT ![v] = ull_refcount_inc(v)]
        BY <2>3, Zenon DEF ull_get_found
      <3>2. ull_refcount_inc(v).owner = ull[v].owner
        BY <1>1 DEF ull_refcount_inc, TypeOK, UllRecords
      <3> QED BY <1>1, <3>1, <3>2, Zenon DEF TypeOK
    <2>4. CASE ull_get_insert(t)
      <3>1. mine[t] # u
        BY <2>4, ZenonT(60) DEF ull_get_insert, CallInv, WakeCalls
      <3> QED BY <1>1, <2>4, <3>1, Zenon DEF ull_get_insert, TypeOK
    <2>5. CASE ull_free(t)
      <3>1. mine[t] # u
        BY <2>5, Zenon DEF ull_free, CallInv
      <3> QED BY <1>1, <2>5, <3>1, Zenon DEF ull_free, TypeOK
    <2> QED BY <2>1, <2>2, <2>3, <2>4, <2>5, Zenon DEF ulock_wake, ull_bucket_lock, ull_get_pass,
               ull_get_none, remqueue, kernelVars
  <1> QED BY <1>1, <1>2, <1>4, <1>5, <1>6, Zenon DEF Alone, Waiters

\* A thread comes off the queue, or does not get on it: a cancel, if it waits
\* on AnyKey.
LEMMA AbortStep ==
  ASSUME IInv, IInv', ViewOK, ViewOK', NEW t \in Threads,
         waitq_assert_wait(t) \/ waitq_abort(t)
  PROVE  Service!store \/ Service!cancel(t)
  <1>1. /\ pc[t] \in {"assert_wait", "block"} /\ pc'[t] \in {"block", "continue"}
        /\ wr'[t] = wr[t] \/ wr'[t] \in {"THREAD_TIMED_OUT", "THREAD_INTERRUPTED"}
        /\ pc'[t] = "continue" => wr'[t] \in {"THREAD_TIMED_OUT", "THREAD_INTERRUPTED"}
        /\ \A x \in Threads \ {t} : pc'[x] = pc[x] /\ wr'[x] = wr[x]
        /\ UNCHANGED <<word, ull, args, mine>>
    BY DEF IInv, TypeOK, waitq_assert_wait, waitq_abort, At
  <1>2. word' \in [Keys -> Values]
    BY Zenon DEF IInv, TypeOK
  <1>3. Waiters' = Waiters
    BY <1>1, Zenon DEF Waiters, Busy
  <1>4. CASE t \notin Waiters
    <2>1. Alone(t)
      BY <1>1, <1>2, <1>3, <1>4, Zenon DEF Alone
    <2> QED BY <2>1, AloneUnseen, UnseenStep, Zenon
  <1>5. CASE t \in Waiters /\ pc'[t] = "block"
    <2>1. \A x \in Threads : Stand(x)' = Stand(x)
      BY <1>1, <1>3, <1>5, Zenon DEF Stand
    <2>2. KState' = KState
      BY <2>1, Zenon DEF ViewOK
    <2>3. Expect' = Expect
      BY <1>1, <1>3, Zenon DEF ViewOK
    <2>4. Owner' = Owner /\ Opcode' = Opcode
      BY <1>1, <1>3, <1>5, Zenon DEF ViewOK
    <2>5. word'[AnyKey] \in Values
      BY <1>2, TableAssumption, Zenon
    <2> QED BY <2>2, <2>3, <2>4, <2>5, Zenon DEF Service!store, Service!ulockVars
  <1>6. CASE t \in Waiters /\ pc'[t] = "continue"
    <2>1. /\ Stand(t) = "THREAD_WAITING" /\ Stand(t)' = wr'[t]
          /\ \A x \in Threads \ {t} : Stand(x)' = Stand(x)
      BY <1>1, <1>3, <1>6, Zenon DEF Stand
    <2>2. KState' = [KState EXCEPT ![t] = wr'[t]] /\ KState[t] = "THREAD_WAITING"
      BY <2>1, Zenon DEF ViewOK
    <2>3. Expect' = Expect
      BY <1>1, <1>3, Zenon DEF ViewOK
    <2>4. Owner' = Owner /\ Opcode' = Opcode
      BY <1>1, <1>3, <1>6, Zenon DEF ViewOK
    <2>5. Service!waitq_abort(t, wr'[t])
      BY <1>1, <1>6, <2>2, <2>4, Zenon DEF Service!waitq_abort
    <2>6. wr'[t] \in Service!WaitResults
      BY <1>1, <1>6, Zenon DEF Service!WaitResults
    <2> QED BY <1>1, <2>3, <2>4, <2>5, <2>6, Zenon DEF Service!cancel
  <1> QED BY <1>1, <1>4, <1>5, <1>6, Zenon

\* A thread leaves ulock_wait: a return, if it waited on AnyKey.
LEMMA LeaveStep ==
  ASSUME IInv, IInv', ViewOK, ViewOK', NEW t \in Threads, pc[t] \in {"locked", "continue"},
         args[t] \in WaitCalls,
         \/ \E p \in ClientOps \cup {"none"} : LastLeaves(t, mine[t], p)
         \/ \E m \in Nat \ {0} : OneLeaves(t, mine[t], m)
  PROVE  Service!store \/ Service!return(t)
  <1> USE DEF IInv
  <1>1. /\ pc'[t] \notin Busy
        /\ \A x \in Threads \ {t} :
             pc'[x] = pc[x] /\ wr'[x] = wr[x] /\ args'[x] = args[x] /\ mine'[x] = mine[x]
        /\ UNCHANGED word
    BY DEF LastLeaves, OneLeaves, Return, TypeOK, Busy
  <1>2. mine[t] \in Ulls /\ ulb_head \subseteq Ulls
    BY Zenon DEF TypeOK, CallInv, Busy
  <1>3. ASSUME NEW x \in Threads \ {t}, pc[x] \in Busy
        PROVE  ull'[mine[x]].owner = ull[mine[x]].owner
    <2>1. mine[x] \in Ulls
      BY <1>2, <1>3, Zenon DEF CallInv
    <2>2. CASE \E p \in ClientOps \cup {"none"} : LastLeaves(t, mine[t], p)
      BY <1>2, <1>3, <2>1, <2>2, ZenonT(60) DEF LastLeaves, TypeOK
    <2>3. CASE \E m \in Nat \ {0} : OneLeaves(t, mine[t], m)
      BY <1>2, <1>3, <2>1, <2>3 DEF OneLeaves, TypeOK, Fields
    <2> QED BY <2>2, <2>3, Zenon
  <1>4. word' \in [Keys -> Values]
    BY Zenon DEF TypeOK
  <1>5. CASE t \notin Waiters
    <2>1. t \notin Waiters'
      BY <1>1, Zenon DEF Waiters
    <2>2. Alone(t)
      BY <1>1, <1>3, <1>4, <1>5, <2>1, Zenon DEF Alone, Waiters
    <2> QED BY <2>2, AloneUnseen, UnseenStep, Zenon
  <1>6. CASE t \in Waiters
    <2>1. Waiters' = Waiters \ {t}
      BY <1>1, Zenon DEF Waiters
    <2>2. pc[t] = "continue" /\ wr[t] \in WaitResults
      BY <1>6, Zenon DEF Waiters, Busy, ScanInv
    <2>3. /\ Stand(t) = wr[t] /\ Stand(t)' = "USER"
          /\ \A x \in Threads \ {t} : Stand(x)' = Stand(x)
      BY <1>1, <1>6, <2>1, <2>2, Zenon DEF Stand
    <2>4. KState' = [KState EXCEPT ![t] = "USER"] /\ KState[t] = wr[t]
      BY <2>3, Zenon DEF ViewOK
    <2>5. Service!ull_waiters = Waiters
      <3>1. \A x \in Threads : Stand(x) # "USER" <=> x \in Waiters
        BY Zenon DEF ViewOK, Stand
      <3> QED BY <3>1, Zenon DEF ViewOK, Service!ull_waiters, Waiters
    <2>6. Service!ull_more_waiters(t) <=> Waiters' # {}
      BY <2>1, <2>5, Zenon DEF Service!ull_more_waiters
    <2>7. /\ Owner' = IF Waiters' # {} THEN Owner ELSE NoThread
          /\ Opcode' = IF Waiters' # {} THEN Opcode ELSE "none"
      <3>1. CASE Waiters' = {}
        BY <3>1, Zenon DEF ViewOK
      <3>2. CASE Waiters' # {}
        <4>1. PICK x \in Waiters : x \in Waiters' /\ x # t /\ x \in Threads /\ pc[x] \in Busy
          BY <2>1, <3>2, Zenon DEF Waiters
        <4>2. Owner' = ull'[mine'[x]].owner /\ Opcode' = args'[x].op
          BY <4>1, Zenon DEF ViewOK
        <4>3. Owner = ull[mine[x]].owner /\ Opcode = args[x].op
          BY <4>1, Zenon DEF ViewOK
        <4> QED BY <1>1, <1>3, <3>2, <4>1, <4>2, <4>3, Zenon
      <3> QED BY <3>1, <3>2, Zenon
    <2>8. Expect' = [Expect EXCEPT ![t] = NoThread]
      BY <1>1, <2>1, Zenon DEF ViewOK
    <2>9. Service!ulock_wait_continue(t)
      BY <2>2, <2>4, <2>6, <2>7, Zenon DEF Service!ulock_wait_continue, Service!WaitResults, WaitResults
    <2> QED BY <1>1, <2>6, <2>7, <2>8, <2>9, Zenon DEF Service!return
  <1> QED BY <1>5, <1>6, ZenonT(60)
\* A thread goes on to wait: a wait of the service, if it is on AnyKey.
LEMMA WaitStep ==
  ASSUME IInv, IInv', ViewOK, ViewOK', NEW t \in Threads, pc[t] = "locked",
         args[t] \in WaitCalls, NEW o \in Threads \cup {NoThread}, Blocks(t, mine[t], o)
  PROVE  \/ Service!store
         \/ \E op \in Service!Opcodes, v \in Values : Service!wait(t, op, v)
  <1> USE DEF IInv
  <1>1. /\ pc'[t] = "assert_wait" /\ \A x \in Threads \ {t} : pc'[x] = pc[x]
        /\ UNCHANGED <<word, args, mine, wr>>
    BY ZenonT(60) DEF Blocks, TypeOK
  <1>2. mine[t] \in Ulls /\ ulb_head \subseteq Ulls /\ mine[t] \in ulb_head
        /\ ull[mine[t]].key = args[t].key
    BY Zenon DEF TypeOK, CallInv
  <1>3. /\ args[t].key \in Keys /\ args[t].op \in ClientOps /\ args[t].value \in Values
    BY Zenon DEF WaitCalls
  <1>4. /\ ull'[mine[t]].owner = o
        /\ \A v \in Ulls \ {mine[t]} : ull'[v] = ull[v]
    BY <1>2, ZenonT(60) DEF Blocks, Fields, TypeOK
  <1>5. ull'[mine[t]].opcode = args[t].op
    BY <1>2, Zenon DEF Blocks, Fields, TypeOK
  <1>6. t \notin Waiters
    BY Zenon DEF Waiters, Busy
  <1>7. CASE args[t].key # AnyKey
    <2>1. t \notin Waiters'
      BY <1>1, <1>7, Zenon DEF Waiters
    <2>2. ASSUME NEW x \in Waiters PROVE mine[x] \in Ulls /\ mine[x] # mine[t]
      BY <1>2, <1>7, ZenonT(60) DEF Waiters, CallInv
    <2>3. Alone(t)
      BY <1>1, <1>4, <1>6, <2>1, <2>2, Zenon DEF Alone, TypeOK
    <2> QED BY <2>3, AloneUnseen, UnseenStep, Zenon
  <1>8. CASE args[t].key = AnyKey
    <2>1. Waiters' = Waiters \cup {t}
      BY <1>1, <1>8, Zenon DEF Waiters, Busy
    <2>2. /\ Stand(t) = "USER" /\ Stand(t)' = "THREAD_WAITING"
          /\ \A x \in Threads \ {t} : Stand(x)' = Stand(x)
      BY <1>1, <1>6, <2>1, Zenon DEF Stand
    <2>3. KState' = [KState EXCEPT ![t] = "THREAD_WAITING"] /\ KState[t] = "USER"
      BY <2>2, Zenon DEF ViewOK
    <2>4. Expect' = [Expect EXCEPT ![t] = args[t].value]
      BY <1>1, <2>1, Zenon DEF ViewOK
    <2>5. Owner' = o /\ Opcode' = args[t].op
      BY <1>1, <1>4, <2>1, Zenon DEF ViewOK
    <2>6. Service!ull_waiters = Waiters
      <3>1. \A x \in Threads : Stand(x) # "USER" <=> x \in Waiters
        BY Zenon DEF ViewOK, Stand
      <3> QED BY <3>1, Zenon DEF ViewOK, Service!ull_waiters, Waiters
    <2>7. Waiters = {} \/ Opcode = args[t].op
      <3> SUFFICES ASSUME NEW x \in Waiters PROVE Opcode = args[t].op
        BY Zenon
      <3>1. x \in Threads /\ pc[x] \in Busy /\ args[x].key = AnyKey
        BY Zenon DEF Waiters
      <3>2. mine[x] \in ulb_head /\ ull[mine[x]].key = AnyKey
        BY <3>1, Zenon DEF CallInv
      <3>3. mine[x] = mine[t]
        BY <1>2, <1>8, <3>2, TableAssumption, Zenon DEF TableInv, KeyInv
      <3>4. args[x].op = args[t].op
        BY <3>1, <3>3, Zenon DEF Blocks, BusyOn
      <3> QED BY <3>4, Zenon DEF ViewOK
    <2>8. word[AnyKey] = args[t].value
      BY <1>8, Zenon DEF Blocks
    <2>9. CASE args[t].op = "UL_UNFAIR_LOCK"
      <3>1. /\ o = Service!Resolved(word[AnyKey])
            /\ ~Service!OwnerDead(t, word[AnyKey])
        BY <2>8, <2>9, Zenon DEF Blocks, set_owner, ulock_resolve_owner, ResolveFails,
                          Service!Resolved, Service!OwnerDead
      <3>2. Service!ulock_wait_block(t, Service!Resolved(word[AnyKey]))
        BY <2>3, <2>5, <3>1, Zenon DEF Service!ulock_wait_block
      <3>3. Service!wait(t, args[t].op, args[t].value)
        BY <1>1, <2>4, <2>5, <2>6, <2>7, <2>8, <2>9, <3>1, <3>2, Zenon DEF Service!wait
      <3> QED BY <1>3, <2>9, <3>3, Zenon DEF Service!Opcodes
    <2>10. CASE args[t].op = "UL_COMPARE_AND_WAIT"
      <3>1. o = NoThread
        <4>1. ulb_head' = ulb_head /\ mine[t] \in ulb_head
          BY <1>2, Zenon DEF Blocks
        <4>2. set_owner(ull'[mine[t]].opcode) \/ ull'[mine[t]].owner = NoThread
          BY <4>1, Zenon DEF TableInv, OpInv
        <4> QED BY <1>4, <1>5, <2>10, <4>2, Zenon DEF set_owner
      <3>2. Service!ulock_wait_block(t, NoThread)
        BY <2>3, <2>5, <3>1, Zenon DEF Service!ulock_wait_block
      <3>3. Service!wait(t, args[t].op, args[t].value)
        BY <1>1, <2>4, <2>5, <2>6, <2>7, <2>8, <2>10, <3>2, Zenon DEF Service!wait
      <3> QED BY <1>3, <2>10, <3>3, Zenon DEF Service!Opcodes
    <2> QED BY <1>3, <2>9, <2>10, TableAssumption, Zenon
  <1> QED BY <1>7, <1>8, Zenon

\* A wake of the object of AnyKey is a wake of the service: the lock on the
\* object keeps out the threads that have compared and are not on the queue yet.
LEMMA WakeStepService ==
  ASSUME IInv, IInv', ViewOK, ViewOK', FlagsInv, NEW t \in Threads, pc[t] = "locked",
         args[t] \in WakeCalls, NEW W \in SUBSET Threads,
         NEW o \in Threads \cup {NoThread}, WakeLeaves(t, mine[t], W, o)
  PROVE  Service!store \/ Service!wake(t)
  <1> USE DEF IInv
  <1>1. PICK u : u = mine[t] /\ u \in Ulls /\ u \in ulb_head /\ ull[u].key = args[t].key
                 /\ ull_lock[u] = t
    <2>1. mine[t] \in ulb_head /\ ull[mine[t]].key = args[t].key
      BY Zenon DEF CallInv, Busy
    <2>2. mine[t] \in Ulls
      BY <2>1, Zenon DEF TypeOK
    <2> QED BY <2>1, <2>2 DEF LockInv
  <1>2. Woken(u, W, o) /\ W \subseteq ts_waitq[u]
    BY <1>1, ZenonT(60) DEF WakeLeaves, FlagsInv
  <1>3. /\ ull'[u].owner = o /\ \A v \in Ulls \ {u} : ull'[v] = ull[v]
        /\ pc'[t] = "user"
        /\ \A x \in Threads \ {t} :
             /\ pc'[x] = IF x \in W THEN "continue" ELSE pc[x]
             /\ wr'[x] = IF x \in W THEN "THREAD_AWAKENED" ELSE wr[x]
             /\ args'[x] = args[x] /\ mine'[x] = mine[x]
        /\ UNCHANGED word
    BY <1>1 DEF WakeLeaves, Fields, TypeOK
  <1>4. \A x \in Threads : x \in ts_waitq[u] <=> mine[x] = u /\ pc[x] = "block"
    BY <1>1, Zenon DEF LockInv
  <1>5. \A x \in Threads : pc[x] \in Busy =>
          mine[x] \in ulb_head /\ mine[x] \in Ulls /\ ull[mine[x]].key = args[x].key
    BY Zenon DEF CallInv, TypeOK
  <1>6. Waiters' = Waiters /\ t \notin Waiters
    BY <1>2, <1>3, <1>4, Zenon DEF Waiters, Busy
  <1>7. word' \in [Keys -> Values]
    BY Zenon DEF TypeOK
  <1>8. CASE args[t].key # AnyKey
    <2>1. \A x \in Waiters : x \in Threads /\ x # t /\ x \notin W /\ mine[x] # u /\ mine[x] \in Ulls
      BY <1>1, <1>2, <1>4, <1>5, <1>6, <1>8, Zenon DEF Waiters
    <2>2. Unseen
      BY <1>3, <1>6, <1>7, <2>1, ZenonT(60) DEF Unseen
    <2> QED BY <2>2, UnseenStep, Zenon
  <1>9. CASE args[t].key = AnyKey
    <2>1. \A x \in Waiters : x \in Threads \ {t} /\ mine[x] = u
      <3>1. AnyKey # InvalidKey
        BY TableAssumption, Zenon
      <3>2. SUFFICES ASSUME NEW x \in Waiters PROVE x \in Threads \ {t} /\ mine[x] = u
        BY Zenon
      <3>3. x \in Threads /\ x # t /\ pc[x] \in Busy /\ args[x].key = AnyKey
        BY <1>6, Zenon DEF Waiters
      <3>4. /\ mine[x] \in ulb_head /\ mine[x] \in Ulls /\ ull[mine[x]].key = AnyKey
            /\ ull[u].key = AnyKey
        BY <1>1, <1>5, <1>9, <3>3, Zenon
      <3>5. mine[x] = u
        BY <1>1, <3>1, <3>4, Zenon DEF TableInv, KeyInv
      <3> QED BY <3>3, <3>5, Zenon
    <2>2. \A x \in W : x \in Waiters /\ pc[x] = "block"
      BY <1>1, <1>2, <1>4, <1>5, <1>9, Zenon DEF Waiters, Busy
    <2>3. \A x \in Threads : Stand(x) = "THREAD_WAITING" <=> x \in ts_waitq[u]
      <3>1. ASSUME NEW x \in Threads, Stand(x) = "THREAD_WAITING" PROVE x \in ts_waitq[u]
        <4>1. x \in Waiters /\ (pc[x] = "continue" => wr[x] = "THREAD_WAITING")
          BY <3>1, Zenon DEF Stand
        <4>2. pc[x] # "continue"
          BY <4>1, ZenonT(60) DEF ScanInv, WaitResults
        <4>3. pc[x] # "assert_wait"
          BY <1>1, <2>1, <4>1 DEF LockInv
        <4>4. pc[x] = "block"
          BY <4>1, <4>2, <4>3, Zenon DEF Waiters, Busy
        <4> QED BY <1>4, <2>1, <4>1, <4>4, Zenon
      <3>2. ASSUME NEW x \in Threads, x \in ts_waitq[u] PROVE Stand(x) = "THREAD_WAITING"
        <4>1. mine[x] = u /\ pc[x] = "block"
          BY <1>4, <3>2, Zenon
        <4>2. x \in Waiters
          BY <1>1, <1>5, <1>9, <4>1, Zenon DEF Waiters, Busy
        <4> QED BY <4>1, <4>2, Zenon DEF Stand
      <3> QED BY <3>1, <3>2, Zenon
    <2>4. Service!waitq = ts_waitq[u]
      BY <1>1, <2>3, Zenon DEF Service!waitq, ViewOK, TypeOK
    <2>5. Service!ull_waiters = Waiters
      <3>1. \A x \in Threads : Stand(x) # "USER" <=> x \in Waiters
        BY Zenon DEF ViewOK, Stand
      <3> QED BY <3>1, Zenon DEF ViewOK, Service!ull_waiters, Waiters
    <2>6. \A x \in Threads : Stand(x)' = IF x \in W THEN "THREAD_AWAKENED" ELSE Stand(x)
      BY <1>3, <1>6, <2>2, Zenon DEF Stand
    <2>7. KState' = [x \in Threads |-> IF x \in W THEN "THREAD_AWAKENED" ELSE KState[x]]
      BY <2>6, Zenon DEF ViewOK
    <2>8. Expect' = Expect
      BY <1>3, <1>6, Zenon DEF ViewOK
    <2>9. CASE Waiters = {}
      <3>1. Unseen
        BY <1>6, <1>7, <2>9, Zenon DEF Unseen
      <3> QED BY <3>1, UnseenStep, Zenon
    <2>10. CASE W = {} /\ o = ull[u].owner
      <3>1. \A x \in Waiters : ull'[mine'[x]].owner = ull[mine[x]].owner
        BY <1>3, <2>1, <2>10, Zenon
      <3>2. Unseen
        BY <1>3, <1>6, <1>7, <2>1, <2>10, <3>1, Zenon DEF Unseen
      <3> QED BY <3>2, UnseenStep, Zenon
    <2>11. CASE Waiters # {}
      <3>1. PICK y \in Waiters : y \in Threads \ {t} /\ mine[y] = u
        BY <2>1, <2>11, Zenon
      <3>2. Owner = ull[u].owner /\ Owner' = o /\ Opcode' = Opcode /\ Opcode = ull[u].opcode
        <4>1. Owner = ull[u].owner /\ Opcode = args[y].op
          BY <3>1, Zenon DEF ViewOK
        <4>2. Owner' = ull'[u].owner /\ Opcode' = args[y].op
          BY <1>3, <1>6, <3>1, Zenon DEF ViewOK
        <4>3. ull[u].opcode = args[y].op
          BY <3>1, Zenon DEF Waiters, TableInv, OpInv
        <4> QED BY <1>3, <4>1, <4>2, <4>3, Zenon
      <3>3. ASSUME NEW x \in ts_waitq[u], W = {x}
            PROVE  KState' = [KState EXCEPT ![x] = "THREAD_AWAKENED"]
        BY <2>7, <3>3, Zenon DEF ViewOK
      <3>4. CASE /\ ull[u].opcode = "UL_UNFAIR_LOCK"
                 /\ W = ts_waitq[u] /\ o = NoThread
        <4>1. Service!ulock_wake_owner_all(Owner)
          BY <2>4, <2>5, <2>7, <2>11, <3>2, <3>4, Zenon DEF Service!ulock_wake_owner_all
        <4> QED BY <1>3, <2>8, <3>2, <3>4, <4>1, Zenon DEF Service!wake
      <3>5. CASE /\ ull[u].opcode = "UL_UNFAIR_LOCK"
                 /\ \E x \in ts_waitq[u] : W = {x} /\ o = x
        <4>1. Service!ulock_wake_owner(Owner)
          BY <2>4, <2>5, <2>11, <3>2, <3>3, <3>5, Zenon DEF Service!ulock_wake_owner
        <4> QED BY <1>3, <2>8, <3>2, <3>5, <4>1, Zenon DEF Service!wake
      <3>6. CASE /\ ull[u].opcode = "UL_COMPARE_AND_WAIT" /\ o = ull[u].owner
                 /\ W = ts_waitq[u]
        <4>1. Service!ulock_wake_all
          BY <2>4, <2>7, <3>2, <3>6, Zenon DEF Service!ulock_wake_all
        <4> QED BY <1>3, <2>8, <3>2, <3>6, <4>1, Zenon DEF Service!wake
      <3>7. CASE /\ ull[u].opcode = "UL_COMPARE_AND_WAIT" /\ o = ull[u].owner
                 /\ \E x \in ts_waitq[u] : W = {x}
        <4>1. Service!ulock_wake_one
          BY <2>4, <3>2, <3>3, <3>7, Zenon DEF Service!ulock_wake_one
        <4> QED BY <1>3, <2>8, <3>2, <3>7, <4>1, Zenon DEF Service!wake
      <3> QED BY <1>2, <2>10, <3>4, <3>5, <3>6, <3>7, Zenon DEF Woken
    <2> QED BY <2>9, <2>11, Zenon
  <1> QED BY <1>8, <1>9, ZenonT(60)

\* Every step of the table is a step of the service, or one that it does not see.
LEMMA ServiceStep ==
  ASSUME IInv, IInv', ViewOK, ViewOK', FlagsInv, StepEffect
  PROVE  Service!ServiceNext
  <1>1. CASE UNCHANGED <<kernelVars, threadVars>> /\ word' \in [Keys -> Values]
    <2>1. Unseen
      BY <1>1, Zenon DEF Unseen, kernelVars, threadVars, Waiters
    <2> QED BY <2>1, UnseenStep, Zenon DEF Service!ServiceNext
  <1>2. ASSUME NEW t \in Threads,
               \/ ull_alloc(t) \/ ulock_wake(t) \/ ull_bucket_lock(t) \/ ull_get_pass(t)
               \/ ull_get_found(t) \/ ull_get_insert(t) \/ ull_get_none(t)
               \/ remqueue(t) \/ ull_free(t)
        PROVE  Service!ServiceNext
    BY <1>2, LookupUnseen, AloneUnseen, UnseenStep, Zenon DEF Service!ServiceNext
  <1>3. ASSUME NEW t \in Threads, waitq_assert_wait(t) \/ waitq_abort(t)
        PROVE  Service!ServiceNext
    BY <1>3, AbortStep, Zenon DEF Service!ServiceNext
  <1>4. ASSUME NEW t \in Threads, pc[t] \in {"locked", "continue"}, args[t] \in WaitCalls,
               \/ \E p \in ClientOps \cup {"none"} : LastLeaves(t, mine[t], p)
               \/ \E m \in Nat \ {0} : OneLeaves(t, mine[t], m)
        PROVE  Service!ServiceNext
    BY <1>4, LeaveStep, Zenon DEF Service!ServiceNext
  <1>5. ASSUME NEW t \in Threads, pc[t] = "locked", args[t] \in WaitCalls,
               NEW o \in Threads \cup {NoThread}, Blocks(t, mine[t], o)
        PROVE  Service!ServiceNext
    BY <1>5, WaitStep, Zenon DEF Service!ServiceNext
  <1>6. ASSUME NEW t \in Threads, pc[t] = "locked", args[t] \in WakeCalls,
               NEW W \in SUBSET Threads,
               NEW o \in Threads \cup {NoThread}, WakeLeaves(t, mine[t], W, o)
        PROVE  Service!ServiceNext
    BY <1>6, WakeStepService, Zenon DEF Service!ServiceNext
  <1> QED BY <1>1, <1>2, <1>3, <1>4, <1>5, <1>6, Zenon DEF StepEffect

-----------------------------------------------------------------------------
INSTANCE FiniteSetTheorems

\* Threads is finite, and so are its subsets.
LEMMA ThreadsCounted == ThreadsCount
  <1> SUFFICES ASSUME NEW S \in SUBSET Threads, NEW x \in Threads
               PROVE  /\ Cardinality(S) \in Nat /\ (Cardinality(S) = 0 <=> S = {})
                      /\ Cardinality({x}) = 1
                      /\ x \in S => Cardinality(S \ {x}) = Cardinality(S) - 1
                      /\ x \notin S => Cardinality(S \cup {x}) = Cardinality(S) + 1
    BY Zenon DEF ThreadsCount
  <1>1. IsFiniteSet(S)
    BY TableAssumption, FS_Subset, Zenon
  <1>2. Cardinality(S) \in Nat /\ (Cardinality(S) = 0 <=> S = {})
    BY <1>1, FS_CardinalityType, FS_EmptySet, Zenon
  <1>3. Cardinality({x}) = 1
    BY FS_Singleton, Zenon
  <1>4. x \in S => Cardinality(S \ {x}) = Cardinality(S) - 1
    BY <1>1, FS_RemoveElement, Zenon
  <1>5. x \notin S => Cardinality(S \cup {x}) = Cardinality(S) + 1
    BY <1>1, FS_AddElement, Zenon
  <1> QED BY <1>2, <1>3, <1>4, <1>5, Zenon

\* In every state of the table the threads, the locks, the queues, the keys and
\* the counts of the objects agree, for any number of threads and objects.
THEOREM TableInvariant == Spec => []IInv
  <1>1. IInv /\ [Next]_vars => IInv'
    BY ThreadsCounted, StepInv, Zenon
  <1> QED BY <1>1, InitInv, PTL DEF Spec

\* The variables of sys_ulock.c keep their types; in particular ull_refcount and
\* ull_nwaiters never go below zero.
THEOREM TableTypes == Spec => []TypeOK
  <1>1. IInv => TypeOK
    BY Zenon DEF IInv
  <1> QED BY <1>1, TableInvariant, PTL

\* ull_get, ull_put and ull_free never leave a thread, a lock or the bucket
\* with an object that is back in ull_zone.
THEOREM NeverUsedAfterFree == Spec => []NoUseAfterFree
  <1>1. IInv => NoUseAfterFree
    BY Consequences, Zenon
  <1> QED BY <1>1, TableInvariant, PTL

\* ull_nwaiters and ull_refcount count the threads in ulock_wait exactly, and
\* an object without a key has one thread that unlinks it.
THEOREM AlwaysCountsExact == Spec => []CountsExact
  <1>1. IInv => CountsExact
    BY ThreadsCounted, Consequences, Zenon
  <1> QED BY <1>1, TableInvariant, PTL

\* The assertions of ulock_wake and ull_free hold.
THEOREM AssertionsHold == Spec => []KernelAssertions
  <1>1. IInv => KernelAssertions
    BY Consequences, Zenon
  <1> QED BY <1>1, TableInvariant, PTL

\* For any number of threads, objects and keys, and for each key, the table with
\* its locks, counts and lookups implements the service in which a wait compares
\* the word and joins the queue at one instant, and a wake takes threads off it
\* at another.  A wake that takes nobody off is not visible in the service.
THEOREM TableImplementsService == Spec => ImplementsService
  <1>1. Init => Service!ServiceInit
    BY TableAssumption, Zenon DEF Init, Service!ServiceInit, Service!UlockInit, KState, Expect,
       Owner, Opcode, OfKey, NoCall
  <1>2. Init => FlagsInv
    BY DEF Init, FlagsInv, NoCall, WakeCalls
  <1>3. IInv /\ FlagsInv /\ [Next]_vars => FlagsInv'
    BY ThreadsCounted, StepCases, FlagsStep, Zenon DEF IInv
  <1>4. IInv /\ IInv' /\ ViewOK /\ ViewOK' /\ FlagsInv /\ [Next]_vars
          => [Service!ServiceNext]_(Service!serviceVars)
    BY ThreadsCounted, StepCases, ServiceStep, Zenon
  <1>5. Spec => [](IInv /\ FlagsInv)
    BY <1>2, <1>3, TableInvariant, PTL DEF Spec
  <1> QED BY <1>1, <1>4, <1>5, View, PTL DEF Spec, ImplementsService, Service!ServiceSpec
=============================================================================
