-------------------------- MODULE UlockTableProofs --------------------------
(***************************************************************************)
(* The inductive invariant of the ull_t table, for any number of threads,  *)
(* objects and keys: what it implies, what the critical sections leave,    *)
(* and that every step keeps its parts on the calls and the lookup.        *)
(* Module UlockTableServiceProofs has its parts on the locks and on the    *)
(* objects in the table, and the theorems.                                 *)
(***************************************************************************)
EXTENDS UlockTable, TLAPS

\* Sets of threads can be counted; TableAssumption says that Threads is finite.
ThreadsCount ==
  \A S \in SUBSET Threads, x \in Threads :
    /\ Cardinality(S) \in Nat /\ (Cardinality(S) = 0 <=> S = {})
    /\ Cardinality({x}) = 1
    /\ x \in S => Cardinality(S \ {x}) = Cardinality(S) - 1
    /\ x \notin S => Cardinality(S \cup {x}) = Cardinality(S) + 1

\* A thread that waits is at one of these labels.
Busy == {"assert_wait", "block", "continue"}

BusyOn(u) == {t \in Threads : mine[t] = u /\ pc[t] \in Busy}

\* What the position of a thread says of its arguments and of its object.
CallInv ==
  \A t \in Threads :
    /\ pc[t] = "user" => args[t] = NoCall /\ mine[t] = NoUll
    /\ pc[t] \in {"ull_get", "scan"} =>
         \/ /\ args[t] \in WaitCalls /\ mine[t] \in live \ ulb_head
            /\ ull[mine[t]] = Fresh(args[t].key)
         \/ args[t] \in WakeCalls /\ mine[t] = NoUll
    /\ pc[t] \in Busy \cup {"locked"} =>
         /\ mine[t] \in ulb_head /\ ull[mine[t]].key = args[t].key
         /\ args[t] \in IF pc[t] = "locked" THEN WaitCalls \cup WakeCalls ELSE WaitCalls
    /\ pc[t] \in {"remqueue", "ull_free"} =>
         /\ mine[t] \in live
         /\ mine[t] \in ulb_head <=> pc[t] = "remqueue"
         /\ ull[mine[t]].key = InvalidKey /\ ull[mine[t]].refcount = 0
         /\ ull[mine[t]].owner = NoThread

\* A lookup holds the bucket lock, and what it has passed does not match.
ScanInv ==
  \A t \in Threads :
    /\ ulb_lock = t <=> pc[t] = "scan"
    /\ pc[t] = "scan" => /\ seen[t] \subseteq ulb_head
                         /\ \A u \in seen[t] : ull[u].key # args[t].key
    /\ pc[t] # "scan" => seen[t] = {}
    /\ pc[t] = "continue" => wr[t] \in WaitResults

\* An object that is not in the table yet, and one that is being taken out of
\* it, is known to one thread only.
SoleInv ==
  \A t, x \in Threads :
    /\ pc[t] \in {"ull_get", "scan", "remqueue", "ull_free"}
    /\ mine[t] # NoUll /\ mine[x] = mine[t]
    => x = t

\* Who holds ull_lock, and who is on the wait queue.
LockInv ==
  \A u \in Ulls, t \in Threads :
    /\ ull_lock[u] = t <=> mine[t] = u /\ pc[t] \in {"locked", "assert_wait"}
    /\ t \in ts_waitq[u] <=> mine[t] = u /\ pc[t] = "block"

\* A linked object is allocated, and has a thread that waits or is going to,
\* or one that takes it out of the table.
UseInv ==
  \A u \in ulb_head :
    /\ u \in live
    /\ \E t \in Threads :
         /\ mine[t] = u
         /\ IF ull[u].key = InvalidKey THEN pc[t] = "remqueue"
            ELSE /\ pc[t] \in Busy \cup {"locked"}
                 /\ args[t] \in WaitCalls

\* No two linked objects have the same key.
KeyInv ==
  \A u, v \in ulb_head :
    ull[u].key = ull[v].key /\ ull[u].key # InvalidKey => u = v

\* The waiters agree on the operation, which only the first of them sets, and
\* an operation without an owner leaves none.
OpInv ==
  /\ \A u \in ulb_head :
       /\ set_owner(ull[u].opcode) \/ ull[u].owner = NoThread
       /\ \/ ull[u].opcode = "none" \/ ull[u].key = InvalidKey
          \/ \E t \in Threads : mine[t] = u /\ pc[t] \in Busy
  /\ \A t \in Threads :
       pc[t] \in Busy => ull[mine[t]].opcode = args[t].op

\* ull_refcount of an object in use counts the table, the waiters and a thread
\* that has the object locked and does not wait yet.
RefInv ==
  \A u \in ulb_head :
    ull[u].key # InvalidKey =>
      ull[u].refcount = ull[u].nwaiters
        + (IF ull_lock[u] \in Threads /\ pc[ull_lock[u]] = "locked" THEN 2 ELSE 1)

\* ull_nwaiters of an object in use counts the threads that wait on it.
WaitersInv ==
  \A u \in ulb_head :
    ull[u].key # InvalidKey => ull[u].nwaiters = Cardinality(BusyOn(u))

TableInv == UseInv /\ KeyInv /\ OpInv /\ RefInv /\ WaitersInv

IInv ==
  TypeOK /\ CallInv /\ ScanInv /\ SoleInv /\ LockInv /\ TableInv

\* A ull_t, field by field.
Fields(k, n, m, o, p) ==
  [key |-> k, refcount |-> n, nwaiters |-> m, owner |-> o, opcode |-> p]

\* The fields of object u once thread t has counted itself.
Counted(t, u) == [ull[u] EXCEPT !.nwaiters = @ + 1,
                    !.opcode = IF @ = "none" THEN args[t].op ELSE @]

\* t leaves object u, on which no other thread waits ...
LastLeaves(t, u, p) ==
  /\ BusyOn(u) \subseteq {t} /\ \A x \in Threads \ {t} : mine[x] # u
  /\ ull' = [ull EXCEPT ![u] = Fields(InvalidKey, 0, 0, NoThread, p)]
  /\ ull_lock' = [ull_lock EXCEPT ![u] = NoThread]
  /\ pc' = [pc EXCEPT ![t] = "remqueue"]
  /\ UNCHANGED <<word, live, ts_waitq, ulb_head, ulb_lock, args, mine, seen, wr>>

\* ... or m other threads.
OneLeaves(t, u, m) ==
  /\ BusyOn(u) \ {t} # {} /\ Cardinality(BusyOn(u) \ {t}) = m
  /\ ull_lock[u] \in {t, NoThread}
  /\ ull' = [ull EXCEPT ![u] = Fields(ull[u].key, m + 1, m, ull[u].owner, ull[u].opcode)]
  /\ ull_lock' = [ull_lock EXCEPT ![u] = NoThread]
  /\ Return(t)
  /\ UNCHANGED <<word, live, ts_waitq, ulb_head, ulb_lock>>

\* t is going to block on object u, with owner o.
Blocks(t, u, o) ==
  /\ word[args[t].key] = args[t].value
  /\ o = IF set_owner(args[t].op) THEN ulock_resolve_owner(args[t].value) ELSE ull[u].owner
  /\ ~(set_owner(args[t].op) /\ ResolveFails(t, args[t].value))
  /\ \A x \in BusyOn(u) : args[x].op = args[t].op
  /\ ull[u].opcode \in {"none", args[t].op}
  /\ ull' = [ull EXCEPT ![u] = Fields(ull[u].key, ull[u].refcount, ull[u].nwaiters + 1,
                                      o, args[t].op)]
  /\ pc' = [pc EXCEPT ![t] = "assert_wait"]
  /\ UNCHANGED <<word, live, ull_lock, ts_waitq, ulb_head, ulb_lock, args, mine, seen, wr>>

\* Whom a wake on object u hands out, and the owner that it leaves: nobody, all
\* the threads on the queue, or one of them.
Woken(u, W, o) ==
  \/ W = {} /\ o = ull[u].owner
  \/ /\ ull[u].opcode = "UL_UNFAIR_LOCK"
     /\ \/ W = ts_waitq[u] /\ o = NoThread
        \/ \E x \in ts_waitq[u] : W = {x} /\ o = x
  \/ /\ ull[u].opcode = "UL_COMPARE_AND_WAIT" /\ o = ull[u].owner
     /\ W = ts_waitq[u] \/ \E x \in ts_waitq[u] : W = {x}

\* t wakes the threads in W up and leaves owner o.
WakeLeaves(t, u, W, o) ==
  /\ W \subseteq ts_waitq[u] /\ (FlagsOK(args[t]) => Woken(u, W, o))
  /\ o = ull[u].owner \/ set_owner(ull[u].opcode)
  /\ ull[u].refcount > 1
  /\ ull' = [ull EXCEPT ![u] = Fields(ull[u].key, ull[u].refcount - 1, ull[u].nwaiters,
                                      o, ull[u].opcode)]
  /\ ull_lock' = [ull_lock EXCEPT ![u] = NoThread]
  /\ ts_waitq' = [ts_waitq EXCEPT ![u] = @ \ W]
  /\ wr' = [x \in Threads |-> IF x \in W THEN "THREAD_AWAKENED" ELSE wr[x]]
  /\ pc' = [x \in Threads |-> IF x = t THEN "user"
                              ELSE IF x \in W THEN "continue" ELSE pc[x]]
  /\ args' = [args EXCEPT ![t] = NoCall]
  /\ mine' = [mine EXCEPT ![t] = NoUll]
  /\ UNCHANGED <<word, live, ulb_head, ulb_lock, seen>>

\* A step of the table, with the critical sections of ull_lock as what they
\* leave.
StepEffect ==
  \/ UNCHANGED <<kernelVars, threadVars>> /\ word' \in [Keys -> Values]
  \/ \E t \in Threads :
       \/ ull_alloc(t) \/ ulock_wake(t) \/ ull_bucket_lock(t) \/ ull_get_pass(t)
       \/ ull_get_found(t) \/ ull_get_insert(t) \/ ull_get_none(t)
       \/ waitq_assert_wait(t) \/ waitq_abort(t) \/ remqueue(t) \/ ull_free(t)
       \/ /\ pc[t] \in {"locked", "continue"} /\ args[t] \in WaitCalls
          /\ \E p \in ClientOps \cup {"none"} : LastLeaves(t, mine[t], p)
       \/ /\ pc[t] \in {"locked", "continue"} /\ args[t] \in WaitCalls
          /\ \E m \in Nat \ {0} : OneLeaves(t, mine[t], m)
       \/ /\ pc[t] = "locked" /\ args[t] \in WaitCalls
          /\ \E o \in Threads \cup {NoThread} : Blocks(t, mine[t], o)
       \/ /\ pc[t] = "locked" /\ args[t] \in WakeCalls
          /\ \E W \in SUBSET Threads, o \in Threads \cup {NoThread} :
               WakeLeaves(t, mine[t], W, o)
-----------------------------------------------------------------------------
\* What the assignments of ulock_wait2, of ulock_wait_cleanup and of ulock_wake
\* to the fields of a ull_t leave.
LEMMA Assign ==
  ASSUME NEW q \in UllRecords, NEW o, NEW p
  PROVE  /\ [q EXCEPT !.nwaiters = @ + 1, !.opcode = p]
              = Fields(q.key, q.refcount, q.nwaiters + 1, q.owner, p)
         /\ [q EXCEPT !.nwaiters = q.nwaiters - 1, !.refcount = @ - 1]
              = Fields(q.key, q.refcount - 1, q.nwaiters - 1, q.owner, q.opcode)
         /\ [q EXCEPT !.refcount = @ - 1, !.owner = o]
              = Fields(q.key, q.refcount - 1, q.nwaiters, o, q.opcode)
         /\ [q EXCEPT !.nwaiters = 0, !.owner = NoThread, !.key = InvalidKey,
                      !.refcount = @ - 2]
              = Fields(InvalidKey, q.refcount - 2, 0, NoThread, q.opcode)
  <1> USE DEF UllRecords, Fields
  <1>1. PICK a, b, c, d, e, f :
          /\ a = [q EXCEPT !.nwaiters = @ + 1]
          /\ b = [q EXCEPT !.nwaiters = @ - 1]
          /\ c = [q EXCEPT !.refcount = @ - 1]
          /\ d = [q EXCEPT !.nwaiters = 0]
          /\ e = [d EXCEPT !.owner = NoThread]
          /\ f = [e EXCEPT !.key = InvalidKey]
    BY Zenon
  <1>2. /\ a = Fields(q.key, q.refcount, q.nwaiters + 1, q.owner, q.opcode)
        /\ b = Fields(q.key, q.refcount, q.nwaiters - 1, q.owner, q.opcode)
        /\ c = Fields(q.key, q.refcount - 1, q.nwaiters, q.owner, q.opcode)
        /\ d = Fields(q.key, q.refcount, 0, q.owner, q.opcode)
    BY <1>1, Zenon
  <1>3. e = Fields(q.key, q.refcount, 0, NoThread, q.opcode)
    BY <1>1, <1>2, Zenon
  <1>4. f = Fields(InvalidKey, q.refcount, 0, NoThread, q.opcode)
    BY <1>1, <1>3, Zenon
  <1>5. [a EXCEPT !.opcode = p] = Fields(q.key, q.refcount, q.nwaiters + 1, q.owner, p)
    BY <1>2
  <1>6. [b EXCEPT !.refcount = q.refcount - 1]
          = Fields(q.key, q.refcount - 1, q.nwaiters - 1, q.owner, q.opcode)
    BY <1>2
  <1>7. [c EXCEPT !.owner = o]
          = Fields(q.key, q.refcount - 1, q.nwaiters, o, q.opcode)
    BY <1>2
  <1>8. [f EXCEPT !.refcount = q.refcount - 2]
          = Fields(InvalidKey, q.refcount - 2, 0, NoThread, q.opcode)
    BY <1>4
  <1> QED BY <1>1, <1>5, <1>6, <1>7, <1>8, Zenon

\* The properties follow from the inductive invariant.
LEMMA Consequences ==
  ASSUME IInv
  PROVE  NoUseAfterFree /\ KernelAssertions /\ (ThreadsCount => CountsExact)
  <1> USE TableAssumption DEF IInv, TableInv
  <1>1. NoUseAfterFree
    <2>1. ulb_head \subseteq live
      BY Zenon DEF UseInv
    <2>2. ASSUME NEW t \in Threads, mine[t] # NoUll PROVE mine[t] \in live
      BY <2>1, <2>2, Zenon DEF TypeOK, CallInv, Busy
    <2>3. ASSUME NEW u \in Ulls, ull_lock[u] # NoThread PROVE u \in live
      BY <2>2, <2>3 DEF TypeOK, LockInv
    <2> QED BY <2>1, <2>2, <2>3, Zenon DEF NoUseAfterFree
  <1>2. KernelAssertions
    BY DEF KernelAssertions, CallInv, SoleInv, LockInv, OpInv, TypeOK
  <1>5. \A u \in Ulls : Waiting(u) = BusyOn(u)
    BY Zenon DEF Waiting, BusyOn, CallInv, WaitCalls, Busy
  <1>3. ASSUME NEW u \in ulb_head, ull[u].key # InvalidKey
        PROVE  /\ ull[u].nwaiters = Cardinality(Waiting(u))
               /\ ull[u].refcount = 1 + Cardinality(Waiting(u))
                    + (IF \E t \in Threads : mine[t] = u /\ pc[t] = "locked"
                       THEN 1 ELSE 0)
    <2>1. /\ u \in Ulls /\ ull[u].nwaiters \in Nat
          /\ ull[u].nwaiters = Cardinality(Waiting(u))
          /\ ull[u].refcount = ull[u].nwaiters
           + (IF ull_lock[u] \in Threads /\ pc[ull_lock[u]] = "locked" THEN 2 ELSE 1)
      BY <1>3, <1>5, Zenon DEF RefInv, WaitersInv, TypeOK, UllRecords
    <2>2. CASE \E t \in Threads : mine[t] = u /\ pc[t] = "locked"
      <3>1. ull_lock[u] \in Threads /\ pc[ull_lock[u]] = "locked"
        BY <2>1, <2>2 DEF LockInv
      <3> QED BY <2>1, <2>2, <3>1
    <2>3. CASE ~ \E t \in Threads : mine[t] = u /\ pc[t] = "locked"
      <3>1. ~(ull_lock[u] \in Threads /\ pc[ull_lock[u]] = "locked")
        BY <2>1, <2>3 DEF LockInv
      <3> QED BY <2>1, <2>3, <3>1
    <2> QED BY <2>2, <2>3, Zenon
  <1>4. ASSUME NEW u \in ulb_head, ull[u].key = InvalidKey, ThreadsCount
        PROVE  /\ ull[u].refcount = 0 /\ Waiting(u) = {}
               /\ Cardinality({t \in Threads : mine[t] = u /\ pc[t] = "remqueue"}) = 1
    <2>1. PICK t \in Threads : mine[t] = u /\ pc[t] = "remqueue"
      BY <1>4, Zenon DEF UseInv
    <2>2. u # NoUll
      BY Zenon DEF TypeOK
    <2>3. ull[u].refcount = 0 /\ Waiting(u) = {}
      BY <2>1, <2>2 DEF CallInv, SoleInv, Waiting, Busy
    <2>4. {x \in Threads : mine[x] = u /\ pc[x] = "remqueue"} = {t}
      BY <2>1, <2>2, Zenon DEF SoleInv
    <2>5. Cardinality({t}) = 1
      BY <1>4, Zenon DEF ThreadsCount
    <2> QED BY <2>1, <2>3, <2>4, <2>5, Zenon
  <1>6. ThreadsCount => CountsExact
    BY <1>3, <1>4, Zenon DEF CountsExact
  <1> QED BY <1>1, <1>2, <1>6, Zenon

\* An object that a thread uses is linked under its key, and its counts are
\* those of the threads.
LEMMA Used ==
  ASSUME ThreadsCount, IInv, NEW t \in Threads, pc[t] \in Busy \cup {"locked"}
  PROVE  /\ mine[t] \in ulb_head /\ mine[t] \in Ulls
         /\ ull[mine[t]].key \in Keys /\ ull[mine[t]].key # InvalidKey
         /\ BusyOn(mine[t]) \subseteq Threads /\ Cardinality(BusyOn(mine[t])) \in Nat
         /\ ull[mine[t]].nwaiters = Cardinality(BusyOn(mine[t]))
         /\ pc[t] = "locked" => ull[mine[t]].refcount = ull[mine[t]].nwaiters + 2
         /\ ull_lock[mine[t]] = NoThread
              => ull[mine[t]].refcount = ull[mine[t]].nwaiters + 1
  <1> DEFINE u == mine[t]
  <1> USE TableAssumption DEF IInv, TableInv
  <1>1. u \in ulb_head /\ u \in Ulls /\ ull[u].key \in Keys /\ ull[u].key # InvalidKey
    BY DEF TypeOK, CallInv, WaitCalls, WakeCalls, Busy
  <1>2. BusyOn(u) \subseteq Threads /\ Cardinality(BusyOn(u)) \in Nat
    <2>1. BusyOn(u) \in SUBSET Threads
      BY Zenon DEF BusyOn
    <2> QED BY <2>1, Zenon DEF ThreadsCount
  <1>3. /\ ull[u].nwaiters = Cardinality(BusyOn(u))
        /\ ull[u].refcount = ull[u].nwaiters
             + (IF ull_lock[u] \in Threads /\ pc[ull_lock[u]] = "locked" THEN 2 ELSE 1)
    BY <1>1, Zenon DEF RefInv, WaitersInv
  <1>4. pc[t] = "locked" => ull_lock[u] = t
    BY <1>1 DEF LockInv
  <1> QED BY <1>1, <1>2, <1>3, <1>4, Zenon

\* What a thread that counts itself writes; other waiters have set the
\* operation before.
LEMMA CountedFields ==
  ASSUME ThreadsCount, IInv, NEW t \in Threads, pc[t] = "locked"
  PROVE  \E p \in ClientOps :
           /\ Counted(t, mine[t]) = Fields(ull[mine[t]].key, ull[mine[t]].refcount,
                ull[mine[t]].nwaiters + 1, ull[mine[t]].owner, p)
           /\ BusyOn(mine[t]) # {} => p = ull[mine[t]].opcode
           /\ p # ull[mine[t]].opcode => p = args[t].op /\ ull[mine[t]].opcode = "none"
  <1> DEFINE u == mine[t]
             p == IF ull[u].opcode = "none" THEN args[t].op ELSE ull[u].opcode
  <1> USE DEF IInv, TableInv
  <1>1. u \in ulb_head /\ ull[u] \in UllRecords
    BY Used, Zenon DEF TypeOK
  <1>2. p \in ClientOps
    BY <1>1, Zenon DEF CallInv, WaitCalls, WakeCalls, UllRecords
  <1>3. ASSUME NEW x \in BusyOn(u) PROVE p = ull[u].opcode
    <2>1. ull[u].opcode = args[x].op /\ args[x].op \in ClientOps
      <3>1. x \in Threads /\ args[x] \in WaitCalls
        BY <1>3, Zenon DEF BusyOn, Busy, CallInv
      <3>2. args[x].op \in ClientOps
        BY <3>1, Zenon DEF WaitCalls
      <3> QED BY <1>3, <3>2, Zenon DEF OpInv, BusyOn, Busy
    <2> QED BY <2>1, TableAssumption, Zenon
  <1>4. Counted(t, u) = [ull[u] EXCEPT !.nwaiters = @ + 1, !.opcode = p]
    BY Zenon DEF Counted
  <1>5. p # ull[u].opcode => p = args[t].op /\ ull[u].opcode = "none"
    BY Zenon
  <1> HIDE DEF p
  <1>6. Counted(t, u) = Fields(ull[u].key, ull[u].refcount, ull[u].nwaiters + 1,
                               ull[u].owner, p)
    BY <1>1, <1>4, Assign, Zenon
  <1> QED BY <1>2, <1>3, <1>5, <1>6, Zenon

\* The thread that leaves was counted with the waiters: it finds out from the
\* count whether it is the last one, and the reference of the table goes with
\* the last one.
LEMMA CleanupEffect ==
  ASSUME ThreadsCount, IInv, NEW t \in Threads, NEW r,
         \/ pc[t] = "locked" /\ r = Counted(t, mine[t])
         \/ pc[t] = "continue" /\ ull_lock[mine[t]] = NoThread /\ r = ull[mine[t]],
         ulock_wait_cleanup(t, mine[t], r),
         UNCHANGED <<word, live, ts_waitq, ulb_head, ulb_lock>>
  PROVE  \/ \E p \in ClientOps \cup {"none"} : LastLeaves(t, mine[t], p)
         \/ \E m \in Nat \ {0} : OneLeaves(t, mine[t], m)
  <1> DEFINE u == mine[t]
             others == BusyOn(u) \ {t}
             m == Cardinality(others)
  <1> USE DEF IInv, TableInv
  <1>1. /\ u \in ulb_head /\ u \in Ulls /\ ull[u].key \in Keys
        /\ BusyOn(u) \subseteq Threads /\ Cardinality(BusyOn(u)) \in Nat
        /\ ull[u].nwaiters = Cardinality(BusyOn(u))
        /\ pc[t] = "locked" => ull[u].refcount = ull[u].nwaiters + 2
        /\ ull_lock[u] = NoThread => ull[u].refcount = ull[u].nwaiters + 1
    BY Used, Zenon DEF Busy
  <1>2. ull[u] \in UllRecords
    BY <1>1, Zenon DEF TypeOK
  <1>3. m \in Nat /\ (m = 0 <=> others = {})
    <2>1. others \in SUBSET Threads
      BY <1>1, Zenon
    <2> QED BY <2>1, Zenon DEF ThreadsCount
  <1>4. PICK p \in ClientOps \cup {"none"} :
          /\ r = Fields(ull[u].key, m + 2, m + 1, ull[u].owner, p)
          /\ others # {} => p = ull[u].opcode
    <2>1. CASE pc[t] = "locked" /\ r = Counted(t, u)
      <3>1. t \notin BusyOn(u) /\ others = BusyOn(u)
        BY <2>1, Zenon DEF BusyOn, Busy
      <3>2. ull[u].nwaiters = m /\ ull[u].refcount = m + 2
        BY <1>1, <2>1, <3>1, Zenon
      <3> QED BY <2>1, <3>1, <3>2, CountedFields, Zenon
    <2>2. CASE pc[t] = "continue" /\ ull_lock[u] = NoThread /\ r = ull[u]
      <3>1. t \in BusyOn(u)
        BY <2>2, Zenon DEF BusyOn, Busy, CallInv, WaitCalls
      <3>2. m = Cardinality(BusyOn(u)) - 1
        BY <1>1, <3>1, Zenon DEF ThreadsCount
      <3>3. ull[u].nwaiters = m + 1 /\ ull[u].refcount = m + 2
        BY <1>1, <1>3, <2>2, <3>2
      <3> QED BY <1>2, <2>2, <3>3, Zenon DEF UllRecords, Fields
    <2> QED BY <2>1, <2>2, Zenon
  <1>5. r \in UllRecords /\ r.nwaiters = m + 1 /\ r.refcount = m + 2
        /\ r.key = ull[u].key /\ r.owner = ull[u].owner /\ r.opcode = p
    BY <1>2, <1>3, <1>4 DEF Fields, UllRecords
  <1>6. CASE others = {}
    <2>1. r.nwaiters - 1 = 0 /\ r.refcount - 2 = 0
      BY <1>3, <1>5, <1>6
    <2>2. \A x \in Threads \ {t} : mine[x] # u
      BY <1>1, <1>6, TableAssumption DEF BusyOn, Busy, CallInv, LockInv, SoleInv, WaitCalls, TypeOK
    <2>3. ull_put(t, u, Fields(InvalidKey, 0, 0, NoThread, p))
      <3>1. [r EXCEPT !.nwaiters = 0, !.owner = NoThread, !.key = InvalidKey,
                      !.refcount = @ - 2] = Fields(InvalidKey, 0, 0, NoThread, p)
        <4>1. [r EXCEPT !.nwaiters = 0, !.owner = NoThread, !.key = InvalidKey,
                        !.refcount = @ - 2]
                = Fields(InvalidKey, r.refcount - 2, 0, NoThread, r.opcode)
          BY <1>5, Assign, Zenon
        <4> QED BY <1>5, <2>1, <4>1, Zenon
      <3> QED BY <2>1, <3>1, Zenon DEF ulock_wait_cleanup
    <2>4. LastLeaves(t, u, p)
      BY <1>6, <2>2, <2>3 DEF ull_put, LastLeaves, At, Fields
    <2> QED BY <2>4, Zenon
  <1>7. CASE others # {}
    <2>1. r.nwaiters - 1 = m /\ r.refcount - 1 = m + 1 /\ m # 0
      BY <1>3, <1>5, <1>7
    <2>2. ull_put(t, u, Fields(ull[u].key, m + 1, m, ull[u].owner, ull[u].opcode))
      <3>1. [r EXCEPT !.nwaiters = r.nwaiters - 1, !.refcount = @ - 1]
              = Fields(ull[u].key, m + 1, m, ull[u].owner, ull[u].opcode)
        <4>1. [r EXCEPT !.nwaiters = r.nwaiters - 1, !.refcount = @ - 1]
                = Fields(r.key, r.refcount - 1, r.nwaiters - 1, r.owner, r.opcode)
          BY <1>5, Assign, Zenon
        <4> QED BY <1>4, <1>5, <1>7, <2>1, <4>1, Zenon
      <3> QED BY <2>1, <3>1, Zenon DEF ulock_wait_cleanup
    <2>3. ull_lock[u] \in {t, NoThread}
      BY <1>1, Zenon DEF LockInv
    <2>4. OneLeaves(t, u, m)
      BY <1>3, <1>7, <2>2, <2>3 DEF ull_put, OneLeaves, Fields
    <2> QED BY <1>3, <2>1, <2>4, Zenon
  <1> QED BY <1>6, <1>7, Zenon

\* ulock_wait2 under ull_lock blocks, or leaves at once.
LEMMA CompareEffect ==
  ASSUME ThreadsCount, IInv, NEW t \in Threads, ulock_wait_compare(t)
  PROVE  /\ pc[t] = "locked" /\ args[t] \in WaitCalls
         /\ \/ \E p \in ClientOps \cup {"none"} : LastLeaves(t, mine[t], p)
            \/ \E m \in Nat \ {0} : OneLeaves(t, mine[t], m)
            \/ \E o \in Threads \cup {NoThread} : Blocks(t, mine[t], o)
  <1> DEFINE u == mine[t]
  <1> USE DEF IInv, TableInv
  <1>1. pc[t] = "locked" /\ args[t].call = "ulock_wait"
    BY Zenon DEF ulock_wait_compare
  <1>2. args[t] \in WaitCalls
    BY <1>1, Zenon DEF CallInv, WakeCalls
  <1>3. CASE ulock_wait_cleanup(t, u, Counted(t, u))
    BY <1>1, <1>2, <1>3, CleanupEffect, Zenon DEF ulock_wait_compare
  <1>4. CASE ~ulock_wait_cleanup(t, u, Counted(t, u))
    <2> DEFINE a == args[t]
    <2>1. /\ Counted(t, u).opcode = a.op
          /\ word[a.key] = a.value
          /\ ~(set_owner(a.op) /\ ResolveFails(t, a.value))
          /\ ull' = [ull EXCEPT ![u] =
                 IF set_owner(a.op)
                 THEN [Counted(t, u) EXCEPT !.owner = ulock_resolve_owner(a.value)]
                 ELSE Counted(t, u)]
          /\ pc' = [pc EXCEPT ![t] = "assert_wait"]
          /\ UNCHANGED <<word, live, ull_lock, ts_waitq, ulb_head, ulb_lock, args, mine,
                         seen, wr>>
      BY <1>4, Zenon DEF ulock_wait_compare, Counted, At
    <2>2. u \in ulb_head /\ u \in Ulls /\ ull[u] \in UllRecords
      BY <1>1, Used, Zenon DEF TypeOK
    <2>3. PICK p \in ClientOps :
           /\ Counted(t, u) = Fields(ull[u].key, ull[u].refcount, ull[u].nwaiters + 1,
                                     ull[u].owner, p)
           /\ BusyOn(u) # {} => p = ull[u].opcode
           /\ p # ull[u].opcode => p = a.op /\ ull[u].opcode = "none"
      BY <1>1, CountedFields, Zenon
    <2>4. p = a.op /\ ull[u].opcode \in {"none", a.op}
      BY <2>1, <2>3 DEF Fields
    <2>5. \A x \in BusyOn(u) : args[x].op = a.op
      BY <2>2, <2>3, <2>4, Zenon DEF OpInv, BusyOn, Busy
    <2> DEFINE o == IF set_owner(a.op) THEN ulock_resolve_owner(a.value) ELSE ull[u].owner
    <2>6. Counted(t, u) \in UllRecords
      BY <2>2, <2>3 DEF Fields, UllRecords
    <2>7. [Counted(t, u) EXCEPT !.owner = ulock_resolve_owner(a.value)]
            = Fields(ull[u].key, ull[u].refcount, ull[u].nwaiters + 1,
                     ulock_resolve_owner(a.value), a.op)
      BY <2>3, <2>4 DEF Fields
    <2>8. ull' = [ull EXCEPT ![u] = Fields(ull[u].key, ull[u].refcount,
                                           ull[u].nwaiters + 1, o, a.op)]
      BY <2>1, <2>3, <2>4, <2>7, Zenon
    <2>9. o \in Threads \cup {NoThread}
      BY <1>2, <2>2, TableAssumption, Zenon DEF ulock_resolve_owner, UllRecords, WaitCalls
    <2>10. Blocks(t, u, o)
      BY <2>1, <2>4, <2>5, <2>8, Zenon DEF Blocks
    <2> QED BY <1>1, <1>2, <2>9, <2>10, Zenon
  <1> QED BY <1>3, <1>4, Zenon

\* A wake holds a reference of its own, so that its ull_put never drops the
\* last one.
LEMMA WakeEffect ==
  ASSUME ThreadsCount, IInv, NEW t \in Threads, ulock_wake_locked(t)
  PROVE  /\ pc[t] = "locked" /\ args[t] \in WakeCalls
         /\ \E W \in SUBSET Threads, o \in Threads \cup {NoThread} :
              WakeLeaves(t, mine[t], W, o)
  <1> DEFINE u == mine[t]
             a == args[t]
  <1> USE DEF IInv, TableInv
  <1>1. pc[t] = "locked" /\ a.call = "ulock_wake"
    BY Zenon DEF ulock_wake_locked
  <1>11. a \in WakeCalls
    BY <1>1, Zenon DEF CallInv, WaitCalls
  <1>2. /\ u \in Ulls /\ ull[u] \in UllRecords
        /\ ull[u].refcount \in Nat /\ ull[u].refcount > 1
    BY <1>1, Used DEF TypeOK
  <1> DEFINE bail == \/ a.op # ull[u].opcode
                     \/ /\ set_owner(a.op)
                        /\ ull[u].owner # t
                        /\ "ALLOW_NON_OWNER" \notin a.flags
             new_owner(W) == IF "WAKE_ALL" \in a.flags \/ W = {} THEN NoThread
                             ELSE CHOOSE x \in W : TRUE
             owner(W) == IF bail \/ ~set_owner(a.op) THEN ull[u].owner ELSE new_owner(W)
             woken == CASE bail -> {{}}
                 [] ~bail /\ "WAKE_ALL" \in a.flags -> {ts_waitq[u]}
                 [] ~bail /\ "WAKE_THREAD" \in a.flags ->
                      {{x} \cap ts_waitq[u] : x \in Threads \ {t}}
                 [] OTHER -> IF ts_waitq[u] = {} THEN {{}}
                             ELSE {{x} : x \in ts_waitq[u]}
  <1>3. PICK W \in woken :
                 /\ waitq_wakeup(u, W)
                 /\ ull' = [ull EXCEPT ![u] = [ull[u] EXCEPT !.refcount = @ - 1,
                                                             !.owner = owner(W)]]
                 /\ pc' = [x \in Threads |->
                             IF x = t THEN (IF ull[u].refcount = 1 THEN "remqueue" ELSE "user")
                             ELSE IF x \in W THEN "continue" ELSE pc[x]]
    BY Zenon DEF ulock_wake_locked
  <1> DEFINE o == owner(W)
  <1>4. /\ o = ull[u].owner \/ o = NoThread \/ o \in W
        /\ o = ull[u].owner \/ set_owner(ull[u].opcode)
    BY <1>3, Zenon
  <1>10. W \subseteq ts_waitq[u]
    BY <1>3, Zenon
  <1>5. W \in SUBSET Threads /\ o \in Threads \cup {NoThread}
    BY <1>2, <1>10, <1>4, Zenon DEF TypeOK, UllRecords
  <1>6. /\ ull_lock' = [ull_lock EXCEPT ![u] = NoThread]
        /\ args' = [args EXCEPT ![t] = NoCall]
        /\ mine' = [mine EXCEPT ![t] = IF ull[u].refcount = 1 THEN @ ELSE NoUll]
        /\ UNCHANGED <<word, live, ulb_head, ulb_lock, seen>>
    BY Zenon DEF ulock_wake_locked
  <1>12. ASSUME FlagsOK(a) PROVE Woken(u, W, o)
    <2>1. CASE bail
      BY <1>3, <2>1, Zenon DEF Woken
    <2>2. CASE ~bail
      <3>1. a.op = ull[u].opcode /\ a.op \in {"UL_UNFAIR_LOCK", "UL_COMPARE_AND_WAIT"}
        BY <1>11, <2>2, TableAssumption, Zenon DEF WakeCalls
      <3>2. CASE "WAKE_ALL" \in a.flags
        <4>1. W = ts_waitq[u]
          BY <1>3, <1>12, <2>2, <3>2, Zenon DEF FlagsOK
        <4>2. o = IF set_owner(a.op) THEN NoThread ELSE ull[u].owner
          BY <2>2, <3>2, Zenon
        <4> QED BY <3>1, <4>1, <4>2, Zenon DEF Woken, set_owner
      <3>3. CASE "WAKE_ALL" \notin a.flags /\ "WAKE_THREAD" \in a.flags
        <4>1. ~set_owner(a.op)
          BY <1>12, <3>3, Zenon DEF FlagsOK
        <4>2. \E x \in Threads : W = {x} \cap ts_waitq[u]
          BY <1>3, <2>2, <3>3, Zenon
        <4>3. W = {} \/ \E x \in ts_waitq[u] : W = {x}
          BY <4>2, Zenon
        <4> QED BY <3>1, <4>1, <4>3, Zenon DEF Woken, set_owner
      <3>4. CASE "WAKE_ALL" \notin a.flags /\ "WAKE_THREAD" \notin a.flags
        <4>1. (ts_waitq[u] = {} /\ W = {}) \/ \E x \in ts_waitq[u] : W = {x}
          BY <1>3, <2>2, <3>4, Zenon
        <4>2. CASE set_owner(a.op)
          <5>1. o = IF W = {} THEN NoThread ELSE CHOOSE x \in W : TRUE
            BY <2>2, <3>4, <4>2
          <5> QED BY <3>1, <4>1, <4>2, <5>1, Zenon DEF Woken, set_owner
        <4>3. CASE ~set_owner(a.op)
          BY <3>1, <4>1, <4>3, Zenon DEF Woken, set_owner
        <4> QED BY <4>2, <4>3, Zenon
      <3> QED BY <3>2, <3>3, <3>4, Zenon
    <2> QED BY <2>1, <2>2, Zenon
  <1> HIDE DEF o
  <1>7. [ull[u] EXCEPT !.refcount = @ - 1, !.owner = o]
          = Fields(ull[u].key, ull[u].refcount - 1, ull[u].nwaiters, o, ull[u].opcode)
    BY <1>2, Assign, Zenon
  <1>8. ull' = [ull EXCEPT ![u] = Fields(ull[u].key, ull[u].refcount - 1,
                                         ull[u].nwaiters, o, ull[u].opcode)]
    BY <1>3, <1>7, Zenon DEF o
  <1>9. WakeLeaves(t, u, W, o)
    <2>1. ull[u].refcount # 1
      BY <1>2
    <2>2. /\ ts_waitq' = [ts_waitq EXCEPT ![u] = @ \ W]
          /\ wr' = [x \in Threads |-> IF x \in W THEN "THREAD_AWAKENED" ELSE wr[x]]
      BY <1>3, Zenon DEF waitq_wakeup
    <2>3. pc' = [x \in Threads |-> IF x = t THEN "user"
                                   ELSE IF x \in W THEN "continue" ELSE pc[x]]
      BY <1>3, <2>1, Zenon
    <2>4. mine' = [mine EXCEPT ![t] = NoUll]
      BY <1>6, <2>1, Zenon
    <2> QED BY <1>2, <1>10, <1>12, <1>4, <1>6, <1>8, <2>2, <2>3, <2>4, Zenon DEF WakeLeaves
  <1> QED BY <1>1, <1>5, <1>9, <1>11, Zenon

\* Every step is one of these.
LEMMA StepCases ==
  ASSUME ThreadsCount, IInv, [Next]_vars
  PROVE  StepEffect
  <1>1. CASE UNCHANGED vars
    BY <1>1, Zenon DEF vars, IInv, TypeOK, StepEffect
  <1>2. CASE \E k \in Keys : store(k)
    BY <1>2, Zenon DEF store, IInv, TypeOK, StepEffect
  <1>3. ASSUME NEW t \in Threads, ulock_wait_continue(t)
        PROVE  /\ pc[t] \in {"locked", "continue"} /\ args[t] \in WaitCalls
               /\ \/ \E p \in ClientOps \cup {"none"} : LastLeaves(t, mine[t], p)
                  \/ \E m \in Nat \ {0} : OneLeaves(t, mine[t], m)
    BY <1>3, CleanupEffect, Zenon DEF ulock_wait_continue, IInv, CallInv, Busy
  <1>4. ASSUME NEW t \in Threads, ulock_wait_compare(t)
        PROVE  /\ pc[t] = "locked" /\ args[t] \in WaitCalls
               /\ \/ \E p \in ClientOps \cup {"none"} : LastLeaves(t, mine[t], p)
                  \/ \E m \in Nat \ {0} : OneLeaves(t, mine[t], m)
                  \/ \E o \in Threads \cup {NoThread} : Blocks(t, mine[t], o)
    BY <1>4, CompareEffect, Zenon
  <1>5. ASSUME NEW t \in Threads, ulock_wake_locked(t)
        PROVE  /\ pc[t] = "locked" /\ args[t] \in WakeCalls
               /\ \E W \in SUBSET Threads, o \in Threads \cup {NoThread} :
                    WakeLeaves(t, mine[t], W, o)
    BY <1>5, WakeEffect, Zenon
  <1> QED BY <1>1, <1>2, <1>3, <1>4, <1>5, Zenon DEF Next, StepEffect

\* Every step preserves the type invariant.
LEMMA TypeStep ==
  ASSUME TypeOK, CallInv, StepEffect
  PROVE  TypeOK'
  <1> USE TableAssumption DEF TypeOK, UllRecords, WaitCalls, WakeCalls, NoCall, WaitResults, Busy, CallInv
  <1>1. CASE UNCHANGED <<kernelVars, threadVars>> /\ word' \in [Keys -> Values]
    BY <1>1, Zenon DEF kernelVars, threadVars
  <1>2. ASSUME NEW t \in Threads, ull_alloc(t) PROVE TypeOK'
    BY <1>2 DEF ull_alloc, At, Fresh
  <1>3. ASSUME NEW t \in Threads, ulock_wake(t) PROVE TypeOK'
    BY <1>3 DEF ulock_wake, At, kernelVars
  <1>4. ASSUME NEW t \in Threads, ull_bucket_lock(t) PROVE TypeOK'
    BY <1>4, Zenon DEF ull_bucket_lock, At
  <1>5. ASSUME NEW t \in Threads, ull_get_pass(t) PROVE TypeOK'
    BY <1>5 DEF ull_get_pass, kernelVars
  <1>6. ASSUME NEW t \in Threads, ull_get_found(t) PROVE TypeOK'
    BY <1>6, SMTT(30) DEF ull_get_found, At, ull_refcount_inc
  <1>7. ASSUME NEW t \in Threads, ull_get_insert(t) PROVE TypeOK'
    <2>1. mine[t] \in Ulls /\ ull[mine[t]] = Fresh(args[t].key) /\ args[t].key \in Keys
      BY <1>7, Zenon DEF ull_get_insert
    <2>2. ull' \in [Ulls -> UllRecords]
      BY <1>7, <2>1 DEF ull_get_insert, Fresh, ull_refcount_inc
    <2> QED BY <1>7, <2>1, <2>2 DEF ull_get_insert, At, ull_refcount_inc
  <1>8. ASSUME NEW t \in Threads, ull_get_none(t) PROVE TypeOK'
    BY <1>8, Zenon DEF ull_get_none, Return
  <1>9. ASSUME NEW t \in Threads, waitq_assert_wait(t) PROVE TypeOK'
    <2>1. mine[t] \in Ulls
      BY <1>9, Zenon DEF waitq_assert_wait
    <2>2. ts_waitq' = ts_waitq \/ ts_waitq' = [ts_waitq EXCEPT ![mine[t]] = @ \cup {t}]
      BY <1>9, Zenon DEF waitq_assert_wait
    <2>3. ts_waitq' \in [Ulls -> SUBSET Threads]
      BY <2>1, <2>2, SMTT(30)
    <2>4. wr' = wr \/ wr' = [wr EXCEPT ![t] = "THREAD_INTERRUPTED"]
      BY <1>9, Zenon DEF waitq_assert_wait
    <2>5. /\ pc' = [pc EXCEPT ![t] = "block"] \/ pc' = [pc EXCEPT ![t] = "continue"]
          /\ ull_lock' = [ull_lock EXCEPT ![mine[t]] = NoThread]
          /\ UNCHANGED <<word, live, ull, ulb_head, ulb_lock, args, mine, seen>>
      BY <1>9, Zenon DEF waitq_assert_wait, At
    <2>6. pc' \in [Threads -> {"user", "ull_get", "scan", "locked", "assert_wait",
                         "block", "continue", "remqueue", "ull_free"}]
      BY <2>5
    <2> QED BY <2>1, <2>3, <2>4, <2>5, <2>6
  <1>10. ASSUME NEW t \in Threads, waitq_abort(t) PROVE TypeOK'
    BY <1>10, Zenon DEF waitq_abort, At
  <1>11. ASSUME NEW t \in Threads, remqueue(t) PROVE TypeOK'
    BY <1>11, Zenon DEF remqueue, At
  <1>12. ASSUME NEW t \in Threads, ull_free(t) PROVE TypeOK'
    BY <1>12, Zenon DEF ull_free, Return, Fresh
  <1>13. ASSUME NEW t \in Threads, pc[t] \in {"locked", "continue"}, args[t] \in WaitCalls,
               NEW p \in ClientOps \cup {"none"}, LastLeaves(t, mine[t], p)
        PROVE  TypeOK'
    BY <1>13, Zenon DEF LastLeaves, Fields
  <1>14. ASSUME NEW t \in Threads, pc[t] \in {"locked", "continue"}, args[t] \in WaitCalls,
               NEW m \in Nat \ {0}, OneLeaves(t, mine[t], m)
        PROVE  TypeOK'
    BY <1>14 DEF OneLeaves, Return, Fields
  <1>15. ASSUME NEW t \in Threads, pc[t] = "locked", args[t] \in WaitCalls,
               NEW o \in Threads \cup {NoThread}, Blocks(t, mine[t], o)
        PROVE  TypeOK'
    BY <1>15 DEF Blocks, Fields
  <1>16. ASSUME NEW t \in Threads, pc[t] = "locked", args[t] \in WakeCalls,
               NEW W \in SUBSET Threads,
               NEW o \in Threads \cup {NoThread}, WakeLeaves(t, mine[t], W, o)
        PROVE  TypeOK'
    BY <1>16 DEF WakeLeaves, Fields
  <1> HIDE DEF TypeOK, UllRecords, WaitCalls, WakeCalls, NoCall, WaitResults, Busy, CallInv
  <1> QED BY <1>1, <1>2, <1>3, <1>4, <1>5, <1>6, <1>7, <1>8,
         <1>9, <1>10, <1>11, <1>12, <1>13, <1>14, <1>15, <1>16, Zenon DEF StepEffect

\* Every step leaves each thread with the arguments and the object that its
\* position calls for.
LEMMA CallStep ==
  ASSUME TypeOK, CallInv, SoleInv, LockInv, NoUseAfterFree, StepEffect
  PROVE  CallInv'
  <1> USE TableAssumption DEF TypeOK, UllRecords, WaitCalls, WakeCalls, NoCall, WaitResults, Busy, CallInv, SoleInv, LockInv, NoUseAfterFree
  <1>1. CASE UNCHANGED <<kernelVars, threadVars>> /\ word' \in [Keys -> Values]
    BY <1>1 DEF kernelVars, threadVars
  <1>2. ASSUME NEW t \in Threads, ull_alloc(t) PROVE CallInv'
    <2>1. PICK c \in WaitCalls, u \in Ulls \ live :
                 /\ args' = [args EXCEPT ![t] = c]
                 /\ live' = live \cup {u}
                 /\ ull' = [ull EXCEPT ![u] = Fresh(c.key)]
                 /\ mine' = [mine EXCEPT ![t] = u]
      BY <1>2, Zenon DEF ull_alloc
    <2>2. u \notin ulb_head /\ \A x \in Threads : mine[x] # u
      BY <2>1 DEF NoUseAfterFree
    <2>3. pc' = [pc EXCEPT ![t] = "ull_get"] /\ ulb_head' = ulb_head
      BY <1>2, Zenon DEF ull_alloc, At
    <2> QED BY <2>1, <2>2, <2>3
  <1>3. ASSUME NEW t \in Threads, ulock_wake(t) PROVE CallInv'
    BY <1>3 DEF ulock_wake, At, kernelVars
  <1>4. ASSUME NEW t \in Threads, ull_bucket_lock(t) PROVE CallInv'
    BY <1>4 DEF ull_bucket_lock, At
  <1>5. ASSUME NEW t \in Threads, ull_get_pass(t) PROVE CallInv'
    BY <1>5 DEF ull_get_pass, kernelVars
  <1>6. ASSUME NEW t \in Threads, ull_get_found(t) PROVE CallInv'
    BY <1>6 DEF ull_get_found, At, ull_refcount_inc
  <1>7. ASSUME NEW t \in Threads, ull_get_insert(t) PROVE CallInv'
    BY <1>7 DEF ull_get_insert, At, ull_refcount_inc, Fresh
  <1>8. ASSUME NEW t \in Threads, ull_get_none(t) PROVE CallInv'
    BY <1>8 DEF ull_get_none, Return
  <1>9. ASSUME NEW t \in Threads, waitq_assert_wait(t) PROVE CallInv'
    BY <1>9 DEF waitq_assert_wait, At
  <1>10. ASSUME NEW t \in Threads, waitq_abort(t) PROVE CallInv'
    BY <1>10 DEF waitq_abort, At
  <1>11. ASSUME NEW t \in Threads, remqueue(t) PROVE CallInv'
    BY <1>11 DEF remqueue, At
  <1>12. ASSUME NEW t \in Threads, ull_free(t) PROVE CallInv'
    BY <1>12 DEF ull_free, Return, Fresh
  <1>13. ASSUME NEW t \in Threads, pc[t] \in {"locked", "continue"}, args[t] \in WaitCalls,
               NEW p \in ClientOps \cup {"none"}, LastLeaves(t, mine[t], p)
        PROVE  CallInv'
    BY <1>13 DEF LastLeaves, Fields
  <1>14. ASSUME NEW t \in Threads, pc[t] \in {"locked", "continue"}, args[t] \in WaitCalls,
               NEW m \in Nat \ {0}, OneLeaves(t, mine[t], m)
        PROVE  CallInv'
    BY <1>14, SMTT(30) DEF OneLeaves, Return, Fields
  <1>15. ASSUME NEW t \in Threads, pc[t] = "locked", args[t] \in WaitCalls,
               NEW o \in Threads \cup {NoThread}, Blocks(t, mine[t], o)
        PROVE  CallInv'
    BY <1>15 DEF Blocks, Fields
  <1> HIDE DEF TypeOK, UllRecords, WaitCalls, WakeCalls, NoCall, WaitResults, Busy, CallInv, SoleInv, LockInv, NoUseAfterFree
  <1>16. ASSUME NEW t \in Threads, pc[t] = "locked", args[t] \in WakeCalls,
               NEW W \in SUBSET Threads,
               NEW o \in Threads \cup {NoThread}, WakeLeaves(t, mine[t], W, o)
        PROVE  CallInv'
    <2>1. mine[t] \in Ulls /\ mine[t] # NoUll
      BY <1>16, TableAssumption, Zenon DEF TypeOK, CallInv, Busy
    <2>2. /\ pc'[t] = "user" /\ mine'[t] = NoUll /\ args'[t] = NoCall
          /\ \A x \in Threads \ {t} : /\ mine'[x] = mine[x] /\ args'[x] = args[x]
                                     /\ pc'[x] = IF x \in W THEN "continue" ELSE pc[x]
      BY <1>16, Zenon DEF WakeLeaves, TypeOK
    <2>3. /\ ulb_head' = ulb_head /\ live' = live /\ W \subseteq ts_waitq[mine[t]]
          /\ \A u \in Ulls \ {mine[t]} : ull'[u] = ull[u]
          /\ ull'[mine[t]].key = ull[mine[t]].key
      BY <1>16, <2>1, Zenon DEF WakeLeaves, TypeOK, Fields
    <2>4. \A x \in W : mine[x] = mine[t] /\ pc[x] = "block"
      BY <2>1, <2>3 DEF LockInv
    <2>5. \A u \in Ulls : ull'[u].key = ull[u].key
      BY <2>3, Zenon
    <2> SUFFICES ASSUME NEW x \in Threads PROVE CallInv!(x)'
      BY Zenon DEF CallInv
    <2>6. CASE x = t
      BY <2>2, <2>6, Zenon DEF Busy
    <2>7. CASE x \in W \ {t}
      BY <1>16, <2>1, <2>2, <2>3, <2>4, <2>7 DEF CallInv, Busy
    <2>8. CASE x \notin W \cup {t}
      <3>1. /\ pc'[x] = pc[x] /\ mine'[x] = mine[x] /\ args'[x] = args[x]
            /\ mine[x] \in Ulls \cup {NoUll}
        BY <2>2, <2>8, Zenon DEF TypeOK
      <3>2. ASSUME pc[x] \in {"ull_get", "scan", "remqueue", "ull_free"}
            PROVE  mine[x] # mine[t]
        BY <2>1, <2>8, <3>2, Zenon DEF SoleInv
      <3> QED BY <2>3, <2>5, <3>1, <3>2, TableAssumption DEF CallInv, Busy, TypeOK
    <2> QED BY <2>6, <2>7, <2>8, Zenon
  <1> QED BY <1>1, <1>2, <1>3, <1>4, <1>5, <1>6, <1>7, <1>8,
         <1>9, <1>10, <1>11, <1>12, <1>13, <1>14, <1>15, <1>16, Zenon DEF StepEffect

\* A lookup has the bucket lock to itself, and no step gives an object that it
\* has passed the key that it looks for.
LEMMA ScanStep ==
  ASSUME TypeOK, CallInv, ScanInv, SoleInv, LockInv, NoUseAfterFree, StepEffect
  PROVE  ScanInv'
  <1> USE TableAssumption DEF TypeOK, WaitResults, Busy, CallInv, ScanInv, LockInv
  <1>1. CASE UNCHANGED <<kernelVars, threadVars>> /\ word' \in [Keys -> Values]
    BY <1>1 DEF kernelVars, threadVars
  <1>2. ASSUME NEW t \in Threads, ull_alloc(t) PROVE ScanInv'
    BY <1>2 DEF ull_alloc, At, Fresh, NoUseAfterFree, WaitCalls
  <1>3. ASSUME NEW t \in Threads, ulock_wake(t) PROVE ScanInv'
    BY <1>3 DEF ulock_wake, At, kernelVars
  <1>4. ASSUME NEW t \in Threads, ull_bucket_lock(t) PROVE ScanInv'
    BY <1>4 DEF ull_bucket_lock, At
  <1>5. ASSUME NEW t \in Threads, ull_get_pass(t) PROVE ScanInv'
    BY <1>5 DEF ull_get_pass, kernelVars
  <1>6. ASSUME NEW t \in Threads, ull_get_found(t) PROVE ScanInv'
    BY <1>6 DEF ull_get_found, At, ull_refcount_inc
  <1>7. ASSUME NEW t \in Threads, ull_get_insert(t) PROVE ScanInv'
    BY <1>7 DEF ull_get_insert, At, ull_refcount_inc, Fresh
  <1>8. ASSUME NEW t \in Threads, ull_get_none(t) PROVE ScanInv'
    BY <1>8 DEF ull_get_none, Return
  <1>9. ASSUME NEW t \in Threads, waitq_assert_wait(t) PROVE ScanInv'
    BY <1>9, SMTT(30) DEF waitq_assert_wait, At
  <1>10. ASSUME NEW t \in Threads, waitq_abort(t) PROVE ScanInv'
    BY <1>10 DEF waitq_abort, At
  <1>11. ASSUME NEW t \in Threads, remqueue(t) PROVE ScanInv'
    BY <1>11, SMTT(30) DEF remqueue, At
  <1>12. ASSUME NEW t \in Threads, ull_free(t) PROVE ScanInv'
    BY <1>12 DEF ull_free, Return, Fresh, NoCall, WaitCalls, WakeCalls
  <1>13. ASSUME NEW t \in Threads, pc[t] \in {"locked", "continue"}, args[t] \in WaitCalls,
               NEW p \in ClientOps \cup {"none"}, LastLeaves(t, mine[t], p)
        PROVE  ScanInv'
    BY <1>13 DEF LastLeaves, Fields, WaitCalls, WakeCalls
  <1>14. ASSUME NEW t \in Threads, pc[t] \in {"locked", "continue"}, args[t] \in WaitCalls,
               NEW m \in Nat \ {0}, OneLeaves(t, mine[t], m)
        PROVE  ScanInv'
    BY <1>14 DEF OneLeaves, Return, Fields
  <1>15. ASSUME NEW t \in Threads, pc[t] = "locked", args[t] \in WaitCalls,
               NEW o \in Threads \cup {NoThread}, Blocks(t, mine[t], o)
        PROVE  ScanInv'
    BY <1>15, SMTT(30) DEF Blocks, Fields
  <1> HIDE DEF TypeOK, WaitResults, Busy, CallInv, ScanInv, LockInv
  <1>16. ASSUME NEW t \in Threads, pc[t] = "locked", args[t] \in WakeCalls,
               NEW W \in SUBSET Threads,
               NEW o \in Threads \cup {NoThread}, WakeLeaves(t, mine[t], W, o)
        PROVE  ScanInv'
    <2>1. mine[t] \in Ulls
      BY <1>16, Zenon DEF TypeOK, CallInv, Busy
    <2>2. /\ \A x \in Threads \ {t} : /\ args'[x] = args[x]
                                     /\ pc'[x] = IF x \in W THEN "continue" ELSE pc[x]
          /\ pc'[t] = "user" /\ W \subseteq ts_waitq[mine[t]]
          /\ \A x \in Threads : wr'[x] = IF x \in W THEN "THREAD_AWAKENED" ELSE wr[x]
          /\ UNCHANGED <<ulb_head, ulb_lock, seen>>
      BY <1>16, Zenon DEF WakeLeaves, TypeOK
    <2>3. /\ \A u \in Ulls : ull'[u].key = ull[u].key
          /\ \A x \in Threads : seen[x] \subseteq Ulls
      BY <1>16, <2>1, Zenon DEF WakeLeaves, TypeOK, Fields
    <2>4. \A x \in W : pc[x] = "block"
      BY <2>1, <2>2, Zenon DEF LockInv
    <2> QED BY <1>16, <2>2, <2>3, <2>4, TableAssumption DEF ScanInv, WaitResults
  <1> QED BY <1>1, <1>2, <1>3, <1>4, <1>5, <1>6, <1>7, <1>8,
         <1>9, <1>10, <1>11, <1>12, <1>13, <1>14, <1>15, <1>16, Zenon DEF StepEffect

\* No step makes a second thread reach an object that is not linked yet, or
\* that is being taken out.
LEMMA SoleStep ==
  ASSUME TypeOK, CallInv, SoleInv, NoUseAfterFree, StepEffect
  PROVE  SoleInv'
  <1> USE TableAssumption DEF TypeOK, Busy, CallInv, SoleInv, NoUseAfterFree
  <1>1. CASE UNCHANGED <<kernelVars, threadVars>> /\ word' \in [Keys -> Values]
    BY <1>1, Zenon DEF kernelVars, threadVars
  <1>2. ASSUME NEW t \in Threads, ull_alloc(t) PROVE SoleInv'
    BY <1>2 DEF ull_alloc, At, Fresh
  <1>3. ASSUME NEW t \in Threads, ulock_wake(t) PROVE SoleInv'
    BY <1>3 DEF ulock_wake, At, kernelVars
  <1>4. ASSUME NEW t \in Threads, ull_bucket_lock(t) PROVE SoleInv'
    BY <1>4 DEF ull_bucket_lock, At
  <1>5. ASSUME NEW t \in Threads, ull_get_pass(t) PROVE SoleInv'
    BY <1>5 DEF ull_get_pass, kernelVars
  <1>6. ASSUME NEW t \in Threads, ull_get_found(t) PROVE SoleInv'
    BY <1>6 DEF ull_get_found, At, ull_refcount_inc, WaitCalls, WakeCalls
  <1>7. ASSUME NEW t \in Threads, ull_get_insert(t) PROVE SoleInv'
    BY <1>7 DEF ull_get_insert, At, ull_refcount_inc, Fresh
  <1>8. ASSUME NEW t \in Threads, ull_get_none(t) PROVE SoleInv'
    BY <1>8 DEF ull_get_none, Return
  <1>9. ASSUME NEW t \in Threads, waitq_assert_wait(t) PROVE SoleInv'
    BY <1>9 DEF waitq_assert_wait, At
  <1>10. ASSUME NEW t \in Threads, waitq_abort(t) PROVE SoleInv'
    BY <1>10 DEF waitq_abort, At
  <1>11. ASSUME NEW t \in Threads, remqueue(t) PROVE SoleInv'
    BY <1>11 DEF remqueue, At
  <1>12. ASSUME NEW t \in Threads, ull_free(t) PROVE SoleInv'
    BY <1>12 DEF ull_free, Return, Fresh
  <1>13. ASSUME NEW t \in Threads, pc[t] \in {"locked", "continue"}, args[t] \in WaitCalls,
               NEW p \in ClientOps \cup {"none"}, LastLeaves(t, mine[t], p)
        PROVE  SoleInv'
    BY <1>13 DEF LastLeaves, Fields
  <1>14. ASSUME NEW t \in Threads, pc[t] \in {"locked", "continue"}, args[t] \in WaitCalls,
               NEW m \in Nat \ {0}, OneLeaves(t, mine[t], m)
        PROVE  SoleInv'
    BY <1>14, SMTT(30) DEF OneLeaves, Return, Fields
  <1>15. ASSUME NEW t \in Threads, pc[t] = "locked", args[t] \in WaitCalls,
               NEW o \in Threads \cup {NoThread}, Blocks(t, mine[t], o)
        PROVE  SoleInv'
    <2>1. /\ pc'[t] = "assert_wait" /\ mine'[t] = mine[t]
          /\ \A x \in Threads \ {t} : pc'[x] = pc[x] /\ mine'[x] = mine[x]
      BY <1>15, SMTT(30) DEF Blocks
    <2> QED BY <1>15, <2>1, SMTT(30)
  <1> HIDE DEF TypeOK, Busy, CallInv, SoleInv, NoUseAfterFree
  <1>16. ASSUME NEW t \in Threads, pc[t] = "locked", args[t] \in WakeCalls,
               NEW W \in SUBSET Threads,
               NEW o \in Threads \cup {NoThread}, WakeLeaves(t, mine[t], W, o)
        PROVE  SoleInv'
    <2>1. /\ pc'[t] = "user" /\ mine'[t] = NoUll
          /\ \A x \in Threads \ {t} : mine'[x] = mine[x] /\ pc'[x] \in {pc[x], "continue"}
      BY <1>16, Zenon DEF WakeLeaves, TypeOK
    <2> QED BY <2>1, ZenonT(30) DEF SoleInv
  <1> QED BY <1>1, <1>2, <1>3, <1>4, <1>5, <1>6, <1>7, <1>8,
         <1>9, <1>10, <1>11, <1>12, <1>13, <1>14, <1>15, <1>16, Zenon DEF StepEffect
=============================================================================
