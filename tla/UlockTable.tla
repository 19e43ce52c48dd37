----------------------------- MODULE UlockTable -----------------------------
(***************************************************************************)
(* bsd/kern/sys_ulock.c: the hash table of ull_t objects behind ulock_wait *)
(* and ulock_wake, with its two levels of spin locks, its reference counts *)
(* and the invalidation of a key whose last waiter has left.               *)
(*                                                                         *)
(* All keys share one bucket, so that a lookup meets the objects of other  *)
(* keys and objects that are on their way out.  Code that runs under       *)
(* ull_lock and touches only the object is one step; the copyin and the    *)
(* enqueueing on the wait queue are two, since a user store needs no lock. *)
(***************************************************************************)
EXTENDS Integers, FiniteSets

CONSTANTS Threads, NoThread,
          Ulls,         \* the objects of ull_zone
          NoUll,
          Keys,         \* user addresses that hash to the bucket
          AnyKey,       \* one of them, whose service is looked at
          InvalidKey,   \* ulk_key_type ULK_INVALID
          Values,       \* what a user word can hold
          OwnerOf,      \* the port that a value names
          MACH_PORT_DEAD,
          ClientOps     \* operations that clients use

ASSUME TableAssumption ==
  /\ IsFiniteSet(Threads)
  /\ NoThread \notin Threads /\ NoUll \notin Ulls /\ InvalidKey \notin Keys
  /\ AnyKey \in Keys
  /\ MACH_PORT_DEAD \notin Threads \cup {NoThread}
  /\ OwnerOf \in [Values -> Threads \cup {NoThread, MACH_PORT_DEAD}]
  /\ ClientOps \subseteq {"UL_UNFAIR_LOCK", "UL_COMPARE_AND_WAIT"}

VARIABLES
  word,         \* [Keys -> Values], user memory
  live,         \* allocated objects
  ull,          \* [Ulls -> UllRecords]
  ull_lock,     \* [Ulls -> Threads \cup {NoThread}]
  ts_waitq,     \* [Ulls -> SUBSET Threads], the turnstile's wait queue
  ulb_head,     \* objects linked in the bucket
  ulb_lock,     \* holder of the bucket lock
  pc,           \* where each thread is in its system call
  args,         \* arguments of the call
  mine,         \* the object that the thread looked up or allocated
  seen,         \* objects that the lookup has passed
  wr            \* wait result

kernelVars == <<live, ull, ull_lock, ts_waitq, ulb_head, ulb_lock>>
threadVars == <<pc, args, mine, seen, wr>>
vars == <<word, kernelVars, threadVars>>

UllRecords == [key : Keys \cup {InvalidKey}, refcount : Nat, nwaiters : Nat,
               owner : Threads \cup {NoThread}, opcode : ClientOps \cup {"none"}]

WaitResults == {"THREAD_AWAKENED", "THREAD_TIMED_OUT", "THREAD_INTERRUPTED"}

NoCall == [call |-> "none"]
WaitCalls == [call : {"ulock_wait"}, key : Keys, value : Values, op : ClientOps]
WakeCalls == [call : {"ulock_wake"}, key : Keys, op : ClientOps,
              flags : SUBSET {"WAKE_ALL", "WAKE_THREAD", "ALLOW_NON_OWNER"}]

set_owner(op) == op = "UL_UNFAIR_LOCK"

\* The checks at the top of ulock_wake.
FlagsOK(c) ==
  /\ "WAKE_THREAD" \in c.flags => ~("WAKE_ALL" \in c.flags \/ set_owner(c.op))
  /\ "ALLOW_NON_OWNER" \in c.flags => set_owner(c.op)

TypeOK ==
  /\ word \in [Keys -> Values]
  /\ live \subseteq Ulls /\ ulb_head \subseteq Ulls
  /\ ull \in [Ulls -> UllRecords]
  /\ ull_lock \in [Ulls -> Threads \cup {NoThread}]
  /\ ts_waitq \in [Ulls -> SUBSET Threads]
  /\ ulb_lock \in Threads \cup {NoThread}
  /\ pc \in [Threads -> {"user", "ull_get", "scan", "locked", "assert_wait",
                         "block", "continue", "remqueue", "ull_free"}]
  /\ args \in [Threads -> {NoCall} \cup WaitCalls \cup WakeCalls]
  /\ mine \in [Threads -> Ulls \cup {NoUll}]
  /\ seen \in [Threads -> SUBSET Ulls]
  /\ wr \in [Threads -> WaitResults \cup {"none"}]

Fresh(k) == [key |-> k, refcount |-> 1, nwaiters |-> 0, owner |-> NoThread,
             opcode |-> "none"]

Init ==
  /\ word \in [Keys -> Values]
  /\ live = {} /\ ulb_head = {} /\ ulb_lock = NoThread
  /\ ull = [u \in Ulls |-> Fresh(InvalidKey)]
  /\ ull_lock = [u \in Ulls |-> NoThread]
  /\ ts_waitq = [u \in Ulls |-> {}]
  /\ pc = [t \in Threads |-> "user"]
  /\ args = [t \in Threads |-> NoCall]
  /\ mine = [t \in Threads |-> NoUll]
  /\ seen = [t \in Threads |-> {}]
  /\ wr = [t \in Threads |-> "none"]

\* Back to user space, with the locals of the call gone.
Return(t) ==
  /\ pc' = [pc EXCEPT ![t] = "user"]
  /\ args' = [args EXCEPT ![t] = NoCall]
  /\ mine' = [mine EXCEPT ![t] = NoUll]
  /\ seen' = [seen EXCEPT ![t] = {}]
  /\ wr' = [wr EXCEPT ![t] = "none"]

At(t, label) == pc' = [pc EXCEPT ![t] = label]

-----------------------------------------------------------------------------
\* A thread writes the user word.
store(k) ==
  /\ \E v \in Values \ {word[k]} : word' = [word EXCEPT ![k] = v]
  /\ UNCHANGED <<kernelVars, threadVars>>

\* ulock_wait2 up to ull_get's allocation.
ull_alloc(t) ==
  /\ pc[t] = "user"
  /\ \E c \in WaitCalls, u \in Ulls \ live :
       /\ args' = [args EXCEPT ![t] = c]
       /\ live' = live \cup {u}
       /\ ull' = [ull EXCEPT ![u] = Fresh(c.key)]
       /\ mine' = [mine EXCEPT ![t] = u]
  /\ At(t, "ull_get")
  /\ UNCHANGED <<word, ull_lock, ts_waitq, ulb_head, ulb_lock, seen, wr>>

\* ulock_wake up to ull_get(ULL_MUST_EXIST).
ulock_wake(t) ==
  /\ pc[t] = "user"
  /\ \E c \in WakeCalls : /\ FlagsOK(c)
                          /\ args' = [args EXCEPT ![t] = c]
  /\ At(t, "ull_get")
  /\ UNCHANGED <<word, kernelVars, mine, seen, wr>>

ull_bucket_lock(t) ==
  /\ pc[t] = "ull_get"
  /\ ulb_lock = NoThread
  /\ ulb_lock' = t
  /\ At(t, "scan")
  /\ UNCHANGED <<word, live, ull, ull_lock, ts_waitq, ulb_head, args, mine,
                 seen, wr>>

\* One turn of the loop of ull_get that finds another key.
ull_get_pass(t) ==
  /\ pc[t] = "scan"
  /\ \E u \in ulb_head \ seen[t] :
       /\ ull_lock[u] = NoThread
       /\ ull[u].key # args[t].key
       /\ seen' = [seen EXCEPT ![t] = @ \cup {u}]
  /\ UNCHANGED <<word, kernelVars, pc, args, mine, wr>>

ull_refcount_inc(u) == [ull[u] EXCEPT !.refcount = @ + 1]

\* Mutant: the object is found and not referenced.
found_unreferenced(t) ==
  /\ pc[t] = "scan"
  /\ \E u \in ulb_head \ seen[t] :
       /\ ull_lock[u] = NoThread
       /\ ull[u].key = args[t].key
       /\ ull_lock' = [ull_lock EXCEPT ![u] = t]
       /\ mine' = [mine EXCEPT ![t] = u]
  /\ live' = live \ {mine[t]}
  /\ ulb_lock' = NoThread
  /\ seen' = [seen EXCEPT ![t] = {}]
  /\ At(t, "locked")
  /\ UNCHANGED <<word, ull, ts_waitq, ulb_head, args, wr>>

\* The object of the key exists: it stays locked, with one more reference,
\* and the one allocated for a wait is of no use.  ull_free(unused_ull) comes
\* later in the code; no other thread can reach that object.
ull_get_found(t) ==
  /\ pc[t] = "scan"
  /\ \E u \in ulb_head \ seen[t] :
       /\ ull_lock[u] = NoThread
       /\ ull[u].key = args[t].key
       /\ ull_lock' = [ull_lock EXCEPT ![u] = t]
       /\ ull' = [ull EXCEPT ![u] = ull_refcount_inc(u)]
       /\ mine' = [mine EXCEPT ![t] = u]
  /\ live' = live \ {mine[t]}
  /\ ulb_lock' = NoThread
  /\ seen' = [seen EXCEPT ![t] = {}]
  /\ At(t, "locked")
  /\ UNCHANGED <<word, ts_waitq, ulb_head, args, wr>>

\* No object has the key, and the new one is linked, locked.
ull_get_insert(t) ==
  /\ pc[t] = "scan" /\ args[t].call = "ulock_wait"
  /\ seen[t] = ulb_head
  /\ ull_lock' = [ull_lock EXCEPT ![mine[t]] = t]
  /\ ull' = [ull EXCEPT ![mine[t]] = ull_refcount_inc(mine[t])]
  /\ ulb_head' = ulb_head \cup {mine[t]}
  /\ ulb_lock' = NoThread
  /\ seen' = [seen EXCEPT ![t] = {}]
  /\ At(t, "locked")
  /\ UNCHANGED <<word, live, ts_waitq, args, mine, wr>>

\* No object has the key: a wake returns ENOENT.
ull_get_none(t) ==
  /\ pc[t] = "scan" /\ args[t].call = "ulock_wake"
  /\ seen[t] = ulb_head
  /\ ulb_lock' = NoThread
  /\ Return(t)
  /\ UNCHANGED <<word, live, ull, ull_lock, ts_waitq, ulb_head>>

\* ull_put by t of object u, left with the fields q.
ull_put(t, u, q) ==
  /\ ull' = [ull EXCEPT ![u] = q]
  /\ ull_lock' = [ull_lock EXCEPT ![u] = NoThread]
  /\ IF q.refcount > 0
     THEN Return(t)
     ELSE At(t, "remqueue") /\ UNCHANGED <<args, mine, seen, wr>>

\* Mutant: the key of an object without waiters stays valid.
cleanup_keeps_key(t, u, r) ==
  LET n == r.nwaiters - 1 IN
  ull_put(t, u, IF n = 0 THEN [r EXCEPT !.nwaiters = 0, !.owner = NoThread,
                                        !.refcount = @ - 2]
                ELSE [r EXCEPT !.nwaiters = n, !.refcount = @ - 1])

\* Mutant: the owner of an object without waiters lingers.
cleanup_keeps_owner(t, u, r) ==
  LET n == r.nwaiters - 1 IN
  ull_put(t, u, IF n = 0 THEN [r EXCEPT !.nwaiters = 0, !.key = InvalidKey,
                                        !.refcount = @ - 2]
                ELSE [r EXCEPT !.nwaiters = n, !.refcount = @ - 1])

\* ulock_wait_cleanup of thread t on object u whose fields are r, and the
\* ull_put at its end: drop the count and the reference, with the last waiter
\* also the owner, the key and the reference of the table; unlock; take the
\* object out of the table if that was the last reference.
ulock_wait_cleanup(t, u, r) ==
  LET n == r.nwaiters - 1
      q == IF n = 0
           THEN [r EXCEPT !.nwaiters = 0, !.owner = NoThread,
                          !.key = InvalidKey, !.refcount = @ - 2]
           ELSE [r EXCEPT !.nwaiters = n, !.refcount = @ - 1]
  IN  ull_put(t, u, q)

\* ulock_resolve_owner for a wait by t: it fails with EOWNERDEAD, or returns
\* a thread or, for MACH_PORT_DEAD, none.
ResolveFails(t, v) == OwnerOf[v] \in {NoThread, t}
ulock_resolve_owner(v) == IF OwnerOf[v] = MACH_PORT_DEAD THEN NoThread
                          ELSE OwnerOf[v]

\* Mutant: the object is unlocked between the copyin and the enqueueing.
compare_unlocks(t) ==
  LET u == mine[t] a == args[t] IN
  /\ pc[t] = "locked" /\ a.call = "ulock_wait"
  /\ IF word[a.key] # a.value \/ ResolveFails(t, a.value)
     THEN ulock_wait_cleanup(t, u, [ull[u] EXCEPT !.nwaiters = @ + 1,
                                                  !.opcode = a.op])
     ELSE /\ ull' = [ull EXCEPT ![u].nwaiters = @ + 1, ![u].opcode = a.op,
                                ![u].owner = ulock_resolve_owner(a.value)]
          /\ ull_lock' = [ull_lock EXCEPT ![u] = NoThread]
          /\ At(t, "assert_wait")
          /\ UNCHANGED <<args, mine, seen, wr>>
  /\ UNCHANGED <<word, live, ts_waitq, ulb_head, ulb_lock>>

\* ulock_wait2 under ull_lock: the count, the operation, the copyin and the
\* owner.  It goes on to block, or leaves through out_locked: the operation
\* differs (EDOM), the copyin fails (EFAULT), the word has another value, or
\* the value names no other thread (EOWNERDEAD).
ulock_wait_compare(t) ==
  LET u == mine[t]
      a == args[t]
      counted == [ull[u] EXCEPT !.nwaiters = @ + 1,
                    !.opcode = IF @ = "none" THEN a.op ELSE @]
  IN  /\ pc[t] = "locked" /\ a.call = "ulock_wait"
      /\ \/ ulock_wait_cleanup(t, u, counted)      \* EFAULT, at any time
         \/ /\ \/ counted.opcode # a.op
               \/ word[a.key] # a.value
               \/ set_owner(a.op) /\ ResolveFails(t, a.value)
            /\ ulock_wait_cleanup(t, u, counted)
         \/ /\ counted.opcode = a.op
            /\ word[a.key] = a.value
            /\ ~(set_owner(a.op) /\ ResolveFails(t, a.value))
            /\ ull' = [ull EXCEPT ![u] =
                 IF set_owner(a.op)
                 THEN [counted EXCEPT !.owner = ulock_resolve_owner(a.value)]
                 ELSE counted]
            /\ At(t, "assert_wait")
            /\ UNCHANGED <<ull_lock, args, mine, seen, wr>>
      /\ UNCHANGED <<word, live, ts_waitq, ulb_head, ulb_lock>>

\* waitq_assert_wait64 and ull_unlock; a thread with an abort pending does
\* not get on the queue.
waitq_assert_wait(t) ==
  /\ pc[t] = "assert_wait"
  /\ \/ /\ ts_waitq' = [ts_waitq EXCEPT ![mine[t]] = @ \cup {t}]
        /\ At(t, "block")
        /\ UNCHANGED wr
     \/ /\ wr' = [wr EXCEPT ![t] = "THREAD_INTERRUPTED"]
        /\ At(t, "continue")
        /\ UNCHANGED ts_waitq
  /\ ull_lock' = [ull_lock EXCEPT ![mine[t]] = NoThread]
  /\ UNCHANGED <<word, live, ull, ulb_head, ulb_lock, args, mine, seen>>

\* The deadline passes or a signal aborts the wait.
waitq_abort(t) ==
  /\ pc[t] = "block"
  /\ ts_waitq' = [ts_waitq EXCEPT ![mine[t]] = @ \ {t}]
  /\ wr' = [wr EXCEPT ![t] = "THREAD_TIMED_OUT"]
  /\ At(t, "continue")
  /\ UNCHANGED <<word, live, ull, ull_lock, ulb_head, ulb_lock, args, mine, seen>>

\* ulock_wait_continue, once it gets ull_lock.
ulock_wait_continue(t) ==
  /\ pc[t] = "continue"
  /\ ull_lock[mine[t]] = NoThread
  /\ ulock_wait_cleanup(t, mine[t], ull[mine[t]])
  /\ UNCHANGED <<word, live, ts_waitq, ulb_head, ulb_lock>>

\* The end of ull_put: unlink the object under the bucket lock.
remqueue(t) ==
  /\ pc[t] = "remqueue"
  /\ ulb_lock = NoThread
  /\ ulb_head' = ulb_head \ {mine[t]}
  /\ At(t, "ull_free")
  /\ UNCHANGED <<word, live, ull, ull_lock, ts_waitq, ulb_lock, args, mine,
                 seen, wr>>

\* What the object held is forgotten: an allocation sets every field.
ull_free(t) ==
  /\ pc[t] = "ull_free"
  /\ live' = live \ {mine[t]}
  /\ ull' = [ull EXCEPT ![mine[t]] = Fresh(InvalidKey)]
  /\ Return(t)
  /\ UNCHANGED <<word, ull_lock, ts_waitq, ulb_head, ulb_lock>>

\* The wait queue hands out the threads in W with THREAD_AWAKENED.
waitq_wakeup(u, W) ==
  /\ ts_waitq' = [ts_waitq EXCEPT ![u] = @ \ W]
  /\ wr' = [x \in Threads |-> IF x \in W THEN "THREAD_AWAKENED" ELSE wr[x]]

\* ulock_wake under ull_lock, and its ull_put.
ulock_wake_locked(t) ==
  LET u == mine[t]
      a == args[t]
      bail == \/ a.op # ull[u].opcode
              \/ /\ set_owner(a.op)
                 /\ ull[u].owner # t
                 /\ "ALLOW_NON_OWNER" \notin a.flags
      \* the sets of threads that the wait queue may hand out
      woken == CASE bail -> {{}}
                 [] ~bail /\ "WAKE_ALL" \in a.flags -> {ts_waitq[u]}
                 [] ~bail /\ "WAKE_THREAD" \in a.flags ->
                      {{x} \cap ts_waitq[u] : x \in Threads \ {t}}
                 [] OTHER -> IF ts_waitq[u] = {} THEN {{}}
                             ELSE {{x} : x \in ts_waitq[u]}
      new_owner(W) == IF "WAKE_ALL" \in a.flags \/ W = {} THEN NoThread
                      ELSE CHOOSE x \in W : TRUE
      last == ull[u].refcount = 1
  IN  /\ pc[t] = "locked" /\ a.call = "ulock_wake"
      /\ \E W \in woken :
           /\ waitq_wakeup(u, W)
           /\ ull' = [ull EXCEPT ![u] = [ull[u] EXCEPT !.refcount = @ - 1,
                !.owner = IF bail \/ ~set_owner(a.op) THEN @ ELSE new_owner(W)]]
           /\ pc' = [x \in Threads |->
                       IF x = t THEN (IF last THEN "remqueue" ELSE "user")
                       ELSE IF x \in W THEN "continue" ELSE pc[x]]
      /\ ull_lock' = [ull_lock EXCEPT ![u] = NoThread]
      /\ args' = [args EXCEPT ![t] = NoCall]
      /\ mine' = [mine EXCEPT ![t] = IF last THEN @ ELSE NoUll]
      /\ UNCHANGED <<word, live, ulb_head, ulb_lock, seen>>

Next ==
  \/ \E k \in Keys : store(k)
  \/ \E t \in Threads :
       \/ ull_alloc(t) \/ ulock_wake(t)
       \/ ull_bucket_lock(t) \/ ull_get_pass(t) \/ ull_get_found(t)
       \/ ull_get_insert(t) \/ ull_get_none(t)
       \/ ulock_wait_compare(t) \/ waitq_assert_wait(t) \/ waitq_abort(t)
       \/ ulock_wait_continue(t) \/ remqueue(t) \/ ull_free(t)
       \/ ulock_wake_locked(t)

Spec == Init /\ [][Next]_vars
-----------------------------------------------------------------------------
\* Threads that ull_nwaiters of u has to count.
Waiting(u) == {t \in Threads : /\ mine[t] = u /\ args[t].call = "ulock_wait"
                               /\ pc[t] \in {"assert_wait", "block", "continue"}}

\* No use after free: what the table links, what a thread has looked up and
\* what a thread has locked is allocated, although ull_put unlocks an object
\* before it unlinks and frees it.
NoUseAfterFree ==
  /\ ulb_head \subseteq live
  /\ \A t \in Threads : mine[t] # NoUll => mine[t] \in live
  /\ \A u \in Ulls : ull_lock[u] # NoThread => u \in live

\* ull_nwaiters, which ulock_wait returns, is the number of threads that
\* wait; the references are those of the table, of each waiter and of the
\* thread that has the object locked.  An object without a key has no
\* references left and one thread that is removing it.
CountsExact ==
  \A u \in ulb_head :
    IF ull[u].key # InvalidKey
    THEN /\ ull[u].nwaiters = Cardinality(Waiting(u))
         /\ ull[u].refcount = 1 + Cardinality(Waiting(u))
              + (IF \E t \in Threads : mine[t] = u /\ pc[t] = "locked"
                 THEN 1 ELSE 0)
    ELSE /\ ull[u].refcount = 0 /\ Waiting(u) = {}
         /\ Cardinality({t \in Threads : mine[t] = u /\ pc[t] = "remqueue"}) = 1

\* The assertions of ulock_wake (an object without owner semantics has no
\* owner) and of ull_free (no owner, no waiters, not locked).
KernelAssertions ==
  \A t \in Threads :
    /\ pc[t] = "locked" /\ args[t].call = "ulock_wake"
         /\ args[t].op = ull[mine[t]].opcode /\ ~set_owner(args[t].op)
         => ull[mine[t]].owner = NoThread
    /\ pc[t] = "ull_free" => /\ ull[mine[t]].owner = NoThread
                             /\ ts_waitq[mine[t]] = {}
                             /\ ull_lock[mine[t]] = NoThread
=============================================================================
