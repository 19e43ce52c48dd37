------------------------- MODULE UlockTableService -------------------------
(***************************************************************************)
(* The table of UlockTable as the service of one of its keys.              *)
(***************************************************************************)
EXTENDS UlockTable

\* What the service of AnyKey sees: a thread is on the wait queue from the
\* copyin on, for until it is enqueued it holds ull_lock.
KState ==
  [t \in Threads |->
     IF args[t].call # "ulock_wait" THEN "USER"
     ELSE IF args[t].key # AnyKey THEN "USER"
     ELSE IF pc[t] \in {"assert_wait", "block"} THEN "THREAD_WAITING"
     ELSE IF pc[t] = "continue" THEN wr[t] ELSE "USER"]

Expect ==
  [t \in Threads |-> IF KState[t] = "USER" THEN NoThread ELSE args[t].value]

OfKey == {u \in ulb_head : ull[u].key = AnyKey}

Owner == IF OfKey = {} THEN NoThread ELSE ull[CHOOSE u \in OfKey : TRUE].owner

Opcode == IF \A t \in Threads : KState[t] = "USER" THEN "none"
          ELSE ull[CHOOSE u \in OfKey : TRUE].opcode

Service == INSTANCE UlockService
             WITH word <- word[AnyKey], kstate <- KState, ull_owner <- Owner,
                  ull_opcode <- Opcode, expect <- Expect

\* The table implements, for any key, the service in which each ulock call
\* takes effect at one instant: a wait blocks only if the word has the
\* expected value at the instant of the copyin, is on the queue from that
\* instant on, and leaves it by a wake, a timeout or an interrupt.  The service
\* shows the words and the waiters, not the calls: a wake that takes nobody
\* off the queue is a step that it does not see.
ImplementsService == Service!ServiceSpec
=============================================================================
