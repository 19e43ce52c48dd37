----------------------------- MODULE MpscDaemon -----------------------------
(***************************************************************************)
(* The daemon queues of osfmk/kern/mpsc_queue.c: a queue of items with a   *)
(* state word that elects who drains it, and a hierarchy of them.  The     *)
(* base queue is drained by a thread or by a thread call; a nested queue   *)
(* is an element of the base queue when it has something to drain.         *)
(*                                                                         *)
(* The underlying queue is that of MpscQueue, whose operations are taken   *)
(* here to be atomic; each access to mpd_state and each operation on wait  *)
(* queues is a step.                                                       *)
(***************************************************************************)
EXTENDS Integers, Sequences, FiniteSets, SequencesExt

CONSTANTS Base,         \* the queue at the bottom of the hierarchy
          Hierarchies,  \* the sets of queues that may target it
          Items,        \* elements of the clients
          Enqueuers,
          Canceller,    \* the thread that may call cancel_and_wait
          Cancellable,  \* the queues that it may cancel
          IdleCancel,   \* it cancels a nested queue only when it is idle
          None

ASSUME DaemonAssumption ==
  /\ \A nested \in Hierarchies : Base \notin nested
  /\ Canceller \notin Enqueuers
  /\ IdleCancel \in BOOLEAN

VARIABLES mpd_state,
          mpd_queue,
          batch,        \* what is left of the batch of the drain
          dpc,          \* where the drain of each queue is
          sched,        \* the thread of the base queue: "asserted" or
                        \* "running", or its thread call: "idle" or "pending"
          proc,         \* the enqueue in progress of each thread
          cancelled,    \* the queues that were passed to cancel_and_wait
          cwait         \* the canceller is waiting on &mpd_state

daemonVars == <<mpd_state, mpd_queue, batch, dpc, sched, proc, cancelled, cwait>>

\* The queues that were initialized, and those of them with a target.
Queues == DOMAIN mpd_state
Nested == Queues \ {Base}

DaemonThreads == Enqueuers \cup {Canceller}
DaemonStates == {"DRAINING", "WAKEUP", "CANCELED"}

\* mpd_kind of the base queue.
Kind == IF sched \in {"asserted", "running"} THEN "THREAD" ELSE "THREAD_CALL"

\* The queues that clients put items on: the invoke callback of a base queue
\* with nested ones is mpsc_daemon_queue_nested_invoke.
Leaves == IF Nested = {} THEN {Base} ELSE Nested

Linkable == IF Nested = {} THEN Items ELSE Items \cup Nested

NoEnqueue == [pc |-> "idle", q |-> None, elm |-> None, dq |-> None]

DaemonTypeOK ==
  /\ mpd_state \in [Queues -> SUBSET DaemonStates]
  /\ mpd_queue \in [Queues -> Seq(Linkable)]
  /\ batch \in [Queues -> Seq(Linkable)]
  /\ dpc \in [Queues -> {"off", "again", "fix", "dequeue", "invoke", "nested",
                         "wait", "end", "cancel", "terminated"}]
  /\ sched \in {"asserted", "running", "idle", "pending"}
  /\ proc \in [DaemonThreads ->
                 [pc : {"idle", "append", "or", "wakeup", "cancel", "block",
                       "call", "done"},
                  q : Queues \cup {None}, elm : Linkable \cup {None},
                  dq : Queues \cup {None}]]
  /\ cancelled \subseteq Queues
  /\ cwait \in BOOLEAN

\* mpsc_daemon_queue_init_with_thread, _with_thread_call and _with_target.
DaemonInit ==
  /\ \E nested \in Hierarchies :
       LET qs == nested \cup {Base} IN
         /\ mpd_state = [q \in qs |-> {}]
         /\ mpd_queue = [q \in qs |-> <<>>]
         /\ batch = [q \in qs |-> <<>>]
         /\ dpc = [q \in qs |-> "off"]
  /\ sched \in {"asserted", "idle"}
  /\ proc = [t \in DaemonThreads |-> NoEnqueue]
  /\ cancelled = {}
  /\ cwait = FALSE

\* mpqc_next of the element is not the NOTQUEUED marker.
Queued(e) ==
  \/ \E q \in Queues : e \in ToSet(mpd_queue[q]) \/ e \in ToSet(batch[q])
  \/ \E t \in DaemonThreads : proc[t].pc = "append" /\ proc[t].elm = e

\* What a thread does when its call of _mpsc_daemon_queue_enqueue or of
\* _mpsc_daemon_queue_wakeup is over.
Finish(t) == IF t = Canceller THEN [proc[t] EXCEPT !.pc = "block"] ELSE NoEnqueue

-----------------------------------------------------------------------------
\* mpsc_daemon_enqueue: a client enqueues an item that it owns.  No one is
\* allowed to enqueue once cancellation has started.
mpsc_daemon_enqueue(p) ==
  /\ p # Canceller /\ proc[p] = NoEnqueue
  /\ \E q \in Leaves, e \in Items :
       /\ q \notin cancelled /\ ~Queued(e)
       /\ proc' = [proc EXCEPT ![p] = [pc |-> "append", q |-> q, elm |-> e,
                                       dq |-> q]]
  /\ UNCHANGED <<mpd_state, mpd_queue, batch, dpc, sched, cancelled, cwait>>

\* _mpsc_daemon_queue_enqueue: mpsc_queue_append tells whether the queue was
\* empty ...
enqueue_append(t) ==
  /\ proc[t].pc = "append"
  /\ LET q == proc[t].q IN
       /\ mpd_queue' = [mpd_queue EXCEPT ![q] = Append(@, proc[t].elm)]
       /\ proc' = [proc EXCEPT ![t] = IF mpd_queue[q] = <<>>
                                      THEN [@ EXCEPT !.pc = "or"]
                                      ELSE Finish(t)]
  /\ UNCHANGED <<mpd_state, batch, dpc, sched, cancelled, cwait>>

\* _mpsc_daemon_queue_wakeup of q by t: a nested queue is enqueued on its
\* target.
Wakeup(t, q) ==
  IF q = Base THEN [proc[t] EXCEPT !.pc = "wakeup", !.q = q]
  ELSE [proc[t] EXCEPT !.pc = "append", !.q = Base, !.elm = q]

\* Mutant: an earlier WAKEUP is not taken into account.
or_ignores_wakeup(t) ==
  /\ proc[t].pc = "or"
  /\ LET q == proc[t].q IN
       /\ mpd_state' = [mpd_state EXCEPT ![q] = @ \cup {"WAKEUP"}]
       /\ proc' = [proc EXCEPT ![t] = IF "DRAINING" \notin mpd_state[q]
                                      THEN Wakeup(t, q) ELSE Finish(t)]
  /\ UNCHANGED <<mpd_queue, batch, dpc, sched, cancelled, cwait>>

\* ... then it sets WAKEUP, and has to wake the queue up when no one has and
\* no drain will see the bit.
enqueue_or(t) ==
  /\ proc[t].pc = "or"
  /\ LET q == proc[t].q IN
       /\ mpd_state' = [mpd_state EXCEPT ![q] = @ \cup {"WAKEUP"}]
       /\ proc' = [proc EXCEPT ![t] =
                     IF mpd_state[q] \cap {"DRAINING", "WAKEUP"} = {}
                     THEN Wakeup(t, q) ELSE Finish(t)]
  /\ UNCHANGED <<mpd_queue, batch, dpc, sched, cancelled, cwait>>

\* _mpsc_queue_thread_wakeup and _mpsc_queue_thread_call_wakeup.
base_wakeup(t) ==
  /\ proc[t].pc = "wakeup"
  /\ sched' = IF Kind = "THREAD" THEN "running" ELSE "pending"
  /\ proc' = [proc EXCEPT ![t] = Finish(t)]
  /\ UNCHANGED <<mpd_state, mpd_queue, batch, dpc, cancelled, cwait>>

-----------------------------------------------------------------------------
\* The drain has the wait queue of its own thread to handle.
OwnThread(q) == q = Base /\ Kind = "THREAD"

\* The thread of the base queue runs, or its thread call is called.
drain_start ==
  /\ dpc[Base] = "off"
  /\ IF Kind = "THREAD" THEN sched = "running" /\ UNCHANGED sched
     ELSE sched = "pending" /\ sched' = "idle"
  /\ dpc' = [dpc EXCEPT ![Base] = "again"]
  /\ UNCHANGED <<mpd_state, mpd_queue, batch, proc, cancelled, cwait>>

\* _mpsc_daemon_queue_drain: the xor that is to set DRAINING and to clear
\* WAKEUP ...
drain_again(q) ==
  /\ dpc[q] = "again"
  /\ LET st == (mpd_state[q] \cap {"CANCELED"})
                  \cup ({"DRAINING", "WAKEUP"} \ mpd_state[q])
     IN  /\ mpd_state' = [mpd_state EXCEPT ![q] = st]
         /\ dpc' = [dpc EXCEPT ![q] = IF "WAKEUP" \in st THEN "fix"
                                      ELSE "dequeue"]
  /\ UNCHANGED <<mpd_queue, batch, sched, proc, cancelled, cwait>>

\* ... and its correction on cancellation ...
drain_fix(q) ==
  /\ dpc[q] = "fix"
  /\ mpd_state' = [mpd_state EXCEPT ![q] = @ \ {"WAKEUP"}]
  /\ dpc' = [dpc EXCEPT ![q] = "dequeue"]
  /\ UNCHANGED <<mpd_queue, batch, sched, proc, cancelled, cwait>>

\* ... mpsc_queue_dequeue_batch ...
drain_dequeue(q) ==
  /\ dpc[q] = "dequeue"
  /\ batch' = [batch EXCEPT ![q] = mpd_queue[q]]
  /\ mpd_queue' = [mpd_queue EXCEPT ![q] = <<>>]
  /\ dpc' = [dpc EXCEPT ![q] = IF mpd_queue[q] # <<>> THEN "invoke"
                               ELSE IF OwnThread(q) THEN "wait" ELSE "end"]
  /\ UNCHANGED <<mpd_state, sched, proc, cancelled, cwait>>

\* ... the callback on each element, which for a nested queue drains it ...
drain_invoke(q) ==
  /\ dpc[q] = "invoke"
  /\ IF batch[q] = <<>>
     THEN dpc' = [dpc EXCEPT ![q] = "dequeue"] /\ UNCHANGED batch
     ELSE /\ batch' = [batch EXCEPT ![q] = Tail(@)]
          /\ dpc' = IF q \in Leaves THEN dpc
                    ELSE [dpc EXCEPT ![q] = "nested",
                                     ![Head(batch[q])] = "again"]
  /\ UNCHANGED <<mpd_state, mpd_queue, sched, proc, cancelled, cwait>>

\* ... assert_wait in a thread ...
drain_wait(q) ==
  /\ dpc[q] = "wait"
  /\ sched' = "asserted"
  /\ dpc' = [dpc EXCEPT ![q] = "end"]
  /\ UNCHANGED <<mpd_state, mpd_queue, batch, proc, cancelled, cwait>>

\* The drain of q returns: a nested drain returns into that of the base.
Return(q) == IF q = Base THEN [dpc EXCEPT ![q] = "off"]
             ELSE [dpc EXCEPT ![q] = "off", ![Base] = "invoke"]

\* Mutant: WAKEUP is cleared with DRAINING and not looked at.
end_clears_wakeup(q) ==
  /\ dpc[q] = "end"
  /\ mpd_state' = [mpd_state EXCEPT ![q] = @ \ {"DRAINING", "WAKEUP"}]
  /\ dpc' = IF "CANCELED" \in mpd_state[q]
            THEN [dpc EXCEPT ![q] = "cancel"] ELSE Return(q)
  /\ UNCHANGED <<mpd_queue, batch, sched, proc, cancelled, cwait>>

\* Mutant: a drain that starts again keeps DRAINING.
end_keeps_draining(q) ==
  /\ dpc[q] = "end"
  /\ IF "WAKEUP" \in mpd_state[q]
     THEN /\ dpc' = [dpc EXCEPT ![q] = "again"]
          /\ sched' = IF OwnThread(q) THEN "running" ELSE sched
          /\ UNCHANGED mpd_state
     ELSE /\ mpd_state' = [mpd_state EXCEPT ![q] = @ \ {"DRAINING"}]
          /\ dpc' = IF "CANCELED" \in mpd_state[q]
                    THEN [dpc EXCEPT ![q] = "cancel"] ELSE Return(q)
          /\ UNCHANGED sched
  /\ UNCHANGED <<mpd_queue, batch, proc, cancelled, cwait>>

\* ... and the end of DRAINING, unless WAKEUP was set in the meantime ...
drain_end(q) ==
  /\ dpc[q] = "end"
  /\ mpd_state' = [mpd_state EXCEPT ![q] = @ \ {"DRAINING"}]
  /\ IF "WAKEUP" \in mpd_state[q]
     THEN /\ dpc' = [dpc EXCEPT ![q] = "again"]
          /\ sched' = IF OwnThread(q) THEN "running" ELSE sched
     ELSE /\ dpc' = IF "CANCELED" \in mpd_state[q]
                    THEN [dpc EXCEPT ![q] = "cancel"] ELSE Return(q)
          /\ UNCHANGED sched
  /\ UNCHANGED <<mpd_queue, batch, proc, cancelled, cwait>>

\* Mutant: nobody tells the canceller.
cancel_silently(q) ==
  /\ dpc[q] = "cancel"
  /\ IF OwnThread(q) THEN /\ dpc' = [dpc EXCEPT ![q] = "terminated"]
                          /\ sched' = "running"
     ELSE dpc' = Return(q) /\ UNCHANGED sched
  /\ UNCHANGED <<mpd_state, mpd_queue, batch, proc, cancelled, cwait>>

\* ... when the canceller is woken up, and a thread terminates.
drain_cancel(q) ==
  /\ dpc[q] = "cancel"
  /\ cwait' = (cwait /\ proc[Canceller].dq # q)
  /\ IF OwnThread(q) THEN /\ dpc' = [dpc EXCEPT ![q] = "terminated"]
                          /\ sched' = "running"
     ELSE dpc' = Return(q) /\ UNCHANGED sched
  /\ UNCHANGED <<mpd_state, mpd_queue, batch, proc, cancelled>>

-----------------------------------------------------------------------------
\* mpsc_daemon_queue_cancel_and_wait: assert_wait.  The owner of the queue
\* sees to it that no enqueue is in progress, and tears a hierarchy down from
\* the top.
cancel_and_wait ==
  /\ proc[Canceller].pc \in {"idle", "done"}
  /\ \E q \in (Cancellable \cap Queues) \ cancelled :
       /\ \A p \in Enqueuers : proc[p].dq # q
       /\ IF q = Base THEN Nested \subseteq cancelled
          ELSE IdleCancel => mpd_state[q] = {}
       /\ cancelled' = cancelled \cup {q}
       /\ proc' = [proc EXCEPT ![Canceller] =
                     [pc |-> "cancel", q |-> q, elm |-> None, dq |-> q]]
  /\ cwait' = TRUE
  /\ UNCHANGED <<mpd_state, mpd_queue, batch, dpc, sched>>

\* The CANCELED bit; only an idle nested queue needs no wakeup.
cancel_or ==
  /\ proc[Canceller].pc = "cancel"
  /\ LET dq == proc[Canceller].dq IN
       /\ mpd_state' = [mpd_state EXCEPT ![dq] = @ \cup {"CANCELED"}]
       /\ IF dq # Base /\ mpd_state[dq] = {}
          THEN /\ cwait' = FALSE
               /\ proc' = [proc EXCEPT ![Canceller].pc = "block"]
          ELSE /\ proc' = [proc EXCEPT ![Canceller] = Wakeup(Canceller, dq)]
               /\ UNCHANGED cwait
  /\ UNCHANGED <<mpd_queue, batch, dpc, sched, cancelled>>

\* Mutant: the thread call is not cancelled.
woken_leaves_call ==
  /\ proc[Canceller].pc = "block" /\ ~cwait
  /\ proc' = [proc EXCEPT ![Canceller].pc = "done"]
  /\ UNCHANGED <<mpd_state, mpd_queue, batch, dpc, sched, cancelled, cwait>>

\* thread_block is over; a thread call is cancelled ...
cancel_woken ==
  /\ proc[Canceller].pc = "block" /\ ~cwait
  /\ IF proc[Canceller].dq = Base /\ Kind = "THREAD_CALL"
     THEN /\ sched' = "idle"
          /\ proc' = [proc EXCEPT ![Canceller].pc = "call"]
     ELSE /\ proc' = [proc EXCEPT ![Canceller].pc = "done"]
          /\ UNCHANGED sched
  /\ UNCHANGED <<mpd_state, mpd_queue, batch, dpc, cancelled, cwait>>

\* ... and waited for.
cancel_call_wait ==
  /\ proc[Canceller].pc = "call" /\ dpc[Base] = "off"
  /\ proc' = [proc EXCEPT ![Canceller].pc = "done"]
  /\ UNCHANGED <<mpd_state, mpd_queue, batch, dpc, sched, cancelled, cwait>>

Enqueue(t) == enqueue_append(t) \/ enqueue_or(t) \/ base_wakeup(t)

Drain == \/ drain_start
         \/ \E q \in Queues :
              \/ drain_again(q) \/ drain_fix(q) \/ drain_dequeue(q)
              \/ drain_invoke(q) \/ drain_wait(q) \/ drain_end(q)
              \/ drain_cancel(q)

Cancel == cancel_or \/ cancel_woken \/ cancel_call_wait

DaemonNext ==
  \/ \E p \in Enqueuers : mpsc_daemon_enqueue(p)
  \/ \E t \in DaemonThreads : Enqueue(t)
  \/ Drain \/ cancel_and_wait \/ Cancel

DaemonSpec == DaemonInit /\ [][DaemonNext]_daemonVars

\* Threads and thread calls that can run are run; nobody has to enqueue or
\* to cancel.
DaemonFairSpec ==
  /\ DaemonSpec
  /\ \A t \in DaemonThreads : WF_daemonVars(Enqueue(t))
  /\ WF_daemonVars(Drain) /\ WF_daemonVars(Cancel)
-----------------------------------------------------------------------------
\* An element is linked in at most one queue, once: linking it again would
\* overwrite the pointer that holds the rest of the list.
LinkedOnce ==
  \A e \in Linkable, q, r \in Queues :
    LET all == mpd_queue[q] \o batch[q]
    IN  /\ \A i, j \in DOMAIN all : all[i] = e /\ all[j] = e => i = j
        /\ e \in ToSet(all) /\ e \in ToSet(mpd_queue[r] \o batch[r]) => q = r

\* The assertions after the xor: one drain at a time, and one that was not
\* asked for by an enqueuer is that of a cancellation.  Nobody reaches the
\* panic on a use after cancellation.
KernelAssertions ==
  /\ \A q \in Queues :
       dpc[q] = "again" => /\ "DRAINING" \notin mpd_state[q]
                           /\ mpd_state[q] # {}
  /\ \A t \in DaemonThreads :
       proc[t].pc = "or" => "CANCELED" \notin mpd_state[proc[t].q]

\* t is going to wake q up.
Waking(t, q) ==
  IF q = Base THEN proc[t].pc = "wakeup"
  ELSE proc[t].pc = "append" /\ proc[t].elm = q

\* The drain of q will start without anybody's help.
Scheduled(q) ==
  IF q = Base THEN sched \in {"running", "pending"} \/ dpc[q] = "again"
  ELSE \/ q \in ToSet(mpd_queue[Base]) \/ q \in ToSet(batch[Base])
       \/ dpc[q] = "again"

\* What is in a queue is drained: the drain in progress will look again, or
\* a drain is on its way, or the thread that found the queue empty has still
\* to ask for one.
NoStrandedItem ==
  \A q \in Queues :
    /\ "WAKEUP" \in mpd_state[q] /\ "DRAINING" \notin mpd_state[q]
         => Scheduled(q) \/ \E t \in DaemonThreads : Waking(t, q)
    /\ mpd_queue[q] # <<>>
         => \/ "WAKEUP" \in mpd_state[q]
            \/ dpc[q] \in {"again", "fix", "dequeue", "invoke", "nested"}
            \/ \E t \in DaemonThreads : proc[t].pc = "or" /\ proc[t].q = q

\* When mpsc_daemon_queue_cancel_and_wait returns its caller may free the
\* queue: everything in it was drained, its drain is over, and nothing that
\* will run refers to it.
CancelIsFinal ==
  \A q \in cancelled :
    \/ proc[Canceller].dq = q /\ proc[Canceller].pc # "done"
    \/ /\ mpd_queue[q] = <<>> /\ batch[q] = <<>>
       /\ dpc[q] \in {"off", "terminated"}
       /\ IF q = Base THEN sched # "pending" ELSE ~Queued(q)

\* Every item that is put on a queue without nested ones is invoked, and so
\* are the items that are in the queue when it is cancelled.
Invoked ==
  \A e \in Items : []<>(Nested = {} => ~Queued(e))

\* Nested queues share a drain, and one that is refilled for ever keeps it
\* from the others; but while there is an item, items are invoked.
KeepsInvoking ==
  []<>((\E e \in Items : Queued(e))
         => \E q \in Leaves : dpc[q] = "invoke" /\ batch[q] # <<>>)

\* mpsc_daemon_queue_cancel_and_wait returns.
CancelReturns == []<>(proc[Canceller].pc \in {"idle", "done"})
=============================================================================
