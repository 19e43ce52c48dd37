----------------------------- MODULE MpscQueue ------------------------------
(***************************************************************************)
(* The multi-producer single-consumer queue of osfmk/kern/mpsc_queue.[ch]: *)
(* an intrusive list whose producers exchange the tail and only then link  *)
(* the element to its predecessor, and whose consumer takes the whole list *)
(* at once and may put back what it has not used.                          *)
(*                                                                         *)
(* Each access to a shared pointer is a step.  fifo is a history variable: *)
(* the elements in the order of the exchanges, less those consumed.        *)
(***************************************************************************)
EXTENDS Integers, FiniteSets, Sequences, SequencesExt

CONSTANTS Elements,     \* struct mpsc_queue_chain of the clients
          Producers,
          mpqh_head,         \* &q->mpqh_head
          NULL,
          NotQueued     \* MPSC_QUEUE_NOTQUEUED_MARKER

ASSUME QueueAssumption ==
  /\ mpqh_head \notin Elements /\ NULL \notin Elements /\ NotQueued \notin Elements
  /\ mpqh_head # NULL

VARIABLES mpqc_next,    \* next pointers of the elements and of the head
          mpqh_tail,
          prod,         \* what each producer is doing: the list that it
                        \* appends and the token of update_tail
          cpc,          \* where the consumer is
          cur, last,    \* the rest of the consumer's batch
          head,         \* local head of dequeue_batch and restore_batch
          fifo

shared == <<mpqc_next, mpqh_tail>>
consumer == <<cpc, cur, last, head>>
queueVars == <<shared, prod, consumer, fifo>>

Pointers == Elements \cup {mpqh_head, NULL, NotQueued}

NoAppend == [list |-> <<>>, prev |-> NULL]

\* Lists of one or two distinct elements.
Lists == {<<e>> : e \in Elements}
           \cup {l \in Elements \X Elements : l[1] # l[2]}

QueueTypeOK ==
  /\ mpqc_next \in [Elements \cup {mpqh_head} -> Pointers]
  /\ mpqh_tail \in Elements \cup {mpqh_head}
  /\ prod \in [Producers -> [list : Lists \cup {<<>>},
                             prev : Elements \cup {mpqh_head, NULL}]]
  /\ cpc \in {"idle", "head", "clear", "xchg", "batch", "restore",
              "restore_cas", "restore_wait", "restore_head"}
  /\ cur \in Elements \cup {NULL} /\ last \in Elements \cup {NULL}
  /\ head \in Elements \cup {NULL}
  /\ fifo \in Seq(Elements)

\* MPSC_QUEUE_INITIALIZER and mpsc_queue_init.
QueueInit ==
  /\ mpqc_next = [e \in Elements \cup {mpqh_head} |->
                    IF e = mpqh_head THEN NULL ELSE NotQueued]
  /\ mpqh_tail = mpqh_head
  /\ prod = [p \in Producers |-> NoAppend]
  /\ cpc = "idle" /\ cur = NULL /\ last = NULL /\ head = NULL
  /\ fifo = <<>>

-----------------------------------------------------------------------------
\* __mpsc_queue_append_update_tail on a list that the producer has formed
\* from elements that it owns.
append_update_tail(p) ==
  /\ prod[p] = NoAppend
  /\ \E l \in Lists :
       /\ \A i \in DOMAIN l : mpqc_next[l[i]] = NotQueued
       /\ mpqc_next' = [e \in DOMAIN mpqc_next |->
                          IF e = l[Len(l)] THEN NULL
                          ELSE IF e = l[1] THEN l[2] ELSE mpqc_next[e]]
       /\ prod' = [prod EXCEPT ![p] = [list |-> l, prev |-> mpqh_tail]]
       /\ mpqh_tail' = l[Len(l)]
       /\ fifo' = fifo \o l
  /\ UNCHANGED consumer

\* Mutant: the predecessor is linked to the last element of the list.
append_links_last(p) ==
  /\ prod[p] # NoAppend
  /\ mpqc_next' = [mpqc_next EXCEPT ![prod[p].prev] = Last(prod[p].list)]
  /\ prod' = [prod EXCEPT ![p] = NoAppend]
  /\ UNCHANGED <<mpqh_tail, consumer, fifo>>

\* __mpsc_queue_append_update_prev.
append_update_prev(p) ==
  /\ prod[p] # NoAppend
  /\ mpqc_next' = [mpqc_next EXCEPT ![prod[p].prev] = prod[p].list[1]]
  /\ prod' = [prod EXCEPT ![p] = NoAppend]
  /\ UNCHANGED <<mpqh_tail, consumer, fifo>>

\* Mutant: a queue whose first element is its last is taken for empty.
dequeue_skips_one ==
  /\ cpc = "idle" /\ mpqh_tail \notin {mpqh_head, mpqc_next[mpqh_head]}
  /\ cpc' = "head"
  /\ UNCHANGED <<shared, prod, cur, last, head, fifo>>

\* mpsc_queue_dequeue_batch: the load of the tail ...
dequeue_batch ==
  /\ cpc = "idle" /\ mpqh_tail # mpqh_head
  /\ cpc' = "head"
  /\ UNCHANGED <<shared, prod, cur, last, head, fifo>>

\* ... the load of the head, which waits for an enqueuer ...
dequeue_head ==
  /\ cpc = "head" /\ mpqc_next[mpqh_head] # NULL
  /\ head' = mpqc_next[mpqh_head]
  /\ cpc' = "clear"
  /\ UNCHANGED <<shared, prod, cur, last, fifo>>

\* Mutant: the head is not reset.
dequeue_no_clear ==
  /\ cpc = "clear"
  /\ cpc' = "xchg"
  /\ UNCHANGED <<shared, prod, cur, last, head, fifo>>

\* ... its reset ...
dequeue_clear ==
  /\ cpc = "clear"
  /\ mpqc_next' = [mpqc_next EXCEPT ![mpqh_head] = NULL]
  /\ cpc' = "xchg"
  /\ UNCHANGED <<mpqh_tail, prod, cur, last, head, fifo>>

\* ... and the exchange of the tail.
dequeue_xchg ==
  /\ cpc = "xchg"
  /\ cur' = head /\ last' = mpqh_tail /\ head' = NULL
  /\ mpqh_tail' = mpqh_head
  /\ cpc' = "batch"
  /\ UNCHANGED <<mpqc_next, prod, fifo>>

\* One turn of mpsc_queue_batch_foreach_safe: batch_next finds the next
\* element, waiting for its enqueuer, and the body takes the element off.
batch_foreach ==
  /\ cpc = "batch"
  /\ cur = last \/ mpqc_next[cur] # NULL
  /\ mpqc_next' = [mpqc_next EXCEPT ![cur] = NotQueued]
  /\ fifo' = SelectSeq(fifo, LAMBDA e : e # cur)
  /\ IF cur = last
     THEN cur' = NULL /\ last' = NULL /\ cpc' = "idle"
     ELSE cur' = mpqc_next[cur] /\ UNCHANGED <<last, cpc>>
  /\ UNCHANGED <<mpqh_tail, prod, head>>

\* The batch from cur to last is linked, as restore_batch demands.
Formed ==
  LET walk[n \in 0..Cardinality(Elements)] ==
        IF n = 0 THEN cur
        ELSE IF walk[n - 1] \in Elements THEN mpqc_next[walk[n - 1]]
        ELSE NULL
  IN  \E n \in DOMAIN walk : walk[n] = last

\* mpsc_queue_restore_batch: the load of the head and the link to it ...
restore_batch ==
  /\ cpc = "batch" /\ Formed
  /\ head' = mpqc_next[mpqh_head]
  /\ mpqc_next' = [mpqc_next EXCEPT ![last] = head']
  /\ cpc' = IF head' = NULL THEN "restore_cas" ELSE "restore_head"
  /\ UNCHANGED <<mpqh_tail, prod, cur, last, fifo>>

\* ... when it was NULL, the compare-and-swap of the tail of an empty queue ...
restore_cas ==
  /\ cpc = "restore_cas"
  /\ IF mpqh_tail = mpqh_head
     THEN mpqh_tail' = last /\ cpc' = "restore_head"
     ELSE cpc' = "restore_wait" /\ UNCHANGED mpqh_tail
  /\ UNCHANGED <<mpqc_next, prod, cur, last, head, fifo>>

\* ... when that fails, the head that an enqueuer will write ...
restore_wait ==
  /\ cpc = "restore_wait" /\ mpqc_next[mpqh_head] # NULL
  /\ mpqc_next' = [mpqc_next EXCEPT ![last] = mpqc_next[mpqh_head]]
  /\ cpc' = "restore_head"
  /\ UNCHANGED <<mpqh_tail, prod, cur, last, head, fifo>>

\* ... and the new head.
restore_head ==
  /\ cpc = "restore_head"
  /\ mpqc_next' = [mpqc_next EXCEPT ![mpqh_head] = cur]
  /\ cpc' = "idle" /\ cur' = NULL /\ last' = NULL /\ head' = NULL
  /\ UNCHANGED <<mpqh_tail, prod, fifo>>

Consume == \/ dequeue_batch \/ dequeue_head \/ dequeue_clear \/ dequeue_xchg
           \/ batch_foreach

Restore == restore_batch \/ restore_cas \/ restore_wait \/ restore_head

QueueNext ==
  \/ \E p \in Producers : append_update_tail(p) \/ append_update_prev(p)
  \/ Consume \/ Restore

QueueSpec == QueueInit /\ [][QueueNext]_queueVars

\* Producers run with preemption disabled, and the consumer is scheduled and
\* does not put back batches for ever.
Consumes == Consume \/ restore_cas \/ restore_wait \/ restore_head

QueueFairSpec ==
  /\ QueueSpec
  /\ \A p \in Producers : WF_queueVars(append_update_prev(p))
  /\ WF_queueVars(Consumes)
  /\ SF_queueVars(batch_foreach)
-----------------------------------------------------------------------------
\* The consumer meets the elements in the order in which the producers
\* exchanged the tail, each once, whatever links were missing when it looked
\* and whatever it has put back.
InOrder == cpc = "batch" => fifo # <<>> /\ cur = fifo[1]

\* The list, with its missing links supplied by the producers that owe them.
Link(e) ==
  IF \E p \in Producers : prod[p].prev = e
  THEN prod[CHOOSE p \in Producers : prod[p].prev = e].list[1]
  ELSE mpqc_next[e]

\* While the consumer is outside, the list from the head to the tail is the
\* fifo: nothing is lost, and no two producers owe the same link.
ListIsFifo ==
  cpc = "idle" =>
    /\ mpqh_tail = (IF fifo = <<>> THEN mpqh_head ELSE Last(fifo))
    /\ \A i \in 1..Len(fifo) :
         Link(IF i = 1 THEN mpqh_head ELSE fifo[i - 1]) = fifo[i]
    /\ Link(mpqh_tail) = NULL
    /\ \A p, r \in Producers : prod[p].prev # NULL /\ p # r
                                  => prod[p].prev # prod[r].prev

\* Every element that was appended is consumed.
Consumed == \A e \in Elements : []<>(e \notin ToSet(fifo))
=============================================================================
