---------------------------- MODULE PsynchQueue ----------------------------
(***************************************************************************)
(* What the psynch system calls do to the kernel's record of a condition   *)
(* variable (kern_synch.c, pthread kext): a ksyn_wait_queue_t, kwq, whose  *)
(* queue holds the waiting threads and, for signals that found none, fake  *)
(* entries, in the order of their sequence numbers.                        *)
(*                                                                         *)
(* A step under the kwq's lock is a function of a record that says what    *)
(* has been done so far: the kwq, the threads made runnable, the count and *)
(* the bits that go back to user space.  Sequence numbers wrap at GenSize, *)
(* which is 2^24 in the code.  No thread is cancelled here.                *)
(***************************************************************************)
EXTENDS Integers, Sequences, SequencesExt, FiniteSets

CONSTANT GenSize     \* sequence numbers are counted modulo this
ASSUME SeqAssumption == GenSize \in Nat /\ GenSize > 1 /\ GenSize % 2 = 0

is_seqlower(x, y) == IF x < y THEN 2 * (y - x) < GenSize ELSE 2 * (x - y) >= GenSize
is_seqhigher(x, y) == IF x > y THEN 2 * (x - y) < GenSize ELSE 2 * (y - x) >= GenSize
is_seqhigher_eq(x, y) == x = y \/ is_seqhigher(x, y)
diff_genseq(x, y) == (x - y) % GenSize
Plus(x, n) == (x + n) % GenSize

\* A kwq that is not there.
NoKwq == [inhash |-> FALSE, l |-> 0, s |-> 0, zeroed |-> FALSE, q |-> <<>>, fakecount |-> 0]

Inwait(e) == e.state = "INWAIT"
Fakes(q) == Cardinality({i \in DOMAIN q : ~Inwait(q[i])})
Waiters(q) == {q[i].thread : i \in {j \in DOMAIN q : Inwait(q[j])}}

\* A step before it has done anything to kwq.
Work(kwq) == [kwq |-> kwq, granted |-> {}, cleared |-> {}, count |-> 0, bits |-> {}]

-----------------------------------------------------------------------------
\* The words that the caller read bring those of the kwq up to date.
UPDATE_CVKWQ(kwq, cgen, csgen, cbit) ==
  IF kwq.zeroed
  THEN [kwq EXCEPT !.l = cgen, !.s = csgen, !.zeroed = FALSE]
  ELSE [kwq EXCEPT !.l = IF is_seqhigher(cgen, @) THEN cgen ELSE @,
                   !.s = IF cbit /\ is_seqhigher(csgen, @) THEN csgen ELSE @]

\* Whether ksyn_queue_insert refuses with EBUSY.
QueueBusy(q, lockseq) == q # <<>> /\ lockseq \in {Head(q).lockseq, Last(q).lockseq}

ksyn_queue_insert(q, kwe) ==
  LET i == SelectInSeq(q, LAMBDA e : is_seqhigher(e.lockseq, kwe.lockseq))
  IN IF i = 0 THEN Append(q, kwe) ELSE InsertAt(q, i, kwe)

\* A fake entry, counted whether or not there is a place for it.
ksyn_prepost(kwq, state, lockseq) ==
  [kwq EXCEPT !.q = IF QueueBusy(@, lockseq) THEN @
                    ELSE ksyn_queue_insert(@, [lockseq |-> lockseq, state |-> state,
                                               count |-> 1, thread |-> "none"]),
              !.fakecount = @ + 1]

\* Mutant: only the entry with the waiter's own number is looked for.
find_own_prepost(q, cgen) == SelectInSeq(q, LAMBDA e : e.lockseq = cgen)

\* The fake entry at cgen or above it that a new waiter may use, or the waiter
\* that has its number.
ksyn_queue_find_cvpreposeq(q, cgen) ==
  LET i == SelectInSeq(q, LAMBDA e : is_seqhigher_eq(e.lockseq, cgen))
  IN IF i # 0 /\ Inwait(q[i]) /\ q[i].lockseq # cgen THEN 0 ELSE i

\* The entry that a signal for the numbers from signalseq to uptoseq goes to.
ksyn_queue_find_signalseq(q, uptoseq, signalseq) ==
  LET stop == SelectInSeq(q, LAMBDA e :
                IF Inwait(e) THEN is_seqhigher(e.lockseq, uptoseq)
                                  \/ is_seqhigher_eq(e.lockseq, signalseq)
                             ELSE ~is_seqlower(e.lockseq, uptoseq))
      eligible == SelectInSeq(q, Inwait)
  IN IF stop # 0 /\ (q[stop].state = "BROADCAST" \/ ~is_seqhigher(q[stop].lockseq, uptoseq))
     THEN stop
     ELSE IF stop = 0 \/ eligible < stop THEN eligible ELSE 0

\* The length of the part of the queue up to a number.
UpTo(q, seq) ==
  LET i == SelectInSeq(q, LAMBDA e : is_seqhigher(e.lockseq, seq))
  IN IF i = 0 THEN Len(q) ELSE i - 1

\* Frees the first n entries; the threads among them wake with the M bit.
ksyn_queue_free_items(w, n) ==
  LET freed == SubSeq(w.kwq.q, 1, n)
  IN [w EXCEPT !.kwq.q = SubSeq(@, n + 1, Len(@)),
               !.kwq.fakecount = @ - Fakes(freed),
               !.cleared = @ \cup Waiters(freed)]

ZeroOut(w) == [w EXCEPT !.kwq.l = 0, !.kwq.s = 0, !.kwq.zeroed = TRUE]

ksyn_cvupdate_fixup(w) ==
  IF w.kwq.l = w.kwq.s
  THEN [ZeroOut(ksyn_queue_free_items(w, UpTo(w.kwq.q, w.kwq.l))) EXCEPT !.bits = @ \cup {"C"}]
  ELSE IF w.kwq.q # <<>> /\ w.kwq.fakecount = Len(w.kwq.q)
       THEN [w EXCEPT !.bits = @ \cup {"P"}]
       ELSE w

\* One pass of ksyn_handle_cvbroad over the queue.
BroadcastPass(w, upto) ==
  LET passed == SubSeq(w.kwq.q, 1, UpTo(w.kwq.q, upto))
  IN [w EXCEPT !.kwq.q = SubSeq(@, Len(passed) + 1, Len(@)),
               !.kwq.fakecount = @ - Fakes(passed),
               !.granted = @ \cup Waiters(passed),
               !.count = @ + Cardinality(Waiters(passed))]

\* Whether it has to drop the lock then, for a new entry.
NeedsEntry(w, upto) ==
  w.kwq.l # w.kwq.s /\ Fakes(SubSeq(w.kwq.q, 1, UpTo(w.kwq.q, upto))) = 0

\* A pass with an entry to spare.
ksyn_handle_cvbroad(w, upto) ==
  LET passed == BroadcastPass(w, upto)
  IN IF w.kwq.l # w.kwq.s
     THEN [passed EXCEPT !.kwq = ksyn_prepost(@, "BROADCAST", upto)]
     ELSE passed
=============================================================================
