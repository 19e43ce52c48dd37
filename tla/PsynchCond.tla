----------------------------- MODULE PsynchCond ----------------------------
(***************************************************************************)
(* pthread condition variables over psynch, which the default mutex        *)
(* selects.  User space (libpthread, pthread_cond.c) keeps three words: L  *)
(* numbers the waits, U the signals and S those who have been let go; it   *)
(* reads and swaps them without a lock.  The kernel (kern_synch.c) has a   *)
(* record of its own, that of module PsynchQueue, with a lock of its own,  *)
(* and is told what user space read a while ago.  A signal can overtake    *)
(* the waiter that it is for: it stays in the kernel as a prepost.         *)
(*                                                                         *)
(* What U is in the kernel is never used, and left out; so are the mutex,  *)
(* which only orders the clients, and cancellation.                        *)
(***************************************************************************)
EXTENDS PsynchQueue

CONSTANTS
  Sleepers, Signallers,   \* the threads that wait, and those that signal
  FirstSeq,       \* the numbers that the words may start from
  UBehind,        \* how far U may be behind then
  MaxWaits, MaxSignals

ASSUME PsynchAssumption ==
  /\ FirstSeq \subseteq 0..GenSize-1 /\ UBehind \subseteq 0..GenSize-1
  /\ MaxWaits \in Nat /\ MaxSignals \in Nat

CondThreads == Sleepers \cup Signallers

VARIABLES
  c_lseq, c_useq, c_sseq,   \* the words of the pthread_cond_t
  c_sbits,      \* the C and P bits of S
  kwq,          \* the kernel's record
  retval,       \* kwe_psynchretval: how a thread in the queue was let go
  psynch_pc,    \* where each thread is
  arg,          \* what its call is, and the words as it read them, while needed
  update,       \* the count and the bits it takes back from the kernel
  owed,         \* the signals that have unblocked nobody yet, and for whom
  refused,      \* what the kernel objected to
  waits, signals   \* calls so far

psynchVars == <<c_lseq, c_useq, c_sseq, c_sbits, kwq, retval, psynch_pc, arg, update,
                owed, refused, waits, signals>>
words == <<c_lseq, c_useq, c_sseq, c_sbits>>

NoArg == [goal |-> "wait", l |-> 0, u |-> 0, s |-> 0, cbit |-> FALSE]
NoUpdate == [count |-> 0, bits |-> {}]
NothingOwed == [any |-> <<>>, np |-> {}]

PsynchInit ==
  /\ c_lseq \in FirstSeq
  /\ \E behind \in UBehind : c_useq = (c_lseq - behind) % GenSize
  /\ c_sseq = c_lseq /\ c_sbits = {"C"}
  /\ kwq = NoKwq
  /\ retval = [t \in CondThreads |-> "none"]
  /\ psynch_pc = [t \in CondThreads |-> "idle"]
  /\ arg = [t \in CondThreads |-> NoArg]
  /\ update = [t \in CondThreads |-> NoUpdate]
  /\ owed = NothingOwed /\ refused = {}
  /\ waits = 0 /\ signals = 0

Goto(t, label) == psynch_pc' = [psynch_pc EXCEPT ![t] = label]
Return(t) ==
  /\ Goto(t, "idle")
  /\ arg' = [arg EXCEPT ![t] = NoArg]
  /\ update' = [update EXCEPT ![t] = NoUpdate]

\* The threads that have started to wait, up to number l, and nobody has let go.
Waiting(l) ==
  {t \in CondThreads : /\ arg[t].goal = "wait" /\ ~is_seqhigher(arg[t].l, l)
                       /\ \/ psynch_pc[t] \in {"find", "lock", "asleep"}
                          \/ psynch_pc[t] = "expired" /\ retval[t] = "none"}

\* The obligations of the signals: each is to unblock a thread of its own, a
\* broadcast as many as wait; one to a thread, that thread if it waits, or else
\* it is enough that some other does not stay blocked.
Oblige(goal, l) ==
  LET w == Waiting(l)
  IN IF w = {} THEN owed
     ELSE IF goal \in CondThreads
     THEN [owed EXCEPT !.np = @ \cup {IF goal \in w THEN {goal} ELSE w}]
     ELSE [owed EXCEPT !.any = @ \o [i \in 1..(IF goal = "all" THEN Cardinality(w) ELSE 1) |-> w]]

\* Those that are left when thread t has given up ...
GivenUp(o, t) ==
  [np |-> {set \ {t} : set \in o.np} \ {{}},
   any |-> SelectSeq([i \in DOMAIN o.any |-> o.any[i] \ {t}], LAMBDA set : set # {})]

\* ... and when it is let go, which makes good on the first that it can.
Unblocked(o, t) ==
  GivenUp([np |-> {set \in o.np : t \notin set},
           any |-> RemoveFirstMatch(o.any, LAMBDA set : t \in set)], t)

-----------------------------------------------------------------------------
(* User space *)

\* _pthread_psynch_cond_wait: the waiter takes a number, and the bits with it.
_pthread_psynch_cond_wait(t) ==
  /\ psynch_pc[t] = "idle" /\ waits < MaxWaits
  /\ c_lseq' = Plus(c_lseq, 1)
  /\ c_sbits' = {}
  /\ arg' = [arg EXCEPT ![t] = [NoArg EXCEPT !.l = Plus(c_lseq, 1), !.s = c_sseq,
                                             !.cbit = "C" \in c_sbits]]
  /\ Goto(t, "find")
  /\ waits' = waits + 1
  /\ UNCHANGED <<c_useq, c_sseq, kwq, retval, update, owed, refused, signals>>

\* _pthread_psynch_cond_signal: L is read first.
_pthread_psynch_cond_signal(t, goal) ==
  /\ psynch_pc[t] = "idle" /\ signals < MaxSignals
  /\ arg' = [arg EXCEPT ![t] = [NoArg EXCEPT !.goal = goal, !.l = c_lseq]]
  /\ Goto(t, "words")
  /\ signals' = signals + 1
  /\ UNCHANGED <<words, kwq, retval, update, owed, refused, waits>>

\* U and S are read, and U is moved on.
cond_words(t) ==
  LET l == arg[t].l
      goal == arg[t].goal
      directed == goal \in CondThreads
      from == IF is_seqlower(c_useq, c_sseq) THEN c_sseq ELSE c_useq
      again == arg' = [arg EXCEPT ![t].l = c_lseq] /\ UNCHANGED <<psynch_pc, owed>>
      enter == /\ arg' = [arg EXCEPT ![t] = [@ EXCEPT !.u = c_useq, !.s = c_sseq,
                                                      !.cbit = "C" \in c_sbits]]
               /\ Goto(t, "find")
               /\ owed' = Oblige(goal, l)
  IN /\ psynch_pc[t] = "words"
     /\ \/ /\ l = c_sseq \/ (~directed /\ l = c_useq)
           /\ IF l = c_lseq
              THEN Return(t) /\ owed' = Oblige(goal, l)
              ELSE again /\ UNCHANGED update
           /\ UNCHANGED words
        \/ /\ l # c_sseq /\ directed
           /\ enter /\ UNCHANGED <<words, update>>
        \/ /\ l # c_sseq /\ ~directed /\ l # c_useq
           /\ \/ /\ is_seqhigher(c_sseq, l) \/ is_seqhigher(c_useq, l)
                 /\ again /\ UNCHANGED words
              \/ /\ ~is_seqhigher(c_sseq, l) /\ is_seqhigher(c_useq, c_lseq)
                 /\ c_useq' = c_sseq
                 /\ again /\ UNCHANGED <<c_lseq, c_sseq, c_sbits>>
              \/ /\ ~is_seqhigher(c_sseq, l) /\ ~is_seqhigher(c_useq, l)
                 /\ c_useq' = IF goal = "all" THEN l ELSE Plus(from, 1)
                 /\ enter
                 /\ UNCHANGED <<c_lseq, c_sseq, c_sbits>>
           /\ UNCHANGED update
     /\ UNCHANGED <<kwq, retval, refused, waits, signals>>

\* Mutant: the preposts are left to the kernel.
updateval_leaves_preposts(t) ==
  LET u == update[t]
      nsval == Plus(c_sseq, u.count)
      bits == c_sbits \cup u.bits
  IN /\ psynch_pc[t] = "update"
     /\ Return(t)
     /\ IF diff_genseq(c_lseq, c_sseq) = 0 /\ "P" \notin u.bits
        THEN UNCHANGED words
        ELSE /\ c_sseq' = nsval
             /\ c_sbits' = IF nsval = c_lseq THEN bits \ {"P"} ELSE bits
             /\ UNCHANGED <<c_lseq, c_useq>>
     /\ UNCHANGED <<kwq, retval, owed, refused, waits, signals>>

\* _pthread_cond_updateval: S catches up with what the kernel did, and when it
\* reaches L the preposts that the kernel still has are to be cleared.
_pthread_cond_updateval(t) ==
  LET u == update[t]
      nsval == Plus(c_sseq, u.count)
      bits == c_sbits \cup u.bits
      needclearpre == nsval = c_lseq /\ bits = {"C", "P"}
  IN /\ psynch_pc[t] = "update"
     /\ IF diff_genseq(c_lseq, c_sseq) = 0 /\ "P" \notin u.bits
        THEN Return(t) /\ UNCHANGED words
        ELSE /\ c_sseq' = nsval
             /\ c_sbits' = IF needclearpre THEN {"C"} ELSE bits
             /\ IF needclearpre
                THEN /\ Goto(t, "find")
                     /\ arg' = [arg EXCEPT ![t] = [NoArg EXCEPT !.goal = "clear",
                                                     !.l = c_lseq, !.s = nsval]]
                     /\ update' = [update EXCEPT ![t] = NoUpdate]
                ELSE Return(t)
             /\ UNCHANGED <<c_lseq, c_useq>>
     /\ UNCHANGED <<kwq, retval, owed, refused, waits, signals>>

-----------------------------------------------------------------------------
(* The kernel *)

\* Mutant: a signal that uses up the last number is refused.
valid_below(a) ==
  CASE a.goal = "wait" -> ~is_seqhigher_eq(a.s, a.l)
    [] a.goal = "clear" -> TRUE
    [] OTHER -> /\ a.goal \in CondThreads \/ ~is_seqhigher_eq(Plus(a.u, 1), a.l)
                /\ ~is_seqhigher(a.s, a.l)

\* What the call checks before anything else.
Valid(a) ==
  CASE a.goal = "wait" -> ~is_seqhigher_eq(a.s, a.l)
    [] a.goal = "clear" -> TRUE
    [] OTHER -> /\ a.goal \in CondThreads \/ ~is_seqhigher(Plus(a.u, 1), a.l)
                /\ ~is_seqhigher(a.s, a.l)

\* ksyn_wqfind: the kwq, with a reference, and a new one if there is none.
ksyn_wqfind(t) ==
  /\ psynch_pc[t] = "find"
  /\ IF Valid(arg[t])
     THEN /\ kwq' = IF kwq.inhash THEN kwq
                    ELSE [NoKwq EXCEPT !.inhash = TRUE, !.l = arg[t].l, !.s = arg[t].s]
          /\ Goto(t, "lock")
          /\ UNCHANGED <<arg, update, owed, refused>>
     ELSE /\ refused' = refused \cup {IF arg[t].goal \in CondThreads THEN "directed" ELSE "EINVAL"}
          /\ IF arg[t].goal = "wait"
             THEN /\ update' = [update EXCEPT ![t].count = 1]
                  /\ owed' = GivenUp(owed, t)
                  /\ arg' = [arg EXCEPT ![t] = NoArg]
                  /\ Goto(t, "update")
             ELSE Return(t) /\ UNCHANGED owed
          /\ UNCHANGED kwq
  /\ UNCHANGED <<words, retval, waits, signals>>

\* The threads whose references keep the kwq.
Holders == {t \in CondThreads : psynch_pc[t] \in {"lock", "signal_alloc", "broadcast_alloc",
                                                  "asleep", "awakened", "expired", "release"}}

ksyn_wqrelease(t) ==
  /\ psynch_pc[t] = "release"
  /\ kwq' = IF Holders = {t} /\ kwq.q = <<>> THEN NoKwq ELSE kwq
  /\ IF update[t] = NoUpdate
     THEN Return(t) ELSE Goto(t, "update") /\ UNCHANGED <<arg, update>>
  /\ UNCHANGED <<words, retval, owed, refused, waits, signals>>

\* The end of a step under the lock: w takes effect, the threads it makes
\* runnable wake unless their time was up before, and t goes on.
Done(t, w, label, left) ==
  LET woken == w.granted \cup w.cleared
  IN /\ kwq' = w.kwq
     /\ retval' = [x \in CondThreads |-> IF x \in w.granted THEN "MTX_WAIT"
                                         ELSE IF x \in w.cleared THEN "M" ELSE retval[x]]
     /\ psynch_pc' = [x \in CondThreads |->
                        IF x = t THEN label
                        ELSE IF x \in woken /\ psynch_pc[x] = "asleep" THEN "awakened"
                        ELSE psynch_pc[x]]
     /\ update' = [update EXCEPT ![t] = [count |-> w.count, bits |-> w.bits]]
     /\ owed' = FoldSet(LAMBDA x, o : Unblocked(o, x), left, woken)
     /\ arg' = IF label = "release" THEN [arg EXCEPT ![t] = NoArg] ELSE arg
     /\ UNCHANGED <<words, waits, signals>>

\* The TESTPANICS of the code.
Panics(w) ==
  IF w.kwq.l = w.kwq.s /\ UpTo(w.kwq.q, w.kwq.l) # Len(w.kwq.q)
  THEN {"L == S, but entries in queue beyond S"} ELSE {}

\* _psynch_cvwait: uses a signal that is there already, or sleeps.
_psynch_cvwait(t) ==
  LET a == arg[t]
      w == Work(UPDATE_CVKWQ(kwq, a.l, a.s, a.cbit))
      q == w.kwq.q
      i == ksyn_queue_find_cvpreposeq(q, a.l)
      used == CASE q[i].state = "BROADCAST" -> w
                [] q[i].state = "PREPOST" /\ q[i].lockseq # a.l ->
                     ksyn_handle_cvbroad(w, q[i].lockseq)
                [] q[i].state = "PREPOST" /\ q[i].lockseq = a.l /\ q[i].count > 1 ->
                     [w EXCEPT !.kwq.q[i].count = @ - 1]
                [] OTHER -> [w EXCEPT !.kwq.q = RemoveAt(@, i), !.kwq.fakecount = @ - 1]
      counted == [used EXCEPT !.count = IF @ % 2 = 0 THEN @ + 1 ELSE @,
                              !.kwq.s = Plus(@, 1)]
  IN /\ psynch_pc[t] = "lock" /\ a.goal = "wait"
     /\ IF i = 0
        THEN /\ kwq' = [w.kwq EXCEPT !.q = ksyn_queue_insert(@,
                          [lockseq |-> a.l, state |-> "INWAIT", count |-> 1, thread |-> t])]
             /\ arg' = [arg EXCEPT ![t] = [NoArg EXCEPT !.l = a.l]]
             /\ Goto(t, "asleep")
             /\ refused' = IF QueueBusy(q, a.l) THEN refused \cup {"EBUSY"} ELSE refused
             /\ UNCHANGED <<words, retval, update, owed, waits, signals>>
        ELSE IF Inwait(q[i])
        THEN /\ refused' = refused \cup {"EBUSY"}
             /\ Done(t, [w EXCEPT !.count = 1], "release", Unblocked(owed, t))
        ELSE /\ Done(t, ksyn_cvupdate_fixup(counted), "release", Unblocked(owed, t))
             /\ refused' = refused \cup Panics(counted)
                             \cup (IF used.count # 0 THEN {"woke up threads"} ELSE {})

\* The timeout, or a signal to the thread, ends its sleep.
wait_expires(t) ==
  /\ psynch_pc[t] = "asleep"
  /\ Goto(t, "expired")
  /\ UNCHANGED <<words, kwq, retval, arg, update, owed, refused, waits, signals>>

\* psynch_cvcontinue, of a thread that was woken.
psynch_cvcontinue(t) ==
  /\ psynch_pc[t] = "awakened"
  /\ update' = [update EXCEPT ![t] = IF retval[t] = "M" THEN [count |-> 1, bits |-> {"C"}]
                                     ELSE NoUpdate]
  /\ Goto(t, "release")
  /\ retval' = [retval EXCEPT ![t] = "none"]
  /\ arg' = [arg EXCEPT ![t] = NoArg]
  /\ UNCHANGED <<words, kwq, owed, refused, waits, signals>>

\* psynch_cvcontinue, of one whose time was up: it may have been let go just
\* then; otherwise it leaves the queue, and clears it if it was the last.
psynch_cvcontinue_error(t) ==
  LET i == SelectInSeq(kwq.q, LAMBDA e : e.thread = t)
      w == Work([kwq EXCEPT !.q = IF i = 0 THEN @ ELSE RemoveAt(@, i), !.s = Plus(@, 1)])
      left == [w EXCEPT !.count = 1]
      balanced == ZeroOut(ksyn_queue_free_items(left, Len(left.kwq.q)))
  IN /\ psynch_pc[t] = "expired"
     /\ IF retval[t] # "none"
        THEN /\ update' = [update EXCEPT ![t].count = IF retval[t] = "M" THEN 1 ELSE 0]
             /\ Goto(t, "release")
             /\ retval' = [retval EXCEPT ![t] = "none"]
             /\ arg' = [arg EXCEPT ![t] = NoArg]
             /\ UNCHANGED <<words, kwq, owed, waits, signals>>
        ELSE /\ LET done == IF w.kwq.l = w.kwq.s THEN [balanced EXCEPT !.bits = {"C"}]
                            ELSE IF w.kwq.q # <<>> /\ w.kwq.fakecount = Len(w.kwq.q)
                            THEN [left EXCEPT !.bits = {"P"}] ELSE left
                IN Done(t, done, "release", GivenUp(owed, t))
     /\ UNCHANGED refused

\* The part of __psynch_cvsignal that follows the search.
Signalled(t, w) ==
  LET counted == [w EXCEPT !.kwq.s = Plus(@, w.count)]
  IN /\ Done(t, ksyn_cvupdate_fixup(counted), "release", owed)
     /\ refused' = refused \cup Panics(counted)

Broadcast(t, w) ==
  IF NeedsEntry(w, arg[t].l)
  THEN Done(t, BroadcastPass(w, arg[t].l), "broadcast_alloc", owed) /\ UNCHANGED refused
  ELSE Signalled(t, ksyn_handle_cvbroad(w, arg[t].l))

\* ksyn_cvsignal has found entry i.
SignalEntry(t, w, i) ==
  LET e == w.kwq.q[i]
  IN IF Inwait(e) /\ is_seqlower(e.lockseq, Plus(arg[t].u, 1))
     THEN Broadcast(t, w)
     ELSE Signalled(t,
            CASE Inwait(e) -> [w EXCEPT !.kwq.q = RemoveAt(@, i), !.count = 1,
                                        !.granted = {e.thread}]
              [] e.state = "PREPOST" -> [w EXCEPT !.kwq.q[i].count = @ + 1]
              [] OTHER -> w)

__psynch_cvsignal(t) ==
  LET a == arg[t]
      w == Work(UPDATE_CVKWQ(kwq, a.l, a.s, a.cbit))
      q == w.kwq.q
      i == IF a.goal = "one" THEN ksyn_queue_find_signalseq(q, a.l, Plus(a.u, 1))
           ELSE SelectInSeq(q, LAMBDA e : e.thread = a.goal /\ ~is_seqhigher(e.lockseq, a.l))
  IN /\ psynch_pc[t] = "lock" /\ a.goal \notin {"wait", "clear"}
     /\ IF a.goal = "all" THEN Broadcast(t, w)
        ELSE IF w.kwq.l = w.kwq.s THEN Signalled(t, w)
        ELSE IF i # 0 THEN SignalEntry(t, w, i)
        ELSE IF a.goal = "one" THEN Done(t, w, "signal_alloc", owed) /\ UNCHANGED refused
        ELSE Broadcast(t, w)

\* ksyn_cvsignal has an entry now, and looks again.
cvsignal_rescan(t) ==
  LET a == arg[t]
      i == ksyn_queue_find_signalseq(kwq.q, a.l, Plus(a.u, 1))
  IN /\ psynch_pc[t] = "signal_alloc"
     /\ IF i # 0 THEN SignalEntry(t, Work(kwq), i)
        ELSE Signalled(t, Work(ksyn_prepost(kwq, "PREPOST", a.l)))

\* ksyn_handle_cvbroad has one, and starts over.
cvbroad_retry(t) ==
  /\ psynch_pc[t] = "broadcast_alloc"
  /\ Signalled(t, ksyn_handle_cvbroad([Work(kwq) EXCEPT !.count = update[t].count], arg[t].l))

\* _psynch_cvclrprepost
_psynch_cvclrprepost(t) ==
  /\ psynch_pc[t] = "lock" /\ arg[t].goal = "clear"
  /\ Done(t, ksyn_queue_free_items(Work(kwq), UpTo(kwq.q, arg[t].l)), "release", owed)
  /\ UNCHANGED refused

PsynchStep(t) ==
  \/ cond_words(t) \/ _pthread_cond_updateval(t) \/ ksyn_wqfind(t) \/ ksyn_wqrelease(t)
  \/ _psynch_cvwait(t) \/ psynch_cvcontinue(t) \/ psynch_cvcontinue_error(t)
  \/ __psynch_cvsignal(t) \/ cvsignal_rescan(t) \/ cvbroad_retry(t) \/ _psynch_cvclrprepost(t)

PsynchNext ==
  \E t \in CondThreads :
    \/ t \in Sleepers /\ _pthread_psynch_cond_wait(t)
    \/ wait_expires(t) \/ PsynchStep(t)
    \/ \E goal \in {"one", "all"} \cup Sleepers : t \in Signallers /\ _pthread_psynch_cond_signal(t, goal)

PsynchSpec == PsynchInit /\ [][PsynchNext]_psynchVars
-----------------------------------------------------------------------------
\* Every call has returned but for the waiters that sleep.
Settled == \A t \in CondThreads : psynch_pc[t] \in {"idle", "asleep"}

\* A pthread_cond_signal, _broadcast or _signal_thread_np that was called when
\* threads were waiting has unblocked as many of them as it should by the time
\* all is quiet, although the waiters may not have reached the kernel when the
\* signal does, may time out as they are let go, and although both sides hand
\* the kernel words that are out of date.  A signal to a thread, for which the
\* words are not validated, is lost when the kernel finds them in disorder.
NoSignalLost == Settled /\ "directed" \notin refused => owed = NothingOwed

\* The kernel finds nothing wrong with the words that it is given, other than
\* by a signal to a thread: no EINVAL goes back to a signaller and no EBUSY to
\* a waiter, and the other assertions of its __TESTPANICS__ hold.
NotRefused == refused \subseteq {"directed", "L == S, but entries in queue beyond S"}

\* When all is quiet the two records agree: L is ahead of S by the threads
\* that sleep, those are the ones in the kernel's queue, kw_fakecount is
\* right, and user space knows by the P bit of the preposts that the kernel
\* keeps when nobody waits, since the next waiter must not use them up.
WordsSettle ==
  Settled /\ "L == S, but entries in queue beyond S" \notin refused =>
    LET asleep == {t \in CondThreads : psynch_pc[t] = "asleep"}
    IN /\ diff_genseq(c_lseq, c_sseq) = Cardinality(asleep)
       /\ Waiters(kwq.q) = asleep
       /\ kwq.fakecount = Fakes(kwq.q)
       /\ asleep = {} /\ kwq.fakecount > 0 => "P" \in c_sbits

\* The panic of ksyn_cvupdate_fixup under __TESTPANICS__: once every waiter
\* has been let go, the kernel keeps no entry beyond S.
NoEntriesBeyondS == "L == S, but entries in queue beyond S" \notin refused
=============================================================================
