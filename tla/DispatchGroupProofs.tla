------------------------ MODULE DispatchGroupProofs ------------------------
(***************************************************************************)
(* Proofs about DispatchGroup for every finite set of threads, every set   *)
(* of blocks and all bounds: a wait that returns 0 saw the group empty,    *)
(* and the group outlives its use.                                         *)
(***************************************************************************)
EXTENDS DispatchGroup, TLAPS

\* The bits that dispatch_group_leave has to clear in a state it has read.
ToClear(s) == s.notifs \/ (s.waiters /\ s.count = 0)

\* In the first half of a call of enter that found the group empty, and of a
\* call of notify that found the list empty.
Entering(t) == group_pc[t] = "enter"
Retaining(t) == group_pc[t] = "notify_retain"
Heading(t) == Retaining(t) \/ (group_pc[t] = "notify_link" /\ local[t].empty)
Notifying(t) == group_pc[t] \in {"notify_retain", "notify_link"}

\* The threads that have one reference, or a second one, to give back.
Owes(t) == group_pc[t] = "clear" \/ (group_pc[t] \in Wakes /\ local[t].refs # 0)
OwesTwo(t) == group_pc[t] \in Wakes /\ local[t].refs = 2
Owing == {t \in Workers : Owes(t)}
OwingTwo == {t \in Workers : OwesTwo(t)}

\* The references that clients, a group that is not empty, and a list that
\* is not empty hold.
ClientRef == IF held THEN 1 ELSE 0
CountRef == IF dg_state.count > 0 /\ \A t \in Workers : ~Entering(t) THEN 1 ELSE 0
ListRef == IF dg_notify # <<>> /\ \A t \in Workers : ~Retaining(t) THEN 1 ELSE 0

\* What a thread's position says of its locals.
LocalInv ==
  \A t \in Workers :
    /\ group_pc[t] \in {"submit", "wake", "release"} => local[t].refs # 0
    /\ group_pc[t] = "capture" => local[t].refs # 2
    /\ group_pc[t] \in Wakes /\ local[t].block = NoBlock => local[t].refs # 0
    /\ Notifying(t) \/ group_pc[t] = "notify_flag"
         => local[t].refs = 0 /\ local[t].block # NoBlock
    /\ group_pc[t] = "clear" => local[t].block = NoBlock
    /\ group_pc[t] = "submit" => local[t].snapshot # <<>>
    /\ group_pc[t] \in {"idle", "enter"} => local[t] = NoLocal

\* After the clients' release only calls of leave are in progress.
HeldInv ==
  ~held => \A t \in Workers : \/ group_pc[t] \in {"idle", "clear"}
                              \/ group_pc[t] \in Wakes /\ local[t].block = NoBlock

\* A block that is being registered is not linked before its turn, and the
\* one at the head of the list belongs to the thread that found it empty.
NotifyInv ==
  /\ \A b \in Blocks : block[b] = "new" => b \notin linked
  /\ \A t \in Workers : Notifying(t) =>
       local[t].block \notin linked /\ block[local[t].block] # "new"
  /\ \A t, u \in Workers : Notifying(t) /\ Notifying(u) /\ t # u
                             => local[t].block # local[u].block
  /\ \A t \in Workers : Heading(t) =>
       dg_notify # <<>> /\ Head(dg_notify) = local[t].block
  /\ \A t, u \in Workers : Heading(t) /\ Heading(u) => t = u

\* The count in the word is that of the calls that returned and of the one
\* that has yet to retain the group; there is room for the carry.
CountInv ==
  /\ \A t, u \in Workers : Entering(t) /\ Entering(u) => t = u
  /\ dg_state.count = entered + (IF \E t \in Workers : Entering(t) THEN 1 ELSE 0)
  /\ dg_state.count > 0 => dg_state.gen < MaxGen

\* The bits of an empty group are on their way to be cleared.
WordInv ==
  dg_state.count = 0 /\ (dg_state.waiters \/ dg_state.notifs)
    => \E t \in Workers : group_pc[t] = "clear" /\ ToClear(local[t].state)

\* The reference count is the number of references.
RefInv ==
  do_ref_cnt = ClientRef + CountRef + ListRef + Cardinality(Owing) + Cardinality(OwingTwo)

\* The inductive invariant.
GroupInv ==
  /\ GroupTypeOK /\ LocalInv /\ HeldInv /\ NotifyInv /\ CountInv /\ WordInv
  /\ RefInv /\ WaitSawEmpty /\ ~group_crash
-----------------------------------------------------------------------------
\* What the steps do, branch by branch.
Word(g, c, w, n) == [gen |-> g, count |-> c, waiters |-> w, notifs |-> n]

Recorded(t, s, r, n, b, e) ==
  local' = [local EXCEPT ![t] = [state |-> s, refs |-> r, snapshot |-> n,
                                 block |-> b, empty |-> e]]

\* A call of enter that found the group empty, and one that did not.
EnterFirst(t) ==
  /\ held /\ group_pc[t] = "idle"
  /\ dg_state.count = 0 /\ dg_state.gen < MaxGen
  /\ dg_state' = Word(dg_state.gen, 1, dg_state.waiters, dg_state.notifs)
  /\ group_pc' = [group_pc EXCEPT ![t] = "enter"] /\ entered' = entered
  /\ do_ref_cnt' = do_ref_cnt /\ held' = held /\ group_crash' = group_crash
  /\ dg_notify' = dg_notify /\ linked' = linked /\ block' = block
  /\ local' = local /\ emptied' = emptied

EnterMore(t) ==
  /\ group_pc[t] = "idle" /\ dg_state.count # 0
  /\ dg_state' = Word(dg_state.gen, dg_state.count + 1, dg_state.waiters, dg_state.notifs)
  /\ group_pc' = group_pc /\ entered' = entered + 1
  /\ do_ref_cnt' = do_ref_cnt /\ held' = held /\ group_crash' = group_crash
  /\ dg_notify' = dg_notify /\ linked' = linked /\ block' = block
  /\ local' = local /\ emptied' = emptied

\* The addition of a leave that empties the group, and of one that does not.
LeaveLast(t) ==
  LET new == Word(dg_state.gen + 1, 0, dg_state.waiters, dg_state.notifs) IN
  /\ group_pc[t] = "idle" /\ entered > 0 /\ dg_state.count = 1
  /\ dg_state' = new
  /\ group_pc' = [group_pc EXCEPT ![t] = "clear"] /\ entered' = entered - 1
  /\ Recorded(t, new, local[t].refs, local[t].snapshot, local[t].block, local[t].empty)
  /\ emptied' = [u \in Workers |-> group_pc[u] \in Waits]
  /\ block' = [b \in Blocks |-> IF block[b] = "queued" THEN "due" ELSE block[b]]
  /\ do_ref_cnt' = do_ref_cnt /\ held' = held /\ group_crash' = group_crash
  /\ dg_notify' = dg_notify /\ linked' = linked

LeaveMore(t) ==
  /\ group_pc[t] = "idle" /\ entered > 0 /\ dg_state.count # 1
  /\ dg_state' = Word(dg_state.gen, dg_state.count - 1, dg_state.waiters, dg_state.notifs)
  /\ group_pc' = group_pc /\ entered' = entered - 1
  /\ do_ref_cnt' = do_ref_cnt /\ held' = held /\ group_crash' = group_crash
  /\ dg_notify' = dg_notify /\ linked' = linked /\ block' = block
  /\ local' = local /\ emptied' = emptied

\* The loop that clears the bits: there are none, the swap succeeds, or the
\* word has changed.
ClearEnds(t) ==
  /\ group_pc[t] = "clear"
  /\ Recorded(t, local[t].state, 1, local[t].snapshot, local[t].block, local[t].empty)
  /\ \E label \in {"capture", "wake", "release"} :
       group_pc' = [group_pc EXCEPT ![t] = label]
  /\ entered' = entered
  /\ do_ref_cnt' = do_ref_cnt /\ held' = held /\ group_crash' = group_crash
  /\ dg_notify' = dg_notify /\ linked' = linked /\ block' = block /\ emptied' = emptied

ClearNone(t) == ClearEnds(t) /\ ~ToClear(local[t].state) /\ dg_state' = dg_state

ClearDone(t) ==
  /\ ClearEnds(t)
  /\ dg_state' = Word(dg_state.gen, dg_state.count,
                      dg_state.waiters /\ dg_state.count # 0, FALSE)

ClearAgain(t) ==
  /\ group_pc[t] = "clear" /\ group_pc' = group_pc
  /\ Recorded(t, dg_state, local[t].refs, local[t].snapshot, local[t].block, local[t].empty)
  /\ dg_state' = dg_state /\ entered' = entered
  /\ do_ref_cnt' = do_ref_cnt /\ held' = held /\ group_crash' = group_crash
  /\ dg_notify' = dg_notify /\ linked' = linked /\ block' = block /\ emptied' = emptied

\* The list is taken, and its blocks are submitted.
Captured(t) ==
  /\ group_pc[t] = "capture" /\ dg_notify # <<>> /\ Head(dg_notify) \in linked
  /\ Recorded(t, local[t].state, local[t].refs + 1, dg_notify, local[t].block, local[t].empty)
  /\ group_pc' = [group_pc EXCEPT ![t] = "submit"]
  /\ dg_state' = dg_state /\ entered' = entered
  /\ do_ref_cnt' = do_ref_cnt /\ held' = held /\ group_crash' = group_crash
  /\ dg_notify' = <<>> /\ linked' = linked /\ block' = block /\ emptied' = emptied

Submitted(t) ==
  /\ group_pc[t] = "submit"
  /\ \E n \in Seq(Blocks), label \in {"submit", "wake", "release"} :
       /\ label = "submit" => n # <<>>
       /\ Recorded(t, local[t].state, local[t].refs, n, local[t].block, local[t].empty)
       /\ group_pc' = [group_pc EXCEPT ![t] = label]
  /\ linked' \subseteq linked
  /\ block' \in [Blocks -> {"new", "queued", "due", "submitted", "early"}]
  /\ \A b \in Blocks : block'[b] = "new" => block[b] = "new"
  /\ dg_state' = dg_state /\ entered' = entered
  /\ do_ref_cnt' = do_ref_cnt /\ held' = held /\ group_crash' = group_crash
  /\ dg_notify' = dg_notify /\ emptied' = emptied

\* The waiters are woken.
Woken(t) ==
  /\ group_pc[t] = "wake"
  /\ group_pc' = [u \in Workers |-> IF u = t THEN "release"
                                    ELSE IF group_pc[u] = "asleep" THEN "awake"
                                    ELSE group_pc[u]]
  /\ dg_state' = dg_state /\ entered' = entered
  /\ do_ref_cnt' = do_ref_cnt /\ held' = held /\ group_crash' = group_crash
  /\ dg_notify' = dg_notify /\ linked' = linked /\ block' = block
  /\ local' = local /\ emptied' = emptied

\* A wait begins, goes on from place to place, and returns.
Waiting(t) ==
  LET new == Word(dg_state.gen, dg_state.count, TRUE, dg_state.notifs) IN
  /\ held /\ group_pc[t] = "idle" /\ dg_state.count # 0
  /\ dg_state' = new
  /\ Recorded(t, new, local[t].refs, local[t].snapshot, local[t].block, local[t].empty)
  /\ emptied' = [emptied EXCEPT ![t] = FALSE]
  /\ group_pc' = [group_pc EXCEPT ![t] = "wait"] /\ entered' = entered
  /\ do_ref_cnt' = do_ref_cnt /\ held' = held /\ group_crash' = group_crash
  /\ dg_notify' = dg_notify /\ linked' = linked /\ block' = block

WaitMoves(t) ==
  /\ group_pc[t] \in Waits
  /\ \E label \in Waits : group_pc' = [group_pc EXCEPT ![t] = label]
  /\ dg_state' = dg_state /\ entered' = entered
  /\ do_ref_cnt' = do_ref_cnt /\ held' = held /\ group_crash' = group_crash
  /\ dg_notify' = dg_notify /\ linked' = linked /\ block' = block
  /\ local' = local /\ emptied' = emptied

WaitReturns(t) ==
  /\ group_pc[t] \in Waits
  /\ GroupReturn(t) /\ emptied' = [emptied EXCEPT ![t] = FALSE]
  /\ dg_state' = dg_state /\ entered' = entered
  /\ do_ref_cnt' = do_ref_cnt /\ held' = held /\ group_crash' = group_crash
  /\ dg_notify' = dg_notify /\ linked' = linked /\ block' = block

\* A block is put on the list, which is empty or not ...
NotifyBegins(t, b) ==
  /\ held /\ group_pc[t] = "idle" /\ block[b] = "new"
  /\ \E label \in {"due", "queued"} : block' = [block EXCEPT ![b] = label]
  /\ dg_notify' = Append(dg_notify, b)
  /\ dg_state' = dg_state /\ entered' = entered
  /\ do_ref_cnt' = do_ref_cnt /\ held' = held /\ group_crash' = group_crash
  /\ linked' = linked /\ emptied' = emptied

NotifyFirst(t, b) ==
  /\ NotifyBegins(t, b) /\ dg_notify = <<>>
  /\ Recorded(t, local[t].state, local[t].refs, local[t].snapshot, b, TRUE)
  /\ group_pc' = [group_pc EXCEPT ![t] = "notify_retain"]

NotifyMore(t, b) ==
  /\ NotifyBegins(t, b) /\ dg_notify # <<>>
  /\ Recorded(t, local[t].state, local[t].refs, local[t].snapshot, b, FALSE)
  /\ group_pc' = [group_pc EXCEPT ![t] = "notify_link"]

\* ... and is linked, which ends the call unless the list was empty.
LinkFirst(t) ==
  /\ group_pc[t] = "notify_link" /\ local[t].empty
  /\ linked' = linked \cup {local[t].block}
  /\ group_pc' = [group_pc EXCEPT ![t] = "notify_flag"] /\ local' = local
  /\ dg_state' = dg_state /\ entered' = entered
  /\ do_ref_cnt' = do_ref_cnt /\ held' = held /\ group_crash' = group_crash
  /\ dg_notify' = dg_notify /\ block' = block /\ emptied' = emptied

LinkMore(t) ==
  /\ group_pc[t] = "notify_link" /\ ~local[t].empty
  /\ linked' = linked \cup {local[t].block}
  /\ GroupReturn(t)
  /\ dg_state' = dg_state /\ entered' = entered
  /\ do_ref_cnt' = do_ref_cnt /\ held' = held /\ group_crash' = group_crash
  /\ dg_notify' = dg_notify /\ block' = block /\ emptied' = emptied

\* The bit is set, or the caller of notify does the wake itself.
FlagSets(t) ==
  /\ group_pc[t] = "notify_flag"
  /\ dg_state.count # 0 \/ dg_state.waiters \/ dg_state.notifs
  /\ dg_state' = Word(dg_state.gen, dg_state.count, dg_state.waiters, TRUE)
  /\ GroupReturn(t)
  /\ entered' = entered
  /\ do_ref_cnt' = do_ref_cnt /\ held' = held /\ group_crash' = group_crash
  /\ dg_notify' = dg_notify /\ linked' = linked /\ block' = block /\ emptied' = emptied

FlagWakes(t) ==
  /\ group_pc[t] = "notify_flag"
  /\ Recorded(t, Word(dg_state.gen, dg_state.count, dg_state.waiters, TRUE),
              local[t].refs, local[t].snapshot, local[t].block, local[t].empty)
  /\ group_pc' = [group_pc EXCEPT ![t] = "capture"]
  /\ dg_state' = dg_state /\ entered' = entered
  /\ do_ref_cnt' = do_ref_cnt /\ held' = held /\ group_crash' = group_crash
  /\ dg_notify' = dg_notify /\ linked' = linked /\ block' = block /\ emptied' = emptied

GroupEffect(t) ==
  \/ EnterFirst(t) \/ EnterMore(t) \/ enter_retain(t) \/ LeaveLast(t) \/ LeaveMore(t)
  \/ ClearNone(t) \/ ClearDone(t) \/ ClearAgain(t)
  \/ Captured(t) \/ Submitted(t) \/ Woken(t) \/ wake_release(t)
  \/ Waiting(t) \/ WaitMoves(t) \/ WaitReturns(t)
  \/ \E b \in Blocks : NotifyFirst(t, b) \/ NotifyMore(t, b)
  \/ notify_retain(t) \/ LinkFirst(t) \/ LinkMore(t) \/ FlagSets(t) \/ FlagWakes(t)

-----------------------------------------------------------------------------
\* A record of the word's type is the word of its fields.
LEMMA WordOf ==
  ASSUME NEW s \in States
  PROVE  s = Word(s.gen, s.count, s.waiters, s.notifs)
BY Zenon DEF States, Word

\* Changes of one field of a word ...
LEMMA WordChanges ==
  ASSUME NEW s \in States, NEW x
  PROVE  /\ [s EXCEPT !.count = x] = Word(s.gen, x, s.waiters, s.notifs)
         /\ [s EXCEPT !.waiters = x] = Word(s.gen, s.count, x, s.notifs)
         /\ [s EXCEPT !.notifs = x] = Word(s.gen, s.count, s.waiters, x)
<1>1. s = Word(s.gen, s.count, s.waiters, s.notifs)
  BY WordOf, Zenon
<1> QED
  BY <1>1 DEF Word

\* ... of the count and the generation ...
LEMMA WordCarries ==
  ASSUME NEW s \in States, NEW g, NEW c
  PROVE  [s EXCEPT !.count = c, !.gen = g] = Word(g, c, s.waiters, s.notifs)
<1>1. [s EXCEPT !.count = c, !.gen = g] = [[s EXCEPT !.count = c] EXCEPT !.gen = g]
  BY Zenon
<1>2. [Word(s.gen, c, s.waiters, s.notifs) EXCEPT !.gen = g]
        = Word(g, c, s.waiters, s.notifs)
  BY DEF Word
<1> QED
  BY <1>1, <1>2, WordChanges, Zenon

\* ... and of the two bits.
LEMMA WordClears ==
  ASSUME NEW s \in States, NEW n, NEW w
  PROVE  [s EXCEPT !.notifs = n, !.waiters = w] = Word(s.gen, s.count, w, n)
<1>1. [s EXCEPT !.notifs = n, !.waiters = w]
        = [[s EXCEPT !.notifs = n] EXCEPT !.waiters = w]
  BY Zenon
<1>2. [Word(s.gen, s.count, s.waiters, n) EXCEPT !.waiters = w]
        = Word(s.gen, s.count, w, n)
  BY DEF Word
<1> QED
  BY <1>1, <1>2, WordChanges, Zenon

\* The word of an empty group.
LEMMA EmptyWord ==
  ASSUME NEW g
  PROVE  [NoState EXCEPT !.gen = g] = Word(g, 0, FALSE, FALSE)
<1> DEFINE no == FALSE
<1>1. NoState = Word(0, 0, no, no)
  BY Zenon DEF NoState, Word
<1> HIDE DEF no
<1>2. [Word(0, 0, no, no) EXCEPT !.gen = g] = Word(g, 0, no, no)
  BY DEF Word
<1> QED
  BY <1>1, <1>2, Zenon DEF no

\* Changes of the locals of a thread.
LEMMA LocalChanges ==
  ASSUME GroupTypeOK, NEW t \in Workers, NEW x, NEW y
  PROVE  /\ local' = [local EXCEPT ![t].state = x]
              => Recorded(t, x, local[t].refs, local[t].snapshot, local[t].block, local[t].empty)
         /\ local' = [local EXCEPT ![t].refs = x]
              => Recorded(t, local[t].state, x, local[t].snapshot, local[t].block, local[t].empty)
         /\ local' = [local EXCEPT ![t].snapshot = x]
              => Recorded(t, local[t].state, local[t].refs, x, local[t].block, local[t].empty)
         /\ local' = [local EXCEPT ![t].snapshot = x, ![t].refs = y]
              => Recorded(t, local[t].state, y, x, local[t].block, local[t].empty)
         /\ local' = [local EXCEPT ![t].block = x, ![t].empty = y]
              => Recorded(t, local[t].state, local[t].refs, local[t].snapshot, x, y)
<1>1. local[t] = [state |-> local[t].state, refs |-> local[t].refs,
                  snapshot |-> local[t].snapshot, block |-> local[t].block,
                  empty |-> local[t].empty]
  BY Zenon DEF GroupTypeOK, Locals
<1> QED
  BY <1>1, Zenon DEF GroupTypeOK, Locals, Recorded

\* dispatch_group_enter, of an empty group, which takes a reference of the
\* clients, or of one that is entered.
LEMMA EnterEffect ==
  ASSUME GroupTypeOK, CountInv, NEW t \in Workers, dispatch_group_enter(t)
  PROVE  EnterFirst(t) \/ EnterMore(t)
<1> USE DEF dispatch_group_enter, GroupGoto
<1>1. dg_state' = Word(dg_state.gen, dg_state.count + 1, dg_state.waiters, dg_state.notifs)
  BY WordChanges, Zenon DEF GroupTypeOK
<1>2. CASE dg_state.count = 0
  <2>1. dg_state.count + 1 = 1
    BY <1>2
  <2>2. ~(entered > 0)
    BY <1>2 DEF GroupTypeOK, CountInv
  <2> QED
    BY <1>1, <1>2, <2>1, <2>2, Zenon DEF EnterFirst
<1>3. CASE dg_state.count # 0
  BY <1>1, <1>3, Zenon DEF EnterMore
<1> QED
  BY <1>2, <1>3, Zenon

\* dispatch_group_leave, the last or not.
LEMMA LeaveEffect ==
  ASSUME GroupTypeOK, NEW t \in Workers, dispatch_group_leave(t)
  PROVE  LeaveLast(t) \/ LeaveMore(t)
<1> DEFINE g == IF dg_state.count = 1 THEN dg_state.gen + 1 ELSE dg_state.gen
           new == [dg_state EXCEPT !.count = dg_state.count - 1, !.gen = g]
<1>1. new = Word(g, dg_state.count - 1, dg_state.waiters, dg_state.notifs)
  BY WordCarries, Zenon DEF GroupTypeOK
<1>2. /\ dg_state' = new
      /\ dg_state.count = 1 => local' = [local EXCEPT ![t].state = new]
  BY Zenon DEF dispatch_group_leave
<1> HIDE DEF new
<1>3. CASE dg_state.count = 1
  <2>1. g = dg_state.gen + 1 /\ dg_state.count - 1 = 0
    BY <1>3
  <2>2. Recorded(t, new, local[t].refs, local[t].snapshot, local[t].block, local[t].empty)
    BY <1>2, <1>3, LocalChanges, Zenon
  <2> QED
    BY <1>1, <1>2, <1>3, <2>1, <2>2, Zenon DEF LeaveLast, dispatch_group_leave, GroupGoto
<1>4. CASE dg_state.count # 1
  <2>1. g = dg_state.gen
    BY <1>4, Zenon
  <2> QED
    BY <1>1, <1>2, <1>4, <2>1, Zenon DEF LeaveMore, dispatch_group_leave
<1> QED
  BY <1>3, <1>4, Zenon

\* The loop of the last leave: nothing to clear, the bits cleared, or the word
\* changed meanwhile.
LEMMA ClearEffect ==
  ASSUME GroupTypeOK, NEW t \in Workers, leave_clear(t)
  PROVE  ClearNone(t) \/ ClearDone(t) \/ ClearAgain(t)
<1> DEFINE old == local[t].state
           new == [old EXCEPT !.notifs = FALSE, !.waiters = old.waiters /\ old.count # 0]
<1>1. old \in States
  BY Zenon DEF GroupTypeOK, Locals
<1>2. new = Word(old.gen, old.count, old.waiters /\ old.count # 0, FALSE)
  BY <1>1, WordClears, Zenon
<1>3. /\ group_pc[t] = "clear"
      /\ IF old = new \/ dg_state = old
         THEN /\ dg_state' = IF old = new THEN dg_state ELSE new
              /\ local' = [local EXCEPT ![t].refs = 1]
              /\ group_pc' = [group_pc EXCEPT ![t] = FirstWake(old)]
         ELSE /\ local' = [local EXCEPT ![t].state = dg_state]
              /\ dg_state' = dg_state /\ group_pc' = group_pc
      /\ entered' = entered
      /\ do_ref_cnt' = do_ref_cnt /\ held' = held /\ group_crash' = group_crash
      /\ dg_notify' = dg_notify /\ linked' = linked /\ block' = block /\ emptied' = emptied
  BY Zenon DEF leave_clear, GroupGoto
<1> HIDE DEF new
<1>4. old = new => ~ToClear(old)
  <2>1. old = new => old.notifs = FALSE /\ old.waiters = (old.waiters /\ old.count # 0)
    <3>1. old = Word(old.gen, old.count, old.waiters, old.notifs)
      BY <1>1, WordOf, Zenon
    <3> QED
      BY <1>2, <3>1 DEF Word
  <2> QED
    BY <2>1, <1>1, Zenon DEF ToClear, States
<1>5. CASE old = new \/ dg_state = old
  <2>1. FirstWake(old) \in {"capture", "wake", "release"}
    BY Zenon DEF FirstWake
  <2>2. Recorded(t, local[t].state, 1, local[t].snapshot, local[t].block, local[t].empty)
    BY <1>3, <1>5, LocalChanges, Zenon
  <2>3. ClearEnds(t)
    BY <1>3, <1>5, <2>1, <2>2, Zenon DEF ClearEnds
  <2>4. CASE old = new
    BY <1>3, <1>4, <2>3, <2>4, Zenon DEF ClearNone
  <2>5. CASE old # new /\ dg_state = old
    BY <1>2, <1>3, <2>3, <2>5, Zenon DEF ClearDone
  <2> QED
    BY <1>5, <2>4, <2>5, Zenon
<1>6. CASE ~(old = new \/ dg_state = old)
  <2>1. Recorded(t, dg_state, local[t].refs, local[t].snapshot, local[t].block, local[t].empty)
    BY <1>3, <1>6, LocalChanges, Zenon
  <2> QED
    BY <1>3, <1>6, <2>1, Zenon DEF ClearAgain
<1> QED
  BY <1>5, <1>6, Zenon

\* _dispatch_group_wake takes the list, and the reference that goes with it.
LEMMA CaptureEffect ==
  ASSUME GroupTypeOK, NEW t \in Workers, wake_capture(t)
  PROVE  Captured(t)
<1>1. local' = [local EXCEPT ![t].snapshot = dg_notify, ![t].refs = local[t].refs + 1]
  BY Zenon DEF wake_capture
<1>2. Recorded(t, local[t].state, local[t].refs + 1, dg_notify, local[t].block, local[t].empty)
  BY <1>1, LocalChanges, Zenon
<1> QED
  BY <1>2, Zenon DEF Captured, wake_capture, GroupGoto

\* _dispatch_group_wake submits a block of the list it has taken.
LEMMA SubmitEffect ==
  ASSUME GroupTypeOK, LocalInv, NEW t \in Workers, wake_submit(t)
  PROVE  Submitted(t)
<1> DEFINE n == local[t].snapshot
           b == Head(n)
<1>1. n \in Seq(Blocks) /\ n # <<>>
  BY Zenon DEF GroupTypeOK, Locals, LocalInv, wake_submit
<1>2. b \in Blocks /\ Tail(n) \in Seq(Blocks) /\ (Len(n) > 1 => Tail(n) # <<>>)
  <2> HIDE DEF n
  <2>1. Head(n) \in Blocks /\ Tail(n) \in Seq(Blocks)
    BY <1>1
  <2>2. Len(Tail(n)) = Len(n) - 1 /\ Len(n) \in Nat
    BY <1>1
  <2>3. \A i \in Nat : i > 1 => i - 1 # 0
    OBVIOUS
  <2>4. Len(<<>>) = 0
    OBVIOUS
  <2> QED
    BY <2>1, <2>2, <2>3, <2>4, Zenon
<1>3. Recorded(t, local[t].state, local[t].refs, Tail(n), local[t].block, local[t].empty)
  <2>1. local' = [local EXCEPT ![t].snapshot = Tail(n)]
    BY Zenon DEF wake_submit
  <2> QED
    BY <2>1, LocalChanges, Zenon
<1>4. \E label \in {"submit", "wake", "release"} :
        /\ label = "submit" => Tail(n) # <<>>
        /\ group_pc' = [group_pc EXCEPT ![t] = label]
  <2>1. [local[t].state EXCEPT !.notifs = FALSE].notifs = FALSE
    <3>1. local[t].state \in States
      BY Zenon DEF GroupTypeOK, Locals
    <3> QED
      BY <3>1, WordChanges, Zenon DEF Word
  <2>2. FirstWake([local[t].state EXCEPT !.notifs = FALSE]) \in {"wake", "release"}
    BY <2>1, Zenon DEF FirstWake
  <2> QED
    BY <1>2, <2>2, Zenon DEF wake_submit, GroupGoto
<1>5. /\ linked' \subseteq linked
      /\ block' \in [Blocks -> {"new", "queued", "due", "submitted", "early"}]
      /\ \A c \in Blocks : block'[c] = "new" => block[c] = "new"
  BY <1>2, Zenon DEF wake_submit, GroupTypeOK
<1> QED
  BY <1>2, <1>3, <1>4, <1>5, Zenon DEF Submitted, wake_submit

\* dispatch_group_wait of a group that is entered sets the waiters bit.
LEMMA WaitEffect ==
  ASSUME GroupTypeOK, NEW t \in Workers, dispatch_group_wait(t)
  PROVE  Waiting(t)
<1>1. dg_state' = Word(dg_state.gen, dg_state.count, TRUE, dg_state.notifs)
  BY WordChanges, Zenon DEF GroupTypeOK, dispatch_group_wait
<1>2. Recorded(t, dg_state', local[t].refs, local[t].snapshot, local[t].block, local[t].empty)
  BY LocalChanges, Zenon DEF dispatch_group_wait
<1> QED
  BY <1>1, <1>2, Zenon DEF Waiting, dispatch_group_wait, GroupGoto

\* The sleep of a waiter, its end, and the look at the generation.
LEMMA WaitMoveEffect ==
  ASSUME GroupTypeOK, NEW t \in Workers,
         wait_on_address(t) \/ wait_ends(t) \/ wait_check(t)
  PROVE  WaitMoves(t) \/ WaitReturns(t)
<1>1. CASE wait_on_address(t)
  BY <1>1, Zenon DEF wait_on_address, WaitMoves, GroupGoto, Waits
<1>2. CASE wait_ends(t)
  BY <1>2, Zenon DEF wait_ends, WaitMoves, GroupGoto, Waits
<1>3. CASE wait_check(t)
  BY <1>3, Zenon DEF wait_check, WaitMoves, WaitReturns, GroupGoto, Waits
<1> QED
  BY <1>1, <1>2, <1>3, Zenon

\* dispatch_group_notify puts its block at the tail of the list, which was
\* empty or was not.
LEMMA NotifyEffect ==
  ASSUME GroupTypeOK, NEW t \in Workers, NEW b \in Blocks, dispatch_group_notify(t, b)
  PROVE  NotifyFirst(t, b) \/ NotifyMore(t, b)
<1>1. Recorded(t, local[t].state, local[t].refs, local[t].snapshot, b, dg_notify = <<>>)
  BY LocalChanges, Zenon DEF dispatch_group_notify
<1>2. \E label \in {"due", "queued"} : block' = [block EXCEPT ![b] = label]
  BY Zenon DEF dispatch_group_notify
<1>3. NotifyBegins(t, b)
  BY <1>2, Zenon DEF NotifyBegins, dispatch_group_notify
<1>4. (dg_notify = <<>>) \in BOOLEAN
  BY Zenon
<1> QED
  BY <1>1, <1>3, Zenon DEF NotifyFirst, NotifyMore, dispatch_group_notify, GroupGoto

\* The block is linked to the head or to the one before it.
LEMMA LinkEffect ==
  ASSUME NEW t \in Workers, notify_link(t)
  PROVE  LinkFirst(t) \/ LinkMore(t)
BY Zenon DEF LinkFirst, LinkMore, notify_link, GroupGoto

\* The notifs bit is set, unless the group is empty: then the notifier wakes.
LEMMA FlagEffect ==
  ASSUME GroupTypeOK, NEW t \in Workers, notify_flag(t)
  PROVE  FlagSets(t) \/ FlagWakes(t)
<1> DEFINE new == [dg_state EXCEPT !.notifs = TRUE]
           empty == [NoState EXCEPT !.gen = dg_state.gen]
<1>1. new = Word(dg_state.gen, dg_state.count, dg_state.waiters, TRUE)
  BY WordChanges, Zenon DEF GroupTypeOK
<1>2. /\ group_pc[t] = "notify_flag"
      /\ IF dg_state = empty
         THEN /\ group_pc' = [group_pc EXCEPT ![t] = "capture"]
              /\ local' = [local EXCEPT ![t].state = new] /\ dg_state' = dg_state
         ELSE dg_state' = new /\ GroupReturn(t)
      /\ entered' = entered
      /\ do_ref_cnt' = do_ref_cnt /\ held' = held /\ group_crash' = group_crash
      /\ dg_notify' = dg_notify /\ linked' = linked /\ block' = block /\ emptied' = emptied
  BY Zenon DEF notify_flag, GroupGoto
<1>3. dg_state # empty => dg_state.count # 0 \/ dg_state.waiters \/ dg_state.notifs
  <2>1. dg_state = Word(dg_state.gen, dg_state.count, dg_state.waiters, dg_state.notifs)
    BY WordOf, Zenon DEF GroupTypeOK
  <2>2. empty = Word(dg_state.gen, 0, FALSE, FALSE)
    BY EmptyWord, Zenon
  <2>3. dg_state.waiters \in BOOLEAN /\ dg_state.notifs \in BOOLEAN
    BY Zenon DEF GroupTypeOK, States
  <2> QED
    BY <2>1, <2>2, <2>3, Zenon
<1> HIDE DEF new, empty
<1>4. CASE dg_state = empty
  <2>1. Recorded(t, new, local[t].refs, local[t].snapshot, local[t].block, local[t].empty)
    BY <1>2, <1>4, LocalChanges, Zenon
  <2> QED
    BY <1>1, <1>2, <1>4, <2>1, Zenon DEF FlagWakes
<1>5. CASE dg_state # empty
  BY <1>1, <1>2, <1>3, <1>5, Zenon DEF FlagSets
<1> QED
  BY <1>4, <1>5, Zenon

\* Every step is the clients' release, or has one of the effects.
LEMMA GroupSteps ==
  ASSUME GroupTypeOK, LocalInv, CountInv, GroupNext
  PROVE  dispatch_release \/ \E t \in Workers : GroupEffect(t)
<1>1. ASSUME NEW t \in Workers, GroupClient(t)
      PROVE  GroupEffect(t)
  BY <1>1, EnterEffect, LeaveEffect, WaitEffect, NotifyEffect, Zenon
     DEF GroupClient, GroupEffect
<1>2. ASSUME NEW t \in Workers, wake_by_address(t)
      PROVE  GroupEffect(t)
  BY <1>2, Zenon DEF wake_by_address, Woken, GroupEffect
<1>3. ASSUME NEW t \in Workers, wait_on_address(t) \/ wait_ends(t) \/ wait_check(t)
      PROVE  GroupEffect(t)
  BY <1>3, WaitMoveEffect, Zenon DEF GroupEffect
<1>4. ASSUME NEW t \in Workers,
             \/ enter_retain(t) \/ leave_clear(t)
             \/ wake_capture(t) \/ wake_submit(t) \/ wake_release(t)
             \/ notify_retain(t) \/ notify_link(t) \/ notify_flag(t)
      PROVE  GroupEffect(t)
  BY <1>4, ClearEffect, CaptureEffect, SubmitEffect, LinkEffect, FlagEffect, Zenon
     DEF GroupEffect
<1> QED
  BY <1>1, <1>2, <1>3, <1>4, Zenon DEF GroupNext, GroupStep

\* What a thread has read into its locals keeps fitting the place it is at.
LEMMA LocalStep ==
  ASSUME GroupTypeOK, LocalInv, CountInv, GroupNext
  PROVE  LocalInv'
<1> USE GroupAssumption
<1>1. ASSUME NEW t \in Workers, EnterFirst(t)
      PROVE  LocalInv'
  BY <1>1 DEF EnterFirst, Wakes, LocalInv, Notifying
<1>2. ASSUME NEW t \in Workers, EnterMore(t)
      PROVE  LocalInv'
  BY <1>2, Zenon DEF EnterMore, LocalInv, Notifying
<1>3. ASSUME NEW t \in Workers, enter_retain(t)
      PROVE  LocalInv'
  BY <1>3, Zenon DEF enter_retain, GroupGoto, GroupTypeOK, Wakes, LocalInv, Notifying
<1>4. ASSUME NEW t \in Workers, LeaveLast(t)
      PROVE  LocalInv'
  BY <1>4 DEF LeaveLast, Recorded, GroupTypeOK, NoLocal, Wakes, LocalInv, Notifying
<1>5. ASSUME NEW t \in Workers, LeaveMore(t)
      PROVE  LocalInv'
  BY <1>5, Zenon DEF LeaveMore, LocalInv, Notifying
<1>6. ASSUME NEW t \in Workers, ClearNone(t)
      PROVE  LocalInv'
  <2>1. PICK label \in {"capture", "wake", "release"} :
               group_pc' = [group_pc EXCEPT ![t] = label]
    BY <1>6, Zenon DEF ClearNone, ClearEnds
  <2> QED
    BY <1>6 DEF ClearNone, ClearEnds, Recorded, GroupTypeOK, LocalInv, Notifying
<1>7. ASSUME NEW t \in Workers, ClearDone(t)
      PROVE  LocalInv'
  <2>1. PICK label \in {"capture", "wake", "release"} :
               group_pc' = [group_pc EXCEPT ![t] = label]
    BY <1>7, Zenon DEF ClearDone, ClearEnds
  <2> QED
    BY <1>7 DEF ClearDone, ClearEnds, Recorded, GroupTypeOK, LocalInv, Notifying
<1>8. ASSUME NEW t \in Workers, ClearAgain(t)
      PROVE  LocalInv'
  BY <1>8, Zenon DEF ClearAgain, Recorded, GroupTypeOK, LocalInv, Notifying
<1>9. ASSUME NEW t \in Workers, Captured(t)
      PROVE  LocalInv'
  BY <1>9 DEF Captured, Recorded, GroupTypeOK, Locals, Wakes, LocalInv, Notifying
<1>10. ASSUME NEW t \in Workers, Submitted(t)
      PROVE  LocalInv'
  <2>1. PICK n \in Seq(Blocks), label \in {"submit", "wake", "release"} :
               /\ label = "submit" => n # <<>>
               /\ Recorded(t, local[t].state, local[t].refs, n, local[t].block, local[t].empty)
               /\ group_pc' = [group_pc EXCEPT ![t] = label]
    BY <1>10, Zenon DEF Submitted
  <2> QED
    BY <1>10, <2>1, Zenon DEF Submitted, Recorded, GroupTypeOK, LocalInv, Notifying
<1>11. ASSUME NEW t \in Workers, Woken(t)
      PROVE  LocalInv'
  BY <1>11, Zenon DEF Woken, Wakes, LocalInv, Notifying
<1>12. ASSUME NEW t \in Workers, wake_release(t)
      PROVE  LocalInv'
  BY <1>12, Zenon
  DEF wake_release, GroupReturn, GroupGoto, GroupTypeOK, Wakes, LocalInv, Notifying
<1>13. ASSUME NEW t \in Workers, Waiting(t)
      PROVE  LocalInv'
  BY <1>13, Zenon DEF Waiting, Recorded, Word, GroupTypeOK, Wakes, LocalInv, Notifying
<1>14. ASSUME NEW t \in Workers, WaitMoves(t)
      PROVE  LocalInv'
  BY <1>14 DEF WaitMoves, Waits, Wakes, LocalInv, Notifying
<1>15. ASSUME NEW t \in Workers, WaitReturns(t)
      PROVE  LocalInv'
  BY <1>15, Zenon
  DEF WaitReturns, GroupReturn, GroupGoto, GroupTypeOK, Wakes, LocalInv, Notifying
<1>16. ASSUME NEW t \in Workers, NEW b \in Blocks, NotifyFirst(t, b)
      PROVE  LocalInv'
  BY <1>16
  DEF NotifyFirst, NotifyBegins, Recorded, GroupTypeOK, NoLocal, LocalInv, Notifying
<1>17. ASSUME NEW t \in Workers, NEW b \in Blocks, NotifyMore(t, b)
      PROVE  LocalInv'
  BY <1>17
  DEF NotifyMore, NotifyBegins, Recorded, GroupTypeOK, NoState, NoLocal, Wakes, LocalInv,
      Notifying
<1>18. ASSUME NEW t \in Workers, notify_retain(t)
      PROVE  LocalInv'
  BY <1>18, Zenon DEF notify_retain, GroupGoto, GroupTypeOK, LocalInv, Notifying
<1>19. ASSUME NEW t \in Workers, LinkFirst(t)
      PROVE  LocalInv'
  BY <1>19 DEF LinkFirst, LocalInv, Notifying
<1>20. ASSUME NEW t \in Workers, LinkMore(t)
      PROVE  LocalInv'
  BY <1>20, Zenon
  DEF LinkMore, GroupReturn, GroupGoto, GroupTypeOK, Wakes, LocalInv, Notifying
<1>21. ASSUME NEW t \in Workers, FlagSets(t)
      PROVE  LocalInv'
  BY <1>21, Zenon
  DEF FlagSets, GroupReturn, GroupGoto, GroupTypeOK, Wakes, LocalInv, Notifying
<1>22. ASSUME NEW t \in Workers, FlagWakes(t)
      PROVE  LocalInv'
  BY <1>22 DEF FlagWakes, Recorded, GroupTypeOK, LocalInv, Notifying
<1>23. ASSUME dispatch_release
      PROVE  LocalInv'
  BY <1>23, Zenon DEF dispatch_release, LocalInv, Notifying
<1> QED
  BY <1>1, <1>2, <1>3, <1>4, <1>5, <1>6, <1>7, <1>8, <1>9, <1>10, <1>11, <1>12, <1>13,
      <1>14, <1>15, <1>16, <1>17, <1>18, <1>19, <1>20, <1>21, <1>22, <1>23, GroupSteps,
      Zenon DEF GroupEffect

\* Once the clients have let go, every step leaves only calls of leave in
\* progress.
LEMMA HeldStep ==
  ASSUME GroupTypeOK, LocalInv, CountInv, HeldInv, GroupNext
  PROVE  HeldInv'
<1> USE GroupAssumption
<1>1. ASSUME NEW t \in Workers, EnterFirst(t)
      PROVE  HeldInv'
  BY <1>1, Zenon DEF EnterFirst, HeldInv
<1>2. ASSUME NEW t \in Workers, EnterMore(t)
      PROVE  HeldInv'
  BY <1>2, Zenon DEF EnterMore, HeldInv
<1>3. ASSUME NEW t \in Workers, enter_retain(t)
      PROVE  HeldInv'
  BY <1>3, Zenon DEF enter_retain, GroupGoto, GroupTypeOK, HeldInv
<1>4. ASSUME NEW t \in Workers, LeaveLast(t)
      PROVE  HeldInv'
  BY <1>4, Zenon DEF LeaveLast, Recorded, GroupTypeOK, HeldInv
<1>5. ASSUME NEW t \in Workers, LeaveMore(t)
      PROVE  HeldInv'
  BY <1>5, Zenon DEF LeaveMore, HeldInv
<1>6. ASSUME NEW t \in Workers, ClearNone(t)
      PROVE  HeldInv'
  BY <1>6, Zenon DEF ClearNone, ClearEnds, Recorded, GroupTypeOK, Wakes, LocalInv, HeldInv
<1>7. ASSUME NEW t \in Workers, ClearDone(t)
      PROVE  HeldInv'
  BY <1>7, Zenon DEF ClearDone, ClearEnds, Recorded, GroupTypeOK, Wakes, LocalInv, HeldInv
<1>8. ASSUME NEW t \in Workers, ClearAgain(t)
      PROVE  HeldInv'
  BY <1>8, Zenon DEF ClearAgain, Recorded, GroupTypeOK, HeldInv
<1>9. ASSUME NEW t \in Workers, Captured(t)
      PROVE  HeldInv'
  BY <1>9, Zenon DEF Captured, Recorded, GroupTypeOK, Wakes, HeldInv
<1>10. ASSUME NEW t \in Workers, Submitted(t)
      PROVE  HeldInv'
  BY <1>10 DEF Submitted, Recorded, Wakes, HeldInv
<1>11. ASSUME NEW t \in Workers, Woken(t)
      PROVE  HeldInv'
  BY <1>11, Zenon DEF Woken, Wakes, HeldInv
<1>12. ASSUME NEW t \in Workers, wake_release(t)
      PROVE  HeldInv'
  BY <1>12, Zenon DEF wake_release, GroupReturn, GroupGoto, GroupTypeOK, HeldInv
<1>13. ASSUME NEW t \in Workers, Waiting(t)
      PROVE  HeldInv'
  BY <1>13, Zenon DEF Waiting, HeldInv
<1>14. ASSUME NEW t \in Workers, WaitMoves(t)
      PROVE  HeldInv'
  BY <1>14, Zenon DEF WaitMoves, Waits, Wakes, HeldInv
<1>15. ASSUME NEW t \in Workers, WaitReturns(t)
      PROVE  HeldInv'
  BY <1>15, Zenon DEF WaitReturns, GroupReturn, GroupGoto, GroupTypeOK, HeldInv
<1>16. ASSUME NEW t \in Workers, NEW b \in Blocks, NotifyFirst(t, b)
      PROVE  HeldInv'
  BY <1>16, Zenon DEF NotifyFirst, NotifyBegins, HeldInv
<1>17. ASSUME NEW t \in Workers, NEW b \in Blocks, NotifyMore(t, b)
      PROVE  HeldInv'
  BY <1>17, Zenon DEF NotifyMore, NotifyBegins, HeldInv
<1>18. ASSUME NEW t \in Workers, notify_retain(t)
      PROVE  HeldInv'
  BY <1>18, Zenon DEF notify_retain, LocalInv, HeldInv, Notifying
<1>19. ASSUME NEW t \in Workers, LinkFirst(t)
      PROVE  HeldInv'
  BY <1>19, Zenon DEF LinkFirst, LocalInv, HeldInv, Notifying
<1>20. ASSUME NEW t \in Workers, LinkMore(t)
      PROVE  HeldInv'
  BY <1>20, Zenon DEF LinkMore, GroupReturn, GroupGoto, GroupTypeOK, HeldInv
<1>21. ASSUME NEW t \in Workers, FlagSets(t)
      PROVE  HeldInv'
  BY <1>21, Zenon DEF FlagSets, GroupReturn, GroupGoto, GroupTypeOK, HeldInv
<1>22. ASSUME NEW t \in Workers, FlagWakes(t)
      PROVE  HeldInv'
  BY <1>22, Zenon DEF FlagWakes, LocalInv, HeldInv
<1>23. ASSUME dispatch_release
      PROVE  HeldInv'
  BY <1>23, Zenon DEF dispatch_release, HeldInv
<1> QED
  BY <1>1, <1>2, <1>3, <1>4, <1>5, <1>6, <1>7, <1>8, <1>9, <1>10, <1>11, <1>12, <1>13,
      <1>14, <1>15, <1>16, <1>17, <1>18, <1>19, <1>20, <1>21, <1>22, <1>23, GroupSteps,
      Zenon DEF GroupEffect

\* A block that is being registered stays unlinked until its own notify links
\* it, and the head of the list belongs to the one thread that found it empty.
LEMMA NotifyStep ==
  ASSUME GroupTypeOK, LocalInv, CountInv, NotifyInv, GroupNext
  PROVE  NotifyInv'
<1> USE GroupAssumption
<1>1. ASSUME NEW t \in Workers, EnterFirst(t)
      PROVE  NotifyInv'
  BY <1>1 DEF EnterFirst, NotifyInv, Notifying, Heading, Retaining
<1>2. ASSUME NEW t \in Workers, EnterMore(t)
      PROVE  NotifyInv'
  BY <1>2 DEF EnterMore, NotifyInv, Notifying, Heading, Retaining
<1>3. ASSUME NEW t \in Workers, enter_retain(t)
      PROVE  NotifyInv'
  BY <1>3 DEF enter_retain, GroupGoto, LocalInv, NotifyInv, Notifying, Heading, Retaining
<1>4. ASSUME NEW t \in Workers, LeaveLast(t)
      PROVE  NotifyInv'
  BY <1>4
  DEF LeaveLast, Recorded, GroupTypeOK, Locals, LocalInv, NotifyInv, Notifying, Heading,
      Retaining
<1>5. ASSUME NEW t \in Workers, LeaveMore(t)
      PROVE  NotifyInv'
  BY <1>5 DEF LeaveMore, NotifyInv, Notifying, Heading, Retaining
<1>6. ASSUME NEW t \in Workers, ClearNone(t)
      PROVE  NotifyInv'
  BY <1>6
  DEF ClearNone, ClearEnds, Recorded, NoLocal, Waits, NotifyInv, Notifying, Heading,
      Retaining
<1>7. ASSUME NEW t \in Workers, ClearDone(t)
      PROVE  NotifyInv'
  BY <1>7 DEF ClearDone, ClearEnds, Recorded, NotifyInv, Notifying, Heading, Retaining
<1>8. ASSUME NEW t \in Workers, ClearAgain(t)
      PROVE  NotifyInv'
  BY <1>8
  DEF ClearAgain, Recorded, Waits, Wakes, LocalInv, NotifyInv, Notifying, Heading, Retaining
<1>9. ASSUME NEW t \in Workers, Captured(t)
      PROVE  NotifyInv'
  BY <1>9
  DEF Captured, Recorded, Waits, Wakes, LocalInv, NotifyInv, Notifying, Heading, Retaining
<1>10. ASSUME NEW t \in Workers, Submitted(t)
      PROVE  NotifyInv'
  BY <1>10
  DEF Submitted, Recorded, GroupTypeOK, Locals, Waits, LocalInv, NotifyInv, Notifying,
      Heading, Retaining
<1>11. ASSUME NEW t \in Workers, Woken(t)
      PROVE  NotifyInv'
  BY <1>11 DEF Woken, NotifyInv, Notifying, Heading, Retaining
<1>12. ASSUME NEW t \in Workers, wake_release(t)
      PROVE  NotifyInv'
  BY <1>12
  DEF wake_release, GroupReturn, GroupGoto, NotifyInv, Notifying, Heading, Retaining
<1>13. ASSUME NEW t \in Workers, Waiting(t)
      PROVE  NotifyInv'
  BY <1>13 DEF Waiting, Recorded, NotifyInv, Notifying, Heading, Retaining
<1>14. ASSUME NEW t \in Workers, WaitMoves(t)
      PROVE  NotifyInv'
  BY <1>14 DEF WaitMoves, Waits, Wakes, LocalInv, NotifyInv, Notifying, Heading, Retaining
<1>15. ASSUME NEW t \in Workers, WaitReturns(t)
      PROVE  NotifyInv'
  BY <1>15
  DEF WaitReturns, GroupReturn, GroupGoto, GroupTypeOK, NotifyInv, Notifying, Heading,
      Retaining
<1>16. ASSUME NEW t \in Workers, NEW b \in Blocks, NotifyFirst(t, b)
      PROVE  NotifyInv'
  BY <1>16
  DEF NotifyFirst, NotifyBegins, Recorded, GroupTypeOK, Wakes, LocalInv, NotifyInv,
      Notifying, Heading, Retaining
<1>17. ASSUME NEW t \in Workers, NEW b \in Blocks, NotifyMore(t, b)
      PROVE  NotifyInv'
  <2>1. dg_notify' # <<>> /\ Head(dg_notify') = Head(dg_notify)
    BY <1>17 DEF NotifyMore, NotifyBegins, GroupTypeOK
  <2> QED
    BY <1>17, <2>1
       DEF NotifyMore, NotifyBegins, Recorded, GroupTypeOK, LocalInv, NotifyInv, Notifying,
           Heading, Retaining
<1>18. ASSUME NEW t \in Workers, notify_retain(t)
      PROVE  NotifyInv'
  BY <1>18
  DEF notify_retain, GroupGoto, Waits, Wakes, LocalInv, NotifyInv, Notifying, Heading,
      Retaining
<1>19. ASSUME NEW t \in Workers, LinkFirst(t)
      PROVE  NotifyInv'
  BY <1>19
  DEF LinkFirst, GroupTypeOK, Waits, Wakes, LocalInv, NotifyInv, Notifying, Heading,
      Retaining
<1>20. ASSUME NEW t \in Workers, LinkMore(t)
      PROVE  NotifyInv'
  BY <1>20
  DEF LinkMore, GroupReturn, GroupGoto, GroupTypeOK, NotifyInv, Notifying, Heading,
      Retaining
<1>21. ASSUME NEW t \in Workers, FlagSets(t)
      PROVE  NotifyInv'
  BY <1>21 DEF FlagSets, GroupReturn, GroupGoto, NotifyInv, Notifying, Heading, Retaining
<1>22. ASSUME NEW t \in Workers, FlagWakes(t)
      PROVE  NotifyInv'
  BY <1>22 DEF FlagWakes, Recorded, NotifyInv, Notifying, Heading, Retaining
<1>23. ASSUME dispatch_release
      PROVE  NotifyInv'
  BY <1>23, Zenon DEF dispatch_release, NotifyInv, Notifying, Heading, Retaining
<1> QED
  BY <1>1, <1>2, <1>3, <1>4, <1>5, <1>6, <1>7, <1>8, <1>9, <1>10, <1>11, <1>12, <1>13,
      <1>14, <1>15, <1>16, <1>17, <1>18, <1>19, <1>20, <1>21, <1>22, <1>23, GroupSteps,
      Zenon DEF GroupEffect

\* The count in the word stays that of the enters that returned and have no
\* leave yet, and of the one that has yet to retain.
LEMMA CountStep ==
  ASSUME GroupTypeOK, LocalInv, CountInv, GroupNext
  PROVE  CountInv'
<1> USE GroupAssumption
<1>1. ASSUME NEW t \in Workers, EnterFirst(t)
      PROVE  CountInv'
  BY <1>1 DEF EnterFirst, Word, GroupTypeOK, CountInv, Entering
<1>2. ASSUME NEW t \in Workers, EnterMore(t)
      PROVE  CountInv'
  BY <1>2
  DEF EnterMore, Word, GroupTypeOK, NoState, NoLocal, Waits, Wakes, CountInv, Entering
<1>3. ASSUME NEW t \in Workers, enter_retain(t)
      PROVE  CountInv'
  BY <1>3 DEF enter_retain, GroupGoto, GroupTypeOK, CountInv, Entering
<1>4. ASSUME NEW t \in Workers, LeaveLast(t)
      PROVE  CountInv'
  BY <1>4 DEF LeaveLast, Word, GroupTypeOK, Wakes, CountInv, Entering
<1>5. ASSUME NEW t \in Workers, LeaveMore(t)
      PROVE  CountInv'
  BY <1>5 DEF LeaveMore, Word, GroupTypeOK, CountInv, Entering
<1>6. ASSUME NEW t \in Workers, ClearNone(t)
      PROVE  CountInv'
  BY <1>6 DEF ClearNone, ClearEnds, NoLocal, Waits, CountInv, Entering
<1>7. ASSUME NEW t \in Workers, ClearDone(t)
      PROVE  CountInv'
  BY <1>7 DEF ClearDone, ClearEnds, Word, CountInv, Entering
<1>8. ASSUME NEW t \in Workers, ClearAgain(t)
      PROVE  CountInv'
  BY <1>8, Zenon DEF ClearAgain, CountInv, Entering
<1>9. ASSUME NEW t \in Workers, Captured(t)
      PROVE  CountInv'
  BY <1>9, Zenon DEF Captured, GroupTypeOK, CountInv, Entering
<1>10. ASSUME NEW t \in Workers, Submitted(t)
      PROVE  CountInv'
  BY <1>10 DEF Submitted, CountInv, Entering
<1>11. ASSUME NEW t \in Workers, Woken(t)
      PROVE  CountInv'
  BY <1>11, Zenon DEF Woken, NoLocal, CountInv, Entering
<1>12. ASSUME NEW t \in Workers, wake_release(t)
      PROVE  CountInv'
  BY <1>12, Zenon DEF wake_release, GroupReturn, GroupGoto, GroupTypeOK, CountInv, Entering
<1>13. ASSUME NEW t \in Workers, Waiting(t)
      PROVE  CountInv'
  BY <1>13, Zenon DEF Waiting, Word, GroupTypeOK, CountInv, Entering
<1>14. ASSUME NEW t \in Workers, WaitMoves(t)
      PROVE  CountInv'
  BY <1>14 DEF WaitMoves, NoLocal, Waits, Wakes, CountInv, Entering
<1>15. ASSUME NEW t \in Workers, WaitReturns(t)
      PROVE  CountInv'
  BY <1>15, Zenon
  DEF WaitReturns, GroupReturn, GroupGoto, GroupTypeOK, Waits, CountInv, Entering
<1>16. ASSUME NEW t \in Workers, NEW b \in Blocks, NotifyFirst(t, b)
      PROVE  CountInv'
  BY <1>16, Zenon DEF NotifyFirst, NotifyBegins, GroupTypeOK, CountInv, Entering
<1>17. ASSUME NEW t \in Workers, NEW b \in Blocks, NotifyMore(t, b)
      PROVE  CountInv'
  BY <1>17, Zenon
  DEF NotifyMore, NotifyBegins, GroupTypeOK, NoState, NoLocal, Waits, CountInv, Entering
<1>18. ASSUME NEW t \in Workers, notify_retain(t)
      PROVE  CountInv'
  BY <1>18, Zenon DEF notify_retain, GroupGoto, GroupTypeOK, CountInv, Entering
<1>19. ASSUME NEW t \in Workers, LinkFirst(t)
      PROVE  CountInv'
  BY <1>19, Zenon DEF LinkFirst, GroupTypeOK, NoLocal, Waits, CountInv, Entering
<1>20. ASSUME NEW t \in Workers, LinkMore(t)
      PROVE  CountInv'
  BY <1>20, Zenon DEF LinkMore, GroupReturn, GroupGoto, GroupTypeOK, CountInv, Entering
<1>21. ASSUME NEW t \in Workers, FlagSets(t)
      PROVE  CountInv'
  BY <1>21, Zenon
  DEF FlagSets, Word, GroupReturn, GroupGoto, GroupTypeOK, CountInv, Entering
<1>22. ASSUME NEW t \in Workers, FlagWakes(t)
      PROVE  CountInv'
  BY <1>22, Zenon DEF FlagWakes, GroupTypeOK, CountInv, Entering
<1>23. ASSUME dispatch_release
      PROVE  CountInv'
  BY <1>23, Zenon DEF dispatch_release, CountInv, Entering
<1> QED
  BY <1>1, <1>2, <1>3, <1>4, <1>5, <1>6, <1>7, <1>8, <1>9, <1>10, <1>11, <1>12, <1>13,
      <1>14, <1>15, <1>16, <1>17, <1>18, <1>19, <1>20, <1>21, <1>22, <1>23, GroupSteps,
      Zenon DEF GroupEffect

\* An empty group whose word has a bit set has a thread on its way to clear
\* it.
LEMMA WordStep ==
  ASSUME GroupTypeOK, LocalInv, CountInv, WordInv, GroupNext
  PROVE  WordInv'
<1> USE GroupAssumption
<1>1. ASSUME NEW t \in Workers, EnterFirst(t)
      PROVE  WordInv'
  BY <1>1, Zenon DEF EnterFirst, Word, GroupTypeOK, WordInv
<1>2. ASSUME NEW t \in Workers, EnterMore(t)
      PROVE  WordInv'
  BY <1>2 DEF EnterMore, Word, GroupTypeOK, States, WordInv
<1>3. ASSUME NEW t \in Workers, enter_retain(t)
      PROVE  WordInv'
  BY <1>3, Zenon DEF enter_retain, GroupGoto, GroupTypeOK, WordInv
<1>4. ASSUME NEW t \in Workers, LeaveLast(t)
      PROVE  WordInv'
  BY <1>4, Zenon DEF LeaveLast, Recorded, GroupTypeOK, WordInv, ToClear
<1>5. ASSUME NEW t \in Workers, LeaveMore(t)
      PROVE  WordInv'
  BY <1>5 DEF LeaveMore, Word, WordInv
<1>6. ASSUME NEW t \in Workers, ClearNone(t)
      PROVE  WordInv'
  BY <1>6, Zenon DEF ClearNone, ClearEnds, Recorded, GroupTypeOK, WordInv
<1>7. ASSUME NEW t \in Workers, ClearDone(t)
      PROVE  WordInv'
  BY <1>7, Zenon DEF ClearDone, Word, WordInv
<1>8. ASSUME NEW t \in Workers, ClearAgain(t)
      PROVE  WordInv'
  BY <1>8, Zenon DEF ClearAgain, Recorded, GroupTypeOK, WordInv, ToClear
<1>9. ASSUME NEW t \in Workers, Captured(t)
      PROVE  WordInv'
  BY <1>9, Zenon DEF Captured, Recorded, GroupTypeOK, WordInv
<1>10. ASSUME NEW t \in Workers, Submitted(t)
      PROVE  WordInv'
  BY <1>10 DEF Submitted, Recorded, WordInv
<1>11. ASSUME NEW t \in Workers, Woken(t)
      PROVE  WordInv'
  BY <1>11, Zenon DEF Woken, WordInv
<1>12. ASSUME NEW t \in Workers, wake_release(t)
      PROVE  WordInv'
  BY <1>12, Zenon DEF wake_release, GroupReturn, GroupGoto, GroupTypeOK, WordInv
<1>13. ASSUME NEW t \in Workers, Waiting(t)
      PROVE  WordInv'
  BY <1>13, Zenon DEF Waiting, Word, WordInv
<1>14. ASSUME NEW t \in Workers, WaitMoves(t)
      PROVE  WordInv'
  BY <1>14, Zenon DEF WaitMoves, GroupTypeOK, Waits, WordInv
<1>15. ASSUME NEW t \in Workers, WaitReturns(t)
      PROVE  WordInv'
  BY <1>15, Zenon DEF WaitReturns, GroupReturn, GroupGoto, GroupTypeOK, Waits, WordInv
<1>16. ASSUME NEW t \in Workers, NEW b \in Blocks, NotifyFirst(t, b)
      PROVE  WordInv'
  BY <1>16, Zenon DEF NotifyFirst, NotifyBegins, Recorded, GroupTypeOK, WordInv
<1>17. ASSUME NEW t \in Workers, NEW b \in Blocks, NotifyMore(t, b)
      PROVE  WordInv'
  BY <1>17, Zenon DEF NotifyMore, NotifyBegins, Recorded, GroupTypeOK, WordInv
<1>18. ASSUME NEW t \in Workers, notify_retain(t)
      PROVE  WordInv'
  BY <1>18, Zenon DEF notify_retain, GroupGoto, GroupTypeOK, WordInv
<1>19. ASSUME NEW t \in Workers, LinkFirst(t)
      PROVE  WordInv'
  BY <1>19, Zenon DEF LinkFirst, GroupTypeOK, WordInv
<1>20. ASSUME NEW t \in Workers, LinkMore(t)
      PROVE  WordInv'
  BY <1>20, Zenon DEF LinkMore, GroupReturn, GroupGoto, GroupTypeOK, WordInv
<1>21. ASSUME NEW t \in Workers, FlagSets(t)
      PROVE  WordInv'
  BY <1>21, Zenon DEF FlagSets, Word, GroupReturn, GroupGoto, GroupTypeOK, WordInv
<1>22. ASSUME NEW t \in Workers, FlagWakes(t)
      PROVE  WordInv'
  BY <1>22, Zenon DEF FlagWakes, Recorded, GroupTypeOK, WordInv
<1>23. ASSUME dispatch_release
      PROVE  WordInv'
  BY <1>23, Zenon DEF dispatch_release, WordInv
<1> QED
  BY <1>1, <1>2, <1>3, <1>4, <1>5, <1>6, <1>7, <1>8, <1>9, <1>10, <1>11, <1>12, <1>13,
      <1>14, <1>15, <1>16, <1>17, <1>18, <1>19, <1>20, <1>21, <1>22, <1>23, GroupSteps,
      Zenon DEF GroupEffect

\* A wait that has returned 0 has seen the group empty.
LEMMA WaitStep ==
  ASSUME GroupTypeOK, LocalInv, CountInv, WaitSawEmpty, GroupNext
  PROVE  WaitSawEmpty'
<1> USE GroupAssumption
<1>1. ASSUME NEW t \in Workers, EnterFirst(t)
      PROVE  WaitSawEmpty'
  BY <1>1, Zenon DEF EnterFirst, Word, GroupTypeOK, Waits, WaitSawEmpty
<1>2. ASSUME NEW t \in Workers, EnterMore(t)
      PROVE  WaitSawEmpty'
  BY <1>2, Zenon DEF EnterMore, Word, WaitSawEmpty
<1>3. ASSUME NEW t \in Workers, enter_retain(t)
      PROVE  WaitSawEmpty'
  BY <1>3, Zenon DEF enter_retain, GroupGoto, GroupTypeOK, Waits, WaitSawEmpty
<1>4. ASSUME NEW t \in Workers, LeaveLast(t)
      PROVE  WaitSawEmpty'
  BY <1>4, Zenon DEF LeaveLast, Recorded, GroupTypeOK, WaitSawEmpty
<1>5. ASSUME NEW t \in Workers, LeaveMore(t)
      PROVE  WaitSawEmpty'
  BY <1>5, Zenon DEF LeaveMore, Word, WaitSawEmpty
<1>6. ASSUME NEW t \in Workers, ClearNone(t)
      PROVE  WaitSawEmpty'
  BY <1>6, Zenon DEF ClearNone, ClearEnds, Recorded, GroupTypeOK, Waits, WaitSawEmpty
<1>7. ASSUME NEW t \in Workers, ClearDone(t)
      PROVE  WaitSawEmpty'
  BY <1>7, Zenon DEF ClearDone, ClearEnds, Recorded, Word, GroupTypeOK, Waits, WaitSawEmpty
<1>8. ASSUME NEW t \in Workers, ClearAgain(t)
      PROVE  WaitSawEmpty'
  BY <1>8, Zenon DEF ClearAgain, Recorded, GroupTypeOK, WaitSawEmpty
<1>9. ASSUME NEW t \in Workers, Captured(t)
      PROVE  WaitSawEmpty'
  BY <1>9, Zenon DEF Captured, Recorded, GroupTypeOK, Waits, WaitSawEmpty
<1>10. ASSUME NEW t \in Workers, Submitted(t)
      PROVE  WaitSawEmpty'
  BY <1>10 DEF Submitted, Recorded, Waits, WaitSawEmpty
<1>11. ASSUME NEW t \in Workers, Woken(t)
      PROVE  WaitSawEmpty'
  BY <1>11, Zenon DEF Woken, Waits, WaitSawEmpty
<1>12. ASSUME NEW t \in Workers, wake_release(t)
      PROVE  WaitSawEmpty'
  BY <1>12, Zenon DEF wake_release, GroupReturn, GroupGoto, GroupTypeOK, Waits, WaitSawEmpty
<1>13. ASSUME NEW t \in Workers, Waiting(t)
      PROVE  WaitSawEmpty'
  BY <1>13, Zenon DEF Waiting, Recorded, Word, GroupTypeOK, WaitSawEmpty
<1>14. ASSUME NEW t \in Workers, WaitMoves(t)
      PROVE  WaitSawEmpty'
  BY <1>14, Zenon DEF WaitMoves, GroupTypeOK, WaitSawEmpty
<1>15. ASSUME NEW t \in Workers, WaitReturns(t)
      PROVE  WaitSawEmpty'
  BY <1>15, Zenon DEF WaitReturns, GroupReturn, GroupGoto, GroupTypeOK, Waits, WaitSawEmpty
<1>16. ASSUME NEW t \in Workers, NEW b \in Blocks, NotifyFirst(t, b)
      PROVE  WaitSawEmpty'
  BY <1>16, Zenon DEF NotifyFirst, NotifyBegins, Recorded, GroupTypeOK, Waits, WaitSawEmpty
<1>17. ASSUME NEW t \in Workers, NEW b \in Blocks, NotifyMore(t, b)
      PROVE  WaitSawEmpty'
  BY <1>17, Zenon DEF NotifyMore, NotifyBegins, Recorded, GroupTypeOK, Waits, WaitSawEmpty
<1>18. ASSUME NEW t \in Workers, notify_retain(t)
      PROVE  WaitSawEmpty'
  BY <1>18, Zenon DEF notify_retain, GroupGoto, GroupTypeOK, Waits, WaitSawEmpty
<1>19. ASSUME NEW t \in Workers, LinkFirst(t)
      PROVE  WaitSawEmpty'
  BY <1>19, Zenon DEF LinkFirst, GroupTypeOK, Waits, WaitSawEmpty
<1>20. ASSUME NEW t \in Workers, LinkMore(t)
      PROVE  WaitSawEmpty'
  BY <1>20, Zenon DEF LinkMore, GroupReturn, GroupGoto, GroupTypeOK, Waits, WaitSawEmpty
<1>21. ASSUME NEW t \in Workers, FlagSets(t)
      PROVE  WaitSawEmpty'
  BY <1>21, Zenon
  DEF FlagSets, Word, GroupReturn, GroupGoto, GroupTypeOK, Waits, WaitSawEmpty
<1>22. ASSUME NEW t \in Workers, FlagWakes(t)
      PROVE  WaitSawEmpty'
  BY <1>22, Zenon DEF FlagWakes, Recorded, Word, GroupTypeOK, WaitSawEmpty
<1>23. ASSUME dispatch_release
      PROVE  WaitSawEmpty'
  BY <1>23, Zenon DEF dispatch_release, WaitSawEmpty
<1> QED
  BY <1>1, <1>2, <1>3, <1>4, <1>5, <1>6, <1>7, <1>8, <1>9, <1>10, <1>11, <1>12, <1>13,
      <1>14, <1>15, <1>16, <1>17, <1>18, <1>19, <1>20, <1>21, <1>22, <1>23, GroupSteps,
      Zenon DEF GroupEffect

\* Every step keeps the types.
LEMMA TypeStep ==
  ASSUME GroupTypeOK, LocalInv, CountInv, do_ref_cnt' \in Nat, GroupNext
  PROVE  GroupTypeOK'
<1> USE GroupAssumption
<1>1. ASSUME NEW t \in Workers, EnterFirst(t)
      PROVE  GroupTypeOK'
  BY <1>1, Zenon DEF EnterFirst, Word, GroupTypeOK, States
<1>2. ASSUME NEW t \in Workers, EnterMore(t)
      PROVE  GroupTypeOK'
  BY <1>2 DEF EnterMore, Word, GroupTypeOK, States, NoLocal, Waits, LocalInv
<1>3. ASSUME NEW t \in Workers, enter_retain(t)
      PROVE  GroupTypeOK'
  BY <1>3, Zenon DEF enter_retain, GroupGoto, GroupTypeOK, States, CountInv, Entering
<1>4. ASSUME NEW t \in Workers, LeaveLast(t)
      PROVE  GroupTypeOK'
  BY <1>4
  DEF LeaveLast, Recorded, Word, GroupTypeOK, States, Locals, NoState, NoLocal, LocalInv,
      CountInv
<1>5. ASSUME NEW t \in Workers, LeaveMore(t)
      PROVE  GroupTypeOK'
  <2>1. dg_state.count - 1 \in Nat /\ entered - 1 \in Nat
    BY <1>5 DEF LeaveMore, GroupTypeOK, CountInv
  <2>2. dg_state' \in States
    BY <1>5, <2>1, Zenon DEF LeaveMore, Word, GroupTypeOK, States
  <2> QED
    BY <1>5, <2>1, <2>2, Zenon DEF LeaveMore, GroupTypeOK
<1>6. ASSUME NEW t \in Workers, ClearNone(t)
      PROVE  GroupTypeOK'
  BY <1>6
  DEF ClearNone, ClearEnds, Recorded, GroupTypeOK, Locals, NoState, NoLocal, Waits, Wakes,
      LocalInv
<1>7. ASSUME NEW t \in Workers, ClearDone(t)
      PROVE  GroupTypeOK'
  BY <1>7
  DEF ClearDone, ClearEnds, Recorded, Word, GroupTypeOK, States, Locals, NoState, Waits,
      Wakes, LocalInv, CountInv, Entering
<1>8. ASSUME NEW t \in Workers, ClearAgain(t)
      PROVE  GroupTypeOK'
  BY <1>8, Zenon DEF ClearAgain, Recorded, GroupTypeOK, Locals
<1>9. ASSUME NEW t \in Workers, Captured(t)
      PROVE  GroupTypeOK'
  <2>1. local[t].refs + 1 \in 0..2
    BY <1>9 DEF Captured, GroupTypeOK, Locals, LocalInv
  <2>2. local' \in [Workers -> Locals]
    BY <1>9, <2>1, Zenon DEF Captured, Recorded, GroupTypeOK, Locals
  <2>3. dg_notify' \in Seq(Blocks)
    BY <1>9 DEF Captured
  <2> QED
    BY <1>9, <2>2, <2>3, Zenon DEF Captured, GroupTypeOK, Wakes
<1>10. ASSUME NEW t \in Workers, Submitted(t)
      PROVE  GroupTypeOK'
  <2>1. PICK n \in Seq(Blocks), label \in {"submit", "wake", "release"} :
               /\ Recorded(t, local[t].state, local[t].refs, n, local[t].block, local[t].empty)
               /\ group_pc' = [group_pc EXCEPT ![t] = label]
    BY <1>10, Zenon DEF Submitted
  <2>2. local' \in [Workers -> Locals]
    BY <2>1, Zenon DEF Recorded, GroupTypeOK, Locals
  <2> QED
    BY <1>10, <2>1, <2>2, Zenon DEF Submitted, GroupTypeOK, Wakes
<1>11. ASSUME NEW t \in Workers, Woken(t)
      PROVE  GroupTypeOK'
  BY <1>11, Zenon DEF Woken, GroupTypeOK, Waits, Wakes
<1>12. ASSUME NEW t \in Workers, wake_release(t)
      PROVE  GroupTypeOK'
  <2>1. local' \in [Workers -> Locals]
    BY <1>12 DEF wake_release, GroupReturn, NoLocal, NoState, GroupTypeOK, Locals, States
  <2>2. group_crash' \in BOOLEAN
    BY <1>12, Zenon DEF wake_release, Release, GroupTypeOK
  <2> QED
    BY <1>12, <2>1, <2>2, Zenon
       DEF wake_release, GroupReturn, GroupGoto, GroupTypeOK
<1>13. ASSUME NEW t \in Workers, Waiting(t)
      PROVE  GroupTypeOK'
  BY <1>13, Zenon DEF Waiting, Recorded, Word, GroupTypeOK, States, Locals, Waits
<1>14. ASSUME NEW t \in Workers, WaitMoves(t)
      PROVE  GroupTypeOK'
  BY <1>14 DEF WaitMoves, GroupTypeOK
<1>15. ASSUME NEW t \in Workers, WaitReturns(t)
      PROVE  GroupTypeOK'
  BY <1>15
  DEF WaitReturns, GroupReturn, GroupGoto, GroupTypeOK, States, Locals, NoState, NoLocal,
      Waits
<1>16. ASSUME NEW t \in Workers, NEW b \in Blocks, NotifyFirst(t, b)
      PROVE  GroupTypeOK'
  BY <1>16 DEF NotifyFirst, NotifyBegins, Recorded, GroupTypeOK, Locals
<1>17. ASSUME NEW t \in Workers, NEW b \in Blocks, NotifyMore(t, b)
      PROVE  GroupTypeOK'
  <2>1. local' \in [Workers -> Locals]
    BY <1>17, Zenon DEF NotifyMore, Recorded, GroupTypeOK, Locals
  <2>2. dg_notify' \in Seq(Blocks)
    BY <1>17 DEF NotifyMore, NotifyBegins, GroupTypeOK
  <2> QED
    BY <1>17, <2>1, <2>2, Zenon DEF NotifyMore, NotifyBegins, GroupTypeOK
<1>18. ASSUME NEW t \in Workers, notify_retain(t)
      PROVE  GroupTypeOK'
  BY <1>18, Zenon DEF notify_retain, GroupGoto, GroupTypeOK
<1>19. ASSUME NEW t \in Workers, LinkFirst(t)
      PROVE  GroupTypeOK'
  <2>1. local[t].block \in Blocks
    BY <1>19, Zenon DEF LinkFirst, GroupTypeOK, Locals, LocalInv, Notifying
  <2> QED
    BY <1>19, <2>1, Zenon DEF LinkFirst, GroupTypeOK
<1>20. ASSUME NEW t \in Workers, LinkMore(t)
      PROVE  GroupTypeOK'
  <2>1. local[t].block \in Blocks
    BY <1>20, Zenon DEF LinkMore, GroupTypeOK, Locals, LocalInv, Notifying
  <2>2. local' \in [Workers -> Locals]
    BY <1>20 DEF LinkMore, GroupReturn, NoLocal, NoState, GroupTypeOK, Locals, States
  <2> QED
    BY <1>20, <2>1, <2>2, Zenon DEF LinkMore, GroupReturn, GroupGoto, GroupTypeOK
<1>21. ASSUME NEW t \in Workers, FlagSets(t)
      PROVE  GroupTypeOK'
  BY <1>21
  DEF FlagSets, Word, GroupReturn, GroupGoto, GroupTypeOK, States, Locals, NoState,
      NoLocal, Waits
<1>22. ASSUME NEW t \in Workers, FlagWakes(t)
      PROVE  GroupTypeOK'
  BY <1>22, Zenon DEF FlagWakes, Recorded, Word, GroupTypeOK, States, Locals, Wakes
<1>23. ASSUME dispatch_release
      PROVE  GroupTypeOK'
  BY <1>23, Zenon DEF dispatch_release, Release, GroupTypeOK
<1> QED
  BY <1>1, <1>2, <1>3, <1>4, <1>5, <1>6, <1>7, <1>8, <1>9, <1>10, <1>11, <1>12, <1>13,
      <1>14, <1>15, <1>16, <1>17, <1>18, <1>19, <1>20, <1>21, <1>22, <1>23, GroupSteps,
      Zenon DEF GroupEffect

-----------------------------------------------------------------------------
\* What a step does to the references: nothing; the retain of the first enter
\* and of the first notify; a leave that empties the group, or a thread that
\* takes the list, inherits their references; a wake ends; the clients let go.
SameTerms == ClientRef' = ClientRef /\ CountRef' = CountRef /\ ListRef' = ListRef
SameOwing == Owing' = Owing /\ OwingTwo' = OwingTwo

RefsKept == do_ref_cnt' = do_ref_cnt /\ SameTerms /\ SameOwing

EnterRetained ==
  /\ do_ref_cnt' = do_ref_cnt + 1 /\ CountRef = 0 /\ CountRef' = 1
  /\ ClientRef' = ClientRef /\ ListRef' = ListRef /\ SameOwing

NotifyRetained ==
  /\ do_ref_cnt' = do_ref_cnt + 1 /\ ListRef = 0 /\ ListRef' = 1
  /\ ClientRef' = ClientRef /\ CountRef' = CountRef /\ SameOwing

LeaveInherits ==
  /\ do_ref_cnt' = do_ref_cnt /\ CountRef = 1 /\ CountRef' = 0
  /\ ClientRef' = ClientRef /\ ListRef' = ListRef
  /\ \E t \in Workers : t \notin Owing /\ Owing' = Owing \cup {t}
  /\ OwingTwo' = OwingTwo

CaptureInherits ==
  /\ do_ref_cnt' = do_ref_cnt /\ ListRef = 1 /\ ListRef' = 0
  /\ ClientRef' = ClientRef /\ CountRef' = CountRef
  /\ \E t \in Workers :
       \/ t \notin Owing /\ Owing' = Owing \cup {t} /\ OwingTwo' = OwingTwo
       \/ t \notin OwingTwo /\ OwingTwo' = OwingTwo \cup {t} /\ Owing' = Owing

WakeReleases ==
  /\ SameTerms
  /\ \E t \in Owing :
       /\ Owing' = Owing \ {t}
       /\ \/ t \in OwingTwo /\ OwingTwo' = OwingTwo \ {t} /\ do_ref_cnt' = do_ref_cnt - 2
          \/ t \notin OwingTwo /\ OwingTwo' = OwingTwo /\ do_ref_cnt' = do_ref_cnt - 1

ClientsRelease ==
  /\ do_ref_cnt' = do_ref_cnt - 1 /\ ClientRef = 1 /\ ClientRef' = 0
  /\ CountRef' = CountRef /\ ListRef' = ListRef /\ SameOwing

RefAccount ==
  \/ RefsKept \/ EnterRetained \/ NotifyRetained \/ LeaveInherits \/ CaptureInherits
  \/ WakeReleases \/ ClientsRelease

\* Nobody owes more or less than before.
LEMMA OwingKept ==
  ASSUME \A u \in Workers : (Owes(u)' <=> Owes(u)) /\ (OwesTwo(u)' <=> OwesTwo(u))
  PROVE  SameOwing
BY Zenon DEF SameOwing, Owing, OwingTwo

\* One thread more owes the group a reference.
LEMMA OwingGrows ==
  ASSUME NEW t \in Workers, ~Owes(t), Owes(t)',
         \A u \in Workers : u # t => (Owes(u)' <=> Owes(u)),
         \A u \in Workers : OwesTwo(u)' <=> OwesTwo(u)
  PROVE  t \notin Owing /\ Owing' = Owing \cup {t} /\ OwingTwo' = OwingTwo
BY Zenon DEF Owing, OwingTwo

\* One thread more owes the group a second reference.
LEMMA OwingTwoGrows ==
  ASSUME NEW t \in Workers, ~OwesTwo(t), OwesTwo(t)',
         \A u \in Workers : u # t => (OwesTwo(u)' <=> OwesTwo(u)),
         \A u \in Workers : Owes(u)' <=> Owes(u)
  PROVE  t \notin OwingTwo /\ OwingTwo' = OwingTwo \cup {t} /\ Owing' = Owing
BY Zenon DEF Owing, OwingTwo

\* A thread has given back what it owed.
LEMMA OwingShrinks ==
  ASSUME NEW t \in Workers, Owes(t), ~Owes(t)', ~OwesTwo(t)',
         \A u \in Workers : u # t => (Owes(u)' <=> Owes(u)) /\ (OwesTwo(u)' <=> OwesTwo(u))
  PROVE  /\ t \in Owing /\ Owing' = Owing \ {t}
         /\ t \in OwingTwo <=> OwesTwo(t)
         /\ OwesTwo(t) => OwingTwo' = OwingTwo \ {t}
         /\ ~OwesTwo(t) => OwingTwo' = OwingTwo
BY Zenon DEF Owing, OwingTwo

\* A step that keeps the count and the list empty or not, and no thread in or
\* out of the places that matter, keeps the references.
LEMMA KeepsRefs ==
  ASSUME do_ref_cnt' = do_ref_cnt, held' = held,
         dg_state'.count > 0 <=> dg_state.count > 0,
         dg_notify' # <<>> <=> dg_notify # <<>>,
         \A u \in Workers : /\ Entering(u)' <=> Entering(u)
                            /\ Retaining(u)' <=> Retaining(u)
                            /\ Owes(u)' <=> Owes(u)
                            /\ OwesTwo(u)' <=> OwesTwo(u)
  PROVE  RefsKept
<1>1. SameOwing
  BY OwingKept, Zenon
<1> QED
  BY <1>1, Zenon DEF RefsKept, SameTerms, ClientRef, CountRef, ListRef

\* Every step has one of these effects on the references.
LEMMA RefAccountStep ==
  ASSUME GroupTypeOK, LocalInv, NotifyInv, CountInv, GroupNext
  PROVE  RefAccount
<1> USE GroupAssumption
<1>1. ASSUME NEW t \in Workers, EnterFirst(t)
      PROVE  RefAccount
  <2>1. SameOwing
    BY <1>1, OwingKept, Zenon DEF EnterFirst, GroupTypeOK, Owes, OwesTwo, Wakes
  <2>2. CountRef = 0 /\ CountRef' = 0
    BY <1>1 DEF EnterFirst, GroupTypeOK, CountRef, Entering
  <2>3. ClientRef' = ClientRef /\ ListRef' = ListRef
    BY <1>1, Zenon DEF EnterFirst, GroupTypeOK, ClientRef, ListRef, Retaining
  <2> QED
    BY <1>1, <2>1, <2>2, <2>3, Zenon DEF EnterFirst, RefAccount, RefsKept, SameTerms
<1>2. ASSUME NEW t \in Workers, EnterMore(t)
      PROVE  RefAccount
  <2>1. /\ do_ref_cnt' = do_ref_cnt /\ held' = held
        /\ dg_notify' # <<>> <=> dg_notify # <<>>
    BY <1>2, Zenon DEF EnterMore
  <2>2. dg_state'.count > 0 <=> dg_state.count > 0
    BY <1>2 DEF EnterMore, GroupTypeOK, States, Word
  <2>3. ASSUME NEW u \in Workers
        PROVE  /\ Entering(u)' <=> Entering(u)
               /\ Retaining(u)' <=> Retaining(u)
               /\ Owes(u)' <=> Owes(u)
               /\ OwesTwo(u)' <=> OwesTwo(u)
    BY <1>2, Zenon DEF EnterMore, Entering, Retaining, Owes, OwesTwo
  <2> QED
    BY <2>1, <2>2, <2>3, KeepsRefs, Zenon DEF RefAccount
<1>3. ASSUME NEW t \in Workers, enter_retain(t)
      PROVE  RefAccount
  <2> USE DEF enter_retain, GroupGoto
  <2>1. SameOwing
    BY <1>3, OwingKept, Zenon DEF GroupTypeOK, Owes, OwesTwo, Wakes
  <2>2. CountRef = 0 /\ CountRef' = 1
    BY <1>3 DEF GroupTypeOK, CountRef, Entering, CountInv
  <2>3. ClientRef' = ClientRef /\ ListRef' = ListRef
    BY <1>3, Zenon DEF GroupTypeOK, ClientRef, ListRef, Retaining
  <2> QED
    BY <1>3, <2>1, <2>2, <2>3, Zenon DEF RefAccount, EnterRetained
<1>4. ASSUME NEW t \in Workers, LeaveLast(t)
      PROVE  RefAccount
  <2>1. t \notin Owing /\ Owing' = Owing \cup {t} /\ OwingTwo' = OwingTwo
    <3>1. ~Owes(t) /\ Owes(t)'
      BY <1>4, Zenon DEF LeaveLast, GroupTypeOK, Owes, Wakes
    <3>2. ASSUME NEW u \in Workers
          PROVE  (u # t => (Owes(u)' <=> Owes(u))) /\ (OwesTwo(u)' <=> OwesTwo(u))
      BY <1>4, Zenon DEF LeaveLast, Recorded, GroupTypeOK, Owes, OwesTwo, Wakes
    <3> QED
      BY <3>1, <3>2, OwingGrows, Zenon
  <2>2. CountRef = 1 /\ CountRef' = 0
    BY <1>4 DEF LeaveLast, Word, GroupTypeOK, CountRef, CountInv
  <2>3. ClientRef' = ClientRef /\ ListRef' = ListRef
    BY <1>4, Zenon DEF LeaveLast, GroupTypeOK, ClientRef, ListRef, Retaining
  <2> QED
    BY <1>4, <2>1, <2>2, <2>3, Zenon DEF LeaveLast, RefAccount, LeaveInherits
<1>5. ASSUME NEW t \in Workers, LeaveMore(t)
      PROVE  RefAccount
  <2>1. /\ do_ref_cnt' = do_ref_cnt /\ held' = held
        /\ dg_notify' # <<>> <=> dg_notify # <<>>
    BY <1>5, Zenon DEF LeaveMore
  <2>2. dg_state'.count > 0 <=> dg_state.count > 0
    BY <1>5 DEF LeaveMore, GroupTypeOK, CountInv, Word
  <2>3. ASSUME NEW u \in Workers
        PROVE  /\ Entering(u)' <=> Entering(u)
               /\ Retaining(u)' <=> Retaining(u)
               /\ Owes(u)' <=> Owes(u)
               /\ OwesTwo(u)' <=> OwesTwo(u)
    BY <1>5, Zenon DEF LeaveMore, Entering, Retaining, Owes, OwesTwo
  <2> QED
    BY <2>1, <2>2, <2>3, KeepsRefs, Zenon DEF RefAccount
<1>6. ASSUME NEW t \in Workers, ClearNone(t)
      PROVE  RefAccount
  <2>1. /\ do_ref_cnt' = do_ref_cnt /\ held' = held
        /\ dg_notify' # <<>> <=> dg_notify # <<>>
    BY <1>6, Zenon DEF ClearNone, ClearEnds
  <2>2. dg_state'.count > 0 <=> dg_state.count > 0
    BY <1>6, Zenon DEF ClearNone, ClearEnds
  <2>3. ASSUME NEW u \in Workers
        PROVE  /\ Entering(u)' <=> Entering(u)
               /\ Retaining(u)' <=> Retaining(u)
               /\ Owes(u)' <=> Owes(u)
               /\ OwesTwo(u)' <=> OwesTwo(u)
    BY <1>6
    DEF ClearNone, ClearEnds, Recorded, GroupTypeOK, Entering, Retaining, Owes, OwesTwo,
        Wakes
  <2> QED
    BY <2>1, <2>2, <2>3, KeepsRefs, Zenon DEF RefAccount
<1>7. ASSUME NEW t \in Workers, ClearDone(t)
      PROVE  RefAccount
  <2>1. /\ do_ref_cnt' = do_ref_cnt /\ held' = held
        /\ dg_notify' # <<>> <=> dg_notify # <<>>
    BY <1>7, Zenon DEF ClearDone, ClearEnds
  <2>2. dg_state'.count > 0 <=> dg_state.count > 0
    BY <1>7, Zenon DEF ClearDone, ClearEnds, Word
  <2>3. ASSUME NEW u \in Workers
        PROVE  /\ Entering(u)' <=> Entering(u)
               /\ Retaining(u)' <=> Retaining(u)
               /\ Owes(u)' <=> Owes(u)
               /\ OwesTwo(u)' <=> OwesTwo(u)
    BY <1>7
    DEF ClearDone, ClearEnds, Recorded, GroupTypeOK, Entering, Retaining, Owes, OwesTwo,
        Wakes
  <2> QED
    BY <2>1, <2>2, <2>3, KeepsRefs, Zenon DEF RefAccount
<1>8. ASSUME NEW t \in Workers, ClearAgain(t)
      PROVE  RefAccount
  <2>1. /\ do_ref_cnt' = do_ref_cnt /\ held' = held
        /\ dg_notify' # <<>> <=> dg_notify # <<>>
    BY <1>8, Zenon DEF ClearAgain
  <2>2. dg_state'.count > 0 <=> dg_state.count > 0
    BY <1>8, Zenon DEF ClearAgain
  <2>3. ASSUME NEW u \in Workers
        PROVE  /\ Entering(u)' <=> Entering(u)
               /\ Retaining(u)' <=> Retaining(u)
               /\ Owes(u)' <=> Owes(u)
               /\ OwesTwo(u)' <=> OwesTwo(u)
    BY <1>8, Zenon DEF ClearAgain, Recorded, GroupTypeOK, Entering, Retaining, Owes, OwesTwo
  <2> QED
    BY <2>1, <2>2, <2>3, KeepsRefs, Zenon DEF RefAccount
<1>9. ASSUME NEW t \in Workers, Captured(t)
      PROVE  RefAccount
  <2>1. ASSUME local[t].refs = 0
        PROVE  t \notin Owing /\ Owing' = Owing \cup {t} /\ OwingTwo' = OwingTwo
    <3>1. ~Owes(t) /\ Owes(t)'
      BY <1>9, <2>1 DEF Captured, Recorded, GroupTypeOK, Owes, Wakes
    <3>2. ASSUME NEW u \in Workers
          PROVE  (u # t => (Owes(u)' <=> Owes(u))) /\ (OwesTwo(u)' <=> OwesTwo(u))
      BY <1>9, <2>1 DEF Captured, Recorded, Owes, OwesTwo
    <3> QED
      BY <3>1, <3>2, OwingGrows, Zenon
  <2>2. ASSUME local[t].refs # 0
        PROVE  t \notin OwingTwo /\ OwingTwo' = OwingTwo \cup {t} /\ Owing' = Owing
    <3>1. local[t].refs = 1
      BY <1>9, <2>2 DEF Captured, GroupTypeOK, Locals, LocalInv
    <3>2. ~OwesTwo(t) /\ OwesTwo(t)'
      BY <1>9, <3>1 DEF Captured, Recorded, GroupTypeOK, OwesTwo, Wakes
    <3>3. ASSUME NEW u \in Workers
          PROVE  (Owes(u)' <=> Owes(u)) /\ (u # t => (OwesTwo(u)' <=> OwesTwo(u)))
      BY <1>9, <3>1 DEF Captured, Recorded, Owes, OwesTwo, Wakes
    <3> QED
      BY <3>2, <3>3, OwingTwoGrows, Zenon
  <2>3. ListRef = 1 /\ ListRef' = 0
    <3>1. ASSUME NEW u \in Workers
          PROVE  ~Retaining(u)
      BY <1>9, Zenon DEF Captured, NotifyInv, Heading, Notifying, Retaining
    <3>2. dg_notify # <<>> /\ dg_notify' = <<>>
      BY <1>9, Zenon DEF Captured
    <3> QED
      BY <3>1, <3>2, Zenon DEF ListRef
  <2>4. ClientRef' = ClientRef /\ CountRef' = CountRef
    BY <1>9, Zenon DEF Captured, GroupTypeOK, ClientRef, CountRef, Entering
  <2> QED
    BY <1>9, <2>1, <2>2, <2>3, <2>4, Zenon DEF Captured, RefAccount, CaptureInherits
<1>10. ASSUME NEW t \in Workers, Submitted(t)
      PROVE  RefAccount
  <2>1. /\ do_ref_cnt' = do_ref_cnt /\ held' = held
        /\ dg_notify' # <<>> <=> dg_notify # <<>>
    BY <1>10, Zenon DEF Submitted
  <2>2. dg_state'.count > 0 <=> dg_state.count > 0
    BY <1>10, Zenon DEF Submitted
  <2>3. ASSUME NEW u \in Workers
        PROVE  /\ Entering(u)' <=> Entering(u)
               /\ Retaining(u)' <=> Retaining(u)
               /\ Owes(u)' <=> Owes(u)
               /\ OwesTwo(u)' <=> OwesTwo(u)
    BY <1>10 DEF Submitted, Recorded, Entering, Retaining, Owes, OwesTwo, Wakes
  <2> QED
    BY <2>1, <2>2, <2>3, KeepsRefs, Zenon DEF RefAccount
<1>11. ASSUME NEW t \in Workers, Woken(t)
      PROVE  RefAccount
  <2>1. /\ do_ref_cnt' = do_ref_cnt /\ held' = held
        /\ dg_notify' # <<>> <=> dg_notify # <<>>
    BY <1>11, Zenon DEF Woken
  <2>2. dg_state'.count > 0 <=> dg_state.count > 0
    BY <1>11, Zenon DEF Woken
  <2>3. ASSUME NEW u \in Workers
        PROVE  /\ Entering(u)' <=> Entering(u)
               /\ Retaining(u)' <=> Retaining(u)
               /\ Owes(u)' <=> Owes(u)
               /\ OwesTwo(u)' <=> OwesTwo(u)
    BY <1>11, Zenon DEF Woken, Entering, Retaining, Owes, OwesTwo, Wakes
  <2> QED
    BY <2>1, <2>2, <2>3, KeepsRefs, Zenon DEF RefAccount
<1>12. ASSUME NEW t \in Workers, wake_release(t)
      PROVE  RefAccount
  <2> USE DEF wake_release, GroupReturn, GroupGoto, Release
  <2>1. Owes(t) /\ ~Owes(t)' /\ ~OwesTwo(t)'
    BY <1>12, Zenon DEF GroupTypeOK, LocalInv, Owes, OwesTwo, Wakes
  <2>2. ASSUME NEW u \in Workers, u # t
        PROVE  (Owes(u)' <=> Owes(u)) /\ (OwesTwo(u)' <=> OwesTwo(u))
    BY <1>12, <2>2, Zenon DEF GroupTypeOK, Owes, OwesTwo
  <2>3. SameTerms
    BY <1>12, Zenon
    DEF GroupTypeOK, SameTerms, ClientRef, CountRef, ListRef, Entering, Retaining
  <2>4. IF OwesTwo(t) THEN do_ref_cnt' = do_ref_cnt - 2 ELSE do_ref_cnt' = do_ref_cnt - 1
    BY <1>12 DEF GroupTypeOK, Locals, LocalInv, OwesTwo, Wakes
  <2> QED
    BY <2>1, <2>2, <2>3, <2>4, OwingShrinks, Zenon DEF RefAccount, WakeReleases
<1>13. ASSUME NEW t \in Workers, Waiting(t)
      PROVE  RefAccount
  <2>1. /\ do_ref_cnt' = do_ref_cnt /\ held' = held
        /\ dg_notify' # <<>> <=> dg_notify # <<>>
    BY <1>13, Zenon DEF Waiting
  <2>2. dg_state'.count > 0 <=> dg_state.count > 0
    BY <1>13, Zenon DEF Waiting, Word
  <2>3. ASSUME NEW u \in Workers
        PROVE  /\ Entering(u)' <=> Entering(u)
               /\ Retaining(u)' <=> Retaining(u)
               /\ Owes(u)' <=> Owes(u)
               /\ OwesTwo(u)' <=> OwesTwo(u)
    BY <1>13, Zenon
    DEF Waiting, Recorded, GroupTypeOK, Entering, Retaining, Owes, OwesTwo, Wakes
  <2> QED
    BY <2>1, <2>2, <2>3, KeepsRefs, Zenon DEF RefAccount
<1>14. ASSUME NEW t \in Workers, WaitMoves(t)
      PROVE  RefAccount
  <2>1. /\ do_ref_cnt' = do_ref_cnt /\ held' = held
        /\ dg_notify' # <<>> <=> dg_notify # <<>>
    BY <1>14, Zenon DEF WaitMoves
  <2>2. dg_state'.count > 0 <=> dg_state.count > 0
    BY <1>14, Zenon DEF WaitMoves
  <2>3. ASSUME NEW u \in Workers
        PROVE  /\ Entering(u)' <=> Entering(u)
               /\ Retaining(u)' <=> Retaining(u)
               /\ Owes(u)' <=> Owes(u)
               /\ OwesTwo(u)' <=> OwesTwo(u)
    BY <1>14, Zenon
    DEF WaitMoves, GroupTypeOK, Entering, Retaining, Owes, OwesTwo, Wakes, Waits
  <2> QED
    BY <2>1, <2>2, <2>3, KeepsRefs, Zenon DEF RefAccount
<1>15. ASSUME NEW t \in Workers, WaitReturns(t)
      PROVE  RefAccount
  <2>1. /\ do_ref_cnt' = do_ref_cnt /\ held' = held
        /\ dg_notify' # <<>> <=> dg_notify # <<>>
    BY <1>15, Zenon DEF WaitReturns
  <2>2. dg_state'.count > 0 <=> dg_state.count > 0
    BY <1>15, Zenon DEF WaitReturns
  <2>3. ASSUME NEW u \in Workers
        PROVE  /\ Entering(u)' <=> Entering(u)
               /\ Retaining(u)' <=> Retaining(u)
               /\ Owes(u)' <=> Owes(u)
               /\ OwesTwo(u)' <=> OwesTwo(u)
    BY <1>15, Zenon
    DEF WaitReturns, GroupReturn, GroupGoto, GroupTypeOK, Entering, Retaining, Owes,
        OwesTwo, Wakes, Waits
  <2> QED
    BY <2>1, <2>2, <2>3, KeepsRefs, Zenon DEF RefAccount
<1>16. ASSUME NEW t \in Workers, NEW b \in Blocks, NotifyFirst(t, b)
      PROVE  RefAccount
  <2>1. SameOwing
    <3>1. ASSUME NEW u \in Workers
          PROVE  (Owes(u)' <=> Owes(u)) /\ (OwesTwo(u)' <=> OwesTwo(u))
      BY <1>16, Zenon
      DEF NotifyFirst, NotifyBegins, Recorded, GroupTypeOK, Owes, OwesTwo, Wakes
    <3> QED
      BY <3>1, OwingKept, Zenon
  <2>2. ListRef = 0 /\ ListRef' = 0
    BY <1>16, Zenon DEF NotifyFirst, GroupTypeOK, ListRef, Retaining
  <2>3. ClientRef' = ClientRef /\ CountRef' = CountRef
    BY <1>16, Zenon
    DEF NotifyFirst, NotifyBegins, GroupTypeOK, ClientRef, CountRef, Entering
  <2> QED
    BY <1>16, <2>1, <2>2, <2>3, Zenon
       DEF NotifyFirst, NotifyBegins, RefAccount, RefsKept, SameTerms
<1>17. ASSUME NEW t \in Workers, NEW b \in Blocks, NotifyMore(t, b)
      PROVE  RefAccount
  <2>1. /\ do_ref_cnt' = do_ref_cnt /\ held' = held
        /\ dg_notify' # <<>> <=> dg_notify # <<>>
    BY <1>17 DEF NotifyMore, NotifyBegins, GroupTypeOK
  <2>2. dg_state'.count > 0 <=> dg_state.count > 0
    BY <1>17, Zenon DEF NotifyMore, NotifyBegins
  <2>3. ASSUME NEW u \in Workers
        PROVE  /\ Entering(u)' <=> Entering(u)
               /\ Retaining(u)' <=> Retaining(u)
               /\ Owes(u)' <=> Owes(u)
               /\ OwesTwo(u)' <=> OwesTwo(u)
    BY <1>17, Zenon
    DEF NotifyMore, NotifyBegins, Recorded, GroupTypeOK, Entering, Retaining, Owes,
        OwesTwo, Wakes
  <2> QED
    BY <2>1, <2>2, <2>3, KeepsRefs, Zenon DEF RefAccount
<1>18. ASSUME NEW t \in Workers, notify_retain(t)
      PROVE  RefAccount
  <2> USE DEF notify_retain, GroupGoto
  <2>1. SameOwing
    BY <1>18, OwingKept, Zenon DEF GroupTypeOK, Owes, OwesTwo, Wakes
  <2>2. ListRef = 0 /\ ListRef' = 1
    BY <1>18, Zenon DEF GroupTypeOK, ListRef, Retaining, Heading, NotifyInv
  <2>3. ClientRef' = ClientRef /\ CountRef' = CountRef
    BY <1>18, Zenon DEF GroupTypeOK, ClientRef, CountRef, Entering
  <2> QED
    BY <1>18, <2>1, <2>2, <2>3, Zenon DEF RefAccount, NotifyRetained
<1>19. ASSUME NEW t \in Workers, LinkFirst(t)
      PROVE  RefAccount
  <2>1. /\ do_ref_cnt' = do_ref_cnt /\ held' = held
        /\ dg_notify' # <<>> <=> dg_notify # <<>>
    BY <1>19, Zenon DEF LinkFirst
  <2>2. dg_state'.count > 0 <=> dg_state.count > 0
    BY <1>19, Zenon DEF LinkFirst
  <2>3. ASSUME NEW u \in Workers
        PROVE  /\ Entering(u)' <=> Entering(u)
               /\ Retaining(u)' <=> Retaining(u)
               /\ Owes(u)' <=> Owes(u)
               /\ OwesTwo(u)' <=> OwesTwo(u)
    BY <1>19, Zenon DEF LinkFirst, GroupTypeOK, Entering, Retaining, Owes, OwesTwo, Wakes
  <2> QED
    BY <2>1, <2>2, <2>3, KeepsRefs, Zenon DEF RefAccount
<1>20. ASSUME NEW t \in Workers, LinkMore(t)
      PROVE  RefAccount
  <2>1. /\ do_ref_cnt' = do_ref_cnt /\ held' = held
        /\ dg_notify' # <<>> <=> dg_notify # <<>>
    BY <1>20, Zenon DEF LinkMore
  <2>2. dg_state'.count > 0 <=> dg_state.count > 0
    BY <1>20, Zenon DEF LinkMore
  <2>3. ASSUME NEW u \in Workers
        PROVE  /\ Entering(u)' <=> Entering(u)
               /\ Retaining(u)' <=> Retaining(u)
               /\ Owes(u)' <=> Owes(u)
               /\ OwesTwo(u)' <=> OwesTwo(u)
    BY <1>20, Zenon
    DEF LinkMore, GroupReturn, GroupGoto, GroupTypeOK, Entering, Retaining, Owes, OwesTwo,
        Wakes
  <2> QED
    BY <2>1, <2>2, <2>3, KeepsRefs, Zenon DEF RefAccount
<1>21. ASSUME NEW t \in Workers, FlagSets(t)
      PROVE  RefAccount
  <2>1. /\ do_ref_cnt' = do_ref_cnt /\ held' = held
        /\ dg_notify' # <<>> <=> dg_notify # <<>>
    BY <1>21, Zenon DEF FlagSets
  <2>2. dg_state'.count > 0 <=> dg_state.count > 0
    BY <1>21, Zenon DEF FlagSets, Word
  <2>3. ASSUME NEW u \in Workers
        PROVE  /\ Entering(u)' <=> Entering(u)
               /\ Retaining(u)' <=> Retaining(u)
               /\ Owes(u)' <=> Owes(u)
               /\ OwesTwo(u)' <=> OwesTwo(u)
    BY <1>21, Zenon
    DEF FlagSets, GroupReturn, GroupGoto, GroupTypeOK, Entering, Retaining, Owes, OwesTwo,
        Wakes
  <2> QED
    BY <2>1, <2>2, <2>3, KeepsRefs, Zenon DEF RefAccount
<1>22. ASSUME NEW t \in Workers, FlagWakes(t)
      PROVE  RefAccount
  <2>1. /\ do_ref_cnt' = do_ref_cnt /\ held' = held
        /\ dg_notify' # <<>> <=> dg_notify # <<>>
    BY <1>22, Zenon DEF FlagWakes
  <2>2. dg_state'.count > 0 <=> dg_state.count > 0
    BY <1>22, Zenon DEF FlagWakes
  <2>3. ASSUME NEW u \in Workers
        PROVE  /\ Entering(u)' <=> Entering(u)
               /\ Retaining(u)' <=> Retaining(u)
               /\ Owes(u)' <=> Owes(u)
               /\ OwesTwo(u)' <=> OwesTwo(u)
    BY <1>22 DEF FlagWakes, Recorded, LocalInv, Entering, Retaining, Owes, OwesTwo
  <2> QED
    BY <2>1, <2>2, <2>3, KeepsRefs, Zenon DEF RefAccount
<1>23. ASSUME dispatch_release
      PROVE  RefAccount
  BY <1>23, Zenon
     DEF dispatch_release, Release, RefAccount, ClientsRelease, SameOwing, Owing, OwingTwo,
         Owes, OwesTwo, ClientRef, CountRef, ListRef, Entering, Retaining
<1> QED
  BY <1>1, <1>2, <1>3, <1>4, <1>5, <1>6, <1>7, <1>8, <1>9, <1>10, <1>11, <1>12, <1>13,
      <1>14, <1>15, <1>16, <1>17, <1>18, <1>19, <1>20, <1>21, <1>22, <1>23, GroupSteps,
      Zenon DEF GroupEffect

INSTANCE FiniteSetTheorems

\* The threads that owe references are finitely many, before and after.
LEMMA OwingFinite ==
  /\ IsFiniteSet(Owing) /\ IsFiniteSet(OwingTwo)
  /\ IsFiniteSet(Owing') /\ IsFiniteSet(OwingTwo')
BY GroupAssumption, FS_Subset, Zenon DEF Owing, OwingTwo

\* The references of a step add up again, and never below zero.
LEMMA RefStep ==
  ASSUME RefInv, RefAccount
  PROVE  RefInv' /\ do_ref_cnt' \in Nat
<1>1. /\ ClientRef \in Nat /\ CountRef \in Nat /\ ListRef \in Nat
      /\ ClientRef' \in Nat /\ CountRef' \in Nat /\ ListRef' \in Nat
  BY Zenon DEF ClientRef, CountRef, ListRef
<1>2. IsFiniteSet(Owing) /\ IsFiniteSet(OwingTwo)
  BY OwingFinite, Zenon
<1>3. IsFiniteSet(Owing') /\ IsFiniteSet(OwingTwo')
  BY OwingFinite, Zenon
<1> DEFINE one == Cardinality(Owing)
           two == Cardinality(OwingTwo)
           one2 == Cardinality(Owing')
           two2 == Cardinality(OwingTwo')
<1>4. one \in Nat /\ two \in Nat /\ one2 \in Nat /\ two2 \in Nat
  BY <1>2, <1>3, FS_CardinalityType, Zenon
<1>5. do_ref_cnt = ClientRef + CountRef + ListRef + one + two
  BY Zenon DEF RefInv
<1>6. do_ref_cnt' = ClientRef' + CountRef' + ListRef' + one2 + two2
  <2>1. CASE RefsKept
    BY <1>5, <2>1, Zenon DEF RefsKept, SameTerms, SameOwing
  <2>2. CASE EnterRetained \/ NotifyRetained \/ ClientsRelease
    <3>1. one2 = one /\ two2 = two
      BY <2>2, Zenon DEF EnterRetained, NotifyRetained, ClientsRelease, SameOwing
    <3> HIDE DEF one, two, one2, two2
    <3>2. CASE EnterRetained
      BY <1>1, <1>4, <1>5, <3>1, <3>2 DEF EnterRetained
    <3>3. CASE NotifyRetained
      BY <1>1, <1>4, <1>5, <3>1, <3>3 DEF NotifyRetained
    <3>4. CASE ClientsRelease
      BY <1>1, <1>4, <1>5, <3>1, <3>4 DEF ClientsRelease
    <3> QED
      BY <2>2, <3>2, <3>3, <3>4, Zenon
  <2>3. CASE LeaveInherits
    <3>1. one2 = one + 1 /\ two2 = two
      BY <1>2, <2>3, FS_AddElement, Zenon DEF LeaveInherits
    <3> HIDE DEF one, two, one2, two2
    <3> QED
      BY <1>1, <1>4, <1>5, <2>3, <3>1 DEF LeaveInherits
  <2>4. CASE CaptureInherits
    <3>1. (one2 = one + 1 /\ two2 = two) \/ (one2 = one /\ two2 = two + 1)
      BY <1>2, <2>4, FS_AddElement, Zenon DEF CaptureInherits
    <3> HIDE DEF one, two, one2, two2
    <3> QED
      BY <1>1, <1>4, <1>5, <2>4, <3>1 DEF CaptureInherits
  <2>5. CASE WakeReleases
    <3>1. \/ one2 = one - 1 /\ two2 = two - 1 /\ do_ref_cnt' = do_ref_cnt - 2
          \/ one2 = one - 1 /\ two2 = two /\ do_ref_cnt' = do_ref_cnt - 1
      BY <1>2, <2>5, FS_RemoveElement, Zenon DEF WakeReleases
    <3> HIDE DEF one, two, one2, two2
    <3> QED
      BY <1>1, <1>4, <1>5, <2>5, <3>1 DEF WakeReleases, SameTerms
  <2> QED
    BY <2>1, <2>2, <2>3, <2>4, <2>5, Zenon DEF RefAccount
<1>7. RefInv'
  BY <1>6, Zenon DEF RefInv
<1>8. do_ref_cnt' \in Nat
  <2>1. \A a, b, c, d, e \in Nat : a + b + c + d + e \in Nat
    OBVIOUS
  <2> QED
    BY <1>1, <1>4, <1>6, <2>1, Zenon
<1> QED
  BY <1>7, <1>8, Zenon

\* Without references there is nothing to hold one.
LEMMA NoReferences ==
  ASSUME RefInv, do_ref_cnt = 0
  PROVE  ~held /\ CountRef = 0 /\ ListRef = 0 /\ \A t \in Workers : ~Owes(t)
<1>1. ClientRef \in {0, 1} /\ CountRef \in {0, 1} /\ ListRef \in {0, 1}
  BY Zenon DEF ClientRef, CountRef, ListRef
<1>2. IsFiniteSet(Owing) /\ IsFiniteSet(OwingTwo)
  BY OwingFinite, Zenon
<1> DEFINE one == Cardinality(Owing)
           two == Cardinality(OwingTwo)
<1>3. one \in Nat /\ two \in Nat
  BY <1>2, FS_CardinalityType, Zenon
<1>4. do_ref_cnt = ClientRef + CountRef + ListRef + one + two
  BY Zenon DEF RefInv
<1>5. ClientRef = 0 /\ CountRef = 0 /\ ListRef = 0 /\ one = 0
  <2> HIDE DEF one, two
  <2> QED
    BY <1>1, <1>3, <1>4
<1>6. Owing = {}
  BY <1>2, <1>5, FS_EmptySet, Zenon
<1> QED
  BY <1>5, <1>6 DEF ClientRef, Owing

\* The group at rest, and a word that says so.
Resting ==
  /\ \A t \in Workers : ~InGroup(t)
  /\ entered = 0 /\ dg_notify = <<>>
  /\ dg_state = [NoState EXCEPT !.gen = dg_state.gen]

\* A group that nothing refers to is at rest, and its word says so.
LEMMA AtRest ==
  GroupTypeOK /\ LocalInv /\ HeldInv /\ CountInv /\ WordInv /\ RefInv /\ do_ref_cnt = 0
  => Resting
<1> SUFFICES ASSUME GroupTypeOK, LocalInv, HeldInv, CountInv, WordInv, RefInv, do_ref_cnt = 0
             PROVE  Resting
  BY Zenon
<1>1. ~held /\ CountRef = 0 /\ ListRef = 0 /\ \A t \in Workers : ~Owes(t)
  BY NoReferences, Zenon
<1>2. \A t \in Workers : ~InGroup(t)
  BY <1>1, Zenon DEF HeldInv, LocalInv, Owes, InGroup
<1>3. dg_notify = <<>>
  BY <1>1, <1>2 DEF ListRef, Retaining, InGroup
<1>4. dg_state.count = 0
  BY <1>1, <1>2 DEF CountRef, Entering, InGroup, GroupTypeOK, States
<1>5. entered = 0
  BY <1>4 DEF CountInv, GroupTypeOK
<1>6. ~dg_state.waiters /\ ~dg_state.notifs
  BY <1>2, <1>4, Zenon DEF WordInv, InGroup
<1>7. dg_state = [NoState EXCEPT !.gen = dg_state.gen]
  <2>1. dg_state = Word(dg_state.gen, dg_state.count, dg_state.waiters, dg_state.notifs)
    BY WordOf, Zenon DEF GroupTypeOK
  <2>2. dg_state.waiters \in BOOLEAN /\ dg_state.notifs \in BOOLEAN
    BY Zenon DEF GroupTypeOK, States
  <2> QED
    BY <1>4, <1>6, <2>1, <2>2, EmptyWord, Zenon
<1> QED
  BY <1>2, <1>3, <1>5, <1>7, Zenon DEF Resting

\* A release that drops the count to zero disposes of a group at rest.
LEMMA CrashStep ==
  ASSUME GroupTypeOK', LocalInv', HeldInv', CountInv', WordInv', RefInv',
         GroupTypeOK, LocalInv, GroupNext, ~group_crash
  PROVE  ~group_crash'
<1>1. ASSUME NEW n \in Nat, Release(n), dg_state' = dg_state
      PROVE  ~group_crash'
  <2>1. do_ref_cnt = n => do_ref_cnt' = 0
    BY <1>1 DEF Release
  <2>2. (do_ref_cnt = 0)' => Resting'
    BY AtRest, PTL
  <2> QED
    BY <1>1, <2>1, <2>2, Zenon DEF Release, Resting
<1>2. ASSUME NEW t \in Workers, wake_release(t)
      PROVE  ~group_crash'
  <2>1. local[t] \in Locals
    BY Zenon DEF GroupTypeOK
  <2>2. local[t].refs \in Nat
    BY <2>1 DEF Locals
  <2> QED
    BY <1>1, <1>2, <2>2, Zenon DEF wake_release
<1>3. ASSUME dispatch_release
      PROVE  ~group_crash'
  <2>1. 1 \in Nat
    OBVIOUS
  <2> QED
    BY <1>1, <1>3, <2>1, Zenon DEF dispatch_release
<1>4. \/ dispatch_release \/ group_crash' = group_crash
      \/ \E t \in Workers : wake_release(t)
  BY Zenon
     DEF GroupNext, GroupClient, GroupStep, dispatch_group_enter, dispatch_group_leave,
         dispatch_group_wait, dispatch_group_notify, enter_retain, leave_clear, wake_capture,
         wake_submit, wake_by_address, wait_on_address, wait_check, wait_ends, notify_retain,
         notify_link, notify_flag
<1> QED
  BY <1>2, <1>3, <1>4, Zenon

-----------------------------------------------------------------------------
\* The group is created with the invariant.
LEMMA GroupInitInv == GroupInit => GroupInv
<1> SUFFICES ASSUME GroupInit
             PROVE  GroupInv
  BY Zenon
<1> USE GroupAssumption DEF GroupInit
<1>1. NoState \in States
  BY DEF NoState, States
<1>2. NoLocal \in Locals
  <2>1. FALSE \in BOOLEAN /\ <<>> \in Seq(Blocks) /\ 0 \in 0..2
    OBVIOUS
  <2> QED
    BY <1>1, <2>1, Zenon DEF NoLocal, Locals
<1>3. GroupTypeOK
  <2>1. dg_state \in States /\ local \in [Workers -> Locals]
    BY <1>1, <1>2, Zenon
  <2>2. dg_notify \in Seq(Blocks) /\ linked \in SUBSET Blocks
    OBVIOUS
  <2>3. do_ref_cnt \in Nat /\ entered \in Nat
    OBVIOUS
  <2>4. held \in BOOLEAN /\ group_crash \in BOOLEAN /\ emptied \in [Workers -> BOOLEAN]
    BY Zenon
  <2> QED
    BY <2>1, <2>2, <2>3, <2>4, Zenon DEF GroupTypeOK
<1>4. LocalInv /\ HeldInv /\ NotifyInv
  BY Zenon DEF LocalInv, HeldInv, NotifyInv, Notifying, Heading, Retaining, Wakes
<1>5. CountInv
  BY DEF CountInv, Entering, NoState
<1>6. WordInv /\ WaitSawEmpty /\ ~group_crash
  BY Zenon DEF WordInv, WaitSawEmpty, Waits, NoState
<1>7. RefInv
  <2>1. Owing = {} /\ OwingTwo = {}
    BY Zenon DEF Owing, OwingTwo, Owes, OwesTwo, Wakes
  <2>2. Cardinality(Owing) = 0 /\ Cardinality(OwingTwo) = 0
    BY <2>1, FS_EmptySet, Zenon
  <2>3. ClientRef = 1 /\ CountRef = 0 /\ ListRef = 0
    BY DEF ClientRef, CountRef, ListRef, NoState
  <2> QED
    BY <2>2, <2>3 DEF RefInv
<1> QED
  BY <1>3, <1>4, <1>5, <1>6, <1>7, Zenon DEF GroupInv

\* A stuttering step keeps the invariant.
LEMMA GroupStutter == GroupInv /\ UNCHANGED groupVars => GroupInv'
<1> SUFFICES ASSUME GroupInv, UNCHANGED groupVars
             PROVE  GroupInv'
  BY Zenon
<1> USE DEF GroupInv, groupVars
<1>1. GroupTypeOK'
  BY Zenon DEF GroupTypeOK
<1>2. LocalInv' /\ HeldInv'
  BY Zenon DEF LocalInv, HeldInv, Notifying
<1>3. NotifyInv'
  BY Zenon DEF NotifyInv, Notifying, Heading, Retaining
<1>4. CountInv' /\ WordInv'
  BY Zenon DEF CountInv, WordInv, Entering
<1>5. RefInv'
  BY Zenon
     DEF RefInv, ClientRef, CountRef, ListRef, Owing, OwingTwo, Owes, OwesTwo, Entering, Retaining
<1>6. WaitSawEmpty' /\ ~group_crash'
  BY Zenon DEF WaitSawEmpty
<1> QED
  BY <1>1, <1>2, <1>3, <1>4, <1>5, <1>6, Zenon

\* Every step keeps the invariant.
LEMMA GroupStepInv == GroupInv /\ GroupNext => GroupInv'
<1> SUFFICES ASSUME GroupInv, GroupNext
             PROVE  GroupInv'
  BY Zenon
<1> USE DEF GroupInv
<1>1. RefInv' /\ do_ref_cnt' \in Nat
  BY RefAccountStep, RefStep, Zenon
<1>2. GroupTypeOK'
  BY <1>1, TypeStep, Zenon
<1>3. LocalInv' /\ HeldInv' /\ NotifyInv' /\ CountInv' /\ WordInv' /\ WaitSawEmpty'
  BY LocalStep, HeldStep, NotifyStep, CountStep, WordStep, WaitStep, Zenon
<1>4. ~group_crash'
  BY <1>1, <1>2, <1>3, CrashStep, Zenon
<1> QED
  BY <1>1, <1>2, <1>3, <1>4, Zenon

\* The invariant holds of every group: among others, the count in the word is
\* that of the enters without a leave, and the reference count is the number
\* of references that clients, the count, the list and the threads that wake
\* others hold.
THEOREM GroupInvariant == GroupSpec => []GroupInv
<1>1. GroupInv /\ [GroupNext]_groupVars => GroupInv'
  BY GroupStepInv, GroupStutter, Zenon
<1> QED
  BY <1>1, GroupInitInv, PTL DEF GroupSpec

\* dispatch_group_wait returns 0 only when the group has been empty since the
\* call, for any number of threads, blocks and generations.
THEOREM WaitReturnsAfterEmpty == GroupSpec => []WaitSawEmpty
<1>1. GroupInv => WaitSawEmpty
  BY Zenon DEF GroupInv
<1> QED
  BY <1>1, GroupInvariant, PTL

\* The references that the group takes on itself keep it alive while a thread
\* is in one of its functions, while it is entered and while blocks wait for
\* it; it is disposed of with a word that says it is empty.
THEOREM GroupStaysAlive == GroupSpec => []GroupOutlivesUse
<1>1. GroupInv => GroupOutlivesUse
  BY AtRest, Zenon DEF GroupInv, GroupOutlivesUse, Resting
<1> QED
  BY <1>1, GroupInvariant, PTL
=============================================================================
