--------------------------- MODULE DispatchGroup ---------------------------
(***************************************************************************)
(* dispatch_group_t of libdispatch (src/semaphore.c): enter, leave, wait   *)
(* and notify on one 64-bit word that holds a generation, a count and two  *)
(* bits, the list of notification blocks, and the references that the      *)
(* group takes on itself.                                                  *)
(*                                                                         *)
(* An action is one atomic access.  Waiters sleep on the address of the    *)
(* generation (_dispatch_wait_on_address in src/shims/lock.c); the         *)
(* kernel's comparison and its enqueueing of the thread are one step, as   *)
(* module UlockTable shows them to be.                                     *)
(***************************************************************************)
EXTENDS Integers, Sequences, FiniteSets

CONSTANTS Workers,       \* the threads that use the group
          Blocks,        \* notification blocks, each used once
          NoBlock,
          MaxGen,        \* bound on the generation
          MaxEntered     \* bound on the count
ASSUME GroupAssumption ==
  /\ IsFiniteSet(Workers) /\ NoBlock \notin Blocks
  /\ MaxGen \in Nat /\ MaxEntered \in Nat

VARIABLES
  dg_state,       \* [gen, count, waiters, notifs]; the value field is -count
  dg_notify,      \* the blocks on the list, by the exchanges of its tail
  linked,         \* the blocks that their predecessor, or the head, points to
  do_ref_cnt,
  held,           \* whether the clients keep their reference
  entered,        \* calls of enter that returned and have no leave yet
  group_pc,       \* where each thread is
  local,          \* its local variables
  emptied,        \* whether the group has been empty since the call of wait
  block,          \* of each block: "new", "queued", "due" when the group has
                  \* been empty since, "submitted", or "early" if it was
                  \* submitted before it was due
  group_crash     \* whether the group was disposed of while in use

groupVars == <<dg_state, dg_notify, linked, do_ref_cnt, held, entered, group_pc,
               local, emptied, block, group_crash>>

States == [gen : 0..MaxGen, count : Nat, waiters : BOOLEAN, notifs : BOOLEAN]

NoState == [gen |-> 0, count |-> 0, waiters |-> FALSE, notifs |-> FALSE]

Locals == [state : States, refs : 0..2, snapshot : Seq(Blocks),
           block : Blocks \cup {NoBlock}, empty : BOOLEAN]

NoLocal == [state |-> NoState, refs |-> 0, snapshot |-> <<>>, block |-> NoBlock,
            empty |-> FALSE]

\* In a call of enter, wait or notify; and in wake, for leave or for notify.
Waits == {"wait", "asleep", "awake", "timed_out"}
Wakes == {"capture", "submit", "wake", "release"}

\* Type invariant of the group.
GroupTypeOK ==
  /\ dg_state \in States
  /\ dg_notify \in Seq(Blocks) /\ linked \in SUBSET Blocks
  /\ do_ref_cnt \in Nat /\ entered \in Nat /\ held \in BOOLEAN
  /\ group_pc \in [Workers -> {"idle", "enter", "clear", "notify_retain", "notify_link",
                               "notify_flag"} \cup Waits \cup Wakes]
  /\ local \in [Workers -> Locals]
  /\ emptied \in [Workers -> BOOLEAN]
  /\ block \in [Blocks -> {"new", "queued", "due", "submitted", "early"}]
  /\ group_crash \in BOOLEAN

\* dispatch_group_create.
GroupInit ==
  /\ dg_state = NoState
  /\ dg_notify = <<>> /\ linked = {}
  /\ do_ref_cnt = 1 /\ held = TRUE /\ entered = 0
  /\ group_pc = [t \in Workers |-> "idle"]
  /\ local = [t \in Workers |-> NoLocal]
  /\ emptied = [t \in Workers |-> FALSE]
  /\ block = [b \in Blocks |-> "new"]
  /\ group_crash = FALSE

GroupGoto(t, label) == group_pc' = [group_pc EXCEPT ![t] = label]

GroupReturn(t) == GroupGoto(t, "idle") /\ local' = [local EXCEPT ![t] = NoLocal]

-----------------------------------------------------------------------------
\* dispatch_group_enter: the decrement of the 32 low bits, and the retain
\* when the group was empty.  The caller has a reference, or relies on the one
\* of an earlier enter that has not been left yet.
dispatch_group_enter(t) ==
  /\ held \/ entered > 0
  /\ group_pc[t] = "idle" /\ dg_state.count < MaxEntered
  /\ dg_state.count = 0 => dg_state.gen < MaxGen
  /\ dg_state' = [dg_state EXCEPT !.count = @ + 1]
  /\ IF dg_state.count = 0 THEN GroupGoto(t, "enter") /\ UNCHANGED entered
     ELSE entered' = entered + 1 /\ UNCHANGED group_pc
  /\ UNCHANGED <<dg_notify, linked, do_ref_cnt, held, local, emptied, block, group_crash>>

enter_retain(t) ==
  /\ group_pc[t] = "enter"
  /\ do_ref_cnt' = do_ref_cnt + 1
  /\ entered' = entered + 1
  /\ GroupGoto(t, "idle")
  /\ UNCHANGED <<dg_state, dg_notify, linked, held, local, emptied, block, group_crash>>

\* Mutant: every leave carries into the generation.
leave_always_carries(t) ==
  LET new == [dg_state EXCEPT !.count = @ - 1, !.gen = @ + 1]
  IN /\ group_pc[t] = "idle" /\ entered > 0 /\ dg_state.gen < MaxGen
     /\ entered' = entered - 1
     /\ dg_state' = new
     /\ IF dg_state.count = 1
        THEN /\ GroupGoto(t, "clear")
             /\ local' = [local EXCEPT ![t].state = new]
             /\ emptied' = [u \in Workers |-> group_pc[u] \in Waits]
             /\ block' = [b \in Blocks |-> IF block[b] = "queued" THEN "due" ELSE block[b]]
        ELSE UNCHANGED <<group_pc, local, emptied, block>>
     /\ UNCHANGED <<dg_notify, linked, do_ref_cnt, held, group_crash>>

\* dispatch_group_leave up to the atomic addition, whose carry counts the
\* generation when the group becomes empty.
dispatch_group_leave(t) ==
  LET new == [dg_state EXCEPT !.count = @ - 1,
                              !.gen = IF dg_state.count = 1 THEN @ + 1 ELSE @]
  IN /\ group_pc[t] = "idle" /\ entered > 0
     /\ entered' = entered - 1
     /\ dg_state' = new
     /\ IF dg_state.count = 1
        THEN /\ GroupGoto(t, "clear")
             /\ local' = [local EXCEPT ![t].state = new]
             /\ emptied' = [u \in Workers |-> group_pc[u] \in Waits]
             /\ block' = [b \in Blocks |-> IF block[b] = "queued" THEN "due" ELSE block[b]]
        ELSE UNCHANGED <<group_pc, local, emptied, block>>
     /\ UNCHANGED <<dg_notify, linked, do_ref_cnt, held, group_crash>>

\* The first thing that _dispatch_group_wake has to do for state s.
FirstWake(s) == IF s.notifs THEN "capture" ELSE IF s.waiters THEN "wake" ELSE "release"

\* One turn of the loop of dispatch_group_leave that clears the bits, of the
\* state it has read last.
leave_clear(t) ==
  LET old == local[t].state
      new == [old EXCEPT !.notifs = FALSE, !.waiters = @ /\ old.count # 0]
  IN /\ group_pc[t] = "clear"
     /\ IF old = new \/ dg_state = old
        THEN /\ dg_state' = IF old = new THEN dg_state ELSE new
             /\ local' = [local EXCEPT ![t].refs = 1]
             /\ GroupGoto(t, FirstWake(old))
        ELSE /\ local' = [local EXCEPT ![t].state = dg_state]
             /\ UNCHANGED <<dg_state, group_pc>>
     /\ UNCHANGED <<dg_notify, linked, do_ref_cnt, held, entered, emptied, block, group_crash>>

-----------------------------------------------------------------------------
\* _dispatch_group_wake.  The snapshot waits for the head of the list to be
\* linked, and each block for its predecessor's link.
wake_capture(t) ==
  /\ group_pc[t] = "capture"
  /\ dg_notify # <<>> /\ Head(dg_notify) \in linked
  /\ local' = [local EXCEPT ![t].snapshot = dg_notify, ![t].refs = @ + 1]
  /\ dg_notify' = <<>>
  /\ GroupGoto(t, "submit")
  /\ UNCHANGED <<dg_state, linked, do_ref_cnt, held, entered, emptied, block, group_crash>>

wake_submit(t) ==
  LET b == Head(local[t].snapshot) IN
  /\ group_pc[t] = "submit"
  /\ b \in linked
  /\ linked' = linked \ {b}
  /\ block' = [block EXCEPT ![b] = IF @ = "due" THEN "submitted" ELSE "early"]
  /\ local' = [local EXCEPT ![t].snapshot = Tail(@)]
  /\ GroupGoto(t, IF Len(local[t].snapshot) > 1 THEN "submit"
                  ELSE FirstWake([local[t].state EXCEPT !.notifs = FALSE]))
  /\ UNCHANGED <<dg_state, dg_notify, do_ref_cnt, held, entered, emptied, group_crash>>

wake_by_address(t) ==
  /\ group_pc[t] = "wake"
  /\ group_pc' = [u \in Workers |-> IF u = t THEN "release"
                                    ELSE IF group_pc[u] = "asleep" THEN "awake"
                                    ELSE group_pc[u]]
  /\ UNCHANGED <<dg_state, dg_notify, linked, do_ref_cnt, held, entered, local, emptied,
                 block, group_crash>>

\* A reference count that drops to zero calls _dispatch_group_dispose.
Release(n) ==
  /\ do_ref_cnt' = do_ref_cnt - n
  /\ group_crash' = (group_crash \/ (do_ref_cnt = n /\ dg_state # [NoState EXCEPT !.gen = dg_state.gen]))

\* Mutant: the reference of the notification blocks is released for each leave.
release_both(t) ==
  /\ group_pc[t] = "release"
  /\ Release(IF do_ref_cnt > 1 THEN 2 ELSE 1)
  /\ GroupReturn(t)
  /\ UNCHANGED <<dg_state, dg_notify, linked, held, entered, emptied, block>>

wake_release(t) ==
  /\ group_pc[t] = "release"
  /\ Release(local[t].refs)
  /\ GroupReturn(t)
  /\ UNCHANGED <<dg_state, dg_notify, linked, held, entered, emptied, block>>

-----------------------------------------------------------------------------
\* dispatch_group_wait of a group that is not empty, with time to wait.
dispatch_group_wait(t) ==
  /\ held /\ group_pc[t] = "idle" /\ dg_state.count # 0
  /\ dg_state' = [dg_state EXCEPT !.waiters = TRUE]
  /\ local' = [local EXCEPT ![t].state = dg_state']
  /\ emptied' = [emptied EXCEPT ![t] = FALSE]
  /\ GroupGoto(t, "wait")
  /\ UNCHANGED <<dg_notify, linked, do_ref_cnt, held, entered, block, group_crash>>

\* _dispatch_wait_on_address in _dispatch_group_wait_slow: sleeps if the
\* generation is the expected one.
wait_on_address(t) ==
  /\ group_pc[t] = "wait"
  /\ GroupGoto(t, IF dg_state.gen = local[t].state.gen THEN "asleep" ELSE "awake")
  /\ UNCHANGED <<dg_state, dg_notify, linked, do_ref_cnt, held, entered, local, emptied,
                 block, group_crash>>

\* The sleep ends by a signal, or by its timeout if it has one.
wait_ends(t) ==
  /\ group_pc[t] = "asleep"
  /\ \E label \in {"awake", "timed_out"} : GroupGoto(t, label)
  /\ UNCHANGED <<dg_state, dg_notify, linked, do_ref_cnt, held, entered, local, emptied,
                 block, group_crash>>

\* The rest of the loop of _dispatch_group_wait_slow.
wait_check(t) ==
  /\ group_pc[t] \in {"awake", "timed_out"}
  /\ IF dg_state.gen # local[t].state.gen \/ group_pc[t] = "timed_out"
     THEN GroupReturn(t) /\ emptied' = [emptied EXCEPT ![t] = FALSE]
     ELSE GroupGoto(t, "wait") /\ UNCHANGED <<local, emptied>>
  /\ UNCHANGED <<dg_state, dg_notify, linked, do_ref_cnt, held, entered, block, group_crash>>

-----------------------------------------------------------------------------
\* _dispatch_group_notify: the exchange of the tail, the retain if the list
\* was empty, the link, and the bit if the list was empty.
dispatch_group_notify(t, b) ==
  /\ held /\ group_pc[t] = "idle" /\ block[b] = "new"
  /\ block' = [block EXCEPT ![b] = IF dg_state.count = 0 THEN "due" ELSE "queued"]
  /\ dg_notify' = Append(dg_notify, b)
  /\ local' = [local EXCEPT ![t].block = b, ![t].empty = (dg_notify = <<>>)]
  /\ GroupGoto(t, IF dg_notify = <<>> THEN "notify_retain" ELSE "notify_link")
  /\ UNCHANGED <<dg_state, linked, do_ref_cnt, held, entered, emptied, group_crash>>

notify_retain(t) ==
  /\ group_pc[t] = "notify_retain"
  /\ do_ref_cnt' = do_ref_cnt + 1
  /\ GroupGoto(t, "notify_link")
  /\ UNCHANGED <<dg_state, dg_notify, linked, held, entered, local, emptied, block, group_crash>>

notify_link(t) ==
  /\ group_pc[t] = "notify_link"
  /\ linked' = linked \cup {local[t].block}
  /\ IF local[t].empty THEN GroupGoto(t, "notify_flag") /\ UNCHANGED local ELSE GroupReturn(t)
  /\ UNCHANGED <<dg_state, dg_notify, do_ref_cnt, held, entered, emptied, block, group_crash>>

\* Mutant: a group that is empty is taken to have no leave under way.
flag_if_entered(t) ==
  /\ group_pc[t] = "notify_flag"
  /\ IF dg_state.count # 0
     THEN dg_state' = [dg_state EXCEPT !.notifs = TRUE] /\ GroupReturn(t)
     ELSE UNCHANGED dg_state /\ GroupReturn(t)
  /\ UNCHANGED <<dg_notify, linked, do_ref_cnt, held, entered, emptied, block, group_crash>>

\* The bit, or a wake right away if no count and no bit is set.
notify_flag(t) ==
  LET new == [dg_state EXCEPT !.notifs = TRUE] IN
  /\ group_pc[t] = "notify_flag"
  /\ IF dg_state = [NoState EXCEPT !.gen = dg_state.gen]
     THEN /\ GroupGoto(t, "capture")
          /\ local' = [local EXCEPT ![t].state = new]
          /\ UNCHANGED dg_state
     ELSE dg_state' = new /\ GroupReturn(t)
  /\ UNCHANGED <<dg_notify, linked, do_ref_cnt, held, entered, emptied, block, group_crash>>

\* The clients release the group when no thread is in a call that needs
\* their reference: leave has the one of its enter.
dispatch_release ==
  /\ held
  /\ \A t \in Workers : \/ group_pc[t] \in {"idle", "clear"}
                        \/ group_pc[t] \in Wakes /\ local[t].block = NoBlock
  /\ held' = FALSE
  /\ Release(1)
  /\ UNCHANGED <<dg_state, dg_notify, linked, entered, group_pc, local, emptied, block>>

GroupStep(t) ==
  \/ enter_retain(t) \/ leave_clear(t)
  \/ wake_capture(t) \/ wake_submit(t) \/ wake_by_address(t) \/ wake_release(t)
  \/ wait_on_address(t) \/ wait_check(t)
  \/ notify_retain(t) \/ notify_link(t) \/ notify_flag(t)

GroupClient(t) ==
  \/ dispatch_group_enter(t) \/ dispatch_group_leave(t) \/ dispatch_group_wait(t)
  \/ \E b \in Blocks : dispatch_group_notify(t, b)

GroupNext ==
  \/ dispatch_release
  \/ \E t \in Workers : GroupClient(t) \/ GroupStep(t) \/ wait_ends(t)

GroupSpec == GroupInit /\ [][GroupNext]_groupVars

\* The threads are scheduled.  No timeout and no signal has to come, and no
\* client has to call anything.
GroupFairness == \A t \in Workers : WF_groupVars(GroupStep(t))
-----------------------------------------------------------------------------
\* A thread is in code that touches the group.
InGroup(t) == group_pc[t] # "idle"

\* The group is alive while a thread is in one of its functions, while it is
\* entered, and while blocks wait for it, although leave may be the last to
\* know it and notify may run the wake of others; and when it goes, its word
\* says that it is empty.
GroupOutlivesUse ==
  /\ ~group_crash
  /\ do_ref_cnt = 0 => /\ \A t \in Workers : ~InGroup(t)
                       /\ entered = 0 /\ dg_notify = <<>>

\* A wait returns 0 only if the group has been empty since the call.
WaitSawEmpty ==
  \A t \in Workers :
    group_pc[t] \in Waits /\ dg_state.gen # local[t].state.gen => emptied[t]

\* When the clients stop calling, a wait that the group has been empty for
\* returns, although others entered the group again at once and the waiters'
\* bit belongs to two generations; and no block is left on the list of an
\* empty group, whichever of the callers of notify and leave came first to
\* the bit and to the list.
GroupSettles ==
  <>[][\A t \in Workers : ~GroupClient(t)]_groupVars
  => <>[](/\ \A t \in Workers : ~(group_pc[t] \in Waits /\ emptied[t])
          /\ dg_state.count = 0 => \A b \in Blocks : block[b] \in {"new", "submitted", "early"})

\* The header's promise for dispatch_group_notify: the block is submitted
\* "when all the blocks associated with a group have completed", that is
\* when the group has been empty since the call.  It is not so: a leave that
\* is slow to clear the bits clears one that was set for a later generation.
NotifyNotEarly == \A b \in Blocks : block[b] # "early"
=============================================================================
