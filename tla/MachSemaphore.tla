--------------------------- MODULE MachSemaphore ---------------------------
(***************************************************************************)
(* Mach semaphores (osfmk/kern/sync_sema.c, with the port conversions of   *)
(* osfmk/kern/ipc_sync.c): creation, wait, timed wait, wait-and-signal,    *)
(* the three signals, destruction, the death of the owning task, and the   *)
(* reference counts that keep a semaphore allocated.                       *)
(*                                                                         *)
(* An action is one critical section of the semaphore's lock, or one       *)
(* change of a reference count.  trap[t] is the call thread t has made and *)
(* how far the kernel is with it; at = "user" when t is not in a call.     *)
(***************************************************************************)
EXTENDS Integers, FiniteSets

CONSTANTS Threads,
          Semas,        \* the elements of semaphore_zone
          NoSema,       \* SEMAPHORE_NULL
          MaxCount      \* bound on the counts of clients
ASSUME SemasAssumption ==
  /\ IsFiniteSet(Threads) /\ NoSema \notin Semas /\ MaxCount \in Nat
  /\ {"none", "one", "any", "all", "forever", "deadline", "noblock"} \cap Threads = {}

VARIABLES
  zone,          \* the allocated semaphores
  ref_count,     \* of each semaphore
  active,        \* active, and so on the owner's semaphore_list
  count,         \* -1 when threads may be waiting
  waitq,         \* the threads on the semaphore's wait queue
  srights,       \* whether the clients' task holds a send right
  task,          \* the owning task: "active", "destroying" with its lock
                 \* held in semaphore_destroy_all, or "terminated"
  wait_result,   \* of each thread, as its last wait left it
  trap           \* the call of each thread

zoneVars == <<zone, ref_count, active, count, waitq, srights, task>>
machVars == <<zoneVars, wait_result, trap>>

SemaWaitResults == {"THREAD_WAITING", "THREAD_AWAKENED", "THREAD_TIMED_OUT",
                "THREAD_INTERRUPTED", "THREAD_RESTART"}

KernReturns == {"KERN_SUCCESS", "KERN_OPERATION_TIMED_OUT", "KERN_ABORTED",
                "KERN_TERMINATED", "KERN_NOT_WAITING", "KERN_ALREADY_WAITING",
                "KERN_INVALID_NAME", "KERN_INVALID_ARGUMENT", "KERN_INVALID_TASK"}

Timeouts == {"forever", "deadline", "noblock"}

Idle == [at |-> "user", wait |-> NoSema, signal |-> NoSema, opt |-> "none",
         freeing |-> NoSema, kr |-> "KERN_SUCCESS"]

\* freeing is the semaphore whose last reference the thread has dropped.
Traps == [at : {"user", "signal_name", "wait_name", "wait_internal",
                "signal_internal", "clear_wait", "blocked", "destroy",
                "deref_wait", "deref_signal", "notify"},
          wait : Semas \cup {NoSema}, signal : Semas \cup {NoSema},
          opt : Timeouts \cup {"none", "one", "any", "all"} \cup Threads,
          freeing : Semas \cup {NoSema}, kr : KernReturns]

MachTypeOK ==
  /\ zone \in SUBSET Semas
  /\ ref_count \in [Semas -> Nat]
  /\ active \in [Semas -> BOOLEAN]
  /\ count \in [Semas -> Int]
  /\ waitq \in [Semas -> SUBSET Threads]
  /\ srights \in [Semas -> BOOLEAN]
  /\ task \in {"active", "destroying", "terminated"}
  /\ wait_result \in [Threads -> SemaWaitResults]
  /\ trap \in [Threads -> Traps]

MachInit ==
  /\ zone = {}
  /\ ref_count = [s \in Semas |-> 0]
  /\ active = [s \in Semas |-> FALSE]
  /\ count = [s \in Semas |-> 0]
  /\ waitq = [s \in Semas |-> {}]
  /\ srights = [s \in Semas |-> FALSE]
  /\ task = "active"
  /\ wait_result = [t \in Threads |-> "THREAD_AWAKENED"]
  /\ trap = [t \in Threads |-> Idle]

InTrap(t, label) == trap[t].at = label /\ trap[t].freeing = NoSema

\* The thread's call goes on at label, with kr as its result so far; at
\* "user" it has returned kr.
GoesOn(t, label, kr) ==
  trap' = [trap EXCEPT ![t] = IF label = "user" THEN Idle
                              ELSE [trap[t] EXCEPT !.at = label, !.kr = kr,
                                                   !.freeing = NoSema]]

-----------------------------------------------------------------------------
\* semaphore_create, and the send right made by convert_semaphore_to_port,
\* to which the first reference is donated.
semaphore_create(t, s, value) ==
  /\ InTrap(t, "user") /\ task # "destroying"
  /\ \/ /\ task = "active" /\ s \notin zone
        /\ zone' = zone \cup {s}
        /\ ref_count' = [ref_count EXCEPT ![s] = 1]
        /\ active' = [active EXCEPT ![s] = TRUE]
        /\ count' = [count EXCEPT ![s] = value]
        /\ srights' = [srights EXCEPT ![s] = TRUE]
        /\ GoesOn(t, "user", "KERN_SUCCESS")
        /\ UNCHANGED <<waitq, task, wait_result>>
     \/ /\ task = "terminated"
        /\ GoesOn(t, "user", "KERN_INVALID_TASK")
        /\ UNCHANGED <<zoneVars, wait_result>>

\* The traps, as the thread enters the kernel: semaphore_wait_trap,
\* semaphore_timedwait_trap (a timeout of zero is "noblock"), and their
\* _signal_ variants when s is a semaphore.
semaphore_wait_trap(t, w, s, timeout) ==
  /\ InTrap(t, "user")
  /\ trap' = [trap EXCEPT ![t] =
                [Idle EXCEPT !.at = IF s = NoSema THEN "wait_name" ELSE "signal_name",
                             !.wait = w, !.signal = s, !.opt = timeout]]
  /\ UNCHANGED <<zoneVars, wait_result>>

\* semaphore_signal_trap ("one"), semaphore_signal_all_trap ("all") and
\* semaphore_signal_thread_trap (a thread, or "any" for none).
semaphore_signal_trap(t, s, whom) ==
  /\ InTrap(t, "user")
  /\ trap' = [trap EXCEPT ![t] = [Idle EXCEPT !.at = "signal_name",
                                              !.signal = s, !.opt = whom]]
  /\ UNCHANGED <<zoneVars, wait_result>>

\* The message of semaphore_destroy moves the send right to the kernel, and
\* is converted to a reference.
semaphore_destroy_msg(t, s) ==
  /\ InTrap(t, "user") /\ srights[s]
  /\ srights' = [srights EXCEPT ![s] = FALSE]
  /\ ref_count' = [ref_count EXCEPT ![s] = @ + 1]
  /\ trap' = [trap EXCEPT ![t] = [Idle EXCEPT !.at = "destroy", !.wait = s]]
  /\ UNCHANGED <<zone, active, count, waitq, task, wait_result>>

\* The task drops its last send right, which calls semaphore_notify.
mach_port_deallocate(t, s) ==
  /\ InTrap(t, "user") /\ srights[s]
  /\ srights' = [srights EXCEPT ![s] = FALSE]
  /\ trap' = [trap EXCEPT ![t] = [Idle EXCEPT !.at = "notify", !.wait = s]]
  /\ UNCHANGED <<zone, ref_count, active, count, waitq, task, wait_result>>

\* port_name_to_semaphore, for the signal semaphore first: a reference, or
\* an error if the name is gone.
port_name_to_semaphore(t) ==
  LET first == trap[t].at = "signal_name"
      s == IF first THEN trap[t].signal ELSE trap[t].wait
      two == trap[t].wait # NoSema /\ trap[t].signal # NoSema
  IN /\ InTrap(t, "signal_name") \/ InTrap(t, "wait_name")
     /\ \/ /\ srights[s]
           /\ ref_count' = [ref_count EXCEPT ![s] = @ + 1]
           /\ GoesOn(t, IF ~first THEN "wait_internal"
                        ELSE IF two THEN "wait_name" ELSE "signal_internal",
                     "KERN_SUCCESS")
        \/ /\ ~srights[s]
           /\ GoesOn(t, IF ~first /\ two THEN "deref_signal" ELSE "user",
                     "KERN_INVALID_NAME")
           /\ UNCHANGED ref_count
     /\ UNCHANGED <<zone, active, count, waitq, srights, task, wait_result>>

-----------------------------------------------------------------------------
\* waitq_wakeup64_*: the threads of W leave the queue of s with result r.
Wakeup(s, W, r) ==
  /\ waitq' = [waitq EXCEPT ![s] = @ \ W]
  /\ wait_result' = [t \in Threads |-> IF t \in W THEN r ELSE wait_result[t]]

semaphore_convert_wait_result(wr) ==
  CASE wr = "THREAD_AWAKENED"    -> "KERN_SUCCESS"
    [] wr = "THREAD_TIMED_OUT"   -> "KERN_OPERATION_TIMED_OUT"
    [] wr = "THREAD_INTERRUPTED" -> "KERN_ABORTED"
    [] wr = "THREAD_RESTART"     -> "KERN_TERMINATED"

\* Mutant: the wait does not leave the mark that threads may be waiting.
wait_keeps_count(t) ==
  LET w == trap[t].wait
      after(kr) == IF trap[t].signal # NoSema THEN "signal_internal"
                   ELSE IF kr = "KERN_ALREADY_WAITING" THEN "blocked" ELSE "deref_wait"
      Done(kr) == GoesOn(t, after(kr), kr) /\ UNCHANGED <<waitq, wait_result>>
  IN /\ InTrap(t, "wait_internal")
     /\ \/ ~active[w] /\ Done("KERN_TERMINATED") /\ UNCHANGED count
        \/ /\ active[w] /\ count[w] > 0
           /\ count' = [count EXCEPT ![w] = @ - 1]
           /\ Done("KERN_SUCCESS")
        \/ /\ active[w] /\ count[w] <= 0 /\ trap[t].opt = "noblock"
           /\ Done("KERN_OPERATION_TIMED_OUT") /\ UNCHANGED count
        \/ /\ active[w] /\ count[w] <= 0 /\ trap[t].opt # "noblock"
           /\ waitq' = [waitq EXCEPT ![w] = @ \cup {t}]
           /\ wait_result' = [wait_result EXCEPT ![t] = "THREAD_WAITING"]
           /\ GoesOn(t, after("KERN_ALREADY_WAITING"), "KERN_ALREADY_WAITING")
           /\ UNCHANGED count
     /\ UNCHANGED <<zone, ref_count, active, srights, task>>

\* semaphore_wait_internal up to the unlock of the wait semaphore.
semaphore_wait_internal(t) ==
  LET w == trap[t].wait
      after(kr) == IF trap[t].signal # NoSema THEN "signal_internal"
                   ELSE IF kr = "KERN_ALREADY_WAITING" THEN "blocked" ELSE "deref_wait"
      Done(kr) == GoesOn(t, after(kr), kr) /\ UNCHANGED <<waitq, wait_result>>
  IN /\ InTrap(t, "wait_internal")
     /\ \/ ~active[w] /\ Done("KERN_TERMINATED") /\ UNCHANGED count
        \/ /\ active[w] /\ count[w] > 0
           /\ count' = [count EXCEPT ![w] = @ - 1]
           /\ Done("KERN_SUCCESS")
        \/ /\ active[w] /\ count[w] <= 0 /\ trap[t].opt = "noblock"
           /\ Done("KERN_OPERATION_TIMED_OUT") /\ UNCHANGED count
        \/ /\ active[w] /\ count[w] <= 0 /\ trap[t].opt # "noblock"
           /\ count' = [count EXCEPT ![w] = -1]
           /\ waitq' = [waitq EXCEPT ![w] = @ \cup {t}]
           /\ wait_result' = [wait_result EXCEPT ![t] = "THREAD_WAITING"]
           /\ GoesOn(t, after("KERN_ALREADY_WAITING"), "KERN_ALREADY_WAITING")
     /\ UNCHANGED <<zone, ref_count, active, srights, task>>

\* What t does with the result kr of signalling: a wait-and-signal keeps the
\* result of its wait, and leaves the wait if the other semaphore has died;
\* semaphore_signal and semaphore_signal_all do not tell NOT_WAITING.
Signalled(t, kr) ==
  IF trap[t].wait # NoSema
  THEN GoesOn(t, IF kr = "KERN_TERMINATED" THEN "clear_wait"
                 ELSE IF trap[t].kr = "KERN_ALREADY_WAITING" THEN "blocked" ELSE "deref_wait",
              trap[t].kr)
  ELSE GoesOn(t, "deref_signal",
              IF kr = "KERN_NOT_WAITING" /\ trap[t].opt \in {"one", "all"}
              THEN "KERN_SUCCESS" ELSE kr)

\* semaphore_signal_internal.  Which waiter a wakeup of one takes is the
\* wait queue's affair.
semaphore_signal_internal(t) ==
  LET s == trap[t].signal
      opt == IF trap[t].wait # NoSema THEN "one" ELSE trap[t].opt
      prepost == IF opt = "one" THEN 1 ELSE 0
      Wakes(W) == Wakeup(s, W, "THREAD_AWAKENED") /\ Signalled(t, "KERN_SUCCESS")
      Nobody(kr) == Signalled(t, kr) /\ UNCHANGED <<waitq, wait_result>>
  IN /\ InTrap(t, "signal_internal")
     /\ \/ ~active[s] /\ Nobody("KERN_TERMINATED") /\ UNCHANGED count
        \/ /\ active[s] /\ opt \in Threads
           /\ IF count[s] < 0 /\ opt \in waitq[s]
              THEN Wakes({opt}) ELSE Nobody("KERN_NOT_WAITING")
           /\ UNCHANGED count
        \/ /\ active[s] /\ opt = "all"
           /\ IF count[s] < 0
              THEN /\ count' = [count EXCEPT ![s] = 0]
                   /\ IF waitq[s] # {} THEN Wakes(waitq[s]) ELSE Nobody("KERN_NOT_WAITING")
              ELSE Nobody("KERN_SUCCESS") /\ UNCHANGED count
        \/ /\ active[s] /\ opt \in {"one", "any"} /\ count[s] < 0
           /\ \E x \in waitq[s] : Wakes({x})
           /\ UNCHANGED count
        \/ /\ active[s] /\ opt \in {"one", "any"} /\ (count[s] >= 0 \/ waitq[s] = {})
           /\ count' = [count EXCEPT ![s] = (IF @ < 0 THEN 0 ELSE @) + prepost]
           /\ Nobody("KERN_NOT_WAITING")
     /\ UNCHANGED <<zone, ref_count, active, srights, task>>

\* semaphore_wait_internal when the semaphore to signal has died: clear_wait
\* on the thread itself, and the conversion of thread->wait_result.
clear_wait(t) ==
  LET w == trap[t].wait
      wr == IF t \in waitq[w] THEN "THREAD_INTERRUPTED" ELSE wait_result[t]
      kr == semaphore_convert_wait_result(wr)
  IN /\ InTrap(t, "clear_wait")
     /\ waitq' = [waitq EXCEPT ![w] = @ \ {t}]
     /\ wait_result' = [wait_result EXCEPT ![t] = wr]
     /\ GoesOn(t, "deref_wait", IF kr = "KERN_ABORTED" THEN "KERN_TERMINATED" ELSE kr)
     /\ UNCHANGED <<zone, ref_count, active, count, srights, task>>

\* The deadline of a timed wait passes, or the thread is aborted.
thread_unblock(t, wr) ==
  LET w == trap[t].wait IN
  /\ w # NoSema /\ t \in waitq[w]
  /\ wr \in {"THREAD_TIMED_OUT", "THREAD_INTERRUPTED"}
  /\ wr = "THREAD_TIMED_OUT" => trap[t].opt = "deadline"
  /\ Wakeup(w, {t}, wr)
  /\ UNCHANGED <<zone, ref_count, active, count, srights, task, trap>>

\* A thread that is off the queue runs: semaphore_wait_continue.
semaphore_wait_continue(t) ==
  /\ InTrap(t, "blocked") /\ t \notin waitq[trap[t].wait]
  /\ GoesOn(t, "deref_wait", semaphore_convert_wait_result(wait_result[t]))
  /\ UNCHANGED <<zoneVars, wait_result>>

-----------------------------------------------------------------------------
\* semaphore_destroy_internal.
semaphore_destroy_internal(s) ==
  /\ active' = [active EXCEPT ![s] = FALSE]
  /\ count' = [count EXCEPT ![s] = 0]
  /\ Wakeup(s, IF count[s] < 0 THEN waitq[s] ELSE {}, "THREAD_RESTART")

\* semaphore_destroy, with the task's lock and the semaphore's.  The port of
\* the message is released last.
semaphore_destroy(t) ==
  LET s == trap[t].wait IN
  /\ InTrap(t, "destroy") /\ task # "destroying"
  /\ IF active[s]
     THEN semaphore_destroy_internal(s) /\ GoesOn(t, "deref_wait", "KERN_SUCCESS")
     ELSE /\ GoesOn(t, "deref_wait", "KERN_INVALID_ARGUMENT")
          /\ UNCHANGED <<active, count, waitq, wait_result>>
  /\ UNCHANGED <<zone, ref_count, srights, task>>

\* The owning task dies: its lock is held while semaphore_destroy_all takes
\* the semaphores of its list one by one.
semaphore_destroy_all ==
  /\ \/ /\ task = "active"
        /\ task' = "destroying"
        /\ UNCHANGED <<active, count, waitq, wait_result>>
     \/ /\ task = "destroying"
        /\ \E s \in Semas : active[s] /\ semaphore_destroy_internal(s)
        /\ UNCHANGED task
     \/ /\ task = "destroying" /\ \A s \in Semas : ~active[s]
        /\ task' = "terminated"
        /\ UNCHANGED <<active, count, waitq, wait_result>>
  /\ UNCHANGED <<zone, ref_count, srights, trap>>

\* Where a thread gives a reference back, the semaphore, and what follows.
Dereferences(t) == InTrap(t, "deref_wait") \/ InTrap(t, "deref_signal") \/ InTrap(t, "notify")

Dereferenced(t) == IF trap[t].at = "deref_signal" THEN trap[t].signal ELSE trap[t].wait

AfterDereference(t) ==
  CASE trap[t].at = "deref_wait" /\ trap[t].signal # NoSema -> "deref_signal"
    [] trap[t].at = "deref_wait" /\ trap[t].opt = "none"     -> "notify"
    [] OTHER                                                -> "user"

\* Mutant: the last reference frees the semaphore without destroying it.
dereference_frees(t) ==
  LET s == Dereferenced(t) IN
  /\ Dereferences(t)
  /\ ref_count' = [ref_count EXCEPT ![s] = @ - 1]
  /\ zone' = IF ref_count[s] = 1 THEN zone \ {s} ELSE zone
  /\ GoesOn(t, AfterDereference(t), trap[t].kr)
  /\ UNCHANGED <<active, count, waitq, srights, task, wait_result>>

\* semaphore_dereference up to os_ref_release.
semaphore_dereference(t) ==
  LET s == Dereferenced(t) IN
  /\ Dereferences(t)
  /\ ref_count' = [ref_count EXCEPT ![s] = @ - 1]
  /\ IF ref_count[s] = 1
     THEN trap' = [trap EXCEPT ![t].freeing = s]
     ELSE GoesOn(t, AfterDereference(t), trap[t].kr)
  /\ UNCHANGED <<zone, active, count, waitq, srights, task, wait_result>>

\* The rest of semaphore_dereference for the last reference: the locks in
\* inverse order, retried while the task's lock is held.
semaphore_free(t) ==
  LET s == trap[t].freeing IN
  /\ s # NoSema
  /\ IF active[s]
     THEN task # "destroying" /\ semaphore_destroy_internal(s)
     ELSE UNCHANGED <<active, count, waitq, wait_result>>
  /\ zone' = zone \ {s}
  /\ GoesOn(t, AfterDereference(t), trap[t].kr)
  /\ UNCHANGED <<ref_count, srights, task>>

\* The kernel goes on with the call of t.
Kernel(t) ==
  \/ port_name_to_semaphore(t) \/ semaphore_wait_internal(t)
  \/ semaphore_signal_internal(t) \/ clear_wait(t) \/ semaphore_wait_continue(t)
  \/ semaphore_destroy(t) \/ semaphore_dereference(t) \/ semaphore_free(t)

\* The calls of clients, on semaphores they have a name for or not.
MachClient(t) ==
  \/ \E s \in Semas :
       \/ \E value \in 0..MaxCount : semaphore_create(t, s, value)
       \/ semaphore_destroy_msg(t, s) \/ mach_port_deallocate(t, s)
       \/ /\ count[s] < MaxCount
          /\ \E whom \in {"one", "any", "all"} \cup Threads : semaphore_signal_trap(t, s, whom)
       \/ \E timeout \in Timeouts :
            \/ semaphore_wait_trap(t, s, NoSema, timeout)
            \/ \E w \in Semas : count[s] < MaxCount /\ semaphore_wait_trap(t, w, s, timeout)

MachNext ==
  \/ semaphore_destroy_all
  \/ \E t \in Threads : \/ MachClient(t) \/ Kernel(t)
                        \/ \E wr \in SemaWaitResults : thread_unblock(t, wr)

MachSpec == MachInit /\ [][MachNext]_machVars
-----------------------------------------------------------------------------
\* Whether t holds a reference on s: it has looked the name up and not given
\* the reference back; the one of a send right that died goes to "notify".
HeldAsWait(t, s) ==
  /\ trap[t].wait = s
  /\ \/ trap[t].at \in {"wait_internal", "signal_internal", "clear_wait", "blocked", "destroy"}
     \/ InTrap(t, "deref_wait")

HeldAsSignal(t, s) ==
  /\ trap[t].signal = s
  /\ \/ trap[t].at \in {"wait_name", "wait_internal", "signal_internal", "clear_wait",
                        "blocked", "deref_wait"}
     \/ InTrap(t, "deref_signal")

HeldForPort(t, s) ==
  /\ trap[t].wait = s /\ trap[t].opt = "none"
  /\ trap[t].at \in {"destroy", "deref_wait"} \/ InTrap(t, "notify")

References(s) ==
  Cardinality({t \in Threads : HeldAsWait(t, s)})
    + Cardinality({t \in Threads : HeldAsSignal(t, s)})
    + Cardinality({t \in Threads : HeldForPort(t, s)})
    + (IF srights[s] THEN 1 ELSE 0)

\* The reference count of a semaphore is the number of calls and rights that
\* hold it, and whatever can still be reached is allocated: by a reference,
\* by the semaphore_list that semaphore_destroy_all walks without one, or by
\* the thread that dropped the last reference and waits for the task's lock.
ReferencesExact ==
  /\ \A s \in Semas :
       /\ ref_count[s] = References(s)
       /\ ref_count[s] > 0 \/ active[s] => s \in zone
  /\ \A t \in Threads : trap[t].freeing # NoSema => trap[t].freeing \in zone

Semaphores ==
  INSTANCE SemaphoreService WITH
    Callers <- Threads,
    live <- {s \in Semas : active[s]},
    units <- [s \in Semas |-> IF count[s] > 0 THEN count[s] ELSE 0],
    sleepers <- waitq

\* The count that "is not an actual count" implements the service: a signal
\* never leaves a unit, nor a destruction a thread, behind on a semaphore
\* that threads sleep on, and counts once at most, whoever has timed out or
\* been aborted since the count became -1.  The service shows units and
\* sleepers, not the calls: a signal that does nothing is a step that it does
\* not see.
ImplementsSemaphores == Semaphores!ServiceSpec

=============================================================================
