------------------------ MODULE MachSemaphoreProofs ------------------------
(***************************************************************************)
(* Proofs about MachSemaphore: the reference counts are exact for any      *)
(* number of threads and semaphores, no wait result is converted that the  *)
(* kernel would panic on, and the semaphores with their counts of -1       *)
(* implement SemaphoreService.                                             *)
(***************************************************************************)
EXTENDS MachSemaphore, TLAPS

\* What the place that a call is at says of its arguments.
Names(t) ==
  /\ trap[t].at \in {"wait_name", "wait_internal", "clear_wait", "blocked", "destroy",
                     "deref_wait", "notify"} => trap[t].wait \in Semas
  /\ trap[t].at \in {"signal_name", "signal_internal", "deref_signal", "clear_wait"}
       => trap[t].signal \in Semas
  /\ trap[t].at \in {"destroy", "notify"} => trap[t].signal = NoSema /\ trap[t].opt = "none"
  /\ trap[t].at = "deref_wait" /\ trap[t].opt = "none" => trap[t].signal = NoSema
  /\ trap[t].at \in {"signal_name", "wait_name", "wait_internal", "signal_internal",
                     "clear_wait", "blocked"} => trap[t].opt # "none"

\* A thread that is freeing a semaphore has dropped the last reference to it.
Frees(t) ==
  trap[t].freeing # NoSema =>
    /\ trap[t].at \in {"deref_wait", "deref_signal", "notify"}
    /\ trap[t].freeing = Dereferenced(t)

TrapInv == \A t \in Threads : Names(t) /\ Frees(t)

\* A thread on a queue is in a wait on that semaphore, and one that was put
\* on a queue and not woken is on it.
QueueInv ==
  /\ \A s \in Semas : \A t \in waitq[s] :
       /\ trap[t].wait = s /\ trap[t].kr = "KERN_ALREADY_WAITING"
       /\ trap[t].at \in {"signal_internal", "clear_wait", "blocked"}
  /\ \A t \in Threads : wait_result[t] = "THREAD_WAITING" =>
       \E s \in Semas : trap[t].wait = s /\ t \in waitq[s]

\* The count of a semaphore that threads sleep on is negative, and that of an
\* inactive one is zero.
CountInv ==
  \A s \in Semas : /\ waitq[s] # {} => count[s] < 0
                   /\ ~active[s] => count[s] = 0

\* What is being freed has no references, and one thread that frees it.
FreeInv ==
  /\ \A t \in Threads : trap[t].freeing # NoSema => ref_count[trap[t].freeing] = 0
  /\ \A t, u \in Threads : trap[t].freeing # NoSema /\ trap[t].freeing = trap[u].freeing
                             => t = u

\* The inductive invariant.
MachInv == MachTypeOK /\ TrapInv /\ QueueInv /\ CountInv /\ FreeInv /\ ReferencesExact
-----------------------------------------------------------------------------
\* What a step does to the call of its thread: another call, or none; or the
\* same call, elsewhere.
Calls(t, label, w, s, opt) ==
  /\ trap'[t].at = label /\ trap'[t].wait = w /\ trap'[t].signal = s /\ trap'[t].opt = opt
  /\ trap'[t].freeing = NoSema /\ trap'[t].kr = "KERN_SUCCESS"
  /\ trap' \in [Threads -> Traps]
  /\ \A u \in Threads : u # t => trap'[u] = trap[u]

Returns(t) == Calls(t, "user", NoSema, NoSema, "none")

Moves(t, label, kr, s) ==
  /\ trap'[t].at = label /\ trap'[t].kr = kr /\ trap'[t].freeing = s
  /\ trap'[t].wait = trap[t].wait /\ trap'[t].signal = trap[t].signal
  /\ trap'[t].opt = trap[t].opt
  /\ trap' \in [Threads -> Traps]
  /\ \A u \in Threads : u # t => trap'[u] = trap[u]

Labels == {"user", "signal_name", "wait_name", "wait_internal", "signal_internal", "clear_wait",
           "blocked", "destroy", "deref_wait", "deref_signal", "notify"}

\* A call, by its fields.
Call(label, w, s, opt, f, kr) ==
  [at |-> label, wait |-> w, signal |-> s, opt |-> opt, freeing |-> f, kr |-> kr]

\* A call is one of Traps if its fields are what they may be.
LEMMA CallType ==
  ASSUME NEW label \in Labels, NEW w \in Semas \cup {NoSema}, NEW s \in Semas \cup {NoSema},
         NEW opt \in Timeouts \cup {"none", "one", "any", "all"} \cup Threads,
         NEW f \in Semas \cup {NoSema}, NEW kr \in KernReturns
  PROVE  Call(label, w, s, opt, f, kr) \in Traps
BY Zenon DEF Call, Traps, Labels

\* Every call is made of its fields.
LEMMA CallOf ==
  ASSUME NEW c \in Traps
  PROVE  /\ c = Call(c.at, c.wait, c.signal, c.opt, c.freeing, c.kr)
         /\ c.at \in Labels /\ c.wait \in Semas \cup {NoSema} /\ c.signal \in Semas \cup {NoSema}
         /\ c.opt \in Timeouts \cup {"none", "one", "any", "all"} \cup Threads
         /\ c.freeing \in Semas \cup {NoSema} /\ c.kr \in KernReturns
BY Zenon DEF Call, Traps, Labels

\* What GoesOn does, before the call returns.
LEMMA GoesOnMoves ==
  ASSUME MachTypeOK, NEW t \in Threads, NEW label \in Labels \ {"user"}, NEW kr \in KernReturns,
         GoesOn(t, label, kr)
  PROVE  Moves(t, label, kr, NoSema)
<1> DEFINE c == trap[t]
           d == Call(label, c.wait, c.signal, c.opt, NoSema, kr)
<1>1. c \in Traps
  BY Zenon DEF MachTypeOK
<1>2. d \in Traps
  BY <1>1, CallOf, CallType, Zenon
<1>3. [c EXCEPT !.at = label, !.kr = kr, !.freeing = NoSema] = d
  <2>1. c = Call(c.at, c.wait, c.signal, c.opt, c.freeing, c.kr)
    BY <1>1, CallOf, Zenon
  <2>2. [Call(c.at, c.wait, c.signal, c.opt, c.freeing, c.kr) EXCEPT !.at = label]
          = Call(label, c.wait, c.signal, c.opt, c.freeing, c.kr)
    BY DEF Call
  <2>3. [Call(label, c.wait, c.signal, c.opt, c.freeing, c.kr) EXCEPT !.kr = kr]
          = Call(label, c.wait, c.signal, c.opt, c.freeing, kr)
    BY DEF Call
  <2>4. [Call(label, c.wait, c.signal, c.opt, c.freeing, kr) EXCEPT !.freeing = NoSema] = d
    BY DEF Call
  <2>5. [c EXCEPT !.at = label, !.kr = kr, !.freeing = NoSema]
          = [[[c EXCEPT !.at = label] EXCEPT !.kr = kr] EXCEPT !.freeing = NoSema]
    BY Zenon
  <2> QED
    BY <2>1, <2>2, <2>3, <2>4, <2>5, Zenon
<1>4. trap' = [trap EXCEPT ![t] = d]
  BY <1>3, Zenon DEF GoesOn
<1>5. /\ trap'[t] = d /\ \A u \in Threads : u # t => trap'[u] = trap[u]
      /\ trap' \in [Threads -> Traps]
  BY <1>2, <1>4, Zenon DEF MachTypeOK
<1>6. /\ d.at = label /\ d.kr = kr /\ d.freeing = NoSema
      /\ d.wait = c.wait /\ d.signal = c.signal /\ d.opt = c.opt
  BY Zenon DEF Call
<1> QED
  BY <1>5, <1>6, Zenon DEF Moves

\* What GoesOn does when the call returns.
LEMMA GoesOnReturns ==
  ASSUME MachTypeOK, NEW t \in Threads, NEW kr, GoesOn(t, "user", kr)
  PROVE  Returns(t)
<1>1. Idle \in Traps
  BY Zenon DEF Idle, Traps, KernReturns
<1>2. /\ trap'[t] = Idle /\ \A u \in Threads : u # t => trap'[u] = trap[u]
      /\ trap' \in [Threads -> Traps]
  BY <1>1, Zenon DEF GoesOn, MachTypeOK
<1>3. /\ Idle.at = "user" /\ Idle.wait = NoSema /\ Idle.signal = NoSema
      /\ Idle.opt = "none" /\ Idle.freeing = NoSema /\ Idle.kr = "KERN_SUCCESS"
  BY Zenon DEF Idle
<1> QED
  BY <1>2, <1>3, Zenon DEF Returns, Calls

\* What the start of a call does.
LEMMA CallStarts ==
  ASSUME MachTypeOK, NEW t \in Threads, NEW label \in Labels,
         NEW w \in Semas \cup {NoSema}, NEW s \in Semas \cup {NoSema},
         NEW opt \in Timeouts \cup {"none", "one", "any", "all"} \cup Threads,
         trap' = [trap EXCEPT ![t] = Call(label, w, s, opt, NoSema, "KERN_SUCCESS")]
  PROVE  Calls(t, label, w, s, opt)
<1> DEFINE c == Call(label, w, s, opt, NoSema, "KERN_SUCCESS")
<1>1. c \in Traps
  BY CallType, Zenon DEF KernReturns
<1>2. /\ trap'[t] = c /\ \A u \in Threads : u # t => trap'[u] = trap[u]
      /\ trap' \in [Threads -> Traps]
  BY <1>1, Zenon DEF MachTypeOK
<1>3. /\ c.at = label /\ c.wait = w /\ c.signal = s /\ c.opt = opt
      /\ c.freeing = NoSema /\ c.kr = "KERN_SUCCESS"
  BY Zenon DEF Call
<1> QED
  BY <1>2, <1>3, Zenon DEF Calls
-----------------------------------------------------------------------------
\* What the steps do.  First those that neither touch a reference nor a count.
KeepsZone == zone' = zone /\ ref_count' = ref_count /\ srights' = srights
KeepsQueues == active' = active /\ count' = count /\ waitq' = waitq /\ wait_result' = wait_result

Signallers == {"one", "any", "all"} \cup Threads

Refused(t) == trap[t].at = "user" /\ Returns(t) /\ KeepsZone /\ KeepsQueues

WaitCalled(t, w, opt) ==
  /\ trap[t].at = "user" /\ opt \in Timeouts
  /\ Calls(t, "wait_name", w, NoSema, opt)
  /\ KeepsZone /\ KeepsQueues

SignalCalled(t, w, s, opt) ==
  /\ trap[t].at = "user" /\ opt \in Timeouts \cup Signallers
  /\ Calls(t, "signal_name", w, s, opt)
  /\ KeepsZone /\ KeepsQueues

NoName(t) ==
  /\ trap[t].at = "signal_name" \/ (trap[t].at = "wait_name" /\ trap[t].signal = NoSema)
  /\ Returns(t) /\ KeepsZone /\ KeepsQueues

NoSecond(t) ==
  /\ trap[t].at = "wait_name" /\ trap[t].signal # NoSema
  /\ Moves(t, "deref_signal", "KERN_INVALID_NAME", NoSema)
  /\ KeepsZone /\ KeepsQueues

Continues(t) ==
  /\ trap[t].at = "blocked" /\ t \notin waitq[trap[t].wait]
  /\ \E kr \in KernReturns : Moves(t, "deref_wait", kr, NoSema)
  /\ KeepsZone /\ KeepsQueues

\* The references.
Starts(s, n) == count' = [count EXCEPT ![s] = n]

Created(t, s) ==
  /\ trap[t].at = "user" /\ s \notin zone /\ Returns(t)
  /\ zone' = zone \cup {s}
  /\ ref_count' = [ref_count EXCEPT ![s] = 1] /\ srights' = [srights EXCEPT ![s] = TRUE]
  /\ active' = [active EXCEPT ![s] = TRUE] /\ \E n \in Nat : Starts(s, n)
  /\ waitq' = waitq /\ wait_result' = wait_result

DestroyCalled(t, s) ==
  /\ trap[t].at = "user" /\ srights[s] /\ Calls(t, "destroy", s, NoSema, "none")
  /\ zone' = zone /\ KeepsQueues
  /\ ref_count' = [ref_count EXCEPT ![s] = ref_count[s] + 1]
  /\ srights' = [srights EXCEPT ![s] = FALSE]

Deallocated(t, s) ==
  /\ trap[t].at = "user" /\ srights[s] /\ Calls(t, "notify", s, NoSema, "none")
  /\ zone' = zone /\ ref_count' = ref_count /\ KeepsQueues
  /\ srights' = [srights EXCEPT ![s] = FALSE]

Referenced(s) ==
  /\ srights[s] /\ ref_count' = [ref_count EXCEPT ![s] = ref_count[s] + 1]
  /\ zone' = zone /\ srights' = srights /\ KeepsQueues

FirstNamed(t) ==
  /\ trap[t].at = "signal_name" /\ Referenced(trap[t].signal)
  /\ \/ trap[t].wait # NoSema /\ Moves(t, "wait_name", "KERN_SUCCESS", NoSema)
     \/ trap[t].wait = NoSema /\ Moves(t, "signal_internal", "KERN_SUCCESS", NoSema)

SecondNamed(t) ==
  /\ trap[t].at = "wait_name" /\ Referenced(trap[t].wait)
  /\ Moves(t, "wait_internal", "KERN_SUCCESS", NoSema)

Dropped(t) ==
  /\ ref_count' = [ref_count EXCEPT ![Dereferenced(t)] = ref_count[Dereferenced(t)] - 1]
  /\ zone' = zone /\ srights' = srights /\ KeepsQueues

GivesUpLast(t) ==
  /\ Dereferences(t) /\ ref_count[Dereferenced(t)] = 1 /\ Dropped(t)
  /\ Moves(t, trap[t].at, trap[t].kr, Dereferenced(t))

Follows(t) ==
  \/ /\ trap[t].at = "deref_wait" /\ trap[t].signal # NoSema
     /\ Moves(t, "deref_signal", trap[t].kr, NoSema)
  \/ /\ trap[t].at = "deref_wait" /\ trap[t].signal = NoSema /\ trap[t].opt = "none"
     /\ Moves(t, "notify", trap[t].kr, NoSema)
  \/ /\ \/ trap[t].at \in {"deref_signal", "notify"}
        \/ trap[t].signal = NoSema /\ trap[t].opt # "none"
     /\ Returns(t)

GivesUp(t) == Dereferences(t) /\ ref_count[Dereferenced(t)] # 1 /\ Dropped(t) /\ Follows(t)

\* The semaphore is not active any more, and nobody is on its queue.
Emptied(s) ==
  /\ active[s] /\ active' = [active EXCEPT ![s] = FALSE] /\ count' = [count EXCEPT ![s] = 0]
  /\ waitq' = [waitq EXCEPT ![s] = {}]
  /\ wait_result' = [t \in Threads |-> IF t \in waitq[s] THEN "THREAD_RESTART"
                                       ELSE wait_result[t]]

Freed(t, s) ==
  /\ trap[t].freeing = s /\ Follows(t)
  /\ Emptied(s) \/ (~active[s] /\ KeepsQueues)
  /\ zone' = zone \ {s} /\ ref_count' = ref_count /\ srights' = srights

\* The queues.
Destroys(t) ==
  /\ trap[t].at = "destroy"
  /\ \E kr \in KernReturns : Moves(t, "deref_wait", kr, NoSema)
  /\ KeepsZone /\ (Emptied(trap[t].wait) \/ KeepsQueues)

TaskDies ==
  trap' = trap /\ KeepsZone /\ (KeepsQueues \/ \E s \in Semas : Emptied(s))

WaitEnds(t) ==
  /\ trap[t].at = "wait_internal"
  /\ \E kr \in KernReturns :
       \/ trap[t].signal # NoSema /\ Moves(t, "signal_internal", kr, NoSema)
       \/ trap[t].signal = NoSema /\ Moves(t, "deref_wait", kr, NoSema)
  /\ KeepsZone

Takes(s) ==
  /\ active[s] /\ count[s] > 0 /\ count' = [count EXCEPT ![s] = count[s] - 1]
  /\ active' = active /\ waitq' = waitq /\ wait_result' = wait_result

Sleeps(t, s) ==
  /\ active[s] /\ count[s] <= 0 /\ count' = [count EXCEPT ![s] = -1] /\ active' = active
  /\ waitq' = [waitq EXCEPT ![s] = waitq[s] \cup {t}]
  /\ wait_result' = [wait_result EXCEPT ![t] = "THREAD_WAITING"]

WaitSleeps(t) ==
  /\ trap[t].at = "wait_internal" /\ Sleeps(t, trap[t].wait) /\ KeepsZone
  /\ \/ trap[t].signal # NoSema /\ Moves(t, "signal_internal", "KERN_ALREADY_WAITING", NoSema)
     \/ trap[t].signal = NoSema /\ Moves(t, "blocked", "KERN_ALREADY_WAITING", NoSema)

SignalEnds(t) ==
  /\ trap[t].at = "signal_internal" /\ KeepsZone
  /\ \/ /\ trap[t].wait # NoSema
        /\ \E label \in {"clear_wait", "blocked", "deref_wait"} :
             /\ Moves(t, label, trap[t].kr, NoSema)
             /\ label = "deref_wait" => trap[t].kr # "KERN_ALREADY_WAITING"
     \/ /\ trap[t].wait = NoSema
        /\ \E kr \in KernReturns : Moves(t, "deref_signal", kr, NoSema)

\* A signal that wakes nobody, with a unit more or none.
Posts(s) ==
  /\ active[s] /\ waitq[s] = {}
  /\ \E n \in {0, 1} :
       count' = [count EXCEPT ![s] = (IF count[s] < 0 THEN 0 ELSE count[s]) + n]
  /\ active' = active /\ waitq' = waitq /\ wait_result' = wait_result

Wakens(s, W, r) ==
  /\ W # {} /\ W \subseteq waitq[s] /\ r # "THREAD_WAITING" /\ r \in SemaWaitResults
  /\ active' = active
  /\ waitq' = [waitq EXCEPT ![s] = waitq[s] \ W]
  /\ wait_result' = [t \in Threads |-> IF t \in W THEN r ELSE wait_result[t]]

WakesOne(s) == active[s] /\ count' = count /\ \E x \in Threads : Wakens(s, {x}, "THREAD_AWAKENED")

WakesAll(s) ==
  /\ active[s] /\ count[s] < 0 /\ count' = [count EXCEPT ![s] = 0]
  /\ Wakens(s, waitq[s], "THREAD_AWAKENED")

Unblocks(t, s) ==
  /\ count' = count /\ \E r \in SemaWaitResults : Wakens(s, {t}, r)

ClearsWait(t) ==
  /\ trap[t].at = "clear_wait" /\ KeepsZone
  /\ \E kr \in KernReturns : Moves(t, "deref_wait", kr, NoSema)
  /\ \/ t \in waitq[trap[t].wait] /\ Unblocks(t, trap[t].wait)
     \/ t \notin waitq[trap[t].wait] /\ KeepsQueues

CallEffect(t) ==
  \/ Refused(t) \/ NoName(t) \/ NoSecond(t) \/ Continues(t)
  \/ \E w \in Semas, opt \in Timeouts : WaitCalled(t, w, opt)
  \/ \E s \in Semas, w \in Semas \cup {NoSema}, opt \in Timeouts \cup Signallers :
       SignalCalled(t, w, s, opt)

RefEffect(t) ==
  \/ FirstNamed(t) \/ SecondNamed(t) \/ GivesUpLast(t) \/ GivesUp(t)
  \/ \E s \in Semas : Created(t, s) \/ DestroyCalled(t, s) \/ Deallocated(t, s) \/ Freed(t, s)

QueueEffect(t) ==
  \/ Destroys(t) \/ WaitSleeps(t) \/ ClearsWait(t)
  \/ WaitEnds(t) /\ (KeepsQueues \/ Takes(trap[t].wait))
  \/ /\ SignalEnds(t)
     /\ \/ KeepsQueues \/ Posts(trap[t].signal)
        \/ WakesOne(trap[t].signal) \/ WakesAll(trap[t].signal)
  \/ trap' = trap /\ KeepsZone /\ trap[t].wait \in Semas /\ Unblocks(t, trap[t].wait)

MachEffect == TaskDies \/ \E t \in Threads : CallEffect(t) \/ RefEffect(t) \/ QueueEffect(t)

\* The fields of a call that starts a wait, from those of an idle thread.
LEMMA IdleWaits ==
  ASSUME NEW label, NEW w, NEW s, NEW opt
  PROVE  [Idle EXCEPT !.at = label, !.wait = w, !.signal = s, !.opt = opt]
           = Call(label, w, s, opt, NoSema, "KERN_SUCCESS")
<1> DEFINE ok == "KERN_SUCCESS"
           c0 == Call("user", NoSema, NoSema, "none", NoSema, ok)
           c1 == Call(label, NoSema, NoSema, "none", NoSema, ok)
           c2 == Call(label, w, NoSema, "none", NoSema, ok)
           c3 == Call(label, w, s, "none", NoSema, ok)
<1>1. Idle = c0
  BY Zenon DEF Idle, Call
<1>2. [c0 EXCEPT !.at = label] = c1 /\ [c1 EXCEPT !.wait = w] = c2
  BY DEF Call
<1>3. [c2 EXCEPT !.signal = s] = c3 /\ [c3 EXCEPT !.opt = opt] = Call(label, w, s, opt, NoSema, ok)
  BY DEF Call
<1>4. [Idle EXCEPT !.at = label, !.wait = w, !.signal = s, !.opt = opt]
        = [[[[Idle EXCEPT !.at = label] EXCEPT !.wait = w] EXCEPT !.signal = s] EXCEPT !.opt = opt]
  BY Zenon
<1> HIDE DEF c0, c1, c2, c3
<1> QED
  BY <1>1, <1>2, <1>3, <1>4, Zenon

\* The same for a signal.
LEMMA IdleSignals ==
  ASSUME NEW label, NEW s, NEW opt
  PROVE  [Idle EXCEPT !.at = label, !.signal = s, !.opt = opt]
           = Call(label, NoSema, s, opt, NoSema, "KERN_SUCCESS")
<1> DEFINE ok == "KERN_SUCCESS"
           c0 == Call("user", NoSema, NoSema, "none", NoSema, ok)
           c1 == Call(label, NoSema, NoSema, "none", NoSema, ok)
           c2 == Call(label, NoSema, s, "none", NoSema, ok)
<1>1. Idle = c0
  BY Zenon DEF Idle, Call
<1>2. [c0 EXCEPT !.at = label] = c1 /\ [c1 EXCEPT !.signal = s] = c2
  BY DEF Call
<1>3. [c2 EXCEPT !.opt = opt] = Call(label, NoSema, s, opt, NoSema, ok)
  BY DEF Call
<1>4. [Idle EXCEPT !.at = label, !.signal = s, !.opt = opt]
        = [[[Idle EXCEPT !.at = label] EXCEPT !.signal = s] EXCEPT !.opt = opt]
  BY Zenon
<1> HIDE DEF c0, c1, c2
<1> QED
  BY <1>1, <1>2, <1>3, <1>4, Zenon

\* The same for a destruction and for the death of a send right.
LEMMA IdleNames ==
  ASSUME NEW label, NEW w
  PROVE  [Idle EXCEPT !.at = label, !.wait = w]
           = Call(label, w, NoSema, "none", NoSema, "KERN_SUCCESS")
<1> DEFINE ok == "KERN_SUCCESS"
           c0 == Call("user", NoSema, NoSema, "none", NoSema, ok)
           c1 == Call(label, NoSema, NoSema, "none", NoSema, ok)
<1>1. Idle = c0
  BY Zenon DEF Idle, Call
<1>2. [c0 EXCEPT !.at = label] = c1
  BY DEF Call
<1>3. [c1 EXCEPT !.wait = w] = Call(label, w, NoSema, "none", NoSema, ok)
  BY DEF Call
<1>4. [Idle EXCEPT !.at = label, !.wait = w] = [[Idle EXCEPT !.at = label] EXCEPT !.wait = w]
  BY Zenon
<1> HIDE DEF c0, c1
<1> QED
  BY <1>1, <1>2, <1>3, <1>4, Zenon

\* semaphore_create.
LEMMA CreateEffect ==
  ASSUME MachTypeOK, NEW t \in Threads, NEW s \in Semas, NEW value \in Nat,
         semaphore_create(t, s, value)
  PROVE  Created(t, s) \/ Refused(t)
<1>1. ASSUME NEW kr, GoesOn(t, "user", kr)
      PROVE  Returns(t)
  BY <1>1, GoesOnReturns, Zenon
<1> QED
  BY <1>1, Zenon
     DEF semaphore_create, InTrap, Created, Starts, Refused, KeepsZone, KeepsQueues, zoneVars

\* The traps and messages.
LEMMA CallStartEffect ==
  ASSUME MachTypeOK, NEW t \in Threads, MachClient(t)
  PROVE  CallEffect(t) \/ RefEffect(t)
<1>1. ASSUME NEW s \in Semas, NEW value \in 0..MaxCount, semaphore_create(t, s, value)
      PROVE  CallEffect(t) \/ RefEffect(t)
  <2>1. value \in Nat
    BY SemasAssumption
  <2> QED
    BY <1>1, <2>1, CreateEffect, Zenon DEF CallEffect, RefEffect
<1>2. ASSUME NEW s \in Semas, semaphore_destroy_msg(t, s)
      PROVE  CallEffect(t) \/ RefEffect(t)
  <2>1. trap' = [trap EXCEPT ![t] = Call("destroy", s, NoSema, "none", NoSema, "KERN_SUCCESS")]
    BY <1>2, IdleNames, Zenon DEF semaphore_destroy_msg
  <2>2. Calls(t, "destroy", s, NoSema, "none")
    BY <2>1, CallStarts, Zenon DEF Labels
  <2>3. DestroyCalled(t, s)
    BY <1>2, <2>2, Zenon DEF semaphore_destroy_msg, InTrap, DestroyCalled, KeepsQueues
  <2> QED
    BY <2>3, Zenon DEF RefEffect
<1>3. ASSUME NEW s \in Semas, mach_port_deallocate(t, s)
      PROVE  CallEffect(t) \/ RefEffect(t)
  <2>1. trap' = [trap EXCEPT ![t] = Call("notify", s, NoSema, "none", NoSema, "KERN_SUCCESS")]
    BY <1>3, IdleNames, Zenon DEF mach_port_deallocate
  <2>2. Calls(t, "notify", s, NoSema, "none")
    BY <2>1, CallStarts, Zenon DEF Labels
  <2>3. Deallocated(t, s)
    BY <1>3, <2>2, Zenon DEF mach_port_deallocate, InTrap, Deallocated, KeepsQueues
  <2> QED
    BY <2>3, Zenon DEF RefEffect
<1>4. ASSUME NEW s \in Semas, NEW whom \in Signallers, semaphore_signal_trap(t, s, whom)
      PROVE  CallEffect(t) \/ RefEffect(t)
  <2>1. trap' = [trap EXCEPT ![t] = Call("signal_name", NoSema, s, whom, NoSema, "KERN_SUCCESS")]
    BY <1>4, IdleSignals, Zenon DEF semaphore_signal_trap
  <2>2. whom \in Timeouts \cup {"none", "one", "any", "all"} \cup Threads
    BY Zenon DEF Signallers
  <2>3. Calls(t, "signal_name", NoSema, s, whom)
    BY <2>1, <2>2, CallStarts, Zenon DEF Labels
  <2>4. SignalCalled(t, NoSema, s, whom)
    BY <1>4, <2>3, Zenon
       DEF semaphore_signal_trap, InTrap, SignalCalled, KeepsZone, KeepsQueues, zoneVars
  <2> QED
    BY <2>4, Zenon DEF CallEffect
<1>5. ASSUME NEW w \in Semas, NEW opt \in Timeouts, semaphore_wait_trap(t, w, NoSema, opt)
      PROVE  CallEffect(t) \/ RefEffect(t)
  <2>1. trap' = [trap EXCEPT ![t] = Call("wait_name", w, NoSema, opt, NoSema, "KERN_SUCCESS")]
    <3>1. trap' = [trap EXCEPT ![t] =
                     [Idle EXCEPT !.at = "wait_name", !.wait = w, !.signal = NoSema, !.opt = opt]]
      BY <1>5, Zenon DEF semaphore_wait_trap
    <3>2. [Idle EXCEPT !.at = "wait_name", !.wait = w, !.signal = NoSema, !.opt = opt]
            = Call("wait_name", w, NoSema, opt, NoSema, "KERN_SUCCESS")
      BY IdleWaits, Zenon
    <3> QED
      BY <3>1, <3>2, Zenon
  <2>2. Calls(t, "wait_name", w, NoSema, opt)
    BY <2>1, CallStarts, Zenon DEF Labels
  <2>3. WaitCalled(t, w, opt)
    BY <1>5, <2>2, Zenon
       DEF semaphore_wait_trap, InTrap, WaitCalled, KeepsZone, KeepsQueues, zoneVars
  <2> QED
    BY <2>3, Zenon DEF CallEffect
<1>6. ASSUME NEW s \in Semas, NEW w \in Semas, NEW opt \in Timeouts,
             semaphore_wait_trap(t, w, s, opt)
      PROVE  CallEffect(t) \/ RefEffect(t)
  <2>1. s # NoSema /\ w # NoSema
    BY SemasAssumption, Zenon
  <2>2. trap' = [trap EXCEPT ![t] = Call("signal_name", w, s, opt, NoSema, "KERN_SUCCESS")]
    <3>1. trap' = [trap EXCEPT ![t] =
                     [Idle EXCEPT !.at = "signal_name", !.wait = w, !.signal = s, !.opt = opt]]
      BY <1>6, <2>1, Zenon DEF semaphore_wait_trap
    <3>2. [Idle EXCEPT !.at = "signal_name", !.wait = w, !.signal = s, !.opt = opt]
            = Call("signal_name", w, s, opt, NoSema, "KERN_SUCCESS")
      BY IdleWaits, Zenon
    <3> QED
      BY <3>1, <3>2, Zenon
  <2>3. Calls(t, "signal_name", w, s, opt)
    BY <2>2, CallStarts, Zenon DEF Labels
  <2>4. SignalCalled(t, w, s, opt)
    BY <1>6, <2>1, <2>3, Zenon
       DEF semaphore_wait_trap, InTrap, SignalCalled, KeepsZone, KeepsQueues, zoneVars
  <2> QED
    BY <2>4, Zenon DEF CallEffect
<1> QED
  BY <1>1, <1>2, <1>3, <1>4, <1>5, <1>6, Zenon DEF MachClient, Signallers

\* The arguments of a call, where its place says that they are semaphores.
LEMMA Arguments ==
  ASSUME MachTypeOK, TrapInv, NEW t \in Threads
  PROVE  /\ trap[t] \in Traps /\ Names(t) /\ Frees(t)
         /\ trap[t].wait \in Semas \cup {NoSema} /\ trap[t].signal \in Semas \cup {NoSema}
         /\ trap[t].kr \in KernReturns
         /\ \A kr \in KernReturns, label \in Labels \ {"user"} :
              GoesOn(t, label, kr) => Moves(t, label, kr, NoSema)
<1>1. trap[t] \in Traps
  BY Zenon DEF MachTypeOK
<1>2. /\ trap[t].wait \in Semas \cup {NoSema} /\ trap[t].signal \in Semas \cup {NoSema}
      /\ trap[t].kr \in KernReturns
  BY <1>1, CallOf, Zenon
<1> QED
  BY <1>1, <1>2, GoesOnMoves, Zenon DEF TrapInv

\* port_name_to_semaphore.
LEMMA NameEffect ==
  ASSUME MachTypeOK, TrapInv, NEW t \in Threads, port_name_to_semaphore(t)
  PROVE  CallEffect(t) \/ RefEffect(t)
<1> USE SemasAssumption
<1>1. /\ trap[t].wait \in Semas \cup {NoSema} /\ trap[t].signal \in Semas \cup {NoSema}
      /\ Names(t)
      /\ \A kr \in KernReturns, label \in Labels \ {"user"} :
           GoesOn(t, label, kr) => Moves(t, label, kr, NoSema)
  BY Arguments, Zenon
<1>2. /\ "KERN_SUCCESS" \in KernReturns /\ "KERN_INVALID_NAME" \in KernReturns
      /\ {"wait_name", "signal_internal", "wait_internal", "deref_signal"} \subseteq Labels \ {"user"}
  BY Zenon DEF KernReturns, Labels
<1>3. /\ zone' = zone /\ srights' = srights /\ KeepsQueues
  BY Zenon DEF port_name_to_semaphore, KeepsQueues
<1>4. CASE trap[t].at = "signal_name"
  <2>1. trap[t].signal \in Semas
    BY <1>1, <1>4, Zenon DEF Names
  <2>2. CASE srights[trap[t].signal]
    <3>1. /\ ref_count' = [ref_count EXCEPT ![trap[t].signal] = ref_count[trap[t].signal] + 1]
          /\ GoesOn(t, IF trap[t].wait # NoSema THEN "wait_name" ELSE "signal_internal",
                    "KERN_SUCCESS")
      BY <1>4, <2>1, <2>2, Zenon DEF port_name_to_semaphore
    <3>2. FirstNamed(t)
      BY <1>1, <1>2, <1>3, <1>4, <2>2, <3>1, Zenon DEF FirstNamed, Referenced
    <3> QED
      BY <3>2, Zenon DEF RefEffect
  <2>3. CASE ~srights[trap[t].signal]
    <3>1. ref_count' = ref_count /\ GoesOn(t, "user", "KERN_INVALID_NAME")
      BY <1>4, <2>3, Zenon DEF port_name_to_semaphore
    <3> QED
      BY <1>3, <1>4, <3>1, GoesOnReturns, Zenon DEF NoName, KeepsZone, CallEffect
  <2> QED
    BY <2>2, <2>3, Zenon
<1>5. CASE trap[t].at = "wait_name"
  <2>1. trap[t].wait \in Semas
    BY <1>1, <1>5, Zenon DEF Names
  <2>2. CASE srights[trap[t].wait]
    <3>1. /\ ref_count' = [ref_count EXCEPT ![trap[t].wait] = ref_count[trap[t].wait] + 1]
          /\ GoesOn(t, "wait_internal", "KERN_SUCCESS")
      BY <1>5, <2>2, Zenon DEF port_name_to_semaphore
    <3>2. SecondNamed(t)
      BY <1>1, <1>2, <1>3, <1>5, <2>2, <3>1, Zenon DEF SecondNamed, Referenced
    <3> QED
      BY <3>2, Zenon DEF RefEffect
  <2>3. CASE ~srights[trap[t].wait] /\ trap[t].signal = NoSema
    <3>1. ref_count' = ref_count /\ GoesOn(t, "user", "KERN_INVALID_NAME")
      BY <1>5, <2>3, Zenon DEF port_name_to_semaphore
    <3> QED
      BY <1>3, <1>5, <2>3, <3>1, GoesOnReturns, Zenon DEF NoName, KeepsZone, CallEffect
  <2>4. CASE ~srights[trap[t].wait] /\ trap[t].signal # NoSema
    <3>1. ref_count' = ref_count /\ GoesOn(t, "deref_signal", "KERN_INVALID_NAME")
      BY <1>5, <2>1, <2>4, Zenon DEF port_name_to_semaphore
    <3> QED
      BY <1>1, <1>2, <1>3, <1>5, <2>4, <3>1, Zenon DEF NoSecond, KeepsZone, CallEffect
  <2> QED
    BY <2>2, <2>3, <2>4, Zenon
<1> QED
  BY <1>4, <1>5, Zenon DEF port_name_to_semaphore, InTrap

\* semaphore_wait_internal.
LEMMA WaitEffect ==
  ASSUME MachTypeOK, TrapInv, NEW t \in Threads, semaphore_wait_internal(t)
  PROVE  QueueEffect(t)
<1> DEFINE w == trap[t].wait
<1>1. \A kr \in KernReturns, label \in Labels \ {"user"} :
        GoesOn(t, label, kr) => Moves(t, label, kr, NoSema)
  BY Arguments, Zenon
<1>2. /\ {"KERN_TERMINATED", "KERN_SUCCESS", "KERN_OPERATION_TIMED_OUT", "KERN_ALREADY_WAITING"}
           \subseteq KernReturns
      /\ {"signal_internal", "blocked", "deref_wait"} \subseteq Labels \ {"user"}
  BY Zenon DEF KernReturns, Labels
<1>3. trap[t].at = "wait_internal" /\ KeepsZone /\ active' = active
  BY Zenon DEF semaphore_wait_internal, InTrap, KeepsZone
<1>4. ASSUME NEW kr \in {"KERN_TERMINATED", "KERN_SUCCESS", "KERN_OPERATION_TIMED_OUT"},
             GoesOn(t, IF trap[t].signal # NoSema THEN "signal_internal"
                       ELSE IF kr = "KERN_ALREADY_WAITING" THEN "blocked" ELSE "deref_wait", kr)
      PROVE  WaitEnds(t)
  <2>1. GoesOn(t, IF trap[t].signal # NoSema THEN "signal_internal" ELSE "deref_wait", kr)
    BY <1>4, Zenon
  <2> QED
    BY <1>1, <1>2, <1>3, <2>1, Zenon DEF WaitEnds
<1>5. \/ \E kr \in {"KERN_TERMINATED", "KERN_SUCCESS", "KERN_OPERATION_TIMED_OUT"} :
           /\ GoesOn(t, IF trap[t].signal # NoSema THEN "signal_internal"
                     ELSE IF kr = "KERN_ALREADY_WAITING" THEN "blocked" ELSE "deref_wait", kr)
           /\ waitq' = waitq /\ wait_result' = wait_result
           /\ count' = count \/ Takes(w)
      \/ /\ Sleeps(t, w)
         /\ GoesOn(t, IF trap[t].signal # NoSema THEN "signal_internal"
                   ELSE IF "KERN_ALREADY_WAITING" = "KERN_ALREADY_WAITING"
                   THEN "blocked" ELSE "deref_wait", "KERN_ALREADY_WAITING")
  BY <1>3, Zenon DEF semaphore_wait_internal, Takes, Sleeps
<1>6. ASSUME Sleeps(t, w),
             GoesOn(t, IF trap[t].signal # NoSema THEN "signal_internal"
                       ELSE IF "KERN_ALREADY_WAITING" = "KERN_ALREADY_WAITING"
                       THEN "blocked" ELSE "deref_wait", "KERN_ALREADY_WAITING")
      PROVE  QueueEffect(t)
  <2>1. GoesOn(t, IF trap[t].signal # NoSema THEN "signal_internal" ELSE "blocked",
               "KERN_ALREADY_WAITING")
    BY <1>6, Zenon
  <2> QED
    BY <1>1, <1>2, <1>3, <1>6, <2>1, Zenon DEF WaitSleeps, QueueEffect
<1> QED
  BY <1>3, <1>4, <1>5, <1>6, Zenon DEF QueueEffect, KeepsQueues

\* semaphore_signal_internal.
LEMMA SignalEffect ==
  ASSUME MachTypeOK, TrapInv, CountInv, NEW t \in Threads, semaphore_signal_internal(t)
  PROVE  QueueEffect(t)
<1> DEFINE s == trap[t].signal
           opt == IF trap[t].wait # NoSema THEN "one" ELSE trap[t].opt
           prepost == IF opt = "one" THEN 1 ELSE 0
<1>1. /\ Names(t) /\ trap[t].kr \in KernReturns
      /\ \A kr \in KernReturns, label \in Labels \ {"user"} :
           GoesOn(t, label, kr) => Moves(t, label, kr, NoSema)
  BY Arguments, Zenon
<1>2. /\ {"KERN_TERMINATED", "KERN_SUCCESS", "KERN_NOT_WAITING"} \subseteq KernReturns
      /\ {"clear_wait", "blocked", "deref_wait", "deref_signal"} \subseteq Labels \ {"user"}
  BY Zenon DEF KernReturns, Labels
<1>3. trap[t].at = "signal_internal" /\ KeepsZone /\ active' = active
  BY Zenon DEF semaphore_signal_internal, InTrap, KeepsZone
<1>4. s \in Semas
  BY <1>1, <1>3, Zenon DEF Names
<1>5. ASSUME NEW kr \in {"KERN_TERMINATED", "KERN_SUCCESS", "KERN_NOT_WAITING"},
             Signalled(t, kr)
      PROVE  SignalEnds(t)
  <2>1. CASE trap[t].wait # NoSema
    <3>1. \E label \in {"clear_wait", "blocked", "deref_wait"} :
            /\ GoesOn(t, label, trap[t].kr)
            /\ label = "deref_wait" => trap[t].kr # "KERN_ALREADY_WAITING"
      BY <1>5, <2>1, Zenon DEF Signalled
    <3> QED
      BY <1>1, <1>2, <1>3, <2>1, <3>1, Zenon DEF SignalEnds
  <2>2. CASE trap[t].wait = NoSema
    <3>1. \E x \in KernReturns : GoesOn(t, "deref_signal", x)
      BY <1>2, <1>5, <2>2, Zenon DEF Signalled
    <3> QED
      BY <1>1, <1>2, <1>3, <2>2, <3>1, Zenon DEF SignalEnds
  <2> QED
    BY <2>1, <2>2, Zenon
<1>6. ASSUME NEW W \in SUBSET waitq[s], W # {}, Wakeup(s, W, "THREAD_AWAKENED")
      PROVE  Wakens(s, W, "THREAD_AWAKENED")
  BY <1>3, <1>6, Zenon DEF Wakeup, Wakens, SemaWaitResults
<1>7. \/ ~active[s] /\ count' = count /\ Signalled(t, "KERN_TERMINATED")
           /\ waitq' = waitq /\ wait_result' = wait_result
      \/ /\ active[s] /\ opt \in Threads /\ count' = count
         /\ IF count[s] < 0 /\ opt \in waitq[s]
            THEN Wakeup(s, {opt}, "THREAD_AWAKENED") /\ Signalled(t, "KERN_SUCCESS")
            ELSE /\ Signalled(t, "KERN_NOT_WAITING")
                 /\ waitq' = waitq /\ wait_result' = wait_result
      \/ /\ active[s] /\ opt = "all" /\ count[s] < 0
         /\ count' = [count EXCEPT ![s] = 0]
         /\ IF waitq[s] # {}
            THEN Wakeup(s, waitq[s], "THREAD_AWAKENED") /\ Signalled(t, "KERN_SUCCESS")
            ELSE /\ Signalled(t, "KERN_NOT_WAITING")
                 /\ waitq' = waitq /\ wait_result' = wait_result
      \/ /\ active[s] /\ opt = "all" /\ ~(count[s] < 0) /\ count' = count
         /\ Signalled(t, "KERN_SUCCESS") /\ waitq' = waitq /\ wait_result' = wait_result
      \/ /\ active[s] /\ opt \in {"one", "any"} /\ count[s] < 0 /\ count' = count
         /\ \E x \in waitq[s] : /\ Wakeup(s, {x}, "THREAD_AWAKENED")
                                /\ Signalled(t, "KERN_SUCCESS")
      \/ /\ active[s] /\ opt \in {"one", "any"} /\ (count[s] >= 0 \/ waitq[s] = {})
         /\ count' = [count EXCEPT ![s] = (IF count[s] < 0 THEN 0 ELSE count[s]) + prepost]
         /\ Signalled(t, "KERN_NOT_WAITING") /\ waitq' = waitq /\ wait_result' = wait_result
  BY Zenon DEF semaphore_signal_internal
<1>8. waitq[s] \subseteq Threads
  BY <1>4, Zenon DEF MachTypeOK
<1>9. ASSUME active[s], opt \in {"one", "any"}, count[s] >= 0 \/ waitq[s] = {},
             count' = [count EXCEPT ![s] = (IF count[s] < 0 THEN 0 ELSE count[s]) + prepost],
             waitq' = waitq, wait_result' = wait_result
      PROVE  Posts(s)
  <2>1. waitq[s] = {}
    BY <1>4, <1>9 DEF CountInv, MachTypeOK
  <2>2. prepost \in {0, 1}
    BY Zenon
  <2> QED
    BY <1>3, <1>9, <2>1, <2>2, Zenon DEF Posts
<1>10. ASSUME active[s], count[s] < 0, waitq[s] = {}, count' = [count EXCEPT ![s] = 0],
              waitq' = waitq, wait_result' = wait_result
       PROVE  Posts(s)
  <2>1. (IF count[s] < 0 THEN 0 ELSE count[s]) + 0 = 0
    BY <1>10
  <2> QED
    BY <1>3, <1>10, <2>1, Zenon DEF Posts
<1> HIDE DEF s, opt, prepost
<1>11. KeepsQueues \/ Posts(s) \/ WakesOne(s) \/ WakesAll(s)
  BY <1>3, <1>6, <1>7, <1>8, <1>9, <1>10, Zenon DEF KeepsQueues, WakesOne, WakesAll
<1>12. SignalEnds(t)
  BY <1>5, <1>7, Zenon
<1> QED
  BY <1>11, <1>12, Zenon DEF QueueEffect, s

\* Every result of a wait that is over has a conversion.
LEMMA ResultConverts ==
  ASSUME NEW wr \in SemaWaitResults \ {"THREAD_WAITING"}
  PROVE  semaphore_convert_wait_result(wr) \in KernReturns
<1>1. wr \in {"THREAD_AWAKENED", "THREAD_TIMED_OUT", "THREAD_INTERRUPTED", "THREAD_RESTART"}
  BY Zenon DEF SemaWaitResults
<1> QED
  BY <1>1, Zenon DEF semaphore_convert_wait_result, KernReturns

\* semaphore_wait_continue, the deadline and the abort.
LEMMA ResumeEffect ==
  ASSUME MachTypeOK, TrapInv, QueueInv, NEW t \in Threads,
         semaphore_wait_continue(t) \/ \E wr \in SemaWaitResults : thread_unblock(t, wr)
  PROVE  CallEffect(t) \/ QueueEffect(t)
<1>1. CASE semaphore_wait_continue(t)
  <2>1. trap[t].at = "blocked" /\ t \notin waitq[trap[t].wait] /\ KeepsZone /\ KeepsQueues
    BY <1>1, Zenon DEF semaphore_wait_continue, InTrap, KeepsZone, KeepsQueues, zoneVars
  <2>2. wait_result[t] \in SemaWaitResults \ {"THREAD_WAITING"}
    BY <2>1, Zenon DEF MachTypeOK, QueueInv
  <2>3. GoesOn(t, "deref_wait", semaphore_convert_wait_result(wait_result[t]))
    BY <1>1, Zenon DEF semaphore_wait_continue
  <2>4. \E kr \in KernReturns : Moves(t, "deref_wait", kr, NoSema)
    BY <2>2, <2>3, Arguments, ResultConverts, Zenon DEF Labels
  <2> QED
    BY <2>1, <2>4, Zenon DEF Continues, CallEffect
<1>2. ASSUME NEW wr \in SemaWaitResults, thread_unblock(t, wr)
      PROVE  QueueEffect(t)
  <2>1. /\ trap' = trap /\ KeepsZone /\ count' = count /\ active' = active
        /\ t \in waitq[trap[t].wait] /\ Wakeup(trap[t].wait, {t}, wr) /\ wr # "THREAD_WAITING"
        /\ trap[t].wait \in Semas
    BY <1>2, Arguments, Zenon DEF thread_unblock, KeepsZone
  <2>2. Wakens(trap[t].wait, {t}, wr)
    BY <2>1, Zenon DEF Wakeup, Wakens
  <2> QED
    BY <2>1, <2>2, Zenon DEF Unblocks, QueueEffect
<1> QED
  BY <1>1, <1>2, Zenon

\* The wait that is given up because the other semaphore has died.
LEMMA ClearEffect ==
  ASSUME MachTypeOK, TrapInv, QueueInv, NEW t \in Threads, clear_wait(t)
  PROVE  QueueEffect(t)
<1> DEFINE w == trap[t].wait
           wr == IF t \in waitq[w] THEN "THREAD_INTERRUPTED" ELSE wait_result[t]
           kr == semaphore_convert_wait_result(wr)
<1>1. /\ trap[t].at = "clear_wait" /\ KeepsZone /\ active' = active /\ count' = count
      /\ waitq' = [waitq EXCEPT ![w] = waitq[w] \ {t}]
      /\ wait_result' = [wait_result EXCEPT ![t] = wr]
      /\ GoesOn(t, "deref_wait", IF kr = "KERN_ABORTED" THEN "KERN_TERMINATED" ELSE kr)
  BY Zenon DEF clear_wait, InTrap, KeepsZone
<1>2. w \in Semas
  BY <1>1, Zenon DEF TrapInv, Names
<1>3. wr \in SemaWaitResults \ {"THREAD_WAITING"}
  BY <1>2, Zenon DEF MachTypeOK, QueueInv, SemaWaitResults
<1>4. \E x \in KernReturns : Moves(t, "deref_wait", x, NoSema)
  <2>1. kr \in KernReturns /\ "KERN_TERMINATED" \in KernReturns /\ "deref_wait" \in Labels \ {"user"}
    BY <1>3, ResultConverts, Zenon DEF KernReturns, Labels
  <2> HIDE DEF kr
  <2> QED
    BY <1>1, <2>1, Arguments, Zenon
<1>5. CASE t \in waitq[w]
  <2>1. wait_result' = [u \in Threads |-> IF u \in {t} THEN "THREAD_INTERRUPTED"
                                          ELSE wait_result[u]]
    BY <1>1, <1>5, Zenon DEF MachTypeOK
  <2>2. Wakens(w, {t}, "THREAD_INTERRUPTED")
    BY <1>1, <1>5, <2>1, Zenon DEF Wakens, SemaWaitResults
  <2> QED
    BY <1>1, <1>4, <1>5, <2>2, Zenon DEF SemaWaitResults, Unblocks, ClearsWait, QueueEffect
<1>6. CASE t \notin waitq[w]
  <2>1. waitq[w] \ {t} = waitq[w]
    BY <1>6, Zenon
  <2>2. waitq' = waitq
    BY <1>1, <1>2, <2>1, Zenon DEF MachTypeOK
  <2>3. wait_result' = wait_result
    BY <1>1, <1>6, Zenon DEF MachTypeOK
  <2> QED
    BY <1>1, <1>4, <1>6, <2>2, <2>3, Zenon DEF KeepsQueues, ClearsWait, QueueEffect
<1> QED
  BY <1>5, <1>6, Zenon

\* semaphore_destroy_internal empties the queue, although it only looks at it
\* when the count is negative.
LEMMA DestroyEmpties ==
  ASSUME MachTypeOK, CountInv, NEW s \in Semas, active[s], semaphore_destroy_internal(s)
  PROVE  Emptied(s)
<1> DEFINE W == IF count[s] < 0 THEN waitq[s] ELSE {}
<1>1. W = waitq[s]
  BY Zenon DEF CountInv, MachTypeOK
<1>2. waitq[s] \ W = {}
  BY <1>1, Zenon
<1> QED
  BY <1>1, <1>2, Zenon DEF semaphore_destroy_internal, Wakeup, Emptied

\* semaphore_destroy and semaphore_destroy_all.
LEMMA DestroyEffect ==
  ASSUME MachTypeOK, TrapInv, CountInv
  PROVE  /\ \A t \in Threads : semaphore_destroy(t) => QueueEffect(t)
         /\ semaphore_destroy_all => TaskDies
<1>1. ASSUME NEW t \in Threads, semaphore_destroy(t)
      PROVE  QueueEffect(t)
  <2>1. trap[t].at = "destroy" /\ KeepsZone
    BY <1>1, Zenon DEF semaphore_destroy, InTrap, KeepsZone
  <2>2. trap[t].wait \in Semas
    BY <2>1, Zenon DEF TrapInv, Names
  <2>3. "KERN_SUCCESS" \in KernReturns /\ "KERN_INVALID_ARGUMENT" \in KernReturns
    BY Zenon DEF KernReturns
  <2>4. \E kr \in KernReturns : Moves(t, "deref_wait", kr, NoSema)
    BY <1>1, <2>3, Arguments, Zenon DEF semaphore_destroy, Labels
  <2>5. Emptied(trap[t].wait) \/ KeepsQueues
    BY <1>1, <2>2, DestroyEmpties, Zenon DEF semaphore_destroy, KeepsQueues
  <2> QED
    BY <2>1, <2>4, <2>5, Zenon DEF Destroys, QueueEffect
<1>2. ASSUME semaphore_destroy_all
      PROVE  TaskDies
  BY <1>2, DestroyEmpties, Zenon DEF semaphore_destroy_all, TaskDies, KeepsZone, KeepsQueues
<1> QED
  BY <1>1, <1>2, Zenon

\* What follows a dereference.
LEMMA AfterEffect ==
  ASSUME MachTypeOK, TrapInv, NEW t \in Threads,
         trap[t].at \in {"deref_wait", "deref_signal", "notify"},
         GoesOn(t, AfterDereference(t), trap[t].kr)
  PROVE  Follows(t)
<1>1. /\ Names(t) /\ trap[t].kr \in KernReturns
      /\ \A kr \in KernReturns, label \in Labels \ {"user"} :
           GoesOn(t, label, kr) => Moves(t, label, kr, NoSema)
  BY Arguments, Zenon
<1>2. CASE trap[t].at = "deref_wait" /\ trap[t].signal # NoSema
  <2>1. AfterDereference(t) = "deref_signal"
    BY <1>1, <1>2, Zenon DEF AfterDereference, Names
  <2> QED
    BY <1>1, <1>2, <2>1, Zenon DEF Follows, Labels
<1>3. CASE trap[t].at = "deref_wait" /\ trap[t].signal = NoSema /\ trap[t].opt = "none"
  <2>1. AfterDereference(t) = "notify"
    BY <1>3, Zenon DEF AfterDereference
  <2> QED
    BY <1>1, <1>3, <2>1, Zenon DEF Follows, Labels
<1>4. CASE \/ trap[t].at # "deref_wait"
           \/ trap[t].signal = NoSema /\ trap[t].opt # "none"
  <2>1. AfterDereference(t) = "user"
    BY <1>4, Zenon DEF AfterDereference
  <2>2. Returns(t)
    BY <2>1, GoesOnReturns, Zenon
  <2> QED
    BY <1>4, <2>2, Zenon DEF Follows
<1> QED
  BY <1>2, <1>3, <1>4, Zenon

\* semaphore_dereference.
LEMMA DropEffect ==
  ASSUME MachTypeOK, TrapInv, NEW t \in Threads, semaphore_dereference(t)
  PROVE  RefEffect(t)
<1> DEFINE s == Dereferenced(t)
<1>1. Dereferences(t) /\ Dropped(t)
  BY Zenon DEF semaphore_dereference, Dropped, KeepsQueues
<1>2. trap[t].at \in {"deref_wait", "deref_signal", "notify"}
  BY <1>1, Zenon DEF Dereferences, InTrap
<1>3. s \in Semas
  BY <1>2, Zenon DEF TrapInv, Names, Dereferenced
<1>4. CASE ref_count[s] = 1
  <2> DEFINE c == trap[t]
             d == Call(c.at, c.wait, c.signal, c.opt, s, c.kr)
  <2>1. c \in Traps
    BY Zenon DEF MachTypeOK
  <2>2. d \in Traps
    BY <1>3, <2>1, CallOf, CallType, Zenon
  <2>3. [c EXCEPT !.freeing = s] = d
    <3>1. c = Call(c.at, c.wait, c.signal, c.opt, c.freeing, c.kr)
      BY <2>1, CallOf, Zenon
    <3> HIDE DEF s
    <3>2. [Call(c.at, c.wait, c.signal, c.opt, c.freeing, c.kr) EXCEPT !.freeing = s] = d
      BY DEF Call
    <3> QED
      BY <3>1, <3>2, Zenon
  <2>4. trap' = [trap EXCEPT ![t].freeing = s]
    BY <1>4, Zenon DEF semaphore_dereference
  <2>5. trap' = [trap EXCEPT ![t] = d]
    <3> HIDE DEF s
    <3>1. trap' = [trap EXCEPT ![t] = [c EXCEPT !.freeing = s]]
      BY <2>4, Zenon
    <3> QED
      BY <2>3, <3>1, Zenon
  <2>6. /\ trap'[t] = d /\ \A u \in Threads : u # t => trap'[u] = trap[u]
        /\ trap' \in [Threads -> Traps]
    BY <2>2, <2>5, Zenon DEF MachTypeOK
  <2>7. /\ d.at = c.at /\ d.kr = c.kr /\ d.freeing = s
        /\ d.wait = c.wait /\ d.signal = c.signal /\ d.opt = c.opt
    <3> HIDE DEF s
    <3> QED
      BY Zenon DEF Call
  <2>8. Moves(t, trap[t].at, trap[t].kr, s)
    BY <2>6, <2>7, Zenon DEF Moves
  <2> QED
    BY <1>1, <1>4, <2>8, Zenon DEF GivesUpLast, RefEffect
<1>5. CASE ref_count[s] # 1
  <2>1. Follows(t)
    BY <1>2, <1>5, AfterEffect, Zenon DEF semaphore_dereference
  <2> QED
    BY <1>1, <1>5, <2>1, Zenon DEF GivesUp, RefEffect
<1> QED
  BY <1>4, <1>5, Zenon

\* The end of a dereference that was the last.
LEMMA FreeEffect ==
  ASSUME MachTypeOK, TrapInv, CountInv, NEW t \in Threads, semaphore_free(t)
  PROVE  RefEffect(t)
<1> DEFINE s == trap[t].freeing
<1>1. s # NoSema
  BY Zenon DEF semaphore_free
<1>2. s \in Semas /\ trap[t].at \in {"deref_wait", "deref_signal", "notify"}
  BY <1>1, Zenon DEF TrapInv, Names, Frees, Dereferenced
<1>3. Follows(t)
  BY <1>2, AfterEffect, Zenon DEF semaphore_free
<1>4. Emptied(s) \/ (~active[s] /\ KeepsQueues)
  BY <1>2, DestroyEmpties, Zenon DEF semaphore_free, KeepsQueues
<1>5. Freed(t, s)
  BY <1>3, <1>4, Zenon DEF semaphore_free, Freed
<1> QED
  BY <1>2, <1>5, Zenon DEF RefEffect

\* Every step has one of the effects.
LEMMA MachSteps ==
  ASSUME MachTypeOK, TrapInv, QueueInv, CountInv, MachNext
  PROVE  MachEffect
<1>1. ASSUME NEW t \in Threads, Kernel(t)
      PROVE  CallEffect(t) \/ RefEffect(t) \/ QueueEffect(t)
  BY <1>1, NameEffect, WaitEffect, SignalEffect, ClearEffect, ResumeEffect, DestroyEffect,
     DropEffect, FreeEffect, Zenon DEF Kernel
<1> QED
  BY <1>1, CallStartEffect, ResumeEffect, DestroyEffect, Zenon DEF MachNext, MachEffect

-----------------------------------------------------------------------------
\* The call of one thread changes.
LEMMA OneCall ==
  ASSUME TrapInv, NEW t \in Threads, \A u \in Threads : u # t => trap'[u] = trap[u],
         Names(t)', Frees(t)'
  PROVE  TrapInv'
<1>1. ASSUME NEW u \in Threads, u # t
      PROVE  Names(u)' /\ Frees(u)'
  BY <1>1, ZenonT(30) DEF TrapInv, Names, Frees, Dereferenced
<1> QED
  BY <1>1, Zenon DEF TrapInv

\* A thread that has returned has no call.
LEMMA ReturnsNames ==
  ASSUME TrapInv, NEW t \in Threads, Returns(t)
  PROVE  TrapInv'
<1>1. Names(t)' /\ Frees(t)'
  BY Zenon DEF Returns, Calls, Names, Frees
<1> QED
  BY <1>1, OneCall, Zenon DEF Returns, Calls

\* A call that goes on elsewhere with arguments that suit.
LEMMA MovesNames ==
  ASSUME TrapInv, NEW t \in Threads, NEW label, NEW kr, Moves(t, label, kr, NoSema), Names(t)'
  PROVE  TrapInv'
BY OneCall, Zenon DEF Moves, Frees

\* The places of the calls and their arguments.
LEMMA TrapStep ==
  ASSUME MachTypeOK, TrapInv, MachEffect
  PROVE  TrapInv'
<1> USE SemasAssumption
<1>1. ASSUME NEW t \in Threads, Refused(t) \/ NoName(t)
      PROVE  TrapInv'
  BY <1>1, ReturnsNames, Zenon DEF Refused, NoName
<1>2. ASSUME NEW t \in Threads, NEW s \in Semas, Created(t, s)
      PROVE  TrapInv'
  BY <1>2, ReturnsNames, Zenon DEF Created
<1>3. ASSUME NEW t \in Threads, NEW w \in Semas, NEW opt \in Timeouts, WaitCalled(t, w, opt)
      PROVE  TrapInv'
  <2>1. Names(t)' /\ Frees(t)'
    BY <1>3, Zenon DEF WaitCalled, Calls, Names, Frees, Timeouts
  <2> QED
    BY <1>3, <2>1, OneCall, Zenon DEF WaitCalled, Calls
<1>4. ASSUME NEW t \in Threads, NEW s \in Semas, NEW w \in Semas \cup {NoSema},
             NEW opt \in Timeouts \cup Signallers, SignalCalled(t, w, s, opt)
      PROVE  TrapInv'
  <2>1. Names(t)' /\ Frees(t)'
    BY <1>4, Zenon DEF SignalCalled, Calls, Names, Frees, Timeouts, Signallers
  <2> QED
    BY <1>4, <2>1, OneCall, Zenon DEF SignalCalled, Calls
<1>5. ASSUME NEW t \in Threads, NEW s \in Semas, DestroyCalled(t, s)
      PROVE  TrapInv'
  <2>1. Names(t)' /\ Frees(t)'
    BY <1>5, Zenon DEF DestroyCalled, Calls, Names, Frees
  <2> QED
    BY <1>5, <2>1, OneCall, Zenon DEF DestroyCalled, Calls
<1>6. ASSUME NEW t \in Threads, NEW s \in Semas, Deallocated(t, s)
      PROVE  TrapInv'
  <2>1. Names(t)' /\ Frees(t)'
    BY <1>6, Zenon DEF Deallocated, Calls, Names, Frees
  <2> QED
    BY <1>6, <2>1, OneCall, Zenon DEF Deallocated, Calls
<1>7. ASSUME NEW t \in Threads, NoSecond(t)
      PROVE  TrapInv'
  <2>1. Names(t)'
    BY <1>7, Zenon DEF NoSecond, Moves, TrapInv, Names, MachTypeOK, Traps
  <2> QED
    BY <1>7, <2>1, MovesNames, Zenon DEF NoSecond
<1>8. ASSUME NEW t \in Threads, Continues(t)
      PROVE  TrapInv'
  <2>1. Names(t)'
    BY <1>8, Zenon DEF Continues, Moves, TrapInv, Names, MachTypeOK
  <2> QED
    BY <1>8, <2>1, MovesNames, Zenon DEF Continues
<1>9. ASSUME NEW t \in Threads, FirstNamed(t)
      PROVE  TrapInv'
  <2>1. Names(t)'
    BY <1>9, Zenon DEF FirstNamed, Moves, TrapInv, Names, MachTypeOK, Traps
  <2> QED
    BY <1>9, <2>1, MovesNames, Zenon DEF FirstNamed
<1>10. ASSUME NEW t \in Threads, SecondNamed(t)
      PROVE  TrapInv'
  <2>1. Names(t)'
    BY <1>10, Zenon DEF SecondNamed, Moves, TrapInv, Names, MachTypeOK
  <2> QED
    BY <1>10, <2>1, MovesNames, Zenon DEF SecondNamed
<1>11. ASSUME NEW t \in Threads, GivesUpLast(t)
      PROVE  TrapInv'
  <2>1. Names(t)' /\ Frees(t)'
    BY <1>11, Zenon
    DEF GivesUpLast, Moves, TrapInv, Names, Frees, Dereferences, Dereferenced, InTrap
  <2> QED
    BY <1>11, <2>1, OneCall, Zenon DEF GivesUpLast, Moves
<1>12. ASSUME NEW t \in Threads, Follows(t)
      PROVE  TrapInv'
  <2>1. CASE Returns(t)
    BY <2>1, ReturnsNames, Zenon
  <2>2. CASE ~Returns(t)
    <3>1. Names(t)'
      BY <1>12, <2>2, Zenon DEF Follows, Moves, TrapInv, Names, MachTypeOK, Traps
    <3> QED
      BY <1>12, <2>2, <3>1, MovesNames, Zenon DEF Follows
  <2> QED
    BY <2>1, <2>2, Zenon
<1>13. ASSUME NEW t \in Threads, Destroys(t)
      PROVE  TrapInv'
  <2>1. Names(t)'
    BY <1>13, Zenon DEF Destroys, Moves, TrapInv, Names, MachTypeOK
  <2> QED
    BY <1>13, <2>1, MovesNames, Zenon DEF Destroys
<1>14. ASSUME NEW t \in Threads, ClearsWait(t)
      PROVE  TrapInv'
  <2>1. Names(t)'
    BY <1>14, Zenon DEF ClearsWait, Moves, TrapInv, Names, MachTypeOK
  <2> QED
    BY <1>14, <2>1, MovesNames, Zenon DEF ClearsWait
<1>15. ASSUME NEW t \in Threads, WaitEnds(t)
      PROVE  TrapInv'
  <2>1. Names(t)'
    BY <1>15, Zenon DEF WaitEnds, Moves, TrapInv, Names, MachTypeOK, Traps
  <2> QED
    BY <1>15, <2>1, MovesNames, Zenon DEF WaitEnds
<1>16. ASSUME NEW t \in Threads, WaitSleeps(t)
      PROVE  TrapInv'
  <2>1. Names(t)'
    BY <1>16, Zenon DEF WaitSleeps, Moves, TrapInv, Names, MachTypeOK, Traps
  <2> QED
    BY <1>16, <2>1, MovesNames, Zenon DEF WaitSleeps
<1>17. ASSUME NEW t \in Threads, SignalEnds(t)
      PROVE  TrapInv'
  <2>1. Names(t)'
    BY <1>17, Zenon DEF SignalEnds, Moves, TrapInv, Names, MachTypeOK, Traps
  <2> QED
    BY <1>17, <2>1, MovesNames, Zenon DEF SignalEnds
<1>18. ASSUME trap' = trap
      PROVE  TrapInv'
  BY <1>18, Zenon DEF TrapInv, Names, Frees, Dereferenced
<1> QED
  BY <1>1, <1>2, <1>3, <1>4, <1>5, <1>6, <1>7, <1>8, <1>9, <1>10, <1>11, <1>12, <1>13,
      <1>14, <1>15, <1>16, <1>17, <1>18, Zenon
     DEF MachEffect, CallEffect, RefEffect, QueueEffect, GivesUp, Freed, TaskDies

-----------------------------------------------------------------------------
\* Where the call of a sleeper is.
Asleep(t) == trap[t].at \in {"signal_internal", "clear_wait", "blocked"}

\* Whoever is on a queue is in a wait on that semaphore.
LEMMA OnQueue ==
  ASSUME QueueInv, NEW s \in Semas, NEW u, u \in waitq[s]
  PROVE  trap[u].wait = s /\ trap[u].kr = "KERN_ALREADY_WAITING" /\ Asleep(u)
BY Zenon DEF QueueInv, Asleep

\* The threads of W leave the queues.
Leave(W) ==
  /\ \A s \in Semas, u \in Threads : u \in waitq'[s] <=> u \in waitq[s] /\ u \notin W
  /\ \A u \in Threads : IF u \in W THEN wait_result'[u] # "THREAD_WAITING"
                        ELSE wait_result'[u] = wait_result[u]

\* The queues stay as they are when those who leave them are woken, and those
\* who stay keep their wait.
LEMMA Sleepers ==
  ASSUME MachTypeOK, MachTypeOK', QueueInv, NEW W, Leave(W),
         \A s \in Semas, u \in Threads : u \in waitq[s] /\ u \notin W =>
           trap'[u].wait = trap[u].wait /\ trap'[u].kr = trap[u].kr /\ Asleep(u)'
  PROVE  QueueInv'
<1>1. ASSUME NEW s \in Semas, NEW u \in waitq'[s]
      PROVE  /\ trap'[u].wait = s /\ trap'[u].kr = "KERN_ALREADY_WAITING"
             /\ trap'[u].at \in {"signal_internal", "clear_wait", "blocked"}
  <2>1. u \in Threads
    BY Zenon DEF MachTypeOK
  <2>2. u \in waitq[s] /\ u \notin W
    BY <2>1, Zenon DEF Leave
  <2> QED
    <3>1. trap[u].wait = s /\ trap[u].kr = "KERN_ALREADY_WAITING"
      BY <2>2, OnQueue, Zenon
    <3>2. trap'[u].wait = trap[u].wait /\ trap'[u].kr = trap[u].kr /\ Asleep(u)'
      BY <2>1, <2>2, Zenon
    <3> QED
      BY <3>1, <3>2, Zenon DEF Asleep
<1>2. ASSUME NEW u \in Threads, wait_result'[u] = "THREAD_WAITING"
      PROVE  \E s \in Semas : trap'[u].wait = s /\ u \in waitq'[s]
  <2>1. u \notin W /\ wait_result[u] = "THREAD_WAITING"
    BY <1>2, Zenon DEF Leave
  <2>2. PICK s \in Semas : trap[u].wait = s /\ u \in waitq[s]
    BY <2>1, Zenon DEF QueueInv
  <2>3. u \in waitq'[s]
    BY <2>1, <2>2, Zenon DEF Leave
  <2> QED
    BY <2>1, <2>2, <2>3, Zenon
<1> QED
  BY <1>1, <1>2, Zenon DEF QueueInv

\* Nobody leaves when the queues stay.
LEMMA NobodyLeaves ==
  ASSUME waitq' = waitq, wait_result' = wait_result
  PROVE  Leave({})
BY Zenon DEF Leave

\* Those whom a signal, a deadline or an abort wakes leave.
LEMMA SomeLeave ==
  ASSUME MachTypeOK, QueueInv, NEW s \in Semas, NEW W, NEW r, Wakens(s, W, r)
  PROVE  Leave(W)
<1>1. ASSUME NEW x \in Semas, NEW u \in Threads
      PROVE  u \in waitq'[x] <=> u \in waitq[x] /\ u \notin W
  <2>1. CASE x = s
    BY <2>1, Zenon DEF Wakens, MachTypeOK
  <2>2. CASE x # s
    <3>1. waitq'[x] = waitq[x]
      BY <2>2, Zenon DEF Wakens, MachTypeOK
    <3>2. u \in waitq[x] => u \notin W
      <4>1. ASSUME u \in waitq[x], u \in W
            PROVE  FALSE
        <5>1. u \in waitq[s]
          BY <4>1, Zenon DEF Wakens
        <5>2. trap[u].wait = s
          BY <5>1, OnQueue, Zenon
        <5>3. trap[u].wait = x
          BY <4>1, OnQueue, Zenon
        <5> QED
          BY <2>2, <5>2, <5>3, Zenon
      <4> QED
        BY <4>1, Zenon
    <3> QED
      BY <3>1, <3>2, Zenon
  <2> QED
    BY <2>1, <2>2, Zenon
<1> QED
  BY <1>1, Zenon DEF Leave, Wakens

\* Everyone leaves a semaphore that is destroyed.
LEMMA AllLeave ==
  ASSUME MachTypeOK, QueueInv, NEW s \in Semas, Emptied(s)
  PROVE  Leave(waitq[s])
<1>1. ASSUME NEW x \in Semas, NEW u \in Threads
      PROVE  u \in waitq'[x] <=> u \in waitq[x] /\ u \notin waitq[s]
  <2>1. CASE x = s
    BY <2>1, Zenon DEF Emptied, MachTypeOK
  <2>2. CASE x # s
    <3>1. waitq'[x] = waitq[x]
      BY <2>2, Zenon DEF Emptied, MachTypeOK
    <3>2. u \in waitq[x] => u \notin waitq[s]
      <4>1. ASSUME u \in waitq[x], u \in waitq[s]
            PROVE  FALSE
        <5>1. trap[u].wait = s
          BY <4>1, OnQueue, Zenon
        <5>2. trap[u].wait = x
          BY <4>1, OnQueue, Zenon
        <5> QED
          BY <2>2, <5>1, <5>2, Zenon
      <4> QED
        BY <4>1, Zenon
    <3> QED
      BY <3>1, <3>2, Zenon
  <2> QED
    BY <2>1, <2>2, Zenon
<1>2. ASSUME NEW u \in Threads
      PROVE  IF u \in waitq[s] THEN wait_result'[u] # "THREAD_WAITING"
             ELSE wait_result'[u] = wait_result[u]
  BY Zenon DEF Emptied
<1> QED
  BY <1>1, <1>2, Zenon DEF Leave

\* Whoever is on a queue keeps its wait.
Undisturbed(W) ==
  \A s \in Semas, u \in Threads : u \in waitq[s] /\ u \notin W =>
    trap'[u].wait = trap[u].wait /\ trap'[u].kr = trap[u].kr /\ Asleep(u)'

\* A step of t leaves the waits of the others alone.
LEMMA OthersWait ==
  ASSUME QueueInv, NEW t \in Threads, NEW W,
         \A u \in Threads : u # t => trap'[u] = trap[u],
         \A s \in Semas : t \in waitq[s] /\ t \notin W =>
           trap'[t].wait = trap[t].wait /\ trap'[t].kr = trap[t].kr /\ Asleep(t)'
  PROVE  Undisturbed(W)
<1>1. ASSUME NEW s \in Semas, NEW u \in Threads, u \in waitq[s], u \notin W, u # t
      PROVE  trap'[u].wait = trap[u].wait /\ trap'[u].kr = trap[u].kr /\ Asleep(u)'
  <2>1. trap'[u] = trap[u]
    BY <1>1, Zenon
  <2>2. Asleep(u)
    BY <1>1, OnQueue, Zenon
  <2> QED
    BY <2>1, <2>2, Zenon DEF Asleep
<1> QED
  BY <1>1, Zenon DEF Undisturbed

\* The steps of a thread that is on no queue disturb nobody's wait.
LEMMA AwakeSteps ==
  ASSUME MachTypeOK, QueueInv, NEW t \in Threads, ~Asleep(t),
         \A u \in Threads : u # t => trap'[u] = trap[u], NEW W
  PROVE  Undisturbed(W)
<1>1. \A s \in Semas : t \notin waitq[s]
  BY OnQueue, Zenon
<1> QED
  BY <1>1, OthersWait, Zenon

\* Nor do those of a thread that signals while it is on another queue.
LEMMA SignalSteps ==
  ASSUME MachTypeOK, QueueInv, NEW t \in Threads, SignalEnds(t), NEW W
  PROVE  Undisturbed(W)
<1>1. ASSUME NEW s \in Semas, t \in waitq[s]
      PROVE  trap'[t].wait = trap[t].wait /\ trap'[t].kr = trap[t].kr /\ Asleep(t)'
  <2>1. trap[t].wait # NoSema /\ trap[t].kr = "KERN_ALREADY_WAITING"
    BY <1>1, SemasAssumption, ZenonT(30) DEF QueueInv
  <2> QED
    BY <2>1, Zenon DEF SignalEnds, Moves, Asleep
<1>2. \A u \in Threads : u # t => trap'[u] = trap[u]
  BY Zenon DEF SignalEnds, Moves
<1> QED
  BY <1>1, <1>2, OthersWait, Zenon

\* Those on the queues and the results of their waits.
LEMMA QueueStep ==
  ASSUME MachTypeOK, MachTypeOK', TrapInv, QueueInv, MachEffect
  PROVE  QueueInv'
<1>1. ASSUME NEW W, Leave(W), Undisturbed(W)
      PROVE  QueueInv'
  BY <1>1, Sleepers, Zenon DEF Undisturbed
<1>2. ASSUME NEW t \in Threads, \/ Refused(t) \/ NoName(t) \/ NoSecond(t)
                                 \/ FirstNamed(t) \/ SecondNamed(t)
      PROVE  QueueInv'
  <2>1. ~Asleep(t) /\ \A u \in Threads : u # t => trap'[u] = trap[u]
    BY <1>2, Zenon
    DEF Asleep, Moves, Calls, Returns, Refused, NoName, NoSecond, FirstNamed, SecondNamed,
        Referenced
  <2>2. Leave({})
    BY <1>2, NobodyLeaves, Zenon
    DEF KeepsQueues, Refused, NoName, NoSecond, FirstNamed, SecondNamed, Referenced
  <2> QED
    BY <1>1, <2>1, <2>2, AwakeSteps, Zenon
<1>3. ASSUME NEW t \in Threads, NEW w \in Semas, NEW opt \in Timeouts, WaitCalled(t, w, opt)
      PROVE  QueueInv'
  <2>1. ~Asleep(t) /\ \A u \in Threads : u # t => trap'[u] = trap[u]
    BY <1>3, Zenon DEF Asleep, Moves, Calls, Returns, WaitCalled
  <2>2. Leave({})
    BY <1>3, NobodyLeaves, Zenon DEF KeepsQueues, WaitCalled
  <2> QED
    BY <1>1, <2>1, <2>2, AwakeSteps, Zenon
<1>4. ASSUME NEW t \in Threads, NEW s \in Semas, NEW w \in Semas \cup {NoSema},
             NEW opt \in Timeouts \cup Signallers, SignalCalled(t, w, s, opt)
      PROVE  QueueInv'
  <2>1. ~Asleep(t) /\ \A u \in Threads : u # t => trap'[u] = trap[u]
    BY <1>4, Zenon DEF Asleep, Moves, Calls, Returns, SignalCalled
  <2>2. Leave({})
    BY <1>4, NobodyLeaves, Zenon DEF KeepsQueues, SignalCalled
  <2> QED
    BY <1>1, <2>1, <2>2, AwakeSteps, Zenon
<1>5. ASSUME NEW t \in Threads, NEW s \in Semas,
             Created(t, s) \/ DestroyCalled(t, s) \/ Deallocated(t, s)
      PROVE  QueueInv'
  <2>1. ~Asleep(t) /\ \A u \in Threads : u # t => trap'[u] = trap[u]
    BY <1>5, Zenon DEF Asleep, Moves, Calls, Returns, Created, DestroyCalled, Deallocated
  <2>2. Leave({})
    BY <1>5, NobodyLeaves, Zenon DEF KeepsQueues, Created, DestroyCalled, Deallocated
  <2> QED
    BY <1>1, <2>1, <2>2, AwakeSteps, Zenon
<1>6. ASSUME NEW t \in Threads, GivesUpLast(t) \/ GivesUp(t)
      PROVE  QueueInv'
  <2>1. ~Asleep(t) /\ \A u \in Threads : u # t => trap'[u] = trap[u]
    BY <1>6, Zenon
    DEF Asleep, Moves, Calls, Returns, GivesUpLast, GivesUp, Follows, Dropped,
        Dereferences, InTrap
  <2>2. Leave({})
    BY <1>6, NobodyLeaves, Zenon
    DEF KeepsQueues, GivesUpLast, GivesUp, Follows, Dropped, Dereferences, InTrap
  <2> QED
    BY <1>1, <2>1, <2>2, AwakeSteps, Zenon
<1>7. ASSUME NEW t \in Threads, WaitEnds(t), KeepsQueues \/ Takes(trap[t].wait)
      PROVE  QueueInv'
  <2>1. ~Asleep(t) /\ \A u \in Threads : u # t => trap'[u] = trap[u]
    BY <1>7, Zenon DEF Asleep, Moves, Calls, Returns, WaitEnds, Takes
  <2>2. Leave({})
    BY <1>7, NobodyLeaves, Zenon DEF KeepsQueues, WaitEnds, Takes
  <2> QED
    BY <1>1, <2>1, <2>2, AwakeSteps, Zenon
<1>8. ASSUME NEW t \in Threads, Continues(t)
      PROVE  QueueInv'
  <2>1. \A s \in Semas : t \notin waitq[s]
    BY <1>8, Zenon DEF Continues, QueueInv
  <2>2. Undisturbed({})
    BY <1>8, <2>1, OthersWait, Zenon DEF Continues, Moves
  <2>3. Leave({})
    BY <1>8, NobodyLeaves, Zenon DEF Continues, KeepsQueues
  <2> QED
    BY <1>1, <2>2, <2>3, Zenon
<1>9. ASSUME NEW t \in Threads, NEW s \in Semas, Freed(t, s)
      PROVE  QueueInv'
  <2>1. trap[t].at \in {"deref_wait", "deref_signal", "notify"}
    BY <1>9, SemasAssumption, Zenon DEF Freed, TrapInv, Frees
  <2>2. ~Asleep(t) /\ \A u \in Threads : u # t => trap'[u] = trap[u]
    BY <1>9, <2>1, Zenon DEF Freed, Follows, Asleep, Moves, Calls, Returns
  <2>3. \A W : Undisturbed(W)
    BY <2>2, AwakeSteps, Zenon
  <2>4. \E W : Leave(W)
    BY <1>9, NobodyLeaves, AllLeave, Zenon DEF Freed, KeepsQueues
  <2> QED
    BY <1>1, <2>3, <2>4, Zenon
<1>10. ASSUME NEW t \in Threads, Destroys(t)
      PROVE  QueueInv'
  <2>1. ~Asleep(t) /\ \A u \in Threads : u # t => trap'[u] = trap[u]
    BY <1>10, Zenon DEF Destroys, Asleep, Moves
  <2>2. \A W : Undisturbed(W)
    BY <2>1, AwakeSteps, Zenon
  <2>3. trap[t].wait \in Semas
    BY <1>10, Zenon DEF Destroys, TrapInv, Names
  <2>4. \E W : Leave(W)
    BY <1>10, <2>3, NobodyLeaves, AllLeave, Zenon DEF Destroys, KeepsQueues
  <2> QED
    BY <1>1, <2>2, <2>4, Zenon
<1>11. ASSUME TaskDies
      PROVE  QueueInv'
  <2>1. \A W : Undisturbed(W)
    BY <1>11, Zenon DEF TaskDies, QueueInv, Asleep, Undisturbed
  <2>2. \E W : Leave(W)
    BY <1>11, NobodyLeaves, AllLeave, Zenon DEF TaskDies, KeepsQueues
  <2> QED
    BY <1>1, <2>1, <2>2, Zenon
<1>12. ASSUME NEW t \in Threads, WaitSleeps(t)
      PROVE  QueueInv'
  <2> DEFINE w == trap[t].wait
  <2>1. w \in Semas /\ \A s \in Semas : t \notin waitq[s]
    BY <1>12, Zenon DEF WaitSleeps, TrapInv, Names, QueueInv
  <2>2. /\ waitq'[w] = waitq[w] \cup {t} /\ \A s \in Semas : s # w => waitq'[s] = waitq[s]
        /\ wait_result'[t] = "THREAD_WAITING"
        /\ \A u \in Threads : u # t => wait_result'[u] = wait_result[u] /\ trap'[u] = trap[u]
    BY <1>12, <2>1, ZenonT(30) DEF WaitSleeps, Sleeps, Moves, MachTypeOK
  <2>3. /\ trap'[t].wait = w /\ trap'[t].kr = "KERN_ALREADY_WAITING"
        /\ trap'[t].at \in {"signal_internal", "clear_wait", "blocked"}
    BY <1>12, Zenon DEF WaitSleeps, Moves
  <2> HIDE DEF w
  <2>4. ASSUME NEW s \in Semas, NEW u \in waitq'[s]
        PROVE  /\ trap'[u].wait = s /\ trap'[u].kr = "KERN_ALREADY_WAITING"
               /\ trap'[u].at \in {"signal_internal", "clear_wait", "blocked"}
    <3>1. u \in Threads
      BY Zenon DEF MachTypeOK
    <3>2. CASE u = t
      <4>1. s = w
        BY <2>1, <2>2, <3>2, Zenon
      <4> QED
        BY <2>3, <3>2, <4>1, Zenon
    <3>3. CASE u # t
      <4>1. u \in waitq[s]
        BY <2>2, <3>3, Zenon
      <4> QED
        <5>1. trap[u].wait = s /\ trap[u].kr = "KERN_ALREADY_WAITING" /\ Asleep(u)
          BY <4>1, OnQueue, Zenon
        <5> QED
          BY <2>2, <3>1, <3>3, <5>1, Zenon DEF Asleep
    <3> QED
      BY <3>2, <3>3, Zenon
  <2>5. ASSUME NEW u \in Threads, wait_result'[u] = "THREAD_WAITING"
        PROVE  \E s \in Semas : trap'[u].wait = s /\ u \in waitq'[s]
    <3>1. CASE u = t
      BY <2>1, <2>2, <2>3, <3>1, Zenon
    <3>2. CASE u # t
      <4>1. PICK s \in Semas : trap[u].wait = s /\ u \in waitq[s]
        BY <2>2, <2>5, <3>2, Zenon DEF QueueInv
      <4>2. u \in waitq'[s]
        BY <2>2, <4>1, Zenon
      <4> QED
        BY <2>2, <3>2, <4>1, <4>2, Zenon
    <3> QED
      BY <3>1, <3>2, Zenon
  <2> QED
    BY <2>4, <2>5, Zenon DEF QueueInv
<1>13. ASSUME NEW t \in Threads, SignalEnds(t),
             \/ KeepsQueues \/ Posts(trap[t].signal)
             \/ WakesOne(trap[t].signal) \/ WakesAll(trap[t].signal)
      PROVE  QueueInv'
  <2>1. \A W : Undisturbed(W)
    BY <1>13, SignalSteps, Zenon
  <2>2. trap[t].signal \in Semas
    BY <1>13, Zenon DEF SignalEnds, TrapInv, Names
  <2>3. \E W : Leave(W)
    BY <1>13, <2>2, NobodyLeaves, SomeLeave, Zenon
    DEF KeepsQueues, Posts, WakesOne, WakesAll
  <2> QED
    BY <1>1, <2>1, <2>3, Zenon
<1>14. ASSUME NEW t \in Threads, ClearsWait(t)
      PROVE  QueueInv'
  <2>1. trap[t].wait \in Semas
    BY <1>14, Zenon DEF ClearsWait, TrapInv, Names
  <2>2. CASE t \in waitq[trap[t].wait]
    <3>1. Leave({t})
      BY <1>14, <2>1, <2>2, SomeLeave, Zenon DEF ClearsWait, Unblocks
    <3>2. Undisturbed({t})
      <4>1. \A u \in Threads : u # t => trap'[u] = trap[u]
        BY <1>14, Zenon DEF ClearsWait, Moves
      <4> QED
        BY <4>1, OthersWait, Zenon
    <3> QED
      BY <1>1, <3>1, <3>2, Zenon
  <2>3. CASE t \notin waitq[trap[t].wait]
    <3>1. Leave({})
      BY <1>14, <2>3, NobodyLeaves, Zenon DEF ClearsWait, KeepsQueues
    <3>2. \A s \in Semas : t \notin waitq[s]
      BY <2>3, Zenon DEF QueueInv
    <3>3. Undisturbed({})
      <4>1. \A u \in Threads : u # t => trap'[u] = trap[u]
        BY <1>14, Zenon DEF ClearsWait, Moves
      <4> QED
        BY <3>2, <4>1, OthersWait, Zenon
    <3> QED
      BY <1>1, <3>1, <3>3, Zenon
  <2> QED
    BY <2>2, <2>3, Zenon
<1>15. ASSUME NEW t \in Threads, trap' = trap,
             trap[t].wait \in Semas, Unblocks(t, trap[t].wait)
      PROVE  QueueInv'
  <2>1. Undisturbed({t})
    BY <1>15, Zenon DEF QueueInv, Asleep, Undisturbed
  <2>2. Leave({t})
    BY <1>15, SomeLeave, Zenon DEF Unblocks
  <2> QED
    BY <1>1, <2>1, <2>2, Zenon
<1> QED
  BY <1>2, <1>3, <1>4, <1>5, <1>6, <1>7, <1>8, <1>9, <1>10, <1>11, <1>12, <1>13, <1>14,
      <1>15, Zenon
     DEF MachEffect, CallEffect, RefEffect, QueueEffect

-----------------------------------------------------------------------------
\* What a step does to the semaphores, whoever takes it.
Opened(s) ==
  /\ s \notin zone /\ active' = [active EXCEPT ![s] = TRUE] /\ \E n \in Nat : Starts(s, n)
  /\ waitq' = waitq /\ wait_result' = wait_result

SemaChange(s) ==
  \/ Opened(s) \/ Emptied(s) \/ Takes(s) \/ Posts(s) \/ WakesOne(s) \/ WakesAll(s)
  \/ \E t \in Threads : Sleeps(t, s) \/ Unblocks(t, s)

\* A step changes one semaphore, or none.
LEMMA OneSemaphore ==
  ASSUME TrapInv, MachEffect
  PROVE  KeepsQueues \/ \E s \in Semas : SemaChange(s)
<1>1. ASSUME NEW t \in Threads, CallEffect(t)
      PROVE  KeepsQueues
  BY <1>1, Zenon
  DEF CallEffect, Refused, NoName, NoSecond, Continues, WaitCalled, SignalCalled
<1>2. ASSUME NEW t \in Threads, RefEffect(t)
      PROVE  KeepsQueues \/ \E s \in Semas : SemaChange(s)
  BY <1>2, Zenon
  DEF RefEffect, FirstNamed, SecondNamed, Referenced, GivesUpLast, GivesUp, Dropped,
     Created, DestroyCalled, Deallocated, Freed, SemaChange, Opened
<1>3. ASSUME NEW t \in Threads, Destroys(t) \/ WaitSleeps(t) \/ ClearsWait(t) \/ WaitEnds(t)
      PROVE  trap[t].wait \in Semas
  BY <1>3, Zenon DEF Destroys, WaitSleeps, ClearsWait, WaitEnds, TrapInv, Names
<1>4. ASSUME NEW t \in Threads, SignalEnds(t)
      PROVE  trap[t].signal \in Semas
  BY <1>4, Zenon DEF SignalEnds, TrapInv, Names
<1>5. ASSUME NEW t \in Threads, QueueEffect(t)
      PROVE  KeepsQueues \/ \E s \in Semas : SemaChange(s)
  <2>1. CASE Destroys(t)
    BY <1>3, <2>1, Zenon DEF Destroys, SemaChange
  <2>2. CASE WaitSleeps(t)
    BY <1>3, <2>2, Zenon DEF WaitSleeps, SemaChange
  <2>3. CASE ClearsWait(t)
    BY <1>3, <2>3, Zenon DEF ClearsWait, SemaChange
  <2>4. CASE WaitEnds(t) /\ (KeepsQueues \/ Takes(trap[t].wait))
    BY <1>3, <2>4, Zenon DEF SemaChange
  <2>5. CASE /\ SignalEnds(t)
             /\ \/ KeepsQueues \/ Posts(trap[t].signal)
                \/ WakesOne(trap[t].signal) \/ WakesAll(trap[t].signal)
    BY <1>4, <2>5, Zenon DEF SemaChange
  <2>6. CASE trap[t].wait \in Semas /\ Unblocks(t, trap[t].wait)
    BY <2>6, Zenon DEF SemaChange
  <2> QED
    BY <1>5, <2>1, <2>2, <2>3, <2>4, <2>5, <2>6, Zenon DEF QueueEffect
<1> QED
  BY <1>1, <1>2, <1>5, Zenon DEF MachEffect, TaskDies, SemaChange

\* The count of one semaphore changes.
LEMMA OneCount ==
  ASSUME CountInv, NEW s \in Semas,
         \A x \in Semas : x # s => /\ waitq'[x] = waitq[x] /\ count'[x] = count[x]
                                   /\ active'[x] = active[x],
         waitq'[s] # {} => count'[s] < 0, ~active'[s] => count'[s] = 0
  PROVE  CountInv'
<1>1. ASSUME NEW x \in Semas, x # s
      PROVE  (waitq'[x] # {} => count'[x] < 0) /\ (~active'[x] => count'[x] = 0)
  BY <1>1, Zenon DEF CountInv
<1> QED
  BY <1>1, Zenon DEF CountInv

\* A semaphore that threads sleep on keeps its mark, and a dead one its zero.
LEMMA CountStep ==
  ASSUME MachTypeOK, CountInv, ReferencesExact, TrapInv, MachEffect
  PROVE  CountInv'
<1>1. CASE KeepsQueues
  BY <1>1, Zenon DEF KeepsQueues, CountInv
<1>2. ASSUME NEW s \in Semas, SemaChange(s)
      PROVE  CountInv'
  <2>1. \A x \in Semas : x # s => /\ waitq'[x] = waitq[x] /\ count'[x] = count[x]
                                  /\ active'[x] = active[x]
    BY <1>2, Zenon
    DEF SemaChange, Opened, Starts, Emptied, Takes, Posts, WakesOne, WakesAll, Wakens,
       Sleeps, Unblocks, MachTypeOK
  <2>2. count[s] \in Int /\ (waitq[s] # {} => count[s] < 0) /\ (~active[s] => count[s] = 0)
    BY Zenon DEF MachTypeOK, CountInv
  <2>3. CASE Opened(s)
    <3>1. ~active[s] /\ waitq'[s] = waitq[s] /\ active'[s]
      BY <2>3, Zenon DEF Opened, ReferencesExact, MachTypeOK
    <3>2. ~(count[s] < 0)
      BY <2>2, <3>1, SMT
    <3> QED
      BY <2>1, <2>2, <3>1, <3>2, OneCount, Zenon
  <2>4. CASE Emptied(s)
    <3>1. waitq'[s] = {} /\ count'[s] = 0
      BY <2>4, Zenon DEF Emptied, MachTypeOK
    <3> QED
      BY <2>1, <3>1, OneCount, Zenon
  <2>5. CASE Takes(s)
    <3>1. waitq'[s] = waitq[s] /\ active'[s] = active[s] /\ active[s] /\ count[s] > 0
      BY <2>5, Zenon DEF Takes
    <3>2. ~(count[s] < 0)
      BY <2>2, <3>1, SMT
    <3> QED
      BY <2>1, <2>2, <3>1, <3>2, OneCount, Zenon
  <2>6. CASE Posts(s)
    <3>1. waitq'[s] = {} /\ active'[s]
      BY <2>6, Zenon DEF Posts
    <3> QED
      BY <2>1, <3>1, OneCount, Zenon
  <2>7. CASE WakesOne(s) \/ \E t \in Threads : Unblocks(t, s)
    <3>1. PICK W, r : count' = count /\ Wakens(s, W, r)
      BY <2>7, Zenon DEF WakesOne, Unblocks
    <3>2. active'[s] = active[s] /\ count'[s] = count[s] /\ waitq[s] # {}
      BY <3>1, Zenon DEF Wakens
    <3> QED
      BY <2>1, <2>2, <3>2, OneCount, Zenon
  <2>8. CASE WakesAll(s)
    <3>1. waitq'[s] = {} /\ active'[s]
      BY <2>8, Zenon DEF WakesAll, Wakens, MachTypeOK
    <3> QED
      BY <2>1, <3>1, OneCount, Zenon
  <2>9. ASSUME NEW t \in Threads, Sleeps(t, s)
        PROVE  CountInv'
    <3>1. count'[s] = -1 /\ active'[s]
      BY <2>9, Zenon DEF Sleeps, MachTypeOK
    <3>2. count'[s] < 0
      BY <3>1, SMT
    <3> QED
      BY <2>1, <3>1, <3>2, OneCount, Zenon
  <2> QED
    BY <1>2, <2>3, <2>4, <2>5, <2>6, <2>7, <2>8, <2>9, Zenon DEF SemaChange
<1> QED
  BY <1>1, <1>2, OneSemaphore, Zenon

-----------------------------------------------------------------------------
\* What the accounting below needs of Cardinality; it is proved of every
\* finite set of threads before the theorems.
Counting ==
  /\ Cardinality({}) = 0
  /\ \A A \in SUBSET Threads :
       /\ Cardinality(A) \in Nat
       /\ A # {} => Cardinality(A) # 0
       /\ \A t \in Threads : t \notin A => Cardinality(A \cup {t}) = Cardinality(A) + 1

\* The calls that hold a semaphore in each of the three ways, and how many
\* of its references one call holds.
One(b) == IF b THEN 1 ELSE 0

Waits(s) == {t \in Threads : HeldAsWait(t, s)}
Signals(s) == {t \in Threads : HeldAsSignal(t, s)}
Ports(s) == {t \in Threads : HeldForPort(t, s)}

Held(t, s) == One(HeldAsWait(t, s)) + One(HeldAsSignal(t, s)) + One(HeldForPort(t, s))

\* The two parts of ReferencesExact: the counts, and what is allocated.
Exact == \A s \in Semas : ref_count[s] = References(s)

Reach == /\ \A s \in Semas : ref_count[s] > 0 \/ active[s] => s \in zone
         /\ \A t \in Threads : trap[t].freeing # NoSema => trap[t].freeing \in zone

\* A set of threads that gains or loses at most t.
LEMMA OneMember ==
  ASSUME Counting, NEW A \in SUBSET Threads, NEW B \in SUBSET Threads, NEW t \in Threads,
         \A u \in Threads : u # t => (u \in A <=> u \in B)
  PROVE  /\ Cardinality(A) \in Nat /\ Cardinality(B) \in Nat
         /\ Cardinality(B) = Cardinality(A) + One(t \in B) - One(t \in A)
<1>1. Cardinality(A) \in Nat /\ Cardinality(B) \in Nat
  BY Zenon DEF Counting
<1>2. CASE t \in A <=> t \in B
  <2>1. \A u \in Threads : u \in A <=> u \in B
    BY <1>2, Zenon
  <2>2. A = B
    BY <2>1, SMT
  <2> QED
    BY <1>1, <1>2, <2>2, SMT DEF One
<1>3. CASE t \in B /\ t \notin A
  <2>1. B = A \cup {t}
    BY <1>3, Zenon
  <2>2. Cardinality(B) = Cardinality(A) + 1
    BY <1>3, <2>1, Zenon DEF Counting
  <2> QED
    BY <1>1, <1>3, <2>2, SMT DEF One
<1>4. CASE t \in A /\ t \notin B
  <2>1. A = B \cup {t}
    BY <1>4, Zenon
  <2>2. Cardinality(A) = Cardinality(B) + 1
    BY <1>4, <2>1, Zenon DEF Counting
  <2> QED
    BY <1>1, <1>4, <2>2, SMT DEF One
<1> QED
  BY <1>1, <1>2, <1>3, <1>4, Zenon

\* The references of the others stay.
LEMMA OthersHold ==
  ASSUME NEW t \in Threads, \A u \in Threads : u # t => trap'[u] = trap[u], NEW s
  PROVE  \A u \in Threads : u # t => /\ HeldAsWait(u, s)' <=> HeldAsWait(u, s)
                                     /\ HeldAsSignal(u, s)' <=> HeldAsSignal(u, s)
                                     /\ HeldForPort(u, s)' <=> HeldForPort(u, s)
BY Zenon DEF HeldAsWait, HeldAsSignal, HeldForPort, InTrap

\* How a step of t changes what a semaphore's count should be.
LEMMA Account ==
  ASSUME Counting, NEW t \in Threads, NEW s \in Semas,
         \A u \in Threads : u # t => trap'[u] = trap[u]
  PROVE  /\ References(s) \in Nat
         /\ References(s)' = References(s) + Held(t, s)' - Held(t, s)
                               + One(srights'[s]) - One(srights[s])
<1>1. /\ Cardinality(Waits(s)) \in Nat /\ Cardinality(Waits(s)') \in Nat
      /\ Cardinality(Waits(s)') = Cardinality(Waits(s))
                                    + One(t \in Waits(s)') - One(t \in Waits(s))
  BY OthersHold, OneMember, Zenon DEF Waits
<1>2. /\ Cardinality(Signals(s)) \in Nat /\ Cardinality(Signals(s)') \in Nat
      /\ Cardinality(Signals(s)') = Cardinality(Signals(s))
                                      + One(t \in Signals(s)') - One(t \in Signals(s))
  BY OthersHold, OneMember, Zenon DEF Signals
<1>3. /\ Cardinality(Ports(s)) \in Nat /\ Cardinality(Ports(s)') \in Nat
      /\ Cardinality(Ports(s)') = Cardinality(Ports(s))
                                    + One(t \in Ports(s)') - One(t \in Ports(s))
  BY OthersHold, OneMember, Zenon DEF Ports
<1> DEFINE a == One(HeldAsWait(t, s))     a1 == One(HeldAsWait(t, s)')
           b == One(HeldAsSignal(t, s))   b1 == One(HeldAsSignal(t, s)')
           c == One(HeldForPort(t, s))    c1 == One(HeldForPort(t, s)')
           r == One(srights[s])           r1 == One(srights'[s])
<1>4. /\ One(t \in Waits(s)) = a /\ One(t \in Waits(s)') = a1
      /\ One(t \in Signals(s)) = b /\ One(t \in Signals(s)') = b1
      /\ One(t \in Ports(s)) = c /\ One(t \in Ports(s)') = c1
  BY Zenon DEF Waits, Signals, Ports, One
<1>5. /\ References(s) = Cardinality(Waits(s)) + Cardinality(Signals(s)) + Cardinality(Ports(s)) + r
      /\ References(s)' = Cardinality(Waits(s)') + Cardinality(Signals(s)')
                            + Cardinality(Ports(s)') + r1
  BY Zenon DEF References, Waits, Signals, Ports, One
<1>6. \A p : One(p) \in Nat
  BY SMT DEF One
<1>7. /\ a \in Nat /\ a1 \in Nat /\ b \in Nat /\ b1 \in Nat /\ c \in Nat /\ c1 \in Nat
      /\ r \in Nat /\ r1 \in Nat
  BY <1>6, Zenon
<1>8. Held(t, s) = a + b + c /\ Held(t, s)' = a1 + b1 + c1
  BY Zenon DEF Held
<1> DEFINE w == Cardinality(Waits(s))     w1 == Cardinality(Waits(s)')
           g == Cardinality(Signals(s))   g1 == Cardinality(Signals(s)')
           p == Cardinality(Ports(s))     p1 == Cardinality(Ports(s)')
<1>9. /\ w \in Nat /\ g \in Nat /\ p \in Nat
      /\ w1 = w + a1 - a /\ g1 = g + b1 - b /\ p1 = p + c1 - c
      /\ References(s) = w + g + p + r /\ References(s)' = w1 + g1 + p1 + r1
  BY <1>1, <1>2, <1>3, <1>4, <1>5, Zenon
<1>10. References(s)' = References(s) + Held(t, s)' - Held(t, s) + r1 - r
  <2> HIDE DEF a, a1, b, b1, c, c1, r, r1, w, w1, g, g1, p, p1
  <2> QED
    BY <1>7, <1>8, <1>9, SMT
<1>11. References(s) \in Nat
  <2> HIDE DEF a, a1, b, b1, c, c1, r, r1, w, w1, g, g1, p, p1
  <2> QED
    BY <1>7, <1>9, SMT
<1> QED
  BY <1>10, <1>11, Zenon

\* A call keeps what it holds.
Keeps(t, s) == /\ HeldAsWait(t, s)' <=> HeldAsWait(t, s)
               /\ HeldAsSignal(t, s)' <=> HeldAsSignal(t, s)
               /\ HeldForPort(t, s)' <=> HeldForPort(t, s)

\* Then it holds as many references.
LEMMA KeepsHeld ==
  ASSUME NEW t, NEW s, Keeps(t, s)
  PROVE  Held(t, s)' = Held(t, s)
BY Zenon DEF Keeps, Held, One

\* It holds one more.
LEMMA TakesOne ==
  ASSUME NEW t, NEW s,
         \/ /\ HeldAsWait(t, s)' /\ ~HeldAsWait(t, s)
            /\ HeldAsSignal(t, s)' <=> HeldAsSignal(t, s)
            /\ HeldForPort(t, s)' <=> HeldForPort(t, s)
         \/ /\ HeldAsSignal(t, s)' /\ ~HeldAsSignal(t, s)
            /\ HeldAsWait(t, s)' <=> HeldAsWait(t, s)
            /\ HeldForPort(t, s)' <=> HeldForPort(t, s)
         \/ /\ HeldForPort(t, s)' /\ ~HeldForPort(t, s)
            /\ HeldAsWait(t, s)' <=> HeldAsWait(t, s)
            /\ HeldAsSignal(t, s)' <=> HeldAsSignal(t, s)
  PROVE  Held(t, s)' = Held(t, s) + 1
<1> DEFINE a == One(HeldAsWait(t, s))     a1 == One(HeldAsWait(t, s)')
           b == One(HeldAsSignal(t, s))   b1 == One(HeldAsSignal(t, s)')
           c == One(HeldForPort(t, s))    c1 == One(HeldForPort(t, s)')
<1>1. /\ a \in {0, 1} /\ b \in {0, 1} /\ c \in {0, 1}
      /\ Held(t, s) = a + b + c /\ Held(t, s)' = a1 + b1 + c1
  BY Zenon DEF One, Held
<1>2. \/ a1 = 1 /\ a = 0 /\ b1 = b /\ c1 = c
      \/ b1 = 1 /\ b = 0 /\ a1 = a /\ c1 = c
      \/ c1 = 1 /\ c = 0 /\ a1 = a /\ b1 = b
  BY Zenon DEF One
<1> HIDE DEF a, a1, b, b1, c, c1
<1>3. CASE a1 = 1 /\ a = 0 /\ b1 = b /\ c1 = c
  BY <1>1, <1>3, SMT
<1>4. CASE b1 = 1 /\ b = 0 /\ a1 = a /\ c1 = c
  BY <1>1, <1>4, SMT
<1>5. CASE c1 = 1 /\ c = 0 /\ a1 = a /\ b1 = b
  BY <1>1, <1>5, SMT
<1> QED
  BY <1>2, <1>3, <1>4, <1>5, Zenon

\* It holds one less.
LEMMA GivesOne ==
  ASSUME NEW t, NEW s,
         \/ /\ HeldAsWait(t, s) /\ ~HeldAsWait(t, s)'
            /\ HeldAsSignal(t, s)' <=> HeldAsSignal(t, s)
            /\ HeldForPort(t, s)' <=> HeldForPort(t, s)
         \/ /\ HeldAsSignal(t, s) /\ ~HeldAsSignal(t, s)'
            /\ HeldAsWait(t, s)' <=> HeldAsWait(t, s)
            /\ HeldForPort(t, s)' <=> HeldForPort(t, s)
         \/ /\ HeldForPort(t, s) /\ ~HeldForPort(t, s)'
            /\ HeldAsWait(t, s)' <=> HeldAsWait(t, s)
            /\ HeldAsSignal(t, s)' <=> HeldAsSignal(t, s)
  PROVE  Held(t, s) = Held(t, s)' + 1
<1> DEFINE a == One(HeldAsWait(t, s))     a1 == One(HeldAsWait(t, s)')
           b == One(HeldAsSignal(t, s))   b1 == One(HeldAsSignal(t, s)')
           c == One(HeldForPort(t, s))    c1 == One(HeldForPort(t, s)')
<1>1. /\ a \in {0, 1} /\ b \in {0, 1} /\ c \in {0, 1}
      /\ Held(t, s) = a + b + c /\ Held(t, s)' = a1 + b1 + c1
  BY Zenon DEF One, Held
<1>2. \/ a1 = 0 /\ a = 1 /\ b1 = b /\ c1 = c
      \/ b1 = 0 /\ b = 1 /\ a1 = a /\ c1 = c
      \/ c1 = 0 /\ c = 1 /\ a1 = a /\ b1 = b
  BY Zenon DEF One
<1> HIDE DEF a, a1, b, b1, c, c1
<1>3. CASE a1 = 0 /\ a = 1 /\ b1 = b /\ c1 = c
  BY <1>1, <1>3, SMT
<1>4. CASE b1 = 0 /\ b = 1 /\ a1 = a /\ c1 = c
  BY <1>1, <1>4, SMT
<1>5. CASE c1 = 0 /\ c = 1 /\ a1 = a /\ b1 = b
  BY <1>1, <1>5, SMT
<1> QED
  BY <1>2, <1>3, <1>4, <1>5, Zenon

\* The ways in which a count stays exact.
Balances(t, s) ==
  \/ /\ Held(t, s)' = Held(t, s) /\ srights'[s] = srights[s] /\ ref_count'[s] = ref_count[s]
  \/ /\ Held(t, s)' = Held(t, s) + 1 /\ srights'[s] = srights[s]
     /\ ref_count'[s] = ref_count[s] + 1
  \/ /\ Held(t, s) = Held(t, s)' + 1 /\ srights'[s] = srights[s]
     /\ ref_count'[s] = ref_count[s] - 1
  \/ /\ Held(t, s)' = Held(t, s) + 1 /\ srights[s] /\ ~srights'[s]
     /\ ref_count'[s] = ref_count[s]
  \/ /\ Held(t, s)' = Held(t, s) + 2 /\ srights[s] /\ ~srights'[s]
     /\ ref_count'[s] = ref_count[s] + 1
  \/ /\ Held(t, s)' = Held(t, s) /\ ~srights[s] /\ srights'[s]
     /\ ref_count'[s] = ref_count[s] + 1

\* A step of t keeps a count exact.
LEMMA Balance ==
  ASSUME Counting, Exact, NEW t \in Threads, \A u \in Threads : u # t => trap'[u] = trap[u],
         NEW s \in Semas, Balances(t, s)
  PROVE  ref_count'[s] = References(s)'
<1> DEFINE r == One(srights[s])
           r1 == One(srights'[s])
           h == Held(t, s)
           h1 == Held(t, s)'
           m == References(s)
           m1 == References(s)'
           n == ref_count[s]
           n1 == ref_count'[s]
<1>1. m \in Nat /\ m1 = m + h1 - h + r1 - r /\ n = m
  BY Account, Zenon DEF Exact
<1>2. \A b : One(b) \in Nat
  BY SMT DEF One
<1>3. \A x, y, z \in Nat : x + y + z \in Nat
  BY SMT
<1>4. r \in Nat /\ r1 \in Nat /\ h \in Nat /\ h1 \in Nat
  BY <1>2, <1>3, Zenon DEF Held
<1>5. \/ h1 = h /\ r1 = r /\ n1 = n
      \/ h1 = h + 1 /\ r1 = r /\ n1 = n + 1
      \/ h = h1 + 1 /\ r1 = r /\ n1 = n - 1
      \/ h1 = h + 1 /\ r = 1 /\ r1 = 0 /\ n1 = n
      \/ h1 = h + 2 /\ r = 1 /\ r1 = 0 /\ n1 = n + 1
      \/ h1 = h /\ r = 0 /\ r1 = 1 /\ n1 = n + 1
  BY Zenon DEF Balances, One
<1>6. n1 = m1
  <2> HIDE DEF r, r1, h, h1, m, m1, n, n1
  <2>1. CASE h1 = h /\ r1 = r /\ n1 = n
    BY <1>1, <1>4, <2>1, SMT
  <2>2. CASE h1 = h + 1 /\ r1 = r /\ n1 = n + 1
    BY <1>1, <1>4, <2>2, SMT
  <2>3. CASE h = h1 + 1 /\ r1 = r /\ n1 = n - 1
    BY <1>1, <1>4, <2>3, SMT
  <2>4. CASE h1 = h + 1 /\ r = 1 /\ r1 = 0 /\ n1 = n
    BY <1>1, <1>4, <2>4, SMT
  <2>5. CASE h1 = h + 2 /\ r = 1 /\ r1 = 0 /\ n1 = n + 1
    BY <1>1, <1>4, <2>5, SMT
  <2>6. CASE h1 = h /\ r = 0 /\ r1 = 1 /\ n1 = n + 1
    BY <1>1, <1>4, <2>6, SMT
  <2> QED
    BY <1>5, <2>1, <2>2, <2>3, <2>4, <2>5, <2>6, Zenon
<1> QED
  BY <1>6, Zenon

\* A semaphore that a right or a call holds has references.
LEMMA Positive ==
  ASSUME Counting, MachTypeOK, Exact, NEW s \in Semas, NEW t \in Threads,
         srights[s] \/ HeldAsWait(t, s) \/ HeldAsSignal(t, s) \/ HeldForPort(t, s)
  PROVE  ref_count[s] > 0
<1> DEFINE w == Cardinality(Waits(s))
           g == Cardinality(Signals(s))
           p == Cardinality(Ports(s))
           r == One(srights[s])
<1>1. \A A \in SUBSET Threads : Cardinality(A) \in Nat /\ (A # {} => Cardinality(A) # 0)
  BY Zenon DEF Counting
<1>2. w \in Nat /\ g \in Nat /\ p \in Nat /\ r \in {0, 1}
  BY <1>1, Zenon DEF Waits, Signals, Ports, One
<1>3. w # 0 \/ g # 0 \/ p # 0 \/ r = 1
  <2>1. CASE srights[s]
    BY <2>1, Zenon DEF One
  <2>2. CASE HeldAsWait(t, s)
    BY <1>1, <2>2, Zenon DEF Waits
  <2>3. CASE HeldAsSignal(t, s)
    BY <1>1, <2>3, Zenon DEF Signals
  <2>4. CASE HeldForPort(t, s)
    BY <1>1, <2>4, Zenon DEF Ports
  <2> QED
    BY <2>1, <2>2, <2>3, <2>4, Zenon
<1>4. ref_count[s] = w + g + p + r
  BY Zenon DEF Exact, References, Waits, Signals, Ports, One
<1> HIDE DEF w, g, p, r
<1> QED
  BY <1>2, <1>3, <1>4, SMT

\* What is being freed, and what is allocated, when no count changes.
LEMMA SameCounts ==
  ASSUME FreeInv, Reach, ref_count' = ref_count, zone' = zone,
         \A s \in Semas : active'[s] => active[s],
         \A u \in Threads : trap'[u].freeing \in {NoSema, trap[u].freeing}
  PROVE  FreeInv' /\ Reach'
<1>1. \A u \in Threads : trap'[u].freeing # NoSema => trap'[u].freeing = trap[u].freeing
  BY Zenon
<1>2. FreeInv'
  BY <1>1, ZenonT(30) DEF FreeInv
<1>3. Reach'
  BY <1>1, Zenon DEF Reach
<1> QED
  BY <1>2, <1>3, Zenon

\* The same, when the count of a semaphore that has references changes.
LEMMA OneCountChanges ==
  ASSUME MachTypeOK, FreeInv, Reach, NEW s \in Semas, ref_count[s] > 0,
         \A x \in Semas : x # s => ref_count'[x] = ref_count[x], zone' = zone,
         \A x \in Semas : active'[x] => active[x],
         \A u \in Threads : trap'[u].freeing \in {NoSema, trap[u].freeing}
  PROVE  FreeInv' /\ Reach'
<1>1. \A u \in Threads : trap'[u].freeing # NoSema => trap'[u].freeing = trap[u].freeing
  BY Zenon
<1>2. ref_count[s] # 0
  BY SMT DEF MachTypeOK
<1>3. ASSUME NEW u \in Threads, trap'[u].freeing # NoSema
      PROVE  ref_count'[trap'[u].freeing] = 0
  <2>1. trap'[u].freeing = trap[u].freeing /\ ref_count[trap[u].freeing] = 0
    BY <1>1, <1>3, Zenon DEF FreeInv
  <2>2. trap[u].freeing \in Semas
    BY <1>3, <2>1, Zenon DEF Reach, MachTypeOK
  <2> QED
    BY <1>2, <2>1, <2>2, Zenon
<1>4. FreeInv'
  BY <1>1, <1>3, ZenonT(30) DEF FreeInv
<1>5. s \in zone
  BY Zenon DEF Reach
<1>6. Reach'
  BY <1>1, <1>5, Zenon DEF Reach
<1> QED
  BY <1>4, <1>6, Zenon

\* The steps that neither take nor give a reference.
Neutral(t) ==
  \/ Refused(t) \/ NoName(t) \/ NoSecond(t) \/ Continues(t)
  \/ Destroys(t) \/ WaitSleeps(t) \/ WaitEnds(t) \/ SignalEnds(t) \/ ClearsWait(t)
  \/ \E w \in Semas, opt \in Timeouts : WaitCalled(t, w, opt)
  \/ \E s \in Semas, w \in Semas \cup {NoSema}, opt \in Timeouts \cup Signallers :
       SignalCalled(t, w, s, opt)

\* A call that holds nothing before and after.
LEMMA HoldsNothing ==
  ASSUME NEW t \in Threads, NEW x \in Semas,
         \/ trap[t].at \in {"user", "signal_name"}
         \/ trap[t].at = "wait_name" /\ trap[t].signal = NoSema,
         \/ trap'[t].at \in {"user", "signal_name"}
         \/ trap'[t].at = "wait_name" /\ trap'[t].signal = NoSema
  PROVE  Keeps(t, x)
<1>1. ~HeldAsWait(t, x) /\ ~HeldAsSignal(t, x) /\ ~HeldForPort(t, x)
  BY SemasAssumption, Zenon DEF HeldAsWait, HeldAsSignal, HeldForPort, InTrap
<1>2. ~HeldAsWait(t, x)' /\ ~HeldAsSignal(t, x)' /\ ~HeldForPort(t, x)'
  BY SemasAssumption, Zenon DEF HeldAsWait, HeldAsSignal, HeldForPort, InTrap
<1> QED
  BY <1>1, <1>2, Zenon DEF Keeps

\* They keep what their thread holds.
LEMMA NeutralHolds ==
  ASSUME TrapInv, NEW t \in Threads, Neutral(t), NEW x \in Semas
  PROVE  Keeps(t, x)
<1> USE SemasAssumption
<1>1. Names(t)
  BY Zenon DEF TrapInv
<1>2. CASE Refused(t) \/ NoName(t)
  BY <1>2, HoldsNothing, Zenon DEF Refused, NoName, Returns, Calls
<1>3. ASSUME NEW w \in Semas, NEW opt \in Timeouts, WaitCalled(t, w, opt)
      PROVE  Keeps(t, x)
  BY <1>3, HoldsNothing, Zenon DEF WaitCalled, Calls
<1>4. ASSUME NEW s \in Semas, NEW w \in Semas \cup {NoSema}, NEW opt \in Timeouts \cup Signallers,
             SignalCalled(t, w, s, opt)
      PROVE  Keeps(t, x)
  BY <1>4, HoldsNothing, Zenon DEF SignalCalled, Calls
<1>5. CASE NoSecond(t)
  BY <1>1, <1>5, Zenon
  DEF NoSecond, Moves, Names, Keeps, HeldAsWait, HeldAsSignal, HeldForPort, InTrap
<1>6. CASE Continues(t)
  BY <1>1, <1>6, Zenon
  DEF Continues, Moves, Names, Keeps, HeldAsWait, HeldAsSignal, HeldForPort, InTrap
<1>7. CASE Destroys(t)
  BY <1>1, <1>7, Zenon
  DEF Destroys, Moves, Names, Keeps, HeldAsWait, HeldAsSignal, HeldForPort, InTrap
<1>8. CASE WaitSleeps(t)
  BY <1>1, <1>8, Zenon
  DEF WaitSleeps, Moves, Names, Keeps, HeldAsWait, HeldAsSignal, HeldForPort, InTrap
<1>9. CASE WaitEnds(t)
  BY <1>1, <1>9, Zenon
  DEF WaitEnds, Moves, Names, Keeps, HeldAsWait, HeldAsSignal, HeldForPort, InTrap
<1>10. CASE SignalEnds(t)
  BY <1>1, <1>10, Zenon
  DEF SignalEnds, Moves, Names, Keeps, HeldAsWait, HeldAsSignal, HeldForPort, InTrap
<1>11. CASE ClearsWait(t)
  BY <1>1, <1>11, Zenon
  DEF ClearsWait, Moves, Names, Keeps, HeldAsWait, HeldAsSignal, HeldForPort, InTrap
<1> QED
  BY <1>2, <1>3, <1>4, <1>5, <1>6, <1>7, <1>8, <1>9, <1>10, <1>11, ZenonT(30) DEF Neutral

\* What a call holds after the semaphore it gives back.
Remains(t, x) ==
  /\ ~HeldAsWait(t, x)'
  /\ HeldAsSignal(t, x)' <=> trap[t].at = "deref_wait" /\ trap[t].signal = x
  /\ HeldForPort(t, x)' <=> trap[t].at = "deref_wait" /\ trap[t].wait = x /\ trap[t].opt = "none"

\* A call that goes on after semaphore_dereference keeps its other references.
LEMMA AfterHolds ==
  ASSUME TrapInv, NEW t \in Threads, NEW x \in Semas,
         trap[t].at \in {"deref_wait", "deref_signal", "notify"}, Follows(t)
  PROVE  Remains(t, x)
<1> USE SemasAssumption
<1>1. Names(t)
  BY Zenon DEF TrapInv
<1>2. CASE /\ trap[t].at = "deref_wait" /\ trap[t].signal # NoSema
           /\ Moves(t, "deref_signal", trap[t].kr, NoSema)
  BY <1>1, <1>2, Zenon
  DEF Names, Moves, Remains, HeldAsWait, HeldAsSignal, HeldForPort, InTrap
<1>3. CASE /\ trap[t].at = "deref_wait" /\ trap[t].signal = NoSema /\ trap[t].opt = "none"
           /\ Moves(t, "notify", trap[t].kr, NoSema)
  BY <1>3, Zenon DEF Moves, Remains, HeldAsWait, HeldAsSignal, HeldForPort, InTrap
<1>4. CASE /\ \/ trap[t].at \in {"deref_signal", "notify"}
              \/ trap[t].signal = NoSema /\ trap[t].opt # "none"
           /\ Returns(t)
  BY <1>4, Zenon DEF Returns, Calls, Remains, HeldAsWait, HeldAsSignal, HeldForPort, InTrap
<1> QED
  BY <1>2, <1>3, <1>4, Zenon DEF Follows

\* So does one that has dropped the last reference and has yet to free.
LEMMA LastHolds ==
  ASSUME TrapInv, NEW t \in Threads, NEW x \in Semas, NEW d \in Semas,
         trap[t].at \in {"deref_wait", "deref_signal", "notify"},
         Moves(t, trap[t].at, trap[t].kr, d)
  PROVE  Remains(t, x)
BY SemasAssumption, Zenon DEF Moves, Remains, HeldAsWait, HeldAsSignal, HeldForPort, InTrap

\* The semaphore that a call gives back, and the one whose name it looks up.
Gives(t, d) == d = Dereferenced(t)

Looks(t, d) == d = IF trap[t].at = "signal_name" THEN trap[t].signal ELSE trap[t].wait

\* The semaphore a call gives back is one it holds, and the only one of
\* which it has a reference less afterwards.
LEMMA GivesBack ==
  ASSUME TrapInv, NEW t \in Threads, Dereferences(t), \A x \in Semas : Remains(t, x),
         NEW d, Gives(t, d)
  PROVE  /\ d \in Semas
         /\ HeldAsWait(t, d) \/ HeldAsSignal(t, d) \/ HeldForPort(t, d)
         /\ Held(t, d) = Held(t, d)' + 1
         /\ \A x \in Semas : x # d => Keeps(t, x)
<1> USE SemasAssumption
<1>1. Names(t)
  BY Zenon DEF TrapInv
<1>2. CASE InTrap(t, "deref_wait")
  <2>1. d = trap[t].wait /\ d \in Semas
    BY <1>1, <1>2, Zenon DEF Names, InTrap, Gives, Dereferenced
  <2>2. /\ HeldAsWait(t, d) /\ ~HeldAsWait(t, d)'
        /\ HeldAsSignal(t, d)' <=> HeldAsSignal(t, d)
        /\ HeldForPort(t, d)' <=> HeldForPort(t, d)
    BY <1>2, <2>1, Zenon DEF InTrap, Remains, HeldAsWait, HeldAsSignal, HeldForPort
  <2>3. \A x \in Semas : x # d => Keeps(t, x)
    BY <1>2, <2>1, Zenon DEF InTrap, Remains, Keeps, HeldAsWait, HeldAsSignal, HeldForPort
  <2> QED
    BY <2>1, <2>2, <2>3, GivesOne, Zenon
<1>3. CASE InTrap(t, "deref_signal")
  <2>1. d = trap[t].signal /\ d \in Semas
    BY <1>1, <1>3, Zenon DEF Names, InTrap, Gives, Dereferenced
  <2>2. /\ HeldAsSignal(t, d) /\ ~HeldAsSignal(t, d)'
        /\ HeldAsWait(t, d)' <=> HeldAsWait(t, d)
        /\ HeldForPort(t, d)' <=> HeldForPort(t, d)
    BY <1>3, <2>1, Zenon DEF InTrap, Remains, HeldAsWait, HeldAsSignal, HeldForPort
  <2>3. \A x \in Semas : x # d => Keeps(t, x)
    BY <1>3, <2>1, Zenon DEF InTrap, Remains, Keeps, HeldAsWait, HeldAsSignal, HeldForPort
  <2> QED
    BY <2>1, <2>2, <2>3, GivesOne, Zenon
<1>4. CASE InTrap(t, "notify")
  <2>1. d = trap[t].wait /\ d \in Semas /\ trap[t].opt = "none"
    BY <1>1, <1>4, Zenon DEF Names, InTrap, Gives, Dereferenced
  <2>2. /\ HeldForPort(t, d) /\ ~HeldForPort(t, d)'
        /\ HeldAsWait(t, d)' <=> HeldAsWait(t, d)
        /\ HeldAsSignal(t, d)' <=> HeldAsSignal(t, d)
    BY <1>4, <2>1, Zenon DEF InTrap, Remains, HeldAsWait, HeldAsSignal, HeldForPort
  <2>3. \A x \in Semas : x # d => Keeps(t, x)
    BY <1>4, <2>1, Zenon DEF InTrap, Remains, Keeps, HeldAsWait, HeldAsSignal, HeldForPort
  <2> QED
    BY <2>1, <2>2, <2>3, GivesOne, Zenon
<1> QED
  BY <1>2, <1>3, <1>4, Zenon DEF Dereferences

\* A call that has dropped the last reference of a semaphore does not hold
\* that reference any more.
LEMMA FreeingHolds ==
  ASSUME TrapInv, NEW t \in Threads, trap[t].freeing # NoSema, Follows(t), NEW x \in Semas
  PROVE  Keeps(t, x)
<1>1. trap[t].at \in {"deref_wait", "deref_signal", "notify"}
  BY Zenon DEF TrapInv, Frees
<1>2. Remains(t, x)
  BY <1>1, AfterHolds, Zenon
<1> QED
  BY <1>1, <1>2, Zenon DEF Remains, Keeps, HeldAsWait, HeldAsSignal, HeldForPort, InTrap

\* A name that is looked up gives its call one reference.
LEMMA NamedHolds ==
  ASSUME TrapInv, NEW t \in Threads, FirstNamed(t) \/ SecondNamed(t), NEW d, Looks(t, d)
  PROVE  /\ d \in Semas /\ Referenced(d)
         /\ Held(t, d)' = Held(t, d) + 1
         /\ \A x \in Semas : x # d => Keeps(t, x)
<1> USE SemasAssumption
<1>1. Names(t)
  BY Zenon DEF TrapInv
<1>2. CASE FirstNamed(t)
  <2>1. d = trap[t].signal /\ d \in Semas /\ Referenced(d)
    BY <1>1, <1>2, Zenon DEF FirstNamed, Names, Looks
  <2>2. /\ HeldAsSignal(t, d)' /\ ~HeldAsSignal(t, d)
        /\ HeldAsWait(t, d)' <=> HeldAsWait(t, d)
        /\ HeldForPort(t, d)' <=> HeldForPort(t, d)
    BY <1>2, <2>1, Zenon
    DEF FirstNamed, Moves, HeldAsWait, HeldAsSignal, HeldForPort, InTrap
  <2>3. ASSUME NEW x \in Semas, x # d
        PROVE  Keeps(t, x)
    <3>1. ~HeldAsWait(t, x) /\ ~HeldAsSignal(t, x) /\ ~HeldForPort(t, x)
      BY <1>2, Zenon DEF FirstNamed, HeldAsWait, HeldAsSignal, HeldForPort, InTrap
    <3>2. trap'[t].signal # x
      BY <1>2, <2>1, <2>3, Zenon DEF FirstNamed, Moves
    <3>3. ~HeldAsWait(t, x)' /\ ~HeldAsSignal(t, x)' /\ ~HeldForPort(t, x)'
      BY <1>2, <3>2, Zenon
      DEF FirstNamed, Moves, HeldAsWait, HeldAsSignal, HeldForPort, InTrap
    <3> QED
      BY <3>1, <3>3, Zenon DEF Keeps
  <2> QED
    BY <2>1, <2>2, <2>3, TakesOne, Zenon
<1>3. CASE SecondNamed(t)
  <2>1. d = trap[t].wait /\ d \in Semas /\ Referenced(d)
    BY <1>1, <1>3, Zenon DEF SecondNamed, Names, Looks
  <2>2. /\ HeldAsWait(t, d)' /\ ~HeldAsWait(t, d)
        /\ HeldAsSignal(t, d)' <=> HeldAsSignal(t, d)
        /\ HeldForPort(t, d)' <=> HeldForPort(t, d)
    BY <1>3, <2>1, Zenon
    DEF SecondNamed, Moves, HeldAsWait, HeldAsSignal, HeldForPort, InTrap
  <2>3. \A x \in Semas : x # d => Keeps(t, x)
    BY <1>3, <2>1, Zenon
       DEF SecondNamed, Moves, Keeps, HeldAsWait, HeldAsSignal, HeldForPort, InTrap
  <2> QED
    BY <2>1, <2>2, <2>3, TakesOne, Zenon
<1> QED
  BY <1>2, <1>3, Zenon

\* semaphore_destroy takes over the reference of the send right and adds one;
\* the death of the send right only takes it over.
LEMMA RightHolds ==
  ASSUME NEW t \in Threads, NEW s \in Semas, trap[t].at = "user",
         \/ Calls(t, "destroy", s, NoSema, "none")
         \/ Calls(t, "notify", s, NoSema, "none")
  PROVE  /\ trap'[t].at = "destroy" => Held(t, s)' = Held(t, s) + 2
         /\ trap'[t].at = "notify" => Held(t, s)' = Held(t, s) + 1
         /\ \A x \in Semas : x # s => Keeps(t, x)
<1> USE SemasAssumption
<1>1. \A x \in Semas : ~HeldAsWait(t, x) /\ ~HeldAsSignal(t, x) /\ ~HeldForPort(t, x)
  BY Zenon DEF HeldAsWait, HeldAsSignal, HeldForPort, InTrap
<1>2. Held(t, s) = 0 + 0 + 0
  BY <1>1, Zenon DEF Held, One
<1>3. ASSUME trap'[t].at = "destroy"
      PROVE  Held(t, s)' = 1 + 0 + 1
  <2>1. HeldAsWait(t, s)' /\ ~HeldAsSignal(t, s)' /\ HeldForPort(t, s)'
    BY <1>3, Zenon DEF Calls, HeldAsWait, HeldAsSignal, HeldForPort, InTrap
  <2> QED
    BY <2>1, Zenon DEF Held, One
<1>4. ASSUME trap'[t].at = "notify"
      PROVE  Held(t, s)' = 0 + 0 + 1
  <2>1. ~HeldAsWait(t, s)' /\ ~HeldAsSignal(t, s)' /\ HeldForPort(t, s)'
    BY <1>4, Zenon DEF Calls, HeldAsWait, HeldAsSignal, HeldForPort, InTrap
  <2> QED
    BY <2>1, Zenon DEF Held, One
<1>5. \A x \in Semas : x # s => Keeps(t, x)
  BY <1>1, Zenon DEF Calls, Keeps, HeldAsWait, HeldAsSignal, HeldForPort, InTrap
<1>6. 1 + 0 + 1 = (0 + 0 + 0) + 2 /\ 0 + 0 + 1 = (0 + 0 + 0) + 1
  BY SMT
<1> QED
  BY <1>2, <1>3, <1>4, <1>5, <1>6, Zenon

\* A step that leaves every call as it is keeps the counts exact.
LEMMA NoCall ==
  ASSUME Exact, trap' = trap, srights' = srights, ref_count' = ref_count
  PROVE  Exact'
BY Zenon DEF Exact, References, HeldAsWait, HeldAsSignal, HeldForPort, InTrap

\* The counts when a step of t keeps what it holds.
LEMMA NeutralCounts ==
  ASSUME Counting, Exact, NEW t \in Threads, \A u \in Threads : u # t => trap'[u] = trap[u],
         \A x \in Semas : Keeps(t, x), srights' = srights, ref_count' = ref_count
  PROVE  Exact'
<1>1. ASSUME NEW x \in Semas
      PROVE  ref_count'[x] = References(x)'
  <2>1. Balances(t, x)
    BY KeepsHeld, Zenon DEF Balances
  <2> QED
    BY <2>1, Balance, Zenon
<1> QED
  BY <1>1, Zenon DEF Exact

\* The counts when one of them, of d, changes.
LEMMA OneBalances ==
  ASSUME Counting, Exact, NEW t \in Threads, \A u \in Threads : u # t => trap'[u] = trap[u],
         NEW d \in Semas, Balances(t, d), \A x \in Semas : x # d => Keeps(t, x),
         \A x \in Semas : x # d => srights'[x] = srights[x] /\ ref_count'[x] = ref_count[x]
  PROVE  Exact'
<1>1. ASSUME NEW x \in Semas, x # d
      PROVE  Balances(t, x)
  BY <1>1, KeepsHeld, Zenon DEF Balances
<1>2. \A x \in Semas : ref_count'[x] = References(x)'
  BY <1>1, Balance, Zenon
<1> QED
  BY <1>2, Zenon DEF Exact

RefInv == FreeInv /\ Exact /\ Reach

\* The counts, what is freed and what is allocated, for the steps that look
\* a name up.
LEMMA NamedStep ==
  ASSUME Counting, MachTypeOK, TrapInv, RefInv, NEW t \in Threads, FirstNamed(t) \/ SecondNamed(t)
  PROVE  RefInv'
<1>1. PICK d : Looks(t, d)
  BY Zenon DEF Looks
<1>2. /\ d \in Semas /\ Referenced(d) /\ Held(t, d)' = Held(t, d) + 1
      /\ \A x \in Semas : x # d => Keeps(t, x)
  <2>1. d \in Semas /\ Referenced(d) /\ Held(t, d)' = Held(t, d) + 1
    BY <1>1, NamedHolds, Zenon
  <2>2. \A x \in Semas : x # d => Keeps(t, x)
    BY <1>1, NamedHolds, SMT
  <2> QED
    BY <2>1, <2>2, Zenon
<1>3. /\ trap'[t].freeing = NoSema
      /\ \A u \in Threads : u # t => trap'[u] = trap[u]
  BY Zenon DEF FirstNamed, SecondNamed, Moves
<1>4. /\ ref_count'[d] = ref_count[d] + 1 /\ srights' = srights /\ srights[d]
      /\ \A x \in Semas : x # d => ref_count'[x] = ref_count[x]
      /\ zone' = zone /\ active' = active
  BY <1>2, Zenon DEF Referenced, KeepsQueues, MachTypeOK
<1>5. Exact'
  BY <1>2, <1>3, <1>4, OneBalances, Zenon DEF RefInv, Balances
<1>6. ref_count[d] > 0
  BY <1>2, <1>4, Positive, Zenon DEF RefInv
<1>7. FreeInv' /\ Reach'
  BY <1>2, <1>3, <1>4, <1>6, OneCountChanges, Zenon DEF RefInv
<1> QED
  BY <1>5, <1>7, Zenon DEF RefInv

\* For the calls that use up the send right.
LEMMA RightStep ==
  ASSUME Counting, MachTypeOK, RefInv, NEW t \in Threads, NEW s \in Semas,
         DestroyCalled(t, s) \/ Deallocated(t, s)
  PROVE  RefInv'
<1>1. /\ trap'[t].freeing = NoSema
      /\ \A u \in Threads : u # t => trap'[u] = trap[u]
  BY Zenon DEF DestroyCalled, Deallocated, Calls
<1>2. /\ ~srights'[s] /\ srights[s]
      /\ \A x \in Semas : x # s => srights'[x] = srights[x] /\ ref_count'[x] = ref_count[x]
      /\ zone' = zone /\ active' = active
  BY Zenon DEF DestroyCalled, Deallocated, KeepsQueues, MachTypeOK
<1>3. \/ trap'[t].at = "destroy" /\ ref_count'[s] = ref_count[s] + 1
      \/ trap'[t].at = "notify" /\ ref_count'[s] = ref_count[s]
  <2>1. CASE DestroyCalled(t, s)
    BY <2>1, Zenon DEF DestroyCalled, Calls, MachTypeOK
  <2>2. CASE Deallocated(t, s)
    BY <2>2, Zenon DEF Deallocated, Calls
  <2> QED
    BY <2>1, <2>2, Zenon
<1>4. /\ trap'[t].at = "destroy" => Held(t, s)' = Held(t, s) + 2
      /\ trap'[t].at = "notify" => Held(t, s)' = Held(t, s) + 1
      /\ \A x \in Semas : x # s => Keeps(t, x)
  BY RightHolds, Zenon DEF DestroyCalled, Deallocated
<1>5. Balances(t, s)
  BY <1>2, <1>3, <1>4, Zenon DEF Balances
<1>6. Exact'
  BY <1>1, <1>2, <1>4, <1>5, OneBalances, Zenon DEF RefInv
<1>7. ref_count[s] > 0
  BY <1>2, Positive, Zenon DEF RefInv
<1>8. FreeInv' /\ Reach'
  BY <1>1, <1>2, <1>7, OneCountChanges, Zenon DEF RefInv
<1> QED
  BY <1>6, <1>8, Zenon DEF RefInv

\* For a reference given back, not the last one or the last one.
LEMMA DropStep ==
  ASSUME Counting, MachTypeOK, TrapInv, RefInv, NEW t \in Threads, GivesUp(t) \/ GivesUpLast(t)
  PROVE  RefInv'
<1>1. PICK d : Gives(t, d)
  BY Zenon DEF Gives
<1>2. Dereferences(t) /\ trap[t].at \in {"deref_wait", "deref_signal", "notify"}
  BY Zenon DEF GivesUp, GivesUpLast, Dereferences, InTrap
<1>3. d \in Semas
  BY <1>1, <1>2, Zenon DEF Gives, Dereferenced, TrapInv, Names
<1>4. \A x \in Semas : Remains(t, x)
  BY <1>1, <1>2, <1>3, AfterHolds, LastHolds, Zenon DEF Gives, GivesUp, GivesUpLast
<1>5. /\ HeldAsWait(t, d) \/ HeldAsSignal(t, d) \/ HeldForPort(t, d)
      /\ Held(t, d) = Held(t, d)' + 1 /\ \A x \in Semas : x # d => Keeps(t, x)
  <2>1. /\ HeldAsWait(t, d) \/ HeldAsSignal(t, d) \/ HeldForPort(t, d)
        /\ Held(t, d) = Held(t, d)' + 1
    BY <1>1, <1>2, <1>4, GivesBack, Zenon
  <2>2. \A x \in Semas : x # d => Keeps(t, x)
    BY <1>1, <1>2, <1>4, GivesBack, SMT
  <2> QED
    BY <2>1, <2>2, Zenon
<1>6. Dropped(t) /\ \A u \in Threads : u # t => trap'[u] = trap[u]
  BY Zenon DEF GivesUp, GivesUpLast, Follows, Moves, Returns, Calls
<1>7. /\ ref_count'[d] = ref_count[d] - 1 /\ srights' = srights /\ zone' = zone /\ active' = active
      /\ \A x \in Semas : x # d => ref_count'[x] = ref_count[x]
  BY <1>1, <1>3, <1>6, Zenon DEF Gives, Dropped, KeepsQueues, MachTypeOK
<1>8. Exact'
  BY <1>3, <1>5, <1>6, <1>7, OneBalances, Zenon DEF RefInv, Balances
<1>9. ref_count[d] > 0
  BY <1>3, <1>5, Positive, Zenon DEF RefInv
<1>10. CASE GivesUp(t)
  <2>1. trap'[t].freeing = NoSema
    BY <1>10, Zenon DEF GivesUp, Follows, Moves, Returns, Calls
  <2>2. FreeInv' /\ Reach'
    BY <1>3, <1>6, <1>7, <1>9, <2>1, OneCountChanges, Zenon DEF RefInv
  <2> QED
    BY <1>8, <2>2, Zenon DEF RefInv
<1>11. CASE GivesUpLast(t)
  <2>1. ref_count[d] = 1 /\ trap'[t].freeing = d
    BY <1>1, <1>11, Zenon DEF Gives, GivesUpLast, Moves
  <2>2. 1 - 1 = 0 /\ 1 # 0
    BY SMT
  <2>3. ref_count'[d] = 0
    BY <1>7, <2>1, <2>2, Zenon
  <2>4. \A u \in Threads : trap[u].freeing # d
    BY <1>3, <2>1, <2>2, SemasAssumption, Zenon DEF RefInv, FreeInv
  <2>5. \A u \in Threads : trap[u].freeing # NoSema => trap[u].freeing \in Semas
    BY Zenon DEF RefInv, Reach, MachTypeOK
  <2>6. ASSUME NEW u \in Threads, trap'[u].freeing # NoSema
        PROVE  ref_count'[trap'[u].freeing] = 0
    <3>1. CASE u = t
      BY <2>1, <2>3, <3>1, Zenon
    <3>2. CASE u # t
      <4>1. trap'[u].freeing = trap[u].freeing
        BY <1>6, <3>2, Zenon
      <4> QED
        BY <1>7, <2>4, <2>5, <2>6, <4>1, Zenon DEF RefInv, FreeInv
    <3> QED
      BY <3>1, <3>2, Zenon
  <2>7. ASSUME NEW u \in Threads, NEW v \in Threads, trap'[u].freeing # NoSema,
               trap'[u].freeing = trap'[v].freeing
        PROVE  u = v
    BY <1>6, <2>1, <2>4, <2>7, ZenonT(30) DEF RefInv, FreeInv
  <2>8. FreeInv'
    BY <2>6, <2>7, Zenon DEF FreeInv
  <2>9. d \in zone
    BY <1>3, <1>9, Zenon DEF RefInv, Reach
  <2>10. \A x \in Semas : ref_count'[x] > 0 \/ active'[x] => x \in zone'
    BY <1>7, <2>9, Zenon DEF RefInv, Reach
  <2>11. \A u \in Threads : trap'[u].freeing # NoSema => trap'[u].freeing \in zone'
    BY <1>6, <1>7, <2>1, <2>9, Zenon DEF RefInv, Reach
  <2> QED
    BY <1>8, <2>8, <2>10, <2>11, Zenon DEF RefInv, Reach
<1> QED
  BY <1>10, <1>11, Zenon

\* For a new semaphore.
LEMMA CreateStep ==
  ASSUME Counting, MachTypeOK, RefInv, NEW t \in Threads, NEW s \in Semas, Created(t, s)
  PROVE  RefInv'
<1>1. /\ trap[t].at = "user" /\ trap'[t].at = "user" /\ trap'[t].freeing = NoSema
      /\ \A u \in Threads : u # t => trap'[u] = trap[u]
  BY Zenon DEF Created, Returns, Calls
<1>2. \A x \in Semas : Keeps(t, x)
  BY <1>1, HoldsNothing, Zenon
<1>3. /\ srights'[s] /\ ref_count'[s] = 1 /\ zone' = zone \cup {s} /\ s \notin zone
      /\ \A x \in Semas : x # s => /\ srights'[x] = srights[x] /\ ref_count'[x] = ref_count[x]
                                   /\ active'[x] = active[x]
  BY Zenon DEF Created, MachTypeOK
<1>4. ~(ref_count[s] > 0)
  BY <1>3, Zenon DEF RefInv, Reach
<1>5. ref_count[s] = 0 /\ ref_count'[s] = ref_count[s] + 1
  BY <1>3, <1>4, SMT DEF MachTypeOK
<1>6. ~srights[s]
  BY <1>4, Positive, Zenon DEF RefInv
<1>7. Balances(t, s)
  BY <1>2, <1>3, <1>5, <1>6, KeepsHeld, Zenon DEF Balances
<1>8. Exact'
  BY <1>1, <1>2, <1>3, <1>7, OneBalances, Zenon DEF RefInv
<1>9. \A u \in Threads : trap'[u].freeing # NoSema =>
        trap'[u].freeing = trap[u].freeing /\ trap'[u].freeing \in zone
  BY <1>1, Zenon DEF RefInv, Reach
<1>10. \A u \in Threads : trap'[u].freeing # NoSema =>
         trap'[u].freeing \in Semas /\ trap'[u].freeing # s
  BY <1>3, <1>9, Zenon DEF MachTypeOK
<1>11. FreeInv'
  <2>1. ASSUME NEW u \in Threads, trap'[u].freeing # NoSema
        PROVE  ref_count'[trap'[u].freeing] = 0
    <3>1. trap'[u].freeing = trap[u].freeing /\ trap'[u].freeing \in Semas \ {s}
      BY <1>9, <1>10, <2>1, Zenon
    <3>2. ref_count[trap[u].freeing] = 0
      BY <2>1, <3>1, Zenon DEF RefInv, FreeInv
    <3> QED
      BY <1>3, <3>1, <3>2, Zenon
  <2>2. ASSUME NEW u \in Threads, NEW v \in Threads, trap'[u].freeing # NoSema,
               trap'[u].freeing = trap'[v].freeing
        PROVE  u = v
    BY <1>9, <2>2, Zenon DEF RefInv, FreeInv
  <2> QED
    BY <2>1, <2>2, Zenon DEF FreeInv
<1>12. Reach'
  BY <1>3, <1>9, Zenon DEF RefInv, Reach
<1> QED
  BY <1>8, <1>11, <1>12, Zenon DEF RefInv

\* For a semaphore that is freed: it has no references, and the one thread
\* that frees it is done with it.
LEMMA FreeStep ==
  ASSUME Counting, MachTypeOK, TrapInv, RefInv, NEW t \in Threads, NEW s \in Semas, Freed(t, s)
  PROVE  RefInv'
<1>1. /\ trap[t].freeing = s /\ trap[t].freeing # NoSema /\ Follows(t)
      /\ zone' = zone \ {s} /\ ref_count' = ref_count /\ srights' = srights
  BY SemasAssumption, Zenon DEF Freed
<1>2. trap'[t].freeing = NoSema /\ \A u \in Threads : u # t => trap'[u] = trap[u]
  BY <1>1, Zenon DEF Follows, Moves, Returns, Calls
<1>3. \A x \in Semas : Keeps(t, x)
  BY <1>1, FreeingHolds, Zenon
<1>4. Exact'
  BY <1>1, <1>2, <1>3, NeutralCounts, Zenon DEF RefInv
<1>5. ref_count[s] = 0 /\ \A u \in Threads : u # t => trap[u].freeing # s
  BY <1>1, Zenon DEF RefInv, FreeInv
<1>6. ~active'[s] /\ \A x \in Semas : active'[x] => active[x]
  BY Zenon DEF Freed, Emptied, KeepsQueues, MachTypeOK
<1>7. \A u \in Threads : trap'[u].freeing # NoSema =>
        trap'[u].freeing = trap[u].freeing /\ trap'[u].freeing # s
  BY <1>2, <1>5, Zenon
<1>8. FreeInv'
  BY <1>1, <1>7, Zenon DEF RefInv, FreeInv
<1>9. ~(0 > 0)
  BY SMT
<1>10. \A x \in Semas : ref_count'[x] > 0 \/ active'[x] => x \in zone'
  BY <1>1, <1>5, <1>6, <1>9, Zenon DEF RefInv, Reach
<1>11. \A u \in Threads : trap'[u].freeing # NoSema => trap'[u].freeing \in zone'
  BY <1>1, <1>7, Zenon DEF RefInv, Reach
<1> QED
  BY <1>4, <1>8, <1>10, <1>11, Zenon DEF RefInv, Reach

\* Only semaphore_create activates a semaphore.
LEMMA NoneActivated ==
  ASSUME MachTypeOK, TaskDies \/ \E t \in Threads : CallEffect(t) \/ QueueEffect(t)
  PROVE  \A x \in Semas : active'[x] => active[x]
<1>1. ASSUME NEW s, Emptied(s)
      PROVE  \A x \in Semas : active'[x] => active[x]
  BY <1>1, Zenon DEF Emptied, MachTypeOK
<1>2. CASE TaskDies
  BY <1>1, <1>2, Zenon DEF TaskDies, KeepsQueues
<1>3. ASSUME NEW t \in Threads, CallEffect(t)
      PROVE  active' = active
  BY <1>3, Zenon
  DEF CallEffect, Refused, NoName, NoSecond, Continues, WaitCalled, SignalCalled,
     KeepsQueues
<1>4. ASSUME NEW t \in Threads, QueueEffect(t)
      PROVE  \A x \in Semas : active'[x] => active[x]
  BY <1>1, <1>4, Zenon
  DEF QueueEffect, Destroys, WaitSleeps, Sleeps, ClearsWait, Unblocks, Wakens,
     Takes, Posts, WakesOne, WakesAll, KeepsQueues
<1> QED
  BY <1>2, <1>3, <1>4, Zenon

\* For every step.
LEMMA RefStep ==
  ASSUME Counting, MachTypeOK, TrapInv, RefInv, MachEffect
  PROVE  RefInv'
<1>1. ASSUME NEW t \in Threads, CallEffect(t) \/ QueueEffect(t), Neutral(t)
      PROVE  RefInv'
  <2>1. /\ KeepsZone /\ \A u \in Threads : u # t => trap'[u] = trap[u]
        /\ trap'[t].freeing = NoSema
    BY <1>1, Zenon DEF Neutral, Refused, NoName, NoSecond, Continues, Destroys, WaitSleeps,
       WaitEnds, SignalEnds, ClearsWait, WaitCalled, SignalCalled, Returns, Calls, Moves
  <2>2. \A x \in Semas : active'[x] => active[x]
    BY <1>1, NoneActivated, Zenon
  <2>3. FreeInv' /\ Reach'
    BY <2>1, <2>2, SameCounts, Zenon DEF RefInv, KeepsZone
  <2>4. \A x \in Semas : Keeps(t, x)
    BY <1>1, NeutralHolds, Zenon
  <2>5. Exact'
    BY <2>1, <2>4, NeutralCounts, Zenon DEF RefInv, KeepsZone
  <2> QED
    BY <2>3, <2>5, Zenon DEF RefInv
<1>2. ASSUME TaskDies \/ \E t \in Threads : QueueEffect(t), trap' = trap, KeepsZone
      PROVE  RefInv'
  <2>1. \A x \in Semas : active'[x] => active[x]
    BY <1>2, NoneActivated, Zenon
  <2>2. FreeInv' /\ Reach'
    BY <1>2, <2>1, SameCounts, Zenon DEF RefInv, KeepsZone
  <2>3. Exact'
    BY <1>2, NoCall, Zenon DEF RefInv, KeepsZone
  <2> QED
    BY <2>2, <2>3, Zenon DEF RefInv
<1>3. ASSUME NEW t \in Threads, RefEffect(t)
      PROVE  RefInv'
  BY <1>3, NamedStep, RightStep, DropStep, CreateStep, FreeStep, Zenon DEF RefEffect
<1>4. ASSUME NEW t \in Threads, CallEffect(t)
      PROVE  Neutral(t)
  BY <1>4, Zenon DEF CallEffect, Neutral
<1>5. ASSUME NEW t \in Threads, QueueEffect(t)
      PROVE  Neutral(t) \/ (trap' = trap /\ KeepsZone)
  BY <1>5, Zenon DEF QueueEffect, Neutral
<1>6. TaskDies => trap' = trap /\ KeepsZone
  BY Zenon DEF TaskDies
<1> QED
  BY <1>1, <1>2, <1>3, <1>4, <1>5, <1>6, Zenon DEF MachEffect

-----------------------------------------------------------------------------
\* The semaphore a thread gives back has references.
LEMMA GivenHasReferences ==
  ASSUME Counting, MachTypeOK, TrapInv, RefInv, NEW t \in Threads, Dereferences(t)
  PROVE  Dereferenced(t) \in Semas /\ ref_count[Dereferenced(t)] > 0
<1>1. Names(t)
  BY Zenon DEF TrapInv
<1>2. Dereferenced(t) \in Semas
  BY <1>1, Zenon DEF Names, Dereferences, InTrap, Dereferenced
<1>3. \/ HeldAsWait(t, Dereferenced(t)) \/ HeldAsSignal(t, Dereferenced(t))
      \/ HeldForPort(t, Dereferenced(t))
  BY <1>1, Zenon DEF Names, Dereferences, InTrap, Dereferenced,
     HeldAsWait, HeldAsSignal, HeldForPort
<1> QED
  BY <1>2, <1>3, Positive, Zenon DEF RefInv

\* The types of the allocation.
LEMMA ZoneType ==
  ASSUME Counting, MachTypeOK, TrapInv, RefInv, MachEffect
  PROVE  /\ zone' \in SUBSET Semas /\ ref_count' \in [Semas -> Nat]
         /\ srights' \in [Semas -> BOOLEAN]
<1>1. CASE KeepsZone
  BY <1>1, Zenon DEF KeepsZone, MachTypeOK
<1>2. 1 \in Nat /\ \A n \in Nat : n + 1 \in Nat /\ (n > 0 => n - 1 \in Nat)
  BY SMT
<1>3. ASSUME NEW s \in Semas, Referenced(s)
      PROVE  ref_count' \in [Semas -> Nat] /\ zone' = zone /\ srights' = srights
  BY <1>2, <1>3, Zenon DEF Referenced, MachTypeOK
<1>4. ASSUME NEW t \in Threads, FirstNamed(t) \/ SecondNamed(t)
      PROVE  ref_count' \in [Semas -> Nat] /\ zone' = zone /\ srights' = srights
  BY <1>3, <1>4, Zenon DEF FirstNamed, SecondNamed, TrapInv, Names
<1>5. ASSUME NEW t \in Threads, GivesUp(t) \/ GivesUpLast(t)
      PROVE  ref_count' \in [Semas -> Nat] /\ zone' = zone /\ srights' = srights
  <2>1. Dereferences(t) /\ Dropped(t)
    BY <1>5, Zenon DEF GivesUp, GivesUpLast
  <2>2. Dereferenced(t) \in Semas /\ ref_count[Dereferenced(t)] > 0
    BY <2>1, GivenHasReferences, Zenon
  <2>3. ref_count[Dereferenced(t)] - 1 \in Nat
    BY <1>2, <2>2, Zenon DEF MachTypeOK
  <2> QED
    BY <2>1, <2>3, Zenon DEF Dropped, MachTypeOK
<1>6. ASSUME NEW t \in Threads, NEW s \in Semas,
             Created(t, s) \/ DestroyCalled(t, s) \/ Deallocated(t, s) \/ Freed(t, s)
      PROVE  /\ zone' \in SUBSET Semas /\ ref_count' \in [Semas -> Nat]
             /\ srights' \in [Semas -> BOOLEAN]
  <2>1. zone' \in SUBSET Semas
    BY <1>6, Zenon DEF Created, DestroyCalled, Deallocated, Freed, MachTypeOK
  <2>2. ref_count' \in [Semas -> Nat]
    <3>1. ref_count[s] + 1 \in Nat /\ 1 \in Nat
      BY <1>2, Zenon DEF MachTypeOK
    <3> QED
      BY <1>6, <3>1, Zenon DEF Created, DestroyCalled, Deallocated, Freed, MachTypeOK
  <2>3. srights' \in [Semas -> BOOLEAN]
    BY <1>6, Zenon DEF Created, DestroyCalled, Deallocated, Freed, MachTypeOK
  <2> QED
    BY <2>1, <2>2, <2>3, Zenon
<1>7. ASSUME NEW t \in Threads, CallEffect(t) \/ QueueEffect(t)
      PROVE  KeepsZone
  BY <1>7, Zenon
  DEF CallEffect, Refused, NoName, NoSecond, Continues, WaitCalled, SignalCalled,
     QueueEffect, Destroys, WaitSleeps, ClearsWait, WaitEnds, SignalEnds
<1>8. ASSUME NEW t \in Threads, RefEffect(t)
      PROVE  /\ zone' \in SUBSET Semas /\ ref_count' \in [Semas -> Nat]
             /\ srights' \in [Semas -> BOOLEAN]
  BY <1>4, <1>5, <1>6, <1>8, Zenon DEF RefEffect, MachTypeOK
<1> QED
  BY <1>1, <1>7, <1>8, Zenon DEF MachEffect, TaskDies

\* The types of the counts and the queues.
LEMMA QueueType ==
  ASSUME MachTypeOK, TrapInv, MachEffect
  PROVE  /\ active' \in [Semas -> BOOLEAN] /\ count' \in [Semas -> Int]
         /\ waitq' \in [Semas -> SUBSET Threads] /\ wait_result' \in [Threads -> SemaWaitResults]
<1>1. CASE KeepsQueues
  BY <1>1, Zenon DEF KeepsQueues, MachTypeOK
<1>2. ASSUME NEW s \in Semas, SemaChange(s)
      PROVE  /\ active' \in [Semas -> BOOLEAN] /\ count' \in [Semas -> Int]
             /\ waitq' \in [Semas -> SUBSET Threads]
             /\ wait_result' \in [Threads -> SemaWaitResults]
  <2>1. active' \in [Semas -> BOOLEAN]
    BY <1>2, Zenon
    DEF SemaChange, Opened, Emptied, Takes, Posts, WakesOne, WakesAll, Wakens,
       Sleeps, Unblocks, MachTypeOK
  <2>2. 0 \in Int /\ -1 \in Int /\ count[s] - 1 \in Int /\ (\A n \in Nat : n \in Int)
        /\ \A n \in {0, 1} : (IF count[s] < 0 THEN 0 ELSE count[s]) + n \in Int
    BY SMT DEF MachTypeOK
  <2>3. count' \in [Semas -> Int]
    BY <1>2, <2>2, ZenonT(30)
    DEF SemaChange, Opened, Starts, Emptied, Takes, Posts, WakesOne, WakesAll,
       Sleeps, Unblocks, MachTypeOK
  <2>4. waitq' \in [Semas -> SUBSET Threads]
    <3>1. waitq[s] \in SUBSET Threads
      BY Zenon DEF MachTypeOK
    <3>2. CASE Opened(s) \/ Takes(s) \/ Posts(s)
      BY <3>2, Zenon DEF Opened, Takes, Posts, MachTypeOK
    <3>3. CASE Emptied(s)
      BY <3>3, Zenon DEF Emptied, MachTypeOK
    <3>4. ASSUME NEW W, NEW r, Wakens(s, W, r)
          PROVE  waitq' \in [Semas -> SUBSET Threads]
      <4>1. waitq[s] \ W \in SUBSET Threads
        BY <3>1, Zenon
      <4> QED
        BY <3>4, <4>1, Zenon DEF Wakens, MachTypeOK
    <3>5. ASSUME NEW t \in Threads, Sleeps(t, s)
          PROVE  waitq' \in [Semas -> SUBSET Threads]
      <4>1. waitq[s] \cup {t} \in SUBSET Threads
        BY <3>1, Zenon
      <4> QED
        BY <3>5, <4>1, Zenon DEF Sleeps, MachTypeOK
    <3> QED
      BY <1>2, <3>2, <3>3, <3>4, <3>5, Zenon DEF SemaChange, WakesOne, WakesAll, Unblocks
  <2>5. wait_result' \in [Threads -> SemaWaitResults]
    <3>1. CASE Opened(s) \/ Takes(s) \/ Posts(s)
      BY <3>1, Zenon DEF Opened, Takes, Posts, MachTypeOK
    <3>2. CASE Emptied(s)
      BY <3>2, Zenon DEF Emptied, MachTypeOK, SemaWaitResults
    <3>3. ASSUME NEW W, NEW r, Wakens(s, W, r)
          PROVE  wait_result' \in [Threads -> SemaWaitResults]
      BY <3>3, Zenon DEF Wakens, MachTypeOK
    <3>4. ASSUME NEW t \in Threads, Sleeps(t, s)
          PROVE  wait_result' \in [Threads -> SemaWaitResults]
      BY <3>4, Zenon DEF Sleeps, MachTypeOK, SemaWaitResults
    <3> QED
      BY <1>2, <3>1, <3>2, <3>3, <3>4, Zenon DEF SemaChange, WakesOne, WakesAll, Unblocks
  <2> QED
    BY <2>1, <2>3, <2>4, <2>5, Zenon
<1> QED
  BY <1>1, <1>2, OneSemaphore, Zenon

\* The types of the calls.
LEMMA CallsType ==
  ASSUME MachTypeOK, MachEffect
  PROVE  trap' \in [Threads -> Traps]
<1>1. ASSUME NEW t \in Threads, CallEffect(t)
      PROVE  trap' \in [Threads -> Traps]
  BY <1>1, Zenon
  DEF CallEffect, Refused, NoName, NoSecond, Continues, WaitCalled, SignalCalled,
     Returns, Calls, Moves
<1>2. ASSUME NEW t \in Threads, RefEffect(t)
      PROVE  trap' \in [Threads -> Traps]
  BY <1>2, Zenon DEF RefEffect, FirstNamed, SecondNamed, GivesUpLast, GivesUp, Follows,
     Created, DestroyCalled, Deallocated, Freed, Returns, Calls, Moves
<1>3. ASSUME NEW t \in Threads, QueueEffect(t)
      PROVE  trap' \in [Threads -> Traps]
  BY <1>3, Zenon
  DEF QueueEffect, Destroys, WaitSleeps, ClearsWait, WaitEnds, SignalEnds, Moves,
     MachTypeOK
<1> QED
  BY <1>1, <1>2, <1>3, Zenon DEF MachEffect, TaskDies, MachTypeOK

\* The states of the task.
LEMMA TaskType ==
  ASSUME MachTypeOK, MachNext
  PROVE  task' \in {"active", "destroying", "terminated"}
<1>1. CASE semaphore_destroy_all
  BY <1>1, Zenon DEF semaphore_destroy_all, MachTypeOK
<1>2. ASSUME NEW t \in Threads, MachClient(t)
      PROVE  task' = task
  BY <1>2, Zenon
  DEF MachClient, semaphore_create, semaphore_destroy_msg, mach_port_deallocate,
     semaphore_signal_trap, semaphore_wait_trap, zoneVars
<1>3. ASSUME NEW t \in Threads, Kernel(t)
      PROVE  task' = task
  BY <1>3, Zenon DEF Kernel, port_name_to_semaphore, semaphore_wait_internal,
     semaphore_signal_internal, clear_wait, semaphore_wait_continue, semaphore_destroy,
     semaphore_dereference, semaphore_free, zoneVars
<1>4. ASSUME NEW t \in Threads, NEW wr \in SemaWaitResults, thread_unblock(t, wr)
      PROVE  task' = task
  BY <1>4, Zenon DEF thread_unblock
<1> QED
  BY <1>1, <1>2, <1>3, <1>4, Zenon DEF MachNext, MachTypeOK

-----------------------------------------------------------------------------
\* The two parts of ReferencesExact are its parts.
LEMMA RefParts ==
  ReferencesExact <=> Exact /\ Reach
BY Zenon DEF ReferencesExact, Exact, Reach

\* At first nothing is allocated and no thread is in a call.
LEMMA MachInitially ==
  ASSUME Counting, MachInit
  PROVE  MachInv
<1> USE SemasAssumption
<1>1. Idle \in Traps
  BY Zenon DEF Idle, Traps, Timeouts, KernReturns
<1>2. MachTypeOK
  <2>1. /\ zone \in SUBSET Semas /\ ref_count \in [Semas -> Nat] /\ count \in [Semas -> Int]
        /\ waitq \in [Semas -> SUBSET Threads]
    BY SMT DEF MachInit
  <2>2. active \in [Semas -> BOOLEAN] /\ srights \in [Semas -> BOOLEAN]
    BY Zenon DEF MachInit
  <2>3. /\ task \in {"active", "destroying", "terminated"}
        /\ wait_result \in [Threads -> SemaWaitResults] /\ trap \in [Threads -> Traps]
    BY <1>1, Zenon DEF MachInit, SemaWaitResults
  <2> QED
    BY <2>1, <2>2, <2>3, Zenon DEF MachTypeOK
<1>3. \A t \in Threads : trap[t] = Idle /\ wait_result[t] = "THREAD_AWAKENED"
  BY Zenon DEF MachInit
<1>4. Idle.at = "user" /\ Idle.freeing = NoSema
  BY Zenon DEF Idle
<1>5. \A s \in Semas : /\ ref_count[s] = 0 /\ ~active[s] /\ count[s] = 0 /\ waitq[s] = {}
                       /\ ~srights[s]
  BY Zenon DEF MachInit
<1>6. TrapInv
  BY <1>3, <1>4, Zenon DEF TrapInv, Names, Frees
<1>7. QueueInv
  BY <1>3, <1>5, Zenon DEF QueueInv
<1>8. CountInv
  BY <1>5, Zenon DEF CountInv
<1>9. FreeInv
  BY <1>3, <1>4, Zenon DEF FreeInv
<1>10. ~(0 > 0) /\ 0 + 0 + 0 + 0 = 0
  BY SMT
<1>11. Reach
  BY <1>3, <1>4, <1>5, <1>10, Zenon DEF Reach
<1>12. ASSUME NEW s \in Semas
       PROVE  ref_count[s] = References(s)
  <2>1. \A t \in Threads : ~HeldAsWait(t, s) /\ ~HeldAsSignal(t, s) /\ ~HeldForPort(t, s)
    BY <1>3, <1>4, Zenon DEF HeldAsWait, HeldAsSignal, HeldForPort, InTrap
  <2>2. /\ {t \in Threads : HeldAsWait(t, s)} = {} /\ {t \in Threads : HeldAsSignal(t, s)} = {}
        /\ {t \in Threads : HeldForPort(t, s)} = {}
    BY <2>1, Zenon
  <2>3. Cardinality({}) = 0
    BY Zenon DEF Counting
  <2> QED
    BY <1>5, <1>10, <2>2, <2>3, Zenon DEF References
<1> QED
  BY <1>2, <1>6, <1>7, <1>8, <1>9, <1>11, <1>12, RefParts, ZenonT(30) DEF MachInv, Exact

\* Every step keeps the inductive invariant.
LEMMA MachKeeps ==
  ASSUME Counting, MachInv, MachNext
  PROVE  MachInv'
<1>1. /\ MachTypeOK /\ TrapInv /\ QueueInv /\ CountInv /\ ReferencesExact /\ RefInv
  BY RefParts, Zenon DEF MachInv, RefInv
<1>2. MachEffect
  BY <1>1, MachSteps, Zenon
<1>3. MachTypeOK'
  BY <1>1, <1>2, ZoneType, QueueType, CallsType, TaskType, Zenon DEF MachTypeOK
<1>4. TrapInv'
  BY <1>1, <1>2, TrapStep, Zenon
<1>5. QueueInv'
  BY <1>1, <1>2, <1>3, QueueStep, Zenon
<1>6. CountInv'
  BY <1>1, <1>2, CountStep, Zenon
<1>7. RefInv'
  BY <1>1, <1>2, RefStep, Zenon
<1>8. ReferencesExact'
  BY <1>7, Zenon DEF RefInv, Exact, Reach, ReferencesExact
<1> QED
  BY <1>3, <1>4, <1>5, <1>6, <1>7, <1>8, Zenon DEF MachInv, RefInv

\* And so does a step that changes nothing.
LEMMA MachStutters ==
  ASSUME MachInv, UNCHANGED machVars
  PROVE  MachInv'
<1> USE DEF machVars, zoneVars
<1>1. MachTypeOK'
  BY Zenon DEF MachInv, MachTypeOK
<1>2. TrapInv' /\ QueueInv'
  BY Zenon DEF MachInv, TrapInv, Names, Frees, Dereferenced, QueueInv
<1>3. CountInv' /\ FreeInv'
  BY Zenon DEF MachInv, CountInv, FreeInv
<1>4. ReferencesExact'
  BY ZenonT(30)
  DEF MachInv, ReferencesExact, References, HeldAsWait, HeldAsSignal, HeldForPort, InTrap
<1> QED
  BY <1>1, <1>2, <1>3, <1>4, Zenon DEF MachInv

-----------------------------------------------------------------------------
\* What the service sees of the semaphores.
Live == {s \in Semas : active[s]}
Units == [s \in Semas |-> IF count[s] > 0 THEN count[s] ELSE 0]

\* The units when one count changes.
LEMMA UnitsChange ==
  ASSUME MachTypeOK, NEW s \in Semas, NEW n \in Int, count' = [count EXCEPT ![s] = n]
  PROVE  Units' = [Units EXCEPT ![s] = IF n > 0 THEN n ELSE 0]
<1>1. ASSUME NEW x \in Semas
      PROVE  (IF count'[x] > 0 THEN count'[x] ELSE 0)
               = IF x = s THEN (IF n > 0 THEN n ELSE 0) ELSE (IF count[x] > 0 THEN count[x] ELSE 0)
  <2>1. CASE x = s
    BY <2>1, Zenon DEF MachTypeOK
  <2>2. CASE x # s
    BY <2>2, Zenon DEF MachTypeOK
  <2> QED
    BY <2>1, <2>2, Zenon
<1> DEFINE v == IF n > 0 THEN n ELSE 0
           F == [x \in Semas |-> IF x = s THEN v ELSE (IF count[x] > 0 THEN count[x] ELSE 0)]
<1>2. Units' = F
  BY <1>1, Zenon DEF Units
<1>3. [Units EXCEPT ![s] = v] = F
  BY Zenon DEF Units
<1> QED
  BY <1>2, <1>3, Zenon

\* The units stay when the count changes among those that stand for none.
LEMMA UnitsStay ==
  ASSUME MachTypeOK, NEW s \in Semas, NEW n \in Int, count' = [count EXCEPT ![s] = n],
         (IF n > 0 THEN n ELSE 0) = Units[s]
  PROVE  Units' = Units
<1>1. Units' = [Units EXCEPT ![s] = Units[s]]
  BY UnitsChange, Zenon
<1> QED
  BY <1>1, Zenon DEF Units

\* A step on a semaphore is a step of the service on it, or none.
LEMMA ServiceStep ==
  ASSUME MachTypeOK, CountInv, ReferencesExact, NEW s \in Semas, SemaChange(s)
  PROVE  [Semaphores!ServiceNext]_(Semaphores!serviceVars)
<1>1. /\ count[s] \in Int /\ (waitq[s] # {} => count[s] < 0) /\ (~active[s] => count[s] = 0)
      /\ Units[s] = IF count[s] > 0 THEN count[s] ELSE 0
      /\ s \in Live <=> active[s]
  BY Zenon DEF MachTypeOK, CountInv, Units, Live
<1>2. active' = active => Live' = Live
  BY Zenon DEF Live
<1>3. count' = count => Units' = Units
  BY Zenon DEF Units
<1>4. 0 \in Int /\ -1 \in Int /\ count[s] - 1 \in Int /\ count[s] + 1 \in Int /\ 1 \in Int
      /\ ~(0 > 0) /\ ~(-1 > 0)
  BY <1>1, SMT
<1>5. CASE Opened(s)
  <2>1. ~active[s] /\ count[s] = 0
    BY <1>1, <1>5, Zenon DEF Opened, ReferencesExact
  <2>2. Live' = Live \cup {s}
    BY <1>5, SMT DEF Opened, Live, MachTypeOK
  <2>3. PICK n \in Nat : Starts(s, n)
    BY <1>5, Zenon DEF Opened
  <2>4. n \in Int /\ (IF n > 0 THEN n ELSE 0) = n
    BY SMT
  <2>5. Units' = [Units EXCEPT ![s] = n]
    BY <2>3, <2>4, UnitsChange, Zenon DEF Starts
  <2>6. Units'[s] = n
    BY <2>5, Zenon DEF Units
  <2>7. Semaphores!CreateWithUnits(s)
    BY <1>1, <1>5, <2>1, <2>2, <2>5, <2>6, Zenon
    DEF Semaphores!CreateWithUnits, Opened, Live, Units
  <2> QED
    BY <2>7, Zenon DEF Semaphores!ServiceNext
<1>6. CASE Emptied(s)
  <2>1. Live' = Live \ {s}
    BY <1>6, SMT DEF Emptied, Live, MachTypeOK
  <2>2. Units' = [Units EXCEPT ![s] = 0]
    BY <1>4, <1>6, UnitsChange, Zenon DEF Emptied
  <2>3. Semaphores!Destroy(s)
    BY <1>1, <1>6, <2>1, <2>2, Zenon DEF Semaphores!Destroy, Emptied, Live, Units
  <2> QED
    BY <2>3, Zenon DEF Semaphores!ServiceNext
<1>7. CASE Takes(s)
  <2>1. Units[s] = count[s] /\ Units[s] > 0
    BY <1>1, <1>7, Zenon DEF Takes
  <2>2. (IF count[s] - 1 > 0 THEN count[s] - 1 ELSE 0) = Units[s] - 1
    BY <1>1, <2>1, SMT
  <2>3. Units' = [Units EXCEPT ![s] = Units[s] - 1]
    BY <1>4, <1>7, <2>2, UnitsChange, Zenon DEF Takes
  <2>4. Semaphores!Take(s)
    BY <1>1, <1>2, <1>7, <2>1, <2>3, Zenon DEF Semaphores!Take, Takes, Live, Units
  <2> QED
    BY <2>4, Zenon DEF Semaphores!ServiceNext
<1>8. ASSUME NEW t \in Threads, Sleeps(t, s)
      PROVE  Semaphores!ServiceNext
  <2>1. ~(count[s] > 0)
    BY <1>1, <1>8, SMT DEF Sleeps
  <2>2. Units[s] = 0
    BY <1>1, <2>1, Zenon
  <2>3. Units' = Units
    BY <1>4, <1>8, <2>2, UnitsStay, Zenon DEF Sleeps
  <2>4. Semaphores!Sleep(t, s)
    BY <1>1, <1>2, <1>8, <2>2, <2>3, Zenon DEF Semaphores!Sleep, Sleeps, Live, Units
  <2> QED
    BY <2>4, Zenon DEF Semaphores!ServiceNext
<1>9. CASE Posts(s)
  <2> DEFINE m == IF count[s] < 0 THEN 0 ELSE count[s]
  <2>1. m = Units[s] /\ m \in Int /\ m >= 0
    BY <1>1, SMT
  <2>2. PICK n \in {0, 1} : count' = [count EXCEPT ![s] = m + n]
    BY <1>9, Zenon DEF Posts
  <2>3. m + n \in Int /\ (IF m + n > 0 THEN m + n ELSE 0) = m + n
    <3> HIDE DEF m
    <3> QED
      BY <2>1, SMT
  <2>4. m + 0 = m
    <3> HIDE DEF m
    <3> QED
      BY <2>1, SMT
  <2>5. CASE n = 0
    <3>1. Units' = Units
      BY <2>1, <2>2, <2>3, <2>4, <2>5, UnitsStay, Zenon
    <3> QED
      BY <1>2, <1>9, <3>1, Zenon DEF Posts, Semaphores!serviceVars, Live, Units
  <2>6. CASE n = 1
    <3>1. Units' = [Units EXCEPT ![s] = Units[s] + 1]
      BY <2>1, <2>2, <2>3, <2>6, UnitsChange, Zenon
    <3>2. Semaphores!Post(s)
      BY <1>1, <1>2, <1>9, <3>1, Zenon DEF Posts, Semaphores!Post, Live, Units
    <3> QED
      BY <3>2, Zenon DEF Semaphores!ServiceNext
  <2> QED
    BY <2>5, <2>6, Zenon
<1>10. CASE WakesOne(s)
  <2>1. PICK x \in Threads : Wakens(s, {x}, "THREAD_AWAKENED")
    BY <1>10, Zenon DEF WakesOne
  <2>2. Semaphores!Wake(s, {x})
    BY <1>1, <1>2, <1>3, <1>10, <2>1, Zenon
       DEF WakesOne, Wakens, Semaphores!Wake, Live, Units
  <2> QED
    BY <2>2, Zenon DEF Semaphores!ServiceNext
<1>11. CASE WakesAll(s)
  <2>1. ~(count[s] > 0)
    BY <1>1, <1>11, SMT DEF WakesAll
  <2>2. Units' = Units
    BY <1>1, <1>4, <1>11, <2>1, UnitsStay, Zenon DEF WakesAll
  <2>3. Semaphores!Wake(s, waitq[s])
    BY <1>1, <1>2, <1>11, <2>2, Zenon DEF WakesAll, Wakens, Semaphores!Wake, Live, Units
  <2> QED
    BY <2>3, Zenon DEF Semaphores!ServiceNext
<1>12. ASSUME NEW t \in Threads, Unblocks(t, s)
       PROVE  Semaphores!ServiceNext
  <2>1. Semaphores!Leave(t, s)
    BY <1>2, <1>3, <1>12, Zenon DEF Unblocks, Wakens, Semaphores!Leave, Live, Units
  <2> QED
    BY <2>1, Zenon DEF Semaphores!ServiceNext
<1> QED
  BY <1>5, <1>6, <1>7, <1>8, <1>9, <1>10, <1>11, <1>12, ZenonT(30) DEF SemaChange

\* A step that leaves the semaphores alone is none of the service.
LEMMA ServiceRests ==
  ASSUME active' = active, count' = count, waitq' = waitq
  PROVE  UNCHANGED Semaphores!serviceVars
BY Zenon DEF Semaphores!serviceVars

\* At first the service has no semaphores.
LEMMA ServiceInitially ==
  ASSUME MachInit
  PROVE  Semaphores!ServiceInit
<1>1. \A s \in Semas : ~active[s] /\ count[s] = 0
  BY Zenon DEF MachInit
<1>2. ~(0 > 0)
  BY SMT
<1>3. {s \in Semas : active[s]} = {}
  BY <1>1, Zenon
<1>4. [s \in Semas |-> IF count[s] > 0 THEN count[s] ELSE 0] = [s \in Semas |-> 0]
  BY <1>1, <1>2, Zenon
<1> QED
  BY <1>3, <1>4, Zenon DEF MachInit, Semaphores!ServiceInit

\* A step of the kernel is a step of the service, or none.
LEMMA ServiceSteps ==
  ASSUME MachInv, [MachNext]_machVars
  PROVE  [Semaphores!ServiceNext]_(Semaphores!serviceVars)
<1>1. ASSUME MachInv, MachNext
      PROVE  [Semaphores!ServiceNext]_(Semaphores!serviceVars)
  <2>1. MachTypeOK /\ TrapInv /\ QueueInv /\ CountInv /\ ReferencesExact
    BY <1>1, Zenon DEF MachInv
  <2>2. MachEffect
    BY <1>1, <2>1, MachSteps, Zenon
  <2>3. KeepsQueues \/ \E s \in Semas : SemaChange(s)
    BY <2>1, <2>2, OneSemaphore, Zenon
  <2> QED
    BY <2>1, <2>3, ServiceStep, ServiceRests, Zenon DEF KeepsQueues
<1>2. ASSUME UNCHANGED machVars
      PROVE  UNCHANGED Semaphores!serviceVars
  BY <1>2, ServiceRests, Zenon DEF machVars, zoneVars
<1> QED
  BY <1>1, <1>2, Zenon

-----------------------------------------------------------------------------
INSTANCE FiniteSetTheorems

\* Threads can be counted.
LEMMA ThreadsCount == Counting
<1>1. Cardinality({}) = 0
  BY FS_EmptySet, Zenon
<1>2. ASSUME NEW A \in SUBSET Threads
      PROVE  /\ Cardinality(A) \in Nat
             /\ A # {} => Cardinality(A) # 0
             /\ \A t \in Threads : t \notin A => Cardinality(A \cup {t}) = Cardinality(A) + 1
  <2>1. IsFiniteSet(A)
    BY SemasAssumption, FS_Subset, Zenon
  <2> QED
    BY <2>1, FS_CardinalityType, FS_EmptySet, FS_AddElement, ZenonT(30)
<1> QED
  BY <1>1, <1>2, Zenon DEF Counting

\* The inductive invariant holds: calls are where their arguments allow,
\* queues hold the threads that wait, counts fit the queues, and references
\* are exact.
THEOREM MachInvariant == MachSpec => []MachInv
<1>1. MachInit => MachInv
  BY MachInitially, ThreadsCount, Zenon
<1>2. MachInv /\ [MachNext]_machVars => MachInv'
  BY MachKeeps, MachStutters, ThreadsCount, Zenon
<1> QED
  BY <1>1, <1>2, PTL DEF MachSpec

\* The reference count of every semaphore is the number of its holders, and
\* what can still be reached is allocated (semaphore_reference,
\* semaphore_dereference and semaphore_destroy_all).
THEOREM ReferencesAreExact == MachSpec => []ReferencesExact
<1>1. MachInv => ReferencesExact
  BY Zenon DEF MachInv
<1> QED
  BY <1>1, MachInvariant, PTL

\* A thread whose wait is over, by a signal, a deadline, an abort or a
\* destruction, has been told so: semaphore_convert_wait_result, which
\* semaphore_wait_continue calls, does not come to its panic.
ResultsConvert ==
  \A t \in Threads : trap[t].at = "blocked" /\ t \notin waitq[trap[t].wait] =>
    semaphore_convert_wait_result(wait_result[t]) \in KernReturns

\* No wait result reaches the panic of semaphore_convert_wait_result.
THEOREM ConversionNeverPanics == MachSpec => []ResultsConvert
<1>1. MachInv => ResultsConvert
  <2> SUFFICES ASSUME MachInv, NEW t \in Threads, t \notin waitq[trap[t].wait]
               PROVE  semaphore_convert_wait_result(wait_result[t]) \in KernReturns
    BY Zenon DEF ResultsConvert
  <2>1. wait_result[t] \in SemaWaitResults \ {"THREAD_WAITING"}
    BY Zenon DEF MachInv, MachTypeOK, QueueInv
  <2> QED
    BY <2>1, ResultConverts, Zenon
<1> QED
  BY <1>1, MachInvariant, PTL

\* The kernel's semaphores, with counts of -1, references, locks and queues,
\* implement the service of units and sleepers (semaphore_wait_internal,
\* semaphore_signal_internal and semaphore_destroy_internal): each step hands
\* over, adds or takes units as a call of the service does, or is one that the
\* service does not see.
THEOREM MachImplementsSemaphores == MachSpec => ImplementsSemaphores
<1>1. MachInit => Semaphores!ServiceInit
  BY ServiceInitially, Zenon
<1>2. MachInv /\ [MachNext]_machVars => [Semaphores!ServiceNext]_(Semaphores!serviceVars)
  BY ServiceSteps, Zenon
<1> QED
  BY <1>1, <1>2, MachInvariant, PTL
  DEF MachSpec, ImplementsSemaphores, Semaphores!ServiceSpec
=============================================================================
