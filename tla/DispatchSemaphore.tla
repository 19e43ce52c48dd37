------------------------- MODULE DispatchSemaphore -------------------------
(***************************************************************************)
(* dispatch_semaphore_t of libdispatch (src/semaphore.c): a counter in the *)
(* process, and a Mach semaphore that is made, or taken from the thread's  *)
(* cache, when a thread first has to block or to wake another              *)
(* (src/shims/lock.c, libplatform's os/semaphore_private.h).               *)
(*                                                                         *)
(* One object is followed from its creation to its disposal, and then the  *)
(* next one: what goes from one to the next is the Mach semaphores in the  *)
(* caches.  The kernel's part of a system call is one step of module       *)
(* SemaphoreService.                                                       *)
(***************************************************************************)
EXTENDS SemaphoreService, FiniteSets

CONSTANTS NoSema,      \* MACH_PORT_NULL
          MaxValue     \* bound on dsema_value
ASSUME SemaAssumption ==
  IsFiniteSet(Callers) /\ NoSema \notin Semas /\ MaxValue \in Nat

VARIABLES
  alive,          \* whether the object exists
  dsema_value, dsema_orig, dsema_sema,
  cache,          \* each thread's __TSD_SEMAPHORE_CACHE
  tmp,            \* local variable tmp of _dispatch_sema4_create_slow
  sema_pc,        \* where each thread is
  call,           \* what it was called for
  kr,             \* "none", "asleep" in a wait, or the result of the wait
  sema_crash      \* the reason of a DISPATCH_..._CRASH, or "none"

dsemaVars == <<alive, dsema_value, dsema_orig, dsema_sema, cache, tmp, sema_pc,
               call, kr, sema_crash>>
semaVars == <<serviceVars, dsemaVars>>

DISPATCH_TIMES == {"DISPATCH_TIME_NOW", "timed", "DISPATCH_TIME_FOREVER"}

WaitLabels == {"timedwait", "wait", "drain"}

\* Type invariant of the semaphore.
SemaTypeOK ==
  /\ live \in SUBSET Semas
  /\ units \in [Semas -> Nat]
  /\ sleepers \in [Semas -> SUBSET Callers]
  /\ alive \in BOOLEAN
  /\ dsema_value \in Int /\ dsema_value <= MaxValue /\ dsema_orig \in 0..MaxValue
  /\ dsema_sema \in Semas \cup {NoSema}
  /\ cache \in [Callers -> Semas \cup {NoSema}]
  /\ tmp \in [Callers -> Semas \cup {NoSema}]
  /\ sema_pc \in [Callers -> {"idle", "create", "publish", "signal", "undo"} \cup WaitLabels]
  /\ call \in [Callers -> DISPATCH_TIMES \cup {"none", "signal"}]
  /\ kr \in [Callers -> {"none", "asleep", "KERN_SUCCESS", "KERN_OPERATION_TIMED_OUT",
                         "KERN_ABORTED", "KERN_TERMINATED"}]
  /\ sema_crash \in {"none", "in_use", "mach"}

SemaInit ==
  /\ ServiceInit
  /\ alive = FALSE
  /\ dsema_value = 0 /\ dsema_orig = 0 /\ dsema_sema = NoSema
  /\ cache = [t \in Callers |-> NoSema]
  /\ tmp = [t \in Callers |-> NoSema]
  /\ sema_pc = [t \in Callers |-> "idle"]
  /\ call = [t \in Callers |-> "none"]
  /\ kr = [t \in Callers |-> "none"]
  /\ sema_crash = "none"

SemaGoto(t, label) == sema_pc' = [sema_pc EXCEPT ![t] = label]

\* The call of t ends.
SemaDone(t) == SemaGoto(t, "idle") /\ call' = [call EXCEPT ![t] = "none"]

-----------------------------------------------------------------------------
dispatch_semaphore_create(v) ==
  /\ ~alive
  /\ alive' = TRUE
  /\ dsema_value' = v /\ dsema_orig' = v /\ dsema_sema' = NoSema
  /\ UNCHANGED <<serviceVars, cache, tmp, sema_pc, call, kr, sema_crash>>

\* Increment; done if nobody waits.
dispatch_semaphore_signal(t) ==
  /\ alive /\ sema_pc[t] = "idle" /\ dsema_value < MaxValue
  /\ dsema_value' = dsema_value + 1
  /\ IF dsema_value' > 0 THEN UNCHANGED <<sema_pc, call>>
     ELSE SemaGoto(t, "create") /\ call' = [call EXCEPT ![t] = "signal"]
  /\ UNCHANGED <<serviceVars, alive, dsema_orig, dsema_sema, cache, tmp, kr, sema_crash>>

\* Decrement; done if a unit was there.
dispatch_semaphore_wait(t, timeout) ==
  /\ alive /\ sema_pc[t] = "idle"
  /\ dsema_value' = dsema_value - 1
  /\ IF dsema_value' >= 0 THEN UNCHANGED <<sema_pc, call>>
     ELSE SemaGoto(t, "create") /\ call' = [call EXCEPT ![t] = timeout]
  /\ UNCHANGED <<serviceVars, alive, dsema_orig, dsema_sema, cache, tmp, kr, sema_crash>>

\* What follows _dispatch_sema4_create in the slow paths.
AfterCreate(t) ==
  CASE call[t] = "signal"                -> "signal"
    [] call[t] = "DISPATCH_TIME_NOW"     -> "undo"
    [] call[t] = "timed"                 -> "timedwait"
    [] call[t] = "DISPATCH_TIME_FOREVER" -> "wait"

\* Which new semaphore the kernel gives does not matter to the process.  That
\* it has one to give is assumed: the library aborts otherwise.
NewSema == CHOOSE s \in Semas : s \notin live

\* Mutant: the semaphore that is taken from the cache stays there too.
get_keeps_cached(t) ==
  /\ sema_pc[t] = "create"
  /\ SemaGoto(t, IF dsema_sema # NoSema THEN AfterCreate(t) ELSE "publish")
  /\ \/ dsema_sema # NoSema /\ UNCHANGED <<serviceVars, tmp>>
     \/ /\ dsema_sema = NoSema /\ cache[t] # NoSema
        /\ tmp' = [tmp EXCEPT ![t] = cache[t]] /\ UNCHANGED serviceVars
     \/ /\ dsema_sema = NoSema /\ cache[t] = NoSema
        /\ Semas \ live # {} /\ Create(NewSema) /\ tmp' = [tmp EXCEPT ![t] = NewSema]
  /\ UNCHANGED <<cache, alive, dsema_value, dsema_orig, dsema_sema, call, kr, sema_crash>>

\* _dispatch_sema4_create, and os_get_cached_semaphore of its slow path.
_dispatch_sema4_create(t) ==
  /\ sema_pc[t] = "create"
  /\ \/ /\ dsema_sema # NoSema
        /\ SemaGoto(t, AfterCreate(t))
        /\ UNCHANGED <<serviceVars, cache, tmp>>
     \/ /\ dsema_sema = NoSema /\ cache[t] # NoSema
        /\ tmp' = [tmp EXCEPT ![t] = cache[t]]
        /\ cache' = [cache EXCEPT ![t] = NoSema]
        /\ SemaGoto(t, "publish")
        /\ UNCHANGED serviceVars
     \/ /\ dsema_sema = NoSema /\ cache[t] = NoSema
        /\ Semas \ live # {} /\ Create(NewSema)
        /\ tmp' = [tmp EXCEPT ![t] = NewSema]
        /\ SemaGoto(t, "publish")
        /\ UNCHANGED cache
  /\ UNCHANGED <<alive, dsema_value, dsema_orig, dsema_sema, call, kr, sema_crash>>

\* os_put_cached_semaphore: the thread keeps s, and an older one is
\* destroyed; a thread asleep on that one would find it terminated.
os_put_cached_semaphore(t, s) ==
  LET old == cache[t] IN
  /\ cache' = [cache EXCEPT ![t] = s]
  /\ IF old = NoSema THEN UNCHANGED <<serviceVars, kr>>
     ELSE /\ Destroy(old)
          /\ kr' = [u \in Callers |-> IF u \in sleepers[old] THEN "KERN_TERMINATED" ELSE kr[u]]

\* Mutant: the loser of the race overwrites the winner's semaphore.
publish_by_store(t) ==
  /\ sema_pc[t] = "publish"
  /\ dsema_sema' = tmp[t]
  /\ tmp' = [tmp EXCEPT ![t] = NoSema]
  /\ SemaGoto(t, AfterCreate(t))
  /\ UNCHANGED <<serviceVars, cache, alive, dsema_value, dsema_orig, call, kr, sema_crash>>

\* The compare-and-swap of _dispatch_sema4_create_slow; the thread that
\* loses the race keeps its semaphore for another time.
_dispatch_sema4_create_slow(t) ==
  /\ sema_pc[t] = "publish"
  /\ IF dsema_sema = NoSema
     THEN dsema_sema' = tmp[t] /\ UNCHANGED <<serviceVars, cache, kr>>
     ELSE os_put_cached_semaphore(t, tmp[t]) /\ UNCHANGED dsema_sema
  /\ tmp' = [tmp EXCEPT ![t] = NoSema]
  /\ SemaGoto(t, AfterCreate(t))
  /\ UNCHANGED <<alive, dsema_value, dsema_orig, call, sema_crash>>

\* _dispatch_sema4_signal, the end of _dispatch_semaphore_signal_slow.
_dispatch_sema4_signal(t) ==
  /\ sema_pc[t] = "signal"
  /\ \/ Post(dsema_sema) /\ SemaDone(t) /\ UNCHANGED <<kr, sema_crash>>
     \/ /\ \E x \in sleepers[dsema_sema] :
             Wake(dsema_sema, {x}) /\ kr' = [kr EXCEPT ![x] = "KERN_SUCCESS"]
        /\ SemaDone(t) /\ UNCHANGED sema_crash
     \/ /\ dsema_sema \notin live
        /\ sema_crash' = "mach" /\ UNCHANGED <<serviceVars, sema_pc, call, kr>>
  /\ UNCHANGED <<alive, dsema_value, dsema_orig, dsema_sema, cache, tmp>>

\* _dispatch_sema4_wait and _dispatch_sema4_timedwait enter the kernel: a
\* unit, sleep, or nothing if no time is left.
_dispatch_sema4_wait(t) ==
  /\ sema_pc[t] \in WaitLabels /\ kr[t] = "none"
  /\ \/ /\ Take(dsema_sema)
        /\ kr' = [kr EXCEPT ![t] = "KERN_SUCCESS"]
        /\ UNCHANGED <<sema_pc, call, sema_crash>>
     \/ /\ Sleep(t, dsema_sema)
        /\ kr' = [kr EXCEPT ![t] = "asleep"]
        /\ UNCHANGED <<sema_pc, call, sema_crash>>
     \/ /\ sema_pc[t] = "timedwait" /\ dsema_sema \in live /\ units[dsema_sema] = 0
        /\ SemaGoto(t, "undo")
        /\ UNCHANGED <<serviceVars, call, kr, sema_crash>>
     \/ /\ dsema_sema \notin live
        /\ sema_crash' = "mach" /\ UNCHANGED <<serviceVars, sema_pc, call, kr>>
  /\ UNCHANGED <<alive, dsema_value, dsema_orig, dsema_sema, cache, tmp>>

\* The deadline of a timed wait passes, or the sleeper is aborted.
SleepEnds(t, r) ==
  /\ kr[t] = "asleep"
  /\ r = "KERN_ABORTED" \/ (r = "KERN_OPERATION_TIMED_OUT" /\ sema_pc[t] = "timedwait")
  /\ Leave(t, dsema_sema)
  /\ kr' = [kr EXCEPT ![t] = r]
  /\ UNCHANGED <<alive, dsema_value, dsema_orig, dsema_sema, cache, tmp, sema_pc, call,
                 sema_crash>>

\* The wait comes back: an aborted wait is repeated, and a wait that
\* timed out has something to undo.
WaitReturns(t) ==
  /\ kr[t] \notin {"none", "asleep"}
  /\ kr' = [kr EXCEPT ![t] = "none"]
  /\ \/ kr[t] = "KERN_SUCCESS" /\ SemaDone(t) /\ UNCHANGED sema_crash
     \/ kr[t] = "KERN_ABORTED" /\ UNCHANGED <<sema_pc, call, sema_crash>>
     \/ /\ kr[t] = "KERN_OPERATION_TIMED_OUT"
        /\ SemaGoto(t, "undo") /\ UNCHANGED <<call, sema_crash>>
     \/ /\ kr[t] = "KERN_TERMINATED"
        /\ sema_crash' = "mach" /\ UNCHANGED <<sema_pc, call>>
  /\ UNCHANGED <<serviceVars, alive, dsema_value, dsema_orig, dsema_sema, cache, tmp>>

\* Mutant: the wait that timed out gives its unit back whatever happened.
undo_always(t) ==
  /\ sema_pc[t] = "undo"
  /\ dsema_value' = dsema_value + 1 /\ SemaDone(t)
  /\ UNCHANGED <<serviceVars, alive, dsema_orig, dsema_sema, cache, tmp, kr, sema_crash>>

\* Mutant: a wait that has nothing to undo returns without draining.
undo_without_drain(t) ==
  /\ sema_pc[t] = "undo"
  /\ IF dsema_value < 0 THEN dsema_value' = dsema_value + 1 ELSE UNCHANGED dsema_value
  /\ SemaDone(t)
  /\ UNCHANGED <<serviceVars, alive, dsema_orig, dsema_sema, cache, tmp, kr, sema_crash>>

\* The loop of _dispatch_semaphore_wait_slow that tries to undo what the
\* fast path did; if there is nothing left to undo, a signal is on its way
\* and is waited for.
_dispatch_semaphore_wait_slow(t) ==
  /\ sema_pc[t] = "undo"
  /\ IF dsema_value < 0
     THEN dsema_value' = dsema_value + 1 /\ SemaDone(t)
     ELSE SemaGoto(t, "drain") /\ UNCHANGED <<dsema_value, call>>
  /\ UNCHANGED <<serviceVars, alive, dsema_orig, dsema_sema, cache, tmp, kr, sema_crash>>

\* _dispatch_semaphore_dispose, when the last reference goes: no call is in
\* progress.
_dispatch_semaphore_dispose(t) ==
  /\ alive /\ \A u \in Callers : sema_pc[u] = "idle"
  /\ IF dsema_value < dsema_orig
     THEN sema_crash' = "in_use" /\ UNCHANGED <<serviceVars, alive, dsema_sema, cache, kr>>
     ELSE /\ alive' = FALSE /\ dsema_sema' = NoSema
          /\ IF dsema_sema = NoSema THEN UNCHANGED <<serviceVars, cache, kr>>
             ELSE os_put_cached_semaphore(t, dsema_sema)
          /\ UNCHANGED sema_crash
  /\ UNCHANGED <<dsema_value, dsema_orig, tmp, sema_pc, call>>

\* The code goes on; no client has to do anything for it.
SemaStep(t) ==
  \/ _dispatch_sema4_create(t) \/ _dispatch_sema4_create_slow(t)
  \/ _dispatch_sema4_signal(t) \/ _dispatch_sema4_wait(t)
  \/ WaitReturns(t) \/ _dispatch_semaphore_wait_slow(t)

SemaClient(t) ==
  \/ dispatch_semaphore_signal(t)
  \/ \E timeout \in DISPATCH_TIMES : dispatch_semaphore_wait(t, timeout)
  \/ _dispatch_semaphore_dispose(t)

SemaNext ==
  /\ sema_crash = "none"
  /\ \/ \E v \in 0..MaxValue : dispatch_semaphore_create(v)
     \/ \E t \in Callers :
          SemaClient(t) \/ SemaStep(t)
            \/ \E r \in {"KERN_ABORTED", "KERN_OPERATION_TIMED_OUT"} : SleepEnds(t, r)

SemaSpec == SemaInit /\ [][SemaNext]_semaVars

\* The threads are scheduled.  The deadline of a timed wait comes, and then
\* ends any later sleep of the call as well, since a wait that was aborted
\* is repeated with what is left of the timeout.  An abort may be withheld
\* for ever, and no client has to call anything.
SemaFairness ==
  \A t \in Callers :
    /\ WF_semaVars(sema_crash = "none" /\ SemaStep(t))
    /\ SF_semaVars(sema_crash = "none" /\ SleepEnds(t, "KERN_OPERATION_TIMED_OUT"))

SemaFairSpec == SemaSpec /\ SemaFairness
-----------------------------------------------------------------------------
\* A wait that has its unit and has not returned yet.
Granted(t) == kr[t] = "KERN_SUCCESS"

\* Threads that counted themselves in dsema_value and have no unit yet.
Waiting == {t \in Callers : call[t] \in DISPATCH_TIMES /\ ~Granted(t)}

\* Signals that have been counted and have not reached the Mach semaphore.
Pending == {t \in Callers : call[t] = "signal"}

Positive(n) == IF n > 0 THEN n ELSE 0

KernelUnits == IF dsema_sema = NoSema THEN 0 ELSE units[dsema_sema]

\* The comment in dispatch_semaphore_create: "If the internal value is
\* negative, then the absolute of the value is equal to the number of
\* waiting threads."  Counting the threads whose signal is under way too:
\* no thread is left waiting for a unit that was given, and the thread that
\* finds nothing to undo after its timeout has a signal to drain.
WaitersBalance ==
  alive => Cardinality(Waiting)
             = Positive(-dsema_value) + Cardinality(Pending) + KernelUnits

\* The system calls never fail in a way that the library takes for a use
\* after free or an internal error, although a Mach semaphore passes through
\* the caches from one dispatch semaphore to the next.
NoMachFailure == sema_crash # "mach"

\* How a thread stands with the abstract semaphore, and what that has to give.
Standing(t) ==
  IF call[t] \notin DISPATCH_TIMES THEN "idle"
  ELSE IF Granted(t) THEN "granted"
  ELSE IF call[t] = "DISPATCH_TIME_FOREVER" THEN "forever" ELSE "timed"

Status == [t \in Callers |-> Standing(t)]

Permits == Positive(dsema_value) + Cardinality(Pending) + KernelUnits

Abstract ==
  INSTANCE CountingSemaphore WITH
    Threads <- Callers, permits <- Permits, status <- Status

\* Each signal lets one wait through and no more: the semaphore implements a
\* counter of permits that is never overdrawn, whoever times out in the race
\* with a signal, and whatever is left in a Mach semaphore that the next
\* object takes from a cache.
ImplementsCounter == Abstract!Spec

\* When clients stop calling, a signal that was counted while threads waited
\* reaches one of them and leaves no unit behind in the Mach semaphore: a
\* thread that finds nothing to undo after its timeout does drain it.
WakeupsDrained ==
  <>[][\A t \in Callers : ~SemaClient(t)]_semaVars
  => <>[](sema_crash # "none" \/ (Pending = {} /\ KernelUnits = 0))
=============================================================================
