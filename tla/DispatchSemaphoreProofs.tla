---------------------- MODULE DispatchSemaphoreProofs ----------------------
(***************************************************************************)
(* dispatch_semaphore_t for any number of threads and of Mach semaphores:  *)
(* no waiter is left behind, no system call fails, and the semaphore       *)
(* implements a counter of permits.                                        *)
(***************************************************************************)
EXTENDS DispatchSemaphore, TLAPS

\* Sets of threads can be counted; SemaAssumption says that Callers is finite.
CallersCount ==
  \A S \in SUBSET Callers :
    /\ Cardinality(S) \in Nat /\ (Cardinality(S) = 0 <=> S = {})
    /\ \A x \in S : Cardinality(S \ {x}) = Cardinality(S) - 1
    /\ \A x \in Callers \ S : Cardinality(S \cup {x}) = Cardinality(S) + 1

\* What the position of a thread says of its call.
CallInv ==
  \A t \in Callers :
    /\ sema_pc[t] = "idle" <=> call[t] = "none"
    /\ sema_pc[t] = "signal" => call[t] = "signal"
    /\ sema_pc[t] \in {"undo", "drain"} => call[t] \in {"DISPATCH_TIME_NOW", "timed"}
    /\ sema_pc[t] = "timedwait" => call[t] = "timed"
    /\ sema_pc[t] = "wait" => call[t] = "DISPATCH_TIME_FOREVER"
    /\ sema_pc[t] # "idle" => alive
    /\ sema_pc[t] \in {"signal", "undo"} \cup WaitLabels => dsema_sema # NoSema
    /\ tmp[t] # NoSema <=> sema_pc[t] = "publish"

\* What the result of a wait says of its position; nobody finds the Mach
\* semaphore gone.
ResultInv ==
  \A t \in Callers :
    /\ kr[t] # "none" => sema_pc[t] \in WaitLabels
    /\ kr[t] = "KERN_OPERATION_TIMED_OUT" => sema_pc[t] = "timedwait"
    /\ kr[t] # "KERN_TERMINATED"

\* The Mach semaphores of the object, of the caches and of the threads that
\* are about to publish one are alive, and no two are the same.
OwnInv ==
  /\ dsema_sema # NoSema => alive /\ dsema_sema \in live
  /\ \A t \in Callers :
       /\ cache[t] # NoSema => cache[t] \in live /\ cache[t] # dsema_sema
       /\ tmp[t] # NoSema => tmp[t] \in live /\ tmp[t] # dsema_sema
       /\ \A u \in Callers :
            /\ cache[t] # NoSema => cache[t] # tmp[u] /\ (cache[t] = cache[u] => t = u)
            /\ tmp[t] # NoSema /\ tmp[t] = tmp[u] => t = u

\* Only the Mach semaphore of the object has units or sleepers.
SleepInv ==
  \A s \in Semas :
    /\ units[s] # 0 => s = dsema_sema
    /\ \A t \in Callers : t \in sleepers[s] <=> s = dsema_sema /\ kr[t] = "asleep"

SemaInv ==
  /\ SemaTypeOK /\ CallInv /\ ResultInv /\ OwnInv /\ SleepInv
  /\ WaitersBalance /\ NoMachFailure
-----------------------------------------------------------------------------
\* Where the slow path of a call goes when it has a Mach semaphore.
LEMMA Labels ==
  ASSUME SemaTypeOK, CallInv, NEW t \in Callers, sema_pc[t] # "idle"
  PROVE  \/ call[t] = "signal" /\ AfterCreate(t) = "signal"
         \/ call[t] = "DISPATCH_TIME_NOW" /\ AfterCreate(t) = "undo"
         \/ call[t] = "timed" /\ AfterCreate(t) = "timedwait"
         \/ call[t] = "DISPATCH_TIME_FOREVER" /\ AfterCreate(t) = "wait"
  BY DEF SemaTypeOK, CallInv, AfterCreate, DISPATCH_TIMES

\* The Mach semaphore that the kernel makes is nobody's.
LEMMA NewSemaNew ==
  ASSUME Semas \ live # {} PROVE NewSema \in Semas \ live
  BY Zenon DEF NewSema

\* A thread that keeps s in its cache destroys the semaphore that was there,
\* on which nobody sleeps and in which there are no units.
Kept(t, s) ==
  /\ live' = live \ {cache[t]}
  /\ cache' = [cache EXCEPT ![t] = s]
  /\ kr' = kr /\ units' = units /\ sleepers' = sleepers

\* A disposal ends in the crash of a semaphore in use, or leaves the Mach
\* semaphore to the cache of the thread.
Disposed(t) ==
  /\ alive /\ \A u \in Callers : sema_pc[u] = "idle"
  /\ dsema_value' = dsema_value /\ dsema_orig' = dsema_orig /\ tmp' = tmp
  /\ sema_pc' = sema_pc /\ call' = call
  /\ units' = units /\ sleepers' = sleepers /\ kr' = kr
  /\ \/ /\ sema_crash' = "in_use" /\ alive' = alive /\ dsema_sema' = dsema_sema
        /\ live' = live /\ cache' = cache
     \/ /\ sema_crash' = sema_crash /\ alive' = FALSE /\ dsema_sema' = NoSema
        /\ \/ dsema_sema = NoSema /\ live' = live /\ cache' = cache
           \/ dsema_sema # NoSema /\ Kept(t, dsema_sema)

\* The thread that loses the race to publish keeps its semaphore.
Published(t) ==
  /\ sema_pc[t] = "publish" /\ SemaGoto(t, AfterCreate(t))
  /\ tmp' = [tmp EXCEPT ![t] = NoSema]
  /\ alive' = alive /\ dsema_value' = dsema_value /\ dsema_orig' = dsema_orig
  /\ call' = call /\ sema_crash' = sema_crash
  /\ units' = units /\ sleepers' = sleepers /\ kr' = kr
  /\ \/ dsema_sema = NoSema /\ dsema_sema' = tmp[t] /\ live' = live /\ cache' = cache
     \/ dsema_sema # NoSema /\ dsema_sema' = dsema_sema /\ Kept(t, tmp[t])

\* A thread without a Mach semaphore takes one from its cache or has one made.
Obtained(t) ==
  /\ sema_pc[t] = "create"
  /\ alive' = alive /\ dsema_value' = dsema_value /\ dsema_orig' = dsema_orig
  /\ dsema_sema' = dsema_sema /\ call' = call /\ kr' = kr /\ sema_crash' = sema_crash
  /\ units' = units /\ sleepers' = sleepers
  /\ \/ /\ dsema_sema # NoSema /\ SemaGoto(t, AfterCreate(t))
        /\ live' = live /\ cache' = cache /\ tmp' = tmp
     \/ /\ dsema_sema = NoSema /\ cache[t] # NoSema /\ SemaGoto(t, "publish")
        /\ live' = live /\ cache' = [cache EXCEPT ![t] = NoSema]
        /\ tmp' = [tmp EXCEPT ![t] = cache[t]]
     \/ /\ dsema_sema = NoSema /\ cache[t] = NoSema /\ SemaGoto(t, "publish")
        /\ cache' = cache
        /\ \E s \in Semas \ live : live' = live \cup {s} /\ tmp' = [tmp EXCEPT ![t] = s]

\* A signal leaves a unit or wakes a sleeper.
Signalled(t) ==
  /\ sema_pc[t] = "signal" /\ SemaDone(t)
  /\ alive' = alive /\ dsema_value' = dsema_value /\ dsema_orig' = dsema_orig
  /\ dsema_sema' = dsema_sema /\ cache' = cache /\ tmp' = tmp
  /\ sema_crash' = sema_crash /\ live' = live
  /\ \/ kr' = kr /\ sleepers' = sleepers
        /\ units' = [units EXCEPT ![dsema_sema] = units[dsema_sema] + 1]
     \/ \E x \in Callers :
          /\ kr[x] = "asleep" /\ kr' = [kr EXCEPT ![x] = "KERN_SUCCESS"]
          /\ units' = units
          /\ sleepers' = [sleepers EXCEPT ![dsema_sema] = sleepers[dsema_sema] \ {x}]

\* A wait takes a unit, or sleeps, or finds that no time is left.
Waited(t) ==
  /\ sema_pc[t] \in WaitLabels /\ kr[t] = "none" /\ call' = call
  /\ alive' = alive /\ dsema_value' = dsema_value /\ dsema_orig' = dsema_orig
  /\ dsema_sema' = dsema_sema /\ cache' = cache /\ tmp' = tmp
  /\ sema_crash' = sema_crash /\ live' = live
  /\ \/ /\ kr' = [kr EXCEPT ![t] = "KERN_SUCCESS"] /\ units[dsema_sema] > 0
        /\ units' = [units EXCEPT ![dsema_sema] = units[dsema_sema] - 1]
        /\ sleepers' = sleepers /\ sema_pc' = sema_pc
     \/ /\ kr' = [kr EXCEPT ![t] = "asleep"]
        /\ sleepers' = [sleepers EXCEPT ![dsema_sema] = sleepers[dsema_sema] \cup {t}]
        /\ units' = units /\ sema_pc' = sema_pc
     \/ /\ sema_pc[t] = "timedwait" /\ SemaGoto(t, "undo")
        /\ kr' = kr /\ units' = units /\ sleepers' = sleepers

\* A wait that comes back succeeded, was aborted or timed out.
Returned(t) ==
  /\ kr' = [kr EXCEPT ![t] = "none"]
  /\ alive' = alive /\ dsema_value' = dsema_value /\ dsema_orig' = dsema_orig
  /\ dsema_sema' = dsema_sema /\ cache' = cache /\ tmp' = tmp
  /\ sema_crash' = sema_crash /\ live' = live /\ units' = units /\ sleepers' = sleepers
  /\ \/ kr[t] = "KERN_SUCCESS" /\ SemaDone(t)
     \/ kr[t] = "KERN_ABORTED" /\ sema_pc' = sema_pc /\ call' = call
     \/ kr[t] = "KERN_OPERATION_TIMED_OUT" /\ SemaGoto(t, "undo") /\ call' = call

\* A step: the creation of an object, or a step of one thread.
Step ==
  \/ \E v \in 0..MaxValue : dispatch_semaphore_create(v)
  \/ \E t \in Callers :
       \/ dispatch_semaphore_signal(t)
       \/ \E timeout \in DISPATCH_TIMES : dispatch_semaphore_wait(t, timeout)
       \/ Disposed(t) \/ Obtained(t) \/ Published(t) \/ Signalled(t) \/ Waited(t)
       \/ Returned(t) \/ _dispatch_semaphore_wait_slow(t)
       \/ \E r \in {"KERN_ABORTED", "KERN_OPERATION_TIMED_OUT"} : SleepEnds(t, r)

\* What os_put_cached_semaphore does to the state.
LEMMA PutCached ==
  ASSUME SemaTypeOK, OwnInv, SleepInv, NEW t \in Callers, NEW s, os_put_cached_semaphore(t, s)
  PROVE  Kept(t, s)
  <1>1. CASE cache[t] = NoSema
    <2>1. NoSema \notin live
      BY SemaAssumption, Zenon DEF SemaTypeOK
    <2> QED BY <1>1, <2>1, Zenon DEF os_put_cached_semaphore, serviceVars, Kept
  <1>2. CASE cache[t] # NoSema
    <2>1. /\ cache' = [cache EXCEPT ![t] = s]
          /\ Destroy(cache[t])
          /\ kr' = [u \in Callers |->
                      IF u \in sleepers[cache[t]] THEN "KERN_TERMINATED" ELSE kr[u]]
      BY <1>2, Zenon DEF os_put_cached_semaphore
    <2>2. cache[t] \in Semas /\ cache[t] # dsema_sema
      BY <1>2, Zenon DEF SemaTypeOK, OwnInv
    <2>3. units[cache[t]] = 0 /\ sleepers[cache[t]] = {}
      BY <2>2, Zenon DEF SemaTypeOK, SleepInv
    <2>4. units' = units /\ sleepers' = sleepers
      BY <2>1, <2>2, <2>3, Zenon DEF Destroy, SemaTypeOK
    <2>5. kr' = kr
      BY <2>1, <2>3, Zenon DEF SemaTypeOK
    <2> QED BY <2>1, <2>4, <2>5, Zenon DEF Destroy, Kept
  <1> QED BY <1>1, <1>2, Zenon

\* What _dispatch_semaphore_dispose does to the state.
LEMMA Disposal ==
  ASSUME SemaTypeOK, OwnInv, SleepInv, NEW t \in Callers, _dispatch_semaphore_dispose(t)
  PROVE  Disposed(t)
  <1> USE DEF Disposed
  <1>1. CASE dsema_value < dsema_orig
    BY <1>1, Zenon DEF _dispatch_semaphore_dispose, serviceVars
  <1>2. CASE ~(dsema_value < dsema_orig) /\ dsema_sema = NoSema
    BY <1>2, Zenon DEF _dispatch_semaphore_dispose, serviceVars
  <1>3. CASE ~(dsema_value < dsema_orig) /\ dsema_sema # NoSema
    <2>1. Kept(t, dsema_sema)
      BY <1>3, PutCached, Zenon DEF _dispatch_semaphore_dispose
    <2> QED BY <1>3, <2>1, Zenon DEF _dispatch_semaphore_dispose, Kept
  <1> QED BY <1>1, <1>2, <1>3, Zenon

\* What the compare-and-swap of _dispatch_sema4_create_slow does to the state.
LEMMA Publication ==
  ASSUME SemaTypeOK, OwnInv, SleepInv, NEW t \in Callers, _dispatch_sema4_create_slow(t)
  PROVE  Published(t)
  <1> USE DEF Published
  <1>1. CASE dsema_sema = NoSema
    BY <1>1, Zenon DEF _dispatch_sema4_create_slow, serviceVars
  <1>2. CASE dsema_sema # NoSema
    <2>1. Kept(t, tmp[t])
      BY <1>2, PutCached, Zenon DEF _dispatch_sema4_create_slow
    <2> QED BY <1>2, <2>1, Zenon DEF _dispatch_sema4_create_slow, Kept
  <1> QED BY <1>1, <1>2, Zenon

\* What _dispatch_sema4_create does to the state.
LEMMA Creation ==
  ASSUME SemaTypeOK, NEW t \in Callers, _dispatch_sema4_create(t)
  PROVE  Obtained(t)
  <1> USE DEF Obtained
  <1>1. CASE dsema_sema # NoSema \/ cache[t] # NoSema
    BY <1>1, Zenon DEF _dispatch_sema4_create, serviceVars
  <1>2. CASE dsema_sema = NoSema /\ cache[t] = NoSema
    BY <1>2, NewSemaNew, Zenon DEF _dispatch_sema4_create, Create
  <1> QED BY <1>1, <1>2, Zenon

\* A system call in the slow paths is about the live semaphore of the object.
LEMMA SemaLive ==
  ASSUME SemaTypeOK, CallInv, OwnInv, NEW t \in Callers,
         sema_pc[t] \in {"signal"} \cup WaitLabels
  PROVE  alive /\ dsema_sema \in Semas /\ dsema_sema \in live /\ dsema_sema # NoSema
  BY Zenon DEF SemaTypeOK, CallInv, OwnInv

\* What _dispatch_sema4_signal does to the state: the system call does not fail.
LEMMA Signalling ==
  ASSUME SemaTypeOK, CallInv, OwnInv, SleepInv, NEW t \in Callers, _dispatch_sema4_signal(t)
  PROVE  Signalled(t)
  <1> USE DEF Signalled
  <1>1. sema_pc[t] = "signal"
    BY Zenon DEF _dispatch_sema4_signal
  <1>2. dsema_sema \in live /\ dsema_sema \in Semas
    BY <1>1, SemaLive, Zenon
  <1>3. CASE Post(dsema_sema) /\ SemaDone(t) /\ UNCHANGED <<kr, sema_crash>>
    BY <1>1, <1>3, Zenon DEF _dispatch_sema4_signal, Post
  <1>4. CASE /\ \E x \in sleepers[dsema_sema] :
                  Wake(dsema_sema, {x}) /\ kr' = [kr EXCEPT ![x] = "KERN_SUCCESS"]
             /\ SemaDone(t) /\ UNCHANGED sema_crash
    <2>1. PICK x \in sleepers[dsema_sema] :
                 Wake(dsema_sema, {x}) /\ kr' = [kr EXCEPT ![x] = "KERN_SUCCESS"]
      BY <1>4, Zenon
    <2>2. x \in Callers /\ kr[x] = "asleep"
      BY <1>2, <2>1, Zenon DEF SleepInv, SemaTypeOK
    <2> QED BY <1>1, <1>4, <2>1, <2>2, Zenon DEF _dispatch_sema4_signal, Wake
  <1> QED BY <1>2, <1>3, <1>4, Zenon DEF _dispatch_sema4_signal

\* What a wait does to the state: the system call does not fail.
LEMMA KernelWait ==
  ASSUME SemaTypeOK, CallInv, OwnInv, NEW t \in Callers, _dispatch_sema4_wait(t)
  PROVE  Waited(t)
  <1> USE DEF Waited
  <1>1. sema_pc[t] \in WaitLabels /\ kr[t] = "none"
    BY Zenon DEF _dispatch_sema4_wait
  <1>2. dsema_sema \in live
    BY <1>1, SemaLive, Zenon
  <1> QED BY <1>1, <1>2, ZenonT(30) DEF _dispatch_sema4_wait, Take, Sleep, serviceVars

\* What the end of a wait does to the state: no semaphore was terminated.
LEMMA WaitReturned ==
  ASSUME ResultInv, NEW t \in Callers, WaitReturns(t)
  PROVE  Returned(t)
  BY ZenonT(30) DEF Returned, WaitReturns, ResultInv, serviceVars

\* The next-state relation allows no other steps.
LEMMA Steps ==
  ASSUME SemaInv, SemaNext
  PROVE  Step
  BY Disposal, Creation, Publication, Signalling, KernelWait, WaitReturned, ZenonT(30)
  DEF SemaInv, SemaNext, SemaClient, SemaStep, Step

\* Every step preserves the type invariant.
LEMMA TypeStep ==
  ASSUME SemaTypeOK, CallInv, Step
  PROVE  SemaTypeOK'
  <1>1. ASSUME NEW v \in 0..MaxValue, dispatch_semaphore_create(v) PROVE SemaTypeOK'
    BY <1>1, SemaAssumption, Labels
    DEF dispatch_semaphore_create, serviceVars, SemaTypeOK, CallInv, WaitLabels,
        DISPATCH_TIMES
  <1>2. ASSUME NEW t \in Callers, dispatch_semaphore_signal(t) PROVE SemaTypeOK'
    BY <1>2, SemaAssumption, Labels
    DEF dispatch_semaphore_signal, SemaGoto, serviceVars, SemaTypeOK, CallInv, WaitLabels,
        DISPATCH_TIMES
  <1>3. ASSUME NEW t \in Callers, NEW timeout \in DISPATCH_TIMES,
               dispatch_semaphore_wait(t, timeout) PROVE SemaTypeOK'
    BY <1>3, SemaAssumption, Labels
    DEF dispatch_semaphore_wait, SemaGoto, serviceVars, SemaTypeOK, CallInv, WaitLabels,
        DISPATCH_TIMES
  <1>4. ASSUME NEW t \in Callers, Disposed(t) PROVE SemaTypeOK'
    <2>1. CASE cache' = cache
      BY <1>4, <2>1, SemaAssumption, Zenon DEF Disposed, Kept, SemaTypeOK
    <2>2. CASE dsema_sema # NoSema /\ Kept(t, dsema_sema) /\ dsema_sema' = NoSema
      <3>1. live' \in SUBSET Semas /\ cache' \in [Callers -> Semas \cup {NoSema}]
        BY <2>2, Zenon DEF Kept, SemaTypeOK
      <3> QED BY <1>4, <2>2, <3>1, Zenon DEF Disposed, SemaTypeOK
    <2> QED BY <1>4, <2>1, <2>2, Zenon DEF Disposed
  <1>5. ASSUME NEW t \in Callers, Obtained(t) PROVE SemaTypeOK'
    BY <1>5, SemaAssumption, Labels
    DEF Obtained, SemaGoto, SemaTypeOK, CallInv, WaitLabels, DISPATCH_TIMES
  <1>6. ASSUME NEW t \in Callers, Published(t) PROVE SemaTypeOK'
    BY <1>6, SemaAssumption, Labels
    DEF Published, Kept, SemaGoto, SemaTypeOK, CallInv, WaitLabels, DISPATCH_TIMES
  <1>7. ASSUME NEW t \in Callers, Signalled(t) PROVE SemaTypeOK'
    BY <1>7, SemaAssumption, Labels
    DEF Signalled, SemaDone, SemaGoto, SemaTypeOK, CallInv, WaitLabels, DISPATCH_TIMES
  <1>8. ASSUME NEW t \in Callers, Waited(t) PROVE SemaTypeOK'
    BY <1>8, SemaAssumption, Labels
    DEF Waited, SemaGoto, SemaTypeOK, CallInv, WaitLabels, DISPATCH_TIMES
  <1>9. ASSUME NEW t \in Callers, Returned(t) PROVE SemaTypeOK'
    BY <1>9, SemaAssumption, Labels
    DEF Returned, SemaDone, SemaGoto, SemaTypeOK, CallInv, WaitLabels, DISPATCH_TIMES
  <1>10. ASSUME NEW t \in Callers, _dispatch_semaphore_wait_slow(t) PROVE SemaTypeOK'
    BY <1>10, SemaAssumption, Labels
    DEF _dispatch_semaphore_wait_slow, SemaDone, SemaGoto, serviceVars, SemaTypeOK,
        CallInv, WaitLabels, DISPATCH_TIMES
  <1>11. ASSUME NEW t \in Callers, NEW r \in {"KERN_ABORTED", "KERN_OPERATION_TIMED_OUT"},
               SleepEnds(t, r) PROVE SemaTypeOK'
    BY <1>11, SemaAssumption, Labels, Zenon
    DEF SleepEnds, Leave, SemaTypeOK, CallInv, WaitLabels, DISPATCH_TIMES
  <1> QED BY <1>1, <1>2, <1>3, <1>4, <1>5, <1>6, <1>7, <1>8, <1>9, <1>10, <1>11, Zenon
          DEF Step

\* Every step leaves each thread where its call leads.
LEMMA CallStep ==
  ASSUME SemaTypeOK, CallInv, ResultInv, OwnInv, Step
  PROVE  CallInv'
  <1>1. ASSUME NEW v \in 0..MaxValue, dispatch_semaphore_create(v) PROVE CallInv'
    BY <1>1, SemaAssumption, Labels, Zenon
    DEF dispatch_semaphore_create, serviceVars, SemaTypeOK, CallInv, ResultInv, OwnInv,
        WaitLabels, DISPATCH_TIMES
  <1>2. ASSUME NEW t \in Callers, dispatch_semaphore_signal(t) PROVE CallInv'
    BY <1>2, SemaAssumption, Labels
    DEF dispatch_semaphore_signal, SemaGoto, serviceVars, SemaTypeOK, CallInv, ResultInv,
        OwnInv, WaitLabels, DISPATCH_TIMES
  <1>3. ASSUME NEW t \in Callers, NEW timeout \in DISPATCH_TIMES,
               dispatch_semaphore_wait(t, timeout) PROVE CallInv'
    BY <1>3, SemaAssumption, Labels
    DEF dispatch_semaphore_wait, SemaGoto, serviceVars, SemaTypeOK, CallInv, ResultInv,
        OwnInv, WaitLabels, DISPATCH_TIMES
  <1>4. ASSUME NEW t \in Callers, Disposed(t) PROVE CallInv'
    BY <1>4, SemaAssumption, Labels, Zenon
    DEF Disposed, Kept, SemaTypeOK, CallInv, ResultInv, OwnInv, WaitLabels, DISPATCH_TIMES
  <1>5. ASSUME NEW t \in Callers, Obtained(t) PROVE CallInv'
    BY <1>5, SemaAssumption, Labels
    DEF Obtained, SemaGoto, SemaTypeOK, CallInv, ResultInv, OwnInv, WaitLabels,
        DISPATCH_TIMES
  <1>6. ASSUME NEW t \in Callers, Published(t) PROVE CallInv'
    BY <1>6, SemaAssumption, Labels
    DEF Published, Kept, SemaGoto, SemaTypeOK, CallInv, ResultInv, OwnInv, WaitLabels,
        DISPATCH_TIMES
  <1>7. ASSUME NEW t \in Callers, Signalled(t) PROVE CallInv'
    BY <1>7, SemaAssumption, Labels
    DEF Signalled, SemaDone, SemaGoto, SemaTypeOK, CallInv, ResultInv, OwnInv, WaitLabels,
        DISPATCH_TIMES
  <1>8. ASSUME NEW t \in Callers, Waited(t) PROVE CallInv'
    BY <1>8, SemaAssumption, Labels
    DEF Waited, SemaGoto, SemaTypeOK, CallInv, ResultInv, OwnInv, WaitLabels, DISPATCH_TIMES
  <1>9. ASSUME NEW t \in Callers, Returned(t) PROVE CallInv'
    BY <1>9, SemaAssumption, Labels
    DEF Returned, SemaDone, SemaGoto, SemaTypeOK, CallInv, ResultInv, OwnInv, WaitLabels,
        DISPATCH_TIMES
  <1>10. ASSUME NEW t \in Callers, _dispatch_semaphore_wait_slow(t) PROVE CallInv'
    BY <1>10, SemaAssumption, Labels
    DEF _dispatch_semaphore_wait_slow, SemaDone, SemaGoto, serviceVars, SemaTypeOK,
        CallInv, ResultInv, OwnInv, WaitLabels, DISPATCH_TIMES
  <1>11. ASSUME NEW t \in Callers, NEW r \in {"KERN_ABORTED", "KERN_OPERATION_TIMED_OUT"},
               SleepEnds(t, r) PROVE CallInv'
    BY <1>11, SemaAssumption, Labels, Zenon
    DEF SleepEnds, Leave, SemaTypeOK, CallInv, ResultInv, OwnInv, WaitLabels, DISPATCH_TIMES
  <1> QED BY <1>1, <1>2, <1>3, <1>4, <1>5, <1>6, <1>7, <1>8, <1>9, <1>10, <1>11, Zenon
          DEF Step

\* Every step keeps the results of the waits in line with their positions.
LEMMA ResultStep ==
  ASSUME SemaTypeOK, ResultInv, CallInv, Step
  PROVE  ResultInv'
  <1>1. ASSUME NEW v \in 0..MaxValue, dispatch_semaphore_create(v) PROVE ResultInv'
    BY <1>1, SemaAssumption, Zenon
    DEF dispatch_semaphore_create, serviceVars, SemaTypeOK, ResultInv, CallInv, WaitLabels
  <1>2. ASSUME NEW t \in Callers, dispatch_semaphore_signal(t) PROVE ResultInv'
    BY <1>2, SemaAssumption
    DEF dispatch_semaphore_signal, SemaGoto, serviceVars, SemaTypeOK, ResultInv, CallInv,
        WaitLabels
  <1>3. ASSUME NEW t \in Callers, NEW timeout \in DISPATCH_TIMES,
               dispatch_semaphore_wait(t, timeout) PROVE ResultInv'
    BY <1>3, SemaAssumption
    DEF dispatch_semaphore_wait, SemaGoto, serviceVars, SemaTypeOK, ResultInv, CallInv,
        WaitLabels
  <1>4. ASSUME NEW t \in Callers, Disposed(t) PROVE ResultInv'
    BY <1>4, SemaAssumption, Zenon
    DEF Disposed, Kept, SemaTypeOK, ResultInv, CallInv, WaitLabels
  <1>5. ASSUME NEW t \in Callers, Obtained(t) PROVE ResultInv'
    BY <1>5, SemaAssumption
    DEF Obtained, SemaGoto, SemaTypeOK, ResultInv, CallInv, WaitLabels
  <1>6. ASSUME NEW t \in Callers, Published(t) PROVE ResultInv'
    BY <1>6, SemaAssumption
    DEF Published, Kept, SemaGoto, SemaTypeOK, ResultInv, CallInv, WaitLabels
  <1>7. ASSUME NEW t \in Callers, Signalled(t) PROVE ResultInv'
    BY <1>7, SemaAssumption
    DEF Signalled, SemaDone, SemaGoto, SemaTypeOK, ResultInv, CallInv, WaitLabels
  <1>8. ASSUME NEW t \in Callers, Waited(t) PROVE ResultInv'
    BY <1>8, SemaAssumption DEF Waited, SemaGoto, SemaTypeOK, ResultInv, CallInv, WaitLabels
  <1>9. ASSUME NEW t \in Callers, Returned(t) PROVE ResultInv'
    BY <1>9, SemaAssumption
    DEF Returned, SemaDone, SemaGoto, SemaTypeOK, ResultInv, CallInv, WaitLabels
  <1>10. ASSUME NEW t \in Callers, _dispatch_semaphore_wait_slow(t) PROVE ResultInv'
    BY <1>10, SemaAssumption
    DEF _dispatch_semaphore_wait_slow, SemaDone, SemaGoto, serviceVars, SemaTypeOK,
        ResultInv, CallInv, WaitLabels
  <1>11. ASSUME NEW t \in Callers, NEW r \in {"KERN_ABORTED", "KERN_OPERATION_TIMED_OUT"},
               SleepEnds(t, r) PROVE ResultInv'
    BY <1>11, SemaAssumption
    DEF SleepEnds, Leave, SemaTypeOK, ResultInv, CallInv, WaitLabels
  <1> QED BY <1>1, <1>2, <1>3, <1>4, <1>5, <1>6, <1>7, <1>8, <1>9, <1>10, <1>11, Zenon
          DEF Step

\* Every step keeps the Mach semaphores of the object, of the caches and of
\* the threads apart.
LEMMA OwnStep ==
  ASSUME SemaTypeOK, CallInv, OwnInv, Step
  PROVE  OwnInv'
  <1>1. ASSUME NEW v \in 0..MaxValue, dispatch_semaphore_create(v) PROVE OwnInv'
    BY <1>1, SemaAssumption, Zenon
    DEF dispatch_semaphore_create, serviceVars, SemaTypeOK, CallInv, OwnInv
  <1>2. ASSUME NEW t \in Callers, dispatch_semaphore_signal(t) PROVE OwnInv'
    BY <1>2, SemaAssumption
    DEF dispatch_semaphore_signal, SemaGoto, serviceVars, SemaTypeOK, CallInv, OwnInv
  <1>3. ASSUME NEW t \in Callers, NEW timeout \in DISPATCH_TIMES,
               dispatch_semaphore_wait(t, timeout) PROVE OwnInv'
    BY <1>3, SemaAssumption
    DEF dispatch_semaphore_wait, SemaGoto, serviceVars, SemaTypeOK, CallInv, OwnInv
  <1>4. ASSUME NEW t \in Callers, Disposed(t) PROVE OwnInv'
    <2>1. \A u \in Callers : tmp[u] = NoSema /\ tmp'[u] = NoSema
      BY <1>4, Zenon DEF Disposed, CallInv
    <2>2. CASE live' = live /\ cache' = cache
      BY <1>4, <2>1, <2>2, Zenon DEF Disposed, Kept, OwnInv
    <2>3. CASE dsema_sema # NoSema /\ Kept(t, dsema_sema) /\ dsema_sema' = NoSema
      <3>1. /\ cache'[t] = dsema_sema /\ \A u \in Callers \ {t} : cache'[u] = cache[u]
            /\ live' = live \ {cache[t]}
        BY <2>3, Zenon DEF Kept, SemaTypeOK
      <3>2. dsema_sema \in live'
        BY <2>3, <3>1, SemaAssumption, Zenon DEF OwnInv, SemaTypeOK
      <3>3. \A u \in Callers \ {t} :
              cache[u] # NoSema => cache[u] \in live' /\ cache[u] # dsema_sema
        BY <3>1, Zenon DEF OwnInv
      <3>4. \A u, v \in Callers : cache'[u] # NoSema /\ cache'[u] = cache'[v] => u = v
        BY <2>3, <3>1, <3>3, Zenon DEF OwnInv
      <3> QED BY <2>1, <2>3, <3>1, <3>2, <3>3, <3>4, Zenon DEF OwnInv
    <2> QED BY <1>4, <2>2, <2>3, Zenon DEF Disposed
  <1>5. ASSUME NEW t \in Callers, Obtained(t) PROVE OwnInv'
    BY <1>5, SemaAssumption DEF Obtained, SemaGoto, SemaTypeOK, CallInv, OwnInv
  <1>6. ASSUME NEW t \in Callers, Published(t) PROVE OwnInv'
    BY <1>6, SemaAssumption DEF Published, Kept, SemaGoto, SemaTypeOK, CallInv, OwnInv
  <1>7. ASSUME NEW t \in Callers, Signalled(t) PROVE OwnInv'
    BY <1>7, SemaAssumption DEF Signalled, SemaDone, SemaGoto, SemaTypeOK, CallInv, OwnInv
  <1>8. ASSUME NEW t \in Callers, Waited(t) PROVE OwnInv'
    BY <1>8, SemaAssumption DEF Waited, SemaGoto, SemaTypeOK, CallInv, OwnInv
  <1>9. ASSUME NEW t \in Callers, Returned(t) PROVE OwnInv'
    BY <1>9, SemaAssumption DEF Returned, SemaDone, SemaGoto, SemaTypeOK, CallInv, OwnInv
  <1>10. ASSUME NEW t \in Callers, _dispatch_semaphore_wait_slow(t) PROVE OwnInv'
    BY <1>10, SemaAssumption
    DEF _dispatch_semaphore_wait_slow, SemaDone, SemaGoto, serviceVars, SemaTypeOK,
        CallInv, OwnInv
  <1>11. ASSUME NEW t \in Callers, NEW r \in {"KERN_ABORTED", "KERN_OPERATION_TIMED_OUT"},
               SleepEnds(t, r) PROVE OwnInv'
    BY <1>11, SemaAssumption, Zenon DEF SleepEnds, Leave, SemaTypeOK, CallInv, OwnInv
  <1> QED BY <1>1, <1>2, <1>3, <1>4, <1>5, <1>6, <1>7, <1>8, <1>9, <1>10, <1>11, Zenon
          DEF Step

\* Every step leaves units and sleepers in the Mach semaphore of the object
\* only: when an object is disposed of, nobody waits, and so no unit is left.
LEMMA SleepStep ==
  ASSUME SemaTypeOK, CallInv, ResultInv, OwnInv, SleepInv, WaitersBalance,
         CallersCount, Step
  PROVE  SleepInv'
  <1>1. ASSUME NEW v \in 0..MaxValue, dispatch_semaphore_create(v) PROVE SleepInv'
    BY <1>1, SemaAssumption, Zenon
    DEF dispatch_semaphore_create, serviceVars, SemaTypeOK, CallInv, ResultInv, OwnInv,
        SleepInv, WaitLabels
  <1>2. ASSUME NEW t \in Callers, dispatch_semaphore_signal(t) PROVE SleepInv'
    BY <1>2, SemaAssumption, Zenon
    DEF dispatch_semaphore_signal, SemaGoto, serviceVars, SemaTypeOK, CallInv, ResultInv,
        OwnInv, SleepInv, WaitLabels
  <1>3. ASSUME NEW t \in Callers, NEW timeout \in DISPATCH_TIMES,
               dispatch_semaphore_wait(t, timeout) PROVE SleepInv'
    BY <1>3, SemaAssumption, Zenon
    DEF dispatch_semaphore_wait, SemaGoto, serviceVars, SemaTypeOK, CallInv, ResultInv,
        OwnInv, SleepInv, WaitLabels
  <1>4. ASSUME NEW t \in Callers, Disposed(t) PROVE SleepInv'
    <2>1. \A u \in Callers : call[u] = "none" /\ kr[u] = "none"
      BY <1>4, Zenon DEF Disposed, CallInv, ResultInv, WaitLabels
    <2>2. Waiting = {} /\ Pending = {}
      BY <2>1, Zenon DEF Waiting, Pending, DISPATCH_TIMES
    <2>3. Cardinality(Waiting) = 0 /\ Cardinality(Pending) \in Nat
      BY <2>2, Zenon DEF CallersCount
    <2>4. KernelUnits \in Nat /\ Positive(-dsema_value) \in Nat
      BY DEF KernelUnits, Positive, SemaTypeOK
    <2>5. KernelUnits = 0
      BY <1>4, <2>3, <2>4 DEF Disposed, WaitersBalance
    <2>6. \A s \in Semas : units[s] = 0
      BY <2>5, SemaAssumption, Zenon DEF KernelUnits, SleepInv
    <2>7. \A s \in Semas, u \in Callers : u \notin sleepers[s] /\ kr[u] # "asleep"
      BY <2>1, Zenon DEF SleepInv
    <2> QED BY <1>4, <2>6, <2>7, Zenon DEF Disposed, SleepInv
  <1>5. ASSUME NEW t \in Callers, Obtained(t) PROVE SleepInv'
    BY <1>5, SemaAssumption, Zenon
    DEF Obtained, SemaGoto, SemaTypeOK, CallInv, ResultInv, OwnInv, SleepInv, WaitLabels
  <1>6. ASSUME NEW t \in Callers, Published(t) PROVE SleepInv'
    BY <1>6, SemaAssumption
    DEF Published, Kept, SemaGoto, SemaTypeOK, CallInv, ResultInv, OwnInv, SleepInv,
        WaitLabels
  <1>7. ASSUME NEW t \in Callers, Signalled(t) PROVE SleepInv'
    BY <1>7, SemaAssumption
    DEF Signalled, SemaDone, SemaGoto, SemaTypeOK, CallInv, ResultInv, OwnInv, SleepInv,
        WaitLabels
  <1>8. ASSUME NEW t \in Callers, Waited(t) PROVE SleepInv'
    BY <1>8, SemaAssumption
    DEF Waited, SemaGoto, SemaTypeOK, CallInv, ResultInv, OwnInv, SleepInv, WaitLabels
  <1>9. ASSUME NEW t \in Callers, Returned(t) PROVE SleepInv'
    BY <1>9, SemaAssumption
    DEF Returned, SemaDone, SemaGoto, SemaTypeOK, CallInv, ResultInv, OwnInv, SleepInv,
        WaitLabels
  <1>10. ASSUME NEW t \in Callers, _dispatch_semaphore_wait_slow(t) PROVE SleepInv'
    BY <1>10, SemaAssumption, Zenon
    DEF _dispatch_semaphore_wait_slow, SemaDone, SemaGoto, serviceVars, SemaTypeOK,
        CallInv, ResultInv, OwnInv, SleepInv, WaitLabels
  <1>11. ASSUME NEW t \in Callers, NEW r \in {"KERN_ABORTED", "KERN_OPERATION_TIMED_OUT"},
               SleepEnds(t, r) PROVE SleepInv'
    BY <1>11, SemaAssumption
    DEF SleepEnds, Leave, SemaTypeOK, CallInv, ResultInv, OwnInv, SleepInv, WaitLabels
  <1> QED BY <1>1, <1>2, <1>3, <1>4, <1>5, <1>6, <1>7, <1>8, <1>9, <1>10, <1>11, Zenon
          DEF Step

-----------------------------------------------------------------------------
\* What a step does to the accounts: to the threads that wait, the signals
\* under way, the units in the kernel, and how each thread stands.
Quiet ==
  /\ Waiting' = Waiting /\ Status' = Status
  /\ Pending' = Pending /\ KernelUnits' = KernelUnits

\* Only the value changes.
Counted(n) == Quiet /\ dsema_value' = dsema_value + n /\ alive' = alive

Renewed ==
  /\ Waiting' = {} /\ Pending' = {} /\ KernelUnits' = 0
  /\ Status' = Status /\ \A u \in Callers : Standing(u) = "idle"
  /\ alive' => dsema_value' \in 0..MaxValue

Unsettled(t) ==   \* a signal that finds waiters
  /\ dsema_value < 0 /\ dsema_value' = dsema_value + 1 /\ alive' = alive
  /\ t \notin Pending /\ Pending' = Pending \cup {t}
  /\ Waiting' = Waiting /\ Status' = Status /\ KernelUnits' = KernelUnits

Joined(t) ==      \* a wait that finds no unit
  /\ dsema_value <= 0 /\ dsema_value' = dsema_value - 1 /\ alive' = alive
  /\ t \notin Waiting /\ Waiting' = Waiting \cup {t} /\ Standing(t) = "idle"
  /\ \E s \in {"timed", "forever"} : Status' = [Status EXCEPT ![t] = s]
  /\ Pending' = Pending /\ KernelUnits' = KernelUnits

Posted(t) ==
  /\ dsema_value' = dsema_value /\ alive' = alive
  /\ t \in Pending /\ Pending' = Pending \ {t} /\ KernelUnits' = KernelUnits + 1
  /\ Waiting' = Waiting /\ Status' = Status

Left(t, s) ==
  /\ t \in Waiting /\ Waiting' = Waiting \ {t}
  /\ Status' = [Status EXCEPT ![t] = s]
  /\ alive' = alive

Woke(t, x) ==
  /\ dsema_value' = dsema_value
  /\ t \in Pending /\ Pending' = Pending \ {t} /\ KernelUnits' = KernelUnits
  /\ Left(x, "granted")

Took(t) ==
  /\ dsema_value' = dsema_value /\ Pending' = Pending
  /\ KernelUnits > 0 /\ KernelUnits' = KernelUnits - 1
  /\ Left(t, "granted")

Undone(t) ==
  /\ dsema_value < 0 /\ dsema_value' = dsema_value + 1
  /\ Pending' = Pending /\ KernelUnits' = KernelUnits
  /\ Standing(t) = "timed" /\ Left(t, "idle")

Ended(t) ==
  /\ dsema_value' = dsema_value /\ alive' = alive
  /\ Waiting' = Waiting /\ Pending' = Pending /\ KernelUnits' = KernelUnits
  /\ Standing(t) = "granted" /\ Status' = [Status EXCEPT ![t] = "idle"]

Account ==
  \/ Renewed \/ Counted(0)
  \/ dsema_value >= 0 /\ Counted(1)
  \/ dsema_value > 0 /\ Counted(-1)
  \/ \E t \in Callers :
       \/ Unsettled(t) \/ Joined(t) \/ Posted(t) \/ Took(t) \/ Undone(t) \/ Ended(t)
       \/ \E x \in Callers : Woke(t, x)

\* Who waits can be told from how the threads stand.
LEMMA WaitingStands ==
  /\ Waiting = {t \in Callers : Standing(t) \in {"timed", "forever"}}
  /\ Waiting' = {t \in Callers : Standing(t)' \in {"timed", "forever"}}
  BY Zenon DEF Waiting, Standing

\* If one thread's standing changes, Waiting and Status change for it alone.
LEMMA OneStands ==
  ASSUME NEW t \in Callers, \A u \in Callers \ {t} : Standing(u)' = Standing(u)
  PROVE  /\ Status' = [Status EXCEPT ![t] = Standing(t)']
         /\ Standing(t)' = Standing(t) => Status' = Status /\ Waiting' = Waiting
         /\ Standing(t)' \in {"idle", "granted"} => Waiting' = Waiting \ {t}
         /\ Standing(t)' \in {"timed", "forever"} => Waiting' = Waiting \cup {t}
  <1>1. Status' = [Status EXCEPT ![t] = Standing(t)']
    BY Zenon DEF Status
  <1>2. Standing(t)' = Standing(t) => Status' = Status
    BY Zenon DEF Status
  <1>3. Standing(t)' = Standing(t) => Waiting' = Waiting
    BY WaitingStands, Zenon
  <1>4. Standing(t)' \in {"idle", "granted"} => Waiting' = Waiting \ {t}
    BY WaitingStands, Zenon
  <1>5. Standing(t)' \in {"timed", "forever"} => Waiting' = Waiting \cup {t}
    BY WaitingStands, Zenon
  <1> QED BY <1>1, <1>2, <1>3, <1>4, <1>5, Zenon

\* If no call and no result changes, nobody's standing does.
LEMMA SameStands ==
  ASSUME call' = call, kr' = kr
  PROVE  Status' = Status /\ Waiting' = Waiting /\ Pending' = Pending
  BY Zenon DEF Status, Standing, Waiting, Granted, Pending

\* Every step is one of the entries in the accounts.
LEMMA AccountStep ==
  ASSUME SemaTypeOK, CallInv, ResultInv, OwnInv, SleepInv, Step
  PROVE  Account
  <1>1. ASSUME NEW v \in 0..MaxValue, dispatch_semaphore_create(v) PROVE Account
    <2>1. \A u \in Callers : call[u] = "none" /\ call'[u] = "none"
      BY <1>1, Zenon DEF dispatch_semaphore_create, CallInv
    <2>2. \A u \in Callers : Standing(u) = "idle" /\ Standing(u)' = "idle"
      BY <2>1, Zenon DEF Standing, DISPATCH_TIMES
    <2>3. Status' = Status
      BY <2>2, Zenon DEF Status
    <2>4. Waiting' = {} /\ Pending' = {}
      BY <2>1, Zenon DEF Waiting, Pending, DISPATCH_TIMES
    <2>5. KernelUnits' = 0 /\ dsema_value' \in 0..MaxValue
      BY <1>1, Zenon DEF dispatch_semaphore_create, KernelUnits
    <2> QED BY <2>2, <2>3, <2>4, <2>5, Zenon DEF Account, Renewed
  <1>2. ASSUME NEW t \in Callers, dispatch_semaphore_signal(t) PROVE Account
    <2>1. KernelUnits' = KernelUnits /\ dsema_value' = dsema_value + 1 /\ alive' = alive
      BY <1>2, Zenon DEF dispatch_semaphore_signal, KernelUnits, serviceVars
    <2>2. CASE dsema_value >= 0
      <3>1. call' = call /\ kr' = kr
        BY <1>2, <2>2 DEF dispatch_semaphore_signal, SemaTypeOK
      <3>2. Quiet
        BY <2>1, <3>1, SameStands, Zenon DEF Quiet
      <3> QED BY <2>1, <2>2, <3>2, Zenon DEF Account, Counted
    <2>3. CASE dsema_value < 0
      <3>1. call' = [call EXCEPT ![t] = "signal"] /\ kr' = kr /\ call[t] = "none"
        BY <1>2, <2>3 DEF dispatch_semaphore_signal, SemaTypeOK, CallInv
      <3>2. \A u \in Callers : Standing(u)' = Standing(u)
        BY <3>1, Zenon DEF Standing, Granted, DISPATCH_TIMES, SemaTypeOK
      <3>3. Pending' = Pending \cup {t} /\ t \notin Pending
        BY <3>1, Zenon DEF Pending, SemaTypeOK
      <3>4. Status' = Status /\ Waiting' = Waiting
        BY <3>2, OneStands, Zenon
      <3> QED BY <2>1, <2>3, <3>3, <3>4, Zenon DEF Account, Unsettled
    <2> QED BY <2>2, <2>3 DEF SemaTypeOK
  <1>3. ASSUME NEW t \in Callers, NEW timeout \in DISPATCH_TIMES,
               dispatch_semaphore_wait(t, timeout) PROVE Account
    <2>1. KernelUnits' = KernelUnits /\ dsema_value' = dsema_value - 1 /\ alive' = alive
      BY <1>3, Zenon DEF dispatch_semaphore_wait, KernelUnits, serviceVars
    <2>2. CASE dsema_value > 0
      <3>1. call' = call /\ kr' = kr
        BY <1>3, <2>2 DEF dispatch_semaphore_wait, SemaTypeOK
      <3>2. Quiet
        BY <2>1, <3>1, SameStands, Zenon DEF Quiet
      <3>3. dsema_value' = dsema_value + (-1)
        BY <2>1, Zenon DEF SemaTypeOK
      <3> QED BY <2>1, <2>2, <3>2, <3>3, Zenon DEF Account, Counted
    <2>3. CASE dsema_value <= 0
      <3>1. /\ call' = [call EXCEPT ![t] = timeout] /\ kr' = kr /\ call[t] = "none"
            /\ kr[t] = "none"
        BY <1>3, <2>3
        DEF dispatch_semaphore_wait, SemaTypeOK, CallInv, ResultInv, WaitLabels
      <3>2. \A u \in Callers \ {t} : Standing(u)' = Standing(u)
        BY <3>1, Zenon DEF Standing, Granted, SemaTypeOK
      <3>3. Standing(t) = "idle" /\ Standing(t)' \in {"timed", "forever"}
        BY <3>1, Zenon DEF Standing, Granted, SemaTypeOK, DISPATCH_TIMES
      <3>4. Pending' = Pending
        BY <3>1, Zenon DEF Pending, SemaTypeOK, DISPATCH_TIMES
      <3>5. /\ Waiting' = Waiting \cup {t}
            /\ \E s \in {"timed", "forever"} : Status' = [Status EXCEPT ![t] = s]
        BY <3>2, <3>3, OneStands, Zenon
      <3>6. t \notin Waiting
        BY <3>1, Zenon DEF Waiting, DISPATCH_TIMES
      <3> QED BY <2>1, <2>3, <3>3, <3>4, <3>5, <3>6, Zenon DEF Account, Joined
    <2> QED BY <2>2, <2>3 DEF SemaTypeOK
  <1>4. ASSUME NEW t \in Callers, Disposed(t) PROVE Account
    <2>1. Status' = Status /\ Waiting' = Waiting /\ Pending' = Pending
      BY <1>4, SameStands, Zenon DEF Disposed
    <2>2. CASE dsema_sema' = dsema_sema /\ alive' = alive
      <3>1. KernelUnits' = KernelUnits
        BY <1>4, <2>2, Zenon DEF Disposed, KernelUnits
      <3>2. dsema_value' = dsema_value + 0
        BY <1>4 DEF Disposed, SemaTypeOK
      <3> QED BY <2>1, <2>2, <3>1, <3>2, Zenon DEF Account, Counted, Quiet
    <2>3. CASE dsema_sema' = NoSema /\ alive' = FALSE
      <3>1. KernelUnits' = 0
        BY <2>3, Zenon DEF KernelUnits
      <3>2. \A u \in Callers : call[u] = "none"
        BY <1>4, Zenon DEF Disposed, CallInv
      <3>3. \A u \in Callers : Standing(u) = "idle"
        BY <3>2, Zenon DEF Standing, DISPATCH_TIMES
      <3>4. Waiting = {} /\ Pending = {}
        BY <3>2, Zenon DEF Waiting, Pending, DISPATCH_TIMES
      <3> QED BY <2>1, <2>3, <3>1, <3>3, <3>4, Zenon DEF Account, Renewed
    <2> QED BY <1>4, <2>2, <2>3, Zenon DEF Disposed
  <1>5. ASSUME NEW t \in Callers, Obtained(t) PROVE Account
    <2>1. Status' = Status /\ Waiting' = Waiting /\ Pending' = Pending
      BY <1>5, SameStands, Zenon DEF Obtained
    <2>2. KernelUnits' = KernelUnits /\ alive' = alive
      BY <1>5, Zenon DEF Obtained, KernelUnits
    <2>3. dsema_value' = dsema_value + 0
      BY <1>5 DEF Obtained, SemaTypeOK
    <2> QED BY <2>1, <2>2, <2>3, Zenon DEF Account, Counted, Quiet
  <1>6. ASSUME NEW t \in Callers, Published(t) PROVE Account
    <2>1. Status' = Status /\ Waiting' = Waiting /\ Pending' = Pending
      BY <1>6, SameStands, Zenon DEF Published
    <2>2. tmp[t] # NoSema /\ tmp[t] \in Semas
      BY <1>6, Zenon DEF Published, CallInv, SemaTypeOK
    <2>3. dsema_sema = NoSema => units[tmp[t]] = 0
      BY <2>2, Zenon DEF SleepInv
    <2>4. KernelUnits' = KernelUnits /\ alive' = alive
      BY <1>6, <2>2, <2>3, Zenon DEF Published, KernelUnits
    <2>5. dsema_value' = dsema_value + 0
      BY <1>6 DEF Published, SemaTypeOK
    <2> QED BY <2>1, <2>4, <2>5, Zenon DEF Account, Counted, Quiet
  <1>7. ASSUME NEW t \in Callers, Signalled(t) PROVE Account
    <2>1. /\ call' = [call EXCEPT ![t] = "none"] /\ call[t] = "signal"
          /\ dsema_value' = dsema_value /\ alive' = alive
      BY <1>7, Zenon DEF Signalled, SemaDone, CallInv
    <2>2. t \in Pending /\ Pending' = Pending \ {t}
      BY <2>1, Zenon DEF Pending, SemaTypeOK
    <2>3. dsema_sema \in Semas /\ dsema_sema # NoSema /\ dsema_sema' = dsema_sema
      BY <1>7, SemaLive, Zenon DEF Signalled
    <2>4. CASE kr' = kr /\ units' = [units EXCEPT ![dsema_sema] = units[dsema_sema] + 1]
      <3>1. \A u \in Callers : Standing(u)' = Standing(u)
        BY <2>1, <2>4, Zenon DEF Standing, Granted, DISPATCH_TIMES, SemaTypeOK
      <3>2. Status' = Status /\ Waiting' = Waiting
        BY <3>1, OneStands, Zenon
      <3>3. KernelUnits' = KernelUnits + 1
        BY <2>3, <2>4, Zenon DEF KernelUnits, SemaTypeOK
      <3> QED BY <2>1, <2>2, <3>2, <3>3, Zenon DEF Account, Posted
    <2>5. ASSUME NEW x \in Callers, kr[x] = "asleep", kr' = [kr EXCEPT ![x] = "KERN_SUCCESS"],
                 units' = units
          PROVE  Account
      <3>1. call[x] \in DISPATCH_TIMES /\ x # t
        BY <1>7, <2>5, Zenon DEF Signalled, ResultInv, CallInv, WaitLabels, DISPATCH_TIMES
      <3>2. \A u \in Callers \ {x} : Standing(u)' = Standing(u)
        BY <2>1, <2>5, Zenon DEF Standing, Granted, DISPATCH_TIMES, SemaTypeOK
      <3>3. Standing(x)' = "granted"
        BY <2>1, <2>5, <3>1, Zenon DEF Standing, Granted, SemaTypeOK
      <3>4. Waiting' = Waiting \ {x} /\ Status' = [Status EXCEPT ![x] = "granted"]
        BY <3>2, <3>3, OneStands, Zenon
      <3>5. x \in Waiting
        BY <2>5, <3>1, Zenon DEF Waiting, Granted
      <3>6. KernelUnits' = KernelUnits
        BY <2>3, <2>5, Zenon DEF KernelUnits
      <3> QED BY <2>1, <2>2, <3>4, <3>5, <3>6, Zenon DEF Account, Woke, Left
    <2> QED BY <1>7, <2>4, <2>5, Zenon DEF Signalled
  <1>8. ASSUME NEW t \in Callers, Waited(t) PROVE Account
    <2>1. /\ call' = call /\ dsema_value' = dsema_value /\ alive' = alive
          /\ Pending' = Pending
      BY <1>8, Zenon DEF Waited, Pending
    <2>2. dsema_sema \in Semas /\ dsema_sema # NoSema /\ dsema_sema' = dsema_sema
      BY <1>8, SemaLive, Zenon DEF Waited
    <2>3. call[t] \in DISPATCH_TIMES
      BY <1>8, Zenon DEF Waited, CallInv, WaitLabels, DISPATCH_TIMES
    <2>4. CASE /\ kr' = [kr EXCEPT ![t] = "KERN_SUCCESS"] /\ units[dsema_sema] > 0
               /\ units' = [units EXCEPT ![dsema_sema] = units[dsema_sema] - 1]
      <3>1. \A u \in Callers \ {t} : Standing(u)' = Standing(u)
        BY <2>1, <2>4, Zenon DEF Standing, Granted, SemaTypeOK
      <3>2. Standing(t)' = "granted"
        BY <2>1, <2>3, <2>4, Zenon DEF Standing, Granted, SemaTypeOK
      <3>3. Waiting' = Waiting \ {t} /\ Status' = [Status EXCEPT ![t] = "granted"]
        BY <3>1, <3>2, OneStands, Zenon
      <3>4. t \in Waiting
        BY <1>8, <2>3, Zenon DEF Waited, Waiting, Granted
      <3>5. KernelUnits > 0 /\ KernelUnits' = KernelUnits - 1
        BY <2>2, <2>4, Zenon DEF KernelUnits, SemaTypeOK
      <3> QED BY <2>1, <3>3, <3>4, <3>5, Zenon DEF Account, Took, Left
    <2>5. CASE units' = units /\ \A u \in Callers : ~Granted(u)' <=> ~Granted(u)
      <3>1. \A u \in Callers : Standing(u)' = Standing(u)
        BY <2>1, <2>5, Zenon DEF Standing
      <3>2. Status' = Status /\ Waiting' = Waiting
        BY <3>1, OneStands, Zenon
      <3>3. KernelUnits' = KernelUnits
        BY <2>2, <2>5, Zenon DEF KernelUnits
      <3>4. dsema_value' = dsema_value + 0
        BY <2>1 DEF SemaTypeOK
      <3> QED BY <2>1, <3>2, <3>3, <3>4, Zenon DEF Account, Counted, Quiet
    <2>6. CASE kr' = [kr EXCEPT ![t] = "asleep"] /\ units' = units
      <3>1. \A u \in Callers : ~Granted(u)' <=> ~Granted(u)
        BY <1>8, <2>6, Zenon DEF Waited, Granted, SemaTypeOK
      <3> QED BY <2>5, <2>6, <3>1, Zenon
    <2>7. CASE kr' = kr /\ units' = units
      BY <2>5, <2>7, Zenon DEF Granted
    <2> QED BY <1>8, <2>4, <2>6, <2>7, Zenon DEF Waited
  <1>9. ASSUME NEW t \in Callers, Returned(t) PROVE Account
    <2>1. /\ dsema_value' = dsema_value /\ alive' = alive
          /\ KernelUnits' = KernelUnits /\ kr' = [kr EXCEPT ![t] = "none"]
      BY <1>9, Zenon DEF Returned, KernelUnits
    <2>2. call[t] \in DISPATCH_TIMES
      BY <1>9, Zenon DEF Returned, ResultInv, CallInv, WaitLabels, DISPATCH_TIMES
    <2>3. CASE kr[t] = "KERN_SUCCESS" /\ call' = [call EXCEPT ![t] = "none"]
      <3>1. \A u \in Callers \ {t} : Standing(u)' = Standing(u)
        BY <2>1, <2>3, Zenon DEF Standing, Granted, SemaTypeOK
      <3>2. Standing(t) = "granted" /\ Standing(t)' = "idle"
        BY <2>1, <2>2, <2>3, Zenon DEF Standing, Granted, SemaTypeOK, DISPATCH_TIMES
      <3>3. Waiting' = Waiting \ {t} /\ Status' = [Status EXCEPT ![t] = "idle"]
        BY <3>1, <3>2, OneStands, Zenon
      <3>4. Waiting' = Waiting
        BY <2>3, <3>3, Zenon DEF Waiting, Granted
      <3>5. Pending' = Pending
        BY <2>2, <2>3, Zenon DEF Pending, SemaTypeOK, DISPATCH_TIMES
      <3> QED BY <2>1, <3>2, <3>3, <3>4, <3>5, Zenon DEF Account, Ended
    <2>4. CASE kr[t] # "KERN_SUCCESS" /\ call' = call
      <3>1. \A u \in Callers : Standing(u)' = Standing(u)
        BY <2>1, <2>4, Zenon DEF Standing, Granted, SemaTypeOK
      <3>2. Status' = Status /\ Waiting' = Waiting /\ Pending' = Pending
        BY <2>4, <3>1, OneStands, Zenon DEF Pending
      <3>3. dsema_value' = dsema_value + 0
        BY <2>1 DEF SemaTypeOK
      <3> QED BY <2>1, <3>2, <3>3, Zenon DEF Account, Counted, Quiet
    <2> QED BY <1>9, <2>3, <2>4, Zenon DEF Returned, SemaDone
  <1>10. ASSUME NEW t \in Callers, _dispatch_semaphore_wait_slow(t) PROVE Account
    <2>1. KernelUnits' = KernelUnits /\ kr' = kr /\ alive' = alive
      BY <1>10, Zenon DEF _dispatch_semaphore_wait_slow, serviceVars, KernelUnits
    <2>2. call[t] \in {"DISPATCH_TIME_NOW", "timed"} /\ kr[t] = "none"
      BY <1>10, Zenon DEF _dispatch_semaphore_wait_slow, CallInv, ResultInv, WaitLabels
    <2>3. CASE dsema_value < 0
      <3>1. call' = [call EXCEPT ![t] = "none"] /\ dsema_value' = dsema_value + 1
        BY <1>10, <2>3, Zenon DEF _dispatch_semaphore_wait_slow, SemaDone
      <3>2. \A u \in Callers \ {t} : Standing(u)' = Standing(u)
        BY <2>1, <3>1, Zenon DEF Standing, Granted, SemaTypeOK
      <3>3. Standing(t) = "timed" /\ Standing(t)' = "idle"
        BY <2>1, <2>2, <3>1, Zenon DEF Standing, Granted, SemaTypeOK, DISPATCH_TIMES
      <3>4. Waiting' = Waiting \ {t} /\ Status' = [Status EXCEPT ![t] = "idle"]
        BY <3>2, <3>3, OneStands, Zenon
      <3>5. t \in Waiting
        BY <2>2, Zenon DEF Waiting, Granted, DISPATCH_TIMES
      <3>6. Pending' = Pending
        BY <2>2, <3>1, Zenon DEF Pending, SemaTypeOK
      <3> QED BY <2>1, <2>3, <3>1, <3>3, <3>4, <3>5, <3>6, Zenon DEF Account, Undone, Left
    <2>4. CASE ~(dsema_value < 0)
      <3>1. call' = call /\ dsema_value' = dsema_value
        BY <1>10, <2>4, Zenon DEF _dispatch_semaphore_wait_slow
      <3>2. Quiet
        BY <2>1, <3>1, SameStands, Zenon DEF Quiet
      <3>3. dsema_value' = dsema_value + 0
        BY <3>1 DEF SemaTypeOK
      <3> QED BY <2>1, <3>2, <3>3, Zenon DEF Account, Counted
    <2> QED BY <2>3, <2>4, Zenon
  <1>11. ASSUME NEW t \in Callers, NEW r \in {"KERN_ABORTED", "KERN_OPERATION_TIMED_OUT"},
               SleepEnds(t, r) PROVE Account
    <2>1. /\ alive' = alive /\ KernelUnits' = KernelUnits /\ call' = call
          /\ dsema_value' = dsema_value /\ kr[t] = "asleep" /\ kr' = [kr EXCEPT ![t] = r]
      BY <1>11, Zenon DEF SleepEnds, Leave, KernelUnits
    <2>2. \A u \in Callers : Standing(u)' = Standing(u)
      BY <2>1, Zenon DEF Standing, Granted, SemaTypeOK
    <2>3. Status' = Status /\ Waiting' = Waiting /\ Pending' = Pending
      BY <2>1, <2>2, OneStands, Zenon DEF Pending
    <2>4. dsema_value' = dsema_value + 0
      BY <2>1 DEF SemaTypeOK
    <2> QED BY <2>1, <2>3, <2>4, Zenon DEF Account, Counted, Quiet
  <1> QED BY <1>1, <1>2, <1>3, <1>4, <1>5, <1>6, <1>7, <1>8, <1>9, <1>10, <1>11, Zenon
          DEF Step

\* The accounts balance after every step.
LEMMA BalanceStep ==
  ASSUME SemaTypeOK, SemaTypeOK', WaitersBalance, CallersCount, Account
  PROVE  WaitersBalance'
  <1> DEFINE W == Cardinality(Waiting)
             P == Cardinality(Pending)
  <1>1. /\ W \in Nat /\ P \in Nat /\ KernelUnits \in Nat /\ KernelUnits' \in Nat
        /\ dsema_value \in Int /\ dsema_value' \in Int
        /\ Positive(-dsema_value) \in Nat
    <2>1. W \in Nat /\ P \in Nat
      BY Zenon DEF CallersCount, Waiting, Pending
    <2>2. dsema_value \in Int /\ dsema_value' \in Int
      BY Zenon DEF SemaTypeOK
    <2>3. KernelUnits \in Nat /\ KernelUnits' \in Nat
      BY Zenon DEF KernelUnits, SemaTypeOK
    <2>4. Positive(-dsema_value) \in Nat
      BY <2>2 DEF Positive
    <2> QED BY <2>1, <2>2, <2>3, <2>4, Zenon
  <1>2. alive => W = Positive(-dsema_value) + P + KernelUnits
    BY Zenon DEF WaitersBalance
  <1>3. SUFFICES ASSUME alive'
                 PROVE  W' = Positive(-dsema_value)' + P' + KernelUnits'
    BY Zenon DEF WaitersBalance
  <1>4. CASE Renewed
    <2>1. W' = 0 /\ P' = 0
      <3>1. Cardinality({}) = 0
        BY Zenon DEF CallersCount
      <3> QED BY <1>4, <3>1, Zenon DEF Renewed
    <2> QED BY <1>3, <1>4, <2>1 DEF Renewed, Positive
  <1>5. CASE \E n \in {0, 1, -1} : Counted(n) /\ (n = 1 => dsema_value >= 0)
                                    /\ (n = -1 => dsema_value > 0)
    <2>1. W' = W /\ P' = P /\ KernelUnits' = KernelUnits /\ alive
      BY <1>3, <1>5, Zenon DEF Counted, Quiet
    <2>2. Positive(-dsema_value)' = Positive(-dsema_value)
      BY <1>1, <1>5 DEF Counted, Positive
    <2> QED BY <1>2, <2>1, <2>2, Zenon
  <1>6. ASSUME NEW t \in Callers, Unsettled(t) PROVE W' = Positive(-dsema_value)' + P' + KernelUnits'
    <2>1. W' = W /\ P' = P + 1 /\ KernelUnits' = KernelUnits /\ alive
      BY <1>3, <1>6, Zenon DEF Unsettled, CallersCount, Pending
    <2>2. Positive(-dsema_value)' = Positive(-dsema_value) - 1
      BY <1>1, <1>6 DEF Unsettled, Positive
    <2> HIDE DEF W, P
    <2> QED BY <1>1, <1>2, <2>1, <2>2
  <1>7. ASSUME NEW t \in Callers, Joined(t) PROVE W' = Positive(-dsema_value)' + P' + KernelUnits'
    <2>1. W' = W + 1 /\ P' = P /\ KernelUnits' = KernelUnits /\ alive
      BY <1>3, <1>7, Zenon DEF Joined, CallersCount, Waiting
    <2>2. Positive(-dsema_value)' = Positive(-dsema_value) + 1
      BY <1>1, <1>7 DEF Joined, Positive
    <2> HIDE DEF W, P
    <2> QED BY <1>1, <1>2, <2>1, <2>2
  <1>8. ASSUME NEW t \in Callers, Posted(t) PROVE W' = Positive(-dsema_value)' + P' + KernelUnits'
    <2>1. W' = W /\ P' = P - 1 /\ KernelUnits' = KernelUnits + 1 /\ alive
      BY <1>3, <1>8, Zenon DEF Posted, CallersCount, Pending
    <2>2. Positive(-dsema_value)' = Positive(-dsema_value)
      BY <1>8, Zenon DEF Posted
    <2> HIDE DEF W, P
    <2> QED BY <1>1, <1>2, <2>1, <2>2
  <1>9. ASSUME NEW t \in Callers, NEW x \in Callers, Woke(t, x)
        PROVE  W' = Positive(-dsema_value)' + P' + KernelUnits'
    <2>1. W' = W - 1 /\ P' = P - 1 /\ KernelUnits' = KernelUnits /\ alive
      <3>1. W' = W - 1 /\ alive
        BY <1>3, <1>9, Zenon DEF Woke, Left, CallersCount, Waiting
      <3>2. P' = P - 1 /\ KernelUnits' = KernelUnits
        BY <1>9, Zenon DEF Woke, CallersCount, Pending
      <3> QED BY <3>1, <3>2, Zenon
    <2>2. Positive(-dsema_value)' = Positive(-dsema_value)
      BY <1>9, Zenon DEF Woke
    <2> HIDE DEF W, P
    <2> QED BY <1>1, <1>2, <2>1, <2>2
  <1>10. ASSUME NEW t \in Callers, Took(t) PROVE W' = Positive(-dsema_value)' + P' + KernelUnits'
    <2>1. W' = W - 1 /\ P' = P /\ KernelUnits' = KernelUnits - 1 /\ alive
      BY <1>3, <1>10, Zenon DEF Took, Left, CallersCount, Waiting
    <2>2. Positive(-dsema_value)' = Positive(-dsema_value)
      BY <1>10, Zenon DEF Took
    <2> HIDE DEF W, P
    <2> QED BY <1>1, <1>2, <2>1, <2>2
  <1>11. ASSUME NEW t \in Callers, Undone(t) PROVE W' = Positive(-dsema_value)' + P' + KernelUnits'
    <2>1. W' = W - 1 /\ P' = P /\ KernelUnits' = KernelUnits /\ alive
      BY <1>3, <1>11, Zenon DEF Undone, Left, CallersCount, Waiting
    <2>2. Positive(-dsema_value)' = Positive(-dsema_value) - 1
      BY <1>1, <1>11 DEF Undone, Positive
    <2> HIDE DEF W, P
    <2> QED BY <1>1, <1>2, <2>1, <2>2
  <1>12. ASSUME NEW t \in Callers, Ended(t) PROVE W' = Positive(-dsema_value)' + P' + KernelUnits'
    BY <1>2, <1>3, <1>12, Zenon DEF Ended
  <1>13. Counted(0) \/ (dsema_value >= 0 /\ Counted(1)) \/ (dsema_value > 0 /\ Counted(-1))
         => \E n \in {0, 1, -1} : Counted(n) /\ (n = 1 => dsema_value >= 0)
                                  /\ (n = -1 => dsema_value > 0)
    BY SMTT(30)
  <1> QED BY <1>4, <1>5, <1>6, <1>7, <1>8, <1>9, <1>10, <1>11, <1>12, <1>13, Zenon
          DEF Account

\* No step ends in the crash of a failed system call.
LEMMA NoFailureStep ==
  ASSUME NoMachFailure, Step
  PROVE  NoMachFailure'
  BY Zenon DEF NoMachFailure, Step, dispatch_semaphore_create, dispatch_semaphore_signal,
         dispatch_semaphore_wait, Disposed, Obtained, Published, Signalled, Waited, Returned,
         _dispatch_semaphore_wait_slow, SleepEnds

\* A step that changes nothing keeps the invariant.
LEMMA SemaStutter ==
  ASSUME SemaInv, UNCHANGED semaVars
  PROVE  SemaInv' /\ Permits' = Permits /\ Status' = Status
  <1> USE DEF semaVars, dsemaVars, serviceVars
  <1>1. SemaTypeOK'
    BY Zenon DEF SemaInv, SemaTypeOK
  <1>2. CallInv' /\ ResultInv'
    BY Zenon DEF SemaInv, CallInv, ResultInv
  <1>3. OwnInv' /\ SleepInv'
    BY Zenon DEF SemaInv, OwnInv, SleepInv
  <1>4. Status' = Status /\ Waiting' = Waiting /\ Pending' = Pending
    BY SameStands, Zenon
  <1>5. KernelUnits' = KernelUnits /\ dsema_value' = dsema_value /\ alive' = alive
    BY Zenon DEF KernelUnits
  <1>6. WaitersBalance' /\ Permits' = Permits
    <2>1. WaitersBalance'
      BY <1>4, <1>5 DEF SemaInv, WaitersBalance
    <2>2. Permits' = Permits
      BY <1>4, <1>5, Zenon DEF Permits
    <2> QED BY <2>1, <2>2, Zenon
  <1>7. NoMachFailure'
    BY Zenon DEF SemaInv, NoMachFailure
  <1> QED BY <1>1, <1>2, <1>3, <1>4, <1>6, <1>7, Zenon DEF SemaInv

\* The invariant is inductive.
LEMMA SemaInvStep ==
  ASSUME SemaInv, CallersCount, SemaNext
  PROVE  SemaInv' /\ Account
  <1>1. Step
    BY Steps, Zenon
  <1>2. /\ SemaTypeOK /\ CallInv /\ ResultInv /\ OwnInv /\ SleepInv /\ WaitersBalance
        /\ NoMachFailure
    BY Zenon DEF SemaInv
  <1>3. SemaTypeOK'
    BY <1>1, <1>2, TypeStep, Zenon
  <1>4. CallInv' /\ ResultInv' /\ OwnInv'
    BY <1>1, <1>2, CallStep, ResultStep, OwnStep, Zenon
  <1>5. SleepInv'
    BY <1>1, <1>2, SleepStep, Zenon
  <1>6. Account
    BY <1>1, <1>2, AccountStep, Zenon
  <1>7. WaitersBalance'
    BY <1>2, <1>3, <1>6, BalanceStep, Zenon
  <1>8. NoMachFailure'
    BY <1>1, <1>2, NoFailureStep, Zenon
  <1> QED BY <1>3, <1>4, <1>5, <1>6, <1>7, <1>8, Zenon DEF SemaInv

\* The invariant holds before there is an object.
LEMMA SemaInitInv ==
  ASSUME SemaInit PROVE SemaInv
  <1>1. SemaTypeOK
    <2>1. 0 \in Int /\ 0 <= MaxValue /\ 0 \in 0..MaxValue
      BY SemaAssumption
    <2> QED BY <2>1, Zenon DEF SemaInit, ServiceInit, SemaTypeOK, WaitLabels
  <1>2. CallInv /\ ResultInv /\ OwnInv /\ SleepInv
    BY SemaAssumption, Zenon
    DEF SemaInit, ServiceInit, CallInv, ResultInv, OwnInv, SleepInv, WaitLabels
  <1>3. WaitersBalance /\ NoMachFailure
    BY Zenon DEF SemaInit, WaitersBalance, NoMachFailure
  <1> QED BY <1>1, <1>2, <1>3, Zenon DEF SemaInv

-----------------------------------------------------------------------------
(***************************************************************************)
(* The refinement.                                                         *)
(***************************************************************************)

\* What the numbers of the mapping are.
LEMMA PermitTypes ==
  ASSUME SemaTypeOK, CallersCount
  PROVE  /\ dsema_value \in Int /\ Positive(dsema_value) \in Nat
         /\ Cardinality(Pending) \in Nat /\ KernelUnits \in Nat
         /\ Permits \in Nat
  <1>1. dsema_value \in Int
    BY Zenon DEF SemaTypeOK
  <1>2. Positive(dsema_value) \in Nat
    BY <1>1 DEF Positive
  <1>3. Cardinality(Pending) \in Nat
    BY Zenon DEF CallersCount, Pending
  <1>4. KernelUnits \in Nat
    BY Zenon DEF KernelUnits, SemaTypeOK
  <1> QED BY <1>1, <1>2, <1>3, <1>4 DEF Permits

\* The sum of three natural numbers is one.
LEMMA SumNat ==
  ASSUME NEW a \in Nat, NEW b \in Nat, NEW c \in Nat PROVE a + b + c \in Nat
  OBVIOUS

\* How a thread stands is what the abstract semaphore sees of it.
LEMMA StatusOf ==
  ASSUME NEW t \in Callers PROVE Status[t] = Standing(t)
  BY Zenon DEF Status

\* Every entry in the accounts is a step of the counter of permits: a wait
\* that is woken gets the permit of the signal that wakes it, and a wait
\* whose count was undone took none.
LEMMA CounterStep ==
  ASSUME SemaTypeOK, SemaTypeOK', CallersCount, Account
  PROVE  Abstract!Next \/ (Permits' = Permits /\ Status' = Status)
  <1> DEFINE P == Cardinality(Pending)
             V == Positive(dsema_value)
  <1>1. /\ dsema_value \in Int /\ V \in Nat /\ P \in Nat /\ KernelUnits \in Nat
        /\ Permits \in Nat /\ Permits = V + P + KernelUnits
        /\ Permits' = V' + P' + KernelUnits'
    BY PermitTypes, Zenon DEF Permits
  <1>2. Permits' \in Nat
    <2>1. dsema_value' \in Int /\ P' \in Nat
      BY Zenon DEF CallersCount, Pending, SemaTypeOK
    <2>2. V' \in Nat
      BY <2>1 DEF Positive
    <2>3. KernelUnits' \in Nat
      BY Zenon DEF KernelUnits, SemaTypeOK
    <2> QED BY <1>1, <2>1, <2>2, <2>3, SumNat, Zenon
  <1>3. CASE Renewed
    <2>1. \A t \in Callers : Status[t] = "idle"
      BY <1>3, StatusOf, Zenon DEF Renewed
    <2>2. Abstract!Renew
      BY <1>2, <1>3, <2>1, Zenon DEF Abstract!Renew, Renewed
    <2> QED BY <2>2, Zenon DEF Abstract!Next
  <1>4. CASE Counted(0)
    <2>1. dsema_value' = dsema_value
      BY <1>1, <1>4 DEF Counted
    <2> QED BY <1>1, <1>4, <2>1, Zenon DEF Counted, Quiet
  <1>5. CASE dsema_value >= 0 /\ Counted(1)
    <2>1. V' = V + 1
      BY <1>1, <1>5 DEF Counted, Positive
    <2>2. P' = P /\ KernelUnits' = KernelUnits /\ Status' = Status
      BY <1>5, Zenon DEF Counted, Quiet
    <2>3. Permits' = Permits + 1
      <3> HIDE DEF V, P
      <3> QED BY <1>1, <2>1, <2>2
    <2> QED BY <2>2, <2>3, Zenon DEF Abstract!Next, Abstract!Signal
  <1>6. CASE dsema_value > 0 /\ Counted(-1)
    <2>1. V' = V - 1 /\ V > 0
      BY <1>1, <1>6 DEF Counted, Positive
    <2>2. P' = P /\ KernelUnits' = KernelUnits /\ Status' = Status
      BY <1>6, Zenon DEF Counted, Quiet
    <2>3. Permits' = Permits - 1 /\ Permits > 0
      <3> HIDE DEF V, P
      <3> QED BY <1>1, <2>1, <2>2
    <2> QED BY <2>2, <2>3, Zenon DEF Abstract!Next, Abstract!Acquire
  <1>7. ASSUME NEW t \in Callers, Unsettled(t) PROVE Abstract!Next
    <2>1. V' = V
      BY <1>1, <1>7 DEF Unsettled, Positive
    <2>2. P' = P + 1 /\ KernelUnits' = KernelUnits /\ Status' = Status
      BY <1>7, Zenon DEF Unsettled, CallersCount, Pending
    <2>3. Permits' = Permits + 1
      <3> HIDE DEF V, P
      <3> QED BY <1>1, <2>1, <2>2
    <2> QED BY <2>2, <2>3, Zenon DEF Abstract!Next, Abstract!Signal
  <1>8. ASSUME NEW t \in Callers, Joined(t) PROVE Abstract!Next
    <2>1. V' = V
      BY <1>1, <1>8 DEF Joined, Positive
    <2>2. P' = P /\ KernelUnits' = KernelUnits
      BY <1>8, Zenon DEF Joined
    <2>3. Permits' = Permits
      BY <1>1, <2>1, <2>2, Zenon
    <2>4. Status[t] = "idle"
      BY <1>8, StatusOf, Zenon DEF Joined
    <2>5. Abstract!Wait(t)
      BY <1>8, <2>3, <2>4, Zenon DEF Abstract!Wait, Joined
    <2> QED BY <2>5, Zenon DEF Abstract!Next
  <1>9. ASSUME NEW t \in Callers, Posted(t) PROVE Permits' = Permits /\ Status' = Status
    <2>1. V' = V /\ Status' = Status
      BY <1>9, Zenon DEF Posted
    <2>2. P' = P - 1 /\ KernelUnits' = KernelUnits + 1
      BY <1>9, Zenon DEF Posted, CallersCount, Pending
    <2> HIDE DEF V, P
    <2> QED BY <1>1, <2>1, <2>2
  <1>10. ASSUME NEW x \in Callers, Left(x, "granted"), Permits' = Permits - 1
         PROVE  Abstract!Next
    <2>1. Status[x] \in {"timed", "forever"}
      BY <1>10, StatusOf, WaitingStands, Zenon DEF Left
    <2>2. Permits > 0
      BY <1>1, <1>2, <1>10
    <2>3. Abstract!Grant(x)
      BY <1>10, <2>1, <2>2, Zenon DEF Abstract!Grant, Left
    <2> QED BY <2>3, Zenon DEF Abstract!Next
  <1>11. ASSUME NEW t \in Callers, NEW x \in Callers, Woke(t, x) PROVE Abstract!Next
    <2>1. V' = V /\ P' = P - 1 /\ KernelUnits' = KernelUnits
      BY <1>11, Zenon DEF Woke, CallersCount, Pending
    <2>2. Permits' = Permits - 1
      <3> HIDE DEF V, P
      <3> QED BY <1>1, <2>1
    <2> QED BY <1>10, <1>11, <2>2, Zenon DEF Woke
  <1>12. ASSUME NEW t \in Callers, Took(t) PROVE Abstract!Next
    <2>1. V' = V /\ P' = P /\ KernelUnits' = KernelUnits - 1
      BY <1>12, Zenon DEF Took
    <2>2. Permits' = Permits - 1
      <3> HIDE DEF V, P
      <3> QED BY <1>1, <2>1
    <2> QED BY <1>10, <1>12, <2>2, Zenon DEF Took
  <1>13. ASSUME NEW t \in Callers, Undone(t) PROVE Abstract!Next
    <2>1. V' = V
      BY <1>1, <1>13 DEF Undone, Positive
    <2>2. Permits' = Permits
      BY <1>1, <1>13, <2>1, Zenon DEF Undone
    <2>3. Abstract!TimeOut(t)
      BY <1>13, <2>2, StatusOf, Zenon DEF Abstract!TimeOut, Undone, Left
    <2> QED BY <2>3, Zenon DEF Abstract!Next
  <1>14. ASSUME NEW t \in Callers, Ended(t) PROVE Abstract!Next
    <2>1. Permits' = Permits
      BY <1>1, <1>14, Zenon DEF Ended
    <2>2. Abstract!Return(t)
      BY <1>14, <2>1, StatusOf, Zenon DEF Abstract!Return, Ended
    <2> QED BY <2>2, Zenon DEF Abstract!Next
  <1> QED BY <1>3, <1>4, <1>5, <1>6, <1>7, <1>8, <1>9, <1>11, <1>12, <1>13, <1>14, Zenon
          DEF Account

\* At first there are no permits, and nobody waits.
LEMMA CounterInit ==
  ASSUME SemaInit, CallersCount PROVE Abstract!Init
  <1>1. Permits \in Nat
    BY SemaInitInv, PermitTypes, Zenon DEF SemaInv
  <1>2. \A t \in Callers : Standing(t) = "idle"
    BY Zenon DEF SemaInit, Standing, DISPATCH_TIMES
  <1>3. Status = [t \in Callers |-> "idle"]
    BY <1>2, Zenon DEF Status
  <1> QED BY <1>1, <1>3, Zenon DEF Abstract!Init

INSTANCE FiniteSetTheorems

\* A finite set of threads can be counted.
LEMMA CallersCounted == CallersCount
  <1>1. IsFiniteSet(Callers)
    BY SemaAssumption, Zenon
  <1>2. SUFFICES ASSUME NEW S \in SUBSET Callers
                 PROVE  /\ Cardinality(S) \in Nat /\ (Cardinality(S) = 0 <=> S = {})
                        /\ \A x \in S : Cardinality(S \ {x}) = Cardinality(S) - 1
                        /\ \A x \in Callers \ S : Cardinality(S \cup {x}) = Cardinality(S) + 1
    BY Zenon DEF CallersCount
  <1>3. IsFiniteSet(S)
    BY <1>1, FS_Subset, Zenon
  <1>4. Cardinality(S) \in Nat /\ (Cardinality(S) = 0 <=> S = {})
    BY <1>3, FS_CardinalityType, FS_EmptySet, Zenon
  <1>5. \A x \in S : Cardinality(S \ {x}) = Cardinality(S) - 1
    BY <1>3, FS_RemoveElement, Zenon
  <1>6. \A x \in Callers \ S : Cardinality(S \cup {x}) = Cardinality(S) + 1
    BY <1>3, FS_AddElement, Zenon
  <1> QED BY <1>4, <1>5, <1>6, Zenon

\* The invariant holds in every state that the semaphore reaches.
THEOREM SemaInvariant == SemaSpec => []SemaInv
  <1>1. SemaInv /\ [SemaNext]_semaVars => SemaInv'
    BY SemaInvStep, SemaStutter, CallersCounted, Zenon
  <1> QED BY <1>1, SemaInitInv, PTL DEF SemaSpec

\* The threads that wait without a unit are as many as the value is below
\* zero, the signals that are under way and the units that are in the kernel
\* (dispatch_semaphore_create's comment on a negative value, made exact).
THEOREM AlwaysBalanced == SemaSpec => []WaitersBalance
  <1>1. SemaInv => WaitersBalance
    BY Zenon DEF SemaInv
  <1> QED BY <1>1, SemaInvariant, PTL

\* No system call fails in a way that the library takes for a use after free
\* (DISPATCH_SEMAPHORE_VERIFY_KR), whatever passes through the caches.
THEOREM SystemCallsSucceed == SemaSpec => []NoMachFailure
  <1>1. SemaInv => NoMachFailure
    BY Zenon DEF SemaInv
  <1> QED BY <1>1, SemaInvariant, PTL

\* The semaphore implements the counter of permits: dispatch_semaphore_wait
\* returns 0 once for each unit that create or dispatch_semaphore_signal gave.
THEOREM SemaImplementsCounter == SemaSpec => ImplementsCounter
  <1>1. SemaInit => Abstract!Init
    BY CounterInit, CallersCounted, Zenon
  <1>2. SemaInv /\ SemaInv' /\ [SemaNext]_semaVars => [Abstract!Next]_(Abstract!vars)
    <2>1. ASSUME SemaInv, SemaInv', SemaNext PROVE [Abstract!Next]_(Abstract!vars)
      <3>1. Account
        BY <2>1, SemaInvStep, CallersCounted, Zenon
      <3>2. SemaTypeOK /\ SemaTypeOK'
        BY <2>1, Zenon DEF SemaInv
      <3> QED BY <3>1, <3>2, CounterStep, CallersCounted, Zenon DEF Abstract!vars
    <2>2. ASSUME SemaInv, UNCHANGED semaVars PROVE [Abstract!Next]_(Abstract!vars)
      BY <2>2, SemaStutter, Zenon DEF Abstract!vars
    <2> QED BY <2>1, <2>2, Zenon
  <1> QED BY <1>1, <1>2, SemaInvariant, PTL DEF SemaSpec, ImplementsCounter, Abstract!Spec

=============================================================================
