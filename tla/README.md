# PureDarwin: a verification project for its synchronization layer

PureDarwin builds a bootable Darwin from Apple's open sources: the xnu kernel,
the kernel extensions that a PC needs, and the libraries of libSystem. The
part that everything else rests on, and that tests reach least, is the way
threads wait for one another: the words that user space changes with atomic
instructions, the system calls behind them, and the lock-free structures in
the kernel. This project models that part in TLA+, checks it with TLC, and
proves the main safety properties with TLAPS.

## 1. Inventory

Paths are relative to `src/src`. Vendored tools, generated code and assets are
left aside.

### Modelled

| part | state | operations | what is hard | what makes it correct |
|---|---|---|---|---|
| `os_unfair_lock`, `Libraries/libSystem/libplatform/src/os/lock.c` | one word: owner and a *nowaiters* bit | lock, trylock, unlock and their slow paths | the word is free before the waiters are woken; interrupted waits; what a woken thread knows of other waiters | exclusion, no sleeper without a thread bound to wake it, aborts only on misuse |
| `os_once` gate, same file; clients `pthread_once`, `os_once`, `dispatch_once` | one word: initial, owned, a generation, or done | call, wait, callout, reset, broadcast | cancelled initializers hand the gate to a waiter; several encodings in one word | the initializer completes once, nobody returns before, nobody is left asleep |
| ulock system calls, `Kernel/xnu/bsd/kern/sys_ulock.c` | a hash table of `ull_t` with counts, an owner and wait queues | `ulock_wait`, its continuation and cleanup, `ulock_wake` | lookup under two levels of locks, objects that die while a lookup has them in hand, early returns after the waiter is counted | no use after free, exact counts, and the caller sees an atomic service |
| CPU quiescent counter, `Kernel/xnu/osfmk/kern/cpu_quiesce.c`, `osfmk/arm/commpage/commpage.c` | a mask of two bits per CPU, a counter in the commpage | join, AST, checkin, leave, commit | CPUs that come and go during a tick; weakly ordered memory | a tick means that every CPU has passed a barrier; the counter keeps ticking |
| MPSC queue, `Kernel/xnu/osfmk/kern/mpsc_queue.[ch]` | intrusive list with a tail | the two halves of an append, `dequeue_batch`, `batch_next`, `restore_batch` | the list is broken between the halves | order and content are those of the tail exchanges |
| daemon queues, same files | a state word, a queue, a thread or a thread call or a target | enqueue, wakeup, drain, `cancel_and_wait` | who drains, when the queue turns non-empty while a drain ends; cancellation | nothing stranded, one drain at a time, nothing refers to a cancelled queue |
| Mach semaphores, `Kernel/xnu/osfmk/kern/sync_sema.c`, `ipc_sync.c` | a count, -1 if threads may wait, a wait queue, references | create, wait, timed wait, wait-and-signal, three signals, destroy, end of the task | a count that is only a hint; the last reference racing the end of the task | a signal is never lost nor doubled, references are exact |
| dispatch semaphore, `Libraries/libSystem/libdispatch/src/semaphore.c`, `shims/lock.c` | a value, a Mach semaphore made on demand | create, signal, wait, dispose; a cache of Mach semaphores per thread | a timeout that races a signal; semaphores that pass from object to object | a counter of permits, never overdrawn |
| dispatch group, same file | a word: generation, count, two bits; a list of blocks | enter, leave, wait, notify, wake, release | leave has two steps, and the next generation begins in between | the group outlives its use, waits and blocks are released |
| condition variables over ulock, `Libraries/libSystem/pthread/src/pthread_cond.c` | a word: sequence, waiters, signals | wait, signal, broadcast, signal to a thread | timeouts and cancellation while a signal is on its way | which signals can be lost, and no others |
| condition variables over psynch, same file and `Kernel/Extensions/pthread/kern_synch.c` | three words in user space, a queue with preposts in the kernel | the same, with `psynch_cvwait`, `cvsignal`, `cvbroad`, `cvclrprepost` | two records of one object, brought together from stale copies; numbers that wrap | no signal lost, the kernel refuses nothing, the records agree |

They interact as follows. `os_unfair_lock`, the gate, the group and one kind of
condition variable sleep and wake through the ulock calls. The gate on CPUs
without total store order relies on the quiescent counter to know when the
word may say *done*. The dispatch semaphore is built on the Mach semaphore.
The daemon queues are built on the MPSC queue, and the kernel's deferred
deallocation (threads, turnstiles, work intervals, workqueues) is a tree of
daemon queues.

### Not modelled

`PROJECT.json` lists each part with its reason. Of the state machines of the
same kind these are left: the pthread mutex and rwlock with their psynch calls,
the `dq_state` word of dispatch lanes and what is built on it, Mach messages,
turnstiles, thread calls, advisory locks, pipes and System V semaphores. The
other locks of libplatform and the thread event of libdispatch repeat the
unfair lock's protocol. The virtual memory system, the file systems and the
network stack are out of reach of a small model; drivers speak to hardware that
the source does not describe; libc, corecrypto and most of libmalloc are
sequential code on data.

## 2. Modules and the code

`PROJECT.json` maps every definition to the lines it stands for.

* **`Ulock`** is what a client of the system calls sees of one address: who
  sleeps, who has been woken and with what result, how many waiters the kernel
  counts, and the owner that it has recorded (`kstate`, `ull_owner`). Each operation is atomic because the code does it under the
  `ull` lock. `UnfairLock`, `OnceGate` and `UlockCond` extend it.
* **`UnfairLock`** has the lock word `[owner, nowaiters]`, and for each thread
  a program counter, the locals `current` and `waiters_mask`. One action is one
  atomic access or system call. `Misuse` lets clients lock twice, unlock what
  they do not own, or exit with the lock. An abort stops the process (`crash`).
* **`OnceGate`** has the word, which is `OS_ONCE_INIT`, an owner with the
  *nowaiters* bit, a generation or `OS_ONCE_DONE`. `UseQuiescentCounter`
  chooses between the builds, `Cancellation` lets initializers be cancelled, as
  the cleanup handler of `pthread_once` allows, and `GateMisuse` lets them enter
  their own gate or exit. Which generation the word holds is left out: the time
  at which it is retired is a free choice here, and the subject of `CpuQuiesce`.
* **`UlockTable`** is the code of `sys_ulock.c` with its hash bucket, the locks
  of the bucket and of each `ull_t`, allocation and free, and one action for
  each stretch of code between two lock operations. **`UlockService`** is the
  abstract specification: one address, every call atomic, and `UlockTable`
  implements it under the mapping of **`UlockTableService`**
  (`ImplementsService`). The service shows the word, the waiters and their
  results.
* **`CpuQuiesce`** has the values of the counter in the order in which they were
  stored, and for each CPU its state, where it is in a commit, and the last
  store that it has to know of: a relaxed load returns that one or any later
  one, a release leaves on the mask what its CPU knows, an acquire takes it
  along. Nothing is assumed of the time that a commit takes. A once word is
  initialized by one CPU and retired after `OS_ONCE_GEN_SAFE_DELTA` generations.
  `overlap` and `disturbed` record that an empty mask was joined during a commit,
  and what that can have spoilt; no guard reads them.
* **`MpscQueue`** has the next pointers, the tail, the token that each producer
  holds between the halves of an append, and the locals of the consumer. The
  history variable `fifo` is the order of the tail exchanges; no guard reads it.
* **`MpscDaemon`** has for each queue the state bits, its elements, the batch
  and the position of its drain; for the base queue the wait state of its
  thread or the pending bit of its thread call; for each thread the enqueue in
  progress. The initial state chooses the kind of the base queue and the
  hierarchy above it. The drain of a nested queue is a call inside that of its
  target, so that the target's position is `nested` for as long.
* **`MachSemaphore`** has for each semaphore of the zone its references, count,
  wait queue and send right, and for each thread the trap it is in. One action
  is one critical section or one change of a reference count.
  **`SemaphoreService`** is what it promises: units or sleepers, never both.
  `MachSemaphore` implements it (`ImplementsSemaphores`), and
  **`DispatchSemaphore`** extends it, so that a system call of the library is
  one step of the service. `DispatchSemaphore` in turn implements
  **`CountingSemaphore`** (`ImplementsCounter`): permits and waiters, without
  words or kernel. It follows one object at a time from creation to disposal;
  the Mach semaphores in the threads' caches go on to the next.
* **`DispatchGroup`** has the word of the group, the list of blocks in the
  order of the tail exchanges with the links that have arrived, and the
  references. Waiters sleep in one step, which `UlockTable` justifies.
  `emptied` and `block` record whether the group has been empty since a call; a
  block is registered once, and otherwise no guard reads them.
* **`UlockCond`** has the word `[seq, waiters, signal]` over `Ulock`. The mutex
  is its owner. `lost` records the two ways in which a wake can go astray.
* **`PsynchQueue`** has the operations that kern_synch.c performs on a `kwq`
  under its lock, as functions of a record of what has been done so far: the
  words, the queue, the threads made runnable, what goes back to user space.
  **`PsynchCond`** has the words in user space, where each thread is, and the
  copies of the words that it carries into the kernel; the kwq's lock is
  dropped where the code drops it, to allocate. The signaller reads L in one
  step, and U and S in another together with the swap of U, which fails if U
  has changed. `owed` records which waiters each signal has yet to unblock one
  of, and `refused` the errors and panics of the kernel; no guard reads either.

In all modules a definition whose comment begins with *Mutant* is a plausible
mistake in the definition that follows it. No specification uses it: it is
there to show that a property notices.

## 3. Runs

Several runs hold more than one component: the variable `object` of the MC
module chooses one of them in the initial state, and the variables of the others
keep their initial values. The components do not interact there.

| run | instance | what it shows |
|---|---|---|
| `locks` | unfair lock: 3 threads, interrupts, faults, misuse; counter: 3 CPUs, 2 ticks; fair | exclusion and no lost wakeup up to an abort, each abort has its cause, the holder never sleeps on its own lock, everyone gets through once nobody asks any more; the counter keeps ticking |
| `mpsc` | queue: 3 producers, 4 elements; daemon: a thread or a thread call, 0 or 2 nested queues, 2 producers, 2 items, cancellation; fair | order, nothing lost, everything consumed; linked once, drained by one, nothing stranded, cancellation final, items are invoked, cancellation returns |
| `kernel` | ulock table: 2 threads, 2 addresses in one bucket, 2 opcodes, or 3 threads with one lock; counter: 3 CPUs, 5 ticks | memory, counts and kernel assertions, refinement of the service; two generations per barrier and visibility of a retired once word, but for the race below |
| `mach_semaphore` | 2 threads, 2 semaphores; one thread creates and makes wait-and-signal calls, the other makes the other calls | references exact, refinement of the service |
| `dispatch` | semaphore: 3 threads with roles, 4 Mach semaphores, values up to 1; group: 3 threads with roles, 2 blocks, 2 generations, 2 entries; gate: 3 threads, cancellation, misuse, quiescent counter; fair | the waiters balance, no failure of a system call, a counter of permits, nothing left in the kernel; the group outlives its use, waits return after it was empty and do return, blocks are submitted; the gate completes once, nobody returns before, nobody is left asleep, aborts have their cause, calls end |
| `cond_vars` | over ulock: 3 threads, 2 signals; over psynch: 2 waiters and 2 signallers, 2 waits, 2 signals, numbers modulo 16 from 14, U in step or 9 behind | signals are lost in two ways only; none is lost over psynch, the kernel refuses nothing, the two records agree when all is quiet |
| `once_gate_assume`, `cpu_quiesce_race`, `mpsc_daemon_teardown`, `dispatch_group_notify`, `cond_promote`, `psynch_prepost` | 2 or 3 actors each | *violated*: see below |

### Disagreements between the code and what is said of it

* libdispatch derives that four increments of the quiescent counter make a once
  word safe to retire, from the counter's promise that every running CPU passes
  a barrier in each tick. The comment on `cpu_quiescent_counter_commit` says that
  the increment is protected by having caused the tick. But when the last CPU
  leaves, the mask is 0 until its commit has reset it. A CPU that joins then sets
  its expected bit only, and by leaving or checking in causes a second commit
  beside the first. On 64-bit builds the increment is a load and a store, so a
  commit that stalls between the two takes back what the others have counted
  meanwhile, and the reset of one commit removes the checkins of the other's
  round. The difference of generations is unsigned: a counter that has gone back
  retires the word at once, and a CPU in user space may not have passed any
  barrier since the initializer (`DoneAlwaysVisible`). It takes other CPUs that
  join and leave, which cannot be deferred, while the committing CPU is between
  two instructions with interrupts off. `TwoGenerations` and `DoneIsVisible`
  say that nothing else can go wrong: the lemma holds again from the next commit
  that begins alone, and the theorem for every word that the race has not met.
* The callers of `_os_once` tell the compiler that the word is all ones
  afterwards. On builds with the quiescent counter it may be a generation.
* `mpsc_daemon_queue_cancel_and_wait` promises that the queue can be destroyed
  when it returns. For a nested queue that is queued or draining it links the
  queue to its target, possibly a second time, and may return with the queue
  linked. An idle nested queue is fine, and so are queues with a thread or a
  thread call. Nothing in the repository cancels a nested queue.
* `dispatch_group_notify` promises a group that is empty when the block is
  submitted. A leave that has emptied the group and not cleared the bits yet
  takes along a block that was registered after the group was entered again. It
  needs a bit that was set before, such as that of a waiter that has timed out;
  otherwise the leave has nothing to clear and does not look again.
* A `pthread_cond_signal_thread_np` for a thread that does not wait is to become
  a broadcast over ulock as it does over psynch. The signal has been counted by
  then, and the broadcast gives up if that makes signals and waiters equal.
* `ksyn_cvupdate_fixup` panics in test builds if entries are left in the queue
  when L equals S. `ksyn_cvsignal` can insert such an entry when the waiter
  times out while the lock is dropped.

Four more things that the models show, without a document that says otherwise.
A `dispatch_semaphore_wait` whose timeout finds nothing to undo waits for the
signal that is on its way without a timeout, and another waiter may take that
signal. Over ulock, a wake can go to a thread that came to wait after the signal
was counted ("late" in `lost`), and the thread it was meant for sleeps on. Over
psynch, a signal to a thread is not validated against racing words, and the
kernel may refuse it with EINVAL, of which the caller is not told ("directed" in
`refused`). A Mach wait-and-signal that got its unit at once, and finds the
semaphore to signal dead, returns what the thread's previous wait came to.

### Bounds

Threads of the lock are interchangeable, and its argument involves three: one
that holds or is on its way to wake, one that was woken and one that sleeps;
beyond three the proofs take over, as for the gate. The table needs two
addresses for lookups to pass over a stranger's object, and three threads for
two waiters and a waker; the proofs cover any number. Three CPUs are the least
for which one commits, one joins and one leaves. The stores to the counter are
bounded by `MaxTicks`: 5 in `kernel`, above the four generations that the once
word needs, and 2 in `locks`, enough for one tick to be followed by another.
`kernel` does not go on from a state in which the race has met the once word:
`DoneIsVisible` says nothing of those, and for `TwoGenerations` the once word is
of no account, so that the behaviours in which it stays uninitialized show as
much. Its symmetry is over the objects of the table and over the CPUs. The MPSC queue needs a producer that has
yet to link, one that links behind it, and one that races a restored batch; four
elements are two lists of two. The daemon needs two nested queues for one to be
drained while the other is queued, and two producers for both to be between
their append and their *or*.

Two semaphores and two threads are the least for wait-and-signal with a
semaphore that dies; `MaxCount` is 1, so that a count goes through -1, 0 and 1.
The dispatch semaphore has a thread that signals, one that times out and one
that waits, so that a timeout meets a signal that a third thread can take; four
Mach semaphores are one for each cache and one in use. The group has two
generations, so that a leave of the first meets an enter, a wait and a notify
of the second, and two blocks, so that a list is appended to while it is
submitted. The roles keep the instances small where liveness rules out
symmetry. Over ulock three threads are a waiter, a late comer and a signaller,
and `MaxSeq` bounds the signals that find a waiter. Over psynch the numbers wrap
at `GenSize`, 16, where the code has 2^24; only their differences matter, and
the initial values are such that the first waits pass the wrap and U is either
in step or more than half the range behind. `MaxWaits` and `MaxSignals` bound
the calls. Everywhere else elements, items and threads are reused, so that
runs are of unbounded length.

Deadlock is not an error where the system may stop: after an abort, when all
threads were cancelled in the initializer, all queues are torn down or a group
is released, when the only waiters wait for a signal, and at the bounds.

### Fairness

Weak fairness says that a thread that can run does, and that client code ends:
a critical section, an initializer, the callback on an item. The producers of
the MPSC queue have preemption disabled, which justifies fairness on the second
half of an append. The consumer is assumed not to put batches back for ever
(strong fairness on taking an element). The deadline of a timed wait on a
dispatch semaphore comes, and ends every later sleep of the same call as well
(strong fairness), since an aborted wait is repeated with what is left of the
time. Nothing is assumed of new calls, interrupts, cancellation or misuse.
`mpsc_queue.h` warns that hierarchies "are prone to starvation", and a client
that refills a nested queue for ever does keep the others waiting; so `Invoked`
is stated for a queue without nested ones, and `KeepsInvoking` is what can be
promised of a hierarchy. `Drains`, `WakeupsDrained` and `GroupSettles` speak of
what happens once the clients stop calling.

## 4. Proofs

| module | proves for | theorems about properties of the runs |
|---|---|---|
| `UnfairLockProofs` | every set of threads, with and without misuse | `MutualExclusion`, `NoLostWakeup`, `AbortOnlyOnMisuse`, `HolderNeverSleeps` |
| `OnceGateProofs` | every set of threads, both builds, with and without cancellation and misuse | `RunsOnce`, `ReturnsInitialized`, `NoLostBroadcast`, `GateAbortOnlyOnMisuse` |
| `UlockTableProofs`, `UlockTableServiceProofs` | every finite set of threads, every set of objects, keys and values | `NoUseAfterFree`, `CountsExact`, `KernelAssertions`, `ImplementsService` |
| `CpuQuiesceProofs` | every finite set of CPUs and every bound on the counter | `TwoGenerations`, `DoneIsVisible`; also `CommitExclusive` |
| `MachSemaphoreProofs` | every finite set of threads, every set of semaphores, every bound on the count | `ReferencesExact`, `ImplementsSemaphores`; also `ResultsConvert` |
| `DispatchSemaphoreProofs` | every finite set of threads, every set of Mach semaphores, every bound on the value | `WaitersBalance`, `NoMachFailure`, `ImplementsCounter` |
| `DispatchGroupProofs` | every finite set of threads, every set of blocks, all bounds | `GroupOutlivesUse`, `WaitSawEmpty` |

The assumptions are those that the component's module states about its
constants: values that stand for nobody or nothing are not threads, objects,
semaphores or blocks; threads are not among the words that name an option of a
call (`SemasAssumption`); bounds are natural numbers; and where something is
counted, the threads or CPUs are finitely many. No theorem has a hypothesis
besides these.

None of these properties is inductive. Each proof strengthens them to an
invariant that is, shows that the initial states have it, that every step keeps
each of its parts, and draws the conclusions by temporal reasoning. In the
larger modules a first lemma says what each action changes in terms that the
invariant speaks of (`MachSteps`, `GroupSteps`, the effects before them), and
the lemmas on the parts start from there.

**The lock.** `IInv` adds what a thread's position says of its locals and of the
kernel (`LocalInv`: in the wait system call it holds a word that is not its own
with the bit clear, before the wake it holds its own), that 0 is the only word
without an owner (`WordInv`), and that the word's owner is in its critical
section (`OwnerInv`). The wakeup argument follows a torch: while somebody
sleeps, the owner that the kernel has recorded either holds the lock with the
bit clear, or is about to wake, or was woken and was told of more waiters. Each
step either leaves the torch or hands it to the thread that the kernel records.

**The gate.** `IInv` adds that the word holds a generation or *done* exactly
when an initializer has run to its end (`WordInv`), and what waiters and
broadcasters hold in their locals (`LocalInv`).

**The ulock table.** The invariant says for each thread what its position means
for the object it has in hand (`CallInv`), that a lookup has the bucket locked
and has passed no match (`ScanInv`), that an object outside of the table is
known to one thread (`SoleInv`), who holds which lock (`LockInv`), that a linked
object has somebody who waits or takes it out (`UseInv`), that keys are distinct
and operations agree (`KeyInv`, `OpInv`), and what both counts count (`RefInv`,
`WaitersInv`). Memory safety rests on `SoleInv`: who finds the count at zero has
invalidated the key under the lock, so that no lookup can return the object.
For the refinement, a thread counts as asleep from the copyin on: until it is
on the wait queue it holds the object's lock, and nobody looks at the queue in
between.

**The quiescent counter.** `MaskInv` says that the mask agrees with the states of
the CPUs, and `NewestInv` that the newest store is known to the mask, or to a
commit that is about to release it there, and between commits to all that have
checked in. These hold whatever happens, and they are what lets the rest be
established anew by a commit that begins alone. The rest holds while there is no
`overlap`: `CommitInv` says that there is one commit at a time and that everybody
has checked in during it; `GenInv` what each CPU has to have seen of the counter:
all but one store at most, and the newest if the next store counts on its
barrier. `OnceInv` follows the initializer's writes for a word that is not
`disturbed`: the stores since have been increments (`Increments`), until some
barrier releases the writes to the mask there are two at most, and a CPU without
them limits them to three (`Spreading`), which is why four generations
(`OS_ONCE_GEN_SAFE_DELTA`) are enough. Once the word says *done* the mask passes
the writes on to whoever joins, so that nothing that happens later matters.

**The Mach semaphore.** `TrapInv` says which arguments a call has at which
place, and that a thread which frees a semaphore has dropped the last reference
to it; `QueueInv` that exactly the threads in a wait that nobody has ended are
on the queues; `CountInv` that a semaphore on which threads sleep has a negative
count and a dead one zero; `FreeInv` that one thread frees what has no
references. The count is exact because each step changes what its own thread
holds, and the send right, by as much as it changes the count (`Account`,
`Balance`); since the count of a semaphore that somebody holds is positive
(`Positive`), nothing that is held is freed. `QueueInv` also shows that the
panic in `semaphore_convert_wait_result` is out of reach
(`ConversionNeverPanics`). For the refinement the units are the positive part of
the count; `CountInv` makes a signal that sees a count of 0 or more find an
empty queue.

**The dispatch semaphore.** The invariant says what a call is doing at each
place (`CallInv`, `ResultInv`), that the Mach semaphores of the object, of the
caches and of the threads about to publish one are alive and distinct
(`OwnInv`), and that only the object's has units or sleepers (`SleepInv`); with
these `WaitersBalance` and `NoMachFailure` are inductive. The refinement maps
the calls to permits and waiters: the positive part of the value, the units in
the kernel and the signals on their way are the permits.

**The dispatch group.** `CountInv` says that the count in the word is that of
the enters that have returned, and of the one that has yet to retain the group
(a client may enter by the reference that an earlier enter took, without one of
its own);
`WordInv` that an empty group with a bit set has a leave on its way to clear it;
`NotifyInv` that the head of the list belongs to the one notify that found it
empty; `HeldInv` that only leaves are in progress once the clients have let go.
`RefInv` then says what the reference count is made of: one reference for the
clients, one while the group is entered, one while the list is not empty, and
one or two for each thread that has taken those over to wake others. A count of
zero leaves nobody for any of them.

### Only model-checked

* Liveness, and whatever speaks of `ENABLED`: `Drains`, `Ticks`, `Consumed`,
  `Invoked`, `KeepsInvoking`, `CancelReturns`, `WakeupsDrained`, `GroupSettles`
  and `CallsEnd`. The prover has no rules for them.
* `InOrder` and `ListIsFifo` of `MpscQueue`: the elements between head and tail
  are a list of any length, and what follows a chain of next pointers needs
  induction over it.
* `NoSignalLost`, `NotRefused` and `WordsSettle` of `PsynchCond`: the queue of
  `PsynchQueue` is sorted by numbers that wrap, the first entry of a kind is
  taken from it or put into it, and a broadcast folds over it. The library
  operators for these take an operator as a parameter, and nothing about them
  can be cited for a queue of any length.
* `LinkedOnce`, `KernelAssertions`, `NoStrandedItem` and `CancelIsFinal` of
  `MpscDaemon`, and `SignalsLostInTwoWays` of `UlockCond`. Nothing in them is
  out of the prover's reach in principle, but their inductive invariants have
  not been worked out.

## 5. Limits

Memory is sequentially consistent except in `CpuQuiesce`: for the single words
of the locks, the group and the daemon state the atomics order what matters, and
the MPSC queue's release on the tail is modelled as the order of its accesses.
Priorities, turnstile inheritance and adaptive spinning are left out of the
ulock calls: they choose who runs first, which the model leaves open. The keys
of shared memory follow the same code as private ones and are not separate.
`MpscDaemon` takes `thread_call_cancel_wait` as removing the pending call and
waiting for the running one, and assumes that clients have no enqueue in
progress on the queue they cancel, as the header demands.

The two services, `UlockService` and `SemaphoreService`, show words, units and
sleepers, and not the calls that change them. A refinement lets a step of the
code be invisible, so a wake or a signal that wrongly did nothing would pass.
What `ImplementsService` and `ImplementsSemaphores` exclude are threads that
sleep on another value than the expected one or for two operations at once,
owners that are not what the waiters' words name, units that lie beside
sleepers, sleepers on a dead semaphore, and signals that count twice. The models
of the users take it from the service that a wake with a waiter wakes.

`MachSemaphore` has one owning task and one client task with at most one send
right for each semaphore. `DispatchSemaphore` disposes of an object when no call
is in progress, as the clients' references ensure; the cache of a thread is not
emptied when the thread exits. `UlockCond` leaves out the
wrap of the 32-bit sequence number. `PsynchCond` leaves out cancellation, errors
of the mutex, the EBUSY with which `_psynch_cvbroad` refuses a broadcast over more
threads than the kernel allows, which validated words do not reach, `cond->busy`,
the mutex check that goes with it, and the count of
8192 retries: a signaller retries for as long as the words are in disorder, and
U is reset to S only when it is ahead of L.
