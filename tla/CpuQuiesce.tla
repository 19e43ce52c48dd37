----------------------------- MODULE CpuQuiesce -----------------------------
(***************************************************************************)
(* The CPU quiescent counter (osfmk/kern/cpu_quiesce.c) and the use that   *)
(* os_once and dispatch_once make of it on weakly ordered machines: an     *)
(* initializer leaves the current generation in the once word, and only    *)
(* after OS_ONCE_GEN_SAFE_DELTA generations is the word set to DONE, which *)
(* lets readers skip every barrier.                                        *)
(*                                                                         *)
(* The two bits per CPU of cpu_quiescing_checkin_state are two sets.       *)
(* Memory is weak: counter holds the values of the counter in the order in *)
(* which they were stored, and a relaxed load by a CPU returns any of them *)
(* from the last one that the CPU has to know of to the newest; what a CPU *)
(* has to know of grows at acquire operations, by what release operations  *)
(* have put on the mask.  informed is the set of CPUs to which the         *)
(* initializer's writes are visible.                                       *)
(*                                                                         *)
(* The increment is a load and a store, and a CPU that joins an empty mask *)
(* while another commits can bring about a second commit.  overlap and     *)
(* disturbed record when that has happened; no guard reads them.           *)
(*                                                                         *)
(* A CPU in state JOINED and outside a commit is taken to be in user space *)
(* at any time.                                                            *)
(***************************************************************************)
EXTENDS Integers, FiniteSets

CONSTANTS CPUs,
          MaxTicks      \* bound on the stores to the counter

ASSUME QuiesceAssumption == IsFiniteSet(CPUs) /\ MaxTicks \in Nat

VARIABLES
  expected, checkin,    \* the two halves of cpu_quiescing_checkin_state
  state,                \* per-CPU cpu_quiesce.state
  ticks, counter,       \* the stores to the counter in the commpage: how
                        \* many, and the value after each of them
  commit,               \* where each CPU is in cpu_quiescent_counter_commit
  old_gen,              \* local old_gen of the increment
  genView, maskView,    \* the last store to the counter that a CPU has to see,
                        \* and the one that the mask passes on to an acquirer
  informed, released,   \* CPUs that see the initializer's writes, and
                        \* whether the mask passes them on
  once,                 \* the once word, and the store that its generation
                        \* is from
  overlap,              \* an empty mask has been joined during a commit, and
                        \* no commit has begun since with no other under way
  disturbed             \* this has happened while the once word held a
                        \* generation, or was so when it was stored

maskVars == <<expected, checkin>>
counterVars == <<ticks, counter>>
cpuVars == <<state, commit, old_gen>>
viewVars == <<genView, maskView, informed, released>>
raceVars == <<overlap, disturbed>>
quiesceVars == <<maskVars, counterVars, cpuVars, viewVars, once, raceVars>>

\* Mutant: two generations.
SafeDeltaOfTwo == 2

OS_ONCE_GEN_SAFE_DELTA == 4

CpuStates == {"NONE", "PENDING_JOIN", "JOINED", "LEFT"}

NotInitialized == [kind |-> "INIT", gen |-> 0, view |-> 0]

QuiesceTypeOK ==
  /\ expected \subseteq CPUs /\ checkin \subseteq CPUs
  /\ state \in [CPUs -> CpuStates]
  /\ ticks \in 0..MaxTicks /\ counter \in [0..MaxTicks -> Nat]
  /\ old_gen \in [CPUs -> Nat]
  /\ commit \in [CPUs -> {"no", "load", "store", "reset"}]
  /\ genView \in [CPUs -> 0..ticks] /\ maskView \in 0..ticks
  /\ informed \subseteq CPUs /\ released \in BOOLEAN
  /\ once \in [kind : {"INIT", "GEN", "DONE"}, gen : Nat, view : 0..ticks]
  /\ overlap \in BOOLEAN /\ disturbed \in BOOLEAN

QuiesceInit ==
  /\ expected = {} /\ checkin = {}
  /\ state = [c \in CPUs |-> "NONE"]
  /\ ticks = 0 /\ counter = [i \in 0..MaxTicks |-> 0]
  /\ old_gen = [c \in CPUs |-> 0]
  /\ commit = [c \in CPUs |-> "no"]
  /\ genView = [c \in CPUs |-> 0] /\ maskView = 0
  /\ informed = {} /\ released = FALSE
  /\ once = NotInitialized
  /\ overlap = FALSE /\ disturbed = FALSE

Larger(a, b) == IF a < b THEN b ELSE a

\* Memory orders of a read-modify-write of the mask by c.
acquire(c) ==
  /\ genView' = [genView EXCEPT ![c] = Larger(@, maskView)]
  /\ informed' = IF released THEN informed \cup {c} ELSE informed

release(c) ==
  /\ maskView' = Larger(maskView, genView[c])
  /\ released' = (released \/ c \in informed)

\* The stores that a relaxed load of the counter may read, when the CPU has to
\* know of the store seen.
Loads(seen) == seen..ticks

needs_commit(exp, chk) == chk = exp

Committing == {c \in CPUs : commit[c] # "no"}

\* cpu_quiescent_counter_commit begins on c, or does not.
commits(c) ==
  /\ commit' = [commit EXCEPT ![c] = "load"]
  /\ overlap' = (overlap /\ Committing # {})

stays == UNCHANGED <<commit, overlap>>

-----------------------------------------------------------------------------
\* Leaving the idle thread: the join itself waits for the return to user
\* space.
cpu_quiescent_counter_join(c) ==
  /\ state[c] \in {"NONE", "LEFT"} /\ commit[c] = "no"
  /\ state' = [state EXCEPT ![c] = "PENDING_JOIN"]
  /\ UNCHANGED <<maskVars, commit, old_gen, counterVars, viewVars, once,
                 raceVars>>

\* What a join records of a commit that it meets with the mask empty.
meets(c) ==
  LET race == expected = {} /\ checkin = {} /\ Committing # {}
  IN /\ overlap' = (overlap \/ race)
     /\ disturbed' = (disturbed \/ (race /\ once.kind = "GEN"))

\* Mutant: the first CPU checks in as well.
ast_no_kickstart(c) ==
  /\ state[c] = "PENDING_JOIN"
  /\ state' = [state EXCEPT ![c] = "JOINED"]
  /\ expected' = expected \cup {c} /\ checkin' = checkin \cup {c}
  /\ acquire(c) /\ meets(c)
  /\ UNCHANGED <<commit, old_gen, counterVars, maskView, released, once>>

\* Mutant: the join has no acquire barrier.
ast_relaxed(c) ==
  /\ state[c] = "PENDING_JOIN"
  /\ state' = [state EXCEPT ![c] = "JOINED"]
  /\ expected' = expected \cup {c}
  /\ checkin' = IF expected = {} /\ checkin = {} THEN checkin
                ELSE checkin \cup {c}
  /\ meets(c)
  /\ UNCHANGED <<commit, old_gen, counterVars, viewVars, once>>

\* At the boundary to user space; the first CPU does not check in, so that
\* its first checkin starts the algorithm.
cpu_quiescent_counter_ast(c) ==
  /\ state[c] = "PENDING_JOIN"
  /\ state' = [state EXCEPT ![c] = "JOINED"]
  /\ expected' = expected \cup {c}
  /\ checkin' = IF expected = {} /\ checkin = {} THEN checkin
                ELSE checkin \cup {c}
  /\ acquire(c) /\ meets(c)
  /\ UNCHANGED <<commit, old_gen, counterVars, maskView, released, once>>

\* On the way to idle, which cannot be deferred.
cpu_quiescent_counter_leave(c) ==
  /\ state[c] \in {"JOINED", "PENDING_JOIN"} /\ commit[c] = "no"
  /\ state' = [state EXCEPT ![c] = "LEFT"]
  /\ \/ /\ state[c] = "PENDING_JOIN"
        /\ stays /\ UNCHANGED <<maskVars, viewVars>>
     \/ /\ state[c] = "JOINED"
        /\ expected' = expected \ {c} /\ checkin' = checkin \ {c}
        /\ acquire(c) /\ release(c)
        /\ IF /\ ~needs_commit(expected, checkin)
              /\ needs_commit(expected', checkin')
           THEN commits(c) ELSE stays
  /\ UNCHANGED <<old_gen, counterVars, once, disturbed>>

\* At a context switch or quantum end, when cpu_checkin_min_interval, which may
\* be set to 0, has passed and the relaxed load does not show c as checked in.
\* In every other case the call changes nothing but last_checkin.
cpu_quiescent_counter_checkin(c) ==
  /\ state[c] = "JOINED" /\ commit[c] = "no" /\ c \notin checkin
  /\ checkin' = checkin \cup {c}
  /\ acquire(c) /\ release(c)
  /\ IF needs_commit(expected, checkin') THEN commits(c) ELSE stays
  /\ UNCHANGED <<expected, state, old_gen, counterVars, once, disturbed>>

\* The relaxed load and the relaxed store of the increment, of which there are
\* MaxTicks, and the release of the mask.
commit_load(c) ==
  /\ commit[c] = "load"
  /\ \E i \in Loads(genView[c]) : old_gen' = [old_gen EXCEPT ![c] = counter[i]]
  /\ commit' = [commit EXCEPT ![c] = "store"]
  /\ UNCHANGED <<maskVars, state, counterVars, viewVars, once, raceVars>>

commit_store(c) ==
  /\ commit[c] = "store" /\ ticks < MaxTicks
  /\ ticks' = ticks + 1
  /\ counter' = [counter EXCEPT ![ticks + 1] = old_gen[c] + 1]
  /\ genView' = [genView EXCEPT ![c] = ticks + 1]
  /\ commit' = [commit EXCEPT ![c] = "reset"]
  /\ old_gen' = [old_gen EXCEPT ![c] = 0]
  /\ UNCHANGED <<maskVars, state, maskView, informed, released, once,
                 raceVars>>

commit_reset(c) ==
  /\ commit[c] = "reset"
  /\ checkin' = {}
  /\ release(c)
  /\ commit' = [commit EXCEPT ![c] = "no"]
  /\ UNCHANGED <<expected, state, old_gen, counterVars, genView, informed, once, raceVars>>

InUser(c) == state[c] = "JOINED" /\ commit[c] = "no"

\* The initializer has run on c: the once word gets a generation.
os_once_mark_quiescing(c) ==
  /\ InUser(c) /\ once = NotInitialized
  /\ \E i \in Loads(genView[c]) :
       /\ once' = [kind |-> "GEN", gen |-> counter[i], view |-> i]
       /\ genView' = [genView EXCEPT ![c] = i]
  /\ informed' = informed \cup {c}
  /\ disturbed' = overlap
  /\ UNCHANGED <<maskVars, cpuVars, counterVars, maskView, released, overlap>>

\* A later caller on c: an acquire load of the once word, then a load of the
\* counter.  The difference is of unsigned numbers, so a counter behind the
\* recorded generation counts as far ahead of it.
os_once_mark_done_if_quiesced(c) ==
  /\ InUser(c) /\ once.kind = "GEN"
  /\ informed' = informed \cup {c}
  /\ \E i \in Loads(Larger(genView[c], once.view)) :
       /\ genView' = [genView EXCEPT ![c] = i]
       /\ once' = IF \/ counter[i] < once.gen
                     \/ counter[i] - once.gen >= OS_ONCE_GEN_SAFE_DELTA
                  THEN [once EXCEPT !.kind = "DONE"] ELSE once
  /\ UNCHANGED <<maskVars, cpuVars, counterVars, maskView, released, raceVars>>

Tick(c) == commit_load(c) \/ commit_store(c) \/ commit_reset(c)

QuiesceNext ==
  \E c \in CPUs :
    \/ cpu_quiescent_counter_join(c) \/ cpu_quiescent_counter_ast(c)
    \/ cpu_quiescent_counter_leave(c) \/ cpu_quiescent_counter_checkin(c)
    \/ Tick(c)
    \/ os_once_mark_quiescing(c) \/ os_once_mark_done_if_quiesced(c)

QuiesceSpec == QuiesceInit /\ [][QuiesceNext]_quiesceVars

\* A commit runs to its end, and a CPU in user space is context switched or
\* reaches the end of its quantum again and again.
QuiesceFairSpec ==
  QuiesceSpec /\ \A c \in CPUs : /\ WF_quiesceVars(Tick(c))
                                 /\ WF_quiesceVars(cpu_quiescent_counter_checkin(c))

-----------------------------------------------------------------------------
\* The comment on cpu_quiescent_counter_commit, except after an empty mask was
\* joined during a commit: the increment is protected by the lock of having
\* caused the tick.
CommitExclusive == ~overlap => Cardinality(Committing) <= 1

\* Lemma 1 of libdispatch's lock.h: between two barriers a CPU in user space
\* can observe at most two values of the counter.  Only a CPU that joins an
\* empty mask during a commit breaks it, and the next commit that begins
\* alone restores it.
TwoGenerations == ~overlap => \A c \in CPUs : InUser(c) => ticks - genView[c] <= 1

\* The theorem of lock.h, for every CPU in user space: it has passed a barrier
\* that makes the initializer's writes visible to it, so that a reader needs
\* none.
Visible == \A c \in CPUs : InUser(c) => c \in informed

\* The theorem holds of every once word that no such join has met on its way
\* from a generation to DONE, whatever has happened before and whatever
\* happens after.
DoneIsVisible == once.kind = "DONE" /\ ~disturbed => Visible

\* The theorem as it stands in lock.h.
DoneAlwaysVisible == once.kind = "DONE" => Visible

\* While CPUs run user code, the counter ticks: it goes on to its bound unless
\* they all leave again and again.
Ticks == []<>(expected = {} \/ ticks = MaxTicks)
=============================================================================
