-------------------------- MODULE CpuQuiesceProofs --------------------------
(***************************************************************************)
(* Proofs about CpuQuiesce for every set of CPUs and every bound on the    *)
(* stores to the counter.  Nothing is assumed of the time that passes      *)
(* between two steps: what is known of the counter lasts until an empty    *)
(* mask is joined during a commit, and is known again as soon as a commit  *)
(* begins alone.                                                           *)
(***************************************************************************)
EXTENDS CpuQuiesce, TLAPS

\* Nobody is in cpu_quiescent_counter_commit.
Quiet == \A c \in CPUs : commit[c] = "no"

\* Somebody is, and has yet to store the counter.
Ticking == \E c \in CPUs : commit[c] \in {"load", "store"}

\* The next store of the counter counts on a barrier of c that is behind it.
CountedIn(c) == Ticking \/ (Quiet /\ c \in checkin)

\* The bits of a CPU: one that checked in is expected, and the expected ones
\* are those that joined.
MaskInv ==
  /\ checkin \subseteq expected
  /\ \A c \in CPUs : state[c] = "JOINED" <=> c \in expected

\* Whatever has happened: the newest store is one that the mask passes on or
\* that a commit is about to put there, and between commits the CPUs that
\* have checked in know of it.
NewestInv ==
  /\ maskView = ticks \/ \E c \in CPUs : commit[c] = "reset" /\ genView[c] = ticks
  /\ Quiet => \A c \in checkin : genView[c] = ticks

\* One commit at a time, and during it everybody has checked in.
CommitInv ==
  ~overlap =>
    /\ \A c, d \in CPUs : commit[c] # "no" /\ commit[d] # "no" => c = d
    /\ ~Quiet => checkin = expected

\* What is known of the counter: the mask passes on its newest store except
\* for the time between the store and the release, a commit has it itself,
\* and the other CPUs lag by one store at most, by none when counted in;
\* that store was an increment.
GenInv ==
  ~overlap =>
    /\ ticks <= maskView + 1
    /\ \A c \in CPUs : commit[c] # "no" => genView[c] = ticks
    /\ \A c \in CPUs : commit[c] = "store" => old_gen[c] = counter[ticks]
    /\ \A c \in expected : ticks <= genView[c] + 1
    /\ \A c \in expected : CountedIn(c) => genView[c] = ticks
    /\ maskView < ticks \/ (\E c \in expected : genView[c] < ticks) =>
         counter[ticks] = counter[ticks - 1] + 1

\* The stores since the initializer's are increments.
Increments == \A i \in once.view..ticks : counter[i] = once.gen + (i - once.view)

\* What is known of the initializer's writes: until the mask passes them on,
\* a CPU that has them is to check in or to leave, and the counter is two
\* stores on at most; a CPU that does not have them limits it to three.
Spreading ==
  /\ ~released => \E i \in expected \cap informed :
       /\ ticks <= once.view + 2
       /\ CountedIn(i) => ticks <= once.view + 1
  /\ \A d \in expected \ informed :
       /\ ticks <= once.view + 3
       /\ CountedIn(d) => ticks <= once.view + 2

\* When the word has become DONE, it is past both.
OnceInv ==
  /\ once.kind = "GEN" /\ ~disturbed => ~overlap /\ Increments /\ Spreading
  /\ once.kind = "DONE" /\ ~disturbed => released /\ expected \subseteq informed

\* The inductive invariant.
QuiesceInv ==
  QuiesceTypeOK /\ MaskInv /\ NewestInv /\ CommitInv /\ GenInv /\ OnceInv

-----------------------------------------------------------------------------
\* Every action keeps the types.
LEMMA TypeStep ==
  ASSUME QuiesceTypeOK, QuiesceNext
  PROVE  QuiesceTypeOK'
<1>1. PICK c \in CPUs :
        \/ cpu_quiescent_counter_join(c) \/ cpu_quiescent_counter_ast(c)
        \/ cpu_quiescent_counter_leave(c) \/ cpu_quiescent_counter_checkin(c)
        \/ commit_load(c) \/ commit_store(c) \/ commit_reset(c)
        \/ os_once_mark_quiescing(c) \/ os_once_mark_done_if_quiesced(c)
  BY DEF QuiesceNext, Tick
<1>2. CASE cpu_quiescent_counter_join(c)
  BY <1>2
  DEF cpu_quiescent_counter_join, maskVars, counterVars, viewVars, raceVars,
      QuiesceTypeOK, CpuStates
<1>3. CASE cpu_quiescent_counter_ast(c)
  <2>1. /\ expected' \subseteq CPUs /\ checkin' \subseteq CPUs
        /\ state' \in [CPUs -> CpuStates]
        /\ overlap' \in BOOLEAN /\ disturbed' \in BOOLEAN
    BY <1>3 DEF cpu_quiescent_counter_ast, QuiesceTypeOK, CpuStates, meets
  <2>2. genView' \in [CPUs -> 0..ticks] /\ informed' \subseteq CPUs
    BY <1>3 DEF cpu_quiescent_counter_ast, QuiesceTypeOK, acquire, Larger
  <2>3. UNCHANGED <<commit, old_gen, ticks, counter, maskView, released, once>>
    BY <1>3, Zenon DEF cpu_quiescent_counter_ast, counterVars
  <2> QED
    BY <2>1, <2>2, <2>3 DEF QuiesceTypeOK
<1>4. CASE cpu_quiescent_counter_leave(c)
  <2>1. /\ state' = [state EXCEPT ![c] = "LEFT"]
        /\ UNCHANGED <<old_gen, ticks, counter, once, disturbed>>
    BY <1>4, Zenon DEF cpu_quiescent_counter_leave, counterVars
  <2>2. /\ expected' \subseteq CPUs /\ checkin' \subseteq CPUs
        /\ genView' \in [CPUs -> 0..ticks] /\ maskView' \in 0..ticks
        /\ informed' \subseteq CPUs /\ released' \in BOOLEAN
    <3>1. CASE UNCHANGED <<maskVars, viewVars>>
      BY <3>1 DEF maskVars, viewVars, QuiesceTypeOK
    <3>2. CASE /\ expected' = expected \ {c} /\ checkin' = checkin \ {c}
               /\ acquire(c) /\ release(c)
      BY <3>2 DEF QuiesceTypeOK, acquire, release, Larger
    <3> QED
      BY <1>4, <3>1, <3>2 DEF cpu_quiescent_counter_leave
  <2>3. /\ commit' \in [CPUs -> {"no", "load", "store", "reset"}]
        /\ overlap' \in BOOLEAN
    BY <1>4 DEF cpu_quiescent_counter_leave, QuiesceTypeOK, commits, stays
  <2> QED
    BY <2>1, <2>2, <2>3 DEF QuiesceTypeOK, CpuStates
<1>5. CASE cpu_quiescent_counter_checkin(c)
  <2>1. /\ checkin' \subseteq CPUs
        /\ commit' \in [CPUs -> {"no", "load", "store", "reset"}]
        /\ overlap' \in BOOLEAN
    BY <1>5 DEF cpu_quiescent_counter_checkin, QuiesceTypeOK, commits, stays
  <2>2. /\ genView' \in [CPUs -> 0..ticks] /\ maskView' \in 0..ticks
        /\ informed' \subseteq CPUs /\ released' \in BOOLEAN
    BY <1>5 DEF cpu_quiescent_counter_checkin, QuiesceTypeOK, acquire, release, Larger
  <2>3. UNCHANGED <<expected, state, old_gen, ticks, counter, once, disturbed>>
    BY <1>5, Zenon DEF cpu_quiescent_counter_checkin, counterVars
  <2> QED
    BY <2>1, <2>2, <2>3 DEF QuiesceTypeOK
<1>6. CASE commit_load(c)
  BY <1>6, QuiesceAssumption
  DEF commit_load, maskVars, counterVars, viewVars, raceVars, QuiesceTypeOK, Loads
<1>7. CASE commit_store(c)
  <2>1. ticks' \in 0..MaxTicks /\ ticks' = ticks + 1 /\ 0..ticks \subseteq 0..ticks'
    BY <1>7, QuiesceAssumption DEF commit_store, QuiesceTypeOK
  <2>2. /\ counter' \in [0..MaxTicks -> Nat] /\ old_gen' \in [CPUs -> Nat]
        /\ commit' \in [CPUs -> {"no", "load", "store", "reset"}]
    <3>1. old_gen[c] + 1 \in Nat /\ 0 \in Nat
      BY DEF QuiesceTypeOK
    <3>2. counter' = [counter EXCEPT ![ticks + 1] = old_gen[c] + 1]
      BY <1>7, Zenon DEF commit_store
    <3>3. counter' \in [0..MaxTicks -> Nat]
      BY <3>1, <3>2, Zenon DEF QuiesceTypeOK
    <3> QED
      BY <1>7, <3>1, <3>3, Zenon DEF commit_store, QuiesceTypeOK
  <2>3. genView' \in [CPUs -> 0..ticks']
    BY <1>7, <2>1 DEF commit_store, QuiesceTypeOK
  <2>4. UNCHANGED <<expected, checkin, state, maskView, informed, released, once, overlap,
                    disturbed>>
    BY <1>7, Zenon DEF commit_store, maskVars, raceVars
  <2>5. maskView \in 0..ticks'
    BY <2>1, Zenon DEF QuiesceTypeOK
  <2>6. once \in [kind : {"INIT", "GEN", "DONE"}, gen : Nat, view : 0..ticks']
    BY <2>1 DEF QuiesceTypeOK
  <2> QED
    BY <2>1, <2>2, <2>3, <2>4, <2>5, <2>6, Zenon DEF QuiesceTypeOK
<1>8. CASE commit_reset(c)
  BY <1>8 DEF commit_reset, counterVars, raceVars, QuiesceTypeOK, release, Larger
<1>9. CASE os_once_mark_quiescing(c)
  <2>1. PICK i \in Loads(genView[c]) :
          /\ once' = [kind |-> "GEN", gen |-> counter[i], view |-> i]
          /\ genView' = [genView EXCEPT ![c] = i]
    BY <1>9, Zenon DEF os_once_mark_quiescing
  <2>2. i \in 0..ticks /\ counter[i] \in Nat
    BY <2>1, QuiesceAssumption DEF Loads, QuiesceTypeOK
  <2>3. /\ once' \in [kind : {"INIT", "GEN", "DONE"}, gen : Nat, view : 0..ticks]
        /\ genView' \in [CPUs -> 0..ticks]
    BY <2>1, <2>2 DEF QuiesceTypeOK
  <2>4. /\ informed' \subseteq CPUs /\ disturbed' \in BOOLEAN
        /\ UNCHANGED <<expected, checkin, state, commit, old_gen, ticks, counter,
                       maskView, released, overlap>>
    BY <1>9 DEF os_once_mark_quiescing, maskVars, counterVars, cpuVars, QuiesceTypeOK
  <2> QED
    BY <2>3, <2>4 DEF QuiesceTypeOK
<1>10. CASE os_once_mark_done_if_quiesced(c)
  <2>1. once' = once \/ once' = [once EXCEPT !.kind = "DONE"]
    BY <1>10 DEF os_once_mark_done_if_quiesced
  <2>2. genView' \in [CPUs -> 0..ticks] /\ informed' \subseteq CPUs
    BY <1>10 DEF os_once_mark_done_if_quiesced, QuiesceTypeOK, Larger, Loads
  <2> QED
    BY <1>10, <2>1, <2>2
    DEF os_once_mark_done_if_quiesced, maskVars, counterVars, cpuVars, raceVars,
        QuiesceTypeOK
<1> QED
  BY <1>1, <1>2, <1>3, <1>4, <1>5, <1>6, <1>7, <1>8, <1>9, <1>10

\* Every action keeps the bits of the mask in step with the CPUs' states.
LEMMA MaskStep ==
  ASSUME QuiesceTypeOK, MaskInv, QuiesceNext
  PROVE  MaskInv'
<1>1. PICK c \in CPUs :
        \/ cpu_quiescent_counter_join(c) \/ cpu_quiescent_counter_ast(c)
        \/ cpu_quiescent_counter_leave(c) \/ cpu_quiescent_counter_checkin(c)
        \/ commit_load(c) \/ commit_store(c) \/ commit_reset(c)
        \/ os_once_mark_quiescing(c) \/ os_once_mark_done_if_quiesced(c)
  BY DEF QuiesceNext, Tick
<1>2. CASE cpu_quiescent_counter_join(c)
  BY <1>2 DEF cpu_quiescent_counter_join, maskVars, QuiesceTypeOK, MaskInv
<1>3. CASE cpu_quiescent_counter_ast(c)
  BY <1>3 DEF cpu_quiescent_counter_ast, QuiesceTypeOK, MaskInv
<1>4. CASE cpu_quiescent_counter_leave(c)
  BY <1>4 DEF cpu_quiescent_counter_leave, maskVars, QuiesceTypeOK, MaskInv
<1>5. CASE cpu_quiescent_counter_checkin(c)
  BY <1>5 DEF cpu_quiescent_counter_checkin, MaskInv
<1>6. CASE commit_load(c)
  BY <1>6 DEF commit_load, maskVars, MaskInv
<1>7. CASE commit_store(c)
  BY <1>7 DEF commit_store, maskVars, MaskInv
<1>8. CASE commit_reset(c)
  BY <1>8 DEF commit_reset, MaskInv
<1>9. CASE os_once_mark_quiescing(c)
  BY <1>9 DEF os_once_mark_quiescing, maskVars, cpuVars, MaskInv
<1>10. CASE os_once_mark_done_if_quiesced(c)
  BY <1>10 DEF os_once_mark_done_if_quiesced, maskVars, cpuVars, MaskInv
<1> QED
  BY <1>1, <1>2, <1>3, <1>4, <1>5, <1>6, <1>7, <1>8, <1>9, <1>10

\* The leave that completes a tick is of the only CPU that has not checked in.
LEMMA LeavesLast ==
  ASSUME MaskInv, NEW c \in CPUs, expected # checkin,
         expected \ {c} = checkin \ {c}
  PROVE  c \notin checkin
BY DEF MaskInv

\* A commit after which the counter is to be relied on begins with no other
\* under way: if none has been met, everybody would have checked in.
LEMMA BeginsAlone ==
  ASSUME MaskInv, CommitInv, NEW c \in CPUs, state[c] = "JOINED", c \notin checkin,
         commits(c), ~overlap'
  PROVE  Quiet
BY Zenon DEF MaskInv, CommitInv, commits, Committing, Quiet

\* The three ways in which a CPU leaves.
LEMMA LeaveCases ==
  ASSUME MaskInv, NEW c \in CPUs, cpu_quiescent_counter_leave(c)
  PROVE  \/ /\ state[c] = "PENDING_JOIN"
            /\ stays /\ UNCHANGED <<maskVars, viewVars>>
         \/ /\ state[c] = "JOINED" /\ stays
            /\ expected' = expected \ {c} /\ checkin' = checkin \ {c}
            /\ acquire(c) /\ release(c)
         \/ /\ state[c] = "JOINED" /\ commits(c) /\ c \notin checkin
            /\ expected' = expected \ {c} /\ checkin' = checkin \ {c}
            /\ expected' = checkin'
            /\ acquire(c) /\ release(c)
BY LeavesLast DEF cpu_quiescent_counter_leave, needs_commit

\* Every action keeps the newest store in reach of those that acquire the mask.
LEMMA NewestStep ==
  ASSUME QuiesceTypeOK, MaskInv, NewestInv, QuiesceNext
  PROVE  NewestInv'
<1>1. PICK c \in CPUs :
        \/ cpu_quiescent_counter_join(c) \/ cpu_quiescent_counter_ast(c)
        \/ cpu_quiescent_counter_leave(c) \/ cpu_quiescent_counter_checkin(c)
        \/ commit_load(c) \/ commit_store(c) \/ commit_reset(c)
        \/ os_once_mark_quiescing(c) \/ os_once_mark_done_if_quiesced(c)
  BY DEF QuiesceNext, Tick
<1>2. CASE cpu_quiescent_counter_join(c)
  BY <1>2, Zenon
  DEF cpu_quiescent_counter_join, maskVars, counterVars, viewVars, Quiet, NewestInv
<1>3. CASE cpu_quiescent_counter_ast(c)
  BY <1>3
  DEF cpu_quiescent_counter_ast, counterVars, QuiesceTypeOK, Quiet, NewestInv, acquire,
      Larger
<1>4. CASE cpu_quiescent_counter_leave(c)
  <2>1. UNCHANGED ticks
    BY <1>4, Zenon DEF cpu_quiescent_counter_leave, counterVars
  <2>2. CASE stays /\ UNCHANGED <<maskVars, viewVars>>
    BY <2>1, <2>2, Zenon DEF maskVars, viewVars, stays, Quiet, NewestInv
  <2>3. CASE /\ stays /\ checkin' = checkin \ {c}
             /\ acquire(c) /\ release(c)
    BY <2>1, <2>3 DEF QuiesceTypeOK, Quiet, NewestInv, acquire, release, stays, Larger
  <2>4. CASE /\ commits(c) /\ commit[c] = "no"
             /\ acquire(c) /\ release(c)
    BY <2>1, <2>4 DEF QuiesceTypeOK, Quiet, NewestInv, acquire, release, commits, Larger
  <2> QED
    BY <1>4, <2>2, <2>3, <2>4, LeaveCases DEF cpu_quiescent_counter_leave
<1>5. CASE cpu_quiescent_counter_checkin(c)
  <2>1. /\ UNCHANGED ticks /\ acquire(c) /\ release(c)
        /\ checkin' = checkin \cup {c} /\ commit[c] = "no"
    BY <1>5, Zenon DEF cpu_quiescent_counter_checkin, counterVars
  <2>2. CASE stays
    BY <2>1, <2>2 DEF QuiesceTypeOK, Quiet, NewestInv, acquire, release, stays, Larger
  <2>3. CASE commits(c)
    BY <2>1, <2>3 DEF QuiesceTypeOK, Quiet, NewestInv, acquire, release, commits, Larger
  <2> QED
    BY <1>5, <2>2, <2>3 DEF cpu_quiescent_counter_checkin
<1>6. CASE commit_load(c)
  BY <1>6
  DEF commit_load, maskVars, counterVars, viewVars, QuiesceTypeOK, Quiet, NewestInv
<1>7. CASE commit_store(c)
  BY <1>7 DEF commit_store, QuiesceTypeOK, Quiet, NewestInv
<1>8. CASE commit_reset(c)
  BY <1>8 DEF commit_reset, counterVars, QuiesceTypeOK, Quiet, NewestInv, release, Larger
<1>9. CASE os_once_mark_quiescing(c)
  BY <1>9
  DEF os_once_mark_quiescing, maskVars, counterVars, cpuVars, QuiesceTypeOK, InUser,
      Quiet, NewestInv, Loads
<1>10. CASE os_once_mark_done_if_quiesced(c)
  BY <1>10
  DEF os_once_mark_done_if_quiesced, maskVars, counterVars, cpuVars, QuiesceTypeOK,
      InUser, Quiet, NewestInv, Larger, Loads
<1> QED
  BY <1>1, <1>2, <1>3, <1>4, <1>5, <1>6, <1>7, <1>8, <1>9, <1>10

\* Every action keeps commits exclusive while no empty mask has been joined
\* during one.
LEMMA CommitStep ==
  ASSUME QuiesceTypeOK, MaskInv, CommitInv, QuiesceNext
  PROVE  CommitInv'
<1>1. PICK c \in CPUs :
        \/ cpu_quiescent_counter_join(c) \/ cpu_quiescent_counter_ast(c)
        \/ cpu_quiescent_counter_leave(c) \/ cpu_quiescent_counter_checkin(c)
        \/ commit_load(c) \/ commit_store(c) \/ commit_reset(c)
        \/ os_once_mark_quiescing(c) \/ os_once_mark_done_if_quiesced(c)
  BY DEF QuiesceNext, Tick
<1>2. CASE cpu_quiescent_counter_join(c)
  BY <1>2, Zenon DEF cpu_quiescent_counter_join, maskVars, raceVars, CommitInv, Quiet
<1>3. CASE cpu_quiescent_counter_ast(c)
  BY <1>3 DEF cpu_quiescent_counter_ast, CommitInv, MaskInv, Quiet, meets, Committing
<1>4. CASE cpu_quiescent_counter_leave(c)
  <2>1. CASE stays /\ UNCHANGED <<maskVars, viewVars>>
    BY <2>1, Zenon DEF maskVars, stays, Quiet, CommitInv
  <2>2. CASE stays /\ expected' = expected \ {c} /\ checkin' = checkin \ {c}
    BY <2>2, Zenon DEF stays, Quiet, CommitInv
  <2>3. CASE /\ state[c] = "JOINED" /\ commits(c) /\ c \notin checkin
             /\ expected' = checkin'
    BY <2>3, BeginsAlone DEF QuiesceTypeOK, Quiet, CommitInv, commits
  <2> QED
    BY <1>4, <2>1, <2>2, <2>3, LeaveCases
<1>5. CASE cpu_quiescent_counter_checkin(c)
  <2>1. CASE stays
    BY <1>5, <2>1 DEF cpu_quiescent_counter_checkin, MaskInv, CommitInv, Quiet, stays
  <2>2. CASE commits(c) /\ checkin' = expected
    BY <1>5, <2>2, BeginsAlone
    DEF cpu_quiescent_counter_checkin, QuiesceTypeOK, CommitInv, Quiet, commits
  <2> QED
    BY <1>5, <2>1, <2>2 DEF cpu_quiescent_counter_checkin, needs_commit
<1>6. CASE commit_load(c)
  BY <1>6 DEF commit_load, maskVars, raceVars, CommitInv, Quiet
<1>7. CASE commit_store(c)
  BY <1>7 DEF commit_store, maskVars, raceVars, CommitInv, Quiet
<1>8. CASE commit_reset(c)
  BY <1>8 DEF commit_reset, raceVars, QuiesceTypeOK, CommitInv, Quiet
<1>9. CASE os_once_mark_quiescing(c)
  BY <1>9, Zenon DEF os_once_mark_quiescing, maskVars, cpuVars, CommitInv, Quiet
<1>10. CASE os_once_mark_done_if_quiesced(c)
  BY <1>10, Zenon
  DEF os_once_mark_done_if_quiesced, maskVars, cpuVars, raceVars, CommitInv, Quiet
<1> QED
  BY <1>1, <1>2, <1>3, <1>4, <1>5, <1>6, <1>7, <1>8, <1>9, <1>10

\* A commit that begins alone knows of the newest store, and so does everybody
\* who has checked in.
LEMMA BeginsAfresh ==
  ASSUME QuiesceTypeOK, NewestInv, Quiet, NEW c \in CPUs,
         commits(c), acquire(c), release(c), UNCHANGED <<ticks, counter>>,
         checkin' \subseteq checkin \cup {c}, expected' = checkin'
  PROVE  GenInv'
<1>1. maskView = ticks /\ \A d \in checkin : genView[d] = ticks
  BY Zenon DEF NewestInv, Quiet
<1>2. maskView' = ticks /\ genView'[c] = ticks
  BY <1>1 DEF QuiesceTypeOK, acquire, release, Larger
<1>3. \A d \in expected' : genView'[d] = ticks
  BY <1>1, <1>2 DEF QuiesceTypeOK, acquire
<1>4. \A d \in CPUs : commit'[d] = IF d = c THEN "load" ELSE "no"
  BY DEF QuiesceTypeOK, Quiet, commits
<1>5. ticks' = ticks /\ ticks \in Nat
  BY DEF QuiesceTypeOK
<1>6. \A d \in CPUs : commit'[d] # "store" /\ (commit'[d] # "no" => genView'[d] = ticks)
  BY <1>2, <1>4
<1>7. ~(maskView' < ticks) /\ ~(\E d \in expected' : genView'[d] < ticks)
  BY <1>2, <1>3, <1>5
<1>8. ticks <= maskView' + 1 /\ \A d \in expected' : ticks <= genView'[d] + 1
  BY <1>2, <1>3, <1>5
<1> QED
  BY <1>3, <1>5, <1>6, <1>7, <1>8, Zenon DEF GenInv

\* Every action keeps what is known of the counter.
LEMMA GenStep ==
  ASSUME QuiesceTypeOK, MaskInv, NewestInv, CommitInv, GenInv, QuiesceNext
  PROVE  GenInv'
<1>1. PICK c \in CPUs :
        \/ cpu_quiescent_counter_join(c) \/ cpu_quiescent_counter_ast(c)
        \/ cpu_quiescent_counter_leave(c) \/ cpu_quiescent_counter_checkin(c)
        \/ commit_load(c) \/ commit_store(c) \/ commit_reset(c)
        \/ os_once_mark_quiescing(c) \/ os_once_mark_done_if_quiesced(c)
  BY DEF QuiesceNext, Tick
<1>2. CASE cpu_quiescent_counter_join(c)
  BY <1>2, Zenon
  DEF cpu_quiescent_counter_join, maskVars, counterVars, viewVars, raceVars, Quiet,
      GenInv, CountedIn, Ticking
<1>3. CASE cpu_quiescent_counter_ast(c)
  <2> SUFFICES ASSUME ~overlap' PROVE GenInv'
    BY DEF GenInv
  <2>1. ~overlap /\ UNCHANGED <<ticks, counter, commit, old_gen, maskView>>
    BY <1>3, Zenon DEF cpu_quiescent_counter_ast, counterVars, meets
  <2>2. /\ \A d \in CPUs \ {c} : genView'[d] = genView[d]
        /\ genView'[c] \in {genView[c], maskView}
        /\ genView'[c] >= genView[c] /\ genView'[c] >= maskView /\ genView'[c] <= ticks
    BY <1>3 DEF cpu_quiescent_counter_ast, QuiesceTypeOK, acquire, Larger
  <2>3. expected' = expected \cup {c} /\ checkin' \subseteq checkin \cup {c}
    BY <1>3 DEF cpu_quiescent_counter_ast
  <2>4. \A d \in expected' : d # c => d \in expected /\ (CountedIn(d)' => CountedIn(d))
    BY <2>1, <2>3 DEF CountedIn, Ticking, Quiet
  <2>5. CountedIn(c)' => maskView = ticks
    BY <2>1 DEF CountedIn, Ticking, Quiet, NewestInv, CommitInv
  <2>6. \A d \in CPUs : commit[d] # "no" => genView'[d] = ticks
    BY <2>1, <2>2 DEF QuiesceTypeOK, GenInv
  <2>7. genView'[c] < ticks => maskView < ticks
    BY <2>2 DEF QuiesceTypeOK
  <2> QED
    BY <2>1, <2>2, <2>3, <2>4, <2>5, <2>6, <2>7 DEF QuiesceTypeOK, GenInv
<1>4. CASE cpu_quiescent_counter_leave(c)
  <2>1. UNCHANGED <<ticks, counter, old_gen>> /\ commit[c] = "no"
    BY <1>4, Zenon DEF cpu_quiescent_counter_leave, counterVars
  <2>2. CASE stays /\ UNCHANGED <<maskVars, viewVars>>
    BY <2>1, <2>2, Zenon
    DEF maskVars, viewVars, stays, Quiet, GenInv, CountedIn, Ticking
  <2>3. CASE /\ stays /\ acquire(c) /\ release(c)
             /\ expected' = expected \ {c} /\ checkin' = checkin \ {c}
    BY <2>1, <2>3
    DEF QuiesceTypeOK, Quiet, GenInv, CountedIn, Ticking, acquire, release, stays, Larger
  <2>4. CASE /\ state[c] = "JOINED" /\ commits(c) /\ c \notin checkin
             /\ checkin' = checkin \ {c} /\ expected' = checkin'
             /\ acquire(c) /\ release(c)
    BY <2>1, <2>4, BeginsAlone, BeginsAfresh DEF GenInv
  <2> QED
    BY <1>4, <2>2, <2>3, <2>4, LeaveCases
<1>5. CASE cpu_quiescent_counter_checkin(c)
  <2>1. /\ UNCHANGED <<ticks, counter, old_gen, expected>>
        /\ state[c] = "JOINED" /\ c \notin checkin
        /\ acquire(c) /\ release(c) /\ checkin' = checkin \cup {c}
    BY <1>5, Zenon DEF cpu_quiescent_counter_checkin, counterVars
  <2>2. CASE stays
    <3>1. ~overlap => Quiet /\ maskView = ticks
      BY <2>1, Zenon DEF MaskInv, CommitInv, NewestInv, Quiet
    <3> QED
      BY <2>1, <2>2, <3>1
      DEF QuiesceTypeOK, Quiet, GenInv, CountedIn, Ticking, acquire, release, stays, Larger
  <2>3. CASE commits(c) /\ checkin' = expected
    BY <2>1, <2>3, BeginsAlone, BeginsAfresh DEF GenInv
  <2> QED
    BY <1>5, <2>2, <2>3 DEF cpu_quiescent_counter_checkin, needs_commit
<1>6. CASE commit_load(c)
  BY <1>6
  DEF commit_load, maskVars, counterVars, viewVars, raceVars, QuiesceTypeOK, Quiet, GenInv,
      CountedIn, Ticking, Loads
<1>7. CASE commit_store(c)
  <2> SUFFICES ASSUME ~overlap PROVE GenInv'
    BY <1>7 DEF commit_store, raceVars, GenInv
  <2>1. /\ \A d \in CPUs : commit'[d] = IF d = c THEN "reset" ELSE "no"
        /\ old_gen[c] = counter[ticks] /\ maskView = ticks
        /\ \A d \in expected : genView[d] = ticks
    BY <1>7
    DEF commit_store, QuiesceTypeOK, NewestInv, CommitInv, GenInv, CountedIn, Ticking
  <2>2. /\ ticks' = ticks + 1 /\ counter'[ticks'] = counter[ticks] + 1
        /\ counter'[ticks' - 1] = counter[ticks]
        /\ UNCHANGED <<expected, maskView>>
        /\ \A d \in CPUs : genView'[d] = IF d = c THEN ticks + 1 ELSE genView[d]
    BY <1>7, <2>1, QuiesceAssumption DEF commit_store, maskVars, QuiesceTypeOK
  <2>3. \A d \in expected : ~CountedIn(d)'
    BY <2>1 DEF CountedIn, Ticking, Quiet
  <2>4. ticks' <= maskView' + 1 /\ \A d \in expected' : ticks' <= genView'[d] + 1
    <3>1. ticks \in Nat /\ expected \subseteq CPUs
      BY DEF QuiesceTypeOK
    <3>2. \A d \in expected : genView'[d] \in {ticks, ticks + 1}
      BY <2>1, <2>2, <3>1
    <3> QED
      BY <2>1, <2>2, <3>1, <3>2
  <2>5. \A d \in CPUs : commit'[d] # "store" /\ (commit'[d] # "no" => genView'[d] = ticks')
    BY <2>1, <2>2
  <2>6. counter'[ticks'] = counter'[ticks' - 1] + 1
    BY <2>2
  <2> QED
    BY <2>2, <2>3, <2>4, <2>5, <2>6, Zenon DEF GenInv
<1>8. CASE commit_reset(c)
  BY <1>8
  DEF commit_reset, counterVars, raceVars, QuiesceTypeOK, GenInv, CountedIn, Ticking,
      release, Larger
<1>9. CASE os_once_mark_quiescing(c)
  BY <1>9
  DEF os_once_mark_quiescing, maskVars, counterVars, cpuVars, QuiesceTypeOK, InUser, Quiet,
      GenInv, CountedIn, Ticking, Loads
<1>10. CASE os_once_mark_done_if_quiesced(c)
  BY <1>10
  DEF os_once_mark_done_if_quiesced, maskVars, counterVars, cpuVars, raceVars,
      QuiesceTypeOK, InUser, Quiet, GenInv, CountedIn, Ticking, Larger, Loads
<1> QED
  BY <1>1, <1>2, <1>3, <1>4, <1>5, <1>6, <1>7, <1>8, <1>9, <1>10

\* A step that stores nothing keeps what is known of the initializer's writes,
\* if those that have them stay until they have passed them on, and only
\* those that do not have them may join or check in before that.
LEMMA SpreadKept ==
  ASSUME QuiesceTypeOK, Spreading, UNCHANGED <<ticks, once.view>>,
         informed \subseteq informed', released => released',
         ~released' => \A d \in expected \cap informed :
                         d \in expected' /\ (CountedIn(d)' => CountedIn(d)),
         \A d \in expected' \ informed' :
           ~released \/ (d \in expected /\ (CountedIn(d)' => CountedIn(d)))
  PROVE  Spreading'
<1>1. ticks \in Nat /\ once.view \in Nat
  BY DEF QuiesceTypeOK
<1>2. ~released => ticks <= once.view + 2
  BY <1>1, Zenon DEF Spreading
<1>3. ticks <= once.view + 2 => ticks <= once.view + 3
  BY <1>1
<1> QED
  BY <1>2, <1>3, Zenon DEF Spreading

\* Every action keeps what is known of the initializer's writes.
LEMMA OnceStep ==
  ASSUME QuiesceTypeOK, MaskInv, NewestInv, CommitInv, GenInv, OnceInv, QuiesceNext
  PROVE  OnceInv'
<1>1. PICK c \in CPUs :
        \/ cpu_quiescent_counter_join(c) \/ cpu_quiescent_counter_ast(c)
        \/ cpu_quiescent_counter_leave(c) \/ cpu_quiescent_counter_checkin(c)
        \/ commit_load(c) \/ commit_store(c) \/ commit_reset(c)
        \/ os_once_mark_quiescing(c) \/ os_once_mark_done_if_quiesced(c)
  BY DEF QuiesceNext, Tick
<1>2. CASE cpu_quiescent_counter_join(c)
  BY <1>2, Zenon
  DEF cpu_quiescent_counter_join, maskVars, counterVars, viewVars, raceVars, Quiet,
      CountedIn, Ticking, OnceInv, Increments, Spreading
<1>3. CASE cpu_quiescent_counter_ast(c)
  <2>1. UNCHANGED <<ticks, counter, once, commit, released>>
    BY <1>3, Zenon DEF cpu_quiescent_counter_ast, counterVars
  <2>2. expected' = expected \cup {c} /\ checkin' \subseteq checkin \cup {c}
    BY <1>3 DEF cpu_quiescent_counter_ast
  <2>3. informed' = IF released THEN informed \cup {c} ELSE informed
    BY <1>3 DEF cpu_quiescent_counter_ast, acquire
  <2>4. ~disturbed' => ~disturbed /\ (once.kind = "GEN" /\ ~overlap => ~overlap')
    BY <1>3, Zenon DEF cpu_quiescent_counter_ast, meets, QuiesceTypeOK
  <2>5. c \notin expected
    BY <1>3 DEF cpu_quiescent_counter_ast, MaskInv
  <2>6. \A d \in expected : CountedIn(d)' => CountedIn(d)
    BY <2>1, <2>2, <2>5 DEF CountedIn, Ticking, Quiet
  <2>7. Spreading => Spreading'
    BY <2>1, <2>2, <2>3, <2>6, SpreadKept
  <2>8. released /\ expected \subseteq informed => expected' \subseteq informed'
    BY <2>2, <2>3
  <2>9. Increments => Increments'
    BY <2>1, Zenon DEF Increments
  <2> QED
    BY <2>1, <2>4, <2>7, <2>8, <2>9, Zenon DEF OnceInv
<1>4. CASE cpu_quiescent_counter_leave(c)
  <2>1. UNCHANGED <<ticks, counter, once, disturbed>>
    BY <1>4, Zenon DEF cpu_quiescent_counter_leave, counterVars
  <2>2. CASE stays /\ UNCHANGED <<maskVars, viewVars>>
    BY <2>1, <2>2, Zenon
    DEF maskVars, viewVars, stays, Quiet, CountedIn, Ticking, OnceInv, Increments,
        Spreading
  <2>3. CASE /\ stays /\ acquire(c) /\ release(c)
             /\ expected' = expected \ {c} /\ checkin' = checkin \ {c}
    <3>1. informed \subseteq informed' /\ released' = (released \/ c \in informed)
      BY <2>3 DEF acquire, release
    <3>2. \A d \in expected : CountedIn(d)' => CountedIn(d)
      BY <2>3 DEF CountedIn, Ticking, Quiet, stays
    <3>3. Spreading => Spreading'
      BY <2>1, <2>3, <3>1, <3>2, SpreadKept
    <3> QED
      BY <2>1, <2>3, <3>1, <3>3, Zenon DEF OnceInv, Increments, stays
  <2>4. CASE /\ state[c] = "JOINED" /\ commits(c) /\ c \notin checkin
             /\ expected' = expected \ {c} /\ checkin' = checkin \ {c}
             /\ expected' = checkin' /\ acquire(c) /\ release(c)
    <3>1. informed \subseteq informed' /\ released' = (released \/ c \in informed)
      BY <2>4 DEF acquire, release
    <3>2. overlap' => overlap
      BY <2>4 DEF commits
    <3>3. ~overlap' => \A d \in expected' : CountedIn(d)
      BY <2>4, BeginsAlone DEF CountedIn
    <3>4. ~overlap' /\ Spreading => Spreading'
      BY <2>1, <2>4, <3>1, <3>3, SpreadKept
    <3> QED
      BY <2>1, <2>4, <3>1, <3>2, <3>4, Zenon DEF OnceInv, Increments
  <2> QED
    BY <1>4, <2>2, <2>3, <2>4, LeaveCases
<1>5. CASE cpu_quiescent_counter_checkin(c)
  <2>1. /\ UNCHANGED <<ticks, counter, once, disturbed, expected>>
        /\ state[c] = "JOINED" /\ c \notin checkin
        /\ checkin' = checkin \cup {c}
    BY <1>5, Zenon DEF cpu_quiescent_counter_checkin, counterVars
  <2>2. /\ informed' = IF released THEN informed \cup {c} ELSE informed
        /\ released' = (released \/ c \in informed)
    BY <1>5 DEF cpu_quiescent_counter_checkin, acquire, release
  <2>3. overlap' => overlap
    BY <1>5 DEF cpu_quiescent_counter_checkin, commits, stays
  <2>4. ~overlap' => \A d \in expected \ {c} : CountedIn(d)' => CountedIn(d)
    <3>1. CASE stays
      BY <2>1, <3>1 DEF CountedIn, Ticking, Quiet, stays
    <3>2. CASE commits(c) /\ checkin' = expected
      BY <2>1, <3>2, BeginsAlone DEF CountedIn
    <3> QED
      BY <1>5, <3>1, <3>2 DEF cpu_quiescent_counter_checkin, needs_commit
  <2>5. ~overlap' /\ Spreading => Spreading'
    BY <2>1, <2>2, <2>4, SpreadKept
  <2> QED
    BY <2>1, <2>2, <2>3, <2>5, Zenon DEF OnceInv, Increments
<1>6. CASE commit_load(c)
  <2>1. \A d \in CPUs : CountedIn(d)' => CountedIn(d)
    BY <1>6 DEF commit_load, maskVars, CountedIn, Ticking, Quiet
  <2>2. UNCHANGED <<ticks, counter, once, disturbed, overlap, expected, informed, released>>
    BY <1>6, Zenon DEF commit_load, maskVars, counterVars, viewVars, raceVars
  <2> QED
    BY <2>1, <2>2, SpreadKept DEF OnceInv, Increments, QuiesceTypeOK
<1>7. CASE commit_store(c)
  <2>1. UNCHANGED <<once, disturbed, overlap, expected, informed, released>>
    BY <1>7, Zenon DEF commit_store, maskVars, raceVars
  <2>2. CASE ~(once.kind = "GEN" /\ ~disturbed)
    BY <2>1, <2>2, Zenon DEF OnceInv
  <2>3. CASE once.kind = "GEN" /\ ~disturbed
    <3>1. ~overlap /\ Increments /\ Spreading
      BY <2>3, Zenon DEF OnceInv
    <3>2. /\ ticks' = ticks + 1 /\ counter'[ticks'] = counter[ticks] + 1
          /\ \A i \in 0..ticks : counter'[i] = counter[i]
      BY <1>7, <3>1, QuiesceAssumption DEF commit_store, QuiesceTypeOK, GenInv
    <3>3. \A d \in CPUs : CountedIn(d) /\ ~CountedIn(d)'
      BY <1>7, <3>1
      DEF commit_store, QuiesceTypeOK, CommitInv, CountedIn, Ticking, Quiet
    <3>4. Increments'
      <4>1. ticks \in Nat /\ once.view \in 0..ticks /\ once.gen \in Nat
        BY DEF QuiesceTypeOK
      <4>2. \A i \in once.view..ticks : counter'[i] = once.gen + (i - once.view)
        BY <3>1, <3>2, <4>1 DEF Increments
      <4>3. counter'[ticks + 1] = once.gen + ((ticks + 1) - once.view)
        BY <3>1, <3>2, <4>1 DEF Increments
      <4>4. \A i \in once.view..ticks + 1 : i \in once.view..ticks \/ i = ticks + 1
        BY <4>1
      <4> QED
        BY <2>1, <3>2, <4>2, <4>3, <4>4, Zenon DEF Increments
    <3>5. Spreading'
      BY <2>1, <3>1, <3>2, <3>3 DEF QuiesceTypeOK, Spreading
    <3> QED
      BY <2>1, <2>3, <3>1, <3>4, <3>5, Zenon DEF OnceInv
  <2> QED
    BY <2>2, <2>3
<1>8. CASE commit_reset(c)
  <2>1. /\ UNCHANGED <<ticks, counter, once, disturbed, overlap, expected, informed>>
        /\ checkin' = {} /\ (released => released')
    BY <1>8, Zenon DEF commit_reset, counterVars, raceVars, release
  <2>2. \A d \in CPUs : CountedIn(d)' => CountedIn(d)
    BY <1>8, <2>1 DEF commit_reset, QuiesceTypeOK, CountedIn, Ticking
  <2>3. Spreading => Spreading'
    BY <2>1, <2>2, SpreadKept DEF QuiesceTypeOK
  <2> QED
    BY <2>1, <2>3, Zenon DEF OnceInv, Increments
<1>9. CASE os_once_mark_quiescing(c)
  <2>1. PICK i \in genView[c]..ticks :
          once' = [kind |-> "GEN", gen |-> counter[i], view |-> i]
    BY <1>9 DEF os_once_mark_quiescing, Loads
  <2>2. /\ UNCHANGED <<ticks, counter, expected, released, overlap>>
        /\ disturbed' = overlap /\ informed' = informed \cup {c} /\ c \in expected
    BY <1>9, Zenon
    DEF os_once_mark_quiescing, maskVars, counterVars, InUser, MaskInv
  <2>3. CASE overlap
    BY <2>1, <2>2, <2>3 DEF OnceInv
  <2>4. CASE ~overlap
    <3>1. ticks <= i + 1 /\ (i < ticks => counter[ticks] = counter[i] + 1)
      BY <2>1, <2>2, <2>4 DEF QuiesceTypeOK, GenInv
    <3>2. Increments'
      <4>1. ticks \in Nat /\ i \in 0..ticks /\ counter[i] \in Nat
        BY <2>1, QuiesceAssumption DEF QuiesceTypeOK
      <4>2. ASSUME NEW j \in i..ticks PROVE counter[j] = counter[i] + (j - i)
        <5>1. j = i \/ (j = ticks /\ j = i + 1)
          BY <3>1, <4>1
        <5> QED
          BY <3>1, <4>1, <5>1
      <4> QED
        BY <2>1, <2>2, <4>2 DEF Increments
    <3>3. Spreading'
      BY <2>1, <2>2, <3>1 DEF QuiesceTypeOK, Spreading
    <3> QED
      BY <2>1, <2>2, <2>4, <3>2, <3>3 DEF OnceInv
  <2> QED
    BY <2>3, <2>4
<1>10. CASE os_once_mark_done_if_quiesced(c)
  <2>1. /\ UNCHANGED <<ticks, counter, expected, checkin, commit, released, raceVars>>
        /\ informed' = informed \cup {c} /\ once.kind = "GEN"
    BY <1>10, Zenon
    DEF os_once_mark_done_if_quiesced, maskVars, counterVars, cpuVars
  <2>2. CASE once' = once
    <3>1. \A d \in CPUs : CountedIn(d)' => CountedIn(d)
      BY <2>1 DEF CountedIn, Ticking, Quiet
    <3>2. Spreading => Spreading'
      BY <2>1, <2>2, <3>1, SpreadKept DEF QuiesceTypeOK
    <3> QED
      BY <2>1, <2>2, <3>2, Zenon DEF raceVars, OnceInv, Increments
  <2>3. CASE once' # once /\ ~disturbed
    <3>1. Increments /\ Spreading
      BY <2>1, <2>3, Zenon DEF OnceInv
    <3>2. PICK i \in once.view..ticks :
            /\ once'.kind = "DONE"
            /\ \/ counter[i] < once.gen
               \/ counter[i] - once.gen >= OS_ONCE_GEN_SAFE_DELTA
      BY <1>10, <2>3
      DEF os_once_mark_done_if_quiesced, QuiesceTypeOK, Loads, Larger
    <3>3. ticks > once.view + 3
      BY <3>1, <3>2 DEF QuiesceTypeOK, Increments, OS_ONCE_GEN_SAFE_DELTA
    <3>4. released /\ expected \subseteq informed
      BY <3>1, <3>3 DEF QuiesceTypeOK, Spreading
    <3> QED
      BY <2>1, <3>2, <3>4 DEF OnceInv
  <2>4. CASE once' # once /\ disturbed
    BY <2>1, <2>4, Zenon DEF raceVars, OnceInv
  <2> QED
    BY <2>2, <2>3, <2>4
<1> QED
  BY <1>1, <1>2, <1>3, <1>4, <1>5, <1>6, <1>7, <1>8, <1>9, <1>10

\* A step that changes nothing keeps the invariant.
LEMMA QuiesceStutter ==
  ASSUME QuiesceInv, UNCHANGED quiesceVars
  PROVE  QuiesceInv'
BY Zenon
DEF QuiesceInv, quiesceVars, maskVars, counterVars, cpuVars, viewVars, raceVars,
    QuiesceTypeOK, MaskInv, NewestInv, CommitInv, GenInv, OnceInv, Increments, Spreading,
    CountedIn, Ticking, Quiet

\* The invariant holds when no CPU has joined and the counter is 0.
LEMMA QuiesceInitInv == QuiesceInit => QuiesceInv
<1> SUFFICES ASSUME QuiesceInit PROVE QuiesceInv
  OBVIOUS
<1> USE QuiesceAssumption DEF QuiesceInit
<1>1. QuiesceTypeOK
  <2>1. 0 \in 0..MaxTicks /\ 0 \in 0..0 /\ 0 \in Nat
    OBVIOUS
  <2>2. once \in [kind : {"INIT", "GEN", "DONE"}, gen : Nat, view : 0..ticks]
    BY <2>1 DEF NotInitialized
  <2> QED
    BY <2>1, <2>2, Zenon DEF QuiesceTypeOK, CpuStates
<1>2. MaskInv /\ NewestInv /\ CommitInv
  BY DEF MaskInv, NewestInv, CommitInv, Quiet
<1>3. GenInv
  BY DEF GenInv
<1>4. OnceInv
  BY DEF OnceInv, NotInitialized
<1> QED
  BY <1>1, <1>2, <1>3, <1>4 DEF QuiesceInv

\* The invariant holds at all times.
THEOREM QuiesceInvariant == QuiesceSpec => []QuiesceInv
<1>1. QuiesceInv /\ [QuiesceNext]_quiesceVars => QuiesceInv'
  BY QuiesceStutter, TypeStep, MaskStep, NewestStep, CommitStep, GenStep, OnceStep
     DEF QuiesceInv
<1> QED
  BY <1>1, QuiesceInitInv, PTL DEF QuiesceSpec

-----------------------------------------------------------------------------
INSTANCE FiniteSetTheorems

\* The comment on cpu_quiescent_counter_commit, for any number of CPUs: unless
\* an empty mask was joined during a commit, at most one CPU increments the
\* counter at a time.
THEOREM OneCommit == QuiesceSpec => []CommitExclusive
<1>1. QuiesceInv => CommitExclusive
  <2> SUFFICES ASSUME QuiesceInv, ~overlap PROVE Cardinality(Committing) <= 1
    BY DEF CommitExclusive
  <2>1. \A c, d \in Committing : c = d
    BY DEF QuiesceInv, CommitInv, Committing
  <2>2. CASE Committing = {}
    BY <2>2, FS_EmptySet
  <2>3. ASSUME NEW c \in Committing PROVE Cardinality(Committing) <= 1
    <3>1. Committing = {c}
      BY <2>1, <2>3
    <3>2. Cardinality({c}) = 1
      BY FS_Singleton, Zenon
    <3> QED
      BY <3>1, <3>2
  <2> QED
    BY <2>1, <2>2, <2>3
<1> QED
  BY <1>1, QuiesceInvariant, PTL

\* Lemma 1 of libdispatch's lock.h, for any number of CPUs and whatever time a
\* commit takes: one that runs user code lags behind the counter by one store
\* at most, except from the join of an empty mask during a commit to the next
\* commit that begins alone.
THEOREM AtMostTwoGenerations == QuiesceSpec => []TwoGenerations
<1>1. QuiesceInv => TwoGenerations
  BY DEF QuiesceInv, QuiesceTypeOK, MaskInv, GenInv, TwoGenerations, InUser
<1> QED
  BY <1>1, QuiesceInvariant, PTL

\* The theorem of lock.h, for any number of CPUs and whatever time a commit
\* takes: when the once word says DONE and no such join has met it on the way,
\* the initializer's writes are visible wherever user code runs.
THEOREM RetiredIsVisible == QuiesceSpec => []DoneIsVisible
<1>1. QuiesceInv => DoneIsVisible
  BY DEF QuiesceInv, QuiesceTypeOK, MaskInv, OnceInv, DoneIsVisible, Visible, InUser
<1> QED
  BY <1>1, QuiesceInvariant, PTL
=============================================================================
