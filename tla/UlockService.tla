---------------------------- MODULE UlockService ----------------------------
(***************************************************************************)
(* The ulock calls of sys_ulock.c as a service on one address: the user    *)
(* word that any thread may store to, and wait and wake calls that each    *)
(* take effect at one instant.  A wait blocks only if the word has the     *)
(* expected value at that instant.                                         *)
(***************************************************************************)
EXTENDS Ulock

CONSTANTS Values,       \* what the user word can hold
          OwnerOf,      \* the thread whose port a value names, MACH_PORT_DEAD
                        \* for a value that names that, or NoThread
          MACH_PORT_DEAD

VARIABLES word,         \* the user word
          ull_opcode,   \* operation of the waiters, "none" without a ull_t
          expect        \* the value with which a thread in ulock_wait called
                        \* it, NoThread outside

Opcodes == {"UL_UNFAIR_LOCK", "UL_COMPARE_AND_WAIT"}

serviceVars == <<word, ull_opcode, expect, ulockVars>>

ServiceInit ==
  /\ UlockInit /\ word \in Values /\ ull_opcode = "none"
  /\ expect = [t \in Threads |-> NoThread]

store == word' \in Values /\ UNCHANGED <<ull_opcode, expect, ulockVars>>

\* A value names no thread, or names the caller itself: the translation of
\* the port fails (EOWNERDEAD) and the call does not block.
OwnerDead(t, v) == OwnerOf[v] \in {NoThread, t}

Resolved(v) == IF OwnerOf[v] = MACH_PORT_DEAD THEN NoThread ELSE OwnerOf[v]

wait(t, op, value) ==
  /\ word = value
  /\ ull_waiters = {} \/ ull_opcode = op
  /\ \/ /\ op = "UL_UNFAIR_LOCK"
        /\ ~OwnerDead(t, word)
        /\ ulock_wait_block(t, Resolved(word))
     \/ /\ op = "UL_COMPARE_AND_WAIT"
        /\ ulock_wait_block(t, NoThread)
  /\ ull_opcode' = op
  /\ expect' = [expect EXCEPT ![t] = value]
  /\ UNCHANGED word

return(t) ==
  /\ ulock_wait_continue(t)
  /\ ull_opcode' = IF ull_more_waiters(t) THEN ull_opcode ELSE "none"
  /\ expect' = [expect EXCEPT ![t] = NoThread]
  /\ UNCHANGED word

cancel(t) ==
  /\ \E wr \in WaitResults : waitq_abort(t, wr)
  /\ UNCHANGED <<word, ull_opcode, expect>>

wake(t) ==
  /\ \/ ull_opcode = "UL_UNFAIR_LOCK"
        /\ \E o \in {t, ull_owner} :    \* ull_owner: ULF_WAKE_ALLOW_NON_OWNER
             ulock_wake_owner(o) \/ ulock_wake_owner_all(o)
     \/ ull_opcode = "UL_COMPARE_AND_WAIT"
        /\ (ulock_wake_one \/ ulock_wake_all)
  /\ UNCHANGED <<word, ull_opcode, expect>>

ServiceNext ==
  \/ store
  \/ \E t \in Threads : \/ \E op \in Opcodes, v \in Values : wait(t, op, v)
                        \/ return(t) \/ cancel(t) \/ wake(t)

ServiceSpec == ServiceInit /\ [][ServiceNext]_serviceVars
=============================================================================
