---------------------------- MODULE SharedMemory ----------------------------
(***************************************************************************)
(* The RAM that guest tasks share, and the load reservation of the hart    *)
(* (cpu.reservation_valid, cpu.reservation_addr), which SC.W relies on.    *)
(*                                                                         *)
(* There is one hart and one reservation, but a preemptive guest kernel    *)
(* interleaves several tasks on it, and each task runs LR.W / SC.W         *)
(* sequences of its own.  The kernel saves a task's registers with         *)
(* ordinary stores, as any trap handler must.  The emulator itself stores  *)
(* into RAM as well, on behalf of _read and _fstat.                        *)
(*                                                                         *)
(* RAM is a function from word addresses; what an instruction stores is    *)
(* any word of Values.                                                     *)
(***************************************************************************)
EXTENDS Integers

CONSTANTS
  Tasks,      \* the tasks of the guest kernel
  MemWords,   \* words that accesses reach: the RAM, and its padding where the
              \* RAM class does not check addresses
  Values      \* the words that programs store

Address == 0 .. MemWords - 1
Stack == -1   \* where the kernel saves registers: a word of no task
None == -2

ASSUME MemoryAssumption == MemWords \in Nat /\ Values # {}

VARIABLES
  memory,
  reservation_valid, reservation_addr,
  current,    \* the task that runs
  linked,     \* per task: the word of its LR.W, until its SC.W
  stale,      \* history: tasks whose linked word was stored to since their LR.W
  host_hit    \* history: the emulator has stored to the reserved word

reservationVars == <<reservation_valid, reservation_addr>>
taskVars == <<current, linked>>
memoryVars == <<memory, reservationVars, taskVars, stale, host_hit>>

MemoryTypeOK ==
  /\ memory \in [Address -> Values]
  /\ reservation_valid \in BOOLEAN
  /\ reservation_addr \in Address \cup {None}
  /\ current \in Tasks
  /\ linked \in [Tasks -> Address \cup {None}]
  /\ stale \subseteq Tasks
  /\ host_hit \in BOOLEAN

\* initialize_ram: the RAM is filled with one value.
Filled == {[a \in Address |-> v] : v \in Values}
Unlinked == [t \in Tasks |-> None]

MemoryInit ==
  /\ memory \in Filled
  /\ reservation_valid = FALSE
  /\ reservation_addr = None
  /\ current \in Tasks
  /\ linked = Unlinked
  /\ stale = {}
  /\ host_hit = FALSE

\* A new RAM and a new CPU.
MemoryReset ==
  /\ memory' \in Filled
  /\ reservation_valid' = FALSE
  /\ reservation_addr' = None
  /\ current' \in Tasks
  /\ linked' = Unlinked
  /\ stale' = {}
  /\ host_hit' = FALSE

-----------------------------------------------------------------------------
(* Stores                                                                  *)

\* The tasks that a store to the words of A makes stale.
LinkedTo(A) == {t \in Tasks : linked[t] \in A}

\* A slip in ReservedAfterStore: only a store to the reserved word ends the
\* reservation.
ReservedAfterStore_same_word(a) == reservation_valid /\ reservation_addr # a

\* SB, SH, SW and the AMOs end the reservation, whatever they store to.
ReservedAfterStore(a) == FALSE

\* What every store instruction to word a does to RAM and to the reservation.
store_word(a, v) ==
  /\ memory' = [memory EXCEPT ![a] = v]
  /\ reservation_valid' = ReservedAfterStore(a)
  /\ UNCHANGED <<reservation_addr, host_hit>>

\* SW, SB and SH; and the AMOs, whose load and store no other task's
\* instruction comes between.
exec_stores(a, v) ==
  /\ store_word(a, v)
  /\ stale' = stale \cup LinkedTo({a})
  /\ UNCHANGED taskVars

-----------------------------------------------------------------------------
(* LR.W and SC.W                                                           *)

exec_LR(a) ==
  /\ reservation_valid' = TRUE
  /\ reservation_addr' = a
  /\ linked' = [linked EXCEPT ![current] = a]
  /\ stale' = stale \ {current}
  /\ host_hit' = FALSE
  /\ UNCHANGED <<memory, current>>

Reserved(a) == reservation_valid /\ reservation_addr = a

\* SC.W to the word of the task's LR.W.  A failing one keeps the
\* reservation.
exec_SC(a, v) ==
  /\ linked[current] = a
  /\ linked' = [linked EXCEPT ![current] = None]
  /\ \/ /\ Reserved(a)
        /\ memory' = [memory EXCEPT ![a] = v]
        /\ reservation_valid' = FALSE
        /\ stale' = (stale \cup LinkedTo({a})) \ {current}
     \/ /\ ~Reserved(a)
        /\ stale' = stale \ {current}
        /\ UNCHANGED <<memory, reservation_valid>>
  /\ UNCHANGED <<reservation_addr, current, host_hit>>

-----------------------------------------------------------------------------
(* The kernel and the emulator                                             *)

\* An interrupt: the handler saves the registers of the current task with
\* exec_stores and returns to task t.
switch_task(t) ==
  /\ current' = t
  /\ reservation_valid' = ReservedAfterStore(Stack)
  /\ UNCHANGED <<memory, reservation_addr, linked, stale, host_hit>>

\* The emulator writes the words of A on its own, between two instructions:
\* the reservation is not looked at.
host_store(A, v) ==
  /\ memory' = [a \in Address |-> IF a \in A THEN v ELSE memory[a]]
  /\ stale' = stale \cup LinkedTo(A)
  /\ host_hit' = (host_hit \/ (reservation_valid /\ reservation_addr \in A))
  /\ UNCHANGED <<reservationVars, taskVars>>

TaskNext ==
  \/ \E a \in Address, v \in Values : exec_stores(a, v) \/ exec_SC(a, v)
  \/ \E a \in Address : exec_LR(a)
  \/ \E t \in Tasks : switch_task(t)
  \/ \E a \in Address, v \in Values : host_store({a}, v)

-----------------------------------------------------------------------------
(* Properties                                                              *)

\* exec_AMO: an SC.W that is about to succeed belongs to a task whose LR.W
\* loaded the value that is still there: no instruction of any task has
\* stored to the word in between, however the tasks were interleaved.  Only
\* a store of the emulator itself, on behalf of a system call made between
\* the two, escapes the reservation.
ScSound ==
  /\ linked[current] # None
  /\ Reserved(linked[current])
  /\ ~host_hit
  => current \notin stale
=============================================================================
