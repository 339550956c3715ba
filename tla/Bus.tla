-------------------------------- MODULE Bus --------------------------------
(***************************************************************************)
(* A guest on the memory bus (RAM_MMIO): tasks that share RAM, a driver of *)
(* the block device, or a program that talks to the UART.  Every access is *)
(* an instruction of the one hart, or a store of the emulator itself.      *)
(*                                                                         *)
(* Which of the three the guest is, is chosen at the start: the devices    *)
(* share no state with each other.                                         *)
(***************************************************************************)
EXTENDS BlockDevice, Uart

CONSTANT Programs   \* the guest programs: "tasks", "driver", "console"

ASSUME BusAssumption == Programs \subseteq {"tasks", "driver", "console"}

VARIABLE program

vars == <<memoryVars, blockVars, uartVars, program>>

Init ==
  /\ MemoryInit
  /\ BlockInit
  /\ UartInit
  /\ program \in Programs
  /\ program # "driver" => ~image_exists

tasks == program = "tasks" /\ running /\ TaskNext /\ UNCHANGED <<blockVars, uartVars, program>>
driver == program = "driver" /\ DriverNext /\ UNCHANGED <<uartVars, program>>
console == program = "console" /\ UartNext /\ UNCHANGED <<memoryVars, blockVars, program>>

\* The tasks and the driver: the driver's program also stores to its buffer.
buffer_store ==
  /\ program = "driver" /\ running
  /\ \E a \in Address, v \in Values : exec_stores(a, v)
  /\ UNCHANGED <<blockVars, uartVars, program>>

\* Tasks make no access that a check would refuse.
boot == program = "tasks" /\ start /\ ~checked' /\ UNCHANGED <<uartVars, program>>

Next == tasks \/ driver \/ console \/ buffer_store \/ boot

\* A console program polls RX for ever.
Polls == program = "console" /\ read32_rx /\ UNCHANGED <<memoryVars, blockVars, program>>

Spec == Init /\ [][Next]_vars /\ WF_vars(Polls)

\* The types: RAM never holds anything but words, in particular never what
\* lies beyond the end of a short image, and the queues of the UART hold
\* nothing but bytes that were sent.
TypeOK == MemoryTypeOK /\ BlockTypeOK /\ UartTypeOK
=============================================================================
