---------------------------- MODULE BlockDevice ----------------------------
(***************************************************************************)
(* MMIOBlockDevice (peripherals.py): the guest stores a command, a block   *)
(* number and a pointer, and starts the command with a store of 1 to CTRL. *)
(* The command is over when that store is, and the device has by then read *)
(* or written the RAM itself, with load_binary and store_binary.           *)
(*                                                                         *)
(* The image file outlives the emulator.  It may be shorter than the       *)
(* device: what lies beyond its end is NoData.                             *)
(***************************************************************************)
EXTENDS SharedMemory

CONSTANTS
  NumBlocks,  \* num_blocks
  BlockWords, \* block_size, in words
  Zero,       \* the word of a hole in a file
  Blank       \* the word 0xFFFFFFFF

NoData == -3
Disk == 0 .. NumBlocks * BlockWords - 1
InBlock == 0 .. BlockWords - 1

ASSUME BlockAssumption ==
  /\ NumBlocks \in Nat
  /\ BlockWords \in Nat \ {0}
  /\ Zero \in Values
  /\ Blank \in Values
  /\ NoData \notin Values

VARIABLES
  running,       \* the emulator process exists
  checked,       \* its RAM is a SafeRAM_MMIO (--check-ram), not a RAM_MMIO
  image_exists, image,
  cmd, blk, ptr,
  written        \* history: what the guest last wrote to each word of a block

registers == <<cmd, blk, ptr>>
imageVars == <<image_exists, image>>
process == <<running, checked>>
blockVars == <<process, imageVars, registers, written>>

BlockTypeOK ==
  /\ running \in BOOLEAN
  /\ checked \in BOOLEAN
  /\ image_exists \in BOOLEAN
  /\ image \in [Disk -> Values \cup {NoData}]
  /\ cmd \in 0 .. 2
  /\ blk \in 0 .. NumBlocks
  /\ ptr \in 0 .. MemWords
  /\ written \in [0 .. NumBlocks - 1 -> [InBlock -> Values \cup {NoData}]]

\* Before the first start there is no image, or one of any length.
BlockInit ==
  /\ running = FALSE
  /\ checked = FALSE
  /\ image_exists \in BOOLEAN
  /\ \E n \in 0 .. NumBlocks * BlockWords :
       /\ ~image_exists => n = 0
       /\ image = [i \in Disk |-> IF i < n THEN Zero ELSE NoData]
  /\ cmd = 0 /\ blk = 0 /\ ptr = 0
  /\ written = [b \in 0 .. NumBlocks - 1 |-> [k \in InBlock |-> NoData]]

-----------------------------------------------------------------------------
(* The emulator starts and stops                                           *)

\* A slip in Opened: the image is always created.
Opened_created == [i \in Disk |-> Blank]

\* _open_or_create_image: only a missing image is created.
Opened == IF image_exists THEN image ELSE [i \in Disk |-> Blank]

\* A new process, with or without --check-ram: new RAM, new registers, the
\* image as it was left.
start ==
  /\ ~running
  /\ running' = TRUE
  /\ checked' \in BOOLEAN
  /\ image' = Opened
  /\ image_exists' = TRUE
  /\ cmd' = 0 /\ blk' = 0 /\ ptr' = 0
  /\ MemoryReset
  /\ UNCHANGED written

\* The process ends, at any moment and for any reason.
stop ==
  /\ running
  /\ running' = FALSE
  /\ UNCHANGED <<checked, memoryVars, imageVars, registers, written>>

-----------------------------------------------------------------------------
(* The registers                                                           *)

\* A register is written by a store instruction, which ends the reservation.
RegisterStore ==
  /\ running
  /\ reservation_valid' = ReservedAfterStore(Stack)
  /\ UNCHANGED <<memory, reservation_addr, taskVars, stale, host_hit>>

write32_cmd(v) ==
  /\ RegisterStore
  /\ cmd' = v
  /\ UNCHANGED <<process, imageVars, blk, ptr, written>>

write32_blk(v) ==
  /\ RegisterStore
  /\ blk' = v
  /\ UNCHANGED <<process, imageVars, cmd, ptr, written>>

write32_ptr(v) ==
  /\ RegisterStore
  /\ ptr' = v
  /\ UNCHANGED <<process, imageVars, cmd, blk, written>>

-----------------------------------------------------------------------------
(* Commands                                                                *)

offset == blk * BlockWords
InRange == offset < NumBlocks * BlockWords

\* A slip in DataRead: every read is taken to fill the block.
DataRead_full == InBlock

\* fd.read: the words of the block that the image has.
DataRead == {k \in InBlock : image[offset + k] # NoData}

\* ram.load_binary without checks: the words of the block that the RAM has.
DataLoaded == {k \in InBlock : ptr + k < MemWords}

\* The store that starts a command ends the reservation, after the command.
Started ==
  /\ reservation_valid' = ReservedAfterStore(Stack)
  /\ UNCHANGED <<reservation_addr, taskVars, host_hit>>

\* MemoryAccessError ends the emulator.
access_error == running' = FALSE /\ UNCHANGED <<checked, memoryVars, imageVars, written>>

read_block ==
  /\ cmd = 0
  /\ \/ /\ \A k \in DataRead : ptr + k < MemWords
        /\ memory' = [a \in Address |->
             IF a - ptr \in DataRead THEN image[offset + (a - ptr)] ELSE memory[a]]
        /\ stale' = stale \cup LinkedTo({a \in Address : a - ptr \in DataRead})
        /\ Started
        /\ UNCHANGED <<process, imageVars, written>>
     \/ /\ \E k \in DataRead : ptr + k >= MemWords
        /\ access_error

\* A write beyond the end of the image extends it, over a hole if need be.
write_block ==
  /\ cmd = 1
  /\ \/ /\ ~checked \/ DataLoaded = InBlock
        /\ image' = [i \in Disk |->
             IF i - offset \in DataLoaded THEN memory[ptr + (i - offset)]
             ELSE IF DataLoaded # {} /\ i < offset /\ image[i] = NoData THEN Zero
             ELSE image[i]]
        /\ written' = [written EXCEPT ![blk] =
             [k \in InBlock |-> IF k \in DataLoaded THEN memory[ptr + k] ELSE @[k]]]
        /\ Started
        /\ UNCHANGED <<memory, stale, process, image_exists>>
     \/ /\ checked /\ DataLoaded # InBlock
        /\ access_error

\* Another command, or a block that does not exist: nothing happens.
ignored ==
  /\ ~InRange \/ cmd \notin {0, 1}
  /\ Started
  /\ UNCHANGED <<memory, stale, process, imageVars, written>>

_execute_cmd ==
  /\ running
  /\ (InRange /\ read_block) \/ (InRange /\ write_block) \/ ignored
  /\ UNCHANGED registers

DriverNext ==
  \/ \E v \in 0 .. 2 : write32_cmd(v)
  \/ \E v \in 0 .. NumBlocks : write32_blk(v)
  \/ \E v \in 0 .. MemWords : write32_ptr(v)
  \/ _execute_cmd
  \/ start
  \/ stop

-----------------------------------------------------------------------------
(* Properties                                                              *)

\* _execute_cmd: a READ that completes leaves in RAM what the guest last
\* wrote to that block, word for word, whatever other blocks were written
\* since, whatever the length of the image, and however often the emulator
\* was stopped and started in between.
BlocksReadBack ==
  [][\A k \in InBlock :
       (/\ _execute_cmd /\ running'
        /\ cmd = 0 /\ blk < NumBlocks
        /\ written[blk][k] # NoData)
       => memory'[ptr + k] = written[blk][k]]_<<memoryVars, blockVars>>
=============================================================================
