----------------------------- MODULE BusProofs -----------------------------
(***************************************************************************)
(* What Bus guarantees for every number of tasks, every size of RAM, block *)
(* device, image and queue, and every guest program.                       *)
(***************************************************************************)
EXTENDS Bus, TLAPS, SequenceTheorems

-----------------------------------------------------------------------------
(* The reservation                                                         *)

\* A valid reservation is the one of the current task's own LR.W, and no
\* instruction has stored to its word since.
ReservationInv ==
  reservation_valid =>
    /\ linked[current] = reservation_addr
    /\ host_hit \/ current \notin stale

\* None of the marks is an address.
LEMMA Marks == Stack \notin Address /\ None \notin Address
  BY MemoryAssumption DEF Stack, None, Address

\* An instruction of a task, a switch or a store of the emulator keeps the
\* reservation tied to the current task.
LEMMA ReservationTask ==
  ASSUME MemoryTypeOK, ReservationInv, TaskNext
  PROVE  ReservationInv'
<1>1. CASE \E a \in Address, v \in Values : exec_stores(a, v)
  BY <1>1 DEF exec_stores, store_word, ReservedAfterStore, ReservationInv
<1>2. CASE \E a \in Address, v \in Values : exec_SC(a, v)
  <2> PICK a \in Address, v \in Values : exec_SC(a, v)
    BY <1>2
  <2>1. CASE Reserved(a)
    BY <2>1 DEF exec_SC, ReservationInv
  <2>2. CASE ~Reserved(a)
    BY <2>2 DEF exec_SC, ReservationInv, Reserved
  <2> QED BY <2>1, <2>2
<1>3. CASE \E a \in Address : exec_LR(a)
  BY <1>3 DEF exec_LR, ReservationInv, MemoryTypeOK
<1>4. CASE \E t \in Tasks : switch_task(t)
  BY <1>4 DEF switch_task, ReservedAfterStore, ReservationInv
<1>5. CASE \E a \in Address, v \in Values : host_store({a}, v)
  <2> PICK a \in Address, v \in Values : host_store({a}, v)
    BY <1>5
  <2>1. SUFFICES ASSUME reservation_valid, host_hit \/ current \notin stale
                 PROVE  host_hit' \/ current \notin stale'
    BY DEF host_store, ReservationInv, reservationVars, taskVars
  <2>2. linked[current] = reservation_addr
    BY <2>1 DEF ReservationInv
  <2> QED BY <2>1, <2>2 DEF host_store, LinkedTo, MemoryTypeOK
<1> QED BY <1>1, <1>2, <1>3, <1>4, <1>5 DEF TaskNext

\* So does the driver: all its stores end the reservation, and a new process
\* has none.
LEMMA ReservationDriver ==
  ASSUME ReservationInv, DriverNext
  PROVE  ReservationInv'
<1>1. CASE start
  BY <1>1 DEF start, MemoryReset, ReservationInv
<1>2. CASE stop
  BY <1>2 DEF stop, memoryVars, reservationVars, taskVars, ReservationInv
<1>3. CASE RegisterStore
  BY <1>3 DEF RegisterStore, ReservedAfterStore, ReservationInv
<1>4. CASE Started
  BY <1>4 DEF Started, ReservedAfterStore, ReservationInv
<1>5. CASE access_error
  BY <1>5 DEF access_error, memoryVars, reservationVars, taskVars, ReservationInv
<1> QED
  BY <1>1, <1>2, <1>3, <1>4, <1>5
  DEF DriverNext, write32_cmd, write32_blk, write32_ptr, _execute_cmd, read_block,
      write_block, ignored

-----------------------------------------------------------------------------
(* Types                                                                   *)

\* RAM, the reservation and the tasks keep their types under the tasks.
LEMMA TaskTypes ==
  ASSUME MemoryTypeOK, TaskNext
  PROVE  MemoryTypeOK'
<1>1. CASE \E a \in Address, v \in Values : exec_stores(a, v)
  BY <1>1 DEF exec_stores, store_word, ReservedAfterStore, LinkedTo, taskVars, MemoryTypeOK
<1>2. CASE \E a \in Address, v \in Values : exec_SC(a, v)
  <2> PICK a \in Address, v \in Values : exec_SC(a, v)
    BY <1>2
  <2>1. memory' \in [Address -> Values] /\ linked' \in [Tasks -> Address \cup {None}]
    BY DEF exec_SC, MemoryTypeOK
  <2>2. stale' \subseteq Tasks
    BY DEF exec_SC, LinkedTo, MemoryTypeOK
  <2>3. reservation_valid' \in BOOLEAN
    BY Zenon DEF exec_SC, MemoryTypeOK
  <2> QED BY <2>1, <2>2, <2>3 DEF exec_SC, MemoryTypeOK
<1>3. CASE \E a \in Address : exec_LR(a)
  BY <1>3 DEF exec_LR, MemoryTypeOK
<1>4. CASE \E t \in Tasks : switch_task(t)
  BY <1>4 DEF switch_task, ReservedAfterStore, MemoryTypeOK
<1>5. CASE \E a \in Address, v \in Values : host_store({a}, v)
  BY <1>5 DEF host_store, LinkedTo, taskVars, reservationVars, MemoryTypeOK
<1> QED BY <1>1, <1>2, <1>3, <1>4, <1>5 DEF TaskNext

\* Words of the image, as blocks and words in blocks: every word of a block
\* is a word of the image, and different blocks have no word in common.
LEMMA BlockLayout ==
  ASSUME NEW b \in 0 .. NumBlocks - 1, NEW k \in InBlock
  PROVE  /\ b * BlockWords + k \in Disk
         /\ \A c \in 0 .. NumBlocks - 1 :
              (b * BlockWords + k) - c * BlockWords \in InBlock => c = b
<1>1. b \in Nat /\ NumBlocks \in Nat /\ BlockWords \in Nat /\ BlockWords > 0 /\ k \in Nat
      /\ k < BlockWords /\ b + 1 <= NumBlocks
  BY BlockAssumption DEF InBlock
<1>2. \A m, n \in Nat : m < n => m * BlockWords + BlockWords <= n * BlockWords
  <2> TAKE m, n \in Nat
  <2> HAVE m < n
  <2>1. PICK d \in Nat : n = (m + 1) + d
    <3>1. n - (m + 1) \in Nat /\ n = (m + 1) + (n - (m + 1))
      OBVIOUS
    <3> QED BY <3>1
  <2>2. n * BlockWords = (m * BlockWords + BlockWords) + d * BlockWords
    BY <1>1, <2>1
  <2>3. d * BlockWords \in Nat /\ m * BlockWords \in Nat
    BY <1>1
  <2> QED BY <1>1, <2>2, <2>3
<1>3. b * BlockWords + BlockWords <= NumBlocks * BlockWords
  BY <1>1, <1>2
<1>4. b * BlockWords \in Nat /\ NumBlocks * BlockWords \in Nat
  BY <1>1
<1>5. b * BlockWords + k \in Disk
  BY <1>1, <1>3, <1>4 DEF Disk
<1>6. ASSUME NEW c \in 0 .. NumBlocks - 1,
             (b * BlockWords + k) - c * BlockWords \in InBlock
      PROVE  c = b
  <2>1. c \in Nat /\ c * BlockWords \in Nat
    BY <1>1
  <2>2. CASE c < b
    <3>1. c * BlockWords + BlockWords <= b * BlockWords
      BY <1>1, <1>2, <2>1, <2>2
    <3> QED BY <1>1, <1>4, <1>6, <2>1, <3>1 DEF InBlock
  <2>3. CASE b < c
    <3>1. b * BlockWords + BlockWords <= c * BlockWords
      BY <1>1, <1>2, <2>1, <2>3
    <3> QED BY <1>1, <1>4, <1>6, <2>1, <3>1 DEF InBlock
  <2> QED BY <1>1, <2>1, <2>2, <2>3
<1> QED BY <1>5, <1>6

\* A block in range is one of the device's blocks.
LEMMA RangeBlock ==
  ASSUME BlockTypeOK, InRange
  PROVE  blk \in 0 .. NumBlocks - 1
<1>1. blk \in Nat /\ NumBlocks \in Nat /\ BlockWords \in Nat /\ blk <= NumBlocks
  BY BlockAssumption DEF BlockTypeOK
<1>2. blk # NumBlocks
  BY <1>1 DEF InRange, offset
<1> QED BY <1>1, <1>2

\* RAM and the device keep their types under the driver: a read of a short
\* image stores only the words that the image has.
LEMMA DriverTypes ==
  ASSUME MemoryTypeOK, BlockTypeOK, DriverNext
  PROVE  MemoryTypeOK' /\ BlockTypeOK'
<1> USE BlockAssumption
<1>1. CASE start
  <2>1. MemoryTypeOK'
    BY <1>1 DEF start, MemoryReset, Filled, Unlinked, MemoryTypeOK
  <2>2. image' \in [Disk -> Values \cup {NoData}]
    BY <1>1 DEF start, Opened, BlockTypeOK
  <2>3. 0 \in 0 .. 2 /\ 0 \in 0 .. NumBlocks /\ 0 \in 0 .. MemWords
    BY MemoryAssumption
  <2> QED BY <1>1, <2>1, <2>2, <2>3 DEF start, BlockTypeOK
<1>2. CASE stop
  BY <1>2 DEF stop, memoryVars, reservationVars, taskVars, imageVars, process, registers,
              MemoryTypeOK, BlockTypeOK
<1>3. CASE \/ \E v \in 0 .. 2 : write32_cmd(v)
           \/ \E v \in 0 .. NumBlocks : write32_blk(v)
           \/ \E v \in 0 .. MemWords : write32_ptr(v)
  BY <1>3 DEF write32_cmd, write32_blk, write32_ptr, RegisterStore, ReservedAfterStore,
              taskVars, imageVars, process, MemoryTypeOK, BlockTypeOK
<1>4. CASE _execute_cmd /\ access_error
  BY <1>4 DEF _execute_cmd, access_error, memoryVars, reservationVars, taskVars, imageVars, process,
              registers, MemoryTypeOK, BlockTypeOK
<1>5. CASE _execute_cmd /\ ignored
  BY <1>5 DEF _execute_cmd, ignored, Started, ReservedAfterStore, taskVars, imageVars, process,
              registers, MemoryTypeOK, BlockTypeOK
<1>6. CASE _execute_cmd /\ InRange /\ read_block /\ ~access_error
  <2>1. \A k \in DataRead : image[offset + k] \in Values
    <3> TAKE k \in DataRead
    <3>1. offset + k \in Disk
      BY <1>6, RangeBlock, BlockLayout DEF offset, DataRead
    <3> QED BY <3>1 DEF DataRead, BlockTypeOK
  <2>2. memory' \in [Address -> Values] /\ stale' \subseteq Tasks
    BY <1>6, <2>1 DEF read_block, LinkedTo, MemoryTypeOK
  <2> QED BY <1>6, <2>2 DEF _execute_cmd, read_block, Started, ReservedAfterStore, taskVars,
             imageVars, process, registers, MemoryTypeOK, BlockTypeOK
<1>7. CASE _execute_cmd /\ InRange /\ write_block /\ ~access_error
  <2>1. \A k \in DataLoaded : memory[ptr + k] \in Values
    BY MemoryAssumption DEF DataLoaded, InBlock, MemoryTypeOK, BlockTypeOK, Address
  <2>2. image' \in [Disk -> Values \cup {NoData}]
    BY <1>7, <2>1 DEF write_block, BlockTypeOK
  <2>3. written' \in [0 .. NumBlocks - 1 -> [InBlock -> Values \cup {NoData}]]
    <3> DEFINE new == [k \in InBlock |->
                         IF k \in DataLoaded THEN memory[ptr + k] ELSE written[blk][k]]
    <3>1. blk \in 0 .. NumBlocks - 1
      BY <1>7, RangeBlock
    <3>2. written[blk] \in [InBlock -> Values \cup {NoData}]
      BY <3>1 DEF BlockTypeOK
    <3>3. new \in [InBlock -> Values \cup {NoData}]
      BY <2>1, <3>2
    <3>4. written' = [written EXCEPT ![blk] = new]
      BY <1>7 DEF write_block
    <3> HIDE DEF new
    <3> QED BY <3>3, <3>4 DEF BlockTypeOK
  <2>4. UNCHANGED <<memory, stale, process, image_exists, registers>> /\ Started
    BY <1>7 DEF _execute_cmd, write_block
  <2> QED BY <2>2, <2>3, <2>4 DEF Started, ReservedAfterStore, taskVars, registers,
             process, MemoryTypeOK, BlockTypeOK
<1>8. CASE _execute_cmd
  BY <1>4, <1>5, <1>6, <1>7, <1>8 DEF _execute_cmd
<1> QED BY <1>1, <1>2, <1>3, <1>8 DEF DriverNext

-----------------------------------------------------------------------------
(* The block device                                                        *)

\* The image holds what the guest last wrote to each block; nothing was
\* written before there was an image.
BlockInv ==
  /\ running => image_exists
  /\ \A b \in 0 .. NumBlocks - 1, k \in InBlock :
       written[b][k] # NoData =>
         /\ image_exists
         /\ image[b * BlockWords + k] = written[b][k]

\* A write to one block leaves what other blocks hold, and a new process
\* finds the image as it was.
LEMMA BlockStep ==
  ASSUME MemoryTypeOK, BlockTypeOK, BlockInv, DriverNext
  PROVE  BlockInv'
<1>1. CASE start
  BY <1>1 DEF start, Opened, BlockInv
<1>2. CASE _execute_cmd /\ InRange /\ write_block /\ ~access_error
  <2>1. blk \in 0 .. NumBlocks - 1
    BY <1>2, RangeBlock
  <2>3. running'= running /\ image_exists' = image_exists /\ running
    BY <1>2 DEF _execute_cmd, write_block, process
  <2>4. ASSUME NEW b \in 0 .. NumBlocks - 1, NEW k \in InBlock, written'[b][k] # NoData
        PROVE  image'[b * BlockWords + k] = written'[b][k]
    <3> DEFINE i == b * BlockWords + k
    <3>1. i \in Disk
      BY BlockLayout
    <3>2. i - offset \in InBlock => b = blk
      BY <2>1, BlockLayout DEF offset
    <3>3. b = blk => i - offset = k
      BY BlockAssumption DEF offset, InBlock
    <3>4. DataLoaded \subseteq InBlock
      BY DEF DataLoaded
    <3>5. image'[i] = IF i - offset \in DataLoaded THEN memory[ptr + (i - offset)]
                      ELSE IF DataLoaded # {} /\ i < offset /\ image[i] = NoData THEN Zero
                      ELSE image[i]
      BY <1>2, <3>1 DEF write_block
    <3>6. written'[b][k] = IF b = blk /\ k \in DataLoaded THEN memory[ptr + k]
                           ELSE written[b][k]
      <4> DEFINE new == [j \in InBlock |->
                           IF j \in DataLoaded THEN memory[ptr + j] ELSE written[blk][j]]
      <4>1. written' = [written EXCEPT ![blk] = new]
        BY <1>2 DEF write_block
      <4>2. new[k] = IF k \in DataLoaded THEN memory[ptr + k] ELSE written[blk][k]
        OBVIOUS
      <4> HIDE DEF new
      <4> QED BY <4>1, <4>2 DEF BlockTypeOK
    <3>7. CASE b = blk /\ k \in DataLoaded
      BY <3>3, <3>5, <3>6, <3>7
    <3>8. CASE ~(b = blk /\ k \in DataLoaded)
      <4>1. i - offset \notin DataLoaded
        BY <3>2, <3>3, <3>4, <3>8
      <4>2. image[i] = written[b][k] /\ image[i] # NoData
        BY <2>4, <3>6, <3>8 DEF BlockInv
      <4> QED BY <3>5, <3>6, <3>8, <4>1, <4>2
    <3> QED BY <3>7, <3>8
  <2> QED BY <2>3, <2>4 DEF BlockInv
<1>3. CASE UNCHANGED <<imageVars, written>> /\ (running' => running)
  BY <1>3 DEF BlockInv, imageVars, process
<1>4. CASE stop \/ access_error
  BY <1>3, <1>4 DEF stop, access_error
<1>5. CASE ignored \/ (read_block /\ ~access_error)
  BY <1>3, <1>5 DEF ignored, read_block, process
<1>6. CASE \E v : write32_cmd(v) \/ write32_blk(v) \/ write32_ptr(v)
  BY <1>3, <1>6 DEF write32_cmd, write32_blk, write32_ptr, process
<1>7. CASE _execute_cmd
  BY <1>2, <1>4, <1>5, <1>7 DEF _execute_cmd
<1> QED BY <1>1, <1>4, <1>6, <1>7 DEF DriverNext

-----------------------------------------------------------------------------
(* The UART                                                                *)

\* Appending to, and removing from, the ends of a concatenation.
LEMMA Queues ==
  ASSUME NEW S, NEW p \in Seq(S), NEW q \in Seq(S), NEW c \in S
  PROVE  /\ p \o q \in Seq(S)
         /\ Append(p \o q, c) = p \o Append(q, c)
         /\ q # <<>> => p \o q = Append(p, Head(q)) \o Tail(q)
         /\ q # <<>> => Head(q) \in S /\ Tail(q) \in Seq(S)
<1> USE ConcatProperties, HeadTailProperties, LenProperties
<1>1. p \o q \in Seq(S)
  OBVIOUS
<1>2. Append(p \o q, c) = p \o Append(q, c)
  <2>1. <<c>> \in Seq(S)
    OBVIOUS
  <2>2. Append(p \o q, c) = (p \o q) \o <<c>> /\ Append(q, c) = q \o <<c>>
    BY <1>1, AppendIsConcat
  <2> QED BY <2>1, <2>2, ConcatAssociative
<1>3. ASSUME q # <<>>
      PROVE  Head(q) \in S /\ Tail(q) \in Seq(S) /\ p \o q = Append(p, Head(q)) \o Tail(q)
  BY <1>3
<1> QED BY <1>1, <1>2, <1>3

\* A sequence falls into what run() reads of it and what run() leaves.
LEMMA Split ==
  ASSUME NEW S, NEW q \in Seq(S), NEW n \in 0 .. Len(q)
  PROVE  /\ SubSeq(q, 1, n) \in Seq(S)
         /\ SubSeq(q, n + 1, Len(q)) \in Seq(S)
         /\ q = SubSeq(q, 1, n) \o SubSeq(q, n + 1, Len(q))
<1>1. Len(q) \in Nat
  BY LenProperties
<1>2. SubSeq(q, 1, n) \o SubSeq(q, n + 1, Len(q)) = SubSeq(q, 1, Len(q))
  <2>1. 1 \in 1 .. Len(q) + 1 /\ n \in 1 - 1 .. Len(q) /\ Len(q) \in n .. Len(q)
    BY <1>1
  <2> QED BY <2>1, ConcatAdjacentSubSeq, Zenon
<1>3. SubSeq(q, 1, Len(q)) = q
  BY SubSeqFull
<1>4. SubSeq(q, 1, n) \in Seq(S) /\ SubSeq(q, n + 1, Len(q)) \in Seq(S)
  <2>1. \A i \in 1 .. Len(q) : q[i] \in S
    BY ElementOfSeq
  <2>2. /\ 1 \in Int /\ n \in Int /\ n + 1 \in Int /\ Len(q) \in Int
        /\ \A i \in 1 .. n : q[i] \in S
        /\ \A i \in n + 1 .. Len(q) : q[i] \in S
    BY <1>1, <2>1
  <2> QED BY <2>2, SubSeqProperties
<1> QED BY <1>2, <1>3, <1>4

\* What one call of run() does to the bytes that wait.
LEMMA RunTakes ==
  ASSUME UartTypeOK
  PROVE  /\ Polled \in Seq(Chars) /\ Unread \in Seq(Chars)
         /\ Polled \o Unread = rx_buf \o pty_in
<1>1. pty_in \in Seq(Chars) /\ rx_buf \in Seq(Chars)
  BY DEF UartTypeOK
<1>2. Chunk \in 0 .. Len(pty_in)
  <2>1. Len(pty_in) \in Nat
    BY <1>1, LenProperties
  <2> QED BY <2>1, UartAssumption DEF Chunk
<1> DEFINE head == SubSeq(pty_in, 1, Chunk)
           rest == SubSeq(pty_in, Chunk + 1, Len(pty_in))
<1>3. head \in Seq(Chars) /\ rest \in Seq(Chars) /\ pty_in = head \o rest
  BY <1>1, <1>2, Split
<1> HIDE DEF head, rest
<1>4. (rx_buf \o head) \o rest = rx_buf \o (head \o rest) /\ rx_buf \o head \in Seq(Chars)
  BY <1>1, <1>3, ConcatAssociative, ConcatProperties
<1>5. Polled = rx_buf \o head /\ Unread = rest
  BY DEF Polled, Unread, head, rest
<1> QED BY <1>3, <1>4, <1>5

\* The bytes under way stay in order, in both directions, until one is
\* refused.
UartInv ==
  /\ typed = got \o (rx_buf \o pty_in)
  /\ ~full => sent = shown \o pty_out

\* Concatenations of bytes: associative,
LEMMA LineAssoc == \A p, q, t \in Seq(Chars) : (p \o q) \o t = p \o (q \o t)
  BY ConcatAssociative

\* extended at the end,
LEMMA LineAppend ==
  \A p, q \in Seq(Chars), c \in Chars : Append(p \o q, c) = p \o Append(q, c)
  BY Queues

\* advanced in the middle,
LEMMA LineAdvance ==
  \A p, q \in Seq(Chars) : q # <<>> => p \o q = Append(p, Head(q)) \o Tail(q)
  BY Queues, HeadTailProperties

\* and still bytes.
LEMMA LineTypes ==
  /\ \A p, q \in Seq(Chars) : p \o q \in Seq(Chars)
  /\ \A p \in Seq(Chars), c \in Chars : Append(p, c) \in Seq(Chars)
<1>1. \A p, q \in Seq(Chars) : p \o q \in Seq(Chars)
  BY ConcatProperties
<1>2. \A p \in Seq(Chars), c \in Chars : Append(p, c) \in Seq(Chars)
  BY AppendProperties
<1> QED BY <1>1, <1>2

\* Every action of the guest, of the main loop and of the terminal keeps them.
LEMMA UartStep ==
  ASSUME UartTypeOK, UartInv, UartNext
  PROVE  UartTypeOK' /\ UartInv'
<1>1. /\ pty_in \in Seq(Chars) /\ rx_buf \in Seq(Chars) /\ pty_out \in Seq(Chars)
      /\ typed \in Seq(Chars) /\ got \in Seq(Chars)
      /\ sent \in Seq(Chars) /\ shown \in Seq(Chars)
  BY DEF UartTypeOK
<1>2. ASSUME NEW c \in Chars, terminal_types(c)
      PROVE  UartTypeOK' /\ UartInv'
  <2>1. typed' = Append(typed, c) /\ pty_in' = Append(pty_in, c)
        /\ UNCHANGED <<rx_buf, got, txVars>>
    BY <1>2 DEF terminal_types
  <2>2. typed' \in Seq(Chars) /\ pty_in' \in Seq(Chars)
    BY <1>1, <2>1, AppendProperties
  <2>3. /\ rx_buf \o pty_in \in Seq(Chars)
        /\ Append(rx_buf \o pty_in, c) = rx_buf \o Append(pty_in, c)
    BY <1>1, <1>2, LineAppend, LineTypes
  <2>4. Append(got \o (rx_buf \o pty_in), c) = got \o Append(rx_buf \o pty_in, c)
    BY <1>1, <1>2, <2>3, LineAppend
  <2> QED BY <2>1, <2>2, <2>3, <2>4 DEF UartInv, UartTypeOK, txVars
<1>3. CASE run
  BY <1>3, RunTakes DEF run, txVars, UartInv, UartTypeOK
<1>4. CASE read32_rx
  <2>1. /\ Polled \in Seq(Chars) /\ Unread \in Seq(Chars)
        /\ Polled \o Unread = rx_buf \o pty_in
    BY RunTakes
  <2>2. CASE Polled # <<>>
    <3>1. got' = Append(got, Head(Polled)) /\ rx_buf' = Tail(Polled) /\ pty_in' = Unread
          /\ UNCHANGED <<typed, txVars>>
      BY <1>4, <2>2 DEF read32_rx
    <3>2. Head(Polled) \in Chars /\ Tail(Polled) \in Seq(Chars)
      BY <2>1, <2>2, HeadTailProperties
    <3>3. /\ got \o Polled = Append(got, Head(Polled)) \o Tail(Polled)
          /\ Append(got, Head(Polled)) \in Seq(Chars)
      BY <1>1, <2>1, <2>2, <3>2, LineAdvance, LineTypes
    <3>4. (got \o Polled) \o Unread = got \o (Polled \o Unread)
      <4>1. got \in Seq(Chars) /\ Polled \in Seq(Chars) /\ Unread \in Seq(Chars)
        BY <1>1, <2>1
      <4> QED BY <4>1, LineAssoc, Zenon
    <3>5. (Append(got, Head(Polled)) \o Tail(Polled)) \o Unread
            = Append(got, Head(Polled)) \o (Tail(Polled) \o Unread)
      BY <2>1, <3>2, <3>3, LineAssoc
    <3> QED BY <2>1, <3>1, <3>2, <3>3, <3>4, <3>5 DEF UartInv, UartTypeOK, txVars
  <2>3. CASE Polled = <<>>
    <3>1. UNCHANGED <<rx_buf, got, typed, txVars>> /\ pty_in' = Unread
      BY <1>4, <2>3 DEF read32_rx
    <3>2. rx_buf = <<>>
      BY <1>1, <2>1, <2>3, RunTakes, UartAssumption, ConcatEqualIffEmpty, Split, LenProperties
      DEF Polled
    <3>3. rx_buf \o pty_in = rx_buf' \o pty_in'
      BY <2>1, <2>3, <3>1, <3>2
    <3> QED BY <2>1, <3>1, <3>3 DEF UartInv, UartTypeOK, txVars
  <2> QED BY <2>2, <2>3
<1>5. ASSUME NEW c \in Chars, write32_tx(c)
      PROVE  UartTypeOK' /\ UartInv'
  <2>1. sent' = Append(sent, c) /\ sent' \in Seq(Chars) /\ UNCHANGED <<shown, rxVars>>
    BY <1>1, <1>5, AppendProperties DEF write32_tx
  <2>2. CASE pty_out' = Append(pty_out, c) /\ full' = full
    <3>1. /\ Append(pty_out, c) \in Seq(Chars)
          /\ Append(shown \o pty_out, c) = shown \o Append(pty_out, c)
      BY <1>1, <1>5, LineAppend, LineTypes
    <3> QED BY <2>1, <2>2, <3>1 DEF UartInv, UartTypeOK, rxVars
  <2>3. CASE full' = TRUE /\ pty_out' = pty_out
    BY <2>1, <2>3 DEF UartInv, UartTypeOK, rxVars
  <2> QED BY <1>5, <2>2, <2>3 DEF write32_tx
<1>6. CASE terminal_shows
  <2>1. /\ pty_out # <<>> /\ shown' = Append(shown, Head(pty_out)) /\ pty_out' = Tail(pty_out)
        /\ UNCHANGED <<sent, full, rxVars>>
    BY <1>6 DEF terminal_shows
  <2>2. Head(pty_out) \in Chars /\ pty_out' \in Seq(Chars)
    BY <1>1, <2>1, HeadTailProperties
  <2>3. shown' \in Seq(Chars) /\ shown \o pty_out = shown' \o pty_out'
    BY <1>1, <2>1, <2>2, AppendProperties, Queues
  <2> QED BY <2>1, <2>2, <2>3 DEF UartInv, UartTypeOK, rxVars
<1> QED BY <1>2, <1>3, <1>4, <1>5, <1>6 DEF UartNext

\* A line stays within the whole when a byte is added to both, or to the
\* whole only.
LEMMA WithinAppend ==
  ASSUME NEW line \in Seq(Chars), NEW whole \in Seq(Chars), NEW c \in Chars,
         Within(line, whole)
  PROVE  /\ Within(Append(line, c), Append(whole, c))
         /\ Within(line, Append(whole, c))
<1> DEFINE n == Len(line)
           m == Len(whole)
<1>1. PICK at \in [1 .. n -> 1 .. m] :
        /\ \A i, j \in 1 .. n : i < j => at[i] < at[j]
        /\ \A i \in 1 .. n : line[i] = whole[at[i]]
  BY DEF Within
<1>2. n \in Nat /\ m \in Nat
  BY LenProperties
<1>3. /\ Len(Append(line, c)) = n + 1 /\ Len(Append(whole, c)) = m + 1
      /\ Append(line, c)[n + 1] = c /\ Append(whole, c)[m + 1] = c
      /\ \A i \in 1 .. n : Append(line, c)[i] = line[i]
      /\ \A i \in 1 .. m : Append(whole, c)[i] = whole[i]
  BY AppendProperties
<1> HIDE DEF n, m
<1>4. Within(line, Append(whole, c))
  <2>1. at \in [1 .. n -> 1 .. m + 1]
    BY <1>2
  <2>2. \A i \in 1 .. n : line[i] = Append(whole, c)[at[i]]
    BY <1>1, <1>3
  <2> QED BY <1>1, <1>3, <2>1, <2>2 DEF Within, n
<1>5. Within(Append(line, c), Append(whole, c))
  <2> DEFINE to == [i \in 1 .. n + 1 |-> IF i <= n THEN at[i] ELSE m + 1]
  <2>1. \A i \in 1 .. n : to[i] = at[i] /\ at[i] \in 1 .. m
    BY <1>2
  <2>2. to[n + 1] = m + 1
    BY <1>2
  <2>3. to \in [1 .. n + 1 -> 1 .. m + 1]
    BY <1>2
  <2> HIDE DEF to
  <2>4. \A i \in 1 .. n + 1 : i \in 1 .. n \/ i = n + 1
    BY <1>2
  <2>5. \A i, j \in 1 .. n + 1 : i < j => to[i] < to[j]
    BY <1>1, <1>2, <2>1, <2>2, <2>4
  <2>6. \A i \in 1 .. n : Append(line, c)[i] = Append(whole, c)[to[i]]
    <3> TAKE i \in 1 .. n
    <3>1. Append(line, c)[i] = line[i]
      BY <1>3
    <3>2. to[i] = at[i] /\ at[i] \in 1 .. m /\ line[i] = whole[at[i]]
      BY <1>1, <2>1
    <3>3. Append(whole, c)[at[i]] = whole[at[i]]
      BY <1>3, <3>2, Zenon
    <3> QED BY <3>1, <3>2, <3>3, Zenon
  <2>7. \A i \in 1 .. n + 1 : Append(line, c)[i] = Append(whole, c)[to[i]]
    BY <1>3, <2>2, <2>4, <2>6, Zenon
  <2> QED BY <1>3, <2>3, <2>5, <2>7 DEF Within
<1> QED BY <1>4, <1>5

\* A byte that is sent is the next one under way, or is lost; nothing else
\* touches the line.
LEMMA SentStep ==
  ASSUME UartTypeOK, UartNext, Within(shown \o pty_out, sent)
  PROVE  Within(shown \o pty_out, sent)'
<1>1. pty_out \in Seq(Chars) /\ sent \in Seq(Chars) /\ shown \in Seq(Chars)
  BY DEF UartTypeOK
<1>2. ASSUME NEW c \in Chars, write32_tx(c)
      PROVE  Within(shown \o pty_out, sent)'
  <2>1. shown \o pty_out \in Seq(Chars)
    BY <1>1, LineTypes
  <2>2. /\ Within(Append(shown \o pty_out, c), Append(sent, c))
        /\ Within(shown \o pty_out, Append(sent, c))
    BY <1>1, <2>1, WithinAppend
  <2>3. Append(shown \o pty_out, c) = shown \o Append(pty_out, c)
    BY <1>1, LineAppend
  <2>4. /\ sent' = Append(sent, c) /\ shown' = shown
        /\ pty_out' = Append(pty_out, c) \/ pty_out' = pty_out
    BY <1>2 DEF write32_tx
  <2> QED BY <2>2, <2>3, <2>4
<1>3. CASE terminal_shows
  <2>1. pty_out # <<>> => shown \o pty_out = Append(shown, Head(pty_out)) \o Tail(pty_out)
    BY <1>1, LineAdvance
  <2>2. shown' \o pty_out' = shown \o pty_out /\ sent' = sent
    BY <1>3, <2>1 DEF terminal_shows
  <2> QED BY <2>2
<1>4. CASE UNCHANGED txVars
  BY <1>4 DEF txVars
<1> QED
  BY <1>2, <1>3, <1>4 DEF UartNext, terminal_types, run, read32_rx

-----------------------------------------------------------------------------
(* The bus                                                                 *)

Inv == TypeOK /\ ReservationInv /\ BlockInv /\ UartInv /\ Within(shown \o pty_out, sent)

\* The invariant holds at the start.
LEMMA InitInv == Init => Inv
<1> SUFFICES ASSUME Init PROVE Inv
  OBVIOUS
<1>1. MemoryTypeOK /\ ReservationInv
  BY DEF Init, MemoryInit, Filled, Unlinked, MemoryTypeOK, ReservationInv
<1>2. BlockTypeOK
  <2>1. 0 \in 0 .. 2 /\ 0 \in 0 .. NumBlocks /\ 0 \in 0 .. MemWords
    BY BlockAssumption, MemoryAssumption
  <2>2. image \in [Disk -> Values \cup {NoData}]
    BY BlockAssumption DEF Init, BlockInit
  <2>3. written \in [0 .. NumBlocks - 1 -> [InBlock -> Values \cup {NoData}]]
    BY DEF Init, BlockInit
  <2> QED BY <2>1, <2>2, <2>3 DEF Init, BlockInit, BlockTypeOK
<1>3. BlockInv
  BY DEF Init, BlockInit, BlockInv
<1>4. UartTypeOK
  <2>1. <<>> \in Seq(Chars)
    BY EmptySeq
  <2> QED BY <2>1 DEF Init, UartInit, UartTypeOK
<1>5. <<>> \o <<>> = <<>>
  OBVIOUS
<1>6. UartInv
  BY <1>5 DEF Init, UartInit, UartInv
<1>7. Within(shown \o pty_out, sent)
  <2>1. shown \o pty_out = <<>> /\ sent = <<>>
    BY <1>5 DEF Init, UartInit
  <2>2. Len(<<>>) = 0 /\ 1 .. 0 = {}
    OBVIOUS
  <2>3. [i \in {} |-> 0] \in [{} -> {}]
    OBVIOUS
  <2> QED BY <2>1, <2>2, <2>3 DEF Within
<1> QED BY <1>1, <1>2, <1>3, <1>4, <1>6, <1>7 DEF Inv, TypeOK

\* Steps that leave a part of the state alone keep what is said of it.
LEMMA Frames ==
  ASSUME Inv
  PROVE  /\ UNCHANGED memoryVars => MemoryTypeOK' /\ ReservationInv'
         /\ UNCHANGED blockVars => BlockTypeOK' /\ BlockInv'
         /\ UNCHANGED uartVars => /\ UartTypeOK' /\ UartInv'
                                  /\ Within(shown \o pty_out, sent)'
<1>1. UNCHANGED memoryVars => MemoryTypeOK' /\ ReservationInv'
  BY DEF Inv, TypeOK, memoryVars, reservationVars, taskVars, MemoryTypeOK, ReservationInv
<1>2. UNCHANGED blockVars => BlockTypeOK' /\ BlockInv'
  BY DEF Inv, TypeOK, blockVars, imageVars, process, registers, BlockTypeOK, BlockInv
<1>3. UNCHANGED uartVars => UartTypeOK' /\ UartInv' /\ Within(shown \o pty_out, sent)'
  BY DEF Inv, TypeOK, uartVars, rxVars, txVars, UartTypeOK, UartInv
<1> QED BY <1>1, <1>2, <1>3

\* Every step of the bus keeps the invariant.
LEMMA NextInv == Inv /\ [Next]_vars => Inv'
<1> SUFFICES ASSUME Inv, [Next]_vars PROVE Inv'
  OBVIOUS
<1>1. MemoryTypeOK /\ BlockTypeOK /\ UartTypeOK
  BY DEF Inv, TypeOK
<1>2. CASE TaskNext /\ UNCHANGED <<blockVars, uartVars>>
  BY <1>1, <1>2, TaskTypes, ReservationTask, Frames DEF Inv, TypeOK
<1>3. CASE DriverNext /\ UNCHANGED uartVars
  BY <1>1, <1>3, DriverTypes, ReservationDriver, BlockStep, Frames DEF Inv, TypeOK
<1>4. CASE UartNext /\ UNCHANGED <<memoryVars, blockVars>>
  BY <1>1, <1>4, UartStep, SentStep, Frames DEF Inv, TypeOK
<1>5. CASE UNCHANGED vars
  BY <1>5, Frames DEF vars, Inv, TypeOK
<1>6. CASE tasks \/ buffer_store
  BY <1>2, <1>6 DEF tasks, buffer_store, TaskNext
<1>7. CASE driver \/ boot
  BY <1>3, <1>7 DEF driver, boot, DriverNext
<1>8. CASE console
  BY <1>4, <1>8 DEF console
<1> QED BY <1>5, <1>6, <1>7, <1>8 DEF Next

\* The inductive invariant of the bus.
THEOREM BusInvariant == Spec => []Inv
  BY InitInv, NextInv, PTL DEF Spec

\* RAM holds words only: a READ of a short image never stores what the
\* image does not have.
THEOREM BusTypes == Spec => []TypeOK
<1>1. Inv => TypeOK
  BY DEF Inv
<1> QED BY <1>1, BusInvariant, PTL

\* exec_AMO: an SC.W that succeeds is atomic with its LR.W, for any number of
\* tasks and any interleaving.
THEOREM ScAlwaysSound == Spec => []ScSound
<1>1. Inv => ScSound
  BY DEF Inv, ReservationInv, ScSound, Reserved
<1> QED BY <1>1, BusInvariant, PTL

\* PtyUART: no byte is lost, repeated or reordered on its way in, for any
\* size of os.read and of the kernel's buffer.
THEOREM BytesReceivedInOrder == Spec => []ReceivedInOrder
<1>1. Inv => ReceivedInOrder
  <2> SUFFICES ASSUME Inv PROVE ReceivedInOrder
    OBVIOUS
  <2>1. got \in Seq(Chars) /\ rx_buf \in Seq(Chars) /\ pty_in \in Seq(Chars)
    BY DEF Inv, TypeOK, UartTypeOK
  <2>2. (got \o rx_buf) \o pty_in = got \o (rx_buf \o pty_in)
    BY <2>1, LineAssoc
  <2> QED BY <2>2 DEF Inv, UartInv, ReceivedInOrder
<1> QED BY <1>1, BusInvariant, PTL

\* PtyUART.write32: bytes go out in order; once the kernel has refused one,
\* bytes may be missing.
THEOREM BytesSentInOrder == Spec => []SentInOrder
<1>1. Inv => SentInOrder
  BY DEF Inv, UartInv, SentInOrder
<1> QED BY <1>1, BusInvariant, PTL

\* MMIOBlockDevice: what was written is what is read, across restarts.
THEOREM BlocksAlwaysReadBack == Spec => BlocksReadBack
<1> DEFINE Read(k) ==
      (/\ _execute_cmd /\ running'
       /\ cmd = 0 /\ blk < NumBlocks
       /\ written[blk][k] # NoData)
      => memory'[ptr + k] = written[blk][k]
<1>1. ASSUME Inv, NEW k \in InBlock,
             _execute_cmd, running', cmd = 0, blk < NumBlocks, written[blk][k] # NoData
      PROVE  memory'[ptr + k] = written[blk][k]
  <2>1. BlockTypeOK /\ BlockInv /\ MemoryTypeOK
    BY <1>1 DEF Inv, TypeOK
  <2>2. blk \in 0 .. NumBlocks - 1
    BY <1>1, <2>1, BlockAssumption DEF BlockTypeOK
  <2>3. image[offset + k] = written[blk][k] /\ k \in DataRead
    BY <1>1, <2>1, <2>2 DEF BlockInv, offset, DataRead
  <2>4. InRange
    BY <2>2, BlockLayout, BlockAssumption, <1>1 DEF InRange, offset, Disk, InBlock
  <2>5. /\ \A j \in DataRead : ptr + j < MemWords
        /\ memory' = [a \in Address |->
             IF a - ptr \in DataRead THEN image[offset + (a - ptr)] ELSE memory[a]]
    BY <1>1, <2>4 DEF _execute_cmd, read_block, write_block, ignored, access_error
  <2>6. ptr + k \in Address /\ (ptr + k) - ptr = k
    BY <1>1, <2>1, <2>3, <2>5, MemoryAssumption, BlockAssumption
    DEF BlockTypeOK, InBlock, Address
  <2> QED BY <2>3, <2>5, <2>6
<1>2. Inv => [\A k \in InBlock : Read(k)]_<<memoryVars, blockVars>>
  BY <1>1
<1> QED BY <1>2, BusInvariant, PTL DEF BlocksReadBack
=============================================================================
