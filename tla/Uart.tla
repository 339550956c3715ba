-------------------------------- MODULE Uart --------------------------------
(***************************************************************************)
(* PtyUART (peripherals.py): a UART whose line is a host pseudo-terminal.  *)
(* The kernel holds the bytes under way in each direction; the terminal    *)
(* program at the other end reads and writes when it likes.  run() is      *)
(* called from the main loop now and then, and by every read of RX.        *)
(***************************************************************************)
EXTENDS Integers, Sequences

CONSTANTS
  Chars,      \* the bytes that are sent
  RxChunk,    \* what one os.read takes at most: 64 in the code
  PtySize,    \* bytes that the kernel holds in each direction
  MaxTyped,   \* bound: bytes typed at the terminal
  MaxSent     \* bound: bytes the guest stores to TX

ASSUME UartAssumption ==
  /\ RxChunk \in Nat \ {0}
  /\ PtySize \in Nat \ {0}
  /\ MaxTyped \in Nat
  /\ MaxSent \in Nat

VARIABLES
  pty_in,     \* typed, and not yet read by the emulator
  rx_buf,
  pty_out,    \* written by the emulator, and not yet read by the terminal
  typed, got, \* history: typed at the terminal, and loaded from RX
  sent, shown,\* history: stored to TX, and read by the terminal
  full        \* history: the kernel has refused a byte

rxVars == <<pty_in, rx_buf, typed, got>>
txVars == <<pty_out, sent, shown, full>>
uartVars == <<rxVars, txVars>>

UartTypeOK ==
  /\ \A q \in {pty_in, rx_buf, pty_out, typed, got, sent, shown} : q \in Seq(Chars)
  /\ full \in BOOLEAN

UartInit ==
  /\ pty_in = <<>> /\ rx_buf = <<>> /\ pty_out = <<>>
  /\ typed = <<>> /\ got = <<>> /\ sent = <<>> /\ shown = <<>>
  /\ full = FALSE

-----------------------------------------------------------------------------
(* Reception                                                               *)

\* The terminal program writes while the kernel has room.
terminal_types(c) ==
  /\ Len(typed) < MaxTyped
  /\ Len(pty_in) < PtySize
  /\ typed' = Append(typed, c)
  /\ pty_in' = Append(pty_in, c)
  /\ UNCHANGED <<rx_buf, got, txVars>>

\* The bytes that run() reads, and those it leaves.
Chunk == IF Len(pty_in) < RxChunk THEN Len(pty_in) ELSE RxChunk
Polled == rx_buf \o SubSeq(pty_in, 1, Chunk)
Unread == SubSeq(pty_in, Chunk + 1, Len(pty_in))

run ==
  /\ pty_in # <<>>
  /\ rx_buf' = Polled
  /\ pty_in' = Unread
  /\ UNCHANGED <<typed, got, txVars>>

\* A slip in read32_rx: the newest byte is taken.
read32_rx_newest ==
  /\ pty_in' = Unread
  /\ \/ /\ Polled # <<>>
        /\ got' = Append(got, Polled[Len(Polled)])
        /\ rx_buf' = SubSeq(Polled, 1, Len(Polled) - 1)
     \/ /\ Polled = <<>>
        /\ UNCHANGED <<rx_buf, got>>
  /\ UNCHANGED <<typed, txVars>>

\* Another: the pseudo-terminal is not polled.
read32_rx_unpolled ==
  /\ \/ /\ rx_buf # <<>>
        /\ got' = Append(got, Head(rx_buf))
        /\ rx_buf' = Tail(rx_buf)
     \/ /\ rx_buf = <<>>
        /\ UNCHANGED <<rx_buf, got>>
  /\ UNCHANGED <<pty_in, typed, txVars>>

\* A load from RX: run(), then the oldest byte, or the "empty" bit.
read32_rx ==
  /\ pty_in' = Unread
  /\ \/ /\ Polled # <<>>
        /\ got' = Append(got, Head(Polled))
        /\ rx_buf' = Tail(Polled)
     \/ /\ Polled = <<>>
        /\ UNCHANGED <<rx_buf, got>>
  /\ UNCHANGED <<typed, txVars>>

-----------------------------------------------------------------------------
(* Transmission                                                            *)

\* A slip in write32_tx: the word is written, not its low byte.
write32_tx_word(c) ==
  /\ Len(sent) < MaxSent
  /\ sent' = Append(sent, c)
  /\ \/ /\ Len(pty_out) < PtySize
        /\ pty_out' = pty_out \o <<c, "nul">>
        /\ UNCHANGED full
     \/ /\ Len(pty_out) >= PtySize
        /\ full' = TRUE
        /\ UNCHANGED pty_out
  /\ UNCHANGED <<shown, rxVars>>

\* A store to TX; when the kernel is full, BlockingIOError, and the byte is lost.
write32_tx(c) ==
  /\ Len(sent) < MaxSent
  /\ sent' = Append(sent, c)
  /\ \/ /\ Len(pty_out) < PtySize
        /\ pty_out' = Append(pty_out, c)
        /\ UNCHANGED full
     \/ /\ Len(pty_out) = PtySize
        /\ full' = TRUE
        /\ UNCHANGED pty_out
  /\ UNCHANGED <<shown, rxVars>>

terminal_shows ==
  /\ pty_out # <<>>
  /\ shown' = Append(shown, Head(pty_out))
  /\ pty_out' = Tail(pty_out)
  /\ UNCHANGED <<sent, full, rxVars>>

UartNext ==
  \/ \E c \in Chars : terminal_types(c) \/ write32_tx(c)
  \/ run
  \/ read32_rx
  \/ terminal_shows

-----------------------------------------------------------------------------
(* Properties                                                              *)

\* PtyUART.run and read32: bytes are neither lost, repeated nor reordered on
\* their way in, whether run() is called by the main loop or by the load,
\* and however the terminal's typing falls between the two.
ReceivedInOrder == typed = got \o rx_buf \o pty_in

\* line is whole with some of its bytes left out.
Within(line, whole) ==
  \E at \in [1 .. Len(line) -> 1 .. Len(whole)] :
    /\ \A i, j \in 1 .. Len(line) : i < j => at[i] < at[j]
    /\ \A i \in 1 .. Len(line) : line[i] = whole[at[i]]

\* PtyUART.write32: what the terminal gets is what the guest sent, in order,
\* until a byte meets a full pseudo-terminal; from then on it is what the
\* guest sent with bytes missing, but never a byte twice or early.
SentInOrder ==
  LET line == shown \o pty_out IN
  /\ ~full => line = sent
  /\ Within(line, sent)

\* PtyUART.read32: for a guest that keeps polling RX, every byte that was
\* typed arrives, even if the main loop never calls run().
TypedArrives == \A n \in 1 .. MaxTyped : Len(typed) >= n ~> Len(got) >= n
=============================================================================
