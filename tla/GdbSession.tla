----------------------------- MODULE GdbSession -----------------------------
(***************************************************************************)
(* A debugging session: GDB and the stub (gdbstub.py, Machine.run_gdbstub, *)
(* Machine.run_with_gdb) as two processes on the two directions of a TCP   *)
(* connection.  A packet is one item of a stream, because GDB writes it at *)
(* once and the stub reads it to the end; acknowledgements and the Ctrl-C  *)
(* byte are items of their own.                                            *)
(*                                                                         *)
(* The program being debugged is arbitrary: an instruction may go to any   *)
(* address, end the program or raise an error.  Of what the debugger can   *)
(* read and write only the pc is represented; the other queries and writes *)
(* are the command "q".  GDB itself is external: it follows the protocol's *)
(* rules for acknowledgements and sends Ctrl-C only while it waits for a   *)
(* program to stop.                                                        *)
(***************************************************************************)
EXTENDS Integers, Sequences

CONSTANTS
  Addr,             \* addresses of instructions
  InterruptPeriod,  \* INTERRUPT_CHECK_MASK + 1: 4096 in the code
  MaxShortReads,    \* bound on how often recv(2) returns half a checksum
  MaxCtrlC          \* bound on how often the user presses Ctrl-C

ASSUME PeriodAssumption == InterruptPeriod \in Nat \ {0}
ASSUME BoundsAssumption == MaxShortReads \in Nat /\ MaxCtrlC \in Nat

VARIABLES
  \* the stub and the CPU
  stub,            \* "recv": in recv_packet; "run": in run_with_gdb; "ended"
  running, single_step, sw_breakpoints, last_signal,
  cycle_count,     \* modulo InterruptPeriod
  pc,
  \* the connection
  toStub, toGdb,
  closed,          \* GDB has closed its end
  \* GDB
  gdb,             \* "idle", "ack": waits for '+', "reply": waits for a reply
  cmd,             \* the command it sent last
  pressed,         \* Ctrl-C was sent since then
  short_reads, ctrlC  \* how often so far

stubVars == <<running, single_step, sw_breakpoints, last_signal, cycle_count, pc>>
gdbVars == <<gdb, cmd, pressed, ctrlC, closed>>
vars == <<stub, stubVars, toStub, toGdb, gdbVars, short_reads>>

\* How the session looks to someone who knows nothing of the streams.
Unanswered ==
  CASE gdb = "reply" -> toGdb
    [] gdb = "ack" /\ \E i \in 1..Len(toGdb) : toGdb[i].t = "+" ->
         LET i == CHOOSE i \in 1..Len(toGdb) : toGdb[i].t = "+"
         IN SubSeq(toGdb, i + 1, Len(toGdb))
    [] OTHER -> <<>>

Asked == IF gdb = "idle" THEN [op |-> "none", a |-> "none"] ELSE cmd
Answered == IF Unanswered = <<>> THEN [t |-> "none", v |-> "none"] ELSE Head(Unanswered)
Mode ==
  CASE stub = "recv" -> "halted"
    [] stub = "ended" -> "gone"
    [] stub = "run" /\ single_step -> "stepping"
    [] OTHER -> "running"

Target == INSTANCE RemoteTarget WITH
  asked <- Asked, answer <- Answered, mode <- Mode,
  breakpoints <- sw_breakpoints, last <- last_signal

Command == Target!Command
Reply == Target!Reply

Ack == [t |-> "+", v |-> "none"]
Nack == [t |-> "-", v |-> "none"]
Interrupt == [t |-> "0x03", v |-> "none"]
Packet(c) == [t |-> "packet", v |-> c]
stop_reply(s) == [t |-> "stop", v |-> s]
Answer(t, v) == [t |-> t, v |-> v]

\* GDBStub.__init__ and the accepted connection.
Init ==
  /\ stub = "recv"
  /\ running = FALSE /\ single_step = FALSE
  /\ sw_breakpoints = {}
  /\ last_signal = "SIGTRAP"
  /\ cycle_count = 0
  /\ pc \in Addr
  /\ toStub = <<>> /\ toGdb = <<>>
  /\ closed = FALSE
  /\ gdb = "idle" /\ cmd = Target!NoCommand /\ pressed = FALSE
  /\ short_reads = 0 /\ ctrlC = 0

-----------------------------------------------------------------------------
(* recv_packet and the commands                                            *)

Send(items) == toGdb' = toGdb \o items
Consume == toStub' = Tail(toStub)

\* recv_packet finds an item of kind t next in the stream.
Receiving(t) ==
  /\ stub = "recv"
  /\ toStub # <<>>
  /\ Head(toStub).t = t

\* Acknowledgements outside a packet are skipped.
recv_ack ==
  /\ Receiving("+")
  /\ Consume
  /\ UNCHANGED <<stub, stubVars, toGdb, gdbVars, short_reads>>

\* A slip in recv_short: the refused packet is dropped without a word.
recv_short_silent ==
  /\ Receiving("packet")
  /\ short_reads < MaxShortReads
  /\ short_reads' = short_reads + 1
  /\ Consume
  /\ UNCHANGED <<stub, stubVars, toGdb, gdbVars>>

\* recv(2) returned one character of the checksum: the packet is refused.
\* The other character is skipped by the next call.
recv_short ==
  /\ Receiving("packet")
  /\ short_reads < MaxShortReads
  /\ short_reads' = short_reads + 1
  /\ Consume
  /\ Send(<<Nack>>)
  /\ UNCHANGED <<stub, stubVars, gdbVars>>

\* A Ctrl-C that finds the program stopped is answered by a stop reply.
recv_interrupt ==
  /\ Receiving("0x03")
  /\ Consume
  /\ running' = FALSE
  /\ last_signal' = "SIGINT"
  /\ Send(<<stop_reply("SIGINT")>>)
  /\ UNCHANGED <<stub, single_step, sw_breakpoints, cycle_count, pc, gdbVars, short_reads>>

\* A slip in recv_closed: the end of the stream is read again and again.
recv_closed_ignored ==
  /\ stub = "recv"
  /\ closed
  /\ UNCHANGED vars

\* End of the stream or a reset connection: the command loop is left.  A reply
\* that cannot be sent ends it as well, with an exception.
recv_closed ==
  /\ stub = "recv"
  /\ closed
  /\ stub' = "ended"
  /\ UNCHANGED <<stubVars, toStub, toGdb, gdbVars, short_reads>>

\* handle_command has been given a packet with operation op.
Handling(op) ==
  /\ Receiving("packet")
  /\ Head(toStub).v.op = op
  /\ Consume
  /\ UNCHANGED <<gdbVars, short_reads>>
Arg == Head(toStub).v.a

\* A slip in Respond: the response overtakes the acknowledgement.
Respond_first(r) == Send(<<r, Ack>>)

\* The acknowledgement, then the response.
Respond(r) == Send(<<Ack, r>>)

bad_argument ==
  /\ \E op \in {"c", "s", "Z0", "z0", "P"} : Handling(op)
  /\ Arg = "bad"
  /\ Respond(Answer("E01", "none"))
  /\ UNCHANGED <<stub, stubVars>>

cmd_halt_reason ==
  /\ Handling("?")
  /\ Respond(stop_reply(last_signal))
  /\ UNCHANGED <<stub, stubVars>>

cmd_read_register ==
  /\ Handling("p")
  /\ Respond(Answer("pc", pc))
  /\ UNCHANGED <<stub, stubVars>>

\* 'P' with register 32, or the last register of 'G'.
cmd_write_register ==
  /\ Handling("P") /\ Arg # "bad"
  /\ pc' = Arg
  /\ Respond(Answer("OK", "none"))
  /\ UNCHANGED <<stub, running, single_step, sw_breakpoints, last_signal, cycle_count>>

cmd_insert_breakpoint ==
  /\ Handling("Z0") /\ Arg # "bad"
  /\ sw_breakpoints' = sw_breakpoints \cup {Arg}
  /\ Respond(Answer("OK", "none"))
  /\ UNCHANGED <<stub, running, single_step, last_signal, cycle_count, pc>>

cmd_remove_breakpoint ==
  /\ Handling("z0") /\ Arg # "bad"
  /\ sw_breakpoints' = sw_breakpoints \ {Arg}
  /\ Respond(Answer("OK", "none"))
  /\ UNCHANGED <<stub, running, single_step, last_signal, cycle_count, pc>>

\* Queries, reads and writes of other registers and of memory, monitor
\* commands, detach, unknown commands.
cmd_other ==
  /\ Handling("q")
  /\ Respond(Answer("data", "none"))
  /\ UNCHANGED <<stub, stubVars>>

\* The exception raised for 'k' leaves the command loop.
cmd_kill ==
  /\ Handling("k")
  /\ Send(<<Ack>>)
  /\ stub' = "ended"
  /\ UNCHANGED stubVars

\* 'c' and 's': acknowledged now, answered when the program has stopped.
Resume(step) ==
  /\ Arg # "bad"
  /\ pc' = IF Arg = "none" THEN pc ELSE Arg
  /\ running' = TRUE
  /\ single_step' = step
  /\ cycle_count' = 0
  /\ stub' = "run"
  /\ Send(<<Ack>>)
  /\ UNCHANGED <<sw_breakpoints, last_signal>>

cmd_continue == Handling("c") /\ Resume(FALSE)

cmd_step == Handling("s") /\ Resume(TRUE)

handle_command ==
  \/ bad_argument
  \/ cmd_halt_reason \/ cmd_read_register \/ cmd_write_register
  \/ cmd_insert_breakpoint \/ cmd_remove_breakpoint
  \/ cmd_other \/ cmd_kill
  \/ cmd_continue \/ cmd_step

recv_packet == recv_ack \/ recv_short \/ recv_interrupt \/ recv_closed \/ handle_command

-----------------------------------------------------------------------------
(* run_with_gdb and the handlers around it in run_gdbstub                  *)

is_breakpoint(a) == a \in sw_breakpoints

\* One byte is peeked at, and consumed when it is Ctrl-C.
check_for_interrupt == toStub # <<>> /\ Head(toStub) = Interrupt

\* The program has stopped: the stop reply, and back to recv_packet.
Stop(s) ==
  /\ running' = FALSE
  /\ last_signal' = s
  /\ Send(<<stop_reply(s)>>)
  /\ stub' = "recv"
  /\ UNCHANGED <<sw_breakpoints, gdbVars, short_reads>>

\* DebugBreak: the single-step flag is reset.
debug_break(s) == Stop(s) /\ single_step' = FALSE

\* The program ended, or an instruction raised an error; the pc stays.
machine_error ==
  /\ \E s \in {"SIGTRAP", "SIGILL", "SIGSEGV"} : Stop(s)
  /\ UNCHANGED <<single_step, pc, toStub>>

\* Single step: no breakpoint and no Ctrl-C is looked at.
step_once ==
  /\ stub = "run" /\ single_step
  /\ \/ pc' \in Addr /\ debug_break("SIGTRAP") /\ UNCHANGED toStub
     \/ machine_error
  /\ UNCHANGED cycle_count

\* An iteration of the loop of continue mode.
Continuing == stub = "run" /\ ~single_step /\ running

break_at_breakpoint ==
  /\ Continuing
  /\ is_breakpoint(pc)
  /\ debug_break("SIGTRAP")
  /\ UNCHANGED <<cycle_count, pc, toStub>>

NextCycle == (cycle_count + 1) % InterruptPeriod

\* A slip in Interrupted: an off-by-one that the masked counter never meets.
Interrupted_off_by_one == NextCycle = InterruptPeriod /\ check_for_interrupt

Interrupted == NextCycle = 0 /\ check_for_interrupt

break_on_interrupt ==
  /\ Continuing
  /\ ~is_breakpoint(pc)
  /\ Interrupted
  /\ cycle_count' = NextCycle
  /\ Consume
  /\ debug_break("SIGINT")
  /\ UNCHANGED pc

run_instruction ==
  /\ Continuing
  /\ ~is_breakpoint(pc)
  /\ ~Interrupted
  /\ cycle_count' = NextCycle
  /\ \/ /\ pc' \in Addr
        /\ UNCHANGED <<stub, running, single_step, sw_breakpoints, last_signal,
                       toStub, toGdb, gdbVars, short_reads>>
     \/ machine_error

run_with_gdb ==
  step_once \/ break_at_breakpoint \/ break_on_interrupt \/ run_instruction

run_gdbstub == recv_packet \/ run_with_gdb

-----------------------------------------------------------------------------
(* GDB (external)                                                          *)

\* A command is sent when the previous one has been answered.
gdb_send ==
  /\ ~closed /\ gdb = "idle"
  /\ \E c \in Command : cmd' = c /\ toStub' = Append(toStub, Packet(c))
  /\ gdb' = "ack" /\ pressed' = FALSE
  /\ UNCHANGED <<stub, stubVars, toGdb, ctrlC, closed, short_reads>>

\* The user presses Ctrl-C while GDB waits for the program to stop.
gdb_interrupt ==
  /\ ~closed /\ gdb = "reply" /\ cmd.op \in {"c", "s"}
  /\ ~pressed /\ ctrlC < MaxCtrlC
  /\ toStub' = Append(toStub, Interrupt)
  /\ pressed' = TRUE /\ ctrlC' = ctrlC + 1
  /\ UNCHANGED <<stub, stubVars, toGdb, gdb, cmd, closed, short_reads>>

\* The next item from the stub is of one of the kinds T.
Getting(T) ==
  /\ ~closed /\ toGdb # <<>>
  /\ Head(toGdb).t \in T
  /\ toGdb' = Tail(toGdb)
  /\ UNCHANGED <<stub, stubVars, cmd, pressed, ctrlC, short_reads>>
ReplyKind == {"stop", "pc", "OK", "E01", "data"}

\* After a kill GDB waits for nothing more.
gdb_ack ==
  /\ gdb = "ack" /\ Getting({"+"})
  /\ gdb' = "reply"
  /\ closed' = (cmd.op = "k")
  /\ UNCHANGED toStub

gdb_nack ==
  /\ gdb = "ack" /\ Getting({"-"})
  /\ toStub' = Append(toStub, Packet(cmd))
  /\ UNCHANGED <<gdb, closed>>

gdb_reply ==
  /\ gdb = "reply" /\ Getting(ReplyKind)
  /\ toStub' = Append(toStub, Ack)
  /\ gdb' = "idle"
  /\ UNCHANGED closed

\* A reply to nothing is acknowledged and dropped.
gdb_stray ==
  /\ gdb \in {"idle", "ack"} /\ Getting(ReplyKind)
  /\ toStub' = Append(toStub, Ack)
  /\ UNCHANGED <<gdb, closed>>

gdb_receive == gdb_ack \/ gdb_nack \/ gdb_reply \/ gdb_stray

\* GDB goes away, at any time.
gdb_close ==
  /\ ~closed /\ closed' = TRUE
  /\ UNCHANGED <<stub, stubVars, toStub, toGdb, gdb, cmd, pressed, ctrlC, short_reads>>

Next == run_gdbstub \/ gdb_send \/ gdb_interrupt \/ gdb_receive \/ gdb_close

Spec == Init /\ [][Next]_vars

\* The emulator's thread keeps running and GDB reads what it is sent.
FairSpec == Spec /\ WF_vars(run_gdbstub) /\ WF_vars(gdb_receive)

-----------------------------------------------------------------------------
(* Properties                                                              *)

\* Whatever the refused packets, the crossing Ctrl-Cs and the moment at which
\* GDB goes away: every command is carried out once and GDB takes the reply
\* that run_gdbstub sent for it, never the second stop reply with which a late
\* Ctrl-C is answered; and a continued program executes no instruction at a
\* breakpoint that GDB set and did not remove.
SessionIsTarget == Target!Spec

\* Every command but continue is answered, as long as both ends live: the two
\* never wait for each other (recv_packet blocks without a time limit).
CommandsAnswered ==
  (gdb # "idle" /\ cmd.op # "c") ~> (gdb = "idle" \/ closed \/ stub = "ended")

\* A Ctrl-C that is next in the stream stops the program, although
\* run_with_gdb looks only once in InterruptPeriod instructions and not at all
\* at a breakpoint or in a single step.
CtrlCStops == (stub = "run" /\ check_for_interrupt) ~> stub # "run"

\* When GDB has gone, the command loop ends, provided the program keeps
\* stopping: nothing else notices that the connection is closed.
SessionEnds == (<>closed /\ []<>(stub # "run")) => <>(stub = "ended")

\* "Check if interrupt (Ctrl+C) has been received from GDB. [...] True if
\* interrupt received, False otherwise" (gdbstub.py:265): when the periodic
\* check lets the program go on, no Ctrl-C has been received.
NoInterruptMissed ==
  [][run_instruction /\ NextCycle = 0 =>
       \A i \in 1..Len(toStub) : toStub[i] # Interrupt]_vars
=============================================================================
