----------------------------- MODULE GdbProofs -----------------------------
(***************************************************************************)
(* A debugging session implements RemoteTarget, for every set of addresses *)
(* and any number of refused packets and Ctrl-Cs.  The argument is about   *)
(* what the two streams can hold: a command is at any time in one place    *)
(* only, as a packet, as a refusal, or acknowledged; and the stub never    *)
(* waits for GDB before it has answered.                                   *)
(***************************************************************************)
EXTENDS GdbSession, TLAPS, SequenceTheorems

\* What may be under way in each direction.
ToStubItem == {Ack, Interrupt} \cup {Packet(c) : c \in Command}
ToGdbItem == {Ack, Nack} \cup Reply

TypeInv ==
  /\ stub \in {"recv", "run", "ended"}
  /\ gdb \in {"idle", "ack", "reply"}
  /\ gdb # "idle" => cmd \in Command
  /\ pc \in Addr
  /\ last_signal \in Target!Signal
  /\ toStub \in Seq(ToStubItem)
  /\ toGdb \in Seq(ToGdbItem)

\* The two items that tell GDB what became of its packet.
Mark(x) == x.t \in {"+", "-"}
Unmarked(s) == \A i \in 1 .. Len(s) : ~Mark(s[i])
OneMark(s) == \A i, j \in 1 .. Len(s) : Mark(s[i]) /\ Mark(s[j]) => i = j
EndsWithAck(s) == s # <<>> /\ s[Len(s)].t = "+"
NoPacket(s) == \A i \in 1 .. Len(s) : s[i].t # "packet"
OnePacket(s) == \A i, j \in 1 .. Len(s) : s[i].t = "packet" /\ s[j].t = "packet" => i = j
Packets(s, c) == \A i \in 1 .. Len(s) : s[i].t = "packet" => s[i].v = c

\* The command is a packet, or a mark, or GDB does not wait for a mark.
PlaceInv ==
  /\ OneMark(toGdb)
  /\ gdb # "ack" => Unmarked(toGdb)
  /\ OnePacket(toStub) /\ Packets(toStub, cmd)
  /\ NoPacket(toStub) \/ (gdb = "ack" /\ Unmarked(toGdb))

\* While the program runs the command is acknowledged and nothing more was
\* said; before the stub receives again it has answered.
AnswerInv ==
  /\ stub = "run" =>
       /\ running
       /\ (gdb = "reply" /\ toGdb = <<>>) \/ (gdb = "ack" /\ EndsWithAck(toGdb))
  /\ stub = "recv" =>
       /\ gdb = "reply" => toGdb # <<>>
       /\ gdb = "ack" => ~EndsWithAck(toGdb)

Inv == TypeInv /\ PlaceInv /\ AnswerInv

-----------------------------------------------------------------------------
(* Streams                                                                 *)

\* Send with one item: where it is, and what it does to the marks.
LEMMA SentOne ==
  ASSUME NEW s \in Seq(ToGdbItem), NEW x \in ToGdbItem
  PROVE  /\ s \o <<x>> \in Seq(ToGdbItem)
         /\ s \o <<x>> # <<>>
         /\ Unmarked(s) /\ ~Mark(x) => Unmarked(s \o <<x>>)
         /\ OneMark(s) /\ ~Mark(x) => OneMark(s \o <<x>>)
         /\ Unmarked(s) => OneMark(s \o <<x>>)
         /\ EndsWithAck(s \o <<x>>) <=> x.t = "+"
<1> DEFINE t == s \o <<x>>
<1>1. /\ t \in Seq(ToGdbItem) /\ Len(t) = Len(s) + 1 /\ t[Len(s) + 1] = x
      /\ \A i \in 1 .. Len(s) : t[i] = s[i]
      /\ Len(s) \in Nat
  BY ConcatProperties, LenProperties
<1>2. t # <<>>
  BY <1>1
<1> HIDE DEF t
<1> QED BY <1>1, <1>2 DEF Unmarked, OneMark, EndsWithAck, t

\* Respond: an acknowledgement and what follows it.
LEMMA SentTwo ==
  ASSUME NEW s \in Seq(ToGdbItem), NEW x \in ToGdbItem, NEW y \in ToGdbItem
  PROVE  /\ s \o <<x, y>> \in Seq(ToGdbItem)
         /\ s \o <<x, y>> # <<>>
         /\ Unmarked(s) /\ ~Mark(y) => OneMark(s \o <<x, y>>)
         /\ EndsWithAck(s \o <<x, y>>) <=> y.t = "+"
<1> DEFINE t == s \o <<x, y>>
<1>1. /\ t \in Seq(ToGdbItem) /\ Len(t) = Len(s) + 2
      /\ t[Len(s) + 1] = x /\ t[Len(s) + 2] = y
      /\ \A i \in 1 .. Len(s) : t[i] = s[i]
      /\ Len(s) \in Nat
  BY ConcatProperties, LenProperties
<1>2. t # <<>>
  BY <1>1
<1> HIDE DEF t
<1> QED BY <1>1, <1>2 DEF Unmarked, OneMark, EndsWithAck, t

\* GDB takes the first item.
LEMMA Gotten ==
  ASSUME NEW s \in Seq(ToGdbItem), s # <<>>
  PROVE  /\ Tail(s) \in Seq(ToGdbItem)
         /\ Head(s) = s[1] /\ Head(s) \in ToGdbItem
         /\ Unmarked(s) => ~Mark(Head(s)) /\ Unmarked(Tail(s))
         /\ OneMark(s) => OneMark(Tail(s))
         /\ OneMark(s) /\ Mark(Head(s)) => Unmarked(Tail(s))
         /\ EndsWithAck(s) /\ Head(s).t # "+" => EndsWithAck(Tail(s))
         /\ EndsWithAck(s) /\ Head(s).t = "+" /\ OneMark(s) => Tail(s) = <<>>
         /\ EndsWithAck(Tail(s)) => EndsWithAck(s)
         /\ Tail(s) = <<>> /\ Head(s).t = "+" => EndsWithAck(s)
<1> DEFINE t == Tail(s)
<1>1. /\ t \in Seq(ToGdbItem) /\ Len(t) = Len(s) - 1 /\ Head(s) = s[1] /\ Head(s) \in ToGdbItem
      /\ \A i \in 1 .. Len(t) : t[i] = s[i + 1]
      /\ Len(s) \in Nat /\ Len(s) > 0
  BY HeadTailProperties, LenProperties, EmptySeq
<1> HIDE DEF t
<1>2. t = <<>> <=> Len(s) = 1
  <2>1. t = <<>> <=> Len(t) = 0
    BY <1>1, EmptySeq
  <2> QED BY <1>1, <2>1
<1> SUFFICES /\ Unmarked(s) => ~Mark(Head(s)) /\ Unmarked(t)
             /\ OneMark(s) => OneMark(t)
             /\ OneMark(s) /\ Mark(Head(s)) => Unmarked(t)
             /\ EndsWithAck(s) /\ Head(s).t # "+" => EndsWithAck(t)
             /\ EndsWithAck(s) /\ Head(s).t = "+" /\ OneMark(s) => t = <<>>
             /\ EndsWithAck(t) => EndsWithAck(s)
             /\ t = <<>> /\ Head(s).t = "+" => EndsWithAck(s)
  BY <1>1 DEF t
<1>3. Unmarked(s) => ~Mark(Head(s)) /\ Unmarked(t)
  BY <1>1 DEF Unmarked
<1>4. OneMark(s) => OneMark(t)
  BY <1>1 DEF OneMark
<1>5. OneMark(s) /\ Mark(Head(s)) => Unmarked(t)
  BY <1>1 DEF OneMark, Unmarked
<1>6. Len(s) > 1 => t[Len(t)] = s[Len(s)]
  BY <1>1
<1>7. EndsWithAck(s) /\ Head(s).t # "+" => EndsWithAck(t)
  BY <1>1, <1>2, <1>6 DEF EndsWithAck
<1>8. EndsWithAck(s) /\ Head(s).t = "+" /\ OneMark(s) => t = <<>>
  BY <1>1, <1>2 DEF EndsWithAck, OneMark, Mark
<1>9. EndsWithAck(t) => EndsWithAck(s)
  BY <1>1, <1>2, <1>6 DEF EndsWithAck
<1>10. t = <<>> /\ Head(s).t = "+" => EndsWithAck(s)
  BY <1>1, <1>2 DEF EndsWithAck
<1> QED BY <1>3, <1>4, <1>5, <1>7, <1>8, <1>9, <1>10

\* Something is sent to the stub.
LEMMA SentToStub ==
  ASSUME NEW s \in Seq(ToStubItem), NEW x \in ToStubItem
  PROVE  /\ Append(s, x) \in Seq(ToStubItem)
         /\ x.t # "packet" /\ NoPacket(s) => NoPacket(Append(s, x))
         /\ x.t # "packet" /\ OnePacket(s) => OnePacket(Append(s, x))
         /\ NoPacket(s) => OnePacket(Append(s, x))
         /\ NoPacket(s) => \A c : x.v = c => Packets(Append(s, x), c)
         /\ x.t # "packet" => \A c : Packets(s, c) => Packets(Append(s, x), c)
<1> DEFINE t == Append(s, x)
<1>1. /\ t \in Seq(ToStubItem) /\ Len(t) = Len(s) + 1 /\ t[Len(s) + 1] = x
      /\ \A i \in 1 .. Len(s) : t[i] = s[i]
      /\ Len(s) \in Nat
  BY AppendProperties, LenProperties
<1> HIDE DEF t
<1> QED BY <1>1 DEF NoPacket, OnePacket, Packets, t

\* The stub takes the first item.
LEMMA Consumed ==
  ASSUME NEW s \in Seq(ToStubItem), s # <<>>
  PROVE  /\ Tail(s) \in Seq(ToStubItem)
         /\ Head(s) \in ToStubItem
         /\ NoPacket(s) => NoPacket(Tail(s)) /\ Head(s).t # "packet"
         /\ OnePacket(s) => OnePacket(Tail(s))
         /\ OnePacket(s) /\ Head(s).t = "packet" => NoPacket(Tail(s))
         /\ \A c : Packets(s, c) =>
              /\ Packets(Tail(s), c)
              /\ Head(s).t = "packet" => Head(s).v = c
<1> DEFINE t == Tail(s)
<1>1. /\ t \in Seq(ToStubItem) /\ Len(t) = Len(s) - 1 /\ Head(s) = s[1] /\ Head(s) \in ToStubItem
      /\ \A i \in 1 .. Len(t) : t[i] = s[i + 1]
      /\ Len(s) \in Nat /\ Len(s) > 0
  BY HeadTailProperties, LenProperties, EmptySeq
<1> HIDE DEF t
<1> QED BY <1>1 DEF NoPacket, OnePacket, Packets, t

\* What the items are.
LEMMA Items ==
  /\ Ack \in ToGdbItem /\ Nack \in ToGdbItem /\ Mark(Ack) /\ Mark(Nack)
  /\ Ack.t = "+" /\ Nack.t = "-"
  /\ \A x \in Reply : x \in ToGdbItem /\ ~Mark(x) /\ x.t \notin {"+", "none"}
  /\ \A x \in ToGdbItem : x.t \in ReplyKind => ~Mark(x)
  /\ Ack \in ToStubItem /\ Interrupt \in ToStubItem
  /\ Ack.t # "packet" /\ Interrupt.t # "packet"
  /\ \A c \in Command : Packet(c) \in ToStubItem /\ Packet(c).t = "packet" /\ Packet(c).v = c
  /\ \A x \in ToStubItem : x.t = "packet" => x.v \in Command
<1>1. /\ Ack \in ToGdbItem /\ Nack \in ToGdbItem /\ Mark(Ack) /\ Mark(Nack)
      /\ Ack.t = "+" /\ Nack.t = "-"
  BY DEF Ack, Nack, ToGdbItem, Mark
<1>2. \A x \in Reply : x \in ToGdbItem /\ ~Mark(x) /\ x.t \notin {"+", "none"}
  BY DEF ToGdbItem, Mark, Reply, Target!Reply
<1>3. \A x \in ToGdbItem : x.t \in ReplyKind => ~Mark(x)
  BY DEF Mark, ReplyKind
<1>4. /\ Ack \in ToStubItem /\ Interrupt \in ToStubItem
      /\ Ack.t # "packet" /\ Interrupt.t # "packet"
  BY DEF Ack, Interrupt, ToStubItem
<1>5. \A c \in Command : Packet(c) \in ToStubItem /\ Packet(c).t = "packet" /\ Packet(c).v = c
  BY DEF Packet, ToStubItem
<1>6. \A x \in ToStubItem : x.t = "packet" => x.v \in Command
  BY DEF Packet, Ack, Interrupt, ToStubItem
<1> QED BY <1>1, <1>2, <1>3, <1>4, <1>5, <1>6

\* What the stub may answer.
LEMMA Replies ==
  /\ \A s \in Target!Signal : stop_reply(s) \in Reply
  /\ \A a \in Addr : Answer("pc", a) \in Reply
  /\ \A t \in {"OK", "E01", "data"} : Answer(t, "none") \in Reply
  BY DEF stop_reply, Answer, Reply, Target!Reply

-----------------------------------------------------------------------------
(* The streams stay as Inv says                                            *)

\* A packet is received: it is the command that GDB waits for.
LEMMA Handled ==
  ASSUME Inv, Receiving("packet"), Consume
  PROVE  /\ stub = "recv" /\ gdb = "ack" /\ Head(toStub).v = cmd /\ cmd \in Command
         /\ Unmarked(toGdb)
         /\ toStub' \in Seq(ToStubItem) /\ NoPacket(toStub')
         /\ OnePacket(toStub') /\ Packets(toStub', cmd)
<1>1. toStub \in Seq(ToStubItem) /\ toStub # <<>> /\ Head(toStub).t = "packet" /\ stub = "recv"
  BY DEF Inv, TypeInv, Receiving
<1>2. OnePacket(toStub) /\ Packets(toStub, cmd) /\ toStub' = Tail(toStub)
  BY DEF Inv, PlaceInv, Consume
<1>3. ~NoPacket(toStub)
  BY <1>1, Consumed
<1>4. gdb = "ack" /\ Unmarked(toGdb)
  BY <1>3 DEF Inv, PlaceInv
<1>5. cmd \in Command
  BY <1>4 DEF Inv, TypeInv
<1> QED BY <1>1, <1>2, <1>4, <1>5, Consumed

\* Respond: the command is answered and acknowledged at once.
LEMMA Responded ==
  ASSUME Inv, Receiving("packet"), Consume, NEW r \in Reply, Respond(r),
         UNCHANGED <<stub, gdb, cmd, last_signal>>, pc' \in Addr
  PROVE  Inv'
<1>1. /\ toGdb \in Seq(ToGdbItem) /\ Unmarked(toGdb) /\ toGdb' = toGdb \o <<Ack, r>>
  BY Handled DEF Inv, TypeInv, Respond, Send
<1>2. toGdb' \in Seq(ToGdbItem) /\ OneMark(toGdb') /\ ~EndsWithAck(toGdb')
  BY <1>1, SentTwo, Items
<1>3. TypeInv'
  BY <1>2, Handled DEF Inv, TypeInv
<1>4. PlaceInv'
  BY <1>2, Handled DEF PlaceInv
<1>5. AnswerInv'
  BY <1>2, Handled DEF AnswerInv
<1> QED BY <1>3, <1>4, <1>5 DEF Inv

\* 'c', 's' and 'k': the command is only acknowledged.
LEMMA Acknowledged ==
  ASSUME Inv, Receiving("packet"), Consume, Send(<<Ack>>),
         UNCHANGED <<gdb, cmd, last_signal>>, pc' \in Addr,
         stub' = "ended" \/ (stub' = "run" /\ running')
  PROVE  Inv'
<1>1. /\ toGdb \in Seq(ToGdbItem) /\ Unmarked(toGdb) /\ toGdb' = toGdb \o <<Ack>>
  BY Handled DEF Inv, TypeInv, Send
<1>2. toGdb' \in Seq(ToGdbItem) /\ OneMark(toGdb') /\ EndsWithAck(toGdb')
  BY <1>1, SentOne, Items
<1>3. TypeInv'
  BY <1>2, Handled DEF Inv, TypeInv
<1>4. PlaceInv'
  BY <1>2, Handled DEF PlaceInv
<1>5. AnswerInv'
  BY <1>2, Handled DEF AnswerInv
<1> QED BY <1>3, <1>4, <1>5 DEF Inv

\* handle_command, for each command.
LEMMA CommandInv ==
  ASSUME Inv, handle_command
  PROVE  Inv'
<1> USE DEF Handling, gdbVars, stubVars
<1>1. Receiving("packet") /\ Consume /\ UNCHANGED <<gdb, cmd>>
  BY DEF handle_command, bad_argument, cmd_halt_reason, cmd_read_register, cmd_write_register,
         cmd_insert_breakpoint, cmd_remove_breakpoint, cmd_other, cmd_kill, cmd_continue, cmd_step
<1>2. /\ pc \in Addr /\ last_signal \in Target!Signal
      /\ Head(toStub).v \in Command
  BY <1>1, Handled DEF Inv, TypeInv
<1>3. Head(toStub).v.op \in {"Z0", "z0", "P"} /\ Arg # "bad" => Arg \in Addr
  BY <1>2 DEF Arg, Command, Target!Command
<1>4. Head(toStub).v.op \in {"c", "s"} /\ Arg # "bad" => Arg \in Addr \/ Arg = "none"
  BY <1>2 DEF Arg, Command, Target!Command
<1>5. CASE bad_argument
  BY <1>1, <1>2, <1>5, Responded, Replies DEF bad_argument
<1>6. CASE cmd_halt_reason
  BY <1>1, <1>2, <1>6, Responded, Replies DEF cmd_halt_reason
<1>7. CASE cmd_read_register
  BY <1>1, <1>2, <1>7, Responded, Replies DEF cmd_read_register
<1>8. CASE cmd_write_register
  BY <1>1, <1>3, <1>8, Responded, Replies DEF cmd_write_register
<1>9. CASE cmd_insert_breakpoint
  BY <1>1, <1>2, <1>9, Responded, Replies DEF cmd_insert_breakpoint
<1>10. CASE cmd_remove_breakpoint
  BY <1>1, <1>2, <1>10, Responded, Replies DEF cmd_remove_breakpoint
<1>11. CASE cmd_other
  BY <1>1, <1>2, <1>11, Responded, Replies DEF cmd_other
<1>12. CASE cmd_kill
  BY <1>1, <1>2, <1>12, Acknowledged DEF cmd_kill
<1>13. CASE cmd_continue
  BY <1>1, <1>2, <1>4, <1>13, Acknowledged DEF cmd_continue, Resume
<1>14. CASE cmd_step
  BY <1>1, <1>2, <1>4, <1>14, Acknowledged DEF cmd_step, Resume
<1> QED
  BY <1>5, <1>6, <1>7, <1>8, <1>9, <1>10, <1>11, <1>12, <1>13, <1>14 DEF handle_command

\* The rest of recv_packet.
LEMMA ReceiveInv ==
  ASSUME Inv, recv_ack \/ recv_short \/ recv_interrupt \/ recv_closed
  PROVE  Inv'
<1> USE DEF gdbVars, stubVars
<1>0. toStub \in Seq(ToStubItem) /\ toGdb \in Seq(ToGdbItem)
  BY DEF Inv, TypeInv
<1>1. CASE recv_ack
  <2>1. toStub # <<>> /\ toStub' = Tail(toStub) /\ UNCHANGED <<stub, stubVars, toGdb, gdbVars>>
    BY <1>1 DEF recv_ack, Receiving, Consume
  <2>2. TypeInv'
    BY <1>0, <2>1, Consumed DEF Inv, TypeInv
  <2>3. PlaceInv'
    BY <1>0, <2>1, Consumed DEF Inv, PlaceInv
  <2>4. AnswerInv'
    BY <2>1 DEF Inv, AnswerInv
  <2> QED BY <2>2, <2>3, <2>4 DEF Inv
<1>2. CASE recv_short
  <2>1. Receiving("packet") /\ Consume /\ toGdb' = toGdb \o <<Nack>> /\ UNCHANGED <<stub, stubVars, gdbVars>>
    BY <1>2 DEF recv_short, Send
  <2>2. Unmarked(toGdb)
    BY <2>1, Handled
  <2>3. toGdb' \in Seq(ToGdbItem) /\ OneMark(toGdb') /\ ~EndsWithAck(toGdb')
    BY <1>0, <2>1, <2>2, SentOne, Items
  <2>4. TypeInv'
    BY <2>1, <2>3, Handled DEF Inv, TypeInv
  <2>5. PlaceInv'
    BY <2>1, <2>3, Handled DEF PlaceInv
  <2>6. AnswerInv'
    BY <2>1, <2>3, Handled DEF AnswerInv
  <2> QED BY <2>4, <2>5, <2>6 DEF Inv
<1>3. CASE recv_interrupt
  <2>1. /\ toStub # <<>> /\ toStub' = Tail(toStub) /\ stub = "recv"
        /\ toGdb' = toGdb \o <<stop_reply("SIGINT")>>
        /\ last_signal' = "SIGINT" /\ UNCHANGED <<stub, pc, gdbVars>>
    BY <1>3 DEF recv_interrupt, Receiving, Consume, Send
  <2>2. "SIGINT" \in Target!Signal /\ stop_reply("SIGINT") \in Reply
    BY Replies DEF Target!Signal
  <2>3. stop_reply("SIGINT") \in ToGdbItem /\ ~Mark(stop_reply("SIGINT")) /\ stop_reply("SIGINT").t # "+"
    BY <2>2, Items
  <2>4. TypeInv'
    BY <1>0, <2>1, <2>2, <2>3, Consumed, SentOne DEF Inv, TypeInv
  <2>5. PlaceInv'
    BY <1>0, <2>1, <2>3, Consumed, SentOne DEF Inv, PlaceInv
  <2>6. AnswerInv'
    BY <1>0, <2>1, <2>3, SentOne DEF Inv, AnswerInv
  <2> QED BY <2>4, <2>5, <2>6 DEF Inv
<1>4. CASE recv_closed
  BY <1>4 DEF recv_closed, Inv, TypeInv, PlaceInv, AnswerInv
<1> QED BY <1>1, <1>2, <1>3, <1>4

\* run_with_gdb: the program goes on, or the stop reply is sent.
LEMMA RunInv ==
  ASSUME Inv, run_with_gdb
  PROVE  Inv'
<1> USE DEF gdbVars, stubVars
<1>0. /\ stub = "run" /\ toStub \in Seq(ToStubItem) /\ toGdb \in Seq(ToGdbItem) /\ pc \in Addr
      /\ running
      /\ (gdb = "reply" /\ toGdb = <<>>) \/ (gdb = "ack" /\ EndsWithAck(toGdb))
  BY DEF Inv, TypeInv, AnswerInv, run_with_gdb, step_once, break_at_breakpoint,
         break_on_interrupt, run_instruction, Continuing
<1>1. pc' \in Addr /\ UNCHANGED <<gdb, cmd>>
  BY <1>0 DEF run_with_gdb, step_once, break_at_breakpoint, break_on_interrupt, run_instruction,
              machine_error, debug_break, Stop
<1>2. toStub' = toStub \/ (toStub # <<>> /\ toStub' = Tail(toStub))
  BY DEF run_with_gdb, step_once, break_at_breakpoint, break_on_interrupt, run_instruction,
         machine_error, Interrupted, check_for_interrupt, Consume
<1>3. /\ toStub' \in Seq(ToStubItem)
      /\ OnePacket(toStub') /\ Packets(toStub', cmd)
      /\ NoPacket(toStub) => NoPacket(toStub')
  BY <1>0, <1>2, Consumed DEF Inv, PlaceInv
<1>4. CASE UNCHANGED <<stub, running, toGdb, last_signal>>
  BY <1>0, <1>1, <1>3, <1>4 DEF Inv, TypeInv, PlaceInv, AnswerInv
<1>5. CASE \E s \in Target!Signal : Stop(s)
  <2> PICK s \in Target!Signal : Stop(s)
    BY <1>5
  <2>1. stub' = "recv" /\ toGdb' = toGdb \o <<stop_reply(s)>> /\ last_signal' \in Target!Signal
    BY DEF Stop, Send
  <2>2. stop_reply(s) \in ToGdbItem /\ ~Mark(stop_reply(s)) /\ stop_reply(s).t # "+"
    BY Replies, Items
  <2>3. /\ toGdb' \in Seq(ToGdbItem) /\ toGdb' # <<>> /\ ~EndsWithAck(toGdb')
        /\ OneMark(toGdb')
        /\ Unmarked(toGdb) => Unmarked(toGdb')
    BY <1>0, <2>1, <2>2, SentOne DEF Inv, PlaceInv
  <2>4. TypeInv'
    BY <1>1, <1>3, <2>1, <2>3 DEF Inv, TypeInv
  <2>5. PlaceInv'
    BY <1>1, <1>3, <2>3 DEF Inv, PlaceInv
  <2>6. AnswerInv'
    BY <2>1, <2>3 DEF AnswerInv
  <2> QED BY <2>4, <2>5, <2>6 DEF Inv
<1> QED
  BY <1>4, <1>5 DEF run_with_gdb, step_once, break_at_breakpoint, break_on_interrupt,
                    run_instruction, machine_error, debug_break, Target!Signal

\* GDB sends a command or Ctrl-C, or goes away.
LEMMA GdbSendInv ==
  ASSUME Inv, gdb_send \/ gdb_interrupt \/ gdb_close
  PROVE  Inv'
<1> USE DEF gdbVars, stubVars
<1>0. toStub \in Seq(ToStubItem)
  BY DEF Inv, TypeInv
<1>1. CASE gdb_send
  <2>1. PICK c \in Command : cmd' = c /\ toStub' = Append(toStub, Packet(c))
    BY <1>1 DEF gdb_send
  <2>2. gdb = "idle" /\ gdb' = "ack" /\ UNCHANGED <<stub, stubVars, toGdb>>
    BY <1>1 DEF gdb_send
  <2>3. NoPacket(toStub) /\ Unmarked(toGdb)
    BY <2>2 DEF Inv, PlaceInv
  <2>4. /\ toStub' \in Seq(ToStubItem) /\ OnePacket(toStub') /\ Packets(toStub', cmd')
    BY <1>0, <2>1, <2>3, SentToStub, Items
  <2>5. TypeInv'
    BY <2>1, <2>2, <2>4 DEF Inv, TypeInv
  <2>6. PlaceInv'
    BY <2>2, <2>3, <2>4 DEF Inv, PlaceInv
  <2>7. toGdb = <<>> \/ toGdb[Len(toGdb)].t # "+"
    BY <2>3, LenProperties, EmptySeq DEF Unmarked, Mark, Inv, TypeInv
  <2>8. AnswerInv'
    BY <2>2, <2>7 DEF Inv, AnswerInv, EndsWithAck
  <2> QED BY <2>5, <2>6, <2>8 DEF Inv
<1>2. CASE gdb_interrupt
  <2>1. toStub' = Append(toStub, Interrupt) /\ UNCHANGED <<stub, stubVars, toGdb, gdb, cmd>>
    BY <1>2 DEF gdb_interrupt
  <2>2. TypeInv'
    BY <1>0, <2>1, SentToStub, Items DEF Inv, TypeInv
  <2>3. PlaceInv'
    BY <1>0, <2>1, SentToStub, Items DEF Inv, PlaceInv
  <2> QED BY <2>1, <2>2, <2>3 DEF Inv, AnswerInv
<1>3. CASE gdb_close
  BY <1>3 DEF gdb_close, Inv, TypeInv, PlaceInv, AnswerInv
<1> QED BY <1>1, <1>2, <1>3

\* GDB takes what comes next.
LEMMA GdbReceiveInv ==
  ASSUME Inv, gdb_receive
  PROVE  Inv'
<1> USE DEF stubVars
<1>0. /\ toStub \in Seq(ToStubItem) /\ toGdb \in Seq(ToGdbItem) /\ toGdb # <<>>
      /\ toGdb' = Tail(toGdb) /\ UNCHANGED <<stub, stubVars, cmd>>
  BY DEF Inv, TypeInv, gdb_receive, gdb_ack, gdb_nack, gdb_reply, gdb_stray, Getting
<1>1. toGdb' \in Seq(ToGdbItem) /\ OneMark(toGdb')
  BY <1>0, Gotten DEF Inv, PlaceInv
<1>2. CASE gdb_ack
  <2>1. gdb = "ack" /\ gdb' = "reply" /\ Head(toGdb).t = "+" /\ toStub' = toStub
    BY <1>2 DEF gdb_ack, Getting
  <2>2. Mark(Head(toGdb)) /\ ~Unmarked(toGdb)
    BY <1>0, <2>1, Gotten DEF Mark
  <2>3. NoPacket(toStub) /\ Unmarked(toGdb')
    BY <1>0, <2>2, Gotten DEF Inv, PlaceInv
  <2>4. TypeInv'
    BY <1>0, <1>1, <2>1 DEF Inv, TypeInv
  <2>5. PlaceInv'
    BY <1>0, <1>1, <2>1, <2>3 DEF Inv, PlaceInv
  <2>6. AnswerInv'
    BY <1>0, <2>1, Gotten DEF Inv, PlaceInv, AnswerInv
  <2> QED BY <2>4, <2>5, <2>6 DEF Inv
<1>3. CASE gdb_nack
  <2>1. /\ gdb = "ack" /\ gdb' = "ack" /\ Head(toGdb).t = "-"
        /\ toStub' = Append(toStub, Packet(cmd)) /\ cmd \in Command
    BY <1>3 DEF gdb_nack, Getting, Inv, TypeInv
  <2>2. Mark(Head(toGdb)) /\ ~Unmarked(toGdb)
    BY <1>0, <2>1, Gotten DEF Mark
  <2>3. NoPacket(toStub) /\ Unmarked(toGdb')
    BY <1>0, <2>2, Gotten DEF Inv, PlaceInv
  <2>4. /\ toStub' \in Seq(ToStubItem) /\ OnePacket(toStub') /\ Packets(toStub', cmd)
    BY <1>0, <2>1, <2>3, SentToStub, Items
  <2>5. TypeInv'
    BY <1>0, <1>1, <2>1, <2>4 DEF Inv, TypeInv
  <2>6. PlaceInv'
    BY <1>0, <1>1, <2>1, <2>3, <2>4 DEF PlaceInv
  <2>7. ~EndsWithAck(toGdb')
    BY <1>1, <2>3, LenProperties, EmptySeq DEF Unmarked, Mark, EndsWithAck
  <2>8. stub # "run"
    <3>1. EndsWithAck(toGdb) => EndsWithAck(toGdb')
      BY <1>0, <2>1, Gotten
    <3> QED BY <2>1, <2>7, <3>1 DEF Inv, AnswerInv
  <2>9. AnswerInv'
    BY <1>0, <2>1, <2>7, <2>8 DEF AnswerInv
  <2> QED BY <2>5, <2>6, <2>9 DEF Inv
<1>4. CASE gdb_reply \/ gdb_stray
  <2>1. /\ Head(toGdb).t \in ReplyKind /\ toStub' = Append(toStub, Ack)
        /\ (gdb = "reply" /\ gdb' = "idle") \/ (gdb \in {"idle", "ack"} /\ gdb' = gdb)
    BY <1>4 DEF gdb_reply, gdb_stray, Getting
  <2>2. Head(toGdb).t # "+"
    BY <2>1 DEF ReplyKind
  <2>3. /\ toStub' \in Seq(ToStubItem) /\ OnePacket(toStub') /\ Packets(toStub', cmd)
        /\ NoPacket(toStub) => NoPacket(toStub')
    BY <1>0, <2>1, SentToStub, Items DEF Inv, PlaceInv
  <2>4. TypeInv'
    BY <1>0, <1>1, <2>1, <2>3 DEF Inv, TypeInv
  <2>5. PlaceInv'
    BY <1>0, <1>1, <2>1, <2>3, Gotten DEF Inv, PlaceInv
  <2>6. AnswerInv'
    BY <1>0, <2>1, <2>2, Gotten DEF Inv, AnswerInv
  <2> QED BY <2>4, <2>5, <2>6 DEF Inv
<1> QED BY <1>2, <1>3, <1>4 DEF gdb_receive

\* The streams are as Inv says in every state of a session.
THEOREM StreamsInOrder == Spec => []Inv
<1>1. Init => Inv
  <2> SUFFICES ASSUME Init PROVE Inv
    OBVIOUS
  <2>1. /\ toStub \in Seq(ToStubItem) /\ toGdb \in Seq(ToGdbItem)
        /\ Len(toStub) = 0 /\ Len(toGdb) = 0
    BY EmptySeq DEF Init
  <2> QED
    BY <2>1 DEF Init, Inv, TypeInv, PlaceInv, AnswerInv, OneMark, Unmarked, OnePacket, Packets,
                NoPacket, Target!Signal
<1>2. Inv /\ [Next]_vars => Inv'
  <2> SUFFICES ASSUME Inv, [Next]_vars PROVE Inv'
    OBVIOUS
  <2>1. CASE UNCHANGED vars
    BY <2>1 DEF vars, stubVars, gdbVars, Inv, TypeInv, PlaceInv, AnswerInv
  <2> QED
    BY <2>1, CommandInv, ReceiveInv, RunInv, GdbSendInv, GdbReceiveInv
    DEF Next, run_gdbstub, recv_packet
<1> QED BY <1>1, <1>2, PTL DEF Spec

-----------------------------------------------------------------------------
(* The answer that the streams hold                                        *)

\* Answered, for a state of GDB and a stream.
HasAck(s) == \E i \in 1 .. Len(s) : s[i].t = "+"
AckAt(s) == CHOOSE i \in 1 .. Len(s) : s[i].t = "+"
AnswerIn(g, s) ==
  LET u == CASE g = "reply" -> s
             [] g = "ack" /\ HasAck(s) -> SubSeq(s, AckAt(s) + 1, Len(s))
             [] OTHER -> <<>>
  IN  IF u = <<>> THEN Target!NoReply ELSE Head(u)

\* In both states of a step.
LEMMA AnsweredIs == Answered = AnswerIn(gdb, toGdb) /\ Answered' = AnswerIn(gdb', toGdb')
  BY DEF Answered, Unanswered, AnswerIn, HasAck, AckAt, Target!NoReply

\* There is none.
LEMMA NoAnswer ==
  ASSUME NEW g, NEW s,
         g = "idle" \/ (g = "ack" /\ ~HasAck(s)) \/ (g = "reply" /\ s = <<>>)
  PROVE  AnswerIn(g, s) = Target!NoReply
  BY DEF AnswerIn

\* There is one, and GDB is about to read it.
LEMMA FirstAnswer ==
  ASSUME NEW s, s # <<>>
  PROVE  AnswerIn("reply", s) = Head(s)
  BY DEF AnswerIn

\* There is an acknowledgement: the answer is what follows it, if anything does.
LEMMA AnswerAfterAck ==
  ASSUME NEW s \in Seq(ToGdbItem), OneMark(s), NEW k \in 1 .. Len(s), s[k].t = "+"
  PROVE  AnswerIn("ack", s) = IF k = Len(s) THEN Target!NoReply ELSE s[k + 1]
<1>1. HasAck(s)
  BY DEF HasAck
<1>2. AckAt(s) = k
  <2>1. AckAt(s) \in 1 .. Len(s) /\ s[AckAt(s)].t = "+"
    BY <1>1 DEF HasAck, AckAt
  <2> QED BY <2>1 DEF OneMark, Mark
<1>3. k \in Nat /\ Len(s) \in Nat /\ k <= Len(s)
  BY LenProperties
<1> DEFINE u == SubSeq(s, k + 1, Len(s))
<1>4. AnswerIn("ack", s) = IF u = <<>> THEN Target!NoReply ELSE Head(u)
  BY <1>1, <1>2 DEF AnswerIn
<1>5. CASE k = Len(s)
  <2>1. u = <<>>
    BY <1>3, <1>5, SubSeqEmpty
  <2> QED BY <1>4, <1>5, <2>1
<1>6. CASE k # Len(s)
  <2>1. /\ u \in Seq(ToGdbItem) /\ Len(u) = Len(s) - k
        /\ u[1] = s[k + 1]
    BY <1>3, <1>6, SubSeqProperties
  <2> HIDE DEF u
  <2>2. u # <<>>
    BY <1>3, <1>6, <2>1
  <2>3. Head(u) = s[k + 1]
    BY <2>1, <2>2, HeadTailProperties
  <2> QED BY <1>4, <1>6, <2>2, <2>3
<1> QED BY <1>5, <1>6

\* Respond, an acknowledgement alone, and a refusal.
LEMMA AnswerGiven ==
  ASSUME NEW s \in Seq(ToGdbItem), Unmarked(s), NEW r \in Reply
  PROVE  /\ AnswerIn("ack", s) = Target!NoReply
         /\ AnswerIn("ack", s \o <<Ack, r>>) = r
         /\ AnswerIn("ack", s \o <<Ack>>) = Target!NoReply
         /\ AnswerIn("ack", s \o <<Nack>>) = Target!NoReply
<1>0. Len(s) \in Nat /\ r \in ToGdbItem /\ ~Mark(r)
  BY LenProperties, Items
<1>1. ~HasAck(s)
  BY DEF HasAck, Unmarked, Mark
<1>2. AnswerIn("ack", s \o <<Ack, r>>) = r
  <2> DEFINE t == s \o <<Ack, r>>
  <2>1. t \in Seq(ToGdbItem) /\ OneMark(t)
    BY <1>0, SentTwo, Items
  <2>2. Len(t) = Len(s) + 2 /\ t[Len(s) + 1] = Ack /\ t[Len(s) + 2] = r
    BY <1>0, Items, ConcatProperties
  <2> HIDE DEF t
  <2>3. AnswerIn("ack", t) = t[(Len(s) + 1) + 1]
    BY <1>0, <2>1, <2>2, Items, AnswerAfterAck
  <2> QED BY <1>0, <2>2, <2>3 DEF t
<1>3. AnswerIn("ack", s \o <<Ack>>) = Target!NoReply
  <2> DEFINE t == s \o <<Ack>>
  <2>1. t \in Seq(ToGdbItem) /\ OneMark(t)
    BY SentOne, Items
  <2>2. Len(t) = Len(s) + 1 /\ t[Len(s) + 1] = Ack
    BY <1>0, Items, ConcatProperties
  <2> HIDE DEF t
  <2>3. AnswerIn("ack", t) = Target!NoReply
    BY <1>0, <2>1, <2>2, Items, AnswerAfterAck
  <2> QED BY <2>3 DEF t
<1>4. ~HasAck(s \o <<Nack>>)
  <2> DEFINE t == s \o <<Nack>>
  <2>1. Len(t) = Len(s) + 1 /\ t[Len(s) + 1] = Nack /\ \A i \in 1 .. Len(s) : t[i] = s[i]
    BY <1>0, Items, ConcatProperties
  <2> HIDE DEF t
  <2> QED BY <1>0, <1>1, <2>1, Items DEF HasAck, t
<1> QED BY <1>1, <1>2, <1>3, <1>4, NoAnswer

\* The stop reply of a program that ran.
LEMMA AnswerOfStop ==
  ASSUME NEW g, NEW s \in Seq(ToGdbItem), NEW r \in Reply, OneMark(s),
         (g = "reply" /\ s = <<>>) \/ (g = "ack" /\ EndsWithAck(s))
  PROVE  AnswerIn(g, s) = Target!NoReply /\ AnswerIn(g, s \o <<r>>) = r
<1> DEFINE t == s \o <<r>>
<1>0. Len(s) \in Nat /\ r \in ToGdbItem /\ ~Mark(r)
  BY LenProperties, Items
<1>1. /\ Len(t) = Len(s) + 1 /\ t[Len(s) + 1] = r
      /\ \A i \in 1 .. Len(s) : t[i] = s[i]
  BY <1>0, ConcatProperties
<1>2. t \in Seq(ToGdbItem) /\ t # <<>> /\ OneMark(t)
  BY <1>0, SentOne
<1> HIDE DEF t
<1>3. CASE g = "reply" /\ s = <<>>
  <2>1. Len(s) = 0
    BY <1>3
  <2>2. Head(t) = r
    BY <1>1, <1>2, <2>1, HeadTailProperties
  <2> QED BY <1>2, <1>3, <2>2, NoAnswer, FirstAnswer DEF t
<1>4. CASE g = "ack" /\ EndsWithAck(s)
  <2>1. Len(s) \in 1 .. Len(s) /\ s[Len(s)].t = "+"
    BY <1>0, <1>4, EmptySeq DEF EndsWithAck
  <2>2. AnswerIn("ack", s) = Target!NoReply
    BY <2>1, AnswerAfterAck
  <2>3. Len(s) \in 1 .. Len(t) /\ t[Len(s)].t = "+" /\ Len(s) # Len(t)
    BY <1>0, <1>1, <2>1
  <2>4. AnswerIn("ack", t) = t[Len(s) + 1]
    BY <1>2, <2>3, AnswerAfterAck
  <2> QED BY <1>1, <1>4, <2>2, <2>4 DEF t
<1> QED BY <1>3, <1>4

\* The reply to a late Ctrl-C.
LEMMA AnswerKept ==
  ASSUME NEW g, NEW s \in Seq(ToGdbItem), NEW r \in Reply, OneMark(s),
         \/ g = "idle"
         \/ g = "reply" /\ s # <<>>
         \/ g = "ack" /\ ~EndsWithAck(s)
  PROVE  AnswerIn(g, s \o <<r>>) = AnswerIn(g, s)
<1> DEFINE t == s \o <<r>>
<1>0. Len(s) \in Nat /\ r \in ToGdbItem /\ ~Mark(r)
  BY LenProperties, Items
<1>1. /\ Len(t) = Len(s) + 1 /\ t[Len(s) + 1] = r
      /\ \A i \in 1 .. Len(s) : t[i] = s[i]
  BY <1>0, ConcatProperties
<1>2. t \in Seq(ToGdbItem) /\ t # <<>> /\ OneMark(t)
  BY <1>0, SentOne
<1> HIDE DEF t
<1>3. CASE g = "idle"
  BY <1>3, NoAnswer
<1>4. CASE g = "reply" /\ s # <<>>
  <2>1. Len(s) > 0
    BY <1>0, <1>4, EmptySeq
  <2>2. Head(t) = t[1] /\ Head(s) = s[1]
    BY <1>2, <1>4, HeadTailProperties
  <2>3. Head(t) = Head(s)
    BY <1>0, <1>1, <2>1, <2>2
  <2> QED BY <1>2, <1>4, <2>3, FirstAnswer DEF t
<1>5. CASE g = "ack" /\ ~HasAck(s)
  <2>1. ~HasAck(t)
    BY <1>0, <1>1, <1>5 DEF HasAck, Mark
  <2> QED BY <1>5, <2>1, NoAnswer DEF t
<1>6. CASE g = "ack" /\ HasAck(s) /\ ~EndsWithAck(s)
  <2>1. PICK k \in 1 .. Len(s) : s[k].t = "+"
    BY <1>6 DEF HasAck
  <2>2. k # Len(s)
    BY <1>0, <1>6, <2>1, EmptySeq DEF EndsWithAck
  <2>3. k + 1 \in 1 .. Len(s) /\ k \in 1 .. Len(t) /\ k # Len(t) /\ t[k].t = "+"
    BY <1>0, <1>1, <2>1, <2>2
  <2>4. AnswerIn("ack", s) = s[k + 1] /\ AnswerIn("ack", t) = t[k + 1]
    BY <1>2, <2>1, <2>2, <2>3, AnswerAfterAck
  <2> QED BY <1>1, <1>6, <2>3, <2>4 DEF t
<1> QED BY <1>3, <1>4, <1>5, <1>6

\* GDB drops a reply to nothing, or takes a mark.
LEMMA AnswerAdvances ==
  ASSUME NEW s \in Seq(ToGdbItem), s # <<>>, OneMark(s)
  PROVE  /\ ~Mark(Head(s)) => AnswerIn("ack", Tail(s)) = AnswerIn("ack", s)
         /\ Head(s).t = "+" => AnswerIn("reply", Tail(s)) = AnswerIn("ack", s)
         /\ Head(s).t = "-" => AnswerIn("ack", Tail(s)) = AnswerIn("ack", s)
<1> DEFINE t == Tail(s)
<1>1. /\ t \in Seq(ToGdbItem) /\ Len(t) = Len(s) - 1 /\ Head(s) = s[1]
      /\ \A i \in 1 .. Len(t) : t[i] = s[i + 1]
      /\ Len(s) \in Nat /\ Len(s) > 0
  BY HeadTailProperties, LenProperties, EmptySeq
<1>2. OneMark(t)
  BY Gotten
<1> HIDE DEF t
<1>3. HasAck(t) <=> HasAck(s) /\ Head(s).t # "+"
  <2>1. ASSUME NEW k \in 1 .. Len(t), t[k].t = "+"
        PROVE  k + 1 \in 1 .. Len(s) /\ s[k + 1].t = "+" /\ k + 1 # 1
    BY <1>1, <2>1
  <2>2. ASSUME NEW k \in 1 .. Len(s), s[k].t = "+", k # 1
        PROVE  k - 1 \in 1 .. Len(t) /\ t[k - 1].t = "+"
    <3>1. k - 1 \in 1 .. Len(t) /\ (k - 1) + 1 = k
      BY <1>1, <2>2
    <3> QED BY <1>1, <2>2, <3>1
  <2> QED BY <1>1, <2>1, <2>2 DEF HasAck, OneMark, Mark
<1>4. ASSUME Head(s).t # "+"
      PROVE  AnswerIn("ack", t) = AnswerIn("ack", s)
  <2>1. CASE ~HasAck(s)
    BY <1>3, <2>1, NoAnswer
  <2>2. CASE HasAck(s)
    <3>1. PICK k \in 1 .. Len(t) : t[k].t = "+"
      BY <1>3, <1>4, <2>2 DEF HasAck
    <3>2. k + 1 \in 1 .. Len(s) /\ s[k + 1].t = "+" /\ (k = Len(t) <=> k + 1 = Len(s))
      BY <1>1, <3>1
    <3>3. AnswerIn("ack", t) = IF k = Len(t) THEN Target!NoReply ELSE t[k + 1]
      BY <1>1, <1>2, <3>1, AnswerAfterAck
    <3>4. AnswerIn("ack", s) = IF k + 1 = Len(s) THEN Target!NoReply ELSE s[(k + 1) + 1]
      BY <3>2, AnswerAfterAck
    <3>5. k # Len(t) => t[k + 1] = s[(k + 1) + 1]
      BY <1>1, <3>1
    <3> QED BY <3>2, <3>3, <3>4, <3>5
  <2> QED BY <2>1, <2>2
<1>5. ASSUME Head(s).t = "+"
      PROVE  AnswerIn("reply", t) = AnswerIn("ack", s)
  <2>1. 1 \in 1 .. Len(s) /\ s[1].t = "+"
    BY <1>1, <1>5
  <2>2. AnswerIn("ack", s) = IF 1 = Len(s) THEN Target!NoReply ELSE s[1 + 1]
    BY <2>1, AnswerAfterAck
  <2>3. t = <<>> <=> 1 = Len(s)
    <3>1. t = <<>> <=> Len(t) = 0
      BY <1>1, EmptySeq
    <3> QED BY <1>1, <3>1
  <2>4. t # <<>> => Head(t) = s[1 + 1]
    BY <1>1, <2>3, HeadTailProperties
  <2> QED BY <2>2, <2>3, <2>4, NoAnswer, FirstAnswer
<1> QED BY <1>4, <1>5 DEF Mark, t

-----------------------------------------------------------------------------
(* Every step is one of RemoteTarget, or none                              *)

\* A command that is carried out and answered: Refuse, Inspect or Modify.
LEMMA CommandStep ==
  ASSUME Inv, handle_command
  PROVE  Target!Next
<1> USE DEF Handling, gdbVars, stubVars
<1>1. Receiving("packet") /\ Consume /\ UNCHANGED <<gdb, cmd>>
  BY DEF handle_command, bad_argument, cmd_halt_reason, cmd_read_register, cmd_write_register,
         cmd_insert_breakpoint, cmd_remove_breakpoint, cmd_other, cmd_kill, cmd_continue, cmd_step
<1>2. /\ gdb = "ack" /\ Unmarked(toGdb) /\ toGdb \in Seq(ToGdbItem)
      /\ Head(toStub).v = cmd /\ cmd \in Command /\ stub = "recv"
      /\ pc \in Addr /\ last_signal \in Target!Signal
  BY <1>1, Handled DEF Inv, TypeInv
<1>3. Asked = cmd /\ Asked' = cmd /\ Arg = cmd.a /\ Mode = "halted"
  BY <1>1, <1>2 DEF Asked, Arg, Mode
<1>4. Answered = Target!NoReply
  BY <1>2, AnsweredIs, AnswerGiven, Replies
<1>5. ASSUME NEW r \in Reply, Respond(r)
      PROVE  Answered' = r
  BY <1>1, <1>2, <1>5, AnsweredIs, AnswerGiven DEF Respond, Send
<1>6. Send(<<Ack>>) => Answered' = Target!NoReply
  BY <1>1, <1>2, AnsweredIs, AnswerGiven, Replies DEF Send
<1>7. UNCHANGED stub => Mode' = "halted"
  BY <1>2 DEF Mode
<1>8. cmd.op \in {"Z0", "z0", "P"} /\ cmd.a # "bad" => cmd.a \in Addr
  BY <1>2 DEF Command, Target!Command
<1>9. cmd.op \in {"c", "s"} /\ cmd.a # "bad" => cmd.a \in Addr \/ cmd.a = "none"
  BY <1>2 DEF Command, Target!Command
<1>10. CASE bad_argument
  <2>1. Answered' = [t |-> "E01", v |-> "none"]
    BY <1>5, <1>10, Replies DEF bad_argument, Answer
  <2>2. Target!Refuse
    BY <1>2, <1>3, <1>4, <1>7, <1>10, <2>1
    DEF bad_argument, Target!Refuse, Target!Serving, Target!Say
  <2> QED BY <2>2 DEF Target!Next
<1>11. CASE cmd_halt_reason
  <2>1. Answered' = [t |-> "stop", v |-> last_signal]
    BY <1>2, <1>5, <1>11, Replies DEF cmd_halt_reason, stop_reply
  <2>2. Target!Inspect
    BY <1>2, <1>3, <1>4, <1>7, <1>11, <2>1
    DEF cmd_halt_reason, Target!Inspect, Target!Serving, Target!Say
  <2> QED BY <2>2 DEF Target!Next
<1>12. CASE cmd_read_register
  <2>1. Answered' = [t |-> "pc", v |-> pc]
    BY <1>2, <1>5, <1>12, Replies DEF cmd_read_register, Answer
  <2>2. Target!Inspect
    BY <1>2, <1>3, <1>4, <1>7, <1>12, <2>1
    DEF cmd_read_register, Target!Inspect, Target!Serving, Target!Say
  <2> QED BY <2>2 DEF Target!Next
<1>13. CASE cmd_other
  <2>1. Answered' = [t |-> "data", v |-> "none"]
    BY <1>5, <1>13, Replies DEF cmd_other, Answer
  <2>2. Target!Inspect
    BY <1>2, <1>3, <1>4, <1>7, <1>13, <2>1
    DEF cmd_other, Target!Inspect, Target!Serving, Target!Say
  <2> QED BY <2>2 DEF Target!Next
<1>14. CASE cmd_write_register \/ cmd_insert_breakpoint \/ cmd_remove_breakpoint
  <2>1. Answered' = [t |-> "OK", v |-> "none"]
    BY <1>5, <1>14, Replies
    DEF cmd_write_register, cmd_insert_breakpoint, cmd_remove_breakpoint, Answer
  <2>2. Target!Modify
    BY <1>2, <1>3, <1>4, <1>7, <1>8, <1>14, <2>1
    DEF cmd_write_register, cmd_insert_breakpoint, cmd_remove_breakpoint, Target!Modify,
        Target!Serving, Target!Say
  <2> QED BY <2>2 DEF Target!Next
<1>15. CASE cmd_continue \/ cmd_step
  <2>1. Answered' = Target!NoReply
    BY <1>6, <1>15 DEF cmd_continue, cmd_step, Resume
  <2>2. \/ cmd.op = "c" /\ Mode' = "running"
        \/ cmd.op = "s" /\ Mode' = "stepping"
    BY <1>2, <1>15 DEF cmd_continue, cmd_step, Resume, Mode
  <2>3. \/ cmd.a \in Addr /\ pc' = cmd.a
        \/ cmd.a = "none" /\ pc' = pc
    BY <1>2, <1>3, <1>9, <1>15 DEF cmd_continue, cmd_step, Resume
  <2>4. UNCHANGED <<sw_breakpoints, last_signal>>
    BY <1>15 DEF cmd_continue, cmd_step, Resume
  <2>5. Target!Resume
    BY <1>3, <1>4, <2>1, <2>2, <2>3, <2>4 DEF Target!Resume, Target!Serving
  <2> QED BY <2>5 DEF Target!Next
<1>16. CASE cmd_kill
  <2>1. Answered' = Target!NoReply /\ Mode' = "gone"
    BY <1>6, <1>16 DEF cmd_kill, Mode
  <2>2. Target!Vanish
    BY <1>3, <1>4, <1>16, <2>1 DEF cmd_kill, Target!Vanish
  <2> QED BY <2>2 DEF Target!Next
<1> QED
  BY <1>10, <1>11, <1>12, <1>13, <1>14, <1>15, <1>16 DEF handle_command

\* The rest of recv_packet: a late Ctrl-C, the end of the stream, or nothing.
LEMMA ReceiveStep ==
  ASSUME Inv, recv_ack \/ recv_short \/ recv_interrupt \/ recv_closed
  PROVE  [Target!Next]_(Target!vars)
<1> USE DEF gdbVars, stubVars
<1>0. toGdb \in Seq(ToGdbItem) /\ OneMark(toGdb)
  BY DEF Inv, TypeInv, PlaceInv
<1>1. CASE recv_ack
  BY <1>1, AnsweredIs DEF recv_ack, Target!vars, Asked, Mode
<1>2. CASE recv_short
  <2>1. /\ Receiving("packet") /\ Consume /\ toGdb' = toGdb \o <<Nack>>
        /\ UNCHANGED <<stub, stubVars, gdbVars>>
    BY <1>2 DEF recv_short, Send
  <2>2. gdb = "ack" /\ Unmarked(toGdb)
    BY <2>1, Handled
  <2>3. Answered = Target!NoReply /\ Answered' = Target!NoReply
    BY <1>0, <2>1, <2>2, AnsweredIs, AnswerGiven, Replies
  <2> QED BY <2>1, <2>3 DEF Target!vars, Asked, Mode
<1>3. CASE recv_interrupt
  <2>1. /\ stub = "recv" /\ toGdb' = toGdb \o <<stop_reply("SIGINT")>>
        /\ last_signal' = "SIGINT" /\ UNCHANGED <<stub, single_step, pc, sw_breakpoints, gdbVars>>
    BY <1>3 DEF recv_interrupt, Receiving, Send
  <2>2. stop_reply("SIGINT") \in Reply
    BY Replies DEF Target!Signal
  <2>3. \/ gdb = "idle"
        \/ gdb = "reply" /\ toGdb # <<>>
        \/ gdb = "ack" /\ ~EndsWithAck(toGdb)
    BY <2>1 DEF Inv, TypeInv, AnswerInv
  <2>4. AnswerIn(gdb, toGdb \o <<stop_reply("SIGINT")>>) = AnswerIn(gdb, toGdb)
    BY <1>0, <2>2, <2>3, AnswerKept
  <2>5. Answered' = Answered
    BY <2>1, <2>4, AnsweredIs
  <2>6. Asked' = Asked /\ Mode = "halted" /\ Mode' = "halted"
    BY <2>1 DEF Asked, Mode
  <2>7. Target!LateInterrupt
    BY <2>1, <2>5, <2>6 DEF Target!LateInterrupt
  <2> QED BY <2>7 DEF Target!Next
<1>4. CASE recv_closed
  <2>1. Asked' = Asked /\ Answered' = Answered /\ Mode = "halted" /\ Mode' = "gone"
    BY <1>4, AnsweredIs DEF recv_closed, Asked, Mode
  <2>2. Target!Vanish
    BY <1>4, <2>1 DEF recv_closed, Target!Vanish
  <2> QED BY <2>2 DEF Target!Next
<1> QED BY <1>1, <1>2, <1>3, <1>4

\* run_with_gdb: an instruction, or a stop that answers the resumption.
LEMMA RunStep ==
  ASSUME Inv, run_with_gdb
  PROVE  Target!Next
<1> USE DEF gdbVars, stubVars
<1>0. /\ stub = "run" /\ toGdb \in Seq(ToGdbItem) /\ OneMark(toGdb)
      /\ (gdb = "reply" /\ toGdb = <<>>) \/ (gdb = "ack" /\ EndsWithAck(toGdb))
  BY DEF Inv, TypeInv, PlaceInv, AnswerInv, run_with_gdb, step_once, break_at_breakpoint,
         break_on_interrupt, run_instruction, Continuing
<1>1. UNCHANGED <<gdb, cmd, sw_breakpoints>>
  BY DEF run_with_gdb, step_once, break_at_breakpoint, break_on_interrupt, run_instruction,
         machine_error, debug_break, Stop
<1>2. Asked' = Asked
  BY <1>1 DEF Asked
<1>3. Mode = IF single_step THEN "stepping" ELSE "running"
  BY <1>0 DEF Mode
<1>4. ASSUME NEW s \in Target!Signal, Stop(s)
      PROVE  /\ Answered' = [t |-> "stop", v |-> s]
             /\ Mode' = "halted" /\ last_signal' = s
  <2>1. stop_reply(s) \in Reply /\ toGdb' = toGdb \o <<stop_reply(s)>>
    BY <1>4, Replies DEF Stop, Send
  <2>2. AnswerIn(gdb, toGdb \o <<stop_reply(s)>>) = stop_reply(s)
    BY <1>0, <2>1, AnswerOfStop
  <2>3. Answered' = stop_reply(s)
    BY <1>1, <2>1, <2>2, AnsweredIs
  <2> QED BY <1>4, <2>3 DEF Stop, Mode, stop_reply
<1>5. ASSUME NEW s \in Target!Signal, Stop(s),
             \/ Mode = "running" /\ (pc \in sw_breakpoints => s = "SIGTRAP") /\ pc' = pc
             \/ Mode = "stepping" /\ s # "SIGINT" /\ pc' = pc
             \/ Mode = "stepping" /\ s = "SIGTRAP" /\ pc' \in Addr
      PROVE  Target!Next
  <2>1. Target!Stop
    BY <1>1, <1>2, <1>4, <1>5 DEF Target!Stop, Target!Say
  <2> QED BY <2>1 DEF Target!Next
<1>6. {"SIGTRAP", "SIGILL", "SIGSEGV"} \subseteq Target!Signal \ {"SIGINT"} /\ "SIGINT" \in Target!Signal
  BY DEF Target!Signal
<1>7. CASE step_once
  <2>1. Mode = "stepping"
    BY <1>3, <1>7 DEF step_once
  <2>2. CASE pc' \in Addr /\ debug_break("SIGTRAP")
    BY <1>5, <1>6, <2>1, <2>2 DEF debug_break
  <2>3. CASE machine_error
    BY <1>5, <1>6, <2>1, <2>3 DEF machine_error
  <2> QED BY <1>7, <2>2, <2>3 DEF step_once
<1>8. CASE break_at_breakpoint
  BY <1>3, <1>5, <1>6, <1>8 DEF break_at_breakpoint, Continuing, debug_break
<1>9. CASE break_on_interrupt
  BY <1>3, <1>5, <1>6, <1>9 DEF break_on_interrupt, Continuing, debug_break, is_breakpoint
<1>10. CASE run_instruction
  <2>1. Mode = "running" /\ pc \notin sw_breakpoints
    BY <1>3, <1>10 DEF run_instruction, Continuing, is_breakpoint
  <2>2. CASE machine_error
    BY <1>5, <1>6, <2>1, <2>2 DEF machine_error
  <2>3. CASE ~machine_error
    <3>1. pc' \in Addr /\ UNCHANGED <<stub, single_step, last_signal, toGdb>>
      BY <1>10, <2>3 DEF run_instruction
    <3>2. Answered' = Answered /\ Mode' = Mode
      BY <1>1, <3>1, AnsweredIs DEF Mode
    <3>3. Target!Run
      BY <1>1, <1>2, <2>1, <3>1, <3>2 DEF Target!Run
    <3> QED BY <3>3 DEF Target!Next
  <2> QED BY <2>2, <2>3
<1> QED BY <1>7, <1>8, <1>9, <1>10 DEF run_with_gdb

\* GDB: Ask, Take, or nothing.
LEMMA GdbStep ==
  ASSUME Inv, gdb_send \/ gdb_interrupt \/ gdb_close \/ gdb_receive
  PROVE  [Target!Next]_(Target!vars)
<1> USE DEF stubVars
<1>0. /\ toGdb \in Seq(ToGdbItem) /\ OneMark(toGdb)
      /\ UNCHANGED <<stub, stubVars>> /\ Mode' = Mode
  BY DEF Inv, TypeInv, PlaceInv, Mode, gdb_send, gdb_interrupt, gdb_close, gdb_receive, gdb_ack,
         gdb_nack, gdb_reply, gdb_stray, Getting
<1>1. CASE gdb_send
  <2>1. gdb = "idle" /\ gdb' = "ack" /\ cmd' \in Command /\ toGdb' = toGdb
    BY <1>1 DEF gdb_send
  <2>2. Unmarked(toGdb)
    BY <2>1 DEF Inv, PlaceInv
  <2>3. Answered = Target!NoReply /\ Answered' = Target!NoReply
    BY <1>0, <2>1, <2>2, AnsweredIs, NoAnswer, AnswerGiven, Replies
  <2>4. Asked = Target!NoCommand /\ Asked' \in Target!Command
    BY <2>1 DEF Asked, Target!NoCommand, Command
  <2>5. Target!Ask
    BY <1>0, <2>3, <2>4 DEF Target!Ask
  <2> QED BY <2>5 DEF Target!Next
<1>2. CASE gdb_interrupt \/ gdb_close
  BY <1>0, <1>2, AnsweredIs DEF gdb_interrupt, gdb_close, Target!vars, Asked
<1>3. CASE gdb_reply
  <2>1. /\ gdb = "reply" /\ gdb' = "idle" /\ toGdb # <<>> /\ Head(toGdb).t \in ReplyKind
    BY <1>3 DEF gdb_reply, Getting
  <2>2. Answered = Head(toGdb) /\ Answered' = Target!NoReply
    BY <2>1, AnsweredIs, FirstAnswer, NoAnswer
  <2>3. Answered # Target!NoReply
    BY <2>1, <2>2 DEF ReplyKind, Target!NoReply
  <2>4. Asked' = Target!NoCommand
    BY <2>1 DEF Asked, Target!NoCommand
  <2>5. Target!Take
    BY <1>0, <2>2, <2>3, <2>4 DEF Target!Take
  <2> QED BY <2>5 DEF Target!Next
<1>4. CASE gdb_ack
  <2>1. gdb = "ack" /\ gdb' = "reply" /\ toGdb # <<>> /\ Head(toGdb).t = "+" /\ toGdb' = Tail(toGdb)
    BY <1>4 DEF gdb_ack, Getting
  <2>2. Answered' = Answered
    BY <1>0, <2>1, AnsweredIs, AnswerAdvances
  <2> QED BY <1>0, <1>4, <2>1, <2>2 DEF Target!vars, Asked, gdb_ack, Getting
<1>5. CASE gdb_nack \/ gdb_stray
  <2>1. /\ gdb \in {"idle", "ack"} /\ gdb' = gdb /\ toGdb # <<>> /\ toGdb' = Tail(toGdb)
        /\ Head(toGdb).t = "-" \/ Head(toGdb).t \in ReplyKind
        /\ cmd' = cmd
    BY <1>5 DEF gdb_nack, gdb_stray, Getting
  <2>2. Head(toGdb).t = "-" \/ ~Mark(Head(toGdb))
    BY <2>1 DEF ReplyKind, Mark
  <2>3. Answered' = Answered
    BY <1>0, <2>1, <2>2, AnsweredIs, AnswerAdvances, NoAnswer
  <2> QED BY <1>0, <2>1, <2>3 DEF Target!vars, Asked
<1> QED BY <1>1, <1>2, <1>3, <1>4, <1>5 DEF gdb_receive

\* gdbstub.py, run_gdbstub, run_with_gdb: seen without the streams, a session
\* is a target that carries out every command once and answers it once.
THEOREM SessionImplementsTarget == Spec => SessionIsTarget
<1>1. Init => Target!Init
  <2> SUFFICES ASSUME Init PROVE Target!Init
    OBVIOUS
  <2>1. Answered = Target!NoReply
    BY AnsweredIs, NoAnswer DEF Init
  <2> QED BY <2>1 DEF Init, Target!Init, Asked, Mode, Target!NoCommand
<1>2. Inv /\ [Next]_vars => [Target!Next]_(Target!vars)
  <2> SUFFICES ASSUME Inv, [Next]_vars PROVE [Target!Next]_(Target!vars)
    OBVIOUS
  <2>1. CASE UNCHANGED vars
    BY <2>1, AnsweredIs DEF vars, stubVars, gdbVars, Target!vars, Asked, Mode
  <2> QED
    BY <2>1, CommandStep, ReceiveStep, RunStep, GdbStep DEF Next, run_gdbstub, recv_packet
<1> QED BY <1>1, <1>2, StreamsInOrder, PTL DEF Spec, SessionIsTarget, Target!Spec
=============================================================================
