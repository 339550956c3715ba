---------------------------- MODULE RemoteTarget ----------------------------
(***************************************************************************)
(* What a debugger may expect of a remote target: it asks for one thing at *)
(* a time, each request is carried out once and answered once, and the     *)
(* answer to a resumption comes when the program has stopped.  A program   *)
(* that was continued executes no instruction at a breakpoint.             *)
(***************************************************************************)
CONSTANT Addr   \* addresses of instructions

VARIABLES
  asked,       \* the request in progress, or NoCommand
  answer,      \* its answer while the debugger has not taken it, or NoReply
  mode,        \* "halted", "running", "stepping" or "gone"
  pc,
  breakpoints,
  last         \* signal of the last stop

vars == <<asked, answer, mode, pc, breakpoints, last>>

Signal == {"SIGINT", "SIGILL", "SIGTRAP", "SIGSEGV"}

\* Continue and step take an optional address; "bad" is one that does not parse.
Command ==
  [op : {"c", "s"}, a : Addr \cup {"none", "bad"}]
    \cup [op : {"Z0", "z0", "P"}, a : Addr \cup {"bad"}]
    \cup [op : {"p", "?", "q", "k"}, a : {"none"}]
NoCommand == [op |-> "none", a |-> "none"]

Reply ==
  [t : {"stop"}, v : Signal] \cup [t : {"pc"}, v : Addr]
    \cup [t : {"OK", "E01", "data"}, v : {"none"}]
NoReply == [t |-> "none", v |-> "none"]

Init ==
  /\ asked = NoCommand
  /\ answer = NoReply
  /\ mode = "halted"
  /\ pc \in Addr
  /\ breakpoints = {}
  /\ last = "SIGTRAP"

Ask ==
  /\ asked = NoCommand
  /\ asked' \in Command
  /\ UNCHANGED <<answer, mode, pc, breakpoints, last>>

Take ==
  /\ answer # NoReply
  /\ asked' = NoCommand
  /\ answer' = NoReply
  /\ UNCHANGED <<mode, pc, breakpoints, last>>

\* The halted target takes up the request, which no one has answered yet.
Serving(op) ==
  /\ mode = "halted"
  /\ asked.op = op
  /\ answer = NoReply

Say(t, v) == answer' = [t |-> t, v |-> v]

Refuse ==
  /\ Serving(asked.op) /\ asked.a = "bad"
  /\ Say("E01", "none")
  /\ UNCHANGED <<asked, mode, pc, breakpoints, last>>

Inspect ==
  /\ \/ Serving("p") /\ Say("pc", pc)
     \/ Serving("?") /\ Say("stop", last)
     \/ Serving("q") /\ Say("data", "none")
  /\ UNCHANGED <<asked, mode, pc, breakpoints, last>>

Modify ==
  /\ asked.a \in Addr
  /\ \/ Serving("Z0") /\ breakpoints' = breakpoints \cup {asked.a} /\ UNCHANGED pc
     \/ Serving("z0") /\ breakpoints' = breakpoints \ {asked.a} /\ UNCHANGED pc
     \/ Serving("P") /\ pc' = asked.a /\ UNCHANGED breakpoints
  /\ Say("OK", "none")
  /\ UNCHANGED <<asked, mode, last>>

Resume ==
  /\ \/ Serving("c") /\ mode' = "running"
     \/ Serving("s") /\ mode' = "stepping"
  /\ \/ asked.a \in Addr /\ pc' = asked.a
     \/ asked.a = "none" /\ pc' = pc
  /\ UNCHANGED <<asked, answer, breakpoints, last>>

\* The program executes an instruction and goes on.
Run ==
  /\ mode = "running" /\ pc \notin breakpoints
  /\ pc' \in Addr
  /\ UNCHANGED <<asked, answer, mode, breakpoints, last>>

\* The program stops: at a breakpoint, after a step, on an error or an
\* interruption.
Stop ==
  \E s \in Signal :
    /\ \/ mode = "running" /\ (pc \in breakpoints => s = "SIGTRAP") /\ pc' = pc
       \/ mode = "stepping" /\ s # "SIGINT" /\ pc' = pc
       \/ mode = "stepping" /\ s = "SIGTRAP" /\ pc' \in Addr
    /\ mode' = "halted"
    /\ last' = s
    /\ Say("stop", s)
    /\ UNCHANGED <<asked, breakpoints>>

\* An interruption that finds the program stopped answers nothing.
LateInterrupt ==
  /\ mode = "halted"
  /\ last' = "SIGINT"
  /\ UNCHANGED <<asked, answer, mode, pc, breakpoints>>

\* Killed, or the connection is gone.
Vanish ==
  /\ mode = "halted"
  /\ mode' = "gone"
  /\ UNCHANGED <<asked, answer, pc, breakpoints, last>>

Next ==
  \/ Ask \/ Take
  \/ Refuse \/ Inspect \/ Modify \/ Resume
  \/ Run \/ Stop \/ LateInterrupt
  \/ Vanish

Spec == Init /\ [][Next]_vars
=============================================================================
