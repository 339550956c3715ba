-------------------------------- MODULE Hart --------------------------------
(***************************************************************************)
(* The machine-mode core of the emulator: the execution loops of           *)
(* machine.py and the part of cpu.py that decides where execution goes     *)
(* next -- control transfers, traps, MRET, ECALL and EBREAK, the CSR       *)
(* instructions, and the timer interrupt.                                  *)
(*                                                                         *)
(* The guest program is arbitrary: in every iteration of the loop the      *)
(* instruction at pc may be any instruction with any operands.  One        *)
(* iteration is two steps: an exec_ action executes the instruction and    *)
(* sets next_pc, then retire or timer_interrupt does timer_update and      *)
(* pc := next_pc.  Nothing can come between the two; they are split so     *)
(* that a trap of the instruction and an interrupt of the same iteration   *)
(* can be told apart.                                                      *)
(*                                                                         *)
(* General-purpose registers, memory and mtval are abstracted away: they   *)
(* appear as the choice of operands.  mstatus, mie and mip are the sets of *)
(* those of their bits that the code reads or forces; MPP, which is two    *)
(* bits, is in mstatus when both are set.                                  *)
(***************************************************************************)
EXTENDS TimerRegs

CONSTANTS
  RVC,          \* --rvc: cpu.rvc_enabled, machine.rvc
  Timer,        \* --timer: timer_update is called
  Mmio,         \* some memory-mapped peripheral is present
  Checks,       \* --check-inv, --regs or --trace
  EcallHandler, \* a Python system call handler is installed
  GuestCsrs,    \* the CSRs the guest program writes
  CsrWords,     \* the words it writes to mtvec, mepc and mhartid
  GuestCauses   \* the values it writes to mcause

StatusBits == {"MIE", "MPIE", "MPP"}
Causes ==
  {"misaligned", "illegal", "breakpoint", "amo_misaligned", "ecall", "timer", "other"}
Ops == {"CSRRW", "CSRRS", "CSRRC"}

ASSUME HartAssumption ==
  /\ RVC \in BOOLEAN
  /\ Timer \in BOOLEAN
  /\ Mmio \in BOOLEAN
  /\ Checks \in BOOLEAN
  /\ EcallHandler \in BOOLEAN
  /\ GuestCsrs \subseteq {"mstatus", "mie", "mip", "mtvec", "mepc", "mcause", "mhartid"}
  /\ CsrWords \subseteq Word
  /\ GuestCauses \subseteq Causes

VARIABLES
  phase,   \* "fetch", "executed", "trapped" (executed, with a trap), "terminated"
  pc, next_pc,
  mstatus, mie, mtvec, mepc, mcause,
  mhartid, \* stands for the CSRs of cpu.CSR_RO
  frame    \* history: the trap whose handler has neither returned nor
           \* touched mstatus, mepc or mcause -- where the trapped program
           \* must resume, why, and whether its interrupts were enabled

trapVars == <<mstatus, mepc, mcause>>
csrVars == <<mie, mtvec, mhartid>>
vars == <<timerVars, phase, pc, next_pc, trapVars, csrVars, frame>>

NoFrame == [live |-> FALSE, cause |-> "misaligned", ret |-> 0, mie |-> FALSE]
Frame(why, ret) ==
  [live |-> TRUE, cause |-> why, ret |-> ret, mie |-> "MIE" \in mstatus]

-----------------------------------------------------------------------------
(* Which loop run() selects, and what it decodes                           *)

Loop ==
  CASE Checks                                   -> "run_with_checks"
    [] ~Checks /\ Mmio                          -> "run_mmio"
    [] ~Checks /\ ~Mmio /\ Timer                -> "run_timer"
    [] ~Checks /\ ~Mmio /\ ~Timer /\ RVC        -> "run_fast"
    [] ~Checks /\ ~Mmio /\ ~Timer /\ ~RVC       -> "run_fast_no_rvc"

\* run_with_checks goes through cpu.execute, which honours rvc_enabled; the
\* other loops look at the two low bits of the instruction only.
Decodes16 ==
  \/ Loop \in {"run_mmio", "run_timer", "run_fast"}
  \/ Loop = "run_with_checks" /\ RVC

Sizes == IF Decodes16 THEN {2, 4} ELSE {4}

\* not (addr & cpu.alignment_mask)
Aligned(addr) == addr % (IF RVC THEN 2 ELSE 4) = 0

-----------------------------------------------------------------------------
(* Building blocks of an execute step                                      *)

\* The loop is about to execute the instruction at pc.
Fetching == phase = "fetch"

\* A slip in Advance: the sum is not masked to 32 bits.
Advance_unmasked(size) ==
  /\ Fetching
  /\ size \in Sizes
  /\ next_pc' = pc + size
  /\ phase' = "executed"
  /\ UNCHANGED pc

\* The instruction falls through to the next one.
Advance(size) ==
  /\ Fetching
  /\ size \in Sizes
  /\ next_pc' = (pc + size) % WordSize
  /\ phase' = "executed"
  /\ UNCHANGED pc

\* Slips in TrapStatus: MPIE is set but never cleared; MIE is not cleared.
TrapStatus_mpie_kept(s) == (s \ {"MIE"}) \cup (IF "MIE" \in s THEN {"MPIE"} ELSE {})
TrapStatus_mie_kept(s) == (s \ {"MPIE"}) \cup (IF "MIE" \in s THEN {"MPIE"} ELSE {})

\* MPIE <- MIE, MIE <- 0
TrapStatus(s) == (s \ {"MIE", "MPIE"}) \cup (IF "MIE" \in s THEN {"MPIE"} ELSE {})

\* A slip in MretStatus: interrupts stay off.
MretStatus_no_restore(s) == s \cup {"MPIE"}

\* MIE <- MPIE, MPIE <- 1
MretStatus(s) ==
  (s \ {"MIE"}) \cup {"MPIE"} \cup (IF "MPIE" \in s THEN {"MIE"} ELSE {})

\* The part of trap() that records the trap; epc is pc or next_pc.
record_trap(cause, epc) ==
  /\ mepc' = epc
  /\ mcause' = cause
  /\ mstatus' = TrapStatus(mstatus)

\* An exception leaves the execution loop.
Terminate ==
  /\ Fetching
  /\ phase' = "terminated"
  /\ UNCHANGED <<pc, next_pc>>

\* trap(cause) called while executing the instruction at pc.
trap(cause) ==
  \/ /\ mtvec = 0
     /\ Terminate
     /\ UNCHANGED <<trapVars, frame>>
  \/ /\ mtvec # 0
     /\ Fetching
     /\ record_trap(cause, pc)
     /\ next_pc' = ClearLow2(mtvec)
     /\ phase' = "trapped"
     /\ frame' = Frame(cause, pc)
     /\ UNCHANGED pc

\* A slip in bypassed_trap_return: mstatus is left alone.
bypassed_trap_return_no_mpie(cause) ==
  /\ mepc' = pc
  /\ mcause' = cause
  /\ frame' = NoFrame
  /\ UNCHANGED mstatus

\* mepc, mcause, and MPIE as after a trap and an mret.
bypassed_trap_return(cause) ==
  /\ mepc' = pc
  /\ mcause' = cause
  /\ mstatus' = mstatus \cup {"MPIE"}
  /\ frame' = NoFrame

\* A slip in JumpTo: the target is not checked.
JumpTo_unchecked(target) ==
  /\ Fetching
  /\ next_pc' = target
  /\ phase' = "executed"
  /\ UNCHANGED <<pc, trapVars, frame>>

\* A taken control transfer: checked before next_pc is set.
JumpTo(target) ==
  \/ /\ Aligned(target)
     /\ Fetching
     /\ next_pc' = target
     /\ phase' = "executed"
     /\ UNCHANGED <<pc, trapVars, frame>>
  \/ /\ ~Aligned(target)
     /\ trap("misaligned")

-----------------------------------------------------------------------------
(* Executing one instruction                                               *)

\* Any instruction that touches registers and memory only, and a CSR
\* instruction on a CSR whose writes are ignored (CSR_NOWRITE).
exec_plain(size) ==
  /\ Advance(size)
  /\ UNCHANGED <<timerVars, trapVars, csrVars, frame>>

\* A store into the memory-mapped timer registers.
exec_timer_store(size) ==
  /\ MmioTimer
  /\ Advance(size)
  /\ MmioTimerAccess
  /\ UNCHANGED <<trapVars, csrVars, frame>>

\* A load, store or fetch outside of memory raises MemoryAccessError.
exec_memory_fault ==
  /\ Terminate
  /\ UNCHANGED <<timerVars, trapVars, csrVars, frame>>

\* Unknown opcode, funct3 or funct5, or a compressed instruction that does
\* not expand.
exec_illegal ==
  /\ trap("illegal")
  /\ UNCHANGED <<timerVars, csrVars>>

\* LR, SC or AMO at an address that is not a multiple of four.
exec_AMO_misaligned ==
  /\ trap("amo_misaligned")
  /\ UNCHANGED <<timerVars, csrVars>>

\* JAL and taken branches: pc plus an even offset.
exec_JAL(offset) ==
  /\ offset % 2 = 0
  /\ JumpTo((pc + offset) % WordSize)
  /\ UNCHANGED <<timerVars, csrVars>>

\* JALR: an arbitrary sum with bit 0 cleared.
exec_JALR(sum) ==
  /\ JumpTo(ClearLow1(sum))
  /\ UNCHANGED <<timerVars, csrVars>>

exec_ECALL ==
  /\ \/ /\ mtvec = 0
        /\ EcallHandler
        /\ Advance(4)                       \* handle_ecall() returned
        /\ bypassed_trap_return("ecall")
     \/ /\ mtvec = 0                        \* handle_ecall() raised (exit,
        /\ Terminate                        \* unknown call), or is None
        /\ UNCHANGED <<trapVars, frame>>
     \/ /\ mtvec # 0
        /\ trap("ecall")
  /\ UNCHANGED <<timerVars, csrVars>>

exec_MRET ==
  /\ \/ /\ ~Aligned(mepc)
        /\ trap("misaligned")
     \/ /\ Aligned(mepc)
        /\ Fetching
        /\ next_pc' = mepc
        /\ mstatus' = MretStatus(mstatus)
        /\ phase' = "executed"
        /\ frame' = NoFrame
        /\ UNCHANGED <<pc, mepc, mcause>>
  /\ UNCHANGED <<timerVars, csrVars>>

\* EBREAK; with a7 >= 0xFFFF0000 it is a logging call and falls through,
\* which exec_plain covers.
exec_EBREAK ==
  /\ \/ /\ mtvec = 0
        /\ Terminate
        /\ bypassed_trap_return("breakpoint")
     \/ /\ mtvec # 0
        /\ trap("breakpoint")
  /\ UNCHANGED <<timerVars, csrVars>>

-----------------------------------------------------------------------------
(* CSR instructions.  CSRRS and CSRRC with a zero operand write nothing,   *)
(* which or-ing or masking with nothing expresses.                         *)

FlagResult(op, old, v) ==
  CASE op = "CSRRW" -> v
    [] op = "CSRRS" -> old \cup v
    [] op = "CSRRC" -> old \ v

\* w is the word that op leaves in a CSR that held old.
WordResult(op, old, v, w) ==
  \/ op = "CSRRW" /\ w = v
  \/ op = "CSRRS" /\ IsOr(w, old, v)
  \/ op = "CSRRC" /\ IsAndNot(w, old, v)

\* A slip in csr_mstatus: MPP can be cleared.
csr_mstatus_mpp_writable(op, v) ==
  /\ "mstatus" \in GuestCsrs
  /\ Advance(4)
  /\ mstatus' = FlagResult(op, mstatus, v)
  /\ frame' = IF mstatus' = mstatus THEN frame ELSE NoFrame
  /\ UNCHANGED <<timerVars, mepc, mcause, csrVars>>

\* The MPP field is forced back to 0b11.
csr_mstatus(op, v) ==
  /\ "mstatus" \in GuestCsrs
  /\ Advance(4)
  /\ mstatus' = FlagResult(op, mstatus, v) \cup {"MPP"}
  /\ frame' = IF mstatus' = mstatus THEN frame ELSE NoFrame
  /\ UNCHANGED <<timerVars, mepc, mcause, csrVars>>

csr_mie(op, v) ==
  /\ "mie" \in GuestCsrs
  /\ Advance(4)
  /\ mie' = FlagResult(op, mie, v)
  /\ UNCHANGED <<timerVars, trapVars, mtvec, mhartid, frame>>

csr_mip(op, v) ==
  /\ "mip" \in GuestCsrs
  /\ Advance(4)
  /\ mip' = FlagResult(op, mip, v)
  /\ UNCHANGED <<mtime, mtimecmp, csrTimerVars, mmioTimerVars, mtip>>
  /\ UNCHANGED <<trapVars, csrVars, frame>>

\* Only CSRRW masks the mode bits of mtvec.
csr_mtvec(op, v) ==
  /\ "mtvec" \in GuestCsrs
  /\ Advance(4)
  /\ \E w \in Word :
       /\ WordResult(op, mtvec, v, w)
       /\ mtvec' = IF op = "CSRRW" THEN ClearLow2(w) ELSE w
  /\ UNCHANGED <<timerVars, trapVars, mie, mhartid, frame>>

csr_mepc(op, v) ==
  /\ "mepc" \in GuestCsrs
  /\ Advance(4)
  /\ \E w \in Word : WordResult(op, mepc, v, w) /\ mepc' = w
  /\ frame' = IF mepc' = mepc THEN frame ELSE NoFrame
  /\ UNCHANGED <<timerVars, mstatus, mcause, csrVars>>

csr_mcause(c) ==
  /\ "mcause" \in GuestCsrs
  /\ Advance(4)
  /\ mcause' = c
  /\ frame' = IF mcause' = mcause THEN frame ELSE NoFrame
  /\ UNCHANGED <<timerVars, mstatus, mepc, csrVars>>

\* A CSR of CSR_RO: the trap is recorded, and the instruction then goes on
\* to its write; when no handler is installed the trap raises instead.
csr_read_only(op, v) ==
  /\ "mhartid" \in GuestCsrs
  /\ op = "CSRRW" \/ v # 0
  /\ trap("illegal")
  /\ \/ mtvec = 0 /\ UNCHANGED mhartid
     \/ mtvec # 0 /\ \E w \in Word : WordResult(op, mhartid, v, w) /\ mhartid' = w
  /\ UNCHANGED <<timerVars, mie, mtvec>>

csr_timer ==
  /\ CsrTimer
  /\ Advance(4)
  /\ CsrTimerAccess
  /\ UNCHANGED <<trapVars, csrVars, frame>>

exec_CSR ==
  \/ \E op \in Ops, v \in SUBSET StatusBits : csr_mstatus(op, v)
  \/ \E op \in Ops, v \in SUBSET {"MTIE"} : csr_mie(op, v)
  \/ \E op \in Ops, v \in SUBSET {"MTIP"} : csr_mip(op, v)
  \/ \E op \in Ops, v \in CsrWords :
       csr_mtvec(op, v) \/ csr_mepc(op, v) \/ csr_read_only(op, v)
  \/ \E c \in GuestCauses : csr_mcause(c)
  \/ csr_timer

-----------------------------------------------------------------------------
(* The end of an iteration: timer_update, then pc := next_pc               *)

Executed == phase \in {"executed", "trapped"}

\* A slip in InterruptDue: the check is skipped unless the comparison changed.
InterruptDue_on_edge ==
  Timer /\ mtip_asserted /\ ~mtip /\ "MIE" \in mstatus /\ "MTIE" \in mie

\* timer_update would call trap(0x80000007, sync=False).
InterruptDue ==
  Timer /\ mtip_asserted /\ "MIE" \in mstatus /\ "MTIE" \in mie

retire ==
  /\ Executed
  /\ ~InterruptDue
  /\ IF Timer THEN timer_tick ELSE UNCHANGED timerVars
  /\ pc' = next_pc
  /\ phase' = "fetch"
  /\ UNCHANGED <<next_pc, trapVars, csrVars, frame>>

\* The interrupted program resumes at next_pc, the instruction that the
\* iteration would have led to.
timer_interrupt ==
  /\ Executed
  /\ InterruptDue
  /\ timer_tick
  /\ \/ /\ mtvec = 0
        /\ phase' = "terminated"
        /\ UNCHANGED <<pc, next_pc, trapVars, frame>>
     \/ /\ mtvec # 0
        /\ record_trap("timer", next_pc)
        /\ next_pc' = ClearLow2(mtvec)
        /\ pc' = next_pc'
        /\ phase' = "fetch"
        /\ frame' = Frame("timer", next_pc)
  /\ UNCHANGED csrVars

-----------------------------------------------------------------------------

\* run() refuses a misaligned entry point; mcause is 0 before any trap, the
\* code of a misaligned address.
Init ==
  /\ TimerInit
  /\ phase = "fetch"
  /\ pc \in {a \in Word : Aligned(a)}
  /\ next_pc = 0
  /\ mstatus = {"MPP"}
  /\ mie = {}
  /\ mtvec = 0
  /\ mepc = 0
  /\ mcause = "misaligned"
  /\ mhartid = 0
  /\ frame = NoFrame

exec ==
  \/ \E size \in Sizes : exec_plain(size) \/ exec_timer_store(size)
  \/ exec_memory_fault
  \/ exec_illegal
  \/ exec_AMO_misaligned
  \/ \E w \in Word : exec_JAL(w) \/ exec_JALR(w)
  \/ exec_ECALL
  \/ exec_MRET
  \/ exec_EBREAK
  \/ exec_CSR

Next == exec \/ retire \/ timer_interrupt

Spec == Init /\ [][Next]_vars

\* The loop keeps executing until an exception leaves it.
FairSpec == Spec /\ WF_vars(Next)

-----------------------------------------------------------------------------
(* Properties                                                              *)

\* Every variable keeps its type; in particular the program counters stay
\* 32-bit words through all the arithmetic of the exec_ functions.
TypeOK ==
  /\ TimerTypeOK
  /\ phase \in {"fetch", "executed", "trapped", "terminated"}
  /\ pc \in Word
  /\ next_pc \in Word
  /\ mstatus \in SUBSET StatusBits
  /\ mie \in SUBSET {"MTIE"}
  /\ mtvec \in Word
  /\ mepc \in Word
  /\ mcause \in Causes
  /\ mhartid \in Word
  /\ frame \in [live : BOOLEAN, cause : Causes, ret : Word, mie : BOOLEAN]

\* The instruction fetched next is always aligned as the instruction set in
\* force requires: to 2 bytes with --rvc, to 4 without.  run() checks it for
\* the entry point only; afterwards it rests on the checks of JAL, JALR,
\* the branches and MRET, on trap() masking mtvec, and on which loop decodes
\* 16-bit instructions.
PcAligned == phase = "fetch" => Aligned(pc)

\* Until its handler returns or rewrites them, a trap's resume address stays
\* in mepc and its cause in mcause, the trapped program's interrupt enable
\* stays in MPIE, and interrupts stay off.  trap() saves exactly one level of
\* state, so anything else would lose the trapped program.
TrapStateIntact ==
  frame.live =>
    /\ mepc = frame.ret
    /\ mcause = frame.cause
    /\ "MIE" \notin mstatus
    /\ ("MPIE" \in mstatus) = frame.mie

\* The timer never interrupts between a trap and the end of its handler; in
\* particular not in the iteration whose instruction trapped, where it would
\* overwrite mepc and mcause before the handler ran a single instruction.
HandlerNotPreempted ==
  [][Executed /\ frame.live => frame' = frame]_vars

\* MRET from an undisturbed handler continues the trapped program exactly
\* where trap() left it, with the interrupt enable it had.
MretResumes ==
  [][exec_MRET /\ frame.live =>
       /\ next_pc' = frame.ret
       /\ ("MIE" \in mstatus') = frame.mie]_vars

\* The system calls that the emulator answers itself leave mstatus as a trap
\* followed by an mret would ("Performs the side effects of trap + mret",
\* cpu.py:787), so guest code cannot tell the two apart by its interrupt
\* enable, and the machine-mode-only MPP field survives every path.
BypassActsAsTrapMret ==
  [][exec_ECALL /\ phase' = "executed" =>
       mstatus' = MretStatus(TrapStatus(mstatus))]_vars
MachineModeOnly == "MPP" \in mstatus

\* Between instructions mip.MTIP shows the comparison that the last
\* timer_update made ("Set interrupt pending flag", cpu.py:804).
MtipShown == phase = "fetch" => (("MTIP" \in mip) <=> mtip)

\* Interrupts are enabled and mtimecmp will be reached within the bound.
Armed ==
  /\ phase # "terminated"
  /\ "MIE" \in mstatus
  /\ "MTIE" \in mie
  /\ mtimecmp <= MaxTime

\* An armed timer does not stay armed for ever, unless the guest keeps turning
\* mtime back: timer_update either takes the interrupt, which clears MIE, or
\* the guest disarms the timer.  The check is made on the level of the
\* comparison, so enabling interrupts late does not lose one that is pending.
ArmedTimerFires == <>[][mtime' >= mtime]_vars => []<>~Armed

\* A read-only CSR keeps its value ("read-only CSRs: writes cause a trap",
\* cpu.py:615).
ReadOnlyCsrKept == mhartid = 0
=============================================================================
