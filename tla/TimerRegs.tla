------------------------------ MODULE TimerRegs ------------------------------
(***************************************************************************)
(* The machine timer: mtime and mtimecmp, their two guest interfaces (the  *)
(* CSRs 0x7C0-0x7C3 of cpu.py and the memory-mapped registers of           *)
(* peripherals.py), and the comparison that timer_update makes once per    *)
(* executed instruction.  Taking the interrupt is Hart's business.         *)
(***************************************************************************)
EXTENDS Words

CONSTANTS
  CsrTimer,  \* the guest uses the CSR interface    (--timer=csr)
  MmioTimer, \* the guest uses the memory-mapped one (--timer=mmio)
  TimeWords, \* words the guest writes to the halves of the timer registers
  MaxTime    \* bound: mtime counts up to MaxTime, which stands for any later time

ASSUME TimerAssumption ==
  /\ CsrTimer \in BOOLEAN
  /\ MmioTimer \in BOOLEAN
  /\ TimeWords \subseteq Word
  /\ MaxTime \in Nat

Reg == {"mtime", "mtimecmp"}
Half == {"lo", "hi"}

VARIABLES
  mtime,        \* cpu.mtime
  mtimecmp,     \* cpu.mtimecmp
  csr_half,     \* cpu.csrs[0x7C0..0x7C3], as csr_half[register][half]
  csr_updated,  \* cpu.mtime_lo_updated ..., as the set of halves updated
  mmio_half,    \* MMIOTimer.mtime_lo, mtime_hi
  mmio_updated, \* MMIOTimer.mtime_lo_updated, mtime_hi_updated
  mtip,         \* cpu.mtip: the comparison seen by the last update
  mip           \* bit 7 of CSR 0x344, as a set of bit names

csrTimerVars == <<csr_half, csr_updated>>
mmioTimerVars == <<mmio_half, mmio_updated>>
timerVars == <<mtime, mtimecmp, csrTimerVars, mmioTimerVars, mtip, mip>>

\* mtimecmp stays a 64-bit value whichever half is replaced (MMIOTimer.write32
\* masks the other one); mtime, which timer_update never wraps, is a natural;
\* and no port ever holds both halves of a register, since the second one
\* commits the pair.
TimerTypeOK ==
  /\ mtime \in Nat
  /\ mtimecmp \in 0 .. WordSize * WordSize - 1
  /\ csr_half \in [Reg -> [Half -> Word]]
  /\ csr_updated \in [Reg -> (SUBSET Half) \ {Half}]
  /\ mmio_half \in [Half -> Word]
  /\ mmio_updated \in (SUBSET Half) \ {Half}
  /\ mtip \in BOOLEAN
  /\ mip \in SUBSET {"MTIP"}

TimerInit ==
  /\ mtime = 0
  /\ mtimecmp = Double(WordSize - 1, WordSize - 1)
  /\ csr_half = [r \in Reg |-> [h \in Half |-> IF r = "mtime" THEN 0 ELSE WordSize - 1]]
  /\ csr_updated = [r \in Reg |-> {}]
  /\ mmio_half = [h \in Half |-> 0]
  /\ mmio_updated = {}
  /\ mtip = FALSE
  /\ mip = {}

-----------------------------------------------------------------------------
(* The CSR interface                                                       *)

\* A slip in Completes: the flags of the other register are looked at.
Completes_wrong_flags(r, h) == csr_updated["mtime"] \cup {h} = Half

\* A CSRRW of half h completes the pair.
Completes(r, h) == csr_updated[r] \cup {h} = Half

\* The value of register r once half h of its CSR pair holds w.
CsrPair(r, h, w) ==
  LET half == [csr_half[r] EXCEPT ![h] = w] IN Double(half["hi"], half["lo"])

\* A slip in csrrw_timer: the flags are not reset after the update.
csrrw_timer_flags_kept(r, h, w) ==
  /\ csr_half' = [csr_half EXCEPT ![r][h] = w]
  /\ csr_updated' = [csr_updated EXCEPT ![r] = @ \cup {h}]
  /\ mtime' = IF r = "mtime" /\ Completes(r, h) THEN CsrPair(r, h, w) ELSE mtime
  /\ mtimecmp' = IF r = "mtimecmp" /\ Completes(r, h) THEN CsrPair(r, h, w) ELSE mtimecmp
  /\ mtip' = IF Completes(r, h) THEN mtime' >= mtimecmp' ELSE mtip
  /\ UNCHANGED <<mmioTimerVars, mip>>

\* Another: the register follows every write of one of its halves.
csrrw_timer_at_once(r, h, w) ==
  /\ csr_half' = [csr_half EXCEPT ![r][h] = w]
  /\ mtime' = IF r = "mtime" THEN CsrPair(r, h, w) ELSE mtime
  /\ mtimecmp' = IF r = "mtimecmp" THEN CsrPair(r, h, w) ELSE mtimecmp
  /\ mtip' = (mtime' >= mtimecmp')
  /\ UNCHANGED <<csr_updated, mmioTimerVars, mip>>

\* CSRRW to a timer CSR: the shadow half always changes; the register, and
\* cpu.mtip with it, only when the other half has been written as well.
csrrw_timer(r, h, w) ==
  /\ csr_half' = [csr_half EXCEPT ![r][h] = w]
  /\ \/ /\ ~Completes(r, h)
        /\ csr_updated' = [csr_updated EXCEPT ![r] = @ \cup {h}]
        /\ UNCHANGED <<mtime, mtimecmp, mtip>>
     \/ /\ Completes(r, h)
        /\ csr_updated' = [csr_updated EXCEPT ![r] = {}]
        /\ mtime' = IF r = "mtime" THEN CsrPair(r, h, w) ELSE mtime
        /\ mtimecmp' = IF r = "mtimecmp" THEN CsrPair(r, h, w) ELSE mtimecmp
        /\ mtip' = (mtime' >= mtimecmp')
  /\ UNCHANGED <<mmioTimerVars, mip>>

\* CSRRS / CSRRC to a timer CSR only change the shadow half.
csrrs_timer(r, h, w) ==
  /\ \E x \in Word :
       /\ IsOr(x, csr_half[r][h], w)
       /\ csr_half' = [csr_half EXCEPT ![r][h] = x]
  /\ UNCHANGED <<mtime, mtimecmp, csr_updated, mmioTimerVars, mtip, mip>>

csrrc_timer(r, h, w) ==
  /\ \E x \in Word :
       /\ IsAndNot(x, csr_half[r][h], w)
       /\ csr_half' = [csr_half EXCEPT ![r][h] = x]
  /\ UNCHANGED <<mtime, mtimecmp, csr_updated, mmioTimerVars, mtip, mip>>

CsrTimerAccess ==
  \E r \in Reg, h \in Half, w \in TimeWords :
    csrrw_timer(r, h, w) \/ csrrs_timer(r, h, w) \/ csrrc_timer(r, h, w)

-----------------------------------------------------------------------------
(* The memory-mapped interface                                             *)

\* A store to half h of mtimecmp replaces that half at once.
write32_mtimecmp(h, w) ==
  /\ mtimecmp' = IF h = "lo"
                   THEN mtimecmp - (mtimecmp % WordSize) + w
                   ELSE Double(w, mtimecmp % WordSize)
  /\ UNCHANGED <<mtime, csrTimerVars, mmioTimerVars, mtip, mip>>

\* A store to half h of mtime waits for the other half.
write32_mtime(h, w) ==
  LET half == [mmio_half EXCEPT ![h] = w] IN
  /\ mmio_half' = half
  /\ \/ /\ mmio_updated \cup {h} # Half
        /\ mmio_updated' = mmio_updated \cup {h}
        /\ UNCHANGED mtime
     \/ /\ mmio_updated \cup {h} = Half
        /\ mmio_updated' = {}
        /\ mtime' = Double(half["hi"], half["lo"])
  /\ UNCHANGED <<mtimecmp, csrTimerVars, mtip, mip>>

MmioTimerAccess ==
  \E h \in Half, w \in TimeWords : write32_mtimecmp(h, w) \/ write32_mtime(h, w)

-----------------------------------------------------------------------------
(* timer_update, up to the interrupt check                                 *)

\* The comparison is made with mtime before the increment.
mtip_asserted == mtime >= mtimecmp

\* A slip in timer_tick: MTIP is set but never cleared again.
timer_tick_latched ==
  /\ mtime' = IF mtime < MaxTime THEN mtime + 1 ELSE mtime
  /\ mip' = IF mtip_asserted THEN mip \cup {"MTIP"} ELSE mip
  /\ mtip' = mtip_asserted
  /\ UNCHANGED <<mtimecmp, csrTimerVars, mmioTimerVars>>

\* mip.MTIP is rewritten only when the comparison differs from cpu.mtip.
timer_tick ==
  /\ mtime' = IF mtime < MaxTime THEN mtime + 1 ELSE mtime
  /\ mip' = IF mtip_asserted = mtip THEN mip
            ELSE IF mtip_asserted THEN mip \cup {"MTIP"} ELSE mip \ {"MTIP"}
  /\ mtip' = mtip_asserted
  /\ UNCHANGED <<mtimecmp, csrTimerVars, mmioTimerVars>>

-----------------------------------------------------------------------------
(* The timer by itself: any guest, any order of accesses and updates       *)

\* A CSR instruction on mip may set or clear MTIP as well.
csr_write_mip ==
  /\ mip' \in SUBSET {"MTIP"}
  /\ UNCHANGED <<mtime, mtimecmp, csrTimerVars, mmioTimerVars, mtip>>

TimerNext ==
  \/ CsrTimer /\ CsrTimerAccess
  \/ MmioTimer /\ MmioTimerAccess
  \/ timer_tick
  \/ csr_write_mip

TimerSpec == TimerInit /\ [][TimerNext]_timerVars

-----------------------------------------------------------------------------
(* Properties                                                              *)

\* The halves that wait, as AtomicRegister sees them.
CsrPend(r) == [h \in csr_updated[r] |-> csr_half[r][h]]
MmioPend == [h \in mmio_updated |-> mmio_half[h]]
MtimePend ==
  [p \in {"csr", "mmio"} |-> IF p = "csr" THEN CsrPend("mtime") ELSE MmioPend]
MtimecmpPend == [p \in {"csr"} |-> CsrPend("mtimecmp")]

MtimeRegister == INSTANCE AtomicRegister WITH
  Ports <- {"csr", "mmio"},
  HalfPort <- FALSE,
  Ticks <- TRUE,
  value <- mtime,
  pend  <- MtimePend

MtimecmpRegister == INSTANCE AtomicRegister WITH
  Ports <- {"csr"},
  HalfPort <- MmioTimer,
  Ticks <- FALSE,
  value <- mtimecmp,
  pend  <- MtimecmpPend

\* "Writes to mtime are atomic for the whole 64-bit register and occur when
\* the second word of the register is written to (in any order)"
\* (README.md:372), through the CSRs and through the memory-mapped registers,
\* whatever read-modify-write CSR instructions come in between.
MtimeIsAtomic == MtimeRegister!Spec

\* The same of mtimecmp when it is written through the CSRs: "update mtimecmp
\* (atomic update on 2nd write)" (advanced/freertos/port/trap_handler.S:21).
\* A store to the memory-mapped mtimecmp replaces exactly its own half, and
\* disturbs neither the other half nor a CSR write that is half done; without
\* the memory-mapped interface the register only ever changes as a whole.
MtimecmpIsAtomic == MtimecmpRegister!Spec
=============================================================================
