----------------------------- MODULE HartProofs -----------------------------
(***************************************************************************)
(* Proofs about the machine timer registers and about the machine-mode     *)
(* core that drives them, for every word size, every bound on mtime, every *)
(* set of words and CSRs the guest writes, and every choice of the         *)
(* features that select the execution loop.                                *)
(***************************************************************************)
EXTENDS Hart, TLAPS

-----------------------------------------------------------------------------
(* Words and double words                                                  *)

\* Clearing low bits keeps a word a word (mtvec and jump targets are masked).
LEMMA ClearLowWord ==
  ASSUME NEW w \in Word
  PROVE  ClearLow1(w) \in Word /\ ClearLow2(w) \in Word
BY WordSizeAssumption DEF Word, ClearLow1, ClearLow2

\* Reduction modulo the word size yields a word (next_pc is masked).
LEMMA ModWord ==
  ASSUME NEW x \in Int
  PROVE  x % WordSize \in Word
BY WordSizeAssumption DEF Word

\* The double word built from two words fits 64 bits (the CSR pair commit).
LEMMA DoubleFits ==
  ASSUME NEW hi \in Word, NEW lo \in Word
  PROVE  Double(hi, lo) \in 0 .. WordSize * WordSize - 1
<1>1. hi * WordSize <= (WordSize - 1) * WordSize
  BY WordSizeAssumption DEF Word
<1>2. (WordSize - 1) * WordSize = WordSize * WordSize - WordSize
  BY WordSizeAssumption
<1>3. hi * WordSize \in Nat /\ WordSize * WordSize \in Nat
  BY WordSizeAssumption DEF Word
<1> QED
  BY <1>1, <1>2, <1>3, WordSizeAssumption DEF Word, Double

\* Replacing the low word of a 64-bit value leaves a 64-bit value with the
\* same high word (MMIOTimer.write32 on the low half of mtimecmp).
LEMMA ReplaceLowFits ==
  ASSUME NEW x \in 0 .. WordSize * WordSize - 1, NEW w \in Word
  PROVE  /\ x - (x % WordSize) + w \in 0 .. WordSize * WordSize - 1
         /\ x - (x % WordSize) + w = Double(x \div WordSize, w)
<1> DEFINE q == x \div WordSize
<1>1. q \in Int /\ x = q * WordSize + (x % WordSize) /\ x % WordSize \in Word
  BY WordSizeAssumption DEF Word
<1>2. q >= 0
  BY WordSizeAssumption DEF Word
<1>3. q <= WordSize - 1
  <2>1. SUFFICES ASSUME q >= WordSize PROVE FALSE
    BY <1>1, WordSizeAssumption
  <2>2. q * WordSize >= WordSize * WordSize
    BY <1>1, <2>1, WordSizeAssumption
  <2> QED BY <1>1, <2>2, WordSizeAssumption DEF Word
<1>4. q \in Word
  BY <1>1, <1>2, <1>3, WordSizeAssumption DEF Word
<1>5. x - (x % WordSize) + w = Double(q, w)
  BY <1>1, WordSizeAssumption DEF Double, Word
<1> QED BY <1>4, <1>5, DoubleFits

-----------------------------------------------------------------------------
(* Type correctness                                                        *)

\* The reset values of CPU.__init__ and MMIOTimer.__init__ are well typed.
LEMMA TimerInitType == TimerInit => TimerTypeOK
<1> SUFFICES ASSUME TimerInit PROVE TimerTypeOK
  OBVIOUS
<1>1. 0 \in Word /\ WordSize - 1 \in Word
  BY WordSizeAssumption DEF Word
<1>2. mtimecmp \in 0 .. WordSize * WordSize - 1
  BY <1>1, DoubleFits DEF TimerInit
<1>3. csr_half \in [Reg -> [Half -> Word]]
  BY <1>1 DEF TimerInit, Reg, Half
<1> QED
  BY <1>1, <1>2, <1>3 DEF TimerInit, TimerTypeOK, Half

\* Putting a word into one half of a CSR pair keeps the pair well formed, and
\* the value it would commit fits 64 bits.
LEMMA CsrPairType ==
  ASSUME TimerTypeOK, NEW r \in Reg, NEW h \in Half, NEW w \in Word
  PROVE  /\ [csr_half EXCEPT ![r][h] = w] \in [Reg -> [Half -> Word]]
         /\ CsrPair(r, h, w) \in 0 .. WordSize * WordSize - 1
<1>1. [csr_half EXCEPT ![r][h] = w] \in [Reg -> [Half -> Word]]
  BY DEF TimerTypeOK
<1>2. [csr_half[r] EXCEPT ![h] = w] \in [Half -> Word]
  BY DEF TimerTypeOK
<1>3. CsrPair(r, h, w) \in 0 .. WordSize * WordSize - 1
  BY <1>2, DoubleFits DEF CsrPair, Half
<1> QED BY <1>1, <1>3

\* A CSRRW of a timer CSR preserves the type of the timer state.
LEMMA CsrrwTimerType ==
  ASSUME TimerTypeOK, NEW r \in Reg, NEW h \in Half, NEW w \in Word,
         csrrw_timer(r, h, w)
  PROVE  TimerTypeOK'
<1>1. csr_half' \in [Reg -> [Half -> Word]]
  BY CsrPairType DEF csrrw_timer
<1>2. csr_updated' \in [Reg -> (SUBSET Half) \ {Half}]
  BY DEF csrrw_timer, Completes, TimerTypeOK, Half
<1>3. mtime' \in Nat /\ mtimecmp' \in 0 .. WordSize * WordSize - 1
  BY CsrPairType, WordSizeAssumption DEF csrrw_timer, TimerTypeOK
<1>4. mtip' \in BOOLEAN
  <2>1. (mtime' >= mtimecmp') \in BOOLEAN
    OBVIOUS
  <2> QED BY <2>1, Zenon DEF csrrw_timer, TimerTypeOK
<1> QED
  BY <1>1, <1>2, <1>3, <1>4 DEF csrrw_timer, TimerTypeOK, mmioTimerVars

\* Every step of the timer preserves the type of its state.
LEMMA TimerStepType == TimerTypeOK /\ [TimerNext]_timerVars => TimerTypeOK'
<1> SUFFICES ASSUME TimerTypeOK, [TimerNext]_timerVars PROVE TimerTypeOK'
  OBVIOUS
<1>1. CASE CsrTimer /\ CsrTimerAccess
  <2> PICK r \in Reg, h \in Half, w \in TimeWords :
        csrrw_timer(r, h, w) \/ csrrs_timer(r, h, w) \/ csrrc_timer(r, h, w)
    BY <1>1 DEF CsrTimerAccess
  <2> w \in Word
    BY TimerAssumption
  <2>1. CASE csrrw_timer(r, h, w)
    BY <2>1, CsrrwTimerType
  <2>2. CASE csrrs_timer(r, h, w)
    BY <2>2, CsrPairType DEF csrrs_timer, TimerTypeOK, mmioTimerVars
  <2>3. CASE csrrc_timer(r, h, w)
    BY <2>3, CsrPairType DEF csrrc_timer, TimerTypeOK, mmioTimerVars
  <2> QED BY <2>1, <2>2, <2>3
<1>2. CASE MmioTimer /\ MmioTimerAccess
  <2> PICK h \in Half, w \in TimeWords : write32_mtimecmp(h, w) \/ write32_mtime(h, w)
    BY <1>2 DEF MmioTimerAccess
  <2> w \in Word
    BY TimerAssumption
  <2>1. CASE write32_mtimecmp(h, w)
    <3>1. mtimecmp % WordSize \in Word
      BY ModWord DEF TimerTypeOK
    <3>2. mtimecmp' \in 0 .. WordSize * WordSize - 1
      BY <2>1, <3>1, ReplaceLowFits, DoubleFits DEF write32_mtimecmp, TimerTypeOK
    <3> QED
      BY <2>1, <3>2 DEF write32_mtimecmp, TimerTypeOK, csrTimerVars, mmioTimerVars
  <2>2. CASE write32_mtime(h, w)
    <3> DEFINE half == [mmio_half EXCEPT ![h] = w]
    <3>1. half \in [Half -> Word]
      BY DEF TimerTypeOK
    <3>2. Double(half["hi"], half["lo"]) \in Nat
      BY <3>1, DoubleFits DEF Half
    <3>3. mtime' \in Nat /\ mmio_half' \in [Half -> Word] /\ mmio_updated' \in (SUBSET Half) \ {Half}
      BY <2>2, <3>1, <3>2 DEF write32_mtime, TimerTypeOK, Half
    <3> QED
      BY <2>2, <3>3 DEF write32_mtime, TimerTypeOK, csrTimerVars
  <2> QED BY <2>1, <2>2
<1>3. CASE timer_tick
  BY <1>3 DEF timer_tick, mtip_asserted, TimerTypeOK, csrTimerVars, mmioTimerVars
<1>4. CASE csr_write_mip
  BY <1>4 DEF csr_write_mip, TimerTypeOK, csrTimerVars, mmioTimerVars
<1>5. CASE UNCHANGED timerVars
  BY <1>5 DEF timerVars, TimerTypeOK, csrTimerVars, mmioTimerVars
<1> QED
  BY <1>1, <1>2, <1>3, <1>4, <1>5 DEF TimerNext

\* The timer state keeps its type: mtimecmp stays a 64-bit value, the shadow
\* halves stay words.
THEOREM TimerTypeCorrect == TimerSpec => []TimerTypeOK
<1>1. TimerInit => TimerTypeOK
  BY TimerInitType
<1>2. TimerTypeOK /\ [TimerNext]_timerVars => TimerTypeOK'
  BY TimerStepType
<1> QED
  BY <1>1, <1>2, PTL DEF TimerSpec

-----------------------------------------------------------------------------
(* The 64-bit registers change as a whole                                  *)

\* What a CSRRW adds to the halves pending at the CSR port of register r.
LEMMA CsrPendWrite ==
  ASSUME TimerTypeOK, NEW r \in Reg, NEW h \in Half, NEW w \in Word,
         csrrw_timer(r, h, w)
  PROVE  LET p == [k \in csr_updated[r] \cup {h} |-> IF k = h THEN w ELSE csr_half[r][k]]
         IN  /\ Completes(r, h) =>
                  /\ CsrPend(r)' = [k \in {} |-> 0]
                  /\ CsrPair(r, h, w) = Double(p["hi"], p["lo"])
             /\ ~Completes(r, h) => CsrPend(r)' = p
<1> DEFINE p == [k \in csr_updated[r] \cup {h} |-> IF k = h THEN w ELSE csr_half[r][k]]
<1>1. ASSUME Completes(r, h)
      PROVE  /\ CsrPend(r)' = [k \in {} |-> 0]
             /\ CsrPair(r, h, w) = Double(p["hi"], p["lo"])
  <2>1. csr_updated'[r] = {}
    BY <1>1 DEF csrrw_timer, TimerTypeOK
  <2>2. p["hi"] = [csr_half[r] EXCEPT ![h] = w]["hi"]
    BY <1>1 DEF Completes, Half, TimerTypeOK
  <2>3. p["lo"] = [csr_half[r] EXCEPT ![h] = w]["lo"]
    BY <1>1 DEF Completes, Half, TimerTypeOK
  <2> QED BY <2>1, <2>2, <2>3 DEF CsrPend, CsrPair
<1>2. ASSUME ~Completes(r, h)
      PROVE  CsrPend(r)' = p
  <2>1. csr_updated'[r] = csr_updated[r] \cup {h}
    BY <1>2 DEF csrrw_timer, TimerTypeOK
  <2>2. csr_half'[r] = [csr_half[r] EXCEPT ![h] = w]
    BY DEF csrrw_timer, TimerTypeOK
  <2>3. \A k \in csr_updated[r] \cup {h} : k \in Half
    BY DEF TimerTypeOK
  <2> QED BY <2>1, <2>2, <2>3 DEF CsrPend, TimerTypeOK
<1> QED BY <1>1, <1>2

\* Writing one register's CSRs leaves the other register's pending halves.
LEMMA CsrPendOther ==
  ASSUME TimerTypeOK, NEW r \in Reg, NEW s \in Reg, s # r,
         NEW h \in Half, NEW w \in Word,
         csrrw_timer(r, h, w)
  PROVE  CsrPend(s)' = CsrPend(s)
<1>1. csr_updated'[s] = csr_updated[s] /\ csr_half'[s] = csr_half[s]
  BY DEF csrrw_timer, TimerTypeOK
<1> QED BY <1>1 DEF CsrPend

\* A CSRRS or CSRRC only replaces a half that is already pending, or nothing.
LEMMA CsrPendModify ==
  ASSUME TimerTypeOK, NEW r \in Reg, NEW h \in Half, NEW x \in Word,
         csr_half' = [csr_half EXCEPT ![r][h] = x],
         csr_updated' = csr_updated
  PROVE  /\ \A s \in Reg \ {r} : CsrPend(s)' = CsrPend(s)
         /\ h \notin csr_updated[r] => CsrPend(r)' = CsrPend(r)
         /\ h \in csr_updated[r] =>
              CsrPend(r)' = [k \in csr_updated[r] \cup {h} |->
                               IF k = h THEN x ELSE csr_half[r][k]]
<1>1. \A s \in Reg \ {r} : csr_half'[s] = csr_half[s]
  BY DEF TimerTypeOK
<1>2. csr_half'[r] = [csr_half[r] EXCEPT ![h] = x]
  BY DEF TimerTypeOK
<1>3. \A k \in csr_updated[r] : k \in Half
  BY DEF TimerTypeOK
<1>4. csr_updated[r] \cup {h} = csr_updated[r] \/ h \notin csr_updated[r]
  OBVIOUS
<1> QED BY <1>1, <1>2, <1>3, <1>4 DEF CsrPend, TimerTypeOK

\* Every step of the timer is a step of the atomic register mtime.
LEMMA MtimeStep ==
  ASSUME TimerTypeOK, TimerNext
  PROVE  [MtimeRegister!Next]_(MtimeRegister!vars)
<1> DEFINE Write(p, h, w) == MtimeRegister!WriteFirst(p, h, w) \/ MtimeRegister!WriteSecond(p, h, w)
<1> USE DEF MtimePend, MtimeRegister!vars
<1>w. ASSUME NEW p \in {"csr", "mmio"}, NEW h \in Half, NEW w \in Word, Write(p, h, w)
      PROVE  MtimeRegister!Next
  BY <1>w DEF MtimeRegister!Next, MtimeRegister!Half, Half, MtimeRegister!Word, Word
<1>1. CASE CsrTimer /\ CsrTimerAccess
  <2> PICK r \in Reg, h \in Half, w \in TimeWords :
        csrrw_timer(r, h, w) \/ csrrs_timer(r, h, w) \/ csrrc_timer(r, h, w)
    BY <1>1 DEF CsrTimerAccess
  <2> w \in Word
    BY TimerAssumption
  <2> DEFINE p(x) == [k \in csr_updated["mtime"] \cup {h} |->
                        IF k = h THEN x ELSE csr_half["mtime"][k]]
  <2>0. ASSUME NEW x \in Word
        PROVE  MtimeRegister!With("csr", h, x) = p(x)
    BY DEF MtimeRegister!With, CsrPend
  <2>1. CASE csrrw_timer(r, h, w)
    <3>1. CASE r = "mtime" /\ Completes(r, h)
      <4>0. csrrw_timer("mtime", h, w) /\ Completes("mtime", h) /\ "mtime" \in Reg
        BY <2>1, <3>1 DEF Reg
      <4>1. CsrPend("mtime")' = [k \in {} |-> 0] /\ mtime' = Double(p(w)["hi"], p(w)["lo"])
        <5>1. /\ CsrPend("mtime")' = [k \in {} |-> 0]
              /\ CsrPair("mtime", h, w) = Double(p(w)["hi"], p(w)["lo"])
          BY <4>0, CsrPendWrite
        <5> QED BY <5>1, <4>0 DEF csrrw_timer
      <4>2. MmioPend' = MmioPend
        BY <2>1 DEF csrrw_timer, mmioTimerVars, MmioPend
      <4>3. DOMAIN p(w) = Half
        BY <3>1 DEF Completes
      <4>4. MtimeRegister!WriteSecond("csr", h, w)
        BY <4>1, <4>2, <4>3, <2>0 DEF MtimeRegister!WriteSecond, MtimeRegister!Half, Half,
                                            MtimeRegister!Double, Double
      <4> QED BY <4>4, <1>w
    <3>2. CASE r = "mtime" /\ ~Completes(r, h)
      <4>1. CsrPend("mtime")' = p(w) /\ mtime' = mtime
        BY <2>1, <3>2, CsrPendWrite DEF csrrw_timer
      <4>2. MmioPend' = MmioPend
        BY <2>1 DEF csrrw_timer, mmioTimerVars, MmioPend
      <4>3. DOMAIN p(w) # Half
        BY <3>2 DEF Completes
      <4>4. MtimeRegister!WriteFirst("csr", h, w)
        BY <4>1, <4>2, <4>3, <2>0 DEF MtimeRegister!WriteFirst, MtimeRegister!Half, Half
      <4> QED BY <4>4, <1>w
    <3>3. CASE r = "mtimecmp"
      <4>1. CsrPend("mtime")' = CsrPend("mtime")
        BY <2>1, <3>3, CsrPendOther DEF Reg
      <4> QED BY <4>1, <2>1, <3>3 DEF csrrw_timer, mmioTimerVars, MmioPend
    <3> QED BY <3>1, <3>2, <3>3 DEF Reg
  <2>2. CASE csrrs_timer(r, h, w) \/ csrrc_timer(r, h, w)
    <3>1. PICK x \in Word : csr_half' = [csr_half EXCEPT ![r][h] = x]
      BY <2>2 DEF csrrs_timer, csrrc_timer
    <3>2. UNCHANGED <<mtime, csr_updated>> /\ MmioPend' = MmioPend
      BY <2>2 DEF csrrs_timer, csrrc_timer, mmioTimerVars, MmioPend
    <3>3. CASE r = "mtime" /\ h \in csr_updated[r]
      <4>0. csr_half' = [csr_half EXCEPT !["mtime"][h] = x] /\ h \in csr_updated["mtime"]
        BY <3>1, <3>3
      <4>1. CsrPend("mtime")' = p(x)
        BY <4>0, <3>2, CsrPendModify DEF Reg
      <4>2. DOMAIN p(x) # Half
        BY <3>3 DEF TimerTypeOK
      <4>3. MtimeRegister!WriteFirst("csr", h, x)
        BY <4>1, <4>2, <3>2, <2>0 DEF MtimeRegister!WriteFirst, MtimeRegister!Half, Half
      <4> QED BY <4>3, <1>w
    <3>4. CASE ~(r = "mtime" /\ h \in csr_updated[r])
      <4>1. CsrPend("mtime")' = CsrPend("mtime")
        BY <3>1, <3>2, <3>4, CsrPendModify DEF Reg
      <4> QED BY <4>1, <3>2
    <3> QED BY <3>3, <3>4
  <2> QED BY <2>1, <2>2
<1>2. CASE MmioTimer /\ MmioTimerAccess
  <2> PICK h \in Half, w \in TimeWords : write32_mtimecmp(h, w) \/ write32_mtime(h, w)
    BY <1>2 DEF MmioTimerAccess
  <2> w \in Word
    BY TimerAssumption
  <2>1. CASE write32_mtimecmp(h, w)
    BY <2>1 DEF write32_mtimecmp, csrTimerVars, mmioTimerVars, CsrPend, MmioPend
  <2>2. CASE write32_mtime(h, w)
    <3> DEFINE p == [k \in mmio_updated \cup {h} |-> IF k = h THEN w ELSE mmio_half[k]]
    <3>1. MtimeRegister!With("mmio", h, w) = p
      BY DEF MtimeRegister!With, MmioPend
    <3>2. CsrPend("mtime")' = CsrPend("mtime")
      BY <2>2 DEF write32_mtime, csrTimerVars, CsrPend
    <3>3. mmio_half' = [mmio_half EXCEPT ![h] = w]
      BY <2>2 DEF write32_mtime
    <3>4. CASE mmio_updated \cup {h} # Half
      <4>1. MmioPend' = p /\ mtime' = mtime
        BY <2>2, <3>3, <3>4 DEF write32_mtime, MmioPend, TimerTypeOK
      <4>2. MtimeRegister!WriteFirst("mmio", h, w)
        BY <4>1, <3>1, <3>2, <3>4 DEF MtimeRegister!WriteFirst, MtimeRegister!Half, Half
      <4> QED BY <4>2, <1>w
    <3>5. CASE mmio_updated \cup {h} = Half
      <4>1. MmioPend' = [k \in {} |-> 0]
        BY <2>2, <3>5 DEF write32_mtime, MmioPend
      <4>2. mtime' = Double(p["hi"], p["lo"])
        BY <2>2, <3>5 DEF write32_mtime, TimerTypeOK, Half
      <4>3. MtimeRegister!WriteSecond("mmio", h, w)
        BY <4>1, <4>2, <3>1, <3>2, <3>5 DEF MtimeRegister!WriteSecond, MtimeRegister!Half, Half,
                                            MtimeRegister!Double, Double
      <4> QED BY <4>3, <1>w
    <3> QED BY <3>4, <3>5
  <2> QED BY <2>1, <2>2
<1>3. CASE timer_tick
  BY <1>3 DEF timer_tick, csrTimerVars, mmioTimerVars, CsrPend, MmioPend,
              MtimeRegister!Next, MtimeRegister!Tick
<1>4. CASE csr_write_mip
  BY <1>4 DEF csr_write_mip, csrTimerVars, mmioTimerVars, CsrPend, MmioPend
<1> QED
  BY <1>1, <1>2, <1>3, <1>4 DEF TimerNext

\* "Writes to mtime are atomic for the whole 64-bit register and occur when the
\* second word of the register is written to (in any order)" (README.md:372):
\* the two guest interfaces together implement one atomic register.
THEOREM MtimeAtomic == TimerSpec => MtimeIsAtomic
<1>1. TimerInit => MtimeRegister!Init
  BY DEF TimerInit, MtimeRegister!Init, MtimePend, CsrPend, MmioPend, Reg
<1>2. TimerTypeOK /\ [TimerNext]_timerVars => [MtimeRegister!Next]_(MtimeRegister!vars)
  <2>1. TimerTypeOK /\ UNCHANGED timerVars => UNCHANGED MtimeRegister!vars
    BY DEF timerVars, csrTimerVars, mmioTimerVars, MtimeRegister!vars, MtimePend,
           CsrPend, MmioPend
  <2> QED BY <2>1, MtimeStep
<1> QED
  BY <1>1, <1>2, TimerTypeCorrect, PTL DEF TimerSpec, MtimeIsAtomic, MtimeRegister!Spec

\* Every step of the timer is a step of the register mtimecmp.
LEMMA MtimecmpStep ==
  ASSUME TimerTypeOK, TimerNext
  PROVE  [MtimecmpRegister!Next]_(MtimecmpRegister!vars)
<1> DEFINE Write(h, w) ==
      MtimecmpRegister!WriteFirst("csr", h, w) \/ MtimecmpRegister!WriteSecond("csr", h, w)
<1> USE DEF MtimecmpPend, MtimecmpRegister!vars
<1>w. ASSUME NEW h \in Half, NEW w \in Word, Write(h, w)
      PROVE  MtimecmpRegister!Next
  BY <1>w DEF MtimecmpRegister!Next, MtimecmpRegister!Half, Half, MtimecmpRegister!Word, Word
<1>1. CASE CsrTimer /\ CsrTimerAccess
  <2> PICK r \in Reg, h \in Half, w \in TimeWords :
        csrrw_timer(r, h, w) \/ csrrs_timer(r, h, w) \/ csrrc_timer(r, h, w)
    BY <1>1 DEF CsrTimerAccess
  <2> w \in Word
    BY TimerAssumption
  <2> DEFINE p(x) == [k \in csr_updated["mtimecmp"] \cup {h} |->
                        IF k = h THEN x ELSE csr_half["mtimecmp"][k]]
  <2>0. ASSUME NEW x \in Word
        PROVE  MtimecmpRegister!With("csr", h, x) = p(x)
    BY DEF MtimecmpRegister!With, CsrPend
  <2>1. CASE csrrw_timer(r, h, w)
    <3>1. CASE r = "mtimecmp"
      <4>0. csrrw_timer("mtimecmp", h, w) /\ "mtimecmp" \in Reg
        BY <2>1, <3>1 DEF Reg
      <4>1. CASE Completes("mtimecmp", h)
        <5>1. /\ CsrPend("mtimecmp")' = [k \in {} |-> 0]
              /\ CsrPair("mtimecmp", h, w) = Double(p(w)["hi"], p(w)["lo"])
          BY <4>0, <4>1, CsrPendWrite
        <5>2. mtimecmp' = Double(p(w)["hi"], p(w)["lo"])
          BY <5>1, <4>0, <4>1 DEF csrrw_timer
        <5>3. DOMAIN p(w) = Half
          BY <4>1 DEF Completes
        <5>4. MtimecmpRegister!WriteSecond("csr", h, w)
          BY <5>1, <5>2, <5>3, <2>0 DEF MtimecmpRegister!WriteSecond, MtimecmpRegister!Half, Half,
                                        MtimecmpRegister!Double, Double
        <5> QED BY <5>4, <1>w
      <4>2. CASE ~Completes("mtimecmp", h)
        <5>1. CsrPend("mtimecmp")' = p(w)
          BY <4>0, <4>2, CsrPendWrite
        <5>2. mtimecmp' = mtimecmp
          BY <4>0, <4>2 DEF csrrw_timer
        <5>3. DOMAIN p(w) # Half
          BY <4>2 DEF Completes
        <5>4. MtimecmpRegister!WriteFirst("csr", h, w)
          BY <5>1, <5>2, <5>3, <2>0 DEF MtimecmpRegister!WriteFirst, MtimecmpRegister!Half, Half
        <5> QED BY <5>4, <1>w
      <4> QED BY <4>1, <4>2
    <3>2. CASE r = "mtime"
      <4>1. CsrPend("mtimecmp")' = CsrPend("mtimecmp")
        BY <2>1, <3>2, CsrPendOther DEF Reg
      <4> QED BY <4>1, <2>1, <3>2 DEF csrrw_timer
    <3> QED BY <3>1, <3>2 DEF Reg
  <2>2. CASE csrrs_timer(r, h, w) \/ csrrc_timer(r, h, w)
    <3>1. PICK x \in Word : csr_half' = [csr_half EXCEPT ![r][h] = x]
      BY <2>2 DEF csrrs_timer, csrrc_timer
    <3>2. UNCHANGED <<mtimecmp, csr_updated>>
      BY <2>2 DEF csrrs_timer, csrrc_timer
    <3>3. CASE r = "mtimecmp" /\ h \in csr_updated[r]
      <4>0. csr_half' = [csr_half EXCEPT !["mtimecmp"][h] = x] /\ h \in csr_updated["mtimecmp"]
        BY <3>1, <3>3
      <4>1. CsrPend("mtimecmp")' = p(x)
        BY <4>0, <3>2, CsrPendModify DEF Reg
      <4>2. DOMAIN p(x) # Half
        BY <3>3 DEF TimerTypeOK
      <4>3. MtimecmpRegister!WriteFirst("csr", h, x)
        BY <4>1, <4>2, <3>2, <2>0 DEF MtimecmpRegister!WriteFirst, MtimecmpRegister!Half, Half
      <4> QED BY <4>3, <1>w
    <3>4. CASE ~(r = "mtimecmp" /\ h \in csr_updated[r])
      <4>1. CsrPend("mtimecmp")' = CsrPend("mtimecmp")
        BY <3>1, <3>2, <3>4, CsrPendModify DEF Reg
      <4> QED BY <4>1, <3>2
    <3> QED BY <3>3, <3>4
  <2> QED BY <2>1, <2>2
<1>2. CASE MmioTimer /\ MmioTimerAccess
  <2> PICK h \in Half, w \in TimeWords : write32_mtimecmp(h, w) \/ write32_mtime(h, w)
    BY <1>2 DEF MmioTimerAccess
  <2> w \in Word
    BY TimerAssumption
  <2>1. CASE write32_mtimecmp(h, w)
    <3>1. mtimecmp - (mtimecmp % WordSize) + w = Double(mtimecmp \div WordSize, w)
      BY ReplaceLowFits DEF TimerTypeOK
    <3>2. MtimecmpPend' = MtimecmpPend
      BY <2>1 DEF write32_mtimecmp, csrTimerVars, CsrPend
    <3>3. MtimecmpRegister!WriteHalf(h, w)
      BY <1>2, <2>1, <3>1, <3>2 DEF write32_mtimecmp, MtimecmpRegister!WriteHalf,
                                    MtimecmpRegister!Double, Double
    <3> QED BY <3>3 DEF MtimecmpRegister!Next, MtimecmpRegister!Half, Half,
                        MtimecmpRegister!Word, Word
  <2>2. CASE write32_mtime(h, w)
    BY <2>2 DEF write32_mtime, csrTimerVars, CsrPend
  <2> QED BY <2>1, <2>2
<1>3. CASE timer_tick
  BY <1>3 DEF timer_tick, csrTimerVars, CsrPend
<1>4. CASE csr_write_mip
  BY <1>4 DEF csr_write_mip, csrTimerVars, CsrPend
<1> QED
  BY <1>1, <1>2, <1>3, <1>4 DEF TimerNext

\* "update mtimecmp (atomic update on 2nd write)" (trap_handler.S:21): through
\* the CSRs mtimecmp changes as a whole, and the only other change is a
\* memory-mapped store, which replaces one half.
THEOREM MtimecmpAtomic == TimerSpec => MtimecmpIsAtomic
<1>1. TimerInit => MtimecmpRegister!Init
  <2> SUFFICES ASSUME TimerInit PROVE MtimecmpRegister!Init
    OBVIOUS
  <2>1. mtimecmp \in Nat
    BY TimerInitType, WordSizeAssumption DEF TimerTypeOK
  <2> QED BY <2>1 DEF TimerInit, MtimecmpRegister!Init, MtimecmpPend, CsrPend, Reg
<1>2. TimerTypeOK /\ [TimerNext]_timerVars => [MtimecmpRegister!Next]_(MtimecmpRegister!vars)
  <2>1. TimerTypeOK /\ UNCHANGED timerVars => UNCHANGED MtimecmpRegister!vars
    BY DEF timerVars, csrTimerVars, MtimecmpRegister!vars, MtimecmpPend, CsrPend
  <2> QED BY <2>1, MtimecmpStep
<1> QED
  BY <1>1, <1>2, TimerTypeCorrect, PTL DEF TimerSpec, MtimecmpIsAtomic, MtimecmpRegister!Spec

-----------------------------------------------------------------------------
(* The machine drives the timer                                            *)

\* Every step of the machine accesses the timer registers through one of the
\* two guest interfaces, makes one timer_update, or leaves the timer alone.
LEMMA StepDrivesTimer ==
  ASSUME TimerTypeOK, [Next]_vars
  PROVE  [TimerNext]_timerVars
<1>1. CASE \E size \in Sizes : exec_plain(size) \/ exec_timer_store(size)
  BY <1>1 DEF exec_plain, exec_timer_store, TimerNext
<1>2. CASE exec_memory_fault \/ exec_illegal \/ exec_AMO_misaligned
  BY <1>2 DEF exec_memory_fault, exec_illegal, exec_AMO_misaligned
<1>3. CASE \E w \in Word : exec_JAL(w) \/ exec_JALR(w)
  BY <1>3 DEF exec_JAL, exec_JALR
<1>4. CASE exec_ECALL \/ exec_MRET \/ exec_EBREAK
  BY <1>4 DEF exec_ECALL, exec_MRET, exec_EBREAK
<1>5. CASE exec_CSR
  <2>1. CASE \E op \in Ops, v \in SUBSET {"MTIP"} : csr_mip(op, v)
    <3> PICK op \in Ops, v \in SUBSET {"MTIP"} : csr_mip(op, v)
      BY <2>1
    <3>1. mip' \in SUBSET {"MTIP"}
      BY DEF csr_mip, FlagResult, Ops, TimerTypeOK
    <3> QED BY <3>1 DEF csr_mip, csr_write_mip, TimerNext
  <2>2. CASE csr_timer
    BY <2>2 DEF csr_timer, TimerNext
  <2>3. CASE ~csr_timer /\ ~\E op \in Ops, v \in SUBSET {"MTIP"} : csr_mip(op, v)
    BY <1>5, <2>3 DEF exec_CSR, csr_mstatus, csr_mie, csr_mtvec, csr_mepc, csr_mcause,
                      csr_read_only
  <2> QED BY <2>1, <2>2, <2>3
<1>6. CASE retire \/ timer_interrupt
  BY <1>6 DEF retire, timer_interrupt, TimerNext
<1>7. CASE UNCHANGED vars
  BY <1>7 DEF vars
<1> QED
  BY <1>1, <1>2, <1>3, <1>4, <1>5, <1>6, <1>7 DEF Next, exec

\* What TimerRegs promises therefore holds of the running machine.
THEOREM HartDrivesTimer == Spec => TimerSpec /\ []TimerTypeOK
<1>1. Init => TimerInit /\ TimerTypeOK
  BY TimerInitType DEF Init
<1>2. TimerTypeOK /\ [Next]_vars => [TimerNext]_timerVars /\ TimerTypeOK'
  BY StepDrivesTimer, TimerStepType
<1> QED
  BY <1>1, <1>2, PTL DEF Spec, TimerSpec

\* The guest sees mtime change as a whole (README.md:372), whatever traps,
\* interrupts and other instructions come between the two halves of a write.
THEOREM MachineMtimeAtomic == Spec => MtimeIsAtomic
BY HartDrivesTimer, MtimeAtomic, PTL

\* Through the CSRs the guest changes mtimecmp as a whole (trap_handler.S:21),
\* an interrupt or a memory-mapped store between the two halves included.
THEOREM MachineMtimecmpAtomic == Spec => MtimecmpIsAtomic
BY HartDrivesTimer, MtimecmpAtomic, PTL

-----------------------------------------------------------------------------
(* Type correctness                                                        *)

FrameSet == [live : BOOLEAN, cause : Causes, ret : Word, mie : BOOLEAN]

\* The variables that a trap may change.
TrapTypeOK ==
  /\ phase \in {"fetch", "executed", "trapped", "terminated"}
  /\ pc \in Word
  /\ next_pc \in Word
  /\ mstatus \in SUBSET StatusBits
  /\ mepc \in Word
  /\ mcause \in Causes
  /\ frame \in FrameSet

\* The frames that trap() and its return leave are well formed.
LEMMA FrameType ==
  /\ NoFrame \in FrameSet
  /\ \A cause \in Causes, ret \in Word : Frame(cause, ret) \in FrameSet
<1>1. NoFrame \in FrameSet
  BY WordSizeAssumption DEF NoFrame, FrameSet, Causes, Word
<1>2. ("MIE" \in mstatus) \in BOOLEAN
  OBVIOUS
<1> QED
  BY <1>1, <1>2 DEF Frame, FrameSet

\* The two shuffles of the interrupt-enable bits stay within mstatus.
LEMMA StatusType ==
  ASSUME NEW s \in SUBSET StatusBits
  PROVE  TrapStatus(s) \in SUBSET StatusBits /\ MretStatus(s) \in SUBSET StatusBits
BY DEF TrapStatus, MretStatus, StatusBits

\* trap() keeps its variables well typed.
LEMMA TrapType ==
  ASSUME TypeOK, NEW cause \in Causes, trap(cause)
  PROVE  TrapTypeOK'
<1>1. CASE mtvec = 0
  BY <1>1 DEF trap, Terminate, trapVars, TypeOK, TrapTypeOK, FrameSet
<1>2. CASE mtvec # 0
  <2>1. next_pc' \in Word
    BY <1>2, ClearLowWord DEF trap, TypeOK
  <2>2. mstatus' \in SUBSET StatusBits /\ mepc' \in Word /\ mcause' \in Causes
    BY <1>2, StatusType DEF trap, record_trap, TypeOK
  <2>3. frame' \in FrameSet
    BY <1>2, FrameType DEF trap, TypeOK
  <2> QED BY <1>2, <2>1, <2>2, <2>3 DEF trap, TypeOK, TrapTypeOK
<1> QED BY <1>1, <1>2

\* So does bypassed_trap_return.
LEMMA BypassType ==
  ASSUME TypeOK, NEW cause \in Causes, bypassed_trap_return(cause)
  PROVE  /\ mstatus' \in SUBSET StatusBits
         /\ mepc' \in Word
         /\ mcause' \in Causes
         /\ frame' \in FrameSet
BY FrameType DEF bypassed_trap_return, TypeOK, StatusBits

\* Falling through keeps the program counters words.
LEMMA AdvanceType ==
  ASSUME TypeOK, NEW size, Advance(size)
  PROVE  /\ phase' \in {"fetch", "executed", "trapped", "terminated"}
         /\ pc' \in Word
         /\ next_pc' \in Word
BY ModWord DEF Advance, TypeOK, Sizes, Word

\* A jump keeps its variables well typed.
LEMMA JumpType ==
  ASSUME TypeOK, NEW target \in Word, JumpTo(target)
  PROVE  TrapTypeOK'
<1>1. CASE Aligned(target)
  BY <1>1 DEF JumpTo, trapVars, TypeOK, TrapTypeOK, FrameSet
<1>2. CASE ~Aligned(target)
  BY <1>2, TrapType DEF JumpTo, Causes
<1> QED BY <1>1, <1>2

\* Every CSR instruction keeps the state well typed, the timer apart.
LEMMA CsrType ==
  ASSUME TypeOK, exec_CSR
  PROVE  TrapTypeOK' /\ mie' \in SUBSET {"MTIE"} /\ mtvec' \in Word /\ mhartid' \in Word
<1> USE DEF TrapTypeOK
<1>1. CASE \E op \in Ops, v \in SUBSET StatusBits : csr_mstatus(op, v)
  <2> PICK op \in Ops, v \in SUBSET StatusBits : csr_mstatus(op, v)
    BY <1>1
  <2>1. mstatus' \in SUBSET StatusBits
    BY DEF csr_mstatus, FlagResult, Ops, TypeOK, StatusBits
  <2>2. frame' \in FrameSet
    BY FrameType DEF csr_mstatus, TypeOK, FrameSet
  <2> QED BY <2>1, <2>2, AdvanceType DEF csr_mstatus, csrVars, TypeOK
<1>2. CASE \E op \in Ops, v \in SUBSET {"MTIE"} : csr_mie(op, v)
  <2> PICK op \in Ops, v \in SUBSET {"MTIE"} : csr_mie(op, v)
    BY <1>2
  <2>1. mie' \in SUBSET {"MTIE"}
    BY DEF csr_mie, FlagResult, Ops, TypeOK
  <2> QED BY <2>1, AdvanceType DEF csr_mie, trapVars, TypeOK, FrameSet
<1>3. CASE \E op \in Ops, v \in SUBSET {"MTIP"} : csr_mip(op, v)
  BY <1>3, AdvanceType DEF csr_mip, trapVars, csrVars, TypeOK, FrameSet
<1>4. CASE \E op \in Ops, v \in CsrWords : csr_mtvec(op, v)
  <2> PICK op \in Ops, v \in CsrWords : csr_mtvec(op, v)
    BY <1>4
  <2>1. mtvec' \in Word
    BY ClearLowWord DEF csr_mtvec
  <2> QED BY <2>1, AdvanceType DEF csr_mtvec, trapVars, TypeOK, FrameSet
<1>5. CASE \E op \in Ops, v \in CsrWords : csr_mepc(op, v)
  <2> PICK op \in Ops, v \in CsrWords : csr_mepc(op, v)
    BY <1>5
  <2>1. mepc' \in Word /\ frame' \in FrameSet
    BY FrameType DEF csr_mepc, TypeOK, FrameSet
  <2> QED BY <2>1, AdvanceType DEF csr_mepc, csrVars, TypeOK
<1>6. CASE \E op \in Ops, v \in CsrWords : csr_read_only(op, v)
  <2> PICK op \in Ops, v \in CsrWords : csr_read_only(op, v)
    BY <1>6
  <2>1. TrapTypeOK'
    BY TrapType DEF csr_read_only, Causes
  <2>2. mhartid' \in Word
    BY DEF csr_read_only, TypeOK
  <2> QED BY <2>1, <2>2 DEF csr_read_only, TypeOK
<1>7. CASE \E c \in GuestCauses : csr_mcause(c)
  <2> PICK c \in GuestCauses : csr_mcause(c)
    BY <1>7
  <2>1. mcause' \in Causes /\ frame' \in FrameSet
    BY FrameType, HartAssumption DEF csr_mcause, TypeOK, FrameSet
  <2> QED BY <2>1, AdvanceType DEF csr_mcause, csrVars, TypeOK
<1>8. CASE csr_timer
  BY <1>8, AdvanceType DEF csr_timer, trapVars, csrVars, TypeOK, FrameSet
<1> QED
  BY <1>1, <1>2, <1>3, <1>4, <1>5, <1>6, <1>7, <1>8 DEF exec_CSR

\* Every step of the machine preserves the type of its state.
LEMMA StepType == TypeOK /\ [Next]_vars => TypeOK'
<1> SUFFICES ASSUME TypeOK, [Next]_vars PROVE TypeOK'
  OBVIOUS
<1>0. TimerTypeOK'
  BY StepDrivesTimer, TimerStepType DEF TypeOK
<1> SUFFICES TrapTypeOK' /\ mie' \in SUBSET {"MTIE"} /\ mtvec' \in Word /\ mhartid' \in Word
  BY <1>0 DEF TypeOK, TrapTypeOK, FrameSet
<1> USE DEF TrapTypeOK
<1>1. CASE \E size \in Sizes : exec_plain(size) \/ exec_timer_store(size)
  BY <1>1, AdvanceType DEF exec_plain, exec_timer_store, trapVars, csrVars, TypeOK, FrameSet
<1>2. CASE exec_memory_fault
  BY <1>2 DEF exec_memory_fault, Terminate, trapVars, csrVars, TypeOK, FrameSet
<1>3. CASE exec_illegal \/ exec_AMO_misaligned
  <2>1. TrapTypeOK'
    BY <1>3, TrapType DEF exec_illegal, exec_AMO_misaligned, Causes
  <2> QED BY <1>3, <2>1 DEF exec_illegal, exec_AMO_misaligned, csrVars, TypeOK
<1>4. CASE \E w \in Word : exec_JAL(w) \/ exec_JALR(w)
  <2> PICK w \in Word : exec_JAL(w) \/ exec_JALR(w)
    BY <1>4
  <2>1. (pc + w) % WordSize \in Word /\ ClearLow1(w) \in Word
    BY ModWord, ClearLowWord DEF TypeOK, Word
  <2>2. TrapTypeOK'
    BY <2>1, JumpType DEF exec_JAL, exec_JALR
  <2> QED BY <2>2 DEF exec_JAL, exec_JALR, csrVars, TypeOK
<1>5. CASE exec_ECALL
  <2>1. "ecall" \in Causes
    BY DEF Causes
  <2>2. TrapTypeOK'
    <3>1. CASE Advance(4) /\ bypassed_trap_return("ecall")
      BY <3>1, <2>1, BypassType, AdvanceType
    <3>2. CASE Terminate /\ UNCHANGED <<trapVars, frame>>
      BY <3>2 DEF Terminate, trapVars, TypeOK, FrameSet
    <3>3. CASE trap("ecall")
      BY <3>3, <2>1, TrapType
    <3> QED BY <1>5, <3>1, <3>2, <3>3 DEF exec_ECALL
  <2> QED BY <1>5, <2>2 DEF exec_ECALL, csrVars, TypeOK
<1>6. CASE exec_MRET
  <2>1. CASE ~Aligned(mepc)
    <3>1. TrapTypeOK'
      BY <1>6, <2>1, TrapType DEF exec_MRET, Causes
    <3> QED BY <1>6, <3>1 DEF exec_MRET, csrVars, TypeOK
  <2>2. CASE Aligned(mepc)
    BY <1>6, <2>2, StatusType, FrameType DEF exec_MRET, csrVars, TypeOK
  <2> QED BY <2>1, <2>2
<1>7. CASE exec_EBREAK
  <2>1. "breakpoint" \in Causes
    BY DEF Causes
  <2>2. TrapTypeOK'
    BY <1>7, <2>1, TrapType, BypassType DEF exec_EBREAK, Terminate, TypeOK
  <2> QED BY <1>7, <2>2 DEF exec_EBREAK, csrVars, TypeOK
<1>8. CASE exec_CSR
  BY <1>8, CsrType
<1>9. CASE retire
  BY <1>9 DEF retire, trapVars, csrVars, TypeOK, FrameSet
<1>10. CASE timer_interrupt
  <2>1. CASE mtvec = 0
    BY <1>10, <2>1 DEF timer_interrupt, trapVars, csrVars, TypeOK, FrameSet
  <2>2. CASE mtvec # 0
    <3>1. next_pc' \in Word /\ pc' \in Word
      BY <1>10, <2>2, ClearLowWord DEF timer_interrupt, TypeOK
    <3>2. mstatus' \in SUBSET StatusBits /\ mepc' \in Word /\ mcause' \in Causes
      BY <1>10, <2>2, StatusType DEF timer_interrupt, record_trap, TypeOK, Causes
    <3>3. frame' \in FrameSet
      BY <1>10, <2>2, FrameType DEF timer_interrupt, TypeOK, Causes
    <3> QED BY <1>10, <2>2, <3>1, <3>2, <3>3 DEF timer_interrupt, csrVars, TypeOK
  <2> QED BY <2>1, <2>2
<1>11. CASE UNCHANGED vars
  BY <1>11 DEF vars, trapVars, csrVars, TypeOK, FrameSet
<1> QED
  BY <1>1, <1>2, <1>3, <1>4, <1>5, <1>6, <1>7, <1>8, <1>9, <1>10, <1>11 DEF Next, exec

\* The initial state is well typed.
LEMMA InitType == Init => TypeOK
<1> SUFFICES ASSUME Init PROVE TypeOK
  OBVIOUS
<1>1. TimerTypeOK
  BY TimerInitType DEF Init
<1>2. 0 \in Word
  BY WordSizeAssumption DEF Word
<1>3. frame \in FrameSet
  BY FrameType DEF Init
<1> QED
  BY <1>1, <1>2, <1>3 DEF Init, TypeOK, FrameSet, StatusBits, Causes

\* Type correctness of the whole machine: pc, next_pc, mepc and mtvec stay
\* 32-bit words and mtimecmp a 64-bit one through all of the code's arithmetic.
THEOREM TypeCorrect == Spec => []TypeOK
BY InitType, StepType, PTL DEF Spec

-----------------------------------------------------------------------------
(* The state saved by a trap                                               *)

\* Turning the interrupt enable off and saving it in MPIE, as trap() does.
LEMMA TrapStatusBits ==
  ASSUME NEW s
  PROVE  /\ "MIE" \notin TrapStatus(s)
         /\ "MPIE" \in TrapStatus(s) <=> "MIE" \in s
         /\ "MPP" \in TrapStatus(s) <=> "MPP" \in s
BY DEF TrapStatus

\* trap() establishes the frame it records.
LEMMA TrapEstablishes ==
  ASSUME TypeOK, TrapStateIntact, NEW cause, trap(cause)
  PROVE  TrapStateIntact'
<1>1. CASE mtvec = 0
  BY <1>1 DEF trap, trapVars, TrapStateIntact
<1>2. CASE mtvec # 0
  BY <1>2, TrapStatusBits DEF trap, record_trap, Frame, TrapStateIntact
<1> QED BY <1>1, <1>2

\* A step that leaves mstatus, mepc, mcause and the frame alone keeps it.
LEMMA FrameUntouched ==
  ASSUME TrapStateIntact, UNCHANGED <<trapVars, frame>>
  PROVE  TrapStateIntact'
BY DEF trapVars, TrapStateIntact

\* A step that ends the frame keeps the invariant vacuously.
LEMMA FrameEnds ==
  ASSUME frame' = NoFrame
  PROVE  TrapStateIntact' /\ ~frame'.live
BY DEF NoFrame, TrapStateIntact

\* Every step keeps what an open trap has saved.
LEMMA StepTrapState == TypeOK /\ TrapStateIntact /\ [Next]_vars => TrapStateIntact'
<1> SUFFICES ASSUME TypeOK, TrapStateIntact, [Next]_vars PROVE TrapStateIntact'
  OBVIOUS
<1>1. CASE \E size \in Sizes : exec_plain(size) \/ exec_timer_store(size)
  BY <1>1, FrameUntouched DEF exec_plain, exec_timer_store
<1>2. CASE exec_memory_fault
  BY <1>2, FrameUntouched DEF exec_memory_fault
<1>3. CASE exec_illegal \/ exec_AMO_misaligned
  BY <1>3, TrapEstablishes DEF exec_illegal, exec_AMO_misaligned
<1>4. CASE \E w \in Word : exec_JAL(w) \/ exec_JALR(w)
  BY <1>4, TrapEstablishes, FrameUntouched DEF exec_JAL, exec_JALR, JumpTo
<1>5. CASE exec_ECALL
  BY <1>5, TrapEstablishes, FrameUntouched, FrameEnds DEF exec_ECALL, bypassed_trap_return
<1>6. CASE exec_MRET
  BY <1>6, TrapEstablishes, FrameEnds DEF exec_MRET
<1>7. CASE exec_EBREAK
  BY <1>7, TrapEstablishes, FrameEnds DEF exec_EBREAK, bypassed_trap_return
<1>8. CASE exec_CSR
  <2>1. CASE \E op \in Ops, v \in SUBSET StatusBits : csr_mstatus(op, v)
    BY <2>1, FrameUntouched, FrameEnds DEF csr_mstatus, trapVars
  <2>2. CASE \E op \in Ops, v \in SUBSET {"MTIE"} : csr_mie(op, v)
    BY <2>2, FrameUntouched DEF csr_mie
  <2>3. CASE \E op \in Ops, v \in SUBSET {"MTIP"} : csr_mip(op, v)
    BY <2>3, FrameUntouched DEF csr_mip
  <2>4. CASE \E op \in Ops, v \in CsrWords : csr_mtvec(op, v)
    BY <2>4, FrameUntouched DEF csr_mtvec
  <2>5. CASE \E op \in Ops, v \in CsrWords : csr_mepc(op, v)
    BY <2>5, FrameUntouched, FrameEnds DEF csr_mepc, trapVars
  <2>6. CASE \E op \in Ops, v \in CsrWords : csr_read_only(op, v)
    BY <2>6, TrapEstablishes DEF csr_read_only
  <2>7. CASE \E c \in GuestCauses : csr_mcause(c)
    BY <2>7, FrameUntouched, FrameEnds DEF csr_mcause, trapVars
  <2>8. CASE csr_timer
    BY <2>8, FrameUntouched DEF csr_timer
  <2> QED
    BY <1>8, <2>1, <2>2, <2>3, <2>4, <2>5, <2>6, <2>7, <2>8 DEF exec_CSR
<1>9. CASE retire
  BY <1>9, FrameUntouched DEF retire
<1>10. CASE timer_interrupt
  <2>1. CASE mtvec = 0
    BY <1>10, <2>1, FrameUntouched DEF timer_interrupt
  <2>2. CASE mtvec # 0
    BY <1>10, <2>2, TrapStatusBits DEF timer_interrupt, record_trap, Frame, TrapStateIntact
  <2> QED BY <2>1, <2>2
<1>11. CASE UNCHANGED vars
  BY <1>11, FrameUntouched DEF vars
<1> QED
  BY <1>1, <1>2, <1>3, <1>4, <1>5, <1>6, <1>7, <1>8, <1>9, <1>10, <1>11 DEF Next, exec

\* Until its handler returns or rewrites them, mepc, mcause and MPIE hold what
\* trap() saved, and interrupts stay off.
THEOREM TrapStateKept == Spec => []TrapStateIntact
<1>1. Init => TrapStateIntact
  BY DEF Init, NoFrame, TrapStateIntact
<1> QED
  BY <1>1, StepTrapState, TypeCorrect, PTL DEF Spec

\* The timer interrupt never comes between a trap and the end of its handler,
\* the iteration whose instruction trapped included: timer_update finds MIE off.
THEOREM HandlerRunsAlone == Spec => HandlerNotPreempted
<1>1. TrapStateIntact /\ [Next]_vars => [Executed /\ frame.live => frame' = frame]_vars
  <2> SUFFICES ASSUME TrapStateIntact, Next, Executed, frame.live PROVE frame' = frame
    OBVIOUS
  <2>1. ~Fetching
    BY DEF Executed, Fetching
  <2>2. ~InterruptDue
    BY DEF TrapStateIntact, InterruptDue
  <2>3. ~exec
    BY <2>1 DEF exec, exec_plain, exec_timer_store, exec_memory_fault, exec_illegal,
       exec_AMO_misaligned, exec_JAL, exec_JALR, exec_ECALL, exec_MRET, exec_EBREAK, exec_CSR,
       csr_mstatus, csr_mie, csr_mip, csr_mtvec, csr_mepc, csr_mcause, csr_read_only,
       csr_timer, JumpTo, trap, Terminate, Advance
  <2> QED BY <2>2, <2>3 DEF Next, retire, timer_interrupt
<1> QED
  BY <1>1, TrapStateKept, PTL DEF Spec, HandlerNotPreempted

-----------------------------------------------------------------------------
(* Alignment of the program counter                                        *)

\* The loop in use decodes 16-bit instructions only when RVC is enabled.
DecodesAsConfigured == Decodes16 => RVC

\* Multiplying by the word size preserves order.
LEMMA MulMonotonic ==
  ASSUME NEW m \in Int, NEW n \in Int, m <= n
  PROVE  m * WordSize <= n * WordSize
<1>1. n - m \in Nat /\ n = m + (n - m)
  OBVIOUS
<1>2. (n - m) * WordSize >= 0
  BY <1>1, WordSizeAssumption
<1>3. n * WordSize = m * WordSize + (n - m) * WordSize
  BY WordSizeAssumption
<1> QED
  BY <1>2, <1>3, WordSizeAssumption

\* Adding an instruction's size wraps at most once.
LEMMA WrapOnce ==
  ASSUME NEW a \in Word, NEW size \in {2, 4}
  PROVE  \/ (a + size) % WordSize = a + size
         \/ (a + size) % WordSize = (a + size) - WordSize
<1> DEFINE x == a + size
           q == x \div WordSize
<1>1. q \in Int /\ x = q * WordSize + (x % WordSize) /\ x % WordSize \in 0 .. WordSize - 1
  BY WordSizeAssumption DEF Word
<1>2. WordSize >= 4 /\ x >= 0 /\ x < 2 * WordSize
  BY WordSizeAssumption DEF Word
<1> HIDE DEF q
<1>3. q <= 1
  <2>1. SUFFICES ASSUME q >= 2 PROVE FALSE
    BY <1>1
  <2>2. 2 * WordSize <= q * WordSize
    BY <1>1, <2>1, MulMonotonic
  <2> QED BY <1>1, <1>2, <2>2, WordSizeAssumption
<1>4. q >= 0
  <2>1. SUFFICES ASSUME q <= -1 PROVE FALSE
    BY <1>1
  <2>2. q * WordSize <= (-1) * WordSize
    BY <1>1, <2>1, MulMonotonic
  <2> QED BY <1>1, <1>2, <2>2, WordSizeAssumption
<1>5. q = 0 \/ q = 1
  BY <1>1, <1>3, <1>4
<1>6. CASE q = 0
  BY <1>1, <1>6, WordSizeAssumption
<1>7. CASE q = 1
  <2>1. q * WordSize = WordSize
    BY <1>7, WordSizeAssumption
  <2>2. x % WordSize = x - WordSize
    BY <1>1, <2>1, WordSizeAssumption
  <2> QED BY <2>2
<1> QED BY <1>5, <1>6, <1>7

\* Falling through from an aligned address leads to an aligned address.
LEMMA AdvanceAligned ==
  ASSUME DecodesAsConfigured, NEW a \in Word, NEW size \in Sizes, Aligned(a)
  PROVE  Aligned((a + size) % WordSize)
<1>1. size \in {2, 4} /\ (~RVC => size = 4)
  BY DEF Sizes, DecodesAsConfigured
<1>2. CASE (a + size) % WordSize = a + size
  BY <1>1, <1>2 DEF Aligned, Word
<1>3. CASE (a + size) % WordSize = (a + size) - WordSize
  BY <1>1, <1>3, WordSizeAssumption DEF Aligned, Word
<1> QED BY <1>1, <1>2, <1>3, WrapOnce

\* A masked trap vector is aligned either way.
LEMMA VectorAligned ==
  ASSUME NEW w \in Word
  PROVE  Aligned(ClearLow2(w))
BY WordSizeAssumption DEF Aligned, ClearLow2, Word

\* The inductive invariant: whatever becomes pc, or is to be resumed, is
\* aligned.
AlignInv ==
  /\ PcAligned
  /\ Executed => Aligned(next_pc)
  /\ frame.live => Aligned(frame.ret)

\* trap() records an aligned pc and leads to an aligned vector.
LEMMA TrapAligned ==
  ASSUME TypeOK, AlignInv, NEW cause, trap(cause)
  PROVE  AlignInv'
<1>1. CASE mtvec = 0
  BY <1>1 DEF trap, Terminate, Fetching, AlignInv, PcAligned, Executed, Aligned
<1>2. CASE mtvec # 0
  <2>1. Aligned(ClearLow2(mtvec))
    BY VectorAligned DEF TypeOK
  <2>2. Aligned(pc)
    BY <1>2 DEF trap, Fetching, AlignInv, PcAligned
  <2>3. phase' = "trapped" /\ next_pc' = ClearLow2(mtvec) /\ frame'.ret = pc
    BY <1>2 DEF trap, Frame
  <2> QED BY <2>1, <2>2, <2>3 DEF AlignInv, PcAligned, Executed, Aligned
<1> QED BY <1>1, <1>2

\* An instruction that falls through and keeps or ends the frame.
LEMMA FallThroughAligned ==
  ASSUME TypeOK, AlignInv, DecodesAsConfigured, NEW size, Advance(size),
         frame' = frame \/ frame' = NoFrame
  PROVE  AlignInv'
<1>1. size \in Sizes /\ Aligned(pc) /\ pc \in Word
  BY DEF Advance, Fetching, AlignInv, PcAligned, TypeOK
<1>2. Aligned((pc + size) % WordSize)
  BY <1>1, AdvanceAligned
<1> QED BY <1>1, <1>2 DEF Advance, AlignInv, PcAligned, Executed, Aligned, NoFrame

\* A taken jump, which is checked.
LEMMA JumpAligned ==
  ASSUME TypeOK, AlignInv, NEW target, JumpTo(target)
  PROVE  AlignInv'
<1>1. CASE Aligned(target)
  BY <1>1 DEF JumpTo, AlignInv, PcAligned, Executed, Aligned
<1>2. CASE ~Aligned(target)
  BY <1>2, TrapAligned DEF JumpTo
<1> QED BY <1>1, <1>2

\* Leaving the loop fetches nothing more.
LEMMA TerminateAligned ==
  ASSUME AlignInv, phase' = "terminated", frame' = frame \/ frame' = NoFrame
  PROVE  AlignInv'
BY DEF AlignInv, PcAligned, Executed, Aligned, NoFrame

\* Every step keeps the program counters aligned.
LEMMA StepAligned ==
  ASSUME DecodesAsConfigured, TypeOK, AlignInv, [Next]_vars
  PROVE  AlignInv'
<1>1. CASE \E size \in Sizes : exec_plain(size) \/ exec_timer_store(size)
  BY <1>1, FallThroughAligned DEF exec_plain, exec_timer_store
<1>2. CASE exec_memory_fault
  BY <1>2, TerminateAligned DEF exec_memory_fault, Terminate
<1>3. CASE exec_illegal \/ exec_AMO_misaligned
  BY <1>3, TrapAligned DEF exec_illegal, exec_AMO_misaligned
<1>4. CASE \E w \in Word : exec_JAL(w) \/ exec_JALR(w)
  BY <1>4, JumpAligned DEF exec_JAL, exec_JALR
<1>5. CASE exec_ECALL
  BY <1>5, TrapAligned, FallThroughAligned, TerminateAligned
     DEF exec_ECALL, bypassed_trap_return, Terminate
<1>6. CASE exec_MRET
  <2>1. CASE ~Aligned(mepc)
    BY <1>6, <2>1, TrapAligned DEF exec_MRET
  <2>2. CASE Aligned(mepc)
    BY <1>6, <2>2 DEF exec_MRET, NoFrame, AlignInv, PcAligned, Executed, Aligned
  <2> QED BY <2>1, <2>2
<1>7. CASE exec_EBREAK
  BY <1>7, TrapAligned, TerminateAligned DEF exec_EBREAK, bypassed_trap_return, Terminate
<1>8. CASE exec_CSR
  <2>1. CASE \E op \in Ops, v \in CsrWords : csr_read_only(op, v)
    BY <2>1, TrapAligned DEF csr_read_only
  <2>2. CASE ~\E op \in Ops, v \in CsrWords : csr_read_only(op, v)
    <3>1. Advance(4) /\ (frame' = frame \/ frame' = NoFrame)
      BY <1>8, <2>2 DEF exec_CSR, csr_mstatus, csr_mie, csr_mip, csr_mtvec, csr_mepc,
                        csr_mcause, csr_timer
    <3> QED BY <3>1, FallThroughAligned
  <2> QED BY <2>1, <2>2
<1>9. CASE retire
  BY <1>9 DEF retire, AlignInv, PcAligned, Executed, Aligned
<1>10. CASE timer_interrupt
  <2>1. CASE mtvec = 0
    BY <1>10, <2>1, TerminateAligned DEF timer_interrupt
  <2>2. CASE mtvec # 0
    <3>1. Aligned(ClearLow2(mtvec))
      BY VectorAligned DEF TypeOK
    <3> QED
      BY <1>10, <2>2, <3>1
         DEF timer_interrupt, Frame, AlignInv, PcAligned, Executed, Aligned
  <2> QED BY <2>1, <2>2
<1>11. CASE UNCHANGED vars
  BY <1>11 DEF vars, AlignInv, PcAligned, Executed, Aligned
<1> QED
  BY <1>1, <1>2, <1>3, <1>4, <1>5, <1>6, <1>7, <1>8, <1>9, <1>10, <1>11 DEF Next, exec

\* With --rvc, or in a loop that decodes 32-bit instructions only, every
\* address ever fetched, and every address a trap records, is aligned.
LEMMA AlwaysAligned ==
  ASSUME DecodesAsConfigured
  PROVE  Spec => []AlignInv
<1>1. Init => AlignInv
  BY DEF Init, AlignInv, PcAligned, Executed, NoFrame
<1>2. TypeOK /\ AlignInv /\ [Next]_vars => AlignInv'
  BY StepAligned
<1> QED
  BY <1>1, <1>2, TypeCorrect, PTL DEF Spec

\* The instruction fetched next is aligned as the instruction set in force
\* requires, in every configuration whose loop decodes what is configured.
THEOREM PcAlwaysAligned ==
  ASSUME DecodesAsConfigured
  PROVE  Spec => []PcAligned
<1>1. AlignInv => PcAligned
  BY DEF AlignInv
<1> QED
  BY <1>1, AlwaysAligned, PTL

-----------------------------------------------------------------------------
(* Returning from a trap                                                   *)

\* MRET from an undisturbed handler resumes the trapped program where trap()
\* left it, with the interrupt enable it had.  The alignment invariant is what
\* excludes that MRET itself traps on the address that trap() recorded.
THEOREM MretAlwaysResumes ==
  ASSUME DecodesAsConfigured
  PROVE  Spec => MretResumes
<1>1. TrapStateIntact /\ AlignInv /\ [Next]_vars =>
        [exec_MRET /\ frame.live =>
           /\ next_pc' = frame.ret
           /\ ("MIE" \in mstatus') = frame.mie]_vars
  <2> SUFFICES ASSUME TrapStateIntact, AlignInv, exec_MRET, frame.live
               PROVE  next_pc' = frame.ret /\ ("MIE" \in mstatus') = frame.mie
    OBVIOUS
  <2>1. mepc = frame.ret /\ Aligned(mepc) /\ ("MPIE" \in mstatus) = frame.mie
    BY DEF TrapStateIntact, AlignInv
  <2>2. next_pc' = mepc /\ mstatus' = MretStatus(mstatus)
    BY <2>1 DEF exec_MRET
  <2>3. "MIE" \in mstatus' <=> "MPIE" \in mstatus
    BY <2>2 DEF MretStatus
  <2> QED BY <2>1, <2>2, <2>3
<1> QED
  BY <1>1, TrapStateKept, AlwaysAligned, PTL DEF Spec, MretResumes

\* A system call that the emulator answers itself leaves mstatus as a trap and
\* an mret would: "Performs the side effects of trap + mret" (cpu.py:787).
THEOREM BypassIsTrapMret == Spec => BypassActsAsTrapMret
<1>1. ASSUME NEW s
      PROVE  MretStatus(TrapStatus(s)) = s \cup {"MPIE"}
  BY DEF MretStatus, TrapStatus
<1>2. [Next]_vars => [exec_ECALL /\ phase' = "executed" =>
                        mstatus' = MretStatus(TrapStatus(mstatus))]_vars
  BY <1>1 DEF exec_ECALL, bypassed_trap_return, trap, Terminate
<1> QED
  BY <1>2, PTL DEF Spec, BypassActsAsTrapMret

-----------------------------------------------------------------------------
(* Machine mode, and mip.MTIP                                              *)

\* The MPP field of mstatus holds machine mode on every path: traps, MRET, the
\* bypassed return and the CSR instructions on mstatus.
THEOREM AlwaysMachineMode == Spec => []MachineModeOnly
<1>1. Init => MachineModeOnly
  BY DEF Init, MachineModeOnly
<1>2. MachineModeOnly /\ [Next]_vars => MachineModeOnly'
  <2> SUFFICES ASSUME MachineModeOnly, Next PROVE MachineModeOnly'
    BY DEF vars, trapVars, MachineModeOnly
  <2>1. ASSUME NEW cause, trap(cause) PROVE MachineModeOnly'
    BY <2>1, TrapStatusBits DEF trap, record_trap, trapVars, MachineModeOnly
  <2>2. ASSUME UNCHANGED mstatus PROVE MachineModeOnly'
    BY <2>2 DEF MachineModeOnly
  <2>3. CASE exec
    <3>1. CASE exec_CSR
      BY <3>1, <2>1, <2>2 DEF exec_CSR, csr_mstatus, csr_mie, csr_mip, csr_mtvec, csr_mepc,
         csr_mcause, csr_read_only, csr_timer, trapVars, MachineModeOnly
    <3>2. CASE exec_ECALL \/ exec_EBREAK \/ exec_MRET
      BY <3>2, <2>1, <2>2 DEF exec_ECALL, exec_EBREAK, exec_MRET, bypassed_trap_return,
         trapVars, MretStatus, MachineModeOnly
    <3>3. CASE ~exec_CSR /\ ~exec_ECALL /\ ~exec_EBREAK /\ ~exec_MRET
      BY <2>3, <3>3, <2>1, <2>2 DEF exec, exec_plain, exec_timer_store, exec_memory_fault,
         exec_illegal, exec_AMO_misaligned, exec_JAL, exec_JALR, JumpTo, trapVars
    <3> QED BY <3>1, <3>2, <3>3
  <2>4. CASE retire \/ timer_interrupt
    BY <2>4, <2>2, TrapStatusBits DEF retire, timer_interrupt, record_trap, trapVars, MachineModeOnly
  <2> QED BY <2>3, <2>4 DEF Next
<1> QED
  BY <1>1, <1>2, PTL DEF Spec

\* With the memory-mapped timer interface, and a guest that does not write mip
\* itself, mip.MTIP always shows cpu.mtip.  (The CSR interface changes cpu.mtip
\* behind it.)
THEOREM MtipAlwaysShown ==
  ASSUME ~CsrTimer, "mip" \notin GuestCsrs
  PROVE  Spec => []MtipShown
<1> DEFINE Shown == ("MTIP" \in mip) <=> mtip
<1>1. Init => Shown
  BY DEF Init, TimerInit
<1>2. TypeOK /\ Shown /\ [Next]_vars => Shown'
  <2> SUFFICES ASSUME TypeOK, Shown, [Next]_vars PROVE Shown'
    OBVIOUS
  <2>1. ASSUME UNCHANGED <<mtip, mip>> PROVE Shown'
    BY <2>1
  <2>2. ASSUME timer_tick PROVE Shown'
    <3>1. mtip_asserted \in BOOLEAN /\ mtip \in BOOLEAN
      BY DEF mtip_asserted, TypeOK, TimerTypeOK
    <3> QED BY <2>2, <3>1 DEF timer_tick
  <2>3. ASSUME UNCHANGED timerVars PROVE Shown'
    BY <2>3, <2>1 DEF timerVars
  <2>4. CASE exec
    <3>1. CASE exec_CSR
      BY <3>1, <2>3 DEF exec_CSR, csr_mstatus, csr_mie, csr_mip, csr_mtvec, csr_mepc,
         csr_mcause, csr_read_only, csr_timer
    <3>2. CASE \E size \in Sizes : exec_timer_store(size)
      BY <3>2, <2>1 DEF exec_timer_store, MmioTimerAccess, write32_mtimecmp, write32_mtime
    <3>3. CASE ~exec_CSR /\ ~\E size \in Sizes : exec_timer_store(size)
      BY <2>4, <3>3, <2>3 DEF exec, exec_plain, exec_memory_fault, exec_illegal,
         exec_AMO_misaligned, exec_JAL, exec_JALR, exec_ECALL, exec_MRET, exec_EBREAK
    <3> QED BY <3>1, <3>2, <3>3
  <2>5. CASE retire \/ timer_interrupt
    BY <2>5, <2>2, <2>3 DEF retire, timer_interrupt
  <2>6. CASE UNCHANGED vars
    BY <2>6, <2>3 DEF vars
  <2> QED BY <2>4, <2>5, <2>6 DEF Next
<1>3. Shown => MtipShown
  BY DEF MtipShown
<1> HIDE DEF Shown
<1> QED
  BY <1>1, <1>2, <1>3, TypeCorrect, PTL DEF Spec
=============================================================================
