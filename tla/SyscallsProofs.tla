--------------------------- MODULE SyscallsProofs ---------------------------
(***************************************************************************)
(* Proofs about Syscalls, for any number of descriptors, any arguments and *)
(* any requests.                                                           *)
(*                                                                         *)
(* The system calls come in eight kinds as far as the state is concerned   *)
(* (lemma HandleCases).  Each part of the inductive invariant is shown for *)
(* each kind: the types with the masks, the descriptors, the heap, and the *)
(* end of the run.                                                         *)
(***************************************************************************)
EXTENDS Syscalls, TLAPS

Results == {"value", "errno", "minus1"}

\* Host descriptor h is the one the handlers use for guest descriptor fd.
Serves(fd, h) ==
  \/ fd = 0 /\ h = 0
  \/ fd \in {1, 2} /\ h = 1
  \/ Mapped(fd) /\ h = fd_map[fd]

\* _sbrk grants increment.
Granted(increment) ==
  /\ heap_end # None /\ stack_bottom # None
  /\ heap_end + increment < stack_bottom
  /\ Grant(increment)

\* The state is typed, and has a mask outside of _openat and a heap while the
\* arguments are stored.
TypeInv ==
  /\ TypeOK
  /\ HostUmaskKept
  /\ phase = "argv" => heap_end # None

\* The standard descriptors are where the process has them, and the
\* properties of descriptors hold.
FdInv ==
  /\ \A g \in Std : fd_map[g] \in {g, None}
  /\ DescriptorsFaithful
  /\ CallsReachTheirFile

\* Everything given out lies below the break, and the break is aligned until
\* the guest moves it by part of a word.
HeapInv ==
  /\ phase = "setup" => blocks = {} /\ heap_end = None
  /\ ~wide => \A b \in blocks : b.hi <= heap_end
  /\ AllocationsDisjoint
  /\ phase \in {"run", "open"} /\ ~odd_break /\ heap_end # None => heap_end % 4 = 0

\* The terminal is raw only in a run with --raw-tty, and the reason of the
\* end is set at the end.
EndInv ==
  /\ phase \in {"setup", "argv"} => tty = "cooked" /\ a0 = "value"
  /\ tty = "raw" => RawTty
  /\ phase # "ended" => outcome = "none"
  /\ TerminalRestored
  /\ ChecksJustified

Inv == TypeInv /\ FdInv /\ HeapInv /\ EndInv

-----------------------------------------------------------------------------
(* The kinds of system call                                                *)

\* Every system call of the dispatch in SyscallHandler.handle is of one of
\* these kinds.
LEMMA HandleCases ==
  ASSUME TypeOK, handle
  PROVE  \/ \E r \in Results : ReturnOnly(r)
         \/ \E w \in {"exit", "error"} : raise_out(w)
         \/ \E fd \in Fds, h \in HostFds : Serves(fd, h) /\ Transfer(fd, h)
         \/ \E increment \in Increments : Granted(increment)
         \/ \E fd \in Fds : Mapped(fd) /\ Closed(fd)
         \/ \E fd \in Fds : Mapped(fd) /\ CloseFailed(fd)
         \/ OpenBegins
         \/ \E mask \in Masks : handle_umask(mask)
<1> DEFINE Plain == \/ \E r \in Results : ReturnOnly(r)
                    \/ \E w \in {"exit", "error"} : raise_out(w)
           Moved == \E fd \in Fds, h \in HostFds : Serves(fd, h) /\ Transfer(fd, h)
<1>1. ReturnOnly("value") \/ ReturnOnly("errno") \/ ReturnOnly("minus1") => Plain
  BY DEF Results
<1>2. raise_out("exit") \/ raise_out("error") => Plain
  OBVIOUS
<1>3. ASSUME NEW fd \in Fds, NEW h \in HostFds, Serves(fd, h), Transfer(fd, h)
      PROVE  Moved
  BY <1>3
<1>4. ASSUME NEW fd \in Fds, Mapped(fd)
      PROVE  fd_map[fd] \in HostFds /\ Serves(fd, fd_map[fd])
  BY <1>4 DEF TypeOK, Mapped, Serves
<1>5. 0 \in HostFds /\ 1 \in HostFds
  BY SyscallsAssumption DEF HostFds
<1> HIDE DEF Plain, Moved
<1>6. CASE handle_exit \/ handle_unknown \/ keyboard_interrupt
  <2>1. Plain BY <1>2, <1>6 DEF handle_exit, handle_unknown, keyboard_interrupt
  <2> QED BY <2>1 DEF Plain
<1>7. CASE \E increment \in Increments : handle_sbrk(increment)
  <2>1. Plain \/ \E increment \in Increments : Granted(increment)
    BY <1>1, <1>2, <1>7 DEF handle_sbrk, Granted
  <2> QED BY <2>1 DEF Plain
<1>8. CASE \E fd \in Fds : \/ handle_write(fd) \/ handle_read(fd) \/ handle_lseek(fd)
                           \/ handle_fstat(fd) \/ handle_isatty(fd)
  <2> PICK fd \in Fds : \/ handle_write(fd) \/ handle_read(fd) \/ handle_lseek(fd)
                        \/ handle_fstat(fd) \/ handle_isatty(fd)
    BY <1>8
  <2>1. fd \in {1, 2} /\ Transfer(fd, 1) => Moved
    BY <1>3, <1>5 DEF Serves
  <2>2. fd = 0 /\ Transfer(fd, 0) => Moved
    BY <1>3, <1>5 DEF Serves
  <2>3. Mapped(fd) /\ Transfer(fd, fd_map[fd]) => Moved
    BY <1>3, <1>4
  <2>4. Plain \/ Moved
    BY <1>1, <1>2, <2>1, <2>2, <2>3
       DEF handle_write, handle_read, handle_lseek, handle_fstat, handle_isatty
  <2> QED BY <2>4 DEF Plain, Moved
<1>9. CASE \E fd \in Fds : handle_close(fd)
  <2>1. \/ Plain
        \/ \E fd \in Fds : Mapped(fd) /\ Closed(fd)
        \/ \E fd \in Fds : Mapped(fd) /\ CloseFailed(fd)
    BY <1>1, <1>9 DEF handle_close
  <2> QED BY <2>1 DEF Plain
<1>10. CASE handle_openat
  <2>1. Plain \/ OpenBegins BY <1>1, <1>2, <1>10 DEF handle_openat
  <2> QED BY <2>1 DEF Plain
<1>11. CASE handle_kill \/ handle_getpid \/ handle_mkdirat \/ handle_unlinkat
  <2>1. Plain
    BY <1>1, <1>2, <1>11 DEF handle_kill, handle_getpid, handle_mkdirat, handle_unlinkat
  <2> QED BY <2>1 DEF Plain
<1> QED
  BY <1>6, <1>7, <1>8, <1>9, <1>10, <1>11 DEF handle

-----------------------------------------------------------------------------
(* The types                                                               *)

\* Rounding up moves by less than the unit, to a multiple of it (the masks of
\* setup_argv).
LEMMA RoundUpFacts ==
  ASSUME NEW n \in Nat
  PROVE  /\ RoundUp(n, 4) \in Nat /\ RoundUp(n, 4) >= n /\ RoundUp(n, 4) % 4 = 0
         /\ RoundUp(n, 8) \in Nat /\ RoundUp(n, 8) >= n /\ RoundUp(n, 8) % 4 = 0
  BY DEF RoundUp

\* Initially the state is typed.
LEMMA TypeInit == Init => TypeInv
<1> SUFFICES ASSUME Init PROVE TypeInv
  OBVIOUS
<1> USE SyscallsAssumption DEF Init
<1>1. /\ fd_map \in [Fds -> HostFds \cup {None}]
      /\ host \in [HostFds -> Fds \cup {None, Own}]
      /\ \A g \in Fds : g >= next_fd => fd_map[g] = None
  BY DEF Fds, HostFds, Std
<1>2. next_fd \in 3 .. MaxFd + 1 /\ argc \in 0 .. MaxArgs
  OBVIOUS
<1>3. TypeOK
  BY <1>1, <1>2 DEF TypeOK
<1> QED
  BY <1>3 DEF TypeInv, HostUmaskKept

\* Loading and the checks keep the state typed.
LEMMA TypeSetup ==
  ASSUME TypeInv, Setup \/ trigger_check \/ check_invariants
  PROVE  TypeInv'
<1> USE SyscallsAssumption DEF TypeInv, TypeOK, HostUmaskKept, heapVars, fdVars, maskVars
<1>1. CASE \E h \in HeapStarts \cup {None}, s \in {StackBottom, None} : load_elf(h, s)
  BY <1>1 DEF load_elf, StartRun
<1>2. CASE load_flatbinary
  BY <1>2 DEF load_flatbinary, StartRun
<1>3. CASE load_failed
  BY <1>3 DEF load_failed
<1>4. CASE \E arg \in Args : setup_argv_string(arg)
  <2> PICK arg \in Args : setup_argv_string(arg)
    BY <1>4
  <2>1. heap_end \in Nat /\ arg.chars \in Nat /\ arg.bytes \in Nat
    BY DEF setup_argv_string
  <2>2. heap_end' \in Nat
    BY <2>1, RoundUpFacts DEF setup_argv_string
  <2>3. blocks' \subseteq [lo : Nat, hi : Nat, by : {"argv", "sbrk"}]
    BY <2>1 DEF setup_argv_string
  <2>4. argc' \in 0 .. MaxArgs
    BY DEF setup_argv_string
  <2> QED
    BY <2>2, <2>3, <2>4 DEF setup_argv_string, None
<1>5. CASE setup_argv_table
  <2>1. heap_end \in Nat /\ argc \in Nat
    BY <1>5 DEF setup_argv_table
  <2>2. heap_end' \in Nat
    BY <1>5, <2>1, RoundUpFacts DEF setup_argv_table
  <2>3. blocks' \subseteq [lo : Nat, hi : Nat, by : {"argv", "sbrk"}]
    BY <1>5, <2>1 DEF setup_argv_table
  <2> QED
    BY <1>5, <2>2, <2>3 DEF setup_argv_table, StartRun
<1>6. CASE trigger_check
  BY <1>6 DEF trigger_check
<1>7. CASE check_invariants
  BY <1>7 DEF check_invariants, End
<1> QED
  BY <1>1, <1>2, <1>3, <1>4, <1>5, <1>6, <1>7 DEF Setup

\* So does every system call.
LEMMA TypeHandle ==
  ASSUME TypeInv, handle
  PROVE  TypeInv'
<1> USE SyscallsAssumption
    DEF TypeInv, TypeOK, HostUmaskKept, heapVars, fdVars, maskVars, Return, Calling
<1>1. CASE \E r \in Results : ReturnOnly(r)
  BY <1>1 DEF ReturnOnly, Results
<1>2. CASE \E w \in {"exit", "error"} : raise_out(w)
  BY <1>2 DEF raise_out, End
<1>3. CASE \E fd \in Fds, h \in HostFds : Serves(fd, h) /\ Transfer(fd, h)
  BY <1>3 DEF Transfer
<1>4. CASE \E increment \in Increments : Granted(increment)
  <2> PICK increment \in Increments : Granted(increment)
    BY <1>4
  <2>1. heap_end \in Nat /\ increment \in Nat
    BY DEF Granted
  <2>2. heap_end' \in Nat
    BY <2>1 DEF Granted, Grant
  <2>3. blocks' \subseteq [lo : Nat, hi : Nat, by : {"argv", "sbrk"}]
    BY <2>1 DEF Granted, Grant
  <2> QED
    BY <2>2, <2>3 DEF Granted, Grant
<1>5. CASE \E fd \in Fds : Mapped(fd) /\ Closed(fd)
  BY <1>5 DEF Closed, Mapped
<1>6. CASE \E fd \in Fds : Mapped(fd) /\ CloseFailed(fd)
  BY <1>6 DEF CloseFailed, Mapped
<1>7. CASE OpenBegins
  BY <1>7 DEF OpenBegins
<1>8. CASE \E mask \in Masks : handle_umask(mask)
  BY <1>8 DEF handle_umask
<1> QED
  BY <1>1, <1>2, <1>3, <1>4, <1>5, <1>6, <1>7, <1>8, HandleCases

\* And so does the second half of _openat.
LEMMA TypeOpen ==
  ASSUME TypeInv, os_open
  PROVE  TypeInv'
<1> USE SyscallsAssumption
    DEF TypeInv, TypeOK, HostUmaskKept, heapVars, fdVars, OpenReturns
<1>1. CASE next_fd \in Fds /\ \E h \in HostFds : Opened(h, next_fd)
  <2> PICK h \in HostFds : Opened(h, next_fd)
    BY <1>1
  <2>1. fd_map' \in [Fds -> HostFds \cup {None}] /\ host' \in [HostFds -> Fds \cup {None, Own}]
    BY <1>1 DEF Opened
  <2>2. next_fd' \in 3 .. MaxFd + 1
    BY <1>1 DEF Opened, Fds
  <2>3. \A g \in Fds : g >= next_fd' => fd_map'[g] = None
    BY <1>1 DEF Opened, Fds
  <2> QED
    BY <1>1, <2>1, <2>2, <2>3 DEF Opened
<1>2. CASE OpenReturns("errno") /\ UNCHANGED fdVars
  BY <1>2
<1>3. CASE phase = "open" /\ End("error") /\ host_umask' = old_umask
           /\ UNCHANGED <<a0, check_enable, umask, old_umask, heapVars, fdVars>>
  BY <1>3 DEF End
<1> QED
  BY <1>1, <1>2, <1>3 DEF os_open

-----------------------------------------------------------------------------
(* The descriptors                                                         *)

\* Initially the process has its standard streams and the emulator's files.
LEMMA FdInit == Init => FdInv
<1> SUFFICES ASSUME Init PROVE FdInv
  OBVIOUS
<1> USE SyscallsAssumption DEF Init, Fds, HostFds, Std, None, Own
<1>1. \A g \in Std : fd_map[g] \in {g, None}
  OBVIOUS
<1>2. DescriptorsFaithful
  BY DEF DescriptorsFaithful, Mapped
<1> QED
  BY <1>1, <1>2 DEF FdInv, CallsReachTheirFile

\* Steps that leave the descriptors alone keep what holds of them.
LEMMA FdFrame ==
  ASSUME FdInv, UNCHANGED fdVars
  PROVE  FdInv'
  BY DEF FdInv, DescriptorsFaithful, CallsReachTheirFile, Mapped, fdVars

\* Opening a file gives it a descriptor that is nobody else's.
LEMMA FdOpened ==
  ASSUME TypeInv, FdInv, next_fd \in Fds,
         NEW h \in HostFds, Opened(h, next_fd)
  PROVE  FdInv'
<1> USE SyscallsAssumption DEF TypeInv, TypeOK
<1>1. next_fd \notin Std /\ fd_map[next_fd] = None /\ host[h] = None
  BY DEF Std, Fds, Opened, LowestFree
<1>2. /\ fd_map' = [fd_map EXCEPT ![next_fd] = h]
      /\ host' = [host EXCEPT ![h] = next_fd]
      /\ close_failed' = close_failed /\ strayed' = strayed
  BY DEF Opened
<1>3. \A g \in Std : fd_map'[g] \in {g, None}
  BY <1>1, <1>2 DEF FdInv, Std, Fds
<1>4. ASSUME ~close_failed PROVE DescriptorsFaithful'
  <2>1. ASSUME NEW g \in Fds, fd_map'[g] # None PROVE host'[fd_map'[g]] = g
    <3>1. CASE g = next_fd
      BY <1>2, <3>1
    <3>2. CASE g # next_fd
      <4>1. fd_map'[g] = fd_map[g] /\ fd_map[g] \in HostFds
        BY <1>2, <2>1, <3>2
      <4>2. host[fd_map[g]] = g /\ g # None
        BY <1>4, <2>1, <4>1 DEF FdInv, DescriptorsFaithful, Mapped, None, Fds
      <4> QED
        BY <1>1, <1>2, <4>1, <4>2
    <3> QED BY <3>1, <3>2
  <2>2. ASSUME NEW k \in HostFds, host'[k] \in Fds PROVE fd_map'[host'[k]] = k
    <3>1. k # h => host[k] # next_fd
      BY <1>1, <1>4 DEF FdInv, DescriptorsFaithful, None, HostFds
    <3> QED
      BY <1>2, <1>4, <2>2, <3>1 DEF FdInv, DescriptorsFaithful
  <2>3. \A k \in OwnFds : host'[k] = Own
    BY <1>1, <1>2, <1>4 DEF FdInv, DescriptorsFaithful, None, Own, HostFds
  <2> QED
    BY <2>1, <2>2, <2>3 DEF DescriptorsFaithful, Mapped
<1>5. CallsReachTheirFile'
  BY <1>1, <1>2 DEF FdInv, CallsReachTheirFile, Mapped, Std, Fds
<1> QED
  BY <1>2, <1>3, <1>4, <1>5 DEF FdInv, DescriptorsFaithful

\* Closing a descriptor closes its own file and no other.
LEMMA FdClosed ==
  ASSUME TypeInv, FdInv, NEW fd \in Fds, Mapped(fd), Closed(fd)
  PROVE  FdInv'
<1> USE SyscallsAssumption DEF TypeInv, TypeOK
<1>1. /\ fd_map' = [fd_map EXCEPT ![fd] = None]
      /\ host' = [host EXCEPT ![fd_map[fd]] = None]
      /\ close_failed' = close_failed /\ strayed' = strayed
  BY DEF Closed
<1>2. fd_map[fd] \in HostFds
  BY DEF Mapped
<1>3. \A g \in Std : fd_map'[g] \in {g, None}
  BY <1>1 DEF FdInv, Std, Fds
<1>4. ASSUME ~close_failed PROVE DescriptorsFaithful'
  <2>1. host[fd_map[fd]] = fd
    BY <1>4 DEF FdInv, DescriptorsFaithful
  <2>2. ASSUME NEW g \in Fds, fd_map'[g] # None PROVE host'[fd_map'[g]] = g
    <3>1. g # fd /\ fd_map'[g] = fd_map[g] /\ fd_map[g] \in HostFds
      BY <1>1, <2>2
    <3>2. host[fd_map[g]] = g
      BY <1>4, <3>1, <2>2 DEF FdInv, DescriptorsFaithful, Mapped
    <3> QED
      BY <1>1, <1>2, <2>1, <3>1, <3>2
  <2>3. ASSUME NEW k \in HostFds, host'[k] \in Fds PROVE fd_map'[host'[k]] = k
    <3>1. k # fd_map[fd]
      BY <1>1, <1>2, <2>3 DEF None, Fds
    <3>2. host'[k] = host[k] /\ fd_map[host[k]] = k
      BY <1>1, <1>4, <2>3, <3>1 DEF FdInv, DescriptorsFaithful
    <3> QED
      BY <1>1, <2>3, <3>1, <3>2
  <2>4. \A k \in OwnFds : host'[k] = Own
    BY <1>1, <1>4, <2>1 DEF FdInv, DescriptorsFaithful, Own, Fds
  <2> QED
    BY <2>2, <2>3, <2>4 DEF DescriptorsFaithful, Mapped
<1>5. CallsReachTheirFile'
  BY <1>1 DEF FdInv, CallsReachTheirFile, Mapped, Fds
<1> QED
  BY <1>1, <1>3, <1>4, <1>5 DEF FdInv, DescriptorsFaithful

\* A call is served by the file of its descriptor.
LEMMA FdTransfer ==
  ASSUME TypeInv, FdInv, NEW fd \in Fds, NEW h \in HostFds,
         Serves(fd, h), Transfer(fd, h)
  PROVE  FdInv'
<1> USE SyscallsAssumption DEF TypeInv, TypeOK
<1>1. /\ fd_map' = fd_map /\ host' = host /\ close_failed' = close_failed
      /\ strayed' = (strayed \/ (host[h] # fd /\ ~(fd = 2 /\ host[h] = 1)))
  BY DEF Transfer
<1>2. ASSUME ~close_failed, Mapped(0), Mapped(1)
      PROVE  host[h] = fd \/ (fd = 2 /\ host[h] = 1)
  <2>1. 0 \in Fds /\ 1 \in Fds /\ 0 \in Std /\ 1 \in Std
    BY DEF Fds, Std
  <2>2. fd_map[0] = 0 /\ fd_map[1] = 1
    BY <1>2, <2>1 DEF FdInv, Mapped
  <2>3. host[0] = 0 /\ host[1] = 1
    BY <1>2, <2>1, <2>2 DEF FdInv, DescriptorsFaithful
  <2>4. Mapped(fd) => host[fd_map[fd]] = fd
    BY <1>2 DEF FdInv, DescriptorsFaithful
  <2> QED
    BY <2>3, <2>4 DEF Serves
<1>3. CallsReachTheirFile'
  BY <1>1, <1>2 DEF FdInv, CallsReachTheirFile, Mapped
<1> QED
  BY <1>1, <1>3 DEF FdInv, DescriptorsFaithful, Mapped

\* Every step keeps what holds of the descriptors.
LEMMA FdStep ==
  ASSUME TypeInv, FdInv, [Next]_vars
  PROVE  FdInv'
<1>1. CASE UNCHANGED fdVars
  BY <1>1, FdFrame
<1>2. CASE Setup \/ trigger_check \/ check_invariants
  BY <1>1, <1>2 DEF Setup, load_elf, load_flatbinary, load_failed, setup_argv_string,
     setup_argv_table, trigger_check, check_invariants, fdVars
<1>3. CASE handle
  <2>1. CASE \E r \in Results : ReturnOnly(r)
    BY <1>1, <2>1 DEF ReturnOnly, fdVars
  <2>2. CASE \E w \in {"exit", "error"} : raise_out(w)
    BY <1>1, <2>2 DEF raise_out, fdVars
  <2>3. CASE \E fd \in Fds, h \in HostFds : Serves(fd, h) /\ Transfer(fd, h)
    BY <2>3, FdTransfer
  <2>4. CASE \E increment \in Increments : Granted(increment)
    BY <1>1, <2>4 DEF Granted, Grant, fdVars
  <2>5. CASE \E fd \in Fds : Mapped(fd) /\ Closed(fd)
    BY <2>5, FdClosed
  <2>6. CASE \E fd \in Fds : Mapped(fd) /\ CloseFailed(fd)
    BY <2>6 DEF CloseFailed, FdInv, DescriptorsFaithful, CallsReachTheirFile
  <2>7. CASE OpenBegins
    BY <1>1, <2>7 DEF OpenBegins, fdVars
  <2>8. CASE \E mask \in Masks : handle_umask(mask)
    BY <1>1, <2>8 DEF handle_umask, fdVars
  <2> QED
    BY <1>3, <2>1, <2>2, <2>3, <2>4, <2>5, <2>6, <2>7, <2>8, HandleCases DEF TypeInv
<1>4. CASE os_open
  BY <1>1, <1>4, FdOpened DEF os_open, fdVars
<1>5. CASE UNCHANGED vars
  BY <1>1, <1>5 DEF vars
<1> QED
  BY <1>2, <1>3, <1>4, <1>5 DEF Next

-----------------------------------------------------------------------------
(* The heap                                                                *)

\* Initially nothing has been given out.
LEMMA HeapInit == Init => HeapInv
  BY DEF Init, HeapInv, AllocationsDisjoint

\* Steps that leave the heap alone and do not begin the run keep what holds
\* of it.
LEMMA HeapFrame ==
  ASSUME HeapInv, UNCHANGED heapVars,
         phase' = phase \/ phase' = "ended" \/ phase \in {"run", "open"},
         phase' # "setup" \/ phase = "setup"
  PROVE  HeapInv'
  BY DEF HeapInv, AllocationsDisjoint, heapVars

\* Memory given out at the break is disjoint from what was given out before.
LEMMA HeapGrows ==
  ASSUME TypeInv, HeapInv, heap_end \in Nat,
         NEW hi \in Nat, NEW by \in {"argv", "sbrk"},
         blocks' = blocks \cup {[lo |-> heap_end, hi |-> hi, by |-> by]},
         wide' \in BOOLEAN, wide => wide',
         ~wide' => heap_end <= heap_end' /\ hi <= heap_end',
         heap_end' \in Nat,
         stack_bottom' = stack_bottom, by = "sbrk" => hi < stack_bottom
  PROVE  /\ ~wide' => \A b \in blocks' : b.hi <= heap_end'
         /\ AllocationsDisjoint'
<1> DEFINE new == [lo |-> heap_end, hi |-> hi, by |-> by]
<1> SUFFICES ASSUME ~wide'
             PROVE  /\ \A b \in blocks' : b.hi <= heap_end'
                    /\ \A b, c \in blocks' : b = c \/ b.hi <= c.lo \/ c.hi <= b.lo
                    /\ \A b \in blocks' : b.by = "sbrk" => b.hi < stack_bottom'
  BY DEF AllocationsDisjoint
<1>1. \A b \in blocks : b.hi \in Nat /\ b.lo \in Nat
  BY DEF TypeInv, TypeOK
<1>2. \A b \in blocks : b.hi <= heap_end
  BY DEF HeapInv
<1>3. /\ \A b, c \in blocks : b = c \/ b.hi <= c.lo \/ c.hi <= b.lo
      /\ \A b \in blocks : b.by = "sbrk" => b.hi < stack_bottom
  BY DEF HeapInv, AllocationsDisjoint
<1>4. new.lo = heap_end /\ new.hi = hi /\ new.by = by /\ blocks' = blocks \cup {new}
  OBVIOUS
<1> HIDE DEF new
<1>5. \A b \in blocks' : b.hi <= heap_end'
  BY <1>1, <1>2, <1>4
<1>6. \A b, c \in blocks' : b = c \/ b.hi <= c.lo \/ c.hi <= b.lo
  BY <1>2, <1>3, <1>4
<1>7. \A b \in blocks' : b.by = "sbrk" => b.hi < stack_bottom'
  BY <1>3, <1>4
<1> QED
  BY <1>5, <1>6, <1>7

\* Loading keeps the heap in order and leaves it aligned.
LEMMA HeapSetup ==
  ASSUME TypeInv, HeapInv, Setup
  PROVE  HeapInv'
<1> USE SyscallsAssumption
<1>1. CASE \E h \in HeapStarts \cup {None}, s \in {StackBottom, None} : load_elf(h, s)
  BY <1>1 DEF load_elf, StartRun, HeapInv, AllocationsDisjoint
<1>2. CASE load_flatbinary
  <2>1. UNCHANGED heapVars /\ phase' = "run" /\ phase = "setup"
    BY <1>2 DEF load_flatbinary, StartRun
  <2> QED
    BY <2>1 DEF HeapInv, AllocationsDisjoint, heapVars
<1>3. CASE load_failed
  BY <1>3, HeapFrame DEF load_failed
<1>4. CASE \E arg \in Args : setup_argv_string(arg)
  <2> PICK arg \in Args : setup_argv_string(arg)
    BY <1>4
  <2>1. heap_end \in Nat /\ arg.chars \in Nat /\ arg.bytes \in Nat
    BY DEF setup_argv_string, TypeInv, TypeOK
  <2>2. /\ heap_end' = RoundUp(heap_end + arg.chars + 1, 4)
        /\ heap_end' \in Nat /\ heap_end' >= heap_end + arg.chars + 1
    BY <2>1, RoundUpFacts DEF setup_argv_string
  <2>3. /\ ~wide' => \A b \in blocks' : b.hi <= heap_end'
        /\ AllocationsDisjoint'
    <3> DEFINE top == heap_end + arg.bytes + 1
    <3>1. top \in Nat
      BY <2>1
    <3>2. blocks' = blocks \cup {[lo |-> heap_end, hi |-> top, by |-> "argv"]}
      BY DEF setup_argv_string
    <3>3. wide' \in BOOLEAN /\ (wide => wide') /\ (~wide' => arg.bytes <= arg.chars)
      <4>1. wide' = (wide \/ arg.bytes > arg.chars)
        BY DEF setup_argv_string
      <4>2. (arg.bytes > arg.chars) = ~(arg.bytes <= arg.chars)
        BY <2>1
      <4> QED
        BY <4>1, <4>2, Zenon
    <3>4. ~wide' => heap_end <= heap_end' /\ top <= heap_end'
      BY <2>1, <2>2, <3>3
    <3>5. stack_bottom' = stack_bottom
      BY DEF setup_argv_string
    <3> HIDE DEF top
    <3> QED
      BY <2>1, <2>2, <3>1, <3>2, <3>3, <3>4, <3>5, HeapGrows
  <2> QED
    BY <2>3 DEF setup_argv_string, HeapInv
<1>5. CASE setup_argv_table
  <2>1. heap_end \in Nat /\ argc \in Nat
    BY <1>5 DEF setup_argv_table, TypeInv, TypeOK
  <2>2. /\ heap_end' = RoundUp(heap_end + 4 * (argc + 1), 8)
        /\ heap_end' \in Nat /\ heap_end' >= heap_end + 4 * (argc + 1)
        /\ heap_end' % 4 = 0
    BY <1>5, <2>1, RoundUpFacts DEF setup_argv_table
  <2>3. /\ ~wide' => \A b \in blocks' : b.hi <= heap_end'
        /\ AllocationsDisjoint'
    <3> DEFINE top == heap_end + 4 * (argc + 1)
    <3>1. top \in Nat /\ heap_end <= heap_end' /\ top <= heap_end'
      BY <2>1, <2>2
    <3>2. blocks' = blocks \cup {[lo |-> heap_end, hi |-> top, by |-> "argv"]}
      BY <1>5 DEF setup_argv_table
    <3>3. wide' \in BOOLEAN /\ (wide => wide') /\ stack_bottom' = stack_bottom
      BY <1>5 DEF setup_argv_table, TypeInv, TypeOK
    <3> HIDE DEF top
    <3> QED
      BY <2>1, <2>2, <3>1, <3>2, <3>3, HeapGrows
  <2> QED
    BY <1>5, <2>2, <2>3 DEF setup_argv_table, StartRun, HeapInv
<1> QED
  BY <1>1, <1>2, <1>3, <1>4, <1>5 DEF Setup

\* _sbrk keeps the heap in order.
LEMMA HeapGranted ==
  ASSUME TypeInv, HeapInv, NEW increment \in Increments, Granted(increment)
  PROVE  HeapInv'
<1> USE SyscallsAssumption
<1>1. /\ heap_end \in Nat /\ increment \in Nat /\ stack_bottom \in Nat
      /\ phase = "run" /\ phase' = "run"
      /\ heap_end' = heap_end + increment
      /\ heap_end + increment < stack_bottom
  BY DEF Granted, Grant, Return, Calling, TypeInv, TypeOK
<1>2. /\ ~wide' => \A b \in blocks' : b.hi <= heap_end'
      /\ AllocationsDisjoint'
  <2> DEFINE top == heap_end + increment
  <2>1. top \in Nat /\ heap_end' = top /\ heap_end <= heap_end' /\ top < stack_bottom
    BY <1>1
  <2>2. blocks' = blocks \cup {[lo |-> heap_end, hi |-> top, by |-> "sbrk"]}
    BY DEF Granted, Grant
  <2>3. wide' \in BOOLEAN /\ (wide => wide') /\ stack_bottom' = stack_bottom
    BY DEF Granted, Grant, TypeInv, TypeOK
  <2> HIDE DEF top
  <2> QED
    BY <1>1, <2>1, <2>2, <2>3, HeapGrows
<1>3. ~odd_break' => heap_end' % 4 = 0
  <2>1. ~odd_break' => ~odd_break /\ increment % 4 = 0
    BY DEF Granted, Grant, TypeInv, TypeOK
  <2>2. ~odd_break => heap_end % 4 = 0
    BY <1>1 DEF HeapInv, None
  <2> QED
    BY <1>1, <2>1, <2>2
<1> QED
  BY <1>1, <1>2, <1>3 DEF HeapInv

\* Every step keeps the heap in order.
LEMMA HeapStep ==
  ASSUME TypeInv, HeapInv, [Next]_vars
  PROVE  HeapInv'
<1>1. CASE Setup
  BY <1>1, HeapSetup
<1>2. CASE trigger_check \/ check_invariants
  BY <1>2, HeapFrame DEF trigger_check, check_invariants, End
<1>3. CASE handle
  <2> USE DEF Return, Calling
  <2>1. CASE \E r \in Results : ReturnOnly(r)
    BY <2>1, HeapFrame DEF ReturnOnly
  <2>2. CASE \E w \in {"exit", "error"} : raise_out(w)
    BY <2>2, HeapFrame DEF raise_out, End
  <2>3. CASE \E fd \in Fds, h \in HostFds : Serves(fd, h) /\ Transfer(fd, h)
    BY <2>3, HeapFrame DEF Transfer
  <2>4. CASE \E increment \in Increments : Granted(increment)
    BY <2>4, HeapGranted
  <2>5. CASE \E fd \in Fds : Mapped(fd) /\ Closed(fd)
    BY <2>5, HeapFrame DEF Closed
  <2>6. CASE \E fd \in Fds : Mapped(fd) /\ CloseFailed(fd)
    BY <2>6, HeapFrame DEF CloseFailed
  <2>7. CASE OpenBegins
    BY <2>7, HeapFrame DEF OpenBegins
  <2>8. CASE \E mask \in Masks : handle_umask(mask)
    BY <2>8, HeapFrame DEF handle_umask
  <2> QED
    BY <1>3, <2>1, <2>2, <2>3, <2>4, <2>5, <2>6, <2>7, <2>8, HandleCases DEF TypeInv
<1>4. CASE os_open
  <2>1. UNCHANGED heapVars /\ phase = "open" /\ phase' \in {"run", "ended"}
    BY <1>4 DEF os_open, Opened, OpenReturns, End
  <2> QED
    BY <2>1, HeapFrame
<1>5. CASE UNCHANGED vars
  BY <1>5, HeapFrame DEF vars
<1> QED
  BY <1>1, <1>2, <1>3, <1>4, <1>5 DEF Next

-----------------------------------------------------------------------------
(* The end of the run                                                      *)

\* Initially the terminal is in cooked mode.
LEMMA EndInit == Init => EndInv
  BY DEF Init, EndInv, TerminalRestored, ChecksJustified

\* A call that comes back leaves the end of the run open.
LEMMA EndFrame ==
  ASSUME EndInv, phase \in {"run", "open"}, phase' \in {"run", "open"},
         UNCHANGED <<outcome, tty>>
  PROVE  EndInv'
  BY DEF EndInv, TerminalRestored, ChecksJustified

\* An exception restores the terminal if descriptor 0 is still the terminal,
\* which it is unless the guest has closed it.
LEMMA EndRestores ==
  ASSUME TypeInv, FdInv, EndInv, NEW why, End(why), UNCHANGED fdVars,
         (why = "invariant" => odd_break \/ heap_end + MIN_GAP > stack_bottom)',
         why # "none"
  PROVE  EndInv'
<1>1. Mapped(0) /\ ~close_failed => host[0] = 0
  <2>1. 0 \in Fds /\ 0 \in Std
    BY SyscallsAssumption DEF Fds, Std
  <2> QED
    BY <2>1 DEF FdInv, DescriptorsFaithful, Mapped
<1>2. Mapped(0) /\ ~close_failed => tty' = "cooked"
  BY <1>1 DEF End, EndInv, TypeInv, TypeOK
<1>3. TerminalRestored'
  BY <1>2 DEF TerminalRestored, Mapped, fdVars
<1>4. ChecksJustified'
  BY DEF ChecksJustified, End
<1>5. tty' = "raw" => RawTty
  BY DEF End, EndInv
<1> QED
  BY <1>3, <1>4, <1>5 DEF EndInv, End

\* Every step keeps the terminal and the reason of the end in order.
LEMMA EndStep ==
  ASSUME TypeInv, FdInv, HeapInv, EndInv, [Next]_vars
  PROVE  EndInv'
<1>1. CASE Setup
  <2>1. phase \in {"setup", "argv"} /\ tty = "cooked" /\ a0 = "value" /\ outcome = "none"
    BY <1>1 DEF Setup, load_elf, load_flatbinary, load_failed, setup_argv_string,
       setup_argv_table, EndInv
  <2>2. \/ phase' \in {"setup", "argv"} /\ UNCHANGED <<tty, a0, outcome>>
        \/ StartRun /\ UNCHANGED outcome
        \/ phase' = "ended" /\ outcome' = "error" /\ UNCHANGED tty
    BY <1>1, <2>1 DEF Setup, load_elf, load_flatbinary, load_failed, setup_argv_string,
       setup_argv_table
  <2> QED
    BY <2>1, <2>2 DEF EndInv, TerminalRestored, ChecksJustified, StartRun
<1>2. CASE trigger_check
  BY <1>2, EndFrame DEF trigger_check
<1>3. CASE check_invariants
  <2>1. odd_break \/ heap_end + MIN_GAP > stack_bottom
    <3>1. phase = "run" /\ ~HeapLegal
      BY <1>3 DEF check_invariants
    <3>2. CASE heap_end # None /\ ~(heap_end % 4 = 0)
      BY <3>1, <3>2 DEF HeapInv
    <3>3. CASE /\ heap_end # None /\ stack_bottom # None
               /\ ~(heap_end + MIN_GAP <= stack_bottom)
      BY <3>3, SyscallsAssumption DEF TypeInv, TypeOK
    <3> QED
      BY <3>1, <3>2, <3>3 DEF HeapLegal
  <2>2. (odd_break \/ heap_end + MIN_GAP > stack_bottom)'
    BY <1>3, <2>1 DEF check_invariants, heapVars
  <2>3. End("invariant") /\ UNCHANGED fdVars
    BY <1>3 DEF check_invariants, fdVars
  <2> QED
    BY <2>2, <2>3, EndRestores
<1>4. CASE handle
  <2> USE DEF Return, Calling
  <2>1. CASE \E r \in Results : ReturnOnly(r)
    BY <2>1, EndFrame DEF ReturnOnly
  <2>2. CASE \E w \in {"exit", "error"} : raise_out(w)
    <3> PICK w \in {"exit", "error"} : raise_out(w)
      BY <2>2
    <3>1. End(w) /\ UNCHANGED fdVars /\ w # "invariant" /\ w # "none"
      BY DEF raise_out, fdVars
    <3> QED
      BY <3>1, EndRestores
  <2>3. CASE \E fd \in Fds, h \in HostFds : Serves(fd, h) /\ Transfer(fd, h)
    BY <2>3, EndFrame DEF Transfer
  <2>4. CASE \E increment \in Increments : Granted(increment)
    BY <2>4, EndFrame DEF Granted, Grant
  <2>5. CASE \E fd \in Fds : Mapped(fd) /\ Closed(fd)
    BY <2>5, EndFrame DEF Closed
  <2>6. CASE \E fd \in Fds : Mapped(fd) /\ CloseFailed(fd)
    BY <2>6, EndFrame DEF CloseFailed
  <2>7. CASE OpenBegins
    BY <2>7, EndFrame DEF OpenBegins
  <2>8. CASE \E mask \in Masks : handle_umask(mask)
    BY <2>8, EndFrame DEF handle_umask
  <2> QED
    BY <1>4, <2>1, <2>2, <2>3, <2>4, <2>5, <2>6, <2>7, <2>8, HandleCases DEF TypeInv
<1>5. CASE os_open
  <2>1. CASE \E r \in Results : OpenReturns(r)
    BY <2>1, EndFrame DEF OpenReturns
  <2>2. CASE End("error") /\ UNCHANGED fdVars
    BY <2>2, EndRestores
  <2> QED
    BY <1>5, <2>1, <2>2 DEF os_open, Opened, Results, fdVars
<1>6. CASE UNCHANGED vars
  BY <1>6 DEF vars, heapVars, fdVars, EndInv, TerminalRestored, ChecksJustified, Mapped
<1> QED
  BY <1>1, <1>2, <1>3, <1>4, <1>5, <1>6 DEF Next

-----------------------------------------------------------------------------
(* The theorems                                                            *)

\* The invariant of the emulator process holds in every state: types and
\* masks, descriptors, heap and end of the run.
THEOREM Invariant == Spec => []Inv
<1>1. Init => Inv
  BY TypeInit, FdInit, HeapInit, EndInit DEF Inv
<1>2. Inv /\ [Next]_vars => Inv'
  <2> SUFFICES ASSUME Inv, [Next]_vars PROVE Inv'
    OBVIOUS
  <2>1. TypeInv'
    <3>1. CASE UNCHANGED vars
      BY <3>1 DEF Inv, TypeInv, TypeOK, HostUmaskKept, vars, heapVars, fdVars, maskVars
    <3> QED
      BY <3>1, TypeSetup, TypeHandle, TypeOpen DEF Inv, Next
  <2> QED
    BY <2>1, FdStep, HeapStep, EndStep DEF Inv
<1> QED
  BY <1>1, <1>2, PTL DEF Spec

\* Every variable keeps its type.
THEOREM SyscallTypes == Spec => []TypeOK
<1>1. Inv => TypeOK
  BY DEF Inv, TypeInv
<1> QED
  BY <1>1, Invariant, PTL

\* Without a failed close, the guest's descriptors are exactly its open files,
\* each under its own, and the emulator's files stay open (fd_map).
THEOREM FaithfulDescriptors == Spec => []DescriptorsFaithful
<1>1. Inv => DescriptorsFaithful
  BY DEF Inv, FdInv
<1> QED
  BY <1>1, Invariant, PTL

\* Calls are served by the file of their descriptor as long as the guest
\* keeps its standard input and output (handle_write, handle_read).
THEOREM CallsServed == Spec => []CallsReachTheirFile
<1>1. Inv => CallsReachTheirFile
  BY DEF Inv, FdInv
<1> QED
  BY <1>1, Invariant, PTL

\* Arguments and heap blocks never overlap, for arguments that are as long
\* encoded as they are as text (setup_argv, handle_sbrk).
THEOREM DisjointAllocations == Spec => []AllocationsDisjoint
<1>1. Inv => AllocationsDisjoint
  BY DEF Inv, HeapInv
<1> QED
  BY <1>1, Invariant, PTL

\* check_invariants stops a program for its heap only for what the program
\* itself asked for.
THEOREM JustifiedChecks == Spec => []ChecksJustified
<1>1. Inv => ChecksJustified
  BY DEF Inv, EndInv
<1> QED
  BY <1>1, Invariant, PTL

\* The process has its file creation mask outside of _openat.
THEOREM UmaskKept == Spec => []HostUmaskKept
<1>1. Inv => HostUmaskKept
  BY DEF Inv, TypeInv
<1> QED
  BY <1>1, Invariant, PTL

\* The terminal is restored however the run ends (riscv-emu.py:217-255),
\* unless the guest has closed standard input.
THEOREM TerminalAlwaysRestored == Spec => []TerminalRestored
<1>1. Inv => TerminalRestored
  BY DEF Inv, EndInv
<1> QED
  BY <1>1, Invariant, PTL

\* A call that reports an error has changed nothing but, for a failed close,
\* the host's table.
THEOREM ErrorsHarmless == Spec => ErrorsChangeNothing
<1> DEFINE Harmless ==
      phase' = "run" /\ a0' # "value" =>
        /\ UNCHANGED <<heapVars, fd_map, next_fd, umask, strayed>>
        /\ (host' # host => close_failed')
<1>1. ASSUME Inv, [Next]_vars
      PROVE  [Harmless]_vars
  <2> USE DEF heapVars, Return
  <2>1. CASE Setup
    <3>1. phase \in {"setup", "argv"} /\ (phase' = "run" => a0' = a0 \/ a0' = "value")
      BY <2>1 DEF Setup, load_elf, load_flatbinary, load_failed, setup_argv_string,
         setup_argv_table, StartRun
    <3> QED
      BY <1>1, <3>1 DEF Inv, EndInv
  <2>2. CASE trigger_check \/ check_invariants
    BY <2>2 DEF trigger_check, check_invariants, End, fdVars, maskVars
  <2>3. CASE handle
    <3>1. CASE \E r \in Results : ReturnOnly(r)
      BY <3>1 DEF ReturnOnly, fdVars, maskVars
    <3>2. CASE \E w \in {"exit", "error"} : raise_out(w)
      BY <3>2 DEF raise_out, End
    <3>3. CASE \/ \E fd \in Fds, h \in HostFds : Serves(fd, h) /\ Transfer(fd, h)
               \/ \E increment \in Increments : Granted(increment)
               \/ \E fd \in Fds : Mapped(fd) /\ Closed(fd)
               \/ \E mask \in Masks : handle_umask(mask)
      BY <3>3 DEF Transfer, Granted, Grant, Closed, handle_umask
    <3>4. CASE \E fd \in Fds : Mapped(fd) /\ CloseFailed(fd)
      BY <3>4 DEF CloseFailed, maskVars
    <3>5. CASE OpenBegins
      BY <3>5 DEF OpenBegins
    <3> QED
      BY <1>1, <2>3, <3>1, <3>2, <3>3, <3>4, <3>5, HandleCases DEF Inv, TypeInv
  <2>4. CASE os_open
    BY <2>4 DEF os_open, Opened, OpenReturns, End, fdVars
  <2> QED
    BY <1>1, <2>1, <2>2, <2>3, <2>4 DEF Next
<1>2. ErrorsChangeNothing <=> [][Harmless]_vars
  BY DEF ErrorsChangeNothing
<1> QED
  BY <1>1, <1>2, Invariant, PTL DEF Spec
=============================================================================
