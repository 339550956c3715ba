------------------------------ MODULE Syscalls ------------------------------
(***************************************************************************)
(* What a guest program gets from the emulator process: its arguments and  *)
(* its heap (machine.py), the Newlib system calls (syscalls.py), and the   *)
(* end of the run (riscv-emu.py).                                          *)
(*                                                                         *)
(* The guest is arbitrary: it makes any call with any arguments.  The host *)
(* kernel is the descriptor table of the emulator process; it hands out    *)
(* the lowest free descriptor, and may refuse any call.  The open file     *)
(* that a successful _openat creates is named by the guest descriptor that *)
(* the call returns; 0, 1 and 2 are the files the process started with.    *)
(*                                                                         *)
(* Addresses are byte addresses; the data that calls move is left out.     *)
(***************************************************************************)
EXTENDS Integers, FiniteSets

CONSTANTS
  MaxFd,       \* bound: guest descriptors are 0 .. MaxFd
  MaxHostFd,   \* the process may have 0 .. MaxHostFd open
  OwnFds,      \* host descriptors of the emulator itself: log, pty, disk image
  HeapStarts,  \* values of the symbol __heap_start
  StackBottom, \* the value of the symbol __stack_bottom
  MIN_GAP,     \* 256 in the code
  Args,        \* command-line arguments: their lengths as text and encoded
  MaxArgs,     \* bound on the number of arguments
  Increments,  \* what the guest asks of _sbrk
  Masks,       \* file mode creation masks
  RawTty,      \* --raw-tty
  CheckInv     \* --check-inv

Fds == 0 .. MaxFd
HostFds == 0 .. MaxHostFd
Std == 0 .. 2
None == -1   \* Python's None, and a descriptor that is in no table
Own == -2    \* a file of the emulator itself
NoMask == "000"

ASSUME SyscallsAssumption ==
  /\ MaxFd \in Nat /\ MaxFd >= 2
  /\ MaxHostFd \in Nat /\ MaxHostFd >= 2
  /\ OwnFds \subseteq HostFds \ Std
  /\ HeapStarts \subseteq Nat
  /\ StackBottom \in Nat
  /\ MIN_GAP \in Nat
  /\ Args \subseteq [chars : Nat, bytes : Nat]
  /\ MaxArgs \in Nat
  /\ Increments \subseteq Nat
  /\ NoMask \notin Masks
  /\ RawTty \in BOOLEAN
  /\ CheckInv \in BOOLEAN

VARIABLES
  phase,        \* "setup", "argv", "run", "open" (in os.open), "ended"
  outcome,      \* how the run ended: by _exit, by check_invariants, by any
                \* other exception
  heap_end, stack_bottom,
  argc,         \* arguments stored so far
  check_enable, \* machine.check_enable
  fd_map, next_fd, umask,
  a0,           \* the last result: "value", "errno" (a negative Python
                \* integer) or "minus1" (the word 0xFFFFFFFF)
  host,         \* host descriptor -> open file
  host_umask,
  old_umask,    \* the host's mask as _openat saved it
  tty,          \* "cooked" or "raw"
  \* history
  blocks,       \* memory given out by setup_argv and by _sbrk
  wide,         \* some argument is longer encoded than as text
  odd_break,    \* _sbrk moved the break by other than whole words
  close_failed, \* os.close has failed for a guest descriptor
  strayed       \* some call on a descriptor was served by another file

heapVars == <<heap_end, stack_bottom, argc, blocks, wide, odd_break>>
fdVars == <<fd_map, next_fd, host, close_failed, strayed>>
maskVars == <<umask, host_umask, old_umask>>
vars == <<phase, outcome, a0, check_enable, tty, heapVars, fdVars, maskVars>>

\* A slip in RoundUp: the sum is not masked.
RoundUp_unmasked(n, k) == n + k - 1

\* (n + k - 1) & ~(k - 1)
RoundUp(n, k) == n + k - 1 - ((n + k - 1) % k)

Init ==
  /\ phase = "setup"
  /\ outcome = "none"
  /\ heap_end = None
  /\ stack_bottom = None
  /\ argc = 0
  /\ check_enable = FALSE
  /\ fd_map = [g \in Fds |-> IF g \in Std THEN g ELSE None]
  /\ next_fd = 3
  /\ umask \in Masks
  /\ a0 = "value"
  /\ host = [h \in HostFds |-> IF h \in Std THEN h
                                ELSE IF h \in OwnFds THEN Own ELSE None]
  /\ host_umask \in Masks
  /\ old_umask = host_umask
  /\ tty = "cooked"
  /\ blocks = {}
  /\ wide = FALSE
  /\ odd_break = FALSE
  /\ close_failed = FALSE
  /\ strayed = FALSE

-----------------------------------------------------------------------------
(* Loading the program                                                     *)

\* The run begins; --raw-tty takes the terminal over.
StartRun ==
  /\ phase' = "run"
  /\ tty' = IF RawTty THEN "raw" ELSE tty

\* h and s are the addresses of __heap_start and __stack_bottom, None when
\* the executable has no such symbol; arguments are passed if there is a heap.
load_elf(h, s) ==
  /\ phase = "setup"
  /\ heap_end' = h
  /\ stack_bottom' = s
  /\ IF h # None THEN phase' = "argv" /\ UNCHANGED tty ELSE StartRun
  /\ UNCHANGED <<outcome, a0, check_enable, argc, blocks, wide, odd_break>>
  /\ UNCHANGED <<fdVars, maskVars>>

load_flatbinary ==
  /\ phase = "setup"
  /\ StartRun
  /\ UNCHANGED <<outcome, a0, check_enable, heapVars, fdVars, maskVars>>

\* MachineError while loading: sys.exit(1) before the terminal is touched.
load_failed ==
  /\ phase \in {"setup", "argv"}
  /\ phase' = "ended"
  /\ outcome' = "error"
  /\ UNCHANGED <<a0, check_enable, tty, heapVars, fdVars, maskVars>>

\* One turn of the first loop of setup_argv.  The encoded string and its NUL
\* are stored; the heap moves by the length of the text and one.
setup_argv_string(arg) ==
  /\ phase = "argv" /\ argc < MaxArgs
  /\ argc' = argc + 1
  /\ blocks' = blocks \cup {[lo |-> heap_end, hi |-> heap_end + arg.bytes + 1, by |-> "argv"]}
  /\ heap_end' = RoundUp(heap_end + arg.chars + 1, 4)
  /\ wide' = (wide \/ arg.bytes > arg.chars)
  /\ UNCHANGED <<phase, outcome, a0, check_enable, tty, stack_bottom, odd_break>>
  /\ UNCHANGED <<fdVars, maskVars>>

\* The table of pointers with its NULL, the final alignment, a0 and a1.
setup_argv_table ==
  /\ phase = "argv" /\ argc > 0
  /\ blocks' = blocks \cup {[lo |-> heap_end, hi |-> heap_end + 4 * (argc + 1), by |-> "argv"]}
  /\ heap_end' = RoundUp(heap_end + 4 * (argc + 1), 8)
  /\ StartRun
  /\ a0' = "value"
  /\ UNCHANGED <<outcome, check_enable, stack_bottom, argc, wide, odd_break>>
  /\ UNCHANGED <<fdVars, maskVars>>

-----------------------------------------------------------------------------
(* The end of the run                                                      *)

\* A slip in End: the terminal is restored for errors only.
End_errors_only(why) ==
  /\ phase' = "ended"
  /\ outcome' = why
  /\ tty' = IF why # "exit" /\ host[0] = 0 THEN "cooked" ELSE tty

\* An exception leaves machine.run(); the terminal is restored through host
\* descriptor 0, which fails unless it is still the terminal.
End(why) ==
  /\ phase' = "ended"
  /\ outcome' = why
  /\ tty' = IF RawTty /\ host[0] = 0 THEN "cooked" ELSE tty

\* The heap rules of check_invariants.
HeapLegal ==
  /\ heap_end # None /\ stack_bottom # None => heap_end + MIN_GAP <= stack_bottom
  /\ heap_end # None => heap_end % 4 = 0

Checking == CheckInv /\ check_enable

trigger_check ==
  /\ phase = "run" /\ CheckInv /\ ~check_enable
  /\ check_enable' = TRUE
  /\ UNCHANGED <<phase, outcome, a0, tty, heapVars, fdVars, maskVars>>

check_invariants ==
  /\ phase = "run" /\ Checking /\ ~HeapLegal
  /\ End("invariant")
  /\ UNCHANGED <<a0, check_enable, heapVars, fdVars, maskVars>>

\* The guest's next instruction is an ECALL, and the checks let it pass.
Calling == phase = "run" /\ (Checking => HeapLegal)

\* A system call comes back with a result of this kind.
Return(result) ==
  /\ Calling
  /\ a0' = result
  /\ UNCHANGED <<phase, outcome, tty, check_enable>>

\* A call that comes back and changes nothing but a0.
ReturnOnly(result) ==
  /\ Return(result)
  /\ UNCHANGED <<heapVars, fdVars, maskVars>>

\* _exit, an unknown call, a memory access that raises, Ctrl-C, or a Python
\* exception that the handler does not catch.
raise_out(why) ==
  /\ Calling
  /\ End(why)
  /\ UNCHANGED <<a0, check_enable, heapVars, fdVars, maskVars>>

handle_exit == raise_out("exit")
handle_unknown == raise_out("error")
keyboard_interrupt == raise_out("error")

-----------------------------------------------------------------------------
(* Memory                                                                  *)

\* The break moves up, and the guest owns what lies between.
Grant(increment) ==
  /\ Return("value")
  /\ heap_end' = heap_end + increment
  /\ blocks' = blocks \cup
       {[lo |-> heap_end, hi |-> heap_end + increment, by |-> "sbrk"]}
  /\ odd_break' = (odd_break \/ increment % 4 # 0)
  /\ UNCHANGED <<stack_bottom, argc, wide, fdVars, maskVars>>

\* A slip in handle_sbrk: the limit is compared with the old break.
handle_sbrk_old_end(increment) ==
  /\ heap_end # None /\ stack_bottom # None
  /\ heap_end < stack_bottom
  /\ Grant(increment)

\* increment is unsigned: a negative request is a huge one and fails.
handle_sbrk(increment) ==
  \/ /\ heap_end = None \/ stack_bottom = None  \* InvalidSyscallError, or
     /\ raise_out("error")                      \* None + increment
  \/ /\ heap_end # None /\ stack_bottom # None
     /\ heap_end + increment >= stack_bottom
     /\ ReturnOnly("minus1")
  \/ /\ heap_end # None /\ stack_bottom # None
     /\ heap_end + increment < stack_bottom
     /\ Grant(increment)

-----------------------------------------------------------------------------
(* Descriptors                                                             *)

\* A descriptor that is in fd_map.
Mapped(fd) == fd_map[fd] # None

\* The host serves the call on host descriptor h; what is written to 2 is
\* meant to go where 1 goes.
Transfer(fd, h) ==
  /\ host[h] # None
  /\ Return("value")
  /\ strayed' = (strayed \/ (host[h] # fd /\ ~(fd = 2 /\ host[h] = 1)))
  /\ UNCHANGED <<fd_map, next_fd, host, close_failed, heapVars, maskVars>>

\* A slip in handle_write: guest descriptors are used on the host as they are.
handle_write_unmapped(fd) ==
  \/ fd \in HostFds /\ Transfer(fd, fd)
  \/ ReturnOnly("errno")

\* 1 and 2 are printed on sys.stdout whatever fd_map says; an OSError there
\* is not caught.
handle_write(fd) ==
  \/ fd \in {1, 2} /\ Transfer(fd, 1)
  \/ fd \in {1, 2} /\ host[1] = None /\ ReturnOnly("value")  \* buffered
  \/ fd \notin {1, 2} /\ Mapped(fd) /\ Transfer(fd, fd_map[fd])
  \/ fd \notin {1, 2} /\ ReturnOnly("errno")   \* OSError, or not in fd_map
  \/ raise_out("error")    \* load_binary; an OSError of print

\* 0 is sys.stdin, with end of file read as no data; os.read is not in a try.
handle_read(fd) ==
  \/ fd = 0 /\ Transfer(fd, 0)
  \/ fd # 0 /\ Mapped(fd) /\ Transfer(fd, fd_map[fd])
  \/ fd # 0 /\ ~Mapped(fd) /\ ReturnOnly("errno")
  \/ (fd = 0 \/ Mapped(fd)) /\ raise_out("error")   \* os.read, store_binary

\* _lseek goes to the host for every descriptor, _fstat not for 0, 1 and 2.
handle_lseek(fd) ==
  \/ Mapped(fd) /\ Transfer(fd, fd_map[fd])
  \/ Mapped(fd) /\ raise_out("error")    \* os.lseek refuses whence
  \/ ReturnOnly("errno")

handle_fstat(fd) ==
  \/ fd \in Std /\ ReturnOnly("value")
  \/ fd \notin Std /\ Mapped(fd) /\ Transfer(fd, fd_map[fd])
  \/ fd \notin Std /\ ReturnOnly("errno")
  \/ (fd \in Std \/ Mapped(fd)) /\ raise_out("error")  \* store_binary

handle_isatty(fd) ==
  \/ (fd \in Std \/ Mapped(fd)) /\ ReturnOnly("value")
  \/ fd \notin Std /\ ~Mapped(fd) /\ ReturnOnly("errno")

\* The lowest free host descriptor.
LowestFree(h) == host[h] = None /\ \A k \in HostFds : k < h => host[k] # None

\* The first half of _openat: the host's mask is set to 0, and os.open begins.
\* It may wait, and Ctrl-C may end it.
OpenBegins ==
  /\ Calling
  /\ phase' = "open"
  /\ old_umask' = host_umask
  /\ host_umask' = NoMask
  /\ UNCHANGED <<outcome, a0, tty, check_enable, umask, heapVars, fdVars>>

handle_openat ==
  \/ OpenBegins
  \/ ReturnOnly("errno")     \* dirfd is not AT_FDCWD
  \/ raise_out("error")      \* load_cstring

\* The second half of _openat: whatever happens, the mask is put back.
OpenReturns(result) ==
  /\ phase = "open"
  /\ phase' = "run"
  /\ a0' = result
  /\ host_umask' = old_umask
  /\ UNCHANGED <<outcome, tty, check_enable, umask, old_umask, heapVars>>

\* The host has opened a file as h, and the guest gets it as fd.
Opened(h, fd) ==
  /\ LowestFree(h)
  /\ OpenReturns("value")
  /\ host' = [host EXCEPT ![h] = fd]
  /\ fd_map' = [fd_map EXCEPT ![fd] = h]
  /\ next_fd' = fd + 1
  /\ UNCHANGED <<close_failed, strayed>>

\* Slips in os_open: the number of open descriptors names the new one; next_fd
\* is taken before the host is asked; the mask is not put back on an error.
os_open_counted ==
  LET fd == Cardinality({g \in Fds : Mapped(g)}) IN
  fd \in Fds /\ \E h \in HostFds : Opened(h, fd)
os_open_early_fd ==
  /\ next_fd \in Fds
  /\ OpenReturns("errno")
  /\ next_fd' = next_fd + 1
  /\ UNCHANGED <<fd_map, host, close_failed, strayed>>
os_open_no_finally ==
  /\ phase = "open"
  /\ phase' = "run"
  /\ a0' = "errno"
  /\ UNCHANGED <<outcome, tty, check_enable, maskVars, heapVars, fdVars>>

os_open ==
  \/ next_fd \in Fds /\ \E h \in HostFds : Opened(h, next_fd)
  \/ OpenReturns("errno") /\ UNCHANGED fdVars    \* OSError
  \/ /\ phase = "open"                          \* any other exception
     /\ End("error")
     /\ host_umask' = old_umask
     /\ UNCHANGED <<a0, check_enable, umask, old_umask, heapVars, fdVars>>

\* os.close, then the entry is deleted.
Closed(fd) ==
  /\ host[fd_map[fd]] # None
  /\ Return("value")
  /\ fd_map' = [fd_map EXCEPT ![fd] = None]
  /\ host' = [host EXCEPT ![fd_map[fd]] = None]
  /\ UNCHANGED <<next_fd, close_failed, strayed, heapVars, maskVars>>

\* os.close fails: the entry stays, while the host has released an open
\* descriptor all the same (EIO).
CloseFailed(fd) ==
  /\ Return("errno")
  /\ host' = [host EXCEPT ![fd_map[fd]] = None]
  /\ close_failed' = TRUE
  /\ UNCHANGED <<fd_map, next_fd, strayed, heapVars, maskVars>>

handle_close(fd) ==
  \/ Mapped(fd) /\ (Closed(fd) \/ CloseFailed(fd))
  \/ ~Mapped(fd) /\ ReturnOnly("errno")

-----------------------------------------------------------------------------
(* Calls that only answer                                                  *)

\* _kill is not implemented, _getpid answers 1.
handle_kill == ReturnOnly("errno")
handle_getpid == ReturnOnly("value")

handle_umask(new_mask) ==
  /\ Return("value")
  /\ umask' = new_mask
  /\ UNCHANGED <<host_umask, old_umask, heapVars, fdVars>>

\* _mkdirat and _unlinkat act on the host's file system, which is not
\* represented.  Every exception of the host becomes an error number.
handle_mkdirat ==
  \/ ReturnOnly("value") \/ ReturnOnly("errno")
  \/ raise_out("error")    \* load_cstring
handle_unlinkat ==
  \/ ReturnOnly("value") \/ ReturnOnly("errno")
  \/ raise_out("error")    \* load_cstring

\* The dispatch on a7; a descriptor beyond Fds behaves as one not in fd_map.
handle ==
  \/ handle_exit
  \/ handle_unknown
  \/ keyboard_interrupt
  \/ \E increment \in Increments : handle_sbrk(increment)
  \/ \E fd \in Fds :
       \/ handle_write(fd)
       \/ handle_read(fd)
       \/ handle_lseek(fd)
       \/ handle_fstat(fd)
       \/ handle_isatty(fd)
       \/ handle_close(fd)
  \/ handle_openat
  \/ handle_kill
  \/ handle_getpid
  \/ \E m \in Masks : handle_umask(m)
  \/ handle_mkdirat
  \/ handle_unlinkat

Setup ==
  \/ \E h \in HeapStarts \cup {None}, s \in {StackBottom, None} : load_elf(h, s)
  \/ load_flatbinary
  \/ load_failed
  \/ \E arg \in Args : setup_argv_string(arg)
  \/ setup_argv_table

Next == Setup \/ trigger_check \/ check_invariants \/ handle \/ os_open

Spec == Init /\ [][Next]_vars

-----------------------------------------------------------------------------
(* Properties                                                              *)

\* Every variable keeps its type; descriptors at or beyond next_fd have never
\* been handed out.
TypeOK ==
  /\ phase \in {"setup", "argv", "run", "open", "ended"}
  /\ outcome \in {"none", "exit", "invariant", "error"}
  /\ heap_end \in Nat \cup {None}
  /\ stack_bottom \in {StackBottom, None}
  /\ argc \in 0 .. MaxArgs
  /\ check_enable \in BOOLEAN
  /\ fd_map \in [Fds -> HostFds \cup {None}]
  /\ next_fd \in 3 .. MaxFd + 1
  /\ \A g \in Fds : g >= next_fd => fd_map[g] = None
  /\ umask \in Masks
  /\ a0 \in {"value", "errno", "minus1"}
  /\ host \in [HostFds -> Fds \cup {None, Own}]
  /\ host_umask \in Masks \cup {NoMask}
  /\ old_umask \in Masks
  /\ tty \in {"cooked", "raw"}
  /\ blocks \subseteq [lo : Nat, hi : Nat, by : {"argv", "sbrk"}]
  /\ wide \in BOOLEAN
  /\ odd_break \in BOOLEAN
  /\ close_failed \in BOOLEAN
  /\ strayed \in BOOLEAN

\* As long as no host close has failed, the files the process has open are
\* those the guest holds a descriptor for, each under the descriptor it was
\* opened for, and the emulator's own: no sequence of opens and closes makes
\* a descriptor of the guest point at another file, leaks a file, or closes
\* one of the emulator's.
DescriptorsFaithful ==
  ~close_failed =>
    /\ \A g \in Fds : Mapped(g) => host[fd_map[g]] = g
    /\ \A h \in HostFds : host[h] \in Fds => fd_map[host[h]] = h
    /\ \A h \in OwnFds : host[h] = Own

\* As long as the guest has not closed its standard input and output, every
\* read, write, seek and stat was served by the file of its descriptor.
CallsReachTheirFile ==
  ~close_failed /\ Mapped(0) /\ Mapped(1) => ~strayed

\* A system call that reports an error has changed nothing in the emulator,
\* and nothing on the host except that a failed close has released its
\* descriptor.
ErrorsChangeNothing ==
  [][phase' = "run" /\ a0' # "value" =>
       /\ UNCHANGED <<heapVars, fd_map, next_fd, umask, strayed>>
       /\ (host' # host => close_failed')]_vars

\* The argument strings, the argument table and every block that _sbrk has
\* granted are disjoint, and the granted blocks end below the stack, as long
\* as every argument is as long encoded as it is as text.
AllocationsDisjoint ==
  ~wide =>
    /\ \A b, c \in blocks : b = c \/ b.hi <= c.lo \/ c.hi <= b.lo
    /\ \A b \in blocks : b.by = "sbrk" => b.hi < stack_bottom

\* check_invariants ends the run of a program for its heap only if the
\* program itself moved the break by other than whole words or came within
\* MIN_GAP of the stack: what setup_argv leaves behind is always aligned.
ChecksJustified ==
  outcome = "invariant" => odd_break \/ heap_end + MIN_GAP > stack_bottom

\* Outside of _openat the emulator process has a file mode creation mask,
\* which _mkdirat relies on, whatever became of the opens.
HostUmaskKept == phase # "open" => host_umask \in Masks

\* However the run ends, the terminal is back in cooked mode, unless the
\* guest has closed the emulator's standard input.
TerminalRestored ==
  phase = "ended" /\ Mapped(0) /\ ~close_failed => tty = "cooked"
=============================================================================
