-------------------------------- MODULE CKernel ---------------------------------
(***************************************************************************)
(* The kernel of c/kernel.c: boot, processes, traps, system calls and the  *)
(* switch from one process to the next.                                    *)
(*                                                                         *)
(* There is one hart and no interrupt is enabled, so that the kernel runs  *)
(* from a trap to the sret that ends it.  What interleaves are the user    *)
(* programs, which are arbitrary sequences of system calls, the console,   *)
(* which has a character or not whenever the kernel asks, and the threads  *)
(* of the kernel that wait inside yield, one on each process's stack.      *)
(*                                                                         *)
(* A page table, a stack and the user's registers are known by the slot of *)
(* the process they belong to.  A user program counter is the number of    *)
(* instructions past USER_BASE, modulo PcBound; only the system calls      *)
(* count.  A saved stack pointer is modelled by the stack it points into   *)
(* and the place in the code where switch_context returns.                 *)
(*                                                                         *)
(* A definition whose name has an underscore and a capitalised suffix, as  *)
(* handle_trap_ReadLate, is a faulty variant of the one that follows it.   *)
(***************************************************************************)
EXTENDS Integers

CONSTANTS
  PROC_NO_MAX,    \* the number of slots; 8 in the kernel
  Users,          \* how many user processes kernel_main may create; {1}
  FreePages,      \* pages between __free_ram and __free_ram_end; 16384
  KernelTables,   \* second-level tables that map the kernel's pages
  ImagePages,     \* how many pages a program image may have
  PcBound,        \* user program counters are counted modulo this
  Before          \* what a read of procs[-1] finds: pid and state

ASSUME KernelAssumption ==
  /\ PROC_NO_MAX \in Nat \ {0}
  /\ Users \subseteq Nat
  /\ FreePages \in Nat \ {0} /\ KernelTables \in Nat
  /\ ImagePages \subseteq Nat \ {0}
  /\ PcBound \in Nat \ {0, 1}

(* yield reads procs[-1] when the idle process, whose pid is -1, calls it.
   In the image that c/run.sh links, the 8 KiB before procs hold the zeros
   that end shell.bin, which read as an unused slot. *)
ASSUME BeforeAssumption ==
  ~ (Before.state = "RUNNABLE" /\ Before.pid > 0)

(* From pid -1 the scan of yield looks at -1, 0, 1, ..., PROC_NO_MAX - 2: with
   two slots it would miss the only user process.  The kernel has eight. *)
ASSUME ScanAssumption == PROC_NO_MAX # 2

Slot == 0..(PROC_NO_MAX - 1)

NULL == -1    \* current_proc before the idle process exists

Boot == -1    \* the boot stack, on which kernel_main runs

Bare == -1    \* satp and sscratch before the first switch

idle_proc == 0

Place == {"user_entry", "kernel_main", "getchar", "exit"}

NoContext == [stack |-> Boot, at |-> "nowhere"]

Syscall == {"putchar", "getchar", "exit", "unknown"}

Panicked == {"slots_panic", "memory_panic", "idle_panic", "unreachable_panic",
             "syscall_panic", "trap_panic"}

VARIABLES
  procs,         \* pid, state and sp of every slot
  current_proc,
  next_addr,     \* alloc_pages: how many pages were handed out
  satp,          \* the slot whose page table is active
  sscratch,      \* the slot whose stack the next trap will use
  sepc,          \* where sret will resume the user
  sp,            \* the stack the kernel runs on
  frame,         \* per slot, the trap frame and handle_trap's user_pc
  user,          \* whose registers are in the hart, and the user's pc
  pc,            \* where the hart is: in user mode or in a place in the kernel
  todo,          \* how many more processes kernel_main creates
  returns,       \* history: system calls each process has returned from
  served         \* history: who ran since each process last ran

vars == <<procs, current_proc, next_addr, satp, sscratch, sepc, sp, frame,
          user, pc, todo, returns, served>>

Trap == <<sepc, frame, user, returns>>

-----------------------------------------------------------------------------

(* After boot: .bss is zero, so every slot is unused. *)
Init ==
  /\ procs = [i \in Slot |-> [pid |-> 0, state |-> "UNUSED", sp |-> NoContext]]
  /\ current_proc = NULL
  /\ next_addr = 0
  /\ satp = Bare /\ sscratch = Bare
  /\ sepc = 0
  /\ sp = Boot
  /\ frame = [i \in Slot |-> [regs |-> i, user_pc |-> 0]]
  /\ user = [regs |-> idle_proc, pc |-> 0]
  /\ pc = "kernel_main"
  /\ \E n \in Users : todo = n + 1
  /\ returns = [i \in Slot |-> 0]
  /\ served = [i \in Slot |-> {}]

-----------------------------------------------------------------------------
(* create_process *)

Unused == {i \in Slot : procs[i].state = "UNUSED"}

FirstUnused == CHOOSE i \in Unused : \A j \in Unused : i <= j

(* Pages that the process in slot i takes: the root table, the tables that
   map the kernel and, except for the idle process, the n pages of its image
   and the table that maps them. *)
PagesNeeded(i, n) ==
  1 + KernelTables + (IF i = idle_proc THEN 0 ELSE n + 1)

(* Whether n calls of alloc_pages(1) in a row return: none may reach
   __free_ram_end. *)
alloc_pages(n) == next_addr + n < FreePages

(* create_process and what kernel_main does with the idle process. *)
create_process(n) ==
  LET i == FirstUnused
  IN  /\ pc = "kernel_main" /\ todo > 0
      /\ Unused # {} /\ alloc_pages(PagesNeeded(i, n))
      /\ next_addr' = next_addr + PagesNeeded(i, n)
      /\ procs' = [procs EXCEPT ![i] =
           [pid   |-> IF i = idle_proc THEN -1 ELSE i + 1,
            state |-> "RUNNABLE",
            sp    |-> [stack |-> i, at |-> "user_entry"]]]
      /\ current_proc' = idle_proc
      /\ todo' = todo - 1
      /\ UNCHANGED <<satp, sscratch, sp, pc, served, Trap>>

(* "no free process slots." *)
create_process_no_slot ==
  /\ pc = "kernel_main" /\ todo > 0
  /\ Unused = {}
  /\ pc' = "slots_panic"
  /\ UNCHANGED <<procs, current_proc, next_addr, satp, sscratch, sp, todo,
                 served, Trap>>

(* "out of memory.": the page that does not fit is counted, the slot is still
   unused. *)
create_process_no_memory(n) ==
  /\ pc = "kernel_main" /\ todo > 0
  /\ Unused # {} /\ ~ alloc_pages(PagesNeeded(FirstUnused, n))
  /\ next_addr' = FreePages
  /\ pc' = "memory_panic"
  /\ UNCHANGED <<procs, current_proc, satp, sscratch, sp, todo, served, Trap>>

-----------------------------------------------------------------------------
(* yield *)

(* C's remainder keeps the sign of its left operand. *)
Remainder(a, b) == IF a < 0 THEN -((-a) % b) ELSE a % b

(* The slot that the i-th turn of yield's loop looks at. *)
Scanned(ps, i) == Remainder(ps[current_proc].pid + i, PROC_NO_MAX)

Eligible(ps, k) ==
  LET proc == IF k \in Slot THEN ps[k] ELSE Before
  IN  proc.state = "RUNNABLE" /\ proc.pid > 0

NextProc_Short(ps) ==
  LET S == {i \in 0..(PROC_NO_MAX - 2) : Eligible(ps, Scanned(ps, i))}
  IN  IF S = {} THEN idle_proc
      ELSE Scanned(ps, CHOOSE i \in S : \A j \in S : i <= j)

NextProc_FromFirst(ps) ==
  LET S == {i \in Slot : Eligible(ps, i)}
      T == S \ {current_proc}
  IN  IF S = {} THEN idle_proc
      ELSE IF T = {} THEN current_proc
      ELSE CHOOSE i \in T : \A j \in T : i <= j

NextProc_Stay(ps) ==
  LET S == {i \in Slot : Eligible(ps, Scanned(ps, i - 1))}
  IN  IF S = {} THEN idle_proc
      ELSE Scanned(ps, (CHOOSE i \in S : \A j \in S : i <= j) - 1)

(* The first runnable process after the current one, cyclically, the current
   one last; the idle process if there is none. *)
NextProc(ps) ==
  LET S == {i \in Slot : Eligible(ps, Scanned(ps, i))}
  IN  IF S = {} THEN idle_proc
      ELSE Scanned(ps, CHOOSE i \in S : \A j \in S : i <= j)

(* Where the hart is once switch_context has returned to c.at: yield returns
   to its caller, and user_entry's sret leaves for user mode. *)
Resume(c) ==
  CASE c.at = "user_entry"  -> "user"
    [] c.at = "kernel_main" -> "idle_panic"
    [] c.at = "exit"        -> "unreachable_panic"
    [] OTHER                -> c.at

SaveContext_AfterLoad(ps, next, at) ==
  [ps EXCEPT ![current_proc].sp = ps[next].sp]

(* The first half of switch_context: the registers go onto the stack that the
   kernel runs on, and its pointer into the slot of the current process. *)
SaveContext(ps, next, at) ==
  [ps EXCEPT ![current_proc].sp = [stack |-> sp, at |-> at]]

(* yield, called at the place at with the process table ps: switch to the
   next process, unless it is the current one. *)
Yield(ps, at) ==
  LET next  == NextProc(ps)
      saved == SaveContext(ps, next, at)
      c     == saved[next].sp
      fresh == c.at = "user_entry"
  IN  /\ IF next = current_proc
           THEN /\ procs' = ps
                /\ pc' = Resume([stack |-> sp, at |-> at])
                /\ UNCHANGED <<current_proc, satp, sscratch, sp, served, Trap>>
           ELSE /\ procs' = saved
                /\ current_proc' = next
                /\ satp' = next /\ sscratch' = next
                /\ sp' = c.stack
                /\ pc' = Resume(c)
                /\ sepc' = IF fresh THEN 0 ELSE sepc
                /\ user' = IF fresh THEN [regs |-> c.stack, pc |-> 0] ELSE user
                /\ served' = [i \in Slot |->
                     IF i = next THEN {} ELSE served[i] \cup {next}]
                /\ UNCHANGED <<frame, returns>>
      /\ UNCHANGED <<next_addr, todo>>

(* kernel_main, on behalf of the idle process, after it created the others. *)
kernel_main_yields ==
  /\ pc = "kernel_main" /\ todo = 0
  /\ Yield(procs, "kernel_main")

-----------------------------------------------------------------------------
(* Traps: kernel_entry, handle_trap and handle_syscall *)

Incr(n) == (n + 1) % PcBound

(* A user's ecall, up to the dispatch: kernel_entry takes the stack from
   sscratch and saves the registers on it, handle_trap reads sepc. *)
kernel_entry(call) ==
  /\ pc = "user"
  /\ sepc' = user.pc
  /\ sp' = sscratch
  /\ frame' = [frame EXCEPT ![sscratch] =
                 [regs |-> user.regs, user_pc |-> user.pc]]
  /\ pc' = call
  /\ UNCHANGED <<procs, current_proc, next_addr, satp, sscratch, user, todo,
                 returns, served>>

(* Any other trap from user mode. *)
unexpected_trap == kernel_entry("trap_panic")

handle_trap_ReadLate ==
  LET back == Incr(sepc)
  IN  /\ sepc' = back
      /\ user' = [regs |-> frame[sp].regs, pc |-> back]
      /\ returns' = [returns EXCEPT ![current_proc] = Incr(@)]
      /\ pc' = "user"

(* The end of handle_trap and of kernel_entry: sepc is written back past the
   ecall, the registers are restored, and sret returns to the user. *)
handle_trap ==
  LET back == Incr(frame[sp].user_pc)
  IN  /\ sepc' = back
      /\ user' = [regs |-> frame[sp].regs, pc |-> back]
      /\ returns' = [returns EXCEPT ![current_proc] = Incr(@)]
      /\ pc' = "user"

(* SYS_PUTCHAR, and SYS_GETCHAR when the console has a character. *)
SysReturns ==
  /\ pc \in {"putchar", "getchar"}
  /\ handle_trap
  /\ UNCHANGED <<procs, current_proc, next_addr, satp, sscratch, sp, frame,
                 todo, served>>

(* SYS_GETCHAR when the console has none: yield, and ask again. *)
SysGetcharWaits ==
  /\ pc = "getchar"
  /\ Yield(procs, "getchar")

(* SYS_EXIT. *)
SysExit ==
  /\ pc = "exit"
  /\ Yield([procs EXCEPT ![current_proc].state = "EXITED"], "exit")

SysUnknown ==
  /\ pc = "unknown"
  /\ pc' = "syscall_panic"
  /\ UNCHANGED <<procs, current_proc, next_addr, satp, sscratch, sp, todo,
                 served, Trap>>

(* PANIC spins forever. *)
Halt ==
  /\ pc \in Panicked
  /\ UNCHANGED vars

-----------------------------------------------------------------------------

Next ==
  \/ \E n \in ImagePages : create_process(n) \/ create_process_no_memory(n)
  \/ create_process_no_slot
  \/ kernel_main_yields
  \/ \E call \in Syscall : kernel_entry(call)
  \/ unexpected_trap
  \/ SysReturns
  \/ SysGetcharWaits
  \/ SysExit
  \/ SysUnknown
  \/ Halt

Spec == Init /\ [][Next]_vars

(* The hart goes on executing.  Every program reads the console again and
   again, as the shell does, and the console is empty again and again. *)
FairSpec ==
  /\ Spec
  /\ WF_vars(Next)
  /\ SF_vars(kernel_entry("getchar"))
  /\ SF_vars(SysGetcharWaits)

-----------------------------------------------------------------------------
(* Properties *)

UserProc == Slot \ {idle_proc}

Runnable(i) == procs[i].state = "RUNNABLE"

(* In user mode the hart runs the current process: with its registers, its
   page table and its stack for the next trap, and at the instruction after
   its last system call, whatever ran while it waited. *)
UserCoherent ==
  pc = "user" =>
    /\ current_proc \in UserProc
    /\ user.regs = current_proc
    /\ satp = current_proc /\ sscratch = current_proc
    /\ user.pc = returns[current_proc]

(* What a process left behind when it gave up the processor survives whatever
   the others do: its context is on its own stack (kernel_main's on the boot
   stack) and, if it waits in getchar, so are its registers and the place of
   its ecall. *)
WaitersKept ==
  \A i \in Slot :
    Runnable(i) /\ i # current_proc =>
      /\ procs[i].sp.stack = IF i = idle_proc THEN Boot ELSE i
      /\ procs[i].sp.at = "getchar" =>
           frame[i] = [regs |-> i, user_pc |-> returns[i]]

(* The kernel's panics are justified: handle_syscall's PANIC("unreachable") is
   never reached, since yield never returns to a process that has exited, and
   "switched to the idle process!" is reached only when no user process can
   run: the scan of yield misses none. *)
PanicsJustified ==
  /\ pc # "unreachable_panic"
  /\ pc = "idle_panic" => \A i \in UserProc : ~ Runnable(i)

(* yield is fair: it gives no process a second turn while another runnable
   process waits for its first. *)
NoOvertaking ==
  [][\A i \in UserProc :
       Runnable(i) /\ current_proc' # current_proc /\ current_proc' # i
         => current_proc' \notin served[i]]_vars

(* Every runnable process runs, and every process that waits for the console
   gets to ask it again, unless the kernel panics. *)
EveryoneRuns ==
  \A i \in UserProc : Runnable(i) ~> current_proc = i \/ pc \in Panicked

=============================================================================
