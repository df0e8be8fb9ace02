---------------------------------- MODULE Proc ----------------------------------
(***************************************************************************)
(* Processes and context switches of rust/src/proc.rs, driven by           *)
(* kernel_main of rust/src/kernel.rs.                                      *)
(*                                                                         *)
(* There is one hart, and interrupts are never enabled, so one thread of   *)
(* control runs until it calls give_up.  The threads of control are        *)
(* kernel_main, on the boot stack, and one for each slot of the process    *)
(* table, on the slot's stack; the thread of slot 0 would be the idle      *)
(* process, whose entry point is address 0.  A stack pointer is modelled   *)
(* by what a context switch to it resumes: a thread, at its entry point if *)
(* the context was made by create_process, in give_up if it was saved by   *)
(* switch_context.  pid is written and never read, and is left out.        *)
(*                                                                         *)
(* A definition whose name has an underscore and a suffix, as              *)
(* switch_context_NoSave, is a faulty variant of the one that follows it.   *)
(***************************************************************************)
EXTENDS Integers

CONSTANTS
  PROC_MAX,   \* the number of slots; 8 in the kernel
  Users,      \* how many processes kernel_main may create; {2} in the kernel
  Spawns      \* whether a process, too, may call proc::new

ASSUME ProcAssumption ==
  /\ PROC_MAX \in Nat \ {0}
  /\ Users \subseteq Nat
  /\ Spawns \in BOOLEAN

Slot == 0..(PROC_MAX - 1)

Main == -1

Thread == Slot \cup {Main}

Context == [thread : Thread, at : {"entry", "give_up"}]

(* A slot in zeroed memory: Unused, and its stack pointer is null. *)
NoContext == [thread |-> Main, at |-> "nowhere"]

Bare == -1   \* satp = 0: no translation; sscratch not yet written

VARIABLES
  table,          \* ProcTable.table: state and sp of every slot
  curr_proc_idx,  \* ProcTable.curr_proc_idx
  lock,           \* the mutex of PROC_TABLE
  satp,           \* the slot whose page table is active, or Bare
  sscratch,       \* the slot whose stack a trap would use, or Bare
  thread,         \* the thread of control that runs
  pc,             \* where it is: between calls, inside give_up, or stopped
  switch,         \* give_up's prev_sp and next_sp, as slots
  todo            \* how many more processes kernel_main creates

vars == <<table, curr_proc_idx, lock, satp, sscratch, thread, pc, switch, todo>>

Panicked == {"slots_panic", "memory_panic", "idle_panic", "trap_panic"}

-----------------------------------------------------------------------------

(* After kernel_init: RAM is zero, so every slot reads as Unused. *)
Init ==
  /\ table = [i \in Slot |-> [state |-> "Unused", sp |-> NoContext]]
  /\ curr_proc_idx = 0
  /\ lock = "Free"
  /\ satp = Bare
  /\ sscratch = Bare
  /\ thread = Main
  /\ pc = "run"
  /\ switch = [prev |-> 0, next |-> 0]
  /\ \E n \in Users : todo = n + 1

-----------------------------------------------------------------------------
(* proc::new and ProcTable::create_process *)

Unused == {i \in Slot : table[i].state = "Unused"}

(* The first unused slot. *)
next_unused == CHOOSE i \in Unused : \A j \in Unused : i <= j

(* Who may call proc::new: kernel_main, for the idle process and the others
   it creates, and, if Spawns, any process. *)
MayCreate == IF thread = Main THEN todo > 0 ELSE Spawns

Created == [state |-> "Runnable",
            sp    |-> [thread |-> next_unused, at |-> "entry"]]

create_process ==
  /\ pc = "run" /\ MayCreate
  /\ lock = "Free"
  /\ Unused # {}
  /\ table' = [table EXCEPT ![next_unused] = Created]
  /\ todo' = IF thread = Main THEN todo - 1 ELSE todo
  /\ UNCHANGED <<curr_proc_idx, lock, satp, sscratch, thread, pc, switch>>

(* The allocator has no page for the page tables: FixedVec::new panics, when
   the slot is already Runnable and the lock is held. *)
create_process_no_memory ==
  /\ pc = "run" /\ MayCreate
  /\ lock = "Free"
  /\ Unused # {}
  /\ table' = [table EXCEPT ![next_unused] = Created]
  /\ lock' = "Locked"
  /\ pc' = "memory_panic"
  /\ UNCHANGED <<curr_proc_idx, satp, sscratch, thread, switch, todo>>

(* "no free process slots." *)
create_process_no_slot ==
  /\ pc = "run" /\ MayCreate
  /\ lock = "Free"
  /\ Unused = {}
  /\ lock' = "Locked"
  /\ pc' = "slots_panic"
  /\ UNCHANGED <<table, curr_proc_idx, satp, sscratch, thread, switch, todo>>

-----------------------------------------------------------------------------
(* give_up *)

Candidates == {i \in 1..(PROC_MAX - 1) :
                 table[i].state = "Runnable" /\ i # curr_proc_idx}

next_runnable_idx_Last ==
  IF Candidates = {} THEN 0
  ELSE CHOOSE i \in Candidates : \A j \in Candidates : j <= i

next_runnable_idx_Self ==
  LET S == {i \in 1..(PROC_MAX - 1) : table[i].state = "Runnable"}
  IN  IF S = {} THEN 0 ELSE CHOOSE i \in S : \A j \in S : i <= j

(* The first runnable slot other than the current one, or the idle slot. *)
next_runnable_idx ==
  IF Candidates = {} THEN 0
  ELSE CHOOSE i \in Candidates : \A j \in Candidates : i <= j

give_up_NoSatp ==
  /\ pc = "run" /\ (thread = Main => todo = 0)
  /\ lock = "Free"
  /\ lock' = "Locked"
  /\ switch' = [prev |-> curr_proc_idx, next |-> next_runnable_idx]
  /\ satp' = curr_proc_idx
  /\ sscratch' = next_runnable_idx
  /\ curr_proc_idx' = next_runnable_idx
  /\ pc' = "locked"
  /\ UNCHANGED <<table, thread, todo>>

(* Up to the drop of the guard: choose the next process, install its page
   table and its trap stack, and make it the current one. *)
give_up ==
  /\ pc = "run" /\ (thread = Main => todo = 0)
  /\ lock = "Free"
  /\ lock' = "Locked"
  /\ switch' = [prev |-> curr_proc_idx, next |-> next_runnable_idx]
  /\ satp' = next_runnable_idx
  /\ sscratch' = next_runnable_idx
  /\ curr_proc_idx' = next_runnable_idx
  /\ pc' = "locked"
  /\ UNCHANGED <<table, thread, todo>>

drop_guard ==
  /\ pc = "locked"
  /\ lock' = "Free"
  /\ pc' = "switch"
  /\ UNCHANGED <<table, curr_proc_idx, satp, sscratch, thread, switch, todo>>

(* Where a thread is when it is resumed with the context c: kernel_main
   returns from give_up to its panic, and the idle entry point faults. *)
Resume(c) ==
  IF c.at = "give_up"
    THEN IF c.thread = Main THEN "idle_panic" ELSE "run"
    ELSE IF c.thread = 0 THEN "trap_panic" ELSE "run"

(* Save the running thread's registers and stack pointer through prev_sp,
   then load the stack pointer and the registers through next_sp. *)
switch_context ==
  LET saved == [table EXCEPT ![switch.prev].sp =
                  [thread |-> thread, at |-> "give_up"]]
  IN  /\ pc = "switch"
      /\ table' = saved
      /\ thread' = saved[switch.next].sp.thread
      /\ pc' = Resume(saved[switch.next].sp)
      /\ UNCHANGED <<curr_proc_idx, lock, satp, sscratch, switch, todo>>

(* The panic! macro waits for interrupts forever. *)
Halt ==
  /\ pc \in Panicked
  /\ UNCHANGED vars

-----------------------------------------------------------------------------

Next ==
  \/ create_process
  \/ create_process_no_memory
  \/ create_process_no_slot
  \/ give_up
  \/ drop_guard
  \/ switch_context
  \/ Halt

Spec == Init /\ [][Next]_vars

(* The hart goes on executing, and nothing interrupts it.  A process may
   create others only while there are unused slots, so that it gives up the
   processor in the end, as the loops of the kernel's two processes do. *)
FairSpec == Spec /\ WF_vars(Next)

-----------------------------------------------------------------------------
(* Properties *)

(* The thread that belongs in slot i once kernel_main has given up. *)
Owner(i) == IF i = 0 THEN Main ELSE i

Runnable(i) == i \in Slot /\ table[i].state = "Runnable"

TypeOK ==
  /\ table \in [Slot -> [state : {"Unused", "Runnable"},
                         sp : Context \cup {NoContext}]]
  /\ curr_proc_idx \in Slot
  /\ lock \in {"Free", "Locked"}
  /\ satp \in Slot \cup {Bare}
  /\ sscratch \in Slot \cup {Bare}
  /\ thread \in Thread
  /\ pc \in {"run", "locked", "switch"} \cup Panicked
  /\ switch \in [prev : Slot, next : Slot]
  /\ todo \in Nat

(* Outside give_up the running thread is the one of the current slot, with
   that slot's page table and trap stack, and every other runnable slot holds
   the context of its own thread: no context is lost, duplicated or resumed
   under another process's page table. *)
Coherent ==
  pc = "run" =>
    /\ thread = Owner(curr_proc_idx)
    /\ satp # Bare => satp = curr_proc_idx /\ sscratch = curr_proc_idx
    /\ \A i \in Slot \ {curr_proc_idx} :
         Runnable(i) => table[i].sp.thread = Owner(i)

(* The context that create_process made for the idle process, which would
   jump to address 0, is never resumed: kernel_main's own replaces it first. *)
IdleEntryNeverRuns == pc # "trap_panic" /\ thread # 0

(* The kernel stops with "switched to idle proc" only if fewer than two
   processes were created. *)
IdleOnlyIfAlone == pc = "idle_panic" => ~(Runnable(1) /\ Runnable(2))

(* give_up is not round robin: it scans from the first slot, so that only the
   first two processes are ever chosen, however many there are. *)
OnlyFirstTwoRun == thread \in {Main, 1, 2}

(* If there are two processes, each of the first two runs again and again:
   neither keeps the processor, the lock is never left held, and the kernel
   stops only when memory or slots run out, neither in the idle process's
   entry point nor with "switched to idle proc". *)
FirstTwoAlternate ==
  \A i \in {1, 2} :
    Runnable(1) /\ Runnable(2) ~> \/ thread = i /\ pc = "run"
                                  \/ pc \in {"memory_panic", "slots_panic"}

=============================================================================
