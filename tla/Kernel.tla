--------------------------------- MODULE Kernel ---------------------------------
(***************************************************************************)
(* The Rust kernel put together: boot and kernel_init (kernel.rs), the     *)
(* globals MEMORY and PROC_TABLE with their once-cells and locks (mem.rs,  *)
(* proc.rs), and the calls that nest inside them.                          *)
(*                                                                         *)
(* Every thread of control has a program: the operations it has still to   *)
(* perform until it is back in its own code.  A call puts the operations   *)
(* of its body in front of the caller's.  Once-cells and locks behave as   *)
(* Sync specifies; there is one hart, so that a thread that waits waits    *)
(* for ever.  An allocation may fail: how much RAM is left is not kept.    *)
(***************************************************************************)
EXTENDS Integers, Sequences

CONSTANTS
  PROC_MAX, Users, Spawns,  \* as in Proc
  Harts,        \* the ids that the firmware may pass to boot
  KernelPages,  \* the pages from __kernel_base to __free_ram_end
  Span          \* the pages that one second-level table maps

ASSUME KernelAssumption ==
  /\ PROC_MAX \in Nat \ {0} /\ Users \subseteq Nat /\ Spawns \in BOOLEAN
  /\ KernelPages \in Nat /\ Span \in Nat \ {0}

Slot == 0..(PROC_MAX - 1)

Main == -1

Bare == -1

None == -2

Thread == Slot \cup {Main}

Cell == {"MEMORY", "PROC_TABLE"}

(* .bss with the cells, the reserved region of InitialAlloc, and the RAM of
   the buddy allocator. *)
Area == {"bss", "reserve", "ram"}

VARIABLES
  hart_id,   \* the argument of boot
  prog,      \* prog[t]: what thread t has still to do
  thread,    \* the thread of control that runs
  once,      \* the state of each cell's Once
  lock,      \* the state of each cell's Mutex
  area,      \* what has become of each region of memory since the reset
  state, sp, \* of every slot of the process table
  mapped,    \* the pages that the slot's page table maps
  claim,     \* the slot that create_process is filling, or None
  curr_proc_idx, satp, sscratch, switch, todo,   \* as in Proc
  status     \* "run", or why the kernel has stopped

procs == <<state, sp, mapped, claim>>

sched == <<curr_proc_idx, satp, sscratch, switch>>

vars == <<hart_id, prog, thread, once, lock, area, procs, sched, todo, status>>

-----------------------------------------------------------------------------
(* Operations *)

Op(op, arg) == [op |-> op, arg |-> arg, how |-> ""]

get_or_init(cell, how) == [op |-> "get", arg |-> cell, how |-> how]

phalloc_NoUnlock ==
  <<get_or_init("MEMORY", "none"), Op("lock", "MEMORY"), Op("alloc", 0)>>

(* mem::buddy_alloc and mem::buddy_free, through phalloc and phree.  All that
   is freed are vectors of zero bytes, for which buddy_free returns at once. *)
phalloc ==
  <<get_or_init("MEMORY", "none"), Op("lock", "MEMORY"),
    Op("unlock", "MEMORY"), Op("alloc", 0)>>

phree ==
  <<get_or_init("MEMORY", "none"), Op("lock", "MEMORY"), Op("unlock", "MEMORY")>>

(* proc::new: both vectors of PageTable::new, the drop of the two they
   replace, and the loop that maps the kernel. *)
proc_new ==
  <<get_or_init("PROC_TABLE", "table"), Op("lock", "PROC_TABLE"), Op("claim", 0)>>
    \o phalloc \o phalloc \o phree \o phree \o <<Op("map", 0), Op("unlock", "PROC_TABLE")>>

give_up ==
  <<get_or_init("PROC_TABLE", "table"), Op("lock", "PROC_TABLE"), Op("choose", 0),
    Op("unlock", "PROC_TABLE"), Op("switch", 0)>>

kernel_init_ClearLate ==
  <<Op("hart", 0), Op("clear", "bss"), Op("clear", "reserve"),
    get_or_init("MEMORY", "addresses"), get_or_init("PROC_TABLE", "table"), Op("clear", "ram")>>

kernel_init ==
  <<Op("hart", 0), Op("clear", "bss"), Op("clear", "reserve"), Op("clear", "ram"),
    get_or_init("MEMORY", "addresses"), get_or_init("PROC_TABLE", "table")>>

(* The initialiser that get_or_init runs: Memory::new, which panics for the
   None arguments of the wrappers and otherwise clears the reserved region in
   InitialAlloc::new and takes the metadata and the stack from it, or
   ProcTable::new. *)
Closure(how) ==
  CASE how = "addresses" -> <<Op("clear", "reserve"), Op("page_alloc", 0), Op("page_alloc", 0)>>
    [] how = "none"      -> <<Op("panic", "none_panic")>>
    [] how = "table"     -> phalloc

-----------------------------------------------------------------------------

Init ==
  /\ hart_id \in Harts
  /\ prog = [t \in Thread |-> IF t = Main THEN kernel_init
                              ELSE IF t = 0 THEN <<Op("panic", "trap_panic")>>
                              ELSE <<>>]
  /\ thread = Main
  /\ once = [c \in Cell |-> "Incomplete"]
  /\ lock = [c \in Cell |-> "Free"]
  /\ area = [a \in Area |-> "raw"]
  /\ state = [i \in Slot |-> "Unused"]
  /\ sp = [i \in Slot |-> [thread |-> Main, at |-> "nowhere"]]
  /\ mapped = [i \in Slot |-> {}]
  /\ claim = None
  /\ curr_proc_idx = 0
  /\ satp = Bare
  /\ sscratch = Bare
  /\ switch = [prev |-> 0, next |-> 0]
  /\ \E n \in Users : todo = n + 1
  /\ status = "run"

Here == Head(prog[thread])

Rest == Tail(prog[thread])

At(op) == status = "run" /\ prog[thread] # <<>> /\ Here.op = op

Continue(p) == prog' = [prog EXCEPT ![thread] = p]

Stop(why) ==
  /\ status' = why
  /\ UNCHANGED <<hart_id, prog, thread, once, lock, area, procs, sched, todo>>

(* kernel_main creates the processes and gives up; a process gives up or,
   if Spawns, creates another one. *)
Call ==
  /\ status = "run" /\ prog[thread] = <<>>
  /\ IF thread = Main
       THEN Continue(IF todo > 0 THEN proc_new
                     ELSE give_up \o <<Op("panic", "idle_panic")>>)
       ELSE Continue(give_up) \/ (Spawns /\ Continue(proc_new))
  /\ UNCHANGED <<hart_id, thread, once, lock, area, procs, sched, todo, status>>

(* Every hart but number 0 spins. *)
CheckHart ==
  /\ At("hart")
  /\ IF hart_id # 0
       THEN Stop("parked")
       ELSE /\ Continue(Rest)
            /\ UNCHANGED <<hart_id, thread, once, lock, area, procs, sched, todo, status>>

(* write_bytes.  The cells are all zero at first and so lie in .bss: clearing
   it resets them. *)
Clear ==
  /\ At("clear")
  /\ area' = [area EXCEPT ![Here.arg] = "clear"]
  /\ once' = IF Here.arg = "bss" THEN [c \in Cell |-> "Incomplete"] ELSE once
  /\ Continue(Rest)
  /\ UNCHANGED <<hart_id, thread, lock, procs, sched, todo, status>>

(* get_or_init: skip, or run the closure.  While the closure runs, another
   get_or_init of the same cell would spin. *)
Get ==
  /\ At("get")
  /\ once[Here.arg] # "InProgress"
  /\ IF once[Here.arg] = "Completed"
       THEN Continue(Rest) /\ UNCHANGED <<once, area>>
       ELSE /\ Continue(Closure(Here.how) \o <<Op("complete", Here.arg)>> \o Rest)
            /\ once' = [once EXCEPT ![Here.arg] = "InProgress"]
            /\ area' = [area EXCEPT !["bss"] = "used"]
  /\ UNCHANGED <<hart_id, thread, lock, procs, sched, todo, status>>

Complete ==
  /\ At("complete")
  /\ once' = [once EXCEPT ![Here.arg] = "Completed"]
  /\ Continue(Rest)
  /\ UNCHANGED <<hart_id, thread, lock, area, procs, sched, todo, status>>

(* InitialAlloc::page_alloc: the pages are taken, or the region is too small. *)
PageAlloc ==
  /\ At("page_alloc")
  /\ \/ /\ Continue(Rest)
        /\ area' = [area EXCEPT !["reserve"] = "used"]
        /\ UNCHANGED <<hart_id, thread, once, lock, procs, sched, todo, status>>
     \/ Stop("boot_panic")

Lock ==
  /\ At("lock")
  /\ lock[Here.arg] = "Free"
  /\ lock' = [lock EXCEPT ![Here.arg] = "Locked"]
  /\ Continue(Rest)
  /\ UNCHANGED <<hart_id, thread, once, area, procs, sched, todo, status>>

(* The guard is dropped; when it is the one of proc::new, the process is
   complete. *)
Unlock ==
  /\ At("unlock")
  /\ lock' = [lock EXCEPT ![Here.arg] = "Free"]
  /\ IF Here.arg = "PROC_TABLE" /\ claim # None
       THEN claim' = None /\ todo' = IF thread = Main THEN todo - 1 ELSE todo
       ELSE UNCHANGED <<claim, todo>>
  /\ Continue(Rest)
  /\ UNCHANGED <<hart_id, thread, once, area, state, sp, mapped, sched, status>>

(* The result of buddy_alloc, whose guard is gone by now: FixedVec::new takes
   the block or, if there was none, unwrap panics. *)
Alloc ==
  /\ At("alloc")
  /\ \/ /\ Continue(Rest)
        /\ area' = [area EXCEPT !["ram"] = "used"]
        /\ UNCHANGED <<hart_id, thread, once, lock, procs, sched, todo, status>>
     \/ Stop(IF claim = None THEN "boot_panic" ELSE "memory_panic")

Panic ==
  /\ At("panic")
  /\ Stop(Here.arg)

-----------------------------------------------------------------------------
(* create_process *)

Unused == {i \in Slot : state[i] = "Unused"}

next_unused == CHOOSE i \in Unused : \A j \in Unused : i <= j

Claim ==
  /\ At("claim")
  /\ IF Unused = {}
       THEN Stop("slots_panic")
       ELSE /\ claim' = next_unused
            /\ state' = [state EXCEPT ![next_unused] = "Runnable"]
            /\ sp' = [sp EXCEPT ![next_unused] = [thread |-> next_unused, at |-> "entry"]]
            /\ Continue(Rest)
            /\ UNCHANGED <<hart_id, thread, once, lock, area, mapped, sched, todo, status>>

Missing_Strict(b) == b + 1 < KernelPages

(* while base < end *)
Missing(b) == b < KernelPages

NewSpan(b) == \A m \in mapped[claim] : m \div Span # b \div Span

(* map_page of page b: if the root has no entry for it, a second-level table
   is allocated, and the vector it replaces is dropped. *)
MapPage ==
  /\ At("map")
  /\ Continue(IF Missing(Here.arg)
                THEN (IF NewSpan(Here.arg) THEN phalloc \o phree ELSE <<>>)
                       \o <<Op("pte", Here.arg)>> \o Rest
                ELSE Rest)
  /\ UNCHANGED <<hart_id, thread, once, lock, area, procs, sched, todo, status>>

NextPage_Same(b) == b

(* base += PAGE_SIZE *)
NextPage(b) == b + 1

WritePte ==
  /\ At("pte")
  /\ mapped' = [mapped EXCEPT ![claim] = @ \cup {Here.arg}]
  /\ Continue(<<Op("map", NextPage(Here.arg))>> \o Rest)
  /\ UNCHANGED <<hart_id, thread, once, lock, area, state, sp, claim, sched, todo, status>>

-----------------------------------------------------------------------------
(* give_up *)

Candidates == {i \in 1..(PROC_MAX - 1) : state[i] = "Runnable" /\ i # curr_proc_idx}

next_runnable_idx_Last ==
  IF Candidates = {} THEN 0
  ELSE CHOOSE i \in Candidates : \A j \in Candidates : j <= i

next_runnable_idx ==
  IF Candidates = {} THEN 0
  ELSE CHOOSE i \in Candidates : \A j \in Candidates : i <= j

Choose ==
  /\ At("choose")
  /\ switch' = [prev |-> curr_proc_idx, next |-> next_runnable_idx]
  /\ satp' = next_runnable_idx
  /\ sscratch' = next_runnable_idx
  /\ curr_proc_idx' = next_runnable_idx
  /\ Continue(Rest)
  /\ UNCHANGED <<hart_id, thread, once, lock, area, procs, todo, status>>

switch_context ==
  /\ At("switch")
  /\ sp' = [sp EXCEPT ![switch.prev] = [thread |-> thread, at |-> "give_up"]]
  /\ thread' = sp'[switch.next].thread
  /\ Continue(Rest)
  /\ UNCHANGED <<hart_id, once, lock, area, state, mapped, claim, sched, todo, status>>

(* A panic waits for interrupts for ever, a parked hart spins. *)
Halt ==
  /\ status # "run"
  /\ UNCHANGED vars

-----------------------------------------------------------------------------

Next ==
  \/ Call \/ CheckHart \/ Clear \/ Get \/ PageAlloc \/ Complete \/ Lock \/ Unlock
  \/ Alloc \/ Panic \/ Claim \/ MapPage \/ WritePte \/ Choose \/ switch_context \/ Halt

Spec == Init /\ [][Next]_vars

(* The hart goes on executing. *)
FairSpec == Spec /\ WF_vars(Next)

-----------------------------------------------------------------------------
(* Properties *)

(* No thread ever waits: a lock that it takes is free and a cell that it
   reads is not being initialised, whatever calls are nested and whichever
   thread ran before.  On the one hart a thread that waits waits for ever. *)
NeverWaits ==
  /\ At("lock") => lock[Here.arg] = "Free"
  /\ At("get") => once[Here.arg] # "InProgress"

(* What the cells, the buddy allocator and FixedVec assume of their memory:
   every region is cleared before it is first used, .bss before the first cell
   is initialised, the reserved region before page_alloc, RAM before a block
   of it is allocated; and none is cleared again once it holds something,
   although kernel_init and InitialAlloc::new both clear the reserved one. *)
ClearedInTime ==
  /\ At("get") => area["bss"] # "raw"
  /\ At("page_alloc") => area["reserve"] # "raw"
  /\ At("alloc") => area["ram"] # "raw"
  /\ At("clear") => area[Here.arg] # "used"

(* When satp names a page table, it maps the whole kernel: its code, the
   process table with its stacks, and all of RAM, so that the instruction
   after the write can be fetched. *)
SatpMapsKernel == satp # Bare => mapped[satp] = 0..(KernelPages - 1)

(* If kernel_main is to create a process besides the idle one, one comes to
   run, unless the hart is parked or a panic says that memory or slots were
   missing.  So every wait and loop of boot ends, "switched to idle proc" is
   not among its outcomes, and neither is Memory::new without arguments: "It's
   safe to call Memory::new() with None values since init_mem() has already
   initialized the OnceCell and Mutex" (mem::buddy_alloc). *)
FirstProcessRuns ==
  todo > 1 ~> \/ thread \in Slot \ {0}
              \/ status \in {"parked", "boot_panic", "memory_panic", "slots_panic"}

(* Whatever is nested inside them, creating a process and giving up are the
   atomic steps of Proc.  A slot counts as created when the table is unlocked,
   or when the kernel stops in between for lack of memory. *)
Shown(i) == i # claim \/ status = "memory_panic"

AtLocked == At("unlock") /\ Rest # <<>> /\ Head(Rest).op = "switch"

AbsPc ==
  CASE status \in {"boot_panic", "parked", "none_panic"} -> "run"
    [] status \notin {"run", "boot_panic", "parked", "none_panic"} -> status
    [] At("panic")  -> Here.arg
    [] AtLocked     -> "locked"
    [] At("switch") -> "switch"
    [] OTHER        -> "run"

Abs == INSTANCE Proc
         WITH table <- [i \in Slot |->
                          IF Shown(i)
                            THEN [state |-> state[i], sp |-> sp[i]]
                            ELSE [state |-> "Unused",
                                  sp |-> [thread |-> Main, at |-> "nowhere"]]],
              lock <- IF AtLocked \/ status \in {"memory_panic", "slots_panic"}
                        THEN "Locked" ELSE "Free",
              pc <- AbsPc

ImplementsProc == Abs!Spec

=============================================================================
