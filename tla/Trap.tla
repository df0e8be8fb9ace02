---------------------------------- MODULE Trap ----------------------------------
(***************************************************************************)
(* Exceptions in the Rust kernel: trap_entry and trap_handler of           *)
(* rust/src/trap.rs, taken at any point of the threads of Proc.            *)
(*                                                                         *)
(* trap_entry exchanges the stack pointer with sscratch, saves a frame on  *)
(* the stack it gets and calls trap_handler, which prints the cause and    *)
(* panics.  give_up makes sscratch the top of the next process's stack;    *)
(* before the first give_up it is 0, as the firmware left it.  The stack   *)
(* of a process is thus the stack of its traps too.                        *)
(***************************************************************************)
EXTENDS Proc

CONSTANTS
  Cause,      \* the exceptions that a thread may raise
  MaxFaults   \* how often trap_handler itself may raise one

ASSUME TrapAssumption == Cause # {} /\ "store" \notin Cause /\ MaxFaults \in Nat

(* A stack pointer: at the top of a stack, where the live data of its thread
   begins, or below all of it.  The stack of thread Main is the boot stack;
   Null is address 0, below which nothing can be stored. *)
Null == -2

Address == [stack : Thread \cup {Null}, at : {"top", "live"}]

At(s, where) == [stack |-> s, at |-> where]

VARIABLES
  phase,      \* where trap_entry is; "none" outside
  sp,         \* the stack pointer, while phase is not "none"
  scratch,    \* sscratch, while phase is not "none"
  scause,     \* the cause that the hart reports
  frame,      \* tf.sp, the stack pointer that the last frame saved
  first,      \* the exception that the thread raised
  faults,     \* how often trap_handler has raised one
  clobbered   \* the stacks whose live data a frame has overwritten

trap == <<phase, sp, scratch, scause, frame, first, faults, clobbered>>

tvars == <<vars, trap>>

TInit ==
  /\ Init
  /\ phase = "none"
  /\ sp = At(Null, "top") /\ scratch = At(Null, "top") /\ frame = At(Null, "top")
  /\ scause = "none" /\ first = "none"
  /\ faults = 0
  /\ clobbered = {}

-----------------------------------------------------------------------------

ScratchStack_Unset == Null

ScratchStack_Prev == IF sscratch = Bare THEN Null ELSE switch.prev

(* The stack that sscratch names: what give_up last wrote, or nothing. *)
ScratchStack == IF sscratch = Bare THEN Null ELSE sscratch

(* The hart takes an exception: it enters trap_entry with its registers as
   they are. *)
Take(c) ==
  /\ phase = "none" /\ pc \notin Panicked
  /\ phase' = "entry"
  /\ scause' = c /\ first' = c
  /\ sp' = At(thread, "live")
  /\ scratch' = At(ScratchStack, "top")
  /\ UNCHANGED <<vars, frame, faults, clobbered>>

(* csrrw sp, sscratch, sp *)
Exchange == sp' = scratch /\ scratch' = sp

trap_entry ==
  /\ phase = "entry"
  /\ Exchange
  /\ phase' = "save"
  /\ UNCHANGED <<vars, scause, frame, first, faults, clobbered>>

(* The stores below address 0 fault: trap_entry starts anew. *)
SaveFaults ==
  /\ phase = "save" /\ sp.stack = Null
  /\ scause' = "store"
  /\ phase' = "entry"
  /\ UNCHANGED <<vars, sp, scratch, frame, first, faults, clobbered>>

Reset_Kept == scratch

(* addi a0, sp, 4 * 31; csrw sscratch, a0: where the frame begins. *)
Reset == sp

(* addi sp, sp, -4 * 31: below the frame. *)
Below == At(sp.stack, "live")

(* The frame is stored below sp, and trap_handler runs below the frame: a
   frame at the top of a stack lies over the data of its thread, and so does
   what trap_handler then stores. *)
SaveFrame ==
  /\ phase = "save" /\ sp.stack # Null
  /\ frame' = scratch
  /\ clobbered' = IF sp.at = "top" THEN clobbered \cup {sp.stack} ELSE clobbered
  /\ scratch' = Reset
  /\ sp' = Below
  /\ phase' = "handler"
  /\ UNCHANGED <<vars, scause, first, faults>>

(* trap_handler raises an exception in turn. *)
HandlerFaults ==
  /\ phase = "handler" /\ faults < MaxFaults
  /\ faults' = faults + 1
  /\ scause' = "store"
  /\ phase' = "entry"
  /\ UNCHANGED <<vars, sp, scratch, frame, first, clobbered>>

After_Trap == "entry"

(* panic! does not return; otherwise trap_entry would restore the frame and
   the thread would go on. *)
After == "halted"

(* scause is printed, and the kernel panics. *)
trap_handler ==
  /\ phase = "handler"
  /\ phase' = After
  /\ UNCHANGED <<vars, sp, scratch, scause, frame, first, faults, clobbered>>

Halted == phase = "halted" /\ UNCHANGED tvars

-----------------------------------------------------------------------------

Run == phase = "none" /\ Next /\ UNCHANGED trap

TNext ==
  \/ Run
  \/ \E c \in Cause : Take(c)
  \/ trap_entry \/ SaveFaults \/ SaveFrame \/ HandlerFaults \/ trap_handler \/ Halted

TSpec == TInit /\ [][TNext]_tvars

(* The hart goes on executing once it is in trap_entry. *)
TFairSpec == TSpec /\ WF_tvars(phase # "none" /\ TNext)

-----------------------------------------------------------------------------
(* Properties *)

TrapTypeOK ==
  /\ TypeOK
  /\ phase \in {"none", "entry", "save", "handler", "halted"}
  /\ sp \in Address /\ scratch \in Address /\ frame \in Address
  /\ scause \in Cause \cup {"store", "none"} /\ first \in Cause \cup {"none"}
  /\ faults \in 0..MaxFaults
  /\ clobbered \subseteq Slot

(* Once the processes run, the kernel reports the exception that the thread
   raised and the frame has the stack pointer it raised it with: also between
   give_up's write of sscratch and the switch, when the trap stack is already
   that of the next process.  Before the first give_up it does not. *)
ReportsFirst ==
  phase = "halted" /\ faults = 0 /\ satp # Bare =>
    scause = first /\ frame = At(thread, "live")

(* When trap_handler runs, sscratch is an address on the very stack it runs
   on: if it faults in turn, trap_entry again finds a stack that exists, in
   boot too, where the first attempt found none. *)
HandlerStackKnown ==
  phase = "handler" => sp.stack # Null /\ scratch.stack = sp.stack

(* An exception, and every one that trap_handler raises on top of it, lays
   its frame over live data of one stack at most, that of the current process:
   the stack of the thread that raised it or, between give_up's write of
   sscratch and the switch, that of the process about to run, whose saved
   context is lost.  The boot stack and the saved context of every other
   process stay as they were. *)
ClobbersOnlyCurrent ==
  /\ clobbered \subseteq {curr_proc_idx}
  /\ pc = "run" => clobbered \subseteq {thread}

(* Every exception is reported: trap_entry faults at most once for want of a
   stack, and the kernel then stops. *)
TrapEnds == phase = "entry" ~> phase = "halted"

=============================================================================
