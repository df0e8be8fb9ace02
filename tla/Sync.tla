---------------------------------- MODULE Sync ----------------------------------
(***************************************************************************)
(* The synchronisation primitives of rust/src/sync.rs in the one way the   *)
(* kernel uses them: a static OnceCell<Mutex<T>> (MEMORY in mem.rs,        *)
(* PROC_TABLE in proc.rs), reached through get_or_init and then locked.    *)
(*                                                                         *)
(* Each atomic access is an action.  Threads stand for the execution       *)
(* contexts that the Sync implementations allow to share the cell.  The    *)
(* value T is a counter that every critical section increments in two      *)
(* steps, a read and a write; it counts modulo a constant.  A panic never  *)
(* unwinds in this kernel (the panic! macro waits for interrupts forever), *)
(* so a thread that panics stops where it is and drops no guard.           *)
(*                                                                         *)
(* Accesses are sequentially consistent: the Acquire and Release orderings *)
(* of the source pair up on each of the two atomics.                       *)
(*                                                                         *)
(* A definition whose name has an underscore and a suffix, as              *)
(* Acquire_NoTest, is a faulty variant of the definition that follows it.  *)
(***************************************************************************)
EXTENDS Integers

CONSTANTS
  Thread,    \* the execution contexts
  None,      \* Option::None
  Modulus    \* the counter inside the mutex counts modulo this

ASSUME ModulusAssumption == Modulus \in Nat \ {0, 1}

ASSUME NoneAssumption == None \notin Thread

VARIABLES
  once,      \* Once.state
  value,     \* OnceCell.value: None, or the thread whose closure made it
  lock,      \* Mutex.lock, inside the value
  data,      \* Mutex.data, inside the value
  pc,        \* pc[t]: the next access of thread t
  tmp,       \* tmp[t]: the counter as t last read it
  sections   \* history: the number of increments made, modulo Modulus

vars == <<once, value, lock, data, pc, tmp, sections>>

Inc(n) == (n + 1) % Modulus

(* A step of thread t that moves it from one program point to another. *)
Goto(t, from, to) == pc[t] = from /\ pc' = [pc EXCEPT ![t] = to]

-----------------------------------------------------------------------------

Init ==
  /\ once = "Incomplete"
  /\ value = None
  /\ lock = "Free"
  /\ data = 0
  /\ pc = [t \in Thread |-> "outside"]
  /\ tmp = [t \in Thread |-> 0]
  /\ sections = 0

-----------------------------------------------------------------------------
(* OnceCell::get_or_init and Once::call_once *)

(* The first is_complete of call_once. *)
CallOnce(t) ==
  /\ Goto(t, "outside", IF once = "Completed" THEN "unwrap" ELSE "cas")
  /\ UNCHANGED <<once, value, lock, data, tmp, sections>>

CompareExchange_NoTest(t) ==
  /\ Goto(t, "cas", "closure")
  /\ once' = "InProgress"
  /\ UNCHANGED <<value, lock, data, tmp, sections>>

CompareExchange_NoSpin(t) ==
  /\ Goto(t, "cas", IF once = "Incomplete" THEN "closure" ELSE "unwrap")
  /\ once' = IF once = "Incomplete" THEN "InProgress" ELSE once
  /\ UNCHANGED <<value, lock, data, tmp, sections>>

(* The thread that moves the state to InProgress runs the closure. *)
CompareExchange(t) ==
  /\ Goto(t, "cas", IF once = "Incomplete" THEN "closure" ELSE "spin")
  /\ once' = IF once = "Incomplete" THEN "InProgress" ELSE once
  /\ UNCHANGED <<value, lock, data, tmp, sections>>

(* The closure returns a new mutex, which is moved into the cell. *)
ClosureReturns(t) ==
  /\ Goto(t, "closure", "store")
  /\ value' = t
  /\ lock' = "Free"
  /\ data' = 0
  /\ UNCHANGED <<once, tmp, sections>>

ClosurePanics_Reset(t) ==
  /\ Goto(t, "closure", "closure_panicked")
  /\ once' = "Incomplete"
  /\ UNCHANGED <<value, lock, data, tmp, sections>>

(* The closure panics, as Memory::new does for arguments that are None. *)
ClosurePanics(t) ==
  /\ Goto(t, "closure", "closure_panicked")
  /\ UNCHANGED <<once, value, lock, data, tmp, sections>>

StoreCompleted_Missing(t) ==
  /\ Goto(t, "store", "unwrap")
  /\ UNCHANGED <<once, value, lock, data, tmp, sections>>

StoreCompleted(t) ==
  /\ Goto(t, "store", "unwrap")
  /\ once' = "Completed"
  /\ UNCHANGED <<value, lock, data, tmp, sections>>

(* One iteration of the loop that waits for the initializing thread. *)
Spin(t) ==
  /\ Goto(t, "spin", IF once = "Completed" THEN "unwrap" ELSE "spin")
  /\ UNCHANGED <<once, value, lock, data, tmp, sections>>

(* value.as_ref().unwrap().  mem::init and proc::init drop the reference, the
   other callers lock the mutex. *)
Unwrap(t) ==
  /\ IF value = None
       THEN Goto(t, "unwrap", "unwrap_panicked")
       ELSE \E to \in {"outside", "lock"} : Goto(t, "unwrap", to)
  /\ UNCHANGED <<once, value, lock, data, tmp, sections>>

-----------------------------------------------------------------------------
(* Mutex::lock, the guard's deref_mut and its drop *)

Acquire_NoTest(t) ==
  /\ Goto(t, "lock", "read")
  /\ lock' = "Locked"
  /\ UNCHANGED <<once, value, data, tmp, sections>>

(* One iteration of the compare_exchange loop. *)
Acquire(t) ==
  /\ Goto(t, "lock", IF lock = "Free" THEN "read" ELSE "lock")
  /\ lock' = "Locked"
  /\ UNCHANGED <<once, value, data, tmp, sections>>

Read(t) ==
  /\ Goto(t, "read", "write")
  /\ tmp' = [tmp EXCEPT ![t] = data]
  /\ UNCHANGED <<once, value, lock, data, sections>>

Write(t) ==
  /\ Goto(t, "write", "unlock")
  /\ data' = Inc(tmp[t])
  /\ sections' = Inc(sections)
  /\ UNCHANGED <<once, value, lock, tmp>>

(* A panic inside the critical section, as buddy_free's: the guard is not
   dropped. *)
SectionPanics(t) ==
  /\ \E from \in {"read", "write"} : Goto(t, from, "section_panicked")
  /\ UNCHANGED <<once, value, lock, data, tmp, sections>>

Release_Forgotten(t) ==
  /\ Goto(t, "unlock", "outside")
  /\ UNCHANGED <<once, value, lock, data, tmp, sections>>

(* MutexGuard::drop *)
Release(t) ==
  /\ Goto(t, "unlock", "outside")
  /\ lock' = "Free"
  /\ UNCHANGED <<once, value, data, tmp, sections>>

-----------------------------------------------------------------------------

(* The steps of a thread that is inside get_or_init or holds or wants the
   lock, and does not panic. *)
Run(t) ==
  \/ CompareExchange(t)
  \/ ClosureReturns(t)
  \/ StoreCompleted(t)
  \/ Spin(t)
  \/ Unwrap(t)
  \/ Acquire(t)
  \/ Read(t)
  \/ Write(t)
  \/ Release(t)

Panic(t) == ClosurePanics(t) \/ SectionPanics(t)

Next == \E t \in Thread : CallOnce(t) \/ Run(t) \/ Panic(t)

Spec == Init /\ [][Next]_vars

(* A thread that has entered get_or_init keeps running. *)
FairSpec == Spec /\ \A t \in Thread : WF_vars(Run(t))

-----------------------------------------------------------------------------
(* Properties *)

Panicked == {"closure_panicked", "unwrap_panicked", "section_panicked"}

(* The threads that won the compare_exchange and have not stored Completed. *)
Initializing == {"closure", "store", "closure_panicked"}

(* The threads that hold the mutex. *)
Holding == {"read", "write", "unlock", "section_panicked"}

(* The threads that have been given a reference to the value. *)
Inside == {"unwrap", "lock"} \cup Holding

TypeOK ==
  /\ once \in {"Incomplete", "InProgress", "Completed"}
  /\ value \in Thread \cup {None}
  /\ lock \in {"Free", "Locked"}
  /\ data \in 0..(Modulus - 1)
  /\ pc \in [Thread -> {"outside", "cas", "spin"} \cup Initializing
                       \cup Inside \cup Panicked]
  /\ tmp \in [Thread -> 0..(Modulus - 1)]
  /\ sections \in 0..(Modulus - 1)

(* "This type guarantees that the provided closure is executed only once":
   never two threads initialize the cell, whether their closures run, have
   returned or have panicked. *)
InitOnce ==
  \A t, u \in Thread :
    pc[t] \in Initializing /\ pc[u] \in Initializing => t = u

(* "Initialization is complete, so the value is guaranteed to be Some": the
   unwrap in get_or_init never panics. *)
UnwrapSafe == \A t \in Thread : pc[t] \in Inside => value # None

(* The cell's value is never replaced: a mutex that a thread may hold is not
   overwritten by a fresh one, which would be unlocked. *)
ValueStable == [][value # None => value' = value]_vars

(* "If the closure panics, the Once state remains InProgress, causing
   subsequent calls to spin indefinitely": nobody gets a reference to a value
   that was not made. *)
Poisoned ==
  (\E t \in Thread : pc[t] = "closure_panicked") =>
    /\ once = "InProgress"
    /\ \A u \in Thread : pc[u] \notin Inside \cup {"closure", "store"}

(* At most one thread holds the mutex. *)
MutualExclusion ==
  \A t, u \in Thread : pc[t] \in Holding /\ pc[u] \in Holding => t = u

(* Critical sections exclude each other: no increment is lost, although each
   is a read followed by a write, and none is undone by the initialization. *)
NoLostUpdate == data = sections

(* A thread that calls get_or_init gets the reference, unless a thread has
   panicked: the initializing thread and the loop of the waiting ones end. *)
GetOrInitReturns ==
  \A t \in Thread :
    pc[t] = "cas" ~> \/ pc[t] = "unwrap"
                     \/ \E u \in Thread : pc[u] \in Panicked

(* The mutex is never left locked with nobody inside: while threads want it,
   some thread gets it, unless one has panicked.  (Which one is not
   determined: the spin lock is not fair to a single thread.) *)
LockProgress ==
  (\E t \in Thread : pc[t] = "lock") ~>
     \E t \in Thread : pc[t] = "read" \/ pc[t] \in Panicked

=============================================================================
