------------------------------- MODULE ProcProofs -------------------------------
(***************************************************************************)
(* Proofs of the safety properties of Proc, for any number of slots and of *)
(* processes, and of those of Trap, which adds exceptions to it, for any   *)
(* number of causes.                                                       *)
(***************************************************************************)
EXTENDS Trap, NaturalsInduction, WellFoundedInduction, TLAPS

(* A non-empty set of natural numbers has a least element. *)
LEMMA LeastNat ==
  ASSUME NEW S \in SUBSET Nat, S # {}
  PROVE  \E m \in S : \A k \in S : m <= k
<1>1. IsWellFoundedOn(OpToRel(<, Nat), Nat)
  BY Zenon, NatLessThanWellFounded
<1>2. PICK m \in S : \A k \in S : ~ (<<k, m>> \in OpToRel(<, Nat))
  BY <1>1, WFMin, Zenon
<1>3. \A k \in S : ~ (k < m)
  BY Zenon, <1>2 DEF OpToRel
<1> QED
  BY <1>3

(* The context that switch_context leaves in slot 0 for kernel_main. *)
MainContext == [thread |-> Main, at |-> "give_up"]

(* Slots are used from the first one on, and never become unused again. *)
Prefix == \A i, j \in Slot : Runnable(i) /\ j <= i => Runnable(j)

(* Every slot but the idle one holds a context of its own thread. *)
OwnContext ==
  \A i \in Slot : i # 0 /\ Runnable(i) =>
                    table[i].sp \in Context /\ table[i].sp.thread = i

(* Between calls: kernel_main runs until it gives up, then processes do, and
   kernel_main's context is in slot 0. *)
Running ==
  pc = "run" =>
    /\ thread = Owner(curr_proc_idx)
    /\ IF curr_proc_idx = 0
         THEN satp = Bare
         ELSE /\ Runnable(curr_proc_idx)
              /\ satp = curr_proc_idx /\ sscratch = curr_proc_idx
              /\ table[0].sp = MainContext

(* Inside give_up: the locals name the thread that stops and the one that
   resumes, and the idle slot was chosen only for want of another. *)
Switching ==
  pc \in {"locked", "switch"} =>
    /\ thread = Owner(switch.prev)
    /\ switch.next = curr_proc_idx
    /\ satp = curr_proc_idx /\ sscratch = curr_proc_idx
    /\ switch.prev # 0 => table[0].sp = MainContext
    /\ switch.next # 0 => Runnable(switch.next)
    /\ switch.next = 0 => ~(Runnable(1) /\ Runnable(2))

Inv ==
  /\ TypeOK
  /\ Prefix
  /\ OwnContext
  /\ Running
  /\ Switching
  /\ pc # "trap_panic"
  /\ IdleOnlyIfAlone
  /\ curr_proc_idx <= 2
  /\ OnlyFirstTwoRun

-----------------------------------------------------------------------------

(* next_unused returns the lowest unused slot. *)
LEMMA NextUnused ==
  ASSUME TypeOK, Unused # {}
  PROVE  /\ next_unused \in Slot /\ table[next_unused].state = "Unused"
         /\ \A j \in Slot : j < next_unused => Runnable(j)
<1>1. Unused \in SUBSET Nat
  BY ProcAssumption DEF Unused, Slot
<1>2. \E i \in Unused : \A j \in Unused : i <= j
  BY Zenon, <1>1, LeastNat
<1>3. next_unused \in Unused /\ \A j \in Unused : next_unused <= j
  BY <1>2, Zenon DEF next_unused
<1>4. next_unused \in Slot /\ table[next_unused].state = "Unused"
  BY Zenon, <1>3 DEF Unused
<1>5. ASSUME NEW j \in Slot, j < next_unused PROVE Runnable(j)
  <2>1. j \notin Unused
    BY <1>3, <1>4, <1>5, ProcAssumption DEF Slot
  <2> QED
    BY Zenon, <2>1 DEF Unused, TypeOK, Runnable
<1> QED
  BY Zenon, <1>4, <1>5

(* The scan of give_up returns the first runnable slot other than the idle
   one and the current one, or else the idle slot. *)
LEMMA NextRunnable ==
  ASSUME TypeOK, Prefix, curr_proc_idx <= 2
  PROVE  /\ next_runnable_idx \in Slot /\ next_runnable_idx <= 2
         /\ next_runnable_idx # 0 => Runnable(next_runnable_idx)
         /\ next_runnable_idx = 0 => ~(Runnable(1) /\ Runnable(2))
<1>1. Candidates \in SUBSET Nat
  BY ProcAssumption DEF Candidates
<1>2. CASE Candidates = {}
  <2>1. next_runnable_idx = 0
    BY Zenon, <1>2 DEF next_runnable_idx
  <2>2. 0 \in Slot /\ Slot \subseteq Int
    BY ProcAssumption DEF Slot
  <2>3. ASSUME Runnable(1), Runnable(2) PROVE FALSE
    <3>1. 1 \in 1..(PROC_MAX - 1) /\ 2 \in 1..(PROC_MAX - 1)
      BY <2>3, ProcAssumption DEF Runnable, Slot
    <3>2. 1 = curr_proc_idx /\ 2 = curr_proc_idx
      BY Zenon, <1>2, <2>3, <3>1 DEF Candidates, Runnable
    <3> QED
      BY <3>2
  <2> QED
    BY <2>1, <2>2, <2>3
<1>3. CASE Candidates # {}
  <2> DEFINE n == next_runnable_idx
  <2>1. \E i \in Candidates : \A j \in Candidates : i <= j
    BY Zenon, <1>1, <1>3, LeastNat
  <2>2. n \in Candidates /\ \A j \in Candidates : n <= j
    BY <1>3, <2>1, Zenon DEF next_runnable_idx
  <2>3. n \in Slot /\ n \in 1..(PROC_MAX - 1) /\ Runnable(n)
    BY <2>2, ProcAssumption DEF Candidates, Slot, Runnable
  <2>4. n <= 2
    <3> SUFFICES ASSUME n > 2 PROVE FALSE
      BY <2>3, ProcAssumption
    <3>1. /\ 1 \in Slot /\ 2 \in Slot /\ 1 <= n /\ 2 <= n
          /\ 1 \in 1..(PROC_MAX - 1) /\ 2 \in 1..(PROC_MAX - 1)
      BY <2>3, ProcAssumption DEF Slot
    <3>2. Runnable(1) /\ Runnable(2)
      BY Zenon, <2>3, <3>1 DEF Prefix
    <3>3. 1 \in Candidates \/ 2 \in Candidates
      BY <3>1, <3>2 DEF Candidates, Runnable
    <3> QED
      BY <2>2, <2>3, <3>3, ProcAssumption
  <2> QED
    BY <2>3, <2>4, ProcAssumption
<1> QED
  BY Zenon, <1>2, <1>3

-----------------------------------------------------------------------------
(* Every step preserves the invariant. *)

(* The state after kernel_init satisfies the invariant. *)
LEMMA InitInv == Init => Inv
<1> SUFFICES ASSUME Init PROVE Inv
  BY Zenon
<1>1. 0 \in Slot /\ Slot \subseteq Nat
  BY ProcAssumption DEF Slot
<1>2. \A i \in Slot : ~ Runnable(i)
  BY Zenon DEF Init, Runnable
<1>3. TypeOK
  BY <1>1, ProcAssumption
     DEF Init, TypeOK, NoContext, Bare, Thread, Main, Panicked
<1> QED
  BY <1>1, <1>2, <1>3
     DEF Init, Inv, Prefix, OwnContext, Running, Switching, IdleOnlyIfAlone,
         OnlyFirstTwoRun, Owner, Runnable

(* Storing a new process in the first unused slot keeps the table in order. *)
LEMMA CreatedInv ==
  ASSUME Inv, pc = "run", Unused # {},
         table' = [table EXCEPT ![next_unused] = Created]
  PROVE  /\ table' \in [Slot -> [state : {"Unused", "Runnable"},
                                 sp : Context \cup {NoContext}]]
         /\ Prefix'
         /\ OwnContext'
         /\ \A i \in Slot : Runnable(i) => Runnable(i)'
         /\ curr_proc_idx # 0 => table'[0] = table[0]
<1> DEFINE n == next_unused
<1>0. Slot \subseteq Nat /\ 0 \in Slot
  BY ProcAssumption DEF Slot
<1>1. /\ n \in Slot /\ table[n].state = "Unused"
      /\ \A j \in Slot : j < n => Runnable(j)
  BY Zenon, NextUnused DEF Inv
<1>2. Created = [state |-> "Runnable", sp |-> [thread |-> n, at |-> "entry"]]
  BY Zenon DEF Created
<1> HIDE DEF n
<1>3. [thread |-> n, at |-> "entry"] \in Context
  BY Zenon, <1>1 DEF Context, Thread
<1>4. table \in [Slot -> [state : {"Unused", "Runnable"},
                          sp : Context \cup {NoContext}]]
  BY Zenon DEF Inv, TypeOK
<1>5. table' = [table EXCEPT ![n] =
          [state |-> "Runnable", sp |-> [thread |-> n, at |-> "entry"]]]
  BY Zenon, <1>2 DEF n
<1>6. table' \in [Slot -> [state : {"Unused", "Runnable"},
                           sp : Context \cup {NoContext}]]
  <2> DEFINE Row == [state : {"Unused", "Runnable"},
                     sp : Context \cup {NoContext}]
             r   == [state |-> "Runnable",
                     sp |-> [thread |-> n, at |-> "entry"]]
  <2>1. r \in Row
    BY Zenon, <1>3
  <2>2. table \in [Slot -> Row] /\ table' = [table EXCEPT ![n] = r]
    BY Zenon, <1>4, <1>5
  <2> HIDE DEF Row, r
  <2>3. table' \in [Slot -> Row]
    BY Zenon, <2>1, <2>2
  <2> QED
    BY Zenon, <2>3 DEF Row
<1>7. \A i \in Slot : i # n => table'[i] = table[i]
  BY Zenon, <1>4, <1>5
<1>8. table'[n] = [state |-> "Runnable", sp |-> [thread |-> n, at |-> "entry"]]
  BY Zenon, <1>1, <1>4, <1>5
<1>9. \A i \in Slot : Runnable(i)' <=> (Runnable(i) \/ i = n)
  BY <1>1, <1>7, <1>8 DEF Runnable
<1>10. Prefix'
  <2> SUFFICES ASSUME NEW i \in Slot, NEW j \in Slot, Runnable(i)', j <= i
               PROVE  Runnable(j)'
    BY Zenon DEF Prefix
  <2>1. CASE i = n
    BY <1>0, <1>1, <1>9, <2>1
  <2>2. CASE i # n
    BY Zenon, <1>9, <2>2 DEF Inv, Prefix
  <2> QED
    BY Zenon, <2>1, <2>2
<1>11. OwnContext'
  <2> SUFFICES ASSUME NEW i \in Slot, i # 0, Runnable(i)'
               PROVE  table'[i].sp \in Context /\ table'[i].sp.thread = i
    BY Zenon DEF OwnContext
  <2>1. CASE i = n
    BY <1>3, <1>8, <2>1
  <2>2. CASE i # n
    BY Zenon, <1>7, <1>9, <2>2 DEF Inv, OwnContext
  <2> QED
    BY Zenon, <2>1, <2>2
<1>12. curr_proc_idx # 0 => n # 0
  <2> SUFFICES ASSUME curr_proc_idx # 0 PROVE n # 0
    BY Zenon
  <2>1. Runnable(curr_proc_idx) /\ curr_proc_idx \in Slot
    BY Zenon DEF Inv, Running, TypeOK
  <2>2. Runnable(0)
    BY <1>0, <2>1 DEF Inv, Prefix
  <2> QED
    BY Zenon, <1>1, <2>2 DEF Runnable
<1> QED
  BY Zenon, <1>0, <1>6, <1>7, <1>9, <1>10, <1>11, <1>12

(* create_process preserves the invariant. *)
LEMMA CreateInv == Inv /\ create_process => Inv'
<1> SUFFICES ASSUME Inv, create_process PROVE Inv'
  BY Zenon
<1>1. /\ pc = "run" /\ Unused # {}
      /\ table' = [table EXCEPT ![next_unused] = Created]
      /\ UNCHANGED <<curr_proc_idx, lock, satp, sscratch, thread, pc, switch>>
  BY Zenon DEF create_process
<1>2. /\ table' \in [Slot -> [state : {"Unused", "Runnable"},
                              sp : Context \cup {NoContext}]]
      /\ Prefix'
      /\ OwnContext'
      /\ \A i \in Slot : Runnable(i) => Runnable(i)'
      /\ curr_proc_idx # 0 => table'[0] = table[0]
  BY Zenon, <1>1, CreatedInv
<1>3. todo' \in Nat
  BY DEF create_process, MayCreate, Inv, TypeOK
<1>4. TypeOK'
  BY Zenon, <1>1, <1>2, <1>3 DEF Inv, TypeOK
<1>5. Running'
  BY Zenon, <1>1, <1>2 DEF Inv, TypeOK, Running, Owner
<1> QED
  BY Zenon, <1>1, <1>2, <1>4, <1>5
     DEF Inv, Switching, IdleOnlyIfAlone, OnlyFirstTwoRun

(* A failed allocation in create_process preserves the invariant. *)
LEMMA NoMemoryInv == Inv /\ create_process_no_memory => Inv'
<1> SUFFICES ASSUME Inv, create_process_no_memory PROVE Inv'
  OBVIOUS
<1>1. /\ pc = "run" /\ Unused # {} /\ pc' = "memory_panic" /\ lock' = "Locked"
      /\ table' = [table EXCEPT ![next_unused] = Created]
      /\ UNCHANGED <<curr_proc_idx, satp, sscratch, thread, switch, todo>>
  BY Zenon DEF create_process_no_memory
<1>2. /\ table' \in [Slot -> [state : {"Unused", "Runnable"},
                              sp : Context \cup {NoContext}]]
      /\ Prefix'
      /\ OwnContext'
  BY Zenon, <1>1, CreatedInv
<1>3. TypeOK'
  BY Zenon, <1>1, <1>2 DEF Inv, TypeOK, Panicked
<1> QED
  BY Zenon, <1>1, <1>2, <1>3
     DEF Inv, Running, Switching, IdleOnlyIfAlone, OnlyFirstTwoRun

(* The first half of give_up preserves the invariant. *)
LEMMA GiveUpInv == Inv /\ give_up => Inv'
<1> SUFFICES ASSUME Inv, give_up PROVE Inv'
  OBVIOUS
<1> DEFINE n == next_runnable_idx
<1>1. /\ pc = "run" /\ pc' = "locked" /\ lock' = "Locked"
      /\ switch' = [prev |-> curr_proc_idx, next |-> n]
      /\ satp' = n /\ sscratch' = n /\ curr_proc_idx' = n
      /\ UNCHANGED <<table, thread, todo>>
  BY Zenon DEF give_up
<1>2. /\ n \in Slot /\ n <= 2
      /\ n # 0 => Runnable(n)
      /\ n = 0 => ~(Runnable(1) /\ Runnable(2))
  BY Zenon, NextRunnable DEF Inv
<1> HIDE DEF n
<1>3. switch'.prev = curr_proc_idx /\ switch'.next = n
  BY Zenon, <1>1
<1>4. TypeOK'
  BY Zenon, <1>1, <1>2 DEF Inv, TypeOK
<1>5. /\ thread = Owner(curr_proc_idx)
      /\ curr_proc_idx # 0 => table[0].sp = MainContext
  BY Zenon, <1>1 DEF Inv, Running
<1>6. \A i : Runnable(i)' <=> Runnable(i)
  BY Zenon, <1>1 DEF Runnable
<1>7. Switching'
  BY Zenon, <1>1, <1>2, <1>3, <1>5, <1>6 DEF Switching, Owner
<1> QED
  BY Zenon, <1>1, <1>2, <1>4, <1>6, <1>7
     DEF Inv, Prefix, OwnContext, Running, IdleOnlyIfAlone, OnlyFirstTwoRun

(* Dropping the guard preserves the invariant. *)
LEMMA DropInv == Inv /\ drop_guard => Inv'
<1> SUFFICES ASSUME Inv, drop_guard PROVE Inv'
  OBVIOUS
<1>1. /\ pc = "locked" /\ pc' = "switch" /\ lock' = "Free"
      /\ UNCHANGED <<table, curr_proc_idx, satp, sscratch, thread, switch, todo>>
  BY Zenon DEF drop_guard
<1>2. TypeOK'
  BY Zenon, <1>1 DEF Inv, TypeOK
<1>3. \A i : Runnable(i)' <=> Runnable(i)
  BY Zenon, <1>1 DEF Runnable
<1> QED
  BY Zenon, <1>1, <1>2, <1>3
     DEF Inv, Prefix, OwnContext, Running, Switching, IdleOnlyIfAlone,
         OnlyFirstTwoRun, Owner

(* The context switch preserves the invariant: the stopped thread's context
   goes to its own slot, and the resumed one comes from its own. *)
LEMMA SwitchInv == Inv /\ switch_context => Inv'
<1> SUFFICES ASSUME Inv, switch_context PROVE Inv'
  OBVIOUS
<1> DEFINE p == switch.prev
          n == switch.next
          c == [thread |-> thread, at |-> "give_up"]
<1>1. /\ pc = "switch"
      /\ table' = [table EXCEPT ![p].sp = c]
      /\ thread' = table'[n].sp.thread
      /\ pc' = Resume(table'[n].sp)
      /\ UNCHANGED <<curr_proc_idx, lock, satp, sscratch, switch, todo>>
  BY Zenon DEF switch_context
<1>2. /\ thread = Owner(p) /\ n = curr_proc_idx /\ n <= 2
      /\ satp = n /\ sscratch = n
      /\ p # 0 => table[0].sp = MainContext
      /\ n # 0 => Runnable(n)
      /\ n = 0 => ~(Runnable(1) /\ Runnable(2))
      /\ p \in Slot /\ n \in Slot /\ thread \in Thread
  BY Zenon, <1>1 DEF Inv, Switching, TypeOK
<1>3. /\ c \in Context /\ c.thread = thread /\ c.at = "give_up"
      /\ p = 0 => c = MainContext
  BY Zenon, <1>2 DEF Context, Thread, MainContext, Owner
<1> HIDE DEF c, p, n
<1>4. 0 \in Slot /\ Slot \subseteq Nat
  BY ProcAssumption DEF Slot
<1>5. table \in [Slot -> [state : {"Unused", "Runnable"},
                          sp : Context \cup {NoContext}]]
  BY Zenon DEF Inv, TypeOK
<1>6. table' \in [Slot -> [state : {"Unused", "Runnable"},
                           sp : Context \cup {NoContext}]]
  <2> DEFINE Row == [state : {"Unused", "Runnable"},
                     sp : Context \cup {NoContext}]
             r   == [table[p] EXCEPT !.sp = c]
  <2>1. r \in Row
    BY Zenon, <1>2, <1>3, <1>5
  <2>2. table \in [Slot -> Row] /\ table' = [table EXCEPT ![p] = r]
    BY Zenon, <1>1, <1>5
  <2> HIDE DEF Row, r
  <2>3. table' \in [Slot -> Row]
    BY Zenon, <2>1, <2>2
  <2> QED
    BY Zenon, <2>3 DEF Row
<1>7. /\ \A i \in Slot : table'[i].state = table[i].state
      /\ \A i \in Slot : table'[i].sp = IF i = p THEN c ELSE table[i].sp
  BY Zenon, <1>1, <1>2, <1>5
<1>8. \A i : Runnable(i)' <=> Runnable(i)
  BY Zenon, <1>7 DEF Runnable
<1>9. table'[0].sp = MainContext
  BY Zenon, <1>2, <1>3, <1>4, <1>7
<1>10. OwnContext'
  BY Zenon, <1>2, <1>3, <1>7, <1>8 DEF Inv, OwnContext, Owner
<1>11. Prefix'
  BY Zenon, <1>8 DEF Inv, Prefix
<1>12. CASE n = 0
  <2>1. thread' = Main /\ pc' = "idle_panic"
    BY <1>1, <1>9, <1>12 DEF MainContext, Resume
  <2>2. TypeOK'
    BY Zenon, <1>1, <1>6, <2>1 DEF Inv, TypeOK, Panicked, Thread
  <2> QED
    BY Zenon, <1>1, <1>2, <1>8, <1>10, <1>11, <1>12, <2>1, <2>2
       DEF Inv, Running, Switching, IdleOnlyIfAlone, OnlyFirstTwoRun
<1>13. CASE n # 0
  <2>1. table'[n].sp \in Context /\ table'[n].sp.thread = n
    BY Zenon, <1>2, <1>8, <1>10, <1>13 DEF OwnContext
  <2>2. n # Main
    BY <1>2, <1>4 DEF Main
  <2>3. thread' = n /\ pc' = "run"
    BY Zenon, <1>1, <1>13, <2>1, <2>2 DEF Resume
  <2>4. TypeOK'
    BY Zenon, <1>1, <1>2, <1>6, <2>3 DEF Inv, TypeOK, Thread
  <2>5. n \in {1, 2}
    BY <1>2, <1>4, <1>13
  <2>6. Running'
    BY Zenon, <1>1, <1>2, <1>8, <1>9, <1>13, <2>3 DEF Running, Owner
  <2> QED
    BY Zenon, <1>1, <1>2, <1>10, <1>11, <2>3, <2>4, <2>5, <2>6
       DEF Inv, Switching, IdleOnlyIfAlone, OnlyFirstTwoRun
<1> QED
  BY Zenon, <1>12, <1>13

-----------------------------------------------------------------------------

(* Every step of the scheduler keeps the invariant. *)
LEMMA InvStep == Inv /\ [Next]_vars => Inv'
<1> SUFFICES ASSUME Inv, [Next]_vars PROVE Inv'
  BY Zenon
<1>1. CASE create_process
  BY Zenon, <1>1, CreateInv
<1>2. CASE create_process_no_memory
  BY Zenon, <1>2, NoMemoryInv
<1>3. CASE create_process_no_slot
  BY Zenon, <1>3 DEF create_process_no_slot, Inv, TypeOK, Panicked, Prefix,
     OwnContext, Running, Switching, IdleOnlyIfAlone, OnlyFirstTwoRun,
     Runnable
<1>4. CASE give_up
  BY <1>4, GiveUpInv
<1>5. CASE drop_guard
  BY <1>5, DropInv
<1>6. CASE switch_context
  BY <1>6, SwitchInv
<1>7. CASE Halt \/ UNCHANGED vars
  BY <1>7 DEF Halt, vars, Inv, TypeOK, Prefix, OwnContext, Running,
     Switching, IdleOnlyIfAlone, OnlyFirstTwoRun, Runnable
<1> QED
  BY Zenon, <1>1, <1>2, <1>3, <1>4, <1>5, <1>6, <1>7 DEF Next

(* The inductive invariant: the table fills from its first slot, each slot
   keeps its own thread, and kernel_main's context is in slot 0. *)
THEOREM Invariance == Spec => []Inv
  BY InitInv, InvStep, PTL DEF Spec

(* The variables of proc.rs keep their types; in particular give_up never
   indexes the table out of bounds. *)
THEOREM TypeCorrect == Spec => []TypeOK
<1>1. Inv => TypeOK
  BY Zenon DEF Inv
<1> QED
  BY <1>1, Invariance, PTL

(* Whatever the number of slots and processes, the running thread, the
   current slot, the page table and the trap stack always belong together,
   and give_up loses no context. *)
THEOREM ContextsCoherent == Spec => []Coherent
<1>1. Inv => Coherent
  <2> SUFFICES ASSUME Inv, pc = "run" PROVE Coherent
    BY Zenon DEF Coherent
  <2>1. thread = Owner(curr_proc_idx)
    BY Zenon DEF Inv, Running
  <2>2. satp # Bare => satp = curr_proc_idx /\ sscratch = curr_proc_idx
    BY Zenon DEF Inv, Running
  <2>3. ASSUME NEW i \in Slot \ {curr_proc_idx}, Runnable(i)
        PROVE  table[i].sp.thread = Owner(i)
    <3>1. CASE i = 0
      BY <2>3, <3>1 DEF Inv, Running, MainContext, Owner
    <3>2. CASE i # 0
      BY Zenon, <2>3, <3>2 DEF Inv, OwnContext, Owner
    <3> QED
      BY Zenon, <3>1, <3>2
  <2> QED
    BY Zenon, <2>1, <2>2, <2>3 DEF Coherent
<1> QED
  BY <1>1, Invariance, PTL

(* The idle process's entry point, address 0, is never jumped to. *)
THEOREM IdleEntryUnreachable == Spec => []IdleEntryNeverRuns
<1>1. Inv => IdleEntryNeverRuns
  BY DEF Inv, IdleEntryNeverRuns, OnlyFirstTwoRun, Main
<1> QED
  BY <1>1, Invariance, PTL

(* The kernel falls back to kernel_main only with fewer than two processes. *)
THEOREM IdleMeansAlone == Spec => []IdleOnlyIfAlone
<1>1. Inv => IdleOnlyIfAlone
  BY Zenon DEF Inv
<1> QED
  BY <1>1, Invariance, PTL

(* However many processes there are, give_up only ever chooses the first two. *)
THEOREM LaterSlotsStarve == Spec => []OnlyFirstTwoRun
<1>1. Inv => OnlyFirstTwoRun
  BY Zenon DEF Inv
<1> QED
  BY <1>1, Invariance, PTL

-----------------------------------------------------------------------------
(* Exceptions: the properties of Trap *)

(* How far the first trap after the first give_up has come: the stack pointer
   of the thread goes from sp through sscratch to the frame, and sp comes to
   be on the stack of some slot, so that nothing faults in between. *)
OnItsWay ==
  faults = 0 /\ satp # Bare =>
    /\ phase # "none" => scause = first
    /\ phase = "entry" => sp = At(thread, "live") /\ scratch.stack \in Slot
    /\ phase = "save" => scratch = At(thread, "live") /\ sp.stack \in Slot
    /\ phase \in {"handler", "halted"} => frame = At(thread, "live")

(* The stack that an exception may spoil: the current process's, which outside
   give_up is the running thread's own. *)
Mine(s) == s = curr_proc_idx /\ (pc = "run" => s = thread)

(* Only that stack is ever entered from the top, and a frame below the top
   spoils nothing. *)
TopsMine ==
  /\ phase = "none" => sp.stack = Null /\ scratch.stack = Null /\ clobbered = {}
  /\ sp.at = "top" => sp.stack = Null \/ Mine(sp.stack)
  /\ scratch.at = "top" => scratch.stack = Null \/ Mine(scratch.stack)
  /\ \A s \in clobbered : Mine(s)

(* give_up writes satp and sscratch together. *)
Together == satp = Bare => sscratch = Bare

TInv ==
  /\ Inv
  /\ TrapTypeOK
  /\ TopsMine
  /\ Together
  /\ OnItsWay
  /\ HandlerStackKnown

-----------------------------------------------------------------------------

(* A thread that can raise an exception once there is a page table finds in
   sscratch a slot, whose stack exists. *)
LEMMA ScratchIsSlot ==
  ASSUME Inv, pc \notin Panicked, satp # Bare
  PROVE  ScratchStack \in Slot
<1>1. pc \in {"run", "locked", "switch"} /\ curr_proc_idx \in Slot
  BY Zenon DEF Inv, TypeOK
<1>2. sscratch = curr_proc_idx
  BY Zenon, <1>1 DEF Inv, Running, Switching
<1>3. sscratch # Bare
  BY <1>1, <1>2, ProcAssumption DEF Slot, Bare
<1> QED
  BY Zenon, <1>1, <1>2, <1>3 DEF ScratchStack

(* It is the one that an exception may spoil, unless there is none yet. *)
LEMMA ScratchMine ==
  ASSUME Inv, Together, pc \notin Panicked
  PROVE  ScratchStack = Null \/ Mine(ScratchStack)
<1>1. CASE sscratch = Bare
  BY Zenon, <1>1 DEF ScratchStack
<1>2. CASE sscratch # Bare
  <2>1. ScratchStack = sscratch /\ satp # Bare
    BY Zenon, <1>2 DEF ScratchStack, Together
  <2>2. pc \in {"run", "locked", "switch"}
    BY Zenon DEF Inv, TypeOK
  <2>3. CASE pc = "run"
    BY Zenon, <2>1, <2>3 DEF Inv, Running, Owner, Mine
  <2>4. CASE pc \in {"locked", "switch"}
    BY <2>1, <2>4 DEF Inv, Switching, Mine
  <2> QED
    BY Zenon, <2>2, <2>3, <2>4
<1> QED
  BY Zenon, <1>1, <1>2

(* Outside a trap no stack has been overwritten, and no step of the scheduler
   overwrites one. *)
LEMMA RunInv == TInv /\ Run => TInv'
<1> SUFFICES ASSUME TInv, Run PROVE TInv'
  OBVIOUS
<1>1. Inv'
  BY Zenon, InvStep DEF TInv, Run
<1>2. /\ phase = "none" /\ phase' = "none" /\ faults' = faults
      /\ sp' = sp /\ scratch' = scratch /\ clobbered' = clobbered
      /\ sp.stack = Null /\ scratch.stack = Null /\ clobbered = {}
  BY Zenon DEF Run, trap, TInv, TopsMine
<1>3. Together'
  BY Zenon DEF TInv, Together, Run, Next, create_process, create_process_no_memory,
     create_process_no_slot, give_up, drop_guard, switch_context, Halt, vars
<1>4. TrapTypeOK'
  BY Zenon, <1>1, <1>2 DEF TInv, TrapTypeOK, Run, trap, Inv
<1>5. TopsMine'
  BY Zenon, <1>2 DEF TopsMine
<1> QED
  BY Zenon, <1>1, <1>2, <1>3, <1>4, <1>5 DEF TInv, OnItsWay, HandlerStackKnown

(* Nothing in a trap changes the scheduler's state. *)
LEMMA TrapKeepsInv ==
  ASSUME TInv, UNCHANGED vars
  PROVE  /\ Inv' /\ Together' /\ TypeOK'
         /\ thread' = thread /\ satp' = satp
         /\ \A s : Mine(s) => Mine(s)'
<1>1. Inv'
  BY Zenon, InvStep DEF TInv
<1>2. Together' /\ thread' = thread /\ satp' = satp /\ \A s : Mine(s) => Mine(s)'
  BY Zenon DEF TInv, vars, Together, Mine
<1> QED
  BY Zenon, <1>1, <1>2 DEF Inv

(* Every step keeps the types, and the one stack that may be spoilt. *)
LEMMA TypeStep ==
  ASSUME TInv, [TNext]_tvars
  PROVE  TrapTypeOK' /\ TopsMine'
<1> USE DEF TrapTypeOK, Address, At
<1>0. TrapTypeOK /\ TopsMine /\ Inv /\ Together
  BY Zenon DEF TInv
<1>1. CASE Run
  BY Zenon, <1>1, RunInv DEF TInv
<1>2. ASSUME NEW c \in Cause, Take(c) PROVE TrapTypeOK' /\ TopsMine'
  <2>1. TypeOK' /\ thread \in Thread /\ \A s : Mine(s) => Mine(s)'
    BY Zenon, <1>0, <1>2, TrapKeepsInv DEF Take, TypeOK
  <2>2. ScratchStack \in Slot \cup {Null} /\ Slot \subseteq Thread
    BY Zenon, <1>0 DEF ScratchStack, TypeOK, Thread
  <2>3. ScratchStack = Null \/ Mine(ScratchStack)
    BY Zenon, <1>0, <1>2, ScratchMine DEF Take
  <2>4. TrapTypeOK'
    BY Zenon, <1>0, <1>2, <2>1, <2>2 DEF Take
  <2>5. TopsMine'
    BY Zenon, <1>0, <1>2, <2>1, <2>3 DEF Take, TopsMine
  <2> QED
    BY Zenon, <2>4, <2>5
<1>3. CASE trap_entry
  BY Zenon, <1>0, <1>3, TrapKeepsInv DEF trap_entry, Exchange, TopsMine
<1>4. CASE SaveFaults
  BY Zenon, <1>0, <1>4, TrapKeepsInv DEF SaveFaults, TopsMine
<1>5. CASE SaveFrame
  <2>1. TypeOK' /\ \A s : Mine(s) => Mine(s)'
    BY Zenon, <1>5, TrapKeepsInv DEF SaveFrame
  <2>2. /\ frame' = scratch /\ scratch' = sp /\ sp' = [stack |-> sp.stack, at |-> "live"]
        /\ phase' = "handler" /\ sp.stack # Null
        /\ scause' = scause /\ first' = first /\ faults' = faults
        /\ clobbered' = IF sp.at = "top" THEN clobbered \cup {sp.stack} ELSE clobbered
    BY Zenon, <1>5 DEF SaveFrame, Reset, Below
  <2>3. \A s \in clobbered' : Mine(s)
    BY Zenon, <1>0, <2>2 DEF TopsMine
  <2>4. clobbered' \subseteq Slot
    BY Zenon, <1>0, <2>3 DEF Mine, TypeOK
  <2>5. TrapTypeOK'
    BY Zenon, <1>0, <2>1, <2>2, <2>4
  <2>6. sp'.at = "live"
    BY Zenon, <2>2
  <2>7. TopsMine'
    BY Zenon, <1>0, <2>1, <2>2, <2>3, <2>6 DEF TopsMine
  <2> QED
    BY Zenon, <2>5, <2>7
<1>6. CASE HandlerFaults
  <2>1. faults + 1 \in 0..MaxFaults
    BY <1>0, <1>6, TrapAssumption DEF HandlerFaults
  <2> QED
    BY Zenon, <1>0, <1>6, <2>1, TrapKeepsInv DEF HandlerFaults, TopsMine
<1>7. CASE trap_handler
  BY Zenon, <1>0, <1>7, TrapKeepsInv DEF trap_handler, After, TopsMine
<1>8. CASE Halted \/ UNCHANGED tvars
  BY Zenon, <1>0, <1>8, TrapKeepsInv DEF Halted, tvars, trap, TopsMine
<1> QED
  BY Zenon, <1>1, <1>2, <1>3, <1>4, <1>5, <1>6, <1>7, <1>8 DEF TNext

(* Every step keeps the invariant. *)
LEMMA TInvStep == TInv /\ [TNext]_tvars => TInv'
<1> SUFFICES ASSUME TInv, [TNext]_tvars PROVE TInv'
  OBVIOUS
<1>0. TrapTypeOK' /\ TopsMine'
  BY Zenon, TypeStep
<1> USE DEF OnItsWay, HandlerStackKnown
<1>1. CASE Run
  BY Zenon, <1>1, RunInv
<1>2. ASSUME NEW c \in Cause, Take(c) PROVE TInv'
  <2>1. Inv' /\ Together' /\ thread' = thread /\ satp' = satp
    BY Zenon, <1>2, TrapKeepsInv DEF Take
  <2>2. satp # Bare => ScratchStack \in Slot
    BY Zenon, <1>2, ScratchIsSlot DEF Take, TInv
  <2> QED
    BY Zenon, <1>0, <1>2, <2>1, <2>2 DEF TInv, Take, At
<1>3. CASE trap_entry
  <2>1. Inv' /\ Together' /\ thread' = thread /\ satp' = satp
    BY Zenon, <1>3, TrapKeepsInv DEF trap_entry
  <2> QED
    BY Zenon, <1>0, <1>3, <2>1 DEF TInv, trap_entry, Exchange
<1>4. CASE SaveFaults
  <2>1. Inv' /\ Together' /\ thread' = thread /\ satp' = satp
    BY Zenon, <1>4, TrapKeepsInv DEF SaveFaults
  <2>2. sp.stack \notin Slot
    BY <1>4, ProcAssumption DEF SaveFaults, Null, Slot
  <2> QED
    BY Zenon, <1>0, <1>4, <2>1, <2>2 DEF TInv, SaveFaults
<1>5. CASE SaveFrame
  <2>1. Inv' /\ Together' /\ thread' = thread /\ satp' = satp
    BY Zenon, <1>5, TrapKeepsInv DEF SaveFrame
  <2> QED
    BY Zenon, <1>0, <1>5, <2>1 DEF TInv, SaveFrame, Reset, Below, At
<1>6. CASE HandlerFaults
  <2>1. Inv' /\ Together'
    BY Zenon, <1>6, TrapKeepsInv DEF HandlerFaults
  <2>2. faults' # 0
    BY <1>6 DEF HandlerFaults, TInv, TrapTypeOK
  <2> QED
    BY Zenon, <1>0, <1>6, <2>1, <2>2 DEF TInv, HandlerFaults
<1>7. CASE trap_handler
  <2>1. Inv' /\ Together' /\ thread' = thread /\ satp' = satp
    BY Zenon, <1>7, TrapKeepsInv DEF trap_handler
  <2> QED
    BY Zenon, <1>0, <1>7, <2>1 DEF TInv, trap_handler, After
<1>8. CASE Halted \/ UNCHANGED tvars
  <2>1. Inv' /\ Together' /\ thread' = thread /\ satp' = satp
    BY Zenon, <1>8, TrapKeepsInv DEF Halted, tvars
  <2> QED
    BY Zenon, <1>0, <1>8, <2>1 DEF TInv, Halted, tvars, trap
<1> QED
  BY Zenon, <1>1, <1>2, <1>3, <1>4, <1>5, <1>6, <1>7, <1>8 DEF TNext

-----------------------------------------------------------------------------

(* The inductive invariant: the scheduler's, with the way of the interrupted
   stack pointer through the registers into the frame, and with the one stack
   that frames are laid over. *)
THEOREM TrapInvariance == TSpec => []TInv
<1>1. TInit => TInv
  BY InitInv, TrapAssumption DEF TInit, TInv, OnItsWay, HandlerStackKnown,
     TrapTypeOK, TopsMine, Together, Init, Address, At, Inv
<1> QED
  BY <1>1, TInvStep, PTL DEF TSpec

(* The registers of trap_entry keep their types; only process stacks are ever
   overwritten by a frame, never the boot stack. *)
THEOREM TrapTypeCorrect == TSpec => []TrapTypeOK
<1>1. TInv => TrapTypeOK
  BY Zenon DEF TInv
<1> QED
  BY <1>1, TrapInvariance, PTL

(* Once processes run, trap_handler reports the exception that the thread
   raised, and the frame holds its stack pointer. *)
THEOREM TrapReportsFirst == TSpec => []ReportsFirst
<1>1. TInv => ReportsFirst
  BY Zenon DEF TInv, OnItsWay, ReportsFirst
<1> QED
  BY <1>1, TrapInvariance, PTL

(* trap_handler always runs on a stack that exists, which sscratch names. *)
THEOREM TrapHandlerStack == TSpec => []HandlerStackKnown
<1>1. TInv => HandlerStackKnown
  BY Zenon DEF TInv
<1> QED
  BY <1>1, TrapInvariance, PTL

(* Whatever is raised, and however often trap_handler faults on top of it,
   frames lie over live data of one stack at most, the current process's, and
   outside give_up that is the stack of the thread that raised it. *)
THEOREM TrapClobbersOnlyCurrent == TSpec => []ClobbersOnlyCurrent
<1>1. TInv => ClobbersOnlyCurrent
  BY Zenon DEF TInv, TopsMine, Mine, ClobbersOnlyCurrent
<1> QED
  BY <1>1, TrapInvariance, PTL

=============================================================================
