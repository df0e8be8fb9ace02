----------------------------- MODULE CKernelProofs ------------------------------
(***************************************************************************)
(* Proofs of the safety properties of CKernel, and of the fairness of its  *)
(* yield as an action property, for any number of slots, processes and     *)
(* pages.                                                                  *)
(***************************************************************************)
EXTENDS CKernel, NaturalsInduction, WellFoundedInduction, TLAPS

(* A non-empty set of natural numbers has a least element. *)
LEMMA LeastNat ==
  ASSUME NEW S \in SUBSET Nat, S # {}
  PROVE  \E m \in S : \A k \in S : m <= k
<1>1. IsWellFoundedOn(OpToRel(<, Nat), Nat)
  BY Zenon, NatLessThanWellFounded
<1>2. PICK m \in S : \A k \in S : ~ (<<k, m>> \in OpToRel(<, Nat))
  BY <1>1, WFMin, Zenon
<1>3. \A k \in S : ~ (k < m)
  BY Zenon, <1>2 DEF OpToRel
<1> QED
  BY <1>3

State == {"UNUSED", "RUNNABLE", "EXITED"}

Context == [stack : Slot \cup {Boot}, at : Place \cup {"nowhere"}]

(* The places in which the kernel runs on behalf of a user process. *)
Serving == Syscall \cup {"trap_panic", "syscall_panic"}

Booting == {"kernel_main", "slots_panic", "memory_panic"}

TypeOK ==
  /\ procs \in [Slot -> [pid : Int, state : State, sp : Context]]
  /\ current_proc \in Slot \cup {NULL}
  /\ next_addr \in Nat /\ todo \in Nat
  /\ satp \in Slot \cup {Bare} /\ sscratch \in Slot \cup {Bare}
  /\ sepc \in Nat
  /\ sp \in Slot \cup {Boot}
  /\ frame \in [Slot -> [regs : Slot, user_pc : Nat]]
  /\ user \in [regs : Slot, pc : Nat]
  /\ pc \in Booting \cup Serving \cup {"user", "idle_panic"}
  /\ returns \in [Slot -> Nat]
  /\ served \in [Slot -> SUBSET Slot]

(* A slot in use keeps the pid it was given, from which yield counts. *)
Pids ==
  \A i \in Slot :
    procs[i].pid = IF procs[i].state = "UNUSED" THEN 0
                   ELSE IF i = idle_proc THEN -1 ELSE i + 1

(* What a process that may be switched to has left: it starts, or it comes
   back into getchar with its trap frame as kernel_entry made it. *)
Waits(i) ==
  \/ procs[i].sp = [stack |-> i, at |-> "user_entry"] /\ returns[i] = 0
  \/ /\ procs[i].sp = [stack |-> i, at |-> "getchar"]
     /\ frame[i] = [regs |-> i, user_pc |-> returns[i]]

AllWait == \A i \in UserProc : Runnable(i) /\ i # current_proc => Waits(i)

(* While kernel_main creates processes, slots are used from the first one on
   and nobody has run. *)
BootInv ==
  pc \in Booting =>
    /\ current_proc = IF Runnable(idle_proc) THEN idle_proc ELSE NULL
    /\ todo = 0 => current_proc = idle_proc
    /\ sp = Boot
    /\ \A i \in Slot : procs[i].state # "EXITED" /\ served[i] = {} /\ returns[i] = 0
    /\ \A i, j \in Slot : Runnable(i) /\ j <= i => Runnable(j)

(* Once processes run: the current one owns page table, trap stack and, in
   the kernel, the stack; its registers and program counter are in the hart
   or in its frame; kernel_main waits on the boot stack. *)
RunInv ==
  pc \in {"user"} \cup Serving =>
    /\ current_proc \in UserProc /\ Runnable(current_proc)
    /\ satp = current_proc /\ sscratch = current_proc
    /\ Runnable(idle_proc)
    /\ procs[idle_proc].sp = [stack |-> Boot, at |-> "kernel_main"]
    /\ IF pc = "user"
         THEN user = [regs |-> current_proc, pc |-> returns[current_proc]]
         ELSE /\ sp = current_proc
              /\ frame[current_proc] =
                   [regs |-> current_proc, user_pc |-> returns[current_proc]]

IdleInv ==
  pc = "idle_panic" =>
    current_proc = idle_proc /\ \A i \in UserProc : ~ Runnable(i)

(* How many slots yield's scan passes on its way from slot i to slot j. *)
Dist(i, j) == IF i <= j THEN j - i ELSE j - i + PROC_NO_MAX

(* Who ran since a waiting process i did lies between i and the process that
   runs now, in the order of the scan. *)
ServedInv ==
  pc \in {"user"} \cup Serving =>
    /\ served[current_proc] = {}
    /\ \A i \in UserProc : Runnable(i) =>
         \A j \in served[i] : j \in UserProc /\ Dist(i, j) <= Dist(i, current_proc)

Inv ==
  /\ TypeOK
  /\ Pids
  /\ AllWait
  /\ BootInv
  /\ RunInv
  /\ IdleInv
  /\ ServedInv

-----------------------------------------------------------------------------
(* Slots and the scan *)

(* Slots are natural numbers and differ from the places that stand for none. *)
LEMMA SlotFacts ==
  /\ Slot \subseteq Nat /\ idle_proc \in Slot /\ UserProc \subseteq Slot
  /\ NULL \notin Slot /\ Boot \notin Slot /\ Bare \notin Slot
  /\ \A i \in UserProc : i \in 1..(PROC_NO_MAX - 1)
BY KernelAssumption DEF Slot, UserProc, idle_proc, NULL, Boot, Bare

(* The remainder of a sum of two slots and one. *)
LEMMA Wrap ==
  ASSUME NEW N \in Nat \ {0}, NEW a \in 0..(2 * N - 1)
  PROVE  a % N = IF a < N THEN a ELSE a - N
<1>1. CASE a < N
  BY <1>1
<1>2. CASE a >= N
  <2>1. a = N * (a \div N) + (a % N) /\ a % N \in 0..(N - 1) /\ a \div N \in Int
    OBVIOUS
  <2>2. a \div N = 1
    BY <1>2, SMT
  <2> QED
    BY <1>2, <2>1, <2>2
<1> QED
  BY <1>1, <1>2

(* From a user process c the scan's turn k looks at the slot k + 1 places on. *)
LEMMA ScannedUser ==
  ASSUME NEW ps, NEW k \in Slot, current_proc \in UserProc,
         ps[current_proc].pid = current_proc + 1
  PROVE  /\ Scanned(ps, k) \in Slot
         /\ Scanned(ps, k) = LET a == current_proc + 1 + k
                             IN  IF a < PROC_NO_MAX THEN a ELSE a - PROC_NO_MAX
<1> DEFINE c == current_proc
           a == c + 1 + k
<1>1. c \in 1..(PROC_NO_MAX - 1) /\ k \in 0..(PROC_NO_MAX - 1) /\ PROC_NO_MAX \in Nat \ {0}
  BY Zenon, SlotFacts, KernelAssumption DEF Slot
<1>2. a \in 0..(2 * PROC_NO_MAX - 1) /\ a >= 0
  BY <1>1
<1>3. Scanned(ps, k) = a % PROC_NO_MAX
  BY <1>2 DEF Scanned, Remainder
<1> HIDE DEF a
<1>4. a % PROC_NO_MAX = IF a < PROC_NO_MAX THEN a ELSE a - PROC_NO_MAX
  BY Zenon, <1>1, <1>2, Wrap
<1> QED
  BY <1>1, <1>3, <1>4 DEF a, Slot

(* From the idle process the scan looks before the table, then at all slots
   but the last. *)
LEMMA ScannedIdle ==
  ASSUME NEW ps, NEW k \in Slot, current_proc = idle_proc, ps[current_proc].pid = -1,
         PROC_NO_MAX # 1
  PROVE  Scanned(ps, k) = k - 1
<1>1. k \in 0..(PROC_NO_MAX - 1) /\ PROC_NO_MAX \in Nat \ {0, 1}
  BY Zenon, KernelAssumption DEF Slot
<1>2. CASE k = 0
  <2>1. 1 % PROC_NO_MAX = 1
    BY <1>1
  <2> QED
    BY <1>2, <2>1 DEF Scanned, Remainder
<1>3. CASE k # 0
  <2>1. (k - 1) % PROC_NO_MAX = k - 1
    BY <1>1, <1>3, Wrap
  <2> QED
    BY <1>1, <1>3, <2>1 DEF Scanned, Remainder
<1> QED
  BY Zenon, <1>2, <1>3

(* The pids of a table: Pids for a table that yield is called with. *)
PidsOf(ps) ==
  \A i \in Slot :
    ps[i].pid = IF ps[i].state = "UNUSED" THEN 0
                ELSE IF i = idle_proc THEN -1 ELSE i + 1

(* The test in yield's loop: a runnable process other than the idle one. *)
LEMMA EligibleUser ==
  ASSUME NEW ps, PidsOf(ps)
  PROVE  \A k : Eligible(ps, k) <=> k \in UserProc /\ ps[k].state = "RUNNABLE"
<1> SUFFICES ASSUME NEW k
             PROVE  Eligible(ps, k) <=> k \in UserProc /\ ps[k].state = "RUNNABLE"
  BY Zenon
<1>1. CASE k \notin Slot
  BY Zenon, <1>1, BeforeAssumption, SlotFacts DEF Eligible
<1>2. CASE k \in Slot
  <2>1. ps[k].state = "RUNNABLE" => ps[k].pid = IF k = idle_proc THEN -1 ELSE k + 1
    BY Zenon, <1>2 DEF PidsOf
  <2>2. Eligible(ps, k) <=> ps[k].state = "RUNNABLE" /\ ps[k].pid > 0
    BY Zenon, <1>2 DEF Eligible
  <2>3. k \in Nat
    BY Zenon, <1>2, SlotFacts
  <2> QED
    BY <1>2, <2>1, <2>2, <2>3 DEF UserProc
<1> QED
  BY Zenon, <1>1, <1>2

(* Called for a user process, yield returns to the runnable process that comes
   first in the order of the scan, the current one last, and to the idle
   process only if there is none. *)
LEMMA NextUser ==
  ASSUME NEW ps, PidsOf(ps), current_proc \in UserProc,
         ps[current_proc].state # "UNUSED"
  PROVE  /\ NextProc(ps) \in Slot
         /\ NextProc(ps) = idle_proc => \A i \in UserProc : ps[i].state # "RUNNABLE"
         /\ NextProc(ps) # idle_proc => ps[NextProc(ps)].state = "RUNNABLE"
         /\ \A i \in UserProc :
              ps[i].state = "RUNNABLE" /\ i # current_proc /\ i # NextProc(ps) =>
                /\ NextProc(ps) # current_proc
                /\ Dist(current_proc, NextProc(ps)) < Dist(current_proc, i)
<1> DEFINE c == current_proc
           next == NextProc(ps)
           S == {k \in Slot : Eligible(ps, Scanned(ps, k))}
           turn(i) == IF i = c THEN PROC_NO_MAX - 1 ELSE Dist(c, i) - 1
<1>1. /\ c \in Slot /\ c \in 1..(PROC_NO_MAX - 1) /\ PROC_NO_MAX \in Nat \ {0}
      /\ ps[c].pid = c + 1
  BY Zenon, SlotFacts, KernelAssumption DEF PidsOf, UserProc
<1>2. \A k \in Slot : Scanned(ps, k) \in Slot /\ k = turn(Scanned(ps, k))
  <2> SUFFICES ASSUME NEW k \in Slot
               PROVE  Scanned(ps, k) \in Slot /\ k = turn(Scanned(ps, k))
    BY Zenon
  <2>1. /\ Scanned(ps, k) \in Slot
        /\ Scanned(ps, k) = LET a == c + 1 + k
                            IN  IF a < PROC_NO_MAX THEN a ELSE a - PROC_NO_MAX
    BY Zenon, <1>1, ScannedUser
  <2> QED
    BY <1>1, <2>1 DEF Dist, Slot
<1>3. \A i \in Slot : turn(i) \in Slot /\ Scanned(ps, turn(i)) = i
  <2> SUFFICES ASSUME NEW i \in Slot
               PROVE  turn(i) \in Slot /\ Scanned(ps, turn(i)) = i
    BY Zenon
  <2>1. turn(i) \in Slot
    BY <1>1 DEF Dist, Slot
  <2>2. Scanned(ps, turn(i)) = LET a == c + 1 + turn(i)
                               IN  IF a < PROC_NO_MAX THEN a ELSE a - PROC_NO_MAX
    BY Zenon, <1>1, <2>1, ScannedUser
  <2> QED
    BY <1>1, <2>1, <2>2 DEF Dist, Slot
<1>4. CASE S = {}
  <2>1. next = idle_proc
    BY Zenon, <1>4 DEF NextProc
  <2>2. \A i \in UserProc : ps[i].state # "RUNNABLE"
    BY <1>3, <1>4, EligibleUser, SlotFacts
  <2> QED
    BY Zenon, <2>1, <2>2, SlotFacts
<1>5. CASE S # {}
  <2> DEFINE m == CHOOSE k \in S : \A j \in S : k <= j
  <2>1. S \in SUBSET Nat
    BY Zenon, SlotFacts
  <2>2. \E k \in S : \A j \in S : k <= j
    BY <1>5, <2>1, LeastNat, Zenon
  <2>3. m \in S /\ \A j \in S : m <= j
    BY <2>2, Zenon
  <2>4. next = Scanned(ps, m)
    BY Zenon, <1>5 DEF NextProc
  <2> HIDE DEF m
  <2>5. next \in UserProc /\ ps[next].state = "RUNNABLE" /\ m = turn(next)
    BY Zenon, <1>2, <2>3, <2>4, EligibleUser
  <2>6. ASSUME NEW i \in UserProc, ps[i].state = "RUNNABLE", i # c, i # next
        PROVE  next # c /\ Dist(c, next) < Dist(c, i)
    <3>1. turn(i) \in S
      BY Zenon, <1>3, <2>6, EligibleUser, SlotFacts
    <3>2. turn(next) <= turn(i)
      BY Zenon, <2>3, <2>5, <3>1
    <3>3. i \in 1..(PROC_NO_MAX - 1) /\ next \in 1..(PROC_NO_MAX - 1)
      BY Zenon, <2>5, SlotFacts
    <3> QED
      BY <1>1, <2>6, <3>2, <3>3 DEF Dist
  <2> QED
    BY Zenon, <2>5, <2>6, SlotFacts DEF UserProc
<1> QED
  BY Zenon, <1>4, <1>5

(* Called for the idle process, when slots are used from the first one on, it
   finds a user process if there is one. *)
LEMMA NextIdle ==
  ASSUME NEW ps, PidsOf(ps), current_proc = idle_proc,
         ps[idle_proc].state = "RUNNABLE",
         \A i, j \in Slot : ps[i].state = "RUNNABLE" /\ j <= i
                              => ps[j].state = "RUNNABLE"
  PROVE  /\ NextProc(ps) \in Slot
         /\ NextProc(ps) = idle_proc => \A i \in UserProc : ps[i].state # "RUNNABLE"
         /\ NextProc(ps) # idle_proc => ps[NextProc(ps)].state = "RUNNABLE"
<1> DEFINE next == NextProc(ps)
           S == {k \in Slot : Eligible(ps, Scanned(ps, k))}
<1>1. ps[current_proc].pid = -1
  BY Zenon, SlotFacts DEF PidsOf
<1>2. CASE S = {}
  <2>1. next = idle_proc
    BY Zenon, <1>2 DEF NextProc
  <2>2. ASSUME NEW i \in UserProc, ps[i].state = "RUNNABLE" PROVE FALSE
    <3>1. i \in 1..(PROC_NO_MAX - 1) /\ PROC_NO_MAX \in Nat /\ PROC_NO_MAX > 2
      BY <2>2, SlotFacts, KernelAssumption, ScanAssumption
    <3>2. 1 \in UserProc /\ ps[1].state = "RUNNABLE" /\ 2 \in Slot
      BY <2>2, <3>1 DEF UserProc, Slot, idle_proc
    <3>3. Scanned(ps, 2) = 1
      BY <1>1, <3>1, <3>2, ScannedIdle
    <3> QED
      BY Zenon, <1>2, <3>2, <3>3, EligibleUser
  <2> QED
    BY Zenon, <2>1, <2>2, SlotFacts
<1>3. CASE S # {}
  <2> DEFINE m == CHOOSE k \in S : \A j \in S : k <= j
  <2>1. S \in SUBSET Nat
    BY Zenon, SlotFacts
  <2>2. \E k \in S : \A j \in S : k <= j
    BY <1>3, <2>1, LeastNat, Zenon
  <2>3. m \in S
    BY <2>2, Zenon
  <2>4. next = Scanned(ps, m)
    BY Zenon, <1>3 DEF NextProc
  <2> HIDE DEF m
  <2>5. next \in UserProc /\ ps[next].state = "RUNNABLE"
    BY Zenon, <2>3, <2>4, EligibleUser
  <2> QED
    BY Zenon, <2>5 DEF UserProc
<1> QED
  BY Zenon, <1>2, <1>3

-----------------------------------------------------------------------------
(* Every step preserves the invariant. *)

(* The state after boot satisfies the invariant. *)
LEMMA InitInv == Init => Inv
<1> SUFFICES ASSUME Init PROVE Inv
  BY Zenon
<1>1. \A i \in Slot : procs[i] = [pid |-> 0, state |-> "UNUSED", sp |-> NoContext]
  BY Zenon DEF Init
<1>2. \A i \in Slot : ~ Runnable(i)
  BY <1>1 DEF Runnable
<1>3. NoContext \in Context
  BY Zenon DEF NoContext, Context
<1>4. TypeOK
  <2>1. procs \in [Slot -> [pid : Int, state : State, sp : Context]]
    BY <1>3 DEF Init, State
  <2>2. todo \in Nat
    BY KernelAssumption DEF Init
  <2> QED
    BY Zenon, <2>1, <2>2, SlotFacts DEF Init, TypeOK, Booting
<1>5. todo # 0
  BY KernelAssumption DEF Init
<1>6. BootInv
  BY Zenon, <1>1, <1>2, <1>5, SlotFacts DEF Init, BootInv
<1>7. pc \notin {"user", "idle_panic"} \cup Serving
  BY Zenon DEF Init, Serving, Syscall
<1> QED
  BY <1>1, <1>2, <1>4, <1>6, <1>7, SlotFacts
     DEF Inv, Pids, AllWait, RunInv, IdleInv, ServedInv

(* create_process fills the first unused slot. *)
LEMMA CreateInv ==
  ASSUME Inv, NEW n \in ImagePages, create_process(n)
  PROVE  Inv'
<1> DEFINE k == FirstUnused
           r == [pid   |-> IF k = idle_proc THEN -1 ELSE k + 1,
                 state |-> "RUNNABLE",
                 sp    |-> [stack |-> k, at |-> "user_entry"]]
           Row == [pid : Int, state : State, sp : Context]
<1>1. TypeOK /\ Pids /\ AllWait /\ BootInv
  BY Zenon DEF Inv
<1>2. /\ pc = "kernel_main" /\ todo > 0 /\ Unused # {}
      /\ procs' = [procs EXCEPT ![k] = r]
      /\ current_proc' = idle_proc /\ todo' = todo - 1
      /\ next_addr' = next_addr + PagesNeeded(k, n)
      /\ UNCHANGED <<satp, sscratch, sepc, sp, frame, user, pc, returns, served>>
  BY Zenon DEF create_process, Trap
<1>3. k \in Unused /\ \A j \in Unused : k <= j
  <2>1. Unused \in SUBSET Nat
    BY Zenon, SlotFacts DEF Unused
  <2>2. \E i \in Unused : \A j \in Unused : i <= j
    BY <1>2, <2>1, LeastNat, Zenon
  <2> QED
    BY <2>2, Zenon DEF FirstUnused
<1>4. PagesNeeded(k, n) \in Nat
  BY KernelAssumption DEF PagesNeeded
<1> HIDE DEF k
<1>5. k \in Slot /\ k \in Nat /\ procs[k].state = "UNUSED"
  BY Zenon, <1>3, SlotFacts DEF Unused
<1>6. \A j \in Slot : j < k => Runnable(j)
  <2> SUFFICES ASSUME NEW j \in Slot, j < k PROVE Runnable(j)
    BY Zenon
  <2>1. j \notin Unused
    BY <1>3, <1>5, SlotFacts
  <2>2. procs[j].state # "EXITED"
    BY Zenon, <1>1, <1>2 DEF BootInv, Booting
  <2> QED
    BY Zenon, <1>1, <2>1, <2>2 DEF Unused, TypeOK, State, Runnable
<1>7. r \in Row
  <2>1. [stack |-> k, at |-> "user_entry"] \in Context
    BY Zenon, <1>5 DEF Context, Place
  <2> QED
    BY <1>5, <2>1 DEF State
<1>8. procs \in [Slot -> Row]
  BY Zenon, <1>1 DEF TypeOK
<1> HIDE DEF Row
<1>9. procs'[k] = r /\ \A i \in Slot : i # k => procs'[i] = procs[i]
  BY Zenon, <1>2, <1>5, <1>8
<1>10. procs' \in [Slot -> Row]
  <2> HIDE DEF r
  <2> QED
    BY Zenon, <1>2, <1>7, <1>8
<1>11. \A i \in Slot : Runnable(i)' <=> (Runnable(i) \/ i = k)
  BY <1>5, <1>9 DEF Runnable
<1>12. pc \in Booting /\ pc \notin {"user", "idle_panic"} \cup Serving
  BY Zenon, <1>2 DEF Booting, Serving, Syscall
<1>13. Runnable(idle_proc)'
  BY <1>5, <1>6, <1>11, SlotFacts DEF idle_proc
<1>14. TypeOK'
  BY <1>1, <1>2, <1>4, <1>10, SlotFacts DEF TypeOK, Row
<1>15. Pids'
  BY <1>1, <1>5, <1>9 DEF Pids
<1>16. AllWait'
  <2> SUFFICES ASSUME NEW i \in UserProc, Runnable(i)' PROVE Waits(i)'
    BY Zenon DEF AllWait
  <2>1. i \in Slot /\ i # idle_proc /\ returns'[i] = 0
    BY Zenon, <1>1, <1>2, <1>12, SlotFacts DEF UserProc, BootInv
  <2>2. CASE i = k
    BY <1>9, <2>1, <2>2 DEF Waits
  <2>3. CASE i # k
    <3>1. Runnable(i) /\ current_proc \in {idle_proc, NULL}
      BY Zenon, <1>1, <1>11, <1>12, <2>1, <2>3 DEF BootInv
    <3>2. Waits(i)
      BY Zenon, <1>1, <2>1, <3>1, SlotFacts DEF AllWait
    <3> QED
      BY Zenon, <1>2, <1>9, <2>1, <2>3, <3>2 DEF Waits
  <2> QED
    BY Zenon, <2>2, <2>3
<1>17. BootInv'
  <2>1. \A i \in Slot : procs'[i].state # "EXITED"
    BY <1>1, <1>9, <1>12 DEF BootInv
  <2>2. \A i, j \in Slot : Runnable(i)' /\ j <= i => Runnable(j)'
    <3> SUFFICES ASSUME NEW i \in Slot, NEW j \in Slot, Runnable(i)', j <= i
                 PROVE  Runnable(j)'
      BY Zenon
    <3>1. CASE i = k
      BY <1>5, <1>6, <1>11, <3>1, SlotFacts
    <3>2. CASE i # k
      BY Zenon, <1>1, <1>11, <1>12, <3>2 DEF BootInv
    <3> QED
      BY Zenon, <3>1, <3>2
  <2> QED
    BY Zenon, <1>1, <1>2, <1>12, <1>13, <2>1, <2>2 DEF BootInv
<1> QED
  BY Zenon, <1>2, <1>12, <1>14, <1>15, <1>16, <1>17 DEF Inv, RunInv, IdleInv, ServedInv

(* The panics of create_process and of handle_syscall change only pc. *)
LEMMA PanicInv ==
  ASSUME Inv,
         \/ create_process_no_slot
         \/ \E n \in ImagePages : create_process_no_memory(n)
         \/ SysUnknown
  PROVE  Inv'
<1>1. /\ UNCHANGED <<procs, current_proc, satp, sscratch, sepc, sp, frame, user,
                     todo, returns, served>>
      /\ next_addr' \in Nat
  BY Zenon, KernelAssumption
     DEF Inv, TypeOK, create_process_no_slot, create_process_no_memory, SysUnknown, Trap
<1>2. \/ pc \in Booting /\ pc' \in Booting
      \/ pc \in Serving /\ pc' \in Serving
  BY Zenon DEF create_process_no_slot, create_process_no_memory, SysUnknown,
         Booting, Serving, Syscall
<1>3. /\ "user" \notin Booting \cup Serving /\ "idle_panic" \notin Booting \cup Serving
      /\ Booting \cap Serving = {}
  BY Zenon DEF Booting, Serving, Syscall
<1>4. TypeOK' /\ Pids' /\ AllWait'
  BY Zenon, <1>1, <1>2 DEF Inv, TypeOK, Pids, AllWait, Runnable, Waits
<1>5. BootInv' /\ IdleInv'
  BY Zenon, <1>1, <1>2, <1>3 DEF Inv, BootInv, IdleInv, Runnable
<1>6. RunInv' /\ ServedInv'
  BY Zenon, <1>1, <1>2, <1>3 DEF Inv, RunInv, ServedInv, Runnable, Dist
<1> QED
  BY Zenon, <1>4, <1>5, <1>6 DEF Inv

(* kernel_entry saves the registers and the program counter of the current
   process on its own stack. *)
LEMMA EntryInv ==
  ASSUME Inv, NEW call \in Syscall \cup {"trap_panic"}, kernel_entry(call)
  PROVE  Inv'
<1> DEFINE c == current_proc
<1>1. /\ pc = "user" /\ pc' = call /\ sepc' = user.pc /\ sp' = sscratch
      /\ frame' = [frame EXCEPT ![sscratch] = [regs |-> user.regs, user_pc |-> user.pc]]
      /\ UNCHANGED <<procs, current_proc, next_addr, satp, sscratch, user, todo,
                     returns, served>>
  BY Zenon DEF kernel_entry
<1>2. /\ c \in UserProc /\ Runnable(c) /\ satp = c /\ sscratch = c
      /\ Runnable(idle_proc)
      /\ procs[idle_proc].sp = [stack |-> Boot, at |-> "kernel_main"]
      /\ user = [regs |-> c, pc |-> returns[c]]
  BY Zenon, <1>1 DEF Inv, RunInv
<1>3. /\ call \in Serving /\ call # "user" /\ call \notin Booting \cup {"idle_panic"}
  BY Zenon DEF Serving, Booting, Syscall
<1>4. /\ frame \in [Slot -> [regs : Slot, user_pc : Nat]] /\ user \in [regs : Slot, pc : Nat]
      /\ c \in Slot
  BY Zenon, <1>2, SlotFacts DEF Inv, TypeOK
<1>5. /\ frame' \in [Slot -> [regs : Slot, user_pc : Nat]]
      /\ frame'[c] = [regs |-> c, user_pc |-> returns[c]]
      /\ \A i \in Slot : i # c => frame'[i] = frame[i]
  BY Zenon, <1>1, <1>2, <1>4
<1>6. TypeOK'
  BY Zenon, <1>1, <1>2, <1>3, <1>4, <1>5 DEF Inv, TypeOK
<1>7. AllWait'
  BY <1>1, <1>5, SlotFacts DEF Inv, AllWait, Waits, Runnable
<1>8. RunInv'
  BY Zenon, <1>1, <1>2, <1>3, <1>5 DEF RunInv, Runnable
<1>9. ServedInv'
  BY Zenon, <1>1, <1>3 DEF Inv, ServedInv, Runnable, Dist
<1> QED
  BY Zenon, <1>1, <1>3, <1>6, <1>7, <1>8, <1>9 DEF Inv, Pids, BootInv, IdleInv

(* The way back restores them, past the ecall. *)
LEMMA ReturnInv ==
  ASSUME Inv, SysReturns
  PROVE  Inv'
<1> DEFINE c == current_proc
<1>1. /\ pc \in {"putchar", "getchar"} /\ pc' = "user"
      /\ sepc' = Incr(frame[sp].user_pc)
      /\ user' = [regs |-> frame[sp].regs, pc |-> Incr(frame[sp].user_pc)]
      /\ returns' = [returns EXCEPT ![c] = Incr(returns[c])]
      /\ UNCHANGED <<procs, current_proc, next_addr, satp, sscratch, sp, frame,
                     todo, served>>
  BY Zenon DEF SysReturns, handle_trap
<1>2. pc \in Serving /\ pc # "user"
  BY Zenon, <1>1 DEF Serving, Syscall
<1>3. /\ c \in UserProc /\ c \in Slot /\ Runnable(c) /\ satp = c /\ sscratch = c
      /\ Runnable(idle_proc)
      /\ procs[idle_proc].sp = [stack |-> Boot, at |-> "kernel_main"]
      /\ sp = c /\ frame[c] = [regs |-> c, user_pc |-> returns[c]]
  BY Zenon, <1>2, SlotFacts DEF Inv, RunInv
<1>4. Incr(returns[c]) \in Nat
  <2>1. returns[c] \in Nat /\ PcBound \in Nat \ {0}
    BY Zenon, <1>3, KernelAssumption DEF Inv, TypeOK
  <2> QED
    BY <2>1 DEF Incr
<1>5. /\ returns' \in [Slot -> Nat] /\ returns'[c] = Incr(returns[c])
      /\ \A i \in Slot : i # c => returns'[i] = returns[i]
  <2>1. returns \in [Slot -> Nat]
    BY Zenon DEF Inv, TypeOK
  <2> QED
    BY Zenon, <1>1, <1>3, <1>4, <2>1
<1>6. user' = [regs |-> c, pc |-> returns'[c]] /\ sepc' \in Nat
  BY <1>1, <1>3, <1>4, <1>5
<1>7. TypeOK'
  BY <1>1, <1>3, <1>5, <1>6 DEF Inv, TypeOK
<1>8. AllWait'
  BY Zenon, <1>1, <1>5, SlotFacts DEF Inv, AllWait, Waits, Runnable
<1>9. RunInv'
  BY Zenon, <1>1, <1>3, <1>6 DEF RunInv, Runnable
<1>10. ServedInv'
  BY Zenon, <1>1, <1>2 DEF Inv, ServedInv, Runnable, Dist
<1>11. "user" \notin Booting \cup {"idle_panic"}
  BY Zenon DEF Booting
<1> QED
  BY Zenon, <1>1, <1>7, <1>8, <1>9, <1>10, <1>11 DEF Inv, Pids, BootInv, IdleInv

(* switch_context to a waiting process n: its place, page table and trap stack
   become current, and what the current process leaves is there when it is
   next switched to. *)
LEMMA SwitchInv ==
  ASSUME Inv, NEW ps, NEW at \in Place, Yield(ps, at),
         ps \in [Slot -> [pid : Int, state : State, sp : Context]], PidsOf(ps),
         current_proc \in Slot,
         \A i \in Slot : i # current_proc => ps[i] = procs[i],
         NextProc(ps) \in UserProc, NextProc(ps) # current_proc,
         Runnable(NextProc(ps)),
         IF current_proc = idle_proc
           THEN ps[idle_proc].state = "RUNNABLE" /\ sp = Boot /\ at = "kernel_main"
           ELSE /\ Runnable(idle_proc)
                /\ procs[idle_proc].sp = [stack |-> Boot, at |-> "kernel_main"]
                /\ sp = current_proc
                /\ frame[current_proc] =
                     [regs |-> current_proc, user_pc |-> returns[current_proc]]
                /\ at = "getchar" \/ ps[current_proc].state = "EXITED"
  PROVE  /\ TypeOK' /\ Pids' /\ AllWait' /\ BootInv' /\ RunInv' /\ IdleInv'
         /\ pc' \in {"user", "getchar"} /\ current_proc' = NextProc(ps)
         /\ served' = [i \in Slot |-> IF i = current_proc' THEN {}
                                      ELSE served[i] \cup {current_proc'}]
         /\ \A i \in Slot : procs'[i].state = ps[i].state
<1> DEFINE c == current_proc
           n == NextProc(ps)
           here == [stack |-> sp, at |-> at]
           there == ps[n].sp
           Row == [pid : Int, state : State, sp : Context]
<1>1. n \in Slot /\ n # idle_proc /\ n # NULL /\ n # Bare /\ n \in Nat
  BY Zenon, SlotFacts DEF UserProc
<1>2. procs' = [ps EXCEPT ![c].sp = here]
  BY Zenon DEF Yield, SaveContext
<1>3. here \in Context
  BY Zenon DEF Context, Inv, TypeOK
<1> HIDE DEF Row, here
<1>4. /\ procs' \in [Slot -> Row]
      /\ \A i \in Slot : i # c => procs'[i] = procs[i]
      /\ procs'[c].sp = here /\ procs'[c].state = ps[c].state /\ procs'[c].pid = ps[c].pid
  BY Zenon, <1>2, <1>3 DEF Row
<1>5. SaveContext(ps, n, at)[n].sp = there
  BY Zenon, <1>1 DEF SaveContext
<1>6. /\ current_proc' = n /\ satp' = n /\ sscratch' = n
      /\ sp' = there.stack /\ pc' = Resume(there)
      /\ sepc' = IF there.at = "user_entry" THEN 0 ELSE sepc
      /\ user' = IF there.at = "user_entry" THEN [regs |-> there.stack, pc |-> 0] ELSE user
      /\ served' = [i \in Slot |-> IF i = n THEN {} ELSE served[i] \cup {n}]
      /\ UNCHANGED <<frame, returns, next_addr, todo>>
  BY Zenon, <1>5 DEF Yield
<1>7. Waits(n) /\ there = procs[n].sp
  BY Zenon, <1>1 DEF Inv, AllWait
<1> HIDE DEF n, there
<1>8. there.stack = n
  BY <1>7 DEF Waits
<1>9. \/ there.at = "user_entry" /\ pc' = "user" /\ returns[n] = 0
      \/ there.at = "getchar" /\ pc' = "getchar" /\ frame[n] = [regs |-> n, user_pc |-> returns[n]]
  BY <1>6, <1>7 DEF Waits, Resume
<1>10. \A i \in Slot : Runnable(i)' <=> ps[i].state = "RUNNABLE"
  BY Zenon, <1>4 DEF Runnable
<1>11. TypeOK'
  <2>1. served' \in [Slot -> SUBSET Slot]
    BY Zenon, <1>1, <1>6 DEF Inv, TypeOK
  <2>2. pc' \in Booting \cup Serving \cup {"user", "idle_panic"}
    BY Zenon, <1>9 DEF Serving, Syscall
  <2>3. user' \in [regs : Slot, pc : Nat] /\ sepc' \in Nat
    BY Zenon, <1>1, <1>6, <1>8 DEF Inv, TypeOK
  <2> QED
    BY Zenon, <1>1, <1>4, <1>6, <1>8, <2>1, <2>2, <2>3 DEF Inv, TypeOK, Row
<1>12. Pids'
  <2>1. \A i \in Slot : procs'[i].pid = ps[i].pid /\ procs'[i].state = ps[i].state
    BY Zenon, <1>4
  <2> QED
    BY Zenon, <2>1 DEF Pids, PidsOf
<1>13. AllWait'
  <2> SUFFICES ASSUME NEW i \in UserProc, Runnable(i)', i # n PROVE Waits(i)'
    BY Zenon, <1>6 DEF AllWait
  <2>1. i \in Slot /\ i # idle_proc
    BY Zenon, SlotFacts DEF UserProc
  <2>2. CASE i = c
    <3>1. at = "getchar" /\ sp = c /\ frame[c] = [regs |-> c, user_pc |-> returns[c]]
      BY Zenon, <1>10, <2>1, <2>2
    <3>2. procs'[c].sp = [stack |-> c, at |-> "getchar"]
      BY Zenon, <1>4, <3>1 DEF here
    <3> QED
      BY Zenon, <1>6, <2>2, <3>1, <3>2 DEF Waits
  <2>3. CASE i # c
    <3>1. Waits(i)
      BY Zenon, <1>4, <2>1, <2>3 DEF Inv, AllWait, Runnable
    <3> QED
      BY Zenon, <1>4, <1>6, <2>1, <2>3, <3>1 DEF Waits
  <2> QED
    BY Zenon, <2>2, <2>3
<1>14. RunInv'
  <2>1. procs'[n].state = "RUNNABLE" /\ n \in UserProc
    BY Zenon, <1>1, <1>4 DEF n, Runnable
  <2>2. Runnable(idle_proc)' /\ procs'[idle_proc].sp = [stack |-> Boot, at |-> "kernel_main"]
    BY Zenon, <1>4, <1>10, SlotFacts DEF here, Runnable
  <2>3. pc' = "user" => user' = [regs |-> n, pc |-> returns'[n]]
    BY Zenon, <1>6, <1>8, <1>9
  <2>4. pc' # "user" => sp' = n /\ frame'[n] = [regs |-> n, user_pc |-> returns'[n]]
    BY Zenon, <1>6, <1>8, <1>9
  <2> QED
    BY Zenon, <1>6, <2>1, <2>2, <2>3, <2>4 DEF RunInv, Runnable
<1>15. pc' \notin Booting \cup {"idle_panic"}
  BY Zenon, <1>9 DEF Booting
<1> QED
  BY Zenon, <1>4, <1>6, <1>9, <1>11, <1>12, <1>13, <1>14, <1>15 DEF BootInv, IdleInv, n

(* The way between two slots by way of a third. *)
LEMMA DistVia ==
  ASSUME NEW i \in Slot, NEW c \in Slot, NEW n \in Slot, i # c, c # n, i # n,
         Dist(c, n) < Dist(c, i)
  PROVE  Dist(i, n) > Dist(i, c)
BY KernelAssumption DEF Slot, Dist

(* A step of yield for the current user process, who is in getchar or exits:
   the invariant holds again, and nobody is served a second time while
   another runnable process waits. *)
LEMMA YieldInv ==
  ASSUME Inv, NEW ps, NEW at \in Place, Yield(ps, at), pc = at,
         \/ ps = procs /\ at = "getchar"
         \/ ps = [procs EXCEPT ![current_proc].state = "EXITED"] /\ at = "exit"
  PROVE  /\ Inv'
         /\ \A i \in UserProc :
              Runnable(i) /\ current_proc' # current_proc /\ current_proc' # i
                => current_proc' \notin served[i]
<1> DEFINE c == current_proc
           n == NextProc(ps)
           Row == [pid : Int, state : State, sp : Context]
<1>1. /\ c \in UserProc /\ c \in Slot /\ c # idle_proc /\ Runnable(c)
      /\ Runnable(idle_proc)
      /\ procs[idle_proc].sp = [stack |-> Boot, at |-> "kernel_main"]
      /\ sp = c /\ frame[c] = [regs |-> c, user_pc |-> returns[c]]
      /\ pc \in Serving
  <2>1. pc \in Serving /\ pc # "user"
    BY Zenon DEF Serving, Syscall
  <2> QED
    BY Zenon, <2>1, SlotFacts DEF Inv, RunInv, UserProc
<1>2. procs \in [Slot -> Row]
  BY Zenon DEF Inv, TypeOK
<1>3. /\ ps \in [Slot -> Row]
      /\ \A i \in Slot : i # c => ps[i] = procs[i]
      /\ ps[c].pid = procs[c].pid /\ ps[c].sp = procs[c].sp
      /\ ps[c].state = IF at = "exit" THEN "EXITED" ELSE "RUNNABLE"
  BY <1>1, <1>2 DEF State, Runnable
<1>4. PidsOf(ps)
  <2> SUFFICES ASSUME NEW i \in Slot
               PROVE  ps[i].pid = IF ps[i].state = "UNUSED" THEN 0
                                  ELSE IF i = idle_proc THEN -1 ELSE i + 1
    BY Zenon DEF PidsOf
  <2>1. procs[i].pid = IF procs[i].state = "UNUSED" THEN 0
                       ELSE IF i = idle_proc THEN -1 ELSE i + 1
    BY Zenon DEF Inv, Pids
  <2> QED
    BY <1>1, <1>3, <2>1 DEF Runnable
<1>5. /\ n \in Slot
      /\ n = idle_proc => \A i \in UserProc : ps[i].state # "RUNNABLE"
      /\ n # idle_proc => ps[n].state = "RUNNABLE"
      /\ \A i \in UserProc : ps[i].state = "RUNNABLE" /\ i # c /\ i # n
                               => n # c /\ Dist(c, n) < Dist(c, i)
  BY Zenon, <1>1, <1>3, <1>4, NextUser
<1>6. /\ served[c] = {}
      /\ \A i \in UserProc : Runnable(i) =>
           \A j \in served[i] : j \in UserProc /\ Dist(i, j) <= Dist(i, c)
  BY Zenon, <1>1 DEF Inv, ServedInv
<1>7. CASE n = c
  <2>1. ps = procs /\ at = "getchar"
    BY Zenon, <1>1, <1>3, <1>5, <1>7
  <2>2. UNCHANGED vars
    BY Zenon, <1>7, <2>1 DEF Yield, Resume, Trap, vars
  <2> QED
    BY <2>2 DEF vars, Inv, TypeOK, Pids, AllWait, BootInv, RunInv, IdleInv, ServedInv,
                Runnable, Waits, Dist
<1>8. CASE n = idle_proc
  <2>1. at = "exit"
    BY Zenon, <1>1, <1>3, <1>5, <1>8
  <2>2. SaveContext(ps, n, at)[n].sp = [stack |-> Boot, at |-> "kernel_main"]
    <3>1. ps[n].sp = [stack |-> Boot, at |-> "kernel_main"] /\ n \in Slot /\ n # c
      BY Zenon, <1>1, <1>3, <1>5, <1>8
    <3>2. SaveContext(ps, n, at)[n] = ps[n]
      <4> HIDE DEF n, Row
      <4> QED
        BY Zenon, <1>3, <3>1 DEF SaveContext
    <3> QED
      BY Zenon, <3>1, <3>2
  <2>3. /\ procs' = [ps EXCEPT ![c].sp = [stack |-> c, at |-> "exit"]]
        /\ current_proc' = idle_proc /\ satp' = idle_proc /\ sscratch' = idle_proc
        /\ sp' = Boot /\ pc' = "idle_panic" /\ sepc' = sepc /\ user' = user
        /\ served' = [i \in Slot |-> IF i = n THEN {} ELSE served[i] \cup {n}]
        /\ UNCHANGED <<frame, returns, next_addr, todo>>
    BY <1>1, <1>8, <2>1, <2>2 DEF Yield, SaveContext, Resume
  <2>4. [stack |-> c, at |-> "exit"] \in Context
    BY Zenon, <1>1 DEF Context, Place
  <2>5. /\ procs' \in [Slot -> Row]
        /\ \A i \in Slot : procs'[i].state = ps[i].state /\ procs'[i].pid = ps[i].pid
    <3> DEFINE here == [stack |-> c, at |-> "exit"]
    <3>1. procs' = [ps EXCEPT ![c].sp = here] /\ here \in Context
      BY Zenon, <2>3, <2>4
    <3> HIDE DEF here, c
    <3>2. procs' \in [Slot -> Row]
      BY Zenon, <1>3, <3>1
    <3>3. \A i \in Slot : procs'[i].state = ps[i].state /\ procs'[i].pid = ps[i].pid
      BY <1>3, <3>1
    <3> QED
      BY Zenon, <3>2, <3>3
  <2>6. TypeOK'
    <3>1. served' \in [Slot -> SUBSET Slot]
      BY <1>5, <2>3 DEF Inv, TypeOK
    <3> QED
      BY Zenon, <2>3, <2>5, <3>1, SlotFacts DEF Inv, TypeOK
  <2>7. \A i \in UserProc : ~ Runnable(i)'
    BY Zenon, <1>5, <1>8, <2>5, SlotFacts DEF Runnable
  <2>8. "idle_panic" \notin Booting \cup Serving \cup {"user"}
    BY Zenon DEF Booting, Serving, Syscall
  <2>9. Inv'
    BY <1>4, <2>3, <2>5, <2>6, <2>7, <2>8
       DEF Inv, Pids, PidsOf, AllWait, BootInv, RunInv, IdleInv, ServedInv
  <2> QED
    BY Zenon, <1>6, <2>3, <2>9 DEF UserProc
<1>9. CASE n # c /\ n # idle_proc
  <2>1. n \in UserProc /\ Runnable(n)
    BY Zenon, <1>3, <1>5, <1>9 DEF UserProc, Runnable
  <2>2. at = "getchar" \/ ps[c].state = "EXITED"
    BY Zenon, <1>3
  <2>3. /\ TypeOK' /\ Pids' /\ AllWait' /\ BootInv' /\ RunInv' /\ IdleInv'
        /\ pc' \in {"user", "getchar"} /\ current_proc' = n
        /\ served' = [i \in Slot |-> IF i = current_proc' THEN {}
                                     ELSE served[i] \cup {current_proc'}]
        /\ \A i \in Slot : procs'[i].state = ps[i].state
    BY Zenon, <1>1, <1>3, <1>4, <1>9, <2>1, <2>2, SwitchInv
  <2> HIDE DEF n
  <2>4. ASSUME NEW i \in UserProc, Runnable(i), i # n, ps[i].state = "RUNNABLE"
        PROVE  i = c \/ Dist(i, n) > Dist(i, c)
    BY Zenon, <1>1, <1>5, <1>9, <2>4, DistVia, SlotFacts
  <2>5. ASSUME NEW i \in UserProc, Runnable(i), i # n PROVE n \notin served[i]
    <3>1. CASE i = c
      BY Zenon, <1>6, <3>1
    <3>2. CASE i # c
      <4>1. i \in Slot /\ ps[i].state = "RUNNABLE"
        BY Zenon, <1>3, <2>5, <3>2, SlotFacts DEF Runnable
      <4>2. Dist(i, n) > Dist(i, c)
        BY Zenon, <2>4, <2>5, <3>2, <4>1
      <4>3. Dist(i, n) \in Int /\ Dist(i, c) \in Int
        BY <1>1, <1>5, <4>1, KernelAssumption DEF Dist, Slot
      <4> QED
        BY <1>6, <2>5, <4>2, <4>3
    <3> QED
      BY Zenon, <3>1, <3>2
  <2>6. ServedInv'
    <3> SUFFICES ASSUME NEW i \in UserProc, Runnable(i)', i # n, NEW j \in served'[i]
                 PROVE  j \in UserProc /\ Dist(i, j) <= Dist(i, n)
      <4>1. served'[n] = {}
        BY Zenon, <1>5, <2>3
      <4> QED
        BY Zenon, <2>3, <4>1 DEF ServedInv, Dist
    <3>1. i \in Slot /\ ps[i].state = "RUNNABLE" /\ Runnable(i)
      BY Zenon, <1>3, <2>3, SlotFacts DEF Runnable
    <3>2. /\ Dist(i, n) \in Int /\ Dist(i, c) \in Int
          /\ \A k \in Slot : Dist(i, k) \in Int
      BY <1>1, <1>5, <3>1, KernelAssumption DEF Dist, Slot
    <3>3. j \in served[i] \/ j = n
      BY Zenon, <2>3, <3>1
    <3>4. CASE j = n
      BY <2>1, <3>2, <3>4 DEF n
    <3>5. CASE j \in served[i]
      <4>1. j \in UserProc /\ Dist(i, j) <= Dist(i, c) /\ i # c
        BY Zenon, <1>6, <3>1, <3>5
      <4>2. Dist(i, n) > Dist(i, c)
        BY Zenon, <2>4, <3>1, <4>1
      <4> QED
        BY <3>2, <4>1, <4>2, SlotFacts
    <3> QED
      BY Zenon, <3>3, <3>4, <3>5
  <2> QED
    BY Zenon, <2>3, <2>5, <2>6 DEF Inv
<1> QED
  BY Zenon, <1>7, <1>8, <1>9

(* The first yield, by kernel_main. *)
LEMMA MainYieldsInv ==
  ASSUME Inv, kernel_main_yields
  PROVE  /\ Inv'
         /\ \A i \in UserProc :
              Runnable(i) /\ current_proc' # current_proc /\ current_proc' # i
                => current_proc' \notin served[i]
<1> DEFINE n == NextProc(procs)
<1>1. /\ current_proc = idle_proc /\ sp = Boot /\ Runnable(idle_proc)
      /\ \A i \in Slot : procs[i].state # "EXITED" /\ served[i] = {} /\ returns[i] = 0
      /\ \A i, j \in Slot : Runnable(i) /\ j <= i => Runnable(j)
      /\ idle_proc # NULL
  <2>1. pc \in Booting /\ todo = 0
    BY Zenon DEF kernel_main_yields, Booting
  <2>2. current_proc = idle_proc /\ current_proc = IF Runnable(idle_proc) THEN idle_proc ELSE NULL
    BY Zenon, <2>1 DEF Inv, BootInv
  <2> QED
    BY Zenon, <2>1, <2>2, SlotFacts DEF Inv, BootInv
<1>2. PidsOf(procs)
  BY Zenon DEF Inv, Pids, PidsOf
<1>3. /\ n \in Slot
      /\ n = idle_proc => \A i \in UserProc : ~ Runnable(i)
      /\ n # idle_proc => Runnable(n)
  BY Zenon, <1>1, <1>2, NextIdle DEF Runnable
<1>4. CASE n = idle_proc
  <2>1. pc' = "idle_panic" /\ UNCHANGED <<procs, current_proc, next_addr, satp,
                                        sscratch, sp, served, todo, Trap>>
    BY Zenon, <1>1, <1>4 DEF kernel_main_yields, Yield, Resume
  <2>2. "idle_panic" \notin Booting \cup Serving \cup {"user"}
    BY Zenon DEF Booting, Serving, Syscall
  <2>3. \A i \in UserProc : ~ Runnable(i)
    BY Zenon, <1>3, <1>4
  <2> QED
    BY Zenon, <1>1, <2>1, <2>2, <2>3
       DEF Inv, TypeOK, Pids, AllWait, BootInv, RunInv, IdleInv, ServedInv, Trap,
           Runnable, Waits
<1>5. CASE n # idle_proc
  <2>1. n \in UserProc /\ Runnable(n) /\ n # current_proc /\ "kernel_main" \in Place
    BY Zenon, <1>1, <1>3, <1>5 DEF UserProc, Place
  <2>2. /\ TypeOK' /\ Pids' /\ AllWait' /\ BootInv' /\ RunInv' /\ IdleInv'
        /\ pc' \in {"user", "getchar"} /\ current_proc' = n
        /\ served' = [i \in Slot |-> IF i = current_proc' THEN {}
                                     ELSE served[i] \cup {current_proc'}]
    <3>1. /\ Yield(procs, "kernel_main")
          /\ procs \in [Slot -> [pid : Int, state : State, sp : Context]]
          /\ current_proc \in Slot /\ procs[idle_proc].state = "RUNNABLE"
      BY Zenon, <1>1, SlotFacts DEF kernel_main_yields, Inv, TypeOK, Runnable
    <3> QED
      BY Zenon, <1>1, <1>2, <2>1, <3>1, SwitchInv
  <2> HIDE DEF n
  <2>3. served'[n] = {} /\ \A i \in Slot : i # n => served'[i] = {n}
    BY Zenon, <1>1, <1>3, <2>2
  <2>4. \A i \in Slot : Dist(i, n) <= Dist(i, n)
    BY <1>3, KernelAssumption DEF Dist, Slot
  <2>5. n \in UserProc
    BY Zenon, <2>1
  <2>6. ServedInv'
    BY Zenon, <2>2, <2>3, <2>4, <2>5, SlotFacts DEF ServedInv, Dist
  <2> QED
    BY Zenon, <1>1, <2>2, <2>6, SlotFacts DEF Inv
<1> QED
  BY Zenon, <1>4, <1>5

(* Every step preserves the invariant, and serves nobody twice while another
   runnable process waits. *)
LEMMA NextInv ==
  ASSUME Inv, [Next]_vars
  PROVE  /\ Inv'
         /\ \A i \in UserProc :
              Runnable(i) /\ current_proc' # current_proc /\ current_proc' # i
                => current_proc' \notin served[i]
<1>1. CASE \E n \in ImagePages : create_process(n)
  <2>1. PICK n \in ImagePages : create_process(n)
    BY Zenon, <1>1
  <2>2. pc \in Booting /\ served = [i \in Slot |-> served[i]]
    BY Zenon, <2>1 DEF create_process, Booting, Inv, TypeOK
  <2> QED
    BY Zenon, <2>1, <2>2, CreateInv, SlotFacts DEF Inv, BootInv
<1>2. CASE \E n \in ImagePages : create_process_no_memory(n)
  BY Zenon, <1>2, PanicInv DEF create_process_no_memory
<1>3. CASE create_process_no_slot
  BY Zenon, <1>3, PanicInv DEF create_process_no_slot
<1>4. CASE kernel_main_yields
  BY Zenon, <1>4, MainYieldsInv
<1>5. CASE (\E call \in Syscall : kernel_entry(call)) \/ unexpected_trap
  BY Zenon, <1>5, EntryInv DEF unexpected_trap, kernel_entry
<1>6. CASE SysReturns
  BY Zenon, <1>6, ReturnInv DEF SysReturns
<1>7. CASE SysGetcharWaits
  BY Zenon, <1>7, YieldInv DEF SysGetcharWaits, Place
<1>8. CASE SysExit
  BY Zenon, <1>8, YieldInv DEF SysExit, Place
<1>9. CASE SysUnknown
  BY Zenon, <1>9, PanicInv DEF SysUnknown
<1>10. CASE Halt \/ UNCHANGED vars
  <2>1. UNCHANGED vars
    BY Zenon, <1>10 DEF Halt
  <2> QED
    BY Zenon, <2>1 DEF vars, Inv, TypeOK, Pids, AllWait, BootInv, RunInv, IdleInv, ServedInv,
                Runnable, Waits, Dist
<1> QED
  BY Zenon, <1>1, <1>2, <1>3, <1>4, <1>5, <1>6, <1>7, <1>8, <1>9, <1>10 DEF Next

-----------------------------------------------------------------------------
(* The theorems *)

(* The invariant holds in every state the kernel reaches. *)
THEOREM CKernelInv == Spec => []Inv
BY InitInv, NextInv, PTL DEF Spec

(* In user mode the hart always runs the current process, with its page
   table and trap stack, and at the instruction after its last system call. *)
THEOREM UserCoherentAlways == Spec => []UserCoherent
<1>1. Inv => UserCoherent
  BY DEF Inv, RunInv, UserCoherent
<1> QED
  BY <1>1, CKernelInv, PTL

(* What a process left when it gave up the processor, its stack and its trap
   frame, is there when it is resumed, whatever the others did meanwhile. *)
THEOREM WaitersKeptAlways == Spec => []WaitersKept
<1>1. Inv => WaitersKept
  <2> SUFFICES ASSUME Inv, NEW i \in Slot, Runnable(i), i # current_proc
               PROVE  /\ procs[i].sp.stack = IF i = idle_proc THEN Boot ELSE i
                      /\ procs[i].sp.at = "getchar" =>
                           frame[i] = [regs |-> i, user_pc |-> returns[i]]
    BY Zenon DEF WaitersKept
  <2>1. CASE i = idle_proc
    <3>1. pc \in {"user"} \cup Serving
      BY Zenon, <2>1 DEF Inv, TypeOK, BootInv, IdleInv
    <3> QED
      BY <2>1, <3>1 DEF Inv, RunInv
  <2>2. CASE i # idle_proc
    <3>1. Waits(i)
      BY Zenon, <2>2 DEF Inv, AllWait, UserProc
    <3> QED
      BY <2>2, <3>1 DEF Waits
  <2> QED
    BY Zenon, <2>1, <2>2
<1> QED
  BY <1>1, CKernelInv, PTL

(* yield never returns to a process that has exited, and the kernel panics
   over its idle process only when no user process can run. *)
THEOREM PanicsJustifiedAlways == Spec => []PanicsJustified
<1>1. Inv => PanicsJustified
  BY Zenon DEF Inv, TypeOK, IdleInv, PanicsJustified, Booting, Serving, Syscall
<1> QED
  BY <1>1, CKernelInv, PTL

(* yield gives no process a second turn while another runnable one waits for
   its first: with this, a waiting process is passed over by every other at
   most once. *)
THEOREM YieldIsFair == Spec => NoOvertaking
<1>1. Inv /\ [Next]_vars =>
        [\A i \in UserProc :
           Runnable(i) /\ current_proc' # current_proc /\ current_proc' # i
             => current_proc' \notin served[i]]_vars
  BY Zenon, NextInv
<1> QED
  BY <1>1, CKernelInv, PTL DEF Spec, NoOvertaking

=============================================================================
