------------------------------ MODULE KernelProofs ------------------------------
(***************************************************************************)
(* Proofs of the safety properties of Kernel, and that it implements Proc, *)
(* for any number of slots and processes and any size of the kernel.       *)
(*                                                                         *)
(* The invariant says, for every operation that may come next, what is     *)
(* left of the program after it and in which state of the cells, locks and *)
(* page tables it is performed.                                            *)
(***************************************************************************)
EXTENDS Kernel, NaturalsInduction, WellFoundedInduction, TLAPS

(* A non-empty set of natural numbers has a least element. *)
LEMMA LeastNat ==
  ASSUME NEW S \in SUBSET Nat, S # {}
  PROVE  \E m \in S : \A k \in S : m <= k
<1>1. IsWellFoundedOn(OpToRel(<, Nat), Nat)
  BY Zenon, NatLessThanWellFounded
<1>2. PICK m \in S : \A k \in S : ~ (<<k, m>> \in OpToRel(<, Nat))
  BY <1>1, WFMin, Zenon
<1>3. \A k \in S : ~ (k < m)
  BY Zenon, <1>2 DEF OpToRel
<1> QED
  BY <1>3

(* The operations of the programs. *)
OpSet ==
  {Op("hart", 0), Op("clear", "bss"), Op("clear", "reserve"), Op("clear", "ram"),
   get_or_init("MEMORY", "addresses"), get_or_init("MEMORY", "none"),
   get_or_init("PROC_TABLE", "table"),
   Op("complete", "MEMORY"), Op("complete", "PROC_TABLE"),
   Op("lock", "MEMORY"), Op("lock", "PROC_TABLE"),
   Op("unlock", "MEMORY"), Op("unlock", "PROC_TABLE"),
   Op("page_alloc", 0), Op("alloc", 0),
   Op("claim", 0), Op("choose", 0), Op("switch", 0),
   Op("panic", "idle_panic"), Op("panic", "trap_panic")}
    \cup {Op("map", b) : b \in Int} \cup {Op("pte", b) : b \in Int}

Program == Seq(OpSet)

(* What has become of a region of memory. *)
Contents == {"raw", "clear", "used"}

(* The program that performs o and goes on with r. *)
Do(o, r) == <<o>> \o r

-----------------------------------------------------------------------------
(* Programs *)

(* What is left of phalloc and of phree, with r to follow. *)
Result(r) == Do(Op("alloc", 0), r)

AllocUnlock(r) == Do(Op("unlock", "MEMORY"), Result(r))

AllocLock(r) == Do(Op("lock", "MEMORY"), AllocUnlock(r))

Allocate(r) == Do(get_or_init("MEMORY", "none"), AllocLock(r))

FreeUnlock(r) == Do(Op("unlock", "MEMORY"), r)

FreeLock(r) == Do(Op("lock", "MEMORY"), FreeUnlock(r))

Release(r) == Do(get_or_init("MEMORY", "none"), FreeLock(r))

(* What is left of proc::new. *)
Unlocking == Do(Op("unlock", "PROC_TABLE"), <<>>)

Mapping(b) == Do(Op("map", b), Unlocking)

Entering(b) == Do(Op("pte", b), Unlocking)

Dropping == Release(Release(Mapping(0)))

Filling == Allocate(Allocate(Dropping))

Claiming == Do(Op("claim", 0), Filling)

Locking == Do(Op("lock", "PROC_TABLE"), Claiming)

(* What is left of give_up, with r to follow. *)
Switching(r) == Do(Op("switch", 0), r)

Leaving(r) == Do(Op("unlock", "PROC_TABLE"), Switching(r))

Choosing(r) == Do(Op("choose", 0), Leaving(r))

Yielding(r) == Do(Op("lock", "PROC_TABLE"), Choosing(r))

(* What is left of kernel_init. *)
InitTable == Do(get_or_init("PROC_TABLE", "table"), <<>>)

InitMemory == Do(get_or_init("MEMORY", "addresses"), InitTable)

ClearRam == Do(Op("clear", "ram"), InitMemory)

ClearReserve == Do(Op("clear", "reserve"), ClearRam)

ClearBss == Do(Op("clear", "bss"), ClearReserve)

TableDone == Do(Op("complete", "PROC_TABLE"), <<>>)

(* What is left of Memory::new, in kernel_init. *)
MemoryDone == Do(Op("complete", "MEMORY"), InitTable)

TakeStack == Do(Op("page_alloc", 0), MemoryDone)

TakeMeta == Do(Op("page_alloc", 0), TakeStack)

ClearAgain == Do(Op("clear", "reserve"), TakeMeta)

(* What a thread does when it is switched to. *)
Parked(t) ==
  IF t = Main THEN Do(Op("panic", "idle_panic"), <<>>)
  ELSE IF t = 0 THEN Do(Op("panic", "trap_panic"), <<>>)
  ELSE <<>>

-----------------------------------------------------------------------------
(* The state in which an operation is performed *)

Fresh == once = [c \in Cell |-> "Incomplete"]

(* Nobody holds PROC_TABLE and no slot is being filled. *)
Quiet == lock["PROC_TABLE"] = "Free" /\ claim = None

Booting == thread = Main /\ Quiet

Cleared == \A a \in Area : area[a] # "raw"

Untouched == \A a \in Area : area[a] # "used"

Booted == Cleared /\ once = [c \in Cell |-> "Completed"]

Open == lock["MEMORY"] = "Free"

(* kernel_init is in Memory::new. *)
Making ==
  /\ Booting /\ Open /\ Cleared
  /\ once["MEMORY"] = "InProgress" /\ once["PROC_TABLE"] = "Incomplete"

Creating == thread # 0 /\ IF thread = Main THEN todo > 0 ELSE Spawns

GivingUp == thread # 0 /\ (thread = Main => todo = 0)

(* create_process has mapped the pages below b. *)
Filled(b) ==
  /\ Booted /\ Creating
  /\ lock["PROC_TABLE"] = "Locked" /\ claim \in Slot
  /\ b \in 0..KernelPages /\ mapped[claim] = 0..(b - 1)

Chosen ==
  /\ switch \in [prev : Slot, next : Slot]
  /\ state[switch.prev] = "Runnable" /\ state[switch.next] = "Runnable"

(* The lock of MEMORY is used, and r follows. *)
Returns ==
  {TableDone, Mapping(0), Release(Mapping(0)), Dropping, Allocate(Dropping)}
    \cup {Entering(b) : b \in 0..(KernelPages - 1)}
    \cup {Release(Entering(b)) : b \in 0..(KernelPages - 1)}

Returning(r) ==
  \/ /\ r = TableDone
     /\ Booting /\ Cleared
     /\ once["MEMORY"] = "Completed" /\ once["PROC_TABLE"] = "InProgress"
  \/ r \in {Mapping(0), Release(Mapping(0)), Dropping, Allocate(Dropping)} /\ Filled(0)
  \/ \E b \in 0..(KernelPages - 1) :
       r \in {Entering(b), Release(Entering(b))} /\ Filled(b)

AtClear(o, r) ==
  \/ /\ Booting /\ Open /\ Fresh /\ Untouched
     /\ \/ o.arg = "bss" /\ r = ClearReserve
        \/ o.arg = "reserve" /\ r = ClearRam /\ area["bss"] # "raw"
        \/ /\ o.arg = "ram" /\ r = InitMemory
           /\ area["bss"] # "raw" /\ area["reserve"] # "raw"
  \/ o.arg = "reserve" /\ r = TakeMeta /\ Making /\ area["reserve"] # "used"

AtGet(o, r) ==
  /\ Open
  /\ \/ /\ o = get_or_init("MEMORY", "addresses") /\ r = InitTable
        /\ Booting /\ Cleared /\ Untouched /\ Fresh
     \/ /\ o = get_or_init("PROC_TABLE", "table") /\ r = <<>>
        /\ Booting /\ Cleared
        /\ once["MEMORY"] = "Completed" /\ once["PROC_TABLE"] = "Incomplete"
     \/ /\ o = get_or_init("PROC_TABLE", "table")
        /\ Booted /\ Quiet
        /\ (r = Locking /\ Creating) \/ (r = Yielding(Parked(thread)) /\ GivingUp)
     \/ /\ o = get_or_init("MEMORY", "none")
        /\ \E q \in Returns : Returning(q) /\ r \in {AllocLock(q), FreeLock(q)}

AtPageAlloc(r) == Making /\ r \in {TakeStack, MemoryDone}

AtComplete(o, r) ==
  /\ Open /\ Booting /\ Cleared
  /\ \/ /\ o.arg = "MEMORY" /\ r = InitTable
        /\ once["MEMORY"] = "InProgress" /\ once["PROC_TABLE"] = "Incomplete"
     \/ /\ o.arg = "PROC_TABLE" /\ r = <<>>
        /\ once["MEMORY"] = "Completed" /\ once["PROC_TABLE"] = "InProgress"

AtLock(o, r) ==
  /\ Open
  /\ \/ /\ o.arg = "PROC_TABLE" /\ Booted /\ Quiet
        /\ (r = Claiming /\ Creating) \/ (r = Choosing(Parked(thread)) /\ GivingUp)
     \/ /\ o.arg = "MEMORY"
        /\ \E q \in Returns : Returning(q) /\ r \in {AllocUnlock(q), FreeUnlock(q)}

AtUnlock(o, r) ==
  \/ /\ o.arg = "PROC_TABLE" /\ Open /\ Booted
     /\ \/ r = <<>> /\ Filled(KernelPages)
        \/ /\ r = Switching(Parked(thread)) /\ GivingUp /\ Chosen
           /\ lock["PROC_TABLE"] = "Locked" /\ claim = None
  \/ /\ o.arg = "MEMORY" /\ lock["MEMORY"] = "Locked"
     /\ \E q \in Returns : Returning(q) /\ r \in {Result(q), q}

AtClaim(r) ==
  /\ Open /\ Booted /\ Creating
  /\ lock["PROC_TABLE"] = "Locked" /\ claim = None
  /\ r = Filling

AtChoose(r) ==
  /\ Open /\ Booted /\ GivingUp
  /\ lock["PROC_TABLE"] = "Locked" /\ claim = None
  /\ r = Leaving(Parked(thread))

AtPanic(o, r) ==
  /\ Open /\ Booted /\ Quiet
  /\ r = <<>> /\ thread \in {Main, 0}
  /\ o.arg = IF thread = Main THEN "idle_panic" ELSE "trap_panic"

AtSwitch(r) ==
  Open /\ Booted /\ Quiet /\ GivingUp /\ Chosen /\ r = Parked(thread)

(* What holds when the operation o is to be performed and r follows. *)
OpAt(o, r) ==
  /\ o.op \in {"hart", "clear", "get", "page_alloc", "complete", "lock", "unlock", "alloc",
               "panic", "claim", "map", "pte", "choose", "switch"}
  /\ o.op = "hart" => r = ClearBss /\ Booting /\ Open /\ Fresh /\ Untouched
  /\ o.op = "clear" => AtClear(o, r)
  /\ o.op = "get" => AtGet(o, r)
  /\ o.op = "page_alloc" => AtPageAlloc(r)
  /\ o.op = "complete" => AtComplete(o, r)
  /\ o.op = "lock" => AtLock(o, r)
  /\ o.op = "unlock" => AtUnlock(o, r)
  /\ o.op = "alloc" => Open /\ r \in Returns /\ Returning(r)
  /\ o.op = "panic" => AtPanic(o, r)
  /\ o.op = "claim" => AtClaim(r)
  /\ o.op = "map" => r = Unlocking /\ Open /\ Filled(o.arg)
  /\ o.op = "pte" => r = Unlocking /\ Open /\ Filled(o.arg) /\ o.arg < KernelPages
  /\ o.op = "choose" => AtChoose(r)
  /\ o.op = "switch" => AtSwitch(r)

Resting == Open /\ Booted /\ Quiet /\ thread # 0

(* What holds when the program p is to be performed. *)
Where(p) == IF p = <<>> THEN Resting ELSE OpAt(Head(p), Tail(p))

-----------------------------------------------------------------------------
(* The inductive invariant *)

NoContext == [thread |-> Main, at |-> "nowhere"]

Entry(i) == [thread |-> i, at |-> "entry"]

Saved == {[thread |-> t, at |-> "give_up"] : t \in Thread \ {0}}

TypeOK ==
  /\ prog \in [Thread -> Program]
  /\ thread \in Thread
  /\ once \in [Cell -> {"Incomplete", "InProgress", "Completed"}]
  /\ lock \in [Cell -> {"Free", "Locked"}]
  /\ area \in [Area -> Contents]
  /\ state \in [Slot -> {"Unused", "Runnable"}]
  /\ sp \in [Slot -> [thread : Thread, at : {"nowhere", "entry", "give_up"}]]
  /\ mapped \in [Slot -> SUBSET Nat]
  /\ claim \in Slot \cup {None}
  /\ curr_proc_idx \in Slot
  /\ satp \in Slot \cup {Bare}
  /\ todo \in Nat

(* Whoever does not run will do what a thread does that is switched to. *)
OthersParked == \A t \in Thread : t # thread => prog[t] = Parked(t)

(* A slot is blank, or it is complete or the one being filled. *)
Slots ==
  \A i \in Slot :
    /\ state[i] = "Unused" => sp[i] = NoContext /\ mapped[i] = {}
    /\ state[i] = "Runnable" => sp[i] \in Saved \cup {Entry(i)}
    /\ state[i] = "Runnable" /\ i # claim => mapped[i] = 0..(KernelPages - 1)

(* Slots are claimed from the first one on. *)
Claimed ==
  claim # None =>
    /\ state[claim] = "Runnable" /\ sp[claim] = Entry(claim)
    /\ \A j \in Slot : j < claim => state[j] = "Runnable"

(* Slot 0 is in use before kernel_main gives up. *)
IdleSlot == claim # None \/ thread # Main \/ todo = 0 => state[0] = "Runnable"

(* The current process is a process once there is one, and satp names a
   complete one. *)
Active ==
  /\ curr_proc_idx # 0 => state[curr_proc_idx] = "Runnable"
  /\ satp # Bare => state[satp] = "Runnable" /\ satp # claim

Inv ==
  /\ TypeOK
  /\ Where(prog[thread])
  /\ OthersParked
  /\ Slots
  /\ Claimed
  /\ IdleSlot
  /\ Active

-----------------------------------------------------------------------------
(* Programs as sequences *)

(* The first operation of a program and the rest of it. *)
LEMMA DoFacts ==
  ASSUME NEW o \in OpSet, NEW r \in Program
  PROVE  /\ Do(o, r) \in Program /\ Do(o, r) # <<>>
         /\ Head(Do(o, r)) = o /\ Tail(Do(o, r)) = r
BY DEF Do, Program

(* An operation can be split off the front of a joined program. *)
LEMMA DoAssoc ==
  ASSUME NEW o \in OpSet, NEW q \in Program, NEW r \in Program
  PROVE  Do(o, q) \o r = Do(o, q \o r)
BY DEF Do, Program

(* One operation put in front of a program. *)
LEMMA DoOne ==
  ASSUME NEW o \in OpSet
  PROVE  /\ <<o>> = Do(o, <<>>)
         /\ \A r \in Program : <<o>> \o r = Do(o, r)
BY DEF Do, Program

(* Two operations, as a program. *)
LEMMA DoPair ==
  ASSUME NEW a \in OpSet, NEW b \in OpSet
  PROVE  <<a, b>> = Do(a, <<b>>)
<1>1. Do(a, <<b>>) \in Program /\ Len(Do(a, <<b>>)) = 2
  BY DEF Do, Program
<1>2. Do(a, <<b>>)[1] = a /\ Do(a, <<b>>)[2] = b
  BY DEF Do
<1>3. \A s \in Program : Len(s) = 2 /\ s[1] = a /\ s[2] = b => s = <<a, b>>
  BY DEF Program
<1> QED
  BY Zenon, <1>1, <1>2, <1>3

(* Two operations put in front of a program. *)
LEMMA DoTwo ==
  ASSUME NEW a \in OpSet, NEW b \in OpSet, NEW r \in Program
  PROVE  <<a, b>> \in Program /\ <<a, b>> \o r = Do(a, Do(b, r))
<1>1. <<b>> \in Program /\ <<a, b>> \in Program
  BY DEF Program
<1>2. <<a, b>> = Do(a, <<b>>)
  BY Zenon, DoPair
<1>3. Do(a, <<b>>) \o r = Do(a, <<b>> \o r)
  BY Zenon, <1>1, DoAssoc
<1>4. <<b>> \o r = Do(b, r)
  BY Zenon DEF Do
<1> QED
  BY Zenon, <1>1, <1>2, <1>3, <1>4

(* Three operations put in front of a program. *)
LEMMA DoThree ==
  ASSUME NEW a \in OpSet, NEW b \in OpSet, NEW c \in OpSet, NEW r \in Program
  PROVE  <<a, b, c>> \in Program /\ <<a, b, c>> \o r = Do(a, Do(b, Do(c, r)))
<1>1. <<a, b, c>> = Do(a, <<b, c>>)
  BY DEF Do
<1>2. <<a, b, c>> \in Program
  BY DEF Program
<1>3. <<b, c>> \in Program /\ <<b, c>> \o r = Do(b, Do(c, r))
  BY DoTwo
<1>4. Do(a, <<b, c>>) \o r = Do(a, <<b, c>> \o r)
  BY Zenon, <1>3, DoAssoc
<1> QED
  BY Zenon, <1>1, <1>2, <1>3, <1>4

(* Four operations put in front of a program. *)
LEMMA DoFour ==
  ASSUME NEW a \in OpSet, NEW b \in OpSet, NEW c \in OpSet, NEW d \in OpSet,
         NEW r \in Program
  PROVE  /\ <<a, b, c, d>> \in Program
         /\ <<a, b, c, d>> \o r = Do(a, Do(b, Do(c, Do(d, r))))
<1>1. <<a, b, c, d>> = Do(a, <<b, c, d>>)
  BY DEF Do
<1>2. <<a, b, c, d>> \in Program
  BY DEF Program
<1>3. <<b, c, d>> \in Program /\ <<b, c, d>> \o r = Do(b, Do(c, Do(d, r)))
  BY DoThree
<1>4. Do(a, <<b, c, d>>) \o r = Do(a, <<b, c, d>> \o r)
  BY Zenon, <1>3, DoAssoc
<1> QED
  BY Zenon, <1>1, <1>2, <1>3, <1>4

(* The operations. *)
LEMMA OpIs ==
  ASSUME NEW op, NEW arg
  PROVE  Op(op, arg).op = op /\ Op(op, arg).arg = arg
BY Zenon DEF Op

(* The fields of a get_or_init. *)
LEMMA GetIs ==
  ASSUME NEW c, NEW how
  PROVE  /\ get_or_init(c, how).op = "get"
         /\ get_or_init(c, how).arg = c /\ get_or_init(c, how).how = how
BY Zenon DEF get_or_init

(* The program of a thread that is back in its own code. *)
LEMMA NoneLeft == <<>> \in Program
BY DEF Program

(* phalloc and phree, with r to follow. *)
LEMMA CallShapes ==
  ASSUME NEW r \in Program
  PROVE  /\ Result(r) \in Program /\ AllocUnlock(r) \in Program
         /\ AllocLock(r) \in Program /\ Allocate(r) \in Program
         /\ FreeUnlock(r) \in Program /\ FreeLock(r) \in Program
         /\ Release(r) \in Program
         /\ phalloc \o r = Allocate(r)
         /\ phree \o r = Release(r)
<1>1. /\ Op("alloc", 0) \in OpSet /\ Op("unlock", "MEMORY") \in OpSet
      /\ Op("lock", "MEMORY") \in OpSet /\ get_or_init("MEMORY", "none") \in OpSet
  BY Zenon DEF OpSet
<1>2. phalloc \o r = Allocate(r)
  BY <1>1, DoFour DEF phalloc, Allocate, AllocLock, AllocUnlock, Result
<1>3. phree \o r = Release(r)
  BY <1>1, DoThree DEF phree, Release, FreeLock, FreeUnlock
<1>4. /\ Result(r) \in Program /\ AllocUnlock(r) \in Program
      /\ AllocLock(r) \in Program /\ Allocate(r) \in Program
  BY Zenon, <1>1, DoFacts DEF Allocate, AllocLock, AllocUnlock, Result
<1>5. /\ FreeUnlock(r) \in Program /\ FreeLock(r) \in Program
      /\ Release(r) \in Program
  BY Zenon, <1>1, DoFacts DEF Release, FreeLock, FreeUnlock
<1> QED
  BY Zenon, <1>2, <1>3, <1>4, <1>5

(* The rest of proc::new, of give_up and of kernel_init are programs. *)
LEMMA BodyPrograms ==
  /\ \A r \in Program : /\ Switching(r) \in Program /\ Leaving(r) \in Program
                        /\ Choosing(r) \in Program /\ Yielding(r) \in Program
  /\ \A b \in Int : Mapping(b) \in Program /\ Entering(b) \in Program
  /\ Unlocking \in Program /\ Dropping \in Program /\ Filling \in Program
  /\ Claiming \in Program /\ Locking \in Program
  /\ InitTable \in Program /\ InitMemory \in Program /\ ClearRam \in Program
  /\ ClearReserve \in Program /\ ClearBss \in Program /\ TableDone \in Program
  /\ MemoryDone \in Program /\ TakeStack \in Program /\ TakeMeta \in Program
  /\ ClearAgain \in Program
  /\ \A t : Parked(t) \in Program
<1>1. \A r \in Program : /\ Switching(r) \in Program /\ Leaving(r) \in Program
                         /\ Choosing(r) \in Program /\ Yielding(r) \in Program
  <2> SUFFICES ASSUME NEW r \in Program
               PROVE  /\ Switching(r) \in Program /\ Leaving(r) \in Program
                      /\ Choosing(r) \in Program /\ Yielding(r) \in Program
    BY Zenon
  <2>1. /\ Op("switch", 0) \in OpSet /\ Op("unlock", "PROC_TABLE") \in OpSet
        /\ Op("choose", 0) \in OpSet /\ Op("lock", "PROC_TABLE") \in OpSet
    BY Zenon DEF OpSet
  <2> QED
    BY Zenon, <2>1, DoFacts DEF Switching, Leaving, Choosing, Yielding
<1>2. Unlocking \in Program
  <2>1. Op("unlock", "PROC_TABLE") \in OpSet
    BY Zenon DEF OpSet
  <2> QED
    BY Zenon, <2>1, NoneLeft, DoFacts DEF Unlocking
<1>3. \A b \in Int : Mapping(b) \in Program /\ Entering(b) \in Program
  <2>1. \A b \in Int : Op("map", b) \in OpSet /\ Op("pte", b) \in OpSet
    BY Zenon DEF OpSet
  <2> QED
    BY Zenon, <1>2, <2>1, DoFacts DEF Mapping, Entering
<1>4. Mapping(0) \in Program
  BY <1>3
<1>5. Dropping \in Program /\ Filling \in Program
  BY Zenon, <1>4, CallShapes DEF Dropping, Filling
<1>6. Claiming \in Program /\ Locking \in Program
  <2>1. Op("claim", 0) \in OpSet /\ Op("lock", "PROC_TABLE") \in OpSet
    BY Zenon DEF OpSet
  <2> QED
    BY Zenon, <1>5, <2>1, DoFacts DEF Claiming, Locking
<1>7. /\ InitTable \in Program /\ InitMemory \in Program /\ ClearRam \in Program
      /\ ClearReserve \in Program /\ ClearBss \in Program /\ TableDone \in Program
  <2>1. /\ get_or_init("PROC_TABLE", "table") \in OpSet
        /\ get_or_init("MEMORY", "addresses") \in OpSet
        /\ Op("clear", "ram") \in OpSet /\ Op("clear", "reserve") \in OpSet
        /\ Op("clear", "bss") \in OpSet /\ Op("complete", "PROC_TABLE") \in OpSet
    BY Zenon DEF OpSet
  <2> QED
    BY Zenon, <2>1, NoneLeft, DoFacts
    DEF InitTable, InitMemory, ClearRam, ClearReserve, ClearBss, TableDone
<1>8. \A t : Parked(t) \in Program
  <2>1. Op("panic", "idle_panic") \in OpSet /\ Op("panic", "trap_panic") \in OpSet
    BY Zenon DEF OpSet
  <2> QED
    BY Zenon, <2>1, NoneLeft, DoFacts DEF Parked
<1>9. /\ MemoryDone \in Program /\ TakeStack \in Program /\ TakeMeta \in Program
      /\ ClearAgain \in Program
  <2>1. /\ Op("complete", "MEMORY") \in OpSet /\ Op("page_alloc", 0) \in OpSet
        /\ Op("clear", "reserve") \in OpSet
    BY Zenon DEF OpSet
  <2> QED
    BY Zenon, <1>7, <2>1, DoFacts DEF MemoryDone, TakeStack, TakeMeta, ClearAgain
<1> QED
  BY Zenon, <1>1, <1>2, <1>3, <1>5, <1>6, <1>7, <1>8, <1>9

(* Programs can be joined, and the empty one adds nothing. *)
LEMMA Joined ==
  ASSUME NEW p \in Program, NEW q \in Program
  PROVE  p \o q \in Program /\ p \o <<>> = p /\ <<>> \o p = p
BY DEF Program

(* How joined programs are grouped does not matter. *)
LEMMA Regroup ==
  ASSUME NEW p \in Program, NEW q \in Program, NEW r \in Program
  PROVE  (p \o q) \o r = p \o (q \o r)
BY DEF Program

(* The bodies of the allocator's calls are programs. *)
LEMMA CallPrograms == phalloc \in Program /\ phree \in Program
<1>1. /\ Op("alloc", 0) \in OpSet /\ Op("unlock", "MEMORY") \in OpSet
      /\ Op("lock", "MEMORY") \in OpSet /\ get_or_init("MEMORY", "none") \in OpSet
  BY Zenon DEF OpSet
<1> QED
  BY Zenon, <1>1, NoneLeft, DoThree, DoFour DEF phalloc, phree

(* The body of proc::new. *)
LEMMA ProcNew == proc_new = Do(get_or_init("PROC_TABLE", "table"), Locking)
<1> DEFINE g == get_or_init("PROC_TABLE", "table")
           l == Op("lock", "PROC_TABLE")
           c == Op("claim", 0)
           m == Op("map", 0)
           u == Op("unlock", "PROC_TABLE")
           a == <<g, l, c>>
           z == <<m, u>>
<1>1. g \in OpSet /\ l \in OpSet /\ c \in OpSet /\ m \in OpSet /\ u \in OpSet
  BY DEF OpSet
<1>2. z = Mapping(0)
  <2>1. z = Do(m, <<u>>)
    BY Zenon, <1>1, DoPair
  <2>2. <<u>> = Do(u, <<>>)
    BY Zenon, <1>1, DoOne
  <2> QED
    BY Zenon, <2>1, <2>2 DEF Mapping, Unlocking
<1>3. proc_new = ((((a \o phalloc) \o phalloc) \o phree) \o phree) \o z
  BY Zenon DEF proc_new
<1>4. Locking = Do(l, Do(c, Filling))
  BY Zenon DEF Locking, Claiming
<1> HIDE DEF g, l, c, m, u
<1>5. Dropping \in Program /\ Filling \in Program /\ a \o Filling = Do(g, Do(l, Do(c, Filling)))
  <2>1. Dropping \in Program /\ Filling \in Program
    BY Zenon, BodyPrograms
  <2>2. ASSUME NEW q \in Program PROVE a \o q = Do(g, Do(l, Do(c, q)))
    BY <1>1, DoThree
  <2> QED
    BY Zenon, <2>1, <2>2
<1>6. a \in Program /\ z \in Program
  BY <1>1 DEF Program
<1> DEFINE a1 == a \o phalloc
           a2 == a1 \o phalloc
           a3 == a2 \o phree
<1> HIDE DEF a, z
<1>7. a1 \in Program
  BY Zenon, <1>6, CallPrograms, Joined
<1> HIDE DEF a1
<1>8. a2 \in Program
  BY Zenon, <1>7, CallPrograms, Joined
<1> HIDE DEF a2
<1>9. a3 \in Program
  BY Zenon, <1>8, CallPrograms, Joined
<1> HIDE DEF a3
<1>10. (a3 \o phree) \o z = a3 \o Release(Mapping(0))
  <2>1. (a3 \o phree) \o z = a3 \o (phree \o z)
    BY Zenon, <1>6, <1>9, CallPrograms, Regroup
  <2>2. phree \o Mapping(0) = Release(Mapping(0))
    BY Zenon, <1>2, <1>6, CallShapes
  <2> QED
    BY Zenon, <1>2, <2>1, <2>2
<1>11. a3 \o Release(Mapping(0)) = a2 \o Dropping
  <2>1. Release(Mapping(0)) \in Program
    BY Zenon, <1>2, <1>6, CallShapes
  <2>2. (a2 \o phree) \o Release(Mapping(0)) = a2 \o (phree \o Release(Mapping(0)))
    BY Zenon, <1>8, <2>1, CallPrograms, Regroup
  <2>3. phree \o Release(Mapping(0)) = Dropping
    BY Zenon, <2>1, CallShapes DEF Dropping
  <2> QED
    BY Zenon, <2>2, <2>3 DEF a3
<1>12. a2 \o Dropping = a1 \o Allocate(Dropping)
  <2>1. (a1 \o phalloc) \o Dropping = a1 \o (phalloc \o Dropping)
    BY Zenon, <1>5, <1>7, CallPrograms, Regroup
  <2>2. phalloc \o Dropping = Allocate(Dropping)
    BY Zenon, BodyPrograms, CallShapes
  <2> QED
    BY Zenon, <2>1, <2>2 DEF a2
<1>13. a1 \o Allocate(Dropping) = a \o Filling
  <2>1. Allocate(Dropping) \in Program
    BY Zenon, BodyPrograms, CallShapes
  <2>2. (a \o phalloc) \o Allocate(Dropping) = a \o (phalloc \o Allocate(Dropping))
    <3>1. a \in Program /\ phalloc \in Program
      BY Zenon, <1>6, CallPrograms
    <3> QED
      BY Zenon, <2>1, <3>1, Regroup
  <2>3. phalloc \o Allocate(Dropping) = Filling
    BY Zenon, <2>1, CallShapes DEF Filling
  <2> QED
    BY Zenon, <2>2, <2>3 DEF a1
<1>14. proc_new = (a3 \o phree) \o z
  BY Zenon, <1>3 DEF a1, a2, a3
<1> QED
  BY Zenon, <1>4, <1>5, <1>10, <1>11, <1>12, <1>13, <1>14 DEF g

(* The body of give_up, with r to follow. *)
LEMMA GiveUp ==
  ASSUME NEW r \in Program
  PROVE  /\ give_up \o r = Do(get_or_init("PROC_TABLE", "table"), Yielding(r))
         /\ give_up = Do(get_or_init("PROC_TABLE", "table"), Yielding(<<>>))
<1> DEFINE g == get_or_init("PROC_TABLE", "table")
           l == Op("lock", "PROC_TABLE")
           c == Op("choose", 0)
           u == Op("unlock", "PROC_TABLE")
           s == Op("switch", 0)
<1>1. g \in OpSet /\ l \in OpSet /\ c \in OpSet /\ u \in OpSet /\ s \in OpSet
  BY Zenon DEF OpSet
<1>2. give_up = <<g, l, c, u, s>>
  BY Zenon DEF give_up
<1>3. \A q \in Program : Yielding(q) = Do(l, Do(c, Do(u, Do(s, q))))
  BY Zenon DEF Yielding, Choosing, Leaving, Switching
<1> HIDE DEF g, l, c, u, s
<1>4. <<g, l, c, u, s>> = Do(g, <<l, c, u, s>>)
  BY DEF Do
<1>5. /\ <<l, c, u, s>> \in Program
      /\ \A q \in Program : <<l, c, u, s>> \o q = Yielding(q)
  <2>1. <<l, c, u, s>> \in Program
    BY <1>1 DEF Program
  <2>2. ASSUME NEW q \in Program PROVE <<l, c, u, s>> \o q = Do(l, Do(c, Do(u, Do(s, q))))
    BY <1>1, DoFour
  <2> QED
    BY Zenon, <1>3, <2>1, <2>2
<1>6. \A q \in Program : give_up \o q = Do(g, Yielding(q))
  <2>1. ASSUME NEW q \in Program
        PROVE  Do(g, <<l, c, u, s>>) \o q = Do(g, <<l, c, u, s>> \o q)
    BY Zenon, <1>1, <1>5, DoAssoc
  <2> QED
    BY Zenon, <1>2, <1>4, <1>5, <2>1
<1>7. give_up \in Program
  BY Zenon, <1>1, <1>2, <1>4, <1>5, DoFacts
<1> QED
  BY Zenon, <1>6, <1>7, NoneLeft, Joined DEF g

(* The closures of kernel_init's cells, with the rest of kernel_init. *)
LEMMA ClosurePrograms ==
  /\ (Closure("addresses") \o <<Op("complete", "MEMORY")>>) \o InitTable = ClearAgain
  /\ (Closure("table") \o <<Op("complete", "PROC_TABLE")>>) \o <<>>
       = Allocate(TableDone)
<1>1. Op("complete", "MEMORY") \in OpSet /\ Op("complete", "PROC_TABLE") \in OpSet
  BY Zenon DEF OpSet
<1>2. (Closure("addresses") \o <<Op("complete", "MEMORY")>>) \o InitTable = ClearAgain
  <2> DEFINE c == Op("complete", "MEMORY")
             v == Op("clear", "reserve")
             a == Op("page_alloc", 0)
             x == <<v, a, a>>
             y == <<c>>
  <2>1. Closure("addresses") = x
    BY Zenon DEF Closure
  <2>2. v \in OpSet /\ a \in OpSet /\ InitTable \in Program /\ MemoryDone \in Program
    BY Zenon, BodyPrograms DEF OpSet
  <2>3. y \in Program
    BY <1>1 DEF Program
  <2>4. y \o InitTable = MemoryDone
    BY Zenon, <1>1, <2>2, DoOne DEF MemoryDone
  <2>5. ClearAgain = Do(v, Do(a, Do(a, MemoryDone)))
    BY Zenon DEF ClearAgain, TakeMeta, TakeStack
  <2> HIDE DEF c, v, a, y
  <2>6. x \in Program /\ x \o MemoryDone = Do(v, Do(a, Do(a, MemoryDone)))
    BY <2>2, DoThree
  <2> HIDE DEF x
  <2>7. (x \o y) \o InitTable = x \o (y \o InitTable)
    BY Zenon, <2>2, <2>3, <2>6, Regroup
  <2> QED
    BY Zenon, <2>1, <2>4, <2>5, <2>6, <2>7 DEF y, c
<1>3. (Closure("table") \o <<Op("complete", "PROC_TABLE")>>) \o <<>> = Allocate(TableDone)
  <2>1. Closure("table") = phalloc
    BY Zenon DEF Closure
  <2>2. TableDone \in Program /\ Allocate(TableDone) \in Program
    BY Zenon, BodyPrograms, CallShapes
  <2>3. <<Op("complete", "PROC_TABLE")>> = TableDone
    BY Zenon, <1>1, DoOne DEF TableDone
  <2>4. phalloc \o TableDone = Allocate(TableDone)
    BY Zenon, <2>2, CallShapes
  <2> QED
    BY Zenon, <2>1, <2>2, <2>3, <2>4, Joined
<1> QED
  BY Zenon, <1>2, <1>3

(* What map_page of page b puts in front of the rest of proc::new. *)
LEMMA MapPrograms ==
  ASSUME NEW b \in Int
  PROVE  /\ ((phalloc \o phree) \o <<Op("pte", b)>>) \o Unlocking
              = Allocate(Release(Entering(b)))
         /\ (<<>> \o <<Op("pte", b)>>) \o Unlocking = Entering(b)
<1> DEFINE e == Op("pte", b)
           x == <<e>>
           p == Entering(b)
           a == phalloc \o phree
<1>1. e \in OpSet
  BY Zenon DEF OpSet
<1>2. x \in Program
  BY <1>1 DEF Program
<1>3. x \o Unlocking = p
  BY Zenon, <1>1, BodyPrograms, DoOne DEF Entering
<1>4. p \in Program /\ Release(p) \in Program /\ Unlocking \in Program
  BY Zenon, BodyPrograms, CallShapes
<1>5. a \in Program
  BY Zenon, CallPrograms, Joined
<1> HIDE DEF x, p, a
<1>6. <<>> \o x = x
  BY Zenon, <1>2, Joined
<1>7. (a \o x) \o Unlocking = a \o (x \o Unlocking)
  <2>1. Unlocking \in Program
    BY Zenon, <1>4
  <2> QED
    BY Zenon, <1>2, <1>5, <2>1, Regroup
<1>8. (phalloc \o phree) \o p = phalloc \o (phree \o p)
  <2>1. p \in Program
    BY Zenon, <1>4
  <2> QED
    BY Zenon, <2>1, CallPrograms, Regroup
<1>9. phree \o p = Release(p) /\ phalloc \o Release(p) = Allocate(Release(p))
  BY Zenon, <1>4, CallShapes
<1> QED
  BY Zenon, <1>3, <1>6, <1>7, <1>8, <1>9 DEF a, x, p

(* The body of kernel_init. *)
LEMMA KernelInit == kernel_init = Do(Op("hart", 0), ClearBss)
<1> DEFINE h == Op("hart", 0)
           b == Op("clear", "bss")
           v == Op("clear", "reserve")
           m == Op("clear", "ram")
           x == get_or_init("MEMORY", "addresses")
           y == get_or_init("PROC_TABLE", "table")
<1>1. b \in OpSet /\ v \in OpSet /\ m \in OpSet /\ x \in OpSet /\ y \in OpSet
  BY Zenon DEF OpSet
<1>2. kernel_init = <<h, b, v, m, x, y>>
  BY Zenon DEF kernel_init
<1>3. ClearBss = Do(b, Do(v, Do(m, Do(x, Do(y, <<>>)))))
  BY Zenon DEF ClearBss, ClearReserve, ClearRam, InitMemory, InitTable
<1> HIDE DEF h, b, v, m, x, y
<1>4. <<h, b, v, m, x, y>> = Do(h, <<b, v, m, x, y>>)
  BY DEF Do
<1>5. <<b, v, m, x, y>> = Do(b, <<v, m, x, y>>)
  BY DEF Do
<1>6. <<v, m, x, y>> = Do(v, Do(m, Do(x, Do(y, <<>>))))
  <2>1. <<v, m, x, y>> \in Program
    BY <1>1 DEF Program
  <2>2. ASSUME NEW q \in Program PROVE <<v, m, x, y>> \o q = Do(v, Do(m, Do(x, Do(y, q))))
    BY <1>1, DoFour
  <2> QED
    BY Zenon, <2>1, <2>2, NoneLeft, Joined
<1> QED
  BY Zenon, <1>2, <1>3, <1>4, <1>5, <1>6 DEF h

-----------------------------------------------------------------------------
(* When the invariant allows a program *)

(* Where the numbers that stand for threads and slots lie. *)
LEMMA Constants ==
  /\ 0 \in Slot /\ Slot \subseteq Nat /\ Slot \subseteq Thread /\ Main \in Thread
  /\ Main \notin Slot /\ Main # 0 /\ None \notin Slot /\ Bare \notin Slot
  /\ \A t \in Thread : t # Main => t \in Slot
BY KernelAssumption DEF Slot, Thread, Main, None, Bare

(* What may follow an allocator's call is a program. *)
LEMMA ReturnsPrograms ==
  /\ Returns \subseteq Program
  /\ TableDone \in Returns /\ Mapping(0) \in Returns /\ Release(Mapping(0)) \in Returns
  /\ Dropping \in Returns /\ Allocate(Dropping) \in Returns
  /\ \A b \in 0..(KernelPages - 1) : Entering(b) \in Returns /\ Release(Entering(b)) \in Returns
<1>1. /\ TableDone \in Program /\ Mapping(0) \in Program /\ Dropping \in Program
      /\ \A b \in 0..(KernelPages - 1) : Entering(b) \in Program
  BY BodyPrograms
<1>2. /\ Release(Mapping(0)) \in Program /\ Allocate(Dropping) \in Program
      /\ \A b \in 0..(KernelPages - 1) : Release(Entering(b)) \in Program
  BY Zenon, <1>1, CallShapes
<1>3. Returns \subseteq Program
  BY Zenon, <1>1, <1>2 DEF Returns
<1> QED
  BY Zenon, <1>3 DEF Returns

(* A program is allowed when its first operation is. *)
LEMMA WhereDo == \A o \in OpSet, r \in Program : Where(Do(o, r)) <=> OpAt(o, r)
BY Zenon, DoFacts DEF Where

(* The condition of the operation is all that is asked. *)
LEMMA OpAtIs ==
  ASSUME NEW x, NEW r
  PROVE  /\ r = ClearBss /\ Booting /\ Open /\ Fresh /\ Untouched => OpAt(Op("hart", 0), r)
         /\ AtClear(Op("clear", x), r) => OpAt(Op("clear", x), r)
         /\ \A h : AtGet(get_or_init(x, h), r) => OpAt(get_or_init(x, h), r)
         /\ AtPageAlloc(r) => OpAt(Op("page_alloc", 0), r)
         /\ AtComplete(Op("complete", x), r) => OpAt(Op("complete", x), r)
         /\ AtLock(Op("lock", x), r) => OpAt(Op("lock", x), r)
         /\ AtUnlock(Op("unlock", x), r) => OpAt(Op("unlock", x), r)
         /\ Open /\ r \in Returns /\ Returning(r) => OpAt(Op("alloc", 0), r)
         /\ AtPanic(Op("panic", x), r) => OpAt(Op("panic", x), r)
         /\ AtClaim(r) => OpAt(Op("claim", 0), r)
         /\ r = Unlocking /\ Open /\ Filled(x) => OpAt(Op("map", x), r)
         /\ r = Unlocking /\ Open /\ Filled(x) /\ x < KernelPages => OpAt(Op("pte", x), r)
         /\ AtChoose(r) => OpAt(Op("choose", 0), r)
         /\ AtSwitch(r) => OpAt(Op("switch", 0), r)
<1>1. /\ r = ClearBss /\ Booting /\ Open /\ Fresh /\ Untouched => OpAt(Op("hart", 0), r)
      /\ AtClear(Op("clear", x), r) => OpAt(Op("clear", x), r)
  BY OpIs DEF OpAt
<1>2. ASSUME NEW h, AtGet(get_or_init(x, h), r) PROVE OpAt(get_or_init(x, h), r)
  BY <1>2, GetIs DEF OpAt
<1>3. /\ AtComplete(Op("complete", x), r) => OpAt(Op("complete", x), r)
      /\ AtLock(Op("lock", x), r) => OpAt(Op("lock", x), r)
  BY OpIs DEF OpAt
<1>4. /\ AtUnlock(Op("unlock", x), r) => OpAt(Op("unlock", x), r)
      /\ Open /\ r \in Returns /\ Returning(r) => OpAt(Op("alloc", 0), r)
  BY OpIs DEF OpAt
<1>5. /\ AtPanic(Op("panic", x), r) => OpAt(Op("panic", x), r)
      /\ AtClaim(r) => OpAt(Op("claim", 0), r)
  BY OpIs DEF OpAt
<1>6. /\ r = Unlocking /\ Open /\ Filled(x) => OpAt(Op("map", x), r)
      /\ r = Unlocking /\ Open /\ Filled(x) /\ x < KernelPages => OpAt(Op("pte", x), r)
  BY OpIs DEF OpAt
<1>7. AtChoose(r) => OpAt(Op("choose", 0), r)
  BY OpIs DEF OpAt
<1>8. AtSwitch(r) => OpAt(Op("switch", 0), r)
  BY OpIs DEF OpAt
<1>9. AtPageAlloc(r) => OpAt(Op("page_alloc", 0), r)
  BY OpIs DEF OpAt
<1> QED
  BY Zenon, <1>1, <1>2, <1>3, <1>4, <1>5, <1>6, <1>7, <1>8, <1>9

(* The calls of the allocator, with q to follow. *)
LEMMA WhereCalls ==
  ASSUME NEW q \in Returns, Returning(q)
  PROVE  /\ Open => /\ Where(Allocate(q)) /\ Where(Release(q))
                    /\ Where(AllocLock(q)) /\ Where(FreeLock(q)) /\ Where(Result(q))
         /\ lock["MEMORY"] = "Locked" => Where(AllocUnlock(q)) /\ Where(FreeUnlock(q))
<1>1. q \in Program
  BY Zenon, ReturnsPrograms
<1>2. /\ Result(q) \in Program /\ AllocUnlock(q) \in Program /\ AllocLock(q) \in Program
      /\ FreeUnlock(q) \in Program /\ FreeLock(q) \in Program
  BY Zenon, <1>1, CallShapes
<1>3. /\ Op("alloc", 0) \in OpSet /\ Op("unlock", "MEMORY") \in OpSet
      /\ Op("lock", "MEMORY") \in OpSet /\ get_or_init("MEMORY", "none") \in OpSet
  BY Zenon DEF OpSet
<1>4. ASSUME Open
      PROVE  /\ AtGet(get_or_init("MEMORY", "none"), AllocLock(q))
             /\ AtGet(get_or_init("MEMORY", "none"), FreeLock(q))
             /\ AtLock(Op("lock", "MEMORY"), AllocUnlock(q))
             /\ AtLock(Op("lock", "MEMORY"), FreeUnlock(q))
  <2>1. Op("lock", "MEMORY").arg = "MEMORY"
    BY Zenon, OpIs
  <2> QED
    BY Zenon, <1>4, <2>1 DEF AtGet, AtLock
<1>5. ASSUME lock["MEMORY"] = "Locked"
      PROVE  /\ AtUnlock(Op("unlock", "MEMORY"), Result(q))
             /\ AtUnlock(Op("unlock", "MEMORY"), q)
  <2>1. Op("unlock", "MEMORY").arg = "MEMORY"
    BY Zenon, OpIs
  <2> QED
    BY Zenon, <1>5, <2>1 DEF AtUnlock
<1>6. Open => /\ Where(Allocate(q)) /\ Where(Release(q))
              /\ Where(AllocLock(q)) /\ Where(FreeLock(q)) /\ Where(Result(q))
  <2>1. Open => Where(Allocate(q)) /\ Where(Release(q))
    BY Zenon, <1>2, <1>3, <1>4, OpAtIs, WhereDo DEF Allocate, Release
  <2>2. Open => Where(AllocLock(q)) /\ Where(FreeLock(q))
    BY Zenon, <1>2, <1>3, <1>4, OpAtIs, WhereDo DEF AllocLock, FreeLock
  <2>3. Open => Where(Result(q))
    BY Zenon, <1>1, <1>3, OpAtIs, WhereDo DEF Result
  <2> QED
    BY Zenon, <2>1, <2>2, <2>3
<1>7. lock["MEMORY"] = "Locked" => Where(AllocUnlock(q)) /\ Where(FreeUnlock(q))
  BY Zenon, <1>1, <1>2, <1>3, <1>5, OpAtIs, WhereDo DEF AllocUnlock, FreeUnlock
<1> QED
  BY Zenon, <1>6, <1>7

(* What follows them. *)
LEMMA WhereReturns ==
  ASSUME NEW q \in Returns, Returning(q), Open
  PROVE  Where(q)
<1>1. /\ Unlocking \in Program /\ <<>> \in Program
      /\ Op("complete", "PROC_TABLE") \in OpSet
      /\ \A b \in Int : Op("map", b) \in OpSet /\ Op("pte", b) \in OpSet
  BY Zenon, NoneLeft, BodyPrograms DEF OpSet
<1>2. CASE q = TableDone /\ Booting /\ Cleared
           /\ once["MEMORY"] = "Completed" /\ once["PROC_TABLE"] = "InProgress"
  <2>1. Op("complete", "PROC_TABLE").arg = "PROC_TABLE"
    BY Zenon, OpIs
  <2>2. AtComplete(Op("complete", "PROC_TABLE"), <<>>)
    BY Zenon, <1>2, <2>1 DEF AtComplete
  <2> QED
    BY Zenon, <1>1, <1>2, <2>2, OpAtIs, WhereDo DEF TableDone
<1>3. CASE Filled(0) /\ q \in {Mapping(0), Release(Mapping(0)), Dropping, Allocate(Dropping)}
  <2>1. \A r \in {Mapping(0), Release(Mapping(0)), Dropping} : r \in Returns /\ Returning(r)
    BY Zenon, <1>3, ReturnsPrograms DEF Returning
  <2>2. Where(Release(Mapping(0))) /\ Where(Dropping) /\ Where(Allocate(Dropping))
    BY Zenon, <2>1, WhereCalls DEF Dropping
  <2>3. Where(Mapping(0))
    <3>1. OpAt(Op("map", 0), Unlocking)
      BY Zenon, <1>3, OpAtIs
    <3>2. Op("map", 0) \in OpSet
      BY DEF OpSet
    <3> QED
      BY Zenon, <1>1, <3>1, <3>2, WhereDo DEF Mapping
  <2> QED
    BY Zenon, <1>3, <2>2, <2>3
<1>4. ASSUME NEW b \in 0..(KernelPages - 1), Filled(b), q \in {Entering(b), Release(Entering(b))}
      PROVE  Where(q)
  <2>1. b \in Int /\ b < KernelPages
    BY KernelAssumption
  <2>2. Where(Entering(b))
    BY Zenon, <1>1, <1>4, <2>1, OpAtIs, WhereDo DEF Entering
  <2>3. Entering(b) \in Returns /\ Returning(Entering(b))
    BY Zenon, <1>4, ReturnsPrograms DEF Returning
  <2> QED
    BY Zenon, <1>4, <2>2, <2>3, WhereCalls
<1> QED
  BY Zenon, <1>2, <1>3, <1>4 DEF Returning

(* A region of memory is cleared or used. *)
LEMMA AreaStep ==
  ASSUME area \in [Area -> Contents], NEW a \in Area, NEW c \in {"clear", "used"},
         area' = [area EXCEPT ![a] = c]
  PROVE  /\ area' \in [Area -> Contents]
         /\ area'[a] = c /\ \A b \in Area : b # a => area'[b] = area[b]
         /\ Cleared => Cleared'
         /\ Untouched /\ c = "clear" => Untouched'
<1>1. c \in Contents /\ c # "raw"
  BY DEF Contents
<1>2. "clear" # "used"
  OBVIOUS
<1>3. /\ area' \in [Area -> Contents]
      /\ area'[a] = c /\ \A b \in Area : b # a => area'[b] = area[b]
  BY Zenon, <1>1
<1>4. \A b \in Area : b = a \/ b # a
  BY Zenon
<1>5. Cleared => Cleared'
  BY Zenon, <1>1, <1>3, <1>4 DEF Cleared
<1>6. Untouched /\ c = "clear" => Untouched'
  BY Zenon, <1>2, <1>3, <1>4 DEF Untouched
<1> QED
  BY Zenon, <1>3, <1>5, <1>6

(* What is cleared stays so while no memory is cleared or used. *)
LEMMA SameCleared == ASSUME area' = area PROVE Cleared' <=> Cleared
BY Zenon DEF Cleared

(* What the conditions of the allocator's calls depend on. *)
LEMMA ReturningKept ==
  ASSUME thread' = thread, once' = once, Cleared' <=> Cleared, mapped' = mapped,
         claim' = claim, todo' = todo, lock'["PROC_TABLE"] = lock["PROC_TABLE"],
         NEW q
  PROVE  Returning(q)' <=> Returning(q)
<1>1. Booting' <=> Booting
  BY Zenon DEF Booting, Quiet
<1>2. \A b : Filled(b)' <=> Filled(b)
  BY Zenon DEF Filled, Booted, Creating
<1> QED
  BY Zenon, <1>1, <1>2 DEF Returning

(* The same, when no memory is cleared or used. *)
LEMMA SameReturning ==
  ASSUME thread' = thread, once' = once, area' = area, mapped' = mapped,
         claim' = claim, todo' = todo, lock'["PROC_TABLE"] = lock["PROC_TABLE"],
         NEW q
  PROVE  Returning(q)' <=> Returning(q)
BY Zenon, SameCleared, ReturningKept

(* A step that leaves alone what the conditions read leaves them alone. *)
LEMMA SameWhere ==
  ASSUME thread' = thread, once' = once, area' = area, mapped' = mapped,
         claim' = claim, todo' = todo, lock' = lock, switch' = switch, state' = state,
         NEW p
  PROVE  Where(p)' <=> Where(p)
<1>0. (Cleared' <=> Cleared) /\ (Untouched' <=> Untouched)
  BY Zenon DEF Cleared, Untouched
<1>1. /\ Fresh' <=> Fresh
      /\ Quiet' <=> Quiet
      /\ Booting' <=> Booting
      /\ Booted' <=> Booted
      /\ Open' <=> Open
      /\ Making' <=> Making
      /\ Creating' <=> Creating
      /\ GivingUp' <=> GivingUp
      /\ Chosen' <=> Chosen
  BY Zenon, <1>0 DEF Fresh, Quiet, Booting, Booted, Open, Making, Creating, GivingUp, Chosen
<1>2. /\ \A b : Filled(b)' <=> Filled(b)
      /\ \A q : Returning(q)' <=> Returning(q)
  BY Zenon, <1>0, SameReturning DEF Filled, Booted, Creating
<1>3. ASSUME NEW o, NEW r PROVE OpAt(o, r)' <=> OpAt(o, r)
  <2>1. AtClear(o, r)' <=> AtClear(o, r)
    BY Zenon, <1>0, <1>1 DEF AtClear
  <2>2. AtGet(o, r)' <=> AtGet(o, r)
    BY Zenon, <1>0, <1>1, <1>2 DEF AtGet
  <2>3. /\ AtComplete(o, r)' <=> AtComplete(o, r)
        /\ AtPageAlloc(r)' <=> AtPageAlloc(r)
    BY Zenon, <1>0, <1>1 DEF AtComplete, AtPageAlloc
  <2>4. AtLock(o, r)' <=> AtLock(o, r)
    BY Zenon, <1>1, <1>2 DEF AtLock
  <2>5. AtUnlock(o, r)' <=> AtUnlock(o, r)
    BY Zenon, <1>1, <1>2 DEF AtUnlock
  <2>6. /\ AtPanic(o, r)' <=> AtPanic(o, r)
        /\ AtClaim(r)' <=> AtClaim(r)
        /\ AtChoose(r)' <=> AtChoose(r)
        /\ AtSwitch(r)' <=> AtSwitch(r)
    BY Zenon, <1>1 DEF AtPanic, AtClaim, AtChoose, AtSwitch
  <2>7. /\ (Open /\ Returning(r))' <=> Open /\ Returning(r)
        /\ Filled(o.arg)' <=> Filled(o.arg)
    BY Zenon, <1>1, <1>2
  <2> QED
    BY SMT, <1>0, <1>1, <2>1, <2>2, <2>3, <2>4, <2>5, <2>6, <2>7 DEF OpAt
<1>4. Resting' <=> Resting
  BY Zenon, <1>1 DEF Resting
<1> QED
  BY Zenon, <1>3, <1>4 DEF Where

-----------------------------------------------------------------------------
(* Every step preserves the invariant. *)

(* The operation that comes next and what follows it. *)
LEMMA Opened ==
  ASSUME Inv, prog[thread] # <<>>
  PROVE  Here \in OpSet /\ Rest \in Program /\ OpAt(Here, Rest)
<1>1. prog[thread] \in Seq(OpSet)
  BY Zenon DEF Inv, TypeOK, Program
<1>2. Head(prog[thread]) \in OpSet /\ Tail(prog[thread]) \in Seq(OpSet)
  BY <1>1
<1> QED
  BY Zenon, <1>2 DEF Here, Rest, Program, Inv, Where

(* The program of the running thread, after it goes on with p. *)
LEMMA Continued ==
  ASSUME Inv, NEW p \in Program, Continue(p), thread' = thread
  PROVE  /\ prog' \in [Thread -> Program]
         /\ (prog[thread])' = p
         /\ OthersParked'
<1>1. prog \in [Thread -> Program] /\ thread \in Thread
  BY Zenon DEF Inv, TypeOK
<1>2. prog' = [prog EXCEPT ![thread] = p]
  BY Zenon DEF Continue
<1>3. /\ prog' \in [Thread -> Program] /\ prog'[thread] = p
      /\ \A t \in Thread : t # thread => prog'[t] = prog[t]
  BY Zenon, <1>1, <1>2
<1> QED
  BY Zenon, <1>3 DEF Inv, OthersParked

(* A step that leaves the process table alone. *)
LEMMA Keeps ==
  ASSUME Inv, NEW p \in Program, Continue(p), Where(p)',
         once' \in [Cell -> {"Incomplete", "InProgress", "Completed"}],
         lock' \in [Cell -> {"Free", "Locked"}], area' \in [Area -> Contents],
         thread' = thread, procs' = procs, todo' = todo,
         curr_proc_idx' = curr_proc_idx, satp' = satp
  PROVE  Inv'
<1>1. state' = state /\ sp' = sp /\ mapped' = mapped /\ claim' = claim
  BY Zenon DEF procs
<1>2. prog' \in [Thread -> Program] /\ (prog[thread])' = p /\ OthersParked'
  BY Zenon, Continued
<1>3. TypeOK'
  BY Zenon, <1>1, <1>2 DEF Inv, TypeOK
<1>4. Slots' /\ Claimed' /\ IdleSlot' /\ Active'
  BY Zenon, <1>1 DEF Inv, Slots, Claimed, IdleSlot, Active
<1>5. Where(prog[thread])'
  BY Zenon, <1>2
<1> QED
  BY Zenon, <1>2, <1>3, <1>4, <1>5 DEF Inv

(* A step that changes nothing but what the running thread has still to do. *)
LEMMA Steps ==
  ASSUME Inv, NEW p \in Program, Continue(p), Where(p),
         UNCHANGED <<hart_id, thread, once, lock, area, procs, sched, todo, status>>
  PROVE  Inv'
<1>1. /\ thread' = thread /\ once' = once /\ lock' = lock /\ area' = area
      /\ procs' = procs /\ todo' = todo
      /\ curr_proc_idx' = curr_proc_idx /\ satp' = satp /\ switch' = switch
      /\ state' = state /\ mapped' = mapped /\ claim' = claim
  BY Zenon DEF procs, sched
<1>2. Where(p)'
  BY Zenon, <1>1, SameWhere
<1>3. /\ once' \in [Cell -> {"Incomplete", "InProgress", "Completed"}]
      /\ lock' \in [Cell -> {"Free", "Locked"}] /\ area' \in [Area -> Contents]
  BY Zenon, <1>1 DEF Inv, TypeOK
<1> QED
  BY Zenon, <1>1, <1>2, <1>3, Keeps

(* A panic, or parking the hart, changes nothing but status. *)
LEMMA StopInv ==
  ASSUME Inv, NEW why, Stop(why)
  PROVE  Inv'
<1>1. /\ prog' = prog /\ thread' = thread /\ once' = once /\ lock' = lock
      /\ area' = area /\ state' = state /\ sp' = sp /\ mapped' = mapped
      /\ claim' = claim /\ curr_proc_idx' = curr_proc_idx /\ satp' = satp
      /\ switch' = switch /\ todo' = todo
  BY Zenon DEF Stop, procs, sched
<1>2. TypeOK' /\ OthersParked' /\ Slots' /\ Claimed' /\ IdleSlot' /\ Active'
  BY Zenon, <1>1 DEF Inv, TypeOK, OthersParked, Slots, Claimed, IdleSlot, Active
<1>3. Where(prog[thread])'
  <2>1. \A p : Where(p)' <=> Where(p)
    BY Zenon, <1>1, SameWhere
  <2>2. (prog[thread])' = prog[thread]
    BY Zenon, <1>1
  <2>3. Where(prog[thread])
    BY Zenon DEF Inv
  <2> DEFINE p == prog[thread]
  <2> QED
    BY Zenon, <2>1, <2>2, <2>3
<1> QED
  BY Zenon, <1>2, <1>3 DEF Inv

-----------------------------------------------------------------------------
(* The same after a step. *)

(* The condition of the operation is all that is asked. *)
LEMMA OpAtIsNext ==
  ASSUME NEW x, NEW r
  PROVE  /\ (AtClear(Op("clear", x), r) => OpAt(Op("clear", x), r))'
         /\ \A h : (AtGet(get_or_init(x, h), r) => OpAt(get_or_init(x, h), r))'
         /\ (AtPageAlloc(r) => OpAt(Op("page_alloc", 0), r))'
         /\ (AtComplete(Op("complete", x), r) => OpAt(Op("complete", x), r))'
         /\ (AtClaim(r) => OpAt(Op("claim", 0), r))'
         /\ (r = Unlocking /\ Open /\ Filled(x) => OpAt(Op("map", x), r))'
         /\ (AtUnlock(Op("unlock", x), r) => OpAt(Op("unlock", x), r))'
         /\ (AtPanic(Op("panic", x), r) => OpAt(Op("panic", x), r))'
         /\ (AtChoose(r) => OpAt(Op("choose", 0), r))'
         /\ (AtSwitch(r) => OpAt(Op("switch", 0), r))'
<1>1. (AtClear(Op("clear", x), r) => OpAt(Op("clear", x), r))'
  BY OpAtIs, PTL
<1>2. ASSUME NEW h PROVE (AtGet(get_or_init(x, h), r) => OpAt(get_or_init(x, h), r))'
  <2>1. AtGet(get_or_init(x, h), r) => OpAt(get_or_init(x, h), r)
    BY Zenon, OpAtIs
  <2> QED
    BY <2>1, PTL
<1>3. /\ (AtPageAlloc(r) => OpAt(Op("page_alloc", 0), r))'
      /\ (AtComplete(Op("complete", x), r) => OpAt(Op("complete", x), r))'
      /\ (AtClaim(r) => OpAt(Op("claim", 0), r))'
      /\ (r = Unlocking /\ Open /\ Filled(x) => OpAt(Op("map", x), r))'
      /\ (AtUnlock(Op("unlock", x), r) => OpAt(Op("unlock", x), r))'
      /\ (AtPanic(Op("panic", x), r) => OpAt(Op("panic", x), r))'
      /\ (AtChoose(r) => OpAt(Op("choose", 0), r))'
      /\ (AtSwitch(r) => OpAt(Op("switch", 0), r))'
  <2>1. /\ AtPageAlloc(r) => OpAt(Op("page_alloc", 0), r)
        /\ AtComplete(Op("complete", x), r) => OpAt(Op("complete", x), r)
        /\ AtClaim(r) => OpAt(Op("claim", 0), r)
        /\ r = Unlocking /\ Open /\ Filled(x) => OpAt(Op("map", x), r)
        /\ AtUnlock(Op("unlock", x), r) => OpAt(Op("unlock", x), r)
        /\ AtPanic(Op("panic", x), r) => OpAt(Op("panic", x), r)
        /\ AtChoose(r) => OpAt(Op("choose", 0), r)
        /\ AtSwitch(r) => OpAt(Op("switch", 0), r)
    BY Zenon, OpAtIs
  <2> QED
    BY <2>1, PTL
<1> QED
  BY Zenon, <1>1, <1>2, <1>3

(* A program is allowed when its first operation is. *)
LEMMA WhereDoNext ==
  ASSUME NEW o \in OpSet, NEW r \in Program
  PROVE  (OpAt(o, r) => Where(Do(o, r)))'
<1>1. OpAt(o, r) => Where(Do(o, r))
  BY Zenon, WhereDo
<1> QED
  BY <1>1, PTL

(* The calls of the allocator, with q to follow, and q itself. *)
LEMMA WhereCallsNext ==
  ASSUME NEW q \in Returns
  PROVE  /\ (Returning(q) /\ Open => Where(Allocate(q)))'
         /\ (Returning(q) /\ Open => Where(Result(q)))'
         /\ (Returning(q) /\ Open => Where(q))'
         /\ (Returning(q) /\ lock["MEMORY"] = "Locked" => Where(AllocUnlock(q)))'
         /\ (Returning(q) /\ lock["MEMORY"] = "Locked" => Where(FreeUnlock(q)))'
<1>1. /\ Returning(q) /\ Open => Where(Allocate(q))
      /\ Returning(q) /\ Open => Where(Result(q))
      /\ Returning(q) /\ Open => Where(q)
      /\ Returning(q) /\ lock["MEMORY"] = "Locked" => Where(AllocUnlock(q))
      /\ Returning(q) /\ lock["MEMORY"] = "Locked" => Where(FreeUnlock(q))
  BY Zenon, WhereCalls, WhereReturns
<1> QED
  BY <1>1, PTL

-----------------------------------------------------------------------------
(* The actions *)

(* What is known when an operation is next. *)
LEMMA AtOp ==
  ASSUME Inv, NEW op, At(op)
  PROVE  /\ Here \in OpSet /\ Here.op = op
         /\ Rest \in Program /\ OpAt(Here, Rest)
         /\ thread \in Thread
BY Zenon, Opened DEF At, Inv, TypeOK

(* The invariant holds when boot is entered. *)
LEMMA InitInv == Init => Inv
<1> SUFFICES ASSUME Init PROVE Inv
  BY Zenon
<1>1. /\ kernel_init \in Program /\ Where(kernel_init)
  <2>1. Op("hart", 0) \in OpSet /\ ClearBss \in Program
    BY Zenon, BodyPrograms DEF OpSet
  <2>2. Booting /\ Open /\ Fresh /\ Untouched
    <3>1. Untouched
      BY DEF Init, Untouched
    <3> QED
      BY Zenon, <3>1 DEF Init, Booting, Quiet, Open, Fresh, Cell
  <2>3. OpAt(Op("hart", 0), ClearBss)
    BY Zenon, <2>2, OpAtIs
  <2> QED
    BY Zenon, <2>1, <2>3, KernelInit, WhereDo, DoFacts
<1>2. <<Op("panic", "trap_panic")>> = Do(Op("panic", "trap_panic"), <<>>)
  <2>1. Op("panic", "trap_panic") \in OpSet
    BY Zenon DEF OpSet
  <2> QED
    BY Zenon, <2>1, DoOne
<1>3. \A t \in Thread : prog[t] = IF t = Main THEN kernel_init ELSE Parked(t)
  BY Zenon, <1>2 DEF Init, Parked
<1>4. prog \in [Thread -> Program]
  <2>1. prog = [t \in Thread |-> prog[t]]
    BY Zenon DEF Init
  <2>2. \A t \in Thread : prog[t] \in Program
    BY Zenon, <1>1, <1>3, BodyPrograms
  <2> QED
    BY Zenon, <2>1, <2>2
<1>5. thread = Main /\ Main \in Thread
  BY Zenon, Constants DEF Init
<1>6. TypeOK
  <2>1. /\ once \in [Cell -> {"Incomplete", "InProgress", "Completed"}]
        /\ lock \in [Cell -> {"Free", "Locked"}] /\ area \in [Area -> Contents]
        /\ state \in [Slot -> {"Unused", "Runnable"}]
        /\ sp \in [Slot -> [thread : Thread, at : {"nowhere", "entry", "give_up"}]]
        /\ mapped \in [Slot -> SUBSET Nat] /\ claim \in Slot \cup {None}
        /\ curr_proc_idx \in Slot /\ satp \in Slot \cup {Bare}
    BY Zenon, Constants DEF Init, Contents
  <2>2. todo \in Nat
    BY KernelAssumption DEF Init
  <2> QED
    BY Zenon, <1>4, <1>5, <2>1, <2>2 DEF TypeOK
<1>7. Where(prog[thread]) /\ OthersParked
  BY Zenon, <1>1, <1>3, <1>5 DEF OthersParked
<1>8. Slots /\ Claimed /\ Active
  BY Zenon DEF Init, Slots, Claimed, Active, NoContext
<1>9. IdleSlot
  <2>1. todo # 0
    BY KernelAssumption DEF Init
  <2> QED
    BY Zenon, <2>1 DEF IdleSlot, Init
<1> QED
  BY Zenon, <1>6, <1>7, <1>8, <1>9 DEF Inv

(* kernel_main or a process enters proc::new or give_up. *)
LEMMA CallInv == ASSUME Inv, Call PROVE Inv'
<1>1. /\ prog[thread] = <<>> /\ thread \in Thread /\ todo \in Nat
      /\ UNCHANGED <<hart_id, thread, once, lock, area, procs, sched, todo, status>>
  BY Zenon DEF Call, Inv, TypeOK
<1>2. Resting
  BY Zenon, <1>1 DEF Inv, Where
<1> DEFINE g == get_or_init("PROC_TABLE", "table")
<1>3. g \in OpSet /\ Locking \in Program /\ \A r \in Program : Yielding(r) \in Program
  BY Zenon, BodyPrograms DEF OpSet
<1>4. ASSUME Creating, Continue(proc_new) PROVE Inv'
  <2>1. AtGet(g, Locking)
    BY Zenon, <1>2, <1>4 DEF AtGet, Resting
  <2>2. proc_new \in Program /\ Where(proc_new)
    BY Zenon, <1>3, <2>1, ProcNew, OpAtIs, WhereDo, DoFacts
  <2> QED
    BY Zenon, <1>1, <1>4, <2>2, Steps
<1>5. ASSUME GivingUp, NEW p, Continue(p), p = Do(g, Yielding(Parked(thread))) PROVE Inv'
  <2>1. AtGet(g, Yielding(Parked(thread)))
    BY Zenon, <1>2, <1>5 DEF AtGet, Resting
  <2>2. Yielding(Parked(thread)) \in Program
    BY Zenon, <1>3, BodyPrograms
  <2>3. p \in Program /\ Where(p)
    BY Zenon, <1>3, <1>5, <2>1, <2>2, OpAtIs, WhereDo, DoFacts
  <2> QED
    BY Zenon, <1>1, <1>5, <2>3, Steps
<1>6. CASE thread = Main /\ todo > 0 /\ Continue(proc_new)
  BY Zenon, <1>4, <1>6, <1>2 DEF Creating, Resting
<1>7. CASE thread = Main /\ ~(todo > 0) /\ Continue(give_up \o <<Op("panic", "idle_panic")>>)
  <2>1. todo = 0
    BY <1>1, <1>7
  <2>2. Op("panic", "idle_panic") \in OpSet
    BY Zenon DEF OpSet
  <2>3. <<Op("panic", "idle_panic")>> = Parked(thread)
    BY Zenon, <1>7, <2>2, DoOne DEF Parked
  <2>4. give_up \o Parked(thread) = Do(g, Yielding(Parked(thread)))
    BY Zenon, BodyPrograms, GiveUp
  <2>5. GivingUp
    BY Zenon, <1>2, <2>1 DEF GivingUp, Resting
  <2> QED
    BY Zenon, <1>5, <1>7, <2>3, <2>4, <2>5
<1>8. CASE thread # Main /\ Continue(give_up)
  <2>1. Parked(thread) = <<>>
    BY Zenon, <1>2, <1>8 DEF Parked, Resting
  <2>2. give_up = Do(g, Yielding(<<>>))
    BY Zenon, NoneLeft, GiveUp
  <2>3. GivingUp
    BY Zenon, <1>2, <1>8 DEF GivingUp, Resting
  <2> QED
    BY Zenon, <1>5, <1>8, <2>1, <2>2, <2>3
<1>9. CASE thread # Main /\ Spawns /\ Continue(proc_new)
  BY Zenon, <1>4, <1>9, <1>2 DEF Creating, Resting
<1> QED
  BY Zenon, <1>6, <1>7, <1>8, <1>9 DEF Call

(* kernel_init goes on to clear .bss, on hart 0. *)
LEMMA CheckHartInv == ASSUME Inv, CheckHart PROVE Inv'
<1>1. CASE Stop("parked")
  BY Zenon, <1>1, StopInv
<1>2. CASE /\ Continue(Rest)
           /\ UNCHANGED <<hart_id, thread, once, lock, area, procs, sched, todo, status>>
  <2>1. Here.op = "hart" /\ Rest \in Program /\ OpAt(Here, Rest)
    BY Zenon, AtOp DEF CheckHart
  <2>2. Rest = ClearBss /\ Booting /\ Open /\ Fresh /\ Untouched
    BY Zenon, <2>1 DEF OpAt
  <2>3. Op("clear", "bss") \in OpSet /\ Op("clear", "bss").arg = "bss"
    BY Zenon, OpIs DEF OpSet
  <2>4. ClearReserve \in Program
    BY Zenon, BodyPrograms
  <2>5. AtClear(Op("clear", "bss"), ClearReserve)
    BY Zenon, <2>2, <2>3 DEF AtClear
  <2>6. Where(ClearBss)
    BY Zenon, <2>3, <2>4, <2>5, OpAtIs, WhereDo DEF ClearBss
  <2> QED
    BY Zenon, <1>2, <2>1, <2>2, <2>6, Steps
<1> QED
  BY Zenon, <1>1, <1>2 DEF CheckHart

(* kernel_init clears the regions in order, and Memory::new the reserved one
   again; nothing is in use there yet. *)
LEMMA ClearInv == ASSUME Inv, Clear PROVE Inv'
<1>1. PICK o \in OpSet, r \in Program : o = Here /\ r = Rest
  BY Zenon, AtOp DEF Clear
<1>2. o.op = "clear" /\ OpAt(o, r)
  BY Zenon, <1>1, AtOp DEF Clear
<1>3. AtClear(o, r)
  BY Zenon, <1>2 DEF OpAt
<1>4. /\ area' = [area EXCEPT ![o.arg] = "clear"]
      /\ once' = IF o.arg = "bss" THEN [c \in Cell |-> "Incomplete"] ELSE once
      /\ Continue(r) /\ thread' = thread /\ lock' = lock /\ procs' = procs
      /\ todo' = todo /\ curr_proc_idx' = curr_proc_idx /\ satp' = satp
      /\ claim' = claim
  BY Zenon, <1>1 DEF Clear, sched, procs
<1>5. o.arg \in Area
  BY Zenon, <1>3 DEF AtClear, Area
<1>6. /\ area \in [Area -> Contents]
      /\ once \in [Cell -> {"Incomplete", "InProgress", "Completed"}]
      /\ lock \in [Cell -> {"Free", "Locked"}]
  BY Zenon DEF Inv, TypeOK
<1>7. /\ area' \in [Area -> Contents]
      /\ area'[o.arg] = "clear" /\ \A a \in Area : a # o.arg => area'[a] = area[a]
      /\ Cleared => Cleared'
      /\ Untouched => Untouched'
  BY Zenon, <1>4, <1>5, <1>6, AreaStep
<1>8. "clear" # "raw" /\ "reserve" # "bss" /\ "ram" # "bss" /\ "ram" # "reserve"
  OBVIOUS
<1>9. once' = once
  BY Zenon, <1>3, <1>4, <1>8 DEF AtClear, Fresh
<1>10. /\ Op("clear", "reserve") \in OpSet /\ Op("clear", "reserve").arg = "reserve"
       /\ Op("clear", "ram") \in OpSet /\ Op("clear", "ram").arg = "ram"
       /\ get_or_init("MEMORY", "addresses") \in OpSet /\ Op("page_alloc", 0) \in OpSet
  BY Zenon, OpIs DEF OpSet
<1>11. /\ InitTable \in Program /\ InitMemory \in Program /\ ClearRam \in Program
       /\ TakeStack \in Program
  BY Zenon, BodyPrograms
<1>12. ASSUME Booting, Open, Fresh, Untouched PROVE Booting' /\ Open' /\ Fresh' /\ Untouched'
  BY Zenon, <1>4, <1>7, <1>9, <1>12 DEF Booting, Quiet, Open, Fresh
<1>13. Where(r)'
  <2>1. CASE o.arg = "bss" /\ r = ClearReserve /\ Booting /\ Open /\ Fresh /\ Untouched
    <3>1. area'["bss"] # "raw"
      BY Zenon, <1>7, <1>8, <2>1
    <3>2. AtClear(Op("clear", "reserve"), ClearRam)'
      BY Zenon, <1>10, <1>12, <2>1, <3>1 DEF AtClear
    <3>3. OpAt(Op("clear", "reserve"), ClearRam)'
      BY Zenon, <3>2, OpAtIsNext
    <3> QED
      BY Zenon, <1>10, <1>11, <2>1, <3>3, WhereDoNext DEF ClearReserve
  <2>2. CASE /\ o.arg = "reserve" /\ r = ClearRam /\ area["bss"] # "raw"
             /\ Booting /\ Open /\ Fresh /\ Untouched
    <3>1. area'["bss"] # "raw" /\ area'["reserve"] # "raw"
      BY Zenon, <1>7, <1>8, <2>2 DEF Area
    <3>2. AtClear(Op("clear", "ram"), InitMemory)'
      BY Zenon, <1>10, <1>12, <2>2, <3>1 DEF AtClear
    <3>3. OpAt(Op("clear", "ram"), InitMemory)'
      BY Zenon, <3>2, OpAtIsNext
    <3> QED
      BY Zenon, <1>10, <1>11, <2>2, <3>3, WhereDoNext DEF ClearRam
  <2>3. CASE /\ o.arg = "ram" /\ r = InitMemory
             /\ area["bss"] # "raw" /\ area["reserve"] # "raw"
             /\ Booting /\ Open /\ Fresh /\ Untouched
    <3>1. Cleared'
      BY Zenon, <1>7, <1>8, <2>3 DEF Area, Cleared
    <3>2. AtGet(get_or_init("MEMORY", "addresses"), InitTable)'
      BY Zenon, <1>12, <2>3, <3>1 DEF AtGet
    <3>3. OpAt(get_or_init("MEMORY", "addresses"), InitTable)'
      BY Zenon, <3>2, OpAtIsNext
    <3> QED
      BY Zenon, <1>10, <1>11, <2>3, <3>3, WhereDoNext DEF InitMemory
  <2>4. CASE o.arg = "reserve" /\ r = TakeMeta /\ Making
    <3>1. Making'
      BY Zenon, <1>4, <1>7, <1>9, <2>4 DEF Making, Booting, Quiet, Open
    <3>2. AtPageAlloc(TakeStack)'
      BY Zenon, <3>1 DEF AtPageAlloc
    <3>3. OpAt(Op("page_alloc", 0), TakeStack)'
      BY Zenon, <3>2, OpAtIsNext
    <3> QED
      BY Zenon, <1>10, <1>11, <2>4, <3>3, WhereDoNext DEF TakeMeta
  <2> QED
    BY Zenon, <1>3, <2>1, <2>2, <2>3, <2>4 DEF AtClear
<1> QED
  BY Zenon, <1>4, <1>6, <1>7, <1>9, <1>13, Keeps

(* A cell that is in use has been initialised. *)
LEMMA ReturningReady ==
  ASSUME NEW q, Returning(q)
  PROVE  once["MEMORY"] = "Completed"
BY Zenon DEF Returning, Filled, Booted, Cell

(* A cell is skipped when it is initialised; only kernel_init finds one that
   is not. *)
LEMMA GetInv == ASSUME Inv, Get PROVE Inv'
<1>1. PICK o \in OpSet, r \in Program : o = Here /\ r = Rest
  BY Zenon, AtOp DEF Get
<1>2. o.op = "get" /\ OpAt(o, r)
  BY Zenon, <1>1, AtOp DEF Get
<1>3. AtGet(o, r)
  BY Zenon, <1>2 DEF OpAt
<1>4. /\ once \in [Cell -> {"Incomplete", "InProgress", "Completed"}]
      /\ lock \in [Cell -> {"Free", "Locked"}] /\ area \in [Area -> Contents]
  BY Zenon DEF Inv, TypeOK
<1>5. /\ UNCHANGED <<hart_id, thread, lock, procs, sched, todo, status>>
      /\ thread' = thread /\ lock' = lock /\ procs' = procs
      /\ todo' = todo /\ curr_proc_idx' = curr_proc_idx /\ satp' = satp
      /\ claim' = claim
  BY Zenon DEF Get, sched, procs
(* The cell is initialised: the thread goes on with r. *)
<1>6. ASSUME once[o.arg] = "Completed", Where(r) PROVE Inv'
  <2>1. Continue(r) /\ once' = once /\ area' = area
    BY Zenon, <1>1, <1>6 DEF Get
  <2>2. UNCHANGED <<hart_id, thread, once, lock, area, procs, sched, todo, status>>
    BY Zenon, <1>5, <2>1
  <2> QED
    BY Zenon, <1>6, <2>1, <2>2, Steps
(* It is not: the closure comes first. *)
<1>7. ASSUME once[o.arg] # "Completed"
      PROVE  /\ Continue((Closure(o.how) \o <<Op("complete", o.arg)>>) \o r)
             /\ once' = [once EXCEPT ![o.arg] = "InProgress"]
             /\ area' \in [Area -> Contents] /\ (Cleared => Cleared')
             /\ \A a \in Area : a # "bss" => area'[a] = area[a]
  <2>1. /\ Continue((Closure(o.how) \o <<Op("complete", o.arg)>>) \o r)
        /\ once' = [once EXCEPT ![o.arg] = "InProgress"]
        /\ area' = [area EXCEPT !["bss"] = "used"]
    BY Zenon, <1>1, <1>7 DEF Get
  <2>2. "bss" \in Area
    BY Zenon DEF Area
  <2> QED
    BY Zenon, <1>4, <2>1, <2>2, AreaStep
<1>8. /\ Op("complete", "MEMORY") \in OpSet /\ Op("complete", "PROC_TABLE") \in OpSet
      /\ Op("lock", "PROC_TABLE") \in OpSet
      /\ Op("complete", "MEMORY").arg = "MEMORY" /\ Op("lock", "PROC_TABLE").arg = "PROC_TABLE"
  BY Zenon, OpIs DEF OpSet
<1>9. CASE /\ o = get_or_init("MEMORY", "addresses") /\ r = InitTable
           /\ Booting /\ Cleared /\ Untouched /\ Fresh
  <2>1. o.arg = "MEMORY" /\ o.how = "addresses"
    BY <1>9, GetIs
  <2>2. once["MEMORY"] = "Incomplete" /\ once["PROC_TABLE"] = "Incomplete"
    BY Zenon, <1>9 DEF Fresh, Cell
  <2>3. once["MEMORY"] # "Completed" /\ "reserve" # "bss" /\ "reserve" \in Area
    BY <2>2 DEF Area
  <2>4. Continue(ClearAgain) /\ once' = [once EXCEPT !["MEMORY"] = "InProgress"]
    BY Zenon, <1>7, <1>9, <2>1, <2>3, ClosurePrograms
  <2>5. /\ area' \in [Area -> Contents] /\ Cleared' /\ area'["reserve"] # "used"
    BY Zenon, <1>7, <1>9, <2>1, <2>3 DEF Untouched
  <2>6. /\ once' \in [Cell -> {"Incomplete", "InProgress", "Completed"}]
        /\ once'["MEMORY"] = "InProgress" /\ once'["PROC_TABLE"] = "Incomplete"
    BY Zenon, <1>4, <2>2, <2>4 DEF Cell
  <2>7. Making'
    BY Zenon, <1>3, <1>5, <1>9, <2>5, <2>6 DEF Making, Open, Booting, Quiet, AtGet
  <2>8. Op("clear", "reserve") \in OpSet /\ Op("clear", "reserve").arg = "reserve"
    BY Zenon, OpIs DEF OpSet
  <2>9. TakeMeta \in Program /\ ClearAgain \in Program
    BY Zenon, BodyPrograms
  <2>10. AtClear(Op("clear", "reserve"), TakeMeta)'
    BY Zenon, <2>5, <2>7, <2>8 DEF AtClear
  <2>11. Where(ClearAgain)'
    BY Zenon, <2>8, <2>9, <2>10, OpAtIsNext, WhereDoNext DEF ClearAgain
  <2> QED
    BY Zenon, <1>4, <1>5, <2>4, <2>5, <2>6, <2>9, <2>11, Keeps
<1>10. CASE /\ o = get_or_init("PROC_TABLE", "table") /\ r = <<>>
            /\ Booting /\ Cleared
            /\ once["MEMORY"] = "Completed" /\ once["PROC_TABLE"] = "Incomplete"
  <2>1. o.arg = "PROC_TABLE" /\ o.how = "table"
    BY <1>10, GetIs
  <2>2. /\ Continue(Allocate(TableDone))
        /\ once' = [once EXCEPT !["PROC_TABLE"] = "InProgress"]
    BY Zenon, <1>7, <1>10, <2>1, ClosurePrograms
  <2>3. TableDone \in Program /\ TableDone \in Returns /\ Allocate(TableDone) \in Program
    BY Zenon, BodyPrograms, ReturnsPrograms, CallShapes
  <2>5. /\ once' \in [Cell -> {"Incomplete", "InProgress", "Completed"}]
        /\ once'["MEMORY"] = "Completed" /\ once'["PROC_TABLE"] = "InProgress"
    BY Zenon, <1>4, <1>10, <2>2 DEF Cell
  <2>6. Open' /\ Booting' /\ Cleared' /\ area' \in [Area -> Contents]
    BY Zenon, <1>3, <1>5, <1>7, <1>10, <2>1 DEF Open, Booting, Quiet, AtGet
  <2>7. Returning(TableDone)'
    BY Zenon, <2>5, <2>6 DEF Returning
  <2>8. Where(Allocate(TableDone))'
    BY Zenon, <2>3, <2>6, <2>7, WhereCallsNext
  <2> QED
    BY Zenon, <1>4, <1>5, <2>2, <2>3, <2>5, <2>6, <2>8, Keeps
<1>11. CASE /\ o = get_or_init("PROC_TABLE", "table")
            /\ Booted /\ Quiet
            /\ (r = Locking /\ Creating) \/ (r = Yielding(Parked(thread)) /\ GivingUp)
  <2>1. o.arg = "PROC_TABLE"
    BY Zenon, <1>11, GetIs
  <2>2. once["PROC_TABLE"] = "Completed"
    BY Zenon, <1>11 DEF Booted, Cell
  <2>3. /\ Claiming \in Program
        /\ Parked(thread) \in Program /\ Choosing(Parked(thread)) \in Program
    BY Zenon, BodyPrograms
  <2>4. ASSUME r = Locking, Creating PROVE Where(r)
    <3>1. AtLock(Op("lock", "PROC_TABLE"), Claiming)
      BY Zenon, <1>3, <1>8, <1>11, <2>4 DEF AtLock, AtGet
    <3> QED
      BY Zenon, <1>8, <2>3, <2>4, <3>1, OpAtIs, WhereDo DEF Locking
  <2>5. ASSUME r = Yielding(Parked(thread)), GivingUp PROVE Where(r)
    <3>1. AtLock(Op("lock", "PROC_TABLE"), Choosing(Parked(thread)))
      BY Zenon, <1>3, <1>8, <1>11, <2>5 DEF AtLock, AtGet
    <3> QED
      BY Zenon, <1>8, <2>3, <2>5, <3>1, OpAtIs, WhereDo DEF Yielding
  <2> QED
    BY Zenon, <1>6, <1>11, <2>1, <2>2, <2>4, <2>5
<1>12. CASE /\ o = get_or_init("MEMORY", "none")
            /\ \E q \in Returns : Returning(q) /\ r \in {AllocLock(q), FreeLock(q)}
  <2>1. o.arg = "MEMORY"
    BY Zenon, <1>12, GetIs
  <2>2. PICK q \in Returns : Returning(q) /\ r \in {AllocLock(q), FreeLock(q)}
    BY Zenon, <1>12
  <2>3. once["MEMORY"] = "Completed"
    BY Zenon, <2>2, ReturningReady
  <2>4. Open
    BY Zenon, <1>3 DEF AtGet
  <2>5. Where(r)
    BY Zenon, <2>2, <2>4, WhereCalls
  <2> QED
    BY Zenon, <1>6, <2>1, <2>3, <2>5
<1> QED
  BY Zenon, <1>3, <1>9, <1>10, <1>11, <1>12 DEF AtGet

(* Memory::new takes the metadata and the stack from the reserved region. *)
LEMMA PageAllocInv == ASSUME Inv, PageAlloc PROVE Inv'
<1>1. PICK o \in OpSet, r \in Program : o = Here /\ r = Rest
  BY Zenon, AtOp DEF PageAlloc
<1>2. o.op = "page_alloc" /\ OpAt(o, r)
  BY Zenon, <1>1, AtOp DEF PageAlloc
<1>3. Making /\ r \in {TakeStack, MemoryDone}
  BY Zenon, <1>2 DEF OpAt, AtPageAlloc
<1>4. /\ once \in [Cell -> {"Incomplete", "InProgress", "Completed"}]
      /\ lock \in [Cell -> {"Free", "Locked"}] /\ area \in [Area -> Contents]
  BY Zenon DEF Inv, TypeOK
<1>5. CASE Stop("boot_panic")
  BY Zenon, <1>5, StopInv
<1>6. CASE /\ Continue(Rest) /\ area' = [area EXCEPT !["reserve"] = "used"]
           /\ UNCHANGED <<hart_id, thread, once, lock, procs, sched, todo, status>>
  <2>1. /\ Continue(r) /\ thread' = thread /\ once' = once /\ lock' = lock
        /\ procs' = procs /\ todo' = todo /\ claim' = claim
        /\ curr_proc_idx' = curr_proc_idx /\ satp' = satp
    BY Zenon, <1>1, <1>6 DEF sched, procs
  <2>2. area' \in [Area -> Contents] /\ (Cleared => Cleared')
    BY Zenon, <1>4, <1>6, AreaStep DEF Area
  <2>3. Making'
    BY Zenon, <1>3, <2>1, <2>2 DEF Making, Booting, Quiet, Open
  <2>4. /\ Op("page_alloc", 0) \in OpSet /\ Op("complete", "MEMORY") \in OpSet
        /\ Op("complete", "MEMORY").arg = "MEMORY"
        /\ MemoryDone \in Program /\ InitTable \in Program
    BY Zenon, OpIs, BodyPrograms DEF OpSet
  <2>5. ASSUME r = TakeStack PROVE Where(r)'
    <3>1. AtPageAlloc(MemoryDone)'
      BY Zenon, <2>3 DEF AtPageAlloc
    <3> QED
      BY Zenon, <2>4, <2>5, <3>1, OpAtIsNext, WhereDoNext DEF TakeStack
  <2>6. ASSUME r = MemoryDone PROVE Where(r)'
    <3>1. AtComplete(Op("complete", "MEMORY"), InitTable)'
      BY Zenon, <2>3, <2>4 DEF AtComplete, Making
    <3> QED
      BY Zenon, <2>4, <2>6, <3>1, OpAtIsNext, WhereDoNext DEF MemoryDone
  <2> QED
    BY Zenon, <1>3, <1>4, <2>1, <2>2, <2>5, <2>6, Keeps
<1> QED
  BY Zenon, <1>5, <1>6 DEF PageAlloc

(* MEMORY's cell is complete before PROC_TABLE's closure allocates. *)
LEMMA CompleteInv == ASSUME Inv, Complete PROVE Inv'
<1>1. PICK o \in OpSet, r \in Program : o = Here /\ r = Rest
  BY Zenon, AtOp DEF Complete
<1>2. o.op = "complete" /\ OpAt(o, r)
  BY Zenon, <1>1, AtOp DEF Complete
<1>3. AtComplete(o, r)
  BY Zenon, <1>2 DEF OpAt
<1>4. /\ once \in [Cell -> {"Incomplete", "InProgress", "Completed"}]
      /\ lock \in [Cell -> {"Free", "Locked"}] /\ area \in [Area -> Contents]
  BY Zenon DEF Inv, TypeOK
<1>5. /\ Continue(r) /\ once' = [once EXCEPT ![o.arg] = "Completed"]
      /\ thread' = thread /\ lock' = lock /\ area' = area /\ procs' = procs
      /\ todo' = todo /\ curr_proc_idx' = curr_proc_idx /\ satp' = satp
      /\ claim' = claim
  BY Zenon, <1>1 DEF Complete, sched, procs
<1>6. Open' /\ Booting' /\ Cleared'
  BY Zenon, <1>3, <1>5, SameCleared DEF Open, Booting, Quiet, AtComplete
<1>7. once' \in [Cell -> {"Incomplete", "InProgress", "Completed"}] /\ Where(r)'
  <2>1. CASE /\ o.arg = "MEMORY" /\ r = InitTable
             /\ once["MEMORY"] = "InProgress" /\ once["PROC_TABLE"] = "Incomplete"
    <3>1. /\ once' \in [Cell -> {"Incomplete", "InProgress", "Completed"}]
          /\ once'["MEMORY"] = "Completed" /\ once'["PROC_TABLE"] = "Incomplete"
      BY Zenon, <1>4, <1>5, <2>1 DEF Cell
    <3>2. AtGet(get_or_init("PROC_TABLE", "table"), <<>>)'
      BY Zenon, <1>6, <3>1 DEF AtGet
    <3>3. get_or_init("PROC_TABLE", "table") \in OpSet
      BY Zenon DEF OpSet
    <3> QED
      BY Zenon, <2>1, <3>1, <3>2, <3>3, NoneLeft, OpAtIsNext, WhereDoNext DEF InitTable
  <2>2. CASE /\ o.arg = "PROC_TABLE" /\ r = <<>>
             /\ once["MEMORY"] = "Completed" /\ once["PROC_TABLE"] = "InProgress"
    <3>1. once' = [c \in Cell |-> "Completed"]
      <4>1. once' = [c \in Cell |-> IF c = "PROC_TABLE" THEN "Completed" ELSE once[c]]
        BY Zenon, <1>4, <1>5, <2>2
      <4>2. \A c \in Cell : c # "PROC_TABLE" => once[c] = "Completed"
        BY Zenon, <2>2 DEF Cell
      <4> QED
        BY Zenon, <4>1, <4>2
    <3>2. once' \in [Cell -> {"Incomplete", "InProgress", "Completed"}]
      BY Zenon, <3>1
    <3>3. Resting'
      BY Zenon, <1>6, <3>1, Constants DEF Resting, Booted, Booting
    <3> QED
      BY Zenon, <2>2, <3>2, <3>3 DEF Where
  <2> QED
    BY Zenon, <1>3, <2>1, <2>2 DEF AtComplete
<1> QED
  BY Zenon, <1>4, <1>5, <1>7, Keeps

(* A lock is taken. *)
LEMMA LockInv == ASSUME Inv, Lock PROVE Inv'
<1>1. PICK o \in OpSet, r \in Program : o = Here /\ r = Rest
  BY Zenon, AtOp DEF Lock
<1>2. o.op = "lock" /\ OpAt(o, r)
  BY Zenon, <1>1, AtOp DEF Lock
<1>3. AtLock(o, r)
  BY Zenon, <1>2 DEF OpAt
<1>4. /\ once \in [Cell -> {"Incomplete", "InProgress", "Completed"}]
      /\ lock \in [Cell -> {"Free", "Locked"}] /\ area \in [Area -> Contents]
  BY Zenon DEF Inv, TypeOK
<1>5. /\ Continue(r) /\ lock' = [lock EXCEPT ![o.arg] = "Locked"]
      /\ thread' = thread /\ once' = once /\ area' = area /\ procs' = procs
      /\ todo' = todo /\ curr_proc_idx' = curr_proc_idx /\ satp' = satp
      /\ mapped' = mapped /\ claim' = claim
  BY Zenon, <1>1 DEF Lock, sched, procs
<1>6. lock' \in [Cell -> {"Free", "Locked"}]
  BY Zenon, <1>4, <1>5
<1>7. Where(r)'
  <2>1. CASE /\ o.arg = "PROC_TABLE" /\ Booted /\ Quiet
             /\ (r = Claiming /\ Creating) \/ (r = Choosing(Parked(thread)) /\ GivingUp)
    <3>1. lock'["PROC_TABLE"] = "Locked" /\ lock'["MEMORY"] = lock["MEMORY"]
      BY Zenon, <1>4, <1>5, <2>1 DEF Cell
    <3>2. Open' /\ Booted' /\ (claim = None)'
      BY Zenon, <1>3, <1>5, <2>1, <3>1, SameCleared DEF AtLock, Open, Booted, Quiet
    <3>3. ASSUME r = Claiming, Creating PROVE Where(r)'
      <4>1. AtClaim(Filling)'
        BY Zenon, <1>5, <3>1, <3>2, <3>3 DEF AtClaim, Creating
      <4>2. Op("claim", 0) \in OpSet /\ Filling \in Program
        BY Zenon, BodyPrograms DEF OpSet
      <4>3. OpAt(Op("claim", 0), Filling)'
        BY Zenon, <4>1, OpAtIsNext
      <4> QED
        BY Zenon, <3>3, <4>2, <4>3, WhereDoNext DEF Claiming
    <3>4. ASSUME r = Choosing(Parked(thread)), GivingUp PROVE Where(r)'
      <4> DEFINE p == Leaving(Parked(thread))
      <4>1. PICK q \in Program : q = p
        BY Zenon, BodyPrograms
      <4>2. Parked(thread)' = Parked(thread)
        BY Zenon, <1>5 DEF Parked
      <4>3. AtChoose(q)'
        BY Zenon, <1>5, <3>1, <3>2, <3>4, <4>1, <4>2 DEF AtChoose, GivingUp, Leaving, Switching
      <4>4. Op("choose", 0) \in OpSet
        BY Zenon DEF OpSet
      <4>5. OpAt(Op("choose", 0), q)'
        BY Zenon, <4>3, OpAtIsNext
      <4>6. r = Do(Op("choose", 0), q)
        BY Zenon, <3>4, <4>1 DEF Choosing
      <4> QED
        BY Zenon, <4>1, <4>4, <4>5, <4>6, WhereDoNext
    <3> QED
      BY Zenon, <2>1, <3>3, <3>4
  <2>2. CASE /\ o.arg = "MEMORY"
             /\ \E q \in Returns : Returning(q) /\ r \in {AllocUnlock(q), FreeUnlock(q)}
    <3>1. lock'["MEMORY"] = "Locked" /\ lock'["PROC_TABLE"] = lock["PROC_TABLE"]
      BY Zenon, <1>4, <1>5, <2>2 DEF Cell
    <3>2. PICK q \in Returns : Returning(q) /\ r \in {AllocUnlock(q), FreeUnlock(q)}
      BY Zenon, <2>2
    <3>3. Returning(q)'
      BY Zenon, <1>5, <3>1, <3>2, SameReturning
    <3> QED
      BY Zenon, <3>1, <3>2, <3>3, WhereCallsNext
  <2> QED
    BY Zenon, <1>3, <2>1, <2>2 DEF AtLock
<1> QED
  BY Zenon, <1>4, <1>5, <1>6, <1>7, Keeps

(* The step that ends proc::new: the slot is complete. *)
LEMMA CreatedInv ==
  ASSUME Inv, Unlock, Here.arg = "PROC_TABLE", Rest = <<>>, Open, Filled(KernelPages)
  PROVE  Inv'
<1>1. /\ prog \in [Thread -> Program] /\ thread \in Thread /\ todo \in Nat
      /\ lock \in [Cell -> {"Free", "Locked"}] /\ claim \in Slot /\ Creating /\ Booted
      /\ mapped[claim] = 0..(KernelPages - 1)
  BY Zenon DEF Inv, TypeOK, Filled
<1>2. claim # None
  BY Zenon, <1>1, Constants
<1>3. /\ lock' = [lock EXCEPT !["PROC_TABLE"] = "Free"] /\ claim' = None
      /\ todo' = IF thread = Main THEN todo - 1 ELSE todo
      /\ Continue(<<>>) /\ thread' = thread /\ once' = once /\ area' = area
      /\ state' = state /\ sp' = sp /\ mapped' = mapped
      /\ curr_proc_idx' = curr_proc_idx /\ satp' = satp
  BY Zenon, <1>2 DEF Unlock, sched
<1>4. prog' \in [Thread -> Program] /\ (prog[thread])' = <<>> /\ OthersParked'
  BY Zenon, <1>3, NoneLeft, Continued
<1>5. todo' \in Nat
  BY <1>1, <1>3 DEF Creating
<1>6. /\ lock' \in [Cell -> {"Free", "Locked"}]
      /\ lock'["PROC_TABLE"] = "Free" /\ lock'["MEMORY"] = lock["MEMORY"]
  BY Zenon, <1>1, <1>3 DEF Cell
<1>7. TypeOK'
  BY Zenon, <1>3, <1>4, <1>5, <1>6 DEF Inv, TypeOK
<1>8. Where(prog[thread])'
  <2>1. Resting'
    BY Zenon, <1>1, <1>3, <1>6, SameCleared DEF Resting, Open, Booted, Quiet, Creating
  <2> QED
    BY Zenon, <1>4, <2>1 DEF Where
<1>9. Slots'
  <2>1. \A i \in Slot : i = claim \/ i # claim
    BY Zenon
  <2> QED
    BY Zenon, <1>1, <1>3, <2>1 DEF Inv, Slots
<1>10. Claimed' /\ Active'
  BY Zenon, <1>3, Constants DEF Inv, Claimed, Active, TypeOK
<1>11. IdleSlot'
  BY Zenon, <1>2, <1>3 DEF Inv, IdleSlot
<1> QED
  BY Zenon, <1>4, <1>7, <1>8, <1>9, <1>10, <1>11 DEF Inv

(* A guard is dropped. *)
LEMMA UnlockInv == ASSUME Inv, Unlock PROVE Inv'
<1>1. PICK o \in OpSet, r \in Program : o = Here /\ r = Rest
  BY Zenon, AtOp DEF Unlock
<1>2. o.op = "unlock" /\ OpAt(o, r)
  BY Zenon, <1>1, AtOp DEF Unlock
<1>3. AtUnlock(o, r)
  BY Zenon, <1>2 DEF OpAt
<1>4. /\ once \in [Cell -> {"Incomplete", "InProgress", "Completed"}]
      /\ lock \in [Cell -> {"Free", "Locked"}] /\ area \in [Area -> Contents]
  BY Zenon DEF Inv, TypeOK
<1>5. /\ Continue(r) /\ lock' = [lock EXCEPT ![o.arg] = "Free"]
      /\ thread' = thread /\ once' = once /\ area' = area
      /\ state' = state /\ sp' = sp /\ mapped' = mapped
      /\ curr_proc_idx' = curr_proc_idx /\ satp' = satp /\ switch' = switch
  BY Zenon, <1>1 DEF Unlock, sched
<1>6. lock' \in [Cell -> {"Free", "Locked"}]
  BY Zenon, <1>4, <1>5
<1>7. CASE o.arg = "PROC_TABLE" /\ Open /\ Booted /\ r = <<>> /\ Filled(KernelPages)
  BY Zenon, <1>1, <1>7, CreatedInv
<1>8. CASE /\ o.arg = "PROC_TABLE" /\ Open /\ Booted
           /\ r = Switching(Parked(thread)) /\ GivingUp /\ Chosen
           /\ lock["PROC_TABLE"] = "Locked" /\ claim = None
  <2>1. claim' = claim /\ todo' = todo /\ procs' = procs
    BY Zenon, <1>1, <1>5, <1>8 DEF Unlock, procs
  <2>2. lock'["PROC_TABLE"] = "Free" /\ lock'["MEMORY"] = lock["MEMORY"]
    BY Zenon, <1>4, <1>5, <1>8 DEF Cell
  <2>3. PICK q \in Program : q = Parked(thread)
    BY Zenon, BodyPrograms
  <2>4. Parked(thread)' = Parked(thread)
    BY Zenon, <1>5 DEF Parked
  <2>5. AtSwitch(q)'
    BY Zenon, <1>5, <1>8, <2>1, <2>2, <2>3, <2>4, SameCleared
    DEF AtSwitch, Open, Booted, Quiet, GivingUp, Chosen
  <2>6. Op("switch", 0) \in OpSet
    BY Zenon DEF OpSet
  <2>7. OpAt(Op("switch", 0), q)'
    BY Zenon, <2>5, OpAtIsNext
  <2>8. r = Do(Op("switch", 0), q)
    BY Zenon, <1>8, <2>3 DEF Switching
  <2>9. Where(r)'
    BY Zenon, <2>3, <2>6, <2>7, <2>8, WhereDoNext
  <2> QED
    BY Zenon, <1>4, <1>5, <1>6, <2>1, <2>9, Keeps
<1>9. CASE /\ o.arg = "MEMORY" /\ lock["MEMORY"] = "Locked"
           /\ \E q \in Returns : Returning(q) /\ r \in {Result(q), q}
  <2>1. claim' = claim /\ todo' = todo /\ procs' = procs
    BY Zenon, <1>1, <1>5, <1>9 DEF Unlock, procs
  <2>2. lock'["MEMORY"] = "Free" /\ lock'["PROC_TABLE"] = lock["PROC_TABLE"]
    BY Zenon, <1>4, <1>5, <1>9 DEF Cell
  <2>3. PICK q \in Returns : Returning(q) /\ r \in {Result(q), q}
    BY Zenon, <1>9
  <2>4. Returning(q)' /\ Open'
    BY Zenon, <1>5, <2>1, <2>2, <2>3, SameReturning DEF Open
  <2>5. Where(r)'
    BY Zenon, <2>3, <2>4, WhereCallsNext
  <2> QED
    BY Zenon, <1>4, <1>5, <1>6, <2>1, <2>5, Keeps
<1> QED
  BY Zenon, <1>3, <1>7, <1>8, <1>9 DEF AtUnlock

(* The allocation is served, or the kernel panics. *)
LEMMA AllocInv == ASSUME Inv, Alloc PROVE Inv'
<1>1. PICK r \in Program : r = Rest
  BY Zenon, AtOp DEF Alloc
<1>2. r \in Returns /\ Returning(r) /\ Open
  BY Zenon, <1>1, AtOp DEF Alloc, OpAt
<1>3. CASE /\ Continue(Rest) /\ area' = [area EXCEPT !["ram"] = "used"]
           /\ UNCHANGED <<hart_id, thread, once, lock, procs, sched, todo, status>>
  <2>1. /\ Continue(r) /\ thread' = thread /\ once' = once /\ lock' = lock
        /\ procs' = procs /\ todo' = todo /\ claim' = claim /\ mapped' = mapped
        /\ curr_proc_idx' = curr_proc_idx /\ satp' = satp
    BY Zenon, <1>1, <1>3 DEF sched, procs
  <2>2. /\ once \in [Cell -> {"Incomplete", "InProgress", "Completed"}]
        /\ lock \in [Cell -> {"Free", "Locked"}] /\ area \in [Area -> Contents]
    BY Zenon DEF Inv, TypeOK
  <2>3. area' \in [Area -> Contents] /\ (Cleared => Cleared')
    BY Zenon, <1>3, <2>2, AreaStep DEF Area
  <2>4. Cleared
    BY Zenon, <1>2 DEF Returning, Filled, Booted
  <2>5. Returning(r)' /\ Open'
    BY Zenon, <1>2, <2>1, <2>3, <2>4, ReturningKept DEF Open
  <2>6. Where(r)'
    BY Zenon, <1>2, <2>5, WhereCallsNext
  <2> QED
    BY Zenon, <2>1, <2>2, <2>3, <2>6, Keeps
<1> QED
  BY Zenon, <1>3, StopInv DEF Alloc

(* proc::new's loop maps the next page or ends. *)
LEMMA MapPageInv == ASSUME Inv, MapPage PROVE Inv'
<1>1. PICK o \in OpSet, r \in Program : o = Here /\ r = Rest
  BY Zenon, AtOp DEF MapPage
<1>2. o.op = "map" /\ OpAt(o, r)
  BY Zenon, <1>1, AtOp DEF MapPage
<1> DEFINE b == o.arg
           e == Op("pte", b)
<1>3. r = Unlocking /\ Open /\ Filled(b)
  BY Zenon, <1>2 DEF OpAt
<1>4. b \in 0..KernelPages
  BY Zenon, <1>3 DEF Filled
<1>5. UNCHANGED <<hart_id, thread, once, lock, area, procs, sched, todo, status>>
  BY Zenon DEF MapPage
<1>6. Continue(IF Missing(b)
                 THEN ((IF NewSpan(b) THEN phalloc \o phree ELSE <<>>) \o <<e>>) \o r
                 ELSE r)
  BY Zenon, <1>1 DEF MapPage
<1>7. CASE Missing(b)
  <2>1. b \in 0..(KernelPages - 1) /\ b \in Int
    BY <1>4, <1>7, KernelAssumption DEF Missing
  <2>2. /\ Entering(b) \in Returns /\ Release(Entering(b)) \in Returns
        /\ Entering(b) \in Program /\ Release(Entering(b)) \in Program
    BY Zenon, <2>1, ReturnsPrograms
  <2>3. Returning(Entering(b)) /\ Returning(Release(Entering(b)))
    BY Zenon, <1>3, <2>1 DEF Returning
  <2>4. Where(Allocate(Release(Entering(b)))) /\ Where(Entering(b))
    BY Zenon, <1>3, <2>2, <2>3, WhereCalls, WhereReturns
  <2>5. /\ ((phalloc \o phree) \o <<e>>) \o r = Allocate(Release(Entering(b)))
        /\ (<<>> \o <<e>>) \o r = Entering(b)
    BY Zenon, <1>3, <2>1, MapPrograms
  <2>6. Allocate(Release(Entering(b))) \in Program
    BY Zenon, <2>2, CallShapes
  <2> QED
    BY Zenon, <1>5, <1>6, <1>7, <2>2, <2>4, <2>5, <2>6, Steps
<1>8. CASE ~Missing(b)
  <2>1. b = KernelPages
    BY <1>4, <1>8, KernelAssumption DEF Missing
  <2>2. Op("unlock", "PROC_TABLE") \in OpSet /\ Op("unlock", "PROC_TABLE").arg = "PROC_TABLE"
    BY Zenon, OpIs DEF OpSet
  <2>3. AtUnlock(Op("unlock", "PROC_TABLE"), <<>>)
    BY Zenon, <1>3, <2>1, <2>2 DEF AtUnlock, Filled
  <2>4. Where(Unlocking)
    BY Zenon, <2>2, <2>3, NoneLeft, OpAtIs, WhereDo DEF Unlocking
  <2>5. Continue(Unlocking)
    BY Zenon, <1>3, <1>6, <1>8
  <2> QED
    BY Zenon, <1>3, <1>5, <2>4, <2>5, Steps
<1> QED
  BY Zenon, <1>7, <1>8

(* The page is entered in the claimed slot's table. *)
LEMMA WritePteInv == ASSUME Inv, WritePte PROVE Inv'
<1>1. PICK o \in OpSet, r \in Program : o = Here /\ r = Rest
  BY Zenon, AtOp DEF WritePte
<1>2. o.op = "pte" /\ OpAt(o, r)
  BY Zenon, <1>1, AtOp DEF WritePte
<1>3. PICK b \in 0..KernelPages : b = o.arg
  BY Zenon, <1>2 DEF OpAt, Filled
<1>4. r = Unlocking /\ Open /\ Filled(b) /\ b < KernelPages
  BY Zenon, <1>2, <1>3 DEF OpAt
<1>5. mapped \in [Slot -> SUBSET Nat] /\ claim \in Slot /\ mapped[claim] = 0..(b - 1)
  BY Zenon, <1>4 DEF Inv, TypeOK, Filled
<1>6. b \in Nat /\ b + 1 \in 0..KernelPages /\ b + 1 \in Int
  BY <1>4, KernelAssumption
<1>7. /\ mapped' = [mapped EXCEPT ![claim] = mapped[claim] \cup {b}]
      /\ Continue(<<Op("map", b + 1)>> \o r)
      /\ thread' = thread /\ once' = once /\ lock' = lock /\ area' = area
      /\ state' = state /\ sp' = sp /\ claim' = claim /\ todo' = todo
      /\ curr_proc_idx' = curr_proc_idx /\ satp' = satp
  BY Zenon, <1>1, <1>3 DEF WritePte, NextPage, sched
<1>8. <<Op("map", b + 1)>> \o r = Mapping(b + 1) /\ Mapping(b + 1) \in Program
  <2>1. Op("map", b + 1) \in OpSet
    BY Zenon, <1>6 DEF OpSet
  <2> QED
    BY Zenon, <1>4, <1>6, <2>1, BodyPrograms, DoOne DEF Mapping
<1>9. prog' \in [Thread -> Program] /\ (prog[thread])' = Mapping(b + 1) /\ OthersParked'
  BY Zenon, <1>7, <1>8, Continued
<1>10. /\ mapped' \in [Slot -> SUBSET Nat]
       /\ mapped'[claim] = mapped[claim] \cup {b}
       /\ \A i \in Slot : i # claim => mapped'[i] = mapped[i]
  BY Zenon, <1>5, <1>6, <1>7
<1>11. mapped'[claim] = 0..((b + 1) - 1)
  BY <1>5, <1>6, <1>10
<1>12. Filled(b + 1)'
  BY Zenon, <1>4, <1>5, <1>6, <1>7, <1>11, SameCleared DEF Filled, Booted, Creating
<1>13. Where(Mapping(b + 1))'
  <2>1. Open'
    BY Zenon, <1>4, <1>7 DEF Open
  <2>2. OpAt(Op("map", b + 1), Unlocking)'
    BY Zenon, <1>12, <2>1, OpAtIsNext
  <2>3. Op("map", b + 1) \in OpSet
    BY Zenon, <1>6 DEF OpSet
  <2> QED
    BY Zenon, <2>2, <2>3, BodyPrograms, WhereDoNext DEF Mapping
<1>14. TypeOK'
  BY Zenon, <1>7, <1>9, <1>10 DEF Inv, TypeOK
<1>15. Slots'
  <2>1. state[claim] = "Runnable"
    BY Zenon, <1>5, Constants DEF Inv, Claimed
  <2> QED
    BY Zenon, <1>7, <1>10, <2>1 DEF Inv, Slots
<1>16. Claimed' /\ IdleSlot' /\ Active'
  BY Zenon, <1>7 DEF Inv, Claimed, IdleSlot, Active
<1>17. Where(prog[thread])'
  BY Zenon, <1>9, <1>13
<1> QED
  BY Zenon, <1>9, <1>14, <1>15, <1>16, <1>17 DEF Inv

(* The scan for an unused slot finds the first one. *)
LEMMA NextUnused ==
  ASSUME TypeOK, Unused # {}
  PROVE  /\ next_unused \in Slot /\ state[next_unused] = "Unused"
         /\ \A j \in Slot : j < next_unused => state[j] = "Runnable"
<1>1. Unused \subseteq Slot /\ Unused \in SUBSET Nat
  BY Zenon, Constants DEF Unused
<1>2. \E m \in Unused : \A k \in Unused : m <= k
  BY Zenon, <1>1, LeastNat
<1>3. next_unused \in Unused /\ \A k \in Unused : next_unused <= k
  BY Zenon, <1>2 DEF next_unused
<1>4. next_unused \in Slot /\ state[next_unused] = "Unused"
  BY Zenon, <1>3 DEF Unused
<1>5. \A j \in Slot : j < next_unused => state[j] = "Runnable"
  <2> SUFFICES ASSUME NEW j \in Slot, j < next_unused PROVE state[j] = "Runnable"
    BY Zenon
  <2>1. j \notin Unused
    <3>1. j \in Nat /\ next_unused \in Nat
      BY Zenon, <1>4, Constants
    <3> QED
      BY <1>3, <3>1
  <2>2. state[j] \in {"Unused", "Runnable"}
    BY Zenon DEF TypeOK
  <2> QED
    BY Zenon, <2>1, <2>2 DEF Unused
<1> QED
  BY Zenon, <1>4, <1>5

(* create_process takes the first unused slot, whose table is empty. *)
LEMMA ClaimInv == ASSUME Inv, Claim PROVE Inv'
<1>1. Here.op = "claim" /\ Rest \in Program /\ OpAt(Here, Rest)
  BY Zenon, AtOp DEF Claim
<1>2. AtClaim(Rest)
  BY Zenon, <1>1 DEF OpAt
<1>3. CASE Unused = {}
  BY Zenon, <1>3, StopInv DEF Claim
<1>4. CASE Unused # {}
  <2>1. TypeOK
    BY Zenon DEF Inv
  <2>2. PICK i \in Slot : /\ i = next_unused /\ state[i] = "Unused"
                          /\ \A j \in Slot : j < i => state[j] = "Runnable"
    BY Zenon, <1>4, <2>1, NextUnused
  <2>3. /\ claim' = i /\ state' = [state EXCEPT ![i] = "Runnable"]
        /\ sp' = [sp EXCEPT ![i] = Entry(i)] /\ Continue(Filling)
        /\ thread' = thread /\ once' = once /\ lock' = lock /\ area' = area
        /\ mapped' = mapped /\ todo' = todo
        /\ curr_proc_idx' = curr_proc_idx /\ satp' = satp
    BY Zenon, <1>2, <1>4, <2>2 DEF Claim, AtClaim, sched, Entry
  <2>4. /\ state \in [Slot -> {"Unused", "Runnable"}]
        /\ sp \in [Slot -> [thread : Thread, at : {"nowhere", "entry", "give_up"}]]
        /\ Entry(i) \in [thread : Thread, at : {"nowhere", "entry", "give_up"}]
    <3>1. i \in Thread
      BY Zenon, Constants
    <3>2. Entry(i) \in [thread : Thread, at : {"nowhere", "entry", "give_up"}]
      BY Zenon, <3>1 DEF Entry
    <3> QED
      BY Zenon, <2>1, <3>2 DEF TypeOK
  <2>5. /\ state' \in [Slot -> {"Unused", "Runnable"}] /\ state'[i] = "Runnable"
        /\ \A j \in Slot : j # i => state'[j] = state[j]
    BY Zenon, <2>3, <2>4
  <2>6. /\ sp' \in [Slot -> [thread : Thread, at : {"nowhere", "entry", "give_up"}]]
        /\ sp'[i] = Entry(i)
        /\ \A j \in Slot : j # i => sp'[j] = sp[j]
    BY Zenon, <2>3, <2>4
  <2>7. Filling \in Program
    BY Zenon, BodyPrograms
  <2>8. prog' \in [Thread -> Program] /\ (prog[thread])' = Filling /\ OthersParked'
    BY Zenon, <2>3, <2>7, Continued
  <2>9. TypeOK'
    BY Zenon, <2>1, <2>3, <2>5, <2>6, <2>8 DEF TypeOK
  <2>10. mapped[i] = {} /\ claim = None
    BY Zenon, <1>2, <2>2 DEF Inv, Slots, AtClaim
  <2>11. Filled(0)' /\ Open'
    <3>1. mapped[i] = 0..(0 - 1) /\ 0 \in 0..KernelPages
      BY <2>10, KernelAssumption
    <3> QED
      BY Zenon, <1>2, <2>2, <2>3, <3>1, SameCleared DEF Filled, AtClaim, Open, Booted, Creating
  <2>12. Where(Filling)'
    <3>1. Allocate(Dropping) \in Returns
      BY Zenon, ReturnsPrograms
    <3>2. Returning(Allocate(Dropping))'
      BY Zenon, <2>11 DEF Returning
    <3> QED
      BY Zenon, <2>11, <3>1, <3>2, WhereCallsNext DEF Filling
  <2>13. Slots'
    <3>1. \A j \in Slot : j # claim
      BY Zenon, <2>10, Constants
    <3> QED
      BY Zenon, <2>3, <2>5, <2>6, <3>1 DEF Inv, Slots
  <2>14. Claimed'
    <3>1. \A j \in Slot : j < i => state'[j] = "Runnable"
      BY Zenon, <2>2, <2>5
    <3> QED
      BY Zenon, <2>3, <2>5, <2>6, <3>1 DEF Claimed, Entry
  <2>15. state'[0] = "Runnable"
    <3>1. i = 0 \/ 0 < i
      BY <2>2, Constants
    <3> QED
      BY Zenon, <2>2, <2>5, <3>1, Constants
  <2>16. IdleSlot' /\ Active'
    <3>1. curr_proc_idx \in Slot /\ satp \in Slot \cup {Bare}
      BY Zenon, <2>1 DEF TypeOK
    <3>2. satp # Bare => satp # i
      BY Zenon, <2>2 DEF Inv, Active
    <3> QED
      BY Zenon, <2>3, <2>5, <2>15, <3>1, <3>2 DEF Inv, IdleSlot, Active
  <2>17. Where(prog[thread])'
    BY Zenon, <2>8, <2>12
  <2> QED
    BY Zenon, <2>8, <2>9, <2>13, <2>14, <2>16, <2>17 DEF Inv
<1> QED
  BY Zenon, <1>3, <1>4

(* The scan for a process to switch to. *)
LEMMA NextRunnable ==
  ASSUME TypeOK, state[0] = "Runnable"
  PROVE  next_runnable_idx \in Slot /\ state[next_runnable_idx] = "Runnable"
<1>1. Candidates \subseteq Slot /\ Candidates \in SUBSET Nat
  BY KernelAssumption DEF Candidates, Slot
<1>2. CASE Candidates = {}
  BY Zenon, <1>2, Constants DEF next_runnable_idx
<1>3. CASE Candidates # {}
  <2>1. \E m \in Candidates : \A k \in Candidates : m <= k
    BY Zenon, <1>1, <1>3, LeastNat
  <2>2. next_runnable_idx \in Candidates
    BY Zenon, <1>3, <2>1 DEF next_runnable_idx
  <2> QED
    BY Zenon, <1>1, <2>2 DEF Candidates
<1> QED
  BY Zenon, <1>2, <1>3

(* give_up chooses a slot in use, whose table is complete. *)
LEMMA ChooseInv == ASSUME Inv, Choose PROVE Inv'
<1>1. PICK o \in OpSet, r \in Program : o = Here /\ r = Rest
  BY Zenon, AtOp DEF Choose
<1>2. o.op = "choose" /\ OpAt(o, r)
  BY Zenon, <1>1, AtOp DEF Choose
<1>3. AtChoose(r) /\ TypeOK
  BY Zenon, <1>2 DEF OpAt, Inv
<1>4. state[0] = "Runnable"
  BY Zenon, <1>3 DEF Inv, IdleSlot, AtChoose, GivingUp
<1>5. PICK n \in Slot : n = next_runnable_idx /\ state[n] = "Runnable"
  BY Zenon, <1>3, <1>4, NextRunnable
<1>6. /\ switch' = [prev |-> curr_proc_idx, next |-> n]
      /\ satp' = n /\ curr_proc_idx' = n /\ Continue(r)
      /\ thread' = thread /\ once' = once /\ lock' = lock /\ area' = area
      /\ state' = state /\ sp' = sp /\ mapped' = mapped /\ claim' = claim
      /\ todo' = todo
  BY Zenon, <1>1, <1>5 DEF Choose, procs
<1>7. prog' \in [Thread -> Program] /\ (prog[thread])' = r /\ OthersParked'
  BY Zenon, <1>6, Continued
<1>8. TypeOK'
  BY Zenon, <1>3, <1>5, <1>6, <1>7 DEF TypeOK
<1>9. Chosen'
  <2>1. curr_proc_idx \in Slot /\ state[curr_proc_idx] = "Runnable"
    BY Zenon, <1>3, <1>4 DEF TypeOK, Inv, Active
  <2>2. /\ [prev |-> curr_proc_idx, next |-> n] \in [prev : Slot, next : Slot]
        /\ [prev |-> curr_proc_idx, next |-> n].prev = curr_proc_idx
        /\ [prev |-> curr_proc_idx, next |-> n].next = n
    BY Zenon, <2>1
  <2> QED
    BY Zenon, <1>5, <1>6, <2>1, <2>2 DEF Chosen
<1>10. Where(r)'
  <2>1. PICK q \in Program : q = Switching(Parked(thread))
    BY Zenon, BodyPrograms
  <2>2. (Switching(Parked(thread)))' = Switching(Parked(thread))
    BY Zenon, <1>6 DEF Parked, Switching
  <2>3. Op("unlock", "PROC_TABLE") \in OpSet /\ Op("unlock", "PROC_TABLE").arg = "PROC_TABLE"
    BY Zenon, OpIs DEF OpSet
  <2>4. AtUnlock(Op("unlock", "PROC_TABLE"), q)'
    BY Zenon, <1>3, <1>6, <1>9, <2>1, <2>2, <2>3, SameCleared
    DEF AtUnlock, AtChoose, Open, Booted, GivingUp
  <2>5. OpAt(Op("unlock", "PROC_TABLE"), q)'
    BY Zenon, <2>4, OpAtIsNext
  <2>6. r = Do(Op("unlock", "PROC_TABLE"), q)
    BY Zenon, <1>3, <2>1 DEF AtChoose, Leaving
  <2> QED
    BY Zenon, <2>3, <2>5, <2>6, WhereDoNext
<1>11. Slots' /\ Claimed' /\ IdleSlot'
  BY Zenon, <1>6 DEF Inv, Slots, Claimed, IdleSlot
<1>12. Active'
  <2>1. n # claim
    BY Zenon, <1>3, Constants DEF AtChoose
  <2> QED
    BY Zenon, <1>5, <1>6, <2>1 DEF Active
<1>13. Where(prog[thread])'
  BY Zenon, <1>7, <1>10
<1> QED
  BY Zenon, <1>7, <1>8, <1>11, <1>12, <1>13 DEF Inv

(* What a thread does when it is switched to. *)
LEMMA ParkedWhere ==
  ASSUME NEW t \in Thread
  PROVE  (thread = t /\ Open /\ Booted /\ Quiet => Where(Parked(t)))'
<1>1. /\ Op("panic", "idle_panic") \in OpSet /\ Op("panic", "idle_panic").arg = "idle_panic"
      /\ Op("panic", "trap_panic") \in OpSet /\ Op("panic", "trap_panic").arg = "trap_panic"
  BY Zenon, OpIs DEF OpSet
<1>2. thread = t /\ Open /\ Booted /\ Quiet => Where(Parked(t))
  <2> SUFFICES ASSUME thread = t, Open, Booted, Quiet PROVE Where(Parked(t))
    BY Zenon
  <2>1. CASE t = Main
    <3>1. AtPanic(Op("panic", "idle_panic"), <<>>)
      BY Zenon, <1>1, <2>1 DEF AtPanic
    <3> QED
      BY Zenon, <1>1, <2>1, <3>1, NoneLeft, OpAtIs, WhereDo DEF Parked
  <2>2. CASE t = 0
    <3>1. AtPanic(Op("panic", "trap_panic"), <<>>)
      BY Zenon, <1>1, <2>2, Constants DEF AtPanic
    <3> QED
      BY Zenon, <1>1, <2>2, <3>1, NoneLeft, OpAtIs, WhereDo, Constants DEF Parked
  <2>3. CASE t # Main /\ t # 0
    BY Zenon, <2>3 DEF Parked, Where, Resting
  <2> QED
    BY Zenon, <2>1, <2>2, <2>3
<1> QED
  BY <1>2, PTL

(* Another thread runs, and all of them are parked until it does something. *)
LEMMA SwitchInv == ASSUME Inv, switch_context PROVE Inv'
<1>1. Here.op = "switch" /\ Rest \in Program /\ OpAt(Here, Rest)
  BY Zenon, AtOp DEF switch_context
<1>2. AtSwitch(Rest) /\ TypeOK
  BY Zenon, <1>1 DEF OpAt, Inv
<1>3. PICK a \in Slot, b \in Slot : /\ a = switch.prev /\ b = switch.next
                                    /\ state[a] = "Runnable" /\ state[b] = "Runnable"
  <2>1. Chosen
    BY Zenon, <1>2 DEF AtSwitch
  <2>2. switch.prev \in Slot /\ switch.next \in Slot
    BY Zenon, <2>1 DEF Chosen
  <2> QED
    BY Zenon, <2>1, <2>2 DEF Chosen
<1> DEFINE x == [thread |-> thread, at |-> "give_up"]
<1>4. /\ sp' = [sp EXCEPT ![a] = x] /\ thread' = sp'[b].thread
      /\ prog' = [prog EXCEPT ![thread] = Parked(thread)]
      /\ once' = once /\ lock' = lock /\ area' = area /\ state' = state
      /\ mapped' = mapped /\ claim' = claim /\ todo' = todo
      /\ curr_proc_idx' = curr_proc_idx /\ satp' = satp
  BY Zenon, <1>2, <1>3 DEF switch_context, Continue, AtSwitch, sched
<1>5. /\ prog \in [Thread -> Program] /\ thread \in Thread /\ Parked(thread) \in Program
      /\ sp \in [Slot -> [thread : Thread, at : {"nowhere", "entry", "give_up"}]]
  BY Zenon, <1>2, BodyPrograms DEF TypeOK
<1>6. x \in [thread : Thread, at : {"nowhere", "entry", "give_up"}]
  BY Zenon, <1>5
<1>7. /\ sp' \in [Slot -> [thread : Thread, at : {"nowhere", "entry", "give_up"}]]
      /\ sp'[a] = x /\ \A i \in Slot : i # a => sp'[i] = sp[i]
  BY Zenon, <1>4, <1>5, <1>6
<1>8. thread' \in Thread
  BY Zenon, <1>4, <1>7
<1>9. prog' \in [Thread -> Program] /\ \A t \in Thread : prog'[t] = Parked(t)
  <2>1. /\ prog' \in [Thread -> Program] /\ prog'[thread] = Parked(thread)
        /\ \A t \in Thread : t # thread => prog'[t] = prog[t]
    BY Zenon, <1>4, <1>5
  <2> QED
    BY Zenon, <2>1 DEF Inv, OthersParked
<1>10. TypeOK'
  BY Zenon, <1>2, <1>4, <1>7, <1>8, <1>9 DEF TypeOK
<1>11. OthersParked'
  BY Zenon, <1>9 DEF OthersParked
<1>12. Where(prog[thread])'
  <2>1. PICK t \in Thread : t = thread'
    BY Zenon, <1>8
  <2>2. Open' /\ Booted' /\ Quiet'
    BY Zenon, <1>2, <1>4, SameCleared DEF AtSwitch, Open, Booted, Quiet
  <2>3. Where(Parked(t))'
    BY Zenon, <2>1, <2>2, ParkedWhere
  <2>4. (prog[thread])' = Parked(t)
    BY Zenon, <1>9, <2>1
  <2> QED
    BY Zenon, <2>3, <2>4
<1>13. Slots'
  <2>1. x \in Saved
    <3>1. thread # 0
      BY Zenon, <1>2 DEF AtSwitch, GivingUp
    <3> QED
      BY Zenon, <1>5, <3>1 DEF Saved
  <2>2. state[a] # "Unused"
    BY Zenon, <1>3
  <2> HIDE DEF x
  <2> QED
    BY Zenon, <1>4, <1>7, <2>1, <2>2 DEF Inv, Slots
<1>14. Claimed' /\ Active'
  BY Zenon, <1>2, <1>4 DEF Inv, Claimed, Active, AtSwitch, Quiet
<1>15. IdleSlot'
  <2>1. state[0] = "Runnable"
    BY Zenon, <1>2 DEF Inv, IdleSlot, AtSwitch, GivingUp
  <2> QED
    BY Zenon, <1>4, <2>1 DEF IdleSlot
<1> QED
  BY Zenon, <1>10, <1>11, <1>12, <1>13, <1>14, <1>15 DEF Inv

(* Nothing happens. *)
LEMMA StutterInv == ASSUME Inv, UNCHANGED vars PROVE Inv'
<1>1. Stop(status)
  BY Zenon DEF vars, Stop
<1> QED
  BY Zenon, <1>1, StopInv

(* Every step of the kernel preserves the invariant. *)
LEMMA NextInv == Inv /\ [Next]_vars => Inv'
<1> SUFFICES ASSUME Inv, [Next]_vars PROVE Inv'
  BY Zenon
<1>1. CASE Panic
  BY Zenon, <1>1, StopInv DEF Panic
<1>2. CASE Halt \/ UNCHANGED vars
  BY Zenon, <1>2, StutterInv DEF Halt
<1> QED
  BY Zenon, <1>1, <1>2, CallInv, CheckHartInv, ClearInv, GetInv, PageAllocInv, CompleteInv,
     LockInv, UnlockInv, AllocInv, ClaimInv, MapPageInv, WritePteInv, ChooseInv, SwitchInv
  DEF Next

(* The inductive invariant: for every operation of boot, proc::new and give_up
   that may come next, the cells, locks and page tables are as it needs them. *)
THEOREM Invariance == Spec => []Inv
BY InitInv, NextInv, PTL DEF Spec

(* No thread waits for a lock or for a cell that is being initialised: lock of
   spin::Mutex and get_or_init of the once-cells, from every nested call and in
   every thread. *)
THEOREM NeverWaitsAlways == Spec => []NeverWaits
<1>1. Inv => NeverWaits
  <2> SUFFICES ASSUME Inv PROVE NeverWaits
    BY Zenon
  <2>1. ASSUME At("lock") PROVE lock[Here.arg] = "Free"
    <3>1. AtLock(Here, Rest)
      BY Zenon, <2>1, AtOp DEF OpAt
    <3> QED
      BY Zenon, <3>1 DEF AtLock, Open, Quiet
  <2>2. ASSUME At("get") PROVE once[Here.arg] # "InProgress"
    <3>1. AtGet(Here, Rest)
      BY Zenon, <2>2, AtOp DEF OpAt
    <3>2. /\ get_or_init("MEMORY", "addresses").arg = "MEMORY"
          /\ get_or_init("MEMORY", "none").arg = "MEMORY"
          /\ get_or_init("PROC_TABLE", "table").arg = "PROC_TABLE"
      BY Zenon, GetIs
    <3>3. /\ Fresh => once["MEMORY"] = "Incomplete"
          /\ Booted => once["PROC_TABLE"] = "Completed"
      BY Zenon DEF Fresh, Booted, Cell
    <3> QED
      BY Zenon, <3>1, <3>2, <3>3, ReturningReady DEF AtGet
  <2> QED
    BY Zenon, <2>1, <2>2 DEF NeverWaits
<1> QED
  BY <1>1, Invariance, PTL

(* Every region is cleared before it is first used, whatever calls are nested:
   .bss before get_or_init initialises a cell in it, the reserved region before
   InitialAlloc::page_alloc, RAM before buddy_alloc hands out a block; and
   neither kernel_init nor InitialAlloc::new clears one that is in use. *)
THEOREM ClearedInTimeAlways == Spec => []ClearedInTime
<1>1. Inv => ClearedInTime
  <2> SUFFICES ASSUME Inv PROVE ClearedInTime
    BY Zenon
  <2>1. "bss" \in Area /\ "reserve" \in Area /\ "ram" \in Area
    BY Zenon DEF Area
  <2>2. ASSUME NEW q, Returning(q) PROVE Cleared
    BY Zenon, <2>2 DEF Returning, Filled, Booted
  <2>3. ASSUME At("get") PROVE area["bss"] # "raw"
    <3>1. AtGet(Here, Rest)
      BY Zenon, <2>3, AtOp DEF OpAt
    <3>2. Cleared
      BY Zenon, <2>2, <3>1 DEF AtGet, Booted
    <3> QED
      BY Zenon, <2>1, <3>2 DEF Cleared
  <2>4. ASSUME At("page_alloc") PROVE area["reserve"] # "raw"
    <3>1. AtPageAlloc(Rest)
      BY Zenon, <2>4, AtOp DEF OpAt
    <3> QED
      BY Zenon, <2>1, <3>1 DEF AtPageAlloc, Making, Cleared
  <2>5. ASSUME At("alloc") PROVE area["ram"] # "raw"
    <3>1. Returning(Rest)
      BY Zenon, <2>5, AtOp DEF OpAt
    <3> QED
      BY Zenon, <2>1, <2>2, <3>1 DEF Cleared
  <2>6. ASSUME At("clear") PROVE area[Here.arg] # "used"
    <3>1. AtClear(Here, Rest)
      BY Zenon, <2>6, AtOp DEF OpAt
    <3> QED
      BY Zenon, <2>1, <3>1 DEF AtClear, Untouched
  <2> QED
    BY Zenon, <2>3, <2>4, <2>5, <2>6 DEF ClearedInTime
<1> QED
  BY <1>1, Invariance, PTL

(* The page table that satp names maps the whole kernel, whatever its size:
   give_up never switches to a table that create_process is still filling. *)
THEOREM SatpMapsKernelAlways == Spec => []SatpMapsKernel
<1>1. Inv => SatpMapsKernel
  BY Zenon DEF Inv, TypeOK, Active, Slots, SatpMapsKernel
<1> QED
  BY <1>1, Invariance, PTL

-----------------------------------------------------------------------------
(* The kernel implements Proc *)

Blank == [state |-> "Unused", sp |-> NoContext]

(* The process table, its lock and the program counter that Proc sees. *)
Table ==
  [i \in Slot |-> IF Shown(i) THEN [state |-> state[i], sp |-> sp[i]] ELSE Blank]

Held ==
  IF AtLocked \/ status \in {"memory_panic", "slots_panic"} THEN "Locked" ELSE "Free"

(* The program p is between the calls that Proc sees. *)
Plain(p) ==
  p # <<>> =>
    /\ Head(p).op \notin {"panic", "switch"}
    /\ Head(p).op = "unlock" => Tail(p) = <<>> \/ Head(Tail(p)).op # "switch"

(* Which first operations make a program plain. *)
LEMMA PlainDo ==
  ASSUME NEW o \in OpSet, NEW r \in Program, o.op \notin {"panic", "switch"},
         o.op # "unlock" \/ r = <<>> \/ Head(r).op # "switch"
  PROVE  Plain(Do(o, r))
BY Zenon, DoFacts DEF Plain

(* The programs of kernel_init, of the allocator's calls and of proc::new are. *)
LEMMA PlainPrograms ==
  /\ Plain(<<>>) /\ Plain(InitTable) /\ Plain(InitMemory) /\ Plain(ClearRam)
  /\ Plain(ClearReserve) /\ Plain(ClearBss) /\ Plain(TableDone)
  /\ Plain(Locking) /\ Plain(Claiming) /\ Plain(Unlocking)
  /\ Plain(MemoryDone) /\ Plain(TakeStack) /\ Plain(TakeMeta) /\ Plain(ClearAgain)
  /\ \A b \in Int : Plain(Mapping(b)) /\ Plain(Entering(b))
  /\ \A r \in Program :
       /\ Plain(Result(r)) /\ Plain(AllocLock(r)) /\ Plain(Allocate(r))
       /\ Plain(FreeLock(r)) /\ Plain(Release(r))
       /\ Plain(Yielding(r)) /\ Plain(Choosing(r))
       /\ Plain(Do(get_or_init("PROC_TABLE", "table"), r))
<1>1. Plain(<<>>)
  BY Zenon DEF Plain
<1>2. /\ InitTable \in Program /\ InitMemory \in Program /\ ClearRam \in Program
      /\ ClearReserve \in Program /\ ClearBss \in Program /\ TableDone \in Program
      /\ MemoryDone \in Program /\ TakeStack \in Program /\ TakeMeta \in Program
  BY Zenon, BodyPrograms
<1>3. Filling \in Program /\ Claiming \in Program /\ Unlocking \in Program /\ <<>> \in Program
  BY Zenon, BodyPrograms, NoneLeft
<1>4. /\ Op("clear", "bss") \in OpSet /\ Op("clear", "reserve") \in OpSet
      /\ Op("clear", "ram") \in OpSet /\ get_or_init("MEMORY", "addresses") \in OpSet
      /\ get_or_init("PROC_TABLE", "table") \in OpSet
      /\ get_or_init("MEMORY", "none") \in OpSet
      /\ Op("complete", "MEMORY") \in OpSet /\ Op("complete", "PROC_TABLE") \in OpSet
      /\ Op("lock", "PROC_TABLE") \in OpSet /\ Op("lock", "MEMORY") \in OpSet
      /\ Op("unlock", "PROC_TABLE") \in OpSet /\ Op("alloc", 0) \in OpSet
      /\ Op("claim", 0) \in OpSet /\ Op("choose", 0) \in OpSet
      /\ Op("page_alloc", 0) \in OpSet
  BY Zenon DEF OpSet
<1>5. ASSUME NEW r \in Program
      PROVE  /\ Plain(Do(Op("clear", "bss"), r)) /\ Plain(Do(Op("clear", "reserve"), r))
             /\ Plain(Do(Op("clear", "ram"), r))
             /\ Plain(Do(get_or_init("MEMORY", "addresses"), r))
             /\ Plain(Do(get_or_init("MEMORY", "none"), r))
             /\ Plain(Do(get_or_init("PROC_TABLE", "table"), r))
             /\ Plain(Do(Op("complete", "MEMORY"), r))
             /\ Plain(Do(Op("complete", "PROC_TABLE"), r))
             /\ Plain(Do(Op("lock", "PROC_TABLE"), r)) /\ Plain(Do(Op("lock", "MEMORY"), r))
             /\ Plain(Do(Op("alloc", 0), r)) /\ Plain(Do(Op("claim", 0), r))
             /\ Plain(Do(Op("choose", 0), r)) /\ Plain(Do(Op("page_alloc", 0), r))
  <2>1. ASSUME NEW o \in OpSet, o.op \in {"clear", "get", "page_alloc", "complete", "lock",
                                          "alloc", "claim", "choose", "map", "pte"}
        PROVE  Plain(Do(o, r))
    BY Zenon, <2>1, PlainDo
  <2>2. /\ Op("clear", "bss").op = "clear" /\ Op("clear", "reserve").op = "clear"
        /\ Op("clear", "ram").op = "clear"
        /\ get_or_init("MEMORY", "addresses").op = "get"
        /\ get_or_init("MEMORY", "none").op = "get"
        /\ get_or_init("PROC_TABLE", "table").op = "get"
        /\ Op("complete", "MEMORY").op = "complete"
        /\ Op("complete", "PROC_TABLE").op = "complete"
        /\ Op("lock", "PROC_TABLE").op = "lock" /\ Op("lock", "MEMORY").op = "lock"
        /\ Op("alloc", 0).op = "alloc" /\ Op("claim", 0).op = "claim"
        /\ Op("choose", 0).op = "choose" /\ Op("page_alloc", 0).op = "page_alloc"
    BY OpIs, GetIs
  <2>3. /\ Plain(Do(Op("clear", "bss"), r)) /\ Plain(Do(Op("clear", "reserve"), r))
        /\ Plain(Do(Op("clear", "ram"), r))
    BY Zenon, <1>4, <2>1, <2>2
  <2>4. /\ Plain(Do(get_or_init("MEMORY", "addresses"), r))
        /\ Plain(Do(get_or_init("MEMORY", "none"), r))
        /\ Plain(Do(get_or_init("PROC_TABLE", "table"), r))
    BY Zenon, <1>4, <2>1, <2>2
  <2>5. /\ Plain(Do(Op("complete", "MEMORY"), r)) /\ Plain(Do(Op("complete", "PROC_TABLE"), r))
        /\ Plain(Do(Op("lock", "PROC_TABLE"), r)) /\ Plain(Do(Op("lock", "MEMORY"), r))
    BY Zenon, <1>4, <2>1, <2>2
  <2>6. /\ Plain(Do(Op("alloc", 0), r)) /\ Plain(Do(Op("claim", 0), r))
        /\ Plain(Do(Op("choose", 0), r)) /\ Plain(Do(Op("page_alloc", 0), r))
    BY Zenon, <1>4, <2>1, <2>2
  <2> QED
    BY Zenon, <2>3, <2>4, <2>5, <2>6
<1>6. /\ Plain(InitTable) /\ Plain(InitMemory) /\ Plain(ClearRam)
      /\ Plain(ClearReserve) /\ Plain(ClearBss) /\ Plain(TableDone)
      /\ Plain(Locking) /\ Plain(Claiming)
  BY Zenon, <1>2, <1>3, <1>5
  DEF InitTable, InitMemory, ClearRam, ClearReserve, ClearBss, TableDone, Locking, Claiming
<1>7. Plain(Unlocking)
  <2>1. Op("unlock", "PROC_TABLE").op \notin {"panic", "switch"}
    BY OpIs
  <2> QED
    BY Zenon, <1>2, <1>3, <1>4, <2>1, PlainDo DEF Unlocking
<1>8. ASSUME NEW b \in Int PROVE Plain(Mapping(b)) /\ Plain(Entering(b))
  <2>1. Op("map", b) \in OpSet /\ Op("pte", b) \in OpSet
    BY Zenon DEF OpSet
  <2>2. /\ Op("map", b).op \notin {"panic", "switch"} /\ Op("map", b).op # "unlock"
        /\ Op("pte", b).op \notin {"panic", "switch"} /\ Op("pte", b).op # "unlock"
    BY OpIs
  <2> QED
    BY Zenon, <1>2, <1>3, <2>1, <2>2, PlainDo DEF Mapping, Entering
<1>9. ASSUME NEW r \in Program
      PROVE  /\ Plain(Result(r)) /\ Plain(AllocLock(r)) /\ Plain(Allocate(r))
             /\ Plain(FreeLock(r)) /\ Plain(Release(r))
             /\ Plain(Yielding(r)) /\ Plain(Choosing(r))
  <2>1. /\ AllocUnlock(r) \in Program /\ AllocLock(r) \in Program
        /\ FreeUnlock(r) \in Program /\ FreeLock(r) \in Program
        /\ Choosing(r) \in Program /\ Leaving(r) \in Program
    BY Zenon, CallShapes, BodyPrograms
  <2> QED
    BY Zenon, <1>5, <2>1 DEF Result, AllocLock, Allocate, FreeLock, Release, Yielding, Choosing
<1>10. /\ Plain(MemoryDone) /\ Plain(TakeStack) /\ Plain(TakeMeta) /\ Plain(ClearAgain)
  BY Zenon, <1>2, <1>5 DEF MemoryDone, TakeStack, TakeMeta, ClearAgain
<1> QED
  BY Zenon, <1>1, <1>5, <1>6, <1>7, <1>8, <1>9, <1>10

(* What follows the allocator's calls is plain, and so is the unlock before. *)
LEMMA PlainReturns ==
  ASSUME NEW q \in Returns
  PROVE  /\ Plain(q) /\ Plain(AllocUnlock(q)) /\ Plain(FreeUnlock(q))
         /\ Plain(AllocLock(q)) /\ Plain(FreeLock(q)) /\ Plain(Result(q))
<1>1. q \in Program /\ Mapping(0) \in Program /\ Dropping \in Program
  BY Zenon, ReturnsPrograms
<1>2. ASSUME NEW b \in 0..(KernelPages - 1)
      PROVE  Plain(Entering(b)) /\ Plain(Release(Entering(b)))
  <2>1. b \in Int
    OBVIOUS
  <2> QED
    BY Zenon, <2>1, PlainPrograms, BodyPrograms
<1>3. Plain(Mapping(0))
  BY PlainPrograms
<1>4. Release(Mapping(0)) \in Program
  BY Zenon, <1>1, CallShapes
<1>5. Plain(q)
  BY Zenon, <1>1, <1>2, <1>3, <1>4, PlainPrograms DEF Returns, Dropping
<1>6. Op("unlock", "MEMORY") \in OpSet /\ Op("unlock", "MEMORY").op = "unlock"
  BY Zenon, OpIs DEF OpSet
<1>7. Op("unlock", "MEMORY").op \notin {"panic", "switch"}
  BY OpIs
<1>8. Plain(FreeUnlock(q))
  <2>1. q = <<>> \/ Head(q).op # "switch"
    BY Zenon, <1>5 DEF Plain
  <2> QED
    BY Zenon, <1>1, <1>6, <1>7, <2>1, PlainDo DEF FreeUnlock
<1>9. Plain(AllocUnlock(q))
  <2>1. Result(q) \in Program /\ Plain(Result(q))
    BY Zenon, <1>1, CallShapes, PlainPrograms
  <2>2. Result(q) = <<>> \/ Head(Result(q)).op # "switch"
    BY Zenon, <2>1 DEF Plain
  <2> QED
    BY Zenon, <1>6, <1>7, <2>1, <2>2, PlainDo DEF AllocUnlock
<1> QED
  BY Zenon, <1>1, <1>5, <1>8, <1>9, PlainPrograms

-----------------------------------------------------------------------------
(* What Proc sees of a state *)

(* A thread in a plain program runs, in Proc. *)
LEMMA PlainSeen ==
  /\ status = "run" /\ Plain(prog[thread]) => AbsPc = "run" /\ Held = "Free"
  /\ (status = "run" /\ Plain(prog[thread]) => AbsPc = "run" /\ Held = "Free")'
<1>1. status = "run" /\ Plain(prog[thread]) => AbsPc = "run" /\ Held = "Free"
  BY Zenon DEF Plain, AbsPc, Held, AtLocked, At, Here, Rest
<1> QED
  BY <1>1, PTL

(* A thread in give_up that holds the guard is locked, in Proc. *)
LEMMA LeavingSeen ==
  ASSUME NEW q \in Program
  PROVE  /\ (status = "run" /\ prog[thread] = Leaving(q) => AbsPc = "locked" /\ Held = "Locked")
         /\ (status = "run" /\ prog[thread] = Leaving(q) => AbsPc = "locked" /\ Held = "Locked")'
<1>1. Leaving(q) \in Program /\ Switching(q) \in Program
  BY Zenon, BodyPrograms
<1>2. /\ Op("unlock", "PROC_TABLE") \in OpSet /\ Op("switch", 0) \in OpSet
      /\ Op("unlock", "PROC_TABLE").op = "unlock" /\ Op("switch", 0).op = "switch"
  BY Zenon, OpIs DEF OpSet
<1>3. /\ Leaving(q) # <<>> /\ Head(Leaving(q)).op = "unlock" /\ Tail(Leaving(q)) = Switching(q)
      /\ Switching(q) # <<>> /\ Head(Switching(q)).op = "switch"
  BY Zenon, <1>1, <1>2, DoFacts DEF Leaving, Switching
<1>4. status = "run" /\ prog[thread] = Leaving(q) => AbsPc = "locked" /\ Held = "Locked"
  BY Zenon, <1>3 DEF AbsPc, Held, AtLocked, At, Here, Rest
<1> QED
  BY <1>4, PTL

(* A thread in give_up that has dropped the guard switches, in Proc. *)
LEMMA SwitchingSeen ==
  ASSUME NEW q \in Program
  PROVE  /\ (status = "run" /\ prog[thread] = Switching(q) => AbsPc = "switch" /\ Held = "Free")
         /\ (status = "run" /\ prog[thread] = Switching(q) => AbsPc = "switch" /\ Held = "Free")'
<1>1. Op("switch", 0) \in OpSet /\ Op("switch", 0).op = "switch"
  BY Zenon, OpIs DEF OpSet
<1>2. Switching(q) # <<>> /\ Head(Switching(q)).op = "switch"
  BY Zenon, <1>1, DoFacts DEF Switching
<1>3. status = "run" /\ prog[thread] = Switching(q) => AbsPc = "switch" /\ Held = "Free"
  BY Zenon, <1>2 DEF AbsPc, Held, AtLocked, At, Here, Rest
<1> QED
  BY <1>3, PTL

(* A thread that is switched to returns to kernel_main's panic, starts at the
   idle process's entry point, or is in its own code. *)
LEMMA ParkedSeen ==
  ASSUME NEW t \in Thread
  PROVE  (status = "run" /\ prog[thread] = Parked(t) =>
            /\ AbsPc = IF t = Main THEN "idle_panic"
                       ELSE IF t = 0 THEN "trap_panic" ELSE "run"
            /\ Held = "Free")'
<1>1. /\ Op("panic", "idle_panic") \in OpSet /\ Op("panic", "trap_panic") \in OpSet
      /\ Op("panic", "idle_panic").op = "panic" /\ Op("panic", "trap_panic").op = "panic"
      /\ Op("panic", "idle_panic").arg = "idle_panic"
      /\ Op("panic", "trap_panic").arg = "trap_panic"
  BY Zenon, OpIs DEF OpSet
<1>2. ASSUME NEW why, NEW p, p # <<>>, Head(p).op = "panic", Head(p).arg = why
      PROVE  status = "run" /\ prog[thread] = p => AbsPc = why /\ Held = "Free"
  BY Zenon, <1>2 DEF AbsPc, Held, AtLocked, At, Here, Rest
<1>3. status = "run" /\ prog[thread] = Parked(t) =>
        /\ AbsPc = IF t = Main THEN "idle_panic" ELSE IF t = 0 THEN "trap_panic" ELSE "run"
        /\ Held = "Free"
  <2>1. CASE t = Main
    <3>1. /\ Parked(t) # <<>> /\ Head(Parked(t)).op = "panic"
          /\ Head(Parked(t)).arg = "idle_panic"
      BY Zenon, <1>1, <2>1, NoneLeft, DoFacts DEF Parked
    <3> QED
      BY Zenon, <1>2, <2>1, <3>1
  <2>2. CASE t = 0
    <3>1. /\ Parked(t) # <<>> /\ Head(Parked(t)).op = "panic"
          /\ Head(Parked(t)).arg = "trap_panic"
      BY Zenon, <1>1, <2>2, NoneLeft, DoFacts, Constants DEF Parked
    <3> QED
      BY Zenon, <1>2, <2>2, <3>1, Constants
  <2>3. CASE t # Main /\ t # 0
    BY Zenon, <2>3, PlainPrograms, PlainSeen DEF Parked
  <2> QED
    BY Zenon, <2>1, <2>2, <2>3
<1> QED
  BY <1>3, PTL

(* When no slot is being filled, Proc sees the process table as it is. *)
LEMMA AllShown ==
  ASSUME TypeOK, claim = None \/ status = "memory_panic"
  PROVE  Table = [i \in Slot |-> [state |-> state[i], sp |-> sp[i]]]
BY Zenon, Constants DEF Table, Shown

(* The same after a step. *)
LEMMA AllShownNext ==
  TypeOK' /\ (claim' = None \/ status' = "memory_panic") =>
    Table' = [i \in Slot |-> [state |-> state'[i], sp |-> sp'[i]]]
<1>1. TypeOK /\ (claim = None \/ status = "memory_panic") =>
        Table = [i \in Slot |-> [state |-> state[i], sp |-> sp[i]]]
  BY Zenon, AllShown
<1>2. (TypeOK /\ (claim = None \/ status = "memory_panic") =>
         Table = [i \in Slot |-> [state |-> state[i], sp |-> sp[i]]])'
  BY <1>1, PTL
<1> QED
  BY Zenon, <1>2

(* A slot that is being filled is the first one that Proc sees as unused. *)
LEMMA ClaimFirst ==
  ASSUME Inv, claim \in Slot, status = "run"
  PROVE  claim \in Abs!Unused /\ Abs!next_unused = claim
<1>1. Abs!Unused = {i \in Slot : Table[i].state = "Unused"}
  BY Zenon DEF Abs!Unused, Abs!Slot, Slot, Table, Blank, NoContext
<1>2. Table[claim] = Blank /\ Blank.state = "Unused"
  <2>1. ~Shown(claim)
    BY Zenon DEF Shown
  <2> QED
    BY Zenon, <2>1 DEF Table, Blank
<1>3. claim \in Abs!Unused
  BY Zenon, <1>1, <1>2
<1>4. ASSUME NEW j \in Slot, j < claim PROVE j \notin Abs!Unused
  <2>1. state[j] = "Runnable"
    BY Zenon, <1>4, Constants DEF Inv, Claimed
  <2>2. j # claim
    BY <1>4, Constants
  <2>3. Table[j] = [state |-> state[j], sp |-> sp[j]]
    BY Zenon, <2>2 DEF Table, Shown
  <2>4. Table[j].state = "Runnable"
    BY <2>1, <2>3
  <2> QED
    BY Zenon, <1>1, <2>4
<1>5. Abs!Unused \subseteq Slot
  BY Zenon, <1>1
<1>6. \A j \in Abs!Unused : claim <= j
  BY <1>4, <1>5, Constants
<1>7. /\ Abs!next_unused \in Abs!Unused
      /\ \A j \in Abs!Unused : Abs!next_unused <= j
  BY Zenon, <1>3, <1>6 DEF Abs!next_unused
<1> QED
  BY <1>3, <1>5, <1>6, <1>7, Constants

(* When it is complete, or when memory runs out, Proc sees it as created. *)
LEMMA ShownNow ==
  ASSUME Inv, Inv', claim \in Slot, status = "run", state' = state, sp' = sp,
         claim' = None \/ status' = "memory_panic"
  PROVE  Table' = [Table EXCEPT ![claim] =
                     [state |-> "Runnable", sp |-> [thread |-> claim, at |-> "entry"]]]
<1>1. Table' = [i \in Slot |-> [state |-> state[i], sp |-> sp[i]]]
  BY Zenon, AllShownNext DEF Inv
<1>2. Table = [i \in Slot |-> IF i # claim THEN [state |-> state[i], sp |-> sp[i]] ELSE Blank]
  BY Zenon DEF Table, Shown
<1>3. state[claim] = "Runnable" /\ sp[claim] = [thread |-> claim, at |-> "entry"]
  BY Zenon, Constants DEF Inv, Claimed, Entry
<1> QED
  BY Zenon, <1>1, <1>2, <1>3

-----------------------------------------------------------------------------
(* The steps that Proc does not see *)

SameView ==
  /\ Table' = Table /\ Held' = Held /\ AbsPc' = AbsPc
  /\ UNCHANGED <<curr_proc_idx, satp, sscratch, thread, switch, todo>>

(* A step that keeps the view is a stutter of Proc's. *)
LEMMA Unseen == SameView => UNCHANGED Abs!vars
BY Zenon DEF SameView, Abs!vars, Table, Held, Blank, NoContext

(* An operation that starts a plain program. *)
LEMMA PlainOp ==
  ASSUME NEW op, At(op), op \notin {"panic", "switch"},
         op # "unlock" \/ Rest = <<>> \/ Head(Rest).op # "switch"
  PROVE  status = "run" /\ Plain(prog[thread]) /\ AbsPc = "run" /\ Held = "Free"
<1>1. status = "run" /\ Plain(prog[thread])
  BY Zenon DEF At, Here, Rest, Plain
<1> QED
  BY Zenon, <1>1, PlainSeen

(* The running thread goes from one such program to another. *)
LEMMA PlainTableStep ==
  ASSUME Inv, status = "run", Plain(prog[thread]), NEW p \in Program, Plain(p), Continue(p),
         Table' = Table, UNCHANGED <<thread, sched, todo, status>>
  PROVE  UNCHANGED Abs!vars
<1>1. /\ thread' = thread /\ status' = status
      /\ curr_proc_idx' = curr_proc_idx /\ satp' = satp /\ sscratch' = sscratch
      /\ switch' = switch /\ todo' = todo
  BY Zenon DEF sched
<1>2. (prog[thread])' = p
  BY Zenon, <1>1, Continued
<1>3. Plain(prog[thread])'
  BY Zenon, <1>2 DEF Plain
<1>4. AbsPc' = "run" /\ Held' = "Free" /\ AbsPc = "run" /\ Held = "Free"
  BY Zenon, <1>1, <1>3, PlainSeen
<1> QED
  BY Zenon, <1>1, <1>4, Unseen DEF SameView

(* The same, when the process table is left alone. *)
LEMMA PlainStep ==
  ASSUME Inv, status = "run", Plain(prog[thread]), NEW p \in Program, Plain(p), Continue(p),
         UNCHANGED <<thread, procs, sched, todo, status>>
  PROVE  UNCHANGED Abs!vars
<1>1. state' = state /\ sp' = sp /\ claim' = claim /\ status' = status
  BY Zenon DEF procs
<1>2. Table' = Table
  BY Zenon, <1>1 DEF Table, Shown
<1> QED
  BY Zenon, <1>2, PlainTableStep

(* The hart is parked, or memory runs out before there are processes. *)
LEMMA StopUnseen ==
  ASSUME status = "run", Plain(prog[thread]), NEW why \in {"parked", "boot_panic"}, Stop(why)
  PROVE  UNCHANGED Abs!vars
<1>1. /\ status' = why /\ thread' = thread /\ state' = state /\ sp' = sp /\ claim' = claim
      /\ curr_proc_idx' = curr_proc_idx /\ satp' = satp /\ sscratch' = sscratch
      /\ switch' = switch /\ todo' = todo
  BY Zenon DEF Stop, procs, sched
<1>2. status' \in {"parked", "boot_panic"} => AbsPc' = "run" /\ Held' = "Free"
  BY Zenon DEF AbsPc, Held, AtLocked, At
<1>3. AbsPc = "run" /\ Held = "Free"
  BY Zenon, PlainSeen
<1>4. \A i \in Slot : Shown(i)' <=> Shown(i)
  BY Zenon, <1>1 DEF Shown
<1>5. Table' = Table
  BY Zenon, <1>1, <1>4 DEF Table
<1> QED
  BY Zenon, <1>1, <1>2, <1>3, <1>5, Unseen DEF SameView

(* Nothing happens. *)
LEMMA StutterUnseen == UNCHANGED vars => UNCHANGED Abs!vars
<1> SUFFICES ASSUME UNCHANGED vars PROVE UNCHANGED Abs!vars
  BY Zenon
<1>1. /\ prog' = prog /\ thread' = thread /\ state' = state /\ sp' = sp /\ claim' = claim
      /\ status' = status /\ curr_proc_idx' = curr_proc_idx /\ satp' = satp
      /\ sscratch' = sscratch /\ switch' = switch /\ todo' = todo
  BY Zenon DEF vars, procs, sched
<1>2. Table' = Table
  BY Zenon, <1>1 DEF Table, Shown
<1>3. \A op : At(op)' <=> At(op)
  BY Zenon, <1>1 DEF At, Here
<1>4. AtLocked' <=> AtLocked
  BY Zenon, <1>1, <1>3 DEF AtLocked, Rest
<1>5. Held' = Held
  BY Zenon, <1>1, <1>4 DEF Held
<1>6. Here' = Here
  BY Zenon, <1>1 DEF Here
<1>7. AbsPc' = AbsPc
  BY Zenon, <1>1, <1>3, <1>4, <1>6 DEF AbsPc
<1> QED
  BY Zenon, <1>1, <1>2, <1>5, <1>7, Unseen DEF SameView

(* The first operation of proc::new and of give_up is get_or_init. *)
LEMMA CallUnseen == ASSUME Inv, Call PROVE UNCHANGED Abs!vars
<1>1. /\ status = "run" /\ prog[thread] = <<>>
      /\ UNCHANGED <<thread, procs, sched, todo, status>>
  BY Zenon DEF Call
<1>2. Plain(prog[thread])
  BY Zenon, <1>1 DEF Plain
<1>3. Op("panic", "idle_panic") \in OpSet /\ get_or_init("PROC_TABLE", "table") \in OpSet
  BY Zenon DEF OpSet
<1>4. Locking \in Program
  BY Zenon, BodyPrograms
<1>5. proc_new \in Program /\ Plain(proc_new)
  BY Zenon, <1>3, <1>4, ProcNew, DoFacts, PlainPrograms
<1>6. ASSUME NEW r \in Program PROVE give_up \o r \in Program /\ Plain(give_up \o r)
  <2>1. Yielding(r) \in Program
    BY Zenon, BodyPrograms
  <2>2. give_up \o r = Do(get_or_init("PROC_TABLE", "table"), Yielding(r))
    BY Zenon, GiveUp
  <2> QED
    BY Zenon, <1>3, <2>1, <2>2, DoFacts, PlainPrograms
<1>7. give_up \in Program /\ Plain(give_up)
  <2>1. Yielding(<<>>) \in Program
    BY Zenon, NoneLeft, BodyPrograms
  <2>2. give_up = Do(get_or_init("PROC_TABLE", "table"), Yielding(<<>>))
    BY Zenon, NoneLeft, GiveUp
  <2> QED
    BY Zenon, <1>3, <2>1, <2>2, DoFacts, PlainPrograms
<1>8. <<Op("panic", "idle_panic")>> \in Program
  BY <1>3 DEF Program
<1>9. \E p \in {proc_new, give_up \o <<Op("panic", "idle_panic")>>, give_up} : Continue(p)
  BY Zenon DEF Call
<1> QED
  BY Zenon, <1>1, <1>2, <1>5, <1>6, <1>7, <1>8, <1>9, PlainStep

(* The steps of kernel_init, the cells and the locks. *)
LEMMA BootUnseen ==
  ASSUME Inv, CheckHart \/ Clear \/ Get \/ PageAlloc \/ Complete \/ Lock
  PROVE  UNCHANGED Abs!vars
<1>1. Rest \in Program /\ OpAt(Here, Rest)
  BY Zenon, AtOp DEF CheckHart, Clear, Get, PageAlloc, Complete, Lock
<1>2. CASE CheckHart
  <2>1. At("hart") /\ Here.op = "hart"
    BY Zenon, <1>2 DEF CheckHart, At
  <2>2. status = "run" /\ Plain(prog[thread])
    BY Zenon, <2>1, PlainOp
  <2>3. CASE Stop("parked")
    BY Zenon, <2>2, <2>3, StopUnseen
  <2>4. CASE Continue(Rest) /\ UNCHANGED <<thread, procs, sched, todo, status>>
    <3>1. Rest = ClearBss
      BY Zenon, <1>1, <2>1 DEF OpAt
    <3> QED
      BY Zenon, <1>1, <2>2, <2>4, <3>1, PlainPrograms, PlainStep
  <2> QED
    BY Zenon, <1>2, <2>3, <2>4 DEF CheckHart
<1>3. CASE Clear
  <2>1. At("clear") /\ Here.op = "clear"
    BY Zenon, <1>3 DEF Clear, At
  <2>2. status = "run" /\ Plain(prog[thread])
    BY Zenon, <2>1, PlainOp
  <2>3. Rest \in {ClearReserve, ClearRam, InitMemory, TakeMeta}
    BY Zenon, <1>1, <2>1 DEF OpAt, AtClear
  <2>4. Plain(Rest)
    BY Zenon, <2>3, PlainPrograms
  <2> QED
    BY Zenon, <1>1, <1>3, <2>2, <2>4, PlainStep DEF Clear
<1>4. CASE Get
  <2>1. At("get") /\ Here.op = "get" /\ AtGet(Here, Rest)
    BY Zenon, <1>1, <1>4 DEF Get, At, OpAt
  <2>2. status = "run" /\ Plain(prog[thread])
    BY Zenon, <2>1, PlainOp
  <2>3. \E p \in Program : Plain(p) /\ Continue(p)
    <3>1. CASE once[Here.arg] = "Completed"
      <4>1. ASSUME NEW q \in Returns, Rest \in {AllocLock(q), FreeLock(q)} PROVE Plain(Rest)
        BY Zenon, <4>1, PlainReturns
      <4>2. Plain(Yielding(Parked(thread))) /\ Plain(Locking) /\ Plain(<<>>) /\ Plain(InitTable)
        BY Zenon, PlainPrograms, BodyPrograms
      <4>3. Plain(Rest)
        BY Zenon, <2>1, <4>1, <4>2 DEF AtGet
      <4> QED
        BY Zenon, <1>1, <1>4, <3>1, <4>3 DEF Get
    <3>2. CASE once[Here.arg] # "Completed"
      <4>1. Continue((Closure(Here.how) \o <<Op("complete", Here.arg)>>) \o Rest)
        BY Zenon, <1>4, <3>2 DEF Get
      <4>2. CASE Here = get_or_init("MEMORY", "addresses") /\ Rest = InitTable
        <5>1. Here.arg = "MEMORY" /\ Here.how = "addresses"
          BY <4>2, GetIs
        <5>2. Continue(ClearAgain)
          BY Zenon, <4>1, <4>2, <5>1, ClosurePrograms
        <5> QED
          BY Zenon, <5>2, BodyPrograms, PlainPrograms
      <4>3. CASE Here = get_or_init("PROC_TABLE", "table") /\ Rest = <<>>
        <5>1. Here.arg = "PROC_TABLE" /\ Here.how = "table"
          BY <4>3, GetIs
        <5>2. Continue(Allocate(TableDone))
          BY Zenon, <4>1, <4>3, <5>1, ClosurePrograms
        <5>3. TableDone \in Program /\ Allocate(TableDone) \in Program
          BY Zenon, BodyPrograms, CallShapes
        <5> QED
          BY Zenon, <5>2, <5>3, PlainPrograms
      <4>4. Booted => Here # get_or_init("PROC_TABLE", "table")
        <5>1. get_or_init("PROC_TABLE", "table").arg = "PROC_TABLE"
          BY Zenon, GetIs
        <5>2. Booted => once["PROC_TABLE"] = "Completed"
          BY Zenon DEF Booted, Cell
        <5> QED
          BY Zenon, <3>2, <5>1, <5>2
      <4>5. ASSUME NEW q \in Returns, Returning(q) PROVE Here # get_or_init("MEMORY", "none")
        <5>1. get_or_init("MEMORY", "none").arg = "MEMORY"
          BY Zenon, GetIs
        <5> QED
          BY Zenon, <3>2, <4>5, <5>1, ReturningReady
      <4> QED
        BY Zenon, <2>1, <4>2, <4>3, <4>4, <4>5 DEF AtGet
    <3> QED
      BY Zenon, <3>1, <3>2
  <2>4. UNCHANGED <<thread, procs, sched, todo, status>>
    BY Zenon, <1>4 DEF Get
  <2> QED
    BY Zenon, <2>2, <2>3, <2>4, PlainStep
<1>5. CASE Complete
  <2>1. At("complete") /\ Here.op = "complete"
    BY Zenon, <1>5 DEF Complete, At
  <2>2. status = "run" /\ Plain(prog[thread])
    BY Zenon, <2>1, PlainOp
  <2>3. Rest \in {InitTable, <<>>}
    BY Zenon, <1>1, <2>1 DEF OpAt, AtComplete
  <2>4. Plain(Rest)
    BY Zenon, <2>3, PlainPrograms
  <2> QED
    BY Zenon, <1>1, <1>5, <2>2, <2>4, PlainStep DEF Complete
<1>6. CASE Lock
  <2>1. At("lock") /\ Here.op = "lock"
    BY Zenon, <1>6 DEF Lock, At
  <2>2. status = "run" /\ Plain(prog[thread])
    BY Zenon, <2>1, PlainOp
  <2>3. ASSUME NEW q \in Returns, Rest \in {AllocUnlock(q), FreeUnlock(q)} PROVE Plain(Rest)
    BY Zenon, <2>3, PlainReturns
  <2>4. Plain(Choosing(Parked(thread))) /\ Plain(Claiming)
    BY Zenon, PlainPrograms, BodyPrograms
  <2>5. Plain(Rest)
    BY Zenon, <1>1, <2>1, <2>3, <2>4 DEF OpAt, AtLock
  <2> QED
    BY Zenon, <1>1, <1>6, <2>2, <2>5, PlainStep DEF Lock
<1>7. CASE PageAlloc
  <2>1. At("page_alloc") /\ Here.op = "page_alloc"
    BY Zenon, <1>7 DEF PageAlloc, At
  <2>2. status = "run" /\ Plain(prog[thread])
    BY Zenon, <2>1, PlainOp
  <2>3. CASE Stop("boot_panic")
    BY Zenon, <2>2, <2>3, StopUnseen
  <2>4. CASE Continue(Rest) /\ UNCHANGED <<thread, procs, sched, todo, status>>
    <3>1. Rest \in {TakeStack, MemoryDone}
      BY Zenon, <1>1, <2>1 DEF OpAt, AtPageAlloc
    <3> QED
      BY Zenon, <1>1, <2>2, <2>4, <3>1, PlainPrograms, PlainStep
  <2> QED
    BY Zenon, <1>7, <2>3, <2>4 DEF PageAlloc
<1> QED
  BY Zenon, <1>2, <1>3, <1>4, <1>5, <1>6, <1>7

(* Mapping the kernel in a table that no process uses yet. *)
LEMMA MapUnseen == ASSUME Inv, MapPage \/ WritePte PROVE UNCHANGED Abs!vars
<1>1. OpAt(Here, Rest)
  BY Zenon, AtOp DEF MapPage, WritePte
<1>2. Rest = Unlocking /\ Filled(Here.arg) /\ status = "run" /\ Plain(prog[thread])
  <2>1. CASE MapPage
    <3>1. At("map") /\ Here.op = "map"
      BY Zenon, <2>1 DEF MapPage, At
    <3>2. status = "run" /\ Plain(prog[thread])
      BY Zenon, <3>1, PlainOp
    <3> QED
      BY Zenon, <1>1, <3>1, <3>2 DEF OpAt
  <2>2. CASE WritePte
    <3>1. At("pte") /\ Here.op = "pte"
      BY Zenon, <2>2 DEF WritePte, At
    <3>2. status = "run" /\ Plain(prog[thread])
      BY Zenon, <3>1, PlainOp
    <3> QED
      BY Zenon, <1>1, <3>1, <3>2 DEF OpAt
  <2> QED
    BY Zenon, <2>1, <2>2
<1> DEFINE b == Here.arg
<1>3. b \in Int /\ b + 1 \in Int
  <2>1. b \in 0..KernelPages
    BY Zenon, <1>2 DEF Filled
  <2> QED
    BY <2>1
<1>4. Unlocking \in Program /\ Plain(Unlocking)
  BY Zenon, BodyPrograms, PlainPrograms
<1>5. CASE MapPage
  <2>1. /\ Entering(b) \in Program /\ Plain(Entering(b))
        /\ Allocate(Release(Entering(b))) \in Program /\ Plain(Allocate(Release(Entering(b))))
    BY Zenon, <1>3, BodyPrograms, CallShapes, PlainPrograms
  <2>2. /\ ((phalloc \o phree) \o <<Op("pte", b)>>) \o Unlocking = Allocate(Release(Entering(b)))
        /\ (<<>> \o <<Op("pte", b)>>) \o Unlocking = Entering(b)
    BY Zenon, <1>3, MapPrograms
  <2>3. \E p \in {Allocate(Release(Entering(b))), Entering(b), Unlocking} : Continue(p)
    BY Zenon, <1>2, <1>5, <2>2 DEF MapPage
  <2> QED
    BY Zenon, <1>2, <1>4, <1>5, <2>1, <2>3, PlainStep DEF MapPage
<1>6. CASE WritePte
  <2>1. Mapping(b + 1) \in Program /\ Plain(Mapping(b + 1))
    BY Zenon, <1>3, BodyPrograms, PlainPrograms
  <2>2. Op("map", b + 1) \in OpSet
    BY Zenon, <1>3 DEF OpSet
  <2>3. <<Op("map", b + 1)>> \o Unlocking = Mapping(b + 1)
    BY Zenon, <1>4, <2>2, DoOne DEF Mapping
  <2>4. Continue(Mapping(b + 1)) /\ UNCHANGED <<thread, sched, todo, status>>
    BY Zenon, <1>2, <1>6, <2>3 DEF WritePte, NextPage
  <2>5. Table' = Table
    BY Zenon, <1>6 DEF WritePte, Table, Shown
  <2> QED
    BY Zenon, <1>2, <2>1, <2>4, <2>5, PlainTableStep
<1> QED
  BY Zenon, <1>5, <1>6

-----------------------------------------------------------------------------
(* The steps that Proc sees *)

(* proc::new takes a slot, which is not shown until it is complete, or finds
   none. *)
LEMMA ClaimAbs == ASSUME Inv, Claim PROVE Abs!create_process_no_slot \/ UNCHANGED Abs!vars
<1>1. /\ At("claim") /\ Here.op = "claim"
      /\ AtClaim(Rest) /\ TypeOK
  BY Zenon, AtOp DEF Claim, At, OpAt, Inv
<1>2. status = "run" /\ Plain(prog[thread]) /\ AbsPc = "run" /\ Held = "Free"
  BY Zenon, <1>1, PlainOp
<1>3. claim = None
  BY Zenon, <1>1 DEF AtClaim
<1>4. Table = [i \in Slot |-> [state |-> state[i], sp |-> sp[i]]]
  BY Zenon, <1>1, <1>3, AllShown
<1>5. CASE Unused = {}
  <2>1. Stop("slots_panic")
    BY Zenon, <1>5 DEF Claim
  <2>2. /\ status' = "slots_panic" /\ thread' = thread /\ state' = state /\ sp' = sp
        /\ claim' = claim /\ curr_proc_idx' = curr_proc_idx /\ satp' = satp
        /\ sscratch' = sscratch /\ switch' = switch /\ todo' = todo
    BY Zenon, <2>1 DEF Stop, procs, sched
  <2>3. AbsPc' = "slots_panic" /\ Held' = "Locked"
    BY Zenon, <2>2 DEF AbsPc, Held, AtLocked, At
  <2>4. \A i \in Slot : i # claim
    BY Zenon, <1>3, Constants
  <2>5. Table' = Table
    BY Zenon, <2>2, <2>4 DEF Table, Shown
  <2>6. Abs!Unused = {}
    <3>1. Abs!Unused = {i \in Slot : Table[i].state = "Unused"}
      BY Zenon DEF Abs!Unused, Abs!Slot, Slot, Table, Blank, NoContext
    <3>2. \A i \in Slot : Table[i].state = state[i]
      BY Zenon, <1>4
    <3> QED
      BY Zenon, <1>5, <3>1, <3>2 DEF Unused
  <2>7. Abs!MayCreate
    BY Zenon, <1>1 DEF AtClaim, Creating, Abs!MayCreate, Abs!Main, Main
  <2> QED
    BY Zenon, <1>2, <2>2, <2>3, <2>5, <2>6, <2>7
    DEF Abs!create_process_no_slot, Table, Held, Blank, NoContext
<1>6. CASE Unused # {}
  <2>1. PICK i \in Slot : i = next_unused /\ state[i] = "Unused"
    BY Zenon, <1>1, <1>6, NextUnused
  <2>2. /\ claim' = i /\ state' = [state EXCEPT ![i] = "Runnable"]
        /\ sp' = [sp EXCEPT ![i] = [thread |-> i, at |-> "entry"]] /\ Continue(Filling)
        /\ status' = status /\ UNCHANGED <<thread, sched, todo, status>>
    BY Zenon, <1>1, <1>6, <2>1 DEF Claim, AtClaim
  <2>3. state \in [Slot -> {"Unused", "Runnable"}] /\ DOMAIN sp = Slot
    BY Zenon, <1>1 DEF TypeOK
  <2>4. \A j \in Slot : j # i => state'[j] = state[j] /\ sp'[j] = sp[j]
    BY Zenon, <2>2, <2>3
  <2>5. [state |-> state[i], sp |-> sp[i]] = Blank
    BY Zenon, <2>1 DEF Inv, Slots, Blank
  <2>6. \A j \in Slot : Shown(j)' <=> j # i
    BY Zenon, <1>2, <2>2 DEF Shown
  <2>7. Table' = [j \in Slot |-> IF j # i THEN [state |-> state'[j], sp |-> sp'[j]] ELSE Blank]
    BY Zenon, <2>6 DEF Table
  <2>8. Table' = Table
    BY Zenon, <1>4, <2>4, <2>5, <2>7
  <2>9. Filling \in Program /\ Plain(Filling)
    <3>1. Allocate(Dropping) \in Program
      BY Zenon, BodyPrograms, CallShapes
    <3> QED
      BY Zenon, <3>1, CallShapes, PlainPrograms DEF Filling
  <2> QED
    BY Zenon, <1>2, <2>2, <2>8, <2>9, PlainTableStep
<1> QED
  BY Zenon, <1>5, <1>6

(* Memory runs out: before there are processes, or in create_process. *)
LEMMA AllocAbs == ASSUME Inv, Alloc PROVE Abs!create_process_no_memory \/ UNCHANGED Abs!vars
<1>1. /\ At("alloc") /\ Rest \in Program /\ Rest \in Returns /\ Returning(Rest)
      /\ Inv'
  BY Zenon, AtOp, AllocInv DEF Alloc, At, OpAt
<1>2. status = "run" /\ Plain(prog[thread]) /\ AbsPc = "run" /\ Held = "Free"
  BY Zenon, <1>1, PlainOp
<1>3. CASE Continue(Rest) /\ UNCHANGED <<thread, procs, sched, todo, status>>
  BY Zenon, <1>1, <1>2, <1>3, PlainReturns, PlainStep
<1>4. CASE claim = None /\ Stop("boot_panic")
  BY Zenon, <1>2, <1>4, StopUnseen
<1>5. CASE claim # None /\ Stop("memory_panic")
  <2>1. /\ status' = "memory_panic" /\ thread' = thread /\ state' = state /\ sp' = sp
        /\ claim' = claim /\ curr_proc_idx' = curr_proc_idx /\ satp' = satp
        /\ sscratch' = sscratch /\ switch' = switch /\ todo' = todo
    BY Zenon, <1>5 DEF Stop, procs, sched
  <2>2. AbsPc' = "memory_panic" /\ Held' = "Locked"
    BY Zenon, <2>1 DEF AbsPc, Held, AtLocked, At
  <2>3. claim \in Slot
    BY Zenon, <1>5 DEF Inv, TypeOK
  <2>4. Creating
    BY Zenon, <1>1, <1>5 DEF Returning, Booting, Quiet, Filled
  <2>5. Abs!MayCreate
    BY Zenon, <2>4 DEF Creating, Abs!MayCreate, Abs!Main, Main
  <2>6. claim \in Abs!Unused /\ Abs!next_unused = claim
    BY Zenon, <1>2, <2>3, ClaimFirst
  <2>7. Table' = [Table EXCEPT ![claim] =
                    [state |-> "Runnable", sp |-> [thread |-> claim, at |-> "entry"]]]
    BY Zenon, <1>1, <1>2, <2>1, <2>3, ShownNow
  <2>8. Table' = [Table EXCEPT ![Abs!next_unused] = Abs!Created]
    BY Zenon, <2>6, <2>7 DEF Abs!Created
  <2>9. Abs!Unused # {}
    BY Zenon, <2>6
  <2> QED
    BY Zenon, <1>2, <2>1, <2>2, <2>5, <2>8, <2>9
    DEF Abs!create_process_no_memory, Table, Held, Blank, NoContext
<1> QED
  BY Zenon, <1>3, <1>4, <1>5 DEF Alloc

(* The guard of MEMORY is dropped, that of proc::new, or that of give_up. *)
LEMMA UnlockAbs ==
  ASSUME Inv, Unlock
  PROVE  Abs!create_process \/ Abs!drop_guard \/ UNCHANGED Abs!vars
<1>1. /\ At("unlock") /\ Rest \in Program /\ AtUnlock(Here, Rest) /\ TypeOK
      /\ Inv' /\ status = "run"
  BY Zenon, AtOp, UnlockInv DEF Unlock, At, OpAt, Inv
<1>2. /\ Continue(Rest) /\ thread' = thread /\ status' = "run" /\ state' = state /\ sp' = sp
      /\ curr_proc_idx' = curr_proc_idx /\ satp' = satp /\ sscratch' = sscratch
      /\ switch' = switch
  BY Zenon, <1>1 DEF Unlock, sched
<1>3. CASE Here.arg = "PROC_TABLE" /\ Rest = <<>> /\ Filled(KernelPages)
  <2>1. Plain(prog[thread]) /\ AbsPc = "run" /\ Held = "Free"
    BY Zenon, <1>1, <1>3, PlainOp
  <2>2. claim \in Slot /\ claim # None /\ Creating
    BY Zenon, <1>3, Constants DEF Filled
  <2>3. claim' = None /\ todo' = IF thread = Main THEN todo - 1 ELSE todo
    BY Zenon, <1>3, <2>2 DEF Unlock
  <2>4. (prog[thread])' = <<>>
    BY Zenon, <1>2, <1>3, NoneLeft, Continued
  <2>5. AbsPc' = "run" /\ Held' = "Free"
    <3>1. Plain(prog[thread])'
      BY Zenon, <2>4 DEF Plain
    <3> QED
      BY Zenon, <1>2, <3>1, PlainSeen
  <2>6. Abs!MayCreate
    BY Zenon, <2>2 DEF Creating, Abs!MayCreate, Abs!Main, Main
  <2>7. claim \in Abs!Unused /\ Abs!next_unused = claim
    BY Zenon, <1>1, <2>2, ClaimFirst
  <2>8. Table' = [Table EXCEPT ![claim] =
                    [state |-> "Runnable", sp |-> [thread |-> claim, at |-> "entry"]]]
    BY Zenon, <1>1, <1>2, <2>2, <2>3, ShownNow
  <2>9. Table' = [Table EXCEPT ![Abs!next_unused] = Abs!Created]
    BY Zenon, <2>7, <2>8 DEF Abs!Created
  <2>10. Abs!Unused # {}
    BY Zenon, <2>7
  <2>11. todo' = IF thread = Abs!Main THEN todo - 1 ELSE todo
    BY Zenon, <2>3 DEF Abs!Main, Main
  <2> QED
    BY Zenon, <1>2, <2>1, <2>5, <2>6, <2>9, <2>10, <2>11
    DEF Abs!create_process, Table, Held, Blank, NoContext
<1>4. CASE /\ Here.arg = "PROC_TABLE" /\ Rest = Switching(Parked(thread)) /\ claim = None
  <2>1. PICK q \in Program : q = Parked(thread)
    BY Zenon, BodyPrograms
  <2>2. AbsPc = "locked"
    <3>1. Op("switch", 0) \in OpSet /\ Op("switch", 0).op = "switch"
      BY Zenon, OpIs DEF OpSet
    <3>2. Rest # <<>> /\ Head(Rest).op = "switch"
      BY Zenon, <1>4, <2>1, <3>1, DoFacts DEF Switching
    <3>3. AtLocked
      BY Zenon, <1>1, <3>2 DEF AtLocked
    <3> QED
      BY Zenon, <1>1, <3>3 DEF AbsPc, At
  <2>3. (prog[thread])' = Switching(q)
    BY Zenon, <1>1, <1>2, <1>4, <2>1, Continued
  <2>4. AbsPc' = "switch" /\ Held' = "Free"
    BY Zenon, <1>2, <2>1, <2>3, SwitchingSeen
  <2>5. claim' = claim /\ todo' = todo
    BY Zenon, <1>4 DEF Unlock
  <2>6. Table' = Table
    BY Zenon, <1>1, <1>2, <2>5 DEF Table, Shown
  <2> QED
    BY Zenon, <1>2, <2>2, <2>4, <2>5, <2>6 DEF Abs!drop_guard, Table, Held, Blank, NoContext
<1>5. CASE Here.arg = "MEMORY" /\ \E q \in Returns : Returning(q) /\ Rest \in {Result(q), q}
  <2>1. PICK q \in Returns : Rest \in {Result(q), q}
    BY Zenon, <1>5
  <2>2. Plain(Rest)
    BY Zenon, <2>1, PlainReturns
  <2>3. Rest = <<>> \/ Head(Rest).op # "switch"
    BY Zenon, <2>2 DEF Plain
  <2>4. Plain(prog[thread])
    BY Zenon, <1>1, <2>3, PlainOp
  <2>5. claim' = claim /\ todo' = todo /\ UNCHANGED <<thread, sched, todo, status>>
    BY Zenon, <1>1, <1>2, <1>5 DEF Unlock
  <2>6. Table' = Table
    BY Zenon, <1>1, <1>2, <2>5 DEF Table, Shown
  <2> QED
    BY Zenon, <1>1, <1>2, <2>2, <2>4, <2>5, <2>6, PlainTableStep
<1> QED
  BY Zenon, <1>1, <1>3, <1>4, <1>5 DEF AtUnlock

(* give_up's choice, at which Proc takes the lock. *)
LEMMA ChooseAbs == ASSUME Inv, Choose PROVE Abs!give_up
<1>1. /\ At("choose") /\ Rest \in Program /\ AtChoose(Rest) /\ TypeOK
  BY Zenon, AtOp DEF Choose, At, OpAt, Inv
<1>2. status = "run" /\ AbsPc = "run" /\ Held = "Free"
  BY Zenon, <1>1, PlainOp
<1>3. Table = [i \in Slot |-> [state |-> state[i], sp |-> sp[i]]]
  BY Zenon, <1>1, AllShown DEF AtChoose
<1>4. Abs!Candidates = Candidates
  <2>1. \A i \in Slot : Table[i].state = state[i]
    BY <1>3
  <2>2. 1..(PROC_MAX - 1) \subseteq Slot
    BY KernelAssumption DEF Slot
  <2>3. Abs!Candidates = {i \in 1..(PROC_MAX - 1) : Table[i].state = "Runnable" /\ i # curr_proc_idx}
    BY Zenon DEF Abs!Candidates, Table, Blank, NoContext
  <2> QED
    BY Zenon, <2>1, <2>2, <2>3 DEF Candidates
<1>5. Abs!next_runnable_idx = next_runnable_idx
  <2> DEFINE First(S) == IF S = {} THEN 0 ELSE CHOOSE i \in S : \A j \in S : i <= j
  <2>1. /\ Abs!next_runnable_idx = First(Abs!Candidates)
        /\ next_runnable_idx = First(Candidates)
    BY Zenon DEF Abs!next_runnable_idx, next_runnable_idx
  <2> HIDE DEF First
  <2> QED
    BY Zenon, <1>4, <2>1
<1>6. PICK q \in Program : q = Parked(thread)
  BY Zenon, BodyPrograms
<1>7. /\ Continue(Leaving(q)) /\ thread' = thread /\ status' = "run"
      /\ state' = state /\ sp' = sp /\ claim' = claim /\ todo' = todo
      /\ switch' = [prev |-> curr_proc_idx, next |-> next_runnable_idx]
      /\ satp' = next_runnable_idx /\ sscratch' = next_runnable_idx
      /\ curr_proc_idx' = next_runnable_idx
  BY Zenon, <1>1, <1>2, <1>6 DEF Choose, AtChoose, procs
<1>8. (prog[thread])' = Leaving(q)
  BY Zenon, <1>6, <1>7, BodyPrograms, Continued
<1>9. AbsPc' = "locked" /\ Held' = "Locked"
  BY Zenon, <1>6, <1>7, <1>8, LeavingSeen
<1>10. Table' = Table
  BY Zenon, <1>2, <1>7 DEF Table, Shown
<1>11. thread = Abs!Main => todo = 0
  BY Zenon, <1>1 DEF AtChoose, GivingUp, Abs!Main, Main
<1> QED
  BY Zenon, <1>2, <1>5, <1>7, <1>9, <1>10, <1>11
  DEF Abs!give_up, Table, Held, Blank, NoContext

(* switch_context, and where the thread it resumes is. *)
LEMMA SwitchAbs == ASSUME Inv, switch_context PROVE Abs!switch_context
<1>1. /\ At("switch") /\ Rest \in Program /\ AtSwitch(Rest) /\ TypeOK /\ Inv'
  BY Zenon, AtOp, SwitchInv DEF switch_context, At, OpAt, Inv
<1>2. status = "run" /\ AbsPc = "switch" /\ Held = "Free"
  BY Zenon, <1>1 DEF At, AtLocked, AbsPc, Held
<1>3. PICK a \in Slot, b \in Slot : /\ a = switch.prev /\ b = switch.next
                                    /\ state[b] = "Runnable"
  <2>1. Chosen
    BY Zenon, <1>1 DEF AtSwitch
  <2>2. switch.prev \in Slot /\ switch.next \in Slot
    BY <2>1 DEF Chosen
  <2> QED
    BY Zenon, <2>1, <2>2 DEF Chosen
<1> DEFINE x == [thread |-> thread, at |-> "give_up"]
<1>4. /\ sp' = [sp EXCEPT ![a] = x] /\ thread' = sp'[b].thread
      /\ prog' = [prog EXCEPT ![thread] = Parked(thread)] /\ status' = "run"
      /\ state' = state /\ claim' = claim /\ claim = None /\ todo' = todo
      /\ curr_proc_idx' = curr_proc_idx /\ satp' = satp /\ sscratch' = sscratch
      /\ switch' = switch
  BY Zenon, <1>1, <1>2, <1>3 DEF switch_context, Continue, AtSwitch, Quiet, sched
<1>5. /\ Table = [i \in Slot |-> [state |-> state[i], sp |-> sp[i]]]
      /\ Table' = [i \in Slot |-> [state |-> state[i], sp |-> sp'[i]]]
  BY Zenon, <1>1, <1>4, AllShown, AllShownNext DEF Inv
<1>6. DOMAIN sp = Slot
  BY Zenon, <1>1 DEF TypeOK
<1>7. Table' = [Table EXCEPT ![a].sp = x]
  <2>1. sp'[a] = x /\ \A i \in Slot : i # a => sp'[i] = sp[i]
    BY Zenon, <1>4, <1>6
  <2>2. Table[a] = [state |-> state[a], sp |-> sp[a]]
    BY Zenon, <1>5
  <2> HIDE DEF x
  <2>3. [Table[a] EXCEPT !.sp = x] = [state |-> state[a], sp |-> x]
    BY <2>2
  <2> QED
    BY Zenon, <1>5, <2>1, <2>3
<1>8. Table'[b].sp = sp'[b]
  BY Zenon, <1>5
<1>9. PICK t \in Thread : t = thread'
  BY Zenon, <1>1 DEF Inv, TypeOK
<1>10. (prog[thread])' = Parked(t)
  <2>1. prog \in [Thread -> Program]
    BY Zenon, <1>1 DEF TypeOK
  <2>2. prog'[t] = Parked(t)
    BY Zenon, <1>4, <2>1 DEF Inv, OthersParked
  <2> QED
    BY Zenon, <1>9, <2>2
<1>11. /\ AbsPc' = IF t = Main THEN "idle_panic" ELSE IF t = 0 THEN "trap_panic" ELSE "run"
       /\ Held' = "Free"
  BY Zenon, <1>4, <1>9, <1>10, ParkedSeen
<1>12. Abs!Resume(sp'[b]) = IF t = Main THEN "idle_panic"
                            ELSE IF t = 0 THEN "trap_panic" ELSE "run"
  <2>1. sp'[b] \in Saved \cup {Entry(b)}
    BY Zenon, <1>1, <1>3, <1>4 DEF Inv, Slots
  <2>2. t = sp'[b].thread
    BY Zenon, <1>4, <1>9
  <2>3. CASE sp'[b] = Entry(b)
    <3>1. sp'[b].at = "entry" /\ t = b /\ t # Main
      BY <2>2, <2>3, Constants DEF Entry
    <3> QED
      BY Zenon, <2>2, <3>1 DEF Abs!Resume
  <2>4. CASE sp'[b] \in Saved
    <3>1. sp'[b].at = "give_up" /\ t # 0
      BY <2>2, <2>4 DEF Saved
    <3> QED
      BY Zenon, <2>2, <3>1 DEF Abs!Resume, Abs!Main, Main
  <2> QED
    BY Zenon, <2>1, <2>3, <2>4
<1>13. AbsPc' = Abs!Resume(Table'[b].sp) /\ thread' = Table'[b].sp.thread
  BY Zenon, <1>4, <1>8, <1>11, <1>12
<1> QED
  BY Zenon, <1>2, <1>3, <1>4, <1>7, <1>11, <1>13
  DEF Abs!switch_context, Table, Held, Blank, NoContext

(* A thread whose next operation is a panic has panicked in Proc. *)
LEMMA PanicAbs == ASSUME Inv, Panic PROVE UNCHANGED Abs!vars
<1>1. At("panic") /\ AtPanic(Here, Rest) /\ Stop(Here.arg)
  BY Zenon, AtOp DEF Panic, At, OpAt
<1>2. status = "run" /\ AbsPc = Here.arg /\ Held = "Free"
  BY Zenon, <1>1 DEF At, AtLocked, AbsPc, Held
<1>3. /\ status' = Here.arg /\ thread' = thread /\ state' = state /\ sp' = sp
      /\ claim' = claim /\ curr_proc_idx' = curr_proc_idx /\ satp' = satp
      /\ sscratch' = sscratch /\ switch' = switch /\ todo' = todo
  BY Zenon, <1>1 DEF Stop, procs, sched
<1>4. Here.arg \in {"idle_panic", "trap_panic"}
  BY Zenon, <1>1 DEF AtPanic
<1>5. AbsPc' = status' /\ Held' = "Free"
  <2>1. status' \in {"idle_panic", "trap_panic"}
    BY Zenon, <1>3, <1>4
  <2> QED
    BY Zenon, <2>1 DEF AbsPc, Held, AtLocked, At
<1>6. \A i \in Slot : Shown(i)' <=> Shown(i)
  BY Zenon, <1>2, <1>3, <1>4 DEF Shown
<1>7. Table' = Table
  BY Zenon, <1>3, <1>6 DEF Table
<1> QED
  BY Zenon, <1>2, <1>3, <1>5, <1>7, Unseen DEF SameView

(* boot is entered in Proc's initial state. *)
LEMMA InitAbs == Init => Abs!Init
<1> SUFFICES ASSUME Init PROVE Abs!Init
  OBVIOUS
<1>1. Inv
  BY Zenon, InitInv
<1>2. prog[thread] = kernel_init /\ status = "run" /\ claim = None
  BY Zenon, Constants DEF Init
<1>3. Plain(prog[thread])
  <2>1. Op("hart", 0) \in OpSet /\ Op("hart", 0).op = "hart"
    BY Zenon, OpIs DEF OpSet
  <2>2. Plain(Do(Op("hart", 0), ClearBss))
    <3>1. Op("hart", 0).op \notin {"panic", "switch"} /\ Op("hart", 0).op # "unlock"
      BY Zenon, <2>1
    <3> QED
      BY Zenon, <2>1, <3>1, BodyPrograms, PlainDo
  <2> QED
    BY Zenon, <1>2, <2>2, KernelInit
<1>4. AbsPc = "run" /\ Held = "Free"
  BY Zenon, <1>2, <1>3, PlainSeen
<1>5. Table = [i \in Slot |-> [state |-> state[i], sp |-> sp[i]]]
  BY Zenon, <1>1, <1>2, AllShown DEF Inv
<1>6. Table = [i \in Slot |-> Blank]
  BY Zenon, <1>5 DEF Init, Blank, NoContext
<1>7. Table = [i \in Abs!Slot |-> [state |-> "Unused", sp |-> Abs!NoContext]]
  BY Zenon, <1>6 DEF Blank, NoContext, Abs!NoContext, Abs!Slot, Slot, Abs!Main, Main
<1>8. /\ curr_proc_idx = 0 /\ satp = Abs!Bare /\ sscratch = Abs!Bare /\ thread = Abs!Main
      /\ switch = [prev |-> 0, next |-> 0] /\ \E n \in Users : todo = n + 1
  BY Zenon DEF Init, Abs!Bare, Bare, Abs!Main, Main
<1> QED
  BY Zenon, <1>4, <1>7, <1>8 DEF Abs!Init, Table, Held, Blank, NoContext

(* Whatever calls nest inside them, proc::new and give_up are the atomic steps
   of Proc: every step of the kernel is one of them or one that Proc does not
   see. *)
THEOREM ImplementsProcAlways == Spec => ImplementsProc
<1>1. Init => Abs!Init
  BY Zenon, InitAbs
<1>2. Inv /\ [Next]_vars => [Abs!Next]_(Abs!vars)
  <2> SUFFICES ASSUME Inv, [Next]_vars PROVE Abs!Next \/ UNCHANGED Abs!vars
    BY Zenon
  <2>1. CASE Halt \/ UNCHANGED vars
    BY Zenon, <2>1, StutterUnseen DEF Halt
  <2>2. CASE Claim \/ Alloc \/ Unlock \/ Choose \/ switch_context
    BY Zenon, <2>2, ClaimAbs, AllocAbs, UnlockAbs, ChooseAbs, SwitchAbs DEF Abs!Next
  <2>3. CASE \/ Call \/ CheckHart \/ Clear \/ Get \/ PageAlloc \/ Complete \/ Lock
             \/ Panic \/ MapPage \/ WritePte
    BY Zenon, <2>3, CallUnseen, BootUnseen, MapUnseen, PanicAbs
  <2> QED
    BY Zenon, <2>1, <2>2, <2>3 DEF Next
<1> QED
  BY <1>1, <1>2, Invariance, PTL DEF Spec, ImplementsProc, Abs!Spec

=============================================================================
