# A TLA+ verification of OS1K

OS1K is a small operating system for 32-bit RISC-V, kept in two versions: a
kernel in C (`c/`), which follows the book "Operating System in 1,000 Lines",
and a kernel in Rust (`rust/`), which goes beyond it with a buddy allocator,
spin locks and once-cells.  This directory models both, checks the models with
TLC on small instances, and proves the main safety properties with TLAPS for
every instance.

All paths below are relative to the repository (`src/`).

## 1. Inventory

### Rust kernel

| Part | State | Operations | Interacts with |
|---|---|---|---|
| Buddy allocator, `rust/src/mem.rs` `Memory` | `buddy_meta`, one `BlockState` per node of a binary tree; `buddy_stack`, the search stack | `buddy_alloc`, `buddy_free` | clients through `phalloc`, `phree` (`stdlib.rs`) |
| Initial allocator, `mem.rs` `InitialAlloc`, `Memory::new` | bump pointer | `page_alloc`, once at boot | builds `Memory` |
| `Once`, `OnceCell`, `Mutex`, `rust/src/sync.rs` | two atomics, the cell's value, the mutex's data | `call_once`, `get_or_init`, `lock`, guard access, guard drop | wraps `MEMORY` and `PROC_TABLE` |
| Process table, `rust/src/proc.rs` | eight slots, `curr_proc_idx`; `satp`, `sscratch` | `new`, `give_up`, `switch_context` | allocates page tables; driven by `kernel_main` |
| Page table, `rust/src/vm.rs`, and `FixedVec`, `stdlib.rs` | root and second-level tables | `map_page`, `FixedVec::new`, `drop` | the allocator |
| Boot, `rust/src/kernel.rs` | RAM and `.bss` zeroed, globals initialised | `boot`, `kernel_init`, `kernel_main` | all of the above |
| Traps, `rust/src/trap.rs` | trap frame | `trap_entry`, `trap_handler` (always panics) | `sscratch` |
| Output, `sbi.rs`, `macros.rs` | none | `putchar`, `print!`, `panic!` (waits forever) | |

### C kernel

| Part | State | Operations | Interacts with |
|---|---|---|---|
| Processes, `c/kernel.c` | `procs`, `current_proc`, `idle_proc`; `satp`, `sscratch` | `create_process`, `yield`, `switch_context` | page allocation, traps |
| Traps and system calls | `sepc`, a trap frame on each kernel stack | `kernel_entry`, `handle_trap`, `handle_syscall` | `yield`, the console |
| Pages | `next_addr` | `alloc_pages`, `map_page` | `create_process` |
| Shell and user library, `c/shell.c`, `c/user.c` | line buffer | `main`, `syscall` | system calls |
| Strings and formats, `c/common.c` | none | `printf`, `memcpy`, `memset`, `strcpy`, `strcmp` | |

### What is hard here

* The allocator is a search and a merge over a tree stored in an array, full
  of index and power-of-two arithmetic; a mistake shows only after a long
  sequence of calls (a leak, a block inside another one, a search stack one
  entry too short).
* The once-cell and the lock are read and written by several contexts without
  any other protection, and a panic never unwinds: whoever panics keeps what
  it holds.
* Both kernels switch contexts by hand: which stack, which page table, which
  trap stack and which program counter go together is kept in five places.
* Scheduling decisions are scans with a fallback (the idle process) whose own
  context is fabricated and must not be run.
* A page table is kept twice, for the owner and for the hardware, in memory
  that nobody clears after boot.
* Creating a process takes one lock inside another, many times over; on the one
  hart a single wait would be for ever.
* An exception may come between any two instructions, and finds the trap stack
  that the scheduler last chose, or none.

`PROJECT.json` lists these as hazards, each at the line where it bites.

## 2. Modules

| Module | Models | Checked by | Proved in |
|---|---|---|---|
| `Orders` | `ilog2`, `find_order`, `next_power_of_two` as functions | with `BuddyTree` and `MemoryInit` | `OrdersProofs` |
| `Words` | `next_power_of_two`, `find_order` on machine words | with `MemoryInit` | `MemoryInitProofs`, first part |
| `BuddyTree` | the tree arithmetic of `mem.rs` | with `Buddy` | `BuddyProofs`, first part |
| `Buddy` | `buddy_alloc`, `buddy_free` | `MCBuddy*.cfg` | `BuddyProofs` |
| `BlockAllocator` | what clients of the allocator may expect (abstract) | refinement in `MCBuddy.cfg` | refinement in `BuddyProofs` |
| `MemoryInit` | `Memory::new`, `InitialAlloc` | `MCMemoryInit.cfg` | `MemoryInitProofs` |
| `PageTable` | `vm.rs`, `FixedVec` of `stdlib.rs` | `MCPageTable*.cfg` | `PageTableProofs` |
| `AddressMap` | what users of a page table may expect (abstract) | refinement in `MCPageTable.cfg` | refinement in `PageTableProofs` |
| `Sync` | `sync.rs` | `MCSync.cfg` | `LibraryProofs`, first part |
| `Proc` | `proc.rs`, `kernel_main` | `MCProc.cfg` | `ProcProofs` |
| `Kernel` | `kernel.rs` with the globals and all nested calls | `MCKernel.cfg`, refinement of `Proc` | `KernelProofs` |
| `Trap` | `trap.rs`, over `Proc` | `MCTrap.cfg` | `ProcProofs`, second part |
| `CKernel` | `c/kernel.c` | `MCCKernel.cfg` | `CKernelProofs` |
| `Shell` | `c/shell.c`, `strcmp` | `MCShell.cfg` | `LibraryProofs`, second part |
| `Printf` | `printf` of `c/common.c` | `MCPrintf.cfg` | `LibraryProofs`, third part |

A definition with an underscore and a capitalised suffix (`MergeUp_Once`) is a
faulty variant of the definition it is named after, the kind of slip the code
could have.  Each checked property is paired in `PROJECT.json` with a variant
that breaks it.  Nothing else refers to these variants.

### Buddy

State: `buddy_meta` as in the code; `pc`, `req`, `stack` and `cur` are the
locals of the call under way (`stack` is `buddy_stack[0..sp]`); `live` is the
set of `PhysAddr`s that clients hold; `ret` is the last result.  One action is
one iteration of a loop or one early return:

| Action | Code in `mem.rs` |
|---|---|
| `AllocReject`, `AllocBegin` | the checks, the rounding and the push of the root |
| `SearchTake`, `SearchSkip`, `SearchDescend`, `SearchFail` | one turn of the search loop, or its end |
| `FreeUnsized` | a `PhysAddr` without a size: return at once |
| `FreeBegin` | find the node, free it, find its buddy |
| `MergeUp`, `MergeStop`, `MergeAtRoot` | one turn of the merge loop, its end, or its panic |

Calls do not interleave: both wrappers hold the lock of `MEMORY` throughout,
and that the lock excludes is `Sync`'s business.  Clients free only blocks they
were given, once.  `BlockAllocator` has no tree: a call returns some free
aligned slot of the rounded size, or `OutOfMemory` if there is none.

### Words and MemoryInit

`Orders` has the two functions by what they compute.  `Words` has them as the
code does, on words of `2^Rounds` bits, each `x |= x >> k` in its turn; `|` is
the word whose bits are those of either operand.
`MemoryInit` runs `Memory::new` on any RAM of whole pages and any reserved
region: one action for each of the two areas, one for the panic in
`page_alloc`, and `buddy_alloc` up to its search, that is, up to the
subtraction that needs the orders to agree.  Sums and products wrap as in a
release build.  It computes on words and
`SearchesLeastSize` compares the result with `Orders`.  What happens after the
subtraction has underflowed is not followed.  `BuddyTree` and `Buddy` assume
that RAM is a power of two, as the 64 MiB of `kernel.ld` are.  `LevelMissing`
says exactly which requests would go wrong otherwise; the comment at
`mem.rs:208` already asks for the smaller size.

### PageTable

State: the words of every block of one page and the vectors in every block that
holds a `second_pts`, as memory, whoever owns it; the blocks in use; the page
table of each owner.  Memory keeps its contents when it is freed.  `map_page`
is four actions: the unaligned address, no memory, the path that creates a
second-level table, and the path that finds one.  The creating path includes
the drop of the vector that is replaced and the panic that `buddy_free` would
raise.  `drop` is the drop of the whole page table.  `Walk` is what the
hardware does (Sv32), and is not the kernel's code.  `AddressMap` has one
function from pages to entries for each owner.

A freed block is served again, first fit, with what was left in it.  `FixedVec`
does not initialise its elements, so the code relies on every block it is served
being clear; the clearing of RAM at boot ensures this until a block that was
written comes back.  The history variable `dirty` records that one has, and the
properties of page tables say what holds until then: drops, and the reuse of
blocks that were freed without having been written, are covered.  What happens
at the first dirty block is the subject of the other run.  The kernel today
never drops a page table that maps anything.  The passing run's `CONSTRAINT`
does not continue from dirty states: `dirty` is never reset, and the properties
claim nothing there.

### Sync

One action per atomic operation or access to the cell or the data.  A client
increments a counter under the lock by a read and a write.  In the shipped
kernel only hart 0 runs and interrupts are off, so that no two contexts meet in
these functions; the interleavings are the ones that `unsafe impl Sync` allows
a client to have.  Memory is sequentially consistent in the model.  The code
orders the accesses to a cell's value by the acquire and release operations on
its one atomic, and those to the data by those on the lock, so that no weaker
behaviour is visible to a client.

### Proc

A saved stack pointer is the thread it resumes and where.  `give_up` is three
actions: everything up to the drop of the guard, the drop, the switch.
Whoever runs may create processes if `Spawns` holds (`proc::new` is public; the
shipped processes only give up).  `create_process_no_memory` is the panic in
`FixedVec::new`, after the slot was marked `Runnable`.

### Kernel

Every thread has a program, the operations it has still to perform: a call puts
the operations of its body in front.  `proc::new`, for example, is a
`get_or_init`, the lock, the claim of a slot, two allocations, two drops and the
mapping loop, and every allocation is again a `get_or_init`, a lock, an unlock
and the `unwrap` of its result.  A thread that finds a lock held or a cell under
initialisation has no step; there is one hart, so this is a deadlock and TLC
reports it, and `NeverWaits` says the same as an invariant.  Allocation may fail
at any time.  The initialiser of `MEMORY` is `Memory::new`: it clears the reserved
region once more (`InitialAlloc::new`) and takes the metadata and the stack from
it by two `page_alloc`, each of which may panic.  `area` is what has become of
.bss, the reserved region and RAM: untouched, cleared or in use.
`ImplementsProc` maps a slot to `Unused` until the table is
unlocked, so that all of this is one atomic step of `Proc`.

### Trap

The threads are those of `Proc`; an exception may come before any of their
steps.  A stack pointer is a stack and whether it is its top (where the
thread's live data begins) or below the live data.  The first store of the
frame faults if `sscratch` was 0.  `trap_handler` may itself raise an exception,
up to `MaxFaults` times.  A frame laid at the top of a stack destroys the
thread's data there, which would have to change before a trap may return:
`sscratch` names the top of the running process's own stack.
`ClobbersOnlyCurrent` bounds the damage: the stack is the current process's, and
outside `give_up` that is the stack of the thread that raised the exception.

### Shell and Printf

`Shell` reads one character per step; the console may deliver any, 0 included;
`index` is the `i` of the code.
Bytes of the buffer not written for the current line are `Junk`, different from
every character.  `Printf` follows the format character by character and has
the two loops of `%d` step by step (`val` is its local `value`); `-value` of the
least int may be any int, as for a compiler that takes the overflow for
undefined.  `Reference`, what a format stands for, is defined apart from it: by
recursion on what is left of the format, with a number's digits from the last one
to the first, where the code prints them from the first one on.

### CKernel

A trap is two actions: the entry up to the dispatch, and the system call with
the way back or with `yield`.  `frame` is what is on the kernel stacks,
`handle_trap`'s local `user_pc` included.  `Yield` is not split, since nothing
can run in between.  The read of `procs[-1]`, which happens at the first
`yield` because the idle process has pid -1, is modelled: it finds the constant
`Before`, assumed not to look like a runnable process.  In the image that
`c/run.sh` links, the bytes there are the zeroed stack at the end of
`shell.bin`.  `returns` and `served` are history variables.

## 3. Runs

| Run | Question | Instance | Result |
|---|---|---|---|
| `buddy` | Is the allocator right after any sequence of calls, and does every call end? | 8 pages of 4 bytes, RAM at 12, requests 0..33 | holds |
| `buddy_whole_region` | Does freeing a block that was handed out never panic? | the same | **violated** |
| `memory_init` | Does `Memory::new` stay in its areas, are requests rounded rightly, and which have no level? | 8-bit words, 1 to 19 pages of 8 bytes, 0 to 11 reserved pages, requests 0..34, 60..68 and 124..160 | holds |
| `pagetable` | Do page tables map what they are told and own their memory? | 2 entries a level, 3 owners, 4 pages, memory for 2 page tables | holds |
| `pagetable_recycled` | Is a new page table empty, also in memory used before? | the same | **violated** |
| `sync` | Are the cell and the lock safe under any interleaving, and do waiters get through? | 3 contexts, counter modulo 3 | holds |
| `proc` | Do contexts stay with their processes, and who takes turns? | 8 slots, 0 to 8 processes plus spawned ones | holds |
| `kernel` | Do boot and the nested locks behave as `Proc` assumes, and does boot get to a process? | 4 slots, 0 to 4 processes plus spawned ones, 5 pages in 2 tables, harts 0 and 1 | holds |
| `trap` | Is an exception reported, and reported rightly, wherever it comes? | 4 slots, 2 causes, 2 further faults | holds |
| `ckernel` | Do contexts stay with their processes in the C kernel, traps included, and is `yield` fair? | 4 slots, 0 to 4 processes, 16 pages, program counters modulo 3 | holds |
| `shell` | Does the shell run what was typed, and stay in its buffer? | 5 bytes, lines up to 8 characters, 4 characters | holds |
| `printf` | Does `printf` print what the format says? | 8-bit ints, formats up to 4 characters | holds |

Type invariants are proved rather than run, where a module has proofs; TLC
stops at an index out of range in any case.

Properties worth knowing:

* `Canonical`: between calls `buddy_meta` is a function of the live blocks.
  Nothing leaks, and free buddies are always merged, however long the history.
* `StackFits`: one stack entry per level is enough (`mem.rs` has a FIXME on
  this); it rests on the search keeping one sibling per level.
* `FirstFit` and `ImplementsBlockAllocator`: what clients see.  A call fails only
  if no aligned block of the rounded size is free.
* `Poisoned`, `InitOnce`, `UnwrapSafe`: the three comments in `sync.rs` that
  state guarantees.
* `OnlyFirstTwoRun`: `give_up` is not a round robin.  Its scan starts at slot 1
  each time, so a third process never runs.  The shipped kernel has two.
* `UserCoherent`, `WaitersKept`: a C process that waited in `getchar` resumes
  with its own registers and program counter whatever ran meanwhile.
* `NoOvertaking`: `yield`, in contrast, is a round robin.
* `ImplementsAddressMap`: what the hardware finds by walking the tables is what
  `map_page` was told, for all pages at once, and no other process's table
  changes.  `RootMatchesOwner` and `BlocksOwnedOnce` are the reasons.  All three
  hold as long as every block that was served was clear.
* `NeverWaits`, `ClearedInTime`, `FirstProcessRuns`: the order in which
  `kernel_init` does things is right (every region is cleared before its first
  use and not after it, though the reserved one is cleared twice), the nesting `PROC_TABLE`, `MEMORY` is the
  only one, and boot ends in a process or in a panic for want of memory or slots.
* `SatpMapsKernel`: no page table is switched to before it is complete.
* `ReportsFirst`, `TrapEnds`: exceptions are reported, in boot only after
  `trap_entry` has itself faulted once, and then with the wrong cause;
  `ReportsFirst` is therefore about the time after the first `give_up`.
* `RunsWhatWasTyped`: a command runs exactly if it was typed as a line, where
  each full buffer of a line that is too long is dropped and a 0 ends it.

Two runs are violated.  In `buddy_whole_region`, the whole of RAM can be
allocated as one block, and freeing it panics.  The merge loop computes a buddy
for node 0, namely node 1, finds it `Free` and takes the parent of node 0.  The
documentation of `phree` (`rust/src/stdlib.rs:19-24`) says that a panic
"indicates a bug in the allocation logic".  `PanicOnlyForWholeRegion` shows that
this is the only free of a held block that panics.

In `pagetable_recycled`, a page table is created, used and dropped, and the
next one gets the same block with the old entries in it: valid entries for
tables it does not own.  `FixedVec` does not clear, and `kernel.rs:52` counts on
the clearing at boot ("Either this or zeroing during the allocation").  Nothing
in the kernel drops a page table yet.

Bounds.  Eight pages give four levels, so that there are inner nodes whose
parent is not the root and merges of three levels; a page of four bytes is the
smallest for which the rounding to a page matters, and RAM that starts at a
page that is not aligned to its own size tests that only offsets are used.
Three contexts are the least for a waiter to overtake another one.  `Proc` has
the kernel's own eight slots.  Four slots in `CKernel` allow three user
processes, the least for a round robin to be visible; pages are few enough for
both "out of memory" and "no free process slots" to happen.  Two entries per
level and four pages allow two page tables with a second-level table each, one
page table with both, and running out of memory in every place, for a third
page table in both ways; the targets
include an unaligned address.  Words of 8 bits have three rounds of smearing;
the requests lie around the powers of two and reach past the largest one that a
word can hold, and past the largest RAM.  The pages of `MemoryInit` are 8 bytes,
so that areas of less than a page, a whole page and several pages occur, and
either area may be the one that does not fit.  In `Kernel` the
pages lie in two second-level tables, the second one not full, and one process
more is created than there are slots.  The shell's lines fill its buffer, end
exactly at its limit, and run on into a second line.  Formats of four
characters have two conversions, or one between other characters; the values
lie on both sides of each change in the number of digits.

Symmetry is used in `MCPageTable` only, over the owners; it is sound there, since
no property of those runs is about liveness.

Fairness.  `Buddy`, `Proc` and `Kernel`: the hart goes on executing, nothing
preempts it.
`Trap`: it goes on executing once an exception was taken.
`Sync`: a context inside `get_or_init` or a critical section keeps running.
`CKernel`: the hart goes on executing; every program reads the console again
and again, as the shell's loop does, and the console is empty again and again,
as one to which people type is.  Deadlock is checked in all runs: a panicked
kernel loops, any other state must have a step.  For `Proc` this shows that
`give_up` never meets its own lock held.

## 4. Proofs

Each rests on an inductive invariant that implies the property, one lemma per
action; action properties and refinements are then shown step by step under
that invariant.  They hold for every value of the constants
under the assumptions named in the modules.

* `BuddyProofs`, from `OrderAssumption` (RAM and page sizes are powers of two,
  at least two pages), `RamAssumption` and `RequestAssumption`: `TypeOK`,
  `ParentSplit`, `StackFits`, `LiveDisjoint`, `PanicOnlyForWholeRegion`.  They
  are not inductive by themselves.  `Inv` adds `StackInv` (every node on the
  stack hangs below a `Split` node and is at least as deep as its place in the
  stack, the top possibly one level less), `CurInv` (the node being merged is
  free, its level and buddy are up to date, its parent is `Split`) and `LiveInv`
  (live blocks are exactly the blocks of `Allocated` nodes).  The stack bound
  follows from the depths.  Disjointness follows from `ParentSplit`: a block
  inside another would have an `Allocated` ancestor, which would have to be
  `Split`.
* The last part of `BuddyProofs` has `Canonical`, `FirstFit` and the
  refinement of `BlockAllocator`.  `Inv` is too weak for them: it allows a
  `Split` node with two free children, and says nothing of the blocks that the
  search has passed.  `CInv` adds `SplitInv` (below every `Split` node one child
  is not free, except where the search has just opened the node or the merge is
  about to close it) and `SearchInv` (the blocks on the stack, from the top,
  cover RAM from some address on, and every block of the requested size before
  that address is taken).  When the search takes a block, all slots before it
  are taken: first fit.  When the stack is empty, all slots are: `OutOfMemory`
  is justified.  Between calls nothing is open, so every node that is not free
  has a live block in it: `Canonical`.  `SlotSizeIs` shows that the rounded
  size is the least one that fits.
* The first part of `BuddyProofs` has the arithmetic under it: levels, parents,
  buddies, and that the node computed from a block's address and size is the
  node it came from.  It rests on `OrdersProofs`: quotients, powers of two, and
  that `ilog2`, `next_power_of_two` and the level of a node are the ones their
  defining inequalities determine.  Inductions are by the least number for which
  a claim fails (`LeastNat`, from the well-foundedness of <).
* `MemoryInitProofs`, from `RoundsAssumption` and `MemoryInitAssumption` (a page
  is a power of two that holds two words, both regions are whole pages, the
  reserved one lies below RAM, as in `kernel.ld`), so for words of any number
  of bits: `AreasFit`, `PanicsForCause`, `SearchesLeastSize`, `LevelMissing`.
  `NextPowerOfTwoComputes` is the bit smearing: after r rounds, the 2^r
  bits of n - 1 from its highest one down are set and none above it (`Spread`),
  so in the end the word is one less than a power of two (`SmearedOnes`).  That
  `|` has a value, and one only, is `BitsExist` and `BitsUnique`.  `Inv`
  says where the two areas are when nothing wraps (`AreasInv`) and how the
  answer of `buddy_alloc` follows from the request (`ReturnInv`).  That nothing
  wraps is shown, not assumed: the reserved region ends below RAM and RAM ends
  inside the word, so the areas that are tested for fit stay small enough for
  the test to be exact (`NoWrap`).
* `LibraryProofs`, first part, for any set of contexts: `TypeOK`, `InitOnce`, `UnwrapSafe`,
  `Poisoned`, `MutualExclusion`, `NoLostUpdate`, `ValueStable`.  `SyncInv` ties the
  once-state to who is initialising and the lock to who holds the guard.
* `ProcProofs`, for any number of slots and processes: `TypeOK`, `Coherent`,
  `IdleEntryNeverRuns`, `IdleOnlyIfAlone`, `OnlyFirstTwoRun`.  `Inv` adds that
  slots fill from the first one on (`Prefix`), that each slot holds its own
  thread's context (`OwnContext`), that slot 0 holds `kernel_main`'s once a
  process runs (`Running`), and what the locals of `give_up` are (`Switching`).
* The second part of `ProcProofs`, on top of the first, for any number of slots,
  causes and further faults: `TrapTypeOK`, `ReportsFirst`, `HandlerStackKnown`,
  `ClobbersOnlyCurrent`.  `TInv` is the invariant of `Proc` with what `sp`,
  `scratch`, `scause` and `frame` are in each phase: once processes run,
  `scratch` is the top of a slot's stack when the exception is taken
  (`TopsOfSlots`), the exchange keeps the interrupted stack pointer in
  `scratch` until the frame has it, and only the handler's own faults change
  the cause.  A stack pointer at a top is that of the current process's stack
  (`TopsMine`), because `give_up` writes `sscratch` and `curr_proc_idx` in one
  step and an exception finds them agreeing.
* `PageTableProofs`, for any number of entries, pages and owners:
  `RootMatchesOwner`, `BlocksOwnedOnce`; and from its invariant the refinement of
  `AddressMap` and that a new table is empty.  Each is about the time before a
  block is served with old contents (`dirty`); the run `pagetable_recycled` shows
  that they may fail afterwards.  The invariant is `dirty \/ Inv`, where `Inv`
  has `Built` (root entries and owned tables name the same blocks), `Apart` (no
  block has two roles) and `NoLeak` (every block in use has one); it needs the
  arithmetic of
  entries and virtual addresses, proved first.  The refinement mapping is the
  walk of the hardware; `WalksOwned` says that it goes through the tables that
  `second_pts` owns, so that a write to one of them changes one page of one
  map (`OneEntry`).
* `CKernelProofs`, for any number of slots, processes and pages, from the
  module's assumptions: `UserCoherent`, `WaitersKept`, `PanicsJustified` and the
  action property `NoOvertaking`.  `ScanAssumption`, that the table has not
  exactly two slots, came out of the proof: the scan from pid -1 looks at -1, 0
  and so on up to `PROC_NO_MAX` - 2, and with two slots it would miss the only
  user process (the kernel has eight).  `Inv` adds what pid each slot has, where every waiting
  process will resume (`AllWait`), how boot fills the slots (`BootInv`), who
  owns the registers while a process runs (`RunInv`), and, for fairness, that
  whoever ran since process i did lies between i and the current one in the
  order of the scan (`ServedInv`).
* The second part of `LibraryProofs` is about the shell, from `ShellAssumption`, for
  a buffer of any size, any characters and any two commands: `BufferSafe` and the
  action property `RunsWhatWasTyped`.  `ShellInv` says that the buffer holds the
  end of what was typed, a multiple of the buffer's size having been dropped.
  `StrcmpEqual` says that the loop of `strcmp` returns 0 exactly if the bytes
  before the first terminator are those of the command; it looks at no byte after
  it.
* The third part is about `printf`, from `PrintfAssumption`, so for ints of any
  number of bits that is a multiple of four and formats of any length:
  `PrintsReference`.  `NibblesAre` says that the shifts of `%x` yield the
  hexadecimal numeral of the two's complement with its leading zeros.  For `%d`,
  `PrintfInv` says that the divisor is a power of ten, that the digits above it
  are printed and that `value` is what the others stand for; `DigitTurn` is one
  turn of the loop.  Between two characters of the format, what was printed
  followed by what the rest of the format stands for is the reference.
  The divisor's range is shown without any assumption on the arguments, the rest
  for arguments other than the least int, whose `%d` the property leaves open.
* `KernelProofs`, from `KernelAssumption` only, so for any number of slots and of
  processes, any ids of harts, a kernel of any number of pages and tables of any
  span: `NeverWaits`, `ClearedInTime`, `SatpMapsKernel`, and the refinement of
  `Proc`.  None is inductive, because a step depends on what is left of the
  program: a lock is free at one place only because of an unlock performed
  earlier at another.  `Inv` therefore lists, for every operation that may come
  next, the rest of the program and the state of cells, locks and page tables
  there (`Where`).  It adds that every other thread is at its entry or
  inside `switch_context` and will do what follows there (`OthersParked`), that a
  slot is blank, complete with the whole kernel mapped, or the one being filled
  (`Slots`), that slots fill from the first one on (`Claimed`, `IdleSlot`), and
  that the current slot and the one in `satp` are in use (`Active`).
  For the refinement, the claimed slot is not shown until the guard of
  `PROC_TABLE` is dropped: that drop is `create_process`, a failed allocation is
  `create_process_no_memory`, a search without result `create_process_no_slot`.
  The choice in `give_up` is its first step, the drop of the guard its second and
  `switch_context` its third.  Every other step leaves the state of `Proc` as it
  is.  What `ProcProofs` shows of `Proc` thus holds of the
  process table of `Kernel`, as the mapping shows it.

Recursive functions are defined by `CHOOSE`: that the equation of a numeral, of
the meaning of a format or of the smeared bits has a solution is proved first
(`NumeralsExist`, `MeaningsExist`, `RowsExist`), and what it computes then by
the least argument for which a claim fails.

Only model-checked: liveness, since the prover has no fairness reasoning.

## 5. Not modelled

* Console output and the SBI calls: no state of the kernels depends on them,
  and the kernel ignores their errors.  Rust's own formatting is the library's.
* The registers in a context or a trap frame: whose they are is modelled, not
  their values.  The second half of `trap_entry`, which restores them, is never
  reached, since `trap_handler` does not return.
* How much stack a thread uses.  A process has 2 KiB and no guard page; the
  depth of the calls is the compiler's decision.
* Weak memory, see `Sync`.
* Two blocks of different size at the same address in `PageTable`: that the
  allocator's blocks are disjoint and aligned is `Buddy`'s result.
* The page tables of the C kernel, which are built once and never changed or
  given back; `memcpy` and `memset`, single loops; `strcpy`, `VirtAddr`, and
  `proc_a_entry` and `proc_b_entry` of the C kernel, which nothing calls.
