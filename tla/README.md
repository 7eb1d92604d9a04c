# Verification of Kernel-Programming-Projects

The repository holds three independent programs.  This directory models them in
TLA+, checks the models with TLC on small instances and proves what matters most
with TLAPS.

## 1. Inventory

### System_Call_Interceptor (a kernel module, `interceptor.c`)

| part | state | operations |
|---|---|---|
| command system call | `table[]` (saved function, `intercepted`, `monitored`, `listcount`, `my_list`) and the kernel's `sys_call_table` | `my_syscall`: INTERCEPT, RELEASE, START, STOP |
| call path | reads `table[]`, logs | `interceptor`, `my_exit_group` |
| pid lists | `my_list`, `listcount`, `monitored` | `add_pid_sysc`, `del_pid_sysc`, `del_pid`, `destroy_list`, `check_pid_monitored`, `check_pid_from_list` |
| load and unload | `orig_custom_syscall`, `orig_exit_group` | `init_function`, `exit_function` |

Every process of the machine runs this code at the same time.  The parts share
`table`, guarded by two spinlocks: `calltable_lock` for the table of functions
(and the mode `monitored`), `pidlist_lock` for the lists (and the flag
`intercepted`, and also `monitored` when a list is destroyed or runs empty).
What is hard is that no command is one critical section: it tests under one
lock and acts under another, and other commands, calls and exits run in between.
It is correct if a slot never loses its original function, every intercepted
call goes on to it, commands that report success have done what they say, nobody
changes another user's monitoring, and no lock is kept.  Not all of this is so:
sections 3 and 4 say under what conditions.

### Memory_Management_Simulator

| part | state | operations |
|---|---|---|
| address translation (`pagetable.c`, `sim.c`) | page directory and tables, `coremap`, `physmem`, event counters | `find_physpage`, `allocate_frame`, `init_frame`, `access_mem` |
| swap (`swap.c`) | bitmap of slots, swap file | `bitmap_*`, `swap_pageout`, `swap_pagein` |
| policies (`rand.c`, `fifo.c`, `clock.c`, `lru.c`, `opt.c`) | a hand, linked lists, the trace read beforehand | `*_init`, `*_ref`, `*_evict` |
| trace programs (`traceprogs/`) | - | generate reference traces |

One sequential program: for each reference of a trace, `access_mem` calls
`find_physpage`, which calls the policy's `evict_fcn` and `ref_fcn`.  What is
hard is that four structures describe the same thing from different ends (page
table entry, coremap, swap bitmap, the policy's own list) and each must stay
right through arbitrarily long traces.

### EXT2_File_System

| part | state | operations |
|---|---|---|
| on-disk structures (`ext2general.c`, `ext2.h`) | inode and block bitmaps with their counters, inodes, directory blocks, blocks of block numbers | allocation, lookup, freeing |
| tools (`ext2_mkdir`, `ext2_cp`, `ext2_ln`, `ext2_rm`) | the disk image | one command per run |
| printers (`ext2_ls`, `readimage`) | - | read-only |

A command is a sequence of updates of the mapped image with error returns in
between, and each must leave bitmaps, counters, link counts and directory
entries in agreement.

## 2. Modules

| module | models | state | actions |
|---|---|---|---|
| `Interceptor` | `interceptor.c` while loaded | `sys_call_table`, `table`, the two spinlocks, and for each process where it is (`pc`), its call (`arg`) and whether it was logged | one per critical section and unlocked stretch |
| `Monitor` | what a user of the interceptor is promised | hooked slots, watched processes, calls and commands on their way, how far each command has come | `Ask` and `Answer`; the effects of a command, `Hook`, `Unhook`, `StartOne`, `StopOne`, `StopAll`, and of two steps each `Empty` and `Fill` (START of all), `Take` and `Finish` (the first START); `Forget`; `Enter`, `Record`, `Leave` |
| `InterceptorMonitor` | - | - | the refinement mapping to `Monitor`, what an answer of 0 means, and whose processes a user's step may touch |
| `InterceptorClaims` | - | - | comments of `interceptor.c` that the code contradicts |
| `InterceptorLifecycle` | `init_function`, `exit_function` and the freeing of the module, around `Interceptor` | `phase`, `i`, `loads` beside `Interceptor`'s | `Hook`, `InitCalls`, `InitLists`, `Unhook`, `UnloadSlot`, `Free`, `Oops`, `Lost` |
| `MCInterceptor`, `MCLifecycle` | - | - | who is root, for the runs |
| `PageTable` | `pagetable.c`, `swap.c`, `access_mem` | `pgdir`, `pte`, `coremap`, `physmem`, `swapmap`, `swapfile`, `count`, `status` | `Hit`, `Fill`, `Replace`, `SwapExhausted` |
| `DemandPaging` | what the event counters count | resident set and counters | `Hit`, `Load`, `Replace`, `GiveUp` |
| `Paging`, `MCPaging` | - | - | the refinement mapping to `DemandPaging`, a contradicted comment; symmetry |
| `History` | - | `used`, `since` | when frames were used and filled |
| `Rand`, `Fifo`, `Clock`, `Lru` | one policy each | the policy's globals | `PageTable`'s actions with the policy's victim |
| `Opt` | `opt.c` | the trace, the recorded references, each page's occurrences, the sorted list | the same, with a step for the line `replay_trace` skips |
| `Sim`, `MCSim` | `main` of `sim.c` | `evict_fcn` | the chosen policy's; traces and symmetry |
| `Ext2Disk` | the image and `ext2general.c` | - | operators on an image |
| `Ext2` | `ext2_mkdir`, `ext2_cp`, `ext2_ln`, `ext2_rm` | `disk`, `result` | `Mkdir`, `Cp`, `Ln`, `LnS`, `Rm` |
| `FileTree` | what a user of the tools is promised | the names in use, the last command | `Mkdir`, `Cp`, `Ln`, `LnS`, `Rm`, each with its paths |
| `Ext2Careful` | - | `tree`, the names of `disk`, and `did`, the last command | the tools within their limits, and what holds then |
| `Ext2Claims` | - | - | a comment of the tools that the code contradicts |
| `MCExt2`, `MCExt2Careful` | - | - | lengths of names and symmetry, for the runs |
| `Interceptor_proofs`, `Lifecycle_proofs`, `Monitor_proofs` | - | - | theorems of `Interceptor`, `InterceptorLifecycle` and `InterceptorMonitor` |
| `PageTable_proofs` | - | - | theorems of `PageTable` and `Paging` |
| `Policy_proofs` | - | - | theorems of `Sim`: fifo, lru and clock; opt, and all of them together |
| `Ext2_proofs` | - | - | theorems of `Ext2`, and lemmas on the image that careful callers keep |
| `Ext2Careful_proofs` | - | - | theorems of `Ext2Careful` |
| `Sums_proofs` | - | - | lemmas on sums over finite sets, for the other proofs |

`PROJECT.json` maps each definition to its source lines.  A definition whose
name ends in `_Something` after the name of another one, with a comment that
begins "Variant", is a bug one could plausibly have written there; no
specification uses it, and each property of the passing runs is known to be
violated by one of them.

### Interceptor

*Atomicity.*  A section between `spin_lock` and `spin_unlock` is two steps: one
takes the lock, one runs the body and gives the lock back.  Bodies may be one
step because `sys_call_table` and `table[].f` are written under
`calltable_lock` only, and the lists, `listcount` and `intercepted` under
`pidlist_lock` only.  `monitored` is written under both: `calltable_lock` in
the commands, `pidlist_lock` when a list is destroyed or runs empty.  What is
written across is the constant 0, and the several reads of one section count as
one load.  `interceptor` holds both locks, and line 291 reads `table[].f` after
it has given both back: a step of its own.  `my_syscall`'s unlocked stretches,
the look-up of the pid (line 435) and of its owner (line 208), are a step each.

*Processes.*  Each pid is a process that issues ordinary system calls
(`Dispatch`), issues commands (`MySyscall`, with any arguments of the instance,
bad ones included), exits through `exit_group`, dies without it (`Die`: `exit`
of a thread, or a fatal signal) and comes to life again under the same pid
(`Spawn`), which keeps its owner.  System calls numbered 1 to `NR_syscalls - 1`
are dispatched; `my_syscall` also accepts `NR_syscalls`, one past the kernel's
table, whose word is modelled as a value no dispatch ever reads.

*Kernel services.*  Spinlocks are a holder or nobody.  `kmalloc` may fail at any
time, and must fail in the model when a list is longer than `MaxListcount`.  It is
called with `GFP_KERNEL` (line 99) and may sleep before it answers, although each
of its callers holds `pidlist_lock` (lines 475, 487, 575): a process is `Allocating`
as long as it is at such a step, and nothing makes it take the step.  A
NULL dereference (`check_pid_from_list` when the target is gone, a call of a
NULL `f`) is an oops: it ends the process that does it.  `log_message` is the
flag `logged`.

*Data.*  A list is a bag of pids, a function pointer a number: the kernel's
function for slot s is s, the module's own three and NULL are negative.  The
order of a list is left out: lookups and deletions compare pids only, and copies
of a pid are alike.

### Loading and unloading

`InterceptorLifecycle` puts `init_function` and `exit_function` around the steps of
`Interceptor`: `phase` is how far they have come, and each of their locked
sections is a step that waits for its lock.  The kernel's table outlives the module;
`table` and the locks are its memory, fresh at each load and gone after `Free`.
`insmod` and `rmmod` belong to root, who gives no commands meanwhile; the other
users' commands and everybody's calls, exits and deaths go on.  A process that
exits before the lists are initialised follows a NULL link inside
`pidlist_lock` (`Oops`: nobody ever gives that lock back), and one that is in the
module's code when it is freed, or is sent there by a slot that still points to it,
is `Lost`.  `CarefulNext` is the administrator who avoids both: no process
exits during the load, no command runs when `rmmod` begins, and the module is
freed when nobody is in its code.  Calls caught before their slot is restored and
returning after it, exits during the unload, and commands that have just
ended stay.

### Memory simulator

One step of `PageTable` is one line of the trace: `access_mem` with all it
calls.  The replacement policy is a parameter of `Replace` and `SwapExhausted`:
the frame it returns and the page tables after it.  `PageTable`'s own `Next` lets
it return any frame and clear reference bits of any pages in memory, so what
holds of `Spec` holds under every policy that does no more than that; that the
policies of the repository do no more is `AnyPolicy`, checked in the run
`policies`.

*Addresses* are pairs of a directory and a table index: the traces are
page-aligned.  *Contents* of a frame are what `init_frame` and `access_mem` put
there: the address and the version.  The entries of a second-level table that
does not exist yet have no meaning; `Tables` makes them fresh when the reference
that allocates the table arrives, as `init_second_level` does.  *Swap offsets* are slot
numbers, `INVALID_SWAP` is -1.  Memory that `malloc` leaves uninitialised
is never read before `init_frame` writes it.  `MemSize` is at least 1.

*The branch that is never taken.*  `find_physpage` reads a page back from swap
when `PG_ONSWAP` is set, which nothing ever sets.  `Place` has the branch all the
same, with `swap_pagein`'s result becoming the entry's `swap_off` and the read
going to the frame the entry had before, as in the code; the theorem
`NeverMarked` shows that it is dead.

*Failures.*  The swap file running full is `SwapExhausted`, which ends the
program.  Failures of `malloc` and of file operations print and exit or are
ignored; they are not modelled.

*Policies.*  `Lru` keeps both links of every frame, with the five cases of
`lru_ref` and the two of `lru_evict`; `Clock` counts the steps
that the loop of `clock_evict` makes and what it clears on the way; `Fifo` the counter; `Rand` any frame.  `Opt` is the simulator on a trace file:
`opt_init` records an address for every line, also for the lines `replay_trace`
skips (`Banner`), for which `sscanf` leaves the last address in place; `opt_ref`
moves the page in the list kept by next use.  The hash table of nodes is a node
per address.  Where `opt_ref` reads through a node it has freed, the
memory reads as before or has been written to by then: the second is `wild`,
which ends the behaviour.  A history (`used`, `since`, and
`passed` for the hand of the clock) records when things happened; no action reads
it, the properties compare victims with it.

### EXT2 tools

One step is one run of a command, a function from the image it finds to the
image it leaves and the value it returns.  Its early returns are in the order of the
code, and a command that fails half way leaves what it has changed by then.
Commands run one at a time, and to their end: the tools map the image shared,
lock nothing and say nothing of two at once.

*The image.*  Bitmaps are the sets of their set bits, beside the counters (superblock
and group descriptor hold the same ones and are always written together).  An
inode has its mode, link count, block numbers and, for a file, its size in blocks; times
and `i_blocks` are left out.  A block is read in two ways: as the sequence of
directory entries it holds (`data`, `<<>>` for other bytes) and as block numbers
(`word`, `Junk` for bytes that are none).  A freed block keeps its contents, and a
block that becomes an indirect block keeps the words the new file does not
reach, as in the code, which never clears one.  Block 0 is the boot block,
which mkdir overwrites when the disk is full.  A symbolic link's target is kept
with its inode instead of in its block.  The first image is a fresh one with
`lost+found` removed.

*Files.*  `Size` is in half blocks, so that a size may or may not be whole
blocks.  `Direct` slots, then one indirect block of `Ptrs` numbers: 12 and 256
in the code, on images of 128 blocks (`read_image` maps no more), which is
the assumption `Cardinality(Block) <= Direct + Ptrs`.  What needs a double indirect
block needs more blocks than there are, and `have_enough_blocks` refuses it: the
loops for the double and triple ones in `ext2_cp.c` and `ext2general.c` are never
entered, and `EstimateHolds`, proved, says so.

*Entries* keep `rec_len`, so that the room in a block is computed as in
`allocate_space_in_block`, with its rounding of two lengths together, and names
have lengths: a freed entry is reused when it is long enough for its old name,
and the new one may overrun it.  That overrun is the end of a behaviour of `Ext2`
(`Legible`: what is read from then on is the bytes of two entries over each other),
and careful callers do not meet it (`Fits`).  A hard link in a
fresh block, whose `name_len` is never written, has its own name or `"?"`,
by the length of what the block held (`StaleName`).

*Undefined behaviour.*  The buffer that `ext2_cp.c:109` appends to is not
initialised: `seen` is whether the path in it leads to the file that is there.
`ext2_ln.c:55` sizes a buffer by the length of the source path, and lines 77 and 103 copy
the destination's directory and the destination into it: a longer destination overruns the stack.  That is not
modelled: the model's destinations fit, or their overrun hits nothing.  Nor is
the terminating zero for which `char buf[strlen(path)]` has no room, there and at `ext2_cp.c:71`,
`ext2_mkdir.c:29`, `ext2_rm.c:181`, `ext2general.c:152` and `348`: it is taken to fall into the array's padding.
`ln -s` into a directory other than the root computes an address beyond
the image (`ext2_ln.c:185`): the result is `"crash"`, with inode and block taken.

*Not entered.*  Paths that lead through a file (`Walkable`), whose bytes would
be read as entries; an indirect block that ends in the bytes of another file, or
a directory overwritten whose entries would be freed as block numbers (`Followable`); `rm -r` of a directory with a non-empty subdirectory
(`Shallow`): line 128 of `ext2_rm.c` appends a name that is not terminated, so
what the subdirectory's files are looked up under depends on the bytes after it.

*Careful callers.*  `CarefulNext` leaves out what the tools are known to get
wrong, each in the guard of its action: mkdir with one block left and a parent
that needs one; a parent with neither room nor slot; a freed entry too short for the
new name; cp over a directory, over a
file with other links, or over one it fails to see; a file whose indirect block is
left with old numbers beyond its end; hard links to symbolic
links or into a fresh block; `ln -s` outside the root directory or to a path longer
than a block.  Everything
else stays, full disks included.

## 3. Runs

| run | instance | properties | what it shows |
|---|---|---|---|
| `concurrent` | root and a user, slot 1, all commands, 2 in flight | `TypeOK`, `LockDiscipline`, `HookIntegrity`, `FlagFollowsHook`, `ListedIsCounted`, `OwnersOnly` | no interleaving of sections leaks a lock, loses a function or undercounts a list; users touch their own processes only, but for line 494 with an outdated mode |
| `turns` | one command at a time on `exit_group`'s slot, bad arguments too, with fairness | `ImplementsMonitor`, `AcksAreTrue`, `CallReturns` | callers that take turns see `Monitor`; a command that returns 0 has done its work, but for a first START whose pid exits in its gap; as long as allocations end, every call returns or ends its process |
| `lifecycle` | two loads, root and a user, slots 1 and the last one | `UnloadRestores`, `NobodyEnters`, `CaughtGoOn`, `ListsFreed`, `LoadedAsAssumed` | unloading gives back slots and lists under calls in progress and leads no new call into the module, and a load establishes what the other runs start from |
| `paging` | 4 pages in 2 tables, 2 frames, 2 slots, 6 references | `TypeOK`, `FrameOwnership`, `SlotsPrivate`, `AddressChecks`, `ExitsWhenSwapIsFull`, `EvictionSaves`, `ImplementsDemandPaging` | page tables, coremap, memory and swap agree under every policy |
| `policies` | 5 pages, 3 frames, 3 slots, traces of 7 lines | `EvictsOldest`, `SecondChance`, `ListIsRecency`, `EvictsLeastRecent`, `EvictsFarthest`, `MissesLeast`, `AnyPolicy` | each policy evicts what its name says, and opt misses as seldom as any could |
| `ext2_careful` | 2 inodes, 3 blocks, 2 names, paths of 2, files of 0 or 1 block | `TypeOK`, `MapsTellUse`, `CountersAgree`, `LinksCounted`, `BlocksFilled`, `SaidIsDone`, `ImplementsFileTree` | careful callers get what `FileTree` says: each command works at the path it was given or not at all; and the image stays consistent |
| `ext2_flat` | 2 inodes, 5 blocks, a long and a short name in the root, files of 1, 2, 3 and (too large) 5 blocks | `MapsTellUse`, `BlocksFilled`, `FilesWhole`, `EstimateHolds`, `ImplementsFileTree` | what the estimate allows, the copy takes and the removal gives back are the same blocks; names of two lengths share a directory |
| `claim_saved_original` | two roots | `SavedIsOriginal`, violated | finding 1 |
| `claim_users_own` | root and a user, INTERCEPT and START, 2 in flight | `UsersTouchOwn`, violated | finding 5 |
| `claim_unload_restores` | one process, one load | `ExitGroupRestored`, violated | finding 2 |
| `claim_readback` | 2 pages, 1 frame | `SwapIsReadBack`, violated | finding 3 |
| `claim_frees_own` | files of 1 to 3 blocks, no other command | `FreesOwn`, violated | finding 4 |

*Bounds.*  Slots of the interceptor do not interact but through the locks and
`del_pid`, so commands name one slot, beside `exit_group`'s, which has
another function underneath.  Two processes are two kinds: root and a user, each
of whom may be the caller, the target or the one that exits.  Two commands in
flight with calls and exits beside them give every pair of critical sections.
`MaxListcount` of 1 or 2 lets lists be non-empty, doubly counted and doubly
listed.  Two frames and two slots for four pages make every page leave and come
back, to the same slot, and let swap run out; two directory entries let a table
appear while pages of the other are in memory.  Three frames for the policies
are the least with a middle of lru's list, and five pages on a trace of seven lines
let opt evict twice with its choice mattering.  `MaxRefs` bounds the trace and with
it every counter.  The module is loaded twice, so that a load meets what an
unload left; its commands name an ordinary slot and the last one, which the loops of
`del_pid` and `exit_function` treat differently.  `CHECK_DEADLOCK FALSE` in the memory runs: the trace ends, and
`exit(1)` stops the program; and in `claim_unload_restores`, where a lost lock stops
everybody.  The interceptor's other runs check for deadlock.

The EXT2 runs have no bound on the number of commands: they visit every
image that careful commands can make.  In `ext2_careful` the root's first block has room for
one entry and any other block for two, so directories grow by a block; two
inodes make a directory with a file, a nested directory or a file under two names; three
blocks run out at each of the places that take one.  In `ext2_flat` there is one
direct slot, so a file of two blocks takes an indirect block with one word used and one
of three blocks two words, and the two cannot both be there; the lengths of the
names, 5 and 9, round to different entries, of which 60 bytes hold the directory's own
two and one or two more.

*Symmetry.*  `MCSymmetry` permutes directory and table indices, which the code
only compares, in the run `policies` pages, and in `ext2_careful` names of one length; no
run with symmetry has a liveness property.  Pids are not symmetric: one is root's.

*View.*  `did` only tells `ImplementsFileTree` and `SaidIsDone` which command a step was.  The EXT2 runs identify
states that differ in it alone (`MCView`): no action reads it, no invariant names it, and the
two action properties read its new value only, on every step TLC makes, those that
lead to a state seen before included.

*Fairness.*  `FairSpec` of `Interceptor` has weak fairness of each process's next
step in the kernel unless it is `Allocating`, and strong fairness of taking each
lock, since the kernel's spinlocks are ticket locks: whoever waits is served in turn,
though others take the lock in between.  Outside `kmalloc` the functions call
nothing that sleeps, and a process that runs kernel code goes on.  In `kmalloc(GFP_KERNEL)` (line 99) it
may sleep for memory, with `pidlist_lock` held; everybody else then spins for
the lock, and may do so on every processor, so that neither the memory nor a processor for the
sleeper is certain to come.  There is no fairness for that step: `CallReturns` says that
calls return *as long as allocations end* (`AllocationsEnd`), and without that premise it is
false.  Nothing makes a process issue a call, die or start.  `FairSpec`
of `PageTable` says that the trace is read to its end.

*Single root.*  `HookIntegrity` and `FlagFollowsHook` are about instances
in which at most one process can INTERCEPT and RELEASE (`SingleRoot`).  With two the
first is false: that is finding 1.

*Taking turns.*  `MaxInFlight = 1` lets a command begin when no other is under
way, while calls, exits and deaths go on.  It is a condition on the callers: nothing
in the code makes them take turns.  With overlapping commands `AcksAreTrue` and
`ImplementsMonitor` do not hold: see "also seen".  Even in turns two commands are not one change.  START of all
processes empties the list at line 427 and sets the mode at line 430, and in between
nobody is watched, not even those who were before: `Monitor` has two steps for it, `Empty`
and `Fill`.  The first START of a system call lists its pid at line 487 and switches the mode on at line 494
(`Take`, `Finish`); a pid that goes through `my_exit_group` in between
is taken off the list again, and lives on, because `orig_exit_group` is slot 0's
function.  START then returns 0 with its pid unwatched, the one exception in
`AcksAreTrue`.

`OwnersOnly` is about any number of commands in flight and is checked with two.  It has one exception too,
line 494 when what line 446 read is no longer so (`Outdated`); finding 5 is that
exception, and `UsersTouchOwn` is the property without it.  `CallReturns` holds with two
overlapping commands as well; it is checked in turns, where the instance is smaller, and
`LockDiscipline`, proved, excludes a deadlock of locks for any number of commands.

## 4. Findings

1. *Two INTERCEPTs save the interceptor as the original* (`interceptor.c:367`).
   The test of `intercepted` and the save are in different sections.
2. *The original `exit_group` is never saved* (`interceptor.c:621`):
   `orig_exit_group` is read from the slot of `MY_CUSTOM_SYSCALL`, so no
   `exit_group` reaches the kernel's, and unloading leaves another function in its
   slot.
3. *Pages never come back from swap* (`pagetable.c:169`): `PG_ONSWAP` is never
   set; an evicted page is zeroed on its next reference, and `evict_clean_count`
   stays 0.
4. *rm frees blocks of other files* (`ext2_cp.c:180`): cp does not clear the words
   of an indirect block that it does not write, and freeing goes through all of
   them.
5. *A user's START undoes root's START of all* (`interceptor.c:494`).  A user's first
   START of its own pid reads mode 0 (line 446) and lists the pid; root's START(0) clears the list and sets the
   mode to 2; the user's line 494 sets it to 1 over the empty list, and root's
   processes are watched no more.

Also seen while modelling, with no run of its own: a list that runs empty by exits
stays monitored, since `listcount` goes up by two for each entry and down by one
(`interceptor.c:479`), and the last slot is not scanned when a process exits
(line 154), both against the comments there; a process that exits while the module is
being loaded dies with `pidlist_lock` held; an `exit_group` that was intercepted
is put back to the module's own function by the unload (line 675); a START whose target exits
between the look-up and `add_pid_sysc` lists a dead pid; two overlapping STARTs
with `monitored = 0` list a pid twice, and one STOP then removes one of the two;
START and STOP that overlap a change of mode act on the mode they read before,
and report success for the opposite of what they did; a START that overlaps a
RELEASE leaves a released slot monitored, for whoever intercepts it next.
The cases that `CarefulNext` leaves out lose files, names or blocks: mkdir that finds no slot left
in the parent returns `ENOSPC`, clears the wrong bit of the block bitmap (`ext2_mkdir.c:122`) and keeps two
blocks, where the comment of line 121 says "need to roll back"; mkdir on a disk with
one block left returns 0 and makes no directory; after cp over a file with
two links, removing one frees the file under the other; ln through a symbolic link
counts the link at the file and names the link; rm never gives back a
directory's emptied block, since it looks at the first one only; `ln -s` with a path longer
than a block keeps its inode and block (`ext2_ln.c:211`); the loops for double and triple
indirect blocks, which `INFO.txt:13` and `17` call tested, are never entered; opt counts the lines that
the simulator skips as references (`opt.c:239`) and reads nodes it has freed (`opt.c:104`).

## 5. Proofs

Proved by TLAPS for all values of the constants that the named assumptions
(`ConstantsAssumption`, `LoadsAssumption`, `PagingAssumption`, `TracesAssumption`, `DiskAssumption`,
`SizeAssumption`, `CarefulAssumption`) admit, and under the hypotheses in the table: any number of
processes, system calls, loads, pages, frames, slots, lines of the trace, inodes and blocks.

| theorem | states |
|---|---|
| `Interceptor_proofs!TypesCorrect` | `Spec => [](TypeOK /\ ArgsChecked)` |
| `Interceptor_proofs!LocksGivenBack` | `Spec => []LockDiscipline` |
| `Interceptor_proofs!HooksIntact` | with `SingleRoot`, `Spec => []HookIntegrity` |
| `Interceptor_proofs!MarksFollowHooks` | with `SingleRoot`, `Spec => []FlagFollowsHook` |
| `Interceptor_proofs!CountsCoverLists` | `Spec => []ListedIsCounted` |
| `Monitor_proofs!MonitorImplemented` | with `MaxInFlight = 1`, `Spec => ImplementsMonitor` |
| `Monitor_proofs!AcksHold` | with `MaxInFlight = 1`, `Spec => AcksAreTrue` |
| `Monitor_proofs!OwnersAlone` | `Spec => OwnersOnly` |
| `Lifecycle_proofs!UnloadPutsBack` | with `SingleRoot` and `ExitGroupSpared`, `CarefulSpec => []UnloadRestores` |
| `Lifecycle_proofs!UnloadClosesDoor` | the same, `CarefulSpec => NobodyEnters` |
| `Lifecycle_proofs!CaughtCallsGoOn` | the same, `CarefulSpec => []CaughtGoOn` |
| `Lifecycle_proofs!UnloadFreesLists` | the same, `CarefulSpec => []ListsFreed` |
| `Lifecycle_proofs!LoadsIntoInterceptor` | the same, `CarefulSpec => []LoadedAsAssumed` |
| `PageTable_proofs!PagingCorrect` | `Spec => []PagingInv`, the inductive invariant |
| `PageTable_proofs!TypesCorrect` | `Spec => []TypeOK` |
| `PageTable_proofs!FramesOwned` | `Spec => []FrameOwnership` |
| `PageTable_proofs!SlotsStayPrivate` | `Spec => []SlotsPrivate` |
| `PageTable_proofs!AddressesCheck` | `Spec => []AddressChecks` |
| `PageTable_proofs!NeverMarked` | `Spec => []NeverOnSwap` |
| `PageTable_proofs!EvictionsSave` | `Spec => EvictionSaves` |
| `PageTable_proofs!ExitsOnlyWhenFull` | `Spec => []ExitsWhenSwapIsFull` |
| `PageTable_proofs!DemandPagingImplemented` | `Spec => ImplementsDemandPaging` |
| `Policy_proofs!FifoEvictsOldest` | `SimSpec => EvictsOldest` |
| `Policy_proofs!LruEvictsLeastRecent` | `SimSpec => EvictsLeastRecent` |
| `Policy_proofs!LruListIsRecency` | `SimSpec => []ListIsRecency` |
| `Policy_proofs!ClockGivesSecondChance` | `SimSpec => SecondChance` |
| `Policy_proofs!OptEvictsFarthest` | `SimSpec => EvictsFarthest` |
| `Policy_proofs!OptIsOptimal` | `SimSpec => []MissesLeast` |
| `Policy_proofs!PoliciesConform` | `SimSpec => AnyPolicy` |
| `Ext2_proofs!CountersStayRight` | `Spec => []CountersAgree` |
| `Ext2_proofs!CopyIsCovered` | `Spec => []EstimateHolds` |
| `Ext2Careful_proofs!CarefulTyped` | `CarefulSpec => []TypeOK` |
| `Ext2Careful_proofs!MapsStayTrue` | `CarefulSpec => []MapsTellUse` |
| `Ext2Careful_proofs!CountsStayTrue` | `CarefulSpec => []LinksCounted` |
| `Ext2Careful_proofs!BlocksStayFilled` | `CarefulSpec => []BlocksFilled` |
| `Ext2Careful_proofs!CopiesAreWhole` | `CarefulSpec => []FilesWhole` |

*Interceptor.*  `TypeOK` is not inductive: that a command indexes `table` within
bounds depends on the checks before the first lock, so `TypeInv` adds
`ArgsChecked`, what holds of the arguments at each label.  `LockDiscipline` is
inductive relative to it: a process at a label outside every section holds no
lock.  `HookIntegrity` needs `FlagFollowsHook`: INTERCEPT may overwrite `f` only
because the mark it tested, in another section, tells that the slot is not
hooked, and the mark tells that only because a single root can be between the
sections; and `FlagFollowsHook` needs `HookIntegrity` for what RELEASE restores.
The two together are `HookInv`; what they need of a single root is
`AloneInRoot`, which callers that take turns give as well.

`ListedIsCounted` is not inductive: `listcount` goes down by one for a pid that
may be listed twice, and it covers the list only because it went up by two for
each entry.  `AllCountedTwice` says `listcount >= 2 * Entries(e)`, with the entries
counted as often as they are listed; the lemmas on the list operations add and take
away one term of that sum (`Sums_proofs`).

*Callers that take turns.*  A command still reads under one lock and acts under another,
and exits and other calls run in between.  `TurnInv` says what each label may rely on
(`Stage`): after the test, `intercepted` stays 1; the mode read by START and STOP
stays as it was; a list found empty stays so, since exits only take pids away.
With that, each step is a step of `Monitor` or a stutter (`MonitorImplemented`), and one of the
command that takes it, since `Monitor` keeps what each process has asked for and how far that has
come (`Progress`).  The same case analysis gives the answers, at every return of 0 (`AcksHold`).
Without `MaxInFlight = 1` both are false ("also seen").

*Whose processes.*  `OwnersAlone` needs no turns.  Past the owner check a START or STOP of an ordinary
user is about a process of the same owner (`Permitted`), and neither it nor an exit changes
the standing of another one: it adds or deletes that one pid, and the deletion does not
stop the monitoring of the others by bringing `listcount` to zero, by `AllCountedTwice`.
Line 494 alone writes a mode, and is the exception when the mode is out of date.

*Loading and unloading.*  `LifeInv` has a part for each phase.  `Starting`: nothing is
marked, so no command gets past its first test.  `Running`: `HookInv`, and
the module's own two slots.  `Leaving`: what is hooked is marked and has its function saved
until `exit_function` comes to it, what is behind `i` is restored and has no
list, and everybody in the module's code is in a call that will go on to the kernel's
function.  Once `exit_function` has returned no slot leads into the module, so that
whoever is inside was inside before: `UnloadClosesDoor`.  `ExitGroupSpared` says that nobody intercepts `exit_group`.  It is needed:
with `exit_group` among the targets TLC finds an unload that writes the saved
`my_exit_group` back over the slot it has just restored (line 675), and the
next call enters freed code; that is why `lifecycle` intercepts other slots.

*Page tables.*  The conjuncts of `PagingInv` need each other: the victim is found through
the coremap (`FrameOwnership`), its slot is its own (`SlotsPrivate`), the branch
that would read a page back into the wrong frame is never taken
(`NeverOnSwap`), and a table that is allocated late overwrites nothing
(`NewTablesFresh`).  A step is reduced to one of two shapes: frames and slots
untouched (`Undisturbed`: `Hit`, `SwapExhausted`), or a page put into a frame
that is free or has just been emptied (`PlacedKeeps`: `Fill`, `Replace`).
`EvictionsSave` is an action property, proved action by action from the
invariant.  `ExitsOnlyWhenFull` counts: the slots are in bijection with
the pages that own one.

`DemandPagingImplemented` is the refinement: initial states map to initial
states, and each action to one of `DemandPaging` (`HitCounts`, `FillCounts`,
`ReplaceCounts`, `ExitCounts`).  The code tests for a free frame where
`DemandPaging` compares the size of the resident set with `MemSize`;
`MemoryFull` shows that the two agree, since by `FrameOwnership` the frames of the
pages in memory are an injection into `Frame`, and onto it exactly when none is free.

*Policies.*  Each has an invariant that ties what the policy keeps to the
history, together with `PagingInv`; it holds while the simulator runs the policy
(`evict_fcn`) and has not exited.  `FramesInTurn`, of fifo: the frames are filled in
order, and from the one after `evict` round to `evict` their pages are in order of
arrival (`NoEarlier`); `fifo_evict` names the first.  `LinksOrdered`, of lru: each
frame's `previous` was used earlier and leads back by its `next`, and the other
way round; so a frame with the least `used` has none before it and must be the head
(`HeadIsEarliest`), without a walk along the list.  One lemma for each piece of
pointer surgery keeps it: `HeadUnlinked`, `HeadUnhooked`, `MiddleUnhooked`,
`AppendedOrdered`, `TailUsed`; `OnlyFrame` justifies the test by which `lru_ref` takes the only frame
of the list for a new one.  `ListIsRecency` does walk along the list, and follows from
the same invariant: of the frames used after f, f's `next` is the first
(`NoneBetween`), so that a walk from the head meets them all in order
(`WalkMeets`, `WalkInOrder`).  `BitsTellUse`, of clock: a page's reference bit is set exactly
when the frame was used since the hand passed; `SweepStops` says where the loop ends.

*Opt.*  `OptLists` says that the list has each page in memory once, with its frame, in
the order of their next uses (`Ordered`); an insertion before the first that is not
needed later keeps that (`AddedInPlace`), and the list's head is what leaves
(`HeadIsFarthest`).  When no line of the trace is skipped (`Plain`), the occurrences that are left of
each page are its lines from `position` on (`Follows`), so that the head
is the farthest: `OptEvictsFarthest`.

`OptIsOptimal` is Belady's theorem for this program: at the end of a plain trace opt has missed as often
as the cheapest choice of victims would have, `Least` being the cost by dynamic
programming over the sets of pages that may be in memory.  The invariant,
`NoneLost`, is that the misses so far and the least number to come always add up to the
least number from the start.  A hit or a free frame keeps it by the definition of `Least`; an eviction
by the exchange argument, `FarthestIsBest`: of two sets that differ in one page,
the one whose page is needed sooner costs no more (`SoonerCostsLess`), and a page
more saves one miss at most (`SavesOneAlways`).

`PoliciesConform` shows that a step of `Sim`, with any policy, is a step of `PageTable`'s
`Next`, which turns the theorems of `PageTable` into theorems of the simulator.

*Recursion.*  A walk along a list, a sum over a set and the cost of the rest of a trace are
recursive functions here, and what they compute for every argument is proved by
the least counterexample: a set of naturals that is not empty has a least member
(`Smallest`, from the well-foundedness of `<`), and at the least argument at which the
statement fails it holds just below.  The functions' existence is proved in the same way
(`SumsUpTo`, `WalkUpTo`, `LeastsUpTo`).  For this `Least` and `Replayed` are
functions of a number, the latter by counting the lines that are not skipped.

*EXT2.*  `CountersAgree` is proved of `Ext2!Spec`, where every command may be
given anything, and not only of the careful callers of the run.  The invariant
is `Counted(disk)`: the bitmaps lie within the image and have the counters'
cardinalities.  A lemma for each operator a command is built from shows that it
keeps `Counted`, the one that clears bits for any set of bits
(`CardinalityOfFreed`); the lemma of a command lists its returns and applies
these.  The wrong bit that a failing `mkdir` clears is thus covered: the image
loses a block, the counters still agree.  `CopyIsCovered` needs that
invariant, since the estimate reads the counter and the copy the bitmap; the rest is
the arithmetic of halves in `HalfBlocks` and the three branches of the estimate in
`EstimateCovers`, with `Cardinality(Block) <= Direct + Ptrs` for the last.

*EXT2, careful callers.*  None of the other properties of the image is inductive alone: a
block may be written because no inode that a path leads to has it, which is so because
an inode is freed only when its last entry goes, which is so because link counts are
right, which needs entries that are where the walk of a directory finds them.  The
invariant is `CarefulInvariant`, whose part `Image(disk)` has five conjuncts:
`Typed`, with entries that fill their block; `Owned`, each marked block is in one slot or word of
one marked inode; `Shaped`, what slots and words an inode of each kind uses, and that a
directory's first two entries are "." and ".."; `Linking`, every marked inode but the root has an
entry, as often as its links count, a directory just one and there its ".." leads back; and
`Reached`, a path to every directory.

Within a command the image is not whole: an inode is marked and counted before it has its name.
`Linking(d, o)` and `Sound(d, o)` therefore name the one inode `o` that is so, and
each command is a chain of few steps: take (`OwnTakes`, `LinkTaken`), give the name
(`AddedSound`, `LinkNamed`), or give back (`TakenBack`).  `EntryAdded` and `BlockAdded` are the two ways
to get a name; `GoodAdded` is the arithmetic of `rec_len`.  The copy takes its blocks in
the order of their numbers, so the block in a slot or word of the new file is found by its rank
(`Ranks`, `PlaceFacts`), which shows that no two are the same (`WrittenIs`).  For
`rm` all that goes is described first (`Uprooted`): one entry, or that of a directory with
all entries in it; the proof that what is left is an image (`CutImage`) counts the names of each inode on
both sides (`CutCount`).  Paths are walked by a recursive function; `PathStep` and `PathsKept` say that a
path still leads where it led when all entries on its way stay.

`CarefulAssumption` is what the fields of the image allow: a name of 255 characters fits
in a block of 1024, and 128 blocks have no room for more than 16384 entries, so that
`i_links_count`, of 16 bits, never wraps.

The proof found one thing that the runs were too small for.  When a copy has written its
blocks and then finds none for the directory's entry, it frees them again, through all words of its
indirect block: the old numbers beyond its end, in a file that never got a name, free blocks of other files.
`CarefulCp` therefore asks for an indirect block without old numbers in the copy that is
taken back too; this is finding 4 by another way.

*Model-checked only.*  `CallReturns`: liveness and fairness are beyond the prover.
`SaidIsDone` and `ImplementsFileTree`, which speak of paths: proving them takes, beyond
the invariant above, that two paths to one directory are the same and that each
command changes the end of one path only.

## 6. Not modelled

In EXT2: what an entry that overruns the next one reads as, and other bytes read as
block numbers (a behaviour ends before them); double and triple indirect blocks, which
no image that the tools map can have; the limits on the length of names
(`ENAMETOOLONG`, beyond a thousand characters); a destination of ln longer than its
source (a stack overrun); paths with a trailing slash or with "." or ".." among their components, which
`last_slash_in_path` (`ext2general.c:133`) and `find_file_name_by_path` (line 296) treat in ways
of their own: a path in the model is a sequence of plain names; overlapping commands; `rm -r`
below the second level; and the read-only `ext2_ls` and `readimage`.  In the
simulator: the trace programs, which make the input; file and
memory errors; the printing of tables; lines of a trace longer than the 19
characters that `opt_init` reads at a time; and `bitmap_mark`, `bitmap_unmark` and
`bitmap_isset`, which nothing calls.  In the interceptor: the test programs, and the
write protection of the kernel's table (`set_addr_rw`), whose pages no other
code of the module changes.

## 7. Plan

Done: the interceptor with its life cycle, the simulator with all five policies, the EXT2 tools
with every kind of block their images can have; proofs of every safety property and refinement of the first
two, and of every invariant of the third.  What is left, in this order:

1. Proofs of what careful callers of the EXT2 tools are promised, `SaidIsDone` and `ImplementsFileTree`, from
   the invariant of the image.
2. EXT2 commands that overlap: the image is mapped shared and nothing locks it.
