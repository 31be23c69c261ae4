# kernix in TLA+

A TLA+ model of kernix, a 32-bit multiboot hobby kernel (`src/`), with TLC
configurations that model-check it on small instances and TLAPS proofs of its
most important properties for every size of its tables and buffers.

## 1. The system

kernix boots through multiboot (`kernel_entry.asm`), sets up paging, a heap,
the GDT and TSS, the IDT, PIC and PIT, the keyboard and the screen
(`kernel.cpp:128-160`), and then runs one foreground loop, `kernel_shell_loop`,
for ever. Everything runs in ring 0. Concurrency comes from two interrupts, the
timer (IRQ0) and the keyboard (IRQ1), that preempt the foreground between any
two instructions while interrupts are enabled, and from the processor's
translation cache and the CRT controller, which keep state of their own.

| Component | State | Operations | Talks to | What is hard | What makes it correct |
|---|---|---|---|---|---|
| paging (`memory.cpp:28-126, 279-304`) | page directory, pool of page tables, which of them are used; the processor's cached translations | `paging_init`, `map_page`, `unmap_page` | heap growth, the processor | tables come from a fixed pool and running out is silent; cached translations go stale | a page table serves one directory entry; the cache agrees with the tables; the two levels behave as one flat map |
| heap (`memory.cpp:19-26, 128-277, 306-502`) | linked list of block headers in the memory they describe, end of the mapped heap, next frame | `kmalloc_init`, `kmalloc`, `kcalloc`, `krealloc`, `kfree`, `ksize`, statistics | `map_page`, every caller | four links per operation, headers that stay readable after they were absorbed, growth that stops part of the way, 32-bit sums | blocks tile the heap, the client's memory never overlaps, double frees are rejected, no byte is lost |
| keyboard (`keyboard.cpp`) | ring buffer and its two indices, shift flag, 0xE0 flag | `keyboard_handle_scancode` (IRQ1), `keyboard_available`, `keyboard_getchar` | IRQ handlers, shell loop | producer in an interrupt, consumer preempted between reading a slot and giving it back, check-then-halt | the shell gets the characters typed, in order, and does not sleep on one |
| interrupts (`interrupts.cpp`, `interrupts_entry.asm`) | tick counter, IDT, PIC and PIT programming | IRQ0 and IRQ1 handlers, exception handler, stubs | keyboard, screen, tasking | an interrupt that is not ended blocks the rest; stack offsets by hand | lines are ended; the interrupted code finds its registers and stack; exceptions are reported as raised |
| vga_buffer (`vga_buffer.cpp`) | 80x25 cells, position, cursor visibility, last blink | `putchar`, `print`, `clear`, `sync_cursor`, `set_cursor_visible`, `tick` (IRQ0) | CRT controller | index and data ports shared with an interrupt handler; the tick counter wraps | text lands where the cursor is, the hardware cursor follows, blinking goes on |
| syscalls (`syscalls.cpp`, `syscall_stub`) | none of its own | 14 numbers through `int 0x90` | heap, keyboard, screen, shell | register juggling in assembly, a trap gate that leaves interrupts enabled | the call does what its number says, the caller gets the answer and its context back |
| tasking (`tasking.cpp`) | task table, current task, two flags | `tasking_init`, `task_create`, `tasking_start`, `tasking_schedule` (IRQ0) | heap, IRQ0 stub | table read by an interrupt while it is written; the bootstrap context is abandoned | round robin, each task resumes on its own stack |
| shell (`kernel.cpp:86-126`, `shell.cpp`) | the line being edited | line editor, command dispatch | keyboard, screen, all modules | the editor and the screen must agree on what a backspace takes back | the line submitted is the line shown |
| calc (`calc.cpp`) | none | expression evaluation, fixed-point functions | shell | overflow, division, loops that depend on their input | agrees with arithmetic where it does not overflow |
| boot and gdt (`kernel.cpp:128-160`, `gdt.cpp`, `kernel_entry.asm`) | GDT, TSS, stack | initialisation | all | order of the steps; the boot stack; clearing of .bss | each step finds what it needs set up |
| string (`string.cpp`) | none | `strcmp`, `find_space`, `strlen` | shell | - | as usual |
| auth, fs | - | - | - | - | the files are empty |

Lines that are hard to test, one by one, are the `hazards` of `PROJECT.json`;
the properties below are aimed at them.

## 2. The modules

| Module | Role | Models |
|---|---|---|
| `PageTables` | operators on page tables as values | `alloc_page_table`, `get_page_table`, `get_or_create_page_table`, `map_page`, `unmap_page`, `paging_init`, the processor's walk |
| `Paging` | state machine over `PageTables` | callers mapping and unmapping pages, and the processor caching walks |
| `AddressSpace` | abstract specification | one flat map from pages to entries, limited only by the pool |
| `Heap` | state machine, uses `PageTables` | the allocator, growing through `map_page` |
| `HeapBounded` | assumptions on `Heap`'s constants | requests whose 32-bit sums do not wrap, limits at page boundaries, a pool of page tables that covers the heap |
| `Allocator` | abstract specification | what an allocator promises its client |
| `Keyboard` | state machine | keyboard, controller, PIC, both handlers, ring buffer, `keyboard_getchar` |
| `TypeAhead` | abstract specification | a queue of the characters typed |
| `Screen` | operators on the screen as a value | `putchar`, `clear`, scrolling, backspace |
| `Cursor` | state machine over `Screen` | the foreground's port accesses against the timer's blink |
| `Syscalls` | state machine | wrappers, `syscall_stub`, dispatcher, IRQ and exception stubs |
| `Tasking` | state machine | the task table, the scheduler, `task_create` cut where a tick can come, stacks and their contexts |
| `Strings` | operators on buffers and strings | `strlen`, `find_space`, `strcmp` |
| `Calculator` | operators, uses `Strings` | the `calc` command: parsing, the four operations in int32, printing |
| `MathFunctions` | operators, uses `Calculator` | `sqr`, `pow`, `root`, `log`, `tetration`, `factorial`, `fibonacci`, the fixed-point functions |
| `Calc` | state machine over `MathFunctions` | calls of `calc_init`, all that the shell reaches, and of the other functions, and what they mean |
| `Shell` | state machine over `Screen` and `Calculator` | `kernel_shell_loop`, `shell_handle_input` and the commands |
| `LineEditor` | abstract specification | a line edited at its end |
| `Boot` | state machine | `kernel_main`, GDT, TSS and IDT, the interrupt controllers, requests and their delivery |
| `KeyboardProofs`, `PagingProofs`, `HeapProofs`, `TaskingProofs`, `CursorProofs`, `SyscallsProofs`, `ShellProofs`, `BootProofs` | theorems | section 5; `HeapProofs` takes its lemmas about page tables from `PagingProofs`, `ShellProofs` is also about `Calc` |
| `MC*` | instances for TLC | section 3 |

How state and actions correspond to the code:

* **Names are the source's** where TLA+ allows it (`g_heap_mapped_end`,
  `find_free_block`, `irq1_handler`). A capitalised action (`KMalloc`,
  `MapPage`) is a call of the operator of the same name by a client.
* **Paging.** A directory entry holds the index of its table where the code
  holds its address. `MapPage` and `UnmapPage` are whole calls, `invlpg`
  included; `request` keeps the last call with its arguments, which is what lets
  the refinement tell a call that does nothing from no call.
  `CpuCachesWalk` is the processor, which may cache any walk at any time.
* **Heap.** `blocks` is a function from the addresses where memory reads as a
  valid `HeapBlock` to that header. A header stays in it after its block was
  absorbed, as in memory, until another header or handed-out memory covers it:
  this is what makes double frees interesting. The loops over the list are the
  closure `Visited`. One call is one action, since no interrupt handler
  allocates. The client may also free or resize pointers it has freed before,
  as long as their memory has not been handed out again.
* **Keyboard.** Each interrupt handler is one action: its gate clears the
  interrupt flag. `keyboard_getchar` has five steps; an interrupt can come
  between any two, in particular between `keyboard_available` and `hlt` and
  inside `pop_char`. The physical keyboard sends one byte or, for an extended
  key, 0xE0 and one byte, per event.
* **Cursor.** `sync_cursor` and `set_cursor_visible` are cut at each port
  access and at the read of `cursor_visible`; `tick` is one action.
* **Syscalls.** The stub's instructions are grouped where registers, stack or
  the point of interruption tell the groups apart; C functions return any
  result and clobber the caller-saved registers.
* **Tasking.** A thread is what runs on one stack. `context` holds where it is
  and its locals; a saved stack pointer is a stack and a depth, and resumes the
  thread only if its context still lies there, else the processor is `Lost`.
  `task_create` has six steps, `tasking_start` three; `irq0_handler` is
  `irq0_stub`, the scheduler and the return. `misuse` notes the two things the
  code has no answer to (overlapping creations, a tick inside `tasking_start`),
  and `waited` counts the turns of others for `FairTurns`. `task_create` writes
  the slot its count names, whatever it is; `Slots` goes on behind the table, as
  far as the count can come, one slot for each stack the heap has. No code calls
  `task_create` yet; any thread may.
* **Calc and Shell.** Text is a sequence of one-character strings. A loop over a
  text is a fold or a set of positions; arithmetic goes through `Wrap`. A
  division that raises #DE is the outcome `trap`, a loop in a state it was in
  before is `hang`. In `Shell` one key is one action, `Enter` a whole command.
  A message is one word and its newline, since only their place on the screen
  matters.
* **Boot.** Each call of `kernel_main` is a step of `Code`; `gdt_init` and
  `interrupts_init` are cut at their loads and port writes. The processor
  decodes the descriptors and gates the code has encoded, byte by byte, so that
  a wrong shift is a wrong segment or a wrong address. Before `lgdt` a selector
  of the kernel's leads nowhere.

Operators named `<operator>_<Something>`, under a comment "Wrong variant", are
what that operator would be with a plausible bug. No specification uses them;
they serve to see that a property notices the bug.

## 3. The runs

Runs that pass:

| Run | Question | Bounds, and why they are enough |
|---|---|---|
| `Paging.cfg` | Do pool, tables and cache behave as a flat map? | Three directory entries against a pool of two tables, so that the pool runs out; two pages in one region and one each in the others; two frames and two sets of flags |
| `Heap.cfg` | Does every sequence of calls keep the list, the accounts and the allocator's promises? | Two pages of 8 bytes to begin with and two to grow into, header 4, alignment 2: up to five blocks, so splits, merges on both sides, growth with a free and with a used last block, growth refused at once and part of the way, and stale headers all occur. Sizes 0, 1, 5, 12: nothing, one that is rounded, one that is split off, one that needs growth |
| `Keyboard.cfg` | Does the shell get what was typed, and always eventually? | Three slots, so full is reached with two characters; both shift keys, one letter, one extended key that sends a shift code. One event is outstanding at a time, so the foreground and the timer come between any two; what is pressed meanwhile waits in the keyboard and is heard in the same order |
| `Cursor.cfg` | Is the text right, and can anything but a blink disturb the cursor? | 2 x 2 cells, so that wrapping, scrolling and backspace over a line start all happen after a few characters; a location of two "bytes" of base 2; a counter that wraps at 8 with a blink every 3 ticks, so that the wrap falls inside a period |
| `Syscalls.cfg` | Does the caller get its context back, and is an exception shown as raised? | All 14 numbers, two argument values, interrupts at every instruction, all three exceptions. Deadlock is allowed: the exception handler halts for ever |
| `Tasking.cfg` | Are contexts kept, turns fair, and the table not left, whatever a tick interrupts? | A table of three and stacks for four, so that a fourth creation is refused or overruns it; creations from the boot code and from tasks, nested and not |
| `Shell.cfg` | Is the line shown the line that runs? | Lines of up to three characters on two lines of three cells: the prompt and a full line wrap and scroll; every command name is two of three letters, with and without arguments |
| `Calc.cfg` | Are results right wherever int does not overflow? | All lines of up to five characters of seven, so that signs, blanks, each kind of operator and both limits of a five-bit int occur; all pairs of five-bit arguments; two turns of angles either way at 32 bits |
| `Boot.cfg` | Is everything set up before it is used, and is a key heard? | The kernel's own numbers; two masks the BIOS may leave, requests at every step |

What they show:

* *Heap.* `HeapInv`: some set of blocks tiles the heap, `prev` undoes `next`,
  allocated blocks are exactly the client's, large enough, and unlisted headers
  lie inside free blocks and say free. `FreedPointersRejected`: a second free
  is harmless while the memory is unused. `HeapAccounted`: no byte is lost,
  except when growth stops at the limit. `HeapPagesMapped`: every heap page is
  mapped writable to a frame of its own. `OnlyShrinkingFragments`: only a
  shrinking `krealloc` leaves free neighbours. `ImplementsAllocator`:
  refinement of `Allocator`.
* *Paging.* `TablesNotShared`, `CacheCoherent`, and `ImplementsFlatMap`:
  refinement of `AddressSpace`. The abstract map has an action for a call that
  maps its page, one for a call that unmaps it and one for a call that is
  refused, the last only if as many directory entries are backed as the pool has
  tables. A call shows in `request`, so it cannot pass for a stuttering step:
  running out of tables is the one way `map_page` fails silently.
* *Keyboard.* `TakenIsOldest`, `PrefixTracked`; `ShiftNeverStuck`: with every
  shift key up, no character is shifted; `ImplementsTypeAhead`: refinement of
  `TypeAhead`, which leaves open only whether shift goes on when one of two shift
  keys comes up; `WaitingIsTaken` and `EventsAreHeard`: liveness.
* *Cursor.* `NothingAfterCursor`, `DisturbedOnlyByBlink`, `BlinksForever`.
* *Syscalls.* `CallerContextKept`, `ExceptionReported`.
* *Tasking.* `NeverLost`: no stack pointer but a thread's last is ever resumed.
  `EveryTaskKept`: one slot for each task. `StaysInTable`: only overlapping
  creations leave the table. `FairTurns`, `EveryTaskRuns` (liveness),
  `BootLeftForGood`.
* *Shell.* `LineShown`: prompt and line stand on the screen up to the cursor.
  `ImplementsLineEditor`: refinement of `LineEditor`, though the buffer keeps
  the characters of longer lines before.
* *Calc.* `ExpressionMeans`: a line is computed exactly if it reads as two
  numbers around an operator, and the text printed reads as the int that the
  operator means. `IntegersExact`: the integer functions are exact, or refuse,
  where their products fit. `TrigAgrees`: sines and cosines by the addition
  theorem, tangents and cotangents as their quotients, refused where undefined.
* *Boot.* `TablesReady`: no segment, gate or vector is used that is not set up.
  `KeyHeard`: a key pressed after the controllers' initialisation is handled.

Runs that end in a violation, each a disagreement between the code and what the
repository says of it (details and quotations under `findings` of
`PROJECT.json`):

| Run | What it shows |
|---|---|
| `HeapWrap.cfg` | A size that wraps when rounded is answered with a pointer to no bytes |
| `CalcSine.cfg` | The products in the series of sine and cosine overflow int from 147 degrees on: `calc_cos(180)` prints -3.5881 |
| `SyscallServed.cfg` | `syscall_stub` overwrites `ax` before passing `eax` on, and `popa` overwrites the answer: no system call is served |

Other behaviour the models bring out. The first ones are where a property of a
passing run makes an exception, of just this and of nothing else; the hazards in
`PROJECT.json` list them at their lines, under no property:

* A `krealloc` that shrinks a block leaves its remainder beside a free block
  (`OnlyShrinkingFragments`). Growth refused at the limit keeps the pages it
  has mapped, in no block (`HeapAccounted`).
* A blink inside `sync_cursor` sends a byte of the location to the cursor's
  shape register, or is undone by half (`DisturbedOnlyByBlink`).
* Two overlapping calls of `task_create` write behind the table
  (`StaysInTable`), as far as there are stacks for them; a tick between the
  assignments of `tasking_start` stores the boot code's stack pointer as the
  first task's (`NeverLost`). Nothing calls either yet.
* The least int divided by -1 halts the kernel (`ExpressionMeans`); `calc_root`
  and `calc_log` can loop for ever once a product overflows (`IntegersExact`).
* A key pressed before the controllers are initialised is lost with its edge,
  and the keyboard is silent until the controller's byte is read, which nothing
  does: `KeyHeard` speaks of keys after that.
* Releasing one of two held shift keys ends the shift of the other: with both
  held and one released, `shift_pressed` is FALSE. `TypeAhead` allows that.
* `calc_atan` and `calc_actg` print whole degrees as ten-thousandths:
  `calc_atan(1)` prints 0.0045 and `calc_actg(1)` 89.9955, where `calc_asin(1)`
  prints 90.0000. That is wrong, so `TrigAgrees` says nothing of the two, and
  sine and cosine are only compared up to 146 degrees (`CalcSine.cfg`).
* The boot stack has 128 bytes (`kernel_entry.asm`) and `kernel_shell_loop` a
  buffer of 1024; the loop that clears .bss clears nothing, since its two labels
  stand at the same place (`kernel_entry.asm:20-24, 39-40`). Neither is in a
  model, which starts at `kernel_main`. The repository's `README.md:52-53`
  lists `keyboard_init` before `interrupts_init`; the code has them the other
  way round (`kernel.cpp:142-143`), as in `Boot`.

## 4. Fairness

`Keyboard!FairSpec` and `Cursor!FairSpec` assume weak fairness of
`irq0_handler`: the PIT is periodic and is never reprogrammed or masked.
`Keyboard!FairSpec` also assumes it of `irq1_handler` (the controller keeps the
line raised while a byte waits) and of `keyboard_getchar` (the processor
executes the foreground whenever it is not halted; a halted processor needs an
interrupt, `Resume`). No fairness is assumed of the typist.
`Tasking!FairSpec` assumes weak fairness of `irq0_handler` alone: what a task
does with its turn is its own affair. `Boot!FairSpec` assumes weak fairness of
`Code`, which the processor executes, and strong fairness of delivering each
request: a handler takes far less than a period of the PIT, so the line of
lower priority has its turn between two ticks again and again. `Heap`,
`Paging`, `Syscalls`, `Shell` and `Calc` have safety properties only.

## 5. The proofs

TLC shows the properties on the instances above; the theorems show them for
every value of the constants that satisfies the modules' named assumptions
(`KeyboardAssumption`, `PageTablesAssumption`, `PagingAssumption`,
`HeapAssumption`, `TaskingAssumption`, `ScreenAssumption`, `CursorAssumption`,
`SyscallsAssumption`, `CalculatorAssumption`, `CalcAssumption`,
`ShellAssumption`, `BootAssumption`). The parts of
`CalculatorAssumption` about `2 ^ k` follow from the first, that `BITS` is at least
2; they are stated because the provers know nothing of powers. The heap's theorems also assume what `HeapBounded` states:
`NoWrap`, that no size asked for is within a page of 2^32, without which
`HeapWrap.cfg` refutes them; `HeapLimits`, that the heap begins and ends at page
boundaries; and `HeapTables`, that the pool has a table for every four megabytes
of heap. The constants of `memory.cpp:7-14` satisfy the last two.

**`KeyboardProofs`** shows `TypeOK`, `TakenIsOldest`, `ShiftNeverStuck`,
`PrefixTracked` and the refinement `Spec => ImplementsTypeAhead`, for every set of
keys, any number of shift keys among them. The inductive invariant `Inv` adds one
conjunct to the properties, `PrefixOwned`: an 0xE0 has been read only if the first
outstanding event is of an extended key. It is needed because the handler, having seen 0xE0, ignores
whatever byte comes next. The argument: `ByteHandled` turns the handler's
comparisons of bytes into a case distinction on key events (a key's make or
break byte is never 0xE0, because no key has code 0x60); `PushAppends` and
`PopTakes` say what the modular arithmetic of the ring does to the sequence of
waiting characters; then every step of `Next` is a step of the queue or
stutters. That scan codes 0x60 and 0x61 belong to no key is part of
`KeyboardAssumption`; with them a break code would be 0xE0 or 0xE1.

**`PagingProofs`** shows `PagingTypeOK`, `TablesNotShared`, `CacheCoherent` and
`Spec => ImplementsFlatMap`. The inductive invariant `PagingInv` is the first
three and `AllOwned`, that every table in use belongs to a directory entry; none
of them is inductive alone: that a single `invlpg` suffices rests on no
two directory entries sharing a table, and that rests on `FreeTable` finding a
table that is really free. The lemmas about the operators come
first, and the heap's proofs use them too. `TableCreated` and `EntryWritten` say what creating
a table and writing an entry do to every other page, `PageSplit` that a page
number is its two indices. What the abstract map asks of a call is decided by
counting, both ways: `PoolNotExhausted`, that a free table implies that fewer
directory entries are present than the pool has tables, so the page may be
mapped; and `OnlyRefusedWhenExhausted`, from `AllOwned`, that a call without a
table to write to finds as many entries present, so it may be refused.

**`TaskingProofs`** shows every safety property of `Tasking`: `TypeOK`,
`StaysInTable`, `NeverLost`, `EveryTaskKept`, `FairTurns` and
`BootLeftForGood`. The invariant has three levels. `Counted` holds whatever the
callers do: the count and the creations that have a stack and have not stored
their count yet are together no more than the stacks handed out, and stay so when
those creations store what they have loaded. So no slot named is beyond the last
of `Slots`, though `task_create` checks nothing (`CountedKept`,
`CountedGotStack`, `CountedStore`). `OneCreator` and `TableEnd` hold as long as
no two creations overlap: the one under way knows the count, so the slot it fills
is the one behind the last. `Sound` holds as long as nothing is misused at all. `BootPhase` says that until the first switch only
the boot code has run, and that afterwards it does not run; it is needed
because the first switch stores no context, and whatever ran then would be
lost. `StacksOwned` and `SlotsHold` tie stacks to slots one to one, where each
slot but the running one's has the very place of its stack's context; hence
whatever the scheduler takes can be resumed (`Resumed`). All slots below the
count are active, so the loop of `tasking_schedule` always takes the first slot
it tries (`NextIsFirstTried`), and the time a slot has waited is at most its
distance behind the current one (`TurnsInOrder`), which every switch preserves
and a new task, put in at the end, only increases.

**`CursorProofs`** shows `TypeOK`, `NothingAfterCursor` and
`DisturbedOnlyByBlink`, for every size of screen whose positions fit in two
bytes and every period. With the type of the screen, `NothingAfterCursor` is
inductive (`Clean`): `AdvanceClean`, `BackspaceClean` and `PutcharClean` say so
of each part of `putchar`, and rest on where rows begin (`Rows`).
`DisturbedOnlyByBlink` is not: `Progress` adds, for each step between the port
accesses, which register the index names and which bytes are already written,
as long as no blink has come since the call began. `HideShow` says what setting
and clearing bit 5 of a byte does, `TwoBytes` that a location's two bytes give
it back. A blink between two calls changes what is shown and `cursor_visible`
together (`BlinkKeeps`), so only one during a call is noted in `blinked`.

**`SyscallsProofs`** shows `TypeOK`, `CallerContextKept` and
`ExceptionReported`. `Behind` says that a stack is another one with dwords in
front of it, and each instruction has a lemma in these terms (`Push`, `Drop`,
`Pushad`, `Popad`, `Enter`, `Iretd`). An interrupt gives the processor back as
it was (`InterruptTransparent`), so it disturbs nothing wherever it comes.
`Frame` says for every instruction of `syscall_stub` how deep the stack is and
where the caller's registers lie in it (`Saved`); `SavedMoves` carries that
over each push and each `add esp`. That a selector can be loaded into the lower
half of `eax` and leave a dword (`LoadedSegment`) is the reason why the
assumption makes a dword two halves.

**`HeapProofs`** shows every property of `Heap.cfg`: `TypeOK`,
`HeapInv`, `FreedPointersRejected`, `HeapAccounted`, `OnlyShrinkingFragments`,
`HeapPagesMapped` and the refinement `Spec => ImplementsAllocator`.

* *The list.* The inductive invariant `HeapState` says that some set of blocks
  `C` is a sound list (`Sound`): linked both ways, tiling the heap up to its end
  unless growth has met the limit, with stale headers in free blocks only; that
  the blocks of `C` in use are the client's; and that a pointer freed before is
  rejected. It speaks of a set, not of a walk, because the walk `Visited` would
  need an induction at every change of a link; `WalkSeesAll` shows once that the
  walk finds just that set. In the middle of a call a stale header may also lie
  in the block being worked on, the parameter `x` of `Sound`: `split_block`
  leaves headers behind in a block that is not free yet. Each operator has a
  lemma that a sound list stays sound and every other block is `Kept`
  (`SplitSound`, `JoinSound`, `GrownSound`, `AppendSound`, `KFreeSound`), and
  `KMallocSound` and `KReallocSound` put them together: a call has `Failed` and
  taken nothing, or has `Allotted` one block. `AllottedStep` and `FailedStep` make
  of that a step of `Allocator`.
* *The bytes.* The sums of `HeapAccounted` are folds over sets of blocks.
  `SizesAreBytes` shows that the number of payload bytes satisfies the fold's
  equation and is its only solution, and `BlocksTile` that payloads and headers
  together are the heap.
* *Free neighbours.* `OnlyShrinkingFragments` compares the pairs of neighbouring
  free blocks before and after a call. Every operator either takes a block out of
  the list or parts one, so the pairs before and after differ in the few blocks it
  touches, which `Exchanged` counts.
* *The pages.* `MappedTo` says that the first pages are mapped one to one,
  through as many directory entries as that takes, and with `AllOwned` each used
  table belongs to an entry. So a missing table means fewer entries than tables,
  and by `PoolHasTable` one is free: `map_page`, whose failure
  `extend_heap_to_fit` could not see, does not fail. `PagesInTurn` solves the
  loop over the new pages, one page at a time.

**`BootProofs`** shows `TablesReady`, for all addresses of 32 bits at which the
kernel's tables and handlers may lie, every stack and every mask the BIOS leaves.

* *Encoding and decoding.* Half of it is arithmetic, on the kernel's own
  numbers: `AddressParts` puts an address together from the halves and bytes that
  the structures scatter it over, `SegmentsDecoded` and `TssDecoded` say that the
  processor reads from the bytes of `gdt_set_entry` the segments that were meant,
  `SelectorsLead` that the kernel's selectors lead to them once `lgdt` is done, and
  `GateLeads` that a gate leads to its handler.
* *The order.* The invariant `BootInv` says for every place of the code what is
  written, what is loaded and what the controllers have been told so far; the
  interrupt flag is set in the shell only. `MasterWritten` follows the writes of
  `pic_remap` (`Programmed`) to the end of the initialisation sequence, in which a
  write to the data port means something else each time. Every function has a
  lemma that it takes one place's part of the invariant to the next one's
  (`GdtKept`, `RemapKept`, `IdtKept`, `EnableKept`), and a request that comes at
  any step keeps them all (`RequestsKept`). An interrupt is only delivered with
  the flag set, so it finds its gate and a handler that returns (`DeliverKept`).

**`ShellProofs`** shows every property of `Shell.cfg`: `TypeOK`, `LineShown` and
the refinement `Spec => ImplementsLineEditor`; and, of `Calc`, `ExpressionMeans`
and `IntegersExact`.

* *The invariant* `ShellInv` says that what has been typed is letters (`Typed`),
  that nothing stands on the screen from the position on (`Clean`), and, while
  the kernel runs, that the prompt and the line stand on the screen behind the
  start of some row (`Shown`). `LineShown` alone speaks of the row that the
  position and the length of the line make out; that it is a whole row is what a
  step has to preserve when the screen scrolls.
* *The screen.* `CharacterShown` and `BackspaceShown` say what `putchar` does to
  a text that is shown. A character may scroll the text up by one row, and there
  is a row to give: `LINE_MAX + 2` is less than the number of cells, so the text
  does not begin in the first row when its end leaves the last one. `Rubout` is
  three of these steps (`RuboutShown`), also over the edge of the screen.
* *The commands.* Whatever a command prints is characters, newlines and
  backspaces (`OutputPrinted`), for the numbers by way of the recursion of
  `Decimal` (`DecimalEquation`), for the calculator by way of its parser and its
  four operations (`ExpressionParsed`, `CalculationAnswers`). Such a text leaves
  the screen clean (`WriteClean`), and a newline and the prompt then begin a line
  (`PromptBegins`). A loop over a text is a fold; `LoopInTurn` solves its
  equation and takes it apart into turns.
* *The line that runs.* `LineCut`: the command and the arguments that `Split`
  takes from the buffer are, with the space between them, the line that was
  terminated, whatever an earlier, longer line has left behind it.
* *The calculator's expressions* (`CalculatorMeans`), for every width of an int
  and every line.
  `WrapIs` says that `Wrap` takes a number to the one int that differs from it by
  a multiple of 2^BITS, and `QuotientMeans` that the quotient of two ints
  truncates and is an int but for the least one by -1. `DecimalReads` and
  `IntReads` show that the digits printed read as the number they were made
  from; and `WrappedNumber` that the digits a user types, multiplied up with
  overflow at every turn, come to the number they read as, modulo 2^BITS.
  The parser takes what it can, from left to right, while `Readings` is any way to
  divide the line into two numbers and an operator. `TokenMeans` and `NumberIsToken`
  tie the two at each number; then every reading is the one the parser finds
  (`ReadingIsParsed`), and what it finds is a reading (`ParsedIsReading`). That a
  request for help is never a reading is a lemma of its own (`ReadingIsNoHelp`),
  since `calc_init` looks for it first. `CalculationMeans` does the four operations.
  The invariant `CallInv` says no more than which function the outcome is of;
  what it means is a fact about that call alone.
* *The calculator's functions* (`IntegersRight`), for every width of an int.
  `Power`, in which the property is stated, stops at 2^BITS: what is greater is
  above every int, and then so are all later powers (`PowerLater`,
  `PowerOfMore`), which otherwise grow (`PowerStrict`). A loop of wrapped
  multiplications comes to the power, wrapped (`SignedPower`).
  `SearchSolved` says that the recursive functions of `calc_root` and `calc_log`
  have a value wherever they begin, loops without end included: the answer after
  the first turn at which they are done. `LogNext` shows that the powers `calc_log`
  goes through are below its argument, so the next one does not overflow and none
  comes back. For `calc_root` the invariant `Searching` keeps the root inside the
  range, and the powers of the range below the greatest int; the first middle alone
  needs what the property demands (`RootBegins`), and every turn makes the range
  smaller (`RootNext`). `LevelsFit` shows that `calc_tetration` holds the tower
  as long as it is an int and nothing from then on. Two facts make that so:
  `checked_mul_int` refuses exactly the products that do not fit (`CheckedProduct`),
  and the limit of `BITS - 1` on an exponent refuses nothing else (`PowerTooLong`).

Where an argument needs induction (a walk, a fold, the last block of a list) it
takes the least or largest element of a set of numbers (`LeastElement`,
`LargestElement`) that would be a counterexample. `AllReached` is such an argument
once and for all: a set that has 0, and with each number the next, has every one.

Model-checked only: `TrigAgrees`, and all liveness (`WaitingIsTaken`,
`EventsAreHeard`, `BlinksForever`, `EveryTaskRuns`, `KeyHeard`), which is beyond
the proof system. `TrigAgrees` bounds the rounding of a series at each degree,
which is a matter of computing it.

## 6. Assumptions and limits

* The keyboard sends set 1 scancodes, every key is up when the driver starts,
  the controller loses no byte, and multi-byte sequences other than 0xE0 plus
  one byte (Pause, Print Screen's fake shifts) do not occur.
* Before the first `sync_cursor` the cursor's start register holds what the
  BIOS leaves there (`BiosCursorStart`).
* The PIC ends an interrupt on `PIC_EOI` and holds back lines of lower priority
  meanwhile.
* `Heap` lets a client write only memory it holds. Once it has taken a header's
  place with data, pointers to it are no longer passed to the allocator.
* `Heap.cfg` is an instance of `HeapBounded`: sizes so large that a 32-bit sum
  wraps are left out there and are the subject of `HeapWrap.cfg`.
* Small numbers stand for large ones throughout: `WORD` for 2^32, `BYTE` for
  2^8 in the cursor's location, `HALF` for 2^16.
* In `Tasking` the heap only hands out stacks, and a task's function never
  returns, as the code demands of it: nothing lies above its entry point. The
  memory behind the table begins as zeros and belongs to nobody else, so what
  slots written there do to other variables is not modelled.
* In `Shell` the result of `syswrite` is what `SyscallServed.cfg` shows it to
  be, the number of the call. What `help` and `mem` print on several lines is one
  word and a newline. The instance's letters form no calculation, so
  that `panic` alone stands for what halts the shell.
* The interrupt controllers in `Boot` are edge triggered, serve one request at
  a time and take what the kernel programs; the loader leaves interrupts
  disabled and usable segments.
* `Calc` computes the integer functions at five bits, the ones whose limits and
  scales belong to 32 bits (`factorial`, `fibonacci`, fixed point) at 32.

Not modelled: the PIT's divisor, the text of messages, of the help and of the
panic screen, colours (constant), the assembly before `kernel_main`, the empty
modules auth and fs, and what no code calls: `user_mode_main`, `enter_ring3` and
its system calls from ring 3 (`kernel.cpp:11-84`), `tss_set_kernel_stack`.

## 7. Plan

Done, in this order: paging, heap, keyboard, cursor and screen, system calls,
proofs of keyboard and paging, tasking, calculator and strings, line editor and
shell, start-up, proofs of tasking, of the cursor, of the system calls, of the
heap, of the shell, of the start and of the calculator's expressions and integer
functions.

What remains:

1. A heap whose calls are cut at every link, composed with `Tasking`: no task
   exists yet that could be preempted inside `kmalloc`, and nothing protects the
   list from it.
2. Ring 3, once something runs there: the user flag of directory entries, the
   TSS's stack, and calls through the gate with privilege 3.
