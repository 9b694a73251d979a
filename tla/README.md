# OrangeX kernel: a TLA+ model

OrangeX is a 32-bit x86 kernel in C: one kernel thread that runs a shell, and
interrupt handlers for the timer and the keyboard. This directory holds TLA+
modules for its stateful parts, the configurations TLC checks them with, and
proofs checked by TLAPS. Sources are cited as `file:line`.

## 1. The system

`kernel_main` (kernel.c) initialises everything in a fixed order, with
interrupts on from `idt_init`, and ends in `shell_run`. From then on there is

- **one thread**, the shell: read a line, run the command, repeat. It waits with
  `hlt` in two places, `keyboard_getchar` and `timer_sleep`;
- **two handlers**, IRQ0 (`timer_callback`) and IRQ1 (`kb_callback`), entered
  through interrupt gates (idt.c, 0x8E), so with interrupts off. They share
  `ticks_count`, the keyboard ring and the decoder's flags with the thread, and
  no lock protects anything.

There are no other threads: processes are created but never run (see 5).

The Makefile builds no window manager, desktop, mouse or graphics (window.c,
desktop.c, mouse.c, graphics.c): they are a second user interface, driven by a
loop around `desktop_update` and by IRQ 12. Pipes, paging, system calls and the
ELF loader are built and never called. What is modelled of these is the code as
it stands, under every order of calls their headers allow.

| Component | State | Operations | Talks to | What is hard | What makes it correct |
|---|---|---|---|---|---|
| Keyboard ring (keyboard.c 7, 32-45, 100-115) | `kfifo` | put (IRQ1), get | decoder, editor, `hlt` | interleaving with the handler, compiler reordering, full ring, lost wake-up | a bounded FIFO; a waiting reader is answered |
| Scan code decoder (keyboard.c 8-86) | `shift_down`, `caps_lock`, `esc_prefix` | `kb_callback`, one byte per interrupt | ring | multi-byte codes, state across keys | what is queued is what was typed |
| Line editor (keyboard.c 121-220) | line, 16 history slots, position, backup | type, erase, enter, up, down | ring, screen | ring index, truncation, order of recalls and edits | recalls the right line, loses none |
| Page allocator (pmm.c) | bitmap, `total_pages`, `used_pages` | two initialisers, alloc, free | heap, process, paging | page 0, overlapping map entries, counters | no page has two holders; counters follow |
| Heap (heap.c) | block list, `heap_current` | kmalloc, kcalloc, krealloc, kfree | pmm; used by almost everything | split and coalesce in any order, refusal part of the way | blocks tile the heap, allocations disjoint, nothing stays fragmented |
| Process table (process.c) | 32 slots, `next_pid`, `current_proc` | create, exit, sleep, block, unblock | pmm, heap, timer | failures part of the way, slot reuse | pids unique, the dead stay dead, no slot lost |
| Scheduler (scheduler.c) | state of the slots | tick, yield, sleep | process table | never gets a first process | ready processes run |
| Signals (signal.c) | handlers | `signal_send` | process table | acts on the current process | reaches its target |
| Timer (timer.c) | `ticks_count` | tick, `timer_sleep` | IRQ0, `hlt` | test/`hlt` race, wrap | wakes, and on time |
| Shell (shell.c) | cwd, previous cwd, input line | about 70 commands | all of the above | returns out of its loop, stale cwd | stays in its loop, cwd is in the tree |
| File system (vfs.c) | pool of 128 nodes, tree | create, lookup, mkdir, touch, rm, cp, mv, ln, cd, find | heap, shell, security | aliasing, copies into themselves, names that lead back, pool never recycled | one name one node, rm and mv lose nothing else |
| Pipes (pipe.c) | ring of 4096 bytes, count | create, destroy, read, write | heap | partial transfers | a byte stream |
| Paging (paging.c) | directory, tables | init, map, unmap | pmm | shared tables | a map is what was mapped |
| Integrity checker (security.c) | 64 trusted files | add, check, scan | file system | stale checksums, duplicates | reports what changed |
| Network (net.c) | 32 sockets, counters | resolve, ping; connect, send, receive, close (no caller) | shell, timer | names it does not know | a ping ends |
| USB (usb.c) | controllers, devices | detect, enumerate, look up | shell | a rescan that finds less | the devices are still there |
| Boot log (init.c) | | twelve lines, a pause after each | timer | none | the prompt comes |
| Game (doom.c) | player | `doom_run` | keyboard, timer, screen | never ends without a `q` | gives the prompt back |
| Text screen (vga.c) | cursor, colours | putc, clear, set cursor | all output | wrap, scroll, backspace | cursor on the screen |
| Windows (window.c) | 32 slots, `next_id`, `top_window` | create, destroy, focus, mouse | desktop | closed while focused or dragged, order of slots against order of ids | one focus, a click reaches what is seen |
| Desktop (desktop.c) | 4 terminals, the active one, icons, menu | update, input, keypress | windows, mouse, ring, file system | ids against slot numbers, terminals never given back, a full text | input reaches a terminal in use |
| Mouse (mouse.c) | position, buttons, packet | IRQ 12, read by the desktop | desktop | lost bytes, signs | finds its place again |
| System calls, ELF, ATA, devices, GDT | tables | | | never called, or filled once | |

`PROJECT.json` lists every component with its status, and every hazard at its
line.

## 2. Modules

| Module | What it is | Variables and the code's |
|---|---|---|
| `CharQueue` | abstract: a bounded FIFO of characters and the two ways to read it | |
| `Kfifo` | ring, IRQ1, reader; implements `CharQueue` | `buffer`, `head`, `tail` are `kfifo`'s; `pc` and `slot` are where the reader is in `kfifo_get`; `c` is its local; `dropped` is `kfifo_put`'s answer |
| `Scancode` | `kb_callback` as a decoder, with the keyboard as environment | the three flags; `wire` holds the bytes sent and not yet read, each with the key it is of, which the handler does not see; `typist` (what the keys read so far have typed) and `out` are history |
| `LineEditor` | `keyboard_wait_line` | `buf` is `buf[0..i-1]`; `hist`, `hist_count`, `hist_pos`, `backup` are its statics; `saved`, `fresh` are history |
| `Screen` | `vga_putc` under the prompt, the editor's echo and the commands' output; composes with `LineEditor`, which it extends | `vga` is `vga_buf`, `cur_row` and `cur_col`; `reading` says that the shell is in `keyboard_wait_line`; `home` and `above` are where the prompt ended, `wrapped` that the line reached the right edge (history) |
| `Pmm` | page allocator and callers that keep its contract | `bitmap` is the set of pages whose bit is set; `held` is what callers have |
| `Heap` | the block list and callers that keep its contract | `list` is `free_list` in order, `supply` what `pmm_alloc_page` has left to return, `live` what callers have |
| `Process` | process table, signals, shell commands on it, tick | `proc` is `processes[]`; `pool` the clear pages; `wiped` kernel pages overwritten |
| `Timer` | tick counter and `timer_sleep` | `ticks_count`; `pc`, `start`, `ms` of the sleeper; `elapsed` is history |
| `Shell` | the machine from `init_run` on: boot log, prompt, commands with their pauses, halts, the return of `shell_run`, the reset; composes with `Timer`, which it extends | `at` is where the thread is; `line` the words of the line; `rest` the pauses the command has left; `controllers`, `devices` are usb.c's; `trusted` security.c's list; `lasted` is history |
| `Vfs` | the node pool, the tree, and the shell's file commands on it | `pool_idx`; `name`, `type`, `parent`, `target` are the fields of `node_pool[n - 1]` (node 0 is `root_node`), `children` its list through `next`; `cwd`, `prev_cwd` are the shell's; `used` the heap blocks link targets are in; `todo` is the stack of calls `deep_copy` still has to make; `job` holds the arguments of a copy and, as history, what it started from (`want` the names and types a copy makes, `had` all that `mv` was given). `find` changes nothing and is an operator (`Seen`, `FindEnds`) |
| `ByteStream` | abstract: what a pipe promises | |
| `Pipe` | pipe.c; implements `ByteStream` | `ring` is the pipe's `buffer`; `read_pos`, `write_pos`, `count`, `closed` are the pipe's; `ret` and `data` the last call's answers |
| `Window` | the operators of window.c on a table | `wm` is `windows`, `next_id` and `top_window` |
| `Terminal` | the operators on one terminal of desktop.c, by the lengths of its text and its line | |
| `Desktop` | `desktop_update` over windows, terminals, icons and menu; composes `Window` and `Terminal`, which it extends | `terminals`, `active_terminal`, `show_start_menu`; `app_win` is `app_file_mgr_win` to `app_store_win`; `prev` the left button of `prev_buttons`; `on` ends with Shutdown; `closed` is history |
| `Mouse` | the handler of IRQ 12, with the device as environment | `x`, `y`, `buttons`; `mouse_byte` the bytes gathered (`mouse_cycle` is their number); `wire` bytes sent and not yet handled; `packet`, `lost`, `in_step` are history |
| `PageUnits` | the page size, the width of a counter, and the rounding up to whole pages, which `Pmm` and `Heap` share | `PagesUp` |

`MC*` modules give the constants values for TLC. The theorems are in `Basics`
(lemmas every proof can use: least and greatest elements, climbing from zero,
division, functions defined by recursion, sequences by index), `RingProofs`
(`Kfifo`, `Pipe`, `Scancode`), `MemoryProofs` (`Pmm`, `Heap`), `ConsoleProofs` (`LineEditor`,
`Screen`), `ProcessProofs`, `ShellProofs` (`Timer`, `Shell`), `VfsProofs` and
`DesktopProofs` (`Desktop`, `Mouse`). Operators under a comment that starts with "Mutant" are a plausible
mistake in the operator that follows; no behaviour uses them.

**Granularity.** A handler is one action: it runs with interrupts off. A command
of the shell is one action where no handler touches what it uses (Process: the
tick returns at once, having no current process). A copy is one action per
`vfs_create_node`, because the pool can run out between two of them and the copy
can meet itself (Vfs); no handler touches the file system. Where a handler does touch it,
every memory access is an action (Kfifo, Timer). The compiler may move the read
of `buffer`, which is not volatile, past the store to `tail`, which is: both
orders are modelled. Pmm, Heap, LineEditor, Screen, Vfs and Pipe run in the
thread only. A pass of the desktop is one action that may see the mouse
anywhere with the button in either state, since IRQ 12 can come between any two
of its reads; a press and release between two passes is not seen, as in the code.
In Shell a command takes the ticks its pauses take; the rest of it is one step,
between which and the next pause any number of ticks can come.

**Abstracted data.** Characters are model values. The bitmap is a set and the
scan for the lowest clear bit is its result. A process's stacks appear as the
pages they take, the frame built on them does not appear. Scan codes are real
numbers, with tables cut down to the keys that are pressed. A path is the
sequence of names between its slashes; paths longer than the buffers of vfs.c
are left out. Files have no contents: `vfs_init` gives contents only to nodes it
links nowhere (section 5), and no command writes any. The text of a desktop
terminal is its length, because its overrun falls on that length: a terminal
whose length has been overwritten keeps it and is not written to any more. A
command line of `Shell` is its first two words, how many words it has and the
argument that decides what it does. Colours, the hardware cursor and drawing are
left out; of the latter its order counts, since it says which window is seen.

**Callers.** Pmm and Heap are specified for callers that release what they were
given, once. The caller in the kernel that does not, `process_create` on
failure (process.c:86), is modelled where it is, in `Process`. Pipes have no
caller in the kernel: any sequence of calls is allowed.

## 3. Runs

Each run is one question. Bounds are small because the hazards are: what matters
is that rings fill and go round, that memory runs out part of the way, that
counters wrap.

| Run | Question | Bounds, and why they are enough |
|---|---|---|
| `kfifo` | Is the ring a FIFO for the reader, whatever the handler and the compiler do, and is a waiting reader answered? | 4 slots, 2 characters: it fills, wraps and drops; two characters tell order and duplicates apart. Unbounded behaviours (no counter) |
| `pmm` | Does every page have one holder, and do the counters follow, after every kind of initialisation? | 6 pages of 2 bytes, kernel in the first two, counters modulo 8; maps with a hole, overlapping entries, ragged edges, an entry past the end, none usable; and no initialisation at all |
| `heap` | Do blocks tile, stay disjoint, coalesce? | pages of 16, header 4, sizes 0, 1, 6 and 17 (one, two per page, two pages); up to 4 pages and a supply that starts with page 0: growth is refused before and in the middle |
| `process` | Are pids unique, do the dead stay dead, when is a slot lost? | 3 slots, pids to 4 (slots are reused), 7 pages: one user process fits and a second fails half way; a machine whose map was read and one whose was not |
| `scancode` | Is what is queued what was typed? | letter, digit, shift, caps lock and arrow; 6 key events, with bytes unread in between |
| `console` | Is the n-th line back the n-th saved, does down return, and does the screen show the line and keep the prompt? | lines of 2, slots of 1, history of 2, 4 lines saved: lines are cut, the history goes round twice. Two rows of three columns with a prompt of one: a full line reaches the right edge, wraps and scrolls the prompt away; commands print nothing, a line, a tab without an end of line, and text they wipe again |
| `vfs` | Do the nodes stay a tree, is nothing released that is still reached, are copies whole, what does mv leave of its source, does find see what is there, does every copy end? | a pool of 5: two nodes at boot, three to create, so that a copy of a directory with a child needs the last one and a copy into itself runs out; paths "/Users" (there at boot), "/Users/root" (not), "/b", the slashless "root" and "/Users/", by which mkdir makes a directory without a name. Three creations are what it takes to have a directory, something in it and a copy of the two that fails half way. One block for link targets: a second link gets none |
| `desktop` | Is there one focus, does nothing dead keep being dragged, does every terminal have its window, is the window clicked the one seen, which texts get shorter? | 2 windows and ids up to 3: a slot is used again and an id grows past the slots. 2 terminals: the third window has none. 7 positions of the pointer: two icons, a title bar, two close boxes (one inside another window), the start button, Shutdown. A text of 4 whose length takes two bytes of 4 values, so that the overrun changes it |
| `mouse` | Does the handler find its place again, does the pointer follow? | first bytes with and without the left button and either sign, movement bytes that look like first bytes and that do not; answers of the initialisation, from none to all, still on their way; two bytes lost anywhere; the pointer starts at (2, 2), so both edges at 0 are reached |
| `pipe` | Is the ring a stream of bytes? | a ring of 3, writes of 0 to 4 bytes of 2 values, reads of 0 to 4: every cut, every turn, and pipes made again in a block with old bytes |
| `shell` | Does every command end, not before its pauses have passed, and is the machine what it should be afterwards? | one line of every kind; a tick of the model is 100 of the program, the counter wraps at 8 inside the pauses; 2 ports whose controllers answer or not; 4 trusted files, 3 at boot: the list fills. at this scale the boot log's and the game's pauses last no tick or one. `MaxLasted` 10 is more than the pauses of any line add up to (9, `orangepkg install`) |
| `usage` | Does the machine stop only for the commands that say so? (violated, section 5) | those of `shell` |

CHECK_DEADLOCK is off where a bound stops the model (`MaxEvents`, `MaxX` and
`MaxLost` in Mouse), where the machine stops (Shell: halted; Desktop: Shutdown)
and in Process for a machine whose kernel was overwritten. In Vfs the pool, which never
gets a node back, is the code's own bound; cd is always possible.

`Count`, `MaxPid`, `MaxTicks`, `MaxLines`, `MaxEvents`, `MaxId`, `MaxX`,
`MaxLost` and `MaxLasted` are the only bounds on counters: `MaxPid` ends the
creation of processes, `MaxTicks` folds a tick count nothing reads, `MaxLines`
ends saving, `MaxEvents` ends typing, `MaxId` ends the opening of windows, `MaxX`
stops the mouse at the right, `MaxLost` ends losses, and `MaxLasted` folds a
history. In `shell` the lines of `seq` are of the kind that pauses nowhere and
ends; one whose last number is near 2^31 or whose step has a sign overflows its
counter (section 5) and is outside the model.

**Fairness.** Kfifo: the reader keeps executing (the CPU runs it whenever no
handler does) and some other interrupt keeps coming: IRQ0 is unmasked before the
first read and never masked. That is what makes the test/`hlt` race harmless: a
character that arrives between them waits for the next tick. Shell: the thread
keeps executing inside a command and ticks keep coming; nobody is obliged to
type. A tick lasts 10 ms, so a thread that can run takes a step between two of
them (`ran` in Timer), without which the counter could run all the way round
between two tests. Vfs: the thread that runs a copy keeps running; nobody is
obliged to type another command. The other modules state no liveness.

## 4. Proofs

All theorems hold for every value of the constants that satisfies the named
assumptions of the module.

| Module | Theorem | Argument |
|---|---|---|
| `RingProofs`: `Kfifo` | `TypeCorrect` | inductive on its own |
| | `SlotSafe`: `SlotInv` | with `TypeOK`. The full test keeps one slot free; once `tail` has passed the slot being read, that slot is the free one, so the handler cannot reach it |
| | `HandlerSparesSlot`: `NoOverwrite` | from `SlotInv`, by cases on where the reader is |
| | `RingIsFifo`: the ring implements `CharQueue` | refinement: the queue is the ring read from `tail` to `head`, the call ends for the queue when `tail` moves. The lemmas on indices modulo the size say that a put appends and a move of `tail` takes the head |
| `RingProofs`: `Scancode` | `DecoderTypeCorrect`, `LosesOnePerArrow` (`OneLostPerArrow`) | invariant `DecoderInv`: the flags are what the keys read so far make of them (`Flags`); on the wire each prefix has its code behind it (`WellFormed`); a code that is read after its prefix finds the flag up, and a flag that is up between two keys is paid for: one arrow has been released for which no character has been lost yet (`Owed`). Two flags give a plain key the character of the shift and caps lock that were in force when it was read (`DecodesAsTyped`) |
| `RingProofs`: `Pipe` | `PipeTypeCorrect`, `PositionsAgree` | the writing position is `count` places behind the reading one, modulo the size |
| | `RingIsStream`: the ring implements `ByteStream` | refinement: the stream is the ring read `count` places from `read_pos`. The lemmas on places modulo the size say that what a write puts in comes after what was there and that a read takes from its front |
| `MemoryProofs`: `Pmm` | `TypeCorrect`, `HeldPagesSafe`, `CounterFollows`, `NoPageTwice` | invariant: type, `HeldSafe` and the congruence between counter and bitmap; `NoPageTwice` because what is handed out is clear and what is held is set |
| `MemoryProofs`: `Heap` | `BlocksTile`, `PointersAreSafe`, `CoalescesAll`, `HoldersUntouched` | invariant `HeapInv`: the blocks follow each other in memory from `HEAP_START` to `heap_current`, each larger than its header, used exactly when somebody holds it (`Sound`, `Matched`), and no free block has a free neighbour (`Merged`). A split, a merge and a growth each replace one block of the list by one or two: the lemmas on sequences by index in `Basics` say what that does to the tiling. `Folded` is the invariant of the loop in which `kfree` coalesces: what it has passed is merged, what it has not is as before. With nobody holding anything there is one block per run of pages |
| `ConsoleProofs`: `LineEditor` | `TypeCorrect`, `RecallsSaved`, `FreshLineComesBack` | invariant: slot k holds, cut, the latest saved line whose number is k modulo the size of the history; the backup is the line that was left, cut to a slot |
| `ConsoleProofs`: `Screen` | `LineStaysShown`, `PromptStaysKept`, `ConsoleRunsEditor` | invariant `ConsoleInv`: nothing stands behind the cursor (`Swept`) and, while a line is read, `Shown`: the line stands after the prompt with the cursor behind it, until it reaches the right edge, after which the cursor is below that row for good, where '\b' stops at column 0. `Shown` is also the invariant of the loops that echo: each '\b' takes a character of the old line away, each glyph adds one of the new. The prompt survives because nothing before the cursor is ever written (`KeptStep`), in whatever row it has scrolled to. A command's text is compared with the same text on a cleared screen: the two screens have the same row under the cursor throughout (`Alike`), so that `OutputsAssumption`, which speaks of the cleared one, is enough |
| `ProcessProofs` | `TypeCorrect`, `PidsAreUnique`, `DeadStayDead` | pids are unique only because every pid ever given is below `next_pid`: the invariant adds that, and that `born` holds every pid of a live slot |
| | `SlotsAreLost` (`SlotLoss`) | n allocations take the n lowest clear pages, which exist one by one (`LowestExist`); they are all answered when page 0 is in use and n pages are clear and not otherwise, and page 0 is in use afterwards (`TakeTakes`). Of the two stacks together the same follows (`StacksGive`), and a creation that is refused loses its slot, one that is not fills it (`CreateLoses`) |
| `ShellProofs`: `Timer` | `TypeCorrect`, `SleepsOnTime` | invariant: `elapsed` is at most `ms + 1`, and the difference the loop computes is `elapsed` modulo the width; the bound is what keeps the two equal |
| `ShellProofs`: `Shell` | `ShellTypeCorrect`, `DevicesAreKept`, `PausesOnTime` | every step of the machine is a step of the timer, leaves it alone, or is the reset, which happens outside `timer_sleep` and makes its variables 0: the timer's invariant survives all three, and with it `OnTime`. At least one controller is detected whatever answers, so three devices are enumerated |
| | `CommandsLast` (`Lasts`) | invariant `LastsInv`: the ticks counted and the pauses left are together never less than the sum of the pauses of the line; a pause that ends has lasted what it says by `OnTime`'s lemma on the loop's test. The sum is a recursive function on the length of the list |
| `VfsProofs` | `TypeCorrect`, `StaysATree` (`Tree`) | invariant: types; a node is older than its children; lists and parents agree and a child is listed once; what a copy still has to do names nodes that exist. Every command adds one new node to a list, takes one node out of one, or neither, and a lemma for each shows that the tree survives |
| | `NothingReachedIsFreed`, `DetachedStaysFrozen` | with `TreeInv`: the tree, `NothingFreed`, and that what a copy is at work on is in the tree (`TodoInTree`, `SourceKnown`). A path leads from a node of the tree to nodes of the tree, so what is added goes there; what is removed is below the node it was taken out with. Nodes are numbered by age, so a claim about everything below a node is proved of the least node that would break it |
| | `CopiesAreWhole` (`CopyWhole`) | `CopyWhole` speaks only of the end of a copy. The invariant `CopyInv` says of each step in between that a map `o` takes the nodes made so far, one to one, to nodes of the source with the same names, types and parents (`Mirrored`), and that each child of a node already copied has a copy or is to be copied, once (`Pending`). With nothing left to do `o` is then onto, so that path, type and count of each node are the same; the source itself is not touched, because the copy is made outside it (`MadeOutside`) |
| | `MovesLeaveOne` (`MvKeepsOne`) | `vfs_mv` removes whatever the source path leads to once the copy is there. `MoveInv` therefore remembers the way along that path as it was before (`Trail`): a step of it can only be hidden by the copy's first node. A lookup made afterwards keeps to that way or is below the copy, as deep as it would have been (`Follows`), which `..` undoes in step; so what is removed is in the source or in the copy (`RemovesOne`), and the other one is spared. `HeldInv` adds that the source holds all it held when the command began, and that no node of the copy has a link target |
| | `FindIsComplete` (`FindWhole`) | in a subtree without an empty name or twins the path of each node leads back to it, again by the least node; no name is `..` when it is empty (`Empty # DotDot`) |
| `DesktopProofs`: `Desktop` | `IdsAreUnique`, `FocusIsOne`, `OneIsDragged`, `TerminalsAreOwned`, `KeyboardIsLost`, `TextIsKept`, `ClicksFocusTheSeen` | invariant on the table: ids are below `next_id` and belong to one window each, the window on top is there and alone focused. Each pass is a sequence of the operators of `Window` on the table (create, destroy, focus, grab, drag, drop), with one lemma for each. Until a window is closed slots fill in the order of ids, which is why the window drawn last is then also the one found by a click |
| `DesktopProofs`: `Mouse` | `FindsItsPlace`, `FollowsTheDevice`, `PointerNeverDescends` | before the last byte of a calm packet the handler is at the start or at the end of a packet, wherever it was: the bytes of a calm packet that look like no first byte are dropped. `PointerNeverDescends` because minus an unsigned byte is never positive, with the sign bits set over it or not (`Displaces`) |

The assumptions that are more than types: `OutputsAssumption` (Screen), that a
command which prints a '\r' wipes the line after it, as the one that does
(shell.c:432); `SuppliesAssumption` (Heap), that pages are granted or refused;
`Empty # DotDot` (Vfs); `ScancodeAssumption`, that no keypad and one shift key
are used and the keyboard puts no extra shifts before its arrows (with two shift
keys and with the keypad the code does other things, section 5); in
`ShellAssumption`, that `MaxLasted` cuts the history above the pauses of any line;
`ProcessAssumption`, that memory is finite; `MapCountAssumption` (Pmm), that a sum of cardinalities
is a natural number, because a fold is opaque to the provers. TLC evaluates each.

Only model-checked: liveness (`Answered`, `Answers`, `CopyEnds`), which is beyond
this prover. Every other property of the passing runs is a theorem.

## 5. What the code does that its documents do not say

One of these is a run that TLC refutes:

- `usage`: the help and README.md:102-103 name the commands that stop the machine. So does `usb` without a word after it: some commands `return` from
  `shell_run` where others go on with the loop (shell.c:1165), `kernel_main`
  returns and entry.asm halts (`Misused`). A path `stat`, `file`, `chmod` or `du`
  does not find does the same, as do `du` without an argument, `usb info` of no
  device, and `exec`, `sort` and `uniq` of anything (`Fails`): no file they can
  find has contents.

Others show in the definitions:

- A ping of a name net.c does not know never ends, and takes the prompt with it:
  `parse_ip` does not move on past a letter (net.c:17, `Hangs`), while README.md
  offers `ping <host>` (README.md:123).
- README.md:12 promises a preemptive scheduler. `scheduler_tick` returns while
  there is no current process (scheduler.c:14), and nothing else sets one: no
  process ever runs.
- `ps` passes slot numbers to `process_get`, which takes pids (shell.c:704).
  With pids of 32 and more, processes vanish from `ps`, `top`, `pgrep` and
  `killall`.
- The key after the release of an arrow key is lost (keyboard.c:59-63 return with
  `esc_prefix` set); `OneLostPerArrow` says that nothing more is.
- `mv` of a directory to a new name returns 0 and the new name does not exist:
  `deep_copy` keeps the name of the source (vfs.c:266).
- `pmm_init` ends with `used_pages = total_pages` (pmm.c:67): free memory is 0
  when all of it is free, and wraps below 0 with the first allocation.
  `UsedFollowsBitmap` states the counter relative to that start.
- `entry.asm:21` clears `eax`, which holds the multiboot magic, before pushing
  it: `pmm_init` is never reached, every page from 0 on is free, and the first
  allocation returns page 0, which callers take for failure.
- `heap_expand` asks pmm for pages and puts its block at `heap_current` whatever
  it was given (heap.c:34): the pages marked are not the pages used.
- `create_kernel_stack` allocates pages and returns an address computed from
  `_kernel_end`: every process has the same kernel stack (`Fill`).
- `process_create` clears its slot before it can fail, which makes it READY with
  pid 0: the slot is lost (`Abandon`). `SlotLoss` says when: for want of pages, and
  to the first creation of a machine that `entry.asm` started, for page 0.
- The default action of a signal is done to the current process: SIGTERM sent to
  a pid does nothing (`SignalSend`).
- Either shift key's release ends shift while the other is held
  (`Release`), and a long line left with the up arrow comes back cut to 127
  characters (`ComesBack` says exactly that).
- '\b' in column 0 does nothing (vga.c:59): a line that wrapped leaves its first
  row on the screen when it is erased or recalled over (the `wrapped` of
  `ShowsLine`). The game gives `vga_set_cursor`
  the column first (doom.c:122), which takes it for the row.
- `sleep <ms>` (shell.c:66) waits that many 10 ms ticks (timer.c:19). `seq` to
  2147483647 passes the largest int and goes on; "-1" for a step is read as -29,
  with which it counts the wrong way.
- `usb info` takes its argument modulo 256 (`Fails`), and `security trust` says
  "Added to trusted" when the list is full (`Trust`).
- `pwd` prints the letters of each name in reverse: `vfs_get_path` writes them
  forwards into a buffer it then reads backwards (vfs.c:137-153).
- A line longer than a history slot is saved again each time it is repeated: it
  is compared in full with its copy that was cut (keyboard.c:137-141).
- `vfs_init` gives /etc, /usr, /Users and what is below them their parents and
  never lists them as children: the initial files cannot be found, and `cd ~`
  goes nowhere until somebody makes /Users/root (`Init`, `CdHome`).
- `cp` onto an existing file adds a second child of that name (`StartCopy`).
- `mv` removes whatever its source path leads to after the copy, the copy itself
  when it has the same path; a move that ran out of nodes half way, or into its own
  source, loses what was not copied (the exceptions in `MvKeepsOne`). Even one that succeeds is
  less than its source: every link in it has lost its target, which `vfs_rm` frees
  (vfs.c:217), and a file or link moved onto a path what was linked below it
  (the second case of `MvKeepsOne`).
- `mkdir /a/`, with /a there, makes a directory in it whose name is empty
  (`ParentOf`), and `find` from above it then calls itself for ever: the path of
  that directory leads back to /a (shell.c:345, the exception in `FindWhole`).
  Of two siblings of one name (`cp` makes them) find sees the first twice.
- A link's copy loses its target (`LinkCopy`), and links put below a file or
  below another link keep their blocks when that is removed (`Swept`).
- The keypad stands one place early in both tables: '7' is at 0x46, the code of
  scroll lock, and its own key sends 0x47 (keyboard.c:18). Each key of the keypad
  types what its neighbour should. After the release of an arrow, while the flag
  is up, four of them queue an arrow.
- The mouse never moves the pointer down (`NeverDescends`, mouse.c:84), and a
  packet is applied however it was put together until a first byte lacks bit 3
  (`Resync`).
- A desktop terminal is never given back: after four, a terminal window has none
  (`TerminalsOwned`). A window whose id is greater than 32 is drawn and clicked
  by nobody (`LostForGood`). Once a slot has been used again the window clicked
  is not always the one seen (`closed` in `ClickFocusesSeen`). Enter in a full
  terminal stores its newline over the text's own length (`TextKept`).

## 6. Plan

Done: what runs from boot to prompt and after it (ring, decoder, editor, screen,
timer, page allocator, heap, process table, shell loop), the file system, pipes,
and the desktop with windows, terminals and mouse. Next:

1. `Memory`: composition of Pmm, Heap and Process in one address space, with the
   boot order of `kernel_main`, to ask which pages of the kernel and of the
   processes the heap and the stacks can be given.
2. The socket table of net.c, `vfs_get_path` under the prompt, and the moves of
   doom's player over its map.

Runs are kept to one per question: a new component takes the place of the run
that shows least, or joins the run of the component it works with, as the screen
joined the editor and the timer the shell.

## 7. Not modelled

- Paging, system calls and the ELF loader: built and never called. `paging_init`
  would mark 1024 directory entries present with frame 0 and set CR0.PG; no
  state after it can be spoken of.
- ATA: ports of a device the repository does not describe; transfers are never
  called. The device list and the GDT are filled once and only read.
- Frame buffer, drawing and fonts (graphics.c, font_data.c): pixels.
- The player's floating-point moves and the drawing in doom.c; the sockets of
  net.c, which have no caller; the transfer functions of usb.c, which do nothing.
- shell-backup.c, a copy of shell.c that is not built, and the host-side tools.
- The boot loader's real-mode code (boot.asm, boot16.asm).

`PROJECT.json` gives the reason for each component.
