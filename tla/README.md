# A TLA+ verification project for THUNITY OS

THUNITY OS is a 32-bit x86 kernel of about 6,400 lines of C and assembly: it
boots from Multiboot, manages physical frames and a heap, keeps a RAM
filesystem, drives PS/2 and USB (xHCI) keyboards and mice, switches to ring 3 and
back through system calls, and ends in a text shell or a framebuffer desktop. It
runs on one CPU. There are no threads: its concurrency is one main context, the
interrupt handlers that preempt it, and devices that act on their own.

This directory holds

- TLA+ modules that model its components, translated from the C and assembly;
- TLC configurations that check them on small instances (twelve runs);
- theorems about them, proved with TLAPS for every value of the constants;
- `PROJECT.json`, which ties every definition to the lines it models and lists
  the runs, properties, mutants, hazards, findings and theorems.

Contents: [how to run](#how-to-run) · [inventory](#inventory) ·
[modules and code](#modules-and-the-code-they-model) · [runs](#runs) ·
[bounds](#bounds-and-why-they-are-enough) · [fairness](#fairness) ·
[proofs](#proofs) · [findings](#findings) · [limits](#what-is-only-model-checked-and-what-is-not-modelled) ·
[plan](#plan)

## How to run

    tlasany Pmm.tla                                 # parse
    tlc -workers 2 -config Pmm_frames.cfg MC_Boot   # one run
    tlapm PmmProofs.tla                             # the proofs of one component

Each component `X` has a module `X.tla` with its state, actions and properties;
`MC_X.tla` gives TLC the constants that a `.cfg` cannot write and is the module
of a run, alone or for a composition that contains `X` (`PROJECT.json` names the
module of each run); `X_<question>.cfg` is one run. The theorems are in eight
modules: `PmmProofs` (`Pmm`, `Vmm`, `Lfb`, `Boot`), `SchedProofs` (`Sched`, `SchedDemo`, `Coop`),
`KeyboardProofs`, `HeapProofs`, `AppsProofs` (`Ramfs`, `Paint`, `Calculator`, `Apps`),
`ShellProofs` (`Ai`, `Console`, `Shell`), `DesktopProofs` and `HardwareProofs` (`Traps`, `Xhci`). Definitions named `Mut_...` are
plausible bugs of the definition that follows them. They are not used by the
specification: replacing the definition by its mutant makes TLC report the
property that `PROJECT.json` names, which shows that the property depends on
that code.

## Inventory

For each component: the state it keeps, its operations, whom it interacts with,
what is hard about it, and what makes it correct.

### Physical memory manager — `kernel/mm/pmm.c`, `frame_bitmap.c`

- *State*: a bitmap with one bit per 4 KiB frame, `total_frames`,
  `usable_frames`, `reserved_frames`, and up to six protected ranges.
- *Operations*: `pmm_init` (reads the Multiboot memory map, frees the frames of
  available regions, then reserves the low 1 MiB, the kernel image and the boot
  structures), `pmm_alloc_frame`, `pmm_free_frame`, `pmm_is_protected`.
- *Interactions*: the boot loader supplies the memory map; the shell's `allocpage`
  allocates and its `freepage` frees *any* address typed. Page tables are static
  arrays, not frames.
- *Hard*: rounding region and range ends to frames, 64-bit ends truncated to
  32 bits, frees by callers that hold nothing.
- *Correct when*: the kernel's own frames are never handed out, no frame has two
  owners, 0 always means failure, only whole frames of RAM are handed out, the
  statistics add up, and `total_frames` spans the RAM.

### Scheduler policy — `kernel/sched/sched_core.c`, `sched.c`

- *State*: a table of tasks (id, state, quantum, reload), `current`, a cursor.
- *Operations*: add, pick next, tick, block, unblock, exit; `sched_kdemo`, which picks
  ten times and after each pick calls `sched_on_tick` itself until the slice expires.
- *Hard*: any order of block, unblock and exit between picks; a wrapping cursor;
  an id used again although the exited task that had it still holds a slot;
  quantum 0; a busy loop that only its own ticks can end.
- *Correct when*: exactly the `current` task is RUNNING, a READY task is passed over
  fewer times than there are slots, and `sched_kdemo` returns after it has given
  every task that can run a slice.

### Cooperative tasks — `sched/coop.c`, `task.c`, `context.S`

- *State*: a scheduler table of its own, the stacks of three workers and of the
  kernel, their saved stack pointers, `current`.
- *Operations*: `coop_run_demo` (at boot and as `tasks`), `coop_yield`, the workers'
  loop and exit, the switch of stacks.
- *Hard*: `current` moves before the switch and says where the old stack pointer
  goes; the last exit must end in the kernel; a second demo reuses the stacks.
- *Correct when*: every context resumes on its own stack where it yielded, and the
  demo returns after every worker has had its turns.

### Virtual memory — `mm/vmm.c`, `vmm_core.c`

- *State*: one page directory and three pools of page tables: low memory, the
  framebuffer window, the window for device registers.
- *Operations*: `vmm_init`, `vmm_enable`, `vmm_map_lfb`, `vmm_map_mmio`, `vmm_translate`.
- *Interactions*: `xhci_init` maps its registers, `lfb.c` maps the framebuffer.
- *Hard*: windows aligned down to 4 MiB and laid over the live directory;
  arithmetic modulo 2^32 near the top; windows clipped to their pool.
- *Correct when*: what is mapped is mapped to itself, and low memory stays mapped
  and usable from ring 3.

### Framebuffer and drawing — `drivers/lfb.c`

- *State*: address, size and stride of the screen.
- *Operations*: `lfb_init_auto` (the loader's framebuffer, or the PCI display), the
  drawing primitives, scrolling.
- *Hard*: strides larger than the width, framebuffers larger than the window,
  clipping, integer circles and lines.
- *Correct when*: only mapped words of the framebuffer are touched, and each
  primitive paints exactly the visible part of its shape.

### Console and shell — `core/kprintf.c`, `drivers/vga.c`, `gui/gconsole.c`, `shell/shell.c`

- *State*: two screens with their cursors and the choice between them, the kernel
  log, the line being edited, the command history.
- *Operations*: `kputc`, `klog_dump`, the two `putc`s, `shell_feed_char`, `history`, and the
  commands that clear, replay or switch.
- *Hard*: rings read while they are written; editor and screen each keep their own
  position, through wrapping, scrolling and a change of application.
- *Correct when*: the rings show exactly the latest entries, and the screen shows the
  line that Enter will run.

### Keyboard and the input loops — `drivers/keyboard.c`, `pit.c`, `shell.c`, `desktop.c`

- *State*: a ring of characters with `head` and `tail`, the shift flag, and the
  position of the main loop.
- *Operations*: the IRQ1 handler pushes; `keyboard_inject` pushes a USB key from
  the main context; `keyboard_haskey` and `keyboard_getchar` read; both loops
  sleep with `hlt` and are woken by the keyboard or the 100 Hz timer.
- *Hard*: IRQ1 at any instruction of the reader or of `keyboard_inject`; a key
  between the empty test and `hlt`; a full ring.
- *Correct when*: the ring is a bounded FIFO that drops the newest character on
  overflow, and every key in it is served.

### Kernel heap — `kernel/mm/kheap_core.c`, `kheap.c`

- *State*: a list of blocks in an arena, each with size, free flag and links.
- *Operations*: `kmalloc`, `kcalloc`, `krealloc`, `kfree`; first fit, split,
  coalesce in one pass over the list.
- *Hard*: sizes near 2^32; stale or double frees, whose header may by then lie in
  somebody's payload and say anything; the remainder of a split; the coalescing loop
  that stays on a block while it grows.
- *Correct when*: the blocks tile the arena, callers never share a byte, no call takes
  a block from its holder, a block is as large as was asked, no two neighbouring blocks are free, frees end.

### RAM filesystem and its writers — `fs/ramfs_core.c`, `fs.c`, `gui/apps.c` (Notes)

- *State*: a file table, a byte arena that only grows, `arena_used`; the Notes
  editor's buffer.
- *Operations*: `ramfs_write`, reads, boot files, the shell's `write`, the Notes
  editor, which saves on every key and ignores the result.
- *Hard*: the table and the arena at their limits; a write that half succeeds;
  the editor and the file diverging.
- *Correct when*: a write changes exactly the file it names or nothing, and the
  text on the screen differs from the file only once the filesystem is full.

### xHCI USB driver — `drivers/usb/xhci.c`

- *State*: a table of devices, command and transfer rings, one event ring,
  report buffers and the previous report of every keyboard.
- *Operations*: enumeration (eight requests per port, each waiting for its event
  with a timeout), `usb_poll`, HID report decoding.
- *Interactions*: the controller executes commands and transfers on its own;
  decoded keys and movements go to `keyboard_inject` and `mouse_inject`.
- *Hard*: events of all kinds share one ring and are told apart by type only;
  answers later than their timeout; failure at any request; more devices than
  table entries; reports during another device's enumeration.
- *Correct when*: a request gets its own answer, working devices end up in the
  table with a transfer armed, each press is typed once, bring-up ends.

### Interrupts, system calls, user mode — `arch/x86/{irq,isr,pic,idt,tss,syscall*,usermode*}`, `core/kernel.c`

- *State*: privilege level, interrupt flag, segments, the boot stack and the
  ring-0 stack of the TSS, the saved resume stack pointer, the two PICs.
- *Operations*: the stubs, `irq_handler` with its EOIs, `isr_handler`, `int 0x80`
  dispatch, `usermode_enter`, `usermode_resume_kernel`, boot order, `hlt`.
- *Hard*: an interrupt at every point of the ring-3 round trip; spurious
  interrupts; lines behind the slave PIC; the interrupt flag left behind by
  `SYS_EXIT`.
- *Correct when*: every return restores the context that was interrupted, the CPU
  never sleeps with interrupts off, every request is served, ring 3 comes back.

### AI layer — `kernel/ai/ai_core.c`, `ai.c`

- *State*: task table, policy bit for the network bridge, a ring of audit records.
- *Operations*: the `ai` commands, policy changes, task transitions, recording.
- *Hard*: the ring past its end, read backwards from the head; the table full.
- *Correct when*: the audit shows exactly the latest records in order, and every
  attempt to use the bridge is settled (never left running) and recorded.

### Desktop, applications and mouse — `gui/desktop.c`, `gui/apps.c`, `drivers/mouse.c`

- *State*: pointer position, buttons and event flag shared with IRQ12; the pixels
  saved under the arrow; the open application; the Calculator's operands,
  operator and flag; Paint's last point.
- *Operations*: PS/2 packets, injection of USB reports, the desktop's loop (poll,
  clock, keys, pointer, clicks, redraw), the keys of the Calculator, the strokes of
  Paint.
- *Hard*: IRQ12 between any two steps of the loop and inside `mouse_inject`;
  everything drawn while the arrow is on the screen.
- *Correct when*: the pointer stays on the screen, the arrow leaves no trace, no
  mouse event is lost and no click is invented; the display of the Calculator is
  the value of the calculation; strokes are solid and stay on the canvas.

### Parts that are not modelled

The planar graphics mode (`gfx.c`) and font extraction, the serial port,
descriptor-table layouts, the feature registry, the string library, number
formatting, panic, boot assembly, host tests, scripts and the HTML previews keep
no state the properties are about; see
[the limits](#what-is-only-model-checked-and-what-is-not-modelled). Commands of the
shell that change kernel state are actions of the module of the component they
call.

## Modules and the code they model

One C function that matters for the properties is one action or operator of the
same name; where an interrupt can strike inside a function, the function is cut
into one action per memory access that matters. History variables (named below)
record what happened; the program's guards never read them. Bounds on a
behaviour are guards on such counters, and what a *caller* may do can depend on
them (`krealloc` is called with blocks the caller holds).

| Module | Code | State ↔ code | Composition |
|---|---|---|---|
| `Pmm` | `mm/pmm.c`, `mm/frame_bitmap.c` | `free` = clear bits of `frame_bitmap`, `prot`, the three counters; `phase`/`step` = where `pmm_init` stands. History: `owned`, the frames callers hold; `stray`, frames freed by someone who did not hold them | |
| `Sched` | `sched/sched_core.c` | `tasks`, `current`, `cursor`. History: `waited`, how often a READY task was passed over | |
| `SchedDemo` | `sched/sched.c` | `kd` = where `sched_kdemo` is and its `i`. History in it: `served`, the slots picked | over `Sched` |
| `Coop` | `sched/coop.c`, `task.c`, `context.S` | `running` = `current`, `esp`, `stacks` = frames pushed by a switch, `cpu` = stack, place and locals. History: `ticks` | over `SchedDemo`; `TwoUsersSpec` follows either user of `sched_core` |
| `Vmm` | `mm/vmm.c`, `vmm_core.c` | `page_dir`, `tabs` = the three pools, `ready`, `enabled` | |
| `Lfb` | `drivers/lfb.c` | `lfb` = address, size, stride. History: `call`, `touched`, the words of the last call | over `Vmm` |
| `Boot` | `core/kernel.c`, `xhci_init`, `desktop_start`, `desktop_draw` | `stage` = where `kernel_main` stands; `machine` = what the hardware offers | composes `Pmm`, `Vmm`, `Lfb` |
| `Keyboard` | `drivers/keyboard.c`, `pit.c`, loops of `shell.c`, `desktop.c`, and the USB hand-over | `buffer`, `head`, `tail`, `shift_down`; `pc` = step of the main context; `next`, `at`, `ch` = values in registers | implements `CharQueue` |
| `CharQueue` | promise of the keyboard ring | a bounded queue, the character last taken, a count of refusals | abstract |
| `Heap` | `mm/kheap_core.c`, `kheap.c` | `starts`, `size`, `next`, `flag` = what a header at an address says, also one left behind by a merge or copied; `cur` = the position of `coalesce`. History: `req`, the size asked for | |
| `Ramfs` | `fs/ramfs_core.c`, `fs.c`, Notes in `gui/apps.c`, `write` in `shell.c` | `files`, `count`, `arena`, `arena_used`; `no_buf` = editor | implements `FileMap` |
| `FileMap` | promise of `ramfs_core.h` | a map from names to contents | abstract |
| `Calculator` | `gui/apps.c` | `calc` = the `cc_` variables; `trap`. History: `keys`, `over` | |
| `Paint` | `gui/apps.c`, `desktop.c` | `pa_lx`, `pa_ly`, `pa_col`, `prevl`. History: `stroke`, `trail`, `inside` | |
| `Apps` | `gui/desktop.c` | which application is followed | composes `Ramfs`, `Calculator`, `Paint` |
| `Xhci` | `drivers/usb/xhci.c` | `devs`, `hid_buf`, `prev`; the event ring as a queue; the controller's slots and armed transfers. History: `ticket`, `owed` | |
| `Traps` | `arch/x86/*`, `core/kernel.c`, loops | registers that decide control, two stacks of frames, the PICs' request and in-service bits | |
| `Ai` | `ai/ai_core.c`, `ai.c` | `tasks`, `net_bridge`, `audit`, `audit_head`, `audit_total`. History: `log`, all records | |
| `Console` | `core/kprintf.c`, `drivers/vga.c`, `gui/gconsole.c` | operators over a record of both screens, the choice and the log | |
| `Shell` | `shell/shell.c`, `gui/desktop.c` | `s_line`, `hist`, `hist_n`, `g_app`, `out`. History: `typed`, `torn` | over `Console`; `SessionSpec` follows the editor or the commands of `Ai` |
| `Desktop` | `gui/desktop.c`, `gui/apps.c`, `drivers/mouse.c` | `pos`, `gbtn`, `gdirty`, `pkt`; framebuffer cells and the save-under. History: `fresh` | |

Choices worth knowing when comparing a module with its code:

- **Pmm.** `pmm_init` is one action per memory-map entry and per reserved range.
  The bitmap has `MAX_FRAMES` bits that start at address 0; the arithmetic of
  `(uint32_t)rend` is modulo `MAX_FRAMES * PAGE_SIZE`, which stands for 2^32. The other
  32-bit sums (`pmm.c:42`, 91, 115 and 117) are sums of naturals: `NoWrapAssumption` says
  that the image, the boot structures and the memory map do not reach into the last
  page of the address space, and that no region starts above 2^44.
- **Sched.** Callers add ids that no live task has, as both users do. A task that
  has exited keeps its slot for good, so that an id used again occurs twice;
  `find_id` takes the first match, as the code does, and `sched_block` may be called
  for a task that has exited.
- **SchedDemo.** Between calls of `sched_kdemo` the table may be changed in any way the
  scheduler's interface allows; while it runs nothing else does, as in the code. No
  timer calls `sched_on_tick`. With nothing current the busy loop would spin for ever:
  then `kdemo_tick` has no step and `KdemoServesAll` would fail.
- **Coop.** The callee-saved registers, the return address and the locals that a
  switch leaves on a stack are one frame. The switch copies nothing else, so that
  a wrong save slot or stack shows as a context on another's stack.
- **Vmm, Lfb, Boot.** Addresses are modulo `SPACE`, which stands for 2^32; the sums of
  the code wrap. `MachineAssumption` excludes framebuffers at or above 4 GiB, whose
  address `lfb.c:98-99` would truncate, and widths whose row of four-byte pixels wraps
  (`lfb.c:73`). Colours are left out: a primitive is the set of pixels it
  writes, turned into words with the stride. `lfb_scroll_up` is a set of words at
  once, as it does not clip. A run has one frame size for `Pmm` and one for `Vmm`;
  the allocator and the tables share no state.
- **Calculator.** Signed overflow is undefined in C; this build wraps on `imul` and
  `add`, and `idiv` traps on MIN / −1. The properties are claimed up to the first
  overflow, noted in `over`.
- **Shell.** A letter stands for a command word. A line of text that a
  command prints is one `#`; what it echoes or replays is printed letter by letter.
  `typed` and `recent` are plain sequences against which the rings are compared.
- **Apps, `TwoUsersSpec`, `SessionSpec`.** Parts that share a module of code but no
  state at run time are followed one per behaviour; interleaving them would only
  multiply states.
- **Keyboard.** The USB path of `buffer_push` is five steps (compute the next
  index, compare it with `tail`, load `head`, store the character, store
  `head`), because the C statements can be interrupted between them; in IRQ1 it
  is one step, because the interrupt gate keeps other interrupts out.
- **Heap.** `kfree` may be given any address of the arena. The header found there
  may be stale: left over by a merge, or copied with a payload by `krealloc`. A header
  is four words and a payload may cover it from any of them on, so its fields change one
  at a time: `kcalloc`'s zeroes and the holder's own data (`caller_write`) may wipe the
  magic, or change `free` and leave the magic. `kfree` of such a header passes both of
  its guards, and the model takes that step. Payload data is assumed never to be the
  constant `KH_MAGIC` itself. A `kcalloc` of a size that wraps in `align_up` is followed only
  to NULL, since its zero-fill would overwrite the whole address space. `krealloc` takes
  pointers the caller holds; it has no caller in the kernel.
- **Ramfs.** Contents are sequences of bytes in the arena and are really read
  back from it, so that a write over another file's bytes would be seen.
- **Xhci.** A machine says what is attached to each port and whether answers may
  be late or never come (`slow`), requests may fail (`faulty`), and devices may be used
  during bring-up (`early`). Time-outs belong to slow machines, where one may come at any
  point of the wait. Interrupt transfers do not fail; `usb_poll` does not look at their
  completion code (`xhci.c:383`). PCI discovery and register set-up are one step that
  may fail.
- **Traps.** Scenarios say which input loop runs and whether the `user` command is
  used in it. What the drivers' handlers do is in `Keyboard` and `Desktop`.
- **Desktop.** The screen is a grid of cells; the arrow covers two. Applications
  may or may not draw in their panel at each call. `mouse_inject` and the reads
  of `gx` and `gy` are cut at every access that IRQ12 can separate.

## Runs

Nine runs pass; three exhibit a disagreement between the code and its own
comments.

| Run | What it asks | What it shows |
|---|---|---|
| `Pmm_frames` | `KernelProtected`, `NoAmbiguousOrSharedFrame`, `BootStructsProtected`, `UsedIsReservedPlusAllocated`, `OnlyWholeRamFrames`, `IdentityKept`, `DrawsInWindow`, `ShapesAreExact` | After a boot with any of the memory maps, whatever `allocpage` and `freepage` are given, the low 1 MiB and the kernel image stay out of reach and no frame has two owners. As long as callers free only what they hold (`stray = {}`), the boot structures stay reserved, `used = reserved + allocated`, and only whole frames of RAM are handed out, the last for maps whose regions start on a frame boundary. With any of the displays and registers, what is mapped is mapped to itself and low memory stays usable; all words drawn are mapped and in the framebuffer; shapes cut by any edge are exact. |
| `Pmm_span` | `SpansUsableRam` — **violated** | RAM that reaches 4 GiB is lost, see [findings](#findings). |
| `Sched_dispatch` | `RunningIsCurrent`, `BoundedWait`, `ContextsKept`, `KdemoServesAll`, `DemoCompletes` | With tasks added, blocked, unblocked, exited, picked and ticked in any order, the running task is `current` and a ready task is passed over fewer than `CAP` times. Whatever was done before, `sched_kdemo` returns, and has by then given every task that can run a slice. In the cooperative demo, run again and again, every context resumes on its own stack in its own code, and each demo returns to the kernel after all turns. |
| `Keyboard_input` | `IsCharQueue`, `KeysServed` | With one keyboard, every interleaving of IRQ1, the timer and the loops implements the bounded queue; a key in the ring is always read, a USB report always consumed. |
| `Keyboard_race` | `IsCharQueue` — **violated** | With a PS/2 and a USB keyboard the ring loses or repeats characters. |
| `Heap_safety` | `Tiled`, `HoldersDisjoint`, `UsedMeansHeld`, `LargeEnough`, `Coalesced`, `FreeReturns` | Any order of the four calls, any pointer freed, sizes up to the largest `size_t`, and any payload data over stale headers. A free that passes the guards on a stale header inside a payload sets a word of that payload and nothing else: the list, its headers and who holds which block are not affected. `LargeEnough` excludes the sizes that wrap in `align_up`. |
| `Ramfs_files` | `NotesLostOnlyWhenFull`, `CalcIsReference`, `StrokesAreSolid`, `IsFileMap` | Boot files, shell writes and Notes edits until table and arena are full: a write changes the file it names or nothing; typed text is lost only for lack of room. After any keys, `=` chains and clears included, the Calculator shows the value of a well-formed calculation. Whatever the mouse does, strokes are solid, on the canvas, and join points of one press that began in the panel. |
| `Xhci_devices` | `ReadyIsArmed`, `PressesTyped`, `HidFound`, `AnswersAreOwn`, `BringUpEnds` | Devices of all kinds, more than the table holds, faults at any request of the bring-up. Bring-up always ends, also when the controller does not answer. On an *orderly* machine (answers within the time-out, devices left alone during bring-up) requests get their own answers, ready devices stay armed, each press is typed once. |
| `Traps_irq` | `ContextsIntact`, `TrapsComplete` | Interrupts, spurious ones included, at every point of boot, ring-3 round trip, system call and input loop: every return restores the context it interrupted and the stacks stay bounded; every request is served and the ring-3 program comes back. |
| `Traps_user` | `SleepIsWakeable` — **violated** | `user` in the desktop's terminal stops the machine. |
| `Ai_audit` | `AuditIsLog`, `AttemptsSettled`, `LogsAreRecent`, `EchoIsLine` | Past the end of the ring and of the task table, the audit shows the latest records newest first, and every bridge attempt is denied or failed and recorded once. With any editing, in the text shell and in the Terminal, `history` and `dmesg` show exactly the latest entries and the screen shows the prompt and the line that Enter will run, until a letter is rubbed out in column 0. |
| `Desktop_pointer` | `OnScreen`, `ScreenIntact`, `QuietMeansSeen`, `NoGhostClick` | IRQ12 between any two steps: positions used are on the screen, the save-under never restores stale pixels, the loop goes to sleep only when it has seen everything, a held button clicks once. |

Deadlock is checked in every run: none of these loops may stop.

## Bounds and why they are enough

- **Pmm**: 8 frames of 4 bytes; frame 0 is the low memory, the image covers one
  and a half frames, so that both roundings occur. Maps of up to two of seven
  regions: ending or starting in mid-frame, overlapping, reaching or lying above
  the top of the address space, reserved. Boot structures lie in low memory or
  unaligned above it. Two regions are enough for any two to overlap or to follow
  each other.
- **Boot, Vmm, Lfb**: 8 tables of 4 pages of 4 bytes for paging; two tables for low
  memory and for the framebuffer, one for registers. Framebuffers start on and
  off a table boundary, have padded and odd strides, are taller than the window,
  or are refused (depth, type, stride); PCI lists no display, one without a memory
  BAR, one that was never assigned. Register windows lie before, behind and at the
  top of the address space. Shapes start one pixel outside the screen to its far
  edge, with sizes up to wider than it, radii up to 2 and two scales: every edge
  cuts every shape.
- **Sched, SchedDemo, Coop**: three slots, two ids, quanta 0 and 2; the theorems cover
  every size of the policy. The demo picks four times, as ten picks exceed the eight slots
  of `sched.c`. Two workers with two turns each: both yield to each other,
  to themselves once the other has exited, and to the kernel; the demo repeats
  without bound.
- **Keyboard**: three cells (two characters) and five keys: the ring fills,
  overflows and wraps. One key suffices, since no code looks at its value; shift
  makes two characters of it.
- **Heap**: 22 bytes, 4-byte headers of one-byte words, alignment 2, a `size_t` of 5 bits:
  up to three blocks, so that a block can have free neighbours on both sides and a merge can
  continue over several. Requests of 1, 3 and 5 bytes, so that a payload can end
  between the `free` and the magic of a stale header, and the sizes around the wrap.
- **Ramfs**: three slots, five bytes, an editor of two: both limits are reached,
  in either order, with and without `notes.txt` present.
- **Calculator**: base 5, digits 0, 1, 3, numbers −8 … 7, six keys: two chained
  operators, an operator after `=`, overflow, and the trap (`13 / 30 =` is −8 / −1). **Paint**: a canvas in which the
  points that draw form a 4 × 3 field, and every position of the panel and next
  to it, so that each event may jump anywhere.
- **Xhci**: three ports, two entries, three slots, three reports. A table of two is
  the smallest in which one device can be mistaken for another, and three ports
  overfill it. Three reports are press, repeat (or release) and press again.
- **Traps**: the timer, line 7 (spurious) and line 12 (behind the slave); two
  requests of each line and two commands, so that an interrupt can strike an
  interrupt's return and a second ring-3 round trip follows the first. Past
  its bound the timer still ends a `hlt`, so that sleeping is not a deadlock.
- **Ai**: a ring of three, seven records (more than two turns), two tasks and more
  attempts than that.
- **Shell**: a screen of 3 × 3, the smallest that holds the prompt and a line of four letters,
  so that a line wraps and scrolls, over two rows and from each of them; a log
  of four characters and a history of two, which both wrap several times within
  the 15 characters printed.
- **Desktop**: a 3 × 2 screen, one-bit movement bytes with sign bits (−2 … 1),
  and USB reports that leave the screen on either side. Clock, panel and three
  dock icons cover the screen, so that the arrow can lie across each of them.

## Fairness

Fairness is assumed of what the hardware does on its own, never of the user:

- `Sched_dispatch`: weak fairness of the next step of a `sched_kdemo` that has been called
  and of a cooperative demo that runs: interrupts return, and the CPU goes on executing.
  Nothing makes anybody call `sched_kdemo`, and no timer drives it; its ticks are its own.
- `Keyboard_input`: weak fairness of `Main` (the CPU executes the next instruction)
  and of `pit_callback` (the 100 Hz timer, started in `kernel_main`). Keys and
  reports may stop at any time; the timer is what ends a `hlt` that raced a key.
- `Heap_safety`: weak fairness of the steps of `coalesce`, a loop with no wait.
- `Xhci_devices`: weak fairness of the driver and of the time-out, because the loop of
  `wait_event` counts its turns; and of the controller only on machines that are not
  slow. On a slow machine nothing makes it answer: there it is the bounded wait that
  ends the bring-up, and without it `BringUpEnds` fails (`Mut_wait_timeout_Endless`).
- `Traps_irq`: weak fairness of the CPU. Deliveries are steps of the CPU, taken
  before the next instruction when the flag is set.

The other specifications are safety only and state no fairness.

## Proofs

TLAPS proves the following for *every* value of the constants that satisfies the
named assumptions. Each inductive invariant was first checked with TLC on the
instance of its run.

**`PmmProofs`** — from `GeometryAssumption` (sizes are positive), `ImageAssumption`
(the image is not empty and starts on a page boundary, as `linker.ld` places it),
`BootAssumption` (any set of boot infos), `NoWrapAssumption` (the sums of `pmm.c` that are
naturals in the model do not wrap) and `MapAssumption` (a map of no bytes has no
entries); for the composition also `PagingAssumption` (the pools fit in the directory),
`DisplayAssumption`, `ModeAssumption` (the VBE mode fits in the window),
`MachineAssumption` (the device windows lie above low memory, as on a PC; a framebuffer
lies below 4 GiB) and
`DrawAssumption` (any coordinates, sizes, radii and glyphs).

- `TypeCorrect`: `Spec => []TypeOK`.
- `KernelIsProtected`: `Spec => []KernelProtected`. The property alone is not
  inductive, since `pmm_free_frame` tests the *ranges*, not the bitmap. `ProtInv`
  adds that once the k-th of the first two reservations is done it is *sealed*:
  recorded in `prot`, and no frame it overlaps is free or owned. Two rounding
  lemmas carry the argument: a frame that overlaps a range is among the frames
  `reserve_range` marks (`OverlapIsMarked`), and if the range starts on a page
  boundary the address of such a frame is inside the range, so that `freepage`
  refuses it (`MarkedIsProtected`). The second is where the alignment of the image
  is needed; without it `freepage` would accept the first frame.
- `NoSharedFrame`: `Spec => []NoAmbiguousOrSharedFrame`, from the same invariant.
- `AccountingIsExact`: `Spec => []UsedIsReservedPlusAllocated`. `AccountInv` states
  `usable = free + reserved + owned` from the moment the frames are counted, as
  long as `stray` is empty; the cardinality steps rest on `FiniteSetTheorems`.
- `BootStructsAreKept`: `Spec => []BootStructsProtected`. `StructsInv` says of each
  reservation already made that none of its frames is free or owned. Unlike the
  kernel's ranges the structures need not be aligned, so that `freepage` may accept
  their first frame; it is `stray = {}` that keeps the frame out of reach.
- `OnlyRamIsHandedOut`: `Spec => []OnlyWholeRamFrames`. `RamInv`: a frame is free or
  owned only if an entry of the map, already walked, freed it.
- `MemoryAtBoot`: the boot sequence implements the manager (`BootSpec => Spec`), so that
  the five properties above hold whatever else `kernel_main` maps and draws.
- `IdentityIsKept`: `BootSpec => []IdentityKept`. `ShapeInv` types directory and pools;
  `PagingInv` says that a pool is untouched until its stage of the bring-up, and that
  the entries of low memory are kept from then on. The work is in the arithmetic:
  a window rounded down to 4 MiB and clipped to its pool, with sums that wrap,
  covers the addresses it was asked for or is refused.
- `DrawingStaysInWindow`: `BootSpec => []DrawsInWindow`. `DrawInv` says that the rows of
  the active screen are mapped as far as the window reaches, and that the last
  call touched nothing else; one lemma for each primitive shows that its clipping
  keeps every word inside.
- `ShapesDrawnExactly`: `BootSpec => []ShapesAreExact`, from `ExactInv`: nothing is
  drawn before the display is up, and the last call painted exactly the visible part of
  its shape. One lemma for each primitive: the rows of a disc and the insets of a rounded
  corner are integer square roots, a character is a set of scaled cells. A line needs
  more, because its points are a recursive function of the turns of `lfb_line`'s loop.
  Its error term is the remainder of a division, so the point after `k` turns has a
  closed form (`Point`); a least counterexample over the number of turns (`LeastNat`)
  shows that the loop computes it, and the distance from the line is read off the
  closed form.

**`SchedProofs`** — from `CapAssumption` (a table of at least one slot), ids and
quanta being naturals, `PicksAssumption` (`sched_kdemo` picks at least as often as the
table has slots; 10 and 8 in the code) and `ItersAssumption` (a natural number of turns).

- `TypeCorrect`, and `OneRunningTask`: `Spec => []RunningIsCurrent`.
- `RoundRobinFair`: `Spec => []BoundedWait`. `WaitInv` bounds the number of times a
  task was passed over *plus* its distance from the cursor: each pick that passes
  a task over raises the first by one and lowers the second by at least one
  (`PickApproaches`), so that their sum stays below `CAP`.
- `DemoServesAll`: `KdSpec => [][ReturnsServed]_kdVars`, the safety half of `KdemoServesAll`:
  when `sched_kdemo` returns, every task that can run has had a slice. It rests on
  `BoundedWait`'s invariant and on `Due`: a task that the demo has not served was passed
  over by every pick it has made (`PassedOver`), so that after `PICKS >= CAP` picks there is none.
- `SwitchesKeepContexts`: `TwoUsersSpec => []ContextsKept`, for every number of workers
  and turns. `CoopOK` relates the three places that name a context (`running`, the
  CPU, the saved stack pointers): the CPU is on the stack of `running`, every live
  context that does not run has exactly one frame, its own, at its saved stack
  pointer, and the scheduler's table agrees on who is live. The lemmas follow a
  pick through `current`, the save and the switch.
- `DemoReturnsDone`: `TwoUsersSpec => [][ReturnsDone]_allVars`, the safety half of
  `DemoCompletes`: a demo returns to the kernel only after every worker has had its
  turns. `Turns` adds to `CoopOK` that a worker that has exited has had them.

**`KeyboardProofs`** — from `SizeAssumption` (`BUF_SIZE >= 2`).

- `Ps2RingIsCharQueue`: if no setup has a USB keyboard, `Spec => IsCharQueue`: the
  ring implements `CharQueue` under the refinement mapping `Contents` (the
  characters from `tail` to `head`, around the wrap). `RingInv` adds that the
  cells between `tail` and `head` hold characters, that the reader is inside
  `getchar` only while the ring is not empty, and that the character it has read
  is still the one at `tail`. `PushAppends` and `AdvanceRemoves` are the two facts
  about the mapping. The hypothesis on USB keyboards is necessary: `Keyboard_race`
  is the counterexample without it.

**`HeapProofs`** — from `LayoutAssumption` (a header of two alignments, as 16 and 8 in the
code, the alignment of two words; an arena with room for a block, a `size_t` that can count beyond the arena) and
`RequestAssumption` (any set of sizes below `SIZE_MOD`).

- `HoldersHaveTheirBytes`: `Spec => []LargeEnough`. `align_up` rounds up for sizes that do
  not wrap (`AlignUpCovers`), and no split, merge or free takes bytes from a block in use.
- `TypeCorrect`, `ListTilesArena`, `NoSharedMemory`, `UsedBlocksAreHeld` and
  `NoFragments`, all from `HeapInv`. `Tiled` speaks of links between neighbours; the
  invariant adds `Ordered` (any two blocks, neighbours or not, are disjoint), that a
  header *of the list* says "used" exactly when its block is held (`Headers`), and what `coalesce` has achieved below its cursor (`Swept`), without which
  "no two free neighbours" would not survive a `kfree` in progress. It is a
  predicate of values rather than of variables, so that `krealloc`, which allocates
  and then frees in one step, is followed through its intermediate state. Stale
  headers may say anything. That zeroes, copies and the holder's data, and frees of stale
  headers, leave the list alone is a matter of words: `magic` and `free` of a list header
  lie in the header itself, which no payload overlaps (`WordsInHeader`, `WordsOutside`).
- `FreeMakesProgress`: `Spec => [][LoopShrinks]_vars`. A turn of `coalesce` that merges stays
  at its block, so that its cursor is no measure of progress; the set of blocks of the
  list from the cursor on is, and becomes strictly smaller with every turn. With the
  fairness of the run this is why `FreeReturns` holds for every arena.

**`AppsProofs`** — from `RamfsAssumption` (any table, arena and editor sizes; the
sentinels are not names or bytes), `PaintAssumption` (the canvas fits in the panel and
the brush is no wider than the margin, as in `apps.c`) and `CalcAssumption` (any base, any
width of `long`, any digits and operators).

- `FilesTyped`: `AppsSpec => []TypeOK`; `NotesAutosaved`: `AppsSpec =>
  []NotesLostOnlyWhenFull`; `FilesAreMap`: `AppsSpec => IsFileMap`, the refinement of
  `FileMap`. `StoreInv` is what makes an append-only arena a map: names occur once
  among the used slots, and every file lies below `arena_used`, where nothing is
  written again. `CountInv` makes `count` the number of used slots, so that "full" means
  full; `UiInv` bounds the editor's buffer.
- `StrokesStaySolid`: `AppsSpec => []StrokesAreSolid`. `PaintInv`: while a press that
  began in the panel is held, the last point is the newest point of the trail, and
  on the canvas. The rest is integer arithmetic: dividing `k * d` by the number
  of steps moves by at most one pixel per step (`Strides`), the discs reach both ends
  (`StepsCover`), and a point between two canvas points is one (`CanvasBetween`).
- `CalcFollowsReference`: `AppsSpec => []CalcIsReference`. The reference is three recursive
  functions of the position in the keys typed (`Number`, `Start`, `Result`), and a key
  makes them functions of a longer sequence. `RecursionExists` shows that such functions
  exist, from the well-foundedness of the naturals, with the step of the recursion
  as a function instead of an operator; `Agree` and its lemmas, that on two sequences
  that are the same up to a key (`SameTo`) they have the same values up to it. `CalcInv`
  then relates the five fields of the calculator to the reference (`Follows`): which
  operator waits, with which left operand, and what the display stands for. It claims
  nothing of a calculation that is not well formed or has overflowed.

**`ShellProofs`** — from `AiAssumption`, `ConsoleAssumption` (screens and a log of any size) and
`ShellAssumption` (any ring and line size, editing characters are not letters, and
`LINE_MAX <= (ROWS - 1) * COLS`). The last holds in the code with room to spare: 128
against 24 · 80 cells of the text screen and 13 · 48 of the Terminal. On a smaller screen
a long line would scroll its own prompt away, and `EchoIsLine` would be false.

- `AuditShowsLog`: `SessionSpec => []AuditIsLog`. `RingInv` gives the place in the ring
  of the record made `back` records ago, around the wrap.
- `AttemptsAlwaysSettled`: `SessionSpec => []AttemptsSettled`. `AttemptInv`: identifiers are
  never used again in table or log (`TableInv`, `IdsInv`), each task in the table
  has exactly one record (`RecordedInv`), a record for task −1 means that the table is full
  (`RefusedInv`), and no record names an unknown task (`KnownInv`).
- `LogsListLatest`: `SessionSpec => []LogsAreRecent`. History and kernel log are the same
  structure, a ring and a count of all that was ever put in. `Holds` places the last
  entries in it; `HoldsNext` keeps it over a store and `HoldsRead` is what `history` and
  `dmesg` read, before the ring is full and after it has wrapped.
- `EchoShowsLine`: `SessionSpec => []EchoIsLine`. A screen is read by position (`Offset`,
  `CellAt`), so that a row's end is nothing special. `Puts` says what a character does to
  a screen: it writes at the cursor or not, and may move everything up by a row; both
  consoles are shown to do that, though they test for the end of a row and of the
  screen in different places. `Shows` is that the text stands right before the cursor. A letter extends it, a
  rub-out shortens it unless the cursor is in column 0 (`torn`), and it survives a scroll
  as long as it fits, which is where the assumption on `LINE_MAX` is used. What a command
  prints is a fold over characters or lines; `FoldExists` and `FoldLast` give its value for
  every sequence. `ShellInv` joins these with the line's length and the two rings.
- `EditingStaysInBounds`: `SessionSpec => []InBounds`, from the same invariant: the line
  leaves room for its zero, and no character takes a cursor off its screen.

**`DesktopProofs`** — from `DesktopAssumption` (any screen, dock and movement bytes).

- `PointerOnScreen` (`OnScreen`), `ScreenKept` (`ScreenIntact`), `NothingUnseen`
  (`QuietMeansSeen`) and `ClickPerPress` (`NoGhostClick`), all from `DesktopInv`:
  `PointerInv` says which axes are clamped at each step of `mouse_inject`, with
  IRQ12 in between; `ScreenInv` at which steps the arrow is hidden and what then
  lies under it; `SeenInv` that with `gdirty` clear the values the loop has read
  are still those of the mouse; `PressInv` that a press not yet seen is marked.

**`HardwareProofs`** — from `TrapsAssumption` (lines 0 to 15, the timer among them, any
scenarios) and `XhciAssumption` (any ports, slots, entries and machines).

- `TrapsKeepContexts`: `Spec => []ContextsIntact`. `TrapInv` divides the states into the
  main context, the entry to ring 3, ring 3 itself, and a trap out of each of
  the three; for each it gives the stack in use and the frames on both stacks.
- `SleepWakeableWithoutUser`: `Spec => [](NoUserOnDesktop => SleepIsWakeable)`. The
  property that `Traps_user` violates holds in every other scenario, so that
  `user` on the desktop is the only cause.
- `UsbTyped`: `XhciSpec => []XhciTypeOK`, for machines of all kinds.
- `BringUpAdvances`: `XhciSpec => [][Advances]_xhciVars`, for machines of all kinds. `Reached`
  numbers the stages of the bring-up, 20 for each port at most. Every step of the
  driver raises it or takes an event out of the ring, and nothing lowers it: with the
  fairness of the run this is why `BringUpEnds` holds for every number of ports.
- `DevicesStayArmed` (`ReadyIsArmed`), `EachPressTyped` (`PressesTyped`) and `OwnAnswers`
  (`AnswersAreOwn`), from `UsbInv`: types, and on orderly machines `OrderInv`. Its
  `QueueInv` is why telling events apart by type suffices there: while the driver
  waits, its request is with the controller or its answer is the last event,
  and otherwise only reports are outstanding. `TableInv` gives devices distinct
  slots; `ArmedInv` says that a ready device has one transfer armed or one report
  waiting; `KeysInv` that every press is typed or in the report that waits.
- `InputDevicesFound`: `PORTS <= SLOTS => (XhciSpec => []HidFound)`. `EnabledInv`: each port
  passed has used up at most one slot. `FoundInv`: the keyboards and mice at
  the ports passed are in the table, or it is full of keyboards and mice. The
  hypothesis is necessary: a device that is not used keeps its slot, so that on a
  controller with fewer slots than ports a keyboard at a late port may find none.

The library's induction schemes take an operator as a parameter, which the installed
provers cannot instantiate. Where a proof needs induction over data it takes the least
member of the *set* of counterexamples from `WFMin` of `WellFoundedInduction`, which has
no such parameter; that is how the line of `lfb_line`, the reference of the calculator
and the folds of the shell are treated.

## Findings

Three runs end in a counterexample. Each compares the code with a sentence of its
own.

1. `Pmm_span`, `pmm.c:89`. A region whose end is, or is capped to, 4 GiB makes
   `(uint32_t)rend` 0. `highest` becomes 0, or the end of a later region, and
   `total_frames` does not span the RAM; `pmm.c:74` says "highest usable physical
   address (capped to 4 GiB)".
2. `Keyboard_race`, `keyboard.c:35`. `keyboard_inject` runs `buffer_push` in the main
   context with interrupts on. If IRQ1 pushes in between, a character is
   overwritten or a stale cell is exposed; `keyboard.c:34` says "drop on overflow
   rather than corrupt".
3. `Traps_user`, `usermode_entry.S:49`. `usermode_resume_kernel` executes `cli` and does
   not restore the interrupt flag, so that after `user` in the desktop's terminal
   the plain `hlt` at `desktop.c:239` never ends; lines 10-11 say it "returns as if
   usermode_enter() had returned normally to its caller". The text shell is not
   affected, because `keyboard_getchar` uses `sti; hlt`.

Observations made while modelling, with no run of their own. The models contain
the behaviour, and the properties are stated so as to hold in spite of it:

- `pmm.c:91`: a region that *starts* in mid-frame frees its first, partial frame,
  while the comment at :92 says "whole frames" (`AlignedMap` in `OnlyWholeRamFrames`).
- `pmm.c:139`: `freepage` of the frame in which an unaligned protected range starts
  is accepted, since the frame's address lies before the range (:34 says "so
  freepage can refuse to touch them"). This concerns the Multiboot structures,
  which need not be aligned.
- `pmm.c:132`: `freepage` of a frame never allocated, such as a hole, is accepted, and
  "used (reserved + allocated)" at :191 is then no longer that sum (`stray`).
- `sched_core.c:70`: `sched_block` and then `sched_unblock` revive an exited task, whereas
  `tests/test_sched.c:50` says "exit removes a task". With an id added twice, block
  stops only the first one (`sched_core.c:20`; `tests/test_sched.c:33`); no caller adds
  an id that is live.
- `shell.c:489`: the text shell never calls `usb_poll`, which `xhci.h:17-18` says is
  called from the "desktop/shell input loops"; a USB keyboard is dead there.
- `kheap_core.c:51`: sizes above 2^32 − 8 wrap to 0 in `align_up`, so that such a request
  succeeds; `tests/test_kheap.c:44` says a request larger than the arena fails
  (`Wrapping` in `LargeEnough`).
- `kheap_core.c:87`: the double-free guard reads a field that may no longer be a header's.
  After `A = kmalloc(8)`, `B = kmalloc(8)`, `kfree(B)`, `kfree(A)`, the call `kcalloc(1, 20)` clears
  B's old `free` word and leaves its magic, so that a second `kfree(B)` passes both tests
  and writes a 1 into the new holder's payload; `tests/test_kheap.c:57-58` tests that
  a double free is ignored. No list header is reached (`UsedMeansHeld`, `Tiled`).
- `kheap.c:26`: `kcalloc` of a total above 2^32 − 8 is given an empty block and zeroes the
  whole total (the guard `Wrapping(total) => Full(...)` in `kcalloc`).
- `apps.c:187`: the result of the autosave is dropped, and every key uses up arena that
  is never reclaimed, so that "autosaved" (:176) ends when the arena is full
  (`CanWrite` in `NotesLostOnlyWhenFull`).
- `xhci.c:193`: a completion later than its time-out is taken as the answer to the next
  request; `xhci.c:183`: a report of a ready device during another's enumeration is
  dropped and its transfer is not re-armed, so that the device stays silent
  (`Orderly` in the properties of `Xhci`).
- `xhci.c:383`: `usb_poll` takes every transfer event as a report, whatever its completion
  code; after a failed interrupt transfer the old bytes of the buffer are decoded again.
- `ai.c:104`: the result −1 of `ai_task_create` is not tested; the attempt is denied and
  recorded for task −1, which `AttemptsSettled` allows when the table is full.
- `kheap_core.c:96`: `heap_realloc` does not test that the block it is given is in use;
  nothing in the kernel calls it with a freed pointer.
- `xhci.c:269`: a failed enumeration leaves its slot enabled with its device context in
  the entry that the next device takes over. What a controller then writes there
  is not modelled.
- `vmm.c:84`: when the framebuffer and the xHCI registers share a 4 MiB region, the
  framebuffer window, mapped last, replaces the registers' directory entry, and the
  registers become cached; the comment at `vmm.c:16` says "mapping one never disturbs
  the other". The addresses stay mapped to themselves (`IdentityKept`).
- `lfb.c:77`: the clamp counts rows against the whole window, but the window starts at
  the 4 MiB boundary *below* the framebuffer: a large framebuffer off such a
  boundary is drawn past the map (`WindowReaches` in `DrawsInWindow`).
- `lfb.c:205`: `lfb_scroll_up` does not clip, so that the console of the fixed 820 × 552
  window leaves a screen too small for it (`ConsoleFits`; C rounds the half of −1 to 0,
  so that a screen one pixel narrower than the window is too small as well).
  `lfb.c:117`: `lfb_clear` clears W · H words from the start, so that with a padded stride the bottom is not cleared.
- `lfb.c:93`: the Multiboot structure is read after paging is on; above 8 MiB it would
  not be mapped.
- `apps.c:98`: an operator pressed twice applies the last operand again; after an
  overflow MIN / −1 traps (`WellFormed`, `over` in `CalcIsReference`).
- `apps.c:221`: a press that begins outside the panel is not passed on, so Paint's last
  point survives it, and dragged into the canvas it continues the stroke before
  (`inside` in `StrokesAreSolid`).
- `vga.c:74` and `gconsole.c:49`: a backspace in column 0 deletes from the line but not
  from the screen, whereas `docs/05_SHELL_COMMANDS.md:11` says the shell "supports
  backspace editing" (`torn` in `EchoIsLine`).
- `shell.c:478`: `gui` prints the prompt twice. After a command that opens an application
  the prompt goes to the VGA text memory, which is not shown, and so would the text
  of a panic or an exception while another application is open (`panic.c:9`,
  `isr.c:65`).
- `desktop.c`: the loop reads `mouse_x()` and `mouse_y()` separately, so that a click may
  be taken at a point where the pointer never was; a press and release between two
  turns of the loop is not seen at all. In Files a click just above the list selects
  its first row.

## What is only model-checked, and what is not modelled

Every invariant and every action property that a passing run checks is also stated by a
theorem above. TLC alone checks *liveness* (`KdemoServesAll`, `DemoCompletes`, `KeysServed`,
`FreeReturns`, `BringUpEnds`, `TrapsComplete`): liveness under fairness, and `ENABLED`, are
outside the prover's reach. Five theorems state the safety part of such an argument for
every value of the constants: `FreeMakesProgress`, `BringUpAdvances`, `DemoReturnsDone`,
`DemoServesAll` and, for the scheduler, `RoundRobinFair`.

`RECURSIVE` operators are outside its reach too, and no module declares one; the loops of
the code are sets with a minimum (first fit, first free slot, first match), actions, one
per turn, folds or recursive functions.

Not modelled:

- **TRB rings**: indices and cycle bits of the xHCI rings are queues in `Xhci`. Planned.
- **Failed interrupt transfers** of USB devices that are ready: the controller completes
  the transfers of `usb_poll` with a report.
- **PS/2 mouse set-up** (`mouse_init`): one step; the loss of single bytes of a packet,
  and the resynchronisation on bit 3 after it, are in `Desktop` only as far as a
  first byte without bit 3 is dropped.
- **Planar VGA graphics and fonts** (`gfx.c`), **serial** (`serial.c`), colours and the text
  of windows: output without state that others read. Of the drawing, which words
  are touched is in `Lfb`, the pixels under the arrow are in `Desktop`.
- **Files and Settings** (`apps.c`): a selection that is redrawn; the theme that Settings
  changes is colours.
- **GDT, IDT layout, port I/O**: constants written at boot; `Traps` uses their meaning.
- **Feature registry, OS report, string library, number formatting, panic**: tables and text.
  Panic halts the machine and ends a behaviour.
- **Boot code**: straight-line assembly; the memory map is an input of `Pmm`.
- **Tests, scripts, previews**: not part of the running system; the tests were read for
  what the code promises.

The models take memory as sequentially consistent, which one x86 CPU with
`volatile` shared variables justifies, and assume that interrupt handlers run with
interrupts off, as the interrupt gates in `idt.c` make them.

## Plan

Order of work, most important behaviour first.

Done:

1. `Pmm`, `Sched`, `Keyboard` with `CharQueue`, `Heap`: the components that others build on,
   checked and proved.
2. `Ramfs` with `FileMap`, `Xhci`, `Traps`, `Ai`, `Desktop`: checked and proved.
3. `SchedDemo` and `Coop` over `Sched`; `Vmm` and `Lfb`, composed with `Pmm` in `Boot`; `Calculator` and `Paint`,
   composed with `Ramfs` in `Apps`; `Console` and `Shell`, with `Ai`: checked and proved.

Next:

4. *TRB rings*: a ring with a link TRB and cycle bits implements the queue that `Xhci`
   uses, for every ring size.
5. *Mouse packets*: loss of a byte and resynchronisation; acknowledgements of `mouse_init`
   racing movement bytes.
6. *Files and Settings*: the selection against a file table that changes under it.
7. *Number formatting* of `kprintf` and `itoa_l` against a reference.

Theorems left: the progress arguments behind `TrapsComplete` and `KeysServed`, as was done
for `BringUpEnds`; the types of `Desktop`, of which the proofs use parts only; and for step 4,
that the ring implements the queue.
