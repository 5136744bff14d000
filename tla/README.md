# Lapis in TLA+

Lapis is a small x86_64 kernel in C. This directory holds TLA+ models of its
parts, written from the code under `src/kernel/src`, TLC configurations that check
them on small instances, and proofs checked by TLAPS. `PROJECT.json` records for
every definition the lines it models, for every property a change of the code that
breaks it, and the hazards the properties are aimed at. All source paths below are
relative to `src/kernel/src`.

## The system

| part | state | operations | who uses it |
|---|---|---|---|
| page allocator, frame database (`mm/pmm.c`, `mm/pfn_db.c`) | a `page_t` for every frame, the free list, `free_pages` | alloc, alloc of a run, retain, release, share, unshare, COW marks | heap, page tables, VMM, stacks |
| kernel heap (`mm/kheap.c`) | slab headers in the pages, one list per size class | kmalloc, kfree, krealloc | everything |
| page tables, VMM (`mm/paging.c`, `mm/vmm.c`), red-black tree (`util/rbtree.c`) | four-level tables, a tree of areas, brk | map, unmap, protect, fault, fork | processes |
| scheduler, wait queues (`sched/sched.c`, `sched/waitqueue.c`) | feedback queues, current thread, wait lists | tick, yield, block, wake, exit | processes, drivers |
| processes (`sched/task.c`) | process tree, thread lists, reference counts | fork, thread create, exit, wait, reap | init, system calls |
| descriptors (`sched/fd.c`) | tables of pointers to counted entries | open, close, dup, dup2, clone | processes |
| files (`fs/vfs`, `fs/ramfs`, `fs/initrd`) | mounts, vnodes, ramfs nodes, open files | lookup, mount, create, remove, link, read, write, seek | descriptors, boot |
| interrupts (`arch/interrupts`) | vectors, IRQ descriptors, handlers, redirection entries | dispatch, request, free, enable, disable, calibrate | drivers, timer, ACPI |
| devices (`dev`) and ACPI's handlers (`acpi/uacpi_wrappers.c`) | lists of drivers and devices, handler entries | register, bind, install, uninstall | boot, drivers |
| locks (`util/spinlock.c`, `util/semaphore.c`) | owner, saved flags, count | acquire, release, wait, signal | everything |
| rest of the ACPI glue, logging, terminal, SMP bring-up, system call entry | lists, registers | registration, output | boot |

What makes it hard: the kernel is preemptible, so every pair of critical sections
of two threads can interleave; interrupt handlers take locks that threads take;
objects are counted by hand and freed after the lock is released; several
structures are updated in two critical sections (dup2, wait, exit, wake). There is
no persistence and no message passing, so there are no crashes to recover from and
no lost messages.

**One CPU.** `kmain` calls `smp_start_aps` (main.c:181) before `smp_prepare`
(main.c:213), so no application processor starts and `nr_cpus` stays 1. The models
take the kernel as it boots: concurrency is preemption by the timer.

## Modules

- **Pmm** (`mm/pmm.c`, `mm/page.h`, the flags of `pfn_db_init`). `page_t` is split
  into functions on frame numbers: `next`, `u2`, `flags`, `refcount`. `u2` is the
  union of the back link and the share count: one word, so a link read from a page
  that was shared is the number that is there. Each function of pmm.c is an
  action, atomic because `pmm_lock` is held; the loops of `pmm_init` and
  `pmm_alloc_pages` are stepped with the lock held, so that their index arithmetic
  is visible. `holders` and `sharers` are ghosts: who owns a page and who shares
  it, against which the counts are compared. Callers are disciplined as
  unmap_page, map_page and the page table code are: a reference is dropped by its
  owner, after the shares. `pmm_pages_release` is a sequence of releases.
  `PAGE_DIRTY` is never set and is left out.
- **Kheap** (`mm/kheap.c`). Slab headers, the list of each cache, and objects as
  (page, offset). kmalloc and kfree are one step each; returning pages comes after
  `kheap_lock` is released and is a step of its own (`slab_destroy`), and krealloc
  is kmalloc, copy, kfree. The page allocator below returns any free pages or
  fails: this is what Pmm promises. Callers pass pointers they own: the paths of
  kfree and krealloc for a bad magic number, which log and return, are left out,
  and so is kzalloc, which only clears what kmalloc returned. `live` is a ghost
  with the size asked for and the number of leading bytes that still hold what was
  written.
- **Sched** (`sched/sched.c`, `sched/waitqueue.c`). Thread states, levels, the run
  queue, one wait queue and the two locks. Code after `_cli()` is one step; code
  with interrupts enabled is stepped, and `sched_tick` may come between any two
  steps and preempt. Needing a lock whose holder was interrupted on the same CPU
  sets `hung`. Slices are not counted: a tick may always be the one that ends the
  slice, and demotes or does not. Time is abstracted to whether a boost interval
  has passed.
- **Proc** (`sched/task.c`). The process tree as sequences of children, thread
  counts, reference counts, and the exit and wait paths stepped at each lock.
  `Strand` is the preemption of a thread that has already set itself ZOMBIE:
  schedule() does not requeue it. A freed process keeps its fields, because
  threads hold no reference and the exit path may still read them. `Abandoned` are
  the children that proc_exit had cut off and not yet moved to init when its
  thread was stranded: nobody moves or reaps them any more. `ChildStaysListed`
  speaks of all others, those of a parent in the middle of its exit (`Leaving`)
  included. A thread is never stranded while it holds a lock; this only removes
  behaviours in which others wait for ever.
- **FdTable** (`sched/fd.c`). Tables and entries with their counts; what happens
  under `table->lock` is a step; `fd_entry_unref` is two (decrement, free), and
  dup, dup2 and teardown are sequences of the calls they make. Allocation failure
  is an alternative wherever the code allocates. The run asks dup2 only for numbers
  below FD_TABLE_MAX.
- **Vmm** (`mm/vmm.c` over `map_page`, `unmap_page` and `pte_free` of
  `mm/paging.c`). The areas of an address space are a set, its page tables a
  function from pages to entries (frame, writable), and each frame has the counts
  and marks of its `page_t` and what it holds. `vmm_lock` serialises map, protect
  and fork, which are stepped page by page (`job`); the fault handler runs with
  interrupts disabled and does not take the lock, so it is one step and the faults
  and stores of other processes come in between. vmm_unmap and vmm_destroy are one
  step, because pages they have and have not reached yet do not affect each other.
  A process has one thread (main.c:144 is the only caller of thread_create_user),
  so it neither faults nor stores during its own call. A fault that the handler
  refuses halts the kernel and is no step. All areas have VFLAG_PRESENT and
  VFLAG_USER. `mem` is a ghost: what each process stored last; `common` one for
  the frames several processes may write: those of shared areas, and copy-on-write
  frames that vmm_protect maps writable without a copy. Both forget frames that
  are free, and `mem` says nothing about common ones.
- **RbTree** (`util/rbtree.c`). The tree as a record of root, size, parent,
  children and colour, and each function as an operator from trees to trees. Left
  and right are mirrored through a parameter where the code writes both cases out.
- **VmaTree** (`mm/vmm.c` again, at the level of the tree). Every call that looks
  for, places, cuts, removes or copies areas, over RbTree; loops fetch `rb_next`
  before they remove, as the code does. Pages are left to Vmm. One call is one
  step (`vmm_lock`, one thread per process).
- **AddressSpace**. What the calls of `mm/vmm.h` promise, page by page, without
  areas or trees: the abstract specification that VmaTree implements.
- **Ramfs**, **Vfs**, **Kfile** (`fs/ramfs/ramfs.c`, `fs/vfs/vfs.c`,
  `fs/vfs/kfile.c`, `fs/initrd/cpio.c` and the file part of `sched/fd.c`). Ramfs
  and Vfs are operators on a record S of nodes, vnodes, mounts and the mount list;
  every result carries the new state, an error and an answer, so that the error
  paths of the code (which references they give back) stay visible. Kfile has the
  variables and the actions: one action per call, since `kmain` makes all calls
  before the scheduler starts; what interleaves is the use of several open files,
  directories and mounts. A path is a sequence of names (no empty ones, so no
  trailing slash), a file its size; the children of a directory are a sequence in
  the order of their `next_sibling` links. The static position of strtok is part
  of S: looking up the target of a link runs a second tokenisation over it, after
  which the outer one finds no further name (`strtok`, `Remaining`). `PathsResolve`
  is therefore about the paths that do not go on behind a link. What the
  code does after using freed memory, hanging or reading behind a buffer is not
  followed: `fault` names it and the behaviour ends. `lost` is a ghost for
  references the code drops on the floor (lookups through links, cpio.c), which
  the counts are compared with. Vnodes that only lost references keep, and nodes
  nothing reaches, are forgotten (`Collect`).
- **Irq** (`arch/interrupts/irq.c`, `isr.c`, `idt.c`, the routing and the
  calibration of `apic.c`, `dev/driver.c`, `dev/bus.c`, `dev/pci.c`, and the
  interrupt callbacks of `acpi/uacpi_wrappers.c`). A call is a list of steps
  (`todo`), and interrupts are raised and taken between any two of them. The
  IOAPIC is a redirection entry per pin; a vector it has sent is pending until it
  is taken. The PIT is off, periodic, or about to interrupt once more, as pit_stop
  leaves it; between the end of a calibration and the masking of its line, that
  last interrupt finds no handler. `LinesReady` states this window and the vector
  of system calls as its only exceptions. An interrupt without a handler halts the
  kernel, as `interrupt_isr` does. `shared` and `denied` are ghosts.

MC_*X* instantiates *X* for TLC. **Lists** has the two operations of the singly
linked lists of task.c and kheap.c (push at the head, unlink at a place) and
**ListLemmas** what they do to the set of members. **PmmProofs**,
**FdTableProofs**, **IrqProofs**, **ProcSteps** with **ProcProofs** and
**KheapLemmas** with **KheapProofs** hold the theorems about the modules they are
named after.

## Runs

| run | bounds | result |
|---|---|---|
| `pmm` | 5 frames, three of them free at first (frame 0 and the last are reserved), 2 owners, at most 4 references and 2 shares at a time, runs of up to 3 pages, at most one page marked COW | 0.8 M states, passes |
| `sched` | 3 threads and idle, 2 levels, all operations | 0.35 M states, passes |
| `sched_fair` | the same with 3 levels, threads that compute and yield, with fairness | passes |
| `sched_hang` | threads that create threads | violated, see below |
| `fdtable` | 2 threads, 2 tables, 2 entries, capacity 1 growing to 3 | 0.9 M states, passes |
| `kheap` | 5 pages of 10 bytes, caches of 4 and 8 bytes, requests of 3, 8 and 9 | 0.4 M states, passes |
| `proc` | 4 processes, 5 threads | 0.8 M states, passes |
| `vmm` | 3 address spaces of one page, 2 frames, 2 contents, eager private and lazy shared areas; at most one reference beyond two per mapping (`MaxLost`) | 0.2 M states, passes |
| `vmm_fixed` | 1 address space of 4 pages, fixed mappings only | violated, see below |
| `vma_tree` | 1 address space of 6 pages, ranges of 3 pages, single pages at a given address, 2 protections | 21 k states, passes |
| `vfs` | names a and b, paths of up to 2 names (3 in archives), 2 files, 1 directory, 2 mounts, up to 4 of nodes, mounts and open files together; files of up to 2 units | 13 k states up to renaming, passes |
| `irq` | 3 vectors, the last of which is the one of system calls, 3 pins, 2 devices on one line, 2 drivers, 2 lines of ACPI, one overridden and one without pin | 1.7 M states, passes |

Why the bounds are enough to be interesting:

- *pmm*: the list has up to three elements, so pages are unlinked from head,
  middle and tail; a run of three can be found, missed and skipped over; two
  owners make retain and share meet release in every order.
- *sched*: one thread can wait, one wake it and the third run or be created in
  between; two levels give demotion and boost.
- *fdtable*: growing once by doubling, once by the slot asked for, and the cap;
  two tables make clone and teardown meet.
- *kheap*: the scaled sizes give a class with two objects per page, one with a
  single object per page (as the 2048 class of the code), and requests of more
  than one page whose size is above what the header can hold.
- *proc*: init, a first process, two children, two of them with a second thread or
  a grandchild; so exit, wait and reparenting race.
- *vmm*: a parent can fork again while its first child takes a copy-on-write
  fault, and there is a frame for one copy; vmm_protect turns a shared area into a
  private one. Every unmap leaves a reference behind (see below), so these are
  bounded. States after vmm_brk hung are checked but not continued: only faults
  and stores could follow.
- *vma_tree*: six areas of a page make every case of the two rebalancings happen,
  on both sides; a range of three is cut at either end and in the middle, and lies
  over up to three areas. `Disjoint` bounds the search: states in which areas
  overlap are checked and not continued (the code lets callers produce them, see
  `vmm_fixed`). The view drops the ghost `call`, on which no step depends.
- *vfs*: two open files of one node of two units meet in every order of reads,
  writes, seeks and removal; four objects suffice for a link into a mount and for
  a mount in a directory of another. `ExtractFaithful` is evaluated for every
  archive of up to 3 entries over 6 names, and of up to 2 with names of depth 3.
  States that differ only in which free object was taken are identified
  (`StateView`).
- *irq*: two vectors besides that of the timer, so they run out while a second
  device is bound; the devices share a line, drivers overlap in what they fit.

*Refinement.* `vma_tree` checks that VmaTree implements AddressSpace
(`ImplementsAddressSpace`). A page is mapped to the protection of the area that
covers it; `mmap_base` and `call` are the same on both sides. The abstract Map has
to choose the highest gap below `mmap_base`, so that the probing of
`_find_free_gap` is compared with a definition in one line; abstract unmap and
protect say what happens to each page of the range and that no other changes.

What the passing runs show: the properties in `PROJECT.json`, each described at
its definition. Deadlock is checked in `pmm`, `kheap`, `fdtable`, `vma_tree` and
`sched_fair`; in `sched`, `proc`, `vmm` and `vfs` the system may stop (a hang on a
lock, all threads gone or asleep, a fault), in `irq` after an interrupt without
handler.

*Fairness.* `sched_fair` assumes weak fairness of the passing of time
(`BoostInterval`) and of the running thread's tick or yield: the timer is periodic
and interrupts are enabled in threads. Nothing is assumed about which thread is
chosen.

### What does not hold

- `sched_hang`: `sched_enqueue` takes `rq->lock` with interrupts enabled
  (sched/sched.c:170). A tick inside runs schedule(), which needs the lock: what
  `spinlock_acquire` calls a recursive deadlock (util/spinlock.c:15).
- `vmm_fixed`: `_range_overlaps` (mm/vmm.c:191) looks only for the area at the
  first address, so vmm_map accepts a fixed mapping that begins in a gap and
  reaches into an area, which it means to refuse (mm/vmm.c:294).

Facts the models contain that contradict no statement of the repository. The
properties are stated around them.

- *Memory.* Allocating a page and mapping it each count a reference, and unmapping
  drops one, so a frame is not given back by vmm_unmap or vmm_destroy; for the
  same reason the share count of a mapped frame is at least 2, and the
  copy-on-write fault never takes its path for a page that nobody else has.
  vmm_unmap never cuts an area at the end of the range (mm/vmm.c:381). vmm_protect
  maps a copy-on-write page writable without a copy (mm/vmm.c:465). vmm_brk takes
  `vmm_lock` twice (mm/vmm.c:495).
- *Threads.* `sched_exit_current` names the running thread as the zombie, which
  schedule() frees at once, stack and all (sched/sched.c:491, 358). A thread that
  is queued and chosen again keeps the state READY (sched/sched.c:396). proc_wait
  can miss the exit of a child (sched/task.c:746), and an exit preempted after it
  set ZOMBIE is never finished: children it had still to move to init stay behind
  (sched/task.c:595).
- *Files.* With O_APPEND kwrite writes at the size it remembers, which other open
  files do not update, and moves the position as if it had written there; a
  position behind the end makes ramfs_read compute a count below zero
  (fs/vfs/kfile.c:98, fs/ramfs/ramfs.c:311). O_CREAT fails for a file that exists:
  ramfs says EEXIST, kopen expects -EEXIST (fs/vfs/kfile.c:42). Unmounting
  anything but "/" hangs (fs/vfs/vfs.c:235). A second mount at "/", or a third at
  another path, is never found. Removing an open file, or unmounting under an open
  directory, leaves a pointer to freed memory (fs/ramfs/ramfs.c:711,
  fs/vfs/vfs.c:255), and vfs_readlink of something else than a link reads the
  vnode it gave back. A path that goes on behind a link ends at the target of the
  link (fs/vfs/vfs.c:508, util/memory.c:154). Lookups that end at a link, and
  every lookup of cpio.c, keep a reference. A directory entry of an archive
  becomes a regular file, and what lies in it is then skipped or stops the boot.
- *Interrupts.* An interrupt that is pending while its vector is freed halts the
  kernel, or goes to the next owner of the vector. Of two users of one line only
  the last is served, and freeing one masks it for both
  (arch/interrupts/irq.c:137, 171). Vector 0x80 is given out like the others, but
  the IDT has the system-call handler there, which sends no EOI. A calibration
  that saw no tick leaves 0xFE registered and its line open
  (arch/interrupts/apic.c:410), and after one that did, the PIT's last interrupt
  may come when the handler is gone and the line not yet masked
  (arch/interrupts/apic.c:451).

Hazards listed in `PROJECT.json` without a property are among these; each has a
note.

## Proofs

Every theorem is about all values of the constants, from the assumptions named in
the module it is about (finite sets, positive limits, `NULL` not one of the
values). Each module of proofs defines its inductive invariant `Inv`, which TLC
also found true on the instance of the run, and has one lemma per action and,
below it, a step per conjunct the action can disturb. Counting rests on the
cardinality theorems of the library.

**Pmm** (PmmProofs), for every number of frames and every memory map:
`PmmInvariant`, and from it `FreeListStaysLinked`, `FreeCountIsExact`,
`RefcountIsExact`, `ShareCountIsExact`, `NoPageIsLost`, `AllocPagesIsFirstFit`.
None of the properties is inductive alone. `Inv` adds that the links are mutual
(`ListLinked`: the successor of a listed page names it as predecessor, the head
has none), that a page is in one of three states (`PageStates`: reserved, free and
listed with no count, or owned), that free pages carry no SHARED or COW
(`FreePagesClean`), and how far the job in progress is (`JobProgress`: frames
passed over cannot start a run, frames counted are free). Mutual links are what
lets free_list_remove be reasoned about without walking the list, and they are
needed since `u2` is overwritten by share counts.

**FdTable** (FdTableProofs), for any threads, tables, entries and capacities:
`FdTableInvariant`, and from it `SlotsStayInBounds`, `TablesDieOnce`,
`EntryCountsAreExact`, `EntriesDieOnce`. `Inv` adds what a call may hold at each of
its steps (`CallShape`: a table to tear down, the entry it took or still has to
let go), and puts the count and the life of an entry together (`Balanced`): that an
entry which nobody refers to has exactly one call about to free it is what makes
the count of the others exact after fd_entry_unref has let go of its lock.

**Proc** (ProcSteps, ProcProofs), for any processes and threads:
`ProcInvariant`, and from it `LastThreadEndsTheProcess`, `ZombiesAreReapedOnce`,
`ChildrenStayListed`. `Inv` adds who holds a process (`HoldOk`: at most one fork or
wait, and what state it is in), that live_thread_count is never too small and is
zero once a thread runs proc_exit (`LiveOk`: nobody is left who could add one),
that the list of a running process has only its own children (`ListOk`) and that
the rest of a list that proc_exit walks has just those still to be moved
(`WalkOk`), disjoint from every other list. `ChildOk` says of a child that its
parent is running and lists it, or that an exit still walks over it (`Walked`).

**Irq** (IrqProofs), for any vectors, lines, overrides, devices and drivers:
`IrqInvariant`, and from it `VectorsAreOwned`, `LinesAreReady`, `LinesAreServed`,
`DevicesAreBound`. Three of the four properties speak only of the time between
calls, so `Inv` says where a call is: that the steps left (`todo`) are those of one
of sixteen phases (`Steps`, `Progress`), what is already true of the vector it
works on (`Handled`), and, of every other vector, line and device, that the
property holds already (`Owned`, `Served`, `Bound`). `LinesAreReady` is about every
state, calls in progress included; for the calibration `BootOk` says which steps
have the handler in place and which only the masking left (`Answered`).

**Kheap** (KheapLemmas, KheapProofs), for any page size, header, caches and
request sizes: `KheapInvariant`, and from it `SlabListsAreExact`,
`ObjectsAreDisjoint`, `PagesAreNotHoarded`, `ContentsSurviveRealloc`. That no two
objects share a byte is not inductive: kmalloc takes what the free list offers, so
`Inv` says of each page that its free objects and those in use are different
places of the slab (`SmallOk`; a big slab has the one behind its header, `BigOk`),
that a slab about to be released has none in use (`PageOk`), and that every page
taken belongs to the extent of one slab (`PagesOk`). Bytes then differ because
places do (`Apart`) or pages do (`PageOf`, `SamePage`). `CacheOk` adds to the list
that at most one slab of a cache is empty, which kfree keeps because the other one
would be on the list too (`CountsTwo`). `Fits` is how far `object_size`, a field of
16 bits, may understate a big object; `MovesOk` is that no two krealloc calls work
on one object.

Only model-checked: `FreeListExact` (that the pages *reachable* from the head are
the free ones needs a rank along the list that the invariant does not carry yet), all
liveness, and so far everything about Sched, Vmm, the file system and the
tree of areas (RbTree, VmaTree, Ramfs and Vfs are recursive, which the prover does
not handle).

## Plan

1. Proofs: soundness of the run queue, owned frames in Vmm.
2. **Vmm**: kernel and MMIO mappings (map_paddr), the tables and their release
   when empty, two threads of one process faulting during a fork.
3. Exec in Proc; a composition of Proc and Sched.
4. Spinlocks with saved flags and two CPUs, once a second CPU starts.

## Not modelled

- Register programming (local APIC and PIT rates, GDT, PCI configuration space,
  MADT), rendering, formatting and the vendored printf: no state that others
  depend on. The vendored printf, the font and the terminal alone are almost a
  fifth of the code.
- SMP work stealing and the start of other CPUs, which the kernel as booted cannot
  reach, and system calls, whose handler only logs.
- map_paddr, which keeps `paging_lock` when it fails (mm/paging.c:288), and the
  page tables above the leaves.
- In the file system: failing allocations, modes and owners, ioctl, pipes (stubs),
  the registry of types, negative positions, writing to directories, the parsing
  of archive headers.
- In Irq: `hwirq_to_irq`, `init` and `remove` of drivers, polarity and trigger,
  the ticks of the local timer (Sched has them) and `lapic_timer_sleep_kernel`.
- Semaphores and the ACPI callbacks other than interrupt handlers: wrappers for a
  library that is not part of the repository.

The reasons are with each component in `PROJECT.json`.
