# TLA+ models of the GeekOS kernel

These modules model the concurrent core of GeekOS (`src/src/kernel`, `src/src/x86/kernel`):
the single-CPU scheduler, the mutex and condition variable built on it, the
frame allocator, and the VM page cache. The page cache reads pages through the
block-device layer, the ramdisk driver and the work-queue thread. Further
modules cover the keyboard, thread life cycles, the block-address arithmetic,
the device registry with the VFS's mount and path lookup, the text
console that every thread and interrupt handler prints through, the
boot-time set-up of the frame array, free list, heap and page tables, and
the x86 tables and interrupt controllers (GDT, IDT, i8259A PICs). The
intrusive lists of `list.h` are modelled link by link. TLC checks
each model. The models are written from the C source. Line references are in
`PROJECT.json` under `"map"`.

## 1. The system

| Part | Source | State | Operations |
|---|---|---|---|
| Scheduler | `thread.c`, `thread.h` | `g_current`, `s_runqueue` (FIFO), `thread->state`, a `struct thread_queue` per waitable object | `thread_wait`, `thread_wakeup(_one)`, `thread_park`, `thread_yield`, `thread_schedule`, `thread_exit`, create/join/detach |
| Preemption | `timer.c`, IRQ return (asm, not in `src/`) | `num_ticks`, `g_need_reschedule`, `g_preemption` | the tick sets `g_need_reschedule` after `TIMER_QUANTUM` ticks; the IRQ return yields if `g_preemption` is set |
| Mutex / condition | `synch.c` | `mutex->state`, `owner`, wait queue; `cond->waitqueue` | `mutex_lock`, `mutex_unlock`, `cond_wait`, `cond_signal`, `cond_broadcast` |
| Frame allocator, heap | `mem.c`, `x86_mem.c` | `s_freelist`, `frame->state`, `refcount`; the heap | `mem_alloc_frame` (waits on `s_frame_waitqueue`), `mem_free_frame`, `mem_alloc`, `mem_free` |
| VM page cache | `vm.c` | `obj->lock`, `obj->cond`, `obj->pagelist`; `frame->content`, `vm_pgcache_page_num`, `errc` | `vm_lock_page`, `vm_alloc_and_page_in`, `vm_release_frame_ref`, `vm_unlock_page` |
| Block requests | `blockdev.c`, `blockdev_pager.c`, `lba.c`, `range.c` | `struct blockdev_req` (state, rc, waitqueue) | `blockdev_read_sync` → `issue_sync` → `post_and_wait` → `wait_for_completion`; `notify_complete` |
| Ramdisk + work queue | `ramdisk.c`, `workqueue.c` | the work-item list and `s_waitqueue` | `ramdisk_post_request` → `workqueue_schedule_work`; `workqueue_thread` runs `ramdisk_handle_request` |
| Keyboard | `keyboard.c`, `x86_keyb.c`, `queue.h` | the scan-code ring buffer | IRQ handler enqueues and wakes; `wait_for_key` |
| Devices, VFS, PFAT | `dev.c`, `vfs.c`, `pfat.c` | registry lists, mount table, inodes | register/lookup, mount, lookup path, open |
| Console, string, boot | `cons.c`, `string.c`, `main.c`, `x86_cons.c`, `x86_mem.c`, `x86_vm.c` | screen, frame array, page tables | output, set-up |
| x86 tables, PICs | `x86_cpu.c`, `x86_int.c`, `x86_irq.c`, `cpu.h` | `s_gdt`, `s_idt`, `g_int_handler_table`, `s_irqmask`, the two 8259As | `x86_seg_init_gdt`, `int_init`, `irq_init`, `irq_enable`, `irq_end` |
| Intrusive lists | `list.h` | head/tail per list, next/prev per node | `IMPLEMENT_LIST_*` |

How the parts interact on a page-cache read:
1. A thread calls `vm_lock_page`, which takes `obj->lock` and scans the page list.
2. On a miss, it allocates a frame, marks it `PAGE_PENDING_INIT`, and unlocks.
3. It calls the pager. The pager issues a synchronous block read, and the
   ramdisk queues it as a work item.
4. The requesting thread sleeps on the request's wait queue.
5. The work-queue thread copies the data and calls `blockdev_notify_complete`,
   which wakes the requester.
6. The requester re-locks `obj->lock`, sets the content, broadcasts on
   `obj->cond` to wake threads that found the frame pending, and returns.

Hard behaviours:
- Threads interleave only where they can lose the CPU. That happens in a
  `thread_wait`, or where a timer tick can preempt because interrupts and
  `g_preemption` are both on.
- `mutex_lock_imp` retests the mutex after waking.
- `cond_wait` must release the mutex and park without a gap.
- Frames run out while `obj->lock` is held.
- Pageins fail.
- A freed heap block is reused.

Correctness, per part:
- **Scheduler:** the run queue and the wait queues are disjoint, and every
  waiter is eventually woken.
- **Mutex:** mutual exclusion, and waiters make progress.
- **Page cache:**
  - one frame per page, and the locked frame holds that page;
  - refcounts equal the references held;
  - a pending frame is owned by its pagein thread;
  - failure is reported to every thread that asked for the page;
  - every call returns.
- **Frame allocator:** the free list is exactly the `FRAME_AVAIL` frames.
- **Block layer:** the rc returned is the rc the driver stored, and no
  assertion fails.

## 2. Modules

- **`KSched.tla`** holds the scheduler primitives of `thread.c`, written as
  functions from one scheduler state `[cur, runq, wq, st]` to the next.
  - `MakeRunnable`, `Schedule` (`thread_next_runnable` + `thread_schedule`),
    `Wait`, `WakeupOne`, `Wakeup` (RECURSIVE) and `Yield`.
  - A composing module chains them in the order one C handler calls them. For
    example, `cond_wait` is `Wait(MutexUnlockImp(s), "cond")`.
  - `Wait` leaves `thread->state` at `RUNNING`, as `thread_wait` does.
- **`PageCache.tla`** composes KSched with `synch.c`, the frame allocator,
  `vm.c`, `blockdev.c`, `ramdisk.c` and `workqueue.c`. Its threads are:
  - the `Clients`, each a loop of `vm_lock_page`, then `vm_unlock_page` if
    rc == 0 and a frame was returned;
  - the work-queue `Worker`;
  - the `Idle` thread.
- **`LinkedList.tla`** translates `list.h`'s `IMPLEMENT_LIST_*` functions
  as operators on one link state: `head` and `tail` per list, `next` and
  `prev` per node. All lists of one node type share the node's single pair
  of links, as `DEFINE_LINK` makes them. `Walk` (RECURSIVE) and
  `Represents` relate a link state to the sequences it stands for.
  PageCache instantiates it for `struct frame` with the lists `"free"`
  (`s_freelist`) and `"page"` (`obj->pagelist`): `links` is moved by
  `list_remove_first`/`list_append` when a frame is allocated and by
  `list_remove`/`list_append` when the last reference evicts it, and the
  page-list scan walks the links. The sequences `freelist` and `pagelist`
  are kept beside the links as the abstract view.
- **`MCPageCache.tla`** supplies the `PageinResults` sets, which contain errno
  values that a `.cfg` cannot write.

### How PageCache corresponds to the code

Only `g_current` takes steps, and each action runs from one point where the
thread can lose the CPU to the next such point. `pc` names these points:
- `lp_scan`, `lp_check` and `cw_park` are in `vm_lock_page`;
- `af_wait` is the wait in `mem_alloc_frame`;
- `pi_post` through `pi_done` are in the pagein of `vm_alloc_and_page_in`;
- `ul_lock` and `ul_dec` are in `vm_unlock_page`;
- `ml_park` is the park in `mutex_lock_imp`, and `ret` says where the thread
  continues once it gets the mutex.

`synch.c` clears `g_preemption` in several windows. Each window ends in the
same step, either by setting it again or in `thread_park`, so `g_preemption` is
true at every step boundary and is not a variable.

`Preemptible` lists the points where interrupts are on. At those points
`Preempt` (the timer tick, then `thread_yield`) may run. The IRQ-return code is
assembly outside `src/`, so `Preemptible` is marked `spec_modelled`.

Actions:
- `Call`, `Scan` (with `AllocAndUnlock` / `FrameWait`), `Check` and
  `CondResume` together make up `vm_lock_page`.
- `PageinPost`, `PageinWait`, `PageinReturn` and `PageinDone` make up
  `vm_alloc_and_page_in` and the blockdev calls under it.
- `UnlockPage` and `UnlockPageDec` make up `vm_unlock_page`.
- `WorkerTake` and `WorkerCall` make up `workqueue_thread` and
  `ramdisk_handle_request`.
- `IdleYield` is `thread_idle`. `ClientExit` is `thread_exit` of a detached
  thread.

Data abstractions:
- Two frame fields that nothing in the source assigns are constant operators.
  `vm_pgcache_page_num(f) == 0` and `errc(f) == 0`, because
  `mem_create_framelist` zero-fills the frame array.
- Frame data is the page number it was read from (`fdata`).
- An uninitialised `rc`, and a `req->rc` read from a reused heap block, are
  nondeterministic choices in `RcValues`.
- Heap reuse is modelled only where it matters: a request that has been freed
  but not yet read may have its block handed to a later `mem_alloc` (the
  `reused` flag).
- `leaked` counts the references returned with a garbage non-zero rc, which a
  correct caller never drops.

Not modelled, with reasons:
- The retry loop of `mem_alloc_frame`: in this model only
  `vm_release_frame_ref` frees frames, and it needs `obj->lock`, which the
  waiting thread holds. So a waiter is never woken (a consequence of
  finding 1).
- The LBA window arithmetic of `blockdev_pager_rw_page` and the ramdisk's
  range check. Here they are folded into `PageinResults`; `LbaRange` models
  them.

### KeyboardWorkQueue (`keyboard.c`, `x86_keyb.c`, `queue.h`, `workqueue.c`)

Threads: `Main` runs `wait_for_key`, `Worker` is `workqueue_thread`,
`Poster` stands for any kernel code calling `workqueue_schedule_work`, and
`Idle` is `thread_idle`. The keyboard interrupt (`KeyboardIrq`) may fire at
any point where interrupts are enabled (`IntsEnabled`).
- The ring buffer keeps the code's own index arithmetic: `NEXT` is
  `(index + 1) & QUEUE_MASK`, `is_queue_full` and `is_queue_empty` compare
  the indices, and `Enqueue` drops the keycode when the ring is full.
- `KeyboardIrq` is the whole `keyboard_interrupt_handler`: the escape and
  out-of-table codes are ignored, the shift and control keys update
  `s_shiftstate`, and every other code is translated through `ScanTable`
  (three scan codes, each with its make and break code), flagged, enqueued,
  followed by `thread_wakeup(&s_waitqueue)` and the yield of the IRQ return.
- Both `wait_for_key` and `workqueue_thread` wait on the same
  `s_waitqueue`: keyboard.c's own declaration is commented out, so the name
  resolves to the work queue's global.
- `accepted`, `got`, `posted` and `ran` are history variables: the
  keycodes stored, the keycodes returned, and the work items posted and run.

### Threads (`thread.c`, `mem.c`, `workqueue.c`, `main.c`)

The main thread runs `geekos_main`'s thread program generalised to three
children (`MCThreads.tla`): a DETACHED child `d1` whose start function
returns (so `thread_run` calls `thread_exit(0)`), and two ATTACHED children,
`a1` calling `thread_exit(42)` like `test_thread` and `a2` exiting with 0.
Main creates them in order, yields, joins `a1` and `a2`, and ends in
`geekos_main`'s `wait_for_key` loop (`WaitForKey`). No key arrives in
this model, so each pass calls `thread_wait(&s_waitqueue)`. That is the
queue the work queue thread waits on, so a `thread_wakeup_one` posted for
the worker may reach main instead (see Findings 4). Under `th_check`'s
scripts `d1` has always exited before main reaches the loop, so no
destroy item is posted while main waits there.
- `CreateAlloc`, `CreateFrame` and `CreateInit` are `thread_create`: the
  `mem_alloc` of the record and the `mem_alloc_frame` of the stack, each with
  its wait loop, then the refcount (1, or 2 when ATTACHED) and
  `thread_make_runnable`.
- `KidRun` is the start function and `thread_exit`: `thread_detach` of the
  self-reference, then (`ExitFinish`) the exit code, state `EXITED`, the wakeup
  of `thread->waitqueue` when a reference remains, and `thread_schedule`.
- `Join` is `thread_join`: `thread_wait_until(&child->waitqueue,
  thread_not_running)`, the exit code, and `thread_detach` of the parent's
  reference.
- `ScheduleWork` is `workqueue_schedule_work` called by `thread_detach` when
  the last reference goes. Its `mem_alloc` can wait with interrupts off, in
  the middle of an exit or a join; the caller then finishes in the same step.
- `WorkerTake`, `WorkerDestroy`, `WorkerFreeThread` and `WorkerFreeItem` are
  `workqueue_thread` running `thread_destroy`: `mem_free_frame` of the stack,
  `mem_free` of the record, `mem_free` of the item, each in its own atomic
  region and each waking its allocator's waiters.
- The heap is a count of free blocks (`heapFree`) and the frame pool a count
  of free frames; the idle and work-queue threads are created by
  `thread_init` and `workqueue_init` before `Init`.
- A failed `KASSERT`, and a read of a record that `thread_destroy` freed, set
  `fault` and stop the thread (`HALT()`).

### LbaRange (`range.c`, `lba.c`, `blockdev_pager.c`, `ramdisk.c`)

This module is the block-address arithmetic under the page cache. Every
operator works in `u32_t` arithmetic and wraps modulo `2^U32_BITS`. The C
width is 32 bits, but TLC's integers are 32-bit signed, so the runs use
`U32_BITS = 16`. Their inputs include the values next to the wrap-around
point (32768, 65534 and 65535). Each operator is written for any width, so
its edge cases at 16 bits are the ones it has at 32.
- These operators are named after their C functions:
  - `range_is_valid_u32`;
  - `range_bit_count` (RECURSIVE);
  - `range_is_power_of_two`;
  - `lba_add_offset`, with its overflow KASSERT as `AddOverflows`;
  - `lba_is_range_valid`;
  - `lba_compare`;
  - `lba_num_blocks_in_range`;
  - `lba_get_num_blocks_in_table`.
- The state has four parts:
  - `disk`: the ramdisk's size, chosen as `ramdisk_create` in `main.c` would;
  - `pager`: one `blockdev_pager`, or `None`;
  - `lastIo`: the last request a page call made;
  - `fault`: the KASSERTs that failed.
- `Create` is `blockdev_pager_create`:
  - the power-of-two KASSERTs;
  - EINVAL unless the window lies on the device and a block fits in a page;
  - otherwise `num_blocks_per_page = PAGE_SIZE / block_size`.
- `RwPage` is `blockdev_pager_read_page`/`write_page` through
  `blockdev_pager_rw_page`. It computes, in order:
  - the page's first LBA and its end;
  - the window's end;
  - the clip of a ragged last page;
  - `lba_num_blocks_in_range`;
  - the ramdisk's rc, which is `ramdisk_handle_request`'s range check (the
    `memcpy` is not modelled).

  The KASSERTs are tested in call order.
- Page numbers are not restricted. Nothing in `src/` calls `vm_lock_page`
  or the pager's `read_page`, so no caller is known to check them. A page
  past the window trips `lba_num_blocks_in_range`'s KASSERT. That halts
  the kernel, so the state has no successor, and `lb_check` does not
  check deadlock.
- `Debug` says whether KASSERT is compiled in.

### Vfs (`dev.c`, `vfs.c`, `pfat.c`, `string.c`)

The device registry, the virtual filesystem's mount and path lookup, and
the string functions that compare names. Client threads run a fixed
`Script` of calls: `devreg` (`dev_register`), `devfind` (`dev_find`),
`drvreg` (`vfs_register_fs_driver`), `mountroot` (`vfs_mount_root`),
`mount` (`vfs_mount`) and `open` (`vfs_get_root_dir` then
`vfs_lookup_inode` then `vfs_release_ref`). No kernel code calls these yet,
so each client stands for a future caller.
- Names and paths are C strings: sequences of character codes with an
  implicit NUL. `strnlen` (RECURSIVE), `strncmp` and `strncpy` are operators
  named after their C functions; `NextElement` and `Walk` are
  `vfs_get_next_path_element` and the loop that consumes a path.
- A mutex is its owner (`fsOwner` for `s_fs_mutex`). The device-list and
  driver-list sections never wait, so each is folded into the step that
  calls it.
- `pc`/`loc` hold each client's place in a call. The lookup is split at
  every point where it may wait or drop `s_fs_mutex`:
  - `LookupBegin`: the start directory's reference and the EINVAL test;
  - `LockDir`/`LookupLoop`: `vfs_lock_dir` (wait on `inode_cond` while the
    directory is busy) and the scan of the child list, which compares the
    name with `dir->name` as the code does;
  - `LookupIo`: the driver's lookup with `s_fs_mutex` released, then the
    append to the child list;
  - `LookupRelock`: re-taking the mutex, `vfs_unlock_dir`'s broadcast, and
    moving on to the child or failing.
- `ino` is the inode table (busy, parent, children, refcount); `held` is a
  bag per client of the references the client's calls hold.
  `vfs_adjust_refcounts` walks the parent chain (`Chain`, RECURSIVE); its
  KASSERT that no refcount becomes negative halts the system when `Debug`
  is TRUE.
- A failed KASSERT or a page fault is recorded in `fault`. Every action is
  guarded by `Running`, so a fault halts the model and `Done` stutters.
- Drivers: `pfat.c` as written cannot mount anything. `pfat_read_super`
  returns 0 without storing the superblock, and its error path calls a
  ramdisk `close` that does not exist. So a pfat mount of a registered
  device ends in one of the faults of `PfatFaults`. Lookups need a working
  driver, and pfat's `lookup` is `KASSERT(false)`. The model therefore
  registers **"cfs"**, a stand-in driver that is not in `src/`. It has the
  operations `vfs.h` declares, over a fixed tree (`DiskTree`). Its
  `create_instance` and `get_root` may fail; `get_root` returns a root
  with one reference, as `pfat_get_root` does; `lookup` returns a new
  inode, or EEXIST for a name the directory does not hold.
- `RootDirUnlock`: `vfs_get_root_dir` ends with `mutex_lock` where
  `mutex_unlock` belongs (`vfs.c:381`).
  - With FALSE, the model runs the code as written: the caller parks
    holding the mutex (or, with `Debug`, trips `mutex_lock_imp`'s KASSERT).
    Every other call then stops at its first `mutex_lock`.
  - With TRUE, the model runs the unlock that spec.md prescribes.
  - `vfs_check` uses TRUE. Its properties are about the lookups, mounts and
    registrations that come after that call, and with the code's lock none
    of them is reached. The run says nothing about line 381 itself.
- `MCVfs.tla` supplies the strings, the tree and the scripts. None of
  these can be written in a `.cfg`.

### Console (`cons.c`, `x86_cons.c`, `int.h`) and Terminal

`Console.tla` models the x86 text console and `cons_printf` as
`geekos_main`, its threads and an interrupt handler call them.
- `con` is `s_xcons` with the screen: `scr[row][col]` holds a character
  code (the attribute byte is constant and left out), `x` and `y` are the
  cursor.
- The screen operators are named after the C functions:
  - `ClearArea`, `Scroll`, `NewLine`, `PutGraphic`;
  - `PutChar` (tab, newline and other characters), `ClearToEol`;
  - `MoveCurs`, `Clear`.
  The hardware cursor (`x86cons_updatecurs`) and port E9 are I/O and are
  left out.
- The conversions `cons_ultoa`, `cons_ltoa` and `cons_ltox` are RECURSIVE
  operators over `unsigned long` of width `LONG_BITS`. Their output is a
  sequence of character codes.
- `intr` is EFLAGS.IF. `int_begin_atomic`/`int_end_atomic` are written out
  in the actions that call them (`EndAtomic`), and `iflag` keeps the saved
  flag of each actor's outer (printf) and inner (`cons_write`/`cons_putchar`)
  region.
- `Script` gives each actor its calls. `MCConsole.tla` takes them from
  `main.c`:
  - `geekos_main`: clear, the banner, `keyboard_init` (`sti`), its
    message, the test thread's create, print and join, the busy thread;
  - `test_thread` and `busy_thread`;
  - an unexpected interrupt, whose handler prints and halts.
  Strings and numbers are shortened to fit the 3 x 8 screen.
- `cons_printf` is split where another actor could run if interrupts were
  on. `PrintfBegin` is `int_begin_atomic`, `PrintfStep` is one pass of
  the format loop (with the nested region's begin), `Put` is one
  `x86cons_putchar`, `PutEnd` the nested `int_end_atomic`, and
  `PrintfEnd` the outer one.
- `Preempt` is a timer tick or a yield handing the CPU to another created
  thread, possible only while interrupts are on. `IrqEnter` is the CPU's
  interrupt gate and the entry stub; the stub is assembly that is not in
  the repository, so `IrqEnter` is not mapped. `IrqHalt` is the end of
  `int_unexpected_int_handler`.
- `Scroll` is `x86cons_scroll` as written, including the swapped
  arguments of its last-row clear (`x86_cons.c:96`, see Found in reading).

`Terminal.tla` is the console spec.md describes, and is written from the
spec, not from the code. It is a grid of at most `NUMROWS` lines, with tab
stop `TABSTOP`, wrap at the last column, and scroll on a newline at the
bottom. `Console` instantiates it: the rows from the top to the cursor's
row are its lines, and the cursor's column is its column. The property
`TerminalRefined` states that every console step is a terminal step or
leaves the terminal unchanged. The code's scroll breaks it, so no kept run
checks it (see Found in reading).

### MemInit (`mem.c`, `x86_mem.c`, `x86_vm.c`, `arch/mem.h`, `arch/vm.h`) and Boot

`MemInit.tla` holds boot-time memory set-up as pure operators on one
record `m`: the frame array (`framelist`, a state per frame), `s_freelist`
(a sequence of frame numbers), `g_heapstart`/`g_heapend`,
`struct scan_region_data`, and the page directory and low page table.
- `x86mem_init_layout` computes `kernel_end`, `numframes` and
  `framelist_numframes` from `mem_upper`, with `sizeof(struct frame)` = 28.
  The linker symbol `end` is the constant `KernelEnd`.
- `Regions` is `mem_scan_regions`' six calls, with their bounds as the code
  writes them. `mem_init` folds `mem_scan_region` over them, after
  `mem_create_framelist` (all frames zero, i.e. `FRAME_AVAIL`), then checks
  the `PANIC_IF`.
- `mem_scan_region` carves the heap from the first large enough available
  region, then calls `mem_set_region_state`, which sets every page from
  `start` in steps of `PAGE_SIZE` and appends each `FRAME_AVAIL` frame.
- `vm_init_paging` takes two frames with `mem_alloc_frame`, fills the low
  page table (page 0 left out) and the 4M directory entries below
  `mem_max`. `SetEach` is one of its loops, written as the table it leaves
  (each entry holds the last write to its index). `Translate` is the MMU's
  walk, used only by the properties.
- Not modelled: CPUID and the CR registers (the CPU is taken to have
  PSE), and the `cons_printf` wording.

`X86Setup.tla` holds the x86 tables and the interrupt controllers as pure
operators:
- `x86_seg_init_base_and_limit`, `x86_seg_init_code`/`_data`/`_tss` and
  `x86_seg_init_gdt` compute the GDT's two 32-bit words per descriptor
  with the code's masks, shifts and ORs (`Bitwise`), and the GDTR's
  `limit_and_base`. `x86_init_int_gate` fills `struct x86_interrupt_gate`
  field by field, each truncated to its width, and `GateWords` lays the
  bit-fields out as GCC does on i386. `int_init` builds the 64 gates, the
  IDTR and the handler table, after its `PANIC_IF` on the stub vector's
  size; the stub vector is assembly outside the repository, so its
  bounds are the constants `StubVector` and `StubVectorEnd`.
- The PICs are modelled by what an 8259A does with each byte written to
  its ports (`ChipCommand`, `ChipData`: ICW1-4, the mask OCW1, specific
  and non-specific EOI). `ioport_outb` routes a write to the chip.
  `irq_init`, `irq_set_mask` (which writes a byte only when it differs
  from `s_irqmask`), `irq_enable` and `irq_end` are the code's sequences
  of writes. A chip starts as the BIOS leaves it: vectors 8 and 0x70,
  masks all clear or all set.
- `Desc*`, `Gate*`, `TableReg`, `PicPasses` and `PicVector` are what the
  CPU and the PIC read back (Intel SDM, 8259A data sheet); only the
  properties use them.
- TLC's integers stop below 2^31, so the addresses are below 2G and the
  TSS's address has bit 15 clear (it goes to bits 16-31 of `words[0]`).

`Boot.tla` composes `Console` with `MemInit` and `X86Setup`. Main's
script in `MCConsole.tla` calls, in `geekos_main`'s order, `mem_init`
(`MemInitCall`, which loads the GDT first, as `mem_init_segments` does),
`int_init` (`IntInitCall`), `vm_init_paging` (`PagingCall`), `irq_init`
(`IrqInitCall`) and `keyboard_init` (`KeybInitCall`: interrupts off, the
handler installed, `irq_enable(1)`; its `int_enable` is Console's `Sti`).
`KeyPress` raises IRQ 1 at any time, up to `MaxKeyIrqs` presses.
`KeyIrq` is the PIC's delivery of IRQ 1 and `keyboard_int_handler` up
to its `irq_end`, in one step: the interrupt gate clears `EFLAGS.IF`, so
no thread runs in between; the handler's work on the key queue is
`KeyboardWorkQueue`'s. The console actors and the boot calls touch
disjoint state.
- Only IRQ 1 is raised, and it is on the master. `irq_end`'s slave branch
  (an EOI to both chips) is never taken in a run, so `EoiClearsInService`
  says nothing about it.
- `irq_enable`'s only caller is `keyboard_init`, which runs after
  `irq_init`, so `s_irqmask` always matches the master's mask when
  `irq_set_mask` compares them.

## 3. Runs

The `pc_` runs use 2 clients, 2 frames, `MaxRounds = 2` calls per client, the worker
and the idle thread.

| Run | Expect | Bounds | Checks |
|---|---|---|---|
| `pc_safety` | pass (6.6M states, ~2 min) | pages {0,1}, results {0, EIO} | `TypeOK`, `MutexExclusion`, `FreeListExact`, `RefcountAccounting`, `PendingFrameOwned`, `ListsLinked` |
| `pc_live` | pass (~100k states) | page {0}, results {0, EIO}, `FairSpec` | `LockPageTerminates` |
| `pc_wrong_page` | violation | pages {0,1}, results {0} | `LockedFrameHoldsPage` |
| `pc_error_lost` | violation | page {0}, results {EIO} | `LockPageResult` |
| `pc_uaf` | violation | page {1}, results {0} | `IssueSyncReturnsDriverRc` |
| `kb_check` | pass (65k states, ~12 s) | 2-slot ring, 3 interrupts over all scan-code classes, 2 work items, `FairSpec` | `TypeOK`, `KeysInOrder`, `KeyEventuallyRead` |
| `kb_lost_wakeup` | violation | 1 interrupt, 2 work items, `FairSpec` | `WorkItemRuns` |
| `th_check` | pass (1k states) | `d1`, `a1`, `a2`; 4 heap blocks, 2 frames, `FairSpec` | `TypeOK`, `NoFault`, `DestroyedOnce`, `JoinReturnsExitcode`, `MainCompletes`, `ExitedEventuallyDestroyed` |
| `lb_check` | pass (301 states) | 16-bit `u32_t`; disks of 2, 10 and 64 blocks; windows and pages inside, at the end of and past the window; no deadlock check (a failed KASSERT halts) | `TypeOK`, `RangeValidMeansFits`, `PowerOfTwoMeansOneBit`, `TableBlocksRoundUp`, `RequestWithinPage`, `PageIo` |
| `cons_check` | pass (25k states, ~2 min) | 3 threads and an interrupt, a 3 x 8 screen, `LONG_BITS = 16`, the code's scroll; 4M and 8M of memory, `KernelEnd = 1200000`; 2 key presses, 4 BIOS PIC masks | `BootTypeOK`, `PrintfAtomic`, `ConversionsAgree`, `FreeListExact`, `HeapCarved`, `KernelStaysMapped`, `DescriptorsDecode`, `IrqsRouted`, `EoiClearsInService` |
| `mem_framelist` | violation | as `cons_check` | `FramelistReserved` |
| `vfs_check` | pass (254k states, ~90 s) | 2 clients, 9 inodes, device name "r0", paths "a", "a/b", "b", "ab"; `RootDirUnlock`, no `Debug` | `TypeOK`, `RefcountIsHolders`, `OneLookupPerDir`, `NoLostWakeup`, `DevNamesUnique`, `StrncmpAgrees`, `PathElementsAgree` |

Why these bounds are enough:
- Two clients and two frames are enough for every interleaving the properties
  are about:
  - a mutex waiter overtaken by the releaser;
  - a second client waiting on a pending pagein that fails;
  - both frames in use while a third lookup misses;
  - a freed request reused by the other client.
- Two calls per client let one client unlock and lock again while the other is
  parked.
- `pc_safety` covers pages 0 and 1. With two pages, both hits and misses
  happen.
- `pc_live` uses page 0 only. In the repository's build (where
  `vm_pgcache_page_num` is 0), any other page exhausts the frames (finding 1). Every
  behaviour would then end in the hang that finding describes.

Keyboard and thread bounds:
- `kb_check`'s ring of 2 slots holds one keycode, so the third interrupt can
  find it full and drop; the scan codes cover a key's make and break code,
  shift press and release, control, escape and an out-of-table code.
- `th_check`'s 4 heap blocks and 2 frames are one short of what the three
  children and their work items can hold at once: `mem_alloc` waits in
  `thread_create` and in an exit or join, and `mem_alloc_frame` waits for
  `d1`'s stack to be freed. The three children cover both modes, an exit
  before and after the join, and the last reference dropped by the exit
  and by the join.
- `lb_check`'s `Samples` are chosen so that every operator meets its
  wrap-around case:
  - 0 and 1;
  - powers of two and their neighbours;
  - 140, an entry size that is not a power of two;
  - the largest 16-bit values.
- The windows start at LBA 0, 1, 7, 60 and 65535.
- Their lengths are 0, 1, 2, 8, 9, 17 and 65535 blocks.
- Together these make creates both fail and succeed, and make
  `lba_add_offset` overflow.
- The 9- and 17-block windows end in a ragged last page.
- The three properties about pure operators also quantify over the disk's
  block count and the pager's window in the current state.

VFS bounds (`vfs_check`):
- Both clients register the same device name and the same two drivers, so
  the duplicate tests of `dev_register` are reached from both sides.
- `c1` mounts the root and opens two paths while `c2` mounts on a path and
  opens one. Two lookups therefore meet on the root directory: one waits
  on `inode_cond` while the other's driver lookup runs without the mutex.
- The paths cover a directory, a file inside it, a file at the top and an
  element longer than `VFS_NAMELEN_MAX` (1), which gives EINVAL.
- Each driver lookup adds a new inode and nothing frees one (`vfs.c:256`),
  so the heap is the bound: 9 inodes are enough for the scripts, and with
  6 the model deadlocks in `mem_alloc`.
- `Debug` is FALSE, so that a refcount that goes negative is seen by
  `TypeOK` rather than stopped by the KASSERT.

Console bounds (`cons_check`):
- With 3 rows of 8 columns, main's messages wrap at the last column, put a
  tab across the end of a row, and scroll the screen several times.
- The interrupt can come at any point after `sti`, including in the middle
  of a thread's printf (if interrupts were on there). The test and busy
  threads print while main is between calls.
- `LONG_BITS = 16` keeps the numbers small. The `Samples` include 0, the
  numbers next to a power of ten, and the largest and smallest 16-bit
  values, so the digit reversal runs for every length, and `cons_ltoa`
  negates the most negative value.
- `cons_ltox` prints 8 hex digits of a 32-bit value as the code does. The
  16-bit values are sign-extended.
- Memory of 4M (`mem_upper = 3072`) and 8M (7168): every region of
  `mem_scan_regions` is non-empty, the heap fits in low memory, and the
  high region is below and above one 4M page. `KernelEnd = 1200000` is not
  page aligned, so `mem_round_to_page` rounds it. The frame array (1024
  or 2048 entries) takes 7 or 14 pages, more than the frame count the
  kernel region adds. The operators are closed forms over the 1024 table
  entries, so larger memories cost no extra states.
- Two key presses: the first can arrive before `irq_init` (it stays
  requested through the reprogramming and is delivered once IRQ 1 is
  unmasked and interrupts are on), the second while the first is being
  handled or after. The BIOS masks, all clear or all set on each chip,
  make `irq_set_mask`'s skipped writes and `irq_init`'s reprogramming
  matter. The TSS at 0x105200 has non-zero base bits in the low field
  (bits 0-15) and the middle one (bits 16-23) that
  `x86_seg_init_base_and_limit` fills; its top byte is zero.

Page-cache lists (`pc_safety`): `ListsLinked` checks the links after
every step of every behaviour of `pc_safety`, in which both frames move
from the free list to the page list and back, one of two frames is
evicted while the other stays, and a frame is allocated again after its
eviction.

Fairness:
- Each client and the worker get strong fairness on their own steps. Preempt
  is excluded from those steps.
- Justification: a thread that becomes `g_current` runs until it waits or its
  `TIMER_QUANTUM` expires, so a thread scheduled infinitely often takes its
  step.
- Preemption itself is never forced.
- The idle thread gets weak fairness on its yield.
- In `Vfs`, each client gets weak fairness on its own steps. Every client
  runs a finite script, and the scheduler runs every runnable thread in
  turn. A woken waiter competes for the mutex again rather than receiving
  it, so the model does not assume a FIFO hand-off.
- `Console` has no fairness and no liveness property. Its properties are
  safety properties.

Mutants:
- Each property of a passing run is broken by a plausible code bug; for
  the page cache:
  - `mutex_lock_imp` with `if` instead of `while`;
  - the frame not removed from the page list on eviction;
  - no `refcount++` on a hit;
  - content not set after a successful pagein;
  - `mem_alloc_frame` with initial refcount 0;
  - `mutex_unlock_imp` not waking a waiter.
- for the keyboard: `NEXT` without the mask, `enqueue` without the full
  check, the IRQ handler without its wakeup;
- for threads: `mem_alloc` ignoring a failed `malloc`, `thread_create`
  without the parent's reference, `thread_detach` testing before the
  decrement or off by one, `thread_not_running` as "state is not RUNNING",
  `thread_exit` without the wakeup of its joiners.
- for the LBA arithmetic:
  - `range_is_valid_u32` without its `num > total` guard;
  - `range_is_power_of_two` as `x & (x - 1) == 0`;
  - the table size truncated instead of rounded up;
  - the division in `num_blocks_per_page` with its operands swapped;
  - the offset of the next page instead of this one;
  - the ragged last page never clipped.
- for the VFS:
  - the lookup's start reference not taken;
  - `vfs_adjust_refcounts` adjusting only the inode, not its ancestors;
  - `vfs_lock_dir` with `if` instead of `while`;
  - `vfs_unlock_dir` without its broadcast;
  - `dev_register` without the duplicate test;
  - `strncmp` comparing one character past the limit;
  - a path element that must end at a separator.
- for the console:
  - `x86cons_putgraphic` testing `x > VGA_NUMCOLS` for the wrap;
  - `int_end_atomic` that always enables interrupts;
  - `cons_ultoa`'s reversal running one pass too many.
- for the lists: `list_append` that does not clear the node's links first.
- for the x86 tables and PICs: base bits 16-23 or-ed in place instead of
  into bits 0-7 of the high word; `irq_set_mask` taking the slave's byte
  from the master's half; `irq_end` with its master and slave branches
  swapped.
- for boot memory:
  - `mem_set_region_state` appending every frame, whatever its state;
  - `mem_scan_region` carving a heap from every available region;
  - `VM_PAGE_TABLE_INDEX` taking the directory bits.
- Each is listed in `PROJECT.json`.

## 4. Findings

TLC confirms each finding with a counterexample:
1. **`vm.c:162`**: `vm_pgcache_page_num` is never assigned, so:
   - `vm_lock_page(0)` returns another page's frame (`pc_wrong_page`);
   - every other page misses and leaks a frame until `mem_alloc_frame` blocks
     with `obj->lock` held, which hangs the cache. The model shows this with
     page {1} under `FairSpec`; it is not kept as a run.
2. **`vm.c:185`**: a waiter on a failed pagein returns `frame->errc`, which is
   never set. It returns 0 with no frame (`pc_error_lost`).
3. **`blockdev.c:39`**: `req->rc` is read after `mem_free(req)` (`pc_uaf`).
   Another thread's request may take over the block in between. Its `rc` is
   still the 0 that `blockdev_create_request` sets (`blockdev.c:54`), so the
   caller sees 0 where its driver returned an error.
4. **`workqueue.c:105`**: `wait_for_key` sleeps on the work queue's
   `s_waitqueue` (keyboard.c's own queue is commented out), so
   `thread_wakeup_one` in `workqueue_schedule_work` can wake the key reader
   instead of the worker; the reader finds no key and sleeps again, and the
   posted item waits for a key press (`kb_lost_wakeup`).
5. **`x86_mem.c:87`**: `mem_scan_regions` ends the kernel region at
   `layout.kernel_end + layout.framelist_numframes`, a byte address plus a
   frame count (`mem_framelist`).
   - The frame array at `kernel_end` (`numframes` x 28 bytes) is set
     `FRAME_AVAIL` and put on `s_freelist`, so `mem_alloc_frame` can hand
     out the pages that hold `struct frame` entries.
   - The region ends inside a page, so the frame at `kernel_end` is set
     `FRAME_KERN` by one call and `FRAME_AVAIL` by the next.
   - `avail_pages`, the count printed at boot, is then one less than the
     high region's frames on the free list.

Found in reading and not checked by a kept run. Where a reproduction is
given, it uses a modified copy of a cfg. These copies are not kept as
runs in `PROJECT.json`:
- `blockdev_pager.c:51`: `page_num * num_blocks_per_page` wraps in
  `u32_t`, and nothing compares `page_num` with the window. A large page
  number reads or writes the blocks of a page inside the window with rc 0.
  With `DiskSizes = {1024}`, `Nums = {2}`,
  `Pages = {0, 1, 8192}` and `INVARIANT PageIo` in a copy of
  `lb_check.cfg`, TLC finds it (8 blocks per page at 16 bits; at 32 bits
  the page is 2^29). A page past the window that does not wrap trips the
  `lba_num_blocks_in_range` KASSERT (`lba.c:155`). `lb_check` reaches that
  case, and `RequestWithinPage` shows that the KASSERT is the only thing
  keeping a wrapped block count away from the driver.
- `vm_init_paging` sets `mem_max = mem_upper * 1024` (`x86_vm.c:134`),
  which leaves out the first megabyte. When memory is 4M x k plus at most
  1M, the free frames above the last 4M page are never mapped, although the
  comment at line 160 maps "the rest of the low 2G". With
  `MemUppers = {4096}` (5M) and `INVARIANT PagingMapsMemory`, TLC finds
  frame 1024 unmapped. `(1 << 31)` on line 135 is a signed overflow; the
  model boots with less than 2G.
- `blockdev.c:35`: `KASSERT(state == BLOCKDEV_REQ_FINISHED)` is applied to
  an rc, so every synchronous I/O halts in a KASSERT build. With `Debug =
  TRUE` in `pc_safety.cfg`, TLC reaches the failed assertion on the first
  pagein (`NoAssertionFailure`).
- `x86cons_scroll` clears the last row with `x86cons_clear_area(cons,
  VGA_NUMROWS-1, 0, VGA_NUMCOLS)` (`x86_cons.c:96`), with x and y swapped.
  - The last row keeps the line that was just scrolled up.
  - Part of rows 0 and 1 is blanked instead.
  With `PROPERTY TerminalRefined` in a copy of `cons_check.cfg`, TLC
  finds a violation within 750 states: after the first scroll, the new
  bottom line still shows the text above it.
- `main.c:81` calls `timer_init`, which nothing in the repository
  defines, and nothing installs an IRQ 0 handler or unmasks IRQ 0. In
  this source tree the timer never ticks; `IrqsRouted` holds with IRQ 0
  masked. The PageCache and Console models let a tick preempt a thread,
  as spec.md describes the timer.
- `cpu.h:184-187` declares `x86_seg_init_null`, which is defined nowhere,
  and `x86_eg_init_code`, a misspelling of `x86_seg_init_code`; the
  latter is called only inside `x86_cpu.c`, after its definition.
- The GDTR and IDTR limits are `sizeof` the table (`x86_cpu.c:124`,
  `x86_int.c:55`) where the CPU expects the size minus one, and the TSS
  limit is `sizeof(struct x86_tss)`; each only allows one byte more, and
  `DescriptorsDecode` holds.
- `cons.h:58` declares `cons_cleartoeol`, but `cons.c` does not define
  it. Nothing calls it yet.
- `thread_create`'s comment says it returns 0 when there is not enough
  memory (`thread.c:148`). It waits in `mem_alloc_frame` instead.
  - It waits forever when the only frame belongs to an attached child the
    caller has not yet joined.
  - With `FRAMES_FREE = 1`, `th_check`'s `MainCompletes` fails.
- `vm.c:151`: the hit path of `vm_lock_page` returns `rc` without setting
  it. The model chooses its value nondeterministically. No run checks the
  hit path's result. `LockPageResult` is only in `pc_error_lost`, where
  every pagein fails (`PageinResults = {EIO}`), so no frame is ever
  CLEAN and no lookup hits.
- `vfs_get_root_dir` locks `s_fs_mutex` again at its exit (`vfs.c:381`)
  instead of unlocking it. In a copy of `vfs_check.cfg` with
  `RootDirUnlock = FALSE`, `CHECK_DEADLOCK FALSE` and `PROPERTY
  EveryCallReturns`, TLC finds a violation within 190 states: the first
  `open` parks holding the mutex. `vfs_check` itself runs the unlock that
  spec.md prescribes.
- `vfs_lookup_child` compares the name with `dir->name` instead of the
  child's name (`vfs.c:242`), so a cached child is returned for any name
  once the directory's name matches. spec.md lists this among its open
  questions.
- `s_root_instance` is never assigned (`vfs.c:134`), so a second
  `vfs_mount_root` is not refused.
- `vfs_mount` tests the mountpoint's type and `mount` field before it takes
  `s_fs_mutex` (`vfs.c:323`), so two mounts on one directory can both pass.
- `pfat_read_super` never stores the superblock (`pfat.c:131`), so every
  pfat mount of a registered device faults.
- The driver's lookup appends a fresh inode even when the child list
  already holds one for the name, and inodes are never freed (`vfs.c:256`).
- The spec says exactly one thread is `RUNNING` at any instant; `thread_wait`
  leaves a waiting thread's state `RUNNING`, so this never holds once a
  thread waits. The models keep the code's behaviour (`KSched.Wait`).

## 5. Plan for the remaining work

1. **`Mutex`**: an abstract mutex (owner and a set of waiters). The
   PageCache mutex is shown to refine it with `INSTANCE ... WITH`.
2. VFS: a second mounter, to explore the `vfs_mount` race at `vfs.c:323`;
   the reference counting shown to refine an abstract "holders" spec.
3. The console: keyboard echo from `geekos_main`'s loop, composed with
   the keyboard model.
4. `thread_queue`, the device list and the inode child lists as
   `LinkedList` instances in place of sequences.
5. Boot: `keyboard_int_handler`'s queue composed into `KeyIrq`, and
   `thread_init` and the frames `thread_create` takes after paging,
   composed with `Threads`; the frame allocator of `PageCache` started
   from `mem_init`'s free list instead of a fixed one.
