------------------------------ MODULE MemInit -------------------------------
(***************************************************************************)
(* Physical memory at boot: the frame array, the free list and the kernel  *)
(* heap that mem_init builds (src/kernel/mem.c, src/x86/kernel/x86_mem.c), *)
(* and the kernel page tables of vm_init_paging (src/x86/kernel/x86_vm.c). *)
(*                                                                         *)
(* Boot runs on one CPU with interrupts off and no other thread, so each   *)
(* of the two functions is one state transformer here, written as the     *)
(* composition of the calls it makes.  A memory state m is a record:       *)
(*   framelist   frame number -> frame->state (s_framelist)               *)
(*   freelist    s_freelist, head first                                    *)
(*   numframes, heapstart, heapend (g_heapstart, g_heapend)                *)
(*   data        mem_init's struct scan_region_data                        *)
(*   pagedir, pgtab   the frames vm_init_paging took for them              *)
(*   pde, pte    entry index -> [present, big, base] (page_size is big)    *)
(*   paging      CR0.PG, with CR3 = the page directory                     *)
(*   fault       failed KASSERTs and PANICs                                *)
(* Addresses are bytes, with the i386 values of the constants.  The PTE    *)
(* and PDE flags (always VM_WRITE|VM_READ|VM_EXEC) are left out.          *)
(***************************************************************************)
EXTENDS Integers, Sequences
LOCAL INSTANCE SequencesExt

CONSTANTS
  KernelEnd   \* &end: the linker's end of the kernel's code and data

\* include/x86/arch/mem.h, vm.h; mem.c's HEAP_SIZE; sizeof(struct frame)
\* on i386 (state, two links, page number, refcount, content, errc).
PAGE_POWER == 12
PAGE_SIZE == 2^PAGE_POWER
ISA_HOLE_START == 655360
ISA_HOLE_END == 1048576
HEAP_SIZE == 524288
VM_PT_SPAN == 2^22
ENTRIES == 1024
SIZEOF_FRAME == 28

\* frame_state_t; a zero-filled frame has the first, FRAME_AVAIL.
AVAIL == "AVAIL"
KERN == "KERN"
HW == "HW"
UNUSED == "UNUSED"
HEAP == "HEAP"
KSTACK == "KSTACK"
FrameStates == {AVAIL, KERN, HW, UNUSED, HEAP, KSTACK}

NoEntry == [present |-> 0, big |-> 0, base |-> 0]
ZeroTable == [i \in 0..(ENTRIES - 1) |-> NoEntry]

\* After mem_clear_bss: no frame array, empty lists, no page tables.
BssState ==
  [framelist |-> <<>>, freelist |-> <<>>, numframes |-> 0,
   heapstart |-> 0, heapend |-> 0,
   data |-> [heap_created |-> FALSE, heap_size |-> 0, avail_pages |-> 0],
   pagedir |-> 0, pgtab |-> 0, pde |-> ZeroTable, pte |-> ZeroTable,
   paging |-> FALSE, fault |-> {}]

-----------------------------------------------------------------------------
(* mem.c helpers                                                           *)

mem_round_to_page(addr) ==
  IF addr % PAGE_SIZE # 0 THEN (addr - (addr % PAGE_SIZE)) + PAGE_SIZE ELSE addr
mem_is_page_aligned(addr) == mem_round_to_page(addr) = addr
mem_frame_to_pa(f) == f * PAGE_SIZE
mem_pa_to_frame(pa) == pa \div PAGE_SIZE

\* Mutant: every frame of the region appended, whatever its state.
SetRegionAppendAll(m, start, end, state) ==
  LET n == (end - start + PAGE_SIZE - 1) \div PAGE_SIZE
      fs == [k \in 1..n |-> mem_pa_to_frame(start + (k - 1) * PAGE_SIZE)]
  IN  [m EXCEPT !.framelist = [f \in DOMAIN @ |-> IF f \in Range(fs) THEN state ELSE @[f]],
                !.freelist = @ \o fs,
                !.fault = IF start < end THEN @ ELSE @ \cup {"mem_set_region_state"}]

\* mem_set_region_state: KASSERT(start < end); for addr = start, start +
\* PAGE_SIZE, ... below end, the frame of addr gets the state and, when it
\* is FRAME_AVAIL, goes to the tail of the free list (frame_list_append of
\* list.h, once per frame, in address order).
mem_set_region_state(m, start, end, state) ==
  LET n == (end - start + PAGE_SIZE - 1) \div PAGE_SIZE
      fs == [k \in 1..n |-> mem_pa_to_frame(start + (k - 1) * PAGE_SIZE)]
  IN  [m EXCEPT !.framelist = [f \in DOMAIN @ |-> IF f \in Range(fs) THEN state ELSE @[f]],
                !.freelist = IF state = AVAIL THEN @ \o fs ELSE @,
                !.fault = IF start < end THEN @ ELSE @ \cup {"mem_set_region_state"}]

-----------------------------------------------------------------------------
(* x86_mem.c                                                               *)

\* x86mem_init_layout: &end rounded up to a page, 1M plus mem_upper KB of
\* memory, and the whole frames the frame array needs.
x86mem_init_layout(mem_upper) ==
  LET numframes == (1024 + mem_upper) \div (PAGE_SIZE \div 1024)
  IN  [kernel_end |-> mem_round_to_page(KernelEnd),
       numframes |-> numframes,
       framelist_numframes |-> mem_round_to_page(numframes * SIZEOF_FRAME) \div PAGE_SIZE]

\* mem_create_framelist: the array at kernel_end, zero-filled.
mem_create_framelist(m, layout) ==
  [m EXCEPT !.framelist = [f \in 0..(layout.numframes - 1) |-> AVAIL],
            !.numframes = layout.numframes]

\* The calls of mem_scan_regions, in order: each region starts where the
\* callback said the previous one ended.  The kernel region's end adds
\* framelist_numframes, a count of frames, to an address.
Regions(layout) ==
  LET ends == << PAGE_SIZE, ISA_HOLE_START, ISA_HOLE_END, ISA_HOLE_END + PAGE_SIZE,
                 layout.kernel_end + layout.framelist_numframes,
                 layout.numframes * PAGE_SIZE >>
      states == << UNUSED, AVAIL, HW, KSTACK, KERN, AVAIL >>
  IN  [i \in 1..6 |-> [start |-> IF i = 1 THEN 0 ELSE ends[i - 1],
                       end |-> ends[i], state |-> states[i]]]

\* mem_heap_init
mem_heap_init(m, start, end) == [m EXCEPT !.heapstart = start, !.heapend = end]

\* Mutant: the heap_created test dropped.
ScanRegionHeapAlways(m, r) ==
  LET heap  == r.state = AVAIL /\ r.end - r.start >= HEAP_SIZE
      m1    == IF heap
                 THEN [mem_heap_init(mem_set_region_state(m, r.start, r.start + HEAP_SIZE, HEAP),
                                     r.start, r.start + HEAP_SIZE)
                         EXCEPT !.data.heap_created = TRUE, !.data.heap_size = HEAP_SIZE]
                 ELSE m
      start == IF heap THEN r.start + HEAP_SIZE ELSE r.start
      m2    == mem_set_region_state(m1, start, r.end, r.state)
  IN  IF r.state = AVAIL
        THEN [m2 EXCEPT !.data.avail_pages = @ + (r.end - start) \div PAGE_SIZE]
        ELSE m2

\* mem_scan_region: the first FRAME_AVAIL region of at least HEAP_SIZE
\* bytes gives its start to the heap; then the rest of the region gets its
\* state, and an available region adds its whole pages to avail_pages.
mem_scan_region(m, r) ==
  LET heap  == ~m.data.heap_created /\ r.state = AVAIL /\ r.end - r.start >= HEAP_SIZE
      m1    == IF heap
                 THEN [mem_heap_init(mem_set_region_state(m, r.start, r.start + HEAP_SIZE, HEAP),
                                     r.start, r.start + HEAP_SIZE)
                         EXCEPT !.data.heap_created = TRUE, !.data.heap_size = HEAP_SIZE]
                 ELSE m
      start == IF heap THEN r.start + HEAP_SIZE ELSE r.start
      m2    == mem_set_region_state(m1, start, r.end, r.state)
  IN  IF r.state = AVAIL
        THEN [m2 EXCEPT !.data.avail_pages = @ + (r.end - start) \div PAGE_SIZE]
        ELSE m2

\* mem_init: the frame array, the region scan, and the PANIC without a
\* heap (mem_init_segments loads the GDT; the printf is the caller's next
\* call in the boot script).
mem_init(m, mem_upper) ==
  LET layout == x86mem_init_layout(mem_upper)
      m1     == FoldLeft(mem_scan_region, mem_create_framelist(m, layout), Regions(layout))
  IN  IF m1.data.heap_created THEN m1 ELSE [m1 EXCEPT !.fault = @ \cup {"PANIC"}]


-----------------------------------------------------------------------------
(* x86_vm.c                                                                *)

\* mem_alloc_frame at boot: the head of the free list, with its new state.
\* (Nothing can free a frame yet, so an empty list would wait forever; the
\* action that calls this is guarded by two free frames.)
mem_alloc_frame(m, state) ==
  [m EXCEPT !.framelist[Head(m.freelist)] = state, !.freelist = Tail(@)]

\* VM_PAGE_DIR_INDEX and VM_PAGE_TABLE_INDEX (vm.h): bits 22-31 and 12-21.
VM_PAGE_DIR_INDEX(vaddr) == (vaddr \div VM_PT_SPAN) % ENTRIES

\* Mutant: the table index taken from the directory bits.
TableIndexFromDirBits(vaddr) == (vaddr \div VM_PT_SPAN) % ENTRIES

VM_PAGE_TABLE_INDEX(vaddr) == (vaddr \div PAGE_SIZE) % ENTRIES

\* The entry vm_set_pte, vm_set_pde and vm_set_pde_4m build: present, the
\* frame number of paddr (VM_PAGE_BASE_ADDR) and page_size for a 4M page.
(* Their KASSERTs on alignment hold for every address the loops pass.     *)
Entry(paddr, big) == [present |-> 1, big |-> big, base |-> paddr \div PAGE_SIZE]

\* A loop of vm_set_pte (or vm_set_pde_4m) calls over the addresses addrs,
\* each mapping an address to itself at the entry idx[k] its index macro
\* gives: every entry holds what the last call that indexed it wrote.
SetEach(tab, addrs, idx, big) ==
  [i \in DOMAIN tab |->
     LET hits == {k \in DOMAIN addrs : idx[k] = i}
     IN  IF hits = {} THEN tab[i]
         ELSE Entry(addrs[CHOOSE k \in hits : \A j \in hits : j <= k], big)]

\* The addresses of the two loops: PAGE_SIZE .. VM_PT_SPAN - PAGE_SIZE, and
\* VM_PT_SPAN, 2 * VM_PT_SPAN, ... below mem_max.
LowPages == [k \in 1..(VM_PT_SPAN \div PAGE_SIZE - 1) |-> k * PAGE_SIZE]
BigPages(mem_max) == [k \in 1..((mem_max - 1) \div VM_PT_SPAN) |-> k * VM_PT_SPAN]

\* vm_init_paging: the page directory and the low page table from
\* mem_alloc_frame (zero-filled), the low 4M mapped to itself but for page
\* 0, the rest below mem_max = mem_upper KB in 4M pages, then CR3 and
\* CR0.PG.  (The 2G cap on mem_max is outside the memory sizes the model
\* boots with; the CPU is taken to have PSE, as the emulators do.)
vm_init_paging(m, mem_upper) ==
  LET pgdir   == Head(m.freelist)
      m1      == mem_alloc_frame(m, KERN)
      pgtab   == Head(m1.freelist)
      m2      == mem_alloc_frame(m1, KERN)
      mem_max == mem_upper * 1024
      pte     == SetEach(ZeroTable, LowPages, [k \in DOMAIN LowPages |-> VM_PAGE_TABLE_INDEX(LowPages[k])], 0)
      big     == BigPages(mem_max)
      pde0    == [ZeroTable EXCEPT ![VM_PAGE_DIR_INDEX(0)] = Entry(mem_frame_to_pa(pgtab), 0)]
      pde     == SetEach(pde0, big, [k \in DOMAIN big |-> VM_PAGE_DIR_INDEX(big[k])], 1)
  IN  [m2 EXCEPT !.pagedir = pgdir, !.pgtab = pgtab, !.pte = pte, !.pde = pde,
                 !.paging = TRUE]

\* What the MMU makes of a virtual address once paging is on: the physical
\* address, or -1 for a page fault.  The only page table is the low one.
Translate(m, va) ==
  LET d == m.pde[(va \div VM_PT_SPAN) % ENTRIES]
      t == m.pte[(va \div PAGE_SIZE) % ENTRIES]
  IN  CASE d.present = 0                   -> -1
        [] d.big = 1                       -> d.base * PAGE_SIZE + (va % VM_PT_SPAN)
        [] d.base # m.pgtab \/ t.present = 0 -> -1
        [] OTHER                           -> t.base * PAGE_SIZE + (va % PAGE_SIZE)

=============================================================================
