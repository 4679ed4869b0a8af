------------------------------- MODULE Boot --------------------------------
(***************************************************************************)
(* geekos_main's start-up (src/kernel/main.c) with the console and the     *)
(* memory it sets up: the Console actors run their scripts, and the main   *)
(* thread's script also calls mem_init (which loads the GDT), int_init,   *)
(* vm_init_paging, irq_init and keyboard_init in main.c's order.  The      *)
(* console keeps writing to video memory (the ISA hole) after paging is    *)
(* turned on.  The keyboard raises IRQ 1 at any time; the PIC delivers it  *)
(* once the line is unmasked and interrupts are on.                        *)
(*                                                                         *)
(* The steps of the Console module leave memory and the x86 tables alone;  *)
(* the boot calls leave the console alone.  boot_record->mem_upper is fixed by the  *)
(* loader before main runs.                                                *)
(***************************************************************************)
EXTENDS Console, MemInit, X86Setup, Functions, FiniteSets

CONSTANTS
  MemUppers,  \* boot_record->mem_upper values (KB above 1M) to boot with
  MaxKeyIrqs  \* key presses (IRQ 1 edges) the keyboard makes in a run

VARIABLES
  mem,        \* the memory state of MemInit
  mem_upper,  \* boot_record->mem_upper
  cpu,        \* s_gdt, s_idt, g_int_handler_table, and which of GDTR and
              \* IDTR geekos_main has loaded: [gdt, gdtr, idt, idtr, handler, loaded]
  irqs,       \* the two PICs and s_irqmask: [pic, irqmask]
  keys        \* key presses so far

bootVars == <<vars, mem, mem_upper, cpu, irqs, keys>>
x86Vars == <<cpu, irqs, keys>>

KEYB_IRQ == 1

\* mem_init(boot_record) as the main thread's next call: mem_init_segments
\* (x86_seg_init_gdt) first; a failed KASSERT or the PANIC halts the system.
MemInitCall(a) ==
  /\ NextCall(a, "meminit")
  /\ cpu' = [cpu EXCEPT !.gdt = x86_seg_init_gdt.gdt, !.gdtr = x86_seg_init_gdt.gdtr,
                        !.loaded = @ \cup {"gdt"}]
  /\ mem' = mem_init(mem, mem_upper)
  /\ fault' = fault \cup mem'.fault
  /\ Advance(a)
  /\ UNCHANGED <<con, intr, cur, inIrq, started, pc, fmt, args, pend, iflag, log, mark,
                 mem_upper, irqs, keys>>

\* int_init(): its PANIC_IF halts before the IDT is built.
IntInitCall(a) ==
  /\ NextCall(a, "intinit")
  /\ IF int_init.panic
       THEN fault' = fault \cup {"PANIC"} /\ UNCHANGED cpu
       ELSE /\ cpu' = [cpu EXCEPT !.idt = int_init.idt, !.idtr = int_init.idtr,
                                 !.handler = int_init.handler, !.loaded = @ \cup {"idt"}]
            /\ UNCHANGED fault
  /\ Advance(a)
  /\ UNCHANGED <<con, intr, cur, inIrq, started, pc, fmt, args, pend, iflag, log, mark,
                 mem, mem_upper, irqs, keys>>

\* irq_init(): the PICs reprogrammed, s_irqmask recorded.
IrqInitCall(a) ==
  /\ NextCall(a, "irqinit")
  /\ irqs' = irq_init(irqs)
  /\ Advance(a)
  /\ UNCHANGED <<con, intr, cur, inIrq, started, pc, fmt, args, pend, iflag, log, mark, fault,
                 mem, mem_upper, cpu, keys>>

\* keyboard_init up to its int_enable (the "sti" call that follows):
\* interrupts off, the handler installed for KEYB_IRQ, then irq_enable,
\* whose atomic region leaves them off.  x86_ps2_init and the printf are
\* not modelled.
KeybInitCall(a) ==
  /\ NextCall(a, "kbinit")
  /\ intr' = FALSE
  /\ cpu' = [cpu EXCEPT !.handler = irq_install_handler(@, KEYB_IRQ, "keyboard")]
  /\ irqs' = irq_enable(irqs, KEYB_IRQ)
  /\ Advance(a)
  /\ UNCHANGED <<con, cur, inIrq, started, pc, fmt, args, pend, iflag, log, mark, fault,
                 mem, mem_upper, keys>>

\* A key press: the keyboard controller raises IRQ 1, latched in the
\* master's request register.
KeyPress ==
  /\ keys < MaxKeyIrqs
  /\ keys' = keys + 1
  /\ irqs' = [irqs EXCEPT !.pic.master.irr = @ | 2^KEYB_IRQ]
  /\ UNCHANGED <<vars, mem, mem_upper, cpu>>

\* The PIC delivers IRQ 1 (requested, unmasked, nothing of equal or higher
\* priority in service) while interrupts are on and no handler runs: the
\* gate clears EFLAGS.IF, so keyboard_int_handler runs to its irq_end
\* without a thread step between.  Its work on the key queue is
\* KeyboardWorkQueue's; a vector whose C handler is not the keyboard's
\* ends in a HALT (int_unexpected_int_handler) or a jump through NULL.
KeyIrq ==
  LET m   == irqs.pic.master
      vec == m.base + KEYB_IRQ
      pic == [irqs.pic EXCEPT !.master.irr = @ & (255 - 2^KEYB_IRQ),
                              !.master.isr = @ | 2^KEYB_IRQ]
  IN  /\ Running /\ ~inIrq /\ intr
      /\ m.init = "ready"
      /\ Bit(m.irr, KEYB_IRQ) = 1 /\ Bit(m.imr, KEYB_IRQ) = 0 /\ m.isr % 4 = 0
      /\ IF vec \in Vectors /\ cpu.handler[vec] = "keyboard"
           THEN irqs' = [irqs EXCEPT !.pic = irq_end(pic, vec)] /\ UNCHANGED fault
           ELSE irqs' = [irqs EXCEPT !.pic = pic] /\ fault' = {"HALT"}
      /\ UNCHANGED <<con, intr, cur, inIrq, started, pc, call, fmt, args, pend, iflag,
                     log, mark, mem, mem_upper, cpu, keys>>

\* vm_init_paging(boot_record): takes two frames from the free list.
PagingCall(a) ==
  /\ NextCall(a, "paging")
  /\ Len(mem.freelist) >= 2
  /\ mem' = vm_init_paging(mem, mem_upper)
  /\ Advance(a)
  /\ UNCHANGED <<con, intr, cur, inIrq, started, pc, fmt, args, pend, iflag, log, mark, fault,
                 mem_upper, cpu, irqs, keys>>

\* The PICs as the PC BIOS leaves them: initialised, vectors 8 and 0x70,
\* nothing requested or in service, each mask all clear or all set.
BiosPic(mm, sm) ==
  [master |-> [init |-> "ready", ic4 |-> TRUE, icw3 |-> 4, base |-> 8, imr |-> mm, irr |-> 0, isr |-> 0],
   slave  |-> [init |-> "ready", ic4 |-> TRUE, icw3 |-> 2, base |-> 112, imr |-> sm, irr |-> 0, isr |-> 0]]

\* mem_clear_bss has run (the tables, the handler table and s_irqmask are
\* zero); the console is as Console's Init leaves it.
BootInit ==
  /\ Init
  /\ mem = BssState
  /\ mem_upper \in MemUppers
  /\ cpu = [gdt |-> [i \in 0..(GDT_LEN - 1) |-> ZeroDesc], gdtr |-> <<0, 0, 0>>,
            idt |-> [i \in Vectors |-> ZeroDesc], idtr |-> <<0, 0, 0>>,
            handler |-> [i \in Vectors |-> "null"], loaded |-> {}]
  /\ irqs \in {[pic |-> BiosPic(mm, sm), irqmask |-> 0] : mm, sm \in {0, 255}}
  /\ keys = 0

BootNext ==
  \/ Next /\ UNCHANGED <<mem, mem_upper, cpu, irqs, keys>>
  \/ \E a \in Actors : \/ MemInitCall(a) \/ IntInitCall(a) \/ PagingCall(a)
                       \/ IrqInitCall(a) \/ KeybInitCall(a)
  \/ KeyPress
  \/ KeyIrq

BootSpec == BootInit /\ [][BootNext]_bootVars

-----------------------------------------------------------------------------
(* Properties                                                              *)

BootTypeOK ==
  /\ TypeOK
  /\ mem_upper \in MemUppers
  /\ mem.framelist \in [0..(mem.numframes - 1) -> FrameStates]
  /\ mem.freelist \in Seq(0..(mem.numframes - 1))
  /\ mem.paging \in BOOLEAN
  /\ cpu.loaded \subseteq {"gdt", "idt"}
  /\ cpu.handler \in [Vectors -> {"null", "unexpected", "keyboard"}]
  /\ irqs.irqmask \in 0..65535
  /\ keys \in 0..MaxKeyIrqs

\* The GDT and IDT that x86_cpu.c and x86_int.c pack bit by bit decode, as
\* the CPU reads them, to what geekos_main needs: once the GDTR is loaded,
\* KERN_CS and KERN_DS select flat 4G kernel code and data segments and
\* (limit 2^20 - 1 in 4K pages) and entry 3 the TSS at &s_tss; once the IDTR is loaded, every vector's gate
\* is a present 32-bit interrupt gate to its own stub in the kernel code
\* segment; and each register covers its whole table.
FlatKernelSegment(d, type) ==
  /\ DescBase(d) = 0 /\ DescPages(d) /\ DescLimit(d) = 2^20 - 1
  /\ DescType(d) = type /\ Bit(d[2], 12) = 1 /\ Bit(d[2], 15) = 1
  /\ DescDpl(d) = PRIV_KERN /\ Bit(d[2], 22) = 1

DescriptorsDecode ==
  /\ "gdt" \in cpu.loaded =>
       LET r == TableReg(cpu.gdtr) IN
       /\ r.base = GdtBase /\ r.limit >= GDT_LEN * 8 - 1
       /\ cpu.gdt[0] = ZeroDesc
       /\ FlatKernelSegment(cpu.gdt[KERN_CS \div 8], 10)
       /\ FlatKernelSegment(cpu.gdt[KERN_DS \div 8], 2)
       /\ LET t == cpu.gdt[3] IN
            /\ DescBase(t) = TssBase /\ ~DescPages(t) /\ DescLimit(t) >= SIZEOF_TSS - 1
            /\ DescType(t) = 9 /\ Bit(t[2], 12) = 0 /\ Bit(t[2], 15) = 1
  /\ "idt" \in cpu.loaded =>
       LET r == TableReg(cpu.idtr) IN
       /\ r.base = IdtBase /\ r.limit >= INT_NUM_INTERRUPTS * 8 - 1
       /\ \A v \in Vectors :
            LET g == cpu.idt[v] IN
            /\ GateOffset(g) = StubVector + v * INT_HANDLER_STUB_LEN
            /\ GateSelector(g) = KERN_CS
            /\ GateKind(g) = 112 /\ g[2] % 32 = 0
            /\ Bit(g[2], 15) = 1 /\ GateDpl(g) = PRIV_KERN

\* Whenever interrupts are on, every IRQ the PICs let through reaches an
\* IDT vector above the CPU's exceptions whose C handler was installed for
\* it (not NULL, not int_unexpected_int_handler); and once irq_init has
\* run, each chip's mask is its byte of s_irqmask, which irq_set_mask
\* trusts when it skips a write.
IrqsRouted ==
  /\ irqs.pic.master.init = "ready" /\ irqs.pic.master.base = ICW2_MASTER =>
       /\ irqs.pic.master.imr = MASTER(irqs.irqmask)
       /\ irqs.pic.slave.imr = SLAVE(irqs.irqmask)
  /\ intr =>
       \A irq \in (0..(NUM_IRQS - 1)) \ {2} :
         PicPasses(irqs.pic, irq) =>
           LET v == PicVector(irqs.pic, irq) IN
           /\ v \in FIRST_IRQ..(FIRST_IRQ + NUM_IRQS - 1)
           /\ "idt" \in cpu.loaded
           /\ cpu.handler[v] \notin {"null", "unexpected"}

\* keyboard_int_handler's irq_end ends the IRQ it was delivered for, so
\* between interrupts no line of either PIC is left in service (a line
\* left in service blocks itself and every lower-priority IRQ for good).
EoiClearsInService ==
  irqs.pic.master.isr = 0 /\ irqs.pic.slave.isr = 0

\* spec.md 4.C and section 8: after mem_init and after every boot step, a
\* frame is on s_freelist exactly when its state is FRAME_AVAIL, and at
\* most once.  mem_scan_regions' regions do not start on page boundaries
\* (the kernel region's end is not one), so a frame can be set twice.
FreeListExact ==
  LET onList == Range(mem.freelist)
  IN  /\ Len(mem.freelist) = Cardinality(onList)
      /\ \A f \in DOMAIN mem.framelist : (mem.framelist[f] = AVAIL) <=> f \in onList

\* spec.md 4.C: the kernel heap is HEAP_SIZE bytes carved from the first
\* FRAME_AVAIL region of mem_scan_regions that is large enough, and its
\* frames, and no others, are FRAME_HEAP.
HeapCarved ==
  mem.data.heap_created =>
    LET R     == Regions(x86mem_init_layout(mem_upper))
        fits  == {i \in DOMAIN R : R[i].state = AVAIL /\ R[i].end - R[i].start >= HEAP_SIZE}
        first == CHOOSE i \in fits : \A j \in fits : i <= j
    IN  /\ mem.heapstart = R[first].start
        /\ mem.heapend - mem.heapstart = HEAP_SIZE
        /\ mem.data.heap_size = HEAP_SIZE
        /\ \A f \in DOMAIN mem.framelist :
             (mem.framelist[f] = HEAP) <=> mem_frame_to_pa(f) \in mem.heapstart..(mem.heapend - 1)

\* The comment at x86_vm.c:140 leaves page 0 unmapped to catch NULL
\* dereferences; and once paging is on, every frame the kernel is using at
\* boot (its code and data, the heap, the boot stack, the ISA hole with
\* video memory) is mapped at its own address, so the kernel and the
\* console go on running.
KernelStaysMapped ==
  mem.paging =>
    /\ Translate(mem, 0) = -1
    /\ \A f \in DOMAIN mem.framelist :
         mem.framelist[f] \in {KERN, HEAP, KSTACK, HW} =>
           Translate(mem, mem_frame_to_pa(f)) = mem_frame_to_pa(f)

\* spec.md 4.C: the free list is built from the available regions only;
\* the frame array itself (kernel_end onwards, numframes entries of struct
\* frame) is not among the free frames.
FramelistReserved ==
  mem.numframes > 0 =>
    LET kend == x86mem_init_layout(mem_upper).kernel_end
    IN  \A f \in mem_pa_to_frame(kend)..mem_pa_to_frame(kend + mem.numframes * SIZEOF_FRAME - 1) :
          mem.framelist[f] # AVAIL

\* The comment at x86_vm.c:160: with paging on, all of memory (below 2G)
\* but page 0 is mapped at its own address.
PagingMapsMemory ==
  mem.paging =>
    \A f \in 1..(mem.numframes - 1) : Translate(mem, mem_frame_to_pa(f)) = mem_frame_to_pa(f)

=============================================================================
