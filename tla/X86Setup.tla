------------------------------ MODULE X86Setup ------------------------------
(***************************************************************************)
(* The tables and the interrupt controller that geekos_main sets up before *)
(* turning interrupts on: the GDT (x86_cpu.c, called from mem_init), the   *)
(* IDT and the C handler table (x86_int.c), and the two i8259A PICs       *)
(* (x86_irq.c).  Each function is an operator from the state before the    *)
(* call to the state after it, with the i386 values of the constants and  *)
(* their u32_t bit layout.  A table entry is kept as the two 32-bit words *)
(* CPU reads (struct x86_segment_descriptor's words[0..1]); the interrupt  *)
(* gate's bit-fields are laid out as GCC lays them out on i386.  TLC's     *)
(* integers stop below 2^31, so addresses (and segment bases) are below   *)
(* 2G, as GeekOS's are; base & 0xFF000000 is written shiftR(base, 24) *   *)
(* 2^24, its value for such a base.  A segment base goes to bits 16-31 of *)
(* words[0], so the TSS's address is one with bit 15 clear.                *)
(*                                                                         *)
(* The PICs are modelled by what the i8259A does with the bytes written   *)
(* to its ports (initialisation words ICW1-4, mask OCW1, EOI OCW2), so     *)
(* that irq_init and irq_end are checked by their effect on the chips.     *)
(***************************************************************************)
EXTENDS Integers, Sequences, Bitwise
LOCAL INSTANCE SequencesExt

CONSTANTS
  GdtBase,          \* &s_gdt
  TssBase,          \* &s_tss
  IdtBase,          \* &s_idt
  StubVector,       \* &int_handler_stub_vector (lowlevel assembly)
  StubVectorEnd     \* &int_handler_stub_vector_end

\* x86_cpu.c's segment descriptor constants (upper word).
SEG_PAGE_GRANULARITY == 2^23
SEG_PRESENT          == 2^15
SEG_CODE_OR_DATA     == 2^12
SEG_DB               == 2^22
SEG_TYPE_CODE        == 10 * 2^8
SEG_TYPE_DATA        == 2 * 2^8
SEG_TYPE_TSS         == 9 * 2^8

GDT_LEN == 4
SIZEOF_TSS == 104          \* struct x86_tss, cpu.h
PRIV_KERN == 0
SEL_GDT == 0
SELECTOR(index, table, rpl) == ((index & 8191) * 8) | table | (rpl & 3)
KERN_CS == SELECTOR(1, SEL_GDT, 0)
KERN_DS == SELECTOR(2, SEL_GDT, 0)

INT_HANDLER_STUB_LEN == 16
INT_NUM_INTERRUPTS == 64
Vectors == 0..(INT_NUM_INTERRUPTS - 1)
FIRST_IRQ == 32
NUM_IRQS == 16
VALID_IRQ(irq) == irq >= 0 /\ irq < NUM_IRQS

ZeroDesc == <<0, 0>>

-----------------------------------------------------------------------------
(* x86_cpu.c.  The only num_pages passed is 1048576, so num_pages - 1     *)
(* does not wrap.                                                          *)

\* Mutant: base bits 16-23 or-ed in where they are in the base, not in
\* bits 0-7 of the high word.
BaseHighInPlace(desc, base, limit, is_pages) ==
  << desc[1] | (limit & 65535) | ((base & 65535) * 2^16),
     desc[2] | (limit & 983040) | (base & 16711680)
             | (shiftR(base, 24) * 2^24)
             | (IF is_pages THEN SEG_PAGE_GRANULARITY ELSE 0) >>

\* x86_seg_init_base_and_limit: limit bits 0-15 and base bits 0-15 in the
\* low word; limit bits 16-19, base bits 16-23 and 24-31, G in the high.
x86_seg_init_base_and_limit(desc, base, limit, is_pages) ==
  << desc[1] | (limit & 65535) | ((base & 65535) * 2^16),
     desc[2] | (limit & 983040) | (shiftR(base, 16) & 255)
             | (shiftR(base, 24) * 2^24)
             | (IF is_pages THEN SEG_PAGE_GRANULARITY ELSE 0) >>

\* x86_seg_init_code and x86_seg_init_data (after KASSERT(0 <= priv <= 3)):
\* a page-granular segment of num_pages pages.
SegInit(desc, base, num_pages, priv, type) ==
  LET d == x86_seg_init_base_and_limit(desc, base, num_pages - 1, TRUE)
  IN  << d[1], d[2] | type | SEG_CODE_OR_DATA | SEG_PRESENT | SEG_DB
                    | ((priv & 3) * 2^13) >>

x86_seg_init_code(desc, base, num_pages, priv) ==
  SegInit(desc, base, num_pages, priv, SEG_TYPE_CODE)
x86_seg_init_data(desc, base, num_pages, priv) ==
  SegInit(desc, base, num_pages, priv, SEG_TYPE_DATA)

\* x86_seg_init_tss: byte-granular, the limit is sizeof(*tss).
x86_seg_init_tss(desc, tss) ==
  LET d == x86_seg_init_base_and_limit(desc, tss, SIZEOF_TSS, FALSE)
  IN  << d[1], d[2] | SEG_TYPE_TSS | SEG_PRESENT >>

\* x86_seg_init_gdt: memset, entries 1-3, and the GDTR it loads
\* (limit_and_base: the size, then the base's low and high halves).
x86_seg_init_gdt ==
  [gdt  |-> [i \in 0..(GDT_LEN - 1) |->
               CASE i = 1 -> x86_seg_init_code(ZeroDesc, 0, 1048576, PRIV_KERN)
                 [] i = 2 -> x86_seg_init_data(ZeroDesc, 0, 1048576, PRIV_KERN)
                 [] i = 3 -> x86_seg_init_tss(ZeroDesc, TssBase)
                 [] OTHER -> ZeroDesc],
   gdtr |-> << GDT_LEN * 8, GdtBase & 65535, shiftR(GdtBase, 16) % 2^16 >>]

\* struct x86_interrupt_gate as GCC lays it out on i386: offset_low and
\* segment_selector in the first word; reserved:5, signature:8, dpl:2 and
\* present:1 from bit 0 of the second, and offset_high in its upper half.
GateWords(g) ==
  << g.offset_low + g.segment_selector * 2^16,
     g.reserved + g.signature * 2^5 + g.dpl * 2^13 + g.present * 2^15
       + g.offset_high * 2^16 >>

\* x86_init_int_gate: each field keeps as many bits as it has.
x86_init_int_gate(addr, dpl) ==
  GateWords([offset_low |-> addr & 65535, segment_selector |-> KERN_CS,
             reserved |-> 0, signature |-> 112, dpl |-> dpl % 4,
             present |-> 1, offset_high |-> shiftR(addr, 16) % 2^16])

-----------------------------------------------------------------------------
(* x86_int.c                                                               *)

\* int_init: the PANIC_IF on the stub vector's size, one gate per stub,
\* the IDTR, and every C handler int_unexpected_int_handler.
int_init ==
  [panic   |-> (StubVectorEnd - StubVector) \div INT_HANDLER_STUB_LEN # INT_NUM_INTERRUPTS,
   idt     |-> [i \in Vectors |->
                  x86_init_int_gate(StubVector + i * INT_HANDLER_STUB_LEN, PRIV_KERN)],
   idtr    |-> << INT_NUM_INTERRUPTS * 8, IdtBase & 65535, shiftR(IdtBase, 16) % 2^16 >>,
   handler |-> [i \in Vectors |-> "unexpected"]]

\* int_install_handler, once its KASSERT on the range holds.
int_install_handler(table, int_num, handler) ==
  [table EXCEPT ![int_num] = handler]

-----------------------------------------------------------------------------
(* The i8259A, by its data sheet.  A chip is [init, ic4, icw3, base, imr,  *)
(* irr, isr]: init is the initialisation word it expects next ("ready"     *)
(* once initialised), base the vector of its line 0 (ICW2), icw3 the      *)
(* cascade word, and imr, irr, isr its mask, request and in-service        *)
(* registers, one bit per line.  The master is at ports 0x20-0x21, the     *)
(* slave at 0xA0-0xA1, its INT wired to the master's line 2.               *)

\* A write to the command port: ICW1 (bit 4 set) restarts initialisation
\* and clears the mask; OCW2 with 0x60 | n ends line n (specific EOI), with
\* 0x20 the highest-priority line in service; other commands (OCW3, or
\* the rotate modes) do not change what is modelled.
ChipCommand(c, v) ==
  CASE (v & 16) # 0        -> [c EXCEPT !.init = "icw2", !.ic4 = (v % 2 = 1), !.imr = 0]
    [] (v & 8) # 0         -> c
    [] v \div 32 = 3       -> [c EXCEPT !.isr = @ & (255 - 2^(v % 8))]
    [] v \div 32 = 1       -> [c EXCEPT !.isr = IF @ = 0 THEN 0 ELSE @ & (@ - 1)]
    [] OTHER               -> c

\* A write to the data port: the next initialisation word (ICW2 the vector
\* base, ICW3 the cascade, ICW4 if ICW1 asked for it), or else OCW1, the
\* mask.  The GeekOS ICW1 selects cascade mode, so ICW3 always follows.
ChipData(c, v) ==
  CASE c.init = "icw2" -> [c EXCEPT !.base = v & 248, !.init = "icw3"]
    [] c.init = "icw3" -> [c EXCEPT !.icw3 = v, !.init = IF c.ic4 THEN "icw4" ELSE "ready"]
    [] c.init = "icw4" -> [c EXCEPT !.init = "ready"]
    [] OTHER           -> [c EXCEPT !.imr = v]

\* x86_ioport.c's ioport_outb, as the two PICs see it.
ioport_outb(pic, port, value) ==
  CASE port = 32  -> [pic EXCEPT !.master = ChipCommand(@, value)]
    [] port = 33  -> [pic EXCEPT !.master = ChipData(@, value)]
    [] port = 160 -> [pic EXCEPT !.slave = ChipCommand(@, value)]
    [] port = 161 -> [pic EXCEPT !.slave = ChipData(@, value)]
    [] OTHER      -> pic

OutAll(pic, writes) == FoldLeft(LAMBDA p, w : ioport_outb(p, w[1], w[2]), pic, writes)

Bit(x, n) == (x \div 2^n) % 2

-----------------------------------------------------------------------------
(* x86_irq.c.  An IRQ state x is [pic, irqmask]: the chips and s_irqmask. *)

ICW1 == 17
ICW2_MASTER == 32
ICW2_SLAVE == 40
ICW3_MASTER == 4
ICW3_SLAVE == 2
ICW4 == 1
MASTER(mask) == mask & 255
SLAVE(mask) == shiftR(mask, 8) & 255

\* irq_init: ICW1-4 to both chips, mask all but the cascade, and record it.
irq_init(x) ==
  [pic |-> OutAll(x.pic, << <<32, ICW1>>, <<160, ICW1>>, <<33, ICW2_MASTER>>,
                            <<161, ICW2_SLAVE>>, <<33, ICW3_MASTER>>, <<161, ICW3_SLAVE>>,
                            <<33, ICW4>>, <<161, ICW4>>, <<161, 255>>, <<33, 251>> >>),
   irqmask |-> 65531]

\* Mutant: the slave's new byte taken from the master's half of the mask.
SetMaskSlaveFromMaster(x, mask) ==
  LET p1 == IF MASTER(mask) # MASTER(x.irqmask)
              THEN ioport_outb(x.pic, 33, MASTER(mask)) ELSE x.pic
      p2 == IF MASTER(mask) # SLAVE(x.irqmask)
              THEN ioport_outb(p1, 161, MASTER(mask)) ELSE p1
  IN  [pic |-> p2, irqmask |-> mask]

\* irq_set_mask: a chip's mask is written only when its byte of s_irqmask
\* changes.
irq_set_mask(x, mask) ==
  LET p1 == IF MASTER(mask) # MASTER(x.irqmask)
              THEN ioport_outb(x.pic, 33, MASTER(mask)) ELSE x.pic
      p2 == IF SLAVE(mask) # SLAVE(x.irqmask)
              THEN ioport_outb(p1, 161, SLAVE(mask)) ELSE p1
  IN  [pic |-> p2, irqmask |-> mask]

\* irq_enable: MODIFY_IRQ_MASK(irq, &= ~(1 << irq)), kept in 16 bits.  Its
\* atomic region restores the interrupt flag it found.
irq_enable(x, irq) == irq_set_mask(x, x.irqmask & (65535 - 2^irq))

\* irq_install_handler, once KASSERT(VALID_IRQ(irq)) holds.
irq_install_handler(table, irq, handler) ==
  int_install_handler(table, FIRST_IRQ + irq, handler)

\* Mutant: the master and slave branches swapped.
EndSwapped(pic, int_num) ==
  LET irq     == int_num - FIRST_IRQ
      command == 96 | (irq % 8)
  IN  IF irq >= 8 THEN ioport_outb(pic, 32, command)
      ELSE ioport_outb(ioport_outb(pic, 160, command), 32, 98)

\* irq_end: a specific EOI for the line, to the slave and then for the
\* cascade line to the master when the IRQ is the slave's.
irq_end(pic, int_num) ==
  LET irq     == int_num - FIRST_IRQ
      command == 96 | (irq % 8)
  IN  IF irq < 8 THEN ioport_outb(pic, 32, command)
      ELSE ioport_outb(ioport_outb(pic, 160, command), 32, 98)

-----------------------------------------------------------------------------
(* What the CPU reads from the tables (Intel SDM vol. 3, 3.4.5 and 6.11). *)

DescBase(d)  == d[1] \div 2^16 + (d[2] % 256) * 2^16 + (d[2] \div 2^24) * 2^24
DescLimit(d) == (d[1] % 2^16) + ((d[2] \div 2^16) % 16) * 2^16
DescType(d)  == (d[2] \div 2^8) % 16
DescDpl(d)   == (d[2] \div 2^13) % 4
DescPages(d) == Bit(d[2], 23) = 1

GateOffset(w)   == (w[1] % 2^16) + (w[2] \div 2^16) * 2^16
GateSelector(w) == w[1] \div 2^16
\* Bits 5-12 of the high word: 01110000b for a 32-bit interrupt gate.
GateKind(w)     == (w[2] \div 2^5) % 256
GateDpl(w)      == (w[2] \div 2^13) % 4

\* limit_and_base as LGDT and LIDT read it.
TableReg(r) == [limit |-> r[1], base |-> r[2] + r[3] * 2^16]

\* The PIC lets IRQ irq through to the CPU (the slave's lines go through
\* the master's line 2), and the vector it sends for it.
PicPasses(pic, irq) ==
  IF irq < 8 THEN Bit(pic.master.imr, irq) = 0
  ELSE Bit(pic.master.imr, 2) = 0 /\ Bit(pic.slave.imr, irq - 8) = 0
PicVector(pic, irq) ==
  IF irq < 8 THEN pic.master.base + irq ELSE pic.slave.base + irq - 8

====
