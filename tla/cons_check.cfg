\* Boot with the console as the code scrolls it, a kernel image ending at 1200000 and 4M or 8M of memory.
CONSTANTS
  main = main
  test = test
  busy = busy
  irq = irq
  Threads = {main, test, busy}
  Main = main
  Irq = irq
  Script <- MCScript
  VGA_NUMROWS = 3
  VGA_NUMCOLS = 8
  CONS_TABSIZE = 8
  LONG_BITS = 16
  Samples <- MCSamples
  Glyphs <- MCGlyphs
  KernelEnd = 1200000
  MemUppers <- MCMemUppers
  MaxKeyIrqs = 2
  GdtBase = 1101824
  TssBase = 1069568
  IdtBase = 1102848
  StubVector = 1052704
  StubVectorEnd = 1053728
SPECIFICATION BootSpec
INVARIANTS
  BootTypeOK
  PrintfAtomic
  ConversionsAgree
  FreeListExact
  HeapCarved
  KernelStaysMapped
  DescriptorsDecode
  IrqsRouted
  EoiClearsInService
