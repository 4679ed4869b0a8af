\* Boot as in cons_check: the frame array mem_init builds at the kernel's
\* end is put on the free list (x86_mem.c:87 adds a frame count to a byte
\* address).
CONSTANTS
  main = main
  test = test
  busy = busy
  irq = irq
  Threads = {main, test, busy}
  Main = main
  Irq = irq
  Script <- MCScript
  VGA_NUMROWS = 3
  VGA_NUMCOLS = 8
  CONS_TABSIZE = 8
  LONG_BITS = 16
  Samples <- MCSamples
  Glyphs <- MCGlyphs
  KernelEnd = 1200000
  MemUppers <- MCMemUppers
  MaxKeyIrqs = 2
  GdtBase = 1101824
  TssBase = 1069568
  IdtBase = 1102848
  StubVector = 1052704
  StubVectorEnd = 1053728
SPECIFICATION BootSpec
INVARIANT
  FramelistReserved
