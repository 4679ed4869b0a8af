\* A 16-bit u32_t; main.c's 1 KiB ramdisk, a 5 KiB and a 32 KiB one; windows
\* at the start, inside and at the top of the address space, of less than
\* a page, whole pages and a ragged last page; pages inside, at the end of and
\* past the window.  A page past the window trips lba_num_blocks_in_range's
\* KASSERT, which halts the kernel: those states have no successor.
CONSTANTS
  U32_BITS = 16
  PAGE_SIZE = 4096
  DiskSizes = {1024, 5120, 32768}
  Starts = {0, 1, 7, 60, 65535}
  Nums = {0, 1, 2, 8, 9, 17, 65535}
  Pages = {0, 1, 2, 3}
  Samples = {0, 1, 2, 3, 4, 6, 8, 140, 32768, 65534, 65535}
  EntrySizes = {4, 140}
  Debug = TRUE
  None = none
SPECIFICATION Spec
INVARIANTS
  TypeOK
  RangeValidMeansFits
  PowerOfTwoMeansOneBit
  TableBlocksRoundUp
  RequestWithinPage
  PageIo
CHECK_DEADLOCK FALSE
