------------------------------ MODULE LbaRange ------------------------------
(***************************************************************************)
(* The block-address arithmetic under the page cache: src/kernel/range.c,  *)
(* src/kernel/lba.c, the window of src/kernel/blockdev_pager.c and the     *)
(* range check of the ramdisk driver (src/kernel/ramdisk.c).               *)
(*                                                                         *)
(* u32_t arithmetic wraps modulo 2^U32_BITS.  The C type has 32 bits; the  *)
(* model takes the width as a constant so that TLC can enumerate values    *)
(* next to the wrap-around point (TLC integers are 32-bit signed).  Every  *)
(* operator is written for any width, and the inputs of the runs include   *)
(* the largest values of the chosen width.                                 *)
(*                                                                         *)
(* The state machine is the life of one blockdev_pager over the ramdisk    *)
(* main.c creates: blockdev_pager_create with a window, then read_page and *)
(* write_page calls.  The concurrent path of those calls (blockdev         *)
(* requests, the work queue) is in PageCache; here each call is one step   *)
(* that computes the request and the ramdisk's answer.                     *)
(***************************************************************************)
EXTENDS Integers, Bitwise

CONSTANTS
  U32_BITS,      \* width of u32_t in the model
  PAGE_SIZE,     \* bytes per page (1 << PAGE_POWER)
  DiskSizes,     \* the ramdisk's possible sizes in bytes (ramdisk_create)
  Starts,        \* window start LBAs passed to blockdev_pager_create
  Nums,          \* window lengths in blocks
  Pages,         \* page numbers passed to read_page and write_page
  Samples,       \* u32 values on which the pure operators are compared
  EntrySizes,    \* table entry sizes for lba_get_num_blocks_in_table
  Debug,         \* KASSERT is compiled in (NDEBUG not defined)
  None           \* a model value: no pager yet, no request yet

ASSUME U32_BITS \in 1..20 /\ Debug \in BOOLEAN

VARIABLES
  disk,     \* ramdisk size in bytes (rd->size)
  pager,    \* the blockdev_pager object, or None while none exists
  lastIo,   \* the last request a page call made: page, lba, blocks, rc
  fault     \* the KASSERTs that failed

vars == <<disk, pager, lastIo, fault>>

EINVAL == -4

\* u32_t: values and wrap-around of unsigned arithmetic
U32_MAX == 2^U32_BITS
U32 == 0..(U32_MAX - 1)
u32(x) == x % U32_MAX

-----------------------------------------------------------------------------
(* range.c                                                                 *)

\* Mutant: the num > total guard dropped, so total - num may wrap.
RangeIsValidNoGuard(start, num, total) == start <= u32(total - num)

\* range_is_valid_u32: start + num <= total without overflowing.
range_is_valid_u32(start, num, total) ==
  IF num > total THEN FALSE ELSE start <= u32(total - num)

\* range_bit_count: add the low bit and shift right until val is 0.
RECURSIVE range_bit_count(_)
range_bit_count(val) ==
  IF val = 0 THEN 0 ELSE (val % 2) + range_bit_count(val \div 2)

\* Mutant: the x & (x - 1) idiom, which also accepts 0.
RangeIsPowerOfTwoMask(val) == (val & u32(val - 1)) = 0

\* range_is_power_of_two
range_is_power_of_two(val) == range_bit_count(val) = 1

-----------------------------------------------------------------------------
(* lba.c                                                                   *)

\* lba_add_offset: dest = start.val + offset, KASSERT(dest >= start.val).
lba_add_offset(start, offset) == u32(start + offset)
AddOverflows(start, offset) == lba_add_offset(start, offset) < start

\* lba_is_range_valid
lba_is_range_valid(start, num_blocks, total_blocks) ==
  range_is_valid_u32(start, num_blocks, total_blocks)

\* lba_compare: -1, 0 or 1.
lba_compare(lhs, rhs) == IF lhs < rhs THEN -1 ELSE IF lhs > rhs THEN 1 ELSE 0

\* Mutant: the KASSERT left out.
RangeInvertedNever(start, end) == FALSE

\* lba_num_blocks_in_range's KASSERT(start.val <= end.val) fails.
RangeInverted(start, end) == start > end

\* lba_num_blocks_in_range: end - start, after the KASSERT.
lba_num_blocks_in_range(start, end) == u32(end - start)

\* Mutant: the rounding up of a partial last block is forgotten.
TableBlocksTruncated(block_size, num_entries, entry_size) ==
  u32(num_entries * entry_size) \div block_size

\* lba_get_num_blocks_in_table: table bytes rounded up to whole blocks.
lba_get_num_blocks_in_table(block_size, num_entries, entry_size) ==
  LET bytes == u32(num_entries * entry_size)
  IN  bytes \div block_size + (IF bytes % block_size # 0 THEN 1 ELSE 0)

-----------------------------------------------------------------------------
(* ramdisk.c and blockdev_pager.c                                          *)

\* RAMDISK_BLOCK_SIZE and RAMDISK_NUM_BLOCKS(rd)
RAMDISK_BLOCK_SIZE == 512
RamdiskNumBlocks == disk \div RAMDISK_BLOCK_SIZE

\* ramdisk_handle_request: EINVAL unless the blocks lie on the disk, then the
\* copy of num_blocks * 512 bytes and rc 0.
RamdiskRc(lba, num_blocks) ==
  IF lba_is_range_valid(lba, num_blocks, RamdiskNumBlocks) THEN 0 ELSE EINVAL

\* Mutant: the operands of the division swapped.
NumBlocksPerPageSwapped(bs) == bs \div PAGE_SIZE

\* blockdev_pager_create: num_blocks_per_page.
NumBlocksPerPage(bs) == PAGE_SIZE \div bs

\* Mutant: the offset of the page after page_num.
PageOffsetNext(page_num, npp) == u32((page_num + 1) * npp)

\* blockdev_pager_rw_page: page_num * num_blocks_per_page, in u32_t.
PageOffset(page_num, npp) == u32(page_num * npp)

\* Mutant: the ragged last page is never clipped.
EndClippedNever(range_end, io_end) == FALSE

\* blockdev_pager_rw_page: the window ends before the page does.
EndClipped(range_end, io_end) == lba_compare(range_end, io_end) < 0

\* blockdev_pager_create(ramdisk, start, num_blocks): KASSERT that the block
\* size and the page size are powers of two; EINVAL unless the window lies on
\* the device and a block fits in a page; then the pager (vm_pager_create
\* always succeeds).  A failed create leaves no pager behind.
Create(start, num) ==
  /\ pager = None /\ fault = {}
  /\ IF Debug /\ ~(range_is_power_of_two(RAMDISK_BLOCK_SIZE)
                   /\ range_is_power_of_two(PAGE_SIZE))
       THEN /\ fault' = {"range_is_power_of_two"}
            /\ UNCHANGED pager
     ELSE IF ~lba_is_range_valid(start, num, RamdiskNumBlocks)
             \/ RAMDISK_BLOCK_SIZE > PAGE_SIZE
       THEN UNCHANGED <<pager, fault>>
       ELSE /\ pager' = [start |-> start, num |-> num,
                         npp |-> NumBlocksPerPage(RAMDISK_BLOCK_SIZE)]
            /\ UNCHANGED fault
  /\ UNCHANGED <<disk, lastIo>>

\* blockdev_pager_read_page / write_page = blockdev_pager_rw_page: the first
\* LBA of the page, its end, the end of the window, the clip of a ragged
\* last page, lba_num_blocks_in_range; then the synchronous request, whose
\* rc is the ramdisk's range check.  The KASSERTs are checked in call order.
RwPage(op, p) ==
  LET start    == pager.start
      npp      == pager.npp
      off      == PageOffset(p, npp)
      ioStart  == lba_add_offset(start, off)
      ioEnd0   == lba_add_offset(ioStart, npp)
      rangeEnd == lba_add_offset(start, pager.num)
      ioEnd    == IF EndClipped(rangeEnd, ioEnd0) THEN rangeEnd ELSE ioEnd0
      failed   == CASE AddOverflows(start, off)       -> "lba_add_offset"
                    [] AddOverflows(ioStart, npp)     -> "lba_add_offset"
                    [] AddOverflows(start, pager.num) -> "lba_add_offset"
                    [] RangeInverted(ioStart, ioEnd)  -> "lba_num_blocks_in_range"
                    [] OTHER                          -> None
      n        == lba_num_blocks_in_range(ioStart, ioEnd)
  IN
  /\ pager # None /\ fault = {}
  /\ IF Debug /\ failed # None
       THEN /\ fault' = {failed}
            /\ UNCHANGED lastIo
       ELSE /\ lastIo' = [op |-> op, page |-> p, lba |-> ioStart, n |-> n,
                          rc |-> RamdiskRc(ioStart, n)]
            /\ UNCHANGED fault
  /\ UNCHANGED <<disk, pager>>

\* main.c's ramdisk_create(ramdsk_buf, size), before any pager exists.
Init ==
  /\ disk \in DiskSizes
  /\ pager = None
  /\ lastIo = None
  /\ fault = {}

Next ==
  \/ \E s \in Starts, n \in Nums : Create(s, n)
  \/ \E op \in {"READ", "WRITE"}, p \in Pages : RwPage(op, p)

Spec == Init /\ [][Next]_vars

-----------------------------------------------------------------------------
(* Properties.                                                             *)

TypeOK ==
  /\ disk \in DiskSizes
  /\ pager \in {None} \cup [start : U32, num : U32, npp : 1..PAGE_SIZE]
  /\ lastIo \in {None} \cup [op : {"READ", "WRITE"}, page : Pages, lba : U32,
                             n : U32, rc : {0, EINVAL}]
  /\ fault \subseteq {"range_is_power_of_two", "lba_add_offset",
                      "lba_num_blocks_in_range"}

\* The values the current state puts into the operators: the disk's block
\* count and the pager's window and blocks per page.
StateValues ==
  {RamdiskNumBlocks} \cup
    (IF pager = None THEN {} ELSE {pager.start, pager.num, pager.npp})

\* range_is_valid_u32 answers "start + num <= total" exactly, in spite of
\* the wrap-around of u32_t subtraction, on the sample values and on the
\* disk size and window of the current state.
RangeValidMeansFits ==
  \A s, n, t \in Samples \cup StateValues :
    range_is_valid_u32(s, n, t) = (s + n <= t)

\* range_is_power_of_two(v) holds exactly for the powers of two, among the
\* samples and the block counts of the current state.
PowerOfTwoMeansOneBit ==
  \A v \in Samples \cup StateValues :
    range_is_power_of_two(v) = (\E k \in 0..(U32_BITS - 1) : v = 2^k)

\* lba_get_num_blocks_in_table rounds the table size up to whole blocks,
\* when num_entries * entry_size does not overflow u32_t.
TableBlocksRoundUp ==
  \A n \in Samples \cup StateValues, es \in EntrySizes :
    n * es < U32_MAX =>
      lba_get_num_blocks_in_table(RAMDISK_BLOCK_SIZE, n, es)
        = (n * es + RAMDISK_BLOCK_SIZE - 1) \div RAMDISK_BLOCK_SIZE

\* blockdev_pager_rw_page never hands the driver a request for more blocks
\* than one page holds, so the copy stays inside the page's frame: a page
\* past the window, whose start lies beyond the clipped end, trips
\* lba_num_blocks_in_range's KASSERT before end - start can wrap.
RequestWithinPage ==
  lastIo # None => lastIo.n <= pager.npp

\* Spec 4.I: a successful read or write of page n transfers blocks
\* [start + n * (PAGE_SIZE / block_size), min(that + PAGE_SIZE / block_size,
\* start + num_blocks)), computed without wrap-around.
PageIo ==
  lastIo # None /\ lastIo.rc = 0 =>
    LET first == pager.start + lastIo.page * pager.npp
        wend  == pager.start + pager.num
    IN  /\ lastIo.lba = first
        /\ lastIo.n = IF first + pager.npp <= wend THEN pager.npp ELSE wend - first

=============================================================================
