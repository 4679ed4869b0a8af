------------------------------ MODULE MCConsole ------------------------------
(* Console instantiated for TLC: a 3 x 8 screen, so that lines wrap, tabs  *)
(* reach the end of a row and the screen scrolls within a few calls.  The  *)
(* scripts follow geekos_main (src/kernel/main.c) with shorter texts: each *)
(* format keeps the conversions of the call it stands for, and together    *)
(* they use every conversion of cons_printf, a tab, a "%%" and a format    *)
(* that ends in '%'.  Strings are written as character codes.              *)
EXTENDS Boot, TLC

CONSTANTS main, test, busy, irq

Clr == [op |-> "clear", arg |-> 0]
Pf(f, a) == [op |-> "printf", arg |-> [fmt |-> f, args |-> a]]

\* cons_clear(); cons_printf("GeekOS %d.%d.%d on %s\n", ...) as
\* "%d.%u %s\n" of -7, 10, "x86"; mem_init and its "Memory: ..." as
\* "M\n"; int_init; vm_init_paging and its "Paging enabled\n" as "pg\n";
\* irq_init; keyboard_init's handler and mask, its int_enable() and
\* ".... [OK]\n" as "ok\n"; thread_create(test); "Starting new thread
\* %p\n" as "T %p\n"; thread_join; "Thread exited with code %d\n" as
\* "%d\t%c\n" of 42 and 321 (its low byte is 'A'); thread_create(busy);
\* "$ " as "$ %%%".
MainScript ==
  << Clr,
     Pf(<<37, 100, 46, 37, 117, 32, 37, 115, 10>>, << -7, 10, <<120, 56, 54>> >>),
     [op |-> "meminit", arg |-> 0],
     Pf(<<77, 10>>, <<>>),
     [op |-> "intinit", arg |-> 0],
     [op |-> "paging", arg |-> 0],
     Pf(<<112, 103, 10>>, <<>>),
     [op |-> "irqinit", arg |-> 0],
     [op |-> "kbinit", arg |-> 0],
     [op |-> "sti", arg |-> 0],
     Pf(<<111, 107, 10>>, <<>>),
     [op |-> "spawn", arg |-> test],
     Pf(<<84, 32, 37, 112, 10>>, <<4660>>),
     [op |-> "join", arg |-> test],
     Pf(<<37, 100, 9, 37, 99, 10>>, <<42, 321>>),
     [op |-> "spawn", arg |-> busy],
     Pf(<<36, 32, 37, 37, 37>>, <<>>) >>

\* test_thread: "Test thread: arg=%lx\n" as "t%lx\n".
TestScript == << Pf(<<116, 37, 108, 120, 10>>, << -2 >>) >>

\* busy_thread: cons_printf("A") in its loop.
BusyScript == << Pf(<<65>>, <<>>), Pf(<<65>>, <<>>) >>

\* int_unexpected_int_handler: "Unexpected interrupt %d\n" as "U%d\n",
\* then thread_dump_context's lines as one "%lx\n".
IrqScript == << Pf(<<85, 37, 100, 10>>, <<13>>), Pf(<<37, 108, 120, 10>>, <<255>>) >>

MCScript ==
  (main :> MainScript) @@ (test :> TestScript) @@ (busy :> BusyScript) @@ (irq :> IrqScript)

\* Longs of 16 bits: zero, one and two digits, powers of ten and their
\* neighbours, and both ends of the range.
MCSamples == {0, 1, 9, 10, 99, 100, -1, -9, -10, -100, 32767, -32768}

\* The tab, the newline and the printable ASCII characters.
MCGlyphs == {9, 10} \cup 32..126

\* 4M of memory (one page table maps it all) and 8M (4M pages above the
\* first page table).
MCMemUppers == {3072, 7168}
=============================================================================
