------------------------------ MODULE Console -------------------------------
(***************************************************************************)
(* The text console: cons_printf and its conversions (src/kernel/cons.c),  *)
(* the VGA text console under it (src/x86/kernel/x86_cons.c), and the      *)
(* interrupt-atomic regions that make a call indivisible                   *)
(* (include/geekos/int.h).                                                 *)
(*                                                                         *)
(* The writers are geekos_main's threads (src/kernel/main.c) and the       *)
(* handler of an unexpected interrupt (src/x86/kernel/x86_int.c), which    *)
(* prints and then HALTs.  A thread loses the CPU only when interrupts are *)
(* on (a timer tick and the yield at the end of the interrupt, or its own  *)
(* thread_yield or thread_join); the handler runs when interrupts are on,  *)
(* with them off.  A step is one pass of cons_printf's loop or one         *)
(* x86cons_putchar, so that a preemption can fall between any two of them *)
(* if the flag allows it.                                                  *)
(*                                                                         *)
(* Characters are their codes.  Video memory holds the character of each  *)
(* cell; the attribute byte (always DEFAULT_ATTR) and the hardware cursor  *)
(* (x86cons_updatecurs, port I/O) are left out.  long and unsigned have    *)
(* LONG_BITS bits (32 in the i386 build, where int and long have the same  *)
(* width, so the 'l' modifier changes nothing).                            *)
(***************************************************************************)
EXTENDS Integers, Sequences

CONSTANTS
  Threads,              \* kernel threads that print
  Main,                 \* geekos_main's thread, running from boot
  Irq,                  \* int_unexpected_int_handler
  Script,               \* actor -> the calls it makes, in order
  VGA_NUMROWS,
  VGA_NUMCOLS,
  CONS_TABSIZE,
  LONG_BITS,            \* width of long and unsigned
  Samples,              \* longs on which the conversions meet a reference
  Glyphs                \* the character codes the calls may print

ASSUME Main \in Threads /\ Irq \notin Threads

VARIABLES
  con,      \* s_xcons and video memory: [scr, x, y]
  intr,     \* EFLAGS.IF
  cur,      \* g_current
  inIrq,    \* the CPU is in int_unexpected_int_handler
  started,  \* threads created so far
  pc,       \* actor -> "idle" | "fmt" (in cons_printf) | "put" (in a nested call)
  call,     \* actor -> calls of its script begun
  fmt,      \* actor -> the rest of cons_printf's format
  args,     \* actor -> the arguments not yet taken by va_arg
  pend,     \* actor -> characters the nested cons_write/putchar has yet to put
  iflag,    \* actor -> [outer, inner]: flags saved by int_begin_atomic
  log,      \* history: the actor that put each character, in order
  mark,     \* history: Len(log) when the actor's cons_printf began
  fault     \* a failed KASSERT, or HALT

vars == <<con, intr, cur, inIrq, started, pc, call, fmt, args, pend, iflag,
          log, mark, fault>>

Actors == Threads \cup {Irq}
Running == fault = {}

\* Character codes
TAB == 9
LF == 10
BLANK == 32
PERCENT == 37
MINUS == 45
ZERO == 48
CHAR_c == 99
CHAR_d == 100
CHAR_l == 108
CHAR_p == 112
CHAR_s == 115
CHAR_u == 117
CHAR_x == 120

-----------------------------------------------------------------------------
(* cons.c: number conversions                                              *)

unsigned(v) == v % (2^LONG_BITS)

\* cons_ultoa, first loop: the digits in reverse order, at least one.
RECURSIVE ReversedDigits(_)
ReversedDigits(value) ==
  <<(value % 10) + ZERO>> \o
    (IF value \div 10 > 0 THEN ReversedDigits(value \div 10) ELSE <<>>)

Swap(buf, i, j) == [buf EXCEPT ![i] = buf[j], ![j] = buf[i]]

\* Mutant: the reversing loop runs while i <= ndigits/2.
RECURSIVE SwapPastMiddle(_, _)
SwapPastMiddle(buf, i) ==
  IF i <= Len(buf) \div 2
    THEN SwapPastMiddle(Swap(buf, i + 1, Len(buf) - i), i + 1) ELSE buf
UltoaSwapPastMiddle(value) == SwapPastMiddle(ReversedDigits(value), 0)

\* cons_ultoa, second loop: swap buf[i] and buf[ndigits-(i+1)] for
\* i < ndigits/2 (0-based in C, 1-based here).
RECURSIVE SwapToMiddle(_, _)
SwapToMiddle(buf, i) ==
  IF i < Len(buf) \div 2
    THEN SwapToMiddle(Swap(buf, i + 1, Len(buf) - i), i + 1) ELSE buf

cons_ultoa(value) == SwapToMiddle(ReversedDigits(value), 0)

\* cons_ltoa: a '-' and the magnitude as (unsigned) -value.
cons_ltoa(value) ==
  IF value < 0 THEN <<MINUS>> \o cons_ultoa(unsigned(-value))
               ELSE cons_ultoa(unsigned(value))

\* "0123456789ABCDEF"[n]
HexDigit(n) == IF n < 10 THEN ZERO + n ELSE 55 + n

\* cons_ltox: the nibbles (value >> i) & 0xF for i = 28, 24, ..., 0; >> of
\* a negative long is an arithmetic shift, which is floor division.
cons_ltox(value) == [k \in 1..8 |-> HexDigit((value \div 2^(28 - 4 * (k - 1))) % 16)]

-----------------------------------------------------------------------------
(* int.h: interrupt-atomic regions                                         *)

\* Mutant: int_end_atomic enables interrupts whatever the saved flag.
EndAtomicAlways(fl, i) == TRUE

\* int_end_atomic(iflag): int_enable() only if the region disabled them.
\* (int_begin_atomic saves EFLAGS.IF and clears it: intr' = FALSE.)
EndAtomic(fl, i) == IF fl THEN TRUE ELSE i

\* int_enable's KASSERT(!int_enabled()) fails when the flag is already set.
EndAtomicFails(fl, i) == fl /\ i

-----------------------------------------------------------------------------
(* x86_cons.c                                                              *)

Rows == 0..(VGA_NUMROWS - 1)
Cols == 0..(VGA_NUMCOLS - 1)

\* x86cons_clear_area: N cells from (x, y) on, row after row, become blank.
\* Its KASSERT(y*VGA_NUMCOLS + x + N <= VGA_NUMCOLS*VGA_NUMROWS) holds at
\* every call, the misplaced one of x86cons_scroll included.
ClearArea(c, x, y, N) ==
  LET first == y * VGA_NUMCOLS + x
  IN  [c EXCEPT !.scr = [r \in Rows |-> [k \in Cols |->
         IF r * VGA_NUMCOLS + k \in first..(first + N - 1) THEN BLANK
                                                          ELSE c.scr[r][k]]]]

\* x86cons_scroll: rows 1.. move up one row, then "clear last row", which
\* the code does as x86cons_clear_area(cons, VGA_NUMROWS-1, 0, VGA_NUMCOLS).
Scroll(c) ==
  LET up == [c EXCEPT !.scr = [r \in Rows |->
                IF r < VGA_NUMROWS - 1 THEN c.scr[r + 1] ELSE c.scr[r]]]
  IN  ClearArea(up, VGA_NUMROWS - 1, 0, VGA_NUMCOLS)

\* Mutant: the column is not reset.
NewLineKeepX(c) ==
  IF c.y = VGA_NUMROWS - 1 THEN Scroll(c) ELSE [c EXCEPT !.y = @ + 1]

\* x86cons_newline (the port E9 echo of a debug build is left out).
NewLine(c) ==
  LET c0 == [c EXCEPT !.x = 0]
  IN  IF c.y = VGA_NUMROWS - 1 THEN Scroll(c0) ELSE [c0 EXCEPT !.y = @ + 1]

\* Mutant: the end of the line is tested with > instead of >=.
PutGraphicPastEnd(c, ch) ==
  LET c1 == [c EXCEPT !.scr[c.y][c.x] = ch, !.x = @ + 1]
  IN  IF c1.x > VGA_NUMCOLS THEN NewLine(c1) ELSE c1

\* x86cons_putgraphic: the character at the cursor, x++, a new line at the
\* end of the row.
PutGraphic(c, ch) ==
  LET c1 == [c EXCEPT !.scr[c.y][c.x] = ch, !.x = @ + 1]
  IN  IF c1.x >= VGA_NUMCOLS THEN NewLine(c1) ELSE c1

\* while (nspace-- > 0) x86cons_putgraphic(xcons, ' ')
RECURSIVE PutSpaces(_, _)
PutSpaces(c, n) == IF n <= 0 THEN c ELSE PutSpaces(PutGraphic(c, BLANK), n - 1)

\* x86cons_cleartoeol
ClearToEol(c) == ClearArea(c, c.x, c.y, VGA_NUMCOLS - c.x)

\* x86cons_putchar: a tab puts 8 - x % CONS_TABSIZE blanks, a newline
\* clears to the end of the row and moves down; then the hardware cursor
\* is updated (not modelled).
PutChar(c, ch) ==
  CASE ch = TAB -> PutSpaces(c, 8 - (c.x % CONS_TABSIZE))
    [] ch = LF  -> NewLine(ClearToEol(c))
    [] OTHER    -> PutGraphic(c, ch)

\* x86cons_movecurs: only a position on the screen is taken.
MoveCurs(c, row, col) ==
  IF row \in Rows /\ col \in Cols THEN [c EXCEPT !.y = row, !.x = col] ELSE c

\* x86cons_clear
Clear(c) == MoveCurs(ClearArea(c, 0, 0, VGA_NUMROWS * VGA_NUMCOLS), 0, 0)

-----------------------------------------------------------------------------
(* cons.c: cons_printf                                                     *)

\* cons_printf returns at the end of the format, and at a '%' or "%l" that
\* ends it (if (!*++fmt) goto done).
PrintfEnds(f) ==
  CASE f = <<>>            -> TRUE
    [] Head(f) # PERCENT   -> FALSE
    [] Len(f) = 1          -> TRUE
    [] OTHER               -> f[2] = CHAR_l /\ Len(f) = 2

\* One pass of cons_printf's loop that does not end it: what the nested
\* cons_write or cons_putchar puts, and the format and the arguments left.
\* %d, %u, %x and %p convert va_arg into buf, %c puts va_arg & 0xFF, %s
\* writes the string, any other character after '%' is put as it is.
Directive(f, a) ==
  IF Head(f) # PERCENT THEN [out |-> <<Head(f)>>, f |-> Tail(f), a |-> a]
  ELSE
    LET k    == IF f[2] = CHAR_l THEN 3 ELSE 2
        cc   == f[k]
        rest == SubSeq(f, k + 1, Len(f))
        take(out) == [out |-> out, f |-> rest, a |-> Tail(a)]
    IN  CASE cc = CHAR_d               -> take(cons_ltoa(Head(a)))
          [] cc = CHAR_u               -> take(cons_ultoa(unsigned(Head(a))))
          [] cc \in {CHAR_x, CHAR_p}   -> take(cons_ltox(Head(a)))
          [] cc = CHAR_c               -> take(<<Head(a) % 256>>)
          [] cc = CHAR_s               -> take(Head(a))
          [] OTHER                     -> [out |-> <<cc>>, f |-> rest, a |-> a]

-----------------------------------------------------------------------------
(* The callers                                                             *)

OnCpu(a) == IF a = Irq THEN inIrq ELSE ~inIrq /\ cur = a
Ready(a) == Running /\ OnCpu(a)
Finished(a) == pc[a] = "idle" /\ call[a] = Len(Script[a])

\* The actor is between calls and its next call is op.
NextCall(a, op) ==
  /\ Ready(a) /\ pc[a] = "idle" /\ call[a] < Len(Script[a])
  /\ Script[a][call[a] + 1].op = op
Arg(a) == Script[a][call[a] + 1].arg
Advance(a) == call' = [call EXCEPT ![a] = @ + 1]

\* cons_clear: x86cons_clear in an atomic region that begins and ends in
\* the same step.
ConsClear(a) ==
  /\ NextCall(a, "clear")
  /\ con' = Clear(con)
  /\ Advance(a)
  /\ UNCHANGED <<intr, cur, inIrq, started, pc, fmt, args, pend, iflag, log, mark, fault>>

\* keyboard_init's int_enable(): interrupts are on from here.
Sti(a) ==
  /\ NextCall(a, "sti")
  /\ intr' = TRUE
  /\ Advance(a)
  /\ UNCHANGED <<con, cur, inIrq, started, pc, fmt, args, pend, iflag, log, mark, fault>>

\* thread_create: the new thread can be scheduled.
Spawn(a) ==
  /\ NextCall(a, "spawn")
  /\ started' = started \cup {Arg(a)}
  /\ Advance(a)
  /\ UNCHANGED <<con, intr, cur, inIrq, pc, fmt, args, pend, iflag, log, mark, fault>>

\* thread_join: returns once the thread has exited.
Join(a) ==
  /\ NextCall(a, "join")
  /\ Finished(Arg(a))
  /\ Advance(a)
  /\ UNCHANGED <<con, intr, cur, inIrq, started, pc, fmt, args, pend, iflag, log, mark, fault>>

\* cons_printf: iflag = int_begin_atomic().
PrintfBegin(a) ==
  /\ NextCall(a, "printf")
  /\ iflag' = [iflag EXCEPT ![a].outer = intr]
  /\ intr' = FALSE
  /\ pc' = [pc EXCEPT ![a] = "fmt"]
  /\ fmt' = [fmt EXCEPT ![a] = Arg(a).fmt]
  /\ args' = [args EXCEPT ![a] = Arg(a).args]
  /\ mark' = [mark EXCEPT ![a] = Len(log)]
  /\ Advance(a)
  /\ UNCHANGED <<con, cur, inIrq, started, pend, log, fault>>

\* One pass of the loop: the nested cons_write or cons_putchar begins its
\* own atomic region.
PrintfStep(a) ==
  /\ Ready(a) /\ pc[a] = "fmt" /\ ~PrintfEnds(fmt[a])
  /\ LET d == Directive(fmt[a], args[a])
     IN  /\ fmt' = [fmt EXCEPT ![a] = d.f]
         /\ args' = [args EXCEPT ![a] = d.a]
         /\ pend' = [pend EXCEPT ![a] = d.out]
  /\ iflag' = [iflag EXCEPT ![a].inner = intr]
  /\ intr' = FALSE
  /\ pc' = [pc EXCEPT ![a] = "put"]
  /\ UNCHANGED <<con, cur, inIrq, started, call, log, mark, fault>>

\* x86cons_putchar of the nested call's next character.
Put(a) ==
  /\ Ready(a) /\ pc[a] = "put" /\ pend[a] # <<>>
  /\ con' = PutChar(con, Head(pend[a]))
  /\ pend' = [pend EXCEPT ![a] = Tail(@)]
  /\ log' = Append(log, a)
  /\ UNCHANGED <<intr, cur, inIrq, started, pc, call, fmt, args, iflag, mark, fault>>

\* The nested call ends: int_end_atomic(iflag); ++fmt.
PutEnd(a) ==
  /\ Ready(a) /\ pc[a] = "put" /\ pend[a] = <<>>
  /\ intr' = EndAtomic(iflag[a].inner, intr)
  /\ fault' = IF EndAtomicFails(iflag[a].inner, intr) THEN {"int_enable"} ELSE fault
  /\ pc' = [pc EXCEPT ![a] = "fmt"]
  /\ UNCHANGED <<con, cur, inIrq, started, call, fmt, args, pend, iflag, log, mark>>

\* done: int_end_atomic(iflag) and return.
PrintfEnd(a) ==
  /\ Ready(a) /\ pc[a] = "fmt" /\ PrintfEnds(fmt[a])
  /\ intr' = EndAtomic(iflag[a].outer, intr)
  /\ fault' = IF EndAtomicFails(iflag[a].outer, intr) THEN {"int_enable"} ELSE fault
  /\ pc' = [pc EXCEPT ![a] = "idle"]
  /\ UNCHANGED <<con, cur, inIrq, started, call, fmt, args, pend, iflag, log, mark>>

\* A timer tick or the thread's own yield or join hands the CPU to another
\* created thread: thread_yield, possible only while interrupts are on.
Preempt(a, b) ==
  /\ Running /\ ~inIrq /\ cur = a /\ intr
  /\ b \in started \ {a}
  /\ cur' = b
  /\ UNCHANGED <<con, intr, inIrq, started, pc, call, fmt, args, pend, iflag, log, mark, fault>>

\* An unexpected interrupt: the CPU's interrupt gate clears EFLAGS.IF and the
\* entry stub (not in the repository) calls the g_int_handler_table entry.
IrqEnter ==
  /\ Running /\ ~inIrq /\ intr /\ call[Irq] = 0
  /\ inIrq' = TRUE
  /\ intr' = FALSE
  /\ UNCHANGED <<con, cur, started, pc, call, fmt, args, pend, iflag, log, mark, fault>>

\* int_unexpected_int_handler, after its output: HALT().
IrqHalt ==
  /\ Running /\ inIrq /\ Finished(Irq)
  /\ fault' = {"HALT"}
  /\ UNCHANGED <<con, intr, cur, inIrq, started, pc, call, fmt, args, pend, iflag, log, mark>>

\* The scripts are done, or the CPU halted.
Done ==
  /\ ~Running \/ \A t \in Threads : Finished(t)
  /\ UNCHANGED vars

\* After cons_init: the screen cleared, the cursor at (0, 0), interrupts
\* off until keyboard_init.
Init ==
  /\ con = [scr |-> [r \in Rows |-> [k \in Cols |-> BLANK]], x |-> 0, y |-> 0]
  /\ intr = FALSE
  /\ cur = Main
  /\ inIrq = FALSE
  /\ started = {Main}
  /\ pc = [a \in Actors |-> "idle"]
  /\ call = [a \in Actors |-> 0]
  /\ fmt = [a \in Actors |-> <<>>]
  /\ args = [a \in Actors |-> <<>>]
  /\ pend = [a \in Actors |-> <<>>]
  /\ iflag = [a \in Actors |-> [outer |-> FALSE, inner |-> FALSE]]
  /\ log = <<>>
  /\ mark = [a \in Actors |-> 0]
  /\ fault = {}

ActorNext(a) ==
  \/ ConsClear(a) \/ Sti(a) \/ Spawn(a) \/ Join(a)
  \/ PrintfBegin(a) \/ PrintfStep(a) \/ Put(a) \/ PutEnd(a) \/ PrintfEnd(a)

Next ==
  \/ \E a \in Actors : ActorNext(a)
  \/ \E a, b \in Threads : Preempt(a, b)
  \/ IrqEnter
  \/ IrqHalt
  \/ Done

Spec == Init /\ [][Next]_vars

-----------------------------------------------------------------------------
(* Properties                                                              *)

TypeOK ==
  /\ con \in [scr : [Rows -> [Cols -> Glyphs]], x : Cols, y : Rows]
  /\ intr \in BOOLEAN /\ inIrq \in BOOLEAN
  /\ cur \in started /\ started \subseteq Threads
  /\ pc \in [Actors -> {"idle", "fmt", "put"}]
  /\ \A a \in Actors : call[a] \in 0..Len(Script[a])
  /\ pend \in [Actors -> Seq(Glyphs)]
  /\ iflag \in [Actors -> [outer : BOOLEAN, inner : BOOLEAN]]
  /\ fault \subseteq {"int_enable", "HALT"}

\* spec.md 4.J and section 8: a whole cons_printf runs in one atomic
\* region, so no other thread and no interrupt handler puts a character
\* between the first and the last character of a call.  The nested
\* cons_write and cons_putchar must leave interrupts off when they end.
PrintfAtomic ==
  \A a \in Actors :
    pc[a] # "idle" => \A k \in (mark[a] + 1)..Len(log) : log[k] = a

\* The conversion character of the directive at the head of a format.
NextConversion(f) ==
  IF Len(f) >= 2 /\ Head(f) = PERCENT
    THEN IF f[2] = CHAR_l /\ Len(f) >= 3 THEN f[3] ELSE f[2]
    ELSE 0

\* The numbers cons_printf is about to convert.
NumArgs ==
  {Head(args[a]) : a \in {b \in Actors : pc[b] = "fmt" /\
                      NextConversion(fmt[b]) \in {CHAR_d, CHAR_u, CHAR_x, CHAR_p}}}

IsDigit(ch) == ch \in ZERO..(ZERO + 9)
HexValueOf(ch) == IF IsDigit(ch) THEN ch - ZERO ELSE ch - 55

\* The value of a string of digits in base b.
RECURSIVE DigitsValue(_, _)
DigitsValue(s, b) ==
  IF s = <<>> THEN 0
  ELSE DigitsValue(SubSeq(s, 1, Len(s) - 1), b) * b + HexValueOf(s[Len(s)])

Decimal(s, v) ==
  /\ Len(s) >= 1 /\ \A k \in DOMAIN s : IsDigit(s[k])
  /\ Len(s) = 1 \/ s[1] # ZERO
  /\ DigitsValue(s, 10) = v

\* cons_ultoa prints an unsigned in decimal without leading zeros,
\* cons_ltoa prints a long with a '-' before a negative one, and cons_ltox
\* prints the 8 hexadecimal digits of its 32-bit two's complement (for a
\* negative value, the digits complemented to 15 are those of -v - 1).
ConversionsAgree ==
  \A v \in Samples \cup NumArgs :
    /\ Decimal(cons_ultoa(unsigned(v)), unsigned(v))
    /\ IF v < 0 THEN cons_ltoa(v)[1] = MINUS /\ Decimal(Tail(cons_ltoa(v)), -v)
                ELSE Decimal(cons_ltoa(v), v)
    /\ LET h == cons_ltox(v)
       IN  /\ \A k \in 1..8 : h[k] \in {HexDigit(n) : n \in 0..15}
           /\ IF v >= 0 THEN DigitsValue(h, 16) = v
              ELSE DigitsValue([k \in 1..8 |-> HexDigit(15 - HexValueOf(h[k]))], 16) = -v - 1

\* The console implements the terminal of spec.md: the rows from the top
\* to the cursor's are the visible lines, and each x86cons_putchar or
\* x86cons_clear is one step of the terminal.  Rows below the cursor are
\* not in the mapping; a newline that moves onto one shows it.  The
\* x86cons_scroll above leaves the old last row on screen, so no run checks
\* this: TLC violates it at the first scroll (README, Findings).
Term == INSTANCE Terminal WITH
          NUMROWS <- VGA_NUMROWS, NUMCOLS <- VGA_NUMCOLS, TABSTOP <- CONS_TABSIZE,
          Chars <- Glyphs \ {TAB, LF}, BLANK <- BLANK,
          lines <- [i \in 1..(con.y + 1) |-> con.scr[i - 1]], col <- con.x
TerminalRefined == Term!Spec

=============================================================================
