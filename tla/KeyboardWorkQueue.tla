-------------------------- MODULE KeyboardWorkQueue --------------------------
(***************************************************************************)
(* The keyboard driver (src/x86/kernel/x86_keyb.c, src/kernel/keyboard.c,  *)
(* include/geekos/queue.h) and the work queue (src/kernel/workqueue.c) on  *)
(* one CPU.  The keyboard's own wait queue is commented out in keyboard.c  *)
(* and keyboard.h declares 'extern struct thread_queue s_waitqueue', so    *)
(* wait_for_key and the keyboard interrupt use the work queue's            *)
(* s_waitqueue: both wait queues are the one queue "s_waitqueue" here.     *)
(*                                                                         *)
(* Threads: Main runs geekos_main's final loop (wait_for_key forever),     *)
(* Worker is workqueue_thread, Poster schedules work items (as             *)
(* ramdisk_post_request does), Idle is thread_idle.  The keyboard          *)
(* interrupt runs on top of whichever thread is current while interrupts   *)
(* are enabled.  Scheduler primitives come from KSched.                    *)
(***************************************************************************)
EXTENDS Integers, Sequences, Bitwise

CONSTANTS
  Main, Worker, Poster, Idle,   \* the threads
  QUEUE_SIZE,   \* keycode ring size, a power of two (256 in queue.h)
  ScanCodes,    \* scan code bytes the PS/2 controller may deliver
  MaxKeys,      \* bound on keyboard interrupts that deliver a byte
  MaxItems      \* bound on work items the Poster schedules

\* 0x1D, 0x1E, 0x2A (ctrl, 'a', shift), their releases, KEY_ESCAPE, and
\* 0x5C / 0xDC, beyond the scan tables.
ASSUME QUEUE_SIZE \in {2, 4, 8, 16, 256}
ASSUME ScanCodes \subseteq {29, 30, 42, 157, 158, 170, 224, 92, 220}
ASSUME MaxKeys \in Nat /\ MaxItems \in Nat

VARIABLES
  sched,        \* KSched scheduler state
  pc,           \* control point of each thread
  s_queue,      \* the keycode ring buffer
  s_queue_head,
  s_queue_tail,
  s_shiftstate, \* modifier bits of x86_keyb.c
  keys,         \* keyboard interrupts taken so far
  accepted,     \* keycodes enqueue() stored, in order
  got,          \* keycodes wait_for_key returned, in order
  workq,        \* s_workqueue_head..tail, as item numbers
  posted,       \* items workqueue_schedule_work queued so far
  ran,          \* items whose callback the worker ran, in order
  wqItem        \* the item the worker is running

vars == <<sched, pc, s_queue, s_queue_head, s_queue_tail, s_shiftstate, keys,
          accepted, got, workq, posted, ran, wqItem>>

Threads == {Main, Worker, Poster, Idle}
\* keyboard.c's s_waitqueue is the extern of workqueue.c's.
s_waitqueue == "s_waitqueue"
Queues == {s_waitqueue}

INSTANCE KSched

(* include/geekos/queue.h *)
QUEUE_MASK == QUEUE_SIZE - 1
\* mutant: the index is not wrapped
NEXTNoMask(index) == index + 1
NEXT(index) == (index + 1) & QUEUE_MASK
is_queue_full == NEXT(s_queue_tail) = s_queue_head
is_queue_empty == s_queue_head = s_queue_tail

\* mutant: enqueue without the is_queue_full test
EnqueueAlways(item) ==
  /\ s_queue' = [s_queue EXCEPT ![s_queue_tail] = item]
  /\ s_queue_tail' = NEXT(s_queue_tail)
  /\ accepted' = Append(accepted, item)
\* enqueue(): drop the keycode when the ring is full.
Enqueue(item) ==
  IF is_queue_full
    THEN UNCHANGED <<s_queue, s_queue_tail, accepted>>
    ELSE /\ s_queue' = [s_queue EXCEPT ![s_queue_tail] = item]
         /\ s_queue_tail' = NEXT(s_queue_tail)
         /\ accepted' = Append(accepted, item)

(* x86_keyb.c constants *)
KB_KEY_RELEASE == 128
KEY_ESCAPE == 224
SCAN_TABLE_SIZE == 91
KEY_SPECIAL_FLAG == 256
KEY_UNKNOWN == KEY_SPECIAL_FLAG
KEY_LCTRL == KEY_SPECIAL_FLAG + 13
KEY_LSHIFT == KEY_SPECIAL_FLAG + 15
KEY_SHIFT_FLAG == 4096
KEY_CTRL_FLAG == 16384
KEY_RELEASE_FLAG == 32768
LEFT_SHIFT == 1
LEFT_CTRL == 4
SHIFT_MASK == 3
CTRL_MASK == 12

\* The rows of s_scan_table_no_shift / _with_shift for the scan codes of
\* the model: 0x1D left ctrl, 0x1E 'a', 0x2A left shift; others unknown.
ScanTable(code, shift) ==
  CASE code = 29 -> KEY_LCTRL
    [] code = 30 -> IF shift THEN 65 ELSE 97
    [] code = 42 -> KEY_LSHIFT
    [] OTHER     -> KEY_UNKNOWN
\* The modifier bit a keycode sets, 0 for an ordinary key.
ModifierFlag(keycode) ==
  CASE keycode = KEY_LSHIFT -> LEFT_SHIFT
    [] keycode = KEY_LCTRL  -> LEFT_CTRL
    [] OTHER                -> 0

\* Points where the thread runs with interrupts enabled.
IntsEnabled == {"wk_top", "wq_top", "wq_call", "post", "idle_loop"}

Running(t) == sched.cur = t
Goto(t, l) == pc' = [pc EXCEPT ![t] = l]

-----------------------------------------------------------------------------

\* mutant: the interrupt handler does not wake the consumers
IrqWakeupNone(s) == s
\* thread_wakeup(&s_waitqueue), then, with g_need_reschedule set and
\* g_preemption on, the interrupt return yields the CPU.
IrqWakeup(s) == Yield(Wakeup(s, s_waitqueue))

\* keyboard_int_handler, entered on the current thread with a byte
\* available: ignore KEY_ESCAPE and unknown codes, update s_shiftstate for
\* a modifier, otherwise format the keycode, enqueue it and wake waiters.
KeyboardIrq ==
  /\ pc[sched.cur] \in IntsEnabled
  /\ keys < MaxKeys
  /\ keys' = keys + 1
  /\ \E byte \in ScanCodes :
       LET release == (byte & KB_KEY_RELEASE) # 0
           code    == IF release THEN byte - KB_KEY_RELEASE ELSE byte
           shift   == (s_shiftstate & SHIFT_MASK) # 0
           keycode == ScanTable(code, shift)
           flag    == ModifierFlag(keycode)
           withFlags == keycode
                        + (IF shift THEN KEY_SHIFT_FLAG ELSE 0)
                        + (IF (s_shiftstate & CTRL_MASK) # 0
                             THEN KEY_CTRL_FLAG ELSE 0)
                        + (IF release THEN KEY_RELEASE_FLAG ELSE 0)
       IN
       IF byte = KEY_ESCAPE \/ code >= SCAN_TABLE_SIZE
         THEN UNCHANGED <<sched, s_queue, s_queue_tail, s_shiftstate, accepted>>
       ELSE IF flag # 0
         THEN /\ s_shiftstate' = IF release
                                   THEN s_shiftstate - (s_shiftstate & flag)
                                   ELSE s_shiftstate | flag
              /\ UNCHANGED <<sched, s_queue, s_queue_tail, accepted>>
       ELSE /\ Enqueue(withFlags)
            /\ sched' = IrqWakeup(sched)
            /\ UNCHANGED s_shiftstate
  /\ UNCHANGED <<pc, s_queue_head, got, workq, posted, ran, wqItem>>

\* wait_for_key, from int_begin_atomic: dequeue a keycode if there is one
\* and return it (geekos_main then calls wait_for_key again), else
\* thread_wait(&s_waitqueue) and test again when woken.
WaitForKey ==
  /\ Running(Main) /\ pc[Main] \in {"wk_top", "wk_wait"}
  /\ IF is_queue_empty
       THEN /\ sched' = Wait(sched, s_waitqueue) /\ Goto(Main, "wk_wait")
            /\ UNCHANGED <<s_queue_head, got>>
       ELSE /\ got' = Append(got, s_queue[s_queue_head])
            /\ s_queue_head' = NEXT(s_queue_head)
            /\ Goto(Main, "wk_top") /\ UNCHANGED sched
  /\ UNCHANGED <<s_queue, s_queue_tail, s_shiftstate, keys, accepted, workq,
                 posted, ran, wqItem>>

\* workqueue_schedule_work: append an item and thread_wakeup_one on
\* s_waitqueue.  The Poster exits (thread_exit) after MaxItems items.
ScheduleWork ==
  /\ Running(Poster) /\ pc[Poster] = "post"
  /\ IF posted < MaxItems
       THEN /\ posted' = posted + 1
            /\ workq' = Append(workq, posted + 1)
            /\ sched' = WakeupOne(sched, s_waitqueue)
            /\ UNCHANGED pc
       ELSE /\ sched' = Schedule([sched EXCEPT !.st[Poster] = "EXITED"])
            /\ Goto(Poster, "exited") /\ UNCHANGED <<posted, workq>>
  /\ UNCHANGED <<s_queue, s_queue_head, s_queue_tail, s_shiftstate, keys,
                 accepted, got, ran, wqItem>>

\* workqueue_thread with interrupts disabled: wait on s_waitqueue while
\* the list is empty, else take its head.
WorkerTake ==
  /\ Running(Worker) /\ pc[Worker] \in {"wq_top", "wq_wait"}
  /\ IF workq = << >>
       THEN /\ sched' = Wait(sched, s_waitqueue) /\ Goto(Worker, "wq_wait")
            /\ UNCHANGED <<workq, wqItem>>
       ELSE /\ wqItem' = Head(workq) /\ workq' = Tail(workq)
            /\ Goto(Worker, "wq_call") /\ UNCHANGED sched
  /\ UNCHANGED <<s_queue, s_queue_head, s_queue_tail, s_shiftstate, keys,
                 accepted, got, posted, ran>>

\* item->callback(item->data); mem_free(item).
WorkerCall ==
  /\ Running(Worker) /\ pc[Worker] = "wq_call"
  /\ ran' = Append(ran, wqItem)
  /\ wqItem' = 0
  /\ Goto(Worker, "wq_top")
  /\ UNCHANGED <<sched, s_queue, s_queue_head, s_queue_tail, s_shiftstate,
                 keys, accepted, got, workq, posted>>

\* thread_idle: thread_yield forever.
IdleYield ==
  /\ Running(Idle)
  /\ sched' = Yield(sched)
  /\ UNCHANGED <<pc, s_queue, s_queue_head, s_queue_tail, s_shiftstate, keys,
                 accepted, got, workq, posted, ran, wqItem>>

\* A timer tick that ends the current thread's quantum (timer_process_tick)
\* and the yield on the interrupt return.
Preempt ==
  /\ pc[sched.cur] \in IntsEnabled
  /\ sched' = Yield(sched)
  /\ UNCHANGED <<pc, s_queue, s_queue_head, s_queue_tail, s_shiftstate, keys,
                 accepted, got, workq, posted, ran, wqItem>>

\* geekos_main has reached its wait_for_key loop after keyboard_init; the
\* worker, created by workqueue_init, is already waiting on s_waitqueue.
Init ==
  /\ sched = [cur |-> Main, runq |-> << Poster, Idle >>,
              wq |-> [q \in Queues |-> << Worker >>],
              st |-> [t \in Threads |-> IF t = Poster \/ t = Idle
                                          THEN "READY" ELSE "RUNNING"]]
  /\ pc = [t \in Threads |-> CASE t = Main -> "wk_top"
                               [] t = Worker -> "wq_wait"
                               [] t = Poster -> "post"
                               [] OTHER -> "idle_loop"]
  /\ s_queue = [i \in 0..QUEUE_SIZE - 1 |-> 0]
  /\ s_queue_head = 0 /\ s_queue_tail = 0
  /\ s_shiftstate = 0
  /\ keys = 0 /\ accepted = << >> /\ got = << >>
  /\ workq = << >> /\ posted = 0 /\ ran = << >> /\ wqItem = 0

MainWork == WaitForKey
WorkerWork == WorkerTake \/ WorkerCall
PosterWork == ScheduleWork

Next ==
  \/ MainWork \/ WorkerWork \/ PosterWork \/ IdleYield
  \/ KeyboardIrq \/ Preempt

\* Each thread takes its next step whenever it is scheduled infinitely
\* often (see PageCache).  Key presses and ticks are never forced.
Fairness ==
  /\ SF_vars(MainWork) /\ SF_vars(WorkerWork) /\ SF_vars(PosterWork)
  /\ WF_vars(IdleYield)

Spec == Init /\ [][Next]_vars
FairSpec == Spec /\ Fairness

-----------------------------------------------------------------------------
(* Properties *)

Keycodes == 0..65535

TypeOK ==
  /\ sched \in SchedType
  /\ pc \in [Threads -> {"wk_top", "wk_wait", "wq_top", "wq_wait", "wq_call",
                         "post", "exited", "idle_loop"}]
  /\ s_queue \in [0..QUEUE_SIZE - 1 -> Keycodes]
  /\ s_queue_head \in 0..QUEUE_SIZE - 1 /\ s_queue_tail \in 0..QUEUE_SIZE - 1
  /\ s_shiftstate \in 0..63
  /\ keys \in 0..MaxKeys
  /\ accepted \in Seq(Keycodes) /\ got \in Seq(Keycodes)
  /\ workq \in Seq(1..MaxItems) /\ posted \in 0..MaxItems
  /\ ran \in Seq(1..MaxItems) /\ wqItem \in 0..MaxItems

\* The keycodes between s_queue_head and s_queue_tail, oldest first.
BufContents ==
  LET n == (s_queue_tail - s_queue_head + QUEUE_SIZE) % QUEUE_SIZE
  IN  [i \in 1..n |-> s_queue[(s_queue_head + i - 1) % QUEUE_SIZE]]

\* wait_for_key returns every keycode the interrupt handler stored, once
\* and in the order stored: what was read followed by what is still in the
\* ring is exactly what was enqueued.  Breaks if enqueue overwrites a full
\* ring, or the handler and the reader race on head and tail.
KeysInOrder == got \o BufContents = accepted

\* Every keycode stored in the ring is eventually returned by wait_for_key:
\* the interrupt's thread_wakeup reaches the waiting reader.
KeyEventuallyRead ==
  \A n \in 1..MaxKeys : (Len(accepted) >= n) ~> (Len(got) >= n)

\* Every work item scheduled is eventually run by the worker thread: the
\* thread_wakeup_one in workqueue_schedule_work reaches the worker.
WorkItemRuns ==
  \A n \in 1..MaxItems : (posted >= n) ~> (Len(ran) >= n)

=============================================================================
