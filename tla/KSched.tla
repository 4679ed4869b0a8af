------------------------------- MODULE KSched -------------------------------
(***************************************************************************)
(* The GeekOS single-CPU scheduler primitives of src/kernel/thread.c, as   *)
(* functions from a scheduler state to the next one, so that one action    *)
(* of a composing module can chain the calls a handler makes in order      *)
(* (e.g. mutex_unlock_imp's wakeup followed by thread_park's wait).        *)
(*                                                                         *)
(* A scheduler state is a record                                           *)
(*   cur  : g_current, the thread that owns the CPU                        *)
(*   runq : s_runqueue, FIFO of runnable threads                           *)
(*   wq   : one FIFO per struct thread_queue the composing module uses     *)
(*   st   : thread->state                                                  *)
(* Every primitive here runs with interrupts disabled in the code, so each *)
(* is atomic; the composing module decides where interrupts are enabled.   *)
(***************************************************************************)
EXTENDS Naturals, Sequences

CONSTANTS
  Threads,   \* every kernel thread of the model
  Queues     \* identifiers of the struct thread_queue objects

\* thread_state_t
ThreadStates == {"READY", "RUNNING", "WAITING", "EXITED", "KILLED"}

SchedType ==
  [cur : Threads, runq : Seq(Threads), wq : [Queues -> Seq(Threads)],
   st : [Threads -> ThreadStates]]

\* thread_make_runnable: state READY, append to the run queue.
MakeRunnable(s, t) ==
  [s EXCEPT !.st[t] = "READY", !.runq = Append(@, t)]

\* thread_schedule = thread_switch_to(thread_next_runnable()): remove the
\* head of the run queue (KASSERT(next)), mark it RUNNING, switch to it.
Schedule(s) ==
  LET next == Head(s.runq)
  IN  [s EXCEPT !.cur = next, !.runq = Tail(@), !.st[next] = "RUNNING"]

\* thread_wait: thread_relinquish_cpu (resets num_ticks, not modelled),
\* append g_current to the queue, schedule.  The state is left RUNNING.
Wait(s, q) ==
  Schedule([s EXCEPT !.wq[q] = Append(@, s.cur)])

\* thread_wakeup_one: remove the first waiter, if any, and make it runnable.
WakeupOne(s, q) ==
  IF s.wq[q] = << >>
    THEN s
    ELSE MakeRunnable([s EXCEPT !.wq[q] = Tail(@)], Head(s.wq[q]))

\* thread_wakeup: wakeup_one until the queue is empty.
RECURSIVE Wakeup(_, _)
Wakeup(s, q) ==
  IF s.wq[q] = << >> THEN s ELSE Wakeup(WakeupOne(s, q), q)

\* thread_yield: make g_current runnable again and schedule.
Yield(s) == Schedule(MakeRunnable(s, s.cur))

=============================================================================
