------------------------------- MODULE Threads -------------------------------
(***************************************************************************)
(* Kernel thread lifecycle of src/kernel/thread.c: thread_create,          *)
(* thread_exit, thread_join and the reference counting of thread_detach    *)
(* that hands an exited thread to the work queue thread, whose             *)
(* thread_destroy frees its stack frame and its record.  The allocators    *)
(* thread_create and workqueue_schedule_work call (mem_alloc,              *)
(* mem_alloc_frame of src/kernel/mem.c) are kept with their wait loops,    *)
(* because an allocation may suspend the caller in the middle of a create, *)
(* an exit or a join.                                                      *)
(*                                                                         *)
(* The main thread runs the program of geekos_main (src/kernel/main.c)     *)
(* generalised to a sequence of children: it creates each child of KidSeq, *)
(* yields, joins every ATTACHED child in order, and ends in wait_for_key.  *)
(* A child's start function runs in one step and exits with ExitCode[k]    *)
(* (test_thread calls thread_exit(42); a function that returns reaches     *)
(* thread_exit(0) through thread_run).                                     *)
(***************************************************************************)
EXTENDS Integers, Sequences, FiniteSets

CONSTANTS
  Main, Worker, Idle,  \* the main thread, the work queue thread, thread_idle
  Kids,                \* the threads main creates
  KidSeq,              \* the order in which main creates them
  Mode,                \* [Kids -> {"ATTACHED", "DETACHED"}]: thread_mode_t
  ExitCode,            \* [Kids -> Nat]: the code each child exits with
  HEAP_FREE,           \* heap blocks free after initialisation
  FRAMES_FREE          \* page frames free after initialisation

ASSUME Len(KidSeq) = Cardinality(Kids) /\ \A k \in Kids : \E i \in 1..Len(KidSeq) : KidSeq[i] = k
ASSUME HEAP_FREE \in Nat /\ FRAMES_FREE \in Nat

VARIABLES
  sched,      \* KSched scheduler state
  pc,         \* where each thread is
  refcount,   \* thread->refcount of each child
  exitcode,   \* thread->exitcode of each child
  life,       \* "unborn", "alive" (record allocated) or "freed" (mem_free'd)
  heapFree,   \* free heap blocks (malloc succeeds when > 0)
  frameFree,  \* frames on s_freelist
  workq,      \* s_workqueue_head..tail: the threads whose destroy is queued
  wqItem,     \* the item the work queue thread is processing
  swFor,      \* the thread whose destroy g_current is inside workqueue_schedule_work for
  idx,        \* main's position in KidSeq (create phase) or in Joins (join phase)
  joinRes,    \* what thread_join returned for each joined child
  fault       \* KASSERT failures and accesses to freed thread records

vars == <<sched, pc, refcount, exitcode, life, heapFree, frameFree, workq,
          wqItem, swFor, idx, joinRes, fault>>

None == "none"
NoCode == -1

\* thread->waitqueue, the queue joiners wait on, embedded in each child (and
\* so named by the child)
JoinQ(k) == k

Threads == {Main, Worker, Idle} \cup Kids
Queues == {"s_waitqueue", "s_heap_waitqueue", "s_frame_waitqueue"}
            \cup {JoinQ(k) : k \in Kids}

INSTANCE KSched

\* The ATTACHED children in creation order: the ones main joins.
Joins == SelectSeq(KidSeq, LAMBDA k : Mode[k] = "ATTACHED")

Running(t) == sched.cur = t

\* pcs at which g_current runs with interrupts enabled: the timer may
\* preempt it there, through the IRQ return path (Preemptible).
Preemptible ==
  {"m_create", "cr_frame", "cr_init", "m_yield", "m_join", "m_wfk",
   "k_run", "wq_top", "wq_call", "wd_free", "wq_free", "idle"}

ThreadPcs ==
  Preemptible \cup
  {"cr_heap_wait", "cr_frame_wait", "j_wait", "sw_alloc", "k_dead",
   "wq_wait", "m_done", "halted"}

-----------------------------------------------------------------------------
(* mem_alloc and mem_free of the kernel heap, as steps on the scheduler.   *)

\* Mutant: the result of malloc is not checked.
MallocAlways == TRUE

\* mem_alloc's loop condition: malloc succeeds unless the heap is exhausted;
\* otherwise the caller waits on s_heap_waitqueue and retries when woken.
MallocSucceeds == heapFree > 0

HeapWait(s) == Wait(s, "s_heap_waitqueue")

\* mem_free: free the block and wake every waiter of s_heap_waitqueue.
HeapFree(s) == Wakeup(s, "s_heap_waitqueue")

\* mem_free_frame: the frame returns to s_freelist, its waiters are woken.
FrameFree(s) == Wakeup(s, "s_frame_waitqueue")

-----------------------------------------------------------------------------
(* thread.c helpers.                                                       *)

\* Mutant: the parent's reference is not counted.
CreateRefcountNoParent(k) == 1

\* thread_create's initial refcount: the self-reference, plus the parent's
\* reference when the thread is created ATTACHED.
CreateRefcount(k) == IF Mode[k] = "ATTACHED" THEN 2 ELSE 1

\* Mutant: "not running" read as "state is not RUNNING".
NotRunningState(k) == sched.st[k] # "RUNNING"

\* thread_not_running, the predicate thread_join waits on.
NotRunning(k) == sched.st[k] \in {"EXITED", "KILLED"}

\* Mutants: the test made before the decrement, off by one either way.
LastReferenceBeforeDec(k) == refcount[k] = 0
LastReferenceOffByOne(k) == refcount[k] <= 2

\* thread_detach: the reference being dropped is the last one, so the
\* thread is handed to workqueue_schedule_work(&thread_destroy, thread).
LastReference(k) == refcount[k] = 1

\* Mutant: the joiners on thread->waitqueue are not woken.
ExitFinishNoWakeup(s, k, rc) == Schedule([s EXCEPT !.st[k] = "EXITED"])

\* The rest of thread_exit after thread_detach: exitcode and state EXITED,
\* thread_wakeup(&thread->waitqueue) if a reference remains, thread_schedule.
ExitFinish(s, k, rc) ==
  LET s1 == [s EXCEPT !.st[k] = "EXITED"]
  IN  Schedule(IF rc > 0 THEN Wakeup(s1, JoinQ(k)) ELSE s1)

\* main's next step once a join has returned: the next ATTACHED child, or
\* wait_for_key once all are joined.
AfterJoin(i) == IF i < Len(Joins) THEN "m_join" ELSE "m_wfk"

\* A KASSERT failure or a read of a freed thread record: the kernel halts.
Halt(t, why) ==
  /\ fault' = fault \cup {why}
  /\ pc' = [pc EXCEPT ![t] = "halted"]

-----------------------------------------------------------------------------
(* The main thread: thread_create, thread_yield, thread_join.              *)

\* thread_create's mem_alloc(sizeof(struct thread)), retried after a wait.
CreateAlloc ==
  /\ Running(Main) /\ pc[Main] \in {"m_create", "cr_heap_wait"}
  /\ IF MallocSucceeds
       THEN /\ heapFree' = heapFree - 1
            /\ pc' = [pc EXCEPT ![Main] = "cr_frame"]
            /\ UNCHANGED sched
       ELSE /\ sched' = HeapWait(sched)
            /\ pc' = [pc EXCEPT ![Main] = "cr_heap_wait"]
            /\ UNCHANGED heapFree
  /\ UNCHANGED <<refcount, exitcode, life, frameFree, workq, wqItem, swFor,
                 idx, joinRes, fault>>

\* thread_create's mem_alloc_frame(FRAME_KSTACK, 0) for the kernel stack.
CreateFrame ==
  /\ Running(Main) /\ pc[Main] \in {"cr_frame", "cr_frame_wait"}
  /\ IF frameFree > 0
       THEN /\ frameFree' = frameFree - 1
            /\ pc' = [pc EXCEPT ![Main] = "cr_init"]
            /\ UNCHANGED sched
       ELSE /\ sched' = Wait(sched, "s_frame_waitqueue")
            /\ pc' = [pc EXCEPT ![Main] = "cr_frame_wait"]
            /\ UNCHANGED frameFree
  /\ UNCHANGED <<refcount, exitcode, life, heapFree, workq, wqItem, swFor,
                 idx, joinRes, fault>>

\* The rest of thread_create: memset, refcount, parent, thread_bootstrap
\* (the child starts in thread_run) and thread_make_runnable.
CreateInit ==
  LET k == KidSeq[idx] IN
  /\ Running(Main) /\ pc[Main] = "cr_init"
  /\ refcount' = [refcount EXCEPT ![k] = CreateRefcount(k)]
  /\ exitcode' = [exitcode EXCEPT ![k] = 0]
  /\ life' = [life EXCEPT ![k] = "alive"]
  /\ sched' = MakeRunnable(sched, k)
  /\ pc' = [pc EXCEPT ![Main] = IF idx < Len(KidSeq) THEN "m_create" ELSE "m_yield",
                      ![k] = "k_run"]
  /\ idx' = IF idx < Len(KidSeq) THEN idx + 1 ELSE 1
  /\ UNCHANGED <<heapFree, frameFree, workq, wqItem, swFor, joinRes, fault>>

\* main.c: thread_yield() between creating the children and joining them.
MainYield ==
  /\ Running(Main) /\ pc[Main] = "m_yield"
  /\ sched' = Yield(sched)
  /\ pc' = [pc EXCEPT ![Main] = IF Joins = << >> THEN "m_wfk" ELSE "m_join"]
  /\ UNCHANGED <<refcount, exitcode, life, heapFree, frameFree, workq, wqItem,
                 swFor, idx, joinRes, fault>>

\* thread_join: thread_wait_until(&child->waitqueue, thread_not_running),
\* with thread_not_running's KASSERT(refcount > 0); then read the exit code
\* and thread_detach the parent's reference.
Join ==
  LET k == Joins[idx] IN
  /\ Running(Main) /\ pc[Main] \in {"m_join", "j_wait"}
  /\ IF life[k] = "freed" \/ refcount[k] = 0
       THEN /\ Halt(Main, "join")
            /\ UNCHANGED <<sched, refcount, joinRes, swFor, idx>>
     ELSE IF ~NotRunning(k)
       THEN /\ sched' = Wait(sched, JoinQ(k))
            /\ pc' = [pc EXCEPT ![Main] = "j_wait"]
            /\ UNCHANGED <<refcount, joinRes, swFor, idx, fault>>
       ELSE /\ joinRes' = [joinRes EXCEPT ![k] = exitcode[k]]
            /\ refcount' = [refcount EXCEPT ![k] = @ - 1]
            /\ IF LastReference(k)
                 THEN /\ swFor' = [swFor EXCEPT ![Main] = k]
                      /\ pc' = [pc EXCEPT ![Main] = "sw_alloc"]
                      /\ UNCHANGED idx
                 ELSE /\ pc' = [pc EXCEPT ![Main] = AfterJoin(idx)]
                      /\ idx' = idx + 1
                      /\ UNCHANGED swFor
            /\ UNCHANGED <<sched, fault>>
  /\ UNCHANGED <<exitcode, life, heapFree, frameFree, workq, wqItem>>

\* geekos_main's while(1) around wait_for_key: no key ever arrives, so each
\* pass finds the keyboard queue empty and calls thread_wait(&s_waitqueue),
\* the queue keyboard.c shares with the work queue thread.  A wakeup meant
\* for the work queue thread that reaches main sends it straight back.
WaitForKey ==
  /\ Running(Main) /\ pc[Main] \in {"m_wfk", "m_done"}
  /\ sched' = Wait(sched, "s_waitqueue")
  /\ pc' = [pc EXCEPT ![Main] = "m_done"]
  /\ UNCHANGED <<refcount, exitcode, life, heapFree, frameFree, workq, wqItem,
                 swFor, idx, joinRes, fault>>

-----------------------------------------------------------------------------
(* The children: thread_run calls the start function, then thread_exit.    *)

\* The start function returns or calls thread_exit(ExitCode[k]); thread_exit
\* disables interrupts and drops the self-reference (thread_detach, with its
\* KASSERT(refcount > 0)).  The last reference leads into
\* workqueue_schedule_work; otherwise the exit completes in this step.
KidRun(k) ==
  /\ Running(k) /\ pc[k] = "k_run"
  /\ IF refcount[k] = 0
       THEN /\ Halt(k, "detach")
            /\ UNCHANGED <<sched, refcount, exitcode, swFor>>
       ELSE /\ refcount' = [refcount EXCEPT ![k] = @ - 1]
            /\ IF LastReference(k)
                 THEN /\ swFor' = [swFor EXCEPT ![k] = k]
                      /\ pc' = [pc EXCEPT ![k] = "sw_alloc"]
                      /\ UNCHANGED <<sched, exitcode>>
                 ELSE /\ exitcode' = [exitcode EXCEPT ![k] = ExitCode[k]]
                      /\ sched' = ExitFinish(sched, k, refcount[k] - 1)
                      /\ pc' = [pc EXCEPT ![k] = "k_dead"]
                      /\ UNCHANGED swFor
            /\ UNCHANGED fault
  /\ UNCHANGED <<life, heapFree, frameFree, workq, wqItem, idx, joinRes>>

\* workqueue_schedule_work(&thread_destroy, swFor[t]) called by thread_detach
\* with interrupts disabled: mem_alloc of the item (waiting while the heap
\* is exhausted), append it, thread_wakeup_one(&s_waitqueue).  The caller
\* continues atomically: an exiting child finishes thread_exit, main's
\* thread_join returns.
ScheduleWork(t) ==
  LET k == swFor[t] IN
  /\ Running(t) /\ pc[t] = "sw_alloc"
  /\ IF MallocSucceeds
       THEN LET s1 == WakeupOne(sched, "s_waitqueue") IN
            /\ heapFree' = heapFree - 1
            /\ workq' = Append(workq, k)
            /\ swFor' = [swFor EXCEPT ![t] = None]
            /\ IF t = Main
                 THEN /\ sched' = s1
                      /\ pc' = [pc EXCEPT ![Main] = AfterJoin(idx)]
                      /\ idx' = idx + 1
                      /\ UNCHANGED exitcode
                 ELSE /\ exitcode' = [exitcode EXCEPT ![t] = ExitCode[t]]
                      /\ sched' = ExitFinish(s1, t, refcount[t])
                      /\ pc' = [pc EXCEPT ![t] = "k_dead"]
                      /\ UNCHANGED idx
       ELSE /\ sched' = HeapWait(sched)
            /\ UNCHANGED <<heapFree, workq, swFor, pc, idx, exitcode>>
  /\ UNCHANGED <<refcount, life, frameFree, wqItem, joinRes, fault>>

-----------------------------------------------------------------------------
(* The work queue thread running thread_destroy items.                     *)

\* workqueue_thread: wait while s_workqueue_head is 0, take the head item.
WorkerTake ==
  /\ Running(Worker) /\ pc[Worker] \in {"wq_top", "wq_wait"}
  /\ IF workq = << >>
       THEN /\ sched' = Wait(sched, "s_waitqueue")
            /\ pc' = [pc EXCEPT ![Worker] = "wq_wait"]
            /\ UNCHANGED <<workq, wqItem>>
       ELSE /\ wqItem' = Head(workq)
            /\ workq' = Tail(workq)
            /\ pc' = [pc EXCEPT ![Worker] = "wq_call"]
            /\ UNCHANGED sched
  /\ UNCHANGED <<refcount, exitcode, life, heapFree, frameFree, swFor, idx,
                 joinRes, fault>>

\* thread_destroy: KASSERT(state is EXITED or KILLED), then
\* mem_free_frame of the stack.
WorkerDestroy ==
  LET k == wqItem IN
  /\ Running(Worker) /\ pc[Worker] = "wq_call"
  /\ IF life[k] = "freed" \/ sched.st[k] \notin {"EXITED", "KILLED"}
       THEN /\ Halt(Worker, "destroy")
            /\ UNCHANGED <<sched, frameFree>>
       ELSE /\ frameFree' = frameFree + 1
            /\ sched' = FrameFree(sched)
            /\ pc' = [pc EXCEPT ![Worker] = "wd_free"]
            /\ UNCHANGED fault
  /\ UNCHANGED <<refcount, exitcode, life, heapFree, workq, wqItem, swFor,
                 idx, joinRes>>

\* thread_destroy's mem_free(thread).
WorkerFreeThread ==
  /\ Running(Worker) /\ pc[Worker] = "wd_free"
  /\ life' = [life EXCEPT ![wqItem] = "freed"]
  /\ heapFree' = heapFree + 1
  /\ sched' = HeapFree(sched)
  /\ pc' = [pc EXCEPT ![Worker] = "wq_free"]
  /\ UNCHANGED <<refcount, exitcode, frameFree, workq, wqItem, swFor, idx,
                 joinRes, fault>>

\* workqueue_thread's mem_free(item).
WorkerFreeItem ==
  /\ Running(Worker) /\ pc[Worker] = "wq_free"
  /\ heapFree' = heapFree + 1
  /\ sched' = HeapFree(sched)
  /\ wqItem' = None
  /\ pc' = [pc EXCEPT ![Worker] = "wq_top"]
  /\ UNCHANGED <<refcount, exitcode, life, frameFree, workq, swFor, idx,
                 joinRes, fault>>

-----------------------------------------------------------------------------

\* thread_idle: thread_yield forever.
IdleYield ==
  /\ Running(Idle)
  /\ sched' = Yield(sched)
  /\ UNCHANGED <<pc, refcount, exitcode, life, heapFree, frameFree, workq,
                 wqItem, swFor, idx, joinRes, fault>>

\* timer_interrupt_handler sets g_need_reschedule after a quantum; the IRQ
\* return path then yields g_current if interrupts were enabled.
Preempt(t) ==
  /\ Running(t) /\ pc[t] \in Preemptible
  /\ sched' = Yield(sched)
  /\ UNCHANGED <<pc, refcount, exitcode, life, heapFree, frameFree, workq,
                 wqItem, swFor, idx, joinRes, fault>>

\* thread_init and workqueue_init have run: main is RUNNING, the idle thread
\* and the work queue thread are on the run queue.
Init ==
  /\ sched = [cur |-> Main, runq |-> <<Idle, Worker>>,
              wq |-> [q \in Queues |-> << >>],
              st |-> [t \in Threads |-> IF t = Main THEN "RUNNING" ELSE "READY"]]
  /\ pc = [t \in Threads |-> CASE t = Main -> "m_create"
                               [] t = Worker -> "wq_top"
                               [] t = Idle -> "idle"
                               [] OTHER -> "k_run"]
  /\ refcount = [k \in Kids |-> 0]
  /\ exitcode = [k \in Kids |-> 0]
  /\ life = [k \in Kids |-> "unborn"]
  /\ heapFree = HEAP_FREE
  /\ frameFree = FRAMES_FREE
  /\ workq = << >>
  /\ wqItem = None
  /\ swFor = [t \in Threads |-> None]
  /\ idx = 1
  /\ joinRes = [k \in Kids |-> NoCode]
  /\ fault = {}

MainWork ==
  CreateAlloc \/ CreateFrame \/ CreateInit \/ MainYield \/ Join \/ WaitForKey
    \/ ScheduleWork(Main)

KidWork(k) == KidRun(k) \/ ScheduleWork(k)

WorkerWork ==
  WorkerTake \/ WorkerDestroy \/ WorkerFreeThread \/ WorkerFreeItem

Next ==
  \/ MainWork \/ WorkerWork \/ IdleYield
  \/ \E k \in Kids : KidWork(k)
  \/ \E t \in Threads : Preempt(t)

\* A scheduled thread keeps the CPU until it waits or its quantum ends, so
\* a thread that is runnable again and again eventually takes its step.
Fairness ==
  /\ SF_vars(MainWork)
  /\ \A k \in Kids : SF_vars(KidWork(k))
  /\ SF_vars(WorkerWork)
  /\ WF_vars(IdleYield)

Spec == Init /\ [][Next]_vars
FairSpec == Spec /\ Fairness

-----------------------------------------------------------------------------
(* Properties.                                                             *)

TypeOK ==
  /\ sched \in SchedType
  /\ pc \in [Threads -> ThreadPcs]
  /\ refcount \in [Kids -> 0..2]
  /\ exitcode \in [Kids -> Nat]
  /\ life \in [Kids -> {"unborn", "alive", "freed"}]
  /\ heapFree \in 0..HEAP_FREE
  /\ frameFree \in 0..FRAMES_FREE
  /\ workq \in Seq(Kids)
  /\ wqItem \in Kids \cup {None}
  /\ swFor \in [Threads -> Kids \cup {None}]
  /\ joinRes \in [Kids -> Nat \cup {NoCode}]
  /\ fault \subseteq {"join", "detach", "destroy"}

\* No KASSERT of thread_detach, thread_not_running or thread_destroy fails,
\* and neither thread_join nor thread_destroy reads a thread record that
\* thread_destroy has already freed: the refcount protocol of
\* thread_create/thread_exit/thread_join keeps every record alive while
\* someone will still look at it.
NoFault == fault = {}

\* How many times destruction of k has been requested: queued items, an
\* item being allocated by workqueue_schedule_work, and the item the work
\* queue thread has taken (or has already run).
DestroyRequests(k) ==
  Len(SelectSeq(workq, LAMBDA x : x = k))
    + Cardinality({t \in Threads : pc[t] = "sw_alloc" /\ swFor[t] = k})
    + (IF wqItem = k \/ life[k] = "freed" THEN 1 ELSE 0)

\* A created thread is handed to thread_destroy exactly once, and exactly
\* when its refcount is 0 (thread_detach's decrement to zero, whichever of
\* thread_exit and thread_join drops the last reference).
DestroyedOnce ==
  \A k \in Kids :
    life[k] # "unborn" => DestroyRequests(k) = IF refcount[k] = 0 THEN 1 ELSE 0

\* thread_join returns the code the child passed to thread_exit (spec:
\* join(create(f, a, ATTACHED)) returns the value f passed to exit).
JoinReturnsExitcode ==
  \A k \in Kids : joinRes[k] # NoCode => joinRes[k] = ExitCode[k]

\* Every thread that exits is eventually freed by thread_destroy on the work
\* queue thread: its stack frame and record are not leaked.
ExitedEventuallyDestroyed ==
  \A k \in Kids : (sched.st[k] = "EXITED") ~> (life[k] = "freed")

\* geekos_main gets through all its thread_create and thread_join calls:
\* no create blocks for good on memory and no join misses its wakeup.
MainCompletes == <>(pc[Main] = "m_done")

=============================================================================
