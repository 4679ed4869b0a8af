------------------------------ MODULE PageCache ------------------------------
(***************************************************************************)
(* The vm_pagecache of src/kernel/vm.c (vm_lock_page, vm_unlock_page and   *)
(* the pagein they trigger) on one CPU, together with what it calls:      *)
(*   - the mutex and condition variable of src/kernel/synch.c,             *)
(*   - the scheduler primitives of src/kernel/thread.c (module KSched),    *)
(*   - mem_alloc_frame / mem_free_frame of src/kernel/mem.c,               *)
(*   - the synchronous block read of src/kernel/blockdev.c, posted to the  *)
(*     work queue of src/kernel/workqueue.c and completed by its worker    *)
(*     thread, as ramdisk_post_request / ramdisk_handle_request do.        *)
(* Client threads lock a page and, on success, unlock it again; the idle   *)
(* thread of thread.c yields forever.                                      *)
(*                                                                         *)
(* Only g_current takes steps.  A step runs from one point where the       *)
(* thread may lose the CPU to the next: a thread_wait, or a point where    *)
(* interrupts are enabled and g_preemption is true, where the timer tick   *)
(* may force a yield.  Every window in which synch.c clears g_preemption   *)
(* ends, in the same step, by setting it again or by thread_park, so       *)
(* g_preemption is true at every step boundary and is not a variable.      *)
(***************************************************************************)
EXTENDS Integers, FiniteSets, SequencesExt

CONSTANTS
  Clients,        \* threads calling vm_lock_page / vm_unlock_page
  Worker,         \* the workqueue_thread
  Idle,           \* the thread_idle thread
  NoThread,       \* a null struct thread *
  Frames,         \* the physical frames on the free list
  NoFrame,        \* a null struct frame *
  Pages,          \* page numbers the clients ask for
  PageinResults,  \* rc values the block driver may complete a read with
  MaxRounds,      \* bound on vm_lock_page calls per client
  Debug           \* TRUE iff KASSERT is compiled in (NDEBUG undefined)

ASSUME Pages \subseteq Nat /\ MaxRounds \in Nat
ASSUME PageinResults \subseteq {0, -6, -4} /\ Debug \in BOOLEAN

EIO == -6
\* Values an uninitialized int rc may hold, as seen by a caller testing rc == 0.
RcValues == {0, EIO}
\* BLOCKDEV_REQ_FINISHED in enum blockdev_req_state_t.
BLOCKDEV_REQ_FINISHED == 1
\* fdata of a frame no page has been read into
NoPage == -1

VARIABLES
  sched,      \* KSched scheduler state
  lockOwner,  \* obj->lock: owner, NoThread when MUTEX_UNLOCKED
  pc,         \* control point of each thread
  ret,        \* where a thread continues once mutex_lock_imp acquires
  pnum,       \* page_num argument of the client's current vm_lock_page
  fr,         \* the local 'frame' of vm_lock_page / vm_alloc_and_page_in
  rc,         \* the local 'rc' of vm_lock_page, as returned
  pframe,     \* the caller's 'struct frame *' that p_frame points to
  rounds,     \* vm_lock_page calls made so far
  fstate,     \* frame->state
  refcount,   \* frame->refcount
  content,    \* frame->content
  fdata,      \* the page whose data the frame holds (NoPage at boot)
  pagelist,   \* obj->pagelist
  freelist,   \* s_freelist of mem.c
  links,      \* the frame_list links: both lists' head and tail, each
              \* frame's frame_list_next and frame_list_prev
  workq,      \* s_workqueue_head..tail: the requests (by requester) queued
  req,        \* each client's struct blockdev_req
  wqItem,     \* the item the worker is running the callback of
  leaked      \* references returned to a caller that never drops them

vars == <<sched, lockOwner, pc, ret, pnum, fr, rc, pframe, rounds, fstate,
          refcount, content, fdata, pagelist, freelist, links, workq, req, wqItem,
          leaked>>

Threads == Clients \cup {Worker, Idle}
\* Wait queues: obj->lock, obj->cond, s_frame_waitqueue, the work queue's
\* s_waitqueue, and each client's req->waitqueue (named by the client).
Queues == {"lock", "cond", "frames", "wq"} \cup Clients

INSTANCE KSched

\* s_freelist and obj->pagelist are both struct frame_list, threaded through
\* the one pair of link fields that DEFINE_LINK(frame_list, frame) gives a
\* frame.  pagelist and freelist above are the sequences these lists hold.
FL == INSTANCE LinkedList WITH Nodes <- Frames, Lists <- {"free", "page"}, Nil <- NoFrame

(***************************************************************************)
(* Frame fields that vm.c reads but nothing in the source assigns: the     *)
(* frame array is zero-filled by mem_create_framelist, so both stay 0.     *)
(***************************************************************************)
vm_pgcache_page_num(f) == 0
errc(f) == 0

(* Control points at which interrupts are enabled with g_preemption set.   *)
Preemptible ==
  {"idle", "lp_scan", "lp_check", "pi_post", "pi_wait", "pi_freed",
   "pi_done", "ul_lock", "ul_dec", "halted", "wq_top", "wq_call"}

Running(t) == sched.cur = t
Goto(t, l) == pc' = [pc EXCEPT ![t] = l]

-----------------------------------------------------------------------------
(* synch.c *)

\* mutant: the wakeup of a waiter dropped from mutex_unlock_imp
MutexUnlockImpNoWake(s) == s
\* mutex_unlock_imp: release, and wake one waiter if the queue is non-empty.
MutexUnlockImp(s) == WakeupOne(s, "lock")

\* mutex_lock / mutex_lock_imp from scheduler state s: take the mutex and
\* continue at cont, or thread_park on its wait queue.
MutexLock(t, s, cont) ==
  IF lockOwner = NoThread
    THEN /\ lockOwner' = t /\ sched' = s /\ Goto(t, cont) /\ UNCHANGED ret
    ELSE /\ UNCHANGED lockOwner /\ sched' = Wait(s, "lock")
         /\ Goto(t, "ml_park") /\ ret' = [ret EXCEPT ![t] = cont]

\* mutant: 'if' for 'while' in mutex_lock_imp: a woken waiter takes the lock
ParkedMayTakeAlways == TRUE
\* The re-test of mutex->state by a waiter that thread_park returned to.
ParkedMayTake == lockOwner = NoThread

\* A thread resumed in mutex_lock_imp's loop.
MutexResume(t) ==
  /\ Running(t) /\ pc[t] = "ml_park"
  /\ IF ParkedMayTake
       THEN lockOwner' = t /\ Goto(t, ret[t]) /\ UNCHANGED sched
       ELSE UNCHANGED lockOwner /\ sched' = Wait(sched, "lock") /\ UNCHANGED pc
  /\ UNCHANGED <<ret, pnum, fr, rc, pframe, rounds, fstate, refcount, content,
                 fdata, pagelist, freelist, links, workq, req, wqItem, leaked>>

-----------------------------------------------------------------------------
(* mem.c frames and vm_release_frame_ref *)

\* mutant: the frame freed by vm_release_frame_ref stays on obj->pagelist
EvictedListKeep(f) == pagelist
\* frame_list_remove(&obj->pagelist, frame)
EvictedList(f) == Remove(pagelist, f)

\* vm_release_frame_ref on frame f, whose content is c after the step: drop
\* one reference; with none left and a failed pagein, remove it from the
\* page list and mem_free_frame it (AVAIL, freelist, wake frame waiters).
\* Yields the scheduler state; assigns the frame variables.
ReleaseRef(f, c, s) ==
  LET evict == refcount[f] = 1 /\ c = "FAILED_INIT"
  IN  /\ refcount' = [refcount EXCEPT ![f] = @ - 1]
      /\ pagelist' = IF evict THEN EvictedList(f) ELSE pagelist
      /\ freelist' = IF evict THEN Append(freelist, f) ELSE freelist
      /\ links' = IF evict THEN FL!list_append(FL!list_remove(links, "page", f), "free", f)
                          ELSE links
      /\ fstate' = IF evict THEN [fstate EXCEPT ![f] = "AVAIL"] ELSE fstate
      /\ sched' = MutexUnlockImp(IF evict THEN Wakeup(s, "frames") ELSE s)

\* The end of vm_lock_page: mutex_unlock, return rc with *p_frame = pf.  The
\* caller unlocks the page when rc == 0 and it has a frame.
Return(t, r, pf) ==
  /\ lockOwner' = NoThread
  /\ rc' = [rc EXCEPT ![t] = r]
  /\ pframe' = [pframe EXCEPT ![t] = pf]
  /\ Goto(t, IF r = 0 /\ pf # NoFrame THEN "ul_lock" ELSE "idle")

-----------------------------------------------------------------------------
(* vm.c *)

\* A client calls vm_lock_page(obj, p, &frame) and takes obj->lock.
Call(t) ==
  /\ Running(t) /\ pc[t] = "idle" /\ rounds[t] < MaxRounds
  /\ \E p \in Pages : pnum' = [pnum EXCEPT ![t] = p]
  /\ rounds' = [rounds EXCEPT ![t] = @ + 1]
  /\ pframe' = [pframe EXCEPT ![t] = NoFrame]
  /\ MutexLock(t, sched, "lp_scan")
  /\ UNCHANGED <<fr, rc, fstate, refcount, content, fdata, pagelist, freelist, links,
                 workq, req, wqItem, leaked>>

\* mutant: the lookup finds the frame but does not take a reference
TakeRefNone(f) == refcount
\* frame->refcount++ on a page-list hit
TakeRef(f) == [refcount EXCEPT ![f] = @ + 1]

\* mutant: the frame is allocated with an initial refcount of 0
AllocRefcountZero(f) == [refcount EXCEPT ![f] = 0]
\* mem_alloc_frame(FRAME_VM_PGCACHE, 1): frame->refcount = initial_refcount
AllocRefcount(f) == [refcount EXCEPT ![f] = 1]

\* vm_alloc_and_page_in up to the pagein, once the free list is non-empty:
\* mem_alloc_frame(FRAME_VM_PGCACHE, 1), append to the page list, mark
\* PAGE_PENDING_INIT, mutex_unlock.
AllocAndUnlock(t) ==
  LET f == FL!list_get_first(links, "free") IN
  /\ ~FL!list_is_empty(links, "free")
  /\ freelist' = Tail(freelist)
  /\ links' = FL!list_append(FL!list_remove_first(links, "free"), "page", f)
  /\ fstate' = [fstate EXCEPT ![f] = "PGCACHE"]
  /\ refcount' = AllocRefcount(f)
  /\ pagelist' = Append(pagelist, f)
  /\ content' = [content EXCEPT ![f] = "PENDING_INIT"]
  /\ fr' = [fr EXCEPT ![t] = f]
  /\ lockOwner' = NoThread
  /\ sched' = MutexUnlockImp(sched)
  /\ Goto(t, "pi_post")

\* mem_alloc_frame with an empty free list: wait on s_frame_waitqueue,
\* still holding obj->lock.  Only vm_release_frame_ref frees a frame here,
\* and it needs obj->lock: a thread that waits here is never woken, so the
\* loop's retry is not an action of this model.
FrameWait(t) ==
  /\ FL!list_is_empty(links, "free")
  /\ sched' = Wait(sched, "frames") /\ Goto(t, "af_wait")
  /\ UNCHANGED <<fr, fstate, refcount, content, pagelist, freelist, links, lockOwner>>

\* vm_lock_page's scan of obj->pagelist for the first frame whose
\* vm_pgcache_page_num is page_num; a hit takes a reference, a miss calls
\* vm_alloc_and_page_in.
Scan(t) ==
  /\ Running(t) /\ pc[t] = "lp_scan"
  /\ LET onList == FL!Walk(links, "page")
         i == SelectInSeq(onList, LAMBDA f : vm_pgcache_page_num(f) = pnum[t])
     IN IF i # 0
          THEN /\ refcount' = TakeRef(onList[i])
               /\ fr' = [fr EXCEPT ![t] = onList[i]]
               /\ Goto(t, "lp_check")
               /\ UNCHANGED <<sched, lockOwner, fstate, content, pagelist, freelist, links>>
          ELSE AllocAndUnlock(t) \/ FrameWait(t)
  /\ UNCHANGED <<ret, pnum, rc, pframe, rounds, fdata, workq, req, wqItem, leaked>>

\* vm_lock_page on a hit, holding obj->lock: while the content is
\* PAGE_PENDING_INIT, cond_wait (mutex_unlock_imp, then thread_park on
\* obj->cond); on PAGE_FAILED_INIT return frame->errc after releasing the
\* reference; otherwise store the frame in *p_frame and return rc, which
\* this path never assigns.
Check(t) ==
  LET f == fr[t] IN
  /\ Running(t) /\ pc[t] = "lp_check"
  /\ \/ /\ content[f] = "PENDING_INIT"
        /\ lockOwner' = NoThread
        /\ sched' = Wait(MutexUnlockImp(sched), "cond")
        /\ Goto(t, "cw_park")
        /\ UNCHANGED <<rc, pframe, fstate, refcount, pagelist, freelist, links, leaked>>
     \/ /\ content[f] = "FAILED_INIT"
        /\ ReleaseRef(f, content[f], sched)
        /\ Return(t, errc(f), NoFrame)
        /\ UNCHANGED leaked
     \/ /\ content[f] \in {"CLEAN", "DIRTY"}
        /\ \E r \in RcValues :
             /\ Return(t, r, f)
             /\ leaked' = IF r # 0 THEN [leaked EXCEPT ![f] = @ + 1] ELSE leaked
        /\ sched' = MutexUnlockImp(sched)
        /\ UNCHANGED <<fstate, refcount, pagelist, freelist, links>>
  /\ UNCHANGED <<ret, pnum, fr, rounds, content, fdata, workq, req, wqItem>>

\* cond_wait resumed after a broadcast: mutex_lock_imp, then re-test.
CondResume(t) ==
  /\ Running(t) /\ pc[t] = "cw_park"
  /\ MutexLock(t, sched, "lp_check")
  /\ UNCHANGED <<pnum, fr, rc, pframe, rounds, fstate, refcount, content,
                 fdata, pagelist, freelist, links, workq, req, wqItem, leaked>>


-----------------------------------------------------------------------------
(* The pagein: blockdev_pager_read_page -> blockdev_read_sync ->           *)
(* blockdev_issue_sync, run with obj->lock released.                       *)

\* blockdev_create_request + blockdev_post_request -> ramdisk_post_request ->
\* workqueue_schedule_work: queue the request and wake one waiter of the
\* work queue's s_waitqueue.  Both mem_alloc calls may be handed the memory
\* of a request another client has already mem_free'd.
PageinPost(t) ==
  /\ Running(t) /\ pc[t] = "pi_post"
  /\ workq' = Append(workq, t)
  /\ \E reused \in SUBSET {u \in Clients : pc[u] = "pi_freed"} :
       /\ Cardinality(reused) <= 2
       /\ req' = [u \in Clients |->
                    IF u = t
                      THEN [state |-> "PENDING", rc |-> 0, frame |-> fr[t],
                            page |-> pnum[t], reused |-> FALSE]
                      ELSE [req[u] EXCEPT !.reused = @ \/ u \in reused]]
  /\ sched' = WakeupOne(sched, "wq")
  /\ Goto(t, "pi_wait")
  /\ UNCHANGED <<lockOwner, ret, pnum, fr, rc, pframe, rounds, fstate,
                 refcount, content, fdata, pagelist, freelist, links, wqItem, leaked>>

\* blockdev_wait_for_completion's loop, then blockdev_issue_sync's
\* KASSERT(state == BLOCKDEV_REQ_FINISHED) on the value post_and_wait
\* returned (req->rc) and mem_free(req).  A failed KASSERT is HALT(): the
\* thread spins with interrupts enabled.
PageinWait(t) ==
  /\ Running(t) /\ pc[t] \in {"pi_wait", "pi_block"}
  /\ IF req[t].state = "PENDING"
       THEN sched' = Wait(sched, t) /\ Goto(t, "pi_block")
       ELSE /\ UNCHANGED sched
            /\ Goto(t, IF Debug /\ req[t].rc # BLOCKDEV_REQ_FINISHED
                         THEN "halted" ELSE "pi_freed")
  /\ UNCHANGED <<lockOwner, ret, pnum, fr, rc, pframe, rounds, fstate, refcount,
                 content, fdata, pagelist, freelist, links, workq, req, wqItem, leaked>>

\* blockdev_issue_sync's 'return req->rc' after mem_free(req): the rc the
\* driver stored, or anything if the memory was reused; then vm_alloc_and_
\* page_in re-locks obj->lock.
PageinReturn(t) ==
  /\ Running(t) /\ pc[t] = "pi_freed"
  /\ \E r \in IF req[t].reused THEN RcValues ELSE {req[t].rc} :
       rc' = [rc EXCEPT ![t] = r]
  /\ MutexLock(t, sched, "pi_done")
  /\ UNCHANGED <<pnum, fr, pframe, rounds, fstate, refcount, content, fdata,
                 pagelist, freelist, links, workq, req, wqItem, leaked>>

\* mutant: a successful pagein does not update frame->content
PageinContentFailOnly(f, r) ==
  [content EXCEPT ![f] = IF r = 0 THEN @ ELSE "FAILED_INIT"]
\* frame->content = (rc == 0) ? PAGE_CLEAN : PAGE_FAILED_INIT
PageinContent(f, r) ==
  [content EXCEPT ![f] = IF r = 0 THEN "CLEAN" ELSE "FAILED_INIT"]

\* The rest of vm_alloc_and_page_in, holding obj->lock again: set the
\* content, cond_broadcast, then on success *p_frame = frame, on failure
\* vm_release_frame_ref; vm_lock_page then unlocks and returns rc.
PageinDone(t) ==
  LET f == fr[t]
      r == rc[t]
      bcast == Wakeup(sched, "cond")
  IN
  /\ Running(t) /\ pc[t] = "pi_done"
  /\ content' = PageinContent(f, r)
  /\ IF r = 0
       THEN /\ Return(t, 0, f) /\ sched' = MutexUnlockImp(bcast)
            /\ UNCHANGED <<fstate, refcount, pagelist, freelist, links>>
       ELSE ReleaseRef(f, "FAILED_INIT", bcast) /\ Return(t, r, NoFrame)
  /\ UNCHANGED <<ret, pnum, fr, rounds, fdata, workq, req, wqItem, leaked>>

\* vm_unlock_page: mutex_lock, then refcount-- and mutex_unlock.
UnlockPage(t) ==
  /\ Running(t) /\ pc[t] = "ul_lock"
  /\ MutexLock(t, sched, "ul_dec")
  /\ UNCHANGED <<pnum, fr, rc, pframe, rounds, fstate, refcount, content,
                 fdata, pagelist, freelist, links, workq, req, wqItem, leaked>>

UnlockPageDec(t) ==
  /\ Running(t) /\ pc[t] = "ul_dec"
  /\ refcount' = [refcount EXCEPT ![pframe[t]] = @ - 1]
  /\ lockOwner' = NoThread /\ sched' = MutexUnlockImp(sched)
  /\ Goto(t, "idle")
  /\ UNCHANGED <<ret, pnum, fr, rc, pframe, rounds, fstate, content, fdata,
                 pagelist, freelist, links, workq, req, wqItem, leaked>>

\* A client done with its calls returns from its start function:
\* thread_exit marks it EXITED and schedules.
ClientExit(t) ==
  /\ Running(t) /\ pc[t] = "idle" /\ rounds[t] = MaxRounds
  /\ sched' = Schedule([sched EXCEPT !.st[t] = "EXITED"])
  /\ Goto(t, "exited")
  /\ UNCHANGED <<lockOwner, ret, pnum, fr, rc, pframe, rounds, fstate, refcount,
                 content, fdata, pagelist, freelist, links, workq, req, wqItem, leaked>>

-----------------------------------------------------------------------------
(* workqueue.c, ramdisk.c, blockdev.c completion; thread_idle; the tick    *)

\* workqueue_thread: with interrupts disabled, wait on s_waitqueue while the
\* queue is empty, else pop the head item.
WorkerTake ==
  /\ Running(Worker) /\ pc[Worker] \in {"wq_top", "wq_wait"}
  /\ IF workq = << >>
       THEN sched' = Wait(sched, "wq") /\ Goto(Worker, "wq_wait")
            /\ UNCHANGED <<workq, wqItem>>
       ELSE workq' = Tail(workq) /\ wqItem' = Head(workq)
            /\ Goto(Worker, "wq_call") /\ UNCHANGED sched
  /\ UNCHANGED <<lockOwner, ret, pnum, fr, rc, pframe, rounds, fstate, refcount,
                 content, fdata, pagelist, freelist, links, req, leaked>>

\* The item's callback, ramdisk_handle_request: copy the page into the
\* frame, blockdev_notify_complete(req, rc) (FINISHED, rc, wake the
\* requester); then mem_free(item).
WorkerCall ==
  LET c == wqItem IN
  /\ Running(Worker) /\ pc[Worker] = "wq_call"
  /\ \E r \in PageinResults :
       /\ req' = [req EXCEPT ![c].state = "FINISHED", ![c].rc = r]
       /\ fdata' = IF r = 0 THEN [fdata EXCEPT ![req[c].frame] = req[c].page]
                            ELSE fdata
  /\ sched' = Wakeup(sched, c)
  /\ wqItem' = NoThread
  /\ Goto(Worker, "wq_top")
  /\ UNCHANGED <<lockOwner, ret, pnum, fr, rc, pframe, rounds, fstate, refcount,
                 content, pagelist, freelist, links, workq, leaked>>

\* thread_idle: thread_yield forever.
IdleYield ==
  /\ Running(Idle)
  /\ sched' = Yield(sched)
  /\ UNCHANGED <<lockOwner, pc, ret, pnum, fr, rc, pframe, rounds, fstate,
                 refcount, content, fdata, pagelist, freelist, links, workq, req,
                 wqItem, leaked>>

\* timer_process_tick sets g_need_reschedule once the quantum is used up,
\* and the return from the interrupt calls thread_yield when g_preemption
\* is set; the tick count is abstracted to "at any preemptible point".
Preempt(t) ==
  /\ Running(t) /\ pc[t] \in Preemptible
  /\ sched' = Yield(sched)
  /\ UNCHANGED <<lockOwner, pc, ret, pnum, fr, rc, pframe, rounds, fstate,
                 refcount, content, fdata, pagelist, freelist, links, workq, req,
                 wqItem, leaked>>

-----------------------------------------------------------------------------

Init ==
  /\ sched = [cur |-> Idle, runq |-> SetToSeq(Clients),
              wq |-> [q \in Queues |-> IF q = "wq" THEN << Worker >> ELSE << >>],
              st |-> [t \in Threads |-> IF t = Idle THEN "RUNNING" ELSE
                                        IF t = Worker THEN "RUNNING" ELSE "READY"]]
  /\ lockOwner = NoThread
  /\ pc = [t \in Threads |-> IF t = Worker THEN "wq_wait" ELSE
                             IF t = Idle THEN "idle_loop" ELSE "idle"]
  /\ ret = [t \in Clients |-> "lp_scan"]
  /\ pnum = [t \in Clients |-> 0]
  /\ fr = [t \in Clients |-> NoFrame]
  /\ rc = [t \in Clients |-> 0]
  /\ pframe = [t \in Clients |-> NoFrame]
  /\ rounds = [t \in Clients |-> 0]
  /\ fstate = [f \in Frames |-> "AVAIL"]
  /\ refcount = [f \in Frames |-> 0]
  /\ content = [f \in Frames |-> "PENDING_INIT"]
  /\ fdata = [f \in Frames |-> NoPage]
  /\ pagelist = << >>
  /\ freelist = SetToSeq(Frames)
  /\ links = FoldLeft(LAMBDA L, f : FL!list_append(L, "free", f), FL!EmptyLinks, freelist)
  /\ workq = << >>
  /\ req = [t \in Clients |-> [state |-> "FINISHED", rc |-> 0, frame |-> NoFrame,
                               page |-> 0, reused |-> FALSE]]
  /\ wqItem = NoThread
  /\ leaked = [f \in Frames |-> 0]

\* The steps of a client other than being preempted.
ClientWork(t) ==
  \/ Call(t) \/ MutexResume(t) \/ Scan(t) \/ Check(t)
  \/ CondResume(t) \/ PageinPost(t) \/ PageinWait(t) \/ PageinReturn(t)
  \/ PageinDone(t) \/ UnlockPage(t) \/ UnlockPageDec(t) \/ ClientExit(t)

WorkerWork == WorkerTake \/ WorkerCall

Next ==
  \/ \E t \in Clients : ClientWork(t) \/ Preempt(t)
  \/ WorkerWork \/ Preempt(Worker)
  \/ IdleYield

\* A thread that is g_current keeps the CPU until it waits or its quantum
\* (TIMER_QUANTUM timer ticks) runs out, so a thread that is scheduled
\* infinitely often takes its next step: strong fairness of each thread's
\* own steps.  Preemption itself is never forced.
Fairness ==
  /\ \A t \in Clients : SF_vars(ClientWork(t))
  /\ SF_vars(WorkerWork)
  /\ WF_vars(IdleYield)

Spec == Init /\ [][Next]_vars
FairSpec == Spec /\ Fairness

-----------------------------------------------------------------------------
(* Properties *)

Pcs == {"idle", "ml_park", "lp_scan", "af_wait", "lp_check", "cw_park",
        "pi_post", "pi_wait", "pi_block", "pi_freed", "pi_done", "halted",
        "ul_lock", "ul_dec", "exited", "wq_top", "wq_wait", "wq_call",
        "idle_loop"}
ReqType == [state : {"PENDING", "FINISHED"}, rc : {0} \cup PageinResults,
            frame : Frames \cup {NoFrame}, page : {0} \cup Pages,
            reused : BOOLEAN]

TypeOK ==
  /\ sched \in SchedType
  /\ lockOwner \in Clients \cup {NoThread}
  /\ pc \in [Threads -> Pcs]
  /\ ret \in [Clients -> {"lp_scan", "lp_check", "pi_done", "ul_dec"}]
  /\ pnum \in [Clients -> {0} \cup Pages]
  /\ fr \in [Clients -> Frames \cup {NoFrame}]
  /\ rc \in [Clients -> RcValues \cup PageinResults]
  /\ pframe \in [Clients -> Frames \cup {NoFrame}]
  /\ rounds \in [Clients -> 0..MaxRounds]
  /\ fstate \in [Frames -> {"AVAIL", "PGCACHE"}]
  /\ refcount \in [Frames -> Nat]
  /\ content \in [Frames -> {"PENDING_INIT", "FAILED_INIT", "CLEAN", "DIRTY"}]
  /\ fdata \in [Frames -> {NoPage} \cup Pages]
  /\ pagelist \in Seq(Frames) /\ freelist \in Seq(Frames)
  /\ links \in FL!LinkType
  /\ workq \in Seq(Clients)
  /\ req \in [Clients -> ReqType]
  /\ wqItem \in Clients \cup {NoThread}
  /\ leaked \in [Frames -> Nat]

\* The control point a thread parked in mutex_lock_imp resumes at.
EffectivePc(t) == IF pc[t] = "ml_park" THEN ret[t] ELSE pc[t]

\* Points of vm_lock_page / vm_alloc_and_page_in / vm_unlock_page between a
\* successful mutex_lock(&obj->lock) and the matching mutex_unlock.
HoldsLockPcs == {"lp_scan", "af_wait", "lp_check", "pi_done", "ul_dec"}
\* Points where the local 'frame' is a frame being paged in by this thread.
PageinPcs == {"pi_post", "pi_wait", "pi_block", "pi_freed", "pi_done", "halted"}

\* The frame whose reference client t holds, NoFrame if none.
HeldFrame(t) ==
  LET p == EffectivePc(t) IN
  IF p \in PageinPcs \cup {"lp_check", "cw_park"} THEN fr[t]
  ELSE IF p \in {"ul_lock", "ul_dec"} THEN pframe[t]
  ELSE NoFrame

\* obj->lock is a mutex: exactly the client at a point between its
\* mutex_lock and mutex_unlock owns it.  Breaks if mutex_lock_imp's
\* 'while' re-test of the state, after thread_park returns, is lost.
MutexExclusion ==
  \A t \in Clients : pc[t] \in HoldsLockPcs <=> lockOwner = t

\* mem.c's s_freelist holds exactly the FRAME_AVAIL frames, and the frames
\* of obj->pagelist are allocated frames, each listed once: what
\* vm_release_frame_ref's remove + mem_free_frame pair must keep.
FreeListExact ==
  /\ \A f \in Frames : fstate[f] = "AVAIL" <=> f \in Range(freelist)
  /\ \A f \in Range(pagelist) : fstate[f] = "PGCACHE"
  /\ IsInjective(pagelist) /\ IsInjective(freelist)

\* frame->refcount counts the references held by vm_lock_page callers and
\* by threads inside vm_lock_page (plus those returned with a garbage rc
\* that the caller never drops); a frame off the page list has none.
RefcountAccounting ==
  \A f \in Frames :
    refcount[f] = Cardinality({t \in Clients : HeldFrame(t) = f}) + leaked[f]

\* A frame of the page list is PAGE_PENDING_INIT exactly while one thread
\* is paging it in: waiters in cond_wait are woken only by that thread's
\* cond_broadcast after it sets the content.
PendingFrameOwned ==
  \A f \in Range(pagelist) :
    content[f] = "PENDING_INIT" <=>
      \E t \in Clients : EffectivePc(t) \in PageinPcs /\ fr[t] = f

\* Every vm_lock_page call returns: a client that calls it is eventually
\* back in its loop (or has exited).
LockPageTerminates ==
  \A t \in Clients : (pc[t] = "lp_scan") ~> (pc[t] \in {"idle", "exited"})

\* The frame vm_lock_page hands back holds the data of the page asked for.
LockedFrameHoldsPage ==
  \A t \in Clients :
    pc[t] = "ul_lock" => fdata[pframe[t]] = pnum[t]

\* vm_lock_page returns 0 exactly when it stores a frame in *p_frame: a
\* failed pagein is reported as an error to every thread that asked for
\* the page, and a frame comes with rc == 0.
LockPageResult ==
  \A t \in Clients :
    (pc[t] \in {"idle", "ul_lock"} /\ rounds[t] > 0) =>
      (rc[t] = 0 <=> pframe[t] # NoFrame)

\* No KASSERT fails: no thread HALTs.
NoAssertionFailure == \A t \in Clients : pc[t] # "halted"

\* blockdev_issue_sync returns the rc blockdev_notify_complete stored.
IssueSyncReturnsDriverRc ==
  \A t \in Clients : EffectivePc(t) = "pi_done" => rc[t] = req[t].rc

\* list.h keeps no record of which list a frame is on, and remove_first
\* and remove leave the removed frame's links as they were: after any run
\* of allocations, evictions and frees, the links still form exactly
\* s_freelist and obj->pagelist, each in order, with no frame reachable
\* from the wrong list through a stale link.
ListsLinked == FL!Represents(links, [l \in {"free", "page"} |->
                                       IF l = "free" THEN freelist ELSE pagelist])

=============================================================================
