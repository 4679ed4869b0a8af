-------------------------------- MODULE Vfs --------------------------------
(***************************************************************************)
(* The device registry (src/kernel/dev.c), the virtual filesystem          *)
(* (src/kernel/vfs.c) with the PFAT driver (src/kernel/pfat.c), and the    *)
(* string functions they compare names with (src/kernel/string.c).         *)
(*                                                                         *)
(* Client threads call the public functions with small arguments.  No code *)
(* of the kernel calls them yet, so every client stands for a future       *)
(* caller.  A step runs from one point where a thread may wait to the      *)
(* next; a section that holds s_fs_mutex and cannot wait is one step, and  *)
(* the device-list and driver-list sections (which never wait) are folded  *)
(* into the step that calls them.  A mutex is its owner: mutex_lock is     *)
(* enabled when the owner is NoThread (the FIFO hand-off of synch.c is not *)
(* modelled; it only removes behaviours).                                  *)
(*                                                                         *)
(* Two filesystem drivers are registered: "pfat" (pfat.c as written) and   *)
(* "cfs", which stands for any driver that implements the operations       *)
(* vfs.h declares over a fixed directory tree (DiskTree): create_instance  *)
(* and get_root may fail with EIO, get_root returns a new root directory   *)
(* with one reference as pfat_get_root does, lookup returns a new inode    *)
(* for a name the directory holds and EEXIST ("no such file or directory"  *)
(* in errno.h) otherwise.                                                  *)
(*                                                                         *)
(* C strings are sequences of character codes; the NUL terminator is       *)
(* implicit after the last element.                                        *)
(***************************************************************************)
EXTENDS Integers, Sequences, FiniteSets, Bags, SequencesExt

CONSTANTS
  Clients,          \* threads that call the VFS and registry functions
  NoThread,         \* owner of an unlocked mutex
  Null,             \* the null pointer
  NullName,         \* a NULL name pointer (pfat names its root 0)
  InodeIds,         \* inode records the heap can hold
  Objs,             \* struct blockdev objects passed to dev_register_blockdev
  Names,            \* device names
  Paths,            \* relative paths passed to vfs_lookup_inode and vfs_mount
  FsNames,          \* driver names passed to vfs_mount_root and vfs_mount
  DiskTree,         \* path (sequence of names) -> "FILE" | "DIR" of a cfs volume
  RootName,         \* the name a cfs driver gives its root directory
  DEV_NAME_MAXLEN,  \* dev.h (31)
  VFS_NAMELEN_MAX,  \* vfs.h (255)
  VFS_PATHLEN_MAX,  \* vfs.h (1023)
  Script,           \* the kinds of the calls each client makes, in order
  Debug,            \* KASSERT is compiled in
  RootDirUnlock     \* vfs_get_root_dir ends with mutex_unlock (see GetRootDirExit)

ASSUME Debug \in BOOLEAN /\ RootDirUnlock \in BOOLEAN

VARIABLES
  pc,        \* control point of each client
  loc,       \* the locals and arguments of the call a client is in
  fsOwner,   \* s_fs_mutex
  devlist,   \* s_devlist: sequence of [name, type, devobj]
  rootDir,   \* s_root_dir
  nInst,     \* length of s_inst_list
  ino,       \* inode records, by id
  condq,     \* threads waiting on each inode's inode_cond
  held,      \* references each client holds, as a bag of inodes
  mounts,    \* mountpoints of the vfs_mount calls that succeeded (a bag)
  rounds,    \* calls of its script each client has started
  devResult, \* result of each client's last registry call
  drivers,   \* names of the drivers on s_driver_list
  fault      \* failed KASSERTs and page faults

vars == <<pc, loc, fsOwner, devlist, rootDir, nInst, ino, condq, held, mounts,
          rounds, devResult, drivers, fault>>

\* errno.h
ENOMEM == -1
EEXIST == -2
ENOTDIR == -3
EINVAL == -4
ENODEV == -5
EIO == -6

SLASH == 47

\* The system runs until a KASSERT fails or a page fault halts it.
Running == fault = {}
\* s_fs_mutex is unlocked.
FsFree == fsOwner = NoThread

\* Calls start from "idle" and count against the client's script.
Tick(c) == rounds' = IF pc[c] = "idle" THEN [rounds EXCEPT ![c] = @ + 1] ELSE rounds

\* The next call of c's script is of kind k.
CallIs(c, k) == rounds[c] < Len(Script[c]) /\ Script[c][rounds[c] + 1] = k

-----------------------------------------------------------------------------
(* string.c                                                                *)

\* The character at offset i (1-based) of a C string: NUL past its end.
Chr(s, i) == IF i <= Len(s) THEN s[i] ELSE 0

\* strnlen: count characters until NUL or maxlen.
RECURSIVE strnlen(_, _)
strnlen(s, maxlen) ==
  IF maxlen = 0 \/ Chr(s, 1) = 0 THEN 0 ELSE 1 + strnlen(Tail(s), maxlen - 1)

\* Mutant: the loop runs while i <= limit.
RECURSIVE StrncmpOneMore(_, _, _)
StrncmpOneMore(s1, s2, limit) ==
  IF limit < 0 THEN 0
  ELSE LET cmp == Chr(s1, 1) - Chr(s2, 1)
       IN  IF cmp # 0 \/ Chr(s1, 1) = 0 \/ Chr(s2, 1) = 0 THEN cmp
           ELSE StrncmpOneMore(Tail(s1), Tail(s2), limit - 1)

\* strncmp: the difference of the first characters that differ, or 0 when
\* either string ends or the limit is reached.
RECURSIVE strncmp(_, _, _)
strncmp(s1, s2, limit) ==
  IF limit = 0 THEN 0
  ELSE LET cmp == Chr(s1, 1) - Chr(s2, 1)
       IN  IF cmp # 0 \/ Chr(s1, 1) = 0 \/ Chr(s2, 1) = 0 THEN cmp
           ELSE strncmp(Tail(s1), Tail(s2), limit - 1)

\* strncpy into a zeroed buffer: at most limit characters.
strncpy(src, limit) == SubSeq(src, 1, IF Len(src) < limit THEN Len(src) ELSE limit)

-----------------------------------------------------------------------------
(* dev.c                                                                   *)

\* dev_find_callback and the dev_enumerate loop: the first block device
\* whose name matches on DEV_NAME_MAXLEN characters, or Null.
DevLookup(list, name) ==
  LET hits == {k \in 1..Len(list) : list[k].type = "DEV_BLOCK"
                                    /\ strncmp(name, list[k].name, DEV_NAME_MAXLEN) = 0}
  IN  IF hits = {} THEN Null ELSE list[CHOOSE k \in hits : \A j \in hits : k <= j].devobj

\* Mutant: the duplicate-name loop of dev_register is dropped.
NameTakenNever(name) == FALSE

\* dev_register: a device with this name is already registered.
NameTaken(name) ==
  \E k \in 1..Len(devlist) : strncmp(name, devlist[k].name, DEV_NAME_MAXLEN) = 0

\* dev_register_blockdev(name, dev) = dev_register(DEV_BLOCK, ...): under
\* s_devlist_mutex, EEXIST if the name is taken, else a device record with
\* the name copied by strncpy and cut at DEV_NAME_MAXLEN, appended.
DevRegister(c, name, obj) ==
  /\ Running /\ pc[c] = "idle" /\ CallIs(c, "devreg")
  /\ IF NameTaken(name)
       THEN /\ devResult' = [devResult EXCEPT ![c] = [call |-> "register", name |-> name,
                                                    obj |-> obj, rc |-> EEXIST]]
            /\ UNCHANGED devlist
       ELSE /\ devlist' = Append(devlist, [name |-> strncpy(name, DEV_NAME_MAXLEN),
                                          type |-> "DEV_BLOCK", devobj |-> obj])
            /\ devResult' = [devResult EXCEPT ![c] = [call |-> "register", name |-> name,
                                                    obj |-> obj, rc |-> 0]]
  /\ rounds' = [rounds EXCEPT ![c] = @ + 1]
  /\ UNCHANGED <<pc, loc, fsOwner, rootDir, nInst, ino, condq, held, mounts, drivers, fault>>

\* dev_find_blockdev(name): dev_enumerate with dev_find_callback under
\* s_devlist_mutex; ENODEV when nothing matched.
DevFind(c, name) ==
  /\ Running /\ pc[c] = "idle" /\ CallIs(c, "devfind")
  /\ LET obj == DevLookup(devlist, name)
     IN  devResult' = [devResult EXCEPT ![c] = [call |-> "find", name |-> name,
                                                obj |-> obj,
                                                rc |-> IF obj = Null THEN ENODEV ELSE 0]]
  /\ rounds' = [rounds EXCEPT ![c] = @ + 1]
  /\ UNCHANGED <<pc, loc, fsOwner, devlist, rootDir, nInst, ino, condq, held, mounts, drivers, fault>>

-----------------------------------------------------------------------------
(* vfs.c: inodes and reference counts                                      *)

\* A heap slot that holds no inode.
NoInode == [alloc |-> FALSE, parent |-> Null, type |-> "VFS_FILE", name |-> NullName,
            dpath |-> <<>>, mount |-> Null, children |-> <<>>, refcount |-> 0,
            busy |-> FALSE, dref |-> FALSE]

\* vfs_inode_create: a record zeroed by mem_alloc with the given parent,
\* type and name (dpath is where the driver finds its data).
vfs_inode_create(parent, type, name, dpath) ==
  [NoInode EXCEPT !.alloc = TRUE, !.parent = parent, !.type = type, !.name = name,
                  !.dpath = dpath]

\* An inode a driver returns (pfat_get_inode): created, then given the
\* driver's initial reference, which only the inode itself counts.
DriverInode(parent, type, name, dpath) ==
  [vfs_inode_create(parent, type, name, dpath) EXCEPT !.refcount = 1, !.dref = TRUE]

FreeIds == {i \in InodeIds : ~ino[i].alloc}
NewId == CHOOSE i \in FreeIds : TRUE

\* An inode and its tree ancestors, by parent pointers.
RECURSIVE Chain(_, _)
Chain(f, i) == IF i = Null THEN {} ELSE {i} \cup Chain(f, f[i].parent)

\* vfs_adjust_refcounts' KASSERTs fail somewhere on the chain.
AdjustFails(f, i, delta) ==
  \E j \in Chain(f, i) : f[j].refcount < 0 \/ (delta <= 0 /\ f[j].refcount <= 0)

\* Mutant: the loop stops after the inode itself.
AdjustOnlyInode(f, i, delta) == [f EXCEPT ![i].refcount = @ + delta]

\* vfs_adjust_refcounts: add delta to the inode and every ancestor.
vfs_adjust_refcounts(f, i, delta) ==
  [j \in InodeIds |-> IF j \in Chain(f, i) THEN [f[j] EXCEPT !.refcount = @ + delta]
                                            ELSE f[j]]

\* A failed KASSERT, when KASSERT is compiled in.
Kassert(cond, what) == IF Debug /\ ~cond THEN {what} ELSE {}

\* vfs_adjust_refcounts after the KASSERTs in failed have been checked: a
\* failed KASSERT halts the kernel before the update.
AdjustChecked(f, i, delta, failed) ==
  LET all == failed \cup Kassert(~AdjustFails(f, i, delta), "vfs_adjust_refcounts")
  IN  /\ fault' = all
      /\ ino' = IF all = {} THEN vfs_adjust_refcounts(f, i, delta) ELSE f

Ref(i) == SetToBag({i})

-----------------------------------------------------------------------------
(* vfs.c: path elements                                                    *)

\* The characters before the next '/' or the end of the path.
RECURSIVE ElemLen(_)
ElemLen(p) == IF Len(p) = 0 \/ Head(p) = SLASH THEN 0 ELSE 1 + ElemLen(Tail(p))

RECURSIVE SkipSlashes(_)
SkipSlashes(p) == IF Len(p) > 0 /\ Head(p) = SLASH THEN SkipSlashes(Tail(p)) ELSE p

\* Mutant: a name of exactly VFS_NAMELEN_MAX characters is refused.
NextElementStrict(p) ==
  LET n == ElemLen(p)
  IN  IF n >= VFS_NAMELEN_MAX THEN [rc |-> EINVAL, name |-> <<>>, rest |-> p]
      ELSE [rc |-> 0, name |-> SubSeq(p, 1, n), rest |-> SkipSlashes(SubSeq(p, n + 1, Len(p)))]

\* vfs_get_next_path_element: the name up to the next separator, EINVAL if
\* longer than VFS_NAMELEN_MAX, and the path after the separators.
NextElement(p) ==
  LET n == ElemLen(p)
  IN  IF n > VFS_NAMELEN_MAX THEN [rc |-> EINVAL, name |-> <<>>, rest |-> p]
      ELSE [rc |-> 0, name |-> SubSeq(p, 1, n), rest |-> SkipSlashes(SubSeq(p, n + 1, Len(p)))]

\* vfs_lookup_inode's loop over the path: the names it visits, or the
\* error that ends it.
RECURSIVE Walk(_)
Walk(p) ==
  IF Len(p) = 0 THEN [rc |-> 0, elems |-> <<>>]
  ELSE LET e == NextElement(p)
       IN  IF e.rc # 0 THEN [rc |-> e.rc, elems |-> <<>>]
           ELSE LET w == Walk(e.rest)
                IN  [rc |-> w.rc, elems |-> IF w.rc = 0 THEN <<e.name>> \o w.elems ELSE <<>>]

-----------------------------------------------------------------------------
(* vfs.c: the root directory and references                                *)

\* The locals of a call: return code, path, current inode, directory being
\* searched, the child found, the root_dir reference vfs_mount holds, the
\* driver and device names of a mount, and where the call returns to.
NoLoc == [rc |-> 0, rest |-> <<>>, name |-> <<>>, dir |-> Null, inode |-> Null,
          child |-> Null, root |-> Null, path |-> <<>>, drv |-> "none", dev |-> <<>>,
          ret |-> "idle"]

\* vfs_get_root_dir: under s_fs_mutex, EEXIST if no root is mounted, else a
\* new reference to s_root_dir.  Line 381 calls mutex_lock(&s_fs_mutex)
\* where the unlock belongs: mutex_lock_imp's KASSERT fails, or without
\* KASSERT the thread parks on the mutex it owns.  With RootDirUnlock the
\* call ends with the mutex_unlock that spec.md prescribes instead.
\* Its callers return at once when it fails.
GetRootDir(c, ret, mountArgs) ==
  /\ Running /\ FsFree
  /\ LET rc == IF rootDir = Null THEN EEXIST ELSE 0
     IN  /\ IF rc = 0
              THEN /\ ino' = [ino EXCEPT ![rootDir].refcount = @ + 1]
                   /\ held' = [held EXCEPT ![c] = @ (+) Ref(rootDir)]
              ELSE UNCHANGED <<ino, held>>
         /\ loc' = [loc EXCEPT ![c] = [mountArgs EXCEPT !.rc = rc,
                                          !.root = IF rc = 0 THEN rootDir ELSE Null]]
         /\ IF RootDirUnlock
              THEN /\ pc' = [pc EXCEPT ![c] = IF rc # 0 THEN "idle" ELSE ret]
                   /\ UNCHANGED <<fsOwner, fault>>
              ELSE /\ fsOwner' = c
                   /\ IF Debug THEN /\ fault' = {"mutex_lock_imp"}
                                    /\ UNCHANGED pc
                               ELSE /\ pc' = [pc EXCEPT ![c] = "gr_parked"]
                                    /\ UNCHANGED fault
  /\ Tick(c)
  /\ UNCHANGED <<devlist, rootDir, nInst, condq, mounts, devResult, drivers>>

\* vfs_release_ref: ignore a null inode; under s_fs_mutex, KASSERT that the
\* inode is referenced and take one from it and every ancestor.
Release(c, i, ret) ==
  /\ Running
  /\ IF i = Null
       THEN /\ pc' = [pc EXCEPT ![c] = ret]
            /\ UNCHANGED <<ino, held, fault>>
       ELSE /\ FsFree
            /\ AdjustChecked(ino, i, -1, Kassert(ino[i].refcount > 0, "vfs_release_ref"))
            /\ held' = [held EXCEPT ![c] = @ (-) Ref(i)]
            /\ pc' = [pc EXCEPT ![c] = ret]
  /\ loc' = [loc EXCEPT ![c] = IF ret = "idle" THEN NoLoc ELSE @]
  /\ Tick(c)
  /\ UNCHANGED <<fsOwner, devlist, rootDir, nInst, condq, mounts, devResult, drivers>>

-----------------------------------------------------------------------------
(* vfs.c: vfs_lookup_inode                                                 *)

\* Mutant: vfs_adjust_refcounts(start_dir, 1) is left out.
TakeStartNone(c, start, failed) ==
  /\ fault' = failed
  /\ ino' = ino
  /\ held' = [held EXCEPT ![c] = @ (+) Ref(start)]

\* vfs_lookup_inode's reference to start_dir and its ancestors, which is
\* the lookup's reference to its current inode.
TakeStart(c, start, failed) ==
  /\ AdjustChecked(ino, start, 1, failed)
  /\ held' = [held EXCEPT ![c] = @ (+) Ref(start)]

\* vfs_lookup_inode up to its loop: KASSERT that start_dir is referenced,
\* EINVAL for a path longer than VFS_PATHLEN_MAX, then s_fs_mutex and the
\* reference to start_dir.
LookupBegin(c, start, path, ret) ==
  LET failed == Kassert(ino[start].refcount > 0, "vfs_lookup_inode")
  IN
  /\ Running
  /\ IF failed = {} /\ strnlen(path, VFS_PATHLEN_MAX + 1) > VFS_PATHLEN_MAX
       THEN /\ loc' = [loc EXCEPT ![c].rc = EINVAL, ![c].inode = Null]
            /\ pc' = [pc EXCEPT ![c] = ret]
            /\ UNCHANGED <<fsOwner, ino, held, fault>>
       ELSE /\ FsFree
            /\ fsOwner' = c
            /\ TakeStart(c, start, failed)
            /\ loc' = [loc EXCEPT ![c].rest = path, ![c].inode = start, ![c].ret = ret]
            /\ pc' = [pc EXCEPT ![c] = "lk_loop"]
  /\ Tick(c)
  /\ UNCHANGED <<devlist, rootDir, nInst, condq, mounts, devResult, drivers>>

\* Mutant: the error path returns without mutex_unlock(&s_fs_mutex).
LookupFailKeepLock(c, f, rc, pcs) ==
  /\ AdjustChecked(f, loc[c].inode, -1, {})
  /\ held' = [held EXCEPT ![c] = @ (-) Ref(loc[c].inode)]
  /\ fsOwner' = c
  /\ loc' = [loc EXCEPT ![c].rc = rc, ![c].inode = Null, ![c].dir = Null, ![c].child = Null]
  /\ pc' = [pcs EXCEPT ![c] = loc[c].ret]

\* The done: label of vfs_lookup_inode on an error: take the lookup's
\* reference from the current inode and its ancestors, unlock, return rc.
\* pcs is the control state of the other clients after the step.
LookupFail(c, f, rc, pcs) ==
  LET i == loc[c].inode
  IN  /\ AdjustChecked(f, i, -1, {})
      /\ held' = [held EXCEPT ![c] = @ (-) Ref(i)]
      /\ fsOwner' = NoThread
      /\ loc' = [loc EXCEPT ![c].rc = rc, ![c].inode = Null, ![c].dir = Null,
                            ![c].child = Null]
      /\ pc' = [pcs EXCEPT ![c] = loc[c].ret]

\* Mutant: vfs_unlock_dir without its cond_broadcast.
WokenNone(dir) == pc

\* vfs_unlock_dir: clear busy and cond_broadcast(&dir->inode_cond): every
\* waiter becomes ready to re-take s_fs_mutex.
Woken(dir) == [t \in Clients |-> IF t \in condq[dir] THEN "lk_woken" ELSE pc[t]]
UnlockDir(f, dir) == [f EXCEPT ![dir].busy = FALSE]

\* inode = child; inode->refcount++: the lookup's reference moves on to
\* the child.  Only the child is incremented: its ancestors already carry
\* the reference taken for the directory.
StepInto(c, f, dir, child) ==
  /\ ino' = [f EXCEPT ![child].refcount = @ + 1]
  /\ held' = [held EXCEPT ![c] = (@ (-) Ref(dir)) (+) Ref(child)]

\* Mutant: a woken thread takes the directory without testing busy again
\* (an if where vfs_lock_dir has a while).
DirBusyOnce(c, dir) == pc[c] # "lk_woken" /\ ino[dir].busy

\* The test of vfs_lock_dir's while loop.
DirBusy(c, dir) == ino[dir].busy

\* vfs_lock_dir and vfs_lookup_child, from the point where s_fs_mutex is
\* held: wait on inode_cond while the directory is busy; else mark it busy
\* and search its child list.  The list is searched with name compared to
\* dir->name (line 242), so a hit returns the first child; a NULL dir->name
\* page-faults.  A hit unlocks the directory and continues in the child
\* with s_fs_mutex held; a miss releases s_fs_mutex for the driver lookup.
LockDir(c, l) ==
  LET dir  == l.dir
      kids == ino[dir].children
  IN
  CASE DirBusy(c, dir) ->
         /\ condq' = [condq EXCEPT ![dir] = @ \cup {c}]
         /\ fsOwner' = NoThread
         /\ pc' = [pc EXCEPT ![c] = "lk_wait"]
         /\ loc' = [loc EXCEPT ![c] = l]
         /\ UNCHANGED <<ino, held, fault>>
    [] kids # <<>> /\ ino[dir].name = NullName ->
         /\ fault' = {"page_fault"}
         /\ UNCHANGED <<condq, fsOwner, pc, loc, ino, held>>
    [] kids # <<>> /\ strncmp(l.name, ino[dir].name, VFS_NAMELEN_MAX) = 0 ->
         /\ condq' = [condq EXCEPT ![dir] = {}]
         /\ fsOwner' = c
         /\ pc' = [Woken(dir) EXCEPT ![c] = "lk_loop"]
         /\ loc' = [loc EXCEPT ![c] = [l EXCEPT !.inode = Head(kids), !.dir = Null,
                                                !.child = Head(kids)]]
         /\ StepInto(c, ino, dir, Head(kids))
         /\ UNCHANGED fault
    [] OTHER ->
         /\ ino' = [ino EXCEPT ![dir].busy = TRUE]
         /\ fsOwner' = NoThread
         /\ pc' = [pc EXCEPT ![c] = "lk_io"]
         /\ loc' = [loc EXCEPT ![c] = l]
         /\ UNCHANGED <<condq, held, fault>>

\* The loop of vfs_lookup_inode with s_fs_mutex held: an empty path is the
\* success exit (the current inode is returned, its reference kept);
\* else the next element (EINVAL if too long), ENOTDIR unless the current
\* inode is a directory, then vfs_lock_dir and vfs_lookup_child on it.
LookupLoop(c) ==
  LET l == loc[c]
      e == NextElement(l.rest)
  IN
  /\ Running /\ pc[c] = "lk_loop"
  /\ CASE Len(l.rest) = 0 ->
            /\ fault' = Kassert(ino[l.inode].refcount > 0, "vfs_lookup_inode")
            /\ fsOwner' = NoThread
            /\ loc' = [loc EXCEPT ![c].rc = 0]
            /\ pc' = [pc EXCEPT ![c] = l.ret]
            /\ UNCHANGED <<ino, held, condq>>
       [] e.rc # 0 -> LookupFail(c, ino, e.rc, pc) /\ UNCHANGED condq
       [] ino[l.inode].type # "VFS_DIR" -> LookupFail(c, ino, ENOTDIR, pc) /\ UNCHANGED condq
       [] OTHER -> LockDir(c, [l EXCEPT !.name = e.name, !.rest = e.rest, !.dir = l.inode])
  /\ UNCHANGED <<devlist, rootDir, nInst, mounts, rounds, devResult, drivers>>

\* A thread woken from inode_cond re-takes s_fs_mutex (cond_wait) and runs
\* vfs_lock_dir's loop test again.
LookupWoken(c) ==
  /\ Running /\ pc[c] = "lk_woken" /\ FsFree
  /\ LockDir(c, loc[c])
  /\ UNCHANGED <<devlist, rootDir, nInst, mounts, rounds, devResult, drivers>>

\* vfs_lookup_child with s_fs_mutex released: dir->ops->lookup, and on
\* success inode_list_append to the directory's child list.  The cfs
\* driver returns a new inode with its initial reference for a name the
\* directory holds and EEXIST otherwise; its mem_alloc waits while the
\* heap (InodeIds) is full.
LookupIo(c) ==
  LET l   == loc[c]
      dir == l.dir
      p   == Append(ino[dir].dpath, l.name)
  IN
  /\ Running /\ pc[c] = "lk_io"
  /\ IF p \in DOMAIN DiskTree
       THEN /\ FreeIds # {}
            /\ ino' = [ino EXCEPT ![NewId] = DriverInode(dir, DiskTree[p], l.name, p),
                                  ![dir].children = Append(@, NewId)]
            /\ loc' = [loc EXCEPT ![c].rc = 0, ![c].child = NewId]
       ELSE /\ loc' = [loc EXCEPT ![c].rc = EEXIST, ![c].child = Null]
            /\ UNCHANGED ino
  /\ pc' = [pc EXCEPT ![c] = "lk_relock"]
  /\ UNCHANGED <<fsOwner, devlist, rootDir, nInst, condq, held, mounts, rounds,
                 devResult, drivers, fault>>

\* The end of vfs_lookup_child and the rest of the loop body: re-take
\* s_fs_mutex, vfs_unlock_dir, then give up on an error or continue in the
\* child.
LookupRelock(c) ==
  LET l   == loc[c]
      dir == l.dir
      f   == UnlockDir(ino, dir)
  IN
  /\ Running /\ pc[c] = "lk_relock" /\ FsFree
  /\ condq' = [condq EXCEPT ![dir] = {}]
  /\ IF l.rc # 0
       THEN LookupFail(c, f, l.rc, Woken(dir))
       ELSE /\ fsOwner' = c
            /\ StepInto(c, f, dir, l.child)
            /\ pc' = [Woken(dir) EXCEPT ![c] = "lk_loop"]
            /\ loc' = [loc EXCEPT ![c].inode = l.child, ![c].dir = Null]
            /\ UNCHANGED fault
  /\ UNCHANGED <<devlist, rootDir, nInst, mounts, rounds, devResult, drivers>>

-----------------------------------------------------------------------------
(* vfs.c: mounting; pfat.c                                                 *)

\* vfs_register_fs_driver: push the driver on s_driver_list.  A driver is
\* a static struct that its init function (pfat_init) registers once;
\* registering it again would make the list a cycle.
RegisterFsDriver(c, d) ==
  /\ Running /\ pc[c] = "idle" /\ CallIs(c, "drvreg")
  /\ d \notin drivers
  /\ drivers' = drivers \cup {d}
  /\ rounds' = [rounds EXCEPT ![c] = @ + 1]
  /\ UNCHANGED <<pc, loc, fsOwner, devlist, rootDir, nInst, ino, condq, held, mounts,
                 devResult, fault>>

\* vfs_find_fs_driver: the driver whose get_name matches, under
\* s_driver_list_mutex; EINVAL when none does.
FindFsDriver(d) == d \in drivers

\* pfat_create_instance up to the superblock read: dev_find_blockdev(init)
\* fails with ENODEV (its done: label calls blockdev_close(0), a no-op);
\* otherwise pfat_read_super reads block 0 (PfatFaults).
PfatCreateInstance(n) == IF DevLookup(devlist, n) = Null THEN {"ENODEV"} ELSE {"pfat_read"}

\* The ways vfs_do_mount(d, ..., init = n, ...) can end, in the order its
\* gotos test them.  s_root_instance is never assigned, so the EEXIST test
\* for a second root never fires.  The cfs driver's create_instance and
\* get_root may fail with EIO (then close_instance, which succeeds).
DoMountOutcomes(d, n) ==
  IF ~FindFsDriver(d) THEN {"EINVAL"}
  ELSE IF d = "cfs" THEN {"ok", "create_fails", "get_root_fails"}
  ELSE PfatCreateInstance(n)

\* The rc vfs_do_mount returns for each ending.
DoMountRc(o) ==
  CASE o = "EINVAL" -> EINVAL
    [] o = "ENODEV" -> ENODEV
    [] o \in {"create_fails", "get_root_fails"} -> EIO
    [] OTHER -> 0

\* pfat_create_instance once a device is found.  With KASSERT,
\* blockdev_issue_sync's KASSERT(state == BLOCKDEV_REQ_FINISHED) fails.
\* Without it the read's rc and the superblock's magic are arbitrary
\* (blockdev.c returns req->rc after mem_free): an error or a bad magic
\* ends in blockdev_close(dev), which calls the ramdisk's missing close
\* operation (address 0); a good magic returns 0 without setting *p_super,
\* and pfat_check_super reads super->fat_num_entries through NULL.
PfatFaults ==
  IF Debug THEN {"blockdev_issue_sync"} ELSE {"blockdev_close", "pfat_check_super"}

\* vfs_mount_root: vfs_do_mount under s_fs_mutex, storing a new root
\* directory (with the driver's reference) in s_root_dir on success.
MountRoot(c, d, n) ==
  /\ Running /\ pc[c] = "idle" /\ CallIs(c, "mountroot") /\ FsFree
  /\ \E o \in DoMountOutcomes(d, n) :
       CASE o = "pfat_read" ->
              /\ \E f \in PfatFaults : fault' = {f}
              /\ UNCHANGED <<rootDir, nInst, ino>>
         [] o = "ok" ->
              /\ FreeIds # {}
              /\ ino' = [ino EXCEPT ![NewId] = DriverInode(Null, "VFS_DIR", RootName, <<>>)]
              /\ rootDir' = NewId
              /\ nInst' = nInst + 1
              /\ UNCHANGED fault
         [] OTHER -> UNCHANGED <<rootDir, nInst, ino, fault>>
  /\ rounds' = [rounds EXCEPT ![c] = @ + 1]
  /\ UNCHANGED <<pc, loc, fsOwner, devlist, condq, held, mounts, devResult, drivers>>

\* vfs_mount after vfs_lookup_inode, without s_fs_mutex: a failed lookup
\* ends the call; ENOTDIR unless the mountpoint is a directory, EEXIST if
\* something is mounted on it already.
MountCheck(c) ==
  LET l  == loc[c]
      mp == l.inode
  IN
  /\ Running /\ pc[c] = "mt_check"
  /\ CASE l.rc # 0 -> loc' = loc
       [] ino[mp].type # "VFS_DIR" -> loc' = [loc EXCEPT ![c].rc = ENOTDIR]
       [] ino[mp].mount # Null -> loc' = [loc EXCEPT ![c].rc = EEXIST]
       [] OTHER -> loc' = loc
  /\ pc' = [pc EXCEPT ![c] = IF loc'[c].rc = 0 /\ l.rc = 0 THEN "mt_lock" ELSE "mt_relmp"]
  /\ UNCHANGED <<fsOwner, devlist, rootDir, nInst, ino, condq, held, mounts, rounds,
                 devResult, drivers, fault>>

\* vfs_mount under s_fs_mutex: vfs_do_mount(fs_driver_name, 0, ...); on
\* success the mountpoint's mount is the new root, whose parent becomes the
\* mountpoint's parent, and the mount adds a reference to the mountpoint
\* and its ancestors.
MountLock(c) ==
  LET l  == loc[c]
      mp == l.inode
  IN
  /\ Running /\ pc[c] = "mt_lock" /\ FsFree
  /\ \E o \in DoMountOutcomes(l.drv, l.dev) :
       CASE o = "pfat_read" ->
              /\ \E f \in PfatFaults : fault' = {f}
              /\ UNCHANGED <<nInst, ino, mounts, loc, pc>>
         [] o = "ok" ->
              LET f == [ino EXCEPT ![NewId] = DriverInode(ino[mp].parent, "VFS_DIR",
                                                          RootName, <<>>),
                                   ![mp].mount = NewId]
              IN  /\ FreeIds # {}
                  /\ AdjustChecked(f, mp, 1, {})
                  /\ mounts' = mounts (+) Ref(mp)
                  /\ nInst' = nInst + 1
                  /\ loc' = [loc EXCEPT ![c].rc = 0]
                  /\ pc' = [pc EXCEPT ![c] = "mt_relmp"]
         [] OTHER ->
              /\ loc' = [loc EXCEPT ![c].rc = DoMountRc(o)]
              /\ pc' = [pc EXCEPT ![c] = "mt_relmp"]
              /\ UNCHANGED <<nInst, ino, mounts, fault>>
  /\ UNCHANGED <<fsOwner, devlist, rootDir, condq, held, rounds, devResult, drivers>>

-----------------------------------------------------------------------------
(* Callers                                                                 *)

\* A caller that opens a path: vfs_get_root_dir, vfs_lookup_inode from the
\* root, then vfs_release_ref of the inode found and of the root.
Open(c, p) ==
  /\ pc[c] = "idle" /\ CallIs(c, "open")
  /\ GetRootDir(c, "op_lk", [NoLoc EXCEPT !.path = p])

\* vfs_mount(path, fs_driver_name, init, opts): vfs_get_root_dir, then
\* vfs_lookup_inode of the mountpoint, MountCheck and MountLock, and at its
\* done: label vfs_release_ref of the mountpoint and of root_dir.
Mount(c, p, d, n) ==
  /\ pc[c] = "idle" /\ CallIs(c, "mount")
  /\ GetRootDir(c, "mt_lk", [NoLoc EXCEPT !.path = p, !.drv = d, !.dev = n])

\* The client has made every call of its script.
Idle(c) == pc[c] = "idle" /\ rounds[c] = Len(Script[c])

\* The system is halted, or every caller has made its calls.
Done ==
  /\ ~Running \/ \A c \in Clients : Idle(c)
  /\ UNCHANGED vars

Init ==
  /\ pc = [c \in Clients |-> "idle"]
  /\ loc = [c \in Clients |-> NoLoc]
  /\ fsOwner = NoThread
  /\ devlist = <<>>
  /\ rootDir = Null
  /\ nInst = 0
  /\ ino = [i \in InodeIds |-> NoInode]
  /\ condq = [i \in InodeIds |-> {}]
  /\ held = [c \in Clients |-> EmptyBag]
  /\ mounts = EmptyBag
  /\ rounds = [c \in Clients |-> 0]
  /\ devResult = [c \in Clients |-> Null]
  /\ drivers = {}
  /\ fault = {}

\* The steps of client c: a call from its script, or the next step of the
\* call it is in.
ClientNext(c) ==
  \/ \E n \in Names, o \in Objs : DevRegister(c, n, o)
  \/ \E n \in Names : DevFind(c, n)
  \/ \E d \in FsNames : RegisterFsDriver(c, d)
  \/ \E d \in FsNames, n \in Names : MountRoot(c, d, n)
  \/ \E p \in Paths : Open(c, p)
  \/ \E p \in Paths, d \in FsNames, n \in Names : Mount(c, p, d, n)
  \/ pc[c] = "op_lk" /\ LookupBegin(c, loc[c].root, loc[c].path, "op_rel1")
  \/ pc[c] = "op_rel1" /\ Release(c, loc[c].inode, "op_rel2")
  \/ pc[c] = "op_rel2" /\ Release(c, loc[c].root, "idle")
  \/ pc[c] = "mt_lk" /\ LookupBegin(c, loc[c].root, loc[c].path, "mt_check")
  \/ MountCheck(c)
  \/ MountLock(c)
  \/ pc[c] = "mt_relmp" /\ Release(c, loc[c].inode, "mt_relroot")
  \/ pc[c] = "mt_relroot" /\ Release(c, loc[c].root, "idle")
  \/ LookupLoop(c)
  \/ LookupWoken(c)
  \/ LookupIo(c)
  \/ LookupRelock(c)

Next ==
  \/ \E c \in Clients : ClientNext(c)
  \/ Done

\* Every ready thread is scheduled again (the round-robin run queue).  No
\* more is assumed: mutex_unlock wakes one waiter, which may lose the
\* mutex to another thread again, but every script is finite, so a waiter
\* finds s_fs_mutex free for good once the others are done.
Fairness == \A c \in Clients : WF_vars(ClientNext(c))

Spec == Init /\ [][Next]_vars /\ Fairness

-----------------------------------------------------------------------------
(* Properties                                                              *)

InodeRef == InodeIds \cup {Null}
Str == Seq(0..127)

\* The type of every variable; refcounts are never negative (the KASSERTs
\* of vfs_adjust_refcounts, checked here when KASSERT is compiled out).
TypeOK ==
  /\ pc \in [Clients -> {"idle", "op_lk", "op_rel1", "op_rel2", "mt_lk", "mt_check",
                         "mt_lock", "mt_relmp", "mt_relroot", "lk_loop", "lk_wait",
                         "lk_woken", "lk_io", "lk_relock", "gr_parked"}]
  /\ \A c \in Clients : loc[c].inode \in InodeRef /\ loc[c].root \in InodeRef
                        /\ loc[c].dir \in InodeRef /\ loc[c].child \in InodeRef
  /\ fsOwner \in Clients \cup {NoThread}
  /\ rootDir \in InodeRef
  /\ nInst \in Nat
  /\ \A i \in InodeIds : /\ ino[i].parent \in InodeRef /\ ino[i].mount \in InodeRef
                         /\ ino[i].refcount \in Nat /\ ino[i].busy \in BOOLEAN
                         /\ ino[i].type \in {"VFS_FILE", "VFS_DIR"}
  /\ condq \in [InodeIds -> SUBSET Clients]
  /\ \A c \in Clients : IsABag(held[c]) /\ BagToSet(held[c]) \subseteq InodeIds
  /\ IsABag(mounts) /\ BagToSet(mounts) \subseteq InodeIds
  /\ drivers \subseteq FsNames
  /\ fault \subseteq {"vfs_adjust_refcounts", "vfs_lookup_inode", "vfs_release_ref",
                      "mutex_lock_imp", "page_fault", "blockdev_issue_sync",
                      "blockdev_close", "pfat_check_super"}

\* The number of references in bag b through which inode i is counted:
\* those to i or to a descendant of i.
RefsThrough(b, i) ==
  MapThenSumSet(LAMBDA j : IF i \in Chain(ino, j) THEN CopiesIn(j, b) ELSE 0, BagToSet(b))

\* The refcounting rule stated at the top of vfs.c: an inode's refcount is
\* the number of references held to it or to any tree descendant, by the
\* lookups and callers in progress and by the filesystems mounted under
\* it, plus the initial reference of the driver that created it.  It
\* relates vfs_lookup_inode's adjustment of start_dir, its refcount++ of
\* each child, its adjustment on failure, vfs_release_ref and vfs_mount
\* across interleaved calls.
RefcountIsHolders ==
  \A i \in InodeIds : ino[i].alloc =>
    ino[i].refcount = (IF ino[i].dref THEN 1 ELSE 0)
                      + MapThenSumSet(LAMBDA c : RefsThrough(held[c], i), Clients)
                      + RefsThrough(mounts, i)

\* A lookup between vfs_lookup_child's unlock and re-lock of s_fs_mutex
\* is the only one in its directory: a directory is busy exactly while one
\* thread does the driver lookup in it (vfs_lock_dir's while loop).
LookupsIn(i) == Quantify(Clients, LAMBDA c : pc[c] \in {"lk_io", "lk_relock"} /\ loc[c].dir = i)

OneLookupPerDir ==
  \A i \in InodeIds : LookupsIn(i) <= 1 /\ ino[i].busy = (LookupsIn(i) = 1)

\* A thread waiting on a directory's inode_cond waits only while the
\* directory is busy: vfs_unlock_dir's cond_broadcast wakes every waiter.
NoLostWakeup ==
  \A c \in Clients : pc[c] = "lk_wait" => ino[loc[c].dir].busy

\* Every call a caller makes returns, unless the kernel has halted.
EveryCallReturns ==
  \A c \in Clients : pc[c] # "idle" ~> (pc[c] = "idle" \/ ~Running)

\* dev_register keeps the registry free of names that compare equal: no two
\* devices on s_devlist agree on their first DEV_NAME_MAXLEN characters,
\* after strncpy has cut the stored name, whatever calls interleave.
DevNamesUnique ==
  \A j, k \in 1..Len(devlist) :
    j < k => strncmp(devlist[j].name, devlist[k].name, DEV_NAME_MAXLEN) # 0

\* The C strings the current state compares: the sample names, the stored
\* device names, the inodes' names and the names being looked up.
NameSamples ==
  Names \cup {RootName} \cup {devlist[k].name : k \in 1..Len(devlist)}
        \cup {ino[i].name : i \in {j \in InodeIds : ino[j].alloc}}
        \cup {loc[c].name : c \in Clients}

Sign(x) == IF x < 0 THEN -1 ELSE IF x > 0 THEN 1 ELSE 0

\* Reference: lexicographic order of two strings cut at n characters.
LexCmp(a, b, n) ==
  LET x == SubSeq(a, 1, IF Len(a) < n THEN Len(a) ELSE n)
      y == SubSeq(b, 1, IF Len(b) < n THEN Len(b) ELSE n)
      d == {k \in 1..Len(x) : k <= Len(y) /\ x[k] # y[k]}
  IN  CASE x = y -> 0
        [] d # {} -> Sign(x[Min(d)] - y[Min(d)])
        [] IsPrefix(x, y) -> -1
        [] OTHER -> 1

\* string.c's strncmp, which the registry and vfs_lookup_child rely on,
\* orders the names the state compares as the lexicographic order of
\* their first n characters, for every n up to one past DEV_NAME_MAXLEN.
StrncmpAgrees ==
  \A a, b \in NameSamples \ {NullName}, n \in 0..(DEV_NAME_MAXLEN + 1) :
    Sign(strncmp(a, b, n)) = LexCmp(a, b, n)

\* Reference: the maximal runs of characters other than '/' in a path.
Components(p) ==
  LET starts == {k \in 1..Len(p) : p[k] # SLASH /\ (k = 1 \/ p[k - 1] = SLASH)}
      stop(k) == CHOOSE e \in k..Len(p) : /\ \A m \in k..e : p[m] # SLASH
                                          /\ e = Len(p) \/ p[e + 1] = SLASH
  IN  [j \in 1..Cardinality(starts) |->
         LET k == SetToSortSeq(starts, <)[j] IN SubSeq(p, k, stop(k))]

\* The paths the current state walks, and the sample paths.
PathSamples == Paths \cup {loc[c].path : c \in Clients} \cup {loc[c].rest : c \in Clients}

\* vfs_lookup_inode's loop of vfs_get_next_path_element visits exactly the
\* '/'-separated names of a relative path, in order, and fails with EINVAL
\* exactly when one of them is longer than VFS_NAMELEN_MAX.
PathElementsAgree ==
  \A p \in PathSamples : Len(p) = 0 \/ p[1] # SLASH =>
    LET comps == Components(p)
        fits  == \A k \in DOMAIN comps : Len(comps[k]) <= VFS_NAMELEN_MAX
    IN  IF fits THEN Walk(p) = [rc |-> 0, elems |-> comps] ELSE Walk(p).rc = EINVAL

====
