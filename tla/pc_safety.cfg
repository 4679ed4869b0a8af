\* Two clients, two frames, pages 0 and 1, a pager that may fail: the
\* frame pool runs dry and failed pageins evict frames.
CONSTANTS
  Clients = {c1, c2}
  Worker = worker
  Idle = idle
  NoThread = noThread
  Frames = {f1, f2}
  NoFrame = noFrame
  Pages = {0, 1}
  PageinResults <- MCResultsMayFail
  MaxRounds = 2
  Debug = FALSE
SPECIFICATION Spec
INVARIANTS
  TypeOK
  MutexExclusion
  FreeListExact
  RefcountAccounting
  PendingFrameOwned
  ListsLinked
