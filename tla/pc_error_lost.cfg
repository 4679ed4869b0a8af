\* A thread that waited on a pagein that failed returns frame->errc, which is never set.
CONSTANTS
  Clients = {c1, c2}
  Worker = worker
  Idle = idle
  NoThread = noThread
  Frames = {f1, f2}
  NoFrame = noFrame
  Pages = {0}
  PageinResults <- MCResultsFail
  MaxRounds = 2
  Debug = FALSE
SPECIFICATION Spec
INVARIANT
  LockPageResult
