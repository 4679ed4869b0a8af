\* blockdev_issue_sync reads req->rc after mem_free(req), while another thread's mem_alloc may reuse it.
CONSTANTS
  Clients = {c1, c2}
  Worker = worker
  Idle = idle
  NoThread = noThread
  Frames = {f1, f2}
  NoFrame = noFrame
  Pages = {1}
  PageinResults <- MCResultsOk
  MaxRounds = 2
  Debug = FALSE
SPECIFICATION Spec
INVARIANT
  IssueSyncReturnsDriverRc
