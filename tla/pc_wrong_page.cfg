\* vm_lock_page(0) after vm_lock_page(1) hands back the frame paged in for page 1.
CONSTANTS
  Clients = {c1, c2}
  Worker = worker
  Idle = idle
  NoThread = noThread
  Frames = {f1, f2}
  NoFrame = noFrame
  Pages = {0, 1}
  PageinResults <- MCResultsOk
  MaxRounds = 2
  Debug = FALSE
SPECIFICATION Spec
INVARIANT
  LockedFrameHoldsPage
