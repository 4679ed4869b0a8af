\* Every vm_lock_page call returns, for a page the cache can always find
\* (page 0, the value vm_pgcache_page_num keeps), with a pager that may fail.
CONSTANTS
  Clients = {c1, c2}
  Worker = worker
  Idle = idle
  NoThread = noThread
  Frames = {f1, f2}
  NoFrame = noFrame
  Pages = {0}
  PageinResults <- MCResultsMayFail
  MaxRounds = 2
  Debug = FALSE
SPECIFICATION FairSpec
PROPERTIES
  LockPageTerminates
