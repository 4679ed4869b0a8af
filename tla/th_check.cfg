\* The refcount protocol with a detached and two attached children, and
\* memory tight enough that creates, exits and joins wait for it: safety,
\* and that every create and join returns and every exited child is freed.
CONSTANTS
  Main = main
  Worker = worker
  Idle = idle
  d1 = d1
  a1 = a1
  a2 = a2
  Kids <- MCKids
  KidSeq <- MCKidSeq
  Mode <- MCMode
  ExitCode <- MCExitCode
  HEAP_FREE = 4
  FRAMES_FREE = 2
SPECIFICATION FairSpec
INVARIANTS
  TypeOK
  NoFault
  DestroyedOnce
  JoinReturnsExitcode
PROPERTIES
  MainCompletes
  ExitedEventuallyDestroyed
