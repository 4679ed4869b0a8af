\* A 2-slot ring (1 keycode) and 3 interrupts over every scan code class:
\* the ring fills and drops; every stored keycode still reaches
\* wait_for_key while two work items are posted on the shared s_waitqueue.
CONSTANTS
  Main = main
  Worker = worker
  Poster = poster
  Idle = idle
  QUEUE_SIZE = 2
  ScanCodes <- MCScanAll
  MaxKeys = 3
  MaxItems = 2
SPECIFICATION FairSpec
INVARIANTS
  TypeOK
  KeysInOrder
PROPERTIES
  KeyEventuallyRead
