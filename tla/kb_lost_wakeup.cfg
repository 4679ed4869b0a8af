\* workqueue_schedule_work's thread_wakeup_one on the s_waitqueue shared
\* with wait_for_key can wake the key reader instead of the worker.
CONSTANTS
  Main = main
  Worker = worker
  Poster = poster
  Idle = idle
  QUEUE_SIZE = 4
  ScanCodes <- MCScanKeys
  MaxKeys = 1
  MaxItems = 2
SPECIFICATION FairSpec
PROPERTIES
  WorkItemRuns
