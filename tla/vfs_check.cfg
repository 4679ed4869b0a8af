\* Two callers of the VFS and the device registry, each running a script of calls.
CONSTANTS
  c1 = c1
  c2 = c2
  Clients = {c1, c2}
  NoThread = noThread
  Null = null
  NullName = nullName
  InodeIds = {i1, i2, i3, i4, i5, i6, i7, i8, i9}
  Objs = {o1}
  Names <- MCNames
  Paths <- MCPaths
  FsNames = {"pfat", "cfs"}
  DiskTree <- MCDiskTree
  RootName <- MCRootName
  DEV_NAME_MAXLEN = 2
  VFS_NAMELEN_MAX = 1
  VFS_PATHLEN_MAX = 3
  Script <- MCScript
  Debug = FALSE
  RootDirUnlock = TRUE
SPECIFICATION Spec
INVARIANTS
  TypeOK
  RefcountIsHolders
  OneLookupPerDir
  NoLostWakeup
  DevNamesUnique
  StrncmpAgrees
  PathElementsAgree
