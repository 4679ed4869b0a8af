------------------------------- MODULE MCVfs --------------------------------
(* Vfs instantiated for TLC: C strings over the characters 'a' (97),       *)
(* 'b' (98), 'r' (114) and '/' (47), names of one character, paths of at  *)
(* most three.                                                             *)
EXTENDS Vfs, TLC

CONSTANTS c1, c2

\* "r0" is the only device name; DEV_NAME_MAXLEN is 2.
MCNames == {<<114, 48>>}

\* "a", "a/b", "b" and "ab" (an element longer than VFS_NAMELEN_MAX).
MCPaths == {<<97>>, <<97, 47, 98>>, <<98>>, <<97, 98>>}

\* A cfs volume: directory "a" holding file "b", and file "b" at the top.
MCDiskTree ==
  (<<<<97>>>> :> "VFS_DIR") @@ (<<<<97>>, <<98>>>> :> "VFS_FILE") @@ (<<<<98>>>> :> "VFS_FILE")

\* Each caller registers a device and a driver; one mounts the root and
\* opens two paths, the other mounts on a path, opens one and looks a device up.
MCScript ==
  (c1 :> <<"devreg", "drvreg", "mountroot", "open", "open">>) @@
  (c2 :> <<"devreg", "drvreg", "mount", "open", "devfind">>)

\* cfs names its root "r".
MCRootName == <<114>>
=============================================================================
