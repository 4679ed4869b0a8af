---------------------------- MODULE MCPageCache ----------------------------
(* Instantiates PageCache for TLC: the driver results are the errno values *)
(* of include/geekos/errno.h, which a .cfg cannot write.                   *)
EXTENDS PageCache

\* ramdisk_handle_request always succeeds on a page of the ramdisk
MCResultsOk == {0}
\* a pager whose reads may fail with EIO
MCResultsMayFail == {0, EIO}
\* a pager whose reads always fail
MCResultsFail == {EIO}
=============================================================================
