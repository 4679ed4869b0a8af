----------------------------- MODULE MCThreads -----------------------------
(* Instantiates Threads for TLC: the order, modes and exit codes of the    *)
(* children main creates, which a .cfg cannot write as sequences or        *)
(* functions.                                                              *)
EXTENDS Threads

CONSTANTS d1, a1, a2

\* geekos_main's test_thread (ATTACHED, exits 42) preceded by a DETACHED
\* child that returns from its start function, and a second ATTACHED child
MCKids == {d1, a1, a2}
MCKidSeq == <<d1, a1, a2>>
MCMode == [k \in MCKids |-> IF k = d1 THEN "DETACHED" ELSE "ATTACHED"]
MCExitCode == [k \in MCKids |-> IF k = a1 THEN 42 ELSE 0]

\* an ATTACHED child created first: its frame is only freed after the join
MCKidSeqAttachedFirst == <<a1, d1, a2>>
=============================================================================
