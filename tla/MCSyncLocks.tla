----------------------------- MODULE MCSyncLocks -----------------------------
(* Small instances of SyncLocks: a mutex at address 1, a read/write mutex at *)
(* address 2, an object confined to t1 at address 3.                       *)
EXTENDS SyncLocks

CONSTANTS t1, t2, t3

MCKind == [o \in Objects |-> CASE o = 1 -> "mutex" [] o = 2 -> "rw" [] o = 3 -> "single"]
MCHome == [o \in Objects |-> t1]
MCShort == [o \in Objects |-> 2]
MCEndless == [o \in Objects |-> -1]
=============================================================================
