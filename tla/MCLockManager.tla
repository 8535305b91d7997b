---------------------------- MODULE MCLockManager ----------------------------
(***************************************************************************)
(* Transactions over two local keys with every combination of read and     *)
(* write entries.  The second comes from another replica and its entry for *)
(* k2 is mastered elsewhere, so the lock manager skips it (mode 2).        *)
(***************************************************************************)
EXTENDS LockManager

CONSTANTS k1, k2, r1, r2

MCKey == {k1, k2}
MCReplica == {r1, r2}
MCOrigin == [t \in Txn |-> IF t = 2 THEN r2 ELSE r1]
MCMaster == [t \in Txn |-> [k \in MCKey |-> IF k = k2 THEN r1 ELSE MCOrigin[t]]]
=============================================================================
