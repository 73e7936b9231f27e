--------------------------- MODULE MCSyncIdempotency ---------------------------
(* Small instance of SyncIdempotency: two requests under one key, one of them *)
(* again under a key minted for it, and one whose key the migration finds    *)
(* taken by a legacy row.                                                    *)
EXTENDS SyncIdempotency

CONSTANTS k1, k2, k3, f1, f2, f3

Requests ==
  {[key |-> k1, print |-> f1, op |-> "insert", base |-> 0],
   [key |-> k1, print |-> f2, op |-> "update", base |-> 1],
   [key |-> k3, print |-> f2, op |-> "update", base |-> 1],
   [key |-> k2, print |-> f3, op |-> "delete", base |-> 1]}

Found == [k \in Key |-> IF k = k2 THEN [print |-> Null, committed |-> 1, present |-> TRUE]
                        ELSE NoEntry]
=============================================================================
