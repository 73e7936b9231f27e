---------------------------- MODULE SyncPlaneFeed ----------------------------
(***************************************************************************)
(* SyncPlane implements SyncFeed: its horizon is the committed clock, the  *)
(* latest change of a row is its live row or else its tombstone, and what  *)
(* a client is certain of is its replica of the rows at or below its       *)
(* cursor.                                                                 *)
(***************************************************************************)
EXTENDS SyncPlane

CONSTANT Unknown   \* not a change

Certain(c, r) == IF Latest(r).seq <= cursor[c] THEN replica[c][r] ELSE Unknown

Feed == INSTANCE SyncFeed WITH
  horizon <- clock,
  latest  <- [r \in Row |-> Latest(r)],
  known   <- [c \in Client |-> [r \in Row |-> Certain(c, r)]]

\* Transactions, the clock lock, pages and lost responses together look to a
\* client like SyncFeed: batches published in order, and catch-up that skips
\* nothing.
ImplementsFeed == Feed!Spec
=============================================================================
