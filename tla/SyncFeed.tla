------------------------------- MODULE SyncFeed -------------------------------
(***************************************************************************)
(* What the sync plane promises, without transactions, locks, pages or     *)
(* lost responses: changes are published in batches above a horizon that   *)
(* only grows, and a client that advances its cursor knows, at once and    *)
(* exactly, every row whose latest change is not above the cursor.  Of a   *)
(* row that changed above its cursor a client knows nothing for certain.   *)
(***************************************************************************)
EXTENDS Integers

CONSTANTS Row, Client, Unknown

VARIABLES
  horizon,    \* no change above it has been published
  latest,     \* the latest published change of each row
  cursor,     \* how far each client has caught up
  known       \* the change of each row a client is certain of, or Unknown

vars == <<horizon, latest, cursor, known>>

Known(n, ch) == IF ch.seq <= n THEN ch ELSE Unknown

Init ==
  /\ horizon = 0
  /\ latest = [r \in Row |-> [alive |-> FALSE, version |-> 0, seq |-> 0, created |-> 0]]
  /\ cursor = [c \in Client |-> 0]
  /\ known = [c \in Client |-> latest]

\* A batch of changes becomes visible, each with a sequence of its own above the
\* old horizon; sequences may stay unused.
Publish ==
  /\ horizon' > horizon
  /\ \A r \in Row : latest'[r] # latest[r] =>
       horizon < latest'[r].seq /\ latest'[r].seq <= horizon'
  /\ \A r, q \in Row : r # q /\ latest'[r] # latest[r] =>
       latest'[r].seq # latest'[q].seq
  /\ known' = [c \in Client |-> [r \in Row |->
       IF latest'[r] = latest[r] THEN known[c][r] ELSE Unknown]]
  /\ UNCHANGED cursor

\* A client catches up with everything not above its new cursor.
Advance(c) ==
  /\ cursor[c] < cursor'[c] /\ cursor'[c] <= horizon
  /\ cursor' = [cursor EXCEPT ![c] = cursor'[c]]
  /\ known' = [known EXCEPT ![c] = [r \in Row |-> Known(cursor'[c], latest[r])]]
  /\ UNCHANGED <<horizon, latest>>

Next == Publish \/ \E c \in Client : Advance(c)

Spec == Init /\ [][Next]_vars
=============================================================================
