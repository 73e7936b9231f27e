------------------------------ MODULE GuardProofs ------------------------------
(***************************************************************************)
(* The Shared Auth guard: the invariants and action properties of its key  *)
(* cache, JwksCache, for any number of callers and keys and any ttl and    *)
(* timeout; and that every decision of its race, GuardRace, is justified   *)
(* by what the authorities held during the call, for any roles and any     *)
(* required roles.                                                         *)
(***************************************************************************)
EXTENDS JwksCache, GuardRace, TLAPS

\* The constants: nobody and no key are not elements, times are natural numbers.
LEMMA Constants ==
  /\ NoReq \notin Req /\ NoKid \notin Kid /\ Genuine \subseteq BOOLEAN
  /\ Ttl \in Nat \ {0} /\ ArmTimeout \in Nat \ {0} /\ MaxTime \in Nat
  BY ReqAssumption, TimeAssumption

\* Verdict gives a decision, or sends an unforced request to the mutex.
LEMMA VerdictType ==
  ASSUME NEW r \in Req, NEW keys
  PROVE  /\ Verdict(r, keys) \in {"accepted", "rejected", "lock"}
         /\ Verdict(r, keys) = "lock" => ~forced[r]
         /\ Verdict(r, keys) = "accepted" => kid[r] \in keys /\ good[r]
         /\ Verdict(r, keys) = "rejected" /\ good[r] => kid[r] \notin keys /\ forced[r]
  BY Z3 DEF Verdict

\* Verify moves one request.
LEMMA VerifyFrame ==
  ASSUME TypeOK, NEW r \in Req, NEW keys, Verify(r, keys)
  PROVE  /\ pc' \in [Req -> Pc] /\ forced' \in [Req -> BOOLEAN]
         /\ pc'[r] = Verdict(r, keys) /\ (forced'[r] <=> pc'[r] = "lock")
         /\ \A q \in Req \ {r} : pc'[q] = pc[q] /\ forced'[q] = forced[q]
<1>1. pc \in [Req -> Pc] /\ forced \in [Req -> BOOLEAN]
  BY DEF TypeOK
<1>2. Verdict(r, keys) \in Pc
  BY VerdictType DEF Pc, Pending, Decided
<1>3. pc' = [pc EXCEPT ![r] = Verdict(r, keys)]
  BY DEF Verify
<1>4. forced' = [forced EXCEPT ![r] = Verdict(r, keys) = "lock"]
  BY DEF Verify
<1> QED BY <1>1, <1>2, <1>3, <1>4

\* Goto moves one request.
LEMMA GotoFrame ==
  ASSUME TypeOK, NEW r \in Req, NEW p \in Pc, Goto(r, p)
  PROVE  /\ pc' \in [Req -> Pc] /\ forced' \in [Req -> BOOLEAN]
         /\ pc'[r] = p /\ (forced'[r] <=> forced[r] /\ p \notin Decided \cup {"idle"})
         /\ \A q \in Req \ {r} : pc'[q] = pc[q] /\ forced'[q] = forced[q]
  BY DEF TypeOK, Goto

\* Unlock frees the mutex if the request holds it.
LEMMA UnlockFrame ==
  ASSUME TypeOK, NEW r \in Req, Unlock(r)
  PROVE  /\ mutex' = (IF mutex = r THEN NoReq ELSE mutex)
         /\ mutex' \in Req \cup {NoReq}
         /\ sentAt' \in [Req -> Nat] /\ answer' \in [Req -> Answer]
         /\ \A q \in Req \ {r} : sentAt'[q] = sentAt[q] /\ answer'[q] = answer[q]
  BY DEF TypeOK, Unlock, NoAnswer, Answer

\* A request that leaves the mutex leaves it to nobody.
LEMMA UnlockMutex ==
  ASSUME IInv, NEW r \in Req, Unlock(r), pc'[r] \notin Locked,
         \A q \in Req \ {r} : pc'[q] = pc[q]
  PROVE  MutexHeld'
<1>1. mutex' = IF mutex = r THEN NoReq ELSE mutex
  BY DEF Unlock
<1>2. \A q \in Req : pc[q] \in Locked <=> mutex = q
  BY DEF IInv, MutexHeld
<1>3. ASSUME NEW q \in Req PROVE pc'[q] \in Locked <=> mutex' = q
  <2>1. CASE q = r
    BY <1>1, <2>1, Constants
  <2>2. CASE q # r
    BY <1>1, <1>2, <2>2, Constants
  <2> QED BY <2>1, <2>2
<1> QED BY <1>3 DEF MutexHeld, Locked

\* Forget ends one request.
LEMMA ForgetFrame ==
  ASSUME TypeOK, NEW r \in Req, Forget(r)
  PROVE  /\ pc' \in [Req -> Pc] /\ forced' \in [Req -> BOOLEAN]
         /\ kid' \in [Req -> Kid \cup {NoKid}]
         /\ good' \in [Req -> BOOLEAN] /\ absent' \in [Req -> BOOLEAN]
         /\ pc'[r] = "idle" /\ ~forced'[r]
         /\ \A q \in Req \ {r} :
              /\ pc'[q] = pc[q] /\ forced'[q] = forced[q] /\ kid'[q] = kid[q]
              /\ good'[q] = good[q] /\ absent'[q] = absent[q]
<1>1. "idle" \in Pc
  BY DEF Pc
<1>2. Goto(r, "idle")
  BY DEF Forget
<1> QED BY <1>1, <1>2, GotoFrame DEF Forget, TypeOK

-----------------------------------------------------------------------------

\* Every step keeps the types.
LEMMA TypeStep == TypeOK /\ [Next]_vars => TypeOK'
<1> SUFFICES ASSUME TypeOK, [Next]_vars PROVE TypeOK'
  OBVIOUS
<1> USE Constants DEF TypeOK, Pc, Pending, Locked, Fetching, Decided, Answer, NoAnswer
<1>1. ASSUME NEW r \in Req, Request(r) PROVE TypeOK'
  <2>1. CASE \E k \in Kid, g \in Genuine : Begin(r, k, g)
    BY <2>1 DEF Begin
  <2>2. CASE ReadCache(r)
    <3>1. CASE Fresh
      BY <2>2, <3>1, VerifyFrame DEF ReadCache
    <3>2. CASE ~Fresh
      BY <2>2, <3>2 DEF ReadCache, Goto
    <3> QED BY <3>1, <3>2
  <2>3. CASE Lock(r)
    BY <2>3 DEF Lock, Goto
  <2>4. CASE UseRefreshed(r)
    BY <2>4, VerifyFrame, UnlockFrame DEF UseRefreshed
  <2>5. CASE SendFetch(r)
    BY <2>5 DEF SendFetch, Goto
  <2>6. CASE Serve(r)
    BY <2>6 DEF Serve, Goto
  <2>7. CASE Receive(r)
    <3>1. CASE answer[r].keys = {}
      BY <2>7, <3>1 DEF Receive, Goto, Unlock
    <3>2. CASE answer[r].keys # {}
      BY <2>7, <3>2, VerifyFrame, UnlockFrame DEF Receive
    <3> QED BY <3>1, <3>2
  <2>8. CASE FetchFails(r)
    BY <2>8 DEF FetchFails, Goto, Unlock
  <2>9. CASE Drop(r)
    BY <2>9 DEF Drop, Forget, Goto, Unlock
  <2>10. CASE Finish(r)
    BY <2>10 DEF Finish, Forget, Goto
  <2> QED BY <1>1, <2>1, <2>2, <2>3, <2>4, <2>5, <2>6, <2>7, <2>8, <2>9, <2>10 DEF Request
<1>2. ASSUME NEW keys \in SUBSET Kid, Publish(keys) PROVE TypeOK'
  BY <1>2 DEF Publish
<1>3. CASE Tick
  BY <1>3 DEF Tick
<1>4. CASE UNCHANGED vars
  BY <1>4 DEF vars
<1> QED BY <1>1, <1>2, <1>3, <1>4 DEF Next
-----------------------------------------------------------------------------

\* Every step keeps the inductive invariant.
LEMMA InvStep == IInv /\ [Next]_vars => IInv'
<1> SUFFICES ASSUME IInv, [Next]_vars PROVE IInv'
  OBVIOUS
<1>t. TypeOK /\ TypeOK'
  BY TypeStep DEF IInv
<1> USE DEF Pc, Pending, Locked, Fetching, Decided
<1>1. ASSUME NEW r \in Req, NEW k \in Kid, NEW g \in Genuine, Begin(r, k, g) PROVE IInv'
  <2>1. MutexHeld'
    BY <1>1, <1>t DEF IInv, MutexHeld, Begin, TypeOK
  <2>2. CacheAge'
    BY <1>1, <1>t DEF IInv, CacheAge, FetchAge, Histories, ServedAt, Begin, TypeOK
  <2>3. FetchAge'
    BY <1>1, <1>t DEF IInv, FetchAge, CacheAge, MutexHeld, Histories, ServedAt, Begin, TypeOK
  <2>4. Histories'
    BY <1>1, <1>t DEF IInv, Histories, Begin, TypeOK
  <2>5. SingleFlight'
    BY <1>1, <1>t DEF IInv, SingleFlight, CacheAge, FetchAge, MutexHeld, Begin, TypeOK
  <2>6. PublishedKeyAccepted'
    BY <1>1, <1>t DEF IInv, PublishedKeyAccepted, Histories, ForcedFetches, Begin, TypeOK
  <2>7. ForcedFetches'
    BY <1>1, <1>t DEF IInv, ForcedFetches, Begin, TypeOK
  <2> QED BY <1>t, <2>1, <2>2, <2>3, <2>4, <2>5, <2>6, <2>7 DEF IInv
<1>2. ASSUME NEW r \in Req, ReadCache(r) PROVE IInv'
  <2>1. MutexHeld'
    BY <1>2, <1>t, VerifyFrame, GotoFrame, VerdictType DEF IInv, MutexHeld, ReadCache, TypeOK
  <2>2. CacheAge'
    BY <1>2, <1>t, VerifyFrame, GotoFrame, VerdictType DEF IInv, CacheAge, FetchAge, Histories, ServedAt, ReadCache, TypeOK
  <2>3. FetchAge'
    BY <1>2, <1>t, VerifyFrame, GotoFrame, VerdictType DEF IInv, FetchAge, CacheAge, MutexHeld, Histories, ServedAt, ReadCache, TypeOK
  <2>4. Histories'
    BY <1>2, <1>t, VerifyFrame, GotoFrame, VerdictType DEF IInv, Histories, ReadCache, TypeOK
  <2>5. SingleFlight'
    BY <1>2, <1>t, VerifyFrame, GotoFrame, VerdictType DEF IInv, SingleFlight, CacheAge, FetchAge, MutexHeld, ReadCache, TypeOK
  <2>6. PublishedKeyAccepted'
    BY <1>2, <1>t, VerifyFrame, GotoFrame, VerdictType DEF IInv, PublishedKeyAccepted, Histories, ForcedFetches, ReadCache, TypeOK
  <2>7. ForcedFetches'
    BY <1>2, <1>t, VerifyFrame, GotoFrame, VerdictType DEF IInv, ForcedFetches, ReadCache, TypeOK
  <2> QED BY <1>t, <2>1, <2>2, <2>3, <2>4, <2>5, <2>6, <2>7 DEF IInv
<1>3. ASSUME NEW r \in Req, Lock(r) PROVE IInv'
  <2>1. MutexHeld'
    BY <1>3, <1>t, GotoFrame, Constants DEF IInv, MutexHeld, Lock
  <2>2. CacheAge'
    BY <1>3, <1>t, GotoFrame DEF IInv, CacheAge, FetchAge, Histories, ServedAt, Lock, TypeOK
  <2>3. FetchAge'
    BY <1>3, <1>t, GotoFrame DEF IInv, FetchAge, CacheAge, MutexHeld, Histories, ServedAt, Lock, TypeOK
  <2>4. Histories'
    BY <1>3, <1>t, GotoFrame DEF IInv, Histories, Lock, TypeOK
  <2>5. SingleFlight'
    BY <1>3, <1>t, GotoFrame DEF IInv, SingleFlight, CacheAge, FetchAge, MutexHeld, Lock, TypeOK
  <2>6. PublishedKeyAccepted'
    BY <1>3, <1>t, GotoFrame DEF IInv, PublishedKeyAccepted, Histories, ForcedFetches, Lock, TypeOK
  <2>7. ForcedFetches'
    BY <1>3, <1>t, GotoFrame DEF IInv, ForcedFetches, Lock, TypeOK
  <2> QED BY <1>t, <2>1, <2>2, <2>3, <2>4, <2>5, <2>6, <2>7 DEF IInv
<1>4. ASSUME NEW r \in Req, UseRefreshed(r) PROVE IInv'
  <2>1. MutexHeld'
    <3>1. pc'[r] \notin Locked /\ Unlock(r) /\ \A q \in Req \ {r} : pc'[q] = pc[q]
      BY <1>4, <1>t, VerifyFrame, UnlockFrame, VerdictType DEF UseRefreshed
    <3> QED BY <3>1, UnlockMutex
  <2>2. CacheAge'
    BY <1>4, <1>t, VerifyFrame, UnlockFrame, VerdictType DEF IInv, CacheAge, FetchAge, Histories, ServedAt, UseRefreshed, TypeOK
  <2>3. FetchAge'
    BY <1>4, <1>t, VerifyFrame, UnlockFrame, VerdictType DEF IInv, FetchAge, CacheAge, MutexHeld, Histories, ServedAt, UseRefreshed, TypeOK
  <2>4. Histories'
    BY <1>4, <1>t, VerifyFrame, UnlockFrame, VerdictType DEF IInv, Histories, UseRefreshed, TypeOK
  <2>5. SingleFlight'
    BY <1>4, <1>t, VerifyFrame, UnlockFrame, VerdictType DEF IInv, SingleFlight, CacheAge, FetchAge, MutexHeld, UseRefreshed, TypeOK
  <2>6. PublishedKeyAccepted'
    BY <1>4, <1>t, VerifyFrame, UnlockFrame, VerdictType DEF IInv, PublishedKeyAccepted, Histories, ForcedFetches, UseRefreshed, TypeOK
  <2>7. ForcedFetches'
    BY <1>4, <1>t, VerifyFrame, UnlockFrame, VerdictType DEF IInv, ForcedFetches, UseRefreshed, TypeOK
  <2> QED BY <1>t, <2>1, <2>2, <2>3, <2>4, <2>5, <2>6, <2>7 DEF IInv
<1>5. ASSUME NEW r \in Req, SendFetch(r) PROVE IInv'
  <2>1. MutexHeld'
    BY <1>5, <1>t, GotoFrame DEF IInv, MutexHeld, SendFetch, NeedsFetch, Fresh, TypeOK
  <2>2. CacheAge'
    BY <1>5, <1>t, GotoFrame DEF IInv, CacheAge, FetchAge, Histories, ServedAt, SendFetch, NeedsFetch, Fresh, TypeOK
  <2>3. FetchAge'
    BY <1>5, <1>t, GotoFrame, Constants DEF IInv, FetchAge, CacheAge, MutexHeld, Histories, ServedAt, SendFetch, NeedsFetch, Fresh, TypeOK
  <2>4. Histories'
    BY <1>5, <1>t, GotoFrame DEF IInv, Histories, SendFetch, NeedsFetch, Fresh, TypeOK
  <2>5. SingleFlight'
    BY <1>5, <1>t, GotoFrame, Constants DEF IInv, SingleFlight, CacheAge, FetchAge, MutexHeld, SendFetch, NeedsFetch, Fresh, TypeOK
  <2>6. PublishedKeyAccepted'
    BY <1>5, <1>t, GotoFrame DEF IInv, PublishedKeyAccepted, Histories, ForcedFetches, SendFetch, NeedsFetch, Fresh, TypeOK
  <2>7. ForcedFetches'
    BY <1>5, <1>t, GotoFrame DEF IInv, ForcedFetches, SendFetch, NeedsFetch, Fresh, TypeOK
  <2> QED BY <1>t, <2>1, <2>2, <2>3, <2>4, <2>5, <2>6, <2>7 DEF IInv
<1>6. ASSUME NEW r \in Req, Serve(r) PROVE IInv'
  <2>1. MutexHeld'
    BY <1>6, <1>t, GotoFrame DEF IInv, MutexHeld, Serve, TypeOK
  <2>2. CacheAge'
    BY <1>6, <1>t, GotoFrame DEF IInv, CacheAge, FetchAge, Histories, ServedAt, Serve, TypeOK
  <2>3. FetchAge'
    BY <1>6, <1>t, GotoFrame DEF IInv, FetchAge, CacheAge, MutexHeld, Histories, ServedAt, Serve, TypeOK
  <2>4. Histories'
    BY <1>6, <1>t, GotoFrame DEF IInv, Histories, Serve, TypeOK
  <2>5. SingleFlight'
    BY <1>6, <1>t, GotoFrame DEF IInv, SingleFlight, CacheAge, FetchAge, MutexHeld, Serve, TypeOK
  <2>6. PublishedKeyAccepted'
    BY <1>6, <1>t, GotoFrame DEF IInv, PublishedKeyAccepted, Histories, ForcedFetches, Serve, TypeOK
  <2>7. ForcedFetches'
    BY <1>6, <1>t, GotoFrame DEF IInv, ForcedFetches, Serve, TypeOK
  <2> QED BY <1>t, <2>1, <2>2, <2>3, <2>4, <2>5, <2>6, <2>7 DEF IInv
<1>7. ASSUME NEW r \in Req, Receive(r) PROVE IInv'
  <2>1. MutexHeld'
    <3>1. pc'[r] \notin Locked /\ Unlock(r) /\ \A q \in Req \ {r} : pc'[q] = pc[q]
      BY <1>7, <1>t, VerifyFrame, GotoFrame, UnlockFrame, VerdictType DEF Receive
    <3> QED BY <3>1, UnlockMutex
  <2>2. CacheAge'
    <3>1. CASE answer[r].keys = {}
      BY <1>7, <3>1 DEF IInv, CacheAge, ServedAt, Receive
    <3>2. CASE answer[r].keys # {}
      <4>1. cache' = [keys |-> answer[r].keys, at |-> now, asOf |-> answer[r].asOf]
        BY <1>7, <3>2 DEF Receive
      <4>2. /\ sentAt[r] <= answer[r].asOf /\ answer[r].asOf <= now
            /\ now <= sentAt[r] + ArmTimeout /\ ServedAt(answer[r].keys, answer[r].asOf)
        BY <1>7 DEF IInv, FetchAge, Receive
      <4>3. sentAt[r] \in Nat /\ answer[r].asOf \in Nat /\ now \in Nat
        BY <1>t DEF TypeOK, Answer
      <4>4. now' = now /\ lastPub' = lastPub
        BY <1>7 DEF Receive
      <4> QED BY <4>1, <4>2, <4>3, <4>4, Constants DEF CacheAge, ServedAt
    <3> QED BY <3>1, <3>2
  <2>3. FetchAge'
    BY <1>7, <1>t, VerifyFrame, GotoFrame, UnlockFrame, VerdictType DEF IInv, FetchAge, CacheAge, MutexHeld, Histories, ServedAt, Receive, TypeOK
  <2>4. Histories'
    BY <1>7, <1>t, VerifyFrame, GotoFrame, UnlockFrame, VerdictType DEF IInv, Histories, Receive, TypeOK
  <2>5. SingleFlight'
    BY <1>7, <1>t, VerifyFrame, GotoFrame, UnlockFrame, VerdictType DEF IInv, SingleFlight, CacheAge, FetchAge, MutexHeld, Receive, TypeOK
  <2>6. PublishedKeyAccepted'
    BY <1>7, <1>t, VerifyFrame, GotoFrame, UnlockFrame, VerdictType DEF IInv, PublishedKeyAccepted, Histories, ForcedFetches, Receive, TypeOK
  <2>7. ForcedFetches'
    BY <1>7, <1>t, VerifyFrame, GotoFrame, UnlockFrame, VerdictType DEF IInv, ForcedFetches, Receive, TypeOK
  <2> QED BY <1>t, <2>1, <2>2, <2>3, <2>4, <2>5, <2>6, <2>7 DEF IInv
<1>8. ASSUME NEW r \in Req, FetchFails(r) PROVE IInv'
  <2>1. MutexHeld'
    <3>1. pc'[r] \notin Locked /\ Unlock(r) /\ \A q \in Req \ {r} : pc'[q] = pc[q]
      BY <1>8, <1>t, GotoFrame, UnlockFrame DEF FetchFails
    <3> QED BY <3>1, UnlockMutex
  <2>2. CacheAge'
    BY <1>8, <1>t, GotoFrame, UnlockFrame DEF IInv, CacheAge, FetchAge, Histories, ServedAt, FetchFails, TypeOK
  <2>3. FetchAge'
    BY <1>8, <1>t, GotoFrame, UnlockFrame DEF IInv, FetchAge, CacheAge, MutexHeld, Histories, ServedAt, FetchFails, TypeOK
  <2>4. Histories'
    BY <1>8, <1>t, GotoFrame, UnlockFrame DEF IInv, Histories, FetchFails, TypeOK
  <2>5. SingleFlight'
    BY <1>8, <1>t, GotoFrame, UnlockFrame DEF IInv, SingleFlight, CacheAge, FetchAge, MutexHeld, FetchFails, TypeOK
  <2>6. PublishedKeyAccepted'
    BY <1>8, <1>t, GotoFrame, UnlockFrame DEF IInv, PublishedKeyAccepted, Histories, ForcedFetches, FetchFails, TypeOK
  <2>7. ForcedFetches'
    BY <1>8, <1>t, GotoFrame, UnlockFrame DEF IInv, ForcedFetches, FetchFails, TypeOK
  <2> QED BY <1>t, <2>1, <2>2, <2>3, <2>4, <2>5, <2>6, <2>7 DEF IInv
<1>9. ASSUME NEW r \in Req, Drop(r) PROVE IInv'
  <2>1. MutexHeld'
    <3>1. pc'[r] \notin Locked /\ Unlock(r) /\ \A q \in Req \ {r} : pc'[q] = pc[q]
      BY <1>9, <1>t, ForgetFrame, UnlockFrame DEF Drop
    <3> QED BY <3>1, UnlockMutex
  <2>2. CacheAge'
    BY <1>9, <1>t, ForgetFrame, UnlockFrame DEF IInv, CacheAge, FetchAge, Histories, ServedAt, Drop, TypeOK
  <2>3. FetchAge'
    BY <1>9, <1>t, ForgetFrame, UnlockFrame DEF IInv, FetchAge, CacheAge, MutexHeld, Histories, ServedAt, Drop, TypeOK
  <2>4. Histories'
    BY <1>9, <1>t, ForgetFrame, UnlockFrame DEF IInv, Histories, Drop, TypeOK
  <2>5. SingleFlight'
    BY <1>9, <1>t, ForgetFrame, UnlockFrame DEF IInv, SingleFlight, CacheAge, FetchAge, MutexHeld, Drop, TypeOK
  <2>6. PublishedKeyAccepted'
    BY <1>9, <1>t, ForgetFrame, UnlockFrame DEF IInv, PublishedKeyAccepted, Histories, ForcedFetches, Drop, TypeOK
  <2>7. ForcedFetches'
    BY <1>9, <1>t, ForgetFrame, UnlockFrame DEF IInv, ForcedFetches, Drop, TypeOK
  <2> QED BY <1>t, <2>1, <2>2, <2>3, <2>4, <2>5, <2>6, <2>7 DEF IInv
<1>10. ASSUME NEW r \in Req, Finish(r) PROVE IInv'
  <2>1. MutexHeld'
    BY <1>10, <1>t, ForgetFrame DEF IInv, MutexHeld, Finish, TypeOK
  <2>2. CacheAge'
    BY <1>10, <1>t, ForgetFrame DEF IInv, CacheAge, FetchAge, Histories, ServedAt, Finish, TypeOK
  <2>3. FetchAge'
    BY <1>10, <1>t, ForgetFrame DEF IInv, FetchAge, CacheAge, MutexHeld, Histories, ServedAt, Finish, TypeOK
  <2>4. Histories'
    BY <1>10, <1>t, ForgetFrame DEF IInv, Histories, Finish, TypeOK
  <2>5. SingleFlight'
    BY <1>10, <1>t, ForgetFrame DEF IInv, SingleFlight, CacheAge, FetchAge, MutexHeld, Finish, TypeOK
  <2>6. PublishedKeyAccepted'
    BY <1>10, <1>t, ForgetFrame DEF IInv, PublishedKeyAccepted, Histories, ForcedFetches, Finish, TypeOK
  <2>7. ForcedFetches'
    BY <1>10, <1>t, ForgetFrame DEF IInv, ForcedFetches, Finish, TypeOK
  <2> QED BY <1>t, <2>1, <2>2, <2>3, <2>4, <2>5, <2>6, <2>7 DEF IInv
<1>11. ASSUME NEW keys \in SUBSET Kid, Publish(keys) PROVE IInv'
  <2>1. MutexHeld'
    BY <1>11, <1>t DEF IInv, MutexHeld, Publish, TypeOK
  <2>2. CacheAge'
    BY <1>11, <1>t DEF IInv, CacheAge, FetchAge, Histories, ServedAt, Publish, TypeOK
  <2>3. FetchAge'
    <3>1. \A t \in Nat, K \in SUBSET Kid : ServedAt(K, t) => ServedAt(K, t)'
      BY <1>11, <1>t DEF ServedAt, Histories, IInv, Publish, TypeOK
    <3>2. \A q \in Req : answer[q].keys \in SUBSET Kid /\ answer[q].asOf \in Nat
      BY <1>t DEF TypeOK, Answer
    <3> QED BY <1>11, <3>1, <3>2 DEF IInv, FetchAge, Publish
  <2>4. Histories'
    <3>1. \A k \in Kid : lastPub'[k] <= now' /\ (k \in published' => lastPub'[k] = now')
      BY <1>11, <1>t DEF IInv, Histories, Publish, TypeOK
    <3>2. \A q \in Req : absent'[q] = (absent[q] \/ (kid[q] # NoKid /\ kid[q] \notin keys))
      BY <1>11 DEF Publish
    <3>3. UNCHANGED <<pc, kid, answer>> /\ published' = keys
      BY <1>11 DEF Publish
    <3>4. \A q \in Req : pc'[q] \in Pending /\ kid'[q] \notin published' => absent'[q]
      BY <1>t, <3>2, <3>3, Constants DEF IInv, Histories, TypeOK
    <3>5. \A q \in Req : pc'[q] = "reply" /\ kid'[q] \notin answer'[q].keys => absent'[q]
      BY <3>2, <3>3 DEF IInv, Histories
    <3> QED BY <3>1, <3>4, <3>5 DEF Histories
  <2>5. SingleFlight'
    BY <1>11, <1>t DEF IInv, SingleFlight, CacheAge, FetchAge, MutexHeld, Publish, TypeOK
  <2>6. PublishedKeyAccepted'
    BY <1>11, <1>t DEF IInv, PublishedKeyAccepted, Histories, ForcedFetches, Publish, TypeOK
  <2>7. ForcedFetches'
    BY <1>11, <1>t DEF IInv, ForcedFetches, Publish, TypeOK
  <2> QED BY <1>t, <2>1, <2>2, <2>3, <2>4, <2>5, <2>6, <2>7 DEF IInv
<1>12. CASE Tick
  <2>1. MutexHeld'
    BY <1>12, <1>t, Constants DEF IInv, MutexHeld, Tick, TypeOK
  <2>2. CacheAge'
    BY <1>12, <1>t, Constants DEF IInv, CacheAge, FetchAge, Histories, ServedAt, Tick, TypeOK
  <2>3. FetchAge'
    <3>1. \A t \in Nat, K \in SUBSET Kid : ServedAt(K, t) => ServedAt(K, t)'
      BY <1>12, <1>t DEF ServedAt, Histories, IInv, Tick, TypeOK
    <3>2. \A q \in Req : answer[q].keys \in SUBSET Kid /\ answer[q].asOf \in Nat
                          /\ sentAt[q] \in Nat
      BY <1>t DEF TypeOK, Answer
    <3>3. now' = now + 1 /\ now \in Nat /\ UNCHANGED <<pc, sentAt, answer, cache>>
          /\ \A q \in Req : pc[q] \in Fetching => now < sentAt[q] + ArmTimeout
      BY <1>12, <1>t DEF Tick, TypeOK
    <3>4. \A q \in Req : pc'[q] \in Fetching =>
            sentAt'[q] <= now' /\ now' <= sentAt'[q] + ArmTimeout /\ cache'.at <= sentAt'[q]
      BY <3>2, <3>3, Constants DEF IInv, FetchAge
    <3>5. \A q \in Req : pc'[q] = "reply" =>
            /\ sentAt'[q] <= answer'[q].asOf /\ answer'[q].asOf <= now'
            /\ ServedAt(answer[q].keys, answer[q].asOf)'
      BY <3>1, <3>2, <3>3 DEF IInv, FetchAge
    <3> QED BY <3>4, <3>5 DEF FetchAge
  <2>4. Histories'
    BY <1>12, <1>t, Constants DEF IInv, Histories, Tick, TypeOK
  <2>5. SingleFlight'
    BY <1>12, <1>t, Constants DEF IInv, SingleFlight, CacheAge, FetchAge, MutexHeld, Tick, TypeOK
  <2>6. PublishedKeyAccepted'
    BY <1>12, <1>t, Constants DEF IInv, PublishedKeyAccepted, Histories, ForcedFetches, Tick, TypeOK
  <2>7. ForcedFetches'
    BY <1>12, <1>t, Constants DEF IInv, ForcedFetches, Tick, TypeOK
  <2> QED BY <1>t, <2>1, <2>2, <2>3, <2>4, <2>5, <2>6, <2>7 DEF IInv
<1>13. CASE UNCHANGED vars
  <2>1. MutexHeld'
    BY <1>13, <1>t DEF IInv, MutexHeld, vars, TypeOK
  <2>2. CacheAge'
    BY <1>13, <1>t DEF IInv, CacheAge, FetchAge, Histories, ServedAt, vars, TypeOK
  <2>3. FetchAge'
    BY <1>13, <1>t DEF IInv, FetchAge, CacheAge, MutexHeld, Histories, ServedAt, vars, TypeOK
  <2>4. Histories'
    BY <1>13, <1>t DEF IInv, Histories, vars, TypeOK
  <2>5. SingleFlight'
    BY <1>13, <1>t DEF IInv, SingleFlight, CacheAge, FetchAge, MutexHeld, vars, TypeOK
  <2>6. PublishedKeyAccepted'
    BY <1>13, <1>t DEF IInv, PublishedKeyAccepted, Histories, ForcedFetches, vars, TypeOK
  <2>7. ForcedFetches'
    BY <1>13, <1>t DEF IInv, ForcedFetches, vars, TypeOK
  <2> QED BY <1>t, <2>1, <2>2, <2>3, <2>4, <2>5, <2>6, <2>7 DEF IInv
<1> QED BY <1>1, <1>2, <1>3, <1>4, <1>5, <1>6, <1>7, <1>8, <1>9, <1>10, <1>11, <1>12, <1>13 DEF Next, Request
-----------------------------------------------------------------------------

\* The inductive invariant, and the types and the safety properties in it: however many
\* callers read, wait, fetch, fail and drop their futures, only the holder of
\* jwks_refresh fetches, its answer is newer than the cache, and a request whose key is
\* not in a set it is verified with was made while the key was not served.
THEOREM Invariance == Spec => []IInv
<1>1. Init => IInv
  BY Constants DEF Init, IInv, TypeOK, MutexHeld, ForcedFetches, CacheAge, ServedAt, FetchAge,
     Histories, SingleFlight, PublishedKeyAccepted, Pc, Pending, Locked, Fetching, Decided,
     Answer, NoAnswer
<1> QED BY <1>1, InvStep, PTL DEF Spec

\* Callers that only miss the cache never fetch it a second time within its ttl.
THEOREM FetchesAreShared == Spec => []SingleFlight
<1>1. IInv => SingleFlight
  BY DEF IInv
<1> QED BY <1>1, Invariance, PTL

\* A good token is not rejected because of a stale cache.
THEOREM NoStaleRejection == Spec => []PublishedKeyAccepted
<1>1. IInv => PublishedKeyAccepted
  BY DEF IInv
<1> QED BY <1>1, Invariance, PTL

\* The keys of the cache only get newer.
THEOREM CacheIsMonotonic == Spec => CacheNeverRegresses
<1>1. IInv /\ [Next]_vars => cache.asOf <= cache'.asOf
  <2> SUFFICES ASSUME IInv, [Next]_vars PROVE cache.asOf <= cache'.asOf
    OBVIOUS
  <2>1. cache.asOf \in Nat
    BY DEF IInv, TypeOK
  <2>2. CASE UNCHANGED cache
    BY <2>1, <2>2
  <2>3. ASSUME NEW r \in Req, Receive(r), answer[r].keys # {}
        PROVE  cache.asOf <= cache'.asOf
    <3>1. cache'.asOf = answer[r].asOf
      BY <2>3 DEF Receive
    <3>2. /\ cache.asOf <= cache.at /\ cache.at <= sentAt[r] /\ sentAt[r] <= answer[r].asOf
      BY <2>3 DEF IInv, CacheAge, FetchAge, Receive, Fetching
    <3>3. cache.at \in Nat /\ sentAt[r] \in Nat /\ answer[r].asOf \in Nat
      BY DEF IInv, TypeOK, Answer
    <3> QED BY <2>1, <3>1, <3>2, <3>3
  <2>4. UNCHANGED cache \/ \E r \in Req : Receive(r) /\ answer[r].keys # {}
    BY DEF Next, Request, Begin, ReadCache, Lock, UseRefreshed, SendFetch, Serve, Receive,
       FetchFails, Drop, Finish, Publish, Tick, vars
  <2> QED BY <2>2, <2>3, <2>4
<1> QED BY <1>1, Invariance, PTL DEF Spec, CacheNeverRegresses

\* Verify accepts only with a key of the set it is given.
LEMMA AcceptedKey ==
  ASSUME TypeOK, NEW r \in Req, NEW keys, Verify(r, keys),
         NEW q \in Req, pc[q] # "accepted", pc'[q] = "accepted"
  PROVE  q = r /\ kid[r] \in keys
<1>1. q = r
  BY VerifyFrame
<1>2. Verdict(r, keys) = "accepted"
  BY <1>1, VerifyFrame
<1> QED BY <1>1, <1>2, VerdictType

\* A retired key is honoured for less than the ttl and the timeout of a fetch together.
THEOREM RetiredKeysExpire == Spec => StaleKeyBound
<1>1. IInv /\ [Next]_vars =>
        \A r \in Req : pc[r] # "accepted" /\ pc'[r] = "accepted"
          => now < lastPub[kid[r]] + Ttl + ArmTimeout
  <2> SUFFICES ASSUME IInv, [Next]_vars,
                      NEW q \in Req, pc[q] # "accepted", pc'[q] = "accepted"
               PROVE  now < lastPub[kid[q]] + Ttl + ArmTimeout
    OBVIOUS
  <2>t. /\ TypeOK /\ now \in Nat /\ lastPub \in [Kid -> Nat]
        /\ cache.at \in Nat /\ cache.asOf \in Nat /\ cache.keys \in SUBSET Kid
        /\ \A r \in Req : /\ answer[r].asOf \in Nat /\ sentAt[r] \in Nat
                          /\ answer[r].keys \in SUBSET Kid
    BY DEF IInv, TypeOK, Answer
  <2>1. ASSUME NEW r \in Req, Fresh, Verify(r, cache.keys)
        PROVE  now < lastPub[kid[q]] + Ttl + ArmTimeout
    <3>1. q = r /\ kid[r] \in cache.keys
      BY <2>t, <2>1, AcceptedKey
    <3>2. /\ now < cache.at + Ttl /\ cache.at <= cache.asOf + ArmTimeout
          /\ cache.asOf <= lastPub[kid[r]]
      BY <2>1, <3>1 DEF Fresh, IInv, CacheAge, ServedAt
    <3>3. lastPub[kid[r]] \in Nat
      BY <2>t, <3>1
    <3> QED BY <2>t, <3>1, <3>2, <3>3, Constants
  <2>2. ASSUME NEW r \in Req, Receive(r), Verify(r, answer[r].keys)
        PROVE  now < lastPub[kid[q]] + Ttl + ArmTimeout
    <3>1. q = r /\ kid[r] \in answer[r].keys
      BY <2>t, <2>2, AcceptedKey
    <3>2. /\ now <= sentAt[r] + ArmTimeout /\ sentAt[r] <= answer[r].asOf
          /\ answer[r].asOf <= lastPub[kid[r]]
      BY <2>2, <3>1 DEF Receive, IInv, FetchAge, ServedAt, Fetching
    <3>3. lastPub[kid[r]] \in Nat
      BY <2>t, <3>1
    <3> QED BY <2>t, <3>1, <3>2, <3>3, Constants
  <2>3. \/ \E r \in Req : Fresh /\ Verify(r, cache.keys)
        \/ \E r \in Req : Receive(r) /\ Verify(r, answer[r].keys)
    <3>1. ASSUME NEW r \in Req, NEW p \in Pc \ {"accepted"}, Goto(r, p)
          PROVE  FALSE
      BY <2>t, <3>1, GotoFrame
    <3>2. {"idle", "lock", "recheck", "sent", "reply", "degraded"} \subseteq Pc \ {"accepted"}
      BY DEF Pc, Pending, Locked, Fetching, Decided
    <3>3. ASSUME NEW r \in Req, Request(r)
          PROVE  (Fresh /\ Verify(r, cache.keys)) \/ (Receive(r) /\ Verify(r, answer[r].keys))
      <4>1. CASE \E k \in Kid, g \in Genuine : Begin(r, k, g)
        BY <2>t, <4>1 DEF Begin, TypeOK
      <4>2. CASE ReadCache(r)
        BY <3>1, <3>2, <4>2 DEF ReadCache
      <4>3. CASE Lock(r) \/ SendFetch(r) \/ Serve(r) \/ FetchFails(r)
        BY <3>1, <3>2, <4>3 DEF Lock, SendFetch, Serve, FetchFails
      <4>4. CASE UseRefreshed(r)
        BY <4>4 DEF UseRefreshed
      <4>5. CASE Receive(r)
        BY <3>1, <3>2, <4>5 DEF Receive
      <4>6. CASE Drop(r) \/ Finish(r)
        BY <3>1, <3>2, <4>6 DEF Drop, Finish, Forget
      <4> QED BY <3>3, <4>1, <4>2, <4>3, <4>4, <4>5, <4>6 DEF Request
    <3>4. UNCHANGED pc => FALSE
      OBVIOUS
    <3> QED BY <3>3, <3>4 DEF Next, Publish, Tick, vars
  <2> QED BY <2>1, <2>2, <2>3
<1> QED BY <1>1, Invariance, PTL DEF Spec, StaleKeyBound

-----------------------------------------------------------------------------
(***************************************************************************)
(* The race of the two arms.                                               *)
(***************************************************************************)

\* The outcome of the two arms is a decision or none yet.
LEMMA OutcomeType ==
  ASSUME mode \in Mode, NEW sh, NEW di
  PROVE  OutcomeOf(sh, di) \in {"racing"} \cup Decision
  BY DEF OutcomeOf, AuthenticateOutcome, SharedOutcome, AuthorizeOutcome, Mode, Decision

\* What each decision says of the arms.
LEMMA OutcomeMeaning ==
  ASSUME mode \in Mode, NEW sh, NEW di
  PROVE  /\ OutcomeOf(sh, di) = "Authenticated" =>
              sh = "ok" \/ (mode = "authenticate" /\ di = "ok")
         /\ OutcomeOf(sh, di) = "Unauthenticated" =>
              sh = "Invalid" /\ (mode = "authenticate_shared" \/ di = "Invalid")
         /\ OutcomeOf(sh, di) = "Forbidden" => sh = "Forbidden"
  BY DEF OutcomeOf, AuthenticateOutcome, SharedOutcome, AuthorizeOutcome, Mode

\* Every step keeps the types.
LEMMA RaceTypeStep == RaceTypeOK /\ [RaceNext]_raceVars => RaceTypeOK'
<1> SUFFICES ASSUME RaceTypeOK, [RaceNext]_raceVars PROVE RaceTypeOK'
  OBVIOUS
<1> USE DEF RaceTypeOK, Done, Failure
<1>1. ASSUME NEW m \in Mode, BeginCall(m) PROVE RaceTypeOK'
  BY <1>1 DEF BeginCall
<1>2. CASE ServeExchange
  <2>1. reply' \in Reply /\ session' \in {"none", "live", "ended"}
    <3>1. CASE world.account = "none"
      BY <1>2, <3>1 DEF ServeExchange, NoReply, Reply
    <3>2. CASE world.account # "none"
      <4>1. Named(world.account) \in Account /\ world.roles \in SUBSET Role
        BY DEF World, Named, Account
      <4>2. session' = "live"
            /\ reply' = [status |-> "ok", active |-> TRUE,
                         account |-> Named(world.account), roles |-> world.roles]
        BY <1>2, <3>2 DEF ServeExchange
      <4>3. reply' \in Reply
        BY <4>1, <4>2 DEF Reply
      <4> QED BY <4>2, <4>3
    <3> QED BY <3>1, <3>2
  <2> QED BY <1>2, <2>1 DEF ServeExchange
<1>3. CASE Exchanged
  BY <1>3, OutcomeType DEF Exchanged, Decide, NoReply, Reply, NoMinted, Minted, Account
<1>4. CASE ServeIntrospect
  BY <1>4 DEF ServeIntrospect, Reply, World
<1>5. CASE Introspected
  BY <1>5, OutcomeType DEF Introspected, Decide, NoReply, Reply, NoMinted, Minted, Account
<1>6. CASE SharedFails
  BY <1>6, OutcomeType DEF SharedFails, Decide, NoReply, Reply, NoMinted, Minted, Account
<1>7. CASE ServeUser
  BY <1>7 DEF ServeUser, World
<1>8. CASE Verified
  BY <1>8, OutcomeType DEF Verified, Decide
<1>9. CASE DirectFails
  BY <1>9, OutcomeType DEF DirectFails, Decide
<1>10. CASE DeadlineExceeded
  BY <1>10 DEF DeadlineExceeded, Decision
<1>11. CASE Return
  BY <1>11 DEF Return, NoReply, Reply, NoMinted, Minted, Account
<1>12. CASE WorldChanges
  BY <1>12 DEF WorldChanges
<1>13. CASE SessionEnds
  BY <1>13 DEF SessionEnds
<1>14. CASE UNCHANGED raceVars
  BY <1>14 DEF raceVars
<1> QED BY <1>1, <1>2, <1>3, <1>4, <1>5, <1>6, <1>7, <1>8, <1>9, <1>10, <1>11, <1>12, <1>13, <1>14 DEF RaceNext

\* A step that touches neither arm nor outcome keeps the decision.
LEMMA OutcomeKept ==
  ASSUME RaceInv, UNCHANGED <<mode, shared, direct, outcome, by>>
  PROVE  OutcomeFollows'
  BY DEF RaceInv, OutcomeFollows, OutcomeOf

\* A call that has not been decided has no decision to justify.
LEMMA OutcomeOpen ==
  ASSUME outcome' \in {"idle", "racing"},
         mode' = "authenticate_shared" /\ outcome' # "idle" => direct' = "off"
  PROVE  OutcomeFollows'
  BY DEF OutcomeFollows, Decision

\* Decide decides by the arms as they are then.
LEMMA OutcomeDecided ==
  ASSUME mode \in Mode, UNCHANGED mode, NEW sh, NEW di, Decide(sh, di),
         mode = "authenticate_shared" => di = "off"
  PROVE  OutcomeFollows' /\ outcome' # "idle"
<1>1. outcome' = OutcomeOf(sh, di) /\ shared' = sh /\ direct' = di
  BY DEF Decide
<1>2. OutcomeOf(sh, di)' = OutcomeOf(sh, di)
  BY DEF OutcomeOf
<1>3. OutcomeOf(shared, direct)' = outcome'
  BY <1>1, <1>2 DEF OutcomeOf
<1>4. outcome' = "Authenticated" => by' = (IF shared' = "ok" THEN "SharedAuth" ELSE "Supabase")
  BY <1>1 DEF Decide
<1>5. outcome' # "idle"
  BY <1>1, OutcomeType DEF Decision
<1> QED BY <1>1, <1>3, <1>4, <1>5 DEF OutcomeFollows

\* Every step keeps the inductive invariant.
LEMMA RaceInvStep == RaceInv /\ [RaceNext]_raceVars => RaceInv'
<1> SUFFICES ASSUME RaceInv, [RaceNext]_raceVars PROVE RaceInv'
  OBVIOUS
<1>t. RaceTypeOK /\ RaceTypeOK' /\ mode \in Mode
  BY RaceTypeStep DEF RaceInv, RaceTypeOK
<1>1. ASSUME NEW m \in Mode, BeginCall(m) PROVE RaceInv'
  <2>1. IdleIsClean'
    BY <1>1, <1>t DEF RaceInv, IdleIsClean, BeginCall
  <2>2. RepliesWereTrue'
    BY <1>1, <1>t DEF RaceInv, RepliesWereTrue, BeginCall, World, NoReply, IdleIsClean
  <2>3. ArmsWereTrue'
    BY <1>1, <1>t DEF RaceInv, ArmsWereTrue, BeginCall, SharedRefusal, RepliesWereTrue, IdleIsClean
  <2>4. OutcomeFollows'
    BY <1>1, <1>t, OutcomeOpen DEF RaceInv, BeginCall
  <2> QED BY <1>t, <2>1, <2>2, <2>3, <2>4 DEF RaceInv
<1>2. CASE ServeExchange
  <2>1. IdleIsClean'
    BY <1>2, <1>t DEF RaceInv, IdleIsClean, ServeExchange
  <2>2. RepliesWereTrue'
    <3>1. shared = "exchange" /\ outcome = "racing" /\ world \in seen
          /\ UNCHANGED <<world, shared, told, outcome, seen>>
      BY <1>2 DEF ServeExchange, RaceInv, RepliesWereTrue
    <3>2. CASE world.account = "none"
      <4>1. reply'.status = "refused" /\ session' = session
        BY <1>2, <3>2 DEF ServeExchange, NoReply
      <4>2. ~Known(world)
        BY <3>2 DEF Known
      <4> QED BY <3>1, <4>1, <4>2 DEF RaceInv, RepliesWereTrue
    <3>3. CASE world.account # "none"
      <4>1. reply'.status = "ok" /\ reply'.account = Named(world.account)
            /\ reply'.roles = world.roles /\ session' = "live"
        BY <1>2, <3>3 DEF ServeExchange
      <4> QED BY <3>1, <4>1 DEF RaceInv, RepliesWereTrue
    <3> QED BY <3>2, <3>3
  <2>3. ArmsWereTrue'
    BY <1>2, <1>t DEF RaceInv, ArmsWereTrue, ServeExchange, SharedRefusal, RepliesWereTrue
  <2>4. OutcomeFollows'
    BY <1>2, OutcomeKept DEF ServeExchange
  <2> QED BY <1>t, <2>1, <2>2, <2>3, <2>4 DEF RaceInv
<1>3. CASE Exchanged
  <2>o. outcome = "racing" /\ UNCHANGED mode /\ (mode = "authenticate_shared" => direct = "off")
    BY <1>3 DEF Exchanged, RaceInv, OutcomeFollows
  <2>d. outcome' # "idle" /\ OutcomeFollows'
    <3>1. CASE reply.status = "refused"
      BY <1>3, <1>t, <2>o, <3>1, OutcomeDecided DEF Exchanged
    <3>2. CASE reply.status # "refused"
      BY <1>3, <2>o, <3>2, OutcomeOpen DEF Exchanged
    <3> QED BY <3>1, <3>2
  <2>1. IdleIsClean'
    BY <2>d DEF IdleIsClean
  <2>2. RepliesWereTrue'
    <3>1. outcome = "racing" /\ shared = "exchange" /\ reply' = NoReply
          /\ UNCHANGED <<world, session, mode, told, seen>>
      BY <1>3 DEF Exchanged
    <3>2. CASE reply.status = "refused"
      <4>1. shared' = "Invalid"
        BY <1>3, <3>2 DEF Exchanged, Decide
      <4> QED BY <3>1, <4>1 DEF RaceInv, RepliesWereTrue
    <3>3. CASE reply.status # "refused"
      <4>1. shared' = "introspect" /\ minted'.account = reply.account /\ minted'.roles = reply.roles
        BY <1>3, <3>3 DEF Exchanged
      <4>2. reply.status = "ok"
        BY <1>3, <1>t, <3>3 DEF Exchanged, RaceTypeOK, RaceInv, RepliesWereTrue, Reply, NoReply
      <4>3. session # "none" /\ \E w \in seen : reply.account = Named(w.account)
                                                 /\ reply.roles = w.roles
        BY <3>1, <4>2 DEF RaceInv, RepliesWereTrue
      <4> QED BY <3>1, <4>1, <4>3 DEF RaceInv, RepliesWereTrue
    <3> QED BY <3>2, <3>3
  <2>3. ArmsWereTrue'
    BY <1>3, <1>t DEF RaceInv, ArmsWereTrue, Exchanged, Decide, SharedRefusal, RepliesWereTrue
  <2>4. OutcomeFollows'
    BY <2>d
  <2> QED BY <1>t, <2>1, <2>2, <2>3, <2>4 DEF RaceInv
<1>4. CASE ServeIntrospect
  <2>1. IdleIsClean'
    BY <1>4, <1>t DEF RaceInv, IdleIsClean, ServeIntrospect
  <2>2. RepliesWereTrue'
    <3>1. shared = "introspect" /\ outcome = "racing" /\ world \in seen
          /\ UNCHANGED <<world, session, shared, minted, told, outcome, seen>>
      BY <1>4 DEF ServeIntrospect, RaceInv, RepliesWereTrue
    <3>2. reply'.active = (session = "live") /\ reply'.account = world.account
          /\ reply'.roles = world.roles /\ reply'.status = "ok"
      BY <1>4 DEF ServeIntrospect
    <3>3. session \in {"live", "ended"}
      BY <1>t, <3>1 DEF RaceTypeOK, RaceInv, RepliesWereTrue
    <3> QED BY <3>1, <3>2, <3>3 DEF RaceInv, RepliesWereTrue
  <2>3. ArmsWereTrue'
    BY <1>4, <1>t DEF RaceInv, ArmsWereTrue, ServeIntrospect, SharedRefusal, RepliesWereTrue
  <2>4. OutcomeFollows'
    BY <1>4, OutcomeKept DEF ServeIntrospect
  <2> QED BY <1>t, <2>1, <2>2, <2>3, <2>4 DEF RaceInv
<1>5. CASE Introspected
  <2>d. outcome' # "idle" /\ OutcomeFollows'
    <3>1. outcome = "racing" /\ UNCHANGED mode /\ (mode = "authenticate_shared" => direct = "off")
      BY <1>5 DEF Introspected, RaceInv, OutcomeFollows
    <3> QED BY <1>5, <1>t, <3>1, OutcomeDecided DEF Introspected
  <2>1. IdleIsClean'
    BY <2>d DEF IdleIsClean
  <2>2. RepliesWereTrue'
    BY <1>5, <1>t DEF RaceInv, RepliesWereTrue, Introspected, Decide, World, NoReply
  <2>3. ArmsWereTrue'
    <3>1. PICK v \in seen : minted.account = Named(v.account) /\ minted.roles = v.roles
      BY <1>5 DEF RaceInv, RepliesWereTrue, Introspected
    <3>2. PICK w \in seen : reply.account = w.account /\ reply.roles = w.roles
      BY <1>5 DEF RaceInv, RepliesWereTrue, Introspected
    <3>3. ~reply.active => session = "ended"
      BY <1>5 DEF RaceInv, RepliesWereTrue, Introspected
    <3>4. Coherent /\ Sound => Known(w)
      BY <3>2 DEF Coherent, Sound, Known, Named
    <3>5. ~(Coherent /\ Sound) => SharedRefusal
      <4>1. CASE ~Known(w)
        BY <4>1 DEF SharedRefusal
      <4>2. CASE v.account # w.account \/ v.roles # w.roles
        BY <4>2 DEF SharedRefusal
      <4>3. CASE Known(w) /\ v.account = w.account /\ v.roles = w.roles
        <5>1. SameAnswers /\ Sound /\ Named(reply.account) \in {"here", "other"}
          BY <3>1, <3>2, <4>3 DEF SameAnswers, Sound, Known, Named
        <5> QED BY <3>3, <5>1 DEF Coherent, SharedRefusal
      <4> QED BY <4>1, <4>2, <4>3
    <3>6. /\ direct' = direct
          /\ shared' = IF ~(Coherent /\ Sound) THEN "Invalid"
                       ELSE IF mode = "authorize" /\ ~HasRequiredRole THEN "Forbidden" ELSE "ok"
          /\ UNCHANGED <<session, mode, seen>>
      BY <1>5 DEF Introspected, Decide
    <3>7. SharedRefusal' = SharedRefusal
      BY <3>6 DEF SharedRefusal
    <3>8. CASE ~(Coherent /\ Sound)
      BY <3>5, <3>6, <3>7, <3>8 DEF RaceInv, ArmsWereTrue
    <3>9. CASE Coherent /\ Sound /\ mode = "authorize" /\ ~HasRequiredRole
      BY <3>2, <3>4, <3>6, <3>9 DEF RaceInv, ArmsWereTrue, HasRequiredRole
    <3>10. CASE Coherent /\ Sound /\ ~(mode = "authorize" /\ ~HasRequiredRole)
      BY <3>2, <3>4, <3>6, <3>10 DEF RaceInv, ArmsWereTrue, HasRequiredRole
    <3> QED BY <3>8, <3>9, <3>10
  <2>4. OutcomeFollows'
    BY <2>d
  <2> QED BY <1>t, <2>1, <2>2, <2>3, <2>4 DEF RaceInv
<1>6. CASE SharedFails
  <2>d. outcome' # "idle" /\ OutcomeFollows'
    <3>1. outcome = "racing" /\ UNCHANGED mode /\ (mode = "authenticate_shared" => direct = "off")
      BY <1>6 DEF SharedFails, RaceInv, OutcomeFollows
    <3> QED BY <1>6, <1>t, <3>1, OutcomeDecided DEF SharedFails
  <2>1. IdleIsClean'
    BY <2>d DEF IdleIsClean
  <2>2. RepliesWereTrue'
    BY <1>6, <1>t DEF RaceInv, RepliesWereTrue, SharedFails, Decide, World, NoReply
  <2>3. ArmsWereTrue'
    BY <1>6, <1>t DEF RaceInv, ArmsWereTrue, SharedFails, Decide, SharedRefusal, RepliesWereTrue
  <2>4. OutcomeFollows'
    BY <2>d
  <2> QED BY <1>t, <2>1, <2>2, <2>3, <2>4 DEF RaceInv
<1>7. CASE ServeUser
  <2>1. IdleIsClean'
    BY <1>7, <1>t DEF RaceInv, IdleIsClean, ServeUser
  <2>2. RepliesWereTrue'
    BY <1>7, <1>t DEF RaceInv, RepliesWereTrue, ServeUser, World
  <2>3. ArmsWereTrue'
    BY <1>7, <1>t DEF RaceInv, ArmsWereTrue, ServeUser, SharedRefusal, RepliesWereTrue
  <2>4. OutcomeFollows'
    BY <1>7, OutcomeKept DEF ServeUser
  <2> QED BY <1>t, <2>1, <2>2, <2>3, <2>4 DEF RaceInv
<1>8. CASE Verified
  <2>d. outcome' # "idle" /\ OutcomeFollows'
    <3>1. outcome = "racing" /\ UNCHANGED mode /\ (mode = "authenticate_shared" => direct = "off")
      BY <1>8 DEF Verified, RaceInv, OutcomeFollows
    <3> QED BY <1>8, <1>t, <3>1, OutcomeDecided DEF Verified
  <2>1. IdleIsClean'
    BY <2>d DEF IdleIsClean
  <2>2. RepliesWereTrue'
    BY <1>8, <1>t DEF RaceInv, RepliesWereTrue, Verified, Decide, World, NoReply
  <2>3. ArmsWereTrue'
    <3>1. shared' = shared /\ UNCHANGED <<session, mode, seen>>
      BY <1>8 DEF Verified, Decide
    <3>2. direct' = IF told = "accepts" THEN "ok" ELSE "Invalid"
      BY <1>8 DEF Verified, Decide
    <3>3. \E w \in seen : w.provider = told
      BY <1>8 DEF Verified, RaceInv, RepliesWereTrue
    <3> QED BY <3>1, <3>2, <3>3 DEF RaceInv, ArmsWereTrue, SharedRefusal, RepliesWereTrue
  <2>4. OutcomeFollows'
    BY <2>d
  <2> QED BY <1>t, <2>1, <2>2, <2>3, <2>4 DEF RaceInv
<1>9. CASE DirectFails
  <2>d. outcome' # "idle" /\ OutcomeFollows'
    <3>1. outcome = "racing" /\ UNCHANGED mode /\ (mode = "authenticate_shared" => direct = "off")
      BY <1>9 DEF DirectFails, RaceInv, OutcomeFollows
    <3> QED BY <1>9, <1>t, <3>1, OutcomeDecided DEF DirectFails
  <2>1. IdleIsClean'
    BY <2>d DEF IdleIsClean
  <2>2. RepliesWereTrue'
    BY <1>9, <1>t DEF RaceInv, RepliesWereTrue, DirectFails, Decide, World, NoReply
  <2>3. ArmsWereTrue'
    BY <1>9, <1>t DEF RaceInv, ArmsWereTrue, DirectFails, Decide, SharedRefusal, RepliesWereTrue
  <2>4. OutcomeFollows'
    BY <2>d
  <2> QED BY <1>t, <2>1, <2>2, <2>3, <2>4 DEF RaceInv
<1>10. CASE DeadlineExceeded
  <2>1. IdleIsClean'
    BY <1>10, <1>t DEF RaceInv, IdleIsClean, DeadlineExceeded
  <2>2. RepliesWereTrue'
    BY <1>10, <1>t DEF RaceInv, RepliesWereTrue, DeadlineExceeded, World
  <2>3. ArmsWereTrue'
    BY <1>10, <1>t DEF RaceInv, ArmsWereTrue, DeadlineExceeded, SharedRefusal, RepliesWereTrue
  <2>4. OutcomeFollows'
    BY <1>10, <1>t DEF RaceInv, OutcomeFollows, DeadlineExceeded
  <2> QED BY <1>t, <2>1, <2>2, <2>3, <2>4 DEF RaceInv
<1>11. CASE Return
  <2>1. IdleIsClean'
    BY <1>11, <1>t DEF RaceInv, IdleIsClean, Return
  <2>2. RepliesWereTrue'
    BY <1>11, <1>t DEF RaceInv, RepliesWereTrue, Return, World
  <2>3. ArmsWereTrue'
    BY <1>11, <1>t DEF RaceInv, ArmsWereTrue, Return, SharedRefusal, RepliesWereTrue
  <2>4. OutcomeFollows'
    BY <1>11, OutcomeOpen DEF Return
  <2> QED BY <1>t, <2>1, <2>2, <2>3, <2>4 DEF RaceInv
<1>12. CASE WorldChanges
  <2>1. IdleIsClean'
    BY <1>12, <1>t DEF RaceInv, IdleIsClean, WorldChanges
  <2>2. RepliesWereTrue'
    BY <1>12, <1>t DEF RaceInv, RepliesWereTrue, WorldChanges, World
  <2>3. ArmsWereTrue'
    BY <1>12, <1>t DEF RaceInv, ArmsWereTrue, WorldChanges, SharedRefusal, RepliesWereTrue
  <2>4. OutcomeFollows'
    BY <1>12, OutcomeKept DEF WorldChanges
  <2> QED BY <1>t, <2>1, <2>2, <2>3, <2>4 DEF RaceInv
<1>13. CASE SessionEnds
  <2>1. IdleIsClean'
    BY <1>13, <1>t DEF RaceInv, IdleIsClean, SessionEnds
  <2>2. RepliesWereTrue'
    BY <1>13, <1>t DEF RaceInv, RepliesWereTrue, SessionEnds, World
  <2>3. ArmsWereTrue'
    BY <1>13, <1>t DEF RaceInv, ArmsWereTrue, SessionEnds, SharedRefusal, RepliesWereTrue
  <2>4. OutcomeFollows'
    BY <1>13, OutcomeKept DEF SessionEnds
  <2> QED BY <1>t, <2>1, <2>2, <2>3, <2>4 DEF RaceInv
<1>14. CASE UNCHANGED raceVars
  <2>1. IdleIsClean'
    BY <1>14, <1>t DEF RaceInv, IdleIsClean, raceVars
  <2>2. RepliesWereTrue'
    BY <1>14, <1>t DEF RaceInv, RepliesWereTrue, raceVars, World
  <2>3. ArmsWereTrue'
    BY <1>14, <1>t DEF RaceInv, ArmsWereTrue, raceVars, SharedRefusal, RepliesWereTrue
  <2>4. OutcomeFollows'
    BY <1>14, OutcomeKept DEF raceVars
  <2> QED BY <1>t, <2>1, <2>2, <2>3, <2>4 DEF RaceInv
<1> QED BY <1>1, <1>2, <1>3, <1>4, <1>5, <1>6, <1>7, <1>8, <1>9, <1>10, <1>11, <1>12, <1>13, <1>14 DEF RaceNext

-----------------------------------------------------------------------------

\* The inductive invariant, and the types in it: what is on the way to an arm, and what
\* an arm ended with, was true at the authorities at a moment of the call.
THEOREM RaceInvariance == RaceSpec => []RaceInv
<1>1. RaceInit => RaceInv
  BY DEF RaceInit, RaceInv, RaceTypeOK, IdleIsClean, RepliesWereTrue, ArmsWereTrue, OutcomeFollows,
     NoReply, Reply, NoMinted, Minted, Account, Decision
<1> QED BY <1>1, RaceInvStep, PTL DEF RaceSpec

\* authorize grants only a role that Shared Auth held during the call.
THEOREM PrivilegeHeld == RaceSpec => []PrivilegeIsHeld
<1>1. RaceInv => PrivilegeIsHeld
  BY OutcomeMeaning DEF RaceInv, RaceTypeOK, PrivilegeIsHeld, OutcomeFollows, ArmsWereTrue, Decision
<1> QED BY <1>1, RaceInvariance, PTL

\* An identity is vouched for by the authority it names.
THEOREM IdentityProven == RaceSpec => []IdentityIsProven
<1>1. RaceInv => IdentityIsProven
  <2> SUFFICES ASSUME RaceInv, outcome = "Authenticated" PROVE IdentityIsProven
    BY DEF IdentityIsProven
  <2>1. outcome = OutcomeOf(shared, direct) /\ mode \in Mode
        /\ by = IF shared = "ok" THEN "SharedAuth" ELSE "Supabase"
    BY DEF RaceInv, RaceTypeOK, OutcomeFollows, Decision
  <2>2. CASE shared = "ok"
    BY <2>1, <2>2 DEF RaceInv, ArmsWereTrue, IdentityIsProven
  <2>3. CASE shared # "ok"
    <3>1. mode = "authenticate" /\ direct = "ok"
      BY <2>1, <2>3, OutcomeMeaning
    <3> QED BY <2>1, <2>3, <3>1 DEF RaceInv, ArmsWereTrue, IdentityIsProven
  <2> QED BY <2>2, <2>3
<1> QED BY <1>1, RaceInvariance, PTL

\* Unauthenticated is never an outage or a timeout in disguise, and never the answer for
\* an account that both authorities know, valid and unchanged while the call runs.
THEOREM RefusalTrue == RaceSpec => []RefusalIsTrue
<1>1. RaceInv => RefusalIsTrue
  BY OutcomeMeaning DEF RaceInv, RaceTypeOK, RefusalIsTrue, OutcomeFollows, ArmsWereTrue, Decision
<1> QED BY <1>1, RaceInvariance, PTL

\* Forbidden means that Shared Auth did not hold a required role for a known account.
THEOREM DenialTrue == RaceSpec => []DenialIsTrue
<1>1. RaceInv => DenialIsTrue
  BY OutcomeMeaning DEF RaceInv, RaceTypeOK, DenialIsTrue, OutcomeFollows, ArmsWereTrue, Decision
<1> QED BY <1>1, RaceInvariance, PTL
=============================================================================
