------------------------------ MODULE JwksCache ------------------------------
(***************************************************************************)
(* Local verification of Shared Auth tokens: Guard::verify_local and       *)
(* Guard::current_jwks of adapters/shared-auth-rust.  Concurrent requests  *)
(* share one cached key set and one refresh mutex; the authority rotates   *)
(* its keys at any time.  A step of a request is what runs between two     *)
(* suspension points of its future, and a caller may drop the future at    *)
(* any of them.  with_static_jwks, which never fetches, is left out.       *)
(***************************************************************************)
EXTENDS Integers

CONSTANTS
  Req,         \* concurrent callers of verify_local
  NoReq,       \* not a caller
  Kid,         \* key ids
  NoKid,       \* not a key id
  Genuine,     \* whether the rest of a token may verify under its key, or not
  Ttl,         \* config.jwks_ttl
  ArmTimeout,  \* config.arm_timeout
  MaxTime      \* bound: the clock stops here

ASSUME ReqAssumption == NoReq \notin Req /\ NoKid \notin Kid /\ Genuine \subseteq BOOLEAN
ASSUME TimeAssumption == /\ Ttl \in Nat \ {0} /\ ArmTimeout \in Nat \ {0}
                         /\ MaxTime \in Nat

VARIABLES
  now,         \* the monotonic clock
  published,   \* key ids the authority serves
  lastPub,     \* when each key id was last served (history)
  cache,       \* jwks_cache: its keys ({} for None), fetched_at, and when served
  mutex,       \* the holder of jwks_refresh
  pc,          \* where each request is
  kid,         \* the key id of its token
  good,        \* the rest of its token verifies under that key
  forced,      \* it is in current_jwks(true)
  sentAt,      \* when its fetch started
  answer,      \* the response on its way to it
  absent       \* its key was not served at some moment since it began (history)

vars == <<now, published, lastPub, cache, mutex, pc, kid, good, forced,
          sentAt, answer, absent>>

Decided  == {"accepted", "rejected", "degraded"}
Fetching == {"sent", "reply"}
Locked   == {"recheck"} \cup Fetching
Pending  == {"read", "lock"} \cup Locked
Pc       == {"idle"} \cup Pending \cup Decided

Answer   == [keys : SUBSET Kid, asOf : Nat]
NoAnswer == [keys |-> {}, asOf |-> 0]

TypeOK ==
  /\ now \in Nat /\ published \in SUBSET Kid /\ lastPub \in [Kid -> Nat]
  /\ cache \in [keys : SUBSET Kid, at : Nat, asOf : Nat]
  /\ mutex \in Req \cup {NoReq}
  /\ pc \in [Req -> Pc] /\ kid \in [Req -> Kid \cup {NoKid}]
  /\ good \in [Req -> BOOLEAN] /\ forced \in [Req -> BOOLEAN]
  /\ sentAt \in [Req -> Nat]
  /\ answer \in [Req -> Answer]
  /\ absent \in [Req -> BOOLEAN]

Init ==
  /\ now = 0 /\ published \in SUBSET Kid /\ lastPub = [k \in Kid |-> 0]
  /\ cache = [keys |-> {}, at |-> 0, asOf |-> 0] /\ mutex = NoReq
  /\ pc = [r \in Req |-> "idle"] /\ kid = [r \in Req |-> NoKid]
  /\ good = [r \in Req |-> FALSE] /\ forced = [r \in Req |-> FALSE]
  /\ sentAt = [r \in Req |-> 0]
  /\ answer = [r \in Req |-> NoAnswer]
  /\ absent = [r \in Req |-> FALSE]

-----------------------------------------------------------------------------

\* Mutant: a set of exactly the ttl still counts.
FreshAtTtl == cache.keys # {} /\ now <= cache.at + Ttl

\* cached_jwks: a set younger than the ttl.
Fresh == cache.keys # {} /\ now < cache.at + Ttl

\* Mutant: an unknown key id is an invalid token at once.
VerdictAtOnce(r, keys) ==
  IF kid[r] \in keys /\ good[r] THEN "accepted" ELSE "rejected"

\* decode_with_jwks, and what verify_local makes of it: a key id that is not in a set
\* of a forced refresh is an invalid token, in any other set a reason to force one.
Verdict(r, keys) ==
  IF kid[r] \in keys THEN (IF good[r] THEN "accepted" ELSE "rejected")
  ELSE IF forced[r] THEN "rejected" ELSE "lock"

Verify(r, keys) ==
  /\ pc' = [pc EXCEPT ![r] = Verdict(r, keys)]
  /\ forced' = [forced EXCEPT ![r] = Verdict(r, keys) = "lock"]

Goto(r, p) ==
  /\ pc' = [pc EXCEPT ![r] = p]
  /\ forced' = [forced EXCEPT ![r] = @ /\ p \notin Decided \cup {"idle"}]

\* The mutex guard goes out of scope, and the response of its fetch with it.
Unlock(r) ==
  /\ mutex' = IF mutex = r THEN NoReq ELSE mutex
  /\ sentAt' = [sentAt EXCEPT ![r] = 0]
  /\ answer' = [answer EXCEPT ![r] = NoAnswer]

\* The future is gone.
Forget(r) ==
  /\ Goto(r, "idle")
  /\ kid' = [kid EXCEPT ![r] = NoKid]
  /\ good' = [good EXCEPT ![r] = FALSE]
  /\ absent' = [absent EXCEPT ![r] = FALSE]

\* verify_local of a token with key id k.
Begin(r, k, g) ==
  /\ pc[r] = "idle"
  /\ pc' = [pc EXCEPT ![r] = "read"]
  /\ kid' = [kid EXCEPT ![r] = k]
  /\ good' = [good EXCEPT ![r] = g]
  /\ forced' = [forced EXCEPT ![r] = FALSE]
  /\ absent' = [absent EXCEPT ![r] = k \notin published]
  /\ UNCHANGED <<now, published, lastPub, cache, mutex, sentAt, answer>>

\* The first look at the cache, without the mutex.
ReadCache(r) ==
  /\ pc[r] = "read"
  /\ IF Fresh THEN Verify(r, cache.keys) ELSE Goto(r, "lock")
  /\ UNCHANGED <<now, published, lastPub, cache, mutex, kid, good, sentAt, answer, absent>>

\* Mutant: let _ = jwks_refresh.lock().await, which unlocks at once.
LockUnheld(r) ==
  /\ pc[r] = "lock" /\ mutex = NoReq
  /\ Goto(r, "recheck")
  /\ UNCHANGED <<now, published, lastPub, cache, mutex, kid, good, sentAt, answer, absent>>

Lock(r) ==
  /\ pc[r] = "lock" /\ mutex = NoReq
  /\ mutex' = r
  /\ Goto(r, "recheck")
  /\ UNCHANGED <<now, published, lastPub, cache, kid, good, sentAt, answer, absent>>

\* Somebody else refreshed the cache while this request waited for the mutex.
UseRefreshed(r) ==
  /\ pc[r] = "recheck" /\ ~forced[r] /\ Fresh
  /\ Verify(r, cache.keys)
  /\ Unlock(r)
  /\ UNCHANGED <<now, published, lastPub, cache, kid, good, absent>>

\* Mutant: the cache is not looked at again under the mutex.
NeedsFetchBlindly(r) == r \in Req

NeedsFetch(r) == forced[r] \/ ~Fresh

SendFetch(r) ==
  /\ pc[r] = "recheck" /\ NeedsFetch(r)
  /\ sentAt' = [sentAt EXCEPT ![r] = now]
  /\ Goto(r, "sent")
  /\ UNCHANGED <<now, published, lastPub, cache, mutex, kid, good, answer, absent>>

\* The authority serves the keys it publishes at that moment.
Serve(r) ==
  /\ pc[r] = "sent"
  /\ answer' = [answer EXCEPT ![r] = [keys |-> published, asOf |-> now]]
  /\ Goto(r, "reply")
  /\ UNCHANGED <<now, published, lastPub, cache, mutex, kid, good, sentAt, absent>>

\* The response arrives: an empty set is refused, any other replaces the cache.
Receive(r) ==
  /\ pc[r] = "reply"
  /\ IF answer[r].keys = {}
     THEN Goto(r, "degraded") /\ UNCHANGED cache
     ELSE /\ cache' = [keys |-> answer[r].keys, at |-> now, asOf |-> answer[r].asOf]
          /\ Verify(r, answer[r].keys)
  /\ Unlock(r)
  /\ UNCHANGED <<now, published, lastPub, kid, good, absent>>

\* Mutant: a fetch without a timeout.
FetchFailsOnAnswer(r) ==
  /\ pc[r] = "reply"
  /\ Goto(r, "degraded")
  /\ Unlock(r)
  /\ UNCHANGED <<now, published, lastPub, cache, kid, good, absent>>

\* A transport error, an error status, a body that does not parse, or arm_timeout.
FetchFails(r) ==
  /\ pc[r] \in Fetching
  /\ Goto(r, "degraded")
  /\ Unlock(r)
  /\ UNCHANGED <<now, published, lastPub, cache, kid, good, absent>>

\* The caller drops the future at a suspension point; the mutex guard goes with it.
Drop(r) ==
  /\ pc[r] \in Pending
  /\ Forget(r)
  /\ Unlock(r)
  /\ UNCHANGED <<now, published, lastPub, cache>>

\* The caller takes the decision.
Finish(r) ==
  /\ pc[r] \in Decided
  /\ Forget(r)
  /\ UNCHANGED <<now, published, lastPub, cache, mutex, sentAt, answer>>

\* The authority rotates its keys.
Publish(keys) ==
  /\ published' = keys
  /\ lastPub' = [k \in Kid |-> IF k \in published \cup keys THEN now ELSE lastPub[k]]
  /\ absent' = [r \in Req |-> absent[r] \/ (kid[r] # NoKid /\ kid[r] \notin keys)]
  /\ UNCHANGED <<now, cache, mutex, pc, kid, good, forced, sentAt, answer>>

\* Time passes; reqwest ends a fetch that is as old as arm_timeout.
Tick ==
  /\ now < MaxTime
  /\ \A r \in Req : pc[r] \in Fetching => now < sentAt[r] + ArmTimeout
  /\ now' = now + 1
  /\ lastPub' = [k \in Kid |-> IF k \in published THEN now + 1 ELSE lastPub[k]]
  /\ UNCHANGED <<published, cache, mutex, pc, kid, good, forced, sentAt, answer, absent>>

-----------------------------------------------------------------------------

Request(r) ==
  \/ \E k \in Kid, g \in Genuine : Begin(r, k, g)
  \/ ReadCache(r) \/ Lock(r) \/ UseRefreshed(r)
  \/ SendFetch(r) \/ Serve(r) \/ Receive(r) \/ FetchFails(r)
  \/ Drop(r) \/ Finish(r)

Next == (\E r \in Req : Request(r)) \/ (\E keys \in SUBSET Kid : Publish(keys)) \/ Tick

Spec == Init /\ [][Next]_vars

\* The runtime polls a ready future, arm_timeout ends a fetch that does not return,
\* and tokio's mutex is fair.
FairSpec ==
  /\ Spec
  /\ \A r \in Req :
       /\ WF_vars(ReadCache(r)) /\ SF_vars(Lock(r))
       /\ WF_vars(UseRefreshed(r) \/ SendFetch(r))
       /\ WF_vars(Receive(r) \/ FetchFails(r)) /\ WF_vars(Finish(r))

-----------------------------------------------------------------------------
(* Properties.                                                             *)

\* A retired key is honoured for less than ttl + arm_timeout: the age of a cached set
\* counts from its arrival, so the flight of the response adds to the ttl.
StaleKeyBound ==
  [][\A r \in Req : pc[r] # "accepted" /\ pc'[r] = "accepted"
       => now < lastPub[kid[r]] + Ttl + ArmTimeout]_vars

\* A good token is never answered as invalid because of a stale cache: if it is, its
\* key was really not served at some moment of the request.
PublishedKeyAccepted ==
  \A r \in Req : pc[r] = "rejected" /\ good[r] => absent[r]

\* The cache never goes back to an older key set, however fetches overlap or fail.
CacheNeverRegresses == [][cache.asOf <= cache'.asOf]_vars

\* Requests that only miss the cache share one fetch: none is under way that was sent
\* within the ttl of the cached set.
SingleFlight ==
  \A r \in Req : pc[r] \in Fetching /\ ~forced[r]
    => cache.keys = {} \/ cache.at + Ttl <= sentAt[r]

\* Every request is decided or dropped: nobody waits for the mutex for ever.
RequestsDecided == \A r \in Req : pc[r] \in Pending ~> pc[r] \notin Pending

-----------------------------------------------------------------------------
(* The inductive invariant.                                                *)

\* Exactly the holder of the mutex is between lock and unlock.
MutexHeld == \A r \in Req : pc[r] \in Locked <=> mutex = r

\* Every key of the set s was still served at time t.
ServedAt(keys, t) == \A k \in keys : t <= lastPub[k]

\* The cache is not from the future and was under way for at most arm_timeout.
CacheAge ==
  /\ cache.asOf <= cache.at /\ cache.at <= now /\ cache.at <= cache.asOf + ArmTimeout
  /\ ServedAt(cache.keys, cache.asOf)

\* A fetch ends within arm_timeout, and its answer is newer than the cache.
FetchAge ==
  /\ \A r \in Req : pc[r] \in Fetching =>
       sentAt[r] <= now /\ now <= sentAt[r] + ArmTimeout /\ cache.at <= sentAt[r]
  /\ \A r \in Req : pc[r] = "reply" =>
       /\ sentAt[r] <= answer[r].asOf /\ answer[r].asOf <= now
       /\ ServedAt(answer[r].keys, answer[r].asOf)

\* What the histories record.
Histories ==
  /\ \A k \in Kid : lastPub[k] <= now /\ (k \in published => lastPub[k] = now)
  /\ \A r \in Req : pc[r] \in Pending /\ kid[r] \notin published => absent[r]
  /\ \A r \in Req : pc[r] = "reply" /\ kid[r] \notin answer[r].keys => absent[r]

\* Only a request that goes on to fetch is forced.
ForcedFetches == \A r \in Req : forced[r] => pc[r] \in {"lock"} \cup Locked

IInv ==
  /\ TypeOK /\ MutexHeld /\ ForcedFetches /\ CacheAge /\ FetchAge /\ Histories
  /\ SingleFlight /\ PublishedKeyAccepted
=============================================================================
