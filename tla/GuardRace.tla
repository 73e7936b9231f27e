------------------------------ MODULE GuardRace ------------------------------
(***************************************************************************)
(* One provider credential presented to Guard::authenticate,               *)
(* ::authenticate_shared or ::authorize of adapters/shared-auth-rust.  The *)
(* Shared Auth arm exchanges it for a session and introspects that, the    *)
(* direct arm asks the provider; both race under one deadline while the    *)
(* account, its roles and its session change at the authorities.  Calls    *)
(* share nothing, so one after the other stands for all of them.  Blank    *)
(* and oversized tokens, answered before any arm starts, are left out.     *)
(***************************************************************************)
EXTENDS Naturals, FiniteSets

CONSTANTS
  Role,      \* roles at Shared Auth
  Required,  \* config.required_roles
  MaxWorlds  \* bound: states of the authorities that one call lives through

ASSUME RoleAssumption == Required \in SUBSET Role /\ Required # {}

Mode == {"authenticate", "authenticate_shared", "authorize"}

\* What Shared Auth knows the owner of the credential as: nobody, a user of this
\* project, another user of it, one of another project, or the user of this project with
\* an identity that is not valid (an identifier, the email, assurance or a list).
Account == {"none", "here", "other", "elsewhere", "unsound"}

\* What the provider says of the credential; what it accepts may have an identifier or
\* email that the guard does not.
Provider == {"refuses", "accepts", "unusable"}

\* The roles of nobody and of an account elsewhere are left out.
World == {w \in [provider : Provider, account : Account, roles : SUBSET Role] :
            w.account \in {"none", "elsewhere"} => w.roles = {}}

VARIABLES
  world,    \* what the authorities hold
  session,  \* the session minted for this call, at Shared Auth
  mode,     \* the entry point
  shared,   \* the Shared Auth arm: where it is, or how it ended
  minted,   \* the account and the roles in the answer of the exchange
  reply,    \* the answer on its way to the Shared Auth arm
  direct,   \* the direct arm
  told,     \* the answer on its way to the direct arm
  outcome,  \* the decision, or why there is none yet
  by,       \* the authority of the identity, and so whether there is an upgrade
  seen      \* every world since the call began (history)

raceVars == <<world, session, mode, shared, minted, reply, direct, told, outcome, by, seen>>

Failure  == {"Invalid", "Unavailable", "Forbidden"}
Done     == Failure \cup {"ok"}
Decision == {"Authenticated", "Unauthenticated", "Forbidden", "Degraded"}

NoReply == [status |-> "none", active |-> FALSE, account |-> "none", roles |-> {}]
Reply   == [status : {"none", "ok", "refused"}, active : BOOLEAN,
            account : Account, roles : SUBSET Role]

Minted  == [account : Account, roles : SUBSET Role]
NoMinted == [account |-> "none", roles |-> {}]

RaceTypeOK ==
  /\ world \in World /\ seen \in SUBSET World
  /\ session \in {"none", "live", "ended"} /\ mode \in Mode
  /\ shared \in {"off", "exchange", "introspect"} \cup Done
  /\ direct \in {"off", "ask"} \cup Done
  /\ minted \in Minted /\ reply \in Reply
  /\ told \in {"none"} \cup Provider
  /\ outcome \in {"idle", "racing"} \cup Decision
  /\ by \in {"none", "SharedAuth", "Supabase"}

RaceInit ==
  /\ world \in World /\ seen = {} /\ session = "none" /\ mode \in Mode
  /\ shared = "off" /\ minted = NoMinted /\ reply = NoReply
  /\ direct = "off" /\ told = "none"
  /\ outcome = "idle" /\ by = "none"

-----------------------------------------------------------------------------

\* Mutant: one invalid answer is enough.
AuthenticateOutcomeHasty(sh, di) ==
  IF sh = "ok" \/ di = "ok" THEN "Authenticated"
  ELSE IF sh = "Invalid" \/ di = "Invalid" THEN "Unauthenticated"
  ELSE IF sh \in Failure /\ di \in Failure THEN "Degraded" ELSE "racing"

\* race_authentication, with failures_to_outcome.
AuthenticateOutcome(sh, di) ==
  CASE sh = "ok" \/ di = "ok"             -> "Authenticated"
    [] sh \notin Failure \/ di \notin Failure -> "racing"
    [] sh = "Invalid" /\ di = "Invalid"   -> "Unauthenticated"
    [] OTHER                              -> "Degraded"

\* authenticate_shared.
SharedOutcome(sh) ==
  CASE sh = "ok"          -> "Authenticated"
    [] sh = "Invalid"     -> "Unauthenticated"
    [] sh = "Forbidden"   -> "Forbidden"
    [] sh = "Unavailable" -> "Degraded"
    [] OTHER              -> "racing"

\* Mutant: a token that the provider accepts is authorized.
AuthorizeOutcomeByProvider(sh, di) ==
  IF sh = "ok" \/ di = "ok" THEN "Authenticated"
  ELSE IF sh \in Failure /\ di \in Failure THEN "Degraded" ELSE "racing"

\* Mutant: a valid direct arm is not counted as done.
AuthorizeOutcomeWaits(sh, di) ==
  IF sh = "ok" THEN "Authenticated"
  ELSE IF sh \notin Failure \/ di \notin Failure THEN "racing" ELSE "Degraded"

\* race_authorization: the direct arm only tells an invalid credential from an outage.
AuthorizeOutcome(sh, di) ==
  CASE sh = "ok"                          -> "Authenticated"
    [] sh = "Forbidden"                   -> "Forbidden"
    [] sh \notin Failure \/ di \notin Done -> "racing"
    [] sh = "Invalid" /\ di = "Invalid"   -> "Unauthenticated"
    [] OTHER                              -> "Degraded"

OutcomeOf(sh, di) ==
  CASE mode = "authenticate"        -> AuthenticateOutcome(sh, di)
    [] mode = "authenticate_shared" -> SharedOutcome(sh)
    [] mode = "authorize"           -> AuthorizeOutcome(sh, di)

\* An arm ends: the loop around select! decides or goes on.
Decide(sh, di) ==
  /\ shared' = sh /\ direct' = di
  /\ outcome' = OutcomeOf(sh, di)
  /\ by' = IF OutcomeOf(sh, di) # "Authenticated" THEN "none"
           ELSE IF sh = "ok" THEN "SharedAuth" ELSE "Supabase"

BeginCall(m) ==
  /\ outcome = "idle"
  /\ mode' = m
  /\ shared' = "exchange"
  /\ direct' = IF m = "authenticate_shared" THEN "off" ELSE "ask"
  /\ outcome' = "racing" /\ seen' = {world}
  /\ UNCHANGED <<world, session, minted, reply, told, by>>

\* The account that the subject and the project of an answer name.
Named(account) == IF account = "unsound" THEN "here" ELSE account

\* POST /auth/exchange at Shared Auth: a session is minted for a known account.
ServeExchange ==
  /\ shared = "exchange" /\ reply = NoReply /\ outcome = "racing"
  /\ IF world.account = "none"
     THEN /\ reply' = [NoReply EXCEPT !.status = "refused"]
          /\ UNCHANGED session
     ELSE /\ reply' = [status |-> "ok", active |-> TRUE,
                       account |-> Named(world.account), roles |-> world.roles]
          /\ session' = "live"
  /\ UNCHANGED <<world, mode, shared, minted, direct, told, outcome, by, seen>>

\* exchange, its first answer.
Exchanged ==
  /\ outcome = "racing" /\ shared = "exchange" /\ reply # NoReply
  /\ IF reply.status = "refused"
     THEN Decide("Invalid", direct) /\ UNCHANGED minted
     ELSE /\ shared' = "introspect"
          /\ minted' = [account |-> reply.account, roles |-> reply.roles]
          /\ UNCHANGED <<direct, outcome, by>>
  /\ reply' = NoReply
  /\ UNCHANGED <<world, session, mode, told, seen>>

\* POST /auth/introspect at Shared Auth: the session and its roles as they are now.
ServeIntrospect ==
  /\ shared = "introspect" /\ reply = NoReply /\ outcome = "racing"
  /\ reply' = [status |-> "ok", active |-> session = "live",
               account |-> world.account, roles |-> world.roles]
  /\ UNCHANGED <<world, session, mode, shared, minted, direct, told, outcome, by, seen>>

\* The two answers are of the same account with the same roles.
SameAnswers ==
  Named(reply.account) = minted.account /\ reply.roles = minted.roles

\* Mutant: the project of the account is not checked.
CoherentAnywhere == reply.active /\ SameAnswers

\* coherent_exchange.
Coherent == reply.active /\ SameAnswers /\ Named(reply.account) \in {"here", "other"}

\* validate_shared_identity.
Sound == reply.account # "unsound"

HasRequiredRole == reply.roles \cap Required # {}

\* Mutant: every entry point requires the role.
IntrospectedWithRole ==
  /\ outcome = "racing" /\ shared = "introspect" /\ reply # NoReply
  /\ Decide(IF ~(Coherent /\ Sound) THEN "Invalid" ELSE IF HasRequiredRole THEN "ok" ELSE "Forbidden",
            direct)
  /\ reply' = NoReply /\ minted' = NoMinted
  /\ UNCHANGED <<world, session, mode, told, seen>>

\* exchange, its second answer.
Introspected ==
  /\ outcome = "racing" /\ shared = "introspect" /\ reply # NoReply
  /\ Decide(IF ~(Coherent /\ Sound) THEN "Invalid"
            ELSE IF mode = "authorize" /\ ~HasRequiredRole THEN "Forbidden" ELSE "ok",
            direct)
  /\ reply' = NoReply /\ minted' = NoMinted
  /\ UNCHANGED <<world, session, mode, told, seen>>

\* A transport error, an error status, a body that does not parse, or arm_timeout.
SharedFails ==
  /\ outcome = "racing" /\ shared \in {"exchange", "introspect"}
  /\ Decide("Unavailable", direct)
  /\ reply' = NoReply /\ minted' = NoMinted
  /\ UNCHANGED <<world, session, mode, told, seen>>

\* GET /auth/v1/user at the provider.
ServeUser ==
  /\ direct = "ask" /\ told = "none" /\ outcome = "racing"
  /\ told' = world.provider
  /\ UNCHANGED <<world, session, mode, shared, minted, reply, direct, outcome, by, seen>>

\* verify_direct: refused, or accepted with an identity that is not valid.
Verified ==
  /\ outcome = "racing" /\ direct = "ask" /\ told # "none"
  /\ Decide(shared, IF told = "accepts" THEN "ok" ELSE "Invalid")
  /\ told' = "none"
  /\ UNCHANGED <<world, session, mode, minted, reply, seen>>

DirectFails ==
  /\ outcome = "racing" /\ direct = "ask"
  /\ Decide(shared, "Unavailable")
  /\ told' = "none"
  /\ UNCHANGED <<world, session, mode, minted, reply, seen>>

\* race_deadline.
DeadlineExceeded ==
  /\ outcome = "racing"
  /\ outcome' = "Degraded"
  /\ UNCHANGED <<world, session, mode, shared, minted, reply, direct, told, by, seen>>

\* The caller takes the decision, or drops the call.  What its arms left on the way, and
\* a session that nobody was given, is not looked at again.
Return ==
  /\ outcome # "idle"
  /\ outcome' = "idle" /\ by' = "none" /\ seen' = {} /\ session' = "none"
  /\ shared' = "off" /\ direct' = "off" /\ minted' = NoMinted /\ reply' = NoReply /\ told' = "none"
  /\ UNCHANGED <<world, mode>>

\* An administrator, the user or the provider changes something.
WorldChanges ==
  /\ Cardinality(seen) < MaxWorlds
  /\ world' \in World
  /\ seen' = IF outcome = "racing" THEN seen \cup {world'} ELSE seen
  /\ UNCHANGED <<session, mode, shared, minted, reply, direct, told, outcome, by>>

SessionEnds ==
  /\ session = "live"
  /\ session' = "ended"
  /\ UNCHANGED <<world, mode, shared, minted, reply, direct, told, outcome, by, seen>>

RaceNext ==
  \/ \E m \in Mode : BeginCall(m)
  \/ ServeExchange \/ Exchanged \/ ServeIntrospect \/ Introspected \/ SharedFails
  \/ ServeUser \/ Verified \/ DirectFails
  \/ DeadlineExceeded \/ Return \/ WorldChanges \/ SessionEnds

RaceSpec == RaceInit /\ [][RaceNext]_raceVars

\* The runtime polls a ready future and arm_timeout ends an arm that gets no answer;
\* the deadline is not needed.
FairRaceSpec ==
  /\ RaceSpec
  /\ WF_raceVars(Exchanged \/ Introspected \/ SharedFails)
  /\ WF_raceVars(Verified \/ DirectFails)

-----------------------------------------------------------------------------
(* Properties.                                                             *)

\* Shared Auth knows the owner in this project, with an identity that is valid.
Known(w) == w.account \in {"here", "other"}

\* Privilege is held: authorize succeeds only for an account that Shared Auth knew in
\* this project with a required role, at one moment of the call.
PrivilegeIsHeld ==
  outcome = "Authenticated" /\ mode = "authorize" =>
    /\ by = "SharedAuth"
    /\ \E w \in seen : Known(w) /\ w.roles \cap Required # {}

\* The authority of an identity did vouch for it during the call, and the provider is
\* that authority for authenticate only.
IdentityIsProven ==
  outcome = "Authenticated" =>
    CASE by = "SharedAuth" -> \E w \in seen : Known(w)
      [] by = "Supabase"   -> mode = "authenticate" /\ \E w \in seen : w.provider = "accepts"
      [] OTHER             -> FALSE

\* Something about Shared Auth justifies that its arm ended as invalid: at a moment it
\* did not know a valid account here, the session ended, or the account or its roles
\* changed between the two answers.
SharedRefusal ==
  \/ session = "ended"
  \/ \E w \in seen : ~Known(w)
  \/ \E v, w \in seen : v.account # w.account \/ v.roles # w.roles

\* A caller is told Unauthenticated only if both authorities it may rely on had a reason
\* to refuse: an account that both know, valid and unchanged, is never refused, and an
\* outage, a timeout or a lost answer of either never looks like a refusal.
RefusalIsTrue ==
  outcome = "Unauthenticated" =>
    /\ SharedRefusal
    /\ mode # "authenticate_shared" => \E w \in seen : w.provider # "accepts"

\* A caller is told Forbidden only by authorize, for an account known here that lacked
\* every required role at a moment of the call.
DenialIsTrue ==
  outcome = "Forbidden" =>
    /\ mode = "authorize"
    /\ \E w \in seen : Known(w) /\ w.roles \cap Required = {}

\* Every call is decided even without the deadline: the loop ends when both arms have.
CallsDecided == outcome = "racing" ~> outcome # "racing"

-----------------------------------------------------------------------------
(* The inductive invariant.                                                *)

\* What is on the way to an arm was true at a moment of the call.
RepliesWereTrue ==
  /\ outcome = "racing" => world \in seen
  /\ reply.status = "none" => reply = NoReply
  /\ shared = "exchange" /\ reply.status = "refused" =>
       \E w \in seen : ~Known(w)
  /\ shared = "exchange" /\ reply.status = "ok" =>
       session # "none" /\ \E w \in seen : reply.account = Named(w.account)
                                           /\ reply.roles = w.roles
  /\ shared = "introspect" =>
       session # "none" /\ \E w \in seen : minted.account = Named(w.account)
                                           /\ minted.roles = w.roles
  /\ shared = "introspect" /\ reply # NoReply =>
       /\ ~reply.active => session = "ended"
       /\ \E w \in seen : reply.account = w.account /\ reply.roles = w.roles
  /\ told # "none" => \E w \in seen : w.provider = told

\* So was what an arm ended with.
ArmsWereTrue ==
  /\ shared = "Invalid" => SharedRefusal
  /\ shared = "Forbidden" =>
       mode = "authorize" /\ \E w \in seen : Known(w) /\ w.roles \cap Required = {}
  /\ shared = "ok" =>
       \E w \in seen : Known(w)
                       /\ (mode = "authorize" => w.roles \cap Required # {})
  /\ direct = "ok" => \E w \in seen : w.provider = "accepts"
  /\ direct = "Invalid" => \E w \in seen : w.provider # "accepts"

\* A decision other than the deadline's is that of the two arms.
OutcomeFollows ==
  /\ outcome \in Decision \ {"Degraded"} => outcome = OutcomeOf(shared, direct)
  /\ outcome = "Authenticated" =>
       by = (IF shared = "ok" THEN "SharedAuth" ELSE "Supabase")
  /\ mode = "authenticate_shared" /\ outcome # "idle" => direct = "off"

\* Nothing of a call is left when it is over.
IdleIsClean ==
  outcome = "idle" =>
    /\ shared = "off" /\ direct = "off" /\ reply = NoReply /\ told = "none"
    /\ session = "none" /\ seen = {} /\ by = "none"

RaceInv == RaceTypeOK /\ IdleIsClean /\ RepliesWereTrue /\ ArmsWereTrue /\ OutcomeFollows
=============================================================================
