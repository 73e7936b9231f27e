---------------------------- MODULE GovContinuity ----------------------------
(***************************************************************************)
(* A company goes through the continuity states: time passes, participants *)
(* are suspended and reinstated, transitions of both models take effect on *)
(* the one state and generation, and actions are authorized in one step    *)
(* and executed in a later one.  A request is any that may have been filed *)
(* by now: nothing in the code says when, by whom or in which state one    *)
(* may be filed or when it expires, and any active participant can be its  *)
(* requester.                                                              *)
(***************************************************************************)
EXTENDS GovRules, Sequences

CONSTANTS
  Lacks,         \* the papers that requests may be short of
  ActedOn,       \* classes of the actions that are proposed
  MaxTime        \* bound: the clock

ASSUME ActedOnAssumption == ActedOn \subseteq Classes

VARIABLES
  now,         \* the clock
  status,      \* the status of each participant
  trail,       \* the continuity states so far, one for each generation
  taken,       \* who made the transition that left "normal" (history)
  subject,     \* whom that transition was about, if anybody (history)
  opened,      \* when the first request of all that took effect was filed (history)
  declarers,   \* the founders who approved a declaration of death (history)
  granted,     \* an authorization that has not been executed yet
  done         \* the action that was executed in the last step (history)

process == <<trail, taken, subject, opened, declarers>>
vars    == <<now, status, process, granted, done>>

generation == Len(trail)
state      == trail[generation]

Grant    == [class : Classes, people : SUBSET Participant, generation : Nat]
NoGrant  == [class |-> "none", people |-> {}, generation |-> 0]
Deed     == [class : Classes, people : SUBSET Participant, state : States]
NoDeed   == [class |-> "none", people |-> {}, state |-> "normal"]

TypeOK ==
  /\ now \in Nat /\ status \in [Participant -> Status]
  /\ trail \in Seq(States) /\ trail # <<>>
  /\ taken \subseteq Participant /\ subject \in Participant
  /\ opened \in Nat /\ declarers \subseteq Participant
  /\ granted \in Grant \cup {NoGrant}
  /\ done \in Deed \cup {NoDeed}

Init ==
  /\ now = 0 /\ status = [p \in Participant |-> "active"]
  /\ trail = <<"normal">> /\ taken = {} /\ subject = FounderA
  /\ opened = 0 /\ declarers = {}
  /\ granted = NoGrant /\ done = NoDeed

-----------------------------------------------------------------------------

Tick ==
  /\ now < MaxTime
  /\ now' = now + 1 /\ done' = NoDeed
  /\ UNCHANGED <<status, process, granted>>

\* The registry suspends, revokes or reinstates a participant.
SetStatus(p, s) ==
  /\ s # status[p]
  /\ status' = [status EXCEPT ![p] = s] /\ done' = NoDeed
  /\ UNCHANGED <<now, process, granted>>

\* Mutant: a transition of either model leaves the generation as it is.
StoredInPlace(to) == [trail EXCEPT ![generation] = to]

\* The state and the generation that a transition returns, as they are stored.
Stored(to) == Append(trail, to)

\* applyTransition and applyDeathTransition, stored: a request of the current generation
\* that is complete, has its quorum, is about a fitting subject, has waited long enough and
\* has not expired.
Apply(rule, expected, lacking, filed, closes) ==
  /\ expected = generation /\ lacking \notin rule.papers
  /\ InTime(filed, closes, now, rule.delay)
  /\ \E approvers \in SUBSET Participant :
       LET people == Counted(rule, approvers, status) IN
       /\ Quorum(rule, people)
       /\ \E about \in Participant :
            /\ SubjectFits(rule, about, people)
            /\ subject' = IF state = "normal" /\ SubjectRule(rule) # "any" THEN about ELSE subject
       /\ taken' = IF state = "normal" THEN people ELSE taken
       /\ declarers' = IF rule.to \in DeathStates
                       THEN declarers \cup {p \in people : "founder" \in RolesOf[p]}
                       ELSE declarers
  /\ trail' = Stored(rule.to)
  /\ opened' = IF state = "normal" \/ filed < opened THEN filed ELSE opened
  /\ done' = NoDeed
  /\ UNCHANGED <<now, status, granted>>

\* authorizeAction or authorizeDeathStateAction, whichever the caller asks.
MayAct(at, class, people, st, context) ==
  \/ AuthorizeAction(at, class, people, st, context)
  \/ AuthorizeDeathStateAction(at, class, people, st, context)

\* A quorum authorizes an action: the authorization carries the generation.
Authorize(class, people, context) ==
  /\ granted = NoGrant
  /\ MayAct(state, class, people, status, context)
  /\ granted' = [class |-> class, people |-> Authorized(people, status),
                 generation |-> generation]
  /\ done' = NoDeed
  /\ UNCHANGED <<now, status, process>>

\* authorizationMatchesProposal: the authorization is of the current generation.
Current(grant) == grant # NoGrant /\ grant.generation = generation

\* executeProtectedAction with an authorization that was given earlier.
Execute ==
  /\ Current(granted)
  /\ done' = [class |-> granted.class, people |-> granted.people, state |-> state]
  /\ granted' = NoGrant
  /\ UNCHANGED <<now, status, process>>

Next ==
  \/ Tick
  \/ \E p \in Participant, s \in Status : SetStatus(p, s)
  \/ \E rule \in {r \in TransitionRules \cup DeathTransitions : r.from = state},
        expected \in 1..generation, lacking \in Lacks,
        filed \in 0..now, closes \in {now, now + 1} :
       Apply(rule, expected, lacking, filed, closes)
  \/ \E class \in ActedOn, who \in SUBSET Participant, context \in {{}, Flags} :
       Authorize(class, who, context)
  \/ Execute

Spec == Init /\ [][Next]_vars

-----------------------------------------------------------------------------
(* Properties.                                                             *)

\* Nobody takes the company out of its normal state alone, except a founder who leaves
\* it, even where one person has several roles.
TakeoverNeedsTwo ==
  state # "normal" =>
    /\ HasRole(taken, "founder")
    /\ IF trail[2] = "voluntary_exit" THEN subject \in taken ELSE Cardinality(taken) >= 2

\* A founder's authority does not pass to others faster than the longest window on the way:
\* somebody could object for that long since the first request was filed.
PassageTakesTime ==
  \A i \in DOMAIN trail :
    CASE trail[i] = "confirmed_long_term_incapacity" -> opened + Days30 <= now
      [] trail[i] = "death_confirmed"                -> opened + Days7 <= now
      [] trail[i] = "nonparticipation"               -> opened + Days45 <= now
      [] OTHER                                       -> TRUE

\* An action is executed only in a state in which the people behind it could have
\* authorized it, though the state may change between the two steps.
ActionsFitState ==
  done # NoDeed =>
    MayAct(done.state, done.class, done.people, [p \in Participant |-> "active"], Flags)

\* The groups that can move the company on by a rule.
Groups(rule) == {people \in SUBSET Participant : Quorum(rule, people)}

\* The states that rivals can only leave together.  A founder who leaves needs nobody.
MeetingStates ==
  LET WaysOn(from) == {rule \in TransitionRules \cup DeathTransitions :
                         rule.from = from /\ rule.to # "voluntary_exit"}
  IN {from \in States : \A r1, r2 \in WaysOn(from) : r1.to # r2.to =>
        \A g1 \in Groups(r1), g2 \in Groups(r2) : g1 \cap g2 # {}}

\* The registry of the code: two founders and one guardian.
CoreRegistry ==
  /\ \A p \in Participant : "founder" \in RolesOf[p] <=> p \in {FounderA, FounderB}
  /\ \A p, q \in Participant : "guardian" \in RolesOf[p] \cap RolesOf[q] => p = q

\* Two groups that could each move the company on from here, to different states, have a
\* member in common, unless one of them is a founder who leaves.
RivalQuorumsMeet == state \in MeetingStates

\* While a founder, a guardian and an estate representative are active, some way leads out
\* of every state but the last one and a deadlock, which both founders have to end.
SurvivorsCanLeave ==
  LET active == Authorized(Participant, status) IN
  /\ HasAllRoles(active, FounderGuardianEstate) /\ Cardinality(active) >= 3
  /\ state \notin {"restored", "active_deadlock"}
  => \E rule \in TransitionRules \cup DeathTransitions, about \in Participant,
        people \in SUBSET active :
       /\ rule.from = state /\ "founder" \in RolesOf[about]
       /\ Quorum(rule, people) /\ SubjectFits(rule, about, people)

\* Tested, for one request: a founder does not approve the declaration of their own death.
SubjectNeverDeclares ==
  Len(trail) > 1 /\ trail[2] = "death_claim_pending" => subject \notin declarers

-----------------------------------------------------------------------------
(* The inductive invariant.                                                *)

\* The company starts in its normal state and never comes back to it.
NormalIsFirst == \A i \in DOMAIN trail : trail[i] = "normal" <=> i = 1

\* An authorization of the current generation is one that the state allows.
GrantFits ==
  granted # NoGrant =>
    /\ granted.generation <= generation
    /\ granted.generation = generation =>
         MayAct(state, granted.class, granted.people, [p \in Participant |-> "active"], Flags)

IInv ==
  /\ TypeOK /\ NormalIsFirst /\ opened <= now /\ GrantFits
  /\ TakeoverNeedsTwo /\ PassageTakesTime /\ ActionsFitState
=============================================================================
