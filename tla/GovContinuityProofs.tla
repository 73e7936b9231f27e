------------------------- MODULE GovContinuityProofs -------------------------
(* The invariants of GovContinuity for any registry - whoever holds which, *)
(* and how many, roles - any delays and any number of transitions.         *)
EXTENDS GovContinuity, SequenceTheorems, FiniteSetTheorems, TLAPS

Rules     == TransitionRules \cup DeathTransitions
AllActive == [p \in Participant |-> "active"]

-----------------------------------------------------------------------------
(* The rule tables.                                                        *)

\* Delays are natural numbers, in order.
LEMMA Delays ==
  /\ Hours72 \in Nat /\ Days7 \in Nat /\ Days30 \in Nat /\ Days45 \in Nat
  BY DelayAssumption

\* A rule of the state model leads to a state and never back to normal.
LEMMA TransitionRuleType ==
  ASSUME NEW rule \in TransitionRules
  PROVE  /\ rule.to \in States \ {"normal"} /\ rule.delay \in Nat
         /\ rule.to \notin DeathStates
         /\ rule.to = "confirmed_long_term_incapacity" => rule.delay = Days30
         /\ rule.to = "nonparticipation" => rule.delay = Days45
  BY Delays DEF TransitionRules, Rule, States, DeathStates

\* So does a rule of the death model.
LEMMA DeathRuleType ==
  ASSUME NEW rule \in DeathTransitions
  PROVE  /\ rule.to \in States \ {"normal"} /\ rule.delay \in Nat
         /\ rule.to \notin {"confirmed_long_term_incapacity", "nonparticipation", "voluntary_exit"}
         /\ rule.to = "death_confirmed" => rule.delay = Days7
  BY Delays DEF DeathTransitions, Rule, States, DeathStates

\* A rule that leaves normal needs a founder, and two people unless a founder leaves.
LEMMA LeavingNormal ==
  ASSUME NEW rule \in Rules, rule.from = "normal"
  PROVE  /\ "founder" \in rule.roles
         /\ rule.to # "voluntary_exit" => rule.approvals = 2
         /\ rule.to = "voluntary_exit" => SubjectRule(rule) = "approves"
<1>1. CASE rule \in TransitionRules
  <2>1. /\ "founder" \in rule.roles
        /\ rule.to # "voluntary_exit" => rule.approvals = 2
    BY <1>1 DEF TransitionRules, Rule, FounderGuardian
  <2>2. rule.to = "voluntary_exit" => rule \notin DeathTransitions
    BY DeathRuleType
  <2> QED
    BY <2>1, <2>2 DEF SubjectRule
<1>2. CASE rule \in DeathTransitions
  BY <1>2, DeathRuleType DEF DeathTransitions, Rule, FounderGuardian
<1> QED
  BY <1>1, <1>2 DEF Rules

-----------------------------------------------------------------------------
(* Authorizations.                                                         *)

\* Each decision grows with the flags of the context.
LEMMA MoreFlags ==
  ASSUME NEW class, NEW people, NEW roles, NEW context
  PROVE  /\ BoundedRoutine(class, people, context, roles)
              => BoundedRoutine(class, people, Flags, roles)
         /\ DefensiveEmergency(class, people, context)
              => DefensiveEmergency(class, people, Flags)
         /\ ContinuityAuthorization(class, people, context)
              => ContinuityAuthorization(class, people, Flags)
         /\ ConfirmedIncapacityAuthorization(class, people, context)
              => ConfirmedIncapacityAuthorization(class, people, Flags)
         /\ DeadlockAuthorization(class, people, context)
              => DeadlockAuthorization(class, people, Flags)
         /\ SuccessionAuthorization(class, people, context, roles)
              => SuccessionAuthorization(class, people, Flags, roles)
<1>1. /\ BoundedRoutine(class, people, context, roles)
           => BoundedRoutine(class, people, Flags, roles)
      /\ BoundedRoutine(class, people, context, {"founder", "operator"})
           => BoundedRoutine(class, people, Flags, {"founder", "operator"})
      /\ DefensiveEmergency(class, people, context)
           => DefensiveEmergency(class, people, Flags)
  BY DEF BoundedRoutine, DefensiveEmergency, Flags
<1>2. {"bounded", "equivalent_access_only"} \subseteq Flags
      /\ "equivalent_access_only" \in Flags /\ "preapproved" \in Flags
      /\ "legal_authority_attested" \in Flags
  BY DEF Flags
<1> QED
  BY <1>1, <1>2 DEF ContinuityAuthorization, ConfirmedIncapacityAuthorization,
                    DeadlockAuthorization, SuccessionAuthorization

\* Whoever counts now counts while everybody is active.
LEMMA ActiveOnes ==
  ASSUME NEW people \in SUBSET Participant, NEW st
  PROVE  /\ Authorized(people, st) \in SUBSET Participant
         /\ Authorized(Authorized(people, st), AllActive) = Authorized(people, st)
         /\ (\A p \in people : st[p] = "active") => Authorized(people, st) = people
         /\ \A p \in Authorized(people, st) : AllActive[p] = "active"
  BY DEF Authorized, AllActive

\* What a group may do, its active members may do with every flag.
LEMMA ActiveMembersMayAct ==
  ASSUME NEW at, NEW class, NEW people \in SUBSET Participant, NEW st, NEW context,
         MayAct(at, class, people, st, context)
  PROVE  MayAct(at, class, Authorized(people, st), AllActive, Flags)
<1> DEFINE active == Authorized(people, st)
<1>1. CASE AuthorizeAction(at, class, people, st, context)
  <2>1. AuthorizeAction(at, class, active, AllActive, Flags)
    BY <1>1, ActiveOnes, MoreFlags DEF AuthorizeAction
  <2> QED
    BY <2>1 DEF MayAct
<1>2. CASE AuthorizeDeathStateAction(at, class, people, st, context)
  <2>1. active = people
    BY <1>2, ActiveOnes DEF AuthorizeDeathStateAction
  <2>2. /\ BoundedRoutine(class, people, context, {"founder"})
             => BoundedRoutine(class, people, Flags, {"founder"})
        /\ DefensiveEmergency(class, people, context)
             => DefensiveEmergency(class, people, Flags)
        /\ SuccessionAuthorization(class, people, context, {"estate_representative"})
             => SuccessionAuthorization(class, people, Flags, {"estate_representative"})
    BY MoreFlags
  <2>3. "preapproved" \in Flags
    BY DEF Flags
  <2>4. AuthorizeDeathStateAction(at, class, people, AllActive, Flags)
    BY <1>2, <2>1, <2>2, <2>3, ActiveOnes DEF AuthorizeDeathStateAction
  <2> QED
    BY <2>1, <2>4 DEF MayAct
<1> QED
  BY <1>1, <1>2 DEF MayAct

-----------------------------------------------------------------------------
(* The initial state, and the steps that change no continuity state.       *)

\* At first there is one state, and nothing is authorized or executed.
LEMMA InitInvariant == Init => IInv
<1> SUFFICES ASSUME Init PROVE IInv
  OBVIOUS
<1>1. /\ trail = <<"normal">> /\ trail \in Seq(States) /\ trail # <<>>
      /\ Len(trail) = 1 /\ DOMAIN trail = {1} /\ trail[1] = "normal" /\ state = "normal"
  BY DEF Init, States, state, generation
<1>2. TypeOK
  BY <1>1, DelayAssumption, RegistryAssumption DEF Init, TypeOK, Status
<1>3. NormalIsFirst /\ PassageTakesTime
  BY <1>1 DEF NormalIsFirst, PassageTakesTime
<1>4. GrantFits /\ ActionsFitState /\ TakeoverNeedsTwo /\ opened <= now
  BY <1>1 DEF Init, GrantFits, ActionsFitState, TakeoverNeedsTwo
<1> QED
  BY <1>2, <1>3, <1>4 DEF IInv

\* Time alone takes nothing back that the company's process has established.
LEMMA ProcessStays ==
  ASSUME IInv, UNCHANGED process, now' \in Nat, now <= now'
  PROVE  /\ NormalIsFirst' /\ (opened <= now)' /\ TakeoverNeedsTwo' /\ PassageTakesTime'
         /\ UNCHANGED <<generation, state>>
<1>1. now \in Nat /\ opened \in Nat /\ opened <= now
  BY DEF IInv, TypeOK
<1>2. UNCHANGED <<trail, taken, subject, opened, declarers, generation, state>>
  BY DEF process, generation, state
<1>3. NormalIsFirst' /\ TakeoverNeedsTwo'
  BY <1>2 DEF IInv, NormalIsFirst, TakeoverNeedsTwo
<1>4. PassageTakesTime'
  BY <1>1, <1>2, Delays DEF IInv, PassageTakesTime
<1> QED
  BY <1>1, <1>2, <1>3, <1>4

\* The clock moves on.
LEMMA TickStep == IInv /\ Tick => IInv'
<1> SUFFICES ASSUME IInv, Tick PROVE IInv'
  OBVIOUS
<1>1. now' \in Nat /\ now <= now' /\ UNCHANGED process
  BY DEF IInv, TypeOK, Tick
<1>2. TypeOK'
  BY <1>1 DEF IInv, TypeOK, Tick, process
<1>3. GrantFits'
  BY <1>1, ProcessStays DEF IInv, GrantFits, Tick
<1>4. ActionsFitState'
  BY DEF Tick, ActionsFitState
<1> QED
  BY <1>1, <1>2, <1>3, <1>4, ProcessStays DEF IInv

\* Somebody is suspended or reinstated: what they did stays done.
LEMMA SetStatusStep ==
  ASSUME IInv, NEW p \in Participant, NEW s \in Status, SetStatus(p, s)
  PROVE  IInv'
<1>1. now' \in Nat /\ now <= now' /\ UNCHANGED process
  BY DEF IInv, TypeOK, SetStatus
<1>2. TypeOK'
  BY <1>1 DEF IInv, TypeOK, SetStatus, process
<1>3. GrantFits'
  BY <1>1, ProcessStays DEF IInv, GrantFits, SetStatus
<1>4. ActionsFitState'
  BY DEF SetStatus, ActionsFitState
<1> QED
  BY <1>1, <1>2, <1>3, <1>4, ProcessStays DEF IInv

\* A grant names the active members of the group, who could have asked alone.
LEMMA AuthorizeStep ==
  ASSUME IInv, NEW class \in Classes, NEW people \in SUBSET Participant, NEW context,
         Authorize(class, people, context)
  PROVE  IInv'
<1>1. now' \in Nat /\ now <= now' /\ UNCHANGED process
  BY DEF IInv, TypeOK, Authorize
<1>2. generation \in Nat
  BY DEF IInv, TypeOK, generation
<1>3. granted' = [class |-> class, people |-> Authorized(people, status),
                  generation |-> generation] /\ granted' \in Grant
  BY <1>2, ActiveOnes DEF Authorize, Grant
<1>4. TypeOK'
  BY <1>1, <1>3 DEF IInv, TypeOK, Authorize, process
<1>5. MayAct(state, class, Authorized(people, status), AllActive, Flags)
  BY ActiveMembersMayAct DEF Authorize
<1>6. GrantFits'
  BY <1>1, <1>2, <1>3, <1>5, ProcessStays DEF GrantFits, AllActive
<1>7. ActionsFitState'
  BY DEF Authorize, ActionsFitState
<1> QED
  BY <1>1, <1>4, <1>6, <1>7, ProcessStays DEF IInv

\* Only a grant of the current generation is executed, and that one fits the state.
LEMMA ExecuteStep == IInv /\ Execute => IInv'
<1> SUFFICES ASSUME IInv, Execute PROVE IInv'
  OBVIOUS
<1>1. now' \in Nat /\ now <= now' /\ UNCHANGED process
  BY DEF IInv, TypeOK, Execute
<1>2. granted \in Grant /\ granted.generation = generation /\ granted # NoGrant
  BY DEF IInv, TypeOK, Execute, Current
<1>3. state \in States
  BY ElementOfSeq, EmptySeq DEF IInv, TypeOK, state, generation
<1>4. done' = [class |-> granted.class, people |-> granted.people, state |-> state]
      /\ done' \in Deed
  BY <1>2, <1>3 DEF Execute, Deed, Grant
<1>5. TypeOK'
  BY <1>1, <1>4 DEF IInv, TypeOK, Execute, process
<1>6. GrantFits'
  BY DEF Execute, GrantFits
<1>7. MayAct(state, granted.class, granted.people, AllActive, Flags)
  BY <1>2 DEF IInv, GrantFits, AllActive
<1>8. ActionsFitState'
  BY <1>4, <1>7 DEF ActionsFitState, AllActive
<1> QED
  BY <1>1, <1>5, <1>6, <1>8, ProcessStays DEF IInv

-----------------------------------------------------------------------------
(* A transition.                                                           *)

\* The trail grows by one state, which is not the normal one.
LEMMA TrailGrows ==
  ASSUME IInv, NEW rule \in Rules, trail' = Stored(rule.to)
  PROVE  /\ trail' \in Seq(States) /\ trail' # <<>>
         /\ generation \in Nat \ {0} /\ generation' = generation + 1
         /\ DOMAIN trail = 1..generation /\ DOMAIN trail' = 1..generation + 1
         /\ \A i \in 1..generation : trail'[i] = trail[i]
         /\ trail'[generation + 1] = rule.to /\ state' = rule.to
         /\ rule.to \in States \ {"normal"}
<1>1. rule.to \in States \ {"normal"}
  BY TransitionRuleType, DeathRuleType DEF Rules
<1>2. trail \in Seq(States) /\ trail # <<>>
  BY DEF IInv, TypeOK
<1> QED
  BY <1>1, <1>2, AppendProperties DEF Stored, generation, state

\* A transition that takes effect keeps the invariant.
LEMMA ApplyStep ==
  ASSUME IInv, NEW rule \in Rules, rule.from = state, NEW expected, NEW lacking,
         NEW filed \in 0..now, NEW closes \in {now, now + 1},
         Apply(rule, expected, lacking, filed, closes)
  PROVE  IInv'
<1>1. PICK approvers \in SUBSET Participant :
        LET people == Counted(rule, approvers, status) IN
        /\ Quorum(rule, people)
        /\ \E about \in Participant :
             /\ SubjectFits(rule, about, people)
             /\ subject' = IF state = "normal" /\ SubjectRule(rule) # "any"
                           THEN about ELSE subject
        /\ taken' = IF state = "normal" THEN people ELSE taken
        /\ declarers' = IF rule.to \in DeathStates
                        THEN declarers \cup {p \in people : "founder" \in RolesOf[p]}
                        ELSE declarers
  BY DEF Apply
<1> DEFINE people == Counted(rule, approvers, status)
<1>2. people \in SUBSET Participant
  BY ActiveOnes DEF Counted
<1>3. PICK about \in Participant :
        /\ SubjectFits(rule, about, people)
        /\ subject' = IF state = "normal" /\ SubjectRule(rule) # "any" THEN about ELSE subject
  BY <1>1
<1>4. /\ trail' = Stored(rule.to) /\ UNCHANGED <<now, status, granted>> /\ done' = NoDeed
      /\ opened' = IF state = "normal" \/ filed < opened THEN filed ELSE opened
      /\ filed + rule.delay <= now
  BY DEF Apply, InTime
<1>5. now \in Nat /\ opened \in Nat /\ filed \in Nat /\ filed <= now /\ opened <= now
  BY DEF IInv, TypeOK
<1>6. opened' \in Nat /\ opened' <= filed /\ (state # "normal" => opened' <= opened)
  BY <1>4, <1>5
<1>7. TypeOK'
  <2>1. taken' \subseteq Participant /\ declarers' \subseteq Participant
    BY <1>1, <1>2 DEF IInv, TypeOK
  <2>2. subject' \in Participant
    BY <1>3 DEF IInv, TypeOK
  <2>3. trail' \in Seq(States) /\ trail' # <<>>
    BY <1>4, TrailGrows
  <2> QED
    BY <1>4, <1>6, <2>1, <2>2, <2>3 DEF IInv, TypeOK
<1>8. NormalIsFirst'
  BY <1>4, TrailGrows DEF IInv, NormalIsFirst
<1>9. (opened <= now)'
  BY <1>4, <1>5, <1>6
<1>10. GrantFits'
  <2>1. granted' = granted /\ generation' = generation + 1 /\ generation \in Nat
    BY <1>4, TrailGrows
  <2>2. granted # NoGrant => granted.generation \in Nat /\ granted.generation <= generation
    BY DEF IInv, TypeOK, Grant, GrantFits
  <2>3. granted' # NoGrant => granted'.generation <= generation' /\ granted'.generation # generation'
    BY <2>1, <2>2
  <2> QED
    BY <2>3 DEF GrantFits
<1>11. state = "normal" => generation = 1
  BY <1>4, TrailGrows DEF IInv, NormalIsFirst, state
<1>12. TakeoverNeedsTwo'
  <2>1. CASE state = "normal"
    <3>1. trail'[2] = rule.to /\ taken' = people
      BY <1>1, <1>4, <1>11, <2>1, TrailGrows
    <3>2. HasRole(people, "founder") /\ Cardinality(people) >= rule.approvals
      BY <1>1, <2>1, LeavingNormal DEF Quorum, HasAllRoles
    <3>3. CASE rule.to = "voluntary_exit"
      BY <1>3, <2>1, <3>1, <3>2, <3>3, LeavingNormal DEF TakeoverNeedsTwo, SubjectFits
    <3>4. CASE rule.to # "voluntary_exit"
      BY <2>1, <3>1, <3>2, <3>4, LeavingNormal DEF TakeoverNeedsTwo
    <3> QED
      BY <3>3, <3>4
  <2>2. CASE state # "normal"
    <3>1. taken' = taken /\ subject' = subject
      BY <1>1, <1>3, <2>2
    <3>2. generation # 1
      BY <1>4, <2>2, TrailGrows DEF IInv, NormalIsFirst, state
    <3>3. trail'[2] = trail[2]
      BY <1>4, <3>2, TrailGrows
    <3> QED
      BY <2>2, <3>1, <3>3 DEF IInv, TakeoverNeedsTwo
  <2> QED
    BY <2>1, <2>2
<1>13. PassageTakesTime'
  <2> SUFFICES ASSUME NEW i \in 1..generation + 1
               PROVE  /\ trail'[i] = "confirmed_long_term_incapacity" => opened' + Days30 <= now'
                      /\ trail'[i] = "death_confirmed" => opened' + Days7 <= now'
                      /\ trail'[i] = "nonparticipation" => opened' + Days45 <= now'
    BY <1>4, TrailGrows DEF PassageTakesTime
  <2>1. CASE i = generation + 1
    <3>1. trail'[i] = rule.to /\ rule.delay \in Nat
      BY <1>4, <2>1, TrailGrows, TransitionRuleType, DeathRuleType DEF Rules
    <3>2. /\ rule.to = "confirmed_long_term_incapacity" => rule.delay = Days30
          /\ rule.to = "death_confirmed" => rule.delay = Days7
          /\ rule.to = "nonparticipation" => rule.delay = Days45
      BY TransitionRuleType, DeathRuleType DEF Rules, DeathStates
    <3> QED
      BY <1>4, <1>5, <1>6, <3>1, <3>2, Delays
  <2>2. CASE i \in 1..generation /\ state = "normal"
    BY <1>4, <1>11, <2>2, TrailGrows DEF state
  <2>3. CASE i \in 1..generation /\ state # "normal"
    <3>1. trail'[i] = trail[i] /\ i \in DOMAIN trail
      BY <1>4, <2>3, TrailGrows
    <3>2. /\ trail[i] = "confirmed_long_term_incapacity" => opened + Days30 <= now
          /\ trail[i] = "death_confirmed" => opened + Days7 <= now
          /\ trail[i] = "nonparticipation" => opened + Days45 <= now
      BY <3>1 DEF IInv, PassageTakesTime
    <3> QED
      BY <1>4, <1>5, <1>6, <2>3, <3>1, <3>2, Delays
  <2> QED
    BY <1>4, <2>1, <2>2, <2>3, TrailGrows
<1>14. ActionsFitState'
  BY <1>4 DEF ActionsFitState
<1> QED
  BY <1>7, <1>8, <1>9, <1>10, <1>12, <1>13, <1>14 DEF IInv

-----------------------------------------------------------------------------
(* Theorems.                                                               *)

\* Every step keeps the invariant.
LEMMA NextInvariant == IInv /\ [Next]_vars => IInv'
<1> SUFFICES ASSUME IInv, [Next]_vars PROVE IInv'
  OBVIOUS
<1>1. CASE Tick
  BY <1>1, TickStep
<1>2. ASSUME NEW p \in Participant, NEW s \in Status, SetStatus(p, s) PROVE IInv'
  BY <1>2, SetStatusStep
<1>3. ASSUME NEW rule \in Rules, rule.from = state, NEW expected, NEW lacking,
             NEW filed \in 0..now, NEW closes \in {now, now + 1},
         Apply(rule, expected, lacking, filed, closes)
      PROVE  IInv'
  BY <1>3, ApplyStep
<1>4. ASSUME NEW class \in ActedOn, NEW who \in SUBSET Participant, NEW context,
             Authorize(class, who, context)
      PROVE  IInv'
  BY <1>4, AuthorizeStep, ActedOnAssumption
<1>5. CASE Execute
  BY <1>5, ExecuteStep
<1>6. CASE UNCHANGED vars
  BY <1>6 DEF vars, process, IInv, TypeOK, NormalIsFirst, GrantFits, TakeoverNeedsTwo,
              PassageTakesTime, ActionsFitState, state, generation
<1> QED
  BY <1>1, <1>2, <1>3, <1>4, <1>5, <1>6 DEF Next, Rules

\* For every registry, every delay and any number of transitions, suspensions and actions.
THEOREM Invariance == Spec => []IInv
<1>1. Init => IInv
  BY InitInvariant
<1>2. IInv /\ [Next]_vars => IInv'
  BY NextInvariant
<1> QED
  BY <1>1, <1>2, PTL DEF Spec

\* Nobody takes the company out of its normal state alone, except a founder who leaves it.
THEOREM TakeoverTakesTwo == Spec => []TakeoverNeedsTwo
<1>1. IInv => TakeoverNeedsTwo
  BY DEF IInv
<1> QED
  BY <1>1, Invariance, PTL

\* Authority does not pass faster than the longest window on the way.
THEOREM PassageIsSlow == Spec => []PassageTakesTime
<1>1. IInv => PassageTakesTime
  BY DEF IInv
<1> QED
  BY <1>1, Invariance, PTL

\* No action is executed in a state that would not have allowed it to those people.
THEOREM ActionsFit == Spec => []ActionsFitState
<1>1. IInv => ActionsFitState
  BY DEF IInv
<1> QED
  BY <1>1, Invariance, PTL

-----------------------------------------------------------------------------
(* Who can move the company on.                                            *)

\* A rule asks for the guardian, or for both founders; these are the rules that it takes
\* nobody's own exit to make, from the states that have several ways on.
LEMMA RulesAskForTheCore ==
  ASSUME NEW rule \in Rules, rule.from \in States \ {"succession"}, rule.to # "voluntary_exit"
  PROVE  \/ {"founder", "guardian"} \subseteq rule.roles
         \/ RequiredParticipants(rule) = {FounderA, FounderB}
<1>1. CASE rule \in TransitionRules
  BY <1>1 DEF TransitionRules, Rule, FounderGuardian, FounderGuardianEstate, RequiredParticipants
<1>2. CASE rule \in DeathTransitions
  BY <1>2 DEF DeathTransitions, Rule, FounderGuardian, FounderGuardianEstate
<1> QED
  BY <1>1, <1>2 DEF Rules

\* So with two founders and one guardian any two such groups have a member in common.
LEMMA CoreGroupsMeet ==
  ASSUME CoreRegistry,
         NEW r1 \in Rules, r1.from \in States \ {"succession"}, r1.to # "voluntary_exit",
         NEW r2 \in Rules, r2.from \in States \ {"succession"}, r2.to # "voluntary_exit",
         NEW g1 \in Groups(r1), NEW g2 \in Groups(r2)
  PROVE  g1 \cap g2 # {}
<1>1. \/ {"founder", "guardian"} \subseteq r1.roles
      \/ RequiredParticipants(r1) = {FounderA, FounderB}
  BY RulesAskForTheCore
<1>2. \/ {"founder", "guardian"} \subseteq r2.roles
      \/ RequiredParticipants(r2) = {FounderA, FounderB}
  BY RulesAskForTheCore
<1>3. /\ g1 \subseteq Participant /\ HasAllRoles(g1, r1.roles) /\ RequiredParticipants(r1) \subseteq g1
      /\ g2 \subseteq Participant /\ HasAllRoles(g2, r2.roles) /\ RequiredParticipants(r2) \subseteq g2
  BY DEF Groups, Quorum
<1>4. CASE {"founder", "guardian"} \subseteq r1.roles /\ {"founder", "guardian"} \subseteq r2.roles
  <2>1. PICK p \in g1, q \in g2 : "guardian" \in RolesOf[p] /\ "guardian" \in RolesOf[q]
    BY <1>3, <1>4 DEF HasAllRoles, HasRole
  <2> QED
    BY <1>3, <2>1 DEF CoreRegistry
<1>5. CASE {"founder", "guardian"} \subseteq r1.roles /\ {FounderA, FounderB} \subseteq g2
  <2>1. PICK p \in g1 : "founder" \in RolesOf[p]
    BY <1>3, <1>5 DEF HasAllRoles, HasRole
  <2> QED
    BY <1>3, <1>5, <2>1 DEF CoreRegistry
<1>6. CASE {FounderA, FounderB} \subseteq g1 /\ {"founder", "guardian"} \subseteq r2.roles
  <2>1. PICK q \in g2 : "founder" \in RolesOf[q]
    BY <1>3, <1>6 DEF HasAllRoles, HasRole
  <2> QED
    BY <1>3, <1>6, <2>1 DEF CoreRegistry
<1>7. CASE {FounderA, FounderB} \subseteq g1 /\ {FounderA, FounderB} \subseteq g2
  BY <1>7
<1> QED
  BY <1>1, <1>2, <1>3, <1>4, <1>5, <1>6, <1>7

\* Succession has one way on.
LEMMA OneWayOnFromSuccession ==
  ASSUME NEW rule \in Rules, rule.from = "succession"
  PROVE  rule.to = "restored"
<1>1. CASE rule \in TransitionRules
  BY <1>1 DEF TransitionRules, Rule
<1>2. CASE rule \in DeathTransitions
  BY <1>2 DEF DeathTransitions, Rule
<1> QED
  BY <1>1, <1>2 DEF Rules

\* Two groups that could move the company on to different states have a member in common,
\* whoever else is in a registry of two founders and one guardian.
THEOREM RivalsMeet == ASSUME CoreRegistry PROVE Spec => []RivalQuorumsMeet
<1>1. IInv => RivalQuorumsMeet
  <2> SUFFICES ASSUME IInv PROVE RivalQuorumsMeet
    OBVIOUS
  <2>1. state \in States
    BY ElementOfSeq, EmptySeq DEF IInv, TypeOK, state, generation
  <2> SUFFICES ASSUME NEW r1 \in Rules, r1.from = state, r1.to # "voluntary_exit",
                      NEW r2 \in Rules, r2.from = state, r2.to # "voluntary_exit",
                      r1.to # r2.to,
                      NEW g1 \in Groups(r1), NEW g2 \in Groups(r2)
               PROVE  g1 \cap g2 # {}
    BY <2>1 DEF RivalQuorumsMeet, MeetingStates, Rules
  <2>2. state # "succession"
    BY OneWayOnFromSuccession
  <2> QED
    BY <2>1, <2>2, CoreGroupsMeet
<1> QED
  BY <1>1, Invariance, PTL

\* These transitions exclude nobody.
LEMMA NobodyExcluded ==
  ASSUME NEW rule \in Rules,
         \/ rule.to \in {"restored", "voluntary_exit"}
         \/ /\ rule.from \in {"confirmed_long_term_incapacity", "voluntary_exit"}
            /\ rule.to = "succession"
  PROVE  SubjectRule(rule) # "excluded"
<1>1. CASE rule \in DeathTransitions
  <2>1. rule.to = "restored"
    BY <1>1 DEF DeathTransitions, Rule
  <2> QED
    BY <1>1, <2>1 DEF SubjectRule
<1>2. CASE rule \notin DeathTransitions
  BY <1>2 DEF SubjectRule
<1> QED
  BY <1>1, <1>2

\* From each of these states a rule leads on for which a founder, a guardian and an estate
\* representative are enough.
LEMMA AWayOut ==
  ASSUME NEW from \in States \ {"restored", "active_deadlock"}
  PROVE  \E rule \in Rules :
           /\ rule.from = from /\ rule.approvals \in 1..3
           /\ rule.roles \subseteq FounderGuardianEstate
           /\ RequiredParticipants(rule) = {}
           /\ SubjectRule(rule) # "excluded"
<1>1. CASE from = "normal"
  <2>1. Rule("normal", "voluntary_exit", 1, {"founder"}, {}, 0) \in Rules
    BY DEF Rules, TransitionRules
  <2> QED
    BY <1>1, <2>1, NobodyExcluded DEF Rule, RequiredParticipants, FounderGuardianEstate
<1>2. CASE from \in {"temporarily_unavailable", "provisional_incapacity", "nonparticipation"}
  <2>1. Rule(from, "restored", 2, FounderGuardian, {}, 0) \in Rules
    BY <1>2 DEF Rules, TransitionRules
  <2> QED
    BY <2>1, NobodyExcluded DEF Rule, RequiredParticipants, FounderGuardian, FounderGuardianEstate
<1>3. CASE from = "confirmed_long_term_incapacity"
  <2>1. Rule(from, "succession", 3, FounderGuardianEstate, {"attestation"}, Days7) \in Rules
    BY <1>3 DEF Rules, TransitionRules
  <2> QED
    BY <1>3, <2>1, NobodyExcluded DEF Rule, RequiredParticipants, FounderGuardianEstate
<1>4. CASE from = "voluntary_exit"
  <2>1. Rule(from, "succession", 2, FounderGuardian, {}, 0) \in Rules
    BY <1>4 DEF Rules, TransitionRules
  <2> QED
    BY <1>4, <2>1, NobodyExcluded DEF Rule, RequiredParticipants, FounderGuardian,
                                      FounderGuardianEstate
<1>5. CASE from = "succession"
  <2>1. Rule(from, "restored", 2, {"founder", "estate_representative"}, {}, 0) \in Rules
    BY <1>5 DEF Rules, TransitionRules
  <2> QED
    BY <2>1, NobodyExcluded DEF Rule, RequiredParticipants, FounderGuardianEstate
<1>6. CASE from = "death_claim_pending"
  <2>1. Rule(from, "restored", 2, FounderGuardian, {"attestation"}, 0) \in Rules
    BY <1>6 DEF Rules, DeathTransitions
  <2> QED
    BY <2>1, NobodyExcluded DEF Rule, RequiredParticipants, FounderGuardian, FounderGuardianEstate
<1>7. CASE from = "death_confirmed"
  <2>1. Rule(from, "restored", 3, FounderGuardianEstate,
             {"attestation", "legal_authority_attested"}, Hours72) \in Rules
    BY <1>7 DEF Rules, DeathTransitions
  <2> QED
    BY <2>1, NobodyExcluded DEF Rule, RequiredParticipants, FounderGuardianEstate
<1> QED
  BY <1>1, <1>2, <1>3, <1>4, <1>5, <1>6, <1>7 DEF States, DeathStates

\* While a founder, a guardian and an estate representative are active, they can leave every
\* state but the last one and a deadlock, in any registry.
THEOREM SurvivorsLeave == Spec => []SurvivorsCanLeave
<1>1. IInv => SurvivorsCanLeave
  <2> DEFINE active == Authorized(Participant, status)
  <2> SUFFICES ASSUME IInv, HasAllRoles(active, FounderGuardianEstate),
                      Cardinality(active) >= 3, state \notin {"restored", "active_deadlock"}
               PROVE  \E rule \in Rules, about \in Participant, people \in SUBSET active :
                        /\ rule.from = state /\ "founder" \in RolesOf[about]
                        /\ Quorum(rule, people) /\ SubjectFits(rule, about, people)
    BY DEF SurvivorsCanLeave, Rules
  <2>1. state \in States
    BY ElementOfSeq, EmptySeq DEF IInv, TypeOK, state, generation
  <2>2. PICK rule \in Rules :
          /\ rule.from = state /\ rule.approvals \in 1..3
          /\ rule.roles \subseteq FounderGuardianEstate
          /\ RequiredParticipants(rule) = {}
          /\ SubjectRule(rule) # "excluded"
    BY <2>1, AWayOut
  <2>3. active \subseteq Participant /\ Cardinality(active) \in Nat
    BY RegistryAssumption, FS_Subset, FS_CardinalityType DEF Authorized
  <2>4. PICK about \in active : "founder" \in RolesOf[about]
    BY DEF HasAllRoles, HasRole, FounderGuardianEstate
  <2>5. Quorum(rule, active)
    BY <2>2, <2>3 DEF Quorum, HasAllRoles
  <2>6. SubjectFits(rule, about, active)
    BY <2>2, <2>4 DEF SubjectFits
  <2> QED
    BY <2>2, <2>3, <2>4, <2>5, <2>6
<1> QED
  BY <1>1, Invariance, PTL
=============================================================================
