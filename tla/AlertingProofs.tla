--------------------------- MODULE AlertingProofs ---------------------------
(***************************************************************************)
(* Proofs about Alerting, for any devices, rules, channels and faults.     *)
(* What the conditions evaluate to plays no part in them: they hold        *)
(* whatever the samples say.                                               *)
(***************************************************************************)
EXTENDS Alerting, Induction, SequenceTheorems, FiniteSetTheorems, TLAPS

-----------------------------------------------------------------------------
(* The engine and the alerts.                                              *)

Channels == UNION {ToSet(b.channels) : b \in Bodies}

AlertRow == [rule : Rules \cup {NoRule}, device : Devices \cup {NoDevice},
             channels : SUBSET Channels, told : SUBSET Channels,
             acked : BOOLEAN, cut : BOOLEAN, unread : BOOLEAN]

EngineRow == [at : {"idle", "rules", "skip", "clear", "check", "create", "deliver"},
              late : {0, 1}, unread : BOOLEAN, todo : SUBSET (Rules \X Bodies), rule : Rules \cup {NoRule},
              body : Bodies \cup {NoRule}, device : Devices \cup {NoDevice},
              alert : AlertIds \cup {NoAlert}, left : Seq(Channels)]

\* A tick past its list has a rule in hand; one that delivers has an alert, which is
\* the rule's until an operator closes it.
EngineSound ==
    /\ alert \in [AlertIds -> AlertRow]
    /\ rule \in [Rules -> Bodies \cup {NoRule}]
    /\ engine \in EngineRow
    /\ since \in [Rules -> 0 .. Never]
    /\ engine.at \notin {"idle", "rules"} => engine.rule \in Rules /\ engine.body \in Bodies
    /\ engine.at = "deliver" <=> engine.alert # NoAlert
    /\ engine.at = "deliver" =>
         /\ engine.left # <<>>
         /\ alert[engine.alert] = Closed \/ alert[engine.alert].rule = engine.rule

LEMMA ClosedType == Closed \in AlertRow /\ Closed.rule = NoRule
  BY DEF Closed, AlertRow

\* What CreateAlert writes.
Opened(r, d, channels, unread) ==
    [Closed EXCEPT !.rule = r, !.device = d, !.channels = channels, !.unread = unread]

LEMMA OpenedType ==
    ASSUME NEW r \in Rules, NEW d \in Devices \cup {NoDevice}, NEW channels \in SUBSET Channels,
           NEW unread \in BOOLEAN
    PROVE  /\ Opened(r, d, channels, unread) \in AlertRow
           /\ Opened(r, d, channels, unread).rule = r
  BY DEF Opened, Closed, AlertRow

LEMMA AsleepType == Asleep \in EngineRow /\ Asleep.at = "idle" /\ Asleep.alert = NoAlert
  BY DEF Asleep, EngineRow

LEMMA BodyChannels ==
    ASSUME NEW b \in Bodies PROVE b.channels \in Seq(Channels) /\ ToSet(b.channels) \subseteq Channels
  <1>1. ToSet(b.channels) \subseteq Channels
    BY DEF Channels
  <1>2. b.channels \in Seq(ToSet(b.channels))
    BY ConstantsAssumption
  <1> QED
    BY <1>1, <1>2

LEMMA NeverType == Never \in Nat /\ 0 \in 0 .. Never /\ 1 \in 0 .. Never
  BY ConstantsAssumption DEF Never

\* The end of a rule's turn.
LEMMA NextRuleSound ==
    ASSUME EngineSound, NextRule
    PROVE  /\ engine' \in EngineRow /\ engine'.at \in {"idle", "rules"}
           /\ engine'.alert = NoAlert
  <1>1. CASE engine.todo = {}
    BY <1>1, AsleepType DEF NextRule
  <1>2. CASE engine.todo # {}
    <2>1. engine' = [Asleep EXCEPT !.at = "rules", !.todo = engine.todo, !.late = engine.late]
      BY <1>2 DEF NextRule
    <2>2. engine.todo \subseteq Rules \X Bodies /\ engine.late \in {0, 1}
      BY DEF EngineSound, EngineRow
    <2> QED
      BY <2>1, <2>2, AsleepType DEF Asleep, EngineRow
  <1> QED
    BY <1>1, <1>2

\* A step that leaves the alerts and ends the rule's turn, or the tick.
LEMMA TurnEnds ==
    ASSUME EngineSound, UNCHANGED <<rule, since>>, alert' \in [AlertIds -> AlertRow],
           NextRule \/ engine' = Asleep
    PROVE  EngineSound'
  <1>1. /\ engine' \in EngineRow /\ engine'.at \in {"idle", "rules"}
        /\ engine'.alert = NoAlert
    BY NextRuleSound, AsleepType
  <1> QED
    BY <1>1 DEF EngineSound


LEMMA StartTickSound ==
    ASSUME EngineSound, StartTick PROVE EngineSound'
  <1> DEFINE active == {r \in Rules : rule[r] # NoRule /\ rule[r] \in Bodies /\ rule[r].active}
             listed == {<<r, rule[r]>> : r \in active}
  <1>1. /\ UNCHANGED <<alert, rule, since>>
        /\ engine' = IF active = {} THEN Asleep ELSE [Asleep EXCEPT !.at = "rules", !.todo = listed]
    BY DEF StartTick, database
  <1>2. listed \subseteq Rules \X Bodies
    OBVIOUS
  <1> HIDE DEF listed, active
  <1>3. /\ engine' \in EngineRow /\ engine'.at \in {"idle", "rules"}
        /\ engine'.alert = NoAlert
    BY <1>1, <1>2, AsleepType DEF Asleep, EngineRow
  <1> QED
    BY <1>1, <1>3 DEF EngineSound

LEMMA EvaluateRuleSound ==
    ASSUME EngineSound, NEW r \in Rules, NEW body \in Bodies, EvaluateRule(r, body)
    PROVE  EngineSound'
  <1>1. PICK at \in {"skip", "check", "clear"} :
            engine' = [engine EXCEPT !.todo = @ \ {<<r, body>>}, !.rule = r, !.body = body,
                                     !.device = Subject(body.cond), !.at = at]
    <2>1. engine.at = "rules"
      BY DEF EvaluateRule
    <2> QED
      BY <2>1 DEF EvaluateRule, EngineSound, EngineRow
  <1>2. engine.at = "rules" /\ UNCHANGED <<alert, rule, since>>
    BY DEF EvaluateRule, database
  <1>3. Subject(body.cond) \in Devices \cup {NoDevice}
    BY ConstantsAssumption DEF Subject
  <1>4. /\ engine' \in EngineRow /\ engine'.at = at /\ engine'.alert = engine.alert
        /\ engine'.rule = r /\ engine'.body = body
    BY <1>1, <1>3 DEF EngineSound, EngineRow
  <1> QED
    BY <1>2, <1>4 DEF EngineSound

LEMMA AutoResolveSound ==
    ASSUME EngineSound, AutoResolve PROVE EngineSound'
  <1>1. alert' \in [AlertIds -> AlertRow]
    BY ClosedType DEF AutoResolve, EngineSound
  <1> QED
    BY <1>1, TurnEnds DEF AutoResolve, EngineSound

LEMMA CheckSound ==
    ASSUME EngineSound, NEW lastRead \in BOOLEAN, NEW openRead \in BOOLEAN,
           Check(lastRead, openRead)
    PROVE  EngineSound'
  <1>1. engine.at = "check" /\ UNCHANGED <<alert, rule, since>>
    BY DEF Check, database
  <1>3. CASE NextRule
    BY <1>1, <1>3, TurnEnds DEF EngineSound
  <1>4. CASE engine' = [engine EXCEPT !.at = "create", !.unread = ~openRead]
    <2>1. /\ engine' \in EngineRow /\ engine'.at = "create" /\ engine'.alert = engine.alert
          /\ engine'.rule = engine.rule /\ engine'.body = engine.body
      BY <1>4 DEF EngineSound, EngineRow
    <2> QED
      BY <1>1, <2>1 DEF EngineSound
  <1> QED
    BY <1>3, <1>4 DEF Check

LEMMA CreateAlertSound ==
    ASSUME EngineSound, NEW a \in AlertIds, CreateAlert(a) PROVE EngineSound'
  <1> DEFINE opened == Opened(engine.rule, engine.device, ToSet(engine.body.channels),
                              engine.unread)
  <1>1. /\ engine.at = "create" /\ engine.rule \in Rules /\ engine.body \in Bodies
        /\ engine.device \in Devices \cup {NoDevice} /\ engine \in EngineRow
    BY DEF CreateAlert, EngineSound, EngineRow
  <1>2. opened \in AlertRow /\ opened.rule = engine.rule
    <2>1. engine.unread \in BOOLEAN
      BY <1>1 DEF EngineRow
    <2>2. ToSet(engine.body.channels) \in SUBSET Channels
      BY <1>1, BodyChannels
    <2> QED
      BY <1>1, <2>1, <2>2, OpenedType
  <1>3. alert' = [alert EXCEPT ![a] = opened] /\ UNCHANGED rule
    BY DEF CreateAlert, Opened
  <1> HIDE DEF opened
  <1>4. alert' \in [AlertIds -> AlertRow] /\ alert'[a] = opened
    BY <1>2, <1>3 DEF EngineSound
  <1>5. since' \in [Rules -> 0 .. Never]
    <2>1. engine.late \in 0 .. Never
      BY <1>1, NeverType DEF EngineRow
    <2> QED
      BY <1>1, <2>1 DEF CreateAlert, EngineSound
  <1>6. CASE engine.body.channels = <<>>
    <2>1. NextRule
      BY <1>6 DEF CreateAlert
    <2>2. /\ engine' \in EngineRow /\ engine'.at \in {"idle", "rules"}
          /\ engine'.alert = NoAlert
      BY <2>1, NextRuleSound
    <2> QED
      BY <1>3, <1>4, <1>5, <2>2 DEF EngineSound
  <1>7. CASE engine.body.channels # <<>>
    <2>1. engine' = [engine EXCEPT !.at = "deliver", !.alert = a,
                                   !.left = engine.body.channels]
      BY <1>7 DEF CreateAlert
    <2>2. engine.body.channels \in Seq(Channels)
      BY <1>1, BodyChannels
    <2>3. /\ engine' \in EngineRow /\ engine'.at = "deliver" /\ engine'.alert = a
          /\ engine'.left = engine.body.channels
          /\ engine'.rule = engine.rule /\ engine'.body = engine.body
      BY <1>1, <2>1, <2>2 DEF EngineRow
    <2>4. a # NoAlert
      BY ConstantsAssumption
    <2> QED
      BY <1>1, <1>2, <1>3, <1>4, <1>5, <1>7, <2>3, <2>4 DEF EngineSound
  <1> QED
    BY <1>6, <1>7

\* An operator's or a delivery's write keeps whose alert it is, or closes it.
LEMMA AlertKept ==
    ASSUME EngineSound, UNCHANGED <<rule, since, engine>>,
           alert' \in [AlertIds -> AlertRow],
           \A a \in AlertIds : \/ alert'[a] \in {Closed, alert[a]}
                               \/ alert'[a].rule = alert[a].rule /\ alert[a] # Closed
    PROVE  EngineSound'
  <1>1. engine.alert \in AlertIds \cup {NoAlert}
    BY DEF EngineSound, EngineRow
  <1> QED
    BY <1>1 DEF EngineSound

LEMMA SetRuleSound ==
    ASSUME EngineSound, NEW r \in Rules, NEW body \in Bodies, SetRule(r, body)
    PROVE  EngineSound'
  BY DEF SetRule, EngineSound

LEMMA AcknowledgeSound ==
    ASSUME EngineSound, NEW a \in AlertIds, Acknowledge(a) PROVE EngineSound'
  <1>1. alert' = [alert EXCEPT ![a] = [alert[a] EXCEPT !.acked = TRUE]] /\ alert[a] # Closed
    BY DEF Acknowledge
  <1>2. alert' \in [AlertIds -> AlertRow]
    BY <1>1, ZenonT(60) DEF EngineSound, AlertRow
  <1>3. \A b \in AlertIds : b # a => alert'[b] = alert[b]
    BY <1>1 DEF EngineSound
  <1>4. alert'[a].rule = alert[a].rule
    BY <1>1 DEF EngineSound, AlertRow
  <1>5. UNCHANGED <<rule, since, engine>>
    BY DEF Acknowledge
  <1> QED
    BY <1>1, <1>2, <1>3, <1>4, <1>5, AlertKept

LEMMA ResolveSound ==
    ASSUME EngineSound, NEW a \in AlertIds, Resolve(a) PROVE EngineSound'
  <1>1. alert' = [alert EXCEPT ![a] = Closed]
    BY DEF Resolve
  <1>2. alert' \in [AlertIds -> AlertRow]
    BY <1>1, ClosedType DEF EngineSound
  <1>3. \A b \in AlertIds : alert'[b] \in {Closed, alert[b]}
    BY <1>1 DEF EngineSound
  <1>4. UNCHANGED <<rule, since, engine>>
    BY DEF Resolve
  <1> QED
    BY <1>2, <1>3, <1>4, AlertKept


LEMMA DeliverSound ==
    ASSUME EngineSound, NEW status, NEW recorded \in BOOLEAN, Deliver(status, recorded)
    PROVE  EngineSound'
  <1> DEFINE a == engine.alert
             told == alert[a].told \cup {Head(engine.left)}
  <1>1. /\ engine.at = "deliver" /\ engine.left \in Seq(Channels) /\ engine.left # <<>>
        /\ a \in AlertIds /\ engine \in EngineRow /\ engine.rule \in Rules
        /\ alert[a] = Closed \/ alert[a].rule = engine.rule
    BY DEF Deliver, EngineSound, EngineRow
  <1>2. Head(engine.left) \in Channels /\ Tail(engine.left) \in Seq(Channels)
    BY <1>1, HeadTailProperties
  <1>3. \/ alert' = alert
        \/ alert' = [alert EXCEPT ![a] = [alert[a] EXCEPT !.cut = TRUE]]
        \/ alert' = [alert EXCEPT ![a] = [alert[a] EXCEPT !.told = told]]
    BY DEF Deliver
  <1>4. alert \in [AlertIds -> AlertRow] /\ alert[a] \in AlertRow
    BY <1>1 DEF EngineSound
  <1>5. /\ [alert[a] EXCEPT !.cut = TRUE] \in AlertRow
        /\ [alert[a] EXCEPT !.told = told] \in AlertRow
        /\ [alert[a] EXCEPT !.cut = TRUE].rule = alert[a].rule
        /\ [alert[a] EXCEPT !.told = told].rule = alert[a].rule
    BY <1>2, <1>4 DEF AlertRow
  <1>6. alert' \in [AlertIds -> AlertRow] /\ alert'[a].rule = alert[a].rule
    BY <1>1, <1>3, <1>4, <1>5
  <1>7. alert' = alert \/ alert[a].rule = engine.rule
    BY DEF Deliver
  <1>8. UNCHANGED <<rule, since>>
    BY DEF Deliver
  <1>9. CASE Len(engine.left) = 1
    <2>1. NextRule
      BY <1>9 DEF Deliver, NextChannel
    <2> QED
      BY <1>6, <1>8, <2>1, TurnEnds
  <1>10. CASE Len(engine.left) # 1
    <2>1. engine' = [engine EXCEPT !.left = Tail(engine.left)]
      BY <1>10 DEF Deliver, NextChannel
    <2>2. /\ engine' \in EngineRow /\ engine'.at = "deliver" /\ engine'.alert = a
          /\ engine'.left = Tail(engine.left)
          /\ engine'.rule = engine.rule /\ engine'.body = engine.body
      BY <1>1, <1>2, <2>1 DEF EngineRow
    <2>3. Tail(engine.left) # <<>>
      <3> DEFINE left == engine.left
      <3>1. left \in Seq(Channels) /\ left # <<>> /\ Len(left) # 1
        BY <1>1, <1>10
      <3> HIDE DEF left
      <3>2. Len(left) \in Nat /\ Len(left) # 0 /\ Len(Tail(left)) = Len(left) - 1
        BY <3>1, HeadTailProperties, EmptySeq
      <3>3. Len(Tail(left)) # 0
        BY <3>1, <3>2
      <3>4. Len(<<>>) = 0
        OBVIOUS
      <3>5. Tail(left) # <<>>
        BY <3>3, <3>4, Zenon
      <3> QED
        BY <3>5 DEF left
    <2>4. alert'[a] = Closed \/ alert'[a].rule = engine.rule
      BY <1>1, <1>6, <1>7
    <2> QED
      BY <1>1, <1>6, <1>8, <2>2, <2>3, <2>4 DEF EngineSound
  <1> QED
    BY <1>9, <1>10

LEMMA TickDiesSound ==
    ASSUME EngineSound, TickDies PROVE EngineSound'
  <1>1. \/ alert' = alert
        \/ /\ engine.at = "deliver"
           /\ alert' = [alert EXCEPT ![engine.alert] = [alert[engine.alert] EXCEPT !.cut = TRUE]]
    BY DEF TickDies
  <1>2. alert' \in [AlertIds -> AlertRow]
    <2>1. CASE engine.at = "deliver"
      <3>1. engine.alert \in AlertIds
        BY <2>1 DEF EngineSound, EngineRow
      <3>2. [alert[engine.alert] EXCEPT !.cut = TRUE] \in AlertRow
        BY <3>1, ZenonT(60) DEF EngineSound, AlertRow
      <3> QED
        BY <1>1, <3>1, <3>2 DEF EngineSound
    <2> QED
      BY <1>1, <2>1 DEF EngineSound
  <1> QED
    BY <1>2, TurnEnds DEF TickDies, EngineSound

LEMMA MinuteSound ==
    ASSUME EngineSound, Minute PROVE EngineSound'
  <1>1. since' = [r \in Rules |-> IF since[r] < Never - 1 THEN since[r] + 1 ELSE since[r]]
    BY DEF Minute
  <1>2. since' \in [Rules -> 0 .. Never]
    BY <1>1, NeverType DEF EngineSound
  <1>3. engine' = IF engine.at = "idle" THEN engine ELSE [engine EXCEPT !.late = 1]
    BY DEF Minute
  <1>4. /\ engine' \in EngineRow /\ engine'.at = engine.at /\ engine'.alert = engine.alert
        /\ engine'.rule = engine.rule /\ engine'.body = engine.body /\ engine'.left = engine.left
    BY <1>3 DEF EngineSound, EngineRow
  <1>5. UNCHANGED <<alert, rule>>
    BY DEF Minute
  <1> QED
    BY <1>2, <1>4, <1>5 DEF EngineSound

\* The steps of the collector and its devices touch neither the engine nor the alerts.
EngineAlone == UNCHANGED <<rule, alert, since, engine>>

LEMMA StepCases ==
    ASSUME [Next]_vars
    PROVE  \/ EngineAlone
           \/ StartTick \/ RuleFails \/ AutoResolve \/ TickDies \/ Minute
           \/ \E r \in Rules, body \in Bodies : EvaluateRule(r, body) \/ SetRule(r, body)
           \/ \E a \in AlertIds : CreateAlert(a) \/ Acknowledge(a) \/ Resolve(a)
           \/ \E lastRead, openRead \in BOOLEAN : Check(lastRead, openRead)
           \/ \E status \in {"sent", "failed", "dropped"}, recorded \in BOOLEAN :
                 Deliver(status, recorded)
  <1>1. CASE UNCHANGED vars
    BY <1>1 DEF vars, EngineAlone
  <1>2. CASE TickStarts
    BY <1>2 DEF TickStarts, Collector, EngineAlone, database
  <1>3. CASE EngineStep
    BY <1>3 DEF EngineStep
  <1>4. CASE EngineFault
    BY <1>4 DEF EngineFault, ListFails, EngineAlone, database
  <1>5. CASE Collector(CollectStep) \/ (engine.at = "idle" /\ Collector(CollectFault)) \/ Outside
    BY <1>5 DEF Collector, Outside, EngineAlone, database
  <1>6. CASE Operators
    BY <1>6 DEF Operators
  <1> QED
    BY <1>1, <1>2, <1>3, <1>4, <1>5, <1>6 DEF Next

LEMMA EngineSoundStep == EngineSound /\ [Next]_vars => EngineSound'
  <1> SUFFICES ASSUME EngineSound, [Next]_vars PROVE EngineSound'
    OBVIOUS
  <1>1. CASE EngineAlone
    BY <1>1 DEF EngineAlone, EngineSound
  <1>2. CASE RuleFails
    BY <1>2, TurnEnds DEF RuleFails, database, EngineSound
  <1>3. CASE StartTick \/ AutoResolve \/ TickDies \/ Minute
    BY <1>3, StartTickSound, AutoResolveSound, TickDiesSound, MinuteSound
  <1>4. ASSUME NEW r \in Rules, NEW body \in Bodies, EvaluateRule(r, body) \/ SetRule(r, body)
        PROVE  EngineSound'
    BY <1>4, EvaluateRuleSound, SetRuleSound
  <1>5. ASSUME NEW a \in AlertIds, CreateAlert(a) \/ Acknowledge(a) \/ Resolve(a)
        PROVE  EngineSound'
    BY <1>5, CreateAlertSound, AcknowledgeSound, ResolveSound
  <1>6. ASSUME NEW lastRead \in BOOLEAN, NEW openRead \in BOOLEAN, Check(lastRead, openRead)
        PROVE  EngineSound'
    BY <1>6, CheckSound
  <1>7. ASSUME NEW status, NEW recorded \in BOOLEAN, Deliver(status, recorded)
        PROVE  EngineSound'
    BY <1>7, DeliverSound
  <1> QED
    BY <1>1, <1>2, <1>3, <1>4, <1>5, <1>6, <1>7, StepCases

LEMMA EngineSoundInit == Init => EngineSound
  <1> SUFFICES ASSUME Init PROVE EngineSound
    OBVIOUS
  <1>1. alert \in [AlertIds -> AlertRow] /\ engine = Asleep
    BY ClosedType DEF Init
  <1>2. since \in [Rules -> 0 .. Never] /\ rule \in [Rules -> Bodies \cup {NoRule}]
    BY NeverType DEF Init
  <1> QED
    BY <1>1, <1>2, AsleepType DEF EngineSound

LEMMA EngineSoundAlways == Spec => []EngineSound
  BY EngineSoundInit, EngineSoundStep, PTL DEF Spec


-----------------------------------------------------------------------------
(* One open alert of a rule for a device.                                  *)

\* Between the check and the insert only the engine may open alerts, and operators
\* only close them: what the check has seen still holds when the alert goes in.
OpenSound ==
    /\ \A a, b \in AlertIds :
         /\ alert[a].rule \in Rules /\ ~alert[a].unread /\ ~alert[b].unread
         /\ alert[a].rule = alert[b].rule /\ alert[a].device = alert[b].device
         => a = b
    /\ engine.at = "create" /\ ~engine.unread =>
         \A a \in AlertIds : alert[a].rule # engine.rule \/ alert[a].device # engine.device

\* An alert is closed, or stays whose it is.
Keeps(a) == \/ alert'[a].rule = NoRule
            \/ /\ alert'[a].rule = alert[a].rule
               /\ alert'[a].device = alert[a].device
               /\ alert'[a].unread = alert[a].unread

\* No alert opens, and no rule comes to the insert.
LEMMA OpenShrinks ==
    ASSUME EngineSound, OpenSound,
           \A a \in AlertIds : Keeps(a),
           engine'.at = "create" => /\ engine.at = "create" /\ engine'.rule = engine.rule
                                    /\ engine'.device = engine.device
                                    /\ engine'.unread = engine.unread
    PROVE  OpenSound'
  <1>1. NoRule \notin Rules
    BY ConstantsAssumption
  <1>2. engine.at = "create" => engine.rule \in Rules
    BY DEF EngineSound
  <1> QED
    BY <1>1, <1>2 DEF OpenSound, Keeps

\* The turn ends, or the tick does.
LEMMA TurnEndsAt ==
    ASSUME EngineSound, NextRule \/ engine' = Asleep
    PROVE  engine'.at # "create" /\ engine'.alert = NoAlert
  BY NextRuleSound, AsleepType

LEMMA AllKept == UNCHANGED alert => \A a \in AlertIds : Keeps(a)
  BY DEF Keeps

LEMMA CheckOpen ==
    ASSUME EngineSound, OpenSound, NEW lastRead \in BOOLEAN, NEW openRead \in BOOLEAN,
           Check(lastRead, openRead)
    PROVE  OpenSound'
  <1>1. engine.at = "check" /\ UNCHANGED alert
    BY DEF Check, database
  <1>2. \A a \in AlertIds : Keeps(a)
    BY <1>1 DEF Keeps
  <1>3. CASE NextRule
    BY <1>2, <1>3, TurnEndsAt, OpenShrinks
  <1>4. CASE ~NextRule
    <2>1. /\ engine' = [engine EXCEPT !.at = "create", !.unread = ~openRead]
          /\ ~(openRead /\ BlockedByOpen)
      BY <1>4 DEF Check
    <2>2. /\ engine'.rule = engine.rule /\ engine'.device = engine.device
          /\ engine'.unread = ~openRead
      BY <2>1 DEF EngineSound, EngineRow
    <2>4. openRead => \A a \in AlertIds : alert[a].rule # engine.rule
                                            \/ alert[a].device # engine.device
      BY <2>1 DEF BlockedByOpen, OpenAlerts
    <2> QED
      BY <1>1, <2>2, <2>4 DEF OpenSound
  <1> QED
    BY <1>3, <1>4

LEMMA CreateAlertOpen ==
    ASSUME EngineSound, OpenSound, NEW a \in AlertIds, CreateAlert(a) PROVE OpenSound'
  <1>1. engine.at = "create" /\ alert \in [AlertIds -> AlertRow] /\ engine \in EngineRow
    BY DEF CreateAlert, EngineSound
  <1>2. alert' = [alert EXCEPT ![a] = [Closed EXCEPT !.rule = engine.rule,
                    !.device = engine.device, !.channels = ToSet(engine.body.channels),
                    !.unread = engine.unread]]
    BY DEF CreateAlert
  <1>3. /\ alert'[a].rule = engine.rule /\ alert'[a].device = engine.device
        /\ alert'[a].unread = engine.unread
        /\ \A b \in AlertIds : b # a => alert'[b] = alert[b]
    BY <1>1, <1>2 DEF Closed
  <1>4. engine'.at # "create"
    <2>1. CASE engine.body.channels = <<>>
      BY <2>1, TurnEndsAt DEF CreateAlert
    <2>2. CASE engine.body.channels # <<>>
      BY <1>1, <2>2 DEF CreateAlert, EngineRow
    <2> QED
      BY <2>1, <2>2
  <1> QED
    BY <1>1, <1>3, <1>4 DEF OpenSound

\* A delivery and a tick that dies keep whose alert each one is.
LEMMA DeliverKeeps ==
    ASSUME EngineSound, NEW status, NEW recorded \in BOOLEAN, Deliver(status, recorded)
    PROVE  (\A a \in AlertIds : Keeps(a)) /\ engine'.at # "create"
  <1>1. alert \in [AlertIds -> AlertRow] /\ engine \in EngineRow
    BY DEF EngineSound
  <1>2. \A a \in AlertIds : Keeps(a)
    BY <1>1 DEF Deliver, AlertRow, Keeps
  <1>3. engine'.at # "create"
    <2>1. CASE Len(engine.left) = 1
      BY <2>1, TurnEndsAt DEF Deliver, NextChannel
    <2>2. CASE Len(engine.left) # 1
      BY <1>1, <2>2 DEF Deliver, NextChannel, EngineRow
    <2> QED
      BY <2>1, <2>2
  <1> QED
    BY <1>2, <1>3

LEMMA TickDiesKeeps ==
    ASSUME EngineSound, TickDies
    PROVE  \A a \in AlertIds : Keeps(a)
  <1>1. alert \in [AlertIds -> AlertRow]
    BY DEF EngineSound
  <1> QED
    BY <1>1 DEF TickDies, AlertRow, Keeps

LEMMA OperatorKeeps ==
    ASSUME EngineSound, NEW a \in AlertIds, Acknowledge(a) \/ Resolve(a)
    PROVE  \A b \in AlertIds : Keeps(b)
  <1>1. alert \in [AlertIds -> AlertRow]
    BY DEF EngineSound
  <1> QED
    BY <1>1, ClosedType DEF Acknowledge, Resolve, AlertRow, Keeps

LEMMA OpenSoundStep == EngineSound /\ OpenSound /\ [Next]_vars => OpenSound'
  <1> SUFFICES ASSUME EngineSound, OpenSound, [Next]_vars PROVE OpenSound'
    OBVIOUS
  <1>1. CASE EngineAlone
    BY <1>1 DEF EngineAlone, OpenSound
  <1>2. CASE StartTick
    <2>1. engine'.at # "create" /\ UNCHANGED alert
      BY <1>2, AsleepType DEF StartTick, database, Asleep
    <2> QED
      BY <2>1, AllKept, OpenShrinks
  <1>3. CASE RuleFails
    BY <1>3, AllKept, TurnEndsAt, OpenShrinks DEF RuleFails, database
  <1>4. CASE AutoResolve
    <2>1. \A a \in AlertIds : alert'[a] \in {Closed, alert[a]}
      BY <1>4 DEF AutoResolve
    <2>2. engine'.at # "create"
      BY <1>4, TurnEndsAt DEF AutoResolve
    <2>3. \A a \in AlertIds : Keeps(a)
      BY <2>1, ClosedType DEF Keeps
    <2> QED
      BY <2>2, <2>3, OpenShrinks
  <1>5. CASE TickDies
    BY <1>5, TickDiesKeeps, TurnEndsAt, OpenShrinks DEF TickDies
  <1>6. CASE Minute
    <2>1. UNCHANGED alert
      BY <1>6 DEF Minute
    <2>2. engine' = IF engine.at = "idle" THEN engine ELSE [engine EXCEPT !.late = 1]
      BY <1>6 DEF Minute
    <2>3. /\ engine'.at = engine.at /\ engine'.rule = engine.rule
          /\ engine'.device = engine.device /\ engine'.unread = engine.unread
      BY <2>2 DEF EngineSound, EngineRow
    <2> QED
      BY <2>1, <2>3, AllKept, OpenShrinks
  <1>7. ASSUME NEW r \in Rules, NEW body \in Bodies, EvaluateRule(r, body) \/ SetRule(r, body)
        PROVE  OpenSound'
    <2>1. CASE EvaluateRule(r, body)
      <3>1. engine'.at \in {"skip", "check", "clear"}
        BY <2>1 DEF EvaluateRule, EngineSound, EngineRow
      <3>2. UNCHANGED alert
        BY <2>1 DEF EvaluateRule, database
      <3> QED
        BY <3>1, <3>2, AllKept, OpenShrinks
    <2>2. CASE SetRule(r, body)
      BY <2>2, AllKept, OpenShrinks DEF SetRule
    <2> QED
      BY <1>7, <2>1, <2>2
  <1>8. ASSUME NEW a \in AlertIds, CreateAlert(a) \/ Acknowledge(a) \/ Resolve(a)
        PROVE  OpenSound'
    <2>1. CASE CreateAlert(a)
      BY <2>1, CreateAlertOpen
    <2>2. CASE Acknowledge(a) \/ Resolve(a)
      <3>1. UNCHANGED engine
        BY <2>2 DEF Acknowledge, Resolve
      <3> QED
        BY <2>2, <3>1, OperatorKeeps, OpenShrinks
    <2> QED
      BY <1>8, <2>1, <2>2
  <1>9. ASSUME NEW lastRead \in BOOLEAN, NEW openRead \in BOOLEAN, Check(lastRead, openRead)
        PROVE  OpenSound'
    BY <1>9, CheckOpen
  <1>10. ASSUME NEW status, NEW recorded \in BOOLEAN, Deliver(status, recorded)
         PROVE  OpenSound'
    BY <1>10, DeliverKeeps, OpenShrinks
  <1> QED
    BY <1>1, <1>2, <1>3, <1>4, <1>5, <1>6, <1>7, <1>8, <1>9, <1>10, StepCases

LEMMA OpenSoundImplies == OpenSound => OneOpenAlert
  <1> SUFFICES ASSUME OpenSound, NEW r \in Rules, NEW d \in Devices \cup {NoDevice}
               PROVE  Cardinality({a \in OpenAlerts(r, d) : ~alert[a].unread}) <= 1
    BY DEF OneOpenAlert
  <1> DEFINE open == {a \in OpenAlerts(r, d) : ~alert[a].unread}
  <1>1. \A a, b \in open : a = b
    BY DEF OpenSound, OpenAlerts
  <1> HIDE DEF open
  <1>2. CASE open = {}
    BY <1>2, FS_EmptySet DEF open
  <1>3. CASE open # {}
    <2>1. PICK a : a \in open
      BY <1>3
    <2>2. open = {a}
      BY <1>1, <2>1
    <2>3. Cardinality(open) = 1
      BY <2>2, FS_Singleton, Zenon
    <2> QED
      BY <2>3 DEF open
  <1> QED
    BY <1>2, <1>3

\* The engine opens no second alert of a rule for a device (engine.go:148), for any
\* rules, alerts and operators, besides those of a tick that could not read them.
THEOREM OneAlertOpen == Spec => []OneOpenAlert
  <1>1. Init => OpenSound
    <2> SUFFICES ASSUME Init PROVE OpenSound
      OBVIOUS
    <2>1. NoRule \notin Rules
      BY ConstantsAssumption
    <2> QED
      BY <2>1, ClosedType, AsleepType DEF Init, OpenSound
  <1> QED
    BY <1>1, EngineSoundAlways, OpenSoundStep, OpenSoundImplies, PTL DEF Spec


-----------------------------------------------------------------------------
(* Every channel of an alert is recorded.                                  *)

\* What is still to be told of an alert.
Untold(a) == IF engine.alert = a THEN ToSet(engine.left) ELSE {}

\* During the delivery an alert's channels are those recorded and those to come.
ToldSound ==
    \A a \in AlertIds : alert[a] # Closed =>
        /\ alert[a].rule \in Rules
        /\ alert[a].told \subseteq alert[a].channels
        /\ Untold(a) \subseteq alert[a].channels
        /\ alert[a].cut \/ alert[a].channels \subseteq alert[a].told \cup Untold(a)

LEMMA HeadAndTail ==
    ASSUME NEW S, NEW s \in Seq(S), s # <<>>
    PROVE  /\ ToSet(s) = {Head(s)} \cup ToSet(Tail(s))
           /\ Len(s) = 1 => ToSet(s) = {Head(s)}
  <1>1. Len(s) \in Nat \ {0} /\ DOMAIN s = 1 .. Len(s) /\ Head(s) = s[1]
    BY EmptySeq, HeadTailProperties
  <1>2. /\ DOMAIN Tail(s) = 1 .. Len(s) - 1
        /\ \A i \in 1 .. Len(s) - 1 : Tail(s)[i] = s[i + 1]
    BY <1>1, HeadTailProperties
  <1>3. \A i \in 1 .. Len(s) : i = 1 \/ (i - 1 \in 1 .. Len(s) - 1 /\ s[i] = Tail(s)[i - 1])
    <2>1. \A i \in 1 .. Len(s) : i = 1 \/ (i - 1 \in 1 .. Len(s) - 1 /\ (i - 1) + 1 = i)
      BY <1>1
    <2> QED
      BY <1>2, <2>1
  <1>4. \A i \in 1 .. Len(s) - 1 : i + 1 \in 1 .. Len(s) /\ Tail(s)[i] = s[i + 1]
    BY <1>1, <1>2
  <1>5. 1 \in 1 .. Len(s) /\ (Len(s) = 1 => 1 .. Len(s) = {1})
    BY <1>1
  <1>6. ToSet(s) = {s[i] : i \in 1 .. Len(s)}
    BY <1>1 DEF ToSet
  <1>7. ToSet(Tail(s)) = {Tail(s)[i] : i \in 1 .. Len(s) - 1}
    BY <1>2 DEF ToSet
  <1>8. ToSet(s) \subseteq {s[1]} \cup ToSet(Tail(s))
    <2> SUFFICES ASSUME NEW i \in 1 .. Len(s) PROVE s[i] = s[1] \/ s[i] \in ToSet(Tail(s))
      BY <1>6
    <2> QED
      BY <1>3, <1>7
  <1>9. {s[1]} \cup ToSet(Tail(s)) \subseteq ToSet(s)
    <2> SUFFICES ASSUME NEW i \in 1 .. Len(s) - 1 PROVE Tail(s)[i] \in ToSet(s)
      BY <1>5, <1>6, <1>7
    <2> QED
      BY <1>4, <1>6
  <1> QED
    BY <1>1, <1>5, <1>6, <1>8, <1>9

\* A step of a tick that delivers nothing, or of anybody else: alerts are closed, or
\* keep what they have recorded; an interrupted delivery stays interrupted.
LEMMA ToldKept ==
    ASSUME ToldSound,
           \/ UNCHANGED engine
           \/ engine.alert = NoAlert /\ engine'.alert = NoAlert
           \/ engine'.alert = engine.alert /\ engine'.left = engine.left,
           \A a \in AlertIds : \/ alert'[a] = Closed
                               \/ /\ alert[a] # Closed
                                  /\ alert'[a].rule = alert[a].rule
                                  /\ alert'[a].channels = alert[a].channels
                                  /\ alert'[a].told = alert[a].told
                                  /\ alert'[a].cut = alert[a].cut
                               \/ alert'[a] = alert[a]
    PROVE  ToldSound'
  <1>1. \A a \in AlertIds : Untold(a)' = Untold(a)
    <2> SUFFICES ASSUME NEW a \in AlertIds PROVE Untold(a)' = Untold(a)
      OBVIOUS
    <2>1. NoAlert # a
      BY ConstantsAssumption
    <2> QED
      BY <2>1 DEF Untold
  <1> QED
    BY <1>1 DEF ToldSound

LEMMA CreateAlertTold ==
    ASSUME EngineSound, ToldSound, NEW a \in AlertIds, CreateAlert(a) PROVE ToldSound'
  <1>1. /\ engine.at = "create" /\ alert \in [AlertIds -> AlertRow] /\ engine \in EngineRow
        /\ engine.alert = NoAlert /\ engine.rule \in Rules
    BY DEF CreateAlert, EngineSound
  <1>2. alert' = [alert EXCEPT ![a] = [Closed EXCEPT !.rule = engine.rule,
                    !.device = engine.device, !.channels = ToSet(engine.body.channels),
                    !.unread = engine.unread]]
    BY DEF CreateAlert
  <1>3. /\ alert'[a].rule = engine.rule /\ alert'[a].told = {}
        /\ alert'[a].channels = ToSet(engine.body.channels)
        /\ \A b \in AlertIds : b # a => alert'[b] = alert[b]
    BY <1>1, <1>2 DEF Closed
  <1>4. Untold(a)' = ToSet(engine.body.channels)
    <2>1. CASE engine.body.channels = <<>>
      <3>1. engine'.alert = NoAlert
        BY <2>1, TurnEndsAt DEF CreateAlert
      <3>2. ToSet(engine.body.channels) = {}
        BY <2>1 DEF ToSet
      <3> QED
        BY <3>1, <3>2, ConstantsAssumption DEF Untold
    <2>2. CASE engine.body.channels # <<>>
      <3>1. engine'.alert = a /\ engine'.left = engine.body.channels
        BY <1>1, <2>2 DEF CreateAlert, EngineRow
      <3> QED
        BY <3>1 DEF Untold
    <2> QED
      BY <2>1, <2>2
  <1>5. \A b \in AlertIds : b # a => Untold(b)' = Untold(b) /\ Untold(b) = {}
    <2> SUFFICES ASSUME NEW b \in AlertIds, b # a PROVE Untold(b)' = Untold(b) /\ Untold(b) = {}
      OBVIOUS
    <2>1. engine'.alert \in {a, NoAlert}
      BY <1>1, TurnEndsAt DEF CreateAlert, EngineRow
    <2> QED
      BY <1>1, <2>1, ConstantsAssumption DEF Untold
  <1> QED
    BY <1>1, <1>3, <1>4, <1>5 DEF ToldSound

LEMMA DeliverTold ==
    ASSUME EngineSound, ToldSound, NEW status, NEW recorded \in BOOLEAN,
           Deliver(status, recorded)
    PROVE  ToldSound'
  <1> DEFINE channel == Head(engine.left)
  <1>0. PICK a \in AlertIds : a = engine.alert
    BY DEF Deliver, EngineSound, EngineRow
  <1>1. /\ a # NoAlert /\ engine.left \in Seq(Channels) /\ engine.left # <<>>
        /\ alert \in [AlertIds -> AlertRow] /\ engine \in EngineRow /\ engine.rule \in Rules
        /\ alert[a] = Closed \/ alert[a].rule = engine.rule
    BY <1>0 DEF Deliver, EngineSound, EngineRow
  <1>2. Untold(a) = {channel} \cup Untold(a)' /\ Untold(a)' \subseteq Untold(a)
    <2>1. Untold(a) = ToSet(engine.left)
      BY <1>0 DEF Untold
    <2>2. CASE Len(engine.left) = 1
      <3>1. engine'.alert = NoAlert
        BY <2>2, TurnEndsAt DEF Deliver, NextChannel
      <3>2. Untold(a)' = {}
        BY <1>1, <3>1 DEF Untold
      <3>3. ToSet(engine.left) = {channel}
        BY <1>1, <2>2, HeadAndTail
      <3> QED
        BY <2>1, <3>2, <3>3
    <2>3. CASE Len(engine.left) # 1
      <3>1. engine'.alert = a /\ engine'.left = Tail(engine.left)
        BY <1>0, <1>1, <2>3 DEF Deliver, NextChannel, EngineRow
      <3>2. Untold(a)' = ToSet(Tail(engine.left))
        BY <3>1 DEF Untold
      <3>3. ToSet(engine.left) = {channel} \cup ToSet(Tail(engine.left))
        BY <1>1, HeadAndTail
      <3> QED
        BY <2>1, <3>2, <3>3
    <2> QED
      BY <2>2, <2>3
  <1>3. \A b \in AlertIds : b # a => Untold(b)' = {} /\ Untold(b) = {} /\ alert'[b] = alert[b]
    <2> SUFFICES ASSUME NEW b \in AlertIds, b # a
                 PROVE  Untold(b)' = {} /\ Untold(b) = {} /\ alert'[b] = alert[b]
      OBVIOUS
    <2>1. engine'.alert \in {a, NoAlert}
      BY <1>0, <1>1, TurnEndsAt DEF Deliver, NextChannel, EngineRow
    <2>2. alert'[b] = alert[b]
      BY <1>0, <1>1 DEF Deliver
    <2> QED
      BY <1>0, <1>1, <2>1, <2>2, ConstantsAssumption DEF Untold
  <1>4. CASE alert[a].rule # engine.rule
    <2>1. alert[a] = Closed /\ alert' = alert
      BY <1>0, <1>1, <1>4 DEF Deliver
    <2> QED
      BY <1>3, <2>1 DEF ToldSound
  <1>5. CASE alert[a].rule = engine.rule
    <2>1. alert[a] # Closed
      BY <1>1, <1>5, ClosedType, ConstantsAssumption
    <2>2. channel \in alert[a].channels
      BY <1>1, <1>2, <2>1 DEF ToldSound
    <2>3. \/ /\ alert'[a].cut = TRUE /\ alert'[a].told = alert[a].told
             /\ alert'[a].channels = alert[a].channels /\ alert'[a].rule = alert[a].rule
          \/ /\ alert'[a].told = alert[a].told \cup {channel} /\ alert'[a].cut = alert[a].cut
             /\ alert'[a].channels = alert[a].channels /\ alert'[a].rule = alert[a].rule
      BY <1>0, <1>1, <1>5 DEF Deliver, AlertRow
    <2> HIDE DEF channel
    <2> QED
      BY <1>1, <1>2, <1>3, <2>1, <2>2, <2>3 DEF ToldSound
  <1> QED
    BY <1>4, <1>5

LEMMA TickDiesTold ==
    ASSUME EngineSound, ToldSound, TickDies PROVE ToldSound'
  <1>1. alert \in [AlertIds -> AlertRow] /\ engine \in EngineRow /\ engine'.alert = NoAlert
    BY AsleepType DEF TickDies, EngineSound
  <1>2. \A a \in AlertIds : Untold(a)' = {}
    BY <1>1, ConstantsAssumption DEF Untold
  <1>3. \A a \in AlertIds : /\ alert'[a].channels = alert[a].channels
                            /\ alert'[a].told = alert[a].told
                            /\ alert'[a].rule = alert[a].rule
                            /\ alert'[a] = alert[a] \/ alert'[a].cut = TRUE
    BY <1>1 DEF TickDies, AlertRow
  <1>4. CASE engine.at # "deliver"
    <2>1. alert' = alert /\ \A a \in AlertIds : Untold(a) = {}
      BY <1>4, ConstantsAssumption DEF TickDies, EngineSound, Untold
    <2> QED
      BY <1>2, <2>1 DEF ToldSound
  <1>5. CASE engine.at = "deliver"
    <2>0. PICK a \in AlertIds : a = engine.alert
      BY <1>1, <1>5 DEF EngineSound, EngineRow
    <2>1. (alert[a] = Closed \/ alert[a].rule = engine.rule)
      BY <1>1, <1>5, <2>0 DEF EngineSound, EngineRow
    <2>2. \A b \in AlertIds : b # a => Untold(b) = {} /\ alert'[b] = alert[b]
      BY <1>1, <1>5, <2>0 DEF TickDies, Untold
    <2>3. CASE alert[a].rule = engine.rule
      <3>1. alert'[a].cut = TRUE /\ alert[a] # Closed
        BY <1>1, <1>5, <2>0, <2>1, <2>3, ClosedType, ConstantsAssumption DEF TickDies, EngineSound, AlertRow
      <3> QED
        BY <1>2, <1>3, <2>1, <2>2, <3>1 DEF ToldSound
    <2>4. CASE alert[a].rule # engine.rule
      <3>1. alert' = alert /\ alert[a] = Closed
        BY <1>5, <2>0, <2>1, <2>4 DEF TickDies
      <3> QED
        BY <1>2, <2>2, <3>1 DEF ToldSound
    <2> QED
      BY <2>3, <2>4
  <1> QED
    BY <1>4, <1>5


LEMMA ToldSoundStep == EngineSound /\ ToldSound /\ [Next]_vars => ToldSound'
  <1> SUFFICES ASSUME EngineSound, ToldSound, [Next]_vars PROVE ToldSound'
    OBVIOUS
  <1>1. CASE EngineAlone
    BY <1>1, ToldKept DEF EngineAlone
  <1>2. CASE StartTick
    <2>1. engine'.alert = NoAlert /\ UNCHANGED alert
      BY <1>2, AsleepType DEF StartTick, database, Asleep
    <2>2. engine.alert = NoAlert
      BY <1>2 DEF StartTick, Ticking, EngineSound
    <2> QED
      BY <2>1, <2>2, ToldKept
  <1>3. CASE RuleFails
    <2>1. engine.alert = NoAlert /\ engine'.alert = NoAlert /\ UNCHANGED alert
      BY <1>3, TurnEndsAt DEF RuleFails, EngineSound, database
    <2> QED
      BY <2>1, ToldKept
  <1>4. CASE AutoResolve
    <2>1. engine.alert = NoAlert /\ engine'.alert = NoAlert
      BY <1>4, TurnEndsAt DEF AutoResolve, EngineSound
    <2>2. \A a \in AlertIds : alert'[a] \in {Closed, alert[a]}
      BY <1>4 DEF AutoResolve
    <2> QED
      BY <2>1, <2>2, ToldKept
  <1>5. CASE TickDies
    BY <1>5, TickDiesTold
  <1>6. CASE Minute
    BY <1>6, ToldKept DEF Minute
  <1>7. ASSUME NEW r \in Rules, NEW body \in Bodies, EvaluateRule(r, body) \/ SetRule(r, body)
        PROVE  ToldSound'
    <2>1. CASE EvaluateRule(r, body)
      <3>1. engine'.alert = engine.alert /\ engine'.left = engine.left
        BY <2>1 DEF EvaluateRule, EngineSound, EngineRow
      <3>2. UNCHANGED alert
        BY <2>1 DEF EvaluateRule, database
      <3> QED
        BY <3>1, <3>2, ToldKept
    <2>2. CASE SetRule(r, body)
      BY <2>2, ToldKept DEF SetRule
    <2> QED
      BY <1>7, <2>1, <2>2
  <1>8. ASSUME NEW a \in AlertIds, CreateAlert(a) \/ Acknowledge(a) \/ Resolve(a)
        PROVE  ToldSound'
    <2>1. CASE CreateAlert(a)
      BY <2>1, CreateAlertTold
    <2>2. CASE Acknowledge(a)
      <3>1. alert \in [AlertIds -> AlertRow] /\ alert[a] # Closed /\ UNCHANGED engine
        BY <2>2 DEF Acknowledge, EngineSound
      <3>2. /\ alert'[a].channels = alert[a].channels /\ alert'[a].told = alert[a].told
            /\ alert'[a].cut = alert[a].cut /\ alert'[a].rule = alert[a].rule
            /\ \A b \in AlertIds : b # a => alert'[b] = alert[b]
        BY <2>2, <3>1 DEF Acknowledge, AlertRow
      <3> QED
        BY <3>1, <3>2, ToldKept
    <2>3. CASE Resolve(a)
      <3>1. UNCHANGED engine /\ \A b \in AlertIds : alert'[b] \in {Closed, alert[b]}
        BY <2>3 DEF Resolve, EngineSound
      <3> QED
        BY <3>1, ToldKept
    <2> QED
      BY <1>8, <2>1, <2>2, <2>3
  <1>9. ASSUME NEW lastRead \in BOOLEAN, NEW openRead \in BOOLEAN, Check(lastRead, openRead)
        PROVE  ToldSound'
    <2>1. engine.alert = NoAlert /\ UNCHANGED alert
      BY <1>9 DEF Check, EngineSound, database
    <2>2. engine'.alert = NoAlert
      <3>1. CASE NextRule
        BY <3>1, TurnEndsAt
      <3>2. CASE ~NextRule
        BY <1>9, <2>1, <3>2 DEF Check, EngineSound, EngineRow
      <3> QED
        BY <3>1, <3>2
    <2> QED
      BY <2>1, <2>2, ToldKept
  <1>10. ASSUME NEW status, NEW recorded \in BOOLEAN, Deliver(status, recorded)
         PROVE  ToldSound'
    BY <1>10, DeliverTold
  <1> QED
    BY <1>1, <1>2, <1>3, <1>4, <1>5, <1>6, <1>7, <1>8, <1>9, <1>10, StepCases

LEMMA ToldSoundAlways == Spec => []ToldSound
  <1>1. Init => ToldSound
    BY DEF Init, ToldSound
  <1> QED
    BY <1>1, EngineSoundAlways, ToldSoundStep, PTL DEF Spec

\* Every channel of an open alert is recorded when its delivery is over (engine.go:165),
\* for any channels, in any order and however often they are listed, and whatever they
\* answer.
THEOREM ChannelsAllRecorded == Spec => []ChannelsRecorded
  <1>1. ToldSound => ChannelsRecorded
    BY DEF ToldSound, ChannelsRecorded, Untold
  <1> QED
    BY <1>1, ToldSoundAlways, PTL

-----------------------------------------------------------------------------
(* Types of the tables and of the collector.                               *)

RowShape(r) == r = [kind |-> r.kind, device |-> r.device, sample |-> r.sample, age |-> r.age]

RowsSound ==
    /\ RowsTypeOK
    /\ clock # 0
    /\ \A r \in rows : RowShape(r)
    /\ collector = [at |-> collector.at, age |-> collector.age, todo |-> collector.todo,
                    batch |-> collector.batch, left |-> collector.left]
    /\ \A r \in collector.batch : r.kind \in ToSet(Kinds) /\ r.device \in Devices

\* The engine and the operators leave the tables alone.
Quiet == /\ UNCHANGED <<online, tree, rows, collector, clock>>
         /\ due' \subseteq due /\ busy' \in {busy, 0}
         /\ faults' = faults \/ Fault

LEMMA FaultBounded ==
    ASSUME RowsTypeOK, faults' = faults \/ Fault PROVE faults' \in 0 .. MaxFaults
  <1>1. MaxFaults \in Nat /\ faults \in 0 .. MaxFaults
    BY ConstantsAssumption DEF RowsTypeOK
  <1> QED
    BY <1>1 DEF Fault

LEMMA QuietSound ==
    ASSUME RowsSound, Quiet PROVE RowsSound'
  <1>1. RowsTypeOK
    BY DEF RowsSound
  <1>2. faults' \in 0 .. MaxFaults
    BY <1>1, FaultBounded DEF Quiet
  <1>3. busy' \in 0 .. MaxBusy
    BY <1>1, ConstantsAssumption DEF Quiet, RowsTypeOK
  <1> QED
    BY <1>1, <1>2, <1>3 DEF Quiet, RowsSound, RowsTypeOK, RowShape

LEMMA EngineQuiet ==
    ASSUME StartTick \/ EngineStep \/ EngineFault \/ Operators PROVE Quiet
  <1>1. CASE StartTick
    BY <1>1 DEF StartTick, Turn, Quiet, environment, telemetry
  <1>2. CASE EngineStep
    <2>1. CASE \E r \in Rules, body \in Bodies : EvaluateRule(r, body)
      BY <2>1 DEF EvaluateRule, Quiet, environment, telemetry, scheduling
    <2>2. CASE RuleFails
      BY <2>2 DEF RuleFails, Quiet, environment, telemetry, scheduling
    <2>3. CASE AutoResolve
      BY <2>3 DEF AutoResolve, Quiet, environment, telemetry, scheduling
    <2>4. CASE Check(TRUE, TRUE)
      BY <2>4 DEF Check, Quiet, environment, telemetry, scheduling
    <2>5. CASE \E a \in AlertIds : CreateAlert(a)
      BY <2>5 DEF CreateAlert, Quiet, environment, telemetry, scheduling
    <2>6. CASE \E status \in {"sent", "failed", "dropped"} : Deliver(status, TRUE)
      BY <2>6 DEF Deliver, Quiet, environment, telemetry, scheduling
    <2> QED
      BY <1>2, <2>1, <2>2, <2>3, <2>4, <2>5, <2>6 DEF EngineStep
  <1>3. CASE EngineFault
    <2>1. CASE ListFails
      BY <2>1 DEF ListFails, Turn, Quiet, environment, telemetry
    <2>2. CASE TickDies
      BY <2>2 DEF TickDies, Quiet, environment, telemetry, scheduling
    <2>3. CASE Check(FALSE, TRUE) \/ Check(TRUE, FALSE)
      BY <2>3 DEF Check, Quiet, environment, telemetry, scheduling
    <2>4. CASE \E status \in {"sent", "failed", "dropped"} : Deliver(status, FALSE)
      BY <2>4 DEF Deliver, Quiet, environment, telemetry, scheduling
    <2> QED
      BY <1>3, <2>1, <2>2, <2>3, <2>4 DEF EngineFault
  <1>4. CASE Operators
    BY <1>4 DEF Operators, SetRule, Acknowledge, Resolve, Quiet, environment, telemetry,
                scheduling
  <1> QED
    BY <1>1, <1>2, <1>3, <1>4

\* The tick in progress gets older, and stays within its time.
LEMMA MinuteCollector ==
    ASSUME RowsSound, Minute
    PROVE  /\ collector'.at = collector.at /\ collector'.todo = collector.todo
           /\ collector'.batch = collector.batch /\ collector'.left = collector.left
           /\ collector' = [at |-> collector'.at, age |-> collector'.age, todo |-> collector'.todo,
                            batch |-> collector'.batch, left |-> collector'.left]
           /\ IF Collecting THEN collector'.age = collector.age + 1 /\ collector.age < CollectTimeout
              ELSE collector'.age = collector.age
  <1>1. collector = [at |-> collector.at, age |-> collector.age, todo |-> collector.todo,
                     batch |-> collector.batch, left |-> collector.left]
    BY DEF RowsSound
  <1>2. /\ collector' = IF Collecting THEN [collector EXCEPT !.age = @ + 1] ELSE collector
        /\ Collecting => collector.age < CollectTimeout
    BY DEF Minute, Grow, Later
  <1>3. CASE Collecting
    <2>1. collector' = [at |-> collector.at, age |-> collector.age + 1, todo |-> collector.todo,
                        batch |-> collector.batch, left |-> collector.left]
      BY <1>1, <1>2, <1>3
    <2> QED
      BY <1>2, <1>3, <2>1
  <1>4. CASE ~Collecting
    BY <1>1, <1>2, <1>4
  <1> QED
    BY <1>3, <1>4

LEMMA MinuteRows ==
    ASSUME RowsSound, Minute PROVE RowsSound'
  <1>1. /\ RowsTypeOK /\ MaxAge \in Nat /\ CollectEvery \in Nat \ {0}
        /\ UNCHANGED <<online, tree, faults>>
    BY ConstantsAssumption DEF Minute, environment, RowsSound
  <1>2. clock' \in 0 .. CollectEvery /\ clock' # 0 /\ due' \subseteq {"collect", "alert"}
    BY <1>1 DEF Minute, RowsSound, RowsTypeOK
  <1>3. rows' = {[r EXCEPT !.age = @ + 1] : r \in {s \in rows : s.age < MaxAge}}
    BY DEF Minute, Grow
  <1>4. ASSUME NEW q \in rows'
        PROVE  /\ RowShape(q)
               /\ q.kind \in ToSet(Kinds) /\ q.device \in Devices /\ q.age \in 0 .. MaxAge
    <2>1. PICK r \in rows : r.age < MaxAge /\ q = [r EXCEPT !.age = @ + 1]
      BY <1>3
    <2>2. r = [kind |-> r.kind, device |-> r.device, sample |-> r.sample, age |-> r.age]
      BY DEF RowsSound, RowShape
    <2>3. q = [kind |-> r.kind, device |-> r.device, sample |-> r.sample, age |-> r.age + 1]
      BY <2>1, <2>2
    <2>4. r.kind \in ToSet(Kinds) /\ r.device \in Devices /\ r.age \in 0 .. MaxAge
      BY <1>1 DEF RowsTypeOK
    <2>5. r.age + 1 \in 0 .. MaxAge
      BY <1>1, <2>1, <2>4
    <2> QED
      BY <2>3, <2>4, <2>5 DEF RowShape
  <1>5. busy' \in 0 .. MaxBusy
    <2>1. busy \in 0 .. MaxBusy /\ MaxBusy \in Nat
      BY <1>1, ConstantsAssumption DEF RowsTypeOK
    <2>2. busy' = 0 \/ (busy < MaxBusy /\ busy' = busy + 1)
      BY DEF Minute
    <2> QED
      BY <2>1, <2>2
  <1>6. /\ collector'.at = collector.at /\ collector'.todo = collector.todo
        /\ collector'.batch = collector.batch /\ collector'.age \in 0 .. CollectTimeout
        /\ collector' = [at |-> collector'.at, age |-> collector'.age, todo |-> collector'.todo,
                         batch |-> collector'.batch, left |-> collector'.left]
    <2>1. collector.age \in 0 .. CollectTimeout
      BY <1>1 DEF RowsTypeOK
    <2>2. CollectTimeout \in Nat
      BY ConstantsAssumption
    <2> QED
      BY <2>1, <2>2, MinuteCollector
  <1> QED
    BY <1>1, <1>2, <1>4, <1>5, <1>6 DEF RowsSound, RowsTypeOK, RowShape

LEMMA RestType ==
    /\ Rest.at = "idle" /\ Rest.age = 0 /\ Rest.todo = {} /\ Rest.batch = {}
    /\ Rest = [at |-> Rest.at, age |-> Rest.age, todo |-> Rest.todo, batch |-> Rest.batch, left |-> Rest.left]
  BY DEF Rest

LEMMA TimeoutType == CollectTimeout \in Nat /\ CollectTimeout \in 0 .. MaxAge /\ 0 \in 0 .. CollectTimeout
  BY ConstantsAssumption

LEMMA AgeType == RowsSound => collector.age \in Nat /\ collector.age \in 0 .. MaxAge
  <1> SUFFICES ASSUME RowsSound PROVE collector.age \in Nat /\ collector.age \in 0 .. MaxAge
    OBVIOUS
  <1>1. RowsTypeOK
    BY DEF RowsSound
  <1>2. collector.age \in 0 .. CollectTimeout
    BY <1>1 DEF RowsTypeOK
  <1>3. CollectTimeout \in 0 .. MaxAge /\ MaxAge \in Nat
    BY ConstantsAssumption
  <1> QED
    BY <1>2, <1>3

CollectorSound(c) ==
    /\ c = [at |-> c.at, age |-> c.age, todo |-> c.todo, batch |-> c.batch, left |-> c.left]
    /\ c.age \in 0 .. CollectTimeout
    /\ c.at \in {"idle", "read", "insert"} /\ c.todo \subseteq Devices
    /\ \A r \in c.batch : r.kind \in ToSet(Kinds) /\ r.device \in Devices

\* A step of the collector that writes nothing.
LEMMA CollectorMoves ==
    ASSUME RowsSound, UNCHANGED <<online, tree, rows, clock>>, due' \subseteq due,
           busy' \in {busy, 0}, faults' = faults \/ Fault, CollectorSound(collector')
    PROVE  RowsSound'
  <1>1. RowsTypeOK
    BY DEF RowsSound
  <1>2. faults' \in 0 .. MaxFaults /\ busy' \in 0 .. MaxBusy
    BY <1>1, FaultBounded, ConstantsAssumption DEF RowsTypeOK
  <1> QED
    BY <1>1, <1>2 DEF CollectorSound, RowsSound, RowsTypeOK, RowShape

LEMMA StartCollectRows ==
    ASSUME RowsSound, StartCollect PROVE RowsSound'
  <1>1. PICK listed \in Page(online) :
            collector' = IF listed = {} THEN Rest
                         ELSE [Rest EXCEPT !.at = "read", !.todo = listed]
    BY DEF StartCollect
  <1>2. listed \subseteq Devices
    BY <1>1 DEF Page, kSubset, RowsSound, RowsTypeOK
  <1>3. CollectorSound(collector')
    <2>1. CASE listed = {}
      BY <1>1, <2>1, RestType, TimeoutType DEF CollectorSound
    <2>2. CASE listed # {}
      <3>1. collector' = [at |-> "read", age |-> 0, todo |-> listed, batch |-> {}, left |-> <<>>]
        BY <1>1, <2>2 DEF Rest
      <3> QED
        BY <1>2, <3>1, TimeoutType DEF CollectorSound
    <2> QED
      BY <2>1, <2>2
  <1> QED
    BY <1>3, CollectorMoves DEF StartCollect, Turn, environment

LEMMA NextReadSound ==
    ASSUME RowsSound, NEW d, NEW batch, NextRead(d, batch),
           \A r \in batch : r.kind \in ToSet(Kinds) /\ r.device \in Devices
    PROVE  CollectorSound(collector')
  <1>1. collector = [at |-> collector.at, age |-> collector.age, todo |-> collector.todo,
                     batch |-> collector.batch, left |-> collector.left]
    BY DEF RowsSound
  <1>2. PICK at \in {"insert", "read"} :
            collector' = [at |-> at, age |-> collector.age, todo |-> collector.todo \ {d},
                          batch |-> batch, left |-> Kinds]
    BY <1>1 DEF NextRead
  <1> QED
    BY <1>2 DEF CollectorSound, RowsSound, RowsTypeOK

LEMMA CollectDeviceRows ==
    ASSUME RowsSound, NEW d \in Devices, CollectDevice(d) PROVE RowsSound'
  <1> DEFINE parsed == Parsed[tree[d]]
             samples == UNION {{[kind |-> k, device |-> d, sample |-> s] : s \in parsed[k]}
                               : k \in ToSet(Kinds)}
  <1>1. NextRead(d, collector.batch \cup samples)
    BY DEF CollectDevice
  <1>2. \A r \in samples : r.kind \in ToSet(Kinds) /\ r.device \in Devices
    OBVIOUS
  <1> HIDE DEF samples
  <1>3. CollectorSound(collector')
    BY <1>1, <1>2, NextReadSound DEF RowsSound
  <1> QED
    BY <1>3, CollectorMoves DEF CollectDevice, environment, scheduling

LEMMA InsertKindRows ==
    ASSUME RowsSound, NEW fails \in BOOLEAN, InsertKind(fails) PROVE RowsSound'
  <1>1. collector = [at |-> collector.at, age |-> collector.age, todo |-> collector.todo,
                     batch |-> collector.batch, left |-> collector.left]
    BY DEF RowsSound
  <1>2. CollectorSound(collector')
    <2>1. CASE collector' = Rest
      BY <2>1, RestType, TimeoutType DEF CollectorSound
    <2>2. CASE collector' = [collector EXCEPT !.left = Tail(@)]
      <3>1. collector' = [at |-> collector.at, age |-> collector.age, todo |-> collector.todo,
                          batch |-> collector.batch, left |-> Tail(collector.left)]
        BY <1>1, <2>2
      <3> QED
        BY <3>1 DEF CollectorSound, RowsSound, RowsTypeOK
    <2> QED
      BY <2>1, <2>2 DEF InsertKind
  <1>3. CASE fails
    BY <1>2, <1>3, CollectorMoves DEF InsertKind, environment, scheduling
  <1>4. CASE ~fails
    <2> DEFINE batch == {r \in collector.batch : r.kind = Head(collector.left)}
    <2>1. /\ rows' = rows \cup {[kind |-> r.kind, device |-> r.device, sample |-> r.sample,
                                 age |-> collector.age] : r \in Copied(batch)}
          /\ UNCHANGED <<online, tree, due, clock, busy, faults>>
      BY <1>4 DEF InsertKind, environment, scheduling
    <2>2. Copied(batch) \subseteq collector.batch
      BY DEF Copied
    <2> HIDE DEF batch
    <2>3. ASSUME NEW q \in rows'
          PROVE  /\ RowShape(q)
                 /\ q.kind \in ToSet(Kinds) /\ q.device \in Devices /\ q.age \in 0 .. MaxAge
      <3>1. CASE q \in rows
        BY <3>1 DEF RowsSound, RowsTypeOK
      <3>2. CASE q \notin rows
        <4>3. PICK age \in 0 .. MaxAge : age = collector.age
          BY AgeType
        <4>1. PICK r \in collector.batch :
                  q = [kind |-> r.kind, device |-> r.device, sample |-> r.sample, age |-> age]
          BY <2>1, <2>2, <3>2, <4>3
        <4>2. r.kind \in ToSet(Kinds) /\ r.device \in Devices
          BY DEF RowsSound
        <4> QED
          BY <4>1, <4>2 DEF RowShape
      <3> QED
        BY <3>1, <3>2
    <2> QED
      BY <1>2, <2>1, <2>3 DEF RowsSound, RowsTypeOK, CollectorSound, RowShape
  <1> QED
    BY <1>3, <1>4

LEMMA CollectFaultRows ==
    ASSUME RowsSound, CollectFault PROVE RowsSound'
  <1>1. CollectorSound(collector)
    BY DEF RowsSound, RowsTypeOK, CollectorSound
  <1>2. CASE CollectFails
    BY <1>1, <1>2, CollectorMoves DEF CollectFails, Turn, environment, telemetry
  <1>3. CASE CollectDies
    <2>1. CollectorSound(collector')
      BY <1>3, RestType, TimeoutType DEF CollectDies, CollectorSound
    <2> QED
      BY <1>3, <2>1, CollectorMoves DEF CollectDies, environment, scheduling
  <1>4. CASE InsertKind(TRUE)
    BY <1>4, InsertKindRows
  <1>5. ASSUME NEW d \in Devices, DeviceReadFails(d) PROVE RowsSound'
    <2>1. CollectorSound(collector')
      BY <1>1, <1>5, NextReadSound DEF DeviceReadFails, CollectorSound
    <2> QED
      BY <1>5, <2>1, CollectorMoves DEF DeviceReadFails, environment, scheduling
  <1> QED
    BY <1>2, <1>3, <1>4, <1>5 DEF CollectFault

LEMMA OutsideRows ==
    ASSUME RowsSound, Outside PROVE RowsSound'
  <1>1. RowsTypeOK
    BY DEF RowsSound
  <1>2. ASSUME NEW d \in Devices, NEW t \in Trees, Inform(d, t) PROVE RowsSound'
    <2>1. tree' \in [Devices -> Trees]
      BY <1>1, <1>2 DEF Inform, RowsTypeOK
    <2> QED
      BY <1>1, <1>2, <2>1 DEF Inform, telemetry, scheduling, RowsSound, RowsTypeOK, RowShape
  <1>3. ASSUME NEW d \in Devices, SetStatus(d) PROVE RowsSound'
    <2>1. online' \subseteq Devices
      BY <1>1, <1>3 DEF SetStatus, RowsTypeOK
    <2> QED
      BY <1>1, <1>3, <2>1 DEF SetStatus, telemetry, scheduling, RowsSound, RowsTypeOK, RowShape
  <1> QED
    BY <1>2, <1>3 DEF Outside, Collector

LEMMA RowsSoundStep == RowsSound /\ [Next]_vars => RowsSound'
  <1> SUFFICES ASSUME RowsSound, [Next]_vars PROVE RowsSound'
    OBVIOUS
  <1>1. CASE UNCHANGED vars
    BY <1>1, QuietSound DEF vars, Quiet
  <1>2. CASE StartTick \/ EngineStep \/ EngineFault \/ Operators
    BY <1>2, EngineQuiet, QuietSound
  <1>3. CASE Minute
    BY <1>3, MinuteRows
  <1>4. CASE Collector(StartCollect)
    BY <1>4, StartCollectRows DEF Collector
  <1>5. CASE Collector(CollectStep)
    BY <1>5, CollectDeviceRows, InsertKindRows DEF Collector, CollectStep
  <1>6. CASE Collector(CollectFault)
    BY <1>6, CollectFaultRows DEF Collector
  <1>7. CASE Outside
    BY <1>7, OutsideRows
  <1> QED
    BY <1>1, <1>2, <1>3, <1>4, <1>5, <1>6, <1>7 DEF Next, TickStarts

LEMMA RowsSoundInit == Init => RowsSound
  <1> SUFFICES ASSUME Init PROVE RowsSound
    OBVIOUS
  <1>1. CollectEvery \in Nat \ {0} /\ 0 \in 0 .. MaxFaults
    BY ConstantsAssumption
  <1> QED
    BY <1>1, RestType, TimeoutType, ConstantsAssumption DEF Init, TelemetryInit, RowsSound, RowsTypeOK

\* The types of the tables, of the engine and of the collector, whatever the devices
\* report, fails or dies.
THEOREM TypeCorrect == Spec => []TypeOK
  <1>1. EngineSound /\ ToldSound /\ RowsSound => TypeOK
    <2> SUFFICES ASSUME EngineSound, ToldSound, RowsSound PROVE TypeOK
      OBVIOUS
    <2>1. RowsTypeOK
      BY DEF RowsSound
    <2>2. engine.at \in {"idle", "rules", "skip", "clear", "check", "create", "deliver"}
      BY DEF EngineSound, EngineRow
    <2>4. engine.late \in 0 .. 1
      BY DEF EngineSound, EngineRow
    <2>3. ASSUME NEW a \in AlertIds, alert[a] # Closed
          PROVE  /\ alert[a].rule \in Rules /\ alert[a].device \in Devices \cup {NoDevice}
                 /\ alert[a].told \subseteq alert[a].channels
      BY <2>3 DEF EngineSound, AlertRow, ToldSound
    <2> QED
      BY <2>1, <2>2, <2>3, <2>4 DEF TypeOK, EngineSound
  <1> QED
    BY <1>1, EngineSoundAlways, ToldSoundAlways, RowsSoundInit, RowsSoundStep, PTL DEF Spec

-----------------------------------------------------------------------------
(* The hosts of a tree.                                                    *)

HostRow(h)  == [mac |-> h.mac]
HostRows(t) == {HostRow(Hosts(t)[n]) : n \in 1 .. Len(Hosts(t))}

\* What may be kept of a tree: each MAC once, and MaxHosts at most.
KeptHosts(t) ==
    {out \in Seq(HostRows(t)) :
        /\ Len(out) <= MaxHosts
        /\ \A i, j \in 1 .. Len(out) : out[i].mac = out[j].mac => i = j}

LEMMA KeepHostKeeps ==
    ASSUME NEW t \in Trees, NEW n \in 1 .. Len(Hosts(t)), NEW out \in KeptHosts(t)
    PROVE  KeepHost(out, Hosts(t)[n]) \in KeptHosts(t)
  <1> DEFINE h == Hosts(t)[n]
             row == HostRow(h)
  <1>1. out \in Seq(HostRows(t)) /\ Len(out) \in Nat /\ DOMAIN out = 1 .. Len(out)
    BY LenProperties DEF KeptHosts
  <1>2. row \in HostRows(t) /\ row.mac = h.mac
    BY DEF HostRows, HostRow
  <1>3. CASE h.mac = Missing \/ Len(out) >= MaxHosts \/ \E i \in DOMAIN out : out[i].mac = h.mac
    BY <1>3 DEF KeepHost
  <1>4. CASE ~(h.mac = Missing \/ Len(out) >= MaxHosts \/ \E i \in DOMAIN out : out[i].mac = h.mac)
    <2> DEFINE next == Append(out, row)
    <2>1. KeepHost(out, h) = next
      BY <1>4 DEF KeepHost, HostRow
    <2>2. \A i \in 1 .. Len(out) : out[i].mac # row.mac
      BY <1>1, <1>2, <1>4
    <2> HIDE DEF h, row
    <2>3. /\ next \in Seq(HostRows(t)) /\ Len(next) = Len(out) + 1
          /\ next[Len(out) + 1] = row
          /\ \A i \in 1 .. Len(out) : next[i] = out[i]
      BY <1>1, <1>2, AppendProperties
    <2>4. Len(next) <= MaxHosts
      BY <1>1, <1>4, <2>3, HostsAssumption DEF h
    <2> HIDE DEF next
    <2>5. ASSUME NEW i \in 1 .. Len(next), NEW j \in 1 .. Len(next), next[i].mac = next[j].mac
          PROVE  i = j
      <3>1. i \in 1 .. Len(out) \/ i = Len(out) + 1
        BY <1>1, <2>3
      <3>2. j \in 1 .. Len(out) \/ j = Len(out) + 1
        BY <1>1, <2>3
      <3> QED
        BY <2>2, <2>3, <2>5, <3>1, <3>2 DEF KeptHosts
    <2> QED
      BY <2>1, <2>3, <2>4, <2>5 DEF KeptHosts, h
  <1> QED
    BY <1>3, <1>4

\* By induction over the tables: parseHosts returns such a list.
LEMMA ParseHostsKeeps == ASSUME NEW t \in Trees PROVE ParseHosts(t) \in KeptHosts(t)
  <1> DEFINE N == Len(Hosts(t))
             G == [x \in (1 .. N) \X KeptHosts(t) |-> KeepHost(x[2], Hosts(t)[x[1]])]
  <1>1. N \in Nat
    BY HostsAssumption
  <1>2. <<>> \in KeptHosts(t)
    <2>1. <<>> \in Seq(HostRows(t)) /\ Len(<<>>) = 0
      BY EmptySeq
    <2>2. Len(<<>>) <= MaxHosts /\ \A i \in 1 .. Len(<<>>) : FALSE
      BY <2>1, HostsAssumption
    <2> QED
      BY <2>1, <2>2 DEF KeptHosts
  <1>3. \A n \in 1 .. N, x \in KeptHosts(t) :
            G[<<n, x>>] = KeepHost(x, Hosts(t)[n]) /\ G[<<n, x>>] \in KeptHosts(t)
    BY KeepHostKeeps
  <1> DEFINE Keeping(f) == f = [n \in 0 .. N |-> IF n = 0 THEN <<>>
                                                 ELSE KeepHost(f[n - 1], Hosts(t)[n])]
  <1> HIDE DEF N, G
  <1>4. PICK g : StepByStep(g, N, <<>>, G)
    BY <1>1, StepsExist
  <1>5. \A n \in 0 .. N : g[n] \in KeptHosts(t)
    BY <1>1, <1>2, <1>3, <1>4, StepsStay
  <1>6. Keeping(g)
    <2>1. ASSUME NEW n \in 0 .. N, n # 0 PROVE G[<<n, g[n - 1]>>] = KeepHost(g[n - 1], Hosts(t)[n])
      <3>1. n \in 1 .. N /\ n - 1 \in 0 .. N
        BY <1>1, <2>1
      <3> QED
        BY <1>3, <1>5, <3>1
    <2>2. g = [n \in 0 .. N |-> IF n = 0 THEN <<>> ELSE G[<<n, g[n - 1]>>]]
      BY <1>4, Zenon DEF StepByStep
    <2> QED
      BY <2>1, <2>2, Zenon
  <1> DEFINE f == CHOOSE f : Keeping(f)
  <1>7. Keeping(f)
    BY <1>6, Zenon
  <1>8. ParseHosts(t) = f[N]
    BY Zenon DEF ParseHosts, N
  <1> HIDE DEF f
  <1>9. \A n \in 0 .. N : f[n] \in KeptHosts(t)
    <2> DEFINE S == {n \in 0 .. N : f[n] \in KeptHosts(t)}
    <2>1. 0 \in S
      BY <1>1, <1>2, <1>7
    <2>2. ASSUME NEW n \in 0 .. N - 1, n \in S PROVE n + 1 \in S
      <3>1. n + 1 \in 1 .. N /\ n + 1 \in 0 .. N /\ n + 1 # 0 /\ (n + 1) - 1 = n
        BY <1>1
      <3>2. f[n + 1] = KeepHost(f[n], Hosts(t)[n + 1])
        BY <1>7, <3>1
      <3> QED
        BY <2>2, <3>1, <3>2, KeepHostKeeps DEF N
    <2> HIDE DEF S
    <2>3. 0 .. N \subseteq S
      BY <1>1, <2>1, <2>2, BoundedInduction
    <2> QED
      BY <2>3 DEF S
  <1> QED
    BY <1>1, <1>8, <1>9

\* parser.go:392: whatever tables a device fills, and however many entries they share,
\* parseHosts records each MAC once and no more than MaxHosts of them.
THEOREM HostsKeptOnce ==
    ASSUME NEW t \in Trees
    PROVE  /\ IsFiniteSet(Parsed[t].hosts) /\ Cardinality(Parsed[t].hosts) <= MaxHosts
           /\ \A g, h \in Parsed[t].hosts : g.mac = h.mac => g = h
  <1>1. PICK s : s = ParseHosts(t)
    OBVIOUS
  <1>2. s \in Seq(HostRows(t)) /\ Len(s) <= MaxHosts
          /\ \A i, j \in 1 .. Len(s) : s[i].mac = s[j].mac => i = j
    BY <1>1, ParseHostsKeeps DEF KeptHosts
  <1>3. Len(s) \in Nat /\ s \in [1 .. Len(s) -> HostRows(t)] /\ MaxHosts \in Nat
    BY <1>2, LenProperties, HostsAssumption
  <1>4. Parsed[t].hosts = {s[i] : i \in 1 .. Len(s)}
    BY <1>1, <1>3 DEF Parsed, ParseDeviceFull, ToSet
  <1>5. s \in Surjection(1 .. Len(s), Parsed[t].hosts)
    BY <1>3, <1>4 DEF Surjection
  <1>6. IsFiniteSet(1 .. Len(s)) /\ Cardinality(1 .. Len(s)) = Len(s)
    BY <1>3, FS_Interval
  <1>7. /\ IsFiniteSet(Parsed[t].hosts)
        /\ Cardinality(Parsed[t].hosts) <= Len(s)
    BY <1>5, <1>6, FS_Surjection
  <1>8. Cardinality(Parsed[t].hosts) <= MaxHosts
    BY <1>2, <1>3, <1>7, FS_CardinalityType
  <1> QED
    BY <1>2, <1>4, <1>7, <1>8

-----------------------------------------------------------------------------
(* A device's samples of a minute are those of one tree.                   *)

\* A step that writes no sample and lets the collector be.
LEMMA CollectedQuiet ==
    ASSUME CollectedOnce, UNCHANGED <<rows, collector>>, due' \subseteq due PROVE CollectedOnce'
  <1>1. rows' = rows /\ collector' = collector
    OBVIOUS
  <1> QED
    BY <1>1, Zenon DEF CollectedOnce, Collecting

LEMMA RestCollects ==
    ASSUME CollectedOnce, UNCHANGED rows, due' \subseteq due, collector' = Rest PROVE CollectedOnce'
  <1>1. /\ collector'.at = "idle" /\ collector'.todo = {} /\ collector'.batch = {}
        /\ DOMAIN collector'.left = {} /\ collector'.left \in Seq(ToSet(Kinds))
    BY EmptySeq DEF Rest
  <1>2. \A k \in ToSet(Kinds), d \in Devices : SamplesOf(collector.batch, k, d)' = {}
    BY <1>1 DEF SamplesOf
  <1>3. ~Collecting'
    BY <1>1 DEF Collecting
  <1>4. \A k \in ToSet(Kinds), d \in Devices, age \in 0 .. MaxAge :
            OneTree(k, SamplesOf({r \in rows' : r.age = age}, k, d))
    BY DEF CollectedOnce
  <1>5. "collect" \in due' => \A r \in rows' : r.age > 0
    BY DEF CollectedOnce
  <1>6. \A k \in ToSet(Kinds), d \in Devices : OneTree(k, SamplesOf(collector'.batch, k, d))
    BY <1>2 DEF OneTree
  <1> QED
    BY <1>1, <1>3, <1>4, <1>5, <1>6 DEF CollectedOnce

LEMMA StartCollects ==
    ASSUME CollectedOnce, StartCollect PROVE CollectedOnce'
  <1>1. PICK listed \in Page(online) :
            collector' = IF listed = {} THEN Rest
                         ELSE [Rest EXCEPT !.at = "read", !.todo = listed]
    BY DEF StartCollect
  <1>2. CASE listed = {}
    BY <1>1, <1>2, RestCollects DEF StartCollect, Turn
  <1>3. CASE listed # {}
    <2>1. /\ collector'.at = "read" /\ collector'.age = 0 /\ collector'.batch = {} /\ DOMAIN collector'.left = {}
          /\ collector'.left \in Seq(ToSet(Kinds))
      BY <1>1, <1>3, EmptySeq DEF Rest
    <2>2. "collect" \notin due' /\ rows' = rows /\ \A r \in rows : r.age > 0
      BY DEF StartCollect, Turn, CollectedOnce
    <2>3. \A k \in ToSet(Kinds), d \in Devices : SamplesOf(collector.batch, k, d)' = {}
      BY <2>1 DEF SamplesOf
    <2>4. \A k \in ToSet(Kinds), d \in Devices, age \in 0 .. MaxAge :
              OneTree(k, SamplesOf({r \in rows' : r.age = age}, k, d))
      BY <2>2 DEF CollectedOnce
    <2>5. \A k \in ToSet(Kinds), d \in Devices : OneTree(k, SamplesOf(collector'.batch, k, d))
      BY <2>3 DEF OneTree
    <2> QED
      BY <2>1, <2>2, <2>3, <2>4, <2>5 DEF CollectedOnce
  <1> QED
    BY <1>2, <1>3

LEMMA KindsDistinct ==
    /\ Kinds # <<>> /\ Kinds \in Seq(ToSet(Kinds))
    /\ \A i, j \in DOMAIN Kinds : Kinds[i] = Kinds[j] => i = j
  <1>1. Kinds # <<>> /\ DOMAIN Kinds = 1 .. 4 /\ Len(Kinds) = 4
          /\ \A i, j \in 1 .. 4 : Kinds[i] = Kinds[j] => i = j
    BY DEF Kinds
  <1>2. ToSet(Kinds) = {"wifi", "wan", "system", "hosts"}
    <2>1. 1 .. 4 = {1, 2, 3, 4}
      OBVIOUS
    <2> QED
      BY <1>1, <2>1 DEF ToSet, Kinds
  <1>3. Kinds \in Seq({"wifi", "wan", "system", "hosts"})
    BY DEF Kinds
  <1> QED
    BY <1>1, <1>2, <1>3

\* A device has been read, or could not be.
LEMMA ReadCollects ==
    ASSUME RowsSound, CollectedOnce, NEW d \in Devices, d \in collector.todo,
           collector.at = "read", NEW batch, NextRead(d, batch),
           UNCHANGED <<rows, due>>,
           \A k \in ToSet(Kinds), e \in Devices :
               /\ e # d => SamplesOf(batch, k, e) = SamplesOf(collector.batch, k, e)
               /\ OneTree(k, SamplesOf(batch, k, d))
    PROVE  CollectedOnce'
  <1>1. collector = [at |-> collector.at, age |-> collector.age, todo |-> collector.todo,
                     batch |-> collector.batch, left |-> collector.left]
    BY DEF RowsSound
  <1>2. PICK at \in {"insert", "read"} :
            collector' = [at |-> at, age |-> collector.age, todo |-> collector.todo \ {d},
                          batch |-> batch, left |-> Kinds]
    BY <1>1 DEF NextRead
  <1>3. "collect" \in due => collector.age > 0 /\ \A r \in rows : r.age > 0
    BY DEF CollectedOnce, Collecting
  <1>4. \A r \in rows : r.age > collector.age /\ r.age \in Int /\ collector.age \in Int
    BY DEF CollectedOnce, RowsSound, RowsTypeOK
  <1>5. ASSUME NEW k \in ToSet(Kinds), NEW e \in Devices
        PROVE  /\ OneTree(k, SamplesOf(batch, k, e))
               /\ e \in collector.todo \ {d} => SamplesOf(batch, k, e) = {}
    BY DEF CollectedOnce
  <1>6. ASSUME NEW k \in ToSet(Kinds), NEW e \in Devices, NEW age \in 0 .. MaxAge
        PROVE  OneTree(k, SamplesOf({r \in rows' : r.age = age}, k, e))
    BY DEF CollectedOnce
  <1> QED
    <2>1. /\ collector'.at = at /\ collector'.age = collector.age /\ collector'.left = Kinds
          /\ collector'.todo = collector.todo \ {d} /\ collector'.batch = batch
      BY <1>2
    <2>2. "collect" \in due' => collector'.age > 0 /\ \A r \in rows' : r.age > 0
      BY <1>3, <2>1
    <2>3. \A r \in rows' : r.age > collector'.age /\ r.age >= collector'.age /\ r.age # collector'.age
      BY <1>4, <2>1
    <2> QED
      BY <1>5, <1>6, <2>1, <2>2, <2>3, KindsDistinct DEF CollectedOnce

LEMMA CollectDeviceCollects ==
    ASSUME RowsSound, CollectedOnce, NEW d \in Devices, CollectDevice(d) PROVE CollectedOnce'
  <1> DEFINE parsed == Parsed[tree[d]]
             samples == UNION {{[kind |-> k, device |-> d, sample |-> s] : s \in parsed[k]}
                               : k \in ToSet(Kinds)}
             batch == collector.batch \cup samples
  <1>1. /\ NextRead(d, batch) /\ UNCHANGED <<rows, due>>
        /\ d \in collector.todo /\ collector.at = "read"
    BY DEF CollectDevice, scheduling
  <1>2. tree[d] \in Trees
    BY DEF RowsSound, RowsTypeOK
  <1>3. ASSUME NEW k \in ToSet(Kinds), NEW e \in Devices, e # d
        PROVE  SamplesOf(batch, k, e) = SamplesOf(collector.batch, k, e)
    BY <1>3 DEF SamplesOf
  <1>4. ASSUME NEW k \in ToSet(Kinds)
        PROVE  SamplesOf(batch, k, d) = parsed[k]
    <2>1. SamplesOf(collector.batch, k, d) = {}
      BY <1>1 DEF CollectedOnce
    <2>2. SamplesOf(samples, k, d) = parsed[k]
      <3>1. ASSUME NEW s \in parsed[k] PROVE s \in SamplesOf(samples, k, d)
        <4>1. [kind |-> k, device |-> d, sample |-> s] \in samples
          OBVIOUS
        <4> QED
          BY <4>1 DEF SamplesOf
      <3>2. ASSUME NEW r \in samples, r.kind = k PROVE r.sample \in parsed[k]
        BY <3>2
      <3> QED
        BY <3>1, <3>2 DEF SamplesOf
    <2> HIDE DEF samples, parsed
    <2>3. SamplesOf(batch, k, d) = SamplesOf(collector.batch, k, d) \cup SamplesOf(samples, k, d)
      BY DEF SamplesOf
    <2> QED
      BY <2>1, <2>2, <2>3
  <1>5. ASSUME NEW k \in ToSet(Kinds) PROVE OneTree(k, SamplesOf(batch, k, d))
    BY <1>2, <1>4 DEF OneTree
  <1> HIDE DEF batch
  <1> QED
    BY <1>1, <1>3, <1>5, ReadCollects

LEMMA DeviceReadFailsCollects ==
    ASSUME RowsSound, CollectedOnce, NEW d \in Devices, DeviceReadFails(d) PROVE CollectedOnce'
  <1>1. /\ NextRead(d, collector.batch) /\ UNCHANGED <<rows, due>>
        /\ d \in collector.todo /\ collector.at = "read"
    BY DEF DeviceReadFails, scheduling
  <1>2. \A k \in ToSet(Kinds) : OneTree(k, SamplesOf(collector.batch, k, d))
    BY DEF CollectedOnce
  <1> QED
    BY <1>1, <1>2, ReadCollects

\* Every kind is written once: what is left after the first has no sample of it.
LEMMA TailDistinct ==
    ASSUME NEW S, NEW s \in Seq(S), s # <<>>, \A i, j \in DOMAIN s : s[i] = s[j] => i = j
    PROVE  /\ Tail(s) \in Seq(S) /\ Head(s) \in ToSet(s)
           /\ Head(s) \notin ToSet(Tail(s)) /\ ToSet(Tail(s)) \subseteq ToSet(s)
           /\ \A i, j \in DOMAIN Tail(s) : Tail(s)[i] = Tail(s)[j] => i = j
           /\ Len(s) # 1 => Tail(s) # <<>>
  <1>1. Len(s) \in Nat \ {0} /\ DOMAIN s = 1 .. Len(s) /\ Head(s) = s[1]
    BY EmptySeq, HeadTailProperties
  <1>2. /\ DOMAIN Tail(s) = 1 .. Len(s) - 1 /\ Tail(s) \in Seq(S) /\ Len(Tail(s)) = Len(s) - 1
        /\ \A i \in 1 .. Len(s) - 1 : Tail(s)[i] = s[i + 1]
    BY <1>1, HeadTailProperties
  <1>3. \A i \in 1 .. Len(s) - 1 : i + 1 \in 1 .. Len(s) /\ i + 1 # 1
    BY <1>1
  <1>4. Head(s) \in ToSet(s) /\ ToSet(Tail(s)) \subseteq ToSet(s)
    BY HeadAndTail
  <1>5. Head(s) \notin ToSet(Tail(s))
    <2> SUFFICES ASSUME NEW i \in 1 .. Len(s) - 1 PROVE Tail(s)[i] # s[1]
      BY <1>1, <1>2 DEF ToSet
    <2> QED
      BY <1>1, <1>2, <1>3
  <1>6. ASSUME NEW i \in DOMAIN Tail(s), NEW j \in DOMAIN Tail(s), Tail(s)[i] = Tail(s)[j]
        PROVE  i = j
    <2>1. i + 1 = j + 1
      BY <1>1, <1>2, <1>3, <1>6
    <2> QED
      BY <1>2, <2>1
  <1>7. Len(s) # 1 => Tail(s) # <<>>
    BY <1>1, <1>2, EmptySeq
  <1> QED
    BY <1>2, <1>4, <1>5, <1>6, <1>7

LEMMA AtInsert ==
    ASSUME CollectedOnce, collector.at = "insert", NEW r \in rows
    PROVE  /\ r.age >= collector.age
           /\ r.age = collector.age => r.kind \notin ToSet(collector.left)
  <1>1. collector.at = "insert" =>
          \A q \in rows : /\ q.age >= collector.age
                          /\ q.age = collector.age => q.kind \notin ToSet(collector.left)
    BY Zenon DEF CollectedOnce
  <1> QED
    BY <1>1

LEMMA InsertKindCollects ==
    ASSUME RowsSound, CollectedOnce, NEW fails \in BOOLEAN, InsertKind(fails) PROVE CollectedOnce'
  <1> DEFINE left  == collector.left
             kind  == Head(left)
             batch == {r \in collector.batch : r.kind = kind}
             new   == IF fails THEN {} ELSE {[kind |-> r.kind, device |-> r.device,
                                              sample |-> r.sample, age |-> collector.age] : r \in Copied(batch)}
  <1>1. /\ collector.at = "insert" /\ due' = due /\ rows' = rows \cup new
        /\ collector' = IF Len(left) = 1 THEN Rest ELSE [collector EXCEPT !.left = Tail(@)]
    BY DEF InsertKind, scheduling
  <1>2. /\ left \in Seq(ToSet(Kinds)) /\ left # <<>>
        /\ "collect" \in due => collector.age > 0 /\ \A r \in rows : r.age > 0
        /\ \A i, j \in DOMAIN left : left[i] = left[j] => i = j
        /\ \A r \in rows : /\ r.age >= collector.age
                           /\ r.age = collector.age => r.kind \notin ToSet(left)
        /\ collector.age \in Int
    <2>1. /\ left \in Seq(ToSet(Kinds)) /\ left # <<>>
          /\ \A i, j \in DOMAIN left : left[i] = left[j] => i = j
      BY <1>1 DEF CollectedOnce
    <2>2. "collect" \in due => collector.age > 0 /\ \A r \in rows : r.age > 0
      BY <1>1 DEF CollectedOnce, Collecting
    <2>3. \A r \in rows : /\ r.age >= collector.age
                          /\ r.age = collector.age => r.kind \notin ToSet(left)
      BY <1>1, AtInsert
    <2>4. collector.age \in Int
      BY AgeType
    <2> QED
      BY <2>1, <2>2, <2>3, <2>4
  <1>3. /\ Tail(left) \in Seq(ToSet(Kinds)) /\ kind \in ToSet(left) /\ kind \notin ToSet(Tail(left))
        /\ ToSet(Tail(left)) \subseteq ToSet(left)
        /\ \A i, j \in DOMAIN Tail(left) : Tail(left)[i] = Tail(left)[j] => i = j
        /\ Len(left) # 1 => Tail(left) # <<>>
    BY <1>2, TailDistinct
  <1>4. \A r \in new : r.kind = kind /\ r.age = collector.age
    BY DEF Copied
  <1>5. ASSUME NEW k \in ToSet(Kinds), NEW d \in Devices
        PROVE  OneTree(k, SamplesOf(new, k, d))
    <2>1. CASE new = {}
      BY <2>1 DEF OneTree, SamplesOf
    <2>2. CASE new # {}
      <3>1. ~fails /\ Copied(batch) = batch
        BY <2>2 DEF Copied
      <3>2. new = {[kind |-> r.kind, device |-> r.device, sample |-> r.sample, age |-> collector.age] : r \in batch}
        BY <3>1
      <3>3. CASE k = kind
        <4>1. SamplesOf(new, k, d) = SamplesOf(batch, k, d)
          <5>1. ASSUME NEW r \in batch, r.kind = k, r.device = d
                PROVE  r.sample \in SamplesOf(new, k, d)
            <6>1. PICK q \in new : q = [kind |-> r.kind, device |-> r.device,
                                        sample |-> r.sample, age |-> collector.age]
              BY <3>2
            <6> HIDE DEF new
            <6>2. q.kind = k /\ q.device = d /\ q.sample = r.sample
              BY <5>1, <6>1
            <6> QED
              BY <6>2, Zenon DEF SamplesOf
          <5>2. ASSUME NEW q \in new, q.kind = k, q.device = d
                PROVE  q.sample \in SamplesOf(batch, k, d)
            <6>1. PICK r \in batch : q = [kind |-> r.kind, device |-> r.device,
                                          sample |-> r.sample, age |-> collector.age]
              BY <3>2
            <6> HIDE DEF batch, new
            <6>2. r.kind = k /\ r.device = d /\ q.sample = r.sample
              BY <5>2, <6>1
            <6> QED
              BY <6>2, Zenon DEF SamplesOf
          <5> HIDE DEF new, batch
          <5> QED
            BY <5>1, <5>2, Zenon DEF SamplesOf
        <4>2. SamplesOf(batch, k, d) = SamplesOf(collector.batch, k, d)
          BY <3>3 DEF SamplesOf
        <4> QED
          BY <4>1, <4>2 DEF CollectedOnce
      <3>4. CASE k # kind
        <4>1. SamplesOf(new, k, d) = {}
          BY <1>4, <3>4 DEF SamplesOf
        <4> QED
          BY <4>1 DEF OneTree
      <3> QED
        BY <3>3, <3>4
    <2> QED
      BY <2>1, <2>2
  <1> HIDE DEF new, batch
  <1>6. ASSUME NEW k \in ToSet(Kinds), NEW d \in Devices, NEW age \in 0 .. MaxAge
        PROVE  OneTree(k, SamplesOf({r \in rows' : r.age = age}, k, d))
    <2> DEFINE old   == {r \in rows : r.age = age}
               added == {r \in new : r.age = age}
    <2>1. SamplesOf({r \in rows' : r.age = age}, k, d) = SamplesOf(old, k, d) \cup SamplesOf(added, k, d)
      BY <1>1 DEF SamplesOf
    <2>2. OneTree(k, SamplesOf(old, k, d))
      BY DEF CollectedOnce
    <2>3. CASE age = collector.age /\ k = kind
      <3>1. added = new
        BY <1>4, <2>3
      <3>2. SamplesOf(old, k, d) = {}
        BY <1>2, <1>3, <2>3 DEF SamplesOf
      <3> QED
        BY <1>5, <2>1, <3>1, <3>2
    <2>4. CASE ~(age = collector.age /\ k = kind)
      <3>1. SamplesOf(added, k, d) = {}
        BY <1>4, <2>4 DEF SamplesOf
      <3> QED
        BY <2>1, <2>2, <3>1
    <2> QED
      BY <2>3, <2>4
  <1>9. "collect" \in due' => collector.age > 0 /\ \A r \in rows' : r.age > 0
    BY <1>1, <1>2, <1>4
  <1>7. CASE Len(left) = 1
    <2>1. /\ collector'.at = "idle" /\ collector'.todo = {} /\ collector'.batch = {}
          /\ DOMAIN collector'.left = {} /\ collector'.left \in Seq(ToSet(Kinds))
      BY <1>1, <1>7, EmptySeq DEF Rest
    <2>2. \A k \in ToSet(Kinds), d \in Devices : OneTree(k, SamplesOf(collector'.batch, k, d))
      BY <2>1 DEF OneTree, SamplesOf
    <2> HIDE DEF left, kind
    <2> QED
      BY <1>1, <1>6, <1>9, <2>1, <2>2 DEF CollectedOnce, Collecting
  <1>8. CASE Len(left) # 1
    <2>1. collector = [at |-> collector.at, age |-> collector.age, todo |-> collector.todo,
                       batch |-> collector.batch, left |-> collector.left]
      BY DEF RowsSound
    <2>2. /\ collector'.at = "insert" /\ collector'.todo = collector.todo
          /\ collector'.batch = collector.batch /\ collector'.left = Tail(left)
          /\ collector'.age = collector.age
      BY <1>1, <1>8, <2>1
    <2>3. \A r \in rows' : /\ r.age >= collector.age
                           /\ r.age = collector.age => r.kind \notin ToSet(Tail(left))
      BY <1>1, <1>2, <1>3, <1>4
    <2>4. \A k \in ToSet(Kinds), d \in Devices :
             /\ OneTree(k, SamplesOf(collector'.batch, k, d))
             /\ d \in collector'.todo => SamplesOf(collector'.batch, k, d) = {}
      BY <2>2 DEF CollectedOnce
    <2> HIDE DEF left, kind
    <2> QED
      BY <1>3, <1>6, <1>8, <1>9, <2>2, <2>3, <2>4 DEF CollectedOnce
  <1> QED
    BY <1>7, <1>8

LEMMA CollectFaultCollects ==
    ASSUME RowsSound, CollectedOnce, CollectFault PROVE CollectedOnce'
  <1>1. CASE CollectFails
    BY <1>1, CollectedQuiet DEF CollectFails, Turn, telemetry
  <1>2. CASE CollectDies
    BY <1>2, RestCollects DEF CollectDies, scheduling
  <1>3. CASE InsertKind(TRUE)
    BY <1>3, InsertKindCollects
  <1>4. CASE \E d \in Devices : DeviceReadFails(d)
    BY <1>4, DeviceReadFailsCollects
  <1> QED
    BY <1>1, <1>2, <1>3, <1>4 DEF CollectFault

\* A minute later every sample is a minute older, and none is of this minute.
LEMMA MinuteCollects ==
    ASSUME RowsSound, CollectedOnce, Minute PROVE CollectedOnce'
  <1>1. MaxAge \in Nat /\ RowsTypeOK
    BY ConstantsAssumption DEF RowsSound
  <1>2. rows' = {[r EXCEPT !.age = @ + 1] : r \in {s \in rows : s.age < MaxAge}}
    BY DEF Minute, Grow
  <1>3. /\ collector'.at = collector.at /\ collector'.todo = collector.todo
        /\ collector'.batch = collector.batch /\ collector'.left = collector.left
        /\ Collecting => collector'.age = collector.age + 1
        /\ collector.age \in Nat
    BY MinuteCollector, TimeoutType DEF RowsSound, RowsTypeOK
  <1>4. ASSUME NEW r \in rows, r.age < MaxAge
        PROVE  \E q \in rows' : /\ q.kind = r.kind /\ q.device = r.device /\ q.sample = r.sample
                                /\ q.age = r.age + 1
    <2>1. r = [kind |-> r.kind, device |-> r.device, sample |-> r.sample, age |-> r.age]
      BY DEF RowsSound, RowShape
    <2>2. PICK q : q = [r EXCEPT !.age = @ + 1]
      OBVIOUS
    <2>3. q \in rows'
      BY <1>2, <1>4, <2>2
    <2>4. q = [kind |-> r.kind, device |-> r.device, sample |-> r.sample, age |-> r.age + 1]
      BY <2>1, <2>2
    <2> QED
      BY <2>3, <2>4
  <1>5. ASSUME NEW q \in rows'
        PROVE  \E r \in rows : /\ q.kind = r.kind /\ q.device = r.device /\ q.sample = r.sample
                               /\ q.age = r.age + 1 /\ r.age < MaxAge
    <2>1. PICK r \in rows : r.age < MaxAge /\ q = [r EXCEPT !.age = @ + 1]
      BY <1>2
    <2>2. r = [kind |-> r.kind, device |-> r.device, sample |-> r.sample, age |-> r.age]
      BY DEF RowsSound, RowShape
    <2>3. q = [kind |-> r.kind, device |-> r.device, sample |-> r.sample, age |-> r.age + 1]
      BY <2>1, <2>2
    <2> QED
      BY <2>1, <2>3
  <1>6. \A r \in rows : r.age \in 0 .. MaxAge
    BY <1>1 DEF RowsTypeOK
  <1>7. \A q \in rows' : q.age > 0 /\ q.age # 0
    BY <1>1, <1>5, <1>6
  <1>8. ASSUME NEW k \in ToSet(Kinds), NEW d \in Devices, NEW age \in 0 .. MaxAge
        PROVE  OneTree(k, SamplesOf({r \in rows' : r.age = age}, k, d))
    <2>1. CASE age = 0
      <3>1. SamplesOf({r \in rows' : r.age = age}, k, d) = {}
        BY <1>7, <2>1 DEF SamplesOf
      <3> QED
        BY <3>1 DEF OneTree
    <2>2. CASE age # 0
      <3> DEFINE older   == {r \in rows' : r.age = age}
                 younger == {r \in rows : r.age = age - 1}
      <3>1. age - 1 \in 0 .. MaxAge /\ age - 1 < MaxAge /\ (age - 1) + 1 = age
        BY <1>1, <2>2
      <3>2. ASSUME NEW r \in younger, r.kind = k, r.device = d PROVE r.sample \in SamplesOf(older, k, d)
        <4>1. PICK q \in rows' : q.kind = k /\ q.device = d /\ q.sample = r.sample /\ q.age = age
          BY <1>4, <3>1, <3>2
        <4> QED
          BY <4>1, Zenon DEF SamplesOf
      <3>3. ASSUME NEW q \in older, q.kind = k, q.device = d PROVE q.sample \in SamplesOf(younger, k, d)
        <4>1. PICK r \in rows : q.kind = r.kind /\ q.device = r.device /\ q.sample = r.sample
                                  /\ q.age = r.age + 1
          BY <1>5, <3>3
        <4>2. r.age = age - 1
          BY <1>6, <3>1, <3>3, <4>1
        <4> QED
          BY <3>3, <4>1, <4>2, Zenon DEF SamplesOf
      <3> HIDE DEF older, younger
      <3>4. SamplesOf(older, k, d) = SamplesOf(younger, k, d)
        BY <3>2, <3>3, Zenon DEF SamplesOf
      <3>5. OneTree(k, SamplesOf(younger, k, d))
        BY <3>1 DEF CollectedOnce, younger
      <3> QED
        BY <3>4, <3>5 DEF older
    <2> QED
      BY <2>1, <2>2
  <1>9. "collect" \in due' => /\ Collecting' => collector'.age > 0
                              /\ \A q \in rows' : q.age > 0
    BY <1>3, <1>7 DEF Collecting
  <1>10. collector'.at = "read" => \A q \in rows' : q.age > collector'.age
    <2> SUFFICES ASSUME collector'.at = "read", NEW q \in rows' PROVE q.age > collector'.age
      OBVIOUS
    <2>1. PICK r \in rows : q.age = r.age + 1
      BY <1>5
    <2>2. r.age > collector.age /\ collector'.age = collector.age + 1
      BY <1>3 DEF CollectedOnce, Collecting
    <2> QED
      BY <1>3, <1>6, <2>1, <2>2
  <1>11. collector'.at = "insert" =>
           /\ collector'.left # <<>>
           /\ \A q \in rows' : /\ q.age >= collector'.age
                               /\ q.age = collector'.age => q.kind \notin ToSet(collector'.left)
    <2> SUFFICES ASSUME collector'.at = "insert"
                 PROVE  /\ collector'.left # <<>>
                        /\ \A q \in rows' : /\ q.age >= collector'.age
                                            /\ q.age = collector'.age => q.kind \notin ToSet(collector'.left)
      OBVIOUS
    <2>1. collector.left # <<>> /\ collector'.age = collector.age + 1
      BY <1>3 DEF CollectedOnce, Collecting
    <2>2. \A r \in rows : /\ r.age >= collector.age
                          /\ r.age = collector.age => r.kind \notin ToSet(collector.left)
      BY <1>3 DEF CollectedOnce
    <2>3. ASSUME NEW q \in rows'
          PROVE  /\ q.age >= collector'.age
                 /\ q.age = collector'.age => q.kind \notin ToSet(collector'.left)
      <3>1. PICK r \in rows : q.age = r.age + 1 /\ q.kind = r.kind
        BY <1>5
      <3> QED
        BY <1>3, <1>6, <2>1, <2>2, <3>1
    <2> QED
      BY <1>3, <2>1, <2>3
  <1>12. /\ collector'.left \in Seq(ToSet(Kinds))
         /\ \A i, j \in DOMAIN collector'.left : collector'.left[i] = collector'.left[j] => i = j
         /\ \A k \in ToSet(Kinds), d \in Devices :
               /\ OneTree(k, SamplesOf(collector'.batch, k, d))
               /\ d \in collector'.todo => SamplesOf(collector'.batch, k, d) = {}
    BY <1>3 DEF CollectedOnce
  <1> QED
    BY <1>8, <1>9, <1>10, <1>11, <1>12 DEF CollectedOnce

LEMMA CollectedOnceStep == RowsSound /\ CollectedOnce /\ [Next]_vars => CollectedOnce'
  <1> SUFFICES ASSUME RowsSound, CollectedOnce, [Next]_vars PROVE CollectedOnce'
    OBVIOUS
  <1>1. CASE UNCHANGED vars
    BY <1>1, CollectedQuiet DEF vars
  <1>2. CASE StartTick \/ EngineStep \/ EngineFault \/ Operators
    BY <1>2, EngineQuiet, CollectedQuiet DEF Quiet
  <1>3. CASE Minute
    BY <1>3, MinuteCollects
  <1>4. CASE Collector(StartCollect)
    BY <1>4, StartCollects DEF Collector
  <1>5. CASE Collector(CollectStep)
    BY <1>5, CollectDeviceCollects, InsertKindCollects DEF Collector, CollectStep
  <1>6. CASE Collector(CollectFault)
    BY <1>6, CollectFaultCollects DEF Collector
  <1>7. CASE Outside
    BY <1>7, CollectedQuiet DEF Outside, Collector, Inform, SetStatus, telemetry, scheduling
  <1> QED
    BY <1>1, <1>2, <1>3, <1>4, <1>5, <1>6, <1>7 DEF Next, TickStarts

LEMMA CollectedOnceInit == Init => CollectedOnce
  <1> SUFFICES ASSUME Init PROVE CollectedOnce
    OBVIOUS
  <1>1. /\ rows = {} /\ due = {} /\ collector.at = "idle" /\ collector.todo = {}
        /\ collector.batch = {} /\ DOMAIN collector.left = {}
        /\ collector.left \in Seq(ToSet(Kinds))
    BY EmptySeq DEF Init, TelemetryInit, Rest
  <1>2. \A k \in ToSet(Kinds), d \in Devices :
            /\ SamplesOf(collector.batch, k, d) = {}
            /\ \A age \in 0 .. MaxAge : SamplesOf({r \in rows : r.age = age}, k, d) = {}
    BY <1>1 DEF SamplesOf
  <1> QED
    BY <1>1, <1>2 DEF CollectedOnce, OneTree

\* Rows of a tick are as many as their samples.
LEMMA HostsOfTick ==
    ASSUME RowsSound, CollectedOnce, NEW r \in rows
    PROVE  /\ Cardinality({q.sample.mac : q \in SameTick(r, "hosts")})
                = Cardinality(SameTick(r, "hosts"))
           /\ Cardinality(SameTick(r, "hosts")) <= MaxHosts
  <1> DEFINE Same    == SameTick(r, "hosts")
             Samples == SamplesOf({q \in rows : q.age = r.age}, "hosts", r.device)
             Macs    == {q.sample.mac : q \in Same}
             f       == [q \in Same |-> q.sample]
             g       == [q \in Same |-> q.sample.mac]
  <1>1. r.device \in Devices /\ r.age \in 0 .. MaxAge /\ "hosts" \in ToSet(Kinds)
    BY DEF RowsSound, RowsTypeOK, Kinds, ToSet
  <1>2. Samples = {q.sample : q \in Same}
    BY DEF SamplesOf, SameTick
  <1>3. OneTree("hosts", Samples)
    BY <1>1 DEF CollectedOnce
  <1> HIDE DEF Samples
  <1>4. /\ IsFiniteSet(Samples) /\ Cardinality(Samples) <= MaxHosts
        /\ \A a, b \in Samples : a.mac = b.mac => a = b
    <2>1. CASE Samples = {}
      BY <2>1, FS_EmptySet, HostsAssumption
    <2>2. ASSUME NEW t \in Trees, Samples = Parsed[t]["hosts"]
          PROVE  /\ IsFiniteSet(Samples) /\ Cardinality(Samples) <= MaxHosts
                 /\ \A a, b \in Samples : a.mac = b.mac => a = b
      <3>1. /\ IsFiniteSet(Parsed[t].hosts) /\ Cardinality(Parsed[t].hosts) <= MaxHosts
            /\ \A a, b \in Parsed[t].hosts : a.mac = b.mac => a = b
        BY HostsKeptOnce
      <3>2. Samples = Parsed[t].hosts
        BY <2>2
      <3> QED
        BY <3>1, <3>2
    <2> QED
      BY <1>3, <2>1, <2>2 DEF OneTree
  <1>5. ASSUME NEW p \in Same, NEW q \in Same, p.sample = q.sample PROVE p = q
    <2>1. RowShape(p) /\ RowShape(q)
      BY DEF RowsSound, SameTick
    <2> QED
      BY <1>5, <2>1 DEF RowShape, SameTick
  <1> HIDE DEF Same
  <1>6. f \in Injection(Same, Samples)
    BY <1>2, <1>5 DEF Injection, IsInjective
  <1>7. IsFiniteSet(Same) /\ Cardinality(Same) <= Cardinality(Samples)
    BY <1>4, <1>6, FS_Injection
  <1>8. Cardinality(Same) <= MaxHosts
    BY <1>4, <1>7, FS_CardinalityType, HostsAssumption
  <1>9. g \in Surjection(Same, Macs)
    BY DEF Surjection
  <1>10. g \in Injection(Same, Macs)
    <2>1. ASSUME NEW p \in Same, NEW q \in Same, g[p] = g[q] PROVE p = q
      <3>1. p.sample \in Samples /\ q.sample \in Samples /\ p.sample.mac = q.sample.mac
        BY <1>2, <2>1
      <3> QED
        BY <1>4, <1>5, <3>1
    <2> QED
      BY <2>1 DEF Injection, IsInjective
  <1> HIDE DEF g, Macs
  <1>11. Cardinality(Macs) = Cardinality(Same)
    BY <1>7, <1>9, <1>10, FS_Surjection
  <1> QED
    BY <1>8, <1>11 DEF Same, Macs

LEMMA WifiOfTick ==
    ASSUME RowsSound, CollectedOnce, NEW r \in rows, r.kind = "wifi"
    PROVE  \E t \in Trees : \E source \in {VirtualWifi(t), WifiTR098(t), WifiTR181(t)} :
               {q.sample : q \in SameTick(r, "wifi")} = ToSet(WithMetrics(source))
  <1> DEFINE Samples == SamplesOf({q \in rows : q.age = r.age}, "wifi", r.device)
  <1>1. r.device \in Devices /\ r.age \in 0 .. MaxAge /\ "wifi" \in ToSet(Kinds)
    BY DEF RowsSound, RowsTypeOK, Kinds, ToSet
  <1>2. Samples = {q.sample : q \in SameTick(r, "wifi")}
    BY DEF SamplesOf, SameTick
  <1>3. Samples # {}
    BY <1>2 DEF SameTick
  <1>4. OneTree("wifi", Samples)
    BY <1>1 DEF CollectedOnce
  <1> HIDE DEF Samples
  <1>5. PICK t \in Trees : Samples = Parsed[t]["wifi"]
    BY <1>3, <1>4 DEF OneTree
  <1>6. Samples = ToSet(ParseWifi(t))
    BY <1>5 DEF Parsed, ParseDeviceFull
  <1>7. \E source \in {VirtualWifi(t), WifiTR098(t), WifiTR181(t)} : ParseWifi(t) = WithMetrics(source)
    BY Zenon DEF ParseWifi
  <1> QED
    BY <1>2, <1>6, <1>7

\* parser.go:43, :55 and :392: however often a tick fails half-way, dies or follows
\* another, what the tables have of a device and a minute is what the parser makes of
\* one tree: one source of Wi-Fi samples, each host once, MaxHosts at most.
THEOREM CountedOnce == Spec => []RowsCountOnce
  <1>1. RowsSound /\ CollectedOnce => RowsCountOnce
    BY HostsOfTick, WifiOfTick DEF RowsCountOnce
  <1> QED
    BY <1>1, RowsSoundInit, RowsSoundStep, CollectedOnceInit, CollectedOnceStep, PTL DEF Spec

=============================================================================
