------------------------------ MODULE Alerting ------------------------------
(***************************************************************************)
(* Alert rules over the collector's samples and the devices' status: the   *)
(* engine's tick evaluates every active rule, opens, resolves and notifies;*)
(* operators edit rules, acknowledge and resolve.  The worker's loop runs  *)
(* one tick at a time: the collector's, the engine's, or another's, which  *)
(* keeps these waiting.  Time passes during each of them.                  *)
(***************************************************************************)
EXTENDS Telemetry

CONSTANTS
    Rules,       \* identities of the rows of alert_rules
    Bodies,      \* what the form of a rule may send
    NoRule,      \* a row that has not been created
    NoDevice,    \* device_id NULL
    AlertIds,    \* numbers of the rows of alerts that are open
    NoAlert,
    MaxCooldown  \* the longest cooldown of Bodies, in minutes

ASSUME ConstantsAssumption ==
    /\ AlertIds \subseteq Nat
    /\ NoDevice \notin Devices /\ NoAlert \notin AlertIds /\ NoRule \notin Bodies \cup Rules
    /\ MaxCooldown \in Nat /\ MaxAge \in Nat /\ CollectEvery \in Nat \ {0} /\ MaxFaults \in Nat
    /\ MaxBusy \in Nat /\ CollectTimeout \in 1 .. MaxAge
    /\ \A b \in Bodies : /\ b.cooldown \in 0 .. MaxCooldown /\ b.cond.window < MaxAge
                         /\ b.cond.device \in Devices \cup {NoDevice}
                         /\ b.channels \in Seq(ToSet(b.channels))

VARIABLES
    rule,     \* alert_rules: active, condition, channels, cooldown
    alert,    \* alerts: the open ones, the channels recorded of each, and of what
              \* failed: whether the open ones were read before it, its delivery cut
    since,    \* minutes since the rule's last firing
    engine    \* the tick in progress

vars == <<online, tree, rows, collector, due, clock, busy, faults,
          rule, alert, since, engine>>
database == <<rule, alert, since>>

-----------------------------------------------------------------------------
(* Conditions.                                                             *)

\* since stays below it once the rule has fired.
Never  == MaxCooldown + 2
Closed == [rule |-> NoRule, device |-> NoDevice, channels |-> {}, told |-> {},
           acked |-> FALSE, cut |-> FALSE, unread |-> FALSE]
Asleep == [at |-> "idle", late |-> 0, todo |-> {}, rule |-> NoRule, body |-> NoRule,
           device |-> NoDevice, unread |-> FALSE, alert |-> NoAlert, left |-> <<>>]

\* Condition.Validate, of the form and of the tick.
Valid(c) ==
    /\ c.type \in {"aggregate", "single"}
    /\ c.metric \in {"device_status", "cpu", "mem", "wifi_clients", "optical", "uptime"}
    /\ c.aggregation \in {"count", "count_pct", "avg", "max", "min", "last"}
    /\ c.operator \in {">", ">=", "<", "<=", "==", "!="}
    /\ c.window > 0
    /\ c.type = "single" => c.device # NoDevice
    /\ c.aggregation = "count_pct" => c.metric = "device_status"

\* What Evaluate refuses although it is valid: it ends the rule's turn with an error.
Evaluable(c) == IF c.metric = "device_status" THEN c.aggregation \in {"count", "count_pct"}
                                              ELSE c.device # NoDevice

Kind(c)  == CASE c.metric = "wifi_clients" -> "wifi"
              [] c.metric = "optical" -> "wan"
              [] OTHER -> "system"
Field(c) == IF c.metric = "wifi_clients" THEN "clients" ELSE c.metric

\* The samples of the window, which ends when the engine's tick started.
Window(c) ==
    {r \in rows : /\ r.kind = Kind(c) /\ r.device = c.device
                  /\ r.age - engine.late \in 0 .. c.window
                  /\ r.sample[Field(c)] # Missing
                  /\ c.metric = "wifi_clients" => c.band \in {Missing, r.sample.band}}

\* The possible results, as fractions; none without data.  Of several samples of
\* the newest tick any may come last: they are sorted by time only.
Aggregate(c, samples) ==
    LET value(r) == r.sample[Field(c)]
        values   == {value(r) : r \in samples}
        newest   == {r \in samples : \A q \in samples : r.age <= q.age}
        whole(n) == [num |-> n, den |-> 1]
    IN  CASE samples = {} -> {}
          [] c.aggregation = "last"  -> {whole(value(r)) : r \in newest}
          [] c.aggregation = "count" -> {whole(Cardinality(samples))}
          [] c.aggregation = "max"   -> {whole(Max(values))}
          [] c.aggregation = "min"   -> {whole(Min(values))}
          [] OTHER -> {[num |-> MapThenSumSet(value, samples), den |-> Cardinality(samples)]}

\* Devices with the status of the filter, as a count or as a percentage of all:
\* both as many as a page holds.
DeviceStatus(c) ==
    LET matching == CASE c.status = "online"  -> online
                      [] c.status = "offline" -> Devices \ online
                      [] OTHER -> Devices
        listed(devices) == Min({PageSize, Cardinality(devices)})
    IN  IF c.aggregation = "count" \/ Devices = {}
        THEN {[num |-> listed(matching), den |-> 1]}
        ELSE {[num |-> 100 * listed(matching), den |-> listed(Devices)]}

Results(c) == IF c.metric = "device_status" THEN DeviceStatus(c) ELSE Aggregate(c, Window(c))

Triggers(op, result, threshold) ==
    LET limit == threshold * result.den
    IN  CASE op = ">"  -> result.num > limit
          [] op = ">=" -> result.num >= limit
          [] op = "<"  -> result.num < limit
          [] op = "<=" -> result.num <= limit
          [] op = "==" -> result.num = limit
          [] OTHER     -> result.num # limit

\* The device a result is about: only telemetry names one.
Subject(c) == IF c.metric = "device_status" THEN NoDevice ELSE c.device

-----------------------------------------------------------------------------
Init ==
    /\ TelemetryInit
    /\ rule    = [r \in Rules |-> NoRule]
    /\ alert   = [a \in AlertIds |-> Closed]
    /\ since   = [r \in Rules |-> Never]
    /\ engine  = Asleep

Ticking == Collecting \/ engine.at # "idle"
OpenAlerts(r, d) == {a \in AlertIds : alert[a].rule = r /\ alert[a].device = d}

\* The next rule of the tick; none left, the tick is over.
NextRule == engine' = IF engine.todo = {} THEN Asleep
                      ELSE [Asleep EXCEPT !.at = "rules", !.todo = engine.todo, !.late = engine.late]

-----------------------------------------------------------------------------
(* The engine.                                                             *)

\* The active rules are listed once, and kept as they are for the tick.
StartTick ==
    LET active == {r \in Rules : rule[r] # NoRule /\ rule[r] \in Bodies /\ rule[r].active} IN
    /\ ~Ticking /\ Turn("alert")
    /\ engine' = IF active = {} THEN Asleep
                 ELSE [Asleep EXCEPT !.at = "rules", !.todo = {<<r, rule[r]>> : r \in active}]
    /\ UNCHANGED <<environment, telemetry, clock, faults, database>>

ListFails ==
    /\ ~Ticking /\ Turn("alert")
    /\ Fault
    /\ UNCHANGED <<environment, telemetry, clock, database, engine>>

\* A rule that is invalid, cannot be evaluated or has no data is left as it is.
EvaluateRule(r, body) ==
    LET rest == [engine EXCEPT !.todo = @ \ {<<r, body>>}, !.rule = r, !.body = body,
                               !.device = Subject(body.cond)]
    IN
    /\ engine.at = "rules" /\ <<r, body>> \in engine.todo
    /\ IF ~Valid(body.cond) \/ ~Evaluable(body.cond) \/ Results(body.cond) = {}
       THEN engine' = [rest EXCEPT !.at = "skip"]
       ELSE \E result \in Results(body.cond) :
              engine' = [rest EXCEPT
                 !.at = IF Triggers(body.cond.operator, result, body.cond.threshold)
                        THEN "check" ELSE "clear"]
    /\ UNCHANGED <<environment, telemetry, scheduling, faults, database>>

\* A statement of the evaluation, or of what follows it, fails: the rule's turn ends.
RuleFails ==
    /\ engine.at \in {"skip", "clear", "create"}
    /\ IF engine.at = "skip" THEN UNCHANGED faults ELSE Fault
    /\ NextRule
    /\ UNCHANGED <<environment, telemetry, scheduling, database>>

\* Faulty variant: the whole rule is resolved, or nothing of a device.
ResolvedAggregate == OpenAlerts(engine.rule, NoDevice)

Resolved == OpenAlerts(engine.rule, engine.device)

\* Not triggered: what is open of the rule and the device is resolved.
AutoResolve ==
    /\ engine.at = "clear"
    /\ alert' = [a \in AlertIds |-> IF a \in Resolved THEN Closed ELSE alert[a]]
    /\ NextRule
    /\ UNCHANGED <<environment, telemetry, scheduling, faults, rule, since>>

\* Faulty variant: any earlier firing counts as recent.
InCooldownForever == engine.body.cooldown > 0 /\ since[engine.rule] # Never

InCooldown == /\ engine.body.cooldown > 0
              /\ since[engine.rule] # Never
              /\ since[engine.rule] - engine.late < engine.body.cooldown

\* Faulty variant: only an alert nobody has acknowledged counts as open.
BlockedByUnseen == \E a \in OpenAlerts(engine.rule, engine.device) : ~alert[a].acked

BlockedByOpen == OpenAlerts(engine.rule, engine.device) # {}

\* Cooldown and open alert; a read that fails counts as nothing found.
Check(lastRead, openRead) ==
    /\ engine.at = "check"
    /\ IF lastRead /\ openRead THEN UNCHANGED faults ELSE Fault
    /\ IF (lastRead /\ InCooldown) \/ (openRead /\ BlockedByOpen)
       THEN NextRule
       ELSE engine' = [engine EXCEPT !.at = "create", !.unread = ~openRead]
    /\ UNCHANGED <<environment, telemetry, scheduling, database>>

\* The alert is fired at the time of the tick's start.
CreateAlert(a) ==
    /\ engine.at = "create"
    /\ alert[a] = Closed /\ \A free \in AlertIds : alert[free] = Closed => a <= free
    /\ alert' = [alert EXCEPT ![a] = [Closed EXCEPT !.rule = engine.rule,
                    !.device = engine.device, !.channels = ToSet(engine.body.channels),
                    !.unread = engine.unread]]
    /\ since' = [since EXCEPT ![engine.rule] = engine.late]
    /\ IF engine.body.channels = <<>> THEN NextRule
       ELSE engine' = [engine EXCEPT !.at = "deliver", !.alert = a,
                                     !.left = engine.body.channels]
    /\ UNCHANGED <<environment, telemetry, scheduling, faults, rule>>

\* Faulty variant: after a message that could not be sent the rest is left.
NextChannelIfSent(status) ==
    IF Len(engine.left) = 1 \/ status # "sent" THEN NextRule
    ELSE engine' = [engine EXCEPT !.left = Tail(@)]

NextChannel(status) ==
    IF Len(engine.left) = 1 THEN NextRule
    ELSE engine' = [engine EXCEPT !.left = Tail(@)]

\* One channel: sent, failed, or dropped by this worker; recorded once for the
\* alert (UNIQUE), unless the statement fails, of which nobody hears.
Deliver(status, recorded) ==
    LET a == engine.alert
        channel == Head(engine.left)
    IN
    /\ engine.at = "deliver"
    /\ IF recorded THEN UNCHANGED faults ELSE Fault
    /\ alert' = IF alert[a].rule # engine.rule THEN alert
                ELSE IF ~recorded THEN [alert EXCEPT ![a].cut = TRUE]
                ELSE [alert EXCEPT ![a].told = @ \cup {channel}]
    /\ NextChannel(status)
    /\ UNCHANGED <<environment, telemetry, scheduling, rule, since>>

\* The tick's 45 s are over, or the worker is restarted.
TickDies ==
    /\ engine.at # "idle"
    /\ Fault
    /\ engine' = Asleep
    /\ alert' = IF engine.at = "deliver" /\ alert[engine.alert].rule = engine.rule
                THEN [alert EXCEPT ![engine.alert].cut = TRUE] ELSE alert
    /\ UNCHANGED <<environment, telemetry, scheduling, rule, since>>

-----------------------------------------------------------------------------
(* The operators.                                                          *)

\* Create or Update: the form is validated, the row replaced.  A tick in progress
\* keeps its copy: an edit shows from the next one on.
SetRule(r, body) ==
    /\ ~Ticking
    /\ Valid(body.cond)
    /\ rule[r] # body
    /\ rule' = [rule EXCEPT ![r] = body]
    /\ UNCHANGED <<environment, telemetry, scheduling, faults, alert, since, engine>>

Acknowledge(a) ==
    /\ alert[a] # Closed /\ ~alert[a].acked
    /\ alert' = [alert EXCEPT ![a].acked = TRUE]
    /\ UNCHANGED <<environment, telemetry, scheduling, faults, rule, since, engine>>

Resolve(a) ==
    /\ alert[a] # Closed
    /\ alert' = [alert EXCEPT ![a] = Closed]
    /\ UNCHANGED <<environment, telemetry, scheduling, faults, rule, since, engine>>

-----------------------------------------------------------------------------
\* A minute passes, whatever runs: a tick of the collector for CollectTimeout of
\* them, one of the engine within 45 s, and the loop's other ticks (inventory, ERP,
\* diagnostics, purge) for MaxBusy while one of the two is due.  A ticker whose last
\* tick still waits drops the next one.
Waiting == ~Ticking /\ due # {}
Minute ==
    /\ Collecting => collector.age < CollectTimeout
    /\ engine.at # "idle" => engine.late = 0
    /\ Waiting => busy < MaxBusy
    /\ busy' = IF Waiting THEN busy + 1 ELSE 0
    /\ clock' = IF clock = 1 THEN CollectEvery ELSE clock - 1
    /\ due' = due \cup {"alert"} \cup IF clock = 1 THEN {"collect"} ELSE {}
    /\ Grow
    /\ since' = [r \in Rules |-> IF since[r] < Never - 1 THEN since[r] + 1 ELSE since[r]]
    /\ engine' = IF engine.at = "idle" THEN engine ELSE [engine EXCEPT !.late = 1]
    /\ UNCHANGED <<environment, faults, rule, alert>>

EngineStep ==
    \/ \E r \in Rules, body \in Bodies : EvaluateRule(r, body)
    \/ RuleFails \/ AutoResolve \/ Check(TRUE, TRUE)
    \/ \E a \in AlertIds : CreateAlert(a)
    \/ \E status \in {"sent", "failed", "dropped"} : Deliver(status, TRUE)

EngineFault ==
    \/ ListFails \/ TickDies
    \/ Check(FALSE, TRUE) \/ Check(TRUE, FALSE)
    \/ \E status \in {"sent", "failed", "dropped"} : Deliver(status, FALSE)

Collector(A) == UNCHANGED <<database, engine>> /\ A

Operators ==
    \/ \E r \in Rules, body \in Bodies : SetRule(r, body)
    \/ \E a \in AlertIds : Acknowledge(a) \/ Resolve(a)

\* The status is read when a tick lists the devices, or evaluates a rule: what it is
\* while the collector reads or the engine is past that makes no difference.
Outside == \/ \E d \in Devices, t \in Trees : Collector(Inform(d, t))
           \/ /\ ~Collecting /\ engine.at \in {"idle", "rules"}
              /\ \E d \in Devices : Collector(SetStatus(d))

TickStarts == StartTick \/ (~Ticking /\ Collector(StartCollect))

Next ==
    \/ TickStarts \/ EngineStep \/ EngineFault \/ Minute
    \/ Collector(CollectStep)
    \/ engine.at = "idle" /\ Collector(CollectFault)
    \/ Operators \/ Outside

\* The worker's loop runs what is due and time passes.  Of several ticks that are
\* due, select takes one at random: none is passed over for ever.
Fairness ==
    /\ SF_vars(StartTick) /\ SF_vars(~Ticking /\ Collector(StartCollect))
    /\ WF_vars(Collector(CollectStep)) /\ WF_vars(EngineStep)
    /\ WF_vars(Minute)

Spec == Init /\ [][Next]_vars /\ Fairness

-----------------------------------------------------------------------------
(* Properties.                                                             *)

TypeOK ==
    /\ RowsTypeOK
    /\ rule \in [Rules -> Bodies \cup {NoRule}]
    /\ \A a \in AlertIds : alert[a] = Closed \/
         /\ alert[a].rule \in Rules /\ alert[a].device \in Devices \cup {NoDevice}
         /\ alert[a].told \subseteq alert[a].channels
    /\ since \in [Rules -> 0 .. Never]
    /\ engine.at \in {"idle", "rules", "skip", "clear", "check", "create", "deliver"}
    /\ engine.late \in 0 .. 1

\* engine.go:147: a rule has one open alert for a device, whoever acknowledges,
\* resolves or edits in between, besides those opened by a tick that could not read
\* the open ones (an error of that read is dropped, and another alert opened).
OneOpenAlert ==
    \A r \in Rules, d \in Devices \cup {NoDevice} :
        Cardinality({a \in OpenAlerts(r, d) : ~alert[a].unread}) <= 1

\* engine.go:165: one channel that fails leaves the others alone.  Every channel
\* of an open alert is recorded once its delivery is over, whatever the channels
\* answered, unless the tick died or a record could not be written.
ChannelsRecorded ==
    \A a \in AlertIds : alert[a] # Closed /\ ~alert[a].cut /\ engine.alert # a =>
        alert[a].told = alert[a].channels

\* What the device reports triggers the rule (not), no more devices are online
\* than List returns, and all that they report fits: one value out of its column's
\* range loses the whole COPY.
Says(r, d, hot) ==
    /\ rule[r] # NoRule /\ rule[r].active
    /\ rule[r].cond.metric = "cpu" /\ rule[r].cond.device = d
    /\ rule[r].cond.aggregation # "count"
    /\ d \in online /\ Cardinality(online) <= PageSize
    /\ \E s \in Parsed[tree[d]].system :
          /\ s.cpu # Missing
          /\ Triggers(rule[r].cond.operator, [num |-> s.cpu, den |-> 1], rule[r].cond.threshold) = hot
    /\ \A e \in online : \A s \in Parsed[tree[e]].system :
           Fits([kind |-> "system", sample |-> s])

\* The newest sample is at most this old when the engine starts: a collection that
\* took all its time, after which the engine is due, and its wait for the loop.
SlowestAge == CollectTimeout + MaxBusy

\* The rule's window reaches that far.
Wide(r) == rule[r] # NoRule /\ rule[r].cond.window >= SlowestAge

\* This tick of the engine finds samples in the rule's window.  A window may be as
\* short as 30s (dsl.go:41): where collection is slow it never holds a sample, and
\* engine.go:121 skips the rule.
Heard(r) == /\ engine.at = "rules" /\ <<r, rule[r]>> \in engine.todo
            /\ Window(rule[r].cond) # {}

\* From the device to the operator: while a device goes on reporting what a rule
\* watches for, its alert is open again and again, whatever failed before, if the
\* rule's window is as wide as collection is slow, or holds samples all the same.
HotFires ==
    \A r \in Rules, d \in Devices :
        <>[]Says(r, d, TRUE) /\ (<>[]Wide(r) \/ []<>Heard(r)) => []<>(OpenAlerts(r, d) # {})

\* engine.go:127: and when it stops, the alert is resolved for good, if the same
\* holds of the window.
CalmResolves ==
    \A r \in Rules, d \in Devices :
        <>[]Says(r, d, FALSE) /\ (<>[]Wide(r) \/ []<>Heard(r)) => <>[](OpenAlerts(r, d) = {})

=============================================================================
