----------------------------- MODULE Telemetry -----------------------------
(***************************************************************************)
(* The collector: every few minutes the worker lists the devices that are  *)
(* online, reads what GenieACS knows of each, parses the tree into samples *)
(* and writes each kind of them with one COPY for all the devices.  Every  *)
(* sample carries the time at which its tick started, and the tick may     *)
(* take minutes.                                                           *)
(*                                                                         *)
(* What no decision reads is left out: the ports (the fifth kind), where a *)
(* host is attached, the counters of bytes and the transmitted powers.     *)
(*                                                                         *)
(* A tree is a record: its scalar parameters by name, and a table for each *)
(* kind of instances.  Its numbers are integers, other text is Text, what  *)
(* a device does not report is Missing.                                    *)
(***************************************************************************)
EXTENDS Integers, Sequences, FiniteSets, SequencesExt, FiniteSetsExt

CONSTANTS
    Devices,
    Trees,       \* what GenieACS may know of a device
    Missing,     \* a parameter that is not there, or is empty
    Text,        \* a value that is no number
    MaxHosts,    \* hosts kept of a device (64)
    PageSize,    \* devices that List returns when more than 500 are asked for (50)
    Column,      \* the largest number a NUMERIC column takes (999)
    MaxAge,      \* minutes after which no window looks at a sample
    CollectEvery,\* minutes between the collector's ticks (5)
    CollectTimeout, \* minutes a tick of the collector may take (4)
    MaxBusy,     \* minutes for which the loop's other ticks keep a due one waiting
    MaxFaults    \* bound on failed reads, statements and dead ticks

VARIABLES
    online,      \* devices whose status is 'online'
    tree,        \* what GenieACS knows of each device
    rows,        \* the tables: kind, device, sample, minutes since its time stamp
    collector,   \* the tick in progress
    due,         \* ticks the worker's loop has to run
    clock,       \* minutes to the next tick of the collector
    busy,        \* minutes for which what is due has waited
    faults

telemetry == <<rows, collector>>
scheduling == <<due, clock, busy>>
environment == <<online, tree>>

Kinds == <<"wifi", "wan", "system", "hosts">>

-----------------------------------------------------------------------------
(* The parser.                                                             *)

\* The value of the first path that has one.
FirstNonEmpty(t, paths) ==
    LET found == SelectSeq(paths, LAMBDA p : t.leaf[p] # Missing)
    IN  IF found = <<>> THEN Missing ELSE t.leaf[found[1]]

Number(v) == IF v = Text THEN Missing ELSE v

\* Percent in use from Free and Total, within 0 .. 100.
ComputeMemPct(t) ==
    LET free  == Number(FirstNonEmpty(t, <<"igd.Free", "dev.Free">>))
        total == Number(FirstNonEmpty(t, <<"igd.Total", "dev.Total">>))
    IN  IF free = Missing \/ total = Missing THEN Missing
        ELSE IF total <= 0 THEN Missing
        ELSE Max({0, Min({100, ((total - free) * 100) \div total})})

\* The hottest sensor that reports a number; without one, the virtual parameter.
ParseTemperature(t) ==
    LET read == {Number(t.sensors[i]) : i \in DOMAIN t.sensors} \ {Missing}
    IN  IF read # {} THEN Max(read) ELSE Number(t.leaf["virtual.Temperature"])

ParseSystem(t) ==
    [cpu |-> Number(FirstNonEmpty(t, <<"virtual.CPU", "hw.CPU", "igd.CPU", "dev.CPU">>)),
     mem |-> LET direct == FirstNonEmpty(t, <<"virtual.Mem", "hw.Mem">>)
             IN  IF direct # Missing THEN Number(direct) ELSE ComputeMemPct(t),
     uptime |-> Number(FirstNonEmpty(t, <<"virtual.Uptime", "igd.Uptime", "dev.Uptime">>)),
     temperature |-> ParseTemperature(t)]

ParseWan(t) ==
    [optical |-> Number(FirstNonEmpty(t, <<"virtual.Optical", "hw.Optical", "gpon.Optical">>))]

InferBand(channel) ==
    IF channel = Missing THEN Missing
    ELSE IF channel \in 1 .. 14 THEN "2.4G"
    ELSE IF channel >= 32 THEN "5G" ELSE Missing

\* TR-098: the mode and the standard speak before the channel does.
InferBandTR098(w) ==
    IF w.mode = "5g" \/ w.standard \in {"ac", "ax"} THEN "5G"
    ELSE IF Number(w.channel) # Missing THEN InferBand(Number(w.channel))
    ELSE IF w.mode = "2.4" \/ w.standard \in {"g", "n"} THEN "2.4G" ELSE Missing

\* The instances of AssociatedDevice; none listed, the counter.
CountAssociated(w) == IF w.listed # 0 THEN w.listed ELSE Number(w.total)

WifiMetrics(s) == s.ssid # Missing \/ s.channel # Missing \/ s.clients # Missing
WithMetrics(samples) == SelectSeq(samples, WifiMetrics)

VirtualWifi(t) ==
    [i \in 1 .. 2 |-> [band |-> <<"2.4G", "5G">>[i], ssid |-> t.virtual[i].ssid,
                       channel |-> Number(t.virtual[i].channel),
                       clients |-> Number(t.virtual[i].total)]]
WifiTR098(t) ==
    [i \in DOMAIN t.wlan |-> [band |-> InferBandTR098(t.wlan[i]), ssid |-> t.wlan[i].ssid,
                              channel |-> Number(t.wlan[i].channel),
                              clients |-> CountAssociated(t.wlan[i])]]
WifiTR181(t) ==
    [i \in DOMAIN t.ap |-> [band |-> InferBand(Number(t.ap[i].channel)), ssid |-> t.ap[i].ssid,
                            channel |-> Number(t.ap[i].channel),
                            clients |-> CountAssociated(t.ap[i])]]

\* Faulty variant: every source is read.
ParseWifiAll(t) ==
    WithMetrics(VirtualWifi(t)) \o WithMetrics(WifiTR098(t)) \o WithMetrics(WifiTR181(t))

\* The first of the three sources that has a metric.
ParseWifi(t) ==
    LET virtual == WithMetrics(VirtualWifi(t))
        tr098   == WithMetrics(WifiTR098(t))
    IN  IF virtual # <<>> THEN virtual
        ELSE IF tr098 # <<>> THEN tr098 ELSE WithMetrics(WifiTR181(t))

\* The next host: once per MAC, and no more than MaxHosts.
KeepHost(out, h) ==
    IF h.mac = Missing \/ Len(out) >= MaxHosts \/ \E i \in DOMAIN out : out[i].mac = h.mac
    THEN out ELSE Append(out, [mac |-> h.mac])

\* The tables of the LAN devices, then TR-181's.
Hosts(t) == FlattenSeq(t.hosts98) \o t.hosts181

\* The hosts kept of the first n, for each n.
ParseHosts(t) ==
    LET kept[n \in 0 .. Len(Hosts(t))] ==
            IF n = 0 THEN <<>> ELSE KeepHost(kept[n - 1], Hosts(t)[n])
    IN  kept[Len(Hosts(t))]

\* A tree has finitely many hosts: no table is read beyond its 64th instance.
ASSUME HostsAssumption ==
    MaxHosts \in Nat /\ \A t \in Trees : Len(Hosts(t)) \in Nat

\* The samples of a kind, those without any metric left out.
Reported(sample) == IF \E f \in DOMAIN sample : sample[f] # Missing THEN {sample} ELSE {}
ParseDeviceFull(t) ==
    [wifi |-> ToSet(ParseWifi(t)), wan |-> Reported(ParseWan(t)),
     system |-> Reported(ParseSystem(t)), hosts |-> ToSet(ParseHosts(t))]

\* What the parser makes of each tree.
Parsed == [t \in Trees |-> ParseDeviceFull(t)]

-----------------------------------------------------------------------------
(* The collector.                                                          *)

Collecting == collector.at # "idle"
Rest == [at |-> "idle", age |-> 0, todo |-> {}, batch |-> {}, left |-> <<>>]

TelemetryInit ==
    /\ online = {} /\ tree \in [Devices -> Trees]
    /\ rows = {} /\ collector = Rest
    /\ due = {} /\ clock = CollectEvery /\ busy = 0
    /\ faults = 0

Fault == faults < MaxFaults /\ faults' = faults + 1

\* What List returns of a set of devices: one page, the last to inform first.
\* The collector asks for 5000 and the engine for 50000, which List takes for 50.
Page(devices) == IF Cardinality(devices) <= PageSize THEN {devices}
                 ELSE kSubset(PageSize, devices)

\* A tick that was due gets its turn in the worker's loop.
Turn(tick) ==
    /\ tick \in due
    /\ due' = due \ {tick}
    /\ busy' = 0

\* Nothing to do when no device is online.
StartCollect ==
    /\ Turn("collect")
    /\ \E listed \in Page(online) :
           collector' = IF listed = {} THEN Rest
                        ELSE [Rest EXCEPT !.at = "read", !.todo = listed]
    /\ UNCHANGED <<environment, rows, clock, faults>>

\* The list of devices cannot be read.
CollectFails ==
    /\ Turn("collect")
    /\ Fault
    /\ UNCHANGED <<environment, telemetry, clock>>

\* The devices are read in chunks, in parallel; all have been read before anything
\* is written.
NextRead(d, batch) ==
    collector' = [collector EXCEPT !.todo = @ \ {d}, !.batch = batch,
                     !.at = IF collector.todo = {d} THEN "insert" ELSE "read",
                     !.left = Kinds]

CollectDevice(d) ==
    LET samples == UNION {{[kind |-> k, device |-> d, sample |-> s] : s \in Parsed[tree[d]][k]}
                          : k \in ToSet(Kinds)}
    IN
    /\ collector.at = "read" /\ d \in collector.todo
    /\ NextRead(d, collector.batch \cup samples)
    /\ UNCHANGED <<environment, rows, scheduling, faults>>

DeviceReadFails(d) ==
    /\ collector.at = "read" /\ d \in collector.todo
    /\ Fault
    /\ NextRead(d, collector.batch)
    /\ UNCHANGED <<environment, rows, scheduling>>

\* A COPY takes all its rows or none.
Fits(r) == r.kind = "system" =>
    \A f \in {"cpu", "mem", "temperature"} :
        r.sample[f] # Missing => r.sample[f] \in -Column .. Column

Copied(batch) == IF \A r \in batch : Fits(r) THEN batch ELSE {}

\* The time of a sample is that of its tick's start, whenever it is written.
InsertKind(fails) ==
    LET kind  == Head(collector.left)
        batch == {r \in collector.batch : r.kind = kind}
    IN
    /\ collector.at = "insert"
    /\ IF fails THEN Fault /\ UNCHANGED rows
       ELSE /\ rows' = rows \cup {[kind |-> r.kind, device |-> r.device, sample |-> r.sample,
                                   age |-> collector.age] : r \in Copied(batch)}
            /\ UNCHANGED faults
    /\ collector' = IF Len(collector.left) = 1 THEN Rest
                    ELSE [collector EXCEPT !.left = Tail(@)]
    /\ UNCHANGED <<environment, scheduling>>

\* The tick's CollectTimeout is over before it is, or the worker is restarted.
CollectDies ==
    /\ Collecting
    /\ Fault
    /\ collector' = Rest
    /\ UNCHANGED <<environment, rows, scheduling>>

\* A device informs GenieACS.  Only what the next tick of the collector reads
\* matters, so that it is enough to let it inform before the tick; an inventory tick
\* of the worker or of the server follows the status at any time.
Inform(d, t) ==
    /\ "collect" \in due /\ ~Collecting
    /\ tree[d] # t
    /\ tree' = [tree EXCEPT ![d] = t]
    /\ UNCHANGED <<online, telemetry, scheduling, faults>>

SetStatus(d) ==
    /\ online' = IF d \in online THEN online \ {d} ELSE online \cup {d}
    /\ UNCHANGED <<tree, telemetry, scheduling, faults>>

CollectStep == \/ \E d \in Devices : CollectDevice(d)
               \/ InsertKind(FALSE)
CollectFault == \/ CollectFails \/ CollectDies \/ InsertKind(TRUE)
                \/ \E d \in Devices : DeviceReadFails(d)

\* The tick in progress, a minute later.
Later == IF Collecting THEN [collector EXCEPT !.age = @ + 1] ELSE collector

\* Faulty variant: no sample is ever too old.
GrowOld == rows' = {[r EXCEPT !.age = @ + 1] : r \in rows} /\ collector' = Later

\* The tables and the collector, a minute later.
Grow ==
    /\ rows' = {[r EXCEPT !.age = @ + 1] : r \in {s \in rows : s.age < MaxAge}}
    /\ collector' = Later

-----------------------------------------------------------------------------
(* Properties.                                                             *)

RowsTypeOK ==
    /\ online \subseteq Devices /\ tree \in [Devices -> Trees]
    /\ \A r \in rows : r.kind \in ToSet(Kinds) /\ r.device \in Devices /\ r.age \in 0 .. MaxAge
    /\ collector.at \in {"idle", "read", "insert"} /\ collector.todo \subseteq Devices
    /\ collector.age \in 0 .. CollectTimeout
    /\ due \subseteq {"collect", "alert"} /\ clock \in 0 .. CollectEvery /\ busy \in 0 .. MaxBusy
    /\ faults \in 0 .. MaxFaults

\* The tick in which a sample was taken.
SameTick(r, kind) == {q \in rows : q.kind = kind /\ q.device = r.device /\ q.age = r.age}

\* parser.go:43, :55, :392: a device's Wi-Fi samples of one tick never come from
\* two of the three sources (a client would count twice), a host is recorded once
\* although several tables list it, and no more than MaxHosts are.
RowsCountOnce ==
    \A r \in rows :
        /\ Cardinality({q.sample.mac : q \in SameTick(r, "hosts")})
             = Cardinality(SameTick(r, "hosts"))
        /\ Cardinality(SameTick(r, "hosts")) <= MaxHosts
        /\ r.kind = "wifi" =>
             \E t \in Trees : \E source \in {VirtualWifi(t), WifiTR098(t), WifiTR181(t)} :
                 {q.sample : q \in SameTick(r, "wifi")} = ToSet(WithMetrics(source))

-----------------------------------------------------------------------------
(* Inductive strengthening of RowsCountOnce, for AlertingProofs.           *)

\* Of a kind, all that the parser makes of some tree, or nothing.
OneTree(kind, samples) == samples = {} \/ \E t \in Trees : samples = Parsed[t][kind]

SamplesOf(set, kind, d) == {r.sample : r \in {q \in set : q.kind = kind /\ q.device = d}}

\* A tick starts a minute or more after the last one did, reads a device once and
\* writes a kind once: what it writes of a device meets nothing of this tick's time.
CollectedOnce ==
    /\ "collect" \in due => /\ Collecting => collector.age > 0
                            /\ \A r \in rows : r.age > 0
    /\ collector.at = "read" => \A r \in rows : r.age > collector.age
    /\ collector.at = "insert" =>
         /\ collector.left # <<>>
         /\ \A r \in rows : /\ r.age >= collector.age
                            /\ r.age = collector.age => r.kind \notin ToSet(collector.left)
    /\ collector.left \in Seq(ToSet(Kinds))
    /\ \A i, j \in DOMAIN collector.left : collector.left[i] = collector.left[j] => i = j
    /\ \A k \in ToSet(Kinds), d \in Devices :
         /\ OneTree(k, SamplesOf(collector.batch, k, d))
         /\ d \in collector.todo => SamplesOf(collector.batch, k, d) = {}
         /\ \A age \in 0 .. MaxAge : OneTree(k, SamplesOf({r \in rows : r.age = age}, k, d))

=============================================================================
