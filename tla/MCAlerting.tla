----------------------------- MODULE MCAlerting -----------------------------
(* Small instances of Alerting, with the collector under it.               *)
EXTENDS Alerting, TLC

CONSTANTS d1, mail, chat

Leaves == {"virtual.CPU", "hw.CPU", "igd.CPU", "dev.CPU", "igd.Free", "dev.Free",
           "igd.Total", "dev.Total", "virtual.Temperature", "virtual.Mem", "hw.Mem",
           "virtual.Uptime", "igd.Uptime", "dev.Uptime", "virtual.Optical", "hw.Optical",
           "gpon.Optical"}

Leaf(set) == set @@ [p \in Leaves |-> Missing]
Host(mac) == [mac |-> mac]
Radio(channel, standard) == [ssid |-> Text, channel |-> channel, standard |-> standard,
                             mode |-> "none", listed |-> 0, total |-> 1]
NoRadio == [ssid |-> Missing, channel |-> Missing, listed |-> 0, total |-> Missing]

\* A device whose TR-098 and TR-181 tables both list its radios and a host.
Calm ==
    [leaf |-> Leaf("igd.CPU" :> 1 @@ "igd.Free" :> 1 @@ "igd.Total" :> 4), sensors |-> <<20, 30>>,
     virtual |-> <<NoRadio, NoRadio>>,
     wlan |-> <<Radio(6, "n"), Radio(36, "ac")>>, ap |-> <<Radio(40, "ac")>>,
     hosts98 |-> <<<<Host("a"), Host("b")>>, <<Host("a")>>>>,
     hosts181 |-> <<Host("b"), Host("c")>>]

\* The device when it is hot, and nobody uses it.
Hot == [Calm EXCEPT !.leaf = Leaf("virtual.CPU" :> 9 @@ "igd.CPU" :> 1 @@ "hw.Mem" :> Text),
                    !.wlan = <<>>, !.ap = <<>>, !.hosts98 = <<>>, !.hosts181 = <<>>]

\* One of its sensors reads what no column of the samples takes.
Odd == [Hot EXCEPT !.leaf = Leaf("igd.CPU" :> 1), !.sensors = <<1000>>]
MCTrees == {Calm, Hot, Odd}

Cpu(op, window) == [type |-> "single", metric |-> "cpu", aggregation |-> "last", operator |-> op,
            threshold |-> 5, window |-> window, device |-> d1, status |-> "any", band |-> Missing]
Body(cond, channels) == [cond |-> cond, active |-> TRUE, channels |-> channels,
                         cooldown |-> 1]

\* A window that reaches SlowestAge, and one that a slow collection misses.
MCBodies == {Body(Cpu(">", 2), <<mail, chat>>), Body(Cpu(">", 1), <<mail>>)}
=============================================================================
