---------------------------- MODULE MCInventory ----------------------------
(* A small instance of Inventory, and customers that pass a login on.      *)
EXTENDS Inventory, TLC

CONSTANTS login1, value

Paths == {"id.OUI", "virtual.Model", "id.Product", "igd.Model", "dev.Model",
          "virtual.Serial", "id.Serial", "igd.Serial", "dev.Serial",
          "virtual.Manufacturer", "id.Manufacturer", "igd.Manufacturer", "dev.Manufacturer",
          "virtual.Login", "virtual.Firmware", "igd.Firmware", "dev.Firmware",
          "virtual.MAC", "igd.MAC", "virtual.IP"}
Leaf(set) == set @@ [p \in Paths |-> Missing]
Connection(login) == [login |-> login, address |-> Missing]
Interface(address, usable) == [address |-> address, usable |-> usable]

\* A chipset's name, an id that tells the OUI, the login on the second connection.
Realtek ==
    [leaf |-> Leaf("igd.Manufacturer" :> "Realtek"), inform |-> "recent",
     id |-> [oui |-> "B46415", product |-> "HG", serial |-> value],
     wan |-> <<[ppp |-> Connection(Missing), ip |-> Connection(Missing)],
               [ppp |-> Connection(login1), ip |-> Connection(Missing)]>>,
     interfaces |-> <<>>, addresses |-> <<Interface("loopback", FALSE), Interface(value, TRUE)>>]

\* The seed has this manufacturer under another slug; no login, and silent since.
TPLink ==
    [Realtek EXCEPT !.leaf = Leaf("id.Manufacturer" :> "TP-Link" @@ "virtual.MAC" :> value),
                    !.wan = <<>>, !.inform = "old"]

MCReports == {Realtek, TPLink}
MCRegistry == "B46415" :> "V-SOL"
MCSlug == "V-SOL" :> "v-sol" @@ "TP-Link" :> "tp-link"
MCSeed == 1 :> [slug |-> "tplink", name |-> "TP-Link"]
MCForms == {[slug |-> "vsol", name |-> "V-SOL"]}
=============================================================================
