----------------------------- MODULE Inventory -----------------------------
(***************************************************************************)
(* The inventory: a tick reads all that GenieACS knows of the devices and  *)
(* then, one device after the other, finds or creates its vendor and its   *)
(* model, looks its customer up by PPPoE login and writes the row.  The    *)
(* worker ticks every minute; an operator may start another tick, delete   *)
(* devices, assign models, edit vendors and homologate meanwhile, and the  *)
(* ERP's ticks (ErpSync) write the customers.                              *)
(***************************************************************************)
EXTENDS CustomerRows, SequencesExt

CONSTANTS
    Devices,       \* GenieACS ids
    Reports,       \* what GenieACS may know of a device
    Unknown,       \* a device GenieACS does not know
    NoId,          \* an id without its three parts
    Chipsets,      \* chipsetVendors
    Registry,      \* ouiVendorRegistry
    Slug,          \* slugify, of the names of vendors
    Seed,          \* vendors of the migration
    VendorForms,   \* slug and name an operator may type
    VendorIds, NoVendor,
    Ticks          \* "worker", and the ticks of operators, in the server's process

VARIABLES
    acs,      \* GenieACS: the report of each device
    row,      \* devices
    vendor,   \* vendors: slug and name of each id
    models,   \* device_models: vendor and model
    tick,     \* the ticks in progress
    deletion, \* the request that deletes a device
    tested    \* devices whose row a homologation session refers to

inventoryVars == <<row, vendor, models>>
vars == <<customers, counters, acs, inventoryVars, tick, deletion, tested>>

-----------------------------------------------------------------------------
(* What a tick reads in a report.                                          *)

FirstOf(values) ==
    LET found == SelectSeq(values, LAMBDA v : v # Missing)
    IN  IF found = <<>> THEN Missing ELSE found[1]
FirstNonEmpty(r, paths) == FirstOf([i \in DOMAIN paths |-> r.leaf[paths[i]]])

\* The part of the id that stands in for what is not reported.
OrFromId(r, value, part) ==
    IF value = Missing /\ r.id # NoId THEN r.id[part] ELSE value

OUI(r) == OrFromId(r, FirstNonEmpty(r, <<"id.OUI">>), "oui")
ModelName(r) ==
    OrFromId(r, FirstNonEmpty(r, <<"virtual.Model", "id.Product", "igd.Model", "dev.Model">>),
             "product")
Serial(r) ==
    OrFromId(r, FirstNonEmpty(r, <<"virtual.Serial", "id.Serial", "igd.Serial", "dev.Serial">>),
             "serial")

\* The brand: a chipset's name, or none, gives way to the owner of the OUI.
Manufacturer(r) ==
    LET reported == FirstNonEmpty(r, <<"virtual.Manufacturer", "id.Manufacturer",
                                       "igd.Manufacturer", "dev.Manufacturer">>)
    IN  IF reported \in Chipsets \cup {Missing} /\ OUI(r) \in DOMAIN Registry
        THEN Registry[OUI(r)] ELSE reported

\* The first connection that has the field, PPP before IP on each of them.
FirstWANField(r, field) ==
    FirstOf(FlattenSeq([i \in DOMAIN r.wan |-> <<r.wan[i].ppp[field], r.wan[i].ip[field]>>]))

\* TR-181: an address that is no loopback, link-local or unspecified one.
FirstUsable(addresses) ==
    FirstOf([i \in DOMAIN addresses |->
               IF addresses[i].usable THEN addresses[i].address ELSE Missing])

Login(r) == FirstOf(<<r.leaf["virtual.Login"], FirstWANField(r, "login")>> \o r.interfaces)

Facts(r) ==
    [serial   |-> Serial(r),
     firmware |-> FirstNonEmpty(r, <<"virtual.Firmware", "igd.Firmware", "dev.Firmware">>),
     mac      |-> FirstNonEmpty(r, <<"virtual.MAC", "igd.MAC">>),
     ip       |-> FirstOf(<<r.leaf["virtual.IP"], FirstWANField(r, "address"),
                            FirstUsable(r.addresses)>>)]

\* ComputeStatus, of the time since the last inform.
Status(r) == CASE r.inform = Missing -> "never_seen"
               [] r.inform = "old"   -> "offline"
               [] OTHER              -> "online"

\* What syncDevice reads in a report before its first statement.
Reading == [r \in Reports |->
              [manufacturer |-> Manufacturer(r), model |-> ModelName(r), login |-> Login(r),
               status |-> Status(r), facts |-> Facts(r)]]

Coalesce(a, b) == IF a # Missing THEN a ELSE b

\* What may be in a row of devices.
RowValues ==
    [model : (VendorIds \X {Reading[r].model : r \in Reports}) \cup {Missing},
     customer : Customers \cup {Missing}, login : {Reading[r].login : r \in Reports},
     status : {Reading[r].status : r \in Reports}, facts : {Reading[r].facts : r \in Reports}]

\* The seed has no slug and no name twice, every name that may be reported has a
\* slug, and NoVendor, NoRow are no values of the tables.
ASSUME InventoryAssumption ==
    /\ \A v, w \in DOMAIN Seed : v # w => Seed[v].slug # Seed[w].slug /\ Seed[v].name # Seed[w].name
    /\ \A r \in Reports : /\ Reading[r].manufacturer \in DOMAIN Slug \cup {Missing}
                          /\ Reading[r].login # NoRow
    /\ NoRow \notin RowValues
    /\ NoVendor \notin VendorIds /\ NoVendor \notin VendorForms
    /\ \A name \in DOMAIN Slug : [slug |-> Slug[name], name |-> name] # NoVendor

-----------------------------------------------------------------------------
Idle == [at |-> "idle", todo |-> {}, cache |-> {}, device |-> Missing, report |-> Missing,
         vendor |-> NoVendor, model |-> Missing, customer |-> Missing]
NoDeletion == [at |-> "idle", device |-> Missing]

Init ==
    /\ RowsInit
    /\ acs = [d \in Devices |-> Unknown]
    /\ row = [d \in Devices |-> NoRow]
    /\ vendor = [v \in VendorIds |-> IF v \in DOMAIN Seed THEN Seed[v] ELSE NoVendor]
    /\ models = {}
    /\ tick = [t \in Ticks |-> Idle]
    /\ deletion = NoDeletion /\ tested = {}

Known(set) == {v \in set : vendor[v] # NoVendor}
WithSlug(slug) == {v \in Known(VendorIds) : vendor[v].slug = slug}

\* Faulty variant: only the slug is unique.
DuplicateSlug(v, slug, name) == \E w \in Known(VendorIds) \ {v} : vendor[w].slug = slug

\* vendors_slug_key and vendors_name_key.
Duplicate(v, slug, name) ==
    \E w \in Known(VendorIds) \ {v} : vendor[w].slug = slug \/ vendor[w].name = name

Goes(t, to) == tick' = [tick EXCEPT ![t].at = to]

\* The device is done with, or given up: the next one, or the end of the tick.
NextDevice(t) ==
    tick' = [tick EXCEPT ![t] =
               IF tick[t].todo = {} THEN Idle
               ELSE [Idle EXCEPT !.at = "devices", !.todo = tick[t].todo, !.cache = tick[t].cache]]

-----------------------------------------------------------------------------
(* A tick.  Each statement is a step: others run between two of them.      *)

\* All that GenieACS knows, once; a query that fails is a tick that does nothing.
\* MaxEdits bounds the ticks of operators.
StartTick(t) ==
    LET snapshot == {<<d, acs[d]>> : d \in {e \in Devices : acs[e] # Unknown}} IN
    /\ tick[t].at = "idle"
    /\ IF t = "worker" THEN UNCHANGED edits ELSE Edited
    /\ tick' = [tick EXCEPT ![t] = IF snapshot = {} THEN Idle
                                   ELSE [Idle EXCEPT !.at = "devices", !.todo = snapshot]]
    /\ UNCHANGED <<customers, faults, acs, inventoryVars, deletion, tested>>

\* The vendor by its slug, as this tick or the table knows it.
Vendors(t, slug) == {c[2] : c \in {e \in tick[t].cache : e[1] = slug}}
Cached(t, slug, v) == tick[t].cache \cup {<<slug, v>>}
FoundVendor(t, slug, v, begun) ==
    tick' = [tick EXCEPT ![t] = [begun EXCEPT !.at = "model", !.vendor = v,
                                              !.cache = Cached(t, slug, v)]]

\* A device without manufacturer or model keeps the model it has.
BeginDevice(t, d, r) ==
    LET read  == Reading[r]
        begun == [tick[t] EXCEPT !.device = d, !.report = read, !.todo = @ \ {<<d, r>>}]
        slug  == Slug[read.manufacturer]
        found == IF Vendors(t, slug) # {} THEN Vendors(t, slug) ELSE WithSlug(slug)
    IN
    /\ tick[t].at = "devices" /\ <<d, r>> \in tick[t].todo
    /\ IF read.manufacturer = Missing \/ read.model = Missing
       THEN tick' = [tick EXCEPT ![t] = [begun EXCEPT !.at = "customer"]]
       ELSE IF found = {} THEN tick' = [tick EXCEPT ![t] = [begun EXCEPT !.at = "create"]]
       ELSE \E v \in found : FoundVendor(t, slug, v, begun)
    /\ UNCHANGED <<customers, counters, acs, inventoryVars, deletion, tested>>

CreateVendor(t, v) ==
    LET name == tick[t].report.manufacturer
        slug == Slug[name]
    IN
    /\ tick[t].at = "create"
    /\ IF Duplicate(NoVendor, slug, name) THEN Goes(t, "again") /\ UNCHANGED vendor
       ELSE /\ vendor[v] = NoVendor
            /\ vendor' = [vendor EXCEPT ![v] = [slug |-> slug, name |-> name]]
            /\ FoundVendor(t, slug, v, tick[t])
    /\ UNCHANGED <<customers, counters, acs, row, models, deletion, tested>>

\* Another instance created it first; or its name is taken under another slug.
ReadVendorAgain(t) ==
    LET slug == Slug[tick[t].report.manufacturer] IN
    /\ tick[t].at = "again"
    /\ IF WithSlug(slug) = {} THEN NextDevice(t)
       ELSE \E v \in WithSlug(slug) : FoundVendor(t, slug, v, tick[t])
    /\ UNCHANGED <<customers, counters, acs, inventoryVars, deletion, tested>>

\* A model is never deleted or renamed: looking it up, creating it and looking it up
\* again when another instance was first all end with the same pair.
ResolveModel(t) ==
    LET model == <<tick[t].vendor, tick[t].report.model>> IN
    /\ tick[t].at = "model"
    /\ models' = models \cup {model}
    /\ tick' = [tick EXCEPT ![t].at = "customer", ![t].model = model]
    /\ UNCHANGED <<customers, counters, acs, row, vendor, deletion, tested>>

\* The customer with the login of the report, or else none yet.
FindCustomer(t) ==
    LET login == tick[t].report.login
        found == {c \in Customers : login # Missing /\ customers[c] = login}
    IN
    /\ tick[t].at = "customer"
    /\ tick' = [tick EXCEPT ![t].at = "existing",
                   ![t].customer = IF found = {} THEN Missing ELSE CHOOSE c \in found : TRUE]
    /\ UNCHANGED <<customers, counters, acs, inventoryVars, deletion, tested>>

\* Without a customer by login the row keeps the one it has.
FindExisting(t) ==
    LET d == tick[t].device
        old == IF row[d] = NoRow THEN Missing ELSE row[d].customer
    IN
    /\ tick[t].at = "existing"
    /\ tick' = [tick EXCEPT ![t].at = "upsert", ![t].customer = Coalesce(@, old)]
    /\ UNCHANGED <<customers, counters, acs, inventoryVars, deletion, tested>>

\* Faulty variant: a login that is no longer reported stays.
MergedLogin(old, new) ==
    [new EXCEPT !.model = Coalesce(new.model, old.model), !.login = Coalesce(new.login, old.login),
                !.customer = Coalesce(new.customer, old.customer)]

\* Faulty variant: the customer of a row is for good.
MergedOwner(old, new) == [new EXCEPT !.model = Coalesce(new.model, old.model),
                                     !.customer = Coalesce(old.customer, new.customer)]

\* ON CONFLICT (genieacs_id): what the report says, NULLs included, but the links.
Merged(old, new) == [new EXCEPT !.model = Coalesce(new.model, old.model),
                                !.customer = Coalesce(new.customer, old.customer)]

UpsertDevice(t) ==
    LET d   == tick[t].device
        r   == tick[t].report
        new == [model |-> tick[t].model, customer |-> tick[t].customer,
                login |-> r.login, status |-> r.status, facts |-> r.facts]
    IN
    /\ tick[t].at = "upsert"
    /\ row' = [row EXCEPT ![d] = IF @ = NoRow THEN new ELSE Merged(@, new)]
    /\ NextDevice(t)
    /\ UNCHANGED <<customers, counters, acs, vendor, models, deletion, tested>>

\* A statement fails: the device is left for the next tick.
DeviceFails(t) ==
    /\ tick[t].at \notin {"idle", "devices"}
    /\ Fault
    /\ NextDevice(t)
    /\ UNCHANGED <<customers, edits, acs, inventoryVars, deletion, tested>>

\* The five minutes are over, or the operator has closed the page.
TickDies(t) ==
    /\ tick[t].at # "idle"
    /\ Fault
    /\ tick' = [tick EXCEPT ![t] = Idle]
    /\ UNCHANGED <<customers, edits, acs, inventoryVars, deletion, tested>>

Restart ==
    /\ Fault
    /\ tick' = [tick EXCEPT !["worker"] = Idle]
    /\ UNCHANGED <<customers, edits, acs, inventoryVars, deletion, tested>>

-----------------------------------------------------------------------------
(* Operators.                                                              *)

\* Delete: the row is read, GenieACS is told, the row deleted.
BeginDeletion(d) ==
    /\ deletion = NoDeletion /\ row[d] # NoRow
    /\ deletion' = [at |-> "acs", device |-> d]
    /\ UNCHANGED <<customers, counters, acs, inventoryVars, tick, tested>>

\* Faulty variant: what GenieACS no longer has ends the request.
GoesOnIfThere(d) == acs[d] # Unknown

\* GenieACS's 404 is as good as its 200.
GoesOn(d) == TRUE

DeleteFromACS ==
    LET d == deletion.device IN
    /\ deletion.at = "acs"
    /\ acs' = [acs EXCEPT ![d] = Unknown]
    /\ deletion' = IF GoesOn(d) THEN [deletion EXCEPT !.at = "row"] ELSE NoDeletion
    /\ UNCHANGED <<customers, counters, inventoryVars, tick, tested>>

\* ON DELETE RESTRICT: the row a session refers to stays, and the request ends with
\* an error although GenieACS has forgotten the device.
DeleteRow ==
    /\ deletion.at = "row"
    /\ row' = IF deletion.device \in tested THEN row ELSE [row EXCEPT ![deletion.device] = NoRow]
    /\ deletion' = NoDeletion
    /\ UNCHANGED <<customers, counters, acs, vendor, models, tick, tested>>

\* The answer is an error or is lost, the statement fails, or the server dies.
DeletionFails(reached) ==
    /\ deletion # NoDeletion
    /\ Fault
    /\ deletion' = NoDeletion
    /\ acs' = IF reached /\ deletion.at = "acs" THEN [acs EXCEPT ![deletion.device] = Unknown]
                                               ELSE acs
    /\ UNCHANGED <<customers, edits, inventoryVars, tick, tested>>

\* A homologation session of the device, whose row has a model.  Sessions are never
\* deleted.
StartSession(d) ==
    /\ row[d] # NoRow /\ d \notin tested
    /\ row[d].model # Missing
    /\ tested' = tested \cup {d}
    /\ UNCHANGED <<customers, counters, acs, inventoryVars, tick, deletion>>

\* Any model of the catalogue, or none.
SetModel(d, model) ==
    /\ row[d] # NoRow
    /\ Edited
    /\ row' = [row EXCEPT ![d].model = model]
    /\ UNCHANGED <<customers, faults, acs, vendor, models, tick, deletion, tested>>

CreateModel(v, name) ==
    /\ v \in Known(VendorIds) /\ <<v, name>> \notin models
    /\ Edited
    /\ models' = models \cup {<<v, name>>}
    /\ UNCHANGED <<customers, faults, acs, row, vendor, tick, deletion, tested>>

\* A new vendor has the slug that is typed; a renamed one that of its name.
NewVendor(v, form) ==
    /\ vendor[v] = NoVendor /\ ~Duplicate(v, form.slug, form.name)
    /\ Edited
    /\ vendor' = [vendor EXCEPT ![v] = form]
    /\ UNCHANGED <<customers, faults, acs, row, models, tick, deletion, tested>>

RenameVendor(v, name) ==
    /\ v \in Known(VendorIds) /\ ~Duplicate(v, Slug[name], name)
    /\ Edited
    /\ vendor' = [vendor EXCEPT ![v] = [slug |-> Slug[name], name |-> name]]
    /\ UNCHANGED <<customers, faults, acs, row, models, tick, deletion, tested>>

\* A device informs GenieACS, time passes, or it is removed there.
Report(d, r) ==
    /\ acs[d] # r
    /\ acs' = [acs EXCEPT ![d] = r]
    /\ UNCHANGED <<customers, counters, inventoryVars, tick, deletion, tested>>

-----------------------------------------------------------------------------
\* What a tick that was begun does.
Proceed(t) ==
    \/ \E d \in Devices, r \in Reports : BeginDevice(t, d, r)
    \/ \E v \in VendorIds : CreateVendor(t, v)
    \/ ReadVendorAgain(t) \/ ResolveModel(t) \/ FindCustomer(t) \/ FindExisting(t)
    \/ UpsertDevice(t)

Deleting == DeleteFromACS \/ DeleteRow

Operators ==
    \/ \E d \in Devices :
          BeginDeletion(d) \/ StartSession(d) \/ \E m \in models \cup {Missing} : SetModel(d, m)
    \/ \E v \in VendorIds :
          \/ \E form \in VendorForms : NewVendor(v, form)
          \/ \E name \in DOMAIN Slug : RenameVendor(v, name)
          \/ \E r \in Reports : Reading[r].model # Missing /\ CreateModel(v, Reading[r].model)

Failures ==
    \/ \E t \in Ticks : DeviceFails(t) \/ TickDies(t)
    \/ Restart \/ \E reached \in BOOLEAN : DeletionFails(reached)

\* An upsert of the ERP's ticks.
CustomerWritten ==
    /\ \E c \in Customers, login \in Logins \cup {Missing} : WriteRow(c, login)
    /\ UNCHANGED <<counters, acs, inventoryVars, tick, deletion, tested>>

Next ==
    \/ \E t \in Ticks : StartTick(t) \/ Proceed(t)
    \/ Deleting \/ Operators \/ Failures \/ CustomerWritten
    \/ \E d \in Devices, r \in Reports \cup {Unknown} : Report(d, r)

\* The worker ticks for ever, operators need not; a tick that was begun and a request
\* that was accepted are carried through.
Fairness ==
    /\ WF_vars(StartTick("worker")) /\ \A t \in Ticks : WF_vars(Proceed(t))
    /\ WF_vars(Deleting)

Spec == Init /\ [][Next]_vars /\ Fairness

-----------------------------------------------------------------------------
(* Properties.                                                             *)

\* Slugs and names of vendors are unique, and every link has its row.
TypeOK ==
    /\ RowsTypeOK
    /\ acs \in [Devices -> Reports \cup {Unknown}]
    /\ \A v, w \in Known(VendorIds) :
         v # w => vendor[v].slug # vendor[w].slug /\ vendor[v].name # vendor[w].name
    /\ \A m \in models : m[1] \in Known(VendorIds)
    /\ \A d \in Devices : row[d] # NoRow =>
         /\ row[d].model \in models \cup {Missing}
         /\ row[d].customer # Missing => customers[row[d].customer] # NoRow
    /\ \A t \in Ticks : tick[t].at \in {"idle", "devices", "create", "again", "model",
                                        "customer", "existing", "upsert"}
    /\ deletion.at \in {"idle", "acs", "row"}
    /\ \A d \in tested : row[d] # NoRow

\* The vendor's name is there under another slug: the insert is refused and the slug
\* not found, in every tick.
NameTaken(r) ==
    LET name == Reading[r].manufacturer IN
    /\ name # Missing /\ Reading[r].model # Missing
    /\ WithSlug(Slug[name]) = {} /\ Duplicate(NoVendor, Slug[name], name)

Follows(d, r) ==
    LET read == Reading[r] IN
    /\ row[d] # NoRow
    /\ row[d].login = read.login /\ row[d].status = read.status /\ row[d].facts = read.facts
    /\ read.manufacturer # Missing /\ read.model # Missing => row[d].model # Missing

\* sync.go:66: whatever failed, and whatever ticks, deletions and edits came in
\* between, the row of a device that goes on reporting the same comes to say it, for
\* good: no older snapshot is written over it, no NULL hides behind an old value.
DeviceSynced ==
    \A d \in Devices, r \in Reports :
        <>[](acs[d] = r /\ ~NameTaken(r)) => <>[]Follows(d, r)

\* sync.go:261: the customer who has the login becomes the customer of the device that
\* reports it, although the lookup, the read of the old row and the upsert are apart,
\* the login passes from one customer to another, and two ticks write the row.
LinkFollowsLogin ==
    \A d \in Devices, r \in Reports, c \in Customers :
        <>[](acs[d] = r /\ ~NameTaken(r) /\ Reading[r].login # Missing
              /\ customers[c] = Reading[r].login)
            => <>[](row[d] # NoRow /\ row[d].customer = c)

\* sync.go:328: deletion converges.  Once GenieACS has forgotten a device for good,
\* the operator who deletes it is done after finitely many times: a 404 is no
\* obstacle, and no tick brings the row back for ever.  But for a device with a
\* homologation session, whose row is never deleted (00010_init_homologation.sql:41).
DeletionsEnd ==
    \A d \in Devices :
        <>[](acs[d] = Unknown /\ d \notin tested) => <>[](deletion.device # d)

=============================================================================
