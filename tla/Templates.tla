----------------------------- MODULE Templates -----------------------------
(***************************************************************************)
(* Configuration profiles: their rows, parameters and history of versions, *)
(* the edits of operators, the profiles the homologation wizard makes, and *)
(* what provisioning reads of them when it renders jobs (the gate of       *)
(* ApplyBulk included), and the fields of a device that are edited inline. *)
(*                                                                         *)
(* An edit is seven statements with no transaction around them; a reader   *)
(* takes two.  Each is a step here.                                        *)
(***************************************************************************)
EXTENDS Naturals, FiniteSets

CONSTANTS
    Profiles,    \* identities of the rows of config_profiles
    Headers,     \* name, description, vendor and model of a profile
    Generic,     \* headers with model_id NULL
    Contents,    \* tables of parameters that a form or the wizard sends
    ReadOnlyKeys,\* readOnlyKeysExact and readOnlyKeyPrefixes
    NoHeader,    \* no such row
    NoProfile,   \* no profile in the call's hands
    Calls,       \* requests in flight at once
    MaxVersion,  \* bound: no edit is requested of a later version
    MaxFaults    \* bound on failed statements

\* A parameter: its key, the root variable of its template, whether its filters
\* end in default:"...", and its data type.
Parameter == [key : STRING, root : {"literal", "device", "customer", "unknown"},
              default : BOOLEAN, type : {"string", "int"}]

ASSUME ConstantsAssumption ==
    /\ Generic \subseteq Headers
    /\ NoHeader \notin Headers
    /\ NoProfile \notin Profiles
    /\ \A ps \in Contents : ps # {} /\ \A p \in ps : p \in Parameter
    /\ MaxVersion \in Nat /\ MaxFaults \in Nat

VARIABLES
    row,      \* config_profiles: header, version, is_active, is_homologated
    params,   \* profile_parameters of each profile
    history,  \* config_profiles_history of each profile
    record,   \* status of the profile's row of model_homologations
    call,     \* the requests in flight and what they have read
    jobs,     \* history: the last job made since the last request, if any
    disturbed,\* history: profiles whose edits overlapped or failed half-way
    faults    \* history: statements that failed

vars == <<row, params, history, record, call, jobs, disturbed, faults>>
tables == <<row, params, history, record>>

-----------------------------------------------------------------------------
Absent == [header |-> NoHeader, version |-> 0, active |-> FALSE, homologated |-> FALSE]

\* kind: an operator's "edit", the "wizard"'s, an "apply" to one device or in
\* "bulk", or the "fields" of a device.  row and params are the form's, or the
\* row a load has read; found is what was read of the parameters, changed what
\* the form changes.
Idle == [at |-> "idle", kind |-> "edit", p |-> NoProfile, row |-> Absent,
         params |-> {}, found |-> {}, changed |-> {}]

EditStages == {"insert", "fill", "get", "list", "update", "replace", "bump",
               "relist", "append", "record"}
LoadStages == {"find", "load", "loadparams", "gate", "render", "enqueue"}

Init ==
    /\ row     = [p \in Profiles |-> Absent]
    /\ params  = [p \in Profiles |-> {}]
    /\ history = [p \in Profiles |-> {}]
    /\ record  = [p \in Profiles |-> "none"]
    /\ call    = [c \in Calls |-> Idle]
    /\ jobs    = {}
    /\ disturbed = {}
    /\ faults  = 0

Goto(c, at) == call' = [call EXCEPT ![c] = IF at = "idle" THEN Idle
                                           ELSE [@ EXCEPT !.at = at]]
At(c, at) == call[c].at = at

\* UNIQUE (name, vendor_id, model_id), where a NULL differs from every NULL.
Taken(h, p) == h \notin Generic /\ \E q \in Profiles \ {p} : row[q].header = h

EditsInFlight(p) == {c \in Calls : call[c].at \in EditStages \ {"record"} /\ call[c].p = p}

-----------------------------------------------------------------------------
(* Creating a profile: an operator's form, or the wizard's Complete.       *)

RequestCreate(c, h, ps, kind) ==
    /\ call[c] = Idle
    /\ kind = "wizard" => h \notin Generic
    /\ Cardinality({d \in Calls : At(d, "insert")})
           < Cardinality({p \in Profiles : row[p] = Absent})
    /\ call' = [call EXCEPT ![c] =
                  [Idle EXCEPT !.at = "insert", !.kind = kind, !.params = ps,
                     !.row = [header |-> h, version |-> 1, active |-> TRUE,
                              homologated |-> kind = "wizard"]]]
    /\ jobs' = {}
    /\ UNCHANGED <<tables, disturbed, faults>>

\* Faulty variant: the id of the inserted row is not read back.
InsertWithoutId(c, p) ==
    /\ At(c, "insert")
    /\ row[p] = Absent
    /\ row' = [row EXCEPT ![p] = call[c].row]
    /\ Goto(c, "fill")
    /\ UNCHANGED <<params, history, record, jobs, disturbed, faults>>

InsertProfile(c, p) ==
    /\ At(c, "insert")
    /\ row[p] = Absent
    /\ IF Taken(call[c].row.header, p)
       THEN Goto(c, "idle") /\ UNCHANGED row
       ELSE /\ row' = [row EXCEPT ![p] = call[c].row]
            /\ call' = [call EXCEPT ![c] = [@ EXCEPT !.at = "fill", !.p = p]]
    /\ UNCHANGED <<params, history, record, jobs, disturbed, faults>>

FillProfile(c) ==
    /\ At(c, "fill")
    /\ params' = [params EXCEPT ![call[c].p] = call[c].params]
    /\ call' = [call EXCEPT ![c] = [@ EXCEPT !.at = "relist", !.params = {}]]
    /\ UNCHANGED <<row, history, record, jobs, disturbed, faults>>

\* Complete's model_homologations row, after Create has returned.
RecordHomologation(c) ==
    /\ At(c, "record")
    /\ record' = [record EXCEPT ![call[c].p] = "homologated"]
    /\ Goto(c, "idle")
    /\ UNCHANGED <<row, params, history, jobs, disturbed, faults>>

Deprecate(p) ==
    /\ record[p] = "homologated"
    /\ record' = [record EXCEPT ![p] = "deprecated"]
    /\ UNCHANGED <<row, params, history, call, jobs, disturbed, faults>>

-----------------------------------------------------------------------------
(* Editing.                                                                *)

RequestUpdate(c, p, h, active, ps) ==
    /\ call[c] = Idle
    /\ row[p] # Absent /\ row[p].version < MaxVersion
    /\ call' = [call EXCEPT ![c] =
                  [Idle EXCEPT !.at = "get", !.p = p, !.params = ps,
                     !.row = [Absent EXCEPT !.header = h, !.active = active]]]
    /\ disturbed' = IF EditsInFlight(p) = {} THEN disturbed ELSE disturbed \cup {p}
    /\ jobs' = {}
    /\ UNCHANGED <<tables, faults>>

\* GetByID: the version and the flag come from the row, the rest from the form.
GetProfile(c) ==
    LET cur == row[call[c].p] IN
    /\ At(c, "get")
    /\ call' = [call EXCEPT ![c] =
                  [@ EXCEPT !.at = "list",
                     !.row.version = cur.version, !.row.homologated = cur.homologated,
                     !.changed = {f \in {"header", "active"} : call[c].row[f] # cur[f]}]]
    /\ UNCHANGED <<tables, jobs, disturbed, faults>>

\* Faulty variant: the flag is_homologated is not looked at.
AlwaysAllowed(c, changed) == TRUE

\* Of a homologated profile only is_active may change.
Allowed(c, changed) == call[c].row.homologated => changed \subseteq {"active"}

\* ListByProfile, the comparison with the form and the refusal.
CompareParameters(c) ==
    LET cur == call[c]
        changed == cur.changed \cup
                   IF params[cur.p] = cur.params THEN {} ELSE {"params"} IN
    /\ At(c, "list")
    /\ IF changed = {} \/ ~Allowed(c, changed)
       THEN Goto(c, "idle")
       ELSE call' = [call EXCEPT ![c] = [@ EXCEPT !.at = "update",
                                             !.changed = changed \cap {"params"}]]
    /\ UNCHANGED <<tables, jobs, disturbed, faults>>

\* The whole header is written, the version as it was read included.
UpdateProfile(c) ==
    /\ At(c, "update")
    /\ IF Taken(call[c].row.header, call[c].p)
       THEN Goto(c, "idle") /\ UNCHANGED row
       ELSE /\ row' = [row EXCEPT ![call[c].p] =
                           [call[c].row EXCEPT !.homologated = row[call[c].p].homologated]]
            /\ Goto(c, IF call[c].changed = {} THEN "bump" ELSE "replace")
    /\ UNCHANGED <<params, history, record, jobs, disturbed, faults>>

ReplaceParameters(c) ==
    /\ At(c, "replace")
    /\ params' = [params EXCEPT ![call[c].p] = call[c].params]
    /\ Goto(c, "bump")
    /\ UNCHANGED <<row, history, record, jobs, disturbed, faults>>

\* version = version + 1 in the database, whatever the call had read.
IncrementVersion(c) ==
    /\ At(c, "bump")
    /\ row' = [row EXCEPT ![call[c].p].version = @ + 1]
    /\ call' = [call EXCEPT ![c] = [@ EXCEPT !.at = "relist", !.params = {}, !.changed = {},
                                           !.row.version = row[call[c].p].version + 1]]
    /\ UNCHANGED <<params, history, record, jobs, disturbed, faults>>

\* The parameters are read again for the snapshot; an error leaves it without.
ReadSnapshot(c) ==
    /\ At(c, "relist")
    /\ \/ /\ call' = [call EXCEPT ![c] = [@ EXCEPT !.at = "append",
                                                !.found = params[call[c].p]]]
          /\ UNCHANGED <<disturbed, faults>>
       \/ /\ faults < MaxFaults
          /\ faults' = faults + 1
          /\ disturbed' = disturbed \cup {call[c].p}
          /\ call' = [call EXCEPT ![c] = [@ EXCEPT !.at = "append", !.found = {}]]
    /\ UNCHANGED <<tables, jobs>>

\* Faulty variant: the snapshot carries the version that was read.
AppendStale(c) ==
    /\ At(c, "append")
    /\ history' = [history EXCEPT ![call[c].p] = @ \cup
                     {[version |-> IF call[c].row.version = 1 THEN 1
                                   ELSE call[c].row.version - 1,
                       header |-> call[c].row.header, params |-> call[c].found]}]
    /\ Goto(c, IF call[c].kind = "wizard" THEN "record" ELSE "idle")
    /\ UNCHANGED <<row, params, record, jobs, disturbed, faults>>

\* UNIQUE (profile_id, version): a version has one snapshot, the first.
AppendHistory(c) ==
    LET p == call[c].p IN
    /\ At(c, "append")
    /\ IF \E e \in history[p] : e.version = call[c].row.version
       THEN Goto(c, "idle") /\ UNCHANGED history
       ELSE /\ history' = [history EXCEPT ![p] = @ \cup
                             {[version |-> call[c].row.version,
                               header |-> call[c].row.header, params |-> call[c].found]}]
            /\ Goto(c, IF call[c].kind = "wizard" THEN "record" ELSE "idle")
    /\ UNCHANGED <<row, params, record, jobs, disturbed, faults>>

-----------------------------------------------------------------------------
(* Rendering: the template engine, as far as it decides between a value and*)
(* an error.                                                               *)

\* A field of an absent customer is the empty string; an unknown root is an error.
Lookup(p, customer) == IF p.root = "customer" /\ ~customer THEN "empty" ELSE "value"

\* The last filter, when it is default:"...".
Filtered(p, v) == IF p.default THEN "value" ELSE v

\* The empty string is no number; the values of this model are.
CoerceTo(p, v) == p.type = "string" \/ v # "empty"

RenderParameter(p, customer) ==
    p.root # "unknown" /\ CoerceTo(p, Filtered(p, Lookup(p, customer)))

\* Faulty variant: what does not render is left out.
RenderWhatCan(ps, customer) == {{p \in ps : RenderParameter(p, customer)}}

\* The results: all the parameters or, after the first error, none.
RenderProfile(ps, customer) ==
    {resolved \in {ps} : \A p \in resolved : RenderParameter(p, customer)}

-----------------------------------------------------------------------------
(* Provisioning's side.                                                    *)

\* ApplyToDevice or ApplyBulk: LoadFull is two statements.
RequestApply(c, p, kind) ==
    /\ call[c] = Idle
    /\ row[p] # Absent
    /\ call' = [call EXCEPT ![c] = [Idle EXCEPT !.at = "load", !.kind = kind, !.p = p]]
    /\ jobs' = {}
    /\ UNCHANGED <<tables, disturbed, faults>>

LoadProfile(c) ==
    /\ At(c, "load")
    /\ call' = [call EXCEPT ![c] = [@ EXCEPT !.at = "loadparams", !.row = row[call[c].p]]]
    /\ UNCHANGED <<tables, jobs, disturbed, faults>>

LoadParameters(c) ==
    /\ At(c, "loadparams")
    /\ call' = [call EXCEPT ![c] =
                  [@ EXCEPT !.at = CASE call[c].kind = "bulk"   -> "gate"
                                     [] call[c].kind = "fields" -> "enqueue"
                                     [] OTHER -> "render",
                            !.found = params[call[c].p]]]
    /\ UNCHANGED <<tables, jobs, disturbed, faults>>

\* Faulty variant: the flag of the profile is taken for the record.
GateByFlag(c) == call[c].row.header \in Generic \/ call[c].row.homologated

\* A profile with a model needs a homologated record; a generic one passes.
GateOpen(c) == call[c].row.header \in Generic \/ record[call[c].p] = "homologated"

HomologationGate(c) ==
    /\ At(c, "gate")
    /\ Goto(c, IF GateOpen(c) THEN "render" ELSE "idle")
    /\ UNCHANGED <<tables, jobs, disturbed, faults>>

\* One device, with or without a customer: of another model or without a value
\* it is refused; otherwise its job carries the parameters loaded above.  A bulk
\* request goes on to the next device.
RenderJob(c, customer, sameModel) ==
    LET cur == call[c]
        fits == cur.kind = "bulk" => cur.row.header \in Generic \/ sameModel IN
    /\ At(c, "render")
    /\ \/ ~fits /\ UNCHANGED jobs
       \/ RenderProfile(cur.found, customer) = {} /\ UNCHANGED jobs
       \/ /\ fits
          /\ \E resolved \in RenderProfile(cur.found, customer) :
                 jobs' = {[p |-> cur.p, kind |-> cur.kind, header |-> cur.row.header,
                           version |-> cur.row.version, params |-> resolved]}
    /\ \/ cur.kind = "bulk" /\ UNCHANGED call
       \/ Goto(c, "idle")
    /\ UNCHANGED <<tables, disturbed, faults>>

-----------------------------------------------------------------------------
(* The fields of a device, edited inline: the profile homologated for its   *)
(* model says which ones there are, the mappings of the wizard which of     *)
(* them may be written.                                                    *)

RequestFields(c) ==
    /\ call[c] = Idle
    /\ call' = [call EXCEPT ![c] = [Idle EXCEPT !.at = "find", !.kind = "fields"]]
    /\ jobs' = {}
    /\ UNCHANGED <<tables, disturbed, faults>>

\* Faulty variant: the flag of the profile is taken for the record.
FlaggedProfiles == {p \in Profiles : row[p].homologated /\ params[p] # {}}

HomologatedProfiles == {p \in Profiles : record[p] = "homologated"}

\* Of several homologated profiles of a model the newest; without one, or for a
\* device without a model, there is nothing to edit.
FindActiveByModel(c) ==
    /\ At(c, "find")
    /\ \/ \E p \in HomologatedProfiles :
              call' = [call EXCEPT ![c] = [@ EXCEPT !.at = "load", !.p = p]]
       \/ Goto(c, "idle")
    /\ UNCHANGED <<tables, jobs, disturbed, faults>>

IsReadOnlyKey(p) == p.key \in ReadOnlyKeys

\* written: the keys whose mapping passed its write test, or skipped it as a secret.
Writable(ps, written) == {p \in ps : p.key \in written /\ ~IsReadOnlyKey(p)}

\* blank: the secrets the form leaves empty; numbers: the keys whose values in
\* it are numbers.
CoerceValue(p, numbers) == p.type = "string" \/ p.key \in numbers

\* One job for the whole form, or none: every field must be writable and every
\* value of its type; a secret that is left blank stays as it is.
EnqueueFields(c, written, form, blank, numbers) ==
    LET cur  == call[c]
        sent == {p \in cur.found : p.key \in form \ blank} IN
    /\ At(c, "enqueue")
    /\ IF /\ form \subseteq {p.key : p \in Writable(cur.found, written)}
          /\ sent # {} /\ \A p \in sent : CoerceValue(p, numbers)
       THEN jobs' = {[p |-> cur.p, kind |-> cur.kind, header |-> cur.row.header,
                      version |-> 0, params |-> sent]}
       ELSE UNCHANGED jobs
    /\ Goto(c, "idle")
    /\ UNCHANGED <<tables, disturbed, faults>>

UpdateFields(c) ==
    \/ FindActiveByModel(c)
    \/ LET keys == {p.key : p \in call[c].found} IN
       \E written, form \in SUBSET keys : \E blank, numbers \in SUBSET form :
           EnqueueFields(c, written, form, blank, numbers)

-----------------------------------------------------------------------------
(* The next statement of the call fails, or the server dies.               *)
StatementFails(c) ==
    /\ call[c] # Idle
    /\ faults < MaxFaults
    /\ faults' = faults + 1
    /\ disturbed' = IF call[c].at \in {"fill", "replace", "bump", "relist", "append"}
                    THEN disturbed \cup {call[c].p} ELSE disturbed
    /\ Goto(c, "idle")
    /\ UNCHANGED <<tables, jobs>>

-----------------------------------------------------------------------------
Requests(c) ==
    \/ \E h \in Headers, ps \in Contents, kind \in {"edit", "wizard"} :
           RequestCreate(c, h, ps, kind)
    \/ \E p \in Profiles, h \in Headers, active \in BOOLEAN, ps \in Contents :
           RequestUpdate(c, p, h, active, ps)
    \/ \E p \in Profiles, kind \in {"apply", "bulk"} : RequestApply(c, p, kind)
    \/ RequestFields(c)

Edit(c) == \/ \E p \in Profiles : InsertProfile(c, p)
           \/ FillProfile(c) \/ GetProfile(c) \/ CompareParameters(c)
           \/ UpdateProfile(c) \/ ReplaceParameters(c) \/ IncrementVersion(c)
           \/ ReadSnapshot(c) \/ AppendHistory(c) \/ RecordHomologation(c)

Apply(c) == \/ LoadProfile(c) \/ LoadParameters(c) \/ HomologationGate(c) \/ UpdateFields(c)
            \/ \E customer, sameModel \in BOOLEAN : RenderJob(c, customer, sameModel)

Next == \/ \E c \in Calls : Requests(c) \/ Edit(c) \/ Apply(c) \/ StatementFails(c)
        \/ \E p \in Profiles : Deprecate(p)

Spec == Init /\ [][Next]_vars

-----------------------------------------------------------------------------
(* Properties.                                                             *)

ProfileRow == [header : Headers \cup {NoHeader}, version : Nat, active : BOOLEAN,
               homologated : BOOLEAN]
ParameterSets == SUBSET UNION Contents
Snapshot   == [version : Nat, header : Headers, params : ParameterSets]
CallRecord == [at : EditStages \cup LoadStages \cup {"idle"},
               kind : {"edit", "wizard", "apply", "bulk", "fields"}, p : Profiles \cup {NoProfile},
               row : ProfileRow, params : ParameterSets, found : ParameterSets,
               changed : SUBSET {"header", "active", "params"}]
Payload    == [p : Profiles, kind : {"apply", "bulk", "fields"}, header : Headers, version : Nat,
               params : ParameterSets]

TypeOK ==
    /\ row     \in [Profiles -> ProfileRow]
    /\ params  \in [Profiles -> ParameterSets]
    /\ history \in [Profiles -> SUBSET Snapshot]
    /\ record  \in [Profiles -> {"none", "homologated", "deprecated"}]
    /\ call    \in [Calls -> CallRecord]
    /\ \A c \in Calls : call[c].p = NoProfile => call[c].at \in {"idle", "insert", "find"}
    /\ jobs    \subseteq Payload
    /\ disturbed \subseteq Profiles
    /\ faults  \in Nat

\* entities.go:54: what has been homologated keeps its header and its parameters,
\* whatever edits are in flight (Update's refusal rests on what it read earlier).
HomologatedImmutable ==
    [][\A p \in Profiles : record[p] # "none" =>
           params'[p] = params[p] /\ row'[p].header = row[p].header]_vars

\* Between edits, the history has one snapshot of every version up to the
\* current one, and the last is what the profile is, unless two edits of it have
\* overlapped or one has stopped half-way (Create, Update, appendHistory).
SnapshotsExact ==
    \A p \in Profiles : row[p] # Absent /\ p \notin disturbed /\ EditsInFlight(p) = {} =>
        /\ {e.version : e \in history[p]} = 1 .. row[p].version
        /\ Cardinality(history[p]) = row[p].version
        /\ [version |-> row[p].version, header |-> row[p].header,
            params |-> params[p]] \in history[p]

\* A bulk job of a profile with a model carries the parameters that were
\* homologated, all of them, although the profile is read in two statements, the
\* gate asked in a third and the profile made in six (ApplyBulk, Complete).  A
\* profile read before its parameters were written has none: such a job is empty.
BulkIsHomologated ==
    \A j \in jobs : j.kind = "bulk" /\ j.header \notin Generic =>
        /\ record[j.p] # "none"
        /\ j.params \in {{}, params[j.p]}

\* profile_view.go:149: a job of inline edits writes parameters of a profile that was
\* homologated for the model of the device, as it was homologated, although the
\* record, the profile and its parameters are read in statements of their own.
FieldsAreHomologated ==
    \A j \in jobs : j.kind = "fields" =>
        record[j.p] # "none" /\ j.params \subseteq params[j.p]

\* service.go:326: the payload names the version whose parameters it carries.
\* For homologated profiles that is so, although the version is read before the
\* parameters and is_active may be edited in between.
PayloadOfVersion ==
    \A j \in jobs :
        /\ row[j.p].homologated /\ j.params # {} /\ j.kind # "fields"
        /\ j.p \notin disturbed /\ EditsInFlight(j.p) = {}
        => \E e \in history[j.p] : e.version = j.version /\ e.params = j.params

=============================================================================
