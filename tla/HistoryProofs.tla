--------------------------- MODULE HistoryProofs ---------------------------
(***************************************************************************)
(* The history of the profiles of Templates: what an edit that nobody      *)
(* disturbs leaves behind, and that a payload names a version it carries,  *)
(* for any profiles, requests and versions.                                *)
(***************************************************************************)
EXTENDS TemplatesProofs, FiniteSetTheorems, FunctionTheorems

-----------------------------------------------------------------------------
(* The snapshots of a profile and what an edit half-way through finds.      *)

InEdit(r, p) == r.at \in EditStages \ {"record"} /\ r.p = p

\* One snapshot of each version from 1 to n, and no other.
Versions(p, n) ==
    /\ \A e \in history[p] : e.version \in 1 .. n
    /\ \A i \in 1 .. n : \E e \in history[p] : e.version = i
    /\ \A e, f \in history[p] : e.version = f.version => e = f

Settled(p) ==
    /\ Versions(p, row[p].version)
    /\ [version |-> row[p].version, header |-> row[p].header, params |-> params[p]]
           \in history[p]

\* The history misses the current version from the increment to the snapshot.
EditFollows(p, r) ==
    /\ r.at \in {"get", "list", "update"} => Settled(p)
    /\ r.at \in {"list", "update"} => r.row.version = row[p].version
    /\ r.at \in {"replace", "bump"} => Versions(p, row[p].version)
    /\ r.at \in {"fill", "relist", "append"} =>
           Versions(p, row[p].version - 1) /\ r.row.version = row[p].version
    /\ r.at \in {"replace", "bump", "fill", "relist", "append"} => r.row.header = row[p].header
    /\ r.at = "append" => r.found = params[p]

Undisturbed(p) ==
    /\ row[p].version \in Nat \ {0}
    /\ \A c \in Calls : InEdit(call[c], p) =>
           EditFollows(p, call[c]) /\ \A d \in Calls : InEdit(call[d], p) => d = c
    /\ (\A c \in Calls : ~InEdit(call[c], p)) => Settled(p)

HistorySound ==
    /\ \A c \in Calls : call[c].at = "insert" => call[c].row.version = 1
    /\ \A p \in Profiles : row[p] = Absent => history[p] = {}
    /\ \A p \in Profiles \ disturbed : row[p] # Absent => Undisturbed(p)

\* Snapshots of n versions are n.
LEMMA VersionsCounted ==
    ASSUME NEW p, NEW n \in Nat, Versions(p, n)
    PROVE  /\ {e.version : e \in history[p]} = 1 .. n
           /\ Cardinality(history[p]) = n
  <1> DEFINE f == [i \in 1 .. n |-> CHOOSE e \in history[p] : e.version = i]
  <1>1. \A i \in 1 .. n : f[i] \in history[p] /\ f[i].version = i
    BY DEF Versions
  <1>2. f \in [1 .. n -> history[p]]
    BY <1>1
  <1> HIDE DEF f
  <1>3. \A i, j \in 1 .. n : f[i] = f[j] => i = j
    BY <1>1
  <1>4. \A e \in history[p] : \E i \in 1 .. n : f[i] = e
    BY <1>1 DEF Versions
  <1>5. f \in Bijection(1 .. n, history[p])
    BY <1>2, <1>3, <1>4, Fun_IsBij
  <1>6. ExistsBijection(1 .. n, history[p])
    BY <1>5 DEF ExistsBijection
  <1>7. Cardinality(history[p]) = n
    BY <1>6, FS_CountingElements
  <1>8. {e.version : e \in history[p]} = 1 .. n
    BY DEF Versions
  <1> QED
    BY <1>7, <1>8

-----------------------------------------------------------------------------
(* A step moves one call, which works on one profile.                       *)

LEMMA HistoryFrame ==
    ASSUME Shape, HistorySound, NEW c \in Calls, NEW p, NEW r,
           call' = [call EXCEPT ![c] = r], disturbed \subseteq disturbed',
           \A q \in Profiles \ {p} :
               /\ row'[q] = row[q] /\ params'[q] = params[q] /\ history'[q] = history[q]
               /\ ~InEdit(call[c], q) /\ ~InEdit(r, q),
           r.at = "insert" => r.row.version = 1,
           p \in Profiles /\ row'[p] = Absent => history'[p] = {},
           p \in Profiles \ disturbed' /\ row'[p] # Absent => Undisturbed(p)'
    PROVE  HistorySound'
  <1>1. \A d \in Calls : call'[d] = IF d = c THEN r ELSE call[d]
    BY DEF Shape, TypeOK
  <1>2. \A d \in Calls : call'[d].at = "insert" => call'[d].row.version = 1
    BY <1>1 DEF HistorySound
  <1>3. ASSUME NEW q \in Profiles, row'[q] = Absent PROVE history'[q] = {}
    BY <1>3 DEF HistorySound
  <1>4. ASSUME NEW q \in Profiles \ disturbed', row'[q] # Absent PROVE Undisturbed(q)'
    <2>1. CASE q = p
      BY <1>4, <2>1
    <2>2. CASE q # p
      <3>1. /\ row'[q] = row[q] /\ params'[q] = params[q] /\ history'[q] = history[q]
            /\ ~InEdit(call[c], q) /\ ~InEdit(r, q)
        BY <2>2
      <3>2. Undisturbed(q)
        BY <1>4, <3>1 DEF HistorySound
      <3>3. \A n : Versions(q, n)' <=> Versions(q, n)
        BY <3>1 DEF Versions
      <3>4. Settled(q)' <=> Settled(q)
        BY <3>1 DEF Settled, Versions
      <3>5. ASSUME NEW d \in Calls
            PROVE  InEdit(call[d], q)' <=> InEdit(call[d], q)
        BY <1>1, <3>1 DEF InEdit
      <3>6. ASSUME NEW d \in Calls, InEdit(call[d], q), EditFollows(q, call[d])
            PROVE  EditFollows(q, call[d])'
        <4>1. call'[d] = call[d]
          BY <1>1, <3>1, <3>6
        <4> QED
          BY <3>1, <3>4, <3>6, <4>1 DEF EditFollows, Versions
      <3> QED
        BY <3>1, <3>2, <3>4, <3>5, <3>6 DEF Undisturbed
    <2> QED
      BY <2>1, <2>2
  <1> QED
    BY <1>2, <1>3, <1>4 DEF HistorySound

\* A step outside the stages of an edit.
LEMMA QuietStep ==
    ASSUME Shape, HistorySound, NEW c \in Calls, NEW r, call' = [call EXCEPT ![c] = r],
           UNCHANGED <<row, params, history>>, disturbed \subseteq disturbed',
           \A q \in Profiles : ~InEdit(call[c], q) /\ ~InEdit(r, q),
           r.at = "insert" => r.row.version = 1
    PROVE  HistorySound'
  <1>1. NoProfile \notin Profiles
    BY ConstantsAssumption
  <1> QED
    BY <1>1, HistoryFrame

\* The edit c of p is alone, if p is not disturbed.
LEMMA OwnEdit ==
    ASSUME Shape, HistorySound, NEW c \in Calls, NEW p \in Profiles, InEdit(call[c], p)
    PROVE  /\ row[p] # Absent
           /\ p \notin disturbed => /\ row[p].version \in Nat \ {0}
                                    /\ EditFollows(p, call[c])
                                    /\ \A d \in Calls : InEdit(call[d], p) => d = c
  <1>1. row[p] # Absent
    BY ConstantsAssumption DEF InEdit, Shape, CallSound
  <1> QED
    BY <1>1 DEF HistorySound, Undisturbed

\* A step of an edit leaves what the next stage of it relies on.
LEMMA EditStep ==
    ASSUME Shape, HistorySound, NEW c \in Calls, NEW p \in Profiles, InEdit(call[c], p),
           NEW r, call' = [call EXCEPT ![c] = r], r.p \in {p, NoProfile}, r.at # "insert",
           disturbed \subseteq disturbed',
           \A q \in Profiles \ {p} :
               row'[q] = row[q] /\ params'[q] = params[q] /\ history'[q] = history[q],
           row'[p] # Absent,
           p \notin disturbed' =>
               /\ row'[p].version \in Nat \ {0}
               /\ InEdit(r, p) => EditFollows(p, r)'
               /\ ~InEdit(r, p) => Settled(p)'
    PROVE  HistorySound'
  <1>1. \A d \in Calls : call'[d] = IF d = c THEN r ELSE call[d]
    BY DEF Shape, TypeOK
  <1>2. \A q \in Profiles \ {p} : ~InEdit(call[c], q) /\ ~InEdit(r, q)
    BY ConstantsAssumption DEF InEdit
  <1>3. ASSUME p \notin disturbed' PROVE Undisturbed(p)'
    <2>1. \A d \in Calls : InEdit(call[d], p) => d = c
      BY <1>3, OwnEdit
    <2>2. \A d \in Calls : InEdit(call[d], p)' => d = c /\ InEdit(r, p)
      BY <1>1, <2>1 DEF InEdit
    <2>3. ASSUME NEW d \in Calls, InEdit(call[d], p)' PROVE EditFollows(p, call[d])'
      <3>1. d = c /\ call'[d] = r /\ InEdit(r, p)
        BY <1>1, <2>2, <2>3
      <3> QED
        BY <1>3, <3>1 DEF EditFollows
    <2>4. InEdit(call[c], p)' <=> InEdit(r, p)
      BY <1>1 DEF InEdit
    <2> QED
      BY <1>3, <2>2, <2>3, <2>4 DEF Undisturbed
  <1> QED
    BY <1>2, <1>3, HistoryFrame

\* An edit that is given up, or is over, and has not written since it was settled.
LEMMA EditEnds ==
    ASSUME Shape, HistorySound, NEW c \in Calls, NEW p \in Profiles, InEdit(call[c], p),
           Goto(c, "idle"), UNCHANGED <<row, params, history>>, disturbed \subseteq disturbed',
           p \notin disturbed' => Settled(p)
    PROVE  HistorySound'
  <1>1. call' = [call EXCEPT ![c] = Idle]
    BY DEF Goto
  <1>2. Idle.p = NoProfile /\ Idle.at = "idle" /\ ~InEdit(Idle, p)
    BY DEF Idle, InEdit, EditStages
  <1>3. row[p] # Absent /\ (p \notin disturbed' => row[p].version \in Nat \ {0})
    BY OwnEdit
  <1>4. p \notin disturbed' => Settled(p)'
    BY DEF Settled, Versions
  <1> QED
    BY <1>1, <1>2, <1>3, <1>4, EditStep

-----------------------------------------------------------------------------
(* Requests, and the steps of provisioning.                                 *)

LEMMA RequestsHistory ==
    ASSUME Shape, HistorySound, NEW c \in Calls, Requests(c) PROVE HistorySound'
  <1>1. \A q \in Profiles : ~InEdit(Idle, q)
    BY DEF InEdit, Idle, EditStages
  <1>2. ASSUME NEW h \in Headers, NEW ps \in Contents, NEW kind \in {"edit", "wizard"},
               RequestCreate(c, h, ps, kind)
        PROVE  HistorySound'
    <2> DEFINE w == [header |-> h, version |-> 1, active |-> TRUE,
                     homologated |-> kind = "wizard"]
               r == [Idle EXCEPT !.at = "insert", !.kind = kind, !.params = ps, !.row = w]
    <2>1. r.at = "insert" /\ r.p = NoProfile /\ r.row = w /\ w.version = 1
      BY DEF Idle
    <2>2. call' = [call EXCEPT ![c] = r] /\ call[c] = Idle
          /\ UNCHANGED <<row, params, history, disturbed>>
      BY <1>2 DEF RequestCreate, tables
    <2> HIDE DEF r, w
    <2>3. \A q \in Profiles : ~InEdit(r, q)
      BY <2>1, ConstantsAssumption DEF InEdit
    <2> QED
      BY <1>1, <2>1, <2>2, <2>3, QuietStep
  <1>3. ASSUME NEW p \in Profiles, NEW h \in Headers, NEW active \in BOOLEAN,
               NEW ps \in Contents, RequestUpdate(c, p, h, active, ps)
        PROVE  HistorySound'
    <2> DEFINE r == [Idle EXCEPT !.at = "get", !.p = p, !.params = ps,
                       !.row = [Absent EXCEPT !.header = h, !.active = active]]
    <2>1. r.at = "get" /\ r.p = p
      BY DEF Idle
    <2>2. /\ call' = [call EXCEPT ![c] = r] /\ call[c] = Idle
          /\ UNCHANGED <<row, params, history>> /\ row[p] # Absent
          /\ disturbed' = IF EditsInFlight(p) = {} THEN disturbed ELSE disturbed \cup {p}
      BY <1>3 DEF RequestUpdate, tables
    <2> HIDE DEF r
    <2>3. \A q \in Profiles \ {p} : ~InEdit(r, q) /\ ~InEdit(call[c], q)
      BY <1>1, <2>1, <2>2 DEF InEdit
    <2>4. ASSUME p \notin disturbed' PROVE Undisturbed(p)'
      <3>1. \A d \in Calls : ~InEdit(call[d], p)
        BY <2>2, <2>4 DEF EditsInFlight, InEdit
      <3>2. Undisturbed(p) /\ Settled(p)
        BY <2>2, <2>4, <3>1 DEF HistorySound, Undisturbed
      <3>3. \A d \in Calls : call'[d] = IF d = c THEN r ELSE call[d]
        BY <2>2 DEF Shape, TypeOK
      <3>4. \A d \in Calls : InEdit(call[d], p)' => d = c
        BY <3>1, <3>3 DEF InEdit
      <3>5. Settled(p)'
        BY <2>2, <3>2 DEF Settled, Versions
      <3>6. EditFollows(p, r)'
        BY <2>1, <3>5 DEF EditFollows
      <3>7. EditFollows(p, call[c])'
        BY <3>3, <3>6 DEF EditFollows
      <3> QED
        BY <2>2, <3>2, <3>4, <3>5, <3>7 DEF Undisturbed
    <2> QED
      BY <2>1, <2>2, <2>3, <2>4, HistoryFrame
  <1>4. ASSUME NEW p \in Profiles, NEW kind \in {"apply", "bulk"}, RequestApply(c, p, kind)
        PROVE  HistorySound'
    <2> DEFINE r == [Idle EXCEPT !.at = "load", !.kind = kind, !.p = p]
    <2>1. r.at = "load"
      BY DEF Idle
    <2>2. call' = [call EXCEPT ![c] = r] /\ call[c] = Idle
          /\ UNCHANGED <<row, params, history, disturbed>>
      BY <1>4 DEF RequestApply, tables
    <2> HIDE DEF r
    <2>3. \A q \in Profiles : ~InEdit(r, q)
      BY <2>1 DEF InEdit, EditStages
    <2> QED
      BY <1>1, <2>1, <2>2, <2>3, QuietStep
  <1>5. ASSUME RequestFields(c) PROVE HistorySound'
    <2> DEFINE r == [Idle EXCEPT !.at = "find", !.kind = "fields"]
    <2>1. r.at = "find"
      BY DEF Idle
    <2>2. call' = [call EXCEPT ![c] = r] /\ call[c] = Idle
          /\ UNCHANGED <<row, params, history, disturbed>>
      BY <1>5 DEF RequestFields, tables
    <2> HIDE DEF r
    <2>3. \A q \in Profiles : ~InEdit(r, q)
      BY <2>1 DEF InEdit, EditStages
    <2> QED
      BY <1>1, <2>1, <2>2, <2>3, QuietStep
  <1> QED
    BY <1>2, <1>3, <1>4, <1>5 DEF Requests

\* A call that loads goes on loading, or is over.
LEMMA ApplyHistory ==
    ASSUME Shape, HistorySound, NEW c \in Calls, Apply(c) PROVE HistorySound'
  <1>1. /\ call[c].at \in LoadStages /\ UNCHANGED <<row, params, history, disturbed>>
    BY DEF Apply, LoadProfile, LoadParameters, HomologationGate, UpdateFields,
       FindActiveByModel, EnqueueFields, RenderJob, At, LoadStages, tables
  <1>2. \E r : call' = [call EXCEPT ![c] = r] /\ r.at \in LoadStages \cup {"idle"}
    <2>0. call \in [Calls -> CallRecord] /\ call[c] \in CallRecord
      BY DEF Shape, TypeOK
    <2>1. ASSUME NEW at \in LoadStages \cup {"idle"}, Goto(c, at)
          PROVE  \E r : call' = [call EXCEPT ![c] = r] /\ r.at \in LoadStages \cup {"idle"}
      <3>1. CASE at = "idle"
        <4>1. Idle.at = "idle"
          BY DEF Idle
        <4> QED
          BY <2>1, <3>1, <4>1 DEF Goto
      <3>2. CASE at # "idle"
        <4>1. [call[c] EXCEPT !.at = at].at = at
          BY <2>0 DEF CallRecord
        <4> QED
          BY <2>1, <3>2, <4>1 DEF Goto
      <3> QED
        BY <3>1, <3>2
    <2>2. CASE LoadProfile(c)
      <3>1. [call[c] EXCEPT !.at = "loadparams", !.row = row[call[c].p]].at = "loadparams"
        BY <2>0 DEF CallRecord
      <3> QED
        BY <2>2, <3>1 DEF LoadProfile, LoadStages
    <2>3. CASE LoadParameters(c)
      <3> DEFINE to == CASE call[c].kind = "bulk"   -> "gate"
                         [] call[c].kind = "fields" -> "enqueue"
                         [] OTHER -> "render"
      <3>1. to \in LoadStages
        BY DEF LoadStages
      <3>2. call' = [call EXCEPT ![c] = [call[c] EXCEPT !.at = to, !.found = params[call[c].p]]]
        BY <2>3 DEF LoadParameters
      <3> HIDE DEF to
      <3>3. [call[c] EXCEPT !.at = to, !.found = params[call[c].p]].at = to
        BY <2>0 DEF CallRecord
      <3> QED
        BY <3>1, <3>2, <3>3
    <2>4. CASE HomologationGate(c)
      BY <2>1, <2>4 DEF HomologationGate, LoadStages
    <2>5. CASE FindActiveByModel(c)
      <3>1. ASSUME NEW p \in HomologatedProfiles,
                   call' = [call EXCEPT ![c] = [@ EXCEPT !.at = "load", !.p = p]]
            PROVE  \E r : call' = [call EXCEPT ![c] = r] /\ r.at \in LoadStages \cup {"idle"}
        <4>1. [call[c] EXCEPT !.at = "load", !.p = p].at = "load"
          BY <2>0 DEF CallRecord
        <4> QED
          BY <3>1, <4>1 DEF LoadStages
      <3> QED
        BY <2>1, <2>5, <3>1 DEF FindActiveByModel
    <2>6. ASSUME NEW w, NEW f, NEW bl, NEW n, EnqueueFields(c, w, f, bl, n)
          PROVE  \E r : call' = [call EXCEPT ![c] = r] /\ r.at \in LoadStages \cup {"idle"}
      BY <2>1, <2>6 DEF EnqueueFields
    <2>7. ASSUME NEW customer, NEW sameModel, RenderJob(c, customer, sameModel)
          PROVE  \E r : call' = [call EXCEPT ![c] = r] /\ r.at \in LoadStages \cup {"idle"}
      <3>1. CASE UNCHANGED call
        BY <1>1, <2>0, <3>1
      <3> QED
        BY <2>1, <2>7, <3>1 DEF RenderJob
    <2> QED
      BY <2>2, <2>3, <2>4, <2>5, <2>6, <2>7 DEF Apply, UpdateFields
  <1>3. PICK r : call' = [call EXCEPT ![c] = r] /\ r.at \in LoadStages \cup {"idle"}
    BY <1>2
  <1>4. \A q \in Profiles : ~InEdit(call[c], q) /\ ~InEdit(r, q)
    BY <1>1, <1>3 DEF InEdit, LoadStages, EditStages
  <1> QED
    BY <1>1, <1>3, <1>4, QuietStep DEF LoadStages

-----------------------------------------------------------------------------
(* The statements of an edit.                                               *)

\* The stages of an edit whose call holds a profile.
LEMMA HoldsProfile ==
    ASSUME Shape, NEW c \in Calls, call[c].at \in EditStages \ {"insert", "record"}
    PROVE  call[c].p \in Profiles /\ InEdit(call[c], call[c].p)
  <1>1. call[c].p \in Profiles \cup {NoProfile}
    BY DEF Shape, TypeOK, CallRecord
  <1>2. call[c].p # NoProfile
    BY DEF Shape, TypeOK, EditStages
  <1> QED
    BY <1>1, <1>2 DEF InEdit

LEMMA InsertProfileHistory ==
    ASSUME Shape, HistorySound, NEW c \in Calls, NEW p \in Profiles, InsertProfile(c, p)
    PROVE  HistorySound'
  <1>1. /\ call[c] \in CallRecord /\ call[c].at = "insert" /\ call[c].p = NoProfile
        /\ row[p] = Absent /\ call[c].row.version = 1 /\ UNCHANGED <<params, history, disturbed>>
    BY DEF InsertProfile, At, Shape, TypeOK, CallSound, HistorySound
  <1>2. \A q \in Profiles : ~InEdit(call[c], q)
    BY <1>1, ConstantsAssumption DEF InEdit
  <1>3. CASE Goto(c, "idle") /\ UNCHANGED row
    <2>1. call' = [call EXCEPT ![c] = Idle] /\ Idle.at = "idle"
      BY <1>3 DEF Goto, Idle
    <2>2. \A q \in Profiles : ~InEdit(Idle, q)
      BY <2>1 DEF InEdit, EditStages
    <2> QED
      BY <1>1, <1>2, <1>3, <2>1, <2>2, QuietStep
  <1>4. CASE ~(Goto(c, "idle") /\ UNCHANGED row)
    <2>0. PICK r : r = [call[c] EXCEPT !.at = "fill", !.p = p]
      OBVIOUS
    <2>1. r.at = "fill" /\ r.p = p /\ r.row = call[c].row
      BY <1>1, <2>0 DEF CallRecord
    <2>2. row' = [row EXCEPT ![p] = call[c].row] /\ call' = [call EXCEPT ![c] = r]
      BY <1>4, <2>0 DEF InsertProfile
    <2>3. row'[p] = call[c].row /\ \A q \in Profiles \ {p} : row'[q] = row[q]
      BY <2>2 DEF Shape, TypeOK
    <2>4. \A q \in Profiles \ {p} : ~InEdit(r, q)
      BY <2>1 DEF InEdit
    <2>5. Undisturbed(p)'
      <3>1. \A d \in Calls : ~InEdit(call[d], p)
        BY <1>1, ConstantsAssumption DEF InEdit, Shape, CallSound
      <3>2. \A d \in Calls : call'[d] = IF d = c THEN r ELSE call[d]
        BY <2>2 DEF Shape, TypeOK
      <3>3. \A d \in Calls : InEdit(call[d], p)' <=> d = c
        BY <2>1, <3>1, <3>2 DEF InEdit, EditStages
      <3>4. history'[p] = {} /\ row'[p].version = 1
        BY <1>1, <2>3 DEF HistorySound
      <3>5. Versions(p, row[p].version - 1)'
        BY <3>4 DEF Versions
      <3>6. EditFollows(p, r)'
        BY <2>1, <2>3, <3>5 DEF EditFollows
      <3>7. EditFollows(p, call[c])'
        BY <3>2, <3>6 DEF EditFollows
      <3> QED
        BY <3>3, <3>4, <3>7 DEF Undisturbed
    <2>6. row'[p] # Absent
      BY <1>1, <2>3 DEF Absent
    <2>7. /\ \A q \in Profiles \ {p} :
               /\ row'[q] = row[q] /\ params'[q] = params[q] /\ history'[q] = history[q]
               /\ ~InEdit(call[c], q) /\ ~InEdit(r, q)
          /\ disturbed \subseteq disturbed'
      BY <1>1, <1>2, <2>3, <2>4
    <2>8. /\ r.at = "insert" => r.row.version = 1
          /\ p \in Profiles /\ row'[p] = Absent => history'[p] = {}
          /\ p \in Profiles \ disturbed' /\ row'[p] # Absent => Undisturbed(p)'
      BY <2>1, <2>5, <2>6
    <2>9. call' = [call EXCEPT ![c] = r]
      BY <2>2
    <2> QED
      BY <2>7, <2>8, <2>9, HistoryFrame
  <1> QED
    BY <1>3, <1>4

LEMMA FillProfileHistory ==
    ASSUME Shape, HistorySound, NEW c \in Calls, FillProfile(c) PROVE HistorySound'
  <1>p. PICK p : p = call[c].p
    OBVIOUS
  <1>0. PICK r : r = [call[c] EXCEPT !.at = "relist", !.params = {}]
    OBVIOUS
  <1>1. call[c] \in CallRecord /\ call[c].at = "fill" /\ p \in Profiles /\ InEdit(call[c], p)
    BY <1>p, HoldsProfile DEF FillProfile, At, EditStages, Shape, TypeOK
  <1>2. r.at = "relist" /\ r.p = p /\ r.row = call[c].row
    BY <1>p, <1>0, <1>1 DEF CallRecord
  <1>3. /\ call' = [call EXCEPT ![c] = r] /\ UNCHANGED <<row, history, disturbed>>
        /\ \A q \in Profiles \ {p} : params'[q] = params[q]
    BY <1>p, <1>0 DEF FillProfile, Shape, TypeOK
  <1>4. /\ row[p] # Absent
        /\ p \notin disturbed => row[p].version \in Nat \ {0} /\ EditFollows(p, call[c])
    BY <1>1, OwnEdit
  <1>5. p \notin disturbed => EditFollows(p, r)'
    BY <1>1, <1>2, <1>3, <1>4 DEF EditFollows, Versions
  <1>6. InEdit(r, p)
    BY <1>2 DEF InEdit, EditStages
  <1> QED
    BY <1>1, <1>2, <1>3, <1>4, <1>5, <1>6, EditStep

LEMMA GetProfileHistory ==
    ASSUME Shape, HistorySound, NEW c \in Calls, GetProfile(c) PROVE HistorySound'
  <1>p. PICK p : p = call[c].p
    OBVIOUS
  <1> DEFINE cur == row[p]
             u   == [call[c].row EXCEPT !.version = cur.version,
                                        !.homologated = cur.homologated]
             changed == {f \in {"header", "active"} : call[c].row[f] # cur[f]}
  <1>0. PICK r : r = [call[c] EXCEPT !.at = "list", !.row = u, !.changed = changed]
    OBVIOUS
  <1>1. /\ call[c] \in CallRecord /\ call[c].row \in ProfileRow /\ call[c].at = "get"
        /\ p \in Profiles /\ InEdit(call[c], p)
    BY <1>p, HoldsProfile DEF GetProfile, At, EditStages, Shape, TypeOK, CallRecord
  <1>2. r.at = "list" /\ r.p = p /\ r.row.version = row[p].version
    BY <1>p, <1>0, <1>1 DEF CallRecord, ProfileRow
  <1>3. call' = [call EXCEPT ![c] = r] /\ UNCHANGED <<row, params, history, disturbed>>
    BY <1>p, <1>0, <1>1 DEF GetProfile, CallRecord, ProfileRow, tables
  <1>4. /\ row[p] # Absent
        /\ p \notin disturbed => row[p].version \in Nat \ {0} /\ EditFollows(p, call[c])
    BY <1>1, OwnEdit
  <1>5. p \notin disturbed => EditFollows(p, r)'
    BY <1>1, <1>2, <1>3, <1>4 DEF EditFollows, Settled, Versions
  <1>6. InEdit(r, p)
    BY <1>2 DEF InEdit, EditStages
  <1> QED
    BY <1>1, <1>2, <1>3, <1>4, <1>5, <1>6, EditStep

LEMMA CompareParametersHistory ==
    ASSUME Shape, HistorySound, NEW c \in Calls, CompareParameters(c) PROVE HistorySound'
  <1>p. PICK p : p = call[c].p
    OBVIOUS
  <1> DEFINE changed == call[c].changed \cup
                        IF params[p] = call[c].params THEN {} ELSE {"params"}
  <1>0. PICK r : r = [call[c] EXCEPT !.at = "update", !.changed = changed \cap {"params"}]
    OBVIOUS
  <1>1. call[c] \in CallRecord /\ call[c].at = "list" /\ p \in Profiles /\ InEdit(call[c], p)
    BY <1>p, HoldsProfile DEF CompareParameters, At, EditStages, Shape, TypeOK
  <1>2. UNCHANGED <<row, params, history, disturbed>>
    BY DEF CompareParameters, tables
  <1>3. Goto(c, "idle") \/ call' = [call EXCEPT ![c] = r]
    BY <1>p, <1>0 DEF CompareParameters
  <1>4. r.at = "update" /\ r.p = p /\ r.row = call[c].row
    BY <1>p, <1>0, <1>1 DEF CallRecord
  <1> HIDE DEF changed
  <1>5. /\ row[p] # Absent
        /\ p \notin disturbed => row[p].version \in Nat \ {0} /\ EditFollows(p, call[c])
    BY <1>1, OwnEdit
  <1>6. CASE Goto(c, "idle")
    <2>1. p \notin disturbed' => Settled(p)
      BY <1>1, <1>2, <1>5 DEF EditFollows
    <2> QED
      BY <1>1, <1>2, <1>6, <2>1, EditEnds
  <1>7. CASE call' = [call EXCEPT ![c] = r]
    <2>1. p \notin disturbed => EditFollows(p, r)'
      BY <1>1, <1>2, <1>4, <1>5 DEF EditFollows, Settled, Versions
    <2>2. InEdit(r, p)
      BY <1>4 DEF InEdit, EditStages
    <2> QED
      BY <1>1, <1>2, <1>4, <1>5, <1>7, <2>1, <2>2, EditStep
  <1> QED
    BY <1>3, <1>6, <1>7

LEMMA UpdateProfileHistory ==
    ASSUME Shape, HistorySound, NEW c \in Calls, UpdateProfile(c) PROVE HistorySound'
  <1>p. PICK p : p = call[c].p
    OBVIOUS
  <1> DEFINE w  == [call[c].row EXCEPT !.homologated = row[p].homologated]
             to == IF call[c].changed = {} THEN "bump" ELSE "replace"
  <1>0. PICK r : r = [call[c] EXCEPT !.at = to]
    OBVIOUS
  <1>1. /\ call[c] \in CallRecord /\ call[c].row \in ProfileRow /\ call[c].at = "update"
        /\ p \in Profiles /\ InEdit(call[c], p) /\ call[c].row.header \in Headers
    BY <1>p, HoldsProfile DEF UpdateProfile, At, EditStages, Shape, TypeOK, CallRecord, CallSound
  <1>2. UNCHANGED <<params, history, disturbed>>
    BY DEF UpdateProfile
  <1>3. /\ row[p] # Absent
        /\ p \notin disturbed => row[p].version \in Nat \ {0} /\ EditFollows(p, call[c])
    BY <1>1, OwnEdit
  <1>4. CASE Goto(c, "idle") /\ UNCHANGED row
    <2>1. p \notin disturbed' => Settled(p)
      BY <1>1, <1>2, <1>3 DEF EditFollows
    <2> QED
      BY <1>1, <1>2, <1>4, <2>1, EditEnds
  <1>5. CASE ~(Goto(c, "idle") /\ UNCHANGED row)
    <2>1. to \in {"bump", "replace"} /\ r.at = to /\ r.p = p /\ r.row = call[c].row
      BY <1>p, <1>0, <1>1 DEF CallRecord
    <2>2. row' = [row EXCEPT ![p] = w] /\ call' = [call EXCEPT ![c] = r]
      BY <1>p, <1>0, <1>5 DEF UpdateProfile, Goto
    <2>3. w.version = call[c].row.version /\ w.header = call[c].row.header
      BY <1>1 DEF ProfileRow
    <2> HIDE DEF w, to
    <2>4. row'[p] = w /\ \A q \in Profiles \ {p} : row'[q] = row[q]
      BY <1>1, <2>2 DEF Shape, TypeOK
    <2>5. row'[p] # Absent
      BY <1>1, <2>3, <2>4, ConstantsAssumption DEF Absent
    <2>6. ASSUME p \notin disturbed PROVE row'[p].version \in Nat \ {0} /\ EditFollows(p, r)'
      <3>1. /\ call[c].row.version = row[p].version /\ Versions(p, row[p].version)
            /\ row[p].version \in Nat \ {0}
        BY <1>1, <1>3, <2>6 DEF EditFollows, Settled
      <3>2. row'[p].version = row[p].version
        BY <2>3, <2>4, <3>1
      <3> QED
        BY <1>2, <2>1, <2>3, <2>4, <3>1, <3>2 DEF EditFollows, Versions
    <2>7. InEdit(r, p)
      BY <2>1 DEF InEdit, EditStages
    <2> QED
      BY <1>1, <1>2, <2>1, <2>2, <2>4, <2>5, <2>6, <2>7, EditStep
  <1> QED
    BY <1>4, <1>5

LEMMA ReplaceParametersHistory ==
    ASSUME Shape, HistorySound, NEW c \in Calls, ReplaceParameters(c) PROVE HistorySound'
  <1>p. PICK p : p = call[c].p
    OBVIOUS
  <1>0. PICK r : r = [call[c] EXCEPT !.at = "bump"]
    OBVIOUS
  <1>1. call[c] \in CallRecord /\ call[c].at = "replace" /\ p \in Profiles /\ InEdit(call[c], p)
    BY <1>p, HoldsProfile DEF ReplaceParameters, At, EditStages, Shape, TypeOK
  <1>2. r.at = "bump" /\ r.p = p /\ r.row = call[c].row
    BY <1>p, <1>0, <1>1 DEF CallRecord
  <1>3. /\ call' = [call EXCEPT ![c] = r] /\ UNCHANGED <<row, history, disturbed>>
        /\ \A q \in Profiles \ {p} : params'[q] = params[q]
    BY <1>p, <1>0 DEF ReplaceParameters, Goto, Shape, TypeOK
  <1>4. /\ row[p] # Absent
        /\ p \notin disturbed => row[p].version \in Nat \ {0} /\ EditFollows(p, call[c])
    BY <1>1, OwnEdit
  <1>5. p \notin disturbed => EditFollows(p, r)'
    BY <1>1, <1>2, <1>3, <1>4 DEF EditFollows, Versions
  <1>6. InEdit(r, p)
    BY <1>2 DEF InEdit, EditStages
  <1> QED
    BY <1>1, <1>2, <1>3, <1>4, <1>5, <1>6, EditStep

LEMMA IncrementVersionHistory ==
    ASSUME Shape, HistorySound, NEW c \in Calls, IncrementVersion(c) PROVE HistorySound'
  <1>p. PICK p : p = call[c].p
    OBVIOUS
  <1> DEFINE w == [row[p] EXCEPT !.version = row[p].version + 1]
             u == [call[c].row EXCEPT !.version = row[p].version + 1]
  <1>0. PICK r : r = [call[c] EXCEPT !.at = "relist", !.params = {}, !.changed = {}, !.row = u]
    OBVIOUS
  <1>1. /\ call[c] \in CallRecord /\ call[c].row \in ProfileRow /\ call[c].at = "bump"
        /\ p \in Profiles /\ InEdit(call[c], p) /\ row[p] \in ProfileRow
    BY <1>p, HoldsProfile DEF IncrementVersion, At, EditStages, Shape, TypeOK, CallRecord
  <1>2. r.at = "relist" /\ r.p = p /\ r.row = u
    BY <1>p, <1>0, <1>1 DEF CallRecord
  <1>3. /\ u.version = row[p].version + 1 /\ u.header = call[c].row.header
        /\ w.version = row[p].version + 1 /\ w.header = row[p].header
    BY <1>1 DEF ProfileRow
  <1>4. /\ call' = [call EXCEPT ![c] = r] /\ UNCHANGED <<params, history, disturbed>>
        /\ row' = [row EXCEPT ![p] = w]
    BY <1>p, <1>0, <1>1 DEF IncrementVersion, CallRecord, ProfileRow
  <1> HIDE DEF w, u
  <1>5. row'[p] = w /\ \A q \in Profiles \ {p} : row'[q] = row[q]
    BY <1>1, <1>4 DEF Shape, TypeOK
  <1>6. /\ row[p] # Absent
        /\ p \notin disturbed => row[p].version \in Nat \ {0} /\ EditFollows(p, call[c])
    BY <1>1, OwnEdit
  <1>7. row'[p] # Absent
    <2>1. row[p].header # NoHeader
      BY <1>1, <1>6 DEF Shape, RowSound
    <2> QED
      BY <1>3, <1>5, <2>1 DEF Absent
  <1>8. ASSUME p \notin disturbed PROVE row'[p].version \in Nat \ {0} /\ EditFollows(p, r)'
    <2>1. /\ Versions(p, row[p].version) /\ call[c].row.header = row[p].header
          /\ row[p].version \in Nat \ {0}
      BY <1>1, <1>6, <1>8 DEF EditFollows
    <2>2. row'[p].version - 1 = row[p].version /\ row'[p].version \in Nat \ {0}
      BY <1>3, <1>5, <2>1
    <2> QED
      BY <1>2, <1>3, <1>4, <1>5, <2>1, <2>2 DEF EditFollows, Versions
  <1>9. InEdit(r, p)
    BY <1>2 DEF InEdit, EditStages
  <1> QED
    BY <1>1, <1>2, <1>4, <1>5, <1>7, <1>8, <1>9, EditStep

LEMMA ReadSnapshotHistory ==
    ASSUME Shape, HistorySound, NEW c \in Calls, ReadSnapshot(c) PROVE HistorySound'
  <1>p. PICK p : p = call[c].p
    OBVIOUS
  <1>1. /\ call[c] \in CallRecord /\ call[c].at = "relist" /\ p \in Profiles
        /\ InEdit(call[c], p) /\ UNCHANGED <<row, params, history>>
    BY <1>p, HoldsProfile DEF ReadSnapshot, At, EditStages, Shape, TypeOK, tables
  <1>2. PICK ps : /\ call' = [call EXCEPT ![c] = [call[c] EXCEPT !.at = "append", !.found = ps]]
                  /\ \/ ps = params[p] /\ disturbed' = disturbed
                     \/ disturbed' = disturbed \cup {p}
    BY <1>p DEF ReadSnapshot
  <1>3. PICK r : r = [call[c] EXCEPT !.at = "append", !.found = ps]
    OBVIOUS
  <1>4. r.at = "append" /\ r.p = p /\ r.row = call[c].row /\ r.found = ps
    BY <1>p, <1>1, <1>3 DEF CallRecord
  <1>5. /\ row[p] # Absent
        /\ p \notin disturbed => row[p].version \in Nat \ {0} /\ EditFollows(p, call[c])
    BY <1>1, OwnEdit
  <1>6. p \notin disturbed' => p \notin disturbed /\ ps = params[p] /\ disturbed \subseteq disturbed'
    BY <1>2
  <1>7. p \notin disturbed' => EditFollows(p, r)'
    BY <1>1, <1>4, <1>5, <1>6 DEF EditFollows, Versions
  <1>8. InEdit(r, p)
    BY <1>4 DEF InEdit, EditStages
  <1> QED
    BY <1>1, <1>2, <1>3, <1>4, <1>5, <1>6, <1>7, <1>8, EditStep

\* The version that the snapshot is of has none yet.
LEMMA AppendHistoryHistory ==
    ASSUME Shape, HistorySound, NEW c \in Calls, AppendHistory(c) PROVE HistorySound'
  <1>p. PICK p : p = call[c].p
    OBVIOUS
  <1>1. /\ call[c] \in CallRecord /\ call[c].at = "append" /\ p \in Profiles
        /\ InEdit(call[c], p) /\ UNCHANGED <<row, params, disturbed>>
    BY <1>p, HoldsProfile DEF AppendHistory, At, EditStages, Shape, TypeOK
  <1>2. /\ row[p] # Absent
        /\ p \notin disturbed =>
               /\ row[p].version \in Nat \ {0} /\ Versions(p, row[p].version - 1)
               /\ call[c].row.version = row[p].version /\ call[c].row.header = row[p].header
               /\ call[c].found = params[p]
    BY <1>1, OwnEdit DEF EditFollows
  <1> DEFINE new == [version |-> call[c].row.version, header |-> call[c].row.header,
                     params |-> call[c].found]
  <1>3. CASE \E e \in history[p] : e.version = call[c].row.version
    <2>1. Goto(c, "idle") /\ UNCHANGED history
      BY <1>p, <1>3 DEF AppendHistory
    <2>2. p \in disturbed'
      BY <1>1, <1>2, <1>3 DEF Versions
    <2> QED
      BY <1>1, <2>1, <2>2, EditEnds
  <1>4. CASE ~\E e \in history[p] : e.version = call[c].row.version
    <2>1. /\ history' = [history EXCEPT ![p] = @ \cup {new}]
          /\ Goto(c, IF call[c].kind = "wizard" THEN "record" ELSE "idle")
      BY <1>p, <1>4 DEF AppendHistory
    <2>2. PICK r : r = IF call[c].kind = "wizard" THEN [call[c] EXCEPT !.at = "record"]
                       ELSE Idle
      OBVIOUS
    <2>3. call' = [call EXCEPT ![c] = r]
      BY <2>1, <2>2 DEF Goto
    <2>4. r.at \in {"record", "idle"} /\ r.p \in {p, NoProfile}
      BY <1>p, <1>1, <2>2 DEF CallRecord, Idle
    <2>5. ~InEdit(r, p)
      BY <2>4 DEF InEdit, EditStages
    <2>6. /\ history'[p] = history[p] \cup {new}
          /\ \A q \in Profiles \ {p} : history'[q] = history[q]
      BY <1>1, <2>1 DEF Shape, TypeOK
    <2>7. ASSUME p \notin disturbed PROVE Settled(p)'
      <3>1. new = [version |-> row[p].version, header |-> row[p].header, params |-> params[p]]
        BY <1>2, <2>7
      <3>2. new.version = row[p].version /\ row[p].version \in Nat \ {0}
        BY <1>2, <2>7
      <3>3. Versions(p, row[p].version - 1)
        BY <1>2, <2>7
      <3> HIDE DEF new
      <3>4. \A e \in history'[p] : e.version \in 1 .. row[p].version
        BY <2>6, <3>2, <3>3 DEF Versions
      <3>5. \A i \in 1 .. row[p].version : \E e \in history'[p] : e.version = i
        <4> TAKE i \in 1 .. row[p].version
        <4>1. CASE i = row[p].version
          BY <2>6, <3>2, <4>1
        <4>2. CASE i # row[p].version
          <5>1. i \in 1 .. row[p].version - 1
            BY <3>2, <4>2
          <5> QED
            BY <2>6, <3>3, <5>1 DEF Versions
        <4> QED
          BY <4>1, <4>2
      <3>6. \A e, f \in history'[p] : e.version = f.version => e = f
        <4> TAKE e, f \in history'[p]
        <4>1. \A g \in history[p] : g.version # new.version
          BY <3>2, <3>3 DEF Versions
        <4> QED
          BY <2>6, <3>3, <4>1 DEF Versions
      <3>7. Versions(p, row[p].version)'
        BY <1>1, <3>4, <3>5, <3>6 DEF Versions
      <3> QED
        BY <1>1, <2>6, <3>1, <3>7 DEF Settled
    <2> HIDE DEF new
    <2> QED
      BY <1>1, <1>2, <2>3, <2>4, <2>5, <2>6, <2>7, EditStep
  <1> QED
    BY <1>3, <1>4

LEMMA RecordHomologationHistory ==
    ASSUME Shape, HistorySound, NEW c \in Calls, RecordHomologation(c) PROVE HistorySound'
  <1>1. call[c].at = "record" /\ UNCHANGED <<row, params, history, disturbed>>
    BY DEF RecordHomologation, At
  <1>2. call' = [call EXCEPT ![c] = Idle] /\ Idle.at = "idle"
    BY DEF RecordHomologation, Goto, Idle
  <1>3. \A q \in Profiles : ~InEdit(call[c], q) /\ ~InEdit(Idle, q)
    BY <1>1, <1>2 DEF InEdit, EditStages
  <1> QED
    BY <1>1, <1>2, <1>3, QuietStep

\* An edit that stops before it has written leaves the history settled; a later one
\* disturbs it.
LEMMA StatementFailsHistory ==
    ASSUME Shape, HistorySound, NEW c \in Calls, StatementFails(c) PROVE HistorySound'
  <1>1. UNCHANGED <<row, params, history>> /\ Goto(c, "idle") /\ disturbed \subseteq disturbed'
    BY DEF StatementFails, tables
  <1>2. CASE call[c].at \in EditStages \ {"insert", "record"}
    <2>p. PICK p : p = call[c].p
      OBVIOUS
    <2>1. p \in Profiles /\ InEdit(call[c], p)
      BY <1>2, <2>p, HoldsProfile
    <2>2. ASSUME p \notin disturbed' PROVE Settled(p)
      <3>1. call[c].at \in {"get", "list", "update"}
        BY <1>2, <2>p, <2>2 DEF StatementFails, EditStages
      <3>2. EditFollows(p, call[c])
        BY <1>1, <2>1, <2>2, OwnEdit
      <3> QED
        BY <3>1, <3>2 DEF EditFollows
    <2> QED
      BY <1>1, <2>1, <2>2, EditEnds
  <1>3. CASE call[c].at \notin EditStages \ {"insert", "record"}
    <2>1. call' = [call EXCEPT ![c] = Idle] /\ Idle.at = "idle"
      BY <1>1 DEF Goto, Idle
    <2>2. call[c].at = "insert" => call[c].p = NoProfile
      BY DEF Shape, CallSound
    <2>3. \A q \in Profiles : ~InEdit(call[c], q) /\ ~InEdit(Idle, q)
      BY <1>3, <2>1, <2>2, ConstantsAssumption DEF InEdit, EditStages
    <2> QED
      BY <1>1, <2>1, <2>3, QuietStep
  <1> QED
    BY <1>2, <1>3

-----------------------------------------------------------------------------
(* Every step keeps the history sound.                                     *)

LEMMA UnmovedHistory ==
    HistorySound /\ UNCHANGED <<row, params, history, call, disturbed>> => HistorySound'
  BY DEF HistorySound, Undisturbed, InEdit, EditFollows, Settled, Versions

LEMMA HistoryStep == Shape /\ HistorySound /\ [Next]_vars => HistorySound'
  <1> SUFFICES ASSUME Shape, HistorySound, [Next]_vars PROVE HistorySound'
    OBVIOUS
  <1>1. CASE UNCHANGED vars
    BY <1>1, UnmovedHistory DEF vars
  <1>2. ASSUME NEW p \in Profiles, Deprecate(p) PROVE HistorySound'
    BY <1>2, UnmovedHistory DEF Deprecate
  <1>3. ASSUME NEW c \in Calls, Edit(c) PROVE HistorySound'
    BY <1>3, InsertProfileHistory, FillProfileHistory, GetProfileHistory,
       CompareParametersHistory, UpdateProfileHistory, ReplaceParametersHistory,
       IncrementVersionHistory, ReadSnapshotHistory, AppendHistoryHistory,
       RecordHomologationHistory DEF Edit
  <1>4. ASSUME NEW c \in Calls, Requests(c) \/ Apply(c) \/ StatementFails(c)
        PROVE  HistorySound'
    BY <1>4, RequestsHistory, ApplyHistory, StatementFailsHistory
  <1> QED
    BY <1>1, <1>2, <1>3, <1>4 DEF Next

LEMMA HistoryInit == Init => HistorySound
  BY DEF Init, HistorySound, Idle, InEdit

LEMMA HistoryAlways == Spec => [](Shape /\ HistorySound)
  BY ShapeInit, ShapeStep, HistoryInit, HistoryStep, PTL DEF Spec

\* Between edits the history of a profile has exactly one snapshot of each version up to
\* its own, and the last one is what the profile is (Create, Update, appendHistory), for
\* any number of profiles, requests and versions, unless its edits overlapped or stopped.
THEOREM SnapshotsExactly == Spec => []SnapshotsExact
  <1>1. ASSUME Shape, HistorySound PROVE SnapshotsExact
    <2> SUFFICES ASSUME NEW p \in Profiles, row[p] # Absent, p \notin disturbed,
                        EditsInFlight(p) = {}
                 PROVE  /\ {e.version : e \in history[p]} = 1 .. row[p].version
                        /\ Cardinality(history[p]) = row[p].version
                        /\ [version |-> row[p].version, header |-> row[p].header,
                            params |-> params[p]] \in history[p]
      BY DEF SnapshotsExact
    <2>1. Undisturbed(p)
      BY <1>1 DEF HistorySound
    <2>2. \A c \in Calls : ~InEdit(call[c], p)
      BY DEF EditsInFlight, InEdit
    <2>3. row[p].version \in Nat /\ Settled(p)
      BY <2>1, <2>2 DEF Undisturbed
    <2> QED
      BY <2>3, VersionsCounted DEF Settled
  <1> QED
    BY <1>1, HistoryAlways, PTL

-----------------------------------------------------------------------------
(* What a payload names.                                                   *)

\* All snapshots of a homologated profile carry its parameters, so a job that names
\* any version there has been names one with the parameters it carries.
Held(r) == r.at \in {"loadparams", "gate", "render"}

PayloadSound ==
    /\ \A c \in Calls : call[c].at = "fill" => call[c].row.version = 1
    /\ \A p \in Profiles \ disturbed : row[p] # Absent /\ row[p].homologated =>
           \A e \in history[p] : e.params = params[p]
    /\ \A c \in Calls : Held(call[c]) /\ call[c].p \notin disturbed =>
           call[c].row.version \in 1 .. row[call[c].p].version
    /\ \A j \in jobs : j.kind # "fields" =>
           /\ row[j.p] # Absent
           /\ j.p \notin disturbed => j.version \in 1 .. row[j.p].version
           /\ row[j.p].homologated => j.params \in {{}, params[j.p]}

\* What no step takes from a profile that is there.
Grows(p) ==
    /\ row'[p] # Absent /\ row'[p].homologated = row[p].homologated
    /\ row[p].homologated => params'[p] = params[p] \/ params[p] = {}
    /\ p \notin disturbed' => /\ p \notin disturbed
                              /\ row[p].version \in Nat /\ row'[p].version \in Nat
                              /\ row[p].version <= row'[p].version

LEMMA ProfileGrows ==
    ASSUME Shape, Sound, HistorySound, [Next]_vars, NEW p \in Profiles, row[p] # Absent
    PROVE  Grows(p)
  <1>1. row[p] \in ProfileRow /\ row[p].header # NoHeader /\ row[p].version \in Nat
    BY DEF Shape, TypeOK, RowSound, ProfileRow
  <1>2. Shape'
    BY ShapeStep
  <1>3. row'[p] \in ProfileRow /\ row'[p].version \in Nat
    BY <1>2 DEF Shape, TypeOK, ProfileRow
  <1>4. ASSUME UNCHANGED <<row, params>>, disturbed \subseteq disturbed' PROVE Grows(p)
    BY <1>1, <1>4 DEF Grows
  <1>5. ASSUME NEW c \in Calls
        PROVE  /\ EditFits(call[c]) /\ call[c] \in CallRecord /\ call[c].row \in ProfileRow
               /\ row \in [Profiles -> ProfileRow] /\ params \in [Profiles -> ParameterSets]
    BY DEF Sound, CallsFit, Shape, TypeOK, CallRecord
  <1>6. ASSUME NEW c \in Calls, NEW q \in Profiles, InsertProfile(c, q) PROVE Grows(p)
    <2>1. q # p
      BY <1>6 DEF InsertProfile
    <2>2. row'[p] = row[p] /\ UNCHANGED <<params, disturbed>>
      BY <1>5, <1>6, <2>1 DEF InsertProfile
    <2> QED
      BY <1>1, <2>2 DEF Grows
  <1>7. ASSUME NEW c \in Calls, FillProfile(c) PROVE Grows(p)
    <2>1. UNCHANGED <<row, disturbed>> /\ call[c].at = "fill"
      BY <1>7 DEF FillProfile, At
    <2>2. row[p].homologated => params'[p] = params[p] \/ params[p] = {}
      BY <1>5, <1>7, <2>1 DEF FillProfile, EditFits
    <2> QED
      BY <1>1, <2>1, <2>2 DEF Grows
  <1>8. ASSUME NEW c \in Calls, UpdateProfile(c) PROVE Grows(p)
    <2>1. UNCHANGED <<params, disturbed>> /\ call[c].at = "update"
      BY <1>8 DEF UpdateProfile, At
    <2>2. CASE UNCHANGED row
      BY <1>4, <2>1, <2>2
    <2>3. CASE row' # row
      <3>1. row' = [row EXCEPT ![call[c].p] =
                      [call[c].row EXCEPT !.homologated = row[call[c].p].homologated]]
        BY <1>8, <2>3 DEF UpdateProfile
      <3>2. CASE call[c].p # p
        <4>1. row'[p] = row[p]
          BY <1>5, <3>1, <3>2
        <4> QED
          BY <1>1, <2>1, <4>1 DEF Grows
      <3>3. CASE call[c].p = p
        <4>1. PICK w : w = [call[c].row EXCEPT !.homologated = row[p].homologated]
          OBVIOUS
        <4>2. /\ w.homologated = row[p].homologated /\ w.header = call[c].row.header
              /\ w.version = call[c].row.version
          BY <1>1, <1>5, <4>1 DEF ProfileRow
        <4>3. row'[p] = w
          BY <1>5, <3>1, <3>3, <4>1
        <4>4. InEdit(call[c], p)
          BY <2>1, <3>3 DEF InEdit, EditStages
        <4>5. p \notin disturbed => call[c].row.version = row[p].version
          BY <2>1, <4>4, OwnEdit DEF EditFollows
        <4>6. call[c].row.header \in Headers
          BY <2>1 DEF Shape, CallSound
        <4>7. row'[p] # Absent
          BY <4>2, <4>3, <4>6, ConstantsAssumption DEF Absent
        <4> QED
          BY <1>1, <2>1, <4>2, <4>3, <4>5, <4>7 DEF Grows
      <3> QED
        BY <3>2, <3>3
    <2> QED
      BY <2>2, <2>3
  <1>9. ASSUME NEW c \in Calls, ReplaceParameters(c) PROVE Grows(p)
    <2>1. UNCHANGED <<row, disturbed>> /\ call[c].at = "replace"
      BY <1>9 DEF ReplaceParameters, At
    <2>2. row[p].homologated => params'[p] = params[p]
      BY <1>5, <1>9, <2>1 DEF ReplaceParameters, EditFits
    <2> QED
      BY <1>1, <2>1, <2>2 DEF Grows
  <1>10. ASSUME NEW c \in Calls, IncrementVersion(c) PROVE Grows(p)
    <2>1. UNCHANGED <<params, disturbed>>
      BY <1>10 DEF IncrementVersion
    <2>2. PICK w : w = [row[p] EXCEPT !.version = row[p].version + 1]
      OBVIOUS
    <2>3. w.homologated = row[p].homologated /\ w.header = row[p].header
          /\ w.version = row[p].version + 1
      BY <1>1, <2>2 DEF ProfileRow
    <2>4. row'[p] \in {row[p], w}
      BY <1>5, <1>10, <2>2 DEF IncrementVersion
    <2>5. w # Absent
      BY <1>1, <2>3 DEF Absent
    <2> QED
      BY <1>1, <2>1, <2>3, <2>4, <2>5 DEF Grows
  <1>11. ASSUME NEW c \in Calls,
                Requests(c) \/ Apply(c) \/ StatementFails(c) \/ GetProfile(c)
                    \/ CompareParameters(c) \/ ReadSnapshot(c) \/ AppendHistory(c)
                    \/ RecordHomologation(c)
         PROVE  Grows(p)
    <2>1. CASE Requests(c)
      <3>1. ASSUME NEW q \in Profiles, NEW h \in Headers, NEW active \in BOOLEAN,
                   NEW ps \in Contents, RequestUpdate(c, q, h, active, ps)
            PROVE  UNCHANGED <<row, params>> /\ disturbed \subseteq disturbed'
        <4>1. disturbed' = disturbed \/ disturbed' = disturbed \cup {q}
          BY <3>1, Zenon DEF RequestUpdate
        <4> QED
          BY <3>1, <4>1, Zenon DEF RequestUpdate, tables
      <3>2. ASSUME NEW h \in Headers, NEW ps \in Contents, NEW kind \in {"edit", "wizard"},
                   RequestCreate(c, h, ps, kind)
            PROVE  UNCHANGED <<row, params>> /\ disturbed \subseteq disturbed'
        BY <3>2, Zenon DEF RequestCreate, tables
      <3>3. ASSUME NEW q \in Profiles, NEW kind \in {"apply", "bulk"}, RequestApply(c, q, kind)
            PROVE  UNCHANGED <<row, params>> /\ disturbed \subseteq disturbed'
        BY <3>3, Zenon DEF RequestApply, tables
      <3>4. ASSUME RequestFields(c)
            PROVE  UNCHANGED <<row, params>> /\ disturbed \subseteq disturbed'
        BY <3>4, Zenon DEF RequestFields, tables
      <3>5. UNCHANGED <<row, params>> /\ disturbed \subseteq disturbed'
        BY <2>1, <3>1, <3>2, <3>3, <3>4 DEF Requests
      <3> QED
        BY <1>4, <3>5
    <2>2. CASE Apply(c)
      <3>1. UNCHANGED <<tables, disturbed>>
        BY <2>2, ZenonT(60) DEF Apply, LoadProfile, LoadParameters, HomologationGate,
           UpdateFields, FindActiveByModel, EnqueueFields, RenderJob
      <3> QED
        BY <1>4, <3>1 DEF tables
    <2>3. CASE StatementFails(c) \/ ReadSnapshot(c)
      <3>1. UNCHANGED <<row, params>> /\ disturbed \subseteq disturbed'
        BY <2>3 DEF StatementFails, ReadSnapshot, tables
      <3> QED
        BY <1>4, <3>1
    <2>4. CASE GetProfile(c) \/ CompareParameters(c) \/ AppendHistory(c) \/ RecordHomologation(c)
      <3>1. UNCHANGED <<row, params>> /\ disturbed \subseteq disturbed'
        BY <2>4 DEF GetProfile, CompareParameters, AppendHistory, RecordHomologation, tables
      <3> QED
        BY <1>4, <3>1
    <2> QED
      BY <1>11, <2>1, <2>2, <2>3, <2>4
  <1>12. ASSUME UNCHANGED vars \/ \E q \in Profiles : Deprecate(q) PROVE Grows(p)
    BY <1>4, <1>12 DEF vars, Deprecate
  <1>13. ASSUME NEW c \in Calls, Requests(c) \/ Edit(c) \/ Apply(c) \/ StatementFails(c)
         PROVE  Grows(p)
    BY <1>6, <1>7, <1>8, <1>9, <1>10, <1>11, <1>13 DEF Edit
  <1> QED
    BY <1>12, <1>13 DEF Next

\* How a call comes to fill a profile, or to hold a row that it has read.
Moved(r, old) ==
    \/ r.at # "fill" /\ ~Held(r)
    \/ r.at = "fill" /\ old.at = "insert" /\ r.row = old.row
    \/ r.at = "loadparams" /\ r.p \in Profiles /\ row[r.p] # Absent /\ r.row = row[r.p]
    \/ r.at # "fill" /\ Held(old) /\ r.p = old.p /\ r.row = old.row

LEMMA GotoMoves ==
    ASSUME Shape, NEW c \in Calls, NEW at, Goto(c, at), at # "fill",
           at \in {"loadparams", "gate", "render"} => Held(call[c])
    PROVE  \E r : call' = [call EXCEPT ![c] = r] /\ Moved(r, call[c])
  <1>1. CASE at = "idle"
    <2>1. call' = [call EXCEPT ![c] = Idle] /\ Idle.at = "idle"
      BY <1>1 DEF Goto, Idle
    <2> QED
      BY <2>1 DEF Moved, Held
  <1>2. CASE at # "idle"
    <2>1. PICK r : r = [call[c] EXCEPT !.at = at]
      OBVIOUS
    <2>2. call' = [call EXCEPT ![c] = r]
      BY <1>2, <2>1 DEF Goto
    <2>3. r.at = at /\ r.p = call[c].p /\ r.row = call[c].row
      BY <2>1 DEF Shape, TypeOK, CallRecord
    <2> QED
      BY <2>2, <2>3 DEF Moved, Held
  <1> QED
    BY <1>1, <1>2

LEMMA RequestMoves ==
    ASSUME Shape, NEW c \in Calls, Requests(c)
    PROVE  \E r : call' = [call EXCEPT ![c] = r] /\ Moved(r, call[c])
  <1>1. ASSUME NEW h \in Headers, NEW ps \in Contents, NEW kind \in {"edit", "wizard"},
               RequestCreate(c, h, ps, kind)
        PROVE  \E r : call' = [call EXCEPT ![c] = r] /\ Moved(r, call[c])
    <2>1. PICK r : r = [Idle EXCEPT !.at = "insert", !.kind = kind, !.params = ps,
                          !.row = [header |-> h, version |-> 1, active |-> TRUE,
                                   homologated |-> kind = "wizard"]]
      OBVIOUS
    <2>2. r.at = "insert"
      BY <2>1 DEF Idle
    <2>3. call' = [call EXCEPT ![c] = r]
      BY <1>1, <2>1 DEF RequestCreate
    <2> QED
      BY <2>2, <2>3 DEF Moved, Held
  <1>2. ASSUME NEW p \in Profiles, NEW h \in Headers, NEW active \in BOOLEAN,
               NEW ps \in Contents, RequestUpdate(c, p, h, active, ps)
        PROVE  \E r : call' = [call EXCEPT ![c] = r] /\ Moved(r, call[c])
    <2>1. PICK r : r = [Idle EXCEPT !.at = "get", !.p = p, !.params = ps,
                          !.row = [Absent EXCEPT !.header = h, !.active = active]]
      OBVIOUS
    <2>2. r.at = "get"
      BY <2>1 DEF Idle
    <2>3. call' = [call EXCEPT ![c] = r]
      BY <1>2, <2>1 DEF RequestUpdate
    <2> QED
      BY <2>2, <2>3 DEF Moved, Held
  <1>3. ASSUME NEW p \in Profiles, NEW kind \in {"apply", "bulk"}, RequestApply(c, p, kind)
        PROVE  \E r : call' = [call EXCEPT ![c] = r] /\ Moved(r, call[c])
    <2>1. [Idle EXCEPT !.at = "load", !.kind = kind, !.p = p].at = "load"
      BY DEF Idle
    <2> QED
      BY <1>3, <2>1 DEF RequestApply, Moved, Held
  <1>4. ASSUME RequestFields(c)
        PROVE  \E r : call' = [call EXCEPT ![c] = r] /\ Moved(r, call[c])
    <2>1. [Idle EXCEPT !.at = "find", !.kind = "fields"].at = "find"
      BY DEF Idle
    <2> QED
      BY <1>4, <2>1 DEF RequestFields, Moved, Held
  <1> QED
    BY <1>1, <1>2, <1>3, <1>4 DEF Requests

LEMMA EditMoves ==
    ASSUME Shape, NEW c \in Calls, Edit(c)
    PROVE  \E r : call' = [call EXCEPT ![c] = r] /\ Moved(r, call[c])
  <1>0. call[c] \in CallRecord /\ call[c].row \in ProfileRow
    BY DEF Shape, TypeOK, CallRecord
  <1>1. ASSUME NEW r, call' = [call EXCEPT ![c] = r], r.at \in {"list", "update", "relist", "append"}
        PROVE  \E s : call' = [call EXCEPT ![c] = s] /\ Moved(s, call[c])
    BY <1>1 DEF Moved, Held
  <1>2. ASSUME NEW p \in Profiles, InsertProfile(c, p)
        PROVE  \E r : call' = [call EXCEPT ![c] = r] /\ Moved(r, call[c])
    <2>1. PICK r : r = [call[c] EXCEPT !.at = "fill", !.p = p]
      OBVIOUS
    <2>2. r.at = "fill" /\ r.row = call[c].row /\ call[c].at = "insert"
      BY <1>0, <1>2, <2>1 DEF CallRecord, InsertProfile, At
    <2>3. Goto(c, "idle") \/ call' = [call EXCEPT ![c] = r]
      BY <1>2, <2>1 DEF InsertProfile
    <2> QED
      BY <2>2, <2>3, GotoMoves DEF Moved
  <1>3. CASE FillProfile(c)
    <2>1. PICK r : r = [call[c] EXCEPT !.at = "relist", !.params = {}]
      OBVIOUS
    <2>2. r.at = "relist"
      BY <1>0, <2>1 DEF CallRecord
    <2> QED
      BY <1>1, <1>3, <2>1, <2>2 DEF FillProfile
  <1>4. CASE GetProfile(c)
    <2> DEFINE cur == row[call[c].p]
               u   == [call[c].row EXCEPT !.version = cur.version,
                                          !.homologated = cur.homologated]
               changed == {f \in {"header", "active"} : call[c].row[f] # cur[f]}
    <2>1. PICK r : r = [call[c] EXCEPT !.at = "list", !.row = u, !.changed = changed]
      BY Zenon
    <2>2. r.at = "list"
      BY <1>0, <2>1 DEF CallRecord
    <2>3. call' = [call EXCEPT ![c] = r]
      BY <1>0, <1>4, <2>1 DEF GetProfile, CallRecord, ProfileRow
    <2> QED
      BY <1>1, <2>2, <2>3
  <1>5. CASE CompareParameters(c)
    <2> DEFINE changed == call[c].changed \cup
                          IF params[call[c].p] = call[c].params THEN {} ELSE {"params"}
    <2>1. PICK r : r = [call[c] EXCEPT !.at = "update", !.changed = changed \cap {"params"}]
      OBVIOUS
    <2>2. r.at = "update"
      BY <1>0, <2>1 DEF CallRecord
    <2>3. Goto(c, "idle") \/ call' = [call EXCEPT ![c] = r]
      BY <1>5, <2>1 DEF CompareParameters
    <2> QED
      BY <1>1, <2>2, <2>3, GotoMoves
  <1>6. CASE UpdateProfile(c)
    <2>1. \E at \in {"idle", "bump", "replace"} : Goto(c, at)
      BY <1>6 DEF UpdateProfile
    <2> QED
      BY <2>1, GotoMoves
  <1>7. CASE ReplaceParameters(c)
    BY <1>7, GotoMoves DEF ReplaceParameters
  <1>8. CASE IncrementVersion(c)
    <2> DEFINE u == [call[c].row EXCEPT !.version = row[call[c].p].version + 1]
    <2>1. PICK r : r = [call[c] EXCEPT !.at = "relist", !.params = {}, !.changed = {}, !.row = u]
      OBVIOUS
    <2>2. r.at = "relist"
      BY <1>0, <2>1 DEF CallRecord
    <2>3. call' = [call EXCEPT ![c] = r]
      BY <1>0, <1>8, <2>1 DEF IncrementVersion, CallRecord, ProfileRow
    <2> QED
      BY <1>1, <2>2, <2>3
  <1>9. CASE ReadSnapshot(c)
    <2>1. PICK ps : call' = [call EXCEPT ![c] = [call[c] EXCEPT !.at = "append", !.found = ps]]
      BY <1>9, Zenon DEF ReadSnapshot
    <2>2. [call[c] EXCEPT !.at = "append", !.found = ps].at = "append"
      BY <1>0 DEF CallRecord
    <2> QED
      BY <1>1, <2>1, <2>2
  <1>10. CASE AppendHistory(c)
    <2>1. \E at \in {"idle", "record"} : Goto(c, at)
      BY <1>10 DEF AppendHistory
    <2> QED
      BY <2>1, GotoMoves
  <1>11. CASE RecordHomologation(c)
    BY <1>11, GotoMoves DEF RecordHomologation
  <1> QED
    BY <1>2, <1>3, <1>4, <1>5, <1>6, <1>7, <1>8, <1>9, <1>10, <1>11 DEF Edit

LEMMA ApplyMoves ==
    ASSUME Shape, NEW c \in Calls, Apply(c)
    PROVE  \E r : call' = [call EXCEPT ![c] = r] /\ Moved(r, call[c])
  <1>0. call \in [Calls -> CallRecord] /\ call[c] \in CallRecord
    BY DEF Shape, TypeOK
  <1>1. CASE LoadProfile(c)
    <2>1. PICK r : r = [call[c] EXCEPT !.at = "loadparams", !.row = row[call[c].p]]
      OBVIOUS
    <2>2. r.at = "loadparams" /\ r.p = call[c].p /\ r.row = row[r.p]
      BY <1>0, <2>1 DEF CallRecord
    <2>3. call[c].p \in Profiles /\ row[call[c].p] # Absent
      <3>1. call[c].p # NoProfile
        BY <1>1 DEF LoadProfile, At, Shape, TypeOK
      <3> QED
        BY <1>0, <3>1 DEF CallRecord, Shape, CallSound
    <2> QED
      BY <1>1, <2>1, <2>2, <2>3 DEF LoadProfile, Moved
  <1>2. CASE LoadParameters(c)
    <2> DEFINE to == CASE call[c].kind = "bulk"   -> "gate"
                       [] call[c].kind = "fields" -> "enqueue"
                       [] OTHER -> "render"
    <2>1. PICK r : r = [call[c] EXCEPT !.at = to, !.found = params[call[c].p]]
      OBVIOUS
    <2>2. to \in {"gate", "enqueue", "render"}
      OBVIOUS
    <2>3. call' = [call EXCEPT ![c] = r] /\ call[c].at = "loadparams"
      BY <1>2, <2>1 DEF LoadParameters, At
    <2> HIDE DEF to
    <2>4. r.at = to /\ r.p = call[c].p /\ r.row = call[c].row
      BY <1>0, <2>1 DEF CallRecord
    <2> QED
      BY <2>2, <2>3, <2>4 DEF Moved, Held
  <1>3. CASE HomologationGate(c)
    <2>1. call[c].at = "gate" /\ \E at \in {"render", "idle"} : Goto(c, at)
      BY <1>3 DEF HomologationGate, At
    <2> QED
      BY <2>1, GotoMoves DEF Held
  <1>4. CASE FindActiveByModel(c)
    <2>1. ASSUME NEW p \in HomologatedProfiles,
                 call' = [call EXCEPT ![c] = [@ EXCEPT !.at = "load", !.p = p]]
          PROVE  \E r : call' = [call EXCEPT ![c] = r] /\ Moved(r, call[c])
      <3>1. [call[c] EXCEPT !.at = "load", !.p = p].at = "load"
        BY <1>0 DEF CallRecord
      <3> QED
        BY <2>1, <3>1 DEF Moved, Held
    <2>2. CASE Goto(c, "idle")
      BY <2>2, GotoMoves
    <2> QED
      BY <1>4, <2>1, <2>2, Zenon DEF FindActiveByModel
  <1>5. ASSUME NEW w, NEW f, NEW bl, NEW n, EnqueueFields(c, w, f, bl, n)
        PROVE  \E r : call' = [call EXCEPT ![c] = r] /\ Moved(r, call[c])
    BY <1>5, GotoMoves DEF EnqueueFields
  <1>6. ASSUME NEW customer, NEW sameModel, RenderJob(c, customer, sameModel)
        PROVE  \E r : call' = [call EXCEPT ![c] = r] /\ Moved(r, call[c])
    <2>1. call[c].at = "render" /\ (UNCHANGED call \/ Goto(c, "idle"))
      BY <1>6 DEF RenderJob, At
    <2>2. CASE UNCHANGED call
      <3>1. call' = [call EXCEPT ![c] = call[c]]
        BY <1>0, <2>2
      <3> QED
        BY <2>1, <3>1 DEF Moved, Held
    <2> QED
      BY <2>1, <2>2, GotoMoves
  <1> QED
    BY <1>1, <1>2, <1>3, <1>4, <1>5, <1>6 DEF Apply, UpdateFields

\* Every call either stays as it is or moves so.
LEMMA CallMoves ==
    ASSUME Shape, [Next]_vars, NEW d \in Calls
    PROVE  call'[d] = call[d] \/ Moved(call'[d], call[d])
  <1>1. ASSUME NEW c \in Calls, \E r : call' = [call EXCEPT ![c] = r] /\ Moved(r, call[c])
        PROVE  call'[d] = call[d] \/ Moved(call'[d], call[d])
    BY <1>1 DEF Shape, TypeOK
  <1>2. ASSUME NEW c \in Calls, Requests(c) \/ Edit(c) \/ Apply(c) \/ StatementFails(c)
        PROVE  call'[d] = call[d] \/ Moved(call'[d], call[d])
    BY <1>1, <1>2, RequestMoves, EditMoves, ApplyMoves, GotoMoves DEF StatementFails
  <1>3. CASE UNCHANGED vars \/ \E p \in Profiles : Deprecate(p)
    BY <1>3 DEF vars, Deprecate
  <1> QED
    BY <1>2, <1>3 DEF Next

\* Who writes the history of a profile, its parameters, and the jobs.
LEMMA HistoryMoves ==
    ASSUME Shape, [Next]_vars, NEW p \in Profiles
    PROVE  history'[p] = history[p] \/ \E c \in Calls : AppendHistory(c) /\ call[c].p = p
  <1>1. CASE UNCHANGED history
    BY <1>1
  <1>2. ASSUME NEW c \in Calls, AppendHistory(c)
        PROVE  history'[p] = history[p] \/ call[c].p = p
    BY <1>2 DEF AppendHistory, Shape, TypeOK
  <1>3. ASSUME NEW c \in Calls, Edit(c)
        PROVE  UNCHANGED history \/ AppendHistory(c)
    BY <1>3, ZenonT(60) DEF Edit, InsertProfile, FillProfile, GetProfile, CompareParameters,
       UpdateProfile, ReplaceParameters, IncrementVersion, ReadSnapshot, RecordHomologation, tables
  <1>4. ASSUME NEW c \in Calls, Requests(c) \/ Apply(c) \/ StatementFails(c)
        PROVE  UNCHANGED tables
    BY <1>4, ZenonT(60) DEF Requests, RequestCreate, RequestUpdate, RequestApply, RequestFields,
       Apply, LoadProfile, LoadParameters, HomologationGate, UpdateFields, FindActiveByModel,
       EnqueueFields, RenderJob, StatementFails
  <1>5. CASE UNCHANGED vars \/ \E q \in Profiles : Deprecate(q)
    BY <1>1, <1>5 DEF vars, Deprecate
  <1> QED
    BY <1>1, <1>2, <1>3, <1>4, <1>5 DEF Next, tables

LEMMA ParametersMove ==
    ASSUME Shape, [Next]_vars, NEW p \in Profiles
    PROVE  \/ params'[p] = params[p]
           \/ \E c \in Calls : (FillProfile(c) \/ ReplaceParameters(c)) /\ call[c].p = p
  <1>1. CASE UNCHANGED params
    BY <1>1
  <1>2. ASSUME NEW c \in Calls, FillProfile(c) \/ ReplaceParameters(c)
        PROVE  params'[p] = params[p] \/ call[c].p = p
    BY <1>2 DEF FillProfile, ReplaceParameters, Shape, TypeOK
  <1>3. ASSUME NEW c \in Calls, Edit(c)
        PROVE  UNCHANGED params \/ FillProfile(c) \/ ReplaceParameters(c)
    BY <1>3, ZenonT(60) DEF Edit, InsertProfile, GetProfile, CompareParameters, UpdateProfile,
       IncrementVersion, ReadSnapshot, AppendHistory, RecordHomologation, tables
  <1>4. ASSUME NEW c \in Calls, Requests(c) \/ Apply(c) \/ StatementFails(c)
        PROVE  UNCHANGED tables
    BY <1>4, ZenonT(60) DEF Requests, RequestCreate, RequestUpdate, RequestApply, RequestFields,
       Apply, LoadProfile, LoadParameters, HomologationGate, UpdateFields, FindActiveByModel,
       EnqueueFields, RenderJob, StatementFails
  <1>5. CASE UNCHANGED vars \/ \E q \in Profiles : Deprecate(q)
    BY <1>1, <1>5 DEF vars, Deprecate
  <1> QED
    BY <1>1, <1>2, <1>3, <1>4, <1>5 DEF Next, tables

LEMMA JobsMove ==
    ASSUME [Next]_vars
    PROVE  \/ jobs' \subseteq jobs
           \/ \E c \in Calls : \E customer, sameModel \in BOOLEAN :
                  RenderJob(c, customer, sameModel)
           \/ \E c \in Calls : UpdateFields(c)
  <1>1. ASSUME NEW c \in Calls, Requests(c) PROVE jobs' = {}
    BY <1>1, ZenonT(60) DEF Requests, RequestCreate, RequestUpdate, RequestApply, RequestFields
  <1>2. ASSUME NEW c \in Calls, Edit(c) PROVE UNCHANGED jobs
    BY <1>2, ZenonT(60) DEF Edit, InsertProfile, FillProfile, GetProfile, CompareParameters,
       UpdateProfile, ReplaceParameters, IncrementVersion, ReadSnapshot, AppendHistory,
       RecordHomologation
  <1>3. ASSUME NEW c \in Calls, LoadProfile(c) \/ LoadParameters(c) \/ HomologationGate(c)
                                    \/ StatementFails(c)
        PROVE  UNCHANGED jobs
    BY <1>3, Zenon DEF LoadProfile, LoadParameters, HomologationGate, StatementFails
  <1>4. CASE UNCHANGED vars \/ \E q \in Profiles : Deprecate(q)
    BY <1>4 DEF vars, Deprecate
  <1> QED
    BY <1>1, <1>2, <1>3, <1>4 DEF Next, Apply

-----------------------------------------------------------------------------
(* The four parts of PayloadSound, step by step.                           *)

LEMMA SnapshotsOfHomologated ==
    ASSUME Shape, Sound, HistorySound, PayloadSound, [Next]_vars,
           NEW p \in Profiles \ disturbed', row'[p] # Absent, row'[p].homologated
    PROVE  \A e \in history'[p] : e.params = params'[p]
  <1>1. ASSUME row[p] = Absent PROVE history'[p] = {}
    <2>1. \A c \in Calls : AppendHistory(c) => call[c].p # p
      BY <1>1, ConstantsAssumption DEF Shape, CallSound
    <2> QED
      BY <1>1, <2>1, HistoryMoves DEF HistorySound
  <1>2. ASSUME row[p] # Absent
        PROVE  row[p].homologated /\ p \notin disturbed
               /\ \A e \in history[p] : e.params = params[p]
    BY <1>2, ProfileGrows DEF Grows, PayloadSound
  <1>3. CASE history'[p] = history[p] /\ params'[p] = params[p]
    BY <1>1, <1>2, <1>3
  <1>4. ASSUME NEW c \in Calls, AppendHistory(c), call[c].p = p, row[p] # Absent
        PROVE  \A e \in history'[p] : e.params = params'[p]
    <2>1. call[c].at = "append" /\ UNCHANGED params
      BY <1>4 DEF AppendHistory, At
    <2>2. call[c].found = params[p]
      <3>1. InEdit(call[c], p)
        BY <1>4, <2>1 DEF InEdit, EditStages
      <3> QED
        BY <1>2, <1>4, <2>1, <3>1, OwnEdit DEF EditFollows
    <2>3. PICK new : new = [version |-> call[c].row.version, header |-> call[c].row.header,
                            params |-> call[c].found]
      OBVIOUS
    <2>4. history'[p] \subseteq history[p] \cup {new}
      BY <1>4, <2>3 DEF AppendHistory, Shape, TypeOK
    <2>5. new.params = params[p]
      BY <2>2, <2>3
    <2> QED
      BY <1>2, <1>4, <2>1, <2>4, <2>5
  <1>5. ASSUME NEW c \in Calls, FillProfile(c), call[c].p = p, row[p] # Absent
        PROVE  history'[p] = {}
    <2>1. call[c].at = "fill" /\ UNCHANGED history
      BY <1>5 DEF FillProfile, At
    <2>2. InEdit(call[c], p)
      BY <1>5, <2>1 DEF InEdit, EditStages
    <2>3. Versions(p, row[p].version - 1) /\ call[c].row.version = row[p].version
      BY <1>2, <1>5, <2>1, <2>2, OwnEdit DEF EditFollows
    <2>4. row[p].version = 1
      BY <2>1, <2>3 DEF PayloadSound
    <2>5. \A e \in history[p] : e.version \in 1 .. 0
      BY <2>3, <2>4 DEF Versions
    <2> QED
      BY <2>1, <2>5
  <1>6. ASSUME NEW c \in Calls, ReplaceParameters(c), call[c].p = p, row[p] # Absent
        PROVE  FALSE
    <2>1. EditFits(call[c]) /\ call[c].at = "replace"
      BY <1>6 DEF Sound, CallsFit, ReplaceParameters, At
    <2> QED
      BY <1>2, <1>6, <2>1 DEF EditFits
  <1>7. ASSUME NEW c \in Calls, call[c].p = p PROVE row[p] # Absent
    BY <1>7, ConstantsAssumption DEF Shape, CallSound
  <1> QED
    BY <1>3, <1>4, <1>5, <1>6, <1>7, HistoryMoves, ParametersMove

\* A version that was read or sent is one there has been, and goes on to be.
LEMMA VersionKept ==
    ASSUME Shape, Sound, HistorySound, [Next]_vars, NEW p \in Profiles, row[p] # Absent,
           p \notin disturbed', NEW v \in 1 .. row[p].version
    PROVE  v \in 1 .. row'[p].version
  BY ProfileGrows DEF Grows

LEMMA HeldVersions ==
    ASSUME Shape, Sound, HistorySound, PayloadSound, [Next]_vars, NEW d \in Calls,
           Held(call[d])', call'[d].p \notin disturbed'
    PROVE  call'[d].row.version \in 1 .. row'[call'[d].p].version
  <1>1. PICK r : r = call'[d]
    OBVIOUS
  <1>2. r.p \notin disturbed' /\ Held(r)
    BY <1>1 DEF Held
  <1>3. ASSUME Held(call[d]), r.p = call[d].p, r.row = call[d].row
        PROVE  r.row.version \in 1 .. row'[r.p].version
    <2>1. call[d].p \in Profiles /\ call[d].p # NoProfile
      BY <1>3, ConstantsAssumption DEF Held, Shape, TypeOK, CallRecord
    <2>2. row[call[d].p] # Absent
      BY <2>1 DEF Shape, CallSound
    <2>3. call[d].p \notin disturbed
      BY <1>2, <1>3, <2>1, <2>2, ProfileGrows DEF Grows
    <2>4. r.row.version \in 1 .. row[r.p].version
      BY <1>3, <2>3 DEF PayloadSound
    <2> QED
      BY <1>2, <1>3, <2>1, <2>2, <2>4, VersionKept
  <1>4. ASSUME r.p \in Profiles, row[r.p] # Absent, r.row = row[r.p]
        PROVE  r.row.version \in 1 .. row'[r.p].version
    <2>1. r.p \notin disturbed
      BY <1>2, <1>4, ProfileGrows DEF Grows
    <2>2. row[r.p].version \in Nat \ {0}
      BY <1>4, <2>1 DEF HistorySound, Undisturbed
    <2>3. r.row.version \in 1 .. row[r.p].version
      BY <1>4, <2>2
    <2> QED
      BY <1>2, <1>4, <2>3, VersionKept
  <1>5. r = call[d] \/ Moved(r, call[d])
    BY <1>1, CallMoves
  <1>6. r.row.version \in 1 .. row'[r.p].version
    BY <1>2, <1>3, <1>4, <1>5 DEF Moved, Held
  <1> QED
    BY <1>1, <1>6

LEMMA JobVersions ==
    ASSUME Shape, Sound, HistorySound, PayloadSound, [Next]_vars, NEW j \in jobs',
           j.kind # "fields"
    PROVE  /\ row'[j.p] # Absent
           /\ j.p \notin disturbed' => j.version \in 1 .. row'[j.p].version
           /\ row'[j.p].homologated => j.params \in {{}, params'[j.p]}
  <1>1. CASE j \in jobs
    <2>1. j.p \in Profiles
      BY <1>1 DEF Shape, TypeOK, Payload
    <2>2. /\ row[j.p] # Absent
          /\ j.p \notin disturbed => j.version \in 1 .. row[j.p].version
          /\ row[j.p].homologated => j.params \in {{}, params[j.p]}
      BY <1>1 DEF PayloadSound
    <2>3. Grows(j.p)
      BY <2>1, <2>2, ProfileGrows
    <2>4. row'[j.p].homologated => j.params \in {{}, params'[j.p]}
      BY <2>2, <2>3 DEF Grows
    <2>5. j.p \notin disturbed' => j.version \in 1 .. row'[j.p].version
      BY <2>1, <2>2, <2>3, VersionKept DEF Grows
    <2> QED
      BY <2>3, <2>4, <2>5 DEF Grows
  <1>2. ASSUME NEW c \in Calls, NEW customer \in BOOLEAN, NEW sameModel \in BOOLEAN,
               RenderJob(c, customer, sameModel), j \notin jobs
        PROVE  /\ row'[j.p] # Absent
               /\ j.p \notin disturbed' => j.version \in 1 .. row'[j.p].version
               /\ row'[j.p].homologated => j.params \in {{}, params'[j.p]}
    <2>1. PICK resolved \in RenderProfile(call[c].found, customer) :
              jobs' = {[p |-> call[c].p, kind |-> call[c].kind, header |-> call[c].row.header,
                        version |-> call[c].row.version, params |-> resolved]}
      BY <1>2 DEF RenderJob
    <2>2. j.p = call[c].p /\ j.version = call[c].row.version /\ j.params = call[c].found
      BY <2>1 DEF RenderProfile
    <2>3. call[c].at = "render" /\ UNCHANGED <<row, params, disturbed>>
      BY <1>2 DEF RenderJob, At, tables
    <2>4. call[c].p # NoProfile
      BY <2>3 DEF Shape, TypeOK
    <2>5. row[call[c].p] # Absent
      BY <2>4 DEF Shape, CallSound
    <2>6. call[c].p \notin disturbed => j.version \in 1 .. row[call[c].p].version
      BY <2>2, <2>3 DEF PayloadSound, Held
    <2>7. row[call[c].p].homologated => j.params \in {{}, params[call[c].p]}
      <3>1. LoadFits(call[c])
        BY DEF Sound, CallsFit
      <3> QED
        BY <2>2, <2>3, <3>1 DEF LoadFits
    <2> QED
      BY <2>2, <2>3, <2>5, <2>6, <2>7
  <1>3. ASSUME NEW c \in Calls, UpdateFields(c) PROVE j \in jobs
    <2>1. CASE FindActiveByModel(c)
      <3>1. UNCHANGED jobs
        BY <2>1, ZenonT(60) DEF FindActiveByModel
      <3> QED
        BY <3>1
    <2>2. ASSUME NEW w, NEW f, NEW bl, NEW n, EnqueueFields(c, w, f, bl, n) PROVE j \in jobs
      <3>1. call[c].kind = "fields"
        BY <2>2 DEF Sound, CallsFit, LoadFits, EnqueueFields, At
      <3> QED
        BY <2>2, <3>1 DEF EnqueueFields
    <2> QED
      BY <1>3, <2>1, <2>2 DEF UpdateFields
  <1> QED
    BY <1>1, <1>2, <1>3, JobsMove

LEMMA PayloadStep == Shape /\ Sound /\ HistorySound /\ PayloadSound /\ [Next]_vars => PayloadSound'
  <1> SUFFICES ASSUME Shape, Sound, HistorySound, PayloadSound, [Next]_vars PROVE PayloadSound'
    OBVIOUS
  <1>1. ASSUME NEW d \in Calls, call'[d].at = "fill" PROVE call'[d].row.version = 1
    BY <1>1, CallMoves DEF Moved, Held, HistorySound, PayloadSound
  <1>2. ASSUME NEW p \in Profiles \ disturbed', row'[p] # Absent, row'[p].homologated
        PROVE  \A e \in history'[p] : e.params = params'[p]
    BY <1>2, SnapshotsOfHomologated
  <1>3. ASSUME NEW d \in Calls, Held(call[d])', call'[d].p \notin disturbed'
        PROVE  call'[d].row.version \in 1 .. row'[call'[d].p].version
    BY <1>3, HeldVersions
  <1>4. ASSUME NEW j \in jobs', j.kind # "fields"
        PROVE  /\ row'[j.p] # Absent
               /\ j.p \notin disturbed' => j.version \in 1 .. row'[j.p].version
               /\ row'[j.p].homologated => j.params \in {{}, params'[j.p]}
    BY <1>4, JobVersions
  <1> QED
    BY <1>1, <1>2, <1>3, <1>4 DEF PayloadSound

LEMMA PayloadInit == Init => PayloadSound
  BY DEF Init, PayloadSound, Idle, Held

LEMMA PayloadAlways == Spec => [](Shape /\ Sound /\ HistorySound /\ PayloadSound)
  BY ShapeInit, ShapeStep, SoundInit, SoundStep, HistoryInit, HistoryStep, PayloadInit,
     PayloadStep, PTL DEF Spec

\* A job of a homologated profile names a version in the history whose parameters are the
\* ones it carries (LoadFull, service.go:326), for any number of requests and edits.
THEOREM PayloadNamesVersion == Spec => []PayloadOfVersion
  <1>1. ASSUME Shape, HistorySound, PayloadSound PROVE PayloadOfVersion
    <2> SUFFICES ASSUME NEW j \in jobs, row[j.p].homologated, j.params # {}, j.kind # "fields",
                        j.p \notin disturbed, EditsInFlight(j.p) = {}
                 PROVE  \E e \in history[j.p] : e.version = j.version /\ e.params = j.params
      BY DEF PayloadOfVersion
    <2>1. j.p \in Profiles
      BY <1>1 DEF Shape, TypeOK, Payload
    <2>2. /\ row[j.p] # Absent /\ j.version \in 1 .. row[j.p].version
          /\ j.params = params[j.p]
      BY <1>1 DEF PayloadSound
    <2>3. Undisturbed(j.p)
      BY <1>1, <2>1, <2>2 DEF HistorySound
    <2>4. \A c \in Calls : ~InEdit(call[c], j.p)
      BY DEF EditsInFlight, InEdit
    <2>5. PICK e \in history[j.p] : e.version = j.version
      BY <2>2, <2>3, <2>4 DEF Undisturbed, Settled, Versions
    <2>6. e.params = params[j.p]
      BY <1>1, <2>1, <2>2 DEF PayloadSound
    <2> QED
      BY <2>2, <2>5, <2>6
  <1> QED
    BY <1>1, PayloadAlways, PTL

=============================================================================
