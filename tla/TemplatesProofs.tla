-------------------------- MODULE TemplatesProofs --------------------------
(***************************************************************************)
(* Proofs about Templates, for any profiles, headers, contents, requests   *)
(* in flight and number of failed statements.                              *)
(***************************************************************************)
EXTENDS Templates, TLAPS

-----------------------------------------------------------------------------
(* Types.                                                                  *)

\* A row is there with its header or not at all, and a record is of a row.
RowSound ==
    \A p \in Profiles : /\ row[p].header = NoHeader => row[p] = Absent
                        /\ row[p] = Absent => record[p] = "none"

\* A call holds a profile only once it has one, which is then there, and a header
\* where it will write or send one; only applications and inline edits load.
CallSound ==
    \A c \in Calls :
        /\ call[c].at \in {"idle", "insert", "find"} => call[c].p = NoProfile
        /\ call[c].p # NoProfile => row[call[c].p] # Absent
        /\ call[c].at \notin {"idle", "find", "load"} => call[c].row.header \in Headers
        /\ call[c].at \in LoadStages => call[c].kind \in {"apply", "bulk", "fields"}

Shape == TypeOK /\ RowSound /\ CallSound

LEMMA AbsentType == Absent \in ProfileRow
  BY DEF Absent, ProfileRow

LEMMA IdleType == Idle \in CallRecord
  BY AbsentType DEF Idle, CallRecord, EditStages, LoadStages, ParameterSets

\* A profile that is there has a header.
LEMMA PresentHeader ==
    ASSUME Shape, NEW p \in Profiles, row[p] # Absent
    PROVE  row[p].header \in Headers
  BY DEF Shape, TypeOK, RowSound, ProfileRow

\* The form's parameters are a set of parameters.
LEMMA ContentsType == \A ps \in Contents : ps \in ParameterSets
  BY DEF ParameterSets

\* A step that moves one call and leaves the tables alone keeps the shape, if the
\* call it leaves behind is sound.
LEMMA CallStepShape ==
    ASSUME Shape, NEW c \in Calls, UNCHANGED tables,
           NEW r \in CallRecord, call' = [call EXCEPT ![c] = r],
           r.at \in {"idle", "insert", "find"} <=> r.p = NoProfile,
           r.p # NoProfile => row[r.p] # Absent,
           r.at \notin {"idle", "find", "load"} => r.row.header \in Headers,
           r.at \in LoadStages => r.kind \in {"apply", "bulk", "fields"},
           jobs' \subseteq Payload, disturbed' \subseteq Profiles, faults' \in Nat
    PROVE  Shape'
  <1>1. TypeOK'
    BY DEF Shape, TypeOK, tables
  <1>2. RowSound'
    BY DEF Shape, RowSound, tables
  <1>3. CallSound'
    <2>1. \A d \in Calls : call'[d] = IF d = c THEN r ELSE call[d]
      BY DEF Shape, TypeOK
    <2> QED
      BY <2>1 DEF Shape, CallSound, tables
  <1> QED
    BY <1>1, <1>2, <1>3 DEF Shape

\* The same where the step also writes the row of the call's profile.
LEMMA RowStepShape ==
    ASSUME Shape, NEW c \in Calls, NEW p \in Profiles, UNCHANGED <<params, history, record>>,
           NEW r \in CallRecord, call' = [call EXCEPT ![c] = r],
           NEW w \in ProfileRow, w.header \in Headers, row' = [row EXCEPT ![p] = w],
           r.at \in {"idle", "insert", "find"} <=> r.p = NoProfile,
           r.p # NoProfile => r.p = p,
           r.at \notin {"idle", "find", "load"} => r.row.header \in Headers,
           r.at \notin LoadStages,
           UNCHANGED <<jobs, disturbed, faults>>
    PROVE  Shape'
  <1>1. TypeOK'
    BY DEF Shape, TypeOK
  <1>2. w # Absent
    BY ConstantsAssumption DEF Absent
  <1>3. \A q \in Profiles : row'[q] = IF q = p THEN w ELSE row[q]
    BY DEF Shape, TypeOK
  <1>4. RowSound'
    BY <1>2, <1>3, ConstantsAssumption DEF Shape, RowSound
  <1>5. CallSound'
    <2>1. \A d \in Calls : call'[d] = IF d = c THEN r ELSE call[d]
      BY DEF Shape, TypeOK
    <2>2. \A d \in Calls : call[d].p \in Profiles \cup {NoProfile}
      BY DEF Shape, TypeOK, CallRecord
    <2> QED
      BY <1>2, <1>3, <2>1, <2>2 DEF Shape, CallSound
  <1> QED
    BY <1>1, <1>4, <1>5 DEF Shape

\* And where it writes one of the other tables.
LEMMA TableStepShape ==
    ASSUME Shape, NEW c \in Calls, UNCHANGED row,
           params' \in [Profiles -> ParameterSets],
           history' \in [Profiles -> SUBSET Snapshot],
           record' \in [Profiles -> {"none", "homologated", "deprecated"}],
           \A p \in Profiles : row[p] = Absent => record'[p] = "none",
           NEW r \in CallRecord, call' = [call EXCEPT ![c] = r],
           r.at \in {"idle", "insert", "find"} <=> r.p = NoProfile,
           r.p # NoProfile => row[r.p] # Absent,
           r.at \notin {"idle", "find", "load"} => r.row.header \in Headers,
           r.at \notin LoadStages,
           UNCHANGED <<jobs, disturbed, faults>>
    PROVE  Shape'
  <1>1. TypeOK'
    BY DEF Shape, TypeOK
  <1>2. RowSound'
    BY DEF Shape, RowSound
  <1>3. CallSound'
    <2>1. \A d \in Calls : call'[d] = IF d = c THEN r ELSE call[d]
      BY DEF Shape, TypeOK
    <2> QED
      BY <2>1 DEF Shape, CallSound
  <1> QED
    BY <1>1, <1>2, <1>3 DEF Shape

-----------------------------------------------------------------------------
(* Every step keeps the shape.                                             *)

LEMMA IdleStepShape ==
    ASSUME Shape, NEW c \in Calls, UNCHANGED tables, Goto(c, "idle"),
           jobs' \subseteq Payload, disturbed' \subseteq Profiles, faults' \in Nat
    PROVE  Shape'
  <1>1. call' = [call EXCEPT ![c] = Idle]
    BY DEF Goto
  <1> QED
    BY <1>1, IdleType, CallStepShape DEF Idle, LoadStages

LEMMA RequestCreateShape ==
    ASSUME Shape, NEW c \in Calls, NEW h \in Headers, NEW ps \in Contents,
           NEW kind \in {"edit", "wizard"}, RequestCreate(c, h, ps, kind)
    PROVE  Shape'
  <1> DEFINE r == [Idle EXCEPT !.at = "insert", !.kind = kind, !.params = ps,
                     !.row = [header |-> h, version |-> 1, active |-> TRUE,
                              homologated |-> kind = "wizard"]]
  <1>1. r \in CallRecord
    BY IdleType, ContentsType, ZenonT(60) DEF CallRecord, EditStages, ProfileRow, Idle
  <1>2. r.at = "insert" /\ r.p = NoProfile /\ r.row.header = h
    BY DEF Idle
  <1>3. jobs' \subseteq Payload /\ disturbed' \subseteq Profiles /\ faults' \in Nat
    BY DEF RequestCreate, Shape, TypeOK
  <1>4. UNCHANGED tables /\ call' = [call EXCEPT ![c] = r]
    BY DEF RequestCreate
  <1> HIDE DEF r
  <1> QED
    BY <1>1, <1>2, <1>3, <1>4, CallStepShape DEF LoadStages

LEMMA InsertProfileShape ==
    ASSUME Shape, NEW c \in Calls, NEW p \in Profiles, InsertProfile(c, p)
    PROVE  Shape'
  <1> DEFINE r == [call[c] EXCEPT !.at = "fill", !.p = p]
  <1>1. CASE Taken(call[c].row.header, p)
    BY <1>1, IdleStepShape DEF InsertProfile, tables, Shape, TypeOK
  <1>2. CASE ~Taken(call[c].row.header, p)
    <2>1. r \in CallRecord
      BY ZenonT(60) DEF Shape, TypeOK, CallRecord, EditStages
    <2>2. call[c].row \in ProfileRow /\ call[c].row.header \in Headers
      BY DEF Shape, TypeOK, CallRecord, CallSound, InsertProfile, At
    <2>3. r.at = "fill" /\ r.p = p /\ r.row = call[c].row
      BY DEF Shape, TypeOK, CallRecord
    <2>4. p # NoProfile
      BY ConstantsAssumption
    <2>5. /\ row' = [row EXCEPT ![p] = call[c].row]
          /\ call' = [call EXCEPT ![c] = r]
          /\ UNCHANGED <<params, history, record, jobs, disturbed, faults>>
      BY <1>2 DEF InsertProfile
    <2> HIDE DEF r
    <2> QED
      BY <2>1, <2>2, <2>3, <2>4, <2>5, RowStepShape DEF LoadStages
  <1> QED
    BY <1>1, <1>2

LEMMA FillProfileShape ==
    ASSUME Shape, NEW c \in Calls, FillProfile(c)
    PROVE  Shape'
  <1> DEFINE r == [call[c] EXCEPT !.at = "relist", !.params = {}]
  <1>1. r \in CallRecord
    BY ZenonT(60) DEF Shape, TypeOK, CallRecord, EditStages, ParameterSets
  <1>2. r.at = "relist" /\ r.p = call[c].p /\ r.row = call[c].row
    BY DEF Shape, TypeOK, CallRecord
  <1>3. call[c].p \in Profiles /\ row[call[c].p] # Absent /\ call[c].row.header \in Headers
    BY DEF FillProfile, At, Shape, TypeOK, CallRecord, CallSound
  <1>4. params' \in [Profiles -> ParameterSets]
    BY DEF FillProfile, Shape, TypeOK, CallRecord
  <1>5. /\ call' = [call EXCEPT ![c] = r]
        /\ UNCHANGED <<row, history, record, jobs, disturbed, faults>>
    BY DEF FillProfile
  <1> HIDE DEF r
  <1> QED
    BY <1>1, <1>2, <1>3, <1>4, <1>5, ConstantsAssumption, TableStepShape DEF Shape, TypeOK, RowSound, LoadStages

\* The stages between the request and the end of an edit only move the call.
LEMMA RequestUpdateShape ==
    ASSUME Shape, NEW c \in Calls, NEW p \in Profiles, NEW h \in Headers,
           NEW active \in BOOLEAN, NEW ps \in Contents, RequestUpdate(c, p, h, active, ps)
    PROVE  Shape'
  <1> DEFINE r == [Idle EXCEPT !.at = "get", !.p = p, !.params = ps,
                     !.row = [Absent EXCEPT !.header = h, !.active = active]]
  <1>1. [Absent EXCEPT !.header = h, !.active = active] \in ProfileRow
    BY AbsentType DEF ProfileRow, Absent
  <1>2. r \in CallRecord
    BY <1>1, IdleType, ContentsType DEF CallRecord, EditStages, Idle
  <1>3. r.at = "get" /\ r.p = p /\ r.row.header = h
    BY DEF Idle, Absent
  <1>4. jobs' \subseteq Payload /\ disturbed' \subseteq Profiles /\ faults' \in Nat
    BY DEF RequestUpdate, Shape, TypeOK
  <1>5. UNCHANGED tables /\ call' = [call EXCEPT ![c] = r] /\ row[p] # Absent
    BY DEF RequestUpdate, tables
  <1> HIDE DEF r
  <1> QED
    BY <1>2, <1>3, <1>4, <1>5, ConstantsAssumption, CallStepShape DEF LoadStages

LEMMA GetProfileShape ==
    ASSUME Shape, NEW c \in Calls, GetProfile(c)
    PROVE  Shape'
  <1> DEFINE cur == row[call[c].p]
             w == [call[c].row EXCEPT !.version = cur.version,
                                      !.homologated = cur.homologated]
             r == [call[c] EXCEPT !.at = "list",
                     !.row.version = cur.version, !.row.homologated = cur.homologated,
                     !.changed = {f \in {"header", "active"} : call[c].row[f] # cur[f]}]
  <1>1. /\ call[c].p \in Profiles /\ row[call[c].p] # Absent
        /\ call[c].row.header \in Headers /\ call[c].p # NoProfile
    BY ConstantsAssumption DEF GetProfile, At, Shape, TypeOK, CallRecord, CallSound
  <1>2. w \in ProfileRow /\ w.header = call[c].row.header
    <2>1. call[c].row \in ProfileRow /\ cur \in ProfileRow
      BY <1>1 DEF Shape, TypeOK, CallRecord
    <2> HIDE DEF cur, r
    <2> QED
      BY <2>1 DEF ProfileRow
  <1>3. {f \in {"header", "active"} : call[c].row[f] # cur[f]}
            \in SUBSET {"header", "active", "params"}
    OBVIOUS
  <1>4. r = [call[c] EXCEPT !.at = "list", !.row = w,
               !.changed = {f \in {"header", "active"} : call[c].row[f] # cur[f]}]
    BY DEF Shape, TypeOK, CallRecord, ProfileRow
  <1>5. r \in CallRecord
    <2>1. call[c] \in CallRecord
      BY DEF Shape, TypeOK
    <2> HIDE DEF r, w, cur
    <2> QED
      BY <1>2, <1>3, <1>4, <2>1 DEF CallRecord, EditStages
  <1>6. r.at = "list" /\ r.p = call[c].p /\ r.row = w
    BY <1>4 DEF Shape, TypeOK, CallRecord
  <1>7. /\ UNCHANGED tables /\ call' = [call EXCEPT ![c] = r]
        /\ UNCHANGED <<jobs, disturbed, faults>>
    BY DEF GetProfile
  <1>8. jobs' \subseteq Payload /\ disturbed' \subseteq Profiles /\ faults' \in Nat
    BY <1>7 DEF Shape, TypeOK
  <1> HIDE DEF r, w
  <1> QED
    BY <1>1, <1>2, <1>5, <1>6, <1>7, <1>8, CallStepShape DEF LoadStages

\* A call that goes on to another stage and forgets or learns nothing but the set
\* of what it changes.
LEMMA MoveShape ==
    ASSUME Shape, NEW c \in Calls, UNCHANGED tables,
           NEW at, at \in EditStages \cup LoadStages, at \notin {"insert", "find", "load"},
           call[c].at \notin {"idle", "insert", "find", "load"},
           at \in LoadStages => call[c].at \in LoadStages,
           NEW changed \in SUBSET {"header", "active", "params"},
           NEW found \in ParameterSets,
           call' = [call EXCEPT ![c] = [call[c] EXCEPT !.at = at, !.changed = changed,
                                                     !.found = found]],
           jobs' \subseteq Payload, disturbed' \subseteq Profiles, faults' \in Nat
    PROVE  Shape'
  <1> DEFINE r == [call[c] EXCEPT !.at = at, !.changed = changed, !.found = found]
  <1>1. r \in CallRecord
    <2>1. call[c] \in CallRecord
      BY DEF Shape, TypeOK
    <2> QED
      BY <2>1 DEF CallRecord
  <1>2. r.at = at /\ r.p = call[c].p /\ r.row = call[c].row
    BY DEF Shape, TypeOK, CallRecord
  <1>3. /\ call[c].p # NoProfile /\ row[call[c].p] # Absent
        /\ call[c].row.header \in Headers
    <2>1. call[c].p # NoProfile
      BY DEF Shape, TypeOK
    <2> QED
      BY <2>1 DEF Shape, CallSound
  <1>4. at \notin {"idle", "insert", "find"} /\ at # "load"
    BY DEF EditStages, LoadStages
  <1> HIDE DEF r
  <1>5. call' = [call EXCEPT ![c] = r]
    BY DEF r
  <1>6. r.at \in {"idle", "insert", "find"} <=> r.p = NoProfile
    BY <1>2, <1>3, <1>4
  <1>7. r.p # NoProfile => row[r.p] # Absent
    BY <1>2, <1>3
  <1>8. r.at \notin {"idle", "find", "load"} => r.row.header \in Headers
    BY <1>2, <1>3
  <1>9. r.at \in LoadStages => r.kind \in {"apply", "bulk", "fields"}
    <2>1. r.kind = call[c].kind
      BY DEF r, Shape, TypeOK, CallRecord
    <2> QED
      BY <1>2, <2>1 DEF Shape, CallSound
  <1> QED
    BY <1>1, <1>5, <1>6, <1>7, <1>8, <1>9, CallStepShape

LEMMA CompareParametersShape ==
    ASSUME Shape, NEW c \in Calls, CompareParameters(c)
    PROVE  Shape'
  <1> DEFINE changed == call[c].changed \cup
                 IF params[call[c].p] = call[c].params THEN {} ELSE {"params"}
  <1>1. jobs' \subseteq Payload /\ disturbed' \subseteq Profiles /\ faults' \in Nat
    BY DEF CompareParameters, Shape, TypeOK
  <1>2. CASE changed = {} \/ ~Allowed(c, changed)
    BY <1>1, <1>2, IdleStepShape DEF CompareParameters
  <1>3. CASE ~(changed = {} \/ ~Allowed(c, changed))
    <2>1. call' = [call EXCEPT ![c] = [call[c] EXCEPT !.at = "update",
                                                     !.changed = changed \cap {"params"}]]
      BY <1>3 DEF CompareParameters
    <2>2. call[c].found \in ParameterSets
      BY DEF Shape, TypeOK, CallRecord
    <2>3. call' = [call EXCEPT ![c] = [call[c] EXCEPT !.at = "update",
                       !.changed = changed \cap {"params"}, !.found = call[c].found]]
      BY <2>1 DEF Shape, TypeOK, CallRecord
    <2>4. call[c].at = "list" /\ UNCHANGED tables
      BY DEF CompareParameters, At
    <2>5. changed \cap {"params"} \in SUBSET {"header", "active", "params"}
      OBVIOUS
    <2>6. "update" \in EditStages \cup LoadStages
      BY DEF EditStages
    <2> HIDE DEF changed
    <2> QED
      BY <1>1, <2>2, <2>3, <2>4, <2>5, <2>6, MoveShape DEF LoadStages
  <1> QED
    BY <1>2, <1>3

LEMMA UpdateProfileShape ==
    ASSUME Shape, NEW c \in Calls, UpdateProfile(c)
    PROVE  Shape'
  <1> DEFINE to == IF call[c].changed = {} THEN "bump" ELSE "replace"
             r  == [call[c] EXCEPT !.at = to]
             w  == [call[c].row EXCEPT !.homologated = row[call[c].p].homologated]
  <1>1. CASE Taken(call[c].row.header, call[c].p)
    BY <1>1, IdleStepShape DEF UpdateProfile, tables, Shape, TypeOK
  <1>2. CASE ~Taken(call[c].row.header, call[c].p)
    <2>1. /\ call[c] \in CallRecord /\ call[c].row \in ProfileRow
          /\ call[c].p \in Profiles /\ call[c].p # NoProfile
          /\ call[c].row.header \in Headers
      BY DEF UpdateProfile, At, Shape, TypeOK, CallRecord, CallSound
    <2>2. r \in CallRecord
      BY <2>1 DEF CallRecord, EditStages
    <2>3. r.at \in {"bump", "replace"} /\ r.p = call[c].p /\ r.row = call[c].row
      BY <2>1 DEF CallRecord
    <2>4. row[call[c].p] \in ProfileRow
      BY <2>1 DEF Shape, TypeOK
    <2>5. w \in ProfileRow /\ w.header \in Headers
      BY <2>1, <2>4 DEF ProfileRow
    <2>6. /\ row' = [row EXCEPT ![call[c].p] = w]
          /\ call' = [call EXCEPT ![c] = r]
          /\ UNCHANGED <<params, history, record, jobs, disturbed, faults>>
      BY <1>2 DEF UpdateProfile, Goto
    <2> HIDE DEF r, w
    <2>7. r.at \in {"idle", "insert", "find"} <=> r.p = NoProfile
      BY <2>1, <2>3
    <2>8. r.at \notin {"idle", "find", "load"} => r.row.header \in Headers
      BY <2>1, <2>3
    <2> QED
      BY <2>1, <2>2, <2>3, <2>5, <2>6, <2>7, <2>8, RowStepShape DEF LoadStages
  <1> QED
    BY <1>1, <1>2

LEMMA ReplaceParametersShape ==
    ASSUME Shape, NEW c \in Calls, ReplaceParameters(c)
    PROVE  Shape'
  <1> DEFINE r == [call[c] EXCEPT !.at = "bump"]
  <1>1. /\ call[c] \in CallRecord /\ call[c].p \in Profiles /\ call[c].p # NoProfile
        /\ row[call[c].p] # Absent /\ call[c].row.header \in Headers
    BY DEF ReplaceParameters, At, Shape, TypeOK, CallRecord, CallSound
  <1>2. r \in CallRecord /\ r.at = "bump" /\ r.p = call[c].p /\ r.row = call[c].row
    BY <1>1 DEF CallRecord, EditStages
  <1>3. params' \in [Profiles -> ParameterSets]
    BY <1>1 DEF ReplaceParameters, Shape, TypeOK, CallRecord
  <1>4. /\ call' = [call EXCEPT ![c] = r]
        /\ UNCHANGED <<row, history, record, jobs, disturbed, faults>>
    BY DEF ReplaceParameters, Goto
  <1> HIDE DEF r
  <1> QED
    BY <1>1, <1>2, <1>3, <1>4, TableStepShape DEF Shape, TypeOK, RowSound, LoadStages

LEMMA IncrementVersionShape ==
    ASSUME Shape, NEW c \in Calls, IncrementVersion(c)
    PROVE  Shape'
  <1> DEFINE p == call[c].p
             w == [row[p] EXCEPT !.version = @ + 1]
             u == [call[c].row EXCEPT !.version = row[p].version + 1]
             r == [call[c] EXCEPT !.at = "relist", !.params = {}, !.changed = {}, !.row = u]
  <1>1. /\ call[c] \in CallRecord /\ call[c].row \in ProfileRow
        /\ p \in Profiles /\ p # NoProfile /\ row[p] # Absent
        /\ call[c].row.header \in Headers /\ row[p] \in ProfileRow
    BY DEF IncrementVersion, At, Shape, TypeOK, CallRecord, CallSound
  <1>2. w \in ProfileRow /\ w.header \in Headers
    BY <1>1, PresentHeader DEF ProfileRow
  <1>3. u \in ProfileRow /\ u.header = call[c].row.header
    BY <1>1 DEF ProfileRow
  <1>4. row' = [row EXCEPT ![p] = w]
    BY DEF IncrementVersion
  <1>5. call' = [call EXCEPT ![c] = r]
    BY <1>1 DEF IncrementVersion, CallRecord
  <1>6. UNCHANGED <<params, history, record, jobs, disturbed, faults>>
    BY DEF IncrementVersion
  <1>7. r \in CallRecord /\ r.at = "relist" /\ r.p = p /\ r.row = u
    <2> HIDE DEF u, w
    <2> QED
      BY <1>1, <1>3 DEF CallRecord, EditStages, ParameterSets
  <1> HIDE DEF r, w, u, p
  <1>8. r.at \in {"idle", "insert", "find"} <=> r.p = NoProfile
    BY <1>1, <1>7
  <1>9. r.at \notin {"idle", "find", "load"} => r.row.header \in Headers
    BY <1>1, <1>3, <1>7
  <1> QED
    BY <1>1, <1>2, <1>4, <1>5, <1>6, <1>7, <1>8, <1>9, RowStepShape DEF LoadStages

LEMMA ReadSnapshotShape ==
    ASSUME Shape, NEW c \in Calls, ReadSnapshot(c)
    PROVE  Shape'
  <1>1. call[c] \in CallRecord /\ call[c].at = "relist" /\ call[c].p \in Profiles
    BY DEF ReadSnapshot, At, Shape, TypeOK, CallRecord
  <1>2. params[call[c].p] \in ParameterSets /\ {} \in ParameterSets
    BY <1>1 DEF Shape, TypeOK, ParameterSets
  <1>3. \E found \in ParameterSets :
            call' = [call EXCEPT ![c] = [call[c] EXCEPT !.at = "append", !.found = found]]
    BY <1>1, <1>2 DEF ReadSnapshot
  <1>4. PICK found \in ParameterSets :
            call' = [call EXCEPT ![c] = [call[c] EXCEPT !.at = "append",
                                   !.changed = call[c].changed, !.found = found]]
    BY <1>1, <1>3 DEF CallRecord
  <1>5. jobs' \subseteq Payload /\ disturbed' \subseteq Profiles /\ faults' \in Nat
    BY <1>1 DEF ReadSnapshot, Shape, TypeOK
  <1>6. "append" \in EditStages \cup LoadStages
    BY DEF EditStages
  <1>7. UNCHANGED tables /\ call[c].changed \in SUBSET {"header", "active", "params"}
    BY <1>1 DEF ReadSnapshot, CallRecord
  <1> QED
    BY <1>1, <1>4, <1>5, <1>6, <1>7, MoveShape DEF LoadStages

LEMMA AppendHistoryShape ==
    ASSUME Shape, NEW c \in Calls, AppendHistory(c)
    PROVE  Shape'
  <1> DEFINE p == call[c].p
             to == IF call[c].kind = "wizard" THEN "record" ELSE "idle"
             e == [version |-> call[c].row.version, header |-> call[c].row.header,
                   params |-> call[c].found]
             r == IF to = "idle" THEN Idle ELSE [call[c] EXCEPT !.at = to]
  <1>1. /\ call[c] \in CallRecord /\ p \in Profiles /\ p # NoProfile /\ row[p] # Absent
        /\ call[c].row.header \in Headers
    BY DEF AppendHistory, At, Shape, TypeOK, CallRecord, CallSound
  <1>2. CASE \E x \in history[p] : x.version = call[c].row.version
    BY <1>2, IdleStepShape DEF AppendHistory, tables, Shape, TypeOK
  <1>3. CASE ~\E x \in history[p] : x.version = call[c].row.version
    <2>1. e \in Snapshot
      BY <1>1 DEF Snapshot, CallRecord, ProfileRow
    <2>2. history' = [history EXCEPT ![p] = @ \cup {e}]
      BY <1>3 DEF AppendHistory
    <2> HIDE DEF e
    <2>3. history' \in [Profiles -> SUBSET Snapshot]
      BY <1>1, <2>1, <2>2 DEF Shape, TypeOK
    <2>4. /\ call' = [call EXCEPT ![c] = r]
          /\ UNCHANGED <<row, params, record, jobs, disturbed, faults>>
      BY <1>3 DEF AppendHistory, Goto
    <2>5. r \in CallRecord
      BY <1>1, IdleType DEF CallRecord, EditStages
    <2>6. \/ r = Idle
          \/ r.at = "record" /\ r.p = p /\ r.row = call[c].row
      BY <1>1 DEF CallRecord
    <2> HIDE DEF r
    <2>7. r.at \in {"idle", "insert", "find"} <=> r.p = NoProfile
      BY <1>1, <2>6 DEF Idle
    <2>8. r.p # NoProfile => row[r.p] # Absent
      BY <1>1, <2>6 DEF Idle
    <2>9. r.at \notin {"idle", "find", "load"} => r.row.header \in Headers
      BY <1>1, <2>6 DEF Idle
    <2>10. r.at \notin LoadStages
      BY <2>6 DEF Idle, LoadStages
    <2> QED
      BY <2>3, <2>4, <2>5, <2>7, <2>8, <2>9, <2>10, TableStepShape DEF Shape, TypeOK, RowSound
  <1> QED
    BY <1>2, <1>3

LEMMA RecordHomologationShape ==
    ASSUME Shape, NEW c \in Calls, RecordHomologation(c)
    PROVE  Shape'
  <1>1. record' \in [Profiles -> {"none", "homologated", "deprecated"}]
    BY DEF RecordHomologation, Shape, TypeOK
  <1>3. row[call[c].p] # Absent
    BY DEF RecordHomologation, At, Shape, TypeOK, CallSound
  <1>4. \A p \in Profiles : row[p] = Absent => record'[p] = "none"
    BY <1>3 DEF RecordHomologation, Shape, TypeOK, RowSound
  <1>2. /\ call' = [call EXCEPT ![c] = Idle]
        /\ UNCHANGED <<row, params, history, jobs, disturbed, faults>>
    BY DEF RecordHomologation, Goto
  <1> QED
    BY <1>1, <1>2, <1>4, IdleType, TableStepShape DEF Idle, Shape, TypeOK, LoadStages

LEMMA DeprecateShape ==
    ASSUME Shape, NEW p \in Profiles, Deprecate(p)
    PROVE  Shape'
  <1>1. TypeOK'
    BY DEF Deprecate, Shape, TypeOK
  <1>2. RowSound' /\ CallSound'
    BY DEF Deprecate, Shape, TypeOK, RowSound, CallSound
  <1> QED
    BY <1>1, <1>2 DEF Shape

\* A step that only makes jobs.
LEMMA JobStepShape ==
    ASSUME Shape, UNCHANGED <<tables, call, disturbed, faults>>, jobs' \subseteq Payload
    PROVE  Shape'
  <1>1. TypeOK'
    BY DEF Shape, TypeOK, tables
  <1>2. RowSound' /\ CallSound'
    BY DEF Shape, RowSound, CallSound, tables
  <1> QED
    BY <1>1, <1>2 DEF Shape

LEMMA RequestApplyShape ==
    ASSUME Shape, NEW c \in Calls, NEW p \in Profiles, NEW kind \in {"apply", "bulk"},
           RequestApply(c, p, kind)
    PROVE  Shape'
  <1> DEFINE r == [Idle EXCEPT !.at = "load", !.kind = kind, !.p = p]
  <1>1. r \in CallRecord /\ r.at = "load" /\ r.p = p /\ r.kind = kind
    BY IdleType DEF Idle, CallRecord, LoadStages
  <1>2. jobs' \subseteq Payload /\ disturbed' \subseteq Profiles /\ faults' \in Nat
    BY DEF RequestApply, Shape, TypeOK
  <1>3. UNCHANGED tables /\ call' = [call EXCEPT ![c] = r] /\ row[p] # Absent
    BY DEF RequestApply, tables
  <1> HIDE DEF r
  <1> QED
    BY <1>1, <1>2, <1>3, ConstantsAssumption, CallStepShape DEF LoadStages

LEMMA LoadProfileShape ==
    ASSUME Shape, NEW c \in Calls, LoadProfile(c)
    PROVE  Shape'
  <1> DEFINE r == [call[c] EXCEPT !.at = "loadparams", !.row = row[call[c].p]]
  <1>1. /\ call[c] \in CallRecord /\ call[c].p \in Profiles /\ call[c].p # NoProfile
        /\ row[call[c].p] # Absent /\ row[call[c].p] \in ProfileRow
        /\ call[c].kind \in {"apply", "bulk", "fields"}
    BY DEF LoadProfile, At, Shape, TypeOK, CallRecord, CallSound, LoadStages
  <1>2. row[call[c].p].header \in Headers
    BY <1>1, PresentHeader
  <1>3. /\ r \in CallRecord /\ r.at = "loadparams" /\ r.p = call[c].p /\ r.row = row[call[c].p]
        /\ r.kind = call[c].kind
    BY <1>1 DEF CallRecord, LoadStages
  <1>4. jobs' \subseteq Payload /\ disturbed' \subseteq Profiles /\ faults' \in Nat
    BY DEF LoadProfile, Shape, TypeOK
  <1>5. UNCHANGED tables /\ call' = [call EXCEPT ![c] = r]
    BY DEF LoadProfile
  <1> HIDE DEF r
  <1>6. r.at \notin {"idle", "find", "load"} => r.row.header \in Headers
    BY <1>2, <1>3
  <1> QED
    BY <1>1, <1>3, <1>4, <1>5, <1>6, CallStepShape DEF LoadStages

LEMMA LoadParametersShape ==
    ASSUME Shape, NEW c \in Calls, LoadParameters(c)
    PROVE  Shape'
  <1>1. call[c] \in CallRecord /\ call[c].at = "loadparams" /\ call[c].p \in Profiles
    BY DEF LoadParameters, At, Shape, TypeOK, CallRecord
  <1>2. params[call[c].p] \in ParameterSets
    BY <1>1 DEF Shape, TypeOK
  <1>3. \E at \in {"gate", "enqueue", "render"} :
            call' = [call EXCEPT ![c] = [call[c] EXCEPT !.at = at,
                                                   !.found = params[call[c].p]]]
    BY DEF LoadParameters
  <1>4. PICK at \in {"gate", "enqueue", "render"} :
            call' = [call EXCEPT ![c] = [call[c] EXCEPT !.at = at,
                             !.changed = call[c].changed, !.found = params[call[c].p]]]
    BY <1>1, <1>3 DEF CallRecord
  <1>5. jobs' \subseteq Payload /\ disturbed' \subseteq Profiles /\ faults' \in Nat
    BY DEF LoadParameters, Shape, TypeOK
  <1>6. at \in EditStages \cup LoadStages /\ at \notin {"insert", "find", "load"}
    BY <1>4 DEF LoadStages
  <1>7. UNCHANGED tables /\ call[c].changed \in SUBSET {"header", "active", "params"}
    BY <1>1 DEF LoadParameters, CallRecord
  <1> QED
    BY <1>1, <1>2, <1>4, <1>5, <1>6, <1>7, MoveShape DEF LoadStages

LEMMA HomologationGateShape ==
    ASSUME Shape, NEW c \in Calls, HomologationGate(c)
    PROVE  Shape'
  <1>1. call[c] \in CallRecord /\ call[c].at = "gate"
    BY DEF HomologationGate, At, Shape, TypeOK
  <1>2. UNCHANGED tables /\ jobs' \subseteq Payload /\ disturbed' \subseteq Profiles /\ faults' \in Nat
    BY DEF HomologationGate, Shape, TypeOK
  <1>3. CASE GateOpen(c)
    <2>1. call' = [call EXCEPT ![c] = [call[c] EXCEPT !.at = "render",
                         !.changed = call[c].changed, !.found = call[c].found]]
      BY <1>1, <1>3 DEF HomologationGate, Goto, CallRecord
    <2>2. /\ call[c].changed \in SUBSET {"header", "active", "params"}
          /\ call[c].found \in ParameterSets
      BY <1>1 DEF CallRecord
    <2>3. "render" \in EditStages \cup LoadStages
      BY DEF LoadStages
    <2> QED
      BY <1>1, <1>2, <2>1, <2>2, <2>3, MoveShape DEF LoadStages
  <1>4. CASE ~GateOpen(c)
    BY <1>2, <1>4, IdleStepShape DEF HomologationGate
  <1> QED
    BY <1>3, <1>4

\* What a job carries is made of what was loaded.
LEMMA RenderedParameters ==
    ASSUME NEW ps, NEW customer, NEW resolved \in RenderProfile(ps, customer)
    PROVE  resolved = ps
  BY DEF RenderProfile

LEMMA RenderJobShape ==
    ASSUME Shape, NEW c \in Calls, NEW customer \in BOOLEAN, NEW sameModel \in BOOLEAN,
           RenderJob(c, customer, sameModel)
    PROVE  Shape'
  <1> DEFINE cur == call[c]
             made(ps) == [p |-> cur.p, kind |-> cur.kind, header |-> cur.row.header,
                          version |-> cur.row.version, params |-> ps]
  <1>1. /\ cur \in CallRecord /\ cur.row \in ProfileRow /\ cur.p \in Profiles
        /\ cur.row.header \in Headers /\ cur.kind \in {"apply", "bulk", "fields"}
    BY DEF RenderJob, At, Shape, TypeOK, CallRecord, CallSound, LoadStages
  <1>2. jobs' \subseteq Payload
    <2>1. CASE UNCHANGED jobs
      BY <2>1 DEF Shape, TypeOK
    <2>2. CASE \E resolved \in RenderProfile(cur.found, customer) : jobs' = {made(resolved)}
      <3>1. jobs' = {made(cur.found)}
        BY <2>2, RenderedParameters
      <3> QED
        BY <1>1, <3>1 DEF Payload, CallRecord, ProfileRow
    <2> QED
      BY <2>1, <2>2 DEF RenderJob
  <1>3. UNCHANGED <<tables, disturbed, faults>>
    BY DEF RenderJob
  <1>4. CASE UNCHANGED call
    BY <1>2, <1>3, <1>4, JobStepShape
  <1>5. CASE Goto(c, "idle")
    BY <1>2, <1>3, <1>5, IdleStepShape DEF Shape, TypeOK
  <1> QED
    BY <1>4, <1>5 DEF RenderJob

LEMMA RequestFieldsShape ==
    ASSUME Shape, NEW c \in Calls, RequestFields(c)
    PROVE  Shape'
  <1> DEFINE r == [Idle EXCEPT !.at = "find", !.kind = "fields"]
  <1>1. r \in CallRecord /\ r.at = "find" /\ r.p = NoProfile /\ r.kind = "fields"
    BY IdleType DEF Idle, CallRecord, LoadStages
  <1>2. jobs' \subseteq Payload /\ disturbed' \subseteq Profiles /\ faults' \in Nat
    BY DEF RequestFields, Shape, TypeOK
  <1>3. UNCHANGED tables /\ call' = [call EXCEPT ![c] = r]
    BY DEF RequestFields
  <1> HIDE DEF r
  <1> QED
    BY <1>1, <1>2, <1>3, CallStepShape

LEMMA FindActiveByModelShape ==
    ASSUME Shape, NEW c \in Calls, FindActiveByModel(c)
    PROVE  Shape'
  <1>1. /\ UNCHANGED tables /\ jobs' \subseteq Payload /\ disturbed' \subseteq Profiles
        /\ faults' \in Nat
    BY DEF FindActiveByModel, Shape, TypeOK
  <1>2. CASE Goto(c, "idle")
    BY <1>1, <1>2, IdleStepShape
  <1>3. ASSUME NEW p \in HomologatedProfiles,
               call' = [call EXCEPT ![c] = [@ EXCEPT !.at = "load", !.p = p]]
        PROVE  Shape'
    <2> DEFINE r == [call[c] EXCEPT !.at = "load", !.p = p]
    <2>1. call[c] \in CallRecord /\ call[c].kind \in {"apply", "bulk", "fields"}
      BY DEF FindActiveByModel, At, Shape, TypeOK, CallSound, LoadStages
    <2>2. p \in Profiles /\ p # NoProfile /\ row[p] # Absent
      BY <1>3, ConstantsAssumption DEF HomologatedProfiles, Shape, RowSound
    <2>3. r \in CallRecord /\ r.at = "load" /\ r.p = p /\ r.kind = call[c].kind
      BY <2>1, <2>2 DEF CallRecord, LoadStages
    <2>4. call' = [call EXCEPT ![c] = r]
      BY <1>3
    <2> HIDE DEF r
    <2> QED
      BY <1>1, <2>1, <2>2, <2>3, <2>4, CallStepShape
  <1> QED
    BY <1>2, <1>3 DEF FindActiveByModel

LEMMA EnqueueFieldsShape ==
    ASSUME Shape, NEW c \in Calls, NEW written, NEW form, NEW blank, NEW numbers,
           EnqueueFields(c, written, form, blank, numbers)
    PROVE  Shape'
  <1> DEFINE cur  == call[c]
             sent == {p \in cur.found : p.key \in form \ blank}
             made == [p |-> cur.p, kind |-> cur.kind, header |-> cur.row.header,
                      version |-> 0, params |-> sent]
  <1>1. /\ cur \in CallRecord /\ cur.p \in Profiles
        /\ cur.row.header \in Headers /\ cur.kind \in {"apply", "bulk", "fields"}
    BY DEF EnqueueFields, At, Shape, TypeOK, CallRecord, CallSound, LoadStages
  <1>2. sent \in ParameterSets
    BY <1>1 DEF CallRecord, ParameterSets
  <1>3. made \in Payload
    <2> HIDE DEF sent
    <2> QED
      BY <1>1, <1>2 DEF Payload
  <1>4. jobs' \subseteq Payload
    <2>1. jobs' = {made} \/ jobs' = jobs
      BY DEF EnqueueFields
    <2> HIDE DEF made
    <2> QED
      BY <1>3, <2>1 DEF Shape, TypeOK
  <1> QED
    BY <1>4, IdleStepShape DEF EnqueueFields, Shape, TypeOK

LEMMA StatementFailsShape ==
    ASSUME Shape, NEW c \in Calls, StatementFails(c)
    PROVE  Shape'
  <1>1. faults' \in Nat /\ jobs' \subseteq Payload /\ UNCHANGED tables /\ Goto(c, "idle")
    BY DEF StatementFails, Shape, TypeOK
  <1>2. disturbed' \subseteq Profiles
    BY DEF StatementFails, Shape, TypeOK, CallRecord
  <1> QED
    BY <1>1, <1>2, IdleStepShape

LEMMA ShapeStep == Shape /\ [Next]_vars => Shape'
  <1> SUFFICES ASSUME Shape, [Next]_vars PROVE Shape'
    OBVIOUS
  <1>1. CASE UNCHANGED vars
    BY <1>1, JobStepShape DEF vars, tables, Shape, TypeOK
  <1>2. ASSUME NEW c \in Calls, Requests(c) PROVE Shape'
    BY <1>2, RequestCreateShape, RequestUpdateShape, RequestApplyShape, RequestFieldsShape
       DEF Requests
  <1>3. ASSUME NEW c \in Calls, Edit(c) PROVE Shape'
    BY <1>3, InsertProfileShape, FillProfileShape, GetProfileShape, CompareParametersShape,
       UpdateProfileShape, ReplaceParametersShape, IncrementVersionShape, ReadSnapshotShape,
       AppendHistoryShape, RecordHomologationShape DEF Edit
  <1>4. ASSUME NEW c \in Calls, Apply(c) PROVE Shape'
    BY <1>4, LoadProfileShape, LoadParametersShape, HomologationGateShape, RenderJobShape,
       FindActiveByModelShape, EnqueueFieldsShape DEF Apply, UpdateFields
  <1>5. ASSUME NEW c \in Calls, StatementFails(c) PROVE Shape'
    BY <1>5, StatementFailsShape
  <1>6. ASSUME NEW p \in Profiles, Deprecate(p) PROVE Shape'
    BY <1>6, DeprecateShape
  <1> QED
    BY <1>1, <1>2, <1>3, <1>4, <1>5, <1>6 DEF Next

LEMMA ShapeInit == Init => Shape
  BY AbsentType, IdleType DEF Init, Shape, TypeOK, RowSound, CallSound, Idle, LoadStages,
     ParameterSets

\* The types of the tables and of what the requests in flight have read, for any
\* number of them.
THEOREM TypeCorrect == Spec => []TypeOK
  <1>1. Shape => TypeOK
    BY DEF Shape
  <1> QED
    BY <1>1, ShapeInit, ShapeStep, PTL DEF Spec

-----------------------------------------------------------------------------
(* What has been homologated does not change.                              *)

\* The flag of the row decides: it is set when the row is inserted and never again.
\* An edit that saw it set has only is_active left to write; an edit that will
\* replace the parameters saw it clear; and a profile still to be filled has no
\* record.
EditFits(r) ==
    /\ r.at \in {"list", "update"} => r.row.homologated = row[r.p].homologated
    /\ r.at = "list" /\ row[r.p].homologated /\ "header" \notin r.changed
           => r.row.header = row[r.p].header
    /\ r.at = "update" /\ row[r.p].homologated
           => r.row.header = row[r.p].header /\ r.changed = {}
    /\ r.at = "replace" => ~row[r.p].homologated
    /\ r.at = "fill" => record[r.p] = "none" /\ (row[r.p].homologated => params[r.p] = {})
    /\ r.at \in EditStages => r.kind \in {"edit", "wizard"}
    /\ r.at = "record" => r.kind = "wizard"
    /\ r.at = "insert" /\ r.kind = "wizard" => r.row.homologated
    /\ r.kind = "wizard" /\ r.p # NoProfile => row[r.p].homologated

\* What a load holds of a homologated profile is what it is, or, when the profile
\* was read before it was filled, nothing.
LoadFits(r) ==
    /\ r.kind = "fields" /\ r.p # NoProfile => record[r.p] # "none"
    /\ r.at = "enqueue" => r.kind = "fields" /\ r.found = params[r.p]
    /\ r.at \in {"gate", "render"} => r.kind # "fields"
    /\ r.at \in {"gate", "render"} /\ row[r.p].homologated => r.found \in {{}, params[r.p]}
    /\ r.at = "render" /\ r.kind = "bulk" /\ r.row.header \notin Generic
           => record[r.p] # "none"

\* The call that makes the profile it names; there is one for each profile.
Creates(r) == r.at = "fill" \/ (r.kind = "wizard" /\ r.p # NoProfile)

ProfileSound ==
    \A p \in Profiles : /\ record[p] # "none" => row[p].homologated
                        /\ row[p] = Absent => params[p] = {}

CallsFit == \A c \in Calls : EditFits(call[c]) /\ LoadFits(call[c])

CreatorsAlone ==
    \A c, d \in Calls :
        Creates(call[c]) /\ Creates(call[d]) /\ call[c].p = call[d].p => c = d

JobsSound == BulkIsHomologated /\ FieldsAreHomologated

Sound == ProfileSound /\ CallsFit /\ CreatorsAlone /\ JobsSound

LEMMA IdleFits == EditFits(Idle) /\ LoadFits(Idle) /\ ~Creates(Idle)
  BY DEF Idle, EditFits, LoadFits, Creates, EditStages

LEMMA NoJobs == jobs' = {} => JobsSound'
  BY DEF JobsSound, BulkIsHomologated, FieldsAreHomologated

LEMMA SameJobs == JobsSound /\ UNCHANGED <<params, record, jobs>> => JobsSound'
  BY DEF JobsSound, BulkIsHomologated, FieldsAreHomologated

LEMMA CallStepSound ==
    ASSUME Shape, Sound, NEW c \in Calls, UNCHANGED <<row, params, record>>,
           NEW r, call' = [call EXCEPT ![c] = r], EditFits(r), LoadFits(r),
           Creates(r) => Creates(call[c]) /\ r.p = call[c].p,
           JobsSound'
    PROVE  Sound'
  <1>1. \A d \in Calls : call'[d] = IF d = c THEN r ELSE call[d]
    BY DEF Shape, TypeOK
  <1>2. ProfileSound'
    BY DEF Sound, ProfileSound
  <1>3. CallsFit'
    BY <1>1 DEF Sound, CallsFit, EditFits, LoadFits
  <1>4. CreatorsAlone'
    BY <1>1 DEF Sound, CreatorsAlone
  <1> QED
    BY <1>2, <1>3, <1>4 DEF Sound

LEMMA IdleStepSound ==
    ASSUME Shape, Sound, NEW c \in Calls, UNCHANGED <<row, params, record>>, Goto(c, "idle"), JobsSound'
    PROVE  Sound'
  <1>1. call' = [call EXCEPT ![c] = Idle]
    BY DEF Goto
  <1> QED
    BY <1>1, IdleFits, CallStepSound

\* A step that writes a table must keep the flag, and the header and parameters of a
\* flagged profile; then what the other calls hold goes on to fit.
LEMMA OthersFit ==
    ASSUME Shape, Sound, NEW p \in Profiles, UNCHANGED record,
           \A q \in Profiles : q # p => row'[q] = row[q] /\ params'[q] = params[q],
           row'[p].homologated = row[p].homologated,
           row[p].homologated => /\ row'[p].header = row[p].header
                                 /\ params'[p] = params[p] \/ params[p] = {},
           params'[p] = params[p] \/ record[p] = "none",
           NEW d \in Calls, call'[d] = call[d],
           call[d].at = "fill" /\ row[p].homologated => call[d].p # p \/ params'[p] = params[p]
    PROVE  (EditFits(call[d]) /\ LoadFits(call[d]))'
  <1>1. EditFits(call[d]) /\ LoadFits(call[d])
    BY DEF Sound, CallsFit
  <1>2. \/ call[d].p \in Profiles
        \/ call[d].at \in {"idle", "insert", "find"} /\ call[d].p = NoProfile
    <2>1. call[d].p \in Profiles \cup {NoProfile}
      BY DEF Shape, TypeOK, CallRecord
    <2>2. TypeOK
      BY DEF Shape
    <2>3. call[d].p = NoProfile => call[d].at \in {"idle", "insert", "find"}
      BY <2>2 DEF TypeOK
    <2> QED
      BY <2>1, <2>3
  <1>3. CASE call[d].p = p
    <2>1. EditFits(call[d])'
      BY <1>1, <1>3 DEF EditFits
    <2>2. LoadFits(call[d])'
      BY <1>1, <1>3, ConstantsAssumption DEF LoadFits
    <2> QED
      BY <2>1, <2>2
  <1>4. CASE call[d].p \in Profiles /\ call[d].p # p
    BY <1>1, <1>4 DEF EditFits, LoadFits
  <1>5. CASE call[d].at \in {"idle", "insert", "find"} /\ call[d].p = NoProfile
    BY <1>1, <1>5 DEF EditFits, LoadFits
  <1> QED
    BY <1>2, <1>3, <1>4, <1>5

\* Such a step, with the call it moves.
LEMMA TableStepSound ==
    ASSUME Shape, Sound, NEW c \in Calls, NEW p \in Profiles, UNCHANGED record,
           \A q \in Profiles : q # p => row'[q] = row[q] /\ params'[q] = params[q],
           row'[p].homologated = row[p].homologated, row'[p] # Absent,
           row[p].homologated => /\ row'[p].header = row[p].header
                                 /\ params'[p] = params[p] \/ params[p] = {},
           params'[p] = params[p] \/ record[p] = "none",
           \A d \in Calls : call[d].at = "fill" /\ d # c /\ row[p].homologated
               => call[d].p # p \/ params'[p] = params[p],
           NEW r, call' = [call EXCEPT ![c] = r], EditFits(r)', LoadFits(r)',
           Creates(r) => Creates(call[c]) /\ r.p = call[c].p,
           UNCHANGED jobs
    PROVE  Sound'
  <1>1. \A d \in Calls : call'[d] = IF d = c THEN r ELSE call[d]
    BY DEF Shape, TypeOK
  <1>2. ProfileSound'
    BY DEF Sound, ProfileSound
  <1>3. CallsFit'
    <2> SUFFICES ASSUME NEW d \in Calls PROVE (EditFits(call[d]) /\ LoadFits(call[d]))'
      BY DEF CallsFit
    <2>1. CASE d = c
      <3>1. call'[d] = r
        BY <1>1, <2>1
      <3> QED
        BY <3>1 DEF EditFits, LoadFits
    <2>2. CASE d # c
      BY <1>1, <2>2, OthersFit
    <2> QED
      BY <2>1, <2>2
  <1>4. CreatorsAlone'
    BY <1>1 DEF Sound, CreatorsAlone
  <1>5. JobsSound'
    <2>2. \A q \in Profiles : record[q] # "none" => params'[q] = params[q]
      OBVIOUS
    <2>3. \A j \in jobs : j.p \in Profiles
      BY DEF Shape, TypeOK, Payload
    <2> QED
      BY <2>2, <2>3 DEF Sound, JobsSound, BulkIsHomologated, FieldsAreHomologated
  <1> QED
    BY <1>2, <1>3, <1>4, <1>5 DEF Sound

LEMMA RequestsSound ==
    ASSUME Shape, Sound, NEW c \in Calls, Requests(c)
    PROVE  Sound'
  <1>1. UNCHANGED <<row, params, record>> /\ JobsSound'
    BY NoJobs DEF Requests, RequestCreate, RequestUpdate, RequestApply, RequestFields, tables
  <1>2. ASSUME NEW h \in Headers, NEW ps \in Contents, NEW kind \in {"edit", "wizard"},
               RequestCreate(c, h, ps, kind)
        PROVE  Sound'
    <2> DEFINE r == [Idle EXCEPT !.at = "insert", !.kind = kind, !.params = ps,
                       !.row = [header |-> h, version |-> 1, active |-> TRUE,
                                homologated |-> kind = "wizard"]]
    <2>1. EditFits(r) /\ LoadFits(r) /\ ~Creates(r)
      BY DEF Idle, EditFits, LoadFits, Creates, EditStages
    <2>2. call' = [call EXCEPT ![c] = r]
      BY <1>2 DEF RequestCreate
    <2> HIDE DEF r
    <2> QED
      BY <1>1, <2>1, <2>2, CallStepSound
  <1>3. ASSUME NEW p \in Profiles, NEW h \in Headers, NEW active \in BOOLEAN,
               NEW ps \in Contents, RequestUpdate(c, p, h, active, ps)
        PROVE  Sound'
    <2> DEFINE r == [Idle EXCEPT !.at = "get", !.p = p, !.params = ps,
                       !.row = [Absent EXCEPT !.header = h, !.active = active]]
    <2>1. EditFits(r) /\ LoadFits(r) /\ ~Creates(r)
      BY DEF Idle, EditFits, LoadFits, Creates, EditStages
    <2>2. call' = [call EXCEPT ![c] = r]
      BY <1>3 DEF RequestUpdate
    <2> HIDE DEF r
    <2> QED
      BY <1>1, <2>1, <2>2, CallStepSound
  <1>4. ASSUME NEW p \in Profiles, NEW kind \in {"apply", "bulk"}, RequestApply(c, p, kind)
        PROVE  Sound'
    <2> DEFINE r == [Idle EXCEPT !.at = "load", !.kind = kind, !.p = p]
    <2>1. EditFits(r) /\ LoadFits(r) /\ ~Creates(r)
      BY DEF Idle, EditFits, LoadFits, Creates, EditStages
    <2>2. call' = [call EXCEPT ![c] = r]
      BY <1>4 DEF RequestApply
    <2> HIDE DEF r
    <2> QED
      BY <1>1, <2>1, <2>2, CallStepSound
  <1>5. ASSUME RequestFields(c) PROVE Sound'
    <2> DEFINE r == [Idle EXCEPT !.at = "find", !.kind = "fields"]
    <2>1. EditFits(r) /\ LoadFits(r) /\ ~Creates(r)
      BY DEF Idle, EditFits, LoadFits, Creates, EditStages
    <2>2. call' = [call EXCEPT ![c] = r]
      BY <1>5 DEF RequestFields
    <2> HIDE DEF r
    <2> QED
      BY <1>1, <2>1, <2>2, CallStepSound
  <1> QED
    BY <1>2, <1>3, <1>4, <1>5 DEF Requests

LEMMA FillProfileSound ==
    ASSUME Shape, Sound, NEW c \in Calls, FillProfile(c)
    PROVE  Sound'
  <1> DEFINE p == call[c].p
  <1>0. PICK r : r = [call[c] EXCEPT !.at = "relist", !.params = {}]
    OBVIOUS
  <1>1. call[c] \in CallRecord /\ call[c].at = "fill" /\ p \in Profiles /\ row[p] # Absent
    BY DEF FillProfile, At, Shape, TypeOK, CallRecord, CallSound
  <1>2. EditFits(call[c]) /\ LoadFits(call[c]) /\ Creates(call[c])
    BY <1>1 DEF Sound, CallsFit, Creates
  <1>3. record[p] = "none" /\ (row[p].homologated => params[p] = {})
    BY <1>1, <1>2 DEF EditFits
  <1>4. \A d \in Calls : call[d].at = "fill" /\ d # c => call[d].p # p
    BY <1>2 DEF Sound, CreatorsAlone, Creates
  <1>5. /\ call' = [call EXCEPT ![c] = r] /\ UNCHANGED <<row, record, jobs>>
        /\ \A q \in Profiles : q # p => params'[q] = params[q]
    BY <1>0 DEF FillProfile, Shape, TypeOK
  <1>6. r.at = "relist" /\ r.kind = call[c].kind /\ r.p = p
    BY <1>0, <1>1 DEF CallRecord
  <1> HIDE DEF p
  <1>7. EditFits(r)' /\ LoadFits(r)'
    <2>1. EditFits(r)'
      BY <1>1, <1>2, <1>5, <1>6 DEF EditFits, EditStages, p
    <2>2. LoadFits(r)'
      BY <1>2, <1>5, <1>6 DEF LoadFits, p
    <2> QED
      BY <2>1, <2>2
  <1>8. Creates(r) => Creates(call[c]) /\ r.p = call[c].p
    BY <1>2, <1>6 DEF p
  <1> QED
    BY <1>1, <1>3, <1>4, <1>5, <1>7, <1>8, TableStepSound, ZenonT(60)

LEMMA UpdateProfileSound ==
    ASSUME Shape, Sound, NEW c \in Calls, UpdateProfile(c)
    PROVE  Sound'
  <1> DEFINE p  == call[c].p
             to == IF call[c].changed = {} THEN "bump" ELSE "replace"
             w  == [call[c].row EXCEPT !.homologated = row[p].homologated]
  <1>0. PICK r : r = [call[c] EXCEPT !.at = to]
    OBVIOUS
  <1>1. CASE Taken(call[c].row.header, p)
    BY <1>1, IdleStepSound, SameJobs DEF UpdateProfile, tables, Sound
  <1>2. CASE ~Taken(call[c].row.header, p)
    <2>1. /\ call[c] \in CallRecord /\ call[c].row \in ProfileRow /\ call[c].at = "update"
          /\ p \in Profiles /\ call[c].row.header \in Headers
      BY DEF UpdateProfile, At, Shape, TypeOK, CallRecord, CallSound
    <2>2. EditFits(call[c]) /\ LoadFits(call[c])
      BY DEF Sound, CallsFit
    <2>3. row[p].homologated => call[c].row.header = row[p].header /\ call[c].changed = {}
      BY <2>1, <2>2 DEF EditFits
    <2>4. w.header = call[c].row.header /\ w.homologated = row[p].homologated
      BY <2>1 DEF ProfileRow
    <2>5. w # Absent
      BY <2>1, <2>4, ConstantsAssumption DEF Absent
    <2>6. /\ r.at = to /\ r.p = p /\ r.kind = call[c].kind
      BY <1>0, <2>1 DEF CallRecord
    <2>7. /\ row' = [row EXCEPT ![p] = w] /\ call' = [call EXCEPT ![c] = r]
          /\ UNCHANGED <<params, record, jobs>>
      BY <1>0, <1>2 DEF UpdateProfile, Goto
    <2>8. row'[p] = w /\ \A q \in Profiles : q # p => row'[q] = row[q]
      BY <2>1, <2>7 DEF Shape, TypeOK
    <2> HIDE DEF w
    <2>9. EditFits(r)'
      BY <2>1, <2>2, <2>3, <2>4, <2>6, <2>8 DEF EditFits, EditStages
    <2>10. LoadFits(r)'
      BY <2>2, <2>6, <2>7 DEF LoadFits
    <2>11. Creates(r) => Creates(call[c]) /\ r.p = call[c].p
      BY <2>6 DEF Creates
    <2> HIDE DEF to, p
    <2> QED
      BY <2>1, <2>3, <2>4, <2>5, <2>7, <2>8, <2>9, <2>10, <2>11, TableStepSound
  <1> QED
    BY <1>1, <1>2

LEMMA InsertProfileSound ==
    ASSUME Shape, Sound, NEW c \in Calls, NEW p \in Profiles, InsertProfile(c, p)
    PROVE  Sound'
  <1>0. PICK r : r = [call[c] EXCEPT !.at = "fill", !.p = p]
    OBVIOUS
  <1>1. CASE Taken(call[c].row.header, p)
    BY <1>1, IdleStepSound, SameJobs DEF InsertProfile, tables, Sound
  <1>2. CASE ~Taken(call[c].row.header, p)
    <2> DEFINE w == call[c].row
    <2>1. /\ call[c] \in CallRecord /\ call[c].at = "insert" /\ row[p] = Absent
          /\ w.header \in Headers /\ p # NoProfile
      BY ConstantsAssumption DEF InsertProfile, At, Shape, TypeOK, CallRecord, CallSound
    <2>2. r.at = "fill" /\ r.p = p /\ r.kind = call[c].kind
      BY <1>0, <2>1 DEF CallRecord
    <2>3. EditFits(call[c]) /\ LoadFits(call[c]) /\ r.kind # "fields"
      BY <2>1, <2>2 DEF Sound, CallsFit, EditFits, EditStages
    <2>4. /\ row' = [row EXCEPT ![p] = w] /\ call' = [call EXCEPT ![c] = r]
          /\ UNCHANGED <<params, record, jobs>>
      BY <1>0, <1>2 DEF InsertProfile
    <2>5. row'[p] = w /\ \A q \in Profiles : q # p => row'[q] = row[q]
      BY <2>4 DEF Shape, TypeOK
    <2>6. record[p] = "none" /\ params[p] = {} /\ ~row[p].homologated
      <3>1. Absent.homologated = FALSE
        BY DEF Absent
      <3>2. record[p] = "none" /\ params[p] = {}
        BY <2>1 DEF Shape, RowSound, Sound, ProfileSound
      <3> QED
        BY <2>1, <3>1, <3>2
    <2>7. \A d \in Calls : call[d].p # p
      BY <2>1 DEF Shape, CallSound
    <2>8. \A d \in Calls : call'[d] = IF d = c THEN r ELSE call[d]
      BY <2>4 DEF Shape, TypeOK
    <2>9. ProfileSound'
      BY <2>1, <2>4, <2>5, <2>6 DEF Sound, ProfileSound
    <2>10. CallsFit'
      <3> SUFFICES ASSUME NEW d \in Calls PROVE (EditFits(call[d]) /\ LoadFits(call[d]))'
        BY DEF CallsFit
      <3>1. CASE d = c
        <4>1. call'[d] = r
          BY <2>8, <3>1
        <4>2. EditFits(call[d])'
          BY <2>1, <2>2, <2>3, <2>4, <2>5, <2>6, <4>1 DEF EditFits, EditStages
        <4>3. LoadFits(call[d])'
          BY <2>2, <2>3, <4>1 DEF LoadFits
        <4> QED
          BY <4>2, <4>3
      <3>2. CASE d # c
        <4>1. call'[d] = call[d] /\ call[d].p # p
          BY <2>7, <2>8, <3>2
        <4>2. EditFits(call[d]) /\ LoadFits(call[d])
          BY DEF Sound, CallsFit
        <4>3. call[d].p = NoProfile => call[d].at \in {"idle", "insert", "find"}
          <5>1. TypeOK
            BY DEF Shape
          <5> QED
            BY <5>1 DEF TypeOK
        <4>4. call[d].p \in Profiles \cup {NoProfile}
          BY DEF Shape, TypeOK, CallRecord
        <4>5. call[d].p \in Profiles => row'[call[d].p] = row[call[d].p]
          BY <2>5, <4>1
        <4>6. EditFits(call[d])'
          BY <2>4, <4>1, <4>2, <4>3, <4>4, <4>5 DEF EditFits
        <4>7. LoadFits(call[d])'
          BY <2>4, <4>1, <4>2, <4>3, <4>4, <4>5 DEF LoadFits
        <4> QED
          BY <4>6, <4>7
      <3> QED
        BY <3>1, <3>2
    <2>11. CreatorsAlone'
      BY <2>2, <2>7, <2>8 DEF Sound, CreatorsAlone
    <2>12. JobsSound'
      BY <2>4 DEF Sound, JobsSound, BulkIsHomologated, FieldsAreHomologated
    <2> QED
      BY <2>9, <2>10, <2>11, <2>12 DEF Sound
  <1> QED
    BY <1>1, <1>2

LEMMA ReplaceParametersSound ==
    ASSUME Shape, Sound, NEW c \in Calls, ReplaceParameters(c)
    PROVE  Sound'
  <1> DEFINE p == call[c].p
  <1>0. PICK r : r = [call[c] EXCEPT !.at = "bump"]
    OBVIOUS
  <1>1. call[c] \in CallRecord /\ call[c].at = "replace" /\ p \in Profiles /\ row[p] # Absent
    BY DEF ReplaceParameters, At, Shape, TypeOK, CallRecord, CallSound
  <1>2. EditFits(call[c]) /\ LoadFits(call[c])
    BY DEF Sound, CallsFit
  <1>3. ~row[p].homologated
    BY <1>1, <1>2 DEF EditFits
  <1>4. record[p] = "none"
    BY <1>1, <1>3 DEF Sound, ProfileSound
  <1>5. /\ call' = [call EXCEPT ![c] = r] /\ UNCHANGED <<row, record, jobs>>
        /\ \A q \in Profiles : q # p => params'[q] = params[q]
    BY <1>0 DEF ReplaceParameters, Goto, Shape, TypeOK
  <1>6. r.at = "bump" /\ r.kind = call[c].kind /\ r.p = p
    BY <1>0, <1>1 DEF CallRecord
  <1> HIDE DEF p
  <1>7. EditFits(r)' /\ LoadFits(r)'
    <2>1. EditFits(r)'
      BY <1>1, <1>2, <1>5, <1>6 DEF EditFits, EditStages, p
    <2>2. LoadFits(r)'
      BY <1>2, <1>4, <1>5, <1>6 DEF LoadFits, p
    <2> QED
      BY <2>1, <2>2
  <1>8. Creates(r) => Creates(call[c]) /\ r.p = call[c].p
    BY <1>6 DEF Creates, p
  <1> QED
    BY <1>1, <1>3, <1>4, <1>5, <1>7, <1>8, TableStepSound

LEMMA IncrementVersionSound ==
    ASSUME Shape, Sound, NEW c \in Calls, IncrementVersion(c)
    PROVE  Sound'
  <1> DEFINE p == call[c].p
             w == [row[p] EXCEPT !.version = @ + 1]
  <1>0. PICK r : r = [call[c] EXCEPT !.at = "relist", !.params = {}, !.changed = {},
                        !.row = [call[c].row EXCEPT !.version = row[p].version + 1]]
    OBVIOUS
  <1>1. /\ call[c] \in CallRecord /\ call[c].at = "bump" /\ p \in Profiles
        /\ row[p] # Absent /\ row[p] \in ProfileRow
    BY DEF IncrementVersion, At, Shape, TypeOK, CallRecord, CallSound
  <1>2. EditFits(call[c]) /\ LoadFits(call[c])
    BY DEF Sound, CallsFit
  <1>3. w.header = row[p].header /\ w.homologated = row[p].homologated
    BY <1>1 DEF ProfileRow
  <1>4. row[p].header # NoHeader
    BY <1>1 DEF Shape, RowSound
  <1>5. w # Absent
    BY <1>3, <1>4 DEF Absent
  <1>6. /\ row' = [row EXCEPT ![p] = w] /\ UNCHANGED <<params, record, jobs>>
    BY DEF IncrementVersion
  <1>7. call' = [call EXCEPT ![c] = r]
    BY <1>0, <1>1 DEF IncrementVersion, CallRecord
  <1>8. row'[p] = w /\ \A q \in Profiles : q # p => row'[q] = row[q]
    BY <1>1, <1>6 DEF Shape, TypeOK
  <1>9. r.at = "relist" /\ r.kind = call[c].kind /\ r.p = p
    BY <1>0, <1>1 DEF CallRecord
  <1> HIDE DEF w
  <1>10. EditFits(r)'
    BY <1>1, <1>2, <1>3, <1>8, <1>9 DEF EditFits, EditStages
  <1>11. LoadFits(r)'
    BY <1>2, <1>6, <1>9 DEF LoadFits
  <1>12. Creates(r) => Creates(call[c]) /\ r.p = call[c].p
    BY <1>9 DEF Creates
  <1> HIDE DEF p
  <1> QED
    BY <1>1, <1>3, <1>5, <1>6, <1>7, <1>8, <1>10, <1>11, <1>12, TableStepSound

LEMMA GetProfileSound ==
    ASSUME Shape, Sound, NEW c \in Calls, GetProfile(c)
    PROVE  Sound'
  <1> DEFINE cur == row[call[c].p]
             u   == [call[c].row EXCEPT !.version = cur.version,
                                        !.homologated = cur.homologated]
             changed == {f \in {"header", "active"} : call[c].row[f] # cur[f]}
  <1>0. PICK r : r = [call[c] EXCEPT !.at = "list", !.row = u, !.changed = changed]
    OBVIOUS
  <1>1. call[c] \in CallRecord /\ call[c].row \in ProfileRow /\ call[c].at = "get"
    BY DEF GetProfile, At, Shape, TypeOK, CallRecord
  <1>2. EditFits(call[c]) /\ LoadFits(call[c])
    BY DEF Sound, CallsFit
  <1>3. u.header = call[c].row.header /\ u.homologated = cur.homologated
    BY <1>1 DEF ProfileRow
  <1>4. "header" \notin changed => u.header = cur.header
    BY <1>3
  <1>5. call' = [call EXCEPT ![c] = r]
    BY <1>0, <1>1 DEF GetProfile, CallRecord, ProfileRow
  <1>6. UNCHANGED <<row, params, record, jobs>>
    BY DEF GetProfile, tables
  <1>7. /\ r.at = "list" /\ r.kind = call[c].kind /\ r.p = call[c].p
        /\ r.row = u /\ r.changed = changed
    BY <1>0, <1>1 DEF CallRecord
  <1> HIDE DEF u, changed
  <1>8. EditFits(r)
    BY <1>1, <1>2, <1>3, <1>4, <1>7 DEF EditFits, EditStages
  <1>9. LoadFits(r)
    BY <1>2, <1>7 DEF LoadFits
  <1>10. Creates(r) => Creates(call[c]) /\ r.p = call[c].p
    BY <1>7 DEF Creates
  <1> QED
    BY <1>5, <1>6, <1>8, <1>9, <1>10, SameJobs, CallStepSound DEF Sound

LEMMA CompareParametersSound ==
    ASSUME Shape, Sound, NEW c \in Calls, CompareParameters(c)
    PROVE  Sound'
  <1> DEFINE p == call[c].p
             changed == call[c].changed \cup
                        IF params[p] = call[c].params THEN {} ELSE {"params"}
  <1>0. PICK r : r = [call[c] EXCEPT !.at = "update", !.changed = changed \cap {"params"}]
    OBVIOUS
  <1>1. call[c] \in CallRecord /\ call[c].at = "list"
    BY DEF CompareParameters, At, Shape, TypeOK
  <1>2. EditFits(call[c]) /\ LoadFits(call[c])
    BY DEF Sound, CallsFit
  <1>3. UNCHANGED <<row, params, record, jobs>>
    BY DEF CompareParameters, tables
  <1>4. CASE changed = {} \/ ~Allowed(c, changed)
    BY <1>3, <1>4, IdleStepSound, SameJobs DEF CompareParameters, Sound
  <1>5. CASE ~(changed = {} \/ ~Allowed(c, changed))
    <2>1. call' = [call EXCEPT ![c] = r]
      BY <1>0, <1>5 DEF CompareParameters
    <2>2. /\ r.at = "update" /\ r.kind = call[c].kind /\ r.p = p /\ r.row = call[c].row
          /\ r.changed = changed \cap {"params"}
      BY <1>0, <1>1 DEF CallRecord
    <2>3. row[p].homologated => changed \subseteq {"active"}
      BY <1>1, <1>2, <1>5 DEF EditFits, Allowed
    <2>4. row[p].homologated => call[c].row.header = row[p].header /\ r.changed = {}
      BY <1>1, <1>2, <2>2, <2>3 DEF EditFits
    <2> HIDE DEF changed
    <2>5. EditFits(r)
      BY <1>1, <1>2, <2>2, <2>4 DEF EditFits, EditStages
    <2>6. LoadFits(r)
      BY <1>2, <2>2 DEF LoadFits
    <2>7. Creates(r) => Creates(call[c]) /\ r.p = call[c].p
      BY <2>2 DEF Creates
    <2> QED
      BY <1>3, <2>1, <2>5, <2>6, <2>7, SameJobs, CallStepSound DEF Sound
  <1> QED
    BY <1>4, <1>5

LEMMA ReadSnapshotSound ==
    ASSUME Shape, Sound, NEW c \in Calls, ReadSnapshot(c)
    PROVE  Sound'
  <1>1. call[c] \in CallRecord /\ call[c].at = "relist"
    BY DEF ReadSnapshot, At, Shape, TypeOK
  <1>2. EditFits(call[c]) /\ LoadFits(call[c])
    BY DEF Sound, CallsFit
  <1>3. UNCHANGED <<row, params, record, jobs>>
    BY DEF ReadSnapshot, tables
  <1>4. PICK found : call' = [call EXCEPT ![c] = [call[c] EXCEPT !.at = "append",
                                                                 !.found = found]]
    BY DEF ReadSnapshot
  <1>5. PICK r : r = [call[c] EXCEPT !.at = "append", !.found = found]
    OBVIOUS
  <1>6. r.at = "append" /\ r.kind = call[c].kind /\ r.p = call[c].p
    BY <1>1, <1>5 DEF CallRecord
  <1>7. EditFits(r)
    BY <1>1, <1>2, <1>6 DEF EditFits, EditStages
  <1>8. LoadFits(r)
    BY <1>2, <1>6 DEF LoadFits
  <1>9. Creates(r) => Creates(call[c]) /\ r.p = call[c].p
    BY <1>6 DEF Creates
  <1> QED
    BY <1>3, <1>4, <1>5, <1>7, <1>8, <1>9, SameJobs, CallStepSound DEF Sound

LEMMA AppendHistorySound ==
    ASSUME Shape, Sound, NEW c \in Calls, AppendHistory(c)
    PROVE  Sound'
  <1>1. call[c] \in CallRecord /\ call[c].at = "append"
    BY DEF AppendHistory, At, Shape, TypeOK
  <1>2. EditFits(call[c]) /\ LoadFits(call[c])
    BY DEF Sound, CallsFit
  <1>3. UNCHANGED <<row, params, record, jobs>>
    BY DEF AppendHistory
  <1>4. CASE Goto(c, "idle")
    BY <1>3, <1>4, IdleStepSound, SameJobs DEF Sound
  <1>5. CASE call[c].kind = "wizard" /\ Goto(c, "record")
    <2>1. PICK r : r = [call[c] EXCEPT !.at = "record"]
      OBVIOUS
    <2>2. r.at = "record" /\ r.kind = call[c].kind /\ r.p = call[c].p
      BY <1>1, <2>1 DEF CallRecord
    <2>3. call' = [call EXCEPT ![c] = r]
      BY <1>5, <2>1 DEF Goto
    <2>4. EditFits(r)
      BY <1>1, <1>2, <1>5, <2>2 DEF EditFits, EditStages
    <2>5. LoadFits(r)
      BY <1>2, <2>2 DEF LoadFits
    <2>6. Creates(r) => Creates(call[c]) /\ r.p = call[c].p
      BY <2>2 DEF Creates
    <2> QED
      BY <1>3, <2>3, <2>4, <2>5, <2>6, SameJobs, CallStepSound DEF Sound
  <1> QED
    BY <1>4, <1>5 DEF AppendHistory

\* The call that made the profile records it; its flag is set, and no other call is
\* about to fill it.
LEMMA RecordHomologationSound ==
    ASSUME Shape, Sound, NEW c \in Calls, RecordHomologation(c)
    PROVE  Sound'
  <1> DEFINE p == call[c].p
  <1>1. call[c].at = "record" /\ p \in Profiles /\ p # NoProfile
    BY ConstantsAssumption DEF RecordHomologation, At, Shape, TypeOK, CallRecord
  <1>2. call[c].kind = "wizard" /\ row[p].homologated /\ Creates(call[c])
    BY <1>1 DEF Sound, CallsFit, EditFits, Creates
  <1>3. /\ call' = [call EXCEPT ![c] = Idle] /\ UNCHANGED <<row, params, jobs>>
        /\ record' = [record EXCEPT ![p] = "homologated"]
    BY DEF RecordHomologation, Goto
  <1>4. \A d \in Calls : call'[d] = IF d = c THEN Idle ELSE call[d]
    BY <1>3 DEF Shape, TypeOK
  <1>5. \A q \in Profiles : record'[q] # "none" => record[q] # "none" \/ q = p
    BY <1>3 DEF Shape, TypeOK
  <1>6. \A q \in Profiles : record[q] # "none" => record'[q] # "none"
    BY <1>3 DEF Shape, TypeOK
  <1>7. \A d \in Calls : d # c /\ call[d].at = "fill" => call[d].p # p
    BY <1>2 DEF Sound, CreatorsAlone, Creates
  <1>8. ProfileSound'
    BY <1>2, <1>3, <1>5 DEF Sound, ProfileSound
  <1>9. CallsFit'
    <2> SUFFICES ASSUME NEW d \in Calls PROVE (EditFits(call[d]) /\ LoadFits(call[d]))'
      BY DEF CallsFit
    <2>1. CASE d = c
      <3>1. call'[d] = Idle
        BY <1>4, <2>1
      <3> QED
        BY <3>1 DEF Idle, EditFits, LoadFits, EditStages
    <2>2. CASE d # c
      <3>1. call'[d] = call[d] /\ EditFits(call[d]) /\ LoadFits(call[d])
        BY <1>4, <2>2 DEF Sound, CallsFit
      <3>2. call[d].p \in Profiles \cup {NoProfile}
        BY DEF Shape, TypeOK, CallRecord
      <3>3. call[d].p = NoProfile => call[d].at \in {"idle", "insert", "find"}
        <4>1. TypeOK
          BY DEF Shape
        <4> QED
          BY <4>1 DEF TypeOK
      <3>4. EditFits(call[d])'
        BY <1>3, <1>5, <1>7, <2>2, <3>1, <3>2, <3>3 DEF EditFits
      <3>5. LoadFits(call[d])'
        BY <1>3, <1>6, <3>1, <3>2, <3>3 DEF LoadFits
      <3> QED
        BY <3>4, <3>5
    <2> QED
      BY <2>1, <2>2
  <1>10. CreatorsAlone'
    BY <1>4, IdleFits DEF Sound, CreatorsAlone
  <1>11. JobsSound'
    <2>1. \A j \in jobs : j.p \in Profiles
      BY DEF Shape, TypeOK, Payload
    <2> QED
      BY <1>3, <1>6, <2>1 DEF Sound, JobsSound, BulkIsHomologated, FieldsAreHomologated
  <1> QED
    BY <1>8, <1>9, <1>10, <1>11 DEF Sound

LEMMA DeprecateSound ==
    ASSUME Shape, Sound, NEW p \in Profiles, Deprecate(p)
    PROVE  Sound'
  <1>1. UNCHANGED <<row, params, call, jobs>>
    BY DEF Deprecate
  <1>2. \A q \in Profiles : record'[q] = "none" <=> record[q] = "none"
    BY DEF Deprecate, Shape, TypeOK
  <1>3. ProfileSound'
    BY <1>1, <1>2 DEF Sound, ProfileSound
  <1>4. CallsFit'
    <2> SUFFICES ASSUME NEW d \in Calls PROVE (EditFits(call[d]) /\ LoadFits(call[d]))'
      BY DEF CallsFit
    <2>1. EditFits(call[d]) /\ LoadFits(call[d])
      BY DEF Sound, CallsFit
    <2>2. call[d].p \in Profiles \cup {NoProfile}
      BY DEF Shape, TypeOK, CallRecord
    <2>3. call[d].p = NoProfile => call[d].at \in {"idle", "insert", "find"}
      <3>1. TypeOK
        BY DEF Shape
      <3> QED
        BY <3>1 DEF TypeOK
    <2>4. EditFits(call[d])'
      BY <1>1, <1>2, <2>1, <2>2, <2>3 DEF EditFits
    <2>5. LoadFits(call[d])'
      BY <1>1, <1>2, <2>1, <2>2, <2>3 DEF LoadFits
    <2> QED
      BY <2>4, <2>5
  <1>5. CreatorsAlone'
    BY <1>1 DEF Sound, CreatorsAlone
  <1>6. JobsSound'
    <2>1. \A j \in jobs : j.p \in Profiles
      BY DEF Shape, TypeOK, Payload
    <2> QED
      BY <1>1, <1>2, <2>1 DEF Sound, JobsSound, BulkIsHomologated, FieldsAreHomologated
  <1> QED
    BY <1>3, <1>4, <1>5, <1>6 DEF Sound

LEMMA LoadProfileSound ==
    ASSUME Shape, Sound, NEW c \in Calls, LoadProfile(c)
    PROVE  Sound'
  <1>0. PICK r : r = [call[c] EXCEPT !.at = "loadparams", !.row = row[call[c].p]]
    OBVIOUS
  <1>1. call[c] \in CallRecord /\ call[c].at = "load" /\ call[c].kind # "wizard"
    BY DEF LoadProfile, At, Shape, TypeOK, CallSound, LoadStages
  <1>2. LoadFits(call[c])
    BY DEF Sound, CallsFit
  <1>3. call' = [call EXCEPT ![c] = r] /\ UNCHANGED <<row, params, record, jobs>>
    BY <1>0 DEF LoadProfile, tables
  <1>4. r.at = "loadparams" /\ r.kind = call[c].kind /\ r.p = call[c].p
    BY <1>0, <1>1 DEF CallRecord
  <1>5. EditFits(r) /\ ~Creates(r)
    BY <1>1, <1>4 DEF EditFits, Creates, EditStages
  <1>6. LoadFits(r)
    BY <1>2, <1>4 DEF LoadFits
  <1> QED
    BY <1>3, <1>5, <1>6, SameJobs, CallStepSound DEF Sound

LEMMA LoadParametersSound ==
    ASSUME Shape, Sound, NEW c \in Calls, LoadParameters(c)
    PROVE  Sound'
  <1> DEFINE to == CASE call[c].kind = "bulk"   -> "gate"
                     [] call[c].kind = "fields" -> "enqueue"
                     [] OTHER -> "render"
  <1>0. PICK r : r = [call[c] EXCEPT !.at = to, !.found = params[call[c].p]]
    OBVIOUS
  <1>1. call[c] \in CallRecord /\ call[c].at = "loadparams" /\ call[c].kind # "wizard"
    BY DEF LoadParameters, At, Shape, TypeOK, CallSound, LoadStages
  <1>2. LoadFits(call[c])
    BY DEF Sound, CallsFit
  <1>3. call' = [call EXCEPT ![c] = r] /\ UNCHANGED <<row, params, record, jobs>>
    BY <1>0 DEF LoadParameters, tables
  <1>4. /\ r.at = to /\ r.kind = call[c].kind /\ r.p = call[c].p
        /\ r.found = params[call[c].p]
    BY <1>0, <1>1 DEF CallRecord
  <1>5. \/ to = "gate" /\ r.kind = "bulk"
        \/ to = "enqueue" /\ r.kind = "fields"
        \/ to = "render" /\ r.kind \notin {"bulk", "fields"}
    BY <1>4
  <1> HIDE DEF to
  <1>6. EditFits(r) /\ ~Creates(r)
    BY <1>1, <1>4, <1>5 DEF EditFits, Creates, EditStages
  <1>7. LoadFits(r)
    BY <1>2, <1>4, <1>5 DEF LoadFits
  <1> QED
    BY <1>3, <1>6, <1>7, SameJobs, CallStepSound DEF Sound

LEMMA HomologationGateSound ==
    ASSUME Shape, Sound, NEW c \in Calls, HomologationGate(c)
    PROVE  Sound'
  <1>0. PICK r : r = [call[c] EXCEPT !.at = "render"]
    OBVIOUS
  <1>1. call[c] \in CallRecord /\ call[c].at = "gate" /\ call[c].kind # "wizard"
    BY DEF HomologationGate, At, Shape, TypeOK, CallSound, LoadStages
  <1>2. LoadFits(call[c])
    BY DEF Sound, CallsFit
  <1>3. UNCHANGED <<row, params, record, jobs>>
    BY DEF HomologationGate, tables
  <1>4. CASE ~GateOpen(c)
    BY <1>3, <1>4, IdleStepSound, SameJobs DEF HomologationGate, Sound
  <1>5. CASE GateOpen(c)
    <2>1. call' = [call EXCEPT ![c] = r]
      BY <1>0, <1>5 DEF HomologationGate, Goto
    <2>2. /\ r.at = "render" /\ r.kind = call[c].kind /\ r.p = call[c].p
          /\ r.row = call[c].row /\ r.found = call[c].found
      BY <1>0, <1>1 DEF CallRecord
    <2>3. EditFits(r) /\ ~Creates(r)
      BY <1>1, <2>2 DEF EditFits, Creates, EditStages
    <2>4. r.row.header \notin Generic => record[r.p] # "none"
      BY <1>5, <2>2 DEF GateOpen
    <2>5. LoadFits(r)
      BY <1>1, <1>2, <2>2, <2>4 DEF LoadFits
    <2> QED
      BY <1>3, <2>1, <2>3, <2>5, SameJobs, CallStepSound DEF Sound
  <1> QED
    BY <1>4, <1>5

\* The profile of a job that had to pass the gate has a record, so its flag is set
\* and what was loaded of it is what it is.
LEMMA RenderJobSound ==
    ASSUME Shape, Sound, NEW c \in Calls, NEW customer \in BOOLEAN,
           NEW sameModel \in BOOLEAN, RenderJob(c, customer, sameModel)
    PROVE  Sound'
  <1>1. call[c] \in CallRecord /\ call[c].at = "render" /\ call[c].p \in Profiles
    BY DEF RenderJob, At, Shape, TypeOK, CallRecord
  <1>2. LoadFits(call[c]) /\ EditFits(call[c])
    BY DEF Sound, CallsFit
  <1>3. UNCHANGED <<row, params, record>>
    BY DEF RenderJob, tables
  <1>4. JobsSound'
    <2>1. CASE UNCHANGED jobs
      BY <1>3, <2>1, SameJobs DEF Sound
    <2>2. CASE jobs' # jobs
      <3>1. PICK resolved \in RenderProfile(call[c].found, customer) :
                jobs' = {[p |-> call[c].p, kind |-> call[c].kind,
                          header |-> call[c].row.header,
                          version |-> call[c].row.version, params |-> resolved]}
        BY <2>2 DEF RenderJob
      <3>2. resolved = call[c].found
        BY DEF RenderProfile
      <3>3. call[c].kind # "fields"
        BY <1>1, <1>2 DEF LoadFits
      <3>4. ASSUME call[c].kind = "bulk", call[c].row.header \notin Generic
            PROVE  record[call[c].p] # "none" /\ call[c].found \in {{}, params[call[c].p]}
        <4>1. record[call[c].p] # "none"
          BY <1>1, <1>2, <3>4 DEF LoadFits
        <4>2. row[call[c].p].homologated
          BY <1>1, <4>1 DEF Sound, ProfileSound
        <4> QED
          BY <1>1, <1>2, <4>1, <4>2 DEF LoadFits
      <3>5. BulkIsHomologated'
        BY <1>3, <3>1, <3>2, <3>4 DEF BulkIsHomologated
      <3>6. FieldsAreHomologated'
        BY <3>1, <3>3 DEF FieldsAreHomologated
      <3> QED
        BY <3>5, <3>6 DEF JobsSound
    <2> QED
      BY <2>1, <2>2
  <1>5. CASE Goto(c, "idle")
    BY <1>3, <1>4, <1>5, IdleStepSound
  <1>6. CASE UNCHANGED call
    <2>1. call' = [call EXCEPT ![c] = call[c]]
      BY <1>6 DEF Shape, TypeOK
    <2> QED
      BY <1>2, <1>3, <1>4, <2>1, CallStepSound
  <1> QED
    BY <1>5, <1>6 DEF RenderJob

LEMMA FindActiveByModelSound ==
    ASSUME Shape, Sound, NEW c \in Calls, FindActiveByModel(c)
    PROVE  Sound'
  <1>1. call[c] \in CallRecord /\ call[c].at = "find" /\ call[c].kind # "wizard"
    BY DEF FindActiveByModel, At, Shape, TypeOK, CallSound, LoadStages
  <1>2. UNCHANGED <<row, params, record, jobs>>
    BY DEF FindActiveByModel, tables
  <1>3. CASE Goto(c, "idle")
    BY <1>2, <1>3, IdleStepSound, SameJobs DEF Sound
  <1>4. ASSUME NEW p \in HomologatedProfiles,
               call' = [call EXCEPT ![c] = [@ EXCEPT !.at = "load", !.p = p]]
        PROVE  Sound'
    <2>1. PICK r : r = [call[c] EXCEPT !.at = "load", !.p = p]
      OBVIOUS
    <2>2. r.at = "load" /\ r.kind = call[c].kind /\ r.p = p
      BY <1>1, <2>1 DEF CallRecord
    <2>3. EditFits(r) /\ ~Creates(r)
      BY <1>1, <2>2 DEF EditFits, Creates, EditStages
    <2>4. LoadFits(r)
      BY <2>2 DEF LoadFits, HomologatedProfiles
    <2> QED
      BY <1>2, <1>4, <2>1, <2>3, <2>4, SameJobs, CallStepSound DEF Sound
  <1> QED
    BY <1>3, <1>4 DEF FindActiveByModel

LEMMA EnqueueFieldsSound ==
    ASSUME Shape, Sound, NEW c \in Calls, NEW written, NEW form, NEW blank, NEW numbers,
           EnqueueFields(c, written, form, blank, numbers)
    PROVE  Sound'
  <1> DEFINE sent == {p \in call[c].found : p.key \in form \ blank}
  <1>1. call[c].at = "enqueue" /\ call[c].p \in Profiles /\ call[c].p # NoProfile
    BY ConstantsAssumption DEF EnqueueFields, At, Shape, TypeOK, CallRecord
  <1>2. record[call[c].p] # "none" /\ sent \subseteq params[call[c].p]
    BY <1>1 DEF Sound, CallsFit, LoadFits
  <1>3. UNCHANGED <<row, params, record>> /\ Goto(c, "idle")
    BY DEF EnqueueFields, tables
  <1>4. CASE UNCHANGED jobs
    BY <1>3, <1>4, IdleStepSound, SameJobs DEF Sound
  <1>5. CASE jobs' # jobs
    <2>1. call[c].kind = "fields"
      BY <1>1 DEF Sound, CallsFit, LoadFits
    <2>2. jobs' = {[p |-> call[c].p, kind |-> "fields", header |-> call[c].row.header,
                    version |-> 0, params |-> sent]}
      BY <1>5, <2>1 DEF EnqueueFields
    <2> HIDE DEF sent
    <2>3. JobsSound'
      BY <1>2, <1>3, <2>2 DEF JobsSound, BulkIsHomologated, FieldsAreHomologated
    <2> QED
      BY <1>3, <2>3, IdleStepSound
  <1> QED
    BY <1>4, <1>5

LEMMA StatementFailsSound ==
    ASSUME Shape, Sound, NEW c \in Calls, StatementFails(c)
    PROVE  Sound'
  BY IdleStepSound, SameJobs DEF StatementFails, tables, Sound

LEMMA SoundStep == Shape /\ Sound /\ [Next]_vars => Sound'
  <1> SUFFICES ASSUME Shape, Sound, [Next]_vars PROVE Sound'
    OBVIOUS
  <1>1. CASE UNCHANGED vars
    BY <1>1 DEF vars, Sound, ProfileSound, CallsFit, EditFits, LoadFits, CreatorsAlone,
       Creates, JobsSound, BulkIsHomologated, FieldsAreHomologated
  <1>2. ASSUME NEW c \in Calls, Requests(c) PROVE Sound'
    BY <1>2, RequestsSound
  <1>3. ASSUME NEW c \in Calls, Edit(c) PROVE Sound'
    BY <1>3, InsertProfileSound, FillProfileSound, GetProfileSound, CompareParametersSound,
       UpdateProfileSound, ReplaceParametersSound, IncrementVersionSound, ReadSnapshotSound,
       AppendHistorySound, RecordHomologationSound DEF Edit
  <1>4. ASSUME NEW c \in Calls, Apply(c) PROVE Sound'
    BY <1>4, LoadProfileSound, LoadParametersSound, HomologationGateSound, RenderJobSound,
       FindActiveByModelSound, EnqueueFieldsSound DEF Apply, UpdateFields
  <1>5. ASSUME NEW c \in Calls, StatementFails(c) PROVE Sound'
    BY <1>5, StatementFailsSound
  <1>6. ASSUME NEW p \in Profiles, Deprecate(p) PROVE Sound'
    BY <1>6, DeprecateSound
  <1> QED
    BY <1>1, <1>2, <1>3, <1>4, <1>5, <1>6 DEF Next

LEMMA SoundInit == Init => Sound
  BY IdleFits DEF Init, Sound, ProfileSound, CallsFit, CreatorsAlone, JobsSound,
     BulkIsHomologated, FieldsAreHomologated

LEMMA SoundAlways == Spec => [](Shape /\ Sound)
  BY ShapeInit, ShapeStep, SoundInit, SoundStep, PTL DEF Spec

\* A job that ApplyBulk made of a profile with a model carries what was homologated,
\* for any number of profiles, requests, faults and versions.
THEOREM BulkHomologated == Spec => []BulkIsHomologated
  <1>1. Shape /\ Sound => BulkIsHomologated
    BY DEF Sound, JobsSound
  <1> QED
    BY <1>1, SoundAlways, PTL

\* So does a job of UpdateFields.
THEOREM FieldsHomologated == Spec => []FieldsAreHomologated
  <1>1. Shape /\ Sound => FieldsAreHomologated
    BY DEF Sound, JobsSound
  <1> QED
    BY <1>1, SoundAlways, PTL

LEMMA KeptStep ==
    ASSUME Shape, Sound, [Next]_vars, NEW p \in Profiles, record[p] # "none"
    PROVE  params'[p] = params[p] /\ row'[p].header = row[p].header
  <1>1. row[p].homologated /\ row[p] # Absent
    BY DEF Sound, ProfileSound, Shape, RowSound
  <1>2. ASSUME NEW c \in Calls
        PROVE  /\ EditFits(call[c]) /\ call[c] \in CallRecord
               /\ row \in [Profiles -> ProfileRow] /\ params \in [Profiles -> ParameterSets]
    BY DEF Sound, CallsFit, Shape, TypeOK
  <1>3. CASE UNCHANGED <<row, params>>
    BY <1>3
  <1>4. ASSUME NEW c \in Calls, NEW q \in Profiles, InsertProfile(c, q)
        PROVE  params'[p] = params[p] /\ row'[p].header = row[p].header
    BY <1>1, <1>2, <1>4 DEF InsertProfile
  <1>5. ASSUME NEW c \in Calls, FillProfile(c)
        PROVE  params'[p] = params[p] /\ row'[p].header = row[p].header
    BY <1>2, <1>5 DEF FillProfile, At, EditFits
  <1>6. ASSUME NEW c \in Calls, UpdateProfile(c)
        PROVE  params'[p] = params[p] /\ row'[p].header = row[p].header
    <2>1. CASE call[c].p = p
      <3>1. call[c].row.header = row[p].header
        BY <1>1, <1>2, <1>6, <2>1 DEF UpdateProfile, At, EditFits
      <3>2. call[c].row \in ProfileRow
        BY <1>2 DEF CallRecord
      <3> QED
        BY <1>2, <1>6, <2>1, <3>1, <3>2 DEF UpdateProfile, ProfileRow
    <2>2. CASE call[c].p # p
      BY <1>2, <1>6, <2>2 DEF UpdateProfile
    <2> QED
      BY <2>1, <2>2
  <1>7. ASSUME NEW c \in Calls, ReplaceParameters(c)
        PROVE  params'[p] = params[p] /\ row'[p].header = row[p].header
    BY <1>1, <1>2, <1>7 DEF ReplaceParameters, At, EditFits
  <1>8. ASSUME NEW c \in Calls, IncrementVersion(c)
        PROVE  params'[p] = params[p] /\ row'[p].header = row[p].header
    <2>1. row[p] \in ProfileRow
      BY <1>2, <1>8
    <2> QED
      BY <1>2, <1>8, <2>1 DEF IncrementVersion, ProfileRow
  <1>9. ASSUME NEW c \in Calls,
               Requests(c) \/ Apply(c) \/ StatementFails(c) \/ GetProfile(c)
                   \/ CompareParameters(c) \/ ReadSnapshot(c) \/ AppendHistory(c)
                   \/ RecordHomologation(c)
        PROVE  UNCHANGED <<row, params>>
    BY <1>9 DEF Requests, RequestCreate, RequestUpdate, RequestApply, RequestFields, Apply,
       LoadProfile, LoadParameters, HomologationGate, UpdateFields, FindActiveByModel,
       EnqueueFields, RenderJob, StatementFails, GetProfile, CompareParameters, ReadSnapshot,
       AppendHistory, RecordHomologation, tables
  <1>10. CASE UNCHANGED vars \/ \E q \in Profiles : Deprecate(q)
    BY <1>3, <1>10 DEF vars, Deprecate
  <1>11. ASSUME NEW c \in Calls, Requests(c) \/ Edit(c) \/ Apply(c) \/ StatementFails(c)
         PROVE  params'[p] = params[p] /\ row'[p].header = row[p].header
    BY <1>3, <1>4, <1>5, <1>6, <1>7, <1>8, <1>9, <1>11 DEF Edit
  <1> QED
    BY <1>10, <1>11 DEF Next

\* The header and the parameters of a profile that has been homologated never change,
\* whatever edits of it are in flight and wherever they stop.
THEOREM HomologatedUnchanged == Spec => HomologatedImmutable
  <1>1. Shape /\ Sound /\ [Next]_vars =>
            [\A p \in Profiles : record[p] # "none" =>
                 params'[p] = params[p] /\ row'[p].header = row[p].header]_vars
    BY KeptStep
  <1> QED
    BY <1>1, SoundAlways, PTL DEF Spec, HomologatedImmutable

=============================================================================
