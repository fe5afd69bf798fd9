------------------------- MODULE HomologationProofs -------------------------
(***************************************************************************)
(* Proofs about Homologation, for any sessions, mappings, profiles, calls  *)
(* and number of failed statements.                                        *)
(***************************************************************************)
EXTENDS Homologation, TLAPS

-----------------------------------------------------------------------------
(* Types.                                                                  *)

LEMMA IdleType == Idle \in CallRecord
  BY ConstantsAssumption DEF Idle, CallRecord, Stages, ProbeStages, Active

LEMMA GotoType ==
    ASSUME TypeOK, NEW c \in Calls, NEW at \in Stages, Goto(c, at)
    PROVE  call' \in [Calls -> CallRecord]
  <1>1. call[c] \in CallRecord
    BY DEF TypeOK
  <1>2. [call[c] EXCEPT !.at = at] \in CallRecord
    BY <1>1 DEF CallRecord
  <1>3. (IF at = "idle" THEN Idle ELSE [call[c] EXCEPT !.at = at]) \in CallRecord
    BY <1>2, IdleType
  <1> QED
    BY <1>3 DEF Goto, TypeOK

LEMMA BeginType ==
    ASSUME TypeOK, NEW c \in Calls, NEW at \in Stages, NEW s \in Sessions, Begin(c, at, s)
    PROVE  call' \in [Calls -> CallRecord]
  <1>1. [Idle EXCEPT !.at = at, !.s = s] \in CallRecord
    BY IdleType DEF CallRecord, Idle
  <1> QED
    BY <1>1 DEF Begin, TypeOK

LEMMA SetStatusType ==
    ASSUME TypeOK, NEW s, NEW st \in SessionStatus, SetStatus(s, st)
    PROVE  /\ status' \in [Sessions -> SessionStatus]
           /\ finished' \in [Sessions -> {"no", "recent", "old"}]
  BY DEF TypeOK, SetStatus

LEMMA UpdateStatusType ==
    ASSUME TypeOK, NEW c \in Calls, NEW st \in SessionStatus, NEW then \in Stages,
           NEW failed \in Stages, UpdateStatus(c, st, then, failed)
    PROVE  /\ status' \in [Sessions -> SessionStatus]
           /\ finished' \in [Sessions -> {"no", "recent", "old"}]
           /\ call' \in [Calls -> CallRecord]
  <1>1. CASE Blocked(call[c].s, st)
    BY <1>1, GotoType DEF UpdateStatus, TypeOK
  <1>2. CASE ~Blocked(call[c].s, st)
    BY <1>2, GotoType, SetStatusType DEF UpdateStatus
  <1> QED
    BY <1>1, <1>2

LEMMA WriteResultType ==
    ASSUME TypeOK, NEW m \in Mappings, NEW read \in BOOLEAN, NEW write \in BOOLEAN,
           WriteResult(m, read, write)
    PROVE  row' \in [Mappings -> MappingRow] /\ tested' \in SUBSET Mappings
  <1>1. row[m] \in MappingRow
    BY DEF TypeOK
  <1>2. [row[m] EXCEPT !.read = read, !.write = write] \in MappingRow
    BY <1>1 DEF MappingRow
  <1> QED
    BY <1>2 DEF WriteResult, TypeOK

LEMMA TypeInit == Init => TypeOK
  BY ConstantsAssumption, IdleType
  DEF Init, TypeOK, SessionStatus, MappingRow, Untested, ProfileRow

LEMMA TypeStep == TypeOK /\ CallSound /\ [Next]_vars => TypeOK'
  <1> SUFFICES ASSUME TypeOK, CallSound, [Next]_vars PROVE TypeOK'
    OBVIOUS
  <1> USE ConstantsAssumption DEF sessionVars, resultVars
  <1>1. ASSUME NEW s \in Sessions, StartSession(s) PROVE TypeOK'
    BY <1>1 DEF StartSession, TypeOK, SessionStatus, Active
  <1>2. ASSUME NEW s \in Sessions, Abandon(s) PROVE TypeOK'
    BY <1>2, SetStatusType DEF Abandon, TypeOK, SessionStatus, Finished
  <1>3. ASSUME NEW s \in Sessions, Ages(s) PROVE TypeOK'
    BY <1>3 DEF Ages, TypeOK
  <1>4. ASSUME NEW m \in Mappings, SkipWriteTest(m) PROVE TypeOK'
    <2>1. row[m].read \in BOOLEAN
      BY DEF TypeOK, MappingRow
    <2>2. row' \in [Mappings -> MappingRow] /\ tested' \in SUBSET Mappings
      BY <1>4, <2>1, WriteResultType DEF SkipWriteTest
    <2> QED
      BY <1>4, <2>2 DEF SkipWriteTest, TypeOK
  <1>5. ASSUME NEW p \in Profiles, Deprecate(p) PROVE TypeOK'
    BY <1>5 DEF Deprecate, TypeOK
  <1>6. ASSUME NEW c \in Calls, Requests(c) PROVE TypeOK'
    <2>1. ASSUME NEW s \in Sessions, RequestProbe(c, s) PROVE TypeOK'
      <3>1. (IF status[s] = "probing" THEN "probe" ELSE "markprobing") \in Stages
        BY DEF Stages, ProbeStages
      <3> QED
        BY <2>1, <3>1, BeginType DEF RequestProbe, TypeOK
    <2>2. ASSUME NEW s \in Sessions, RequestReset(c, s) PROVE TypeOK'
      <3> DEFINE new == [Idle EXCEPT !.at = "reset", !.s = s,
                                     !.back = IF probed[s] THEN "testing" ELSE "draft"]
      <3>1. new \in CallRecord
        BY IdleType DEF Idle, CallRecord, Stages, Active
      <3>2. call' = [call EXCEPT ![c] = new]
        BY <2>2 DEF RequestReset
      <3> HIDE DEF new
      <3> QED
        BY <2>2, <3>1, <3>2 DEF RequestReset, TypeOK
    <2>3. ASSUME NEW s \in Sessions, RequestComplete(c, s) PROVE TypeOK'
      <3>1. "list" \in Stages
        BY DEF Stages
      <3> QED
        BY <2>3, <3>1, BeginType DEF RequestComplete, TypeOK
    <2>4. ASSUME NEW m \in Mappings, NEW at \in {"add", "remove", "read", "write"},
                 RequestMapping(c, m, at)
          PROVE  TypeOK'
      <3> DEFINE new == [Idle EXCEPT !.at = at, !.s = SessionOf[m], !.m = m]
      <3>1. new \in CallRecord
        BY IdleType DEF Idle, CallRecord, Stages
      <3>2. call' = [call EXCEPT ![c] = new]
        BY <2>4 DEF RequestMapping
      <3> HIDE DEF new
      <3> QED
        BY <2>4, <3>1, <3>2 DEF RequestMapping, TypeOK
    <2> QED
      BY <1>6, <2>1, <2>2, <2>3, <2>4 DEF Requests
  <1>7. ASSUME NEW c \in Calls, Probe(c) PROVE TypeOK'
    <2> USE DEF SessionStatus, Active, Stages, ProbeStages
    <2>1. CASE MarkProbing(c)
      BY <2>1, UpdateStatusType DEF MarkProbing, TypeOK
    <2>2. CASE ProbeRead(c)
      <3>1. CASE status[call[c].s] \in Active
        <4> DEFINE new == [call[c] EXCEPT !.at = "mark", !.back = BeforeProbe(call[c].s)]
        <4>1. call[c] \in CallRecord
          BY DEF TypeOK
        <4>2. BeforeProbe(call[c].s) \in Active
          BY <3>1 DEF BeforeProbe
        <4>3. new \in CallRecord
          BY <4>1, <4>2 DEF CallRecord
        <4>4. call' = [call EXCEPT ![c] = new]
          BY <2>2, <3>1 DEF ProbeRead
        <4> HIDE DEF new
        <4> QED
          BY <2>2, <4>3, <4>4 DEF ProbeRead, TypeOK
      <3>2. CASE status[call[c].s] \notin Active
        BY <2>2, <3>2, GotoType DEF ProbeRead, TypeOK
      <3> QED
        BY <3>1, <3>2
    <2>3. CASE ProbeMark(c)
      BY <2>3, UpdateStatusType DEF ProbeMark, TypeOK
    <2>4. CASE SaveSnapshot(c)
      BY <2>4, GotoType DEF SaveSnapshot, TypeOK
    <2>5. CASE ProbeSettle(c)
      <3>1. CASE UpdateStatus(c, "testing", "pass2", "rollback")
        BY <2>5, <3>1, UpdateStatusType DEF ProbeSettle, TypeOK
      <3>2. CASE Goto(c, "rollback") /\ UNCHANGED <<status, finished>>
        BY <2>5, <3>2, GotoType DEF ProbeSettle, TypeOK
      <3> QED
        BY <2>5, <3>1, <3>2 DEF ProbeSettle
    <2>6. CASE SecondPass(c)
      BY <2>6, GotoType DEF SecondPass, TypeOK
    <2>7. CASE Rollback(c)
      <3>1. call[c].back \in SessionStatus
        BY DEF TypeOK, CallRecord
      <3> QED
        BY <2>7, <3>1, UpdateStatusType DEF Rollback, TypeOK
    <2> QED
      BY <1>7, <2>1, <2>2, <2>3, <2>4, <2>5, <2>6, <2>7 DEF Probe
  <1>8. ASSUME NEW c \in Calls, Complete(c) PROVE TypeOK'
    <2> USE DEF SessionStatus, Finished, Stages
    <2>0. call[c] \in CallRecord
      BY DEF TypeOK
    <2>1. CASE ListMappings(c)
      <3> DEFINE eligible == {m \in Rows(call[c].s) : EligibleForProfile(m)}
                 new == [call[c] EXCEPT !.at = "create", !.params = eligible]
      <3>1. new \in CallRecord
        BY <2>0 DEF CallRecord, Rows
      <3>2. Goto(c, "idle") \/ call' = [call EXCEPT ![c] = new]
        BY <2>1 DEF ListMappings
      <3> HIDE DEF new
      <3> QED
        BY <2>1, <3>1, <3>2, GotoType DEF ListMappings, TypeOK
    <2>2. CASE ReplaceParameters(c)
      <3>1. call[c].params \in SUBSET Mappings
        BY <2>0 DEF CallRecord
      <3>2. \A p \in Profiles : [profile[p] EXCEPT !.params = call[c].params] \in ProfileRow
        BY <3>1 DEF TypeOK, ProfileRow
      <3>3. profile' \in [Profiles -> ProfileRow]
        BY <2>2, <3>2 DEF ReplaceParameters, TypeOK
      <3> QED
        BY <2>2, <3>3, GotoType DEF ReplaceParameters, TypeOK
    <2>3. CASE RecordHomologation(c)
      BY <2>3, GotoType DEF RecordHomologation, TypeOK
    <2>4. CASE SetGeneratedProfile(c)
      <3>1. call[c].p \in Profiles \cup {NoProfile}
        BY <2>0 DEF CallRecord
      <3> QED
        BY <2>4, <3>1, GotoType DEF SetGeneratedProfile, TypeOK
    <2>5. CASE FinishSession(c)
      BY <2>5, UpdateStatusType DEF FinishSession, TypeOK
    <2>6. ASSUME NEW p \in Profiles, CreateProfile(c, p) PROVE TypeOK'
      <3>1. CASE profile[p].session = NoSession
        <4> DEFINE new == [call[c] EXCEPT !.at = "params", !.p = p]
        <4>1. new \in CallRecord
          BY <2>0 DEF CallRecord
        <4>2. call' = [call EXCEPT ![c] = new]
          BY <2>6, <3>1 DEF CreateProfile
        <4>3. call[c].s \in Sessions \cup {NoSession}
          BY <2>0 DEF CallRecord
        <4>4. profile' \in [Profiles -> ProfileRow]
          BY <2>6, <3>1, <4>3 DEF CreateProfile, TypeOK, ProfileRow
        <4> HIDE DEF new
        <4> QED
          BY <2>6, <4>1, <4>2, <4>4 DEF CreateProfile, TypeOK
      <3>2. CASE profile[p].session # NoSession
        BY <2>6, <3>2, GotoType DEF CreateProfile, TypeOK
      <3> QED
        BY <3>1, <3>2
    <2> QED
      BY <1>8, <2>1, <2>2, <2>3, <2>4, <2>5, <2>6 DEF Complete
  <1>9. ASSUME NEW c \in Calls, ResetProbe(c) PROVE TypeOK'
    <2>1. call[c].back \in SessionStatus /\ "idle" \in Stages
      BY DEF TypeOK, CallRecord, SessionStatus, Stages
    <2> QED
      BY <1>9, <2>1, UpdateStatusType DEF ResetProbe, TypeOK
  <1>10. ASSUME NEW c \in Calls,
                AddMapping(c) \/ RemoveMapping(c) \/ RunReadTest(c) \/ RunWriteTest(c)
         PROVE  TypeOK'
    <2>1. "idle" \in Stages
      BY DEF Stages
    <2>2. Untested("present") \in MappingRow /\ Untested("deleted") \in MappingRow
      BY DEF Untested, MappingRow
    <2>3. CASE AddMapping(c)
      BY <2>1, <2>2, <2>3, GotoType DEF AddMapping, TypeOK
    <2>4. CASE RemoveMapping(c)
      BY <2>1, <2>2, <2>4, GotoType DEF RemoveMapping, TypeOK
    <2>5. ASSUME call[c].at \in {"read", "write"}
          PROVE  /\ call[c].m \in Mappings
                 /\ row[call[c].m].read \in BOOLEAN
                 /\ row[call[c].m].write \in BOOLEAN
      BY <2>5 DEF CallSound, TypeOK, MappingRow
    <2>6. CASE RunReadTest(c)
      BY <2>1, <2>5, <2>6, GotoType, WriteResultType DEF RunReadTest, TypeOK
    <2>7. CASE RunWriteTest(c)
      BY <2>1, <2>5, <2>7, GotoType, WriteResultType DEF RunWriteTest, TypeOK
    <2> QED
      BY <1>10, <2>3, <2>4, <2>6, <2>7
  <1>11. ASSUME NEW c \in Calls, StatementFails(c) PROVE TypeOK'
    <2>1. {"rollback", "idle"} \subseteq Stages
      BY DEF Stages, ProbeStages
    <2> QED
      BY <1>11, <2>1, GotoType DEF StatementFails, TypeOK
  <1>12. CASE Restart
    BY <1>12, IdleType DEF Restart, TypeOK, SessionStatus, Active
  <1>13. CASE PurgeOldSnapshots
    BY <1>13 DEF PurgeOldSnapshots, TypeOK, Purgeable
  <1>14. CASE UNCHANGED vars
    BY <1>14 DEF vars, TypeOK
  <1> QED
    BY <1>1, <1>2, <1>3, <1>4, <1>5, <1>6, <1>7, <1>8, <1>9, <1>10, <1>11,
       <1>12, <1>13, <1>14 DEF Next, Proceed

-----------------------------------------------------------------------------
(* What a call holds at each stage.                                        *)

SoundCall(r) ==
    /\ r.at # "idle" => r.s \in Sessions
    /\ r.at \in {"add", "remove", "read", "write"} => r.m \in Mappings
    /\ r.at \in {"params", "record", "link", "finish"} => r.p \in Profiles

LEMMA NewCallSound ==
    ASSUME TypeOK, CallSound, NEW c \in Calls, NEW r, SoundCall(r),
           call' = [call EXCEPT ![c] = r]
    PROVE  CallSound'
  BY DEF CallSound, SoundCall, TypeOK

LEMMA GotoSound ==
    ASSUME TypeOK, CallSound, NEW c \in Calls, NEW at \in Stages, Goto(c, at),
           at # "idle" => SoundCall([call[c] EXCEPT !.at = at])
    PROVE  CallSound'
  <1>1. CASE at = "idle"
    <2>1. SoundCall(Idle)
      BY DEF SoundCall, Idle
    <2> QED
      BY <1>1, <2>1, NewCallSound DEF Goto
  <1>2. CASE at # "idle"
    BY <1>2, NewCallSound DEF Goto
  <1> QED
    BY <1>1, <1>2

\* A probe or a reset goes from stage to stage with its session alone.
LEMMA ProbeGotoSound ==
    ASSUME TypeOK, CallSound, NEW c \in Calls, call[c].at # "idle",
           NEW at \in ProbeStages \cup {"idle"}, Goto(c, at)
    PROVE  CallSound'
  <1>1. at \in Stages
    BY DEF Stages
  <1>2. call[c] \in CallRecord /\ call[c].s \in Sessions
    BY DEF TypeOK, CallSound
  <1>3. SoundCall([call[c] EXCEPT !.at = at])
    BY <1>2 DEF SoundCall, ProbeStages, CallRecord
  <1> QED
    BY <1>1, <1>3, GotoSound

LEMMA CallStep == TypeOK /\ CallSound /\ [Next]_vars => CallSound'
  <1> SUFFICES ASSUME TypeOK, CallSound, [Next]_vars PROVE CallSound'
    OBVIOUS
  <1> USE ConstantsAssumption DEF sessionVars, resultVars
  <1>0. \A c \in Calls : call[c] \in CallRecord
    BY DEF TypeOK
  <1>1. ASSUME NEW s \in Sessions, StartSession(s) \/ Abandon(s) \/ Ages(s) PROVE CallSound'
    BY <1>1 DEF StartSession, Abandon, Ages, CallSound
  <1>2. ASSUME NEW m \in Mappings, SkipWriteTest(m) PROVE CallSound'
    BY <1>2 DEF SkipWriteTest, CallSound
  <1>3. ASSUME NEW p \in Profiles, Deprecate(p) PROVE CallSound'
    BY <1>3 DEF Deprecate, CallSound
  <1>4. ASSUME NEW c \in Calls, Requests(c) PROVE CallSound'
    <2>1. ASSUME NEW s \in Sessions,
                 RequestProbe(c, s) \/ RequestReset(c, s) \/ RequestComplete(c, s)
          PROVE  CallSound'
      <3>1. \A at \in {"probe", "markprobing", "list"} :
              SoundCall([Idle EXCEPT !.at = at, !.s = s])
        BY DEF SoundCall, Idle
      <3>2. \A back : SoundCall([Idle EXCEPT !.at = "reset", !.s = s, !.back = back])
        BY DEF SoundCall, Idle
      <3>3. CASE RequestProbe(c, s)
        <4>1. PICK at \in {"probe", "markprobing"} : Begin(c, at, s)
          BY <3>3 DEF RequestProbe
        <4> QED
          BY <4>1, <3>1, NewCallSound DEF Begin
      <3>4. CASE RequestReset(c, s)
        BY <3>2, <3>4, NewCallSound DEF RequestReset
      <3>5. CASE RequestComplete(c, s)
        BY <3>1, <3>5, NewCallSound DEF RequestComplete, Begin
      <3> QED
        BY <2>1, <3>3, <3>4, <3>5
    <2>2. ASSUME NEW m \in Mappings, NEW at \in {"add", "remove", "read", "write"},
                 RequestMapping(c, m, at)
          PROVE  CallSound'
      <3>1. SoundCall([Idle EXCEPT !.at = at, !.s = SessionOf[m], !.m = m])
        BY DEF SoundCall, Idle
      <3> QED
        BY <2>2, <3>1, NewCallSound DEF RequestMapping
    <2> QED
      BY <1>4, <2>1, <2>2 DEF Requests
  <1>5. ASSUME NEW c \in Calls, Probe(c) \/ ResetProbe(c) PROVE CallSound'
    <2>1. CASE ProbeRead(c)
      <3>1. CASE status[call[c].s] \in Active
        <4>1. SoundCall([call[c] EXCEPT !.at = "mark", !.back = BeforeProbe(call[c].s)])
          BY <1>0, <2>1 DEF ProbeRead, SoundCall, CallSound, CallRecord
        <4> QED
          BY <2>1, <3>1, <4>1, NewCallSound DEF ProbeRead
      <3>2. CASE status[call[c].s] \notin Active
        BY <2>1, <3>2, ProbeGotoSound DEF ProbeRead
      <3> QED
        BY <3>1, <3>2
    <2>2. CASE ~ProbeRead(c)
      <3>1. PICK at \in ProbeStages \cup {"idle"} : Goto(c, at)
        BY <1>5, <2>2
        DEF Probe, ProbeStages, MarkProbing, ProbeMark, SaveSnapshot, ProbeSettle,
            SecondPass, Rollback, ResetProbe, UpdateStatus
      <3>2. call[c].at # "idle"
        BY <1>5, <2>2 DEF Probe, MarkProbing, ProbeMark, SaveSnapshot, ProbeSettle,
                          SecondPass, Rollback, ResetProbe
      <3> QED
        BY <3>1, <3>2, ProbeGotoSound
    <2> QED
      BY <2>1, <2>2
  <1>6. ASSUME NEW c \in Calls,
               AddMapping(c) \/ RemoveMapping(c) \/ RunReadTest(c) \/ RunWriteTest(c)
        PROVE  CallSound'
    <2>1. Goto(c, "idle") /\ call[c].at # "idle"
      BY <1>6 DEF AddMapping, RemoveMapping, RunReadTest, RunWriteTest
    <2> QED
      BY <2>1, ProbeGotoSound
  <1>7. ASSUME NEW c \in Calls, Complete(c) PROVE CallSound'
    <2> USE DEF Stages
    <2>1. CASE ListMappings(c)
      <3> DEFINE eligible == {m \in Rows(call[c].s) : EligibleForProfile(m)}
                 new == [call[c] EXCEPT !.at = "create", !.params = eligible]
      <3>1. SoundCall(new)
        BY <1>0, <2>1 DEF ListMappings, SoundCall, CallSound, CallRecord
      <3>2. Goto(c, "idle") \/ call' = [call EXCEPT ![c] = new]
        BY <2>1 DEF ListMappings
      <3>3. call[c].at # "idle"
        BY <2>1 DEF ListMappings
      <3> HIDE DEF new
      <3> QED
        BY <3>1, <3>2, <3>3, NewCallSound, ProbeGotoSound
    <2>2. ASSUME NEW p \in Profiles, CreateProfile(c, p) PROVE CallSound'
      <3>1. SoundCall([call[c] EXCEPT !.at = "params", !.p = p])
        BY <1>0, <2>2 DEF CreateProfile, SoundCall, CallSound, CallRecord
      <3>2. call[c].at # "idle"
        BY <2>2 DEF CreateProfile
      <3> QED
        BY <2>2, <3>1, <3>2, NewCallSound, ProbeGotoSound DEF CreateProfile
    <2>3. CASE ReplaceParameters(c) \/ RecordHomologation(c) \/ SetGeneratedProfile(c)
      <3>1. PICK at \in {"record", "link", "finish"} : Goto(c, at)
        BY <2>3 DEF ReplaceParameters, RecordHomologation, SetGeneratedProfile
      <3>2. call[c].at \in {"params", "record", "link"}
        BY <2>3 DEF ReplaceParameters, RecordHomologation, SetGeneratedProfile
      <3>3. SoundCall([call[c] EXCEPT !.at = at])
        BY <1>0, <3>2 DEF SoundCall, CallSound, CallRecord
      <3> QED
        BY <3>1, <3>3, GotoSound
    <2>4. CASE FinishSession(c)
      <3>1. Goto(c, "idle") /\ call[c].at # "idle"
        BY <2>4 DEF FinishSession, UpdateStatus
      <3> QED
        BY <3>1, ProbeGotoSound
    <2> QED
      BY <1>7, <2>1, <2>2, <2>3, <2>4 DEF Complete
  <1>8. ASSUME NEW c \in Calls, StatementFails(c) PROVE CallSound'
    <2>1. PICK at \in {"rollback", "idle"} : Goto(c, at)
      BY <1>8 DEF StatementFails
    <2>2. CASE call[c].at # "idle"
      BY <2>1, <2>2, ProbeGotoSound DEF ProbeStages
    <2>3. CASE call[c].at = "idle"
      BY <1>8, <2>3, <2>1, GotoSound DEF StatementFails, Stages
    <2> QED
      BY <2>2, <2>3
  <1>9. CASE Restart
    BY <1>9 DEF Restart, CallSound, Idle
  <1>10. CASE PurgeOldSnapshots \/ UNCHANGED vars
    BY <1>10 DEF PurgeOldSnapshots, vars, CallSound
  <1> QED
    BY <1>1, <1>2, <1>3, <1>4, <1>5, <1>6, <1>7, <1>8, <1>9, <1>10 DEF Next, Proceed

-----------------------------------------------------------------------------
(* One active session for each device.                                     *)

LEMMA UpdateStatusOne ==
    ASSUME TypeOK, OneSessionPerDevice, NEW c \in Calls, NEW st, NEW then, NEW failed,
           UpdateStatus(c, st, then, failed)
    PROVE  OneSessionPerDevice'
  <1>1. CASE Blocked(call[c].s, st)
    BY <1>1 DEF UpdateStatus, OneSessionPerDevice
  <1>2. CASE ~Blocked(call[c].s, st)
    <2> DEFINE u == call[c].s
    <2>1. status' = [status EXCEPT ![u] = st]
      BY <1>2 DEF UpdateStatus, SetStatus
    <2>2. st \notin Active \/ \A t \in Sessions \ {u} :
              LabDevice[t] = LabDevice[u] => status[t] \notin Active
      BY <1>2 DEF Blocked
    <2> SUFFICES ASSUME NEW s \in Sessions, NEW t \in Sessions,
                        LabDevice[s] = LabDevice[t],
                        status'[s] \in Active, status'[t] \in Active
                 PROVE  s = t
      BY DEF OneSessionPerDevice
    <2> HIDE DEF u
    <2>3. \A v \in Sessions : status'[v] = IF v = u THEN st ELSE status[v]
      BY <2>1 DEF TypeOK
    <2> QED
      BY <2>2, <2>3 DEF OneSessionPerDevice
  <1> QED
    BY <1>1, <1>2

LEMMA OneSessionStep == TypeOK /\ OneSessionPerDevice /\ [Next]_vars => OneSessionPerDevice'
  <1> SUFFICES ASSUME TypeOK, OneSessionPerDevice, [Next]_vars PROVE OneSessionPerDevice'
    OBVIOUS
  <1> USE DEF sessionVars
  <1>1. ASSUME NEW s \in Sessions, StartSession(s) PROVE OneSessionPerDevice'
    <2>1. \A t \in Sessions \ {s} : LabDevice[t] = LabDevice[s] => status[t] \notin Active
      BY <1>1 DEF StartSession, Blocked, Active
    <2>2. \A t \in Sessions : status'[t] = IF t = s THEN "draft" ELSE status[t]
      BY <1>1 DEF StartSession, TypeOK
    <2> QED
      BY <2>1, <2>2 DEF OneSessionPerDevice
  <1>2. ASSUME NEW s \in Sessions, Abandon(s) PROVE OneSessionPerDevice'
    <2>1. \A t \in Sessions : status'[t] = IF t = s THEN "abandoned" ELSE status[t]
      BY <1>2 DEF Abandon, SetStatus, TypeOK
    <2> QED
      BY <2>1 DEF OneSessionPerDevice, Active
  <1>3. ASSUME NEW c \in Calls, Proceed(c) PROVE OneSessionPerDevice'
    <2>1. CASE UNCHANGED status
      BY <2>1 DEF OneSessionPerDevice
    <2>2. CASE \E st, then, failed : UpdateStatus(c, st, then, failed)
      BY <2>2, UpdateStatusOne
    <2>3. UNCHANGED status \/ \E st, then, failed : UpdateStatus(c, st, then, failed)
      <3>1. CASE Probe(c) \/ ResetProbe(c)
        BY <3>1 DEF Probe, ResetProbe, MarkProbing, ProbeRead, ProbeMark, SaveSnapshot,
                    ProbeSettle, SecondPass, Rollback
      <3>2. CASE AddMapping(c) \/ RemoveMapping(c) \/ RunReadTest(c) \/ RunWriteTest(c)
        BY <3>2 DEF AddMapping, RemoveMapping, RunReadTest, RunWriteTest
      <3>3. CASE Complete(c)
        BY <3>3 DEF Complete, ListMappings, ReplaceParameters, RecordHomologation,
                    SetGeneratedProfile, FinishSession, CreateProfile
      <3> QED
        BY <1>3, <3>1, <3>2, <3>3 DEF Proceed
    <2> QED
      BY <2>1, <2>2, <2>3
  <1>4. CASE Restart
    <2>1. \A s \in Sessions : status'[s] \in Active => status[s] \in Active
      BY <1>4 DEF Restart, Active
    <2> QED
      BY <2>1 DEF OneSessionPerDevice
  <1>5. CASE \/ \E s \in Sessions : Ages(s)
             \/ \E m \in Mappings : SkipWriteTest(m)
             \/ \E p \in Profiles : Deprecate(p)
             \/ \E c \in Calls : Requests(c) \/ StatementFails(c)
             \/ PurgeOldSnapshots \/ UNCHANGED vars
    <2>1. UNCHANGED status
      BY <1>5 DEF Ages, SkipWriteTest, Deprecate, Requests, StatementFails,
                  PurgeOldSnapshots, vars, RequestProbe, RequestReset, RequestComplete,
                  RequestMapping
    <2> QED
      BY <2>1 DEF OneSessionPerDevice
  <1> QED
    BY <1>1, <1>2, <1>3, <1>4, <1>5 DEF Next

-----------------------------------------------------------------------------
(* What Complete makes.                                                    *)

Late == {"create", "params", "record", "link", "finish"}

\* The parts of ResultSound: the results, and one call.
RowsSound == \A m \in Mappings : row[m].read /\ row[m].write => m \in tested
LinksSound == \A s \in Sessions : generated[s] # NoProfile => Homologated(generated[s], s)
DoneSound == \A s \in Sessions : status[s] = "completed" => generated[s] # NoProfile
ResultOf(r) ==
    /\ r.at \in Late => Tested(r.params, r.s)
    /\ r.at \in Late \ {"create"} => profile[r.p].session = r.s
    /\ r.at \in Late \ {"create", "params"} => Tested(profile[r.p].params, r.s)
    /\ r.at \in {"link", "finish"} => record[r.p] # "none"
    /\ r.at = "finish" => generated[r.s] # NoProfile

LEMMA ResultParts ==
    ResultSound <=> /\ RowsSound /\ HomologatedIsTested /\ LinksSound /\ DoneSound
                    /\ \A c \in Calls : ResultOf(call[c])
  BY DEF ResultSound, RowsSound, LinksSound, DoneSound, ResultOf, Late

LEMMA ResultPartsNext ==
    /\ (RowsSound /\ HomologatedIsTested /\ LinksSound /\ DoneSound)'
    /\ \A c \in Calls : ResultOf(call[c])'
    => ResultSound'
  BY DEF ResultSound, RowsSound, LinksSound, DoneSound, ResultOf, Late

\* A step of anything but Complete: the profiles, their records and the links
\* stay, tested mappings stay tested, and no call comes to a late stage.
LEMMA OtherStep ==
    ASSUME ResultSound, UNCHANGED resultVars, tested \subseteq tested', RowsSound',
           \A s \in Sessions : status'[s] = "completed" =>
               status[s] = "completed" \/ generated[s] # NoProfile,
           \A c \in Calls : call'[c] = call[c] \/ call'[c].at \notin Late
    PROVE  ResultSound'
  <1> USE ResultParts, ResultPartsNext DEF resultVars
  <1>1. HomologatedIsTested'
    BY DEF HomologatedIsTested
  <1>2. LinksSound' /\ DoneSound'
    BY DEF LinksSound, DoneSound, Homologated
  <1>3. ASSUME NEW c \in Calls PROVE ResultOf(call[c])'
    <2>1. CASE call'[c] = call[c]
      BY <2>1 DEF ResultOf, Tested, Late
    <2>2. CASE call'[c].at \notin Late
      BY <2>2 DEF ResultOf, Late
    <2> QED
      BY <2>1, <2>2
  <1> QED
    BY <1>1, <1>2, <1>3

\* A call of Complete goes on, and the others keep what they hold.
LEMMA GotoResult ==
    ASSUME TypeOK, ResultSound, NEW c \in Calls, NEW r, ResultOf(r)',
           call' = [call EXCEPT ![c] = r],
           \A q : ResultOf(q) => ResultOf(q)'
    PROVE  \A d \in Calls : ResultOf(call[d])'
  <1>1. ResultOf(call[c])'
    <2>1. call'[c] = r
      BY DEF TypeOK
    <2> QED
      BY <2>1 DEF ResultOf
  <1>2. ASSUME NEW d \in Calls \ {c} PROVE ResultOf(call[d])'
    <2>1. call'[d] = call[d]
      BY DEF TypeOK
    <2>2. ResultOf(call[d])
      BY ResultParts
    <2> QED
      BY <2>1, <2>2 DEF ResultOf
  <1> QED
    BY <1>1, <1>2

LEMMA TestedSession ==
    ASSUME TypeOK, NEW params, NEW s, Tested(params, s)
    PROVE  s \in Sessions
  BY ConstantsAssumption DEF Tested, TypeOK

LEMMA ListStep ==
    ASSUME TypeOK, CallSound, ResultSound, NEW c \in Calls, ListMappings(c)
    PROVE  ResultSound'
  <1> USE DEF sessionVars, resultVars
  <1> DEFINE eligible == {m \in Rows(call[c].s) : EligibleForProfile(m)}
             new == [call[c] EXCEPT !.at = "create", !.params = eligible]
  <1>1. CASE eligible = {}
    <2>1. call' = [call EXCEPT ![c] = Idle]
      BY <1>1 DEF ListMappings, Goto
    <2>2. \A d \in Calls : call'[d] = call[d] \/ call'[d].at \notin Late
      BY <2>1 DEF TypeOK, Idle, Late
    <2>3. RowsSound' /\ tested' = tested /\ UNCHANGED status
      BY ResultParts DEF ListMappings, RowsSound
    <2> QED
      BY <2>2, <2>3, OtherStep DEF ListMappings
  <1>2. CASE eligible # {}
    <2>1. call' = [call EXCEPT ![c] = new]
      BY <1>2 DEF ListMappings
    <2>2. new.at = "create" /\ new.params = eligible /\ new.s = call[c].s
      BY DEF TypeOK, CallRecord
    <2>3. Tested(eligible, call[c].s)
      BY <1>2, ResultParts DEF Tested, Rows, EligibleForProfile, RowsSound
    <2>4. UNCHANGED <<status, row, profile, record, generated, tested>>
      BY DEF ListMappings
    <2> HIDE DEF new, eligible
    <2>5. ResultOf(new)
      BY <2>2, <2>3 DEF ResultOf, Late
    <2>6. ASSUME NEW d \in Calls PROVE ResultOf(call[d])'
      <3>1. ResultOf(call'[d])
        BY <2>1, <2>5, ResultParts DEF TypeOK
      <3> QED
        BY <2>4, <3>1 DEF ResultOf, Tested
    <2>7. (RowsSound /\ HomologatedIsTested /\ LinksSound /\ DoneSound)'
      BY <2>4, ResultParts
      DEF RowsSound, HomologatedIsTested, LinksSound, DoneSound, Homologated
    <2> QED
      BY <2>6, <2>7, ResultPartsNext
  <1> QED
    BY <1>1, <1>2

LEMMA CreateStep ==
    ASSUME TypeOK, CallSound, ResultSound, NEW c \in Calls, NEW p \in Profiles,
           CreateProfile(c, p), profile[p].session = NoSession
    PROVE  ResultSound'
  <1> USE ConstantsAssumption DEF sessionVars, resultVars
  <1> DEFINE new == [call[c] EXCEPT !.at = "params", !.p = p]
  <1>1. UNCHANGED <<status, row, record, generated, tested>>
    BY DEF CreateProfile
  <1>2. /\ profile'[p].session = call[c].s /\ profile'[p].params = profile[p].params
        /\ \A q \in Profiles \ {p} : profile'[q] = profile[q]
    BY DEF CreateProfile, TypeOK, ProfileRow
  <1>3. Tested(call[c].params, call[c].s)
    BY ResultParts DEF CreateProfile, ResultOf, Late
  <1>4. record[p] = "none"
    <2>1. \A s : Tested(profile[p].params, s) => s \in Sessions
      BY TestedSession
    <2>2. record[p] # "none" => Tested(profile[p].params, NoSession)
      BY ResultParts DEF HomologatedIsTested, Tested
    <2> QED
      BY <2>1, <2>2
  <1>5. \A d \in Calls : ResultOf(call[d])'
    <2>1. call' = [call EXCEPT ![c] = new]
      BY DEF CreateProfile
    <2>2. /\ new.at = "params" /\ new.params = call[c].params
          /\ new.s = call[c].s /\ new.p = p
      BY DEF TypeOK, CallRecord
    <2> HIDE DEF new
    <2>3. ASSUME NEW d \in Calls PROVE ResultOf(call[d])'
      <3>1. CASE d = c
        <4>1. call'[d] = new
          BY <2>1, <3>1 DEF TypeOK
        <4> QED
          BY <1>1, <1>2, <1>3, <2>2, <4>1 DEF ResultOf, Late, Tested
      <3>2. CASE d # c
        <4>1. call'[d] = call[d]
          BY <2>1, <3>2 DEF TypeOK
        <4>2. ResultOf(call[d])
          BY ResultParts
        <4>3. call[d].at \in Late \ {"create"} => call[d].p \in Profiles /\ call[d].s \in Sessions
          BY DEF CallSound, Late
        <4>4. call[d].at \in Late \ {"create"} => call[d].p # p
          BY <4>2, <4>3 DEF ResultOf
        <4> QED
          BY <1>1, <1>2, <4>1, <4>2, <4>3, <4>4 DEF ResultOf, Late, Tested
      <3> QED
        BY <3>1, <3>2
    <2> QED
      BY <2>3
  <1>6. HomologatedIsTested'
    BY <1>1, <1>2, <1>4, ResultParts DEF HomologatedIsTested
  <1>7. (RowsSound /\ LinksSound /\ DoneSound)'
    <2>1. ASSUME NEW s \in Sessions, Homologated(generated[s], s)
          PROVE  Homologated(generated[s], s)'
      BY <1>1, <1>2, <2>1 DEF Homologated
    <2> QED
      BY <1>1, <2>1, ResultParts DEF RowsSound, LinksSound, DoneSound
  <1> QED
    BY <1>5, <1>6, <1>7, ResultPartsNext

LEMMA ReplaceStep ==
    ASSUME TypeOK, CallSound, ResultSound, NEW c \in Calls, ReplaceParameters(c)
    PROVE  ResultSound'
  <1> USE DEF sessionVars, resultVars
  <1> DEFINE p == call[c].p
             new == [call[c] EXCEPT !.at = "record"]
  <1>1. UNCHANGED <<status, row, record, generated, tested>> /\ p \in Profiles
    BY DEF ReplaceParameters, CallSound
  <1>2. /\ profile'[p].session = call[c].s /\ profile[p].session = call[c].s
        /\ profile'[p].params = call[c].params
        /\ \A q \in Profiles \ {p} : profile'[q] = profile[q]
    BY <1>1, ResultParts DEF ReplaceParameters, TypeOK, ProfileRow, ResultOf, Late
  <1>3. Tested(call[c].params, call[c].s)
    BY ResultParts DEF ReplaceParameters, ResultOf, Late
  <1>4. /\ call' = [call EXCEPT ![c] = new] /\ new.at = "record"
        /\ new.s = call[c].s /\ new.p = p /\ new.params = call[c].params
    BY DEF ReplaceParameters, Goto, TypeOK, CallRecord
  <1> HIDE DEF new, p
  <1>5. ASSUME NEW d \in Calls PROVE ResultOf(call[d])'
    <2>1. CASE d = c
      <3>1. call'[d] = new
        BY <1>4, <2>1 DEF TypeOK
      <3> QED
        BY <1>1, <1>2, <1>3, <1>4, <3>1 DEF ResultOf, Late, Tested
    <2>2. CASE d # c
      <3>1. call'[d] = call[d]
        BY <1>4, <2>2 DEF TypeOK
      <3>2. ResultOf(call[d])
        BY ResultParts
      <3>3. call[d].at \in Late \ {"create"} => call[d].p \in Profiles
        BY DEF CallSound, Late
      <3>4. call[d].at \in Late \ {"create"} /\ call[d].p = p => call[d].s = call[c].s
        BY <1>2, <3>2 DEF ResultOf
      <3> QED
        BY <1>1, <1>2, <1>3, <3>1, <3>2, <3>3, <3>4 DEF ResultOf, Late, Tested
    <2> QED
      BY <2>1, <2>2
  <1>6. HomologatedIsTested'
    BY <1>1, <1>2, <1>3, ResultParts DEF HomologatedIsTested, Tested
  <1>7. (RowsSound /\ LinksSound /\ DoneSound)'
    <2>1. ASSUME NEW s \in Sessions, Homologated(generated[s], s)
          PROVE  Homologated(generated[s], s)'
      BY <1>1, <1>2, <2>1 DEF Homologated
    <2> QED
      BY <1>1, <2>1, ResultParts DEF RowsSound, LinksSound, DoneSound
  <1> QED
    BY <1>5, <1>6, <1>7, ResultPartsNext

\* The record, whether Complete makes it or somebody deprecates it, says
\* "homologated" or has said so.
LEMMA RecordStep ==
    ASSUME TypeOK, CallSound, ResultSound, NEW c \in Calls, RecordHomologation(c)
    PROVE  ResultSound'
  <1> USE DEF sessionVars, resultVars
  <1> DEFINE p == call[c].p
             new == [call[c] EXCEPT !.at = "link"]
  <1>1. UNCHANGED <<status, row, profile, generated, tested>> /\ p \in Profiles
    BY DEF RecordHomologation, CallSound
  <1>2. /\ record'[p] # "none"
        /\ \A q \in Profiles : record[q] # "none" => record'[q] # "none"
        /\ \A q \in Profiles \ {p} : record'[q] = record[q]
    BY <1>1 DEF RecordHomologation, TypeOK
  <1>3. Tested(profile[p].params, profile[p].session) /\ ResultOf(call[c])
    BY ResultParts DEF RecordHomologation, ResultOf, Late
  <1>4. /\ call' = [call EXCEPT ![c] = new] /\ new.at = "link"
        /\ new.s = call[c].s /\ new.p = p /\ new.params = call[c].params
        /\ call[c].at = "record"
    BY DEF RecordHomologation, Goto, TypeOK, CallRecord
  <1>5. ASSUME NEW d \in Calls PROVE ResultOf(call[d])'
    <2> HIDE DEF new
    <2>1. CASE d = c
      <3>1. call'[d] = new
        BY <1>4, <2>1 DEF TypeOK
      <3> QED
        BY <1>1, <1>2, <1>3, <1>4, <3>1 DEF ResultOf, Late, Tested
    <2>2. CASE d # c
      <3>1. call'[d] = call[d]
        BY <1>4, <2>2 DEF TypeOK
      <3>2. ResultOf(call[d])
        BY ResultParts
      <3>3. call[d].at \in Late \ {"create"} => call[d].p \in Profiles
        BY DEF CallSound, Late
      <3> QED
        BY <1>1, <1>2, <3>1, <3>2, <3>3 DEF ResultOf, Late, Tested
    <2> QED
      BY <2>1, <2>2
  <1>6. HomologatedIsTested'
    BY <1>1, <1>2, <1>3, ResultParts DEF HomologatedIsTested, Tested
  <1>7. (RowsSound /\ LinksSound /\ DoneSound)'
    <2>1. ASSUME NEW s \in Sessions, Homologated(generated[s], s)
          PROVE  Homologated(generated[s], s)'
      BY <1>1, <1>2, <2>1 DEF Homologated
    <2> QED
      BY <1>1, <2>1, ResultParts DEF RowsSound, LinksSound, DoneSound
  <1> QED
    BY <1>5, <1>6, <1>7, ResultPartsNext

LEMMA LinkStep ==
    ASSUME TypeOK, CallSound, ResultSound, NEW c \in Calls, SetGeneratedProfile(c)
    PROVE  ResultSound'
  <1> USE ConstantsAssumption DEF sessionVars, resultVars
  <1> DEFINE p == call[c].p
             u == call[c].s
             new == [call[c] EXCEPT !.at = "finish"]
  <1>1. /\ UNCHANGED <<status, row, profile, record, tested>>
        /\ p \in Profiles /\ u \in Sessions
    BY DEF SetGeneratedProfile, CallSound
  <1>2. /\ generated'[u] = p
        /\ \A s \in Sessions \ {u} : generated'[s] = generated[s]
    BY <1>1 DEF SetGeneratedProfile, TypeOK
  <1>3. ResultOf(call[c]) /\ Homologated(p, u)
    BY <1>1, ResultParts DEF SetGeneratedProfile, ResultOf, Late, Homologated
  <1>4. /\ call' = [call EXCEPT ![c] = new] /\ new.at = "finish"
        /\ new.s = u /\ new.p = p /\ new.params = call[c].params
        /\ call[c].at = "link"
    BY DEF SetGeneratedProfile, Goto, TypeOK, CallRecord
  <1>5. ASSUME NEW d \in Calls PROVE ResultOf(call[d])'
    <2> HIDE DEF new
    <2>1. CASE d = c
      <3>1. call'[d] = new
        BY <1>4, <2>1 DEF TypeOK
      <3> QED
        BY <1>1, <1>2, <1>3, <1>4, <3>1 DEF ResultOf, Late, Tested
    <2>2. CASE d # c
      <3>1. call'[d] = call[d]
        BY <1>4, <2>2 DEF TypeOK
      <3>2. ResultOf(call[d])
        BY ResultParts
      <3>3. call[d].at = "finish" => call[d].s \in Sessions
        BY DEF CallSound
      <3> QED
        BY <1>1, <1>2, <3>1, <3>2, <3>3 DEF ResultOf, Late, Tested
    <2> QED
      BY <2>1, <2>2
  <1>6. LinksSound'
    <2>1. ASSUME NEW s \in Sessions, generated'[s] # NoProfile
          PROVE  Homologated(generated[s], s)'
      BY <1>1, <1>2, <1>3, <2>1, ResultParts DEF Homologated, LinksSound
    <2> QED
      BY <2>1 DEF LinksSound
  <1>7. (RowsSound /\ HomologatedIsTested /\ DoneSound)'
    BY <1>1, <1>2, ResultParts DEF RowsSound, HomologatedIsTested, DoneSound
  <1> QED
    BY <1>5, <1>6, <1>7, ResultPartsNext

LEMMA DeprecateStep ==
    ASSUME TypeOK, ResultSound, NEW p \in Profiles, Deprecate(p)
    PROVE  ResultSound'
  <1> USE DEF sessionVars, resultVars
  <1>1. UNCHANGED <<status, row, profile, generated, call, tested>>
    BY DEF Deprecate
  <1>2. \A q : record[q] # "none" => record'[q] # "none"
    BY DEF Deprecate, TypeOK
  <1>3. \A q \in Profiles : record'[q] # "none" => record[q] # "none"
    BY DEF Deprecate, TypeOK
  <1>4. ASSUME NEW d \in Calls PROVE ResultOf(call[d])'
    BY <1>1, <1>2, ResultParts DEF ResultOf, Late, Tested
  <1>5. (RowsSound /\ HomologatedIsTested /\ DoneSound)'
    BY <1>1, <1>3, ResultParts DEF RowsSound, HomologatedIsTested, DoneSound
  <1>6. LinksSound'
    BY <1>1, <1>2, ResultParts DEF LinksSound, Homologated
  <1> QED
    BY <1>4, <1>5, <1>6, ResultPartsNext

\* A call that begins, goes on before its last stages, or ends.
LEMMA EarlyCall ==
    ASSUME TypeOK, NEW c \in Calls,
           \/ \E at : Goto(c, at) /\ at \notin Late
           \/ \E r : call' = [call EXCEPT ![c] = r] /\ r.at \notin Late
    PROVE  \A d \in Calls : call'[d] = call[d] \/ call'[d].at \notin Late
  <1>1. Idle.at \notin Late
    BY DEF Idle, Late
  <1>2. ASSUME NEW at, Goto(c, at), at \notin Late
        PROVE  \E r : call' = [call EXCEPT ![c] = r] /\ r.at \notin Late
    <2>1. [call[c] EXCEPT !.at = at].at = at
      BY DEF TypeOK, CallRecord
    <2> QED
      BY <1>1, <1>2, <2>1 DEF Goto
  <1>3. PICK r : call' = [call EXCEPT ![c] = r] /\ r.at \notin Late
    BY <1>2
  <1> QED
    BY <1>3 DEF TypeOK

\* A result is written, and a mapping that becomes eligible becomes tested.
LEMMA WriteResultRows ==
    ASSUME TypeOK, RowsSound, NEW m \in Mappings, NEW read, NEW write,
           WriteResult(m, read, write)
    PROVE  RowsSound' /\ tested \subseteq tested'
  <1>1. CASE row[m].state = "present"
    <2>1. /\ row' = [row EXCEPT ![m] = [@ EXCEPT !.read = read, !.write = write]]
          /\ tested' = IF read /\ write THEN tested \cup {m} ELSE tested
      BY <1>1 DEF WriteResult
    <2>2. row'[m].read = read /\ row'[m].write = write
      BY <2>1 DEF TypeOK, MappingRow
    <2>3. \A n \in Mappings \ {m} : row'[n] = row[n]
      BY <2>1 DEF TypeOK
    <2> QED
      BY <2>1, <2>2, <2>3 DEF RowsSound
  <1>2. CASE row[m].state # "present"
    BY <1>2 DEF WriteResult, RowsSound
  <1> QED
    BY <1>1, <1>2

LEMMA ResultStep == TypeOK /\ CallSound /\ ResultSound /\ [Next]_vars => ResultSound'
  <1> SUFFICES ASSUME TypeOK, CallSound, ResultSound, [Next]_vars PROVE ResultSound'
    OBVIOUS
  <1> USE DEF sessionVars, resultVars
  <1>0. RowsSound /\ DoneSound
    BY ResultParts
  <1>1. ASSUME UNCHANGED <<row, tested>>, UNCHANGED resultVars,
               \A s \in Sessions : status'[s] = "completed" => status[s] = "completed",
               \A c \in Calls : call'[c] = call[c] \/ call'[c].at \notin Late
        PROVE  ResultSound'
    <2>1. RowsSound'
      BY <1>0, <1>1 DEF RowsSound
    <2> QED
      BY <1>1, <2>1, OtherStep
  <1>2. ASSUME NEW s \in Sessions, StartSession(s) \/ Abandon(s) \/ Ages(s)
        PROVE  ResultSound'
    <2>1. \A t \in Sessions : status'[t] = "completed" => status[t] = "completed"
      BY <1>2 DEF StartSession, Abandon, Ages, SetStatus, TypeOK
    <2> QED
      BY <1>1, <1>2, <2>1 DEF StartSession, Abandon, Ages
  <1>3. ASSUME NEW m \in Mappings, SkipWriteTest(m) PROVE ResultSound'
    BY <1>0, <1>3, WriteResultRows, OtherStep DEF SkipWriteTest
  <1>4. ASSUME NEW p \in Profiles, Deprecate(p) PROVE ResultSound'
    BY <1>4, DeprecateStep
  <1>5. ASSUME NEW c \in Calls, Requests(c) PROVE ResultSound'
    <2>1. \E r : call' = [call EXCEPT ![c] = r] /\ r.at \notin Late
      <3>1. ASSUME NEW s \in Sessions, RequestProbe(c, s) \/ RequestComplete(c, s)
            PROVE  \E r : call' = [call EXCEPT ![c] = r] /\ r.at \notin Late
        <4>1. \A at \in {"probe", "markprobing", "list"} :
                [Idle EXCEPT !.at = at, !.s = s].at \notin Late
          BY DEF Idle, Late
        <4>2. PICK at \in {"probe", "markprobing", "list"} : Begin(c, at, s)
          BY <3>1 DEF RequestProbe, RequestComplete
        <4> QED
          BY <4>1, <4>2 DEF Begin
      <3>2. ASSUME NEW s \in Sessions, RequestReset(c, s)
            PROVE  \E r : call' = [call EXCEPT ![c] = r] /\ r.at \notin Late
        <4>1. \A back : [Idle EXCEPT !.at = "reset", !.s = s, !.back = back].at \notin Late
          BY DEF Idle, Late
        <4> QED
          BY <3>2, <4>1 DEF RequestReset
      <3>3. ASSUME NEW m \in Mappings, NEW at \in {"add", "remove", "read", "write"},
                   RequestMapping(c, m, at)
            PROVE  \E r : call' = [call EXCEPT ![c] = r] /\ r.at \notin Late
        <4>1. [Idle EXCEPT !.at = at, !.s = SessionOf[m], !.m = m].at \notin Late
          BY DEF Idle, Late
        <4> QED
          BY <3>3, <4>1 DEF RequestMapping
      <3> QED
        BY <1>5, <3>1, <3>2, <3>3 DEF Requests
    <2>2. UNCHANGED <<row, tested>> /\ UNCHANGED resultVars /\ UNCHANGED status
      BY <1>5 DEF Requests, RequestProbe, RequestReset, RequestComplete, RequestMapping
    <2> QED
      BY <1>1, <2>1, <2>2, EarlyCall
  <1>6. ASSUME NEW c \in Calls, Probe(c) \/ ResetProbe(c) PROVE ResultSound'
    <2>0. call[c].s \in Sessions /\ call[c].back \in Active
      BY <1>6 DEF CallSound, TypeOK, CallRecord, Probe, ResetProbe, MarkProbing, ProbeRead,
                  ProbeMark, SaveSnapshot, ProbeSettle, SecondPass, Rollback
    <2>1. \/ \E at : Goto(c, at) /\ at \notin Late
          \/ \E r : call' = [call EXCEPT ![c] = r] /\ r.at \notin Late
      <3>1. CASE ProbeRead(c)
        <4>1. [call[c] EXCEPT !.at = "mark", !.back = BeforeProbe(call[c].s)].at \notin Late
          BY DEF TypeOK, CallRecord, Late
        <4> DEFINE new == [call[c] EXCEPT !.at = "mark", !.back = BeforeProbe(call[c].s)]
        <4>2. call' = [call EXCEPT ![c] = new] \/ Goto(c, "idle")
          BY <3>1 DEF ProbeRead
        <4>3. "idle" \notin Late
          BY DEF Late
        <4> HIDE DEF new
        <4> QED
          BY <4>1, <4>2, <4>3 DEF new
      <3>2. CASE ~ProbeRead(c)
        BY <1>6, <3>2 DEF Probe, ResetProbe, MarkProbing, ProbeMark, SaveSnapshot,
                          ProbeSettle, SecondPass, Rollback, UpdateStatus, Late
      <3> QED
        BY <3>1, <3>2
    <2>2. \/ UNCHANGED status
          \/ \E st \in Active : status' = [status EXCEPT ![call[c].s] = st]
      BY <1>6, <2>0 DEF Probe, ResetProbe, MarkProbing, ProbeRead, ProbeMark, SaveSnapshot,
                  ProbeSettle, SecondPass, Rollback, UpdateStatus, SetStatus, Active
    <2>3. \A s \in Sessions : status'[s] = "completed" => status[s] = "completed"
      BY <2>2 DEF TypeOK, Active
    <2>4. UNCHANGED <<row, tested>> /\ UNCHANGED resultVars
      BY <1>6 DEF Probe, ResetProbe, MarkProbing, ProbeRead, ProbeMark, SaveSnapshot,
                  ProbeSettle, SecondPass, Rollback
    <2> QED
      BY <1>1, <2>1, <2>3, <2>4, EarlyCall
  <1>7. ASSUME NEW c \in Calls,
               AddMapping(c) \/ RemoveMapping(c) \/ RunReadTest(c) \/ RunWriteTest(c)
        PROVE  ResultSound'
    <2>1. \A d \in Calls : call'[d] = call[d] \/ call'[d].at \notin Late
      <3>1. Goto(c, "idle") /\ "idle" \notin Late
        BY <1>7 DEF AddMapping, RemoveMapping, RunReadTest, RunWriteTest, Late
      <3> QED
        BY <3>1, EarlyCall
    <2>2. call[c].m \in Mappings
      BY <1>7 DEF CallSound, AddMapping, RemoveMapping, RunReadTest, RunWriteTest
    <2>3. UNCHANGED status /\ UNCHANGED resultVars
      BY <1>7 DEF AddMapping, RemoveMapping, RunReadTest, RunWriteTest
    <2>4. RowsSound' /\ tested \subseteq tested'
      <3>1. CASE AddMapping(c) \/ RemoveMapping(c)
        <4>1. /\ tested' = tested
              /\ \/ UNCHANGED row
                 \/ row' = [row EXCEPT ![call[c].m] = Untested("present")]
                 \/ row' = [row EXCEPT ![call[c].m] = Untested("deleted")]
          BY <3>1 DEF AddMapping, RemoveMapping
        <4>2. \A n \in Mappings : row'[n].read /\ row'[n].write =>
                                    row[n].read /\ row[n].write
          BY <2>2, <4>1 DEF Untested, TypeOK, MappingRow
        <4> QED
          BY <1>0, <4>1, <4>2 DEF RowsSound
      <3>2. CASE RunReadTest(c) \/ RunWriteTest(c)
        <4>1. \E read, write : WriteResult(call[c].m, read, write)
          BY <3>2 DEF RunReadTest, RunWriteTest
        <4> QED
          BY <1>0, <2>2, <4>1, WriteResultRows
      <3> QED
        BY <1>7, <3>1, <3>2
    <2> QED
      BY <2>1, <2>3, <2>4, OtherStep
  <1>8. ASSUME NEW c \in Calls, Complete(c) PROVE ResultSound'
    <2>1. ASSUME NEW p \in Profiles, CreateProfile(c, p) PROVE ResultSound'
      <3>1. CASE profile[p].session = NoSession
        BY <2>1, <3>1, CreateStep
      <3>2. CASE profile[p].session # NoSession
        <4>1. Goto(c, "idle") /\ "idle" \notin Late
          BY <2>1, <3>2 DEF CreateProfile, Late
        <4> QED
          BY <1>1, <2>1, <3>2, <4>1, EarlyCall DEF CreateProfile
      <3> QED
        BY <3>1, <3>2
    <2>2. CASE FinishSession(c)
      <3>1. Goto(c, "idle") /\ "idle" \notin Late
        BY <2>2 DEF FinishSession, UpdateStatus, Late
      <3>2. generated[call[c].s] # NoProfile /\ call[c].s \in Sessions
        BY <2>2, ResultParts DEF FinishSession, ResultOf, CallSound
      <3>3. \A s \in Sessions : status'[s] = "completed" =>
                status[s] = "completed" \/ generated[s] # NoProfile
        BY <2>2, <3>2 DEF FinishSession, UpdateStatus, SetStatus, TypeOK
      <3>4. RowsSound' /\ UNCHANGED resultVars /\ tested \subseteq tested'
        BY <1>0, <2>2 DEF FinishSession, RowsSound
      <3> QED
        BY <3>1, <3>3, <3>4, EarlyCall, OtherStep
    <2> QED
      BY <1>8, <2>1, <2>2, ListStep, ReplaceStep, RecordStep, LinkStep DEF Complete
  <1>9. ASSUME NEW c \in Calls, StatementFails(c) PROVE ResultSound'
    <2>1. \E at : Goto(c, at) /\ at \notin Late
      BY <1>9 DEF StatementFails, Late
    <2> QED
      BY <1>1, <1>9, <2>1, EarlyCall DEF StatementFails
  <1>10. CASE Restart
    <2>1. \A c \in Calls : call'[c].at \notin Late
      BY <1>10 DEF Restart, Idle, Late
    <2>2. \A s \in Sessions : status'[s] = "completed" => status[s] = "completed"
      BY <1>10 DEF Restart
    <2> QED
      BY <1>1, <1>10, <2>1, <2>2 DEF Restart
  <1>11. CASE PurgeOldSnapshots \/ UNCHANGED vars
    BY <1>1, <1>11 DEF PurgeOldSnapshots, vars
  <1> QED
    BY <1>2, <1>3, <1>4, <1>5, <1>6, <1>7, <1>8, <1>9, <1>10, <1>11 DEF Next, Proceed

-----------------------------------------------------------------------------
(* A session in "testing" has its tree.                                    *)

TreeOf(r) ==
    /\ r.at # "idle" /\ r.back = "testing" => HasTree(r.s)
    /\ r.at = "settle" => HasTree(r.s)

LEMMA TreeParts == TreeSound <=> TestingHasTree /\ \A c \in Calls : TreeOf(call[c])
  BY DEF TreeSound, TreeOf

LEMMA TreePartsNext == TestingHasTree' /\ (\A c \in Calls : TreeOf(call[c])') => TreeSound'
  BY DEF TreeSound, TreeOf

\* A tree is only purged from a session that stays "old".
LEMMA TreeStays ==
    ASSUME TypeOK, CallSound, [Next]_vars, NEW s \in Sessions, HasTree(s)
    PROVE  HasTree(s)'
  <1> USE DEF sessionVars, resultVars
  <1>1. CASE PurgeOldSnapshots
    BY <1>1 DEF PurgeOldSnapshots, Purgeable, HasTree
  <1>2. ASSUME NEW u, NEW st, SetStatus(u, st) PROVE finished[s] = "old" => finished'[s] = "old"
    BY <1>2 DEF SetStatus, TypeOK
  <1>3. CASE ~PurgeOldSnapshots
    <2>1. probed[s] => probed'[s]
      BY <1>3, ZenonT(60) DEF Next, vars, TypeOK, StartSession, Abandon, Ages, SkipWriteTest, Deprecate,
           Requests, RequestProbe, RequestReset, RequestComplete, RequestMapping,
           Proceed, Probe, ResetProbe, MarkProbing, ProbeRead, ProbeMark, SaveSnapshot,
           ProbeSettle, SecondPass, Rollback, AddMapping, RemoveMapping, RunReadTest,
           RunWriteTest, Complete, ListMappings, CreateProfile, ReplaceParameters,
           RecordHomologation, SetGeneratedProfile, FinishSession, StatementFails, Restart
    <2>2. \/ UNCHANGED finished
          \/ \E u, st : SetStatus(u, st)
          \/ \E u \in Sessions : Ages(u)
      BY <1>3, ZenonT(60) DEF Next, vars, StartSession, Abandon, SkipWriteTest, Deprecate,
           Requests, RequestProbe, RequestReset, RequestComplete, RequestMapping,
           Proceed, Probe, ResetProbe, MarkProbing, ProbeRead, ProbeMark, SaveSnapshot,
           ProbeSettle, SecondPass, Rollback, AddMapping, RemoveMapping, RunReadTest,
           RunWriteTest, Complete, ListMappings, CreateProfile, ReplaceParameters,
           RecordHomologation, SetGeneratedProfile, FinishSession, StatementFails, Restart,
           UpdateStatus
    <2>3. (\E u \in Sessions : Ages(u)) /\ finished[s] = "old" => finished'[s] = "old"
      BY DEF Ages, TypeOK
    <2>4. finished[s] = "old" => finished'[s] = "old"
      BY <1>2, <2>2, <2>3
    <2> QED
      BY <2>1, <2>4 DEF HasTree, TypeOK
  <1> QED
    BY <1>1, <1>3

\* Enough to look at the one call that moves, and at who comes to "testing".
LEMMA TreeFrame ==
    ASSUME TypeOK, CallSound, TreeSound, [Next]_vars,
           NEW c \in Calls, NEW r, call' = [call EXCEPT ![c] = r],
           TreeOf(r)',
           \A s \in Sessions : status'[s] = "testing" => status[s] = "testing" \/ HasTree(s)
    PROVE  TreeSound'
  <1>1. TestingHasTree'
    <2>1. \A s \in Sessions : status'[s] = "testing" => HasTree(s)
      BY TreeParts DEF TestingHasTree, HasTree
    <2> QED
      BY <2>1, TreeStays DEF TestingHasTree, HasTree
  <1>2. ASSUME NEW d \in Calls PROVE TreeOf(call[d])'
    <2>1. CASE d = c
      <3>1. call'[d] = r
        BY <2>1 DEF TypeOK
      <3> QED
        BY <3>1 DEF TreeOf
    <2>2. CASE d # c
      <3>1. call'[d] = call[d]
        BY <2>2 DEF TypeOK
      <3>2. TreeOf(call[d]) /\ (call[d].at # "idle" => call[d].s \in Sessions)
        BY TreeParts DEF CallSound
      <3> QED
        BY <3>1, <3>2, TreeStays DEF TreeOf
    <2> QED
      BY <2>1, <2>2
  <1> QED
    BY <1>1, <1>2, TreePartsNext

\* A call that goes on keeps its session and the status to restore.
LEMMA TreeGoto ==
    ASSUME TypeOK, CallSound, TreeSound, [Next]_vars, NEW c \in Calls, NEW at, Goto(c, at),
           at # "idle" => call[c].at # "idle",
           NEW u, call[c].s = u, at = "settle" => HasTree(u)',
           \A s \in Sessions : status'[s] = "testing" => status[s] = "testing" \/ HasTree(s)
    PROVE  TreeSound'
  <1>1. CASE at = "idle"
    <2>1. Idle.at = "idle"
      BY DEF Idle
    <2>2. call' = [call EXCEPT ![c] = Idle]
      BY <1>1 DEF Goto
    <2> SUFFICES ASSUME NEW r, r = Idle PROVE TreeSound'
      OBVIOUS
    <2>3. TreeOf(r)'
      BY <2>1 DEF TreeOf
    <2> QED
      BY <2>2, <2>3, TreeFrame
  <1>2. CASE at # "idle"
    <2> DEFINE new == [call[c] EXCEPT !.at = at]
    <2>1. call' = [call EXCEPT ![c] = new]
      BY <1>2 DEF Goto
    <2>2. new.at = at /\ new.s = u /\ new.back = call[c].back
      BY DEF TypeOK, CallRecord
    <2>3. u \in Sessions /\ TreeOf(call[c])
      BY <1>2, TreeParts DEF CallSound
    <2>4. call[c].back = "testing" => HasTree(u)
      BY <1>2, <2>3 DEF TreeOf, HasTree
    <2>5. call[c].back = "testing" => HasTree(u)'
      BY <2>3, <2>4, TreeStays
    <2> HIDE DEF new
    <2> SUFFICES ASSUME NEW r, r = new PROVE TreeSound'
      OBVIOUS
    <2>6. TreeOf(r)'
      BY <2>2, <2>5 DEF TreeOf
    <2> QED
      BY <2>1, <2>2, <2>3, <2>6, TreeFrame
  <1> QED
    BY <1>1, <1>2

LEMMA TreeStep == TypeOK /\ CallSound /\ TreeSound /\ [Next]_vars => TreeSound'
  <1> SUFFICES ASSUME TypeOK, CallSound, TreeSound, [Next]_vars PROVE TreeSound'
    OBVIOUS
  <1> USE DEF sessionVars, resultVars
  <1> DEFINE StatusKept ==
        \A s \in Sessions : status'[s] = "testing" => status[s] = "testing" \/ HasTree(s)
  <1>1. ASSUME UNCHANGED call, StatusKept PROVE TreeSound'
    <2>1. ASSUME NEW c \in Calls, NEW r, r = call[c] PROVE TreeSound'
      <3>1. r.at # "idle" => r.s \in Sessions
        BY <2>1 DEF CallSound
      <3>2. r.at # "idle" /\ r.back = "testing" => HasTree(r.s)
        BY <2>1, TreeParts DEF TreeOf, HasTree
      <3>3. r.at = "settle" => HasTree(r.s)
        BY <2>1, TreeParts DEF TreeOf, HasTree
      <3>4. TreeOf(r)'
        BY <3>1, <3>2, <3>3, TreeStays DEF TreeOf
      <3>5. call' = [call EXCEPT ![c] = r]
        BY <1>1, <2>1 DEF TypeOK
      <3> QED
        BY <1>1, <3>4, <3>5, TreeFrame
    <2>2. CASE Calls = {}
      <3>1. \A s \in Sessions : status'[s] = "testing" => HasTree(s)
        BY <1>1, TreeParts DEF TestingHasTree, HasTree
      <3>2. TestingHasTree'
        BY <3>1, TreeStays DEF TestingHasTree, HasTree
      <3> QED
        BY <2>2, <3>2, TreePartsNext
    <2> QED
      BY <2>1, <2>2
  <1>2. ASSUME NEW s \in Sessions, StartSession(s) \/ Abandon(s) \/ Ages(s) PROVE TreeSound'
    BY <1>1, <1>2 DEF StartSession, Abandon, Ages, SetStatus, TypeOK
  <1>3. ASSUME NEW m \in Mappings, SkipWriteTest(m) PROVE TreeSound'
    BY <1>1, <1>3 DEF SkipWriteTest
  <1>4. ASSUME NEW p \in Profiles, Deprecate(p) PROVE TreeSound'
    BY <1>1, <1>4 DEF Deprecate
  <1>5. ASSUME NEW c \in Calls, Requests(c) PROVE TreeSound'
    <2>1. StatusKept
      BY <1>5 DEF Requests, RequestProbe, RequestReset, RequestComplete, RequestMapping
    <2>2. ASSUME NEW s \in Sessions, RequestProbe(c, s) \/ RequestComplete(c, s)
          PROVE  TreeSound'
      <3>1. PICK at \in {"probe", "markprobing", "list"} : Begin(c, at, s)
        BY <2>2 DEF RequestProbe, RequestComplete
      <3> SUFFICES ASSUME NEW r, r = [Idle EXCEPT !.at = at, !.s = s] PROVE TreeSound'
        OBVIOUS
      <3>2. TreeOf(r)'
        BY DEF TreeOf, Idle
      <3>3. call' = [call EXCEPT ![c] = r]
        BY <3>1 DEF Begin
      <3> QED
        BY <2>1, <3>2, <3>3, TreeFrame
    <2>3. ASSUME NEW s \in Sessions, RequestReset(c, s) PROVE TreeSound'
      <3> DEFINE back == IF probed[s] THEN "testing" ELSE "draft"
      <3>1. call' = [call EXCEPT ![c] = [Idle EXCEPT !.at = "reset", !.s = s, !.back = back]]
        BY <2>3 DEF RequestReset
      <3>2. back = "testing" => HasTree(s)
        BY DEF HasTree
      <3> HIDE DEF back
      <3> SUFFICES ASSUME NEW b, b = back PROVE TreeSound'
        OBVIOUS
      <3> SUFFICES ASSUME NEW r, r = [Idle EXCEPT !.at = "reset", !.s = s, !.back = b]
                   PROVE  TreeSound'
        OBVIOUS
      <3>3. r.at = "reset" /\ r.s = s /\ r.back = b
        BY DEF Idle
      <3>4. TreeOf(r)'
        BY <3>2, <3>3, TreeStays DEF TreeOf
      <3>5. call' = [call EXCEPT ![c] = r]
        BY <3>1
      <3> QED
        BY <2>1, <3>4, <3>5, TreeFrame
    <2>4. ASSUME NEW m \in Mappings, NEW at \in {"add", "remove", "read", "write"},
                 RequestMapping(c, m, at)
          PROVE  TreeSound'
      <3> SUFFICES ASSUME NEW r, r = [Idle EXCEPT !.at = at, !.s = SessionOf[m], !.m = m]
                   PROVE  TreeSound'
        OBVIOUS
      <3>1. TreeOf(r)'
        BY DEF TreeOf, Idle
      <3> QED
        BY <2>1, <2>4, <3>1, TreeFrame DEF RequestMapping
    <2> QED
      BY <1>5, <2>2, <2>3, <2>4 DEF Requests
  <1>6. ASSUME NEW c \in Calls, Probe(c) \/ ResetProbe(c) PROVE TreeSound'
    <2> DEFINE u == call[c].s
    <2>0. /\ call[c].at # "idle" /\ u \in Sessions
          /\ call[c].back = "testing" => HasTree(u)
          /\ call[c].at = "settle" => HasTree(u)
      <3>1. call[c].at # "idle" /\ TreeOf(call[c])
        BY <1>6, TreeParts DEF Probe, ResetProbe, MarkProbing, ProbeRead, ProbeMark,
                    SaveSnapshot, ProbeSettle, SecondPass, Rollback
      <3> QED
        BY <3>1 DEF CallSound, TreeOf, HasTree
    <2>1. CASE ProbeRead(c)
      <3>1. CASE status[u] \in Active
        <4>1. PICK back : /\ call' = [call EXCEPT ![c] = [call[c] EXCEPT !.at = "mark",
                                                                         !.back = back]]
                          /\ back = "testing" => HasTree(u)
          <5>1. BeforeProbe(u) = "testing" => HasTree(u)
            BY <2>0, TreeParts DEF BeforeProbe, TestingHasTree, HasTree
          <5> QED
            BY <2>1, <3>1, <5>1 DEF ProbeRead
        <4> SUFFICES ASSUME NEW r, r = [call[c] EXCEPT !.at = "mark", !.back = back]
                     PROVE  TreeSound'
          OBVIOUS
        <4> SUFFICES ASSUME NEW v, v = u PROVE TreeSound'
          OBVIOUS
        <4>2. r.at = "mark" /\ r.s = v /\ r.back = back
          BY DEF TypeOK, CallRecord
        <4>3. back = "testing" => HasTree(v)'
          <5>1. v \in Sessions /\ (back = "testing" => HasTree(v))
            BY <2>0, <4>1 DEF HasTree
          <5> QED
            BY <5>1, TreeStays
        <4>4. TreeOf(r)'
          BY <4>2, <4>3 DEF TreeOf
        <4> QED
          BY <2>1, <4>1, <4>4, TreeFrame DEF ProbeRead
      <3>2. CASE status[u] \notin Active
        BY <2>1, <3>2, <2>0, TreeGoto DEF ProbeRead
      <3> QED
        BY <3>1, <3>2
    <2>2. CASE SaveSnapshot(c)
      <3>1. PICK at \in {"settle", "rollback"} :
              Goto(c, at) /\ (at = "settle" => probed' = [probed EXCEPT ![u] = TRUE])
        BY <2>2 DEF SaveSnapshot
      <3> SUFFICES ASSUME NEW v, call[c].s = v PROVE TreeSound'
        OBVIOUS
      <3>2. at = "settle" => HasTree(v)'
        BY <2>0, <3>1 DEF HasTree, TypeOK
      <3> QED
        BY <2>0, <2>2, <3>1, <3>2, TreeGoto DEF SaveSnapshot
    <2>3. CASE ~ProbeRead(c) /\ ~SaveSnapshot(c)
      <3>1. PICK at : Goto(c, at) /\ at # "settle"
        BY <1>6, <2>3 DEF Probe, ResetProbe, MarkProbing, ProbeMark, ProbeSettle,
                          SecondPass, Rollback, UpdateStatus
      <3>2. \/ UNCHANGED status
            \/ \E st : /\ status' = [status EXCEPT ![u] = st]
                       /\ st = "testing" => HasTree(u)
        BY <1>6, <2>0, <2>3 DEF Probe, ResetProbe, MarkProbing, ProbeMark, ProbeSettle,
                          SecondPass, Rollback, UpdateStatus, SetStatus
      <3>3. StatusKept
        BY <2>0, <3>2 DEF TypeOK, HasTree
      <3> QED
        BY <2>0, <3>1, <3>3, TreeGoto
    <2> QED
      BY <2>1, <2>2, <2>3
  <1>7. ASSUME NEW c \in Calls,
               AddMapping(c) \/ RemoveMapping(c) \/ RunReadTest(c) \/ RunWriteTest(c)
        PROVE  TreeSound'
    <2>1. Goto(c, "idle") /\ UNCHANGED status
      BY <1>7 DEF AddMapping, RemoveMapping, RunReadTest, RunWriteTest
    <2> QED
      BY <2>1, TreeGoto
  <1>8. ASSUME NEW c \in Calls, Complete(c) PROVE TreeSound'
    <2>1. StatusKept
      BY <1>8 DEF Complete, ListMappings, CreateProfile, ReplaceParameters,
                  RecordHomologation, SetGeneratedProfile, FinishSession, UpdateStatus,
                  SetStatus, TypeOK
    <2>2. CASE \E at : Goto(c, at) /\ at # "settle" /\ call[c].at # "idle"
      BY <2>1, <2>2, TreeGoto
    <2>3. ASSUME NEW r, call' = [call EXCEPT ![c] = r], call[c].at # "idle",
                 r.at \in {"create", "params"}, r.s = call[c].s, r.back = call[c].back
          PROVE  TreeSound'
      <3>1. r.s \in Sessions /\ (r.back = "testing" => HasTree(r.s))
        BY <2>3, TreeParts DEF CallSound, TreeOf, HasTree
      <3>2. TreeOf(r)'
        BY <2>3, <3>1, TreeStays DEF TreeOf
      <3> QED
        BY <2>1, <2>3, <3>2, TreeFrame
    <2>4. CASE ListMappings(c)
      <3>1. PICK params : \/ Goto(c, "idle")
                          \/ call' = [call EXCEPT ![c] = [call[c] EXCEPT !.at = "create",
                                                                         !.params = params]]
        BY <2>4 DEF ListMappings
      <3> DEFINE new == [call[c] EXCEPT !.at = "create", !.params = params]
      <3>2. new.at = "create" /\ new.s = call[c].s /\ new.back = call[c].back
        BY DEF TypeOK, CallRecord
      <3>3. call[c].at # "idle"
        BY <2>4 DEF ListMappings
      <3>4. Goto(c, "idle") \/ call' = [call EXCEPT ![c] = new]
        BY <3>1
      <3> HIDE DEF new
      <3> QED
        BY <2>2, <2>3, <3>2, <3>3, <3>4
    <2>5. ASSUME NEW p \in Profiles, CreateProfile(c, p) PROVE TreeSound'
      <3> DEFINE new == [call[c] EXCEPT !.at = "params", !.p = p]
      <3>1. new.at = "params" /\ new.s = call[c].s /\ new.back = call[c].back
        BY DEF TypeOK, CallRecord
      <3>2. call[c].at # "idle" /\ (Goto(c, "idle") \/ call' = [call EXCEPT ![c] = new])
        BY <2>5 DEF CreateProfile
      <3> HIDE DEF new
      <3> QED
        BY <2>2, <2>3, <3>1, <3>2
    <2>6. CASE ReplaceParameters(c) \/ RecordHomologation(c) \/ SetGeneratedProfile(c)
               \/ FinishSession(c)
      BY <2>2, <2>6 DEF ReplaceParameters, RecordHomologation, SetGeneratedProfile,
                        FinishSession, UpdateStatus
    <2> QED
      BY <1>8, <2>4, <2>5, <2>6 DEF Complete
  <1>9. ASSUME NEW c \in Calls, StatementFails(c) PROVE TreeSound'
    <2>1. PICK at \in {"rollback", "idle"} : Goto(c, at) /\ (at = "rollback" => call[c].at # "idle")
      BY <1>9 DEF StatementFails
    <2> QED
      BY <1>9, <2>1, TreeGoto DEF StatementFails
  <1>10. CASE Restart
    <2>1. \A s \in Sessions : status'[s] = "testing" => HasTree(s)
      BY <1>10, TreeParts DEF Restart, TestingHasTree, HasTree
    <2>2. TestingHasTree'
      BY <2>1, TreeStays DEF TestingHasTree, HasTree
    <2>3. \A c \in Calls : TreeOf(call[c])'
      BY <1>10 DEF Restart, Idle, TreeOf
    <2> QED
      BY <2>2, <2>3, TreePartsNext
  <1>11. CASE PurgeOldSnapshots \/ UNCHANGED vars
    BY <1>1, <1>11 DEF PurgeOldSnapshots, vars
  <1> QED
    BY <1>2, <1>3, <1>4, <1>5, <1>6, <1>7, <1>8, <1>9, <1>10, <1>11 DEF Next, Proceed

-----------------------------------------------------------------------------
(* A session is "probing" only while a probe of it is in flight.           *)

Pending == ProbeStages \ {"pass2"}

\* Enough to look at the one call that moves: a session that is "probing" has
\* this call's probe, or had and keeps another one.
LEMMA ProbeFrame ==
    ASSUME TypeOK, ProbeSound, NEW c \in Calls, NEW r, call' = [call EXCEPT ![c] = r],
           r.back # "probing",
           faults' = 0 => faults = 0,
           faults' = 0 => \A s \in Sessions : status'[s] = "probing" =>
               \/ r.s = s /\ r.at \in Pending
               \/ status[s] = "probing" /\ ~(call[c].s = s /\ call[c].at \in Pending)
    PROVE  ProbeSound'
  <1>1. call'[c] = r /\ \A d \in Calls \ {c} : call'[d] = call[d]
    BY DEF TypeOK
  <1>2. \A d \in Calls : call'[d].back # "probing"
    BY <1>1 DEF ProbeSound
  <1>3. ASSUME NEW s \in Sessions, faults' = 0, status'[s] = "probing"
        PROVE  \E d \in Calls : call'[d].s = s /\ call'[d].at \in Pending
    <2>1. CASE r.s = s /\ r.at \in Pending
      BY <1>1, <2>1
    <2>2. CASE status[s] = "probing" /\ ~(call[c].s = s /\ call[c].at \in Pending)
      <3>1. PICK d \in Calls : call[d].s = s /\ call[d].at \in Pending
        BY <1>3, <2>2 DEF ProbeSound, ProbePending, Pending
      <3> QED
        BY <1>1, <2>2, <3>1
    <2> QED
      BY <1>3, <2>1, <2>2
  <1> QED
    BY <1>2, <1>3 DEF ProbeSound, ProbePending, Pending

LEMMA ProbeGoto ==
    ASSUME TypeOK, ProbeSound, NEW c \in Calls, NEW at, Goto(c, at),
           faults' = 0 => faults = 0,
           faults' = 0 => \A s \in Sessions : status'[s] = "probing" =>
               \/ call[c].s = s /\ at \in Pending
               \/ status[s] = "probing" /\ ~(call[c].s = s /\ call[c].at \in Pending)
    PROVE  ProbeSound'
  <1>1. CASE at = "idle"
    <2> SUFFICES ASSUME NEW r, r = Idle PROVE ProbeSound'
      OBVIOUS
    <2>1. r.back # "probing" /\ at \notin Pending
      BY <1>1 DEF Idle, Pending, ProbeStages
    <2>2. call' = [call EXCEPT ![c] = r]
      BY <1>1 DEF Goto
    <2> QED
      BY <2>1, <2>2, ProbeFrame
  <1>2. CASE at # "idle"
    <2> SUFFICES ASSUME NEW r, r = [call[c] EXCEPT !.at = at] PROVE ProbeSound'
      OBVIOUS
    <2>1. r.at = at /\ r.s = call[c].s /\ r.back = call[c].back
      BY DEF TypeOK, CallRecord
    <2>2. call[c].back # "probing"
      BY DEF ProbeSound
    <2>3. call' = [call EXCEPT ![c] = r]
      BY <1>2 DEF Goto
    <2> QED
      BY <2>1, <2>2, <2>3, ProbeFrame, ZenonT(60)
  <1> QED
    BY <1>1, <1>2

\* A session that the index keeps out is not active, so it is not "probing".
LEMMA BlockedNotProbing ==
    ASSUME OneSessionPerDevice, NEW s \in Sessions, NEW st, Blocked(s, st)
    PROVE  status[s] # "probing"
  BY DEF Blocked, OneSessionPerDevice, Active

LEMMA ProbeStep ==
    TypeOK /\ CallSound /\ OneSessionPerDevice /\ ProbeSound /\ [Next]_vars => ProbeSound'
  <1> SUFFICES ASSUME TypeOK, CallSound, OneSessionPerDevice, ProbeSound, [Next]_vars
               PROVE  ProbeSound'
    OBVIOUS
  <1> USE DEF sessionVars, resultVars
  <1>0. faults \in Nat
    BY DEF TypeOK
  <1>1. ASSUME UNCHANGED <<call, faults>>,
               \A s \in Sessions : status'[s] = "probing" => status[s] = "probing"
        PROVE  ProbeSound'
    BY <1>1 DEF ProbeSound, ProbePending
  <1>2. ASSUME NEW s \in Sessions, StartSession(s) \/ Abandon(s) \/ Ages(s) PROVE ProbeSound'
    BY <1>1, <1>2 DEF StartSession, Abandon, Ages, SetStatus, TypeOK
  <1>3. ASSUME NEW m \in Mappings, SkipWriteTest(m) PROVE ProbeSound'
    BY <1>1, <1>3 DEF SkipWriteTest
  <1>4. ASSUME NEW p \in Profiles, Deprecate(p) PROVE ProbeSound'
    BY <1>1, <1>4 DEF Deprecate
  <1>5. ASSUME NEW c \in Calls, Requests(c) PROVE ProbeSound'
    <2>1. PICK r : /\ call' = [call EXCEPT ![c] = r]
                   /\ call[c] = Idle
                   /\ r.back # "probing"
      <3>1. ASSUME NEW s \in Sessions, RequestProbe(c, s) \/ RequestComplete(c, s)
            PROVE  \E r : /\ call' = [call EXCEPT ![c] = r]
                          /\ call[c] = Idle
                          /\ r.back # "probing"
        <4>1. PICK at : Begin(c, at, s)
          BY <3>1 DEF RequestProbe, RequestComplete
        <4>2. [Idle EXCEPT !.at = at, !.s = s].back # "probing"
          BY DEF Idle
        <4> QED
          BY <4>1, <4>2 DEF Begin
      <3>2. ASSUME NEW s \in Sessions, RequestReset(c, s)
            PROVE  \E r : /\ call' = [call EXCEPT ![c] = r]
                          /\ call[c] = Idle
                          /\ r.back # "probing"
        <4> DEFINE back == IF probed[s] THEN "testing" ELSE "draft"
                   new == [Idle EXCEPT !.at = "reset", !.s = s, !.back = back]
        <4>1. new.back # "probing"
          BY DEF Idle
        <4>2. call' = [call EXCEPT ![c] = new] /\ call[c] = Idle
          BY <3>2 DEF RequestReset
        <4> HIDE DEF new
        <4> QED
          BY <4>1, <4>2
      <3>3. ASSUME NEW m \in Mappings, NEW at \in {"add", "remove", "read", "write"},
                   RequestMapping(c, m, at)
            PROVE  \E r : /\ call' = [call EXCEPT ![c] = r]
                          /\ call[c] = Idle
                          /\ r.back # "probing"
        <4>1. [Idle EXCEPT !.at = at, !.s = SessionOf[m], !.m = m].back # "probing"
          BY DEF Idle
        <4> QED
          BY <3>3, <4>1 DEF RequestMapping
      <3> QED
        BY <1>5, <3>1, <3>2, <3>3 DEF Requests
    <2>2. UNCHANGED <<status, faults>>
      BY <1>5 DEF Requests, RequestProbe, RequestReset, RequestComplete, RequestMapping
    <2>3. call[c].at \notin Pending
      BY <2>1 DEF Idle, Pending, ProbeStages
    <2> QED
      BY <2>1, <2>2, <2>3, ProbeFrame
  <1>6. ASSUME NEW c \in Calls, Probe(c) \/ ResetProbe(c) PROVE ProbeSound'
    <2> DEFINE u == call[c].s
    <2> USE DEF Pending, ProbeStages
    <2>0. u \in Sessions /\ call[c].back # "probing" /\ UNCHANGED faults
      BY <1>6 DEF CallSound, ProbeSound, Probe, ResetProbe, MarkProbing, ProbeRead,
                  ProbeMark, SaveSnapshot, ProbeSettle, SecondPass, Rollback
    <2>1. ASSUME NEW st, NEW then, NEW failed, UpdateStatus(c, st, then, failed),
                 st = "probing" => then \in Pending
          PROVE  ProbeSound'
      <3>1. CASE Blocked(u, st)
        <4>1. status[u] # "probing" /\ status' = status /\ Goto(c, failed)
          BY <2>0, <2>1, <3>1, BlockedNotProbing DEF UpdateStatus
        <4> QED
          BY <2>0, <4>1, ProbeGoto
      <3>2. CASE ~Blocked(u, st)
        <4>1. Goto(c, then) /\ status' = [status EXCEPT ![u] = st]
          BY <2>1, <3>2 DEF UpdateStatus, SetStatus
        <4>2. \A s \in Sessions : status'[s] = IF s = u THEN st ELSE status[s]
          BY <4>1 DEF TypeOK
        <4> QED
          BY <2>0, <2>1, <4>1, <4>2, ProbeGoto
      <3> QED
        BY <3>1, <3>2
    <2>2. CASE MarkProbing(c)
      BY <2>1, <2>2 DEF MarkProbing
    <2>3. CASE ProbeRead(c)
      <3>1. CASE status[u] \in Active
        <4> DEFINE back == BeforeProbe(u)
        <4> SUFFICES ASSUME NEW r, r = [call[c] EXCEPT !.at = "mark", !.back = back]
                     PROVE  ProbeSound'
          OBVIOUS
        <4>1. back # "probing"
          BY DEF BeforeProbe
        <4>2. r.at = "mark" /\ r.s = u /\ r.back = back
          BY DEF TypeOK, CallRecord
        <4>3. call' = [call EXCEPT ![c] = r]
          BY <2>3, <3>1 DEF ProbeRead
        <4>4. \A s \in Sessions : status'[s] = "probing" =>
                  \/ r.s = s /\ r.at \in Pending
                  \/ status[s] = "probing" /\ ~(u = s /\ call[c].at \in Pending)
          BY <2>3, <4>2 DEF ProbeRead
        <4>5. r.back # "probing" /\ (faults' = 0 => faults = 0)
          BY <2>0, <4>1, <4>2
        <4> QED
          BY <4>3, <4>4, <4>5, ProbeFrame, ZenonT(60)
      <3>2. CASE status[u] \notin Active
        <4>1. status[u] # "probing" /\ Goto(c, "idle") /\ UNCHANGED status
          BY <2>3, <3>2 DEF ProbeRead, Active
        <4> QED
          BY <2>0, <4>1, ProbeGoto
      <3> QED
        BY <3>1, <3>2
    <2>4. CASE ProbeMark(c)
      BY <2>1, <2>4 DEF ProbeMark
    <2>5. CASE SaveSnapshot(c)
      BY <2>0, <2>5, ProbeGoto DEF SaveSnapshot
    <2>6. CASE ProbeSettle(c)
      <3>1. CASE UpdateStatus(c, "testing", "pass2", "rollback")
        BY <2>1, <3>1
      <3>2. CASE Goto(c, "rollback") /\ UNCHANGED status
        BY <2>0, <3>2, ProbeGoto
      <3> QED
        BY <2>6, <3>1, <3>2 DEF ProbeSettle
    <2>7. CASE SecondPass(c)
      BY <2>0, <2>7, ProbeGoto DEF SecondPass
    <2>8. CASE Rollback(c)
      BY <2>0, <2>1, <2>8 DEF Rollback
    <2>9. CASE ResetProbe(c)
      BY <2>0, <2>1, <2>9 DEF ResetProbe
    <2> QED
      BY <1>6, <2>2, <2>3, <2>4, <2>5, <2>6, <2>7, <2>8, <2>9 DEF Probe
  <1>7. ASSUME NEW c \in Calls,
               AddMapping(c) \/ RemoveMapping(c) \/ RunReadTest(c) \/ RunWriteTest(c)
        PROVE  ProbeSound'
    <2>1. Goto(c, "idle") /\ UNCHANGED <<status, faults>> /\ call[c].at \notin Pending
      BY <1>7 DEF AddMapping, RemoveMapping, RunReadTest, RunWriteTest, Pending, ProbeStages
    <2> QED
      BY <2>1, ProbeGoto
  <1>8. ASSUME NEW c \in Calls, Complete(c) PROVE ProbeSound'
    <2>0. call[c].at \notin Pending /\ call[c].back # "probing" /\ UNCHANGED faults
      BY <1>8 DEF Complete, ListMappings, CreateProfile, ReplaceParameters, ProbeSound,
                  RecordHomologation, SetGeneratedProfile, FinishSession, Pending, ProbeStages
    <2>1. \A s \in Sessions : status'[s] = "probing" => status[s] = "probing"
      BY <1>8 DEF Complete, ListMappings, CreateProfile, ReplaceParameters,
                  RecordHomologation, SetGeneratedProfile, FinishSession, UpdateStatus,
                  SetStatus, TypeOK
    <2>2. ASSUME NEW at, Goto(c, at) PROVE ProbeSound'
      BY <2>0, <2>1, <2>2, ProbeGoto
    <2>3. CASE ListMappings(c)
      <3> DEFINE eligible == {m \in Rows(call[c].s) : EligibleForProfile(m)}
      <3> SUFFICES ASSUME NEW r, r = [call[c] EXCEPT !.at = "create", !.params = eligible]
                   PROVE  ProbeSound'
        OBVIOUS
      <3>1. r.back = call[c].back
        BY DEF TypeOK, CallRecord
      <3>2. Goto(c, "idle") \/ call' = [call EXCEPT ![c] = r]
        BY <2>3 DEF ListMappings
      <3>3. ASSUME call' = [call EXCEPT ![c] = r] PROVE ProbeSound'
        <4>1. r.back # "probing" /\ (faults' = 0 => faults = 0)
          BY <2>0, <3>1
        <4> QED
          BY <2>0, <2>1, <3>3, <4>1, ProbeFrame
      <3> QED
        BY <2>2, <3>2, <3>3
    <2>4. ASSUME NEW p \in Profiles, CreateProfile(c, p) PROVE ProbeSound'
      <3> SUFFICES ASSUME NEW r, r = [call[c] EXCEPT !.at = "params", !.p = p]
                   PROVE  ProbeSound'
        OBVIOUS
      <3>1. r.back = call[c].back
        BY DEF TypeOK, CallRecord
      <3>2. Goto(c, "idle") \/ call' = [call EXCEPT ![c] = r]
        BY <2>4 DEF CreateProfile
      <3>3. ASSUME call' = [call EXCEPT ![c] = r] PROVE ProbeSound'
        <4>1. r.back # "probing" /\ (faults' = 0 => faults = 0)
          BY <2>0, <3>1
        <4> QED
          BY <2>0, <2>1, <3>3, <4>1, ProbeFrame
      <3> QED
        BY <2>2, <3>2, <3>3
    <2>5. CASE ReplaceParameters(c) \/ RecordHomologation(c) \/ SetGeneratedProfile(c)
               \/ FinishSession(c)
      BY <2>2, <2>5 DEF ReplaceParameters, RecordHomologation, SetGeneratedProfile,
                        FinishSession, UpdateStatus
    <2> QED
      BY <1>8, <2>3, <2>4, <2>5 DEF Complete
  <1>9. ASSUME NEW c \in Calls, StatementFails(c) PROVE ProbeSound'
    <2>1. PICK at : Goto(c, at)
      BY <1>9 DEF StatementFails
    <2>2. faults' # 0
      BY <1>0, <1>9 DEF StatementFails
    <2> QED
      BY <2>1, <2>2, ProbeGoto
  <1>10. CASE Restart
    <2>1. \A c \in Calls : call'[c].back # "probing"
      BY <1>10 DEF Restart, Idle
    <2>2. \A s \in Sessions : status'[s] # "probing"
      BY <1>10 DEF Restart
    <2> QED
      BY <2>1, <2>2 DEF ProbeSound
  <1>11. CASE PurgeOldSnapshots \/ UNCHANGED vars
    BY <1>1, <1>11 DEF PurgeOldSnapshots, vars
  <1> QED
    BY <1>2, <1>3, <1>4, <1>5, <1>6, <1>7, <1>8, <1>9, <1>10, <1>11 DEF Next, Proceed

-----------------------------------------------------------------------------
(* Theorems.                                                               *)

\* Every row and every call keeps its type, whatever the calls interleave:
\* a call never writes under a mapping, session or profile it does not hold.
THEOREM TypeCorrect == Spec => [](TypeOK /\ CallSound)
  <1>1. Init => TypeOK /\ CallSound
    BY TypeInit DEF Init, CallSound, Idle
  <1>2. (TypeOK /\ CallSound) /\ [Next]_vars => (TypeOK /\ CallSound)'
    BY TypeStep, CallStep
  <1> QED
    BY <1>1, <1>2, PTL DEF Spec

\* A device has at most one active session, although late statements of probes
\* bring finished sessions back: the index refuses every one that would clash.
THEOREM OneSessionEach == Spec => []OneSessionPerDevice
  <1>1. Init => OneSessionPerDevice
    BY DEF Init, OneSessionPerDevice, Active
  <1>2. TypeOK /\ OneSessionPerDevice /\ [Next]_vars => OneSessionPerDevice'
    BY OneSessionStep
  <1> QED
    BY <1>1, <1>2, TypeCorrect, PTL DEF Spec

LEMMA ResultAlways == Spec => [](HomologatedIsTested /\ CompletedHasProfile)
  <1>1. Init => ResultSound
    BY DEF Init, ResultSound, HomologatedIsTested, Untested, Idle
  <1>2. TypeOK /\ CallSound /\ ResultSound /\ [Next]_vars => ResultSound'
    BY ResultStep
  <1>3. TypeOK /\ ResultSound => HomologatedIsTested /\ CompletedHasProfile
    BY DEF ResultSound, CompletedHasProfile, Homologated
  <1> QED
    BY <1>1, <1>2, <1>3, TypeCorrect, PTL DEF Spec

\* What a homologated profile writes to devices has passed its tests, whatever
\* tests, removals, completions and crashes come between Complete's statements.
THEOREM HomologatedTested == Spec => []HomologatedIsTested
  BY ResultAlways, PTL

\* A completed session has its homologated profile, wherever Complete has stopped.
THEOREM CompletionHasProfile == Spec => []CompletedHasProfile
  BY ResultAlways, PTL

\* No interleaving of probes, resets, late rollbacks, the purge and restarts
\* brings a session to "testing" without its tree, but for the one that comes
\* back to life after the purge could take its tree.
THEOREM TestingTree == Spec => []TestingHasTree
  <1>1. Init => TreeSound
    BY DEF Init, TreeSound, TestingHasTree, Idle
  <1>2. TypeOK /\ CallSound /\ TreeSound /\ [Next]_vars => TreeSound'
    BY TreeStep
  <1>3. TreeSound => TestingHasTree
    BY DEF TreeSound
  <1> QED
    BY <1>1, <1>2, <1>3, TypeCorrect, PTL DEF Spec

\* As long as the database answers, "probing" has its probe: MarkProbing, the
\* deferred recovery and the boot's recovery leave no session stranded.
THEOREM ProbingProbe == Spec => []ProbingHasProbe
  <1>1. Init => ProbeSound
    BY DEF Init, ProbeSound, Idle
  <1>2. TypeOK /\ CallSound /\ OneSessionPerDevice /\ ProbeSound /\ [Next]_vars
            => ProbeSound'
    BY ProbeStep
  <1>3. ProbeSound => ProbingHasProbe
    BY DEF ProbeSound, ProbingHasProbe, ProbePending, ProbeInFlight
  <1> QED
    BY <1>1, <1>2, <1>3, TypeCorrect, OneSessionEach, PTL DEF Spec

=============================================================================
