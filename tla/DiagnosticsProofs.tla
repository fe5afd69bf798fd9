------------------------- MODULE DiagnosticsProofs -------------------------
(* What holds of the remote tests for any number of tests, objects, rows   *)
(* a tick lists, and faults.                                               *)
EXTENDS Diagnostics, FiniteSetTheorems, TLAPS

Row == [status : {"absent"} \cup Active \cup Terminal, object : Objects \cup {NoObject},
        result : Tests \cup {NoTest}]
WorkerRow == [at : {"idle", "poll", "read", "write"}, todo : SUBSET Tests,
              test : Tests \cup {NoTest}, read : ObjectState]

\* What a listing returns: rows of S, no more than the limit.
LEMMA OldestListed ==
    ASSUME NEW S \in SUBSET Tests, NEW T \in Oldest(S, Limit)
    PROVE  T \in SUBSET S /\ Cardinality(T) <= Limit
<1>1. IsFiniteSet(S)
      BY ConstantsAssumption, FS_Subset
<1>2. Cardinality(S) \in Nat
      BY <1>1, FS_CardinalityType
<1>3. Limit \in Nat
      BY ConstantsAssumption
<1>4. Cardinality(T) = IF Cardinality(S) < Limit THEN Cardinality(S) ELSE Limit
      BY DEF Oldest
<1> QED BY <1>2, <1>3, <1>4 DEF Oldest

LEMMA FirstListed ==
    ASSUME NEW S, NEW t, NEW n, {t} \in Oldest(S, n) PROVE t \in S
BY DEF Oldest

\* Going on to the next row keeps the poller typed; its hands are empty.
LEMMA NextRowTyped ==
    ASSUME TypeOK, NEW t, NextRow(t)
    PROVE  /\ worker' \in WorkerRow /\ Cardinality(worker'.todo) <= Limit
           /\ worker'.todo \subseteq worker.todo \ {t}
           /\ worker'.at \in {"idle", "poll"}
<1>1. worker.todo \in SUBSET Tests /\ Cardinality(worker.todo) <= Limit
      BY DEF TypeOK
<1>2. IsFiniteSet(worker.todo)
      BY <1>1, ConstantsAssumption, FS_Subset
<1>3. /\ IsFiniteSet(worker.todo \ {t})
      /\ Cardinality(worker.todo \ {t}) <= Cardinality(worker.todo)
      BY <1>2, FS_Subset, worker.todo \ {t} \subseteq worker.todo
<1>4. /\ Cardinality(worker.todo) \in Nat /\ Cardinality(worker.todo \ {t}) \in Nat
      /\ Limit \in Nat
      BY <1>2, <1>3, FS_CardinalityType, ConstantsAssumption
<1>5. Cardinality(worker.todo \ {t}) <= Limit
      BY <1>1, <1>3, <1>4
<1>6. Cardinality({}) = 0
      BY FS_EmptySet
<1>7. Unused \in ObjectState
      BY DEF Unused, ObjectState
<1>8. CASE worker' = Resting
      BY <1>4, <1>6, <1>7, <1>8 DEF Resting, WorkerRow
<1>9. CASE worker' = [Resting EXCEPT !.at = "poll", !.todo = worker.todo \ {t}]
      BY <1>1, <1>5, <1>7, <1>9 DEF Resting, WorkerRow
<1> QED BY <1>8, <1>9 DEF NextRow

\* So does a tick that is over.
LEMMA RestingTyped ==
    /\ Resting \in WorkerRow /\ Cardinality(Resting.todo) <= Limit
    /\ Resting.todo = {} /\ Resting.at = "idle"
<1>1. Cardinality({}) = 0 /\ Limit \in Nat
      BY FS_EmptySet, ConstantsAssumption
<1>2. Unused \in ObjectState
      BY DEF Unused, ObjectState
<1> QED BY <1>1, <1>2 DEF Resting, WorkerRow

\* The two writes of the repository.
LEMMA StatusWritten ==
    ASSUME TypeOK, NEW t \in Tests, NEW st \in Active \cup Terminal, UpdateStatus(t, st)
    PROVE  /\ row' \in [Tests -> Row]
           /\ row'[t].status = st
           /\ \A u \in Tests \ {t} : row'[u] = row[u]
           /\ \A u \in Tests : row'[u].object = row[u].object /\ row'[u].result = row[u].result
<1> DEFINE r == [row[t] EXCEPT !.status = st]
<1>1. row \in [Tests -> Row]
      BY DEF TypeOK, Row
<1>2. r \in Row /\ r.status = st /\ r.object = row[t].object /\ r.result = row[t].result
      BY <1>1 DEF Row
<1>3. row' = [row EXCEPT ![t] = r]
      BY <1>1 DEF UpdateStatus
<1> QED BY <1>1, <1>2, <1>3

LEMMA ResultWritten ==
    ASSUME TypeOK, NEW t \in Tests, NEW of \in Tests \cup {NoTest}, UpdateResult(t, of)
    PROVE  /\ row' \in [Tests -> Row]
           /\ row'[t].status = "complete" /\ row'[t].result = of
           /\ \A u \in Tests \ {t} : row'[u] = row[u]
           /\ \A u \in Tests : row'[u].object = row[u].object
<1> DEFINE r == [row[t] EXCEPT !.status = "complete", !.result = of]
<1>1. row \in [Tests -> Row]
      BY DEF TypeOK, Row
<1>2. r \in Row /\ r.status = "complete" /\ r.object = row[t].object /\ r.result = of
      BY <1>1 DEF Row, Terminal
<1>3. row' = [row EXCEPT ![t] = r]
      BY <1>1 DEF UpdateResult
<1> QED BY <1>1, <1>2, <1>3

-----------------------------------------------------------------------------
(* Type correctness, with what it rests on: a row has an object from its   *)
(* request on, and what the poller has in its hands is a row it has listed.*)

RowSound ==
    \A t \in Tests :
        /\ row[t].object = NoObject <=> row[t].status = "absent"
        /\ row[t].object = NoObject <=> request[t] = "none"
        /\ row[t].object = NoObject => row[t].result = NoTest

PollShape ==
    /\ \A t \in worker.todo : row[t].object # NoObject
    /\ worker.at \in {"read", "write"} => worker.test \in worker.todo
    /\ worker.at = "write" => worker.read.state \in {"Complete", "Error"}

Shape == TypeOK /\ RowSound /\ PollShape

LEMMA InitShape == Init => Shape
<1> SUFFICES ASSUME Init PROVE Shape
    OBVIOUS
<1>1. row \in [Tests -> Row] /\ \A t \in Tests : row[t] = Absent
      BY DEF Init, Absent, Row
<1>2. Unused \in ObjectState
      BY DEF Unused, ObjectState
<1>3. tasks \in [Objects -> Seq(Tests)]
      BY DEF Init
<1>4. worker \in WorkerRow /\ Cardinality(worker.todo) <= Limit /\ worker.todo = {} /\ worker.at = "idle"
      BY RestingTyped DEF Init
<1>5. TypeOK
      BY <1>1, <1>2, <1>3, <1>4 DEF Init, TypeOK, Row, WorkerRow
<1>6. RowSound
      BY <1>1 DEF Init, RowSound, Absent
<1>7. PollShape
      BY <1>4 DEF PollShape
<1> QED BY <1>5, <1>6, <1>7 DEF Shape

\* A step that leaves the rows and the requests alone, and the tasks.
LEMMA WorkerFrame ==
    ASSUME Shape, UNCHANGED <<row, since, request, tasks, cpe, crowded>>,
           worker' \in WorkerRow, Cardinality(worker'.todo) <= Limit, PollShape',
           late' \subseteq Tests, refreshes' \subseteq Objects, cooling' \in BOOLEAN,
           doc' \in [Objects -> ObjectState], faults' \in Nat
    PROVE  Shape'
<1>1. TypeOK'
      BY DEF Shape, TypeOK, WorkerRow
<1>2. RowSound'
      BY DEF Shape, RowSound
<1> QED BY <1>1, <1>2 DEF Shape

\* A step that leaves the poller alone, and writes at most rows and requests.
LEMMA RequestFrame ==
    ASSUME Shape, UNCHANGED <<late, worker, refreshes, cooling, cpe, doc>>,
           row' \in [Tests -> Row], since' \in [Tests -> Nat],
           request' \in [Tests -> {"none", "send", "acknowledge", "over"}],
           crowded' \subseteq Tests, tasks' \in [Objects -> Seq(Tests)], faults' \in Nat,
           RowSound', \A t \in Tests : row[t].object # NoObject => row'[t].object # NoObject
    PROVE  Shape'
<1>1. TypeOK'
      BY DEF Shape, TypeOK, Row
<1>2. PollShape'
      BY DEF Shape, TypeOK, PollShape
<1> QED BY <1>1, <1>2 DEF Shape

LEMMA TasksTyped ==
    ASSUME Shape, NEW t \in Tests, request[t] # "none",
           tasks' = [tasks EXCEPT ![row[t].object] = Append(@, t)]
    PROVE  tasks' \in [Objects -> Seq(Tests)]
<1>1. row[t].object \in Objects
      BY DEF Shape, TypeOK, RowSound
<1>2. tasks \in [Objects -> Seq(Tests)]
      BY DEF Shape, TypeOK
<1> QED BY <1>1, <1>2

LEMMA RequestShape ==
    ASSUME Shape, NEW t \in Tests, Request(t) PROVE Shape'
<1> USE DEF database, genieacs
<1>1. ASSUME NEW o \in Objects, Enqueue(t, o) PROVE Shape'
  <2> DEFINE r == [Absent EXCEPT !.status = "requested", !.object = o]
  <2>1. row \in [Tests -> Row] /\ row' = [row EXCEPT ![t] = r]
        BY <1>1 DEF Shape, TypeOK, Row, Enqueue
  <2>2. r \in Row /\ r.object = o /\ r.status = "requested" /\ o # NoObject
        BY ConstantsAssumption DEF Absent, Row, Active
  <2> HIDE DEF r
  <2>3. row' \in [Tests -> Row] /\ \A u \in Tests \ {t} : row'[u] = row[u]
        BY <2>1, <2>2
  <2>4. Cardinality({u \in Tests : request[u] # "none"}) \in Nat
        BY ConstantsAssumption, FS_Subset, FS_CardinalityType,
           {u \in Tests : request[u] # "none"} \subseteq Tests
  <2>5. since' \in [Tests -> Nat]
        BY <1>1, <2>4 DEF Enqueue, Shape, TypeOK
  <2>6. request' = [request EXCEPT ![t] = "send"] /\ crowded' \subseteq Tests
        BY <1>1 DEF Enqueue, Shape, TypeOK
  <2>7. RowSound'
        BY <2>1, <2>2, <2>6 DEF Shape, TypeOK, RowSound
  <2>8. request' \in [Tests -> {"none", "send", "acknowledge", "over"}]
        BY <2>6 DEF Shape, TypeOK
  <2>9. /\ UNCHANGED <<late, worker, refreshes, cooling, cpe, doc>>
        /\ tasks' \in [Objects -> Seq(Tests)] /\ faults' \in Nat
        BY <1>1 DEF Enqueue, Shape, TypeOK
  <2>10. \A u \in Tests : row[u].object # NoObject => row'[u].object # NoObject
        BY <2>1, <2>2, <2>3
  <2> QED BY <2>3, <2>5, <2>6, <2>7, <2>8, <2>9, <2>10, RequestFrame
<1>2. CASE SetParameterValues(t)
  <2>1. row \in [Tests -> Row]
        BY DEF Shape, TypeOK, Row
  <2>2. request' = [request EXCEPT ![t] = "acknowledge"] /\ request[t] = "send"
        BY <1>2 DEF SetParameterValues
  <2>3. RowSound'
        BY <1>2, <2>2 DEF Shape, TypeOK, RowSound, SetParameterValues
  <2>4. tasks' \in [Objects -> Seq(Tests)]
        BY <1>2, TasksTyped DEF SetParameterValues
  <2> QED BY <1>2, <2>1, <2>2, <2>3, <2>4, RequestFrame DEF SetParameterValues, Shape, TypeOK
<1>3. ASSUME NEW st \in {"error", "running"}, UpdateStatus(t, st), request[t] # "none",
             request' = [request EXCEPT ![t] = "over"], tasks' \in [Objects -> Seq(Tests)],
             UNCHANGED <<since, late, worker, refreshes, cooling, cpe, doc, crowded, faults>>
      PROVE  Shape'
  <2>1. st \in Active \cup Terminal /\ TypeOK
        BY DEF Active, Terminal, Shape
  <2>2. /\ row' \in [Tests -> Row] /\ row'[t].status = st
        /\ \A u \in Tests \ {t} : row'[u] = row[u]
        /\ \A u \in Tests : row'[u].object = row[u].object /\ row'[u].result = row[u].result
        BY <1>3, <2>1, StatusWritten
  <2>3. RowSound'
        BY <1>3, <2>2 DEF Shape, TypeOK, RowSound
  <2> QED BY <1>3, <2>2, <2>3, RequestFrame DEF Shape, TypeOK
<1>4. ASSUME NEW stored \in BOOLEAN, RequestRejected(t, stored) PROVE Shape'
  <2>1. tasks' \in [Objects -> Seq(Tests)]
        BY <1>4, TasksTyped DEF RequestRejected, Shape, TypeOK
  <2> QED BY <1>3, <1>4, <2>1 DEF RequestRejected
<1>5. CASE Acknowledge(t)
      BY <1>3, <1>5 DEF Acknowledge, Shape, TypeOK
<1>6. CASE RequestDies(t)
  <2>1. RowSound'
        BY <1>6 DEF RequestDies, Shape, TypeOK, RowSound
  <2> QED BY <1>6, <2>1, RequestFrame DEF RequestDies, Shape, TypeOK, Fault, Row
<1> QED BY <1>1, <1>2, <1>4, <1>5, <1>6 DEF Request

\* Every step of the poller that only goes on to the next row.
LEMMA NextRowShape ==
    ASSUME Shape, NEW t, NextRow(t),
           UNCHANGED <<row, since, request, tasks, cpe, crowded, late, refreshes, cooling, doc>>,
           faults' \in Nat
    PROVE  Shape'
<1>1. /\ worker' \in WorkerRow /\ Cardinality(worker'.todo) <= Limit
      /\ worker'.todo \subseteq worker.todo \ {t} /\ worker'.at \in {"idle", "poll"}
      BY NextRowTyped DEF Shape
<1>2. PollShape'
      BY <1>1 DEF Shape, PollShape
<1> QED BY <1>1, <1>2, WorkerFrame DEF Shape, TypeOK

\* And every step that writes the row it has in its hands first.
LEMMA RowDoneShape ==
    ASSUME Shape, NEW t \in worker.todo, NextRow(t), row' \in [Tests -> Row],
           \A u \in Tests \ {t} : row'[u] = row[u],
           row'[t].object = row[t].object, row'[t].status \in Terminal,
           UNCHANGED <<since, request, tasks, cpe, crowded, late, refreshes, cooling, doc, faults>>
    PROVE  Shape'
<1>1. /\ worker' \in WorkerRow /\ Cardinality(worker'.todo) <= Limit
      /\ worker'.todo \subseteq worker.todo \ {t} /\ worker'.at \in {"idle", "poll"}
      BY NextRowTyped DEF Shape
<1>2. TypeOK'
      BY <1>1 DEF Shape, TypeOK, Row, WorkerRow
<1>3. t \in Tests /\ worker.todo \subseteq Tests
      BY DEF Shape, TypeOK
<1>4. RowSound'
  <2>1. row[t].object # NoObject /\ row'[t].status # "absent"
        BY DEF Shape, PollShape, Terminal
  <2>2. \A u \in Tests : row'[u] = row[u] \/ u = t
        OBVIOUS
  <2> QED BY <1>3, <2>1, <2>2 DEF Shape, RowSound
<1>5. PollShape'
  <2>1. \A u \in worker'.todo : u \in Tests \ {t} /\ row[u].object # NoObject
        BY <1>1, <1>3 DEF Shape, PollShape
  <2> QED BY <1>1, <2>1 DEF PollShape
<1> QED BY <1>2, <1>4, <1>5 DEF Shape

LEMMA PollStepShape ==
    ASSUME Shape, Poll PROVE Shape'
<1> USE DEF database, genieacs
<1>1. CASE StartTick
  <2>1. PICK listed \in Oldest(ListActive(row), Limit) :
            worker' = [Resting EXCEPT !.at = "poll", !.todo = listed]
        BY <1>1 DEF StartTick
  <2>2. listed \in SUBSET ListActive(row) /\ Cardinality(listed) <= Limit
        BY OldestListed, ListActive(row) \in SUBSET Tests DEF ListActive
  <2>3. /\ worker' \in WorkerRow /\ worker'.todo = listed /\ worker'.at = "poll"
        BY <2>1, <2>2, RestingTyped DEF WorkerRow, ListActive
  <2>4. PollShape'
        BY <1>1, <2>2, <2>3 DEF StartTick, PollShape, ListActive, Shape, RowSound, Active
  <2> QED BY <1>1, <2>2, <2>3, <2>4, WorkerFrame DEF StartTick, Shape, TypeOK
<1>2. ASSUME NEW t \in Tests, NEW refresh \in BOOLEAN, PollOne(t, refresh) PROVE Shape'
  <2>1. t \in worker.todo /\ row[t].object \in Objects
        BY <1>2, FirstListed DEF PollOne, Shape, PollShape, TypeOK
  <2>2. CASE Expired(t)
    <3>1. UpdateStatus(t, "timeout") /\ NextRow(t)
          BY <1>2, <2>2 DEF PollOne
    <3>2. /\ row' \in [Tests -> Row] /\ row'[t].status = "timeout"
          /\ \A u \in Tests \ {t} : row'[u] = row[u]
          /\ \A u \in Tests : row'[u].object = row[u].object
          BY <3>1, StatusWritten DEF Shape, Terminal
    <3>3. UNCHANGED <<since, request, tasks, cpe, crowded, late, refreshes, cooling, doc, faults>>
          BY <1>2, <2>2 DEF PollOne
    <3> QED BY <2>1, <3>1, <3>2, <3>3, RowDoneShape DEF Terminal
  <2>3. CASE ~Expired(t)
    <3>1. worker' = [worker EXCEPT !.at = "read", !.test = t]
          BY <1>2, <2>3 DEF PollOne
    <3>2. /\ worker' \in WorkerRow /\ worker'.todo = worker.todo /\ worker'.at = "read"
          /\ worker'.test = t
          BY <3>1 DEF Shape, TypeOK, WorkerRow
    <3>3. PollShape'
          BY <1>2, <2>1, <2>3, <3>2 DEF PollOne, Shape, PollShape
    <3>4. refreshes' \subseteq Objects
          BY <1>2, <2>1, <2>3 DEF PollOne, Shape, TypeOK
    <3> QED BY <1>2, <2>3, <3>2, <3>3, <3>4, WorkerFrame DEF PollOne, Shape, TypeOK
  <2> QED BY <2>2, <2>3
<1>3. CASE GetDevice
  <2> DEFINE seen == doc[row[worker.test].object]
  <2>1. worker.test \in worker.todo /\ row[worker.test].object \in Objects
        BY <1>3 DEF GetDevice, Shape, PollShape, TypeOK
  <2>2. seen \in ObjectState
        BY <2>1 DEF Shape, TypeOK
  <2>3. CASE ~Decided(seen.state)
        BY <1>3, <2>3, NextRowShape DEF GetDevice, Shape, TypeOK
  <2>4. CASE Decided(seen.state)
    <3>1. worker' = [worker EXCEPT !.at = "write", !.read = seen]
          BY <1>3, <2>4 DEF GetDevice
    <3>2. /\ worker' \in WorkerRow /\ worker'.todo = worker.todo /\ worker'.test = worker.test
          /\ worker'.read = seen
          BY <2>2, <3>1 DEF Shape, TypeOK, WorkerRow
    <3>3. PollShape'
          BY <1>3, <2>1, <2>4, <3>2 DEF GetDevice, Shape, PollShape, Decided
    <3> QED BY <1>3, <3>2, <3>3, WorkerFrame DEF GetDevice, Shape, TypeOK
  <2> QED BY <2>3, <2>4
<1>4. CASE GetDeviceFails
      BY <1>4, NextRowShape DEF GetDeviceFails, Shape, TypeOK
<1>5. CASE Complete
  <2> DEFINE t == worker.test
  <2>1. t \in worker.todo /\ t \in Tests /\ worker.read.of \in Tests \cup {NoTest}
        BY <1>5 DEF Complete, Shape, PollShape, TypeOK, ObjectState
  <2>2. UpdateStatus(t, "error") \/ UpdateResult(t, worker.read.of)
        BY <1>5 DEF Complete
  <2>3. /\ row' \in [Tests -> Row] /\ row'[t].status \in Terminal
        /\ \A u \in Tests \ {t} : row'[u] = row[u]
        /\ row'[t].object = row[t].object
        BY <2>1, <2>2, StatusWritten, ResultWritten DEF Shape, Terminal
  <2> HIDE DEF t
  <2>4. NextRow(t) /\ UNCHANGED <<since, request, tasks, cpe, crowded, late, refreshes,
                                  cooling, doc, faults>>
        BY <1>5 DEF Complete, t
  <2> QED BY <2>1, <2>3, <2>4, RowDoneShape
<1> QED BY <1>1, <1>2, <1>3, <1>4, <1>5 DEF Poll

LEMMA TickFailsShape == ASSUME Shape, TickFails PROVE Shape'
<1>1. faults' \in Nat
      BY DEF TickFails, Fault, Shape, TypeOK
<1>2. CASE worker' = Resting
  <2>1. PollShape'
        BY <1>2, RestingTyped DEF PollShape
  <2> QED BY <1>1, <1>2, <2>1, RestingTyped, WorkerFrame
          DEF TickFails, database, genieacs, Shape, TypeOK
<1>3. ASSUME NEW t \in Tests, NextRow(t) PROVE Shape'
      BY <1>1, <1>3, NextRowShape DEF TickFails, database, genieacs
<1> QED BY <1>2, <1>3 DEF TickFails

LEMMA DeviceShape ==
    ASSUME Shape, NEW o \in Objects, Device(o) PROVE Shape'
<1> USE DEF database
<1>1. CASE ExecuteTask(o)
  <2> DEFINE started == [state |-> "Requested", of |-> Head(tasks[o])]
  <2>1. /\ tasks[o] \in Seq(Tests) /\ tasks[o] # <<>>
        /\ tasks' = [tasks EXCEPT ![o] = Tail(@)]
        /\ cpe' = [cpe EXCEPT ![o] = started] /\ doc' = [doc EXCEPT ![o] = started]
        /\ UNCHANGED <<row, since, request, late, worker, refreshes, cooling, crowded, faults>>
        BY <1>1 DEF ExecuteTask, Shape, TypeOK
  <2>2. Head(tasks[o]) \in Tests /\ Tail(tasks[o]) \in Seq(Tests)
        BY <2>1
  <2>3. started \in ObjectState
        BY <2>2 DEF ObjectState
  <2> HIDE DEF started
  <2>4. TypeOK'
        BY <2>1, <2>2, <2>3 DEF Shape, TypeOK
  <2> QED BY <2>1, <2>4 DEF Shape, RowSound, PollShape
<1>2. CASE ExecuteRefresh(o)
  <2>1. doc' \in [Objects -> ObjectState] /\ refreshes' \subseteq Objects
        BY <1>2 DEF ExecuteRefresh, Shape, TypeOK
  <2> QED BY <1>2, <2>1 DEF ExecuteRefresh, Shape, TypeOK, RowSound, PollShape
<1>3. ASSUME NEW state \in {"Complete", "Error"}, TestEnds(o, state) PROVE Shape'
  <2>1. cpe' \in [Objects -> ObjectState]
        BY <1>3, ZenonT(60) DEF TestEnds, Shape, TypeOK, ObjectState
  <2> QED BY <1>3, <2>1 DEF TestEnds, Shape, TypeOK, RowSound, PollShape
<1> QED BY <1>1, <1>2, <1>3 DEF Device

LEMMA NextShape == Shape /\ [Next]_vars => Shape'
<1> SUFFICES ASSUME Shape, [Next]_vars PROVE Shape'
    OBVIOUS
<1> USE DEF database, genieacs
<1>1. ASSUME NEW t \in Tests, DeadlinePasses(t) PROVE Shape'
      BY <1>1 DEF DeadlinePasses, Shape, TypeOK, RowSound, PollShape
<1>2. ASSUME NEW ok \in BOOLEAN, RefreshTelemetry(ok) PROVE Shape'
      BY <1>2 DEF RefreshTelemetry, Shape, TypeOK, RowSound, PollShape
<1>3. CASE CooldownEnds
      BY <1>3 DEF CooldownEnds, Shape, TypeOK, RowSound, PollShape
<1>4. CASE UNCHANGED vars
      BY <1>4 DEF vars, Shape, TypeOK, RowSound, PollShape
<1> QED BY <1>1, <1>2, <1>3, <1>4, RequestShape, PollStepShape, TickFailsShape, DeviceShape
        DEF Next

\* The type invariant of the rows, the requests, the poller, GenieACS and the devices
\* (diagnostics_repo.go, service.go), for every number of tests, objects and faults.
THEOREM TypeCorrect == Spec => []TypeOK
<1>1. Spec => []Shape
      BY InitShape, NextShape, PTL DEF Spec
<1>2. Shape => TypeOK
      BY DEF Shape
<1> QED BY <1>1, <1>2, PTL

-----------------------------------------------------------------------------
(* A test's own result.  Everything that is said of an object, by a task,   *)
(* by the device or by GenieACS, is said of a test of that object; and a    *)
(* test that is not known to share its object is the only one of it for as  *)
(* long as anything may still write its row.                                *)

About(s, o) == \/ s.state = "None" /\ s.of = NoTest
               \/ s.of \in Tests /\ row[s.of].object = o

Origin ==
    \A o \in Objects :
        /\ \A i \in 1 .. Len(tasks[o]) : row[tasks[o][i]].object = o
        /\ About(cpe[o], o) /\ About(doc[o], o)

PollSound ==
    /\ \A t \in worker.todo : row[t].status # "complete"
    /\ worker.at = "write" => About(worker.read, row[worker.test].object)

Apart ==
    \A t \in Tests \ crowded : row[t].object # NoObject /\ Open(t) =>
        \A u \in Tests \ {t} : row[u].object # row[t].object

Sound == Shape /\ Origin /\ PollSound /\ Apart /\ AloneReportsItself

WritesResult == /\ Complete /\ worker.read.state # "Error"
                /\ UpdateResult(worker.test, worker.read.of)

\* How a step changes the rows.
LEMMA RowSteps ==
    ASSUME Shape, [Next]_vars
    PROVE  \/ UNCHANGED <<row, crowded>>
           \/ \E t \in Tests, o \in Objects : Enqueue(t, o)
           \/ \E t \in Tests, st \in {"error", "running", "timeout"} :
                  UpdateStatus(t, st) /\ UNCHANGED crowded
           \/ WritesResult /\ UNCHANGED crowded
<1> USE DEF database, genieacs
<1>1. ASSUME NEW t \in Tests, Request(t), \A o \in Objects : ~Enqueue(t, o)
      PROVE  \/ UNCHANGED <<row, crowded>>
             \/ \E st \in {"error", "running", "timeout"} :
                    UpdateStatus(t, st) /\ UNCHANGED crowded
      BY <1>1 DEF Request, SetParameterValues, RequestRejected, Acknowledge, RequestDies
<1>2. ASSUME NEW t \in Tests, NEW refresh \in BOOLEAN, PollOne(t, refresh)
      PROVE  \/ UNCHANGED <<row, crowded>>
             \/ UpdateStatus(t, "timeout") /\ UNCHANGED crowded
      BY <1>2 DEF PollOne
<1>3. CASE Complete
  <2>1. worker.test \in Tests
        BY <1>3 DEF Complete, Shape, TypeOK, PollShape
  <2>2. CASE worker.read.state = "Error"
        BY <1>3, <2>1, <2>2 DEF Complete
  <2>3. CASE worker.read.state # "Error"
        BY <1>3, <2>3 DEF Complete, WritesResult
  <2> QED BY <2>2, <2>3
<1>4. CASE StartTick \/ GetDevice \/ GetDeviceFails \/ TickFails \/ CooldownEnds
      BY <1>4 DEF StartTick, GetDevice, GetDeviceFails, TickFails, CooldownEnds
<1>5. ASSUME NEW t \in Tests, DeadlinePasses(t) PROVE UNCHANGED <<row, crowded>>
      BY <1>5 DEF DeadlinePasses
<1>6. ASSUME NEW ok \in BOOLEAN, RefreshTelemetry(ok) PROVE UNCHANGED <<row, crowded>>
      BY <1>6 DEF RefreshTelemetry
<1>7. ASSUME NEW o \in Objects, Device(o) PROVE UNCHANGED <<row, crowded>>
      BY <1>7 DEF Device, ExecuteTask, ExecuteRefresh, TestEnds
<1>8. CASE UNCHANGED vars
      BY <1>8 DEF vars
<1> QED BY <1>1, <1>2, <1>3, <1>4, <1>5, <1>6, <1>7, <1>8 DEF Next, Poll

\* How it changes the rows still to poll.
LEMMA TodoSteps ==
    ASSUME Shape, [Next]_vars
    PROVE  \/ StartTick /\ worker'.todo \subseteq ListActive(row) /\ worker'.at = "poll"
           \/ worker'.todo \subseteq worker.todo
<1> USE DEF database, genieacs
<1>1. CASE StartTick
  <2>1. PICK listed \in Oldest(ListActive(row), Limit) :
            worker' = [Resting EXCEPT !.at = "poll", !.todo = listed]
        BY <1>1 DEF StartTick
  <2>2. listed \subseteq ListActive(row)
        BY DEF Oldest
  <2> QED BY <1>1, <2>1, <2>2 DEF Resting
<1>2. CASE worker' = worker
      BY <1>2
<1>3. ASSUME NEW t, NextRow(t) PROVE worker'.todo \subseteq worker.todo
      BY <1>3, NextRowTyped DEF Shape
<1>4. ASSUME NEW t \in Tests, NEW refresh \in BOOLEAN, PollOne(t, refresh)
      PROVE  worker'.todo \subseteq worker.todo
  <2>1. CASE worker' = [worker EXCEPT !.at = "read", !.test = t]
        BY <2>1 DEF Shape, TypeOK
  <2> QED BY <1>3, <1>4, <2>1 DEF PollOne
<1>5. CASE GetDevice
  <2>1. ASSUME NEW seen, worker' = [worker EXCEPT !.at = "write", !.read = seen]
        PROVE  worker'.todo \subseteq worker.todo
        BY <2>1 DEF Shape, TypeOK
  <2> QED BY <1>3, <1>5, <2>1 DEF GetDevice
<1>6. CASE GetDeviceFails \/ Complete
      BY <1>3, <1>6 DEF GetDeviceFails, Complete
<1>7. CASE TickFails
      BY <1>3, <1>7, RestingTyped DEF TickFails
<1>8. ASSUME NEW t \in Tests, Request(t) \/ DeadlinePasses(t) PROVE worker' = worker
      BY <1>8 DEF Request, Enqueue, SetParameterValues, RequestRejected, Acknowledge,
         RequestDies, DeadlinePasses
<1>9. ASSUME NEW ok \in BOOLEAN, RefreshTelemetry(ok) \/ CooldownEnds \/ UNCHANGED vars
      PROVE  worker' = worker
      BY <1>9 DEF RefreshTelemetry, CooldownEnds, vars
<1>10. ASSUME NEW o \in Objects, Device(o) PROVE worker' = worker
      BY <1>10 DEF Device, ExecuteTask, ExecuteRefresh, TestEnds
<1> QED BY <1>1, <1>2, <1>3, <1>4, <1>5, <1>6, <1>7, <1>8, <1>9, <1>10 DEF Next, Poll

\* A row keeps the object of its request, and an enqueued row is a new one.
LEMMA ObjectsKept ==
    ASSUME Shape, [Next]_vars
    PROVE  \A u \in Tests : row[u].object # NoObject => row'[u].object = row[u].object
<1>1. CASE UNCHANGED row
      BY <1>1
<1>2. ASSUME NEW t \in Tests, NEW o \in Objects, Enqueue(t, o)
      PROVE  \A u \in Tests : row[u].object # NoObject => row'[u] = row[u]
      BY <1>2 DEF Enqueue, Shape, TypeOK, RowSound
<1>3. ASSUME NEW t \in Tests, NEW st \in {"error", "running", "timeout"}, UpdateStatus(t, st)
      PROVE  \A u \in Tests : row'[u].object = row[u].object
      BY <1>3, StatusWritten DEF Shape, Active, Terminal
<1>4. CASE WritesResult
  <2>1. worker.test \in Tests /\ worker.read.of \in Tests \cup {NoTest}
        BY <1>4 DEF WritesResult, Complete, Shape, PollShape, TypeOK, ObjectState
  <2> QED BY <1>4, <2>1, ResultWritten DEF WritesResult, Shape
<1> QED BY <1>1, <1>2, <1>3, <1>4, RowSteps

\* A test of which nothing is open is never opened again.
LEMMA OpenStable ==
    ASSUME Shape, [Next]_vars, NEW t \in Tests, row[t].object # NoObject, Open(t)'
    PROVE  Open(t)
<1> USE DEF database, genieacs
<1> SUFFICES ASSUME ~Open(t) PROVE FALSE
    OBVIOUS
<1>1. row[t].status \notin Active /\ request[t] \notin {"none", "send", "acknowledge"}
      BY DEF Open, Shape, RowSound
<1>2. t \notin worker.todo
      BY DEF Open
<1>3. t \notin worker'.todo
      BY <1>1, <1>2, TodoSteps DEF ListActive
<1>4. request'[t] = request[t]
  <2>1. ASSUME NEW u \in Tests, Request(u) PROVE request'[t] = request[t]
        BY <1>1, <2>1 DEF Request, Enqueue, SetParameterValues, RequestRejected, Acknowledge,
           RequestDies, Shape, TypeOK
  <2>2. ASSUME ~\E u \in Tests : Request(u) PROVE UNCHANGED request
        BY <2>2 DEF Next, vars, DeadlinePasses, RefreshTelemetry, CooldownEnds, Poll, StartTick,
           PollOne, GetDevice, GetDeviceFails, Complete, TickFails, Device, ExecuteTask,
           ExecuteRefresh, TestEnds
  <2> QED BY <2>1, <2>2
<1>5. row'[t].status \notin Active
  <2>1. CASE UNCHANGED row
        BY <1>1, <2>1
  <2>2. ASSUME NEW u \in Tests, NEW o \in Objects, Enqueue(u, o) PROVE row'[t] = row[t]
        BY <1>1, <2>2 DEF Enqueue, Shape, TypeOK
  <2>3. ASSUME Request(t), ~UNCHANGED row PROVE FALSE
        BY <1>1, <2>3 DEF Request, Enqueue, SetParameterValues, RequestRejected, Acknowledge,
           RequestDies
  <2>4. ASSUME NEW refresh \in BOOLEAN, PollOne(t, refresh) PROVE FALSE
        BY <1>2, <2>4, FirstListed DEF PollOne
  <2>5. ASSUME Complete PROVE row'[t] = row[t]
    <3>1. worker.test # t
          BY <1>2, <2>5 DEF Complete, Shape, PollShape
    <3> QED BY <2>5, <3>1 DEF Complete, UpdateStatus, UpdateResult, Shape, TypeOK
  <2>6. ASSUME NEW u \in Tests, Request(u), u # t PROVE row'[t] = row[t]
        BY <2>6 DEF Request, Enqueue, SetParameterValues, RequestRejected, Acknowledge,
           RequestDies, UpdateStatus, Shape, TypeOK
  <2>7. ASSUME NEW u \in Tests, NEW refresh \in BOOLEAN, PollOne(u, refresh), u # t
        PROVE  row'[t] = row[t]
        BY <2>7 DEF PollOne, UpdateStatus, Shape, TypeOK
  <2>8. ASSUME ~\E u \in Tests : Request(u), ~Complete,
               ~\E u \in Tests, refresh \in BOOLEAN : PollOne(u, refresh)
        PROVE  UNCHANGED row
        BY <2>8 DEF Next, vars, DeadlinePasses, RefreshTelemetry, CooldownEnds, Poll, StartTick,
           GetDevice, GetDeviceFails, TickFails, Device, ExecuteTask, ExecuteRefresh, TestEnds
  <2> QED BY <1>1, <2>1, <2>3, <2>4, <2>5, <2>6, <2>7, <2>8
<1> QED BY <1>1, <1>3, <1>4, <1>5 DEF Open

LEMMA OriginStep ==
    ASSUME Shape, Origin, [Next]_vars PROVE Origin'
<1> USE DEF database, genieacs
<1>1. \A u \in Tests : row[u].object # NoObject => row'[u].object = row[u].object
      BY ObjectsKept
<1>2. \A o \in Objects : /\ o # NoObject /\ tasks[o] \in Seq(Tests)
                         /\ cpe[o].of \in Tests \cup {NoTest} /\ doc[o].of \in Tests \cup {NoTest}
      BY ConstantsAssumption DEF Shape, TypeOK, ObjectState
<1>3. \A o \in Objects :
        /\ \A i \in 1 .. Len(tasks[o]) : tasks[o][i] \in Tests /\ row'[tasks[o][i]].object = o
        /\ \/ cpe[o].state = "None" /\ cpe[o].of = NoTest
           \/ cpe[o].of \in Tests /\ row'[cpe[o].of].object = o
        /\ \/ doc[o].state = "None" /\ doc[o].of = NoTest
           \/ doc[o].of \in Tests /\ row'[doc[o].of].object = o
  <2> SUFFICES ASSUME NEW o \in Objects
               PROVE  /\ \A i \in 1 .. Len(tasks[o]) :
                            tasks[o][i] \in Tests /\ row'[tasks[o][i]].object = o
                      /\ \/ cpe[o].state = "None" /\ cpe[o].of = NoTest
                         \/ cpe[o].of \in Tests /\ row'[cpe[o].of].object = o
                      /\ \/ doc[o].state = "None" /\ doc[o].of = NoTest
                         \/ doc[o].of \in Tests /\ row'[doc[o].of].object = o
      OBVIOUS
  <2>1. \A i \in 1 .. Len(tasks[o]) : tasks[o][i] \in Tests /\ row[tasks[o][i]].object = o
        BY <1>2 DEF Origin
  <2>2. \A i \in 1 .. Len(tasks[o]) : tasks[o][i] \in Tests /\ row'[tasks[o][i]].object = o
        BY <1>1, <1>2, <2>1
  <2>3. \/ cpe[o].state = "None" /\ cpe[o].of = NoTest
        \/ cpe[o].of \in Tests /\ row'[cpe[o].of].object = o
    <3>1. About(cpe[o], o) /\ o # NoObject
          BY <1>2 DEF Origin
    <3>2. CASE cpe[o].of \in Tests /\ row[cpe[o].of].object = o
          BY <1>1, <3>1, <3>2
    <3> QED BY <3>1, <3>2 DEF About
  <2>4. \/ doc[o].state = "None" /\ doc[o].of = NoTest
        \/ doc[o].of \in Tests /\ row'[doc[o].of].object = o
    <3>1. About(doc[o], o) /\ o # NoObject
          BY <1>2 DEF Origin
    <3>2. CASE doc[o].of \in Tests /\ row[doc[o].of].object = o
          BY <1>1, <3>1, <3>2
    <3> QED BY <3>1, <3>2 DEF About
  <2> QED BY <2>2, <2>3, <2>4
<1>4. CASE UNCHANGED <<tasks, cpe, doc>>
      BY <1>3, <1>4 DEF Origin, About
<1>5. ASSUME NEW t \in Tests, request[t] # "none", UNCHANGED <<cpe, doc>>,
             tasks' = [tasks EXCEPT ![row[t].object] = Append(@, t)]
      PROVE  Origin'
  <2>1. row[t].object \in Objects /\ row'[t].object = row[t].object
        BY <1>1, <1>5 DEF Shape, TypeOK, RowSound
  <2>2. ASSUME NEW o \in Objects
        PROVE  \A i \in 1 .. Len(tasks'[o]) : row'[tasks'[o][i]].object = o
    <3>1. CASE o # row[t].object
          BY <1>3, <1>5, <3>1 DEF Shape, TypeOK
    <3>2. CASE o = row[t].object
      <4>1. tasks'[o] = Append(tasks[o], t)
            BY <1>5, <2>1, <3>2 DEF Shape, TypeOK
      <4> QED BY <1>2, <1>3, <2>1, <3>2, <4>1
    <3> QED BY <3>1, <3>2
  <2> QED BY <1>3, <1>5, <2>2 DEF Origin, About
<1>6. ASSUME NEW t \in Tests, Request(t) PROVE Origin'
      BY <1>4, <1>5, <1>6 DEF Request, Enqueue, SetParameterValues, RequestRejected,
         Acknowledge, RequestDies
<1>7. ASSUME NEW o \in Objects, ExecuteTask(o) PROVE Origin'
  <2> DEFINE started == [state |-> "Requested", of |-> Head(tasks[o])]
  <2>1. /\ tasks[o] \in Seq(Tests) /\ tasks[o] # <<>>
        /\ tasks' = [tasks EXCEPT ![o] = Tail(@)]
        /\ cpe' = [cpe EXCEPT ![o] = started] /\ doc' = [doc EXCEPT ![o] = started]
        BY <1>7 DEF ExecuteTask, Shape, TypeOK
  <2>2. 1 \in 1 .. Len(tasks[o]) /\ Head(tasks[o]) = tasks[o][1]
        BY <2>1
  <2>3. started.of \in Tests /\ row'[started.of].object = o
        BY <1>3, <2>2
  <2> HIDE DEF started
  <2>4. \A i \in 1 .. Len(Tail(tasks[o])) : row'[Tail(tasks[o])[i]].object = o
    <3> SUFFICES ASSUME NEW i \in 1 .. Len(Tail(tasks[o]))
                 PROVE  row'[Tail(tasks[o])[i]].object = o
        OBVIOUS
    <3>1. Tail(tasks[o])[i] = tasks[o][i + 1] /\ i + 1 \in 1 .. Len(tasks[o])
          BY <2>1
    <3> QED BY <1>3, <3>1
  <2>5. /\ tasks'[o] = Tail(tasks[o]) /\ cpe'[o] = started /\ doc'[o] = started
        /\ \A p \in Objects \ {o} : tasks'[p] = tasks[p] /\ cpe'[p] = cpe[p] /\ doc'[p] = doc[p]
        BY <2>1 DEF Shape, TypeOK
  <2>6. /\ \A i \in 1 .. Len(tasks'[o]) : row'[tasks'[o][i]].object = o
        /\ cpe'[o].of \in Tests /\ row'[cpe'[o].of].object = o
        /\ doc'[o].of \in Tests /\ row'[doc'[o].of].object = o
        BY <2>3, <2>4, <2>5
  <2>7. \A p \in Objects \ {o} :
            /\ \A i \in 1 .. Len(tasks'[p]) : row'[tasks'[p][i]].object = p
            /\ About(cpe[p], p)' /\ About(doc[p], p)'
        BY <1>3, <2>5 DEF About
  <2>8. About(cpe[o], o)' /\ About(doc[o], o)'
        BY <2>6 DEF About
  <2> QED BY <2>6, <2>7, <2>8 DEF Origin
<1>8. ASSUME NEW o \in Objects, ExecuteRefresh(o) PROVE Origin'
  <2>1. \A p \in Objects : doc'[p] = doc[p] \/ doc'[p] = cpe[p]
        BY <1>8 DEF ExecuteRefresh, Shape, TypeOK
  <2>2. UNCHANGED <<tasks, cpe>>
        BY <1>8 DEF ExecuteRefresh
  <2>3. ASSUME NEW p \in Objects
        PROVE  \/ doc'[p].state = "None" /\ doc'[p].of = NoTest
               \/ doc'[p].of \in Tests /\ row'[doc'[p].of].object = p
        BY <1>3, <2>1
  <2> QED BY <1>3, <2>2, <2>3 DEF Origin, About
<1>9. ASSUME NEW o \in Objects, NEW state, TestEnds(o, state) PROVE Origin'
  <2>1. /\ \A p \in Objects : \/ cpe'[p] = cpe[p]
                              \/ cpe[p].state = "Requested" /\ cpe'[p].of = cpe[p].of
        /\ UNCHANGED <<tasks, doc>>
        BY <1>9 DEF TestEnds, Shape, TypeOK, ObjectState
  <2> QED BY <1>3, <2>1 DEF Origin, About
<1>10. CASE CooldownEnds \/ Poll \/ TickFails \/ UNCHANGED vars
      BY <1>4, <1>10 DEF CooldownEnds, Poll, StartTick, PollOne, GetDevice, GetDeviceFails,
         Complete, TickFails, vars
<1>11. ASSUME NEW t \in Tests, DeadlinePasses(t) PROVE Origin'
      BY <1>4, <1>11 DEF DeadlinePasses
<1>12. ASSUME NEW ok \in BOOLEAN, RefreshTelemetry(ok) PROVE Origin'
      BY <1>4, <1>12 DEF RefreshTelemetry
<1> QED BY <1>6, <1>7, <1>8, <1>9, <1>10, <1>11, <1>12 DEF Next, Device

\* Only the poller writes 'complete', on the row in its hands, which it then puts down.
LEMMA PollSoundStep ==
    ASSUME Shape, Origin, PollSound, [Next]_vars PROVE PollSound'
<1> USE DEF database, genieacs
<1>1. worker.todo \subseteq Tests /\ \A t \in worker.todo : row[t].object # NoObject
      BY DEF Shape, TypeOK, PollShape
<1>2. \A t \in worker'.todo : row'[t].status # "complete"
  <2>1. CASE UNCHANGED row
        BY <2>1, TodoSteps DEF PollSound, ListActive, Active
  <2>2. ASSUME NEW t \in Tests, NEW o \in Objects, Enqueue(t, o)
        PROVE  \A u \in worker'.todo : row'[u].status # "complete"
        BY <1>1, <2>2 DEF Enqueue, Shape, TypeOK, RowSound, PollSound
  <2>3. ASSUME NEW t \in Tests, NEW st \in {"error", "running", "timeout"}, UpdateStatus(t, st)
        PROVE  \A u \in worker'.todo : row'[u].status # "complete"
    <3>1. row'[t].status = st /\ \A u \in Tests \ {t} : row'[u] = row[u]
          BY <2>3, StatusWritten DEF Shape, Active, Terminal
    <3>2. \A u \in worker'.todo : u \in Tests /\ row[u].status # "complete"
          BY <1>1, TodoSteps DEF PollSound, ListActive, Active
    <3> QED BY <3>1, <3>2
  <2>4. CASE WritesResult
    <3> DEFINE t == worker.test
    <3>1. t \in Tests /\ NextRow(t) /\ worker.read.of \in Tests \cup {NoTest}
          BY <2>4 DEF WritesResult, Complete, Shape, PollShape, TypeOK, ObjectState
    <3>2. UpdateResult(t, worker.read.of)
          BY <2>4 DEF WritesResult
    <3> HIDE DEF t
    <3>3. \A u \in Tests \ {t} : row'[u] = row[u]
          BY <3>1, <3>2, ResultWritten DEF Shape
    <3>4. worker'.todo \subseteq worker.todo \ {t}
          BY <3>1, NextRowTyped DEF Shape
    <3> QED BY <1>1, <3>3, <3>4 DEF PollSound
  <2> QED BY <2>1, <2>2, <2>3, <2>4, RowSteps
<1>3. ASSUME worker'.at = "write"
      PROVE  About(worker.read, row[worker.test].object)'
  <2>1. CASE worker' = worker
    <3>1. worker.test \in Tests /\ row[worker.test].object # NoObject
          BY <1>1, <1>3, <2>1 DEF Shape, PollShape
    <3>2. row'[worker.test].object = row[worker.test].object
          BY <3>1, ObjectsKept
    <3>3. About(worker.read, row[worker.test].object)
          BY <1>3, <2>1 DEF PollSound
    <3>4. CASE worker.read.of \in Tests /\ row[worker.read.of].object = row[worker.test].object
      <4>1. row'[worker.read.of].object = row[worker.read.of].object
            BY <3>1, <3>4, ObjectsKept
      <4> QED BY <2>1, <3>2, <3>4, <4>1 DEF About
    <3>5. CASE worker.read.state = "None" /\ worker.read.of = NoTest
          BY <2>1, <3>5 DEF About
    <3> QED BY <3>3, <3>4, <3>5 DEF About
  <2>2. CASE GetDevice
    <3> DEFINE seen == doc[row[worker.test].object]
    <3>1. worker.test \in Tests /\ row[worker.test].object \in Objects
          BY <1>1, <2>2 DEF GetDevice, Shape, PollShape, TypeOK
    <3>2. ~NextRow(worker.test)
          BY <1>3, NextRowTyped DEF Shape
    <3>3. worker' = [worker EXCEPT !.at = "write", !.read = seen]
          BY <2>2, <3>2 DEF GetDevice
    <3>4. worker'.read = seen /\ worker'.test = worker.test
          BY <3>3 DEF Shape, TypeOK
    <3>5. About(seen, row[worker.test].object)
          BY <3>1 DEF Origin
    <3>6. UNCHANGED row
          BY <2>2 DEF GetDevice
    <3> QED BY <3>4, <3>5, <3>6 DEF About
  <2>3. ASSUME worker' # worker, ~GetDevice PROVE FALSE
    <3>1. ASSUME NEW t, NextRow(t) PROVE FALSE
          BY <1>3, <3>1, NextRowTyped DEF Shape
    <3>2. ASSUME NEW t \in Tests, NEW refresh \in BOOLEAN, PollOne(t, refresh) PROVE FALSE
          BY <1>3, <3>1, <3>2 DEF PollOne, Shape, TypeOK
    <3>3. CASE StartTick
          BY <1>3, <3>3, TodoSteps DEF StartTick, Resting
    <3>4. CASE GetDeviceFails \/ Complete \/ TickFails
          BY <1>3, <3>1, <3>4, RestingTyped DEF GetDeviceFails, Complete, TickFails
    <3>5. ASSUME NEW t \in Tests, Request(t) \/ DeadlinePasses(t) PROVE FALSE
          BY <2>3, <3>5 DEF Request, Enqueue, SetParameterValues, RequestRejected, Acknowledge,
             RequestDies, DeadlinePasses
    <3>6. ASSUME NEW ok \in BOOLEAN, RefreshTelemetry(ok) \/ CooldownEnds \/ UNCHANGED vars
          PROVE  FALSE
          BY <2>3, <3>6 DEF RefreshTelemetry, CooldownEnds, vars
    <3>7. ASSUME NEW o \in Objects, Device(o) PROVE FALSE
          BY <2>3, <3>7 DEF Device, ExecuteTask, ExecuteRefresh, TestEnds
    <3> QED BY <2>3, <3>2, <3>3, <3>4, <3>5, <3>6, <3>7 DEF Next, Poll
  <2> QED BY <2>1, <2>2, <2>3
<1> QED BY <1>2, <1>3 DEF PollSound

\* A request for a taken object crowds every test of it that is still open.
LEMMA ApartStep ==
    ASSUME Shape, Apart, [Next]_vars PROVE Apart'
<1> SUFFICES ASSUME NEW t \in Tests, t \notin crowded', row'[t].object # NoObject, Open(t)',
                    NEW u \in Tests \ {t}, row'[u].object = row'[t].object
             PROVE  FALSE
    BY DEF Apart
<1>1. ASSUME row[t].object # NoObject, row'[u].object = row[u].object, t \notin crowded
      PROVE  FALSE
  <2>1. Open(t) /\ row'[t].object = row[t].object
        BY <1>1, OpenStable, ObjectsKept
  <2> QED BY <1>1, <2>1 DEF Apart
<1>2. ASSUME \A v \in Tests : row'[v].object = row[v].object, UNCHANGED crowded PROVE FALSE
      BY <1>1, <1>2
<1>3. CASE UNCHANGED <<row, crowded>>
      BY <1>2, <1>3
<1>4. ASSUME NEW n \in Tests, NEW o \in Objects, Enqueue(n, o) PROVE FALSE
  <2>1. /\ \A v \in Tests \ {n} : row'[v] = row[v]
        /\ row'[n].object = o /\ row[n].object = NoObject /\ o # NoObject
        BY <1>4, ConstantsAssumption DEF Enqueue, Absent, Shape, TypeOK, RowSound
  <2>2. /\ crowded \subseteq crowded'
        /\ \A v \in Tests : row[v].object = o /\ Open(v) => v \in crowded'
        /\ (\E v \in Tests : row[v].object = o) => n \in crowded'
        BY <1>4 DEF Enqueue
  <2>3. CASE n = t
        BY <2>1, <2>2, <2>3
  <2>4. CASE n = u
    <3>1. row[t].object = o /\ Open(t)
          BY <2>1, <2>4, OpenStable
    <3> QED BY <2>2, <3>1
  <2>5. CASE n # t /\ n # u
        BY <1>1, <2>1, <2>2, <2>5
  <2> QED BY <2>3, <2>4, <2>5
<1>5. ASSUME NEW v \in Tests, NEW st \in {"error", "running", "timeout"}, UpdateStatus(v, st),
             UNCHANGED crowded
      PROVE  FALSE
      BY <1>2, <1>5, StatusWritten DEF Shape, Active, Terminal
<1>6. CASE WritesResult /\ UNCHANGED crowded
  <2>1. worker.test \in Tests /\ worker.read.of \in Tests \cup {NoTest}
        BY <1>6 DEF WritesResult, Complete, Shape, PollShape, TypeOK, ObjectState
  <2>2. \A v \in Tests : row'[v].object = row[v].object
        BY <1>6, <2>1, ResultWritten DEF WritesResult, Shape
  <2> QED BY <1>2, <1>6, <2>2
<1> QED BY <1>3, <1>4, <1>5, <1>6, RowSteps

LEMMA ResultsStep ==
    ASSUME Sound, [Next]_vars PROVE AloneReportsItself'
<1> USE DEF Sound
<1>1. CASE UNCHANGED <<row, crowded>>
      BY <1>1 DEF AloneReportsItself
<1>2. ASSUME NEW t \in Tests, NEW o \in Objects, Enqueue(t, o) PROVE AloneReportsItself'
  <2>1. /\ \A v \in Tests \ {t} : row'[v] = row[v]
        /\ row'[t].status = "requested" /\ row'[t].result = NoTest /\ crowded \subseteq crowded'
        BY <1>2 DEF Enqueue, Absent, Shape, TypeOK
  <2> QED BY <2>1 DEF AloneReportsItself
<1>3. ASSUME NEW t \in Tests, NEW st \in {"error", "running", "timeout"}, UpdateStatus(t, st),
             UNCHANGED crowded
      PROVE  AloneReportsItself'
  <2>1. /\ row'[t].status = st /\ \A u \in Tests \ {t} : row'[u] = row[u]
        /\ row'[t].result = row[t].result
        BY <1>3, StatusWritten DEF Shape, Active, Terminal
  <2> QED BY <1>3, <2>1 DEF AloneReportsItself
<1>4. CASE WritesResult /\ UNCHANGED crowded
  <2> DEFINE t == worker.test
             of == worker.read.of
  <2>1. /\ t \in Tests /\ t \in worker.todo /\ row[t].object # NoObject
        /\ of \in Tests \cup {NoTest} /\ worker.at = "write"
        BY <1>4 DEF WritesResult, Complete, Shape, PollShape, TypeOK, ObjectState
  <2>2. /\ row'[t].result = of /\ \A u \in Tests \ {t} : row'[u] = row[u]
        BY <1>4, <2>1, ResultWritten DEF WritesResult, Shape
  <2>3. of \in Tests /\ row[of].object = row[t].object
        BY <2>1 DEF PollSound, About, Shape, PollShape
  <2>4. t \notin crowded => of = t
        BY <2>1, <2>3 DEF Apart, Open
  <2> HIDE DEF t, of
  <2> QED BY <1>4, <2>2, <2>4 DEF AloneReportsItself
<1> QED BY <1>1, <1>2, <1>3, <1>4, RowSteps

LEMMA InitSound == Init => Sound
<1> SUFFICES ASSUME Init PROVE Sound
    OBVIOUS
<1>1. Shape
      BY InitShape
<1>2. Origin
      BY DEF Init, Origin, About, Unused
<1>3. PollSound /\ Apart /\ AloneReportsItself
      BY DEF Init, PollSound, Apart, AloneReportsItself, Resting, Absent
<1> QED BY <1>1, <1>2, <1>3 DEF Sound

LEMMA SoundHolds == Spec => []Sound
<1>1. Sound /\ [Next]_vars => Sound'
      BY NextShape, OriginStep, PollSoundStep, ApartStep, ResultsStep DEF Sound
<1> QED BY <1>1, InitSound, PTL DEF Spec

\* service.go:309: a test that shares its object with no other one reports its own
\* result, whenever the task is executed, the copy refreshed and the row read.
THEOREM OwnResult == Spec => []AloneReportsItself
<1>1. Sound => AloneReportsItself
      BY DEF Sound
<1> QED BY <1>1, SoundHolds, PTL

\* diagnostics_repo.go:92: a completed row is not written again once its request is
\* over, although no write looks at the status.
THEOREM ResultKept == Spec => ResultStays
<1>1. Sound /\ [Next]_vars =>
          [\A t \in Tests : row[t].status = "complete" /\ request[t] = "over" =>
               row'[t] = row[t]]_vars
  <2> SUFFICES ASSUME Sound, [Next]_vars, NEW t \in Tests,
                      row[t].status = "complete", request[t] = "over"
               PROVE  row'[t] = row[t]
      OBVIOUS
  <2>1. t \notin worker.todo /\ row \in [Tests -> Row]
        BY DEF Sound, Shape, TypeOK, Row, PollSound
  <2>2. ASSUME NEW u \in Tests, Request(u) PROVE row'[t] = row[t]
        BY <2>1, <2>2 DEF Request, Enqueue, SetParameterValues, RequestRejected, Acknowledge,
           RequestDies, UpdateStatus, database
  <2>3. ASSUME NEW u \in Tests, NEW refresh \in BOOLEAN, PollOne(u, refresh)
        PROVE  row'[t] = row[t]
        BY <2>1, <2>3, FirstListed DEF PollOne, UpdateStatus
  <2>4. CASE Complete
    <3>1. worker.test # t
          BY <2>1, <2>4 DEF Complete, Sound, Shape, PollShape
    <3> QED BY <2>1, <2>4, <3>1 DEF Complete, UpdateStatus, UpdateResult
  <2>5. ASSUME ~\E u \in Tests : Request(u), ~Complete,
               ~\E u \in Tests, refresh \in BOOLEAN : PollOne(u, refresh)
        PROVE  UNCHANGED row
        BY <2>5 DEF Next, vars, DeadlinePasses, RefreshTelemetry, CooldownEnds, Poll, StartTick,
           GetDevice, GetDeviceFails, TickFails, Device, ExecuteTask, ExecuteRefresh, TestEnds,
           database
  <2> QED BY <2>2, <2>3, <2>4, <2>5
<1> QED BY <1>1, SoundHolds, PTL DEF Spec, ResultStays

=============================================================================
