---------------------------- MODULE Diagnostics ----------------------------
(***************************************************************************)
(* Remote tests (ping, traceroute): a request writes a row, sets the       *)
(* parameters of a diagnostics object of the device and acknowledges; the  *)
(* worker polls what GenieACS knows of the object until it is Complete, in *)
(* error, or the deadline has passed.                                      *)
(*                                                                         *)
(* An object is one kind of test of one device: all the tests of the kind  *)
(* share its DiagnosticsState and its result parameters.                   *)
(***************************************************************************)
EXTENDS Naturals, FiniteSets, Sequences

CONSTANTS
    Tests,      \* identities of the rows of diagnostics
    NoTest,
    Objects,    \* diagnostics objects: IPPing and TraceRoute of the devices
    NoObject,
    Limit,      \* rows a tick lists (50)
    MaxFaults   \* bound on failed statements and on dead requests

ASSUME ConstantsAssumption ==
    /\ IsFiniteSet(Tests) /\ NoTest \notin Tests /\ NoObject \notin Objects
    /\ Limit \in Nat \ {0} /\ MaxFaults \in Nat

VARIABLES
    row,       \* diagnostics: status, object, and the test the result is of
    since,     \* requested_at of each test: its rank
    request,   \* stage of the request of each test
    late,      \* tests whose deadline has passed
    worker,    \* the poller: rows still to poll, and what it has read
    tasks,     \* setParameterValues tasks stored by GenieACS, by object
    refreshes, \* objects with a stored refresh task
    cooling,   \* RefreshGate: the device was refreshed less than 30 s ago
    cpe,       \* the objects in the device: state, and the test it is about
    doc,       \* the objects as GenieACS knows them
    crowded,   \* history: tests that shared their object with another test
    faults     \* history: failures so far

vars == <<row, since, request, late, worker, tasks, refreshes, cooling, cpe, doc,
          crowded, faults>>
database == <<row, since>>
genieacs == <<tasks, refreshes, cpe, doc>>

-----------------------------------------------------------------------------
Active   == {"requested", "running"}
Terminal == {"complete", "error", "timeout"}

Unused == [state |-> "None", of |-> NoTest]
Absent == [status |-> "absent", object |-> NoObject, result |-> NoTest]
Resting == [at |-> "idle", todo |-> {}, test |-> NoTest, read |-> Unused]

Init ==
    /\ row       = [t \in Tests |-> Absent]
    /\ since     = [t \in Tests |-> 0]
    /\ request   = [t \in Tests |-> "none"]
    /\ late      = {}
    /\ worker    = Resting
    /\ tasks     = [o \in Objects |-> <<>>]
    /\ refreshes = {}
    /\ cooling   = FALSE
    /\ cpe       = [o \in Objects |-> Unused]
    /\ doc       = [o \in Objects |-> Unused]
    /\ crowded   = {}
    /\ faults    = 0

Fault == faults < MaxFaults /\ faults' = faults + 1

\* The repository's two writes look at no status.
UpdateStatus(t, status) == row' = [row EXCEPT ![t].status = status]
UpdateResult(t, of) ==
    row' = [row EXCEPT ![t].status = "complete", ![t].result = of]

-----------------------------------------------------------------------------
(* A request.                                                              *)

\* Tests that may still be written: active, requested just now, or in a tick's hands.
Open(u) == \/ row[u].status \in Active
           \/ request[u] \in {"send", "acknowledge"}
           \/ u \in worker.todo

\* The data model is known and the row is written; before that nothing is left.
Enqueue(t, o) ==
    LET sharing == {u \in Tests : row[u].object = o} IN
    /\ request[t] = "none"
    /\ row' = [row EXCEPT ![t] = [Absent EXCEPT !.status = "requested", !.object = o]]
    /\ since' = [since EXCEPT ![t] = 1 + Cardinality({u \in Tests : request[u] # "none"})]
    /\ request' = [request EXCEPT ![t] = "send"]
    /\ crowded' = crowded \cup {u \in sharing : Open(u)}
                          \cup IF sharing = {} THEN {} ELSE {t}
    /\ UNCHANGED <<late, worker, genieacs, cooling, faults>>

\* setParameterValues: the object's parameters and DiagnosticsState = Requested.
SetParameterValues(t) ==
    /\ request[t] = "send"
    /\ tasks' = [tasks EXCEPT ![row[t].object] = Append(@, t)]
    /\ request' = [request EXCEPT ![t] = "acknowledge"]
    /\ UNCHANGED <<database, late, worker, refreshes, cooling, cpe, doc, crowded, faults>>

\* An error of the call; when only the answer was lost the task is stored.
RequestRejected(t, stored) ==
    /\ request[t] = "send"
    /\ tasks' = IF stored THEN [tasks EXCEPT ![row[t].object] = Append(@, t)] ELSE tasks
    /\ UpdateStatus(t, "error")
    /\ request' = [request EXCEPT ![t] = "over"]
    /\ UNCHANGED <<since, late, worker, refreshes, cooling, cpe, doc, crowded, faults>>

\* 'running', whatever the poller has written since.
Acknowledge(t) ==
    /\ request[t] = "acknowledge"
    /\ UpdateStatus(t, "running")
    /\ request' = [request EXCEPT ![t] = "over"]
    /\ UNCHANGED <<since, late, worker, genieacs, cooling, crowded, faults>>

\* The server or the connection dies, or the database refuses the acknowledgement.
RequestDies(t) ==
    /\ request[t] \in {"send", "acknowledge"}
    /\ Fault
    /\ request' = [request EXCEPT ![t] = "over"]
    /\ UNCHANGED <<database, late, worker, genieacs, cooling, crowded>>

\* The button that refreshes the whole device, once in 30 s.
RefreshTelemetry(ok) ==
    /\ ~cooling
    /\ cooling' = TRUE
    /\ refreshes' = IF ok THEN Objects ELSE refreshes
    /\ UNCHANGED <<database, request, late, worker, tasks, cpe, doc, crowded, faults>>

CooldownEnds ==
    /\ cooling
    /\ cooling' = FALSE
    /\ UNCHANGED <<database, request, late, worker, genieacs, crowded, faults>>

-----------------------------------------------------------------------------
(* The poller: one tick after another, in the worker's only loop.          *)

\* Faulty variant: the listing does not look at the status.
ListAll(rows) == {t \in Tests : rows[t].status # "absent"}

ListActive(rows) == {t \in Tests : rows[t].status \in Active}

\* ORDER BY requested_at LIMIT: no listed row is younger than one left out.
Oldest(S, n) == {T \in SUBSET S : /\ Cardinality(T) = IF Cardinality(S) < n THEN Cardinality(S)
                                                      ELSE n
                                  /\ \A t \in T, u \in S \ T : since[t] <= since[u]}

\* The next row of the tick after t; none left, the tick is over.
NextRow(t) == worker' = IF worker.todo = {t} THEN Resting
                        ELSE [Resting EXCEPT !.at = "poll", !.todo = worker.todo \ {t}]

\* Faulty variant: the listing has no limit.
StartTickUnlimited ==
    /\ worker.at = "idle"
    /\ ListActive(row) # {}
    /\ worker' = [Resting EXCEPT !.at = "poll", !.todo = ListActive(row)]
    /\ UNCHANGED <<database, request, late, genieacs, cooling, crowded, faults>>

StartTick ==
    /\ worker.at = "idle"
    /\ \E listed \in Oldest(ListActive(row), Limit) :
         /\ listed # {}
         /\ worker' = [Resting EXCEPT !.at = "poll", !.todo = listed]
    /\ UNCHANGED <<database, request, late, genieacs, cooling, crowded, faults>>

\* Faulty variant: a test is given up only after a read that says nothing.
NeverExpired(t) == FALSE

Expired(t) == t \in late

\* The oldest row left.  Expired: 'timeout', whatever the row says by now.  Otherwise
\* the object is refreshed, unless the request is younger than 5 s or the call fails.
PollOne(t, refresh) ==
    /\ worker.at = "poll" /\ {t} \in Oldest(worker.todo, 1)
    /\ IF Expired(t)
       THEN /\ UpdateStatus(t, "timeout")
            /\ NextRow(t)
            /\ UNCHANGED refreshes
       ELSE /\ refreshes' = IF refresh THEN refreshes \cup {row[t].object} ELSE refreshes
            /\ worker' = [worker EXCEPT !.at = "read", !.test = t]
            /\ UNCHANGED row
    /\ UNCHANGED <<since, request, late, tasks, cooling, cpe, doc, crowded, faults>>

\* Faulty variant: a test that does not run any more is taken for ended.
DecidedUnlessRequested(state) == state # "Requested"

Decided(state) == state \in {"Complete", "Error"}

\* What GenieACS knows of the object; while nothing is decided the row waits.
GetDevice ==
    LET seen == doc[row[worker.test].object] IN
    /\ worker.at = "read"
    /\ IF Decided(seen.state)
       THEN worker' = [worker EXCEPT !.at = "write", !.read = seen]
       ELSE NextRow(worker.test)
    /\ UNCHANGED <<database, request, late, genieacs, cooling, crowded, faults>>

GetDeviceFails ==
    /\ worker.at = "read"
    /\ NextRow(worker.test)
    /\ UNCHANGED <<database, request, late, genieacs, cooling, crowded, faults>>

\* The object's result parameters are taken for the row's.
Complete ==
    /\ worker.at = "write"
    /\ IF worker.read.state = "Error" THEN UpdateStatus(worker.test, "error")
                                      ELSE UpdateResult(worker.test, worker.read.of)
    /\ NextRow(worker.test)
    /\ UNCHANGED <<since, request, late, genieacs, cooling, crowded, faults>>

\* A statement of the poller fails (the row waits for the next tick), or the tick's
\* 30 s are over, or the worker is restarted (the other rows wait as well).
TickFails ==
    /\ worker.at # "idle"
    /\ Fault
    /\ worker' = Resting \/ \E t \in Tests : {t} \in Oldest(worker.todo, 1) /\ NextRow(t)
    /\ UNCHANGED <<database, request, late, genieacs, cooling, crowded>>

DeadlinePasses(t) ==
    /\ row[t].status # "absent"
    /\ late' = late \cup {t}
    /\ UNCHANGED <<database, request, worker, genieacs, cooling, crowded, faults>>

-----------------------------------------------------------------------------
(* GenieACS and the device.                                                *)

\* A stored task is executed in a session; GenieACS then knows what it has set.
ExecuteTask(o) ==
    LET started == [state |-> "Requested", of |-> Head(tasks[o])] IN
    /\ tasks[o] # <<>>
    /\ tasks' = [tasks EXCEPT ![o] = Tail(@)]
    /\ cpe' = [cpe EXCEPT ![o] = started]
    /\ doc' = [doc EXCEPT ![o] = started]
    /\ UNCHANGED <<database, request, late, worker, refreshes, cooling, crowded, faults>>

ExecuteRefresh(o) ==
    /\ o \in refreshes
    /\ refreshes' = refreshes \ {o}
    /\ doc' = [doc EXCEPT ![o] = cpe[o]]
    /\ UNCHANGED <<database, request, late, worker, tasks, cooling, cpe, crowded, faults>>

TestEnds(o, state) ==
    /\ cpe[o].state = "Requested"
    /\ cpe' = [cpe EXCEPT ![o].state = state]
    /\ UNCHANGED <<database, request, late, worker, tasks, refreshes, cooling, doc,
                   crowded, faults>>

-----------------------------------------------------------------------------
Request(t) ==
    \/ \E o \in Objects : Enqueue(t, o)
    \/ SetParameterValues(t) \/ Acknowledge(t) \/ RequestDies(t)
    \/ \E stored \in BOOLEAN : RequestRejected(t, stored)

Poll == \/ StartTick \/ GetDevice \/ GetDeviceFails \/ Complete
        \/ \E t \in Tests, refresh \in BOOLEAN : PollOne(t, refresh)

Device(o) == \/ ExecuteTask(o) \/ ExecuteRefresh(o)
             \/ \E state \in {"Complete", "Error"} : TestEnds(o, state)

Next ==
    \/ \E t \in Tests : Request(t) \/ DeadlinePasses(t)
    \/ \E ok \in BOOLEAN : RefreshTelemetry(ok)
    \/ CooldownEnds \/ Poll \/ TickFails
    \/ \E o \in Objects : Device(o)

\* The worker's loop goes on and deadlines pass; no call to GenieACS need ever
\* succeed, and no request need finish.
Fairness == WF_vars(Poll) /\ \A t \in Tests : WF_vars(DeadlinePasses(t))

Spec == Init /\ [][Next]_vars /\ Fairness

-----------------------------------------------------------------------------
(* Properties.                                                             *)

ObjectState == [state : {"None", "Requested", "Complete", "Error"}, of : Tests \cup {NoTest}]

TypeOK ==
    /\ row \in [Tests -> [status : {"absent"} \cup Active \cup Terminal,
                          object : Objects \cup {NoObject}, result : Tests \cup {NoTest}]]
    /\ since \in [Tests -> Nat]
    /\ request \in [Tests -> {"none", "send", "acknowledge", "over"}]
    /\ late \subseteq Tests /\ crowded \subseteq Tests
    /\ worker \in [at : {"idle", "poll", "read", "write"}, todo : SUBSET Tests,
                   test : Tests \cup {NoTest}, read : ObjectState]
    /\ Cardinality(worker.todo) <= Limit
    /\ tasks \in [Objects -> Seq(Tests)]
    /\ refreshes \subseteq Objects /\ cooling \in BOOLEAN
    /\ cpe \in [Objects -> ObjectState] /\ doc \in [Objects -> ObjectState]
    /\ faults \in Nat

\* service.go:309: a test that shares its object with no other reports its own
\* result, although it is read from GenieACS's copy of an object, set by a task
\* that may be executed late, and although its row may be ended before the
\* request acknowledges it.
AloneReportsItself ==
    \A t \in Tests \ crowded :
        /\ row[t].status = "complete" => row[t].result = t
        /\ row[t].result \in {NoTest, t}

\* A result that has been reported stays: a completed test whose request is over
\* keeps its status and its result, although neither write of the repository
\* looks at the status and a tick works on rows that it listed earlier.  (A
\* refused test need not stay refused: the tick may have listed it before.)
ResultStays ==
    [][\A t \in Tests : row[t].status = "complete" /\ request[t] = "over" =>
           row'[t] = row[t]]_vars

\* entities.go:16: no test stays 'requested' or 'running' for ever, whatever
\* GenieACS answers, however the request died, and however many older tests the
\* limit of a tick puts before it.
TestsEnd == \A t \in Tests : row[t].status \in Active ~> row[t].status \in Terminal

=============================================================================
