---------------------------- MODULE Homologation ----------------------------
(***************************************************************************)
(* The homologation wizard: an operator opens a session on a lab device,   *)
(* probes its parameter tree, maps canonical keys to paths of the tree,    *)
(* tests each mapping, and completes the session, which makes a profile    *)
(* and marks it homologated for the model of the device.                   *)
(*                                                                         *)
(* A request (or the goroutine a probe leaves behind) is a call: it reads  *)
(* the session, decides, and writes in later statements, each a step of    *)
(* its own, so what it read may be stale by then.  TestAllPending and      *)
(* ApplyAutoMap are sequences of the single requests modelled here.        *)
(***************************************************************************)
EXTENDS Naturals, FiniteSets

CONSTANTS
    Sessions,    \* identities of the rows of homologation_sessions
    LabDevice,   \* lab_device_id of each session
    Mappings,    \* identities of the rows of homologation_mappings
    SessionOf,   \* session_id of each mapping
    KeyOf,       \* canonical_key of each mapping
    Secret,      \* mappings with is_secret
    Profiles,    \* names of config_profiles of the model
    NoProfile,   \* the NULL generated_profile_id
    NoMapping,   \* no mapping in the call's hands
    NoSession,   \* no session: of a call or of a profile's row
    Calls,       \* requests and probe goroutines in flight at once
    MaxFaults    \* bound on failed database statements

ASSUME ConstantsAssumption ==
    /\ SessionOf \in [Mappings -> Sessions]
    /\ DOMAIN LabDevice = Sessions
    /\ DOMAIN KeyOf = Mappings
    /\ Secret \subseteq Mappings
    /\ NoProfile \notin Profiles
    /\ NoMapping \notin Mappings
    /\ NoSession \notin Sessions
    /\ MaxFaults \in Nat

VARIABLES
    status,    \* homologation_sessions.status; "absent": no such row
    finished,  \* finished_at: "no" (NULL), "recent", or "old" enough to purge
    probed,    \* tree_snapshot IS NOT NULL
    row,       \* rows of homologation_mappings
    profile,   \* rows of config_profiles that sessions made, with parameters
    record,    \* status of the profile's row of model_homologations
    generated, \* homologation_sessions.generated_profile_id
    call,      \* the calls in flight and what they have read
    tested,    \* history: mappings that were eligible at some time
    faults     \* history: statements that failed

sessionVars == <<status, finished, probed>>
resultVars  == <<profile, record, generated>>
vars == <<sessionVars, row, resultVars, call, tested, faults>>

-----------------------------------------------------------------------------
Active   == {"draft", "probing", "testing"}
Finished == {"completed", "abandoned"}
SessionStatus == {"absent"} \cup Active \cup Finished

\* read: read_status is "ok"; write: write_status is "ok" or "skipped".
MappingRow == [state : {"absent", "present", "deleted"},
               read : BOOLEAN, write : BOOLEAN]
Untested(st) == [state |-> st, read |-> FALSE, write |-> FALSE]
ProfileRow == [session : Sessions \cup {NoSession}, params : SUBSET Mappings]

\* The stages of a call: what it does next.
ProbeStages == {"probe", "mark", "refresh", "settle", "pass2", "rollback"}
Stages == {"idle", "markprobing", "reset", "add", "remove", "read", "write",
           "list", "create", "params", "record", "link", "finish"} \cup ProbeStages

CallRecord == [at : Stages, s : Sessions \cup {NoSession}, m : Mappings \cup {NoMapping},
               back : Active, params : SUBSET Mappings, p : Profiles \cup {NoProfile}]

Rows(s) == {m \in Mappings : SessionOf[m] = s /\ row[m].state = "present"}

\* Faulty variant: a mapping that can be read is good enough.
EligibleForRead(m) == row[m].read

EligibleForProfile(m) == row[m].read /\ row[m].write

-----------------------------------------------------------------------------
Idle == [at |-> "idle", s |-> NoSession, m |-> NoMapping, back |-> "draft",
         params |-> {}, p |-> NoProfile]

Init ==
    /\ status    = [s \in Sessions |-> "absent"]
    /\ finished  = [s \in Sessions |-> "no"]
    /\ probed    = [s \in Sessions |-> FALSE]
    /\ row       = [m \in Mappings |-> Untested("absent")]
    /\ profile   = [p \in Profiles |-> [session |-> NoSession, params |-> {}]]
    /\ record    = [p \in Profiles |-> "none"]
    /\ generated = [s \in Sessions |-> NoProfile]
    /\ call      = [c \in Calls |-> Idle]
    /\ tested    = {}
    /\ faults    = 0

\* A call comes in, or goes on, or ends.
Begin(c, at, s) == /\ call[c] = Idle
                   /\ call' = [call EXCEPT ![c] = [Idle EXCEPT !.at = at, !.s = s]]
Goto(c, at) == call' = [call EXCEPT ![c] = IF at = "idle" THEN Idle
                                           ELSE [@ EXCEPT !.at = at]]

-----------------------------------------------------------------------------
(* The session's row.                                                      *)

\* Faulty variant: no such index.
NeverBlocked(s, st) == FALSE

\* idx_hom_sessions_active_per_device: one active session for each lab device.
Blocked(s, st) ==
    /\ st \in Active
    /\ \E t \in Sessions \ {s} : LabDevice[t] = LabDevice[s] /\ status[t] \in Active

SetStatus(s, st) ==
    /\ status'   = [status EXCEPT ![s] = st]
    /\ finished' = [finished EXCEPT ![s] =
                      IF st \in Finished /\ @ = "no" THEN "recent" ELSE @]

\* UpdateStatus looks at the index, never at the status the row has.
UpdateStatus(c, st, then, failed) ==
    IF Blocked(call[c].s, st)
    THEN Goto(c, failed) /\ UNCHANGED <<status, finished>>
    ELSE Goto(c, then) /\ SetStatus(call[c].s, st)

\* The check of ActiveByDevice only refuses earlier what the index refuses.
StartSession(s) ==
    /\ status[s] = "absent"
    /\ ~Blocked(s, "draft")
    /\ status' = [status EXCEPT ![s] = "draft"]
    /\ UNCHANGED <<finished, probed, row, resultVars, call, tested, faults>>

Abandon(s) ==
    /\ status[s] # "absent"
    /\ SetStatus(s, "abandoned")
    /\ UNCHANGED <<probed, row, resultVars, call, tested, faults>>

-----------------------------------------------------------------------------
(* Probing.                                                                *)

\* The handler: MarkProbing reads the session; one that is "probing" already
\* goes straight to the goroutine.
RequestProbe(c, s) ==
    /\ status[s] \in Active
    /\ Begin(c, IF status[s] = "probing" THEN "probe" ELSE "markprobing", s)
    /\ UNCHANGED <<sessionVars, row, resultVars, tested, faults>>

MarkProbing(c) ==
    /\ call[c].at = "markprobing"
    /\ UpdateStatus(c, "probing", "probe", "idle")
    /\ UNCHANGED <<probed, row, resultVars, tested, faults>>

\* Faulty variant: the status found is the one to restore, "probing" included.
BeforeProbeAsFound(s) == status[s]

\* Faulty variant: a session that was being probed is taken to have its tree.
BeforeProbeTesting(s) == IF status[s] # "probing" THEN status[s] ELSE "testing"

\* The status to restore; a session found "probing" was marked by the handler.
BeforeProbe(s) == IF status[s] # "probing" THEN status[s]
                  ELSE IF probed[s] THEN "testing" ELSE "draft"

\* Faulty variant: the goroutine relies on the handler's check.
ProbeReadUnchecked(c) ==
    /\ call[c].at = "probe"
    /\ call' = [call EXCEPT ![c] = [@ EXCEPT !.at = "mark",
                                           !.back = BeforeProbe(call[c].s)]]
    /\ UNCHANGED <<sessionVars, row, resultVars, tested, faults>>

\* The goroutine reads the session again.
ProbeRead(c) ==
    /\ call[c].at = "probe"
    /\ IF status[call[c].s] \in Active
       THEN call' = [call EXCEPT ![c] = [@ EXCEPT !.at = "mark",
                                                  !.back = BeforeProbe(call[c].s)]]
       ELSE Goto(c, "idle")
    /\ UNCHANGED <<sessionVars, row, resultVars, tested, faults>>

ProbeMark(c) ==
    /\ call[c].at = "mark"
    /\ UpdateStatus(c, "probing", "refresh", "idle")
    /\ UNCHANGED <<probed, row, resultVars, tested, faults>>

\* Pass 1: refresh tasks, then the tree as GenieACS has it, or its error.
SaveSnapshot(c) ==
    /\ call[c].at = "refresh"
    /\ \/ Goto(c, "settle") /\ probed' = [probed EXCEPT ![call[c].s] = TRUE]
       \/ Goto(c, "rollback") /\ UNCHANGED probed
    /\ UNCHANGED <<status, finished, row, resultVars, tested, faults>>

\* The context of five minutes may be over by now.
ProbeSettle(c) ==
    /\ call[c].at = "settle"
    /\ \/ UpdateStatus(c, "testing", "pass2", "rollback")
       \/ Goto(c, "rollback") /\ UNCHANGED <<status, finished>>
    /\ UNCHANGED <<probed, row, resultVars, tested, faults>>

\* Pass 2, best effort: the richer tree is saved, or not.
SecondPass(c) ==
    /\ call[c].at = "pass2"
    /\ Goto(c, "idle")
    /\ probed' \in {probed, [probed EXCEPT ![call[c].s] = TRUE]}
    /\ UNCHANGED <<status, finished, row, resultVars, tested, faults>>

\* Faulty variant: an error of the probe leaves the status alone.
NoRollback(c) ==
    /\ call[c].at = "rollback"
    /\ Goto(c, "idle")
    /\ UNCHANGED <<sessionVars, row, resultVars, tested, faults>>

\* The deferred recovery, which ignores its own errors.
Rollback(c) ==
    /\ call[c].at = "rollback"
    /\ UpdateStatus(c, call[c].back, "idle", "idle")
    /\ UNCHANGED <<probed, row, resultVars, tested, faults>>

RequestReset(c, s) ==
    /\ status[s] = "probing"
    /\ call[c] = Idle
    /\ call' = [call EXCEPT ![c] = [Idle EXCEPT !.at = "reset", !.s = s,
                                       !.back = IF probed[s] THEN "testing" ELSE "draft"]]
    /\ UNCHANGED <<sessionVars, row, resultVars, tested, faults>>

ResetProbe(c) ==
    /\ call[c].at = "reset"
    /\ UpdateStatus(c, call[c].back, "idle", "idle")
    /\ UNCHANGED <<probed, row, resultVars, tested, faults>>

-----------------------------------------------------------------------------
(* Mappings and their tests.                                               *)

\* A request on a mapping of an active session; RunReadTest needs the tree too,
\* and RunWriteTest never sends a secret.
RequestMapping(c, m, at) ==
    /\ status[SessionOf[m]] \in Active
    /\ IF at = "add" THEN row[m].state = "absent" /\ \A d \in Calls : call[d].m # m
                     ELSE row[m].state = "present"
    /\ at = "read" => probed[SessionOf[m]]
    /\ at = "write" => m \notin Secret
    /\ call[c] = Idle
    /\ call' = [call EXCEPT ![c] = [Idle EXCEPT !.at = at, !.s = SessionOf[m], !.m = m]]
    /\ UNCHANGED <<sessionVars, row, resultVars, tested, faults>>

\* UNIQUE (session_id, canonical_key) refuses a second mapping of a key.
AddMapping(c) ==
    LET m == call[c].m IN
    /\ call[c].at = "add"
    /\ Goto(c, "idle")
    /\ IF \E n \in Rows(call[c].s) : n = m \/ KeyOf[n] = KeyOf[m]
       THEN UNCHANGED row
       ELSE row' = [row EXCEPT ![m] = Untested("present")]
    /\ UNCHANGED <<sessionVars, resultVars, tested, faults>>

RemoveMapping(c) ==
    /\ call[c].at = "remove"
    /\ Goto(c, "idle")
    /\ row' = [row EXCEPT ![call[c].m] = Untested("deleted")]
    /\ UNCHANGED <<sessionVars, resultVars, tested, faults>>

\* A result is written to the row of the mapping if it is still there.
WriteResult(m, read, write) ==
    IF row[m].state = "present"
    THEN /\ row' = [row EXCEPT ![m] = [@ EXCEPT !.read = read, !.write = write]]
         /\ tested' = IF read /\ write THEN tested \cup {m} ELSE tested
    ELSE UNCHANGED <<row, tested>>

\* The path is in the tree the call read, or it is not.
RunReadTest(c) ==
    /\ call[c].at = "read"
    /\ Goto(c, "idle")
    /\ \E ok \in BOOLEAN : WriteResult(call[c].m, ok, row[call[c].m].write)
    /\ UNCHANGED <<sessionVars, resultVars, faults>>

\* SetParameterValues with the test value, the restore, and the result.
RunWriteTest(c) ==
    /\ call[c].at = "write"
    /\ Goto(c, "idle")
    /\ \E ok \in BOOLEAN : WriteResult(call[c].m, row[call[c].m].read, ok)
    /\ UNCHANGED <<sessionVars, resultVars, faults>>

\* A secret is marked skipped, whatever the status of the session.
SkipWriteTest(m) ==
    /\ m \in Secret
    /\ row[m].state = "present"
    /\ WriteResult(m, row[m].read, TRUE)
    /\ UNCHANGED <<sessionVars, resultVars, call, faults>>

-----------------------------------------------------------------------------
(* Completing.                                                             *)

RequestComplete(c, s) ==
    /\ status[s] \in Active
    /\ Begin(c, "list", s)
    /\ UNCHANGED <<sessionVars, row, resultVars, tested, faults>>

ListMappings(c) ==
    LET eligible == {m \in Rows(call[c].s) : EligibleForProfile(m)} IN
    /\ call[c].at = "list"
    /\ IF eligible = {}
       THEN Goto(c, "idle")
       ELSE call' = [call EXCEPT ![c] = [@ EXCEPT !.at = "create", !.params = eligible]]
    /\ UNCHANGED <<sessionVars, row, resultVars, tested, faults>>

\* The profile's row, under the name the operator gave; a taken name is refused.
CreateProfile(c, p) ==
    /\ call[c].at = "create"
    /\ IF profile[p].session = NoSession
       THEN /\ profile' = [profile EXCEPT ![p] = [@ EXCEPT !.session = call[c].s]]
            /\ call' = [call EXCEPT ![c] = [@ EXCEPT !.at = "params", !.p = p]]
       ELSE Goto(c, "idle") /\ UNCHANGED profile
    /\ UNCHANGED <<sessionVars, row, record, generated, tested, faults>>

\* Its parameters (one transaction) and its first history entry.
ReplaceParameters(c) ==
    /\ call[c].at = "params"
    /\ profile' = [profile EXCEPT ![call[c].p] = [@ EXCEPT !.params = call[c].params]]
    /\ Goto(c, "record")
    /\ UNCHANGED <<sessionVars, row, record, generated, tested, faults>>

\* Faulty variant: the session is finished before it has its profile.
RecordAndFinish(c) ==
    /\ call[c].at = "record"
    /\ record' = [record EXCEPT ![call[c].p] = "homologated"]
    /\ UpdateStatus(c, "completed", "link", "idle")
    /\ UNCHANGED <<probed, row, profile, generated, tested, faults>>

RecordHomologation(c) ==
    /\ call[c].at = "record"
    /\ record' = [record EXCEPT ![call[c].p] = "homologated"]
    /\ Goto(c, "link")
    /\ UNCHANGED <<sessionVars, row, profile, generated, tested, faults>>

SetGeneratedProfile(c) ==
    /\ call[c].at = "link"
    /\ generated' = [generated EXCEPT ![call[c].s] = call[c].p]
    /\ Goto(c, "finish")
    /\ UNCHANGED <<sessionVars, row, profile, record, tested, faults>>

FinishSession(c) ==
    /\ call[c].at = "finish"
    /\ UpdateStatus(c, "completed", "idle", "idle")
    /\ UNCHANGED <<probed, row, resultVars, tested, faults>>

Deprecate(p) ==
    /\ record[p] = "homologated"
    /\ record' = [record EXCEPT ![p] = "deprecated"]
    /\ UNCHANGED <<sessionVars, row, profile, generated, call, tested, faults>>

-----------------------------------------------------------------------------
(* Failures and time.                                                      *)

\* The next statement of the call fails.  Only a probe that has marked the
\* session in its own right recovers; everybody else returns the error.
StatementFails(c) ==
    /\ call[c] # Idle
    /\ faults < MaxFaults
    /\ faults' = faults + 1
    /\ Goto(c, IF call[c].at \in {"refresh", "settle"} THEN "rollback" ELSE "idle")
    /\ UNCHANGED <<sessionVars, row, resultVars, tested>>

\* The server dies and boots: ResetStuckProbing.
Restart ==
    /\ \E c \in Calls : call[c] # Idle
    /\ call' = [c \in Calls |-> Idle]
    /\ status' = [s \in Sessions |-> IF status[s] # "probing" THEN status[s]
                                     ELSE IF probed[s] THEN "testing" ELSE "draft"]
    /\ UNCHANGED <<finished, probed, row, resultVars, tested, faults>>

\* Thirty days pass, in which no call stays in flight.
Ages(s) ==
    /\ finished[s] = "recent"
    /\ \A c \in Calls : call[c].s # s
    /\ finished' = [finished EXCEPT ![s] = "old"]
    /\ UNCHANGED <<status, probed, row, resultVars, call, tested, faults>>

Purgeable(s) == probed[s] /\ status[s] \in Finished /\ finished[s] = "old"

PurgeOldSnapshots ==
    /\ \E s \in Sessions : Purgeable(s)
    /\ probed' = [s \in Sessions |-> probed[s] /\ ~Purgeable(s)]
    /\ UNCHANGED <<status, finished, row, resultVars, call, tested, faults>>

-----------------------------------------------------------------------------
Requests(c) ==
    \/ \E s \in Sessions : RequestProbe(c, s) \/ RequestReset(c, s) \/ RequestComplete(c, s)
    \/ \E m \in Mappings : \E at \in {"add", "remove", "read", "write"} :
           RequestMapping(c, m, at)

Probe(c) == \/ MarkProbing(c) \/ ProbeRead(c) \/ ProbeMark(c) \/ SaveSnapshot(c)
            \/ ProbeSettle(c) \/ SecondPass(c) \/ Rollback(c)

Complete(c) == \/ ListMappings(c) \/ ReplaceParameters(c) \/ RecordHomologation(c)
               \/ SetGeneratedProfile(c) \/ FinishSession(c)
               \/ \E p \in Profiles : CreateProfile(c, p)

Proceed(c) == \/ Probe(c) \/ ResetProbe(c) \/ AddMapping(c) \/ RemoveMapping(c)
              \/ RunReadTest(c) \/ RunWriteTest(c) \/ Complete(c)

Next ==
    \/ \E s \in Sessions : StartSession(s) \/ Abandon(s) \/ Ages(s)
    \/ \E m \in Mappings : SkipWriteTest(m)
    \/ \E p \in Profiles : Deprecate(p)
    \/ \E c \in Calls : Requests(c) \/ Proceed(c) \/ StatementFails(c)
    \/ Restart \/ PurgeOldSnapshots

Spec == Init /\ [][Next]_vars

\* A call in flight goes on: its statements return, and its calls to GenieACS
\* return within their 30 seconds, waitForTasks within its timeout.
Fairness == \A c \in Calls : WF_vars(Proceed(c))

FairSpec == Spec /\ Fairness

-----------------------------------------------------------------------------
(* Properties.                                                             *)

TypeOK ==
    /\ status    \in [Sessions -> SessionStatus]
    /\ finished  \in [Sessions -> {"no", "recent", "old"}]
    /\ probed    \in [Sessions -> BOOLEAN]
    /\ row       \in [Mappings -> MappingRow]
    /\ profile   \in [Profiles -> ProfileRow]
    /\ record    \in [Profiles -> {"none", "homologated", "deprecated"}]
    /\ generated \in [Sessions -> Profiles \cup {NoProfile}]
    /\ call      \in [Calls -> CallRecord]
    /\ tested    \in SUBSET Mappings
    /\ faults    \in Nat

\* As long as the database answers, a session says "probing" only while a probe
\* of it is in flight, whatever GenieACS answers, operators do and crashes
\* interrupt (MarkProbing, Probe's deferred recovery, ResetStuckProbing).
ProbeInFlight(s) == \E c \in Calls : call[c].s = s /\ call[c].at \in ProbeStages

ProbingHasProbe ==
    faults = 0 => \A s \in Sessions : status[s] = "probing" => ProbeInFlight(s)

\* ... and then it leaves that status, so that the device is not blocked.
ProbingEnds ==
    [](faults = 0) => \A s \in Sessions : status[s] = "probing" ~> status[s] # "probing"

\* A profile recorded as homologated has parameters, and each of them comes from
\* a mapping that passed its tests, although tests, removals, failures and other
\* completions go on between the statements of Complete.
HomologatedIsTested ==
    \A p \in Profiles : record[p] # "none" =>
        /\ profile[p].params # {}
        /\ profile[p].params \subseteq {m \in tested : SessionOf[m] = profile[p].session}

\* A completed session has the profile it made, recorded as homologated (until
\* somebody deprecates it): Complete may stop between any two of its statements.
CompletedHasProfile ==
    \A s \in Sessions : status[s] = "completed" =>
        \E p \in Profiles : /\ generated[s] = p
                            /\ profile[p].session = s
                            /\ record[p] # "none"

\* entities.go:108: in "testing" the tree is there.  No interleaving of probes,
\* resets, late rollbacks and the purge brings a session there without it, but
\* for one that came back to life after it had been finished for 30 days.
TestingHasTree ==
    \A s \in Sessions : status[s] = "testing" => probed[s] \/ finished[s] = "old"

\* idx_hom_sessions_active_per_device, although sessions come back to life.
OneSessionPerDevice ==
    \A s, t \in Sessions :
        status[s] \in Active /\ status[t] \in Active /\ LabDevice[s] = LabDevice[t] => s = t

-----------------------------------------------------------------------------
(* Inductive strengthenings, for the proofs of HomologationProofs.         *)

\* A call holds what its stage needs.
CallSound ==
    \A c \in Calls :
        /\ call[c].at # "idle" => call[c].s \in Sessions
        /\ call[c].at \in {"add", "remove", "read", "write"} => call[c].m \in Mappings
        /\ call[c].at \in {"params", "record", "link", "finish"} => call[c].p \in Profiles

\* The tree that "testing" needs; a purge takes it only from an old session.
HasTree(s) == probed[s] \/ finished[s] = "old"

\* A probe or a reset sends a session to "testing" only if it found the tree.
TreeSound ==
    /\ TestingHasTree
    /\ \A c \in Calls :
         /\ call[c].at # "idle" /\ call[c].back = "testing" => HasTree(call[c].s)
         /\ call[c].at = "settle" => HasTree(call[c].s)

\* The second pass does not count: its session has been in "testing" since.
ProbePending(s) == \E c \in Calls : /\ call[c].s = s
                                    /\ call[c].at \in ProbeStages \ {"pass2"}
ProbeSound ==
    /\ \A c \in Calls : call[c].back # "probing"
    /\ faults = 0 => \A s \in Sessions : status[s] = "probing" => ProbePending(s)

\* What Complete has made so far, and what it has in its hands.
Tested(params, s) == params # {} /\ params \subseteq {m \in tested : SessionOf[m] = s}
Homologated(p, s) == /\ p \in Profiles
                     /\ profile[p].session = s
                     /\ record[p] # "none"
ResultSound ==
    /\ \A m \in Mappings : row[m].read /\ row[m].write => m \in tested
    /\ HomologatedIsTested
    /\ \A s \in Sessions : generated[s] # NoProfile => Homologated(generated[s], s)
    /\ \A s \in Sessions : status[s] = "completed" => generated[s] # NoProfile
    /\ \A c \in Calls :
         /\ call[c].at \in {"create", "params", "record", "link", "finish"} =>
              Tested(call[c].params, call[c].s)
         /\ call[c].at \in {"params", "record", "link", "finish"} =>
              profile[call[c].p].session = call[c].s
         /\ call[c].at \in {"record", "link", "finish"} =>
              Tested(profile[call[c].p].params, call[c].s)
         /\ call[c].at \in {"link", "finish"} => record[call[c].p] # "none"
         /\ call[c].at = "finish" => generated[call[c].s] # NoProfile

-----------------------------------------------------------------------------
(* What the repository says, and the program does not do.                  *)

\* wizard.templ:122: "Abandonar esta sessao? Cancela o probe em andamento."
ProbeRuns(s) == \E c \in Calls : /\ call[c].s = s
                                 /\ call[c].at \in {"refresh", "settle", "pass2", "rollback"}

AbandonCancelsProbe ==
    [][\A s \in Sessions : status[s] = "abandoned" /\ ProbeRuns(s) =>
           status'[s] = "abandoned"]_vars
=============================================================================
